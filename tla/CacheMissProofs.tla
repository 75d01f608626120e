-------------------------- MODULE CacheMissProofs --------------------------
(***************************************************************************)
(* For every number of loads, slots, miss buffer entries, lines and        *)
(* threads, and every latency: the requests in the LFRQ are the loads that *)
(* wait, every waiting one is in the map of exactly one entry that will    *)
(* deliver its line, and no line is fetched twice.  For a core with one    *)
(* thread, a waiting fetch unit waits for an entry that will wake it.      *)
(*                                                                         *)
(* MissInv adds to these that a busy entry has cycles left (so that the    *)
(* cases of ClockEntry are exhaustive) and that the free part of the ring  *)
(* holds no load (so that a dispatched load does not overwrite one that    *)
(* waits).                                                                 *)
(***************************************************************************)
EXTENDS CacheMiss, TLAPS

MissInv == /\ TypeOK /\ CyclesLeft /\ RingFree
           /\ RequestsMatchLoads /\ WakeupsComplete /\ OneEntryPerLine

-----------------------------------------------------------------------------
\* An idle entry has nobody to wake.
LEMMA IdleMapEmpty ==
  ASSUME TypeOK, WakeupsComplete, NEW m \in Mb, missbufs[m].state = "idle"
  PROVE  missbufs[m].lfrqmap = {}
<1>1. ASSUME NEW s \in missbufs[m].lfrqmap PROVE FALSE
  <2>1. s \in waiting \ freemap
    BY <1>1 DEF WakeupsComplete
  <2>2. PICK n \in Busy : s \in missbufs[n].lfrqmap
    BY <2>1 DEF WakeupsComplete
  <2>3. n \in Mb /\ n # m
    BY <2>2 DEF Busy
  <2> QED
    BY <1>1, <2>2, <2>3 DEF WakeupsComplete
<1> QED
  BY <1>1

\* What initiate_miss() with result m does: it shares or allocates entry m, no other.
MissFacts(l, icache, bits, m) ==
  /\ missbufs' \in [Mb -> Entry]
  /\ CyclesLeft' /\ OneEntryPerLine'
  /\ Busy \subseteq Busy'
  /\ \A n \in Mb : n # m => missbufs'[n] = missbufs[n]
  /\ \A n \in Busy : /\ missbufs'[n].line = missbufs[n].line
                     /\ missbufs[n].dcache => missbufs'[n].dcache
                     /\ missbufs[n].icache => missbufs'[n].icache
  /\ m \in Mb => /\ m \in Busy' /\ missbufs'[m].line = l
                 /\ missbufs'[m].lfrqmap = missbufs[m].lfrqmap \cup bits
                 /\ icache => missbufs'[m].icache
                 /\ ~icache => missbufs'[m].dcache

\* initiate_miss() does what MissFacts says.
LEMMA InitiateFacts ==
  ASSUME MissInv, NEW l \in Line, NEW icache \in BOOLEAN, NEW t \in Thread \cup {Bogus},
         NEW level \in Level, NEW bits \in SUBSET Slot, NEW m \in Mb \cup {NoMb},
         InitiateMiss(l, icache, t, level, bits, m)
  PROVE  MissFacts(l, icache, bits, m)
<1> USE DEF MissInv
<1>0. missbufs \in [Mb -> Entry] /\ \A k \in Mb : missbufs[k] \in Entry
  BY DEF TypeOK
<1>n. NoMb \notin Mb
  BY MissAssumption DEF Mb, NoMb
<1>1. CASE IsLsb(m, Find(l)) /\ missbufs' = [missbufs EXCEPT ![m] = ShareEntry(@, icache, bits)]
  <2>1. m \in Mb /\ m \in Busy /\ missbufs[m].line = l
    BY <1>1 DEF IsLsb, Find, Busy
  <2> DEFINE e == missbufs[m]
             f == ShareEntry(e, icache, bits)
  <2>2. e \in Entry
    BY <2>1, <1>0
  <2>3. /\ f \in Entry
        /\ f.line = e.line /\ f.state = e.state /\ f.cycles = e.cycles
        /\ f.dcache = (e.dcache \/ ~icache) /\ f.icache = (e.icache \/ icache)
        /\ f.lfrqmap = e.lfrqmap \cup bits
    BY <2>2 DEF ShareEntry, Entry
  <2>4. /\ missbufs' \in [Mb -> Entry] /\ missbufs'[m] = f
        /\ \A n \in Mb : n # m => missbufs'[n] = missbufs[n]
    BY <1>0, <1>1, <2>1, <2>3
  <2> HIDE DEF e, f
  <2>5. Busy' = Busy /\ \A n \in Mb : missbufs'[n].line = missbufs[n].line /\ missbufs'[n].cycles = missbufs[n].cycles
    BY <2>3, <2>4 DEF Busy, e
  <2>6. CyclesLeft' /\ OneEntryPerLine'
    BY <2>5 DEF CyclesLeft, OneEntryPerLine, Busy
  <2> QED
    BY <2>1, <2>3, <2>4, <2>5, <2>6 DEF MissFacts, Busy, e
<1>2. CASE /\ Find(l) = {} /\ IsLsb(m, Mb \ Busy)
           /\ missbufs' = [missbufs EXCEPT ![m] = NewEntry(l, icache, t, level, bits)]
  <2>1. m \in Mb /\ m \notin Busy
    BY <1>2 DEF IsLsb
  <2>2. missbufs[m].state = "idle" /\ missbufs[m].lfrqmap = {}
    BY <2>1, IdleMapEmpty DEF Busy
  <2> DEFINE f == NewEntry(l, icache, t, level, bits)
  <2>3. /\ f \in Entry /\ f.state # "idle" /\ f.cycles > 0
        /\ f.line = l /\ f.dcache = ~icache /\ f.icache = icache /\ f.lfrqmap = bits
    <3>1. FirstState(level) \in State /\ FirstState(level) # "idle"
      BY DEF FirstState, State
    <3>2. Latency(level) \in Nat /\ Latency(level) > 0
      BY MissAssumption DEF Latency
    <3> QED
      BY <3>1, <3>2 DEF NewEntry, Entry
  <2>4. /\ missbufs' \in [Mb -> Entry] /\ missbufs'[m] = f
        /\ \A n \in Mb : n # m => missbufs'[n] = missbufs[n]
    BY <1>0, <1>2, <2>1, <2>3
  <2> HIDE DEF f
  <2>5. Busy' = Busy \cup {m}
    BY <2>1, <2>3, <2>4 DEF Busy
  <2>6. CyclesLeft'
    BY <2>1, <2>3, <2>4, <2>5 DEF CyclesLeft, Busy
  <2>7. \A n \in Busy : missbufs[n].line # l
    BY <1>2 DEF Find
  <2>8. OneEntryPerLine'
    BY <2>1, <2>3, <2>4, <2>5, <2>7 DEF OneEntryPerLine, Busy
  <2> QED
    BY <2>1, <2>2, <2>3, <2>4, <2>5, <2>6, <2>8 DEF MissFacts, Busy
<1>3. CASE Find(l) = {} /\ Busy = Mb /\ m = NoMb /\ UNCHANGED missbufs
  BY <1>0, <1>n, <1>3 DEF MissFacts, CyclesLeft, OneEntryPerLine, Busy
<1> QED
  BY <1>1, <1>2, <1>3 DEF InitiateMiss

-----------------------------------------------------------------------------
\* The initial state satisfies MissInv.
LEMMA InitInv == Init => MissInv
<1> SUFFICES ASSUME Init PROVE MissInv
  OBVIOUS
<1>0. IdleEntry \in Entry /\ IdleEntry.state = "idle" /\ IdleEntry.lfrqmap = {}
  BY DEF IdleEntry, Entry, State
<1>1. Busy = {}
  BY <1>0 DEF Init, Busy
<1>2. \A t \in Thread, r \in Rob : rob[t][r] = FreeRob /\ FreeRob \in RobEntry
  BY DEF Init, FreeRob, RobEntry, NoSlot
<1>3. reqs \in [Slot -> LoadReq]
  <2>1. PICK t0 \in Thread, l0 \in Line : TRUE
    BY MissAssumption
  <2>2. 0 \in Rob
    BY MissAssumption DEF Rob
  <2>3. [thread |-> t0, rob |-> 0, line |-> l0] \in LoadReq
    BY <2>1, <2>2 DEF LoadReq
  <2>4. (CHOOSE q \in LoadReq : TRUE) \in LoadReq
    BY <2>3
  <2> QED
    BY <2>4 DEF Init
<1>4. TypeOK
  <2>1. 0 \in Rob /\ 0 \in 0..MaxRecoveries
    BY MissAssumption DEF Rob
  <2>2. missbufs \in [Mb -> Entry]
    BY <1>0 DEF Init
  <2>3. rob \in [Thread -> [Rob -> RobEntry]]
    BY <1>2 DEF Init
  <2> QED
    BY <1>3, <2>1, <2>2, <2>3 DEF Init, TypeOK
<1>5. CyclesLeft /\ OneEntryPerLine
  BY <1>1 DEF CyclesLeft, OneEntryPerLine
<1>6. RingFree
  BY <1>2 DEF RingFree, FreeRob
<1>7. RequestsMatchLoads
  BY <1>2 DEF Init, RequestsMatchLoads, SlotsNameLoads, LoadHasSlot, FreeRob
<1>8. WakeupsComplete
  BY <1>0 DEF Init, WakeupsComplete
<1> QED
  BY <1>4, <1>5, <1>6, <1>7, <1>8 DEF MissInv

\* A miss that no load waits for (a store, a prefetch, a fetch) changes no map.
LEMMA PassiveMissInv ==
  ASSUME MissInv, NEW l \in Line, NEW icache \in BOOLEAN, NEW t \in Thread \cup {Bogus},
         NEW level \in Level, NEW m \in Mb \cup {NoMb},
         InitiateMiss(l, icache, t, level, {}, m),
         UNCHANGED <<lfrqVars, robVars, recoveries>>,
         fillwait' \in [Thread -> Line \cup {NoLine}]
  PROVE  MissInv'
<1>0. {} \in SUBSET Slot
  OBVIOUS
<1>1. MissFacts(l, icache, {}, m)
  BY <1>0, InitiateFacts
<1>u. /\ freemap' = freemap /\ waiting' = waiting /\ ready' = ready /\ reqs' = reqs
      /\ rob' = rob /\ head' = head /\ tail' = tail /\ recoveries' = recoveries
  BY DEF lfrqVars, robVars
<1>2. \A n \in Mb : missbufs'[n].lfrqmap = missbufs[n].lfrqmap
  BY <1>1 DEF MissFacts
<1>3. TypeOK'
  BY <1>1, <1>u DEF MissInv, TypeOK, MissFacts
<1>4. RingFree'
  BY <1>u DEF MissInv, RingFree, Age
<1>r. RequestsMatchLoads'
  BY <1>u DEF MissInv, RequestsMatchLoads, SlotsNameLoads, LoadHasSlot
<1>5. WakeupsComplete'
  BY <1>1, <1>2, <1>u DEF MissInv, WakeupsComplete, Busy, MissFacts
<1> QED
  BY <1>1, <1>3, <1>4, <1>r, <1>5 DEF MissInv, MissFacts

\* Next index of the ring.
LEMMA NextIdxType == \A i \in Rob : NextIdx(i) \in Rob
BY MissAssumption DEF NextIdx, Rob

\* Ages in the ring: distinct, and one more for the next index.
LEMMA RingAges ==
  ASSUME TypeOK, NEW t \in Thread
  PROVE  /\ \A i \in Rob : Age(t, i) \in 0..(RobSize - 1) /\ Age(t, head[t]) = 0
         /\ \A i, j \in Rob : Age(t, i) = Age(t, j) => i = j
         /\ \A i \in Rob : NextIdx(i) # head[t] => Age(t, NextIdx(i)) = Age(t, i) + 1
<1>1. head[t] \in Rob /\ RobSize \in Nat \ {0}
  BY MissAssumption DEF TypeOK
<1> QED
  BY <1>1 DEF Age, NextIdx, Rob

\* Entry r of thread t becomes e, and no other changes.
OnlyRob(t, r, e) ==
  /\ rob' \in [Thread -> [Rob -> RobEntry]]
  /\ rob'[t][r] = e
  /\ \A u \in Thread, q \in Rob : (u # t \/ q # r) => rob'[u][q] = rob[u][q]

\* Assigning one entry of the ROB.
LEMMA RobUpdate ==
  ASSUME TypeOK, NEW t \in Thread, NEW r \in Rob, NEW e \in RobEntry,
         rob' = [rob EXCEPT ![t][r] = e]
  PROVE  OnlyRob(t, r, e)
<1>1. rob \in [Thread -> [Rob -> RobEntry]]
  BY DEF TypeOK
<1> QED
  BY <1>1 DEF OnlyRob

\* An entry that is not and does not come on the cache miss list keeps loads and requests matched.
LEMMA QuietRob ==
  ASSUME TypeOK, RequestsMatchLoads, NEW t \in Thread, NEW r \in Rob, NEW e \in RobEntry,
         rob[t][r].list # "cache_miss", e.list # "cache_miss", e.lfrqslot = NoSlot,
         OnlyRob(t, r, e), UNCHANGED lfrqVars
  PROVE  RequestsMatchLoads'
<1>3. rob'[t][r] = e /\ \A u \in Thread, q \in Rob : (u # t \/ q # r) => rob'[u][q] = rob[u][q]
  BY DEF OnlyRob
<1>4. freemap' = freemap /\ reqs' = reqs
  BY DEF lfrqVars
<1>5. \A s \in Slot : reqs[s].thread \in Thread /\ reqs[s].rob \in Rob
  BY DEF TypeOK, LoadReq
<1>6. \A s \in Slot \ freemap : reqs[s].thread # t \/ reqs[s].rob # r
  BY <1>5 DEF RequestsMatchLoads, SlotsNameLoads
<1>7. \A s \in Slot \ freemap : rob'[reqs[s].thread][reqs[s].rob] = rob[reqs[s].thread][reqs[s].rob]
  BY <1>3, <1>5, <1>6
<1>8. SlotsNameLoads'
  BY <1>4, <1>7 DEF RequestsMatchLoads, SlotsNameLoads
<1>9. ASSUME NEW u \in Thread, NEW q \in Rob PROVE LoadHasSlot(u, q)'
  <2>1. CASE u = t /\ q = r
    BY <1>3, <2>1 DEF LoadHasSlot
  <2>2. CASE u # t \/ q # r
    <3>1. rob'[u][q] = rob[u][q] /\ LoadHasSlot(u, q)
      BY <1>3, <2>2 DEF RequestsMatchLoads
    <3> QED
      BY <1>4, <3>1 DEF LoadHasSlot
  <2> QED
    BY <2>1, <2>2
<1> QED
  BY <1>8, <1>9 DEF RequestsMatchLoads

\* The miss buffer and the LFRQ are untouched.
LEMMA QuietMissbuf ==
  ASSUME MissInv, UNCHANGED <<lfrqVars, missbufs>>
  PROVE  CyclesLeft' /\ WakeupsComplete' /\ OneEntryPerLine'
<1>1. freemap' = freemap /\ waiting' = waiting /\ ready' = ready /\ reqs' = reqs /\ missbufs' = missbufs
  BY DEF lfrqVars
<1>2. Busy' = Busy
  BY <1>1 DEF Busy
<1> QED
  BY <1>1, <1>2 DEF MissInv, CyclesLeft, WakeupsComplete, OneEntryPerLine

\* dispatch() puts the load into a free entry of the ring.
LEMMA DispatchInv == ASSUME MissInv, NEW t \in Thread, Dispatch(t) PROVE MissInv'
<1> DEFINE e == [rob[t][tail[t]] EXCEPT !.list = "dispatched"]
<1>1. /\ rob \in [Thread -> [Rob -> RobEntry]] /\ tail[t] \in Rob /\ head[t] \in Rob
      /\ head \in [Thread -> Rob] /\ tail \in [Thread -> Rob]
  BY DEF MissInv, TypeOK
<1>2. rob[t][tail[t]].list = "free"
  <2>1. Age(t, tail[t]) >= Age(t, tail[t])
    BY <1>1, MissAssumption DEF Age, Rob
  <2> QED
    BY <1>1, <2>1 DEF MissInv, RingFree
<1>3. rob[t][tail[t]].lfrqslot = NoSlot
  BY <1>1, <1>2 DEF MissInv, RequestsMatchLoads, SlotsNameLoads, LoadHasSlot
<1>4. e \in RobEntry /\ e.list = "dispatched" /\ e.lfrqslot = NoSlot
  <2>1. rob[t][tail[t]] \in RobEntry
    BY <1>1
  <2> QED
    BY <1>3, <2>1 DEF RobEntry
<1>5. rob' = [rob EXCEPT ![t][tail[t]] = e]
  BY <1>1 DEF Dispatch
<1> HIDE DEF e
<1>o. OnlyRob(t, tail[t], e)
  BY <1>1, <1>4, <1>5, RobUpdate DEF MissInv
<1>6. RequestsMatchLoads' /\ rob' \in [Thread -> [Rob -> RobEntry]]
  <2>1. RequestsMatchLoads'
    BY <1>1, <1>2, <1>4, <1>o, QuietRob DEF MissInv, Dispatch
  <2> QED
    BY <1>o, <2>1 DEF OnlyRob
<1>7. CyclesLeft' /\ WakeupsComplete' /\ OneEntryPerLine'
  BY QuietMissbuf DEF Dispatch
<1>8. tail' = [tail EXCEPT ![t] = NextIdx(tail[t])] /\ head' = head
  BY DEF Dispatch
<1>9. TypeOK'
  BY <1>1, <1>6, <1>8, NextIdxType DEF MissInv, TypeOK, Dispatch, lfrqVars
<1>10. RingFree'
  <2> SUFFICES ASSUME NEW u \in Thread, NEW r \in Rob, Age(u, r)' >= Age(u, tail[u])'
               PROVE  rob'[u][r].list = "free"
    BY DEF RingFree
  <2>1. CASE u # t
    BY <1>1, <1>5, <1>8, <2>1 DEF MissInv, RingFree, Age
  <2>2. CASE u = t
    <3>1. Age(t, r) >= Age(t, tail[t]) /\ r # tail[t]
      <4>1. Age(t, r)' = Age(t, r) /\ Age(t, tail[t])' = Age(t, NextIdx(tail[t]))
        BY <1>1, <1>8 DEF Age
      <4>2. NextIdx(tail[t]) # head[t]
        BY DEF Dispatch
      <4>3. Age(t, NextIdx(tail[t])) = Age(t, tail[t]) + 1
        BY <1>1, <4>2, RingAges DEF MissInv
      <4>4. Age(t, r) \in Nat /\ Age(t, tail[t]) \in Nat
        BY <1>1, RingAges DEF MissInv
      <4> QED
        BY <2>2, <4>1, <4>3, <4>4
    <3> QED
      BY <1>1, <1>5, <2>2, <3>1 DEF MissInv, RingFree
  <2> QED
    BY <2>1, <2>2
<1> QED
  BY <1>6, <1>7, <1>9, <1>10 DEF MissInv

\* A load that hits, or faults, touches no queue.
LEMMA CompleteInv == ASSUME MissInv, NEW t \in Thread, NEW r \in Rob, Complete(t, r) PROVE MissInv'
<1> DEFINE e == [rob[t][r] EXCEPT !.list = "completed"]
<1>1. rob \in [Thread -> [Rob -> RobEntry]] /\ rob[t][r].list = "dispatched"
  BY DEF MissInv, TypeOK, Complete
<1>2. rob[t][r].lfrqslot = NoSlot
  BY <1>1 DEF MissInv, RequestsMatchLoads, SlotsNameLoads, LoadHasSlot
<1>3. e \in RobEntry /\ e.list = "completed" /\ e.lfrqslot = NoSlot
  <2>1. rob[t][r] \in RobEntry
    BY <1>1
  <2> QED
    BY <1>2, <2>1 DEF RobEntry
<1>4. rob' = [rob EXCEPT ![t][r] = e]
  BY <1>1 DEF Complete
<1> HIDE DEF e
<1>o. OnlyRob(t, r, e)
  BY <1>3, <1>4, RobUpdate DEF MissInv
<1>5. RequestsMatchLoads' /\ rob' \in [Thread -> [Rob -> RobEntry]]
  <2>1. RequestsMatchLoads'
    BY <1>1, <1>3, <1>o, QuietRob DEF MissInv, Complete
  <2> QED
    BY <1>o, <2>1 DEF OnlyRob
<1>6. CyclesLeft' /\ WakeupsComplete' /\ OneEntryPerLine'
  BY QuietMissbuf DEF Complete
<1>7. TypeOK'
  BY <1>5 DEF MissInv, TypeOK, Complete, lfrqVars
<1>8. RingFree'
  BY <1>1, <1>4 DEF MissInv, RingFree, Complete, Age
<1> QED
  BY <1>5, <1>6, <1>7, <1>8 DEF MissInv

\* commit() retires a load that waits for nothing.
LEMMA CommitInv == ASSUME MissInv, NEW t \in Thread, Commit(t) PROVE MissInv'
<1>1. /\ rob \in [Thread -> [Rob -> RobEntry]] /\ tail[t] \in Rob /\ head[t] \in Rob
      /\ head \in [Thread -> Rob] /\ tail \in [Thread -> Rob]
      /\ rob[t][head[t]].list = "completed"
  BY DEF MissInv, TypeOK, Commit
<1>2. FreeRob \in RobEntry /\ FreeRob.list = "free" /\ FreeRob.lfrqslot = NoSlot
  BY DEF FreeRob, RobEntry
<1>3. rob' = [rob EXCEPT ![t][head[t]] = FreeRob]
  BY DEF Commit
<1>o. OnlyRob(t, head[t], FreeRob)
  BY <1>1, <1>2, <1>3, RobUpdate DEF MissInv
<1>4. RequestsMatchLoads' /\ rob' \in [Thread -> [Rob -> RobEntry]]
  <2>1. RequestsMatchLoads'
    BY <1>1, <1>2, <1>o, QuietRob DEF MissInv, Commit
  <2> QED
    BY <1>o, <2>1 DEF OnlyRob
<1>5. CyclesLeft' /\ WakeupsComplete' /\ OneEntryPerLine'
  BY QuietMissbuf DEF Commit
<1>6. head' = [head EXCEPT ![t] = NextIdx(head[t])] /\ tail' = tail /\ head[t] # tail[t]
  BY DEF Commit
<1>7. TypeOK'
  BY <1>1, <1>4, <1>6, NextIdxType DEF MissInv, TypeOK, Commit, lfrqVars
<1>8. RingFree'
  <2> SUFFICES ASSUME NEW u \in Thread, NEW r \in Rob, Age(u, r)' >= Age(u, tail[u])'
               PROVE  rob'[u][r].list = "free"
    BY DEF RingFree
  <2>1. CASE u # t
    BY <1>1, <1>3, <1>6, <2>1 DEF MissInv, RingFree, Age
  <2>2. CASE u = t
    <3>1. r = head[t] \/ Age(t, r) >= Age(t, tail[t])
      <4> DEFINE A(i, h) == IF i >= h THEN i - h ELSE i + RobSize - h
      <4>1. /\ Age(t, r)' = A(r, NextIdx(head[t])) /\ Age(t, tail[t])' = A(tail[t], NextIdx(head[t]))
            /\ Age(t, r) = A(r, head[t]) /\ Age(t, tail[t]) = A(tail[t], head[t])
        BY <1>1, <1>6 DEF Age
      <4>2. A(r, NextIdx(head[t])) >= A(tail[t], NextIdx(head[t]))
        BY <2>2, <4>1
      <4>3. /\ head[t] \in Int /\ 0 <= head[t] /\ head[t] < RobSize
            /\ tail[t] \in Int /\ 0 <= tail[t] /\ tail[t] < RobSize
            /\ r \in Int /\ 0 <= r /\ r < RobSize /\ RobSize \in Int
        BY <1>1, MissAssumption, SMTT(30) DEF Rob
      <4>4. r = head[t] \/ A(r, head[t]) >= A(tail[t], head[t])
        BY <1>6, <4>2, <4>3 DEF NextIdx
      <4> QED
        BY <4>1, <4>4
    <3> QED
      BY <1>1, <1>2, <1>3, <2>2, <3>1 DEF MissInv, RingFree
  <2> QED
    BY <2>1, <2>2
<1> QED
  BY <1>4, <1>5, <1>7, <1>8 DEF MissInv

\* A load that misses gets a free slot, and an entry of its line gets the slot.
LEMMA IssueMissInv ==
  ASSUME MissInv, NEW t \in Thread, NEW r \in Rob, NEW l \in Line, NEW level \in Level,
         IssueMiss(t, r, l, level)
  PROVE  MissInv'
<1>1. PICK slot \in Slot, m \in Mb :
       /\ IsLsb(slot, freemap)
       /\ freemap' = freemap \ {slot} /\ waiting' = waiting \cup {slot}
       /\ reqs' = [reqs EXCEPT ![slot] = [thread |-> t, rob |-> r, line |-> l]]
       /\ InitiateMiss(l, FALSE, t, level, {slot}, m)
       /\ rob' = [rob EXCEPT ![t][r] = [list |-> "cache_miss", lfrqslot |-> slot]]
  BY DEF IssueMiss
<1>2. /\ ready' = ready /\ head' = head /\ tail' = tail /\ fillwait' = fillwait /\ recoveries' = recoveries
      /\ rob[t][r].list = "dispatched"
  BY DEF IssueMiss
<1>3. slot \in freemap
  BY <1>1 DEF IsLsb
<1>4. MissFacts(l, FALSE, {slot}, m)
  <2>1. {slot} \in SUBSET Slot /\ t \in Thread \cup {Bogus} /\ FALSE \in BOOLEAN /\ m \in Mb \cup {NoMb}
    OBVIOUS
  <2> QED
    BY <1>1, <2>1, InitiateFacts
<1> DEFINE e == [list |-> "cache_miss", lfrqslot |-> slot]
<1>5. e \in RobEntry /\ e.list = "cache_miss" /\ e.lfrqslot = slot
  BY DEF RobEntry
<1>6. OnlyRob(t, r, e)
  BY <1>1, <1>5, RobUpdate DEF MissInv
<1> HIDE DEF e
<1>7. /\ reqs' \in [Slot -> LoadReq]
      /\ reqs'[slot].thread = t /\ reqs'[slot].rob = r /\ reqs'[slot].line = l
      /\ \A s \in Slot : s # slot => reqs'[s] = reqs[s]
  <2>1. [thread |-> t, rob |-> r, line |-> l] \in LoadReq
    BY DEF LoadReq
  <2> QED
    BY <1>1, <2>1 DEF MissInv, TypeOK
<1>8. TypeOK'
  BY <1>1, <1>2, <1>4, <1>6, <1>7 DEF MissInv, TypeOK, MissFacts, OnlyRob
<1>9. RingFree'
  <2>1. ~(Age(t, r) >= Age(t, tail[t]))
    BY <1>2 DEF MissInv, RingFree
  <2>2. \A u \in Thread, q \in Rob : Age(u, q)' = Age(u, q) /\ Age(u, tail[u])' = Age(u, tail[u])
    BY <1>2 DEF Age
  <2> QED
    BY <1>6, <2>1, <2>2 DEF MissInv, RingFree, OnlyRob
<1>10. \A s \in Slot : reqs[s].thread \in Thread /\ reqs[s].rob \in Rob
  BY DEF MissInv, TypeOK, LoadReq
<1>11. SlotsNameLoads'
  <2> SUFFICES ASSUME NEW s \in Slot \ freemap'
               PROVE  /\ rob'[reqs'[s].thread][reqs'[s].rob].list = "cache_miss"
                      /\ rob'[reqs'[s].thread][reqs'[s].rob].lfrqslot = s
    BY DEF SlotsNameLoads
  <2>1. CASE s = slot
    BY <1>5, <1>6, <1>7, <2>1 DEF OnlyRob
  <2>2. CASE s # slot
    <3>1. s \in Slot \ freemap /\ reqs'[s] = reqs[s]
      BY <1>1, <1>7, <2>2
    <3>2. /\ rob[reqs[s].thread][reqs[s].rob].list = "cache_miss"
          /\ rob[reqs[s].thread][reqs[s].rob].lfrqslot = s
      BY <3>1 DEF MissInv, RequestsMatchLoads, SlotsNameLoads
    <3>3. reqs[s].thread # t \/ reqs[s].rob # r
      BY <1>2, <3>2
    <3>4. rob'[reqs[s].thread][reqs[s].rob] = rob[reqs[s].thread][reqs[s].rob]
      BY <1>6, <1>10, <3>3 DEF OnlyRob
    <3> QED
      BY <3>1, <3>2, <3>4
  <2> QED
    BY <2>1, <2>2
<1>12. ASSUME NEW u \in Thread, NEW q \in Rob PROVE LoadHasSlot(u, q)'
  <2>1. CASE u = t /\ q = r
    <3>1. rob'[u][q] = e /\ slot \in Slot \ freemap'
      BY <1>1, <1>6, <2>1 DEF OnlyRob
    <3> QED
      BY <1>5, <1>7, <2>1, <3>1 DEF LoadHasSlot
  <2>2. CASE u # t \/ q # r
    <3>1. rob'[u][q] = rob[u][q] /\ LoadHasSlot(u, q)
      BY <1>6, <2>2 DEF OnlyRob, MissInv, RequestsMatchLoads
    <3>2. CASE rob[u][q].list = "cache_miss"
      <4>1. rob[u][q].lfrqslot \in Slot \ freemap' /\ reqs'[rob[u][q].lfrqslot] = reqs[rob[u][q].lfrqslot]
        BY <1>1, <1>3, <1>7, <3>1, <3>2 DEF LoadHasSlot
      <4> QED
        BY <3>1, <3>2, <4>1 DEF LoadHasSlot
    <3>3. CASE rob[u][q].list # "cache_miss"
      BY <3>1, <3>3 DEF LoadHasSlot
    <3> QED
      BY <3>2, <3>3
  <2> QED
    BY <2>1, <2>2
<1>13. \A n \in Mb : missbufs'[n].lfrqmap = IF n = m THEN missbufs[n].lfrqmap \cup {slot} ELSE missbufs[n].lfrqmap
  BY <1>4 DEF MissFacts
<1>14. \A n \in Mb : slot \notin missbufs[n].lfrqmap
  BY <1>3 DEF MissInv, WakeupsComplete
<1>15. WakeupsComplete'
  <2>1. \A s \in Slot \ freemap' : s \in waiting' \/ s \in ready'
    BY <1>1, <1>2 DEF MissInv, WakeupsComplete
  <2>2. ready' \cap (waiting' \cup freemap') = {}
    <3>1. ready \cap (waiting \cup freemap) = {}
      BY DEF MissInv, WakeupsComplete
    <3> QED
      BY <1>1, <1>2, <1>3, <3>1
  <2>3. ASSUME NEW s \in waiting' \ freemap'
        PROVE  \E n \in Busy' : /\ s \in missbufs'[n].lfrqmap
                                /\ missbufs'[n].line = reqs'[s].line /\ missbufs'[n].dcache
    <3>1. CASE s = slot
      BY <1>4, <1>7, <1>13, <3>1 DEF MissFacts
    <3>2. CASE s # slot
      <4>1. s \in waiting \ freemap /\ s \in Slot
        BY <1>1, <2>3, <3>2 DEF MissInv, TypeOK
      <4>2. PICK n \in Busy : s \in missbufs[n].lfrqmap /\ missbufs[n].line = reqs[s].line /\ missbufs[n].dcache
        BY <4>1 DEF MissInv, WakeupsComplete
      <4>3. n \in Mb /\ n \in Busy' /\ missbufs'[n].line = missbufs[n].line /\ missbufs'[n].dcache
        BY <1>4, <4>2 DEF MissFacts, Busy
      <4>4. s \in missbufs'[n].lfrqmap
        BY <1>13, <4>2, <4>3
      <4> QED
        BY <1>7, <3>2, <4>1, <4>2, <4>3, <4>4
    <3> QED
      BY <3>1, <3>2
  <2>4. \A n \in Mb : missbufs'[n].lfrqmap \subseteq waiting' \ freemap'
    <3>1. \A n \in Mb : missbufs[n].lfrqmap \subseteq waiting \ freemap
      BY DEF MissInv, WakeupsComplete
    <3>2. waiting' \ freemap' = (waiting \ freemap) \cup {slot}
      BY <1>1, <1>3
    <3> QED
      BY <1>13, <3>1, <3>2
  <2>5. \A n, k \in Mb : n # k => missbufs'[n].lfrqmap \cap missbufs'[k].lfrqmap = {}
    <3>1. \A n, k \in Mb : n # k => missbufs[n].lfrqmap \cap missbufs[k].lfrqmap = {}
      BY DEF MissInv, WakeupsComplete
    <3>2. ASSUME NEW n \in Mb, NEW k \in Mb, n # k, NEW s \in missbufs'[n].lfrqmap, s \in missbufs'[k].lfrqmap
          PROVE  FALSE
      <4>1. (n # m => s \in missbufs[n].lfrqmap) /\ (k # m => s \in missbufs[k].lfrqmap)
        BY <1>13, <3>2
      <4>2. s = slot \/ (s \in missbufs[n].lfrqmap /\ s \in missbufs[k].lfrqmap)
        BY <1>13, <3>2
      <4> QED
        BY <1>14, <3>1, <3>2, <4>1, <4>2
    <3> QED
      BY <3>2
  <2> QED
    BY <2>1, <2>2, <2>3, <2>4, <2>5 DEF WakeupsComplete
<1> QED
  BY <1>4, <1>8, <1>9, <1>11, <1>12, <1>15 DEF MissInv, MissFacts, RequestsMatchLoads

-----------------------------------------------------------------------------
\* Two entries of the same line, for the same users.
SameUse(f, e) == /\ f.line = e.line /\ f.lfrqmap = e.lfrqmap
                 /\ f.dcache = e.dcache /\ f.icache = e.icache

\* An entry that moves on keeps what it is for.
LEMMA AdvanceFacts ==
  ASSUME NEW e \in Entry, NEW state \in State, NEW cycles \in Nat
  PROVE  /\ Advance(e, state, cycles) \in Entry
         /\ Advance(e, state, cycles).state = state /\ Advance(e, state, cycles).cycles = cycles
         /\ SameUse(Advance(e, state, cycles), e)
BY DEF Advance, Entry, SameUse

\* A busy entry has cycles left.
Counting(e) == e.state = "idle" \/ e.cycles > 0

\* A cycle of one entry: it is delivered, stays idle, or keeps what it is for.
LEMMA ClockEntryFacts ==
  ASSUME NEW e \in Entry, Counting(e)
  PROVE  /\ ClockEntry(e) \in Entry /\ Counting(ClockEntry(e))
         /\ IF e.state # "idle" /\ ~(e.state = "deliver_to_L1" /\ e.cycles = 1)
            THEN ClockEntry(e).state # "idle" /\ SameUse(ClockEntry(e), e)
            ELSE /\ ClockEntry(e).state = "idle"
                 /\ ClockEntry(e).lfrqmap \in {{}, e.lfrqmap}
<1>0. /\ e.state \in State /\ e.cycles \in Nat
      /\ L2Latency \in Nat /\ L2Latency > 0 /\ L3Latency \in Nat /\ L3Latency > 0
  BY MissAssumption DEF Entry, State
<1>l. L2Latency \in Nat /\ L3Latency \in Nat
  BY <1>0
<1>s. "deliver_to_L2" \in State /\ "deliver_to_L1" \in State
  BY DEF State
<1>1. CASE e.state = "idle"
  BY <1>1 DEF ClockEntry
<1>2. CASE e.state # "idle" /\ e.cycles > 1
  <2>1. ClockEntry(e) = Advance(e, e.state, e.cycles - 1) /\ e.cycles - 1 \in Nat /\ e.cycles - 1 > 0
    BY <1>0, <1>2 DEF ClockEntry
  <2>2. e.cycles # 1
    BY <1>0, <1>2
  <2>3. /\ ClockEntry(e) \in Entry /\ ClockEntry(e).state = e.state /\ ClockEntry(e).cycles = e.cycles - 1
        /\ SameUse(ClockEntry(e), e)
    BY <1>0, <2>1, AdvanceFacts
  <2>4. Counting(ClockEntry(e))
    BY <2>1, <2>3 DEF Counting
  <2> QED
    BY <1>2, <2>2, <2>3, <2>4
<1>3. CASE e.state = "deliver_to_L3" /\ e.cycles = 1
  <2>1. ClockEntry(e) = Advance(e, "deliver_to_L2", L3Latency)
    BY <1>3 DEF ClockEntry
  <2> DEFINE f == Advance(e, "deliver_to_L2", L3Latency)
  <2>a. f \in Entry /\ f.state = "deliver_to_L2" /\ f.cycles = L3Latency /\ SameUse(f, e)
    BY <1>l, <1>s, AdvanceFacts
  <2>2. /\ ClockEntry(e) \in Entry /\ ClockEntry(e).state = "deliver_to_L2" /\ ClockEntry(e).cycles = L3Latency
        /\ SameUse(ClockEntry(e), e)
    BY <2>1, <2>a
  <2>3. Counting(ClockEntry(e))
    BY <1>0, <2>2 DEF Counting
  <2> QED
    BY <1>3, <2>2, <2>3
<1>4. CASE e.state = "deliver_to_L2" /\ e.cycles = 1
  <2>1. ClockEntry(e) = Advance(e, "deliver_to_L1", L2Latency)
    BY <1>4 DEF ClockEntry
  <2> DEFINE f == Advance(e, "deliver_to_L1", L2Latency)
  <2>a. f \in Entry /\ f.state = "deliver_to_L1" /\ f.cycles = L2Latency /\ SameUse(f, e)
    BY <1>l, <1>s, AdvanceFacts
  <2>2. /\ ClockEntry(e) \in Entry /\ ClockEntry(e).state = "deliver_to_L1" /\ ClockEntry(e).cycles = L2Latency
        /\ SameUse(ClockEntry(e), e)
    BY <2>1, <2>a
  <2>3. Counting(ClockEntry(e))
    BY <1>0, <2>2 DEF Counting
  <2> QED
    BY <1>4, <2>2, <2>3
<1>5. CASE e.state = "deliver_to_L1" /\ e.cycles = 1
  <2>1. ClockEntry(e) = IdleEntry
    BY <1>5 DEF ClockEntry
  <2> QED
    BY <1>5, <2>1 DEF IdleEntry, Entry, State, Counting
<1>6. \/ e.state = "idle"
      \/ e.state # "idle" /\ e.cycles > 1
      \/ e.state = "deliver_to_L3" /\ e.cycles = 1
      \/ e.state = "deliver_to_L2" /\ e.cycles = 1
      \/ e.state = "deliver_to_L1" /\ e.cycles = 1
  <2>1. e.state = "idle" \/ e.cycles = 1 \/ e.cycles > 1
    <3>1. e.state = "idle" \/ e.cycles > 0
      BY DEF Counting
    <3>2. \A n \in Nat : n > 0 => n = 1 \/ n > 1
      OBVIOUS
    <3> QED
      BY <1>0, <3>1, <3>2
  <2> QED
    BY <1>0, <2>1 DEF State
<1> QED
  BY <1>1, <1>2, <1>3, <1>4, <1>5, <1>6

\* No two slots in use name the same load, and loads are named with a valid index.
LEMMA SlotFacts ==
  ASSUME MissInv, NEW s \in Slot \ freemap
  PROVE  /\ reqs[s].thread \in Thread /\ reqs[s].rob \in Rob
         /\ rob[reqs[s].thread][reqs[s].rob].list = "cache_miss"
         /\ rob[reqs[s].thread][reqs[s].rob].lfrqslot = s
<1>1. reqs[s] \in LoadReq
  BY DEF MissInv, TypeOK
<1> QED
  BY <1>1 DEF MissInv, RequestsMatchLoads, SlotsNameLoads, LoadReq

\* Sets of slots: the waiting ones, the ready ones and the free ones.
LEMMA SlotSets ==
  ASSUME MissInv
  PROVE  /\ freemap \subseteq Slot /\ waiting \subseteq Slot /\ ready \subseteq Slot
         /\ \A s \in ready : s \notin waiting /\ s \notin freemap
         /\ \A m \in Mb : missbufs[m].lfrqmap \subseteq waiting \ freemap
         /\ \A m, n \in Mb : m # n => missbufs[m].lfrqmap \cap missbufs[n].lfrqmap = {}
BY DEF MissInv, TypeOK, WakeupsComplete

\* A cycle makes ready exactly the loads whose line arrives, and wakes loads that wait.
LEMMA ClockInv == ASSUME MissInv, Clock PROVE MissInv'
<1> DEFINE arrived == UNION {missbufs[m].lfrqmap : m \in {n \in Delivered : missbufs[n].dcache}}
<1>1. /\ freemap' = freemap \cup Woken
      /\ waiting' = waiting \ arrived
      /\ ready' = (ready \ Woken) \cup arrived
      /\ reqs' = reqs /\ head' = head /\ tail' = tail /\ recoveries' = recoveries
  BY DEF Clock
<1>2. /\ rob' = [t \in Thread |-> [r \in Rob |->
                  IF \E s \in Woken : reqs[s].thread = t /\ reqs[s].rob = r
                  THEN [list |-> "completed", lfrqslot |-> NoSlot]
                  ELSE rob[t][r]]]
      /\ missbufs' = [m \in Mb |-> ClockEntry(missbufs[m])]
      /\ fillwait' \in [Thread -> Line \cup {NoLine}]
  BY DEF Clock, MissInv, TypeOK
<1>3. Woken \subseteq ready /\ Woken \subseteq Slot \ freemap
  BY SlotSets DEF Woken
<1>4. arrived \subseteq waiting \ freemap
  BY SlotSets DEF Delivered
<1>5. \A s : s \in arrived <=> \E m \in Mb : m \in Delivered /\ missbufs[m].dcache /\ s \in missbufs[m].lfrqmap
  BY DEF Delivered
<1> HIDE DEF arrived
<1>6. \A m \in Mb : missbufs[m] \in Entry /\ Counting(missbufs[m])
  BY DEF MissInv, TypeOK, CyclesLeft, Busy, Counting
<1>7. \A m \in Mb :
        /\ missbufs'[m] = ClockEntry(missbufs[m])
        /\ missbufs'[m] \in Entry /\ Counting(missbufs'[m])
        /\ IF m \in Busy /\ m \notin Delivered
           THEN missbufs'[m].state # "idle" /\ SameUse(missbufs'[m], missbufs[m])
           ELSE missbufs'[m].state = "idle" /\ missbufs'[m].lfrqmap \in {{}, missbufs[m].lfrqmap}
  <2> SUFFICES ASSUME NEW m \in Mb
               PROVE  /\ missbufs'[m] = ClockEntry(missbufs[m])
                      /\ missbufs'[m] \in Entry /\ Counting(missbufs'[m])
                      /\ IF m \in Busy /\ m \notin Delivered
                         THEN missbufs'[m].state # "idle" /\ SameUse(missbufs'[m], missbufs[m])
                         ELSE missbufs'[m].state = "idle" /\ missbufs'[m].lfrqmap \in {{}, missbufs[m].lfrqmap}
    OBVIOUS
  <2>1. missbufs'[m] = ClockEntry(missbufs[m])
    BY <1>2
  <2>2. /\ m \in Busy <=> missbufs[m].state # "idle"
        /\ m \in Delivered <=> missbufs[m].state = "deliver_to_L1" /\ missbufs[m].cycles = 1
    BY DEF Busy, Delivered
  <2> QED
    BY <1>6, <2>1, <2>2, ClockEntryFacts
<1>8. Busy' = Busy \ Delivered
  BY <1>7 DEF Busy
<1>9. rob' \in [Thread -> [Rob -> RobEntry]]
  <2>1. [list |-> "completed", lfrqslot |-> NoSlot] \in RobEntry
    BY DEF RobEntry
  <2> QED
    BY <1>2, <2>1 DEF MissInv, TypeOK
<1>10. TypeOK'
  <2>1. missbufs' \in [Mb -> Entry]
    BY <1>2, <1>7
  <2>2. freemap' \subseteq Slot /\ waiting' \subseteq Slot /\ ready' \subseteq Slot
    BY <1>1, <1>3, <1>4, SlotSets
  <2> QED
    BY <1>1, <1>2, <1>9, <2>1, <2>2 DEF MissInv, TypeOK
<1>11. CyclesLeft' /\ OneEntryPerLine'
  <2>1. CyclesLeft'
    BY <1>7 DEF CyclesLeft, Counting, Busy
  <2>2. \A m \in Busy' : m \in Busy /\ missbufs'[m].line = missbufs[m].line
    BY <1>7, <1>8 DEF SameUse, Busy
  <2> QED
    BY <2>1, <2>2 DEF MissInv, OneEntryPerLine
<1>12. \A t \in Thread, r \in Rob :
         IF \E s \in Woken : reqs[s].thread = t /\ reqs[s].rob = r
         THEN /\ rob'[t][r].list = "completed" /\ rob'[t][r].lfrqslot = NoSlot
              /\ rob[t][r].list = "cache_miss"
         ELSE rob'[t][r] = rob[t][r]
  BY <1>2, <1>3, SlotFacts
<1>13. RingFree'
  <2>1. \A u \in Thread, q \in Rob : Age(u, q)' = Age(u, q) /\ Age(u, tail[u])' = Age(u, tail[u])
    BY <1>1 DEF Age
  <2>2. \A u \in Thread, q \in Rob : rob[u][q].list = "free" => rob'[u][q].list = "free"
    BY <1>12
  <2> QED
    BY <2>1, <2>2 DEF MissInv, RingFree
<1>14. SlotsNameLoads'
  <2> SUFFICES ASSUME NEW s \in Slot \ freemap'
               PROVE  /\ rob'[reqs[s].thread][reqs[s].rob].list = "cache_miss"
                      /\ rob'[reqs[s].thread][reqs[s].rob].lfrqslot = s
    BY <1>1 DEF SlotsNameLoads
  <2>1. s \in Slot \ freemap /\ s \notin Woken
    BY <1>1
  <2>2. ~ \E w \in Woken : reqs[w].thread = reqs[s].thread /\ reqs[w].rob = reqs[s].rob
    BY <1>3, <2>1, SlotFacts
  <2> QED
    BY <1>12, <2>1, <2>2, SlotFacts
<1>15. ASSUME NEW u \in Thread, NEW q \in Rob PROVE LoadHasSlot(u, q)'
  <2>1. CASE \E s \in Woken : reqs[s].thread = u /\ reqs[s].rob = q
    BY <1>12, <2>1 DEF LoadHasSlot
  <2>2. CASE ~ \E s \in Woken : reqs[s].thread = u /\ reqs[s].rob = q
    <3>1. rob'[u][q] = rob[u][q] /\ LoadHasSlot(u, q)
      BY <1>12, <2>2 DEF MissInv, RequestsMatchLoads
    <3>2. CASE rob[u][q].list = "cache_miss"
      <4>1. rob[u][q].lfrqslot \in Slot \ freemap'
        BY <1>1, <2>2, <3>1, <3>2 DEF LoadHasSlot
      <4> QED
        BY <1>1, <3>1, <3>2, <4>1 DEF LoadHasSlot
    <3>3. CASE rob[u][q].list # "cache_miss"
      BY <3>1, <3>3 DEF LoadHasSlot
    <3> QED
      BY <3>2, <3>3
  <2> QED
    BY <2>1, <2>2
<1>16. WakeupsComplete'
  <2>1. \A s \in Slot \ freemap' : s \in waiting' \/ s \in ready'
    BY <1>1 DEF MissInv, WakeupsComplete
  <2>2. ready' \cap (waiting' \cup freemap') = {}
    BY <1>1, <1>3, <1>4, SlotSets
  <2>3. ASSUME NEW s \in waiting' \ freemap'
        PROVE  \E n \in Busy' : /\ s \in missbufs'[n].lfrqmap
                                /\ missbufs'[n].line = reqs'[s].line /\ missbufs'[n].dcache
    <3>1. s \in waiting \ freemap /\ s \notin arrived
      BY <1>1, <2>3
    <3>2. PICK n \in Busy : s \in missbufs[n].lfrqmap /\ missbufs[n].line = reqs[s].line /\ missbufs[n].dcache
      BY <3>1 DEF MissInv, WakeupsComplete
    <3>3. n \in Mb /\ n \notin Delivered
      BY <1>5, <3>1, <3>2 DEF Busy
    <3>4. n \in Busy' /\ SameUse(missbufs'[n], missbufs[n])
      BY <1>7, <1>8, <3>2, <3>3
    <3> QED
      BY <1>1, <3>2, <3>4 DEF SameUse
  <2>4. ASSUME NEW m \in Mb, NEW s \in missbufs'[m].lfrqmap
        PROVE  s \in missbufs[m].lfrqmap /\ m \notin Delivered
    <3>1. CASE m \in Busy /\ m \notin Delivered
      BY <1>7, <2>4, <3>1 DEF SameUse
    <3>2. CASE m \in Delivered
      <4>1. missbufs'[m] = IdleEntry
        BY <1>7, <3>2 DEF Delivered, ClockEntry
      <4> QED
        BY <2>4, <4>1 DEF IdleEntry
    <3>3. CASE m \notin Busy
      BY <1>7, <2>4, <3>3, IdleMapEmpty DEF Busy, MissInv
    <3> QED
      BY <3>1, <3>2, <3>3
  <2>5. ASSUME NEW m \in Mb, NEW s \in missbufs'[m].lfrqmap PROVE s \in waiting' \ freemap'
    <3>1. s \in missbufs[m].lfrqmap /\ m \notin Delivered /\ s \in waiting \ freemap
      BY <2>4, <2>5, SlotSets
    <3>2. s \notin arrived
      <4>1. ASSUME NEW n \in Mb, n \in Delivered, s \in missbufs[n].lfrqmap PROVE FALSE
        BY <3>1, <4>1, SlotSets
      <4> QED
        BY <1>5, <4>1
    <3>3. s \notin Woken
      BY <1>3, <3>1, SlotSets
    <3> QED
      BY <1>1, <3>1, <3>2, <3>3
  <2>6. \A m, n \in Mb : m # n => missbufs'[m].lfrqmap \cap missbufs'[n].lfrqmap = {}
    BY <2>4, SlotSets
  <2> QED
    BY <2>1, <2>2, <2>3, <2>5, <2>6 DEF WakeupsComplete
<1> QED
  BY <1>10, <1>11, <1>13, <1>14, <1>15, <1>16 DEF MissInv, RequestsMatchLoads

-----------------------------------------------------------------------------
(***************************************************************************)
(* The loads R of thread t give up their slots and become e, which waits   *)
(* for nothing: annul() and redispatch().                                  *)
(***************************************************************************)
RobReplaced(t, R, e) ==
  /\ rob' \in [Thread -> [Rob -> RobEntry]]
  /\ \A q \in R : rob'[t][q] = e
  /\ \A u \in Thread, q \in Rob : (u # t \/ q \notin R) => rob'[u][q] = rob[u][q]

\* Loads that give up their slots in this way keep the invariant.
LEMMA AnnulLoads ==
  ASSUME MissInv, NEW t \in Thread, NEW R \in SUBSET Rob, NEW e \in RobEntry,
         e.list # "cache_miss", e.lfrqslot = NoSlot,
         AnnulSlots(SlotsOf(t, R)), RobReplaced(t, R, e)
  PROVE  /\ freemap' \subseteq Slot /\ ready' \subseteq Slot /\ missbufs' \in [Mb -> Entry]
         /\ waiting' = waiting /\ reqs' = reqs
         /\ CyclesLeft' /\ OneEntryPerLine' /\ RequestsMatchLoads' /\ WakeupsComplete'
<1> DEFINE S == SlotsOf(t, R)
<1>1. /\ missbufs' = [m \in Mb |-> [missbufs[m] EXCEPT !.lfrqmap = @ \ S]]
      /\ freemap' = freemap \cup S /\ ready' = ready \ S /\ waiting' = waiting /\ reqs' = reqs
  BY DEF AnnulSlots
<1>2. \A s \in S : s \in Slot \ freemap /\ reqs[s].thread = t /\ reqs[s].rob \in R
  <2> SUFFICES ASSUME NEW q \in R, rob[t][q].lfrqslot # NoSlot
               PROVE  /\ rob[t][q].lfrqslot \in Slot \ freemap
                      /\ reqs[rob[t][q].lfrqslot].thread = t /\ reqs[rob[t][q].lfrqslot].rob \in R
    BY DEF SlotsOf
  <2>1. LoadHasSlot(t, q)
    BY DEF MissInv, RequestsMatchLoads
  <2> QED
    BY <2>1 DEF LoadHasSlot
<1>3. \A s \in Slot \ freemap : reqs[s].thread = t /\ reqs[s].rob \in R => s \in S
  <2> SUFFICES ASSUME NEW s \in Slot \ freemap, reqs[s].thread = t, reqs[s].rob \in R
               PROVE  s \in S
    OBVIOUS
  <2>1. rob[t][reqs[s].rob].lfrqslot = s
    BY SlotFacts
  <2>2. s # NoSlot
    BY MissAssumption DEF Slot, NoSlot
  <2> QED
    BY <2>1, <2>2 DEF SlotsOf
<1> HIDE DEF S
<1>4. \A m \in Mb : /\ missbufs[m] \in Entry /\ missbufs'[m] \in Entry
                    /\ missbufs'[m].state = missbufs[m].state /\ missbufs'[m].line = missbufs[m].line
                    /\ missbufs'[m].cycles = missbufs[m].cycles /\ missbufs'[m].dcache = missbufs[m].dcache
                    /\ missbufs'[m].lfrqmap = missbufs[m].lfrqmap \ S
  BY <1>1 DEF MissInv, TypeOK, Entry
<1>5. Busy' = Busy
  BY <1>4 DEF Busy
<1>6. CyclesLeft' /\ OneEntryPerLine'
  BY <1>4, <1>5 DEF MissInv, CyclesLeft, OneEntryPerLine, Busy
<1>7. SlotsNameLoads'
  <2> SUFFICES ASSUME NEW s \in Slot \ freemap'
               PROVE  /\ rob'[reqs[s].thread][reqs[s].rob].list = "cache_miss"
                      /\ rob'[reqs[s].thread][reqs[s].rob].lfrqslot = s
    BY <1>1 DEF SlotsNameLoads
  <2>1. s \in Slot \ freemap /\ s \notin S
    BY <1>1
  <2>2. reqs[s].thread # t \/ reqs[s].rob \notin R
    BY <1>3, <2>1
  <2> QED
    BY <2>1, <2>2, SlotFacts DEF RobReplaced
<1>8. ASSUME NEW u \in Thread, NEW q \in Rob PROVE LoadHasSlot(u, q)'
  <2>1. CASE u = t /\ q \in R
    BY <2>1 DEF LoadHasSlot, RobReplaced
  <2>2. CASE u # t \/ q \notin R
    <3>1. rob'[u][q] = rob[u][q] /\ LoadHasSlot(u, q)
      BY <2>2 DEF MissInv, RequestsMatchLoads, RobReplaced
    <3>2. CASE rob[u][q].list = "cache_miss"
      <4>1. rob[u][q].lfrqslot \in Slot \ freemap'
        BY <1>1, <1>2, <2>2, <3>1, <3>2 DEF LoadHasSlot
      <4> QED
        BY <1>1, <3>1, <3>2, <4>1 DEF LoadHasSlot
    <3>3. CASE rob[u][q].list # "cache_miss"
      BY <3>1, <3>3 DEF LoadHasSlot
    <3> QED
      BY <3>2, <3>3
  <2> QED
    BY <2>1, <2>2
<1>9. WakeupsComplete'
  <2>1. \A s \in Slot \ freemap' : s \in waiting' \/ s \in ready'
    BY <1>1 DEF MissInv, WakeupsComplete
  <2>2. ready' \cap (waiting' \cup freemap') = {}
    BY <1>1, SlotSets
  <2>3. ASSUME NEW s \in waiting' \ freemap'
        PROVE  \E n \in Busy' : /\ s \in missbufs'[n].lfrqmap
                                /\ missbufs'[n].line = reqs'[s].line /\ missbufs'[n].dcache
    <3>1. s \in waiting \ freemap /\ s \notin S
      BY <1>1, <2>3
    <3>2. PICK n \in Busy : s \in missbufs[n].lfrqmap /\ missbufs[n].line = reqs[s].line /\ missbufs[n].dcache
      BY <3>1 DEF MissInv, WakeupsComplete
    <3> QED
      BY <1>1, <1>4, <1>5, <3>1, <3>2, ZenonT(30) DEF Busy
  <2>4. \A m \in Mb : missbufs'[m].lfrqmap \subseteq waiting' \ freemap'
    BY <1>1, <1>4, SlotSets
  <2>5. \A m, n \in Mb : m # n => missbufs'[m].lfrqmap \cap missbufs'[n].lfrqmap = {}
    BY <1>4, SlotSets
  <2> QED
    BY <2>1, <2>2, <2>3, <2>4, <2>5 DEF WakeupsComplete
<1>10. freemap' \subseteq Slot /\ ready' \subseteq Slot /\ missbufs' \in [Mb -> Entry]
  BY <1>1, <1>2, <1>4, SlotSets
<1> QED
  BY <1>1, <1>6, <1>7, <1>8, <1>9, <1>10 DEF RequestsMatchLoads

\* Annulling the loads from r on takes all of them out of the LFRQ and the maps.
LEMMA RecoverInv == ASSUME MissInv, NEW t \in Thread, NEW r \in Rob, Recover(t, r) PROVE MissInv'
<1> DEFINE R == FromOn(t, r)
<1>1. R \in SUBSET Rob /\ r \in R
  <2>1. r \in InFlight(t) /\ Age(t, r) \in Nat
    BY RingAges DEF Recover, MissInv
  <2> QED
    BY <2>1 DEF FromOn, InFlight
<1>2. FreeRob \in RobEntry /\ FreeRob.list = "free" /\ FreeRob.lfrqslot = NoSlot
  BY DEF FreeRob, RobEntry
<1>3. /\ AnnulSlots(SlotsOf(t, R))
      /\ rob' = [rob EXCEPT ![t] = [i \in Rob |-> IF i \in R THEN FreeRob ELSE rob[t][i]]]
      /\ tail' = [tail EXCEPT ![t] = r] /\ head' = head
      /\ recoveries' \in 0..MaxRecoveries
      /\ fillwait' \in [Thread -> Line \cup {NoLine}]
  BY MissAssumption DEF Recover, AnnulFrom, MissInv, TypeOK
<1> HIDE DEF R
<1>4. RobReplaced(t, R, FreeRob)
  BY <1>1, <1>2, <1>3 DEF RobReplaced, MissInv, TypeOK
<1>5. /\ freemap' \subseteq Slot /\ ready' \subseteq Slot /\ missbufs' \in [Mb -> Entry]
      /\ waiting' = waiting /\ reqs' = reqs
      /\ CyclesLeft' /\ OneEntryPerLine' /\ RequestsMatchLoads' /\ WakeupsComplete'
  BY <1>1, <1>2, <1>3, <1>4, AnnulLoads
<1>6. TypeOK'
  BY <1>3, <1>4, <1>5 DEF MissInv, TypeOK, RobReplaced
<1>7. RingFree'
  <2> SUFFICES ASSUME NEW u \in Thread, NEW q \in Rob, Age(u, q)' >= Age(u, tail[u])'
               PROVE  rob'[u][q].list = "free"
    BY DEF RingFree
  <2>0. tail \in [Thread -> Rob] /\ head' = head
    BY <1>3 DEF MissInv, TypeOK
  <2>1. CASE u # t
    <3>1. Age(u, q) >= Age(u, tail[u])
      BY <1>3, <2>0, <2>1 DEF Age
    <3> QED
      BY <1>4, <2>1, <3>1 DEF MissInv, RingFree, RobReplaced
  <2>2. CASE u = t
    <3>1. Age(t, q) >= Age(t, r)
      BY <1>3, <2>0, <2>2 DEF Age
    <3>2. CASE q \in R
      BY <1>2, <1>4, <2>2, <3>2 DEF RobReplaced
    <3>3. CASE q \notin R
      <4>1. rob[t][q].list = "free"
        BY <3>1, <3>3 DEF R, FromOn, InFlight
      <4> QED
        BY <1>4, <2>2, <3>3, <4>1 DEF RobReplaced
    <3> QED
      BY <3>2, <3>3
  <2> QED
    BY <2>1, <2>2
<1> QED
  BY <1>5, <1>6, <1>7 DEF MissInv

\* A load dispatched again leaves the LFRQ and the maps.
LEMMA RedispatchInv == ASSUME MissInv, NEW t \in Thread, NEW r \in Rob, Redispatch(t, r) PROVE MissInv'
<1> DEFINE e == [list |-> "dispatched", lfrqslot |-> NoSlot]
<1>1. e \in RobEntry /\ e.list = "dispatched" /\ e.lfrqslot = NoSlot
  BY DEF RobEntry
<1>2. /\ AnnulSlots(SlotsOf(t, {r})) /\ {r} \in SUBSET Rob
      /\ rob' = [rob EXCEPT ![t][r] = e]
      /\ tail' = tail /\ head' = head /\ fillwait' = fillwait
      /\ recoveries' \in 0..MaxRecoveries
      /\ rob[t][r].list # "free"
  BY MissAssumption DEF Redispatch, MissInv, TypeOK, InFlight
<1> HIDE DEF e
<1>3. RobReplaced(t, {r}, e)
  <2>1. OnlyRob(t, r, e)
    BY <1>1, <1>2, RobUpdate DEF MissInv
  <2> QED
    BY <2>1 DEF OnlyRob, RobReplaced
<1>4. /\ freemap' \subseteq Slot /\ ready' \subseteq Slot /\ missbufs' \in [Mb -> Entry]
      /\ waiting' = waiting /\ reqs' = reqs
      /\ CyclesLeft' /\ OneEntryPerLine' /\ RequestsMatchLoads' /\ WakeupsComplete'
  BY <1>1, <1>2, <1>3, AnnulLoads
<1>5. TypeOK'
  BY <1>2, <1>3, <1>4 DEF MissInv, TypeOK, RobReplaced
<1>6. RingFree'
  <2>1. \A u \in Thread, q \in Rob : Age(u, q)' = Age(u, q) /\ Age(u, tail[u])' = Age(u, tail[u])
    BY <1>2 DEF Age
  <2>2. \A u \in Thread, q \in Rob : rob[u][q].list = "free" => rob'[u][q].list = "free"
    BY <1>2, <1>3 DEF RobReplaced
  <2> QED
    BY <2>1, <2>2 DEF MissInv, RingFree
<1> QED
  BY <1>4, <1>5, <1>6 DEF MissInv

\* A flush of one entry: dropped, or left with the loads of the other threads.
LEMMA ResetEntryFacts ==
  ASSUME NEW e \in Entry, NEW t \in Thread, Counting(e)
  PROVE  LET others == {s \in e.lfrqmap : reqs[s].thread # t}
             f == ResetEntry(e, t)
         IN  /\ f \in Entry /\ Counting(f) /\ f.lfrqmap = others
             /\ f.state # "idle" => e.state # "idle" /\ f.line = e.line
             /\ e.state # "idle" /\ others # {} =>
                  f.state # "idle" /\ f.line = e.line /\ f.dcache = e.dcache
<1> DEFINE others == {s \in e.lfrqmap : reqs[s].thread # t}
           g == [e EXCEPT !.lfrqmap = others]
<1>1. IdleEntry \in Entry /\ IdleEntry.state = "idle" /\ IdleEntry.lfrqmap = {}
  BY DEF IdleEntry, Entry, State
<1>2. /\ g \in Entry /\ g.state = e.state /\ g.line = e.line /\ g.cycles = e.cycles /\ g.dcache = e.dcache
      /\ g.lfrqmap = others
  BY DEF Entry
<1>3. ResetEntry(e, t) = IF e.state # "idle" /\ others = {} /\ e.thread = t THEN IdleEntry ELSE g
  BY DEF ResetEntry
<1> HIDE DEF g
<1>4. CASE e.state # "idle" /\ others = {} /\ e.thread = t
  BY <1>1, <1>3, <1>4 DEF Counting
<1>5. CASE ~(e.state # "idle" /\ others = {} /\ e.thread = t)
  <2>1. Counting(g)
    BY <1>2 DEF Counting
  <2> QED
    BY <1>2, <1>3, <1>5, <2>1
<1> QED
  BY <1>4, <1>5

\* A flush removes the loads of the thread and no other.
LEMMA FlushInv == ASSUME MissInv, NEW t \in Thread, Flush(t) PROVE MissInv'
<1> DEFINE mine == {s \in Slot \ freemap : reqs[s].thread = t}
           others(m) == {s \in missbufs[m].lfrqmap : reqs[s].thread # t}
<1>1. /\ freemap' = freemap \cup mine /\ waiting' = waiting \ mine /\ ready' = ready \ mine /\ reqs' = reqs
      /\ missbufs' = [m \in Mb |-> ResetEntry(missbufs[m], t)]
      /\ rob' = [rob EXCEPT ![t] = [r \in Rob |-> FreeRob]]
      /\ head' = [head EXCEPT ![t] = 0] /\ tail' = [tail EXCEPT ![t] = 0]
      /\ recoveries' \in 0..MaxRecoveries /\ fillwait' \in [Thread -> Line \cup {NoLine}]
  BY MissAssumption DEF Flush, MissInv, TypeOK
<1>2. FreeRob \in RobEntry /\ FreeRob.list = "free" /\ FreeRob.lfrqslot = NoSlot
  BY DEF FreeRob, RobEntry
<1>3. RobReplaced(t, Rob, FreeRob)
  BY <1>1, <1>2 DEF RobReplaced, MissInv, TypeOK
<1>4. \A m \in Mb :
        /\ missbufs'[m] \in Entry /\ Counting(missbufs'[m]) /\ missbufs'[m].lfrqmap = others(m)
        /\ m \in Busy' => m \in Busy /\ missbufs'[m].line = missbufs[m].line
        /\ m \in Busy /\ others(m) # {} =>
             m \in Busy' /\ missbufs'[m].line = missbufs[m].line /\ missbufs'[m].dcache = missbufs[m].dcache
  <2> SUFFICES ASSUME NEW m \in Mb
               PROVE  /\ missbufs'[m] \in Entry /\ Counting(missbufs'[m]) /\ missbufs'[m].lfrqmap = others(m)
                      /\ m \in Busy' => m \in Busy /\ missbufs'[m].line = missbufs[m].line
                      /\ m \in Busy /\ others(m) # {} =>
                           /\ m \in Busy' /\ missbufs'[m].line = missbufs[m].line
                           /\ missbufs'[m].dcache = missbufs[m].dcache
    OBVIOUS
  <2>1. missbufs'[m] = ResetEntry(missbufs[m], t)
    BY <1>1
  <2>2. missbufs[m] \in Entry /\ Counting(missbufs[m])
    BY DEF MissInv, TypeOK, CyclesLeft, Busy, Counting
  <2>3. (m \in Busy <=> missbufs[m].state # "idle") /\ (m \in Busy' <=> missbufs'[m].state # "idle")
    BY DEF Busy
  <2> QED
    BY <2>1, <2>2, <2>3, ResetEntryFacts
<1>5. TypeOK'
  <2>1. missbufs' \in [Mb -> Entry]
    BY <1>1, <1>4
  <2>2. 0 \in Rob
    BY MissAssumption DEF Rob
  <2>3. freemap' \subseteq Slot /\ waiting' \subseteq Slot /\ ready' \subseteq Slot
    BY <1>1, SlotSets
  <2> QED
    BY <1>1, <1>3, <2>1, <2>2, <2>3 DEF MissInv, TypeOK, RobReplaced
<1>6. CyclesLeft'
  BY <1>4 DEF CyclesLeft, Counting, Busy
<1>7. OneEntryPerLine'
  BY <1>4 DEF MissInv, OneEntryPerLine, Busy
<1>8. RingFree'
  <2> SUFFICES ASSUME NEW u \in Thread, NEW q \in Rob, Age(u, q)' >= Age(u, tail[u])'
               PROVE  rob'[u][q].list = "free"
    BY DEF RingFree
  <2>1. CASE u = t
    BY <1>2, <1>3, <2>1 DEF RobReplaced
  <2>2. CASE u # t
    <3>1. Age(u, q) >= Age(u, tail[u])
      <4>1. head'[u] = head[u] /\ tail'[u] = tail[u]
        BY <1>1, <2>2 DEF MissInv, TypeOK
      <4> QED
        BY <4>1 DEF Age
    <3> QED
      BY <1>3, <2>2, <3>1 DEF MissInv, RingFree, RobReplaced
  <2> QED
    BY <2>1, <2>2
<1>9. SlotsNameLoads'
  <2> SUFFICES ASSUME NEW s \in Slot \ freemap'
               PROVE  /\ rob'[reqs[s].thread][reqs[s].rob].list = "cache_miss"
                      /\ rob'[reqs[s].thread][reqs[s].rob].lfrqslot = s
    BY <1>1 DEF SlotsNameLoads
  <2>1. s \in Slot \ freemap /\ reqs[s].thread # t
    BY <1>1
  <2> QED
    BY <1>3, <2>1, SlotFacts DEF RobReplaced
<1>10. ASSUME NEW u \in Thread, NEW q \in Rob PROVE LoadHasSlot(u, q)'
  <2>1. CASE u = t
    BY <1>2, <1>3, <2>1 DEF LoadHasSlot, RobReplaced
  <2>2. CASE u # t
    <3>1. rob'[u][q] = rob[u][q] /\ LoadHasSlot(u, q)
      BY <1>3, <2>2 DEF MissInv, RequestsMatchLoads, RobReplaced
    <3>2. CASE rob[u][q].list = "cache_miss"
      <4>1. rob[u][q].lfrqslot \in Slot \ freemap'
        BY <1>1, <2>2, <3>1, <3>2 DEF LoadHasSlot
      <4> QED
        BY <1>1, <3>1, <3>2, <4>1 DEF LoadHasSlot
    <3>3. CASE rob[u][q].list # "cache_miss"
      BY <3>1, <3>3 DEF LoadHasSlot
    <3> QED
      BY <3>2, <3>3
  <2> QED
    BY <2>1, <2>2
<1>11. WakeupsComplete'
  <2>1. \A s \in Slot \ freemap' : s \in waiting' \/ s \in ready'
    BY <1>1 DEF MissInv, WakeupsComplete
  <2>2. ready' \cap (waiting' \cup freemap') = {}
    BY <1>1, SlotSets
  <2>3. ASSUME NEW s \in waiting' \ freemap'
        PROVE  \E n \in Busy' : /\ s \in missbufs'[n].lfrqmap
                                /\ missbufs'[n].line = reqs'[s].line /\ missbufs'[n].dcache
    <3>1. s \in waiting \ freemap /\ reqs[s].thread # t
      BY <1>1, <2>3, SlotSets
    <3>2. PICK n \in Busy : s \in missbufs[n].lfrqmap /\ missbufs[n].line = reqs[s].line /\ missbufs[n].dcache
      BY <3>1 DEF MissInv, WakeupsComplete
    <3>3. n \in Mb /\ s \in others(n)
      BY <3>1, <3>2 DEF Busy
    <3> QED
      BY <1>1, <1>4, <3>2, <3>3
  <2>4. \A m \in Mb : missbufs'[m].lfrqmap \subseteq waiting' \ freemap'
    BY <1>1, <1>4, SlotSets
  <2>5. \A m, n \in Mb : m # n => missbufs'[m].lfrqmap \cap missbufs'[n].lfrqmap = {}
    BY <1>4, SlotSets
  <2> QED
    BY <2>1, <2>2, <2>3, <2>4, <2>5 DEF WakeupsComplete
<1> QED
  BY <1>5, <1>6, <1>7, <1>8, <1>9, <1>10, <1>11 DEF MissInv, RequestsMatchLoads

\* Only the fetch unit and the bound change.
LEMMA QuietInv ==
  ASSUME MissInv, UNCHANGED <<lfrqVars, missbufs, robVars>>, recoveries' \in 0..MaxRecoveries,
         fillwait' \in [Thread -> Line \cup {NoLine}]
  PROVE  MissInv'
<1>1. /\ freemap' = freemap /\ waiting' = waiting /\ ready' = ready /\ reqs' = reqs
      /\ missbufs' = missbufs /\ rob' = rob /\ head' = head /\ tail' = tail
  BY DEF lfrqVars, robVars
<1>2. CyclesLeft' /\ WakeupsComplete' /\ OneEntryPerLine'
  BY QuietMissbuf
<1>3. TypeOK'
  BY <1>1 DEF MissInv, TypeOK
<1>4. RingFree'
  BY <1>1 DEF MissInv, RingFree, Age
<1>5. RequestsMatchLoads'
  BY <1>1 DEF MissInv, RequestsMatchLoads, SlotsNameLoads, LoadHasSlot
<1> QED
  BY <1>2, <1>3, <1>4, <1>5 DEF MissInv

\* Every step preserves MissInv.
LEMMA NextInv == ASSUME MissInv, [Next]_vars PROVE MissInv'
<1>0. recoveries \in 0..MaxRecoveries /\ fillwait \in [Thread -> Line \cup {NoLine}]
  BY DEF MissInv, TypeOK
<1>1. CASE Clock
  BY <1>1, ClockInv
<1>2. ASSUME NEW l \in Line, NEW level \in Level, Prefetch(l, level) PROVE MissInv'
  <2>1. PICK m \in Mb \cup {NoMb} : InitiateMiss(l, FALSE, Bogus, level, {}, m)
    BY <1>2 DEF Prefetch
  <2> QED
    BY <1>0, <1>2, <2>1, PassiveMissInv DEF Prefetch
<1>3. ASSUME NEW t \in Thread, NEW l \in Line, NEW level \in Level, CommitStore(t, l, level) PROVE MissInv'
  <2>1. PICK m \in Mb \cup {NoMb} : InitiateMiss(l, FALSE, t, level, {}, m)
    BY <1>3 DEF CommitStore
  <2> QED
    BY <1>0, <1>3, <2>1, PassiveMissInv DEF CommitStore
<1>4. ASSUME NEW t \in Thread, NEW l \in Line, NEW level \in Level, FetchMiss(t, l, level) PROVE MissInv'
  <2>1. PICK m \in Mb \cup {NoMb} :
          /\ InitiateMiss(l, TRUE, t, level, {}, m)
          /\ fillwait' = [fillwait EXCEPT ![t] = IF m = NoMb THEN NoLine ELSE l]
    BY <1>4 DEF FetchMiss
  <2>2. fillwait' \in [Thread -> Line \cup {NoLine}]
    BY <1>0, <2>1
  <2> QED
    BY <1>4, <2>1, <2>2, PassiveMissInv DEF FetchMiss
<1>5. ASSUME NEW t \in Thread, Redirect(t) PROVE MissInv'
  BY <1>0, <1>5, QuietInv, MissAssumption DEF Redirect
<1>6. CASE UNCHANGED vars
  BY <1>0, <1>6, QuietInv DEF vars
<1>7. ASSUME NEW t \in Thread, Dispatch(t) \/ Commit(t) \/ Flush(t) PROVE MissInv'
  BY <1>7, DispatchInv, CommitInv, FlushInv
<1>8. ASSUME NEW t \in Thread, NEW r \in Rob, IssueHit(t, r) \/ IssueFault(t, r) \/ Recover(t, r) \/ Redispatch(t, r) PROVE MissInv'
  BY <1>8, CompleteInv, RecoverInv, RedispatchInv DEF IssueHit, IssueFault
<1>9. ASSUME NEW t \in Thread, NEW r \in Rob, NEW l \in Line, NEW level \in Level, IssueMiss(t, r, l, level)
      PROVE  MissInv'
  BY <1>9, IssueMissInv
<1> QED
  BY <1>1, <1>2, <1>3, <1>4, <1>5, <1>6, <1>7, <1>8, <1>9 DEF Next

\* MissInv holds in every reachable state, for every value of the constants.
THEOREM MissInvariant == Spec => []MissInv
<1>1. Init => MissInv
  BY InitInv
<1>2. MissInv /\ [Next]_vars => MissInv'
  BY NextInv
<1> QED
  BY <1>1, <1>2, PTL DEF Spec

(***************************************************************************)
(* The requests in the LFRQ are the loads on the cache miss list, one slot *)
(* for each: dcache_wakeup() and LoadFillReqQueue::annul() never fail      *)
(* their assertions, whatever the sizes, latencies and number of threads.  *)
(***************************************************************************)
THEOREM RequestSafety == Spec => [](TypeOK /\ RequestsMatchLoads)
<1>1. MissInv => TypeOK /\ RequestsMatchLoads
  BY DEF MissInv
<1> QED
  BY <1>1, MissInvariant, PTL

(***************************************************************************)
(* Every load that waits is in the map of exactly one entry, which fetches *)
(* its line for data, and no line has two entries: MissBuffer::clock()     *)
(* wakes every load it must and no other.                                  *)
(***************************************************************************)
THEOREM WakeupSafety == Spec => [](WakeupsComplete /\ OneEntryPerLine)
<1>1. MissInv => WakeupsComplete /\ OneEntryPerLine
  BY DEF MissInv
<1> QED
  BY <1>1, MissInvariant, PTL

(***************************************************************************)
(* The load fill request queue, the miss buffer and the waiting loads keep *)
(* their types for every number of threads, lines and entries.             *)
(***************************************************************************)
THEOREM MissTypeCorrect == Spec => []TypeOK
<1>1. MissInv => TypeOK
  BY DEF MissInv
<1> QED
  BY <1>1, MissInvariant, PTL

(***************************************************************************)
(* No two entries of the miss buffer fetch one line: initiate_miss() finds *)
(* the entry that does, also after an annulment or a flush.                *)
(***************************************************************************)
THEOREM MissOneEntryPerLine == Spec => []OneEntryPerLine
<1>1. MissInv => OneEntryPerLine
  BY DEF MissInv
<1> QED
  BY <1>1, MissInvariant, PTL

-----------------------------------------------------------------------------
\* An entry that a fetch unit waits for is kept by a miss.
LEMMA FetchKept ==
  ASSUME FetchAwaited, NEW l, NEW icache, NEW bits, NEW m, MissFacts(l, icache, bits, m),
         NEW t \in Thread, fillwait[t] # NoLine
  PROVE  \E n \in Busy' : missbufs'[n].line = fillwait[t] /\ missbufs'[n].icache
<1>1. PICK n \in Busy : missbufs[n].line = fillwait[t] /\ missbufs[n].icache
  BY DEF FetchAwaited
<1>2. n \in Busy' /\ missbufs'[n].line = missbufs[n].line /\ missbufs'[n].icache
  BY <1>1 DEF MissFacts
<1> QED
  BY <1>1, <1>2

\* In a core with one thread, every step keeps FetchAwaited.
LEMMA FetchNext ==
  ASSUME MissInv, FetchAwaited, [Next]_vars, \A t, u \in Thread : t = u
  PROVE  FetchAwaited'
<1>0. recoveries \in 0..MaxRecoveries /\ fillwait \in [Thread -> Line \cup {NoLine}]
  BY DEF MissInv, TypeOK
<1>1. CASE Clock
  <2> SUFFICES ASSUME NEW t \in Thread, fillwait'[t] # NoLine
               PROVE  \E n \in Busy' : missbufs'[n].line = fillwait'[t] /\ missbufs'[n].icache
    BY DEF FetchAwaited
  <2>1. fillwait'[t] = fillwait[t] /\ ~ FillArrives(fillwait[t])
    BY <1>1 DEF Clock
  <2>2. PICK n \in Busy : missbufs[n].line = fillwait[t] /\ missbufs[n].icache
    BY <2>1 DEF FetchAwaited
  <2>3. n \in Mb /\ n \notin Delivered
    BY <2>1, <2>2 DEF FillArrives, Busy
  <2>4. missbufs[n] \in Entry /\ Counting(missbufs[n]) /\ missbufs[n].state # "idle"
    BY <2>2 DEF MissInv, TypeOK, CyclesLeft, Busy, Counting
  <2>5. missbufs'[n] = ClockEntry(missbufs[n])
    BY <1>1, <2>3 DEF Clock
  <2>6. missbufs'[n].state # "idle" /\ SameUse(missbufs'[n], missbufs[n])
    BY <2>3, <2>4, <2>5, ClockEntryFacts DEF Delivered
  <2> QED
    BY <2>1, <2>2, <2>3, <2>6 DEF SameUse, Busy
<1>2. ASSUME NEW l \in Line, NEW level \in Level, Prefetch(l, level) PROVE FetchAwaited'
  <2>1. PICK m \in Mb \cup {NoMb} : InitiateMiss(l, FALSE, Bogus, level, {}, m)
    BY <1>2 DEF Prefetch
  <2>2. MissFacts(l, FALSE, {}, m) /\ fillwait' = fillwait
    BY <1>2, <2>1, InitiateFacts DEF Prefetch
  <2> QED
    BY <2>2, FetchKept DEF FetchAwaited
<1>3. ASSUME NEW t \in Thread, NEW l \in Line, NEW level \in Level, CommitStore(t, l, level) PROVE FetchAwaited'
  <2>1. PICK m \in Mb \cup {NoMb} : InitiateMiss(l, FALSE, t, level, {}, m)
    BY <1>3 DEF CommitStore
  <2>2. MissFacts(l, FALSE, {}, m) /\ fillwait' = fillwait
    BY <1>3, <2>1, InitiateFacts DEF CommitStore
  <2> QED
    BY <2>2, FetchKept DEF FetchAwaited
<1>4. ASSUME NEW t \in Thread, NEW l \in Line, NEW level \in Level, FetchMiss(t, l, level) PROVE FetchAwaited'
  <2>1. PICK m \in Mb \cup {NoMb} :
          /\ InitiateMiss(l, TRUE, t, level, {}, m)
          /\ fillwait' = [fillwait EXCEPT ![t] = IF m = NoMb THEN NoLine ELSE l]
    BY <1>4 DEF FetchMiss
  <2>2. MissFacts(l, TRUE, {}, m)
    BY <2>1, InitiateFacts
  <2> SUFFICES ASSUME NEW u \in Thread, fillwait'[u] # NoLine
               PROVE  \E n \in Busy' : missbufs'[n].line = fillwait'[u] /\ missbufs'[n].icache
    BY DEF FetchAwaited
  <2>3. CASE u = t
    <3>1. m \in Mb /\ fillwait'[u] = l
      BY <1>0, <2>1, <2>3
    <3> QED
      BY <2>2, <3>1 DEF MissFacts
  <2>4. CASE u # t
    <3>1. fillwait'[u] = fillwait[u]
      BY <1>0, <2>1, <2>4
    <3> QED
      BY <2>2, <3>1, FetchKept
  <2> QED
    BY <2>3, <2>4
<1>5. ASSUME NEW t \in Thread, NEW r \in Rob, NEW l \in Line, NEW level \in Level, IssueMiss(t, r, l, level)
      PROVE  FetchAwaited'
  <2>1. PICK slot \in Slot, m \in Mb : InitiateMiss(l, FALSE, t, level, {slot}, m)
    BY <1>5 DEF IssueMiss
  <2>2. {slot} \in SUBSET Slot /\ t \in Thread \cup {Bogus} /\ m \in Mb \cup {NoMb}
    OBVIOUS
  <2>3. MissFacts(l, FALSE, {slot}, m) /\ fillwait' = fillwait
    BY <1>5, <2>1, <2>2, InitiateFacts DEF IssueMiss
  <2> QED
    BY <2>3, FetchKept DEF FetchAwaited
<1>6. ASSUME NEW t \in Thread, NEW r \in Rob, Redispatch(t, r) PROVE FetchAwaited'
  <2>1. fillwait' = fillwait /\ AnnulSlots(SlotsOf(t, {r}))
    BY <1>6 DEF Redispatch
  <2>2. \A n \in Mb : /\ missbufs'[n].state = missbufs[n].state /\ missbufs'[n].line = missbufs[n].line
                      /\ missbufs'[n].icache = missbufs[n].icache
    BY <2>1 DEF AnnulSlots, MissInv, TypeOK, Entry
  <2> QED
    BY <2>1, <2>2 DEF FetchAwaited, Busy
<1>7. ASSUME NEW t \in Thread, fillwait' = [fillwait EXCEPT ![t] = NoLine] PROVE FetchAwaited'
  BY <1>0, <1>7 DEF FetchAwaited
<1>8. ASSUME UNCHANGED <<missbufs, fillwait>> PROVE FetchAwaited'
  BY <1>8 DEF FetchAwaited, Busy
<1>9. ASSUME NEW t \in Thread, Dispatch(t) \/ Commit(t) \/ Redirect(t) \/ Flush(t) PROVE FetchAwaited'
  BY <1>7, <1>8, <1>9 DEF Dispatch, Commit, Redirect, Flush
<1>10. ASSUME NEW t \in Thread, NEW r \in Rob, IssueHit(t, r) \/ IssueFault(t, r) \/ Recover(t, r) PROVE FetchAwaited'
  BY <1>7, <1>8, <1>10 DEF IssueHit, IssueFault, Complete, Recover
<1>11. CASE UNCHANGED vars
  BY <1>8, <1>11 DEF vars
<1> QED
  BY <1>1, <1>2, <1>3, <1>4, <1>5, <1>6, <1>9, <1>10, <1>11 DEF Next

(***************************************************************************)
(* In a core with one thread a fetch unit that waits for a line waits for  *)
(* an entry that will wake it, whatever is annulled or flushed meanwhile.  *)
(* With a second thread this fails: MissBuffer::reset(threadid) drops an   *)
(* entry of the flushed thread that the other one's fetch unit shares.     *)
(***************************************************************************)
THEOREM FetchSafety ==
  ASSUME \A t, u \in Thread : t = u
  PROVE  Spec => []FetchAwaited
<1>1. Init => MissInv /\ FetchAwaited
  BY InitInv DEF Init, FetchAwaited
<1>2. MissInv /\ FetchAwaited /\ [Next]_vars => (MissInv /\ FetchAwaited)'
  BY NextInv, FetchNext
<1> QED
  BY <1>1, <1>2, PTL DEF Spec
=============================================================================

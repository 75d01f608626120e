----------------------------- MODULE CacheMiss -----------------------------
(***************************************************************************)
(* Misses of the L1 caches: the load fill request queue (LFRQ), the miss   *)
(* buffer and the two users that wait for them, the loads of the reorder   *)
(* buffer and the fetch unit (dcache.cpp, oooexec.cpp, ooopipe.cpp).       *)
(*                                                                         *)
(* A miss buffer entry (MBE) carries one line through the levels of the    *)
(* hierarchy.  Loads, committed stores, prefetches and instruction fetches *)
(* of the same line share it: lfrqmap names the loads to wake up, icache   *)
(* that the fetch unit waits.  A load that is annulled or dispatched again *)
(* has to disappear from the LFRQ and from every lfrqmap.                  *)
(*                                                                         *)
(* Which lines the caches hold is left open: any access may hit or miss,   *)
(* at any level.  So are the uops that are not loads.                      *)
(***************************************************************************)
EXTENDS Integers, FiniteSets

CONSTANTS
  Thread,       \* the threads of the core (MAX_THREADS_PER_CORE is 1)
  Bogus,        \* the thread id 0xfe of a prefetch's MBE
  Line,         \* the cache lines accessed
  NoLine,       \* the fetch unit waits for no line
  RobSize,      \* ROB entries of a thread that hold loads
  LfrqSize,     \* LFRQ_SIZE
  MbSize,       \* MISSBUF_COUNT
  MaxWakeups,   \* MAX_WAKEUPS_PER_CYCLE
  L2Latency, L3Latency, MemLatency,   \* L2_LATENCY, L3_LATENCY, MAIN_MEM_LATENCY
  MaxRecoveries \* bound: annulments, redispatches and flushes in a behaviour

ASSUME MissAssumption ==
  /\ {RobSize, LfrqSize, MbSize, MaxWakeups} \subseteq Nat \ {0}
  /\ {L2Latency, L3Latency, MemLatency} \subseteq Nat \ {0}
  /\ MaxRecoveries \in Nat
  /\ Thread # {} /\ Line # {} /\ Bogus \notin Thread /\ NoLine \notin Line

Slot == 0..(LfrqSize - 1)
Mb == 0..(MbSize - 1)
Rob == 0..(RobSize - 1)
NoSlot == -1
NoMb == -1

VARIABLES
  freemap, waiting, ready,  \* LoadFillReqQueue: the slots in each state
  reqs,         \* LoadFillReqQueue::reqs: the load and the line of a slot
  missbufs,     \* MissBuffer::missbufs; an entry is free when it is idle
  rob,          \* the list a load is on and its lfrqslot
  head, tail,   \* the loads in flight, from the oldest on
  fillwait,     \* waiting_for_icache_fill: the line, or NoLine
  recoveries

lfrqVars == <<freemap, waiting, ready, reqs>>
robVars == <<rob, head, tail>>
vars == <<lfrqVars, missbufs, robVars, fillwait, recoveries>>

Level == {"mem", "L3", "L2"}
State == {"idle", "deliver_to_L3", "deliver_to_L2", "deliver_to_L1"}

LoadReq == [thread: Thread, rob: Rob, line: Line]
Entry == [line: Line \cup {NoLine}, state: State, dcache: BOOLEAN, icache: BOOLEAN,
          cycles: Nat, thread: Thread \cup {Bogus}, lfrqmap: SUBSET Slot]
RobEntry == [list: {"free", "dispatched", "cache_miss", "completed"}, lfrqslot: Slot \cup {NoSlot}]

\* MissBuffer::Entry::reset()
IdleEntry == [line |-> NoLine, state |-> "idle", dcache |-> FALSE, icache |-> FALSE,
              cycles |-> 0, thread |-> Bogus, lfrqmap |-> {}]

\* ReorderBufferEntry::reset(), as far as a miss is concerned
FreeRob == [list |-> "free", lfrqslot |-> NoSlot]

\* i is lsb() of the bitmap S
IsLsb(i, S) == i \in S /\ \A j \in S : i <= j

Busy == {m \in Mb : missbufs[m].state # "idle"}

\* Mutant: the ring does not wrap around.
NextIdx_NoWrap(i) == i + 1

\* add_index_modulo(i, +1, ROB_SIZE)
NextIdx(i) == IF i = RobSize - 1 THEN 0 ELSE i + 1

TypeOK ==
  /\ freemap \subseteq Slot /\ waiting \subseteq Slot /\ ready \subseteq Slot
  /\ reqs \in [Slot -> LoadReq]
  /\ missbufs \in [Mb -> Entry]
  /\ rob \in [Thread -> [Rob -> RobEntry]]
  /\ head \in [Thread -> Rob] /\ tail \in [Thread -> Rob]
  /\ fillwait \in [Thread -> Line \cup {NoLine}]
  /\ recoveries \in 0..MaxRecoveries

Init ==
  /\ freemap = Slot /\ waiting = {} /\ ready = {}
  /\ reqs \in [Slot -> {CHOOSE q \in LoadReq : TRUE}]
  /\ missbufs = [m \in Mb |-> IdleEntry]
  /\ rob = [t \in Thread |-> [r \in Rob |-> FreeRob]]
  /\ head = [t \in Thread |-> 0] /\ tail = [t \in Thread |-> 0]
  /\ fillwait = [t \in Thread |-> NoLine]
  /\ recoveries = 0

-----------------------------------------------------------------------------
(***************************************************************************)
(* MissBuffer::initiate_miss(addr, ...), with result m.  An entry of the   *)
(* line is shared; otherwise the lowest free one is allocated and starts   *)
(* at the level that holds the line; with none free the miss is refused.   *)
(* bits are the LFRQ slots that initiate_miss(req) adds to lfrqmap.        *)
(***************************************************************************)
\* Mutant: only the entries of data misses are found.
Find_DataOnly(l) == {m \in Busy : missbufs[m].line = l /\ missbufs[m].dcache}

Find(l) == {m \in Busy : missbufs[m].line = l}

\* Mutant: a data miss that meets an instruction miss does not mark the entry.
ShareEntry_KeepsKind(e, icache, bits) == [e EXCEPT !.lfrqmap = @ \cup bits]

ShareEntry(e, icache, bits) ==
  [e EXCEPT !.icache = @ \/ icache, !.dcache = @ \/ ~icache, !.lfrqmap = @ \cup bits]

\* The state an entry starts in, and its latency, when the line is found at level.
FirstState(level) == IF level = "L2" THEN "deliver_to_L1"
                     ELSE IF level = "L3" THEN "deliver_to_L2" ELSE "deliver_to_L3"
Latency(level) == IF level = "L2" THEN L2Latency ELSE IF level = "L3" THEN L3Latency ELSE MemLatency

NewEntry(l, icache, t, level, bits) ==
  [line |-> l, state |-> FirstState(level), dcache |-> ~icache, icache |-> icache,
   cycles |-> Latency(level), thread |-> t, lfrqmap |-> bits]

InitiateMiss(l, icache, t, level, bits, m) ==
  \/ /\ IsLsb(m, Find(l))
     /\ missbufs' = [missbufs EXCEPT ![m] = ShareEntry(@, icache, bits)]
  \/ /\ Find(l) = {} /\ IsLsb(m, Mb \ Busy)
     /\ missbufs' = [missbufs EXCEPT ![m] = NewEntry(l, icache, t, level, bits)]
  \/ /\ Find(l) = {} /\ Busy = Mb /\ m = NoMb
     /\ UNCHANGED missbufs

(***************************************************************************)
(* A load is dispatched, and issued.  With the LFRQ or the miss buffer     *)
(* full it is replayed, so that the queues below never refuse it; a hit    *)
(* completes it, and so does an exception.  A miss moves it to the cache   *)
(* miss list with a slot of the LFRQ (issueload(), probecache(),           *)
(* initiate_miss(req)).                                                    *)
(***************************************************************************)
Dispatch(t) ==
  /\ NextIdx(tail[t]) # head[t]
  /\ rob' = [rob EXCEPT ![t][tail[t]].list = "dispatched"]
  /\ tail' = [tail EXCEPT ![t] = NextIdx(@)]
  /\ UNCHANGED <<lfrqVars, missbufs, head, fillwait, recoveries>>

LfrqOrMissbufFull == freemap = {} \/ Busy = Mb

Complete(t, r) ==
  /\ rob[t][r].list = "dispatched"
  /\ rob' = [rob EXCEPT ![t][r].list = "completed"]
  /\ UNCHANGED <<lfrqVars, missbufs, head, tail, fillwait, recoveries>>

IssueHit(t, r) == ~LfrqOrMissbufFull /\ Complete(t, r)

\* An exception of addrgen() ends the load before the queues are looked at.
IssueFault(t, r) == Complete(t, r)

IssueMiss(t, r, l, level) ==
  /\ rob[t][r].list = "dispatched"
  /\ ~LfrqOrMissbufFull
  /\ \E slot \in Slot, m \in Mb :
       /\ IsLsb(slot, freemap)
       /\ freemap' = freemap \ {slot} /\ waiting' = waiting \cup {slot}
       /\ reqs' = [reqs EXCEPT ![slot] = [thread |-> t, rob |-> r, line |-> l]]
       /\ InitiateMiss(l, FALSE, t, level, {slot}, m)
       /\ rob' = [rob EXCEPT ![t][r] = [list |-> "cache_miss", lfrqslot |-> slot]]
  /\ UNCHANGED <<ready, head, tail, fillwait, recoveries>>

Commit(t) ==
  /\ head[t] # tail[t] /\ rob[t][head[t]].list = "completed"
  /\ rob' = [rob EXCEPT ![t][head[t]] = FreeRob]
  /\ head' = [head EXCEPT ![t] = NextIdx(@)]
  /\ UNCHANGED <<lfrqVars, missbufs, tail, fillwait, recoveries>>

\* commitstore() of a line that is not complete in the L1; a refusal is ignored.
CommitStore(t, l, level) ==
  /\ \E m \in Mb \cup {NoMb} : InitiateMiss(l, FALSE, t, level, {}, m)
  /\ UNCHANGED <<lfrqVars, robVars, fillwait, recoveries>>

\* initiate_prefetch() of a line that is not in the L1.
Prefetch(l, level) ==
  /\ \E m \in Mb \cup {NoMb} : InitiateMiss(l, FALSE, Bogus, level, {}, m)
  /\ UNCHANGED <<lfrqVars, robVars, fillwait, recoveries>>

\* fetch() misses the L1I; without an entry it tries again in the next cycle.
FetchMiss(t, l, level) ==
  /\ fillwait[t] = NoLine
  /\ \E m \in Mb \cup {NoMb} :
       /\ InitiateMiss(l, TRUE, t, level, {}, m)
       /\ fillwait' = [fillwait EXCEPT ![t] = IF m = NoMb THEN NoLine ELSE l]
  /\ UNCHANGED <<lfrqVars, robVars, recoveries>>

-----------------------------------------------------------------------------
(***************************************************************************)
(* CacheHierarchy::clock(), once in every cycle.  The LFRQ wakes up to     *)
(* MaxWakeups ready loads, lowest slot first; then every MBE counts down,  *)
(* moves one level up, and at the L1 makes its loads ready, wakes the      *)
(* fetch units that wait for the line and becomes free.                    *)
(***************************************************************************)
Woken == {s \in ready : Cardinality({i \in ready : i < s}) < MaxWakeups}

Delivered == {m \in Mb : missbufs[m].state = "deliver_to_L1" /\ missbufs[m].cycles = 1}

\* Mutant: every delivery is taken for a data delivery only.
FillArrives_DataOnly(l) == \E m \in Delivered : missbufs[m].line = l /\ ~missbufs[m].dcache

\* icache_wakeup() is called for line l
FillArrives(l) == \E m \in Delivered : missbufs[m].line = l /\ missbufs[m].icache

Advance(e, state, cycles) == [e EXCEPT !.state = state, !.cycles = cycles]

ClockEntry(e) ==
  IF e.state = "idle" THEN e
  ELSE IF e.cycles > 1 THEN Advance(e, e.state, e.cycles - 1)
  ELSE IF e.state = "deliver_to_L3" THEN Advance(e, "deliver_to_L2", L3Latency)
  ELSE IF e.state = "deliver_to_L2" THEN Advance(e, "deliver_to_L1", L2Latency)
  ELSE IdleEntry

Clock ==
  LET arrived == UNION {missbufs[m].lfrqmap : m \in {n \in Delivered : missbufs[n].dcache}}
  IN  /\ freemap' = freemap \cup Woken
      /\ waiting' = waiting \ arrived
      /\ ready' = (ready \ Woken) \cup arrived
      /\ rob' = [t \in Thread |-> [r \in Rob |->
                  IF \E s \in Woken : reqs[s].thread = t /\ reqs[s].rob = r
                  THEN [list |-> "completed", lfrqslot |-> NoSlot]
                  ELSE rob[t][r]]]
      /\ missbufs' = [m \in Mb |-> ClockEntry(missbufs[m])]
      /\ fillwait' = [t \in Thread |-> IF fillwait[t] # NoLine /\ FillArrives(fillwait[t])
                                       THEN NoLine ELSE fillwait[t]]
      /\ UNCHANGED <<reqs, head, tail, recoveries>>

-----------------------------------------------------------------------------
(***************************************************************************)
(* LoadFillReqQueue::annul() of a set of slots: they leave every lfrqmap   *)
(* and become free.  A slot that was waiting keeps its waiting bit.        *)
(***************************************************************************)
\* Mutant: a slot that is still waiting for its line stays in the lfrqmap.
AnnulSlots_KeepsMap(S) ==
  /\ freemap' = freemap \cup S /\ ready' = ready \ S
  /\ UNCHANGED <<waiting, reqs, missbufs>>

\* Mutant: an entry left without loads is dropped, although a fetch may wait for it.
AnnulSlots_DropsEmpty(S) ==
  /\ missbufs' = [m \in Mb |-> IF missbufs[m].lfrqmap \cap S # {} /\ missbufs[m].lfrqmap \subseteq S
                               THEN IdleEntry ELSE [missbufs[m] EXCEPT !.lfrqmap = @ \ S]]
  /\ freemap' = freemap \cup S /\ ready' = ready \ S
  /\ UNCHANGED <<waiting, reqs>>

AnnulSlots(S) ==
  /\ missbufs' = [m \in Mb |-> [missbufs[m] EXCEPT !.lfrqmap = @ \ S]]
  /\ freemap' = freemap \cup S /\ ready' = ready \ S
  /\ UNCHANGED <<waiting, reqs>>

\* The loads in flight of t, and those not older than r.
InFlight(t) == {r \in Rob : rob[t][r].list # "free"}
Age(t, r) == IF r >= head[t] THEN r - head[t] ELSE r + RobSize - head[t]
FromOn(t, r) == {i \in InFlight(t) : Age(t, i) >= Age(t, r)}
SlotsOf(t, R) == {rob[t][i].lfrqslot : i \in R} \ {NoSlot}

\* Mutant: a load that is annulled keeps its request.
AnnulFrom_KeepsRequests(t, r) ==
  /\ rob' = [rob EXCEPT ![t] = [i \in Rob |-> IF i \in FromOn(t, r) THEN FreeRob ELSE @[i]]]
  /\ tail' = [tail EXCEPT ![t] = r]
  /\ UNCHANGED <<lfrqVars, missbufs>>

\* annul(): the loads from r on leave the ROB.
AnnulFrom(t, r) ==
  /\ AnnulSlots(SlotsOf(t, FromOn(t, r)))
  /\ rob' = [rob EXCEPT ![t] = [i \in Rob |-> IF i \in FromOn(t, r) THEN FreeRob ELSE @[i]]]
  /\ tail' = [tail EXCEPT ![t] = r]

\* A mis-speculation older than r is found, and fetching restarts (reset_fetch_unit()).
Recover(t, r) ==
  /\ recoveries < MaxRecoveries /\ recoveries' = recoveries + 1
  /\ r \in InFlight(t)
  /\ AnnulFrom(t, r)
  /\ fillwait' = [fillwait EXCEPT ![t] = NoLine]
  /\ UNCHANGED head

\* The same, with no load in flight behind the mis-speculated uop.
Redirect(t) ==
  /\ recoveries < MaxRecoveries /\ recoveries' = recoveries + 1
  /\ fillwait' = [fillwait EXCEPT ![t] = NoLine]
  /\ UNCHANGED <<lfrqVars, missbufs, robVars>>

\* redispatch() of a load: its request is dropped and it will issue again.
Redispatch(t, r) ==
  /\ recoveries < MaxRecoveries /\ recoveries' = recoveries + 1
  /\ r \in InFlight(t)
  /\ AnnulSlots(SlotsOf(t, {r}))
  /\ rob' = [rob EXCEPT ![t][r] = [list |-> "dispatched", lfrqslot |-> NoSlot]]
  /\ UNCHANGED <<head, tail, fillwait>>

(***************************************************************************)
(* flush_pipeline(): complete(threadid) frees the slots of the thread,     *)
(* removes them from every lfrqmap and drops the entries it allocated that *)
(* no other load waits for; then the ROB and the fetch unit are reset.     *)
(***************************************************************************)
\* MissBuffer::reset(threadid) of one entry
ResetEntry(e, t) ==
  LET others == {s \in e.lfrqmap : reqs[s].thread # t}
  IN  IF e.state # "idle" /\ others = {} /\ e.thread = t THEN IdleEntry ELSE [e EXCEPT !.lfrqmap = others]

Flush(t) ==
  LET mine == {s \in Slot \ freemap : reqs[s].thread = t}
  IN  /\ recoveries < MaxRecoveries /\ recoveries' = recoveries + 1
      /\ freemap' = freemap \cup mine /\ waiting' = waiting \ mine /\ ready' = ready \ mine
      /\ missbufs' = [m \in Mb |-> ResetEntry(missbufs[m], t)]
      /\ rob' = [rob EXCEPT ![t] = [r \in Rob |-> FreeRob]]
      /\ head' = [head EXCEPT ![t] = 0] /\ tail' = [tail EXCEPT ![t] = 0]
      /\ fillwait' = [fillwait EXCEPT ![t] = NoLine]
      /\ UNCHANGED reqs

Next ==
  \/ Clock
  \/ \E l \in Line, level \in Level : Prefetch(l, level)
  \/ \E t \in Thread :
       \/ Dispatch(t) \/ Commit(t) \/ Redirect(t) \/ Flush(t)
       \/ \E l \in Line, level \in Level : CommitStore(t, l, level) \/ FetchMiss(t, l, level)
       \/ \E r \in Rob : IssueHit(t, r) \/ IssueFault(t, r) \/ Recover(t, r) \/ Redispatch(t, r)
       \/ \E r \in Rob, l \in Line, level \in Level : IssueMiss(t, r, l, level)

\* runcycle() clocks the caches in every cycle.
Spec == Init /\ [][Next]_vars /\ WF_vars(Clock)

-----------------------------------------------------------------------------
(***************************************************************************)
(* The requests in the LFRQ are the loads on the cache miss list, one slot *)
(* for each: dcache_wakeup() finds the load it is meant for on that list   *)
(* (its assertion), annul() gets a slot in use (its assertion), and no two *)
(* slots name the same ROB entry (the sanity check of add()).              *)
(***************************************************************************)
SlotsNameLoads ==
  \A s \in Slot \ freemap : LET load == rob[reqs[s].thread][reqs[s].rob]
                            IN  load.list = "cache_miss" /\ load.lfrqslot = s

LoadHasSlot(t, r) ==
  IF rob[t][r].list = "cache_miss"
  THEN /\ rob[t][r].lfrqslot \in Slot \ freemap
       /\ reqs[rob[t][r].lfrqslot].thread = t /\ reqs[rob[t][r].lfrqslot].rob = r
  ELSE rob[t][r].lfrqslot = NoSlot

RequestsMatchLoads == SlotsNameLoads /\ \A t \in Thread, r \in Rob : LoadHasSlot(t, r)

(***************************************************************************)
(* A slot in use is either ready or waiting, and the waiting ones are the  *)
(* ones the miss buffer will wake: each is in the lfrqmap of exactly one   *)
(* entry, of its own line and marked for data; no lfrqmap names any other  *)
(* slot (lfrq.wakeup() takes the map on trust).                            *)
(***************************************************************************)
WakeupsComplete ==
  /\ \A s \in Slot \ freemap : s \in waiting \/ s \in ready
  /\ ready \cap (waiting \cup freemap) = {}
  /\ \A s \in waiting \ freemap :
       \E m \in Busy : /\ s \in missbufs[m].lfrqmap
                       /\ missbufs[m].line = reqs[s].line /\ missbufs[m].dcache
  /\ \A m \in Mb : missbufs[m].lfrqmap \subseteq waiting \ freemap
  /\ \A m, n \in Mb : m # n => missbufs[m].lfrqmap \cap missbufs[n].lfrqmap = {}

\* No line is fetched twice at a time: find() meets one entry at most.
OneEntryPerLine ==
  \A m, n \in Busy : missbufs[m].line = missbufs[n].line => m = n

\* A fetch unit that waits for a line waits for an entry that will wake it up.
FetchAwaited ==
  \A t \in Thread : fillwait[t] # NoLine =>
    \E m \in Busy : missbufs[m].line = fillwait[t] /\ missbufs[m].icache

\* The ring from tail to head holds no load, and a busy entry has cycles left.
RingFree == \A t \in Thread, r \in Rob : Age(t, r) >= Age(t, tail[t]) => rob[t][r].list = "free"
CyclesLeft == \A m \in Busy : missbufs[m].cycles > 0

\* A load on the cache miss list leaves it, whatever happens to the line meanwhile.
LoadsReturn ==
  \A t \in Thread, r \in Rob : (rob[t][r].list = "cache_miss") ~> (rob[t][r].list # "cache_miss")

\* A fetch unit that waits for the L1I resumes.
FetchResumes == \A t \in Thread : (fillwait[t] # NoLine) ~> (fillwait[t] = NoLine)
=============================================================================

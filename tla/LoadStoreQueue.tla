--------------------------- MODULE LoadStoreQueue ---------------------------
(***************************************************************************)
(* The load/store queue (LSQ) of the out-of-order core: loads issue before *)
(* older stores whose address is not known, take bytes of older stores     *)
(* that have not committed, wait for fences, and are dispatched again when *)
(* an older store turns out to write what they have read (oooexec.cpp,     *)
(* ooopipe.cpp, ooocore.cpp).                                              *)
(*                                                                         *)
(* A queue entry stands for the LSQ entry of a uop together with its ROB   *)
(* entry.  Every uop is a macro-op of its own.  The uops between the       *)
(* memory uops, the issue queues and the clusters are left out: a uop may  *)
(* issue at any time after its operands are ready, and whether a load hits *)
(* the cache, or finds the LFRQ full, is left open.  An address is one     *)
(* chunk; the second half of an unaligned access and faults are left out.  *)
(***************************************************************************)
EXTENDS MemoryProgram, FiniteSets, FiniteSetsExt

CONSTANTS
  LsqSize, LdqSize, StqSize,  \* LSQ_SIZE, LDQ_SIZE, STQ_SIZE
  LsapWays,                   \* ways of the load/store alias predictor (8)
  MaxAnnuls                   \* bound: annulments in a behaviour

ASSUME QueueAssumption ==
  /\ {LdqSize, StqSize, LsapWays} \subseteq Nat \ {0}
  /\ LsqSize \in Nat /\ LsqSize > 1
  /\ MaxAnnuls \in Nat

VARIABLES
  prog,       \* the program
  head,       \* number of uops committed
  lsq,        \* the uops in flight, the oldest first
  memory,     \* the contents of the chunks
  loaded,     \* the value of each load committed
  lsap,       \* FullyAssociativeTags: tags (rips of loads, 0 for none) and evictmap
  loadsNow,   \* load_to_store_parallel_forwarding_buffer: chunks loaded in this cycle
  annuls      \* annulments so far

vars == <<prog, head, lsq, memory, loaded, lsap, loadsNow, annuls>>

Way == 1 .. LsapWays
Position == 0 .. Len(prog)

(***************************************************************************)
(* The state of a uop: ready_to_dispatch (the frontend included), in an    *)
(* issue queue, on a functional unit, on the cache miss list, a fence at   *)
(* the commit stage, completed.                                            *)
(***************************************************************************)
State == {"dispatch", "queued", "executing", "miss", "fence", "completed"}

Entry == [state: State, issued: BOOLEAN, addrvalid: BOOLEAN, datavalid: BOOLEAN,
          second: BOOLEAN,          \* load_store_second_phase
          physaddr: Chunk, data: Word, bytemask: SUBSET Byte,
          rs: Nat]                  \* operands[RS]: the store or fence waited for

Allocated(u) == [state |-> "dispatch", issued |-> FALSE, addrvalid |-> FALSE, datavalid |-> FALSE, second |-> FALSE,
                 physaddr |-> u.chunk, data |-> Zero, bytemask |-> {}, rs |-> 0]

Init ==
  /\ prog \in Programs
  /\ head = 0 /\ lsq = <<>>
  /\ memory = [c \in Chunk |-> Zero]
  /\ loaded = [i \in DOMAIN prog |-> Zero]
  /\ lsap = [tags |-> [w \in Way |-> 0], evictmap |-> {}]
  /\ loadsNow = {}
  /\ annuls = 0

-----------------------------------------------------------------------------
InFlight == head + 1 .. head + Len(lsq)
At(i) == lsq[i - head]
IsLoad(i) == prog[i].op = "ld"
IsStore(i) == prog[i].op # "ld"     \* isstore() holds of fences too
IsFence(i) == prog[i].op = "mf"
Older(i) == {j \in InFlight : j < i}
Younger(i) == {j \in InFlight : j > i}
Set(i, e) == lsq' = [lsq EXCEPT ![i - head] = e]

\* The register of an operand is not PHYSREG_WAITING: the uop that writes it has completed.
Completed(o) == o \in InFlight => At(o).state = "completed"
\* PhysicalRegister::ready(): FLAG_WAIT is cleared earlier, when the value is there.
Ready(o) == o \in InFlight => At(o).issued /\ At(o).datavalid
\* The value of the operand a load provides.
Value(o) == CASE o = 0 -> Zero [] o \in InFlight -> At(o).data [] OTHER -> loaded[o]

\* The last position of a backward scan that satisfies what ends the scan, 0 if none.
Nearest(S) == IF S = {} THEN 0 ELSE Max(S)

-----------------------------------------------------------------------------
\* Queue::remaining(): one entry of the ring stays free.
Remaining_WholeRing == LsqSize - Len(lsq)
Remaining == LsqSize - 1 - Len(lsq)

\* rename(): the next uop gets a ROB and an LSQ entry.
Allocate ==
  LET i == head + Len(lsq) + 1
  IN /\ i <= Len(prog)
     /\ IsLoad(i) => Cardinality({j \in InFlight : IsLoad(j)}) < LdqSize
     /\ IsStore(i) => Cardinality({j \in InFlight : IsStore(j)}) < StqSize
     /\ Remaining > 0
     /\ lsq' = Append(lsq, Allocated(prog[i]))
     /\ UNCHANGED <<prog, head, memory, loaded, lsap, loadsNow, annuls>>

\* find_nearest_memory_fence(): the newest fence not woken that uop i may not pass.
FenceBefore_None(i) == 0
FenceBefore(i) ==
  Nearest({j \in Older(i) : /\ IsFence(j) /\ ~ At(j).addrvalid
                            /\ \/ IsLoad(i) /\ prog[j].lfence
                               \/ prog[i].op = "st" /\ prog[j].sfence})

\* dispatch() and find_sources(), in program order.
Dispatch(i) ==
  /\ i \in InFlight /\ At(i).state = "dispatch"
  /\ \A j \in Older(i) : At(j).state # "dispatch"
  /\ Set(i, [At(i) EXCEPT !.state = "queued", !.rs = IF FenceBefore(i) # 0 THEN FenceBefore(i) ELSE @])
  /\ UNCHANGED <<prog, head, memory, loaded, lsap, loadsNow, annuls>>

\* The issue queue: the operands a uop waits for are ready.
MayIssue(i) ==
  /\ i \in InFlight /\ At(i).state = "queued"
  /\ Completed(prog[i].ra) /\ Completed(At(i).rs)
  /\ prog[i].op = "st" /\ At(i).second => Completed(prog[i].rc)

PhysAddr(i) == ChunkOf(prog[i], Value(prog[i].ra))

\* addrgen(), and the update of operands[RS] that follows the scan of the queue.
Addressed(i, sfra) ==
  [At(i) EXCEPT !.physaddr = PhysAddr(i), !.addrvalid = TRUE, !.datavalid = FALSE, !.rs = sfra]

\* replay(): back to the issue queue, to wait for all operands.
Replay(i, e) ==
  /\ Set(i, e)
  /\ UNCHANGED <<prog, head, memory, loaded, lsap, loadsNow, annuls>>

Resolved(j) == At(j).addrvalid /\ At(j).datavalid

-----------------------------------------------------------------------------
\* lsap(rip): probe() finds the load among the tags.
KnownToAlias(i) == \E w \in Way : lsap.tags[w] = i

\* The scan of issueload(): the store to take data from, or what the load has to wait for.
LoadSfra(i) ==
  Nearest({j \in Older(i) :
             /\ IsStore(j)
             /\ IF At(j).addrvalid THEN ~ IsFence(j) /\ At(j).physaddr = PhysAddr(i)
                ELSE prog[j].lfence \/ (~ IsFence(j) /\ KnownToAlias(i))})

\* issueload(): the load waits for sfra or finds the LFRQ full.
LoadReplays(i) ==
  /\ MayIssue(i) /\ IsLoad(i)
  /\ Replay(i, [Addressed(i, LoadSfra(i)) EXCEPT !.second = TRUE])

\* issueload() and probecache(): the load takes its data and hits or misses the cache.
LoadIssues(i) ==
  /\ MayIssue(i) /\ IsLoad(i)
  /\ LET sfra == LoadSfra(i)
         forwarded == IF sfra = 0 THEN {} ELSE At(sfra).bytemask
         word == IF sfra = 0 THEN memory[PhysAddr(i)] ELSE Merge(memory[PhysAddr(i)], At(sfra).data, forwarded)
         e == [Addressed(i, sfra) EXCEPT !.issued = TRUE, !.data = Extract(word, prog[i].bytes), !.bytemask = Byte]
     IN /\ sfra # 0 => Resolved(sfra)
        /\ \/ Set(i, [e EXCEPT !.state = "executing", !.datavalid = TRUE, !.second = TRUE])
           \/ ~ prog[i].bytes \subseteq forwarded /\ Set(i, [e EXCEPT !.state = "miss"])
  /\ loadsNow' = loadsNow \cup {PhysAddr(i)}
  /\ UNCHANGED <<prog, head, memory, loaded, lsap, annuls>>

-----------------------------------------------------------------------------
\* The scan of issuestore(): stores of one chunk issue in program order, and so does a
\* store behind one whose address is not known, or behind a store fence.
StoreSfra(i) ==
  Nearest({j \in Older(i) :
             /\ IsStore(j)
             /\ IF At(j).addrvalid THEN ~ IsFence(j) /\ At(j).physaddr = PhysAddr(i)
                ELSE ~ IsFence(j) \/ prog[j].sfence})

StoreReady(i) == (StoreSfra(i) # 0 => Resolved(StoreSfra(i))) /\ Ready(prog[i].rc)

\* The younger loads that have issued without the data of store i.
Aliased_Returned(i) ==
  {j \in Younger(i) : IsLoad(j) /\ At(j).addrvalid /\ At(j).datavalid /\ At(j).physaddr = PhysAddr(i)}
Aliased(i) ==
  {j \in Younger(i) : IsLoad(j) /\ At(j).addrvalid /\ At(j).issued /\ At(j).physaddr = PhysAddr(i)}

\* FullyAssociativeTags::select(): a load already known, the first free way, or way 1 when none is.
Select_Forgets(l, rip) == l
Select(l, rip) ==
  LET full == l.evictmap = Way
      way == IF full THEN 1 ELSE Min(Way \ l.evictmap)
  IN IF \E w \in Way : l.tags[w] = rip THEN l
     ELSE [tags |-> [l.tags EXCEPT ![way] = rip],
           evictmap |-> (IF full THEN {} ELSE l.evictmap) \cup {way}]

\* redispatch_dependents() of a store: isstore(uop.opcode) asks about the store itself, so
\* every uop from it on is dispatched again.
RedispatchFrom(i) ==
  [k \in 1 .. Len(lsq) |->
     IF k < i - head THEN lsq[k] ELSE Allocated(prog[head + k])]

\* issuestore(): the store waits for an older store, a fence, or the data to store.
StoreReplays(i) ==
  /\ MayIssue(i) /\ prog[i].op = "st" /\ ~ StoreReady(i)
  /\ Replay(i, [Addressed(i, StoreSfra(i)) EXCEPT !.second = TRUE])

\* issuestore(): a load of the chunk issued in this cycle; the store tries again in the next.
StoreParallel(i) ==
  /\ MayIssue(i) /\ prog[i].op = "st" /\ StoreReady(i)
  /\ Aliased(i) # {} /\ PhysAddr(i) \in loadsNow
  /\ Replay(i, Addressed(i, StoreSfra(i)))

\* issuestore(): a load has issued too early; it is remembered and all is dispatched again.
StoreAliases(i) ==
  /\ MayIssue(i) /\ prog[i].op = "st" /\ StoreReady(i)
  /\ Aliased(i) # {} /\ PhysAddr(i) \notin loadsNow
  /\ lsap' = Select(lsap, Min(Aliased(i)))
  /\ lsq' = RedispatchFrom(i)
  /\ UNCHANGED <<prog, head, memory, loaded, loadsNow, annuls>>

\* issuestore(): the data of the store is merged with that of the store before it.
StoreIssues(i) ==
  /\ MayIssue(i) /\ prog[i].op = "st" /\ StoreReady(i)
  /\ Aliased(i) = {}
  /\ LET sfra == StoreSfra(i)
         below == IF sfra = 0 THEN Zero ELSE At(sfra).data
         mask == IF sfra = 0 THEN {} ELSE At(sfra).bytemask
         rc == StoreWord(prog[i], i, Value(prog[i].rc))
     IN Set(i, [Addressed(i, sfra) EXCEPT !.state = "executing", !.issued = TRUE, !.datavalid = TRUE, !.second = TRUE,
                                          !.data = Merge(below, rc, prog[i].bytes), !.bytemask = mask \cup prog[i].bytes])
  /\ UNCHANGED <<prog, head, memory, loaded, lsap, loadsNow, annuls>>

\* issuefence(): the fence goes to the commit stage, its data not valid.
FenceIssues(i) ==
  /\ MayIssue(i) /\ IsFence(i)
  /\ Set(i, [At(i) EXCEPT !.state = "fence", !.issued = TRUE, !.addrvalid = FALSE, !.datavalid = FALSE,
                          !.data = Zero, !.bytemask = Byte])
  /\ UNCHANGED <<prog, head, memory, loaded, lsap, loadsNow, annuls>>

-----------------------------------------------------------------------------
\* complete(): the latency of the functional unit has passed.
Complete(i) ==
  /\ i \in InFlight /\ At(i).state = "executing"
  /\ Set(i, [At(i) EXCEPT !.state = "completed"])
  /\ UNCHANGED <<prog, head, memory, loaded, lsap, loadsNow, annuls>>

\* dcache_wakeup() and loadwakeup(): the line of a load has arrived.
LoadWakeup(i) ==
  /\ i \in InFlight /\ At(i).state = "miss"
  /\ Set(i, [At(i) EXCEPT !.state = "completed", !.datavalid = TRUE])
  /\ UNCHANGED <<prog, head, memory, loaded, lsap, loadsNow, annuls>>

\* commit() of a fence at the head of the ROB, fencewakeup().
FenceWakeup(i) ==
  /\ i = head + 1 /\ i \in InFlight /\ At(i).state = "fence"
  /\ Set(i, [At(i) EXCEPT !.state = "completed", !.addrvalid = TRUE, !.datavalid = TRUE, !.second = TRUE])
  /\ UNCHANGED <<prog, head, memory, loaded, lsap, loadsNow, annuls>>

\* commit(): the uop at the head takes effect; a store writes memory through the cache.
Commit ==
  LET i == head + 1
  IN /\ i \in InFlight /\ At(i).state = "completed"
     /\ memory' = IF prog[i].op = "st"
                    THEN [memory EXCEPT ![At(i).physaddr] = Merge(@, At(i).data, At(i).bytemask)]
                    ELSE memory
     /\ loaded' = IF IsLoad(i) THEN [loaded EXCEPT ![i] = At(i).data] ELSE loaded
     /\ head' = i
     /\ lsq' = Tail(lsq)
     /\ UNCHANGED <<prog, lsap, loadsNow, annuls>>

\* runcycle(): the loads of the last cycle are forgotten.
NextCycle ==
  /\ loadsNow # {}
  /\ loadsNow' = {}
  /\ UNCHANGED <<prog, head, lsq, memory, loaded, lsap, annuls>>

\* annul() after a mispredicted branch or an unaligned access, flush_pipeline(): the youngest
\* uops leave the queue and are fetched again.
Annul(k) ==
  /\ annuls < MaxAnnuls /\ k < Len(lsq)
  /\ lsq' = SubSeq(lsq, 1, k)
  /\ annuls' = annuls + 1
  /\ UNCHANGED <<prog, head, memory, loaded, lsap, loadsNow>>

Finished == head = Len(prog) /\ UNCHANGED vars

Issue(i) ==
  \/ LoadReplays(i) \/ LoadIssues(i)
  \/ StoreReplays(i) \/ StoreParallel(i) \/ StoreAliases(i) \/ StoreIssues(i)
  \/ FenceIssues(i)

Next ==
  \/ Allocate \/ Commit \/ NextCycle \/ Finished
  \/ \E i \in InFlight : Dispatch(i) \/ Issue(i) \/ Complete(i) \/ LoadWakeup(i) \/ FenceWakeup(i)
  \/ \E k \in 0 .. LsqSize : Annul(k)

MaxLength == Max({Len(p) : p \in Programs})

Fairness ==
  /\ WF_vars(Allocate) /\ WF_vars(Commit) /\ WF_vars(NextCycle)
  /\ \A i \in 1 .. MaxLength : /\ WF_vars(Dispatch(i)) /\ WF_vars(Issue(i)) /\ WF_vars(Complete(i))
                               /\ WF_vars(LoadWakeup(i)) /\ WF_vars(FenceWakeup(i))

Spec == Init /\ [][Next]_vars /\ Fairness

-----------------------------------------------------------------------------
(***************************************************************************)
(* TypeOK: the queue holds no more uops than LSQ_SIZE, LDQ_SIZE and        *)
(* STQ_SIZE allow, and each entry is one the ROB and the LSQ can hold.     *)
(***************************************************************************)
TypeOK ==
  /\ prog \in Programs /\ head \in Position
  /\ lsq \in Seq(Entry) /\ Len(lsq) < LsqSize /\ head + Len(lsq) <= Len(prog)
  /\ Cardinality({i \in InFlight : IsLoad(i)}) <= LdqSize
  /\ Cardinality({i \in InFlight : IsStore(i)}) <= StqSize
  /\ \A i \in InFlight : At(i).rs < i /\ (At(i).rs # 0 => IsStore(At(i).rs))
  /\ memory \in [Chunk -> Word] /\ loaded \in [DOMAIN prog -> Word]
  /\ lsap \in [tags: [Way -> Position], evictmap: SUBSET Way]
  /\ loadsNow \subseteq Chunk /\ annuls \in 0 .. MaxAnnuls

(***************************************************************************)
(* FencesHold: a load behind an lfence or mfence, or a store behind an     *)
(* sfence or mfence, has issued only if everything in front of the fence   *)
(* has committed.  "The mf uop issues immediately but does not complete    *)
(* until it's at the head of the ROB and LSQ; only at that point can       *)
(* future loads or stores issue."                                          *)
(***************************************************************************)
FencesHold ==
  \A i \in InFlight, j \in InFlight :
    /\ IsFence(i) /\ i < j /\ At(j).issued
    /\ IF IsLoad(j) THEN prog[i].lfence ELSE prog[j].op = "st" /\ prog[i].sfence
    => i = head + 1

(***************************************************************************)
(* RefinesSequential: whatever order loads and stores issue in, the uops   *)
(* that commit load and store what they would if they had executed one at  *)
(* a time in program order, and every uop commits in the end: loads that   *)
(* issued too early are found, and found only so often.                    *)
(***************************************************************************)
Sequential == INSTANCE SequentialMemory WITH pc <- head + 1
RefinesSequential == Sequential!Spec
=============================================================================

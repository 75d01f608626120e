--------------------------- MODULE RegisterRename ---------------------------
(***************************************************************************)
(* Register renaming, the reorder buffer and physical register recycling   *)
(* of the out-of-order core (ooocore.h, ooocore.cpp, ooopipe.cpp,          *)
(* oooexec.cpp).                                                           *)
(*                                                                         *)
(* A physical register lives through the states of PhysRegState; it is     *)
(* reference counted, and a reference is held by every operand of every    *)
(* uop in the reorder buffer and by every entry of the speculative and of  *)
(* the committed register rename table.  A register may return to the free *)
(* list only when nothing refers to it any more ("Physical Register        *)
(* Recycling Complications", ooopipe.cpp).                                 *)
(*                                                                         *)
(* Abstractions.  The values in the registers are left out: all that the   *)
(* properties below tell apart is which register a uop reads and writes.   *)
(* The ROB, a ring of RobSize slots, is the sequence of its live entries   *)
(* in program order.  Latencies and widths of the pipeline stages are left *)
(* open: in the part of a cycle after commit each stage may move any uop   *)
(* its list allows.  Which store or fence a load or store depends on (the  *)
(* RS operand) is decided by the load/store queue; here it is any older    *)
(* one.                                                                    *)
(***************************************************************************)
EXTENDS Integers, Sequences, FiniteSets

CONSTANTS
  PhysReg,      \* the physical registers of all register files
  NullReg,      \* PHYS_REG_NULL of file 0: always zero, never recycled
  File,         \* the physical register files
  FileOf,       \* the file a physical register belongs to
  ArchReg,      \* architectural registers, REG_zero and REG_flags included
  ZeroReg,      \* REG_zero
  FlagsReg,     \* REG_flags
  TempReg,      \* internal translation registers (REG_temp0, REG_mem ...)
  FlagReg,      \* REG_zf, REG_cf, REG_of
  HomeFile,     \* the file that holds an architectural register after a flush
  Uop,          \* the uops the frontend may deliver
  RobSize,      \* ROB_SIZE
  LdqSize,      \* LDQ_SIZE
  StqSize,      \* STQ_SIZE
  CommitWidth   \* COMMIT_WIDTH

TransReg == ArchReg \cup TempReg \cup FlagReg

Operand == {"RA", "RB", "RC", "RS"}

UopClass == {"alu", "ld", "st", "mf", "br"}

(***************************************************************************)
(* What a uop tells the renamer: the destination, the three renamed        *)
(* sources, the flags it sets (none if nouserflags), the class, the        *)
(* register file its class may write and the macro-op boundary bits.       *)
(***************************************************************************)
UopType == [rd: TransReg, src: [Operand \ {"RS"} -> TransReg],
            setflags: SUBSET FlagReg, class: UopClass, file: File,
            som: BOOLEAN, eom: BOOLEAN]

(***************************************************************************)
(* commit() asserts archdest_can_commit[rd] (every register but REG_zero), *)
(* and that a branch ends its macro-op; no translated load, store or fence *)
(* sets flags, so that commit(), which skips the flags of ld and st, and   *)
(* rename(), which does not, agree.                                        *)
(***************************************************************************)
ASSUME UopAssumption ==
  /\ Uop \subseteq UopType
  /\ \A u \in Uop : /\ u.rd \notin FlagReg \cup {ZeroReg}
                    /\ u.class \in {"ld", "st", "mf"} => u.setflags = {}
                    /\ u.class = "br" => u.eom

ASSUME RegAssumption ==
  /\ IsFiniteSet(PhysReg) /\ IsFiniteSet(TransReg)
  /\ NullReg \in PhysReg
  /\ FileOf \in [PhysReg -> File]
  /\ HomeFile \in [ArchReg -> File]
  /\ {ZeroReg, FlagsReg} \subseteq ArchReg /\ ZeroReg # FlagsReg
  /\ ArchReg \cap TempReg = {} /\ ArchReg \cap FlagReg = {} /\ TempReg \cap FlagReg = {}

ASSUME SizeAssumption == {RobSize, LdqSize, StqSize, CommitWidth} \subseteq Nat \ {0}

PhysRegState == {"FREE", "WAITING", "BYPASS", "WRITTEN", "ARCH", "PENDINGFREE"}

\* The states of a register whose producer is still in the ROB.
InFlightState == {"WAITING", "BYPASS", "WRITTEN"}

(***************************************************************************)
(* The ROB lists an entry moves through.  "dispatched" stands for every    *)
(* list of uops that sit in an issue queue, "completed" for the completed  *)
(* and ready-to-writeback lists.                                           *)
(***************************************************************************)
RobList == {"frontend", "ready_to_dispatch", "dispatched", "issued",
            "cache_miss", "completed", "ready_to_commit"}

RobEntry == [uop: Uop, physreg: PhysReg, operands: [Operand -> PhysReg],
             list: RobList, second: BOOLEAN, inv: BOOLEAN]

VARIABLES
  state,        \* PhysicalRegister::state
  refcount,     \* PhysicalRegister::refcount
  specrrt,      \* speculative register rename table
  commitrrt,    \* committed register rename table
  rob,          \* ROB entries in program order
  nextsom,      \* the next uop of the fetch queue starts a macro-op
  stage,        \* "commit" while ThreadContext::commit() runs, then "pipeline"
  commitcount,  \* uops committed in this cycle
  commitrc      \* "flush": commit() ended with a result whose handler flushes

vars == <<state, refcount, specrrt, commitrrt, rob, nextsom, stage, commitcount, commitrc>>

-----------------------------------------------------------------------------
\* Reference counting and rename table helpers.

IsMem(u) == u.class \in {"ld", "st", "mf"}

\* The rename table entries a uop replaces: rd and the flags it sets.
Dests(u) == {u.rd} \cup u.setflags

\* References to p from the operands of the entries of r at the positions in S.
OperandRefs(r, S, p) == {s \in S \X Operand : r[s[1]].operands[s[2]] = p}
OperandCount(r, S, p) == Cardinality(OperandRefs(r, S, p))

\* References to p from a rename table.
RrtRefs(m, p) == {a \in TransReg : m[a] = p}
RrtCount(m, p) == Cardinality(RrtRefs(m, p))

\* References one entry holds to p, released when it commits.
EntryRefs(e, p) == Cardinality({o \in Operand : e.operands[o] = p})

FreeRegs(f) == {p \in PhysReg : state[p] = "FREE" /\ FileOf[p] = f}

(***************************************************************************)
(* The rename table after the first k entries of r have (pseudo)committed  *)
(* on top of base: each register maps to its last writer.                  *)
(***************************************************************************)
Writers(r, k, a) == {j \in 1..k : a \in Dests(r[j].uop)}
LastOf(W) == CHOOSE j \in W : \A m \in W : m <= j
MapAfter(r, k, base) ==
  [a \in TransReg |-> IF Writers(r, k, a) = {} THEN base[a]
                      ELSE r[LastOf(Writers(r, k, a))].physreg]

-----------------------------------------------------------------------------
(***************************************************************************)
(* external_to_core_state(): every register is free when it runs, so which *)
(* ones back the architectural registers is immaterial.  Temporaries start *)
(* at the null register, the flags at REG_flags.                           *)
(***************************************************************************)
IsResetMap(m) ==
  /\ m \in [ArchReg -> PhysReg]
  /\ m[ZeroReg] = NullReg
  /\ \A a \in ArchReg \ {ZeroReg} : /\ m[a] # NullReg
                                    /\ FileOf[m[a]] = HomeFile[a]
                                    /\ \A b \in ArchReg : m[a] = m[b] => a = b

ArchMap == CHOOSE m \in [ArchReg -> PhysReg] : IsResetMap(m)

\* "need increase rf size if failed": the files hold the architectural state.
ASSUME ResetAssumption == \E m \in [ArchReg -> PhysReg] : IsResetMap(m)

ResetMap == [a \in TransReg |-> IF a \in ArchReg THEN ArchMap[a]
                                ELSE IF a \in FlagReg THEN ArchMap[FlagsReg]
                                ELSE NullReg]

ResetRegs == {ResetMap[a] : a \in TransReg}

ExternalToCoreState ==
  /\ state' = [p \in PhysReg |-> IF p \in ResetRegs THEN "ARCH" ELSE "FREE"]
  /\ specrrt' = ResetMap
  /\ commitrrt' = ResetMap
  /\ refcount' = [p \in PhysReg |-> 2 * RrtCount(ResetMap, p)
                                    + (IF p = NullReg THEN 1 ELSE 0)]

Init ==
  /\ state = [p \in PhysReg |-> IF p \in ResetRegs THEN "ARCH" ELSE "FREE"]
  /\ specrrt = ResetMap
  /\ commitrrt = ResetMap
  /\ refcount = [p \in PhysReg |-> 2 * RrtCount(ResetMap, p)
                                   + (IF p = NullReg THEN 1 ELSE 0)]
  /\ rob = << >>
  /\ nextsom = TRUE
  /\ stage = "pipeline"
  /\ commitcount = 0
  /\ commitrc = "ok"

(***************************************************************************)
(* flush_pipeline(): empty the ROB, free the registers of its entries and  *)
(* all ARCH and PENDINGFREE registers, restart from the committed state.   *)
(* Only these are freed: a register in another state that no entry owns    *)
(* would leak (RegistersOwned).                                            *)
(***************************************************************************)
FlushPipeline ==
  /\ rob' = << >>
  /\ nextsom' = TRUE
  /\ ExternalToCoreState

-----------------------------------------------------------------------------
(***************************************************************************)
(* rename(): one uop of the fetch queue enters the ROB.                    *)
(***************************************************************************)
RenamedOperands(u) ==
  [o \in Operand |-> IF o = "RS" THEN NullReg ELSE specrrt[u.src[o]]]

InFlight(classes) == Cardinality({j \in 1..Len(rob) : rob[j].uop.class \in classes})

\* Room in the ROB and, for a load, store or fence, in the LDQ or STQ and in the
\* LSQ; a FixedQueue of n slots holds n - 1 entries.
QueueRoom(u) ==
  /\ Len(rob) < RobSize - 1
  /\ u.class = "ld" => InFlight({"ld"}) < LdqSize
  /\ u.class \in {"st", "mf"} => InFlight({"st", "mf"}) < StqSize
  /\ IsMem(u) => InFlight({"ld", "st", "mf"}) < LdqSize + StqSize - 1

Rename(u, p) ==
  LET ops == RenamedOperands(u)
      spec == [a \in TransReg |-> IF a \in Dests(u) THEN p ELSE specrrt[a]]
  IN  /\ stage = "pipeline"
      /\ QueueRoom(u)
      /\ u.som = nextsom
      /\ p \in FreeRegs(u.file)
      /\ rob' = Append(rob, [uop |-> u, physreg |-> p, operands |-> ops,
                             list |-> "frontend", second |-> FALSE, inv |-> FALSE])
      /\ nextsom' = u.eom
      /\ specrrt' = spec
      /\ state' = [state EXCEPT ![p] = "WAITING"]
      /\ refcount' = [q \in PhysReg |-> refcount[q] + Cardinality({o \in Operand : ops[o] = q})
                                        + RrtCount(spec, q) - RrtCount(specrrt, q)]
      /\ UNCHANGED <<commitrrt, stage, commitcount, commitrc>>

\* frontend(): the oldest uop of the frontend list leaves the frontend pipe.
Frontend(i) ==
  /\ stage = "pipeline"
  /\ rob[i].list = "frontend"
  /\ \A j \in 1..(i - 1) : rob[j].list # "frontend"
  /\ rob' = [rob EXCEPT ![i].list = "ready_to_dispatch"]
  /\ UNCHANGED <<state, refcount, specrrt, commitrrt, nextsom, stage, commitcount, commitrc>>

(***************************************************************************)
(* dispatch() and find_sources(): in program order into an issue queue.  A *)
(* load or store behind an outstanding memory fence takes the fence as its *)
(* RS operand; the reference to the register RS held before is not         *)
(* dropped.                                                                *)
(***************************************************************************)
OutstandingFences(i) ==
  {rob[j].physreg : j \in {k \in 1..(i - 1) : rob[k].uop.class = "mf" /\ ~rob[k].second}}

Dispatch(i) ==
  /\ stage = "pipeline"
  /\ rob[i].list = "ready_to_dispatch"
  /\ \A j \in 1..(i - 1) : rob[j].list # "ready_to_dispatch"
  /\ \/ /\ rob' = [rob EXCEPT ![i].list = "dispatched"]
        /\ UNCHANGED refcount
     \/ /\ rob[i].uop.class \in {"ld", "st"}
        /\ \E f \in OutstandingFences(i) :
             /\ rob' = [rob EXCEPT ![i].list = "dispatched", ![i].operands["RS"] = f]
             /\ refcount' = [refcount EXCEPT ![f] = @ + 1]
  /\ UNCHANGED <<state, specrrt, commitrrt, nextsom, stage, commitcount, commitrc>>

-----------------------------------------------------------------------------
(***************************************************************************)
(* issue(): every operand the scheduler waits for has left WAITING.  A     *)
(* first-phase store does not wait for its data (RC).                      *)
(***************************************************************************)
OperandsReady(i) ==
  \A o \in Operand : \/ state[rob[i].operands[o]] # "WAITING"
                     \/ o = "RC" /\ rob[i].uop.class \in {"st", "mf"} /\ ~rob[i].second

Issuable(i) == stage = "pipeline" /\ rob[i].list = "dispatched" /\ OperandsReady(i)

\* Mutant: the scan for older stores goes on past the uop itself.
RsChoices_AnyStore(i) ==
  {NullReg} \cup {rob[j].physreg : j \in {k \in 1..Len(rob) : rob[k].uop.class \in {"st", "mf"}}}

\* The registers the RS operand may be set to: an older store, a fence or none.
RsChoices(i) ==
  {NullReg} \cup {rob[j].physreg : j \in {k \in 1..(i - 1) : rob[k].uop.class \in {"st", "mf"}}}

\* Mutant: the old RS operand is not released.
MoveRs_NoUnref(i, s) == [refcount EXCEPT ![s] = @ + 1]

\* unref() of the old RS operand of entry i, addref() of the new one.
MoveRs(i, s) ==
  [q \in PhysReg |-> refcount[q] - (IF q = rob[i].operands["RS"] THEN 1 ELSE 0)
                                 + (IF q = s THEN 1 ELSE 0)]

\* An ALU uop, a prefetch or a branch predicted correctly issues.
IssueReg(i) ==
  /\ Issuable(i)
  /\ ~IsMem(rob[i].uop)
  /\ rob' = [rob EXCEPT ![i].list = "issued"]
  /\ UNCHANGED <<state, refcount, specrrt, commitrrt, nextsom, stage, commitcount, commitrc>>

\* issueload()/issuestore() succeed; a load that misses the L1 joins the miss list.
IssueMem(i, s, l) ==
  /\ Issuable(i)
  /\ rob[i].uop.class \in {"ld", "st"}
  /\ s \in RsChoices(i)
  /\ l \in {"issued", "cache_miss"} /\ (l = "cache_miss" => rob[i].uop.class = "ld")
  /\ rob' = [rob EXCEPT ![i].list = l, ![i].operands["RS"] = s]
  /\ refcount' = MoveRs(i, s)
  /\ UNCHANGED <<state, specrrt, commitrrt, nextsom, stage, commitcount, commitrc>>

\* issueload()/issuestore() must wait: replay() in the same issue queue slot.
Replay(i, s) ==
  /\ Issuable(i)
  /\ rob[i].uop.class \in {"ld", "st"}
  /\ s \in RsChoices(i)
  /\ rob' = [rob EXCEPT ![i].second = TRUE, ![i].operands["RS"] = s]
  /\ refcount' = MoveRs(i, s)
  /\ UNCHANGED <<state, specrrt, commitrrt, nextsom, stage, commitcount, commitrc>>

\* The uop raises an exception: straight to commit, its register stays WAITING.
IssueException(i) ==
  /\ Issuable(i)
  /\ rob[i].uop.class # "mf"
  /\ rob' = [rob EXCEPT ![i].list = "ready_to_commit", ![i].inv = TRUE]
  /\ UNCHANGED <<state, refcount, specrrt, commitrrt, nextsom, stage, commitcount, commitrc>>

\* issuefence(): a fence proceeds directly to commit.
IssueFence(i) ==
  /\ Issuable(i)
  /\ rob[i].uop.class = "mf"
  /\ rob' = [rob EXCEPT ![i].list = "ready_to_commit"]
  /\ UNCHANGED <<state, refcount, specrrt, commitrrt, nextsom, stage, commitcount, commitrc>>

-----------------------------------------------------------------------------
\* Mutant: the flags stay those of the annulled uops.
PseudoCommit_KeepsFlags(r, k) ==
  [a \in TransReg |-> IF a \in FlagReg THEN specrrt[a] ELSE MapAfter(r, k, commitrrt)[a]]

(***************************************************************************)
(* annul(): drop every entry after the first k of r.  The speculative      *)
(* table is rebuilt from the committed one by pseudocommit() of the first  *)
(* k entries; the dropped entries release their operands and free their    *)
(* destination registers.                                                  *)
(***************************************************************************)
PseudoCommit(r, k) == MapAfter(r, k, commitrrt)

AnnulAfter(r, k) ==
  LET dropped == (k + 1)..Len(r)
      freed == {r[j].physreg : j \in dropped}
      spec == PseudoCommit(r, k)
  IN  /\ rob' = SubSeq(r, 1, k)
      /\ nextsom' = TRUE
      /\ IF k = Len(r)
         THEN UNCHANGED <<specrrt, state, refcount>>
         ELSE /\ specrrt' = spec
              /\ state' = [q \in PhysReg |-> IF q \in freed THEN "FREE" ELSE state[q]]
              /\ refcount' = [q \in PhysReg |->
                   IF q \in freed THEN 0
                   ELSE refcount[q] - RrtCount(specrrt, q) + RrtCount(spec, q)
                                    - OperandCount(r, dropped, q)]

\* A mispredicted branch: annul_after(), the branch itself stays.
Mispredict(i) ==
  /\ Issuable(i)
  /\ rob[i].uop.class = "br"
  /\ AnnulAfter([rob EXCEPT ![i].list = "issued"], i)
  /\ UNCHANGED <<commitrrt, stage, commitcount, commitrc>>

\* The position of the first uop of the macro-op that entry i belongs to.
SomOf(i) == LastOf({j \in 1..i : rob[j].uop.som})

(***************************************************************************)
(* An unaligned access: annul_after_and_including() its whole macro-op,    *)
(* which is refetched and split.                                           *)
(***************************************************************************)
Refetch(i) ==
  /\ Issuable(i)
  /\ rob[i].uop.class \in {"ld", "st"}
  /\ AnnulAfter(rob, SomOf(i) - 1)
  /\ UNCHANGED <<commitrrt, stage, commitcount, commitrc>>

(***************************************************************************)
(* redispatch(): back to the state just after allocation, without the RS   *)
(* dependency.                                                             *)
(***************************************************************************)
Redispatched(e) ==
  [e EXCEPT !.list = "ready_to_dispatch", !.second = FALSE, !.inv = FALSE,
            !.operands["RS"] = IF IsMem(e.uop) THEN NullReg ELSE @]

\* Mutant: only the stores and what reads this store's register go back.
RedispatchSet_Dependents(i) ==
  {j \in i..Len(rob) : \/ j = i \/ rob[j].uop.class = "st"
                       \/ \E o \in Operand : rob[j].operands[o] = rob[i].physreg}

(***************************************************************************)
(* A store finds that a younger load to its address has issued already:    *)
(* redispatch_dependents().  Its dep condition tests the opcode of the     *)
(* store itself, so the store and everything after it is redispatched.     *)
(***************************************************************************)
RedispatchSet(i) == i..Len(rob)

Misspeculate(i) ==
  LET again == RedispatchSet(i)
      r == [j \in 1..Len(rob) |-> IF j \in again THEN Redispatched(rob[j]) ELSE rob[j]]
  IN  /\ Issuable(i)
      /\ rob[i].uop.class = "st"
      /\ \E j \in (i + 1)..Len(rob) :
           rob[j].uop.class = "ld" /\ rob[j].list \notin {"frontend", "ready_to_dispatch", "dispatched"}
      /\ rob' = r
      /\ state' = [q \in PhysReg |-> IF \E j \in again : rob[j].physreg = q THEN "WAITING"
                                     ELSE state[q]]
      /\ refcount' = [q \in PhysReg |-> refcount[q] - OperandCount(rob, again, q)
                                                    + OperandCount(r, again, q)]
      /\ UNCHANGED <<specrrt, commitrrt, nextsom, stage, commitcount, commitrc>>

-----------------------------------------------------------------------------
\* complete() and loadwakeup(): the result is on the bypass network.
Complete(i) ==
  /\ stage = "pipeline"
  /\ rob[i].list \in {"issued", "cache_miss"}
  /\ rob' = [rob EXCEPT ![i].list = "completed"]
  /\ state' = [state EXCEPT ![rob[i].physreg] = "BYPASS"]
  /\ UNCHANGED <<refcount, specrrt, commitrrt, nextsom, stage, commitcount, commitrc>>

\* transfer() and writeback(): the result reaches the register file.
Writeback(i) ==
  /\ stage = "pipeline"
  /\ rob[i].list = "completed"
  /\ rob' = [rob EXCEPT ![i].list = "ready_to_commit"]
  /\ state' = [state EXCEPT ![rob[i].physreg] = "WRITTEN"]
  /\ UNCHANGED <<refcount, specrrt, commitrrt, nextsom, stage, commitcount, commitrc>>

-----------------------------------------------------------------------------
(***************************************************************************)
(* commit().  The scan from the head stops at the first excepting uop or   *)
(* at the end of the macro-op.                                             *)
(***************************************************************************)
ScanStops(r, k) == /\ r[k].uop.eom \/ r[k].inv
                   /\ \A j \in 1..(k - 1) : ~r[j].uop.eom /\ ~r[j].inv

MacroOpExcepts(r) == \E k \in 1..Len(r) : ScanStops(r, k) /\ r[k].inv

\* Mutant: only the uop at the head is looked at.
MacroOpReady_HeadOnly(r) == r # << >> /\ r[1].list = "ready_to_commit" /\ ~r[1].inv

MacroOpReady(r) == \E k \in 1..Len(r) : /\ ScanStops(r, k) /\ ~r[k].inv
                                        /\ \A j \in 1..k : r[j].list = "ready_to_commit"

\* A fence that reached the head for the first time is woken up and recirculates.
FenceAtHead == /\ rob # << >>
               /\ rob[1].uop.class = "mf" /\ rob[1].list = "ready_to_commit" /\ ~rob[1].second

\* Mutant: the width is tested after the uop instead of before it.
CommitContinues_OneMore == /\ stage = "commit" /\ commitrc = "ok"
                           /\ rob # << >> /\ commitcount <= CommitWidth

CommitContinues == /\ stage = "commit" /\ commitrc = "ok"
                   /\ rob # << >> /\ commitcount < CommitWidth

\* commitrrt after e commits.
CommittedMap(e) ==
  [a \in TransReg |-> IF a \in Dests(e.uop) THEN e.physreg ELSE commitrrt[a]]

\* Mutant: the old mapping of rd stays in the ARCH state.
CommittedState_KeepsOld(e, old, frees) == [state EXCEPT ![e.physreg] = "ARCH"]

\* The register states after e commits over the old mapping of its rd.
CommittedState(e, old, frees) ==
  [q \in PhysReg |-> IF q = e.physreg THEN "ARCH"
                     ELSE IF q = old /\ old # NullReg
                          THEN IF frees THEN "FREE" ELSE "PENDINGFREE"
                     ELSE state[q]]

(***************************************************************************)
(* One uop commits.  The old mapping of rd is freed or, if it is still     *)
(* referenced at this point, left pending; only then are the operands of   *)
(* the uop released.  A barrier, self-modified code or a stop request      *)
(* (eom uops) ends the commit stage with a result that flushes.            *)
(***************************************************************************)
CommitUop ==
  LET e == Head(rob)
      old == commitrrt[e.uop.rd]
      com == CommittedMap(e)
      owned == [q \in PhysReg |-> refcount[q] + RrtCount(com, q) - RrtCount(commitrrt, q)]
      frees == old # NullReg /\ owned[old] <= 0
  IN  /\ CommitContinues
      /\ ~FenceAtHead
      /\ MacroOpReady(rob)
      /\ rob' = Tail(rob)
      /\ commitrrt' = com
      /\ state' = CommittedState(e, old, frees)
      /\ refcount' = [q \in PhysReg |-> (IF q = old /\ frees THEN 0 ELSE owned[q])
                                        - EntryRefs(e, q)]
      /\ commitrc' \in (IF e.uop.eom THEN {"ok", "flush"} ELSE {"ok"})
      /\ commitcount' = IF commitrc' = "ok" THEN commitcount + 1 ELSE commitcount
      /\ UNCHANGED <<specrrt, nextsom, stage>>

\* fencewakeup() at the head of the ROB; the fence is then not ready to commit.
FenceWakeup ==
  LET r == [rob EXCEPT ![1].list = "completed", ![1].second = TRUE]
  IN  /\ CommitContinues
      /\ FenceAtHead
      /\ rob' = r
      /\ state' = [state EXCEPT ![rob[1].physreg] = "BYPASS"]
      /\ stage' = "pipeline"
      /\ commitrc' = IF MacroOpExcepts(r) THEN "flush" ELSE "ok"
      /\ UNCHANGED <<refcount, specrrt, commitrrt, nextsom, commitcount>>

(***************************************************************************)
(* The commit loop ends: nothing (more) may commit, the macro-op at the    *)
(* head excepts, or it starts on a page that was written since it was      *)
(* translated (SMC).                                                       *)
(***************************************************************************)
EndCommit ==
  /\ stage = "commit"
  /\ \/ /\ ~CommitContinues \/ (~MacroOpReady(rob) /\ ~MacroOpExcepts(rob) /\ ~FenceAtHead)
        /\ UNCHANGED commitrc
     \/ /\ CommitContinues
        /\ ~FenceAtHead
        /\ MacroOpExcepts(rob) \/ (MacroOpReady(rob) /\ rob[1].uop.som)
        /\ commitrc' = "flush"
  /\ stage' = "pipeline"
  /\ UNCHANGED <<state, refcount, specrrt, commitrrt, rob, nextsom, commitcount>>

\* Mutant: pending registers are recycled whether or not they are referenced.
Recyclable_Unchecked(p) == state[p] = "PENDINGFREE"

\* Mutant: pending registers are never recycled.
Recyclable_Never(p) == FALSE

(***************************************************************************)
(* The end of runcycle(), where the result of commit() is handled, and the *)
(* beginning of the next commit(), which recycles the PENDINGFREE          *)
(* registers whose last reference is gone.                                 *)
(***************************************************************************)
Recyclable(p) == state[p] = "PENDINGFREE" /\ refcount[p] <= 0

NextCycle ==
  /\ stage = "pipeline"
  /\ stage' = "commit"
  /\ commitcount' = 0
  /\ commitrc' = "ok"
  /\ IF commitrc = "flush"
     THEN FlushPipeline
     ELSE LET recycled == {p \in PhysReg : Recyclable(p)}
          IN  /\ state' = [p \in PhysReg |-> IF p \in recycled THEN "FREE" ELSE state[p]]
              /\ refcount' = [p \in PhysReg |-> IF p \in recycled THEN 0 ELSE refcount[p]]
              /\ UNCHANGED <<specrrt, commitrrt, rob, nextsom>>

(***************************************************************************)
(* dispatch() gives up: redispatch_deadlock_recovery() flushes, unless a   *)
(* miss is outstanding or the head is ready to commit.                     *)
(***************************************************************************)
DeadlockRecovery ==
  /\ stage = "pipeline"
  /\ \E i \in 1..Len(rob) : rob[i].list = "ready_to_dispatch"
  /\ \A i \in 1..Len(rob) : rob[i].list # "cache_miss"
  /\ rob[1].list # "ready_to_commit"
  /\ FlushPipeline
  /\ UNCHANGED <<stage, commitcount, commitrc>>

-----------------------------------------------------------------------------
Next ==
  \/ \E u \in Uop, p \in PhysReg : Rename(u, p)
  \/ \E i \in 1..Len(rob) :
       \/ Frontend(i) \/ Dispatch(i)
       \/ IssueReg(i) \/ IssueException(i) \/ IssueFence(i)
       \/ Mispredict(i) \/ Refetch(i) \/ Misspeculate(i)
       \/ Complete(i) \/ Writeback(i)
       \/ \E s \in PhysReg : Replay(i, s) \/ \E l \in RobList : IssueMem(i, s, l)
  \/ CommitUop \/ FenceWakeup \/ EndCommit \/ NextCycle \/ DeadlockRecovery

Spec == Init /\ [][Next]_vars

-----------------------------------------------------------------------------
(***************************************************************************)
(* The types of the variables.                                             *)
(***************************************************************************)
TypeOK ==
  /\ state \in [PhysReg -> PhysRegState]
  /\ refcount \in [PhysReg -> Int]
  /\ specrrt \in [TransReg -> PhysReg]
  /\ commitrrt \in [TransReg -> PhysReg]
  /\ rob \in Seq(RobEntry)
  /\ nextsom \in BOOLEAN
  /\ stage \in {"commit", "pipeline"}
  /\ commitcount \in 0..CommitWidth
  /\ commitrc \in {"ok", "flush"}

(***************************************************************************)
(* Every register but the null register counts exactly the operands and    *)
(* rename table entries that refer to it: rename, dispatch, issue, replay, *)
(* redispatch, annul and commit balance their addref and unref calls.      *)
(* This is what check_refcounts() computes.                                *)
(***************************************************************************)
References(p) == OperandCount(rob, 1..Len(rob), p) + RrtCount(specrrt, p) + RrtCount(commitrrt, p)

RefcountsExact == \A p \in PhysReg \ {NullReg} : refcount[p] = References(p)

(***************************************************************************)
(* The same for the null register, which check_refcounts() expects to      *)
(* count one reference more than there are ("special and can never be      *)
(* freed").                                                                *)
(***************************************************************************)
NullRefcountExact == refcount[NullReg] = References(NullReg) + 1

(***************************************************************************)
(* No operand of a uop in flight and no rename table entry refers to a     *)
(* register on the free list ("U3 finally issues, but finds that operand   *)
(* physical register R for U1 no longer exists").                          *)
(***************************************************************************)
NoDanglingReference ==
  /\ \A i \in 1..Len(rob) : \A o \in Operand : state[rob[i].operands[o]] # "FREE"
  /\ \A a \in TransReg : state[specrrt[a]] # "FREE" /\ state[commitrrt[a]] # "FREE"

(***************************************************************************)
(* Each uop reads exactly the registers written by the last older uop in   *)
(* flight that writes the source, or the committed ones; the speculative   *)
(* rename table is the committed one after everything in flight.  It must  *)
(* survive commits, annuls that rebuild the table, redispatches, flushes.  *)
(***************************************************************************)
RenamingPrecise ==
  /\ \A i \in 1..Len(rob) : \A o \in Operand \ {"RS"} :
       rob[i].operands[o] = MapAfter(rob, i - 1, commitrrt)[rob[i].uop.src[o]]
  /\ specrrt = MapAfter(rob, Len(rob), commitrrt)

(***************************************************************************)
(* Registers are neither shared nor lost: those in flight belong to        *)
(* exactly one ROB entry and those entries own no other; an ARCH register  *)
(* is the committed mapping of a register (this is commit()'s assertion    *)
(* that the old mapping of rd is ARCH), and a PENDINGFREE one is not.      *)
(***************************************************************************)
RegistersOwned ==
  /\ \A i \in 1..Len(rob) : /\ state[rob[i].physreg] \in InFlightState
                            /\ \A j \in 1..Len(rob) : rob[i].physreg = rob[j].physreg => i = j
  /\ \A p \in PhysReg : state[p] \in InFlightState => \E i \in 1..Len(rob) : rob[i].physreg = p
  /\ \A p \in PhysReg : state[p] = "ARCH" <=>
       p = NullReg \/ \E a \in TransReg \ FlagReg : commitrrt[a] = p

(***************************************************************************)
(* A uop only depends on older ones: an operand that is not yet committed  *)
(* is the destination of an entry nearer to the head, so that annul() in   *)
(* reverse order never frees a register somebody still reads.              *)
(***************************************************************************)
ProducersOlder ==
  \A i \in 1..Len(rob) : \A o \in Operand :
    state[rob[i].operands[o]] \in InFlightState =>
      \E j \in 1..(i - 1) : rob[j].physreg = rob[i].operands[o]

(***************************************************************************)
(* The scans of annul() stay inside the ROB: when a load or store can      *)
(* still be refetched, the first uop of its macro-op has not committed     *)
(* ("guaranteed to still be in the ROB since none of the uops commit until *)
(* the entire macro-op can commit").                                       *)
(***************************************************************************)
AnnulFindsSom ==
  \A i \in 1..Len(rob) :
    rob[i].list = "dispatched" /\ rob[i].uop.class \in {"ld", "st", "br"} =>
      \E j \in 1..i : rob[j].uop.som /\ \A k \in j..(i - 1) : ~rob[k].uop.eom

(***************************************************************************)
(* The uops still to be dispatched are the youngest ones, so that the      *)
(* dispatch list stays in program order although redispatch() inserts at   *)
(* its head.                                                               *)
(***************************************************************************)
DispatchInOrder ==
  \A i, j \in 1..Len(rob) :
    /\ i < j /\ rob[i].list = "frontend" => rob[j].list = "frontend"
    /\ i < j /\ rob[i].list = "ready_to_dispatch" => rob[j].list \in {"frontend", "ready_to_dispatch"}

(***************************************************************************)
(* No register leaks: once the ROB has drained, what commit() starts with  *)
(* is the committed state alone; all other registers are free again.       *)
(***************************************************************************)
DrainedRegistersFree ==
  stage = "commit" /\ commitrc = "ok" /\ rob = << >> /\ commitcount = 0 =>
    \A p \in PhysReg : state[p] # "FREE" => p = NullReg \/ \E a \in TransReg : commitrrt[a] = p

=============================================================================

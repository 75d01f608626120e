------------------------ MODULE RegisterRenameProofs ------------------------
(***************************************************************************)
(* Renaming and the reorder buffer for every uop mix, register file and    *)
(* ROB size.  First type correctness, the order of the dispatch list and   *)
(* the scans of annul(); then who refers to a physical register.           *)
(***************************************************************************)
EXTENDS RegisterRename, FiniteSetTheorems, FunctionTheorems, SequenceTheorems, WellFoundedInduction, TLAPS

(***************************************************************************)
(* The macro-op boundaries in the ROB and in the fetch queue agree: a uop  *)
(* starts a macro-op exactly if the one before it ends one.                *)
(***************************************************************************)
MacroOpsChained ==
  /\ \A j \in 1..(Len(rob) - 1) : rob[j + 1].uop.som = rob[j].uop.eom
  /\ nextsom = IF rob = << >> THEN TRUE ELSE rob[Len(rob)].uop.eom

\* The lists of entries that have their result.
Late == {"completed", "ready_to_commit"}

(***************************************************************************)
(* A macro-op that has begun to commit is still complete: its end is in    *)
(* the ROB and none of its uops waits to issue.  (A fence in the middle of *)
(* it recirculates through "completed".)                                   *)
(***************************************************************************)
HeadCommitting ==
  rob # << >> /\ ~rob[1].uop.som =>
    \E k \in 1..Len(rob) : rob[k].uop.eom /\ \A j \in 1..k : rob[j].list \in Late

RobInv == TypeOK /\ MacroOpsChained /\ HeadCommitting /\ DispatchInOrder

-----------------------------------------------------------------------------
\* A non-empty set of positions has a last one.
LEMMA LastOfIn ==
  ASSUME NEW k \in Nat, NEW W \in SUBSET (1..k), W # {}
  PROVE  LastOf(W) \in W /\ \A m \in W : m <= LastOf(W)
<1> DEFINE T == {k - j : j \in W}
           R == OpToRel(<, Nat)
<1>1. T \subseteq Nat /\ T # {}
  <2>1. \A j \in W : j \in Int /\ k - j \in Nat
    OBVIOUS
  <2> QED
    BY <2>1
<1>2. PICK x \in T : \A y \in T : ~(<<y, x>> \in R)
  <2> HIDE DEF T, R
  <2> QED
    BY <1>1, WFMin, NatLessThanWellFounded DEF R
<1>3. \A y \in T : ~(y < x)
  <2> SUFFICES ASSUME NEW y \in T, y < x PROVE FALSE
    OBVIOUS
  <2>1. x \in Nat /\ y \in Nat
    BY <1>1
  <2> HIDE DEF T
  <2>2. <<y, x>> \in R
    BY <2>1 DEF OpToRel
  <2> QED
    BY <1>2, <2>2
<1>4. PICK j \in W : x = k - j
  OBVIOUS
<1>5. ASSUME NEW m \in W PROVE m <= j
  <2>1. k - m \in T
    OBVIOUS
  <2>2. ~(k - m < k - j)
    BY <1>3, <1>4, <2>1
  <2>3. m \in Int /\ j \in Int
    OBVIOUS
  <2> QED
    BY <2>2, <2>3
<1> QED
  BY <1>4, <1>5 DEF LastOf

\* Counts are numbers.
LEMMA RrtCountInt == ASSUME NEW m, NEW p PROVE RrtCount(m, p) \in Int
<1>1. RrtRefs(m, p) \in SUBSET TransReg /\ IsFiniteSet(TransReg)
  BY RegAssumption DEF RrtRefs
<1>2. IsFiniteSet(RrtRefs(m, p))
  BY <1>1, FS_Subset
<1> QED
  BY <1>2, FS_CardinalityType DEF RrtCount

LEMMA OperandFinite == IsFiniteSet(Operand)
<1>1. IsFiniteSet({})
  BY FS_EmptySet
<1>2. IsFiniteSet({} \cup {"RA"})
  BY <1>1, FS_AddElement
<1>3. IsFiniteSet(({} \cup {"RA"}) \cup {"RB"})
  BY <1>2, FS_AddElement
<1>4. IsFiniteSet((({} \cup {"RA"}) \cup {"RB"}) \cup {"RC"})
  BY <1>3, FS_AddElement
<1>5. IsFiniteSet(((({} \cup {"RA"}) \cup {"RB"}) \cup {"RC"}) \cup {"RS"})
  BY <1>4, FS_AddElement
<1>6. ((({} \cup {"RA"}) \cup {"RB"}) \cup {"RC"}) \cup {"RS"} = Operand
  BY DEF Operand
<1> QED
  BY <1>5, <1>6

LEMMA SomeOperandsInt ==
  ASSUME NEW O \in SUBSET Operand
  PROVE  Cardinality(O) \in Int
<1>1. IsFiniteSet(O)
  BY OperandFinite, FS_Subset
<1> QED
  BY <1>1, FS_CardinalityType

LEMMA EntryRefsInt == ASSUME NEW e, NEW p PROVE EntryRefs(e, p) \in Int
  BY SomeOperandsInt DEF EntryRefs

LEMMA OperandCountInt ==
  ASSUME NEW r, NEW a \in Int, NEW b \in Int, NEW p
  PROVE  OperandCount(r, a..b, p) \in Int
<1>1. IsFiniteSet((a..b) \X Operand)
  <2>1. IsFiniteSet(a..b)
    BY FS_Interval
  <2> QED
    BY <2>1, OperandFinite, FS_Product
<1>2. OperandRefs(r, a..b, p) \in SUBSET ((a..b) \X Operand)
  BY DEF OperandRefs
<1>3. IsFiniteSet(OperandRefs(r, a..b, p))
  BY <1>1, <1>2, FS_Subset
<1> QED
  BY <1>3, FS_CardinalityType DEF OperandCount

\* A rename table rebuilt from the ROB is a rename table.
LEMMA MapAfterType ==
  ASSUME NEW r \in Seq(RobEntry), NEW k \in 0..Len(r), NEW base \in [TransReg -> PhysReg]
  PROVE  MapAfter(r, k, base) \in [TransReg -> PhysReg]
<1>1. ASSUME NEW a \in TransReg, Writers(r, k, a) # {}
      PROVE  r[LastOf(Writers(r, k, a))].physreg \in PhysReg
  <2>1. Writers(r, k, a) \in SUBSET (1..k) /\ k \in Nat
    BY DEF Writers
  <2>2. LastOf(Writers(r, k, a)) \in 1..k
    BY <1>1, <2>1, LastOfIn
  <2>3. r[LastOf(Writers(r, k, a))] \in RobEntry
    BY <2>2
  <2> QED
    BY <2>3 DEF RobEntry
<1> QED
  BY <1>1 DEF MapAfter

\* The table after a flush.
LEMMA ResetMapType == ResetMap \in [TransReg -> PhysReg]
<1>1. ArchMap \in [ArchReg -> PhysReg]
  BY ResetAssumption DEF ArchMap
<1>2. FlagsReg \in ArchReg /\ NullReg \in PhysReg
  BY RegAssumption
<1> QED
  BY <1>1, <1>2 DEF ResetMap

-----------------------------------------------------------------------------
\* What changes when the entry at position i becomes e.
LEMMA EntryBecomes ==
  ASSUME NEW r \in Seq(RobEntry), NEW i \in 1..Len(r), NEW e \in RobEntry
  PROVE  /\ [r EXCEPT ![i] = e] \in Seq(RobEntry)
         /\ Len([r EXCEPT ![i] = e]) = Len(r)
         /\ \A j \in 1..Len(r) : [r EXCEPT ![i] = e][j] = IF j = i THEN e ELSE r[j]
  BY ExceptSeq

\* A step that moves one entry to another list leaves the macro-ops as they are.
LEMMA MoveEntry ==
  ASSUME RobInv, NEW i \in 1..Len(rob), NEW e \in RobEntry, e.uop = rob[i].uop,
         rob' = [rob EXCEPT ![i] = e], nextsom' = nextsom,
         rob[i].list \in Late => e.list \in Late
  PROVE  rob' \in Seq(RobEntry) /\ MacroOpsChained' /\ HeadCommitting'
<1>1. rob \in Seq(RobEntry) /\ Len(rob) \in Nat
  BY DEF RobInv, TypeOK
<1>2. /\ rob' \in Seq(RobEntry) /\ Len(rob') = Len(rob)
      /\ \A j \in 1..Len(rob) : rob'[j] = IF j = i THEN e ELSE rob[j]
  BY <1>1, EntryBecomes
<1>3. /\ \A j \in 1..Len(rob) : rob'[j].uop = rob[j].uop
      /\ \A j \in 1..Len(rob) : rob[j].list \in Late => rob'[j].list \in Late
      /\ rob # << >> /\ rob' # << >>
  BY <1>1, <1>2
<1>4. MacroOpsChained'
  <2>1. ASSUME NEW j \in 1..(Len(rob') - 1) PROVE rob'[j + 1].uop.som = rob'[j].uop.eom
    <3>1. j \in 1..(Len(rob) - 1) /\ j \in 1..Len(rob) /\ j + 1 \in 1..Len(rob)
      BY <1>1, <1>2
    <3>2. rob[j + 1].uop.som = rob[j].uop.eom
      BY <3>1 DEF RobInv, MacroOpsChained
    <3> QED
      BY <1>3, <3>1, <3>2
  <2>2. nextsom' = rob'[Len(rob')].uop.eom
    <3>1. nextsom = rob[Len(rob)].uop.eom
      BY <1>3 DEF RobInv, MacroOpsChained
    <3>2. Len(rob) \in 1..Len(rob)
      BY <1>1
    <3>3. rob'[Len(rob')].uop = rob[Len(rob)].uop
      BY <1>2, <1>3, <3>2
    <3> QED
      BY <3>1, <3>3
  <2> QED
    BY <1>3, <2>1, <2>2 DEF MacroOpsChained
<1>5. HeadCommitting'
  BY <1>1, <1>2, <1>3 DEF RobInv, HeadCommitting
<1> QED
  BY <1>2, <1>4, <1>5

\* A step that moves an entry that has been dispatched leaves the order as it is.
LEMMA MoveDispatched ==
  ASSUME RobInv, NEW i \in 1..Len(rob), NEW e \in RobEntry,
         rob' = [rob EXCEPT ![i] = e],
         rob[i].list \notin {"frontend", "ready_to_dispatch"},
         e.list \notin {"frontend", "ready_to_dispatch"}
  PROVE  DispatchInOrder'
<1>1. /\ Len(rob') = Len(rob)
      /\ \A j \in 1..Len(rob) : rob'[j] = IF j = i THEN e ELSE rob[j]
  BY EntryBecomes DEF RobInv, TypeOK
<1>2. /\ \A j \in 1..Len(rob) : rob'[j].list = "frontend" <=> rob[j].list = "frontend"
      /\ \A j \in 1..Len(rob) : rob'[j].list = "ready_to_dispatch" <=> rob[j].list = "ready_to_dispatch"
  BY <1>1
<1> QED
  BY <1>1, <1>2 DEF RobInv, DispatchInOrder

\* The fields of an entry.
LEMMA EntryFields ==
  ASSUME RobInv, NEW i \in 1..Len(rob)
  PROVE  /\ rob[i] \in RobEntry /\ rob[i].uop \in Uop /\ rob[i].physreg \in PhysReg
         /\ rob[i].operands \in [Operand -> PhysReg] /\ rob[i].list \in RobList
         /\ rob[i].uop \in UopType
<1>1. rob[i] \in RobEntry
  BY DEF RobInv, TypeOK
<1> QED
  BY <1>1, UopAssumption DEF RobEntry

-----------------------------------------------------------------------------
\* The initial states satisfy the invariant.
LEMMA RobInitInv == Init => RobInv
<1> SUFFICES ASSUME Init PROVE RobInv
  OBVIOUS
<1>1. state \in [PhysReg -> PhysRegState]
  BY DEF Init, PhysRegState
<1>2. refcount \in [PhysReg -> Int]
  BY RrtCountInt DEF Init
<1>3. specrrt \in [TransReg -> PhysReg] /\ commitrrt \in [TransReg -> PhysReg]
  BY ResetMapType DEF Init
<1>4. rob = << >> /\ rob \in Seq(RobEntry) /\ Len(rob) = 0
  BY DEF Init
<1>5. TypeOK
  BY <1>1, <1>2, <1>3, <1>4, SizeAssumption DEF Init, TypeOK
<1> QED
  BY <1>4, <1>5 DEF Init, RobInv, MacroOpsChained, HeadCommitting, DispatchInOrder

\* A flush restarts from the committed state.
LEMMA FlushInv ==
  ASSUME RobInv, FlushPipeline, stage' \in {"commit", "pipeline"},
         commitcount' \in 0..CommitWidth, commitrc' \in {"ok", "flush"}
  PROVE  RobInv'
<1>1. state' \in [PhysReg -> PhysRegState]
  BY DEF FlushPipeline, ExternalToCoreState, PhysRegState
<1>2. refcount' \in [PhysReg -> Int]
  BY RrtCountInt DEF FlushPipeline, ExternalToCoreState
<1>3. specrrt' \in [TransReg -> PhysReg] /\ commitrrt' \in [TransReg -> PhysReg]
  BY ResetMapType DEF FlushPipeline, ExternalToCoreState
<1>4. rob' = << >> /\ rob' \in Seq(RobEntry) /\ Len(rob') = 0 /\ nextsom' = TRUE
  BY DEF FlushPipeline
<1>5. TypeOK'
  BY <1>1, <1>2, <1>3, <1>4 DEF TypeOK
<1> QED
  BY <1>4, <1>5 DEF RobInv, MacroOpsChained, HeadCommitting, DispatchInOrder

\* rename() appends an entry.
LEMMA RenameInv ==
  ASSUME RobInv, NEW u \in Uop, NEW p \in PhysReg, Rename(u, p)
  PROVE  RobInv'
<1> DEFINE ops == RenamedOperands(u)
           e == [uop |-> u, physreg |-> p, operands |-> ops,
                 list |-> "frontend", second |-> FALSE, inv |-> FALSE]
           spec == [a \in TransReg |-> IF a \in Dests(u) THEN p ELSE specrrt[a]]
<1>1. u \in UopType /\ u.som \in BOOLEAN /\ u.eom \in BOOLEAN
  BY UopAssumption DEF UopType
<1>2. ops \in [Operand -> PhysReg]
  <2>1. \A o \in Operand \ {"RS"} : u.src[o] \in TransReg
    BY <1>1 DEF UopType
  <2>2. specrrt \in [TransReg -> PhysReg] /\ NullReg \in PhysReg
    BY RegAssumption DEF RobInv, TypeOK
  <2> QED
    BY <2>1, <2>2 DEF RenamedOperands
<1>3. e \in RobEntry
  BY <1>2 DEF RobEntry, RobList
<1>4. rob \in Seq(RobEntry) /\ Len(rob) \in Nat
  BY DEF RobInv, TypeOK
<1>5. rob' = Append(rob, e) /\ nextsom' = u.eom /\ u.som = nextsom
  BY DEF Rename
<1> HIDE DEF e
<1>6. /\ rob' \in Seq(RobEntry) /\ Len(rob') = Len(rob) + 1 /\ rob'[Len(rob) + 1] = e
      /\ \A j \in 1..Len(rob) : rob'[j] = rob[j]
  BY <1>3, <1>4, <1>5, AppendProperties
<1>7. e.uop = u /\ e.list = "frontend"
  BY DEF e
<1>8. TypeOK'
  <2>1. state' \in [PhysReg -> PhysRegState]
    BY DEF Rename, RobInv, TypeOK, PhysRegState
  <2>2. refcount' \in [PhysReg -> Int]
    <3>1. \A q \in PhysReg : Cardinality({o \in Operand : ops[o] = q}) \in Int
      BY SomeOperandsInt
    <3>2. refcount' = [q \in PhysReg |-> refcount[q] + Cardinality({o \in Operand : ops[o] = q})
                                        + RrtCount(spec, q) - RrtCount(specrrt, q)]
      BY DEF Rename
    <3>3. refcount \in [PhysReg -> Int]
      BY DEF RobInv, TypeOK
    <3> HIDE DEF spec, ops
    <3> QED
      BY <3>1, <3>2, <3>3, RrtCountInt
  <2>3. specrrt' \in [TransReg -> PhysReg]
    BY DEF Rename, RobInv, TypeOK
  <2> QED
    BY <1>1, <1>5, <1>6, <2>1, <2>2, <2>3 DEF Rename, RobInv, TypeOK
<1>9. MacroOpsChained'
  <2>1. ASSUME NEW j \in 1..(Len(rob') - 1) PROVE rob'[j + 1].uop.som = rob'[j].uop.eom
    <3>1. CASE j < Len(rob)
      BY <1>4, <1>6, <3>1 DEF RobInv, MacroOpsChained
    <3>2. CASE j = Len(rob)
      <4>1. rob # << >> /\ rob'[j + 1] = e /\ rob'[j] = rob[Len(rob)]
        BY <1>4, <1>6, <3>2
      <4>2. nextsom = rob[Len(rob)].uop.eom
        BY <4>1 DEF RobInv, MacroOpsChained
      <4> QED
        BY <1>5, <1>7, <4>1, <4>2
    <3> QED
      BY <1>4, <1>6, <3>1, <3>2
  <2>2. rob' # << >> /\ rob'[Len(rob')].uop.eom = u.eom
    BY <1>4, <1>6, <1>7
  <2> QED
    BY <1>5, <2>1, <2>2 DEF MacroOpsChained
<1>10. HeadCommitting'
  <2>1. CASE rob = << >>
    <3>1. rob'[1].uop.som = TRUE
      <4>1. nextsom = TRUE
        BY <2>1 DEF RobInv, MacroOpsChained
      <4>2. rob'[1] = e
        BY <1>6, <2>1
      <4> QED
        BY <1>5, <1>7, <4>1, <4>2
    <3> QED
      BY <3>1 DEF HeadCommitting
  <2>2. CASE rob # << >>
    BY <1>4, <1>6, <2>2 DEF RobInv, HeadCommitting
  <2> QED
    BY <2>1, <2>2
<1>11. DispatchInOrder'
  BY <1>4, <1>6, <1>7 DEF RobInv, DispatchInOrder
<1> QED
  BY <1>8, <1>9, <1>10, <1>11 DEF RobInv

\* The steps that only move an entry to list l.
LEMMA ListStep ==
  ASSUME RobInv, NEW i \in 1..Len(rob), NEW l \in RobList,
         rob' = [rob EXCEPT ![i].list = l], nextsom' = nextsom,
         rob[i].list \in Late => l \in Late
  PROVE  /\ rob' \in Seq(RobEntry) /\ MacroOpsChained' /\ HeadCommitting'
         /\ Len(rob') = Len(rob)
         /\ \A j \in 1..Len(rob) : rob'[j].list = IF j = i THEN l ELSE rob[j].list
         /\ {rob[i].list, l} \cap {"frontend", "ready_to_dispatch"} = {} => DispatchInOrder'
<1> DEFINE e == [rob[i] EXCEPT !.list = l]
<1>1. rob \in Seq(RobEntry) /\ rob[i] \in RobEntry
  BY DEF RobInv, TypeOK
<1>2. e \in RobEntry /\ e.uop = rob[i].uop /\ e.list = l
  BY <1>1 DEF RobEntry
<1>3. rob' = [rob EXCEPT ![i] = e]
  OBVIOUS
<1> HIDE DEF e
<1>4. /\ Len(rob') = Len(rob)
      /\ \A j \in 1..Len(rob) : rob'[j] = IF j = i THEN e ELSE rob[j]
  BY <1>1, <1>2, <1>3, EntryBecomes
<1> QED
  BY <1>2, <1>3, <1>4, MoveEntry, MoveDispatched

\* frontend() of the oldest entry of its list.
LEMMA FrontendInv == ASSUME RobInv, NEW i \in 1..Len(rob), Frontend(i) PROVE RobInv'
<1>1. rob' = [rob EXCEPT ![i].list = "ready_to_dispatch"] /\ nextsom' = nextsom
      /\ rob[i].list = "frontend" /\ \A j \in 1..(i - 1) : rob[j].list # "frontend"
  BY DEF Frontend
<1>2. /\ rob' \in Seq(RobEntry) /\ MacroOpsChained' /\ HeadCommitting'
      /\ Len(rob') = Len(rob)
      /\ \A j \in 1..Len(rob) : rob'[j].list = IF j = i THEN "ready_to_dispatch" ELSE rob[j].list
  BY <1>1, ListStep DEF Late, RobList
<1>3. DispatchInOrder'
  BY <1>1, <1>2 DEF RobInv, DispatchInOrder
<1> QED
  BY <1>2, <1>3 DEF RobInv, TypeOK, Frontend

\* The steps that move an entry to list l, set its RS operand to s and count it.
LEMMA RsStep ==
  ASSUME RobInv, NEW i \in 1..Len(rob), NEW l \in RobList, NEW s \in PhysReg,
         rob' = [rob EXCEPT ![i].list = l, ![i].operands["RS"] = s], nextsom' = nextsom,
         rob[i].list \in Late => l \in Late
  PROVE  /\ rob' \in Seq(RobEntry) /\ MacroOpsChained' /\ HeadCommitting'
         /\ Len(rob') = Len(rob)
         /\ \A j \in 1..Len(rob) : rob'[j].list = IF j = i THEN l ELSE rob[j].list
         /\ {rob[i].list, l} \cap {"frontend", "ready_to_dispatch"} = {} => DispatchInOrder'
<1> DEFINE e == [rob[i] EXCEPT !.list = l, !.operands["RS"] = s]
<1>1. rob \in Seq(RobEntry) /\ rob[i] \in RobEntry
  BY DEF RobInv, TypeOK
<1>2. e \in RobEntry /\ e.uop = rob[i].uop /\ e.list = l
  BY <1>1 DEF RobEntry
<1>3. rob' = [rob EXCEPT ![i] = e]
  BY <1>1 DEF RobEntry
<1> HIDE DEF e
<1>4. /\ Len(rob') = Len(rob)
      /\ \A j \in 1..Len(rob) : rob'[j] = IF j = i THEN e ELSE rob[j]
  BY <1>1, <1>2, <1>3, EntryBecomes, SMTT(30)
<1> QED
  BY <1>2, <1>3, <1>4, MoveEntry, MoveDispatched

\* dispatch() of the oldest entry of its list, behind a fence or not.
LEMMA DispatchInv == ASSUME RobInv, NEW i \in 1..Len(rob), Dispatch(i) PROVE RobInv'
<1>1. /\ nextsom' = nextsom /\ rob[i].list = "ready_to_dispatch"
      /\ \A j \in 1..(i - 1) : rob[j].list # "ready_to_dispatch"
  BY DEF Dispatch
<1>2. /\ rob' \in Seq(RobEntry) /\ MacroOpsChained' /\ HeadCommitting'
      /\ Len(rob') = Len(rob)
      /\ \A j \in 1..Len(rob) : rob'[j].list = IF j = i THEN "dispatched" ELSE rob[j].list
      /\ refcount' \in [PhysReg -> Int]
  <2>1. CASE rob' = [rob EXCEPT ![i].list = "dispatched"] /\ UNCHANGED refcount
    <3>1. refcount' \in [PhysReg -> Int]
      BY <2>1 DEF RobInv, TypeOK
    <3> QED
      BY <1>1, <2>1, <3>1, ListStep DEF Late, RobList
  <2>2. ASSUME NEW f \in OutstandingFences(i),
               rob' = [rob EXCEPT ![i].list = "dispatched", ![i].operands["RS"] = f],
               refcount' = [refcount EXCEPT ![f] = @ + 1]
        PROVE  /\ rob' \in Seq(RobEntry) /\ MacroOpsChained' /\ HeadCommitting'
               /\ Len(rob') = Len(rob)
               /\ \A j \in 1..Len(rob) : rob'[j].list = IF j = i THEN "dispatched" ELSE rob[j].list
               /\ refcount' \in [PhysReg -> Int]
    <3>1. f \in PhysReg
      <4>1. PICK k \in 1..(i - 1) : f = rob[k].physreg
        BY DEF OutstandingFences
      <4>2. k \in 1..Len(rob)
        BY <4>1
      <4> QED
        BY <4>1, <4>2, EntryFields
    <3>2. refcount' \in [PhysReg -> Int]
      BY <2>2, <3>1 DEF RobInv, TypeOK
    <3> QED
      BY <1>1, <2>2, <3>1, <3>2, RsStep DEF Late, RobList
  <2> QED
    BY <2>1, <2>2 DEF Dispatch
<1>3. DispatchInOrder'
  BY <1>1, <1>2 DEF RobInv, DispatchInOrder
<1> QED
  BY <1>2, <1>3 DEF RobInv, TypeOK, Dispatch

\* unref() and addref() of the RS operand.
LEMMA MoveRsType ==
  ASSUME RobInv, NEW i \in 1..Len(rob), NEW s \in PhysReg
  PROVE  MoveRs(i, s) \in [PhysReg -> Int]
  BY DEF RobInv, TypeOK, MoveRs

\* issue() of an ALU uop or a branch, of a fence, of an excepting uop.
LEMMA IssueRegInv == ASSUME RobInv, NEW i \in 1..Len(rob), IssueReg(i) PROVE RobInv'
<1>1. /\ rob' \in Seq(RobEntry) /\ MacroOpsChained' /\ HeadCommitting' /\ DispatchInOrder'
  BY ListStep DEF IssueReg, Issuable, Late, RobList
<1> QED
  BY <1>1 DEF RobInv, TypeOK, IssueReg

LEMMA IssueFenceInv == ASSUME RobInv, NEW i \in 1..Len(rob), IssueFence(i) PROVE RobInv'
<1>1. /\ rob' \in Seq(RobEntry) /\ MacroOpsChained' /\ HeadCommitting' /\ DispatchInOrder'
  BY ListStep, ZenonT(30) DEF IssueFence, Issuable, Late, RobList
<1> QED
  BY <1>1 DEF RobInv, TypeOK, IssueFence

LEMMA IssueExceptionInv == ASSUME RobInv, NEW i \in 1..Len(rob), IssueException(i) PROVE RobInv'
<1> DEFINE e == [rob[i] EXCEPT !.list = "ready_to_commit", !.inv = TRUE]
<1>1. rob \in Seq(RobEntry) /\ rob[i] \in RobEntry /\ rob[i].list = "dispatched"
  BY DEF RobInv, TypeOK, IssueException, Issuable
<1>2. e \in RobEntry /\ e.uop = rob[i].uop /\ e.list = "ready_to_commit"
  BY <1>1 DEF RobEntry, RobList
<1>3. rob' = [rob EXCEPT ![i] = e] /\ nextsom' = nextsom
  BY <1>1 DEF IssueException, RobEntry
<1> HIDE DEF e
<1>4. /\ rob' \in Seq(RobEntry) /\ MacroOpsChained' /\ HeadCommitting' /\ DispatchInOrder'
  BY <1>1, <1>2, <1>3, MoveEntry, MoveDispatched DEF Late
<1> QED
  BY <1>4 DEF RobInv, TypeOK, IssueException

\* issueload() and issuestore(), successful or replayed.
LEMMA IssueMemInv ==
  ASSUME RobInv, NEW i \in 1..Len(rob), NEW s \in PhysReg, NEW l \in RobList, IssueMem(i, s, l)
  PROVE  RobInv'
<1>1. /\ rob' \in Seq(RobEntry) /\ MacroOpsChained' /\ HeadCommitting' /\ DispatchInOrder'
  BY RsStep, ZenonT(30) DEF IssueMem, Issuable, Late
<1>2. refcount' \in [PhysReg -> Int]
  BY MoveRsType DEF IssueMem
<1> QED
  BY <1>1, <1>2 DEF RobInv, TypeOK, IssueMem

LEMMA ReplayInv ==
  ASSUME RobInv, NEW i \in 1..Len(rob), NEW s \in PhysReg, Replay(i, s)
  PROVE  RobInv'
<1> DEFINE e == [rob[i] EXCEPT !.second = TRUE, !.operands["RS"] = s]
<1>1. rob \in Seq(RobEntry) /\ rob[i] \in RobEntry /\ rob[i].list = "dispatched"
  BY DEF RobInv, TypeOK, Replay, Issuable
<1>2. e \in RobEntry /\ e.uop = rob[i].uop /\ e.list = "dispatched"
  BY <1>1 DEF RobEntry
<1>3. rob' = [rob EXCEPT ![i] = e] /\ nextsom' = nextsom
  BY <1>1 DEF Replay, RobEntry
<1> HIDE DEF e
<1>4. /\ rob' \in Seq(RobEntry) /\ MacroOpsChained' /\ HeadCommitting' /\ DispatchInOrder'
  BY <1>1, <1>2, <1>3, MoveEntry, MoveDispatched DEF Late
<1>5. refcount' \in [PhysReg -> Int]
  BY MoveRsType DEF Replay
<1> QED
  BY <1>4, <1>5 DEF RobInv, TypeOK, Replay

\* complete() and writeback().
LEMMA CompleteInv == ASSUME RobInv, NEW i \in 1..Len(rob), Complete(i) PROVE RobInv'
<1>1. /\ rob' \in Seq(RobEntry) /\ MacroOpsChained' /\ HeadCommitting' /\ DispatchInOrder'
  BY ListStep, ZenonT(30) DEF Complete, Late, RobList
<1>2. state' \in [PhysReg -> PhysRegState]
  BY EntryFields DEF Complete, RobInv, TypeOK, PhysRegState
<1> QED
  BY <1>1, <1>2 DEF RobInv, TypeOK, Complete

LEMMA WritebackInv == ASSUME RobInv, NEW i \in 1..Len(rob), Writeback(i) PROVE RobInv'
<1>1. /\ rob' \in Seq(RobEntry) /\ MacroOpsChained' /\ HeadCommitting' /\ DispatchInOrder'
  BY ListStep DEF Writeback, Late, RobList
<1>2. state' \in [PhysReg -> PhysRegState]
  BY EntryFields DEF Writeback, RobInv, TypeOK, PhysRegState
<1> QED
  BY <1>1, <1>2 DEF RobInv, TypeOK, Writeback

-----------------------------------------------------------------------------
(***************************************************************************)
(* An entry that has not got its result lies behind the macro-op that is   *)
(* being committed, so the scan of annul() for the start of its own        *)
(* macro-op ends inside the ROB, and behind that macro-op.                 *)
(***************************************************************************)
LEMMA SomFound ==
  ASSUME RobInv, NEW i \in 1..Len(rob), rob[i].list \notin Late
  PROVE  /\ SomOf(i) \in 1..i /\ rob[SomOf(i)].uop.som
         /\ \A k \in SomOf(i)..(i - 1) : ~rob[k].uop.eom
         /\ ~rob[1].uop.som => \E m \in 1..(SomOf(i) - 1) :
              rob[m].uop.eom /\ \A j \in 1..m : rob[j].list \in Late
<1> DEFINE S == {j \in 1..i : rob[j].uop.som}
           x == LastOf(S)
<1>1. rob \in Seq(RobEntry) /\ Len(rob) \in Nat /\ rob # << >> /\ i \in Nat /\ 1 \in 1..i
  BY DEF RobInv, TypeOK
<1>2. \A j \in 1..(Len(rob) - 1) : rob[j + 1].uop.som = rob[j].uop.eom
  BY DEF RobInv, MacroOpsChained
<1>3. ASSUME ~rob[1].uop.som
      PROVE  \E m \in 1..(i - 1) : /\ rob[m].uop.eom /\ \A j \in 1..m : rob[j].list \in Late
                                   /\ m + 1 \in S
  <2>1. PICK m \in 1..Len(rob) : rob[m].uop.eom /\ \A j \in 1..m : rob[j].list \in Late
    BY <1>1, <1>3 DEF RobInv, HeadCommitting
  <2>2. m \in 1..(i - 1) /\ m \in 1..(Len(rob) - 1) /\ m + 1 \in 1..i
    BY <1>1, <2>1
  <2>3. rob[m + 1].uop.som
    BY <1>2, <2>1, <2>2
  <2> QED
    BY <2>1, <2>2, <2>3
<1>4. S \in SUBSET (1..i) /\ S # {}
  <2>1. CASE rob[1].uop.som
    BY <1>1, <2>1
  <2>2. CASE ~rob[1].uop.som
    BY <1>3, <2>2
  <2> QED
    BY <2>1, <2>2
<1>5. x \in S /\ \A m \in S : m <= x
  <2> HIDE DEF S
  <2> QED
    BY <1>1, <1>4, LastOfIn
<1>6. SomOf(i) = x
  BY DEF SomOf
<1> HIDE DEF x
<1>7. ASSUME NEW k \in x..(i - 1), rob[k].uop.eom PROVE FALSE
  <2>1. x \in 1..i /\ k \in 1..(Len(rob) - 1) /\ k + 1 \in 1..i
    BY <1>1, <1>5
  <2>2. rob[k + 1].uop.som
    BY <1>2, <1>7, <2>1
  <2>3. k + 1 \in S
    BY <2>1, <2>2
  <2> QED
    BY <1>5, <2>1, <2>3
<1>8. ASSUME ~rob[1].uop.som
      PROVE  \E m \in 1..(x - 1) : rob[m].uop.eom /\ \A j \in 1..m : rob[j].list \in Late
  <2>1. PICK m \in 1..(i - 1) : /\ rob[m].uop.eom /\ \A j \in 1..m : rob[j].list \in Late
                                /\ m + 1 \in S
    BY <1>3, <1>8
  <2>2. m + 1 <= x /\ x \in 1..i
    BY <1>5, <2>1
  <2>3. m \in 1..(x - 1)
    BY <1>1, <2>1, <2>2
  <2> QED
    BY <2>1, <2>3
<1> QED
  BY <1>5, <1>6, <1>7, <1>8

(***************************************************************************)
(* annul() back to the end of a macro-op, without the macro-op that is     *)
(* being committed.  r is the ROB, an entry of which may have issued.      *)
(***************************************************************************)
LEMMA AnnulInv ==
  ASSUME RobInv, NEW r \in Seq(RobEntry), Len(r) = Len(rob),
         \A j \in 1..Len(rob) :
           /\ r[j].uop = rob[j].uop
           /\ rob[j].list \in Late => r[j].list \in Late
           /\ \A l \in {"frontend", "ready_to_dispatch"} : r[j].list = l <=> rob[j].list = l,
         NEW k \in 0..Len(rob), k # 0 => rob[k].uop.eom,
         rob # << >> /\ ~rob[1].uop.som =>
           \E m \in 1..k : rob[m].uop.eom /\ \A j \in 1..m : rob[j].list \in Late,
         AnnulAfter(r, k), UNCHANGED <<commitrrt, stage, commitcount, commitrc>>
  PROVE  RobInv'
<1> DEFINE spec == PseudoCommit(r, k)
<1>1. rob \in Seq(RobEntry) /\ Len(rob) \in Nat
  BY DEF RobInv, TypeOK
<1>2. rob' = SubSeq(r, 1, k) /\ nextsom' = TRUE
  BY DEF AnnulAfter
<1>3. /\ rob' \in Seq(RobEntry) /\ Len(rob') = k
      /\ \A j \in 1..k : rob'[j] = r[j]
  BY <1>1, <1>2, SubSeqProperties
<1>4. /\ specrrt' \in [TransReg -> PhysReg] /\ state' \in [PhysReg -> PhysRegState]
      /\ refcount' \in [PhysReg -> Int]
  <2>1. CASE k = Len(r)
    BY <2>1 DEF AnnulAfter, RobInv, TypeOK
  <2>2. CASE k # Len(r)
    <3>1. specrrt' = spec /\ spec \in [TransReg -> PhysReg]
      BY <2>2, MapAfterType DEF AnnulAfter, PseudoCommit, RobInv, TypeOK
    <3>2. state' \in [PhysReg -> PhysRegState]
      BY <2>2 DEF AnnulAfter, RobInv, TypeOK, PhysRegState
    <3>3. refcount' \in [PhysReg -> Int]
      <4> DEFINE freed == {r[j].physreg : j \in (k + 1)..Len(r)}
      <4>1. refcount' = [q \in PhysReg |->
               IF q \in freed THEN 0
               ELSE refcount[q] - RrtCount(specrrt, q) + RrtCount(spec, q)
                                - OperandCount(r, (k + 1)..Len(r), q)]
        BY <2>2 DEF AnnulAfter
      <4>2. k + 1 \in Int /\ Len(r) \in Int
        BY <1>1
      <4>3. refcount \in [PhysReg -> Int]
        BY DEF RobInv, TypeOK
      <4>4. \A q \in PhysReg : /\ RrtCount(specrrt, q) \in Int /\ RrtCount(spec, q) \in Int
                               /\ OperandCount(r, (k + 1)..Len(r), q) \in Int
        BY <4>2, RrtCountInt, OperandCountInt
      <4> HIDE DEF freed, spec
      <4> QED
        BY <4>1, <4>3, <4>4
    <3> QED
      BY <3>1, <3>2, <3>3
  <2> QED
    BY <2>1, <2>2
<1>5. TypeOK'
  BY <1>2, <1>3, <1>4 DEF RobInv, TypeOK
<1>6. \A j \in 1..k : j \in 1..Len(rob) /\ rob'[j].uop = rob[j].uop
  BY <1>1, <1>3
<1>7. MacroOpsChained'
  <2>1. ASSUME NEW j \in 1..(k - 1) PROVE rob'[j + 1].uop.som = rob'[j].uop.eom
    <3>1. j \in 1..(Len(rob) - 1) /\ j \in 1..k /\ j + 1 \in 1..k
      BY <1>1
    <3>2. rob[j + 1].uop.som = rob[j].uop.eom
      BY <3>1 DEF RobInv, MacroOpsChained
    <3> QED
      BY <1>6, <3>1, <3>2
  <2>2. nextsom' = IF rob' = << >> THEN TRUE ELSE rob'[Len(rob')].uop.eom
    <3>1. CASE k = 0
      BY <1>2, <1>3, <3>1
    <3>2. CASE k # 0
      <4>1. k \in 1..Len(rob) /\ k \in 1..k /\ rob[k].uop.eom
        BY <1>1, <3>2
      <4>2. rob[k].uop.eom \in BOOLEAN
        BY <4>1, EntryFields DEF UopType
      <4>3. rob'[k].uop.eom = TRUE
        BY <1>6, <4>1, <4>2
      <4>4. rob' # << >>
        BY <1>3, <3>2
      <4> QED
        BY <1>2, <1>3, <4>3, <4>4
    <3> QED
      BY <3>1, <3>2
  <2> QED
    BY <1>3, <2>1, <2>2 DEF MacroOpsChained
<1>8. HeadCommitting'
  <2> SUFFICES ASSUME rob' # << >>, ~rob'[1].uop.som
               PROVE  \E m \in 1..k : rob'[m].uop.eom /\ \A j \in 1..m : rob'[j].list \in Late
    BY <1>3 DEF HeadCommitting
  <2>1. 1 \in 1..k /\ rob # << >>
    BY <1>1, <1>3
  <2>2. PICK m \in 1..k : rob[m].uop.eom /\ \A j \in 1..m : rob[j].list \in Late
    BY <1>6, <2>1
  <2>3. \A j \in 1..m : j \in 1..k /\ rob'[j].list \in Late
    BY <1>1, <1>3, <2>2
  <2> QED
    BY <1>6, <2>2, <2>3
<1>9. DispatchInOrder'
  <2>1. \A j \in 1..k : \A l \in {"frontend", "ready_to_dispatch"} :
          rob'[j].list = l <=> rob[j].list = l
    BY <1>1, <1>3
  <2> QED
    BY <1>3, <1>6, <2>1 DEF RobInv, DispatchInOrder
<1> QED
  BY <1>5, <1>7, <1>8, <1>9 DEF RobInv

\* A mispredicted branch, which ends its macro-op.
LEMMA MispredictInv == ASSUME RobInv, NEW i \in 1..Len(rob), Mispredict(i) PROVE RobInv'
<1> DEFINE e == [rob[i] EXCEPT !.list = "issued"]
           r == [rob EXCEPT ![i] = e]
<1>1. rob \in Seq(RobEntry) /\ Len(rob) \in Nat /\ rob[i] \in RobEntry
      /\ rob[i].list = "dispatched" /\ rob[i].uop.class = "br"
  BY DEF RobInv, TypeOK, Mispredict, Issuable
<1>2. rob[i].uop.eom
  BY <1>1, EntryFields, UopAssumption
<1>3. e \in RobEntry /\ e.uop = rob[i].uop /\ e.list = "issued"
  BY <1>1 DEF RobEntry, RobList
<1>4. AnnulAfter(r, i) /\ UNCHANGED <<commitrrt, stage, commitcount, commitrc>>
  BY DEF Mispredict
<1> HIDE DEF e
<1>5. /\ r \in Seq(RobEntry) /\ Len(r) = Len(rob)
      /\ \A j \in 1..Len(rob) : r[j] = IF j = i THEN e ELSE rob[j]
  BY <1>1, <1>3, EntryBecomes
<1> HIDE DEF r
<1>6. \A j \in 1..Len(rob) :
        /\ r[j].uop = rob[j].uop
        /\ rob[j].list \in Late => r[j].list \in Late
        /\ \A l \in {"frontend", "ready_to_dispatch"} : r[j].list = l <=> rob[j].list = l
  BY <1>1, <1>3, <1>5 DEF Late
<1>7. rob # << >> /\ ~rob[1].uop.som =>
        \E m \in 1..i : rob[m].uop.eom /\ \A j \in 1..m : rob[j].list \in Late
  <2>1. ASSUME ~rob[1].uop.som
        PROVE  \E m \in 1..i : rob[m].uop.eom /\ \A j \in 1..m : rob[j].list \in Late
    <3>1. PICK m \in 1..(SomOf(i) - 1) : rob[m].uop.eom /\ \A j \in 1..m : rob[j].list \in Late
      BY <1>1, <2>1, SomFound DEF Late
    <3>2. SomOf(i) \in 1..i
      BY <1>1, SomFound DEF Late
    <3>3. m \in 1..i
      BY <3>1, <3>2
    <3> QED
      BY <3>1, <3>3
  <2> QED
    BY <2>1
<1>8. i \in 0..Len(rob)
  BY <1>1
<1> QED
  BY <1>2, <1>4, <1>5, <1>6, <1>7, <1>8, AnnulInv

\* An unaligned access: its macro-op is refetched.
LEMMA RefetchInv == ASSUME RobInv, NEW i \in 1..Len(rob), Refetch(i) PROVE RobInv'
<1> DEFINE k == SomOf(i) - 1
<1>1. rob \in Seq(RobEntry) /\ Len(rob) \in Nat /\ rob[i].list = "dispatched"
  BY DEF RobInv, TypeOK, Refetch, Issuable
<1>2. /\ SomOf(i) \in 1..i /\ rob[SomOf(i)].uop.som
      /\ ~rob[1].uop.som =>
           \E m \in 1..k : rob[m].uop.eom /\ \A j \in 1..m : rob[j].list \in Late
  BY <1>1, SomFound DEF Late
<1>3. AnnulAfter(rob, k) /\ UNCHANGED <<commitrrt, stage, commitcount, commitrc>>
  BY DEF Refetch
<1>4. k \in 0..Len(rob)
  BY <1>1, <1>2
<1>5. ASSUME k # 0 PROVE rob[k].uop.eom
  <2>1. k \in 1..(Len(rob) - 1) /\ k + 1 = SomOf(i)
    BY <1>1, <1>2, <1>5
  <2> HIDE DEF k
  <2>2. rob[k + 1].uop.som = rob[k].uop.eom
    BY <2>1 DEF RobInv, MacroOpsChained
  <2> QED
    BY <1>2, <2>1, <2>2
<1> HIDE DEF k
<1> QED
  BY <1>1, <1>2, <1>3, <1>4, <1>5, AnnulInv

\* A store and everything after it is redispatched.
LEMMA MisspeculateInv == ASSUME RobInv, NEW i \in 1..Len(rob), Misspeculate(i) PROVE RobInv'
<1> DEFINE again == i..Len(rob)
           r == [j \in 1..Len(rob) |-> IF j \in again THEN Redispatched(rob[j]) ELSE rob[j]]
<1>1. rob \in Seq(RobEntry) /\ Len(rob) \in Nat /\ rob[i].list = "dispatched"
  BY DEF RobInv, TypeOK, Misspeculate, Issuable
<1>2. rob' = r /\ nextsom' = nextsom
  BY DEF Misspeculate, RedispatchSet
<1>3. ASSUME NEW j \in 1..Len(rob)
      PROVE  /\ Redispatched(rob[j]) \in RobEntry /\ Redispatched(rob[j]).uop = rob[j].uop
             /\ Redispatched(rob[j]).list = "ready_to_dispatch"
  <2>1. rob[j] \in RobEntry /\ NullReg \in PhysReg
    BY <1>1, RegAssumption
  <2> QED
    BY <2>1 DEF Redispatched, RobEntry, RobList
<1>4. /\ rob' \in Seq(RobEntry) /\ Len(rob') = Len(rob)
      /\ \A j \in 1..Len(rob) : rob'[j] = IF j \in again THEN Redispatched(rob[j]) ELSE rob[j]
  <2>1. \A j \in 1..Len(rob) : r[j] \in RobEntry
    BY <1>1, <1>3
  <2> QED
    BY <1>1, <1>2, <2>1
<1>5. \A j \in 1..Len(rob) : rob'[j].uop = rob[j].uop
  BY <1>3, <1>4
<1>6. TypeOK'
  <2>1. state' \in [PhysReg -> PhysRegState]
    BY DEF Misspeculate, RobInv, TypeOK, PhysRegState
  <2>2. refcount' \in [PhysReg -> Int]
    <3>1. refcount' = [q \in PhysReg |-> refcount[q] - OperandCount(rob, again, q)
                                                     + OperandCount(r, again, q)]
      BY DEF Misspeculate, RedispatchSet
    <3>2. i \in Int /\ Len(rob) \in Int /\ refcount \in [PhysReg -> Int]
      BY <1>1 DEF RobInv, TypeOK
    <3>3. \A q \in PhysReg : OperandCount(rob, again, q) \in Int /\ OperandCount(r, again, q) \in Int
      BY <3>2, OperandCountInt
    <3> HIDE DEF r, again
    <3> QED
      BY <3>1, <3>2, <3>3
  <2> QED
    BY <1>4, <2>1, <2>2 DEF Misspeculate, RobInv, TypeOK
<1>7. MacroOpsChained'
  <2>1. ASSUME NEW j \in 1..(Len(rob) - 1) PROVE rob'[j + 1].uop.som = rob'[j].uop.eom
    <3>1. j \in 1..Len(rob) /\ j + 1 \in 1..Len(rob)
      BY <1>1
    <3>2. rob[j + 1].uop.som = rob[j].uop.eom
      BY DEF RobInv, MacroOpsChained
    <3> QED
      BY <1>5, <3>1, <3>2
  <2>2. rob # << >> /\ rob' # << >> /\ Len(rob) \in 1..Len(rob)
    BY <1>1, <1>4
  <2>3. nextsom' = rob'[Len(rob')].uop.eom
    BY <1>2, <1>4, <1>5, <2>2 DEF RobInv, MacroOpsChained
  <2> QED
    BY <1>4, <2>1, <2>2, <2>3 DEF MacroOpsChained
<1>8. HeadCommitting'
  <2> SUFFICES ASSUME ~rob'[1].uop.som
               PROVE  \E m \in 1..Len(rob) : rob'[m].uop.eom /\ \A j \in 1..m : rob'[j].list \in Late
    BY <1>4 DEF HeadCommitting
  <2>1. ~rob[1].uop.som
    BY <1>1, <1>5
  <2>2. PICK m \in 1..(SomOf(i) - 1) : rob[m].uop.eom /\ \A j \in 1..m : rob[j].list \in Late
    BY <1>1, <2>1, SomFound DEF Late
  <2>3. SomOf(i) \in 1..i
    BY <1>1, SomFound DEF Late
  <2>4. m \in 1..Len(rob) /\ \A j \in 1..m : j \in 1..Len(rob) /\ j \notin again
    BY <1>1, <2>2, <2>3
  <2> QED
    BY <1>4, <1>5, <2>2, <2>4
<1>9. DispatchInOrder'
  <2>1. \A j \in 1..Len(rob) : j < i => rob'[j].list \notin {"frontend", "ready_to_dispatch"}
    BY <1>1, <1>4 DEF RobInv, DispatchInOrder
  <2>2. \A j \in 1..Len(rob) : ~(j < i) => rob'[j].list = "ready_to_dispatch"
    BY <1>1, <1>3, <1>4
  <2> QED
    BY <1>1, <1>4, <2>1, <2>2 DEF DispatchInOrder
<1> QED
  BY <1>6, <1>7, <1>8, <1>9 DEF RobInv

-----------------------------------------------------------------------------
\* One uop commits: the rest of its macro-op is complete.
LEMMA CommitUopInv == RobInv /\ CommitUop => RobInv'
<1> SUFFICES ASSUME RobInv, CommitUop PROVE RobInv'
  OBVIOUS
<1> DEFINE e == Head(rob)
           n == Len(rob) - 1
<1>1. rob \in Seq(RobEntry) /\ rob # << >> /\ Len(rob) \in Nat /\ n \in Nat
  <2>1. rob \in Seq(RobEntry) /\ rob # << >>
    BY DEF RobInv, TypeOK, CommitUop, CommitContinues
  <2> QED
    BY <2>1
<1>2. rob' = Tail(rob) /\ nextsom' = nextsom
  BY DEF CommitUop
<1>3. /\ rob' \in Seq(RobEntry) /\ Len(rob') = n
      /\ \A j \in 1..n : rob'[j] = rob[j + 1]
      /\ e = rob[1] /\ e \in RobEntry
  BY <1>1, <1>2, HeadTailProperties
<1>4. TypeOK'
  <2> DEFINE old == commitrrt[e.uop.rd]
             com == CommittedMap(e)
             owned == [q \in PhysReg |-> refcount[q] + RrtCount(com, q) - RrtCount(commitrrt, q)]
             frees == old # NullReg /\ owned[old] <= 0
  <2>1. e.physreg \in PhysReg
    BY <1>3 DEF RobEntry
  <2>2. commitrrt' \in [TransReg -> PhysReg]
    BY <2>1 DEF CommitUop, CommittedMap, RobInv, TypeOK
  <2>3. state' \in [PhysReg -> PhysRegState]
    <3>1. state' = CommittedState(e, old, frees)
      BY DEF CommitUop
    <3> HIDE DEF e, old, frees
    <3> QED
      BY <3>1 DEF CommittedState, RobInv, TypeOK, PhysRegState
  <2>4. refcount' \in [PhysReg -> Int]
    <3>1. refcount' = [q \in PhysReg |-> (IF q = old /\ frees THEN 0 ELSE owned[q]) - EntryRefs(e, q)]
      BY DEF CommitUop
    <3>2. owned \in [PhysReg -> Int]
      <4>1. refcount \in [PhysReg -> Int]
        BY DEF RobInv, TypeOK
      <4> HIDE DEF com
      <4> QED
        BY <4>1, RrtCountInt
    <3>3. \A q \in PhysReg : EntryRefs(e, q) \in Int
      BY EntryRefsInt
    <3> HIDE DEF e, old, owned, frees
    <3> QED
      BY <3>1, <3>2, <3>3
  <2>5. commitrc' \in {"ok", "flush"}
    BY DEF CommitUop
  <2>6. commitcount' \in 0..CommitWidth
    <3>1. commitcount \in 0..CommitWidth /\ commitcount < CommitWidth /\ CommitWidth \in Nat
      BY SizeAssumption DEF CommitUop, CommitContinues, RobInv, TypeOK
    <3>2. commitcount' \in {commitcount, commitcount + 1}
      BY DEF CommitUop
    <3> QED
      BY <3>1, <3>2
  <2> QED
    BY <1>2, <1>3, <2>2, <2>3, <2>4, <2>5, <2>6 DEF CommitUop, RobInv, TypeOK
<1>5. PICK k \in 1..Len(rob) :
        rob[k].uop.eom /\ \A j \in 1..k : rob[j].list = "ready_to_commit"
  <2>1. PICK k \in 1..Len(rob) : /\ ScanStops(rob, k) /\ ~rob[k].inv
                                  /\ \A j \in 1..k : rob[j].list = "ready_to_commit"
    BY DEF CommitUop, MacroOpReady
  <2> QED
    BY <2>1 DEF ScanStops
<1>6. MacroOpsChained'
  <2>1. ASSUME NEW j \in 1..(n - 1) PROVE rob'[j + 1].uop.som = rob'[j].uop.eom
    <3>1. j \in 1..n /\ j + 1 \in 1..n /\ j + 1 \in 1..(Len(rob) - 1)
      BY <1>1
    <3>2. rob[(j + 1) + 1].uop.som = rob[j + 1].uop.eom
      BY <3>1 DEF RobInv, MacroOpsChained
    <3> QED
      BY <1>3, <3>1, <3>2
  <2>2. nextsom = rob[Len(rob)].uop.eom
    BY <1>1 DEF RobInv, MacroOpsChained
  <2>3. nextsom' = IF rob' = << >> THEN TRUE ELSE rob'[Len(rob')].uop.eom
    <3>1. CASE n = 0
      <4>1. Len(rob) = 1 /\ k = 1 /\ rob' = << >>
        BY <1>1, <1>3, <3>1
      <4>2. rob[1].uop.eom \in BOOLEAN
        BY <4>1, EntryFields DEF UopType
      <4> QED
        BY <1>2, <1>5, <2>2, <4>1, <4>2
    <3>2. CASE n # 0
      <4>1. n \in 1..n /\ n + 1 = Len(rob) /\ rob' # << >>
        BY <1>1, <1>3, <3>2
      <4>2. rob'[Len(rob')] = rob[Len(rob)]
        BY <1>3, <4>1
      <4> QED
        BY <1>2, <2>2, <4>1, <4>2
    <3> QED
      BY <3>1, <3>2
  <2> QED
    BY <1>3, <2>1, <2>3 DEF MacroOpsChained
<1>7. HeadCommitting'
  <2> SUFFICES ASSUME rob' # << >>, ~rob'[1].uop.som
               PROVE  \E m \in 1..n : rob'[m].uop.eom /\ \A j \in 1..m : rob'[j].list \in Late
    BY <1>3 DEF HeadCommitting
  <2>1. 1 \in 1..n /\ 1 \in 1..(Len(rob) - 1)
    BY <1>1, <1>3
  <2>2. rob'[1] = rob[1 + 1] /\ rob[1 + 1].uop.som = rob[1].uop.eom
    BY <1>3, <2>1 DEF RobInv, MacroOpsChained
  <2>3. k # 1
    BY <1>5, <2>2
  <2>4. k - 1 \in 1..n
    BY <1>1, <2>3
  <2>5. rob'[k - 1] = rob[k]
    <3>1. rob'[k - 1] = rob[(k - 1) + 1]
      BY <1>3, <2>4
    <3> QED
      BY <3>1
  <2>6. ASSUME NEW j \in 1..(k - 1) PROVE rob'[j].list \in Late
    <3>1. j \in 1..n /\ j + 1 \in 1..k
      BY <1>1, <2>4
    <3> QED
      BY <1>3, <1>5, <3>1 DEF Late
  <2> QED
    BY <1>5, <2>4, <2>5, <2>6
<1>8. DispatchInOrder'
  <2> SUFFICES ASSUME NEW i \in 1..n, NEW j \in 1..n, i < j
               PROVE  /\ rob'[i].list = "frontend" => rob'[j].list = "frontend"
                      /\ rob'[i].list = "ready_to_dispatch" =>
                           rob'[j].list \in {"frontend", "ready_to_dispatch"}
    BY <1>3 DEF DispatchInOrder
  <2>1. i + 1 \in 1..Len(rob) /\ j + 1 \in 1..Len(rob) /\ i + 1 < j + 1
    BY <1>1
  <2>2. rob'[i] = rob[i + 1] /\ rob'[j] = rob[j + 1]
    BY <1>3
  <2> QED
    BY <2>1, <2>2 DEF RobInv, DispatchInOrder
<1> QED
  BY <1>4, <1>6, <1>7, <1>8 DEF RobInv

\* A fence at the head recirculates.
LEMMA FenceWakeupInv == RobInv /\ FenceWakeup => RobInv'
<1> SUFFICES ASSUME RobInv, FenceWakeup PROVE RobInv'
  OBVIOUS
<1> DEFINE e == [rob[1] EXCEPT !.list = "completed", !.second = TRUE]
<1>1. rob \in Seq(RobEntry) /\ 1 \in 1..Len(rob) /\ rob[1] \in RobEntry
      /\ rob[1].list = "ready_to_commit"
  BY DEF RobInv, TypeOK, FenceWakeup, FenceAtHead
<1>2. e \in RobEntry /\ e.uop = rob[1].uop /\ e.list = "completed"
  BY <1>1 DEF RobEntry, RobList
<1>3. rob' = [rob EXCEPT ![1] = e] /\ nextsom' = nextsom
  BY <1>1 DEF FenceWakeup, RobEntry
<1> HIDE DEF e
<1>4. /\ rob' \in Seq(RobEntry) /\ MacroOpsChained' /\ HeadCommitting' /\ DispatchInOrder'
  BY <1>1, <1>2, <1>3, MoveEntry, MoveDispatched DEF Late
<1>5. state' \in [PhysReg -> PhysRegState]
  BY <1>1, EntryFields DEF FenceWakeup, RobInv, TypeOK, PhysRegState
<1>6. stage' = "pipeline" /\ commitrc' \in {"ok", "flush"}
      /\ UNCHANGED <<refcount, specrrt, commitrrt, nextsom, commitcount>>
  BY DEF FenceWakeup
<1> QED
  BY <1>4, <1>5, <1>6 DEF RobInv, TypeOK

\* The commit loop ends.
LEMMA EndCommitInv == RobInv /\ EndCommit => RobInv'
<1> SUFFICES ASSUME RobInv, EndCommit PROVE RobInv'
  OBVIOUS
<1>1. stage' = "pipeline" /\ commitrc' \in {"ok", "flush"}
      /\ UNCHANGED <<state, refcount, specrrt, commitrrt, rob, nextsom, commitcount>>
  BY DEF EndCommit, RobInv, TypeOK
<1> QED
  BY <1>1 DEF RobInv, TypeOK, MacroOpsChained, HeadCommitting, DispatchInOrder

\* The next cycle, after a flush or a recycling of pending registers.
LEMMA NextCycleInv == RobInv /\ NextCycle => RobInv'
<1> SUFFICES ASSUME RobInv, NextCycle PROVE RobInv'
  OBVIOUS
<1>1. stage' = "commit" /\ commitcount' = 0 /\ commitrc' = "ok" /\ 0 \in 0..CommitWidth
  BY SizeAssumption DEF NextCycle
<1>2. CASE commitrc = "flush"
  BY <1>1, <1>2, FlushInv DEF NextCycle
<1>3. CASE commitrc # "flush"
  <2>1. UNCHANGED <<specrrt, commitrrt, rob, nextsom>>
    BY <1>3 DEF NextCycle
  <2>2. state' \in [PhysReg -> PhysRegState] /\ refcount' \in [PhysReg -> Int]
    BY <1>3 DEF NextCycle, RobInv, TypeOK, PhysRegState
  <2> QED
    BY <1>1, <2>1, <2>2 DEF RobInv, TypeOK, MacroOpsChained, HeadCommitting, DispatchInOrder
<1> QED
  BY <1>2, <1>3

\* dispatch() gives up.
LEMMA DeadlockRecoveryInv == RobInv /\ DeadlockRecovery => RobInv'
<1> SUFFICES ASSUME RobInv, DeadlockRecovery PROVE RobInv'
  OBVIOUS
<1>1. FlushPipeline /\ UNCHANGED <<stage, commitcount, commitrc>>
  BY DEF DeadlockRecovery
<1> QED
  BY <1>1, FlushInv DEF RobInv, TypeOK

\* Every step preserves the invariant.
LEMMA RobStepInv == RobInv /\ [Next]_vars => RobInv'
<1> SUFFICES ASSUME RobInv, [Next]_vars PROVE RobInv'
  OBVIOUS
<1>1. CASE UNCHANGED vars
  BY <1>1 DEF vars, RobInv, TypeOK, MacroOpsChained, HeadCommitting, DispatchInOrder
<1>2. CASE \E u \in Uop, p \in PhysReg : Rename(u, p)
  BY <1>2, RenameInv
<1>3. ASSUME NEW i \in 1..Len(rob),
             \/ Frontend(i) \/ Dispatch(i)
             \/ IssueReg(i) \/ IssueException(i) \/ IssueFence(i)
             \/ Mispredict(i) \/ Refetch(i) \/ Misspeculate(i)
             \/ Complete(i) \/ Writeback(i)
             \/ \E s \in PhysReg : Replay(i, s) \/ \E l \in RobList : IssueMem(i, s, l)
      PROVE  RobInv'
  BY <1>3, FrontendInv, DispatchInv, IssueRegInv, IssueExceptionInv, IssueFenceInv,
     MispredictInv, RefetchInv, MisspeculateInv, CompleteInv, WritebackInv, ReplayInv, IssueMemInv
<1>4. CASE CommitUop \/ FenceWakeup \/ EndCommit \/ NextCycle \/ DeadlockRecovery
  BY <1>4, CommitUopInv, FenceWakeupInv, EndCommitInv, NextCycleInv, DeadlockRecoveryInv
<1> QED
  BY <1>1, <1>2, <1>3, <1>4 DEF Next

-----------------------------------------------------------------------------
(***************************************************************************)
(* Every action keeps the renamer's state well typed; in particular every  *)
(* scan of annul() ends at a position of the ROB and every rename table    *)
(* rebuilt by pseudocommit() is one.                                       *)
(***************************************************************************)
THEOREM RenameTypeCorrect == Spec => []TypeOK
<1>1. RobInv => TypeOK
  BY DEF RobInv
<1> QED
  BY <1>1, RobInitInv, RobStepInv, PTL DEF Spec

(***************************************************************************)
(* The uops waiting for dispatch are the youngest of the ROB, although     *)
(* redispatch_dependents() puts uops back at the head of their list.       *)
(***************************************************************************)
THEOREM RenameDispatchInOrder == Spec => []DispatchInOrder
<1>1. RobInv => DispatchInOrder
  BY DEF RobInv
<1> QED
  BY <1>1, RobInitInv, RobStepInv, PTL DEF Spec

(***************************************************************************)
(* annul() always finds the first uop of the macro-op it refetches: a      *)
(* macro-op with a uop that may still issue has not begun to commit.       *)
(***************************************************************************)
THEOREM RenameAnnulFindsSom == Spec => []AnnulFindsSom
<1>1. RobInv => AnnulFindsSom
  <2> SUFFICES ASSUME RobInv, NEW i \in 1..Len(rob), rob[i].list = "dispatched"
               PROVE  \E j \in 1..i : rob[j].uop.som /\ \A k \in j..(i - 1) : ~rob[k].uop.eom
    BY DEF AnnulFindsSom
  <2> QED
    BY SomFound DEF Late
<1> QED
  BY <1>1, RobInitInv, RobStepInv, PTL DEF Spec

-----------------------------------------------------------------------------
(***************************************************************************)
(* References: the counts are exact, nothing refers to a free register,    *)
(* registers are neither shared nor leaked, and every uop reads the        *)
(* registers of the last older writers of its sources.                     *)
(*                                                                         *)
(* The parts of the invariant need each other: a register may be freed     *)
(* when its count is zero because the counts are exact; annul() may free   *)
(* the registers of the entries it drops because producers are older than  *)
(* their readers; and they are, because what rename() reads from the       *)
(* speculative table was written by an entry in the ROB or has committed.  *)
(***************************************************************************)

\* Counting references.

LEMMA RrtCountZero ==
  ASSUME NEW m, NEW p
  PROVE  /\ RrtCount(m, p) \in Nat
         /\ RrtCount(m, p) = 0 <=> \A a \in TransReg : m[a] # p
<1>1. RrtRefs(m, p) \in SUBSET TransReg /\ IsFiniteSet(TransReg)
  BY RegAssumption DEF RrtRefs
<1>2. IsFiniteSet(RrtRefs(m, p))
  BY <1>1, FS_Subset
<1>3. RrtRefs(m, p) = {} <=> \A a \in TransReg : m[a] # p
  BY DEF RrtRefs
<1> QED
  BY <1>2, <1>3, FS_CardinalityType, FS_EmptySet DEF RrtCount

LEMMA OperandCountZero ==
  ASSUME NEW r, NEW S, IsFiniteSet(S), NEW p
  PROVE  /\ IsFiniteSet(OperandRefs(r, S, p)) /\ OperandCount(r, S, p) \in Nat
         /\ OperandCount(r, S, p) = 0 <=> \A i \in S : \A o \in Operand : r[i].operands[o] # p
<1>1. IsFiniteSet(S \X Operand)
  BY OperandFinite, FS_Product
<1>2. OperandRefs(r, S, p) \in SUBSET (S \X Operand)
  BY DEF OperandRefs
<1>3. IsFiniteSet(OperandRefs(r, S, p))
  BY <1>1, <1>2, FS_Subset
<1>4. OperandRefs(r, S, p) = {} <=> \A i \in S : \A o \in Operand : r[i].operands[o] # p
  <2>1. ASSUME NEW i \in S, NEW o \in Operand, r[i].operands[o] = p
        PROVE  <<i, o>> \in OperandRefs(r, S, p)
    BY <2>1 DEF OperandRefs
  <2>2. ASSUME NEW x \in OperandRefs(r, S, p)
        PROVE  \E i \in S : \E o \in Operand : r[i].operands[o] = p
    BY DEF OperandRefs
  <2> QED
    BY <2>1, <2>2
<1> QED
  BY <1>3, <1>4, FS_CardinalityType, FS_EmptySet DEF OperandCount

\* The references of disjoint sets of entries add up.
LEMMA OperandCountSplit ==
  ASSUME NEW r, NEW S, NEW T, IsFiniteSet(S), IsFiniteSet(T), S \cap T = {}, NEW p
  PROVE  OperandCount(r, S \cup T, p) = OperandCount(r, S, p) + OperandCount(r, T, p)
<1> DEFINE A == OperandRefs(r, S, p)
           B == OperandRefs(r, T, p)
<1>1. OperandRefs(r, S \cup T, p) = A \cup B /\ A \cap B = {}
  BY DEF OperandRefs
<1>2. IsFiniteSet(A) /\ IsFiniteSet(B)
  BY OperandCountZero
<1>3. Cardinality(A) \in Nat /\ Cardinality(B) \in Nat /\ Cardinality({}) = 0
  BY <1>2, FS_CardinalityType, FS_EmptySet
<1> HIDE DEF A, B
<1>4. Cardinality(A \cup B) = Cardinality(A) + Cardinality(B) - Cardinality(A \cap B)
  BY <1>2, FS_Union
<1>5. Cardinality(A \cap B) = 0
  BY <1>1, <1>3
<1>6. Cardinality(A \cup B) = Cardinality(A) + Cardinality(B)
  BY <1>3, <1>4, <1>5
<1> QED
  BY <1>1, <1>6 DEF A, B, OperandCount

LEMMA OperandCountSame ==
  ASSUME NEW r, NEW s, NEW S, NEW p, \A i \in S : r[i].operands = s[i].operands
  PROVE  OperandCount(r, S, p) = OperandCount(s, S, p)
<1>1. OperandRefs(r, S, p) = OperandRefs(s, S, p)
  BY DEF OperandRefs
<1> QED
  BY <1>1 DEF OperandCount

\* The references of one entry.
LEMMA OperandCountEntry ==
  ASSUME NEW r, NEW i, NEW p
  PROVE  OperandCount(r, {i}, p) = EntryRefs(r[i], p)
<1> DEFINE O == {o \in Operand : r[i].operands[o] = p}
           A == OperandRefs(r, {i}, p)
           f == [o \in O |-> <<i, o>>]
<1>1. A = {<<i, o>> : o \in O}
  BY DEF OperandRefs
<1>2. f \in Bijection(O, A)
  <2>1. f \in [O -> A]
    BY <1>1
  <2>2. \A a, b \in O : f[a] = f[b] => a = b
    OBVIOUS
  <2>3. \A x \in A : \E o \in O : f[o] = x
    BY <1>1
  <2> HIDE DEF f, A, O
  <2> QED
    BY <2>1, <2>2, <2>3, Fun_IsBij
<1>3. IsFiniteSet(O)
  BY OperandFinite, FS_Subset
<1> HIDE DEF f, A, O
<1>4. Cardinality(A) = Cardinality(O)
  BY <1>2, <1>3, FS_Bijection, Fun_ExistsBij
<1> QED
  BY <1>4 DEF OperandCount, EntryRefs, A, O

\* Moving the entries one position does not change their references.
LEMMA OperandCountShift ==
  ASSUME NEW r, NEW s, NEW n \in Nat, NEW m \in Nat, m = n + 1, NEW p,
         \A j \in 1..n : s[j].operands = r[j + 1].operands
  PROVE  OperandCount(s, 1..n, p) = OperandCount(r, 2..m, p)
<1> DEFINE A == OperandRefs(s, 1..n, p)
           B == OperandRefs(r, 2..m, p)
           f == [x \in A |-> <<x[1] + 1, x[2]>>]
<1>1. f \in [A -> B]
  BY DEF OperandRefs
<1>2. ASSUME NEW x \in A, NEW y \in A, f[x] = f[y] PROVE x = y
  <2>1. PICK i \in 1..n, o \in Operand : x = <<i, o>>
    BY DEF OperandRefs
  <2>2. PICK j \in 1..n, q \in Operand : y = <<j, q>>
    BY DEF OperandRefs
  <2>3. i + 1 = j + 1 /\ o = q
    BY <1>2, <2>1, <2>2
  <2> QED
    BY <2>1, <2>2, <2>3
<1>3. ASSUME NEW y \in B PROVE \E x \in A : f[x] = y
  <2>1. PICK i \in 2..m, o \in Operand : y = <<i, o>> /\ r[i].operands[o] = p
    BY DEF OperandRefs
  <2>2. i - 1 \in 1..n /\ (i - 1) + 1 = i
    OBVIOUS
  <2>3. <<i - 1, o>> \in A
    BY <2>1, <2>2 DEF OperandRefs
  <2> QED
    BY <2>1, <2>2, <2>3
<1> HIDE DEF f
<1>4. f \in Bijection(A, B)
  <2> HIDE DEF A, B
  <2> QED
    BY <1>1, <1>2, <1>3, Fun_IsBij
<1>5. IsFiniteSet(A)
  <2>1. IsFiniteSet(1..n)
    BY FS_Interval
  <2> QED
    BY <2>1, OperandCountZero
<1> HIDE DEF A, B
<1>6. Cardinality(B) = Cardinality(A)
  BY <1>4, <1>5, FS_Bijection, Fun_ExistsBij
<1> QED
  BY <1>6 DEF OperandCount, A, B

\* What changes when one entry has other operands.
LEMMA OperandCountChange ==
  ASSUME NEW r, NEW s, NEW n \in Nat, NEW i \in 1..n, NEW p,
         \A j \in (1..n) \ {i} : s[j].operands = r[j].operands
  PROVE  OperandCount(s, 1..n, p) = OperandCount(r, 1..n, p) - EntryRefs(r[i], p) + EntryRefs(s[i], p)
<1> DEFINE S == (1..n) \ {i}
<1>1. IsFiniteSet(1..n)
  BY FS_Interval
<1>2. IsFiniteSet(S) /\ IsFiniteSet({i}) /\ S \cap {i} = {} /\ S \cup {i} = 1..n
  BY <1>1, FS_RemoveElement, FS_Singleton
<1>3. OperandCount(s, S, p) = OperandCount(r, S, p)
  BY OperandCountSame
<1> HIDE DEF S
<1>4. /\ OperandCount(s, S \cup {i}, p) = OperandCount(s, S, p) + OperandCount(s, {i}, p)
      /\ OperandCount(r, S \cup {i}, p) = OperandCount(r, S, p) + OperandCount(r, {i}, p)
  BY <1>2, OperandCountSplit
<1>5. /\ OperandCount(s, {i}, p) = EntryRefs(s[i], p)
      /\ OperandCount(r, {i}, p) = EntryRefs(r[i], p)
  BY OperandCountEntry
<1>6. /\ OperandCount(r, S, p) \in Nat
      /\ EntryRefs(s[i], p) \in Int /\ EntryRefs(r[i], p) \in Int
  BY <1>2, OperandCountZero, EntryRefsInt
<1>7. /\ OperandCount(s, 1..n, p) = OperandCount(s, S \cup {i}, p)
      /\ OperandCount(r, 1..n, p) = OperandCount(r, S \cup {i}, p)
  BY <1>2
<1> QED
  BY <1>3, <1>4, <1>5, <1>6, <1>7

\* An entry is added, the head is taken away, the entries behind position k are dropped.
LEMMA OperandCountPrefix ==
  ASSUME NEW r, NEW s, NEW n \in Nat, NEW k \in 0..n, NEW m \in Nat, m = k + 1, NEW p,
         \A j \in 1..k : s[j].operands = r[j].operands
  PROVE  OperandCount(r, 1..n, p) = OperandCount(s, 1..k, p) + OperandCount(r, m..n, p)
<1>1. IsFiniteSet(1..k) /\ IsFiniteSet(m..n)
  BY FS_Interval
<1>2. (1..k) \cap (m..n) = {} /\ (1..k) \cup (m..n) = 1..n
  OBVIOUS
<1>3. OperandCount(r, (1..k) \cup (m..n), p) = OperandCount(r, 1..k, p) + OperandCount(r, m..n, p)
  BY <1>1, <1>2, OperandCountSplit
<1>4. OperandCount(s, 1..k, p) = OperandCount(r, 1..k, p)
  BY OperandCountSame
<1> QED
  BY <1>2, <1>3, <1>4

LEMMA OperandCountAppend ==
  ASSUME NEW r, NEW s, NEW n \in Nat, NEW m \in Nat, m = n + 1, NEW p,
         \A j \in 1..n : s[j].operands = r[j].operands
  PROVE  OperandCount(s, 1..m, p) = OperandCount(r, 1..n, p) + EntryRefs(s[m], p)
<1>1. IsFiniteSet(1..n) /\ IsFiniteSet({m})
  <2>1. IsFiniteSet(1..n)
    BY FS_Interval
  <2>2. IsFiniteSet({m})
    BY FS_Singleton
  <2> QED
    BY <2>1, <2>2
<1>2. (1..n) \cap {m} = {} /\ (1..n) \cup {m} = 1..m
  OBVIOUS
<1>3. OperandCount(s, (1..n) \cup {m}, p) = OperandCount(s, 1..n, p) + OperandCount(s, {m}, p)
  BY <1>1, <1>2, OperandCountSplit
<1>4. OperandCount(s, {m}, p) = EntryRefs(s[m], p)
  BY OperandCountEntry
<1>5. OperandCount(s, 1..n, p) = OperandCount(r, 1..n, p)
  BY OperandCountSame
<1> QED
  BY <1>2, <1>3, <1>4, <1>5

LEMMA OperandCountTail ==
  ASSUME NEW r, NEW s, NEW n \in Nat, NEW m \in Nat, m = n + 1, NEW p,
         \A j \in 1..n : s[j].operands = r[j + 1].operands
  PROVE  OperandCount(r, 1..m, p) = OperandCount(s, 1..n, p) + EntryRefs(r[1], p)
<1>1. OperandCount(s, 1..n, p) = OperandCount(r, 2..m, p)
  BY OperandCountShift
<1>2. IsFiniteSet({1}) /\ IsFiniteSet(2..m)
  <2>1. IsFiniteSet(2..m)
    BY FS_Interval
  <2>2. IsFiniteSet({1})
    BY FS_Singleton
  <2> QED
    BY <2>1, <2>2
<1>3. {1} \cap (2..m) = {} /\ {1} \cup (2..m) = 1..m
  OBVIOUS
<1>4. OperandCount(r, {1} \cup (2..m), p) = OperandCount(r, {1}, p) + OperandCount(r, 2..m, p)
  BY <1>2, <1>3, OperandCountSplit
<1>5. OperandCount(r, {1}, p) = EntryRefs(r[1], p) /\ EntryRefs(r[1], p) \in Int
  BY OperandCountEntry, EntryRefsInt
<1>6. OperandCount(r, 2..m, p) \in Int
  BY OperandCountInt
<1>7. OperandCount(r, 1..m, p) = OperandCount(r, {1} \cup (2..m), p)
  BY <1>3
<1> QED
  BY <1>1, <1>4, <1>5, <1>6, <1>7

LEMMA OperandCountStep ==
  ASSUME Len(rob) \in Nat, NEW i \in 1..Len(rob), NEW p,
         \A j \in (1..Len(rob)) \ {i} : rob'[j].operands = rob[j].operands
  PROVE  OperandCount(rob', 1..Len(rob), p) =
           OperandCount(rob, 1..Len(rob), p) - EntryRefs(rob[i], p) + EntryRefs(rob'[i], p)
  BY OperandCountChange

LEMMA OperandCountCut ==
  ASSUME NEW r, NEW n \in Nat, NEW k \in 0..n, NEW m \in Nat, m = k + 1, NEW p,
         \A j \in 1..k : rob'[j].operands = r[j].operands
  PROVE  OperandCount(r, 1..n, p) = OperandCount(rob', 1..k, p) + OperandCount(r, m..n, p)
  BY OperandCountPrefix

\* Exchanging the RS operand moves one reference, as the counts of MoveRs do.
LEMMA EntryRefsRs ==
  ASSUME NEW e, NEW f, NEW s, NEW p,
         \A o \in Operand \ {"RS"} : f.operands[o] = e.operands[o], f.operands["RS"] = s
  PROVE  EntryRefs(f, p) = EntryRefs(e, p) - (IF p = e.operands["RS"] THEN 1 ELSE 0)
                                           + (IF p = s THEN 1 ELSE 0)
<1> DEFINE E == {o \in Operand : e.operands[o] = p}
           F == {o \in Operand : f.operands[o] = p}
<1>1. E \in SUBSET Operand /\ F \in SUBSET Operand /\ "RS" \in Operand
  BY DEF Operand
<1>2. E \ {"RS"} = F \ {"RS"}
  OBVIOUS
<1>3. ("RS" \in E <=> p = e.operands["RS"]) /\ ("RS" \in F <=> p = s)
  BY <1>1
<1> HIDE DEF E, F
<1>4. IsFiniteSet(E) /\ IsFiniteSet(F)
  BY <1>1, OperandFinite, FS_Subset
<1>5. /\ Cardinality(E \ {"RS"}) = IF "RS" \in E THEN Cardinality(E) - 1 ELSE Cardinality(E)
      /\ Cardinality(F \ {"RS"}) = IF "RS" \in F THEN Cardinality(F) - 1 ELSE Cardinality(F)
  BY <1>4, FS_RemoveElement
<1>6. Cardinality(E) \in Nat /\ Cardinality(F) \in Nat
  BY <1>4, FS_CardinalityType
<1>7. Cardinality(E \ {"RS"}) = Cardinality(F \ {"RS"})
  BY <1>2
<1>8. Cardinality(F) = Cardinality(E) - (IF p = e.operands["RS"] THEN 1 ELSE 0) + (IF p = s THEN 1 ELSE 0)
  BY <1>3, <1>5, <1>6, <1>7
<1> QED
  BY <1>8 DEF EntryRefs, E, F

-----------------------------------------------------------------------------
\* Rename tables rebuilt from the ROB.

LEMMA LastOfIs ==
  ASSUME NEW k \in Nat, NEW W \in SUBSET (1..k), NEW j \in W, \A m \in W : m <= j
  PROVE  LastOf(W) = j
<1>1. LastOf(W) \in W /\ \A m \in W : m <= LastOf(W)
  BY LastOfIn
<1>2. LastOf(W) <= j /\ j <= LastOf(W)
  BY <1>1
<1>3. LastOf(W) \in 1..k /\ j \in 1..k
  BY <1>1
<1> QED
  BY <1>2, <1>3

\* The entry a register is mapped to: the last writer, or the base table.
LEMMA MapAfterAt ==
  ASSUME NEW r, NEW k \in Nat, NEW base, NEW a \in TransReg
  PROVE  /\ Writers(r, k, a) = {} => MapAfter(r, k, base)[a] = base[a]
         /\ \A j \in Writers(r, k, a) : (\A m \in Writers(r, k, a) : m <= j) =>
              MapAfter(r, k, base)[a] = r[j].physreg
<1>1. Writers(r, k, a) \in SUBSET (1..k)
  BY DEF Writers
<1>2. ASSUME NEW j \in Writers(r, k, a), \A m \in Writers(r, k, a) : m <= j
      PROVE  MapAfter(r, k, base)[a] = r[j].physreg
  <2>1. LastOf(Writers(r, k, a)) = j
    BY <1>1, <1>2, LastOfIs
  <2> QED
    BY <1>2, <2>1 DEF MapAfter
<1> QED
  BY <1>2 DEF MapAfter

\* A register is mapped by the base table or to the destination of one of the entries.
LEMMA MapAfterSource ==
  ASSUME NEW r, NEW k \in Nat, NEW base, NEW a \in TransReg
  PROVE  \/ MapAfter(r, k, base)[a] = base[a]
         \/ \E j \in 1..k : MapAfter(r, k, base)[a] = r[j].physreg
<1>1. Writers(r, k, a) \in SUBSET (1..k)
  BY DEF Writers
<1>2. CASE Writers(r, k, a) = {}
  BY <1>2, MapAfterAt
<1>3. CASE Writers(r, k, a) # {}
  <2>1. /\ LastOf(Writers(r, k, a)) \in Writers(r, k, a)
        /\ \A m \in Writers(r, k, a) : m <= LastOf(Writers(r, k, a))
    BY <1>1, <1>3, LastOfIn
  <2>2. MapAfter(r, k, base)[a] = r[LastOf(Writers(r, k, a))].physreg
    BY <2>1, MapAfterAt
  <2> QED
    BY <1>1, <2>1, <2>2
<1> QED
  BY <1>2, <1>3

\* The table depends on the uops and destinations of the entries only.
LEMMA MapAfterSame ==
  ASSUME NEW r, NEW s, NEW k \in Nat, NEW base,
         \A j \in 1..k : s[j].uop = r[j].uop /\ s[j].physreg = r[j].physreg
  PROVE  MapAfter(s, k, base) = MapAfter(r, k, base)
<1>1. ASSUME NEW a \in TransReg PROVE Writers(s, k, a) = Writers(r, k, a)
  BY DEF Writers
<1>2. ASSUME NEW a \in TransReg, Writers(r, k, a) # {}
      PROVE  s[LastOf(Writers(s, k, a))].physreg = r[LastOf(Writers(r, k, a))].physreg
  <2>1. Writers(r, k, a) \in SUBSET (1..k)
    BY DEF Writers
  <2>2. LastOf(Writers(r, k, a)) \in 1..k
    BY <1>2, <2>1, LastOfIn
  <2> QED
    BY <1>1, <2>2
<1> QED
  BY <1>1, <1>2 DEF MapAfter

LEMMA MapAfterKept ==
  ASSUME NEW k \in Nat,
         \A j \in 1..k : rob'[j].uop = rob[j].uop /\ rob'[j].physreg = rob[j].physreg
  PROVE  MapAfter(rob', k, commitrrt) = MapAfter(rob, k, commitrrt)
  BY MapAfterSame

\* One more entry at the end, as rename() updates the speculative table.
LEMMA MapAfterLast ==
  ASSUME NEW r, NEW k \in Nat, NEW n \in Nat, n = k + 1, NEW base
  PROVE  MapAfter(r, n, base) =
           [a \in TransReg |-> IF a \in Dests(r[n].uop) THEN r[n].physreg
                               ELSE MapAfter(r, k, base)[a]]
<1> DEFINE M == [a \in TransReg |-> IF a \in Dests(r[n].uop) THEN r[n].physreg
                                    ELSE MapAfter(r, k, base)[a]]
<1>1. ASSUME NEW a \in TransReg PROVE MapAfter(r, n, base)[a] = M[a]
  <2> DEFINE V == Writers(r, k, a)
             W == Writers(r, n, a)
  <2>1. W \in SUBSET (1..n) /\ V \in SUBSET (1..k) /\ n \in Nat
    BY DEF Writers
  <2>2. CASE a \in Dests(r[n].uop)
    <3>1. n \in W /\ \A m \in W : m <= n
      BY <2>1, <2>2 DEF Writers
    <3>2. MapAfter(r, n, base)[a] = r[n].physreg
      BY <2>1, <3>1, MapAfterAt
    <3> QED
      BY <2>2, <3>2
  <2>3. CASE a \notin Dests(r[n].uop)
    <3>1. W = V
      <4>1. \A j \in 1..n : j \in 1..k \/ j = n
        OBVIOUS
      <4>2. \A j \in 1..k : j \in 1..n
        OBVIOUS
      <4> QED
        BY <2>3, <4>1, <4>2 DEF Writers
    <3>2. MapAfter(r, n, base)[a] = MapAfter(r, k, base)[a]
      BY <3>1 DEF MapAfter
    <3> QED
      BY <2>3, <3>2
  <2> QED
    BY <2>2, <2>3
<1> QED
  BY <1>1 DEF MapAfter

\* The entry at the head leaves the ROB for the base table, as commit() does.
Shifted(r, s, k) == \A j \in 1..k : s[j] = r[j + 1]
CommittedOver(com, e, base) ==
  \A a \in TransReg : com[a] = IF a \in Dests(e.uop) THEN e.physreg ELSE base[a]

LEMMA MapAfterHead ==
  ASSUME NEW r, NEW s, NEW k \in Nat, NEW m \in Nat, m = k + 1, NEW base, NEW com,
         Shifted(r, s, k), CommittedOver(com, r[1], base)
  PROVE  MapAfter(s, k, com) = MapAfter(r, m, base)
<1> USE DEF Shifted, CommittedOver
<1>1. ASSUME NEW a \in TransReg PROVE MapAfter(s, k, com)[a] = MapAfter(r, m, base)[a]
  <2> DEFINE V == Writers(s, k, a)
             W == Writers(r, m, a)
  <2>1. W \in SUBSET (1..m) /\ V \in SUBSET (1..k)
    BY DEF Writers
  <2>2. \A j \in 1..k : j \in V <=> j + 1 \in W
    BY DEF Writers
  <2>3. 1 \in W <=> a \in Dests(r[1].uop)
    BY DEF Writers
  <2>4. ASSUME NEW h \in W, h # 1 PROVE h - 1 \in V
    <3>1. h - 1 \in 1..k /\ (h - 1) + 1 = h
      BY <2>1, <2>4
    <3> HIDE DEF V, W
    <3> QED
      BY <2>2, <3>1
  <2>5. CASE V = {}
    <3>1. \A h \in W : h = 1
      BY <2>4, <2>5
    <3>2. MapAfter(s, k, com)[a] = com[a]
      BY <2>5 DEF MapAfter
    <3>3. CASE 1 \in W
      <4>1. MapAfter(r, m, base)[a] = r[1].physreg
        BY <2>1, <3>1, <3>3, MapAfterAt
      <4> QED
        BY <2>3, <3>2, <3>3, <4>1
    <3>4. CASE 1 \notin W
      <4>1. W = {}
        BY <3>1, <3>4
      <4>2. MapAfter(r, m, base)[a] = base[a]
        BY <2>1, <4>1, MapAfterAt
      <4> QED
        BY <2>3, <3>2, <3>4, <4>2
    <3> QED
      BY <3>3, <3>4
  <2>6. CASE V # {}
    <3> DEFINE j == LastOf(V)
    <3>1. j \in V /\ \A h \in V : h <= j
      BY <2>1, <2>6, LastOfIn
    <3> HIDE DEF j, V, W
    <3>2. j \in 1..k /\ j + 1 \in W
      BY <2>1, <2>2, <3>1
    <3>3. ASSUME NEW h \in W PROVE h <= j + 1
      <4>1. CASE h = 1
        BY <3>2, <4>1
      <4>2. CASE h # 1
        <5>1. h - 1 <= j
          BY <2>4, <3>1, <4>2
        <5>2. h \in Int /\ j \in Int
          BY <2>1, <3>2
        <5> QED
          BY <5>1, <5>2
      <4> QED
        BY <4>1, <4>2
    <3>4. MapAfter(r, m, base)[a] = r[j + 1].physreg
      BY <2>1, <3>2, <3>3, MapAfterAt DEF W
    <3>5. MapAfter(s, k, com)[a] = s[j].physreg
      BY <3>1, MapAfterAt DEF V
    <3> QED
      BY <3>2, <3>4, <3>5
  <2> QED
    BY <2>5, <2>6
<1> QED
  BY <1>1 DEF MapAfter

-----------------------------------------------------------------------------

(***************************************************************************)
(* What the committed table refers to has committed, and two registers     *)
(* other than flags have different mappings, so that commit() takes the    *)
(* last mapping of a register away when it replaces it.                    *)
(***************************************************************************)
CommittedRegisters ==
  /\ \A a \in TransReg : state[commitrrt[a]] \in {"ARCH", "PENDINGFREE"}
  /\ \A a, b \in TransReg \ FlagReg :
       commitrrt[a] = commitrrt[b] /\ commitrrt[a] # NullReg => a = b

(***************************************************************************)
(* dispatch() sets the RS operand without releasing the old one: an entry  *)
(* that has not been dispatched, or not since it was redispatched, has     *)
(* none.                                                                   *)
(***************************************************************************)
RsUnset ==
  \A i \in 1..Len(rob) :
    rob[i].list \in {"frontend", "ready_to_dispatch"} \/ ~IsMem(rob[i].uop) =>
      rob[i].operands["RS"] = NullReg

\* Until the first uop of a cycle commits, the pending registers are the referenced ones.
PendingReferenced ==
  stage = "commit" /\ commitrc = "ok" /\ commitcount = 0 =>
    \A p \in PhysReg : state[p] = "PENDINGFREE" => refcount[p] > 0

\* What the tables and the entries say of each other.
TablesInv ==
  /\ RegistersOwned /\ RefcountsExact /\ NoDanglingReference
  /\ RenamingPrecise /\ ProducersOlder /\ CommittedRegisters

RefInv == RobInv /\ TablesInv /\ RsUnset /\ PendingReferenced

-----------------------------------------------------------------------------
\* The types the proofs below rest on.
LEMMA RobFacts ==
  ASSUME RobInv
  PROVE  /\ rob \in Seq(RobEntry) /\ Len(rob) \in Nat
         /\ \A i \in 1..Len(rob) : /\ rob[i].uop \in Uop /\ rob[i].physreg \in PhysReg
                                   /\ \A o \in Operand : rob[i].operands[o] \in PhysReg
         /\ state \in [PhysReg -> PhysRegState] /\ refcount \in [PhysReg -> Int]
         /\ specrrt \in [TransReg -> PhysReg] /\ commitrrt \in [TransReg -> PhysReg]
         /\ IsFiniteSet(1..Len(rob))
<1>1. rob \in Seq(RobEntry) /\ Len(rob) \in Nat
  BY DEF RobInv, TypeOK
<1>2. IsFiniteSet(1..Len(rob))
  BY <1>1, FS_Interval
<1> QED
  BY <1>1, <1>2, EntryFields DEF RobInv, TypeOK

\* The null register is never free or in flight.
LEMMA NullArch == ASSUME RegistersOwned PROVE state[NullReg] = "ARCH" /\ NullReg \in PhysReg
  BY RegAssumption DEF RegistersOwned

LEMMA ReferencesZero ==
  ASSUME RobInv, NEW p
  PROVE  /\ References(p) \in Nat
         /\ OperandCount(rob, 1..Len(rob), p) \in Nat
         /\ RrtCount(specrrt, p) \in Nat /\ RrtCount(commitrrt, p) \in Nat
         /\ References(p) = 0 =>
              /\ \A i \in 1..Len(rob) : \A o \in Operand : rob[i].operands[o] # p
              /\ \A a \in TransReg : specrrt[a] # p /\ commitrrt[a] # p
<1>1. IsFiniteSet(1..Len(rob))
  BY RobFacts
<1>2. /\ OperandCount(rob, 1..Len(rob), p) \in Nat
      /\ OperandCount(rob, 1..Len(rob), p) = 0 =>
           \A i \in 1..Len(rob) : \A o \in Operand : rob[i].operands[o] # p
  BY <1>1, OperandCountZero
<1>3. /\ RrtCount(specrrt, p) \in Nat /\ RrtCount(commitrrt, p) \in Nat
      /\ RrtCount(specrrt, p) = 0 => \A a \in TransReg : specrrt[a] # p
      /\ RrtCount(commitrrt, p) = 0 => \A a \in TransReg : commitrrt[a] # p
  BY RrtCountZero
<1>4. References(p) = OperandCount(rob, 1..Len(rob), p) + RrtCount(specrrt, p) + RrtCount(commitrrt, p)
  BY DEF References
<1>5. References(p) = 0 => /\ OperandCount(rob, 1..Len(rob), p) = 0
                           /\ RrtCount(specrrt, p) = 0 /\ RrtCount(commitrrt, p) = 0
  BY <1>2, <1>3, <1>4
<1>6. References(p) \in Nat
  BY <1>2, <1>3, <1>4
<1> QED
  BY <1>2, <1>3, <1>5, <1>6

(***************************************************************************)
(* The steps that leave the entries of the ROB, their destinations and the *)
(* sources they were renamed to in place; the RS operands may move to      *)
(* older entries, and the registers in flight from one in-flight state to  *)
(* another.                                                                *)
(***************************************************************************)
LEMMA EntriesStay ==
  ASSUME RobInv, TablesInv, Len(rob') = Len(rob),
         \A j \in 1..Len(rob) :
           /\ rob'[j].uop = rob[j].uop /\ rob'[j].physreg = rob[j].physreg
           /\ \A o \in Operand \ {"RS"} : rob'[j].operands[o] = rob[j].operands[o]
           /\ \/ rob'[j].operands["RS"] \in {rob[j].operands["RS"], NullReg}
              \/ \E m \in 1..(j - 1) : rob'[j].operands["RS"] = rob[m].physreg,
         UNCHANGED <<specrrt, commitrrt>>,
         \A q \in PhysReg : \/ state'[q] = state[q]
                            \/ state[q] \in InFlightState /\ state'[q] \in InFlightState,
         \A q \in PhysReg \ {NullReg} :
           refcount'[q] = refcount[q] - OperandCount(rob, 1..Len(rob), q)
                                      + OperandCount(rob', 1..Len(rob), q)
  PROVE  TablesInv'
<1>1. /\ Len(rob) \in Nat
      /\ \A i \in 1..Len(rob) : rob[i].physreg \in PhysReg /\ \A o \in Operand : rob[i].operands[o] \in PhysReg
      /\ refcount \in [PhysReg -> Int]
      /\ specrrt \in [TransReg -> PhysReg] /\ commitrrt \in [TransReg -> PhysReg]
  BY RobFacts
<1>2. state[NullReg] = "ARCH" /\ NullReg \in PhysReg
  BY NullArch DEF TablesInv
<1>3. \A q \in PhysReg : /\ state'[q] \in InFlightState <=> state[q] \in InFlightState
                         /\ \A x \in {"ARCH", "FREE", "PENDINGFREE"} : state'[q] = x <=> state[q] = x
  BY DEF InFlightState
<1>4. RegistersOwned'
  <2>1. \A i \in 1..Len(rob) :
          /\ state'[rob'[i].physreg] \in InFlightState
          /\ \A j \in 1..Len(rob) : rob'[i].physreg = rob'[j].physreg => i = j
    BY <1>1, <1>3 DEF TablesInv, RegistersOwned
  <2>2. \A p \in PhysReg : state'[p] \in InFlightState => \E i \in 1..Len(rob) : rob'[i].physreg = p
    BY <1>3 DEF TablesInv, RegistersOwned
  <2>3. \A p \in PhysReg : state'[p] = "ARCH" <=> p = NullReg \/ \E a \in TransReg \ FlagReg : commitrrt'[a] = p
    BY <1>3 DEF TablesInv, RegistersOwned
  <2> QED
    BY <2>1, <2>2, <2>3 DEF RegistersOwned
<1>5. RefcountsExact'
  <2> SUFFICES ASSUME NEW p \in PhysReg \ {NullReg}
               PROVE  refcount'[p] = OperandCount(rob', 1..Len(rob), p) + RrtCount(specrrt, p) + RrtCount(commitrrt, p)
    BY DEF RefcountsExact, References
  <2>1. refcount[p] = OperandCount(rob, 1..Len(rob), p) + RrtCount(specrrt, p) + RrtCount(commitrrt, p)
    BY DEF TablesInv, RefcountsExact, References
  <2>2. /\ OperandCount(rob, 1..Len(rob), p) \in Nat
        /\ RrtCount(specrrt, p) \in Nat /\ RrtCount(commitrrt, p) \in Nat
    BY ReferencesZero
  <2>3. OperandCount(rob', 1..Len(rob), p) \in Int
    BY <1>1, OperandCountInt
  <2> QED
    BY <2>1, <2>2, <2>3
<1>6. \A i \in 1..Len(rob) : \A o \in Operand :
        rob'[i].operands[o] \in PhysReg /\ state[rob'[i].operands[o]] # "FREE"
  <2> SUFFICES ASSUME NEW i \in 1..Len(rob), NEW o \in Operand
               PROVE  rob'[i].operands[o] \in PhysReg /\ state[rob'[i].operands[o]] # "FREE"
    OBVIOUS
  <2>1. CASE rob'[i].operands[o] = rob[i].operands[o]
    BY <1>1, <2>1 DEF TablesInv, NoDanglingReference
  <2>2. CASE rob'[i].operands[o] = NullReg
    BY <1>2, <2>2
  <2>3. CASE \E m \in 1..(i - 1) : rob'[i].operands[o] = rob[m].physreg
    <3>1. PICK m \in 1..Len(rob) : rob'[i].operands[o] = rob[m].physreg
      BY <1>1, <2>3
    <3> QED
      BY <1>1, <3>1 DEF TablesInv, RegistersOwned, InFlightState
  <2> QED
    BY <2>1, <2>2, <2>3
<1>7. NoDanglingReference'
  <2>1. \A i \in 1..Len(rob) : \A o \in Operand : state'[rob'[i].operands[o]] # "FREE"
    BY <1>3, <1>6
  <2>2. \A a \in TransReg : state'[specrrt'[a]] # "FREE" /\ state'[commitrrt'[a]] # "FREE"
    BY <1>1, <1>3 DEF TablesInv, NoDanglingReference
  <2> QED
    BY <2>1, <2>2 DEF NoDanglingReference
<1>8. RenamingPrecise'
  <2>1. ASSUME NEW k \in 0..Len(rob) PROVE MapAfter(rob', k, commitrrt') = MapAfter(rob, k, commitrrt)
    <3>1. k \in Nat /\ \A j \in 1..k : rob'[j].uop = rob[j].uop /\ rob'[j].physreg = rob[j].physreg
      BY <1>1
    <3>2. MapAfter(rob', k, commitrrt) = MapAfter(rob, k, commitrrt)
      BY <3>1, MapAfterKept
    <3> QED
      BY <3>2
  <2>2. ASSUME NEW i \in 1..Len(rob), NEW o \in Operand \ {"RS"}
        PROVE  rob'[i].operands[o] = MapAfter(rob', i - 1, commitrrt')[rob'[i].uop.src[o]]
    <3>1. i - 1 \in 0..Len(rob)
      BY <1>1
    <3>2. rob[i].operands[o] = MapAfter(rob, i - 1, commitrrt)[rob[i].uop.src[o]]
      BY DEF TablesInv, RenamingPrecise
    <3>3. MapAfter(rob', i - 1, commitrrt') = MapAfter(rob, i - 1, commitrrt)
      BY <2>1, <3>1
    <3> QED
      BY <3>2, <3>3
  <2>3. specrrt' = MapAfter(rob', Len(rob'), commitrrt')
    <3>1. Len(rob) \in 0..Len(rob)
      BY <1>1
    <3>2. MapAfter(rob', Len(rob), commitrrt') = MapAfter(rob, Len(rob), commitrrt)
      BY <2>1, <3>1
    <3> QED
      BY <3>2 DEF TablesInv, RenamingPrecise
  <2> QED
    BY <2>2, <2>3 DEF RenamingPrecise
<1>9. ProducersOlder'
  <2> SUFFICES ASSUME NEW i \in 1..Len(rob), NEW o \in Operand, state'[rob'[i].operands[o]] \in InFlightState
               PROVE  \E j \in 1..(i - 1) : rob'[j].physreg = rob'[i].operands[o]
    BY DEF ProducersOlder
  <2>1. state[rob'[i].operands[o]] \in InFlightState
    BY <1>3, <1>6
  <2>2. \A j \in 1..(i - 1) : j \in 1..Len(rob)
    BY <1>1
  <2>3. CASE rob'[i].operands[o] = rob[i].operands[o]
    BY <2>1, <2>2, <2>3 DEF TablesInv, ProducersOlder
  <2>4. CASE rob'[i].operands[o] = NullReg
    BY <1>2, <2>1, <2>4 DEF InFlightState
  <2>5. CASE \E m \in 1..(i - 1) : rob'[i].operands[o] = rob[m].physreg
    BY <2>2, <2>5
  <2> QED
    BY <2>3, <2>4, <2>5
<1>10. CommittedRegisters'
  BY <1>1, <1>3 DEF TablesInv, CommittedRegisters
<1> QED
  BY <1>4, <1>5, <1>7, <1>8, <1>9, <1>10 DEF TablesInv

(***************************************************************************)
(* The steps that change one entry other than in its renamed sources, and  *)
(* account for its RS operand as unref() and addref() do.                  *)
(***************************************************************************)
LEMMA OneEntryStays ==
  ASSUME RobInv, TablesInv, NEW i \in 1..Len(rob), NEW e \in RobEntry, NEW s \in PhysReg,
         rob' = [rob EXCEPT ![i] = e],
         e.uop = rob[i].uop, e.physreg = rob[i].physreg,
         \A o \in Operand \ {"RS"} : e.operands[o] = rob[i].operands[o], e.operands["RS"] = s,
         s = rob[i].operands["RS"] \/ s \in RsChoices(i),
         UNCHANGED <<specrrt, commitrrt>>,
         \A q \in PhysReg : \/ state'[q] = state[q]
                            \/ state[q] \in InFlightState /\ state'[q] \in InFlightState,
         \A q \in PhysReg \ {NullReg} :
           refcount'[q] = refcount[q] - (IF q = rob[i].operands["RS"] THEN 1 ELSE 0)
                                      + (IF q = s THEN 1 ELSE 0)
  PROVE  TablesInv'
<1>1. rob \in Seq(RobEntry) /\ Len(rob) \in Nat /\ refcount \in [PhysReg -> Int]
  BY RobFacts
<1>2. /\ Len(rob') = Len(rob)
      /\ \A j \in 1..Len(rob) : rob'[j] = IF j = i THEN e ELSE rob[j]
  BY <1>1, EntryBecomes
<1>3. \/ s \in {rob[i].operands["RS"], NullReg}
      \/ \E m \in 1..(i - 1) : s = rob[m].physreg
  BY DEF RsChoices
<1>4. ASSUME NEW j \in 1..Len(rob)
      PROVE  /\ rob'[j].uop = rob[j].uop /\ rob'[j].physreg = rob[j].physreg
             /\ \A o \in Operand \ {"RS"} : rob'[j].operands[o] = rob[j].operands[o]
             /\ \/ rob'[j].operands["RS"] \in {rob[j].operands["RS"], NullReg}
                \/ \E m \in 1..(j - 1) : rob'[j].operands["RS"] = rob[m].physreg
  <2>1. CASE j = i
    BY <1>2, <1>3, <2>1
  <2>2. CASE j # i
    BY <1>2, <2>2
  <2> QED
    BY <2>1, <2>2
<1>5. ASSUME NEW q \in PhysReg \ {NullReg}
      PROVE  refcount'[q] = refcount[q] - OperandCount(rob, 1..Len(rob), q)
                                        + OperandCount(rob', 1..Len(rob), q)
  <2>1. \A j \in (1..Len(rob)) \ {i} : rob'[j].operands = rob[j].operands
    BY <1>2
  <2>2. OperandCount(rob', 1..Len(rob), q) =
          OperandCount(rob, 1..Len(rob), q) - EntryRefs(rob[i], q) + EntryRefs(rob'[i], q)
    BY <1>1, <2>1, OperandCountStep
  <2>3. EntryRefs(e, q) = EntryRefs(rob[i], q) - (IF q = rob[i].operands["RS"] THEN 1 ELSE 0)
                                               + (IF q = s THEN 1 ELSE 0)
    BY EntryRefsRs
  <2>4. rob'[i] = e
    BY <1>2
  <2>5. /\ OperandCount(rob, 1..Len(rob), q) \in Int /\ refcount[q] \in Int
        /\ EntryRefs(rob[i], q) \in Int /\ EntryRefs(e, q) \in Int
    BY <1>1, OperandCountInt, EntryRefsInt
  <2> DEFINE a == IF q = rob[i].operands["RS"] THEN 1 ELSE 0
             b == IF q = s THEN 1 ELSE 0
  <2>6. a \in Int /\ b \in Int /\ refcount'[q] = refcount[q] - a + b
    OBVIOUS
  <2>7. EntryRefs(e, q) = EntryRefs(rob[i], q) - a + b
    BY <2>3
  <2> HIDE DEF a, b
  <2>8. OperandCount(rob', 1..Len(rob), q) = OperandCount(rob, 1..Len(rob), q) - a + b
    <3>1. OperandCount(rob', 1..Len(rob), q) =
            OperandCount(rob, 1..Len(rob), q) - EntryRefs(rob[i], q) + EntryRefs(e, q)
      BY <2>2, <2>4
    <3> QED
      BY <3>1, <2>5, <2>6, <2>7
  <2> QED
    BY <2>5, <2>6, <2>8
<1> QED
  BY <1>2, <1>4, <1>5, EntriesStay

\* The steps that only move an entry to another list.
LEMMA ListOnly ==
  ASSUME RobInv, TablesInv, NEW i \in 1..Len(rob), NEW e \in RobEntry,
         rob' = [rob EXCEPT ![i] = e],
         e.uop = rob[i].uop, e.physreg = rob[i].physreg, e.operands = rob[i].operands,
         UNCHANGED <<refcount, specrrt, commitrrt>>,
         \A q \in PhysReg : \/ state'[q] = state[q]
                            \/ state[q] \in InFlightState /\ state'[q] \in InFlightState
  PROVE  TablesInv'
<1> DEFINE s == rob[i].operands["RS"]
<1>1. s \in PhysReg /\ refcount \in [PhysReg -> Int]
  BY RobFacts DEF Operand
<1>2. \A q \in PhysReg \ {NullReg} :
        refcount'[q] = refcount[q] - (IF q = rob[i].operands["RS"] THEN 1 ELSE 0)
                                   + (IF q = s THEN 1 ELSE 0)
  BY <1>1
<1> QED
  BY <1>1, <1>2, OneEntryStays

LEMMA RsUnsetOne ==
  ASSUME RobInv, RsUnset, NEW i \in 1..Len(rob), NEW e \in RobEntry, rob' = [rob EXCEPT ![i] = e],
         e.list \in {"frontend", "ready_to_dispatch"} \/ ~IsMem(e.uop) => e.operands["RS"] = NullReg
  PROVE  RsUnset'
<1>1. /\ Len(rob') = Len(rob)
      /\ \A j \in 1..Len(rob) : rob'[j] = IF j = i THEN e ELSE rob[j]
  BY RobFacts, EntryBecomes
<1> QED
  BY <1>1 DEF RsUnset

-----------------------------------------------------------------------------
\* The steps that move one entry from list to list.

LEMMA FrontendRefs == ASSUME RefInv, NEW i \in 1..Len(rob), Frontend(i) PROVE TablesInv' /\ RsUnset'
<1> DEFINE e == [rob[i] EXCEPT !.list = "ready_to_dispatch"]
<1>1. RobInv /\ TablesInv /\ RsUnset /\ rob[i] \in RobEntry
  BY RobFacts DEF RefInv
<1>2. /\ e \in RobEntry /\ e.uop = rob[i].uop /\ e.physreg = rob[i].physreg
      /\ e.operands = rob[i].operands /\ e.list = "ready_to_dispatch"
  BY <1>1 DEF RobEntry, RobList
<1>3. rob' = [rob EXCEPT ![i] = e] /\ UNCHANGED <<state, refcount, specrrt, commitrrt>> /\ rob[i].list = "frontend"
  BY DEF Frontend
<1> HIDE DEF e
<1>4. TablesInv'
  BY <1>1, <1>2, <1>3, ListOnly
<1>5. e.operands["RS"] = NullReg
  BY <1>1, <1>2, <1>3 DEF RsUnset
<1> QED
  BY <1>1, <1>2, <1>3, <1>4, <1>5, RsUnsetOne

LEMMA DispatchRefs == ASSUME RefInv, NEW i \in 1..Len(rob), Dispatch(i) PROVE TablesInv' /\ RsUnset'
<1>1. /\ RobInv /\ TablesInv /\ RsUnset /\ rob[i] \in RobEntry /\ rob[i].list = "ready_to_dispatch"
      /\ refcount \in [PhysReg -> Int]
  BY RobFacts DEF RefInv, Dispatch
<1>2. rob[i].operands["RS"] = NullReg
  BY <1>1 DEF RsUnset
<1>3. UNCHANGED <<state, specrrt, commitrrt>>
  BY DEF Dispatch
<1>4. CASE rob' = [rob EXCEPT ![i].list = "dispatched"] /\ UNCHANGED refcount
  <2> DEFINE e == [rob[i] EXCEPT !.list = "dispatched"]
  <2>1. /\ e \in RobEntry /\ e.uop = rob[i].uop /\ e.physreg = rob[i].physreg
        /\ e.operands = rob[i].operands
    BY <1>1 DEF RobEntry, RobList
  <2>2. rob' = [rob EXCEPT ![i] = e]
    BY <1>4
  <2> HIDE DEF e
  <2>3. TablesInv'
    BY <1>1, <1>3, <1>4, <2>1, <2>2, ListOnly
  <2> QED
    BY <1>1, <1>2, <2>1, <2>2, <2>3, RsUnsetOne
<1>5. ASSUME rob[i].uop.class \in {"ld", "st"}, NEW f \in OutstandingFences(i),
             rob' = [rob EXCEPT ![i].list = "dispatched", ![i].operands["RS"] = f],
             refcount' = [refcount EXCEPT ![f] = @ + 1]
      PROVE  TablesInv' /\ RsUnset'
  <2> DEFINE e == [rob[i] EXCEPT !.list = "dispatched", !.operands["RS"] = f]
  <2>1. PICK k \in 1..(i - 1) : f = rob[k].physreg /\ rob[k].uop.class = "mf"
    BY DEF OutstandingFences
  <2>2. f \in PhysReg /\ f \in RsChoices(i)
    <3>1. k \in 1..Len(rob)
      BY RobFacts, <1>1
    <3> QED
      BY <1>1, <2>1, <3>1, RobFacts DEF RsChoices
  <2>3. /\ e \in RobEntry /\ e.uop = rob[i].uop /\ e.physreg = rob[i].physreg
        /\ \A o \in Operand \ {"RS"} : e.operands[o] = rob[i].operands[o]
        /\ e.operands["RS"] = f /\ e.list = "dispatched"
    BY <1>1, <2>2 DEF RobEntry, RobList, Operand
  <2>4. rob' = [rob EXCEPT ![i] = e]
    BY <1>1, <1>5 DEF RobEntry
  <2>5. \A q \in PhysReg \ {NullReg} :
          refcount'[q] = refcount[q] - (IF q = rob[i].operands["RS"] THEN 1 ELSE 0)
                                     + (IF q = f THEN 1 ELSE 0)
    BY <1>1, <1>2, <1>5, <2>2
  <2> HIDE DEF e
  <2>6. TablesInv'
    BY <1>1, <1>3, <2>2, <2>3, <2>4, <2>5, OneEntryStays
  <2>7. IsMem(e.uop)
    BY <1>5, <2>3 DEF IsMem
  <2> QED
    BY <1>1, <2>3, <2>4, <2>6, <2>7, RsUnsetOne
<1> QED
  BY <1>4, <1>5 DEF Dispatch

LEMMA IssueRefs ==
  ASSUME RefInv, NEW i \in 1..Len(rob), IssueReg(i) \/ IssueFence(i) \/ IssueException(i)
  PROVE  TablesInv' /\ RsUnset'
<1>1. RobInv /\ TablesInv /\ RsUnset /\ rob[i] \in RobEntry /\ rob[i].list = "dispatched"
  BY RobFacts DEF RefInv, IssueReg, IssueFence, IssueException, Issuable
<1>2. UNCHANGED <<state, refcount, specrrt, commitrrt>>
  BY DEF IssueReg, IssueFence, IssueException
<1>3. PICK e \in RobEntry : /\ rob' = [rob EXCEPT ![i] = e]
                            /\ e.uop = rob[i].uop /\ e.physreg = rob[i].physreg
                            /\ e.operands = rob[i].operands
                            /\ e.list \in {"issued", "ready_to_commit"}
  <2>1. CASE IssueReg(i)
    <3> DEFINE e == [rob[i] EXCEPT !.list = "issued"]
    <3>1. e \in RobEntry /\ rob' = [rob EXCEPT ![i] = e]
      BY <1>1, <2>1 DEF IssueReg, RobEntry, RobList
    <3> QED
      BY <1>1, <3>1 DEF RobEntry
  <2>2. CASE IssueFence(i)
    <3> DEFINE e == [rob[i] EXCEPT !.list = "ready_to_commit"]
    <3>1. e \in RobEntry /\ rob' = [rob EXCEPT ![i] = e]
      BY <1>1, <2>2 DEF IssueFence, RobEntry, RobList
    <3> QED
      BY <1>1, <3>1 DEF RobEntry
  <2>3. CASE IssueException(i)
    <3> DEFINE e == [rob[i] EXCEPT !.list = "ready_to_commit", !.inv = TRUE]
    <3>1. e \in RobEntry /\ rob' = [rob EXCEPT ![i] = e]
      BY <1>1, <2>3 DEF IssueException, RobEntry, RobList
    <3> QED
      BY <1>1, <3>1 DEF RobEntry
  <2> QED
    BY <2>1, <2>2, <2>3
<1>4. TablesInv'
  BY <1>1, <1>2, <1>3, ListOnly
<1>5. ~IsMem(e.uop) => e.operands["RS"] = NullReg
  BY <1>1, <1>3 DEF RsUnset
<1> QED
  BY <1>1, <1>3, <1>4, <1>5, RsUnsetOne

\* issueload() and issuestore(), successful or replayed, with another RS operand.
LEMMA MoveRsRefs ==
  ASSUME RefInv, NEW i \in 1..Len(rob), NEW s \in PhysReg,
         Replay(i, s) \/ \E l \in RobList : IssueMem(i, s, l)
  PROVE  TablesInv' /\ RsUnset'
<1>1. RobInv /\ TablesInv /\ RsUnset /\ rob[i] \in RobEntry /\ refcount \in [PhysReg -> Int]
  BY RobFacts DEF RefInv
<1> rob[i].list = "dispatched"
  BY DEF Replay, IssueMem, Issuable
<1>2. /\ UNCHANGED <<state, specrrt, commitrrt>> /\ rob[i].uop.class \in {"ld", "st"}
      /\ s \in RsChoices(i) /\ refcount' = MoveRs(i, s)
  BY DEF Replay, IssueMem
<1>3. PICK e \in RobEntry : /\ rob' = [rob EXCEPT ![i] = e]
                            /\ e.uop = rob[i].uop /\ e.physreg = rob[i].physreg
                            /\ \A o \in Operand \ {"RS"} : e.operands[o] = rob[i].operands[o]
                            /\ e.operands["RS"] = s
                            /\ e.list \in {"dispatched", "issued", "cache_miss"}
  <2>1. CASE Replay(i, s)
    <3> DEFINE e == [rob[i] EXCEPT !.second = TRUE, !.operands["RS"] = s]
    <3>1. e \in RobEntry /\ rob' = [rob EXCEPT ![i] = e]
      BY <1>1, <2>1 DEF Replay, RobEntry, RobList, Operand
    <3> QED
      BY <1>1, <3>1 DEF RobEntry, Operand
  <2>2. ASSUME NEW l \in RobList, IssueMem(i, s, l)
        PROVE  \E e \in RobEntry :
                 /\ rob' = [rob EXCEPT ![i] = e]
                 /\ e.uop = rob[i].uop /\ e.physreg = rob[i].physreg
                 /\ \A o \in Operand \ {"RS"} : e.operands[o] = rob[i].operands[o]
                 /\ e.operands["RS"] = s
                 /\ e.list \in {"dispatched", "issued", "cache_miss"}
    <3> DEFINE e == [rob[i] EXCEPT !.list = l, !.operands["RS"] = s]
    <3>1. /\ rob' = [rob EXCEPT ![i].list = l, ![i].operands["RS"] = s]
          /\ l \in {"issued", "cache_miss"}
      BY <2>2 DEF IssueMem
    <3>2. e \in RobEntry /\ rob' = [rob EXCEPT ![i] = e]
      BY <1>1, <3>1 DEF RobEntry
    <3> QED
      BY <1>1, <3>1, <3>2 DEF RobEntry, Operand
  <2> QED
    BY <2>1, <2>2
<1>4. \A q \in PhysReg \ {NullReg} :
        refcount'[q] = refcount[q] - (IF q = rob[i].operands["RS"] THEN 1 ELSE 0)
                                   + (IF q = s THEN 1 ELSE 0)
  BY <1>2 DEF MoveRs
<1>5. TablesInv'
  BY <1>1, <1>2, <1>3, <1>4, OneEntryStays
<1>6. IsMem(e.uop)
  BY <1>2, <1>3 DEF IsMem
<1> QED
  BY <1>1, <1>3, <1>5, <1>6, RsUnsetOne

\* complete(), writeback() and fencewakeup(): the register moves on with its entry.
LEMMA ResultRefs ==
  ASSUME RefInv, NEW i \in 1..Len(rob), Complete(i) \/ Writeback(i) \/ (i = 1 /\ FenceWakeup)
  PROVE  TablesInv' /\ RsUnset'
<1>1. /\ RobInv /\ TablesInv /\ RsUnset /\ rob[i] \in RobEntry
      /\ rob[i].physreg \in PhysReg /\ state \in [PhysReg -> PhysRegState]
  BY RobFacts DEF RefInv
<1>2. UNCHANGED <<refcount, specrrt, commitrrt>>
  BY DEF Complete, Writeback, FenceWakeup
<1>3. state[rob[i].physreg] \in InFlightState
  BY <1>1 DEF TablesInv, RegistersOwned
<1>4. \A q \in PhysReg : \/ state'[q] = state[q]
                         \/ state[q] \in InFlightState /\ state'[q] \in InFlightState
  <2>1. \/ state' = [state EXCEPT ![rob[i].physreg] = "BYPASS"]
        \/ state' = [state EXCEPT ![rob[i].physreg] = "WRITTEN"]
    BY DEF Complete, Writeback, FenceWakeup
  <2> QED
    BY <1>1, <1>3, <2>1 DEF InFlightState
<1>5. PICK e \in RobEntry : /\ rob' = [rob EXCEPT ![i] = e]
                            /\ e.uop = rob[i].uop /\ e.physreg = rob[i].physreg
                            /\ e.operands = rob[i].operands
                            /\ e.list \in {"completed", "ready_to_commit"}
  <2>1. CASE Complete(i)
    <3> DEFINE e == [rob[i] EXCEPT !.list = "completed"]
    <3>1. e \in RobEntry /\ rob' = [rob EXCEPT ![i] = e]
      BY <1>1, <2>1 DEF Complete, RobEntry, RobList
    <3> QED
      BY <1>1, <3>1 DEF RobEntry
  <2>2. CASE Writeback(i)
    <3> DEFINE e == [rob[i] EXCEPT !.list = "ready_to_commit"]
    <3>1. e \in RobEntry /\ rob' = [rob EXCEPT ![i] = e]
      BY <1>1, <2>2 DEF Writeback, RobEntry, RobList
    <3> QED
      BY <1>1, <3>1 DEF RobEntry
  <2>3. CASE i = 1 /\ FenceWakeup
    <3> DEFINE e == [rob[i] EXCEPT !.list = "completed", !.second = TRUE]
    <3>1. e \in RobEntry /\ rob' = [rob EXCEPT ![i] = e]
      BY <1>1, <2>3 DEF FenceWakeup, RobEntry, RobList
    <3> QED
      BY <1>1, <3>1 DEF RobEntry
  <2> QED
    BY <2>1, <2>2, <2>3
<1>6. TablesInv'
  BY <1>1, <1>2, <1>4, <1>5, ListOnly
<1>7. ~IsMem(e.uop) => e.operands["RS"] = NullReg
  BY <1>1, <1>5 DEF RsUnset
<1> QED
  BY <1>1, <1>5, <1>6, <1>7, RsUnsetOne

-----------------------------------------------------------------------------
\* redispatch_dependents(): the entries from i on give up their RS operands.
LEMMA MisspeculateRefs ==
  ASSUME RefInv, NEW i \in 1..Len(rob), Misspeculate(i)
  PROVE  TablesInv' /\ RsUnset'
<1> DEFINE again == i..Len(rob)
           r == [j \in 1..Len(rob) |-> IF j \in again THEN Redispatched(rob[j]) ELSE rob[j]]
<1>1. /\ RobInv /\ TablesInv /\ RsUnset /\ rob \in Seq(RobEntry) /\ Len(rob) \in Nat
      /\ refcount \in [PhysReg -> Int] /\ state \in [PhysReg -> PhysRegState]
  BY RobFacts DEF RefInv
<1>2. /\ rob' = r /\ UNCHANGED <<specrrt, commitrrt>>
      /\ state' = [q \in PhysReg |-> IF \E j \in again : rob[j].physreg = q THEN "WAITING" ELSE state[q]]
      /\ refcount' = [q \in PhysReg |-> refcount[q] - OperandCount(rob, again, q) + OperandCount(r, again, q)]
  BY DEF Misspeculate, RedispatchSet
<1>3. Len(r) = Len(rob) /\ \A j \in 1..Len(rob) : r[j] = IF j \in again THEN Redispatched(rob[j]) ELSE rob[j]
  BY <1>1
<1>4. ASSUME NEW j \in 1..Len(rob)
      PROVE  /\ r[j].uop = rob[j].uop /\ r[j].physreg = rob[j].physreg
             /\ \A o \in Operand \ {"RS"} : r[j].operands[o] = rob[j].operands[o]
             /\ r[j].operands["RS"] \in {rob[j].operands["RS"], NullReg}
             /\ j \in again /\ IsMem(rob[j].uop) => r[j].operands["RS"] = NullReg
             /\ j \notin again => r[j] = rob[j]
             /\ ~IsMem(rob[j].uop) => r[j].operands["RS"] = rob[j].operands["RS"]
  <2>1. rob[j] \in RobEntry /\ "RS" \in Operand
    BY <1>1 DEF Operand
  <2>2. CASE j \in again
    <3>1. r[j] = Redispatched(rob[j])
      BY <1>3, <2>2
    <3> HIDE DEF r
    <3> QED
      BY <2>1, <2>2, <3>1 DEF Redispatched, RobEntry
  <2>3. CASE j \notin again
    BY <1>3, <2>3
  <2> QED
    BY <2>2, <2>3
<1>5. ASSUME NEW q \in PhysReg
      PROVE  refcount'[q] = refcount[q] - OperandCount(rob, 1..Len(rob), q) + OperandCount(r, 1..Len(rob), q)
  <2>1. i - 1 \in 0..Len(rob) /\ i \in Nat /\ i = (i - 1) + 1 /\ \A j \in 1..(i - 1) : j \in 1..Len(rob) /\ j \notin again
    BY <1>1
  <2>2. \A j \in 1..(i - 1) : r[j].operands = rob[j].operands
    BY <1>4, <2>1
  <2>3. refcount'[q] = refcount[q] - OperandCount(rob, again, q) + OperandCount(r, again, q)
    BY <1>2
  <2> HIDE DEF r
  <2>4. OperandCount(rob, 1..Len(rob), q) = OperandCount(rob, 1..(i - 1), q) + OperandCount(rob, again, q)
    BY <1>1, <2>1, OperandCountPrefix
  <2>5. OperandCount(r, 1..Len(rob), q) = OperandCount(rob, 1..(i - 1), q) + OperandCount(r, again, q)
    BY <1>1, <2>1, <2>2, OperandCountPrefix
  <2>6. /\ OperandCount(rob, 1..(i - 1), q) \in Int /\ OperandCount(rob, again, q) \in Int
        /\ OperandCount(r, again, q) \in Int /\ refcount[q] \in Int
    BY <1>1, OperandCountInt
  <2> QED
    BY <2>3, <2>4, <2>5, <2>6
<1>6. \A q \in PhysReg : \/ state'[q] = state[q]
                         \/ state[q] \in InFlightState /\ state'[q] \in InFlightState
  <2> SUFFICES ASSUME NEW q \in PhysReg, NEW j \in again, rob[j].physreg = q
               PROVE  state[q] \in InFlightState /\ "WAITING" \in InFlightState
    BY <1>2
  <2>1. j \in 1..Len(rob)
    BY <1>1
  <2> QED
    BY <1>1, <2>1 DEF TablesInv, RegistersOwned, InFlightState
<1> HIDE DEF r
<1>7. TablesInv'
  BY <1>1, <1>2, <1>3, <1>4, <1>5, <1>6, EntriesStay
<1>8. RsUnset'
  <2> SUFFICES ASSUME NEW j \in 1..Len(rob), rob'[j].list \in {"frontend", "ready_to_dispatch"} \/ ~IsMem(rob'[j].uop)
               PROVE  rob'[j].operands["RS"] = NullReg
    BY <1>2, <1>3 DEF RsUnset
  <2>1. CASE j \in again /\ IsMem(rob[j].uop)
    BY <1>2, <1>4, <2>1
  <2>2. CASE j \notin again \/ ~IsMem(rob[j].uop)
    BY <1>1, <1>2, <1>4, <2>2 DEF RsUnset
  <2> QED
    BY <2>1, <2>2
<1> QED
  BY <1>7, <1>8

-----------------------------------------------------------------------------
(***************************************************************************)
(* rename(): the new entry takes a free register, to which nothing refers, *)
(* and its sources are entries of the speculative table.                   *)
(***************************************************************************)
LEMMA RenameRefs ==
  ASSUME RefInv, NEW u \in Uop, NEW p \in PhysReg, Rename(u, p)
  PROVE  TablesInv' /\ RsUnset'
<1> DEFINE n == Len(rob)
           m == n + 1
           ops == RenamedOperands(u)
           e == [uop |-> u, physreg |-> p, operands |-> ops,
                 list |-> "frontend", second |-> FALSE, inv |-> FALSE]
           spec == [a \in TransReg |-> IF a \in Dests(u) THEN p ELSE specrrt[a]]
<1>1. /\ RobInv /\ TablesInv /\ RsUnset /\ rob \in Seq(RobEntry) /\ n \in Nat /\ m \in Nat
      /\ \A i \in 1..n : /\ rob[i].uop \in Uop /\ rob[i].physreg \in PhysReg
                         /\ \A o \in Operand : rob[i].operands[o] \in PhysReg
      /\ refcount \in [PhysReg -> Int] /\ state \in [PhysReg -> PhysRegState]
      /\ specrrt \in [TransReg -> PhysReg] /\ commitrrt \in [TransReg -> PhysReg]
  BY RobFacts DEF RefInv
<1>2. /\ rob' = Append(rob, e) /\ specrrt' = spec /\ commitrrt' = commitrrt
      /\ state' = [state EXCEPT ![p] = "WAITING"] /\ state[p] = "FREE"
      /\ refcount' = [q \in PhysReg |-> refcount[q] + Cardinality({o \in Operand : ops[o] = q})
                                        + RrtCount(spec, q) - RrtCount(specrrt, q)]
  BY DEF Rename, FreeRegs
<1>3. /\ e.uop = u /\ e.physreg = p /\ e.operands = ops
      /\ \A o \in Operand \ {"RS"} : u.src[o] \in TransReg /\ ops[o] = specrrt[u.src[o]]
      /\ ops["RS"] = NullReg
  <2>1. u.src \in [Operand \ {"RS"} -> TransReg]
    BY UopAssumption DEF UopType
  <2> QED
    BY <2>1 DEF RenamedOperands, Operand
<1>4. /\ Len(rob') = m /\ rob'[m] = e /\ m \in 1..m
      /\ \A j \in 1..n : rob'[j] = rob[j]
      /\ \A j \in 1..m : j \in 1..n \/ j = m
      /\ \A j \in 1..n : j \in 1..m /\ j # m
  BY <1>1, <1>2
<1> HIDE DEF e, ops
<1>5. /\ state[NullReg] = "ARCH" /\ NullReg \in PhysReg /\ p # NullReg
      /\ \A q \in PhysReg : q # p => state'[q] = state[q]
      /\ state'[p] = "WAITING"
  <2>1. state[NullReg] = "ARCH" /\ NullReg \in PhysReg
    BY <1>1, NullArch DEF TablesInv
  <2> QED
    BY <1>1, <1>2, <2>1
<1>6. /\ \A j \in 1..n : rob[j].physreg # p /\ \A o \in Operand : rob[j].operands[o] # p
      /\ \A a \in TransReg : specrrt[a] # p /\ commitrrt[a] # p
  <2>1. ASSUME NEW j \in 1..n PROVE rob[j].physreg # p
    BY <1>1, <1>2 DEF TablesInv, RegistersOwned, InFlightState
  <2>2. ASSUME NEW j \in 1..n, NEW o \in Operand PROVE rob[j].operands[o] # p
    BY <1>1, <1>2 DEF TablesInv, NoDanglingReference
  <2>3. ASSUME NEW a \in TransReg PROVE specrrt[a] # p /\ commitrrt[a] # p
    BY <1>1, <1>2 DEF TablesInv, NoDanglingReference
  <2> QED
    BY <2>1, <2>2, <2>3
<1>7. \A o \in Operand : ops[o] \in PhysReg /\ ops[o] # p /\ state[ops[o]] # "FREE"
  <2>1. ASSUME NEW o \in Operand \ {"RS"}
        PROVE  ops[o] \in PhysReg /\ ops[o] # p /\ state[ops[o]] # "FREE"
    <3>1. \A a \in TransReg : specrrt[a] \in PhysReg /\ specrrt[a] # p /\ state[specrrt[a]] # "FREE"
      <4>1. \A a \in TransReg : state[specrrt[a]] # "FREE"
        BY <1>1 DEF TablesInv, NoDanglingReference
      <4>2. \A a \in TransReg : specrrt[a] \in PhysReg
        BY <1>1
      <4> QED
        BY <1>6, <4>1, <4>2
    <3>2. u.src[o] \in TransReg /\ ops[o] = specrrt[u.src[o]]
      BY <1>3
    <3> QED
      BY <3>1, <3>2
  <2>2. ops["RS"] \in PhysReg /\ ops["RS"] # p /\ state[ops["RS"]] # "FREE"
    BY <1>3, <1>5
  <2> QED
    BY <2>1, <2>2
<1> HIDE DEF n, m
<1>8. RegistersOwned'
  <2>1. ASSUME NEW i \in 1..m
        PROVE  /\ state'[rob'[i].physreg] \in InFlightState
               /\ \A j \in 1..m : rob'[i].physreg = rob'[j].physreg => i = j
    <3>1. CASE i = m
      <4>1. rob'[i].physreg = p
        BY <1>3, <1>4, <3>1
      <4>2. \A j \in 1..n : rob'[j].physreg # p
        BY <1>4, <1>6
      <4> QED
        BY <1>4, <1>5, <3>1, <4>1, <4>2 DEF InFlightState
    <3>2. CASE i \in 1..n
      <4>1. rob'[i].physreg = rob[i].physreg /\ rob[i].physreg # p /\ rob'[m].physreg = p
        BY <1>3, <1>4, <1>6, <3>2
      <4>2. state[rob[i].physreg] \in InFlightState
            /\ \A j \in 1..n : rob[i].physreg = rob[j].physreg => i = j
        BY <1>1, <3>2 DEF TablesInv, RegistersOwned, n
      <4> QED
        BY <1>1, <1>4, <1>5, <3>2, <4>1, <4>2
    <3> QED
      BY <1>4, <3>1, <3>2
  <2>2. ASSUME NEW q \in PhysReg, state'[q] \in InFlightState PROVE \E i \in 1..m : rob'[i].physreg = q
    <3>1. CASE q = p
      BY <1>3, <1>4, <3>1
    <3>2. CASE q # p
      <4>1. PICK i \in 1..n : rob[i].physreg = q
        BY <1>1, <1>5, <2>2, <3>2 DEF TablesInv, RegistersOwned, n
      <4> QED
        BY <1>4, <4>1
    <3> QED
      BY <3>1, <3>2
  <2>3. ASSUME NEW q \in PhysReg
        PROVE  state'[q] = "ARCH" <=> q = NullReg \/ \E a \in TransReg \ FlagReg : commitrrt'[a] = q
    <3>1. state'[q] = "ARCH" <=> state[q] = "ARCH"
      BY <1>2, <1>5
    <3> QED
      BY <1>1, <1>2, <3>1 DEF TablesInv, RegistersOwned
  <2> QED
    BY <1>4, <2>1, <2>2, <2>3 DEF RegistersOwned
<1>9. RefcountsExact'
  <2> SUFFICES ASSUME NEW q \in PhysReg \ {NullReg}
               PROVE  refcount'[q] = OperandCount(rob', 1..m, q) + RrtCount(spec, q) + RrtCount(commitrrt, q)
    BY <1>2, <1>4 DEF RefcountsExact, References
  <2>1. refcount[q] = OperandCount(rob, 1..n, q) + RrtCount(specrrt, q) + RrtCount(commitrrt, q)
    BY <1>1 DEF TablesInv, RefcountsExact, References, n
  <2>2. EntryRefs(e, q) = Cardinality({o \in Operand : ops[o] = q})
    BY <1>3 DEF EntryRefs
  <2>3. OperandCount(rob', 1..m, q) = OperandCount(rob, 1..n, q) + EntryRefs(rob'[m], q)
    <3>1. m = n + 1 /\ \A j \in 1..n : rob'[j].operands = rob[j].operands
      BY <1>4 DEF m
    <3> QED
      BY <1>1, <3>1, OperandCountAppend
  <2>4. refcount'[q] = refcount[q] + EntryRefs(e, q) + RrtCount(spec, q) - RrtCount(specrrt, q)
    BY <1>2, <2>2
  <2>5. /\ OperandCount(rob, 1..n, q) \in Int /\ EntryRefs(e, q) \in Int /\ RrtCount(spec, q) \in Int
        /\ RrtCount(specrrt, q) \in Int /\ RrtCount(commitrrt, q) \in Int
    BY <1>1, OperandCountInt, EntryRefsInt, RrtCountInt
  <2> HIDE DEF spec
  <2> QED
    BY <1>4, <2>1, <2>3, <2>4, <2>5
<1>10. NoDanglingReference'
  <2>1. ASSUME NEW i \in 1..m, NEW o \in Operand PROVE state'[rob'[i].operands[o]] # "FREE"
    <3>1. CASE i = m
      BY <1>3, <1>4, <1>5, <1>7, <3>1
    <3>2. CASE i \in 1..n
      <4>1. rob[i].operands[o] \in PhysReg /\ state[rob[i].operands[o]] # "FREE" /\ rob[i].operands[o] # p
        BY <1>1, <1>6, <3>2 DEF TablesInv, NoDanglingReference, n
      <4> QED
        BY <1>4, <1>5, <3>2, <4>1
    <3> QED
      BY <1>4, <3>1, <3>2
  <2>2. ASSUME NEW a \in TransReg PROVE state'[spec[a]] # "FREE" /\ state'[commitrrt[a]] # "FREE"
    BY <1>1, <1>5, <1>6 DEF TablesInv, NoDanglingReference
  <2> QED
    BY <1>2, <1>4, <2>1, <2>2 DEF NoDanglingReference
<1>11. RenamingPrecise'
  <2>1. ASSUME NEW k \in 0..n PROVE MapAfter(rob', k, commitrrt) = MapAfter(rob, k, commitrrt)
    <3>1. k \in Nat /\ \A j \in 1..k : rob'[j].uop = rob[j].uop /\ rob'[j].physreg = rob[j].physreg
      BY <1>1, <1>4
    <3> QED
      BY <3>1, MapAfterKept
  <2>2. specrrt = MapAfter(rob, n, commitrrt) /\ n \in 0..n
    BY <1>1 DEF TablesInv, RenamingPrecise, n
  <2>3. ASSUME NEW i \in 1..m, NEW o \in Operand \ {"RS"}
        PROVE  rob'[i].operands[o] = MapAfter(rob', i - 1, commitrrt)[rob'[i].uop.src[o]]
    <3>1. CASE i = m
      <4>1. i - 1 = n
        BY <1>1, <3>1 DEF m
      <4>2. MapAfter(rob', i - 1, commitrrt) = specrrt
        BY <2>1, <2>2, <4>1
      <4>3. rob'[i].operands[o] = specrrt[u.src[o]] /\ rob'[i].uop = u
        BY <1>3, <1>4, <3>1
      <4> QED
        BY <4>2, <4>3
    <3>2. CASE i \in 1..n
      <4>1. rob[i].operands[o] = MapAfter(rob, i - 1, commitrrt)[rob[i].uop.src[o]]
        BY <1>1, <3>2 DEF TablesInv, RenamingPrecise, n
      <4>2. i - 1 \in 0..n
        BY <1>1, <3>2
      <4>3. MapAfter(rob', i - 1, commitrrt) = MapAfter(rob, i - 1, commitrrt)
        BY <2>1, <4>2
      <4> QED
        BY <1>4, <3>2, <4>1, <4>3
    <3> QED
      BY <1>4, <3>1, <3>2
  <2>4. spec = MapAfter(rob', m, commitrrt)
    <3>1. MapAfter(rob', m, commitrrt) =
            [a \in TransReg |-> IF a \in Dests(rob'[m].uop) THEN rob'[m].physreg
                                ELSE MapAfter(rob', n, commitrrt)[a]]
      <4>1. n \in Nat /\ m \in Nat /\ m = n + 1
        BY <1>1 DEF m
      <4> QED
        BY <4>1, MapAfterLast
    <3>2. MapAfter(rob', n, commitrrt) = specrrt
      BY <2>1, <2>2
    <3>3. rob'[m].uop = u /\ rob'[m].physreg = p
      BY <1>3, <1>4
    <3> QED
      BY <3>1, <3>2, <3>3
  <2> QED
    BY <1>2, <1>4, <2>3, <2>4 DEF RenamingPrecise
<1>12. ProducersOlder'
  <2> SUFFICES ASSUME NEW i \in 1..m, NEW o \in Operand, state'[rob'[i].operands[o]] \in InFlightState
               PROVE  \E j \in 1..(i - 1) : rob'[j].physreg = rob'[i].operands[o]
    BY <1>4 DEF ProducersOlder
  <2>1. CASE i = m
    <3>1. rob'[i].operands[o] = ops[o] /\ state[ops[o]] \in InFlightState
      BY <1>3, <1>4, <1>5, <1>7, <2>1
    <3>2. o # "RS"
      BY <1>3, <1>5, <3>1 DEF InFlightState
    <3>3. u.src[o] \in TransReg /\ ops[o] = specrrt[u.src[o]] /\ specrrt = MapAfter(rob, n, commitrrt)
      BY <1>1, <1>3, <3>2 DEF TablesInv, RenamingPrecise, n
    <3>4. \/ ops[o] = commitrrt[u.src[o]]
          \/ \E j \in 1..n : ops[o] = rob[j].physreg
      <4>1. n \in Nat /\ u.src[o] \in TransReg
        BY <1>1, <3>3
      <4>2. \/ MapAfter(rob, n, commitrrt)[u.src[o]] = commitrrt[u.src[o]]
            \/ \E j \in 1..n : MapAfter(rob, n, commitrrt)[u.src[o]] = rob[j].physreg
        BY <4>1, MapAfterSource
      <4> QED
        BY <3>3, <4>2
    <3>5. ops[o] # commitrrt[u.src[o]]
      BY <1>1, <3>1, <3>3 DEF TablesInv, CommittedRegisters, InFlightState
    <3>6. PICK j \in 1..n : ops[o] = rob[j].physreg
      BY <3>4, <3>5
    <3>7. j \in 1..(i - 1)
      BY <1>1, <2>1 DEF m
    <3> QED
      BY <1>4, <3>1, <3>6, <3>7
  <2>2. CASE i \in 1..n
    <3>1. /\ rob'[i].operands[o] = rob[i].operands[o] /\ rob[i].operands[o] # p
          /\ rob[i].operands[o] \in PhysReg
      BY <1>1, <1>4, <1>6, <2>2
    <3>2. state[rob[i].operands[o]] \in InFlightState
      BY <1>5, <3>1
    <3>3. PICK j \in 1..(i - 1) : rob[j].physreg = rob[i].operands[o]
      BY <1>1, <2>2, <3>2 DEF TablesInv, ProducersOlder, n
    <3>4. j \in 1..n
      BY <1>1, <2>2
    <3> QED
      BY <1>4, <3>1, <3>3, <3>4
  <2> QED
    BY <1>4, <2>1, <2>2
<1>13. CommittedRegisters'
  BY <1>1, <1>2, <1>5, <1>6 DEF TablesInv, CommittedRegisters
<1>14. RsUnset'
  <2>1. e.operands["RS"] = NullReg
    BY <1>3
  <2> QED
    BY <1>1, <1>4, <2>1 DEF RsUnset, n
<1> QED
  BY <1>8, <1>9, <1>10, <1>11, <1>12, <1>13, <1>14 DEF TablesInv

-----------------------------------------------------------------------------
(***************************************************************************)
(* annul(): nothing that stays refers to a register of the entries that    *)
(* are dropped, since they are the youngest.  r is the ROB, an entry of    *)
(* which may have issued.                                                  *)
(***************************************************************************)
SameEntries(r) ==
  /\ Len(r) = Len(rob)
  /\ \A j \in 1..Len(rob) :
       /\ r[j].uop = rob[j].uop /\ r[j].physreg = rob[j].physreg
       /\ r[j].operands = rob[j].operands
       /\ r[j].list \in {"frontend", "ready_to_dispatch"} => r[j].list = rob[j].list

LEMMA AnnulRefs ==
  ASSUME RefInv, NEW r \in Seq(RobEntry), SameEntries(r),
         NEW k \in 0..Len(rob), AnnulAfter(r, k), UNCHANGED commitrrt
  PROVE  TablesInv' /\ RsUnset'
<1> DEFINE n == Len(rob)
           d == k + 1
           freed == {r[j].physreg : j \in d..n}
           spec == MapAfter(r, k, commitrrt)
<1>1. /\ RobInv /\ TablesInv /\ RsUnset /\ rob \in Seq(RobEntry) /\ n \in Nat
      /\ \A i \in 1..n : rob[i].physreg \in PhysReg /\ \A o \in Operand : rob[i].operands[o] \in PhysReg
      /\ refcount \in [PhysReg -> Int] /\ state \in [PhysReg -> PhysRegState]
      /\ specrrt \in [TransReg -> PhysReg] /\ commitrrt \in [TransReg -> PhysReg]
  BY RobFacts DEF RefInv
<1>2. rob' = SubSeq(r, 1, k) /\ commitrrt' = commitrrt
  BY DEF AnnulAfter
<1>3. /\ Len(rob') = k /\ \A j \in 1..k : rob'[j] = r[j]
      /\ k \in Nat /\ \A j \in 1..k : j \in 1..n
  BY <1>1, <1>2, SubSeqProperties DEF SameEntries
<1>4. \A j \in 1..k : /\ rob'[j].uop = rob[j].uop /\ rob'[j].physreg = rob[j].physreg
                      /\ rob'[j].operands = rob[j].operands
                      /\ rob'[j].list \in {"frontend", "ready_to_dispatch"} => rob'[j].list = rob[j].list
  BY <1>3 DEF SameEntries
<1>5. RsUnset'
  BY <1>1, <1>3, <1>4 DEF RsUnset, n
<1>6. CASE k = Len(r)
  <2>1. UNCHANGED <<specrrt, state, refcount>> /\ k = n
    BY <1>6 DEF AnnulAfter, n, SameEntries
  <2>2. ASSUME NEW q \in PhysReg \ {NullReg}
        PROVE  refcount'[q] = refcount[q] - OperandCount(rob, 1..Len(rob), q) + OperandCount(rob', 1..Len(rob), q)
    <3>1. \A j \in 1..Len(rob) : rob'[j].operands = rob[j].operands
      BY <1>4, <2>1 DEF n
    <3>2. OperandCount(rob', 1..Len(rob), q) = OperandCount(rob, 1..Len(rob), q)
      <4>1. Len(rob) \in Nat
        BY <1>1
      <4> QED
        BY <3>1, <4>1, OperandCountSame
    <3>3. refcount[q] \in Int
      BY <1>1
    <3>4. OperandCount(rob, 1..Len(rob), q) \in Nat
      BY <1>1, ReferencesZero
    <3> QED
      BY <2>1, <3>2, <3>3, <3>4
  <2>3. Len(rob') = Len(rob) /\
        \A j \in 1..Len(rob) :
           /\ rob'[j].uop = rob[j].uop /\ rob'[j].physreg = rob[j].physreg
           /\ \A o \in Operand \ {"RS"} : rob'[j].operands[o] = rob[j].operands[o]
           /\ rob'[j].operands["RS"] \in {rob[j].operands["RS"], NullReg}
    BY <1>3, <1>4, <2>1 DEF n
  <2>4. TablesInv'
    BY <1>1, <1>2, <2>1, <2>2, <2>3, EntriesStay
  <2> QED
    BY <1>5, <2>4
<1>7. CASE k # Len(r)
  <2>1. /\ specrrt' = spec
        /\ state' = [q \in PhysReg |-> IF q \in freed THEN "FREE" ELSE state[q]]
        /\ refcount' = [q \in PhysReg |->
             IF q \in freed THEN 0
             ELSE refcount[q] - RrtCount(specrrt, q) + RrtCount(spec, q) - OperandCount(r, d..n, q)]
    BY <1>7 DEF AnnulAfter, PseudoCommit, SameEntries
  <2>2. spec = MapAfter(rob, k, commitrrt)
    <3>1. \A j \in 1..k : r[j].uop = rob[j].uop /\ r[j].physreg = rob[j].physreg
      BY <1>3 DEF n, SameEntries
    <3>2. k \in Nat
      BY <1>3
    <3> QED
      BY <3>1, <3>2, MapAfterSame
  <2>3. \A a \in TransReg : spec[a] = commitrrt[a] \/ \E j \in 1..k : spec[a] = rob[j].physreg
    BY <1>3, <2>2, MapAfterSource
  <2>4. ASSUME NEW q \in freed
        PROVE  /\ q \in PhysReg /\ state[q] \in InFlightState
               /\ \A j \in 1..k : rob[j].physreg # q
               /\ \A a \in TransReg : commitrrt[a] # q
               /\ \A i \in 1..k : \A o \in Operand : rob[i].operands[o] # q
    <3>1. PICK j \in d..n : q = r[j].physreg
      OBVIOUS
    <3>2. j \in 1..n /\ q = rob[j].physreg /\ \A i \in 1..k : i # j
      BY <1>1, <1>3, <3>1 DEF SameEntries
    <3>3. state[q] \in InFlightState
      BY <1>1, <3>2 DEF TablesInv, RegistersOwned, n
    <3>4. \A i \in 1..k : rob[i].physreg # q
      BY <1>1, <1>3, <3>2 DEF TablesInv, RegistersOwned, n
    <3>5. \A a \in TransReg : commitrrt[a] # q
      BY <1>1, <3>3 DEF TablesInv, CommittedRegisters, InFlightState
    <3>6. ASSUME NEW i \in 1..k, NEW o \in Operand, rob[i].operands[o] = q PROVE FALSE
      <4>1. PICK h \in 1..(i - 1) : rob[h].physreg = q
        BY <1>1, <1>3, <3>3, <3>6 DEF TablesInv, ProducersOlder, n
      <4>2. h \in 1..k
        BY <1>3
      <4> QED
        BY <3>4, <4>1, <4>2
    <3> QED
      BY <1>1, <3>2, <3>3, <3>4, <3>5, <3>6
  <2>5. \A a \in TransReg : spec[a] \notin freed /\ commitrrt[a] \notin freed
    BY <2>3, <2>4
  <2>6. \A i \in 1..k : rob[i].physreg \notin freed /\ \A o \in Operand : rob[i].operands[o] \notin freed
    BY <2>4
  <2>7. ASSUME NEW j \in d..n PROVE j \in 1..n /\ rob[j].physreg \in freed
    <3>1. j \in 1..n
      BY <1>1, <1>3
    <3>2. r[j].physreg = rob[j].physreg
      BY <3>1 DEF SameEntries
    <3> QED
      BY <3>1, <3>2
  <2>8. \A j \in 1..n : j \in 1..k \/ j \in d..n
    BY <1>1, <1>3
  <2>9. \A q \in PhysReg : q \notin freed => state'[q] = state[q]
    BY <2>1
  <2>10. \A q \in freed : state'[q] = "FREE"
    BY <2>1, <2>4
  <2> HIDE DEF freed, n
  <2>11. RegistersOwned'
    <3>1. ASSUME NEW i \in 1..k
          PROVE  /\ state'[rob'[i].physreg] \in InFlightState
                 /\ \A j \in 1..k : rob'[i].physreg = rob'[j].physreg => i = j
      <4>1. i \in 1..n /\ rob'[i].physreg = rob[i].physreg /\ rob[i].physreg \in PhysReg
        BY <1>1, <1>3, <1>4
      <4>2. /\ state[rob[i].physreg] \in InFlightState
            /\ \A j \in 1..n : rob[i].physreg = rob[j].physreg => i = j
        BY <1>1, <4>1 DEF TablesInv, RegistersOwned, n
      <4>3. state'[rob[i].physreg] = state[rob[i].physreg]
        BY <2>6, <2>9, <4>1
      <4> QED
        BY <1>3, <1>4, <4>1, <4>2, <4>3
    <3>2. ASSUME NEW q \in PhysReg, state'[q] \in InFlightState PROVE \E i \in 1..k : rob'[i].physreg = q
      <4>1. q \notin freed
        BY <2>10, <3>2 DEF InFlightState
      <4>2. PICK i \in 1..n : rob[i].physreg = q
        BY <1>1, <2>9, <3>2, <4>1 DEF TablesInv, RegistersOwned, n
      <4>3. i \in 1..k
        BY <2>7, <2>8, <4>1, <4>2
      <4> QED
        BY <1>4, <4>2, <4>3
    <3>3. ASSUME NEW q \in PhysReg
          PROVE  state'[q] = "ARCH" <=> q = NullReg \/ \E a \in TransReg \ FlagReg : commitrrt[a] = q
      <4>1. state'[q] = "ARCH" <=> state[q] = "ARCH"
        <5>1. CASE q \in freed
          BY <2>4, <2>10, <5>1 DEF InFlightState
        <5>2. CASE q \notin freed
          BY <2>9, <5>2
        <5> QED
          BY <5>1, <5>2
      <4> QED
        BY <1>1, <4>1 DEF TablesInv, RegistersOwned
    <3> QED
      BY <1>2, <1>3, <3>1, <3>2, <3>3 DEF RegistersOwned
  <2>12. RefcountsExact'
    <3> SUFFICES ASSUME NEW q \in PhysReg \ {NullReg}
                 PROVE  refcount'[q] = OperandCount(rob', 1..k, q) + RrtCount(spec, q) + RrtCount(commitrrt, q)
      BY <1>2, <1>3, <2>1 DEF RefcountsExact, References
    <3>1. IsFiniteSet(1..k)
      <4>1. k \in Int
        BY <1>3
      <4> QED
        BY <4>1, FS_Interval
    <3>2. CASE q \in freed
      <4>1. RrtCount(spec, q) = 0 /\ RrtCount(commitrrt, q) = 0
        <5> HIDE DEF spec
        <5> QED
          BY <2>5, <3>2, RrtCountZero
      <4>2. \A i \in 1..k : \A o \in Operand : rob'[i].operands[o] # q
        BY <1>4, <2>6, <3>2
      <4>3. OperandCount(rob', 1..k, q) = 0
        BY <3>1, <4>2, OperandCountZero
      <4>4. refcount'[q] = 0
        BY <2>1, <3>2
      <4> QED
        BY <4>1, <4>3, <4>4
    <3>3. CASE q \notin freed
      <4>1. refcount'[q] = refcount[q] - RrtCount(specrrt, q) + RrtCount(spec, q) - OperandCount(r, d..n, q)
        BY <2>1, <3>3
      <4>2. refcount[q] = OperandCount(rob, 1..n, q) + RrtCount(specrrt, q) + RrtCount(commitrrt, q)
        BY <1>1 DEF TablesInv, RefcountsExact, References, n
      <4>3. OperandCount(r, 1..n, q) = OperandCount(rob, 1..n, q)
        <5>1. \A j \in 1..n : r[j].operands = rob[j].operands
          BY DEF n, SameEntries
        <5>2. n \in Nat
          BY <1>1
        <5> QED
          BY <5>1, <5>2, OperandCountSame
      <4>4. OperandCount(r, 1..n, q) = OperandCount(rob', 1..k, q) + OperandCount(r, d..n, q)
        <5>1. k \in 0..n /\ d \in Nat /\ d = k + 1 /\ \A j \in 1..k : rob'[j].operands = r[j].operands
          BY <1>3 DEF n
        <5>2. n \in Nat
          BY <1>1
        <5> HIDE DEF d
        <5> QED
          BY <5>1, <5>2, OperandCountCut
      <4>5. /\ OperandCount(rob', 1..k, q) \in Int /\ OperandCount(r, d..n, q) \in Int
            /\ RrtCount(specrrt, q) \in Int /\ RrtCount(spec, q) \in Int /\ RrtCount(commitrrt, q) \in Int
        <5>1. d \in Int /\ n \in Int /\ k \in Int
          BY <1>1, <1>3
        <5> HIDE DEF spec, d
        <5> QED
          BY <5>1, OperandCountInt, RrtCountInt
      <4> HIDE DEF spec, d
      <4> QED
        BY <4>1, <4>2, <4>3, <4>4, <4>5
    <3> QED
      BY <3>2, <3>3
  <2>13. NoDanglingReference'
    <3>1. ASSUME NEW i \in 1..k, NEW o \in Operand PROVE state'[rob'[i].operands[o]] # "FREE"
      <4>1. i \in 1..n /\ rob'[i].operands = rob[i].operands /\ rob[i].operands[o] \in PhysReg
        BY <1>1, <1>3, <1>4
      <4>2. state[rob[i].operands[o]] # "FREE"
        BY <1>1, <4>1 DEF TablesInv, NoDanglingReference, n
      <4> QED
        BY <2>6, <2>9, <4>1, <4>2
    <3>2. ASSUME NEW a \in TransReg PROVE state'[spec[a]] # "FREE" /\ state'[commitrrt[a]] # "FREE"
      <4>1. state'[commitrrt[a]] # "FREE"
        BY <1>1, <2>5, <2>9 DEF TablesInv, NoDanglingReference
      <4>2. CASE spec[a] = commitrrt[a]
        BY <4>1, <4>2
      <4>3. ASSUME NEW j \in 1..k, spec[a] = rob[j].physreg PROVE state'[spec[a]] # "FREE"
        <5>1. j \in 1..n /\ rob[j].physreg \in PhysReg
          BY <1>1, <1>3
        <5>2. state[rob[j].physreg] \in InFlightState
          BY <1>1, <5>1 DEF TablesInv, RegistersOwned, n
        <5>3. state'[rob[j].physreg] = state[rob[j].physreg]
          BY <2>6, <2>9, <5>1
        <5> QED
          BY <4>3, <5>2, <5>3 DEF InFlightState
      <4> QED
        BY <2>3, <4>1, <4>2, <4>3
    <3> QED
      BY <1>2, <1>3, <2>1, <3>1, <3>2 DEF NoDanglingReference
  <2>14. RenamingPrecise'
    <3>1. ASSUME NEW h \in 0..k PROVE MapAfter(rob', h, commitrrt) = MapAfter(rob, h, commitrrt)
      <4>1. h \in Nat /\ \A j \in 1..h : rob'[j].uop = rob[j].uop /\ rob'[j].physreg = rob[j].physreg
        BY <1>3, <1>4
      <4> QED
        BY <4>1, MapAfterKept
    <3>2. ASSUME NEW i \in 1..k, NEW o \in Operand \ {"RS"}
          PROVE  rob'[i].operands[o] = MapAfter(rob', i - 1, commitrrt)[rob'[i].uop.src[o]]
      <4>1. rob[i].operands[o] = MapAfter(rob, i - 1, commitrrt)[rob[i].uop.src[o]]
        BY <1>1, <1>3 DEF TablesInv, RenamingPrecise, n
      <4>2. i - 1 \in 0..k
        BY <1>3
      <4>3. MapAfter(rob', i - 1, commitrrt) = MapAfter(rob, i - 1, commitrrt)
        BY <3>1, <4>2
      <4> QED
        BY <1>4, <4>1, <4>3
    <3>3. specrrt' = MapAfter(rob', k, commitrrt)
      <4>1. k \in 0..k
        BY <1>3
      <4> QED
        BY <2>1, <2>2, <3>1, <4>1
    <3> QED
      BY <1>2, <1>3, <3>2, <3>3 DEF RenamingPrecise
  <2>15. ProducersOlder'
    <3> SUFFICES ASSUME NEW i \in 1..k, NEW o \in Operand, state'[rob'[i].operands[o]] \in InFlightState
                 PROVE  \E j \in 1..(i - 1) : rob'[j].physreg = rob'[i].operands[o]
      BY <1>3 DEF ProducersOlder
    <3>1. rob'[i].operands[o] = rob[i].operands[o] /\ state[rob[i].operands[o]] \in InFlightState
      BY <1>1, <1>3, <1>4, <2>6, <2>9
    <3>2. PICK j \in 1..(i - 1) : rob[j].physreg = rob[i].operands[o]
      BY <1>1, <1>3, <3>1 DEF TablesInv, ProducersOlder, n
    <3>3. j \in 1..k
      BY <1>3
    <3> QED
      BY <1>4, <3>1, <3>2, <3>3
  <2>16. CommittedRegisters'
    BY <1>1, <1>2, <2>5, <2>9 DEF TablesInv, CommittedRegisters
  <2> QED
    BY <1>5, <2>11, <2>12, <2>13, <2>14, <2>15, <2>16 DEF TablesInv
<1> QED
  BY <1>6, <1>7

LEMMA MispredictRefs ==
  ASSUME RefInv, NEW i \in 1..Len(rob), Mispredict(i)
  PROVE  TablesInv' /\ RsUnset'
<1> DEFINE e == [rob[i] EXCEPT !.list = "issued"]
           r == [rob EXCEPT ![i] = e]
<1>1. /\ rob \in Seq(RobEntry) /\ Len(rob) \in Nat /\ rob[i] \in RobEntry
      /\ rob[i].list = "dispatched"
  BY RobFacts DEF RefInv, Mispredict, Issuable
<1>2. /\ e \in RobEntry /\ e.uop = rob[i].uop /\ e.physreg = rob[i].physreg
      /\ e.operands = rob[i].operands /\ e.list = "issued"
  BY <1>1 DEF RobEntry, RobList
<1>3. [rob EXCEPT ![i].list = "issued"] = r
  OBVIOUS
<1> HIDE DEF e
<1>4. r \in Seq(RobEntry) /\ Len(r) = Len(rob) /\ \A j \in 1..Len(rob) : r[j] = IF j = i THEN e ELSE rob[j]
  BY <1>1, <1>2, EntryBecomes
<1> HIDE DEF r
<1>5. SameEntries(r)
  BY <1>1, <1>2, <1>4 DEF SameEntries
<1>6. AnnulAfter(r, i) /\ UNCHANGED commitrrt
  BY <1>3 DEF Mispredict
<1>7. i \in 0..Len(rob)
  BY <1>1
<1> QED
  BY <1>4, <1>5, <1>6, <1>7, AnnulRefs

LEMMA RefetchRefs ==
  ASSUME RefInv, NEW i \in 1..Len(rob), Refetch(i)
  PROVE  TablesInv' /\ RsUnset'
<1> DEFINE k == SomOf(i) - 1
<1>1. RobInv /\ rob \in Seq(RobEntry) /\ Len(rob) \in Nat /\ rob[i].list = "dispatched"
  BY RobFacts DEF RefInv, Refetch, Issuable
<1>2. SomOf(i) \in 1..i
  BY <1>1, SomFound DEF Late
<1>3. k \in 0..Len(rob)
  BY <1>1, <1>2
<1>4. SameEntries(rob)
  BY DEF SameEntries
<1>5. AnnulAfter(rob, k) /\ UNCHANGED commitrrt
  BY DEF Refetch
<1> HIDE DEF k
<1> QED
  BY <1>1, <1>3, <1>4, <1>5, AnnulRefs

-----------------------------------------------------------------------------
(***************************************************************************)
(* external_to_core_state(): the table every flush restarts from maps each *)
(* register but REG_zero, the temporaries and the flags to a register of   *)
(* its own.                                                                *)
(***************************************************************************)
LEMMA ResetMapFacts ==
  /\ ResetMap \in [TransReg -> PhysReg]
  /\ \A a \in TransReg \ FlagReg : ResetMap[a] # NullReg => a \in ArchReg \ {ZeroReg}
  /\ \A a, b \in TransReg \ FlagReg : ResetMap[a] = ResetMap[b] /\ ResetMap[a] # NullReg => a = b
  /\ \A a \in FlagReg : ResetMap[a] = ResetMap[FlagsReg]
  /\ ResetMap[ZeroReg] = NullReg
<1>1. IsResetMap(ArchMap)
  BY ResetAssumption DEF ArchMap
<1>2. /\ {ZeroReg, FlagsReg} \subseteq ArchReg /\ NullReg \in PhysReg
      /\ ArchReg \cap TempReg = {} /\ ArchReg \cap FlagReg = {} /\ TempReg \cap FlagReg = {}
  BY RegAssumption
<1>3. /\ \A a \in ArchReg : ResetMap[a] = ArchMap[a]
      /\ \A a \in FlagReg : ResetMap[a] = ArchMap[FlagsReg]
      /\ \A a \in TempReg : ResetMap[a] = NullReg
  BY <1>2 DEF ResetMap, TransReg
<1>4. \A a \in TransReg \ FlagReg : a \in ArchReg \/ a \in TempReg
  BY DEF TransReg
<1>5. \A a, b \in ArchReg : ArchMap[a] = ArchMap[b] /\ ArchMap[a] # NullReg => a = b
  BY <1>1 DEF IsResetMap
<1>6. ArchMap[ZeroReg] = NullReg
  BY <1>1 DEF IsResetMap
<1>7. \A a \in TransReg \ FlagReg : ResetMap[a] # NullReg => a \in ArchReg \ {ZeroReg}
  BY <1>3, <1>4, <1>6
<1>8. ASSUME NEW a \in TransReg \ FlagReg, NEW b \in TransReg \ FlagReg,
             ResetMap[a] = ResetMap[b], ResetMap[a] # NullReg
      PROVE  a = b
  <2>1. a \in ArchReg /\ b \in ArchReg
    BY <1>7, <1>8
  <2> QED
    BY <1>3, <1>5, <1>8, <2>1
<1> QED
  BY <1>2, <1>3, <1>6, <1>7, <1>8, ResetMapType

\* flush_pipeline() and the initial state: an empty ROB over two copies of that table.
ResetState ==
  /\ rob = << >> /\ specrrt = ResetMap /\ commitrrt = ResetMap
  /\ state = [p \in PhysReg |-> IF p \in ResetRegs THEN "ARCH" ELSE "FREE"]
  /\ refcount = [p \in PhysReg |-> 2 * RrtCount(ResetMap, p) + (IF p = NullReg THEN 1 ELSE 0)]

LEMMA ResetRefs == ResetState => TablesInv /\ RsUnset
<1> SUFFICES ASSUME ResetState PROVE TablesInv /\ RsUnset
  OBVIOUS
<1>0. /\ rob = << >> /\ specrrt = ResetMap /\ commitrrt = ResetMap
      /\ state = [p \in PhysReg |-> IF p \in ResetRegs THEN "ARCH" ELSE "FREE"]
      /\ refcount = [p \in PhysReg |-> 2 * RrtCount(ResetMap, p) + (IF p = NullReg THEN 1 ELSE 0)]
  BY DEF ResetState
<1> USE <1>0
<1>1. Len(rob) = 0 /\ \A i \in 1..Len(rob) : FALSE
  OBVIOUS
<1>2. /\ ResetMap \in [TransReg -> PhysReg] /\ ZeroReg \in TransReg \ FlagReg /\ FlagsReg \in TransReg \ FlagReg
      /\ NullReg \in PhysReg
  BY ResetMapFacts, RegAssumption DEF TransReg
<1>3. \A a \in TransReg : ResetMap[a] \in ResetRegs
  BY DEF ResetRegs
<1>4. ASSUME NEW p \in PhysReg
      PROVE  p \in ResetRegs <=> p = NullReg \/ \E a \in TransReg \ FlagReg : ResetMap[a] = p
  <2>1. ASSUME p \in ResetRegs PROVE \E a \in TransReg \ FlagReg : ResetMap[a] = p
    <3>1. PICK a \in TransReg : ResetMap[a] = p
      BY <2>1 DEF ResetRegs
    <3>2. CASE a \in FlagReg
      BY <1>2, <3>1, <3>2, ResetMapFacts
    <3>3. CASE a \notin FlagReg
      BY <3>1, <3>3
    <3> QED
      BY <3>2, <3>3
  <2>2. NullReg \in ResetRegs
    BY <1>2, <1>3, ResetMapFacts
  <2> QED
    BY <1>3, <2>1, <2>2
<1>5. RegistersOwned
  BY <1>1, <1>4 DEF RegistersOwned, InFlightState
<1>6. RefcountsExact
  <2> SUFFICES ASSUME NEW p \in PhysReg \ {NullReg}
               PROVE  refcount[p] = OperandCount(rob, 1..Len(rob), p) + RrtCount(ResetMap, p) + RrtCount(ResetMap, p)
    BY DEF RefcountsExact, References
  <2>1. OperandCount(rob, 1..Len(rob), p) = 0
    <3>1. IsFiniteSet(1..Len(rob))
      <4>1. 1 \in Int /\ Len(rob) \in Int
        BY <1>1
      <4> QED
        BY <4>1, FS_Interval
    <3> QED
      BY <1>1, <3>1, OperandCountZero
  <2>2. refcount[p] = 2 * RrtCount(ResetMap, p) + 0
    OBVIOUS
  <2>3. RrtCount(ResetMap, p) \in Int
    BY RrtCountInt
  <2> QED
    BY <2>1, <2>2, <2>3
<1>7. NoDanglingReference
  BY <1>1, <1>2, <1>3 DEF NoDanglingReference
<1>8. RenamingPrecise
  <2>1. MapAfter(rob, 0, commitrrt) = commitrrt
    <3>1. \A a \in TransReg : Writers(rob, 0, a) = {}
      BY DEF Writers
    <3> QED
      BY <1>2, <3>1 DEF MapAfter
  <2> QED
    BY <1>1, <2>1 DEF RenamingPrecise
<1>9. ProducersOlder
  BY <1>1 DEF ProducersOlder
<1>10. CommittedRegisters
  BY <1>2, <1>3, ResetMapFacts DEF CommittedRegisters
<1> QED
  BY <1>1, <1>5, <1>6, <1>7, <1>8, <1>9, <1>10 DEF TablesInv, RsUnset

LEMMA FlushRefs == FlushPipeline => TablesInv' /\ RsUnset'
<1>1. FlushPipeline => ResetState'
  BY DEF FlushPipeline, ExternalToCoreState, ResetState
<1>2. (ResetState => TablesInv /\ RsUnset)'
  BY ResetRefs, PTL
<1> QED
  BY <1>1, <1>2

(***************************************************************************)
(* The recycling at the beginning of commit(): a pending register whose    *)
(* count is not positive has no reference left.                            *)
(***************************************************************************)
LEMMA RecycleRefs ==
  ASSUME RefInv, UNCHANGED <<specrrt, commitrrt, rob>>,
         state' = [p \in PhysReg |-> IF Recyclable(p) THEN "FREE" ELSE state[p]],
         refcount' = [p \in PhysReg |-> IF Recyclable(p) THEN 0 ELSE refcount[p]]
  PROVE  /\ TablesInv' /\ RsUnset'
         /\ \A p \in PhysReg : state'[p] = "PENDINGFREE" => refcount'[p] > 0
<1>1. /\ RobInv /\ TablesInv /\ RsUnset
      /\ \A i \in 1..Len(rob) : /\ rob[i].physreg \in PhysReg
                                /\ \A o \in Operand : rob[i].operands[o] \in PhysReg
      /\ refcount \in [PhysReg -> Int] /\ state \in [PhysReg -> PhysRegState]
      /\ specrrt \in [TransReg -> PhysReg] /\ commitrrt \in [TransReg -> PhysReg]
  BY RobFacts DEF RefInv
<1>2. state[NullReg] = "ARCH" /\ NullReg \in PhysReg
  BY <1>1, NullArch DEF TablesInv
<1>3. ASSUME NEW p \in PhysReg, Recyclable(p)
      PROVE  /\ state[p] = "PENDINGFREE" /\ state'[p] = "FREE" /\ refcount'[p] = 0 /\ References(p) = 0
             /\ \A i \in 1..Len(rob) : \A o \in Operand : rob[i].operands[o] # p
             /\ \A a \in TransReg : specrrt[a] # p /\ commitrrt[a] # p
  <2>1. state[p] = "PENDINGFREE" /\ refcount[p] <= 0 /\ state'[p] = "FREE" /\ refcount'[p] = 0
    BY <1>3 DEF Recyclable
  <2>2. refcount[p] = References(p)
    BY <1>1, <1>2, <2>1 DEF TablesInv, RefcountsExact
  <2>3. References(p) \in Nat
    BY <1>1, ReferencesZero
  <2>4. References(p) = 0
    BY <2>1, <2>2, <2>3
  <2> QED
    BY <1>1, <2>1, <2>4, ReferencesZero
<1>4. ASSUME NEW p \in PhysReg, ~Recyclable(p)
      PROVE  state'[p] = state[p] /\ refcount'[p] = refcount[p]
  BY <1>4
<1>5. ASSUME NEW p \in PhysReg
      PROVE  /\ \A x \in PhysRegState \ {"FREE", "PENDINGFREE"} : state'[p] = x <=> state[p] = x
             /\ state'[p] = "FREE" => state[p] = "FREE" \/ Recyclable(p)
  BY <1>3, <1>4 DEF PhysRegState
<1>6. \A p \in PhysReg : /\ state'[p] \in InFlightState <=> state[p] \in InFlightState
                         /\ state'[p] = "ARCH" <=> state[p] = "ARCH"
  BY <1>5 DEF InFlightState, PhysRegState
<1>7. RegistersOwned'
  <2>1. \A i \in 1..Len(rob) : state'[rob[i].physreg] \in InFlightState
    BY <1>1, <1>6 DEF TablesInv, RegistersOwned
  <2> QED
    BY <1>1, <1>6, <2>1 DEF TablesInv, RegistersOwned
<1>8. RefcountsExact'
  <2> SUFFICES ASSUME NEW p \in PhysReg \ {NullReg} PROVE refcount'[p] = References(p)
    BY DEF RefcountsExact, References
  <2>1. refcount[p] = References(p)
    BY <1>1 DEF TablesInv, RefcountsExact
  <2> QED
    BY <1>3, <1>4, <2>1
<1>9. NoDanglingReference'
  <2>1. \A i \in 1..Len(rob) : \A o \in Operand : state'[rob[i].operands[o]] # "FREE"
    BY <1>1, <1>3, <1>5 DEF TablesInv, NoDanglingReference
  <2>2. \A a \in TransReg : state'[specrrt[a]] # "FREE" /\ state'[commitrrt[a]] # "FREE"
    BY <1>1, <1>3, <1>5 DEF TablesInv, NoDanglingReference
  <2> QED
    BY <2>1, <2>2 DEF NoDanglingReference
<1>10. RenamingPrecise'
  BY <1>1 DEF TablesInv, RenamingPrecise
<1>11. ProducersOlder'
  BY <1>1, <1>6 DEF TablesInv, ProducersOlder
<1>12. CommittedRegisters'
  BY <1>1, <1>3, <1>4 DEF TablesInv, CommittedRegisters
<1>13. RsUnset'
  BY <1>1 DEF RsUnset
<1>14. ASSUME NEW p \in PhysReg, state'[p] = "PENDINGFREE" PROVE refcount'[p] > 0
  <2>1. ~Recyclable(p) /\ state[p] = "PENDINGFREE" /\ refcount'[p] = refcount[p]
    BY <1>3, <1>4, <1>14
  <2>2. refcount[p] \in Int /\ ~(refcount[p] <= 0)
    BY <1>1, <2>1 DEF Recyclable
  <2> QED
    BY <2>1, <2>2
<1> QED
  BY <1>7, <1>8, <1>9, <1>10, <1>11, <1>12, <1>13, <1>14 DEF TablesInv

-----------------------------------------------------------------------------
(***************************************************************************)
(* commit() of the uop at the head: its register takes the place of the    *)
(* old mapping of rd, which no other register maps to; if that one is      *)
(* freed at once, its count, which already is without the mapping, shows   *)
(* that nothing else refers to it.                                         *)
(***************************************************************************)
LEMMA CommitUopRefs == ASSUME RefInv, CommitUop PROVE TablesInv' /\ RsUnset'
<1> DEFINE e == rob[1]
           m == Len(rob)
           n == m - 1
           old == commitrrt[e.uop.rd]
           com == CommittedMap(e)
           owned(q) == refcount[q] + RrtCount(com, q) - RrtCount(commitrrt, q)
           frees == old # NullReg /\ owned(old) <= 0
<1>1. /\ RobInv /\ TablesInv /\ RsUnset /\ rob \in Seq(RobEntry) /\ m \in Nat
      /\ \A i \in 1..m : /\ rob[i].uop \in Uop /\ rob[i].physreg \in PhysReg
                         /\ \A o \in Operand : rob[i].operands[o] \in PhysReg
      /\ refcount \in [PhysReg -> Int] /\ state \in [PhysReg -> PhysRegState]
      /\ specrrt \in [TransReg -> PhysReg] /\ commitrrt \in [TransReg -> PhysReg]
  BY RobFacts DEF RefInv
<1>2. rob # << >>
  BY DEF CommitUop, CommitContinues
<1>3. /\ n \in Nat /\ m = n + 1 /\ 1 \in 1..m /\ Head(rob) = e
      /\ Len(Tail(rob)) = n /\ \A j \in 1..n : Tail(rob)[j] = rob[j + 1] /\ j + 1 \in 1..m /\ j + 1 # 1
  BY <1>1, <1>2
<1>4. /\ e.uop \in Uop /\ e.physreg \in PhysReg /\ e.uop.rd \in TransReg \ FlagReg
      /\ e.uop.setflags \subseteq FlagReg
      /\ old \in PhysReg
  <2>1. e.uop \in Uop /\ e.physreg \in PhysReg
    BY <1>1, <1>3
  <2>2. e.uop.rd \in TransReg \ FlagReg /\ e.uop.setflags \subseteq FlagReg
    BY <2>1, UopAssumption DEF UopType
  <2> QED
    BY <1>1, <2>1, <2>2
<1>5. /\ rob' = Tail(rob) /\ commitrrt' = com /\ specrrt' = specrrt
      /\ state' = CommittedState(e, old, frees)
      /\ \A q \in PhysReg : refcount'[q] = (IF q = old /\ frees THEN 0 ELSE owned(q)) - EntryRefs(e, q)
  BY <1>3, <1>4 DEF CommitUop
<1>6. /\ Len(rob') = n
      /\ \A j \in 1..n : rob'[j] = rob[j + 1] /\ j + 1 \in 1..m /\ j + 1 # 1
  BY <1>3, <1>5
<1>7. /\ \A a \in TransReg : com[a] = IF a \in Dests(e.uop) THEN e.physreg ELSE commitrrt[a]
      /\ e.uop.rd \in Dests(e.uop)
      /\ \A a \in TransReg \ FlagReg : a \in Dests(e.uop) => a = e.uop.rd
      /\ com = [a \in TransReg |-> IF a \in Dests(e.uop) THEN e.physreg ELSE commitrrt[a]]
  BY <1>4 DEF CommittedMap, Dests
<1>8. /\ state[NullReg] = "ARCH" /\ NullReg \in PhysReg
      /\ state[e.physreg] \in InFlightState
      /\ \A i \in 1..m : rob[i].physreg = e.physreg => i = 1
      /\ \A a \in TransReg : commitrrt[a] # e.physreg
      /\ e.physreg # NullReg /\ e.physreg # old
  <2>1. state[NullReg] = "ARCH" /\ NullReg \in PhysReg
    BY <1>1, NullArch DEF TablesInv
  <2>2. state[e.physreg] \in InFlightState
    BY <1>1, <1>3 DEF TablesInv, RegistersOwned
  <2>3. \A i \in 1..m : rob[i].physreg = e.physreg => i = 1
    BY <1>1, <1>3 DEF TablesInv, RegistersOwned
  <2>4. \A a \in TransReg : commitrrt[a] # e.physreg
    BY <1>1, <2>2 DEF TablesInv, CommittedRegisters, InFlightState
  <2> QED
    BY <1>4, <2>1, <2>2, <2>3, <2>4 DEF InFlightState
<1>9. /\ state'[e.physreg] = "ARCH"
      /\ \A q \in PhysReg : q # e.physreg /\ (q # old \/ q = NullReg) => state'[q] = state[q]
      /\ old # NullReg => state'[old] = IF frees THEN "FREE" ELSE "PENDINGFREE"
  BY <1>4, <1>5, <1>8 DEF CommittedState
<1> HIDE DEF e, m, n, old, com, owned, frees
<1>10. ASSUME NEW q \in PhysReg \ {NullReg}
       PROVE  /\ owned(q) = OperandCount(rob', 1..n, q) + EntryRefs(e, q) + RrtCount(specrrt, q) + RrtCount(com, q)
              /\ OperandCount(rob', 1..n, q) \in Nat /\ EntryRefs(e, q) \in Nat
              /\ RrtCount(specrrt, q) \in Nat /\ RrtCount(com, q) \in Nat
  <2>1. refcount[q] = OperandCount(rob, 1..m, q) + RrtCount(specrrt, q) + RrtCount(commitrrt, q)
    BY <1>1 DEF TablesInv, RefcountsExact, References, m
  <2>2. OperandCount(rob, 1..m, q) = OperandCount(rob', 1..n, q) + EntryRefs(rob[1], q)
    <3>1. n \in Nat /\ m \in Nat /\ m = n + 1
      BY <1>1, <1>3
    <3>2. \A j \in 1..n : rob'[j].operands = rob[j + 1].operands
      BY <1>6
    <3> QED
      BY <3>1, <3>2, OperandCountTail
  <2>3. OperandCount(rob', 1..n, q) \in Nat
    <3>1. IsFiniteSet(1..n)
      <4>1. n \in Int
        BY <1>3
      <4> QED
        BY <4>1, FS_Interval
    <3> QED
      BY <3>1, OperandCountZero
  <2>4. EntryRefs(e, q) \in Nat
    <3>1. IsFiniteSet({o \in Operand : e.operands[o] = q})
      BY OperandFinite, FS_Subset
    <3> QED
      BY <3>1, FS_CardinalityType DEF EntryRefs
  <2>5. RrtCount(specrrt, q) \in Nat /\ RrtCount(com, q) \in Nat /\ RrtCount(commitrrt, q) \in Nat
    BY RrtCountZero
  <2>6. EntryRefs(rob[1], q) = EntryRefs(e, q)
    BY DEF e
  <2> QED
    BY <2>1, <2>2, <2>3, <2>4, <2>5, <2>6 DEF owned
<1>11. ASSUME frees
       PROVE  /\ OperandCount(rob', 1..n, old) = 0 /\ EntryRefs(e, old) = 0
              /\ RrtCount(specrrt, old) = 0 /\ RrtCount(com, old) = 0
              /\ \A i \in 1..n : \A o \in Operand : rob'[i].operands[o] # old
              /\ \A a \in TransReg : specrrt[a] # old /\ com[a] # old
  <2>1. old \in PhysReg \ {NullReg} /\ owned(old) <= 0
    BY <1>4, <1>11 DEF frees
  <2>2. /\ owned(old) = OperandCount(rob', 1..n, old) + EntryRefs(e, old) + RrtCount(specrrt, old) + RrtCount(com, old)
        /\ OperandCount(rob', 1..n, old) \in Nat /\ EntryRefs(e, old) \in Nat
        /\ RrtCount(specrrt, old) \in Nat /\ RrtCount(com, old) \in Nat
    BY <1>10, <2>1
  <2>3. /\ OperandCount(rob', 1..n, old) = 0 /\ EntryRefs(e, old) = 0
        /\ RrtCount(specrrt, old) = 0 /\ RrtCount(com, old) = 0
    BY <2>1, <2>2
  <2>4. \A a \in TransReg : specrrt[a] # old /\ com[a] # old
    BY <2>3, RrtCountZero
  <2>5. IsFiniteSet(1..n)
    <3>1. n \in Int
      BY <1>3
    <3> QED
      BY <3>1, FS_Interval
  <2>6. \A i \in 1..n : \A o \in Operand : rob'[i].operands[o] # old
    BY <2>3, <2>5, OperandCountZero
  <2> QED
    BY <2>3, <2>4, <2>6
<1>12. RefcountsExact'
  <2> SUFFICES ASSUME NEW q \in PhysReg \ {NullReg}
               PROVE  refcount'[q] = OperandCount(rob', 1..n, q) + RrtCount(specrrt, q) + RrtCount(com, q)
    BY <1>5, <1>6 DEF RefcountsExact, References
  <2>1. CASE q = old /\ frees
    BY <1>5, <1>11, <2>1
  <2>2. CASE ~(q = old /\ frees)
    <3>1. refcount'[q] = owned(q) - EntryRefs(e, q)
      BY <1>5, <2>2
    <3> QED
      BY <1>10, <3>1
  <2> QED
    BY <2>1, <2>2
<1>13. ASSUME NEW q \in PhysReg, state'[q] = "FREE"
       PROVE  (q = old /\ frees) \/ (q # e.physreg /\ state[q] = "FREE")
  BY <1>8, <1>9, <1>13

<1>14. RegistersOwned'
  <2>1. ASSUME NEW i \in 1..n
        PROVE  /\ rob'[i].physreg \in PhysReg /\ rob'[i].physreg = rob[i + 1].physreg
               /\ rob'[i].physreg # e.physreg /\ rob'[i].physreg # old
               /\ state[rob'[i].physreg] \in InFlightState
    <3>1. i + 1 \in 1..m /\ i + 1 # 1 /\ rob'[i] = rob[i + 1]
      BY <1>6
    <3>2. state[rob[i + 1].physreg] \in InFlightState /\ rob[i + 1].physreg \in PhysReg
      BY <1>1, <3>1 DEF TablesInv, RegistersOwned, m
    <3>3. state[old] \notin InFlightState
      BY <1>1, <1>4 DEF TablesInv, CommittedRegisters, InFlightState, old
    <3> QED
      BY <1>8, <3>1, <3>2, <3>3
  <2>2. ASSUME NEW i \in 1..n
        PROVE  state'[rob'[i].physreg] \in InFlightState
    BY <1>9, <2>1
  <2>3. ASSUME NEW i \in 1..n, NEW j \in 1..n, rob'[i].physreg = rob'[j].physreg PROVE i = j
    <3>1. /\ i + 1 \in 1..m /\ j + 1 \in 1..m
          /\ rob[i + 1].physreg = rob[j + 1].physreg
      BY <1>6, <2>3
    <3>2. i + 1 = j + 1
      BY <1>1, <3>1 DEF TablesInv, RegistersOwned, m
    <3> QED
      BY <3>2
  <2>4. ASSUME NEW q \in PhysReg, state'[q] \in InFlightState PROVE \E i \in 1..n : rob'[i].physreg = q
    <3>1. q # e.physreg /\ state[q] \in InFlightState
      BY <1>9, <2>4 DEF InFlightState
    <3>2. PICK i \in 1..m : rob[i].physreg = q
      BY <1>1, <3>1 DEF TablesInv, RegistersOwned, m
    <3>3. i # 1
      BY <3>1, <3>2 DEF e
    <3>4. i - 1 \in 1..n /\ (i - 1) + 1 = i
      BY <1>3, <3>3
    <3>5. rob'[i - 1] = rob[i]
      BY <1>6, <3>4
    <3> QED
      BY <3>2, <3>4, <3>5
  <2>5. ASSUME NEW q \in PhysReg
        PROVE  state'[q] = "ARCH" <=> q = NullReg \/ \E a \in TransReg \ FlagReg : com[a] = q
    <3>1. state[q] = "ARCH" <=> q = NullReg \/ \E a \in TransReg \ FlagReg : commitrrt[a] = q
      BY <1>1 DEF TablesInv, RegistersOwned
    <3>2. CASE q = e.physreg
      <4>1. com[e.uop.rd] = q
        BY <1>4, <1>7, <3>2
      <4> QED
        BY <1>4, <1>9, <3>2, <4>1
    <3>3. CASE q = old /\ old # NullReg
      <4>1. state'[q] # "ARCH"
        BY <1>9, <3>3
      <4>2. ASSUME NEW a \in TransReg \ FlagReg, com[a] = q PROVE FALSE
        <5>1. a \notin Dests(e.uop) /\ commitrrt[a] = q
          BY <1>7, <1>8, <3>3, <4>2
        <5>2. commitrrt[a] = commitrrt[e.uop.rd] /\ commitrrt[a] # NullReg
          BY <3>3, <5>1 DEF old
        <5>3. a = e.uop.rd
          BY <1>1, <1>4, <5>2 DEF TablesInv, CommittedRegisters
        <5> QED
          BY <1>7, <5>1, <5>3
      <4> QED
        BY <3>3, <4>1, <4>2
    <3>4. CASE q # e.physreg /\ (q # old \/ q = NullReg)
      <4>1. state'[q] = state[q]
        BY <1>9, <3>4
      <4>2. CASE q = NullReg
        BY <3>1, <4>1, <4>2
      <4>3. CASE q # NullReg
        <5>1. ASSUME NEW a \in TransReg \ FlagReg PROVE com[a] = q <=> commitrrt[a] = q
          <6>1. CASE a \in Dests(e.uop)
            <7>1. com[a] = e.physreg /\ commitrrt[a] = old
              BY <1>7, <6>1 DEF old
            <7> QED
              BY <3>4, <4>3, <7>1
          <6>2. CASE a \notin Dests(e.uop)
            BY <1>7, <6>2
          <6> QED
            BY <6>1, <6>2
        <5> QED
          BY <3>1, <4>1, <5>1
      <4> QED
        BY <4>2, <4>3
    <3> QED
      BY <3>2, <3>3, <3>4
  <2> QED
    BY <1>5, <1>6, <2>2, <2>3, <2>4, <2>5 DEF RegistersOwned
<1>15. NoDanglingReference'
  <2>1. ASSUME NEW i \in 1..n, NEW o \in Operand PROVE state'[rob'[i].operands[o]] # "FREE"
    <3>1. i + 1 \in 1..m /\ rob'[i] = rob[i + 1]
      BY <1>6
    <3>2. rob'[i].operands[o] \in PhysReg /\ state[rob'[i].operands[o]] # "FREE"
      BY <1>1, <3>1 DEF TablesInv, NoDanglingReference, m
    <3> QED
      BY <1>11, <1>13, <3>2
  <2>2. ASSUME NEW a \in TransReg PROVE state'[specrrt[a]] # "FREE"
    <3>1. specrrt[a] \in PhysReg /\ state[specrrt[a]] # "FREE"
      BY <1>1 DEF TablesInv, NoDanglingReference
    <3> QED
      BY <1>11, <1>13, <3>1
  <2>3. ASSUME NEW a \in TransReg PROVE state'[com[a]] # "FREE"
    <3>1. com[a] \in PhysReg /\ (com[a] = e.physreg \/ state[com[a]] # "FREE")
      BY <1>1, <1>4, <1>7 DEF TablesInv, NoDanglingReference
    <3> QED
      BY <1>9, <1>11, <1>13, <3>1
  <2> QED
    BY <1>5, <1>6, <2>1, <2>2, <2>3 DEF NoDanglingReference
<1>16. RenamingPrecise'
  <2>1. ASSUME NEW k \in 0..n, NEW h \in Nat, h = k + 1
        PROVE  MapAfter(rob', k, com) = MapAfter(rob, h, commitrrt)
    <3>1. k \in Nat /\ \A j \in 1..k : rob'[j] = rob[j + 1]
      BY <1>3, <1>6
    <3>2. CommittedOver(com, rob[1], commitrrt)
      BY <1>7 DEF e, CommittedOver
    <3>3. Shifted(rob, rob', k)
      BY <3>1 DEF Shifted
    <3>4. k \in Nat
      BY <3>1
    <3> QED
      BY <2>1, <3>2, <3>3, <3>4, MapAfterHead
  <2>2. ASSUME NEW i \in 1..n, NEW o \in Operand \ {"RS"}
        PROVE  rob'[i].operands[o] = MapAfter(rob', i - 1, com)[rob'[i].uop.src[o]]
    <3>1. /\ i + 1 \in 1..m /\ rob'[i] = rob[i + 1] /\ i - 1 \in 0..n
          /\ i \in Nat /\ (i + 1) - 1 = i /\ i = (i - 1) + 1
      BY <1>3, <1>6
    <3>2. rob[i + 1].operands[o] = MapAfter(rob, i, commitrrt)[rob[i + 1].uop.src[o]]
      BY <1>1, <3>1 DEF TablesInv, RenamingPrecise, m
    <3>3. MapAfter(rob', i - 1, com) = MapAfter(rob, i, commitrrt)
      BY <2>1, <3>1
    <3> QED
      BY <3>1, <3>2, <3>3
  <2>3. specrrt = MapAfter(rob', n, com)
    <3>1. n \in 0..n /\ m = n + 1 /\ m \in Nat
      BY <1>1, <1>3
    <3>2. specrrt = MapAfter(rob, m, commitrrt)
      BY <1>1 DEF TablesInv, RenamingPrecise, m
    <3> QED
      BY <2>1, <3>1, <3>2
  <2> QED
    BY <1>5, <1>6, <2>2, <2>3 DEF RenamingPrecise
<1>17. ProducersOlder'
  <2> SUFFICES ASSUME NEW i \in 1..n, NEW o \in Operand, state'[rob'[i].operands[o]] \in InFlightState
               PROVE  \E j \in 1..(i - 1) : rob'[j].physreg = rob'[i].operands[o]
    BY <1>6 DEF ProducersOlder
  <2> DEFINE q == rob'[i].operands[o]
  <2>1. i + 1 \in 1..m /\ rob'[i] = rob[i + 1] /\ (i + 1) - 1 = i
    BY <1>6
  <2>2. q \in PhysReg /\ q = rob[i + 1].operands[o]
    BY <1>1, <2>1
  <2>3. q # e.physreg /\ state[q] \in InFlightState
    <3> HIDE DEF q
    <3>1. state'[q] \in InFlightState
      BY DEF q
    <3> QED
      BY <1>9, <2>2, <3>1 DEF InFlightState
  <2>4. PICK j \in 1..i : rob[j].physreg = q
    BY <1>1, <2>1, <2>2, <2>3 DEF TablesInv, ProducersOlder, m
  <2>5. j # 1
    BY <2>3, <2>4 DEF e
  <2>6. j - 1 \in 1..(i - 1) /\ j - 1 \in 1..n /\ (j - 1) + 1 = j
    BY <1>3, <2>5
  <2>7. rob'[j - 1] = rob[j]
    BY <1>6, <2>6
  <2> QED
    BY <2>4, <2>6, <2>7
<1>18. CommittedRegisters'
  <2>1. ASSUME NEW a \in TransReg PROVE state'[com[a]] \in {"ARCH", "PENDINGFREE"}
    <3>1. CASE com[a] = e.physreg
      BY <1>9, <3>1
    <3>2. CASE com[a] # e.physreg
      <4>1. com[a] = commitrrt[a] /\ com[a] \in PhysReg
        BY <1>1, <1>7, <3>2
      <4>2. state[com[a]] \in {"ARCH", "PENDINGFREE"}
        BY <1>1, <4>1 DEF TablesInv, CommittedRegisters
      <4>3. CASE com[a] = old /\ old # NullReg
        <5>1. ~frees
          BY <1>11, <4>3
        <5> QED
          BY <1>9, <4>3, <5>1
      <4>4. CASE com[a] # old \/ old = NullReg
        BY <1>9, <3>2, <4>1, <4>2, <4>4
      <4> QED
        BY <4>3, <4>4
    <3> QED
      BY <3>1, <3>2
  <2>2. ASSUME NEW a \in TransReg \ FlagReg, NEW b \in TransReg \ FlagReg, com[a] = com[b], com[a] # NullReg
        PROVE  a = b
    <3>1. CASE a \in Dests(e.uop) /\ b \in Dests(e.uop)
      BY <1>7, <3>1
    <3>2. CASE a \notin Dests(e.uop) /\ b \notin Dests(e.uop)
      <4>1. commitrrt[a] = commitrrt[b] /\ commitrrt[a] # NullReg
        BY <1>7, <2>2, <3>2
      <4> QED
        BY <1>1, <4>1 DEF TablesInv, CommittedRegisters
    <3>3. CASE ~(a \in Dests(e.uop) <=> b \in Dests(e.uop))
      BY <1>7, <1>8, <2>2, <3>3
    <3> QED
      BY <3>1, <3>2, <3>3
  <2> QED
    BY <1>5, <2>1, <2>2 DEF CommittedRegisters
<1>19. RsUnset'
  <2> SUFFICES ASSUME NEW i \in 1..n, rob'[i].list \in {"frontend", "ready_to_dispatch"} \/ ~IsMem(rob'[i].uop)
               PROVE  rob'[i].operands["RS"] = NullReg
    BY <1>6 DEF RsUnset
  <2>1. i + 1 \in 1..m /\ rob'[i] = rob[i + 1]
    BY <1>6
  <2> QED
    BY <1>1, <2>1 DEF RsUnset, m
<1> QED
  BY <1>12, <1>14, <1>15, <1>16, <1>17, <1>18, <1>19 DEF TablesInv

-----------------------------------------------------------------------------
\* Outside commit() the recycling of this cycle is over.
LEMMA PendingOutsideCommit == ASSUME stage' = "pipeline" PROVE PendingReferenced'
  BY DEF PendingReferenced

LEMMA CommitUopPending == ASSUME RefInv, CommitUop PROVE PendingReferenced'
<1>1. commitcount \in Nat
  BY SizeAssumption DEF RefInv, RobInv, TypeOK
<1>2. commitrc' = "ok" => commitcount' = commitcount + 1
  BY DEF CommitUop
<1>3. commitrc' = "ok" => commitcount' # 0
  BY <1>1, <1>2
<1> QED
  BY <1>3 DEF PendingReferenced

\* The end of a cycle: the flush that commit() asked for, or the recycling.
LEMMA NextCycleRefs == ASSUME RefInv, NextCycle PROVE TablesInv' /\ RsUnset' /\ PendingReferenced'
<1>1. CASE commitrc = "flush"
  <2>1. FlushPipeline
    BY <1>1 DEF NextCycle
  <2>2. \A p \in PhysReg : state'[p] # "PENDINGFREE"
    BY <2>1 DEF FlushPipeline, ExternalToCoreState
  <2> QED
    BY <2>1, <2>2, FlushRefs DEF PendingReferenced
<1>2. CASE commitrc # "flush"
  <2>1. /\ UNCHANGED <<specrrt, commitrrt, rob>>
        /\ state' = [p \in PhysReg |-> IF Recyclable(p) THEN "FREE" ELSE state[p]]
        /\ refcount' = [p \in PhysReg |-> IF Recyclable(p) THEN 0 ELSE refcount[p]]
    BY <1>2 DEF NextCycle
  <2>2. /\ TablesInv' /\ RsUnset'
        /\ \A p \in PhysReg : state'[p] = "PENDINGFREE" => refcount'[p] > 0
    BY <2>1, RecycleRefs
  <2> QED
    BY <2>2 DEF PendingReferenced
<1> QED
  BY <1>1, <1>2

LEMMA TablesStay ==
  ASSUME RefInv, UNCHANGED <<state, refcount, specrrt, commitrrt, rob>>
  PROVE  TablesInv' /\ RsUnset'
  BY DEF RefInv, TablesInv, RsUnset, RegistersOwned, RefcountsExact, References, NoDanglingReference,
         RenamingPrecise, ProducersOlder, CommittedRegisters

LEMMA RefInitInv == Init => RefInv
<1>1. Init => ResetState
  BY DEF Init, ResetState
<1>2. Init => PendingReferenced
  BY DEF Init, PendingReferenced
<1> QED
  BY <1>1, <1>2, RobInitInv, ResetRefs DEF RefInv

LEMMA RefStepInv == RefInv /\ [Next]_vars => RefInv'
<1> SUFFICES ASSUME RefInv, [Next]_vars PROVE RefInv'
  OBVIOUS
<1>1. RobInv'
  BY RobStepInv DEF RefInv
<1>2. SUFFICES TablesInv' /\ RsUnset' /\ PendingReferenced'
  BY <1>1 DEF RefInv
<1>3. CASE UNCHANGED vars
  <2>1. TablesInv' /\ RsUnset'
    BY <1>3, TablesStay DEF vars
  <2>2. PendingReferenced'
    BY <1>3 DEF vars, RefInv, PendingReferenced
  <2> QED
    BY <2>1, <2>2
<1>4. ASSUME NEW u \in Uop, NEW p \in PhysReg, Rename(u, p) PROVE TablesInv' /\ RsUnset' /\ PendingReferenced'
  <2>1. stage' = "pipeline"
    BY <1>4 DEF Rename
  <2> QED
    BY <1>4, <2>1, RenameRefs, PendingOutsideCommit
<1>5. ASSUME NEW i \in 1..Len(rob),
             \/ Frontend(i) \/ Dispatch(i)
             \/ IssueReg(i) \/ IssueException(i) \/ IssueFence(i)
             \/ Complete(i) \/ Writeback(i)
      PROVE  TablesInv' /\ RsUnset' /\ PendingReferenced'
  <2>1. stage' = "pipeline"
    BY <1>5 DEF Frontend, Dispatch, IssueReg, IssueException, IssueFence, Issuable, Complete, Writeback
  <2>2. TablesInv' /\ RsUnset'
    BY <1>5, FrontendRefs, DispatchRefs, IssueRefs, ResultRefs
  <2> QED
    BY <2>1, <2>2, PendingOutsideCommit
<1>6. ASSUME NEW i \in 1..Len(rob), Mispredict(i) \/ Refetch(i) \/ Misspeculate(i)
      PROVE  TablesInv' /\ RsUnset' /\ PendingReferenced'
  <2>1. stage' = "pipeline"
    BY <1>6 DEF Mispredict, Refetch, Misspeculate, Issuable
  <2>2. TablesInv' /\ RsUnset'
    BY <1>6, MispredictRefs, RefetchRefs, MisspeculateRefs
  <2> QED
    BY <2>1, <2>2, PendingOutsideCommit
<1>7. ASSUME NEW i \in 1..Len(rob), NEW s \in PhysReg, Replay(i, s) \/ \E l \in RobList : IssueMem(i, s, l)
      PROVE  TablesInv' /\ RsUnset' /\ PendingReferenced'
  <2>1. stage' = "pipeline"
    BY <1>7 DEF Replay, IssueMem, Issuable
  <2> QED
    BY <1>7, <2>1, MoveRsRefs, PendingOutsideCommit
<1>8. CASE CommitUop
  BY <1>8, CommitUopRefs, CommitUopPending
<1>9. CASE FenceWakeup
  <2>1. stage' = "pipeline" /\ 1 \in 1..Len(rob)
    <3>1. rob \in Seq(RobEntry) /\ rob # << >>
      BY <1>9 DEF FenceWakeup, FenceAtHead, RefInv, RobInv, TypeOK
    <3>2. Len(rob) \in Nat /\ Len(rob) # 0
      BY <3>1
    <3> QED
      BY <1>9, <3>2 DEF FenceWakeup
  <2> QED
    BY <1>9, <2>1, ResultRefs, PendingOutsideCommit
<1>10. CASE EndCommit
  <2>1. stage' = "pipeline" /\ UNCHANGED <<state, refcount, specrrt, commitrrt, rob>>
    BY <1>10 DEF EndCommit
  <2> QED
    BY <2>1, TablesStay, PendingOutsideCommit
<1>11. CASE NextCycle
  BY <1>11, NextCycleRefs
<1>12. CASE DeadlockRecovery
  <2>1. stage' = "pipeline" /\ FlushPipeline
    BY <1>12 DEF DeadlockRecovery
  <2> QED
    BY <2>1, FlushRefs, PendingOutsideCommit
<1> QED
  BY <1>3, <1>4, <1>5, <1>6, <1>7, <1>8, <1>9, <1>10, <1>11, <1>12 DEF Next

(***************************************************************************)
(* The inductive invariant holds in every reachable state.                 *)
(***************************************************************************)
THEOREM RenameReferences == Spec => []RefInv
  BY RefInitInv, RefStepInv, PTL DEF Spec

(***************************************************************************)
(* Every register but the null register counts exactly the operands and    *)
(* rename table entries that refer to it, as check_refcounts() recomputes  *)
(* them: the addref() and unref() calls of rename, dispatch, issue,        *)
(* replay, redispatch, annul, commit and flush balance.                    *)
(***************************************************************************)
THEOREM RenameRefcountsExact == Spec => []RefcountsExact
<1>1. RefInv => RefcountsExact
  BY DEF RefInv, TablesInv
<1> QED
  BY <1>1, RenameReferences, PTL

(***************************************************************************)
(* No operand of a uop in flight and no rename table entry refers to a     *)
(* register that is on the free list, where rename() could hand it to      *)
(* another uop.                                                            *)
(***************************************************************************)
THEOREM RenameNoDanglingReference == Spec => []NoDanglingReference
<1>1. RefInv => NoDanglingReference
  BY DEF RefInv, TablesInv
<1> QED
  BY <1>1, RenameReferences, PTL

(***************************************************************************)
(* Every uop in flight reads the registers of the last older writers of    *)
(* its sources, through every commit, annul() that rebuilds the            *)
(* speculative table, redispatch() and flush.                              *)
(***************************************************************************)
THEOREM RenameIsPrecise == Spec => []RenamingPrecise
<1>1. RefInv => RenamingPrecise
  BY DEF RefInv, TablesInv
<1> QED
  BY <1>1, RenameReferences, PTL

(***************************************************************************)
(* Registers are neither shared nor lost: one in flight has one entry, and *)
(* the old mapping of a register that commit() replaces is in the ARCH     *)
(* state, as it asserts.                                                   *)
(***************************************************************************)
THEOREM RenameRegistersOwned == Spec => []RegistersOwned
<1>1. RefInv => RegistersOwned
  BY DEF RefInv, TablesInv
<1> QED
  BY <1>1, RenameReferences, PTL

(***************************************************************************)
(* An operand that is still to be produced has its producer nearer to the  *)
(* head, so that annul() frees no register that a remaining uop reads.     *)
(***************************************************************************)
THEOREM RenameProducersOlder == Spec => []ProducersOlder
<1>1. RefInv => ProducersOlder
  BY DEF RefInv, TablesInv
<1> QED
  BY <1>1, RenameReferences, PTL

(***************************************************************************)
(* No register leaks: with the ROB empty, what the recycling of commit()   *)
(* leaves in use is the committed state alone.                             *)
(***************************************************************************)
THEOREM RenameDrainedRegistersFree == Spec => []DrainedRegistersFree
<1>1. RefInv => DrainedRegistersFree
  <2> SUFFICES ASSUME RefInv, stage = "commit", commitrc = "ok", rob = << >>, commitcount = 0,
                      NEW p \in PhysReg, state[p] # "FREE", p # NullReg
               PROVE  \E a \in TransReg : commitrrt[a] = p
    BY DEF DrainedRegistersFree
  <2>1. RobInv /\ TablesInv /\ PendingReferenced /\ Len(rob) = 0 /\ state[p] \in PhysRegState
        /\ commitrrt \in [TransReg -> PhysReg]
    BY RobFacts DEF RefInv
  <2>2. state[p] \notin InFlightState
    BY <2>1 DEF TablesInv, RegistersOwned
  <2>3. CASE state[p] = "ARCH"
    BY <2>1, <2>3 DEF TablesInv, RegistersOwned
  <2>4. CASE state[p] = "PENDINGFREE"
    <3>1. refcount[p] > 0 /\ refcount[p] = References(p)
      BY <2>1, <2>4 DEF PendingReferenced, TablesInv, RefcountsExact
    <3>2. specrrt = commitrrt
      <4>1. \A a \in TransReg : Writers(rob, 0, a) = {}
        BY DEF Writers
      <4>2. MapAfter(rob, 0, commitrrt) = commitrrt
        BY <2>1, <4>1 DEF MapAfter
      <4> QED
        BY <2>1, <4>2 DEF TablesInv, RenamingPrecise
    <3>3. OperandCount(rob, 1..Len(rob), p) = 0
      <4>1. IsFiniteSet(1..Len(rob)) /\ \A i \in 1..Len(rob) : FALSE
        BY <2>1, RobFacts
      <4> QED
        BY <4>1, OperandCountZero
    <3>4. RrtCount(commitrrt, p) \in Nat
      BY RrtCountZero
    <3>5. RrtCount(commitrrt, p) # 0
      BY <3>1, <3>2, <3>3, <3>4 DEF References
    <3> QED
      BY <3>5, RrtCountZero
  <2> QED
    BY <2>1, <2>2, <2>3, <2>4 DEF PhysRegState, InFlightState
<1> QED
  BY <1>1, RenameReferences, PTL

=============================================================================

--------------------------- MODULE OooCodeProofs ---------------------------
(***************************************************************************)
(* The out-of-order core, for every pipeline size and commit width: type   *)
(* correctness of every program; for programs whose system calls write to  *)
(* no page of their code (CallsAvoidCode), coherence of the block cache    *)
(* and when the check of commit() is enough to stop stale code.            *)
(***************************************************************************)
EXTENDS OooCode, CodeCacheProofs

(***************************************************************************)
(* The fetch unit is inside the block it refers to, or just behind it:     *)
(* what TypeOK needs to be inductive, since Fetch reads the uop at.        *)
(***************************************************************************)
FetchInBlock ==
  current # NoBlock =>
    /\ at[1] \in 1..(Len(Block[current]) + 1)
    /\ at[1] <= Len(Block[current]) => at[2] \in 1..Len(Uops[Block[current][at[1]]])

OooInv == TypeOK /\ FetchInBlock

-----------------------------------------------------------------------------
\* The uops of an instruction.
LEMMA UopFacts ==
  ASSUME NEW i \in Insn
  PROVE  Uops[i] \in Seq(UopKind) /\ Len(Uops[i]) \in Nat \ {0}
<1>1. Uops[i] \in Seq(UopKind) /\ Uops[i] # << >>
  BY ProgramAssumption
<1> QED
  BY <1>1

\* The first instruction of a block is the one the block is named after.
LEMMA BlockStart == ASSUME NEW b \in Insn PROVE Block[b][1] = b
  BY ProgramAssumption

\* Control flow stays in the program.
LEMMA SuccInsn == ASSUME NEW i \in Insn PROVE Succ[i] \subseteq Insn
  BY ProgramAssumption

\* An empty pipeline and a released fetch unit have their types.
LEMMA EmptyTypes == << >> \in Seq(PipeUop) /\ <<1, 1>> \in Nat \X Nat
  OBVIOUS

\* The initial states satisfy the invariant.
LEMMA OooInitInv == Init => OooInv
<1> SUFFICES ASSUME Init PROVE OooInv
  OBVIOUS
<1>1. CacheTypeOK
  BY DEF Init, CacheInit, CacheTypeOK
<1>2. commitcount \in 0..CommitWidth
  BY SizeAssumption DEF Init
<1>3. pipe \in Seq(PipeUop) /\ at \in Nat \X Nat
  BY EmptyTypes DEF Init
<1>4. TypeOK
  BY <1>1, <1>2, <1>3 DEF Init, TypeOK
<1> QED
  BY <1>4 DEF Init, OooInv, FetchInBlock

\* A uop of a block is fetched.
LEMMA FetchUopInv ==
  ASSUME OooInv, NEW b \in Insn, NEW k \in 1..Len(Block[b]),
         NEW n \in 1..Len(Uops[Block[b][k]]), NEW w \in SUBSET Page,
         FetchUop(b, k, n, w), current' = b, b \in cached', CacheTypeOK'
  PROVE  OooInv'
<1> DEFINE i == Block[b][k]
<1>1. /\ i \in Insn /\ Len(Block[b]) \in Nat \ {0} /\ Len(Uops[i]) \in Nat \ {0}
      /\ \A j \in 1..Len(Block[b]) : Block[b][j] \in Insn /\ Len(Uops[Block[b][j]]) \in Nat \ {0}
  BY BlockFacts, UopFacts
<1>2. NextInsns(b, k) \subseteq Insn
  <2>1. CASE k < Len(Block[b])
    BY <1>1, <2>1 DEF NextInsns
  <2>2. CASE ~(k < Len(Block[b]))
    BY <1>1, <2>2, SuccInsn DEF NextInsns
  <2> QED
    BY <2>1, <2>2
<1>3. PICK next \in (IF n = Len(Uops[i]) THEN NextInsns(b, k) ELSE {i}) :
        /\ pipe' = Append(pipe, [insn |-> i, k |-> n, next |-> next, written |-> w])
        /\ fetchrip' = next
  BY DEF FetchUop
<1>4. next \in Insn
  BY <1>1, <1>2, <1>3
<1>5. [insn |-> i, k |-> n, next |-> next, written |-> w] \in PipeUop
  BY <1>1, <1>4 DEF PipeUop
<1>6. pipe' \in Seq(PipeUop)
  BY <1>3, <1>5 DEF OooInv, TypeOK
<1>7. /\ at' = IF n < Len(Uops[i]) THEN <<k, n + 1>> ELSE <<k + 1, 1>>
      /\ stalled' \in BOOLEAN
      /\ UNCHANGED <<commitrip, smc, stage, commitcount, commitrc>>
  BY DEF FetchUop
<1>8. at' \in Nat \X Nat
  BY <1>1, <1>7
<1>9. TypeOK'
  BY <1>3, <1>4, <1>6, <1>7, <1>8 DEF OooInv, TypeOK
<1>10. FetchInBlock'
  <2>1. CASE n < Len(Uops[i])
    BY <1>1, <1>7, <2>1 DEF FetchInBlock
  <2>2. CASE ~(n < Len(Uops[i]))
    <3>1. at'[1] = k + 1 /\ at'[2] = 1
      BY <1>7, <2>2
    <3>2. k + 1 <= Len(Block[b]) => 1 \in 1..Len(Uops[Block[b][k + 1]])
      BY <1>1
    <3> QED
      BY <1>1, <3>1, <3>2 DEF FetchInBlock
  <2> QED
    BY <2>1, <2>2
<1> QED
  BY <1>9, <1>10 DEF OooInv

\* fetch() inside a block, or at the start of the next one.
LEMMA FetchInv == OooInv /\ Fetch => OooInv'
<1> SUFFICES ASSUME OooInv, Fetch PROVE OooInv'
  OBVIOUS
<1>1. fetchrip \in Insn /\ current \in cached \cup {NoBlock} /\ cached \subseteq Insn
      /\ written \in [cached -> SUBSET Page]
  BY DEF OooInv, TypeOK, CacheTypeOK
<1>2. CASE current = NoBlock \/ at[1] > Len(Block[current])
  <2>1. /\ FetchOrTranslate(fetchrip) /\ current' = fetchrip
        /\ FetchUop(fetchrip, 1, 1, written'[fetchrip])
    BY <1>2 DEF Fetch
  <2>2. CacheTypeOK' /\ fetchrip \in cached'
    BY <1>1, <2>1, LookupTypes DEF OooInv, TypeOK
  <2>3. written'[fetchrip] \in SUBSET Page
    BY <2>2 DEF CacheTypeOK
  <2>4. 1 \in 1..Len(Block[fetchrip]) /\ 1 \in 1..Len(Uops[Block[fetchrip][1]])
    BY <1>1, BlockFacts, BlockStart, UopFacts
  <2> QED
    BY <1>1, <2>1, <2>2, <2>3, <2>4, FetchUopInv
<1>3. CASE ~(current = NoBlock \/ at[1] > Len(Block[current]))
  <2>1. /\ FetchUop(current, at[1], at[2], written[current])
        /\ UNCHANGED <<current, cacheVars>>
    BY <1>3 DEF Fetch
  <2>2. CacheTypeOK' /\ current' = current /\ current \in cached'
    BY <1>1, <1>3, <2>1, UnchangedTypes DEF OooInv, TypeOK, cacheVars
  <2>3. current \in Insn /\ written[current] \in SUBSET Page
    BY <1>1, <1>3
  <2>4. Len(Block[current]) \in Nat /\ at[1] \in Nat
    BY <2>3, BlockFacts DEF OooInv, TypeOK
  <2>5. at[1] \in 1..Len(Block[current]) /\ at[2] \in 1..Len(Uops[Block[current][at[1]]])
    BY <1>3, <2>4 DEF OooInv, FetchInBlock
  <2> QED
    BY <2>1, <2>2, <2>3, <2>5, FetchUopInv
<1> QED
  BY <1>2, <1>3

\* annul_after() a mispredicted branch.
LEMMA MispredictInv ==
  ASSUME OooInv, NEW j \in 1..Len(pipe), NEW t \in Insn, Mispredict(j, t)
  PROVE  OooInv'
<1>1. CacheTypeOK'
  BY UnchangedTypes DEF OooInv, TypeOK, Mispredict
<1>2. pipe \in Seq(PipeUop) /\ pipe[j] \in PipeUop
  BY DEF OooInv, TypeOK
<1>3. [pipe[j] EXCEPT !.next = t] \in PipeUop
  BY <1>2 DEF PipeUop
<1>4. SubSeq(pipe, 1, j - 1) \in Seq(PipeUop)
  BY <1>2
<1>5. pipe' \in Seq(PipeUop)
  BY <1>3, <1>4 DEF Mispredict
<1> QED
  BY <1>1, <1>5 DEF OooInv, TypeOK, FetchInBlock, Mispredict, ResetFetchUnit, cacheVars

\* A macro-op on a dirty page is stopped.
LEMMA DetectSmcInv == OooInv /\ DetectSmc => OooInv'
<1> SUFFICES ASSUME OooInv, DetectSmc PROVE OooInv'
  OBVIOUS
<1>1. CacheTypeOK'
  BY UnchangedTypes DEF OooInv, TypeOK, DetectSmc
<1>2. Head(pipe) \in PipeUop
  BY DEF OooInv, TypeOK, DetectSmc, CommitReady
<1>3. smc' \in Insn
  BY <1>2 DEF DetectSmc, PipeUop
<1> QED
  BY <1>1, <1>3 DEF OooInv, TypeOK, FetchInBlock, DetectSmc, cacheVars

\* One uop commits.
LEMMA CommitUopInv == OooInv /\ CommitUop => OooInv'
<1> SUFFICES ASSUME OooInv, CommitUop PROVE OooInv'
  OBVIOUS
<1> DEFINE e == Head(pipe)
           rest == Tail(pipe)
<1>1. pipe \in Seq(PipeUop) /\ pipe # << >>
  BY DEF OooInv, TypeOK, CommitUop, CommitReady
<1>2. e \in PipeUop /\ rest \in Seq(PipeUop)
  BY <1>1
<1>3. CacheTypeOK' /\ cached' = cached /\ pipe' \in Seq(PipeUop)
  <2>1. CASE Kind(e) = "st"
    <3>1. PICK p \in Page :
            /\ StoreTo({p})
            /\ pipe' = [j \in 1..Len(rest) |-> [rest[j] EXCEPT !.written = @ \cup {p}]]
      BY <2>1 DEF CommitUop
    <3>2. CacheTypeOK' /\ cached' = cached
      <4>1. {p} \in SUBSET Page
        OBVIOUS
      <4>2. CacheTypeOK'
        BY <3>1, <4>1, AssistTypes DEF OooInv, TypeOK
      <4> QED
        BY <3>1, <4>2 DEF StoreTo
    <3>3. ASSUME NEW j \in 1..Len(rest)
          PROVE  [rest[j] EXCEPT !.written = @ \cup {p}] \in PipeUop
      <4>1. rest[j] \in PipeUop
        BY <1>2
      <4> QED
        BY <4>1 DEF PipeUop
    <3>4. pipe' \in Seq(PipeUop)
      <4>1. Len(rest) \in Nat
        BY <1>2
      <4> QED
        BY <3>1, <3>3, <4>1
    <3> QED
      BY <3>2, <3>4
  <2>2. CASE Kind(e) # "st"
    BY <1>2, <2>2, UnchangedTypes DEF OooInv, TypeOK, CommitUop, cacheVars
  <2> QED
    BY <2>1, <2>2
<1>4. commitrip' \in Insn /\ smc' \in Insn \cup {NoBlock}
      /\ commitrc' \in {"ok", "smc", "barrier"}
  BY <1>2 DEF OooInv, TypeOK, CommitUop, PipeUop
<1>5. commitcount' \in 0..CommitWidth
  BY SizeAssumption DEF OooInv, TypeOK, CommitUop, CommitReady
<1>6. UNCHANGED <<fetchrip, current, at, stalled, stage>>
  BY DEF CommitUop
<1> HIDE DEF e, rest
<1> QED
  BY <1>3, <1>4, <1>5, <1>6 DEF OooInv, TypeOK, FetchInBlock

\* The commit loop ends.
LEMMA EndCommitInv == OooInv /\ EndCommit => OooInv'
<1> SUFFICES ASSUME OooInv, EndCommit PROVE OooInv'
  OBVIOUS
<1>1. CacheTypeOK'
  BY UnchangedTypes DEF OooInv, TypeOK, EndCommit
<1> QED
  BY <1>1 DEF OooInv, TypeOK, FetchInBlock, EndCommit, cacheVars

\* The result of commit() is handled.
LEMMA NextCycleInv == OooInv /\ NextCycle => OooInv'
<1> SUFFICES ASSUME OooInv, NextCycle PROVE OooInv'
  OBVIOUS
<1>1. stage' = "commit" /\ commitcount' = 0 /\ commitrc' = "ok" /\ commitrip' = commitrip
  BY DEF NextCycle
<1>2. commitcount' \in 0..CommitWidth
  BY <1>1, SizeAssumption
<1>3. CASE UNCHANGED <<cacheVars, pipe, fetchrip, current, at, stalled, smc>>
  <2>1. CacheTypeOK'
    BY <1>3, UnchangedTypes DEF OooInv, TypeOK
  <2> QED
    BY <1>1, <1>2, <1>3, <2>1 DEF OooInv, TypeOK, FetchInBlock, cacheVars
<1>0. ASSUME FlushPipeline
      PROVE  /\ pipe' \in Seq(PipeUop) /\ at' \in Nat \X Nat /\ stalled' \in BOOLEAN
             /\ fetchrip' = commitrip /\ current' = NoBlock
  BY <1>0, EmptyTypes DEF FlushPipeline, ResetFetchUnit
<1>4. CASE FlushPipeline /\ InvalidateSmc(smc) /\ smc' = NoBlock
  <2>1. CacheTypeOK'
    BY <1>4, InvalidateTypes DEF OooInv, TypeOK, InvalidateSmc
  <2> QED
    BY <1>1, <1>2, <1>0, <1>4, <2>1 DEF OooInv, TypeOK, FetchInBlock
<1>5. CASE FlushPipeline /\ Assist /\ UNCHANGED smc
  <2>1. CacheTypeOK'
    BY <1>5, AssistTypes DEF OooInv, TypeOK, Assist
  <2> QED
    BY <1>1, <1>2, <1>0, <1>5, <2>1 DEF OooInv, TypeOK, FetchInBlock
<1> QED
  BY <1>3, <1>4, <1>5 DEF NextCycle

\* Every step preserves the invariant.
LEMMA OooStepInv == OooInv /\ [Next]_vars => OooInv'
<1> SUFFICES ASSUME OooInv, [Next]_vars PROVE OooInv'
  OBVIOUS
<1>1. CASE UNCHANGED vars
  <2>1. CacheTypeOK'
    BY <1>1, UnchangedTypes DEF OooInv, TypeOK, vars, cacheVars
  <2> QED
    BY <1>1, <2>1 DEF OooInv, TypeOK, FetchInBlock, vars, coreVars
<1> QED
  BY <1>1, FetchInv, MispredictInv, DetectSmcInv, CommitUopInv, EndCommitInv, NextCycleInv
     DEF Next

-----------------------------------------------------------------------------
(***************************************************************************)
(* Type correctness: the block being fetched from is always in the cache,  *)
(* although translations and invalidations remove blocks                   *)
(* (BasicBlockCache::invalidate() would have to refuse otherwise).         *)
(***************************************************************************)
THEOREM OooTypeCorrect == Spec => []TypeOK
<1>1. OooInv => TypeOK
  BY DEF OooInv
<1> QED
  BY <1>1, OooInitInv, OooStepInv, PTL DEF Spec

\* If system calls avoid the code, every step keeps the cache coherent.
LEMMA OooCacheStep ==
  ASSUME CallsAvoidCode
  PROVE  OooInv /\ CacheInv /\ [Next]_vars => CacheInv'
<1> SUFFICES ASSUME OooInv, CacheInv, [Next]_vars PROVE CacheInv'
  OBVIOUS
<1>1. CASE UNCHANGED cacheVars
  BY <1>1, UnchangedInv
<1>2. CASE Fetch
  <2>1. CASE current = NoBlock \/ at[1] > Len(Block[current])
    BY <1>2, <2>1, FetchOrTranslateInv DEF Fetch, OooInv, TypeOK
  <2>2. CASE ~(current = NoBlock \/ at[1] > Len(Block[current]))
    BY <1>1, <1>2, <2>2 DEF Fetch
  <2> QED
    BY <2>1, <2>2
<1>3. CASE CommitUop
  <2>1. UNCHANGED cacheVars \/ \E p \in Page : StoreTo({p})
    BY <1>3 DEF CommitUop
  <2>2. ASSUME NEW p \in Page PROVE {p} \in SUBSET Page
    OBVIOUS
  <2> QED
    BY <1>1, <2>1, <2>2, StoreInv
<1>4. CASE NextCycle
  <2>1. UNCHANGED cacheVars \/ InvalidateSmc(smc) \/ \E P \in SUBSET Page : AssistOn(P)
    BY <1>4 DEF NextCycle, Assist
  <2> QED
    BY <1>1, <2>1, InvalidateInv, AssistInv DEF InvalidateSmc
<1>5. CASE UNCHANGED vars
  BY <1>1, <1>5 DEF vars, cacheVars
<1> QED
  BY <1>1, <1>2, <1>3, <1>4, <1>5 DEF Next, Mispredict, DetectSmc, EndCommit

\* The cache starts coherent.
LEMMA OooCacheInit == Init => CacheInv
  BY CacheInitInv DEF Init

(***************************************************************************)
(* fetch(), commit(), invalidate_smc(), the assists that write by          *)
(* copy_to_user() and the mapping calls together leave no stale block on a *)
(* clean page, for every program whose system calls do not write() to its  *)
(* code, and every width.  The program's own stores may go anywhere.       *)
(***************************************************************************)
THEOREM OooCacheCoherent == ASSUME CallsAvoidCode PROVE Spec => []CacheCoherent
<1>1. CacheInv => CacheCoherent
  BY DEF CacheInv
<1> QED
  BY <1>1, OooInitInv, OooStepInv, OooCacheInit, OooCacheStep, PTL DEF Spec

-----------------------------------------------------------------------------
(***************************************************************************)
(* Stale code in flight.  commit() looks at the dirty map only, so it can  *)
(* stop a stale macro-op as long as the pages written to under it are      *)
(* still marked.  Stores mark them; invalidate_smc() and the mapping calls *)
(* clean pages, and a write() of a system call leaves them clean, but only *)
(* after the flush.  The one step that may clean a page under a uop in     *)
(* flight is a translation by the fetch unit; a write() to code is stale   *)
(* in the cache when the next uops are fetched, so CallsAvoidCode is       *)
(* assumed.                                                                *)
(***************************************************************************)

\* Every page of a uop in flight stored to since its translation is marked.
InFlightMarked ==
  \A j \in 1..Len(pipe) : InsnPages(pipe[j].insn) \cap pipe[j].written \subseteq dirty

\* A fetch cleans no page that a uop in flight lies on.
TranslationSpares ==
  Fetch => \A j \in 1..Len(pipe) : InsnPages(pipe[j].insn) \cap dirty \subseteq dirty'

\* The block of every uop in flight is in the cache.
InFlightCached == \A j \in 1..Len(pipe) : pipe[j].insn \in cached

\* What a fetch does to the pipeline.
LEMMA FetchPipe ==
  ASSUME OooInv, NEW b, NEW k, NEW n, NEW w, FetchUop(b, k, n, w), NEW j \in 1..Len(pipe')
  PROVE  \/ j \in 1..Len(pipe) /\ pipe'[j] = pipe[j]
         \/ pipe'[j].insn = Block[b][k] /\ pipe'[j].written = w
<1>1. PICK next : pipe' = Append(pipe, [insn |-> Block[b][k], k |-> n, next |-> next, written |-> w])
  BY DEF FetchUop
<1>2. pipe \in Seq(PipeUop)
  BY DEF OooInv, TypeOK
<1>3. j \in 1..Len(pipe) \/ j = Len(pipe) + 1
  BY <1>1, <1>2
<1> QED
  BY <1>1, <1>2, <1>3

\* What a misprediction leaves in the pipeline.
LEMMA MispredictPipe ==
  ASSUME OooInv, NEW i \in 1..Len(pipe), NEW t \in Insn, Mispredict(i, t), NEW j \in 1..Len(pipe')
  PROVE  /\ j \in 1..Len(pipe)
         /\ pipe'[j].insn = pipe[j].insn /\ pipe'[j].written = pipe[j].written
<1>1. pipe' = Append(SubSeq(pipe, 1, i - 1), [pipe[i] EXCEPT !.next = t])
  BY DEF Mispredict
<1>2. pipe \in Seq(PipeUop) /\ pipe[i] \in PipeUop /\ Len(pipe) \in Nat
  BY DEF OooInv, TypeOK
<1>3. SubSeq(pipe, 1, i - 1) \in Seq(PipeUop) /\ Len(SubSeq(pipe, 1, i - 1)) = i - 1
  BY <1>2
<1>4. j \in 1..(i - 1) \/ j = i
  BY <1>1, <1>2, <1>3
<1>5. CASE j \in 1..(i - 1)
  BY <1>1, <1>2, <1>3, <1>5
<1>6. CASE j = i
  <2>1. pipe'[j] = [pipe[i] EXCEPT !.next = t]
    BY <1>1, <1>3, <1>6
  <2> QED
    BY <1>2, <1>6, <2>1 DEF PipeUop
<1> QED
  BY <1>4, <1>5, <1>6

\* What a commit leaves in the pipeline: a store is recorded in each uop and marked.
LEMMA CommitPipe ==
  ASSUME OooInv, CommitUop, NEW j \in 1..Len(pipe')
  PROVE  /\ cached' = cached /\ j + 1 \in 1..Len(pipe)
         /\ pipe'[j].insn = pipe[j + 1].insn
         /\ \E P \in SUBSET Page : /\ pipe'[j].written = pipe[j + 1].written \cup P
                                   /\ dirty' = dirty \cup P
<1> DEFINE rest == Tail(pipe)
<1>1. pipe \in Seq(PipeUop) /\ pipe # << >> /\ Len(pipe) \in Nat \ {0}
  BY DEF OooInv, TypeOK, CommitUop, CommitReady
<1>2. /\ rest \in Seq(PipeUop) /\ Len(rest) = Len(pipe) - 1
      /\ \A m \in 1..Len(rest) : rest[m] = pipe[m + 1]
  BY <1>1
<1>3. CASE Kind(Head(pipe)) = "st"
  <2>1. PICK p \in Page :
          /\ StoreTo({p})
          /\ pipe' = [m \in 1..Len(rest) |-> [rest[m] EXCEPT !.written = @ \cup {p}]]
    BY <1>3 DEF CommitUop
  <2>2. Len(pipe') = Len(rest)
    <3>1. Len(rest) \in Nat
      BY <1>2
    <3> QED
      BY <2>1, <3>1
  <2>3. j \in 1..Len(rest) /\ rest[j] = pipe[j + 1] /\ rest[j] \in PipeUop
    BY <1>2, <2>2
  <2>4. pipe'[j].insn = pipe[j + 1].insn /\ pipe'[j].written = pipe[j + 1].written \cup {p}
    BY <2>1, <2>3 DEF PipeUop
  <2>5. dirty' = dirty \cup {p} /\ cached' = cached
    BY <2>1 DEF StoreTo
  <2>6. j + 1 \in 1..Len(pipe)
    BY <1>1, <1>2, <2>3
  <2>7. {p} \in SUBSET Page
    OBVIOUS
  <2> QED
    BY <2>4, <2>5, <2>6, <2>7
<1>4. CASE Kind(Head(pipe)) # "st"
  <2>1. pipe' = rest /\ dirty' = dirty /\ cached' = cached
    BY <1>4 DEF CommitUop, cacheVars
  <2>2. pipe'[j] = pipe[j + 1] /\ j + 1 \in 1..Len(pipe)
    BY <1>1, <1>2, <2>1
  <2>3. pipe'[j].written = pipe[j + 1].written \cup {} /\ dirty' = dirty \cup {}
    BY <2>1, <2>2
  <2> QED
    BY <2>1, <2>2, <2>3
<1> QED
  BY <1>3, <1>4

\* The result of commit() is handled with the pipeline as it is, or flushed.
LEMMA NextCyclePipe ==
  ASSUME NextCycle
  PROVE  \/ pipe' = pipe /\ UNCHANGED cacheVars
         \/ pipe' = << >>
  BY DEF NextCycle, FlushPipeline

\* A uop enters the pipeline with the history of its block, which is marked.
LEMMA FetchMarked ==
  ASSUME CallsAvoidCode, OooInv, CacheInv, InFlightMarked, Fetch, TranslationSpares
  PROVE  InFlightMarked'
<1>1. CacheInv'
  BY OooCacheStep DEF Next
<1>2. \A b \in cached' : written'[b] \subseteq dirty'
  BY <1>1 DEF CacheInv, CacheCoherent
<1>3. PICK b, k, n : b \in cached' /\ FetchUop(b, k, n, written'[b])
  <2>1. CASE current = NoBlock \/ at[1] > Len(Block[current])
    <3>1. FetchUop(fetchrip, 1, 1, written'[fetchrip]) /\ FetchOrTranslate(fetchrip)
      BY <2>1 DEF Fetch
    <3>2. fetchrip \in cached'
      BY <3>1, LookupTypes DEF OooInv, TypeOK
    <3> QED
      BY <3>1, <3>2
  <2>2. CASE ~(current = NoBlock \/ at[1] > Len(Block[current]))
    <3>1. /\ FetchUop(current, at[1], at[2], written[current])
          /\ written' = written /\ cached' = cached
      BY <2>2 DEF Fetch, cacheVars
    <3>2. current \in cached'
      BY <2>2, <3>1 DEF OooInv, TypeOK
    <3> QED
      BY <3>1, <3>2
  <2> QED
    BY <2>1, <2>2
<1>4. ASSUME NEW j \in 1..Len(pipe')
      PROVE  InsnPages(pipe'[j].insn) \cap pipe'[j].written \subseteq dirty'
  <2>1. CASE j \in 1..Len(pipe) /\ pipe'[j] = pipe[j]
    BY <2>1 DEF InFlightMarked, TranslationSpares
  <2>2. CASE pipe'[j].written = written'[b]
    BY <1>2, <1>3, <2>2
  <2> QED
    BY <1>3, <2>1, <2>2, FetchPipe
<1> QED
  BY <1>4 DEF InFlightMarked, InsnPages, Mfnlo, Mfnhi

\* As long as translations spare the code in flight, what is stale stays marked.
LEMMA MarkedStep ==
  ASSUME CallsAvoidCode
  PROVE  OooInv /\ CacheInv /\ InFlightMarked /\ [Next]_vars /\ [TranslationSpares]_vars
           => InFlightMarked'
<1> SUFFICES ASSUME OooInv, CacheInv, InFlightMarked, [Next]_vars, [TranslationSpares]_vars
             PROVE  InFlightMarked'
  OBVIOUS
<1>1. ASSUME pipe' = pipe, dirty' = dirty PROVE InFlightMarked'
  BY <1>1 DEF InFlightMarked, InsnPages, Mfnlo, Mfnhi
<1>2. CASE UNCHANGED vars
  BY <1>1, <1>2 DEF vars, coreVars
<1>3. CASE Fetch /\ TranslationSpares
  BY <1>3, FetchMarked
<1>4. ASSUME NEW i \in 1..Len(pipe), NEW t \in Insn, Mispredict(i, t) PROVE InFlightMarked'
  <2>1. ASSUME NEW j \in 1..Len(pipe')
        PROVE  InsnPages(pipe'[j].insn) \cap pipe'[j].written \subseteq dirty
    BY <1>4, <2>1, MispredictPipe DEF InFlightMarked
  <2>2. dirty' = dirty
    BY <1>4 DEF Mispredict, cacheVars
  <2> QED
    BY <2>1, <2>2 DEF InFlightMarked, InsnPages, Mfnlo, Mfnhi
<1>5. CASE CommitUop
  <2>1. ASSUME NEW j \in 1..Len(pipe')
        PROVE  InsnPages(pipe'[j].insn) \cap pipe'[j].written \subseteq dirty'
    <3>1. PICK m \in 1..Len(pipe), P \in SUBSET Page :
            /\ pipe'[j].insn = pipe[m].insn
            /\ pipe'[j].written = pipe[m].written \cup P
            /\ dirty' = dirty \cup P
      BY <1>5, <2>1, CommitPipe
    <3>2. InsnPages(pipe[m].insn) \cap pipe[m].written \subseteq dirty
      BY <3>1 DEF InFlightMarked
    <3> QED
      BY <3>1, <3>2
  <2> QED
    BY <2>1 DEF InFlightMarked, InsnPages, Mfnlo, Mfnhi
<1>6. CASE DetectSmc
  BY <1>1, <1>6 DEF DetectSmc, cacheVars
<1>7. CASE EndCommit
  BY <1>1, <1>7 DEF EndCommit, cacheVars
<1>8. CASE NextCycle
  <2>1. CASE pipe' = pipe /\ UNCHANGED cacheVars
    BY <1>1, <2>1 DEF cacheVars
  <2>2. CASE pipe' = << >>
    BY <2>2 DEF InFlightMarked
  <2> QED
    BY <1>8, <2>1, <2>2, NextCyclePipe
<1> QED
  BY <1>2, <1>3, <1>4, <1>5, <1>6, <1>7, <1>8 DEF Next

\* The check when a macro-op starts stops it if a page of it is marked.
LEMMA MarkedCommit ==
  OooInv /\ InFlightMarked /\ [Next]_vars
    => [stage = "commit" /\ pipe' # pipe /\ Som(Head(pipe)) => ~Stale(Head(pipe))]_vars
<1> SUFFICES ASSUME OooInv, InFlightMarked, Next, stage = "commit", pipe' # pipe, Som(Head(pipe))
             PROVE  ~Stale(Head(pipe))
  OBVIOUS
<1>1. CommitUop
  BY DEF Next, Fetch, Mispredict, DetectSmc, EndCommit, NextCycle
<1>2. ~CodeDirty(Head(pipe).insn)
  BY <1>1 DEF CommitUop
<1>3. pipe \in Seq(PipeUop) /\ pipe # << >>
  BY <1>1 DEF OooInv, TypeOK, CommitUop, CommitReady
<1>4. Head(pipe) = pipe[1] /\ 1 \in 1..Len(pipe)
  BY <1>3
<1>5. InsnPages(Head(pipe).insn) \cap Head(pipe).written \subseteq dirty
  BY <1>4 DEF InFlightMarked
<1> QED
  BY <1>2, <1>5 DEF Stale, CodeDirty

(***************************************************************************)
(* For every program whose system calls do not write() to its code:        *)
(* commit() never starts a stale macro-op in a run whose translations      *)
(* clean no page of the code in flight.  So beside those calls translate() *)
(* called from fetch() is the only way the check of the dirty map can be   *)
(* fooled (the run over "together" shows that it can be).                  *)
(***************************************************************************)
THEOREM OooStaleOnlyByTranslation ==
  ASSUME CallsAvoidCode
  PROVE  Spec /\ [][TranslationSpares]_vars => NoStaleCommit
<1>1. Init => InFlightMarked
  BY DEF Init, InFlightMarked
<1> QED
  BY <1>1, OooInitInv, OooStepInv, OooCacheInit, OooCacheStep, MarkedStep, MarkedCommit, PTL DEF Spec, NoStaleCommit

-----------------------------------------------------------------------------
\* Blocks that lie apart have one instruction each, and so the same pages as it.
LEMMA ApartBlocks ==
  ASSUME BlocksApart, NEW b \in Insn
  PROVE  Len(Block[b]) = 1 /\ InsnPages(b) \subseteq BlockPages(b)
<1>1. InsnPages(b) \subseteq BlockPages(b)
  <2>1. 1 \in 1..Len(Block[b])
    BY BlockFacts
  <2> QED
    BY <2>1, PagesListed, BlockStart
<1>2. ASSUME Len(Block[b]) # 1 PROVE FALSE
  <2>1. Len(Block[b]) \in Nat \ {0}
    BY BlockFacts
  <2>2. 1 \in 1..(Len(Block[b]) - 1) /\ 1 \in 1..Len(Block[b]) /\ 2 \in 1..Len(Block[b])
    <3>1. ASSUME NEW n \in Nat \ {0}, n # 1 PROVE 1 \in 1..(n - 1) /\ 1 \in 1..n /\ 2 \in 1..n
      BY <3>1
    <3> QED
      BY <1>2, <2>1, <3>1
  <2>3. PICK c : c = Block[b][2]
    OBVIOUS
  <2>4. c = b + Bytes[b]
    <3>1. Block[b][1 + 1] = Block[b][1] + Bytes[Block[b][1]]
      BY <2>2, ProgramAssumption
    <3> QED
      BY <2>3, <3>1, BlockStart
  <2>5. c \in Insn /\ b \in Nat /\ c \in Nat /\ Bytes[b] \in 1..PageSize /\ PageSize \in Nat \ {0}
    BY <2>2, <2>3, BlockFacts, ProgramAssumption
  <2>6. c # b
    BY <2>4, <2>5
  <2>7. Mfnlo(c) \in TranslatePages(b)
    <3>1. c <= b + PageSize - 1
      <4>1. Bytes[c] \in 1..PageSize /\ c + Bytes[c] <= b + BlockBytes(b)
            /\ BlockBytes(b) \in 1..PageSize
        BY <2>2, <2>3, BlockFacts, ProgramAssumption
      <4> QED
        BY <2>5, <4>1
    <3>2. b <= c /\ b + PageSize - 1 \in Nat
      BY <2>4, <2>5
    <3>3. b \div PageSize <= c \div PageSize /\ c \div PageSize <= (b + PageSize - 1) \div PageSize
      BY <2>5, <3>1, <3>2, PageMonotone
    <3>4. (b + PageSize - 1) \div PageSize \in {b \div PageSize, (b \div PageSize) + 1}
      <4>1. PageSize \in 1..PageSize
        BY <2>5
      <4> QED
        BY <2>5, <4>1, PageNext
    <3>5. b \div PageSize \in Int /\ c \div PageSize \in Int
      BY <2>5, Z3
    <3> QED
      BY <3>3, <3>4, <3>5 DEF TranslatePages, Mfnlo, Mfnhi
  <2>8. Mfnlo(c) \in BlockPages(c)
    BY DEF BlockPages
  <2> QED
    BY <2>5, <2>6, <2>7, <2>8 DEF BlocksApart
<1> QED
  BY <1>1, <1>2

\* Translating a block frees no other block and cleans no page of one.
LEMMA ApartTranslate ==
  ASSUME BlocksApart, OooInv, NEW i \in Insn, FetchOrTranslate(i)
  PROVE  /\ cached \subseteq cached' /\ i \in cached'
         /\ \A c \in cached : BlockPages(c) \cap dirty \subseteq dirty'
<1>1. cached \subseteq Insn
  BY DEF OooInv, TypeOK, CacheTypeOK
<1>2. CASE i \in cached
  BY <1>2 DEF FetchOrTranslate, cacheVars
<1>3. CASE i \notin cached
  <2>1. Translate(i)
    BY <1>3 DEF FetchOrTranslate
  <2>2. \A c \in cached : TranslatePages(i) \cap BlockPages(c) = {}
    BY <1>1, <1>3 DEF BlocksApart
  <2>3. TranslateInvalidates(i) \subseteq TranslatePages(i)
    BY DEF TranslateInvalidates, TranslatePages
  <2>4. BlockPages(i) \cap dirty \subseteq TranslateInvalidates(i)
    BY TranslateCleansListed
  <2>5. Listed(TranslateInvalidates(i)) = {}
    BY <2>2, <2>3 DEF Listed
  <2>6. dirty' = dirty \ (TranslateInvalidates(i) \cup BlockPages(i)) /\ cached' = cached \cup {i}
    BY <2>1, <2>5 DEF Translate
  <2> QED
    BY <2>2, <2>3, <2>4, <2>6
<1> QED
  BY <1>2, <1>3

\* With blocks apart, a fetch keeps the blocks in flight cached and their pages marked.
LEMMA ApartFetch ==
  ASSUME BlocksApart, OooInv, InFlightCached, Fetch
  PROVE  InFlightCached' /\ TranslationSpares
<1>1. /\ fetchrip \in Insn /\ current \in cached \cup {NoBlock} /\ cached \subseteq Insn
      /\ pipe \in Seq(PipeUop) /\ at[1] \in Nat
  BY DEF OooInv, TypeOK, CacheTypeOK
<1>2. PICK b, k, n, w :
        /\ b \in cached'
        /\ FetchUop(b, k, n, w) /\ Block[b][k] = b
        /\ cached \subseteq cached'
        /\ \A c \in cached : BlockPages(c) \cap dirty \subseteq dirty'
  <2>1. CASE current = NoBlock \/ at[1] > Len(Block[current])
    <3>1. FetchUop(fetchrip, 1, 1, written'[fetchrip]) /\ FetchOrTranslate(fetchrip)
      BY <2>1 DEF Fetch
    <3>2. /\ cached \subseteq cached' /\ fetchrip \in cached'
          /\ \A c \in cached : BlockPages(c) \cap dirty \subseteq dirty'
      BY <1>1, <3>1, ApartTranslate
    <3>3. Block[fetchrip][1] = fetchrip
      BY <1>1, BlockStart
    <3> QED
      BY <3>1, <3>2, <3>3
  <2>2. CASE ~(current = NoBlock \/ at[1] > Len(Block[current]))
    <3>1. /\ FetchUop(current, at[1], at[2], written[current])
          /\ dirty' = dirty /\ cached' = cached
      BY <2>2 DEF Fetch, cacheVars
    <3>2. current \in cached /\ current \in Insn
      BY <1>1, <2>2
    <3>3. Len(Block[current]) = 1
      BY <3>2, ApartBlocks
    <3>4. at[1] \in 1..(Len(Block[current]) + 1)
      BY <2>2 DEF OooInv, FetchInBlock
    <3>5. at[1] = 1
      BY <1>1, <2>2, <3>3, <3>4
    <3>6. Block[current][at[1]] = current
      BY <3>2, <3>5, BlockStart
    <3> QED
      BY <3>1, <3>2, <3>6
  <2> QED
    BY <2>1, <2>2
<1>3. ASSUME NEW j \in 1..Len(pipe') PROVE pipe'[j].insn \in cached'
  <2>1. CASE j \in 1..Len(pipe) /\ pipe'[j] = pipe[j]
    BY <1>2, <2>1 DEF InFlightCached
  <2>2. CASE pipe'[j].insn = Block[b][k]
    BY <1>2, <2>2
  <2> QED
    BY <1>2, <2>1, <2>2, FetchPipe
<1>4. ASSUME NEW j \in 1..Len(pipe)
      PROVE  InsnPages(pipe[j].insn) \cap dirty \subseteq dirty'
  <2>1. pipe[j].insn \in cached /\ pipe[j].insn \in Insn
    BY <1>1 DEF InFlightCached
  <2>2. InsnPages(pipe[j].insn) \subseteq BlockPages(pipe[j].insn)
    BY <2>1, ApartBlocks
  <2> QED
    BY <1>2, <2>1, <2>2
<1> QED
  BY <1>3, <1>4 DEF InFlightCached, TranslationSpares

\* With blocks apart, every step keeps the blocks in flight cached.
LEMMA ApartStep ==
  ASSUME BlocksApart
  PROVE  OooInv /\ InFlightCached /\ [Next]_vars => InFlightCached' /\ [TranslationSpares]_vars
<1>1. OooInv /\ InFlightCached => TranslationSpares
  BY ApartFetch DEF TranslationSpares
<1> SUFFICES ASSUME OooInv, InFlightCached, [Next]_vars PROVE InFlightCached'
  BY <1>1
<1>2. ASSUME pipe' = pipe, cached' = cached PROVE InFlightCached'
  BY <1>2 DEF InFlightCached
<1>3. CASE UNCHANGED vars
  BY <1>2, <1>3 DEF vars, coreVars
<1>4. CASE Fetch
  BY <1>4, ApartFetch
<1>5. ASSUME NEW i \in 1..Len(pipe), NEW t \in Insn, Mispredict(i, t) PROVE InFlightCached'
  <2>1. \A j \in 1..Len(pipe') : pipe'[j].insn \in cached
    BY <1>5, MispredictPipe DEF InFlightCached
  <2>2. cached' = cached
    BY <1>5 DEF Mispredict, cacheVars
  <2> QED
    BY <2>1, <2>2 DEF InFlightCached
<1>6. CASE CommitUop
  <2>1. ASSUME NEW j \in 1..Len(pipe') PROVE pipe'[j].insn \in cached'
    BY <1>6, <2>1, CommitPipe DEF InFlightCached
  <2> QED
    BY <2>1 DEF InFlightCached
<1>7. CASE DetectSmc
  BY <1>2, <1>7 DEF DetectSmc, cacheVars
<1>8. CASE EndCommit
  BY <1>2, <1>8 DEF EndCommit, cacheVars
<1>9. CASE NextCycle
  <2>1. CASE pipe' = pipe /\ UNCHANGED cacheVars
    BY <1>2, <2>1 DEF cacheVars
  <2>2. CASE pipe' = << >>
    BY <2>2 DEF InFlightCached
  <2> QED
    BY <1>9, <2>1, <2>2, NextCyclePipe
<1> QED
  BY <1>3, <1>4, <1>5, <1>6, <1>7, <1>8, <1>9 DEF Next

(***************************************************************************)
(* If the blocks of the program lie on pages apart, the checks of commit() *)
(* suffice whatever the stores, mispredictions, copy_to_user() assists and *)
(* mapping calls, as long as no system call write()s to the code: a block  *)
(* with uops in flight stays in the cache until the flush, so it is not    *)
(* translated again under them, and no macro-op that was translated before *)
(* a store to its pages starts to commit.                                  *)
(***************************************************************************)
THEOREM OooNoStaleCommit == ASSUME BlocksApart, CallsAvoidCode PROVE Spec => NoStaleCommit
<1>1. Init => InFlightCached /\ InFlightMarked
  BY DEF Init, InFlightCached, InFlightMarked
<1> QED
  BY <1>1, OooInitInv, OooStepInv, OooCacheInit, OooCacheStep, ApartStep, MarkedStep,
     MarkedCommit, PTL DEF Spec, NoStaleCommit

=============================================================================

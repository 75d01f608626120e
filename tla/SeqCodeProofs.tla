--------------------------- MODULE SeqCodeProofs ---------------------------
(***************************************************************************)
(* The sequential core.  The types hold for every program; the block cache *)
(* stays coherent for programs whose own stores and system calls write to  *)
(* no page of their code (StoresAvoidCode, CallsAvoidCode), so that only   *)
(* copy_to_user() and mapping calls change it; and no stale instruction    *)
(* starts in those whose watched pages are the right ones (WatchCovers).   *)
(***************************************************************************)
EXTENDS SeqCode, CodeCacheProofs

(***************************************************************************)
(* The block being executed may have left the cache, so its history is     *)
(* kept apart; as long as it runs, what was stored to its pages is dirty.  *)
(***************************************************************************)
RunningDirty == bb # NoBlock => bbwritten \cap BlockPages(bb) \subseteq dirty

SeqInv == CacheInv /\ TypeOK /\ RunningDirty

-----------------------------------------------------------------------------
\* The uops of an instruction.
LEMMA UopFacts ==
  ASSUME NEW i \in Insn
  PROVE  Uops[i] \in Seq(UopKind) /\ Len(Uops[i]) \in Nat \ {0}
<1>1. Uops[i] \in Seq(UopKind) /\ Uops[i] # << >>
  BY ProgramAssumption
<1> QED
  BY <1>1

\* The first instruction of a block is the one the block is named after.
LEMMA BlockStart == ASSUME NEW b \in Insn PROVE Block[b][1] = b
  BY ProgramAssumption

\* An assist ends its block.
LEMMA AssistEnds ==
  ASSUME NEW b \in Insn, NEW k \in 1..Len(Block[b]), NEW n \in 1..Len(Uops[Block[b][k]]),
         Uops[Block[b][k]][n] = "assist"
  PROVE  k = Len(Block[b]) /\ n = Len(Uops[Block[b][k]])
  BY ProgramAssumption

\* What a uop does to the cache keeps the types, whatever a store marks.
LEMMA EffectTypes ==
  ASSUME CacheTypeOK, NEW w \in SUBSET Page, Effect(w)
  PROVE  CacheTypeOK'
<1>1. CASE UNCHANGED cacheVars
  BY <1>1 DEF cacheVars, CacheTypeOK
<1>2. ASSUME NEW p \in StoreTarget, StoreUnmarked(p)
      PROVE  CacheTypeOK'
  <2>1. ASSUME NEW b \in cached PROVE WrittenBy(b, written[b], {p}) \subseteq Page
    BY StoreTargetAssumption DEF CacheTypeOK, WrittenBy
  <2>2. cached' = cached /\ written' = [b \in cached |-> WrittenBy(b, written[b], {p})]
    BY <1>2 DEF StoreUnmarked
  <2>3. dirty' \subseteq Page
    BY <1>2 DEF StoreUnmarked, CacheTypeOK
  <2> QED
    BY <2>1, <2>2, <2>3 DEF CacheTypeOK
<1>3. CASE AssistOn(w)
  BY <1>3, AssistTypes
<1> QED
  BY <1>1, <1>2, <1>3 DEF Effect

(***************************************************************************)
(* A store that avoids the code leaves no trace in the histories, so that  *)
(* it does not matter what it marks.                                       *)
(***************************************************************************)
LEMMA StoreUnmarkedInv ==
  ASSUME StoresAvoidCode, CacheInv, NEW p \in StoreTarget, StoreUnmarked(p)
  PROVE  CacheInv' /\ dirty \subseteq dirty'
<1>0. \A b \in Insn : BlockPages(b) \cap {p} = {}
  BY DEF StoresAvoidCode
<1>1. ASSUME NEW b \in cached PROVE WrittenBy(b, written[b], {p}) = written[b]
  BY <1>0, WrittenElsewhere DEF CacheInv
<1>2. cached' = cached /\ written' = [b \in cached |-> written[b]]
  BY <1>1 DEF StoreUnmarked
<1>3. dirty \subseteq dirty' /\ dirty' \subseteq Page
  BY DEF StoreUnmarked, CacheInv, CacheTypeOK
<1> QED
  BY <1>2, <1>3 DEF CacheInv, CacheTypeOK, CacheCoherent, BlockHistory

\* The effect of a uop on the cache.
LEMMA EffectInv ==
  ASSUME StoresAvoidCode, CallsAvoidCode, CacheInv, NEW w \in SUBSET Page, Effect(w)
  PROVE  /\ CacheInv'
         /\ Kind # "assist" => dirty \subseteq dirty' /\ \A b \in Insn : w \cap BlockPages(b) = {}
<1>1. CASE UNCHANGED cacheVars /\ w = {}
  BY <1>1, UnchangedInv DEF cacheVars
<1>2. CASE \E p \in StoreTarget : w = {p} /\ StoreUnmarked(p)
  BY <1>2, StoreUnmarkedInv DEF StoresAvoidCode
<1>3. CASE Kind = "assist" /\ AssistOn(w)
  BY <1>3, AssistInv
<1> QED
  BY <1>1, <1>2, <1>3 DEF Effect

-----------------------------------------------------------------------------
\* The initial states are well typed.
LEMMA SeqInitTypes == Init => TypeOK
  BY DEF Init, TypeOK, CacheInit, CacheTypeOK

\* Looking up the next block.
LEMMA BeginBlockTypes ==
  ASSUME TypeOK, BeginBlock
  PROVE  TypeOK' /\ bb' = rip /\ rip \in Insn /\ rip \in cached' /\ bbwritten' = written'[rip]
<1>1. rip \in Insn /\ rip' = rip /\ bb' = rip /\ at' = <<1, 1>> /\ watched' = {}
      /\ bbwritten' = written'[rip]
  BY DEF TypeOK, BeginBlock
<1>2. CacheTypeOK' /\ rip \in cached'
  BY <1>1, LookupTypes DEF TypeOK, BeginBlock
<1>3. /\ 1 \in 1..Len(Block[rip]) /\ Block[rip][1] = rip
      /\ 1 \in 1..Len(Uops[rip])
  BY <1>1, BlockFacts, BlockStart, UopFacts
<1>4. written'[rip] \subseteq Page
  BY <1>2 DEF CacheTypeOK
<1> QED
  BY <1>1, <1>2, <1>3, <1>4 DEF TypeOK, CurInsn

\* One uop is executed.
LEMMA ExecuteUopTypes ==
  ASSUME TypeOK, NEW w \in SUBSET Page, ExecuteUop(w)
  PROVE  TypeOK' /\ bb' \in {bb, NoBlock} /\ bb \in Insn
<1>1. /\ bb \in Insn /\ rip \in Insn
      /\ at[1] \in 1..Len(Block[bb]) /\ at[2] \in 1..Len(Uops[CurInsn])
  BY DEF TypeOK, ExecuteUop
<1>2. /\ CurInsn \in Insn /\ Len(Block[bb]) \in Nat \ {0} /\ Len(Uops[CurInsn]) \in Nat \ {0}
      /\ \A k \in 1..Len(Block[bb]) : Block[bb][k] \in Insn /\ Len(Uops[Block[bb][k]]) \in Nat \ {0}
  BY <1>1, BlockFacts, UopFacts DEF CurInsn
<1>3. CacheTypeOK'
  BY EffectTypes DEF TypeOK, ExecuteUop
<1>4. Watched \subseteq Nat
  <2>1. Mfnlo(bb) \in Nat /\ Mfnhi(bb, Bytes[CurInsn]) \in Nat
    <3>1. PageSize \in Nat \ {0} /\ bb \in Nat /\ Bytes[CurInsn] \in 1..PageSize
      BY <1>1, <1>2, ProgramAssumption
    <3>2. bb + Bytes[CurInsn] - 1 \in Nat
      BY <3>1
    <3>3. \A x \in Nat : x \div PageSize \in Nat
      BY <3>1, Z3
    <3> QED
      BY <3>1, <3>2, <3>3 DEF Mfnlo, Mfnhi
  <2> QED
    BY <2>1 DEF Watched, TypeOK
<1>5. /\ rip' \in Insn /\ bb' \in {bb, NoBlock}
      /\ bb' # NoBlock => /\ at'[1] \in 1..Len(Block[bb])
                          /\ at'[2] \in 1..Len(Uops[Block[bb][at'[1]]])
  <2>1. CASE ~Eom
    BY <2>1, <1>1, <1>2, SMTT(30) DEF ExecuteUop, Eom, CurInsn
  <2>2. CASE Eom /\ LastInsn
    <3>1. Succ[CurInsn] \subseteq Insn
      BY <1>2, ProgramAssumption
    <3> QED
      BY <2>2, <3>1 DEF ExecuteUop
  <2>3. CASE Eom /\ ~LastInsn
    <3>1. rip' = Block[bb][at[1] + 1] /\ at' = <<at[1] + 1, 1>> /\ bb' = bb
      BY <2>3 DEF ExecuteUop
    <3>2. at[1] + 1 \in 1..Len(Block[bb])
      BY <2>3, <1>1, <1>2 DEF LastInsn
    <3>3. Block[bb][at[1] + 1] \in Insn /\ 1 \in 1..Len(Uops[Block[bb][at[1] + 1]])
      BY <1>2, <3>2
    <3> QED
      BY <3>1, <3>2, <3>3
  <2> QED
    BY <2>1, <2>2, <2>3
<1>6. (bb # NoBlock => at[1] \in 1..Len(Block[bb]) /\ at[2] \in 1..Len(Uops[CurInsn]))'
  BY <1>5 DEF CurInsn
<1>7. watched' \subseteq Nat /\ bbwritten' \subseteq Page
  BY <1>3, <1>4 DEF TypeOK, ExecuteUop
<1> QED
  BY <1>1, <1>3, <1>5, <1>6, <1>7 DEF TypeOK

\* Every step keeps the types.
LEMMA SeqStepTypes == TypeOK /\ [Next]_vars => TypeOK'
<1> SUFFICES ASSUME TypeOK, [Next]_vars PROVE TypeOK'
  OBVIOUS
<1>1. CASE UNCHANGED vars
  BY <1>1 DEF vars, TypeOK, CacheTypeOK, CurInsn
<1>2. CASE DetectSmc
  <2>1. CacheTypeOK'
    BY <1>2, InvalidateTypes DEF TypeOK, DetectSmc, InvalidateWatched
  <2> QED
    BY <1>2, <2>1 DEF TypeOK, DetectSmc
<1> QED
  BY <1>1, <1>2, BeginBlockTypes, ExecuteUopTypes DEF Next

-----------------------------------------------------------------------------
\* The initial states satisfy the invariant.
LEMMA SeqInitInv == Init => SeqInv
<1> SUFFICES ASSUME Init PROVE SeqInv
  OBVIOUS
<1>1. CacheInv
  BY CacheInitInv DEF Init
<1> QED
  BY <1>1, SeqInitTypes DEF Init, SeqInv, RunningDirty

\* Every step of a program that does not write to its code preserves the invariant.
LEMMA SeqStepInv ==
  ASSUME StoresAvoidCode, CallsAvoidCode
  PROVE  SeqInv /\ [Next]_vars => SeqInv'
<1> SUFFICES ASSUME SeqInv, [Next]_vars PROVE SeqInv'
  OBVIOUS
<1>0. TypeOK /\ TypeOK'
  BY SeqStepTypes DEF SeqInv
<1>1. CASE UNCHANGED vars
  <2>1. CacheInv'
    BY <1>1, UnchangedInv DEF vars, cacheVars, SeqInv
  <2> QED
    BY <1>0, <1>1, <2>1 DEF vars, SeqInv, RunningDirty
<1>2. CASE BeginBlock
  <2>1. bb' = rip /\ rip \in Insn /\ rip \in cached' /\ bbwritten' = written'[rip]
    BY <1>0, <1>2, BeginBlockTypes
  <2>2. CacheInv'
    BY <1>2, <2>1, FetchOrTranslateInv DEF SeqInv, BeginBlock
  <2>3. written'[rip] \subseteq dirty'
    BY <2>1, <2>2 DEF CacheInv, CacheCoherent
  <2> QED
    BY <1>0, <2>1, <2>2, <2>3 DEF SeqInv, RunningDirty
<1>3. CASE DetectSmc
  <2>1. CacheInv'
    BY <1>3, InvalidateInv DEF SeqInv, DetectSmc, InvalidateWatched
  <2> QED
    BY <1>0, <1>3, <2>1 DEF SeqInv, RunningDirty, DetectSmc
<1>4. ASSUME NEW w \in SUBSET Page, ExecuteUop(w) PROVE SeqInv'
  <2>1. bb' \in {bb, NoBlock} /\ bb \in Insn
    BY <1>0, <1>4, ExecuteUopTypes
  <2>2. /\ CacheInv'
        /\ Kind # "assist" => dirty \subseteq dirty' /\ w \cap BlockPages(bb) = {}
    BY <1>4, <2>1, EffectInv DEF SeqInv, ExecuteUop
  <2>3. CASE Kind = "assist"
    <3>1. Eom /\ LastInsn
      BY <1>0, <1>4, <2>1, <2>3, AssistEnds DEF TypeOK, Kind, CurInsn, Eom, LastInsn, ExecuteUop
    <3> QED
      BY <1>0, <1>4, <2>2, <3>1 DEF ExecuteUop, RunningDirty, SeqInv
  <2>4. CASE Kind # "assist"
    BY <1>0, <1>4, <2>1, <2>2, <2>4 DEF SeqInv, RunningDirty, ExecuteUop
  <2> QED
    BY <2>3, <2>4
<1> QED
  BY <1>1, <1>2, <1>3, <1>4 DEF Next

-----------------------------------------------------------------------------
(***************************************************************************)
(* execute() and the invalidation after SEQEXEC_SMC keep the variables in  *)
(* their types: the core never reads past the end of a block.              *)
(***************************************************************************)
THEOREM SeqTypeCorrect == Spec => []TypeOK
  BY SeqInitTypes, SeqStepTypes, PTL DEF Spec

(***************************************************************************)
(* If neither the program's stores nor the write()s of its system calls    *)
(* reach the code, the sequential core's use of the cache leaves no stale  *)
(* block on a clean page: neither the lookup, SEQEXEC_SMC, a store that    *)
(* marks any page at all, nor code changed by copy_to_user() and by        *)
(* mapping calls.  Both hypotheses are needed (StoreUnmarked, Overwrite).  *)
(***************************************************************************)
THEOREM SeqCacheCoherent ==
  ASSUME StoresAvoidCode, CallsAvoidCode
  PROVE  Spec => []CacheCoherent
<1>1. SeqInv => CacheCoherent
  BY DEF SeqInv, CacheInv
<1> QED
  BY <1>1, SeqInitInv, SeqStepInv, PTL DEF Spec

(***************************************************************************)
(* If moreover its blocks are watched correctly, execute() never starts an *)
(* instruction translated before copy_to_user() or a mapping call changed  *)
(* its pages.                                                              *)
(***************************************************************************)
THEOREM SeqNoStaleExecute ==
  ASSUME StoresAvoidCode, CallsAvoidCode, WatchCovers
  PROVE  Spec => []NoStaleExecute
<1>1. SeqInv => NoStaleExecute
  <2> SUFFICES ASSUME SeqInv, bb # NoBlock, Som, Watched \cap dirty = {}
               PROVE  InsnPages(CurInsn) \cap bbwritten = {}
    BY DEF NoStaleExecute
  <2>1. bb \in Insn /\ at[1] \in 1..Len(Block[bb])
    BY DEF SeqInv, TypeOK
  <2>2. InsnPages(CurInsn) \subseteq Watched
    BY <2>1, WatchCovers DEF WatchCovers, CurInsn, Watched
  <2>3. InsnPages(CurInsn) \subseteq BlockPages(bb)
    BY <2>1, PagesListed DEF CurInsn
  <2> QED
    BY <2>2, <2>3 DEF SeqInv, RunningDirty
<1> QED
  BY <1>1, SeqInitInv, SeqStepInv, PTL DEF Spec

=============================================================================

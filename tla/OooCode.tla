------------------------------ MODULE OooCode ------------------------------
(***************************************************************************)
(* Self-modifying code in the out-of-order core: the fetch unit reads      *)
(* translated blocks while older stores are still to commit; commit()      *)
(* checks the dirty map when a macro-op starts and when it ends, and asks  *)
(* runcycle() to flush the pipeline and invalidate the pages (ooopipe.cpp, *)
(* ooocore.cpp).                                                           *)
(*                                                                         *)
(* The pipeline is the sequence of fetched uops, from the fetch queue to   *)
(* the head of the ROB; when a macro-op becomes ready to commit is open.   *)
(* Exceptions are left out.                                                *)
(***************************************************************************)
EXTENDS CodeCache

CONSTANTS
  NoBlock,      \* current_basic_block is null
  PipeSize,     \* the most uops in flight
  CommitWidth   \* COMMIT_WIDTH

ASSUME SizeAssumption == PipeSize \in Nat \ {0} /\ CommitWidth \in Nat \ {0} /\ NoBlock \notin Insn

VARIABLES
  pipe,         \* uops in flight, oldest first
  fetchrip,     \* ThreadContext::fetchrip
  current,      \* current_basic_block
  at,           \* the instruction of the block being fetched and its next uop
  stalled,      \* stall_frontend: an assist has been fetched
  commitrip,    \* ctx.commitarf[REG_rip]
  smc,          \* smc_invalidate_rvp, or NoBlock unless smc_invalidate_pending
  stage,        \* "commit" while ThreadContext::commit() runs, then "pipeline"
  commitcount,  \* uops committed in this cycle
  commitrc      \* the COMMIT_RESULT that ended the commit stage

coreVars == <<pipe, fetchrip, current, at, stalled, commitrip, smc, stage, commitcount, commitrc>>
vars == <<dirty, cached, written, coreVars>>

(***************************************************************************)
(* A uop in flight: uop k of insn; the last one is predicted, or resolved, *)
(* to be followed by instruction next.  written is the history its block   *)
(* had when it was fetched, kept up to date since.                         *)
(***************************************************************************)
PipeUop == [insn: Insn, k: Nat, next: Insn, written: SUBSET Page]

Som(e) == e.k = 1
Eom(e) == e.k = Len(Uops[e.insn])
Kind(e) == Uops[e.insn][e.k]

\* The uop was translated from bytes that have been overwritten since.
Stale(e) == InsnPages(e.insn) \cap e.written # {}

Init ==
  /\ CacheInit
  /\ pipe = << >>
  /\ commitrip \in Insn
  /\ fetchrip = commitrip
  /\ current = NoBlock /\ at = <<1, 1>>
  /\ stalled = FALSE
  /\ smc = NoBlock
  /\ stage = "pipeline" /\ commitcount = 0 /\ commitrc = "ok"

-----------------------------------------------------------------------------
(***************************************************************************)
(* fetch() of one uop.  At the end of a block (or after a redirection) the *)
(* reference to the old block is released and the block at fetchrip looked *)
(* up or translated.                                                       *)
(***************************************************************************)
NextInsns(b, k) == IF k < Len(Block[b]) THEN {Block[b][k + 1]} ELSE Succ[Block[b][k]]

FetchUop(b, k, n, w) ==
  LET i == Block[b][k]
  IN  /\ \E next \in (IF n = Len(Uops[i]) THEN NextInsns(b, k) ELSE {i}) :
           /\ pipe' = Append(pipe, [insn |-> i, k |-> n, next |-> next, written |-> w])
           /\ fetchrip' = next
      /\ at' = IF n < Len(Uops[i]) THEN <<k, n + 1>> ELSE <<k + 1, 1>>
      /\ stalled' = (Uops[i][n] = "assist")
      /\ UNCHANGED <<commitrip, smc, stage, commitcount, commitrc>>

Fetch ==
  /\ stage = "pipeline" /\ ~stalled /\ Len(pipe) < PipeSize
  /\ IF current = NoBlock \/ at[1] > Len(Block[current])
     THEN /\ FetchOrTranslate(fetchrip)
          /\ current' = fetchrip
          /\ FetchUop(fetchrip, 1, 1, written'[fetchrip])
     ELSE /\ FetchUop(current, at[1], at[2], written[current])
          /\ UNCHANGED <<current, cacheVars>>

\* Mutant: the block being fetched is not released.
ResetFetchUnit_KeepsBlock(rip) ==
  /\ fetchrip' = rip
  /\ UNCHANGED <<current, at>>
  /\ stalled' = FALSE

\* reset_fetch_unit(): the block being fetched is released.
ResetFetchUnit(rip) ==
  /\ fetchrip' = rip
  /\ current' = NoBlock /\ at' = <<1, 1>>
  /\ stalled' = FALSE

\* A branch at the end of a block turns out to go to t: annul_after() it.
Mispredict(j, t) ==
  LET e == pipe[j]
  IN  /\ stage = "pipeline"
      /\ Eom(e) /\ Kind(e) # "assist" /\ Len(Block[e.insn]) = 1
      /\ t \in Succ[e.insn] \ {e.next}
      /\ pipe' = Append(SubSeq(pipe, 1, j - 1), [e EXCEPT !.next = t])
      /\ ResetFetchUnit(t)
      /\ UNCHANGED <<cacheVars, commitrip, smc, stage, commitcount, commitrc>>

-----------------------------------------------------------------------------
\* Mutant: an instruction that crosses into a dirty page is not noticed.
CodeDirty_LowOnly(i) == Mfnlo(i) \in dirty

\* The check of commit(): a page of the instruction is dirty.
CodeDirty(i) == InsnPages(i) \cap dirty # {}

CommitReady == /\ stage = "commit" /\ commitrc = "ok"
               /\ pipe # << >> /\ commitcount < CommitWidth
               \* every uop of the macro-op is in the ROB
               /\ \E j \in 1..Len(pipe) : Eom(pipe[j])

\* A macro-op on a dirty page does not start.
DetectSmc ==
  /\ CommitReady
  /\ Som(Head(pipe)) /\ CodeDirty(Head(pipe).insn)
  /\ smc' = Head(pipe).insn
  /\ commitrc' = "smc"
  /\ UNCHANGED <<cacheVars, pipe, fetchrip, current, at, stalled, commitrip, stage, commitcount>>

(***************************************************************************)
(* One uop commits.  At its end a macro-op on a dirty page (its own stores *)
(* may have dirtied it) commits and asks for invalidation; the store of    *)
(* this very uop takes effect after that check.                            *)
(***************************************************************************)
CommitUop ==
  LET e == Head(pipe)
      seen == Eom(e) /\ CodeDirty(e.insn)
      rest == Tail(pipe)
  IN  /\ CommitReady
      /\ ~(Som(e) /\ CodeDirty(e.insn))
      /\ \/ /\ Kind(e) = "st"
            /\ \E p \in Page :
                 /\ StoreTo({p})
                 /\ pipe' = [j \in 1..Len(rest) |-> [rest[j] EXCEPT !.written = @ \cup {p}]]
         \/ /\ Kind(e) # "st"
            /\ pipe' = rest
            /\ UNCHANGED cacheVars
      /\ commitrip' = IF Eom(e) THEN e.next ELSE commitrip
      /\ smc' = IF seen THEN e.insn ELSE smc
      /\ commitrc' = IF seen THEN "smc" ELSE IF Kind(e) = "assist" THEN "barrier" ELSE "ok"
      /\ commitcount' = IF commitrc' = "ok" THEN commitcount + 1 ELSE commitcount
      /\ UNCHANGED <<fetchrip, current, at, stalled, stage>>

\* The commit loop ends: the width is used up, an uop is not ready, or a result.
EndCommit ==
  /\ stage = "commit"
  /\ stage' = "pipeline"
  /\ UNCHANGED <<cacheVars, pipe, fetchrip, current, at, stalled, commitrip, smc, commitcount, commitrc>>

-----------------------------------------------------------------------------
\* Mutant: the pages are not invalidated after the flush.
InvalidateSmc_Skipped(i) == UNCHANGED cacheVars

\* invalidate_smc(), once the pipeline is flushed.
InvalidateSmc(i) == InvalidatePages({Mfnlo(i), Mfnhi(i, PageSize)})

\* The assist runs once the pipeline is flushed.
Assist == \E P \in SUBSET Page : AssistOn(P)

\* flush_pipeline()
FlushPipeline == pipe' = << >> /\ ResetFetchUnit(commitrip)

(***************************************************************************)
(* The end of runcycle() handles the result of commit(); the next cycle    *)
(* begins with commit() again.                                             *)
(***************************************************************************)
NextCycle ==
  /\ stage = "pipeline"
  /\ stage' = "commit" /\ commitcount' = 0 /\ commitrc' = "ok"
  /\ \/ /\ commitrc = "ok"
        /\ UNCHANGED <<cacheVars, pipe, fetchrip, current, at, stalled, smc>>
     \/ /\ commitrc = "smc"
        /\ FlushPipeline
        /\ InvalidateSmc(smc)
        /\ smc' = NoBlock
     \/ /\ commitrc = "barrier"
        /\ FlushPipeline
        /\ Assist
        /\ UNCHANGED smc
  /\ UNCHANGED commitrip

Next ==
  \/ Fetch
  \/ \E j \in 1..Len(pipe), t \in Insn : Mispredict(j, t)
  \/ DetectSmc \/ CommitUop \/ EndCommit \/ NextCycle

(***************************************************************************)
(* runcycle() runs every stage in every cycle, and a uop at the head of    *)
(* the ROB completes after finitely many cycles: it may be found not ready *)
(* any number of times, but not for ever.                                  *)
(***************************************************************************)
Fairness ==
  /\ WF_vars(EndCommit) /\ WF_vars(NextCycle)
  /\ SF_vars(Fetch) /\ SF_vars(DetectSmc) /\ SF_vars(CommitUop)

Spec == Init /\ [][Next]_vars /\ Fairness

-----------------------------------------------------------------------------
(***************************************************************************)
(* The types of the variables.                                             *)
(***************************************************************************)
TypeOK ==
  /\ CacheTypeOK
  /\ pipe \in Seq(PipeUop)
  /\ fetchrip \in Insn /\ commitrip \in Insn
  /\ current \in cached \cup {NoBlock}
  /\ at \in Nat \X Nat
  /\ stalled \in BOOLEAN
  /\ smc \in Insn \cup {NoBlock}
  /\ stage \in {"commit", "pipeline"}
  /\ commitcount \in 0..CommitWidth
  /\ commitrc \in {"ok", "smc", "barrier"}

(***************************************************************************)
(* Programs on which the checks of commit() are enough: no page holds code *)
(* of two blocks, nor follows a page with code of another block (translate *)
(* cleans both pages).                                                     *)
(***************************************************************************)
TranslatePages(b) == {Mfnlo(b), Mfnhi(b, PageSize)}

BlocksApart == \A b, c \in Insn : b # c => TranslatePages(b) \cap BlockPages(c) = {}

(***************************************************************************)
(* No macro-op starts to commit that was translated before a store to its  *)
(* pages committed ("if so we do not execute it but invalidate all bb      *)
(* caches immediately").  Only a commit changes the pipe in this stage.    *)
(* Claimed of programs with BlocksApart and CallsAvoidCode: OooStale shows *)
(* why the first is needed; without the second a read() into a code page   *)
(* leaves that page clean and its old blocks in use.                       *)
(***************************************************************************)
NoStaleCommit ==
  [][stage = "commit" /\ pipe' # pipe /\ Som(Head(pipe)) => ~Stale(Head(pipe))]_vars

(***************************************************************************)
(* Self-modifying code makes progress: uops keep committing although       *)
(* macro-ops are flushed and retranslated ("Let this uop commit to prevent *)
(* livelock!").                                                            *)
(***************************************************************************)
KeepsCommitting == []<><<CommitUop>>_vars

=============================================================================

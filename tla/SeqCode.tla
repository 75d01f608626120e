------------------------------ MODULE SeqCode ------------------------------
(***************************************************************************)
(* Self-modifying code in the sequential core (seqcore.cpp): execute()     *)
(* looks up the block at the current rip and runs its uops one by one; in  *)
(* front of every uop the watched pages are checked, and a dirty one ends  *)
(* the block with SEQEXEC_SMC, to be retried from the current instruction. *)
(* A store of the program marks an unpredictable page (StoreUnmarked); an  *)
(* assist does to code what CodeCache!AssistOn says.  Exceptions are left  *)
(* out.                                                                    *)
(***************************************************************************)
EXTENDS CodeCache

CONSTANTS
  NoBlock,      \* between two calls of execute()
  StoreTarget   \* the pages that the program's own stores go to

ASSUME NoBlockAssumption == NoBlock \notin Insn
ASSUME StoreTargetAssumption == StoreTarget \subseteq Page

VARIABLES
  rip,       \* arf[REG_rip]
  bb,        \* the block being executed
  at,        \* the instruction in it and the uop to execute next
  watched,   \* rvp.mfnlo and rvp.mfnhi
  bbwritten  \* history: pages of bb stored to since it was translated

vars == <<dirty, cached, written, rip, bb, at, watched, bbwritten>>

CurInsn == Block[bb][at[1]]
Kind == Uops[CurInsn][at[2]]
Som == at[2] = 1

\* Mutant: one uop too many.
Eom_OneLate == at[2] > Len(Uops[CurInsn])

Eom == at[2] = Len(Uops[CurInsn])

Init ==
  /\ CacheInit
  /\ rip \in Insn
  /\ bb = NoBlock /\ at = <<1, 1>> /\ watched = {} /\ bbwritten = {}

\* execute() without arguments: fetch_or_translate_basic_block(rip).
BeginBlock ==
  /\ bb = NoBlock
  /\ FetchOrTranslate(rip)
  /\ bb' = rip
  /\ at' = <<1, 1>>
  /\ watched' = {}
  /\ bbwritten' = written'[rip]
  /\ UNCHANGED rip

\* Mutant: the page of the last byte is not watched.
Watched_LowOnly == IF Som THEN {Mfnlo(bb)} ELSE watched

(***************************************************************************)
(* The pages checked in front of the uop.  At the first uop of an          *)
(* instruction rvp.update(ctx, uop.bytes) recomputes them, from the length *)
(* of the instruction and rvp.rip, which is the address of the block.      *)
(***************************************************************************)
Watched == IF Som THEN {Mfnlo(bb), Mfnhi(bb, Bytes[CurInsn])} ELSE watched

\* Mutant: only the pages are marked clean, their blocks stay.
InvalidateWatched_KeepsBlocks == dirty' = dirty \ Watched /\ UNCHANGED <<cached, written>>

\* Mutant: SEQEXEC_SMC without the invalidation.
InvalidateWatched_Skipped == UNCHANGED cacheVars

InvalidateWatched == InvalidatePages(Watched)

\* SEQEXEC_SMC: invalidate and retry at the instruction that rip points to.
DetectSmc ==
  /\ bb # NoBlock
  /\ Watched \cap dirty # {}
  /\ InvalidateWatched
  /\ bb' = NoBlock
  /\ UNCHANGED <<rip, at, watched, bbwritten>>

(***************************************************************************)
(* storemask() and setdirty(sfr.smc_mfn).  The sequential core never sets  *)
(* smc_mfn (only the out-of-order core does, oooexec.cpp:793), so the page *)
(* marked is whatever the uninitialised field holds: any page, or one that *)
(* has nothing to do with the program.                                     *)
(***************************************************************************)
StoreUnmarked(p) ==
  /\ \E marked \in {{}} \cup {{q} : q \in Page} : dirty' = dirty \cup marked
  /\ written' = [b \in cached |-> WrittenBy(b, written[b], {p})]
  /\ UNCHANGED cached

\* What a uop does to the code: a store, or an assist; w is the pages it writes.
Effect(w) ==
  \/ /\ Kind = "op"
     /\ w = {} /\ UNCHANGED cacheVars
  \/ /\ Kind = "st"
     /\ \E p \in StoreTarget : w = {p} /\ StoreUnmarked(p)
  \/ /\ Kind = "assist"
     /\ AssistOn(w)

LastInsn == at[1] = Len(Block[bb])

\* One uop is executed and committed; the last one of an instruction moves rip.
ExecuteUop(w) ==
  /\ bb # NoBlock
  /\ Watched \cap dirty = {}
  /\ Effect(w)
  /\ bbwritten' = bbwritten \cup w
  /\ watched' = Watched
  /\ IF ~Eom
     THEN at' = <<at[1], at[2] + 1>> /\ UNCHANGED <<rip, bb>>
     ELSE IF LastInsn
     THEN rip' \in Succ[CurInsn] /\ bb' = NoBlock /\ UNCHANGED at
     ELSE rip' = Block[bb][at[1] + 1] /\ at' = <<at[1] + 1, 1>> /\ UNCHANGED bb

Next == BeginBlock \/ DetectSmc \/ \E w \in SUBSET Page : ExecuteUop(w)

\* SequentialMachine::run() calls execute() until the run is over.
Spec == Init /\ [][Next]_vars /\ WF_vars(Next)

-----------------------------------------------------------------------------
(***************************************************************************)
(* The types of the variables.                                             *)
(***************************************************************************)
TypeOK ==
  /\ CacheTypeOK
  /\ rip \in Insn
  /\ bb \in Insn \cup {NoBlock}
  /\ bb # NoBlock => at[1] \in 1..Len(Block[bb]) /\ at[2] \in 1..Len(Uops[CurInsn])
  /\ watched \subseteq Nat /\ bbwritten \subseteq Page

(***************************************************************************)
(* No instruction starts that was translated before a store to its pages:  *)
(* "checking if any previous instruction has dirtied the page(s) on which  *)
(* the current instruction resides".  Claimed of programs with             *)
(* StoresAvoidCode, CallsAvoidCode and WatchCovers: neither a store nor a  *)
(* system call of this core marks the page it writes.                      *)
(***************************************************************************)
NoStaleExecute ==
  bb # NoBlock /\ Som /\ Watched \cap dirty = {} => InsnPages(CurInsn) \cap bbwritten = {}

(***************************************************************************)
(* The programs for which the watched pages are the right ones: no block   *)
(* goes on into its second page with an instruction that starts there.     *)
(***************************************************************************)
WatchCovers ==
  \A b \in Insn : \A k \in 1..Len(Block[b]) :
    InsnPages(Block[b][k]) \subseteq {Mfnlo(b), Mfnhi(b, Bytes[Block[b][k]])}

(***************************************************************************)
(* The programs whose own stores never reach the pages of their code; only *)
(* assists change it.                                                      *)
(***************************************************************************)
StoresAvoidCode == \A b \in Insn : BlockPages(b) \cap StoreTarget = {}

(***************************************************************************)
(* Instructions keep completing: self-modifying code is retried a finite   *)
(* number of times ("perfectly legal for a store to overwrite its own      *)
(* instruction bytes").                                                    *)
(***************************************************************************)
KeepsCompleting == []<><<bb # NoBlock /\ Eom /\ Watched \cap dirty = {}>>_vars

=============================================================================

----------------------------- MODULE CodeCache -----------------------------
(***************************************************************************)
(* The basic block cache and the dirty page map that keep translated code  *)
(* coherent with memory (decode-core.cpp, decode.h, addrspace.cpp).        *)
(*                                                                         *)
(* Code is translated a basic block at a time.  A block is keyed by the    *)
(* address of its first instruction and listed under the pages it covers.  *)
(* A store that the out-of-order core commits marks its page dirty, and so *)
(* does Context::copy_to_user(); a dirty page must be invalidated before   *)
(* code on it runs again.  AddressSpace::write(), through which the system *)
(* calls write, neither marks a page nor drops a block.  The two cores     *)
(* share this module: OooCode and SeqCode extend it.                       *)
(*                                                                         *)
(* Abstractions.  Memory contents are left out; instead every translation  *)
(* carries the set of its pages that were stored to since it was made      *)
(* (the history in written).  The page of an address is computed as in     *)
(* the code, with a small PageSize.  No code calls reclaim().              *)
(***************************************************************************)
EXTENDS Integers, Sequences, FiniteSets

CONSTANTS
  PageSize,   \* PAGE_SIZE
  Page,       \* the page frame numbers
  Insn,       \* addresses of the instructions of the program
  Bytes,      \* the length of an instruction
  Uops,       \* the uops of an instruction: "op", "st" or, at its end, "assist"
  Block,      \* the instructions translated into the block that starts at one
  Succ,       \* where the control flow may go after the last one of a block
  CallTarget  \* the pages that system calls change without marking them

UopKind == {"op", "st", "assist"}

VARIABLES
  dirty,      \* AddressSpace::dirtymap_
  cached,     \* the blocks in the cache, by their first instruction
  written     \* history: the pages of a cached block stored to since translation

cacheVars == <<dirty, cached, written>>

-----------------------------------------------------------------------------
\* RIPVirtPhys::update(): the pages of the first and the last of n bytes.
Mfnlo(i) == i \div PageSize
Mfnhi(i, n) == (i + n - 1) \div PageSize

InsnPages(i) == {Mfnlo(i), Mfnhi(i, Bytes[i])}

BlockBytes(b) == LET last == Block[b][Len(Block[b])] IN last + Bytes[last] - b

\* Mutant: a block that crosses into the next page is listed under the first only.
BlockPages_LowOnly(b) == {Mfnlo(b)}

\* The pages whose list holds block b; the high one if the block crosses into it.
BlockPages(b) == {Mfnlo(b), Mfnhi(b, BlockBytes(b))}

(***************************************************************************)
(* Programs as the decoder delivers them.  The instructions of a block     *)
(* follow each other, so each lies between the first and the last byte of  *)
(* the block; a block is shorter than a page (MAX_BB_BYTES); an assist is  *)
(* a barrier and ends its block.                                           *)
(***************************************************************************)
ASSUME ProgramAssumption ==
  /\ PageSize \in Nat \ {0}
  /\ Insn \subseteq Nat
  /\ Bytes \in [Insn -> 1..PageSize]
  /\ Uops \in [Insn -> Seq(UopKind) \ {<< >>}]
  /\ Block \in [Insn -> Seq(Insn) \ {<< >>}]
  /\ \A i \in Insn :
       /\ Block[i][1] = i
       /\ \A k \in 1..(Len(Block[i]) - 1) : Block[i][k + 1] = Block[i][k] + Bytes[Block[i][k]]
       /\ \A k \in 1..Len(Block[i]) :
            /\ i <= Block[i][k]
            /\ Block[i][k] + Bytes[Block[i][k]] <= i + BlockBytes(i)
            /\ \A n \in 1..Len(Uops[Block[i][k]]) :
                 Uops[Block[i][k]][n] = "assist" =>
                   k = Len(Block[i]) /\ n = Len(Uops[Block[i][k]])
       /\ BlockBytes(i) <= PageSize
  /\ Succ \in [Insn -> (SUBSET Insn) \ {{}}]

ASSUME CallTargetAssumption == CallTarget \subseteq Page

-----------------------------------------------------------------------------
\* What is left of a history of stores when the pages in P have been stored to.
WrittenBy(b, w, P) == w \cup (P \cap UNION {InsnPages(Block[b][k]) : k \in 1..Len(Block[b])})

\* The out-of-order core commits a store, or copy_to_user() writes to the pages P.
StoreTo(P) ==
  /\ dirty' = dirty \cup P
  /\ written' = [b \in cached |-> WrittenBy(b, written[b], P)]
  /\ UNCHANGED cached

(***************************************************************************)
(* AddressSpace::write() of a system call (the buffer of read(), the words *)
(* of pipe(), uname(), ...) copies into the pages P and does nothing else. *)
(* So does a map() that runs out of memory half-way: the pages it has      *)
(* replaced by then stay replaced, and invalidate_decoded_code() is not    *)
(* reached.                                                                *)
(***************************************************************************)
Overwrite(P) ==
  /\ written' = [b \in cached |-> WrittenBy(b, written[b], P)]
  /\ UNCHANGED <<dirty, cached>>

(***************************************************************************)
(* invalidate_page() of each page in P: the page is clean again and every  *)
(* block listed under it is freed.  invalidate() refuses to free a block   *)
(* that the fetch unit refers to; every caller has released its block by   *)
(* then.                                                                   *)
(***************************************************************************)
Listed(P) == {b \in cached : BlockPages(b) \cap P # {}}

InvalidatePages(P) ==
  /\ dirty' = dirty \ P
  /\ cached' = cached \ Listed(P)
  /\ written' = [b \in cached \ Listed(P) |-> written[b]]

(***************************************************************************)
(* translate(): the dirty pages among the two that a block starting at i   *)
(* may cover are invalidated first; then the block is made from the        *)
(* current bytes and listed under its pages, which become clean.           *)
(***************************************************************************)
TranslateInvalidates(i) == {Mfnlo(i), Mfnhi(i, PageSize)} \cap dirty

Translate(i) ==
  LET left == cached \ Listed(TranslateInvalidates(i))
  IN  /\ dirty' = dirty \ (TranslateInvalidates(i) \cup BlockPages(i))
      /\ cached' = left \cup {i}
      /\ written' = [b \in left \cup {i} |-> IF b \in left THEN written[b] ELSE {}]

\* fetch_or_translate_basic_block(): a cached block is used whatever dirty says.
FetchOrTranslate(i) == IF i \in cached THEN UNCHANGED cacheVars ELSE Translate(i)

(***************************************************************************)
(* What an assist does to code.  Nothing; or write to memory and mark the  *)
(* pages (the x87 and FXSAVE assists, by copy_to_user()); or, if it is a   *)
(* system call, map, unmap or protect pages, which drops their blocks      *)
(* (invalidate_decoded_code()), or change memory without telling the       *)
(* cache.                                                                  *)
(***************************************************************************)
AssistOn(P) ==
  \/ P = {} /\ UNCHANGED cacheVars
  \/ StoreTo(P)
  \/ InvalidatePages(P)
  \/ P \subseteq CallTarget /\ Overwrite(P)

CacheInit == dirty = {} /\ cached = {} /\ written = [b \in {} |-> {}]

-----------------------------------------------------------------------------
CacheTypeOK ==
  /\ dirty \subseteq Page
  /\ cached \subseteq Insn
  /\ written \in [cached -> SUBSET Page]

(***************************************************************************)
(* A cached block that no longer agrees with memory is always marked: each *)
(* of its pages stored to since its translation is dirty.  So neither      *)
(* translate() (which cleans pages), invalidate_page(), the SMC handlers   *)
(* nor a system call may clean a page and leave a block of it behind.      *)
(* It is claimed of programs with CallsAvoidCode only: a write() to code   *)
(* leaves the page clean and its blocks in the cache.                      *)
(***************************************************************************)
CacheCoherent == \A b \in cached : written[b] \subseteq dirty

(***************************************************************************)
(* The programs whose system calls write to no page of their code: code is *)
(* changed by the stores of the program, by x87 and FXSAVE assists and by  *)
(* mapping calls that succeed.                                             *)
(***************************************************************************)
CallsAvoidCode == \A b \in Insn : BlockPages(b) \cap CallTarget = {}

=============================================================================

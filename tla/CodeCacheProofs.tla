-------------------------- MODULE CodeCacheProofs --------------------------
(***************************************************************************)
(* The basic block cache stays coherent with the dirty map: each operation *)
(* of CodeCache preserves CacheInv, except for a write() of a system call  *)
(* to code, which CallsAvoidCode excludes.  The proofs for the two cores   *)
(* (OooCodeProofs, SeqCodeProofs) cite these lemmas.                       *)
(*                                                                         *)
(* CacheCoherent is not inductive: that invalidating a page frees every    *)
(* block stored to on it needs that a block is listed under all the pages  *)
(* its instructions lie on (BlockHistory, from PagesListed).               *)
(***************************************************************************)
EXTENDS CodeCache, TLAPS

\* The history of a cached block names only pages it is listed under.
BlockHistory == \A b \in cached : written[b] \subseteq BlockPages(b)

CacheInv == CacheTypeOK /\ CacheCoherent /\ BlockHistory

-----------------------------------------------------------------------------
\* The page of an address grows with the address.
LEMMA PageMonotone ==
  ASSUME NEW P \in Nat \ {0}, NEW a \in Nat, NEW b \in Nat, a <= b
  PROVE  a \div P <= b \div P
<1> DEFINE qa == a \div P
           qb == b \div P
<1>1. /\ qa \in Int /\ a = P * qa + (a % P) /\ a % P \in 0..(P - 1)
      /\ qb \in Int /\ b = P * qb + (b % P) /\ b % P \in 0..(P - 1)
  BY Z3
<1>2. ASSUME qa >= qb + 1 PROVE FALSE
  <2>1. P * qa >= P * (qb + 1)
    BY <1>1, <1>2, Z3
  <2> QED
    BY <1>1, <2>1, Z3
<1> QED
  BY <1>1, <1>2, Z3

\* A range of at most P bytes lies on the page of its first byte and the next.
LEMMA PageNext ==
  ASSUME NEW P \in Nat \ {0}, NEW a \in Nat, NEW n \in 1..P
  PROVE  (a + n - 1) \div P \in {a \div P, (a \div P) + 1}
<1>1. a + n - 1 \in Nat /\ a + P \in Nat /\ a <= a + n - 1 /\ a + n - 1 <= a + P
  OBVIOUS
<1>2. (a + P) \div P = (a \div P) + 1
  BY Z3
<1>3. a \div P <= (a + n - 1) \div P /\ (a + n - 1) \div P <= (a + P) \div P
  BY <1>1, PageMonotone
<1>4. a \div P \in Int /\ (a + n - 1) \div P \in Int
  BY <1>1, Z3
<1> QED
  BY <1>2, <1>3, <1>4

\* A block of the program ends where its last instruction ends.
LEMMA BlockFacts ==
  ASSUME NEW b \in Insn
  PROVE  /\ b \in Nat /\ BlockBytes(b) \in 1..PageSize
         /\ Block[b] \in Seq(Insn) /\ Len(Block[b]) \in Nat \ {0}
         /\ \A k \in 1..Len(Block[b]) :
              /\ Block[b][k] \in Insn /\ Block[b][k] \in Nat
              /\ Bytes[Block[b][k]] \in 1..PageSize
              /\ b <= Block[b][k]
              /\ Block[b][k] + Bytes[Block[b][k]] <= b + BlockBytes(b)
<1>1. Block[b] \in Seq(Insn) /\ Len(Block[b]) \in Nat /\ Len(Block[b]) # 0
  BY ProgramAssumption
<1>2. ASSUME NEW k \in 1..Len(Block[b])
      PROVE  /\ Block[b][k] \in Insn /\ Block[b][k] \in Nat
             /\ Bytes[Block[b][k]] \in 1..PageSize
             /\ b <= Block[b][k]
             /\ Block[b][k] + Bytes[Block[b][k]] <= b + BlockBytes(b)
  <2>1. Block[b][k] \in Insn
    BY <1>1
  <2>2. Block[b][k] \in Nat /\ Bytes[Block[b][k]] \in 1..PageSize
    BY <2>1, ProgramAssumption
  <2>3. b <= Block[b][k] /\ Block[b][k] + Bytes[Block[b][k]] <= b + BlockBytes(b)
    BY ProgramAssumption
  <2> QED
    BY <2>1, <2>2, <2>3
<1>3. BlockBytes(b) \in 1..PageSize
  <2>1. /\ Block[b][Len(Block[b])] \in Nat /\ b <= Block[b][Len(Block[b])]
        /\ Bytes[Block[b][Len(Block[b])]] \in 1..PageSize
    BY <1>1, <1>2
  <2>2. b \in Nat /\ PageSize \in Nat /\ BlockBytes(b) <= PageSize
    BY ProgramAssumption
  <2> QED
    BY <2>1, <2>2, SMTT(30) DEF BlockBytes
<1> QED
  BY <1>1, <1>2, <1>3, ProgramAssumption

(***************************************************************************)
(* A block is listed under every page its instructions lie on, the ones in *)
(* the middle of the block included (BasicBlockCache::translate() adds it  *)
(* to the lists of mfnlo and mfnhi only).                                  *)
(***************************************************************************)
LEMMA PagesListed ==
  ASSUME NEW b \in Insn, NEW k \in 1..Len(Block[b])
  PROVE  InsnPages(Block[b][k]) \subseteq BlockPages(b)
<1> DEFINE i == Block[b][k]
           n == Bytes[i]
           m == BlockBytes(b)
           lo == b \div PageSize
           hi == (b + m - 1) \div PageSize
<1>1. /\ PageSize \in Nat \ {0} /\ b \in Nat /\ m \in 1..PageSize
      /\ i \in Nat /\ n \in 1..PageSize /\ b <= i /\ i + n <= b + m
  BY BlockFacts, ProgramAssumption
<1> HIDE DEF i, n, m
<1>2. /\ i + n - 1 \in Nat /\ b + m - 1 \in Nat
      /\ b <= i /\ i <= i + n - 1 /\ i + n - 1 <= b + m - 1
  BY <1>1
<1>3. lo <= i \div PageSize /\ i \div PageSize <= hi
  <2>1. i <= b + m - 1
    BY <1>1
  <2> QED
    BY <1>1, <1>2, <2>1, PageMonotone
<1>4. lo <= (i + n - 1) \div PageSize /\ (i + n - 1) \div PageSize <= hi
  <2>1. b <= i + n - 1
    BY <1>1
  <2> QED
    BY <1>1, <1>2, <2>1, PageMonotone
<1>5. hi \in {lo, lo + 1}
  BY <1>1, PageNext
<1>6. lo \in Int /\ i \div PageSize \in Int /\ (i + n - 1) \div PageSize \in Int
  BY <1>1, <1>2, Z3
<1>7. {i \div PageSize, (i + n - 1) \div PageSize} \subseteq {lo, hi}
  BY <1>3, <1>4, <1>5, <1>6
<1> QED
  BY <1>7 DEF InsnPages, BlockPages, Mfnlo, Mfnhi, i, n, m

(***************************************************************************)
(* translate() looks at the page of the first byte and the one after it;   *)
(* a block lies on no other page, so it cleans no page unchecked.          *)
(***************************************************************************)
LEMMA TranslateCleansListed ==
  ASSUME NEW b \in Insn
  PROVE  BlockPages(b) \cap dirty \subseteq TranslateInvalidates(b)
<1> DEFINE m == BlockBytes(b)
           lo == b \div PageSize
           hi == (b + m - 1) \div PageSize
           nx == (b + PageSize - 1) \div PageSize
<1>1. PageSize \in Nat \ {0} /\ b \in Nat /\ m \in 1..PageSize
  BY BlockFacts, ProgramAssumption
<1> HIDE DEF m
<1>2. /\ b <= b + m - 1 /\ b + m - 1 <= b + PageSize - 1
      /\ b + m - 1 \in Nat /\ b + PageSize - 1 \in Nat
  BY <1>1
<1>3. lo <= hi /\ hi <= nx
  BY <1>1, <1>2, PageMonotone
<1>4. nx \in {lo, lo + 1}
  BY <1>1, PageNext
<1>5. lo \in Int /\ hi \in Int
  BY <1>1, <1>2, Z3
<1>6. hi \in {lo, nx}
  BY <1>3, <1>4, <1>5
<1> QED
  BY <1>6 DEF BlockPages, TranslateInvalidates, Mfnlo, Mfnhi, m

-----------------------------------------------------------------------------
\* The operations on the cache keep the types.
LEMMA LookupTypes ==
  ASSUME CacheTypeOK, NEW i \in Insn, FetchOrTranslate(i)
  PROVE  CacheTypeOK' /\ i \in cached'
  BY DEF CacheTypeOK, FetchOrTranslate, Translate, cacheVars

LEMMA InvalidateTypes ==
  ASSUME CacheTypeOK, NEW P, InvalidatePages(P)
  PROVE  CacheTypeOK'
  BY DEF CacheTypeOK, InvalidatePages

LEMMA UnchangedTypes ==
  ASSUME CacheTypeOK, UNCHANGED cacheVars
  PROVE  CacheTypeOK'
  BY DEF CacheTypeOK, cacheVars

LEMMA AssistTypes ==
  ASSUME CacheTypeOK, NEW P \in SUBSET Page, StoreTo(P) \/ AssistOn(P)
  PROVE  CacheTypeOK'
<1>1. ASSUME NEW b \in cached PROVE WrittenBy(b, written[b], P) \subseteq Page
  BY DEF CacheTypeOK, WrittenBy
<1>2. CASE StoreTo(P)
  BY <1>1, <1>2 DEF StoreTo, CacheTypeOK
<1>3. CASE Overwrite(P)
  BY <1>1, <1>3 DEF Overwrite, CacheTypeOK
<1> QED
  BY <1>2, <1>3, UnchangedTypes, InvalidateTypes DEF AssistOn

\* The cache starts empty.
LEMMA CacheInitInv == CacheInit => CacheInv
  BY DEF CacheInit, CacheInv, CacheTypeOK, CacheCoherent, BlockHistory

\* A store is recorded in the dirty map together with the history.
LEMMA StoreInv ==
  ASSUME CacheInv, NEW P \in SUBSET Page, StoreTo(P)
  PROVE  CacheInv'
<1>1. ASSUME NEW b \in cached
      PROVE  /\ WrittenBy(b, written[b], P) \subseteq dirty \cup P
             /\ WrittenBy(b, written[b], P) \subseteq BlockPages(b)
             /\ WrittenBy(b, written[b], P) \subseteq Page
  <2>1. b \in Insn /\ written[b] \subseteq dirty /\ written[b] \subseteq BlockPages(b)
        /\ written[b] \subseteq Page
    BY DEF CacheInv, CacheTypeOK, CacheCoherent, BlockHistory
  <2>2. UNION {InsnPages(Block[b][k]) : k \in 1..Len(Block[b])} \subseteq BlockPages(b)
    BY <2>1, PagesListed
  <2> QED
    BY <2>1, <2>2 DEF WrittenBy
<1> QED
  BY <1>1 DEF CacheInv, CacheTypeOK, CacheCoherent, BlockHistory, StoreTo

\* A write to pages without code leaves the history of every cached block alone.
LEMMA WrittenElsewhere ==
  ASSUME CacheTypeOK, NEW P, \A b \in Insn : BlockPages(b) \cap P = {}, NEW b \in cached
  PROVE  WrittenBy(b, written[b], P) = written[b]
<1>1. b \in Insn
  BY DEF CacheTypeOK
<1>2. UNION {InsnPages(Block[b][k]) : k \in 1..Len(Block[b])} \subseteq BlockPages(b)
  BY <1>1, PagesListed
<1> QED
  BY <1>1, <1>2 DEF WrittenBy

\* So a system call that avoids the code may write without marking.
LEMMA OverwriteInv ==
  ASSUME CallsAvoidCode, CacheInv, NEW P \in SUBSET CallTarget, Overwrite(P)
  PROVE  CacheInv'
<1>1. \A b \in Insn : BlockPages(b) \cap P = {}
  BY DEF CallsAvoidCode
<1>2. cached' = cached /\ dirty' = dirty /\ written' = [b \in cached |-> written[b]]
  BY <1>1, WrittenElsewhere DEF Overwrite, CacheInv
<1> QED
  BY <1>2 DEF CacheInv, CacheTypeOK, CacheCoherent, BlockHistory

\* Invalidating pages leaves no block behind that was stored to on one of them.
LEMMA InvalidateInv ==
  ASSUME CacheInv, NEW P, InvalidatePages(P)
  PROVE  CacheInv'
<1>1. ASSUME NEW b \in cached \ Listed(P)
      PROVE  written[b] \subseteq dirty \ P
  BY DEF CacheInv, CacheCoherent, BlockHistory, Listed
<1> QED
  BY <1>1 DEF CacheInv, CacheTypeOK, CacheCoherent, BlockHistory, InvalidatePages

\* A new translation is clean, and the pages it cleans hide no older block.
LEMMA TranslateInv ==
  ASSUME CacheInv, NEW i \in Insn, Translate(i)
  PROVE  CacheInv'
<1> DEFINE T == TranslateInvalidates(i)
           left == cached \ Listed(T)
<1>1. BlockPages(i) \cap dirty \subseteq T
  BY TranslateCleansListed
<1>2. ASSUME NEW b \in left
      PROVE  written[b] \subseteq dirty \ (T \cup BlockPages(i))
  BY <1>1 DEF CacheInv, CacheCoherent, BlockHistory, Listed
<1>3. /\ dirty' = dirty \ (T \cup BlockPages(i))
      /\ cached' = left \cup {i}
      /\ written' = [b \in left \cup {i} |-> IF b \in left THEN written[b] ELSE {}]
  BY DEF Translate
<1>4. dirty \subseteq Page /\ cached \subseteq Insn /\ written \in [cached -> SUBSET Page]
      /\ BlockHistory
  BY DEF CacheInv, CacheTypeOK
<1> HIDE DEF T, left
<1>5. left \subseteq cached
  BY DEF left
<1>6. CacheTypeOK'
  BY <1>3, <1>4, <1>5 DEF CacheTypeOK
<1>7. CacheCoherent'
  BY <1>2, <1>3 DEF CacheCoherent
<1>8. BlockHistory'
  BY <1>3, <1>4, <1>5 DEF BlockHistory
<1> QED
  BY <1>6, <1>7, <1>8 DEF CacheInv

\* Looking a block up or translating it; afterwards it is cached.
LEMMA FetchOrTranslateInv ==
  ASSUME CacheInv, NEW i \in Insn, FetchOrTranslate(i)
  PROVE  CacheInv' /\ i \in cached'
<1>1. CASE i \in cached
  BY <1>1 DEF FetchOrTranslate, cacheVars, CacheInv, CacheTypeOK, CacheCoherent, BlockHistory
<1>2. CASE i \notin cached
  <2>1. Translate(i)
    BY <1>2 DEF FetchOrTranslate
  <2> QED
    BY <2>1, TranslateInv DEF Translate
<1> QED
  BY <1>1, <1>2

\* Steps that leave the cache alone.
LEMMA UnchangedInv ==
  ASSUME CacheInv, UNCHANGED cacheVars
  PROVE  CacheInv'
  BY DEF cacheVars, CacheInv, CacheTypeOK, CacheCoherent, BlockHistory

\* What an assist does, if system calls avoid the code.
LEMMA AssistInv ==
  ASSUME CallsAvoidCode, CacheInv, NEW P \in SUBSET Page, AssistOn(P)
  PROVE  CacheInv'
  BY UnchangedInv, StoreInv, InvalidateInv, OverwriteInv DEF AssistOn

=============================================================================

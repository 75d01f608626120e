--------------------------- MODULE MemoryProgram ---------------------------
(***************************************************************************)
(* The memory uops of a program, in program order: loads (ld, ldx), stores *)
(* (st) and fences (mf), and what one of them means for memory.  Memory is *)
(* made of 8-byte chunks, the unit in which the store queue of the         *)
(* out-of-order core compares addresses; an access touches some bytes of   *)
(* one chunk.                                                              *)
(*                                                                         *)
(* The value of a byte is the program position of the store that made it,  *)
(* 0 for a byte nobody stored.  A uop may take the value of an older load  *)
(* as an operand: ra gives an address (another chunk when the value is not *)
(* zero), rc the bytes to store.                                           *)
(***************************************************************************)
EXTENDS Naturals, Sequences

CONSTANTS
  Chunk,      \* the 8-byte blocks of memory
  Byte,       \* the bytes of a chunk
  Programs    \* the programs: sequences of memory uops

Uop == [op: {"ld", "st", "mf"}, chunk: Chunk, other: Chunk, bytes: SUBSET Byte,
        ra: Nat, rc: Nat, lfence: BOOLEAN, sfence: BOOLEAN]

\* Operands are values of older loads; 0 stands for an operand that is ready.
WellFormed(p) ==
  /\ p \in Seq(Uop)
  /\ \A i \in DOMAIN p : \A o \in {p[i].ra, p[i].rc} \ {0} : o < i /\ p[o].op = "ld"
  /\ \A i \in DOMAIN p : p[i].lfence \/ p[i].sfence <=> p[i].op = "mf"

ASSUME MemoryUopAssumption ==
  Chunk # {} /\ Byte # {} /\ \A p \in Programs : WellFormed(p)

Word == [Byte -> Nat]
Zero == [b \in Byte |-> 0]

\* The chunk a uop accesses, value being that of its operand ra.
ChunkOf(u, value) == IF u.ra # 0 /\ value # Zero THEN u.other ELSE u.chunk

\* mux64 with an expanded byte mask: the bytes of mask from new, the others from old.
Merge(old, new, mask) == [b \in Byte |-> IF b \in mask THEN new[b] ELSE old[b]]

\* extract_bytes: the bytes a load asked for.
Extract(word, bytes) == Merge(Zero, word, bytes)

\* The word a store at position i has to store, value being that of its operand rc.
StoreWord(u, i, value) == IF u.rc # 0 THEN value ELSE [b \in Byte |-> i]
=============================================================================

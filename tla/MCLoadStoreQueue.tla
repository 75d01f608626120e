-------------------------- MODULE MCLoadStoreQueue --------------------------
(***************************************************************************)
(* The load/store queue on two chunks of two bytes.  Each program is small *)
(* enough to be in flight as a whole.                                      *)
(***************************************************************************)
EXTENDS LoadStoreQueue

CONSTANT A, B      \* chunks

Access(op, chunk, bytes) ==
  [op |-> op, chunk |-> chunk, other |-> chunk, bytes |-> bytes, ra |-> 0, rc |-> 0, lfence |-> FALSE, sfence |-> FALSE]
Ld(chunk, bytes) == Access("ld", chunk, bytes)
St(chunk, bytes) == Access("st", chunk, bytes)
Fence(l, s) == [Access("mf", A, {}) EXCEPT !.lfence = l, !.sfence = s]
Via(u, ra, other) == [u EXCEPT !.ra = ra, !.other = other]     \* the address depends on load ra
Copy(u, rc) == [u EXCEPT !.rc = rc]                            \* the data is that of load rc
All == Byte

AllPrograms ==
  {\* A store whose address depends on a load that is itself fed by a store.
   <<St(A, {0}), Ld(A, All), Via(St(B, {1}), 2, A), Ld(A, All), Via(Ld(B, {1}), 4, A)>>,
   \* Two loads that may both pass the store.
   <<Ld(B, All), Via(St(A, {0}), 1, B), Ld(A, {0}), Ld(A, All)>>,
   \* Stores of parts of a chunk, the last one copied from a load.
   <<St(A, {0}), St(A, {1}), Ld(A, All), Copy(St(B, All), 3), Ld(B, {1})>>,
   \* A pointer is overwritten while it is followed.
   <<Ld(A, {0}), Copy(Via(St(A, All), 1, B), 1), St(A, {0}), Ld(A, {0}), Via(St(B, {1}), 4, A)>>,
   \* Fences between stores and loads.
   <<St(A, All), Fence(TRUE, TRUE), Ld(A, {0}), St(B, {0}), Ld(B, All)>>,
   <<Ld(A, All), Fence(TRUE, FALSE), St(B, All), Ld(B, {0})>>,
   <<St(A, {1}), Fence(FALSE, TRUE), Ld(A, All), Copy(St(A, {0}), 3)>>}
=============================================================================

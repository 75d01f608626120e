----------------------------- MODULE MCSeqCode -----------------------------
(***************************************************************************)
(* Programs for TLC, with pages of four bytes.                             *)
(*   "plain": a block of two instructions of which the first stores, an    *)
(*     instruction that crosses from page 1 into page 2, a system call;    *)
(*     stores and the buffers of system calls are on page 6, which holds   *)
(*     no code; stores are the last uops.                                  *)
(*   "self": a block of two instructions on one page, to which the first   *)
(*     one stores.                                                         *)
(***************************************************************************)
EXTENDS SeqCode

CONSTANT Program

MCInsn == IF Program = "plain" THEN {1, 2, 7, 21} ELSE {1, 2}
MCPage == IF Program = "plain" THEN {0, 1, 2, 5, 6} ELSE {0}
MCStoreTarget == IF Program = "plain" THEN {6} ELSE {0}
MCCallTarget == IF Program = "plain" THEN {6} ELSE {}
MCBytes == [i \in MCInsn |-> IF i = 7 THEN 3 ELSE 1]
MCUops == [i \in MCInsn |-> CASE i = 1 -> <<"op", "st">>
                              [] i \in {2, 7} -> <<"st">>
                              [] i = 21 -> <<"assist">>]
MCBlock == [i \in MCInsn |-> IF i = 1 THEN <<1, 2>> ELSE <<i>>]
MCSucc == [i \in MCInsn |-> MCInsn]

\* The programs the properties are, and are not, proved for.
ASSUME CoveredPrograms == WatchCovers /\ CallsAvoidCode /\ (StoresAvoidCode <=> Program = "plain")

=============================================================================

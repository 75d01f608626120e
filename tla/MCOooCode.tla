----------------------------- MODULE MCOooCode -----------------------------
(***************************************************************************)
(* Programs for TLC, with pages of four bytes.                             *)
(*   "apart": a push-like instruction (store, then an ALU uop), one that   *)
(*     crosses from page 2 into page 3 and stores last, and a system call; *)
(*     no page holds code of two blocks, or follows one that holds code.   *)
(*     Page 6 holds the buffer of the system call, and no code.            *)
(*   "together": a store and another block on the same page.               *)
(***************************************************************************)
EXTENDS OooCode

CONSTANT Program

Apart == Program = "apart"

MCPage == IF Apart THEN {0, 2, 3, 5, 6} ELSE {0}
MCCallTarget == IF Apart THEN {6} ELSE {}
MCInsn == IF Apart THEN {1, 11, 21} ELSE {1, 2}
MCBytes == [i \in MCInsn |-> IF i = 11 THEN 3 ELSE 1]
MCUops == [i \in MCInsn |-> CASE i = 1 -> IF Apart THEN <<"st", "op">> ELSE <<"st">>
                              [] i = 11 -> <<"op", "st">>
                              [] i = 21 -> <<"assist">>
                              [] OTHER -> <<"op">>]
MCBlock == [i \in MCInsn |-> <<i>>]
MCSucc == [i \in MCInsn |-> IF Apart THEN MCInsn \ {i} ELSE MCInsn]

\* Only the first program keeps its blocks apart; neither has calls that write to code.
ASSUME ApartAssumption == CallsAvoidCode /\ (BlocksApart <=> Apart)

=============================================================================

-------------------------- MODULE SequentialMemory --------------------------
(***************************************************************************)
(* What the load/store unit promises to the program: its memory uops take  *)
(* effect one at a time, in program order.  A load returns what the last   *)
(* store in program order left in memory, and a fence has no effect.       *)
(***************************************************************************)
EXTENDS MemoryProgram

VARIABLES
  prog,     \* the program
  pc,       \* the uop to execute next
  memory,   \* the contents of the chunks
  loaded    \* the value of each load executed

vars == <<prog, pc, memory, loaded>>

Value(i) == IF i = 0 THEN Zero ELSE loaded[i]

Init ==
  /\ prog \in Programs
  /\ pc = 1
  /\ memory = [c \in Chunk |-> Zero]
  /\ loaded = [i \in DOMAIN prog |-> Zero]

Step ==
  /\ pc <= Len(prog)
  /\ pc' = pc + 1
  /\ LET u == prog[pc]
         c == ChunkOf(u, Value(u.ra))
     IN /\ loaded' = IF u.op = "ld" THEN [loaded EXCEPT ![pc] = Extract(memory[c], u.bytes)] ELSE loaded
        /\ memory' = IF u.op = "st"
                       THEN [memory EXCEPT ![c] = Merge(@, StoreWord(u, pc, Value(u.rc)), u.bytes)]
                       ELSE memory
  /\ UNCHANGED prog

Spec == Init /\ [][Step]_vars /\ WF_vars(Step)
=============================================================================

------------------------------ MODULE MCLinux ------------------------------
(***************************************************************************)
(* Programs for TLC.  Pages have two units and are laid out as             *)
(*   0 null, 1 code or data, 2-3 heap, 4-5 mmap, 6-9 mremap, 10-15 stack;  *)
(* pages 16 and 17 are above the 48 bits of the shadow maps.  Every group  *)
(* of system calls is used by one program, together with what it may       *)
(* disturb; the other programs are there for the loader.                   *)
(***************************************************************************)
EXTENDS LinuxHost

CONSTANT Group   \* the groups of calls that programs use

Seg(vaddr, memsz, filesz, prot) ==
  [vaddr |-> vaddr, memsz |-> memsz, filesz |-> filesz, truncated |-> FALSE, prot |-> prot]

Text == Seg(2, 2, 2, {"r", "x"})

Data == Seg(2, 2, 2, {"r", "w"})

Image(segs) == [elf |-> TRUE, interp |-> FALSE, segs |-> segs]

Program(image, argv, envp) ==
  [image |-> image, argv |-> argv, envp |-> envp, calls |-> {},
   addresses |-> {}, lengths |-> {}, insns |-> 0]

Caller(first, calls, addresses, lengths, insns) ==
  [image |-> Image(<<first>>), argv |-> <<1>>, envp |-> <<>>, calls |-> calls,
   addresses |-> addresses, lengths |-> lengths, insns |-> insns]

(* Page 1 is code, or data for the callers that write to it. *)
Callers ==
  {Caller(Text, {"user", "execute", "store"}, {2, 3}, {1, 3}, 3),
   Caller(Text, {"mprotect", "execute", "store"}, {2}, {2}, 4),
   Caller(Text, {"brk", "mmap", "execute"}, {0, 2, 7, 35}, {0, 1, 4}, 3),
   Caller(Data, {"mmap", "file"}, {0, 2, 9}, {0, 1, 4}, 2),
   Caller(Text, {"munmap", "mprotect", "execute"}, {2, 3, 30, 35}, {0, 2, 4}, 3),
   Caller(Data, {"mmap", "mremap", "store"}, {8, 10}, {4, 6}, 3),
   Caller(Data, {"small"}, {0, 2, 3, 20}, {0, 1, 3}, 2),
   Caller(Data, {"descriptors"}, {0, 3, 20}, {}, 3),
   Caller(Data, {"transfer"}, {0, 3, 20, 22, 35}, {0, 1, 3, 5}, 1),
   Caller(Data, {"files"}, {0, 2, 3, 20, 22}, {0, 2}, 1)}

(* Images and argument lists for the loader, good and bad. *)
LoaderOnly ==
  {Program(Image(segs), <<1>>, <<>>) : segs \in
     {<<Text, Seg(5, 2, 1, {"r", "w"})>>,
      <<Text, Seg(9, 0, 0, {"r"}), Seg(12, 4, 3, {"r", "w"})>>,
      <<Text, Seg(8, 1, 2, {"r"})>>,
      <<Text, [Text EXCEPT !.truncated = TRUE]>>,
      <<Text, Seg(34, 3, 1, {"r"})>>,
      <<Text, Seg(35, 0, 0, {"r"})>>}}
  \cup {Program([Image(<<Text>>) EXCEPT !.elf = FALSE], <<1>>, <<>>),
        Program([Image(<<Text>>) EXCEPT !.interp = TRUE], <<1>>, <<>>)}
  \cup {Program(Image(<<Text>>), argv, envp) :
          argv \in {<<>>, <<1, 2>>, <<3>>, <<8, 5>>, <<4>>}, envp \in {<<>>, <<2>>, <<1, 1, 1>>, <<5>>}}

MCPrograms == {c \in Callers : c.calls \subseteq Group} \cup LoaderOnly

MCGroup == UNION {c.calls : c \in Callers}

MCLimits == {NoLimit, 0, 2}

MCProts == {{"r", "x"}, {"r", "w"}}

(* The segments of the images, as far as they are loaded, lie apart. *)
ASSUME ApartAssumption == SegmentsApart /\ PageSize % 2 = 0
=============================================================================

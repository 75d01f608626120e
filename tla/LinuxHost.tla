------------------------------ MODULE LinuxHost ------------------------------
(***************************************************************************)
(* A guest process under the Linux front end: x86sim-linux loads a static  *)
(* ELF program (src/src/x86sim-linux/x86sim-linux.cpp), Machine::run       *)
(* executes it, and its system calls are served by the handler chain.      *)
(* Between two runs the library user may edit the address space.           *)
(*                                                                         *)
(* A program makes calls of some groups with some arguments, so that the   *)
(* groups do not multiply.                                                 *)
(***************************************************************************)
EXTENDS LinuxFiles, Sequences

CONSTANTS Programs,    \* [image, argv, envp, calls, addresses, lengths, insns]:
                       \* a program, its groups of calls, their arguments and
                       \* (bound) the instructions it executes
          StackPages,  \* pages of the stack, below page NumPages
          AuxWords,    \* words of the auxiliary vector
          Prots        \* protection arguments

(* A PT_LOAD program header. *)
Segment == [vaddr: Nat, memsz: Nat, filesz: Nat, truncated: BOOLEAN, prot: SUBSET {"r", "w", "x"}]

(* The segments of an image end below 2^48, or run past 2^64 and are       *)
(* refused; in between the shadow maps alias pages (see Canonical).  The   *)
(* arguments and the environment are given by the lengths of the strings.  *)
ASSUME ProgramAssumption ==
  /\ StackPages \in 0 .. NumPages
  /\ AuxWords \in Nat
  /\ \A pr \in Programs :
       /\ pr.addresses \subseteq Nat /\ pr.lengths \subseteq Nat
       /\ pr.argv \in Seq(Nat) /\ pr.envp \in Seq(Nat)
       /\ pr.image.segs \in Seq(Segment)
       /\ \A i \in 1 .. Len(pr.image.segs) :
            LET g == pr.image.segs[i]
            IN  \/ g.vaddr + g.memsz <= NumPages * PageSize
                \/ g.vaddr > TotalPages * PageSize - 1 - g.memsz
                \/ g.memsz = 0

VARIABLES program,     \* the program that runs
          loader       \* [phase, seg, stack] of x86sim-linux

vars == <<machineVars, memoryVars, fileVars, program, loader>>

stack_top == NumPages * PageSize
stack_base == stack_top - StackPages * PageSize

(* The marks that setup_stack leaves in memory. *)
EnvMark == 3
ArgMark == 4
RandomMark == 5
WordMark == 6

Home == CHOOSE s \in Space : TRUE

NoStack == [rsp |-> 0, argv |-> <<>>, envp |-> <<>>, random |-> 0, words |-> 0]

Init ==
  /\ spaces = [s \in Space |-> EmptySpace]
  /\ current = NoSpace
  /\ decoded = [p \in {} |-> 0]
  /\ total = 0
  /\ config_stop = StopAt
  /\ pending_stop = "none"
  /\ reason = "none"
  /\ last = Done("none", {}, 0)
  /\ MemoryInit
  /\ FilesInit
  /\ program \in Programs
  /\ loader = [phase |-> "header", seg |-> 1, stack |-> NoStack]

LoadFails == loader' = [loader EXCEPT !.phase = "failed"] /\ UNCHANGED spaces

(* load_elf: the header and the program header types are tested first. *)
LoadHeader ==
  /\ loader.phase = "header"
  /\ IF program.image.elf /\ ~program.image.interp
       THEN loader' = [loader EXCEPT !.phase = "segments"] /\ UNCHANGED spaces
       ELSE LoadFails

(* A segment that does not fit its memory, the file or the address space. *)
Refused(g) == \/ g.filesz > g.memsz \/ g.truncated
              \/ g.vaddr > Top - 1 - g.memsz \/ ~Ceilable(g.vaddr + g.memsz)

(* One PT_LOAD segment: map its pages, then copy its file bytes. *)
LoadSegment ==
  LET segs == program.image.segs
      g == segs[loader.seg]
      start == page_floor(g.vaddr)
      mapped == map_or_throw(spaces[Home], start, page_ceil(g.vaddr + g.memsz) - start, g.prot)
  IN  /\ loader.phase = "segments"
      /\ loader.seg <= Len(segs)
      /\ IF g.memsz = 0 THEN loader' = [loader EXCEPT !.seg = @ + 1] /\ UNCHANGED spaces
         ELSE IF Refused(g) THEN LoadFails
         ELSE /\ spaces' = [spaces EXCEPT ![Home] = write(mapped, g.vaddr, g.filesz, 1)]
              /\ loader' = [loader EXCEPT !.seg = @ + 1]

(* What the strings from the i-th to the last one take. *)
SumFrom(lens, i) ==
  LET sum[j \in 1 .. Len(lens) + 1] == IF j > Len(lens) THEN 0 ELSE lens[j] + sum[j + 1]
  IN  sum[i]

OffByOneString(top, lens) == [i \in 1 .. Len(lens) |-> top - SumFrom(lens, i + 1)]

(* The address of every string, the last one highest. *)
StringsBelow(top, lens) == [i \in 1 .. Len(lens) |-> top - SumFrom(lens, i)]

(* checked_write of the strings; what does not fit is not written. *)
WriteStrings(s, at, lens, mark) ==
  LET units == UNION {at[i] .. at[i] + lens[i] - 1 : i \in DOMAIN lens}
  IN  [s EXCEPT !.mem = Override([a \in units \cap DOMAIN @ |-> mark], @)]

(* setup_stack: the environment and the arguments downwards from the top,  *)
(* 16 random bytes, then the block of words, aligned.  Distances are       *)
(* unsigned.                                                               *)
SetupStack ==
  LET envp == program.envp
      argv == program.argv
      mapped == map_or_throw(spaces[Home], stack_base, stack_top - stack_base, {"r", "w"})
      belowEnv == stack_top - SumFrom(envp, 1)
      belowArgs == belowEnv - SumFrom(argv, 1)
      fits == SumFrom(envp, 1) + SumFrom(argv, 1) <= stack_top - stack_base
      withStrings == WriteStrings(WriteStrings(mapped, StringsBelow(stack_top, envp), envp, EnvMark),
                                  StringsBelow(belowEnv, argv), argv, ArgMark)
      random == belowArgs - 2
      withRandom == write(withStrings, random, 2, RandomMark)
      aligned == random - (random % 2)
      words == 3 + Len(argv) + Len(envp) + AuxWords
      wordsFit == words <= (aligned - stack_base) % Top
      rsp == (aligned - words) - ((aligned - words) % 2)
  IN  /\ loader.phase = "segments"
      /\ loader.seg > Len(program.image.segs)
      /\ IF \/ ~fits
            \/ AccessError(withStrings, random, 2) # "none"
            \/ ~wordsFit
            \/ AccessError(withRandom, rsp, words) # "none"
           THEN LoadFails
           ELSE /\ spaces' = [spaces EXCEPT ![Home] = write(withRandom, rsp, words, WordMark)]
                /\ loader' = [loader EXCEPT !.phase = "loaded",
                                !.stack = [rsp |-> rsp, argv |-> StringsBelow(belowEnv, argv),
                                           envp |-> StringsBelow(stack_top, envp),
                                           random |-> random, words |-> words]]

Load == /\ LoadHeader \/ LoadSegment \/ SetupStack
        /\ UNCHANGED <<current, decoded, total, config_stop, pending_stop, reason, last,
                       memoryVars, fileVars, program>>

(* The arguments stay where page numbers have 48 bits, or they overflow    *)
(* 64 bits; in between the shadow maps of the code alias pages.            *)
Canonical(start, size) ==
  start + page_ceil(size) <= NumPages * PageSize \/ range_overflows(start, size)

(* Nor does a search for free pages run out of the pages with 48 bits. *)
RoomFor(s, cursor, size) ==
  LET free == FreeRanges(s, cursor, page_ceil(size))
  IN  IF free = {} THEN TRUE ELSE Canonical(Lowest(free), size)

(* Nor does that of mremap, also after it has failed to grow in place. *)
RoomToMove(a, m, n) ==
  /\ RoomFor(as, next_mremap, n)
  /\ RoomFor(HalfMapped(as, a + page_ceil(m), page_ceil(n) - page_ceil(m)), next_mremap, n)

Uses(group) == group \in program.calls

Addresses == program.addresses

Lengths == program.lengths

Answers == {"ok"} \cup HostErrno

(* load_file_backed_mapping, as SysMmap sees it: no such descriptor, or    *)
(* the file read into the mapping up to its end.                           *)
LoaderAnswers == {"none", "EBADF"}

(* The public operations of AddressSpace, called between two runs.  Bound: *)
(* at most one between two instructions.                                   *)
UserEdit(s) ==
  /\ Uses("user")
  /\ last.op # "user"
  /\ current = NoSpace
  /\ loader.phase = "loaded"
  /\ \E start \in Addresses, size \in Lengths \ {0}, prot \in Prots :
       /\ Canonical(start, size)
       /\ ~range_overflows(start, size)   \* refused, and nothing changes
       /\ \E r \in
            {[s |-> map_or_throw(spaces[s], start, size, prot), drop |-> InvalidatedPages(start, size)],
             [s |-> unmap(spaces[s], start, size), drop |-> SpanPages(start, size)]}
            \cup (IF ProtectError(spaces[s], start, size) # "none" THEN {}
                  ELSE {[s |-> protect(spaces[s], start, size, prot), drop |-> SpanPages(start, size)]})
            \cup (IF ~StaleCodePaths /\ PagesOf(start, start + size) \cap spaces[s].execmap # {} THEN {}
                  ELSE {[s |-> write(spaces[s], start, size, 1), drop |-> {}]}) :
            /\ spaces' = [spaces EXCEPT ![s] = cleardirty(r.s, r.drop)]
            /\ decoded' = DropDecoded(decoded, r.drop)
            /\ last' = Done("user", UNION {r.drop, SpanPages(start, size), InvalidatedPages(start, size)}, 0)
  /\ UNCHANGED <<current, total, config_stop, pending_stop, reason>>
  /\ UNCHANGED <<memoryVars, fileVars, program, loader>>

Start == /\ loader.phase = "loaded"
         /\ \E s \in Space, n \in Limits : MachineRun(s, n)
         /\ total <= program.insns
         /\ UNCHANGED <<memoryVars, fileVars, program, loader>>

GuestStep ==
  /\ \/ \E p \in {PageOf(a) : a \in Addresses} : Uses("execute") /\ (Execute(p) \/ FetchAhead(p))
     \/ \E a \in Addresses : Uses("store") /\ a < NumPages * PageSize /\ GuestStore(a, 2)
  /\ UNCHANGED <<memoryVars, fileVars>>

MemoryCall ==
  /\ \/ \E r \in Addresses : Uses("brk") /\ (Canonical(r, 0) \/ ~Ceilable(r)) /\ SysBrk(r)
     \/ \E a \in Addresses, n \in Lengths, prot \in Prots, fixed \in {{}, {"fixed"}} :
          /\ Uses("mmap") /\ Canonical(a, n) /\ RoomFor(as, next_mmap, n)
          /\ fixed = {} => a = Lowest(Addresses)   \* ignored
          /\ \/ SysMmap([address |-> a, length |-> n, offset |-> 0],
                        fixed \cup {"shared", "anonymous"}, prot, "none", 0)
             \/ \E loaded \in 0 .. PageSize, answer \in LoaderAnswers :
                  /\ Uses("file") /\ loaded <= n
                  /\ SysMmap([address |-> a, length |-> n, offset |-> 0],
                             fixed \cup {"private"}, prot, answer, loaded)
     \/ \E off \in {0, 1}, flags \in {{}, {"private", "shared"}, {"private", "other"}, {"private"}},
           prot \in {{}, {"bad"}} :
          /\ Uses("file")
          /\ MmapError([address |-> 0, length |-> 1, offset |-> off], flags, prot) # "none"
          /\ SysMmap([address |-> 0, length |-> 1, offset |-> off], flags, prot, "none", 0)
     \/ \E a \in Addresses, n \in Lengths : Uses("munmap") /\ Canonical(a, n) /\ SysMunmap(a, n)
     \/ \E a \in Addresses, n \in Lengths, prot \in Prots \cup {{"bad"}} :
          Uses("mprotect") /\ Canonical(a, n) /\ SysMprotect(a, n, prot)
     \/ \E a, f \in Addresses, m, n \in Lengths,
           flags \in {{}, {"maymove"}, {"maymove", "fixed"}, {"fixed"}, {"maymove", "dontunmap"}} :
          /\ Uses("mremap") /\ Canonical(a, m) /\ Canonical(a, n) /\ Canonical(f, n)
          /\ RoomToMove(a, m, n)
          /\ IF "fixed" \in flags THEN PagesOf(f, f + n) \cap PagesOf(a, a + m) = {}
                                   ELSE f = Lowest(Addresses)   \* ignored
          /\ SysMremap(a, m, n, flags, f)
  /\ UNCHANGED fileVars

SmallCall ==
  /\ Uses("small")
  /\ \/ \E code \in {"set_fs", "get_fs", "other"}, a \in Addresses : SysArchPrctl(code, a)
     \/ SysGetIdentity
     \/ \E name \in {"set_tid_address", "set_robust_list", "rseq"} : SysThreadSetup(name)
     \/ SysSignals
     \/ \E name \in {"fork", "wait4"} : SysProcess(name)
     \/ \E a \in Addresses : SysUname(a)
     \/ \E a \in Addresses, n \in Lengths : SysGetcwd(a, n, 2)
     \/ \E a \in Addresses, n \in Lengths : SysGetrandom(a, n)
     \/ \E own \in BOOLEAN, res \in {0, 1}, new, old \in Addresses : SysPrlimit64(own, res, new, old)
     \/ \E a \in Addresses, c \in {"wait", "wake", "requeue"}, v \in {0, 2}, t \in BOOLEAN :
          SysFutex(a, c, v, t)
     \/ SysExit(1)
     \/ UnsupportedSyscall
  /\ UNCHANGED fileVars

DescriptorCall ==
  /\ Uses("descriptors")
  /\ \/ \E d \in {0, AtFdcwd}, ok \in BOOLEAN, answer \in Answers, path \in Addresses :
          (answer # "ok" => ok /\ d = 0) /\ SysOpen(d, path, ok, answer)
     \/ \E t, d \in BOOLEAN, answer \in Answers : (answer # "ok" => t /\ d) /\ SysSocket(t, d, answer)
     \/ \E g \in GuestFd, answer \in Answers : SysClose(g, answer)
     \/ \E a \in Addresses, p \in Pipe : SysPipe(a, p)
     \/ \E op \in {"dup", "dup2", "dup3", "dupfd"}, g, arg \in GuestFd, answer \in Answers :
          /\ op = "dup" => arg = 0
          /\ answer # "ok" => op \in {"dup3", "dupfd"}
          /\ SysDup(op, g, arg, answer)

TransferCall ==
  /\ Uses("transfer")
  /\ \E g \in {1, 3}, a \in Addresses, n \in Lengths, answer \in Answers :
       \/ SysRead(g, a, n, answer)
       \/ \E op \in {"write", "pwrite"} : answer = "ok" /\ SysWrite(op, g, a, n)
       \/ SysGetdents64(g, a, n, answer)
       \/ \E path \in Addresses : SysReadlink(g, path, a, n, answer)

FileCall ==
  /\ Uses("files")
  /\ \E g \in {1, 3}, a \in Addresses, ok \in BOOLEAN, answer \in Answers :
       \/ \E op \in {"lseek", "ioctl", "fcntl"} : SysOnFd(op, g, ok, answer)
       \/ \E op \in {"getlk", "setlk"} : SysLock(op, g, a, ok, answer)
       \/ \E op \in {"stat", "fstat"}, path \in Addresses :
            (op = "fstat" => ok) /\ SysStat(op, g, path, a, ok, answer)
       \/ \E op \in {"access", "rename"}, path \in Addresses : SysFileSystem(op, a, path, answer)
       \/ \E op \in {"renameat", "unlinkat"}, path \in Addresses :
            (op = "renameat" => ok) /\ SysFileSystemAt(op, g, a, path, ok, answer)
       \/ \E n \in Lengths : SysConnect(g, a, n, ok, answer)
       \/ \E op \in {"select", "nanosleep"} : SysSleep(op, a, ok)
       \/ \E op \in {"gettimeofday", "clock_gettime", "getrusage"} : SysTime(op, a)

ContinueWrite == \E n \in 0 .. PageSize, answer \in Answers :
                   (answer # "ok" => n = 0) /\ WriteChunk(n, answer)

Instruction == /\ current # NoSpace
               /\ io.op = "none"
               /\ total < program.insns
               /\ GuestStep \/ MemoryCall \/ SmallCall \/ DescriptorCall \/ TransferCall \/ FileCall
               /\ UNCHANGED <<program, loader>>

Next == \/ Load
        \/ Start
        \/ \E s \in Space : UserEdit(s)
        \/ Instruction
        \/ ContinueWrite /\ UNCHANGED <<program, loader>>

Spec == Init /\ [][Next]_vars
-----------------------------------------------------------------------------
(* Type invariant of the machine, the descriptor table and the heap. *)
TypeOK ==
  /\ \A s \in Space : DOMAIN spaces[s].mem = UnitsOf(MappedPages(spaces[s]))
  /\ current \in Space \cup {NoSpace}
  /\ DOMAIN decoded \subseteq 0 .. NumPages - 1
  /\ total \in 0 .. MaxInsns
  /\ brk.minimum <= brk.current /\ brk.current <= brk.mapped_end
  /\ DOMAIN fds \subseteq GuestFd /\ DOMAIN host \subseteq HostFd
  /\ io.total <= io.count

(* The shadow maps and mapped_mem_ are changed by separate loops: no page  *)
(* may keep an attribute after it lost its memory, whatever sequence of    *)
(* map, unmap, protect, brk, mmap, mremap and failing calls led there.     *)
(* Otherwise the accessibility test passes and the translation is null.    *)
AttributesOnlyOfMappedPages ==
  \A s \in Space : spaces[s].readmap \cup spaces[s].writemap \cup spaces[s].execmap
                      \subseteq MappedPages(spaces[s])

(* What is executed from the code cache is what a fetch would find in      *)
(* memory: the page is still readable and executable and holds the bytes   *)
(* the blocks were decoded from.  For guests that write to no page while   *)
(* it is executable (~StaleCodePaths), whichever core runs them: code is   *)
(* written first and made executable then, or mapped over, unmapped and    *)
(* moved, and map, unmap and protect must drop the blocks.                 *)
ExecutesCurrentCode == last.op = "execute" => last.moved = 1

(* The bytes, the mapping and the protection of page p. *)
PageState(s, p) == <<p \in MappedPages(s), protection_at(s, p),
                     IF p \in MappedPages(s) THEN PageBytes(s, p) ELSE <<>> >>

(* An instruction takes nothing away from the guest that its arguments did *)
(* not name: a page that was mapped keeps its bytes and its protection     *)
(* unless the call named it.  So an mmap or mremap that chooses its own    *)
(* address, or grows in place, never lands on a mapping; rounding never    *)
(* reaches the next page; a failing copy stays inside its buffer.          *)
OnlyNamedPagesChange ==
  [][loader.phase = "loaded" =>
       \A s \in {t \in Space : spaces'[t] # spaces[t]} :
         \A p \in MappedPages(spaces[s]) :
           PageState(spaces'[s], p) # PageState(spaces[s], p) => p \in last'.pages]_vars

(* mremap that succeeds keeps the data: what was at the old address is at  *)
(* the address it returns, in place or moved, and the old range is gone    *)
(* when it moved.  The target of a fixed move is apart from the old range. *)
MremapKeepsData ==
  [][last'.op = "mremap" /\ last'.rax.err = "none" /\ total' # total =>
       LET old == spaces[current].mem
           new == spaces'[current].mem
       IN  /\ \A i \in 0 .. last'.moved - 1 :
                 /\ last'.rax.val + i \in DOMAIN new
                 /\ new[last'.rax.val + i] = old[last'.from + i]
           /\ last'.rax.val # last'.from => last'.from \notin DOMAIN new]_vars

(* write and pwrite64 report what the host really took: an error only if   *)
(* nothing was written, otherwise the exact count, also when the buffer    *)
(* ends in a hole or the host fails or falls short in a later chunk.       *)
TransferCountExact ==
  last.op \in {"write", "pwrite"} =>
    last.moved = IF last.rax.err # "none" THEN 0 ELSE last.rax.val

(* Every open host descriptor belongs to exactly one guest descriptor and  *)
(* every guest descriptor is open on the host: no path of open, pipe, dup, *)
(* dup2, dup3, F_DUPFD, socket, getdents64 or close leaks one or leaves a  *)
(* closed one behind, also when the host or the guest memory fails in the  *)
(* middle.  For guests that keep one descriptor open.                      *)
DescriptorsOwned ==
  io.op = "none" =>
    /\ IsInjective(fd_table)
    /\ Range(fd_table) = DOMAIN host

(* The table from write ends to read ends never names a descriptor that    *)
(* was closed, whose number the host may have given to something else.     *)
PipeMapSound ==
  \A w \in DOMAIN pipe_map :
    /\ {w, pipe_map[w]} \subseteq DOMAIN host
    /\ host[w].kind = "write_end"
    /\ host[pipe_map[w]] = [kind |-> "read_end", pipe |-> host[w].pipe]

(* The pages that the loader maps for a segment. *)
SegmentPages(g) == IF g.memsz = 0 \/ Refused(g) THEN {}
                   ELSE PageOf(g.vaddr) .. PageOf(g.vaddr + g.memsz - 1)

(* Images whose segments share no page with each other or with the stack,  *)
(* and leave the page below the stack free.                                *)
SegmentsApart ==
  \A pr \in Programs : \A i, j \in 1 .. Len(pr.image.segs) :
    /\ i # j => SegmentPages(pr.image.segs[i]) \cap SegmentPages(pr.image.segs[j]) = {}
    /\ \A p \in SegmentPages(pr.image.segs[i]) : p + 1 < NumPages - StackPages

(* When the program has been loaded its segments are in memory with their  *)
(* file bytes, zeroes behind them and their protection, and the parts of   *)
(* the initial stack are intact, inside the stack, and rsp is aligned.     *)
(* For images whose segments lie apart.                                    *)
ProgramLoaded ==
  loader.phase = "loaded" /\ total = 0 /\ last.op = "none" =>
    LET s == spaces[Home]
        st == loader.stack
        Holds(from, n, mark) ==
          /\ from >= stack_base /\ from + n <= stack_top
          /\ \A a \in from .. from + n - 1 : s.mem[a] = mark
    IN  /\ \A i \in 1 .. Len(program.image.segs) :
             LET g == program.image.segs[i]
             IN  \A j \in 0 .. g.memsz - 1 :
                   /\ s.mem[g.vaddr + j] = IF j < g.filesz THEN 1 ELSE 0
                   /\ protection_at(s, PageOf(g.vaddr + j)) = g.prot
        /\ \A i \in DOMAIN program.argv : Holds(st.argv[i], program.argv[i], ArgMark)
        /\ \A i \in DOMAIN program.envp : Holds(st.envp[i], program.envp[i], EnvMark)
        /\ Holds(st.random, 2, RandomMark)
        /\ Holds(st.rsp, st.words, WordMark)
        /\ st.rsp % 2 = 0
=============================================================================

----------------------------- MODULE LinuxMemory -----------------------------
(***************************************************************************)
(* The portable Linux system calls (src/src/x86sim-support/                *)
(* syscall-linux.cpp): heap, mappings, and the small calls that only touch *)
(* guest memory or registers.  Every handler is one action: it is given    *)
(* its arguments, computes the address space it leaves, the pages whose    *)
(* decoded code the address space drops, and the value or errno in rax.    *)
(***************************************************************************)
EXTENDS GuestMachine

CONSTANTS BrkBase,        \* default_brk_base
          MmapBase,       \* first next_mapping_address of SysMmap
          MremapBase      \* first next_mapping_address of SysMremap

ASSUME BaseAssumption == BrkBase \in Nat /\ MmapBase \in Nat /\ MremapBase \in Nat

VARIABLES brk,            \* BrkState of process 1
          next_mmap,      \* SysMmap::next_mapping_address
          next_mremap,    \* SysMremap::next_mapping_address
          fsbase,         \* segment_bases[fs]
          limit           \* SysPrlimit64::limits of one resource

memoryVars == <<brk, next_mmap, next_mremap, fsbase, limit>>

MemoryInit ==
  /\ brk = [minimum |-> BrkBase, current |-> BrkBase, mapped_end |-> BrkBase]
  /\ next_mmap = MmapBase
  /\ next_mremap = MremapBase
  /\ fsbase = 0
  /\ limit = [current |-> 1, maximum |-> 2]

memory_error_to_linux(e) ==
  CASE e = "zero_size" -> "EINVAL"
    [] e = "unmapped_address" -> "EFAULT"
    [] OTHER -> "ENOMEM"

(* A guest that keeps the buffers of its calls off its executable pages. *)
BufferAllowed(start, n) ==
  StaleCodePaths \/ {PageOf(a) : a \in Written(as, start, n)} \cap as.execmap = {}

(* Bound: host memory runs out half-way through a map(). *)
HalfOf(pages) == Cardinality(pages) \div 2

BadAllocAllowed(pages) == StaleCodePaths \/ pages \cap as.execmap = {}

(* range_is_unmapped probes one byte of every page with AddressSpace::read. *)
range_is_unmapped(s, start, length) ==
  \/ length = 0
  \/ ~range_overflows(start, length) /\ PagesOf(start, start + length) \cap MappedPages(s) = {}

FreeFirstPage(s, cursor, length) ==
  {c \in page_ceil(cursor) .. Top - 1 - length : page_aligned(c) /\ PageOf(c) \notin MappedPages(s)}

(* The page-aligned addresses find_unmapped_range would accept, upwards. *)
FreeRanges(s, cursor, length) ==
  LET taken == MappedPages(s)
  IN  {c \in page_ceil(cursor) .. Top - 1 - length :
         page_aligned(c) /\ PagesOf(c, c + length) \cap taken = {}}

Lowest(S) == CHOOSE c \in S : \A d \in S : c <= d

LinuxProt == {"r", "w", "x"}

(* SysBrk: every failure returns the current break; a shrunk heap keeps    *)
(* its pages mapped and is grown again without mapping them anew.          *)
SysBrk(request) ==
  LET end == page_ceil(request)
      grows == end > brk.mapped_end
      pages == IF grows THEN MapPages(brk.mapped_end, end - brk.mapped_end) ELSE {}
  IN  /\ IF request < brk.minimum \/ ~Ceilable(request)
           THEN /\ SyscallReturns(as, {}, Value(brk.current), Done("brk", {}, 0))
                /\ UNCHANGED brk
           ELSE \/ /\ SyscallReturns(
                        IF grows THEN map_or_throw(as, brk.mapped_end, end - brk.mapped_end, {"r", "w"})
                                 ELSE as,
                        pages, Value(request), Done("brk", pages, 0))
                   /\ brk' = [brk EXCEPT !.current = request,
                                         !.mapped_end = IF grows THEN end ELSE @]
                \/ /\ grows /\ BadAllocAllowed(pages)
                   /\ SyscallReturns(MapBadAlloc(as, brk.mapped_end, HalfOf(pages)), {},
                                     Value(brk.current), Done("brk", pages, 0))
                   /\ UNCHANGED brk
      /\ UNCHANGED <<next_mmap, next_mremap, fsbase, limit>>

(* The tests SysMmap makes before it looks at the address space. *)
MmapError(a, flags, prot) ==
  IF a.length = 0 \/ ~page_aligned(a.offset) \/ ("private" \in flags <=> "shared" \in flags)
       \/ "other" \in flags \/ ~(prot \subseteq LinuxProt) THEN "EINVAL"
  ELSE IF ~Ceilable(a.length) THEN "ENOMEM"
  ELSE IF "fixed" \in flags /\ ~page_aligned(a.address) THEN "EINVAL"
  ELSE "none"

(* SysMmap.  A file-backed mapping is filled by the loader of the POSIX    *)
(* library, which is passed in: loader is the errno of its failure, "none" *)
(* for success, and loaded the units it has copied by then.  A failure     *)
(* unmaps the new mapping, not what a fixed mapping replaced.              *)
SysMmap(a, flags, prot, loader, loaded) ==
  LET length == page_ceil(a.length)
      free == FreeRanges(as, next_mmap, length)
      fixed == "fixed" \in flags
      start == IF fixed THEN a.address ELSE Lowest(free)
      pages == MapPages(start, length)
      named == IF fixed THEN pages ELSE {}
      anonymous == "anonymous" \in flags
      Fails(e) == /\ SyscallReturns(as, {}, Error(e), Done("mmap", {}, 0))
                  /\ UNCHANGED next_mmap
  IN  /\ IF MmapError(a, flags, prot) # "none" THEN Fails(MmapError(a, flags, prot))
         ELSE IF ~fixed /\ free = {} THEN Fails("ENOMEM")
         ELSE IF start > Top - 1 - length THEN Fails("EINVAL")
         ELSE /\ next_mmap' = IF fixed THEN next_mmap ELSE start + length
              /\ LET mapped == map_or_throw(as, start, length, prot)
                 IN  \/ /\ anonymous
                        /\ SyscallReturns(mapped, pages, Value(start), Done("mmap", named, 0))
                     \/ /\ ~anonymous /\ loader = "none"
                        /\ SyscallReturns(write(mapped, start, loaded, 1), pages,
                                          Value(start), Done("mmap_file", named, loaded))
                     \/ /\ ~anonymous /\ loader # "none"
                        /\ SyscallReturns(unmap(mapped, start, length), pages,
                                          Error(loader), Done("mmap_file", named, 0))
                     \/ /\ BadAllocAllowed(pages)
                        /\ SyscallReturns(MapBadAlloc(as, start, HalfOf(pages)), {},
                                          Error("ENOMEM"), Done("mmap_nomem", named, 0))
      /\ UNCHANGED <<brk, next_mremap, fsbase, limit>>

(* SysMunmap succeeds whatever is mapped there, also when unmap() refuses. *)
SysMunmap(address, length) ==
  LET pages == SpanPages(address, page_ceil(length))
      refused == range_overflows(address, page_ceil(length)) \/ ~Ceilable(address + page_ceil(length))
  IN  /\ IF length = 0 \/ ~page_aligned(address) \/ ~Ceilable(length)
           THEN SyscallReturns(as, {}, Error("EINVAL"), Done("munmap", {}, 0))
           ELSE SyscallReturns(unmap(as, address, page_ceil(length)),
                               IF refused THEN {} ELSE pages,
                               Value(0), Done("munmap", pages, 0))
      /\ UNCHANGED memoryVars

(* SysMprotect: all pages of the range or, over a hole, none (ENOMEM). *)
SysMprotect(address, length, prot) ==
  LET aligned == page_ceil(length)
      failure == ProtectError(as, address, aligned)
      Returns(ret) == SyscallReturns(as, {}, ret, Done("mprotect", {}, 0))
  IN  /\ IF ~page_aligned(address) \/ ~(prot \subseteq LinuxProt) THEN Returns(Error("EINVAL"))
         ELSE IF length = 0 THEN Returns(Value(0))
         ELSE IF ~Ceilable(length) THEN Returns(Error("ENOMEM"))
         ELSE IF failure # "none" THEN Returns(Error("ENOMEM"))
         ELSE SyscallReturns(protect(as, address, aligned, prot),
                             SpanPages(address, aligned), Value(0),
                             Done("mprotect", SpanPages(address, aligned), 0))
      /\ UNCHANGED memoryVars

(* The block of n units at start, as a function on 0 .. n - 1. *)
Copied(s, start, n) == [i \in 0 .. n - 1 |-> s.mem[start + i]]

(* What a map() of this range leaves when it runs out of memory half-way. *)
HalfMapped(s, start, size) == MapBadAlloc(s, start, HalfOf(MapPages(start, size)))

(* SysMremap past its attempt to grow in place, which has left the space   *)
(* s: map the new range, copy, unmap the old range.  A map() that fails    *)
(* does not bring back what a fixed target replaced.                       *)
MremapMove(s, old, olen, nlen, flags, fixed) ==
  LET free == FreeRanges(s, next_mremap, nlen)
      target == IF "fixed" \in flags THEN fixed ELSE Lowest(free)
      replaces == "fixed" \in flags /\ ~range_is_unmapped(s, fixed, nlen)
      cleared == IF replaces THEN unmap(s, fixed, nlen) ELSE s
      copied == WriteBlock(map_or_throw(cleared, target, nlen, {"r", "w"}), target,
                           Copied(as, old, olen))
      named == SpanPages(old, olen) \cup (IF "fixed" \in flags THEN MapPages(fixed, nlen) ELSE {})
      Fails(e) == /\ SyscallReturns(s, {}, Error(e), Done("mremap", {}, 0))
                  /\ UNCHANGED next_mremap
  IN  IF "maymove" \notin flags THEN Fails("ENOMEM")
      ELSE IF "fixed" \in flags /\ ~page_aligned(fixed) THEN Fails("EINVAL")
      ELSE IF "fixed" \notin flags /\ free = {} THEN Fails("ENOMEM")
      ELSE IF range_overflows(target, nlen) THEN Fails("ENOMEM")
      ELSE /\ \/ SyscallReturns(unmap(copied, old, olen), MapPages(target, nlen) \cup SpanPages(old, olen),
                                Value(target), DoneFrom("mremap", named, old, olen))
              \/ SyscallReturns(HalfMapped(cleared, target, nlen),
                                IF replaces THEN SpanPages(fixed, nlen) ELSE {},
                                Error("ENOMEM"), Done("mremap", named, 0))
           /\ next_mremap' = IF "fixed" \in flags THEN next_mremap ELSE target + nlen

(* SysMremap shrinks in place, grows in place over unmapped pages, or, if  *)
(* it cannot or map() fails, moves.  Pages it maps are readable and        *)
(* writable whatever the old ones were.                                    *)
SysMremap(old, old_size, new_size, flags, fixed) ==
  LET olen == page_ceil(old_size)
      nlen == page_ceil(new_size)
      old_end == old + olen
      growth == nlen - olen
      inPlace == old_end <= Top - 1 - growth /\ range_is_unmapped(as, old_end, growth)
      copy_length == IF olen < nlen THEN olen ELSE nlen
      Fails(e) == /\ SyscallReturns(as, {}, Error(e), Done("mremap", {}, 0))
                  /\ UNCHANGED next_mremap
      Succeeds(s, drop) ==
        SyscallReturns(s, drop, Value(old), DoneFrom("mremap", SpanPages(old, olen), old, copy_length))
  IN  /\ IF \/ "other" \in flags \/ "dontunmap" \in flags
            \/ "fixed" \in flags /\ "maymove" \notin flags
            \/ old_size = 0 \/ new_size = 0 \/ ~page_aligned(old) THEN Fails("EINVAL")
         ELSE IF ~Ceilable(old_size) \/ ~Ceilable(new_size) THEN Fails("ENOMEM")
         ELSE IF range_overflows(old, olen) THEN Fails("EFAULT")
         ELSE IF AccessError(as, old, copy_length) # "none" THEN Fails("EFAULT")
         ELSE IF nlen <= olen
           THEN /\ Succeeds(unmap(as, old + nlen, olen - nlen),
                            InvalidatedPages(old + nlen, olen - nlen))
                /\ UNCHANGED next_mremap
         ELSE \/ /\ inPlace
                 /\ Succeeds(map_or_throw(as, old_end, growth, {"r", "w"}), MapPages(old_end, growth))
                 /\ next_mremap' = IF next_mremap < old_end + growth THEN old_end + growth
                                   ELSE next_mremap
              \/ MremapMove(IF inPlace THEN HalfMapped(as, old_end, growth) ELSE as,
                            old, olen, nlen, flags, fixed)
      /\ UNCHANGED <<brk, next_mmap, fsbase, limit>>

-----------------------------------------------------------------------------
(* The calls below leave the mappings alone. *)

(* space.write of n units at address and the value or errno it leads to; a *)
(* failing write has still filled the pages in front of the hole.          *)
WritesGuest(op, address, n, v, ok) ==
  LET failure == AccessError(as, address, n)
  IN  /\ BufferAllowed(address, n)
      /\ SyscallReturns(write(as, address, n, v), {},
                        IF failure = "none" THEN ok ELSE Error(memory_error_to_linux(failure)),
                        Done(op, {PageOf(a) : a \in Written(as, address, n)},
                             Cardinality(Written(as, address, n))))

(* A call that only returns. *)
Returns(op, ret) == SyscallReturns(as, {}, ret, Done(op, {}, 0))

SysArchPrctl(code, address) ==
  /\ CASE code = "set_fs" -> Returns("arch_prctl", Value(0)) /\ fsbase' = address
       [] code = "get_fs" -> WritesGuest("arch_prctl", address, 1, fsbase, Value(0)) /\ UNCHANGED fsbase
       [] OTHER -> Returns("arch_prctl", Error("EINVAL")) /\ UNCHANGED fsbase
  /\ UNCHANGED <<brk, next_mmap, next_mremap, limit>>

(* SysGetIdentity: getpid and its kind answer with a constant. *)
SysGetIdentity == Returns("getpid", Value(1)) /\ UNCHANGED memoryVars

(* set_tid_address and set_robust_list are accepted, rseq is refused. *)
SysThreadSetup(name) ==
  /\ Returns(name, CASE name = "set_tid_address" -> Value(1)
                     [] name = "set_robust_list" -> Value(0)
                     [] OTHER -> Error("ENOSYS"))
  /\ UNCHANGED memoryVars

(* rt_sigaction and rt_sigprocmask are accepted and ignored. *)
SysSignals == Returns("signals", Value(0)) /\ UNCHANGED memoryVars

(* fork, clone, vfork and execve are refused, wait4 finds no child. *)
SysProcess(name) ==
  /\ Returns(name, Error(IF name = "wait4" THEN "ECHILD" ELSE "ENOSYS"))
  /\ UNCHANGED memoryVars

SysUname(address) ==
  /\ WritesGuest("uname", address, PageSize, 1, Value(0))
  /\ UNCHANGED memoryVars

(* SysGetcwd with a host path that takes n units. *)
SysGetcwd(address, size, n) ==
  /\ IF address = 0 \/ (size # 0 /\ range_overflows(address, size))
       THEN Returns("getcwd", Error("EFAULT"))
     ELSE IF size = 0 THEN Returns("getcwd", Error("EINVAL"))
     ELSE IF n > size THEN Returns("getcwd", Error("ERANGE"))
     ELSE WritesGuest("getcwd", address, n, 1, Value(n))
  /\ UNCHANGED memoryVars

(* SysGetrandom writes chunk after chunk: an error leaves a filled prefix. *)
SysGetrandom(address, length) ==
  /\ IF length = 0 THEN Returns("getrandom", Value(0))
     ELSE IF address = 0 \/ range_overflows(address, length) THEN Returns("getrandom", Error("EFAULT"))
     ELSE WritesGuest("getrandom", address, length, 1, Value(length))
  /\ UNCHANGED memoryVars

(* SysPrlimit64: read and test the new limit, write the old one to the     *)
(* guest, and only then store the new one.  An address of 0 is absent.     *)
SysPrlimit64(own, resource, new, old) ==
  LET badNew == AccessError(as, new, 2)
      wanted == [current |-> as.mem[new], maximum |-> as.mem[new + 1]]
  IN  /\ BufferAllowed(old, IF old = 0 THEN 0 ELSE 2)
      /\ IF ~own THEN Returns("prlimit", Error("ESRCH")) /\ UNCHANGED limit
         ELSE IF resource > 0 THEN Returns("prlimit", Error("EINVAL")) /\ UNCHANGED limit
         ELSE IF new # 0 /\ badNew # "none" THEN Returns("prlimit", Error("EFAULT")) /\ UNCHANGED limit
         ELSE IF new # 0 /\ wanted.current > wanted.maximum
           THEN Returns("prlimit", Error("EINVAL")) /\ UNCHANGED limit
         ELSE IF old # 0 /\ AccessError(as, old, 2) # "none"
           THEN WritesGuest("prlimit", old, 2, limit.current, Value(0)) /\ UNCHANGED limit
         ELSE /\ SyscallReturns(IF old = 0 THEN as
                                ELSE WriteBlock(as, old, [i \in 0 .. 1 |->
                                       IF i = 0 THEN limit.current ELSE limit.maximum]),
                                {}, Value(0),
                                Done("prlimit", IF old = 0 THEN {} ELSE PagesOf(old, old + 2), 0))
              /\ limit' = IF new = 0 THEN limit ELSE wanted
      /\ UNCHANGED <<brk, next_mmap, next_mremap, fsbase>>

(* SysFutex of a single process: a wait whose value still matches returns  *)
(* at once, with ETIMEDOUT if it had a timeout.                            *)
SysFutex(uaddr, command, expected, timeout) ==
  /\ CASE command = "wake" -> Returns("futex", Value(0))
       [] command = "wait" /\ (uaddr = 0 \/ AccessError(as, uaddr, 1) # "none") ->
            Returns("futex", Error("EFAULT"))
       [] command = "wait" /\ uaddr # 0 /\ AccessError(as, uaddr, 1) = "none" ->
            Returns("futex", IF as.mem[uaddr] # expected THEN Error("EAGAIN")
                             ELSE IF timeout THEN Error("ETIMEDOUT") ELSE Value(0))
       [] OTHER -> Returns("futex", Error("ENOSYS"))
  /\ UNCHANGED memoryVars

(* SysExit and SysExitGroup of a process without a parent stop the run. *)
SysExit(status) ==
  /\ SyscallStops("guest_exit", Done("exit", {}, status))
  /\ UNCHANGED memoryVars

(* No handler of the chain takes the call, or it was not made with the     *)
(* syscall instruction.                                                    *)
UnsupportedSyscall ==
  /\ SyscallStops("unsupported_syscall", Done("unsupported", {}, 0))
  /\ UNCHANGED memoryVars
=============================================================================

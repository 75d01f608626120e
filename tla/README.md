# A TLA+ verification of x86sim

x86sim is a cycle-accurate x86-64 simulator that descends from PTLsim and
RASPsim: a library (`src/x86sim`), two front ends (`raspsim`, `x86sim-linux`),
Linux system call support and Python bindings.  This directory holds TLA+
models of the parts of the library whose correctness depends on long sequences
of interleaved steps, the TLC runs that check them on small instances, and
TLAPS proofs of the properties that hold for every instance.

Paths below are relative to the repository; `x/` stands for `src/x86sim/`.
`PROJECT.json` names, for every definition that models code, the lines it
models.

## 1. The system

One simulated machine has an address space, one context per virtual CPU, a
basic block cache and one of two cores.  Both cores run *uops* that the decoder
makes from x86 instructions, a basic block at a time; an instruction is a
*macro-op*, its uops lie between the one marked `som` and the one marked `eom`.
The build has one core and one thread per core (`ENABLE_SMT` is set by no build
file) and four clusters.

`OutOfOrderCore::runcycle()` runs every stage once per cycle, in the order
clock the caches, commit, writeback, transfer, clock the issue queues, issue,
dispatch, complete, frontend, rename, fetch, and then handles the result of the
commit stage (continue, exception, barrier, self-modifying code, stop).
Everything is sequential C++; the concurrency is that of the modelled
pipeline: a uop's bookkeeping is spread over a dozen stages, other uops advance
in between, and mis-speculation, aliasing, exceptions and flushes cut across
all of it at any stage.

| Component | State | Operations | Interacts with | What makes it hard, what makes it correct |
|---|---|---|---|---|
| Renaming, ROB, physical registers (`x/ooocore.h`, `x/ooopipe.cpp`, `x/oooexec.cpp`) | register states and reference counts, speculative and committed rename table, ROB ring, ROB lists | rename, frontend, dispatch, issue, replay, redispatch, annul, complete, writeback, commit, recycle, flush | fetch queue, LSQ, issue queues, caches | a register is named by operands, flags and two tables at once; freed too early a uop reads a stranger's value, too late the pipeline starves |
| Basic block cache and dirty map (`x/decode-core.cpp`, `x/addrspace.cpp`) | blocks by address, per-page lists, dirty bitmap | translate, invalidate_page, setdirty, cleardirty | both cores, system calls | translated code must not outlive a store to its bytes |
| Self-modifying code in the out-of-order core (`x/ooopipe.cpp`, `x/ooocore.cpp`) | fetch position, uops in flight, pending invalidation | fetch, commit with two checks, flush, invalidate | block cache | uops are fetched long before older stores commit |
| Sequential core (`x/seqcore.cpp`) | rip, block, uop position, watched pages | execute, SMC retry, assists | block cache | the same hazards, with other checks |
| Cache hierarchy (`x/dcache.cpp`) | LFRQ, miss buffer, set-associative arrays | issue of a load, store commit, prefetch, fetch miss, clock, annul, flush | ROB, fetch unit | wakeups must find the load they are meant for, after any recovery |
| Load/store queue (`x/oooexec.cpp`) | LSQ entries, alias predictor, loads of this cycle, interlocks | issueload, issuestore, issuefence, commit | ROB, caches | a load issues before older stores are known |
| Issue queues (`x/oooexec.cpp`, `x/ooocore.h`) | tags, valid/issued/ready bitmaps, shared count | insert, broadcast, issue, replay, annul | ROB | lost or duplicate wakeups, slot leaks |
| Macro-op commit and run loop (`x/ooopipe.cpp`, `x/ooocore.cpp`) | commit result, stop request, counters | commit results, deadlock countdown, stop | everything | results mask each other; a flush may cut a macro-op |
| Branch predictor (`x/branchpred.cpp`) | direction tables, BTB, return address stack | predict, update, updateras, annulras | fetch, annul | the RAS is repaired in reverse order |
| Address space (`x/addrspace.cpp`) | page table, attribute bitmaps, dirty map | map, unmap, protect, read, write | decoder, system calls, the library user | several bitmaps describe one page and are changed by separate loops |
| Machine facade (`x/x86sim.cpp`) | current space, instruction counts, pending stop | run | cores, the library user | what a run leaves behind for the next one, with another space or after an exception |
| Decoder (`x/decode-*.cpp`) | uop buffer, block under construction | translate, split of unaligned accesses | block cache, sequential core | a sequence of uops must have the effect of one instruction, and have it once although it may be restarted |
| Uop implementations (`x/uopimpl.cpp`) | none | arithmetic, flags, shifts, conditions | both cores | counts at and above the width, merging of sub-registers, which flags survive |
| Containers (`x/logic.h`, `x/superstl.h`) | queues, lists, hash tables | alloc, commit, annul, insert, remove | everything | capacity, index wrap |
| Linux system calls (`src/x86sim-support`) | descriptors, pipe map, brk, mapping cursors | each system call | address space, host kernel | failures half-way through: holes in buffers, short host transfers, descriptors that are replaced |
| Linux front end (`src/x86sim-linux`) | image, initial stack | load, run | address space, system calls | sizes of segments and strings |
| Front end raspsim, bindings, options, statistics | - | - | library | input and output around `run()` |

The hazards this code is exposed to, each at its line and with the properties
that would catch it, are listed in `PROJECT.json`.

## 2. Modules

    RegisterRename   <- MCRegisterRename  (Rename, NullRefcount)
                     <- RegisterRenameProofs
    CodeCache        <- OooCode <- MCOooCode (OooCode, OooStale)
                                <- OooCodeProofs
                     <- SeqCode <- MCSeqCode (SeqCode, SeqStale)
                                <- SeqCodeProofs
                     <- CodeCacheProofs (shared by the two proof modules)
    CacheMiss        <- MCCacheMiss (CacheMiss)
                     <- CacheMissProofs
    AddressSpace     <- GuestMachine <- LinuxMemory <- LinuxFiles <- LinuxHost
                                     <- MCLinux (Linux, SwapStale)
                                     <- LinuxHostProofs
    Uops <- Decode <- DecodeFast <- DecodeComplex <- Microcode
                                     <- MCMicrocode (Microcode, MicrocodeState)
                                     <- MicrocodeProofs
    X86 (abstract, instantiated by MCMicrocode)
    MemoryProgram    <- LoadStoreQueue <- MCLoadStoreQueue (LoadStoreQueue)
                                       <- LoadStoreQueueProofs
                     <- SequentialMemory (abstract, instantiated by LoadStoreQueue)

`A <- B` means that B extends A.  OooCode and SeqCode compose the block cache
with a core each; LinuxHost composes the address space, the machine, the
system calls and the loader; Microcode composes decoder, uops and the
sequential core.  Operators named `X_Something`, defined in front of X, are
plausible bugs in X (in the Linux and microcode modules they have names of
their own, as in the `mutants` of `PROJECT.json`); every property is known to
fail under one of them.

### RegisterRename

`state` and `refcount` are the fields of `PhysicalRegister`, `specrrt` and
`commitrrt` the rename tables, `rob` the live ROB entries in program order (the
ring holds `RobSize - 1`), each with its uop, destination register, four
operands, list, second-phase bit and exception bit.  `stage`, `commitcount` and
`commitrc` are the position in the cycle: `ThreadContext::commit()` runs before
the other stages, commits up to `CommitWidth` uops and may end with a result
whose handler flushes.

| Action | Code |
|---|---|
| Rename, Frontend, Dispatch | `rename()`, `frontend()`, `dispatch()` with `find_sources()` (a load behind an outstanding fence is made to depend on it) |
| IssueReg, IssueMem, IssueFence, IssueException, Replay | `issue()`, `issueload()`, `issuestore()`, `issuefence()`, `replay()` |
| Mispredict, Refetch | `annul_after()`, `annul_after_and_including()`: operands unreferenced, registers freed, the speculative table rebuilt by `pseudocommit()` |
| Misspeculate | `redispatch_dependents()` after a store found a younger load of its address |
| Complete, Writeback | `complete()`, `writeback()`, `loadwakeup()` |
| CommitUop, FenceWakeup, EndCommit | `ReorderBufferEntry::commit()` and the loop around it |
| NextCycle, DeadlockRecovery | recycling of PENDINGFREE registers, the result handlers, the dispatch deadlock countdown |

Abstracted: register values, latencies, the choice of a cluster, and the
address comparison that picks the RS operand (any older store or fence).

### CodeCache, OooCode, SeqCode

`dirty` is `AddressSpace`'s dirty map, `cached` the blocks in the cache.
`written` is a history variable: the pages of a block stored to since the block
was translated.  Memory contents are not modelled; a translation is stale when
`written` meets the pages of the instruction.  Page numbers are computed from
addresses as in `RIPVirtPhys::update()`.  Memory changes in three ways that the
cache sees differently.  `StoreTo` marks the page: a store that the out-of-order
core commits, and `Context::copy_to_user()`, by which the FXSAVE and x87 assists
write.  `InvalidatePages` drops the blocks: `map()`, `unmap()`, `protect()`.
`Overwrite` does neither: `AddressSpace::write()`, by which the system call
handlers fill their buffers (`read`, `pipe`, `uname`, ...), and a `map()` that fails
half-way.  `AssistOn` is what an assist may do; `CallTarget` are the pages that
the system calls of a program overwrite.

OooCode has `Fetch` (with `fetch_or_translate_basic_block()`), `Mispredict`,
`DetectSmc` and `CommitUop` (the two checks of `commit()`: in front of a
macro-op and at its end, the latter before the uop's own store), `EndCommit`
and `NextCycle` (the result handlers of `runcycle()`: flush and
`invalidate_smc()`, or flush and the assist).  `pipe` is everything from the
fetch queue to the ROB head.  SeqCode has `BeginBlock`, `DetectSmc` and
`ExecuteUop`, the loop of `SequentialCore::execute()`; `watched` is the span
of `rvp`.  A store of the program in SeqCode marks an unpredictable page, since
`smc_mfn` is never set there.  Assists are `AssistOn` in both.  Exceptions and the stop request are not part of
these two modules.

### CacheMiss

`freemap`, `waiting`, `ready`, `reqs` are the LFRQ; `missbufs` the miss buffer;
`rob`, `head`, `tail` the loads in flight with their list and `lfrqslot`;
`fillwait` is `waiting_for_icache_fill` with its line.

| Action | Code |
|---|---|
| Dispatch, Commit | a load enters and leaves the ROB |
| IssueHit, IssueFault, IssueMiss | `issueload()`, `probecache()`, `issueload_slowpath()`, `initiate_miss(req)`, `add()` |
| CommitStore, Prefetch, FetchMiss | `commitstore()`, `initiate_prefetch()`, `initiate_icache_miss()` with `fetch()` |
| Clock | `lfrq.clock()` with `dcache_wakeup()`, then `missbuf.clock()` with `lfrq.wakeup()` and `icache_wakeup()` |
| Recover, Redirect | `annul()` and `reset_fetch_unit()` |
| Redispatch | `redispatch()` |
| Flush | `flush_pipeline()` with `lfrq.reset(threadid)`, `missbuf.reset(threadid)` |

Any access may hit or miss at any level: what the set-associative arrays hold
decides only how long an access takes.  The TLB walk is not built (`USE_TLB`),
`complete()` and `restart()` without a thread id have no caller.

### MemoryProgram, LoadStoreQueue, SequentialMemory

A program is a sequence of loads, stores and fences on chunks of memory; the
address or the data of one may be the value of an older load.  A byte's value
is the position of the store that made it.  `lsq` holds the uops in flight,
each with the fields of its LSQ and ROB entry; `lsap` is the alias predictor,
`loadsNow` the loads of this cycle, `loaded` a history of committed loads.

| Action | Code |
|---|---|
| Allocate, Dispatch | `rename()` with the limits of LDQ, STQ and LSQ, `find_sources()` with `find_nearest_memory_fence()` |
| LoadReplays, LoadIssues | `issueload()`: the backward scan, the wait for a store or fence or a full LFRQ, the data from memory and the nearest store, `probecache()` |
| StoreReplays, StoreParallel, StoreAliases, StoreIssues | `issuestore()`: first and second phase, a load of the same cycle, a load that issued too early, the merge with the store before it |
| FenceIssues, FenceWakeup | `issuefence()`, `fencewakeup()` at the head of the ROB |
| Complete, LoadWakeup, Commit | `complete()`, `loadwakeup()`, `commit()` with `commitstore()` |
| NextCycle, Annul | the reset of `loads_in_this_cycle`, `annul()` and the refetch |

A first-phase store issues as soon as its address is known; its data need not
be.  `redispatch_dependents()` asks `isstore()` of the store that called it and not of
the uop in its loop, so from that store on everything is dispatched again, which
is what `RedispatchFrom` does.  Every uop is a macro-op of its own; what a wrong
path fetches is left out, as are faults and the halves of unaligned accesses.

SequentialMemory is the promise: memory uops take effect one at a time in
program order.  `RefinesSequential` is its `Spec` with `head + 1` for its `pc`;
memory and the loaded values are the committed ones.  Its fairness says that the
program gets on.

### AddressSpace, GuestMachine, LinuxMemory, LinuxFiles, LinuxHost

An address space is a record of its mapped memory and four bitmaps, and every
member function an operator on it; a bitmap is indexed by the low 48 bits of an
address (`NumPages`), the memory by all of it (`TotalPages`).  `map()` may fail
half-way, as it does when host memory runs out, also inside `mremap`, which goes on
to move when it could not grow, and does not bring back what a fixed target
replaced.

GuestMachine is `Machine::run()` with the cores reduced to what an address
space sees of them: `Execute` runs code of a page through the block cache
(`decoded`), `FetchAhead` decodes a page that may never be executed, `GuestStore`
writes to one.  The model allows what either core does: a cached page may be
executed although it is dirty (the out-of-order core has fetched it already), and
a store marks its own page (out-of-order core), a stray one or none (sequential
core).  `MachineRun` takes a space and a limit; `total`,
`config_stop`, `pending_stop` are the fields of the machine.

LinuxMemory and LinuxFiles have one action per system call handler, its error
exits included, with the order of its checks.  The host kernel is external:
which host descriptors are open and which pipe they belong to is kept, its
answers are any errno, count or short count.  `write` and `pwrite64` copy in
chunks, and each chunk is a step (`WriteChunk`), because the host may answer
differently to each.  Data is a mark per unit; of a transfer only the count is
kept.

LinuxHost is `x86sim-linux`: `LoadHeader`, `LoadSegment`, `SetupStack`, then
`Machine::run()`; in between the library user may edit a space (`UserEdit`).  A
program uses some groups of system calls with some arguments, so that unrelated
groups do not multiply.

### Uops, Decode, DecodeFast, DecodeComplex, Microcode, X86

Uops has the integer uops of `uopimpl.cpp` as operators from operands and flags
to a result and flags.  Decode has the recipes of `decode-core.cpp` shared by the
opcodes (operand forms, address generation, flag collection, `split_unaligned`),
DecodeFast and DecodeComplex one operator per opcode family: what
`translate` yields is a sequence of uops.

Microcode is the sequential core with values.  `state`, `mem`, `perm` belong to
the host; `arf`, `arflags`, `bb`, `upc` and `buf` (the pieces of a cracked access) to
the core.

| Action | Code |
|---|---|
| Run, EndBlock, NextBlock | `SequentialMachine::run()`, the write-back at its end |
| Crack | an access that turns out unaligned is split in two |
| Load, Store, Compute | `issueload()`, `issuestore()`, the synthesised ALU and branch functions, commit of one uop |
| PageFault | `handle_common_exceptions()`, the flags restore, the throw past the write-back |
| SelfModified | the SMC check and the restart of the instruction |
| Barrier, BarrierRaises | an assist: system call, cpuid, popf, segment moves, fxsave, ... |
| Repair | external: the host maps the page that the exception names and calls `run()` again |

X86 is the abstract specification: an instruction is one step (a repeated string
instruction at most `Limit` iterations), written with plain integers, without
uops, temporaries, flags registers or faults.  `RefinesX86` is its `Spec` with
`state` for the registers and the memory as of the last write-back.

## 3. Runs

| Run | Result | Distinct states | Shows |
|---|---|---|---|
| rename | pass | 97,000 | with flag-setting uops, mispredicted branches, two-uop macro-ops, loads, stores, fences: counts are exact through replay, refetch and redispatch, nothing free is referred to, every operand is the register of the nearest older writer, every register has an owner, a drained pipeline has freed all it does not need, every RS producer is older, `annul()` finds the `som` it scans for, the dispatch list keeps program order |
| null_refcount | violation | - | see findings |
| ooo_code | pass | 52,000 | blocks on pages of their own, which system calls remap but do not write to: no macro-op starts stale, the cache is coherent, macro-ops keep committing |
| ooo_stale | violation | - | see findings |
| seq_code | pass | 24,000 | code that changes only by `copy_to_user()` of assists and by mapping calls: no stale instruction starts, the cache is coherent, instructions keep completing |
| seq_stale | violation | - | see findings |
| cache_miss | pass | 217,000 | requests and loads match one to one, each waiting request is in exactly one entry that will wake it, a line has one entry, a waiting fetch has an entry; every missed load and every waiting fetch resumes |
| linux | pass | 80,000 | attributes only of mapped pages, current code executed by programs that write to a page only while it is not executable, exact transfer counts, descriptors owned once, the pipe map sound, the program loaded intact, no call changes a page it did not name, mremap keeps data |
| swap_stale | violation | - | see findings |
| microcode | pass | 52,000 | the uops of each instruction implement its one-step meaning, through page faults in either half of an access and restarts of idempotent sequences; a fault names the instruction and a page that may not be accessed, and one on the second page of a store leaves memory as it was; every instruction ends |
| microcode_state | violation | - | see findings |
| load_store | pass | 108,000 | whatever order loads and stores issue in, what commits is what program order gives; a uop that may not pass a fence issues only when the fence is the oldest uop; every uop commits |

### Bounds and why they suffice

- rename runs: `RobSize` 4 holds three uops, enough for a producer, a
  consumer and a younger writer of the same register; 5 or 6 registers besides
  the null register, of which three are needed for the committed state, so that
  renaming runs dry and recycling matters; `CommitWidth` 2, so that a cycle may
  end inside a macro-op.  The state space is finite without further bounds.
  Registers are interchangeable: `LowestFirst` makes rename take the least free
  one and `View` identifies states that differ only in register names.  The
  null register's count is not in the view, no step reads it; the run that is
  about it (null_refcount) has no view.
- code runs: pages of four bytes, instructions that cross from one into the
  next, `PipeSize` 3 or 4 uops in flight (more than one macro-op).  An assist
  writes to any set of pages with a mark, remaps any set, and overwrites
  `MCCallTarget`, a page without code.  With a code page in `MCCallTarget`,
  and without the assumption `CallsAvoidCode` of the MC modules, TLC finds
  `CacheCoherent` violated on both cores.
- cache run: two slots and two entries, so that both queues fill and slots are
  reused; one wakeup per cycle, fewer than slots, so that ready loads queue;
  two lines and two loads in flight; all latencies 1.  `MaxRecoveries` 1 bounds
  annulments, redispatches and flushes.  The view leaves out what is never read
  of a free slot; states it identifies have the same futures, so it is sound
  for the liveness properties too.
- linux runs: pages of two units, so that unaligned addresses and lengths
  exist; 16 pages below and 2 above the reach of the bitmaps, laid out as 0 null,
  1 code or data, 2-3 heap, 4-5 mmap, 6-9 mremap, 10-15 stack; at most four
  instructions, which is enough to make code writable, change it, make it
  executable and run it, or to open, duplicate and close a descriptor; instruction limits none, 0 and 2; six
  descriptors, so that the host runs out of them; two pipes.  One edit of the
  user between two instructions.  `Canonical` and `RoomFor` keep guest mappings
  below 48 bits, also in the moves of `mremap` (`RoomToMove`).  `StrayMarks` is
  the code page: of the pages that an uninitialised `smc_mfn` may name, the one
  that the cache looks at.  Off in the passing run: `StaleCodePaths`, which lets
  somebody write to a page while it is executable (a store of the guest, a system
  call or the library user with `AddressSpace::write()`, a `map()` that fails
  half-way); each of these leaves stale blocks behind.  With it on, TLC finds
  `ExecutesCurrentCode` violated.  What remains, and passes, is the discipline of
  a just-in-time compiler: make the page writable, write, make it executable,
  jump.  Also off is `MayCloseAll`, since the descriptor table re-creates 0, 1
  and 2 when it becomes empty.
- microcode runs: a byte has two bits, so that the four operand sizes are 2, 4,
  8 and 16 bits wide and all edge values of each can be used; two pages of 16
  bytes with every relevant combination of rights; `Limit` 2, so that a run ends
  inside a repeated string instruction; one restart.  The initial states are
  cases, an instruction with operands and contents, by family.  Counts in cl are
  below 4 and rotates below the largest representable count.  What the cases
  leave out is listed under deviations below.
- load_store: two chunks of two bytes, so that stores overlap in part; seven
  programs of four or five uops, among them a store whose address depends on a
  load fed by another store, a pointer overwritten while it is followed, partial
  stores that are copied on, and all three fences; LSQ_SIZE 5 with an LDQ and STQ
  of 3, so that the queues fill; an annulment at any point.  `LsapWays` 2 gives
  each load that can alias in turn a way.  With one way TLC finds a program that
  never ends: two loads take turns in the predictor and pass the store again
  and again.  The predictor has 8 ways, and nine such loads would have to pass
  the same store over and over.

### Fairness

- OooCode: weak fairness of `EndCommit` and `NextCycle`, since `runcycle()`
  runs every stage in every cycle and ends; strong fairness of `Fetch`,
  `DetectSmc` and `CommitUop`, since fetch tries in every cycle and the
  oldest macro-op becomes ready after finitely many cycles.
- SeqCode: weak fairness of `Next`, since `SequentialMachine::run()` calls
  `execute()` until the run is over.
- CacheMiss: weak fairness of `Clock`, since `runcycle()` clocks the caches
  first in every cycle.  Nothing else is assumed.
- Microcode: weak fairness of `Next`, since the core executes until the run
  ends and the host, external, repairs every page fault.  It is written as
  `[]<>(~Busy) \/ []<><<Next>>_vars`, which is the same because a step is possible
  exactly while `Busy`.

- LoadStoreQueue: weak fairness of every stage for every uop, since each stage
  runs in every cycle and a uop whose operands are ready is selected in the end.
  Replaying a load because the LFRQ is full changes nothing the second time, so
  fairness of `Issue` says that a load does not find it full at every attempt;
  `LoadsReturn` of the cache_miss run is why.  Nothing is assumed of `Annul`.

### Findings

1. **null_refcount** (`x/ooopipe.cpp:1061`): a load dispatched behind a fence
   takes the fence as RS operand without releasing the null register, so the
   null register's count is not what `check_refcounts()` asserts.
2. **ooo_stale** (`x/decode-core.cpp:2145`): translating a block cleans its
   pages, although older uops of the same pages are in flight.  The check at
   commit asks only whether the page is dirty now, and a stale macro-op commits.
3. **seq_stale** (`x/seqcore.cpp:1381`): after a store the sequential core marks
   the page `smc_mfn`, a field it never sets; a store to the page of the running
   block goes unnoticed.
4. **swap_stale** (`x/x86sim.cpp:262`): `run()` with another address space keeps
   the block cache, and the second space executes code of the first.
5. **microcode_state** (`x/x86sim.cpp:279`): a run that ends with an exception
   does not write the registers back, although its stores stay.

The passing runs use programs that avoid these, and there the same properties
hold.

Findings 2 and 3 are about stores.  System calls have a problem of their own:
`include/x86sim/addrspace.hpp:84-85` says of `invalidate_decoded_code()` "Called
after every mutation that can change what bytes/permissions a page presents to a
fetch", but `AddressSpace::write()` (`x/addrspace.cpp:193`) does not call it, and
marks no page either.  A program that reads code from a file into a page it has
executed before goes on with the old code, on both cores.  There is no run for
it; the way to see it is a code page in `MCCallTarget`, or `StaleCodePaths`.  The
theorems exclude it by the hypotheses `CallsAvoidCode` and `~StaleCodePaths`.

Two more observations on the sequential core have no run of their own.  The
span watched for self-modifying code is computed from the address of the block
and not of the instruction (`x/seqcore.cpp:1194`), so an assist that writes to
the second page of a block goes unnoticed; `WatchCovers` excludes it.  The
check runs in front of every uop (`x/seqcore.cpp:1213`): if the page of a
store that is followed by another uop (push is `st; sub`) is marked, the
instruction is retried for as long as its store marks its page.

One on the loader: `setup_stack` tests the space left with an unsigned distance
(`src/x86sim-linux/x86sim-linux.cpp:350`).  If the strings fill the stack up to
its base, the random bytes go below it, and the distance of the negative
difference is large enough for any number of words.  What stops the loader is
that the page below the stack is not mapped, so that the copy of the random bytes
fails; an image with a segment there would have it overwritten.  `SegmentsApart`
leaves that page free.

### Deviations of the uops from x86

Where the code does something else than x86, the cases of the microcode run
leave it out, or X86 does not compare the flag:

- operand sizes: 16-bit `imul` with an immediate merges with the upper bits of the
  source, 16-bit `mul` merges `rdx` with those of `rax`; 16-bit `pop` and `mov al,moffs`
  zero-extend; 8- and 16-bit `xadd` and `cmpxchg` on registers clear the
  upper bits of the destination, a successful 32-bit `cmpxchg` zero-extends; `bt`
  and its relatives on a register always use 64 bits; `mul` with a high-byte source
  and `neg ah` use the low byte; `xchg [mem],ah`; `xadd` of a register with itself;
  `stmxcsr` loads 16 bits of `mxcsr`.
- flags: AF is never computed; rotates by `cl` overwrite ZF, SF and PF (`Tolerated`);
  a rotate by a nonzero multiple of the width treats CF differently;
  `cmpxchg8b` sets all flags; `scas` subtracts the accumulator from memory.
- loops: `loop`, `loopz` and `loopnz` (`x/decode-complex.cpp:1046-1081`) test `rcx`, do
  not count it down, and branch when it is zero.  The family `loops` of MCMicrocode
  holds the cases; with it `RefinesX86` is violated: `loop` with `rcx` 3 leaves 3
  and falls through.
- exceptions: a divide error ends in an assertion of the simulator; the `rip` of
  `int3` is the number of the assist.
- restarts: locked read-modify-write instructions, `xchg`, `xadd` and `cmpxchg` with
  memory, `pushf`, `cmpxchg16b`, and a `pop` into memory that overlaps the stack are not
  idempotent, so a restart for modified code repeats them; `Restartable` holds
  the others.
- torn stores: a store that crosses a page is torn when its first page may not be
  written and its second may, since the high part is stored first.  The run has
  such stores, with a first page that is not accessible: `FaultPrecise` claims
  something of a fault on the second page only, and `RefinesX86` holds because the
  store is repeated once the host has repaired the page.  A first page that is
  readable and not writable is left out: a read-modify-write would be
  repeated on its own torn half.
- not modelled: `sahf`, `lahf`, `shld` and `shrd` by `cl`.
- the check for the least integer divided by -1 at `x/superstl.cpp:227` never holds.

Not a finding, since no build enables it: with two threads in CacheMiss
`FetchAwaited` is violated.  A thread's committed store allocates an entry, the
other thread's fetch joins it, the first thread is flushed and
`MissBuffer::reset(threadid)` drops the entry.  The proof of `FetchSafety`
therefore assumes one thread.

## 4. Proofs

TLAPS checks these theorems for every value of the constants that satisfies the
assumptions of the modules (`UopAssumption`, `RegAssumption`, `SizeAssumption`,
`ResetAssumption`; `ProgramAssumption`, `NoBlockAssumption`,
`StoreTargetAssumption`; `MissAssumption`; `MemoryUopAssumption`,
`QueueAssumption`; `AddressAssumption`, `MachineAssumption`, `BaseAssumption`,
`DescriptorAssumption` and the `ProgramAssumption` of LinuxHost;
`ByteBitsAssumption`, the `AddressAssumption` of Decode, `MicrocodeAssumption`,
`CasesAssumption`), which TLC evaluates on the instances above.  Those of the Linux modules give the constants
their types and say that there are fewer pages below 2^48 than below 2^64, that 0, 1
and 2 are descriptors, and that the segments of an image end below 2^48 unless they run
past 2^64 (where the loader refuses them).  Those of the microcode say that a byte
has 2, 4 or 8 bits, that a page is a multiple of 8 bytes, and that the host starts the
guest with registers, flags and memory of their widths.

Some theorems hold for some programs only and say so in a hypothesis that the MC
module evaluates: `CallsAvoidCode` (no page of `CallTarget` holds code),
`StoresAvoidCode` (the same of the stores, for the sequential core), `BlocksApart`
(no page that a translation may clean holds code of another block; since every
instruction can start a block, these are programs of one-instruction blocks), `SegmentsApart` (the segments of an image share no
page with each other, and neither the stack nor the page below it), a page
of an even number of units of 8 bytes, as rsp is aligned to 16, and
`BlocksWellFormed` (what the core relies on in the uops that the decoder makes of an
instruction: operands that exist, immediates as wide as a register, a condition
where one is tested, no uop but the last ending the instruction, and selfrip set in
front of an assist that copies to or from the guest; MCMicrocode evaluates it for all
its instructions as `BlocksAssumption`).

| Module | Theorem | Inductive invariant and why it is needed |
|---|---|---|
| RegisterRenameProofs | `RenameTypeCorrect`, `RenameDispatchInOrder`, `RenameAnnulFindsSom` | `RobInv` = `TypeOK`, `MacroOpsChained` (a uop starts a macro-op exactly if the one before it ends one), `HeadCommitting` (a macro-op whose `som` has committed has its `eom` in the ROB and none of its uops is left to issue) and `DispatchInOrder`.  The `som` can be missing only for the macro-op at the head, which has nothing left to issue, so the scan of `annul()` is never started there. |
| CodeCacheProofs | lemmas on page arithmetic and one per operation of the cache | `CacheInv` = `CacheTypeOK`, `CacheCoherent`, `BlockHistory` (the history of a block lies in the pages it is listed under).  `translate()` cleans pages it did not invalidate; coherence survives because such a page was clean already, or was invalidated with every block listed under it. |
| SeqCodeProofs | `SeqTypeCorrect`, `SeqCacheCoherent`, `SeqNoStaleExecute` | `SeqInv` = `CacheInv`, `TypeOK`, `RunningDirty` (pages of the running block stored to since its translation are dirty, or the block has ended).  `SeqTypeCorrect` holds for every program.  `SeqCacheCoherent` assumes `StoresAvoidCode`, which is what finding 3 violates, and `CallsAvoidCode`: neither a store nor `AddressSpace::write()` marks the page it changes in this core.  What is left, the writes of FXSAVE and x87 assists and the mapping calls, marks or drops.  `SeqNoStaleExecute` assumes `WatchCovers` as well. |
| OooCodeProofs | `OooTypeCorrect`, `OooCacheCoherent` | `OooInv` = `CacheInv`, `TypeOK`, `FetchInBlock` (the block being fetched stays in the cache, because every invalidation follows a release).  `OooTypeCorrect` holds for every program, `OooCacheCoherent` assumes `CallsAvoidCode`. |
| OooCodeProofs | `OooStaleOnlyByTranslation`, `OooNoStaleCommit` | `OooInv` with `InFlightMarked`: every page of a uop in flight stored to since its block was translated is dirty, so the check at commit sees it.  Stores mark pages; `invalidate_smc()` and system calls clean them after the flush only.  What is left is a translation by the fetch unit, and the first theorem says that nothing else that marks or drops is to blame: on a behaviour of any program with `CallsAvoidCode` in which no fetch cleans a page under a uop in flight (`TranslationSpares`), `NoStaleCommit` holds.  Finding 2 is such a fetch.  With `BlocksApart` there is none: `InFlightCached`, the block of a uop in flight stays cached until the flush, so it is not translated again under it, and translating another block does not touch its pages. |
| RegisterRenameProofs | `RenameRefcountsExact`, `RenameNoDanglingReference`, `RenameIsPrecise`, `RenameRegistersOwned`, `RenameProducersOlder`, `RenameDrainedRegistersFree` | `RefInv` = `RobInv` and `TablesInv`, the conjunction of `RegistersOwned`, `RefcountsExact`, `NoDanglingReference`, `RenamingPrecise`, `ProducersOlder` and `CommittedRegisters` (what the committed table names is ARCH or PENDINGFREE, and two registers other than the flags are mapped to different ones, so that `commit()` takes the last mapping away when it replaces it), with `RsUnset` (a uop that has not been dispatched since it was last redispatched, and one that is no load or store, holds no RS operand, which `dispatch()` sets without releasing the old one) and `PendingReferenced` (until the first uop of a cycle commits, a PENDINGFREE register is still referenced).  None of the parts is inductive alone: a register may be freed when its count is zero because the counts are exact; the counts stay exact through `annul()` because what it unreferences is what `find_sources()` referenced; it may free the registers it drops because readers are younger than producers; and they are, because the speculative table names the last writer in the ROB or what has committed. |
| LoadStoreQueueProofs | `QueueTypeCorrect`, `QueueFencesHold`, `QueueRefinesSequential` | `QueueInv` = `TypeOK` and, for each uop in flight, `StateOk` (flags agree with the state, the address with the operand), `LoadOk` (an issued load holds the `Image` of its chunk: memory under the newest issued store in front of it), `OrderOk` (in front of an issued store every address is known, and stores to its chunk have issued and are covered by it), `StoreOk` (its bytes over the image), `FenceOk` and `WaitOk` (a uop behind a fence not woken waits for the last such fence).  A store that issues late finds the loads whose image it would change (`Aliased`), and `OrderOk` excludes younger stores; a commit moves bytes from the queue to memory and changes no image, because the next store to the chunk covers them.  At the head no store is in front, so the image is memory itself, which is what `SequentialMemory` loads.  `QueueRefinesSequential` is `RefinesSequential` without its fairness. |
| CacheMissProofs | `RequestSafety`, `WakeupSafety`, `FetchSafety`, `MissTypeCorrect`, `MissOneEntryPerLine` | `MissInv` = `TypeOK`, `RequestsMatchLoads`, `WakeupsComplete`, `OneEntryPerLine`, `RingFree` (the ring from tail to head holds no load, so that a new load has no slot yet) and `CyclesLeft` (a busy entry has cycles left).  The first three support each other: a slot may be freed because its load gives it up, and may be reused because no map names it any more. |
| LinuxHostProofs | `LinuxDescriptorsOwned`, `LinuxPipeMapSound` | `FdInv`: the table from guest to host descriptors is injective onto the open ones, and the pipe map names two ends of one pipe that are open.  The two need each other, since a descriptor that `dup2` replaces takes its entry of the pipe map along.  Both assume `~MayCloseAll`: an empty table is filled again with host descriptors 0, 1 and 2, which the guest may have closed. |
| LinuxHostProofs | `LinuxTransferCountExact` | `IoInv`: in the loop of `write`, what the host has taken is what has been counted. |
| LinuxHostProofs | `LinuxAttributesOnlyOfMappedPages`, `LinuxOnlyNamedPagesChange`, `LinuxMremapKeepsData`, `LinuxTypeCorrect` | `MemInv`: every space is `SpaceOK` (its memory is whole pages below 2^48, rights only of mapped pages), cached code lies below 2^48, and the loader, the machine, the heap, the mapping cursors and the write loop have their types.  Whole pages are what makes the rest inductive: a bitmap says nothing of half a page.  Each operation `Keeps` the space outside a set of pages (`MapOK`, `UnmapOK`, `ProtectOK`, `WriteOK`, ...); every handler is a sequence of them, so it `Edits` the space outside the pages its arguments name, or its search found free.  An `mremap` whose `map()` fails is such a sequence too: the attempt to grow (`Tried`) has replaced only pages that were not mapped.  `mremap` copies between ranges that have no page in common, because the old one is mapped and the target was free, or the caller said so. |
| LinuxHostProofs | `LinuxExecutesCurrentCode` | `MemInv` and `CodeFresh`: a page of the code cache is readable, executable and what its blocks were decoded from.  No dirty bit is needed for it, and none is trusted: pages change only while they are not executable, they become executable only by a call that drops their blocks, and fetch decodes executable pages only.  Assumes `~StaleCodePaths` and one address space; finding 4 is what happens with two. |
| LinuxHostProofs | `LinuxProgramLoaded` | `LoadingInv` = `MemInv`, `ImageInv` (the segments done with are in memory with their bytes, zeroes and rights, and nothing is mapped on the stack or directly below it) and `LoadedInv` (until the first step of the program, so is everything).  A segment does not disturb the earlier ones because it maps and writes other pages.  `setup_stack` makes four kinds of writes, each of which would overwrite what is above it if a string were longer than its place: `SumFacts` bounds the sums of lengths that place the strings, and `StackMarks` shows that the writes leave each other's bytes.  The sums are related by a least counterexample over a set of numbers (`Upwards`), as the provers cannot use an induction rule.  Assumes `SegmentsApart` and an even page size. |
| MicrocodeProofs | `MicrocodeTypeCorrect`, `MicrocodeFaultNamed` | `Inv` = `TypeOK`, `StateOK` (what the host sees has the widths of registers), `WellFormedBlock` of the current block, `BufOK` (what is left of a cracked access belongs to a load or store of the block and is well formed itself), `AtInstruction` (until the last uop, rip is the instruction's), `SelfripOK` (after the uop that sets it, selfrip is too, so that an assist which faults while it copies restarts the right instruction) and `FaultNamed`.  Each uop has a lemma that its result fits a register and its flags are flags.  The provers know powers only for literals: `PowerCounts` (2^n counts the subsets of n elements) gives their laws, and the recursions over bytes and bits, which are functions on 0 .. n, are followed by a least counterexample (`Upwards`).  A fault names a page the guest may not access because a chunk of 8 bytes never leaves its page, and the parts of a cracked access name the page of the low part, or the one that follows it. |

Each proof has one lemma per action; the theorems combine them with PTL.

Only model-checked: of the microcode run, `RefinesX86` and the second part of
`FaultPrecise` (a store that faults on its second page has left memory as it was).
Both are about what the uops of an instruction compute from its operands, for
`FaultPrecise` because an instruction that is retried must repeat the addresses and
the bytes of the stores before the fault.  Then the fairness of `RefinesSequential` (that
every program gets on), and the liveness properties `KeepsCommitting`,
`KeepsCompleting`, `LoadsReturn`, `FetchResumes`, `Completes`.
Out of the prover's reach altogether are liveness under fairness and `ENABLED`,
induction over data, and modules with RECURSIVE operators; there are none of
the latter here.

## 5. Plan

In the order of importance:

1. **MacroCommit**: commit results and how they mask each other
   (`x/ooopipe.cpp:2001`), a locked read-modify-write
   `mf; ld.acq; op; st.rel; mf` with the fence recirculating, the dispatch
   deadlock countdown flushing through a partly committed macro-op
   (`x/ooopipe.cpp:114`), the stop protocol of `run()`, the 4096-cycle exit.
   Abstract specification: macro-ops take effect once, in order.
2. **LoadStoreQueue**, extended: unaligned accesses in two halves, faults, uops
   of a wrong path, several uops to a macro-op.
3. **IssueQueue**: insert, broadcast, issue, replay, annul; every uop in a queue is
   issued once its operands are ready.  (The uninitialised result at
   `x/oooexec.cpp:2048` only feeds a count that matters with several threads.)
4. **ReturnStack**: prediction and repair of the RAS against a stack of calls.
5. **Containers**: `FixedQueue`, `StateList`, `SelfHashtable` as operators against
   sequences and sets; block ends of the decoder.
6. OooCode with exceptions, the stop request and icache misses.
7. Theorems: refinement of the abstract specification of 1.

## 6. Not modelled

- SSE, x87 and vector uops and their decoders: host instructions in inline
  assembly on floating point values, out of TLC's reach.
- The parsing of prefixes, ModRM and SIB bytes: tables of data.
- The direction tables of the branch predictor and the contents of
  set-associative arrays: they only influence timing.
- Of the Linux support: the data of transfers and the flag translation tables;
  the image loader inside `syscall-linux-posix.cpp`, `clone_fd_table`,
  `close_fd_table` and the pending reads, which have no caller; host allocation
  failures outside `map()`, such as that of the copy buffer of mremap, which
  returns ENOMEM before anything has changed; a MAP_FIXED file mapping that fails after the old
  mapping is gone (`syscall-linux.cpp:408`); a fixed mremap onto its own old
  range; the wrap of the instruction limit added to the total.
- Copying an address space (`x/addrspace.cpp:94`; the copy starts with an empty
  dirty map).  No code of the repository outside its tests does.
- Transactional memory of the sequential core.
- Memory interlocks (`ld.acq`, `st.rel`): `contextcount` is 1, and the code that takes a
  lock is guarded by `contextcount > 1`.
- Statistics, event logs, printing, raspsim, the Python bindings, and everything
  under `ENABLE_SMT`, `USE_TLB` or another option that no build file sets.

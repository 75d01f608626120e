------------------------------ MODULE Microcode ------------------------------
(***************************************************************************)
(* The sequential core (seqcore.cpp) executing one guest instruction uop   *)
(* by uop, under Machine::run (x86sim.cpp).                                *)
(*                                                                         *)
(* The host owns state (its CpuState) and the address space (mem, perm).   *)
(* Run loads state into the core; the core executes the block at Ripstart  *)
(* until the instruction limit is reached or the program leaves that       *)
(* address, and state is then written back.  An exception is thrown past   *)
(* the write-back: state is left as it was when the run began.  The host   *)
(* repairs the page that the exception names and runs again.               *)
(*                                                                         *)
(* smc_mfn, which a store passes to setdirty, is never assigned in this    *)
(* core, so a store may or may not mark the page of the running            *)
(* instruction as modified; Restartable holds the instructions for which   *)
(* the model lets it.  retired is a history variable: the memory as it was *)
(* when state was last written back.                                       *)
(***************************************************************************)
EXTENDS DecodeComplex

CONSTANTS Limit,         \* instruction limit of a run
          MemSize,       \* bytes of guest memory
          PageSize,
          Restartable,   \* instructions whose store may mark their own page
          MaxRestarts,   \* restarts for modified code explored
          Cases          \* initial states: [insn, regs, flags, df, mem, perm]

ASSUME MicrocodeAssumption ==
  /\ Limit \in Nat \ {0} /\ MaxRestarts \in Nat
  /\ PageSize \in Nat \ {0} /\ PageSize % 8 = 0 /\ MemSize \in Nat /\ MemSize % PageSize = 0

VARIABLES insn, state, mem, perm,                      \* the guest, as the host sees it
          phase, fault, committed, dirty, restarts,    \* the run
          bb, upc, buf, arf, arflags, saved_flags,     \* the core
          retired

guest == <<insn, state, mem, perm>>
core == <<bb, upc, buf, arf, arflags, saved_flags>>
vars == <<insn, state, mem, perm, phase, fault, committed, dirty, restarts,
          bb, upc, buf, arf, arflags, saved_flags, retired>>

GPR == {"rax", "rcx", "rdx", "rbx", "rsp", "rbp", "rsi", "rdi"}
Temporary == {"t0", "t1", "t2", "t3", "t4", "t5", "t6", "t7", "t8", "t9", "ar1", "ar2", "selfrip", "nextrip"}
CoreReg == GPR \cup Temporary \cup {"rip", "flags", "zero", "trace", "ctx"}

Word == 0 .. WordSize - 1
Byte == 0 .. 2 ^ ByteBits - 1
Address == 0 .. MemSize - 1
Page == 0 .. (MemSize \div PageSize) - 1
PageOf(a) == a \div PageSize
DirectionFlag == 32      \* its bit in internal_eflags, above the five flags
NoFault == [kind |-> "none", addr |-> 0, store |-> FALSE, rip |-> 0]

\* The host starts the guest with registers, flags and memory of their widths.
ASSUME CasesAssumption ==
  \A c \in Cases : /\ c.regs \in [GPR -> Word] /\ c.flags \subseteq AllFlags /\ c.df \in BOOLEAN
                   /\ c.mem \in [Address -> Byte]

(***************************************************************************)
(* Loading and saving the architectural state.                             *)
(***************************************************************************)
external_to_core_state(s) ==
  [r \in CoreReg |-> CASE r \in GPR -> s.regs[r]
                       [] r = "rip" -> s.rip
                       [] r = "flags" -> FlagBits(s.flags)
                       [] OTHER -> 0]

FlagRegistersOf(s) == [r \in CoreReg |-> IF r = "flags" THEN s.flags ELSE {}]

core_to_external_state == [state EXCEPT !.regs = [r \in GPR |-> arf[r]], !.rip = arf["rip"],
                                        !.flags = FlagsOf(arf["flags"])]

\* The block's key holds the direction flag, so the translation may depend on it.
fetch_or_translate_basic_block(s) == translate([insn EXCEPT !.df = s.internal_eflags = DirectionFlag])

(***************************************************************************)
(* Memory: 8 byte chunks, addressed through check_and_translate.           *)
(***************************************************************************)
Allows(a, right) == PageOf(a) \in Page /\ (perm[PageOf(a)] = "rw" \/ (right = "read" /\ perm[PageOf(a)] = "r"))

check_and_translate(addr, s, store, internal) ==
  CASE addr % Bytes(s) # 0 -> "UnalignedAccess"
    [] addr % Bytes(s) = 0 /\ internal -> "none"
    [] OTHER -> IF Allows(addr, IF store THEN "write" ELSE "read") THEN "none" ELSE "PageFault"

Floor8(a) == a - (a % 8)
ByteOf(w, k) == (w \div 2 ^ (ByteBits * k)) % 2 ^ ByteBits
Gather(byte, n) == LET upto[k \in 0 .. n] == IF k = 0 THEN 0 ELSE upto[k - 1] + byte[k - 1] * 2 ^ (ByteBits * (k - 1))
                   IN upto[n]

\* A wrong extension: the sign is added above the whole word.
ExtendTooFar(byte, from, s, signext) ==
  LET v == Gather([k \in 0 .. Bytes(s) - 1 |-> byte[from + k]], Bytes(s))
  IN IF signext /\ Bit(v, Width(s) - 1) = 1 THEN v + (WordSize - 2 ^ (Width(s) - 1)) ELSE v
extract_bytes(byte, from, s, signext) ==
  LET v == Gather([k \in 0 .. Bytes(s) - 1 |-> byte[from + k]], Bytes(s))
  IN IF signext THEN signext64(v, Width(s)) ELSE v

\* annul: the high part of a split access that does not reach the second chunk.
addrgen(u, x) ==
  LET orig == IF u.op = "st" \/ u.cond = "none" THEN (x.ra + x.rb) % WordSize ELSE x.ra
      annul == u.cond = "hi" /\ Floor8(orig + Bytes(u.size) - 1) = Floor8(orig)
      addr == CASE u.cond = "none" -> orig
                [] u.cond = "lo" -> Floor8(orig)
                [] u.cond = "hi" -> Floor8(orig) + 8
  IN [orig |-> orig, addr |-> addr, annul |-> annul,
      exception |-> IF annul THEN "none"
                    ELSE check_and_translate(addr, u.size, u.op = "st", u.internal # "none")]

\* A wrong report: the address of the access, even if its second page faults.
ReportAccess(u, a) == a.orig

\* The address a page fault reports: the second page, for the high part.
handle_common_exceptions(u, a) == IF u.cond = "hi" THEN a.addr ELSE a.orig

Internal(field) ==
  CASE field = "internal_eflags" -> state.internal_eflags
    [] field = "mxcsr" -> state.mxcsr
    [] field = "segbase" -> 8
    [] field = "selector" -> 1
    [] field = "sim_cycle" -> committed + 2 ^ Width(2)

issueload(u, x, a) ==
  LET chunk == [k \in 0 .. 7 |-> mem[Floor8(a.addr) + k]]
      aligner == [k \in 0 .. 15 |-> IF k < 8 THEN ByteOf(x.rb, k) ELSE IF a.annul THEN 0 ELSE chunk[k - 8]]
  IN CASE u.internal # "none" -> Lo(Internal(u.internal), u.size)
       [] u.internal = "none" /\ u.cond = "hi" -> extract_bytes(aligner, a.orig % 8, u.size, u.op = "ldx")
       [] OTHER -> extract_bytes(chunk, a.addr % 8, u.size, u.op = "ldx")

\* The bytes a store changes: the bytemask, and the data moved into place.
issuestore(u, x, a) ==
  LET off == a.orig % 8
      part(k) == IF u.cond = "hi" THEN k + 8 - off ELSE k - off
      written(b) == Floor8(b) = Floor8(a.addr) /\ part(b % 8) \in 0 .. Bytes(u.size) - 1
  IN [b \in Address |-> IF written(b) THEN ByteOf(x.rc, part(b % 8)) ELSE mem[b]]

(***************************************************************************)
(* One uop.                                                                *)
(***************************************************************************)
CurrentUop == IF buf # <<>> THEN Head(buf) ELSE bb[upc]

archreg_remap_table(r) == IF r \in {"zf", "cf", "of"} THEN "flags" ELSE r

Inputs(u) ==
  LET data(r) == IF r = "imm" THEN u.rbimm ELSE arf[archreg_remap_table(r)]
      flag(r) == IF r = "imm" THEN {} ELSE arflags[archreg_remap_table(r)]
  IN [ra |-> data(u.ra), rb |-> data(u.rb), rc |-> data(u.rc),
      raflags |-> flag(u.ra), rbflags |-> flag(u.rb), rcflags |-> flag(u.rc)]

setflags_to_x86_flags(s) == If("z" \in s, ZAPS) \cup If("c" \in s, {"CF"}) \cup If("o" \in s, {"OF"})

NextRip(u, data) == IF u.rd = "rip" THEN data ELSE arf["rip"] + (Rip - Ripstart)

\* Move on; a cracked access stays at its uop until both parts are done.
Proceed(u) ==
  LET rest == IF buf # <<>> THEN Tail(buf) ELSE <<>>
  IN /\ buf' = rest
     /\ upc' = IF rest = <<>> THEN upc + 1 ELSE upc
     /\ saved_flags' = IF u.som THEN FlagsOf(arf["flags"]) ELSE saved_flags
     /\ committed' = IF u.eom THEN committed + 1 ELSE committed

Commit(u, r) ==
  LET mask == setflags_to_x86_flags(u.setflags)
      flags == (FlagsOf(arf["flags"]) \ mask) \cup (r.flags \cap mask)
      rip == IF u.eom THEN NextRip(u, r.data) ELSE arf["rip"]
      data == IF u.nouserflags THEN arf ELSE [arf EXCEPT !["flags"] = FlagBits(flags)]
      sets == IF u.nouserflags THEN arflags ELSE [arflags EXCEPT !["flags"] = flags]
  IN /\ arf' = [data EXCEPT ![u.rd] = r.data, !["rip"] = rip]
     /\ arflags' = [sets EXCEPT ![u.rd] = r.flags]
     /\ Proceed(u)
     /\ UNCHANGED <<guest, phase, fault, dirty, restarts, bb, retired>>

Executing == phase = "run" /\ ~ dirty /\ upc <= Len(bb)

\* Leave the block: nothing of it is left to execute.
LeaveBlock == bb' = <<>> /\ upc' = 1 /\ buf' = <<>>

\* An exception reaches the host; the flags are put back first, state is not touched.
Throw(kind, addr, store, rip) ==
  /\ fault' = [kind |-> kind, addr |-> addr, store |-> store, rip |-> rip]
  /\ LeaveBlock
  /\ UNCHANGED <<insn, state, mem, perm, dirty, restarts, committed, saved_flags, retired>>

RestoreFlags == arf' = [arf EXCEPT !["flags"] = FlagBits(IF CurrentUop.som THEN FlagsOf(@) ELSE saved_flags)]

\* A load or store that is not aligned is replaced by its two halves.
Crack ==
  /\ Executing
  /\ LET u == CurrentUop IN
       /\ u.op \in {"ld", "ldx", "st"}
       /\ addrgen(u, Inputs(u)).exception = "UnalignedAccess"
       /\ buf' = split_unaligned(u)
  /\ UNCHANGED <<guest, phase, fault, committed, dirty, restarts, bb, upc, arf, arflags, saved_flags, retired>>

Load ==
  /\ Executing
  /\ LET u == CurrentUop
         x == Inputs(u)
         a == addrgen(u, x)
     IN /\ u.op \in {"ld", "ldx"}
        /\ a.exception = "none"
        /\ Commit(u, Result(issueload(u, x, a), {}))

Store ==
  /\ Executing
  /\ LET u == CurrentUop
         x == Inputs(u)
         a == addrgen(u, x)
     IN /\ u.op = "st"
        /\ a.exception = "none"
        /\ mem' = issuestore(u, x, a)
        /\ arf' = [arf EXCEPT !["rip"] = IF u.eom THEN NextRip(u, 0) ELSE @]
        /\ dirty' \in {FALSE} \cup If(insn.op \in Restartable /\ restarts < MaxRestarts, {TRUE})
        /\ Proceed(u)
  /\ UNCHANGED <<insn, state, perm, phase, fault, restarts, bb, arflags, retired>>

\* handle_exception: the page fault is propagated to the host.
PageFault ==
  /\ Executing
  /\ LET u == CurrentUop
         a == addrgen(u, Inputs(u))
     IN /\ u.op \in {"ld", "ldx", "st"}
        /\ a.exception = "PageFault"
        /\ Throw("PageFault", handle_common_exceptions(u, a), u.op = "st", arf["rip"])
  /\ RestoreFlags
  /\ phase' = "faulted"
  /\ UNCHANGED arflags

\* Every other uop; a fence is a nop here.  DivideOverflow has no x86 exception and
\* stops the simulator in handle_exception's assertion.
Compute ==
  /\ Executing
  /\ LET u == CurrentUop
         r == IF u.op = "mf" THEN Result(0, {}) ELSE get_synthcode_for_uop(u, Inputs(u))
     IN /\ u.op \notin {"ld", "ldx", "st"}
        /\ CASE r.exception = "none" -> Commit(u, r)
             [] r.exception = "SkipBlock" ->
                  /\ arf' = [arf EXCEPT !["rip"] = @ + (Rip - Ripstart)]
                  /\ committed' = committed + 1
                  /\ LeaveBlock
                  /\ UNCHANGED <<guest, phase, fault, dirty, restarts, arflags, saved_flags, retired>>
             [] r.exception = "DivideOverflow" ->
                  /\ Throw("DivideOverflow", 0, FALSE, arf["rip"])
                  /\ RestoreFlags
                  /\ phase' = "aborted"
                  /\ UNCHANGED arflags

\* The page of the running instruction was marked modified: its block is dropped
\* and execution starts again at rip, with the registers as they are.
SelfModified ==
  /\ phase = "run" /\ dirty
  /\ upc <= Len(bb)
  /\ dirty' = FALSE
  /\ restarts' = restarts + 1
  /\ bb' = fetch_or_translate_basic_block(state)
  /\ upc' = 1
  /\ buf' = <<>>
  /\ UNCHANGED <<guest, phase, fault, committed, arf, arflags, saved_flags, retired>>

(***************************************************************************)
(* handle_barrier: the assists.  Those that raise do it at selfrip.        *)
(***************************************************************************)
Int80 == 2 ^ (ByteBits - 1)
FxBytes == Bytes(2)      \* of the saved image only mxcsr is kept

AssistException(assist) ==
  LET id == arf["ar1"] % 2 ^ ByteBits
  IN CASE assist = "invalid_opcode" -> "invalid_opcode"
       [] assist = "iret" -> "invalid_opcode"
       [] assist \in {"gp_fault", "write_segreg", "msr", "ioport"} -> "gp_fault"
       [] assist = "int" -> IF id = Int80 THEN "none" ELSE IF id \in {1, 3} THEN "interrupt" ELSE "gp_fault"
       [] OTHER -> "none"

\* copy_to_user and copy_from_user: the first byte out of reach, or -1.
FirstRefused(target, right) ==
  LET second == (PageOf(target) + 1) * PageSize
  IN CASE ~ Allows(target, right) -> target
       [] Allows(target, right) /\ target + FxBytes > second /\ ~ Allows(second, right) -> second
       [] OTHER -> -1

FxSaved(target) ==
  [b \in Address |-> IF b - target \in 0 .. FxBytes - 1 THEN ByteOf(state.mxcsr, b - target) ELSE mem[b]]
FxLoaded(target) == Gather([k \in 0 .. FxBytes - 1 |-> mem[target + k]], FxBytes)

AfterAssist(assist, s) ==
  LET next == [s EXCEPT !.rip = arf["nextrip"]]
  IN CASE assist = "popf" -> [next EXCEPT !.flags = FlagsOf(arf["ar1"]),
                                          !.internal_eflags = DirectionFlag * Bit(arf["ar1"], 5)]
       [] assist = "cld" -> [next EXCEPT !.internal_eflags = 0]
       [] assist = "std" -> [next EXCEPT !.internal_eflags = DirectionFlag]
       [] assist = "ldmxcsr" -> [next EXCEPT !.mxcsr = Lo(arf["ar1"], 2)]
       [] assist = "fxrstor" -> [next EXCEPT !.mxcsr = FxLoaded(arf["ar1"])]
       [] assist = "cpuid" -> [next EXCEPT !.regs = [@ EXCEPT !["rax"] = 1, !["rbx"] = 2, !["rcx"] = 3, !["rdx"] = 4]]
       [] assist = "syscall" -> [s EXCEPT !.rip = arf["rcx"], !.regs["rax"] = 0]
       [] assist \in {"sysenter", "int"} -> [next EXCEPT !.regs["rax"] = 0]
       [] OTHER -> next


\* The run is over: the host's state is brought up to date.
WriteBack(s) ==
  /\ state' = s
  /\ phase' = IF s.rip = Ripstart THEN "idle" ELSE "done"
  /\ fault' = NoFault
  /\ arf' = external_to_core_state(s)
  /\ arflags' = FlagRegistersOf(s)
  /\ LeaveBlock
  /\ retired' = mem'
  /\ UNCHANGED <<insn, perm, committed, dirty, restarts, saved_flags>>

AtBarrier == phase = "run" /\ bb # <<>> /\ upc > Len(bb) /\ Last(bb).op = "brp"

Barrier ==
  /\ AtBarrier
  /\ LET assist == Last(bb).raises
         refused == CASE assist = "fxsave" -> FirstRefused(arf["ar1"], "write")
                      [] assist = "fxrstor" -> FirstRefused(arf["ar1"], "read")
                      [] OTHER -> -1
     IN /\ AssistException(assist) = "none" /\ refused = -1
        /\ mem' = IF assist = "fxsave" THEN FxSaved(arf["ar1"]) ELSE mem
        /\ WriteBack(AfterAssist(assist, core_to_external_state))

\* An assist that raises; int leaves the assist's number in rip, the others selfrip.
BarrierRaises ==
  /\ AtBarrier
  /\ LET assist == Last(bb).raises
         right == IF assist = "fxsave" THEN "write" ELSE "read"
         refused == IF assist \in {"fxsave", "fxrstor"} THEN FirstRefused(arf["ar1"], right) ELSE -1
         exception == IF refused # -1 THEN "PageFault" ELSE AssistException(assist)
     IN /\ exception # "none"
        /\ Throw(exception, IF refused # -1 THEN refused ELSE 0, right = "write",
                 IF assist = "int" THEN arf["rip"] ELSE arf["selfrip"])
        /\ phase' = IF exception = "PageFault" THEN "faulted" ELSE "raised"
  /\ UNCHANGED <<arf, arflags>>

(***************************************************************************)
(* Machine::run and the host.                                              *)
(***************************************************************************)
Init ==
  /\ \E c \in Cases :
       /\ insn = c.insn
       /\ state = [regs |-> c.regs, flags |-> c.flags, rip |-> Ripstart,
                   internal_eflags |-> IF c.df THEN DirectionFlag ELSE 0, mxcsr |-> 3]
       /\ mem = c.mem /\ perm = c.perm /\ retired = c.mem
  /\ phase = "idle" /\ fault = NoFault
  /\ committed = 0 /\ dirty = FALSE /\ restarts = 0
  /\ bb = <<>> /\ upc = 1 /\ buf = <<>> /\ saved_flags = {}
  /\ arf = [r \in CoreReg |-> 0] /\ arflags = [r \in CoreReg |-> {}]

Run ==
  /\ phase = "idle"
  /\ phase' = "run"
  /\ fault' = NoFault
  /\ committed' = 0
  /\ arf' = external_to_core_state(state)
  /\ arflags' = FlagRegistersOf(state)
  /\ bb' = fetch_or_translate_basic_block(state)
  /\ upc' = 1 /\ buf' = <<>> /\ saved_flags' = {}
  /\ UNCHANGED <<guest, dirty, restarts, retired>>

\* The block is done: stop at the limit or where the program goes elsewhere.
EndBlock ==
  /\ phase = "run" /\ upc > Len(bb) /\ ~ AtBarrier
  /\ ~ (committed < Limit /\ arf["rip"] = Ripstart)
  /\ mem' = mem
  /\ WriteBack(core_to_external_state)

\* Below the limit, a loop back to the same address executes the block again.
NextBlock ==
  /\ phase = "run" /\ upc > Len(bb) /\ ~ AtBarrier
  /\ committed < Limit /\ arf["rip"] = Ripstart
  /\ bb' = fetch_or_translate_basic_block(state)
  /\ upc' = 1 /\ buf' = <<>>
  /\ UNCHANGED <<guest, phase, fault, committed, dirty, restarts, arf, arflags, saved_flags, retired>>

\* External: the host maps the page of the address in the exception and tries again.
Repair ==
  /\ phase = "faulted" /\ PageOf(fault.addr) \in Page
  /\ perm' = [perm EXCEPT ![PageOf(fault.addr)] = "rw"]
  /\ phase' = "idle"
  /\ UNCHANGED <<insn, state, mem, fault, committed, dirty, restarts, core, retired>>

Step == Crack \/ Load \/ Store \/ PageFault \/ Compute \/ SelfModified \/ Barrier \/ BarrierRaises
          \/ EndBlock \/ NextBlock

\* The instruction is over, and the host does not run the guest again.
Busy == phase \in {"idle", "run", "faulted"}
Over == ~ Busy /\ UNCHANGED vars

Next == Run \/ Step \/ Repair \/ Over

\* Weak fairness of Next, written out: a step can be taken exactly while Busy (the runs
\* check for deadlock), and ENABLED of these actions is costly to evaluate.
Fairness == []<>(~ Busy) \/ []<><<Next>>_vars

Spec == Init /\ [][Next]_vars /\ Fairness

(***************************************************************************)
(* What the core relies on in the uops of a block.                         *)
(***************************************************************************)
MemoryOp == {"ld", "ldx", "st"}
BranchOp == {"br", "jmp", "bru", "brp"}
ShiftOp == {"rotl", "rotr", "rotcl", "rotcr", "shl", "shr", "sar", "shls", "shrs", "sars"}
FlagOp == {"collcc", "movccr", "movrcc", "andcc", "orcc", "ornotcc", "xorcc"}
ProductOp == {"mull", "mulh", "mulhu", "div", "rem", "divs", "rems"}
AluOp == {"and", "or", "xor", "nor", "bt", "bts", "btr", "btc", "bswap", "add", "sub"}
OtherOp == {"nop", "ld_pre", "mf", "mov", "adda", "ctz", "clz", "sel", "set", "chk_sub", "mask", "maskb"}
UopName == MemoryOp \cup BranchOp \cup ShiftOp \cup FlagOp \cup ProductOp \cup AluOp \cup OtherOp

InternalField == {"internal_eflags", "mxcsr", "segbase", "selector", "sim_cycle"}

UopField == {"op", "rd", "ra", "rb", "rc", "size", "rbimm", "setflags", "mask", "cond", "extshift",
             "nouserflags", "internal", "raises", "riptaken", "ripseq", "som", "eom"}

\* Operands that exist, immediates of a register's width, a condition where one is tested.
WellFormed(u) ==
  /\ UopField \subseteq DOMAIN u
  /\ u.op \in UopName /\ u.size \in 0 .. 3
  /\ {u.ra, u.rb, u.rc} \subseteq CoreReg \cup {"zf", "cf", "of", "imm"}
  /\ u.rd \notin {"zero", "trace"}
  /\ {u.rbimm, u.riptaken, u.ripseq} \subseteq Word
  /\ {u.extshift, u.mask.ms, u.mask.mc, u.mask.ds} \subseteq Nat
  /\ u.internal \in InternalField \cup {"none"}
  /\ u.op \in {"br", "sel", "set", "chk_sub"} => u.cond \in Conditions
  /\ u.op \in {"mask", "maskb"} => u.cond \in {"none", "zeroext", "signext"}
  /\ u.op \in MemoryOp => u.cond \in {"none", "lo", "hi"}
  /\ u.op = "chk_sub" => u.raises = "SkipBlock"

SetsSelfrip(u) ==
  /\ u.op = "add" /\ u.rd = "selfrip" /\ u.ra = "trace" /\ u.rb = "imm" /\ u.rc = "zero"
  /\ u.size = 3 /\ u.rbimm = Ripstart

\* An assist that copies to or from the guest finds the address of its instruction.
KnowsSelfrip(s) ==
  s # <<>> /\ Last(s).raises \in {"fxsave", "fxrstor"} =>
    \E k \in DOMAIN s : SetsSelfrip(s[k]) /\ \A j \in DOMAIN s : j > k => s[j].rd # "selfrip"

\* A block is a sequence of such uops, and only its last one ends the instruction.
WellFormedBlock(s) ==
  /\ Len(s) \in Nat /\ DOMAIN s = 1 .. Len(s)
  /\ \A k \in DOMAIN s : WellFormed(s[k]) /\ (s[k].eom => k = Len(s))
  /\ KnowsSelfrip(s)

\* The blocks of the instructions of Cases, whatever the direction flag.
BlocksWellFormed == \A c \in Cases, df \in BOOLEAN : WellFormedBlock(translate([c.insn EXCEPT !.df = df]))

(***************************************************************************)
(* Properties.                                                             *)
(***************************************************************************)
\* Type invariant: registers, memory and flags stay in their width.
TypeOK ==
  /\ phase \in {"idle", "run", "faulted", "raised", "aborted", "done"}
  /\ arf \in [CoreReg -> Word] /\ arflags \in [CoreReg -> SUBSET AllFlags]
  /\ mem \in [Address -> Byte] /\ retired \in [Address -> Byte]
  /\ state.regs \in [GPR -> Word] /\ state.rip \in Word /\ state.flags \subseteq AllFlags
  /\ committed \in 0 .. Limit /\ restarts \in 0 .. MaxRestarts /\ upc \in 1 .. Len(bb) + 1

\* A page fault (handle_common_exceptions) names the instruction and an address that the
\* guest really may not access.
FaultNamed ==
  phase = "faulted" =>
    fault.rip = Ripstart /\ ~ Allows(fault.addr, IF fault.store THEN "write" ELSE "read")

\* A fault on the high page comes before the low part overwrites memory (split_unaligned):
\* a store that faults on the second page it touches has left memory as it was.  Nothing is
\* claimed of a fault on the first page: there the high part is stored already, and if the
\* second page is writable the store is torn.  cmpxchg16b, which stores twice, is left out.
FaultPrecise ==
  /\ FaultNamed
  /\ phase = "faulted" /\ committed = 0 /\ fault.addr % PageSize = 0 /\ insn.op # "cmpxchg16b" => mem = retired

=============================================================================

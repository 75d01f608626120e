---------------------------- MODULE DecodeComplex ----------------------------
(***************************************************************************)
(* decode_complex() of decode-complex.cpp, in 64 bit mode: exchanges,      *)
(* string instructions, multiply and divide, bit tests in memory, double   *)
(* shifts, atomics, and the instructions that end in an assist.            *)
(***************************************************************************)
EXTENDS DecodeFast

Sel(rd, ra, rb, rc, s, cond) == [Op3("sel", rd, ra, rb, rc, s) EXCEPT !.cond = cond]
Silent(uop) == [uop EXCEPT !.nouserflags = TRUE]
Locked(i) == [i EXCEPT !.lock = TRUE]
Unlocked(i) == [i EXCEPT !.lock = FALSE]

(***************************************************************************)
(* Exchanges.                                                              *)
(***************************************************************************)
decode_xchg_reg(i) ==
  LET rd == i.rd.reg
      ra == i.ra.reg
      plain == ~ i.rd.hibyte /\ ~ i.ra.hibyte
      to(o, from) == CASE o.hibyte /\ ~ from.hibyte -> InsertHigh
                       [] ~ o.hibyte /\ from.hibyte -> ExtractHigh
                       [] OTHER -> HighToHigh
      copy(o, from, src) == IF plain THEN Op3("mov", o.reg, o.reg, src, "zero", i.ra.size)
                            ELSE Maskb(o.reg, o.reg, src, to(o, from))
  IN <<Op3("mov", "t0", "zero", rd, "zero", 3), copy(i.rd, i.ra, ra), copy(i.ra, i.rd, "t0")>>

\* xchg with memory is locked; the select only makes the store wait for the load.
decode_xchg_mem(i) ==
  LET s == i.ra.size
      j == Locked(i)
  IN memory_fence_if_locked(j)
       \o <<IF i.ra.hibyte THEN Maskb("t7", "zero", i.ra.reg, ExtractHigh)
                           ELSE Op3("mov", "t7", "zero", i.ra.reg, "zero", 3)>>
       \o (IF s >= 2 THEN operand_load(j, "t6", i.rd, "ld")
           ELSE operand_load(j, "t0", i.rd, "ld") \o <<Op3("mov", "t6", i.ra.reg, "t0", "zero", s)>>)
       \o <<Sel("t7", "t7", "t6", "zero", 3, "c")>>
       \o result_store(j, "t7", i.rd)
       \o <<Op3("mov", i.ra.reg, "zero", "t6", "zero", 3)>> \o memory_fence_if_locked(j)

decode_xchg(i) == IF i.rd.type = "reg" THEN decode_xchg_reg(i) ELSE decode_xchg_mem(i)

decode_xchg_a(i) ==
  <<Op3("mov", "t0", "zero", "rax", "zero", 3), Op3("mov", "rax", "rax", i.ra.reg, "zero", i.ra.size),
    Op3("mov", i.ra.reg, i.ra.reg, "t0", "zero", i.ra.size)>>

decode_cmpxchg(i) ==
  LET s == i.ra.size
      mem == i.rd.type = "mem"
      new == IF mem THEN "t2" ELSE i.rd.reg
  IN (IF mem THEN memory_fence_if_locked(i) \o operand_load(i, "t0", i.rd, "ld")
      ELSE <<Op3("mov", "t0", "zero", i.rd.reg, "zero", s)>>)
       \o <<TransOp("sub", "t1", "rax", "t0", "zero", s, 0, FLAGS_DEFAULT_ALU),
            Sel(new, "t0", i.ra.reg, "t1", s, "e"), Sel("rax", "rax", "t0", "t1", s, "ne")>>
       \o (IF mem THEN result_store(i, "t2", i.rd) \o memory_fence_if_locked(i) ELSE <<>>)

decode_cmpxchg16b(i) ==
  LET j == Locked(i)
      s == i.rd.size
      next == [i.rd EXCEPT !.offset = (@ + Bytes(s)) % WordSize]
      diff(t, a, b) == Silent(TransOp("sub", t, a, b, "zero", s, 0, FLAGS_DEFAULT_ALU))
  IN memory_fence_if_locked(j) \o operand_load(j, "t0", i.rd, "ld") \o operand_load(j, "t1", next, "ld")
       \o <<diff("t2", "t0", "rax"), diff("t3", "t1", "rdx"),
            TransOp("andcc", "t7", "t2", "t3", "zero", s, 0, FLAGS_DEFAULT_ALU),
            Sel("t2", "t0", "rbx", "t7", s, "e"), Sel("t3", "t1", "rcx", "t7", s, "e"),
            Sel("rax", "t0", "rax", "t7", s, "e"), Sel("rdx", "t1", "rdx", "t7", s, "e")>>
       \o result_store(j, "t2", i.rd) \o result_store(j, "t3", next) \o memory_fence_if_locked(j)

decode_xadd(i) ==
  LET s == i.ra.size
      mem == i.rd.type = "mem"
      sum == IF mem THEN "t1" ELSE i.rd.reg
  IN (IF mem THEN memory_fence_if_locked(i) \o operand_load(i, "t0", i.rd, "ld")
      ELSE <<Op3("mov", "t0", "zero", i.rd.reg, "zero", s)>>)
       \o <<TransOp("add", sum, "t0", i.ra.reg, "zero", s, 0, FLAGS_DEFAULT_ALU),
            Op3("mov", i.ra.reg, i.ra.reg, "t0", "zero", s)>>
       \o (IF mem THEN result_store(i, "t1", i.rd) \o memory_fence_if_locked(i) ELSE <<>>)

(***************************************************************************)
(* Stack, flags and segment registers.                                     *)
(***************************************************************************)
\* pop to memory: an rsp based address is taken after rsp has moved.
decode_pop_ev(i) ==
  LET s == i.rd.size
      m == IF i.rd.base = "rsp" THEN [i.rd EXCEPT !.offset = (@ + Bytes(s)) % WordSize] ELSE i.rd
  IN <<OpImm("ld", "t7", "rsp", s, 0)>> \o result_store(Unlocked(i), "t7", m) \o AddRsp(Bytes(s))

decode_pushf(i) ==
  (IF i.atomic THEN <<Op3("movccr", "t0", "zero", "zf", "zero", 3)>>
   ELSE <<Collcc("t0"), Op3("movccr", "t0", "zero", "t0", "zero", 3)>>)
    \o <<InternalLoad("t1", 2, "internal_eflags"), Op3("or", "t1", "t1", "t0", "zero", 2)>>
    \o SubRsp(Bytes(3)) \o <<TransOp("st", "mem", "rsp", "imm", "t1", 3, 0, {})>>

decode_popf(i) ==
  microcode_assist(i, <<OpImm("ld", "ar1", "rsp", 3, 0)>> \o AddRsp(Bytes(3)), "popf")

CarryWord == FlagBits({"CF"})

decode_cmc(i) ==
  <<TransOp("movrcc", "t0", "zero", "imm", "zero", 3, CarryWord, {}),
    TransOp("xorcc", "t0", "cf", "t0", "zero", 3, 0, {"c"})>>
decode_clc(i) == <<TransOp("movrcc", "t0", "zero", "imm", "zero", 3, 0, {"c"})>>
decode_stc(i) == <<TransOp("movrcc", "t0", "zero", "imm", "zero", 3, CarryWord, {"c"})>>

\* The direction flag is part of a block's key: changing it takes an assist.
decode_cld(i) == IF i.df THEN microcode_assist(i, <<>>, "cld") ELSE decode_nop
decode_std(i) == IF ~ i.df THEN microcode_assist(i, <<>>, "std") ELSE decode_nop

decode_mov_from_seg(i) ==
  LET r == IF i.rd.type = "mem" THEN "t0" ELSE i.rd.reg
  IN <<InternalLoad(r, 1, "selector")>>
       \o (IF i.rd.type = "mem" THEN result_store(Unlocked(i), r, i.rd) ELSE <<>>)

decode_mov_to_seg(i) ==
  LET r == IF i.ra.type = "mem" THEN "t0" ELSE i.ra.reg
  IN microcode_assist(i, (IF i.ra.type = "mem" THEN operand_load(Unlocked(i), "t0", i.ra, "ld") ELSE <<>>)
                           \o <<Op3("mov", "ar1", "zero", r, "zero", 3)>> \o immediate("ar2", 3, 0),
                      "write_segreg")

(***************************************************************************)
(* String instructions.  With a rep prefix the block loops on itself; a    *)
(* zero count skips it.                                                    *)
(***************************************************************************)
Increment(i) == IF i.df THEN Minus(Bytes(i.rd.size)) ELSE Bytes(i.rd.size)
Advance(i, r) == OpImm("add", r, r, 3, Increment(i))

RepCheck(i) ==
  IF i.rep = "none" THEN <<>>
  ELSE <<[Op3("chk_sub", "t0", "rcx", "zero", "imm", 3) EXCEPT !.cond = "ne", !.raises = "SkipBlock"]>>

CountDown == Silent(TransOp("sub", "rcx", "rcx", "imm", "zero", 3, 1, {"z"}))
LoopWhile(r) == <<[Op3("br", "rip", r, "zero", "zero", 3)
                   EXCEPT !.cond = "ne", !.riptaken = Ripstart, !.ripseq = Rip]>>

\* movs collects the flags before it counts down, stos and lods after.
RepMovs(i, body) ==
  body \o (IF i.rep = "none" THEN <<>>
           ELSE (IF i.atomic THEN <<>> ELSE <<Collcc("t5")>>) \o <<CountDown>> \o LoopWhile("rcx"))
RepStos(i, body) ==
  body \o (IF i.rep = "none" THEN <<>> ELSE CollectFlags(<<CountDown>>, i, "t5") \o LoopWhile("rcx"))

\* repz goes on while the operands are equal, repnz while they differ.
RepCompare(i, body) ==
  body \o (IF i.rep = "none" THEN <<>>
           ELSE <<CountDown, Silent(TransOp(IF i.rep = "repz" THEN "ornotcc" ELSE "orcc", "t0", "rcx", "t2",
                                            "zero", 3, 0, FLAGS_DEFAULT_ALU))>> \o LoopWhile("t0"))

decode_movs(i) ==
  RepCheck(i) \o RepMovs(i, <<OpImm("ld", "t0", "rsi", i.rd.size, 0),
                              TransOp("st", "mem", "rdi", "imm", "t0", i.rd.size, 0, {}),
                              Advance(i, "rsi"), Advance(i, "rdi")>>)

decode_cmps(i) ==
  RepCheck(i) \o RepCompare(i, <<OpImm("ld", "t0", "rsi", i.rd.size, 0), OpImm("ld", "t1", "rdi", i.rd.size, 0),
                                 Advance(i, "rsi"), Advance(i, "rdi"),
                                 TransOp("sub", "t2", "t0", "t1", "zero", i.rd.size, 0, FLAGS_DEFAULT_ALU)>>)

decode_stos(i) ==
  RepCheck(i) \o RepStos(i, <<TransOp("st", "mem", "rdi", "imm", "rax", i.rd.size, 0, {}), Advance(i, "rdi")>>)

decode_lods(i) ==
  LET s == i.rd.size
      load == IF s >= 2 THEN <<OpImm("ld", "rax", "rsi", s, 0)>>
              ELSE <<OpImm("ld", "t0", "rsi", s, 0), Op3("mov", "rax", "rax", "t0", "zero", s)>>
  IN RepCheck(i) \o RepStos(i, load \o <<Advance(i, "rsi")>>)

decode_scas(i) ==
  RepCheck(i) \o RepCompare(i, <<OpImm("ld", "t1", "rdi", i.rd.size, 0), Advance(i, "rdi"),
                                 TransOp("sub", "t2", "t1", "rax", "zero", i.rd.size, 0, FLAGS_DEFAULT_ALU)>>)

decode_xlat(i) ==
  LET base == bias_by_segreg(i, "rbx")
  IN base.uops \o <<Op3("mov", "t0", "zero", "rax", "zero", 0), Op3("add", "t8", base.reg, "t0", "zero", 3),
                    OpImm("ld", "t0", "t8", 0, 0), Op3("mov", "rax", "rax", "t0", "zero", 0)>>

\* loop, loopz and loopnz test rcx (ecx without a REX.W prefix) and leave it as it is.
TestRcx(s) == Silent(TransOp("and", "t1", "rcx", "rcx", "zero", s, 0, FLAGS_DEFAULT_ALU))
BranchIfZero(r) == <<[Op3("br", "rip", r, "zero", "zero", 3)
                      EXCEPT !.cond = "e", !.riptaken = Target, !.ripseq = Rip]>>
decode_loop(i) ==
  LET merge == IF i.op = "loop" THEN <<>>
               ELSE <<Silent(TransOp(IF i.op = "loopnz" THEN "ornotcc" ELSE "orcc", "t1", "t1", "zf", "zero",
                                     3, 0, FLAGS_DEFAULT_ALU))>>
  IN CollectFlags(<<TestRcx(2)>> \o merge, i, "t5") \o BranchIfZero("t1")
decode_jcxz(i) == CollectFlags(<<TestRcx(3)>>, i, "t0") \o BranchIfZero("t1")

(***************************************************************************)
(* Multiply and divide into rdx:rax, or ah:al for bytes.                   *)
(***************************************************************************)
decode_mul(i) ==
  LET s == i.rd.size
      high == IF i.op = "mul" THEN "mulhu" ELSE "mulh"
      mem == i.rd.type = "mem"
      src == IF mem THEN "t4" ELSE i.rd.reg
      to == IF s = 0 THEN "t1" ELSE "rdx"
  IN (IF mem THEN move_reg_or_mem(Unlocked(i), Reg("rax", 3), i.rd, "t4") ELSE <<>>)
       \o <<Op3("mov", "t0", "zero", src, "zero", 3),
            TransOp(high, to, "rax", "t0", "zero", s, 0, {"c", "o"}),
            Op3("mull", "rax", "rax", "t0", "zero", s)>>
       \o (IF s = 0 THEN <<Maskb("rax", "rax", "t1", InsertHigh)>> ELSE <<>>)

decode_div(i) ==
  LET s == i.rd.size
      div == IF i.op = "div" THEN "div" ELSE "divs"
      rem == IF i.op = "div" THEN "rem" ELSE "rems"
      hi == IF s > 0 THEN "rdx" ELSE "t3"
  IN move_reg_or_mem(Unlocked(i), Reg("rax", 3), i.rd, "t2")
       \o (IF s > 0 THEN <<>> ELSE <<Maskb("t3", "zero", "rax", ExtractHigh)>>)
       \o <<Op3(div, "t0", hi, "rax", "t2", s), Op3(rem, "t1", hi, "rax", "t2", s),
            Op3("mov", "rax", "rax", "t0", "zero", s)>>
       \o (IF s > 0 THEN <<Op3("mov", "rdx", "rdx", "t1", "zero", s)>>
                    ELSE <<Maskb("rax", "rax", "t1", InsertHigh)>>)

(***************************************************************************)
(* Bit tests in memory: the byte that holds the bit is addressed.          *)
(***************************************************************************)
BitOp(i, at, src, imm, offset) ==
  <<OpImm("ld", "t0", at, 0, offset), TransOp(i.op, "t0", "t0", src, "zero", 0, imm, {"c"})>>
    \o (IF i.op = "bt" THEN <<>> ELSE <<TransOp("st", "mem", at, "imm", "t0", 0, offset, {})>>)

decode_bt_mem(i) ==
  LET j == [i EXCEPT !.lock = @ /\ i.op # "bt"]
      address == address_generate_and_load_or_store(j, "t1", "zero", [i.rd EXCEPT !.size = 3], "add", TRUE)
      byimm == i.ra.type = "imm"
  IN memory_fence_if_locked(j) \o address
       \o (IF byimm THEN BitOp(i, "t1", "imm", i.ra.imm % ByteBits, i.ra.imm \div ByteBits)
           ELSE <<OpImm("sar", "t2", i.ra.reg, 3, LogByte), Op3("add", "t2", "t1", "t2", "zero", 3)>>
                  \o BitOp(i, "t2", i.ra.reg, 0, 0))
       \o memory_fence_if_locked(j)

\* shld and shrd by an immediate: shift, then insert the bits of the other register.
decode_shxd(i) ==
  LET s == i.rd.size
      count == i.imm % Width(s)
      mem == i.rd.type = "mem"
      r == IF mem THEN "t4" ELSE i.rd.reg
      left == i.op = "shld"
      ctl == IF left THEN MaskControlInfo(0, count, Width(s) - count) ELSE MaskControlInfo(count, count, count)
  IN (IF mem THEN operand_load(i, "t4", i.rd, "ld") ELSE <<>>)
       \o (IF count = 0 THEN decode_nop
           ELSE <<TransOp(IF left THEN "shl" ELSE "shr", r, r, "imm", "zero", s, count, FLAGS_DEFAULT_ALU),
                  [TransOp("mask", r, r, i.ra.reg, "imm", s, 0, FLAGS_DEFAULT_ALU) EXCEPT !.mask = ctl]>>
                  \o (IF mem THEN result_store(i, r, i.rd) ELSE <<>>))

(***************************************************************************)
(* Assists, fences and the rest.                                           *)
(***************************************************************************)
decode_int(i) == microcode_assist(i, immediate("ar1", 0, i.imm), "int")
decode_iret(i) == microcode_assist(i, <<>>, "iret")
decode_ioport(i) ==
  microcode_assist(i, (IF i.ra.type = "imm" THEN <<OpImm("mov", "ar1", "zero", 3, i.ra.imm)>>
                       ELSE <<Op3("mov", "ar1", "zero", "rdx", "zero", 1)>>)
                        \o <<OpImm("mov", "ar2", "zero", 0, i.imm)>>, "ioport")
decode_msr(i) == microcode_assist(i, <<>>, "msr")
decode_cpuid(i) == microcode_assist(i, <<>>, "cpuid")
decode_syscall(i) == microcode_assist(i, abs_code_addr_immediate("rcx", Rip), "syscall")
decode_sysenter(i) == microcode_assist(i, <<>>, "sysenter")

decode_fxsave(i) ==
  microcode_assist(i, address_generate_and_load_or_store(Unlocked(i), "ar1", "zero", i.rd, "add", TRUE), i.op)
decode_ldmxcsr(i) ==
  microcode_assist(i, operand_load(Unlocked(i), "ar1", [i.ra EXCEPT !.size = 2], "ld"), "ldmxcsr")
decode_stmxcsr(i) == <<InternalLoad("t1", 1, "mxcsr")>> \o result_store(Unlocked(i), "t1", i.rd)
decode_fence(i) == memory_fence_if_locked(Locked(i))

decode_rdtsc(i) ==
  <<InternalLoad("rdx", 3, "sim_cycle"), Op3("mov", "rax", "zero", "rdx", "zero", 2),
    OpImm("shr", "rdx", "rdx", 3, Width(2))>>

\* Instructions that 64 bit user mode refuses.
decode_invalid(i) ==
  invalidate(i, IF i.op \in {"hlt", "cli", "sti", "mov_cr", "mov_dr"} THEN "GP_FAULT" ELSE "INVALID_OPCODE")

(***************************************************************************)
(* translate(): the recipe of an instruction.                              *)
(***************************************************************************)
decode_fast(i) ==
  CASE i.op \in {"add", "or", "adc", "sbb", "and", "sub", "xor", "cmp"} -> decode_arith(i)
    [] i.op = "test" -> decode_test(i)
    [] i.op \in {"inc", "dec"} -> decode_incdec(i)
    [] i.op = "not" -> decode_not(i)
    [] i.op = "neg" -> decode_neg(i)
    [] i.op = "imul_imm" -> decode_imul_imm(i)
    [] i.op = "imul2" -> decode_imul(i)
    [] i.op \in {"bsf", "bsr"} -> decode_bitscan(i)
    [] i.op = "bswap" -> decode_bswap(i)
    [] i.op \in {"bt", "bts", "btr", "btc"} /\ i.rd.type = "reg" -> decode_bt_reg(i)
    [] i.op \in {"rol", "ror", "rcl", "rcr", "shl", "shr", "sar"} -> decode_shift(i)
    [] i.op = "push" -> decode_push(i)
    [] i.op = "pop" -> decode_pop(i)
    [] i.op = "push_imm" -> decode_push_imm(i)
    [] i.op = "push_ev" -> decode_push_ev(i)
    [] i.op = "enter" -> decode_enter(i)
    [] i.op = "leave" -> decode_leave(i)
    [] i.op = "jcc" -> decode_jcc(i)
    [] i.op = "ret" -> decode_ret(i)
    [] i.op \in {"call", "jmp"} -> decode_call(i)
    [] i.op \in {"call_ev", "jmp_ev"} -> decode_call_ev(i)
    [] i.op = "mov" -> decode_mov(i)
    [] i.op = "mov_imm" -> decode_mov_imm(i)
    [] i.op = "movzx" -> decode_movzx(i)
    [] i.op = "movsx" -> decode_movsx(i)
    [] i.op = "mov_moffs" -> decode_mov_moffs(i)
    [] i.op = "lea" -> decode_lea(i)
    [] i.op = "cbw" -> decode_cbw(i)
    [] i.op = "cwd" -> decode_cwd(i)
    [] i.op = "cmov" -> decode_cmov(i)
    [] i.op = "setcc" -> decode_setcc(i)
    [] i.op = "nop" -> decode_nop
    [] i.op = "prefetch" -> decode_prefetch(i)
    [] OTHER -> <<>>

decode_complex(i) ==
  CASE i.op = "xchg" -> decode_xchg(i)
    [] i.op = "xchg_a" -> decode_xchg_a(i)
    [] i.op = "cmpxchg" -> decode_cmpxchg(i)
    [] i.op = "cmpxchg16b" -> decode_cmpxchg16b(i)
    [] i.op = "xadd" -> decode_xadd(i)
    [] i.op = "pop_ev" -> decode_pop_ev(i)
    [] i.op = "pushf" -> decode_pushf(i)
    [] i.op = "popf" -> decode_popf(i)
    [] i.op = "cmc" -> decode_cmc(i)
    [] i.op = "clc" -> decode_clc(i)
    [] i.op = "stc" -> decode_stc(i)
    [] i.op = "cld" -> decode_cld(i)
    [] i.op = "std" -> decode_std(i)
    [] i.op = "mov_from_seg" -> decode_mov_from_seg(i)
    [] i.op = "mov_to_seg" -> decode_mov_to_seg(i)
    [] i.op = "movs" -> decode_movs(i)
    [] i.op = "cmps" -> decode_cmps(i)
    [] i.op = "stos" -> decode_stos(i)
    [] i.op = "lods" -> decode_lods(i)
    [] i.op = "scas" -> decode_scas(i)
    [] i.op = "xlat" -> decode_xlat(i)
    [] i.op \in {"loop", "loopz", "loopnz"} -> decode_loop(i)
    [] i.op = "jcxz" -> decode_jcxz(i)
    [] i.op \in {"mul", "imul"} -> decode_mul(i)
    [] i.op \in {"div", "idiv"} -> decode_div(i)
    [] i.op \in {"bt", "bts", "btr", "btc"} -> decode_bt_mem(i)
    [] i.op \in {"shld", "shrd"} -> decode_shxd(i)
    [] i.op = "int" -> decode_int(i)
    [] i.op = "iret" -> decode_iret(i)
    [] i.op \in {"in", "out"} -> decode_ioport(i)
    [] i.op \in {"rdmsr", "wrmsr"} -> decode_msr(i)
    [] i.op = "cpuid" -> decode_cpuid(i)
    [] i.op = "syscall" -> decode_syscall(i)
    [] i.op = "sysenter" -> decode_sysenter(i)
    [] i.op \in {"fxsave", "fxrstor"} -> decode_fxsave(i)
    [] i.op = "ldmxcsr" -> decode_ldmxcsr(i)
    [] i.op = "stmxcsr" -> decode_stmxcsr(i)
    [] i.op = "fence" -> decode_fence(i)
    [] i.op = "rdtsc" -> decode_rdtsc(i)
    [] OTHER -> decode_invalid(i)

translate(i) == LET fast == decode_fast(i) IN flush(IF fast # <<>> THEN fast ELSE decode_complex(i))

=============================================================================

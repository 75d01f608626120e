----------------------------- MODULE DecodeFast -----------------------------
(***************************************************************************)
(* decode_fast() of decode-fast.cpp, in 64 bit mode: the recipe of uops of *)
(* each common instruction.  i is the decoded instruction (see Decode).    *)
(***************************************************************************)
EXTENDS Decode

Bytes(s) == 2 ^ s
SIMPLE_SHIFT_LIMIT == 8

\* The one or two flag registers a condition reads; two means collecting them first.
cond_code_to_flag_regs(cond) ==
  CASE cond \in {"o", "no"}   -> [ra |-> "of", rb |-> "of", req2 |-> FALSE]
    [] cond \in {"c", "nc"}   -> [ra |-> "cf", rb |-> "cf", req2 |-> FALSE]
    [] cond \in {"be", "nbe"} -> [ra |-> "zf", rb |-> "cf", req2 |-> TRUE]
    [] cond \in {"l", "nl", "le", "nle"} -> [ra |-> "zf", rb |-> "of", req2 |-> TRUE]
    [] OTHER -> [ra |-> "zf", rb |-> "zf", req2 |-> FALSE]

\* Fences around a locked read-modify-write of memory.
Fenced(i, uops) ==
  IF i.rd.type = "mem" THEN memory_fence_if_locked(i) \o uops \o memory_fence_if_locked(i) ELSE uops

Alu(i, op, ra, setflags, rc) == alu_reg_or_mem(i, op, i.rd, ra, setflags, rc, FALSE, FALSE)

(***************************************************************************)
(* Arithmetic.                                                             *)
(***************************************************************************)
translate_opcode(op) ==
  CASE op \in {"add", "adc"} -> "add"
    [] op \in {"sub", "sbb", "cmp"} -> "sub"
    [] OTHER -> op

decode_arith(i) ==
  LET j == [i EXCEPT !.lock = @ /\ i.op # "cmp"]
  IN Fenced(j, alu_reg_or_mem(j, translate_opcode(i.op), i.rd, i.ra, FLAGS_DEFAULT_ALU,
                              IF i.op \in {"adc", "sbb"} THEN "cf" ELSE "zero", i.op = "cmp", FALSE))

decode_test(i) == alu_reg_or_mem(i, "and", i.rd, i.ra, FLAGS_DEFAULT_ALU, "zero", TRUE, FALSE)

\* inc and dec leave the carry flag alone.
decode_incdec(i) ==
  Fenced(i, Alu(i, IF i.op = "inc" THEN "add" ELSE "sub", Imm(1), {"z", "o"}, "zero"))

decode_not(i) == Fenced(i, Alu(i, "nor", i.rd, {}, "zero"))
decode_neg(i) == Fenced(i, alu_reg_or_mem(i, "sub", i.rd, i.rd, FLAGS_DEFAULT_ALU, "zero", FALSE, TRUE))

decode_imul_imm(i) == alu_ra_rb_imm(i, "mull", i.rd, i.ra, {"c", "o"}, i.imm)
decode_imul(i) == Alu(i, "mull", i.ra, {"c", "o"}, "zero")
decode_bitscan(i) == Alu(i, IF i.op = "bsf" THEN "ctz" ELSE "clz", i.ra, FLAGS_DEFAULT_ALU, "zero")

decode_bswap(i) ==
  <<Op3("bswap", i.rd.reg, IF i.rd.size >= 2 THEN "zero" ELSE i.rd.reg, i.rd.reg, "zero", i.rd.size)>>

\* bt, bts, btr, btc of a register: always 64 bits wide.
decode_bt_reg(i) ==
  LET src == IF i.ra.type = "imm" THEN "imm" ELSE i.ra.reg
  IN <<TransOp(i.op, IF i.op = "bt" THEN "t0" ELSE i.rd.reg, i.rd.reg, src, "zero", 3, ImmOf(i.ra), {"c"})>>

(***************************************************************************)
(* Shifts and rotates: a constant count decides which flags are set, a     *)
(* count in cl sets all, from the old ones collected in t5.                *)
(***************************************************************************)
ShiftUop(op) ==
  CASE op = "rol" -> "rotl" [] op = "ror" -> "rotr" [] op = "rcl" -> "rotcl" [] op = "rcr" -> "rotcr"
    [] OTHER -> op

ShiftCount(i) == IF i.ra.type = "imm" THEN i.ra.imm % (IF i.rd.size = 3 THEN Width(3) ELSE Width(2)) ELSE 0

ShiftSetflags(i) ==
  LET rot == i.op \in {"rol", "ror", "rcl", "rcr"}
      count == ShiftCount(i)
  IN IF i.ra.type = "reg" THEN FLAGS_DEFAULT_ALU
     ELSE If(count > 0, {"c"}) \cup If(count > 0 /\ ~ rot, {"z"}) \cup If(count = 1, {"o"})

decode_shift(i) ==
  LET bycl == i.ra.type = "reg"
      op == IF ~ bycl /\ ShiftCount(i) <= SIMPLE_SHIFT_LIMIT /\ i.op \in {"shl", "shr", "sar"}
            THEN CASE i.op = "shl" -> "shls" [] i.op = "shr" -> "shrs" [] i.op = "sar" -> "sars"
            ELSE ShiftUop(i.op)
      rc == CASE bycl -> "t5"
              [] ~ bycl /\ op \in {"rotcl", "rotcr"} -> "cf"
              [] OTHER -> "zero"
  IN (IF bycl THEN <<[Collcc("t5") EXCEPT !.nouserflags = TRUE]>> ELSE <<>>)
       \o Alu(i, op, IF bycl THEN i.ra ELSE Imm(ShiftCount(i)), ShiftSetflags(i), rc)

(***************************************************************************)
(* Stack instructions: memory is touched before rsp moves.                 *)
(***************************************************************************)
AddRsp(n) == <<OpImm("add", "rsp", "rsp", 3, n)>>
SubRsp(n) == <<OpImm("sub", "rsp", "rsp", 3, n)>>

StoreBelow(r, s) == <<TransOp("st", "mem", "rsp", "imm", r, s, Minus(Bytes(s)), {})>>
Push(r, s) == StoreBelow(r, s) \o SubRsp(Bytes(s))

decode_push(i) == Push(i.ra.reg, i.ra.size)
decode_pop(i) ==
  <<OpImm("ld", i.ra.reg, "rsp", i.ra.size, 0)>> \o (IF i.ra.reg # "rsp" THEN AddRsp(Bytes(i.ra.size)) ELSE <<>>)

decode_push_imm(i) == immediate("t0", 2, i.imm) \o Push("t0", 3)
decode_push_ev(i) ==
  operand_load([i EXCEPT !.lock = FALSE], "t7", i.ra, "ld") \o Push("t7", i.ra.size)

decode_enter(i) ==
  Push("rbp", 3) \o <<Op3("mov", "rbp", "zero", "rsp", "zero", 3)>> \o SubRsp(i.imm)

\* The first load only checks the address, so that a fault comes before rsp changes.
decode_leave(i) ==
  <<OpImm("ld", "t0", "rbp", 3, 0), Op3("mov", "rsp", "zero", "rbp", "zero", 3),
    OpImm("ld", "rbp", "rsp", 3, 0)>> \o AddRsp(Bytes(3))

(***************************************************************************)
(* Branches; the flags are collected first unless one uop wrote them all.  *)
(***************************************************************************)
decode_jcc(i) ==
  LET c == cond_code_to_flag_regs(i.cond)
  IN CollectFlags(<<>>, i, "t0")
       \o <<[Op3("br", "rip", c.ra, c.rb, "zero", 3)
             EXCEPT !.cond = i.cond, !.riptaken = Target, !.ripseq = Rip]>>

decode_ret(i) ==
  CollectFlags(<<OpImm("ld", "t7", "rsp", 3, 0)>> \o AddRsp(Bytes(3) + i.imm), i, "t5")
    \o <<Op3("jmp", "rip", "t7", "zero", "zero", 3)>>

PushRip(t) == abs_code_addr_immediate(t, Rip) \o Push(t, 3)

decode_call(i) ==
  CollectFlags(IF i.op = "call" THEN PushRip("t0") ELSE <<>>, i, "t0")
    \o <<[Op3("bru", "rip", "zero", "zero", "zero", 3) EXCEPT !.riptaken = Target, !.ripseq = Target]>>

decode_call_ev(i) ==
  LET inreg == i.ra.type = "reg"
  IN CollectFlags(<<>>, i, "t0")
       \o (IF inreg THEN <<>> ELSE operand_load([i EXCEPT !.lock = FALSE], "t0", i.ra, "ld"))
       \o (IF i.op = "call_ev" THEN PushRip("t6") ELSE <<>>)
       \o <<Op3("jmp", "rip", IF inreg THEN i.ra.reg ELSE "t0", "zero", "zero", i.ra.size)>>

(***************************************************************************)
(* Moves.                                                                  *)
(***************************************************************************)
decode_mov(i) == move_reg_or_mem(i, i.rd, i.ra, "zero")
decode_mov_imm(i) ==
  <<OpImm("mov", i.rd.reg, IF i.rd.size >= 2 THEN "zero" ELSE i.rd.reg, i.rd.size, i.ra.imm)>>
decode_movzx(i) == signext_reg_or_mem(i, i.rd, i.ra, i.ra.size, TRUE)
decode_movsx(i) == signext_reg_or_mem(i, i.rd, i.ra, i.ra.size, FALSE)

decode_mov_moffs(i) ==
  LET j == [i EXCEPT !.lock = FALSE]
  IN IF i.rd.type = "mem" THEN result_store(j, "rax", i.rd) ELSE operand_load(j, "rax", i.ra, "ld")

decode_lea(i) ==
  LET m == [i.ra EXCEPT !.size = i.rd.size]
      to == IF i.rd.size = 1 THEN "t1" ELSE i.rd.reg
  IN address_generate_and_load_or_store(i, to, "zero", m, "add", FALSE)
       \o (IF i.rd.size = 1 THEN <<Op3("mov", i.rd.reg, i.rd.reg, "t1", "zero", 1)>> ELSE <<>>)

\* cbw, cwde, cdqe: rax from its own lower half.
decode_cbw(i) ==
  LET s == i.rd.size
  IN <<[Maskb("rax", IF s < 3 THEN "rax" ELSE "zero", "rax", MaskControlInfo(0, Width(s - 1), 0))
        EXCEPT !.size = s, !.cond = "signext"]>>

\* cwd, cdq, cqo: rdx from the sign of rax.
decode_cwd(i) ==
  LET s == i.rd.size
  IN <<[TransOp("bt", "t0", "rax", "imm", "zero", s, Width(s) - 1, {"c"}) EXCEPT !.nouserflags = TRUE],
       [TransOp("sel", "t0", "zero", "imm", "t0", 3, WordSize - 1, {}) EXCEPT !.cond = "c"],
       Op3("mov", "rdx", IF s < 2 THEN "rdx" ELSE "zero", "t0", "zero", s)>>

decode_cmov(i) ==
  LET c == cond_code_to_flag_regs(i.cond)
      src == IF i.ra.type = "reg" THEN i.ra.reg ELSE "t7"
  IN (IF i.ra.type = "reg" THEN <<>> ELSE operand_load([i EXCEPT !.lock = FALSE], "t7", i.ra, "ld"))
       \o (IF c.req2 THEN <<Collcc("t0")>> ELSE <<>>)
       \o <<[Op3("sel", i.rd.reg, i.rd.reg, src, IF c.req2 THEN "t0" ELSE c.ra, i.rd.size)
             EXCEPT !.cond = i.cond]>>

decode_setcc(i) ==
  LET c == cond_code_to_flag_regs(i.cond)
      mem == i.rd.type = "mem"
      high == ~ mem /\ i.rd.hibyte
      r == CASE mem -> "t7" [] high -> "t0" [] OTHER -> i.rd.reg
  IN <<[Op3("set", r, c.ra, c.rb, IF mem THEN "zero" ELSE r, 0) EXCEPT !.cond = i.cond]>>
       \o CASE mem  -> result_store([i EXCEPT !.lock = FALSE], r, [i.rd EXCEPT !.size = 0])
            [] high -> <<Maskb(i.rd.reg, i.rd.reg, r, InsertHigh)>>
            [] OTHER -> <<>>

decode_nop == <<Op3("nop", "t0", "zero", "zero", "zero", 3)>>
decode_prefetch(i) == operand_load([i EXCEPT !.lock = FALSE], "t0", i.ra, "ld_pre")

=============================================================================

------------------------------- MODULE Decode -------------------------------
(***************************************************************************)
(* The recipes of decode-core.cpp that the instruction decoders share: how *)
(* operands are fetched and written back, how an address is generated, and *)
(* how an unaligned access is cracked in two.  A recipe is a sequence of   *)
(* uops, in the order in which the decoder puts them.                      *)
(*                                                                         *)
(* An instruction is a record: op and the operands rd and ra; cond, the    *)
(* condition code; imm, an extra immediate; lock, seg and rep, its         *)
(* prefixes; df, the direction flag of the block; atomic, whether the last *)
(* flag update before it wrote all flags (last_flags_update_was_atomic).   *)
(***************************************************************************)
EXTENDS Uops, SequencesExt

CONSTANTS Ripstart,    \* address of the instruction
          Rip,         \* address of the instruction after it
          Target       \* where its branch goes

ASSUME AddressAssumption == Ripstart < Rip /\ {Ripstart, Rip, Target} \subseteq 0 .. WordSize - 1

(***************************************************************************)
(* Operands and uops.                                                      *)
(***************************************************************************)
Reg(r, s) == [type |-> "reg", reg |-> r, size |-> s, hibyte |-> FALSE]
HighByte(r) == [type |-> "reg", reg |-> r, size |-> 0, hibyte |-> TRUE]
Imm(v) == [type |-> "imm", imm |-> v % WordSize]
Mem(base, index, scale, offset, s) ==
  [type |-> "mem", base |-> base, index |-> index, scale |-> scale, offset |-> offset, size |-> s]

Minus(n) == (WordSize - n) % WordSize

MaskControlInfo(ms, mc, ds) == [ms |-> ms, mc |-> mc, ds |-> ds]
ExtractHigh == MaskControlInfo(0, ByteBits, ByteBits)
InsertHigh == MaskControlInfo(Width(3) - ByteBits, ByteBits, Width(3) - ByteBits)
HighToHigh == MaskControlInfo(Width(3) - ByteBits, ByteBits, 0)

FLAGS_DEFAULT_ALU == {"z", "c", "o"}

TransOp(op, rd, ra, rb, rc, size, rbimm, setflags) ==
  [op |-> op, rd |-> rd, ra |-> ra, rb |-> rb, rc |-> rc, size |-> size, rbimm |-> rbimm,
   setflags |-> setflags, mask |-> MaskControlInfo(0, 0, 0), cond |-> "none", extshift |-> 0,
   nouserflags |-> FALSE, internal |-> "none", raises |-> "none", riptaken |-> 0, ripseq |-> 0,
   som |-> FALSE, eom |-> FALSE]

Op3(op, rd, ra, rb, rc, size) == TransOp(op, rd, ra, rb, rc, size, 0, {})
OpImm(op, rd, ra, size, imm) == TransOp(op, rd, ra, "imm", "zero", size, imm, {})
Maskb(rd, ra, rb, mask) == [Op3("maskb", rd, ra, rb, "imm", 3) EXCEPT !.mask = mask]
Collcc(rd) == TransOp("collcc", rd, "zf", "cf", "of", 3, 0, FLAGS_DEFAULT_ALU)
InternalLoad(rd, size, field) == [OpImm("ld", rd, "ctx", size, 0) EXCEPT !.internal = field]

\* last_flags_update_was_atomic after the uops of s were put.
WasAtomic(s, before) ==
  LET writers == SelectSeq(s, LAMBDA u : u.setflags # {})
  IN IF writers = <<>> THEN before ELSE Last(writers).setflags = FLAGS_DEFAULT_ALU

\* Putting one more uop, a collcc, if the flags were last updated in parts.
CollectFlags(s, i, rd) == s \o (IF WasAtomic(s, i.atomic) THEN <<>> ELSE <<Collcc(rd)>>)

immediate(rd, s, imm) == <<OpImm("mov", rd, "zero", 3, signext64(imm, Width(s)))>>
abs_code_addr_immediate(rd, imm) == <<OpImm("add", rd, "trace", 3, imm)>>

memory_fence_if_locked(i) == IF i.lock THEN <<Op3("mf", "t0", "zero", "zero", "zero", 0)>> ELSE <<>>

(***************************************************************************)
(* Address generation.                                                     *)
(***************************************************************************)
bias_by_segreg(i, base) ==
  IF ~ i.seg THEN [uops |-> <<>>, reg |-> base]
  ELSE [uops |-> <<InternalLoad("t6", 3, "segbase"), Op3("add", "t6", "t6", base, "zero", 3)>>,
        reg |-> "t6"]

address_generate_and_load_or_store(i, dest, src, m, op, forcebias) ==
  LET memop == op \in {"ld", "ldx", "st", "ld_pre"}
      bias == IF memop \/ forcebias THEN bias_by_segreg(i, m.base) ELSE [uops |-> <<>>, reg |-> m.base]
      far == op # "add" /\ m.offset % 2 ^ m.size # 0
      tofar == IF far THEN <<OpImm("add", "t8", bias.reg, 3, m.offset)>> ELSE <<>>
      base == IF far THEN "t8" ELSE bias.reg
      offset == IF far THEN 0 ELSE m.offset
      access(from, imm) == <<TransOp(op, dest, from, "imm", src, m.size, imm, {})>>
      index(to, from, s) == IF m.scale = 0 /\ m.offset = 0 THEN <<Op3("add", to, from, m.index, "zero", s)>>
                            ELSE <<[Op3("adda", to, from, "zero", m.index, s) EXCEPT !.extshift = m.scale]>>
  IN CASE m.base = "rip" ->
            IF memop THEN abs_code_addr_immediate("t8", (Rip + m.offset) % WordSize) \o access("t8", 0)
            ELSE abs_code_addr_immediate(dest, (Rip + m.offset) % WordSize)
       [] m.base # "rip" /\ m.index = "zero" -> bias.uops \o tofar \o access(base, offset)
       [] m.base # "rip" /\ m.index # "zero" /\ m.offset = 0 ->
            LET to == IF memop THEN "t8" ELSE dest
            IN bias.uops \o index(to, bias.reg, IF memop THEN 3 ELSE m.size) \o access(to, 0)
       [] OTHER -> bias.uops \o tofar \o index("t8", base, 3) \o access("t8", offset)

operand_load(i, dest, m, op) == address_generate_and_load_or_store(i, dest, "zero", m, op, FALSE)
result_store(i, src, m) == address_generate_and_load_or_store(i, "mem", src, m, "st", FALSE)

(***************************************************************************)
(* Two operand arithmetic: register or memory destination.                 *)
(***************************************************************************)
\* Read a register operand; a high byte is first brought down into tmp.
Fetch(o, tmp) ==
  IF o.type = "imm" THEN [uops |-> <<>>, reg |-> "imm"]
  ELSE IF o.hibyte THEN [uops |-> <<Maskb(tmp, "zero", o.reg, ExtractHigh)>>, reg |-> tmp]
  ELSE [uops |-> <<>>, reg |-> o.reg]

ImmOf(o) == IF o.type = "imm" THEN o.imm ELSE 0

\* Write the result of a uop with destination o; a high byte goes through t2.
Deliver(o, uop) ==
  IF o.hibyte THEN <<[uop EXCEPT !.rd = "t2"], Maskb(o.reg, o.reg, "t2", InsertHigh)>>
  ELSE <<[uop EXCEPT !.rd = o.reg]>>

alu_reg_reg(op, rd, ra, setflags, rc, flagsonly, isneg) ==
  LET a == Fetch(rd, "t2")
      b == Fetch(ra, "t3")
      src == IF ra.type = "imm" THEN "imm" ELSE ra.reg
      zeroing == op = "xor" /\ rd.reg = src /\ rd.size >= 2
      first == IF zeroing THEN "zero" ELSE a.reg
      second == IF zeroing THEN "zero" ELSE b.reg
      uop == TransOp(op, "t0", first, second, rc, rd.size, ImmOf(ra), setflags)
  IN a.uops \o b.uops \o
     CASE flagsonly -> <<uop>>
       [] ~ flagsonly /\ isneg /\ rd.size <= 1 ->
            <<TransOp("sub", "t0", "zero", rd.reg, "zero", rd.size, 0, setflags),
              Op3("mov", rd.reg, rd.reg, "t0", "zero", rd.size)>>
       [] ~ flagsonly /\ isneg /\ rd.size > 1 -> Deliver(rd, [uop EXCEPT !.ra = "zero", !.rb = a.reg])
       [] OTHER -> Deliver(rd, uop)

alu_reg_mem(i, op, rd, ra, setflags, rc, flagsonly) ==
  LET a == Fetch(rd, "t2")
      uop == TransOp(op, "t0", a.reg, "t0", rc, rd.size, 0, setflags)
  IN operand_load(i, "t0", ra, "ld") \o a.uops \o (IF flagsonly THEN <<uop>> ELSE Deliver(rd, uop))

alu_mem_reg(i, op, rd, ra, setflags, rc, flagsonly) ==
  LET b == Fetch(ra, "t2")
  IN operand_load(i, "t0", rd, "ld") \o b.uops
       \o <<TransOp(op, "t0", "t0", b.reg, rc, rd.size, ImmOf(ra), setflags)>>
       \o (IF flagsonly THEN <<>> ELSE result_store(i, "t0", rd))

alu_mem_mem(i, op, rd, setflags, rc, isneg) ==
  operand_load(i, "t0", rd, "ld")
    \o <<TransOp(op, "t0", IF isneg THEN "zero" ELSE "t0", "t0", rc, rd.size, 0, setflags)>>
    \o result_store(i, "t0", rd)

alu_reg_or_mem(i, op, rd, ra, setflags, rc, flagsonly, isneg) ==
  CASE rd.type = "reg" /\ ra.type # "mem" -> alu_reg_reg(op, rd, ra, setflags, rc, flagsonly, isneg)
    [] rd.type = "reg" /\ ra.type = "mem" -> alu_reg_mem(i, op, rd, ra, setflags, rc, flagsonly)
    [] rd.type = "mem" /\ ra.type # "mem" -> alu_mem_reg(i, op, rd, ra, setflags, rc, flagsonly)
    [] rd.type = "mem" /\ ra.type = "mem" -> alu_mem_mem(i, op, rd, setflags, rc, isneg)

\* The form with the second factor in an immediate (imul rd,ra,imm).
alu_ra_rb_imm(i, op, rd, ra, setflags, imm) ==
  LET rc == IF rd.size >= 2 THEN "zero" ELSE rd.reg
      from == IF ra.type = "mem" THEN "t0" ELSE ra.reg
  IN (IF ra.type = "mem" THEN operand_load(i, "t0", ra, "ld") ELSE <<>>)
       \o <<TransOp(op, rd.reg, from, "imm", rc, rd.size, imm, setflags)>>

(***************************************************************************)
(* Moves and extensions.  force is a temporary that takes the value, or    *)
(* "zero" for the operand rd itself.                                       *)
(***************************************************************************)
move_reg_reg(rd, ra, dest, rdhigh) ==
  LET rahigh == ra.type = "reg" /\ ra.hibyte
      src == IF ra.type = "imm" THEN "imm" ELSE ra.reg
      ctl == IF rdhigh THEN (IF rahigh THEN HighToHigh ELSE InsertHigh) ELSE ExtractHigh
  IN IF rdhigh \/ rahigh
     THEN <<[Maskb(dest, dest, src, ctl) EXCEPT !.rbimm = ImmOf(ra)]>>
     ELSE <<TransOp("mov", dest, IF rd.size < 2 THEN dest ELSE "zero", src, "zero",
                    rd.size, ImmOf(ra), {})>>

move_reg_mem(i, rd, ra, dest, force) ==
  IF rd.size >= 2 \/ force THEN operand_load(i, dest, ra, "ld")
  ELSE operand_load(i, "t0", ra, "ld")
         \o <<IF rd.hibyte THEN Maskb(dest, dest, "t0", InsertHigh)
              ELSE Op3("mov", dest, dest, "t0", "zero", rd.size)>>

move_mem_reg(i, rd, ra) ==
  IF ra.type = "imm"
  THEN <<OpImm("mov", "t1", "zero", 3, ra.imm)>> \o result_store(i, "t1", rd)
  ELSE LET b == Fetch(ra, "t1") IN b.uops \o result_store(i, b.reg, rd)

move_reg_or_mem(i, rd, ra, force) ==
  LET dest == IF force # "zero" THEN force ELSE rd.reg
      high == force = "zero" /\ rd.hibyte
  IN CASE rd.type = "reg" /\ ra.type # "mem" -> move_reg_reg(rd, ra, dest, high)
       [] rd.type = "reg" /\ ra.type = "mem" -> move_reg_mem(i, rd, ra, dest, force # "zero")
       [] rd.type = "mem" -> move_mem_reg(i, rd, ra)

signext_reg_or_mem(i, rd, ra, rasize, zeroext) ==
  LET b == Fetch(ra, "t0")
      ld == IF zeroext THEN "ld" ELSE "ldx"
      to32 == rd.size = 2 /\ ~ zeroext
      m == [ra EXCEPT !.size = rasize]
  IN CASE ra.type = "reg" /\ zeroext /\ rd.size >= 2 ->
            b.uops \o <<Op3("mov", rd.reg, "zero", b.reg, "zero", rasize)>>
       [] ra.type = "reg" /\ ~ (zeroext /\ rd.size >= 2) ->
            b.uops \o <<[Maskb(rd.reg, IF rd.size < 2 THEN rd.reg ELSE "zero", b.reg,
                               MaskControlInfo(0, Width(rasize), 0))
                         EXCEPT !.size = rd.size, !.cond = IF zeroext THEN "zeroext" ELSE "signext"]>>
       [] ra.type = "mem" /\ rd.size >= 2 ->
            operand_load(i, IF to32 THEN "t8" ELSE rd.reg, m, ld)
              \o (IF to32 THEN <<Op3("mov", rd.reg, "zero", "t8", "zero", 2)>> ELSE <<>>)
       [] OTHER -> operand_load(i, "t0", m, ld) \o <<Op3("mov", rd.reg, rd.reg, "t0", "zero", rd.size)>>

(***************************************************************************)
(* Calling an assist: the block ends with a barrier branch to it.          *)
(***************************************************************************)
microcode_assist(i, before, assist) ==
  CollectFlags(before \o abs_code_addr_immediate("selfrip", Ripstart)
                      \o abs_code_addr_immediate("nextrip", Rip), i, "t0")
    \o <<[Op3("brp", "rip", "zero", "zero", "zero", 3) EXCEPT !.raises = assist]>>

\* An undefined or privileged instruction ends in the assist that raises the fault.
invalidate(i, outcome) ==
  microcode_assist(i, <<>>, IF outcome = "GP_FAULT" THEN "gp_fault" ELSE "invalid_opcode")

\* flush(): the first uop starts the macro-op, the last one ends it.
flush(s) == [k \in DOMAIN s |-> [s[k] EXCEPT !.som = (k = 1), !.eom = (k = Len(s))]]

(***************************************************************************)
(* Cracking an unaligned load or store.  The high part of a store comes    *)
(* first: if its page faults, the low part has not overwritten memory.     *)
(***************************************************************************)

\* A wrong order: the low part of a store first, like that of a load.
LowPartFirst(u) ==
  LET st == u.op = "st"
      ag == [u EXCEPT !.op = "add", !.size = 3, !.cond = "none", !.eom = FALSE, !.internal = "none",
                      !.rd = "t9", !.rc = "zero"]
      part == [u EXCEPT !.ra = "t9", !.rb = "imm", !.rbimm = 0, !.som = FALSE]
      lo == [part EXCEPT !.cond = "lo", !.eom = FALSE, !.rd = IF st THEN u.rd ELSE "t4", !.size = IF st THEN u.size ELSE 3]
      hi == [part EXCEPT !.cond = "hi", !.rb = IF st THEN "imm" ELSE "t4"]
  IN <<ag, lo, hi>>

split_unaligned(u) ==
  LET st == u.op = "st"
      ag == [u EXCEPT !.op = "add", !.size = 3, !.cond = "none", !.eom = FALSE, !.internal = "none",
                      !.rd = "t9", !.rc = "zero"]
      part == [u EXCEPT !.ra = "t9", !.rb = "imm", !.rbimm = 0, !.som = FALSE]
      lo == [part EXCEPT !.cond = IF st THEN "hi" ELSE "lo", !.eom = FALSE,
                         !.rd = IF st THEN u.rd ELSE "t4", !.size = IF st THEN u.size ELSE 3]
      hi == [part EXCEPT !.cond = IF st THEN "lo" ELSE "hi", !.rb = IF st THEN "imm" ELSE "t4"]
  IN <<ag, lo, hi>>

=============================================================================

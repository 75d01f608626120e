-------------------------------- MODULE Uops --------------------------------
(***************************************************************************)
(* The micro-operations of uopimpl.cpp: what each integer uop computes from *)
(* its three operands and the flags attached to them.                      *)
(*                                                                         *)
(* A register is a natural below 2^Width(3).  A byte has ByteBits bits     *)
(* instead of 8, so that every word fits TLC's integers; each width,       *)
(* rotate count and mask of the source is written in terms of it.  Flags   *)
(* are a set of names; AF is never computed by the code and is left out.   *)
(***************************************************************************)
EXTENDS Integers, Sequences, FiniteSets

CONSTANT ByteBits      \* bits in a byte: 8 in the code

ASSUME ByteBitsAssumption == ByteBits \in {2, 4, 8}

LogByte == CHOOSE k \in 1 .. 3 : 2 ^ k = ByteBits
Width(s) == ByteBits * 2 ^ s               \* s is a sizeshift, 0 .. 3
LogWidth == LogByte + 3
WordSize == 2 ^ Width(3)

ZAPS == {"ZF", "PF", "SF"}
AllFlags == ZAPS \cup {"CF", "OF"}

If(b, S) == IF b THEN S ELSE {}
Bit(x, i) == (x \div 2 ^ i) % 2
Lo(x, s) == x % 2 ^ Width(s)
Ones(s) == 2 ^ Width(s) - 1
Invert(x, s) == Ones(s) - Lo(x, s)
high_bit(x, s) == Bit(x, Width(s) - 1)
flag_bit(flags, f) == IF f \in flags THEN 1 ELSE 0
signext64(x, bits) ==
  LET low == x % 2 ^ bits
  IN IF bits < Width(3) /\ Bit(low, bits - 1) = 1 THEN low + (WordSize - 2 ^ bits) ELSE low
Signed(x, s) == LET v == Lo(x, s) IN IF high_bit(v, s) = 1 THEN v - 2 ^ Width(s) ELSE v

(***************************************************************************)
(* Flag generation, and writing a partial register: an 8 or 16 bit result  *)
(* keeps the upper part of the merge operand, a 32 bit one clears it.      *)
(***************************************************************************)
x86_genflags(r, s) ==
  LET v == Lo(r, s)
      set == {i \in 0 .. ByteBits - 1 : Bit(v, i) = 1}
  IN If(high_bit(v, s) = 1, {"SF"}) \cup If(v = 0, {"ZF"})
       \cup If(Cardinality(set) % 2 = 0, {"PF"})

x86_merge(rd, ra, s) == IF s < 2 THEN (rd - Lo(rd, s)) + Lo(ra, s) ELSE Lo(ra, s)

Result(data, flags) == [data |-> data, flags |-> flags, exception |-> "none"]

(***************************************************************************)
(* Two operand ALU operations.                                             *)
(***************************************************************************)
x86_aluop2(subtract, a, b, carry, s) ==
  LET M == 2 ^ Width(s)
      step(x, y) == IF subtract THEN (x - y + M) % M ELSE (x + y) % M
      intermediate == step(a, b)
      result == step(intermediate, carry)
      carryout == IF subtract THEN a < b \/ intermediate < carry
                              ELSE intermediate < a \/ result < intermediate
      rhs == IF subtract THEN Invert(b, s) ELSE b
      overflow == high_bit(a, s) = high_bit(rhs, s) /\ high_bit(a, s) # high_bit(result, s)
  IN [value |-> result, flags |-> If(carryout, {"CF"}) \cup If(overflow, {"OF"})]

\* C++'s operators on words, bit by bit.
BitwiseOp(op, a, b) ==
  LET one(i) == CASE op = "and" -> Bit(a, i) * Bit(b, i)
                  [] op = "or"  -> Bit(a, i) + Bit(b, i) - Bit(a, i) * Bit(b, i)
                  [] op = "xor" -> (Bit(a, i) + Bit(b, i)) % 2
      upto[k \in 0 .. Width(3)] == IF k = 0 THEN 0 ELSE upto[k - 1] + one(k - 1) * 2 ^ (k - 1)
  IN upto[Width(3)]

exp_op(op, a, b, s) == IF op = "nor" THEN Invert(BitwiseOp("or", a, b), s) ELSE BitwiseOp(op, a, b)

bittest(op, a, b, s) ==
  LET i == b % Width(s)
      one == 2 ^ i
      cleared == a - one * Bit(a, i)
  IN CASE op = "bt"  -> IF Bit(a, i) = 1 THEN Ones(s) ELSE 1
       [] op = "bts" -> cleared + one
       [] op = "btr" -> cleared
       [] op = "btc" -> cleared + one * (1 - Bit(a, i))

byteswap(x, s) ==
  LET n == 2 ^ s
      byte(i) == (x \div 2 ^ (ByteBits * i)) % 2 ^ ByteBits
      upto[k \in 0 .. n] ==
        IF k = 0 THEN 0 ELSE upto[k - 1] + byte(k - 1) * 2 ^ (ByteBits * (n - k))
  IN upto[n]

aluop(u, x) ==
  LET s == u.size
      a == Lo(x.ra, s)
      b == Lo(x.rb, s)
      cf == If(Bit(a, b % Width(s)) = 1, {"CF"})
      sum == x86_aluop2(u.op = "sub", a, b, flag_bit(x.rcflags, "CF"), s)
      rt == CASE u.op \in {"and", "or", "xor", "nor"}  -> exp_op(u.op, a, b, s)
              [] u.op \in {"bt", "bts", "btr", "btc"}  -> bittest(u.op, a, b, s)
              [] u.op = "bswap" -> IF s >= 2 THEN byteswap(b, s) ELSE 0
              [] u.op \in {"add", "sub"} -> sum.value
      flags == CASE u.op \in {"and", "or", "xor", "nor"} -> If(u.setflags # {}, x86_genflags(rt, s))
                 [] u.op \in {"bt", "bts", "btr", "btc"} -> cf
                 [] u.op = "bswap" -> {}
                 [] u.op \in {"add", "sub"} ->
                      If(u.setflags # {}, x86_genflags(rt, s) \cup sum.flags)
  IN Result(x86_merge(x.ra, rt, s), flags)

exp_op_mov(u, x) == Result(x86_merge(x.ra, x.rb, u.size), x.rbflags)

aluop3s(u, x) ==
  LET rt == (x.ra + x.rb + x.rc * 2 ^ u.extshift) % 2 ^ Width(u.size)
  IN Result(x86_merge(x.ra, rt, u.size), x86_genflags(rt, u.size))

ctzclzop(u, x) ==
  LET b == Lo(x.rb, u.size)
      set == {i \in 0 .. Width(u.size) - 1 : Bit(b, i) = 1}
      index == IF u.op = "ctz" THEN CHOOSE i \in set : \A j \in set : i <= j
                               ELSE CHOOSE i \in set : \A j \in set : i >= j
  IN Result(x86_merge(x.ra, IF b = 0 THEN 0 ELSE index, u.size), If(b = 0, {"ZF"}))

(***************************************************************************)
(* Uops on the flags themselves.  FlagBits is the flags word as data.      *)
(***************************************************************************)
Position == [CF |-> 0, ZF |-> 1, PF |-> 2, SF |-> 3, OF |-> 4]
FlagBits(flags) ==
  flag_bit(flags, "CF") + 2 * flag_bit(flags, "ZF") + 4 * flag_bit(flags, "PF")
    + 8 * flag_bit(flags, "SF") + 16 * flag_bit(flags, "OF")
FlagsOf(word) == {f \in AllFlags : Bit(word, Position[f]) = 1}

uop_impl_collcc(x) ==
  LET f == (x.raflags \cap ZAPS) \cup (x.rbflags \cap {"CF"}) \cup (x.rcflags \cap {"OF"})
  IN Result(FlagBits(f), f)

uop_impl_movrcc(x) == Result(FlagBits(FlagsOf(x.rb)), FlagsOf(x.rb))
uop_impl_movccr(x) == Result(FlagBits(x.rbflags), x.rbflags)

uop_impl_cc(op, x) ==
  LET a == x.raflags
      b == x.rbflags
  IN Result(0, CASE op = "andcc"   -> a \cap b
                 [] op = "orcc"    -> a \cup b
                 [] op = "ornotcc" -> a \cup (AllFlags \ b)
                 [] op = "xorcc"   -> (a \cup b) \ (a \cap b))

(***************************************************************************)
(* Shifts and rotates.  Each returns the value, the count that was used,   *)
(* the carry and the overflow; a count of zero hands rc's flags through.   *)
(***************************************************************************)
x86_shift_count(rb, s) == rb % (IF s = 3 THEN Width(3) ELSE Width(2))

Shifted(value, count, cf, of) == [value |-> value, count |-> count, cf |-> cf, of |-> of]

ShiftLeftOp(v, count, s) ==
  LET w == Width(s)
      result == IF count < w THEN (v * 2 ^ count) % 2 ^ w ELSE 0
      cf == IF count <= w THEN Bit(v, w - count) ELSE 0
  IN Shifted(result, count, cf, IF count = 1 THEN (high_bit(result, s) + cf) % 2 ELSE 0)

ShiftRightOp(v, count, s) ==
  LET w == Width(s)
      cf == IF count <= w THEN Bit(v, count - 1) ELSE 0
  IN Shifted(IF count < w THEN v \div 2 ^ count ELSE 0, count, cf,
             IF count = 1 THEN high_bit(v, s) ELSE 0)

ShiftArithmeticRightOp(v, count, s) ==
  LET w == Width(s)
      sign == high_bit(v, s)
      result == IF count >= w THEN sign * Ones(s)
                ELSE v \div 2 ^ count + sign * (2 ^ w - 2 ^ (w - count))
  IN Shifted(result, count, IF count < w THEN Bit(v, count - 1) ELSE sign, 0)

rotr(v, n, s) == LET k == n % Width(s) IN (v \div 2 ^ k) + (v % 2 ^ k) * 2 ^ (Width(s) - k)
rotl(v, n, s) == rotr(v, Width(s) - (n % Width(s)), s)

TopTwoDiffer(v, s) == (Bit(v, Width(s) - 1) + Bit(v, Width(s) - 2)) % 2

RotateLeftOp(v, count, s) ==
  LET result == rotl(v, count, s)
      cf == result % 2
  IN Shifted(result, count, cf, IF count = 1 THEN (high_bit(result, s) + cf) % 2 ELSE 0)

RotateRightOp(v, count, s) ==
  LET result == rotr(v, count, s)
  IN Shifted(result, count, high_bit(result, s), IF count = 1 THEN TopTwoDiffer(result, s) ELSE 0)

RotateCarryLeftOp(v, count, carry, s) ==
  LET round[i \in 0 .. count] ==
        IF i = 0 THEN [value |-> v, cf |-> carry]
        ELSE LET r == round[i - 1]
             IN [value |-> ((2 * r.value) % 2 ^ Width(s)) + r.cf, cf |-> high_bit(r.value, s)]
      last == round[count]
  IN Shifted(last.value, count, last.cf,
             IF count = 1 THEN (high_bit(last.value, s) + last.cf) % 2 ELSE 0)

RotateCarryRightOp(v, count, carry, s) ==
  LET round[i \in 0 .. count] ==
        IF i = 0 THEN [value |-> v, cf |-> carry]
        ELSE LET r == round[i - 1]
             IN [value |-> r.value \div 2 + r.cf * 2 ^ (Width(s) - 1), cf |-> r.value % 2]
      last == round[count]
  IN Shifted(last.value, count, last.cf, IF count = 1 THEN TopTwoDiffer(last.value, s) ELSE 0)

\* A wrong count: rotates through carry wrap at the width too.
CarryNotCounted(op, rb, s) ==
  LET masked == x86_shift_count(rb, s)
  IN IF op \in {"shl", "shr", "sar", "shls", "shrs", "sars"} THEN masked ELSE masked % Width(s)

\* The count each operation works with: rotates wrap at the width, 8 and 16 bit
\* rotates through carry at one more.
EffectiveCount(op, rb, s) ==
  LET masked == x86_shift_count(rb, s)
  IN CASE op \in {"rotl", "rotr"} -> masked % Width(s)
       [] op \in {"rotcl", "rotcr"} -> IF s < 2 THEN masked % (Width(s) + 1) ELSE masked
       [] OTHER -> masked

shiftop(u, x) ==
  LET s == u.size
      v == Lo(x.ra, s)
      count == EffectiveCount(u.op, Lo(x.rb, s), s)
      carry == flag_bit(x.rcflags, "CF")
      r == CASE count = 0 -> Shifted(v, 0, 0, 0)
             [] count > 0 /\ u.op \in {"shl", "shls"} -> ShiftLeftOp(v, count, s)
             [] count > 0 /\ u.op \in {"shr", "shrs"} -> ShiftRightOp(v, count, s)
             [] count > 0 /\ u.op \in {"sar", "sars"} -> ShiftArithmeticRightOp(v, count, s)
             [] count > 0 /\ u.op = "rotl" -> RotateLeftOp(v, count, s)
             [] count > 0 /\ u.op = "rotr" -> RotateRightOp(v, count, s)
             [] count > 0 /\ u.op = "rotcl" -> RotateCarryLeftOp(v, count, carry, s)
             [] count > 0 /\ u.op = "rotcr" -> RotateCarryRightOp(v, count, carry, s)
      all == x86_genflags(r.value, s)
               \cup If(u.setflags # {} /\ r.cf = 1, {"CF"}) \cup If(u.setflags # {} /\ r.of = 1, {"OF"})
  IN Result(x86_merge(x.ra, r.value, s), IF r.count = 0 THEN x.rcflags ELSE all)

(***************************************************************************)
(* mask and maskb: insert rb, rotated right by ds, into the mc bits of ra  *)
(* that a mask of mc ones rotated right by ms selects; cond extends.       *)
(***************************************************************************)
exp_op_mask(u, x) ==
  LET s == u.size
      ms == u.mask.ms
      mc == u.mask.mc
      M == rotr((2 ^ mc - 1) % 2 ^ Width(s), ms, s)
      moved == rotr(Lo(x.rb, s), u.mask.ds, s)
      kept == x.ra - BitwiseOp("and", x.ra, M)
      merged == kept + BitwiseOp("and", moved, M)
      rd == CASE u.cond = "none"    -> merged
              [] u.cond = "zeroext" -> merged % 2 ^ (ms + mc)
              [] u.cond = "signext" -> signext64(merged, ms + mc)
      base == x86_genflags(rd, s)
  IN Result(x86_merge(x.ra, rd, s),
            base \cup (x.raflags \cap {"CF"}) \cup If(("SF" \in base) # ("OF" \in x.raflags), {"OF"}))

(***************************************************************************)
(* Multiply and divide.                                                    *)
(***************************************************************************)
x86_mul(u, x) ==
  LET s == u.size
      M == 2 ^ Width(s)
      sprod == Signed(x.ra, s) * Signed(x.rb, s)
      uprod == Lo(x.ra, s) * Lo(x.rb, s)
      low == sprod % M
      wide == IF u.op = "mulhu" THEN uprod \div M # 0 ELSE sprod # Signed(low, s)
      rt == CASE u.op = "mull"  -> low
              [] u.op = "mulh"  -> (sprod \div M) % M
              [] u.op = "mulhu" -> uprod \div M
  IN Result(x86_merge(x.ra, rt, s), If(wide, {"CF", "OF"}) \cup If(u.setflags # {}, x86_genflags(rt, s)))

Magnitude(n) == IF n < 0 THEN -n ELSE n
Truncate(n, d) == LET q == Magnitude(n) \div Magnitude(d) IN IF (n < 0) = (d < 0) THEN q ELSE -q

\* div_rem and div_rem_s: [ok, q, r]; not ok on a zero divisor or a quotient too wide.
div_rem(hi, lo, d, s) ==
  LET M == 2 ^ Width(s)
      dividend == hi * M + lo
  IN IF d = 0 \/ dividend \div d >= M THEN [ok |-> FALSE, q |-> 0, r |-> 0]
     ELSE [ok |-> TRUE, q |-> dividend \div d, r |-> dividend % d]

div_rem_s(hi, lo, d, s) ==
  LET M == 2 ^ Width(s)
      dividend == Signed(hi, s) * M + lo
      divisor == Signed(d, s)
      q == Truncate(dividend, divisor)
  IN IF divisor = 0 \/ q # Signed(q % M, s) THEN [ok |-> FALSE, q |-> 0, r |-> 0]
     ELSE [ok |-> TRUE, q |-> q % M, r |-> (dividend - q * divisor) % M]

x86_div(u, x) ==
  LET s == u.size
      signed == u.op \in {"divs", "rems"}
      d == IF signed THEN div_rem_s(Lo(x.ra, s), Lo(x.rb, s), Lo(x.rc, s), s)
                     ELSE div_rem(Lo(x.ra, s), Lo(x.rb, s), Lo(x.rc, s), s)
  IN IF ~ d.ok THEN [data |-> 0, flags |-> {}, exception |-> "DivideOverflow"]
     ELSE IF u.op \in {"div", "divs"} THEN Result(x86_merge(x.rb, d.q, s), x86_genflags(d.q, s))
     ELSE Result(x86_merge(x.ra, d.r, s), x86_genflags(d.r, s))

(***************************************************************************)
(* Condition codes, and the uops that test them.                           *)
(***************************************************************************)
Conditions == {"o", "no", "c", "nc", "e", "ne", "be", "nbe",
               "s", "ns", "p", "np", "l", "nl", "le", "nle"}

evaluate_cond(cond, a, b) ==
  LET differ == ("SF" \in a) # ("OF" \in b)
  IN CASE cond = "o"   -> "OF" \in b
       [] cond = "no"  -> "OF" \notin b
       [] cond = "c"   -> "CF" \in b
       [] cond = "nc"  -> "CF" \notin b
       [] cond = "e"   -> "ZF" \in a
       [] cond = "ne"  -> "ZF" \notin a
       [] cond = "be"  -> "ZF" \in a \/ "CF" \in b
       [] cond = "nbe" -> ~ ("ZF" \in a \/ "CF" \in b)
       [] cond = "s"   -> "SF" \in a
       [] cond = "ns"  -> "SF" \notin a
       [] cond = "p"   -> "PF" \in a
       [] cond = "np"  -> "PF" \notin a
       [] cond = "l"   -> differ
       [] cond = "nl"  -> ~ differ
       [] cond = "le"  -> "ZF" \in a \/ differ
       [] cond = "nle" -> ~ ("ZF" \in a \/ differ)

uop_impl_sel(u, x) ==
  LET istrue == evaluate_cond(u.cond, x.rcflags, x.rcflags)
  IN Result(x86_merge(x.ra, IF istrue THEN x.rb ELSE x.ra, u.size),
            IF istrue THEN x.rbflags ELSE x.raflags)

uop_impl_set(u, x) ==
  LET istrue == evaluate_cond(u.cond, x.raflags, x.rbflags)
  IN Result(x86_merge(x.rc, IF istrue THEN 1 ELSE 0, u.size), If(istrue, {"CF"}))

uop_impl_condbranch(u, x) ==
  Result(IF evaluate_cond(u.cond, x.raflags, x.rbflags) THEN u.riptaken ELSE u.ripseq, {})

uop_impl_jmp(x) == Result(x.ra, {})
uop_impl_bru(u) == Result(u.riptaken, {})

sub_flag_gen_op(a, b, s) ==
  LET r == x86_aluop2(TRUE, a, b, 0, s) IN x86_genflags(r.value, s) \cup r.flags

\* A failed check raises the exception its rc operand names.
uop_impl_chk_sub(u, x) ==
  LET flags == sub_flag_gen_op(Lo(x.ra, u.size), Lo(x.rb, u.size), u.size)
  IN IF evaluate_cond(u.cond, flags, flags) THEN Result(0, {})
     ELSE [data |-> 0, flags |-> {}, exception |-> u.raises]

(***************************************************************************)
(* The dispatch table; loads, stores and fences are done by the core.      *)
(***************************************************************************)
get_synthcode_for_alu(u, x) ==
  CASE u.op \in {"nop", "ld_pre"} -> Result(0, {})
    [] u.op = "mov" -> exp_op_mov(u, x)
    [] u.op = "adda" -> aluop3s(u, x)
    [] u.op \in {"ctz", "clz"} -> ctzclzop(u, x)
    [] u.op = "sel" -> uop_impl_sel(u, x)
    [] u.op = "set" -> uop_impl_set(u, x)
    [] OTHER -> aluop(u, x)

get_synthcode_for_branch(u, x) ==
  CASE u.op = "br" -> uop_impl_condbranch(u, x)
    [] u.op = "jmp" -> uop_impl_jmp(x)
    [] u.op \in {"bru", "brp"} -> uop_impl_bru(u)

get_synthcode_for_uop(u, x) ==
  CASE u.op \in {"br", "jmp", "bru", "brp"} -> get_synthcode_for_branch(u, x)
    [] u.op = "chk_sub" -> uop_impl_chk_sub(u, x)
    [] u.op \in {"rotl", "rotr", "rotcl", "rotcr", "shl", "shr", "sar", "shls", "shrs", "sars"}
         -> shiftop(u, x)
    [] u.op \in {"mask", "maskb"} -> exp_op_mask(u, x)
    [] u.op = "collcc" -> uop_impl_collcc(x)
    [] u.op = "movccr" -> uop_impl_movccr(x)
    [] u.op = "movrcc" -> uop_impl_movrcc(x)
    [] u.op \in {"andcc", "orcc", "ornotcc", "xorcc"} -> uop_impl_cc(u.op, x)
    [] u.op \in {"mull", "mulh", "mulhu"} -> x86_mul(u, x)
    [] u.op \in {"div", "rem", "divs", "rems"} -> x86_div(u, x)
    [] OTHER -> get_synthcode_for_alu(u, x)

=============================================================================

--------------------------------- MODULE X86 ---------------------------------
(***************************************************************************)
(* What a guest may rely on: an instruction is one atomic step from the    *)
(* registers, flags and memory before it to those after it.  This is the   *)
(* specification that Microcode is checked against; it is written with     *)
(* plain integer arithmetic, without uops, temporaries or faults.          *)
(*                                                                         *)
(* Flags that x86 leaves undefined, and the few that the simulator is      *)
(* known to set differently (see Tolerated), are not compared.             *)
(***************************************************************************)
EXTENDS Integers, Sequences, FiniteSets

CONSTANTS ByteBits, Ripstart, Rip, Target,
          Iterations      \* repetitions of a rep instruction that one step may cover

VARIABLES insn, regs, flags, mem, rip, df, mxcsr, status

vars == <<insn, regs, flags, mem, rip, df, mxcsr, status>>

W(s) == ByteBits * 2 ^ s
M(s) == 2 ^ W(s)
SegmentBase == 8
ExternalSelector == 1
TimeStamp == M(2)

(***************************************************************************)
(* Words as sets of bits, signed values, and the flags of a result.        *)
(***************************************************************************)
Bits(v, n) == {k \in 0 .. n - 1 : (v \div 2 ^ k) % 2 = 1}
FromBits(S, n) == LET upto[k \in 0 .. n] == IF k = 0 THEN 0 ELSE upto[k - 1] + (IF k - 1 \in S THEN 2 ^ (k - 1) ELSE 0)
                  IN upto[n]
ToSigned(v, s) == IF v >= M(s) \div 2 THEN v - M(s) ELSE v
Fits(n, s) == -(M(s) \div 2) <= n /\ n < M(s) \div 2
Where(b, f) == IF b THEN {f} ELSE {}

ResultFlags(r, s) ==
  Where(r = 0, "ZF") \cup Where(r >= M(s) \div 2, "SF") \cup Where(Cardinality(Bits(r, ByteBits)) % 2 = 0, "PF")

(***************************************************************************)
(* The guest state as a record t, and operands.                            *)
(***************************************************************************)
Now == [regs |-> regs, flags |-> flags, mem |-> mem, rip |-> rip, df |-> df, mxcsr |-> mxcsr, undef |-> {}]

Register(t, r) == CASE r = "zero" -> 0 [] r = "rip" -> Rip [] OTHER -> t.regs[r]
Segment(i) == IF i.seg THEN SegmentBase ELSE 0
Offset(t, m) == (Register(t, m.base) + Register(t, m.index) * 2 ^ m.scale + m.offset) % M(3)
EA(t, i, m) == (Offset(t, m) + Segment(i)) % M(3)

Peek(t, a, s) == LET upto[k \in 0 .. 2 ^ s] == IF k = 0 THEN 0 ELSE upto[k - 1] + t.mem[a + k - 1] * M(0) ^ (k - 1)
                 IN upto[2 ^ s]
Poke(t, a, v, s) ==
  [t EXCEPT !.mem = [b \in DOMAIN t.mem |-> IF b - a \in 0 .. 2 ^ s - 1 THEN (v \div M(0) ^ (b - a)) % M(0)
                                           ELSE t.mem[b]]]

Get(t, i, o, s) ==
  CASE o.type = "imm" -> o.imm % M(s)
    [] o.type = "mem" -> Peek(t, EA(t, i, o), s)
    [] o.type = "reg" -> IF o.hibyte THEN (t.regs[o.reg] \div M(0)) % M(0) ELSE t.regs[o.reg] % M(s)

SetReg(t, r, v, s) ==
  [t EXCEPT !.regs[r] = IF s < 2 THEN (@ - (@ % M(s))) + (v % M(s)) ELSE v % M(s)]
SetHigh(t, r, v) ==
  [t EXCEPT !.regs[r] = (@ \div M(1)) * M(1) + v * M(0) + (@ % M(0))]

Put(t, i, o, v, s) ==
  CASE o.type = "mem" -> Poke(t, EA(t, i, o), v, s)
    [] o.type = "reg" -> IF o.hibyte THEN SetHigh(t, o.reg, v) ELSE SetReg(t, o.reg, v, s)

SetFlags(t, f, undef) == [t EXCEPT !.flags = f, !.undef = undef]

(***************************************************************************)
(* Arithmetic.                                                             *)
(***************************************************************************)
Sum(a, b, c, s) ==
  LET r == (a + b + c) % M(s)
  IN [v |-> r, f |-> ResultFlags(r, s) \cup Where(a + b + c >= M(s), "CF")
                       \cup Where(~ Fits(ToSigned(a, s) + ToSigned(b, s) + c, s), "OF")]
Difference(a, b, c, s) ==
  LET r == (a - b - c) % M(s)
  IN [v |-> r, f |-> ResultFlags(r, s) \cup Where(a < b + c, "CF")
                       \cup Where(~ Fits(ToSigned(a, s) - ToSigned(b, s) - c, s), "OF")]
Logic(op, a, b, s) ==
  LET A == Bits(a, W(s))
      B == Bits(b, W(s))
      r == FromBits(CASE op \in {"and", "test"} -> A \cap B [] op = "or" -> A \cup B
                      [] op = "xor" -> (A \cup B) \ (A \cap B), W(s))
  IN [v |-> r, f |-> ResultFlags(r, s)]

Carry(t) == IF "CF" \in t.flags THEN 1 ELSE 0

Arith(t, i) ==
  LET s == i.rd.size
      a == Get(t, i, i.rd, s)
      b == IF i.op \in {"inc", "dec"} THEN 1 ELSE IF i.op = "neg" THEN 0 ELSE Get(t, i, i.ra, s)
      r == CASE i.op = "add" -> Sum(a, b, 0, s) [] i.op = "adc" -> Sum(a, b, Carry(t), s)
             [] i.op \in {"sub", "cmp"} -> Difference(a, b, 0, s) [] i.op = "sbb" -> Difference(a, b, Carry(t), s)
             [] i.op = "inc" -> Sum(a, 1, 0, s) [] i.op = "dec" -> Difference(a, 1, 0, s)
             [] i.op = "neg" -> Difference(0, a, 0, s) [] OTHER -> Logic(i.op, a, b, s)
      f == IF i.op \in {"inc", "dec"} THEN (r.f \ {"CF"}) \cup (t.flags \cap {"CF"}) ELSE r.f
  IN SetFlags(IF i.op \in {"cmp", "test"} THEN t ELSE Put(t, i, i.rd, r.v, s), f, {})

Not(t, i) == Put(t, i, i.rd, (M(i.rd.size) - 1) - Get(t, i, i.rd, i.rd.size), i.rd.size)

\* imul with two or three operands.
Imul(t, i) ==
  LET s == i.rd.size
      b == IF i.op = "imul_imm" THEN i.imm % M(s) ELSE Get(t, i, i.rd, s)
      p == ToSigned(Get(t, i, i.ra, s), s) * ToSigned(b, s)
  IN SetFlags(Put(t, i, i.rd, p % M(s), s), (t.flags \ {"CF", "OF"}) \cup (IF Fits(p, s) THEN {} ELSE {"CF", "OF"}),
              {"ZF", "SF", "PF"})

\* The double width product or quotient lives in rdx:rax, ah:al for bytes.
PutPair(t, hi, lo, s) == IF s = 0 THEN SetHigh(SetReg(t, "rax", lo, 0), "rax", hi)
                         ELSE SetReg(SetReg(t, "rax", lo, s), "rdx", hi, s)
Mul(t, i) ==
  LET s == i.rd.size
      a == t.regs["rax"] % M(s)
      b == Get(t, i, i.rd, s)
      p == IF i.op = "mul" THEN a * b ELSE ToSigned(a, s) * ToSigned(b, s)
      wide == IF i.op = "mul" THEN p >= M(s) ELSE ~ Fits(p, s)
  IN SetFlags(PutPair(t, (p \div M(s)) % M(s), p % M(s), s),
              (t.flags \ {"CF", "OF"}) \cup (IF wide THEN {"CF", "OF"} ELSE {}), {"ZF", "SF", "PF"})

\* Division truncates towards zero: dividend n, divisor by, quotient q (0 if by is 0).
Abs(n) == IF n < 0 THEN -n ELSE n
Quotient(t, i) ==
  LET s == i.rd.size
      signed(v) == IF i.op = "idiv" THEN ToSigned(v, s) ELSE v
      hi == IF s = 0 THEN (t.regs["rax"] \div M(0)) % M(0) ELSE t.regs["rdx"] % M(s)
      n == signed(hi) * M(s) + (t.regs["rax"] % M(s))
      d == signed(Get(t, i, i.rd, s))
  IN [n |-> n, by |-> d,
      q |-> IF d = 0 THEN 0 ELSE (Abs(n) \div Abs(d)) * (IF (n < 0) = (d < 0) THEN 1 ELSE -1)]
Div(t, i) ==
  LET s == i.rd.size
      d == Quotient(t, i)
  IN SetFlags(PutPair(t, (d.n - d.q * d.by) % M(s), d.q % M(s), s), t.flags, {"ZF", "SF", "PF", "CF", "OF"})

BitTest(t, i) ==
  LET inmem == i.rd.type = "mem"
      index == IF i.ra.type = "imm" THEN i.ra.imm ELSE ToSigned(t.regs[i.ra.reg], 3)
      s == IF inmem THEN 0 ELSE 3
      at == EA(t, i, i.rd) + index \div W(0)
      w == Bits(IF inmem THEN t.mem[at] ELSE t.regs[i.rd.reg], W(s))
      k == index % W(s)
      new == CASE i.op = "bt" -> w [] i.op = "bts" -> w \cup {k} [] i.op = "btr" -> w \ {k}
               [] i.op = "btc" -> IF k \in w THEN w \ {k} ELSE w \cup {k}
      r == FromBits(new, W(s))
  IN SetFlags(IF inmem THEN Poke(t, at, r, 0) ELSE SetReg(t, i.rd.reg, r, 3),
              (t.flags \ {"CF"}) \cup Where(k \in w, "CF"), {"OF", "SF", "PF"})

BitScan(t, i) ==
  LET S == Bits(Get(t, i, i.ra, i.rd.size), W(i.rd.size))
      k == CHOOSE k \in S : \A j \in S : IF i.op = "bsf" THEN k <= j ELSE k >= j
  IN SetFlags(Put(t, i, i.rd, k, i.rd.size), t.flags \ {"ZF"}, {"CF", "OF", "SF", "PF"})

Swap(t, i) ==
  LET s == i.rd.size
      v == Get(t, i, i.rd, s)
      byte == [k \in 0 .. 2 ^ s - 1 |-> (v \div M(0) ^ k) % M(0)]
      upto[k \in 0 .. 2 ^ s] == IF k = 0 THEN 0 ELSE upto[k - 1] * M(0) + byte[k - 1]
  IN Put(t, i, i.rd, upto[2 ^ s], s)

(***************************************************************************)
(* Shifts and rotates.                                                     *)
(***************************************************************************)
Shift(t, i) ==
  LET s == i.rd.size
      c == (IF i.ra.type = "imm" THEN i.ra.imm ELSE t.regs["rcx"] % M(0)) % (IF s = 3 THEN W(3) ELSE W(2))
      a == Get(t, i, i.rd, s)
      full == a * 2 ^ c
      r == CASE i.op = "shl" -> full % M(s) [] i.op = "shr" -> a \div 2 ^ c
             [] i.op = "sar" -> (ToSigned(a, s) \div 2 ^ c) % M(s)
      cf == CASE i.op = "shl" -> (full \div M(s)) % 2 [] i.op = "shr" -> (a \div 2 ^ (c - 1)) % 2
              [] i.op = "sar" -> (ToSigned(a, s) \div 2 ^ (c - 1)) % 2
      of == CASE i.op = "shl" -> (r >= M(s) \div 2) # (cf = 1) [] i.op = "shr" -> a >= M(s) \div 2
              [] i.op = "sar" -> FALSE
      undef == (IF c = 1 THEN {} ELSE {"OF"}) \cup (IF c >= W(s) /\ i.op # "sar" THEN {"CF"} ELSE {})
  IN IF c = 0 THEN IF i.rd.type = "reg" THEN Put(t, i, i.rd, a, s) ELSE t
     ELSE SetFlags(Put(t, i, i.rd, r, s), ResultFlags(r, s) \cup Where(cf = 1, "CF") \cup Where(of, "OF"), undef)

\* A rotate by cl also overwrites ZF, SF and PF in the simulator.
Tolerated(i) == IF i.ra.type = "reg" THEN {"ZF", "SF", "PF"} ELSE {}

Rotate(t, i) ==
  LET s == i.rd.size
      c == (IF i.ra.type = "imm" THEN i.ra.imm ELSE t.regs["rcx"] % M(0)) % (IF s = 3 THEN W(3) ELSE W(2))
      a == Get(t, i, i.rd, s)
      through == i.op \in {"rcl", "rcr"}
      n == IF through THEN W(s) + 1 ELSE W(s)
      all == Bits(a + (IF through THEN Carry(t) * M(s) ELSE 0), n)
      turned == {(k + (IF i.op \in {"rol", "rcl"} THEN c ELSE n - (c % n))) % n : k \in all}
      r == FromBits(turned \ {W(s)}, W(s))
      cf == CASE through -> W(s) \in turned [] i.op = "rol" -> 0 \in turned [] i.op = "ror" -> W(s) - 1 \in turned
      top == W(s) - 1 \in turned
      of == IF i.op \in {"rol", "rcl"} THEN top # cf ELSE top # (W(s) - 2 \in turned)
  IN IF c = 0 THEN IF i.rd.type = "reg" THEN Put(t, i, i.rd, a, s) ELSE t
     ELSE SetFlags(Put(t, i, i.rd, r, s),
                   (t.flags \ {"CF", "OF"}) \cup Where(cf, "CF") \cup Where(of, "OF"),
                   (IF c = 1 THEN {} ELSE {"OF"}) \cup Tolerated(i))

DoubleShift(t, i) ==
  LET s == i.rd.size
      c == i.imm % W(s)
      a == Get(t, i, i.rd, s)
      b == Get(t, i, i.ra, s)
      r == IF i.op = "shld" THEN (a * 2 ^ c + b \div 2 ^ (W(s) - c)) % M(s)
                            ELSE (a \div 2 ^ c) + ((b * 2 ^ (W(s) - c)) % M(s))
      cf == IF i.op = "shld" THEN (a \div 2 ^ (W(s) - c)) % 2 = 1 ELSE (a \div 2 ^ (c - 1)) % 2 = 1
  IN IF c = 0 THEN t
     ELSE SetFlags(Put(t, i, i.rd, r, s), ResultFlags(r, s) \cup Where(cf, "CF"), {"OF"})

(***************************************************************************)
(* Moves, extensions and conditions.                                       *)
(***************************************************************************)
Holds(c, f) ==
  LET less == ("SF" \in f) # ("OF" \in f)
  IN CASE c = "o" -> "OF" \in f [] c = "no" -> "OF" \notin f
       [] c = "c" -> "CF" \in f [] c = "nc" -> "CF" \notin f
       [] c = "e" -> "ZF" \in f [] c = "ne" -> "ZF" \notin f
       [] c = "s" -> "SF" \in f [] c = "ns" -> "SF" \notin f
       [] c = "p" -> "PF" \in f [] c = "np" -> "PF" \notin f
       [] c = "be" -> f \cap {"CF", "ZF"} # {} [] c = "nbe" -> f \cap {"CF", "ZF"} = {}
       [] c = "l" -> less [] c = "nl" -> ~ less
       [] c = "le" -> less \/ "ZF" \in f [] c = "nle" -> ~ less /\ "ZF" \notin f

Extended(v, s, i) == IF i.op = "movsx" THEN ToSigned(v, s) % M(3) ELSE v

Move(t, i) ==
  LET s == i.rd.size
      here == Get(t, i, i.rd, s)
      there == Get(t, i, i.ra, s)
      rax == t.regs["rax"]
  IN CASE i.op \in {"mov", "mov_imm", "mov_moffs"} -> Put(t, i, i.rd, there, s)
       [] i.op \in {"movzx", "movsx"} ->
            Put(t, i, i.rd, Extended(Get(t, i, i.ra, i.ra.size), i.ra.size, i), s)
       [] i.op = "lea" -> Put(t, i, i.rd, Offset(t, i.ra), s)
       [] i.op = "cbw" -> SetReg(t, "rax", ToSigned(rax % M(s - 1), s - 1) % M(s), s)
       [] i.op = "cwd" -> SetReg(t, "rdx", IF ToSigned(rax % M(s), s) < 0 THEN M(s) - 1 ELSE 0, s)
       [] i.op = "cmov" -> Put(t, i, i.rd, IF Holds(i.cond, t.flags) THEN there ELSE here, s)
       [] i.op = "setcc" -> Put(t, i, i.rd, IF Holds(i.cond, t.flags) THEN 1 ELSE 0, 0)
       [] i.op = "mov_from_seg" -> Put(t, i, i.rd, ExternalSelector, IF i.rd.type = "mem" THEN 1 ELSE 3)
       [] i.op = "xlat" -> SetReg(t, "rax", t.mem[(t.regs["rbx"] + (rax % M(0)) + Segment(i)) % M(3)], 0)

Exchange(t, i) ==
  LET s == i.ra.size
      here == Get(t, i, i.rd, s)
      there == Get(t, i, i.ra, s)
      sum == Sum(here, there, 0, s)
      rax == t.regs["rax"] % M(s)
      same == rax = here
  IN CASE i.op \in {"xchg", "xchg_a"} -> Put(Put(t, i, i.rd, there, s), i, i.ra, here, s)
       [] i.op = "xadd" -> SetFlags(Put(Put(t, i, i.ra, here, s), i, i.rd, sum.v, s), sum.f, {})
       [] i.op = "cmpxchg" -> SetFlags(IF same THEN Put(t, i, i.rd, there, s) ELSE SetReg(t, "rax", here, s),
                                       Difference(rax, here, 0, s).f, {})

\* Both halves at once; of the flags only ZF is compared.
Cmpxchg16b(t, i) ==
  LET s == i.rd.size
      a == EA(t, i, i.rd)
      b == a + 2 ^ s
      part(r) == t.regs[r] % M(s)
      same == Peek(t, a, s) = part("rax") /\ Peek(t, b, s) = part("rdx")
      swapped == IF same THEN Poke(Poke(t, a, part("rbx"), s), b, part("rcx"), s)
                 ELSE SetReg(SetReg(t, "rax", Peek(t, a, s), s), "rdx", Peek(t, b, s), s)
  IN SetFlags(swapped, (t.flags \ {"ZF"}) \cup Where(same, "ZF"), {"SF", "PF", "CF", "OF"})

(***************************************************************************)
(* The stack, branches, the flags register.                                *)
(***************************************************************************)
FlagBit == [CF |-> 0, ZF |-> 1, PF |-> 2, SF |-> 3, OF |-> 4]
DirectionBit == 5
FlagWord(t) == FromBits({FlagBit[f] : f \in t.flags} \cup (IF t.df THEN {DirectionBit} ELSE {}), W(3))

PushWord(t, v, s) ==
  LET sp == (t.regs["rsp"] - 2 ^ s) % M(3) IN [Poke(t, sp, v, s) EXCEPT !.regs["rsp"] = sp]
Popped(t, s) == [t EXCEPT !.regs["rsp"] = (@ + 2 ^ s) % M(3)]
GoTo(t, a) == [t EXCEPT !.rip = a]
Top(t, s) == Peek(t, t.regs["rsp"], s)

Stack(t, i) ==
  CASE i.op \in {"push", "push_ev"} -> PushWord(t, Get(t, i, i.ra, i.ra.size), i.ra.size)
    [] i.op = "push_imm" -> PushWord(t, ToSigned(i.imm % M(2), 2) % M(3), 3)
    [] i.op = "pop" -> SetReg(Popped(t, i.ra.size), i.ra.reg, Top(t, i.ra.size), i.ra.size)
    [] i.op = "pop_ev" -> LET u == Popped(t, i.rd.size) IN Put(u, i, i.rd, Top(t, i.rd.size), i.rd.size)
    [] i.op = "enter" -> LET u == PushWord(t, t.regs["rbp"], 3)
                         IN [u EXCEPT !.regs = [@ EXCEPT !["rbp"] = u.regs["rsp"],
                                                         !["rsp"] = (u.regs["rsp"] - i.imm) % M(3)]]
    [] i.op = "leave" -> [t EXCEPT !.regs = [@ EXCEPT !["rbp"] = Peek(t, t.regs["rbp"], 3),
                                                      !["rsp"] = (t.regs["rbp"] + 8) % M(3)]]
    [] i.op = "pushf" -> PushWord(t, FlagWord(t), 3)
    [] i.op = "popf" -> LET w == Top(t, 3)
                        IN [Popped(t, 3) EXCEPT !.flags = {f \in DOMAIN FlagBit : FlagBit[f] \in Bits(w, W(3))},
                                                !.df = DirectionBit \in Bits(w, W(3))]

Branch(t, i) ==
  CASE i.op = "jmp" -> GoTo(t, Target)
    [] i.op = "call" -> GoTo(PushWord(t, Rip, 3), Target)
    [] i.op = "jmp_ev" -> GoTo(t, Get(t, i, i.ra, 3))
    [] i.op = "call_ev" -> GoTo(PushWord(t, Rip, 3), Get(t, i, i.ra, 3))
    [] i.op = "ret" -> [GoTo(t, Top(t, 3)) EXCEPT !.regs["rsp"] = (@ + 8 + i.imm) % M(3)]
    [] i.op = "jcc" -> IF Holds(i.cond, t.flags) THEN GoTo(t, Target) ELSE t
    [] i.op = "jcxz" -> IF t.regs["rcx"] = 0 THEN GoTo(t, Target) ELSE t
    [] i.op \in {"loop", "loopz", "loopnz"} ->
         LET u == [t EXCEPT !.regs["rcx"] = (@ - 1) % M(3)]
             equal == CASE i.op = "loop" -> TRUE [] i.op = "loopz" -> "ZF" \in t.flags
                        [] i.op = "loopnz" -> "ZF" \notin t.flags
         IN IF u.regs["rcx"] # 0 /\ equal THEN GoTo(u, Target) ELSE u

FlagOp(t, i) ==
  CASE i.op = "clc" -> [t EXCEPT !.flags = @ \ {"CF"}]
    [] i.op = "stc" -> [t EXCEPT !.flags = @ \cup {"CF"}]
    [] i.op = "cmc" -> [t EXCEPT !.flags = IF "CF" \in @ THEN @ \ {"CF"} ELSE @ \cup {"CF"}]
    [] i.op = "cld" -> [t EXCEPT !.df = FALSE]
    [] i.op = "std" -> [t EXCEPT !.df = TRUE]

(***************************************************************************)
(* String instructions: one repetition.  Of the flags of scas only ZF is   *)
(* compared.                                                               *)
(***************************************************************************)
String(t, i) ==
  LET s == i.rd.size
      step(u, r) == [u EXCEPT !.regs[r] = (IF t.df THEN @ - 2 ^ s ELSE @ + 2 ^ s) % M(3)]
      src == Peek(t, t.regs["rsi"], s)
      dst == Peek(t, t.regs["rdi"], s)
      rax == t.regs["rax"] % M(s)
  IN CASE i.op = "movs" -> step(step(Poke(t, t.regs["rdi"], src, s), "rsi"), "rdi")
       [] i.op = "stos" -> step(Poke(t, t.regs["rdi"], rax, s), "rdi")
       [] i.op = "lods" -> step(SetReg(t, "rax", src, s), "rsi")
       [] i.op = "cmps" -> SetFlags(step(step(t, "rsi"), "rdi"), Difference(src, dst, 0, s).f, {})
       [] i.op = "scas" -> SetFlags(step(t, "rdi"), Difference(rax, dst, 0, s).f, {"SF", "PF", "CF", "OF"})

Repeat(t, i) ==
  LET u == String(t, i)
      counted == [u EXCEPT !.regs["rcx"] = (@ - 1) % M(3)]
      goon == counted.regs["rcx"] # 0
                /\ (i.op \in {"cmps", "scas"} => (i.rep = "repz") = ("ZF" \in u.flags))
  IN CASE i.rep = "none" -> u
       [] i.rep # "none" /\ t.regs["rcx"] = 0 -> t
       [] OTHER -> IF goon THEN GoTo(counted, Ripstart) ELSE counted

(***************************************************************************)
(* Services of the simulator: the answers are the model's, not a CPU's.    *)
(***************************************************************************)
Service(t, i) ==
  CASE i.op = "syscall" -> [t EXCEPT !.regs = [@ EXCEPT !["rcx"] = Rip, !["rax"] = 0]]
    [] i.op \in {"sysenter", "int"} -> [t EXCEPT !.regs["rax"] = 0]
    [] i.op = "cpuid" -> [t EXCEPT !.regs = [@ EXCEPT !["rax"] = 1, !["rbx"] = 2, !["rcx"] = 3, !["rdx"] = 4]]
    [] i.op = "rdtsc" -> [t EXCEPT !.regs = [@ EXCEPT !["rax"] = TimeStamp % M(2), !["rdx"] = TimeStamp \div M(2)]]
    [] i.op = "fxsave" -> Poke(t, EA(t, i, i.rd), t.mxcsr, 2)
    [] i.op = "fxrstor" -> [t EXCEPT !.mxcsr = Peek(t, EA(t, i, i.rd), 2)]
    [] i.op = "ldmxcsr" -> [t EXCEPT !.mxcsr = Get(t, i, i.ra, 2)]
    [] i.op = "stmxcsr" -> Put(t, i, i.rd, t.mxcsr, 2)

(***************************************************************************)
(* One instruction, or one repetition of a rep instruction.                *)
(***************************************************************************)
Meaning(s, i) ==
  LET t == [s EXCEPT !.rip = Rip, !.undef = {}]
  IN CASE i.op \in {"add", "adc", "sub", "sbb", "cmp", "inc", "dec", "neg", "and", "or", "xor", "test"} -> Arith(t, i)
       [] i.op = "not" -> Not(t, i)
       [] i.op \in {"imul_imm", "imul2"} -> Imul(t, i)
       [] i.op \in {"mul", "imul"} -> Mul(t, i)
       [] i.op \in {"div", "idiv"} -> Div(t, i)
       [] i.op \in {"bt", "bts", "btr", "btc"} -> BitTest(t, i)
       [] i.op \in {"bsf", "bsr"} -> BitScan(t, i)
       [] i.op = "bswap" -> Swap(t, i)
       [] i.op \in {"shl", "shr", "sar"} -> Shift(t, i)
       [] i.op \in {"rol", "ror", "rcl", "rcr"} -> Rotate(t, i)
       [] i.op \in {"shld", "shrd"} -> DoubleShift(t, i)
       [] i.op \in {"mov", "mov_imm", "mov_moffs", "movzx", "movsx", "lea", "cbw", "cwd", "cmov", "setcc",
                    "mov_from_seg", "xlat"} -> Move(t, i)
       [] i.op \in {"xchg", "xchg_a", "xadd", "cmpxchg"} -> Exchange(t, i)
       [] i.op = "cmpxchg16b" -> Cmpxchg16b(t, i)
       [] i.op \in {"push", "push_ev", "push_imm", "pop", "pop_ev", "enter", "leave", "pushf", "popf"} -> Stack(t, i)
       [] i.op \in {"jmp", "call", "jmp_ev", "call_ev", "ret", "jcc", "jcxz", "loop", "loopz", "loopnz"} -> Branch(t, i)
       [] i.op \in {"clc", "stc", "cmc", "cld", "std"} -> FlagOp(t, i)
       [] i.op \in {"movs", "stos", "lods", "cmps", "scas"} -> Repeat(t, i)
       [] i.op \in {"nop", "prefetch", "fence"} -> t
       [] OTHER -> Service(t, i)

\* Instructions that user mode refuses, undefined ones, breakpoints, divide errors.
Raises(t, i) ==
  CASE i.op \in {"iret", "in", "out", "rdmsr", "wrmsr", "mov_to_seg", "hlt", "cli", "sti", "mov_cr", "mov_dr",
                 "ud2", "pusha"} -> TRUE
    [] i.op = "int" -> i.imm # 2 ^ (ByteBits - 1)
    [] i.op \in {"div", "idiv"} ->
         LET d == Quotient(t, i) IN d.by = 0 \/ (IF i.op = "div" THEN d.q >= M(i.rd.size) ELSE ~ Fits(d.q, i.rd.size))
    [] OTHER -> FALSE

Init == rip = Ripstart /\ status = "ready"

\* A step executes the instruction; a rep instruction up to Iterations times.
Execute ==
  /\ status = "ready" /\ rip = Ripstart
  /\ ~ Raises(Now, insn)
  /\ \E n \in 1 .. Iterations :
       LET after[k \in 0 .. n] == IF k = 0 THEN Now ELSE Meaning(after[k - 1], insn)
           t == after[n]
       IN /\ \A k \in 1 .. n - 1 : after[k].rip = Ripstart
          /\ regs' = t.regs /\ mem' = t.mem /\ rip' = t.rip
          /\ flags' \ t.undef = t.flags \ t.undef
          /\ df' = t.df /\ mxcsr' = t.mxcsr
          /\ status' = IF t.rip = Ripstart THEN "ready" ELSE "done"
  /\ insn' = insn

\* Nothing the guest can see has changed when an exception is reported.
Raise ==
  /\ status = "ready" /\ Raises(Now, insn)
  /\ status' = "raised"
  /\ UNCHANGED <<insn, regs, flags, mem, rip, df, mxcsr>>

Next == Execute \/ Raise

Spec == Init /\ [][Next]_vars

=============================================================================

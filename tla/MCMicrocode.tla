---------------------------- MODULE MCMicrocode ----------------------------
(***************************************************************************)
(* Microcode on 32 bytes of memory in two pages.  A byte has two bits, so  *)
(* the four operand sizes are 2, 4, 8 and 16 bits wide.  Family is the     *)
(* set of instruction families to start from.                              *)
(***************************************************************************)
EXTENDS Microcode

CONSTANT Family

Insn(op, rd, ra) ==
  [op |-> op, rd |-> rd, ra |-> ra, cond |-> "e", imm |-> 0, lock |-> FALSE, seg |-> FALSE,
   rep |-> "none", df |-> FALSE, atomic |-> TRUE]

Registers == [r \in GPR |-> CASE r = "rax" -> 42405 [] r = "rcx" -> 3 [] r = "rdx" -> 258 [] r = "rbx" -> 7
                              [] r = "rsp" -> 16 [] r = "rbp" -> 8 [] r = "rsi" -> 4 [] r = "rdi" -> 20]
Contents == [a \in 0 .. 31 |-> (a * a + a \div 3) % 4]
Open == [p \in 0 .. 1 |-> "rw"]
Rights == {Open, [Open EXCEPT ![0] = "none"], [Open EXCEPT ![1] = "none"], [Open EXCEPT ![1] = "r"],
           [p \in 0 .. 1 |-> "none"]}

With(i) == [insn |-> i, regs |-> Registers, flags |-> {"CF", "SF"}, df |-> FALSE, mem |-> Contents, perm |-> Open]

Edge(s) == {0, 1, 2 ^ (Width(s) - 1) - 1, 2 ^ (Width(s) - 1), 2 ^ Width(s) - 1}
Below(v, s) == (42405 - (42405 % 2 ^ Width(s))) + v      \* v below other bits
Size == 0 .. 3
NoOp == Imm(0)

\* The value of a at rax, of b at rbx.
Pair(i, s, a, b, f) ==
  [With(i) EXCEPT !.regs["rax"] = Below(a, s), !.regs["rbx"] = Below(b, s), !.flags = f]

Carries == {{}, {"CF", "OF"}}

Arithmetic ==
  UNION {{Pair(Insn(op, Reg("rax", s), Reg("rbx", s)), s, a, b, f) : a \in Edge(s), b \in Edge(s)} :
           op \in {"adc", "sbb"}, s \in Size, f \in Carries}
    \cup UNION {{Pair(Insn(op, Reg("rax", s), Reg("rbx", s)), s, a, b, {"CF"}) : a \in Edge(s), b \in Edge(s)} :
                  op \in {"add", "sub", "and", "or", "xor", "cmp", "test"}, s \in Size}
    \cup UNION {{Pair(Insn(op, Reg("rax", s), Reg("rax", s)), s, a, 0, f) : a \in Edge(s)} :
                  op \in {"inc", "dec", "not", "neg"}, s \in Size, f \in Carries}

\* A memory operand at address a: aligned, across a chunk, across the page.
At(a, s) == Mem("rsi", "zero", 0, Minus(4 - a), s)
Place == {8, 5, 13}

Operands ==
  {<<HighByte("rax"), Reg("rbx", 0)>>, <<Reg("rax", 0), HighByte("rdx")>>, <<HighByte("rax"), HighByte("rdx")>>,
   <<HighByte("rax"), Imm(3)>>, <<Reg("rax", 0), Imm(3)>>, <<Reg("rax", 3), Imm(40000)>>, <<Reg("rax", 2), Imm(200)>>,
   <<HighByte("rax"), At(9, 0)>>, <<At(9, 0), HighByte("rax")>>, <<At(9, 1), Imm(9)>>, <<At(13, 3), Imm(65535)>>,
   <<Reg("rax", 1), At(7, 1)>>, <<Reg("rax", 1), Reg("rax", 1)>>, <<Reg("rax", 3), Reg("rax", 3)>>}
Forms == {With(Insn(op, o[1], o[2])) : op \in {"add", "sbb", "cmp", "test", "xor", "mov"}, o \in Operands}

\* Read-modify-write and plain accesses, with pages that are missing or read only.
InMemory(a, s) ==
  LET m == At(a, s)
      r == Reg("rax", s)
  IN {Insn(op, m, m) : op \in {"not", "neg"}} \cup {Insn("inc", m, NoOp), Insn("shl", m, Imm(1)), Insn("setcc", m, NoOp)}
       \cup {[Insn(op, m, r) EXCEPT !.lock = op = "add"] : op \in {"add", "mov", "xadd", "xchg", "cmp"}}
       \cup {Insn(op, r, m) : op \in {"sub", "mov", "cmov"}}
       \cup {[Insn(op, m, r) EXCEPT !.imm = 1] : op \in {"shld", "shrd"}}
       \cup (IF s = 2 THEN {} ELSE {Insn(op, NoOp, m) : op \in {"push_ev"} \cup If(s = 3, {"call_ev", "jmp_ev"})})
       \cup (IF s = 3 THEN {Insn("cmpxchg", m, Reg("rbx", 3))} ELSE {})
Memory ==
  UNION {{[With(i) EXCEPT !.perm = p, !.regs["rsp"] = 32] : i \in InMemory(a, s)} :
           a \in Place, s \in 1 .. 3, p \in Rights}

Addressing ==
  LET m(base, index, scale, offset, s) == Mem(base, index, scale, offset, s)
      modes(s) == {m("rsi", "zero", 0, 0, s), m("rsi", "rbx", 0, 0, s), m("rsi", "rcx", 1, 0, s), m("rsi", "rcx", 1, 3, s),
                   m("rsi", "rcx", 0, 4, s), m("zero", "rcx", 2, 1, s), m("rip", "zero", 0, Minus(30), s),
                   m("zero", "zero", 0, 11, s)}
      insns(o) == {[Insn("mov", Reg("rax", o.size), o) EXCEPT !.seg = b] : b \in If(o.base # "rip", {TRUE}) \cup {FALSE}}
                    \cup {[Insn("add", o, Reg("rax", o.size)) EXCEPT !.lock = TRUE]}
                    \cup (IF o.size = 0 THEN {} ELSE {Insn("lea", Reg("rax", o.size), o)})
  IN UNION {{With(i) : i \in insns(o)} : o \in UNION {modes(s) : s \in Size}}

Count(s) == IF s = 0 THEN 1 .. 3 ELSE {0, 1, 2, 3, 5, Width(s) - 1, Width(s), Width(s) + 1} \cap 0 .. 15
Shifts ==
  LET masked(c, s) == c % (IF s = 3 THEN Width(3) ELSE Width(2))
      whole(op, c, s) == op \in {"rol", "ror"} /\ masked(c, s) # 0 /\ masked(c, s) % Width(s) = 0
      by(o, c) == IF o = "imm" THEN Imm(c) ELSE Reg("rcx", 0)
      cases(op, s, o) == {[Pair(Insn(op, Reg("rax", s), by(o, c)), s, a, 0, f) EXCEPT !.regs["rcx"] = c] :
                            c \in {k \in Count(s) \cap (IF o = "imm" THEN 0 .. 15 ELSE 0 .. 3) : ~ whole(op, k, s)},
                            a \in Edge(s) \cup {2 ^ Width(s) \div 3}, f \in {{}, {"CF", "ZF"}}}
  IN UNION {cases(op, s, o) : op \in {"shl", "shr", "sar", "rol", "ror", "rcl", "rcr"}, s \in Size, o \in {"imm", "cl"}}
       \cup UNION {{[Pair(Insn(op, Reg("rax", s), Reg("rbx", s)), s, a, b, {}) EXCEPT !.insn.imm = c] :
                      a \in Edge(s), b \in Edge(s)} : op \in {"shld", "shrd"}, s \in 1 .. 3, c \in {0, 1, 3}}

BitTests ==
  {[With(Insn(op, o, Reg("rbx", 3))) EXCEPT !.regs["rbx"] = k] :
     op \in {"bt", "bts", "btr", "btc"}, o \in {Reg("rax", 3), At(9, 0)}, k \in {0, 1, 5, 14, Minus(3)}}
    \cup {[With([Insn(op, o, Imm(k)) EXCEPT !.lock = TRUE]) EXCEPT !.perm = p] :
            op \in {"bt", "bts", "btr", "btc"}, o \in {Reg("rax", 3), At(14, 0)}, k \in {0, 1, 5}, p \in Rights}
    \cup {[With(Insn(op, Reg("rdx", s), Reg("rax", s))) EXCEPT !.regs["rax"] = v] :
            op \in {"bsf", "bsr"}, s \in 1 .. 3, v \in {1, 2, 10, 12, 32769 + 8}}
    \cup {With(Insn("bswap", Reg("rax", s), NoOp)) : s \in {2, 3}}

Products ==
  UNION {{Pair(Insn(op, Reg("rbx", s), NoOp), s, a, b, {"ZF"}) : a \in Edge(s), b \in Edge(s)} :
           op \in {"mul", "imul"}, s \in {0, 2}}
    \cup {Pair(Insn(op, Reg("rbx", 3), NoOp), 3, a, b, {"ZF"}) : op \in {"mul", "imul"}, a \in {3, 300}, b \in {2, 255, 300}}
    \cup {Pair(Insn("imul", Reg("rbx", 3), NoOp), 3, a, b, {"ZF"}) : a \in {65535, 32768}, b \in {65535, 2, 32767}}
    \cup {[With(Insn(op, At(a, s), NoOp)) EXCEPT !.perm = p, !.regs["rax"] = 3, !.regs["rdx"] = 0] :
            op \in {"mul", "imul", "div"}, a \in Place, s \in {2, 3}, p \in Rights}
    \cup UNION {{Pair(Insn("imul2", Reg("rax", s), Reg("rbx", s)), s, a, b, {"ZF"}) : a \in Edge(s), b \in Edge(s)} :
                  s \in 1 .. 3}
    \cup UNION {{[Pair(Insn("imul_imm", Reg("rax", s), Reg("rbx", s)), s, 0, b, {"ZF"}) EXCEPT !.insn.imm = a] :
                   a \in {3, 65535}, b \in Edge(s)} : s \in {2, 3}}
    \cup {[With(Insn(op, Reg("rbx", s), NoOp)) EXCEPT !.regs["rax"] = Below(a, s), !.regs["rdx"] = Below(d, s),
                                                      !.regs["rbx"] = Below(b, s)] :
            op \in {"div", "idiv"}, s \in {1, 2}, a \in {0, 1, 7, 15}, d \in {0, 1, 15}, b \in {0, 1, 2, 7, 8, 15}}
    \cup {[With(Insn(op, Reg("rbx", 0), NoOp)) EXCEPT !.regs["rax"] = a, !.regs["rbx"] = b] :
            op \in {"div", "idiv"}, a \in 0 .. 15, b \in 0 .. 3}

Moves ==
  {With(Insn(op, Reg("rbx", s[1]), o)) : op \in {"movzx", "movsx"}, s \in {<<1, 0>>, <<2, 0>>, <<3, 0>>, <<2, 1>>, <<3, 1>>},
                                         o \in {Reg("rax", 0), HighByte("rax"), At(9, 0)}}
    \cup {With(Insn(op, Reg("rbx", s), o)) : op \in {"movzx", "movsx"}, s \in {2, 3}, o \in {Reg("rax", 1), At(7, 1)}}
    \cup {Pair(Insn(op, Reg("rax", s), NoOp), 3, a, 0, {}) : op \in {"cbw", "cwd"}, s \in 1 .. 3, a \in {7, 136, 32648, 42405}}
    \cup {With(Insn("mov_imm", Reg("rax", s), Imm(11))) : s \in Size}
    \cup {[With(Insn("mov_moffs", Reg("rax", s), Mem("zero", "zero", 0, 13, s))) EXCEPT !.perm = p] : s \in {2, 3}, p \in Rights}
    \cup {[With(Insn("mov_moffs", Mem("zero", "zero", 0, 13, s), Reg("rax", s))) EXCEPT !.perm = p] : s \in Size, p \in Rights}
    \cup {[With([Insn(o[1], o[2], Reg("rbx", o[2].size)) EXCEPT !.cond = c]) EXCEPT !.flags = f] :
            o \in {<<"cmov", Reg("rax", 2)>>, <<"setcc", HighByte("rax")>>, <<"setcc", Reg("rax", 0)>>}, c \in Conditions,
            f \in {{}, {"ZF"}, {"CF"}, {"SF"}, {"SF", "OF"}, {"OF", "PF"}}}
    \cup {[With([Insn("xlat", NoOp, NoOp) EXCEPT !.seg = b]) EXCEPT !.regs["rbx"] = 14, !.perm = p] : b \in BOOLEAN, p \in Rights}

Exchanges ==
  {With(Insn(op, Reg("rax", s), Reg("rdx", s))) : op \in {"xchg", "xchg_a"}, s \in Size}
    \cup {With(Insn("xadd", Reg("rax", s), Reg("rdx", s))) : s \in {2, 3}}
    \cup {With(Insn("xchg", o[1], o[2])) : o \in {<<HighByte("rax"), Reg("rdx", 0)>>, <<Reg("rax", 0), HighByte("rdx")>>,
                                                  <<HighByte("rax"), HighByte("rdx")>>, <<At(9, 0), Reg("rax", 0)>>}}
    \cup {[Pair(Insn("cmpxchg", o, Reg("rdx", o.size)), o.size, a, b, {}) EXCEPT !.insn.lock = TRUE] :
            o \in {Reg("rbx", 3), At(9, 0)}, a \in 0 .. 3, b \in 0 .. 3}
    \cup {[With(Insn("cmpxchg16b", At(a, s), NoOp)) EXCEPT !.perm = p, !.mem = m] :
            a \in {0, 8}, s \in {2, 3}, p \in Rights, m \in {Contents, [b \in 0 .. 31 |-> 0]}}
    \cup {[With(Insn("cmpxchg16b", At(a, s), NoOp)) EXCEPT !.regs["rax"] = 0, !.regs["rdx"] = 0, !.mem = [b \in 0 .. 31 |-> 0]] :
            a \in {4, 8, 13}, s \in {2, 3}}

Calls ==
  LET sp(i, a, p) == [With(i) EXCEPT !.regs["rsp"] = a, !.regs["rbp"] = a, !.perm = p]
  IN {sp(i, a, p) : a \in {16, 21}, p \in Rights,
        i \in {Insn("push", NoOp, Reg("rax", s)) : s \in {1, 3}} \cup {Insn(op, NoOp, Reg("rax", 3)) : op \in {"call_ev", "jmp_ev"}}
                \cup {[Insn("pushf", NoOp, NoOp) EXCEPT !.atomic = b] : b \in BOOLEAN}
                \cup {[Insn(op, NoOp, NoOp) EXCEPT !.imm = 253] : op \in {"push_imm", "enter", "call", "jmp"}}}
       \cup {sp(i, a, p) : a \in {11, 16}, p \in Rights,
               i \in {Insn("pop", NoOp, Reg(r, 3)) : r \in {"rax", "rsp"}} \cup {Insn(op, NoOp, NoOp) : op \in {"leave", "ret", "popf"}}
                       \cup {[Insn("ret", NoOp, NoOp) EXCEPT !.imm = 5]}
                       \cup {Insn("pop_ev", m, NoOp) : m \in {Mem("rsp", "zero", 0, 0, 3), At(3, 3)}}}
       \cup {[With([Insn("jcc", NoOp, NoOp) EXCEPT !.cond = c, !.atomic = b]) EXCEPT !.flags = f] : c \in Conditions,
               b \in BOOLEAN, f \in {{}, {"ZF"}, {"CF"}, {"SF"}, {"OF", "PF"}}}
       \cup {[With(Insn("jcxz", NoOp, NoOp)) EXCEPT !.regs["rcx"] = n] : n \in {0, 2}}

Strings ==
  UNION {{[With([Insn(o[1], Reg("rax", s), NoOp) EXCEPT !.rep = o[2], !.atomic = s = 0]) EXCEPT
             !.regs["rcx"] = n, !.regs["rsi"] = a, !.regs["rdi"] = 21, !.regs["rax"] = 2, !.perm = p] :
            n \in {k \in 0 .. 3 : k * Bytes(s) <= 11}} :
           s \in {0, 1, 3}, a \in {4, 9}, p \in Rights,
           o \in ({"movs", "stos", "lods"} \X {"none", "rep"}) \cup ({"cmps", "scas"} \X {"none", "repz", "repnz"})}
    \cup {[With([Insn(o, Reg("rax", 0), NoOp) EXCEPT !.rep = "rep"]) EXCEPT
             !.regs["rcx"] = n, !.regs["rsi"] = 8, !.regs["rdi"] = 17, !.df = TRUE, !.perm = p] :
            o \in {"movs", "stos", "lods"}, n \in 0 .. 3, p \in Rights}

Services ==
  {[With(i) EXCEPT !.perm = p, !.df = b] : p \in {Open, [Open EXCEPT ![0] = "none"], [Open EXCEPT ![1] = "none"]}, b \in BOOLEAN,
     i \in {Insn(op, NoOp, NoOp) : op \in {"cmc", "clc", "stc", "cld", "std", "nop", "fence", "rdtsc", "cpuid", "syscall",
                                           "sysenter", "iret", "rdmsr", "wrmsr", "in", "out", "hlt", "ud2", "mov_cr"}}
             \cup {[Insn("int", NoOp, NoOp) EXCEPT !.imm = n] : n \in 0 .. 3}
             \cup {Insn("in", NoOp, Reg("rdx", 1)), Insn("prefetch", NoOp, At(13, 3)),
                   Insn("mov_to_seg", NoOp, At(13, 1)), Insn("mov_to_seg", NoOp, Reg("rax", 1)),
                   Insn("mov_from_seg", At(13, 1), NoOp), Insn("mov_from_seg", Reg("rax", 1), NoOp)}
             \cup {Insn(op, At(a, 2), NoOp) : op \in {"fxsave", "fxrstor", "stmxcsr"}, a \in {8, 13}}
             \cup {Insn("ldmxcsr", NoOp, At(a, 2)) : a \in {8, 13}}}

\* The loop family, away from the wrap of rcx.
Loops == {[With(Insn(op, NoOp, NoOp)) EXCEPT !.regs["rcx"] = n, !.flags = f] :
            op \in {"loop", "loopz", "loopnz"}, n \in 1 .. 3, f \in {{}, {"ZF"}}}

\* rep stos from the last byte of the first page into the second.
Fill == {[With([Insn("stos", Reg("rax", 0), NoOp) EXCEPT !.rep = "rep"]) EXCEPT
            !.regs["rdi"] = 15, !.perm = [Open EXCEPT ![1] = "none"]]}

Start ==
  LET of == [arithmetic |-> Arithmetic, forms |-> Forms, memory |-> Memory, addressing |-> Addressing, shifts |-> Shifts,
             bits |-> BitTests, products |-> Products, moves |-> Moves, exchanges |-> Exchanges, calls |-> Calls,
             strings |-> Strings, services |-> Services, loops |-> Loops, fill |-> Fill]
  IN UNION {of[f] : f \in Family}

\* What the decoder makes of them is what the core relies on.
ASSUME BlocksAssumption == BlocksWellFormed

(***************************************************************************)
(* Properties.                                                             *)
(***************************************************************************)
\* The uops of an instruction, with its faults, retries and restarts for modified code, do
\* what X86 says the instruction does in one step.
X == INSTANCE X86 WITH regs <- state.regs, flags <- state.flags, rip <- state.rip,
                       df <- state.internal_eflags = DirectionFlag, mxcsr <- state.mxcsr, mem <- retired,
                       status <- CASE phase = "done" -> "done" [] phase \in {"raised", "aborted"} -> "raised"
                                   [] OTHER -> "ready",
                       Iterations <- Limit
RefinesX86 == X!Spec

\* A host that maps the page each page fault names sees every instruction come to its end.
Completes == <>(phase \in {"done", "raised", "aborted"})

\* x86sim.hpp: run mutates the host's state in place.  So when it ends with a page fault, the
\* host's registers are those the guest has then.
StateInPlace == phase = "faulted" => \A r \in GPR : state.regs[r] = arf[r]

=============================================================================

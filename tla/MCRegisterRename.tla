------------------------ MODULE MCRegisterRename ------------------------
(***************************************************************************)
(* A small core for TLC: one visible register, REG_flags, one temporary    *)
(* and one renamed flag; registers are numbers, 0 being the null register. *)
(***************************************************************************)
EXTENDS RegisterRename, SequencesExt

CONSTANT NumRegs    \* physical registers besides the null register

MCPhysReg == 0..NumRegs
MCFileOf == [p \in MCPhysReg |-> "int"]
MCArchReg == {"zero", "rax", "flags"}
MCTempReg == {"t0"}
MCFlagReg == {"zf"}
MCHomeFile == [a \in MCArchReg |-> "int"]

U(rd, ra, rb, rc, fl, c, s, e) ==
  [rd |-> rd, src |-> [o \in {"RA", "RB", "RC"} |->
                         CASE o = "RA" -> ra [] o = "RB" -> rb [] OTHER -> rc],
   setflags |-> fl, class |-> c, file |-> "int", som |-> s, eom |-> e]

\* A load with a store or a flag-setting ALU uop, a move, a fence and a branch: flags
\* outlive the register they came with; RS dependencies, replay, redispatch, refetch.
MCUop == {U("t0", "rax", "zero", "zero", {}, "ld", TRUE, FALSE),
          U("t0", "rax", "zero", "t0", {}, "st", FALSE, TRUE),
          U("rax", "t0", "zf", "zero", {"zf"}, "alu", FALSE, TRUE),
          U("rax", "rax", "zero", "zero", {}, "alu", TRUE, TRUE),
          U("t0", "zero", "zero", "zero", {}, "mf", TRUE, TRUE),
          U("flags", "zf", "zero", "zero", {}, "br", TRUE, TRUE)}

-------------------------------------------------------------------------
(***************************************************************************)
(* Symmetry.  Registers of a file are interchangeable: of the free ones    *)
(* rename takes the least, and two states that differ only in the names of *)
(* the registers are identified by View, which names a register by its     *)
(* first place in the rename tables and the ROB.  The count of the null    *)
(* register, which no step reads, is not part of the view.                 *)
(***************************************************************************)
LowestFirst ==
  \A p \in PhysReg : (state[p] = "FREE" /\ state'[p] = "WAITING") =>
    \A q \in PhysReg : state[q] = "FREE" => p <= q

RegOf(i) == rob[i].physreg
OpsOf(i) == <<rob[i].operands["RA"], rob[i].operands["RB"],
              rob[i].operands["RC"], rob[i].operands["RS"]>>
Places == <<commitrrt["rax"], commitrrt["flags"], commitrrt["t0"], commitrrt["zf"],
            specrrt["rax"], specrrt["flags"], specrrt["t0"], specrrt["zf"]>>
          \o [i \in 1..Len(rob) |-> RegOf(i)]
          \o FlattenSeq([i \in 1..Len(rob) |-> OpsOf(i)])

Status(p) == IF p = NullReg THEN <<"null">> ELSE <<state[p], refcount[p]>>

View ==
  LET s == Places
      rest == PhysReg \ Range(s)
      status == {Status(p) : p \in rest}
  IN  <<[i \in DOMAIN s |-> <<SelectInSeq(s, LAMBDA p : p = s[i]), Status(s[i])>>],
        [i \in 1..Len(rob) |-> <<rob[i].uop, rob[i].list, rob[i].second, rob[i].inv>>],
        {<<x, Cardinality({p \in rest : Status(p) = x})>> : x \in status},
        nextsom, stage, commitcount, commitrc>>

=========================================================================

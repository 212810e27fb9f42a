---------------------------- MODULE MCAssembler ----------------------------
(* Programs for the assembler: every sequence of a few lines of text       *)
(* before or behind some data, every instruction with the limits of its    *)
(* operands, and branches over many instructions.                          *)
EXTENDS Assembler

Instr(op, scalar, regs, imm, part, symbol) ==
  [kind |-> "instruction", op |-> op, scalar |-> scalar, rd |-> regs[1],
   rs1 |-> regs[2], rs2 |-> regs[3], imm |-> imm, part |-> part, symbol |-> symbol]

Plain(op, regs, imm) == Instr(op, TRUE, regs, imm, "number", "")
To(op, label) == Instr(op, TRUE, <<0, 6, 0>>, 0, "distance", label)
Label(name) == [kind |-> "label", name |-> name]
Directive(name) == [kind |-> "section", name |-> name]
DataWord(v) == [kind |-> "word", value |-> v]

(***************************************************************************)
(* Jumps and branches between other instructions; a label is set once.     *)
(***************************************************************************)
TextLine == {Label("A"), Label("B"), To("j", "A"), To("j", "B"), To("beqz", "A"),
             Plain("addi", <<6, 0, 0>>, -3),
             Instr("lw", TRUE, <<7, 6, 0>>, 0, "%lo", "E")}

Texts == {t \in [1 .. 4 -> TextLine] :
            \A k, l \in 1 .. 4 : t[k] = t[l] /\ t[k].kind = "label" => k = l}

Words == <<Directive(".data"), [kind |-> "align", bits |-> 2], Label("D"), DataWord(7),
           Label("E"), DataWord(8), [kind |-> "zero", size |-> 8],
           Plain("exit", <<0, 0, 0>>, 0)>>

Unknown == Plain("nop", <<0, 0, 0>>, 0)

Arranged == {Words \o <<Directive(".text")>> \o t \o <<Unknown>> : t \in Texts}
              \cup {t \o Words : t \in Texts}

(***************************************************************************)
(* Every instruction that the decoder knows.                               *)
(***************************************************************************)
Registers == {<<0, 31, 5>>, <<31, 5, 16>>}

Single ==
  LET three == (DOMAIN rTypeFunctMap \cup DOMAIN fTypeFunctMap \cup {"sx_slt"})
                 \ {"div", "fdiv"}
      immediate == {"addi", "muli", "seqi", "li"} \X {-8192, -1, 0, 8191}
      shift == {"slli"} \X {0, 31}
      offset == (DOMAIN mTypeFunctMap) \X {-16384, -33, 0, 31, 32, 1023, 16383}
      upper == {"lui"} \X {-1, 0, 2^19, 2^20 - 1}
      operands == three \X {0} \cup immediate \cup shift \cup offset \cup upper
  IN {<<Instr(oi[1], scalar, regs, oi[2], "number", "")>> :
        oi \in operands, scalar \in BOOLEAN, regs \in Registers}

Calls == {<<Label("D"), Instr("sync", TRUE, <<0, 0, 0>>, 0, "endsync", "D")>>}

NearSources == Arranged \cup Single \cup Calls

(***************************************************************************)
(* Branches over n instructions.                                           *)
(***************************************************************************)
Over(n) == <<To("beqz", "A")>> \o [k \in 1 .. n |-> Plain("addi", <<6, 0, 0>>, 1)]
             \o <<Label("A"), Plain("exit", <<0, 0, 0>>, 0)>>

FarSources == {Over(n) : n \in {30, 31, 130}}

=============================================================================

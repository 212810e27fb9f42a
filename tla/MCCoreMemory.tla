---------------------------- MODULE MCCoreMemory ----------------------------
(***************************************************************************)
(* Programs of a few instructions for the core, on words of two bits.  The *)
(* last address always holds exit.                                         *)
(***************************************************************************)
EXTENDS CoreMemory

Instr(op, scalar, rd, rs1, rs2, imm) ==
  [op |-> op, scalar |-> scalar, rd |-> rd, rs1 |-> rs1, rs2 |-> rs2, imm |-> imm]

Exit == Instr("exit", TRUE, "zero", "zero", "zero", 0)

ScalarAlu == {Instr("addi", TRUE, "x1", "x1", "zero", 1)}
Masking == {Instr("addi", TRUE, "mask", "zero", "zero", 1),
            Instr("sx", FALSE, "mask", "x1", "tid", 0)}
VectorAlu == {Instr("addi", FALSE, "x1", "tid", "zero", 1),
              Instr("fadd", FALSE, "x1", "x1", "tid", 0)}
ScalarMemory == {Instr("lw", TRUE, "x1", "x1", "zero", 1),
                 Instr("sw", TRUE, "zero", "x1", "x1", 0)}
VectorMemory == {Instr("lw", FALSE, "x1", "x1", "zero", 0),
                 Instr("sw", FALSE, "zero", "tid", "x1", 2)}
Forward == {Instr("beqz", TRUE, "zero", "x1", "zero", 2)}
Jump == {Instr("jal", TRUE, "zero", "zero", "zero", 3)}
Leap == {Instr("jal", TRUE, "zero", "zero", "zero", 2)}
Lui == {Instr("lui", TRUE, "x1", "zero", "zero", 2)}
Seqi == {Instr("seqi", TRUE, "x1", "x1", "zero", 0)}

(***************************************************************************)
(* All programs of three instructions before exit.                         *)
(***************************************************************************)
ProgramsOf(instrs) == {p \in [Word -> instrs \cup {Exit}] : p[M - 1] = Exit}

\* no seqi, and lui only where no jump runs before it
Mixed ==
  LET body == ScalarAlu \cup Masking \cup VectorAlu \cup ScalarMemory
                \cup VectorMemory \cup Forward
  IN ProgramsOf(body \cup Jump) \cup ProgramsOf(body \cup Lui)
Counting == ProgramsOf(ScalarAlu)

\* The programs that Mixed leaves out.
Testing == ProgramsOf(ScalarAlu \cup Seqi)
Leaping == ProgramsOf(Leap \cup Lui)

Memory == [a \in Word |-> (a + 1) % M]
CommonAnswers == {{}, Controller!Channels}
=============================================================================

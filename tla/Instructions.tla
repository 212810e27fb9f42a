---------------------------- MODULE Instructions ----------------------------
(***************************************************************************)
(* The words, registers and instructions of the core (docs/ISA.md and      *)
(* hardware/rtl/lock_in/common.svh), as far as the flow of control and     *)
(* data can tell them apart: one operation per kind of unit that executes  *)
(* it.  Words are numbers modulo M.  Integer and floating-point registers  *)
(* are one bank.                                                           *)
(***************************************************************************)
EXTENDS Integers, FiniteSets

CONSTANTS
  NUM_WARPS,         \* warps of a block
  THREADS_PER_WARP,
  M                  \* words and addresses are 0 .. M - 1

ASSUME IsaAssumption == /\ NUM_WARPS \in Nat \ {0}
                        /\ THREADS_PER_WARP \in Nat \ {0}
                        /\ M \in Nat /\ M >= 2 ^ THREADS_PER_WARP
                        /\ \E width \in THREADS_PER_WARP .. M : M = 2 ^ width

Warps == 0 .. NUM_WARPS - 1
Threads == 0 .. THREADS_PER_WARP - 1
Scalar == THREADS_PER_WARP    \* the lane of the scalar registers and units
Lanes == Threads \cup {Scalar}
Word == 0 .. M - 1

Op == {"addi", "fadd", "seqi", "lui", "lw", "sw", "beqz", "jal", "sx", "exit"}
Register == {"zero", "tid", "x1", "mask"}
Instruction == [op : Op, scalar : BOOLEAN, rd : Register, rs1 : Register,
                rs2 : Register, imm : Word]

(***************************************************************************)
(* Registers 29 and 31 are called tid and mask: in the files of a thread   *)
(* they hold its number in the block and the size of the block and cannot  *)
(* be written; in the scalar file 29 is a register like x1 and 31 is the   *)
(* execution mask, at first all ones.  zero cannot be written anywhere.    *)
(***************************************************************************)
Stored(l) == IF l = Scalar THEN {"x1", "tid", "mask"} ELSE {"x1"}

RegisterFile == [l \in Lanes |-> [r \in Stored(l) |->
                   IF r = "mask" THEN M - 1 ELSE 0]]

Contents(file, w, l, r) ==
  CASE r = "zero" -> 0
    [] r \in Stored(l) -> file[l][r]
    [] r = "tid" /\ l # Scalar -> (w * THREADS_PER_WARP + l) % M
    [] r = "mask" /\ l # Scalar -> (NUM_WARPS * THREADS_PER_WARP) % M

Bit(word, i) == (word \div 2 ^ i) % 2 = 1

Enabled(file) == {i \in Threads : Bit(file[Scalar]["mask"], i)}

=============================================================================

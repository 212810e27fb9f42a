--------------------------- MODULE MCFloatingAlu ---------------------------
(* Operations on a small format: every instruction with every operand. *)
EXTENDS FloatingAlu

Unary == {"FNEG", "FABS", "FCVT_W_S", "FCVT_S_W"}

AllOperations ==
  [instruction : Instruction \ Unary, op1 : Word, op2 : Word]
    \cup [instruction : Unary, op1 : Word, op2 : {0}]

=============================================================================

---------------------------- MODULE FloatingAlu ----------------------------
(***************************************************************************)
(* The floating-point ALU (hardware/rtl/lock_in/floating_alu.sv): a        *)
(* pipeline of four stages that align, operate, normalise and compose.     *)
(* The widths of the format are parameters, 8 and 23 bits in the source.   *)
(* A word is its bits, a number below 2^Width; the leading one of the      *)
(* significand is implied for every operand, zero included.                *)
(*                                                                         *)
(* The core holds an operation at the inputs until it takes the result.    *)
(***************************************************************************)
EXTENDS Integers

CONSTANTS
  ExpBits,     \* bits of the exponent
  FracBits,    \* bits of the significand below the leading one
  Operation    \* the operations that are tried

Instruction == {"FADD", "FSUB", "FMUL", "FSLT", "FNEG", "FEQ", "FMIN", "FABS",
                "FCVT_W_S", "FCVT_S_W"}

Width == 1 + ExpBits + FracBits
Word == 0 .. 2^Width - 1
Infinite == 2^ExpBits - 1
Bias == 2^(ExpBits - 1) - 1

ASSUME FormatAssumption ==
  /\ ExpBits \in Nat \ {0} /\ FracBits \in Nat \ {0, 1}
  /\ Operation \subseteq [instruction : Instruction, op1 : Word, op2 : Word]

VARIABLES
  operation,       \* input: instruction, op1 and op2
  s1, s2, s3, s4,  \* the registers in front of the four stages
  valid            \* the stages that hold the operation

vars == <<operation, s1, s2, s3, s4, valid>>

Sign(x) == x \div 2^(ExpBits + FracBits)
Exponent(x) == (x \div 2^FracBits) % 2^ExpBits
Significand(x) == 2^FracBits + (x % 2^FracBits)
Magnitude(x) == x % 2^(Width - 1)
Bit(x, i) == (x \div 2^i) % 2 = 1
Negated(x) == (2^Width - x) % 2^Width
Larger(a, b) == IF a >= b THEN a ELSE b
LeadingOne(x) == CHOOSE i \in 0 .. Width : 2^i <= x /\ x < 2^(i + 1)

-----------------------------------------------------------------------------
(***************************************************************************)
(* Stage 1: the exponents are aligned; a difference is a sum with the      *)
(* second sign inverted.                                                   *)
(***************************************************************************)
\* Mutant: FSUB keeps the sign of its second operand.
AlignedAsSum(in) ==
  LET e1 == Exponent(in.op1)
      e2 == Exponent(in.op2)
  IN [operation |-> in, sign1 |-> Sign(in.op1), sign2 |-> Sign(in.op2),
      op1_larger |-> e1 >= e2,
      exp_diff |-> IF e1 >= e2 THEN e1 - e2 ELSE e2 - e1,
      aligned_exp |-> IF e1 >= e2 THEN e1 ELSE e2]

Aligned(in) ==
  LET e1 == Exponent(in.op1)
      e2 == Exponent(in.op2)
  IN [operation |-> in, sign1 |-> Sign(in.op1),
      sign2 |-> IF in.instruction = "FSUB" THEN 1 - Sign(in.op2)
                                           ELSE Sign(in.op2),
      op1_larger |-> e1 >= e2,
      exp_diff |-> IF e1 >= e2 THEN e1 - e2 ELSE e2 - e1,
      aligned_exp |-> IF e1 >= e2 THEN e1 ELSE e2]

(***************************************************************************)
(* Stage 2: the operation on the significands.  mantissa stands for the    *)
(* sum, the product, or the magnitude of an integer operand.               *)
(***************************************************************************)
Sum(a) ==
  LET shift == 2^a.exp_diff
      aligned1 == Significand(a.operation.op1) \div (IF a.op1_larger THEN 1 ELSE shift)
      aligned2 == Significand(a.operation.op2) \div (IF a.op1_larger THEN shift ELSE 1)
      same == a.sign1 = a.sign2
  IN [mantissa |-> IF same THEN aligned1 + aligned2
                   ELSE IF aligned1 >= aligned2 THEN aligned1 - aligned2
                                                ELSE aligned2 - aligned1,
      sign |-> IF same \/ aligned1 >= aligned2 THEN a.sign1 ELSE a.sign2,
      exp |-> a.aligned_exp]

Product(a) ==
  LET op1 == a.operation.op1
      op2 == a.operation.op2
  IN [mantissa |-> Significand(op1) * Significand(op2),
      sign |-> (a.sign1 + a.sign2) % 2,
      exp |-> (Exponent(op1) + Exponent(op2) - Bias) % 2^ExpBits]

\* Mutant: the largest exponent that fits counts as too large.
ToSmallInteger(x) ==
  LET unbiased == (Exponent(x) - Bias) % 2^ExpBits
      shifted == IF unbiased >= FracBits
                 THEN Significand(x) * 2^(unbiased - FracBits)
                 ELSE Significand(x) \div 2^(FracBits - unbiased)
  IN IF Exponent(x) = 0 \/ unbiased >= Width - 2
     THEN 0
     ELSE IF Sign(x) = 1 THEN Negated(shifted) ELSE shifted

(***************************************************************************)
(* An exponent below the bias wraps around and counts as too large.        *)
(***************************************************************************)
ToInteger(x) ==
  LET unbiased == (Exponent(x) - Bias) % 2^ExpBits
      shifted == IF unbiased >= FracBits
                 THEN Significand(x) * 2^(unbiased - FracBits)
                 ELSE Significand(x) \div 2^(FracBits - unbiased)
  IN IF Exponent(x) = Infinite
     THEN 2^(Width - 1) - 1 + Sign(x)
     ELSE IF Exponent(x) = 0 \/ unbiased > Width - 2
     THEN 0
     ELSE IF Sign(x) = 1 THEN Negated(shifted) ELSE shifted

Operated(a) ==
  LET op1 == a.operation.op1
      unused == [mantissa |-> 0, sign |-> a.sign1, exp |-> Exponent(op1)]
      computed ==
        CASE a.operation.instruction \in {"FADD", "FSUB"} -> Sum(a)
          [] a.operation.instruction = "FMUL" -> Product(a)
          [] a.operation.instruction = "FCVT_S_W" ->
               [unused EXCEPT !.mantissa = IF Sign(op1) = 1 THEN Negated(op1)
                                                            ELSE op1]
          [] OTHER -> unused
  IN [operation |-> a.operation, computed |-> computed,
      int_result |-> IF a.operation.instruction = "FCVT_W_S"
                     THEN ToInteger(op1) ELSE 0]

(***************************************************************************)
(* Stage 3: the leading one moves to bit FracBits.  low holds the guard,   *)
(* round and sticky bits; a sum takes guard and round from the two lowest  *)
(* bits of the mantissa itself.                                            *)
(***************************************************************************)
Zero == [mantissa |-> 0, exp |-> 0, sign |-> 0, round_up |-> FALSE]

RoundUp(mantissa, guard, rest) == guard /\ (rest \/ mantissa % 2 = 1)

NormalisedSum(c) ==
  LET carry == Bit(c.mantissa, FracBits + 1)
      shift == FracBits - LeadingOne(c.mantissa)
      shifted == IF carry THEN c.mantissa ELSE c.mantissa * 2^shift
      mantissa == IF carry THEN shifted \div 2 ELSE shifted
  IN IF c.mantissa = 0 \/ (~carry /\ shift > c.exp)
     THEN Zero
     ELSE [mantissa |-> mantissa, sign |-> c.sign,
           exp |-> IF carry THEN (c.exp + 1) % 2^ExpBits ELSE c.exp - shift,
           round_up |-> RoundUp(mantissa, Bit(shifted, 1), Bit(shifted, 0))]

\* Mutant: the exponent does not follow the carry of the product.
NormalisedProductKeepingExp(c) ==
  LET carry == IF Bit(c.mantissa, 2 * FracBits + 1) THEN 1 ELSE 0
      dropped == FracBits + carry
      mantissa == c.mantissa \div 2^dropped
  IN [mantissa |-> mantissa, sign |-> c.sign, exp |-> c.exp,
      round_up |-> RoundUp(mantissa, Bit(c.mantissa, dropped - 1),
                           c.mantissa % 2^(dropped - 1) # 0)]

NormalisedProduct(c) ==
  LET carry == IF Bit(c.mantissa, 2 * FracBits + 1) THEN 1 ELSE 0
      dropped == FracBits + carry
      mantissa == c.mantissa \div 2^dropped
  IN [mantissa |-> mantissa, sign |-> c.sign,
      exp |-> (c.exp + carry) % 2^ExpBits,
      round_up |-> RoundUp(mantissa, Bit(c.mantissa, dropped - 1),
                           c.mantissa % 2^(dropped - 1) # 0)]

NormalisedInteger(c) ==
  LET one == LeadingOne(c.mantissa)
  IN IF c.mantissa = 0
     THEN Zero
     ELSE [mantissa |-> IF one < FracBits
                        THEN c.mantissa * 2^(FracBits - one)
                        ELSE c.mantissa \div 2^(one - FracBits),
           exp |-> (Bias + one) % 2^ExpBits, sign |-> c.sign,
           round_up |-> FALSE]

Normalised(o) ==
  [operation |-> o.operation,
   normalised |-> CASE o.operation.instruction \in {"FADD", "FSUB"} ->
                         NormalisedSum(o.computed)
                    [] o.operation.instruction = "FMUL" ->
                         NormalisedProduct(o.computed)
                    [] o.operation.instruction = "FCVT_S_W" ->
                         NormalisedInteger(o.computed)
                    [] OTHER -> Zero]

\* Mutant: the exponent register is one bit wider.
RoundedWide(n) ==
  [n EXCEPT !.mantissa = (n.mantissa + 1) \div 2, !.exp = n.exp + 1]

(***************************************************************************)
(* Stage 4: the result.  The carry of rounding is taken from bit FracBits, *)
(* where the leading one is.                                               *)
(***************************************************************************)
Rounded(n) ==
  LET up == (n.mantissa + 1) % 2^(FracBits + 1)
  IN IF ~n.round_up THEN n
     ELSE IF Bit(up, FracBits)
     THEN [n EXCEPT !.mantissa = up \div 2, !.exp = (n.exp + 1) % 2^ExpBits]
     ELSE [n EXCEPT !.mantissa = up]

Composed(n) ==
  LET r == Rounded(n)
      fraction == IF r.exp \in {0, Infinite} THEN 0 ELSE r.mantissa % 2^FracBits
  IN (r.sign * 2^ExpBits + r.exp) * 2^FracBits + fraction

BothZero(op) == Magnitude(op.op1) = 0 /\ Magnitude(op.op2) = 0

\* Mutant: two negative numbers are compared like two positive ones.
LessByMagnitude(op) ==
  /\ ~BothZero(op)
  /\ IF Sign(op.op1) # Sign(op.op2) THEN Sign(op.op1) = 1
     ELSE Magnitude(op.op1) < Magnitude(op.op2)

Less(op) ==
  /\ ~BothZero(op)
  /\ IF Sign(op.op1) # Sign(op.op2) THEN Sign(op.op1) = 1
     ELSE IF Sign(op.op1) = 0 THEN Magnitude(op.op1) < Magnitude(op.op2)
     ELSE Magnitude(op.op1) > Magnitude(op.op2)

Flag(b) == IF b THEN 1 ELSE 0

result ==
  LET op == s4.operation
      i == op.instruction
  IN CASE i \in {"FADD", "FSUB", "FMUL", "FCVT_S_W"} -> Composed(s4.normalised)
       [] i = "FCVT_W_S" -> s3.int_result
       [] i = "FNEG" -> (1 - Sign(op.op1)) * 2^(Width - 1) + Magnitude(op.op1)
       [] i = "FABS" -> Magnitude(op.op1)
       [] i = "FEQ" -> Flag(BothZero(op) \/ op.op1 = op.op2)
       [] i = "FSLT" -> Flag(Less(op))
       [] i = "FMIN" -> 0

-----------------------------------------------------------------------------
(***************************************************************************)
(* The pipeline.  Before the operation reaches them the registers hold an  *)
(* earlier one, here that of reset.                                        *)
(***************************************************************************)
ResetOperation == [instruction |-> "FADD", op1 |-> 0, op2 |-> 0]

Init ==
  /\ operation \in Operation
  /\ s1 = ResetOperation /\ s2 = Aligned(s1)
  /\ s3 = [operation |-> s1, int_result |-> 0,
           computed |-> [mantissa |-> 0, sign |-> 0, exp |-> 0]]
  /\ s4 = [operation |-> s1, normalised |-> Zero]
  /\ valid = 0

Edge ==
  /\ s1' = operation /\ s2' = Aligned(s1) /\ s3' = Operated(s2)
  /\ s4' = Normalised(s3)
  /\ valid' = IF valid = 4 THEN 4 ELSE valid + 1
  /\ UNCHANGED operation

Spec == Init /\ [][Edge]_vars

-----------------------------------------------------------------------------
(***************************************************************************)
(* Every register and the result keep their widths.                        *)
(***************************************************************************)
TypeOK ==
  /\ operation \in Operation /\ valid \in 0 .. 4
  /\ s2.exp_diff \in 0 .. Infinite /\ s2.aligned_exp \in 0 .. Infinite
  /\ s3.computed.mantissa \in 0 .. 2^Larger(2 * FracBits + 2, Width) - 1
  /\ s3.computed.exp \in 0 .. Infinite /\ s3.int_result \in Word
  /\ s4.normalised.mantissa \in 0 .. 2^(FracBits + 1) - 1
  /\ s4.normalised.exp \in 0 .. Infinite
  /\ result \in Word

(***************************************************************************)
(* What a word means, in units of the smallest exponent's last place.      *)
(***************************************************************************)
Normal(x) == Exponent(x) \in 1 .. Infinite - 1
Number(x) == Normal(x) \/ x % 2^FracBits = 0

Unit(x) == IF Exponent(x) = 0 THEN 1 ELSE 2^(Exponent(x) - 1)
Value(x) == IF Exponent(x) = 0 THEN 0
            ELSE (1 - 2 * Sign(x)) * Significand(x) * Unit(x)
Signed(x) == IF Sign(x) = 1 THEN x - 2^Width ELSE x

Abs(v) == IF v < 0 THEN -v ELSE v
One == 2^(Bias + FracBits - 1)  \* the number 1 in these units

Ready(instructions) == valid = 4 /\ operation.instruction \in instructions
Op1 == operation.op1
Op2 == operation.op2
OperandUnit == Larger(Unit(Op1), Unit(Op2))

ExactSum == IF operation.instruction = "FSUB" THEN Value(Op1) - Value(Op2)
                                              ELSE Value(Op1) + Value(Op2)

Overflows(exact) == Abs(exact) >= Significand(0) * 2^(Infinite - 1)

(***************************************************************************)
(* A sum or difference that is not rounded up is less than a unit in the   *)
(* last place of the larger operand or of the result away from the exact   *)
(* one; it is infinite only if it is too large for the format, and zero if *)
(* it is too small (floating_alu.sv:194-226, 343-383).                     *)
(***************************************************************************)
SumsTruncated ==
  Ready({"FADD", "FSUB"}) /\ Normal(Op1) /\ Normal(Op2)
      /\ ~s4.normalised.round_up =>
    IF Exponent(result) = Infinite
    THEN Overflows(ExactSum)
    ELSE Abs(Value(result) - ExactSum)
           < Larger(OperandUnit, Larger(Unit(result), Significand(0)))

(***************************************************************************)
(* What ISA.md:181 and 182 promise of every sum and difference, with room  *)
(* for rounding: the result is less than two units in the last place away  *)
(* from the exact one.  It does not hold for what is rounded up, because   *)
(* the carry of rounding is looked for in the leading one (Rounded).       *)
(***************************************************************************)
SumsClose ==
  Ready({"FADD", "FSUB"}) /\ Normal(Op1) /\ Normal(Op2)
      /\ ~Overflows(ExactSum) =>
    Abs(Value(result) - ExactSum)
      < 2 * Larger(OperandUnit, Larger(Unit(result), Significand(0)))

(***************************************************************************)
(* A product that is not rounded up and whose exponent fits is the exact   *)
(* product without the bits that do not fit (floating_alu.sv:238-242,      *)
(* 387-402).                                                               *)
(***************************************************************************)
ProductsTruncated ==
  LET exp == Exponent(Op1) + Exponent(Op2) - Bias
      carry == Exponent(result) - exp
      exact == Significand(Op1) * Significand(Op2)
      unit == 2^(FracBits + carry)
  IN Ready({"FMUL"}) /\ Normal(Op1) /\ Normal(Op2)
         /\ exp \in 1 .. Infinite - 2 /\ ~s4.normalised.round_up =>
       /\ Sign(result) = 0 <=> Sign(Op1) = Sign(Op2)
       /\ carry \in {0, 1}
       /\ Significand(result) * unit <= exact
       /\ exact < (Significand(result) + 1) * unit

(***************************************************************************)
(* A number that fits into a signed word is converted to it by truncation, *)
(* and every word is converted to the number next to it towards zero       *)
(* (floating_alu.sv:244-268, 404-436).                                     *)
(***************************************************************************)
ConvertsTruncating ==
  /\ Ready({"FCVT_W_S"}) /\ Number(Op1)
         /\ Abs(Value(Op1)) \div One < 2^(Width - 1) =>
       Signed(result) = (1 - 2 * Sign(Op1)) * (Abs(Value(Op1)) \div One)
  /\ Ready({"FCVT_S_W"}) =>
       LET exact == Abs(Signed(Op1)) * One
       IN /\ Sign(result) = Sign(Op1)
          /\ Abs(Value(result)) <= exact
          /\ exact < Abs(Value(result)) + Unit(result)

(***************************************************************************)
(* Comparisons, negation and absolute value agree with the numbers that    *)
(* the words mean, both zeros and the infinities included                  *)
(* (floating_alu.sv:500-542).                                              *)
(***************************************************************************)
ComparesValues ==
  /\ Ready({"FSLT"}) /\ Number(Op1) /\ Number(Op2) =>
       result = Flag(Value(Op1) < Value(Op2))
  /\ Ready({"FEQ"}) /\ Number(Op1) /\ Number(Op2) =>
       result = Flag(Value(Op1) = Value(Op2))
  /\ Ready({"FNEG"}) => Value(result) = -Value(Op1)
  /\ Ready({"FABS"}) => Value(result) = Abs(Value(Op1))
=============================================================================

------------------------- MODULE FloatingAlu_proofs -------------------------
(***************************************************************************)
(* The floating-point ALU for every width of the format, 8 and 23 bits of  *)
(* the source among them: what each operation returns is the number it     *)
(* should be, up to truncation.                                            *)
(***************************************************************************)
EXTENDS FloatingAlu, FiniteSetTheorems, FunctionTheorems, WellFoundedInduction, TLAPS

-----------------------------------------------------------------------------
(***************************************************************************)
(* Induction over the natural numbers, for a set of them.                  *)
(***************************************************************************)
LEMMA SmallestElement ==
  ASSUME NEW S \in SUBSET Nat, S # {}
  PROVE  \E j \in S : \A k \in S : j <= k
  <1> DEFINE Smaller == {p \in Nat \X Nat : p[1] < p[2]}
  <1>1. IsWellFoundedOn(Smaller, Nat)
    BY NatLessThanWellFounded, Zenon DEF OpToRel
  <1>2. PICK j \in S : \A k \in S : <<k, j>> \notin Smaller
    <2> HIDE DEF Smaller
    <2> QED BY <1>1, WFMin
  <1>3. ASSUME NEW k \in S PROVE j <= k
    <2>1. <<k, j>> \in Smaller <=> k < j
      OBVIOUS
    <2> QED BY <1>2, <2>1
  <1> QED BY <1>3

LEMMA Induction ==
  ASSUME NEW S, 0 \in S, \A n \in Nat : n \in S => n + 1 \in S
  PROVE  Nat \subseteq S
  <1> DEFINE Others == {n \in Nat : n \notin S}
  <1> SUFFICES ASSUME Others # {} PROVE FALSE
    OBVIOUS
  <1>1. PICK j \in Others : \A k \in Others : j <= k
    <2> HIDE DEF Others
    <2>1. Others \in SUBSET Nat
      BY DEF Others
    <2> QED BY <2>1, SmallestElement
  <1>2. j - 1 \in Nat /\ j - 1 \in S
    BY <1>1
  <1> QED BY <1>1, <1>2

-----------------------------------------------------------------------------
(***************************************************************************)
(* Powers of two.                                                          *)
(***************************************************************************)

LEMMA PowerDoubles == ASSUME NEW n \in Nat PROVE 2^(n + 1) = 2 * 2^n
  <1> DEFINE S == SUBSET (1 .. n)
             T == {A \cup {n + 1} : A \in S}
             f == [A \in S |-> A \cup {n + 1}]
  <1>1. IsFiniteSet(S) /\ Cardinality(S) = 2^n
    <2>1. IsFiniteSet(1 .. n) /\ Cardinality(1 .. n) = n
      BY FS_Interval
    <2> QED BY <2>1, FS_SUBSET
  <1>2. IsFiniteSet(SUBSET (1 .. n + 1)) /\ Cardinality(SUBSET (1 .. n + 1)) = 2^(n + 1)
    <2>1. IsFiniteSet(1 .. n + 1) /\ Cardinality(1 .. n + 1) = n + 1
      BY FS_Interval
    <2> QED BY <2>1, FS_SUBSET
  <1>3. \A A \in S : n + 1 \notin A
    OBVIOUS
  <1>4. IsFiniteSet(T) /\ Cardinality(T) = Cardinality(S)
    <2>1. f \in [S -> T] /\ \A B \in T : \E A \in S : f[A] = B
      BY Zenon
    <2>2. ASSUME NEW A \in S, NEW B \in S, f[A] = f[B] PROVE A = B
      BY <1>3, <2>2
    <2>3. f \in Bijection(S, T)
      <3> HIDE DEF S, T, f
      <3> QED BY <2>1, <2>2, Fun_IsBij, Zenon
    <2>4. ExistsBijection(S, T)
      BY <2>3, Zenon DEF ExistsBijection
    <2> HIDE DEF S, T, f
    <2> QED BY <1>1, <2>4, FS_Bijection
  <1>5. SUBSET (1 .. n + 1) = S \cup T
    <2>1. ASSUME NEW A \in SUBSET (1 .. n + 1) PROVE A \in S \cup T
      <3>1. CASE n + 1 \in A
        <4>1. A \ {n + 1} \in S /\ A = (A \ {n + 1}) \cup {n + 1}
          BY <3>1
        <4> QED BY <4>1, Zenon
      <3>2. CASE n + 1 \notin A
        BY <3>2
      <3> QED BY <3>1, <3>2
    <2>2. S \cup T \subseteq SUBSET (1 .. n + 1)
      <3>1. 1 .. n \subseteq 1 .. n + 1 /\ n + 1 \in 1 .. n + 1
        OBVIOUS
      <3> QED BY <3>1, Zenon
    <2> HIDE DEF S, T
    <2> QED BY <2>1, <2>2
  <1>6. S \cap T = {}
    BY <1>3
  <1> HIDE DEF S, T, f
  <1>7. Cardinality(S \cup T) = Cardinality(S) + Cardinality(T) - Cardinality({})
    BY <1>1, <1>4, <1>6, FS_Union
  <1>8. Cardinality({}) = 0 /\ 2^n \in Int
    BY <1>1, FS_EmptySet, FS_CardinalityType
  <1>9. 2^(n + 1) = Cardinality(S \cup T)
    BY <1>2, <1>5
  <1> QED BY <1>1, <1>4, <1>7, <1>8, <1>9

LEMMA PowerZero == 2^0 = 1 /\ 2^1 = 2
  OBVIOUS

LEMMA PowerNat == ASSUME NEW n \in Nat PROVE 2^n \in Nat \ {0}
  <1> DEFINE S == {k \in Nat : 2^k \in Nat \ {0}}
  <1>1. 0 \in S
    BY PowerZero
  <1>2. \A k \in Nat : k \in S => k + 1 \in S
    BY PowerDoubles
  <1> HIDE DEF S
  <1>3. Nat \subseteq S
    BY <1>1, <1>2, Induction
  <1> QED BY <1>3 DEF S

LEMMA PowerSum == ASSUME NEW m \in Nat, NEW n \in Nat PROVE 2^(m + n) = 2^m * 2^n
  <1> DEFINE S == {k \in Nat : 2^(m + k) = 2^m * 2^k}
  <1>1. 0 \in S
    BY PowerZero, PowerNat
  <1>2. ASSUME NEW k \in Nat, k \in S PROVE k + 1 \in S
    <2>1. 2^(m + (k + 1)) = 2 * 2^(m + k) /\ 2^(k + 1) = 2 * 2^k
      <3>1. m + (k + 1) = (m + k) + 1 /\ m + k \in Nat
        OBVIOUS
      <3> QED BY <3>1, PowerDoubles
    <2>2. 2^m \in Nat /\ 2^k \in Nat
      BY PowerNat
    <2>3. \A a, b \in Nat : 2 * (a * b) = a * (2 * b)
      OBVIOUS
    <2> QED BY <1>2, <2>1, <2>2, <2>3
  <1> HIDE DEF S
  <1>3. Nat \subseteq S
    BY <1>1, <1>2, Induction
  <1> QED BY <1>3 DEF S

LEMMA PowerLess ==
  ASSUME NEW m \in Nat, NEW n \in Nat
  PROVE  /\ m <= n => 2^m <= 2^n /\ 2^n = 2^m * 2^(n - m)
         /\ m < n => 2^m < 2^n /\ 2 * 2^m <= 2^n
  <1>1. ASSUME NEW i \in Nat, NEW j \in Nat, i <= j
        PROVE  2^i <= 2^j /\ 2^j = 2^i * 2^(j - i)
    <2>1. j - i \in Nat /\ i + (j - i) = j
      BY <1>1
    <2>2. 2^j = 2^i * 2^(j - i)
      BY <2>1, PowerSum
    <2>3. 2^i \in Nat \ {0} /\ 2^(j - i) \in Nat \ {0}
      BY <2>1, PowerNat
    <2>4. \A a, b \in Nat \ {0} : a <= a * b
      OBVIOUS
    <2> QED BY <2>2, <2>3, <2>4
  <1>2. ASSUME m < n PROVE 2^m < 2^n /\ 2 * 2^m <= 2^n
    <2>1. 2^(m + 1) <= 2^n /\ 2^(m + 1) = 2 * 2^m /\ 2^m \in Nat \ {0} /\ 2^n \in Nat
      BY <1>1, <1>2, PowerDoubles, PowerNat
    <2> QED BY <2>1
  <1> QED BY <1>1, <1>2

\* A number has a leading one, below the power that bounds it.
LEMMA LeadingOneFound ==
  ASSUME NEW n \in Nat, NEW x \in Nat \ {0}, x < 2^n
  PROVE  \E i \in 0 .. n - 1 : 2^i <= x /\ x < 2^(i + 1)
  <1> DEFINE S == {k \in Nat : x < 2^k}
  <1>1. S \in SUBSET Nat /\ n \in S
    OBVIOUS
  <1> HIDE DEF S
  <1>2. PICK j \in S : \A k \in S : j <= k
    BY <1>1, SmallestElement
  <1>3. j \in Nat /\ x < 2^j /\ j <= n /\ (j > 0 => ~(x < 2^(j - 1)))
    BY <1>1, <1>2 DEF S
  <1>4. j # 0
    <2>1. x >= 1 /\ ~(x < 1)
      OBVIOUS
    <2>2. ~(x < 2^0)
      BY <2>1, PowerZero
    <2> QED BY <1>3, <2>2, Zenon
  <1>5. 2^(j - 1) \in Nat
    BY <1>3, <1>4, PowerNat
  <1>6. j - 1 \in 0 .. n - 1 /\ 2^(j - 1) <= x /\ x < 2^((j - 1) + 1)
    BY <1>3, <1>4, <1>5
  <1> QED BY <1>6

LEMMA LeadingOneUnique ==
  ASSUME NEW x \in Nat, NEW i \in Nat, NEW j \in Nat,
         2^i <= x, x < 2^(i + 1), 2^j <= x, x < 2^(j + 1)
  PROVE  i = j
  <1>1. \A k \in Nat : 2^k \in Nat
    BY PowerNat
  <1>2. ~(i < j) /\ ~(j < i)
    BY <1>1, PowerLess
  <1> QED BY <1>2

-----------------------------------------------------------------------------
(***************************************************************************)
(* Quotients and remainders.                                               *)
(***************************************************************************)
LEMMA Division ==
  ASSUME NEW a \in Int, NEW b \in Nat \ {0}
  PROVE  /\ a \div b \in Int /\ a % b \in 0 .. b - 1
         /\ a = (a \div b) * b + (a % b)
  OBVIOUS

LEMMA DivisionUnique ==
  ASSUME NEW a \in Int, NEW b \in Nat \ {0}, NEW q \in Int, NEW r \in 0 .. b - 1,
         a = q * b + r
  PROVE  a \div b = q /\ a % b = r
  OBVIOUS

LEMMA QuotientBelow ==
  ASSUME NEW a \in Nat, NEW b \in Nat \ {0}, NEW q \in Nat, a < q * b
  PROVE  a \div b \in 0 .. q - 1
  OBVIOUS

LEMMA ProductLess ==
  ASSUME NEW a \in Int, NEW b \in Int, NEW c \in Nat \ {0}
  PROVE  (a < b <=> a * c < b * c) /\ (a <= b <=> a * c <= b * c)
  OBVIOUS

LEMMA Products ==
  ASSUME NEW a \in Int, NEW b \in Int, NEW c \in Int
  PROVE  /\ a * b \in Int /\ a * b = b * a /\ (a * b) * c = a * (b * c)
         /\ (a + b) * c = a * c + b * c /\ (a - b) * c = a * c - b * c
  OBVIOUS

-----------------------------------------------------------------------------
(***************************************************************************)
(* The fields of a word.                                                   *)
(***************************************************************************)
FracSize == 2^FracBits
ExpSize == 2^ExpBits
Fraction(x) == x % FracSize

LEMMA Sizes ==
  /\ FracSize \in Nat /\ FracSize >= 4 /\ ExpSize \in Nat /\ ExpSize >= 2
  /\ 2^(FracBits + 1) = 2 * FracSize /\ 2^(FracBits + 2) = 4 * FracSize
  /\ 2^(ExpBits + FracBits) = ExpSize * FracSize
  /\ 2^(Width - 1) = ExpSize * FracSize /\ 2^Width = 2 * (ExpSize * FracSize)
  /\ Infinite = ExpSize - 1 /\ ExpSize = 2 * (Bias + 1) /\ Bias \in Nat
  <1>1. /\ ExpBits \in Nat \ {0} /\ FracBits \in Nat \ {0, 1}
        /\ FracBits >= 2 /\ ExpBits >= 1
    BY FormatAssumption
  <1>2. FracSize \in Nat /\ FracSize >= 4
    <2>1. 2^2 = 4
      OBVIOUS
    <2> QED BY <1>1, <2>1, PowerNat, PowerLess DEF FracSize
  <1>3. ExpSize = 2 * 2^(ExpBits - 1) /\ 2^(ExpBits - 1) \in Nat \ {0}
    <2>1. ExpBits - 1 \in Nat /\ (ExpBits - 1) + 1 = ExpBits
      BY <1>1
    <2> QED BY <2>1, PowerDoubles, PowerNat DEF ExpSize
  <1>4. 2^(FracBits + 1) = 2 * FracSize /\ 2^(FracBits + 2) = 4 * FracSize
    <2>1. 2^(FracBits + 1) = 2 * FracSize
      BY <1>1, PowerDoubles DEF FracSize
    <2>2. FracBits + 2 = (FracBits + 1) + 1 /\ FracBits + 1 \in Nat
      BY <1>1
    <2>3. 2^(FracBits + 2) = 2 * 2^(FracBits + 1)
      BY <2>2, PowerDoubles
    <2> QED BY <1>2, <2>1, <2>3
  <1>5. 2^(ExpBits + FracBits) = ExpSize * FracSize
    BY <1>1, PowerSum DEF ExpSize, FracSize
  <1>6. Width - 1 = ExpBits + FracBits /\ Width = (ExpBits + FracBits) + 1
        /\ ExpBits + FracBits \in Nat
    BY <1>1 DEF Width
  <1>7. 2^Width = 2 * 2^(ExpBits + FracBits)
    BY <1>6, PowerDoubles
  <1>8. Infinite = ExpSize - 1 /\ Bias = 2^(ExpBits - 1) - 1
    BY DEF Infinite, ExpSize, Bias
  <1> QED BY <1>2, <1>3, <1>4, <1>5, <1>6, <1>7, <1>8

\* A word is its fields.
LEMMA Fields ==
  ASSUME NEW x \in Word
  PROVE  /\ x \in Nat /\ Sign(x) \in {0, 1} /\ Exponent(x) \in 0 .. Infinite
         /\ Fraction(x) \in 0 .. FracSize - 1
         /\ Significand(x) = FracSize + Fraction(x)
         /\ Magnitude(x) = Exponent(x) * FracSize + Fraction(x)
         /\ x = Sign(x) * (ExpSize * FracSize) + Magnitude(x)
         /\ Magnitude(x) \in 0 .. ExpSize * FracSize - 1
  <1> DEFINE size == ExpSize * FracSize
             y == x \div FracSize
  <1>1. size \in Nat \ {0} /\ 2^Width = 2 * size
    BY Sizes
  <1>2. x \in Nat /\ x < 2 * size
    BY <1>1 DEF Word
  <1>3. Sign(x) = x \div size /\ Magnitude(x) = x % size
    BY Sizes DEF Sign, Magnitude
  <1>4. Sign(x) \in {0, 1} /\ Magnitude(x) \in 0 .. size - 1
        /\ x = Sign(x) * size + Magnitude(x)
    <2> HIDE DEF size
    <2>1. x \div size \in 0 .. 1
      BY <1>1, <1>2, QuotientBelow
    <2>2. x % size \in 0 .. size - 1 /\ x = (x \div size) * size + (x % size)
      <3>1. x \in Int /\ size \in Nat \ {0}
        BY <1>1, <1>2
      <3> QED BY ONLY <3>1, Division
    <2>3. x \div size = 0 \/ x \div size = 1
      BY <2>1
    <2> QED BY <1>3, <2>2, <2>3
  <1>5. Exponent(x) = y % ExpSize /\ Significand(x) = FracSize + Fraction(x)
    BY DEF Exponent, Significand, Fraction, FracSize, ExpSize
  <1>6. /\ y \in Int /\ Fraction(x) \in 0 .. FracSize - 1
        /\ x = y * FracSize + Fraction(x)
    <2>1. FracSize \in Nat \ {0} /\ x \in Int
      BY <1>2, Sizes
    <2>2. /\ x \div FracSize \in Int /\ x % FracSize \in 0 .. FracSize - 1
          /\ x = (x \div FracSize) * FracSize + (x % FracSize)
      BY <2>1, Division
    <2> QED BY <2>2 DEF Fraction
  <1>7. /\ Exponent(x) \in 0 .. ExpSize - 1 /\ y \div ExpSize \in Int
        /\ y = (y \div ExpSize) * ExpSize + Exponent(x)
    <2> HIDE DEF y
    <2>1. ExpSize \in Nat \ {0} /\ y \in Int
      BY <1>6, Sizes
    <2>2. /\ y \div ExpSize \in Int /\ y % ExpSize \in 0 .. ExpSize - 1
          /\ y = (y \div ExpSize) * ExpSize + (y % ExpSize)
      BY <2>1, Division
    <2> QED BY <1>5, <2>2
  <1>8. Magnitude(x) = Exponent(x) * FracSize + Fraction(x)
    <2> DEFINE s == y \div ExpSize
               e == Exponent(x)
               f == Fraction(x)
               P == FracSize
               Q == ExpSize
    <2>1. P \in Nat \ {0} /\ Q \in Nat \ {0} /\ s \in Int /\ e \in 0 .. Q - 1
          /\ f \in 0 .. P - 1 /\ x = (s * Q + e) * P + f
      BY <1>6, <1>7, Sizes
    <2> HIDE DEF s, e, f, P, Q
    <2>2. (s * Q + e) * P = s * (Q * P) + e * P
      BY <2>1
    <2>3. e * P <= (Q - 1) * P /\ (Q - 1) * P = Q * P - P /\ 0 <= e * P
      BY <2>1
    <2>4. e * P + f \in 0 .. Q * P - 1 /\ Q * P \in Nat \ {0} /\ e * P \in Int
      BY <2>1, <2>3
    <2>5. x = s * (Q * P) + (e * P + f)
      BY <2>1, <2>2, <2>4
    <2>6. x % (Q * P) = e * P + f
      <3> DEFINE n == Q * P
                 m == e * P + f
      <3>1. n \in Nat \ {0} /\ m \in 0 .. n - 1 /\ x = s * n + m /\ x \in Int /\ s \in Int
        BY <1>2, <2>1, <2>4, <2>5
      <3> HIDE DEF n, m
      <3>2. x % n = m
        BY <3>1, DivisionUnique
      <3> QED BY <3>2 DEF n, m
    <2> QED BY <1>3, <2>6 DEF e, f, P, Q
  <1> QED BY <1>2, <1>4, <1>5, <1>6, <1>7, <1>8, Sizes

\* Fields make a word.
Composition(s, e, f) == (s * ExpSize + e) * FracSize + f

LEMMA Composing ==
  ASSUME NEW s \in {0, 1}, NEW e \in 0 .. Infinite, NEW f \in 0 .. FracSize - 1
  PROVE  LET x == Composition(s, e, f)
         IN /\ x \in Word /\ Sign(x) = s /\ Exponent(x) = e /\ Fraction(x) = f
            /\ Magnitude(x) = e * FracSize + f
  <1> DEFINE P == FracSize
             Q == ExpSize
             x == Composition(s, e, f)
             m == e * P + f
  <1>1. P \in Nat \ {0} /\ Q \in Nat \ {0} /\ e \in 0 .. Q - 1 /\ f \in 0 .. P - 1
    BY Sizes
  <1>2. x = (s * Q + e) * P + f
    BY DEF Composition
  <1>3. 2^Width = 2 * (Q * P) /\ 2^(Width - 1) = Q * P /\ 2^(ExpBits + FracBits) = Q * P
    BY Sizes
  <1> HIDE DEF x, P, Q
  <1>4. (s * Q + e) * P = s * (Q * P) + e * P
    BY <1>1
  <1>5. e * P <= (Q - 1) * P /\ (Q - 1) * P = Q * P - P /\ 0 <= e * P
    BY <1>1
  <1>6. m \in 0 .. Q * P - 1 /\ Q * P \in Nat \ {0} /\ e * P \in Int
    BY <1>1, <1>5
  <1>7. x = s * (Q * P) + m
    BY <1>2, <1>4, <1>6
  <1>8. x \in Nat /\ x < 2 * (Q * P)
    BY <1>6, <1>7
  <1>9. x \div (Q * P) = s /\ x % (Q * P) = m
    <2> DEFINE n == Q * P
    <2>1. n \in Nat \ {0} /\ m \in 0 .. n - 1 /\ x = s * n + m /\ x \in Int /\ s \in Int
      BY <1>6, <1>7, <1>8
    <2> HIDE DEF n, m
    <2>2. x \div n = s /\ x % n = m
      BY <2>1, DivisionUnique
    <2> QED BY <2>2 DEF n
  <1>10. s * Q + e \in Int
    BY <1>1
  <1>11. x \div P = s * Q + e /\ x % P = f
    <2> DEFINE t == s * Q + e
    <2> HIDE DEF t
    <2>1. t \in Int /\ x = t * P + f
      BY <1>2, <1>10 DEF t
    <2>2. x \div P = t /\ x % P = f
      BY <1>1, <1>8, <2>1, DivisionUnique
    <2> QED BY <2>2 DEF t
  <1>12. (s * Q + e) % Q = e
    BY <1>1, <1>10, DivisionUnique
  <1>13. x \in Word /\ Sign(x) = s /\ Magnitude(x) = m
    <2>1. x \in Word
      BY <1>3, <1>6, <1>8 DEF Word
    <2> QED BY <1>3, <1>9, <2>1 DEF Sign, Magnitude
  <1>14. Exponent(x) = e /\ Fraction(x) = f
    BY <1>11, <1>12 DEF Exponent, Fraction, P, Q, FracSize, ExpSize
  <1> QED BY <1>13, <1>14 DEF x, P

-----------------------------------------------------------------------------
(***************************************************************************)
(* The widths of the registers.                                            *)
(***************************************************************************)
Operations == [instruction : Instruction, op1 : Word, op2 : Word]
Sums == {"FADD", "FSUB"}

Computed == [mantissa : Nat, sign : {0, 1}, exp : 0 .. Infinite]

MantissaSize(instruction) ==
  CASE instruction \in Sums -> 4 * FracSize
    [] instruction = "FMUL" -> 4 * (FracSize * FracSize)
    [] instruction = "FCVT_S_W" -> 2^Width
    [] OTHER -> 1

NormalNumber == [mantissa : 0 .. 2 * FracSize - 1, exp : 0 .. Infinite, sign : {0, 1},
                 round_up : BOOLEAN]

LEMMA LargestMantissa ==
  ASSUME NEW instruction \in Instruction
  PROVE  /\ MantissaSize(instruction) \in Nat \ {0}
         /\ MantissaSize(instruction) <= 2^Larger(2 * FracBits + 2, Width)
  <1>1. FracBits \in Nat /\ Width \in Nat
    BY FormatAssumption DEF Width
  <1>2. 2^(2 * FracBits + 2) = 4 * (FracSize * FracSize)
    <2>1. 2 * FracBits + 2 = FracBits + (FracBits + 2) /\ FracBits + 2 \in Nat
      BY <1>1
    <2>2. 2^(2 * FracBits + 2) = FracSize * (4 * FracSize)
      BY <1>1, <2>1, PowerSum, Sizes DEF FracSize
    <2> QED BY <2>2, Sizes
  <1>3. LET n == Larger(2 * FracBits + 2, Width)
        IN n \in Nat /\ 2 * FracBits + 2 <= n /\ Width <= n
    BY <1>1 DEF Larger
  <1>4. /\ 2^(2 * FracBits + 2) <= 2^Larger(2 * FracBits + 2, Width)
        /\ 2^Width <= 2^Larger(2 * FracBits + 2, Width)
    BY <1>1, <1>3, PowerLess
  <1>5. 2^Width \in Nat \ {0} /\ FracSize * FracSize \in Nat \ {0}
        /\ FracSize <= FracSize * FracSize
        /\ 2^Larger(2 * FracBits + 2, Width) \in Nat
    BY <1>1, <1>3, PowerNat, Sizes
  <1>6. CASE instruction \in Sums
    BY <1>2, <1>4, <1>5, <1>6, Sizes DEF MantissaSize
  <1>7. CASE instruction = "FMUL"
    BY <1>2, <1>4, <1>5, <1>7 DEF MantissaSize, Sums
  <1>8. CASE instruction = "FCVT_S_W"
    BY <1>4, <1>5, <1>8 DEF MantissaSize, Sums
  <1>9. CASE instruction \notin Sums \cup {"FMUL", "FCVT_S_W"}
    BY <1>4, <1>5, <1>9 DEF MantissaSize
  <1> QED BY <1>6, <1>7, <1>8, <1>9

LEMMA NegatedWord == ASSUME NEW x \in Nat PROVE Negated(x) \in Word
  <1>1. 2^Width \in Nat \ {0} /\ 2^Width - x \in Int
    BY Sizes
  <1>2. (2^Width - x) % 2^Width \in 0 .. 2^Width - 1
    BY <1>1, Division
  <1> QED BY <1>2 DEF Negated, Word

\* The aligned exponents: the larger one, and how far the other is below.
LEMMA AlignedFields ==
  ASSUME NEW in \in Operations
  PROVE  LET a == Aligned(in)
             e1 == Exponent(in.op1)
             e2 == Exponent(in.op2)
         IN /\ a.operation = in /\ a.sign1 = Sign(in.op1)
            /\ a.sign2 = IF in.instruction = "FSUB" THEN 1 - Sign(in.op2)
                                                    ELSE Sign(in.op2)
            /\ a.op1_larger = (e1 >= e2)
            /\ a.exp_diff = (IF e1 >= e2 THEN e1 - e2 ELSE e2 - e1)
            /\ a.aligned_exp = (IF e1 >= e2 THEN e1 ELSE e2)
  BY DEF Aligned

LEMMA AlignedTypes ==
  ASSUME NEW in \in Operations
  PROVE  LET a == Aligned(in)
         IN /\ a.operation = in /\ a.sign1 \in {0, 1} /\ a.sign2 \in {0, 1}
            /\ a.exp_diff \in 0 .. Infinite /\ a.aligned_exp \in 0 .. Infinite
            /\ a.op1_larger \in BOOLEAN
  <1>1. in.op1 \in Word /\ in.op2 \in Word
    BY DEF Operations
  <1>2. /\ Sign(in.op1) \in {0, 1} /\ Sign(in.op2) \in {0, 1}
        /\ Exponent(in.op1) \in 0 .. Infinite /\ Exponent(in.op2) \in 0 .. Infinite
        /\ Infinite \in Nat
    BY <1>1, Fields, Sizes
  <1> QED BY <1>2 DEF Aligned

LEMMA Significands ==
  ASSUME NEW x \in Word
  PROVE  Significand(x) \in FracSize .. 2 * FracSize - 1
  BY Fields, Sizes

LEMMA QuotientSmaller ==
  ASSUME NEW a \in Nat, NEW b \in Nat \ {0}
  PROVE  a \div b \in Nat /\ a \div b <= a
  <1>1. a \div b \in Nat /\ (a \div b) * b <= a
    BY Division
  <1>2. \A q \in Nat : q <= q * b
    OBVIOUS
  <1> QED BY <1>1, <1>2

LEMMA SumTypes ==
  ASSUME NEW in \in Operations
  PROVE  Sum(Aligned(in)) \in Computed /\ Sum(Aligned(in)).mantissa < 4 * FracSize
  <1> DEFINE a == Aligned(in)
             shift == 2^a.exp_diff
             b1 == IF a.op1_larger THEN 1 ELSE shift
             b2 == IF a.op1_larger THEN shift ELSE 1
             m1 == Significand(in.op1) \div b1
             m2 == Significand(in.op2) \div b2
  <1>1. /\ in.op1 \in Word /\ in.op2 \in Word /\ a.operation = in
        /\ a.sign1 \in {0, 1} /\ a.sign2 \in {0, 1} /\ a.exp_diff \in Nat
        /\ a.aligned_exp \in 0 .. Infinite
    BY AlignedTypes, Sizes DEF Operations
  <1> HIDE DEF a
  <1>2. b1 \in Nat \ {0} /\ b2 \in Nat \ {0}
    BY <1>1, PowerNat
  <1>3. Sum(a) = [mantissa |-> IF a.sign1 = a.sign2 THEN m1 + m2
                               ELSE IF m1 >= m2 THEN m1 - m2 ELSE m2 - m1,
                  sign |-> IF a.sign1 = a.sign2 \/ m1 >= m2 THEN a.sign1 ELSE a.sign2,
                  exp |-> a.aligned_exp]
    BY <1>1 DEF Sum
  <1> HIDE DEF b1, b2
  <1>4. m1 \in 0 .. 2 * FracSize - 1 /\ m2 \in 0 .. 2 * FracSize - 1
    <2>1. /\ Significand(in.op1) \in Nat /\ Significand(in.op1) < 2 * FracSize
          /\ Significand(in.op2) \in Nat /\ Significand(in.op2) < 2 * FracSize
      BY <1>1, Significands, Sizes
    <2>2. m1 \in Nat /\ m1 <= Significand(in.op1) /\ m2 \in Nat /\ m2 <= Significand(in.op2)
      BY <1>2, <2>1, QuotientSmaller
    <2> QED BY <2>1, <2>2, Sizes
  <1> HIDE DEF m1, m2
  <1> QED BY <1>1, <1>3, <1>4, Sizes DEF Computed, a

LEMMA ProductTypes ==
  ASSUME NEW in \in Operations
  PROVE  /\ Product(Aligned(in)) \in Computed
         /\ Product(Aligned(in)).mantissa < 4 * (FracSize * FracSize)
  <1> DEFINE a == Aligned(in)
             m1 == Significand(in.op1)
             m2 == Significand(in.op2)
             sum == Exponent(in.op1) + Exponent(in.op2) - Bias
  <1>1. /\ in.op1 \in Word /\ in.op2 \in Word /\ a.operation = in
        /\ a.sign1 \in {0, 1} /\ a.sign2 \in {0, 1}
    BY AlignedTypes DEF Operations
  <1>2. m1 \in 0 .. 2 * FracSize - 1 /\ m2 \in 0 .. 2 * FracSize - 1 /\ FracSize \in Nat
    BY <1>1, Significands, Sizes
  <1>3. sum \in Int /\ ExpSize \in Nat \ {0}
    BY <1>1, Fields, Sizes
  <1> HIDE DEF a, m1, m2, sum
  <1>4. Product(a) = [mantissa |-> m1 * m2, sign |-> (a.sign1 + a.sign2) % 2,
                      exp |-> sum % ExpSize]
    BY <1>1 DEF Product, m1, m2, sum, ExpSize
  <1>5. sum % ExpSize \in 0 .. Infinite
    BY <1>3, Division, Sizes
  <1>6. m1 * m2 \in Nat /\ m1 * m2 < 4 * (FracSize * FracSize)
    <2>1. \A x, y, p \in Nat : x < 2 * p /\ y < 2 * p => x * y < 4 * (p * p)
      OBVIOUS
    <2> QED BY <1>2, <2>1
  <1>7. (a.sign1 + a.sign2) % 2 \in {0, 1}
    BY <1>1
  <1> QED BY <1>4, <1>5, <1>6, <1>7 DEF Computed, a

\* A shifted significand stays below the power its leading one reaches.
LEMMA ShiftedSignificand ==
  ASSUME NEW x \in Word, NEW n \in Nat
  PROVE  LET shifted == IF n >= FracBits THEN Significand(x) * 2^(n - FracBits)
                                         ELSE Significand(x) \div 2^(FracBits - n)
         IN shifted \in Nat /\ 2^n <= shifted /\ shifted < 2^(n + 1)
  <1> DEFINE m == Significand(x)
             P == FracSize
  <1>1. m \in Nat /\ P <= m /\ m < 2 * P /\ P \in Nat \ {0} /\ FracBits \in Nat
    BY Significands, Sizes, FormatAssumption
  <1>2. 2^(n + 1) = 2 * 2^n /\ 2^n \in Nat \ {0}
    BY PowerDoubles, PowerNat
  <1> HIDE DEF m
  <1>3. CASE n >= FracBits
    <2> DEFINE q == 2^(n - FracBits)
    <2>1. 2^n = P * q /\ q \in Nat \ {0}
      <3>1. n - FracBits \in Nat
        BY <1>1, <1>3
      <3> QED BY <1>1, <1>3, <3>1, PowerLess, PowerNat DEF FracSize
    <2> HIDE DEF q, P
    <2>2. P * q <= m * q /\ m * q < (2 * P) * q /\ m * q \in Nat
      BY <1>1, <2>1
    <2>3. (2 * P) * q = 2 * (P * q)
      BY <1>1, <2>1
    <2>4. 2^n <= m * q /\ m * q < 2^(n + 1) /\ m * q \in Nat
      BY <1>2, <2>1, <2>2, <2>3
    <2> QED BY <1>3, <2>4 DEF m, q
  <1>4. CASE ~(n >= FracBits)
    <2> DEFINE q == 2^(FracBits - n)
               p == 2^n
    <2>1. P = p * q /\ q \in Nat \ {0} /\ p \in Nat \ {0}
      <3>1. FracBits - n \in Nat
        BY <1>1, <1>4
      <3> QED BY <1>1, <1>2, <1>4, <3>1, PowerLess, PowerNat DEF FracSize
    <2> HIDE DEF q, P, p
    <2>2. m \div q \in Nat /\ m \div q < 2 * p
      <3>1. m < (2 * p) * q
        BY <1>1, <2>1
      <3> QED BY <1>1, <2>1, <3>1, QuotientBelow
    <2>3. p <= m \div q
      <3>1. m = (m \div q) * q + (m % q) /\ m % q \in 0 .. q - 1 /\ m \div q \in Nat
        BY <1>1, <2>1, <2>2, Division
      <3>2. p * q < (m \div q + 1) * q
        BY <1>1, <2>1, <3>1
      <3>3. p < m \div q + 1
        BY <2>1, <3>1, <3>2, ProductLess
      <3> QED BY <2>1, <3>1, <3>3
    <2>4. 2^n <= m \div q /\ m \div q < 2^(n + 1) /\ m \div q \in Nat
      BY <1>2, <2>2, <2>3 DEF p
    <2> QED BY <1>4, <2>4 DEF m, q
  <1> QED BY <1>3, <1>4

LEMMA IntegerWord == ASSUME NEW x \in Word PROVE ToInteger(x) \in Word
  <1> DEFINE unbiased == (Exponent(x) - Bias) % 2^ExpBits
             shifted == IF unbiased >= FracBits
                        THEN Significand(x) * 2^(unbiased - FracBits)
                        ELSE Significand(x) \div 2^(FracBits - unbiased)
             half == ExpSize * FracSize
  <1>1. /\ Sign(x) \in {0, 1} /\ Exponent(x) \in 0 .. Infinite /\ half \in Nat \ {0}
        /\ 2^(Width - 1) = half /\ 2^Width = 2 * half /\ Width \in Nat /\ Width >= 4
    BY Fields, Sizes, FormatAssumption DEF Width
  <1>2. unbiased \in Nat
    <2>1. Exponent(x) - Bias \in Int /\ ExpSize \in Nat \ {0}
      BY <1>1, Sizes
    <2>2. (Exponent(x) - Bias) % ExpSize \in 0 .. ExpSize - 1
      BY ONLY <2>1, Division
    <2> QED BY <2>1, <2>2 DEF ExpSize
  <1> HIDE DEF half, unbiased
  <1>3. shifted \in Nat /\ shifted < 2^(unbiased + 1)
    BY <1>2, ShiftedSignificand
  <1>4. ToInteger(x) = IF Exponent(x) = Infinite THEN half - 1 + Sign(x)
                       ELSE IF Exponent(x) = 0 \/ unbiased > Width - 2 THEN 0
                       ELSE IF Sign(x) = 1 THEN Negated(shifted) ELSE shifted
    BY <1>1 DEF ToInteger, unbiased
  <1> HIDE DEF shifted
  <1>5. half - 1 + Sign(x) \in Word /\ 0 \in Word
    BY <1>1 DEF Word
  <1>6. CASE unbiased > Width - 2
    BY <1>4, <1>5, <1>6
  <1>7. CASE ~(unbiased > Width - 2)
    <2>1. unbiased + 1 \in Nat /\ Width - 1 \in Nat /\ unbiased + 1 <= Width - 1
      BY <1>1, <1>2, <1>7
    <2>2. 2^(unbiased + 1) <= half /\ 2^(unbiased + 1) \in Nat
      BY <1>1, <2>1, PowerLess, PowerNat
    <2>3. shifted \in Word /\ Negated(shifted) \in Word
      BY <1>1, <1>3, <2>2, NegatedWord DEF Word
    <2> QED BY <1>4, <1>5, <2>3
  <1> QED BY <1>6, <1>7

LEMMA OperatedTypes ==
  ASSUME NEW in \in Operations
  PROVE  LET o == Operated(Aligned(in))
         IN /\ o.operation = in /\ o.computed \in Computed
            /\ o.computed.mantissa < MantissaSize(in.instruction)
            /\ o.int_result \in Word
  <1> DEFINE a == Aligned(in)
             unused == [mantissa |-> 0, sign |-> a.sign1, exp |-> Exponent(in.op1)]
             computed ==
               CASE in.instruction \in Sums -> Sum(a)
                 [] in.instruction = "FMUL" -> Product(a)
                 [] in.instruction = "FCVT_S_W" ->
                      [unused EXCEPT !.mantissa = IF Sign(in.op1) = 1 THEN Negated(in.op1)
                                                                      ELSE in.op1]
                 [] OTHER -> unused
  <1>1. in.op1 \in Word /\ in.op1 \in Nat /\ Exponent(in.op1) \in 0 .. Infinite
    BY Fields DEF Operations
  <1>2. a.operation = in /\ a.sign1 \in {0, 1}
    BY AlignedTypes
  <1> HIDE DEF a
  <1>3. /\ Operated(a).operation = in /\ Operated(a).computed = computed
        /\ Operated(a).int_result = IF in.instruction = "FCVT_W_S" THEN ToInteger(in.op1)
                                                                   ELSE 0
    BY <1>2 DEF Operated, Sums
  <1>4. Operated(a).int_result \in Word
    BY <1>1, <1>3, IntegerWord, Sizes DEF Word
  <1>5. computed \in Computed /\ computed.mantissa < MantissaSize(in.instruction)
    <2>1. CASE in.instruction \in Sums
      BY <2>1, SumTypes DEF a, MantissaSize, Sums
    <2>2. CASE in.instruction = "FMUL"
      BY <2>2, ProductTypes DEF a, MantissaSize, Sums
    <2>3. CASE in.instruction = "FCVT_S_W"
      <3>1. Negated(in.op1) \in Word /\ in.op1 \in Word
        BY <1>1, NegatedWord
      <3>2. \A w \in Word : w \in Nat /\ w < 2^Width
        BY Sizes DEF Word
      <3>3. computed \in Computed /\ computed.mantissa \in Word
        BY <1>1, <1>2, <2>3, <3>1, <3>2 DEF Computed, Sums
      <3>4. MantissaSize(in.instruction) = 2^Width
        BY <2>3 DEF MantissaSize, Sums
      <3> QED BY <3>2, <3>3, <3>4
    <2>4. CASE in.instruction \notin Sums \cup {"FMUL", "FCVT_S_W"}
      BY <1>1, <1>2, <2>4 DEF Computed, MantissaSize
    <2> QED BY <2>1, <2>2, <2>3, <2>4
  <1> HIDE DEF computed
  <1> QED BY <1>3, <1>4, <1>5 DEF a

\* A bit below the size of a number is its upper half.
LEMMA TopBit ==
  ASSUME NEW n \in Nat, NEW x \in Nat, x < 2^(n + 1)
  PROVE  Bit(x, n) <=> x >= 2^n
  <1> DEFINE p == 2^n
  <1>1. p \in Nat \ {0} /\ 2^(n + 1) = 2 * p
    BY PowerNat, PowerDoubles
  <1> HIDE DEF p
  <1>2. x \div p \in {0, 1}
    BY <1>1, QuotientBelow
  <1>3. x \div p = 1 <=> x >= p
    <2>1. x = (x \div p) * p + (x % p) /\ x % p \in 0 .. p - 1
      BY <1>1, Division
    <2> QED BY <1>1, <1>2, <2>1
  <1>4. Bit(x, n) <=> (x \div p) % 2 = 1
    BY DEF Bit, p
  <1>5. \A y \in {0, 1} : y % 2 = 1 <=> y = 1
    OBVIOUS
  <1>6. Bit(x, n) <=> x >= p
    BY <1>2, <1>3, <1>4, <1>5
  <1> QED BY <1>6 DEF p

\* The leading one that the code looks for.
LEMMA LeadingOneIs ==
  ASSUME NEW n \in Nat, n <= Width + 1, NEW x \in Nat \ {0}, x < 2^n
  PROVE  /\ LeadingOne(x) \in 0 .. n - 1
         /\ 2^LeadingOne(x) <= x /\ x < 2^(LeadingOne(x) + 1)
  <1> DEFINE P(i) == 2^i <= x /\ x < 2^(i + 1)
  <1>1. PICK i \in 0 .. n - 1 : P(i)
    BY LeadingOneFound
  <1>2. n - 1 <= Width /\ Width \in Nat /\ i \in 0 .. Width
    BY FormatAssumption DEF Width
  <1>3. LeadingOne(x) \in 0 .. Width /\ P(LeadingOne(x))
    BY <1>1, <1>2 DEF LeadingOne
  <1>4. LeadingOne(x) = i
    BY <1>1, <1>2, <1>3, LeadingOneUnique
  <1> QED BY <1>1, <1>4

LEMMA RoundUpBoolean ==
  ASSUME NEW m, NEW g \in BOOLEAN, NEW r \in BOOLEAN
  PROVE  RoundUp(m, g, r) \in BOOLEAN
  BY DEF RoundUp

(***************************************************************************)
(* Normalising a sum without carry moves the leading one to bit FracBits   *)
(* and the exponent with it.                                               *)
(***************************************************************************)
LEMMA Normalising ==
  ASSUME NEW m \in Nat \ {0}, m < 2 * FracSize
  PROVE  LET shift == FracBits - LeadingOne(m)
         IN /\ shift \in 0 .. FracBits /\ 2^shift \in Nat \ {0}
            /\ m * 2^shift \in FracSize .. 2 * FracSize - 1
            /\ m < 2 * 2^(FracBits - shift) /\ 2^(FracBits - shift) <= m
  <1> DEFINE i == LeadingOne(m)
             shift == FracBits - i
  <1>1. FracBits \in Nat /\ FracBits + 1 <= Width + 1
    BY FormatAssumption DEF Width
  <1>2. 2^(FracBits + 1) = 2 * FracSize
    BY Sizes
  <1>3. i \in 0 .. FracBits /\ 2^i <= m /\ m < 2^(i + 1)
    BY <1>1, <1>2, LeadingOneIs
  <1> HIDE DEF i
  <1>4. shift \in 0 .. FracBits /\ FracBits - shift = i
    BY <1>1, <1>3
  <1>5. 2^(i + 1) = 2 * 2^i /\ 2^i \in Nat \ {0} /\ 2^shift \in Nat \ {0}
    BY <1>3, <1>4, PowerDoubles, PowerNat
  <1>6. FracSize = 2^i * 2^shift
    BY <1>1, <1>3, PowerLess DEF FracSize
  <1> DEFINE p == 2^i
             q == 2^shift
  <1>7. p * q <= m * q /\ m * q < (2 * p) * q /\ (2 * p) * q = 2 * (p * q) /\ m * q \in Nat
        /\ p * q \in Nat
    <2> HIDE DEF p, q
    <2>1. p \in Nat \ {0} /\ q \in Nat \ {0} /\ p <= m /\ m < 2 * p
      BY <1>3, <1>5 DEF p, q
    <2> QED BY <2>1
  <1> QED BY <1>3, <1>4, <1>5, <1>6, <1>7 DEF i

LEMMA NormalisedSumTypes ==
  ASSUME NEW c \in Computed, c.mantissa < 4 * FracSize
  PROVE  NormalisedSum(c) \in NormalNumber
  <1> DEFINE m == c.mantissa
             carry == Bit(m, FracBits + 1)
             shift == FracBits - LeadingOne(m)
             shifted == IF carry THEN m ELSE m * 2^shift
             mantissa == IF carry THEN shifted \div 2 ELSE shifted
             exp == IF carry THEN (c.exp + 1) % ExpSize ELSE c.exp - shift
             up == RoundUp(mantissa, Bit(shifted, 1), Bit(shifted, 0))
  <1>1. /\ m \in Nat /\ c.exp \in 0 .. Infinite /\ c.sign \in {0, 1}
        /\ FracSize \in Nat \ {0} /\ Infinite \in Nat /\ ExpSize \in Nat \ {0}
        /\ Infinite = ExpSize - 1 /\ FracSize >= 4
    BY Sizes DEF Computed
  <1>2. carry <=> m >= 2 * FracSize
    <2>1. FracBits + 1 \in Nat /\ (FracBits + 1) + 1 = FracBits + 2
      BY FormatAssumption
    <2>2. 2^((FracBits + 1) + 1) = 4 * FracSize /\ 2^(FracBits + 1) = 2 * FracSize
      BY <2>1, Sizes
    <2> QED BY <1>1, <2>1, <2>2, TopBit
  <1>3. Zero \in NormalNumber
    BY <1>1 DEF Zero, NormalNumber
  <1>4. up \in BOOLEAN
    BY RoundUpBoolean DEF Bit
  <1>5. NormalisedSum(c) =
          IF m = 0 \/ (~carry /\ shift > c.exp) THEN Zero
          ELSE [mantissa |-> mantissa, sign |-> c.sign, exp |-> exp, round_up |-> up]
    BY DEF NormalisedSum, ExpSize
  <1>6. ASSUME carry
        PROVE  mantissa \in 0 .. 2 * FracSize - 1 /\ exp \in 0 .. Infinite
    <2>1. (c.exp + 1) % ExpSize \in 0 .. ExpSize - 1
      <3>1. c.exp + 1 \in Int
        BY <1>1
      <3> QED BY ONLY <1>1, <3>1, Division
    <2>2. m \div 2 \in 0 .. 2 * FracSize - 1
      BY <1>1
    <2> QED BY <1>1, <1>6, <2>1, <2>2
  <1>7. ASSUME ~carry, m # 0, ~(shift > c.exp)
        PROVE  mantissa \in 0 .. 2 * FracSize - 1 /\ exp \in 0 .. Infinite
    <2>1. shift \in Nat /\ m * 2^shift \in FracSize .. 2 * FracSize - 1
      BY <1>1, <1>2, <1>7, Normalising, FormatAssumption
    <2> QED BY <1>1, <1>7, <2>1
  <1> HIDE DEF m, carry, shift, mantissa, exp, up
  <1> QED BY <1>1, <1>3, <1>4, <1>5, <1>6, <1>7 DEF NormalNumber

(***************************************************************************)
(* Normalising a product drops FracBits bits, and one more when it carries.*)
(***************************************************************************)
LEMMA NormalisingProduct ==
  ASSUME NEW m \in Nat, m < 4 * (FracSize * FracSize)
  PROVE  LET carry == IF Bit(m, 2 * FracBits + 1) THEN 1 ELSE 0
             unit == 2^(FracBits + carry)
         IN /\ carry \in {0, 1} /\ unit \in Nat \ {0}
            /\ m \div unit \in 0 .. 2 * FracSize - 1
            /\ m >= FracSize * FracSize => m \div unit >= FracSize
            /\ (m \div unit) * unit <= m /\ m < (m \div unit + 1) * unit
  <1> DEFINE P == FracSize
             carry == IF Bit(m, 2 * FracBits + 1) THEN 1 ELSE 0
             unit == 2^(FracBits + carry)
             size == P * P
  <1>1. P \in Nat \ {0} /\ FracBits \in Nat /\ 2^(FracBits + 1) = 2 * P /\ 2^FracBits = P
    BY Sizes, FormatAssumption DEF FracSize
  <1>2. 2^(2 * FracBits + 1) = 2 * size /\ 2^((2 * FracBits + 1) + 1) = 4 * size
        /\ 2 * FracBits + 1 \in Nat /\ size \in Nat \ {0}
    <2>1. /\ 2 * FracBits + 1 = FracBits + (FracBits + 1)
          /\ FracBits + 1 \in Nat /\ 2 * FracBits + 1 \in Nat
      BY <1>1
    <2>2. 2^(2 * FracBits + 1) = P * (2 * P)
      BY <1>1, <2>1, PowerSum
    <2>3. 2^((2 * FracBits + 1) + 1) = 2 * 2^(2 * FracBits + 1)
      BY <2>1, PowerDoubles
    <2> HIDE DEF P
    <2> QED BY <1>1, <2>1, <2>2, <2>3
  <1>3. Bit(m, 2 * FracBits + 1) <=> m >= 2 * size
    BY <1>2, TopBit
  <1>4. (carry = 1 /\ unit = 2 * P /\ m >= 2 * size) \/ (carry = 0 /\ unit = P /\ m < 2 * size)
    <2>1. CASE m >= 2 * size
      BY <1>1, <1>3, <2>1
    <2>2. CASE ~(m >= 2 * size)
      <3>1. carry = 0 /\ FracBits + 0 = FracBits
        BY <1>1, <1>3, <2>2
      <3> QED BY <1>1, <1>2, <2>2, <3>1
    <2> QED BY <2>1, <2>2
  <1>5. unit \in Nat \ {0} /\ carry \in {0, 1}
    BY <1>1, <1>4
  <1> HIDE DEF P, carry, unit, size
  <1>6. m < (2 * P) * unit /\ (m >= size => m >= P * unit)
    <2>1. CASE carry = 1
      <3>1. (2 * P) * unit = 4 * size /\ P * unit = 2 * size
        BY <1>1, <1>4, <2>1 DEF size
      <3> QED BY <1>4, <2>1, <3>1 DEF size, P
    <2>2. CASE carry = 0
      <3>1. (2 * P) * unit = 2 * size /\ P * unit = size
        BY <1>1, <1>4, <2>2 DEF size
      <3> QED BY <1>4, <2>2, <3>1
    <2> QED BY <1>5, <2>1, <2>2
  <1> DEFINE q == m \div unit
  <1>7. q \in 0 .. 2 * P - 1
    <2>1. m \in Nat /\ unit \in Nat \ {0} /\ 2 * P \in Nat /\ m < (2 * P) * unit
      BY <1>1, <1>5, <1>6
    <2> QED BY ONLY <2>1, QuotientBelow
  <1>8. q * unit <= m /\ m < (q + 1) * unit
    <2>1. m = q * unit + (m % unit) /\ m % unit \in 0 .. unit - 1 /\ q \in Int
      <3>1. m \in Int /\ unit \in Nat \ {0}
        BY <1>5
      <3> QED BY ONLY <3>1, Division
    <2> HIDE DEF q
    <2>2. (q + 1) * unit = q * unit + unit /\ q * unit \in Int
      BY <1>5, <2>1
    <2> QED BY <1>5, <2>1, <2>2
  <1>9. m >= size => q >= P
    <2> SUFFICES ASSUME m >= size PROVE q >= P
      OBVIOUS
    <2> HIDE DEF q
    <2>1. q + 1 \in Int /\ P * unit \in Int /\ (q + 1) * unit \in Int
      BY <1>1, <1>5, <1>7
    <2>2. P * unit < (q + 1) * unit
      BY <1>6, <1>8, <2>1
    <2>3. P < q + 1
      BY <1>1, <1>5, <2>1, <2>2, ProductLess
    <2> QED BY <1>1, <1>7, <2>3
  <1> QED BY <1>5, <1>7, <1>8, <1>9 DEF P, carry, unit, size

LEMMA NormalisedProductTypes ==
  ASSUME NEW c \in Computed, c.mantissa < 4 * (FracSize * FracSize)
  PROVE  NormalisedProduct(c) \in NormalNumber
  <1> DEFINE m == c.mantissa
             carry == IF Bit(m, 2 * FracBits + 1) THEN 1 ELSE 0
             dropped == FracBits + carry
             mantissa == m \div 2^dropped
             exp == (c.exp + carry) % ExpSize
             up == RoundUp(mantissa, Bit(m, dropped - 1), m % 2^(dropped - 1) # 0)
  <1>1. m \in Nat /\ c.exp \in Nat /\ c.sign \in {0, 1}
    BY Sizes DEF Computed
  <1>2. mantissa \in 0 .. 2 * FracSize - 1 /\ carry \in {0, 1}
    BY <1>1, NormalisingProduct
  <1>3. exp \in 0 .. Infinite
    <2> HIDE DEF carry
    <2>1. c.exp + carry \in Int /\ ExpSize \in Nat \ {0}
      BY <1>1, <1>2, Sizes
    <2>2. (c.exp + carry) % ExpSize \in 0 .. ExpSize - 1
      BY ONLY <2>1, Division
    <2> QED BY <2>2, Sizes
  <1>4. up \in BOOLEAN
    BY RoundUpBoolean DEF Bit
  <1>5. NormalisedProduct(c) = [mantissa |-> mantissa, sign |-> c.sign, exp |-> exp,
                                round_up |-> up]
    BY DEF NormalisedProduct, ExpSize
  <1> HIDE DEF m, carry, dropped, mantissa, exp, up
  <1> QED BY <1>1, <1>2, <1>3, <1>4, <1>5 DEF NormalNumber

(***************************************************************************)
(* Normalising an integer moves its leading one to bit FracBits, and what  *)
(* falls below is dropped.                                                 *)
(***************************************************************************)
LEMMA NormalisingInteger ==
  ASSUME NEW m \in Nat \ {0}, m < 2^Width
  PROVE  LET one == LeadingOne(m)
             mantissa == IF one < FracBits THEN m * 2^(FracBits - one)
                                           ELSE m \div 2^(one - FracBits)
         IN /\ one \in 0 .. Width - 1 /\ 2^one <= m /\ m < 2^(one + 1)
            /\ mantissa \in FracSize .. 2 * FracSize - 1
            /\ one >= FracBits =>
                 /\ mantissa * 2^(one - FracBits) <= m
                 /\ m < (mantissa + 1) * 2^(one - FracBits)
  <1> DEFINE one == LeadingOne(m)
             mantissa == IF one < FracBits THEN m * 2^(FracBits - one)
                                           ELSE m \div 2^(one - FracBits)
             P == FracSize
  <1>1. FracBits \in Nat /\ Width \in Nat /\ P \in Nat \ {0}
        /\ 2^(FracBits + 1) = 2 * P /\ 2^FracBits = P
    BY Sizes, FormatAssumption DEF Width, FracSize
  <1>2. one \in 0 .. Width - 1 /\ 2^one <= m /\ m < 2^(one + 1)
    <2>1. Width <= Width + 1
      BY <1>1
    <2> QED BY <1>1, <2>1, LeadingOneIs
  <1>3. CASE one < FracBits
    <2>1. m < 2 * FracSize
      <3>1. one + 1 \in Nat /\ one + 1 <= FracBits
        BY <1>1, <1>2, <1>3
      <3>2. 2^(one + 1) <= P /\ 2^(one + 1) \in Nat
        BY <1>1, <3>1, PowerLess, PowerNat
      <3> QED BY <1>1, <1>2, <3>2
    <2>2. mantissa \in FracSize .. 2 * FracSize - 1
      BY <1>3, <2>1, Normalising
    <2> HIDE DEF mantissa, one
    <2> QED BY <1>1, <1>2, <1>3, <2>2 DEF mantissa, one
  <1>4. CASE ~(one < FracBits)
    <2> DEFINE unit == 2^(one - FracBits)
               q == m \div unit
               p == 2^one
    <2>1. unit \in Nat \ {0} /\ p = P * unit /\ 2^(one + 1) = 2 * p
      <3>1. one \in Nat /\ one - FracBits \in Nat /\ FracBits <= one
        BY <1>1, <1>2, <1>4
      <3>2. unit \in Nat \ {0} /\ 2^(one + 1) = 2 * p /\ p = P * unit
        BY <1>1, <3>1, PowerNat, PowerDoubles, PowerLess
      <3> QED BY <3>2
    <2>2. m < 2 * p /\ p <= m
      BY <1>2, <2>1
    <2> HIDE DEF P, unit, p, one
    <2>3. m < (2 * P) * unit /\ P * unit <= m
      BY <1>1, <2>1, <2>2
    <2>4. q \in 0 .. 2 * P - 1
      <3>1. m \in Nat /\ unit \in Nat \ {0} /\ 2 * P \in Nat /\ m < (2 * P) * unit
        BY <1>1, <2>1, <2>3
      <3> QED BY ONLY <3>1, QuotientBelow
    <2>5. m = q * unit + (m % unit) /\ m % unit \in 0 .. unit - 1
      BY <2>1, Division
    <2> HIDE DEF q
    <2>6. q * unit <= m /\ m < (q + 1) * unit
      <3>1. (q + 1) * unit = q * unit + unit /\ q * unit \in Int
        BY <2>1, <2>4
      <3> QED BY <2>1, <2>5, <3>1
    <2>7. P <= q
      <3>1. q + 1 \in Int /\ P * unit \in Int /\ (q + 1) * unit \in Int
        BY <1>1, <2>1, <2>4
      <3>2. P * unit < (q + 1) * unit
        BY <2>3, <2>6, <3>1
      <3>3. P < q + 1
        BY <1>1, <2>1, <3>1, <3>2, ProductLess
      <3> QED BY <1>1, <2>4, <3>3
    <2>8. mantissa = q
      BY <1>4 DEF q, unit
    <2>9. mantissa \in P .. 2 * P - 1 /\ mantissa * unit <= m /\ m < (mantissa + 1) * unit
      BY <2>4, <2>6, <2>7, <2>8
    <2> HIDE DEF mantissa
    <2> QED BY <1>2, <2>9 DEF P, unit, one, mantissa
  <1> QED BY <1>3, <1>4

LEMMA NormalisedIntegerTypes ==
  ASSUME NEW c \in Computed, c.mantissa < 2^Width
  PROVE  NormalisedInteger(c) \in NormalNumber
  <1> DEFINE m == c.mantissa
             one == LeadingOne(m)
             mantissa == IF one < FracBits THEN m * 2^(FracBits - one)
                                           ELSE m \div 2^(one - FracBits)
             exp == (Bias + one) % ExpSize
  <1>1. m \in Nat /\ c.sign \in {0, 1} /\ FracSize \in Nat \ {0} /\ Infinite \in Nat
    BY Sizes DEF Computed
  <1>2. Zero \in NormalNumber
    BY <1>1 DEF Zero, NormalNumber
  <1>3. ASSUME m # 0
        PROVE  mantissa \in 0 .. 2 * FracSize - 1 /\ exp \in 0 .. Infinite
    <2>1. one \in 0 .. Width - 1 /\ mantissa \in FracSize .. 2 * FracSize - 1
      BY <1>1, <1>3, NormalisingInteger
    <2>2. Bias + one \in Int /\ ExpSize \in Nat \ {0}
      BY <2>1, Sizes, FormatAssumption DEF Width
    <2>3. (Bias + one) % ExpSize \in 0 .. ExpSize - 1
      BY ONLY <2>2, Division
    <2> HIDE DEF mantissa, one
    <2> QED BY <1>1, <2>1, <2>3, Sizes
  <1>4. NormalisedInteger(c) =
          IF m = 0 THEN Zero
          ELSE [mantissa |-> mantissa, exp |-> exp, sign |-> c.sign, round_up |-> FALSE]
    BY DEF NormalisedInteger, ExpSize
  <1> HIDE DEF m, one, mantissa, exp
  <1>5. CASE m = 0
    BY <1>2, <1>4, <1>5
  <1>6. CASE m # 0
    <2>1. NormalisedInteger(c)
            = [mantissa |-> mantissa, exp |-> exp, sign |-> c.sign, round_up |-> FALSE]
      BY <1>4, <1>6, Zenon
    <2>2. mantissa \in 0 .. 2 * FracSize - 1 /\ exp \in 0 .. Infinite /\ c.sign \in {0, 1}
      BY <1>1, <1>3, <1>6, Zenon
    <2> QED BY ONLY <2>1, <2>2 DEF NormalNumber
  <1> QED BY <1>5, <1>6

LEMMA NormalisedTypes ==
  ASSUME NEW o, o.operation \in Operations, o.computed \in Computed,
         o.computed.mantissa < MantissaSize(o.operation.instruction)
  PROVE  /\ Normalised(o).operation = o.operation
         /\ Normalised(o).normalised \in NormalNumber
  <1> DEFINE i == o.operation.instruction
             c == o.computed
             n == Normalised(o).normalised
  <1>1. i \in Instruction
    BY DEF Operations
  <1>2. /\ Normalised(o).operation = o.operation
        /\ n = CASE i \in Sums -> NormalisedSum(c)
                 [] i = "FMUL" -> NormalisedProduct(c)
                 [] i = "FCVT_S_W" -> NormalisedInteger(c)
                 [] OTHER -> Zero
    BY DEF Normalised, Sums
  <1> HIDE DEF n
  <1>3. CASE i \in Sums
    <2>1. c.mantissa < 4 * FracSize
      BY <1>3 DEF MantissaSize, Sums
    <2> QED BY <1>2, <1>3, <2>1, NormalisedSumTypes DEF Sums, n
  <1>4. CASE i = "FMUL"
    <2>1. c.mantissa < 4 * (FracSize * FracSize)
      BY <1>4 DEF MantissaSize, Sums
    <2> QED BY <1>2, <1>4, <2>1, NormalisedProductTypes DEF Sums, n
  <1>5. CASE i = "FCVT_S_W"
    <2>1. c.mantissa < 2^Width
      BY <1>5 DEF MantissaSize, Sums
    <2> QED BY <1>2, <1>5, <2>1, NormalisedIntegerTypes DEF Sums, n
  <1>6. CASE i \notin Sums \cup {"FMUL", "FCVT_S_W"}
    <2>1. Zero \in NormalNumber
      BY Sizes DEF Zero, NormalNumber
    <2> QED BY <1>2, <1>6, <2>1 DEF n
  <1> QED BY <1>1, <1>3, <1>4, <1>5, <1>6

(***************************************************************************)
(* Rounding and composing: without rounding the fields are those of the    *)
(* normalised number, but for zero and infinity.                           *)
(***************************************************************************)
ComposedFraction(n) == IF n.exp \in {0, Infinite} THEN 0 ELSE n.mantissa % FracSize

LEMMA RoundedTypes ==
  ASSUME NEW n \in NormalNumber
  PROVE  /\ Rounded(n) \in NormalNumber
         /\ ~n.round_up => Rounded(n) = n
  <1> DEFINE up == (n.mantissa + 1) % 2^(FracBits + 1)
             exp == (n.exp + 1) % 2^ExpBits
  <1>1. /\ n.mantissa \in Nat /\ n.exp \in Nat /\ FracSize \in Nat \ {0}
        /\ ExpSize \in Nat \ {0} /\ Infinite = ExpSize - 1
        /\ 2^(FracBits + 1) = 2 * FracSize /\ 2^ExpBits = ExpSize
    BY Sizes DEF NormalNumber, ExpSize
  <1>2. up \in 0 .. 2 * FracSize - 1 /\ exp \in 0 .. Infinite
    <2>1. n.mantissa + 1 \in Int /\ 2 * FracSize \in Nat \ {0} /\ n.exp + 1 \in Int
      BY <1>1
    <2>2. (n.mantissa + 1) % (2 * FracSize) \in 0 .. 2 * FracSize - 1
          /\ (n.exp + 1) % ExpSize \in 0 .. ExpSize - 1
      BY ONLY <1>1, <2>1, Division
    <2> QED BY <1>1, <2>2
  <1>3. Rounded(n) = IF ~n.round_up THEN n
                     ELSE IF Bit(up, FracBits)
                     THEN [n EXCEPT !.mantissa = up \div 2, !.exp = exp]
                     ELSE [n EXCEPT !.mantissa = up]
    BY DEF Rounded
  <1> HIDE DEF up, exp
  <1>4. up \div 2 \in 0 .. 2 * FracSize - 1
    BY <1>1, <1>2
  <1> QED BY <1>2, <1>3, <1>4 DEF NormalNumber

LEMMA ComposedFields ==
  ASSUME NEW n \in NormalNumber
  PROVE  LET x == Composed(n)
             r == Rounded(n)
         IN /\ x \in Word /\ Sign(x) = r.sign /\ Exponent(x) = r.exp
            /\ Fraction(x) = ComposedFraction(r)
  <1> DEFINE r == Rounded(n)
             f == ComposedFraction(r)
  <1>1. r \in NormalNumber
    BY RoundedTypes
  <1> HIDE DEF r
  <1>2. r.sign \in {0, 1} /\ r.exp \in 0 .. Infinite /\ r.mantissa \in Int
        /\ FracSize \in Nat \ {0}
    BY <1>1, Sizes DEF NormalNumber
  <1>3. f \in 0 .. FracSize - 1
    <2>1. r.mantissa % FracSize \in 0 .. FracSize - 1
      BY ONLY <1>2, Division
    <2> QED BY <1>2, <2>1 DEF ComposedFraction
  <1>4. Composed(n) = Composition(r.sign, r.exp, f)
    BY DEF Composed, Composition, ComposedFraction, FracSize, ExpSize, r
  <1> HIDE DEF f
  <1>5. LET x == Composition(r.sign, r.exp, f)
        IN x \in Word /\ Sign(x) = r.sign /\ Exponent(x) = r.exp /\ Fraction(x) = f
    BY <1>2, <1>3, Composing
  <1> QED BY <1>4, <1>5 DEF r, f

-----------------------------------------------------------------------------
(***************************************************************************)
(* The pipeline.  PipeTypes bounds what the registers hold at any time;    *)
(* PipeHolds says what they hold of the operation at the inputs, stage by  *)
(* stage as it moves through.                                              *)
(***************************************************************************)
PipeTypes ==
  /\ operation \in Operation /\ valid \in 0 .. 4
  /\ s1 \in Operations
  /\ \E in \in Operations : s2 = Aligned(in)
  /\ s3.operation \in Operations /\ s3.computed \in Computed
  /\ s3.computed.mantissa < MantissaSize(s3.operation.instruction)
  /\ s3.int_result \in Word
  /\ s4.operation \in Operations /\ s4.normalised \in NormalNumber

PipeHolds ==
  /\ valid >= 1 => s1 = operation
  /\ valid >= 2 => s2 = Aligned(operation)
  /\ valid >= 3 => s3 = Operated(Aligned(operation))
  /\ valid >= 4 => s4 = Normalised(Operated(Aligned(operation)))

PipeInv == PipeTypes /\ PipeHolds

LEMMA AnOperation == Operation \subseteq Operations
  BY FormatAssumption DEF Operations

LEMMA PipeStarts == Init => PipeInv
  <1> SUFFICES ASSUME Init PROVE PipeInv
    OBVIOUS
  <1>1. ResetOperation \in Operations /\ ResetOperation.instruction \in Sums
    BY Sizes DEF ResetOperation, Operations, Instruction, Word, Sums
  <1>2. s1 = ResetOperation /\ s2 = Aligned(s1) /\ valid = 0 /\ operation \in Operation
        /\ s3 = [operation |-> s1, int_result |-> 0,
                 computed |-> [mantissa |-> 0, sign |-> 0, exp |-> 0]]
        /\ s4 = [operation |-> s1, normalised |-> Zero]
    BY DEF Init
  <1>3. 0 \in Word /\ Zero \in NormalNumber
    BY Sizes DEF Word, Zero, NormalNumber
  <1>4. s3.computed \in Computed /\ s3.computed.mantissa = 0
    BY <1>2, Sizes DEF Computed
  <1>5. s3.computed.mantissa < MantissaSize(s3.operation.instruction)
    <2>1. s3.operation.instruction = s1.instruction
      BY <1>2
    <2>2. MantissaSize(s1.instruction) = 4 * FracSize
      <3>1. \A i \in Sums : MantissaSize(i) = 4 * FracSize
        BY DEF MantissaSize, Sums
      <3> QED BY <1>1, <1>2, <3>1
    <2> QED BY <1>4, <2>1, <2>2, Sizes
  <1>6. PipeTypes
    BY <1>1, <1>2, <1>3, <1>4, <1>5 DEF PipeTypes
  <1>7. PipeHolds
    BY <1>2 DEF PipeHolds
  <1> QED BY <1>6, <1>7 DEF PipeInv

LEMMA PipeMoves == PipeInv /\ [Edge]_vars => PipeInv'
  <1> SUFFICES ASSUME PipeInv, [Edge]_vars PROVE PipeInv'
    OBVIOUS
  <1>1. CASE Edge
    <2>1. PICK in \in Operations : s2 = Aligned(in)
      BY DEF PipeInv, PipeTypes
    <2>2. /\ s1' = operation /\ s2' = Aligned(s1) /\ s3' = Operated(s2)
          /\ s4' = Normalised(s3) /\ operation' = operation
          /\ valid' = IF valid = 4 THEN 4 ELSE valid + 1
      BY <1>1 DEF Edge
    <2>3. valid \in 0 .. 4 /\ valid' \in 0 .. 4 /\ operation \in Operation
      BY <2>2 DEF PipeInv, PipeTypes
    <2>4. PipeTypes'
      <3>1. s1' \in Operations
        BY <2>2, <2>3, AnOperation
      <3>2. \E i \in Operations : s2' = Aligned(i)
        BY <2>2 DEF PipeInv, PipeTypes
      <3>3. /\ s3'.operation \in Operations /\ s3'.computed \in Computed
            /\ s3'.computed.mantissa < MantissaSize(s3'.operation.instruction)
            /\ s3'.int_result \in Word
        BY <2>1, <2>2, OperatedTypes
      <3>4. s4'.operation \in Operations /\ s4'.normalised \in NormalNumber
        <4>1. /\ s3.operation \in Operations /\ s3.computed \in Computed
              /\ s3.computed.mantissa < MantissaSize(s3.operation.instruction)
          BY DEF PipeInv, PipeTypes
        <4>2. Normalised(s3).operation = s3.operation
              /\ Normalised(s3).normalised \in NormalNumber
          BY <4>1, NormalisedTypes
        <4> QED BY <2>2, <4>1, <4>2
      <3> QED BY <2>2, <2>3, <3>1, <3>2, <3>3, <3>4 DEF PipeTypes
    <2>5. PipeHolds'
      <3>1. valid >= 1 => s1 = operation
        BY DEF PipeInv, PipeHolds
      <3>2. valid >= 2 => s2 = Aligned(operation)
        BY DEF PipeInv, PipeHolds
      <3>3. valid >= 3 => s3 = Operated(Aligned(operation))
        BY DEF PipeInv, PipeHolds
      <3>4. \A k \in 1 .. 4 : valid' >= k => valid >= k - 1
        BY <2>2, <2>3
      <3>5. /\ valid' >= 2 => valid >= 1
            /\ valid' >= 3 => valid >= 2
            /\ valid' >= 4 => valid >= 3
        BY <2>2, <2>3
      <3> QED BY <2>2, <3>1, <3>2, <3>3, <3>5 DEF PipeHolds
    <2> QED BY <2>4, <2>5 DEF PipeInv
  <1>2. CASE UNCHANGED vars
    BY <1>2 DEF vars, PipeInv, PipeTypes, PipeHolds
  <1> QED BY <1>1, <1>2

\* The registers hold their types, and the operation stage by stage.
LEMMA Pipelined == Spec => []PipeInv
  <1>1. Init => PipeInv
    BY PipeStarts
  <1>2. PipeInv /\ [Edge]_vars => PipeInv'
    BY PipeMoves
  <1> QED BY <1>1, <1>2, PTL DEF Spec

\* Inverting or clearing the sign leaves the other fields.
LEMMA OtherSign ==
  ASSUME NEW x \in Word, NEW s \in {0, 1}
  PROVE  LET y == s * 2^(Width - 1) + Magnitude(x)
         IN /\ y \in Word /\ Sign(y) = s /\ Exponent(y) = Exponent(x)
            /\ Fraction(y) = Fraction(x)
  <1> DEFINE e == Exponent(x)
             f == Fraction(x)
  <1>1. e \in 0 .. Infinite /\ f \in 0 .. FracSize - 1
        /\ Magnitude(x) = e * FracSize + f
    BY Fields
  <1>2. 2^(Width - 1) = ExpSize * FracSize /\ ExpSize \in Nat /\ FracSize \in Nat
    BY Sizes
  <1> HIDE DEF e, f
  <1>3. s * (ExpSize * FracSize) + (e * FracSize + f) = Composition(s, e, f)
    <2>1. s \in Int /\ e \in Int /\ f \in Int
      BY <1>1
    <2>2. \A a, b, p, q \in Int : a * (q * p) + b * p = (a * q + b) * p
      OBVIOUS
    <2>3. s * (ExpSize * FracSize) + e * FracSize = (s * ExpSize + e) * FracSize
      BY <1>2, <2>1, <2>2
    <2> DEFINE u == s * (ExpSize * FracSize)
               v == e * FracSize
    <2>4. u \in Int /\ v \in Int
      BY <1>2, <2>1
    <2> HIDE DEF u, v
    <2>5. u + (v + f) = (u + v) + f
      BY <2>1, <2>4
    <2> QED BY <2>3, <2>5 DEF u, v, Composition
  <1>4. LET y == Composition(s, e, f)
        IN y \in Word /\ Sign(y) = s /\ Exponent(y) = e /\ Fraction(y) = f
    BY <1>1, Composing
  <1> QED BY <1>1, <1>2, <1>3, <1>4 DEF e, f

LEMMA Flags == \A b \in BOOLEAN : Flag(b) \in {0, 1}
  BY DEF Flag

LEMMA AResult == PipeTypes => result \in Word
  <1> SUFFICES ASSUME PipeTypes PROVE result \in Word
    OBVIOUS
  <1> DEFINE op == s4.operation
             i == op.instruction
             negative == (1 - Sign(op.op1)) * 2^(Width - 1) + Magnitude(op.op1)
  <1>1. /\ op.op1 \in Word /\ op.op2 \in Word /\ i \in Instruction
        /\ s4.normalised \in NormalNumber /\ s3.int_result \in Word
    BY DEF PipeTypes, Operations
  <1>2. Composed(s4.normalised) \in Word
    BY <1>1, ComposedFields
  <1>3. negative \in Word
    <2>1. 1 - Sign(op.op1) \in {0, 1}
      BY <1>1, Fields
    <2> QED BY <1>1, <2>1, OtherSign
  <1>4. Magnitude(op.op1) \in Word
    <2>1. Magnitude(op.op1) \in 0 .. ExpSize * FracSize - 1 /\ ExpSize * FracSize \in Nat
          /\ 2^Width = 2 * (ExpSize * FracSize)
      BY <1>1, Fields, Sizes
    <2> QED BY <2>1 DEF Word
  <1>5. {0, 1} \subseteq Word
    BY Sizes DEF Word
  <1>6. /\ Flag(Less(op)) \in {0, 1}
        /\ Flag(BothZero(op) \/ op.op1 = op.op2) \in {0, 1}
    BY DEF Flag
  <1>7. result = CASE i \in {"FADD", "FSUB", "FMUL", "FCVT_S_W"} -> Composed(s4.normalised)
       [] i = "FCVT_W_S" -> s3.int_result
       [] i = "FNEG" -> negative
       [] i = "FABS" -> Magnitude(op.op1)
       [] i = "FEQ" -> Flag(BothZero(op) \/ op.op1 = op.op2)
       [] i = "FSLT" -> Flag(Less(op))
       [] i = "FMIN" -> 0
    BY DEF result
  <1> HIDE DEF op, i, negative
  <1> QED BY <1>1, <1>2, <1>3, <1>4, <1>5, <1>6, <1>7 DEF Instruction

(***************************************************************************)
(* The widths of the registers and of the result: SumTypes and the lemmas  *)
(* after it for each stage, for every operation in any of them.            *)
(***************************************************************************)
THEOREM TypeCorrect == Spec => []TypeOK
  <1>1. PipeInv => TypeOK
    <2> SUFFICES ASSUME PipeInv PROVE TypeOK
      OBVIOUS
    <2>1. PipeTypes
      BY DEF PipeInv
    <2>2. s2.exp_diff \in 0 .. Infinite /\ s2.aligned_exp \in 0 .. Infinite
      BY <2>1, AlignedTypes DEF PipeTypes
    <2>3. s3.computed.mantissa \in 0 .. 2^Larger(2 * FracBits + 2, Width) - 1
      <3> DEFINE size == MantissaSize(s3.operation.instruction)
                 most == 2^Larger(2 * FracBits + 2, Width)
      <3>1. s3.operation.instruction \in Instruction /\ s3.computed.mantissa \in Nat
            /\ s3.computed.mantissa < size
        BY <2>1 DEF PipeTypes, Operations, Computed
      <3>2. size \in Nat /\ size <= most
        BY <3>1, LargestMantissa
      <3>3. most \in Int
        <4>1. Larger(2 * FracBits + 2, Width) \in Nat
          BY FormatAssumption DEF Larger, Width
        <4> QED BY <4>1, PowerNat
      <3> HIDE DEF size, most
      <3>4. s3.computed.mantissa \in 0 .. most - 1
        BY <3>1, <3>2, <3>3
      <3> QED BY <3>4 DEF most
    <2>4. /\ s3.computed.exp \in 0 .. Infinite /\ s3.int_result \in Word
          /\ s4.normalised.mantissa \in 0 .. 2^(FracBits + 1) - 1
          /\ s4.normalised.exp \in 0 .. Infinite
      BY <2>1, Sizes DEF PipeTypes, Computed, NormalNumber
    <2> QED BY <2>1, <2>2, <2>3, <2>4, AResult DEF TypeOK, PipeTypes
  <1> QED BY <1>1, Pipelined, PTL

-----------------------------------------------------------------------------
(***************************************************************************)
(* What words mean.  Size is the absolute value of a number.               *)
(***************************************************************************)
Size(x) == IF Exponent(x) = 0 THEN 0 ELSE Significand(x) * Unit(x)

LEMMA Units ==
  ASSUME NEW x \in Word
  PROVE  /\ Unit(x) \in Nat \ {0} /\ Size(x) \in Nat
         /\ Exponent(x) # 0 => Size(x) = Significand(x) * Unit(x) /\ Size(x) > 0
         /\ Exponent(x) = 0 => Size(x) = 0
  <1>1. Exponent(x) \in Nat /\ Significand(x) \in Nat \ {0}
    BY Fields, Significands, Sizes
  <1>2. Unit(x) \in Nat \ {0}
    <2>1. CASE Exponent(x) = 0
      BY <2>1 DEF Unit
    <2>2. CASE Exponent(x) # 0
      <3>1. Exponent(x) - 1 \in Nat
        BY <1>1, <2>2
      <3> QED BY <2>2, <3>1, PowerNat DEF Unit
    <2> QED BY <2>1, <2>2
  <1>3. Significand(x) * Unit(x) \in Nat \ {0}
    BY <1>1, <1>2
  <1> QED BY <1>2, <1>3 DEF Size

LEMMA Values ==
  ASSUME NEW x \in Word
  PROVE  /\ Value(x) \in Int
         /\ Sign(x) = 0 => Value(x) = Size(x)
         /\ Sign(x) = 1 => Value(x) = -Size(x)
         /\ Abs(Value(x)) = Size(x)
  <1>1. Sign(x) \in {0, 1} /\ Significand(x) \in Nat /\ Unit(x) \in Nat /\ Size(x) \in Nat
    BY Fields, Significands, Sizes, Units
  <1>2. Exponent(x) # 0 => Value(x) = (1 - 2 * Sign(x)) * Significand(x) * Unit(x)
    BY DEF Value
  <1>3. Sign(x) = 0 => Value(x) = Size(x)
    <2> SUFFICES ASSUME Sign(x) = 0 PROVE Value(x) = Size(x)
      OBVIOUS
    <2>1. 1 - 2 * Sign(x) = 1
      OBVIOUS
    <2>2. Exponent(x) # 0 => Value(x) = 1 * Significand(x) * Unit(x)
      BY <1>2, <2>1, Zenon
    <2> QED BY <1>1, <2>2 DEF Value, Size
  <1>4. Sign(x) = 1 => Value(x) = -Size(x)
    <2> SUFFICES ASSUME Sign(x) = 1 PROVE Value(x) = -Size(x)
      OBVIOUS
    <2>1. 1 - 2 * Sign(x) = -1
      OBVIOUS
    <2>2. Exponent(x) # 0 => Value(x) = (-1) * Significand(x) * Unit(x)
      BY <1>2, <2>1, Zenon
    <2>3. \A a, b \in Nat : (-1) * a * b = -(a * b)
      OBVIOUS
    <2> QED BY <1>1, <2>2, <2>3 DEF Value, Size
  <1> QED BY <1>1, <1>3, <1>4 DEF Abs

\* A word is its sign and magnitude, a magnitude its exponent and fraction.
LEMMA SameWord ==
  ASSUME NEW x \in Word, NEW y \in Word
  PROVE  /\ x = y <=> Sign(x) = Sign(y) /\ Magnitude(x) = Magnitude(y)
         /\ Magnitude(x) = Magnitude(y)
              => Exponent(x) = Exponent(y) /\ Fraction(x) = Fraction(y)
         /\ Exponent(x) < Exponent(y) => Magnitude(x) < Magnitude(y)
  <1> DEFINE P == FracSize
             e1 == Exponent(x)
             e2 == Exponent(y)
  <1>1. /\ P \in Nat \ {0} /\ e1 \in Nat /\ e2 \in Nat
        /\ Fraction(x) \in 0 .. P - 1 /\ Fraction(y) \in 0 .. P - 1
        /\ Magnitude(x) = e1 * P + Fraction(x) /\ Magnitude(y) = e2 * P + Fraction(y)
    BY Fields, Sizes
  <1>2. x = y <=> Sign(x) = Sign(y) /\ Magnitude(x) = Magnitude(y)
    BY Fields
  <1> HIDE DEF P, e1, e2
  <1>3. ASSUME NEW a \in Nat, NEW b \in Nat, a < b PROVE a * P + P <= b * P
    <2>1. (a + 1) * P <= b * P
      BY <1>1, <1>3, ProductLess
    <2>2. (a + 1) * P = a * P + P
      BY <1>1
    <2> QED BY <2>1, <2>2
  <1>4. e1 * P \in Int /\ e2 * P \in Int
    BY <1>1
  <1>5. e1 < e2 => Magnitude(x) < Magnitude(y)
    BY <1>1, <1>3, <1>4
  <1>6. e2 < e1 => Magnitude(y) < Magnitude(x)
    BY <1>1, <1>3, <1>4
  <1>7. Magnitude(x) = Magnitude(y) => e1 = e2
    <2>1. Magnitude(x) \in Int /\ Magnitude(y) \in Int
      BY <1>1, <1>4
    <2> QED BY <1>1, <1>5, <1>6, <2>1
  <1>8. Magnitude(x) = Magnitude(y) => Fraction(x) = Fraction(y)
    BY <1>1, <1>4, <1>7
  <1> QED BY <1>2, <1>5, <1>7, <1>8 DEF e1, e2

\* A number with a larger exponent is larger.
LEMMA LargerExponent ==
  ASSUME NEW x \in Word, NEW y \in Word, Exponent(x) < Exponent(y)
  PROVE  Size(x) < Size(y)
  <1>1. /\ Size(x) \in Nat /\ Size(y) \in Nat /\ Size(y) > 0
        /\ Size(y) = Significand(y) * Unit(y)
        /\ Exponent(x) \in Nat /\ Exponent(y) \in Nat /\ Exponent(y) # 0
    <2>1. Exponent(x) \in Nat /\ Exponent(y) \in Nat
      BY Fields, Sizes
    <2>2. Exponent(y) # 0
      BY <2>1
    <2> QED BY <2>1, <2>2, Units
  <1>2. CASE Exponent(x) = 0
    BY <1>1, <1>2, Units
  <1>3. CASE Exponent(x) # 0
    <2> DEFINE m1 == Significand(x)
               m2 == Significand(y)
               u1 == Unit(x)
               u2 == Unit(y)
               P == FracSize
    <2>1. Size(x) = m1 * u1 /\ Size(y) = m2 * u2
      BY <1>1, <1>3, Units
    <2>2. m1 \in Nat /\ m2 \in Nat /\ m1 < 2 * P /\ P <= m2 /\ P \in Nat
      BY Significands, Sizes
    <2>3. u1 \in Nat \ {0} /\ u2 \in Nat \ {0} /\ 2 * u1 <= u2
      <3>1. Exponent(x) - 1 \in Nat /\ Exponent(y) - 1 \in Nat
            /\ Exponent(x) - 1 < Exponent(y) - 1
        BY <1>1, <1>3
      <3>2. u1 = 2^(Exponent(x) - 1) /\ u2 = 2^(Exponent(y) - 1)
        BY <1>1, <1>3 DEF Unit
      <3> QED BY <3>1, <3>2, PowerLess, Units
    <2> HIDE DEF m1, m2, u1, u2, P
    <2>4. m1 * u1 < (2 * P) * u1 /\ (2 * P) * u1 = P * (2 * u1)
      BY <2>2, <2>3
    <2>5. P * (2 * u1) <= P * u2 /\ P * u2 <= m2 * u2
      BY <2>2, <2>3
    <2>6. m1 * u1 \in Int /\ (2 * P) * u1 \in Int /\ P * u2 \in Int /\ m2 * u2 \in Int
      BY <2>2, <2>3
    <2> QED BY <2>1, <2>4, <2>5, <2>6
  <1> QED BY <1>2, <1>3

\* Numbers are ordered by their magnitude fields.
LEMMA Ordered ==
  ASSUME NEW x \in Word, NEW y \in Word, Number(x), Number(y)
  PROVE  /\ Magnitude(x) < Magnitude(y) <=> Size(x) < Size(y)
         /\ Magnitude(x) = Magnitude(y) <=> Size(x) = Size(y)
         /\ Magnitude(x) = 0 <=> Size(x) = 0
  <1>1. ASSUME NEW a \in Word, NEW b \in Word, Number(a), Number(b),
               Magnitude(a) < Magnitude(b)
        PROVE  Size(a) < Size(b)
    <2>1. /\ Exponent(a) \in Nat /\ Exponent(b) \in Nat /\ Fraction(a) \in Nat
          /\ Fraction(b) \in Nat /\ Magnitude(a) \in Nat /\ Magnitude(b) \in Nat
      BY Fields, Sizes
    <2>2. ~(Exponent(b) < Exponent(a))
      BY <1>1, <2>1, SameWord
    <2>3. CASE Exponent(a) < Exponent(b)
      BY <2>3, LargerExponent
    <2>4. CASE Exponent(a) = Exponent(b)
      <3>1. Fraction(a) < Fraction(b)
        BY <1>1, <2>1, <2>4, Fields, Sizes
      <3>2. Exponent(a) # 0
        <4> SUFFICES ASSUME Exponent(a) = 0 PROVE FALSE
          OBVIOUS
        <4>1. ~Normal(a) /\ ~Normal(b)
          BY <2>4 DEF Normal
        <4>2. Fraction(a) = 0 /\ Fraction(b) = 0
          BY <1>1, <4>1 DEF Number, Fraction, FracSize
        <4> QED BY <3>1, <4>2
      <3>3. Size(a) = Significand(a) * Unit(a) /\ Size(b) = Significand(b) * Unit(b)
        BY <2>4, <3>2, Units
      <3>4. Unit(a) = Unit(b) /\ Significand(a) < Significand(b)
        BY <2>1, <2>4, <3>1, Fields, Sizes DEF Unit
      <3>5. Significand(a) \in Nat /\ Significand(b) \in Nat /\ Unit(a) \in Nat \ {0}
        BY Significands, Sizes, Units
      <3> QED BY <3>3, <3>4, <3>5, ProductLess
    <2> QED BY <2>1, <2>2, <2>3, <2>4
  <1>2. Magnitude(x) = Magnitude(y) => Size(x) = Size(y)
    <2> SUFFICES ASSUME Magnitude(x) = Magnitude(y) PROVE Size(x) = Size(y)
      OBVIOUS
    <2>1. Exponent(x) = Exponent(y) /\ Significand(x) = Significand(y)
      BY SameWord, Fields
    <2> QED BY <2>1 DEF Size, Unit
  <1>3. Magnitude(x) \in Nat /\ Magnitude(y) \in Nat /\ Size(x) \in Nat /\ Size(y) \in Nat
    BY Fields, Units, Sizes
  <1>4. Magnitude(x) < Magnitude(y) => Size(x) < Size(y)
    BY <1>1
  <1>5. Magnitude(y) < Magnitude(x) => Size(y) < Size(x)
    BY <1>1
  <1>6. Magnitude(x) = 0 <=> Size(x) = 0
    <2>1. CASE Exponent(x) = 0
      <3>1. Fraction(x) = 0
        BY <2>1 DEF Number, Normal, Fraction, FracSize
      <3> QED BY <2>1, <3>1, Fields, Units, Sizes
    <2>2. CASE Exponent(x) # 0
      <3>1. Exponent(x) \in Nat \ {0} /\ Fraction(x) \in Nat /\ FracSize \in Nat \ {0}
            /\ Magnitude(x) = Exponent(x) * FracSize + Fraction(x)
        BY <2>2, Fields, Sizes
      <3>2. \A e, p \in Nat \ {0}, f \in Nat : e * p + f # 0
        OBVIOUS
      <3> QED BY <2>2, <3>1, <3>2, Units
    <2> QED BY <2>1, <2>2
  <1> QED BY <1>2, <1>3, <1>4, <1>5, <1>6

\* The result is that of the operation at the inputs.
LEMMA AtResult ==
  ASSUME PipeInv, valid = 4
  PROVE  LET o == Operated(Aligned(operation))
         IN /\ operation \in Operations /\ s4.operation = operation
            /\ o.operation = operation /\ s3.int_result = o.int_result
            /\ s4.normalised = Normalised(o).normalised
            /\ s4.normalised \in NormalNumber
  <1> DEFINE o == Operated(Aligned(operation))
  <1>1. operation \in Operations /\ s4.normalised \in NormalNumber
    BY AnOperation DEF PipeInv, PipeTypes
  <1>2. s3 = o /\ s4 = Normalised(o)
    BY DEF PipeInv, PipeHolds
  <1>3. o.operation = operation
    BY <1>1, OperatedTypes
  <1>4. Normalised(o).operation = o.operation
    BY DEF Normalised
  <1> HIDE DEF o
  <1> QED BY <1>1, <1>2, <1>3, <1>4 DEF o

LEMMA LessHolds ==
  ASSUME NEW op \in Operations, Number(op.op1), Number(op.op2)
  PROVE  Less(op) <=> Value(op.op1) < Value(op.op2)
  <1> DEFINE x == op.op1
             y == op.op2
             m1 == Magnitude(x)
             m2 == Magnitude(y)
             n1 == Size(x)
             n2 == Size(y)
  <1>1. x \in Word /\ y \in Word
    BY DEF Operations
  <1>2. /\ Sign(x) \in {0, 1} /\ Sign(y) \in {0, 1} /\ n1 \in Nat /\ n2 \in Nat
        /\ m1 \in Nat /\ m2 \in Nat
    BY <1>1, Fields, Units, Sizes
  <1>3. /\ m1 < m2 <=> n1 < n2
        /\ m2 < m1 <=> n2 < n1
        /\ m1 = 0 <=> n1 = 0
        /\ m2 = 0 <=> n2 = 0
    BY <1>1, Ordered
  <1>4. /\ Sign(x) = 0 => Value(x) = n1
        /\ Sign(x) = 1 => Value(x) = -n1
        /\ Sign(y) = 0 => Value(y) = n2
        /\ Sign(y) = 1 => Value(y) = -n2
    BY <1>1, Values
  <1>5. Less(op) <=> /\ ~(m1 = 0 /\ m2 = 0)
                     /\ IF Sign(x) # Sign(y) THEN Sign(x) = 1
                        ELSE IF Sign(x) = 0 THEN m1 < m2 ELSE m2 < m1
    BY <1>2 DEF Less, BothZero
  <1> HIDE DEF x, y, m1, m2, n1, n2
  <1>6. Less(op) <=> Value(x) < Value(y)
    BY <1>2, <1>3, <1>4, <1>5
  <1> QED BY <1>6 DEF x, y

LEMMA EqualHolds ==
  ASSUME NEW op \in Operations, Number(op.op1), Number(op.op2)
  PROVE  BothZero(op) \/ op.op1 = op.op2 <=> Value(op.op1) = Value(op.op2)
  <1> DEFINE x == op.op1
             y == op.op2
             m1 == Magnitude(x)
             m2 == Magnitude(y)
             n1 == Size(x)
             n2 == Size(y)
  <1>1. x \in Word /\ y \in Word
    BY DEF Operations
  <1>2. Sign(x) \in {0, 1} /\ Sign(y) \in {0, 1} /\ n1 \in Nat /\ n2 \in Nat
    BY <1>1, Fields, Units
  <1>3. (m1 = m2 <=> n1 = n2) /\ (m1 = 0 <=> n1 = 0) /\ (m2 = 0 <=> n2 = 0)
    BY <1>1, Ordered
  <1>4. /\ Sign(x) = 0 => Value(x) = n1
        /\ Sign(x) = 1 => Value(x) = -n1
        /\ Sign(y) = 0 => Value(y) = n2
        /\ Sign(y) = 1 => Value(y) = -n2
    BY <1>1, Values
  <1>5. x = y <=> Sign(x) = Sign(y) /\ m1 = m2
    BY <1>1, SameWord
  <1>6. BothZero(op) <=> m1 = 0 /\ m2 = 0
    BY DEF BothZero
  <1> HIDE DEF x, y, m1, m2, n1, n2
  <1>7. BothZero(op) \/ x = y <=> Value(x) = Value(y)
    BY <1>2, <1>3, <1>4, <1>5, <1>6
  <1> QED BY <1>7 DEF x, y

LEMMA NegativeHolds ==
  ASSUME NEW x \in Word
  PROVE  /\ Value((1 - Sign(x)) * 2^(Width - 1) + Magnitude(x)) = -Value(x)
         /\ Value(Magnitude(x)) = Abs(Value(x))
  <1>1. ASSUME NEW s \in {0, 1}
        PROVE  LET y == s * 2^(Width - 1) + Magnitude(x)
               IN /\ s = 0 => Value(y) = Size(x)
                  /\ s = 1 => Value(y) = -Size(x)
    <2> DEFINE y == s * 2^(Width - 1) + Magnitude(x)
    <2>1. /\ y \in Word /\ Sign(y) = s /\ Exponent(y) = Exponent(x)
          /\ Fraction(y) = Fraction(x)
      BY OtherSign
    <2> HIDE DEF y
    <2>2. Significand(y) = Significand(x)
      BY <2>1, Fields
    <2>3. Size(y) = Size(x)
      BY <2>1, <2>2 DEF Size, Unit
    <2>4. /\ s = 0 => Value(y) = Size(x)
          /\ s = 1 => Value(y) = -Size(x)
      BY <2>1, <2>3, Values
    <2> QED BY <2>4 DEF y
  <1>2. Sign(x) \in {0, 1} /\ Size(x) \in Nat
    BY Fields, Units
  <1>3. 1 - Sign(x) \in {0, 1}
    BY <1>2
  <1>4. Value((1 - Sign(x)) * 2^(Width - 1) + Magnitude(x)) = -Value(x)
    <2> DEFINE s == 1 - Sign(x)
    <2> HIDE DEF s
    <2>1. /\ s = 0 => Value(s * 2^(Width - 1) + Magnitude(x)) = Size(x)
          /\ s = 1 => Value(s * 2^(Width - 1) + Magnitude(x)) = -Size(x)
      BY <1>1, <1>3 DEF s
    <2>2. (s = 0 <=> Sign(x) = 1) /\ (s = 1 <=> Sign(x) = 0)
      BY <1>2 DEF s
    <2>3. /\ Sign(x) = 0 => Value(x) = Size(x)
          /\ Sign(x) = 1 => Value(x) = -Size(x)
      BY Values
    <2>4. Value(s * 2^(Width - 1) + Magnitude(x)) = -Value(x)
      BY <1>2, <2>1, <2>2, <2>3
    <2> QED BY <2>4 DEF s
  <1>5. Value(Magnitude(x)) = Abs(Value(x))
    <2>1. 0 * 2^(Width - 1) + Magnitude(x) = Magnitude(x)
      <3>1. 2^(Width - 1) \in Int /\ Magnitude(x) \in Int
        BY Fields, Sizes
      <3> DEFINE p == 2^(Width - 1)
      <3> HIDE DEF p
      <3>2. 0 * p + Magnitude(x) = Magnitude(x)
        BY <3>1 DEF p
      <3> QED BY <3>2 DEF p
    <2>2. Value(0 * 2^(Width - 1) + Magnitude(x)) = Size(x)
      BY <1>1
    <2> QED BY <2>1, <2>2, Values
  <1> QED BY <1>4, <1>5

(***************************************************************************)
(* The comparisons, negation and the absolute value, for every format: the *)
(* magnitude fields of two numbers are ordered like the numbers (Ordered). *)
(***************************************************************************)
THEOREM Compared == Spec => []ComparesValues
  <1>1. PipeInv => ComparesValues
    <2> SUFFICES ASSUME PipeInv PROVE ComparesValues
      OBVIOUS
    <2> DEFINE i == operation.instruction
    <2>1. ASSUME valid = 4
          PROVE  /\ i = "FSLT" => result = Flag(Less(operation))
                 /\ i = "FEQ" => result = Flag(BothZero(operation) \/ Op1 = Op2)
                 /\ i = "FNEG" => result = (1 - Sign(Op1)) * 2^(Width - 1) + Magnitude(Op1)
                 /\ i = "FABS" => result = Magnitude(Op1)
      <3>1. s4.operation = operation
        BY <2>1, AtResult
      <3> QED BY <3>1 DEF result, Op1, Op2
    <2>2. operation \in Operations /\ Op1 \in Word /\ Op2 \in Word
      BY AnOperation DEF PipeInv, PipeTypes, Operations, Op1, Op2
    <2>3. Ready({"FSLT"}) /\ Number(Op1) /\ Number(Op2)
            => result = Flag(Value(Op1) < Value(Op2))
      BY <2>1, <2>2, LessHolds DEF Ready, Op1, Op2, Flag
    <2>4. Ready({"FEQ"}) /\ Number(Op1) /\ Number(Op2)
            => result = Flag(Value(Op1) = Value(Op2))
      BY <2>1, <2>2, EqualHolds DEF Ready, Op1, Op2, Flag
    <2>5. Ready({"FNEG"}) => Value(result) = -Value(Op1)
      BY <2>1, <2>2, NegativeHolds DEF Ready
    <2>6. Ready({"FABS"}) => Value(result) = Abs(Value(Op1))
      BY <2>1, <2>2, NegativeHolds DEF Ready
    <2> QED BY <2>3, <2>4, <2>5, <2>6 DEF ComparesValues
  <1> QED BY <1>1, Pipelined, PTL

-----------------------------------------------------------------------------
(***************************************************************************)
(* A number that is not rounded up is composed as it is.                   *)
(***************************************************************************)
LEMMA ComposedAsIs ==
  ASSUME NEW n \in NormalNumber, ~n.round_up
  PROVE  LET x == Composed(n)
         IN /\ x \in Word /\ Sign(x) = n.sign /\ Exponent(x) = n.exp
            /\ n.exp \notin {0, Infinite} /\ n.mantissa >= FracSize
                 => Significand(x) = n.mantissa
            /\ n.exp \in {0, Infinite} => Significand(x) = FracSize
  <1> DEFINE x == Composed(n)
  <1>1. Rounded(n) = n
    BY RoundedTypes
  <1>2. /\ x \in Word /\ Sign(x) = n.sign /\ Exponent(x) = n.exp
        /\ Fraction(x) = ComposedFraction(n)
    BY <1>1, ComposedFields
  <1> HIDE DEF x
  <1>3. Significand(x) = FracSize + Fraction(x) /\ FracSize \in Nat \ {0}
    BY <1>2, Fields, Sizes
  <1>4. ASSUME n.exp \notin {0, Infinite}, n.mantissa >= FracSize
        PROVE  Significand(x) = n.mantissa
    <2>1. n.mantissa \in FracSize .. 2 * FracSize - 1
      BY <1>3, <1>4 DEF NormalNumber
    <2>2. \A m, p \in Nat : p <= m /\ m < 2 * p => m % p = m - p
      <3> TAKE m, p \in Nat
      <3> SUFFICES ASSUME p <= m, m < 2 * p PROVE m % p = m - p
        OBVIOUS
      <3>1. p \in Nat \ {0} /\ m - p \in 0 .. p - 1 /\ m = 1 * p + (m - p)
        OBVIOUS
      <3> QED BY <3>1, DivisionUnique
    <2>3. n.mantissa % FracSize = n.mantissa - FracSize
      <3>1. n.mantissa \in Nat /\ FracSize \in Nat
            /\ FracSize <= n.mantissa /\ n.mantissa < 2 * FracSize
        BY <1>3, <2>1
      <3> QED BY ONLY <3>1, <2>2, Zenon
    <2> QED BY <1>2, <1>3, <1>4, <2>1, <2>3 DEF ComposedFraction
  <1>5. n.exp \in {0, Infinite} => Significand(x) = FracSize
    BY <1>2, <1>3 DEF ComposedFraction
  <1> QED BY <1>2, <1>4, <1>5 DEF x

LEMMA SmallRemainder ==
  ASSUME NEW b \in Nat \ {0}, NEW a \in 0 .. b - 1
  PROVE  a % b = a
  <1>1. a \in Int /\ a = 0 * b + a
    OBVIOUS
  <1> QED BY <1>1, DivisionUnique

LEMMA ProductHolds ==
  ASSUME NEW op \in Operations, op.instruction = "FMUL",
         Exponent(op.op1) + Exponent(op.op2) - Bias \in 1 .. Infinite - 2,
         ~Normalised(Operated(Aligned(op))).normalised.round_up
  PROVE  LET x == Composed(Normalised(Operated(Aligned(op))).normalised)
             carry == Exponent(x) - (Exponent(op.op1) + Exponent(op.op2) - Bias)
             exact == Significand(op.op1) * Significand(op.op2)
             unit == 2^(FracBits + carry)
         IN /\ Sign(x) = 0 <=> Sign(op.op1) = Sign(op.op2)
            /\ carry \in {0, 1}
            /\ Significand(x) * unit <= exact
            /\ exact < (Significand(x) + 1) * unit
  <1> DEFINE a == Aligned(op)
             o == Operated(a)
             n == Normalised(o).normalised
             x == Composed(n)
             s1x == Sign(op.op1)
             s2x == Sign(op.op2)
             exp == Exponent(op.op1) + Exponent(op.op2) - Bias
             m == Significand(op.op1) * Significand(op.op2)
             carry == IF Bit(m, 2 * FracBits + 1) THEN 1 ELSE 0
             unit == 2^(FracBits + carry)
  <1>1. /\ op.op1 \in Word /\ op.op2 \in Word /\ a.operation = op /\ a.sign1 = s1x
        /\ a.sign2 = s2x /\ s1x \in {0, 1} /\ s2x \in {0, 1}
    BY AlignedFields, Fields DEF Operations
  <1>2. n \in NormalNumber /\ o.operation = op
    <2>1. /\ o.operation = op /\ o.computed \in Computed
          /\ o.computed.mantissa < MantissaSize(op.instruction)
      BY OperatedTypes
    <2> HIDE DEF o
    <2> QED BY <2>1, NormalisedTypes
  <1>3. /\ exp \in 1 .. Infinite - 2 /\ ExpSize \in Nat \ {0} /\ Infinite = ExpSize - 1
        /\ exp % ExpSize = exp /\ exp \in Nat
    <2>1. exp \in 1 .. Infinite - 2 /\ ExpSize \in Nat \ {0} /\ Infinite = ExpSize - 1
      BY Sizes
    <2> HIDE DEF exp
    <2>2. exp \in 0 .. ExpSize - 1
      BY <2>1
    <2> QED BY <2>1, <2>2, SmallRemainder
  <1>4. m \in Nat /\ m < 4 * (FracSize * FracSize) /\ m >= FracSize * FracSize
    <2>1. Significand(op.op1) \in FracSize .. 2 * FracSize - 1
          /\ Significand(op.op2) \in FracSize .. 2 * FracSize - 1 /\ FracSize \in Nat \ {0}
      BY <1>1, Significands, Sizes
    <2>2. \A y, z, p \in Nat : p <= y /\ y < 2 * p /\ p <= z /\ z < 2 * p
            => p * p <= y * z /\ y * z < 4 * (p * p)
      <3> TAKE y, z, p \in Nat
      <3> SUFFICES ASSUME p <= y, y < 2 * p, p <= z, z < 2 * p
                   PROVE  p * p <= y * z /\ y * z < 4 * (p * p)
        OBVIOUS
      <3>1. p * p <= y * p /\ y * p <= y * z
        OBVIOUS
      <3>2. y * z <= y * (2 * p) /\ y * (2 * p) < (2 * p) * (2 * p)
        OBVIOUS
      <3>3. (2 * p) * (2 * p) = 4 * (p * p)
        OBVIOUS
      <3> QED BY <3>1, <3>2, <3>3
    <2> QED BY <2>1, <2>2
  <1>5. o.computed = [mantissa |-> m, sign |-> (s1x + s2x) % 2, exp |-> exp]
    <2>1. o.computed = Product(a)
      BY <1>1 DEF Operated
    <2>2. Product(a) = [mantissa |-> m, sign |-> (s1x + s2x) % 2, exp |-> exp % ExpSize]
      BY <1>1 DEF Product, ExpSize
    <2> QED BY <1>3, <2>1, <2>2
  <1>6. n = NormalisedProduct(o.computed)
    BY <1>2 DEF Normalised
  <1> HIDE DEF a, o, n, x, m, exp, s1x, s2x
  <1>7. n.mantissa = m \div unit /\ n.sign = (s1x + s2x) % 2
        /\ n.exp = (exp + carry) % ExpSize
    BY <1>5, <1>6 DEF NormalisedProduct, ExpSize
  <1>8. /\ carry \in {0, 1} /\ m \div unit >= FracSize
        /\ (m \div unit) * unit <= m /\ m < (m \div unit + 1) * unit
    BY <1>4, NormalisingProduct
  <1> HIDE DEF unit, carry
  <1>9. n.exp = exp + carry /\ n.exp \notin {0, Infinite}
    <2>1. exp + carry \in 1 .. Infinite - 1 /\ exp + carry \in 0 .. ExpSize - 1
      BY <1>3, <1>8
    <2>2. (exp + carry) % ExpSize = exp + carry
      BY <1>3, <2>1, SmallRemainder
    <2> QED BY <1>7, <2>1, <2>2
  <1>10. /\ Sign(x) = n.sign /\ Exponent(x) = n.exp /\ Significand(x) = n.mantissa
    <2>1. ~n.round_up
      BY DEF n, o, a
    <2> QED BY <1>2, <1>7, <1>8, <1>9, <2>1, ComposedAsIs DEF x
  <1>11. Exponent(x) - exp = carry
    BY <1>3, <1>8, <1>9, <1>10
  <1>12. Sign(x) = 0 <=> s1x = s2x
    BY <1>1, <1>7, <1>10
  <1>13. Significand(x) * unit <= m /\ m < (Significand(x) + 1) * unit
    BY <1>7, <1>8, <1>10
  <1>14. unit = 2^(FracBits + (Exponent(x) - exp))
    BY <1>11 DEF unit
  <1>15. /\ Sign(x) = 0 <=> s1x = s2x
         /\ Exponent(x) - exp \in {0, 1}
         /\ Significand(x) * 2^(FracBits + (Exponent(x) - exp)) <= m
         /\ m < (Significand(x) + 1) * 2^(FracBits + (Exponent(x) - exp))
    BY <1>8, <1>11, <1>12, <1>13, <1>14
  <1> QED BY <1>15 DEF x, n, o, a, m, exp, s1x, s2x

(***************************************************************************)
(* The product, for every format: both significands are at least FracSize, *)
(* so the leading one is in one of two places (NormalisingProduct), and an *)
(* exponent that fits does not wrap around.                                *)
(***************************************************************************)
THEOREM Multiplied == Spec => []ProductsTruncated
  <1>1. PipeInv => ProductsTruncated
    <2> SUFFICES ASSUME PipeInv, Ready({"FMUL"}),
                        Exponent(Op1) + Exponent(Op2) - Bias \in 1 .. Infinite - 2,
                        ~s4.normalised.round_up
                 PROVE  LET exp == Exponent(Op1) + Exponent(Op2) - Bias
                            carry == Exponent(result) - exp
                            exact == Significand(Op1) * Significand(Op2)
                            unit == 2^(FracBits + carry)
                        IN /\ Sign(result) = 0 <=> Sign(Op1) = Sign(Op2)
                           /\ carry \in {0, 1}
                           /\ Significand(result) * unit <= exact
                           /\ exact < (Significand(result) + 1) * unit
      BY DEF ProductsTruncated
    <2>1. valid = 4 /\ operation.instruction = "FMUL"
      BY DEF Ready
    <2>2. /\ operation \in Operations /\ s4.operation = operation
          /\ s4.normalised = Normalised(Operated(Aligned(operation))).normalised
      BY <2>1, AtResult
    <2>3. result = Composed(Normalised(Operated(Aligned(operation))).normalised)
      BY <2>1, <2>2 DEF result
    <2> QED BY <2>1, <2>2, <2>3, ProductHolds DEF Op1, Op2
  <1> QED BY <1>1, Pipelined, PTL

-----------------------------------------------------------------------------
(***************************************************************************)
(* What a significand loses when it is aligned is less than the unit it is *)
(* aligned to.                                                             *)
(***************************************************************************)
LEMMA Lost ==
  ASSUME NEW s \in Nat, NEW b \in Nat \ {0}, NEW u \in Nat \ {0}
  PROVE  LET lost == s * u - (s \div b) * (u * b)
         IN /\ s \div b \in Nat /\ lost \in Nat /\ lost < u * b
            /\ b = 1 => lost = 0
  <1> DEFINE q == s \div b
             r == s % b
  <1>1. q \in Int /\ r \in 0 .. b - 1 /\ s = q * b + r
    BY Division
  <1>2. q \in Nat
    BY QuotientSmaller
  <1> HIDE DEF q, r
  <1>3. s * u = q * (u * b) + r * u
    BY <1>1, <1>2
  <1>4. r * u \in Nat /\ r * u < b * u /\ b * u = u * b /\ u * b \in Int
    BY <1>1, ProductLess
  <1>5. q * (u * b) \in Int
    BY <1>2
  <1>6. s * u - q * (u * b) = r * u
    BY <1>3, <1>4, <1>5
  <1>7. b = 1 => r * u = 0
    BY <1>1
  <1> QED BY <1>2, <1>4, <1>6, <1>7 DEF q

Inverted(sign, v) == IF sign = 0 THEN v ELSE -v
ExactSumOf(op) == IF op.instruction = "FSUB" THEN Value(op.op1) - Value(op.op2)
                                             ELSE Value(op.op1) + Value(op.op2)

(***************************************************************************)
(* The sum of the aligned significands, with its sign and in the larger    *)
(* unit, is less than that unit away from the exact sum; with a carry it   *)
(* is not above it.                                                        *)
(***************************************************************************)
LEMMA SumAligned ==
  ASSUME NEW op \in Operations, op.instruction \in Sums,
         Normal(op.op1), Normal(op.op2)
  PROVE  LET c == Sum(Aligned(op))
             unit == Larger(Unit(op.op1), Unit(op.op2))
             exact == Inverted(c.sign, ExactSumOf(op))
         IN /\ c.exp \in 1 .. Infinite - 1 /\ unit = 2^(c.exp - 1) /\ unit \in Nat \ {0}
            /\ c.mantissa \in Nat /\ exact \in Int
            /\ exact - c.mantissa * unit < unit /\ c.mantissa * unit - exact < unit
            /\ c.mantissa >= 2 * FracSize => exact >= c.mantissa * unit
  <1> DEFINE x == op.op1
             y == op.op2
             a == Aligned(op)
             c == Sum(a)
             u1 == Unit(x)
             u2 == Unit(y)
             unit == Larger(u1, u2)
             shift == 2^a.exp_diff
             b1 == IF a.op1_larger THEN 1 ELSE shift
             b2 == IF a.op1_larger THEN shift ELSE 1
             m1 == Significand(x) \div b1
             m2 == Significand(y) \div b2
             d1 == Significand(x) * u1 - m1 * (u1 * b1)
             d2 == Significand(y) * u2 - m2 * (u2 * b2)
  <1>1. /\ x \in Word /\ y \in Word /\ a.operation = op
        /\ a.sign1 = Sign(x) /\ a.sign1 \in {0, 1} /\ a.sign2 \in {0, 1}
        /\ a.sign2 = IF op.instruction = "FSUB" THEN 1 - Sign(y) ELSE Sign(y)
        /\ a.op1_larger = (Exponent(x) >= Exponent(y))
        /\ a.exp_diff = (IF Exponent(x) >= Exponent(y) THEN Exponent(x) - Exponent(y)
                                                       ELSE Exponent(y) - Exponent(x))
        /\ a.aligned_exp = (IF Exponent(x) >= Exponent(y) THEN Exponent(x)
                                                          ELSE Exponent(y))
    BY AlignedFields, AlignedTypes DEF Operations
  <1>2. /\ Exponent(x) \in 1 .. Infinite - 1 /\ Exponent(y) \in 1 .. Infinite - 1
        /\ Infinite \in Nat
    BY Sizes DEF Normal
  <1>3. /\ u1 = 2^(Exponent(x) - 1) /\ u2 = 2^(Exponent(y) - 1)
        /\ u1 \in Nat \ {0} /\ u2 \in Nat \ {0}
    BY <1>1, <1>2, Units DEF Unit
  <1>4. c = [mantissa |-> IF a.sign1 = a.sign2 THEN m1 + m2
                          ELSE IF m1 >= m2 THEN m1 - m2 ELSE m2 - m1,
             sign |-> IF a.sign1 = a.sign2 \/ m1 >= m2 THEN a.sign1 ELSE a.sign2,
             exp |-> a.aligned_exp]
    BY <1>1 DEF Sum
  <1> HIDE DEF x, y, a, c, u1, u2
  <1>5. /\ unit = 2^(a.aligned_exp - 1) /\ a.aligned_exp \in 1 .. Infinite - 1
        /\ unit = u1 * b1 /\ unit = u2 * b2 /\ unit \in Nat \ {0}
        /\ b1 \in Nat \ {0} /\ b2 \in Nat \ {0} /\ (b1 = 1 \/ b2 = 1)
    <2>1. CASE Exponent(x) >= Exponent(y)
      <3>1. /\ Exponent(y) - 1 \in Nat /\ Exponent(x) - 1 \in Nat
            /\ Exponent(y) - 1 <= Exponent(x) - 1
            /\ (Exponent(x) - 1) - (Exponent(y) - 1) = a.exp_diff
            /\ a.exp_diff \in Nat
        BY <1>1, <1>2, <2>1
      <3>2. u2 <= u1 /\ u1 = u2 * shift /\ shift \in Nat \ {0}
        BY <1>3, <3>1, PowerLess, PowerNat
      <3>3. b1 = 1 /\ b2 = shift
        BY <1>1, <2>1
      <3> HIDE DEF shift, b1, b2
      <3>4. unit = u1 /\ u1 * b1 = u1
        BY <1>3, <3>2, <3>3 DEF Larger
      <3> QED BY <1>1, <1>2, <1>3, <2>1, <3>2, <3>3, <3>4
    <2>2. CASE ~(Exponent(x) >= Exponent(y))
      <3>1. /\ Exponent(y) - 1 \in Nat /\ Exponent(x) - 1 \in Nat
            /\ Exponent(x) - 1 < Exponent(y) - 1 /\ Exponent(x) - 1 <= Exponent(y) - 1
            /\ (Exponent(y) - 1) - (Exponent(x) - 1) = a.exp_diff
            /\ a.exp_diff \in Nat
        BY <1>1, <1>2, <2>2
      <3>2. u1 < u2 /\ u2 = u1 * shift /\ shift \in Nat \ {0}
        BY <1>3, <3>1, PowerLess, PowerNat
      <3>3. b2 = 1 /\ b1 = shift
        BY <1>1, <2>2
      <3> HIDE DEF shift, b1, b2
      <3>4. unit = u2 /\ u2 * b2 = u2
        BY <1>3, <3>2, <3>3 DEF Larger
      <3> QED BY <1>1, <1>2, <1>3, <2>2, <3>2, <3>3, <3>4
    <2> QED BY <2>1, <2>2
  <1> HIDE DEF b1, b2, unit
  <1>6. /\ Significand(x) \in Nat /\ Significand(x) < 2 * FracSize
        /\ Significand(y) \in Nat /\ Significand(y) < 2 * FracSize /\ FracSize \in Nat
    BY <1>1, Significands, Sizes
  <1>7. /\ m1 \in Nat /\ d1 \in Nat /\ d1 < u1 * b1 /\ (b1 = 1 => d1 = 0)
        /\ m1 <= Significand(x)
    <2>1. Significand(x) \in Nat /\ b1 \in Nat \ {0} /\ u1 \in Nat \ {0}
      BY <1>3, <1>5, <1>6
    <2>2. m1 \in Nat /\ d1 \in Nat /\ d1 < u1 * b1 /\ (b1 = 1 => d1 = 0)
      BY ONLY <2>1, Lost
    <2>3. m1 <= Significand(x)
      BY ONLY <2>1, QuotientSmaller
    <2> QED BY <2>2, <2>3
  <1>8. /\ m2 \in Nat /\ d2 \in Nat /\ d2 < u2 * b2 /\ (b2 = 1 => d2 = 0)
        /\ m2 <= Significand(y)
    <2>1. Significand(y) \in Nat /\ b2 \in Nat \ {0} /\ u2 \in Nat \ {0}
      BY <1>3, <1>5, <1>6
    <2>2. m2 \in Nat /\ d2 \in Nat /\ d2 < u2 * b2 /\ (b2 = 1 => d2 = 0)
      BY ONLY <2>1, Lost
    <2>3. m2 <= Significand(y)
      BY ONLY <2>1, QuotientSmaller
    <2> QED BY <2>2, <2>3
  <1>9. Size(x) = m1 * unit + d1 /\ Size(y) = m2 * unit + d2
    <2>1. Size(x) = Significand(x) * u1 /\ Size(y) = Significand(y) * u2
      BY <1>1, <1>2, Units DEF u1, u2
    <2>2. Significand(x) * u1 \in Int /\ Significand(y) * u2 \in Int
          /\ m1 * unit \in Int /\ m2 * unit \in Int
      BY <1>3, <1>5, <1>6, <1>7, <1>8
    <2> HIDE DEF m1, m2
    <2>3. d1 = Size(x) - m1 * unit /\ d2 = Size(y) - m2 * unit
      BY <1>5, <2>1
    <2> HIDE DEF d1, d2
    <2> QED BY <1>7, <1>8, <2>1, <2>2, <2>3
  <1>10. d1 \in Nat /\ d2 \in Nat /\ d1 + d2 < unit /\ d1 < unit /\ d2 < unit
    BY <1>5, <1>7, <1>8
  <1> HIDE DEF d1, d2, m1, m2
  <1> DEFINE p1 == m1 * unit
             p2 == m2 * unit
  <1>11. p1 \in Int /\ p2 \in Int /\ (m1 + m2) * unit = p1 + p2
         /\ (m1 - m2) * unit = p1 - p2 /\ (m2 - m1) * unit = p2 - p1
    <2>1. m1 \in Int /\ m2 \in Int /\ unit \in Int
      BY <1>5, <1>7, <1>8
    <2> QED BY ONLY <2>1, Products
  <1> HIDE DEF p1, p2
  <1>12. Size(x) = p1 + d1 /\ Size(y) = p2 + d2
    BY <1>9 DEF p1, p2
  <1>13. ExactSumOf(op) = Inverted(a.sign1, p1 + d1) + Inverted(a.sign2, p2 + d2)
    <2>1. Sign(x) \in {0, 1} /\ Sign(y) \in {0, 1}
      BY <1>1, Fields
    <2>2. Value(x) = Inverted(Sign(x), p1 + d1) /\ Value(y) = Inverted(Sign(y), p2 + d2)
      BY <1>1, <1>12, <2>1, Values DEF Inverted
    <2>3. ExactSumOf(op) = IF op.instruction = "FSUB" THEN Value(x) - Value(y)
                                                      ELSE Value(x) + Value(y)
      BY DEF ExactSumOf, x, y
    <2>4. p1 + d1 \in Int /\ p2 + d2 \in Int
      BY <1>10, <1>11
    <2> QED BY <1>1, <2>1, <2>2, <2>3, <2>4 DEF Inverted
  <1>14. CASE a.sign1 = a.sign2
    <2>1. c.mantissa = m1 + m2 /\ c.sign = a.sign1 /\ c.exp = a.aligned_exp
      BY <1>4, <1>14
    <2>2. Inverted(c.sign, ExactSumOf(op)) = (p1 + p2) + (d1 + d2)
      BY <1>1, <1>10, <1>11, <1>13, <1>14, <2>1 DEF Inverted
    <2>3. c.mantissa * unit = p1 + p2 /\ c.mantissa \in Nat
      BY <1>7, <1>8, <1>11, <2>1
    <2>4. LET e == Inverted(c.sign, ExactSumOf(op))
          IN /\ e \in Int /\ e - c.mantissa * unit < unit
             /\ c.mantissa * unit - e < unit /\ e >= c.mantissa * unit
      BY <1>5, <1>10, <1>11, <2>2, <2>3
    <2> QED BY <1>5, <2>1, <2>3, <2>4 DEF c, a, unit, u1, u2, x, y
  <1>15. CASE a.sign1 # a.sign2 /\ m1 >= m2
    <2>1. c.mantissa = m1 - m2 /\ c.sign = a.sign1 /\ c.exp = a.aligned_exp
      BY <1>4, <1>15
    <2>2. Inverted(c.sign, ExactSumOf(op)) = (p1 - p2) + (d1 - d2)
      BY <1>1, <1>10, <1>11, <1>13, <1>15, <2>1 DEF Inverted
    <2>3. c.mantissa * unit = p1 - p2 /\ c.mantissa \in Nat /\ c.mantissa < 2 * FracSize
      BY <1>6, <1>7, <1>8, <1>11, <1>15, <2>1
    <2>4. LET e == Inverted(c.sign, ExactSumOf(op))
          IN e \in Int /\ e - c.mantissa * unit < unit /\ c.mantissa * unit - e < unit
      BY <1>5, <1>10, <1>11, <2>2, <2>3
    <2>5. ~(c.mantissa >= 2 * FracSize)
      BY <1>6, <2>3
    <2> QED BY <1>5, <2>1, <2>3, <2>4, <2>5 DEF c, a, unit, u1, u2, x, y
  <1>16. CASE a.sign1 # a.sign2 /\ ~(m1 >= m2)
    <2>1. c.mantissa = m2 - m1 /\ c.sign = a.sign2 /\ c.exp = a.aligned_exp
      BY <1>4, <1>16
    <2>2. Inverted(c.sign, ExactSumOf(op)) = (p2 - p1) + (d2 - d1)
      BY <1>1, <1>10, <1>11, <1>13, <1>16, <2>1 DEF Inverted
    <2>3. c.mantissa * unit = p2 - p1 /\ c.mantissa \in Nat /\ c.mantissa < 2 * FracSize
      BY <1>6, <1>7, <1>8, <1>11, <1>16, <2>1
    <2>4. LET e == Inverted(c.sign, ExactSumOf(op))
          IN e \in Int /\ e - c.mantissa * unit < unit /\ c.mantissa * unit - e < unit
      BY <1>5, <1>10, <1>11, <2>2, <2>3
    <2>5. ~(c.mantissa >= 2 * FracSize)
      BY <1>6, <2>3
    <2> QED BY <1>5, <2>1, <2>3, <2>4, <2>5 DEF c, a, unit, u1, u2, x, y
  <1> QED BY <1>14, <1>15, <1>16

(***************************************************************************)
(* A sum that shifts by as much as its exponent is below the smallest      *)
(* number.                                                                 *)
(***************************************************************************)
LEMMA TooSmall ==
  ASSUME NEW m \in Nat \ {0}, m < 2 * FracSize, NEW e \in Nat \ {0},
         FracBits - LeadingOne(m) >= e
  PROVE  (m + 1) * 2^(e - 1) <= FracSize
  <1> DEFINE shift == FracBits - LeadingOne(m)
             k == FracBits - shift
             p == 2^k
             u == 2^(e - 1)
  <1>1. FracBits \in Nat /\ shift \in 0 .. FracBits /\ m < 2 * p
    BY Normalising, FormatAssumption
  <1>2. k \in Nat /\ e - 1 \in Nat /\ k + 1 \in Nat /\ (k + 1) + (e - 1) \in Nat
        /\ (k + 1) + (e - 1) <= FracBits
    BY <1>1
  <1> HIDE DEF k, shift
  <1>3. /\ 2^(k + 1) = 2 * p /\ p \in Nat \ {0} /\ u \in Nat \ {0}
        /\ 2^((k + 1) + (e - 1)) = 2^(k + 1) * u
        /\ 2^((k + 1) + (e - 1)) <= 2^FracBits
    BY <1>1, <1>2, PowerDoubles, PowerNat, PowerSum, PowerLess
  <1> HIDE DEF p, u
  <1>4. (m + 1) * u <= (2 * p) * u
    BY <1>1, <1>3
  <1>5. (2 * p) * u <= FracSize /\ (2 * p) * u \in Int /\ (m + 1) * u \in Int
        /\ FracSize \in Int
    BY <1>3, Sizes DEF FracSize
  <1>6. (m + 1) * u <= FracSize
    BY <1>4, <1>5
  <1> QED BY <1>6 DEF u

(***************************************************************************)
(* The result of a sum near an exact one: it is that sum but for what was  *)
(* lost, or half of it with a carry, or zero.                              *)
(***************************************************************************)
Near(a, b, d) == a - b < d /\ b - a < d

LEMMA SumNormalised ==
  ASSUME NEW c \in Computed, c.mantissa < 4 * FracSize, c.exp \in 1 .. Infinite - 1,
         ~NormalisedSum(c).round_up,
         NEW exact \in Int, Near(exact, c.mantissa * 2^(c.exp - 1), 2^(c.exp - 1)),
         c.mantissa >= 2 * FracSize => exact >= c.mantissa * 2^(c.exp - 1)
  PROVE  LET x == Composed(NormalisedSum(c))
         IN /\ x \in Word
            /\ Exponent(x) = Infinite => exact >= FracSize * 2^(Infinite - 1)
            /\ Exponent(x) # Infinite =>
                 /\ Exponent(x) = 0 \/ Sign(x) = c.sign
                 /\ \/ Near(Size(x), exact, 2^(c.exp - 1))
                    \/ Near(Size(x), exact, Unit(x))
                    \/ Near(Size(x), exact, FracSize)
  <1> DEFINE m == c.mantissa
             e == c.exp
             n == NormalisedSum(c)
             x == Composed(n)
             unit == 2^(e - 1)
             carry == Bit(m, FracBits + 1)
             shift == FracBits - LeadingOne(m)
  <1>1. /\ m \in Nat /\ m < 4 * FracSize /\ e \in 1 .. Infinite - 1 /\ Infinite \in Nat
        /\ ExpSize \in Nat \ {0} /\ Infinite = ExpSize - 1 /\ FracSize \in Nat \ {0}
        /\ FracBits \in Nat /\ FracSize >= 4 /\ e \in Nat \ {0} /\ e - 1 \in Nat
    BY Sizes, FormatAssumption DEF Computed
  <1>2. carry <=> m >= 2 * FracSize
    <2>1. FracBits + 1 \in Nat /\ (FracBits + 1) + 1 = FracBits + 2
      BY <1>1
    <2>2. 2^((FracBits + 1) + 1) = 4 * FracSize /\ 2^(FracBits + 1) = 2 * FracSize
      BY <2>1, Sizes
    <2> QED BY <1>1, <2>1, <2>2, TopBit
  <1>3. unit \in Nat \ {0} /\ 2^e = 2 * unit
    <2>1. (e - 1) + 1 = e
      BY <1>1
    <2> QED BY <1>1, <2>1, PowerNat, PowerDoubles
  <1>4. n \in NormalNumber /\ ~n.round_up
    BY NormalisedSumTypes
  <1>5. /\ x \in Word /\ Sign(x) = n.sign /\ Exponent(x) = n.exp
        /\ n.exp \notin {0, Infinite} /\ n.mantissa >= FracSize => Significand(x) = n.mantissa
    BY <1>4, ComposedAsIs
  <1>6. /\ (m = 0 \/ (~carry /\ shift > e)) => n.exp = 0
        /\ ~(m = 0 \/ (~carry /\ shift > e)) =>
             /\ n.sign = c.sign
             /\ n.mantissa = (IF carry THEN m \div 2 ELSE m * 2^shift)
             /\ n.exp = (IF carry THEN (e + 1) % ExpSize ELSE e - shift)
    BY DEF NormalisedSum, Zero, ExpSize
  <1>7. /\ Near(exact, m * unit, unit) /\ m * unit \in Int
        /\ m >= 2 * FracSize => exact >= m * unit
    BY <1>1, <1>3
  <1>8. /\ Size(x) \in Nat /\ Unit(x) \in Nat
        /\ Exponent(x) # 0 => Size(x) = Significand(x) * 2^(Exponent(x) - 1)
        /\ Exponent(x) # 0 => Unit(x) = 2^(Exponent(x) - 1)
        /\ Exponent(x) = 0 => Size(x) = 0
    BY <1>5, Units DEF Size, Unit
  <1> HIDE DEF m, e, n, x, carry
  <1> SUFFICES /\ Exponent(x) = Infinite => exact >= FracSize * 2^(Infinite - 1)
               /\ Exponent(x) # Infinite =>
                    /\ Exponent(x) = 0 \/ Sign(x) = c.sign
                    /\ \/ Near(Size(x), exact, unit)
                       \/ Near(Size(x), exact, Unit(x))
                       \/ Near(Size(x), exact, FracSize)
    BY <1>5 DEF x, n, e
  <1>9. CASE m = 0
    <2>1. Exponent(x) = 0 /\ Size(x) = 0 /\ m * unit = 0 /\ Exponent(x) # Infinite
      BY <1>1, <1>3, <1>5, <1>6, <1>8, <1>9
    <2> HIDE DEF unit
    <2>2. Near(Size(x), exact, unit)
      BY <1>3, <1>7, <2>1 DEF Near
    <2> QED BY <2>1, <2>2
  <1>10. CASE carry
    <2> DEFINE half == m \div 2
    <2>1. half \in Nat /\ half >= FracSize /\ (m = 2 * half \/ m = 2 * half + 1)
          /\ m >= 2 * FracSize /\ m # 0
      BY <1>1, <1>2, <1>10
    <2>2. n.exp = e + 1
      <3>1. e + 1 \in 0 .. ExpSize - 1
        BY <1>1
      <3>2. (e + 1) % ExpSize = e + 1
        BY ONLY <1>1, <3>1, SmallRemainder
      <3> QED BY <1>6, <1>10, <2>1, <3>2
    <2>3. n.mantissa = half /\ n.sign = c.sign
      BY <1>6, <1>10, <2>1
    <2>4. exact >= m * unit /\ Near(exact, m * unit, unit)
      BY <1>7, <2>1
    <2> HIDE DEF half
    <2>5. CASE e + 1 = Infinite
      <3>1. 2^(Infinite - 1) = 2 * unit
        <4>1. Infinite - 1 = e
          BY <1>1, <2>5
        <4> QED BY <1>3, <4>1
      <3> HIDE DEF unit
      <3>2. m * unit >= (2 * FracSize) * unit /\ (2 * FracSize) * unit = FracSize * (2 * unit)
        BY <1>1, <1>3, <2>1
      <3>3. m * unit \in Int /\ FracSize * (2 * unit) \in Int
        BY <1>1, <1>3
      <3>4. exact >= FracSize * (2 * unit)
        BY <2>4, <3>2, <3>3
      <3> QED BY <1>5, <2>2, <2>5, <3>1, <3>4
    <2>6. CASE e + 1 # Infinite
      <3>1. Exponent(x) = e + 1 /\ Exponent(x) \notin {0, Infinite} /\ Sign(x) = c.sign
            /\ Significand(x) = half
        BY <1>1, <1>5, <2>1, <2>2, <2>3, <2>6
      <3>2. Unit(x) = 2 * unit /\ Size(x) = half * (2 * unit)
        <4>1. Exponent(x) - 1 = e
          BY <1>1, <3>1
        <4> QED BY <1>3, <1>8, <3>1, <4>1
      <3> HIDE DEF unit
      <3>3. half * (2 * unit) = (2 * half) * unit /\ (2 * half) * unit \in Int
            /\ (2 * half + 1) * unit = (2 * half) * unit + unit
        BY <1>3, <2>1
      <3>4. m * unit = Size(x) \/ m * unit = Size(x) + unit
        BY <2>1, <3>2, <3>3
      <3>5. Near(Size(x), exact, Unit(x))
        BY <1>3, <1>7, <1>8, <2>4, <3>2, <3>4 DEF Near
      <3> QED BY <3>1, <3>5
    <2> QED BY <2>5, <2>6
  <1>11. CASE m # 0 /\ ~carry /\ shift >= e
    <2>1. (m + 1) * unit <= FracSize
      <3>1. m \in Nat \ {0} /\ m < 2 * FracSize
        BY <1>1, <1>2, <1>11
      <3> QED BY <1>1, <1>11, <3>1, TooSmall
    <2>2. Exponent(x) = 0 /\ Size(x) = 0 /\ Exponent(x) # Infinite
      <3>1. shift \in Int
        <4>1. m \in Nat \ {0} /\ m < 2 * FracSize
          BY <1>1, <1>2, <1>11
        <4> QED BY <4>1, <1>1, Normalising
      <3> HIDE DEF shift
      <3>2. shift > e \/ shift = e
        BY <1>1, <1>11, <3>1
      <3>3. n.exp = 0
        BY <1>1, <1>6, <1>11, <3>1, <3>2
      <3> QED BY <1>1, <1>5, <1>8, <3>3
    <2> HIDE DEF unit
    <2>3. (m + 1) * unit = m * unit + unit /\ m * unit \in Nat /\ unit <= m * unit
      BY <1>1, <1>3, <1>11
    <2>4. Near(0, exact, FracSize)
      BY <1>1, <1>3, <1>7, <2>1, <2>3 DEF Near
    <2> QED BY <2>2, <2>4
  <1>12. CASE m # 0 /\ ~carry /\ ~(shift >= e)
    <2> DEFINE p == 2^shift
    <2>1. m \in Nat \ {0} /\ m < 2 * FracSize
      BY <1>1, <1>2, <1>12
    <2>2. shift \in Nat /\ p \in Nat \ {0} /\ m * p >= FracSize
      BY <1>1, <2>1, Normalising
    <2>3. n.sign = c.sign /\ n.mantissa = m * p /\ n.exp = e - shift
      <3> HIDE DEF p, shift
      <3>1. ~(shift > e)
        BY <1>1, <1>12, <2>2
      <3> QED BY <1>6, <1>12, <3>1 DEF p
    <2>4. Exponent(x) = e - shift /\ Exponent(x) \notin {0, Infinite} /\ Sign(x) = c.sign
          /\ Significand(x) = m * p
      <3> HIDE DEF p, shift
      <3>1. e - shift \in 1 .. Infinite - 1
        BY <1>1, <1>12, <2>2
      <3> QED BY <1>1, <1>5, <2>2, <2>3, <3>1
    <2> DEFINE q == 2^((e - 1) - shift)
    <2>5. unit = p * q /\ q \in Nat \ {0} /\ Size(x) = (m * p) * q
      <3>1. /\ shift \in Nat /\ shift <= e - 1 /\ (e - 1) - shift \in Nat
            /\ (e - shift) - 1 = (e - 1) - shift
        BY <1>1, <1>12, <2>2
      <3>2. unit = p * q /\ q \in Nat \ {0}
        BY <1>1, <3>1, PowerLess, PowerNat
      <3> QED BY <1>8, <2>4, <3>1, <3>2
    <2> HIDE DEF p, q, unit, shift
    <2>6. Size(x) = m * unit
      BY <1>1, <2>2, <2>5
    <2>7. Near(Size(x), exact, unit)
      BY <1>3, <1>7, <2>6 DEF Near
    <2> QED BY <2>4, <2>7
  <1> QED BY <1>9, <1>10, <1>11, <1>12

LEMMA SumHolds ==
  ASSUME NEW op \in Operations, op.instruction \in Sums,
         Normal(op.op1), Normal(op.op2),
         ~Normalised(Operated(Aligned(op))).normalised.round_up
  PROVE  LET x == Composed(Normalised(Operated(Aligned(op))).normalised)
             unit == Larger(Unit(op.op1), Unit(op.op2))
         IN IF Exponent(x) = Infinite
            THEN Overflows(ExactSumOf(op))
            ELSE Abs(Value(x) - ExactSumOf(op))
                   < Larger(unit, Larger(Unit(x), Significand(0)))
  <1> DEFINE a == Aligned(op)
             o == Operated(a)
             n == Normalised(o).normalised
             c == Sum(a)
             x == Composed(n)
             unit == Larger(Unit(op.op1), Unit(op.op2))
             exact == ExactSumOf(op)
             e == Inverted(c.sign, exact)
             most == Larger(unit, Larger(Unit(x), Significand(0)))
  <1>1. c \in Computed /\ c.mantissa < 4 * FracSize
    BY SumTypes
  <1>2. n = NormalisedSum(c) /\ ~n.round_up
    <2>1. a.operation = op
      BY AlignedTypes
    <2>2. o.operation = op /\ o.computed = c
      BY <2>1 DEF Operated, Sums
    <2>3. n = NormalisedSum(o.computed)
      BY <2>2 DEF Normalised, Sums
    <2> QED BY <2>2, <2>3
  <1>3. /\ c.exp \in 1 .. Infinite - 1 /\ unit = 2^(c.exp - 1) /\ unit \in Nat \ {0}
        /\ c.mantissa \in Nat /\ e \in Int
        /\ e - c.mantissa * unit < unit /\ c.mantissa * unit - e < unit
        /\ c.mantissa >= 2 * FracSize => e >= c.mantissa * unit
    BY SumAligned
  <1> HIDE DEF a, o, n, c, unit, exact, x
  <1>4. /\ x \in Word
        /\ Exponent(x) = Infinite => e >= FracSize * 2^(Infinite - 1)
        /\ Exponent(x) # Infinite =>
             /\ Exponent(x) = 0 \/ Sign(x) = c.sign
             /\ \/ Near(Size(x), e, unit)
                \/ Near(Size(x), e, Unit(x))
                \/ Near(Size(x), e, FracSize)
    <2> HIDE DEF e
    <2>1. Near(e, c.mantissa * 2^(c.exp - 1), 2^(c.exp - 1))
          /\ (c.mantissa >= 2 * FracSize => e >= c.mantissa * 2^(c.exp - 1))
      BY <1>3 DEF Near
    <2> QED BY <1>1, <1>2, <1>3, <2>1, SumNormalised DEF x
  <1>5. exact \in Int
    <2>1. op.op1 \in Word /\ op.op2 \in Word
      BY DEF Operations
    <2>2. Value(op.op1) \in Int /\ Value(op.op2) \in Int
      BY <2>1, Values
    <2> QED BY <2>2 DEF exact, ExactSumOf
  <1>6. Significand(0) = FracSize /\ FracSize \in Nat \ {0}
    <2>1. 0 % FracSize = 0
      BY Sizes
    <2> QED BY <2>1, Sizes DEF Significand, FracSize
  <1>7. c.sign \in {0, 1}
    BY <1>1 DEF Computed
  <1>8. CASE Exponent(x) = Infinite
    <2> DEFINE big == FracSize * 2^(Infinite - 1)
    <2>1. e >= big
      BY <1>4, <1>8
    <2>2. big \in Nat
      <3>1. Infinite - 1 \in Nat
        BY Sizes
      <3> QED BY <1>6, <3>1, PowerNat
    <2> HIDE DEF big
    <2>3. Abs(exact) >= big
      BY <1>5, <1>7, <2>1, <2>2 DEF Abs, Inverted
    <2>4. Overflows(exact)
      BY <1>6, <2>3 DEF Overflows, big
    <2> QED BY <1>8, <2>4 DEF x, n, o, a, exact
  <1>9. CASE Exponent(x) # Infinite
    <2>1. Size(x) \in Nat /\ Unit(x) \in Nat /\ Value(x) \in Int /\ Sign(x) \in {0, 1}
          /\ (Sign(x) = 0 => Value(x) = Size(x)) /\ (Sign(x) = 1 => Value(x) = -Size(x))
          /\ (Exponent(x) = 0 => Size(x) = 0)
      BY <1>4, Units, Values, Fields
    <2>2. most \in Nat /\ unit <= most /\ Unit(x) <= most /\ FracSize <= most
      BY <1>3, <1>6, <2>1 DEF Larger
    <2> HIDE DEF most
    <2>3. Size(x) - e < most /\ e - Size(x) < most
      <3> HIDE DEF e
      <3>1. Near(Size(x), e, unit) \/ Near(Size(x), e, Unit(x)) \/ Near(Size(x), e, FracSize)
        BY <1>4, <1>9
      <3> QED BY <1>3, <1>6, <2>1, <2>2, <3>1 DEF Near
    <2>4. Value(x) = Inverted(c.sign, Size(x))
      BY <1>4, <1>7, <1>9, <2>1 DEF Inverted
    <2>5. Abs(Value(x) - exact) < most
      BY <1>5, <1>7, <2>1, <2>2, <2>3, <2>4 DEF Abs, Inverted
    <2> QED BY <1>9, <2>5 DEF most, x, n, o, a, exact, unit
  <1> QED BY <1>8, <1>9

(***************************************************************************)
(* Sums and differences, for every format: what alignment loses is less    *)
(* than the larger unit (SumAligned), and normalising a sum that is not    *)
(* rounded up keeps its value, drops a bit of it with a carry, or clears   *)
(* what is below the smallest number (SumNormalised).                      *)
(***************************************************************************)
THEOREM Added == Spec => []SumsTruncated
  <1>1. PipeInv => SumsTruncated
    <2> SUFFICES ASSUME PipeInv, Ready({"FADD", "FSUB"}), Normal(Op1), Normal(Op2),
                        ~s4.normalised.round_up
                 PROVE  IF Exponent(result) = Infinite
                        THEN Overflows(ExactSum)
                        ELSE Abs(Value(result) - ExactSum)
                               < Larger(OperandUnit, Larger(Unit(result), Significand(0)))
      BY DEF SumsTruncated
    <2>1. valid = 4 /\ operation.instruction \in Sums
      BY DEF Ready, Sums
    <2>2. /\ operation \in Operations /\ s4.operation = operation
          /\ s4.normalised = Normalised(Operated(Aligned(operation))).normalised
      BY <2>1, AtResult
    <2>3. result = Composed(Normalised(Operated(Aligned(operation))).normalised)
      BY <2>1, <2>2 DEF result, Sums
    <2>4. ExactSum = ExactSumOf(operation)
      BY DEF ExactSum, ExactSumOf, Op1, Op2
    <2>5. OperandUnit = Larger(Unit(operation.op1), Unit(operation.op2))
      BY DEF OperandUnit, Op1, Op2
    <2> QED BY <2>1, <2>2, <2>3, <2>4, <2>5, SumHolds DEF Op1, Op2
  <1> QED BY <1>1, Pipelined, PTL

-----------------------------------------------------------------------------
(***************************************************************************)
(* Words as signed integers.                                               *)
(***************************************************************************)
LEMMA SignedWords ==
  ASSUME NEW x \in Word
  PROVE  /\ 2^(Width - 1) \in Nat \ {0} /\ 2^Width = 2 * 2^(Width - 1)
         /\ Sign(x) = 0 => x < 2^(Width - 1) /\ Signed(x) = x
         /\ Sign(x) = 1 => x >= 2^(Width - 1) /\ Signed(x) = x - 2^Width
         /\ x \in Nat /\ x < 2^Width
  <1> DEFINE half == ExpSize * FracSize
  <1>1. half \in Nat \ {0} /\ 2^(Width - 1) = half /\ 2^Width = 2 * half
    BY Sizes
  <1>2. /\ Sign(x) \in {0, 1} /\ x = Sign(x) * half + Magnitude(x)
        /\ Magnitude(x) \in 0 .. half - 1 /\ x \in Nat
    BY Fields
  <1> HIDE DEF half
  <1>3. Sign(x) = 0 => x < half /\ Signed(x) = x
    BY <1>1, <1>2 DEF Signed
  <1>4. Sign(x) = 1 => x >= half /\ Signed(x) = x - 2^Width
    BY <1>1, <1>2 DEF Signed
  <1>5. x < 2 * half
    BY <1>1, <1>2
  <1> QED BY <1>1, <1>2, <1>3, <1>4, <1>5

LEMMA NegatedIs ==
  ASSUME NEW x \in Nat \ {0}, x <= 2^Width
  PROVE  Negated(x) = 2^Width - x
  <1>1. 2^Width \in Nat \ {0}
    BY Sizes
  <1> DEFINE n == 2^Width
  <1> HIDE DEF n
  <1>2. n - x \in 0 .. n - 1 /\ n \in Nat \ {0}
    BY <1>1 DEF n
  <1>3. (n - x) % n = n - x
    BY <1>2, SmallRemainder
  <1> QED BY <1>3 DEF Negated, n

\* A magnitude below half the words, with either sign, is a word.
LEMMA SignedResult ==
  ASSUME NEW t \in Nat, t < 2^(Width - 1)
  PROVE  /\ t \in Word /\ Signed(t) = t
         /\ t # 0 => Negated(t) \in Word /\ Signed(Negated(t)) = -t
  <1> DEFINE half == 2^(Width - 1)
  <1>1. half \in Nat \ {0} /\ 2^Width = 2 * half
    <2>1. 0 \in Word
      BY Sizes DEF Word
    <2> QED BY <2>1, SignedWords
  <1> HIDE DEF half
  <1>2. t < half
    BY DEF half
  <1>3. t \in Word
    BY <1>1, <1>2 DEF Word
  <1>4. Sign(t) \in {0, 1} /\ (Sign(t) = 1 => t >= half) /\ (Sign(t) = 0 => Signed(t) = t)
    BY <1>3, SignedWords, Fields DEF half
  <1>5. Signed(t) = t
    BY <1>1, <1>2, <1>4
  <1>6. ASSUME t # 0 PROVE Negated(t) \in Word /\ Signed(Negated(t)) = -t
    <2>1. Negated(t) = 2 * half - t /\ Negated(t) \in Word
      <3>1. t \in Nat \ {0} /\ t <= 2^Width
        BY <1>1, <1>2, <1>6
      <3> QED BY <1>1, <3>1, NegatedIs, NegatedWord
    <2> DEFINE y == Negated(t)
    <2> HIDE DEF y
    <2>2. y \in Word /\ y = 2 * half - t
      BY <2>1 DEF y
    <2>3. Sign(y) \in {0, 1} /\ (Sign(y) = 0 => y < half)
          /\ (Sign(y) = 1 => Signed(y) = y - 2^Width)
      BY <2>2, SignedWords, Fields DEF half
    <2>4. Signed(y) = -t
      BY <1>1, <1>2, <2>2, <2>3
    <2> QED BY <2>2, <2>4 DEF y
  <1> QED BY <1>3, <1>5, <1>6

(***************************************************************************)
(* The conversions, in a format whose exponent reaches every word: the     *)
(* largest magnitude of one, 2^(Width-1), is a number.                     *)
(***************************************************************************)
LEMMA Reach ==
  ASSUME Width - 1 <= Bias
  PROVE  /\ Bias \in Nat /\ Bias >= 3 /\ Infinite = 2 * Bias + 1
         /\ ExpSize = 2 * Bias + 2 /\ FracBits \in Nat /\ Width \in Nat
         /\ FracBits < Bias /\ FracBits < Width - 1 /\ Width >= 4
         /\ One \in Nat \ {0}
  <1>1. Width \in Nat /\ FracBits \in Nat /\ FracBits < Width - 1 /\ Width >= 4
    BY FormatAssumption DEF Width
  <1>2. Bias \in Nat /\ ExpSize = 2 * (Bias + 1) /\ Infinite = ExpSize - 1
    BY Sizes
  <1>3. Bias + FracBits - 1 \in Nat
    BY <1>1, <1>2
  <1> QED BY <1>1, <1>2, <1>3, PowerNat DEF One

LEMMA FromInteger ==
  ASSUME Width - 1 <= Bias, NEW op \in Operations, op.instruction = "FCVT_S_W"
  PROVE  LET x == Composed(Normalised(Operated(Aligned(op))).normalised)
             exact == Abs(Signed(op.op1)) * One
         IN /\ Sign(x) = Sign(op.op1)
            /\ Abs(Value(x)) <= exact
            /\ exact < Abs(Value(x)) + Unit(x)
  <1> DEFINE w == op.op1
             a == Aligned(op)
             o == Operated(a)
             n == Normalised(o).normalised
             x == Composed(n)
             m == IF Sign(w) = 1 THEN Negated(w) ELSE w
             one == LeadingOne(m)
             mantissa == IF one < FracBits THEN m * 2^(FracBits - one)
                                           ELSE m \div 2^(one - FracBits)
  <1>1. /\ Bias \in Nat /\ Bias >= 3 /\ Infinite = 2 * Bias + 1 /\ ExpSize = 2 * Bias + 2
        /\ FracBits \in Nat /\ Width \in Nat /\ FracBits < Bias /\ Width - 1 <= Bias
        /\ One \in Nat \ {0} /\ FracSize \in Nat
    BY Reach, Sizes
  <1>2. w \in Word /\ Sign(w) \in {0, 1}
    BY Fields DEF Operations
  <1>3. /\ n \in NormalNumber /\ n = NormalisedInteger(o.computed)
        /\ o.computed.mantissa = m /\ o.computed.sign = Sign(w)
    <2>1. a.operation = op /\ a.sign1 = Sign(w)
      BY AlignedFields
    <2>2. o.operation = op /\ o.computed.mantissa = m /\ o.computed.sign = Sign(w)
      <3> HIDE DEF a
      <3> QED BY <2>1 DEF Operated
    <2>3. o.computed \in Computed /\ o.computed.mantissa < MantissaSize(op.instruction)
      BY OperatedTypes
    <2> HIDE DEF o
    <2>4. n \in NormalNumber
      BY <2>2, <2>3, NormalisedTypes
    <2>5. n = NormalisedInteger(o.computed)
      BY <2>2 DEF Normalised
    <2> QED BY <2>2, <2>4, <2>5
  <1> HIDE DEF w, a, o, n, x
  <1>4. /\ m \in Nat /\ m < 2^Width /\ Abs(Signed(w)) = m /\ (m = 0 => Sign(w) = 0)
    <2> DEFINE half == 2^(Width - 1)
    <2>1. /\ half \in Nat \ {0} /\ 2^Width = 2 * half /\ w \in Nat /\ w < 2^Width
          /\ Sign(w) = 0 => Signed(w) = w
          /\ Sign(w) = 1 => w >= half /\ Signed(w) = w - 2^Width
      BY <1>2, SignedWords
    <2> HIDE DEF half
    <2>2. CASE Sign(w) = 0
      BY <2>1, <2>2 DEF Abs
    <2>3. CASE Sign(w) = 1
      <3>1. Negated(w) = 2^Width - w
        BY <2>1, <2>3, NegatedIs
      <3> QED BY <2>1, <2>3, <3>1 DEF Abs
    <2> QED BY <1>2, <2>2, <2>3
  <1> HIDE DEF m
  <1>5. CASE m = 0
    <2>1. n = Zero
      BY <1>3, <1>5 DEF NormalisedInteger
    <2>2. ~n.round_up /\ n.exp = 0 /\ n.sign = 0
      BY <2>1 DEF Zero
    <2>3. x \in Word /\ Sign(x) = 0 /\ Exponent(x) = 0
      BY <1>3, <2>2, ComposedAsIs DEF x
    <2>4. Abs(Value(x)) = 0 /\ Unit(x) = 1
      BY <2>3, Values, Units DEF Unit
    <2> QED BY <1>1, <1>4, <1>5, <2>3, <2>4 DEF x, n, o, a, w
  <1>6. CASE m # 0
    <2>1. /\ one \in 0 .. Width - 1 /\ mantissa \in FracSize .. 2 * FracSize - 1
          /\ one >= FracBits =>
               /\ mantissa * 2^(one - FracBits) <= m
               /\ m < (mantissa + 1) * 2^(one - FracBits)
      BY <1>4, <1>6, NormalisingInteger
    <2>2. /\ n.mantissa = mantissa /\ n.sign = Sign(w) /\ ~n.round_up
          /\ n.exp = (Bias + one) % ExpSize
      BY <1>3, <1>6 DEF NormalisedInteger, ExpSize
    <2> HIDE DEF one
    <2>3. n.exp = Bias + one /\ n.exp \notin {0, Infinite}
      <3>1. Bias + one \in 1 .. 2 * Bias /\ Bias + one \in 0 .. ExpSize - 1
            /\ ExpSize \in Nat \ {0}
        BY <1>1, <2>1
      <3>2. (Bias + one) % ExpSize = Bias + one
        BY ONLY <3>1, SmallRemainder
      <3> QED BY <1>1, <2>2, <3>1, <3>2
    <2>4. x \in Word /\ Sign(x) = Sign(w) /\ Exponent(x) = Bias + one /\ Exponent(x) # 0
          /\ Significand(x) = mantissa
      <3> HIDE DEF mantissa
      <3>1. n.mantissa >= FracSize
        BY <1>1, <2>1, <2>2
      <3> QED BY <1>3, <2>2, <2>3, <3>1, ComposedAsIs DEF x
    <2>5. Abs(Value(x)) = mantissa * Unit(x) /\ Unit(x) = 2^(Bias + one - 1)
      <3> HIDE DEF mantissa
      <3>1. Abs(Value(x)) = Size(x) /\ Size(x) = Significand(x) * Unit(x)
        BY <2>4, Values, Units
      <3>2. Unit(x) = 2^(Bias + one - 1)
        <4>1. Exponent(x) - 1 = Bias + one - 1 /\ Exponent(x) # 0
          BY <1>1, <2>1, <2>4
        <4>2. Unit(x) = 2^(Exponent(x) - 1)
          BY <4>1, Zenon DEF Unit
        <4> QED BY <4>1, <4>2, Zenon
      <3> QED BY <2>4, <3>1, <3>2
    <2>6. mantissa * Unit(x) <= m * One /\ m * One < mantissa * Unit(x) + Unit(x)
      <3>1. CASE one < FracBits
        <4> DEFINE p == 2^(FracBits - one)
                   u == 2^(Bias + one - 1)
        <4>1. p * u = One /\ p \in Nat \ {0} /\ u \in Nat \ {0}
          <5>1. /\ FracBits - one \in Nat /\ Bias + one - 1 \in Nat
                /\ (FracBits - one) + (Bias + one - 1) = Bias + FracBits - 1
            BY <1>1, <2>1, <3>1
          <5> QED BY <5>1, PowerSum, PowerNat DEF One
        <4>2. mantissa = m * p
          BY <3>1
        <4> HIDE DEF p, u, mantissa
        <4>3. (m * p) * u = m * (p * u)
          BY <1>4, <4>1
        <4>4. mantissa * Unit(x) = m * One /\ m * One \in Int /\ Unit(x) \in Nat \ {0}
          BY <1>1, <1>4, <2>5, <4>1, <4>2, <4>3 DEF u
        <4> QED BY <4>4
      <3>2. CASE ~(one < FracBits)
        <4> DEFINE q == 2^(one - FracBits)
        <4>1. Unit(x) = q * One /\ q \in Nat \ {0}
          <5>1. /\ one - FracBits \in Nat /\ Bias + FracBits - 1 \in Nat
                /\ (one - FracBits) + (Bias + FracBits - 1) = Bias + one - 1
            BY <1>1, <2>1, <3>2
          <5>2. 2^((one - FracBits) + (Bias + FracBits - 1)) = q * 2^(Bias + FracBits - 1)
            BY <5>1, PowerSum
          <5>3. q \in Nat \ {0}
            BY <5>1, PowerNat
          <5> QED BY <2>5, <5>1, <5>2, <5>3 DEF One
        <4>2. mantissa * q <= m /\ m < (mantissa + 1) * q
          BY <1>1, <2>1, <3>2
        <4> HIDE DEF q, mantissa
        <4>3. mantissa \in Nat
          BY <1>1, <2>1
        <4> DEFINE l == mantissa * q
                   h == (mantissa + 1) * q
        <4>4. l \in Int /\ h \in Int /\ l <= m /\ m < h
          BY <4>1, <4>2, <4>3
        <4>5. l * One = mantissa * Unit(x)
          BY <1>1, <4>1, <4>3
        <4>6. h * One = mantissa * Unit(x) + Unit(x)
          <5>1. h * One = (mantissa + 1) * Unit(x)
            BY <1>1, <4>1, <4>3
          <5>2. Unit(x) \in Int
            BY <1>1, <4>1
          <5> QED BY <4>3, <5>1, <5>2
        <4> HIDE DEF l, h
        <4>7. l * One <= m * One /\ m * One < h * One
          BY <1>1, <1>4, <4>4, ProductLess
        <4> QED BY <4>5, <4>6, <4>7
      <3> QED BY <3>1, <3>2
    <2>7. /\ Sign(x) = Sign(w) /\ Abs(Value(x)) <= Abs(Signed(w)) * One
          /\ Abs(Signed(w)) * One < Abs(Value(x)) + Unit(x)
      BY <1>4, <2>4, <2>5, <2>6
    <2> QED BY <2>7 DEF x, n, o, a, w
  <1> QED BY <1>5, <1>6

(***************************************************************************)
(* The integer part of a number in range: its significand, shifted.        *)
(***************************************************************************)
LEMMA IntegerPart ==
  ASSUME Width - 1 <= Bias, NEW x \in Word, Exponent(x) >= Bias, Exponent(x) < Infinite
  PROVE  LET k == Exponent(x) - Bias
             shifted == IF k >= FracBits THEN Significand(x) * 2^(k - FracBits)
                                         ELSE Significand(x) \div 2^(FracBits - k)
         IN Size(x) \div One = shifted
  <1> DEFINE k == Exponent(x) - Bias
             m == Significand(x)
             u == Unit(x)
             shifted == IF k >= FracBits THEN m * 2^(k - FracBits) ELSE m \div 2^(FracBits - k)
  <1>1. /\ Bias \in Nat /\ Bias >= 3 /\ FracBits \in Nat /\ One \in Nat \ {0}
        /\ Exponent(x) \in Nat /\ k \in Nat /\ FracBits < Bias
    <2>1. Exponent(x) \in 0 .. Infinite /\ Infinite \in Nat
      BY Fields, Sizes
    <2> QED BY <2>1, Reach
  <1>2. /\ m \in Nat /\ u \in Nat \ {0} /\ Size(x) = m * u
        /\ u = 2^(Bias + k - 1)
    <2>1. Exponent(x) # 0 /\ Exponent(x) - 1 = Bias + k - 1
      BY <1>1
    <2> QED BY <2>1, Significands, Sizes, Units DEF Unit
  <1> HIDE DEF k, m, u
  <1>3. CASE k >= FracBits
    <2> DEFINE q == 2^(k - FracBits)
    <2>1. u = q * One /\ q \in Nat \ {0}
      <3>1. k - FracBits \in Nat /\ Bias + FracBits - 1 \in Nat
            /\ (k - FracBits) + (Bias + FracBits - 1) = Bias + k - 1
        BY <1>1, <1>3
      <3>2. 2^((k - FracBits) + (Bias + FracBits - 1)) = q * 2^(Bias + FracBits - 1)
        BY <3>1, PowerSum
      <3>3. q \in Nat \ {0}
        BY <3>1, PowerNat
      <3> QED BY <1>2, <3>1, <3>2, <3>3 DEF One
    <2> DEFINE s == m * q
    <2>2. shifted = s
      BY <1>3
    <2> HIDE DEF q
    <2>3. s \in Int /\ m * u = s * One
      BY <1>1, <1>2, <2>1
    <2> HIDE DEF s, shifted
    <2>4. s * One = s * One + 0 /\ s * One \in Int
      BY <1>1, <2>3
    <2>5. (m * u) \div One = s
      <3>1. 0 \in 0 .. One - 1 /\ m * u \in Int /\ One \in Nat \ {0} /\ m * u = s * One + 0
        BY <1>1, <2>3, <2>4
      <3> QED BY ONLY <2>3, <3>1, DivisionUnique
    <2>6. Size(x) \div One = shifted
      BY <1>2, <2>2, <2>5
    <2> QED BY <2>6 DEF shifted, k, m
  <1>4. CASE ~(k >= FracBits)
    <2> DEFINE b == 2^(FracBits - k)
    <2>1. One = b * u /\ b \in Nat \ {0}
      <3>1. FracBits - k \in Nat /\ Bias + k - 1 \in Nat
            /\ (FracBits - k) + (Bias + k - 1) = Bias + FracBits - 1
        BY <1>1, <1>4
      <3>2. 2^((FracBits - k) + (Bias + k - 1)) = b * 2^(Bias + k - 1)
        BY <3>1, PowerSum
      <3>3. b \in Nat \ {0}
        BY <3>1, PowerNat
      <3> QED BY <1>2, <3>1, <3>2, <3>3 DEF One
    <2> DEFINE s == m \div b
    <2>2. shifted = s
      BY <1>4
    <2> HIDE DEF b
    <2>3. s \in Nat /\ m * u - s * (u * b) \in Nat /\ m * u - s * (u * b) < u * b
      BY ONLY <1>2, <2>1, Lost
    <2> HIDE DEF s, shifted
    <2>4. u * b = One /\ m * u \in Int /\ s * One \in Int
      BY <1>1, <1>2, <2>1, <2>3
    <2>5. (m * u) \div One = s
      <3> DEFINE r == m * u - s * One
      <3>1. r \in 0 .. One - 1 /\ m * u = s * One + r
        BY <1>1, <2>3, <2>4
      <3> HIDE DEF r
      <3>2. s \in Int
        BY <2>3
      <3> QED BY ONLY <1>1, <2>4, <3>1, <3>2, DivisionUnique
    <2>6. Size(x) \div One = shifted
      BY <1>2, <2>2, <2>5
    <2> QED BY <2>6 DEF shifted, k, m
  <1> QED BY <1>3, <1>4

LEMMA BelowOne ==
  ASSUME Width - 1 <= Bias, NEW x \in Word, Exponent(x) < Bias
  PROVE  Size(x) \div One = 0
  <1>1. /\ Bias \in Nat /\ Bias >= 3 /\ FracBits \in Nat /\ One \in Nat \ {0}
        /\ Exponent(x) \in Nat /\ Size(x) \in Nat
    BY Reach, Fields, Sizes, Units
  <1>2. Size(x) < One
    <2>1. CASE Exponent(x) = 0
      BY <1>1, <2>1, Units
    <2>2. CASE Exponent(x) # 0
      <3> DEFINE m == Significand(x)
                 u == Unit(x)
                 P == FracSize
                 v == 2^(Bias - 1)
      <3>1. m \in Nat /\ m < 2 * P /\ P \in Nat \ {0} /\ u \in Nat \ {0} /\ Size(x) = m * u
        BY <2>2, Significands, Sizes, Units
      <3>2. 2 * u <= v /\ v \in Nat /\ One = P * v
        <4>1. Exponent(x) - 1 \in Nat /\ Bias - 1 \in Nat /\ Exponent(x) - 1 < Bias - 1
              /\ FracBits + (Bias - 1) = Bias + FracBits - 1
          BY <1>1, <2>2
        <4>2. u = 2^(Exponent(x) - 1)
          BY <2>2 DEF Unit
        <4>3. 2^(FracBits + (Bias - 1)) = P * v
          BY <1>1, <4>1, PowerSum DEF FracSize
        <4> QED BY <4>1, <4>2, <4>3, PowerLess, PowerNat DEF One
      <3> HIDE DEF m, u, P, v
      <3>3. m * u < (2 * P) * u /\ (2 * P) * u = P * (2 * u) /\ P * (2 * u) <= P * v
        BY <3>1, <3>2
      <3>4. m * u \in Int /\ (2 * P) * u \in Int /\ P * v \in Int
        BY <3>1, <3>2
      <3> QED BY <3>1, <3>2, <3>3, <3>4
    <2> QED BY <2>1, <2>2
  <1>3. Size(x) = 0 * One + Size(x) /\ Size(x) \in 0 .. One - 1 /\ Size(x) \in Int
    BY <1>1, <1>2
  <1> QED BY ONLY <1>1, <1>3, DivisionUnique

LEMMA BeyondWords ==
  ASSUME Width - 1 <= Bias, NEW x \in Word, Exponent(x) = Infinite
  PROVE  Size(x) \div One >= 2^(Width - 1)
  <1> DEFINE half == 2^(Width - 1)
             m == Significand(x)
             u == Unit(x)
             P == FracSize
             v == 2^(Bias + 1)
             w == 2^(Bias - 1)
  <1>1. /\ Bias \in Nat /\ Bias >= 3 /\ FracBits \in Nat /\ One \in Nat \ {0}
        /\ Width - 1 \in Nat /\ Infinite = 2 * Bias + 1 /\ Width - 1 <= Bias
    BY Reach
  <1>2. m \in Nat /\ P <= m /\ P \in Nat \ {0} /\ u \in Nat \ {0} /\ Size(x) = m * u
        /\ Size(x) \in Nat
    BY <1>1, Significands, Sizes, Units
  <1>3. half <= v /\ v \in Nat \ {0} /\ half \in Nat
    BY <1>1, PowerLess, PowerNat
  <1>4. u = v * w /\ One = P * w /\ w \in Nat \ {0}
    <2>1. /\ Bias + 1 \in Nat /\ Bias - 1 \in Nat
          /\ (Bias + 1) + (Bias - 1) = Exponent(x) - 1
          /\ FracBits + (Bias - 1) = Bias + FracBits - 1 /\ Exponent(x) # 0
      BY <1>1
    <2>2. 2^((Bias + 1) + (Bias - 1)) = v * w /\ 2^(FracBits + (Bias - 1)) = P * w
      BY <1>1, <2>1, PowerSum DEF FracSize
    <2>3. u = 2^(Exponent(x) - 1)
      BY <2>1 DEF Unit
    <2>4. w \in Nat \ {0}
      BY <2>1, PowerNat
    <2> QED BY <2>1, <2>2, <2>3, <2>4 DEF One
  <1> HIDE DEF half, m, u, P, v, w
  <1>5. Size(x) >= v * One
    <2>1. P * u <= m * u /\ P * u = v * One /\ m * u \in Int /\ P * u \in Int
      BY <1>2, <1>3, <1>4
    <2> QED BY <1>2, <2>1
  <1> DEFINE t == Size(x) \div One
  <1>6. t \in Int /\ Size(x) % One \in 0 .. One - 1 /\ Size(x) = t * One + (Size(x) % One)
    <2>1. Size(x) \in Int /\ One \in Nat \ {0}
      BY <1>1, <1>2
    <2> QED BY ONLY <2>1, Division
  <1> HIDE DEF t
  <1>7. v < t + 1
    <2>1. (t + 1) * One = t * One + One /\ t * One \in Int /\ v * One \in Int
      BY <1>1, <1>3, <1>6
    <2>2. v * One < (t + 1) * One /\ t + 1 \in Int
      BY <1>1, <1>2, <1>5, <1>6, <2>1
    <2> QED BY <1>1, <1>3, <2>2, ProductLess
  <1>8. t >= half
    BY <1>3, <1>6, <1>7
  <1> QED BY <1>8 DEF t, half

LEMMA IntegerHolds ==
  ASSUME Width - 1 <= Bias, NEW x \in Word,
         Size(x) \div One < 2^(Width - 1)
  PROVE  Signed(ToInteger(x)) = (1 - 2 * Sign(x)) * (Size(x) \div One)
  <1> DEFINE t == Size(x) \div One
             half == 2^(Width - 1)
             k == Exponent(x) - Bias
             unbiased == (Exponent(x) - Bias) % 2^ExpBits
             shifted(n) == IF n >= FracBits
                           THEN Significand(x) * 2^(n - FracBits)
                           ELSE Significand(x) \div 2^(FracBits - n)
  <1>1. /\ Bias \in Nat /\ Bias >= 3 /\ Infinite = 2 * Bias + 1 /\ ExpSize = 2 * Bias + 2
        /\ Width \in Nat /\ Width - 1 <= Bias /\ Width >= 4 /\ One \in Nat \ {0}
    BY Reach
  <1>2. /\ Exponent(x) \in 0 .. Infinite /\ Sign(x) \in {0, 1} /\ Size(x) \in Nat
    BY Fields, Units
  <1>3. Exponent(x) # Infinite
    <2>1. t < half /\ t \in Int /\ half \in Int
      BY <1>1, <1>2, PowerNat
    <2>2. Exponent(x) = Infinite => t >= half
      BY BeyondWords
    <2> HIDE DEF t, half
    <2> QED BY <2>1, <2>2
  <1>4. ToInteger(x) = IF Exponent(x) = 0 \/ unbiased > Width - 2 THEN 0
                       ELSE IF Sign(x) = 1 THEN Negated(shifted(unbiased))
                                           ELSE shifted(unbiased)
    BY <1>3 DEF ToInteger
  <1>5. Signed(0) = 0 /\ half \in Nat \ {0}
    <2>1. half \in Nat \ {0}
      BY <1>1, PowerNat
    <2> QED BY <2>1, SignedResult
  <1> HIDE DEF unbiased, shifted
  <1>6. CASE Exponent(x) < Bias
    <2>1. t = 0
      BY <1>6, BelowOne
    <2>2. Exponent(x) = 0 \/ unbiased > Width - 2
      <3>1. CASE Exponent(x) = 0
        BY <3>1
      <3>2. CASE Exponent(x) # 0
        <4> DEFINE r == k + ExpSize
        <4>1. /\ r \in 0 .. ExpSize - 1 /\ r > Width - 2 /\ ExpSize \in Nat \ {0}
              /\ k = (-1) * ExpSize + r /\ k \in Int /\ -1 \in Int
          BY <1>1, <1>2, <1>6, <3>2
        <4> HIDE DEF r, k
        <4>2. k % ExpSize = r
          BY ONLY <4>1, DivisionUnique
        <4> QED BY <4>1, <4>2 DEF unbiased, k, ExpSize
      <3> QED BY <3>1, <3>2
    <2>3. ToInteger(x) = 0
      BY <1>4, <2>2
    <2> HIDE DEF t
    <2>4. Signed(ToInteger(x)) = (1 - 2 * Sign(x)) * t
      BY <1>2, <1>5, <2>1, <2>3
    <2> QED BY <2>4 DEF t
  <1>7. CASE ~(Exponent(x) < Bias)
    <2>1. k \in Nat /\ k \in 0 .. ExpSize - 1 /\ ExpSize \in Nat \ {0} /\ Exponent(x) # 0
          /\ Exponent(x) >= Bias /\ Exponent(x) < Infinite
      BY <1>1, <1>2, <1>3, <1>7
    <2>2. unbiased = k
      <3>1. k % ExpSize = k
        <4> HIDE DEF k
        <4> QED BY ONLY <2>1, SmallRemainder
      <3> QED BY <3>1 DEF unbiased, ExpSize
    <2>3. t = shifted(k)
      BY <2>1, IntegerPart DEF shifted
    <2>4. t \in Nat /\ 2^k <= t
      BY <2>1, <2>3, ShiftedSignificand DEF shifted
    <2>5. t < half
      OBVIOUS
    <2>6. k <= Width - 2
      <3> SUFFICES ASSUME ~(k <= Width - 2) PROVE FALSE
        OBVIOUS
      <3>1. Width - 1 <= k /\ Width - 1 \in Nat
        BY <1>1, <2>1
      <3>2. half <= 2^k /\ 2^k \in Nat
        BY <2>1, <3>1, PowerLess, PowerNat
      <3> HIDE DEF t, half, k
      <3> QED BY <1>5, <2>4, <2>5, <3>2
    <2>7. 2^k \in Nat \ {0}
      BY <2>1, PowerNat
    <2> HIDE DEF t, k
    <2>8. t # 0
      BY <2>4, <2>7
    <2>9. ToInteger(x) = IF Sign(x) = 1 THEN Negated(t) ELSE t
      BY <1>1, <1>4, <2>1, <2>2, <2>3, <2>6
    <2>10. Signed(t) = t /\ Signed(Negated(t)) = -t
      BY <2>4, <2>5, <2>8, SignedResult
    <2>11. Signed(ToInteger(x)) = (1 - 2 * Sign(x)) * t
      BY <1>2, <2>4, <2>9, <2>10
    <2> QED BY <2>11 DEF t
  <1> QED BY <1>6, <1>7

(***************************************************************************)
(* The conversions, for every format whose exponent reaches the magnitude  *)
(* of every word, as 8 and 23 bits do; in another format the exponent of a *)
(* large word wraps around.                                                *)
(***************************************************************************)
THEOREM Converted ==
  ASSUME Width - 1 <= Bias
  PROVE  Spec => []ConvertsTruncating
  <1>1. PipeInv => ConvertsTruncating
    <2> SUFFICES ASSUME PipeInv PROVE ConvertsTruncating
      OBVIOUS
    <2>1. operation \in Operations /\ Op1 \in Word /\ operation.op1 = Op1
      BY AnOperation DEF PipeInv, PipeTypes, Operations, Op1
    <2>2. ASSUME Ready({"FCVT_W_S"}), Abs(Value(Op1)) \div One < 2^(Width - 1)
          PROVE  Signed(result) = (1 - 2 * Sign(Op1)) * (Abs(Value(Op1)) \div One)
      <3>1. valid = 4 /\ operation.instruction = "FCVT_W_S"
        BY <2>2 DEF Ready
      <3>2. /\ s4.operation = operation /\ s3.int_result = Operated(Aligned(operation)).int_result
        BY <3>1, AtResult
      <3>3. result = ToInteger(Op1)
        <4>1. Aligned(operation).operation = operation
          BY <2>1, AlignedTypes
        <4>2. Operated(Aligned(operation)).int_result = ToInteger(Op1)
          BY <2>1, <3>1, <4>1 DEF Operated
        <4> QED BY <3>1, <3>2, <4>2 DEF result
      <3>4. Abs(Value(Op1)) = Size(Op1)
        BY <2>1, Values
      <3> QED BY <2>1, <2>2, <3>3, <3>4, IntegerHolds
    <2>3. ASSUME Ready({"FCVT_S_W"})
          PROVE  LET exact == Abs(Signed(Op1)) * One
                 IN /\ Sign(result) = Sign(Op1)
                    /\ Abs(Value(result)) <= exact
                    /\ exact < Abs(Value(result)) + Unit(result)
      <3>1. valid = 4 /\ operation.instruction = "FCVT_S_W"
        BY <2>3 DEF Ready
      <3>2. /\ s4.operation = operation
            /\ s4.normalised = Normalised(Operated(Aligned(operation))).normalised
        BY <3>1, AtResult
      <3>3. result = Composed(Normalised(Operated(Aligned(operation))).normalised)
        BY <3>1, <3>2 DEF result
      <3> QED BY <2>1, <3>1, <3>3, FromInteger
    <2> QED BY <2>2, <2>3 DEF ConvertsTruncating
  <1> QED BY <1>1, Pipelined, PTL

=============================================================================

-------------------------- MODULE Assembler_proofs --------------------------
(***************************************************************************)
(* What the assembler promises of every source: words are 32 bits, a data  *)
(* label is the address its word is loaded to, a jump's distance is the    *)
(* one in the program, and the decoder reads what was written.             *)
(***************************************************************************)
EXTENDS Assembler, FiniteSetTheorems, FunctionTheorems, WellFoundedInduction, TLAPS

-----------------------------------------------------------------------------
(***************************************************************************)
(* Induction, for a set of natural numbers, and powers of two.             *)
(***************************************************************************)
LEMMA SmallestElement ==
  ASSUME NEW S \in SUBSET Nat, S # {}
  PROVE  \E j \in S : \A k \in S : j <= k
  <1> DEFINE Smaller == {p \in Nat \X Nat : p[1] < p[2]}
  <1>1. IsWellFoundedOn(Smaller, Nat)
    BY NatLessThanWellFounded, Zenon DEF OpToRel
  <1>2. PICK j \in S : \A k \in S : <<k, j>> \notin Smaller
    <2> HIDE DEF Smaller
    <2> QED BY <1>1, WFMin
  <1>3. ASSUME NEW k \in S PROVE j <= k
    <2>1. <<k, j>> \in Smaller <=> k < j
      OBVIOUS
    <2> QED BY <1>2, <2>1
  <1> QED BY <1>3

LEMMA Induction ==
  ASSUME NEW S, 0 \in S, \A n \in Nat : n \in S => n + 1 \in S
  PROVE  Nat \subseteq S
  <1> DEFINE Others == {n \in Nat : n \notin S}
  <1> SUFFICES ASSUME Others # {} PROVE FALSE
    OBVIOUS
  <1>1. PICK j \in Others : \A k \in Others : j <= k
    <2> HIDE DEF Others
    <2>1. Others \in SUBSET Nat
      BY DEF Others
    <2> QED BY <2>1, SmallestElement
  <1>2. j - 1 \in Nat /\ j - 1 \in S
    BY <1>1
  <1> QED BY <1>1, <1>2

-----------------------------------------------------------------------------
(***************************************************************************)
(* Powers of two.                                                          *)
(***************************************************************************)

LEMMA PowerDoubles == ASSUME NEW n \in Nat PROVE 2^(n + 1) = 2 * 2^n
  <1> DEFINE S == SUBSET (1 .. n)
             T == {A \cup {n + 1} : A \in S}
             f == [A \in S |-> A \cup {n + 1}]
  <1>1. IsFiniteSet(S) /\ Cardinality(S) = 2^n
    <2>1. IsFiniteSet(1 .. n) /\ Cardinality(1 .. n) = n
      BY FS_Interval
    <2> QED BY <2>1, FS_SUBSET
  <1>2. IsFiniteSet(SUBSET (1 .. n + 1)) /\ Cardinality(SUBSET (1 .. n + 1)) = 2^(n + 1)
    <2>1. IsFiniteSet(1 .. n + 1) /\ Cardinality(1 .. n + 1) = n + 1
      BY FS_Interval
    <2> QED BY <2>1, FS_SUBSET
  <1>3. \A A \in S : n + 1 \notin A
    OBVIOUS
  <1>4. IsFiniteSet(T) /\ Cardinality(T) = Cardinality(S)
    <2>1. f \in [S -> T] /\ \A B \in T : \E A \in S : f[A] = B
      BY Zenon
    <2>2. ASSUME NEW A \in S, NEW B \in S, f[A] = f[B] PROVE A = B
      BY <1>3, <2>2
    <2>3. f \in Bijection(S, T)
      <3> HIDE DEF S, T, f
      <3> QED BY <2>1, <2>2, Fun_IsBij, Zenon
    <2>4. ExistsBijection(S, T)
      BY <2>3, Zenon DEF ExistsBijection
    <2> HIDE DEF S, T, f
    <2> QED BY <1>1, <2>4, FS_Bijection
  <1>5. SUBSET (1 .. n + 1) = S \cup T
    <2>1. ASSUME NEW A \in SUBSET (1 .. n + 1) PROVE A \in S \cup T
      <3>1. CASE n + 1 \in A
        <4>1. A \ {n + 1} \in S /\ A = (A \ {n + 1}) \cup {n + 1}
          BY <3>1
        <4> QED BY <4>1, Zenon
      <3>2. CASE n + 1 \notin A
        BY <3>2
      <3> QED BY <3>1, <3>2
    <2>2. S \cup T \subseteq SUBSET (1 .. n + 1)
      <3>1. 1 .. n \subseteq 1 .. n + 1 /\ n + 1 \in 1 .. n + 1
        OBVIOUS
      <3> QED BY <3>1, Zenon
    <2> HIDE DEF S, T
    <2> QED BY <2>1, <2>2
  <1>6. S \cap T = {}
    BY <1>3
  <1> HIDE DEF S, T, f
  <1>7. Cardinality(S \cup T) = Cardinality(S) + Cardinality(T) - Cardinality({})
    BY <1>1, <1>4, <1>6, FS_Union
  <1>8. Cardinality({}) = 0 /\ 2^n \in Int
    BY <1>1, FS_EmptySet, FS_CardinalityType
  <1>9. 2^(n + 1) = Cardinality(S \cup T)
    BY <1>2, <1>5
  <1> QED BY <1>1, <1>4, <1>7, <1>8, <1>9

LEMMA PowerZero == 2^0 = 1 /\ 2^1 = 2
  OBVIOUS

LEMMA PowerNat == ASSUME NEW n \in Nat PROVE 2^n \in Nat \ {0}
  <1> DEFINE S == {k \in Nat : 2^k \in Nat \ {0}}
  <1>1. 0 \in S
    BY PowerZero
  <1>2. \A k \in Nat : k \in S => k + 1 \in S
    BY PowerDoubles
  <1> HIDE DEF S
  <1>3. Nat \subseteq S
    BY <1>1, <1>2, Induction
  <1> QED BY <1>3 DEF S

LEMMA PowerSum == ASSUME NEW m \in Nat, NEW n \in Nat PROVE 2^(m + n) = 2^m * 2^n
  <1> DEFINE S == {k \in Nat : 2^(m + k) = 2^m * 2^k}
  <1>1. 0 \in S
    BY PowerZero, PowerNat
  <1>2. ASSUME NEW k \in Nat, k \in S PROVE k + 1 \in S
    <2>1. 2^(m + (k + 1)) = 2 * 2^(m + k) /\ 2^(k + 1) = 2 * 2^k
      <3>1. m + (k + 1) = (m + k) + 1 /\ m + k \in Nat
        OBVIOUS
      <3> QED BY <3>1, PowerDoubles
    <2>2. 2^m \in Nat /\ 2^k \in Nat
      BY PowerNat
    <2>3. \A a, b \in Nat : 2 * (a * b) = a * (2 * b)
      OBVIOUS
    <2> QED BY <1>2, <2>1, <2>2, <2>3
  <1> HIDE DEF S
  <1>3. Nat \subseteq S
    BY <1>1, <1>2, Induction
  <1> QED BY <1>3 DEF S

LEMMA PowerLess ==
  ASSUME NEW m \in Nat, NEW n \in Nat
  PROVE  /\ m <= n => 2^m <= 2^n /\ 2^n = 2^m * 2^(n - m)
         /\ m < n => 2^m < 2^n /\ 2 * 2^m <= 2^n
  <1>1. ASSUME NEW i \in Nat, NEW j \in Nat, i <= j
        PROVE  2^i <= 2^j /\ 2^j = 2^i * 2^(j - i)
    <2>1. j - i \in Nat /\ i + (j - i) = j
      BY <1>1
    <2>2. 2^j = 2^i * 2^(j - i)
      BY <2>1, PowerSum
    <2>3. 2^i \in Nat \ {0} /\ 2^(j - i) \in Nat \ {0}
      BY <2>1, PowerNat
    <2>4. \A a, b \in Nat \ {0} : a <= a * b
      OBVIOUS
    <2> QED BY <2>2, <2>3, <2>4
  <1>2. ASSUME m < n PROVE 2^m < 2^n /\ 2 * 2^m <= 2^n
    <2>1. 2^(m + 1) <= 2^n /\ 2^(m + 1) = 2 * 2^m /\ 2^m \in Nat \ {0} /\ 2^n \in Nat
      BY <1>1, <1>2, PowerDoubles, PowerNat
    <2> QED BY <2>1
  <1> QED BY <1>1, <1>2

LEMMA Division ==
  ASSUME NEW a \in Int, NEW b \in Nat \ {0}
  PROVE  /\ a \div b \in Int /\ a % b \in 0 .. b - 1
         /\ a = (a \div b) * b + (a % b)
  OBVIOUS

LEMMA DivisionUnique ==
  ASSUME NEW a \in Int, NEW b \in Nat \ {0}, NEW q \in Int, NEW r \in 0 .. b - 1,
         a = q * b + r
  PROVE  a \div b = q /\ a % b = r
  OBVIOUS

-----------------------------------------------------------------------------
(***************************************************************************)
(* The bits of a number.                                                   *)
(***************************************************************************)

\* Division by a product, in two steps.
LEMMA TwoDivisions ==
  ASSUME NEW a \in Int, NEW b \in Nat \ {0}, NEW c \in Nat \ {0}
  PROVE  (a \div b) \div c = a \div (b * c)
  <1> DEFINE q == a \div b
             r == a % b
             p == q \div c
             s == q % c
  <1>1. q \in Int /\ r \in 0 .. b - 1 /\ a = q * b + r
    BY Division
  <1>2. p \in Int /\ s \in 0 .. c - 1 /\ q = p * c + s
    <2> HIDE DEF q
    <2> QED BY <1>1, Division
  <1> HIDE DEF q, r, p, s
  <1>3. a = p * (b * c) + (s * b + r)
    <2>1. a = (p * c + s) * b + r
      BY <1>1, <1>2
    <2>2. (p * c + s) * b = p * (b * c) + s * b
      BY <1>2
    <2> QED BY <1>1, <1>2, <2>1, <2>2
  <1>4. s * b + r \in 0 .. b * c - 1 /\ b * c \in Nat \ {0}
    <2>1. 0 <= s * b /\ s * b <= (c - 1) * b /\ s * b \in Int
      BY <1>2
    <2>2. (c - 1) * b = b * c - b /\ b * c \in Nat \ {0}
      OBVIOUS
    <2> QED BY <1>1, <2>1, <2>2
  <1>5. a \div (b * c) = p
    <2>1. b * c \in Nat \ {0} /\ p \in Int /\ s * b + r \in 0 .. b * c - 1
      BY <1>2, <1>4
    <2> QED BY <1>3, <2>1, DivisionUnique
  <1> QED BY <1>5 DEF p, q

LEMMA QuotientShift ==
  ASSUME NEW v \in Int, NEW i \in Nat, NEW lo \in Nat
  PROVE  (v \div 2^lo) \div 2^i = v \div 2^(lo + i)
  <1>1. 2^lo \in Nat \ {0} /\ 2^i \in Nat \ {0} /\ 2^(lo + i) = 2^lo * 2^i
    BY PowerNat, PowerSum
  <1>2. (v \div 2^lo) \div 2^i = v \div (2^lo * 2^i)
    BY <1>1, TwoDivisions
  <1> QED BY <1>1, <1>2

\* A field of a + b bits is its lower a bits and the b above them.
LEMMA BitsJoin ==
  ASSUME NEW v \in Int, NEW a \in Nat, NEW b \in Nat
  PROVE  Bits(v, a + b) = Bits(v, a) \cup At(Bits(v \div 2^a, b), a)
  <1>1. ASSUME NEW i \in Int
        PROVE  i \in Bits(v, a + b) <=> i \in Bits(v, a) \/ i - a \in Bits(v \div 2^a, b)
    <2>1. CASE i < a
      <3>1. i - a \notin Bits(v \div 2^a, b)
        BY <2>1 DEF Bits
      <3> QED BY <2>1, <3>1 DEF Bits
    <2>2. CASE i >= a
      <3>1. (v \div 2^a) \div 2^(i - a) = v \div 2^i
        <4>1. i - a \in Nat /\ a + (i - a) = i
          BY <2>2
        <4>2. (v \div 2^a) \div 2^(i - a) = v \div 2^(a + (i - a))
          BY ONLY <4>1, v \in Int, a \in Nat, QuotientShift
        <4> QED BY <4>1, <4>2
      <3>2. i \in 0 .. (a + b) - 1 <=> i - a \in 0 .. b - 1
        BY <2>2
      <3>3. i \notin 0 .. a - 1
        BY <2>2
      <3> QED BY <3>1, <3>2, <3>3 DEF Bits
    <2> QED BY <2>1, <2>2
  <1>2. ASSUME NEW i PROVE i \in At(Bits(v \div 2^a, b), a)
                             <=> i \in Int /\ i - a \in Bits(v \div 2^a, b)
    <2>1. Bits(v \div 2^a, b) \subseteq Int
      BY DEF Bits
    <2> HIDE DEF Bits
    <2>2. \A j \in Int : j + a = i => i \in Int /\ j = i - a
      OBVIOUS
    <2>3. i \in Int => (i - a) + a = i
      OBVIOUS
    <2> QED BY <2>1, <2>2, <2>3 DEF At
  <1>3. Bits(v, a + b) \subseteq Int /\ Bits(v, a) \subseteq Int
    BY DEF Bits
  <1> QED BY <1>1, <1>2, <1>3

(***************************************************************************)
(* Number adds up what Bits takes apart.                                   *)
(***************************************************************************)
Weight(bits, i) == IF i \in bits THEN 2^i ELSE 0

LEMMA WeightNat == ASSUME NEW bits, NEW i \in Nat PROVE Weight(bits, i) \in Nat
  BY PowerNat DEF Weight

\* The recursion of Number has a solution.
Summing(bits, n) ==
  {sum \in [0 .. n -> Nat] :
     \A i \in 0 .. n : sum[i] = Weight(bits, i) + (IF i = 0 THEN 0 ELSE sum[i - 1])}

LEMMA SumExists == ASSUME NEW bits, NEW n \in Nat PROVE Summing(bits, n) # {}
  <1> DEFINE S == {k \in Nat : Summing(bits, k) # {}}
  <1>1. 0 \in S
    <2> DEFINE sum == [i \in 0 .. 0 |-> Weight(bits, i)]
    <2>1. sum \in Summing(bits, 0)
      BY WeightNat DEF Summing
    <2> QED BY <2>1
  <1>2. ASSUME NEW k \in Nat, k \in S PROVE k + 1 \in S
    <2>1. PICK low : low \in Summing(bits, k)
      BY <1>2
    <2> DEFINE w == Weight(bits, k + 1)
               sum == [i \in 0 .. k + 1 |-> IF i = k + 1 THEN w + low[k] ELSE low[i]]
    <2>2. w \in Nat /\ low \in [0 .. k -> Nat] /\ low[k] \in Nat
      BY <2>1, WeightNat DEF Summing
    <2> HIDE DEF w
    <2>3. sum \in [0 .. k + 1 -> Nat]
      <3>1. w + low[k] \in Nat /\ \A i \in 0 .. k + 1 : i # k + 1 => low[i] \in Nat
        BY <2>2
      <3> QED BY <3>1
    <2>4. ASSUME NEW i \in 0 .. k + 1
          PROVE  sum[i] = Weight(bits, i) + (IF i = 0 THEN 0 ELSE sum[i - 1])
      <3>1. CASE i = k + 1
        <4>1. i # 0 /\ i - 1 = k /\ k \in 0 .. k + 1 /\ k # k + 1
          BY <3>1
        <4>2. sum[i] = w + low[k] /\ sum[i - 1] = low[k]
          BY <3>1, <4>1
        <4> QED BY <3>1, <4>1, <4>2 DEF w
      <3>2. CASE i # k + 1
        <4>1. i \in 0 .. k /\ (i # 0 => i - 1 \in 0 .. k /\ i - 1 \in 0 .. k + 1
                                        /\ i - 1 # k + 1)
          BY <3>2
        <4>2. low[i] = Weight(bits, i) + (IF i = 0 THEN 0 ELSE low[i - 1])
          BY <2>1, <4>1 DEF Summing
        <4>3. sum[i] = low[i] /\ (i # 0 => sum[i - 1] = low[i - 1])
          BY <3>2, <4>1
        <4> QED BY <4>2, <4>3
      <3> QED BY <3>1, <3>2
    <2> HIDE DEF sum
    <2>5. sum \in Summing(bits, k + 1)
      BY <2>3, <2>4 DEF Summing
    <2> QED BY <2>5
  <1> HIDE DEF S
  <1>3. Nat \subseteq S
    BY <1>1, <1>2, Induction
  <1> QED BY <1>3 DEF S

LEMMA NumberSums ==
  ASSUME NEW bits
  PROVE  \E sum \in Summing(bits, 30) : Number(bits) = sum[30]
  <1> DEFINE P(s) == s = [i \in 0 .. 30 |-> (IF i \in bits THEN 2^i ELSE 0)
                                              + (IF i = 0 THEN 0 ELSE s[i - 1])]
             sum == CHOOSE s : P(s)
  <1>1. PICK s \in Summing(bits, 30) : TRUE
    BY SumExists
  <1>2. P(s)
    BY <1>1 DEF Summing, Weight
  <1>3. P(sum)
    <2> HIDE DEF P
    <2> QED BY <1>2
  <1>4. Number(bits) = sum[30]
    BY DEF Number
  <1> HIDE DEF sum
  <1>5. \A i \in 0 .. 30 : sum[i] = Weight(bits, i) + (IF i = 0 THEN 0 ELSE sum[i - 1])
    BY <1>3 DEF Weight
  <1>6. sum = s
    <2> DEFINE T == {k \in Nat : k <= 30 => sum[k] = s[k]}
    <2>1. 0 \in T
      BY <1>1, <1>5 DEF Summing
    <2>2. ASSUME NEW k \in Nat, k \in T PROVE k + 1 \in T
      <3> SUFFICES ASSUME k + 1 <= 30 PROVE sum[k + 1] = s[k + 1]
        OBVIOUS
      <3>1. k + 1 \in 0 .. 30 /\ k + 1 # 0 /\ (k + 1) - 1 = k /\ sum[k] = s[k]
        BY <2>2
      <3>2. /\ sum[k + 1] = Weight(bits, k + 1) + sum[(k + 1) - 1]
            /\ s[k + 1] = Weight(bits, k + 1) + s[(k + 1) - 1]
        BY <1>1, <1>5, <3>1 DEF Summing
      <3> QED BY <3>1, <3>2
    <2> HIDE DEF T
    <2>3. Nat \subseteq T
      BY <2>1, <2>2, Induction
    <2>4. \A k \in 0 .. 30 : sum[k] = s[k]
      BY <2>3 DEF T
    <2>5. DOMAIN sum = 0 .. 30 /\ sum = [i \in 0 .. 30 |-> sum[i]]
      BY <1>3
    <2>6. s = [i \in 0 .. 30 |-> s[i]]
      BY <1>1 DEF Summing
    <2> QED BY <2>4, <2>5, <2>6
  <1> QED BY <1>1, <1>4, <1>6

LEMMA NextBit ==
  ASSUME NEW v \in Int, NEW i \in Nat
  PROVE  /\ v % 2^(i + 1) = (v % 2^i) + (IF (v \div 2^i) % 2 = 1 THEN 2^i ELSE 0)
         /\ v % 2^i \in Nat
  <1> DEFINE b == 2^i
             q == v \div b
             r == v % b
  <1>1. b \in Nat \ {0} /\ 2^(i + 1) = 2 * b
    BY PowerNat, PowerDoubles
  <1> HIDE DEF b
  <1>2. q \in Int /\ r \in 0 .. b - 1 /\ v = q * b + r
    BY <1>1, Division
  <1> HIDE DEF q, r
  <1>3. q = 2 * (q \div 2) + (q % 2) /\ q \div 2 \in Int /\ q % 2 \in {0, 1}
    BY <1>2
  <1> DEFINE p == q \div 2
             low == IF q % 2 = 1 THEN b + r ELSE r
  <1>4. low \in 0 .. 2 * b - 1 /\ 2 * b \in Nat \ {0} /\ p \in Int
    BY <1>1, <1>2, <1>3
  <1>5. v = p * (2 * b) + low
    <2>1. CASE q % 2 = 1
      <3>1. q = 2 * p + 1
        BY <1>3, <2>1
      <3> HIDE DEF p
      <3>2. (2 * p + 1) * b = p * (2 * b) + b
        BY <1>1, <1>4
      <3> QED BY <1>1, <1>2, <1>4, <2>1, <3>1, <3>2
    <2>2. CASE q % 2 = 0
      <3>1. q = 2 * p
        BY <1>3, <2>2
      <3> HIDE DEF p
      <3>2. (2 * p) * b = p * (2 * b)
        BY <1>1, <1>4
      <3> QED BY <1>1, <1>2, <1>4, <2>2, <3>1, <3>2
    <2> QED BY <1>3, <2>1, <2>2
  <1> HIDE DEF p, low
  <1>6. v % (2 * b) = low
    BY <1>4, <1>5, DivisionUnique
  <1>7. low = r + (IF q % 2 = 1 THEN b ELSE 0) /\ r \in Nat
    BY <1>1, <1>2 DEF low
  <1>8. v % 2^(i + 1) = r + (IF q % 2 = 1 THEN b ELSE 0)
    BY <1>1, <1>6, <1>7
  <1> QED BY <1>7, <1>8, Zenon DEF q, r, b

LEMMA NumberOfBits ==
  ASSUME NEW v \in Int, NEW n \in 0 .. 31
  PROVE  Number(Bits(v, n)) = v % 2^n
  <1> DEFINE bits == Bits(v, n)
             upTo(k) == IF k + 1 <= n THEN k + 1 ELSE n
  <1>1. PICK sum \in Summing(bits, 30) : Number(bits) = sum[30]
    BY NumberSums
  <1> DEFINE S == {k \in Nat : k <= 30 => sum[k] = v % 2^upTo(k)}
  <1>2. 0 \in S
    <2>1. sum[0] = Weight(bits, 0) + 0 /\ Weight(bits, 0) \in Nat
      BY <1>1, WeightNat DEF Summing
    <2>2. v % 2^0 = 0 /\ 2^0 = 1 /\ 2^(0 + 1) = 2 /\ v \div 2^0 = v
      OBVIOUS
    <2>3. CASE n = 0
      <3>1. 0 \notin bits
        BY <2>3 DEF Bits
      <3>2. sum[0] = 0 /\ upTo(0) = 0
        BY <2>1, <2>3, <3>1 DEF Weight
      <3> QED BY <2>2, <3>2
    <2>4. CASE n # 0
      <3>1. 0 \in bits <=> v % 2 = 1
        BY <2>2, <2>4 DEF Bits
      <3>2. sum[0] = v % 2 /\ upTo(0) = 1
        BY <2>1, <2>2, <2>4, <3>1 DEF Weight
      <3> QED BY <2>2, <3>2
    <2> QED BY <2>3, <2>4
  <1>3. ASSUME NEW k \in Nat, k \in S PROVE k + 1 \in S
    <2> SUFFICES ASSUME k + 1 <= 30 PROVE sum[k + 1] = v % 2^upTo(k + 1)
      OBVIOUS
    <2>1. sum[k + 1] = Weight(bits, k + 1) + sum[k] /\ sum[k] = v % 2^upTo(k)
      <3>1. k + 1 \in 0 .. 30 /\ k + 1 # 0 /\ (k + 1) - 1 = k
        OBVIOUS
      <3>2. sum[k + 1] = Weight(bits, k + 1) + sum[(k + 1) - 1]
        BY <1>1, <3>1 DEF Summing
      <3> QED BY <1>3, <3>1, <3>2
    <2>2. CASE k + 1 < n
      <3>1. upTo(k) = k + 1 /\ upTo(k + 1) = (k + 1) + 1
        BY <2>2
      <3>2. k + 1 \in bits <=> (v \div 2^(k + 1)) % 2 = 1
        BY <2>2 DEF Bits
      <3>3. v % 2^((k + 1) + 1) = (v % 2^(k + 1)) + Weight(bits, k + 1)
            /\ v % 2^(k + 1) \in Nat
        BY <3>2, NextBit DEF Weight
      <3>4. Weight(bits, k + 1) \in Nat
        BY WeightNat
      <3> HIDE DEF upTo
      <3> QED BY <2>1, <3>1, <3>3, <3>4
    <2>3. CASE k + 1 >= n
      <3>1. upTo(k) = n /\ upTo(k + 1) = n
        BY <2>3
      <3>2. k + 1 \notin bits
        BY <2>3 DEF Bits
      <3>3. Weight(bits, k + 1) = 0 /\ v % 2^n \in Nat
        BY <3>2, NextBit DEF Weight
      <3> HIDE DEF upTo
      <3> QED BY <2>1, <3>1, <3>3
    <2> QED BY <2>2, <2>3
  <1> HIDE DEF S
  <1>4. Nat \subseteq S
    BY <1>2, <1>3, Induction
  <1>5. sum[30] = v % 2^upTo(30)
    <2> HIDE DEF upTo
    <2>1. 30 \in S /\ 30 <= 30
      BY <1>4
    <2> QED BY <2>1 DEF S
  <1>6. upTo(30) = n
    OBVIOUS
  <1> QED BY <1>1, <1>5, <1>6

LEMMA SmallNumber ==
  ASSUME NEW n \in 0 .. 31, NEW v \in 0 .. 2^n - 1 PROVE Number(Bits(v, n)) = v
  <1>1. 2^n \in Nat \ {0}
    BY PowerNat
  <1>2. v \in Int /\ v = 0 * 2^n + v
    BY <1>1
  <1>3. v % 2^n = v
    BY <1>1, <1>2, DivisionUnique
  <1> QED BY <1>2, <1>3, NumberOfBits

(***************************************************************************)
(* Sign extension.  -v - 1 has the other bits of v.                        *)
(***************************************************************************)
LEMMA OtherBits ==
  ASSUME NEW v \in Int, NEW i \in Nat
  PROVE  ((-v - 1) \div 2^i) % 2 = 1 <=> (v \div 2^i) % 2 # 1
  <1> DEFINE b == 2^i
             q == v \div b
             r == v % b
             w == -v - 1
  <1>1. b \in Nat \ {0}
    BY PowerNat
  <1> HIDE DEF b
  <1>2. q \in Int /\ r \in 0 .. b - 1 /\ v = q * b + r
    BY <1>1, Division
  <1> HIDE DEF q, r
  <1>3. w = (-q - 1) * b + (b - 1 - r)
    <2>1. (-q - 1) * b = -(q * b) - b /\ q * b \in Int
      BY <1>1, <1>2
    <2> QED BY <1>1, <1>2, <2>1
  <1>4. w \in Int /\ -q - 1 \in Int /\ b - 1 - r \in 0 .. b - 1
    BY <1>1, <1>2
  <1> HIDE DEF w
  <1>5. w \div b = -q - 1
    BY <1>1, <1>3, <1>4, DivisionUnique
  <1>6. (-q - 1) % 2 = 1 <=> q % 2 # 1
    BY <1>2
  <1> QED BY <1>5, <1>6 DEF w, q, b

LEMMA SignBit ==
  ASSUME NEW n \in Nat \ {0}, NEW v \in -2^(n - 1) .. 2^(n - 1) - 1
  PROVE  n - 1 \in Bits(v, n) <=> v < 0
  <1> DEFINE b == 2^(n - 1)
  <1>1. b \in Nat \ {0} /\ n - 1 \in 0 .. n - 1
    BY PowerNat
  <1> HIDE DEF b
  <1>2. CASE v < 0
    <2>1. v = (-1) * b + (v + b) /\ v + b \in 0 .. b - 1 /\ v \in Int /\ -1 \in Int
      BY <1>1, <1>2 DEF b
    <2>2. v \div b = -1
      BY <1>1, <2>1, DivisionUnique
    <2>3. (-1) % 2 = 1
      <3>1. -1 = (-1) * 2 + 1 /\ -1 \in Int /\ 1 \in 0 .. 2 - 1 /\ 2 \in Nat \ {0}
        OBVIOUS
      <3> QED BY ONLY <3>1, DivisionUnique
    <2> QED BY <1>1, <1>2, <2>2, <2>3 DEF Bits, b
  <1>3. CASE v >= 0
    <2>1. v = 0 * b + v /\ v \in 0 .. b - 1 /\ v \in Int
      BY <1>1, <1>3 DEF b
    <2>2. v \div b = 0
      BY <1>1, <2>1, DivisionUnique
    <2> QED BY <1>1, <1>3, <2>2 DEF Bits, b
  <1>4. v \in Int
    BY <1>1 DEF b
  <1> QED BY <1>2, <1>3, <1>4

LEMMA SignedReads ==
  ASSUME NEW n \in 1 .. 32, NEW v \in -2^(n - 1) .. 2^(n - 1) - 1
  PROVE  Signed(Extended(Bits(v, n), n, 32)) = v
  <1> DEFINE bits == Extended(Bits(v, n), n, 32)
             b == 2^(n - 1)
  <1>1. n \in Nat \ {0} /\ n - 1 \in Nat /\ b \in Nat \ {0} /\ 2^n = 2 * b
        /\ v \in Int
    <2>1. n \in Nat \ {0} /\ n - 1 \in Nat /\ (n - 1) + 1 = n
      OBVIOUS
    <2>2. b \in Nat \ {0} /\ 2^((n - 1) + 1) = 2 * b
      BY <2>1, PowerNat, PowerDoubles
    <2> QED BY <2>1, <2>2
  <1>2. -b <= v /\ v <= b - 1
    BY <1>1
  <1>3. n - 1 \in Bits(v, n) <=> v < 0
    BY <1>1, SignBit
  <1>4. CASE v >= 0
    <2>1. n - 1 \notin Bits(v, n)
      BY <1>1, <1>3, <1>4
    <2>2. bits = Bits(v, n)
      BY <2>1 DEF Extended
    <2>3. 31 \notin bits
      <3>1. 31 \in Bits(v, n) => 31 <= n - 1
        BY <1>1 DEF Bits
      <3> QED BY <2>1, <2>2, <3>1
    <2>4. Bits(v, n) = Bits(v, n - 1)
      <3>1. \A i : i \in Bits(v, n) <=> i \in Bits(v, n - 1) \/ (i = n - 1 /\ i \in Bits(v, n))
        BY <1>1 DEF Bits
      <3> QED BY <2>1, <3>1, Zenon
    <2>5. Number(Bits(v, n - 1)) = v
      <3>1. n - 1 \in 0 .. 31 /\ v \in 0 .. 2^(n - 1) - 1
        BY <1>1, <1>2, <1>4
      <3> QED BY <3>1, SmallNumber
    <2> QED BY <2>2, <2>3, <2>4, <2>5 DEF Signed
  <1>5. CASE v < 0
    <2> DEFINE w == -v - 1
    <2>1. bits = Bits(v, n) \cup n .. 31
      BY <1>3, <1>5 DEF Extended
    <2>2. 31 \in bits
      <3>1. n = 32 => 31 \in Bits(v, n)
        BY <1>3, <1>5
      <3> QED BY <2>1, <3>1
    <2>3. (0 .. 30) \ bits = Bits(w, n - 1)
      <3>1. ASSUME NEW i \in 0 .. 30
            PROVE  i \notin bits <=> i \in Bits(w, n - 1)
        <4>1. (w \div 2^i) % 2 = 1 <=> (v \div 2^i) % 2 # 1
          BY <1>1, OtherBits
        <4> HIDE DEF w
        <4>2. CASE i <= n - 2
          <5>1. i \in 0 .. n - 1 /\ i \in 0 .. (n - 1) - 1 /\ i \notin n .. 31
            BY <1>1, <4>2
          <5> QED BY <2>1, <4>1, <5>1 DEF Bits
        <4>3. CASE i = n - 1
          <5>1. i \notin 0 .. (n - 1) - 1
            BY <1>1, <4>3
          <5> QED BY <1>3, <1>5, <2>1, <4>3, <5>1 DEF Bits
        <4>4. CASE i >= n
          <5>1. i \in n .. 31 /\ i \notin 0 .. (n - 1) - 1
            BY <1>1, <4>4
          <5> QED BY <2>1, <5>1 DEF Bits
        <4> QED BY <1>1, <4>2, <4>3, <4>4
      <3>2. Bits(w, n - 1) \subseteq 0 .. 30
        BY <1>1 DEF Bits
      <3> HIDE DEF bits, w
      <3> QED BY <3>1, <3>2
    <2>4. Number(Bits(w, n - 1)) = w
      <3>1. n - 1 \in 0 .. 31 /\ w \in 0 .. 2^(n - 1) - 1
        BY <1>1, <1>2, <1>5
      <3> HIDE DEF w
      <3> QED BY <3>1, SmallNumber
    <2>5. Signed(bits) = -w - 1
      BY <2>2, <2>3, <2>4 DEF Signed
    <2>6. -w - 1 = v
      BY <1>1
    <2> QED BY <2>5, <2>6
  <1> QED BY <1>1, <1>4, <1>5

-----------------------------------------------------------------------------
(***************************************************************************)
(* Words.                                                                  *)
(***************************************************************************)

LEMMA BitsWidth == ASSUME NEW v, NEW n \in Nat PROVE Bits(v, n) \subseteq 0 .. n - 1
  BY DEF Bits

\* A field of n bits moved up to lo ends below lo + n (At).
LEMMA FieldPlace ==
  ASSUME NEW v, NEW n \in Nat, NEW lo \in Nat, n + lo <= 32
  PROVE  At(Bits(v, n), lo) \subseteq 0 .. 31
  BY BitsWidth DEF At

LEMMA LowField ==
  ASSUME NEW v, NEW n \in Nat, n <= 32 PROVE Bits(v, n) \subseteq 0 .. 31
  BY BitsWidth

LEMMA ArithmeticWord ==
  ASSUME NEW opcode, NEW funct, NEW i, NEW rs2
  PROVE  Arithmetic(opcode, funct, i, rs2) \subseteq 0 .. 31
  <1>1. /\ At(Bits(opcode, 3), 29) \subseteq 0 .. 31
        /\ At(Bits(rs2, 5), 14) \subseteq 0 .. 31
        /\ At(Bits(funct, 4), 10) \subseteq 0 .. 31
        /\ At(Bits(i.rs1, 5), 5) \subseteq 0 .. 31
    BY FieldPlace
  <1>2. Bits(i.rd, 5) \subseteq 0 .. 31
    BY LowField
  <1> QED BY <1>1, <1>2 DEF Arithmetic

LEMMA AccessWord == ASSUME NEW i PROVE Access(i) \subseteq 0 .. 31
  <1>1. /\ At(Bits(4, 3), 29) \subseteq 0 .. 31
        /\ At(Bits(mTypeFunctMap[i.op], 3), 10) \subseteq 0 .. 31
        /\ At(Bits(i.rs1, 5), 5) \subseteq 0 .. 31
    BY FieldPlace
  <1> QED BY <1>1 DEF Access

LEMMA ControlWord ==
  ASSUME NEW i, i.op \in {"j", "ret", "exit"} \cup Branches
  PROVE  encodeControl(i) \subseteq 0 .. 31
  <1>1. Control(i) \subseteq 0 .. 31
    <2>1. /\ At(Bits(7, 3), 29) \subseteq 0 .. 31
          /\ At(Bits(cTypeFunctMap[i.op], 3), 10) \subseteq 0 .. 31
      BY FieldPlace
    <2> QED BY <2>1 DEF Control
  <1>2. encodeJump(i) \subseteq 0 .. 31
    <2>1. /\ At(Bits(i.imm \div 2^10, 16), 13) \subseteq 0 .. 31
          /\ Bits(i.imm, 10) \subseteq 0 .. 31
      BY FieldPlace, LowField
    <2> QED BY <1>1, <2>1 DEF encodeJump
  <1>3. encodeBranch(i) \subseteq 0 .. 31
    <2>1. /\ At(Bits(i.imm \div 2^8, 10), 19) \subseteq 0 .. 31
          /\ At(Bits(i.imm \div 2^7, 1), 13) \subseteq 0 .. 31
          /\ At(Bits(i.rs1, 5), 5) \subseteq 0 .. 31
          /\ Bits(i.imm, 5) \subseteq 0 .. 31
      BY FieldPlace, LowField
    <2> QED BY <1>1, <2>1 DEF encodeBranch
  <1> QED BY <1>1, <1>2, <1>3 DEF encodeControl, Branches

LEMMA WordsAreBits ==
  ASSUME NEW i
  PROVE  /\ encodeRType(i) \subseteq 0 .. 31 /\ encodeFType(i) \subseteq 0 .. 31
         /\ encodeIType(i) \subseteq 0 .. 31 /\ encodeLoad(i) \subseteq 0 .. 31
         /\ encodeStore(i) \subseteq 0 .. 31 /\ encodeLUI(i) \subseteq 0 .. 31
         /\ encodeXType(i) \subseteq 0 .. 31
  <1>1. encodeRType(i) \subseteq 0 .. 31 /\ encodeFType(i) \subseteq 0 .. 31
    BY ArithmeticWord DEF encodeRType, encodeFType
  <1>2. encodeIType(i) \subseteq 0 .. 31
    <2> DEFINE n == IF i.op = "slli" THEN 5 ELSE 14
    <2>1. n \in Nat /\ n + 14 <= 32
      OBVIOUS
    <2> HIDE DEF n
    <2>2. At(Bits(i.imm, n), 14) \subseteq 0 .. 31
      BY <2>1, FieldPlace
    <2>3. Arithmetic(1, iTypeFunctMap[i.op], i, 0) \subseteq 0 .. 31
      BY ArithmeticWord
    <2>4. encodeIType(i) = Arithmetic(1, iTypeFunctMap[i.op], i, 0)
                             \cup At(Bits(i.imm, n), 14)
      BY DEF encodeIType, n
    <2> QED BY <2>2, <2>3, <2>4
  <1>3. encodeLoad(i) \subseteq 0 .. 31
    <2>1. At(Bits(i.imm, 15), 14) \subseteq 0 .. 31 /\ Bits(i.rd, 5) \subseteq 0 .. 31
      BY FieldPlace, LowField
    <2> QED BY <2>1, AccessWord DEF encodeLoad
  <1>4. encodeStore(i) \subseteq 0 .. 31
    <2>1. /\ At(Bits(i.imm \div 32, 10), 19) \subseteq 0 .. 31
          /\ At(Bits(i.rs2, 5), 14) \subseteq 0 .. 31 /\ Bits(i.imm, 5) \subseteq 0 .. 31
      BY FieldPlace, LowField
    <2> QED BY <2>1, AccessWord DEF encodeStore
  <1>5. encodeLUI(i) \subseteq 0 .. 31
    <2>1. /\ At(Bits(3, 3), 29) \subseteq 0 .. 31
          /\ At(Bits(i.imm, 20), 9) \subseteq 0 .. 31 /\ Bits(i.rd, 5) \subseteq 0 .. 31
      BY FieldPlace, LowField
    <2> QED BY <2>1 DEF encodeLUI
  <1>6. encodeXType(i) \subseteq 0 .. 31
    <2>1. /\ At(Bits(5, 3), 29) \subseteq 0 .. 31 /\ At(Bits(i.rs2, 5), 14) \subseteq 0 .. 31
          /\ At(Bits(i.rs1, 5), 5) \subseteq 0 .. 31 /\ Bits(i.rd, 5) \subseteq 0 .. 31
      BY FieldPlace, LowField
    <2> QED BY <2>1 DEF encodeXType
  <1> QED BY <1>1, <1>2, <1>3, <1>4, <1>5, <1>6

-----------------------------------------------------------------------------
(***************************************************************************)
(* Every line that assembles becomes 32 bits, whatever its operands.       *)
(***************************************************************************)
InstructionLines == {line \in Line : line.kind = "instruction"}

LEMMA ResolvedOp ==
  ASSUME NEW line \in InstructionLines, NEW pc, line.op \in Encoders
  PROVE  /\ line.op \notin {"sync", "li"} => Resolved(line, pc).op = line.op
         /\ line.op \in {"sync", "li"} => Resolved(line, pc).op = "addi"
  BY DEF InstructionLines, Line, Resolved

LEMMA EncodedWord ==
  ASSUME NEW line \in InstructionLines, NEW pc, Assembles(line)
  PROVE  Encoded(line, pc) \subseteq 0 .. 31
  <1> DEFINE i == Resolved(line, pc)
  <1>1. i.op \in (Encoders \ {"sync", "li"})
    BY ResolvedOp DEF Assembles, Encoders, iTypeFunctMap
  <1>2. \/ i.op \in DOMAIN rTypeFunctMap \/ i.op \in DOMAIN iTypeFunctMap
        \/ i.op \in DOMAIN fTypeFunctMap \/ i.op \in {"lw", "flw"}
        \/ i.op \in {"sw", "fsw"} \/ i.op = "lui" \/ i.op = "sx_slt"
        \/ i.op \in {"j", "ret", "exit"} \cup Branches
    BY <1>1 DEF Encoders, mTypeFunctMap, cTypeFunctMap, Branches
  <1> HIDE DEF i
  <1>3. i.op \in {"j", "ret", "exit"} \cup Branches => encodeControl(i) \subseteq 0 .. 31
    BY ControlWord
  <1>4. \A op : op \in {"lw", "flw", "sw", "fsw", "lui", "sx_slt"} =>
                  op \notin {"j", "ret", "exit"} \cup Branches
    BY DEF Branches
  <1> QED BY <1>2, <1>3, WordsAreBits DEF Encoded, i

-----------------------------------------------------------------------------
(***************************************************************************)
(* Alignment.                                                              *)
(***************************************************************************)

LEMMA AlignNat ==
  ASSUME NEW pc \in Nat, source[at].bits \in Nat
  PROVE  Align(pc) \in Nat
  <1> DEFINE b == 2^source[at].bits
  <1>1. b \in Nat \ {0}
    BY PowerNat
  <1> HIDE DEF b
  <1>2. ((pc + b - 1) \div b) * b \in Nat
    BY <1>1
  <1> QED BY <1>2 DEF Align, b

\* An address that is a multiple of four stays where it is (up to .align 2).
LEMMA AlignKeepsWords ==
  ASSUME NEW n \in Nat, source[at].bits \in Nat, source[at].bits <= 2
  PROVE  Align(4 * n) = 4 * n
  <1> DEFINE b == 2^source[at].bits
  <1>1. source[at].bits = 0 \/ source[at].bits = 1 \/ source[at].bits = 2
    OBVIOUS
  <1>2. b = 1 \/ b = 2 \/ b = 4
    <2>1. 2^0 = 1 /\ 2^1 = 2 /\ 2^2 = 4
      OBVIOUS
    <2> QED BY <1>1, <2>1
  <1> HIDE DEF b
  <1>3. ((4 * n + b - 1) \div b) * b = 4 * n
    BY <1>2
  <1> QED BY <1>3 DEF Align, b

-----------------------------------------------------------------------------
(***************************************************************************)
(* What has been read and written: no more instructions and data words     *)
(* than lines, no more words than instructions.                            *)
(***************************************************************************)
TextEntry == [address : Nat, line : Line]
DataEntry == [address : Nat, value : Int]
Word == SUBSET (0 .. 31)

Shapes ==
  /\ source \in Seq(Line)
  /\ instructions \in Seq(TextEntry) /\ data \in Seq(DataEntry)
  /\ instrOut \in Seq(Word) /\ dataOut \in Seq(Int)
  /\ Len(instructions) <= Len(source)

Progress ==
  /\ pass = "first" => Len(instructions) < at /\ instrOut = <<>>
  /\ pass = "second" => at <= Len(instructions) + 1 /\ Len(instrOut) < at
  /\ pass # "done" => dataOut = <<>>
  /\ pass = "done" => /\ at = Len(instructions) + 1
                      /\ dataOut = [k \in DOMAIN data |-> data[k].value]

IInv == TypeOK /\ Shapes /\ Progress

LEMMA LineTypes ==
  ASSUME IInv, at \in DOMAIN source
  PROVE  /\ source[at] \in Line
         /\ source[at].kind = "section" => source[at].name \in Sections
         /\ source[at].kind = "align" => source[at].bits \in Nat
         /\ source[at].kind = "word" => source[at].value \in Int
         /\ source[at].kind = "zero" => source[at].size \in Nat
  <1>1. source[at] \in Line
    BY DEF IInv, Shapes
  <1> QED BY <1>1 DEF Line

LEMMA InitShapes == ASSUME Init PROVE IInv
  BY SourcesAssumption DEF Init, IInv, TypeOK, Shapes, Progress, Sections

LEMMA FirstPassShapes ==
  ASSUME IInv, SectionLine \/ AlignLine \/ LabelLine \/ WordLine \/ ZeroLine
                 \/ InstructionLine \/ PassedOver \/ FirstPassEnds
  PROVE  IInv'
  <1>1. CASE FirstPassEnds
    BY <1>1 DEF FirstPassEnds, firstVars, outVars, IInv, TypeOK, Shapes, Progress
  <1>2. CASE ~FirstPassEnds
    <2>1. /\ pass = "first" /\ at \in DOMAIN source /\ at' = at + 1
          /\ UNCHANGED <<source, pass, outVars>>
      BY <1>2 DEF IInv, TypeOK, Shapes, Reading, SectionLine, AlignLine, LabelLine,
                  WordLine, ZeroLine, InstructionLine, PassedOver
    <2> USE <2>1, LineTypes
    <2>2. CASE SectionLine
      BY <2>2 DEF SectionLine, Reading, outVars, IInv, TypeOK, Shapes, Progress
    <2>3. CASE AlignLine
      <3>1. source[at].bits \in Nat
        BY <2>3 DEF AlignLine, Reading
      <3>2. Align(instr_pc) \in Nat /\ Align(data_pc) \in Nat
        BY <3>1, AlignNat DEF IInv, TypeOK
      <3> QED BY <2>3, <3>2
              DEF AlignLine, Reading, outVars, IInv, TypeOK, Shapes, Progress
    <2>4. CASE LabelLine
      BY <2>4 DEF LabelLine, Reading, outVars, IInv, TypeOK, Shapes, Progress
    <2>5. CASE WordLine
      BY <2>5 DEF WordLine, DataEntry, Reading, outVars, IInv, TypeOK, Shapes, Progress
    <2>6. CASE ZeroLine
      BY <2>6 DEF ZeroLine, Reading, outVars, IInv, TypeOK, Shapes, Progress
    <2>7. CASE InstructionLine
      BY <2>7 DEF InstructionLine, TextEntry, Reading, outVars, IInv, TypeOK, Shapes, Progress
    <2>8. CASE PassedOver
      BY <2>8 DEF PassedOver, firstVars, Reading, outVars, IInv, TypeOK, Shapes, Progress
    <2> QED BY <1>2, <2>2, <2>3, <2>4, <2>5, <2>6, <2>7, <2>8
  <1> QED BY <1>1, <1>2

LEMMA SecondPassShapes ==
  ASSUME IInv, Assemble \/ Skip \/ OutputData
  PROVE  IInv'
  <1>1. /\ pass = "second" /\ UNCHANGED <<source, firstVars>>
        /\ at \in Nat \ {0} /\ at <= Len(instructions) + 1 /\ Len(instrOut) < at
        /\ dataOut = <<>>
    BY DEF Assemble, Skip, OutputData, Next2nd, IInv, TypeOK, Progress
  <1>2. ASSUME pass' = "second", at <= Len(instructions), at' = at + 1,
               instrOut' \in Seq(Word), Len(instrOut') < at + 1,
               UNCHANGED dataOut
        PROVE  IInv'
    <2>1. TypeOK'
      <3>1. Len(instrOut') \in Nat /\ Len(instructions) \in Nat /\ Len(source) \in Nat
        BY <1>2 DEF IInv, Shapes
      <3>2. at' \in 1 .. Len(source) + 1 /\ Len(instrOut') <= Len(instructions)
        BY <1>1, <1>2, <3>1 DEF IInv, Shapes
      <3>3. \A k \in DOMAIN instrOut' : instrOut'[k] \subseteq 0 .. 31
        <4>1. \A k \in DOMAIN instrOut' : instrOut'[k] \in Word
          BY <1>2
        <4> QED BY <4>1 DEF Word
      <3> QED BY <1>1, <1>2, <3>2, <3>3 DEF firstVars, IInv, TypeOK
    <2>2. Shapes'
      BY <1>1, <1>2 DEF firstVars, IInv, Shapes
    <2>3. Progress'
      BY <1>1, <1>2 DEF firstVars, IInv, Progress, Shapes
    <2> QED BY <2>1, <2>2, <2>3 DEF IInv
  <1>3. CASE Assemble
    <2> DEFINE word == Encoded(instructions[at].line, instructions[at].address)
    <2>1. at \in DOMAIN instructions
      BY <1>1, <1>3 DEF Assemble, Next2nd, IInv, Shapes
    <2>2. instructions[at] \in TextEntry
      BY <2>1 DEF IInv, Shapes
    <2>3. instructions[at].line \in InstructionLines
      BY <1>3, <2>2 DEF Assemble, Assembles, InstructionLines, TextEntry
    <2>4. word \subseteq 0 .. 31
      BY <1>3, <2>3, EncodedWord DEF Assemble
    <2> HIDE DEF word
    <2>5. instrOut' = Append(instrOut, word)
      BY <1>3 DEF Assemble, word
    <2>6. instrOut' \in Seq(Word) /\ Len(instrOut') = Len(instrOut) + 1
      BY <2>4, <2>5 DEF IInv, Shapes, Word
    <2>7. Len(instrOut) \in Nat
      BY DEF IInv, Shapes
    <2>8. Len(instrOut') < at + 1
      BY <1>1, <2>6, <2>7
    <2> QED BY <1>1, <1>2, <1>3, <2>6, <2>8 DEF Assemble, Next2nd
  <1>4. CASE Skip
    <2>1. instrOut' \in Seq(Word) /\ Len(instrOut') < at + 1
      BY <1>1, <1>4 DEF Skip, IInv, Shapes
    <2> QED BY <1>1, <1>2, <1>4, <2>1 DEF Skip, Next2nd
  <1>5. CASE OutputData
    <2>1. /\ pass' = "done" /\ UNCHANGED <<at, instrOut>>
          /\ dataOut' = [k \in DOMAIN data |-> data[k].value]
          /\ at = Len(instructions) + 1
      BY <1>1, <1>5 DEF OutputData, IInv, Shapes
    <2>2. \A k \in DOMAIN data : data[k] \in DataEntry
      BY DEF IInv, Shapes
    <2>3. dataOut' \in Seq(Int) /\ Len(dataOut') = Len(data)
      <3>1. DOMAIN data = 1 .. Len(data) /\ Len(data) \in Nat
        BY DEF IInv, Shapes
      <3>2. \A k \in 1 .. Len(data) : data[k].value \in Int
        BY <2>2, <3>1 DEF DataEntry
      <3> QED BY <2>1, <3>1, <3>2
    <2>4. TypeOK'
      <3>1. Len(instrOut) <= Len(instructions)
        BY DEF IInv, TypeOK
      <3>2. Len(data) <= Len(data)
        BY DEF IInv, Shapes
      <3> QED BY <1>1, <2>1, <2>3, <3>1, <3>2 DEF firstVars, IInv, TypeOK
    <2>5. Shapes'
      BY <1>1, <2>1, <2>3 DEF firstVars, IInv, Shapes
    <2>6. Progress'
      BY <1>1, <2>1 DEF firstVars, Progress
    <2> QED BY <2>4, <2>5, <2>6 DEF IInv
  <1> QED BY <1>3, <1>4, <1>5

LEMMA NextShapes == ASSUME IInv, [Next]_vars PROVE IInv'
  <1>1. CASE UNCHANGED vars
    BY <1>1 DEF vars, IInv, TypeOK, Shapes, Progress
  <1> QED BY <1>1, FirstPassShapes, SecondPassShapes DEF Next

LEMMA ShapesHold == Spec => []IInv
  BY InitShapes, NextShapes, PTL DEF Spec

(***************************************************************************)
(* Addresses are words, and every word of the instruction file has 32 bits *)
(* at most, whatever the operands are (assembler.cpp:137-527): no field    *)
(* reaches beyond its word.                                                *)
(***************************************************************************)
THEOREM TypeCorrect == Spec => []TypeOK
  <1>1. IInv => TypeOK
    BY DEF IInv
  <1> QED BY <1>1, ShapesHold, PTL

-----------------------------------------------------------------------------
(***************************************************************************)
(* Lines and places: the section of a line, and how many lines of a set    *)
(* are before a line.                                                      *)
(***************************************************************************)
Before(lines, l) == Cardinality({k \in lines : k < l})

LEMMA FirstSection == Section(1) = ".text"
  BY DEF Section

LEMMA SectionStep ==
  ASSUME NEW l \in Nat \ {0}
  PROVE  Section(l + 1) = IF source[l].kind = "section" THEN source[l].name
                                                         ELSE Section(l)
  <1> DEFINE before(n) == {k \in 1 .. n - 1 : source[k].kind = "section"}
  <1>1. CASE source[l].kind = "section"
    <2>1. l \in before(l + 1) /\ \A k \in before(l + 1) : k \in Int /\ k <= l
      BY <1>1
    <2> HIDE DEF before
    <2>2. Max(before(l + 1)) = l
      BY <2>1 DEF Max
    <2> QED BY <1>1, <2>1, <2>2 DEF Section, before
  <1>2. CASE source[l].kind # "section"
    <2>1. before(l + 1) = before(l)
      BY <1>2
    <2> QED BY <1>2, <2>1 DEF Section
  <1> QED BY <1>1, <1>2

LEMMA LinesFinite ==
  ASSUME source \in Seq(Line), NEW lines \in SUBSET DOMAIN source, NEW l
  PROVE  /\ IsFiniteSet({k \in lines : k < l})
         /\ Before(lines, l) \in Nat
  <1>1. IsFiniteSet(1 .. Len(source)) /\ DOMAIN source = 1 .. Len(source)
    BY FS_Interval
  <1>2. {k \in lines : k < l} \subseteq 1 .. Len(source)
    BY <1>1
  <1> QED BY <1>1, <1>2, FS_Subset, FS_CardinalityType DEF Before

LEMMA BeforeStep ==
  ASSUME source \in Seq(Line), NEW lines \in SUBSET DOMAIN source, NEW l \in DOMAIN source
  PROVE  Before(lines, l + 1) = IF l \in lines THEN Before(lines, l) + 1
                                               ELSE Before(lines, l)
  <1>1. l \in Int /\ \A k \in lines : k \in Int
    OBVIOUS
  <1>2. IsFiniteSet({k \in lines : k < l})
    BY LinesFinite
  <1>3. CASE l \in lines
    <2>1. {k \in lines : k < l + 1} = {k \in lines : k < l} \cup {l}
      BY <1>1, <1>3
    <2>2. l \notin {k \in lines : k < l}
      BY <1>1
    <2> QED BY <1>2, <1>3, <2>1, <2>2, FS_AddElement DEF Before
  <1>4. CASE l \notin lines
    <2>1. {k \in lines : k < l + 1} = {k \in lines : k < l}
      BY <1>1, <1>4
    <2> QED BY <1>4, <2>1 DEF Before
  <1> QED BY <1>3, <1>4

\* A line of the set that was read has a place among those that were.
LEMMA PlaceBefore ==
  ASSUME source \in Seq(Line), NEW lines \in SUBSET DOMAIN source,
         NEW l \in lines, NEW n \in Int, l < n
  PROVE  Before(lines, l) + 1 <= Before(lines, n)
  <1>1. l \in DOMAIN source /\ l \in Int /\ \A k \in lines : k \in Int
    OBVIOUS
  <1>2. Before(lines, l + 1) = Before(lines, l) + 1
    BY <1>1, BeforeStep
  <1>3. {k \in lines : k < l + 1} \subseteq {k \in lines : k < n}
    BY <1>1
  <1>4. Before(lines, l + 1) <= Before(lines, n)
    BY <1>3, LinesFinite, FS_Subset DEF Before
  <1> QED BY <1>2, <1>4

-----------------------------------------------------------------------------
(***************************************************************************)
(* The first pass reads a line.                                            *)
(***************************************************************************)
InstrLines == {l \in DOMAIN source : /\ Section(l) = ".text"
                                     /\ source[l].kind \in {"instruction", "word", "zero"}}
Reads == SectionLine \/ AlignLine \/ LabelLine \/ WordLine \/ ZeroLine
           \/ InstructionLine \/ PassedOver
AtSection == pass = "first" => current_section = Section(at)

LEMMA LineSets == WordLines \subseteq DOMAIN source /\ InstrLines \subseteq DOMAIN source
  BY DEF WordLines, InstrLines

LEMMA SourceStays ==
  ASSUME source' = source
  PROVE  /\ WordLines' = WordLines /\ InstrLines' = InstrLines
         /\ TextLines' = TextLines
         /\ \A l : Section(l)' = Section(l)
  BY DEF WordLines, InstrLines, TextLines, Section

LEMMA ReadsLine ==
  ASSUME IInv, AtSection, Reads
  PROVE  /\ pass = "first" /\ at \in DOMAIN source /\ at' = at + 1
         /\ UNCHANGED <<source, pass, outVars>>
         /\ current_section' = Section(at + 1)
  <1>1. /\ pass = "first" /\ at \in DOMAIN source /\ at' = at + 1
        /\ UNCHANGED <<source, pass, outVars>>
    BY DEF Reads, IInv, TypeOK, Shapes, Reading, SectionLine, AlignLine, LabelLine,
           WordLine, ZeroLine, InstructionLine, PassedOver
  <1>2. current_section' = IF source[at].kind = "section" THEN source[at].name
                                                           ELSE current_section
    BY DEF Reads, Reading, SectionLine, AlignLine, LabelLine,
           WordLine, ZeroLine, InstructionLine, PassedOver, firstVars
  <1>3. at \in Nat \ {0}
    BY <1>1 DEF IInv, Shapes
  <1> QED BY <1>1, <1>2, <1>3, SectionStep DEF AtSection

LEMMA ReadsData ==
  ASSUME IInv, AtSection, Reads
  PROVE  /\ at \in WordLines =>
              /\ data' = Append(data, [address |-> data_pc, value |-> source[at].value])
              /\ data_pc' = data_pc + 4
         /\ at \notin WordLines => data' = data
         /\ (at \notin WordLines /\ (InText \/ source[at].kind \notin {"align", "zero"}))
              => data_pc' = data_pc
         /\ ~InText /\ source[at].kind = "align" => data_pc' = Align(data_pc)
  <1>1. at \in WordLines <=> (~InText /\ source[at].kind = "word")
    BY ReadsLine DEF WordLines, InText, AtSection
  <1> QED BY <1>1 DEF Reads, Reading, SectionLine, AlignLine, LabelLine,
             WordLine, ZeroLine, InstructionLine, PassedOver, firstVars

LEMMA ReadsText ==
  ASSUME IInv, AtSection, Reads
  PROVE  /\ at \in InstrLines =>
              /\ instructions' = Append(instructions, [address |-> instr_pc,
                                                       line |-> source[at]])
              /\ instr_pc' = instr_pc + 4
         /\ at \notin InstrLines => instructions' = instructions
         /\ (at \notin InstrLines /\ ~(InText /\ source[at].kind = "align"))
              => instr_pc' = instr_pc
         /\ InText /\ source[at].kind = "align" => instr_pc' = Align(instr_pc)
  <1>1. at \in InstrLines <=>
          InText /\ source[at].kind \in {"instruction", "word", "zero"}
    BY ReadsLine DEF InstrLines, InText, AtSection
  <1> QED BY <1>1 DEF Reads, Reading, SectionLine, AlignLine, LabelLine,
             WordLine, ZeroLine, InstructionLine, PassedOver, firstVars

LEMMA ReadsLabel ==
  ASSUME IInv, AtSection, Reads
  PROVE  /\ source[at].kind # "label" => labelMap' = labelMap
         /\ source[at].kind = "label" =>
              labelMap' = [label \in DOMAIN labelMap \cup {source[at].name} |->
                             IF label # source[at].name THEN labelMap[label]
                             ELSE IF InText THEN instr_pc ELSE data_pc]
  BY DEF Reads, Reading, SectionLine, AlignLine, LabelLine,
         WordLine, ZeroLine, InstructionLine, PassedOver, firstVars

\* What is not a line of the first pass leaves what that pass found.
LEMMA OtherSteps ==
  ASSUME IInv, FirstPassEnds \/ Assemble \/ Skip \/ OutputData \/ UNCHANGED vars
  PROVE  /\ UNCHANGED <<source, firstVars>>
         /\ pass' = "first" => pass = "first" /\ at' = at
         /\ pass' # "first" /\ pass = "first" => at = Len(source) + 1
  BY DEF FirstPassEnds, Assemble, Skip, OutputData, Next2nd, vars, firstVars, IInv,
         TypeOK, Shapes

-----------------------------------------------------------------------------
(***************************************************************************)
(* The data of a source.  It is ordinary when a label is set once and, in  *)
(* front of a word, nothing moves the address that leaves no word: no      *)
(* .zero, and no .align beyond a word.                                     *)
(***************************************************************************)
LabelsOnce ==
  \A k, l \in DOMAIN source :
    /\ source[k].kind = "label" /\ source[l].kind = "label"
    /\ source[k].name = source[l].name
    => k = l

OrdinaryData ==
  /\ LabelsOnce
  /\ \A l \in WordLines, k \in DOMAIN source :
       k < l /\ Section(k) # ".text" =>
         /\ source[k].kind # "zero"
         /\ source[k].kind = "align" => source[k].bits <= 2

(***************************************************************************)
(* Of the lines read so far, the words are in data at their places.  While *)
(* words are to come, the address is that of the next place, and a label   *)
(* in front of a word has the address of that word's place.                *)
(***************************************************************************)
LinesRead == IF pass = "first" THEN at ELSE Len(source) + 1

Labelled(l) == l > 1 /\ source[l - 1].kind = "label"

WordsInPlace ==
  /\ Len(data) = Before(WordLines, LinesRead)
  /\ \A l \in WordLines :
       l < LinesRead => data[Before(WordLines, l) + 1].value = source[l].value

DataAddress ==
  pass = "first" /\ (\E l \in WordLines : l >= at) => data_pc = 4 * Len(data)

DataLabels ==
  \A l \in WordLines :
    Labelled(l) /\ l - 1 < LinesRead =>
      /\ source[l - 1].name \in DOMAIN labelMap
      /\ labelMap[source[l - 1].name] = 4 * Before(WordLines, l)

DataInv == /\ AtSection /\ WordsInPlace
           /\ OrdinaryData => DataAddress /\ DataLabels

LEMMA DataInit == ASSUME Init PROVE DataInv
  <1>1. source \in Seq(Line)
    BY SourcesAssumption DEF Init
  <1>2. DOMAIN source = 1 .. Len(source)
    BY <1>1
  <1>3. {k \in WordLines : k < 1} = {}
    BY <1>2, LineSets
  <1>4. Before(WordLines, 1) = 0
    BY <1>3, FS_EmptySet DEF Before
  <1>5. \A l \in WordLines : ~(l < 1) /\ ~(l > 1 /\ l - 1 < 1)
    BY <1>2, LineSets
  <1>6. LinesRead = 1 /\ Len(data) = 0 /\ data_pc = 0 /\ AtSection
    BY FirstSection DEF Init, LinesRead, AtSection
  <1>7. WordsInPlace /\ DataAddress /\ DataLabels
    BY <1>4, <1>5, <1>6 DEF WordsInPlace, DataAddress, DataLabels, Labelled
  <1> QED BY <1>6, <1>7 DEF DataInv

LEMMA DataOther ==
  ASSUME IInv, DataInv,
         FirstPassEnds \/ Assemble \/ Skip \/ OutputData \/ UNCHANGED vars
  PROVE  DataInv'
  <1> USE OtherSteps DEF firstVars
  <1>1. LinesRead' = LinesRead
    BY DEF LinesRead
  <1>2. /\ WordLines' = WordLines /\ OrdinaryData' = OrdinaryData
        /\ \A l : Before(WordLines, l)' = Before(WordLines, l)
        /\ AtSection'
    BY SourceStays DEF OrdinaryData, LabelsOnce, Before, DataInv, AtSection
  <1>3. /\ WordsInPlace' /\ (DataAddress => DataAddress')
        /\ (DataLabels => DataLabels')
    BY <1>1, <1>2 DEF DataInv, WordsInPlace, DataAddress, DataLabels, Labelled
  <1> QED BY <1>2, <1>3 DEF DataInv

LEMMA DataReads ==
  ASSUME IInv, DataInv, Reads
  PROVE  DataInv'
  <1>1. /\ AtSection /\ source \in Seq(Line) /\ data \in Seq(DataEntry)
        /\ pass = "first" /\ at \in DOMAIN source /\ at \in Int
        /\ at' = at + 1 /\ source' = source /\ pass' = pass
        /\ current_section' = Section(at + 1)
        /\ LinesRead = at /\ LinesRead' = at + 1
        /\ WordLines \subseteq DOMAIN source /\ WordLines \subseteq Int
    BY ReadsLine, LineSets DEF IInv, Shapes, DataInv, LinesRead
  <1>2. /\ WordLines' = WordLines /\ OrdinaryData' = OrdinaryData
        /\ \A l : Before(WordLines, l)' = Before(WordLines, l)
        /\ \A l : Section(l)' = Section(l)
    BY <1>1, SourceStays DEF OrdinaryData, LabelsOnce, Before
  <1>3. AtSection'
    BY <1>1, <1>2 DEF AtSection
  <1>4. \A l : Before(WordLines, l) \in Nat
    BY <1>1, LinesFinite
  <1>5. Len(data) = Before(WordLines, at)
    BY <1>1 DEF DataInv, WordsInPlace
  <1>6. Len(data') = Before(WordLines, at + 1)
    BY <1>1, <1>5, BeforeStep, ReadsData
  <1>7. WordsInPlace'
    <2>1. ASSUME NEW l \in WordLines, l < at
          PROVE  data'[Before(WordLines, l) + 1].value = source[l].value
      <3>1. Before(WordLines, l) + 1 \in 1 .. Len(data)
        BY <1>1, <1>4, <1>5, <2>1, PlaceBefore
      <3>2. data'[Before(WordLines, l) + 1] = data[Before(WordLines, l) + 1]
        BY <1>1, <3>1, ReadsData
      <3> QED BY <1>1, <2>1, <3>2 DEF DataInv, WordsInPlace
    <2>2. ASSUME at \in WordLines
          PROVE  data'[Before(WordLines, at) + 1].value = source[at].value
      BY <1>1, <1>5, <2>2, ReadsData
    <2>3. \A l \in WordLines : l < at + 1 => l < at \/ l = at
      BY <1>1
    <2> QED BY <1>1, <1>2, <1>6, <2>1, <2>2, <2>3 DEF WordsInPlace
  <1>8. ASSUME OrdinaryData
        PROVE  DataAddress'
    <2> SUFFICES ASSUME NEW l \in WordLines, l >= at + 1
                 PROVE  data_pc' = 4 * Len(data')
      BY <1>1, <1>2 DEF DataAddress
    <2>1. data_pc = 4 * Len(data)
      BY <1>1, <1>8 DEF DataInv, DataAddress
    <2>2. CASE at \in WordLines
      <3>1. Len(data') = Len(data) + 1 /\ data_pc' = data_pc + 4
        BY <1>1, <2>2, ReadsData
      <3>2. Len(data) \in Nat
        BY <1>1
      <3> QED BY <2>1, <3>1, <3>2
    <2>3. CASE at \notin WordLines
      <3>1. data' = data
        BY <2>3, ReadsData, <1>1
      <3>2. ~InText => Section(at) # ".text"
        BY <1>1 DEF InText, AtSection
      <3>3. ~InText => /\ source[at].kind # "zero"
                       /\ source[at].kind = "align" => source[at].bits <= 2
        BY <1>1, <1>8, <3>2 DEF OrdinaryData
      <3>4. CASE ~InText /\ source[at].kind = "align"
        <4>1. data_pc' = Align(data_pc) /\ source[at].bits \in Nat
          BY <1>1, <3>4, ReadsData, LineTypes
        <4>2. Len(data) \in Nat
          BY <1>1
        <4> QED BY <2>1, <3>1, <3>3, <3>4, <4>1, <4>2, AlignKeepsWords
      <3>5. CASE InText \/ source[at].kind # "align"
        BY <1>1, <2>1, <2>3, <3>1, <3>3, <3>5, ReadsData
      <3> QED BY <3>4, <3>5
    <2> QED BY <2>2, <2>3
  <1>9. ASSUME OrdinaryData
        PROVE  DataLabels'
    <2> SUFFICES ASSUME NEW l \in WordLines, Labelled(l), l - 1 < at + 1
                 PROVE  /\ source[l - 1].name \in DOMAIN labelMap'
                        /\ labelMap'[source[l - 1].name] = 4 * Before(WordLines, l)
      BY <1>1, <1>2 DEF DataLabels, Labelled
    <2>1. l - 1 \in DOMAIN source
      BY <1>1 DEF Labelled
    <2>2. CASE l - 1 < at
      <3>1. /\ source[l - 1].name \in DOMAIN labelMap
            /\ labelMap[source[l - 1].name] = 4 * Before(WordLines, l)
        BY <1>1, <1>9, <2>2 DEF DataInv, DataLabels
      <3>2. source[at].kind = "label" => source[at].name # source[l - 1].name
        BY <1>1, <1>9, <2>1, <2>2 DEF OrdinaryData, LabelsOnce, Labelled
      <3> QED BY <1>1, <3>1, <3>2, ReadsLabel
    <2>3. CASE l = at + 1
      <3>1. source[at].kind = "label" /\ at \notin WordLines
        BY <1>1, <2>3 DEF Labelled, WordLines
      <3>2. Section(at + 1) = Section(at)
        <4>1. at \in Nat \ {0}
          BY <1>1
        <4> QED BY <3>1, <4>1, SectionStep
      <3>3. ~InText
        BY <1>1, <2>3, <3>2 DEF WordLines, InText, AtSection
      <3>4. data_pc = 4 * Len(data)
        BY <1>1, <1>9, <2>3 DEF DataInv, DataAddress
      <3>5. Before(WordLines, l) = Len(data)
        BY <1>1, <1>5, <2>3, <3>1, BeforeStep
      <3> QED BY <1>1, <2>3, <3>1, <3>3, <3>4, <3>5, ReadsLabel
    <2> QED BY <1>1, <2>2, <2>3
  <1> QED BY <1>2, <1>3, <1>7, <1>8, <1>9 DEF DataInv

LEMMA DataHolds == Spec => []DataInv
  <1>1. ASSUME IInv, DataInv, [Next]_vars PROVE DataInv'
    BY <1>1, DataOther, DataReads DEF Next, Reads
  <1> QED BY <1>1, DataInit, ShapesHold, PTL DEF Spec

(***************************************************************************)
(* In a source of any length whose data is ordinary, a label in front of a *)
(* data word is the address the word is loaded to (assembler.cpp:685-719,  *)
(* 826-834): between the two passes the addresses and the words of the     *)
(* file, which carries none, never part.                                   *)
(***************************************************************************)
THEOREM DataLandsForAll == Spec => [](OrdinaryData => DataLands)
  <1>1. ASSUME IInv, DataInv, OrdinaryData, pass = "done",
               NEW l \in WordLines, Labelled(l)
        PROVE  LET k == Place(WordLines, l)
               IN /\ dataOut[k] = source[l].value
                  /\ labelMap[source[l - 1].name] = 4 * (k - 1)
    <2>1. /\ source \in Seq(Line) /\ WordLines \subseteq DOMAIN source
          /\ LinesRead = Len(source) + 1 /\ LinesRead \in Int /\ l \in Int
          /\ l < LinesRead /\ l - 1 < LinesRead
      BY <1>1, LineSets DEF IInv, Shapes, LinesRead
    <2>2. Before(WordLines, l) \in Nat /\ Place(WordLines, l) = Before(WordLines, l) + 1
      <3>1. Before(WordLines, l) \in Nat
        BY <2>1, LinesFinite
      <3>2. Place(WordLines, l) = 1 + Before(WordLines, l)
        BY DEF Place, Before
      <3> QED BY <3>1, <3>2
    <2>3. Place(WordLines, l) \in 1 .. Len(data)
      <3>1. Before(WordLines, l) + 1 <= Before(WordLines, LinesRead)
        BY <2>1, PlaceBefore
      <3>2. Len(data) = Before(WordLines, LinesRead)
        BY <1>1 DEF DataInv, WordsInPlace
      <3> QED BY <2>2, <3>1, <3>2
    <2>4. dataOut[Place(WordLines, l)] = data[Place(WordLines, l)].value
      BY <1>1, <2>3 DEF IInv, Progress, Shapes
    <2>5. dataOut[Place(WordLines, l)] = source[l].value
      BY <1>1, <2>1, <2>2, <2>4 DEF DataInv, WordsInPlace
    <2>6. labelMap[source[l - 1].name] = 4 * Before(WordLines, l)
      BY <1>1, <2>1 DEF DataInv, DataLabels
    <2> QED BY <2>2, <2>5, <2>6
  <1>2. IInv /\ DataInv => (OrdinaryData => DataLands)
    BY <1>1 DEF DataLands, Labelled
  <1> QED BY <1>2, ShapesHold, DataHolds, PTL

-----------------------------------------------------------------------------
(***************************************************************************)
(* The text of a source.  It is ordinary when a label is set once, every   *)
(* line of text assembles and no .align goes beyond a word.                *)
(***************************************************************************)
TextAssembles == \A l \in InstrLines : Assembles(source[l])

OrdinaryText ==
  /\ LabelsOnce /\ TextAssembles
  /\ \A l \in DOMAIN source :
       Section(l) = ".text" /\ source[l].kind = "align" => source[l].bits <= 2

(***************************************************************************)
(* Of the lines read so far, those of text are instructions at their       *)
(* places and addresses, and a label in text has the address of the place  *)
(* that follows it.                                                        *)
(***************************************************************************)
LinesInPlace ==
  /\ Len(instructions) = Before(InstrLines, LinesRead)
  /\ \A l \in InstrLines :
       l < LinesRead => instructions[Before(InstrLines, l) + 1].line = source[l]
  /\ \A k \in DOMAIN instructions :
       \E l \in InstrLines : instructions[k].line = source[l]

TextAddresses ==
  /\ instr_pc = 4 * Len(instructions)
  /\ \A k \in DOMAIN instructions : instructions[k].address = 4 * (k - 1)

TextLabel(l) == l \in DOMAIN source /\ source[l].kind = "label" /\ Section(l) = ".text"

TextLabels ==
  \A l \in DOMAIN source :
    TextLabel(l) /\ l < LinesRead =>
      /\ source[l].name \in DOMAIN labelMap
      /\ labelMap[source[l].name] = 4 * Before(InstrLines, l)

(***************************************************************************)
(* The second pass writes a word for every instruction.                    *)
(***************************************************************************)
WordsWritten ==
  /\ pass = "second" => Len(instrOut) = at - 1
  /\ pass = "done" => Len(instrOut) = Len(instructions)
  /\ pass # "first" =>
       \A k \in DOMAIN instrOut :
         instrOut[k] = Encoded(instructions[k].line, instructions[k].address)

TextInv == /\ AtSection /\ LinesInPlace
           /\ OrdinaryText => TextAddresses /\ TextLabels
           /\ TextAssembles => WordsWritten

LEMMA TextInit == ASSUME Init PROVE TextInv
  <1>1. source \in Seq(Line)
    BY SourcesAssumption DEF Init
  <1>2. DOMAIN source = 1 .. Len(source)
    BY <1>1
  <1>3. {k \in InstrLines : k < 1} = {}
    BY <1>2, LineSets
  <1>4. Before(InstrLines, 1) = 0
    BY <1>3, FS_EmptySet DEF Before
  <1>5. \A l \in DOMAIN source : ~(l < 1)
    BY <1>2
  <1>6. LinesRead = 1 /\ Len(instructions) = 0 /\ instr_pc = 0 /\ AtSection
        /\ DOMAIN instructions = {} /\ pass = "first"
    BY FirstSection DEF Init, LinesRead, AtSection
  <1>7. LinesInPlace /\ TextAddresses /\ TextLabels /\ WordsWritten
    BY <1>4, <1>5, <1>6, LineSets
    DEF LinesInPlace, TextAddresses, TextLabels, WordsWritten
  <1> QED BY <1>6, <1>7 DEF TextInv

\* A step that leaves the source leaves what is said of it.
LEMMA TextStays ==
  ASSUME source' = source
  PROVE  /\ OrdinaryText' = OrdinaryText /\ TextAssembles' = TextAssembles
         /\ \A l : Before(InstrLines, l)' = Before(InstrLines, l)
         /\ \A l : TextLabel(l)' = TextLabel(l)
  BY SourceStays DEF OrdinaryText, TextAssembles, LabelsOnce, Before, TextLabel, Assembles

LEMMA EncodedStays ==
  ASSUME labelMap' = labelMap, NEW line, NEW pc
  PROVE  Encoded(line, pc)' = Encoded(line, pc)
  <1>1. Resolved(line, pc)' = Resolved(line, pc)
    BY DEF Resolved, resolveSymbol, Target
  <1> QED BY <1>1 DEF Encoded

LEMMA TextOther ==
  ASSUME IInv, TextInv, TextAssembles => WordsWritten',
         FirstPassEnds \/ Assemble \/ Skip \/ OutputData \/ UNCHANGED vars
  PROVE  TextInv'
  <1> USE OtherSteps DEF firstVars
  <1>1. LinesRead' = LinesRead
    BY DEF LinesRead
  <1>2. AtSection'
    BY SourceStays DEF TextInv, AtSection
  <1>3. LinesInPlace' /\ (TextAddresses => TextAddresses') /\ (TextLabels => TextLabels')
    BY <1>1, TextStays, SourceStays
    DEF TextInv, LinesInPlace, TextAddresses, TextLabels
  <1> QED BY <1>2, <1>3, TextStays DEF TextInv

LEMMA WritesWords ==
  ASSUME IInv, TextInv, TextAssembles,
         FirstPassEnds \/ Assemble \/ Skip \/ OutputData \/ UNCHANGED vars
  PROVE  WordsWritten'
  <1>1. WordsWritten /\ instrOut \in Seq(Word) /\ instructions \in Seq(TextEntry)
    BY DEF TextInv, IInv, Shapes
  <1>2. UNCHANGED <<instructions, labelMap>>
    BY OtherSteps DEF firstVars
  <1>3. \A k : Encoded(instructions[k].line, instructions[k].address)'
                 = Encoded(instructions[k].line, instructions[k].address)
    BY <1>2, EncodedStays
  <1>4. CASE FirstPassEnds
    <2>1. instrOut' = <<>> /\ at' = 1 /\ pass' = "second"
      BY <1>4 DEF FirstPassEnds, outVars, IInv, Progress
    <2> QED BY <2>1 DEF WordsWritten
  <1>5. CASE Assemble
    <2> DEFINE word == Encoded(instructions[at].line, instructions[at].address)
    <2>1. pass = "second" /\ pass' = "second" /\ at' = at + 1
          /\ Len(instrOut) = at - 1
      BY <1>1, <1>5 DEF Assemble, Next2nd, WordsWritten
    <2> HIDE DEF word
    <2>2. instrOut' = Append(instrOut, word)
      BY <1>5 DEF Assemble, word
    <2>3. at \in Int
      BY DEF IInv, TypeOK
    <2>4. Len(instrOut') = at /\ DOMAIN instrOut' = 1 .. at /\ instrOut'[at] = word
          /\ \A k \in 1 .. at - 1 : k \in DOMAIN instrOut /\ instrOut'[k] = instrOut[k]
      BY <1>1, <2>1, <2>2, <2>3
    <2>5. \A k \in DOMAIN instrOut' :
            instrOut'[k] = Encoded(instructions[k].line, instructions[k].address)
      <3> SUFFICES ASSUME NEW k \in 1 .. at
                   PROVE  instrOut'[k] = Encoded(instructions[k].line,
                                                 instructions[k].address)
        BY <2>4
      <3>1. CASE k = at
        BY <2>4, <3>1 DEF word
      <3>2. CASE k # at
        <4>1. k \in 1 .. at - 1
          BY <2>3, <3>2
        <4> QED BY <1>1, <2>1, <2>4, <4>1 DEF WordsWritten
      <3> QED BY <3>1, <3>2
    <2>6. \A k \in DOMAIN instrOut' :
            instrOut'[k] = Encoded(instructions[k].line, instructions[k].address)'
      BY <1>3, <2>5
    <2> QED BY <2>1, <2>3, <2>4, <2>6 DEF WordsWritten
  <1>6. CASE Skip
    <2>1. at \in DOMAIN instructions /\ ~Assembles(instructions[at].line)
      BY <1>6 DEF Skip, Next2nd, IInv, TypeOK, Shapes
    <2>2. PICK l \in InstrLines : instructions[at].line = source[l]
      BY <2>1 DEF TextInv, LinesInPlace
    <2> QED BY <2>1, <2>2 DEF TextAssembles
  <1>7. CASE OutputData
    <2>1. pass = "second" /\ pass' = "done" /\ instrOut' = instrOut
          /\ at > Len(instructions) /\ Len(instrOut) = at - 1
      BY <1>1, <1>7 DEF OutputData, WordsWritten
    <2>2. at <= Len(instructions) + 1 /\ at \in Int /\ Len(instructions) \in Nat
      BY <1>1, <2>1 DEF IInv, TypeOK, Progress
    <2>3. Len(instrOut') = Len(instructions')
      BY <1>2, <2>1, <2>2
    <2> QED BY <1>1, <1>3, <2>1, <2>3 DEF WordsWritten
  <1>8. CASE UNCHANGED vars
    BY <1>1, <1>3, <1>8 DEF vars, WordsWritten
  <1> QED BY <1>4, <1>5, <1>6, <1>7, <1>8

LEMMA TextReads ==
  ASSUME IInv, TextInv, Reads
  PROVE  TextInv'
  <1>1. /\ AtSection /\ source \in Seq(Line) /\ instructions \in Seq(TextEntry)
        /\ pass = "first" /\ at \in DOMAIN source /\ at \in Int
        /\ at' = at + 1 /\ source' = source /\ pass' = pass
        /\ current_section' = Section(at + 1)
        /\ LinesRead = at /\ LinesRead' = at + 1
        /\ InstrLines \subseteq DOMAIN source /\ InstrLines \subseteq Int
    BY ReadsLine, LineSets DEF IInv, Shapes, TextInv, LinesRead
  <1>2. /\ InstrLines' = InstrLines
        /\ \A l : Section(l)' = Section(l)
    BY <1>1, SourceStays
  <1>3. AtSection'
    BY <1>1, <1>2 DEF AtSection
  <1>4. \A l : Before(InstrLines, l) \in Nat
    BY <1>1, LinesFinite
  <1>5. Len(instructions) = Before(InstrLines, at)
    BY <1>1 DEF TextInv, LinesInPlace
  <1>6. ASSUME at \in InstrLines
        PROVE  LinesInPlace' /\ (OrdinaryText => TextAddresses')
    <2> DEFINE entry == [address |-> instr_pc, line |-> source[at]]
    <2>1. instructions' = Append(instructions, entry) /\ instr_pc' = instr_pc + 4
      BY <1>1, <1>6, ReadsText
    <2>2. entry.address = instr_pc /\ entry.line = source[at]
      OBVIOUS
    <2> HIDE DEF entry
    <2>3. /\ Len(instructions') = Len(instructions) + 1 /\ Len(instructions) \in Nat
          /\ DOMAIN instructions = 1 .. Len(instructions)
          /\ DOMAIN instructions' = 1 .. Len(instructions) + 1
          /\ \A k \in 1 .. Len(instructions) : instructions'[k] = instructions[k]
          /\ instructions'[Len(instructions) + 1] = entry
      BY <1>1, <2>1
    <2>4. Before(InstrLines, at + 1) = Before(InstrLines, at) + 1
      BY <1>1, <1>6, BeforeStep
    <2>5. ASSUME NEW l \in InstrLines, l < at + 1
          PROVE  instructions'[Before(InstrLines, l) + 1].line = source[l]
      <3>1. CASE l = at
        BY <1>5, <2>2, <2>3, <3>1
      <3>2. CASE l < at
        <4>1. Before(InstrLines, l) + 1 \in 1 .. Len(instructions)
          BY <1>1, <1>4, <1>5, <3>2, PlaceBefore
        <4> QED BY <1>1, <2>3, <3>2, <4>1 DEF TextInv, LinesInPlace
      <3> QED BY <1>1, <2>5, <3>1, <3>2
    <2>6. ASSUME NEW k \in DOMAIN instructions'
          PROVE  \E l \in InstrLines : instructions'[k].line = source[l]
      <3>1. CASE k \in DOMAIN instructions
        BY <2>3, <3>1 DEF TextInv, LinesInPlace
      <3>2. CASE k = Len(instructions) + 1
        BY <1>6, <2>2, <2>3, <3>2
      <3> QED BY <2>3, <3>1, <3>2
    <2>7. LinesInPlace'
      BY <1>1, <1>2, <1>5, <2>3, <2>4, <2>5, <2>6, TextStays DEF LinesInPlace
    <2>8. OrdinaryText => TextAddresses'
      BY <2>1, <2>2, <2>3 DEF TextInv, TextAddresses
    <2> QED BY <2>7, <2>8
  <1>7. ASSUME at \notin InstrLines
        PROVE  LinesInPlace' /\ (OrdinaryText => TextAddresses')
    <2>1. instructions' = instructions /\ Before(InstrLines, at + 1) = Before(InstrLines, at)
      BY <1>1, <1>7, ReadsText, BeforeStep
    <2>2. \A l \in InstrLines : l < at + 1 => l < at
      BY <1>1, <1>7
    <2>3. LinesInPlace'
      BY <1>1, <1>2, <1>5, <2>1, <2>2, TextStays DEF TextInv, LinesInPlace
    <2>4. ASSUME OrdinaryText PROVE instr_pc' = instr_pc
      <3>1. CASE InText /\ source[at].kind = "align"
        <4>1. Section(at) = ".text"
          BY <1>1, <3>1 DEF InText, AtSection
        <4>2. source[at].bits \in Nat /\ source[at].bits <= 2
          BY <1>1, <2>4, <3>1, <4>1, LineTypes DEF OrdinaryText
        <4>3. instr_pc = 4 * Len(instructions) /\ Len(instructions) \in Nat
          BY <1>1, <2>4 DEF TextInv, TextAddresses
        <4> QED BY <1>1, <3>1, <4>2, <4>3, AlignKeepsWords, ReadsText
      <3> QED BY <1>1, <1>7, <3>1, ReadsText
    <2>5. OrdinaryText => TextAddresses'
      BY <2>1, <2>4 DEF TextInv, TextAddresses
    <2> QED BY <2>3, <2>5
  <1>8. LinesInPlace' /\ (OrdinaryText => TextAddresses')
    BY <1>6, <1>7
  <1>9. ASSUME OrdinaryText
        PROVE  TextLabels'
    <2> SUFFICES ASSUME NEW l \in DOMAIN source, TextLabel(l), l < at + 1
                 PROVE  /\ source[l].name \in DOMAIN labelMap'
                        /\ labelMap'[source[l].name] = 4 * Before(InstrLines, l)
      BY <1>1, <1>2, TextStays DEF TextLabels
    <2>1. l \in Int
      BY <1>1
    <2>2. CASE l < at
      <3>1. /\ source[l].name \in DOMAIN labelMap
            /\ labelMap[source[l].name] = 4 * Before(InstrLines, l)
        BY <1>1, <1>9, <2>2 DEF TextInv, TextLabels
      <3>2. source[at].kind = "label" => source[at].name # source[l].name
        <4>1. LabelsOnce
          BY <1>9 DEF OrdinaryText
        <4> QED BY <1>1, <2>1, <2>2, <4>1 DEF LabelsOnce, TextLabel
      <3> QED BY <1>1, <3>1, <3>2, ReadsLabel
    <2>3. CASE l = at
      <3>1. InText /\ source[at].kind = "label"
        BY <1>1, <2>3 DEF TextLabel, InText, AtSection
      <3>2. instr_pc = 4 * Before(InstrLines, at)
        BY <1>5, <1>9 DEF TextInv, TextAddresses
      <3> QED BY <1>1, <2>3, <3>1, <3>2, ReadsLabel
    <2> QED BY <1>1, <2>1, <2>2, <2>3
  <1>10. WordsWritten'
    BY <1>1 DEF WordsWritten
  <1> QED BY <1>1, <1>3, <1>8, <1>9, <1>10, TextStays DEF TextInv

LEMMA TextHolds == Spec => []TextInv
  <1>1. ASSUME IInv, TextInv, [Next]_vars PROVE TextInv'
    BY <1>1, TextOther, WritesWords, TextReads DEF Next, Reads
  <1> QED BY <1>1, TextInit, ShapesHold, PTL DEF Spec

\* The word of a line of text, at its place.
LEMMA TextWord ==
  ASSUME IInv, TextInv, TextAssembles, pass = "done", NEW l \in TextLines
  PROVE  LET k == Before(InstrLines, l) + 1
         IN /\ TextLines = InstrLines /\ l \in DOMAIN source
            /\ source[l] \in InstructionLines /\ Assembles(source[l])
            /\ Place(TextLines, l) = k /\ Before(InstrLines, l) \in Nat
            /\ k \in DOMAIN instructions
            /\ instrOut[k] = Encoded(source[l], instructions[k].address)
  <1> DEFINE i == Before(InstrLines, l)
  <1>1. TextLines = InstrLines
    BY DEF TextLines, InstrLines, TextAssembles, Assembles
  <1>2. /\ source \in Seq(Line) /\ l \in DOMAIN source
        /\ source[l] \in InstructionLines /\ Assembles(source[l])
    <2>1. source \in Seq(Line) /\ l \in DOMAIN source
      BY DEF IInv, Shapes, TextLines
    <2>2. source[l] \in Line /\ Assembles(source[l])
      BY <2>1 DEF TextLines
    <2> QED BY <2>1, <2>2 DEF InstructionLines, Assembles
  <1>3. InstrLines \subseteq DOMAIN source /\ LinesRead = Len(source) + 1
    BY LineSets DEF LinesRead
  <1>4. i \in Nat
    BY <1>2, <1>3, LinesFinite
  <1>5. Place(TextLines, l) = i + 1
    <2>1. Place(InstrLines, l) = 1 + i
      BY DEF Place, Before
    <2> QED BY <1>1, <1>4, <2>1
  <1>6. l < LinesRead /\ LinesRead \in Int
    BY <1>2, <1>3
  <1>7. i + 1 \in DOMAIN instructions /\ DOMAIN instrOut = DOMAIN instructions
    <2>1. /\ instructions \in Seq(TextEntry) /\ instrOut \in Seq(Word)
          /\ Len(instructions) = Before(InstrLines, LinesRead)
          /\ Len(instrOut) = Len(instructions)
      BY DEF IInv, Shapes, TextInv, LinesInPlace, WordsWritten
    <2>2. i + 1 <= Before(InstrLines, LinesRead)
      BY <1>1, <1>2, <1>3, <1>6, PlaceBefore
    <2> QED BY <1>4, <2>1, <2>2
  <1>8. instructions[i + 1].line = source[l]
    BY <1>1, <1>6 DEF TextInv, LinesInPlace
  <1>9. instrOut[i + 1] = Encoded(source[l], instructions[i + 1].address)
    BY <1>7, <1>8 DEF TextInv, WordsWritten
  <1> QED BY <1>1, <1>2, <1>4, <1>5, <1>7, <1>9

(***************************************************************************)
(* In a source of any length whose text is ordinary, every jump and branch *)
(* is the word for its distance in the program, in instructions, to what   *)
(* follows its label (assembler.cpp:349-437, 684-736).                     *)
(***************************************************************************)
THEOREM DistancesEncodedForAll == Spec => [](OrdinaryText => DistancesEncoded)
  <1>1. ASSUME IInv, TextInv, OrdinaryText, pass = "done",
               NEW l \in TextLines, NEW target \in DOMAIN source,
               source[l].op \in Jumps, Defines(target, source[l].symbol),
               Section(target) = ".text"
        PROVE  instrOut[Place(TextLines, l)] =
                 encodeControl([source[l] EXCEPT !.imm = Distance(l, target)])
    <2> DEFINE i == Before(InstrLines, l)
               t == Before(InstrLines, target)
               line == source[l]
    <2>1. /\ TextLines = InstrLines /\ l \in DOMAIN source /\ line \in InstructionLines
          /\ Place(TextLines, l) = i + 1 /\ i \in Nat /\ i + 1 \in DOMAIN instructions
          /\ instrOut[i + 1] = Encoded(line, instructions[i + 1].address)
      <3>1. TextAssembles
        BY <1>1 DEF OrdinaryText
      <3> QED BY <1>1, <3>1, TextWord
    <2>2. source \in Seq(Line) /\ source \in Sources /\ line.part = "distance"
      <3>1. source \in Seq(Line) /\ source \in Sources /\ line.kind = "instruction"
        BY <1>1, <2>1 DEF IInv, TypeOK, Shapes, InstructionLines
      <3> QED BY <1>1, <2>1, <3>1, SourcesAssumption
    <2>3. target < LinesRead /\ InstrLines \subseteq DOMAIN source
      BY <1>1, <2>2, LineSets DEF LinesRead
    <2>4. t \in Nat
      BY <2>2, <2>3, LinesFinite
    <2>5. Distance(l, target) = t - i
      <3>1. Place(InstrLines, target) = 1 + t
        BY DEF Place, Before
      <3> QED BY <2>1, <2>4, <3>1 DEF Distance
    <2>6. instructions[i + 1].address = 4 * i
      <3>1. instructions[i + 1].address = 4 * ((i + 1) - 1)
        BY <1>1, <2>1 DEF TextInv, TextAddresses
      <3> QED BY <2>1, <3>1
    <2>7. line.symbol \in DOMAIN labelMap /\ Target(line) = 4 * t
      <3>1. TextLabel(target) /\ source[target].name = line.symbol
        BY <1>1 DEF TextLabel, Defines
      <3>2. /\ source[target].name \in DOMAIN labelMap
            /\ labelMap[source[target].name] = 4 * t
        BY <1>1, <2>3, <3>1 DEF TextInv, TextLabels
      <3> QED BY <3>1, <3>2 DEF Target
    <2> HIDE DEF i, t, line
    <2>8. resolveSymbol(line, 4 * i) = t - i
      <3>1. (4 * t - 4 * i) \div 4 = t - i
        BY <2>1, <2>4
      <3> QED BY <2>2, <2>7, <3>1 DEF resolveSymbol
    <2>9. Encoded(line, 4 * i) = encodeControl([line EXCEPT !.imm = t - i])
      <3> DEFINE resolved == [line EXCEPT !.imm = t - i]
      <3>1. line.op \in Jumps
        BY <1>1 DEF line
      <3>2. Resolved(line, 4 * i) = resolved
        BY <2>8, <3>1 DEF Resolved, Jumps, Branches
      <3>3. resolved.op = line.op
        BY <2>1 DEF InstructionLines, Line
      <3> HIDE DEF resolved
      <3>4. /\ line.op \notin DOMAIN rTypeFunctMap \cup DOMAIN iTypeFunctMap
                               \cup DOMAIN fTypeFunctMap
            /\ line.op \notin {"lw", "flw", "sw", "fsw", "lui", "sx_slt"}
        BY <3>1 DEF Jumps, Branches, rTypeFunctMap, iTypeFunctMap, fTypeFunctMap
      <3> QED BY <2>7, <3>2, <3>3, <3>4 DEF Encoded, resolved
    <2> QED BY <2>1, <2>5, <2>6, <2>9 DEF line
  <1>2. IInv /\ TextInv => (OrdinaryText => DistancesEncoded)
    BY <1>1 DEF DistancesEncoded, Goes
  <1> QED BY <1>2, ShapesHold, TextHolds, PTL

-----------------------------------------------------------------------------
(***************************************************************************)
(* The fields of a word.                                                   *)
(***************************************************************************)
LEMMA PieceRange ==
  ASSUME NEW v, NEW n \in Nat, NEW lo \in Nat
  PROVE  /\ At(Bits(v, n), lo) \subseteq lo .. lo + n - 1
         /\ Bits(v, n) \subseteq 0 .. n - 1
  <1>1. Bits(v, n) \subseteq 0 .. n - 1
    BY DEF Bits
  <1> QED BY <1>1 DEF At

LEMMA FieldUnion ==
  ASSUME NEW A, NEW B, NEW hi, NEW lo
  PROVE  Field(A \cup B, hi, lo) = Field(A, hi, lo) \cup Field(B, hi, lo)
  <1>1. (A \cup B) \cap lo .. hi = (A \cap lo .. hi) \cup (B \cap lo .. hi)
    OBVIOUS
  <1> QED BY <1>1, Zenon DEF Field

LEMMA FieldElsewhere ==
  ASSUME NEW bits, NEW hi, NEW lo, bits \cap lo .. hi = {}
  PROVE  Field(bits, hi, lo) = {}
  BY DEF Field

LEMMA PieceElsewhere ==
  ASSUME NEW v, NEW n \in Nat, NEW p \in Nat, NEW hi \in Nat, NEW lo \in Nat,
         p > hi \/ p + n <= lo
  PROVE  Field(At(Bits(v, n), p), hi, lo) = {}
  <1>1. At(Bits(v, n), p) \subseteq p .. p + n - 1
    BY PieceRange
  <1>2. (p .. p + n - 1) \cap lo .. hi = {}
    OBVIOUS
  <1>3. At(Bits(v, n), p) \cap lo .. hi = {}
    BY <1>1, <1>2
  <1> QED BY <1>3, FieldElsewhere

LEMMA PieceHere ==
  ASSUME NEW v, NEW n \in Nat, NEW hi \in Nat, NEW lo \in Nat, lo + n <= hi + 1
  PROVE  Field(At(Bits(v, n), lo), hi, lo) = Bits(v, n)
  <1> DEFINE bits == Bits(v, n)
  <1>1. bits \subseteq 0 .. n - 1
    BY PieceRange
  <1> HIDE DEF bits
  <1>2. \A i \in bits : i \in Int /\ i + lo \in lo .. hi /\ (i + lo) - lo = i
    BY <1>1
  <1>3. At(bits, lo) \cap lo .. hi = At(bits, lo)
    BY <1>2 DEF At
  <1>4. {j - lo : j \in At(bits, lo)} = bits
    BY <1>2 DEF At
  <1>5. Field(At(bits, lo), hi, lo) = bits
    BY <1>3, <1>4, Zenon DEF Field
  <1> QED BY <1>5 DEF bits

LEMMA AtZero == ASSUME NEW v, NEW n \in Nat PROVE At(Bits(v, n), 0) = Bits(v, n)
  <1> DEFINE bits == Bits(v, n)
  <1>1. bits \subseteq 0 .. n - 1
    BY PieceRange
  <1> HIDE DEF bits
  <1>2. \A i \in bits : i + 0 = i
    BY <1>1
  <1>3. At(bits, 0) = bits
    BY <1>2 DEF At
  <1> QED BY <1>3 DEF bits

LEMMA LowPiece ==
  ASSUME NEW v, NEW n \in Nat, NEW hi \in Nat, NEW lo \in Nat
  PROVE  /\ n <= hi + 1 => Field(Bits(v, n), hi, 0) = Bits(v, n)
         /\ n <= lo => Field(Bits(v, n), hi, lo) = {}
  <1>1. At(Bits(v, n), 0) = Bits(v, n)
    BY AtZero
  <1>2. n <= hi + 1 => Field(At(Bits(v, n), 0), hi, 0) = Bits(v, n)
    BY PieceHere
  <1>3. n <= lo => Field(At(Bits(v, n), 0), hi, lo) = {}
    BY PieceElsewhere
  <1> QED BY <1>1, <1>2, <1>3

LEMMA NoBits == ASSUME NEW n \in Nat PROVE Bits(0, n) = {} /\ At(Bits(0, n), 14) = {}
  <1>1. ASSUME NEW i \in 0 .. n - 1 PROVE 0 \div 2^i = 0
    <2>1. 2^i \in Nat \ {0}
      BY PowerNat
    <2> QED BY <2>1
  <1>2. Bits(0, n) = {}
    BY <1>1 DEF Bits
  <1> QED BY <1>2 DEF At

(***************************************************************************)
(* What the decoder reads of a word, by the encoder that made it.          *)
(***************************************************************************)
LEMMA ArithmeticFields ==
  ASSUME NEW opcode, NEW funct, NEW i, NEW rs2, NEW imm, NEW n \in Nat,
         n <= 14, i.scalar \in BOOLEAN, rs2 = 0 \/ n = 0,
         NEW word, word = Arithmetic(opcode, funct, i, rs2) \cup At(Bits(imm, n), 14)
  PROVE  /\ Field(word, 31, 29) = Bits(opcode, 3)
         /\ Field(word, 13, 10) = Bits(funct, 4)
         /\ Field(word, 4, 0) = Bits(i.rd, 5)
         /\ Field(word, 9, 5) = Bits(i.rs1, 5)
         /\ n = 0 => Field(word, 18, 14) = Bits(rs2, 5)
         /\ rs2 = 0 => Field(word, 27, 14) = Bits(imm, n)
  <1> DEFINE flag == IF i.scalar THEN {28} ELSE {}
             p == At(Bits(opcode, 3), 29)
             q == At(Bits(rs2, 5), 14)
             r == At(Bits(funct, 4), 10)
             s == At(Bits(i.rs1, 5), 5)
             t == Bits(i.rd, 5)
             u == At(Bits(imm, n), 14)
             F(hi, lo) == Field(p, hi, lo) \cup Field(flag, hi, lo) \cup Field(q, hi, lo)
                            \cup Field(r, hi, lo) \cup Field(s, hi, lo) \cup Field(t, hi, lo)
                            \cup Field(u, hi, lo)
  <1>1. \A hi, lo : Field(word, hi, lo) = F(hi, lo)
    <2>1. word = (((((p \cup flag) \cup q) \cup r) \cup s) \cup t) \cup u
      BY DEF Arithmetic
    <2> HIDE DEF p, q, r, s, t, u, flag
    <2> TAKE hi, lo
    <2> QED BY <2>1 DEF Field
  <1>2. \A hi, lo \in Nat : 28 \notin lo .. hi => Field(flag, hi, lo) = {}
    <2> TAKE hi, lo \in Nat
    <2>1. flag \subseteq {28}
      OBVIOUS
    <2> HIDE DEF flag
    <2> QED BY <2>1, FieldElsewhere
  <1> HIDE DEF flag
  <1>3. n = 0 => u = {}
    <2> SUFFICES ASSUME n = 0 PROVE u = {}
      OBVIOUS
    <2>1. u \subseteq 14 .. 14 + 0 - 1
      BY PieceRange
    <2> QED BY <2>1
  <1>4. rs2 = 0 => q = {}
    BY NoBits
  <1>5. \A hi, lo : Field({}, hi, lo) = {}
    BY DEF Field
  <1>6. Field(word, 31, 29) = Bits(opcode, 3)
    <2>1. /\ Field(flag, 31, 29) = {} /\ Field(p, 31, 29) = Bits(opcode, 3)
          /\ Field(q, 31, 29) = {} /\ Field(r, 31, 29) = {} /\ Field(s, 31, 29) = {}
          /\ Field(t, 31, 29) = {} /\ Field(u, 31, 29) = {}
      BY <1>2, PieceHere, PieceElsewhere, LowPiece
    <2> HIDE DEF p, q, r, s, t, u
    <2> QED BY <1>1, <2>1
  <1>7. Field(word, 13, 10) = Bits(funct, 4)
    <2>1. /\ Field(flag, 13, 10) = {} /\ Field(p, 13, 10) = {}
          /\ Field(q, 13, 10) = {} /\ Field(r, 13, 10) = Bits(funct, 4)
          /\ Field(s, 13, 10) = {} /\ Field(t, 13, 10) = {} /\ Field(u, 13, 10) = {}
      BY <1>2, PieceHere, PieceElsewhere, LowPiece
    <2> HIDE DEF p, q, r, s, t, u
    <2> QED BY <1>1, <2>1
  <1>8. Field(word, 9, 5) = Bits(i.rs1, 5)
    <2>1. /\ Field(flag, 9, 5) = {} /\ Field(p, 9, 5) = {}
          /\ Field(q, 9, 5) = {} /\ Field(r, 9, 5) = {}
          /\ Field(s, 9, 5) = Bits(i.rs1, 5) /\ Field(t, 9, 5) = {} /\ Field(u, 9, 5) = {}
      BY <1>2, PieceHere, PieceElsewhere, LowPiece
    <2> HIDE DEF p, q, r, s, t, u
    <2> QED BY <1>1, <2>1
  <1>9. Field(word, 4, 0) = Bits(i.rd, 5)
    <2>1. /\ Field(flag, 4, 0) = {} /\ Field(p, 4, 0) = {}
          /\ Field(q, 4, 0) = {} /\ Field(r, 4, 0) = {}
          /\ Field(s, 4, 0) = {} /\ Field(t, 4, 0) = Bits(i.rd, 5) /\ Field(u, 4, 0) = {}
      BY <1>2, PieceHere, PieceElsewhere, LowPiece
    <2> HIDE DEF p, q, r, s, t, u
    <2> QED BY <1>1, <2>1
  <1>10. n = 0 => Field(word, 18, 14) = Bits(rs2, 5)
    <2>1. /\ Field(flag, 18, 14) = {} /\ Field(p, 18, 14) = {}
          /\ Field(q, 18, 14) = Bits(rs2, 5) /\ Field(r, 18, 14) = {}
          /\ Field(s, 18, 14) = {} /\ Field(t, 18, 14) = {}
      BY <1>2, PieceHere, PieceElsewhere, LowPiece
    <2> HIDE DEF p, q, r, s, t, u
    <2> QED BY <1>1, <1>3, <1>5, <2>1
  <1>11. rs2 = 0 => Field(word, 27, 14) = Bits(imm, n)
    <2>1. /\ Field(flag, 27, 14) = {} /\ Field(p, 27, 14) = {}
          /\ Field(u, 27, 14) = Bits(imm, n) /\ Field(r, 27, 14) = {}
          /\ Field(s, 27, 14) = {} /\ Field(t, 27, 14) = {}
      BY <1>2, PieceHere, PieceElsewhere, LowPiece
    <2> HIDE DEF p, q, r, s, t, u
    <2>2. rs2 = 0 => Field(q, 27, 14) = {}
      BY <1>4, <1>5
    <2> QED BY <1>1, <2>1, <2>2
  <1> QED BY <1>6, <1>7, <1>8, <1>9, <1>10, <1>11

LEMMA ArithmeticScalar ==
  ASSUME NEW opcode, NEW funct, NEW i, NEW rs2, NEW imm, NEW n \in Nat,
         n <= 14, i.scalar \in BOOLEAN,
         NEW word, word = Arithmetic(opcode, funct, i, rs2) \cup At(Bits(imm, n), 14)
  PROVE  (28 \in word) = i.scalar
  <1> DEFINE flag == IF i.scalar THEN {28} ELSE {}
             p == At(Bits(opcode, 3), 29)
             q == At(Bits(rs2, 5), 14)
             r == At(Bits(funct, 4), 10)
             s == At(Bits(i.rs1, 5), 5)
             t == Bits(i.rd, 5)
             u == At(Bits(imm, n), 14)
  <1>1. /\ p \subseteq 29 .. 29 + 3 - 1 /\ q \subseteq 14 .. 14 + 5 - 1
        /\ r \subseteq 10 .. 10 + 4 - 1 /\ s \subseteq 5 .. 5 + 5 - 1
        /\ t \subseteq 0 .. 5 - 1 /\ u \subseteq 14 .. 14 + n - 1
    BY PieceRange
  <1>2. 28 \notin p /\ 28 \notin q /\ 28 \notin r /\ 28 \notin s /\ 28 \notin t
        /\ 28 \notin u
    <2> HIDE DEF p, q, r, s, t, u
    <2> QED BY <1>1
  <1>3. word = (((((p \cup flag) \cup q) \cup r) \cup s) \cup t) \cup u
    BY DEF Arithmetic
  <1> HIDE DEF p, q, r, s, t, u
  <1> QED BY <1>2, <1>3

LEMMA AccessFields ==
  ASSUME NEW i, i.scalar \in BOOLEAN, NEW rest \in SUBSET (0 .. 4 \cup 14 .. 28)
  PROVE  LET word == Access(i) \cup rest
         IN /\ Field(word, 31, 29) = Bits(4, 3)
            /\ Field(word, 12, 10) = Bits(mTypeFunctMap[i.op], 3)
            /\ Field(word, 9, 5) = Bits(i.rs1, 5)
            /\ Field(word, 4, 0) = Field(rest, 4, 0)
            /\ Field(word, 28, 14) = Field(rest, 28, 14)
            /\ Field(word, 28, 19) = Field(rest, 28, 19)
            /\ Field(word, 18, 14) = Field(rest, 18, 14)
            /\ (13 \in word) = i.scalar
  <1> DEFINE flag == IF i.scalar THEN {13} ELSE {}
             p == At(Bits(4, 3), 29)
             r == At(Bits(mTypeFunctMap[i.op], 3), 10)
             s == At(Bits(i.rs1, 5), 5)
             word == Access(i) \cup rest
             F(hi, lo) == Field(p, hi, lo) \cup Field(flag, hi, lo) \cup Field(r, hi, lo)
                            \cup Field(s, hi, lo) \cup Field(rest, hi, lo)
  <1>1. \A hi, lo : Field(word, hi, lo) = F(hi, lo)
    <2>1. word = (((p \cup flag) \cup r) \cup s) \cup rest
      BY DEF Access
    <2> HIDE DEF word, p, r, s, flag
    <2> QED BY <2>1 DEF Field
  <1>2. \A hi, lo \in Nat : 13 \notin lo .. hi => Field(flag, hi, lo) = {}
    <2> TAKE hi, lo \in Nat
    <2>1. flag \subseteq {13}
      OBVIOUS
    <2> HIDE DEF flag
    <2> QED BY <2>1, FieldElsewhere
  <1> HIDE DEF flag
  <1>3. /\ Field(rest, 31, 29) = {} /\ Field(rest, 12, 10) = {} /\ Field(rest, 9, 5) = {}
    BY DEF Field
  <1>4. /\ Field(p, 31, 29) = Bits(4, 3) /\ Field(flag, 31, 29) = {}
        /\ Field(r, 31, 29) = {} /\ Field(s, 31, 29) = {}
    BY <1>2, PieceHere, PieceElsewhere
  <1>5. /\ Field(p, 12, 10) = {} /\ Field(flag, 12, 10) = {}
        /\ Field(r, 12, 10) = Bits(mTypeFunctMap[i.op], 3) /\ Field(s, 12, 10) = {}
    BY <1>2, PieceHere, PieceElsewhere
  <1>6. /\ Field(p, 9, 5) = {} /\ Field(flag, 9, 5) = {}
        /\ Field(r, 9, 5) = {} /\ Field(s, 9, 5) = Bits(i.rs1, 5)
    BY <1>2, PieceHere, PieceElsewhere
  <1>7. \A hi, lo \in Nat :
          hi <= 4 \/ (lo >= 14 /\ hi <= 28) =>
            /\ Field(p, hi, lo) = {} /\ Field(flag, hi, lo) = {}
            /\ Field(r, hi, lo) = {} /\ Field(s, hi, lo) = {}
    BY <1>2, PieceElsewhere
  <1>8. (13 \in word) = i.scalar
    <2>1. /\ p \subseteq 29 .. 29 + 3 - 1 /\ r \subseteq 10 .. 10 + 3 - 1
          /\ s \subseteq 5 .. 5 + 5 - 1
      BY PieceRange
    <2>2. 13 \notin p /\ 13 \notin r /\ 13 \notin s /\ 13 \notin rest
      <3> HIDE DEF p, r, s
      <3> QED BY <2>1
    <2>3. 13 \in word <=> 13 \in flag
      BY <2>2 DEF Access, flag
    <2>4. 13 \in flag <=> i.scalar
      BY DEF flag
    <2> QED BY <2>3, <2>4
  <1> HIDE DEF p, r, s, word
  <1>9. /\ Field(word, 31, 29) = Bits(4, 3)
        /\ Field(word, 12, 10) = Bits(mTypeFunctMap[i.op], 3)
        /\ Field(word, 9, 5) = Bits(i.rs1, 5)
    BY <1>1, <1>3, <1>4, <1>5, <1>6
  <1>10. \A hi, lo \in Nat :
          hi <= 4 \/ (lo >= 14 /\ hi <= 28) => Field(word, hi, lo) = Field(rest, hi, lo)
    <2> TAKE hi, lo \in Nat
    <2>1. Field(word, hi, lo) = F(hi, lo)
      BY <1>1
    <2> QED BY <1>7, <2>1
  <1>11. /\ Field(word, 4, 0) = Field(rest, 4, 0)
         /\ Field(word, 28, 14) = Field(rest, 28, 14)
         /\ Field(word, 28, 19) = Field(rest, 28, 19)
         /\ Field(word, 18, 14) = Field(rest, 18, 14)
    BY <1>10
  <1> QED BY <1>8, <1>9, <1>11 DEF word

LEMMA LoadFields ==
  ASSUME NEW i, i.scalar \in BOOLEAN
  PROVE  LET word == encodeLoad(i)
         IN /\ Field(word, 31, 29) = Bits(4, 3)
            /\ Field(word, 12, 10) = Bits(mTypeFunctMap[i.op], 3)
            /\ Field(word, 9, 5) = Bits(i.rs1, 5)
            /\ Field(word, 4, 0) = Bits(i.rd, 5)
            /\ Field(word, 28, 14) = Bits(i.imm, 15)
            /\ (13 \in word) = i.scalar
  <1> DEFINE t == Bits(i.rd, 5)
             u == At(Bits(i.imm, 15), 14)
             rest == u \cup t
  <1>1. t \subseteq 0 .. 5 - 1 /\ u \subseteq 14 .. 14 + 15 - 1
    BY PieceRange
  <1>2. rest \in SUBSET (0 .. 4 \cup 14 .. 28) /\ encodeLoad(i) = Access(i) \cup rest
    <2>1. encodeLoad(i) = Access(i) \cup rest
      BY DEF encodeLoad
    <2> HIDE DEF t, u
    <2> QED BY <1>1, <2>1
  <1>3. Field(rest, 4, 0) = Bits(i.rd, 5) /\ Field(rest, 28, 14) = Bits(i.imm, 15)
    <2>1. /\ Field(t, 4, 0) = Bits(i.rd, 5) /\ Field(u, 4, 0) = {}
          /\ Field(t, 28, 14) = {} /\ Field(u, 28, 14) = Bits(i.imm, 15)
      BY PieceHere, PieceElsewhere, LowPiece
    <2> HIDE DEF t, u
    <2>2. \A hi, lo : Field(rest, hi, lo) = Field(u, hi, lo) \cup Field(t, hi, lo)
      BY DEF Field
    <2> HIDE DEF rest
    <2> QED BY <2>1, <2>2
  <1> HIDE DEF rest
  <1> QED BY <1>2, <1>3, AccessFields

LEMMA StoreFields ==
  ASSUME NEW i, i.scalar \in BOOLEAN, i.imm \in Int
  PROVE  LET word == encodeStore(i)
         IN /\ Field(word, 31, 29) = Bits(4, 3)
            /\ Field(word, 12, 10) = Bits(mTypeFunctMap[i.op], 3)
            /\ Field(word, 9, 5) = Bits(i.rs1, 5)
            /\ Field(word, 18, 14) = Bits(i.rs2, 5)
            /\ imm_s(word) = Bits(i.imm, 15)
            /\ (13 \in word) = i.scalar
  <1> DEFINE t == Bits(i.imm, 5)
             u == At(Bits(i.rs2, 5), 14)
             w == At(Bits(i.imm \div 32, 10), 19)
             rest == (w \cup u) \cup t
  <1>1. t \subseteq 0 .. 5 - 1 /\ u \subseteq 14 .. 14 + 5 - 1 /\ w \subseteq 19 .. 19 + 10 - 1
    BY PieceRange
  <1>2. rest \in SUBSET (0 .. 4 \cup 14 .. 28) /\ encodeStore(i) = Access(i) \cup rest
    <2>1. encodeStore(i) = Access(i) \cup rest
      BY DEF encodeStore
    <2> HIDE DEF t, u, w
    <2> QED BY <1>1, <2>1
  <1>3. /\ Field(rest, 4, 0) = Bits(i.imm, 5) /\ Field(rest, 18, 14) = Bits(i.rs2, 5)
        /\ Field(rest, 28, 19) = Bits(i.imm \div 32, 10)
    <2>1. /\ Field(t, 4, 0) = Bits(i.imm, 5) /\ Field(u, 4, 0) = {} /\ Field(w, 4, 0) = {}
          /\ Field(t, 18, 14) = {} /\ Field(u, 18, 14) = Bits(i.rs2, 5)
          /\ Field(w, 18, 14) = {}
          /\ Field(t, 28, 19) = {} /\ Field(u, 28, 19) = {}
          /\ Field(w, 28, 19) = Bits(i.imm \div 32, 10)
      BY PieceHere, PieceElsewhere, LowPiece
    <2> HIDE DEF t, u, w
    <2>2. \A hi, lo : Field(rest, hi, lo) = Field(w, hi, lo) \cup Field(u, hi, lo)
                                              \cup Field(t, hi, lo)
      BY DEF Field
    <2> HIDE DEF rest
    <2> QED BY <2>1, <2>2
  <1> HIDE DEF rest
  <1>4. /\ Field(encodeStore(i), 4, 0) = Bits(i.imm, 5)
        /\ Field(encodeStore(i), 28, 19) = Bits(i.imm \div 32, 10)
    <2>1. /\ Field(Access(i) \cup rest, 4, 0) = Field(rest, 4, 0)
          /\ Field(Access(i) \cup rest, 28, 19) = Field(rest, 28, 19)
      BY <1>2, AccessFields
    <2> QED BY <1>2, <1>3, <2>1
  <1>5. Bits(i.imm, 15) = Bits(i.imm, 5) \cup At(Bits(i.imm \div 32, 10), 5)
    <2>1. 5 + 10 = 15 /\ 2^5 = 32 /\ 5 \in Nat /\ 10 \in Nat
      OBVIOUS
    <2>2. Bits(i.imm, 5 + 10) = Bits(i.imm, 5) \cup At(Bits(i.imm \div 2^5, 10), 5)
      BY <2>1, BitsJoin
    <2> QED BY <2>1, <2>2
  <1>6. imm_s(encodeStore(i)) = Bits(i.imm, 15)
    BY <1>4, <1>5, Zenon DEF imm_s
  <1> QED BY <1>2, <1>3, <1>6, AccessFields

LEMMA UpperFields ==
  ASSUME NEW i, i.scalar \in BOOLEAN
  PROVE  LET word == encodeLUI(i)
         IN /\ Field(word, 31, 29) = Bits(3, 3)
            /\ Field(word, 4, 0) = Bits(i.rd, 5)
            /\ imm_u(word) = At(Bits(i.imm, 20), 12)
            /\ (5 \in word) = i.scalar
  <1> DEFINE flag == IF i.scalar THEN {5} ELSE {}
             p == At(Bits(3, 3), 29)
             u == At(Bits(i.imm, 20), 9)
             t == Bits(i.rd, 5)
             word == encodeLUI(i)
             F(hi, lo) == Field(p, hi, lo) \cup Field(u, hi, lo) \cup Field(flag, hi, lo)
                            \cup Field(t, hi, lo)
  <1>1. \A hi, lo : Field(word, hi, lo) = F(hi, lo)
    <2>1. word = ((p \cup u) \cup flag) \cup t
      BY DEF encodeLUI
    <2> HIDE DEF word, p, u, t, flag
    <2> QED BY <2>1 DEF Field
  <1>2. \A hi, lo \in Nat : 5 \notin lo .. hi => Field(flag, hi, lo) = {}
    <2> TAKE hi, lo \in Nat
    <2>1. flag \subseteq {5}
      OBVIOUS
    <2> HIDE DEF flag
    <2> QED BY <2>1, FieldElsewhere
  <1> HIDE DEF flag
  <1>3. /\ Field(p, 31, 29) = Bits(3, 3) /\ Field(flag, 31, 29) = {}
        /\ Field(u, 31, 29) = {} /\ Field(t, 31, 29) = {}
    BY <1>2, PieceHere, PieceElsewhere, LowPiece
  <1>4. /\ Field(p, 4, 0) = {} /\ Field(flag, 4, 0) = {}
        /\ Field(u, 4, 0) = {} /\ Field(t, 4, 0) = Bits(i.rd, 5)
    BY <1>2, PieceHere, PieceElsewhere, LowPiece
  <1>5. /\ Field(p, 28, 9) = {} /\ Field(flag, 28, 9) = {}
        /\ Field(u, 28, 9) = Bits(i.imm, 20) /\ Field(t, 28, 9) = {}
    BY <1>2, PieceHere, PieceElsewhere, LowPiece
  <1>6. (5 \in word) = i.scalar
    <2>1. /\ p \subseteq 29 .. 29 + 3 - 1 /\ u \subseteq 9 .. 9 + 20 - 1
          /\ t \subseteq 0 .. 5 - 1
      BY PieceRange
    <2>2. 5 \notin p /\ 5 \notin u /\ 5 \notin t
      <3> HIDE DEF p, u, t
      <3> QED BY <2>1
    <2>3. 5 \in word <=> 5 \in flag
      BY <2>2 DEF encodeLUI, flag
    <2>4. 5 \in flag <=> i.scalar
      BY DEF flag
    <2> QED BY <2>3, <2>4
  <1> HIDE DEF p, u, t, word
  <1>7. /\ Field(word, 31, 29) = Bits(3, 3) /\ Field(word, 4, 0) = Bits(i.rd, 5)
        /\ Field(word, 28, 9) = Bits(i.imm, 20)
    BY <1>1, <1>3, <1>4, <1>5
  <1>8. imm_u(word) = At(Bits(i.imm, 20), 12)
    BY <1>7, Zenon DEF imm_u
  <1> QED BY <1>6, <1>7, <1>8 DEF word

LEMMA SelectFields ==
  ASSUME NEW i
  PROVE  LET word == encodeXType(i)
         IN /\ Field(word, 31, 29) = Bits(5, 3) /\ Field(word, 13, 10) = {}
            /\ Field(word, 18, 14) = Bits(i.rs2, 5)
            /\ Field(word, 9, 5) = Bits(i.rs1, 5)
            /\ Field(word, 4, 0) = Bits(i.rd, 5)
  <1> DEFINE p == At(Bits(5, 3), 29)
             u == At(Bits(i.rs2, 5), 14)
             s == At(Bits(i.rs1, 5), 5)
             t == Bits(i.rd, 5)
             word == encodeXType(i)
             F(hi, lo) == Field(p, hi, lo) \cup Field(u, hi, lo) \cup Field(s, hi, lo)
                            \cup Field(t, hi, lo)
  <1>1. \A hi, lo : Field(word, hi, lo) = F(hi, lo)
    <2>1. word = ((p \cup u) \cup s) \cup t
      BY DEF encodeXType
    <2> HIDE DEF word, p, u, t, s
    <2> QED BY <2>1 DEF Field
  <1>2. /\ Field(p, 31, 29) = Bits(5, 3) /\ Field(u, 31, 29) = {}
        /\ Field(s, 31, 29) = {} /\ Field(t, 31, 29) = {}
    BY PieceHere, PieceElsewhere, LowPiece
  <1>3. /\ Field(p, 13, 10) = {} /\ Field(u, 13, 10) = {}
        /\ Field(s, 13, 10) = {} /\ Field(t, 13, 10) = {}
    BY PieceHere, PieceElsewhere, LowPiece
  <1>4. /\ Field(p, 18, 14) = {} /\ Field(u, 18, 14) = Bits(i.rs2, 5)
        /\ Field(s, 18, 14) = {} /\ Field(t, 18, 14) = {}
    BY PieceHere, PieceElsewhere, LowPiece
  <1>5. /\ Field(p, 9, 5) = {} /\ Field(u, 9, 5) = {}
        /\ Field(s, 9, 5) = Bits(i.rs1, 5) /\ Field(t, 9, 5) = {}
    BY PieceHere, PieceElsewhere, LowPiece
  <1>6. /\ Field(p, 4, 0) = {} /\ Field(u, 4, 0) = {}
        /\ Field(s, 4, 0) = {} /\ Field(t, 4, 0) = Bits(i.rd, 5)
    BY PieceHere, PieceElsewhere, LowPiece
  <1> HIDE DEF p, u, s, t, word
  <1> QED BY <1>1, <1>2, <1>3, <1>4, <1>5, <1>6 DEF word

LEMMA ControlFields ==
  ASSUME NEW i, NEW rest \in SUBSET (0 .. 9 \cup 13 .. 28),
         NEW word, word = Control(i) \cup rest
  PROVE  /\ Field(word, 31, 29) = Bits(7, 3)
         /\ Field(word, 12, 10) = Bits(cTypeFunctMap[i.op], 3)
         /\ \A hi, lo \in Nat : hi <= 9 \/ (lo >= 13 /\ hi <= 28) =>
              Field(word, hi, lo) = Field(rest, hi, lo)
  <1> DEFINE p == At(Bits(7, 3), 29)
             r == At(Bits(cTypeFunctMap[i.op], 3), 10)
             F(hi, lo) == Field(p, hi, lo) \cup Field(r, hi, lo) \cup Field(rest, hi, lo)
  <1>1. \A hi, lo : Field(word, hi, lo) = F(hi, lo)
    <2>1. word = (p \cup r) \cup rest
      BY DEF Control
    <2> HIDE DEF p, r
    <2> QED BY <2>1 DEF Field
  <1>2. /\ Field(rest, 31, 29) = {} /\ Field(rest, 12, 10) = {}
    BY DEF Field
  <1>3. /\ Field(p, 31, 29) = Bits(7, 3) /\ Field(r, 31, 29) = {}
        /\ Field(p, 12, 10) = {} /\ Field(r, 12, 10) = Bits(cTypeFunctMap[i.op], 3)
    BY PieceHere, PieceElsewhere
  <1>4. ASSUME NEW hi \in Nat, NEW lo \in Nat, hi <= 9 \/ (lo >= 13 /\ hi <= 28)
        PROVE  Field(p, hi, lo) = {} /\ Field(r, hi, lo) = {}
    BY <1>4, PieceElsewhere
  <1> HIDE DEF p, r
  <1>5. Field(word, 31, 29) = Bits(7, 3)
        /\ Field(word, 12, 10) = Bits(cTypeFunctMap[i.op], 3)
    BY <1>1, <1>2, <1>3
  <1>6. ASSUME NEW hi \in Nat, NEW lo \in Nat, hi <= 9 \/ (lo >= 13 /\ hi <= 28)
        PROVE  Field(word, hi, lo) = Field(rest, hi, lo)
    <2>1. Field(word, hi, lo) = F(hi, lo)
      BY <1>1
    <2> QED BY <1>4, <1>6, <2>1
  <1> QED BY <1>5, <1>6

(***************************************************************************)
(* The decoder by opcode, and its tables against the assembler's.          *)
(***************************************************************************)
LEMMA DecodedArithmetic ==
  ASSUME NEW word
  PROVE  LET opcode == Number(Field(word, 31, 29))
             read(table, second, imm) ==
               Operation(Named(table, Number(Field(word, 13, 10))), 28 \in word,
                         Number(Field(word, 4, 0)), Number(Field(word, 9, 5)), second, imm)
         IN /\ opcode = 0 =>
                 Decoded(word) = read(rOperation, Number(Field(word, 18, 14)), 0)
            /\ opcode = 1 =>
                 Decoded(word) = read(iOperation, 0, sign_extend_14(Field(word, 27, 14)))
            /\ opcode = 2 =>
                 Decoded(word) = read(fOperation, Number(Field(word, 18, 14)), 0)
  <1> DEFINE opcode == Number(Field(word, 31, 29))
             read(table, second, imm) ==
               Operation(Named(table, Number(Field(word, 13, 10))), 28 \in word,
                         Number(Field(word, 4, 0)), Number(Field(word, 9, 5)), second, imm)
  <1>1. ASSUME opcode = 0
        PROVE  Decoded(word) = read(rOperation, Number(Field(word, 18, 14)), 0)
    <2>1. opcode # 1 /\ opcode # 2 /\ opcode # 3 /\ opcode # 4 /\ opcode # 5 /\ opcode # 7
      BY <1>1
    <2> QED BY <1>1, <2>1, Zenon DEF Decoded
  <1>2. ASSUME opcode = 1
        PROVE  Decoded(word) = read(iOperation, 0, sign_extend_14(Field(word, 27, 14)))
    <2>1. opcode # 0 /\ opcode # 2 /\ opcode # 3 /\ opcode # 4 /\ opcode # 5 /\ opcode # 7
      BY <1>2
    <2> QED BY <1>2, <2>1, Zenon DEF Decoded
  <1>3. ASSUME opcode = 2
        PROVE  Decoded(word) = read(fOperation, Number(Field(word, 18, 14)), 0)
    <2>1. opcode # 0 /\ opcode # 1 /\ opcode # 3 /\ opcode # 4 /\ opcode # 5 /\ opcode # 7
      BY <1>3
    <2> QED BY <1>3, <2>1, Zenon DEF Decoded
  <1> QED BY <1>1, <1>2, <1>3, Zenon

LEMMA DecodedUpper ==
  ASSUME NEW word, Number(Field(word, 31, 29)) = 3
  PROVE  Decoded(word) = Operation("lui", 5 \in word, Number(Field(word, 4, 0)), 0, 0,
                                   Signed(imm_u(word)))
  <1> DEFINE opcode == Number(Field(word, 31, 29))
  <1>1. opcode # 0 /\ opcode # 1 /\ opcode # 2 /\ opcode # 4 /\ opcode # 5 /\ opcode # 7
    OBVIOUS
  <1> QED BY <1>1, Zenon DEF Decoded

LEMMA DecodedAccess ==
  ASSUME NEW word, Number(Field(word, 31, 29)) = 4
  PROVE  LET funct3 == Number(Field(word, 12, 10))
             read(rd, rs2, imm) ==
               Operation(Named(mOperation, funct3), 13 \in word, rd,
                         Number(Field(word, 9, 5)), rs2, imm)
         IN /\ funct3 \in {0, 2} =>
                 Decoded(word) = read(Number(Field(word, 4, 0)), 0,
                                      sign_extend_15(Field(word, 28, 14)))
            /\ funct3 \in {1, 3} =>
                 Decoded(word) = read(0, Number(Field(word, 18, 14)),
                                      sign_extend_15(imm_s(word)))
  <1> DEFINE opcode == Number(Field(word, 31, 29))
             funct3 == Number(Field(word, 12, 10))
  <1>1. opcode # 0 /\ opcode # 1 /\ opcode # 2 /\ opcode # 3 /\ opcode # 5 /\ opcode # 7
    OBVIOUS
  <1>2. funct3 \in {0, 2} => funct3 \notin {1, 3}
    OBVIOUS
  <1>3. ASSUME funct3 \in {0, 2}
        PROVE  Decoded(word) = Operation(Named(mOperation, funct3), 13 \in word,
                                         Number(Field(word, 4, 0)), Number(Field(word, 9, 5)),
                                         0, sign_extend_15(Field(word, 28, 14)))
    BY <1>1, <1>2, <1>3, Zenon DEF Decoded
  <1>4. ASSUME funct3 \in {1, 3}
        PROVE  Decoded(word) = Operation(Named(mOperation, funct3), 13 \in word, 0,
                                         Number(Field(word, 9, 5)),
                                         Number(Field(word, 18, 14)),
                                         sign_extend_15(imm_s(word)))
    BY <1>1, <1>2, <1>4, Zenon DEF Decoded
  <1> QED BY <1>3, <1>4, Zenon

LEMMA DecodedSelect ==
  ASSUME NEW word, Number(Field(word, 31, 29)) = 5, Number(Field(word, 13, 10)) = 0
  PROVE  Decoded(word) = Operation("sx_slt", FALSE, Number(Field(word, 4, 0)),
                                   Number(Field(word, 9, 5)),
                                   Number(Field(word, 18, 14)), 0)
  <1> DEFINE opcode == Number(Field(word, 31, 29))
  <1>1. opcode # 0 /\ opcode # 1 /\ opcode # 2 /\ opcode # 3 /\ opcode # 4 /\ opcode # 7
    OBVIOUS
  <1> QED BY <1>1, Zenon DEF Decoded

LEMMA DecodedControl ==
  ASSUME NEW word, Number(Field(word, 31, 29)) = 7
  PROVE  LET funct3 == Number(Field(word, 12, 10))
         IN /\ funct3 = 0 => Decoded(word).imm = sign_extend_26(imm_j(word))
            /\ funct3 \in {1, 2} => Decoded(word).imm = sign_extend_16(imm_b(word))
            /\ funct3 = 7 =>
                 Decoded(word) = Operation(Named(cOperation, 7), TRUE, 0, 0, 0, 0)
  <1> DEFINE opcode == Number(Field(word, 31, 29))
             funct3 == Number(Field(word, 12, 10))
             read(rs1, rs2, imm) ==
               Operation(Named(cOperation, funct3), TRUE, 0, rs1, rs2, imm)
  <1>1. opcode # 0 /\ opcode # 1 /\ opcode # 2 /\ opcode # 3 /\ opcode # 4 /\ opcode # 5
    OBVIOUS
  <1>2. /\ funct3 \in {1, 2} => funct3 # 0 /\ funct3 # 7
        /\ funct3 \in {0, 7} => funct3 \notin {1, 2}
        /\ ~(funct3 = 0 /\ funct3 = 7)
    OBVIOUS
  <1>3. funct3 = 0 => Decoded(word) = read(0, 0, sign_extend_26(imm_j(word)))
    BY <1>1, <1>2, Zenon DEF Decoded
  <1>4. funct3 \in {1, 2} =>
          Decoded(word) = read(Number(Field(word, 9, 5)), Number(Field(word, 18, 14)),
                               sign_extend_16(imm_b(word)))
    BY <1>1, <1>2, Zenon DEF Decoded
  <1>5. funct3 = 7 => Decoded(word) = read(0, 0, 0)
    BY <1>1, <1>2, Zenon DEF Decoded
  <1>6. \A rs1, rs2, imm : read(rs1, rs2, imm).imm = imm
    BY Zenon DEF Operation
  <1>7. funct3 = 7 => Decoded(word) = Operation(Named(cOperation, 7), TRUE, 0, 0, 0, 0)
    BY <1>5, Zenon
  <1> HIDE DEF read
  <1>8. /\ funct3 = 0 => Decoded(word).imm = sign_extend_26(imm_j(word))
        /\ funct3 \in {1, 2} => Decoded(word).imm = sign_extend_16(imm_b(word))
    <2> HIDE DEF funct3
    <2> QED BY <1>3, <1>4, <1>6
  <1> QED BY <1>7, <1>8, Zenon

LEMMA NamedInTable ==
  ASSUME NEW table, NEW op \in DOMAIN table,
         \A other \in DOMAIN table : table[other] = table[op] => other = op
  PROVE  Named(table, table[op]) = op
  <1>1. {o \in DOMAIN table : table[o] = table[op]} = {op}
    OBVIOUS
  <1>2. Named(table, table[op]) = CHOOSE o \in {op} : TRUE
    BY <1>1 DEF Named
  <1> QED BY <1>2

LEMMA Names ==
  /\ \A op \in DOMAIN rOperation : /\ rTypeFunctMap[op] \in 0 .. 15
                                   /\ Named(rOperation, rTypeFunctMap[op]) = op
  /\ \A op \in DOMAIN iOperation : /\ iTypeFunctMap[op] \in 0 .. 15
                                   /\ Named(iOperation, iTypeFunctMap[op]) = op
  /\ \A op \in DOMAIN fOperation : /\ fTypeFunctMap[op] \in 0 .. 15
                                   /\ Named(fOperation, fTypeFunctMap[op]) = op
  /\ \A op \in DOMAIN mOperation : /\ mTypeFunctMap[op] \in 0 .. 3
                                   /\ Named(mOperation, mTypeFunctMap[op]) = op
  /\ Named(cOperation, 7) = "exit"
  <1>1. ASSUME NEW op \in DOMAIN rOperation
        PROVE  rTypeFunctMap[op] \in 0 .. 15 /\ Named(rOperation, rTypeFunctMap[op]) = op
    <2>1. /\ rTypeFunctMap[op] = rOperation[op] /\ rOperation[op] \in 0 .. 15
          /\ \A other \in DOMAIN rOperation : rOperation[other] = rOperation[op] => other = op
      BY DEF rOperation, rTypeFunctMap
    <2> QED BY <2>1, NamedInTable
  <1>2. ASSUME NEW op \in DOMAIN iOperation
        PROVE  iTypeFunctMap[op] \in 0 .. 15 /\ Named(iOperation, iTypeFunctMap[op]) = op
    <2>1. /\ iTypeFunctMap[op] = iOperation[op] /\ iOperation[op] \in 0 .. 15
          /\ \A other \in DOMAIN iOperation : iOperation[other] = iOperation[op] => other = op
      BY DEF iOperation, iTypeFunctMap
    <2> QED BY <2>1, NamedInTable
  <1>3. ASSUME NEW op \in DOMAIN fOperation
        PROVE  fTypeFunctMap[op] \in 0 .. 15 /\ Named(fOperation, fTypeFunctMap[op]) = op
    <2>1. /\ fTypeFunctMap[op] = fOperation[op] /\ fOperation[op] \in 0 .. 15
          /\ \A other \in DOMAIN fOperation : fOperation[other] = fOperation[op] => other = op
      BY DEF fOperation, fTypeFunctMap
    <2> QED BY <2>1, NamedInTable
  <1>4. ASSUME NEW op \in DOMAIN mOperation
        PROVE  mTypeFunctMap[op] \in 0 .. 3 /\ Named(mOperation, mTypeFunctMap[op]) = op
    <2>1. /\ mTypeFunctMap[op] = mOperation[op] /\ mOperation[op] \in 0 .. 3
          /\ \A other \in DOMAIN mOperation : mOperation[other] = mOperation[op] => other = op
      BY DEF mOperation, mTypeFunctMap
    <2> QED BY <2>1, NamedInTable
  <1>5. Named(cOperation, 7) = "exit"
    <2>1. /\ "exit" \in DOMAIN cOperation /\ cOperation["exit"] = 7
          /\ \A other \in DOMAIN cOperation : cOperation[other] = cOperation["exit"] => other = "exit"
      BY DEF cOperation
    <2>2. Named(cOperation, cOperation["exit"]) = "exit"
      BY <2>1, NamedInTable
    <2> QED BY <2>1, <2>2
  <1> QED BY <1>1, <1>2, <1>3, <1>4, <1>5

LEMMA SmallNumbers ==
  /\ \A v \in 0 .. 7 : Number(Bits(v, 3)) = v
  /\ \A v \in 0 .. 15 : Number(Bits(v, 4)) = v
  /\ \A v \in 0 .. 31 : Number(Bits(v, 5)) = v
  /\ Number({}) = 0
  <1>1. 2^3 = 8 /\ 2^4 = 16 /\ 2^5 = 32 /\ 2^0 = 1
    OBVIOUS
  <1>2. ASSUME NEW v \in 0 .. 7 PROVE Number(Bits(v, 3)) = v
    <2>1. v \in 0 .. 2^3 - 1 /\ 3 \in 0 .. 31
      BY <1>1
    <2> QED BY <2>1, SmallNumber
  <1>3. ASSUME NEW v \in 0 .. 15 PROVE Number(Bits(v, 4)) = v
    <2>1. v \in 0 .. 2^4 - 1 /\ 4 \in 0 .. 31
      BY <1>1
    <2> QED BY <2>1, SmallNumber
  <1>4. ASSUME NEW v \in 0 .. 31 PROVE Number(Bits(v, 5)) = v
    <2>1. v \in 0 .. 2^5 - 1 /\ 5 \in 0 .. 31
      BY <1>1
    <2> QED BY <2>1, SmallNumber
  <1>5. Number({}) = 0
    <2>1. 0 \in 0 .. 2^0 - 1 /\ 0 \in 0 .. 31 /\ Bits(0, 0) = {}
      BY <1>1, NoBits
    <2>2. Number(Bits(0, 0)) = 0
      BY <2>1, SmallNumber
    <2> QED BY <2>1, <2>2
  <1> QED BY <1>2, <1>3, <1>4, <1>5

(***************************************************************************)
(* The decoder reads every instruction that it knows as it was encoded.    *)
(***************************************************************************)
LEMMA ReadsRType ==
  ASSUME NEW i, i.op \in DOMAIN rOperation, i.scalar \in BOOLEAN,
         i.rd \in 0 .. 31, i.rs1 \in 0 .. 31, i.rs2 \in 0 .. 31
  PROVE  Decoded(encodeRType(i)) =
           Operation(i.op, i.scalar, i.rd, i.rs1, IF i.op \in OneOperand THEN 0 ELSE i.rs2, 0)
  <1> DEFINE second == IF i.op \in OneOperand THEN 0 ELSE i.rs2
             funct == rTypeFunctMap[i.op]
             word == encodeRType(i)
             whole == Arithmetic(0, funct, i, second) \cup At(Bits(0, 0), 14)
  <1>1. second \in 0 .. 31 /\ funct \in 0 .. 15 /\ Named(rOperation, funct) = i.op
    BY Names
  <1> HIDE DEF second, funct
  <1>2. word = whole
    BY NoBits DEF encodeRType, second, funct
  <1>3. /\ Field(whole, 31, 29) = Bits(0, 3) /\ Field(whole, 13, 10) = Bits(funct, 4)
        /\ Field(whole, 4, 0) = Bits(i.rd, 5) /\ Field(whole, 9, 5) = Bits(i.rs1, 5)
        /\ Field(whole, 18, 14) = Bits(second, 5)
    BY ArithmeticFields
  <1>9. (28 \in whole) = i.scalar
    <2>1. \A w : w = whole => (28 \in w) = i.scalar
      BY ArithmeticScalar
    <2> QED BY <2>1, Zenon
  <1> HIDE DEF word, whole
  <1>4. /\ Number(Field(word, 31, 29)) = 0 /\ Number(Field(word, 13, 10)) = funct
        /\ Number(Field(word, 4, 0)) = i.rd /\ Number(Field(word, 9, 5)) = i.rs1
        /\ Number(Field(word, 18, 14)) = second
    BY <1>1, <1>2, <1>3, SmallNumbers
  <1>5. (28 \in word) = i.scalar
    BY <1>2, <1>9, Zenon
  <1>6. Decoded(word) = Operation(Named(rOperation, Number(Field(word, 13, 10))), 28 \in word,
                                  Number(Field(word, 4, 0)), Number(Field(word, 9, 5)),
                                  Number(Field(word, 18, 14)), 0)
    BY <1>4, DecodedArithmetic, Zenon
  <1>7. Decoded(word) = Operation(i.op, i.scalar, i.rd, i.rs1, second, 0)
    BY <1>1, <1>4, <1>5, <1>6, Zenon
  <1> QED BY <1>7, Zenon DEF word, second

LEMMA ReadsFType ==
  ASSUME NEW i, i.op \in DOMAIN fOperation, i.scalar \in BOOLEAN,
         i.rd \in 0 .. 31, i.rs1 \in 0 .. 31, i.rs2 \in 0 .. 31
  PROVE  Decoded(encodeFType(i)) =
           Operation(i.op, i.scalar, i.rd, i.rs1, IF i.op \in OneOperand THEN 0 ELSE i.rs2, 0)
  <1> DEFINE second == IF i.op \in OneOperand THEN 0 ELSE i.rs2
             funct == fTypeFunctMap[i.op]
             word == encodeFType(i)
             whole == Arithmetic(2, funct, i, second) \cup At(Bits(0, 0), 14)
  <1>1. second \in 0 .. 31 /\ funct \in 0 .. 15 /\ Named(fOperation, funct) = i.op
    BY Names
  <1> HIDE DEF second, funct
  <1>2. word = whole
    BY NoBits DEF encodeFType, second, funct
  <1>3. /\ Field(whole, 31, 29) = Bits(2, 3) /\ Field(whole, 13, 10) = Bits(funct, 4)
        /\ Field(whole, 4, 0) = Bits(i.rd, 5) /\ Field(whole, 9, 5) = Bits(i.rs1, 5)
        /\ Field(whole, 18, 14) = Bits(second, 5)
    BY ArithmeticFields
  <1>9. (28 \in whole) = i.scalar
    <2>1. \A w : w = whole => (28 \in w) = i.scalar
      BY ArithmeticScalar
    <2> QED BY <2>1, Zenon
  <1> HIDE DEF word, whole
  <1>4. /\ Number(Field(word, 31, 29)) = 2 /\ Number(Field(word, 13, 10)) = funct
        /\ Number(Field(word, 4, 0)) = i.rd /\ Number(Field(word, 9, 5)) = i.rs1
        /\ Number(Field(word, 18, 14)) = second
    BY <1>1, <1>2, <1>3, SmallNumbers
  <1>5. (28 \in word) = i.scalar
    BY <1>2, <1>9, Zenon
  <1>6. Decoded(word) = Operation(Named(fOperation, Number(Field(word, 13, 10))), 28 \in word,
                                  Number(Field(word, 4, 0)), Number(Field(word, 9, 5)),
                                  Number(Field(word, 18, 14)), 0)
    BY <1>4, DecodedArithmetic, Zenon
  <1>7. Decoded(word) = Operation(i.op, i.scalar, i.rd, i.rs1, second, 0)
    BY <1>1, <1>4, <1>5, <1>6, Zenon
  <1> QED BY <1>7, Zenon DEF word, second

LEMMA ReadsIType ==
  ASSUME NEW i, i.op \in DOMAIN iOperation, i.scalar \in BOOLEAN,
         i.rd \in 0 .. 31, i.rs1 \in 0 .. 31,
         IF i.op = "slli" THEN i.imm \in 0 .. 31 ELSE i.imm \in -2^13 .. 2^13 - 1
  PROVE  Decoded(encodeIType(i)) = Operation(i.op, i.scalar, i.rd, i.rs1, 0, i.imm)
  <1> DEFINE n == IF i.op = "slli" THEN 5 ELSE 14
             funct == iTypeFunctMap[i.op]
             word == Arithmetic(1, funct, i, 0) \cup At(Bits(i.imm, n), 14)
  <1>1. funct \in 0 .. 15 /\ Named(iOperation, funct) = i.op /\ n \in Nat /\ n <= 14
    BY Names
  <1>2. encodeIType(i) = word
    BY DEF encodeIType
  <1>3. sign_extend_14(Bits(i.imm, n)) = i.imm
    <2>1. CASE i.op = "slli"
      <3>1. n = 5 /\ i.imm \in 0 .. 31
        BY <2>1
      <3> HIDE DEF n
      <3>2. 13 \notin Bits(i.imm, 5) /\ 31 \notin Bits(i.imm, 5)
        BY DEF Bits
      <3>3. Extended(Bits(i.imm, 5), 14, 32) = Bits(i.imm, 5)
        BY <3>2 DEF Extended
      <3>4. Signed(Bits(i.imm, 5)) = i.imm
        BY <3>1, <3>2, SmallNumbers DEF Signed
      <3> QED BY <3>1, <3>3, <3>4 DEF sign_extend_14
    <2>2. CASE i.op # "slli"
      <3>1. n = 14 /\ i.imm \in -2^(14 - 1) .. 2^(14 - 1) - 1 /\ 14 \in 1 .. 32
        BY <2>2
      <3> HIDE DEF n
      <3>2. Signed(Extended(Bits(i.imm, 14), 14, 32)) = i.imm
        BY <3>1, SignedReads
      <3> QED BY <3>1, <3>2 DEF sign_extend_14
    <2> QED BY <2>1, <2>2
  <1> HIDE DEF n, funct
  <1>4. /\ Field(word, 31, 29) = Bits(1, 3) /\ Field(word, 13, 10) = Bits(funct, 4)
        /\ Field(word, 4, 0) = Bits(i.rd, 5) /\ Field(word, 9, 5) = Bits(i.rs1, 5)
        /\ Field(word, 27, 14) = Bits(i.imm, n)
    BY <1>1, ArithmeticFields
  <1>8. (28 \in word) = i.scalar
    <2>1. \A w : w = word => (28 \in w) = i.scalar
      BY <1>1, ArithmeticScalar
    <2> QED BY <2>1, Zenon
  <1> HIDE DEF word
  <1>5. /\ Number(Field(word, 31, 29)) = 1 /\ Number(Field(word, 13, 10)) = funct
        /\ Number(Field(word, 4, 0)) = i.rd /\ Number(Field(word, 9, 5)) = i.rs1
    BY <1>1, <1>4, SmallNumbers
  <1>6. Decoded(word) = Operation(Named(iOperation, Number(Field(word, 13, 10))), 28 \in word,
                                  Number(Field(word, 4, 0)), Number(Field(word, 9, 5)), 0,
                                  sign_extend_14(Field(word, 27, 14)))
    BY <1>5, DecodedArithmetic, Zenon
  <1>7. Decoded(word) = Operation(i.op, i.scalar, i.rd, i.rs1, 0, i.imm)
    BY <1>1, <1>3, <1>4, <1>5, <1>6, <1>8, Zenon
  <1> QED BY <1>2, <1>7, Zenon

LEMMA ReadsLoad ==
  ASSUME NEW i, i.op \in {"lw", "flw"}, i.scalar \in BOOLEAN,
         i.rd \in 0 .. 31, i.rs1 \in 0 .. 31, i.imm \in -2^14 .. 2^14 - 1
  PROVE  Decoded(encodeLoad(i)) = Operation(i.op, i.scalar, i.rd, i.rs1, 0, i.imm)
  <1> DEFINE funct == mTypeFunctMap[i.op]
             word == encodeLoad(i)
  <1>1. funct \in {0, 2} /\ funct \in 0 .. 7 /\ Named(mOperation, funct) = i.op
    <2>1. i.op \in DOMAIN mOperation /\ funct \in {0, 2}
      BY DEF mOperation, mTypeFunctMap
    <2> QED BY <2>1, Names
  <1> HIDE DEF funct
  <1>2. sign_extend_15(Bits(i.imm, 15)) = i.imm
    <2>1. i.imm \in -2^(15 - 1) .. 2^(15 - 1) - 1 /\ 15 \in 1 .. 32
      OBVIOUS
    <2> QED BY <2>1, SignedReads DEF sign_extend_15
  <1>3. /\ Field(word, 31, 29) = Bits(4, 3) /\ Field(word, 12, 10) = Bits(funct, 3)
        /\ Field(word, 9, 5) = Bits(i.rs1, 5) /\ Field(word, 4, 0) = Bits(i.rd, 5)
        /\ Field(word, 28, 14) = Bits(i.imm, 15)
    BY LoadFields DEF funct
  <1>4. (13 \in word) = i.scalar
    BY LoadFields
  <1> HIDE DEF word
  <1>5. /\ Number(Field(word, 31, 29)) = 4 /\ Number(Field(word, 12, 10)) = funct
        /\ Number(Field(word, 4, 0)) = i.rd /\ Number(Field(word, 9, 5)) = i.rs1
    BY <1>1, <1>3, SmallNumbers
  <1>6. Decoded(word) = Operation(Named(mOperation, Number(Field(word, 12, 10))), 13 \in word,
                                  Number(Field(word, 4, 0)), Number(Field(word, 9, 5)), 0,
                                  sign_extend_15(Field(word, 28, 14)))
    <2>1. Number(Field(word, 12, 10)) \in {0, 2}
      BY <1>1, <1>5, Zenon
    <2> QED BY <1>5, <2>1, DecodedAccess, Zenon
  <1>7. Decoded(word) = Operation(i.op, i.scalar, i.rd, i.rs1, 0, i.imm)
    BY <1>1, <1>2, <1>3, <1>4, <1>5, <1>6, Zenon
  <1> QED BY <1>7, Zenon DEF word

LEMMA ReadsStore ==
  ASSUME NEW i, i.op \in {"sw", "fsw"}, i.scalar \in BOOLEAN,
         i.rs1 \in 0 .. 31, i.rs2 \in 0 .. 31, i.imm \in -2^14 .. 2^14 - 1
  PROVE  Decoded(encodeStore(i)) = Operation(i.op, i.scalar, 0, i.rs1, i.rs2, i.imm)
  <1> DEFINE funct == mTypeFunctMap[i.op]
             word == encodeStore(i)
  <1>1. funct \in {1, 3} /\ funct \in 0 .. 7 /\ Named(mOperation, funct) = i.op
        /\ i.imm \in Int
    <2>1. i.op \in DOMAIN mOperation /\ funct \in {1, 3}
      BY DEF mOperation, mTypeFunctMap
    <2> QED BY <2>1, Names
  <1> HIDE DEF funct
  <1>2. sign_extend_15(Bits(i.imm, 15)) = i.imm
    <2>1. i.imm \in -2^(15 - 1) .. 2^(15 - 1) - 1 /\ 15 \in 1 .. 32
      OBVIOUS
    <2> QED BY <2>1, SignedReads DEF sign_extend_15
  <1>3. /\ Field(word, 31, 29) = Bits(4, 3) /\ Field(word, 12, 10) = Bits(funct, 3)
        /\ Field(word, 9, 5) = Bits(i.rs1, 5) /\ Field(word, 18, 14) = Bits(i.rs2, 5)
        /\ imm_s(word) = Bits(i.imm, 15)
    BY <1>1, StoreFields DEF funct
  <1>4. (13 \in word) = i.scalar
    BY <1>1, StoreFields
  <1> HIDE DEF word
  <1>5. /\ Number(Field(word, 31, 29)) = 4 /\ Number(Field(word, 12, 10)) = funct
        /\ Number(Field(word, 18, 14)) = i.rs2 /\ Number(Field(word, 9, 5)) = i.rs1
    BY <1>1, <1>3, SmallNumbers
  <1>6. Decoded(word) = Operation(Named(mOperation, Number(Field(word, 12, 10))), 13 \in word,
                                  0, Number(Field(word, 9, 5)), Number(Field(word, 18, 14)),
                                  sign_extend_15(imm_s(word)))
    <2>1. Number(Field(word, 12, 10)) \in {1, 3}
      BY <1>1, <1>5, Zenon
    <2> QED BY <1>5, <2>1, DecodedAccess, Zenon
  <1>7. Decoded(word) = Operation(i.op, i.scalar, 0, i.rs1, i.rs2, i.imm)
    BY <1>1, <1>2, <1>3, <1>4, <1>5, <1>6, Zenon
  <1> QED BY <1>7, Zenon DEF word

LEMMA ReadsUpper ==
  ASSUME NEW i, i.scalar \in BOOLEAN, i.rd \in 0 .. 31
  PROVE  Decoded(encodeLUI(i)) =
           Operation("lui", i.scalar, i.rd, 0, 0, Signed(At(Bits(i.imm, 20), 12)))
  <1> DEFINE word == encodeLUI(i)
  <1>1. /\ Field(word, 31, 29) = Bits(3, 3) /\ Field(word, 4, 0) = Bits(i.rd, 5)
        /\ imm_u(word) = At(Bits(i.imm, 20), 12)
    BY UpperFields
  <1>2. (5 \in word) = i.scalar
    BY UpperFields
  <1> HIDE DEF word
  <1>3. Number(Field(word, 31, 29)) = 3 /\ Number(Field(word, 4, 0)) = i.rd
    BY <1>1, SmallNumbers
  <1>4. Decoded(word) = Operation("lui", 5 \in word, Number(Field(word, 4, 0)), 0, 0,
                                  Signed(imm_u(word)))
    BY <1>3, DecodedUpper, Zenon
  <1>5. Decoded(word) = Operation("lui", i.scalar, i.rd, 0, 0, Signed(At(Bits(i.imm, 20), 12)))
    BY <1>1, <1>2, <1>3, <1>4, Zenon
  <1> QED BY <1>5, Zenon DEF word

LEMMA ReadsSelect ==
  ASSUME NEW i, i.rd \in 0 .. 31, i.rs1 \in 0 .. 31, i.rs2 \in 0 .. 31
  PROVE  Decoded(encodeXType(i)) = Operation("sx_slt", FALSE, i.rd, i.rs1, i.rs2, 0)
  <1> DEFINE word == encodeXType(i)
  <1>1. /\ Field(word, 31, 29) = Bits(5, 3) /\ Field(word, 13, 10) = {}
        /\ Field(word, 18, 14) = Bits(i.rs2, 5) /\ Field(word, 9, 5) = Bits(i.rs1, 5)
        /\ Field(word, 4, 0) = Bits(i.rd, 5)
    BY SelectFields
  <1> HIDE DEF word
  <1>2. /\ Number(Field(word, 31, 29)) = 5 /\ Number(Field(word, 13, 10)) = 0
        /\ Number(Field(word, 18, 14)) = i.rs2 /\ Number(Field(word, 9, 5)) = i.rs1
        /\ Number(Field(word, 4, 0)) = i.rd
    BY <1>1, SmallNumbers
  <1>3. Decoded(word) = Operation("sx_slt", FALSE, i.rd, i.rs1, i.rs2, 0)
    BY <1>2, DecodedSelect, Zenon
  <1> QED BY <1>3, Zenon DEF word

LEMMA ReadsExit ==
  ASSUME NEW i, i.op = "exit"
  PROVE  Decoded(encodeControl(i)) = Operation("exit", TRUE, 0, 0, 0, 0)
  <1> DEFINE rest == {}
             word == Control(i) \cup rest
  <1>1. encodeControl(i) = word
    <2>1. i.op \notin Branches
      BY DEF Branches
    <2>2. encodeControl(i) = Control(i)
      BY <2>1, Zenon DEF encodeControl
    <2> QED BY <2>2
  <1>2. cTypeFunctMap[i.op] = 7
    BY DEF cTypeFunctMap
  <1>3. Field(word, 31, 29) = Bits(7, 3) /\ Field(word, 12, 10) = Bits(7, 3)
    <2>1. rest \in SUBSET (0 .. 9 \cup 13 .. 28)
      OBVIOUS
    <2> HIDE DEF rest
    <2> QED BY <1>2, <2>1, ControlFields
  <1> HIDE DEF word
  <1>4. Number(Field(word, 31, 29)) = 7 /\ Number(Field(word, 12, 10)) = 7
    BY <1>3, SmallNumbers
  <1>5. Decoded(word) = Operation(Named(cOperation, 7), TRUE, 0, 0, 0, 0)
    BY <1>4, DecodedControl, Zenon
  <1>6. Named(cOperation, 7) = "exit"
    BY Names
  <1> QED BY <1>1, <1>5, <1>6, Zenon

LEMMA ReadsJump ==
  ASSUME NEW i, i.op = "j", i.imm \in -2^25 .. 2^25 - 1
  PROVE  Decoded(encodeControl(i)).imm = i.imm
  <1> DEFINE t == Bits(i.imm, 10)
             u == At(Bits(i.imm \div 2^10, 16), 13)
             rest == u \cup t
             word == Control(i) \cup rest
  <1>1. encodeControl(i) = word
    <2>1. i.op \notin Branches
      BY DEF Branches
    <2>2. encodeControl(i) = encodeJump(i)
      BY <2>1, Zenon DEF encodeControl
    <2> HIDE DEF t, u
    <2>3. encodeJump(i) = (Control(i) \cup u) \cup t
      BY DEF encodeJump, t, u
    <2> QED BY <2>2, <2>3
  <1>2. rest \in SUBSET (0 .. 9 \cup 13 .. 28)
    <2>1. t \subseteq 0 .. 10 - 1 /\ u \subseteq 13 .. 13 + 16 - 1
      BY PieceRange
    <2> HIDE DEF t, u
    <2> QED BY <2>1
  <1>3. /\ Field(rest, 9, 0) = Bits(i.imm, 10)
        /\ Field(rest, 28, 13) = Bits(i.imm \div 2^10, 16)
    <2>1. /\ Field(t, 9, 0) = Bits(i.imm, 10) /\ Field(u, 9, 0) = {}
          /\ Field(t, 28, 13) = {} /\ Field(u, 28, 13) = Bits(i.imm \div 2^10, 16)
      BY PieceHere, PieceElsewhere, LowPiece
    <2> HIDE DEF t, u
    <2>2. \A hi, lo : Field(rest, hi, lo) = Field(u, hi, lo) \cup Field(t, hi, lo)
      BY DEF Field
    <2> HIDE DEF rest
    <2> QED BY <2>1, <2>2
  <1> HIDE DEF rest
  <1>4. /\ Field(word, 31, 29) = Bits(7, 3) /\ Field(word, 12, 10) = Bits(cTypeFunctMap[i.op], 3)
        /\ Field(word, 9, 0) = Field(rest, 9, 0) /\ Field(word, 28, 13) = Field(rest, 28, 13)
    <2>1. \A hi, lo \in Nat : hi <= 9 \/ (lo >= 13 /\ hi <= 28) =>
            Field(word, hi, lo) = Field(rest, hi, lo)
      BY <1>2, ControlFields
    <2>2. /\ Field(word, 31, 29) = Bits(7, 3)
          /\ Field(word, 12, 10) = Bits(cTypeFunctMap[i.op], 3)
      BY <1>2, ControlFields
    <2> HIDE DEF word
    <2> QED BY <2>1, <2>2
  <1>5. cTypeFunctMap[i.op] = 0
    BY DEF cTypeFunctMap
  <1> HIDE DEF word
  <1>6. Number(Field(word, 31, 29)) = 7 /\ Number(Field(word, 12, 10)) = 0
    BY <1>4, <1>5, SmallNumbers
  <1>7. Decoded(word).imm = sign_extend_26(imm_j(word))
    BY <1>6, DecodedControl, Zenon
  <1>8. imm_j(word) = Bits(i.imm, 26)
    <2>1. 10 + 16 = 26 /\ 10 \in Nat /\ 16 \in Nat /\ i.imm \in Int
      OBVIOUS
    <2>2. Bits(i.imm, 10 + 16) = Bits(i.imm, 10) \cup At(Bits(i.imm \div 2^10, 16), 10)
      BY <2>1, BitsJoin
    <2>3. imm_j(word) = At(Bits(i.imm \div 2^10, 16), 10) \cup Bits(i.imm, 10)
      BY <1>3, <1>4, Zenon DEF imm_j
    <2> QED BY <2>1, <2>2, <2>3
  <1>9. sign_extend_26(Bits(i.imm, 26)) = i.imm
    <2>1. i.imm \in -2^(26 - 1) .. 2^(26 - 1) - 1 /\ 26 \in 1 .. 32
      OBVIOUS
    <2> QED BY <2>1, SignedReads DEF sign_extend_26
  <1> QED BY <1>1, <1>7, <1>8, <1>9

LEMMA ReadsBranch ==
  ASSUME NEW i, i.op \in Branches, i.imm \in 0 .. 31
  PROVE  Decoded(encodeControl(i)).imm = i.imm
  <1> DEFINE t == Bits(i.imm, 5)
             s == At(Bits(i.rs1, 5), 5)
             rest == s \cup t
             word == Control(i) \cup rest
  <1>1. encodeControl(i) = word
    <2>1. i.imm \div 2^8 = 0 /\ i.imm \div 2^7 = 0
      <3>1. 2^8 = 256 /\ 2^7 = 128
        OBVIOUS
      <3> QED BY <3>1
    <2>2. Bits(0, 10) = {} /\ Bits(0, 1) = {} /\ At({}, 19) = {} /\ At({}, 13) = {}
      BY NoBits DEF At
    <2>3. encodeBranch(i) = Control(i) \cup {} \cup {} \cup s \cup t
      BY <2>1, <2>2 DEF encodeBranch
    <2>4. encodeControl(i) = encodeBranch(i)
      BY DEF encodeControl, Branches
    <2> HIDE DEF s, t
    <2> QED BY <2>3, <2>4
  <1>2. rest \in SUBSET (0 .. 9 \cup 13 .. 28)
    <2>1. t \subseteq 0 .. 5 - 1 /\ s \subseteq 5 .. 5 + 5 - 1
      BY PieceRange
    <2> HIDE DEF t, s
    <2> QED BY <2>1
  <1>3. /\ Field(rest, 4, 0) = Bits(i.imm, 5) /\ Field(rest, 28, 19) = {}
        /\ Field(rest, 13, 13) = {}
    <2>1. /\ Field(t, 4, 0) = Bits(i.imm, 5) /\ Field(s, 4, 0) = {}
          /\ Field(t, 28, 19) = {} /\ Field(s, 28, 19) = {}
          /\ Field(t, 13, 13) = {} /\ Field(s, 13, 13) = {}
      BY PieceElsewhere, LowPiece
    <2> HIDE DEF t, s
    <2>2. \A hi, lo : Field(rest, hi, lo) = Field(s, hi, lo) \cup Field(t, hi, lo)
      BY DEF Field
    <2> HIDE DEF rest
    <2> QED BY <2>1, <2>2
  <1> HIDE DEF rest
  <1>4. /\ Field(word, 31, 29) = Bits(7, 3) /\ Field(word, 12, 10) = Bits(cTypeFunctMap[i.op], 3)
        /\ Field(word, 4, 0) = Field(rest, 4, 0) /\ Field(word, 28, 19) = Field(rest, 28, 19)
        /\ Field(word, 13, 13) = Field(rest, 13, 13)
    <2>1. \A hi, lo \in Nat : hi <= 9 \/ (lo >= 13 /\ hi <= 28) =>
            Field(word, hi, lo) = Field(rest, hi, lo)
      BY <1>2, ControlFields
    <2>2. /\ Field(word, 31, 29) = Bits(7, 3)
          /\ Field(word, 12, 10) = Bits(cTypeFunctMap[i.op], 3)
      BY <1>2, ControlFields
    <2> HIDE DEF word
    <2> QED BY <2>1, <2>2
  <1>5. cTypeFunctMap[i.op] \in {1, 2} /\ cTypeFunctMap[i.op] \in 0 .. 7
    BY DEF cTypeFunctMap, Branches
  <1> HIDE DEF word
  <1>6. Number(Field(word, 31, 29)) = 7 /\ Number(Field(word, 12, 10)) \in {1, 2}
    BY <1>4, <1>5, SmallNumbers
  <1>7. Decoded(word).imm = sign_extend_16(imm_b(word))
    BY <1>6, DecodedControl, Zenon
  <1>8. imm_b(word) = Bits(i.imm, 5)
    <2>1. At({}, 6) = {} /\ At({}, 5) = {}
      BY DEF At
    <2> QED BY <1>3, <1>4, <2>1 DEF imm_b
  <1>9. sign_extend_16(Bits(i.imm, 5)) = i.imm
    <2>1. 15 \notin Bits(i.imm, 5) /\ 31 \notin Bits(i.imm, 5)
      BY DEF Bits
    <2>2. Extended(Bits(i.imm, 5), 16, 30) = Bits(i.imm, 5)
      BY <2>1 DEF Extended
    <2>3. Signed(Bits(i.imm, 5)) = i.imm
      BY <2>1, SmallNumbers DEF Signed
    <2> QED BY <2>2, <2>3 DEF sign_extend_16
  <1> QED BY <1>1, <1>7, <1>8, <1>9

(***************************************************************************)
(* Lines that the decoder can read: an operation it knows, an operand that *)
(* is not a distance and that its field holds, exit as a scalar            *)
(* instruction, sync with a label that is defined.                         *)
(***************************************************************************)
FieldHolds(i) ==
  /\ i.op \in DOMAIN iTypeFunctMap =>
       IF i.op = "slli" THEN i.imm \in 0 .. 31 ELSE i.imm \in -2^13 .. 2^13 - 1
  /\ i.op \in DOMAIN mTypeFunctMap => i.imm \in -2^14 .. 2^14 - 1

Readable(line) ==
  /\ line.op \notin {"div", "divi", "fdiv"}
  /\ line.part # "distance" /\ FieldHolds(Resolved(line, 0))
  /\ line.op = "exit" => line.scalar
  /\ line.op = "sync" => line.symbol \in DOMAIN labelMap

ReadLines == {l \in TextLines : source[l].op \notin DOMAIN cTypeFunctMap \ {"sync", "exit"}}

OperandsFit == \A l \in ReadLines : Readable(source[l])

LEMMA ResolvedAnywhere ==
  ASSUME NEW line \in InstructionLines, NEW pc, line.part # "distance"
  PROVE  Resolved(line, pc) = Resolved(line, 0)
  <1>1. line.part \in {"number", "%hi", "%lo", "endsync"}
    BY DEF InstructionLines, Line
  <1>2. resolveSymbol(line, pc) = resolveSymbol(line, 0)
    BY <1>1, Zenon DEF resolveSymbol
  <1> QED BY <1>2, Zenon DEF Resolved

LEMMA ResolvedFields ==
  ASSUME NEW line \in InstructionLines, NEW pc
  PROVE  LET i == Resolved(line, pc)
         IN /\ i.rd \in 0 .. 31 /\ i.rs1 \in 0 .. 31 /\ i.rs2 \in 0 .. 31
            /\ i.scalar \in BOOLEAN
            /\ line.op \notin {"sync", "li"} => i.op = line.op /\ i.scalar = line.scalar
            /\ line.op \in {"sync", "li"} => i.op = "addi"
  <1>1. /\ line.rd \in 0 .. 31 /\ line.rs1 \in 0 .. 31 /\ line.rs2 \in 0 .. 31
        /\ line.scalar \in BOOLEAN
    BY DEF InstructionLines, Line, Register
  <1> DEFINE i == Resolved(line, pc)
             d == resolveSymbol(line, pc)
  <1> HIDE DEF d
  <1>2. CASE line.op = "sync"
    <2>1. i = [line EXCEPT !.op = "addi", !.scalar = TRUE, !.rd = s25, !.rs1 = 0, !.imm = d]
      BY <1>2, Zenon DEF Resolved, d
    <2> QED BY <1>1, <1>2, <2>1 DEF InstructionLines, Line, s25
  <1>3. CASE line.op = "li"
    <2>1. i = [line EXCEPT !.op = "addi", !.rs1 = 0, !.imm = d]
      BY <1>3, Zenon DEF Resolved, d
    <2> QED BY <1>1, <1>3, <2>1 DEF InstructionLines, Line
  <1>4. CASE line.op \notin {"sync", "li"}
    <2>1. i = [line EXCEPT !.imm = d]
      BY <1>4, Zenon DEF Resolved, d
    <2> QED BY <1>1, <1>4, <2>1 DEF InstructionLines, Line
  <1> QED BY <1>2, <1>3, <1>4

LEMMA EncodedAsWritten ==
  ASSUME NEW line \in InstructionLines, NEW pc, Assembles(line), Readable(line),
         line.op \notin DOMAIN cTypeFunctMap \ {"sync", "exit"}
  PROVE  Decoded(Encoded(line, pc)) = Written(line, 0)
  <1> DEFINE i == Resolved(line, pc)
             second == IF i.op \in OneOperand THEN 0 ELSE i.rs2
  <1>1. /\ i.rd \in 0 .. 31 /\ i.rs1 \in 0 .. 31 /\ i.rs2 \in 0 .. 31
        /\ i.scalar \in BOOLEAN
    BY ResolvedFields
  <1>2. /\ line.op \notin {"sync", "li"} => i.op = line.op /\ i.scalar = line.scalar
        /\ line.op \in {"sync", "li"} => i.op = "addi"
    BY ResolvedFields
  <1>3. Resolved(line, 0) = i
    BY ResolvedAnywhere DEF Readable
  <1>4. FieldHolds(i)
    BY <1>3 DEF Readable
  <1>5. ~(line.op \in DOMAIN cTypeFunctMap /\ line.op \notin {"ret", "exit"}
           /\ line.symbol \notin DOMAIN labelMap)
    BY DEF Readable
  <1> HIDE DEF i
  <1>6. \/ i.op \in DOMAIN rOperation \/ i.op \in DOMAIN iOperation
        \/ i.op \in DOMAIN fOperation \/ i.op \in {"lw", "flw"}
        \/ i.op \in {"sw", "fsw"} \/ i.op = "lui" \/ i.op = "sx_slt"
        \/ i.op = "exit" /\ i.scalar = TRUE
    <2>1. line.op \in Encoders /\ line.op \notin {"div", "divi", "fdiv"}
      BY DEF Assembles, Readable
    <2> QED BY <1>1, <1>2, <2>1 DEF Readable, Encoders, rTypeFunctMap, iTypeFunctMap,
              fTypeFunctMap, mTypeFunctMap, cTypeFunctMap, rOperation, iOperation, fOperation
  <1>7. CASE i.op \in DOMAIN rOperation
    <2>1. /\ i.op \in DOMAIN rTypeFunctMap /\ i.op \notin DOMAIN iTypeFunctMap /\ i.op \notin DOMAIN fTypeFunctMap
          /\ i.op \notin {"lw", "flw"} /\ i.op \notin {"sw", "fsw"} /\ i.op # "lui"
          /\ i.op # "sx_slt"
      BY <1>7 DEF rTypeFunctMap, iTypeFunctMap, fTypeFunctMap,
                 rOperation, iOperation, fOperation
    <2>2. Encoded(line, pc) = encodeRType(i)
      BY <1>5, <2>1, Zenon DEF Encoded, i
    <2>3. Written(line, 0) = Operation(i.op, i.scalar, i.rd, i.rs1, second, 0)
      BY <1>3, <1>7, <2>1, Zenon DEF Written
    <2>5. Decoded(encodeRType(i)) = Operation(i.op, i.scalar, i.rd, i.rs1, second, 0)
      BY <1>1, <1>7, ReadsRType
    <2> QED BY <2>2, <2>3, <2>5, Zenon
  <1>8. CASE i.op \in DOMAIN iOperation
    <2>1. /\ i.op \notin DOMAIN rTypeFunctMap /\ i.op \in DOMAIN iTypeFunctMap /\ i.op \notin DOMAIN fTypeFunctMap
          /\ i.op \notin {"lw", "flw"} /\ i.op \notin {"sw", "fsw"} /\ i.op # "lui"
          /\ i.op # "sx_slt"
      BY <1>8 DEF rTypeFunctMap, iTypeFunctMap, fTypeFunctMap,
                 rOperation, iOperation, fOperation
    <2>2. Encoded(line, pc) = encodeIType(i)
      BY <1>5, <2>1, Zenon DEF Encoded, i
    <2>3. Written(line, 0) = Operation(i.op, i.scalar, i.rd, i.rs1, 0, i.imm)
      BY <1>3, <1>8, <2>1, Zenon DEF Written
    <2>4. IF i.op = "slli" THEN i.imm \in 0 .. 31 ELSE i.imm \in -2^13 .. 2^13 - 1
      BY <1>4, <2>1, Zenon DEF FieldHolds
    <2>5. Decoded(encodeIType(i)) = Operation(i.op, i.scalar, i.rd, i.rs1, 0, i.imm)
      BY <1>1, <1>8, <2>4, ReadsIType
    <2> QED BY <2>2, <2>3, <2>5, Zenon
  <1>9. CASE i.op \in DOMAIN fOperation
    <2>1. /\ i.op \notin DOMAIN rTypeFunctMap /\ i.op \notin DOMAIN iTypeFunctMap /\ i.op \in DOMAIN fTypeFunctMap
          /\ i.op \notin {"lw", "flw"} /\ i.op \notin {"sw", "fsw"} /\ i.op # "lui"
          /\ i.op # "sx_slt"
      BY <1>9 DEF rTypeFunctMap, iTypeFunctMap, fTypeFunctMap,
                 rOperation, iOperation, fOperation
    <2>2. Encoded(line, pc) = encodeFType(i)
      BY <1>5, <2>1, Zenon DEF Encoded, i
    <2>3. Written(line, 0) = Operation(i.op, i.scalar, i.rd, i.rs1, second, 0)
      BY <1>3, <1>9, <2>1, Zenon DEF Written
    <2>5. Decoded(encodeFType(i)) = Operation(i.op, i.scalar, i.rd, i.rs1, second, 0)
      BY <1>1, <1>9, ReadsFType
    <2> QED BY <2>2, <2>3, <2>5, Zenon
  <1>10. CASE i.op \in {"lw", "flw"}
    <2>1. /\ i.op \notin DOMAIN rTypeFunctMap /\ i.op \notin DOMAIN iTypeFunctMap /\ i.op \notin DOMAIN fTypeFunctMap
          /\ i.op \in {"lw", "flw"} /\ i.op \notin {"sw", "fsw"} /\ i.op # "lui"
          /\ i.op # "sx_slt"
      BY <1>10 DEF rTypeFunctMap, iTypeFunctMap, fTypeFunctMap,
                 rOperation, iOperation, fOperation
    <2>2. Encoded(line, pc) = encodeLoad(i)
      BY <1>5, <2>1, Zenon DEF Encoded, i
    <2>3. Written(line, 0) = Operation(i.op, i.scalar, i.rd, i.rs1, 0, i.imm)
      BY <1>3, <1>10, <2>1, Zenon DEF Written
    <2>4. i.imm \in -2^14 .. 2^14 - 1
      BY <1>4, <1>10 DEF FieldHolds, mTypeFunctMap
    <2>5. Decoded(encodeLoad(i)) = Operation(i.op, i.scalar, i.rd, i.rs1, 0, i.imm)
      BY <1>1, <1>10, <2>4, ReadsLoad
    <2> QED BY <2>2, <2>3, <2>5, Zenon
  <1>11. CASE i.op \in {"sw", "fsw"}
    <2>1. /\ i.op \notin DOMAIN rTypeFunctMap /\ i.op \notin DOMAIN iTypeFunctMap /\ i.op \notin DOMAIN fTypeFunctMap
          /\ i.op \notin {"lw", "flw"} /\ i.op \in {"sw", "fsw"} /\ i.op # "lui"
          /\ i.op # "sx_slt"
      BY <1>11 DEF rTypeFunctMap, iTypeFunctMap, fTypeFunctMap,
                 rOperation, iOperation, fOperation
    <2>2. Encoded(line, pc) = encodeStore(i)
      BY <1>5, <2>1, Zenon DEF Encoded, i
    <2>3. Written(line, 0) = Operation(i.op, i.scalar, 0, i.rs1, i.rs2, i.imm)
      BY <1>3, <1>11, <2>1, Zenon DEF Written
    <2>4. i.imm \in -2^14 .. 2^14 - 1
      BY <1>4, <1>11 DEF FieldHolds, mTypeFunctMap
    <2>5. Decoded(encodeStore(i)) = Operation(i.op, i.scalar, 0, i.rs1, i.rs2, i.imm)
      BY <1>1, <1>11, <2>4, ReadsStore
    <2> QED BY <2>2, <2>3, <2>5, Zenon
  <1>12. CASE i.op = "lui"
    <2>1. /\ i.op \notin DOMAIN rTypeFunctMap /\ i.op \notin DOMAIN iTypeFunctMap /\ i.op \notin DOMAIN fTypeFunctMap
          /\ i.op \notin {"lw", "flw"} /\ i.op \notin {"sw", "fsw"} /\ i.op = "lui"
          /\ i.op # "sx_slt"
      BY <1>12 DEF rTypeFunctMap, iTypeFunctMap, fTypeFunctMap,
                 rOperation, iOperation, fOperation
    <2>2. Encoded(line, pc) = encodeLUI(i)
      BY <1>5, <2>1, Zenon DEF Encoded, i
    <2>3. Written(line, 0) = Operation("lui", i.scalar, i.rd, 0, 0, Signed(At(Bits(i.imm, 20), 12)))
      BY <1>3, <1>12, <2>1, Zenon DEF Written
    <2>5. Decoded(encodeLUI(i)) = Operation("lui", i.scalar, i.rd, 0, 0, Signed(At(Bits(i.imm, 20), 12)))
      BY <1>1, <1>12, ReadsUpper
    <2> QED BY <2>2, <2>3, <2>5, Zenon
  <1>13. CASE i.op = "sx_slt"
    <2>1. /\ i.op \notin DOMAIN rTypeFunctMap /\ i.op \notin DOMAIN iTypeFunctMap /\ i.op \notin DOMAIN fTypeFunctMap
          /\ i.op \notin {"lw", "flw"} /\ i.op \notin {"sw", "fsw"} /\ i.op # "lui"
          /\ i.op = "sx_slt"
      BY <1>13 DEF rTypeFunctMap, iTypeFunctMap, fTypeFunctMap,
                 rOperation, iOperation, fOperation
    <2>2. Encoded(line, pc) = encodeXType(i)
      BY <1>5, <2>1, Zenon DEF Encoded, i
    <2>3. Written(line, 0) = Operation("sx_slt", FALSE, i.rd, i.rs1, i.rs2, 0)
      BY <1>3, <1>13, <2>1, Zenon DEF Written
    <2>5. Decoded(encodeXType(i)) = Operation("sx_slt", FALSE, i.rd, i.rs1, i.rs2, 0)
      BY <1>1, <1>13, ReadsSelect
    <2> QED BY <2>2, <2>3, <2>5, Zenon
  <1>14. CASE i.op = "exit" /\ i.scalar = TRUE
    <2>1. /\ i.op \notin DOMAIN rTypeFunctMap /\ i.op \notin DOMAIN iTypeFunctMap /\ i.op \notin DOMAIN fTypeFunctMap
          /\ i.op \notin {"lw", "flw"} /\ i.op \notin {"sw", "fsw"} /\ i.op # "lui"
          /\ i.op # "sx_slt"
      BY <1>14 DEF rTypeFunctMap, iTypeFunctMap, fTypeFunctMap,
                 rOperation, iOperation, fOperation
    <2>2. Encoded(line, pc) = encodeControl(i)
      BY <1>5, <2>1, Zenon DEF Encoded, i
    <2>3. Written(line, 0) = Operation("exit", TRUE, 0, 0, 0, 0)
      BY <1>3, <1>14, <2>1, Zenon DEF Written
    <2>5. Decoded(encodeControl(i)) = Operation("exit", TRUE, 0, 0, 0, 0)
      BY <1>1, <1>14, ReadsExit
    <2> QED BY <2>2, <2>3, <2>5, Zenon
  <1> QED BY <1>6, <1>7, <1>8, <1>9, <1>10, <1>11, <1>12, <1>13, <1>14, Zenon

(***************************************************************************)
(* In a source of any length whose text assembles, with operands of        *)
(* whatever value their fields hold, the decoder reads every instruction   *)
(* as it was written (assembler.cpp:137-347, 521-616, decoder.sv:82-262).  *)
(***************************************************************************)
THEOREM DecodesForAll == Spec => [](TextAssembles /\ OperandsFit => DecodesAsWritten)
  <1>1. ASSUME IInv, TextInv, TextAssembles, OperandsFit, pass = "done",
               NEW l \in TextLines, source[l].op \notin DOMAIN cTypeFunctMap \ {"sync", "exit"}
        PROVE  Decoded(instrOut[Place(TextLines, l)]) = Written(source[l], 0)
    <2> DEFINE k == Before(InstrLines, l) + 1
               pc == instructions[k].address
    <2>1. /\ source[l] \in InstructionLines /\ Assembles(source[l])
          /\ Place(TextLines, l) = k /\ instrOut[k] = Encoded(source[l], pc)
      BY <1>1, TextWord
    <2>2. Readable(source[l])
      BY <1>1 DEF OperandsFit, ReadLines
    <2> HIDE DEF k, pc
    <2> QED BY <1>1, <2>1, <2>2, EncodedAsWritten
  <1>2. IInv /\ TextInv => (TextAssembles /\ OperandsFit => DecodesAsWritten)
    BY <1>1 DEF DecodesAsWritten
  <1> QED BY <1>2, ShapesHold, TextHolds, PTL

\* No distance is longer than the source.
LEMMA DistanceBound ==
  ASSUME source \in Seq(Line), NEW l, NEW target
  PROVE  Distance(l, target) \in -Len(source) .. Len(source)
  <1>1. ASSUME NEW k PROVE Before(TextLines, k) \in 0 .. Len(source)
    <2>1. /\ IsFiniteSet(1 .. Len(source)) /\ Cardinality(1 .. Len(source)) = Len(source)
          /\ DOMAIN source = 1 .. Len(source)
      <3>1. DOMAIN source = 1 .. Len(source) /\ Len(source) \in Nat
        OBVIOUS
      <3> QED BY <3>1, FS_Interval
    <2>2. {j \in TextLines : j < k} \subseteq 1 .. Len(source)
      BY <2>1 DEF TextLines
    <2>3. Before(TextLines, k) <= Len(source) /\ Before(TextLines, k) \in Nat
      BY <2>1, <2>2, FS_Subset, FS_CardinalityType DEF Before
    <2> QED BY <2>3
  <1>2. \A k : Place(TextLines, k) = 1 + Before(TextLines, k)
    BY DEF Place, Before
  <1>3. Len(source) \in Nat
    OBVIOUS
  <1> QED BY <1>1, <1>2, <1>3 DEF Distance

(***************************************************************************)
(* In a source whose text is ordinary and no longer than the 26 bits of a  *)
(* jump reach, every jump lands on its label, and so does every branch     *)
(* forwards over fewer than 32 instructions (assembler.cpp:349-437,        *)
(* 649-725, decoder.sv:82-113).                                            *)
(***************************************************************************)
THEOREM JumpsLandForAll ==
  Spec => [](OrdinaryText /\ Len(source) < 2^25 => JumpsLand)
  <1>1. ASSUME IInv, TextInv, DistancesEncoded, OrdinaryText, Len(source) < 2^25,
               pass = "done", NEW l \in TextLines, NEW target \in DOMAIN source,
               <<l, target>> \in Goes(Jumps),
               \/ source[l].op = "j"
               \/ source[l].op \in Branches /\ Distance(l, target) \in 0 .. 31
        PROVE  Lands(l, target)
    <2> DEFINE d == Distance(l, target)
               i == [source[l] EXCEPT !.imm = d]
    <2>1. instrOut[Place(TextLines, l)] = encodeControl(i)
      BY <1>1 DEF DistancesEncoded
    <2>2. source[l] \in InstructionLines /\ source \in Seq(Line)
      BY <1>1, TextWord DEF OrdinaryText, IInv, Shapes
    <2>3. d \in -2^25 .. 2^25 - 1
      <3>1. 2^25 \in Nat /\ Len(source) \in Nat
        BY <2>2, PowerNat
      <3>2. d \in -Len(source) .. Len(source)
        BY <2>2, DistanceBound
      <3> HIDE DEF d
      <3> QED BY <1>1, <3>1, <3>2
    <2> HIDE DEF d
    <2>4. i.op = source[l].op /\ i.imm = d
      BY <2>2 DEF InstructionLines, Line
    <2> HIDE DEF i
    <2>5. Decoded(encodeControl(i)).imm = d
      BY <1>1, <2>3, <2>4, ReadsJump, ReadsBranch DEF d
    <2> QED BY <2>1, <2>5 DEF Lands, d
  <1>2. ASSUME IInv, TextInv, DistancesEncoded, OrdinaryText, Len(source) < 2^25
        PROVE  JumpsLand
    <2>1. ASSUME pass = "done", NEW lt \in Goes({"j"})
          PROVE  Lands(lt[1], lt[2])
      BY <1>1, <1>2, <2>1 DEF Goes, Jumps
    <2>2. ASSUME pass = "done", NEW lt \in Goes(Branches),
                 Distance(lt[1], lt[2]) \in 0 .. 31
          PROVE  Lands(lt[1], lt[2])
      BY <1>1, <1>2, <2>2 DEF Goes, Jumps
    <2> QED BY <2>1, <2>2 DEF JumpsLand
  <1>3. IInv /\ TextInv /\ (OrdinaryText => DistancesEncoded)
          => (OrdinaryText /\ Len(source) < 2^25 => JumpsLand)
    BY <1>2
  <1> QED BY <1>3, ShapesHold, TextHolds, DistancesEncodedForAll, PTL

=============================================================================

------------------------- MODULE KernelLayout_proofs -------------------------
(***************************************************************************)
(* Proofs about KernelLayout, for every number of threads: areas are in    *)
(* numbers what they are in order, so they are apart by their size; how    *)
(* many there are decides whether the 14 bits of an address tell them      *)
(* apart, and whether they stay below the stack.                           *)
(***************************************************************************)
EXTENDS KernelLayout, FiniteSetTheorems, TLAPS

(***************************************************************************)
(* Warps as WarpsOf makes them: full ones, and a rest in the last.         *)
(***************************************************************************)
Count(n) == (n + 3) \div 4

LEMMA WarpsFit ==
  ASSUME NEW n \in Nat
  PROVE  /\ Count(n) \in Nat
         /\ DOMAIN WarpsOf(n) = 1 .. Count(n)
         /\ \A w \in 1 .. Count(n) :
              /\ WarpsOf(n)[w].size \in 0 .. 4
              /\ 4 * (w - 1) + WarpsOf(n)[w].size <= n
<1>1. Count(n) \in Nat /\ 4 * Count(n) <= n + 3
  BY SMT DEF Count
<1>2. DOMAIN WarpsOf(n) = 1 .. Count(n)
  BY DEF WarpsOf, Count, warp_size
<1>3. ASSUME NEW w \in 1 .. Count(n)
      PROVE  WarpsOf(n)[w].size = IF w * 4 <= n THEN 4 ELSE n - (w - 1) * 4
  BY DEF WarpsOf, Count, warp_size
<1>4. ASSUME NEW w \in 1 .. Count(n)
      PROVE  /\ WarpsOf(n)[w].size \in 0 .. 4
             /\ 4 * (w - 1) + WarpsOf(n)[w].size <= n
  <2>1. w \in Nat /\ w >= 1 /\ 4 * w <= n + 3
    BY <1>1
  <2>2. CASE w * 4 <= n
    BY <1>3, <2>1, <2>2
  <2>3. CASE ~(w * 4 <= n)
    BY <1>3, <2>1, <2>3
  <2> QED BY <2>2, <2>3
<1> QED BY <1>1, <1>2, <1>4

\* The first m natural numbers above 0.
LEMMA FirstCounted ==
  ASSUME NEW m \in Nat
  PROVE  IsFiniteSet(1 .. m) /\ Cardinality(1 .. m) = m
<1>1. /\ IsFiniteSet(1 .. m)
      /\ Cardinality(1 .. m) = IF 1 > m THEN 0 ELSE m - 1 + 1
  BY FS_Interval
<1> QED BY <1>1

(***************************************************************************)
(* There are as many areas as threads and warps, or fewer.  They are       *)
(* counted by their numbers in the order in which warps have five areas.   *)
(***************************************************************************)
LEMMA AreasCounted ==
  ASSUME NEW n \in Nat
  PROVE  /\ Files(WarpsOf(n)) \subseteq Int \X Int
         /\ IsFiniteSet(Files(WarpsOf(n)))
         /\ Cardinality(Files(WarpsOf(n))) <= n + Count(n)
<1> DEFINE S == Files(WarpsOf(n))
           T == 1 .. n + Count(n)
           number == [f \in S |-> 5 * (f[1] - 1) + f[2] + 1]
<1>1. Count(n) \in Nat
  BY WarpsFit
<1>2. ASSUME NEW f \in S
      PROVE  /\ f = <<f[1], f[2]>> /\ f[1] \in 1 .. Count(n) /\ f[2] \in 0 .. 4
             /\ 4 * (f[1] - 1) + f[2] <= n
  <2>1. PICK w \in DOMAIN WarpsOf(n) : f \in {<<w, t>> : t \in 0 .. WarpsOf(n)[w].size}
    BY DEF Files
  <2>2. PICK t \in 0 .. WarpsOf(n)[w].size : f = <<w, t>>
    BY <2>1
  <2>3. /\ w \in 1 .. Count(n) /\ WarpsOf(n)[w].size \in 0 .. 4
        /\ 4 * (w - 1) + WarpsOf(n)[w].size <= n
    BY WarpsFit
  <2> QED BY <1>1, <2>2, <2>3
<1>3. S \subseteq Int \X Int
  <2> SUFFICES ASSUME NEW f \in S PROVE f \in Int \X Int
    OBVIOUS
  <2>1. f[1] \in Int /\ f[2] \in Int
    BY <1>1, <1>2
  <2> QED BY <1>2, <2>1
<1>4. ASSUME NEW f \in S PROVE number[f] \in T
  <2>1. number[f] = 5 * (f[1] - 1) + f[2] + 1
    OBVIOUS
  <2>2. f[1] \in 1 .. Count(n) /\ f[2] \in 0 .. 4 /\ 4 * (f[1] - 1) + f[2] <= n
    BY <1>2
  <2> QED BY <1>1, <2>1, <2>2
<1>5. ASSUME NEW f \in S, NEW g \in S, number[f] = number[g] PROVE f = g
  <2>1. /\ f = <<f[1], f[2]>> /\ f[1] \in Int /\ f[2] \in 0 .. 4
        /\ g = <<g[1], g[2]>> /\ g[1] \in Int /\ g[2] \in 0 .. 4
    BY <1>1, <1>2
  <2>2. 5 * (f[1] - 1) + f[2] = 5 * (g[1] - 1) + g[2]
    BY <1>5, <2>1
  <2>3. f[1] = g[1] /\ f[2] = g[2]
    BY <2>1, <2>2
  <2> QED BY <2>1, <2>3
<1>6. number \in Injection(S, T)
  BY <1>4, <1>5 DEF Injection, IsInjective
<1>7. IsFiniteSet(T) /\ Cardinality(T) = n + Count(n)
  BY <1>1, FirstCounted
<1>8. IsFiniteSet(S) /\ Cardinality(S) <= n + Count(n)
  BY <1>6, <1>7, FS_Injection
<1> QED BY <1>3, <1>8

-----------------------------------------------------------------------------
(***************************************************************************)
(* The order in which areas are handed out, and how many come after one.   *)
(***************************************************************************)
Later(warps, f) == {g \in Files(warps) : Precedes(f, g)}

LEMMA LaterCounted ==
  ASSUME NEW warps, IsFiniteSet(Files(warps)), Files(warps) \subseteq Int \X Int,
         NEW f \in Files(warps)
  PROVE  /\ IsFiniteSet(Later(warps, f))
         /\ Cardinality(Later(warps, f)) \in 1 .. Cardinality(Files(warps))
         /\ Place(warps, f) = 15000 + 256 * Cardinality(Later(warps, f))
<1>1. Later(warps, f) \in SUBSET Files(warps)
  BY DEF Later
<1>2. f \in Later(warps, f)
  BY DEF Later, Precedes
<1>3. /\ IsFiniteSet(Later(warps, f))
      /\ Cardinality(Later(warps, f)) <= Cardinality(Files(warps))
  BY <1>1, FS_Subset
<1>4. Cardinality(Later(warps, f)) \in Nat /\ Cardinality(Files(warps)) \in Nat
  BY <1>3, FS_CardinalityType
<1>5. Cardinality(Later(warps, f)) # 0
  BY <1>2, <1>3, FS_EmptySet
<1>6. Place(warps, f) = 15000 + 256 * Cardinality(Later(warps, f))
  BY DEF Place, Later, warp_offset, AreaBytes
<1> QED BY <1>3, <1>4, <1>5, <1>6

LEMMA FewerLater ==
  ASSUME NEW warps, IsFiniteSet(Files(warps)), Files(warps) \subseteq Int \X Int,
         NEW f \in Files(warps), NEW g \in Files(warps), Precedes(f, g), f # g
  PROVE  Cardinality(Later(warps, g)) < Cardinality(Later(warps, f))
<1>1. f \in Later(warps, f)
  BY DEF Later, Precedes
<1>2. /\ f = <<f[1], f[2]>> /\ f[1] \in Int /\ f[2] \in Int
      /\ g = <<g[1], g[2]>> /\ g[1] \in Int /\ g[2] \in Int
  OBVIOUS
<1>3. ASSUME NEW h \in Later(warps, g) PROVE h \in Later(warps, f) \ {f}
  <2>1. h \in Files(warps) /\ Precedes(g, h) /\ h[1] \in Int /\ h[2] \in Int
    BY DEF Later
  <2>2. Precedes(f, h)
    BY <1>2, <2>1 DEF Precedes
  <2>3. h # f
    BY <1>2, <2>1 DEF Precedes
  <2> QED BY <2>1, <2>2, <2>3 DEF Later
<1>4. IsFiniteSet(Later(warps, f)) /\ Cardinality(Later(warps, f)) \in Nat
  BY LaterCounted
<1>5. /\ IsFiniteSet(Later(warps, f) \ {f})
      /\ Cardinality(Later(warps, f) \ {f}) = Cardinality(Later(warps, f)) - 1
  BY <1>1, <1>4, FS_RemoveElement
<1>6. Cardinality(Later(warps, g)) <= Cardinality(Later(warps, f) \ {f})
  BY <1>3, <1>5, FS_Subset
<1>7. Cardinality(Later(warps, g)) \in Nat
  BY LaterCounted
<1> QED BY <1>4, <1>5, <1>6, <1>7

(***************************************************************************)
(* Two areas are apart by the size of one, or more: no thread's or warp's  *)
(* registers overlap another one's (ast_kernel.cpp 385-408).               *)
(***************************************************************************)
THEOREM AreasApart ==
  ASSUME NEW n \in Nat,
         NEW f \in Files(WarpsOf(n)), NEW g \in Files(WarpsOf(n)), f # g
  PROVE  \/ Place(WarpsOf(n), f) >= Place(WarpsOf(n), g) + AreaBytes
         \/ Place(WarpsOf(n), g) >= Place(WarpsOf(n), f) + AreaBytes
<1> DEFINE W == WarpsOf(n)
           later(x) == Cardinality(Later(W, x))
<1>1. IsFiniteSet(Files(W)) /\ Files(W) \subseteq Int \X Int
  BY AreasCounted
<1>2. /\ later(f) \in Int /\ Place(W, f) = 15000 + 256 * later(f)
      /\ later(g) \in Int /\ Place(W, g) = 15000 + 256 * later(g)
  <2>1. Cardinality(Files(W)) \in Nat
    BY <1>1, FS_CardinalityType
  <2> QED BY <1>1, <2>1, LaterCounted
<1>3. Precedes(f, g) \/ Precedes(g, f)
  BY <1>1 DEF Precedes
<1>4. CASE Precedes(f, g)
  <2>1. later(g) < later(f)
    BY <1>1, <1>4, FewerLater
  <2> QED BY <1>2, <2>1 DEF AreaBytes
<1>5. CASE Precedes(g, f)
  <2>1. later(f) < later(g)
    BY <1>1, <1>5, FewerLater
  <2> QED BY <1>2, <2>1 DEF AreaBytes
<1> QED BY <1>3, <1>4, <1>5

(***************************************************************************)
(* Every register's word lies in the area of its file, and all areas lie   *)
(* between warp_offset and the top of as many areas as there are threads   *)
(* and warps.                                                              *)
(***************************************************************************)
LEMMA SlotsInside ==
  ASSUME NEW n \in Nat, NEW m \in Nat, n + Count(n) <= m,
         NEW f \in Files(WarpsOf(n)), NEW i \in Registers
  PROVE  /\ Place(WarpsOf(n), f) \in Int
         /\ Slot(WarpsOf(n), f, i) = Place(WarpsOf(n), f) - 4 * (i + 1)
         /\ Slot(WarpsOf(n), f, i) \in Int
         /\ Slot(WarpsOf(n), f, i) >= 15000
         /\ Slot(WarpsOf(n), f, i) <= 14996 + 256 * m
<1>1. IsFiniteSet(Files(WarpsOf(n))) /\ Files(WarpsOf(n)) \subseteq Int \X Int
  BY AreasCounted
<1>2. Cardinality(Files(WarpsOf(n))) \in Nat
  BY <1>1, FS_CardinalityType
<1>3. Cardinality(Files(WarpsOf(n))) <= n + Count(n) /\ Count(n) \in Nat
  BY AreasCounted, WarpsFit
<1> DEFINE p == Place(WarpsOf(n), f)
           a == Slot(WarpsOf(n), f, i)
<1>4. PICK k \in 1 .. Cardinality(Files(WarpsOf(n))) : p = 15000 + 256 * k
  BY <1>1, LaterCounted
<1>5. a = p - 4 * (i + 1)
  BY DEF Slot
<1>6. k \in Nat /\ k >= 1 /\ k <= m
  BY <1>2, <1>3
<1>7. i \in Nat /\ i <= 63
  BY DEF Registers
<1> HIDE DEF p, a
<1>8. p \in Int /\ a = p - 4 * (i + 1) /\ a \in Int /\ a >= 15000 /\ a <= 14996 + 256 * m
  BY <1>4, <1>5, <1>6, <1>7
<1> QED BY <1>8 DEF p, a

(***************************************************************************)
(* Of the 16384 bytes from warp_offset on those up to 24576 end up from    *)
(* -1384 on, the others below them.                                        *)
(***************************************************************************)
LEMMA WrappedOnce ==
  ASSUME NEW a \in Int, 15000 <= a, a <= 31383
  PROVE  /\ a < 24576 => Wrapped(a) = a - 16384
         /\ a >= 24576 => Wrapped(a) = a - 32768
<1>1. Wrapped(a) = ((a + 8192) % 16384) - 8192
  BY DEF Wrapped, Reach
<1>2. CASE a < 24576
  <2>1. (a + 8192) % 16384 = a - 8192
    BY <1>2
  <2> QED BY <1>1, <1>2, <2>1
<1>3. CASE a >= 24576
  <2> DEFINE b == a - 24576
  <2>1. b \in Int /\ 0 <= b /\ b < 16384 /\ a + 8192 = 32768 + b
    BY <1>3
  <2>2. (32768 + b) % 16384 = b
    <3> HIDE DEF b
    <3> QED BY <2>1
  <2> QED BY <1>1, <1>3, <2>1, <2>2
<1> QED BY <1>2, <1>3

LEMMA WrappedApart ==
  ASSUME NEW a \in Int, 15000 <= a, a <= 31383, NEW b \in Int, 15000 <= b, b <= 31383,
         Wrapped(a) = Wrapped(b)
  PROVE  a = b
<1>1. /\ a < 24576 => Wrapped(a) = a - 16384
      /\ a >= 24576 => Wrapped(a) = a - 32768
  BY WrappedOnce
<1>2. /\ b < 24576 => Wrapped(b) = b - 16384
      /\ b >= 24576 => Wrapped(b) = b - 32768
  BY WrappedOnce
<1> QED BY <1>1, <1>2

(***************************************************************************)
(* Of kernels of up to 51 threads no two registers share a word, although  *)
(* addresses keep only 14 bits (ast_kernel.cpp 385-504, assembler.cpp li). *)
(***************************************************************************)
THEOREM KernelSlotsApart ==
  ASSUME NEW n \in 0 .. 51
  PROVE  SlotsApart(WarpsOf(n))
<1> SUFFICES ASSUME NEW f \in Files(WarpsOf(n)), NEW g \in Files(WarpsOf(n)),
                    NEW i \in Registers, NEW j \in Registers,
                    Wrapped(Slot(WarpsOf(n), f, i)) = Wrapped(Slot(WarpsOf(n), g, j))
             PROVE  f = g /\ i = j
  BY DEF SlotsApart
<1> DEFINE p == Place(WarpsOf(n), f)
           q == Place(WarpsOf(n), g)
           a == Slot(WarpsOf(n), f, i)
           b == Slot(WarpsOf(n), g, j)
<1>1. n \in Nat /\ n + Count(n) <= 64
  BY DEF Count
<1>2. p \in Int /\ a = p - 4 * (i + 1) /\ a \in Int /\ 15000 <= a /\ a <= 31380
  BY <1>1, SlotsInside
<1>3. q \in Int /\ b = q - 4 * (j + 1) /\ b \in Int /\ 15000 <= b /\ b <= 31380
  BY <1>1, SlotsInside
<1>4. f # g => p >= q + 256 \/ q >= p + 256
  BY <1>1, AreasApart DEF AreaBytes
<1>5. i \in Nat /\ i <= 63 /\ j \in Nat /\ j <= 63
  BY DEF Registers
<1>6. Wrapped(a) = Wrapped(b)
  OBVIOUS
<1> HIDE DEF p, q, a, b
<1>7. a = b
  BY <1>2, <1>3, <1>6, WrappedApart
<1>8. f = g
  BY <1>2, <1>3, <1>4, <1>5, <1>7
<1>9. p = q
  BY <1>8 DEF p, q
<1> QED BY <1>2, <1>3, <1>5, <1>7, <1>8, <1>9

(***************************************************************************)
(* Of kernels of up to 16 threads no register has a word of the frames,    *)
(* which begin at StackBase; 17 threads have two areas more, and with them *)
(* one that reaches into the frames.                                       *)
(***************************************************************************)
THEOREM KernelSlotsBelowStack ==
  ASSUME NEW n \in 0 .. 16
  PROVE  SlotsBelowStack(WarpsOf(n))
<1> SUFFICES ASSUME NEW f \in Files(WarpsOf(n)), NEW i \in Registers
             PROVE  Wrapped(Slot(WarpsOf(n), f, i)) < StackBase
  BY DEF SlotsBelowStack
<1> DEFINE a == Slot(WarpsOf(n), f, i)
<1>1. n \in Nat /\ n + Count(n) <= 20
  BY DEF Count
<1>2. a \in Int /\ 15000 <= a /\ a <= 20116
  BY <1>1, SlotsInside
<1> HIDE DEF a
<1>3. Wrapped(a) = a - 16384
  BY <1>2, WrappedOnce
<1>4. Wrapped(a) < 4000
  BY <1>2, <1>3
<1> QED BY <1>4 DEF StackBase, a
=============================================================================

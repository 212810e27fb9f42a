------------------------- MODULE CoreMemory_proofs -------------------------
(***************************************************************************)
(* Proofs about a core behind its memory controller, for every number of   *)
(* threads, channels, words and blocks and every program: the protocol     *)
(* with the memory first, then that a core of one warp implements the      *)
(* instruction set.                                                        *)
(***************************************************************************)
EXTENDS CoreMemory, FiniteSetTheorems, FunctionTheorems, WellFoundedInduction, TLAPS

(***************************************************************************)
(* What is proved of the controller, for this one.                         *)
(***************************************************************************)
Ctl == INSTANCE MemController_proofs WITH
         NUM_CONSUMERS <- THREADS_PER_WARP + 1, WRITE_ENABLE <- TRUE,
         Address <- Word, Data <- Word, ZeroAddress <- 0, ZeroData <- 0

-----------------------------------------------------------------------------
(***************************************************************************)
(* Every set of threads has its mask: by induction over the number of      *)
(* threads, the lowest one in front.                                       *)
(***************************************************************************)
LEMMA SmallestElement ==
  ASSUME NEW S \in SUBSET Nat, S # {}
  PROVE  \E j \in S : \A k \in S : j <= k
  <1> DEFINE Smaller == {p \in Nat \X Nat : p[1] < p[2]}
  <1>1. IsWellFoundedOn(Smaller, Nat)
    BY NatLessThanWellFounded, Zenon DEF OpToRel
  <1>2. PICK j \in S : \A k \in S : <<k, j>> \notin Smaller
    <2> HIDE DEF Smaller
    <2> QED BY <1>1, WFMin
  <1>3. ASSUME NEW k \in S PROVE j <= k
    <2>1. <<k, j>> \in Smaller <=> k < j
      OBVIOUS
    <2> QED BY <1>2, <2>1
  <1> QED BY <1>3

LEMMA Induction ==
  ASSUME NEW S, 0 \in S, \A n \in Nat : n \in S => n + 1 \in S
  PROVE  Nat \subseteq S
  <1> DEFINE Others == {n \in Nat : n \notin S}
  <1> SUFFICES ASSUME Others # {} PROVE FALSE
    OBVIOUS
  <1>1. PICK j \in Others : \A k \in Others : j <= k
    <2> HIDE DEF Others
    <2>1. Others \in SUBSET Nat
      BY DEF Others
    <2> QED BY <2>1, SmallestElement
  <1>2. j - 1 \in Nat /\ j - 1 \in S
    BY <1>1
  <1> QED BY <1>1, <1>2

\* Powers of two count the subsets.
LEMMA PowerDoubles == ASSUME NEW n \in Nat PROVE 2^(n + 1) = 2 * 2^n
  <1> DEFINE S == SUBSET (1 .. n)
             T == {A \cup {n + 1} : A \in S}
             f == [A \in S |-> A \cup {n + 1}]
  <1>1. IsFiniteSet(S) /\ Cardinality(S) = 2^n
    <2>1. IsFiniteSet(1 .. n) /\ Cardinality(1 .. n) = n
      BY FS_Interval
    <2> QED BY <2>1, FS_SUBSET
  <1>2. IsFiniteSet(SUBSET (1 .. n + 1)) /\ Cardinality(SUBSET (1 .. n + 1)) = 2^(n + 1)
    <2>1. IsFiniteSet(1 .. n + 1) /\ Cardinality(1 .. n + 1) = n + 1
      BY FS_Interval
    <2> QED BY <2>1, FS_SUBSET
  <1>3. \A A \in S : n + 1 \notin A
    OBVIOUS
  <1>4. IsFiniteSet(T) /\ Cardinality(T) = Cardinality(S)
    <2>1. f \in [S -> T] /\ \A B \in T : \E A \in S : f[A] = B
      BY Zenon
    <2>2. ASSUME NEW A \in S, NEW B \in S, f[A] = f[B] PROVE A = B
      BY <1>3, <2>2
    <2>3. f \in Bijection(S, T)
      <3> HIDE DEF S, T, f
      <3> QED BY <2>1, <2>2, Fun_IsBij, Zenon
    <2>4. ExistsBijection(S, T)
      BY <2>3, Zenon DEF ExistsBijection
    <2> HIDE DEF S, T, f
    <2> QED BY <1>1, <2>4, FS_Bijection
  <1>5. SUBSET (1 .. n + 1) = S \cup T
    <2>1. ASSUME NEW A \in SUBSET (1 .. n + 1) PROVE A \in S \cup T
      <3>1. CASE n + 1 \in A
        <4>1. A \ {n + 1} \in S /\ A = (A \ {n + 1}) \cup {n + 1}
          BY <3>1
        <4> QED BY <4>1, Zenon
      <3>2. CASE n + 1 \notin A
        BY <3>2
      <3> QED BY <3>1, <3>2
    <2>2. S \cup T \subseteq SUBSET (1 .. n + 1)
      <3>1. 1 .. n \subseteq 1 .. n + 1 /\ n + 1 \in 1 .. n + 1
        OBVIOUS
      <3> QED BY <3>1, Zenon
    <2> HIDE DEF S, T
    <2> QED BY <2>1, <2>2
  <1>6. S \cap T = {}
    BY <1>3
  <1> HIDE DEF S, T, f
  <1>7. Cardinality(S \cup T) = Cardinality(S) + Cardinality(T) - Cardinality({})
    BY <1>1, <1>4, <1>6, FS_Union
  <1>8. Cardinality({}) = 0 /\ 2^n \in Int
    BY <1>1, FS_EmptySet, FS_CardinalityType
  <1>9. 2^(n + 1) = Cardinality(S \cup T)
    BY <1>2, <1>5
  <1> QED BY <1>1, <1>4, <1>7, <1>8, <1>9

LEMMA PowerZero == 2^0 = 1 /\ 2^1 = 2
  OBVIOUS

LEMMA PowerNat == ASSUME NEW n \in Nat PROVE 2^n \in Nat \ {0}
  <1> DEFINE S == {k \in Nat : 2^k \in Nat \ {0}}
  <1>1. 0 \in S
    BY PowerZero
  <1>2. \A k \in Nat : k \in S => k + 1 \in S
    BY PowerDoubles
  <1> HIDE DEF S
  <1>3. Nat \subseteq S
    BY <1>1, <1>2, Induction
  <1> QED BY <1>3 DEF S

LEMMA BitsOfDouble ==
  ASSUME NEW word \in Nat, NEW b \in {0, 1}
  PROVE  /\ Bit(2 * word + b, 0) <=> b = 1
         /\ \A i \in Nat : Bit(2 * word + b, i + 1) <=> Bit(word, i)
  <1>1. (2 * word + b) \div 2^0 = 2 * word + b /\ (2 * word + b) % 2 = b
    BY PowerZero
  <1>2. ASSUME NEW i \in Nat
        PROVE  (2 * word + b) \div 2^(i + 1) = word \div 2^i
    <2> DEFINE p == 2^i
               q == word \div p
               r == word % p
    <2>1. p \in Nat \ {0} /\ 2^(i + 1) = 2 * p
      BY PowerNat, PowerDoubles
    <2> HIDE DEF p
    <2>2. q \in Int /\ r \in 0 .. p - 1 /\ word = q * p + r
      BY <2>1
    <2> HIDE DEF q, r
    <2>3. 2 * word + b = q * (2 * p) + (2 * r + b) /\ 2 * r + b \in 0 .. 2 * p - 1
      <3>1. 2 * word = q * (2 * p) + 2 * r
        BY <2>1, <2>2
      <3> QED BY <2>1, <2>2, <3>1
    <2>4. \A a \in Int, d \in Nat \ {0}, e \in Int : \A m \in 0 .. d - 1 :
            a = e * d + m => a \div d = e
      OBVIOUS
    <2>5. (2 * word + b) \div (2 * p) = q
      BY <2>1, <2>2, <2>3, <2>4
    <2> QED BY <2>1, <2>5 DEF q, p
  <1> QED BY <1>1, <1>2 DEF Bit

LEMMA EveryMask ==
  \A bits \in SUBSET Threads : \E word \in 0 .. 2 ^ THREADS_PER_WARP - 1 :
    \A i \in Threads : Bit(word, i) <=> i \in bits
  <1> DEFINE Masked(n) ==
               \A bits \in SUBSET (0 .. n - 1) : \E word \in 0 .. 2^n - 1 :
                 \A i \in 0 .. n - 1 : Bit(word, i) <=> i \in bits
             S == {n \in Nat : Masked(n)}
  <1>1. Masked(0)
    <2>1. 0 \in 0 .. 2^0 - 1
      BY PowerZero
    <2> QED BY <2>1
  <1>2. ASSUME NEW n \in Nat, Masked(n) PROVE Masked(n + 1)
    <2> SUFFICES ASSUME NEW bits \in SUBSET (0 .. n)
                 PROVE  \E word \in 0 .. 2^(n + 1) - 1 :
                          \A i \in 0 .. n : Bit(word, i) <=> i \in bits
      <3>1. (n + 1) - 1 = n
        OBVIOUS
      <3> QED BY <3>1
    <2> DEFINE rest == {i \in 0 .. n - 1 : i + 1 \in bits}
               b == IF 0 \in bits THEN 1 ELSE 0
    <2>1. PICK word \in 0 .. 2^n - 1 : \A i \in 0 .. n - 1 : Bit(word, i) <=> i \in rest
      <3>1. rest \in SUBSET (0 .. n - 1)
        OBVIOUS
      <3> HIDE DEF rest
      <3> QED BY <1>2, <3>1
    <2>2. word \in Nat /\ b \in {0, 1} /\ 2^n \in Nat \ {0} /\ 2^(n + 1) = 2 * 2^n
      BY PowerNat, PowerDoubles
    <2>3. 2 * word + b \in 0 .. 2^(n + 1) - 1
      BY <2>2
    <2>4. ASSUME NEW i \in 0 .. n
          PROVE  Bit(2 * word + b, i) <=> i \in bits
      <3>1. CASE i = 0
        <4>1. Bit(2 * word + b, 0) <=> b = 1
          BY <2>2, BitsOfDouble
        <4> QED BY <3>1, <4>1
      <3>2. CASE i # 0
        <4>1. i - 1 \in 0 .. n - 1 /\ i - 1 \in Nat /\ (i - 1) + 1 = i
          BY <3>2
        <4>2. Bit(2 * word + b, (i - 1) + 1) <=> Bit(word, i - 1)
          <5> HIDE DEF b
          <5> QED BY <2>2, <4>1, BitsOfDouble
        <4>3. i - 1 \in rest <=> i \in bits
          BY <4>1
        <4> HIDE DEF rest, b
        <4> QED BY <2>1, <4>1, <4>2, <4>3
      <3> QED BY <3>1, <3>2
    <2> QED BY <2>3, <2>4
  <1>3. Nat \subseteq S
    <2> HIDE DEF Masked
    <2>1. 0 \in S /\ \A n \in Nat : n \in S => n + 1 \in S
      BY <1>1, <1>2
    <2> HIDE DEF S
    <2> QED BY <2>1, Induction
  <1> QED BY <1>3, IsaAssumption DEF Threads

-----------------------------------------------------------------------------
(***************************************************************************)
(* Types.  TypeInv gives every register of the core its range.             *)
(***************************************************************************)
Mux == {"ALU_OUT", "LSU_OUT", "IMMEDIATE", "VECTOR_TO_SCALAR"}

DecodedOK(d) ==
  /\ d.alu \in AluInstruction /\ d.mux \in Mux
  /\ d.scalar \in BOOLEAN /\ d.write \in BOOLEAN /\ d.load \in BOOLEAN
  /\ d.store \in BOOLEAN /\ d.branch \in BOOLEAN /\ d.halt \in BOOLEAN
  /\ d.rd \in Register /\ d.rs1 \in Register /\ d.rs2 \in Register
  /\ d.imm \in Word

OperandPair == [rs1 : Word, rs2 : Word]

AluInputs == [alu : AluInstruction \cup {"NOP"}, rs1 : Word, rs2 : Word,
              imm : Word, pc : Word]

LsuRegisters == [state : {"IDLE", "REQUESTING", "WAITING", "DONE"},
                 valid : {"none", "read", "write"},
                 address : Word, data : Word, out : Word]

FileOK(file) == \A l \in Lanes : file[l] \in [Stored(l) -> Word]

RegisterFiles ==
  {file \in [Lanes -> UNION {[Stored(l) -> Word] : l \in Lanes}] : FileOK(file)}

CoreInv ==
  /\ program \in Programs
  /\ memory \in [Word -> Word] /\ committed \in [Word -> Word]
  /\ ready \in [Lanes -> SUBSET {"read", "write"}]
  /\ answer \in [Lanes -> Word]
  /\ running \in BOOLEAN /\ done \in BOOLEAN

WarpInv ==
  /\ warp_state \in [Warps -> WarpState]
  /\ pc \in [Warps -> Word] /\ current_warp \in Warps
  /\ fetcher_state \in [Warps -> {"IDLE", "FETCHING", "DONE"}]
  /\ fetched \in [Warps -> Instruction]
  /\ \A w \in Warps : DecodedOK(decoded[w])
  /\ registers \in [Warps -> RegisterFiles]
  /\ operand \in [Warps -> [Lanes -> OperandPair]]
  /\ vector_to_scalar_data \in [Warps -> Word]

LaneInv ==
  /\ alu \in [Lanes -> [inputs : AluInputs, result : Word]]
  /\ fpu \in [Lanes -> Word \X Word \X Word \X Word]
  /\ lsu \in [Lanes -> LsuRegisters]

BlockInv ==
  /\ core_reset \in BOOLEAN /\ blocks_done \in 0 .. NUM_BLOCKS - 1
  /\ core_reset => blocks_done < NUM_BLOCKS - 1

TypeInv == CoreInv /\ WarpInv /\ LaneInv /\ BlockInv /\ Controller!ControllerTypeOK

(***************************************************************************)
(* Words.                                                                  *)
(***************************************************************************)
LEMMA ZeroIsWord == M \in Nat \ {0} /\ 0 \in Word /\ Word \subseteq Nat
  BY IsaAssumption DEF Word

LEMMA Reduced == ASSUME NEW n \in Int PROVE n % M \in Word
  BY ZeroIsWord DEF Word

LEMMA SumReduced == ASSUME NEW a \in Word, NEW b \in Word
                    PROVE  (a + b) % M \in Word
<1>1. a + b \in Int
  BY ZeroIsWord
<1> QED
  BY <1>1, Reduced

LEMMA MasksAreWords == 0 .. 2 ^ THREADS_PER_WARP - 1 \subseteq Word
  BY IsaAssumption DEF Word

LEMMA BitIsWord == 0 \in Word /\ 1 \in Word
<1> DEFINE Masks == 0 .. 2 ^ THREADS_PER_WARP - 1
<1>1. {} \in SUBSET Threads /\ {0} \in SUBSET Threads /\ 0 \in Threads
  BY IsaAssumption DEF Threads
<1>2. PICK none \in Masks : \A i \in Threads : Bit(none, i) <=> i \in {}
  BY <1>1, EveryMask
<1>3. PICK first \in Masks : \A i \in Threads : Bit(first, i) <=> i \in {0}
  BY <1>1, EveryMask
<1>4. none # first
  BY <1>1, <1>2, <1>3
<1>5. none \in Word /\ first \in Word
  BY MasksAreWords
<1> QED
  BY <1>4, <1>5, ZeroIsWord DEF Word

LEMMA WordOfType ==
  ASSUME NEW bits \in SUBSET Threads
  PROVE  /\ WordOf(bits) \in 0 .. 2 ^ THREADS_PER_WARP - 1
         /\ \A i \in Threads : Bit(WordOf(bits), i) <=> i \in bits
  BY EveryMask DEF WordOf

LEMMA ContentsType ==
  ASSUME NEW w \in Warps, NEW l \in Lanes, NEW r \in Register,
         NEW file \in RegisterFiles
  PROVE  Contents(file, w, l, r) \in Word
<1>1. file[l] \in [Stored(l) -> Word]
  BY DEF RegisterFiles, FileOK
<1>2. /\ (w * THREADS_PER_WARP + l) % M \in Word
      /\ (NUM_WARPS * THREADS_PER_WARP) % M \in Word
  <2>1. /\ w * THREADS_PER_WARP + l \in Int
        /\ NUM_WARPS * THREADS_PER_WARP \in Int
    BY IsaAssumption DEF Warps, Lanes, Threads, Scalar
  <2> QED
    BY <2>1, Reduced
<1> QED
  BY <1>1, <1>2, ZeroIsWord DEF Contents, Register, Stored

LEMMA ControllerAssumptions == Ctl!ControllerAssumption
  BY IsaAssumption, CoreMemoryAssumption, BitIsWord
     DEF Ctl!ControllerAssumption

LEMMA LaneIndices == Controller!Consumers = Lanes
  BY IsaAssumption DEF Controller!Consumers, Lanes, Threads, Scalar

-----------------------------------------------------------------------------
(***************************************************************************)
(* The operations of the core stay in these ranges.                        *)
(***************************************************************************)
LEMMA DecodeType ==
  ASSUME NEW instr \in Instruction, NEW old, old.alu \in AluInstruction
  PROVE  DecodedOK(Decode(instr, old))
<1> DEFINE d == Decode(instr, old)
<1>1. d.alu \in AluInstruction
  BY DEF Decode, AluOf, AluInstruction, RegularInt, Floating, Instruction, Op
<1>2. d.mux \in Mux
  BY DEF Decode, MuxOf, Mux
<1>3. /\ d.scalar \in BOOLEAN /\ d.write \in BOOLEAN /\ d.load \in BOOLEAN
      /\ d.store \in BOOLEAN /\ d.branch \in BOOLEAN /\ d.halt \in BOOLEAN
  BY DEF Decode
<1>4. /\ d.rd \in Register /\ d.rs1 \in Register /\ d.rs2 \in Register
      /\ d.imm \in Word
  BY DEF Decode, Instruction
<1> QED
  BY <1>1, <1>2, <1>3, <1>4 DEF DecodedOK

LEMMA BlankType == Blank \in Instruction
  BY ZeroIsWord DEF Blank, Instruction, Op, Register

LEMMA DecoderResetType ==
  ASSUME NEW kept \in AluInstruction
  PROVE  DecodedOK(DecoderReset(kept)) /\ DecoderReset(kept).alu = kept
<1> DEFINE d == DecoderReset(kept)
<1>1. d.alu = kept /\ d.mux = "ALU_OUT" /\ d.imm = 0
  BY DEF DecoderReset, Decode, Blank, MuxOf
<1>2. d.rd = "zero" /\ d.rs1 = "zero" /\ d.rs2 = "zero"
  BY DEF DecoderReset, Decode, Blank
<1>3. /\ d.alu \in AluInstruction /\ d.mux \in Mux
      /\ d.rd \in Register /\ d.rs1 \in Register /\ d.rs2 \in Register
      /\ d.imm \in Word
  BY <1>1, <1>2, ZeroIsWord DEF Mux, Register
<1>4. /\ d.scalar \in BOOLEAN /\ d.write \in BOOLEAN /\ d.load \in BOOLEAN
      /\ d.store \in BOOLEAN /\ d.branch \in BOOLEAN /\ d.halt \in BOOLEAN
  BY DEF DecoderReset, Decode, Blank
<1> QED
  BY <1>1, <1>3, <1>4 DEF DecodedOK

LEMMA AluResultType ==
  ASSUME NEW in \in AluInputs
  PROVE  AluResult(in) \in Word
<1>1. (in.rs1 + in.imm) % M \in Word /\ (in.pc + in.imm) % M \in Word
  BY SumReduced DEF AluInputs
<1> QED
  BY <1>1, BitIsWord DEF AluResult

LEMMA FpuResultType ==
  ASSUME NEW in, in.rs1 \in Word, in.rs2 \in Word
  PROVE  FpuResult(in) \in Word
<1>1. (in.rs1 + in.rs2) % M \in Word
  BY SumReduced
<1> QED
  BY <1>1, BitIsWord DEF FpuResult

(***************************************************************************)
(* The search for the next warp finds a warp.                              *)
(***************************************************************************)
LEMMA NextWarpType ==
  ASSUME current_warp \in Warps
  PROVE  NextWarp \in Warps
<1> DEFINE found == {k \in Warps : Eligible(After(k))}
           first == CHOOSE k \in found : \A j \in found : k <= j
<1>1. CASE found = {}
  BY <1>1 DEF NextWarp
<1>2. CASE found # {}
  <2>1. found \in SUBSET Nat
    BY IsaAssumption DEF Warps
  <2>2. first \in found
    <3> HIDE DEF found
    <3> QED BY <1>2, <2>1, ControllerAssumptions, Ctl!SmallestElement
  <2>3. After(first) \in Warps
    <3>1. NUM_WARPS \in Nat \ {0} /\ current_warp + 1 + first \in Int
      BY <2>2, IsaAssumption DEF Warps
    <3> HIDE DEF first
    <3> QED BY <3>1 DEF After, Warps
  <2> QED
    BY <1>2, <2>3 DEF NextWarp
<1> QED
  BY <1>1, <1>2

LEMMA CurrentType ==
  ASSUME WarpInv
  PROVE  /\ current_warp \in Warps /\ DecodedOK(current)
         /\ currentState \in WarpState
         /\ \A l \in Lanes : Operands(l) \in OperandPair
  BY DEF WarpInv, current, currentState, Operands

LEMMA AluOutType ==
  ASSUME LaneInv
  PROVE  /\ ScalarAluOut \in Word
         /\ \A i \in Threads : VectorAluOut(i) \in Word
<1>1. \A l \in Lanes : alu[l].result \in Word /\ fpu[l][4] \in Word
  BY DEF LaneInv
<1>2. Scalar \in Lanes /\ Threads \subseteq Lanes
  BY DEF Lanes
<1> QED
  BY <1>1, <1>2 DEF ScalarAluOut, VectorAluOut

LEMMA ResolvedNextPcType ==
  ASSUME WarpInv, LaneInv
  PROVE  ResolvedNextPc \in Word
<1>1. pc[current_warp] \in Word /\ current.imm \in Word /\ ScalarAluOut \in Word
  BY CurrentType, AluOutType DEF WarpInv, DecodedOK
<1>2. /\ (pc[current_warp] + current.imm) % M \in Word
      /\ (pc[current_warp] + 1) % M \in Word
  BY <1>1, BitIsWord, SumReduced
<1> QED
  BY <1>1, <1>2 DEF ResolvedNextPc

LEMMA ComparisonType == Comparison \in Word
  BY WordOfType, MasksAreWords DEF Comparison

LEMMA AluNextType ==
  ASSUME WarpInv, LaneInv, NEW l \in Lanes
  PROVE  AluNext(l) \in [inputs : AluInputs, result : Word]
<1>1. CASE AluEnabled(l)
  <2> DEFINE in == [alu |-> current.alu, rs1 |-> Operands(l).rs1,
                    rs2 |-> Operands(l).rs2, imm |-> current.imm,
                    pc |-> pc[current_warp]]
  <2>1. in \in AluInputs
    BY CurrentType DEF AluInputs, OperandPair, DecodedOK, WarpInv
  <2>2. AluResult(alu[l].inputs) \in Word
    BY AluResultType DEF LaneInv
  <2>3. AluNext(l) = [inputs |-> in, result |-> AluResult(alu[l].inputs)]
    BY <1>1 DEF AluNext
  <2> HIDE DEF in
  <2> QED
    BY <2>1, <2>2, <2>3
<1>2. CASE ~AluEnabled(l)
  BY <1>2 DEF AluNext, LaneInv
<1> QED
  BY <1>1, <1>2

LEMMA FpuStepType ==
  ASSUME WarpInv, LaneInv, FpuStep
  PROVE  fpu' \in [Lanes -> Word \X Word \X Word \X Word]
<1>1. ASSUME NEW l \in Lanes
      PROVE  FpuResult([alu |-> current.alu, rs1 |-> Operands(l).rs1,
                        rs2 |-> Operands(l).rs2]) \in Word
  <2>1. Operands(l).rs1 \in Word /\ Operands(l).rs2 \in Word
    BY CurrentType DEF OperandPair
  <2> QED
    BY <2>1, FpuResultType
<1>2. \A l \in Lanes : fpu[l][1] \in Word /\ fpu[l][2] \in Word /\ fpu[l][3] \in Word
  BY DEF LaneInv
<1> QED
  BY <1>1, <1>2 DEF FpuStep

LEMMA LsuNextType ==
  ASSUME CoreInv, WarpInv, LaneInv, NEW l \in Lanes
  PROVE  LsuNext(l) \in LsuRegisters
<1> DEFINE at == (Operands(l).rs1 + current.imm) % M
<1>1. /\ lsu[l] \in LsuRegisters /\ answer[l] \in Word
      /\ Operands(l).rs2 \in Word /\ at \in Word
  <2>1. Operands(l).rs1 \in Word /\ Operands(l).rs2 \in Word /\ current.imm \in Word
    BY CurrentType DEF OperandPair, DecodedOK
  <2>2. at \in Word
    BY <2>1, SumReduced
  <2> QED
    BY <2>1, <2>2 DEF LaneInv, CoreInv
<1>2. Kind \in {"read", "write"}
  BY DEF Kind
<1> HIDE DEF at
<1> QED
  BY <1>1, <1>2 DEF LsuNext, LsuRegisters, at

LEMMA WrittenValueType ==
  ASSUME WarpInv, LaneInv, NEW l \in Lanes
  PROVE  WrittenValue(l) \in Word
<1>1. /\ lsu[l].out \in Word /\ current.imm \in Word
      /\ vector_to_scalar_data[current_warp] \in Word
  BY CurrentType DEF LaneInv, LsuRegisters, DecodedOK, WarpInv
<1>2. (IF l = Scalar THEN ScalarAluOut ELSE VectorAluOut(l)) \in Word
  BY AluOutType DEF Lanes
<1> QED
  BY <1>1, <1>2 DEF WrittenValue

LEMMA RegisterStepType ==
  ASSUME WarpInv, LaneInv, RegisterStep
  PROVE  /\ registers' \in [Warps -> RegisterFiles]
         /\ operand' \in [Warps -> [Lanes -> OperandPair]]
<1> DEFINE w == current_warp
           file == registers[w]
           after == [l \in Lanes |->
             [r \in Stored(l) |-> IF Written(l) /\ r = current.rd
                                  THEN WrittenValue(l) ELSE file[l][r]]]
           out == [l \in Lanes |->
             IF Reads(l) THEN [rs1 |-> Contents(file, w, l, current.rs1),
                               rs2 |-> Contents(file, w, l, current.rs2)]
             ELSE operand[w][l]]
<1>1. w \in Warps /\ file \in RegisterFiles
  BY DEF WarpInv
<1>2. after \in RegisterFiles
  <2>1. \A l \in Lanes : file[l] \in [Stored(l) -> Word]
    BY <1>1 DEF RegisterFiles, FileOK
  <2>2. \A l \in Lanes : after[l] \in [Stored(l) -> Word]
    <3> SUFFICES ASSUME NEW l \in Lanes
                 PROVE  [r \in Stored(l) |->
                           IF Written(l) /\ r = current.rd THEN WrittenValue(l)
                           ELSE file[l][r]] \in [Stored(l) -> Word]
      OBVIOUS
    <3>1. WrittenValue(l) \in Word
      BY WrittenValueType
    <3> QED
      BY <2>1, <3>1
  <2> HIDE DEF after
  <2>3. DOMAIN after = Lanes /\ after = [l \in Lanes |-> after[l]]
    BY DEF after
  <2>4. after \in [Lanes -> UNION {[Stored(l) -> Word] : l \in Lanes}]
    BY <2>2, <2>3
  <2> QED
    BY <2>2, <2>4 DEF RegisterFiles, FileOK
<1>3. out \in [Lanes -> OperandPair]
  <2> SUFFICES ASSUME NEW l \in Lanes PROVE out[l] \in OperandPair
    OBVIOUS
  <2>1. /\ Contents(file, w, l, current.rs1) \in Word
        /\ Contents(file, w, l, current.rs2) \in Word
    BY <1>1, CurrentType, ContentsType DEF DecodedOK
  <2>2. operand[w][l] \in OperandPair
    BY DEF WarpInv
  <2> QED
    BY <2>1, <2>2 DEF OperandPair
<1>4. /\ registers' = [registers EXCEPT ![w] = after]
      /\ operand' = [operand EXCEPT ![w] = out]
  BY DEF RegisterStep
<1> HIDE DEF after, out
<1> QED
  BY <1>1, <1>2, <1>3, <1>4 DEF WarpInv

(***************************************************************************)
(* The controller's definitions with the consumers and words of this core. *)
(***************************************************************************)
LEMMA SameTypes == Controller!ControllerTypeOK <=> Ctl!ControllerTypeOK
  BY Zenon
     DEF Controller!ControllerTypeOK, Ctl!ControllerTypeOK,
         Controller!Consumers, Ctl!Consumers, Controller!Channels,
         Ctl!Channels, Controller!Channel, Ctl!Channel,
         Controller!ControllerState, Ctl!ControllerState,
         Controller!ReadPort, Ctl!ReadPort, Controller!WritePort, Ctl!WritePort

LEMMA SameStep ==
  ASSUME NEW readReady, NEW readData, NEW writeReady
  PROVE  Controller!ControllerStep(readReady, readData, writeReady) <=>
           Ctl!ControllerStep(readReady, readData, writeReady)
  BY Zenon
     DEF Controller!ControllerStep, Ctl!ControllerStep,
         Controller!ChannelStep, Ctl!ChannelStep,
         Controller!Accepts, Ctl!Accepts, Controller!Accepted, Ctl!Accepted,
         Controller!Requests, Ctl!Requests,
         Controller!FirstRequest, Ctl!FirstRequest,
         Controller!ReadAnswered, Ctl!ReadAnswered,
         Controller!WriteAnswered, Ctl!WriteAnswered,
         Controller!ReadReleased, Ctl!ReadReleased,
         Controller!WriteReleased, Ctl!WriteReleased,
         Controller!ServingStep, Ctl!ServingStep,
         Controller!ReadReadyStep, Ctl!ReadReadyStep,
         Controller!WriteReadyStep, Ctl!WriteReadyStep,
         Controller!ReadDataStep, Ctl!ReadDataStep,
         Controller!SetAfter, Ctl!SetAfter, Controller!Serving, Ctl!Serving,
         Controller!Taking, Ctl!Taking,
         Controller!AnsweringRead, Ctl!AnsweringRead,
         Controller!AnsweringWrite, Ctl!AnsweringWrite,
         Controller!ReleasingRead, Ctl!ReleasingRead,
         Controller!ReleasingWrite, Ctl!ReleasingWrite,
         Controller!Last, Ctl!Last,
         Controller!Consumers, Ctl!Consumers, Controller!Channels, Ctl!Channels

LEMMA SameSearch ==
  /\ Controller!Channels = Ctl!Channels
  /\ Controller!Consumers = Ctl!Consumers
  /\ Controller!Channel = Ctl!Channel
  /\ \A S : Controller!Last(S) = Ctl!Last(S)
  BY Zenon DEF Controller!Channels, Ctl!Channels, Controller!Consumers,
               Ctl!Consumers, Controller!Last, Ctl!Last, Controller!Channel,
               Ctl!Channel, Controller!ControllerState, Ctl!ControllerState

LEMMA MemoryEdgeType ==
  ASSUME MemoryEdge, channel' \in [Controller!Channels -> Controller!Channel],
         memory \in [Word -> Word]
  PROVE  memory' \in [Word -> Word]
<1> SUFFICES ASSUME NEW a \in Word, Writing(a) # {}
             PROVE  channel'[Controller!Last(Writing(a))].mem_write_data \in Word
  BY DEF MemoryEdge
<1>1. Writing(a) \in SUBSET Controller!Channels
  BY DEF Writing
<1>2. Controller!Last(Writing(a)) \in Controller!Channels
  BY <1>1, SameSearch, ControllerAssumptions, Ctl!LastFound
<1> QED
  BY <1>2 DEF Controller!Channel

LEMMA ResetTypes ==
  /\ RegisterFile \in RegisterFiles
  /\ [l \in Lanes |-> NoOperands] \in [Lanes -> OperandPair]
  /\ IdleLsu \in LsuRegisters
  /\ EmptyAlu \in [inputs : AluInputs, result : Word]
<1>1. M - 1 \in Word
  BY ZeroIsWord DEF Word
<1>2. \A l \in Lanes : RegisterFile[l] \in [Stored(l) -> Word]
  BY <1>1, ZeroIsWord DEF RegisterFile
<1>3. RegisterFile \in [Lanes -> UNION {[Stored(l) -> Word] : l \in Lanes}]
  <2>1. RegisterFile = [l \in Lanes |-> RegisterFile[l]]
    BY DEF RegisterFile
  <2> QED
    BY <1>2, <2>1
<1>4. RegisterFile \in RegisterFiles
  BY <1>2, <1>3 DEF RegisterFiles, FileOK
<1> QED
  BY <1>4, ZeroIsWord DEF NoOperands, OperandPair, IdleLsu, LsuRegisters,
                          EmptyAlu, AluInputs

LEMMA InitType == Init => TypeInv
<1> SUFFICES ASSUME Init PROVE TypeInv
  OBVIOUS
<1>1. CoreInv
  BY CoreMemoryAssumption, ZeroIsWord DEF Init, CoreReset, CoreInv
<1>2. WarpInv
  <2>1. \A w \in Warps : DecodedOK(decoded[w])
    BY CoreMemoryAssumption, DecoderResetType DEF Init
  <2>2. 0 \in Warps
    BY IsaAssumption DEF Warps
  <2> QED
    BY <2>1, <2>2, ResetTypes, ZeroIsWord, BlankType
       DEF Init, CoreReset, EmptyPipelines, WarpInv, WarpState
<1>3. LaneInv
  BY ResetTypes, ZeroIsWord DEF Init, CoreReset, EmptyPipelines, LaneInv
<1>4. BlockInv
  <2>1. blocks_done \in 0 .. NUM_BLOCKS - 1
    BY CoreMemoryAssumption DEF Init
  <2> QED
    BY <2>1 DEF Init, BlockInv
<1>5. Controller!ControllerTypeOK
  <2>1. 0 \in Controller!Consumers
    BY IsaAssumption DEF Controller!Consumers
  <2>2. Controller!IdleChannel \in Controller!Channel
    BY <2>1, ZeroIsWord
       DEF Controller!IdleChannel, Controller!Channel, Controller!ControllerState
  <2>3. /\ consumer_read \in [Controller!Consumers -> Controller!ReadPort]
        /\ consumer_write \in [Controller!Consumers -> Controller!WritePort]
    BY LaneIndices, ZeroIsWord
       DEF Init, Controller!ReadPort, Controller!WritePort
  <2> QED
    BY <2>2, <2>3, ZeroIsWord
       DEF Init, Controller!ControllerInit, Controller!ControllerTypeOK
<1> QED
  BY <1>1, <1>2, <1>3, <1>4, <1>5 DEF TypeInv

LEMMA SchedulerStepType ==
  ASSUME WarpInv, LaneInv, SchedulerStep
  PROVE  /\ warp_state' \in [Warps -> WarpState]
         /\ pc' \in [Warps -> Word] /\ current_warp' \in Warps
         /\ vector_to_scalar_data' \in [Warps -> Word]
         /\ running' = running /\ done' \in BOOLEAN
<1>1. AfterCurrent \in WarpState
  BY CurrentType DEF AfterCurrent, AfterExecute, WarpState
<1>2. warp_state' \in [Warps -> WarpState]
  <2> SUFFICES ASSUME NEW w \in Warps
               PROVE  warp_state'[w] \in WarpState
    BY DEF SchedulerStep
  <2>1. warp_state'[w] \in {"DECODE", AfterCurrent, warp_state[w]}
    BY DEF SchedulerStep
  <2> QED
    BY <1>1, <2>1 DEF WarpInv, WarpState
<1>3. pc' \in [Warps -> Word]
  BY ResolvedNextPcType DEF SchedulerStep, WarpInv
<1>4. current_warp' \in Warps
  BY NextWarpType DEF SchedulerStep, WarpInv
<1>5. vector_to_scalar_data' \in [Warps -> Word]
  BY ComparisonType, ZeroIsWord DEF SchedulerStep, WarpInv
<1> QED
  BY <1>2, <1>3, <1>4, <1>5 DEF SchedulerStep

(***************************************************************************)
(* What a step of the core does to the types, the scheduler aside.         *)
(***************************************************************************)
LEMMA WarpStepType ==
  ASSUME TypeInv, NEW fetching, FetcherStep(fetching), DecodeStep, RegisterStep
  PROVE  /\ fetcher_state' \in [Warps -> {"IDLE", "FETCHING", "DONE"}]
         /\ fetched' \in [Warps -> Instruction]
         /\ \A w \in Warps : DecodedOK(decoded'[w])
         /\ registers' \in [Warps -> RegisterFiles]
         /\ operand' \in [Warps -> [Lanes -> OperandPair]]
<1>1. fetcher_state' \in [Warps -> {"IDLE", "FETCHING", "DONE"}]
  <2> SUFFICES ASSUME NEW w \in Warps
               PROVE  fetcher_state'[w] \in {"IDLE", "FETCHING", "DONE"}
    BY DEF FetcherStep
  <2>1. fetcher_state'[w] \in {"FETCHING", "DONE", "IDLE", fetcher_state[w]}
    BY DEF FetcherStep
  <2> QED
    BY <2>1 DEF TypeInv, WarpInv
<1>2. fetched' \in [Warps -> Instruction]
  <2>1. program \in [Word -> Instruction]
    BY CoreMemoryAssumption DEF TypeInv, CoreInv
  <2>2. \A w \in Warps : pc[w] \in Word
    BY DEF TypeInv, WarpInv
  <2> QED
    BY <2>1, <2>2 DEF FetcherStep, TypeInv, WarpInv
<1>3. \A w \in Warps : DecodedOK(decoded'[w])
  <2> SUFFICES ASSUME NEW w \in Warps PROVE DecodedOK(decoded'[w])
    OBVIOUS
  <2>1. DecodedOK(decoded[w]) /\ fetched[w] \in Instruction
    BY DEF TypeInv, WarpInv
  <2>2. DecodedOK(Decode(fetched[w], decoded[w]))
    BY <2>1, DecodeType DEF DecodedOK
  <2>3. decoded'[w] \in {Decode(fetched[w], decoded[w]), decoded[w]}
    BY DEF DecodeStep
  <2> QED
    BY <2>1, <2>2, <2>3
<1> QED
  BY <1>1, <1>2, <1>3, RegisterStepType DEF TypeInv

LEMMA LaneStepType ==
  ASSUME TypeInv, AluStep, FpuStep, LsuStep
  PROVE  LaneInv'
<1>1. alu' \in [Lanes -> [inputs : AluInputs, result : Word]]
  BY AluNextType DEF AluStep, TypeInv
<1>2. fpu' \in [Lanes -> Word \X Word \X Word \X Word]
  BY FpuStepType DEF TypeInv
<1>3. lsu' \in [Lanes -> LsuRegisters]
  <2>1. \A l \in Lanes : LsuNext(l) \in LsuRegisters /\ lsu[l] \in LsuRegisters
    BY LsuNextType DEF TypeInv, LaneInv
  <2> QED
    BY <2>1 DEF LsuStep
<1> QED
  BY <1>1, <1>2, <1>3 DEF LaneInv

LEMMA EdgeType ==
  ASSUME TypeInv, NEW fetching, NEW answering, Edge(fetching, answering)
  PROVE  TypeInv'
<1>1. /\ consumer_read_ready' \in SUBSET Controller!Consumers
      /\ consumer_read_data' \in [Controller!Consumers -> Word]
      /\ consumer_write_ready' \in SUBSET Controller!Consumers
      /\ channel' \in [Controller!Channels -> Controller!Channel]
      /\ channel_serving_consumer' \in SUBSET Controller!Consumers
  <2>1. ReadData \in [Ctl!Channels -> Word]
    BY SameSearch
       DEF TypeInv, CoreInv, ReadData, Controller!ControllerTypeOK,
           Controller!Channel
  <2>2. Ctl!ControllerTypeOK
    BY SameTypes DEF TypeInv
  <2>3. Ctl!ControllerStep(answering, ReadData, answering)
    BY SameStep DEF Edge
  <2> QED
    BY <2>1, <2>2, <2>3, SameSearch, ControllerAssumptions,
       Ctl!ControllerStepType
<1>2. /\ consumer_read' \in [Controller!Consumers -> Controller!ReadPort]
      /\ consumer_write' \in [Controller!Consumers -> Controller!WritePort]
      /\ ready' \in [Lanes -> SUBSET {"read", "write"}]
      /\ answer' \in [Lanes -> Word]
  <2>1. \A l \in Lanes : lsu[l].address \in Word /\ lsu[l].data \in Word
    BY DEF TypeInv, LaneInv, LsuRegisters
  <2>2. consumer_read_data \in [Lanes -> Word]
    BY LaneIndices DEF TypeInv, Controller!ControllerTypeOK
  <2> QED
    BY <2>1, <2>2, LaneIndices
       DEF Edge, LinkStep, Controller!ReadPort, Controller!WritePort
<1>3. Controller!ControllerTypeOK'
  BY <1>1, <1>2 DEF Controller!ControllerTypeOK
<1>4. memory' \in [Word -> Word]
  BY <1>1, MemoryEdgeType DEF Edge, TypeInv, CoreInv
<1>5. BlockInv'
  <2>1. blocks_done \in 0 .. NUM_BLOCKS - 1 /\ NUM_BLOCKS \in Nat
    BY CoreMemoryAssumption DEF TypeInv, BlockInv
  <2>2. CASE core_reset
    <3>1. blocks_done < NUM_BLOCKS - 1 /\ blocks_done' = blocks_done + 1
      BY <2>2 DEF TypeInv, BlockInv, Edge
    <3>2. core_reset' = FALSE
      BY <2>2 DEF Edge
    <3>3. blocks_done' \in 0 .. NUM_BLOCKS - 1
      BY <2>1, <3>1
    <3> QED
      BY <3>2, <3>3 DEF BlockInv
  <2>3. CASE ~core_reset
    <3>1. blocks_done' = blocks_done /\ core_reset' = done
      BY <2>3 DEF Edge, TypeInv, CoreInv
    <3>2. done => blocks_done # NUM_BLOCKS - 1
      BY <2>3 DEF Edge, Finished
    <3>3. core_reset' \in BOOLEAN
      BY <3>1 DEF TypeInv, CoreInv
    <3>4. core_reset' => blocks_done' < NUM_BLOCKS - 1
      <4> SUFFICES ASSUME core_reset' PROVE blocks_done < NUM_BLOCKS - 1
        BY <3>1
      <4>1. blocks_done # NUM_BLOCKS - 1
        BY <3>1, <3>2
      <4> QED
        BY <2>1, <4>1
    <3> QED
      BY <2>1, <3>1, <3>3, <3>4 DEF BlockInv
  <2> QED
    BY <2>2, <2>3
<1>6. CASE core_reset
  <2>1. ResetStep
    BY <1>6 DEF Edge
  <2>2. CoreInv'
    BY <1>2, <1>4, <2>1 DEF ResetStep, TypeInv, CoreInv
  <2>3. \A w \in Warps : DecodedOK(decoded'[w])
    BY <2>1, DecoderResetType DEF ResetStep, TypeInv, WarpInv, DecodedOK
  <2>4. WarpInv'
    BY <2>1, <2>3, ResetTypes, ZeroIsWord, BlankType, IsaAssumption
       DEF ResetStep, TypeInv, WarpInv, WarpState, Warps
  <2>5. alu' \in [Lanes -> [inputs : AluInputs, result : Word]]
    <3>1. \A l \in Lanes : AluNext(l) \in [inputs : AluInputs, result : Word]
      BY AluNextType DEF TypeInv
    <3> QED
      BY <2>1, <3>1, ResetTypes DEF ResetStep
  <2>6. LaneInv'
    BY <2>1, <2>5, ResetTypes, FpuStepType DEF ResetStep, LaneInv, TypeInv
  <2> QED
    BY <1>3, <1>5, <2>2, <2>4, <2>6 DEF TypeInv
<1>7. CASE ~core_reset
  <2>1. CoreEdge(fetching)
    BY <1>7 DEF Edge
  <2>2. committed' \in [Word -> Word] /\ program' = program
    BY <1>4, <2>1 DEF CoreEdge, Commit, TypeInv, CoreInv
  <2>3. LaneInv'
    BY <2>1, LaneStepType DEF CoreEdge
  <2>4. /\ fetcher_state' \in [Warps -> {"IDLE", "FETCHING", "DONE"}]
        /\ fetched' \in [Warps -> Instruction]
        /\ \A w \in Warps : DecodedOK(decoded'[w])
        /\ registers' \in [Warps -> RegisterFiles]
        /\ operand' \in [Warps -> [Lanes -> OperandPair]]
    BY <2>1, WarpStepType DEF CoreEdge
  <2>5. /\ warp_state' \in [Warps -> WarpState]
        /\ pc' \in [Warps -> Word] /\ current_warp' \in Warps
        /\ vector_to_scalar_data' \in [Warps -> Word]
        /\ running' \in BOOLEAN /\ done' \in BOOLEAN
    <3>1. CASE running
      <4>1. SchedulerStep
        BY <2>1, <3>1 DEF CoreEdge
      <4> QED
        BY <4>1, SchedulerStepType DEF TypeInv, CoreInv
    <3>2. CASE ~running
      <4>1. StartStep
        BY <2>1, <3>2 DEF CoreEdge
      <4>2. 0 \in Warps
        BY IsaAssumption DEF Warps
      <4> QED
        BY <4>1, <4>2, ZeroIsWord
           DEF StartStep, TypeInv, CoreInv, WarpInv, WarpState
    <3> QED
      BY <3>1, <3>2
  <2>6. CoreInv' /\ WarpInv'
    BY <1>2, <1>4, <2>2, <2>4, <2>5 DEF TypeInv, CoreInv, WarpInv
  <2> QED
    BY <1>3, <1>5, <2>3, <2>6 DEF TypeInv
<1> QED
  BY <1>6, <1>7

LEMMA TypeStep == TypeInv /\ [Next]_allVars => TypeInv'
<1>1. TypeInv /\ Next => TypeInv'
  BY EdgeType DEF Next
<1>2. TypeInv /\ UNCHANGED allVars => TypeInv'
  BY DEF allVars, vars, memoryVars, schedulerVars, warpVars, laneVars, linkVars,
         Controller!controllerVars, TypeInv, CoreInv, WarpInv, LaneInv,
         BlockInv, Controller!ControllerTypeOK
<1> QED
  BY <1>1, <1>2

LEMMA TypesHold == Spec => []TypeInv
  BY InitType, TypeStep, PTL DEF Spec

(***************************************************************************)
(* Every register of core, links and controller keeps its range, whatever  *)
(* the program, the number of warps and the answers of the memory; no      *)
(* block is run beyond the last one.                                       *)
(***************************************************************************)
THEOREM TypeCorrect == Spec => []TypeOK
<1>1. TypeInv => TypeOK
  BY DEF TypeInv, CoreInv, WarpInv, LaneInv, BlockInv, TypeOK, CoreTypeOK,
         DecodedOK, RegisterFiles, FileOK, LsuRegisters
<1> QED
  BY <1>1, TypesHold, PTL

-----------------------------------------------------------------------------
(***************************************************************************)
(* One warp behind channels whose ready inputs move together.  The life of *)
(* a request, lane by lane: what the LSU asks for, what the link carries,  *)
(* what the channels (which act as one) do for the lane, and the ready     *)
(* that is on its way back.                                                *)
(***************************************************************************)
CommonReady == AnswerSets \subseteq {{}, Controller!Channels}

Sends(l, kind) == /\ consumer_read[l].valid <=> kind = "read"
                  /\ consumer_write[l].valid <=> kind = "write"

Place(l) == IF channel[0].current_consumer = l THEN channel[0].state ELSE "IDLE"

Waiting(kind) == IF kind = "read" THEN "READ_WAITING" ELSE "WRITE_WAITING"
Relaying(kind) == IF kind = "read" THEN "READ_RELAYING" ELSE "WRITE_RELAYING"

At(l, valid, link, place, answered) ==
  /\ lsu[l].valid = valid /\ Sends(l, link)
  /\ Place(l) = place /\ ready[l] = answered

Silent(l) == At(l, "none", "none", "IDLE", {})

Asked(l, kind) == At(l, kind, "none", "IDLE", {})
Sent(l, kind) == At(l, kind, kind, "IDLE", {})
Served(l, kind) == At(l, kind, kind, Waiting(kind), {})
Relayed(l, kind) == At(l, kind, kind, Relaying(kind), {})
Reached(l, kind) == At(l, kind, kind, Relaying(kind), {kind})
Taken(l, kind) == At(l, "none", kind, Relaying(kind), {kind})
Dropped(l, kind) == At(l, "none", "none", Relaying(kind), {kind})
Released(l, kind) == At(l, "none", "none", "IDLE", {kind})

Pending(l, kind) == \/ Asked(l, kind) \/ Sent(l, kind) \/ Served(l, kind)
                    \/ Relayed(l, kind) \/ Reached(l, kind)

(***************************************************************************)
(* How far the requests of an instruction are when the warp is in one of   *)
(* its states: those after WAIT give a lane the three edges that it takes  *)
(* until nothing of its request is left.                                   *)
(***************************************************************************)
Using(l) == LaneEnabled(l) /\ (current.load \/ current.store)

Stage(l, kind) ==
  \/ /\ currentState = "REG_WAIT"
     /\ lsu[l].state = "REQUESTING" /\ Silent(l)
  \/ /\ currentState = "WAIT"
     /\ lsu[l].state = "WAITING" /\ Pending(l, kind)
  \/ /\ currentState = "WAIT" /\ lsu[l].state = "DONE"
     /\ Taken(l, kind) \/ Dropped(l, kind) \/ Released(l, kind) \/ Silent(l)
  \/ /\ currentState = "EXECUTE" /\ lsu[l].state = "DONE"
     /\ Dropped(l, kind) \/ Released(l, kind) \/ Silent(l)
  \/ /\ currentState = "INT_ALU_WAIT" /\ lsu[l].state = "DONE"
     /\ Released(l, kind) \/ Silent(l)
  \/ /\ currentState = "UPDATE" /\ lsu[l].state = "DONE" /\ Silent(l)

Working == {"REG_WAIT", "WAIT", "EXECUTE", "INT_ALU_WAIT", "ALU_WAIT", "UPDATE"}

LaneStage(l) ==
  \/ /\ currentState \notin Working \/ ~Using(l)
     /\ lsu[l].state = "IDLE" /\ Silent(l)
  \/ /\ currentState \in Working /\ Using(l)
     /\ \E kind \in {"read", "write"} : Kind = kind /\ Stage(l, kind)

Control ==
  /\ ~running => currentState = "IDLE" /\ ~done
  /\ done => currentState = "DONE"
  /\ core_reset => done
  /\ current.load \/ current.store => current.alu = "ADDI"

HandshakeInv ==
  /\ TypeInv /\ Control
  /\ Controller!Lockstep /\ Controller!MarkAgrees(channel[0])
  /\ \A l \in Lanes : LaneStage(l)

(***************************************************************************)
(* What the channels do for a lane at an edge, by what its link carries.   *)
(***************************************************************************)
PlaceStep(l) ==
  /\ Place(l) = "IDLE" /\ Sends(l, "none") => Place(l)' = "IDLE"
  /\ \A kind \in {"read", "write"} :
       /\ Place(l) = "IDLE" /\ Sends(l, kind) =>
            Place(l)' \in {"IDLE", Waiting(kind)}
       /\ Place(l) = Waiting(kind) =>
            Place(l)' \in {Waiting(kind), Relaying(kind)}
       /\ Place(l) = Relaying(kind) /\ Sends(l, kind) =>
            Place(l)' = Relaying(kind)
       /\ Place(l) = Relaying(kind) /\ Sends(l, "none") => Place(l)' = "IDLE"

LEMMA SameAgreement ==
  /\ Controller!Lockstep <=> Ctl!Lockstep
  /\ Controller!MarkAgrees(channel[0]) <=> Ctl!MarkAgrees(channel[0])
  BY Zenon DEF Controller!Lockstep, Ctl!Lockstep, Controller!MarkAgrees,
               Ctl!MarkAgrees, Controller!Channels, Ctl!Channels

(***************************************************************************)
(* The channels act as one, which takes one of five steps.                 *)
(***************************************************************************)
LEMMA ControllerCases ==
  ASSUME CommonReady, TypeInv,
         Controller!Lockstep, Controller!MarkAgrees(channel[0]),
         NEW fetching, NEW answering \in AnswerSets, Edge(fetching, answering)
  PROVE  LET c == channel[0]
         IN  /\ 0 \in Controller!Channels /\ c \in Controller!Channel
             /\ c.current_consumer \in Lanes
             /\ \/ Ctl!Accepting(c)
                \/ Ctl!RelayingRead(c, answering, memory[c.mem_read_address])
                \/ Ctl!RelayingWrite(c, answering)
                \/ Ctl!Releasing(c)
                \/ Ctl!Holding(c, answering, answering)
<1> DEFINE c == channel[0]
           word == memory[c.mem_read_address]
<1>1. /\ 0 \in Ctl!Channels
      /\ c \in Controller!Channel
      /\ Ctl!ControllerTypeOK /\ Ctl!Lockstep /\ Ctl!MarkAgrees(c)
  BY ControllerAssumptions, SameSearch, SameTypes, SameAgreement, Ctl!SomeChannel
     DEF TypeInv, Controller!ControllerTypeOK
<1>2. answering \in {{}, Ctl!Channels}
  BY SameSearch DEF CommonReady
<1>3. word \in Word /\ \A i \in Ctl!Channels : ReadData[i] = word
  BY <1>1, SameSearch
     DEF ReadData, Ctl!Lockstep, TypeInv, CoreInv, Controller!Channel
<1>4. Ctl!ControllerStep(answering, ReadData, answering)
  BY SameStep DEF Edge
<1>5. \/ Ctl!Accepting(c)
      \/ Ctl!RelayingRead(c, answering, word)
      \/ Ctl!RelayingWrite(c, answering)
      \/ Ctl!Releasing(c)
      \/ Ctl!Holding(c, answering, answering)
  <2> HIDE DEF word
  <2> QED
    BY <1>1, <1>2, <1>3, <1>4, ControllerAssumptions, Ctl!LockstepStep
<1>6. c.current_consumer \in Lanes
  BY <1>1, LaneIndices DEF Controller!Channel
<1> QED
  BY <1>1, <1>5, <1>6, SameSearch

LEMMA ControllerEdge ==
  ASSUME CommonReady, TypeInv,
         Controller!Lockstep, Controller!MarkAgrees(channel[0]),
         NEW fetching, NEW answering \in AnswerSets, Edge(fetching, answering)
  PROVE  /\ Controller!Lockstep' /\ Controller!MarkAgrees(channel[0])'
         /\ \A l \in Lanes : PlaceStep(l)
<1> DEFINE c == channel[0]
           word == memory[c.mem_read_address]
<1>1. /\ 0 \in Ctl!Channels
      /\ c \in Controller!Channel
      /\ Ctl!ControllerTypeOK /\ Ctl!Lockstep /\ Ctl!MarkAgrees(c)
  BY ControllerAssumptions, SameSearch, SameTypes, SameAgreement, Ctl!SomeChannel
     DEF TypeInv, Controller!ControllerTypeOK
<1>5. \/ Ctl!Accepting(c)
      \/ Ctl!RelayingRead(c, answering, word)
      \/ Ctl!RelayingWrite(c, answering)
      \/ Ctl!Releasing(c)
      \/ Ctl!Holding(c, answering, answering)
  BY ControllerCases
<1>6. Ctl!Lockstep'
  BY <1>1, <1>5 DEF Ctl!Lockstep, Ctl!Accepting, Ctl!RelayingRead,
                    Ctl!RelayingWrite, Ctl!Releasing, Ctl!Holding, Ctl!Become,
                    Ctl!controllerVars
<1>7. /\ c.current_consumer \in Lanes
      /\ c.state \in {"IDLE", "READ_WAITING", "WRITE_WAITING",
                      "READ_RELAYING", "WRITE_RELAYING"}
  BY <1>1, LaneIndices DEF Controller!Channel, Controller!ControllerState
<1>8. Ctl!MarkAgrees(channel[0])' /\ \A l \in Lanes : PlaceStep(l)
  <2> USE <1>1, <1>7 DEF Ctl!MarkAgrees, Ctl!Become, PlaceStep, Place, Sends,
                         Waiting, Relaying, Controller!Channel
  <2>1. CASE Ctl!Accepting(c)
    <3> DEFINE j == Ctl!FirstRequest
    <3>1. j \in Ctl!Requests
      BY <2>1, ControllerAssumptions, Ctl!FirstRequestFound DEF Ctl!Accepting
    <3>2. consumer_read[j].valid \/ consumer_write[j].valid
      BY <3>1 DEF Ctl!Requests
    <3>3. /\ channel'[0].current_consumer = j
          /\ channel'[0].state = IF consumer_read[j].valid THEN "READ_WAITING"
                                                           ELSE "WRITE_WAITING"
      BY <2>1 DEF Ctl!Accepting, Ctl!Accepted
    <3>4. /\ c.state = "IDLE" /\ channel_serving_consumer' = {j}
          /\ consumer_read_ready' = {} /\ consumer_write_ready' = {}
      BY <2>1 DEF Ctl!Accepting
    <3> HIDE DEF j
    <3> QED
      BY <3>2, <3>3, <3>4
  <2>2. CASE Ctl!RelayingRead(c, answering, word)
    BY <2>2 DEF Ctl!RelayingRead
  <2>3. CASE Ctl!RelayingWrite(c, answering)
    BY <2>3 DEF Ctl!RelayingWrite
  <2>4. CASE Ctl!Releasing(c)
    BY <2>4 DEF Ctl!Releasing
  <2>5. CASE Ctl!Holding(c, answering, answering)
    BY <2>5 DEF Ctl!Holding, Ctl!controllerVars
  <2> QED
    BY <1>5, <2>1, <2>2, <2>3, <2>4, <2>5
<1> QED
  BY <1>6, <1>8, SameAgreement, SameSearch
     DEF Controller!Lockstep, Ctl!Lockstep, Controller!MarkAgrees, Ctl!MarkAgrees

(***************************************************************************)
(* What the link registers hold after an edge.                             *)
(***************************************************************************)
LinkStepped(l) ==
  /\ \A kind \in {"none", "read", "write"} :
       lsu[l].valid = kind => Sends(l, kind)'
  /\ \A kind \in {"read", "write"} :
       /\ Place(l) \in {"IDLE", Waiting(kind)} => ready'[l] = {}
       /\ Place(l) = Relaying(kind) => ready'[l] = {kind}

LEMMA LinkEdge ==
  ASSUME TypeInv, Controller!MarkAgrees(channel[0]), LinkStep, NEW l \in Lanes
  PROVE  LinkStepped(l)
<1>1. \A kind \in {"none", "read", "write"} :
        lsu[l].valid = kind => Sends(l, kind)'
  BY DEF LinkStep, Sends
<1>2. ready'[l] = {kind \in {"read", "write"} :
                     l \in IF kind = "read" THEN consumer_read_ready
                                            ELSE consumer_write_ready}
  BY DEF LinkStep
<1>3. /\ l \in consumer_read_ready <=> Place(l) = "READ_RELAYING"
      /\ l \in consumer_write_ready <=> Place(l) = "WRITE_RELAYING"
  BY DEF Controller!MarkAgrees, Place
<1> QED
  BY <1>1, <1>2, <1>3 DEF LinkStepped, Waiting, Relaying

(***************************************************************************)
(* A request goes from stage to stage; the LSU decides when it is raised   *)
(* and, once the answer has reached it, dropped.                           *)
(***************************************************************************)
LEMMA StageStep ==
  ASSUME NEW l \in Lanes, NEW kind \in {"read", "write"},
         PlaceStep(l), LinkStepped(l)
  PROVE  /\ lsu'[l].valid = "none" =>
              /\ Silent(l) => Silent(l)'
              /\ Reached(l, kind) => Taken(l, kind)'
              /\ Taken(l, kind) => Dropped(l, kind)'
              /\ Dropped(l, kind) => Released(l, kind)'
              /\ Released(l, kind) => Silent(l)'
         /\ lsu'[l].valid = kind =>
              /\ Silent(l) => Asked(l, kind)'
              /\ Pending(l, kind) /\ kind \notin ready[l] => Pending(l, kind)'
<1> USE DEF At, Silent, Asked, Sent, Served, Relayed, Reached, Taken, Dropped,
            Released, Pending
<1>1. /\ Waiting(kind) # "IDLE" /\ Relaying(kind) # "IDLE"
      /\ Waiting(kind) # Relaying(kind)
  BY DEF Waiting, Relaying
<1>2. /\ Place(l) = "IDLE" => ready'[l] = {}
      /\ Place(l) = Waiting(kind) => ready'[l] = {}
      /\ Place(l) = Relaying(kind) => ready'[l] = {kind}
      /\ lsu[l].valid = "none" => Sends(l, "none")'
      /\ lsu[l].valid = kind => Sends(l, kind)'
  BY DEF LinkStepped
<1>3. /\ Place(l) = "IDLE" /\ Sends(l, "none") => Place(l)' = "IDLE"
      /\ Place(l) = "IDLE" /\ Sends(l, kind) => Place(l)' \in {"IDLE", Waiting(kind)}
      /\ Place(l) = Waiting(kind) => Place(l)' \in {Waiting(kind), Relaying(kind)}
      /\ Place(l) = Relaying(kind) /\ Sends(l, kind) => Place(l)' = Relaying(kind)
      /\ Place(l) = Relaying(kind) /\ Sends(l, "none") => Place(l)' = "IDLE"
  BY DEF PlaceStep
<1>4. ASSUME lsu'[l].valid = "none"
      PROVE  /\ Silent(l) => Silent(l)'
             /\ Reached(l, kind) => Taken(l, kind)'
             /\ Taken(l, kind) => Dropped(l, kind)'
             /\ Dropped(l, kind) => Released(l, kind)'
             /\ Released(l, kind) => Silent(l)'
  BY <1>1, <1>2, <1>3, <1>4
<1>5. ASSUME lsu'[l].valid = kind
      PROVE  /\ Silent(l) => Asked(l, kind)'
             /\ Pending(l, kind) /\ kind \notin ready[l] => Pending(l, kind)'
  BY <1>1, <1>2, <1>3, <1>5
<1> QED
  BY <1>4, <1>5

-----------------------------------------------------------------------------
(***************************************************************************)
(* The only warp.  Its instruction stays decoded, and its mask stays, from *)
(* REQUEST to UPDATE.                                                      *)
(***************************************************************************)
LEMMA OneWarp ==
  ASSUME NUM_WARPS = 1, TypeInv
  PROVE  /\ Warps = {0} /\ current_warp = 0
         /\ currentState = warp_state[0] /\ current = decoded[0]
<1>1. Warps = {0}
  BY DEF Warps
<1> QED
  BY <1>1 DEF TypeInv, WarpInv, currentState, current

LEMMA Steady ==
  ASSUME NUM_WARPS = 1, TypeInv, TypeInv', DecodeStep, RegisterStep
  PROVE  /\ currentState # "DECODE" => current' = current
         /\ currentState # "UPDATE" => registers' = registers
         /\ currentState \notin {"DECODE", "UPDATE"} =>
              /\ Kind' = Kind
              /\ \A l \in Lanes : /\ LaneEnabled(l)' <=> LaneEnabled(l)
                                  /\ Using(l)' <=> Using(l)
<1>1. /\ Warps = {0} /\ current_warp = 0 /\ current_warp' = 0
      /\ currentState = warp_state[0] /\ current = decoded[0]
      /\ current' = decoded'[0]
  BY OneWarp, IsaAssumption DEF Warps, TypeInv, WarpInv, current
<1>2. currentState # "DECODE" => current' = current
  BY <1>1 DEF DecodeStep
<1>3. ASSUME currentState # "UPDATE" PROVE registers' = registers
  <2> DEFINE file == registers[0]
  <2>1. \A l \in Lanes : ~Written(l)
    BY <1>3 DEF Written
  <2>2. /\ file \in [Lanes -> UNION {[Stored(l) -> Word] : l \in Lanes}]
        /\ \A l \in Lanes : file[l] \in [Stored(l) -> Word]
    BY <1>1 DEF TypeInv, WarpInv, RegisterFiles, FileOK
  <2>3. \A l \in Lanes : [r \in Stored(l) |->
                            IF Written(l) /\ r = current.rd THEN WrittenValue(l)
                            ELSE file[l][r]] = file[l]
    BY <2>1, <2>2
  <2>4. [l \in Lanes |-> [r \in Stored(l) |->
                            IF Written(l) /\ r = current.rd THEN WrittenValue(l)
                            ELSE file[l][r]]] = file
    BY <2>2, <2>3
  <2>5. registers' = [registers EXCEPT ![0] = file]
    BY <1>1, <2>4 DEF RegisterStep
  <2> QED
    BY <2>5 DEF TypeInv, WarpInv
<1>4. ASSUME currentState \notin {"DECODE", "UPDATE"}
      PROVE  /\ Kind' = Kind
             /\ \A l \in Lanes : /\ LaneEnabled(l)' <=> LaneEnabled(l)
                                 /\ Using(l)' <=> Using(l)
  <2>1. current' = current /\ registers' = registers
    BY <1>2, <1>3, <1>4
  <2> QED
    BY <1>1, <2>1 DEF Kind, LaneEnabled, Using
<1> QED
  BY <1>2, <1>3, <1>4

(***************************************************************************)
(* Where the warp goes.                                                    *)
(***************************************************************************)
WarpStep ==
  /\ ~running => currentState' = "FETCH"
  /\ running =>
       /\ currentState \in {"IDLE", "DONE"} => currentState' = currentState
       /\ currentState = "FETCH" => currentState' \in {"FETCH", "DECODE"}
       /\ currentState = "DECODE" => currentState' = "REQUEST"
       /\ currentState = "REQUEST" => currentState' = "REG_WAIT"
       /\ currentState = "REG_WAIT" => currentState' = "WAIT"
       /\ currentState = "WAIT" =>
            currentState' = IF AnyLsuWaiting THEN "WAIT" ELSE "EXECUTE"
       /\ currentState = "EXECUTE" => currentState' = AfterExecute
       /\ currentState \in {"INT_ALU_WAIT", "ALU_WAIT"} =>
            currentState' = "UPDATE"
       /\ currentState = "UPDATE" =>
            currentState' = IF current.halt THEN "DONE" ELSE "FETCH"

LEMMA WarpEdge ==
  ASSUME NUM_WARPS = 1, TypeInv, TypeInv', NEW fetching, CoreEdge(fetching)
  PROVE  WarpStep
<1>1. /\ Warps = {0} /\ current_warp = 0 /\ current_warp' = 0
      /\ currentState = warp_state[0] /\ currentState' = warp_state'[0]
  BY OneWarp, IsaAssumption DEF Warps, TypeInv, WarpInv, currentState
<1>2. CASE ~running
  BY <1>1, <1>2 DEF CoreEdge, StartStep, WarpStep
<1>3. CASE running
  <2>1. warp_state'[0] = IF Fetched(0) THEN "DECODE" ELSE AfterCurrent
    BY <1>1, <1>3 DEF CoreEdge, SchedulerStep
  <2>2. Fetched(0) => currentState = "FETCH"
    BY <1>1 DEF Fetched
  <2>3. ~Fetched(0) => currentState' = AfterCurrent
    BY <1>1, <2>1
  <2>4. currentState # "FETCH" => currentState' = AfterCurrent
    BY <2>2, <2>3
  <2>5. currentState = "FETCH" => currentState' \in {"FETCH", "DECODE"}
    BY <1>1, <2>1 DEF AfterCurrent
  <2> QED
    BY <1>3, <2>4, <2>5 DEF WarpStep, AfterCurrent
<1> QED
  BY <1>2, <1>3

(***************************************************************************)
(* An edge takes every lane from a stage to a stage that fits the state    *)
(* the warp is in by then.                                                 *)
(***************************************************************************)
LEMMA ResetLane ==
  ASSUME NUM_WARPS = 1, TypeInv, TypeInv', Control, ResetStep, core_reset,
         NEW l \in Lanes, LaneStage(l), PlaceStep(l), LinkStepped(l)
  PROVE  LaneStage(l)'
<1>1. currentState = "DONE"
  BY DEF Control
<1>2. Silent(l)
  BY <1>1 DEF LaneStage, Working
<1>3. lsu'[l].valid = "none" /\ lsu'[l].state = "IDLE"
  BY DEF ResetStep, IdleLsu
<1>4. Silent(l)'
  BY <1>2, <1>3, StageStep
<1>5. currentState' = "IDLE"
  BY OneWarp, IsaAssumption DEF ResetStep, TypeInv, WarpInv, currentState
<1> QED
  BY <1>3, <1>4, <1>5 DEF LaneStage, Working

LEMMA CoreLane ==
  ASSUME NUM_WARPS = 1, TypeInv, TypeInv', Control,
         NEW fetching, CoreEdge(fetching),
         \A k \in Lanes : LaneStage(k),
         NEW l \in Lanes, PlaceStep(l), LinkStepped(l)
  PROVE  LaneStage(l)'
<1>1. WarpStep /\ LaneStage(l)
  BY WarpEdge
<1>2. /\ currentState \in WarpState
      /\ lsu[l].state \in {"IDLE", "REQUESTING", "WAITING", "DONE"}
  BY CurrentType DEF TypeInv, LaneInv, LsuRegisters
<1>3. lsu'[l] = IF Using(l) THEN LsuNext(l) ELSE lsu[l]
  BY DEF CoreEdge, LsuStep, Using
<1>4. /\ currentState # "DECODE" => current' = current
      /\ currentState \notin {"DECODE", "UPDATE"} =>
           Kind' = Kind /\ (Using(l)' <=> Using(l))
  BY Steady DEF CoreEdge
<1>5. PICK kind \in {"read", "write"} : Kind = kind
  BY DEF Kind
<1>6. CASE ~Using(l) \/ currentState \in {"IDLE", "FETCH", "DECODE", "DONE"}
  <2>1. lsu[l].state = "IDLE" /\ Silent(l)
    BY <1>1, <1>6 DEF LaneStage, Working
  <2>2. lsu'[l] = lsu[l]
    BY <1>3, <1>6, <2>1 DEF LsuNext
  <2>3. lsu'[l].state = "IDLE" /\ Silent(l)'
    BY <2>1, <2>2, StageStep DEF Silent, At
  <2>4. currentState' \notin Working \/ ~Using(l)'
    <3>1. CASE currentState \in {"IDLE", "FETCH", "DECODE", "DONE"}
      BY <1>1, <3>1 DEF WarpStep, Working, Control
    <3>2. CASE currentState = "UPDATE"
      BY <1>1, <3>2 DEF WarpStep, Working, Control
    <3>3. CASE ~Using(l) /\ currentState \notin {"DECODE", "UPDATE"}
      BY <1>4, <3>3
    <3> QED
      BY <1>6, <3>1, <3>2, <3>3
  <2> QED
    BY <2>3, <2>4 DEF LaneStage
<1>7. CASE Using(l) /\ currentState \in Working \cup {"REQUEST"}
  <2>1. running
    BY <1>7 DEF Control, Working
  <2>2. lsu'[l] = LsuNext(l)
    BY <1>3, <1>7
  <2>3. currentState # "REQUEST" => Stage(l, kind)
    BY <1>1, <1>5, <1>7 DEF LaneStage
  <2>4. ASSUME currentState # "UPDATE"
        PROVE  /\ Kind' = kind /\ Using(l)'
               /\ currentState' \in Working /\ Stage(l, kind)' => LaneStage(l)'
    BY <1>4, <1>5, <1>7, <2>4 DEF LaneStage, Working
  <2>5. lsu[l] \in LsuRegisters
    BY DEF TypeInv, LaneInv
  <2>6. CASE currentState = "REQUEST"
    <3>1. lsu[l].state = "IDLE" /\ Silent(l)
      BY <1>1, <2>6 DEF LaneStage, Working
    <3>2. lsu'[l].state = "REQUESTING" /\ lsu'[l].valid = lsu[l].valid
      BY <2>2, <2>5, <2>6, <3>1 DEF LsuNext, LsuRegisters
    <3>3. Silent(l)'
      BY <3>1, <3>2, StageStep DEF Silent, At
    <3>4. currentState' = "REG_WAIT"
      BY <1>1, <2>1, <2>6 DEF WarpStep
    <3> QED
      BY <2>4, <2>6, <3>2, <3>3, <3>4 DEF Stage, Working
  <2>7. CASE currentState = "REG_WAIT"
    <3>1. lsu[l].state = "REQUESTING" /\ Silent(l)
      BY <2>3, <2>7 DEF Stage
    <3>2. lsu'[l].state = "WAITING" /\ lsu'[l].valid = kind
      BY <1>5, <2>2, <2>5, <3>1 DEF LsuNext, LsuRegisters
    <3>3. Asked(l, kind)'
      BY <3>1, <3>2, StageStep
    <3>4. currentState' = "WAIT"
      BY <1>1, <2>1, <2>7 DEF WarpStep
    <3> QED
      BY <2>4, <2>7, <3>2, <3>3, <3>4 DEF Stage, Pending, Working
  <2>8. CASE currentState = "WAIT"
    <3>1. CASE lsu[l].state = "WAITING"
      <4>1. currentState' = "WAIT"
        BY <1>1, <2>1, <2>8, <3>1 DEF WarpStep, AnyLsuWaiting
      <4>2. Pending(l, kind) /\ lsu[l].valid = kind
        BY <2>3, <2>8, <3>1 DEF Stage, Pending, Asked, Sent, Served, Relayed,
                                Reached, At
      <4>3. CASE kind \notin ready[l]
        <5>1. lsu'[l] = lsu[l]
          BY <1>5, <2>2, <2>8, <3>1, <4>3 DEF LsuNext
        <5>2. Pending(l, kind)'
          BY <4>2, <4>3, <5>1, StageStep
        <5> QED
          BY <2>4, <2>8, <3>1, <4>1, <5>1, <5>2 DEF Stage, Working
      <4>4. CASE kind \in ready[l]
        <5>1. lsu'[l].state = "DONE" /\ lsu'[l].valid = "none"
          BY <1>5, <2>2, <2>5, <3>1, <4>2, <4>4 DEF LsuNext, LsuRegisters
        <5>2. Reached(l, kind)
          BY <4>2, <4>4 DEF Pending, Asked, Sent, Served, Relayed, At
        <5>3. Taken(l, kind)'
          BY <5>1, <5>2, StageStep
        <5> QED
          BY <2>4, <2>8, <4>1, <5>1, <5>3 DEF Stage, Working
      <4> QED
        BY <4>3, <4>4
    <3>2. CASE lsu[l].state = "DONE"
      <4>1. /\ Taken(l, kind) \/ Dropped(l, kind) \/ Released(l, kind) \/ Silent(l)
            /\ lsu[l].valid = "none"
        BY <2>3, <2>8, <3>2 DEF Stage, Taken, Dropped, Released, Silent, At
      <4>2. lsu'[l] = lsu[l]
        BY <2>2, <2>8, <3>2 DEF LsuNext
      <4>3. Dropped(l, kind)' \/ Released(l, kind)' \/ Silent(l)'
        BY <4>1, <4>2, StageStep
      <4>4. currentState' \in {"WAIT", "EXECUTE"}
        BY <1>1, <2>1, <2>8 DEF WarpStep
      <4> QED
        BY <2>4, <2>8, <3>2, <4>2, <4>3, <4>4 DEF Stage, Working
    <3> QED
      BY <2>3, <2>8, <3>1, <3>2 DEF Stage
  <2>9. CASE currentState = "EXECUTE"
    <3>1. /\ Dropped(l, kind) \/ Released(l, kind) \/ Silent(l)
          /\ lsu[l].state = "DONE" /\ lsu[l].valid = "none"
      BY <2>3, <2>9 DEF Stage, Dropped, Released, Silent, At
    <3>2. lsu'[l] = lsu[l]
      BY <2>2, <2>9, <3>1 DEF LsuNext
    <3>3. Released(l, kind)' \/ Silent(l)'
      BY <3>1, <3>2, StageStep
    <3>4. current.alu = "ADDI"
      BY <1>7 DEF Control, Using
    <3>5. currentState' = "INT_ALU_WAIT"
      BY <1>1, <2>1, <2>9, <3>4 DEF WarpStep, AfterExecute, Floating, RegularInt
    <3> QED
      BY <2>4, <2>9, <3>1, <3>2, <3>3, <3>5 DEF Stage, Working
  <2>10. CASE currentState = "INT_ALU_WAIT"
    <3>1. /\ Released(l, kind) \/ Silent(l)
          /\ lsu[l].state = "DONE" /\ lsu[l].valid = "none"
      BY <2>3, <2>10 DEF Stage, Released, Silent, At
    <3>2. lsu'[l] = lsu[l]
      BY <2>2, <2>10, <3>1 DEF LsuNext
    <3>3. Silent(l)'
      BY <3>1, <3>2, StageStep
    <3>4. currentState' = "UPDATE"
      BY <1>1, <2>1, <2>10 DEF WarpStep
    <3> QED
      BY <2>4, <2>10, <3>1, <3>2, <3>3, <3>4 DEF Stage, Working
  <2>11. CASE currentState = "UPDATE"
    <3>1. lsu[l].state = "DONE" /\ Silent(l) /\ lsu[l].valid = "none"
      BY <2>3, <2>11 DEF Stage, Silent, At
    <3>2. lsu'[l].state = "IDLE" /\ lsu'[l].valid = "none"
      BY <2>2, <2>5, <2>11, <3>1 DEF LsuNext, LsuRegisters
    <3>3. Silent(l)'
      BY <3>1, <3>2, StageStep
    <3>4. currentState' \in {"DONE", "FETCH"}
      BY <1>1, <2>1, <2>11 DEF WarpStep
    <3> QED
      BY <3>2, <3>3, <3>4 DEF LaneStage, Working
  <2>12. currentState # "ALU_WAIT"
    BY <2>3 DEF Stage
  <2> QED
    BY <1>7, <2>6, <2>7, <2>8, <2>9, <2>10, <2>11, <2>12 DEF Working
<1> QED
  BY <1>2, <1>6, <1>7 DEF WarpState, Working

LEMMA ControlStep ==
  ASSUME NUM_WARPS = 1, TypeInv, TypeInv', Control,
         NEW fetching, NEW answering, Edge(fetching, answering)
  PROVE  Control'
<1>1. /\ Warps = {0} /\ current_warp' = 0
      /\ currentState = warp_state[0] /\ currentState' = warp_state'[0]
      /\ current' = decoded'[0]
  BY OneWarp, IsaAssumption
     DEF Warps, TypeInv, WarpInv, currentState, current
<1>2. core_reset' => done
  BY DEF Edge
<1>3. CASE core_reset
  <2>1. ResetStep /\ ~core_reset'
    BY <1>3 DEF Edge
  <2>2. currentState' = "IDLE" /\ ~done'
    BY <1>1, <2>1 DEF ResetStep
  <2>3. ~current'.load /\ ~current'.store
    BY <1>1, <2>1 DEF ResetStep, DecoderReset, Decode, Blank
  <2> QED
    BY <2>1, <2>2, <2>3 DEF Control
<1>4. CASE ~core_reset
  <2>1. CoreEdge(fetching)
    BY <1>4 DEF Edge
  <2>2. WarpStep
    BY <2>1, WarpEdge
  <2>3. running'
    BY <2>1 DEF CoreEdge, StartStep, SchedulerStep
  <2>4. done' => currentState' = "DONE"
    <3>1. CASE running
      BY <1>1, <2>1, <2>2, <3>1 DEF CoreEdge, SchedulerStep, WarpStep
    <3>2. CASE ~running
      BY <2>1, <3>2 DEF CoreEdge, StartStep, Control
    <3> QED
      BY <3>1, <3>2
  <2>5. core_reset' => done'
    BY <1>1, <1>2, <2>1 DEF CoreEdge, SchedulerStep, Control
  <2>6. current'.load \/ current'.store => current'.alu = "ADDI"
    <3>1. CASE currentState = "DECODE"
      <4>1. current' = Decode(fetched[0], decoded[0])
        BY <1>1, <2>1, <3>1 DEF CoreEdge, DecodeStep
      <4> QED
        BY <4>1 DEF Decode, AluOf
    <3>2. CASE currentState # "DECODE"
      BY <2>1, <3>2, Steady DEF CoreEdge, Control
    <3> QED
      BY <3>1, <3>2
  <2> QED
    BY <2>3, <2>4, <2>5, <2>6 DEF Control
<1> QED
  BY <1>3, <1>4

LEMMA HandshakeInit == ASSUME NUM_WARPS = 1, Init PROVE HandshakeInv
<1>1. TypeInv
  BY InitType
<1>2. /\ currentState = "IDLE" /\ decoded[0] = current
      /\ \E kept \in Kept : current = DecoderReset(kept)
  BY <1>1, OneWarp DEF Init, CoreReset
<1>3. ~current.load /\ ~current.store
  BY <1>2 DEF DecoderReset, Decode, Blank
<1>4. Control
  BY <1>2, <1>3 DEF Init, CoreReset, Control
<1>5. Controller!Lockstep /\ Controller!MarkAgrees(channel[0])
  BY ControllerAssumptions, SameSearch, Ctl!SomeChannel
     DEF Init, Controller!ControllerInit, Controller!IdleChannel,
         Controller!Lockstep, Controller!MarkAgrees
<1>6. ASSUME NEW l \in Lanes PROVE LaneStage(l)
  <2>1. Place(l) = "IDLE"
    BY ControllerAssumptions, SameSearch, Ctl!SomeChannel
       DEF Init, Controller!ControllerInit, Controller!IdleChannel, Place
  <2>2. lsu[l].state = "IDLE" /\ lsu[l].valid = "none"
    BY DEF Init, CoreReset, IdleLsu
  <2>3. ready[l] = {} /\ Sends(l, "none")
    BY DEF Init, Sends
  <2> QED
    BY <1>2, <2>1, <2>2, <2>3 DEF LaneStage, Silent, At, Working
<1> QED
  BY <1>1, <1>4, <1>5, <1>6 DEF HandshakeInv

LEMMA HandshakeStep ==
  ASSUME NUM_WARPS = 1, CommonReady, HandshakeInv, [Next]_allVars
  PROVE  HandshakeInv'
<1>1. TypeInv /\ TypeInv'
  BY TypeStep DEF HandshakeInv
<1>2. CASE Next
  <2>1. PICK fetching \in SUBSET Fetching, answering \in AnswerSets :
          Edge(fetching, answering)
    BY <1>2 DEF Next
  <2>2. /\ Controller!Lockstep' /\ Controller!MarkAgrees(channel[0])'
        /\ \A l \in Lanes : PlaceStep(l)
    BY <2>1, ControllerEdge DEF HandshakeInv
  <2>3. Control'
    BY <1>1, <2>1, ControlStep DEF HandshakeInv
  <2>4. ASSUME NEW l \in Lanes PROVE LaneStage(l)'
    <3>1. LinkStepped(l)
      BY <1>1, <2>1, LinkEdge DEF HandshakeInv, Edge
    <3>2. CASE core_reset
      BY <1>1, <2>1, <2>2, <3>1, <3>2, ResetLane DEF HandshakeInv, Edge
    <3>3. CASE ~core_reset
      BY <1>1, <2>1, <2>2, <3>1, <3>3, CoreLane DEF HandshakeInv, Edge
    <3> QED
      BY <3>2, <3>3
  <2> QED
    BY <1>1, <2>2, <2>3, <2>4 DEF HandshakeInv
<1>3. CASE UNCHANGED allVars
  <2>1. \A l \in Lanes : LaneStage(l)' <=> LaneStage(l)
    BY <1>3
       DEF allVars, vars, memoryVars, schedulerVars, warpVars, laneVars,
           linkVars, Controller!controllerVars, LaneStage, Stage, Pending,
           Asked, Sent, Served, Relayed, Reached, Taken, Dropped, Released,
           Silent, At, Sends, Place, Using, LaneEnabled, Kind, current,
           currentState
  <2>2. Control' <=> Control
    BY <1>3
       DEF allVars, vars, memoryVars, schedulerVars, warpVars, laneVars,
           Control, current, currentState
  <2>3. /\ Controller!Lockstep' <=> Controller!Lockstep
        /\ Controller!MarkAgrees(channel[0])' <=> Controller!MarkAgrees(channel[0])
    BY <1>3 DEF allVars, Controller!controllerVars, Controller!Lockstep,
                Controller!MarkAgrees
  <2> QED
    BY <1>1, <2>1, <2>2, <2>3 DEF HandshakeInv
<1> QED
  BY <1>2, <1>3

(***************************************************************************)
(* In a core of one warp behind channels with a common ready, nothing is   *)
(* left of a lane's last request when its load-store unit raises the next  *)
(* one, and when the core is reset: every request goes through the stages  *)
(* above, and the states after WAIT are as many edges as its end takes.    *)
(***************************************************************************)
LEMMA HandshakesHold ==
  ASSUME NUM_WARPS = 1, CommonReady PROVE Spec => []HandshakeInv
<1>1. Init => HandshakeInv
  BY HandshakeInit
<1>2. HandshakeInv /\ [Next]_allVars => HandshakeInv'
  BY HandshakeStep
<1> QED
  BY <1>1, <1>2, PTL DEF Spec

LEMMA SilentIsQuiet ==
  ASSUME HandshakeInv, NEW l \in Lanes, Silent(l)
  PROVE  lsu[l].valid = "none" /\ Quiet(l)
<1>1. 0 \in Controller!Channels
  BY ControllerAssumptions, SameSearch, Ctl!SomeChannel
<1>2. \A i \in Controller!Channels : channel[i] = channel[0]
  BY <1>1 DEF HandshakeInv, Controller!Lockstep
<1>3. channel[0].current_consumer = l => channel[0].state = "IDLE"
  BY DEF Silent, At, Place
<1>4. l \notin consumer_read_ready \cup consumer_write_ready
        \cup channel_serving_consumer
  BY <1>3 DEF HandshakeInv, Controller!MarkAgrees
<1> QED
  BY <1>2, <1>3, <1>4 DEF Silent, At, Sends, Quiet

(***************************************************************************)
(* When a load-store unit raises a request, its links carry nothing, no    *)
(* channel serves its lane and no ready is on its way: the answer that it  *)
(* waits for cannot be the one to its last request (gpu.sv 213-226).       *)
(***************************************************************************)
THEOREM AnswersStayFresh ==
  ASSUME NUM_WARPS = 1, CommonReady PROVE Spec => []AnswersFresh
<1>1. HandshakeInv => AnswersFresh
  <2> SUFFICES ASSUME HandshakeInv, NEW l \in Lanes,
                      lsu[l].state = "REQUESTING"
               PROVE  Quiet(l)
    BY DEF AnswersFresh
  <2>1. Silent(l)
    BY DEF HandshakeInv, LaneStage, Stage
  <2> QED
    BY <2>1, SilentIsQuiet
<1> QED
  BY <1>1, HandshakesHold, PTL

(***************************************************************************)
(* A core that the dispatcher resets has no request on its way, so that    *)
(* no channel is left serving a lane of the block that has ended.          *)
(***************************************************************************)
THEOREM NothingCrossesReset ==
  ASSUME NUM_WARPS = 1, CommonReady PROVE Spec => []ResetsQuietly
<1>1. HandshakeInv => ResetsQuietly
  <2> SUFFICES ASSUME HandshakeInv, core_reset, NEW l \in Lanes
               PROVE  lsu[l].valid = "none" /\ Quiet(l)
    BY DEF ResetsQuietly
  <2>1. currentState = "DONE"
    BY DEF HandshakeInv, Control
  <2>2. Silent(l)
    BY <2>1 DEF HandshakeInv, LaneStage, Working
  <2> QED
    BY <2>2, SilentIsQuiet
<1> QED
  BY <1>1, HandshakesHold, PTL

-----------------------------------------------------------------------------
(***************************************************************************)
(* The instruction set is implemented by a core of one warp behind         *)
(* channels with a common ready, for every program that keeps clear of two *)
(* flaws: seqi is executed by no ALU, and a lui behind a jump jumps again, *)
(* because the decoder still has the jump in alu.                          *)
(***************************************************************************)
Executable(p) ==
  /\ \A a \in Word : p[a].op # "seqi"
  /\ (\E a \in Word : p[a].op = "lui") =>
       "JAL" \notin Kept /\ \A a \in Word : p[a].op # "jal"

-----------------------------------------------------------------------------
(***************************************************************************)
(* The instruction at pc on its way through the core.                      *)
(***************************************************************************)
instruction == program[pc[0]]

Rs1(l) == Contents(registers[0], 0, l, current.rs1)
Rs2(l) == Contents(registers[0], 0, l, current.rs2)
RequestAddress(l) == (Rs1(l) + current.imm) % M

FetchInv ==
  /\ running \/ pc[0] = 0
  /\ currentState \notin {"FETCH", "DECODE"} => fetcher_state[0] = "IDLE"
  /\ currentState = "DECODE" => fetcher_state[0] = "DONE"
  /\ fetcher_state[0] = "DONE" => fetched[0] = instruction

DecodeInv ==
  /\ currentState \in {"REQUEST"} \cup Working =>
       current = Decode(instruction, current)
  /\ (\E a \in Word : program[a].op = "lui") => current.alu # "JAL"

Inputs(l) == [alu |-> current.alu, rs1 |-> Rs1(l), rs2 |-> Rs2(l),
              imm |-> current.imm, pc |-> pc[0]]

OperandInv ==
  currentState \in Working =>
    \A l \in Lanes : Reads(l) =>
      Operands(l).rs1 = Rs1(l) /\ Operands(l).rs2 = Rs2(l)

AluInv ==
  \A l \in Lanes : AluEnabled(l) =>
    /\ currentState \in Working \ {"REG_WAIT"} => alu[l].inputs = Inputs(l)
    /\ currentState \in Working \ {"REG_WAIT", "WAIT"} =>
         alu[l].result = AluResult(Inputs(l))

Sum(l) == (Rs1(l) + Rs2(l)) % M

FpuInv ==
  /\ currentState = "INT_ALU_WAIT" => current.alu \notin Floating
  /\ currentState = "ALU_WAIT" => current.alu \in Floating
  /\ current.alu \in Floating => \A l \in Lanes : Reads(l) =>
       /\ currentState \in {"WAIT", "EXECUTE", "ALU_WAIT", "UPDATE"} =>
            fpu[l][1] = Sum(l)
       /\ currentState \in {"EXECUTE", "ALU_WAIT", "UPDATE"} => fpu[l][2] = Sum(l)
       /\ currentState \in {"ALU_WAIT", "UPDATE"} => fpu[l][3] = Sum(l)
       /\ currentState = "UPDATE" => fpu[l][4] = Sum(l)

ComparisonInv ==
  currentState \in {"INT_ALU_WAIT", "UPDATE"} /\ instruction.op = "sx" =>
    vector_to_scalar_data[0] \in Programmer!Comparisons(0, instruction)

-----------------------------------------------------------------------------
(***************************************************************************)
(* Requests carry the operands, and answers the words of before the        *)
(* instruction.                                                            *)
(***************************************************************************)
RequestInv(l) ==
  /\ lsu[l].state \in {"WAITING", "DONE"} =>
       /\ lsu[l].address = RequestAddress(l)
       /\ current.store => lsu[l].data = Rs2(l)
  /\ consumer_read[l].valid => consumer_read[l].address = lsu[l].address
  /\ consumer_write[l].valid => /\ consumer_write[l].address = lsu[l].address
                                /\ consumer_write[l].data = lsu[l].data
  /\ lsu[l].state = "DONE" /\ current.load => lsu[l].out = committed[lsu[l].address]

ChannelInv(l) ==
  /\ Place(l) = "READ_WAITING" => channel[0].mem_read_address = lsu[l].address
  /\ Place(l) = "WRITE_WAITING" =>
       /\ channel[0].mem_write_address = lsu[l].address
       /\ channel[0].mem_write_data = lsu[l].data
  /\ Place(l) = "READ_RELAYING" =>
       /\ consumer_read_data[l] = committed[lsu[l].address]
       /\ ready[l] # {} => answer[l] = committed[lsu[l].address]

WritesWhileWaiting ==
  channel[0].mem_write_valid <=> channel[0].state = "WRITE_WAITING"

(***************************************************************************)
(* The memory is that of before the instruction with the stores that have  *)
(* been performed so far.                                                  *)
(***************************************************************************)
Performed(a) == {l \in Lanes : /\ current.store
                               /\ lsu[l].state = "DONE" \/ Place(l) # "IDLE"
                               /\ lsu[l].address = a}

MemoryInv ==
  \A a \in Word : memory[a] \in IF Performed(a) = {} THEN {committed[a]}
                                ELSE {lsu[l].data : l \in Performed(a)}

ExecutionInv ==
  /\ HandshakeInv
  /\ FetchInv /\ DecodeInv /\ OperandInv /\ AluInv /\ FpuInv /\ ComparisonInv
  /\ \A l \in Lanes : RequestInv(l) /\ ChannelInv(l)
  /\ WritesWhileWaiting /\ MemoryInv

-----------------------------------------------------------------------------
(***************************************************************************)
(* While the warp works on an instruction, everything that the instruction *)
(* depends on stays.                                                       *)
(***************************************************************************)
Unchanged ==
  /\ current' = current /\ registers' = registers /\ pc' = pc
  /\ program' = program /\ instruction' = instruction
  /\ \A l \in Lanes : /\ Rs1(l)' = Rs1(l) /\ Rs2(l)' = Rs2(l)
                      /\ Reads(l)' <=> Reads(l)
                      /\ LaneEnabled(l)' <=> LaneEnabled(l)
                      /\ AluEnabled(l)' <=> AluEnabled(l)

LEMMA Staying ==
  ASSUME NUM_WARPS = 1, TypeInv, TypeInv', Control,
         NEW fetching, CoreEdge(fetching),
         currentState \notin {"IDLE", "DECODE", "UPDATE"}
  PROVE  Unchanged
<1>1. /\ Warps = {0} /\ current_warp = 0 /\ current_warp' = 0
      /\ currentState = warp_state[0] /\ currentState' = warp_state'[0]
  BY OneWarp, IsaAssumption DEF Warps, TypeInv, WarpInv, currentState
<1>2. current' = current /\ registers' = registers
  BY Steady DEF CoreEdge
<1>3. running
  BY DEF Control
<1>4. pc' = pc /\ program' = program
  BY <1>3 DEF CoreEdge, SchedulerStep, Commit
<1>5. instruction' = instruction
  BY <1>4 DEF instruction
<1>6. ASSUME NEW l \in Lanes
      PROVE  /\ Rs1(l)' = Rs1(l) /\ Rs2(l)' = Rs2(l)
             /\ Reads(l)' <=> Reads(l)
             /\ LaneEnabled(l)' <=> LaneEnabled(l)
             /\ AluEnabled(l)' <=> AluEnabled(l)
  BY <1>1, <1>2 DEF Rs1, Rs2, Reads, LaneEnabled, AluEnabled
<1> QED
  BY <1>2, <1>4, <1>5, <1>6 DEF Unchanged

LEMMA WorksOn ==
  ASSUME NUM_WARPS = 1, TypeInv, TypeInv', Control,
         NEW fetching, CoreEdge(fetching), currentState' \in Working
  PROVE  /\ currentState \in {"REQUEST"} \cup (Working \ {"UPDATE"})
         /\ currentState' = "REG_WAIT" <=> currentState = "REQUEST"
         /\ currentState' = "WAIT" <=>
              \/ currentState = "REG_WAIT"
              \/ currentState = "WAIT" /\ AnyLsuWaiting
         /\ currentState' = "EXECUTE" <=> currentState = "WAIT" /\ ~AnyLsuWaiting
         /\ currentState' = "ALU_WAIT" <=>
              currentState = "EXECUTE" /\ current.alu \in Floating
         /\ currentState' = "INT_ALU_WAIT" =>
              currentState = "EXECUTE" /\ current.alu \notin Floating
         /\ currentState' = "UPDATE" =>
              currentState \in {"EXECUTE", "ALU_WAIT", "INT_ALU_WAIT"}
         /\ currentState' = "UPDATE" /\ currentState = "EXECUTE" =>
              /\ current.alu \notin Floating \cup RegularInt \cup {"JAL"}
              /\ ~current.branch
<1>1. WarpStep /\ currentState \in WarpState
  BY WarpEdge, CurrentType DEF TypeInv
<1>2. running
  <2> SUFFICES ASSUME ~running PROVE FALSE
    OBVIOUS
  <2> QED
    BY <1>1 DEF WarpStep, Working
<1>3. currentState = "EXECUTE" => currentState' = AfterExecute
  BY <1>1, <1>2 DEF WarpStep
<1>4. CASE currentState = "EXECUTE"
  <2>1. CASE current.alu \in Floating
    <3>1. currentState' = "ALU_WAIT"
      BY <1>3, <1>4, <2>1 DEF AfterExecute
    <3> QED
      BY <1>4, <2>1, <3>1 DEF Working
  <2>2. CASE /\ current.alu \notin Floating
             /\ current.alu \in RegularInt \/ current.branch \/ current.alu = "JAL"
    <3>1. currentState' = "INT_ALU_WAIT"
      BY <1>3, <1>4, <2>2 DEF AfterExecute
    <3> QED
      BY <1>4, <2>2, <3>1 DEF Working
  <2>3. CASE /\ current.alu \notin Floating /\ current.alu \notin RegularInt
             /\ ~current.branch /\ current.alu # "JAL"
    <3>1. currentState' = "UPDATE"
      BY <1>3, <1>4, <2>3 DEF AfterExecute
    <3> QED
      BY <1>4, <2>3, <3>1 DEF Working
  <2> QED
    BY <2>1, <2>2, <2>3
<1>5. CASE currentState # "EXECUTE"
  <2>1. CASE currentState \in {"IDLE", "FETCH", "DECODE", "DONE"}
    BY <1>1, <1>2, <2>1 DEF WarpStep, Working
  <2>2. CASE currentState = "UPDATE"
    BY <1>1, <1>2, <2>2 DEF WarpStep, Working
  <2>3. CASE currentState \in {"REQUEST", "REG_WAIT"}
    <3>1. currentState' = IF currentState = "REQUEST" THEN "REG_WAIT" ELSE "WAIT"
      BY <1>1, <1>2, <2>3 DEF WarpStep
    <3> QED
      BY <2>3, <3>1 DEF Working
  <2>4. CASE currentState \in {"ALU_WAIT", "INT_ALU_WAIT"}
    <3>1. currentState' = "UPDATE"
      BY <1>1, <1>2, <2>4 DEF WarpStep
    <3> QED
      BY <2>4, <3>1 DEF Working
  <2>5. CASE currentState = "WAIT"
    BY <1>1, <1>2, <2>5 DEF WarpStep, Working
  <2> QED
    BY <1>1, <1>5, <2>1, <2>2, <2>3, <2>4, <2>5 DEF WarpState
<1> QED
  BY <1>4, <1>5

LEMMA OnlyWarp ==
  ASSUME NUM_WARPS = 1, TypeInv, TypeInv'
  PROVE  /\ Warps = {0} /\ current_warp = 0 /\ current_warp' = 0
         /\ currentState = warp_state[0] /\ currentState' = warp_state'[0]
         /\ current = decoded[0] /\ current' = decoded'[0]
  BY OneWarp, IsaAssumption
     DEF Warps, TypeInv, WarpInv, currentState, current

(***************************************************************************)
(* The fetcher ends with the instruction at pc, and is idle again before   *)
(* pc moves on.                                                            *)
(***************************************************************************)
LEMMA FetchKept ==
  ASSUME NUM_WARPS = 1, TypeInv, TypeInv', Control, FetchInv,
         NEW fetching, CoreEdge(fetching)
  PROVE  FetchInv'
<1>1. /\ Warps = {0} /\ current_warp = 0
      /\ currentState = warp_state[0] /\ currentState' = warp_state'[0]
  BY OnlyWarp
<1>2. WarpStep /\ currentState \in WarpState
  BY WarpEdge, CurrentType DEF TypeInv
<1>3. /\ fetcher_state'[0] =
           CASE fetcher_state[0] = "IDLE" /\ currentState = "FETCH" -> "FETCHING"
             [] fetcher_state[0] = "FETCHING" /\ 0 \in fetching -> "DONE"
             [] fetcher_state[0] = "DONE" /\ currentState = "DECODE" -> "IDLE"
             [] OTHER -> fetcher_state[0]
      /\ fetched'[0] = IF fetcher_state[0] = "FETCHING" /\ 0 \in fetching
                       THEN instruction ELSE fetched[0]
  BY <1>1 DEF CoreEdge, FetcherStep, instruction
<1>4. running' /\ program' = program
  BY DEF CoreEdge, StartStep, SchedulerStep, Commit
<1>5. fetcher_state[0] \in {"IDLE", "FETCHING", "DONE"}
  BY <1>1 DEF TypeInv, WarpInv
<1>6. CASE ~running
  <2>1. currentState = "IDLE" /\ currentState' = "FETCH"
    BY <1>2, <1>6 DEF Control, WarpStep
  <2>2. fetcher_state[0] = "IDLE" /\ fetcher_state'[0] = "IDLE"
    BY <1>3, <2>1 DEF FetchInv
  <2> QED
    BY <1>4, <2>1, <2>2 DEF FetchInv
<1>7. CASE running /\ currentState = "FETCH"
  <2>1. pc' = pc /\ instruction' = instruction
    BY <1>1, <1>4, <1>7 DEF CoreEdge, SchedulerStep, instruction
  <2>2. currentState' = IF fetcher_state[0] = "DONE" THEN "DECODE" ELSE "FETCH"
    BY <1>1, <1>7 DEF CoreEdge, SchedulerStep, Fetched, AfterCurrent
  <2>3. CASE fetcher_state[0] = "DONE"
    BY <1>3, <1>4, <1>7, <2>1, <2>2, <2>3 DEF FetchInv
  <2>4. CASE fetcher_state[0] # "DONE"
    BY <1>3, <1>4, <1>5, <1>7, <2>1, <2>2, <2>4 DEF FetchInv
  <2> QED
    BY <2>3, <2>4
<1>8. CASE running /\ currentState = "DECODE"
  <2>1. currentState' = "REQUEST"
    BY <1>2, <1>8 DEF WarpStep
  <2>2. fetcher_state'[0] = "IDLE"
    BY <1>3, <1>8 DEF FetchInv
  <2> QED
    BY <1>4, <2>1, <2>2 DEF FetchInv
<1>9. CASE running /\ currentState \notin {"FETCH", "DECODE"}
  <2>1. fetcher_state'[0] = "IDLE"
    BY <1>3, <1>9 DEF FetchInv
  <2>2. currentState' # "DECODE"
    <3>1. CASE currentState = "EXECUTE"
      BY <1>2, <1>9, <3>1 DEF WarpStep, AfterExecute
    <3>2. CASE currentState # "EXECUTE"
      BY <1>2, <1>9, <3>2 DEF WarpStep, WarpState
    <3> QED
      BY <3>1, <3>2
  <2> QED
    BY <1>4, <2>1, <2>2 DEF FetchInv
<1> QED
  BY <1>6, <1>7, <1>8, <1>9

(***************************************************************************)
(* The decoder holds the instruction at pc; what it keeps from before is   *)
(* at most the ALU operation.                                              *)
(***************************************************************************)
LEMMA DecodeAgain ==
  ASSUME NEW instr, NEW old
  PROVE  Decode(instr, Decode(instr, old)) = Decode(instr, old)
<1>1. Decode(instr, old).alu = IF instr.op \in {"lui", "exit"} THEN old.alu
                                                               ELSE AluOf(instr.op)
  BY DEF Decode
<1> QED
  BY <1>1 DEF Decode

LEMMA DecodeKept ==
  ASSUME NUM_WARPS = 1, \A p \in Programs : Executable(p),
         TypeInv, TypeInv', Control, FetchInv, DecodeInv,
         NEW fetching, CoreEdge(fetching)
  PROVE  DecodeInv'
<1>1. /\ Warps = {0} /\ current_warp = 0
      /\ currentState = warp_state[0] /\ currentState' = warp_state'[0]
      /\ current = decoded[0] /\ current' = decoded'[0]
  BY OnlyWarp
<1>2. WarpStep /\ currentState \in WarpState
  BY WarpEdge, CurrentType DEF TypeInv
<1>3. /\ currentState = "DECODE" => current' = Decode(fetched[0], current)
      /\ currentState # "DECODE" => current' = current
  BY <1>1 DEF CoreEdge, DecodeStep
<1>4. program' = program /\ program \in Programs
  BY DEF CoreEdge, Commit, TypeInv, CoreInv
<1>5. currentState = "DECODE" => fetched[0] = instruction
  BY DEF FetchInv
<1>6. ASSUME \E a \in Word : program[a].op = "lui" PROVE current'.alu # "JAL"
  <2>1. \A a \in Word : program[a].op # "jal"
    BY <1>4, <1>6 DEF Executable
  <2>2. instruction.op # "jal" /\ instruction.op \in Op
    <3>1. pc[0] \in Word /\ instruction \in Instruction
      BY <1>1, <1>4, CoreMemoryAssumption DEF TypeInv, WarpInv, instruction
    <3> QED
      BY <2>1, <3>1 DEF instruction, Instruction
  <2>3. CASE currentState = "DECODE"
    BY <1>3, <1>5, <1>6, <2>2, <2>3 DEF Decode, AluOf, DecodeInv, Op
  <2>4. CASE currentState # "DECODE"
    BY <1>3, <1>6, <2>4 DEF DecodeInv
  <2> QED
    BY <2>3, <2>4
<1>7. ASSUME currentState' \in {"REQUEST"} \cup Working
      PROVE  current' = Decode(instruction', current')
  <2>1. CASE currentState = "DECODE"
    <3>1. running
      BY <2>1 DEF Control
    <3>2. instruction' = instruction
      BY <1>1, <1>4, <2>1, <3>1 DEF CoreEdge, SchedulerStep, instruction
    <3> QED
      BY <1>3, <1>5, <2>1, <3>2, DecodeAgain
  <2>2. CASE currentState # "DECODE"
    <3>1. currentState' \in Working
      <4> SUFFICES ASSUME currentState' = "REQUEST" PROVE FALSE
        BY <1>7
      <4>1. CASE currentState = "EXECUTE"
        BY <1>2, <2>2, <4>1 DEF WarpStep, AfterExecute, Control
      <4>2. CASE currentState # "EXECUTE"
        BY <1>2, <2>2, <4>2 DEF WarpStep, WarpState
      <4> QED
        BY <4>1, <4>2
    <3>2. currentState \in {"REQUEST"} \cup (Working \ {"UPDATE"})
      BY <3>1, WorksOn
    <3>3. Unchanged
      BY <3>2, Staying DEF Working
    <3> QED
      BY <3>2, <3>3 DEF Unchanged, DecodeInv
  <2> QED
    BY <2>1, <2>2
<1> QED
  BY <1>4, <1>6, <1>7 DEF DecodeInv

(***************************************************************************)
(* The operands are those of the instruction from the second edge on, and  *)
(* each stage of a pipeline follows one edge behind the one before it.     *)
(***************************************************************************)
LEMMA OperandsKept ==
  ASSUME NUM_WARPS = 1, TypeInv, TypeInv', Control,
         NEW fetching, CoreEdge(fetching)
  PROVE  OperandInv'
<1> SUFFICES ASSUME currentState' \in Working, NEW l \in Lanes, Reads(l)'
             PROVE  Operands(l)'.rs1 = Rs1(l)' /\ Operands(l)'.rs2 = Rs2(l)'
  BY DEF OperandInv
<1>1. current_warp = 0 /\ current_warp' = 0 /\ Warps = {0}
  BY OnlyWarp
<1>2. Unchanged
  BY WorksOn, Staying DEF Working
<1>3. operand'[0][l] = [rs1 |-> Rs1(l), rs2 |-> Rs2(l)]
  BY <1>1, <1>2 DEF CoreEdge, RegisterStep, Unchanged, TypeInv, WarpInv, Rs1, Rs2
<1> QED
  BY <1>1, <1>2, <1>3 DEF Operands, Unchanged

LEMMA AluKept ==
  ASSUME NUM_WARPS = 1, TypeInv, TypeInv', Control, OperandInv, AluInv,
         NEW fetching, CoreEdge(fetching)
  PROVE  AluInv'
<1> SUFFICES ASSUME NEW l \in Lanes, AluEnabled(l)',
                    currentState' \in Working \ {"REG_WAIT"}
             PROVE  /\ alu'[l].inputs = Inputs(l)'
                    /\ currentState' # "WAIT" =>
                         alu'[l].result = AluResult(Inputs(l))'
  BY DEF AluInv
<1>1. /\ currentState \in Working \ {"UPDATE"}
      /\ currentState' # "WAIT" => currentState # "REG_WAIT"
  BY WorksOn DEF Working
<1>2. Unchanged
  BY <1>1, Staying DEF Working
<1>3. AluEnabled(l) /\ Reads(l)
  BY <1>2 DEF Unchanged, AluEnabled, LaneEnabled, Reads
<1>4. Operands(l).rs1 = Rs1(l) /\ Operands(l).rs2 = Rs2(l)
  BY <1>1, <1>3 DEF OperandInv
<1>5. Inputs(l)' = Inputs(l)
  BY <1>2 DEF Unchanged, Inputs
<1>6. alu'[l] = [inputs |-> Inputs(l), result |-> AluResult(alu[l].inputs)]
  BY <1>3, <1>4, OnlyWarp DEF CoreEdge, AluStep, AluNext, Inputs
<1>7. currentState # "REG_WAIT" => alu[l].inputs = Inputs(l)
  BY <1>1, <1>3 DEF AluInv
<1>8. AluResult(Inputs(l))' = AluResult(Inputs(l))
  BY <1>5 DEF AluResult
<1> QED
  BY <1>1, <1>5, <1>6, <1>7, <1>8

LEMMA FpuKept ==
  ASSUME NUM_WARPS = 1, TypeInv, TypeInv', Control, OperandInv, FpuInv,
         NEW fetching, CoreEdge(fetching)
  PROVE  FpuInv'
<1>1. ASSUME currentState' \in Working PROVE Unchanged
  BY <1>1, WorksOn, Staying DEF Working
<1>2. /\ currentState' = "INT_ALU_WAIT" => current'.alu \notin Floating
      /\ currentState' = "ALU_WAIT" => current'.alu \in Floating
  BY <1>1, WorksOn DEF Unchanged, Working
<1>3. ASSUME NEW l \in Lanes, Reads(l)', current'.alu \in Floating,
             currentState' \in {"WAIT", "EXECUTE", "ALU_WAIT", "UPDATE"}
      PROVE  /\ fpu'[l][1] = Sum(l)'
             /\ currentState' # "WAIT" => fpu'[l][2] = Sum(l)'
             /\ currentState' \in {"ALU_WAIT", "UPDATE"} => fpu'[l][3] = Sum(l)'
             /\ currentState' = "UPDATE" => fpu'[l][4] = Sum(l)'
  <2>1. Unchanged
    BY <1>1, <1>3 DEF Working
  <2>2. Reads(l) /\ current.alu \in Floating /\ Sum(l)' = Sum(l)
    BY <1>3, <2>1 DEF Unchanged, Sum
  <2>3. /\ currentState \in {"REG_WAIT", "WAIT", "EXECUTE", "ALU_WAIT"}
        /\ currentState' = "WAIT" \/ currentState # "REG_WAIT"
        /\ currentState' \in {"ALU_WAIT", "UPDATE"} =>
             currentState \in {"EXECUTE", "ALU_WAIT"}
        /\ currentState' = "UPDATE" => currentState = "ALU_WAIT"
    <3>1. currentState = "INT_ALU_WAIT" => FALSE
      BY <2>2 DEF FpuInv
    <3>2. currentState = "EXECUTE" => currentState' # "UPDATE"
      BY <2>2, WorksOn DEF Working
    <3> QED
      BY <1>3, <3>1, <3>2, WorksOn DEF Working
  <2>4. Operands(l).rs1 = Rs1(l) /\ Operands(l).rs2 = Rs2(l)
    BY <2>2, <2>3 DEF OperandInv, Working
  <2>5. fpu'[l] = <<Sum(l), fpu[l][1], fpu[l][2], fpu[l][3]>>
    BY <2>2, <2>4 DEF CoreEdge, FpuStep, FpuResult, Floating, Sum
  <2> QED
    BY <1>3, <2>2, <2>3, <2>5 DEF FpuInv
<1> QED
  BY <1>2, <1>3 DEF FpuInv

(***************************************************************************)
(* The instruction set is an instance with definitions of its own for what *)
(* core and instruction set share.                                         *)
(***************************************************************************)
LEMMA SameInstructions ==
  /\ Programmer!Warps = Warps /\ Programmer!Lanes = Lanes
  /\ Programmer!Scalar = Scalar /\ Programmer!Word = Word
  /\ Programmer!RegisterFile = RegisterFile
  /\ Programmer!Instruction = Instruction
  /\ \A l : Programmer!Stored(l) = Stored(l)
  /\ \A file : Programmer!Enabled(file) = Enabled(file)
  /\ \A word, i : Programmer!Bit(word, i) <=> Bit(word, i)
  /\ \A file, w, l, r : Programmer!Contents(file, w, l, r) = Contents(file, w, l, r)
  BY Zenon
     DEF Programmer!Warps, Warps, Programmer!Lanes, Lanes, Programmer!Scalar,
         Scalar, Programmer!Threads, Threads, Programmer!Word, Word,
         Programmer!Bit, Bit, Programmer!RegisterFile, RegisterFile,
         Programmer!Instruction, Instruction, Programmer!Op, Op,
         Programmer!Register, Register, Programmer!Stored, Stored,
         Programmer!Enabled, Enabled, Programmer!Contents, Contents

LEMMA ComparisonsMeaning ==
  Programmer!Comparisons(0, instruction) =
    {word \in 0 .. 2 ^ THREADS_PER_WARP - 1 :
       \A i \in Enabled(registers[0]) :
         Bit(word, i) <=> Contents(registers[0], 0, i, instruction.rs1)
                            < Contents(registers[0], 0, i, instruction.rs2)}
  BY SameInstructions
     DEF Programmer!Comparisons, Programmer!Active, Programmer!Less,
         Programmer!Read

(***************************************************************************)
(* sx.slt collects the results of the threads while the ALUs hold them.    *)
(***************************************************************************)
LEMMA ComparisonKept ==
  ASSUME NUM_WARPS = 1, TypeInv, TypeInv', Control, DecodeInv, AluInv, FpuInv,
         ComparisonInv, NEW fetching, CoreEdge(fetching)
  PROVE  ComparisonInv'
<1> SUFFICES ASSUME currentState' \in {"INT_ALU_WAIT", "UPDATE"},
                    instruction'.op = "sx"
             PROVE  vector_to_scalar_data'[0] \in
                      Programmer!Comparisons(0, instruction)'
  BY DEF ComparisonInv
<1>1. /\ Warps = {0} /\ current_warp = 0
      /\ currentState = warp_state[0] /\ current = decoded[0]
  BY OnlyWarp
<1>2. /\ currentState \in {"EXECUTE", "ALU_WAIT", "INT_ALU_WAIT"}
      /\ currentState' = "INT_ALU_WAIT" => currentState = "EXECUTE"
      /\ currentState' = "UPDATE" /\ currentState = "EXECUTE" =>
           current.alu \notin RegularInt
  BY WorksOn DEF Working
<1>3. Unchanged /\ running
  BY <1>2, Staying DEF Control
<1>4. Programmer!Comparisons(0, instruction)' = Programmer!Comparisons(0, instruction)
  BY <1>3 DEF Unchanged, Programmer!Comparisons, Programmer!Active,
              Programmer!Less, Programmer!Read
<1>5. /\ instruction.op = "sx"
      /\ current.alu = "SLT" /\ current.mux = "VECTOR_TO_SCALAR"
      /\ ~current.scalar
      /\ current.rs1 = instruction.rs1 /\ current.rs2 = instruction.rs2
  <2>1. instruction.op = "sx" /\ current = Decode(instruction, current)
    BY <1>2, <1>3 DEF Unchanged, DecodeInv, Working
  <2> QED
    BY <2>1 DEF Decode, AluOf, MuxOf
<1>6. CASE currentState = "EXECUTE"
  <2> DEFINE bits == {i \in Threads : VectorAluOut(i) % 2 = 1}
  <2>1. vector_to_scalar_data'[0] = WordOf(bits)
    BY <1>1, <1>3, <1>5, <1>6
       DEF CoreEdge, SchedulerStep, Comparison, TypeInv, WarpInv
  <2>2. /\ WordOf(bits) \in 0 .. 2 ^ THREADS_PER_WARP - 1
        /\ \A i \in Threads : Bit(WordOf(bits), i) <=> i \in bits
    BY WordOfType
  <2>3. ASSUME NEW i \in Enabled(registers[0])
        PROVE  i \in bits <=> Rs1(i) < Rs2(i)
    <3>1. i \in Threads /\ i \in Lanes /\ i # Scalar
      BY IsaAssumption DEF Enabled, Threads, Lanes, Scalar
    <3>2. AluEnabled(i)
      BY <1>1, <1>5, <3>1 DEF AluEnabled, LaneEnabled, RegularInt
    <3>3. alu[i].result = AluResult(Inputs(i))
      BY <1>6, <3>1, <3>2 DEF AluInv, Working
    <3>4. VectorAluOut(i) = IF Rs1(i) < Rs2(i) THEN 1 ELSE 0
      BY <1>5, <3>3 DEF VectorAluOut, RegularInt, AluResult, Inputs
    <3> QED
      BY <3>1, <3>4
  <2> HIDE DEF bits
  <2>4. \A i \in Enabled(registers[0]) :
          Bit(WordOf(bits), i) <=> Rs1(i) < Rs2(i)
    BY <2>2, <2>3 DEF Enabled
  <2> QED
    BY <1>4, <1>5, <2>1, <2>2, <2>4, ComparisonsMeaning DEF Rs1, Rs2
<1>7. CASE currentState # "EXECUTE"
  <2>1. currentState = "INT_ALU_WAIT"
    BY <1>2, <1>5, <1>7 DEF FpuInv, Floating
  <2>2. vector_to_scalar_data' = vector_to_scalar_data
    BY <1>3, <1>7 DEF CoreEdge, SchedulerStep
  <2> QED
    BY <1>4, <1>5, <2>1, <2>2 DEF ComparisonInv
<1> QED
  BY <1>6, <1>7

-----------------------------------------------------------------------------
(***************************************************************************)
(* What the stage of a lane says about its LSU and its channel.            *)
(***************************************************************************)
LaneFacts(l) ==
  /\ lsu[l].state = "REQUESTING" => currentState = "REG_WAIT" /\ Using(l)
  /\ lsu[l].state \in {"WAITING", "DONE"} =>
       currentState \in Working \ {"REG_WAIT"} /\ Using(l)
  /\ lsu[l].state = "WAITING" => currentState = "WAIT"
  /\ lsu[l].valid # "none" => lsu[l].state = "WAITING"
  /\ Place(l) # "IDLE" =>
       /\ lsu[l].state \in {"WAITING", "DONE"}
       /\ currentState \in Working \ {"REG_WAIT", "UPDATE"} /\ Using(l)
       /\ Kind = "read" => Place(l) \in {"READ_WAITING", "READ_RELAYING"}
       /\ Kind = "write" => Place(l) \in {"WRITE_WAITING", "WRITE_RELAYING"}
  /\ consumer_read[l].valid => lsu[l].state \in {"WAITING", "DONE"}
  /\ consumer_write[l].valid => lsu[l].state \in {"WAITING", "DONE"}
  /\ lsu[l].state = "WAITING" /\ Place(l) = Relaying(Kind) => Sends(l, Kind)
  /\ lsu[l].state = "WAITING" /\ ready[l] # {} => Place(l) = Relaying(Kind)

LEMMA StagesTell ==
  ASSUME HandshakeInv, NEW l \in Lanes PROVE LaneFacts(l)
<1>1. LaneStage(l)
  BY DEF HandshakeInv
<1> USE DEF At, Silent, Asked, Sent, Served, Relayed, Reached, Taken, Dropped,
            Released, Pending, LaneFacts
<1>2. CASE lsu[l].state = "IDLE" /\ Silent(l)
  BY <1>2 DEF Sends
<1>3. CASE /\ currentState \in Working /\ Using(l)
           /\ \E kind \in {"read", "write"} : Kind = kind /\ Stage(l, kind)
  <2>1. PICK kind \in {"read", "write"} : Kind = kind /\ Stage(l, kind)
    BY <1>3
  <2>2. CASE Silent(l) /\ (\/ currentState = "REG_WAIT" /\ lsu[l].state = "REQUESTING"
                           \/ currentState # "REG_WAIT" /\ lsu[l].state = "DONE")
    BY <1>3, <2>1, <2>2 DEF Sends
  <2>3. CASE currentState = "WAIT" /\ lsu[l].state = "WAITING" /\ Pending(l, kind)
    BY <1>3, <2>1, <2>3 DEF Sends, Waiting, Relaying, Working
  <2>4. CASE /\ currentState \in {"WAIT", "EXECUTE", "INT_ALU_WAIT"}
             /\ lsu[l].state = "DONE"
             /\ Taken(l, kind) \/ Dropped(l, kind) \/ Released(l, kind)
    BY <1>3, <2>1, <2>4 DEF Sends, Waiting, Relaying, Working
  <2> QED
    BY <2>1, <2>2, <2>3, <2>4 DEF Stage
<1> QED
  BY <1>1, <1>2, <1>3 DEF LaneStage

LEMMA LsuMoves ==
  ASSUME NUM_WARPS = 1, TypeInv, HandshakeInv, OperandInv,
         NEW fetching, CoreEdge(fetching), NEW l \in Lanes
  PROVE  /\ currentState # "REG_WAIT" =>
              lsu'[l].address = lsu[l].address /\ lsu'[l].data = lsu[l].data
         /\ currentState = "REG_WAIT" /\ Using(l) =>
              /\ lsu'[l].address = RequestAddress(l)
              /\ current.store => lsu'[l].data = Rs2(l)
         /\ lsu[l].state = "DONE" /\ currentState # "UPDATE" => lsu'[l] = lsu[l]
         /\ lsu[l].state = "WAITING" => lsu'[l].state \in {"WAITING", "DONE"}
         /\ lsu'[l].state = "DONE" /\ lsu[l].state # "DONE" =>
              /\ lsu[l].state = "WAITING" /\ Place(l) = Relaying(Kind)
              /\ Kind \in ready[l]
              /\ current.load => lsu'[l].out = answer[l]
<1>1. /\ lsu[l] \in LsuRegisters /\ LaneFacts(l) /\ LaneStage(l)
      /\ DecodedOK(current)
  BY StagesTell, CurrentType DEF TypeInv, LaneInv, HandshakeInv
<1>2. lsu'[l] = IF Using(l) THEN LsuNext(l) ELSE lsu[l]
  BY DEF CoreEdge, LsuStep, Using
<1>3. lsu[l].state \in {"IDLE", "REQUESTING", "WAITING", "DONE"}
  BY <1>1 DEF LsuRegisters
<1>4. CASE ~Using(l)
  BY <1>1, <1>2, <1>4 DEF LaneStage
<1>5. CASE Using(l) /\ lsu[l].state = "IDLE"
  <2>1. currentState # "REG_WAIT"
    BY <1>1, <1>5 DEF LaneStage, Stage, Working
  <2>2. LsuNext(l) \in {lsu[l], [lsu[l] EXCEPT !.state = "REQUESTING"]}
    BY <1>5 DEF LsuNext
  <2> QED
    BY <1>1, <1>2, <1>5, <2>1, <2>2 DEF LsuRegisters
<1>6. CASE Using(l) /\ lsu[l].state = "REQUESTING"
  <2>1. currentState = "REG_WAIT"
    BY <1>1, <1>6 DEF LaneFacts
  <2>2. Operands(l).rs1 = Rs1(l) /\ Operands(l).rs2 = Rs2(l)
    BY <1>6, <2>1 DEF OperandInv, Working, Using, LaneEnabled, Reads
  <2>3. LsuNext(l) =
          [lsu[l] EXCEPT !.state = "WAITING", !.valid = Kind,
                         !.address = (Operands(l).rs1 + current.imm) % M,
                         !.data = IF current.store THEN Operands(l).rs2 ELSE @]
    BY <1>6 DEF LsuNext
  <2>4. /\ lsu'[l].state = "WAITING"
        /\ lsu'[l].address = (Operands(l).rs1 + current.imm) % M
        /\ current.store => lsu'[l].data = Operands(l).rs2
    BY <1>1, <1>2, <1>6, <2>3 DEF LsuRegisters
  <2> QED
    BY <1>6, <2>1, <2>2, <2>4 DEF RequestAddress
<1>7. CASE Using(l) /\ lsu[l].state = "WAITING" /\ Kind \notin ready[l]
  <2>1. lsu'[l] = lsu[l] /\ currentState = "WAIT"
    BY <1>1, <1>2, <1>7 DEF LsuNext, LaneFacts
  <2> QED
    BY <1>7, <2>1
<1>8. CASE Using(l) /\ lsu[l].state = "WAITING" /\ Kind \in ready[l]
  <2>1. LsuNext(l) = [lsu[l] EXCEPT !.state = "DONE",
                        !.valid = IF @ = Kind THEN "none" ELSE @,
                        !.out = IF current.load THEN answer[l] ELSE @]
    BY <1>8 DEF LsuNext
  <2>2. currentState = "WAIT" /\ Place(l) = Relaying(Kind)
    BY <1>1, <1>8 DEF LaneFacts
  <2>3. /\ lsu'[l].address = lsu[l].address /\ lsu'[l].data = lsu[l].data
        /\ lsu'[l].state = "DONE" /\ current.load => lsu'[l].out = answer[l]
    BY <1>1, <1>2, <1>8, <2>1 DEF LsuRegisters
  <2>4. lsu'[l].state = "DONE"
    BY <1>1, <1>2, <1>8, <2>1 DEF LsuRegisters
  <2> QED
    BY <1>8, <2>2, <2>3, <2>4
<1>9. CASE Using(l) /\ lsu[l].state = "DONE"
  <2>1. currentState # "UPDATE" => lsu'[l] = lsu[l]
    BY <1>2, <1>9 DEF LsuNext
  <2>2. currentState # "REG_WAIT"
    BY <1>1, <1>9 DEF LaneFacts
  <2>3. currentState = "UPDATE" => lsu'[l] = [lsu[l] EXCEPT !.state = "IDLE"]
    BY <1>2, <1>9 DEF LsuNext
  <2> QED
    BY <1>1, <1>9, <2>1, <2>2, <2>3 DEF LsuRegisters
<1> QED
  BY <1>3, <1>4, <1>5, <1>6, <1>7, <1>8, <1>9

(***************************************************************************)
(* Requests carry the operands of their instruction.                       *)
(***************************************************************************)
LEMMA DecodedFields ==
  ASSUME NEW instr, NEW old, NEW d, d = Decode(instr, old)
  PROVE  /\ d.load <=> instr.op = "lw"
         /\ d.store <=> instr.op = "sw"
         /\ d.branch <=> instr.op = "beqz"
         /\ d.halt <=> instr.op = "exit"
         /\ d.write <=> instr.op \in {"addi", "fadd", "seqi", "lui", "lw", "sx"}
         /\ d.scalar <=> \/ instr.op \in {"beqz", "jal", "exit"}
                         \/ instr.op # "sx" /\ instr.scalar
<1>1. /\ d.load = (instr.op = "lw")
      /\ d.store = (instr.op = "sw")
      /\ d.branch = (instr.op = "beqz")
      /\ d.halt = (instr.op = "exit")
      /\ d.write = (instr.op \in {"addi", "fadd", "seqi", "lui", "lw", "sx"})
      /\ d.scalar = (\/ instr.op \in {"beqz", "jal", "exit"}
                     \/ instr.op # "sx" /\ instr.scalar)
  BY Zenon DEF Decode
<1> QED
  BY <1>1, Zenon

LEMMA LoadOrStore ==
  ASSUME DecodeInv, currentState \in Working
  PROVE  /\ ~(current.load /\ current.store)
         /\ current.load <=> instruction.op = "lw"
         /\ current.store <=> instruction.op = "sw"
<1>1. current = Decode(instruction, current)
  BY DEF DecodeInv
<1> QED
  BY <1>1, DecodedFields

LEMMA RequestsKept ==
  ASSUME NUM_WARPS = 1, HandshakeInv, HandshakeInv', OperandInv,
         NEW fetching, CoreEdge(fetching), LinkStep,
         NEW l \in Lanes, LaneFacts(l), LaneFacts(l)',
         RequestInv(l), ChannelInv(l)
  PROVE  RequestInv(l)'
<1>1. TypeInv /\ TypeInv' /\ Control
  BY DEF HandshakeInv
<1>2. ASSUME lsu'[l].state \in {"WAITING", "DONE"}
      PROVE  /\ currentState \in Working \ {"UPDATE"} /\ Using(l) /\ Unchanged
             /\ lsu[l].state \in {"WAITING", "DONE"} => currentState # "REG_WAIT"
             /\ currentState # "REG_WAIT" => lsu[l].state \in {"WAITING", "DONE"}
  <2>1. currentState' \in Working \ {"REG_WAIT"} /\ Using(l)'
    BY <1>2 DEF LaneFacts
  <2>2. currentState \in Working \ {"UPDATE"}
    BY <1>1, <2>1, WorksOn DEF Working
  <2>3. Unchanged
    BY <1>1, <2>2, Staying DEF Working
  <2>4. Using(l)
    BY <2>1, <2>3 DEF Unchanged, Using
  <2>5. lsu[l].state \in {"WAITING", "DONE"} => currentState # "REG_WAIT"
    BY DEF LaneFacts
  <2>6. currentState # "REG_WAIT" => lsu[l].state \in {"WAITING", "DONE"}
    BY <2>2, <2>4 DEF HandshakeInv, LaneStage, Stage
  <2> QED
    BY <2>2, <2>3, <2>4, <2>5, <2>6
<1>3. ASSUME lsu'[l].state \in {"WAITING", "DONE"}
      PROVE  /\ lsu'[l].address = RequestAddress(l)'
             /\ current'.store => lsu'[l].data = Rs2(l)'
  <2>1. RequestAddress(l)' = RequestAddress(l) /\ Rs2(l)' = Rs2(l)
    BY <1>2, <1>3 DEF Unchanged, RequestAddress
  <2>2. CASE currentState = "REG_WAIT"
    BY <1>1, <1>2, <1>3, <2>1, <2>2, LsuMoves DEF Unchanged
  <2>3. CASE currentState # "REG_WAIT"
    BY <1>1, <1>2, <1>3, <2>1, <2>3, LsuMoves DEF Unchanged, RequestInv
  <2> QED
    BY <2>2, <2>3
<1>4. /\ consumer_read'[l].valid => lsu[l].valid # "none"
      /\ consumer_write'[l].valid => lsu[l].valid # "none"
      /\ consumer_read'[l].address = lsu[l].address
      /\ consumer_write'[l].address = lsu[l].address
      /\ consumer_write'[l].data = lsu[l].data
  BY DEF LinkStep
<1>5. lsu[l].valid # "none" =>
        lsu'[l].address = lsu[l].address /\ lsu'[l].data = lsu[l].data
  <2>1. lsu[l].valid # "none" => currentState # "REG_WAIT"
    BY DEF LaneFacts
  <2> QED
    BY <1>1, <2>1, LsuMoves
<1>6. ASSUME lsu'[l].state = "DONE", current'.load
      PROVE  lsu'[l].out = committed'[lsu'[l].address]
  <2>1. /\ currentState \in Working \ {"REG_WAIT", "UPDATE"} /\ current.load
        /\ lsu[l].state \in {"WAITING", "DONE"}
    <3>1. currentState # "REG_WAIT"
      <4> SUFFICES ASSUME currentState = "REG_WAIT" PROVE FALSE
        OBVIOUS
      <4>1. lsu[l].state \notin {"WAITING", "DONE"}
        BY <1>2, <1>6
      <4> QED
        BY <1>1, <1>6, <4>1, LsuMoves
    <3> QED
      BY <1>2, <1>6, <3>1 DEF Unchanged
  <2>2. lsu'[l].address = lsu[l].address /\ committed' = committed
    BY <1>1, <2>1, LsuMoves DEF CoreEdge, Commit
  <2>3. CASE lsu[l].state = "DONE"
    BY <1>1, <2>1, <2>2, <2>3, LsuMoves DEF RequestInv
  <2>4. CASE lsu[l].state # "DONE"
    <3>1. /\ Place(l) = Relaying(Kind) /\ Kind \in ready[l]
          /\ lsu'[l].out = answer[l]
      BY <1>1, <1>6, <2>1, <2>4, LsuMoves
    <3>2. Place(l) = "READ_RELAYING" /\ ready[l] # {}
      BY <2>1, <3>1 DEF Kind, Relaying
    <3> QED
      BY <2>2, <3>1, <3>2 DEF ChannelInv
  <2> QED
    BY <2>3, <2>4
<1> QED
  BY <1>3, <1>4, <1>5, <1>6 DEF RequestInv

-----------------------------------------------------------------------------
(***************************************************************************)
(* What the channels latch for a lane, and what they relay to it.          *)
(***************************************************************************)
ChannelMoves(l) ==
  /\ Place(l)' = "READ_WAITING" =>
       \/ /\ Place(l) = "READ_WAITING"
          /\ channel'[0].mem_read_address = channel[0].mem_read_address
       \/ /\ consumer_read[l].valid
          /\ channel'[0].mem_read_address = consumer_read[l].address
  /\ Place(l)' = "WRITE_WAITING" =>
       \/ /\ Place(l) = "WRITE_WAITING"
          /\ channel'[0].mem_write_address = channel[0].mem_write_address
          /\ channel'[0].mem_write_data = channel[0].mem_write_data
       \/ /\ consumer_write[l].valid
          /\ channel'[0].mem_write_address = consumer_write[l].address
          /\ channel'[0].mem_write_data = consumer_write[l].data
  /\ Place(l)' = "READ_RELAYING" =>
       \/ /\ Place(l) = "READ_WAITING"
          /\ consumer_read_data'[l] = memory[channel[0].mem_read_address]
       \/ /\ Place(l) = "READ_RELAYING"
          /\ consumer_read_data'[l] = consumer_read_data[l]

LEMMA ChannelEdge ==
  ASSUME CommonReady, HandshakeInv, WritesWhileWaiting,
         NEW fetching, NEW answering \in AnswerSets, Edge(fetching, answering)
  PROVE  WritesWhileWaiting' /\ \A l \in Lanes : ChannelMoves(l)
<1> DEFINE c == channel[0]
           word == memory[c.mem_read_address]
<1>1. /\ 0 \in Ctl!Channels
      /\ c \in Controller!Channel /\ c.current_consumer \in Lanes
      /\ \/ Ctl!Accepting(c)
         \/ Ctl!RelayingRead(c, answering, word)
         \/ Ctl!RelayingWrite(c, answering)
         \/ Ctl!Releasing(c)
         \/ Ctl!Holding(c, answering, answering)
  BY ControllerCases, SameSearch DEF HandshakeInv
<1>2. consumer_read_data \in [Lanes -> Word]
  BY LaneIndices DEF HandshakeInv, TypeInv, Controller!ControllerTypeOK
<1> HIDE DEF word
<1> USE <1>1 DEF WritesWhileWaiting, ChannelMoves, Place, Ctl!Become,
                 Controller!Channel
<1>3. CASE Ctl!Accepting(c)
  <2> DEFINE j == Ctl!FirstRequest
  <2>1. j \in Ctl!Requests
    BY <1>3, ControllerAssumptions, Ctl!FirstRequestFound DEF Ctl!Accepting
  <2>2. consumer_read[j].valid \/ consumer_write[j].valid
    BY <2>1 DEF Ctl!Requests
  <2>3. /\ c.state = "IDLE" /\ channel'[0] = Ctl!Accepted(c)
        /\ UNCHANGED consumer_read_data
    BY <1>3 DEF Ctl!Accepting
  <2>4. CASE consumer_read[j].valid
    <3>1. channel'[0] = [c EXCEPT !.state = "READ_WAITING", !.current_consumer = j,
                           !.mem_read_valid = TRUE,
                           !.mem_read_address = consumer_read[j].address]
      BY <2>3, <2>4 DEF Ctl!Accepted
    <3> HIDE DEF j
    <3> QED
      BY <2>3, <2>4, <3>1
  <2>5. CASE ~consumer_read[j].valid
    <3>1. channel'[0] = [c EXCEPT !.state = "WRITE_WAITING", !.current_consumer = j,
                           !.mem_write_valid = TRUE,
                           !.mem_write_address = consumer_write[j].address,
                           !.mem_write_data = consumer_write[j].data]
      BY <2>3, <2>5 DEF Ctl!Accepted
    <3> HIDE DEF j
    <3> QED
      BY <2>2, <2>3, <2>5, <3>1
  <2> QED
    BY <2>4, <2>5
<1>4. CASE Ctl!RelayingRead(c, answering, word)
  <2>1. /\ c.state = "READ_WAITING"
        /\ channel'[0] = [c EXCEPT !.state = "READ_RELAYING", !.mem_read_valid = FALSE]
        /\ consumer_read_data'[c.current_consumer] = word
    BY <1>2, <1>4 DEF Ctl!RelayingRead
  <2> QED
    BY <2>1 DEF word
<1>5. CASE Ctl!RelayingWrite(c, answering)
  BY <1>5 DEF Ctl!RelayingWrite
<1>6. CASE Ctl!Releasing(c)
  BY <1>6 DEF Ctl!Releasing
<1>7. CASE Ctl!Holding(c, answering, answering)
  BY <1>7 DEF Ctl!Holding, Ctl!controllerVars
<1> QED
  BY <1>3, <1>4, <1>5, <1>6, <1>7

LEMMA ChannelsKept ==
  ASSUME NUM_WARPS = 1, HandshakeInv, HandshakeInv', OperandInv, DecodeInv,
         MemoryInv, NEW fetching, CoreEdge(fetching), LinkStep,
         NEW l \in Lanes, LaneFacts(l), LaneFacts(l)', PlaceStep(l),
         ChannelMoves(l), RequestInv(l), ChannelInv(l)
  PROVE  ChannelInv(l)'
<1> SUFFICES ASSUME Place(l)' # "IDLE" PROVE ChannelInv(l)'
  BY DEF ChannelInv
<1>1. TypeInv /\ TypeInv' /\ Control
  BY DEF HandshakeInv
<1>2. /\ currentState' \in Working \ {"REG_WAIT", "UPDATE"}
      /\ currentState \in Working \ {"UPDATE"}
  <2>1. currentState' \in Working \ {"REG_WAIT", "UPDATE"}
    BY DEF LaneFacts
  <2> QED
    BY <1>1, <2>1, WorksOn DEF Working
<1>3. currentState # "REG_WAIT"
  <2> SUFFICES ASSUME currentState = "REG_WAIT" PROVE FALSE
    OBVIOUS
  <2>1. Silent(l)
    BY DEF HandshakeInv, LaneStage, Stage
  <2> QED
    BY <2>1 DEF Silent, At, PlaceStep
<1>4. /\ lsu'[l].address = lsu[l].address /\ lsu'[l].data = lsu[l].data
      /\ committed' = committed
  BY <1>1, <1>2, <1>3, LsuMoves DEF CoreEdge, Commit
<1>5. Place(l)' = "READ_WAITING" =>
        channel'[0].mem_read_address = lsu'[l].address
  BY <1>4 DEF ChannelMoves, RequestInv, ChannelInv
<1>6. Place(l)' = "WRITE_WAITING" =>
        /\ channel'[0].mem_write_address = lsu'[l].address
        /\ channel'[0].mem_write_data = lsu'[l].data
  BY <1>4 DEF ChannelMoves, RequestInv, ChannelInv
<1>7. ASSUME Place(l)' = "READ_RELAYING"
      PROVE  consumer_read_data'[l] = committed'[lsu'[l].address]
  <2>1. CASE /\ Place(l) = "READ_WAITING"
             /\ consumer_read_data'[l] = memory[channel[0].mem_read_address]
    <3>1. current.load
      BY <2>1 DEF LaneFacts, Kind
    <3>2. Performed(lsu[l].address) = {}
      BY <1>2, <3>1, LoadOrStore DEF Performed
    <3>3. lsu[l].address \in Word
      BY <1>1 DEF TypeInv, LaneInv, LsuRegisters
    <3>4. memory[lsu[l].address] = committed[lsu[l].address]
      BY <3>2, <3>3 DEF MemoryInv
    <3> QED
      BY <1>4, <2>1, <3>4 DEF ChannelInv
  <2>2. CASE /\ Place(l) = "READ_RELAYING"
             /\ consumer_read_data'[l] = consumer_read_data[l]
    BY <1>4, <2>2 DEF ChannelInv
  <2> QED
    BY <1>7, <2>1, <2>2 DEF ChannelMoves
<1>8. ASSUME Place(l)' = "READ_RELAYING", ready'[l] # {}
      PROVE  answer'[l] = committed'[lsu'[l].address]
  <2>1. Place(l) # "READ_WAITING"
    <3> SUFFICES ASSUME Place(l) = "READ_WAITING" PROVE FALSE
      OBVIOUS
    <3>1. LinkStepped(l)
      BY <1>1, LinkEdge DEF HandshakeInv
    <3> QED
      BY <1>8, <3>1 DEF LinkStepped, Waiting
  <2>2. Place(l) = "READ_RELAYING"
    BY <1>8, <2>1 DEF ChannelMoves
  <2>3. answer'[l] = consumer_read_data[l]
    BY DEF LinkStep
  <2> QED
    BY <1>4, <2>2, <2>3 DEF ChannelInv
<1> QED
  BY <1>5, <1>6, <1>7, <1>8 DEF ChannelInv

(***************************************************************************)
(* The memory holds what the channels have been writing.                   *)
(***************************************************************************)
LEMMA MemoryMoves ==
  ASSUME HandshakeInv', MemoryEdge, NEW a \in Word
  PROVE  memory'[a] = IF channel'[0].mem_write_valid
                         /\ channel'[0].mem_write_address = a
                      THEN channel'[0].mem_write_data ELSE memory[a]
<1>1. 0 \in Controller!Channels
  BY ControllerAssumptions, SameSearch, Ctl!SomeChannel
<1>2. \A i \in Controller!Channels : channel'[i] = channel'[0]
  BY <1>1 DEF HandshakeInv, Controller!Lockstep
<1>3. CASE channel'[0].mem_write_valid /\ channel'[0].mem_write_address = a
  <2>1. Writing(a) = Controller!Channels
    BY <1>2, <1>3 DEF Writing
  <2>2. Controller!Last(Writing(a)) \in Controller!Channels
    BY <1>1, <2>1, SameSearch, ControllerAssumptions, Ctl!LastFound
  <2> QED
    BY <1>1, <1>2, <1>3, <2>1, <2>2 DEF MemoryEdge
<1>4. CASE ~(channel'[0].mem_write_valid /\ channel'[0].mem_write_address = a)
  <2>1. Writing(a) = {}
    BY <1>2, <1>4 DEF Writing
  <2> QED
    BY <1>4, <2>1 DEF MemoryEdge
<1> QED
  BY <1>3, <1>4

LEMMA NothingWritten ==
  ASSUME HandshakeInv, HandshakeInv', WritesWhileWaiting', MemoryEdge,
         \A l \in Lanes : Place(l)' # "WRITE_WAITING"
  PROVE  memory' = memory
<1>1. channel'[0].current_consumer \in Lanes
  <2>1. channel'[0] \in Controller!Channel
    BY ControllerAssumptions, SameSearch, Ctl!SomeChannel
       DEF HandshakeInv, TypeInv, Controller!ControllerTypeOK
  <2> QED
    BY <2>1, LaneIndices DEF Controller!Channel
<1>2. channel'[0].state # "WRITE_WAITING"
  BY <1>1 DEF Place
<1>3. ~channel'[0].mem_write_valid
  BY <1>2 DEF WritesWhileWaiting
<1>4. \A a \in Word : memory'[a] = memory[a]
  BY <1>3, MemoryMoves
<1>5. memory \in [Word -> Word] /\ memory' \in [Word -> Word]
  BY DEF HandshakeInv, TypeInv, CoreInv
<1> QED
  BY <1>4, <1>5

LEMMA LinksTell ==
  ASSUME HandshakeInv, NEW l \in Lanes
  PROVE  Sends(l, "none") \/ Sends(l, Kind)
<1> USE DEF At, Silent, Asked, Sent, Served, Relayed, Reached, Taken, Dropped,
            Released, Pending
<1>1. LaneStage(l)
  BY DEF HandshakeInv
<1>2. CASE Silent(l)
  BY <1>2
<1>3. CASE \E kind \in {"read", "write"} : Kind = kind /\ Stage(l, kind)
  BY <1>3 DEF Stage
<1> QED
  BY <1>1, <1>2, <1>3 DEF LaneStage

(***************************************************************************)
(* A lane's store counts as performed from the edge on that its channel    *)
(* takes it, and that is the edge at which the memory is written.          *)
(***************************************************************************)
LEMMA PerformedMoves ==
  ASSUME NUM_WARPS = 1, HandshakeInv, HandshakeInv', OperandInv, DecodeInv,
         NEW fetching, CoreEdge(fetching), Unchanged,
         currentState' \in Working, currentState # "UPDATE",
         NEW l \in Lanes, LaneFacts(l), LaneFacts(l)', PlaceStep(l),
         NEW a \in Word
  PROVE  /\ l \in Performed(a) =>
              l \in Performed(a)' /\ lsu'[l].data = lsu[l].data
         /\ l \in Performed(a)' =>
              l \in Performed(a) \/ Place(l)' = "WRITE_WAITING"
<1>1. TypeInv /\ TypeInv' /\ Control
  BY DEF HandshakeInv
<1>2. Kind \in {"read", "write"} /\ current' = current
  BY DEF Kind, Unchanged
<1>3. lsu[l].state \in {"WAITING", "DONE"} \/ Place(l) # "IDLE" =>
        /\ currentState # "REG_WAIT"
        /\ lsu[l].state \in {"WAITING", "DONE"}
        /\ lsu'[l].address = lsu[l].address /\ lsu'[l].data = lsu[l].data
  BY <1>1, LsuMoves DEF LaneFacts
<1>4. ASSUME l \in Performed(a)
      PROVE  l \in Performed(a)' /\ lsu'[l].data = lsu[l].data
  <2>1. /\ lsu[l].state \in {"WAITING", "DONE"}
        /\ lsu'[l].address = a /\ lsu'[l].data = lsu[l].data
    BY <1>3, <1>4 DEF Performed
  <2>2. CASE lsu[l].state = "DONE"
    <3>1. lsu'[l].state = "DONE"
      BY <1>1, <2>2, LsuMoves
    <3> QED
      BY <1>2, <1>4, <2>1, <3>1 DEF Performed
  <2>3. CASE lsu[l].state # "DONE"
    <3>1. lsu[l].state = "WAITING" /\ Place(l) # "IDLE"
      BY <1>4, <2>1, <2>3 DEF Performed
    <3>2. Place(l) \in {Waiting(Kind), Relaying(Kind)}
      BY <1>2, <3>1 DEF LaneFacts, Waiting, Relaying
    <3>3. Place(l) = Relaying(Kind) => Sends(l, Kind)
      BY <3>1 DEF LaneFacts
    <3>4. Place(l)' \in {Waiting(Kind), Relaying(Kind)}
      BY <1>2, <3>2, <3>3 DEF PlaceStep
    <3> QED
      BY <1>2, <1>4, <2>1, <3>4 DEF Performed, Waiting, Relaying
  <2> QED
    BY <2>2, <2>3
<1>5. ASSUME l \in Performed(a)', Place(l)' # "WRITE_WAITING"
      PROVE  l \in Performed(a)
  <2>1. current.store /\ lsu'[l].address = a
    BY <1>2, <1>5 DEF Performed
  <2>2. Kind = "write"
    <3>1. currentState \in Working \/ currentState = "REQUEST"
      BY <1>1, WorksOn DEF Working
    <3>2. currentState # "REQUEST"
      <4> SUFFICES ASSUME currentState = "REQUEST" PROVE FALSE
        OBVIOUS
      <4>1. currentState' = "REG_WAIT"
        BY <1>1, WorksOn DEF Working
      <4> QED
        BY <1>5, <4>1 DEF Performed, LaneFacts
    <3>3. ~current.load
      BY <2>1, <3>1, <3>2, LoadOrStore
    <3> QED
      BY <3>3 DEF Kind
  <2>3. CASE Place(l)' # "IDLE"
    <3>1. Place(l)' = "WRITE_RELAYING"
      BY <1>2, <1>5, <2>2, <2>3 DEF LaneFacts, Kind
    <3>2. Place(l) # "IDLE"
      <4>1. Sends(l, "none") \/ Sends(l, "write")
        BY <2>2, LinksTell
      <4> QED
        BY <3>1, <4>1 DEF PlaceStep, Waiting
    <3> QED
      BY <1>3, <2>1, <3>2 DEF Performed
  <2>4. CASE Place(l)' = "IDLE"
    <3>1. lsu'[l].state = "DONE"
      BY <1>5, <2>4 DEF Performed
    <3>2. \/ lsu[l].state = "DONE"
          \/ lsu[l].state = "WAITING" /\ Place(l) = Relaying(Kind)
      BY <1>1, <3>1, LsuMoves
    <3> QED
      BY <1>3, <2>1, <3>2 DEF Performed, Relaying
  <2> QED
    BY <2>3, <2>4
<1> QED
  BY <1>4, <1>5

LEMMA MemoryKept ==
  ASSUME NUM_WARPS = 1, HandshakeInv, HandshakeInv', OperandInv, DecodeInv,
         DecodeInv', WritesWhileWaiting', MemoryInv,
         NEW fetching, CoreEdge(fetching), MemoryEdge,
         \A l \in Lanes : /\ LaneFacts(l) /\ LaneFacts(l)' /\ PlaceStep(l)
                          /\ ChannelInv(l)'
  PROVE  MemoryInv'
<1>1. TypeInv /\ TypeInv' /\ Control
  BY DEF HandshakeInv
<1> SUFFICES ASSUME NEW a \in Word
             PROVE  memory'[a] \in IF Performed(a)' = {} THEN {committed'[a]}
                                   ELSE {lsu'[l].data : l \in Performed(a)'}
  BY DEF MemoryInv
<1>2. memory[a] \in IF Performed(a) = {} THEN {committed[a]}
                    ELSE {lsu[l].data : l \in Performed(a)}
  BY DEF MemoryInv
<1>3. committed' = IF currentState = "UPDATE" THEN memory' ELSE committed
  BY DEF CoreEdge, Commit
<1>4. CASE currentState' \notin Working
  <2>1. \A l \in Lanes : Place(l)' = "IDLE" /\ lsu'[l].state # "DONE"
    BY <1>4 DEF LaneFacts
  <2>2. Performed(a)' = {}
    BY <2>1 DEF Performed
  <2>3. memory' = memory
    BY <2>1, NothingWritten
  <2>4. CASE currentState = "UPDATE"
    BY <1>3, <2>2, <2>4
  <2>5. CASE currentState # "UPDATE"
    <3>1. currentState \notin Working
      <4>1. WarpStep
        BY <1>1, WarpEdge
      <4>2. running \/ currentState = "IDLE"
        BY <1>1 DEF Control
      <4>3. CASE currentState = "EXECUTE"
        BY <1>4, <4>1, <4>2, <4>3 DEF WarpStep, AfterExecute, Working
      <4>4. CASE currentState # "EXECUTE"
        BY <1>4, <2>5, <4>1, <4>2, <4>4 DEF WarpStep, Working
      <4> QED
        BY <4>3, <4>4
    <3>2. Performed(a) = {}
      BY <3>1 DEF Performed, LaneFacts
    <3> QED
      BY <1>2, <1>3, <2>2, <2>3, <2>5, <3>2
  <2> QED
    BY <2>4, <2>5
<1>5. CASE currentState' \in Working
  <2>1. currentState \in {"REQUEST"} \cup (Working \ {"UPDATE"})
    BY <1>1, <1>5, WorksOn
  <2>2. Unchanged /\ currentState # "UPDATE"
    BY <1>1, <2>1, Staying DEF Working
  <2>3. committed' = committed
    BY <1>3, <2>2
  <2>4. \A l \in Lanes :
          /\ l \in Performed(a) =>
               l \in Performed(a)' /\ lsu'[l].data = lsu[l].data
          /\ l \in Performed(a)' =>
               l \in Performed(a) \/ Place(l)' = "WRITE_WAITING"
    BY <1>5, <2>2, PerformedMoves
  <2>5. Performed(a) \subseteq Lanes /\ Performed(a)' \subseteq Lanes
    BY DEF Performed
  <2>6. /\ channel'[0].current_consumer \in Lanes
        /\ channel'[0].mem_write_valid <=> channel'[0].state = "WRITE_WAITING"
    <3>1. channel'[0] \in Controller!Channel
      BY <1>1, ControllerAssumptions, SameSearch, Ctl!SomeChannel
         DEF TypeInv, Controller!ControllerTypeOK
    <3> QED
      BY <3>1, LaneIndices DEF Controller!Channel, WritesWhileWaiting
  <2>7. CASE channel'[0].mem_write_valid /\ channel'[0].mem_write_address = a
    <3> PICK l \in Lanes : l = channel'[0].current_consumer
      BY <2>6
    <3>1. Place(l)' = "WRITE_WAITING"
      BY <2>6, <2>7 DEF Place
    <3>2. /\ channel'[0].mem_write_address = lsu'[l].address
          /\ channel'[0].mem_write_data = lsu'[l].data
      BY <3>1 DEF ChannelInv
    <3>3. memory'[a] = lsu'[l].data
      BY <2>7, <3>2, MemoryMoves
    <3>4. current'.store
      <4>1. Using(l)' /\ Kind' # "read"
        BY <3>1 DEF LaneFacts
      <4> QED
        BY <4>1 DEF Using, Kind
    <3>5. l \in Performed(a)'
      BY <2>7, <3>1, <3>2, <3>4 DEF Performed
    <3> QED
      BY <3>3, <3>5
  <2>8. CASE ~(channel'[0].mem_write_valid /\ channel'[0].mem_write_address = a)
    <3>1. memory'[a] = memory[a]
      BY <2>8, MemoryMoves
    <3>2. \A l \in Performed(a)' : Place(l)' # "WRITE_WAITING"
      <4> SUFFICES ASSUME NEW l \in Performed(a)', Place(l)' = "WRITE_WAITING"
                   PROVE  FALSE
        OBVIOUS
      <4>1. channel'[0].mem_write_address = a
        BY <2>5 DEF ChannelInv, Performed
      <4>2. channel'[0].state = "WRITE_WAITING"
        BY DEF Place
      <4> QED
        BY <2>6, <2>8, <4>1, <4>2
    <3>3. Performed(a)' = Performed(a)
      BY <2>4, <2>5, <3>2
    <3>4. \A l \in Performed(a) : lsu'[l].data = lsu[l].data
      BY <2>4, <2>5
    <3> QED
      BY <1>2, <2>3, <3>1, <3>3, <3>4
  <2> QED
    BY <2>7, <2>8
<1> QED
  BY <1>4, <1>5

-----------------------------------------------------------------------------
(***************************************************************************)
(* The invariant holds at first, and every edge keeps it.                  *)
(***************************************************************************)
LEMMA ExecutionInit ==
  ASSUME NUM_WARPS = 1, \A p \in Programs : Executable(p), Init
  PROVE  ExecutionInv
<1>1. HandshakeInv /\ TypeInv
  BY HandshakeInit DEF HandshakeInv
<1>2. /\ Warps = {0} /\ currentState = "IDLE" /\ currentState \notin Working
  BY <1>1, OneWarp DEF Init, CoreReset, Working
<1>3. FetchInv
  BY <1>2 DEF Init, CoreReset, FetchInv
<1>4. DecodeInv
  <2>1. PICK kept \in Kept : current = DecoderReset(kept)
    BY <1>1, <1>2, OneWarp DEF Init
  <2>2. current.alu = kept
    BY <2>1, DecoderResetType, CoreMemoryAssumption
  <2>3. (\E a \in Word : program[a].op = "lui") => current.alu # "JAL"
    BY <2>2 DEF Init, Executable
  <2> QED
    BY <1>2, <2>3 DEF DecodeInv
<1>5. OperandInv /\ AluInv /\ ComparisonInv
  BY <1>2 DEF OperandInv, AluInv, ComparisonInv, Working
<1>6. FpuInv
  BY <1>2 DEF FpuInv
<1>7. ASSUME NEW l \in Lanes
      PROVE  RequestInv(l) /\ ChannelInv(l) /\ Place(l) = "IDLE"
             /\ lsu[l].state = "IDLE"
  BY <1>1, <1>2, StagesTell
     DEF LaneFacts, RequestInv, ChannelInv, Init, CoreReset, IdleLsu
<1>8. WritesWhileWaiting
  BY ControllerAssumptions, SameSearch, Ctl!SomeChannel
     DEF Init, Controller!ControllerInit, Controller!IdleChannel,
         WritesWhileWaiting
<1>9. MemoryInv
  <2>1. \A a \in Word : Performed(a) = {}
    BY <1>7 DEF Performed
  <2> QED
    BY <2>1 DEF Init, MemoryInv
<1> QED
  BY <1>1, <1>3, <1>4, <1>5, <1>6, <1>7, <1>8, <1>9 DEF ExecutionInv

LEMMA ExecutionReset ==
  ASSUME NUM_WARPS = 1, ExecutionInv, HandshakeInv', WritesWhileWaiting',
         ResetStep, core_reset, MemoryEdge,
         \A l \in Lanes : LaneFacts(l) /\ LaneFacts(l)'
  PROVE  /\ ExecutionInv'
         /\ memory' = memory /\ committed' = committed /\ committed = memory
<1>1. HandshakeInv /\ TypeInv /\ TypeInv'
  BY DEF ExecutionInv, HandshakeInv
<1>2. /\ currentState = "DONE" /\ currentState \notin Working
      /\ Warps = {0} /\ currentState' = "IDLE" /\ currentState' \notin Working
      /\ current' = decoded'[0] /\ current = decoded[0]
  BY <1>1, OnlyWarp DEF HandshakeInv, Control, ResetStep, Working
<1>3. FetchInv'
  BY <1>2 DEF ResetStep, FetchInv
<1>4. DecodeInv'
  <2>1. current' = DecoderReset(current.alu) /\ current.alu \in AluInstruction
    BY <1>1, <1>2 DEF ResetStep, TypeInv, WarpInv, DecodedOK
  <2>2. current'.alu = current.alu
    BY <2>1, DecoderResetType
  <2>3. program' = program
    BY DEF ResetStep
  <2> QED
    BY <1>2, <2>2, <2>3 DEF DecodeInv, ExecutionInv
<1>5. OperandInv' /\ AluInv' /\ ComparisonInv'
  BY <1>2 DEF OperandInv, AluInv, ComparisonInv, Working
<1>6. FpuInv'
  BY <1>2 DEF FpuInv
<1>7. ASSUME NEW l \in Lanes
      PROVE  /\ Place(l)' = "IDLE" /\ lsu'[l].state = "IDLE"
             /\ Place(l) = "IDLE" /\ lsu[l].state # "DONE"
             /\ RequestInv(l)' /\ ChannelInv(l)'
  BY <1>2 DEF LaneFacts, RequestInv, ChannelInv, ResetStep, IdleLsu
<1>8. memory' = memory
  BY <1>1, <1>7, NothingWritten
<1>9. \A a \in Word : Performed(a) = {} /\ Performed(a)' = {}
  BY <1>7 DEF Performed
<1>10. committed' = committed
  BY DEF ResetStep
<1>11. committed = memory
  <2>1. \A a \in Word : memory[a] = committed[a]
    BY <1>9 DEF ExecutionInv, MemoryInv
  <2> QED
    BY <1>1, <2>1 DEF TypeInv, CoreInv
<1>12. MemoryInv'
  BY <1>8, <1>9, <1>10, <1>11 DEF MemoryInv
<1> QED
  BY <1>3, <1>4, <1>5, <1>6, <1>7, <1>8, <1>10, <1>11, <1>12 DEF ExecutionInv

LEMMA ExecutionEdge ==
  ASSUME NUM_WARPS = 1, \A p \in Programs : Executable(p),
         ExecutionInv, HandshakeInv', WritesWhileWaiting',
         NEW fetching, CoreEdge(fetching), LinkStep, MemoryEdge,
         \A l \in Lanes : /\ LaneFacts(l) /\ LaneFacts(l)'
                          /\ PlaceStep(l) /\ ChannelMoves(l)
  PROVE  ExecutionInv'
<1>1. HandshakeInv /\ TypeInv /\ TypeInv' /\ Control
  BY DEF ExecutionInv, HandshakeInv
<1>2. /\ FetchInv /\ DecodeInv /\ OperandInv /\ AluInv /\ FpuInv
      /\ ComparisonInv /\ MemoryInv
  BY DEF ExecutionInv
<1>3. FetchInv' /\ DecodeInv' /\ OperandInv' /\ AluInv' /\ FpuInv'
  BY <1>1, <1>2, FetchKept, DecodeKept, OperandsKept, AluKept, FpuKept
<1>4. ComparisonInv'
  BY <1>1, <1>2, ComparisonKept
<1>5. ASSUME NEW l \in Lanes PROVE RequestInv(l)' /\ ChannelInv(l)'
  <2>1. RequestInv(l) /\ ChannelInv(l)
    BY DEF ExecutionInv
  <2> QED
    BY <1>1, <1>2, <2>1, RequestsKept, ChannelsKept
<1>6. MemoryInv'
  BY <1>1, <1>2, <1>3, <1>5, MemoryKept
<1> QED
  BY <1>3, <1>4, <1>5, <1>6 DEF ExecutionInv

LEMMA Stuttering ==
  ASSUME UNCHANGED allVars, ExecutionInv, HandshakeInv' PROVE ExecutionInv'
<1>1. /\ current' = current /\ currentState' = currentState
      /\ instruction' = instruction
  BY DEF allVars, vars, memoryVars, schedulerVars, warpVars, current,
         currentState, instruction
<1>2. \A l \in Lanes : /\ Rs1(l)' = Rs1(l) /\ Rs2(l)' = Rs2(l)
                       /\ Reads(l)' <=> Reads(l)
                       /\ AluEnabled(l)' <=> AluEnabled(l)
                       /\ Place(l)' = Place(l)
                       /\ Operands(l)' = Operands(l)
  BY <1>1 DEF allVars, vars, schedulerVars, warpVars, Controller!controllerVars,
              Rs1, Rs2, Reads, AluEnabled, LaneEnabled, Place, Operands
<1>3. FetchInv' /\ DecodeInv' /\ OperandInv'
  BY <1>1, <1>2
     DEF allVars, vars, memoryVars, schedulerVars, warpVars, ExecutionInv,
         FetchInv, DecodeInv, OperandInv
<1>4. AluInv'
  <2>1. \A l \in Lanes : Inputs(l)' = Inputs(l)
    BY <1>1, <1>2 DEF allVars, vars, schedulerVars, Inputs
  <2>2. \A l \in Lanes : AluResult(Inputs(l))' = AluResult(Inputs(l))
    BY <2>1 DEF AluResult
  <2>3. alu' = alu
    BY DEF allVars, vars, laneVars
  <2> QED
    BY <1>1, <1>2, <2>1, <2>2, <2>3 DEF ExecutionInv, AluInv
<1>5. FpuInv'
  <2>1. \A l \in Lanes : Sum(l)' = Sum(l)
    BY <1>2 DEF Sum
  <2>2. fpu' = fpu
    BY DEF allVars, vars, laneVars
  <2> QED
    BY <1>1, <1>2, <2>1, <2>2 DEF ExecutionInv, FpuInv
<1>6. ComparisonInv'
  BY <1>1 DEF allVars, vars, memoryVars, schedulerVars, warpVars, ExecutionInv,
              ComparisonInv, Programmer!Comparisons, Programmer!Active,
              Programmer!Less, Programmer!Read
<1>7. ASSUME NEW l \in Lanes PROVE RequestInv(l)' /\ ChannelInv(l)'
  <2>1. RequestAddress(l)' = RequestAddress(l)
    BY <1>1, <1>2 DEF RequestAddress
  <2>2. /\ lsu' = lsu /\ committed' = committed /\ channel' = channel
        /\ consumer_read' = consumer_read /\ consumer_write' = consumer_write
        /\ consumer_read_data' = consumer_read_data
        /\ ready' = ready /\ answer' = answer
    BY DEF allVars, vars, memoryVars, laneVars, linkVars,
           Controller!controllerVars
  <2>3. RequestInv(l) /\ ChannelInv(l)
    BY DEF ExecutionInv
  <2> QED
    BY <1>1, <1>2, <2>1, <2>2, <2>3 DEF RequestInv, ChannelInv
<1>8. WritesWhileWaiting'
  BY DEF allVars, Controller!controllerVars, ExecutionInv, WritesWhileWaiting
<1>9. MemoryInv'
  <2>1. \A a \in Word : Performed(a)' = Performed(a)
    BY <1>1, <1>2 DEF allVars, vars, laneVars, Performed
  <2>2. memory' = memory /\ committed' = committed /\ lsu' = lsu
    BY DEF allVars, vars, memoryVars, laneVars
  <2> QED
    BY <2>1, <2>2 DEF ExecutionInv, MemoryInv
<1> QED
  BY <1>3, <1>4, <1>5, <1>6, <1>7, <1>8, <1>9 DEF ExecutionInv

LEMMA StagesTellNext == HandshakeInv' => (\A l \in Lanes : LaneFacts(l))'
<1>1. HandshakeInv => \A l \in Lanes : LaneFacts(l)
  BY StagesTell
<1> QED
  BY <1>1, PTL

(***************************************************************************)
(* What the edges of the invariant's lemmas assume, of every edge.         *)
(***************************************************************************)
LEMMA EdgeFacts ==
  ASSUME NUM_WARPS = 1, CommonReady, ExecutionInv,
         NEW fetching \in SUBSET Fetching, NEW answering \in AnswerSets,
         Edge(fetching, answering)
  PROVE  /\ HandshakeInv /\ HandshakeInv' /\ WritesWhileWaiting'
         /\ \A l \in Lanes : /\ LaneFacts(l) /\ LaneFacts(l)'
                             /\ PlaceStep(l) /\ ChannelMoves(l)
<1>1. HandshakeInv /\ WritesWhileWaiting
  BY DEF ExecutionInv
<1>2. HandshakeInv'
  <2>1. Next
    BY DEF Next
  <2> QED
    BY <1>1, <2>1, HandshakeStep
<1>3. WritesWhileWaiting' /\ \A l \in Lanes : ChannelMoves(l)
  BY <1>1, ChannelEdge
<1>4. \A l \in Lanes : PlaceStep(l)
  BY <1>1, ControllerEdge DEF HandshakeInv
<1>5. \A l \in Lanes : LaneFacts(l) /\ LaneFacts(l)'
  BY <1>1, <1>2, StagesTell, StagesTellNext
<1> QED
  BY <1>1, <1>2, <1>3, <1>4, <1>5

LEMMA ExecutionStep ==
  ASSUME NUM_WARPS = 1, CommonReady, \A p \in Programs : Executable(p),
         ExecutionInv, [Next]_allVars
  PROVE  ExecutionInv'
<1>1. CASE Next
  <2>1. PICK fetching \in SUBSET Fetching, answering \in AnswerSets :
          Edge(fetching, answering)
    BY <1>1 DEF Next
  <2>2. /\ HandshakeInv /\ HandshakeInv' /\ WritesWhileWaiting'
        /\ \A l \in Lanes : /\ LaneFacts(l) /\ LaneFacts(l)'
                            /\ PlaceStep(l) /\ ChannelMoves(l)
    BY <2>1, EdgeFacts
  <2>3. CASE core_reset
    BY <2>1, <2>2, <2>3, ExecutionReset DEF Edge
  <2>4. CASE ~core_reset
    BY <2>1, <2>2, <2>4, ExecutionEdge DEF Edge
  <2> QED
    BY <2>3, <2>4
<1>2. CASE UNCHANGED allVars
  <2>1. HandshakeInv'
    BY HandshakeStep DEF ExecutionInv
  <2> QED
    BY <1>2, <2>1, Stuttering
<1> QED
  BY <1>1, <1>2

-----------------------------------------------------------------------------
(***************************************************************************)
(* When an instruction ends: the core has computed what the instruction    *)
(* set says.                                                               *)
(***************************************************************************)
LEMMA SameOperands ==
  ASSUME NUM_WARPS = 1, TypeInv, DecodeInv, currentState \in Working
  PROVE  /\ current = Decode(instruction, current)
         /\ instruction \in Instruction
         /\ current.rd = instruction.rd /\ current.imm = instruction.imm
         /\ \A l \in Lanes :
              /\ Programmer!Read(0, l, instruction.rs1) = Rs1(l)
              /\ Programmer!Read(0, l, instruction.rs2) = Rs2(l)
              /\ Programmer!Address(0, l, instruction) = RequestAddress(l)
         /\ instruction.op \in {"addi", "fadd", "seqi", "lui", "lw", "sw"} =>
              \A l \in Lanes :
                l \in Programmer!Lane(0, instruction) <=> LaneEnabled(l)
<1>1. current = Decode(instruction, current)
  BY DEF DecodeInv
<1>2. /\ current.rd = instruction.rd /\ current.imm = instruction.imm
      /\ current.rs1 = instruction.rs1 /\ current.rs2 = instruction.rs2
  BY <1>1 DEF Decode
<1>3. Warps = {0} /\ current_warp = 0 /\ instruction \in Instruction
  BY OneWarp, CoreMemoryAssumption DEF TypeInv, CoreInv, WarpInv, instruction
<1>4. ASSUME NEW l \in Lanes
      PROVE  /\ Programmer!Read(0, l, instruction.rs1) = Rs1(l)
             /\ Programmer!Read(0, l, instruction.rs2) = Rs2(l)
  BY <1>2, SameInstructions DEF Programmer!Read, Rs1, Rs2
<1>5. ASSUME NEW l \in Lanes
      PROVE  Programmer!Address(0, l, instruction) = RequestAddress(l)
  BY <1>2, <1>4 DEF Programmer!Address, RequestAddress
<1>6. ASSUME instruction.op \in {"addi", "fadd", "seqi", "lui", "lw", "sw"},
             NEW l \in Lanes
      PROVE  l \in Programmer!Lane(0, instruction) <=> LaneEnabled(l)
  <2>1. current.scalar <=> instruction.scalar
    BY <1>1, <1>6, DecodedFields
  <2>2. Scalar \notin Enabled(registers[0])
    BY IsaAssumption DEF Enabled, Threads, Scalar
  <2>3. Programmer!Lane(0, instruction) =
          IF instruction.scalar THEN {Scalar} ELSE Enabled(registers[0])
    BY SameInstructions DEF Programmer!Lane, Programmer!Active
  <2> QED
    BY <1>3, <2>1, <2>2, <2>3 DEF LaneEnabled
<1> QED
  BY <1>1, <1>2, <1>3, <1>4, <1>5, <1>6

LEMMA PcAgrees ==
  ASSUME NUM_WARPS = 1, ExecutionInv, currentState = "UPDATE"
  PROVE  Programmer!PcAfter(0, instruction) =
           IF current.halt THEN pc[0] ELSE ResolvedNextPc
<1>1. TypeInv /\ DecodeInv /\ AluInv
  BY DEF ExecutionInv, HandshakeInv
<1>2. /\ current = Decode(instruction, current) /\ instruction \in Instruction
      /\ current.imm = instruction.imm
      /\ Programmer!Read(0, Scalar, instruction.rs1) = Rs1(Scalar)
  BY <1>1, SameOperands DEF Working, Lanes
<1>3. /\ current.branch <=> instruction.op = "beqz"
      /\ current.halt <=> instruction.op = "exit"
      /\ current.scalar <=> \/ instruction.op \in {"beqz", "jal", "exit"}
                            \/ instruction.op # "sx" /\ instruction.scalar
  BY <1>2, DecodedFields
<1>4. current_warp = 0 /\ pc[0] \in Word /\ Scalar \in Lanes
  BY <1>1, OneWarp DEF TypeInv, WarpInv, Lanes
<1>5. CASE instruction.op = "beqz"
  <2>1. current.alu = "BEQZ"
    BY <1>2, <1>5 DEF Decode, AluOf
  <2>2. AluEnabled(Scalar)
    BY <1>3, <1>5 DEF AluEnabled, LaneEnabled
  <2>3. alu[Scalar].result = AluResult(Inputs(Scalar))
    BY <1>1, <1>4, <2>2 DEF AluInv, Working
  <2>4. ScalarAluOut = IF Rs1(Scalar) = 0 THEN 1 ELSE 0
    BY <2>1, <2>3 DEF ScalarAluOut, AluResult, Inputs, Floating
  <2>5. ResolvedNextPc = IF Rs1(Scalar) = 0 THEN (pc[0] + current.imm) % M
                                            ELSE (pc[0] + 1) % M
    BY <1>3, <1>4, <1>5, <2>1, <2>4 DEF ResolvedNextPc
  <2> QED
    BY <1>2, <1>3, <1>5, <2>5, SameInstructions DEF Programmer!PcAfter
<1>6. CASE instruction.op = "jal"
  <2>1. current.alu = "JAL"
    BY <1>2, <1>6 DEF Decode, AluOf
  <2>2. AluEnabled(Scalar)
    BY <1>3, <1>6, <2>1 DEF AluEnabled, LaneEnabled
  <2>3. alu[Scalar].result = AluResult(Inputs(Scalar))
    BY <1>1, <1>4, <2>2 DEF AluInv, Working
  <2>4. ScalarAluOut = (pc[0] + current.imm) % M
    BY <2>1, <2>3 DEF ScalarAluOut, AluResult, Inputs, Floating
  <2>5. ResolvedNextPc = (pc[0] + current.imm) % M
    BY <1>3, <1>6, <2>1, <2>4 DEF ResolvedNextPc
  <2> QED
    BY <1>2, <1>3, <1>6, <2>5 DEF Programmer!PcAfter
<1>7. CASE instruction.op = "exit"
  BY <1>3, <1>7 DEF Programmer!PcAfter
<1>8. CASE instruction.op \notin {"beqz", "jal", "exit"}
  <2>1. current.alu # "JAL"
    <3>1. CASE instruction.op = "lui"
      BY <1>1, <1>4, <3>1 DEF DecodeInv, instruction
    <3>2. CASE instruction.op # "lui"
      BY <1>2, <1>8, <3>2 DEF Decode, AluOf, Instruction, Op
    <3> QED
      BY <3>1, <3>2
  <2>2. ResolvedNextPc = (pc[0] + 1) % M
    BY <1>3, <1>4, <1>8, <2>1 DEF ResolvedNextPc
  <2> QED
    BY <1>3, <1>8, <2>2 DEF Programmer!PcAfter
<1> QED
  BY <1>5, <1>6, <1>7, <1>8

(***************************************************************************)
(* What the units put out for the lanes that the instruction works on.     *)
(***************************************************************************)
LEMMA ValueAgrees ==
  ASSUME NUM_WARPS = 1, ExecutionInv, currentState = "UPDATE",
         instruction.op \in {"addi", "fadd", "lui", "lw"},
         NEW l \in Lanes, LaneEnabled(l)
  PROVE  WrittenValue(l) = Programmer!Value(0, l, instruction)
<1>1. TypeInv /\ DecodeInv /\ AluInv /\ FpuInv
  BY DEF ExecutionInv, HandshakeInv
<1>2. /\ current = Decode(instruction, current)
      /\ current.imm = instruction.imm
      /\ Programmer!Read(0, l, instruction.rs1) = Rs1(l)
      /\ Programmer!Read(0, l, instruction.rs2) = Rs2(l)
      /\ Programmer!Address(0, l, instruction) = RequestAddress(l)
  BY <1>1, SameOperands DEF Working
<1>3. current.mux = MuxOf(instruction.op)
  BY <1>2 DEF Decode
<1>4. CASE instruction.op = "addi"
  <2>1. current.alu = "ADDI" /\ current.mux = "ALU_OUT"
    BY <1>2, <1>3, <1>4 DEF Decode, AluOf, MuxOf
  <2>2. AluEnabled(l)
    BY <2>1 DEF AluEnabled, RegularInt
  <2>3. alu[l].result = AluResult(Inputs(l))
    BY <1>1, <2>2 DEF AluInv, Working
  <2>4. alu[l].result = (Rs1(l) + current.imm) % M
    BY <2>1, <2>3 DEF AluResult, Inputs
  <2>5. WrittenValue(l) = alu[l].result
    BY <2>1 DEF WrittenValue, ScalarAluOut, VectorAluOut, Floating, RegularInt
  <2> QED
    BY <1>2, <1>4, <2>4, <2>5 DEF Programmer!Value
<1>5. CASE instruction.op = "fadd"
  <2>1. current.alu = "FADD" /\ current.mux = "ALU_OUT"
    BY <1>2, <1>3, <1>5 DEF Decode, AluOf, MuxOf
  <2>2. Reads(l)
    BY DEF Reads, LaneEnabled
  <2>3. fpu[l][4] = Sum(l)
    BY <1>1, <2>1, <2>2 DEF FpuInv, Floating
  <2>4. WrittenValue(l) = fpu[l][4]
    BY <2>1 DEF WrittenValue, ScalarAluOut, VectorAluOut, Floating, RegularInt
  <2> QED
    BY <1>2, <1>5, <2>3, <2>4 DEF Programmer!Value, Sum
<1>6. CASE instruction.op = "lui"
  <2>1. current.mux = "IMMEDIATE"
    BY <1>3, <1>6 DEF MuxOf
  <2> QED
    BY <1>2, <1>6, <2>1 DEF WrittenValue, Programmer!Value
<1>7. CASE instruction.op = "lw"
  <2>1. current.mux = "LSU_OUT" /\ current.load
    BY <1>2, <1>3, <1>7, DecodedFields DEF MuxOf
  <2>2. lsu[l].state = "DONE"
    <3>1. Using(l) /\ LaneStage(l)
      BY <2>1 DEF Using, ExecutionInv, HandshakeInv
    <3> QED
      BY <3>1 DEF LaneStage, Stage, Working
  <2>3. /\ lsu[l].address = RequestAddress(l)
        /\ lsu[l].out = committed[lsu[l].address]
    BY <2>1, <2>2 DEF ExecutionInv, RequestInv
  <2>4. WrittenValue(l) = lsu[l].out
    BY <2>1 DEF WrittenValue
  <2> QED
    BY <1>2, <1>7, <2>3, <2>4 DEF Programmer!Value
<1> QED
  BY <1>4, <1>5, <1>6, <1>7

LEMMA RegistersAgree ==
  ASSUME NUM_WARPS = 1, \A p \in Programs : Executable(p), ExecutionInv,
         currentState = "UPDATE", RegisterStep
  PROVE  \E after \in Programmer!RegistersAfter(0, instruction) :
           registers' = [registers EXCEPT ![0] = after]
<1> DEFINE word == IF instruction.op = "sx" THEN vector_to_scalar_data[0] ELSE 0
           CoreValue(l, r) ==
             IF Written(l) /\ r = current.rd THEN WrittenValue(l)
             ELSE registers[0][l][r]
           IsaValue(l, r) ==
             IF /\ instruction.op \in Programmer!Computes
                /\ l \in Programmer!Lane(0, instruction) /\ r = instruction.rd
             THEN Programmer!Value(0, l, instruction)
             ELSE IF instruction.op = "sx" /\ l = Scalar /\ r = instruction.rd
             THEN word ELSE registers[0][l][r]
           after == [l \in Lanes |-> [r \in Stored(l) |-> IsaValue(l, r)]]
<1>1. TypeInv /\ DecodeInv /\ ComparisonInv
  BY DEF ExecutionInv, HandshakeInv
<1>2. /\ current = Decode(instruction, current) /\ instruction \in Instruction
      /\ current.rd = instruction.rd
      /\ instruction.op \in {"addi", "fadd", "seqi", "lui", "lw", "sw"} =>
           \A l \in Lanes :
             l \in Programmer!Lane(0, instruction) <=> LaneEnabled(l)
  BY <1>1, SameOperands DEF Working
<1>3. current_warp = 0 /\ Warps = {0}
  BY <1>1, OneWarp
<1>4. instruction.op # "seqi" /\ instruction.op \in Op
  BY <1>1, <1>2, <1>3
     DEF Executable, instruction, TypeInv, CoreInv, WarpInv, Instruction
<1>5. /\ current.write <=>
           instruction.op \in {"addi", "fadd", "seqi", "lui", "lw", "sx"}
      /\ current.scalar <=> \/ instruction.op \in {"beqz", "jal", "exit"}
                            \/ instruction.op # "sx" /\ instruction.scalar
      /\ current.mux = "VECTOR_TO_SCALAR" <=> instruction.op = "sx"
  <2>1. current.mux = MuxOf(instruction.op)
    BY <1>2 DEF Decode
  <2> QED
    BY <1>2, <2>1, DecodedFields DEF MuxOf
<1>6. ASSUME NEW l \in Lanes, NEW r \in Stored(l) PROVE CoreValue(l, r) = IsaValue(l, r)
  <2>1. CASE instruction.op \in {"addi", "fadd", "lui", "lw"}
    <3>1. Written(l) <=> LaneEnabled(l)
      BY <1>5, <2>1 DEF Written, LaneEnabled
    <3>2. LaneEnabled(l) => WrittenValue(l) = Programmer!Value(0, l, instruction)
      BY <2>1, ValueAgrees
    <3> QED
      BY <1>2, <2>1, <3>1, <3>2 DEF Programmer!Computes
  <2>2. CASE instruction.op = "sx"
    <3>1. Written(l) <=> l = Scalar
      BY <1>5, <2>2 DEF Written
    <3>2. WrittenValue(l) = vector_to_scalar_data[0]
      BY <1>3, <1>5, <2>2 DEF WrittenValue
    <3> QED
      BY <1>2, <2>2, <3>1, <3>2 DEF Programmer!Computes
  <2>3. CASE instruction.op \in {"sw", "beqz", "jal", "exit"}
    <3>1. ~Written(l)
      BY <1>5, <2>3 DEF Written
    <3> QED
      BY <2>3, <3>1 DEF Programmer!Computes
  <2> QED
    BY <1>4, <2>1, <2>2, <2>3 DEF Op
<1>7. registers' = [registers EXCEPT ![0] =
                      [l \in Lanes |-> [r \in Stored(l) |-> CoreValue(l, r)]]]
  BY <1>3 DEF RegisterStep
<1>8. [l \in Lanes |-> [r \in Stored(l) |-> CoreValue(l, r)]] = after
  <2> HIDE DEF CoreValue, IsaValue
  <2> QED
    BY <1>6
<1>9. after \in Programmer!RegistersAfter(0, instruction)
  <2>1. word \in IF instruction.op = "sx" THEN Programmer!Comparisons(0, instruction)
                                         ELSE {0}
    BY <1>1 DEF ComparisonInv
  <2> QED
    BY <2>1, SameInstructions DEF Programmer!RegistersAfter
<1> QED
  BY <1>7, <1>8, <1>9

LEMMA MemoryAgrees ==
  ASSUME NUM_WARPS = 1, ExecutionInv, currentState = "UPDATE", NEW a \in Word
  PROVE  memory[a] \in IF Programmer!Stores(0, instruction, a) = {} THEN {committed[a]}
                       ELSE Programmer!Stores(0, instruction, a)
<1>1. TypeInv /\ DecodeInv
  BY DEF ExecutionInv, HandshakeInv
<1>2. /\ current = Decode(instruction, current) /\ instruction \in Instruction
      /\ \A l \in Lanes :
           /\ Programmer!Read(0, l, instruction.rs2) = Rs2(l)
           /\ Programmer!Address(0, l, instruction) = RequestAddress(l)
      /\ instruction.op = "sw" => \A l \in Lanes :
           l \in Programmer!Lane(0, instruction) <=> LaneEnabled(l)
  BY <1>1, SameOperands DEF Working
<1>3. current.store <=> instruction.op = "sw"
  BY <1>2, DecodedFields
<1>4. Programmer!Lane(0, instruction) \subseteq Lanes
  BY SameInstructions
     DEF Programmer!Lane, Programmer!Active, Enabled, Lanes
<1>5. ASSUME NEW l \in Lanes
      PROVE  /\ Place(l) = "IDLE"
             /\ current.store =>
                  /\ lsu[l].state = "DONE" <=> LaneEnabled(l)
                  /\ LaneEnabled(l) => /\ lsu[l].address = RequestAddress(l)
                                       /\ lsu[l].data = Rs2(l)
  <2>1. LaneStage(l) /\ LaneFacts(l) /\ RequestInv(l)
    BY StagesTell DEF ExecutionInv, HandshakeInv
  <2> QED
    BY <2>1 DEF LaneFacts, LaneStage, Stage, Using, RequestInv, Working
<1>6. Performed(a) = {l \in Lanes : /\ instruction.op = "sw"
                                    /\ l \in Programmer!Lane(0, instruction)
                                    /\ Programmer!Address(0, l, instruction) = a}
  BY <1>2, <1>3, <1>5 DEF Performed
<1>7. \A l \in Performed(a) : lsu[l].data = Programmer!Read(0, l, instruction.rs2)
  BY <1>2, <1>3, <1>5, <1>6
<1>8. {lsu[l].data : l \in Performed(a)} = Programmer!Stores(0, instruction, a)
  BY <1>4, <1>6, <1>7 DEF Programmer!Stores
<1>9. Performed(a) = {} <=> Programmer!Stores(0, instruction, a) = {}
  BY <1>8
<1> QED
  BY <1>8, <1>9 DEF ExecutionInv, MemoryInv

-----------------------------------------------------------------------------
(***************************************************************************)
(* The refinement: the edge that ends an instruction is a step of the      *)
(* instruction set, a reset restarts its program, and no other edge is     *)
(* seen.                                                                   *)
(***************************************************************************)
LEMMA InitRefines ==
  ASSUME NUM_WARPS = 1, Init PROVE Programmer!Init
<1>1. {w \in Warps : warp_state[w] = "DONE"} = {}
  BY DEF Init, CoreReset
<1>2. program \in [Word -> Instruction] /\ committed \in [Word -> Word]
  BY CoreMemoryAssumption DEF Init
<1>3. /\ pc = [w \in Warps |-> 0]
      /\ registers = [w \in Warps |-> RegisterFile]
  BY DEF Init, CoreReset
<1> QED
  BY <1>1, <1>2, <1>3, SameInstructions DEF Programmer!Init

LEMMA ResetRefines ==
  ASSUME NUM_WARPS = 1, CommonReady, ExecutionInv,
         NEW fetching \in SUBSET Fetching, NEW answering \in AnswerSets,
         Edge(fetching, answering), core_reset
  PROVE  Programmer!Restart
<1>1. ResetStep
  BY DEF Edge
<1>2. TypeInv /\ currentState = "DONE"
  BY DEF ExecutionInv, HandshakeInv, Control
<1>3. {w \in Warps : warp_state[w] = "DONE"} = Warps
  BY <1>2, OneWarp
<1>4. {w \in Warps : warp_state'[w] = "DONE"} = {}
  BY <1>1 DEF ResetStep
<1> QED
  BY <1>1, <1>3, <1>4, SameInstructions DEF ResetStep, Programmer!Restart

LEMMA EndRefines ==
  ASSUME NUM_WARPS = 1, CommonReady, \A p \in Programs : Executable(p),
         ExecutionInv,
         NEW fetching \in SUBSET Fetching, NEW answering \in AnswerSets,
         Edge(fetching, answering), ~core_reset, currentState = "UPDATE"
  PROVE  Programmer!Step(0)
<1>1. /\ HandshakeInv /\ HandshakeInv' /\ WritesWhileWaiting'
      /\ \A l \in Lanes : LaneFacts(l)'
  BY EdgeFacts
<1>2. /\ TypeInv /\ TypeInv' /\ Control /\ DecodeInv /\ running
      /\ CoreEdge(fetching) /\ SchedulerStep /\ RegisterStep /\ MemoryEdge
  BY <1>1 DEF HandshakeInv, ExecutionInv, Control, Edge, CoreEdge
<1>3. /\ Warps = {0} /\ current_warp = 0 /\ currentState = warp_state[0]
      /\ currentState' = warp_state'[0]
  BY <1>2, OnlyWarp
<1>4. current.halt <=> instruction.op = "exit"
  <2>1. current = Decode(instruction, current)
    BY <1>2 DEF DecodeInv, Working
  <2> QED
    BY <2>1, DecodedFields
<1>5. currentState' = IF current.halt THEN "DONE" ELSE "FETCH"
  BY <1>2, WarpEdge DEF WarpStep
<1>6. /\ {w \in Warps : warp_state[w] = "DONE"} = {}
      /\ {w \in Warps : warp_state'[w] = "DONE"} =
           IF instruction.op = "exit" THEN {0} ELSE {}
  BY <1>3, <1>4, <1>5
<1>7. pc' = [pc EXCEPT ![0] = Programmer!PcAfter(0, instruction)]
  <2>1. pc' = IF current.halt THEN pc ELSE [pc EXCEPT ![0] = ResolvedNextPc]
    BY <1>2, <1>3 DEF SchedulerStep
  <2>2. pc = [pc EXCEPT ![0] = pc[0]]
    BY <1>2 DEF TypeInv, WarpInv
  <2> QED
    BY <2>1, <2>2, PcAgrees
<1>8. \E after \in Programmer!RegistersAfter(0, instruction) :
        registers' = [registers EXCEPT ![0] = after]
  BY <1>2, RegistersAgree
<1>9. memory' = memory
  <2>1. currentState' \notin Working
    BY <1>5 DEF Working
  <2>2. \A l \in Lanes : Place(l)' # "WRITE_WAITING"
    BY <1>1, <2>1 DEF LaneFacts
  <2> QED
    BY <1>1, <1>2, <2>2, NothingWritten
<1>10. committed' = memory /\ program' = program /\ memory \in [Word -> Word]
  BY <1>2, <1>9 DEF CoreEdge, Commit, TypeInv, CoreInv
<1>11. \A a \in Word : committed'[a] \in
         IF Programmer!Stores(0, instruction, a) = {} THEN {committed[a]}
         ELSE Programmer!Stores(0, instruction, a)
  BY <1>10, MemoryAgrees
<1> QED
  BY <1>6, <1>7, <1>8, <1>10, <1>11, SameInstructions
     DEF Programmer!Step, instruction

LEMMA OtherEdgesStutter ==
  ASSUME NUM_WARPS = 1, CommonReady, ExecutionInv,
         NEW fetching \in SUBSET Fetching, NEW answering \in AnswerSets,
         Edge(fetching, answering), ~core_reset, currentState # "UPDATE"
  PROVE  UNCHANGED Programmer!vars
<1>1. HandshakeInv'
  BY EdgeFacts
<1>2. /\ TypeInv /\ TypeInv' /\ Control /\ FetchInv /\ CoreEdge(fetching)
  BY <1>1 DEF HandshakeInv, ExecutionInv, Edge
<1>3. /\ Warps = {0} /\ currentState = warp_state[0]
      /\ currentState' = warp_state'[0]
  BY <1>2, OnlyWarp
<1>4. registers' = registers /\ program' = program /\ committed' = committed
  BY <1>2, Steady DEF CoreEdge, Commit
<1>5. pc' = pc
  <2>1. CASE running
    BY <1>2, <2>1 DEF CoreEdge, SchedulerStep
  <2>2. CASE ~running
    <3>1. pc[0] = 0 /\ pc' = [w \in Warps |-> 0] /\ pc \in [Warps -> Word]
      BY <1>2, <2>2 DEF CoreEdge, StartStep, FetchInv, TypeInv, WarpInv
    <3> QED
      BY <1>3, <3>1
  <2> QED
    BY <2>1, <2>2
<1>6. currentState' = "DONE" <=> currentState = "DONE"
  <2>1. WarpStep /\ currentState \in WarpState
    BY <1>2, WarpEdge, CurrentType DEF TypeInv
  <2>2. CASE currentState = "EXECUTE"
    BY <1>2, <2>1, <2>2 DEF WarpStep, AfterExecute, Control
  <2>3. CASE currentState # "EXECUTE"
    BY <1>2, <2>1, <2>3 DEF WarpStep, WarpState, Control
  <2> QED
    BY <2>2, <2>3
<1>7. {w \in Warps : warp_state'[w] = "DONE"} = {w \in Warps : warp_state[w] = "DONE"}
  BY <1>3, <1>6
<1> QED
  BY <1>4, <1>5, <1>7 DEF Programmer!vars

LEMMA StepRefines ==
  ASSUME NUM_WARPS = 1, CommonReady, \A p \in Programs : Executable(p),
         ExecutionInv, [Next]_allVars
  PROVE  [Programmer!Next \/ Programmer!Restart]_(Programmer!vars)
<1>1. CASE Next
  <2>1. PICK fetching \in SUBSET Fetching, answering \in AnswerSets :
          Edge(fetching, answering)
    BY <1>1 DEF Next
  <2>2. CASE core_reset
    BY <2>1, <2>2, ResetRefines
  <2>3. CASE ~core_reset /\ currentState = "UPDATE"
    <3>1. Programmer!Step(0)
      BY <2>1, <2>3, EndRefines
    <3>2. 0 \in Warps
      BY IsaAssumption DEF Warps
    <3> QED
      BY <3>1, <3>2, SameInstructions DEF Programmer!Next
  <2>4. CASE ~core_reset /\ currentState # "UPDATE"
    BY <2>1, <2>4, OtherEdgesStutter
  <2> QED
    BY <2>2, <2>3, <2>4
<1>2. CASE UNCHANGED allVars
  BY <1>2 DEF allVars, vars, memoryVars, schedulerVars, warpVars,
              Programmer!vars
<1> QED
  BY <1>1, <1>2

(***************************************************************************)
(* Core, links, controller and memory execute the programs of all blocks   *)
(* as the instruction set says: every instruction takes effect once, on    *)
(* the words that the ones before it have left, in the lanes that the mask *)
(* enables, whatever the memories' delays and the number of channels that  *)
(* serve the lanes (compute_core.sv, lsu.sv, gpu.sv 213-226).              *)
(***************************************************************************)
THEOREM ImplementsIsa ==
  ASSUME NUM_WARPS = 1, CommonReady, \A p \in Programs : Executable(p)
  PROVE  Spec => ExecutesIsa
<1>1. Init => Programmer!Init /\ ExecutionInv
  BY InitRefines, ExecutionInit
<1>2. ExecutionInv /\ [Next]_allVars => ExecutionInv'
  BY ExecutionStep
<1>3. ExecutionInv /\ [Next]_allVars =>
        [Programmer!Next \/ Programmer!Restart]_(Programmer!vars)
  BY StepRefines
<1> QED
  BY <1>1, <1>2, <1>3, PTL DEF Spec, ExecutesIsa, Programmer!BlocksSpec

=============================================================================

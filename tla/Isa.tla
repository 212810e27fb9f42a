-------------------------------- MODULE Isa --------------------------------
(***************************************************************************)
(* The instruction set as its programmer sees it (docs/ISA.md): every warp *)
(* executes its instructions one at a time and each takes effect at once.  *)
(* A scalar instruction works on the scalar registers of its warp, a       *)
(* vector instruction on the registers of every thread that the execution  *)
(* mask, a scalar register, enables.                                       *)
(* Floating-point addition is an addition that the hardware happens to do  *)
(* in another unit.                                                        *)
(***************************************************************************)
EXTENDS Instructions

VARIABLES
  program,    \* per address, the instruction there
  pc,         \* per warp
  registers,  \* per warp and lane, the registers that can be written
  memory,
  halted      \* the warps that have executed exit

vars == <<program, pc, registers, memory, halted>>

Read(w, l, r) == Contents(registers[w], w, l, r)

Active(w) == Enabled(registers[w])

Lane(w, instr) == IF instr.scalar THEN {Scalar} ELSE Active(w)

-----------------------------------------------------------------------------
Less(w, i, instr) == Read(w, i, instr.rs1) < Read(w, i, instr.rs2)

Address(w, l, instr) == (Read(w, l, instr.rs1) + instr.imm) % M

(***************************************************************************)
(* What an instruction that computes puts into rd of lane l.               *)
(***************************************************************************)
Value(w, l, instr) ==
  LET a == Read(w, l, instr.rs1)
  IN CASE instr.op = "addi" -> (a + instr.imm) % M
       [] instr.op = "fadd" -> (a + Read(w, l, instr.rs2)) % M
       [] instr.op = "seqi" -> IF a = instr.imm THEN 1 ELSE 0
       [] instr.op = "lui" -> instr.imm
       [] instr.op = "lw" -> memory[Address(w, l, instr)]

Computes == {"addi", "fadd", "seqi", "lui", "lw"}

(***************************************************************************)
(* sx.slt collects the comparisons of the enabled threads in a scalar      *)
(* register; the bits of disabled threads are left open.                   *)
(***************************************************************************)
Comparisons(w, instr) ==
  {word \in 0 .. 2 ^ THREADS_PER_WARP - 1 :
     \A i \in Active(w) : Bit(word, i) <=> Less(w, i, instr)}

RegistersAfter(w, instr) ==
  {[l \in Lanes |-> [r \in Stored(l) |->
      IF instr.op \in Computes /\ l \in Lane(w, instr) /\ r = instr.rd
      THEN Value(w, l, instr)
      ELSE IF instr.op = "sx" /\ l = Scalar /\ r = instr.rd
      THEN word ELSE registers[w][l][r]]] :
   word \in IF instr.op = "sx" THEN Comparisons(w, instr) ELSE {0}}

(***************************************************************************)
(* Threads that store to one address race: any of them may be the last.    *)
(***************************************************************************)
Stores(w, instr, a) ==
  {Read(w, l, instr.rs2) :
     l \in {l \in Lane(w, instr) : instr.op = "sw" /\ Address(w, l, instr) = a}}

PcAfter(w, instr) ==
  CASE instr.op = "jal" -> (pc[w] + instr.imm) % M
    [] instr.op = "beqz" /\ Read(w, Scalar, instr.rs1) = 0 ->
         (pc[w] + instr.imm) % M
    [] instr.op = "exit" -> pc[w]
    [] OTHER -> (pc[w] + 1) % M

Step(w) ==
  LET instr == program[pc[w]]
  IN /\ w \notin halted
     /\ halted' = halted \cup (IF instr.op = "exit" THEN {w} ELSE {})
     /\ pc' = [pc EXCEPT ![w] = PcAfter(w, instr)]
     /\ \E after \in RegistersAfter(w, instr) :
          registers' = [registers EXCEPT ![w] = after]
     /\ memory' \in [Word -> Word]
     /\ \A a \in Word : memory'[a] \in IF Stores(w, instr, a) = {} THEN {memory[a]}
                                       ELSE Stores(w, instr, a)
     /\ UNCHANGED program

Init == /\ program \in [Word -> Instruction]
        /\ pc = [w \in Warps |-> 0]
        /\ registers = [w \in Warps |-> RegisterFile]
        /\ memory \in [Word -> Word]
        /\ halted = {}

Next == \E w \in Warps : Step(w)

Spec == Init /\ [][Next]_vars

(***************************************************************************)
(* The next block of a kernel starts like the first one, in the memory     *)
(* that the one before has left.                                           *)
(***************************************************************************)
Restart ==
  /\ halted = Warps
  /\ pc' = [w \in Warps |-> 0]
  /\ registers' = [w \in Warps |-> RegisterFile]
  /\ halted' = {}
  /\ UNCHANGED <<program, memory>>

BlocksSpec == Init /\ [][Next \/ Restart]_vars

=============================================================================

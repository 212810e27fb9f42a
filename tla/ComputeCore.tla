---------------------------- MODULE ComputeCore ----------------------------
(***************************************************************************)
(* A compute core (hardware/rtl/lock_in/compute_core.sv with its fetchers, *)
(* decoders, register files, ALUs and load-store units).  Every warp has a *)
(* fetcher, a decoder and registers of its own; one warp at a time, the    *)
(* current one, uses the lanes: per thread, and once for the scalar        *)
(* registers, an ALU, a floating-point pipeline and an LSU.                *)
(*                                                                         *)
(* All registers change at the clock edge and read the others as they were *)
(* before it, except that the scheduler already sees a warp whose fetch    *)
(* ends at this edge as decoding.                                          *)
(***************************************************************************)
EXTENDS Instructions

VARIABLES
  program,       \* the instruction memory
  memory,        \* the data memory
  ready,         \* per lane: the kinds of request that are answered
  answer,        \* per lane: the word a read was answered with
  running,       \* start_execution
  done,
  warp_state,
  pc,
  current_warp,
  fetcher_state,
  fetched,       \* per warp: fetched_instruction
  decoded,       \* per warp: the decoder's registers
  registers,     \* per warp: the register files
  operand,       \* per warp and lane: the rs1 and rs2 the files put out
  alu,           \* per lane: the two pipeline stages of the integer ALU
  fpu,           \* per lane: the four stages of the floating-point ALU
  lsu,           \* per lane: state, request, output
  vector_to_scalar_data,
  committed      \* history: the data memory when an instruction last ended

memoryVars == <<program, memory, ready, answer, committed>>
schedulerVars == <<running, done, warp_state, pc, current_warp,
                   vector_to_scalar_data>>
warpVars == <<fetcher_state, fetched, decoded, registers, operand>>
laneVars == <<alu, fpu, lsu>>
vars == <<memoryVars, schedulerVars, warpVars, laneVars>>

WarpState == {"IDLE", "FETCH", "DECODE", "REQUEST", "REG_WAIT", "WAIT",
              "EXECUTE", "ALU_WAIT", "INT_ALU_WAIT", "UPDATE", "DONE"}

-----------------------------------------------------------------------------
(***************************************************************************)
(* decoder.sv.  alu is the only output that an instruction without an ALU  *)
(* operation leaves as it was.  Branches, jumps and exit are scalar.       *)
(***************************************************************************)
AluOf(op) == CASE op \in {"addi", "lw", "sw"} -> "ADDI"
               [] op = "sx" -> "SLT"
               [] op = "fadd" -> "FADD"
               [] op = "seqi" -> "SEQI"
               [] op = "beqz" -> "BEQZ"
               [] op = "jal" -> "JAL"

RegularInt == {"ADDI", "SLT"}  \* below FADD in alu_instruction_t
Floating == {"FADD"}           \* from FADD up to BEQZ
AluInstruction == RegularInt \cup Floating \cup {"SEQI", "BEQZ", "JAL"}

MuxOf(op) == CASE op = "lw" -> "LSU_OUT"
               [] op = "lui" -> "IMMEDIATE"
               [] op = "sx" -> "VECTOR_TO_SCALAR"
               [] OTHER -> "ALU_OUT"

Decode(instr, old) ==
  [alu |-> IF instr.op \in {"lui", "exit"} THEN old.alu ELSE AluOf(instr.op),
   scalar |-> \/ instr.op \in {"beqz", "jal", "exit"}
              \/ instr.op # "sx" /\ instr.scalar,
   write |-> instr.op \in {"addi", "fadd", "seqi", "lui", "lw", "sx"},
   mux |-> MuxOf(instr.op),
   load |-> instr.op = "lw", store |-> instr.op = "sw",
   branch |-> instr.op = "beqz", halt |-> instr.op = "exit",
   rd |-> instr.rd, rs1 |-> instr.rs1, rs2 |-> instr.rs2, imm |-> instr.imm]

DecodeStep ==
  decoded' = [w \in Warps |-> IF warp_state[w] = "DECODE"
                              THEN Decode(fetched[w], decoded[w])
                              ELSE decoded[w]]

(***************************************************************************)
(* fetcher.sv.  fetching is the set of warps whose instruction arrives at  *)
(* this edge.                                                              *)
(***************************************************************************)
FetcherStep(fetching) ==
  /\ fetcher_state' = [w \in Warps |->
       CASE fetcher_state[w] = "IDLE" /\ warp_state[w] = "FETCH" -> "FETCHING"
         [] fetcher_state[w] = "FETCHING" /\ w \in fetching -> "DONE"
         [] fetcher_state[w] = "DONE" /\ warp_state[w] = "DECODE" -> "IDLE"
         [] OTHER -> fetcher_state[w]]
  /\ fetched' = [w \in Warps |->
       IF fetcher_state[w] = "FETCHING" /\ w \in fetching THEN program[pc[w]]
                                                           ELSE fetched[w]]

-----------------------------------------------------------------------------
(***************************************************************************)
(* The lanes work for the current warp.                                    *)
(***************************************************************************)
current == decoded[current_warp]
currentState == warp_state[current_warp]

LaneEnabled(l) ==
  IF l = Scalar THEN current.scalar
  ELSE ~current.scalar /\ l \in Enabled(registers[current_warp])

Operands(l) == operand[current_warp][l]

(***************************************************************************)
(* alu.sv: the first stage keeps the inputs, the second the result.        *)
(***************************************************************************)
AluEnabled(l) ==
  /\ LaneEnabled(l)
  /\ \/ current.alu \in RegularInt
     \/ l = Scalar /\ (current.branch \/ current.alu = "JAL")

AluResult(in) ==
  CASE in.alu = "ADDI" -> (in.rs1 + in.imm) % M
    [] in.alu = "SLT" -> IF in.rs1 < in.rs2 THEN 1 ELSE 0
    [] in.alu = "BEQZ" -> IF in.rs1 = 0 THEN 1 ELSE 0
    [] in.alu = "JAL" -> (in.pc + in.imm) % M
    [] OTHER -> 0

AluNext(l) ==
  IF AluEnabled(l)
  THEN [inputs |-> [alu |-> current.alu, rs1 |-> Operands(l).rs1,
                    rs2 |-> Operands(l).rs2, imm |-> current.imm,
                    pc |-> pc[current_warp]],
        result |-> AluResult(alu[l].inputs)]
  ELSE alu[l]

AluStep == alu' = [l \in Lanes |-> AluNext(l)]

(***************************************************************************)
(* floating_alu.sv: four stages without a stall; its valid output is high  *)
(* from the fourth edge after power-up on.                                 *)
(***************************************************************************)
FpuResult(in) == IF in.alu = "FADD" THEN (in.rs1 + in.rs2) % M ELSE 0

FpuStep ==
  fpu' = [l \in Lanes |->
    <<FpuResult([alu |-> current.alu, rs1 |-> Operands(l).rs1,
                 rs2 |-> Operands(l).rs2]), fpu[l][1], fpu[l][2], fpu[l][3]>>]

ScalarAluOut == IF current.alu \in Floating THEN fpu[Scalar][4]
                                            ELSE alu[Scalar].result

VectorAluOut(i) == IF current.alu \in RegularInt THEN alu[i].result
                                                 ELSE fpu[i][4]

(***************************************************************************)
(* lsu.sv.                                                                 *)
(***************************************************************************)
Kind == IF current.load THEN "read" ELSE "write"

LsuNext(l) ==
  CASE lsu[l].state = "IDLE" /\ currentState = "REQUEST" ->
         [lsu[l] EXCEPT !.state = "REQUESTING"]
    [] lsu[l].state = "REQUESTING" ->
         [lsu[l] EXCEPT !.state = "WAITING", !.valid = Kind,
                        !.address = (Operands(l).rs1 + current.imm) % M,
                        !.data = IF current.store THEN Operands(l).rs2 ELSE @]
    [] lsu[l].state = "WAITING" /\ Kind \in ready[l] ->
         [lsu[l] EXCEPT !.state = "DONE",
                        !.valid = IF @ = Kind THEN "none" ELSE @,
                        !.out = IF current.load THEN answer[l] ELSE @]
    [] lsu[l].state = "DONE" /\ currentState = "UPDATE" ->
         [lsu[l] EXCEPT !.state = "IDLE"]
    [] OTHER -> lsu[l]

LsuStep ==
  lsu' = [l \in Lanes |-> IF LaneEnabled(l) /\ (current.load \/ current.store)
                          THEN LsuNext(l) ELSE lsu[l]]

(***************************************************************************)
(* The memory behind the LSUs answers the requests of answering, one after *)
(* another in an order of its own, and holds ready until valid drops.      *)
(***************************************************************************)
Unanswered == {l \in Lanes : lsu[l].valid # "none" /\ ready[l] = {}}

Writers(answering, a) ==
  {l \in answering : lsu[l].valid = "write" /\ lsu[l].address = a}

MemoryStep(answering) ==
  /\ ready' = [l \in Lanes |-> IF l \in answering THEN {lsu[l].valid}
                               ELSE IF lsu[l].valid = "none" THEN {}
                               ELSE ready[l]]
  /\ answer' = [l \in Lanes |-> IF l \in answering /\ lsu[l].valid = "read"
                                THEN memory[lsu[l].address] ELSE answer[l]]
  /\ memory' \in {m \in [Word -> Word] : \A a \in Word :
       IF Writers(answering, a) = {} THEN m[a] = memory[a]
       ELSE \E l \in Writers(answering, a) : m[a] = lsu[l].data}

(***************************************************************************)
(* The instruction memory stays; an instruction that ends commits the data *)
(* memory as it is now.                                                    *)
(***************************************************************************)
Commit == /\ committed' = IF currentState = "UPDATE" THEN memory' ELSE committed
          /\ UNCHANGED program

-----------------------------------------------------------------------------
(***************************************************************************)
(* scalar_reg_file.sv and reg_file.sv: the files of the current warp put   *)
(* out their operands at every edge and are written in UPDATE.             *)
(***************************************************************************)
Written(l) ==
  /\ currentState = "UPDATE" /\ current.write
  /\ IF l = Scalar THEN current.scalar \/ current.mux = "VECTOR_TO_SCALAR"
     ELSE LaneEnabled(l) /\ current.mux # "VECTOR_TO_SCALAR"

WrittenValue(l) ==
  CASE current.mux = "LSU_OUT" -> lsu[l].out
    [] current.mux = "IMMEDIATE" -> current.imm
    [] current.mux = "VECTOR_TO_SCALAR" -> vector_to_scalar_data[current_warp]
    [] OTHER -> IF l = Scalar THEN ScalarAluOut ELSE VectorAluOut(l)

Reads(l) == l = Scalar \/ l \in Enabled(registers[current_warp])

RegisterStep ==
  LET file == registers[current_warp]
      w == current_warp
  IN /\ registers' = [registers EXCEPT ![w] = [l \in Lanes |->
          [r \in Stored(l) |-> IF Written(l) /\ r = current.rd
                               THEN WrittenValue(l) ELSE file[l][r]]]]
     /\ operand' = [operand EXCEPT ![w] = [l \in Lanes |->
          IF Reads(l) THEN [rs1 |-> Contents(file, w, l, current.rs1),
                            rs2 |-> Contents(file, w, l, current.rs2)]
          ELSE operand[w][l]]]

-----------------------------------------------------------------------------
(***************************************************************************)
(* The scheduler of compute_core.sv.                                       *)
(***************************************************************************)
Switching == {"UPDATE", "DONE", "WAIT", "ALU_WAIT", "INT_ALU_WAIT"}

Fetched(w) == warp_state[w] = "FETCH" /\ fetcher_state[w] = "DONE"

Eligible(w) == Fetched(w) \/ warp_state[w] \notin {"IDLE", "FETCH", "DONE"}

After(k) == (current_warp + 1 + k) % NUM_WARPS

\* Mutant: the search for the next warp does not wrap around.
NextWarpNoWrap == IF currentState \in Switching THEN current_warp + 1
                                                ELSE current_warp

NextWarp ==
  LET found == {k \in Warps : Eligible(After(k))}
  IN IF currentState \in Switching /\ found # {}
     THEN After(CHOOSE k \in found : \A j \in found : k <= j)
     ELSE current_warp

\* Mutant: WAIT waits for the LSUs to be idle, which they are after UPDATE.
AnyLsuBusy == \E l \in Lanes : lsu[l].state # "IDLE"

\* Mutant: the scalar LSU is forgotten.
AnyThreadLsuWaiting == \E l \in Threads : lsu[l].state \in {"REQUESTING", "WAITING"}

AnyLsuWaiting == \E l \in Lanes : lsu[l].state \in {"REQUESTING", "WAITING"}

\* Mutant: no cycle for the fourth stage of the floating-point ALU.
AfterExecuteAtOnce ==
  IF \/ current.alu \in RegularInt \/ current.branch \/ current.alu = "JAL"
  THEN "INT_ALU_WAIT" ELSE "UPDATE"

AfterExecute ==
  IF current.alu \in Floating THEN "ALU_WAIT"
  ELSE IF current.alu \in RegularInt \/ current.branch \/ current.alu = "JAL"
  THEN "INT_ALU_WAIT" ELSE "UPDATE"

AfterCurrent ==
  CASE currentState = "DECODE" -> "REQUEST"
    [] currentState = "REQUEST" -> "REG_WAIT"
    [] currentState = "REG_WAIT" -> "WAIT"
    [] currentState = "WAIT" /\ ~AnyLsuWaiting -> "EXECUTE"
    [] currentState = "EXECUTE" -> AfterExecute
    [] currentState \in {"INT_ALU_WAIT", "ALU_WAIT"} -> "UPDATE"
    [] currentState = "UPDATE" -> IF current.halt THEN "DONE" ELSE "FETCH"
    [] OTHER -> currentState

ResolvedNextPc ==
  CASE current.branch /\ ScalarAluOut = 1 ->
         (pc[current_warp] + current.imm) % M
    [] ~(current.branch /\ ScalarAluOut = 1) /\ current.alu = "JAL" ->
         ScalarAluOut
    [] OTHER -> (pc[current_warp] + 1) % M

WordOf(bits) == CHOOSE n \in 0 .. 2 ^ THREADS_PER_WARP - 1 :
                  \A i \in Threads : Bit(n, i) <=> i \in bits

Comparison == WordOf({i \in Threads : VectorAluOut(i) % 2 = 1})

SchedulerStep ==
  /\ warp_state' = [w \in Warps |-> CASE Fetched(w) -> "DECODE"
                                      [] w = current_warp /\ ~Fetched(w) -> AfterCurrent
                                      [] OTHER -> warp_state[w]]
  /\ pc' = IF currentState = "UPDATE" /\ ~current.halt
           THEN [pc EXCEPT ![current_warp] = ResolvedNextPc] ELSE pc
  /\ current_warp' = NextWarp
  /\ vector_to_scalar_data' =
       IF currentState = "EXECUTE"
       THEN [vector_to_scalar_data EXCEPT ![current_warp] =
               IF current.mux = "VECTOR_TO_SCALAR" THEN Comparison ELSE 0]
       ELSE vector_to_scalar_data
  /\ done' = (\A w \in Warps : warp_state[w] = "DONE")
  /\ UNCHANGED running

StartStep ==
  /\ running' = TRUE
  /\ warp_state' = [w \in Warps |-> "FETCH"]
  /\ pc' = [w \in Warps |-> 0] /\ current_warp' = 0
  /\ UNCHANGED <<done, vector_to_scalar_data>>

CoreEdge(fetching) ==
  /\ IF running THEN SchedulerStep ELSE StartStep
  /\ FetcherStep(fetching)
  /\ DecodeStep
  /\ RegisterStep
  /\ AluStep /\ FpuStep /\ LsuStep
  /\ Commit

-----------------------------------------------------------------------------
(***************************************************************************)
(* The registers after reset.  No reset clears the decoder's alu, which    *)
(* keeps the last ALU operation of the block before; the pipelines of the  *)
(* threads' ALUs and of the floating-point ALUs and vector_to_scalar_data  *)
(* have no reset either.                                                   *)
(***************************************************************************)
Blank == [op |-> "exit", scalar |-> FALSE, rd |-> "zero", rs1 |-> "zero",
          rs2 |-> "zero", imm |-> 0]

DecoderReset(kept) ==
  [Decode(Blank, [alu |-> kept]) EXCEPT !.halt = FALSE, !.scalar = FALSE]

NoOperands == [rs1 |-> 0, rs2 |-> 0]

IdleLsu == [state |-> "IDLE", valid |-> "none", address |-> 0, data |-> 0,
            out |-> 0]

CoreReset ==
  /\ running = FALSE /\ done = FALSE
  /\ warp_state = [w \in Warps |-> "IDLE"]
  /\ pc = [w \in Warps |-> 0] /\ current_warp = 0
  /\ fetcher_state = [w \in Warps |-> "IDLE"]
  /\ fetched = [w \in Warps |-> Blank]
  /\ registers = [w \in Warps |-> RegisterFile]
  /\ operand = [w \in Warps |-> [l \in Lanes |-> NoOperands]]
  /\ lsu = [l \in Lanes |-> IdleLsu]

EmptyAlu ==
  [inputs |-> [alu |-> "NOP", rs1 |-> 0, rs2 |-> 0, imm |-> 0, pc |-> 0],
   result |-> 0]

EmptyPipelines ==
  /\ alu = [l \in Lanes |-> EmptyAlu]
  /\ fpu = [l \in Lanes |-> <<0, 0, 0, 0>>]
  /\ vector_to_scalar_data = [w \in Warps |-> 0]

CoreTypeOK ==
  /\ memory \in [Word -> Word] /\ committed \in [Word -> Word]
  /\ ready \in [Lanes -> SUBSET {"read", "write"}]
  /\ answer \in [Lanes -> Word]
  /\ running \in BOOLEAN /\ done \in BOOLEAN
  /\ warp_state \in [Warps -> WarpState]
  /\ pc \in [Warps -> Word] /\ current_warp \in Warps
  /\ fetcher_state \in [Warps -> {"IDLE", "FETCHING", "DONE"}]
  /\ \A w \in Warps : decoded[w].alu \in AluInstruction
  /\ \A w \in Warps, l \in Lanes : registers[w][l] \in [Stored(l) -> Word]
  /\ \A l \in Lanes : /\ alu[l].result \in Word
                      /\ lsu[l].state \in {"IDLE", "REQUESTING", "WAITING", "DONE"}
  /\ vector_to_scalar_data \in [Warps -> Word]

Fetching == {w \in Warps : fetcher_state[w] = "FETCHING"}

=============================================================================

----------------------------- MODULE CoreMemory -----------------------------
(***************************************************************************)
(* A core behind the data memory controller, as gpu.sv wires them: between *)
(* each load-store unit and the controller there is a register for every   *)
(* wire, in both directions.  One block after the other runs the same      *)
(* program; between two blocks the dispatcher resets the core, but neither *)
(* the link registers nor the controller.                                  *)
(***************************************************************************)
EXTENDS ComputeCore

CONSTANTS
  NUM_CHANNELS,
  AnswerSets,    \* the sets of channels whose ready the memory raises
  Programs,      \* the instruction memories
  StartMemory,   \* the data memory before the first block
  Kept,          \* the ALU operations a block before that may have ended with
  NUM_BLOCKS

VARIABLES
  consumer_read, consumer_write,  \* links to the controller, per lane
  consumer_read_ready, consumer_read_data, consumer_write_ready,
  channel, channel_serving_consumer,
  core_reset,
  blocks_done

ASSUME CoreMemoryAssumption ==
  /\ Programs \subseteq [Word -> Instruction]
  /\ StartMemory \in [Word -> Word]
  /\ Kept \subseteq AluInstruction
  /\ NUM_CHANNELS \in Nat \ {0}
  /\ NUM_BLOCKS \in Nat \ {0}

Controller == INSTANCE MemController WITH
                NUM_CONSUMERS <- THREADS_PER_WARP + 1, WRITE_ENABLE <- TRUE,
                Address <- Word, Data <- Word, ZeroAddress <- 0, ZeroData <- 0

linkVars == <<consumer_read, consumer_write>>
allVars == <<vars, linkVars, Controller!controllerVars, core_reset, blocks_done>>

Init ==
  /\ program \in Programs
  /\ memory = StartMemory /\ committed = StartMemory
  /\ ready = [l \in Lanes |-> {}] /\ answer = [l \in Lanes |-> 0]
  /\ CoreReset /\ EmptyPipelines
  /\ \E kept \in Kept : decoded = [w \in Warps |-> DecoderReset(kept)]
  /\ Controller!ControllerInit
  /\ consumer_read = [l \in Lanes |-> [valid |-> FALSE, address |-> 0]]
  /\ consumer_write = [l \in Lanes |-> [valid |-> FALSE, address |-> 0, data |-> 0]]
  /\ core_reset = FALSE /\ blocks_done = 0

-----------------------------------------------------------------------------
\* Mutant: the links keep a ready that they have seen until the next request.
LinkStepSticky ==
  /\ consumer_read' = [l \in Lanes |->
       [valid |-> lsu[l].valid = "read", address |-> lsu[l].address]]
  /\ consumer_write' = [l \in Lanes |->
       [valid |-> lsu[l].valid = "write", address |-> lsu[l].address,
        data |-> lsu[l].data]]
  /\ ready' = [l \in Lanes |-> IF lsu[l].valid = "none" THEN ready[l] ELSE
                 {kind \in {"read", "write"} :
                    l \in IF kind = "read" THEN consumer_read_ready
                                           ELSE consumer_write_ready}]
  /\ answer' = consumer_read_data

(***************************************************************************)
(* The links: requests go one way, ready and data the other.               *)
(***************************************************************************)
LinkStep ==
  /\ consumer_read' = [l \in Lanes |->
       [valid |-> lsu[l].valid = "read", address |-> lsu[l].address]]
  /\ consumer_write' = [l \in Lanes |->
       [valid |-> lsu[l].valid = "write", address |-> lsu[l].address,
        data |-> lsu[l].data]]
  /\ ready' = [l \in Lanes |-> {kind \in {"read", "write"} :
                 l \in IF kind = "read" THEN consumer_read_ready
                                        ELSE consumer_write_ready}]
  /\ answer' = consumer_read_data

(***************************************************************************)
(* The memory: reads see the words from before the edge, and the channels  *)
(* that have a write after the edge get it written, the last one's last.   *)
(***************************************************************************)
ReadData == [i \in Controller!Channels |-> memory[channel[i].mem_read_address]]

Writing(a) == {i \in Controller!Channels :
                 channel'[i].mem_write_valid /\ channel'[i].mem_write_address = a}

MemoryEdge ==
  memory' = [a \in Word |-> IF Writing(a) = {} THEN memory[a]
                            ELSE channel'[Controller!Last(Writing(a))].mem_write_data]

(***************************************************************************)
(* The dispatcher resets a core that is done; the next block starts behind *)
(* that.                                                                   *)
(***************************************************************************)
ResetStep ==
  /\ running' = FALSE /\ done' = FALSE
  /\ warp_state' = [w \in Warps |-> "IDLE"]
  /\ pc' = [w \in Warps |-> 0] /\ current_warp' = 0
  /\ fetcher_state' = [w \in Warps |-> "IDLE"]
  /\ fetched' = [w \in Warps |-> Blank]
  /\ registers' = [w \in Warps |-> RegisterFile]
  /\ operand' = [w \in Warps |-> [l \in Lanes |-> NoOperands]]
  /\ lsu' = [l \in Lanes |-> IdleLsu]
  /\ decoded' = [w \in Warps |-> DecoderReset(decoded[w].alu)]
  /\ alu' = [l \in Lanes |-> IF l = Scalar THEN EmptyAlu ELSE AluNext(l)]
  /\ FpuStep
  /\ UNCHANGED <<program, committed, vector_to_scalar_data>>

Finished == done /\ ~core_reset /\ blocks_done = NUM_BLOCKS - 1

Edge(fetching, answering) ==
  /\ ~Finished
  /\ Controller!ControllerStep(answering, ReadData, answering)
  /\ LinkStep /\ MemoryEdge
  /\ IF core_reset THEN ResetStep ELSE CoreEdge(fetching)
  /\ core_reset' = (done /\ ~core_reset)
  /\ blocks_done' = IF core_reset THEN blocks_done + 1 ELSE blocks_done

Next == \E fetching \in SUBSET Fetching, answering \in AnswerSets :
          Edge(fetching, answering)

Spec == Init /\ [][Next]_allVars

(***************************************************************************)
(* The clock keeps ticking; time and again both memories answer all that   *)
(* they are asked at one edge, as those of gpu_tb.cpp do at every edge.    *)
(***************************************************************************)
FairSpec == Spec /\ WF_allVars(Edge(Fetching, Controller!Channels))

-----------------------------------------------------------------------------
TypeOK == /\ program \in Programs /\ CoreTypeOK
          /\ Controller!ControllerTypeOK
          /\ core_reset \in BOOLEAN /\ blocks_done \in 0 .. NUM_BLOCKS - 1

\* nothing of an earlier request of lane l is left between its LSU and the memory
Quiet(l) ==
  /\ ready[l] = {}
  /\ ~consumer_read[l].valid /\ ~consumer_write[l].valid
  /\ l \notin consumer_read_ready \cup consumer_write_ready
  /\ l \notin channel_serving_consumer
  /\ \A i \in Controller!Channels :
       channel[i].state # "IDLE" => channel[i].current_consumer # l

(***************************************************************************)
(* Ready takes two edges back to the LSU and valid two to the controller,  *)
(* so both are still high when an LSU has got its answer (gpu.sv 213-226); *)
(* by the time it raises its next request all of that has gone, so that it *)
(* cannot take the answer of its last request for the new one's.           *)
(***************************************************************************)
AnswersFresh == \A l \in Lanes : lsu[l].state = "REQUESTING" => Quiet(l)

(***************************************************************************)
(* A core that is reset has no request on its way: a channel would finish  *)
(* it for nobody, and answer the next block with it.                       *)
(***************************************************************************)
ResetsQuietly == core_reset => \A l \in Lanes : lsu[l].valid = "none" /\ Quiet(l)

(***************************************************************************)
(* Core, links, controller and memory together execute the program of each *)
(* block as the instruction set says, on one memory that all blocks share. *)
(***************************************************************************)
Programmer == INSTANCE Isa WITH
                memory <- committed,
                halted <- {w \in Warps : warp_state[w] = "DONE"}

ExecutesIsa == Programmer!BlocksSpec

(***************************************************************************)
(* Blocks of a program without backward jumps come to their end: no        *)
(* request is lost between LSU, links and controller, and no two of them   *)
(* wait for each other.                                                    *)
(***************************************************************************)
ForwardOnly == \A a \in Word : program[a].op \in {"beqz", "jal"} =>
                 a + program[a].imm \in Word /\ program[a].imm > 0

BlocksComplete == ForwardOnly => <>Finished

=============================================================================

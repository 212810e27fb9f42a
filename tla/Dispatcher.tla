----------------------------- MODULE Dispatcher -----------------------------
(***************************************************************************)
(* The top of the GPU (hardware/rtl/lock_in): gpu.sv latches the host's    *)
(* request, dispatcher.sv hands the blocks of a kernel to the compute      *)
(* cores, and every core runs the warps of its block to the end.  Of a     *)
(* core (compute_core.sv) only what the dispatcher sees is kept here: when *)
(* the warps of a block halt is left open.                                 *)
(*                                                                         *)
(* GpuEdge is one clock edge of all three.  Every register reads the       *)
(* others as they were before the edge.                                    *)
(***************************************************************************)
EXTENDS Integers, FiniteSets

CONSTANTS
  NUM_CORES,  \* compute cores
  MaxBlocks   \* the largest num_blocks a host asks for

ASSUME DispatcherAssumption == NUM_CORES \in Nat \ {0} /\ MaxBlocks \in Nat

Cores == 0 .. NUM_CORES - 1
Blocks == 0 .. MaxBlocks - 1

VARIABLES
  reset,              \* inputs of the GPU
  execution_start,
  num_blocks,
  gpu_start,          \* gpu.sv: start_execution
  total_blocks,       \* gpu.sv: kernel_config_reg.num_blocks
  start_execution,    \* dispatcher.sv: a kernel is being run
  done,
  blocks_done,
  blocks_dispatched,
  core_start,         \* the cores whose start is raised
  core_reset,         \* the cores whose reset is raised
  core_block_id,
  core,               \* per core: how far it is with its block
  requested,          \* history: num_blocks when the host asked for the kernel
  executed            \* history: the blocks whose warps have all halted

inputVars == <<reset, execution_start, num_blocks>>
latchVars == <<gpu_start, total_blocks, requested>>
dispatcherVars == <<start_execution, done, blocks_done, blocks_dispatched,
                    core_start, core_reset, core_block_id>>
coreVars == <<core, executed>>
gpuVars == <<latchVars, dispatcherVars, coreVars>>

(***************************************************************************)
(* idle: start_execution of the core is 0; running: its warps execute;     *)
(* halted: all warps are in WARP_DONE; done: the core says so.             *)
(***************************************************************************)
CoreState == {"idle", "running", "halted", "done"}

GpuTypeOK ==
  /\ reset \in BOOLEAN /\ execution_start \in BOOLEAN /\ gpu_start \in BOOLEAN
  /\ start_execution \in BOOLEAN /\ done \in BOOLEAN
  /\ num_blocks \in 0 .. MaxBlocks
  /\ total_blocks \in 0 .. MaxBlocks
  /\ requested \in 0 .. MaxBlocks
  /\ blocks_dispatched \in 0 .. MaxBlocks
  /\ blocks_done \in Nat
  /\ core_start \in SUBSET Cores
  /\ core_reset \in SUBSET Cores
  /\ core_block_id \in [Cores -> 0 .. MaxBlocks]
  /\ core \in [Cores -> CoreState]
  /\ executed \in SUBSET Blocks

GpuInit ==
  /\ gpu_start = FALSE /\ total_blocks = 0 /\ requested = 0
  /\ start_execution = FALSE /\ done = FALSE
  /\ blocks_done = 0 /\ blocks_dispatched = 0
  /\ core_start = {} /\ core_reset = Cores
  /\ core_block_id = [i \in Cores |-> 0]
  /\ core = [i \in Cores |-> "idle"] /\ executed = {}

-----------------------------------------------------------------------------
(***************************************************************************)
(* gpu.sv: the configuration is latched at every edge, the start bit once. *)
(***************************************************************************)
LatchStep ==
  IF reset
  THEN gpu_start' = FALSE /\ total_blocks' = 0 /\ requested' = 0
  ELSE /\ gpu_start' = (gpu_start \/ execution_start)
       /\ total_blocks' = num_blocks
       /\ requested' = IF execution_start /\ ~gpu_start THEN num_blocks
                                                        ELSE requested

(***************************************************************************)
(* dispatcher.sv: what it does at an edge without reset.                   *)
(***************************************************************************)
Trigger == gpu_start /\ ~start_execution

\* Mutant: the kernel is finished once its last block is dispatched.
FinishedEarly == start_execution /\ blocks_dispatched = total_blocks
                   /\ total_blocks > 0 /\ ~done

Finished == start_execution /\ blocks_done = total_blocks
              /\ total_blocks > 0 /\ ~done

Ready == IF start_execution THEN core_reset ELSE {}

\* Mutant: one block too many.
TakingOneMore == IF blocks_dispatched <= total_blocks THEN Ready ELSE {}

Taking == IF blocks_dispatched < total_blocks THEN Ready ELSE {}

\* Mutant: a core is taken as finished without looking at its done.
CompletingUnchecked ==
  IF start_execution
  THEN {i \in core_start : core[i] \in {"running", "halted", "done"}} ELSE {}

\* Mutant: the last core is never looked at.
CompletingAllButLast ==
  IF start_execution
  THEN {i \in core_start : core[i] = "done" /\ i < NUM_CORES - 1} ELSE {}

Completing ==
  IF start_execution THEN {i \in core_start : core[i] = "done"} ELSE {}

(***************************************************************************)
(* The counters are written with non-blocking assignments in a loop over   *)
(* the cores, so one edge adds at most one to each.                        *)
(***************************************************************************)
DispatchStep ==
  /\ start_execution' = (Trigger \/ (start_execution /\ ~Finished))
  /\ done' = (done \/ Finished)
  /\ core_reset' = IF Trigger THEN Cores
                              ELSE (core_reset \ Ready) \cup Completing
  /\ core_start' = (core_start \cup Taking) \ Completing
  /\ core_block_id' = [i \in Cores |-> IF i \in Taking THEN blocks_dispatched
                                                       ELSE core_block_id[i]]
  /\ blocks_dispatched' = blocks_dispatched + (IF Taking = {} THEN 0 ELSE 1)
  /\ blocks_done' = blocks_done + (IF Completing = {} THEN 0 ELSE 1)

DispatcherReset ==
  /\ start_execution' = FALSE /\ done' = FALSE
  /\ blocks_done' = 0 /\ blocks_dispatched' = 0
  /\ core_start' = {} /\ core_reset' = Cores
  /\ core_block_id' = [i \in Cores |-> 0]

DispatcherStep == IF reset THEN DispatcherReset ELSE DispatchStep

(***************************************************************************)
(* compute_core.sv: a started core runs until its warps halt (halting is   *)
(* the set of cores whose last warp halts now) and keeps saying done until *)
(* it is reset.                                                            *)
(***************************************************************************)
Halts(i, halting) == i \notin core_reset /\ core[i] = "running" /\ i \in halting

CoreStep(i, halting) ==
  CASE i \in core_reset -> "idle"
    [] i \notin core_reset /\ core[i] = "idle" /\ i \in core_start -> "running"
    [] Halts(i, halting) -> "halted"
    [] i \notin core_reset /\ core[i] = "halted" -> "done"
    [] OTHER -> core[i]

CoresStep(halting) ==
  /\ core' = [i \in Cores |-> CoreStep(i, halting)]
  /\ executed' = IF reset THEN {}
                 ELSE executed \cup
                        {core_block_id[i] : i \in {k \in Cores : Halts(k, halting)}}

GpuEdge(halting) == LatchStep /\ DispatcherStep /\ CoresStep(halting)

=============================================================================

----------------------------- MODULE KernelRun -----------------------------
(***************************************************************************)
(* The GPU under a host like the test bench (gpu_tb.cpp): it sets          *)
(* num_blocks, raises execution_start for a while, waits for done, and may *)
(* reset the GPU at any time.  A well-behaved host holds num_blocks from   *)
(* the moment execution_start is high until it resets.                     *)
(***************************************************************************)
EXTENDS Dispatcher

CONSTANTS
  HoldsConfig,  \* the host does not touch num_blocks while a kernel runs
  MayReset      \* the host may reset the GPU

ASSUME HostAssumption == {HoldsConfig, MayReset} \subseteq BOOLEAN

vars == <<inputVars, gpuVars>>

TypeOK == GpuTypeOK

Init == /\ GpuInit
        /\ reset = FALSE /\ execution_start = FALSE
        /\ num_blocks \in 0 .. MaxBlocks

HostStep ==
  /\ reset' \in BOOLEAN /\ (reset' => MayReset)
  /\ execution_start' \in BOOLEAN
  /\ num_blocks' \in 0 .. MaxBlocks
  /\ HoldsConfig /\ (execution_start \/ gpu_start) => num_blocks' = num_blocks

Edge(halting) == GpuEdge(halting) /\ HostStep

Next == \E halting \in SUBSET Cores : Edge(halting)

Spec == Init /\ [][Next]_vars

(***************************************************************************)
(* The clock keeps ticking, and every block halts eventually.              *)
(***************************************************************************)
Running == {i \in Cores : core[i] = "running"}

Halting == Running # {} /\ Edge(Running)

FairSpec == Spec /\ WF_vars(Next) /\ WF_vars(Halting)

-----------------------------------------------------------------------------
(***************************************************************************)
(* With one core, the counters, the core's control lines and the core      *)
(* agree on which blocks have been run (dispatcher.sv:65-92).              *)
(***************************************************************************)
Waiting(i) ==   \* no block is given out, the core is about to be reset
  /\ i \in core_reset /\ i \notin core_start
  /\ blocks_done = blocks_dispatched
  /\ executed = 0 .. blocks_dispatched - 1

Busy(i) ==      \* the core has the last block that was dispatched
  /\ i \notin core_reset /\ i \in core_start
  /\ start_execution /\ ~done
  /\ blocks_dispatched = blocks_done + 1
  /\ core_block_id[i] = blocks_done
  /\ executed = 0 .. (IF core[i] \in {"halted", "done"} THEN blocks_dispatched
                                                         ELSE blocks_done) - 1

Exhausted(i) == \* all blocks have been run, the core is idle
  /\ i \notin core_reset /\ i \notin core_start
  /\ core[i] = "idle"
  /\ blocks_done = blocks_dispatched /\ blocks_dispatched = total_blocks
  /\ executed = 0 .. blocks_dispatched - 1

Asked ==        \* what was latched is what the host still asks for
  /\ ~gpu_start => /\ ~start_execution /\ ~done
                   /\ blocks_dispatched = 0 /\ requested = 0
                   /\ core_reset = Cores
  /\ gpu_start => total_blocks = num_blocks /\ requested = num_blocks

Accounting ==
  /\ Asked
  /\ \A i \in Cores : Waiting(i) \/ Busy(i) \/ Exhausted(i)
  /\ gpu_start => blocks_dispatched <= total_blocks
  /\ done => blocks_done = total_blocks /\ total_blocks > 0

(***************************************************************************)
(* done is not reported before every block the host asked for has been run *)
(* (dispatcher.sv:63-69).                                                  *)
(***************************************************************************)
DoneMeansExecuted == done => executed = 0 .. requested - 1 /\ requested > 0

(***************************************************************************)
(* What gpu.sv:47 promises: "save kernel config on execution start to      *)
(* avoid losing data when the kernel is running".  Whatever the host does  *)
(* with num_blocks meanwhile, no block of the requested kernel is missing  *)
(* when done is reported.  It holds if the host keeps HoldsConfig only.    *)
(***************************************************************************)
NoBlockLost == done => 0 .. requested - 1 \subseteq executed

(***************************************************************************)
(* The GPU runs every block of a requested kernel exactly once and then    *)
(* reports done; a reset at any time makes it forget the kernel.           *)
(***************************************************************************)
Kernel == INSTANCE KernelExecution WITH
            asked <- gpu_start, blocks <- requested, reported <- done,
            executing <- {core_block_id[i] : i \in Running \ core_reset}

RunsKernel == Kernel!Spec

(***************************************************************************)
(* A core that is running its block is neither reset nor given another     *)
(* block before all of its warps have halted (dispatcher.sv:72-92).        *)
(***************************************************************************)
LeavesRunning ==
  \A i \in Cores : core[i] = "running" /\ i \notin core_reset /\ ~reset =>
    i \notin core_reset' /\ core_block_id'[i] = core_block_id[i]

NotCutShort == [][LeavesRunning]_vars

(***************************************************************************)
(* A requested kernel that has blocks is eventually reported done, unless  *)
(* a reset takes the request back.                                         *)
(***************************************************************************)
KernelCompletes == requested > 0 ~> done \/ requested = 0

=============================================================================

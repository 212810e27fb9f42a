----------------------------- MODULE HostDriver -----------------------------
(***************************************************************************)
(* The k-means driver on the ARM side (code/ps_driver.c) and the GPU it    *)
(* drives: every cycle it starts the kernel through the control register,  *)
(* polls the status register, clears the control register, and computes    *)
(* new centroids from the results.  The two run side by side: any number   *)
(* of clock edges fits between two steps of the driver.                    *)
(*                                                                         *)
(* The control and status registers belong to an AXI peripheral outside    *)
(* the repository's sources, which wires them to execution_start and done. *)
(* Nothing wires the driver to the reset of the GPU.                       *)
(***************************************************************************)
EXTENDS Dispatcher

CONSTANT MAX_ITER  \* k-means cycles

ASSUME DriverAssumption == MAX_ITER \in Nat

VARIABLES
  pc,         \* where the driver is in its loop
  cycle,      \* its loop counter
  centroids,  \* the cycle whose centroids are in memory
  results     \* per block: the centroids its results were computed from

driverVars == <<pc, cycle, centroids>>
vars == <<inputVars, gpuVars, driverVars, results>>

None == -1  \* no result yet

TypeOK ==
  /\ GpuTypeOK
  /\ pc \in {"start", "poll", "acknowledge", "update", "finished"}
  /\ cycle \in 0 .. MAX_ITER
  /\ centroids \in 0 .. MAX_ITER
  /\ results \in [Blocks -> {None} \cup 0 .. MAX_ITER]

Init == /\ GpuInit
        /\ reset = FALSE /\ execution_start = FALSE
        /\ num_blocks \in 1 .. MaxBlocks
        /\ pc = IF MAX_ITER > 0 THEN "start" ELSE "finished"
        /\ cycle = 0 /\ centroids = 0
        /\ results = [b \in Blocks |-> None]

(***************************************************************************)
(* A clock edge of the GPU; a block that halts has left its results.       *)
(***************************************************************************)
Edge(halting) ==
  /\ GpuEdge(halting)
  /\ results' = [b \in Blocks |->
                   IF \E i \in Cores : Halts(i, halting) /\ core_block_id[i] = b
                   THEN centroids ELSE results[b]]
  /\ UNCHANGED <<inputVars, driverVars>>

StartKernel == /\ pc = "start" /\ pc' = "poll"
               /\ execution_start' = TRUE
               /\ UNCHANGED <<reset, num_blocks, gpuVars, cycle, centroids, results>>

\* Mutant: the driver does not wait.
SeesAnything == /\ pc = "poll" /\ pc' = "acknowledge"
                /\ UNCHANGED <<inputVars, gpuVars, cycle, centroids, results>>

SeesDone == /\ pc = "poll" /\ done /\ pc' = "acknowledge"
            /\ UNCHANGED <<inputVars, gpuVars, cycle, centroids, results>>

Acknowledge == /\ pc = "acknowledge" /\ pc' = "update"
               /\ execution_start' = FALSE
               /\ UNCHANGED <<reset, num_blocks, gpuVars, cycle, centroids, results>>

\* Mutant: the loop runs one cycle more.
UpdateOneMore ==
  /\ pc = "update"
  /\ centroids' = cycle + 1 /\ cycle' = cycle + 1
  /\ pc' = IF cycle <= MAX_ITER THEN "start" ELSE "finished"
  /\ UNCHANGED <<inputVars, gpuVars, results>>

Update == /\ pc = "update"
          /\ centroids' = cycle + 1 /\ cycle' = cycle + 1
          /\ pc' = IF cycle + 1 < MAX_ITER THEN "start" ELSE "finished"
          /\ UNCHANGED <<inputVars, gpuVars, results>>

DriverStep == StartKernel \/ SeesDone \/ Acknowledge \/ Update

Next == (\E halting \in SUBSET Cores : Edge(halting)) \/ DriverStep

Spec == Init /\ [][Next]_vars

(***************************************************************************)
(* The clock keeps ticking, every block halts eventually, and the driver   *)
(* is scheduled.                                                           *)
(***************************************************************************)
Running == {i \in Cores : core[i] = "running"}

FairSpec == /\ Spec
            /\ WF_vars(\E halting \in SUBSET Cores : Edge(halting))
            /\ WF_vars(Running # {} /\ Edge(Running))
            /\ WF_vars(DriverStep)

-----------------------------------------------------------------------------
(***************************************************************************)
(* The driver reads the results of a cycle only after every block has run  *)
(* with the centroids of that cycle (ps_driver.c:94-119).                  *)
(***************************************************************************)
Fresh(c) == \A b \in 0 .. num_blocks - 1 : results[b] = c

ResultsFresh == pc = "update" => Fresh(cycle)

FirstResultsFresh == pc = "update" /\ cycle = 0 => Fresh(0)

(***************************************************************************)
(* No block runs while the driver reads results and writes centroids: the  *)
(* two never touch the shared memory at the same time.                     *)
(***************************************************************************)
HostAlone == pc \in {"acknowledge", "update"} => Running \ core_reset = {}

(***************************************************************************)
(* The driver's loop ends.                                                 *)
(***************************************************************************)
DriverFinishes == <>(pc = "finished")

=============================================================================

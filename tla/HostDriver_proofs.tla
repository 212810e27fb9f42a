-------------------------- MODULE HostDriver_proofs --------------------------
(***************************************************************************)
(* Proofs about HostDriver: type correctness for any number of cores, and, *)
(* for a GPU with one core, that the first results are fresh and that the  *)
(* driver is alone with the memory when it uses it, for kernels of any     *)
(* number of blocks and any number of cycles.                              *)
(*                                                                         *)
(* The driver is a host that holds its configuration and never resets, so  *)
(* what KernelRun_proofs shows of one edge holds of an edge here.          *)
(***************************************************************************)
EXTENDS HostDriver, TLAPS

Gpu == INSTANCE KernelRun_proofs WITH HoldsConfig <- TRUE, MayReset <- FALSE

LEMMA GpuAssumptions ==
  /\ NUM_CORES \in Nat \ {0} /\ MaxBlocks \in Nat
  /\ {TRUE, FALSE} \subseteq BOOLEAN
BY DispatcherAssumption

-----------------------------------------------------------------------------
(***************************************************************************)
(* Type correctness.  The loop counter stays in range because the loop is  *)
(* left when it reaches its end.                                           *)
(***************************************************************************)
InLoop == /\ ~reset
          /\ pc # "finished" => cycle < MAX_ITER
          /\ centroids = cycle

TypeInv == TypeOK /\ Gpu!TypeInv /\ InLoop

LEMMA TypeInit == Init => TypeInv
<1> SUFFICES ASSUME Init PROVE TypeInv
  OBVIOUS
<1>1. Gpu!Init
  BY DispatcherAssumption DEF Init, GpuInit, Gpu!Init, Gpu!GpuInit, Gpu!Cores, Cores
<1>2. Gpu!TypeInv
  BY <1>1, Gpu!TypeInit, GpuAssumptions
<1>3. TypeOK /\ InLoop
  <2>1. GpuTypeOK
    BY <1>2 DEF Gpu!TypeInv, Gpu!TypeOK, Gpu!GpuTypeOK, GpuTypeOK, Gpu!Cores, Cores,
                Gpu!Blocks, Blocks, Gpu!CoreState, CoreState
  <2> QED BY <2>1, DriverAssumption DEF Init, TypeOK, InLoop, None
<1> QED BY <1>2, <1>3 DEF TypeInv

(***************************************************************************)
(* An edge of the GPU beside the driver is one beside the host of          *)
(* KernelRun; a step of the driver leaves the GPU alone.                   *)
(***************************************************************************)
LEMMA EdgeIsHosted ==
  ASSUME TypeInv, NEW halting, Edge(halting) PROVE Gpu!Edge(halting)
<1>1. LatchStep /\ DispatcherStep /\ CoresStep(halting) /\ UNCHANGED inputVars
  BY DEF Edge, GpuEdge
<1>2. Gpu!LatchStep
  BY <1>1, Zenon DEF LatchStep, Gpu!LatchStep
<1>3. Gpu!DispatcherStep
  BY <1>1, Zenon
     DEF DispatcherStep, DispatchStep, DispatcherReset, Trigger, Finished, Ready,
         Taking, Completing, Cores,
         Gpu!DispatcherStep, Gpu!DispatchStep, Gpu!DispatcherReset, Gpu!Trigger,
         Gpu!Finished, Gpu!Ready, Gpu!Taking, Gpu!Completing, Gpu!Cores
<1>4. Gpu!CoresStep(halting)
  BY <1>1, Zenon DEF CoresStep, CoreStep, Halts, Cores,
                     Gpu!CoresStep, Gpu!CoreStep, Gpu!Halts, Gpu!Cores
<1>5. Gpu!HostStep
  BY <1>1 DEF TypeInv, InLoop, TypeOK, GpuTypeOK, inputVars, Gpu!HostStep
<1> QED BY <1>2, <1>3, <1>4, <1>5 DEF Gpu!Edge, Gpu!GpuEdge

LEMMA DriverLeavesGpu ==
  ASSUME DriverStep
  PROVE  /\ UNCHANGED <<reset, num_blocks, gpuVars>>
         /\ execution_start' \in {execution_start, TRUE, FALSE}
BY DEF DriverStep, StartKernel, SeesDone, Acknowledge, Update, inputVars

LEMMA TypeStep == TypeInv /\ [Next]_vars => TypeInv'
<1> SUFFICES ASSUME TypeInv, [Next]_vars PROVE TypeInv'
  OBVIOUS
<1> USE DriverAssumption
<1>1. CASE UNCHANGED vars
  BY <1>1 DEF vars, inputVars, gpuVars, latchVars, dispatcherVars, coreVars, driverVars,
              TypeInv, TypeOK, GpuTypeOK, InLoop, Gpu!TypeInv, Gpu!TypeOK,
              Gpu!GpuTypeOK, Gpu!IdInRange
<1>2. ASSUME NEW halting \in SUBSET Cores, Edge(halting) PROVE TypeInv'
  <2>1. Gpu!TypeInv'
    <3>1. Gpu!Next
      BY <1>2, EdgeIsHosted DEF Gpu!Next, Cores, Gpu!Cores
    <3> QED BY <3>1, Gpu!TypeStep, GpuAssumptions DEF TypeInv
  <2>2. GpuTypeOK'
    BY <2>1 DEF Gpu!TypeInv, Gpu!TypeOK, Gpu!GpuTypeOK, GpuTypeOK, Gpu!Cores, Cores,
                Gpu!Blocks, Blocks, Gpu!CoreState, CoreState
  <2>3. /\ pc' \in {"start", "poll", "acknowledge", "update", "finished"}
        /\ cycle' \in 0 .. MAX_ITER /\ centroids' \in 0 .. MAX_ITER
        /\ InLoop'
    BY <1>2 DEF Edge, inputVars, driverVars, TypeInv, TypeOK, InLoop
  <2>4. results' \in [Blocks -> {None} \cup 0 .. MAX_ITER]
    BY <1>2 DEF Edge, TypeInv, TypeOK
  <2> QED BY <2>1, <2>2, <2>3, <2>4 DEF TypeInv, TypeOK
<1>3. CASE DriverStep
  <2>1. Gpu!TypeInv' /\ GpuTypeOK'
    BY <1>3, DriverLeavesGpu
       DEF TypeInv, TypeOK, GpuTypeOK, gpuVars, latchVars, dispatcherVars, coreVars,
           Gpu!TypeInv, Gpu!TypeOK, Gpu!GpuTypeOK, Gpu!IdInRange
  <2>2. /\ pc' \in {"start", "poll", "acknowledge", "update", "finished"}
        /\ cycle' \in 0 .. MAX_ITER /\ centroids' \in 0 .. MAX_ITER
        /\ InLoop'
    BY <1>3 DEF DriverStep, StartKernel, SeesDone, Acknowledge, Update, inputVars,
                TypeInv, TypeOK, InLoop
  <2>3. results' = results
    BY <1>3 DEF DriverStep, StartKernel, SeesDone, Acknowledge, Update
  <2> QED BY <2>1, <2>2, <2>3 DEF TypeInv, TypeOK
<1> QED BY <1>1, <1>2, <1>3 DEF Next

(***************************************************************************)
(* Every variable keeps its type, whatever the number of cores; the loop   *)
(* counter stays below the number of cycles while the loop runs.           *)
(***************************************************************************)
THEOREM TypeCorrect == Spec => []TypeOK
<1>1. TypeInv => TypeOK
  BY DEF TypeInv
<1> QED BY <1>1, TypeInit, TypeStep, PTL DEF Spec

-----------------------------------------------------------------------------
(***************************************************************************)
(* One core.  done comes with the first cycle's acknowledgement and stays; *)
(* all blocks that have been run were run with the first centroids.        *)
(***************************************************************************)
OneCore == NUM_CORES = 1

DoneStays == pc \in {"acknowledge", "update"} \/ cycle > 0 => done

FirstCentroids == \A b \in Blocks :
  results[b] = (IF b \in executed THEN 0 ELSE None)

Inv == TypeInv /\ Gpu!Accounting /\ DoneStays /\ FirstCentroids

LEMMA InvInit == ASSUME OneCore PROVE Init => Inv
<1> SUFFICES ASSUME Init PROVE Inv
  OBVIOUS
<1>1. Gpu!Init /\ Gpu!OneCore
  BY DEF Init, GpuInit, Gpu!Init, Gpu!GpuInit, Gpu!Cores, Cores, OneCore, Gpu!OneCore
<1>2. Gpu!Accounting
  BY <1>1, Gpu!AccountingInit, GpuAssumptions
<1>3. DoneStays /\ FirstCentroids
  BY DEF Init, GpuInit, DoneStays, FirstCentroids
<1> QED BY <1>2, <1>3, TypeInit DEF Inv

(***************************************************************************)
(* While done is reported no block is being run: the core waits for a      *)
(* reset or has none left.                                                 *)
(***************************************************************************)
LEMMA DoneIsQuiet ==
  ASSUME OneCore, Inv, done
  PROVE  /\ Running \ core_reset = {}
         /\ executed = 0 .. num_blocks - 1
<1>1. Cores = {0} /\ Gpu!Cores = {0}
  BY DEF OneCore, Cores, Gpu!Cores
<1>2. Gpu!Waiting(0) \/ Gpu!Exhausted(0)
  BY <1>1 DEF Inv, Gpu!Accounting, Gpu!Busy
<1>3. Running \ core_reset = {}
  BY <1>1, <1>2 DEF Gpu!Waiting, Gpu!Exhausted, Running
<1>4. executed = 0 .. num_blocks - 1
  BY <1>2 DEF Inv, Gpu!Accounting, Gpu!Asked, Gpu!Waiting, Gpu!Exhausted
<1> QED BY <1>3, <1>4

LEMMA InvStep == ASSUME OneCore PROVE Inv /\ [Next]_vars => Inv'
<1> SUFFICES ASSUME Inv, [Next]_vars PROVE Inv'
  OBVIOUS
<1>0. TypeInv'
  BY TypeStep DEF Inv
<1>1. CASE UNCHANGED vars
  <2>1. Gpu!Accounting'
    BY <1>1 DEF vars, inputVars, gpuVars, latchVars, dispatcherVars, coreVars, Inv,
                Gpu!Accounting, Gpu!Asked, Gpu!Waiting, Gpu!Busy, Gpu!Exhausted
  <2>2. DoneStays' /\ FirstCentroids'
    BY <1>1 DEF vars, gpuVars, dispatcherVars, coreVars, driverVars, Inv,
                DoneStays, FirstCentroids
  <2> QED BY <1>0, <2>1, <2>2 DEF Inv
<1>2. ASSUME NEW halting \in SUBSET Cores, Edge(halting) PROVE Inv'
  <2>1. Gpu!OneCore /\ Gpu!Inv /\ Gpu!Edge(halting) /\ Gpu!Next
    BY <1>2, EdgeIsHosted DEF Inv, TypeInv, OneCore, Gpu!OneCore, Gpu!Inv, Gpu!Next,
                              Cores, Gpu!Cores
  <2>2. Gpu!Accounting'
    BY <2>1, Gpu!AccountingStep, GpuAssumptions DEF Gpu!Inv
  <2>3. ~reset /\ DispatcherStep /\ CoresStep(halting) /\ UNCHANGED driverVars
    BY <1>2 DEF Inv, TypeInv, InLoop, Edge, GpuEdge
  <2>4. done => done'
    BY <2>3, Zenon DEF DispatcherStep, DispatchStep
  <2>5. DoneStays'
    BY <2>3, <2>4 DEF Inv, DoneStays, driverVars
  <2>6. executed' = executed \cup
                      {core_block_id[i] : i \in {k \in Cores : Halts(k, halting)}}
    BY <2>3 DEF CoresStep
  <2>7. ASSUME NEW i \in Cores, Halts(i, halting) PROVE centroids = 0
    <3>1. i \in Running \ core_reset
      BY <2>7 DEF Halts, Running
    <3>2. cycle = 0
      BY <3>1, DoneIsQuiet DEF Inv, DoneStays, TypeInv, TypeOK
    <3> QED BY <3>2 DEF Inv, TypeInv, InLoop
  <2>8. ASSUME NEW b \in Blocks
        PROVE  results'[b] = (IF b \in executed' THEN 0 ELSE None)
    <3>1. results'[b] = IF \E i \in Cores : Halts(i, halting) /\ core_block_id[i] = b
                        THEN centroids ELSE results[b]
      BY <1>2 DEF Edge
    <3>2. CASE \E i \in Cores : Halts(i, halting) /\ core_block_id[i] = b
      BY <3>1, <3>2, <2>6, <2>7
    <3>3. CASE ~\E i \in Cores : Halts(i, halting) /\ core_block_id[i] = b
      <4>1. b \in executed' <=> b \in executed
        BY <3>3, <2>6
      <4> QED BY <3>1, <3>3, <4>1 DEF Inv, FirstCentroids
    <3> QED BY <3>2, <3>3
  <2> QED BY <1>0, <2>2, <2>5, <2>8 DEF Inv, FirstCentroids
<1>3. CASE DriverStep
  <2>1. Gpu!Accounting'
    BY <1>3, DriverLeavesGpu
       DEF gpuVars, latchVars, dispatcherVars, coreVars, Inv,
           Gpu!Accounting, Gpu!Asked, Gpu!Waiting, Gpu!Busy, Gpu!Exhausted
  <2>2. done' = done /\ executed' = executed /\ results' = results
    BY <1>3, DriverLeavesGpu
       DEF gpuVars, dispatcherVars, coreVars,
           DriverStep, StartKernel, SeesDone, Acknowledge, Update
  <2>3. DoneStays'
    BY <1>3, <2>2 DEF DriverStep, StartKernel, SeesDone, Acknowledge, Update,
                      Inv, DoneStays, TypeInv, TypeOK
  <2>4. FirstCentroids'
    BY <2>2 DEF Inv, FirstCentroids
  <2> QED BY <1>0, <2>1, <2>3, <2>4 DEF Inv
<1> QED BY <1>1, <1>2, <1>3 DEF Next

LEMMA Invariant == ASSUME OneCore PROVE Spec => []Inv
BY InvInit, InvStep, PTL DEF Spec

(***************************************************************************)
(* What the driver reads in its first cycle are the results of that cycle. *)
(***************************************************************************)
THEOREM FirstCycleFresh == ASSUME OneCore PROVE Spec => []FirstResultsFresh
<1>1. Inv => FirstResultsFresh
  <2> SUFFICES ASSUME Inv, pc = "update", NEW b \in 0 .. num_blocks - 1
               PROVE  results[b] = 0
    BY DEF FirstResultsFresh, Fresh
  <2>1. done
    BY DEF Inv, DoneStays
  <2>2. b \in executed /\ b \in Blocks
    BY <2>1, DoneIsQuiet, DispatcherAssumption DEF Inv, TypeInv, TypeOK, GpuTypeOK, Blocks
  <2> QED BY <2>2 DEF Inv, FirstCentroids
<1> QED BY <1>1, Invariant, PTL

(***************************************************************************)
(* No block runs while the driver reads results and writes centroids.      *)
(***************************************************************************)
THEOREM DriverAlone == ASSUME OneCore PROVE Spec => []HostAlone
<1>1. Inv => HostAlone
  BY DoneIsQuiet DEF Inv, DoneStays, HostAlone
<1> QED BY <1>1, Invariant, PTL

(***************************************************************************)
(* Whatever the number of cycles, no block is ever run with centroids      *)
(* other than the first: done stays high, so every later poll succeeds at  *)
(* once and the results read then are those of the first cycle             *)
(* (ps_driver.c:94-104).  ResultsFresh fails in every cycle but the first. *)
(***************************************************************************)
OnlyFirstCycleRuns == \A b \in Blocks : results[b] \in {None, 0}

THEOREM LaterCyclesRunNothing == ASSUME OneCore PROVE Spec => []OnlyFirstCycleRuns
<1>1. Inv => OnlyFirstCycleRuns
  BY DEF Inv, FirstCentroids, OnlyFirstCycleRuns
<1> QED BY <1>1, Invariant, PTL
=============================================================================

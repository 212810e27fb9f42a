-------------------------- MODULE KernelRun_proofs --------------------------
(***************************************************************************)
(* Proofs about KernelRun: type correctness for any number of cores, and,  *)
(* for a GPU with one core and a host that holds its configuration, the    *)
(* accounting of blocks and what the GPU promises its host.                *)
(***************************************************************************)
EXTENDS KernelRun, TLAPS

(***************************************************************************)
(* The block number of a core that has a block is in range.                *)
(***************************************************************************)
IdInRange == \A i \in Cores :
  i \in core_start \/ (i \notin core_reset /\ core[i] # "idle")
    => core_block_id[i] \in Blocks

TypeInv == TypeOK /\ IdInRange

LEMMA TypeInit == Init => TypeInv
<1> SUFFICES ASSUME Init PROVE TypeInv
  OBVIOUS
<1>1. 0 \in 0 .. MaxBlocks
  BY DispatcherAssumption
<1>2. TypeOK
  BY <1>1 DEF Init, TypeOK, GpuInit, GpuTypeOK, CoreState
<1>3. IdInRange
  BY DEF Init, IdInRange, GpuInit
<1> QED BY <1>2, <1>3 DEF TypeInv

LEMMA TypeStep == TypeInv /\ [Next]_vars => TypeInv'
<1> SUFFICES ASSUME TypeInv, [Next]_vars PROVE TypeInv'
  OBVIOUS
<1>1. CASE UNCHANGED vars
  BY <1>1 DEF vars, inputVars, gpuVars, latchVars, dispatcherVars, coreVars,
              TypeInv, TypeOK, IdInRange, GpuTypeOK
<1>2. ASSUME NEW halting \in SUBSET Cores, Edge(halting) PROVE TypeInv'
  <2> USE DispatcherAssumption DEF Blocks
  <2> USE DEF Cores
  <2>0. /\ GpuTypeOK /\ IdInRange
        /\ LatchStep /\ DispatcherStep /\ CoresStep(halting) /\ HostStep
    BY <1>2 DEF TypeInv, TypeOK, Edge, GpuEdge
  <2>1. /\ reset' \in BOOLEAN /\ execution_start' \in BOOLEAN
        /\ num_blocks' \in 0 .. MaxBlocks
    BY <2>0 DEF HostStep
  <2>2. /\ total_blocks' \in 0 .. MaxBlocks
        /\ requested' \in 0 .. MaxBlocks
    BY <2>0 DEF GpuTypeOK, LatchStep
  <2>6. gpu_start' \in BOOLEAN
    BY <2>0, Zenon DEF LatchStep
  <2>7. start_execution' \in BOOLEAN /\ done' \in BOOLEAN
    BY <2>0, Zenon DEF DispatcherStep, DispatchStep, DispatcherReset
  <2>8. blocks_dispatched' \in 0 .. MaxBlocks /\ blocks_done' \in Nat
    <3>1. CASE reset
      BY <2>0, <3>1 DEF DispatcherStep, DispatcherReset
    <3>2. CASE ~reset
      <4>1. DispatchStep
        BY <2>0, <3>2 DEF DispatcherStep
      <4>2. blocks_done' \in Nat
        BY <2>0, <4>1 DEF DispatchStep, GpuTypeOK
      <4>3. Taking # {} => blocks_dispatched < total_blocks
        BY DEF Taking
      <4>4. blocks_dispatched' \in 0 .. MaxBlocks
        BY <2>0, <4>1, <4>3 DEF DispatchStep, GpuTypeOK
      <4> QED BY <4>2, <4>4
    <3> QED BY <3>1, <3>2
  <2>9. /\ core_start' \in SUBSET Cores
        /\ core_reset' \in SUBSET Cores
    <3>1. Ready \subseteq Cores /\ Taking \subseteq Cores /\ Completing \subseteq Cores
      BY <2>0 DEF GpuTypeOK, Ready, Taking, Completing
    <3> QED BY <2>0, <3>1, Zenon
            DEF GpuTypeOK, DispatcherStep, DispatchStep, DispatcherReset
  <2>10. core_block_id' \in [Cores -> 0 .. MaxBlocks]
    BY <2>0 DEF GpuTypeOK, DispatcherStep, DispatchStep, DispatcherReset
  <2>3. core' \in [Cores -> CoreState]
    BY <2>0 DEF GpuTypeOK, CoresStep, CoreStep, CoreState
  <2>4. executed' \in SUBSET Blocks
    BY <2>0 DEF GpuTypeOK, CoresStep, Halts, IdInRange
  <2>5. IdInRange'
    <3> SUFFICES ASSUME NEW i \in Cores,
                        i \in core_start' \/ (i \notin core_reset' /\ core'[i] # "idle")
                 PROVE  core_block_id'[i] \in Blocks
      BY DEF IdInRange
    <3>1. ~reset
      BY <2>0 DEF DispatcherStep, DispatcherReset
    <3>2. DispatchStep
      BY <2>0, <3>1 DEF DispatcherStep
    <3>3. CASE i \in Taking
      BY <2>0, <3>2, <3>3 DEF DispatchStep, Taking, GpuTypeOK
    <3>4. CASE i \notin Taking
      <4>1. core_block_id'[i] = core_block_id[i]
        BY <3>2, <3>4 DEF DispatchStep
      <4>2. CASE i \in core_start
        BY <4>1, <4>2, <2>0 DEF IdInRange
      <4>3. CASE i \notin core_start
        <5>1. i \notin core_reset' /\ core'[i] # "idle"
          BY <3>2, <3>4, <4>3 DEF DispatchStep
        <5>2. core'[i] = CoreStep(i, halting)
          BY <2>0 DEF CoresStep
        <5>3. i \notin core_reset /\ core[i] # "idle"
          BY <5>1, <5>2, <4>3, Zenon DEF CoreStep, Halts
        <5> QED BY <5>3, <4>1, <2>0 DEF IdInRange
      <4> QED BY <4>2, <4>3
    <3> QED BY <3>3, <3>4
  <2> QED BY <2>1, <2>2, <2>3, <2>4, <2>5, <2>6, <2>7, <2>8, <2>9, <2>10
         DEF TypeInv, TypeOK, GpuTypeOK
<1> QED BY <1>1, <1>2 DEF Next

(***************************************************************************)
(* Every variable keeps its type, whatever the number of cores, the host   *)
(* and its resets do; in particular no block number is out of range.       *)
(***************************************************************************)
THEOREM TypeCorrect == Spec => []TypeOK
<1>1. TypeInv => TypeOK
  BY DEF TypeInv
<1> QED BY <1>1, TypeInit, TypeStep, PTL DEF Spec

LEMMA TypeInvariant == Spec => []TypeInv
BY TypeInit, TypeStep, PTL DEF Spec

-----------------------------------------------------------------------------
(***************************************************************************)
(* One core, and a host that holds its configuration.                      *)
(***************************************************************************)
OneCore == NUM_CORES = 1 /\ HoldsConfig

Inv == TypeInv /\ Accounting

LEMMA AccountingInit == ASSUME OneCore PROVE Init => Accounting
<1> SUFFICES ASSUME Init PROVE Accounting
  OBVIOUS
<1>1. Asked
  BY DEF Init, GpuInit, Asked
<1>2. \A i \in Cores : Waiting(i)
  BY DEF Init, GpuInit, Waiting
<1> QED BY <1>1, <1>2 DEF Init, GpuInit, Accounting

LEMMA AskedStep ==
  ASSUME OneCore, Inv, NEW halting, Edge(halting)
  PROVE  Asked'
<1>0. /\ LatchStep /\ DispatcherStep /\ HostStep /\ Asked /\ HoldsConfig
  BY DEF Inv, Accounting, Edge, GpuEdge, OneCore
<1>1. CASE reset
  BY <1>0, <1>1 DEF Asked, LatchStep, DispatcherStep, DispatcherReset
<1>2. CASE ~reset
  <2>1. DispatchStep
    BY <1>0, <1>2 DEF DispatcherStep
  <2>2. ASSUME ~gpu_start'
        PROVE  /\ ~start_execution' /\ ~done' /\ blocks_dispatched' = 0
               /\ requested' = 0 /\ core_reset' = Cores
    <3>1. ~gpu_start /\ ~execution_start
      BY <1>0, <1>2, <2>2 DEF LatchStep
    <3>2. ~start_execution /\ ~done /\ blocks_dispatched = 0 /\ requested = 0
            /\ core_reset = Cores
      BY <1>0, <3>1 DEF Asked
    <3>3. Ready = {} /\ Taking = {} /\ Completing = {} /\ ~Trigger /\ ~Finished
      BY <3>1, <3>2 DEF Ready, Taking, Completing, Trigger, Finished
    <3>4. ~start_execution' /\ ~done' /\ core_reset' = Cores
      BY <2>1, <3>2, <3>3, Zenon DEF DispatchStep
    <3>5. blocks_dispatched' = 0 /\ requested' = 0
      BY <1>0, <1>2, <2>1, <3>1, <3>2, <3>3 DEF DispatchStep, LatchStep
    <3> QED BY <3>4, <3>5
  <2>3. ASSUME gpu_start'
        PROVE  total_blocks' = num_blocks' /\ requested' = num_blocks'
    <3>1. gpu_start \/ execution_start
      BY <1>0, <1>2, <2>3 DEF LatchStep
    <3>2. num_blocks' = num_blocks
      BY <1>0, <3>1 DEF HostStep
    <3>3. CASE gpu_start
      BY <1>0, <1>2, <3>2, <3>3 DEF LatchStep, Asked
    <3>4. CASE ~gpu_start
      BY <1>0, <1>2, <3>1, <3>2, <3>4 DEF LatchStep
    <3> QED BY <3>3, <3>4
  <2> QED BY <2>2, <2>3 DEF Asked
<1> QED BY <1>1, <1>2

(***************************************************************************)
(* What every edge without reset has in common.                            *)
(***************************************************************************)
LEMMA EdgeFacts ==
  ASSUME OneCore, Inv, ~reset, NEW halting, Edge(halting)
  PROVE  /\ Cores = {0}
         /\ DispatchStep
         /\ core'[0] = CoreStep(0, halting)
         /\ Halts(0, halting) => executed' = executed \cup {core_block_id[0]}
         /\ ~Halts(0, halting) => executed' = executed
         /\ blocks_dispatched \in Nat /\ blocks_done \in Nat
         /\ total_blocks \in Nat /\ blocks_dispatched <= total_blocks
         /\ start_execution \/ done \/ 0 \notin core_reset => gpu_start
         /\ gpu_start => total_blocks' = total_blocks
         /\ total_blocks' \in Nat
         /\ ~gpu_start => blocks_dispatched = 0
<1>0. /\ LatchStep /\ DispatcherStep /\ CoresStep(halting)
      /\ Accounting /\ Asked /\ GpuTypeOK
  BY DEF Inv, TypeInv, TypeOK, Accounting, Edge, GpuEdge
<1>1. Cores = {0}
  BY DEF OneCore, Cores
<1>2. DispatchStep
  BY <1>0 DEF DispatcherStep
<1>3. core'[0] = CoreStep(0, halting)
  BY <1>0, <1>1 DEF CoresStep
<1>4. executed' = executed \cup
                    {core_block_id[i] : i \in {k \in Cores : Halts(k, halting)}}
  BY <1>0 DEF CoresStep
<1>5. ~Halts(0, halting) => executed' = executed
  BY <1>1, <1>4
<1>6. Halts(0, halting) => executed' = executed \cup {core_block_id[0]}
  BY <1>1, <1>4
<1>7. blocks_dispatched \in Nat /\ blocks_done \in Nat /\ total_blocks \in Nat
  BY <1>0 DEF GpuTypeOK
<1>8. blocks_dispatched <= total_blocks
  BY <1>0, <1>7 DEF Accounting, Asked
<1>9. start_execution \/ done \/ 0 \notin core_reset => gpu_start
  BY <1>0, <1>1 DEF Asked
<1>10. gpu_start => total_blocks' = total_blocks
  BY <1>0, AskedStep DEF Asked, LatchStep
<1>11. total_blocks' \in Nat /\ (~gpu_start => blocks_dispatched = 0)
  BY <1>0 DEF LatchStep, GpuTypeOK, Asked
<1> QED BY <1>1, <1>2, <1>3, <1>5, <1>6, <1>7, <1>8, <1>9, <1>10, <1>11

(***************************************************************************)
(* The outcome of an edge.                                                 *)
(***************************************************************************)
Outcome == /\ Waiting(0) \/ Busy(0) \/ Exhausted(0)
           /\ blocks_dispatched <= total_blocks \/ ~gpu_start
           /\ done => blocks_done = total_blocks /\ total_blocks > 0

LEMMA WaitingStep ==
  ASSUME OneCore, Inv, ~reset, NEW halting, Edge(halting), Waiting(0)
  PROVE  Outcome'
<1> USE EdgeFacts
<1>1. /\ 0 \in core_reset /\ 0 \notin core_start
      /\ blocks_done = blocks_dispatched /\ executed = 0 .. blocks_dispatched - 1
      /\ core_start = {} /\ core_reset = {0}
  BY DEF Waiting, Inv, TypeInv, TypeOK, GpuTypeOK
<1>2. Completing = {} /\ core'[0] = "idle" /\ executed' = executed
  BY <1>1 DEF Completing, CoreStep, Halts
<1>3. done => blocks_done = total_blocks /\ total_blocks > 0
  BY DEF Inv, Accounting
<1>4. CASE ~start_execution
  <2>1. Ready = {} /\ Taking = {} /\ ~Finished
    BY <1>4 DEF Ready, Taking, Finished
  <2>2. core_reset' = {0} /\ core_start' = {}
    BY <1>1, <1>2, <2>1 DEF DispatchStep
  <2>6. done' => done
    BY <2>1, Zenon DEF DispatchStep
  <2>3. blocks_dispatched' = blocks_dispatched /\ blocks_done' = blocks_done
    BY <1>2, <2>1 DEF DispatchStep
  <2>4. Waiting(0)'
    BY <1>1, <1>2, <2>2, <2>3 DEF Waiting
  <2>5. done => gpu_start
    OBVIOUS
  <2> QED BY <2>3, <2>4, <2>5, <2>6, <1>3 DEF Outcome
<1>5. CASE start_execution
  <2>1. Ready = {0} /\ ~Trigger /\ total_blocks' = total_blocks
    BY <1>1, <1>5 DEF Ready, Trigger
  <2>2. core_reset' = {}
    BY <1>2, <2>1, <1>1 DEF DispatchStep
  <2>3. blocks_done' = blocks_done
    BY <1>2 DEF DispatchStep
  <2>4. CASE blocks_dispatched < total_blocks
    <3>1. Taking = {0} /\ ~Finished /\ ~done
      BY <1>1, <1>3, <2>1, <2>4 DEF Taking, Finished
    <3>2. core_start' = {0} /\ core_block_id'[0] = blocks_dispatched
           /\ blocks_dispatched' = blocks_dispatched + 1
      BY <1>1, <1>2, <3>1 DEF DispatchStep
    <3>3. start_execution' /\ ~done'
      BY <1>5, <3>1, Zenon DEF DispatchStep
    <3>4. Busy(0)'
      BY <1>1, <1>2, <2>2, <2>3, <3>2, <3>3 DEF Busy
    <3> QED BY <2>1, <2>4, <3>2, <3>3, <3>4 DEF Outcome
  <2>5. CASE blocks_dispatched = total_blocks
    <3>1. Taking = {}
      BY <2>5 DEF Taking
    <3>2. core_start' = {} /\ blocks_dispatched' = blocks_dispatched
      BY <1>1, <1>2, <3>1 DEF DispatchStep
    <3>3. done' => done \/ Finished
      BY Zenon DEF DispatchStep
    <3>4. done' => total_blocks > 0
      BY <3>3, <1>3 DEF Finished
    <3>5. Exhausted(0)'
      BY <1>1, <1>2, <2>1, <2>2, <2>3, <2>5, <3>2 DEF Exhausted
    <3> QED BY <1>1, <2>1, <2>3, <2>5, <3>2, <3>4, <3>5 DEF Outcome
  <2> QED BY <2>4, <2>5
<1> QED BY <1>4, <1>5

LEMMA BusyStep ==
  ASSUME OneCore, Inv, ~reset, NEW halting, Edge(halting), Busy(0)
  PROVE  Outcome'
<1> USE EdgeFacts
<1>1. /\ 0 \notin core_reset /\ 0 \in core_start
      /\ start_execution /\ ~done
      /\ blocks_dispatched = blocks_done + 1 /\ core_block_id[0] = blocks_done
      /\ core_start = {0} /\ core_reset = {}
      /\ total_blocks' = total_blocks
  BY DEF Busy, Inv, TypeInv, TypeOK, GpuTypeOK
<1>2. core[0] \in CoreState
  BY DEF Inv, TypeInv, TypeOK, GpuTypeOK
<1>3. Ready = {} /\ Taking = {} /\ ~Trigger
  BY <1>1 DEF Ready, Taking, Trigger
<1>4. ~Finished
  BY <1>1 DEF Finished
<1>5. start_execution' /\ ~done'
  BY <1>1, <1>4, Zenon DEF DispatchStep
<1>6. blocks_dispatched' = blocks_dispatched /\ core_block_id'[0] = core_block_id[0]
  BY <1>3 DEF DispatchStep
<1>7. CASE core[0] = "done"
  <2>1. Completing = {0} /\ ~Halts(0, halting)
    BY <1>1, <1>7 DEF Completing, Halts
  <2>2. core_reset' = {0} /\ core_start' = {} /\ blocks_done' = blocks_done + 1
    BY <1>1, <1>3, <2>1 DEF DispatchStep
  <2>3. executed = 0 .. blocks_dispatched - 1
    BY <1>7 DEF Busy
  <2>4. Waiting(0)'
    BY <1>1, <1>6, <2>1, <2>2, <2>3 DEF Waiting
  <2> QED BY <1>1, <1>5, <1>6, <2>4 DEF Outcome
<1>8. CASE core[0] # "done"
  <2>1. Completing = {}
    BY <1>1, <1>8 DEF Completing
  <2>2. core_reset' = {} /\ core_start' = {0} /\ blocks_done' = blocks_done
    BY <1>1, <1>3, <2>1 DEF DispatchStep
  <2>3. executed' = 0 .. (IF core'[0] \in {"halted", "done"}
                          THEN blocks_dispatched ELSE blocks_done) - 1
    <3>1. CASE Halts(0, halting)
      <4>1. core'[0] = "halted" /\ core[0] = "running"
        BY <1>1, <3>1 DEF CoreStep, Halts
      <4>2. executed = 0 .. blocks_done - 1
        BY <4>1 DEF Busy
      <4>3. executed' = executed \cup {blocks_done}
        BY <1>1, <3>1
      <4>4. executed' = 0 .. blocks_dispatched - 1
        BY <1>1, <4>2, <4>3
      <4> QED BY <4>1, <4>4
    <3>2. CASE ~Halts(0, halting)
      <4>1. core'[0] \in {"halted", "done"} <=> core[0] \in {"halted", "done"}
        BY <1>1, <1>2, <3>2 DEF CoreStep, CoreState
      <4> QED BY <3>2, <4>1 DEF Busy
    <3> QED BY <3>1, <3>2
  <2>4. Busy(0)'
    BY <1>1, <1>5, <1>6, <2>2, <2>3 DEF Busy
  <2> QED BY <1>1, <1>5, <1>6, <2>4 DEF Outcome
<1> QED BY <1>7, <1>8

LEMMA ExhaustedStep ==
  ASSUME OneCore, Inv, ~reset, NEW halting, Edge(halting), Exhausted(0)
  PROVE  Outcome'
<1> USE EdgeFacts
<1>1. /\ 0 \notin core_reset /\ 0 \notin core_start /\ core[0] = "idle"
      /\ blocks_done = blocks_dispatched /\ blocks_dispatched = total_blocks
      /\ executed = 0 .. blocks_dispatched - 1
      /\ core_start = {} /\ core_reset = {}
      /\ gpu_start /\ total_blocks' = total_blocks
  BY DEF Exhausted, Inv, TypeInv, TypeOK, GpuTypeOK
<1>2. Ready = {} /\ Taking = {} /\ Completing = {} /\ ~Halts(0, halting)
  BY <1>1 DEF Ready, Taking, Completing, Halts
<1>3. core'[0] = "idle" /\ executed' = executed
  BY <1>1, <1>2 DEF CoreStep
<1>4. /\ blocks_done' = blocks_done /\ blocks_dispatched' = blocks_dispatched
      /\ core_start' = {}
  BY <1>1, <1>2 DEF DispatchStep
<1>5. done' => total_blocks > 0
  <2>1. done' => done \/ Finished
    BY Zenon DEF DispatchStep
  <2> QED BY <2>1 DEF Finished, Inv, Accounting
<1>6. CASE Trigger
  <2>1. core_reset' = {0}
    BY <1>6 DEF DispatchStep
  <2>2. Waiting(0)'
    BY <1>1, <1>3, <1>4, <2>1 DEF Waiting
  <2> QED BY <1>1, <1>4, <1>5, <2>2 DEF Outcome
<1>7. CASE ~Trigger
  <2>1. core_reset' = {}
    BY <1>1, <1>2, <1>7 DEF DispatchStep
  <2>2. Exhausted(0)'
    BY <1>1, <1>3, <1>4, <2>1 DEF Exhausted
  <2> QED BY <1>1, <1>4, <1>5, <2>2 DEF Outcome
<1> QED BY <1>6, <1>7

LEMMA AccountingStep == ASSUME OneCore PROVE Inv /\ [Next]_vars => Inv'
<1> SUFFICES ASSUME Inv, [Next]_vars PROVE Accounting'
  BY TypeStep DEF Inv
<1>1. CASE UNCHANGED vars
  BY <1>1 DEF vars, inputVars, gpuVars, latchVars, dispatcherVars, coreVars,
              Inv, Accounting, Asked, Waiting, Busy, Exhausted
<1>2. ASSUME NEW halting \in SUBSET Cores, Edge(halting) PROVE Accounting'
  <2>0. Cores = {0}
    BY DEF OneCore, Cores
  <2>1. Asked'
    BY <1>2, AskedStep
  <2>2. CASE reset
    <3>1. DispatcherReset /\ LatchStep /\ executed' = {}
      BY <1>2, <2>2 DEF Edge, GpuEdge, DispatcherStep, CoresStep
    <3>2. Waiting(0)'
      BY <2>0, <3>1 DEF DispatcherReset, Waiting
    <3> QED BY <2>0, <2>1, <2>2, <3>1, <3>2
            DEF Accounting, DispatcherReset, LatchStep
  <2>3. CASE ~reset
    <3>1. Waiting(0) \/ Busy(0) \/ Exhausted(0)
      BY <2>0 DEF Inv, Accounting
    <3>2. Outcome'
      BY <1>2, <2>3, <3>1, WaitingStep, BusyStep, ExhaustedStep
    <3> QED BY <2>0, <2>1, <3>2 DEF Accounting, Outcome
  <2> QED BY <2>2, <2>3
<1> QED BY <1>1, <1>2 DEF Next

LEMMA OneCoreInvariant == ASSUME OneCore PROVE Spec => []Inv
BY AccountingInit, AccountingStep, TypeInit, PTL DEF Spec, Inv

(***************************************************************************)
(* With one core and a host that holds its configuration, the counters and *)
(* control lines always agree with the blocks that have been run.          *)
(***************************************************************************)
THEOREM BlocksAccounted == ASSUME OneCore PROVE Spec => []Accounting
<1>1. Inv => Accounting
  BY DEF Inv
<1> QED BY <1>1, OneCoreInvariant, PTL

(***************************************************************************)
(* done is reported only after every requested block has been run.         *)
(***************************************************************************)
THEOREM DoneIsTrue == ASSUME OneCore PROVE Spec => []DoneMeansExecuted
<1>1. Inv => DoneMeansExecuted
  <2> SUFFICES ASSUME Inv, done PROVE executed = 0 .. requested - 1 /\ requested > 0
    BY DEF DoneMeansExecuted
  <2>1. Cores = {0}
    BY DEF OneCore, Cores
  <2>2. Waiting(0) \/ Exhausted(0)
    BY <2>1 DEF Inv, Accounting, Busy
  <2> QED BY <2>2 DEF Inv, Accounting, Asked, Waiting, Exhausted
<1> QED BY <1>1, OneCoreInvariant, PTL

-----------------------------------------------------------------------------
(***************************************************************************)
(* The refinement: every edge of the GPU is a step of KernelExecution.     *)
(***************************************************************************)
Executing == {core_block_id[i] : i \in Running \ core_reset}

AbstractVars == <<gpu_start, requested, Executing, executed, done>>

LEMMA ExecutingIs ==
  ASSUME OneCore
  PROVE  /\ core[0] = "running" /\ 0 \notin core_reset
              => Executing = {core_block_id[0]}
         /\ core[0] # "running" \/ 0 \in core_reset => Executing = {}
         /\ (core[0] = "running" /\ 0 \notin core_reset
              => Executing = {core_block_id[0]})'
         /\ (core[0] # "running" \/ 0 \in core_reset => Executing = {})'
<1>1. Cores = {0}
  BY DEF OneCore, Cores
<1> QED BY <1>1 DEF Executing, Running

LEMMA KernelInit == Init => Kernel!Init
BY DEF Init, GpuInit, Kernel!Init, Running

LEMMA DoneStep ==
  ASSUME Inv, DispatchStep
  PROVE  (~Finished => done' = done) /\ (Finished => ~done /\ done' = TRUE)
<1>1. done \in BOOLEAN
  BY DEF Inv, TypeInv, TypeOK, GpuTypeOK
<1>2. done' = (done \/ Finished)
  BY DEF DispatchStep
<1>3. ~Finished => done' = done
  BY <1>1, <1>2, Zenon
<1>4. Finished => ~done
  BY DEF Finished
<1> QED BY <1>2, <1>3, <1>4, Zenon

(***************************************************************************)
(* Between two blocks, and after the last one, an edge at most reports.    *)
(***************************************************************************)
LEMMA QuietStep ==
  ASSUME OneCore, Inv, ~reset, gpu_start, NEW halting, Edge(halting),
         Waiting(0) \/ Exhausted(0)
  PROVE  Kernel!Next \/ UNCHANGED AbstractVars
<1> USE EdgeFacts
<1>1. ~Halts(0, halting) /\ executed' = executed
  BY DEF Waiting, Exhausted, Halts
<1>2. core'[0] = "idle"
  BY DEF Waiting, Exhausted, CoreStep, Halts
<1>3. Executing = {} /\ Executing' = {}
  BY <1>2, ExecutingIs DEF Waiting, Exhausted
<1>4. gpu_start' = gpu_start /\ requested' = requested
  <2>1. gpu_start' = (gpu_start \/ execution_start)
          /\ requested' = IF execution_start /\ ~gpu_start THEN num_blocks
                                                           ELSE requested
    BY DEF Edge, GpuEdge, LatchStep
  <2>2. gpu_start \in BOOLEAN
    BY DEF Inv, TypeInv, TypeOK, GpuTypeOK
  <2>3. gpu_start' = gpu_start
    BY <2>1, <2>2, Zenon
  <2> QED BY <2>1, <2>3
<1>5. CASE Finished
  <2>1. executed = 0 .. requested - 1 /\ requested \in Nat \ {0}
    <3>1. blocks_done = total_blocks /\ total_blocks > 0
      BY <1>5 DEF Finished
    <3>2. requested = total_blocks
      BY DEF Inv, Accounting, Asked
    <3> QED BY <3>1, <3>2 DEF Waiting, Exhausted
  <2>2. ~done /\ done' = TRUE
    BY <1>5, DoneStep
  <2>3. 0 \in 0 .. requested - 1
    BY <2>1
  <2>4. Kernel!Report
    BY <1>1, <1>3, <1>4, <2>1, <2>2, <2>3
       DEF Kernel!Report, Kernel!Kernel, Executing
  <2> QED BY <2>4 DEF Kernel!Next
<1>6. CASE ~Finished
  BY <1>1, <1>3, <1>4, <1>6, DoneStep DEF AbstractVars
<1> QED BY <1>5, <1>6

(***************************************************************************)
(* While the core has a block, an edge may begin it, end it or neither.    *)
(***************************************************************************)
LEMMA BlockStep ==
  ASSUME OneCore, Inv, ~reset, NEW halting, Edge(halting), Busy(0)
  PROVE  Kernel!Next \/ UNCHANGED AbstractVars
<1> USE EdgeFacts
<1>0. PICK b : b = core_block_id[0]
  OBVIOUS
<1>1. /\ 0 \notin core_reset /\ 0 \in core_start /\ ~done /\ start_execution
      /\ gpu_start /\ b = blocks_done /\ blocks_dispatched = blocks_done + 1
  BY <1>0 DEF Busy
<1>2. ~Finished
  BY <1>1 DEF Finished
<1>3. done' = done
  BY <1>2, DoneStep
<1>4. gpu_start' = gpu_start /\ requested' = requested
  <2>1. gpu_start' = (gpu_start \/ execution_start)
          /\ requested' = IF execution_start /\ ~gpu_start THEN num_blocks
                                                           ELSE requested
    BY DEF Edge, GpuEdge, LatchStep
  <2>2. gpu_start \in BOOLEAN
    BY DEF Inv, TypeInv, TypeOK, GpuTypeOK
  <2>3. gpu_start' = gpu_start
    BY <1>1, <2>1, <2>2, Zenon
  <2> QED BY <1>1, <2>1, <2>3
<1>5. Ready = {} /\ Taking = {} /\ ~Trigger
  BY <1>1 DEF Ready, Taking, Trigger, Inv, TypeInv, TypeOK, GpuTypeOK
<1>6. core_block_id'[0] = b
  BY <1>0, <1>5 DEF DispatchStep
<1>7. core[0] # "done" => core_reset' = {}
  BY <1>1, <1>5 DEF DispatchStep, Completing, Inv, TypeInv, TypeOK, GpuTypeOK
<1>8. CASE core[0] = "idle"
  <2>1. core'[0] = "running" /\ executed' = executed
    BY <1>1, <1>8 DEF CoreStep, Halts
  <2>2. Executing = {} /\ Executing' = {b}
    BY <1>0, <1>6, <1>7, <1>8, <2>1, ExecutingIs
  <2>3. b \in 0 .. requested - 1 /\ b \notin executed
    <3>1. executed = 0 .. blocks_done - 1
      BY <1>8 DEF Busy
    <3>2. requested = total_blocks
      BY <1>1 DEF Inv, Accounting, Asked
    <3> QED BY <1>1, <3>1, <3>2
  <2>4. Kernel!Begin(b)
    BY <1>3, <1>4, <2>1, <2>2, <2>3 DEF Kernel!Begin, Executing
  <2> QED BY <2>3, <2>4 DEF Kernel!Next, Kernel!Kernel
<1>9. CASE core[0] = "running" /\ 0 \in halting
  <2>1. Halts(0, halting)
    BY <1>1, <1>9 DEF Halts
  <2>2. core'[0] = "halted" /\ executed' = executed \cup {b}
    BY <1>0, <1>1, <1>9, <2>1 DEF CoreStep
  <2>3. Executing = {b} /\ Executing' = {}
    BY <1>0, <1>1, <1>9, <2>2, ExecutingIs
  <2>4. Kernel!End(b)
    BY <1>3, <1>4, <2>2, <2>3 DEF Kernel!End, Executing
  <2>5. b \in Executing
    BY <2>3
  <2> QED BY <2>4, <2>5 DEF Kernel!Next, Executing
<1>10. CASE core[0] = "running" /\ 0 \notin halting
  <2>1. core'[0] = "running" /\ executed' = executed
    BY <1>1, <1>10 DEF CoreStep, Halts
  <2>2. Executing' = Executing
    BY <1>0, <1>1, <1>6, <1>7, <1>10, <2>1, ExecutingIs
  <2> QED BY <1>3, <1>4, <2>1, <2>2 DEF AbstractVars
<1>11. CASE core[0] \in {"halted", "done"}
  <2>1. core'[0] = "done" /\ executed' = executed
    BY <1>1, <1>11 DEF CoreStep, Halts
  <2>2. Executing = {} /\ Executing' = {}
    BY <1>11, <2>1, ExecutingIs
  <2> QED BY <1>3, <1>4, <2>1, <2>2 DEF AbstractVars
<1>12. core[0] \in CoreState
  BY DEF Inv, TypeInv, TypeOK, GpuTypeOK
<1> QED BY <1>8, <1>9, <1>10, <1>11, <1>12 DEF CoreState

LEMMA KernelStep ==
  ASSUME OneCore PROVE Inv /\ [Next]_vars => Kernel!Next \/ UNCHANGED AbstractVars
<1> SUFFICES ASSUME Inv, [Next]_vars PROVE Kernel!Next \/ UNCHANGED AbstractVars
  OBVIOUS
<1>0. Cores = {0}
  BY DEF OneCore, Cores
<1>1. CASE UNCHANGED vars
  BY <1>1 DEF vars, inputVars, gpuVars, latchVars, dispatcherVars, coreVars,
              AbstractVars, Executing, Running
<1>2. ASSUME NEW halting \in SUBSET Cores, Edge(halting)
      PROVE  Kernel!Next \/ UNCHANGED AbstractVars
  <2>1. CASE reset
    <3>1. /\ gpu_start' = FALSE /\ requested' = 0 /\ done' = FALSE
          /\ executed' = {} /\ core_reset' = Cores
      BY <1>2, <2>1 DEF Edge, GpuEdge, LatchStep, DispatcherStep,
                        DispatcherReset, CoresStep
    <3>2. Executing' = {}
      BY <1>0, <3>1, ExecutingIs
    <3>3. Kernel!Forget
      BY <3>1, <3>2 DEF Kernel!Forget, Executing
    <3> QED BY <3>3 DEF Kernel!Next
  <2>2. CASE ~reset /\ gpu_start
    <3>1. Waiting(0) \/ Busy(0) \/ Exhausted(0)
      BY <1>0 DEF Inv, Accounting
    <3>2. CASE Busy(0)
      BY <1>2, <2>2, <3>2, BlockStep
    <3>3. CASE Waiting(0) \/ Exhausted(0)
      BY <1>2, <2>2, <3>3, QuietStep
    <3> QED BY <3>1, <3>2, <3>3
  <2>3. CASE ~reset /\ ~gpu_start
    <3>0. /\ 0 \in core_reset /\ ~start_execution
          /\ LatchStep /\ DispatchStep /\ CoresStep(halting)
      BY <1>0, <1>2, <2>3 DEF Inv, Accounting, Asked, Edge, GpuEdge, DispatcherStep
    <3>1. executed' = executed
      <4>1. ~Halts(0, halting)
        BY <3>0 DEF Halts
      <4> QED BY <1>2, <2>3, <4>1, EdgeFacts
    <3>2. 0 \in core_reset' /\ ~Finished
      BY <1>0, <3>0 DEF DispatchStep, Ready, Finished
    <3>3. done' = done
      BY <3>0, <3>2, DoneStep
    <3>4. Executing = {} /\ Executing' = {}
      BY <3>0, <3>2, ExecutingIs
    <3>5. CASE execution_start
      <4>1. gpu_start' = TRUE /\ requested' = num_blocks
        BY <2>3, <3>0, <3>5 DEF LatchStep
      <4>2. num_blocks \in 0 .. MaxBlocks
        BY DEF Inv, TypeInv, TypeOK, GpuTypeOK
      <4>3. gpu_start = FALSE
        BY <2>3 DEF Inv, TypeInv, TypeOK, GpuTypeOK
      <4>4. Kernel!Ask(num_blocks)
        BY <2>3, <4>3, <3>1, <3>3, <3>4, <4>1 DEF Kernel!Ask, Executing
      <4> QED BY <4>2, <4>4 DEF Kernel!Next
    <3>6. CASE ~execution_start
      <4>1. gpu_start' = FALSE /\ requested' = requested
        BY <2>3, <3>0, <3>6 DEF LatchStep
      <4>2. gpu_start = FALSE
        BY <2>3 DEF Inv, TypeInv, TypeOK, GpuTypeOK
      <4> QED BY <3>1, <3>3, <3>4, <4>1, <4>2 DEF AbstractVars
    <3> QED BY <3>5, <3>6
  <2> QED BY <2>1, <2>2, <2>3
<1> QED BY <1>1, <1>2 DEF Next

(***************************************************************************)
(* The GPU with one core implements KernelExecution, for kernels of any    *)
(* number of blocks: each block is run exactly once before done.           *)
(***************************************************************************)
THEOREM ImplementsKernel == ASSUME OneCore PROVE Spec => RunsKernel
<1>1. AbstractVars = Kernel!vars
  BY DEF AbstractVars, Kernel!vars, Executing
<1>2. Inv /\ [Next]_vars => [Kernel!Next]_(Kernel!vars)
  BY <1>1, KernelStep DEF AbstractVars, Kernel!vars, Executing
<1> QED BY <1>2, KernelInit, OneCoreInvariant, PTL DEF Spec, RunsKernel, Kernel!Spec

(***************************************************************************)
(* No edge resets the core, or changes its block, while its block runs.    *)
(***************************************************************************)
THEOREM BlocksNotCutShort == ASSUME OneCore PROVE Spec => NotCutShort
<1>1. Inv /\ [Next]_vars => [LeavesRunning]_vars
  <2> SUFFICES ASSUME Inv, NEW halting \in SUBSET Cores, Edge(halting),
                      core[0] = "running", 0 \notin core_reset, ~reset
               PROVE  0 \notin core_reset' /\ core_block_id'[0] = core_block_id[0]
    BY DEF LeavesRunning, Next, OneCore, Cores
  <2>1. Busy(0)
    BY DEF OneCore, Cores, Inv, Accounting, Waiting, Exhausted
  <2>2. Ready = {} /\ Taking = {} /\ ~Trigger /\ Completing = {} /\ core_reset = {}
    BY <2>1, EdgeFacts
       DEF Busy, Ready, Taking, Trigger, Completing, Inv, TypeInv, TypeOK, GpuTypeOK
  <2> QED BY <2>2, EdgeFacts DEF DispatchStep
<1> QED BY <1>1, OneCoreInvariant, PTL DEF Spec, NotCutShort
=============================================================================

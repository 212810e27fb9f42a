# Elson-V: models and proofs

Elson-V is a small SIMT GPGPU: SystemVerilog for the machine
(`src/hardware/rtl/lock_in`), an assembler (`src/assembler`), a compiler for a
C dialect (`src/compiler`) and a k-means application that drives the machine
from an ARM core (`src/code`).  This directory holds TLA+ models of the
machine, of its host, of the assembler and of the compiler with its kernels,
the TLC configurations that check them on small instances, and TLAPS proofs about
most of them: the memory controller, the dispatcher, the driver, the core behind its
controller, the floating-point ALU, the assembler with the decoder, and the layout of a
kernel's memory.

The models are written from the code.  Where code and documentation disagree
the model follows the code.  Section 6 has all the disagreements that were met: the larger ones are each
stated as a property that TLC finds violated, by a run or a further configuration, and the smaller ones are listed.


## 1. Inventory

### The machine

A kernel is a number of *blocks*; a block is a number of *warps*; a warp is a
group of *threads* that execute one instruction stream in lockstep, with a
scalar register file per warp and a vector register file per thread.  One of
the scalar registers is the execution mask.

| component | source | state it keeps | operations | talks to |
|---|---|---|---|---|
| GPU top | `gpu.sv` | latched `start_execution`, latched block count | latch the host's request at each edge | host (wires), dispatcher, cores, memory controllers |
| dispatcher | `dispatcher.sv` | `start_execution`, `done`, `blocks_dispatched`, `blocks_done`, per core `core_start`, `core_reset`, `core_block_id` | trigger, dispatch, complete, finish, reset | cores (start, reset, block id, done) |
| compute core | `compute_core.sv` | per warp `warp_state`, `pc`; `current_warp`; `vector_to_scalar_data` | start, schedule a warp, walk it through fetch / decode / request / wait / execute / update | all units below |
| fetcher | `fetcher.sv` | `IDLE / FETCHING / DONE`, fetched word, read port | fetch one word per instruction | instruction memory controller |
| decoder | `decoder.sv` | decoded fields, kept from one instruction to the next | decode in `WARP_DECODE` | core, units |
| register files | `reg_file.sv`, `scalar_reg_file.sv` | registers, read operands | read in `REQUEST`, write in `UPDATE` | units |
| ALU, floating ALU | `alu.sv`, `floating_alu.sv` | pipeline registers (2 and 4 stages) | one stage per edge | register files |
| LSU | `lsu.sv` | `IDLE / REQUESTING / WAITING / DONE`, memory port | load, store | link registers |
| link registers | `gpu.sv:212-227` | one register per wire between an LSU and its port of the controller, in both directions | pass on at each edge | LSUs, data memory controller |
| memory controller | `mem_controller.sv` | per channel a state and a port to the memory; a mark and ready signals per consumer | accept, wait, relay, release | fetchers or LSUs, external memory |
| wrapper, overlay | `gpu_wrapper.sv`, `src/overlay` | none | wiring; the wrapper ties the ready of all channels to 1 | host |

Everything is clocked by one clock and every register reads the others as they
were before the edge, so a step of the models is a clock edge, and what is
concurrent in the machine happens in the same step.

### The software

| component | source | state it keeps | operations |
|---|---|---|---|
| host driver | `ps_driver.c` | loop counter, centroids, results in shared memory | start a kernel, poll `done`, acknowledge, compute new centroids |
| assembler | `assembler.cpp` | symbol table, text and data addresses, section | first pass: labels and addresses; second pass: encoding |
| compiler: registers | `ast_context_registers.cpp` | free and used registers, in a file for the processor, one for each warp and one for each thread | allocate, release, allocate for all threads of a warp |
| compiler: expressions, declarations, statements | `operations`, `arrays`, `statements`, `control_flow`, `functions` | the emitted lines; all other state is the context's | one emission per AST node |
| compiler: kernels | `ast_kernel.cpp`, `ast_out.cpp`, `ast_sync.cpp` | layout of a kernel's memory; which warp is active | store the initial registers of warps and threads, load the first warp, run the body, save and switch warps, copy results out |
| compiler: divergence | `ast_ifelse.cpp`, `ast_relational_operation.cpp` | the mask in a register of the warp | narrow and restore the mask around branches |
| compiler: scopes | `ast_context*.cpp` | name maps, stack offsets, label counters | enter and leave scopes |
| compiler: syntax | `lexer.flex`, `parser.y` | AST | build the tree |
| test benches | `src/hardware/tb`, `src/compiler/src/tests` | none | drive a module, compare |

### What is hard, and what makes a component correct

* **Memory controller.** Several channels look for requests at the same edge,
  and the mark that says "taken" is seen one edge later (`mem_controller.sv:75`).
  The memory answers after any number of cycles.  Correct: it acts as one
  atomic memory, answers each request once and only to the consumer that
  asked, and the consumers it can starve are known.
* **Dispatcher.** Cores finish whenever they like and the counters are
  written in a loop of non-blocking assignments (`dispatcher.sv:76-92`); the
  start bit is never cleared; a reset may come at any time.  Correct: each
  block runs exactly once, `done` is true when it is reported, a running block
  is never cut short, and a kernel ends.
* **Driver.** It shares memory with the cores and synchronises only by a bit.
  Correct: the results it reads are of its own kernel and no block runs
  while it reads and writes.
* **Compute core.** Decoder, operands, pipelines and LSUs each need a fixed
  or an unbounded number of edges, and the state machine has to wait exactly
  long enough; all units are shared by the warps; several registers keep the
  value of an earlier instruction.  Between LSU and controller ready and valid
  are seen edges late, and a core may be reset beside a channel that works for it.
  Correct: a program is executed as the instruction set says, by one block
  after the other, no request gets another one's answer, and a block comes to its end.
* **Floating ALU.** Alignment, normalisation, rounding, exponent wrap-around.
  Correct: the results are those of the numbers that the words mean, up to
  truncation.
* **Assembler.** Two passes that have to agree on addresses, encoders that
  scatter immediates, and a decoder in another language that gathers them.
  Correct: the decoder reads what was written, jumps and data land where the
  labels say.
* **Compiler.** Registers, scopes, loop labels and stack offsets are taken and
  given back by hand on every path of a recursive emission; the size of the frame is
  computed from other declarations than those that get a place in it; what
  is emitted is not always what the assembler knows.  Correct: the machine
  computes from the code what the program says.
* **Kernels.** Several hundred lines of code are emitted around a kernel's body; they
  agree about slots of memory by numbers written down in three places, use registers of
  three kinds of files by name, address memory with 14 bits, and jump over code
  whose length depends on the kernel.  Correct: areas do not overlap, every
  thread begins with its stack and its mask, and the arrays hold what C says.

All hazards are listed with their lines in `PROJECT.json`, each with the
properties that would catch it.


## 2. Plan

Ordered by how much rests on the component.

| step | modules | status |
|---|---|---|
| 1 | `MemController`, `MemSystem`, abstract `AtomicMemory`; proofs | done |
| 2 | `Dispatcher`, `KernelRun`, abstract `KernelExecution`; proofs | done |
| 3 | `HostDriver` (composes `Dispatcher` with the driver) | done |
| 4 | `Instructions`, abstract `Isa`, `ComputeCore` | done |
| 5 | `FloatingAlu` | done |
| 6 | `Encoding`, `Assembler` | done |
| 7 | `CPrograms` (trees and their meaning), scalar code of one function | done |
| 8 | `CoreMemory`: LSUs, the link registers and `MemController` composed; a core reset between two blocks | done |
| 9 | kernels of the compiler: `KernelLayout` and its proofs, `KernelCode`; the mask around branches; calls and parameters as they are emitted | done |
| 10 | threads that do different things, against a per-thread meaning of programs; addressing of globals (`%hi`, `%lo`) | open |
| 11 | proof that `CoreMemory` implements `Isa` for one warp | done |
| 12 | `Assembler_proofs`: the two passes agree on sources of any length | done |
| 13 | that the decoder takes apart what the encoders built, for every operand | done |
| 14 | `FloatingAlu_proofs`: the four stages compute the numbers for every width | done |

Abstract specifications: `AtomicMemory`, `KernelExecution`, `Isa`, and the
meaning of programs in `CPrograms`.


## 3. The modules and the code

**`MemController`** is `mem_controller.sv`.  `channel[i]` is the record of the
registers of channel `i`; `consumer_read_ready`, `consumer_write_ready` and
`channel_serving_consumer` are bit vectors of the code as sets.
`ChannelStep` has one case for each case of the state machine; `Requests` is
the condition of the search at line 73 and `FirstRequest` its result, which
is the consumer with the smallest index.  All channels read the marks of
before the edge.  Where two channels write one register in one edge the later
one in the loop wins (`Last`).  **`MemSystem`** closes it with consumers that
keep the handshake of `fetcher.sv` and `lsu.sv`, and with a memory
that answers a set of channels at an edge.  The sets it may answer are the
constant `AnswerSets`.

**`AtomicMemory`** is the promise to a consumer: a request takes effect in one
atomic step between the edge that issues it and the edge that retires it.
`ActsAtomically` is the refinement.  Under it a request is what a consumer's
port carries and `done` is the consumers that see ready.

**`Dispatcher`** is `dispatcher.sv`, the configuration latch of `gpu.sv` and
what the dispatcher sees of a core: reset, idle, running, its last warp halted,
done.  When a block's warps halt is open.  `executed` is a ghost: the blocks
that have been run to the end; `requested` is a ghost too: the block count
at the edge that latched the start.  The counters add at most 1 at an edge,
as non-blocking assignments in a loop do.  **`KernelRun`** adds a host like the
test bench (`gpu_tb.cpp`): it may start, change its block count, and reset
at any time.  `HoldsConfig` says that it leaves `num_blocks` alone while a
kernel runs, as test bench and driver do; `MayReset` allows resets.
**`KernelExecution`** is the promise: each block exactly once, then `done`.

**`HostDriver`** puts the loop of `ps_driver.c` beside the GPU.  Any number of
clock edges fits between two of its steps.  Control and status registers are
not in the sources (an AXI peripheral of the overlay); the model takes them as
the wires `execution_start` and `done`.  `results[b]` is the cycle whose
centroids block `b` last used.

**`ComputeCore`** is the core edge by edge: the scheduler with its warp states
(`compute_core.sv:174-360`), a fetcher per warp, the decoder with the fields
that it leaves alone, operand selection, both pipelines with all of their
stages, the LSUs, and register files.  Scalar lane and thread lanes are
one function of *lanes*, the scalar one `Scalar`.  One instruction stands for
each kind of unit: `addi` (integer ALU), `fadd` (floating ALU), `sx` (the
comparison that writes a scalar register from all threads), `lui`, `beqz`,
`jal`, `lw`, `sw`, `exit`, `seqi`.  Integer and float registers are one bank
and there is one general register, with zero and the registers 29 and 31.  In a
thread's file these two hold the thread's number and the size of the block and cannot be
written (`reg_file.sv:74-86`); in the scalar file 29 is like any other and 31 is the mask,
which a reset fills with ones (`scalar_reg_file.sv:53`).  The decoder marks branches, jumps and
`exit` as scalar whatever their bit says, and a reset clears its flags but not `alu`; the
scalar ALU is reset with the core, those of the threads are not (their `rst` is no net of the core).
**`CoreMemory`** puts it where it is in `gpu.sv`: the ports of its LSUs go
through the link registers (`LinkStep`) to the `MemController` of step 1, one consumer
per lane, and from there to a memory that answers whenever it likes.  It
runs one block after the other; the dispatcher's reset between them resets the core
(`ResetStep`), while links and controller go on.  **`Isa`** is what a
programmer reads in `docs/ISA.md`: an instruction is one step of one
warp, and `Restart` begins the next block.  `ExecutesIsa` is the refinement; the
ghost `committed` is the memory as instructions leave it at their `UPDATE`, because the
LSUs of one instruction write in any order before.  **`Instructions`** has what both share.

**`FloatingAlu`** is `floating_alu.sv`: four stages, each register of a stage
a field of a record, widths as parameters (`ExpBits`, `FracBits`); 8 and 23 give
the code.  Words are numbers, bit tests and slices are `\div` and `%`, all
assignments keep their widths.

**`Encoding`** is the encoders of `assembler.cpp` and the field extraction of
`decoder.sv`, on words that are sets of bit positions.  **`Assembler`** is its
`main`: the first pass line by line (section, alignment, label, `.word`, `.zero`,
instruction), the second pass instruction by instruction, and the data.
Reading of tokens is left out: a line is a record of its parts (`Line`).

The compiler is five modules, one above the other.  The context of the code is a
record that every operator takes and returns, with the fields that the code mutates;
the order in which registers are taken, used and given back is the code's.

* **`CompilerContext`** is `context/`: the register files, the
  scopes with their variables, the stack offsets, labels, and the lines so far.  A file is `<<>>`
  for the processor, `<<w, 0>>` for a warp and `<<w, t>>` for a thread.
* **`KernelLayout`** says where a kernel keeps the registers of its warps and threads.
* **`KernelCode`** is `ast_kernel.cpp`: the initial registers, the
  first warp, and behind the body the switch that is to save a warp, find one that is
  not complete and load it.
* **`Emission`** has one `Emit...` operator for each class of nodes.  In the body of a
  kernel the mode is `v`, and branches narrow the mask.
* **`Compiler`** compiles one function, a declaration or statement of its body per
  step.  `FinishFunction` does what the assembler does with the lines: it resolves labels through
  the branch encoding of `Encoding`, takes names of registers that it does not know for
  `x0` where it does so silently, and refuses the function where it
  reports a line.  Then a machine executes the words: a scalar register file, and
  a file for each of the `Lanes`, of which those act whose bit of the mask is set.

**`CPrograms`** has the trees that `parser.y` builds and their meaning in C,
to compare with.

`PROJECT.json` maps each definition to its lines.


## 4. What the runs check

| run | instance | properties |
|---|---|---|
| `mem_atomic` | 2 consumers, 2 channels with a common ready, 2 addresses, 2 words | the handshake is `Coherent`; the channels are in `Lockstep`; `ActsAtomically`; `FirstConsumerServed` |
| `mem_one_worker` | the same | `OneWorkerPerRequest` is violated |
| `kernel_one_core` | 1 core, up to 3 blocks, reset at any edge | `Accounting`, `DoneMeansExecuted`, `NotCutShort`; `RunsKernel` (refinement); `KernelCompletes` |
| `driver_one_core` | 1 core, up to 3 blocks, 2 cycles | `FirstResultsFresh`, `HostAlone`, `DriverFinishes` |
| `driver_second_cycle` | 1 core, up to 2 blocks, 2 cycles | `ResultsFresh` is violated |
| `core_one_warp` | 1 warp, 2 threads, 2 channels, words of 2 bits, every program of 3 instructions without `seqi` and without a `lui` behind a jump, run by 2 blocks | `ExecutesIsa` (refinement); `AnswersFresh`, `ResetsQuietly`; `BlocksComplete` |
| `core_two_warps` | 2 warps, additions only | `ExecutesIsa` is violated |
| `floating_alu` | 4 exponent and 2 fraction bits, every operation on every pair of words | sums, products, conversions, comparisons against the numbers |
| `assembler` | every text of 4 lines of 7 kinds, before and behind data; every instruction with the limits of its operands | `DistancesEncoded`, `JumpsLand`, `DecodesAsWritten`, `DataLands` |
| `compiler` | 265 functions: every expression of two operators over constants, variables, array elements and decrements, loops in loops with all jumps out of them, nested blocks; 4 kernels of 1 to 5 threads, from memories of zeros and of the test bench's pattern; 24 functions that are refused or only compiled | `TypeOK`: no scope, no loop and no call is left open; `Computes`; `FrameHolds`; `LosesOnlyThese`; `Finishes`; for kernels `AreasInitialised`, `LanesHaveStack`, `KernelComputes` |
| `kernels_end` | a kernel of 4 threads | `KernelsEnd` is violated |
| `assembler_branches` | branches over 30, 31 and 130 instructions | `BranchesLand` is violated |

Five more configurations show what the runs above exclude by their constants.  TLC finds each violated
within seconds, with `tlc -config X.cfg M`; they are not among the runs of `PROJECT.json`.

| configuration | module | instance | violated |
|---|---|---|---|
| `KernelTwoCoresDone.cfg` | `KernelRun` | 2 cores, 2 blocks | `DoneMeansExecuted` |
| `KernelConfigChanges.cfg` | `KernelRun` | 1 core, 2 blocks, a host that changes its block count at any edge | `NoBlockLost` |
| `CoreSeqi.cfg` | `MCCoreMemory` | 1 warp, additions and `seqi` | `ExecutesIsa` |
| `CoreLuiAfterJump.cfg` | `MCCoreMemory` | 1 warp, jumps and `lui` | `ExecutesIsa` |
| `FloatingAluRounding.cfg` | `MCFloatingAlu` | as `floating_alu` | `SumsClose` |

### Bounds, and why they are enough

* *Memory controller.* Two consumers and two channels have all races there
  are between two of each: same request, same mark, same edge.  Two
  addresses and two words tell a stale or misdirected answer from the right
  one.  The proofs cover any number.
* *Dispatcher.* Three blocks are a first, a middle and a last one; with one
  core more blocks only repeat the middle.  The proofs cover any number.
* *Driver.* Two cycles: the second is the first that meets a GPU which has
  already been used.
* *Core.* Programs of three instructions have each pair of neighbours, which is
  how far the pipelines reach, and a branch over an instruction.  The memories answer at any
  edge; the ready inputs of the two channels move together, as the wrapper's do.  The decoder starts with any ALU
  operation that a block before may have left there, and the second block with
  whatever the first has left in links and controller.  A word of two bits makes
  additions wrap and addresses collide.
* *Floating ALU.* Four exponent bits keep the ranges apart (wrap-around, underflow,
  overflow, numbers below and above 1); with two fraction bits every shift distance and
  every rounding position occurs.  Nothing in the code depends on the widths
  but the constants 127, 255 and the bit positions, which are parameters.  The proofs cover
  8 and 23, and any other width.
* *Assembler.* Words have their full 32 bits here.  The operands are the limits
  of each immediate field and both values next to a scattered field; three branch
  distances are around the first dropped bit.  The proofs cover every operand and any number
  of lines.
* *Compiler.* Eight registers instead of 23 and a slack of 8 bytes instead of 128 let
  short functions reach both limits.  Two operators have each operator as left
  and right operand of another, so a register that is given back too early
  is taken again while it is in use.  `Fuel`, the iterations that the meaning
  follows, is more than any of the loops has.  Kernels of 1, 2 and 5 threads have a
  partial warp and two warps.  Two lanes are enough to tell threads apart, because all
  lanes execute the same instructions; `winner` is the lane whose store to a common
  word comes last, and each is tried.  The fills are what memory may hold
  where nobody has written; the code loads such words.

### Fairness

* *The clock ticks.* Where a clock edge may leave all registers as they are,
  fairness asks for a step that changes something.
* *Memories answer.* An external memory that is asked answers eventually.
  That is the contract of the memory behind the ports, and the wrapper's
  constant ready fulfils it.  `MemSystem` states it as: each channel is
  infinitely often not waiting, for all channels at once, which common
  ready inputs imply.
* *Blocks halt.* The warps of a running block reach `exit`.  `BlocksComplete`
  justifies it for programs without backward jumps; for programs with loops it
  is a property of the program.
* *The driver is scheduled* by its operating system.
* *A warp that runs executes its next instruction* (`Compiler`, after compilation):
  `BlocksComplete` of the core.

In `CoreMemory` fairness is one action: the edge at which both memories answer all
that they are asked.  Other edges come between in any number.

`FirstConsumerServed` needs only the first two.  It holds for consumer 0 alone:
the search restarts at 0 each time, so any other consumer may be starved by
those before it.


## 5. What is proved

Eight modules; every theorem holds for all values of the constants that satisfy the named
assumptions and the hypotheses that it states.

**`MemController_proofs`** has what the next two need of the controller: the
search returns the smallest index, each step keeps the types, and with a common
ready a step is one of five (`LockstepStep`): accept, relay a read, relay a write,
release, or hold.

**`MemSystem_proofs`**

* `TypeCorrect`: any number of consumers and channels, any memory, any answers.
* `ChannelsActAsOne`, `HandshakeCoherent`, `ImplementsAtomicMemory`: with
  `LockstepAnswers`, that is, when the ready inputs of all channels move
  together.  The wrapper ties them all to 1, and with one channel there is only one.

  The inductive invariant is `TypeOK /\ Lockstep /\ OneRequest /\ Coherent`.
  `Coherent` alone is not inductive: if two channels could be in different
  states, the marks would say nothing about either.  `Lockstep` is what
  makes the shared marks describe "the" channel: from
  equal states with equal answers all channels make the same choice.
  `OneRequest` (a consumer does not read and write at once) keeps a
  channel that relays a read from meeting a new write of its consumer.
  For the refinement a step that answers the channels maps to `Perform` of the current
  consumer, every other step to one that only issues and retires.

**`KernelRun_proofs`**

* `TypeCorrect`: any number of cores and blocks, any host.
* `BlocksAccounted`, `ImplementsKernel`, `DoneIsTrue`, `BlocksNotCutShort`:
  under `OneCore`, that is, one core and a host that holds its block count.
  With two cores the statements are false (`KernelTwoCoresDone.cfg`), and so they are
  without `HoldsConfig` (`KernelConfigChanges.cfg`).

  The inductive invariant is types and `Accounting`: a core is `Waiting` (in
  reset, all dispatched blocks done), `Busy` (one block more dispatched than
  done, and it is the core's) or `Exhausted` (no block left).  The counters, control lines and
  the ghost `executed` are tied together in each case.  There is one lemma for each case of the core
  and one for the latch; the refinement maps the edge at which a core starts to `Begin`, the
  edge at which its last warp halts to `End`, that which raises
  `done` to `Report`, the one that latches a start to `Ask`, and a reset to `Forget`.

**`HostDriver_proofs`**

* `TypeCorrect`: any number of cores, blocks and cycles.
* `FirstCycleFresh`, `DriverAlone`, `LaterCyclesRunNothing`: under `OneCore`.  The last one says what
  `driver_second_cycle` finds: after its first cycle the driver runs no block any more.

  The inductive invariant adds to the `Accounting` of the GPU that `done` stays (`DoneStays`:
  the start bit stays latched and no block is left), and that until it has been seen
  the driver's centroids are those of the first cycle (`FirstCentroids`).

**`CoreMemory_proofs`**

* `TypeCorrect`: any number of warps, threads, channels and blocks, any programs and answers.
* `AnswersStayFresh`, `NothingCrossesReset`: one warp and `CommonReady`, the answers of
  `MemSystem_proofs`.  With two warps `ExecutesIsa` is violated (`core_two_warps`).

  The inductive invariant of the first three, `HandshakeInv`, follows a request of a lane through nine *stages*: what the LSU
  asks, what the link carries, where the channel is and what ready is on its way (`Silent`, `Asked`, `Sent`,
  `Served`, `Relayed`, `Reached`, `Taken`, `Dropped`, `Released`), and says which of them each state of the warp
  allows.  The properties alone are not inductive: that nothing is left when the next
  request is raised holds because a load or a store goes through `EXECUTE`, `INT_ALU_WAIT` and
  `UPDATE`, three edges, and these are the three that the last stages take.  That in turn rests on
  `Control`: a load or store has `ADDI` in the decoder, so it never takes another way.
  `StageStep` is the protocol without the core, `CoreLane` the core without the protocol.
* `ImplementsIsa`: `Spec => ExecutesIsa` for any number of threads, channels, words and blocks,
  any delays of the memories.  It has three hypotheses.  One warp and `CommonReady` are those above.
  The third is `Executable(p)` for each program: no `seqi`, which no ALU executes,
  and `lui` only where no `jal` (also none of an earlier program, `Kept`) is, since the
  decoder would still hold that jump in `alu` and take it again.  The programs of `core_one_warp` satisfy it.

  Without the third the statement is false (`CoreSeqi.cfg`, `CoreLuiAfterJump.cfg`).

  Its inductive invariant is `ExecutionInv`: `HandshakeInv`, and for each state of the warp how far its
  instruction is.  `FetchInv`, `DecodeInv`: fetcher and decoder hold the instruction at `pc`.
  `OperandInv`, `AluInv`, `FpuInv`, `ComparisonInv`: the stages of the pipelines hold
  the instruction's operands and results, one stage further with each state; this is where the states
  of the scheduler are counted against the depth of the pipelines.
  `RequestInv`, `ChannelInv`: LSU, link and channel carry the same address and
  data, and what comes back is the word of before the instruction.
  `MemoryInv`: the memory is that of before the instruction with the stores of the lanes that are
  `Performed`, where of several to one address any may have been the last.

  `Staying` says that from `REQUEST` to `UPDATE` nothing moves that the instruction depends on
  (`Unchanged`), so that each of these parts follows by itself, in a lemma named `...Kept`.
  At `UPDATE` they give the step of `Isa`: `PcAgrees`, `RegistersAgree`, `MemoryAgrees`.
  The edge that ends an instruction maps to `Step(0)` (`EndRefines`), a reset to `Restart`, and all other
  edges stutter (`OtherEdgesStutter`).

**`KernelLayout_proofs`**, about kernels of any number of threads.

* `AreasApart`: the areas of any two warps or threads are at least 64 words apart.
* `KernelSlotsApart`: up to 51 threads no two registers have the same word, although
  `li` leaves 14 bits of an address.
* `KernelSlotsBelowStack`: up to 16 threads none of them lies in a function's frame.

  Areas are handed out in an order, so the place of one is a cardinality: the number
  of areas that come after it.  The lemmas count them (`AreasCounted`: a kernel has at most as
  many as threads and warps), and show that a strictly later area has strictly
  fewer (`FewerLater`), which puts them 256 bytes apart.  From 15000 on, 16384 bytes
  hold 64 areas before addresses repeat, which is 51 threads with their 13 warps, and 21 before
  they reach the stack at 4000.  `AreasInitialised` and `FrameHolds` check that the code
  around it keeps to this layout.

**`Assembler_proofs`**, about sources of any length.

* `TypeCorrect`: every word that is written has 32 bits, whatever the operands are.
* `DataLandsForAll`: with `OrdinaryData`, a label in front of a data word is the address
  the word is loaded to.
* `DistancesEncodedForAll`: with `OrdinaryText`, every jump and branch is the word for its
  distance in the program.

  The hypotheses name what parts the two passes, and each is needed.  In both a label is set
  once (`LabelsOnce`).  `OrdinaryData`: in front of a word no `.zero`, which advances the
  address and writes nothing, and no `.align` beyond a word.  `OrdinaryText`: every line
  of text assembles, since one that does not has an address and no word, and no
  `.align` beyond a word.  The invariants, `DataInv` and `TextInv`, say of the lines read
  so far (`LinesRead`) that those of a kind are at their places, counted
  by `Before`, and that the address is four times the place; the second pass then writes
  one word for each instruction (`WordsWritten`).
* `DecodesForAll`: with `TextAssembles` and `OperandsFit`, the decoder takes out of each word
  the operation, registers and immediate of its line.
* `JumpsLandForAll`: with `OrdinaryText` and less than 2^25 lines, every jump lands on its label, and so does
  every branch forwards over fewer than 32 instructions.

  `TextAssembles` is the part of `OrdinaryText` that makes words and lines agree; addresses do not
  matter here.  `OperandsFit` says of a line that
  the decoder knows its operation (it has no `div`, `divi` and `fdiv`), that its number
  fits its field of 14 or 15 bits (5 for `slli`; `lui` takes any number and keeps 20 bits of it), that an
  `exit` is scalar, and that the label of a `sync` is defined.  All instructions of the run
  `assembler` satisfy it.
  The argument follows the word through both languages.  `BitsJoin`: a field of *a + b* bits is one of *a*
  and one of *b* above it, which is why an immediate may be scattered.  `FieldUnion`,
  `PieceHere`, `PieceElsewhere`: a field of a word is that of the one piece that was shifted into its place.
  `NumberOfBits`, `SignedReads`: `Number` adds up what `Bits` took apart, and the copies of the sign that
  `sign_extend_14` and the others put in front change the number by exactly the power that
  `Bits` had dropped.  Then there is one lemma `Reads...` for each format of instructions.
  Branches backwards or over more than 31 instructions are false (`assembler_branches`).

**`FloatingAlu_proofs`**, for any number of exponent bits and two or more fraction bits.

* `TypeCorrect`: every register and result stays in its width, so no assignment loses a bit
  that the model keeps.
* `Compared`: comparisons, negation and absolute value are those of the numbers.
* `Multiplied`: the product is the exact one, truncated, when its exponent fits and it is not rounded up.
* `Added`: a sum or difference that is not rounded up is off by less than a unit in the last place of the
  larger operand or of the result, it is infinite only if the exact one is too large for the format, and zero
  if it is too small.
* `Converted`: an integer is truncated to the bits of the fraction, a number to its integer part.  It has the
  hypothesis `Width - 1 <= Bias`, true for 8 and 23 (31 and 127) and for 4 and 2 (6 and 7).  It is
  needed: in a format with 3 and 2 bits the exponent of a large integer wraps around.

  The inductive invariant is `PipeInv`: `PipeTypes` bounds the registers at any time, and `PipeHolds`
  says what each holds of the operation at the inputs, stage by stage.  With it a property is one
  about the composition of the four stages: `SumAligned` (what alignment loses is less than the larger unit),
  `Normalising`, `NormalisingProduct` and `NormalisingInteger` (the leading one comes to
  bit `FracBits` and the exponent moves with it), `SumNormalised`, and composing, which
  changes a number only if it is zero or infinite.

Powers of two, quotients and the bits of a number come with an induction over data.  The
library's theorem for it takes an operator; `Induction` states it for a *set* of numbers that has 0 and
with each number the next, and follows from the well-foundedness of `<`.  That 2^(n+1) is twice
2^n is counted on sets of subsets (`PowerDoubles`).  Each of the three modules that need
these lemmas has them.  In `CoreMemory_proofs` they show that every set of threads has a mask (`EveryMask`).

The proofs rest on the constants' assumptions only (`ControllerAssumption`,
`AnswerAssumption`, `DispatcherAssumption`, `HostAssumption`, `DriverAssumption`,
`IsaAssumption`, `CoreMemoryAssumption`, `SourcesAssumption` and `FormatAssumption`), which TLC
evaluates in the runs.

**Model-checked only.** Liveness (`FirstConsumerServed`, `KernelCompletes`,
`DriverFinishes`, `BlocksComplete`, `Finishes`, `KernelComputes`) is out of the prover's reach.
`Compiler`, with its safety properties, is a recursion over trees with `RECURSIVE` operators, about
which the provers can show nothing.  `LosesOnlyThese` and `KernelComputes` belong to it.


## 6. Where the code disagrees with what is said of it

Each of these is a run that TLC finds violated.

* **One worker per request** (`mem_one_worker`).  The comment on `channel_serving_consumer` says that it
  "prevents many workers from picking up the same request" (`mem_controller.sv:43`).  The mark is
  seen an edge after it is set, and all idle channels pick up the same request at the same edge.  `Lockstep`
  says, and `ChannelsActAsOne` proves, that with a common ready they always do.
  That is harmless (`ActsAtomically`), but more channels serve no more requests.  With
  channels that answer independently the second answer overwrites the first
  and `ActsAtomically` is violated.
* **Second k-means cycle** (`driver_second_cycle`).  The driver writes 0 to the
  control register "to acknowledge and reset the hardware"; nothing in
  `gpu.sv` or the dispatcher is cleared by that.  The next poll
  succeeds at once and the results read are those of the cycle before.
* **Two warps** (`core_two_warps`).  The scheduler leaves a warp that waits,
  while ALU inputs and enables follow the current warp.
* **Far branches** (`assembler_branches`).  Bits 5 and 6 of a branch offset are
  dropped and the rest is shifted by two: branches over more than 30
  instructions end elsewhere.
* **Kernels do not end** (`kernels_end`).  Behind the body of a kernel the code compares the number of
  the active warp, and reads the warps' flags of completion, by registers of a
  *thread's* file.  In scalar code the assembler takes their names for `x0`
  (`ast_kernel.cpp:58-59, 84-89`).  The branch over the code that saves a warp is therefore always
  taken, and its distance, 27 words and 128 for each thread, is decoded as 27 and 32 for each
  thread: it lands inside that code and saves a part.  The flag of completion is never written
  (`:152` names a register that does not exist), and the branch on it always finds the
  first warp incomplete.  So the first warp is loaded and run for ever, and the others never.
  `KernelComputes` states what is left: the arrays get the values that C says and have
  them each time the body has been run again.

These are shown by a further configuration.

* **Two cores** (`KernelTwoCoresDone.cfg`).  Both counters add 1 at an edge even if
  two cores start or finish then, and two cores that are ready at the same
  edge get the same block.  `done` is reported with blocks not run.
  The wrapper, the test benches and the default parameters have one core, for which the proofs hold.
* **Saved configuration** (`KernelConfigChanges.cfg`).  `gpu.sv:47` says that the configuration is saved when
  a kernel starts; it is latched at every edge.  A host that prepares its next kernel changes the one
  that runs: blocks of it are missing when `done` is reported.
* **`seqi`** (`CoreSeqi.cfg`).  It is after `JAL` in `alu_instruction_t`, so neither ALU is enabled for
  it, and it writes what the ALU held before (`common.svh:87`; `ISA.md:61`).
* **`lui` after a jump** (`CoreLuiAfterJump.cfg`) jumps again: the decoder leaves `decoded_alu_instruction`
  alone in the `lui` case (`decoder.sv:240`), and it may still say `JAL`.
* **Rounding** (`FloatingAluRounding.cfg`).  A sum that is rounded up gets a wrong exponent and significand,
  because the carry is looked for in the leading one (`floating_alu.sv:478`).  `SumsClose` leaves room
  for two units in the last place and no more than that is needed: it holds if the carry is looked for one bit
  higher.

A margin rather than a disagreement: `WARP_INT_ALU_WAIT` may be left out and
`ExecutesIsa` still holds, because the operands are in the integer ALU's first stage by
`WARP_WAIT`.  `WARP_ALU_WAIT` may not: the fourth stage of the floating ALU needs it.

Smaller ones have no run; many concern inputs that the runs leave out.  The properties are stated so that they hold beside
them, and say so:

* Before its first run the body's number of the warp and its mask are loaded from the slots of
  other registers (`ast_kernel.cpp:300-317` reads 24 and 26, the values are in 29 and 31): a warp begins
  with the mask that memory happened to hold there.  With zeros no lane is active in the first run, all
  are in the following ones.  A kernel whose body has an `if` takes part of its mask from there
  and is run from the test bench's pattern only.
* The thread number's slot is that of a register lanes cannot write (`reg_file.sv:86`), and the
  hardware has the block size there, so the numbers in memory reach nobody.
* All active lanes execute the loads that are emitted for one thread, so they all end up with the
  last thread's.
* Behind an inner `if` all threads of the warp are active again, those that did not take the outer
  branch included (`ast_ifelse.cpp:125`).  A comparison leaves the bits of lanes that take no part in it
  as they were (`compute_core.sv:310`), so it may switch on lanes that have no thread; the kernel of
  one thread is run without an `if`, and lanes beyond the threads of a warp are not looked at
  where there is one.
* In the second and later kernels of a program the compiler frees what it has freed
  (`ast_kernel.cpp:382`), and the first `OUT` of an array leaves gaps that grow
  (`ast_out.cpp:44`).
* The start bit stays latched, so the end of a kernel triggers the dispatcher
  again (harmless: no block is left).  A kernel of 0 blocks is never done.
* Backward branches: the offset is extended to 30 bits instead of 32 (`common.svh:157`).
* A line the encoder rejects is left out although it has an address;
  `.zero` gives addresses to words it does not write.
* `%hi` rounds for a signed lower part that `%lo` does not have.
* Floating ALU: `0.0 * 0.5` is infinite; large finite numbers convert to 0;
  `fcvt.w.s` is taken one stage early, which is right only while the operation is held; `FMIN` is 0 where
  `ISA.md:188` lists a minimum.
* `slt` compares words as unsigned numbers (`alu.sv:70`) and the compiler uses it for
  `int`: `-1 < 0` is false.
* The compiler emits `seq` for `!=` (`ast_equality.cpp:70`), and for `>`, `<=`, `>=`, `do` and
  `switch` instructions that the assembler drops.  `i++` is compiled as `++i`
  (`parser.y:304`), and an index that is a variable as the value the variable was declared
  with (`ast_array_index_access.cpp:203`).  Compound assignments give one node of the tree to two owners (`parser.y:414`).
* Every `==`, `!=`, `switch`, and every increment whose value is not used, costs a
  register for the rest of the program; `LosesOnlyThese` lists them.
* Variables that the frame does not count and that do not fit into its slack share places
  (`ast_context_stacks.cpp:31`); functions return in `s1`, which is the execution mask.
* A call among the arguments of a call that saves the same register makes the outer one restore it from
  offset 0 of the frame (`ast_context_registers.cpp:262-264`).
* `ISA.md` and code disagree in some numbers: register 1 against register 5 for
  the first vector register, and the funct of `sync`.


## 7. What is not modelled, and why

* **The rest of the compiler's language**: pointers, structs, enums, typedefs, strings, global
  variables, floats.  `%hi` and `%lo` occur for globals only.  The lexer has no state of interest.
* **Code that the assembler rejects** is compiled, with all its effects on registers, scopes and
  loop labels (the labels of logical operators are left out), and then refused: calls, `do`, `switch`, logical operators and most of the
  bitwise ones, the other branch of an `if` in a kernel.  A call is emitted as the code does it, but
  there is no instruction for it that a machine could execute.
* **More than one kernel in a program** is undefined behaviour of the compiler.
* **Threads that do different things.**  The threads of the kernels that are run do the same:
  no thread gets its own number (section 6), so there is nothing for them to differ in
  that C would define.
* **The copies that `OUT` makes** are emitted in the run and not compared with anything.
* **More than one warp on the core** beyond the run that shows them disturb each other.
* **A stream of operations in the floating ALU**: the operation is
  held at the inputs for all stages, as a core with one warp does.
* **`next_state` and other variables with a static initialiser** in
  procedural blocks of the core are taken as initialised each time the block is
  entered, which is what synthesis makes of them.
* **`.rst(rst)` of the floating ALU** names no net of the core, so its
  pipeline is never reset; `CoreMemory` starts it with zeros that no instruction reads.
* **The instruction memory controller** beside `CoreMemory`: fetchers are answered by a memory
  directly, at any edge.  `MemSystem` has the controller with their handshake.
* **Wrapper, overlay, test benches, kernels in C**: wiring, generated descriptions and
  programs.  The host of `KernelRun` is what `gpu_tb.cpp` does to the GPU.

----------------------------- MODULE MemSystem -----------------------------
(***************************************************************************)
(* The memory controller between its consumers and its memory.  A consumer *)
(* keeps the four-phase handshake of fetcher.sv and lsu.sv: it holds valid *)
(* and its address until it sees ready, and then drops valid.  The memory  *)
(* answers any of AnswerSets at an edge, so an answer takes any number of  *)
(* cycles.                                                                 *)
(***************************************************************************)
EXTENDS MemController

CONSTANT AnswerSets  \* the sets of channels whose ready the memory raises

ASSUME AnswerAssumption == AnswerSets \subseteq SUBSET Channels

VARIABLE memory  \* the external memory, word by word

vars == <<consumer_read, consumer_write, controllerVars, memory>>

(***************************************************************************)
(* All ready inputs of the channels move together: the vivado wrapper ties *)
(* every one of them to 1, and a single channel has only one.              *)
(***************************************************************************)
LockstepAnswers == AnswerSets \subseteq {{}, Channels}

NoRequest == [kind |-> "none"]
ReadRequest == [kind : {"read"}, address : Address]
WriteRequest == [kind : {"write"}, address : Address, data : Data]
Wish == {NoRequest} \cup ReadRequest
          \cup (IF WRITE_ENABLE THEN WriteRequest ELSE {})

TypeOK == ControllerTypeOK /\ memory \in [Address -> Data]

Init ==
  /\ ControllerInit
  /\ consumer_read = [j \in Consumers |->
                        [valid |-> FALSE, address |-> ZeroAddress]]
  /\ consumer_write = [j \in Consumers |-> [valid |-> FALSE,
                         address |-> ZeroAddress, data |-> ZeroData]]
  /\ memory \in [Address -> Data]

Quiet == {j \in Consumers : ~consumer_read[j].valid /\ ~consumer_write[j].valid}

(***************************************************************************)
(* Every consumer at one edge: one without a request may raise one, and    *)
(* one that sees ready drops valid.                                        *)
(***************************************************************************)
ReadPortStep(j, wish) ==
  CASE j \in Quiet /\ wish[j].kind = "read" ->
         [valid |-> TRUE, address |-> wish[j].address]
    [] consumer_read[j].valid /\ j \in consumer_read_ready ->
         [consumer_read[j] EXCEPT !.valid = FALSE]
    [] OTHER -> consumer_read[j]

WritePortStep(j, wish) ==
  CASE j \in Quiet /\ wish[j].kind = "write" ->
         [valid |-> TRUE, address |-> wish[j].address, data |-> wish[j].data]
    [] consumer_write[j].valid /\ j \in consumer_write_ready ->
         [consumer_write[j] EXCEPT !.valid = FALSE]
    [] OTHER -> consumer_write[j]

ConsumersStep(wish) ==
  /\ consumer_read' = [j \in Consumers |-> ReadPortStep(j, wish)]
  /\ consumer_write' = [j \in Consumers |-> WritePortStep(j, wish)]

(***************************************************************************)
(* The memory performs the writes it answers.                              *)
(***************************************************************************)
MemoryStep(writeReady) ==
  LET writing(a) == {i \in Channels : /\ WriteAnswered(i, writeReady)
                                      /\ channel[i].mem_write_address = a}
  IN memory' = [a \in Address |-> IF writing(a) = {}
                                  THEN memory[a]
                                  ELSE channel[Last(writing(a))].mem_write_data]

Edge(readReady, writeReady, wish) ==
  /\ ControllerStep(readReady,
                    [i \in Channels |-> memory[channel[i].mem_read_address]],
                    writeReady)
  /\ MemoryStep(writeReady)
  /\ ConsumersStep(wish)

Next == \E readReady, writeReady \in AnswerSets, wish \in [Quiet -> Wish] :
          Edge(readReady, writeReady, wish)

Spec == Init /\ [][Next]_vars

(***************************************************************************)
(* The clock keeps ticking (a step that changes something is possible in   *)
(* every state), and a memory that is asked answers eventually.            *)
(***************************************************************************)
Waiting(i) == channel[i].state \in {"READ_WAITING", "WRITE_WAITING"}

FairSpec == /\ Spec
            /\ []<><<TRUE>>_vars
            /\ []<>(\A i \in Channels : ~Waiting(i))

-----------------------------------------------------------------------------
(***************************************************************************)
(* A consumer issues one request at a time.                                *)
(***************************************************************************)
OneRequest == \A j \in Consumers :
                ~(consumer_read[j].valid /\ consumer_write[j].valid)

(***************************************************************************)
(* A waiting channel carries exactly the request of its consumer.          *)
(***************************************************************************)
ReadAgrees(c) ==
  /\ c.mem_read_valid <=> c.state = "READ_WAITING"
  /\ c.state \in {"READ_WAITING", "READ_RELAYING"} =>
       ~consumer_write[c.current_consumer].valid
  /\ c.state = "READ_WAITING" =>
       /\ consumer_read[c.current_consumer].valid
       /\ consumer_read[c.current_consumer].address = c.mem_read_address

WriteAgrees(c) ==
  /\ c.mem_write_valid <=> c.state = "WRITE_WAITING"
  /\ c.state \in {"WRITE_WAITING", "WRITE_RELAYING"} =>
       ~consumer_read[c.current_consumer].valid
  /\ c.state = "WRITE_WAITING" =>
       /\ consumer_write[c.current_consumer].valid
       /\ consumer_write[c.current_consumer].address = c.mem_write_address
       /\ consumer_write[c.current_consumer].data = c.mem_write_data

(***************************************************************************)
(* The handshake is coherent: the shared registers, every channel and the  *)
(* ports of its consumer agree, so no request is lost, served twice or     *)
(* answered on behalf of another consumer.                                 *)
(***************************************************************************)
Coherent == \A i \in Channels : /\ MarkAgrees(channel[i])
                                /\ ReadAgrees(channel[i])
                                /\ WriteAgrees(channel[i])

(***************************************************************************)
(* What the marks are for (mem_controller.sv:43): "Prevents many workers   *)
(* from picking up the same request."  No two channels wait for an answer  *)
(* on behalf of one consumer.  The code does the opposite, see Lockstep.   *)
(***************************************************************************)
OneWorkerPerRequest ==
  \A i, k \in Channels : i # k /\ Waiting(i) /\ Waiting(k) =>
    channel[i].current_consumer # channel[k].current_consumer

(***************************************************************************)
(* The controller behaves as an atomic memory: every request takes effect  *)
(* once, and a read returns the word that was last written.                *)
(***************************************************************************)
Issued(j) ==
  IF consumer_read[j].valid
  THEN [kind |-> "read", address |-> consumer_read[j].address]
  ELSE IF consumer_write[j].valid
  THEN [kind |-> "write", address |-> consumer_write[j].address,
        data |-> consumer_write[j].data]
  ELSE NoRequest

Acknowledged == {j \in Consumers :
                   \/ consumer_read[j].valid /\ j \in consumer_read_ready
                   \/ consumer_write[j].valid /\ j \in consumer_write_ready}

Atomic == INSTANCE AtomicMemory
            WITH request <- [j \in Consumers |-> Issued(j)],
                 done <- Acknowledged, answer <- consumer_read_data

ActsAtomically == Atomic!Spec

(***************************************************************************)
(* The consumer with the smallest index is never starved: whatever the     *)
(* others ask for, its request is eventually acknowledged.                 *)
(***************************************************************************)
FirstConsumerServed ==
  /\ consumer_read[0].valid ~> 0 \in consumer_read_ready
  /\ consumer_write[0].valid ~> 0 \in consumer_write_ready

=============================================================================

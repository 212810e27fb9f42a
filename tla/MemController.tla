--------------------------- MODULE MemController ---------------------------
(***************************************************************************)
(* The memory controller (hardware/rtl/lock_in/mem_controller.sv): every   *)
(* channel serves one consumer (a fetcher or a load-store unit) at a time, *)
(* taking its request to memory and relaying the answer over a four-phase  *)
(* valid/ready handshake.  This module holds the controller's registers    *)
(* and what one clock edge does to them.  Its consumers and its memory     *)
(* belong to the modules that extend it.                                   *)
(*                                                                         *)
(* All channels are evaluated at the same clock edge.  The registers they  *)
(* share are written with non-blocking assignments, so every channel reads *)
(* the value from before the edge, and when two channels write the same    *)
(* register the channel with the larger index wins.                        *)
(***************************************************************************)
EXTENDS Integers, FiniteSets

CONSTANTS
  NUM_CONSUMERS,   \* fetchers or LSUs behind this controller
  NUM_CHANNELS,    \* requests the controller can have at memory at once
  WRITE_ENABLE,    \* FALSE for the program memory, which is read-only
  Address,         \* memory addresses
  Data,            \* memory words
  ZeroAddress,     \* what reset loads into an address register
  ZeroData         \* what reset loads into a data register

ASSUME ControllerAssumption ==
  /\ NUM_CONSUMERS \in Nat \ {0}
  /\ NUM_CHANNELS \in Nat \ {0}
  /\ WRITE_ENABLE \in BOOLEAN
  /\ ZeroAddress \in Address
  /\ ZeroData \in Data

Consumers == 0 .. NUM_CONSUMERS - 1
Channels == 0 .. NUM_CHANNELS - 1

VARIABLES
  consumer_read,         \* input: per consumer, valid and address
  consumer_write,        \* input: per consumer, valid, address and data
  consumer_read_ready,   \* output: the consumers whose read is answered
  consumer_read_data,    \* output: per consumer, the word that was read
  consumer_write_ready,  \* output: the consumers whose write is done
  channel,               \* per channel: state, consumer and memory request
  channel_serving_consumer  \* the consumers marked as being served

controllerVars == <<consumer_read_ready, consumer_read_data,
                    consumer_write_ready, channel, channel_serving_consumer>>

ControllerState == {"IDLE", "READ_WAITING", "WRITE_WAITING",
                    "READ_RELAYING", "WRITE_RELAYING"}

Channel == [state : ControllerState, current_consumer : Consumers,
            mem_read_valid : BOOLEAN, mem_write_valid : BOOLEAN,
            mem_read_address : Address, mem_write_address : Address,
            mem_write_data : Data]

ReadPort == [valid : BOOLEAN, address : Address]
WritePort == [valid : BOOLEAN, address : Address, data : Data]

ControllerTypeOK ==
  /\ consumer_read \in [Consumers -> ReadPort]
  /\ consumer_write \in [Consumers -> WritePort]
  /\ consumer_read_ready \in SUBSET Consumers
  /\ consumer_read_data \in [Consumers -> Data]
  /\ consumer_write_ready \in SUBSET Consumers
  /\ channel \in [Channels -> Channel]
  /\ channel_serving_consumer \in SUBSET Consumers

(***************************************************************************)
(* The registers after reset.                                              *)
(***************************************************************************)
IdleChannel == [state |-> "IDLE", current_consumer |-> 0,
                mem_read_valid |-> FALSE, mem_write_valid |-> FALSE,
                mem_read_address |-> ZeroAddress,
                mem_write_address |-> ZeroAddress,
                mem_write_data |-> ZeroData]

ControllerInit ==
  /\ consumer_read_ready = {}
  /\ consumer_read_data = [j \in Consumers |-> ZeroData]
  /\ consumer_write_ready = {}
  /\ channel = [i \in Channels |-> IdleChannel]
  /\ channel_serving_consumer = {}

-----------------------------------------------------------------------------
(***************************************************************************)
(* An idle channel looks for the consumer with the smallest index that has *)
(* a request and is not being served; a read goes before a write.          *)
(***************************************************************************)
Requests == {j \in Consumers : /\ j \notin channel_serving_consumer
                               /\ \/ consumer_read[j].valid
                                  \/ WRITE_ENABLE /\ consumer_write[j].valid}

\* Mutant: the search runs from the last consumer down.
LastRequest == CHOOSE j \in Requests : \A k \in Requests : j >= k

FirstRequest == CHOOSE j \in Requests : \A k \in Requests : j <= k

\* Mutant: the break that ends the search also ends the loop over channels.
AcceptsFirstIdle(i) ==
  /\ channel[i].state = "IDLE" /\ Requests # {}
  /\ \A k \in Channels : channel[k].state = "IDLE" => i <= k

Accepts(i) == channel[i].state = "IDLE" /\ Requests # {}

\* Mutant: the consumer is recorded one too high.
AcceptedOffByOne(c) ==
  [c EXCEPT !.state = "READ_WAITING", !.current_consumer = FirstRequest + 1,
            !.mem_read_valid = TRUE,
            !.mem_read_address = consumer_read[FirstRequest].address]

\* Mutant: the write address is not latched, the previous one is used.
AcceptedStale(c) ==
  LET j == FirstRequest IN
  IF consumer_read[j].valid
  THEN [c EXCEPT !.state = "READ_WAITING", !.current_consumer = j,
                 !.mem_read_valid = TRUE,
                 !.mem_read_address = consumer_read[j].address]
  ELSE [c EXCEPT !.state = "WRITE_WAITING", !.current_consumer = j,
                 !.mem_write_valid = TRUE,
                 !.mem_write_data = consumer_write[j].data]

Accepted(c) ==
  LET j == FirstRequest IN
  IF consumer_read[j].valid
  THEN [c EXCEPT !.state = "READ_WAITING", !.current_consumer = j,
                 !.mem_read_valid = TRUE,
                 !.mem_read_address = consumer_read[j].address]
  ELSE [c EXCEPT !.state = "WRITE_WAITING", !.current_consumer = j,
                 !.mem_write_valid = TRUE,
                 !.mem_write_address = consumer_write[j].address,
                 !.mem_write_data = consumer_write[j].data]

(***************************************************************************)
(* readReady and writeReady are the channels the memory answers.           *)
(***************************************************************************)
ReadAnswered(i, readReady) ==
  channel[i].state = "READ_WAITING" /\ i \in readReady

WriteAnswered(i, writeReady) ==
  channel[i].state = "WRITE_WAITING" /\ i \in writeReady

(***************************************************************************)
(* A relaying channel waits for its consumer to drop valid.                *)
(***************************************************************************)
ReadReleased(i) ==
  /\ channel[i].state = "READ_RELAYING"
  /\ ~consumer_read[channel[i].current_consumer].valid

WriteReleased(i) ==
  /\ channel[i].state = "WRITE_RELAYING"
  /\ ~consumer_write[channel[i].current_consumer].valid

ChannelStep(i, readReady, writeReady) ==
  LET c == channel[i] IN
  CASE Accepts(i) -> Accepted(c)
    [] ReadAnswered(i, readReady) ->
         [c EXCEPT !.state = "READ_RELAYING", !.mem_read_valid = FALSE]
    [] WriteAnswered(i, writeReady) ->
         [c EXCEPT !.state = "WRITE_RELAYING", !.mem_write_valid = FALSE]
    [] ReadReleased(i) \/ WriteReleased(i) -> [c EXCEPT !.state = "IDLE"]
    [] OTHER -> c

(***************************************************************************)
(* A one-bit register shared by the channels: it ends up set if some       *)
(* channel sets it and no channel with a larger index clears it.           *)
(***************************************************************************)
SetAfter(bit, setting, clearing) ==
  \/ bit /\ clearing = {}
  \/ \E i \in setting : \A k \in clearing : k <= i

(***************************************************************************)
(* The channels that do something for consumer j at this edge.             *)
(***************************************************************************)
Serving(j) == {i \in Channels : channel[i].current_consumer = j}
Taking(j) == {i \in Channels : Accepts(i) /\ j = FirstRequest}
AnsweringRead(j, readReady) == {i \in Serving(j) : ReadAnswered(i, readReady)}
AnsweringWrite(j, writeReady) ==
  {i \in Serving(j) : WriteAnswered(i, writeReady)}
ReleasingRead(j) == {i \in Serving(j) : ReadReleased(i)}
ReleasingWrite(j) == {i \in Serving(j) : WriteReleased(i)}

\* Mutant: a released read leaves its consumer marked.
ServingStepKeepsReads ==
  channel_serving_consumer' =
    {j \in Consumers : SetAfter(j \in channel_serving_consumer,
                                Taking(j), ReleasingWrite(j))}

ServingStep ==
  channel_serving_consumer' =
    {j \in Consumers : SetAfter(j \in channel_serving_consumer, Taking(j),
                                ReleasingRead(j) \cup ReleasingWrite(j))}

ReadReadyStep(readReady) ==
  consumer_read_ready' =
    {j \in Consumers : SetAfter(j \in consumer_read_ready,
                                AnsweringRead(j, readReady), ReleasingRead(j))}

WriteReadyStep(writeReady) ==
  consumer_write_ready' =
    {j \in Consumers : SetAfter(j \in consumer_write_ready,
                                AnsweringWrite(j, writeReady),
                                ReleasingWrite(j))}

(***************************************************************************)
(* The word relayed to a consumer is that of its last answering channel.   *)
(* readData is what the memory puts on each channel.                       *)
(***************************************************************************)
Last(S) == CHOOSE i \in S : \A k \in S : k <= i

ReadDataStep(readReady, readData) ==
  consumer_read_data' =
    [j \in Consumers |-> IF AnsweringRead(j, readReady) = {}
                         THEN consumer_read_data[j]
                         ELSE readData[Last(AnsweringRead(j, readReady))]]

(***************************************************************************)
(* One clock edge of the controller.                                       *)
(***************************************************************************)
ControllerStep(readReady, readData, writeReady) ==
  /\ channel' = [i \in Channels |-> ChannelStep(i, readReady, writeReady)]
  /\ ServingStep
  /\ ReadReadyStep(readReady)
  /\ WriteReadyStep(writeReady)
  /\ ReadDataStep(readReady, readData)

-----------------------------------------------------------------------------
(***************************************************************************)
(* All channels hold the same state: idle channels pick the same request   *)
(* at the same edge (mem_controller.sv:73), because a mark is seen one     *)
(* edge after it is set (line 75), and with common ready inputs they never *)
(* drift apart again.  This is what the code does, and the opposite of     *)
(* what its comment promises (line 43, OneWorkerPerRequest in MemSystem);  *)
(* what makes it harmless is that the channels act as a single one.        *)
(***************************************************************************)
Lockstep == \A i, k \in Channels : channel[i] = channel[k]

(***************************************************************************)
(* The serving mark and the ready signals tell what channel c is doing.    *)
(***************************************************************************)
MarkAgrees(c) ==
  /\ channel_serving_consumer =
       (IF c.state = "IDLE" THEN {} ELSE {c.current_consumer})
  /\ consumer_read_ready =
       (IF c.state = "READ_RELAYING" THEN {c.current_consumer} ELSE {})
  /\ consumer_write_ready =
       (IF c.state = "WRITE_RELAYING" THEN {c.current_consumer} ELSE {})

=============================================================================

------------------------ MODULE MemController_proofs ------------------------
(***************************************************************************)
(* What one clock edge does to the memory controller, whoever its          *)
(* consumers are and whatever memory it has: its registers keep their      *)
(* ranges, and channels in lockstep act as one.  The modules about the     *)
(* memory system and about a core behind its controller rest on these      *)
(* lemmas.                                                                 *)
(***************************************************************************)
EXTENDS MemController, WellFoundedInduction, TLAPS

-----------------------------------------------------------------------------
(***************************************************************************)
(* A set of natural numbers that is not empty has a smallest element.      *)
(***************************************************************************)
LEMMA SmallestElement ==
  ASSUME NEW S \in SUBSET Nat, S # {}
  PROVE  \E j \in S : \A k \in S : j <= k
<1> DEFINE Smaller == {p \in Nat \X Nat : p[1] < p[2]}
<1>1. IsWellFoundedOn(Smaller, Nat)
  BY NatLessThanWellFounded, Zenon DEF OpToRel
<1>2. PICK j \in S : \A k \in S : <<k, j>> \notin Smaller
  <2> HIDE DEF Smaller
  <2> QED BY <1>1, WFMin
<1>3. ASSUME NEW k \in S PROVE j <= k
  <2>1. <<k, j>> \in Smaller <=> k < j
    OBVIOUS
  <2> QED BY <1>2, <2>1
<1> QED
  BY <1>3

(***************************************************************************)
(* The search for a request finds one when there is one                    *)
(* (mem_controller.sv:73).                                                 *)
(***************************************************************************)
LEMMA FirstRequestFound ==
  ASSUME Requests # {}
  PROVE  FirstRequest \in Requests
<1>1. Requests \in SUBSET Nat
  BY ControllerAssumption DEF Requests, Consumers
<1> QED
  BY <1>1, SmallestElement DEF FirstRequest

(***************************************************************************)
(* Among some channels there is one with the largest index: the one whose  *)
(* non-blocking assignment wins.                                           *)
(***************************************************************************)
LEMMA LastFound ==
  ASSUME NEW S \in SUBSET Channels, S # {}
  PROVE  Last(S) \in S /\ \A k \in S : k <= Last(S)
<1> DEFINE Mirror == {NUM_CHANNELS - 1 - i : i \in S}
<1>1. Mirror \in SUBSET Nat /\ Mirror # {}
  BY ControllerAssumption DEF Channels
<1>2. PICK m \in Mirror : \A n \in Mirror : m <= n
  BY <1>1, SmallestElement
<1>3. PICK i \in S : m = NUM_CHANNELS - 1 - i
  BY <1>2
<1>4. \A k \in S : k <= i
  BY <1>2, <1>3, ControllerAssumption DEF Channels
<1> QED
  BY <1>4 DEF Last

-----------------------------------------------------------------------------
(***************************************************************************)
(* Type correctness.  A channel's registers keep their ranges whatever the *)
(* memory and the consumers do.                                            *)
(***************************************************************************)
LEMMA ChannelStepType ==
  ASSUME ControllerTypeOK, NEW i \in Channels,
         NEW readReady, NEW writeReady
  PROVE  ChannelStep(i, readReady, writeReady) \in Channel
<1> USE DEF ControllerTypeOK, Channel, ControllerState
<1>1. CASE Accepts(i)
  <2>1. FirstRequest \in Consumers
    BY <1>1, FirstRequestFound DEF Accepts, Requests
  <2>2. ChannelStep(i, readReady, writeReady) = Accepted(channel[i])
    BY <1>1 DEF ChannelStep, Accepts, ReadAnswered, WriteAnswered,
                ReadReleased, WriteReleased
  <2>3. Accepted(channel[i]) \in Channel
    BY <2>1 DEF Accepted, ReadPort, WritePort
  <2> QED BY <2>2, <2>3
<1>2. CASE ~Accepts(i)
  BY <1>2 DEF ChannelStep, ReadAnswered, WriteAnswered, ReadReleased,
              WriteReleased
<1> QED
  BY <1>1, <1>2

LEMMA ControllerStepType ==
  ASSUME ControllerTypeOK, NEW readReady, NEW writeReady,
         NEW readData \in [Channels -> Data],
         ControllerStep(readReady, readData, writeReady)
  PROVE  /\ consumer_read_ready' \in SUBSET Consumers
         /\ consumer_read_data' \in [Consumers -> Data]
         /\ consumer_write_ready' \in SUBSET Consumers
         /\ channel' \in [Channels -> Channel]
         /\ channel_serving_consumer' \in SUBSET Consumers
<1>1. channel' \in [Channels -> Channel]
  BY ChannelStepType DEF ControllerStep
<1>2. consumer_read_data' \in [Consumers -> Data]
  BY LastFound
     DEF ControllerStep, ReadDataStep, AnsweringRead, Serving, ControllerTypeOK
<1>3. /\ channel_serving_consumer' \in SUBSET Consumers
      /\ consumer_read_ready' \in SUBSET Consumers
      /\ consumer_write_ready' \in SUBSET Consumers
  BY DEF ControllerStep, ServingStep, ReadReadyStep, WriteReadyStep
<1> QED
  BY <1>1, <1>2, <1>3

-----------------------------------------------------------------------------
LEMMA SomeChannel == 0 \in Channels
  BY ControllerAssumption DEF Channels

(***************************************************************************)
(* One edge of channels in lockstep, told as the edge of a single channel  *)
(* c that becomes d: what the shared registers become, by what the channel *)
(* does.                                                                   *)
(***************************************************************************)
Become(d) == channel' = [i \in Channels |-> d]

Accepting(c) ==
  /\ c.state = "IDLE" /\ Requests # {}
  /\ Become(Accepted(c))
  /\ channel_serving_consumer' = {FirstRequest}
  /\ UNCHANGED <<consumer_read_ready, consumer_write_ready,
                 consumer_read_data>>

RelayingRead(c, readReady, word) ==
  /\ c.state = "READ_WAITING" /\ readReady # {}
  /\ Become([c EXCEPT !.state = "READ_RELAYING", !.mem_read_valid = FALSE])
  /\ consumer_read_ready' = {c.current_consumer}
  /\ consumer_read_data' = [consumer_read_data EXCEPT
                              ![c.current_consumer] = word]
  /\ UNCHANGED <<channel_serving_consumer, consumer_write_ready>>

RelayingWrite(c, writeReady) ==
  /\ c.state = "WRITE_WAITING" /\ writeReady # {}
  /\ Become([c EXCEPT !.state = "WRITE_RELAYING", !.mem_write_valid = FALSE])
  /\ consumer_write_ready' = {c.current_consumer}
  /\ UNCHANGED <<channel_serving_consumer, consumer_read_ready,
                 consumer_read_data>>

Releasing(c) ==
  /\ \/ c.state = "READ_RELAYING" /\ ~consumer_read[c.current_consumer].valid
     \/ c.state = "WRITE_RELAYING" /\ ~consumer_write[c.current_consumer].valid
  /\ Become([c EXCEPT !.state = "IDLE"])
  /\ channel_serving_consumer' = {}
  /\ consumer_read_ready' = {} /\ consumer_write_ready' = {}
  /\ UNCHANGED consumer_read_data

Holding(c, readReady, writeReady) ==
  /\ \/ c.state = "IDLE" /\ Requests = {}
     \/ c.state = "READ_WAITING" /\ readReady = {}
     \/ c.state = "WRITE_WAITING" /\ writeReady = {}
     \/ c.state = "READ_RELAYING" /\ consumer_read[c.current_consumer].valid
     \/ c.state = "WRITE_RELAYING" /\ consumer_write[c.current_consumer].valid
  /\ UNCHANGED controllerVars

LEMMA LockstepStep ==
  ASSUME ControllerTypeOK, Lockstep, MarkAgrees(channel[0]),
         NEW readReady \in {{}, Channels}, NEW writeReady \in {{}, Channels},
         NEW word \in Data, NEW readData, \A i \in Channels : readData[i] = word,
         ControllerStep(readReady, readData, writeReady)
  PROVE  LET c == channel[0]
         IN  \/ Accepting(c)
             \/ RelayingRead(c, readReady, word)
             \/ RelayingWrite(c, writeReady)
             \/ Releasing(c)
             \/ Holding(c, readReady, writeReady)
<1> DEFINE c == channel[0]
<1>1. /\ \A i \in Channels : channel[i] = c
      /\ c \in Channel /\ c.current_consumer \in Consumers
      /\ MarkAgrees(c)
  BY SomeChannel DEF ControllerTypeOK, Lockstep, Channel
<1>3. \A j \in Consumers :
        Serving(j) = IF j = c.current_consumer THEN Channels ELSE {}
  BY <1>1 DEF Serving
<1> HIDE DEF c
<1> USE <1>1, <1>3, SomeChannel DEF ControllerStep
<1>4. CASE c.state = "IDLE" /\ Requests # {}
  <2>1. \A i \in Channels :
          /\ Accepts(i)
          /\ ~ReadAnswered(i, readReady) /\ ~WriteAnswered(i, writeReady)
          /\ ~ReadReleased(i) /\ ~WriteReleased(i)
    BY <1>4 DEF Accepts, ReadAnswered, WriteAnswered, ReadReleased,
                  WriteReleased
  <2>2. \A j \in Consumers :
          /\ Taking(j) = IF j = FirstRequest THEN Channels ELSE {}
          /\ AnsweringRead(j, readReady) = {}
          /\ AnsweringWrite(j, writeReady) = {}
          /\ ReleasingRead(j) = {}
          /\ ReleasingWrite(j) = {}
    BY <2>1 DEF Taking, AnsweringRead, AnsweringWrite, ReleasingRead,
                ReleasingWrite
  <2>3. channel' = [i \in Channels |-> Accepted(c)]
    BY <2>1, <1>4 DEF ChannelStep
  <2>4. channel_serving_consumer' = {FirstRequest}
    BY <2>2, FirstRequestFound, <1>4 DEF ServingStep, SetAfter, MarkAgrees, Requests
  <2>5. consumer_read_ready' = consumer_read_ready
    BY <2>2, <1>4 DEF ReadReadyStep, SetAfter, MarkAgrees
  <2>6. consumer_write_ready' = consumer_write_ready
    BY <2>2, <1>4 DEF WriteReadyStep, SetAfter, MarkAgrees
  <2>7. consumer_read_data' = consumer_read_data
    BY <2>2, LastFound, <1>4 DEF ReadDataStep, Channel, ControllerTypeOK
  <2> QED
    BY <1>4, <2>3, <2>4, <2>5, <2>6, <2>7
       DEF Accepting, Become, controllerVars, c
<1>5. CASE c.state = "READ_WAITING" /\ readReady = Channels
  <2>1. \A i \in Channels :
          /\ ~Accepts(i)
          /\ ReadAnswered(i, readReady) /\ ~WriteAnswered(i, writeReady)
          /\ ~ReadReleased(i) /\ ~WriteReleased(i)
    BY <1>5 DEF Accepts, ReadAnswered, WriteAnswered, ReadReleased,
                  WriteReleased
  <2>2. \A j \in Consumers :
          /\ Taking(j) = {}
          /\ AnsweringRead(j, readReady) = IF j = c.current_consumer THEN Channels ELSE {}
          /\ AnsweringWrite(j, writeReady) = {}
          /\ ReleasingRead(j) = {}
          /\ ReleasingWrite(j) = {}
    BY <2>1 DEF Taking, AnsweringRead, AnsweringWrite, ReleasingRead,
                ReleasingWrite
  <2>3. channel' = [i \in Channels |-> 
          [c EXCEPT !.state = "READ_RELAYING", !.mem_read_valid = FALSE]]
    BY <2>1, <1>5 DEF ChannelStep
  <2>4. channel_serving_consumer' = channel_serving_consumer
    BY <2>2, <1>5 DEF ServingStep, SetAfter, MarkAgrees
  <2>5. consumer_read_ready' = {c.current_consumer}
    BY <2>2, <1>5 DEF ReadReadyStep, SetAfter, MarkAgrees
  <2>6. consumer_write_ready' = consumer_write_ready
    BY <2>2, <1>5 DEF WriteReadyStep, SetAfter, MarkAgrees
  <2>7. consumer_read_data' =
          [consumer_read_data EXCEPT
             ![c.current_consumer] = word]
    BY <2>2, LastFound, <1>5 DEF ReadDataStep, Channel, ControllerTypeOK
  <2> QED
    BY <1>5, <2>3, <2>4, <2>5, <2>6, <2>7
       DEF RelayingRead, Become, controllerVars, c
<1>6. CASE c.state = "WRITE_WAITING" /\ writeReady = Channels
  <2>1. \A i \in Channels :
          /\ ~Accepts(i)
          /\ ~ReadAnswered(i, readReady) /\ WriteAnswered(i, writeReady)
          /\ ~ReadReleased(i) /\ ~WriteReleased(i)
    BY <1>6 DEF Accepts, ReadAnswered, WriteAnswered, ReadReleased,
                  WriteReleased
  <2>2. \A j \in Consumers :
          /\ Taking(j) = {}
          /\ AnsweringRead(j, readReady) = {}
          /\ AnsweringWrite(j, writeReady) = IF j = c.current_consumer THEN Channels ELSE {}
          /\ ReleasingRead(j) = {}
          /\ ReleasingWrite(j) = {}
    BY <2>1 DEF Taking, AnsweringRead, AnsweringWrite, ReleasingRead,
                ReleasingWrite
  <2>3. channel' = [i \in Channels |-> 
          [c EXCEPT !.state = "WRITE_RELAYING", !.mem_write_valid = FALSE]]
    BY <2>1, <1>6 DEF ChannelStep
  <2>4. channel_serving_consumer' = channel_serving_consumer
    BY <2>2, <1>6 DEF ServingStep, SetAfter, MarkAgrees
  <2>5. consumer_read_ready' = consumer_read_ready
    BY <2>2, <1>6 DEF ReadReadyStep, SetAfter, MarkAgrees
  <2>6. consumer_write_ready' = {c.current_consumer}
    BY <2>2, <1>6 DEF WriteReadyStep, SetAfter, MarkAgrees
  <2>7. consumer_read_data' = consumer_read_data
    BY <2>2, LastFound, <1>6 DEF ReadDataStep, Channel, ControllerTypeOK
  <2> QED
    BY <1>6, <2>3, <2>4, <2>5, <2>6, <2>7
       DEF RelayingWrite, Become, controllerVars, c
<1>7. CASE /\ c.state = "READ_RELAYING"
           /\ ~consumer_read[c.current_consumer].valid
  <2>1. \A i \in Channels :
          /\ ~Accepts(i)
          /\ ~ReadAnswered(i, readReady) /\ ~WriteAnswered(i, writeReady)
          /\ ReadReleased(i) /\ ~WriteReleased(i)
    BY <1>7 DEF Accepts, ReadAnswered, WriteAnswered, ReadReleased,
                  WriteReleased
  <2>2. \A j \in Consumers :
          /\ Taking(j) = {}
          /\ AnsweringRead(j, readReady) = {}
          /\ AnsweringWrite(j, writeReady) = {}
          /\ ReleasingRead(j) = IF j = c.current_consumer THEN Channels ELSE {}
          /\ ReleasingWrite(j) = {}
    BY <2>1 DEF Taking, AnsweringRead, AnsweringWrite, ReleasingRead,
                ReleasingWrite
  <2>3. channel' = [i \in Channels |-> [c EXCEPT !.state = "IDLE"]]
    BY <2>1, <1>7 DEF ChannelStep
  <2>4. channel_serving_consumer' = {}
    BY <2>2, <1>7 DEF ServingStep, SetAfter, MarkAgrees
  <2>5. consumer_read_ready' = {}
    BY <2>2, <1>7 DEF ReadReadyStep, SetAfter, MarkAgrees
  <2>6. consumer_write_ready' = {}
    BY <2>2, <1>7 DEF WriteReadyStep, SetAfter, MarkAgrees
  <2>7. consumer_read_data' = consumer_read_data
    BY <2>2, LastFound, <1>7 DEF ReadDataStep, Channel, ControllerTypeOK
  <2> QED
    BY <1>7, <2>3, <2>4, <2>5, <2>6, <2>7
       DEF Releasing, Become, controllerVars, c
<1>8. CASE /\ c.state = "WRITE_RELAYING"
           /\ ~consumer_write[c.current_consumer].valid
  <2>1. \A i \in Channels :
          /\ ~Accepts(i)
          /\ ~ReadAnswered(i, readReady) /\ ~WriteAnswered(i, writeReady)
          /\ ~ReadReleased(i) /\ WriteReleased(i)
    BY <1>8 DEF Accepts, ReadAnswered, WriteAnswered, ReadReleased,
                  WriteReleased
  <2>2. \A j \in Consumers :
          /\ Taking(j) = {}
          /\ AnsweringRead(j, readReady) = {}
          /\ AnsweringWrite(j, writeReady) = {}
          /\ ReleasingRead(j) = {}
          /\ ReleasingWrite(j) = IF j = c.current_consumer THEN Channels ELSE {}
    BY <2>1 DEF Taking, AnsweringRead, AnsweringWrite, ReleasingRead,
                ReleasingWrite
  <2>3. channel' = [i \in Channels |-> [c EXCEPT !.state = "IDLE"]]
    BY <2>1, <1>8 DEF ChannelStep
  <2>4. channel_serving_consumer' = {}
    BY <2>2, <1>8 DEF ServingStep, SetAfter, MarkAgrees
  <2>5. consumer_read_ready' = {}
    BY <2>2, <1>8 DEF ReadReadyStep, SetAfter, MarkAgrees
  <2>6. consumer_write_ready' = {}
    BY <2>2, <1>8 DEF WriteReadyStep, SetAfter, MarkAgrees
  <2>7. consumer_read_data' = consumer_read_data
    BY <2>2, LastFound, <1>8 DEF ReadDataStep, Channel, ControllerTypeOK
  <2> QED
    BY <1>8, <2>3, <2>4, <2>5, <2>6, <2>7
       DEF Releasing, Become, controllerVars, c
<1>9. CASE \/ c.state = "IDLE" /\ Requests = {}
           \/ c.state = "READ_WAITING" /\ readReady = {}
           \/ c.state = "WRITE_WAITING" /\ writeReady = {}
           \/ /\ c.state = "READ_RELAYING"
              /\ consumer_read[c.current_consumer].valid
           \/ /\ c.state = "WRITE_RELAYING"
              /\ consumer_write[c.current_consumer].valid
  <2>1. \A i \in Channels :
          /\ ~Accepts(i)
          /\ ~ReadAnswered(i, readReady) /\ ~WriteAnswered(i, writeReady)
          /\ ~ReadReleased(i) /\ ~WriteReleased(i)
    BY <1>9 DEF Accepts, ReadAnswered, WriteAnswered, ReadReleased,
                  WriteReleased
  <2>2. \A j \in Consumers :
          /\ Taking(j) = {}
          /\ AnsweringRead(j, readReady) = {}
          /\ AnsweringWrite(j, writeReady) = {}
          /\ ReleasingRead(j) = {}
          /\ ReleasingWrite(j) = {}
    BY <2>1 DEF Taking, AnsweringRead, AnsweringWrite, ReleasingRead,
                ReleasingWrite
  <2>3. channel' = channel
    BY <2>1 DEF ChannelStep, ControllerTypeOK
  <2>4. channel_serving_consumer' = channel_serving_consumer
    BY <2>2, <1>9 DEF ServingStep, SetAfter, MarkAgrees
  <2>5. consumer_read_ready' = consumer_read_ready
    BY <2>2, <1>9 DEF ReadReadyStep, SetAfter, MarkAgrees
  <2>6. consumer_write_ready' = consumer_write_ready
    BY <2>2, <1>9 DEF WriteReadyStep, SetAfter, MarkAgrees
  <2>7. consumer_read_data' = consumer_read_data
    BY <2>2, LastFound, <1>9 DEF ReadDataStep, Channel, ControllerTypeOK
  <2> QED
    BY <1>9, <2>3, <2>4, <2>5, <2>6, <2>7
       DEF Holding, Become, controllerVars, c
<1> QED
  <2>1. c.state \in ControllerState
    BY DEF Channel
  <2>2. \/ Accepting(c) \/ RelayingRead(c, readReady, word)
        \/ RelayingWrite(c, writeReady) \/ Releasing(c)
        \/ Holding(c, readReady, writeReady)
    BY <2>1, <1>4, <1>5, <1>6, <1>7, <1>8, <1>9 DEF ControllerState
  <2> QED
    BY <2>2 DEF c

=============================================================================

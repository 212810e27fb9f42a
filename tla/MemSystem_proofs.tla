-------------------------- MODULE MemSystem_proofs --------------------------
(***************************************************************************)
(* Proofs about the memory system, for every number of consumers and       *)
(* channels and every set of addresses and words.                          *)
(***************************************************************************)
EXTENDS MemSystem, MemController_proofs

(***************************************************************************)
(* A port that raises a request takes a legal address and word from the    *)
(* consumer, and only drops valid otherwise.                               *)
(***************************************************************************)
LEMMA WishType ==
  ASSUME NEW w \in Wish
  PROVE  /\ w.kind = "read" => w.address \in Address
         /\ w.kind = "write" => w.address \in Address /\ w.data \in Data
<1>1. CASE w = NoRequest
  BY <1>1 DEF NoRequest
<1>2. CASE w \in ReadRequest
  BY <1>2 DEF ReadRequest
<1>3. CASE w \in WriteRequest
  BY <1>3 DEF WriteRequest
<1> QED
  BY <1>1, <1>2, <1>3 DEF Wish

LEMMA PortStepType ==
  ASSUME ControllerTypeOK, NEW j \in Consumers, NEW wish \in [Quiet -> Wish]
  PROVE  /\ ReadPortStep(j, wish) \in ReadPort
         /\ WritePortStep(j, wish) \in WritePort
<1> USE DEF ControllerTypeOK, ReadPort, WritePort
<1>1. CASE j \in Quiet
  <2>1. wish[j] \in Wish
    BY <1>1
  <2>2. ~consumer_read[j].valid /\ ~consumer_write[j].valid
    BY <1>1 DEF Quiet
  <2> QED
    BY <2>1, <2>2, WishType DEF ReadPortStep, WritePortStep
<1>2. CASE j \notin Quiet
  BY <1>2 DEF ReadPortStep, WritePortStep
<1> QED
  BY <1>1, <1>2

THEOREM TypeCorrect == Spec => []TypeOK
<1>1. Init => TypeOK
  BY ControllerAssumption
     DEF Init, ControllerInit, TypeOK, ControllerTypeOK, Channel,
         ControllerState, IdleChannel, ReadPort, WritePort, Consumers
<1>2. TypeOK /\ [Next]_vars => TypeOK'
  <2> SUFFICES ASSUME TypeOK, [Next]_vars PROVE TypeOK'
    OBVIOUS
  <2>1. ASSUME NEW readReady \in AnswerSets, NEW writeReady \in AnswerSets,
               NEW wish \in [Quiet -> Wish],
               Edge(readReady, writeReady, wish)
        PROVE  TypeOK'
    <3>1. /\ consumer_read_ready' \in SUBSET Consumers
          /\ consumer_read_data' \in [Consumers -> Data]
          /\ consumer_write_ready' \in SUBSET Consumers
          /\ channel' \in [Channels -> Channel]
          /\ channel_serving_consumer' \in SUBSET Consumers
      <4>1. [i \in Channels |-> memory[channel[i].mem_read_address]]
              \in [Channels -> Data]
        BY DEF TypeOK, ControllerTypeOK, Channel
      <4> QED
        BY <2>1, <4>1, ControllerStepType DEF TypeOK, Edge
    <3>2. /\ consumer_read' \in [Consumers -> ReadPort]
          /\ consumer_write' \in [Consumers -> WritePort]
      BY <2>1, PortStepType DEF TypeOK, Edge, ConsumersStep
    <3>3. memory' \in [Address -> Data]
      BY <2>1, LastFound
         DEF Edge, MemoryStep, TypeOK, ControllerTypeOK, Channel
    <3> QED BY <3>1, <3>2, <3>3 DEF TypeOK, ControllerTypeOK
  <2>2. CASE UNCHANGED vars
    BY <2>2 DEF vars, controllerVars, TypeOK, ControllerTypeOK
  <2> QED BY <2>1, <2>2 DEF Next
<1> QED
  BY <1>1, <1>2, PTL DEF Spec

-----------------------------------------------------------------------------
(***************************************************************************)
(* Channels in lockstep act as one.  The inductive invariant: all channels *)
(* are equal, a consumer has one request at a time, and the handshake      *)
(* agrees with what the channels are doing.                                *)
(***************************************************************************)
IInv == TypeOK /\ Lockstep /\ OneRequest /\ Coherent

(***************************************************************************)
(* One edge of the memory system as the edge of a single channel c: only a *)
(* channel that relays a write changes the memory.                         *)
(***************************************************************************)
SilentEdge(c) == /\ Accepting(c) \/ Releasing(c) \/ Holding(c, {}, {})
                 /\ UNCHANGED memory

ReadEdge(c) == /\ RelayingRead(c, Channels, memory[c.mem_read_address])
               /\ UNCHANGED memory

WriteEdge(c) ==
  /\ RelayingWrite(c, Channels)
  /\ memory' = [memory EXCEPT ![c.mem_write_address] = c.mem_write_data]

LEMMA LockstepEdge ==
  ASSUME LockstepAnswers, IInv,
         NEW readReady \in AnswerSets, NEW writeReady \in AnswerSets,
         NEW wish, Edge(readReady, writeReady, wish)
  PROVE  \/ SilentEdge(channel[0])
         \/ ReadEdge(channel[0])
         \/ WriteEdge(channel[0])
<1> DEFINE c == channel[0]
           readData == [i \in Channels |-> memory[channel[i].mem_read_address]]
           writing(a) == {i \in Channels : /\ WriteAnswered(i, writeReady)
                                           /\ channel[i].mem_write_address = a}
<1>1. /\ \A i \in Channels : channel[i] = c
      /\ c \in Channel /\ MarkAgrees(c)
  BY SomeChannel DEF IInv, TypeOK, ControllerTypeOK, Lockstep, Coherent
<1>2. readReady \in {{}, Channels} /\ writeReady \in {{}, Channels}
  BY DEF LockstepAnswers
<1>3. \A i \in Channels : readData[i] = memory[c.mem_read_address]
  BY <1>1
<1>4. memory[c.mem_read_address] \in Data
  BY <1>1 DEF IInv, TypeOK, Channel
<1>5. \/ Accepting(c)
      \/ RelayingRead(c, readReady, memory[c.mem_read_address])
      \/ RelayingWrite(c, writeReady)
      \/ Releasing(c)
      \/ Holding(c, readReady, writeReady)
  <2>1. ControllerStep(readReady, readData, writeReady)
    BY DEF Edge
  <2> HIDE DEF readData
  <2> QED
    BY <1>1, <1>2, <1>3, <1>4, <2>1, LockstepStep DEF IInv, TypeOK
<1>6. memory' = [a \in Address |-> IF writing(a) = {} THEN memory[a]
                                   ELSE channel[Last(writing(a))].mem_write_data]
  BY DEF Edge, MemoryStep
<1>7. \/ c.state = "WRITE_WAITING" /\ writeReady = Channels
      \/ \A a : writing(a) = {}
  BY <1>1, <1>2 DEF WriteAnswered
<1>8. CASE c.state = "WRITE_WAITING" /\ writeReady = Channels
  <2>1. RelayingWrite(c, Channels)
    BY <1>5, <1>8, SomeChannel
       DEF Accepting, RelayingRead, Releasing, Holding
  <2>2. \A a : writing(a) = IF a = c.mem_write_address THEN Channels ELSE {}
    BY <1>1, <1>8 DEF WriteAnswered
  <2>3. channel[Last(Channels)] = c
    BY <1>1, SomeChannel, LastFound
  <2>4. memory' = [memory EXCEPT ![c.mem_write_address] = c.mem_write_data]
    BY <1>6, <2>2, <2>3, SomeChannel DEF IInv, TypeOK
  <2> QED
    BY <2>1, <2>4 DEF WriteEdge
<1>9. CASE \A a : writing(a) = {}
  <2>1. memory' = memory
    BY <1>6, <1>9 DEF IInv, TypeOK
  <2>2. ~RelayingWrite(c, writeReady)
    <3> SUFFICES ASSUME RelayingWrite(c, writeReady) PROVE FALSE
      OBVIOUS
    <3>1. 0 \in writing(c.mem_write_address)
      BY <1>2, SomeChannel DEF RelayingWrite, WriteAnswered
    <3> QED
      BY <1>9, <3>1
  <2>3. Holding(c, readReady, writeReady) => Holding(c, {}, {})
    BY DEF Holding
  <2>4. RelayingRead(c, readReady, memory[c.mem_read_address]) =>
          RelayingRead(c, Channels, memory[c.mem_read_address])
    BY SomeChannel DEF RelayingRead
  <2> QED
    BY <1>5, <2>1, <2>2, <2>3, <2>4 DEF SilentEdge, ReadEdge
<1> QED
  BY <1>7, <1>8, <1>9

-----------------------------------------------------------------------------
(***************************************************************************)
(* What a consumer does at an edge: a request that is not yet acknowledged *)
(* stays as it is, no second one is raised beside it, and a new one shows  *)
(* up only on a quiet consumer.                                            *)
(***************************************************************************)
LEMMA PortStep ==
  ASSUME ControllerTypeOK, OneRequest,
         NEW wish \in [Quiet -> Wish], ConsumersStep(wish),
         NEW j \in Consumers
  PROVE  /\ ~(consumer_read'[j].valid /\ consumer_write'[j].valid)
         /\ consumer_read[j].valid =>
              /\ ~consumer_write'[j].valid
              /\ j \notin consumer_read_ready =>
                   consumer_read'[j] = consumer_read[j]
         /\ consumer_write[j].valid =>
              /\ ~consumer_read'[j].valid
              /\ j \notin consumer_write_ready =>
                   consumer_write'[j] = consumer_write[j]
<1> USE DEF ControllerTypeOK, ReadPort, WritePort, OneRequest
<1>1. /\ consumer_read'[j] = ReadPortStep(j, wish)
      /\ consumer_write'[j] = WritePortStep(j, wish)
  BY DEF ConsumersStep
<1>2. CASE j \in Quiet
  BY <1>1, <1>2 DEF Quiet, ReadPortStep, WritePortStep
<1>3. CASE j \notin Quiet
  BY <1>1, <1>3 DEF Quiet, ReadPortStep, WritePortStep
<1> QED
  BY <1>2, <1>3

LEMMA LockstepInit == Init => IInv
<1> SUFFICES ASSUME Init PROVE IInv
  OBVIOUS
<1>1. TypeOK
  BY ControllerAssumption
     DEF Init, ControllerInit, TypeOK, ControllerTypeOK, Channel,
         ControllerState, IdleChannel, ReadPort, WritePort, Consumers
<1>2. Lockstep /\ OneRequest
  BY DEF Init, ControllerInit, Lockstep, OneRequest
<1>3. Coherent
  BY DEF Init, ControllerInit, IdleChannel, Coherent, MarkAgrees, ReadAgrees,
         WriteAgrees
<1> QED
  BY <1>1, <1>2, <1>3 DEF IInv

LEMMA LockstepKept ==
  ASSUME LockstepAnswers, IInv, [Next]_vars, TypeOK'
  PROVE  IInv'
<1>1. ASSUME NEW readReady \in AnswerSets, NEW writeReady \in AnswerSets,
             NEW wish \in [Quiet -> Wish], Edge(readReady, writeReady, wish)
      PROVE  IInv'
  <2> DEFINE c == channel[0]
             Agree(k) == /\ MarkAgrees(channel[k])
                         /\ ReadAgrees(channel[k])
                         /\ WriteAgrees(channel[k])
  <2>1. /\ c \in Channel /\ c.current_consumer \in Consumers
        /\ MarkAgrees(c) /\ ReadAgrees(c) /\ WriteAgrees(c)
    BY SomeChannel DEF IInv, TypeOK, ControllerTypeOK, Coherent, Channel
  <2>2. SilentEdge(c) \/ ReadEdge(c) \/ WriteEdge(c)
    BY <1>1, LockstepEdge
  <2>3. Lockstep'
    BY <2>2, SomeChannel
       DEF IInv, Lockstep, SilentEdge, ReadEdge, WriteEdge, Accepting,
           RelayingRead, RelayingWrite, Releasing, Holding, Become,
           controllerVars
  <2>4. OneRequest'
    BY <1>1, PortStep DEF IInv, TypeOK, Edge, OneRequest
  <2>5. \A j \in Consumers :
          /\ ~(consumer_read'[j].valid /\ consumer_write'[j].valid)
          /\ consumer_read[j].valid =>
               /\ ~consumer_write'[j].valid
               /\ j \notin consumer_read_ready =>
                    consumer_read'[j] = consumer_read[j]
          /\ consumer_write[j].valid =>
               /\ ~consumer_read'[j].valid
               /\ j \notin consumer_write_ready =>
                    consumer_write'[j] = consumer_write[j]
    BY <1>1, PortStep DEF IInv, TypeOK, Edge
  <2>6. Agree(0)'
    <3> USE <2>1, <2>5, SomeChannel
        DEF MarkAgrees, ReadAgrees, WriteAgrees, Channel, Become
    <3>1. CASE Accepting(c)
      BY <3>1, FirstRequestFound DEF Accepting, Accepted, Requests, IInv, OneRequest
    <3>2. CASE ReadEdge(c)
      BY <3>2 DEF ReadEdge, RelayingRead
    <3>3. CASE WriteEdge(c)
      BY <3>3 DEF WriteEdge, RelayingWrite
    <3>4. CASE Releasing(c)
      BY <3>4 DEF Releasing
    <3>5. CASE Holding(c, {}, {})
      BY <3>5 DEF Holding, controllerVars
    <3> QED
      BY <2>2, <3>1, <3>2, <3>3, <3>4, <3>5 DEF SilentEdge
  <2>7. Coherent'
    BY <2>3, <2>6, SomeChannel DEF Lockstep, Coherent
  <2> QED
    BY <2>3, <2>4, <2>7 DEF IInv
<1>2. CASE UNCHANGED vars
  BY <1>2 DEF vars, controllerVars, IInv, TypeOK, ControllerTypeOK, Lockstep,
              OneRequest, Coherent, MarkAgrees, ReadAgrees, WriteAgrees
<1> QED
  BY <1>1, <1>2 DEF Next

(***************************************************************************)
(* When all channels share their ready inputs - one channel, or the vivado *)
(* wrapper's constant ready - the inductive invariant holds: the channels  *)
(* stay equal, and no request is lost or served for someone else.          *)
(***************************************************************************)
LEMMA LockstepInvariant ==
  ASSUME LockstepAnswers PROVE Spec => []IInv
<1>1. IInv /\ [Next]_vars /\ TypeOK' => IInv'
  BY LockstepKept
<1> QED
  BY <1>1, LockstepInit, TypeCorrect, PTL DEF Spec

THEOREM ChannelsActAsOne ==
  ASSUME LockstepAnswers PROVE Spec => []Lockstep
<1>1. IInv => Lockstep
  BY DEF IInv
<1> QED
  BY <1>1, LockstepInvariant, PTL

(***************************************************************************)
(* The handshake between a channel and its consumer is coherent.           *)
(***************************************************************************)
THEOREM HandshakeCoherent ==
  ASSUME LockstepAnswers PROVE Spec => []Coherent
<1>1. IInv => Coherent
  BY DEF IInv
<1> QED
  BY <1>1, LockstepInvariant, PTL

-----------------------------------------------------------------------------
(***************************************************************************)
(* The controller implements an atomic memory.                             *)
(***************************************************************************)
LEMMA IssuedKinds ==
  ASSUME ControllerTypeOK, NEW j \in Consumers
  PROVE  /\ consumer_read[j].valid => Issued(j) \in Atomic!Read
         /\ ~consumer_read[j].valid /\ consumer_write[j].valid =>
              Issued(j) \in Atomic!Write
         /\ j \in Quiet => Issued(j) = Atomic!NoRequest
         /\ j \notin Quiet => Issued(j) # Atomic!NoRequest
<1> USE DEF ControllerTypeOK, ReadPort, WritePort, Quiet, Issued, NoRequest,
            Atomic!NoRequest, Atomic!Read, Atomic!Write
<1>1. consumer_read[j].valid \in BOOLEAN /\ consumer_write[j].valid \in BOOLEAN
  OBVIOUS
<1>2. consumer_read[j].valid => Issued(j) \in Atomic!Read
  OBVIOUS
<1>3. ~consumer_read[j].valid /\ consumer_write[j].valid =>
        Issued(j) \in Atomic!Write
  OBVIOUS
<1>4. j \in Quiet => Issued(j) = Atomic!NoRequest
  OBVIOUS
<1>5. j \notin Quiet => Issued(j) # Atomic!NoRequest
  BY <1>1
<1> QED
  BY <1>2, <1>3, <1>4, <1>5

(***************************************************************************)
(* At every edge a consumer issues, retires or keeps its request, and only *)
(* an acknowledged request is retired.                                     *)
(***************************************************************************)
LEMMA RequestStep ==
  ASSUME ControllerTypeOK, ControllerTypeOK', OneRequest,
         NEW wish \in [Quiet -> Wish], ConsumersStep(wish),
         NEW j \in Consumers
  PROVE  \/ j \in Quiet /\ j \in Quiet'
         \/ j \in Quiet /\ Issued(j)' \in Atomic!Read \cup Atomic!Write
         \/ j \in Acknowledged /\ j \in Quiet'
         \/ j \notin Quiet /\ Issued(j)' = Issued(j)
<1> USE DEF ControllerTypeOK, ReadPort, WritePort, OneRequest
<1>1. /\ consumer_read'[j] = ReadPortStep(j, wish)
      /\ consumer_write'[j] = WritePortStep(j, wish)
  BY DEF ConsumersStep
<1>2. CASE j \in Quiet
  <2>1. j \in Quiet' \/ consumer_read'[j].valid \/ consumer_write'[j].valid
    BY DEF Quiet
  <2> QED
    BY <1>2, <2>1 DEF Issued, Atomic!Read, Atomic!Write
<1>3. CASE consumer_read[j].valid
  <2>1. ~consumer_write[j].valid
    BY <1>3
  <2> QED
    BY <1>1, <1>3, <2>1 DEF Quiet, Issued, Acknowledged, ReadPortStep, WritePortStep
<1>4. CASE consumer_write[j].valid
  <2>1. ~consumer_read[j].valid
    BY <1>4
  <2> QED
    BY <1>1, <1>4, <2>1 DEF Quiet, Issued, Acknowledged, ReadPortStep, WritePortStep
<1> QED
  BY <1>2, <1>3, <1>4 DEF Quiet

LEMMA AtomicInit == Init => Atomic!Init
<1> SUFFICES ASSUME Init PROVE Atomic!Init
  OBVIOUS
<1>1. \A j \in Consumers : Issued(j) = Atomic!NoRequest
  BY DEF Init, Issued, NoRequest, Atomic!NoRequest
<1>2. Acknowledged = {}
  BY DEF Init, Acknowledged
<1> QED
  BY <1>1, <1>2 DEF Init, ControllerInit, Atomic!Init

LEMMA AtomicStep ==
  ASSUME LockstepAnswers, IInv, IInv', Next
  PROVE  Atomic!Next
<1>1. PICK readReady \in AnswerSets, writeReady \in AnswerSets,
           wish \in [Quiet -> Wish] : Edge(readReady, writeReady, wish)
  BY DEF Next
<1> DEFINE c == channel[0]
           requests == [j \in Consumers |-> Issued(j)]
           Kept == {j \in Acknowledged : requests'[j] # Atomic!NoRequest}
<1>2. /\ c \in Channel /\ c.current_consumer \in Consumers
      /\ MarkAgrees(c) /\ ReadAgrees(c) /\ WriteAgrees(c)
  BY SomeChannel DEF IInv, TypeOK, ControllerTypeOK, Coherent, Channel
<1>3. \A j \in Consumers :
        \/ j \in Quiet /\ j \in Quiet'
        \/ j \in Quiet /\ Issued(j)' \in Atomic!Read \cup Atomic!Write
        \/ j \in Acknowledged /\ j \in Quiet'
        \/ j \notin Quiet /\ Issued(j)' = Issued(j)
  BY <1>1, RequestStep DEF IInv, TypeOK, Edge
<1>4. \A j \in Consumers :
        /\ j \in Quiet => Issued(j) = Atomic!NoRequest
        /\ j \in Quiet' => Issued(j)' = Atomic!NoRequest
  BY IssuedKinds DEF IInv, TypeOK, Issued, Quiet, NoRequest, Atomic!NoRequest
<1>5. \A j \in Consumers :
        \/ Atomic!Issues(j) \/ Atomic!Retires(j) \/ Atomic!Waits(j)
  BY <1>3, <1>4 DEF Atomic!Issues, Atomic!Retires, Atomic!Waits
<1>6. SilentEdge(c) \/ ReadEdge(c) \/ WriteEdge(c)
  BY <1>1, LockstepEdge
<1>7. \A j \in Consumers :
        /\ consumer_read[j].valid /\ j \in consumer_read_ready =>
             ~consumer_read'[j].valid /\ ~consumer_write'[j].valid
        /\ consumer_write[j].valid /\ j \in consumer_write_ready =>
             ~consumer_read'[j].valid /\ ~consumer_write'[j].valid
  BY <1>1 DEF Edge, ConsumersStep, ReadPortStep, WritePortStep, Quiet, IInv,
              OneRequest, TypeOK, ControllerTypeOK, ReadPort, WritePort
<1>8. CASE SilentEdge(c)
  <2>1. memory' = memory /\ consumer_read_data' = consumer_read_data
    BY <1>8 DEF SilentEdge, Accepting, Releasing, Holding, controllerVars
  <2>2. Acknowledged' = {}
    BY <1>8, <1>2, <1>7
       DEF SilentEdge, Accepting, Releasing, Holding, MarkAgrees,
           Acknowledged, controllerVars
  <2>3. Kept = {}
    BY <1>4, <1>7 DEF Acknowledged, Quiet
  <2> QED
    BY <1>5, <2>1, <2>2, <2>3 DEF Atomic!Next
<1> PICK p \in Consumers : p = c.current_consumer
  BY <1>2
<1>9. CASE ReadEdge(c)
  <2>1. /\ consumer_read[p].valid /\ ~consumer_write[p].valid
        /\ consumer_read[p].address = c.mem_read_address
        /\ consumer_read_ready = {} /\ consumer_write_ready = {}
    BY <1>2, <1>9 DEF ReadEdge, RelayingRead, MarkAgrees, ReadAgrees
  <2>2. consumer_read'[p] = consumer_read[p] /\ ~consumer_write'[p].valid
    BY <1>1, <1>2, <2>1, PortStep DEF IInv, TypeOK, Edge
  <2>3. Acknowledged = {} /\ Acknowledged' = {p}
    BY <1>2, <1>9, <2>1, <2>2 DEF Acknowledged, ReadEdge, RelayingRead
  <2>4. Issued(p) = [kind |-> "read", address |-> c.mem_read_address]
    BY <2>1 DEF Issued
  <2>5. Issued(p)' = Issued(p)
    BY <2>1, <2>2 DEF Issued
  <2>6. Issued(p) \in Atomic!Read
    BY <1>2, <2>4 DEF Atomic!Read, Channel
  <2>7. Atomic!Perform(p)
    <3>1. p \in Atomic!Pending
      BY <1>2, <2>1, <2>3, IssuedKinds
         DEF Atomic!Pending, IInv, TypeOK, Quiet
    <3>2. consumer_read_data' = [consumer_read_data EXCEPT
                                   ![p] = memory[requests[p].address]]
      <4>1. requests[p].address = c.mem_read_address
        BY <2>4
      <4> HIDE DEF requests
      <4> QED
        BY <1>9, <4>1 DEF ReadEdge, RelayingRead
    <3> QED
      BY <1>2, <1>9, <2>5, <2>6, <3>1, <3>2
         DEF Atomic!Perform, Atomic!Waits, ReadEdge, RelayingRead
  <2> QED
    BY <1>2, <1>5, <2>3, <2>7 DEF Atomic!Next
<1>10. CASE WriteEdge(c)
  <2>1. /\ consumer_write[p].valid /\ ~consumer_read[p].valid
        /\ consumer_write[p].address = c.mem_write_address
        /\ consumer_write[p].data = c.mem_write_data
        /\ consumer_read_ready = {} /\ consumer_write_ready = {}
    BY <1>2, <1>10 DEF WriteEdge, RelayingWrite, MarkAgrees, WriteAgrees
  <2>2. consumer_write'[p] = consumer_write[p] /\ ~consumer_read'[p].valid
    BY <1>1, <1>2, <2>1, PortStep DEF IInv, TypeOK, Edge
  <2>3. Acknowledged = {} /\ Acknowledged' = {p}
    BY <1>2, <1>10, <2>1, <2>2 DEF Acknowledged, WriteEdge, RelayingWrite
  <2>4. Issued(p) = [kind |-> "write", address |-> c.mem_write_address,
                     data |-> c.mem_write_data]
    BY <2>1 DEF Issued
  <2>5. Issued(p)' = Issued(p)
    BY <2>1, <2>2 DEF Issued
  <2>6. Issued(p) \in Atomic!Write
    BY <1>2, <2>4 DEF Atomic!Write, Channel
  <2>7. Atomic!Perform(p)
    <3>1. p \in Atomic!Pending
      BY <1>2, <2>1, <2>3, IssuedKinds
         DEF Atomic!Pending, IInv, TypeOK, Quiet
    <3>2. memory' = [memory EXCEPT ![requests[p].address] = requests[p].data]
      <4>1. /\ requests[p].address = c.mem_write_address
            /\ requests[p].data = c.mem_write_data
        BY <2>4
      <4> HIDE DEF requests
      <4> QED
        BY <1>10, <4>1 DEF WriteEdge, RelayingWrite
    <3> QED
      BY <1>2, <1>10, <2>5, <2>6, <3>1, <3>2
         DEF Atomic!Perform, Atomic!Waits, WriteEdge, RelayingWrite
  <2> QED
    BY <1>2, <1>5, <2>3, <2>7 DEF Atomic!Next
<1> QED
  BY <1>6, <1>8, <1>9, <1>10

(***************************************************************************)
(* Every request of fetchers and LSUs takes effect exactly once and reads  *)
(* return the last word written, for any number of consumers, any number   *)
(* of channels with common ready inputs, and any memory latency.           *)
(***************************************************************************)
THEOREM ImplementsAtomicMemory ==
  ASSUME LockstepAnswers PROVE Spec => ActsAtomically
<1>1. IInv /\ IInv' /\ [Next]_vars => [Atomic!Next]_(Atomic!vars)
  <2>1. CASE UNCHANGED vars
    BY <2>1 DEF vars, controllerVars, Atomic!vars, Issued, Acknowledged
  <2> QED
    BY <2>1, AtomicStep
<1> QED
  BY <1>1, AtomicInit, LockstepInvariant, PTL
     DEF Spec, ActsAtomically, Atomic!Spec

=============================================================================

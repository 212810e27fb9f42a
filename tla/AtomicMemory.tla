---------------------------- MODULE AtomicMemory ----------------------------
(***************************************************************************)
(* What a memory controller promises its consumers: every request they     *)
(* issue is performed exactly once, in one atomic step between the edge    *)
(* that issues it and the edge that retires it; a read answers with the    *)
(* word the last write to its address left there.                          *)
(*                                                                         *)
(* A step is a clock edge: any consumers may issue or retire a request     *)
(* while at most one other request is performed.                           *)
(***************************************************************************)
CONSTANTS Consumers, Address, Data, ZeroData

VARIABLES
  memory,   \* the word at every address
  request,  \* per consumer, the request it has issued
  done,     \* the consumers whose request has been performed
  answer    \* per consumer, the word its last read returned

vars == <<memory, request, done, answer>>

NoRequest == [kind |-> "none"]
Read == [kind : {"read"}, address : Address]
Write == [kind : {"write"}, address : Address, data : Data]

Init ==
  /\ memory \in [Address -> Data]
  /\ request = [j \in Consumers |-> NoRequest]
  /\ done = {}
  /\ answer = [j \in Consumers |-> ZeroData]

Issues(j) == request[j] = NoRequest /\ request'[j] \in Read \cup Write
Retires(j) == j \in done /\ request'[j] = NoRequest
Waits(j) == request'[j] = request[j]

Pending == {j \in Consumers : request[j] # NoRequest /\ j \notin done}

Perform(j) ==
  /\ j \in Pending
  /\ Waits(j)
  /\ \/ /\ request[j] \in Read
        /\ answer' = [answer EXCEPT ![j] = memory[request[j].address]]
        /\ UNCHANGED memory
     \/ /\ request[j] \in Write
        /\ memory' = [memory EXCEPT ![request[j].address] = request[j].data]
        /\ UNCHANGED answer

Next ==
  /\ \A j \in Consumers : Issues(j) \/ Retires(j) \/ Waits(j)
  /\ \/ /\ done' = {j \in done : request'[j] # NoRequest}
        /\ UNCHANGED <<memory, answer>>
     \/ \E p \in Consumers :
          /\ Perform(p)
          /\ done' = {j \in done : request'[j] # NoRequest} \cup {p}

Spec == Init /\ [][Next]_vars

=============================================================================

---------------------------- MODULE NativeSystem ----------------------------
(***************************************************************************)
(* A native port under every client: the JavaScript thread makes any legal *)
(* sequence of the calls of NativePort, without the accounting that        *)
(* binding.ts adds, while the I/O task, the device and the environment     *)
(* move on their own.                                                      *)
(***************************************************************************)
EXTENDS AnyClient

CONSTANTS
  Calls,        \* the native calls this client makes
  WriteSizes,   \* the sizes of its writes
  ReadSizes,    \* the sizes of its single-shot reads
  Credits,      \* the read credits <<bytes, slots>> it grants
  MaxRequests,  \* bound: requests with an id
  MaxGranted,   \* bound: slots granted
  MaxInput      \* bound: input bytes

Client ==
  \/ /\ Len(requests) < MaxRequests
     /\ \/ \E op \in Calls : Request(op)
        \/ "read" \in Calls /\ \E size \in ReadSizes : ReadRequest(size)
        \/ /\ "write" \in Calls
           /\ \E size \in WriteSizes, inline \in BOOLEAN : Write(size, inline)
        \/ /\ "writev" \in Calls
           /\ \E size \in WriteSizes : WritevSnapshot(size, TRUE)
  \/ /\ granted.slots < MaxGranted
     /\ \E c \in Credits : ReadCredit(c[1], c[2])
  \/ WritevRecheck \/ WriteAttempt \/ EnqueueRemainder
  \/ "close" \in Calls /\ Close
  \/ Notify
  \/ "consume" \in Calls /\ Consume
  \/ "teardown" \in Calls /\ EnvTeardown

Device ==
  \/ arrived < MaxInput /\ Arrive
  \/ Transmit \/ Shift
  \/ "lose" \in Calls /\ Lose

Finished == pc = "done" /\ UNCHANGED vars

Next ==
  \/ Client /\ UNCHANGED reactorVars
  \/ Task
  \/ Device
  \/ Finished

Spec == Init /\ [][Next]_vars

(* The Tokio worker, the JavaScript thread and the kernel's own sending of *)
(* what is in the UART go on; nothing makes the device accept output.      *)
Fairness ==
  /\ WF_vars(Task)
  /\ WF_vars(Notify /\ UNCHANGED reactorVars)
  /\ WF_vars((WritevRecheck \/ WriteAttempt \/ EnqueueRemainder)
               /\ UNCHANGED reactorVars)
  /\ WF_vars("consume" \in Calls /\ Consume /\ UNCHANGED reactorVars)
  /\ WF_vars(Shift)

FairSpec == Spec /\ Fairness

(* A device without flow control also takes what is queued.                *)
Sends == WF_vars(Transmit)

-----------------------------------------------------------------------------

(* What is streamed of the credit that was granted, a slot for each chunk.  *)
IsData(e) == e.kind = "data"
Streamed ==
  LET events == SelectSeq(callbacks, IsData)
  IN  FlattenSeq([i \in DOMAIN events |-> events[i].chunks]) \o batch
Bytes(chunks) == FoldLeft(LAMBDA sum, c : sum + c[2], 0, chunks)

-----------------------------------------------------------------------------
(* A stop, by close, by the environment or by the task itself, ends in the *)
(* close of the port: no notification is lost.  A drain that is blocked    *)
(* may delay it, hence the device must send.                               *)
StopEnds == Sends => (stop ~> (pc = "done"))

(* Input is read as long as credit is outstanding, whatever is queued for  *)
(* output and whether or not the device accepts it: credits are received   *)
(* past a full backlog of commands.                                        *)
CreditLeft ==
  Bytes(Streamed) < granted.bytes /\ Len(Streamed) < granted.slots

ReadsFlow ==
  \A n \in 0 .. MaxInput - 1 :
    (position = n /\ arrived > n /\ CreditLeft /\ session = "open")
      ~> (position > n \/ stop \/ gone)

(* A device that takes output lets every admitted request finish.          *)
RequestsFinish ==
  Sends => \A id \in 1 .. MaxRequests :
    (id <= Len(requests) /\ requests[id].state = "queued"
       /\ Ordered(requests[id].op))
      ~> (stop \/ \E i \in AnswerPlaces : callbacks[i].id = id)
=============================================================================

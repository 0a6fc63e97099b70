---------------------------- MODULE BindingSystem ----------------------------
(***************************************************************************)
(* A BindingPort and its native port under any caller of its methods.      *)
(***************************************************************************)
EXTENDS BindingPort, AnyClient

CONSTANTS
  Methods,      \* the methods this caller uses
  Writes,       \* the writes it makes, as sequences of request sizes
  ReadLengths,  \* the lengths it passes to readChunk
  Windows,      \* the lengths it passes to startReading
  MaxRequests,  \* bound: native requests, and calls of write
  MaxDrains,    \* bound: calls of drain
  MaxInput      \* bound: input bytes

ASSUME CallerAssumption ==
  Writes \subseteq Seq(Nat) /\ Windows \subseteq Nat \ {0}

BindingInit == Init /\ InitBinding

Caller ==
  \/ /\ Len(requests) < MaxRequests
     /\ \/ /\ "write" \in Methods /\ Len(starts) < MaxRequests
           /\ \E sizes \in Writes : StartWrite(sizes)
        \/ \E op \in Methods \cap {"control", "flush"} : Operation(op)
        \/ \E size \in ReadLengths : ReadChunk(size)
  \/ \E length \in Windows : StartReading(length)
  \/ "drain" \in Methods /\ Len(drains) + Len(drained) < MaxDrains /\ DrainCall
  \/ "close" \in Methods /\ CloseCall
  \/ "cancel" \in Methods /\ ~closing /\ CancelOpen  \* bound: no repetition

(* What JavaScript still does on its own for the calls that were made.     *)
Pump ==
  \/ ContinueWrite \/ AttemptWrite \/ FinishWriteCall \/ DrainContinue
  \/ Callback \/ Deliver
  \/ Notify /\ UNCHANGED <<reactorVars, bindingVars>>

Device ==
  /\ \/ arrived < MaxInput /\ Arrive
     \/ Transmit \/ Shift
     \/ "lose" \in Methods /\ Lose
  /\ UNCHANGED bindingVars

(* A port whose task is done, or which nobody uses any more, rests.        *)
Rest == (pc \in {"select", "done"}) /\ UNCHANGED allVars

Next == Caller \/ Pump \/ (Task /\ UNCHANGED bindingVars) \/ Device \/ Rest

Spec == BindingInit /\ [][Next]_allVars

(* The event loop, the worker and the kernel go on; the device takes       *)
(* output, and the stream asks for more input as long as it is open.       *)
FairSpec ==
  /\ Spec
  /\ WF_allVars(ContinueWrite \/ AttemptWrite \/ FinishWriteCall)
  /\ WF_allVars(DrainContinue) /\ WF_allVars(Callback) /\ WF_allVars(Deliver)
  /\ WF_allVars(Notify /\ UNCHANGED <<reactorVars, bindingVars>>)
  /\ WF_allVars(Task /\ UNCHANGED bindingVars)
  /\ WF_allVars(Shift /\ UNCHANGED bindingVars)
  /\ WF_allVars(Transmit /\ UNCHANGED bindingVars)

PullingSpec ==
  /\ FairSpec
  /\ \A length \in Windows : WF_allVars(StartReading(length))

-----------------------------------------------------------------------------
Queued == {id \in DOMAIN requests : requests[id].state = "queued"}
SettledIds == {settled[i].id : i \in DOMAIN settled}

(* A session that is open ends with an error only when the device is lost: *)
(* in particular the credit granted never overflows the native window, and *)
(* never meets a single-shot read.  And no event is ever refused, which    *)
(* would end the session without an error, or lose its close: the limits   *)
(* on promises and on slots bound what is in the callback queue.           *)
EventsFit == pc # "done" => CanSend

FailsOnlyWithDevice ==
  (failure /\ opened = "resolved" => gone) /\ EventsFit

(* Every request that was admitted has one promise, which is settled once, *)
(* at the latest when the port is closed.                                  *)
SettledOnce ==
  /\ Queued = pending \cup SettledIds
  /\ pending \cap SettledIds = {}
  /\ Cardinality(SettledIds) = Len(settled)
  /\ finished => pending = {}

(* The two layers agree on admission: what JavaScript submits is refused   *)
(* only by a stop or by a task that has ended, never because a native      *)
(* queue is full or a reservation of an answered operation is still held;  *)
(* and _ordered counts the ordered operations that are not settled, the    *)
(* one being submitted included: a drift would disable immediate writes    *)
(* for ever, or let them overtake.                                         *)
LayersAgree ==
  /\ \A id \in DOMAIN requests :
       requests[id].state = "refused" => stop \/ ~receiving
  /\ ordered = Cardinality({id \in pending : Ordered(requests[id].op)})
                + (IF call.step = "none" THEN 0 ELSE 1)

(* A write completes at once only when no earlier ordered promise is       *)
(* unsettled, although the native side retires an operation before its     *)
(* completion reaches JavaScript.                                          *)
CompletionOrder ==
  [][\A id \in DOMAIN requests' \ DOMAIN requests :
       requests'[id].state = "inline"
         => \A p \in pending : ~Ordered(requests[p].op)]_allVars

(* When drain() resolves, the whole of every write that was called before  *)
(* it has reached the driver, also of a writev in several requests.        *)
CalledBefore(n) ==
  {id \in DOMAIN requests :
     /\ requests[id].op = "write"
     /\ n < Len(starts) => id < starts[n + 1]}

DrainCovers ==
  \A d \in DOMAIN drained :
    Outcome(drained[d].id, "ok") \in {settled[i] : i \in DOMAIN settled}
      => \A id \in CalledBefore(drained[d].job) : Transferred(id)

(* The credit that JavaScript counts as outstanding is exactly what the    *)
(* native side may still use plus what is on its way: in the channel, in a *)
(* burst, in the callback queue, and undelivered.                          *)
Unread == SubSeq(callbacks, consumed + 1, Len(callbacks))
IsData(e) == e.kind = "data"

Chunks ==
  FlattenSeq([i \in DOMAIN Unread |->
                IF IsData(Unread[i]) THEN Unread[i].chunks ELSE <<>>])
    \o backlog \o batch

Total(numbers) ==
  LET upTo[i \in 0 .. Len(numbers)] ==
        IF i = 0 THEN 0 ELSE upTo[i - 1] + numbers[i]
  IN  upTo[Len(numbers)]

Bytes(chunks) == Total([i \in DOMAIN chunks |-> chunks[i][2]])

IsCredit(c) == c.op = "credit"
GrantedBytes ==
  Total([i \in DOMAIN channel |->
           IF IsCredit(channel[i]) THEN channel[i].size ELSE 0])
GrantedSlots ==
  Total([i \in DOMAIN channel |->
           IF IsCredit(channel[i]) THEN channel[i].slots ELSE 0])

CreditAgreed ==
  isOpen /\ receiving /\ pc # "ended" =>
    /\ readBytes = window.bytes + GrantedBytes + Bytes(Chunks)
    /\ readSlots = window.slots + GrantedSlots + Len(Chunks)

(* No input that was taken from the driver is lost or reordered on its way *)
(* to the callback queue, also when the device fails in a burst.           *)
Published == FlattenSeq([i \in DOMAIN callbacks |-> callbacks[i].chunks])

ReadsConserved ==
  /\ IsPrefix(Published, obtained)
  /\ failure \/ (receiving /\ pc # "ended") => Published \o batch = obtained

-----------------------------------------------------------------------------
(* Every admitted ordered operation settles, and a call of close or of     *)
(* cancel, also one that races with the open event, ends in the close.     *)
Settles ==
  /\ \A id \in 1 .. MaxRequests :
       (id \in pending /\ Ordered(requests[id].op)) ~> id \notin pending
  /\ closing ~> finished

(* While the stream keeps asking, input keeps flowing: the refill rule of  *)
(* startReading never leaves bytes without slots or slots without bytes.   *)
(* Arrivals are bounded, so input that is not taken would wait for ever.   *)
InputFlows ==
  ~<>[](isOpen /\ jsStreaming /\ arrived > position /\ ~stop /\ ~gone)
=============================================================================

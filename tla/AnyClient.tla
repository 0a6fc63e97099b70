------------------------------ MODULE AnyClient ------------------------------
(***************************************************************************)
(* A native port under any client at all: whatever calls of NativePort the *)
(* JavaScript thread makes, with or without the accounting of binding.ts,  *)
(* while the I/O task, the device and the environment move on their own.   *)
(* NativeSystem bounds it for TLC, and BindingSystem puts BindingPort in   *)
(* the place of the client; the safety properties are those of both.       *)
(***************************************************************************)
EXTENDS Reactor, SequencesExt

AnyCall ==
  \/ \E op \in OrderedOps : Request(op)
  \/ \E size \in 1 .. ChunkSize : ReadRequest(size)
  \/ \E size \in 0 .. ChunkSize, inline \in BOOLEAN :
       Write(size, inline) \/ WritevSnapshot(size, inline)
  \/ \E bytes \in 1 .. ChunkSize, slots \in 1 .. ReadSlots :
       ReadCredit(bytes, slots)
  \/ WritevRecheck \/ WriteAttempt \/ EnqueueRemainder
  \/ Close \/ Notify \/ Consume \/ EnvTeardown

OfDevice == Arrive \/ Transmit \/ Shift \/ Lose

AnyStep == (AnyCall /\ UNCHANGED reactorVars) \/ Task \/ OfDevice

AnySpec == Init /\ [][AnyStep]_vars

-----------------------------------------------------------------------------
TypeOK ==
  /\ stop \in BOOLEAN /\ permit \in BOOLEAN /\ env \in BOOLEAN
  /\ notifyDue \in BOOLEAN /\ receiving \in BOOLEAN /\ gone \in BOOLEAN
  /\ pendingOps \in Nat /\ consumed \in Nat /\ queued \in 0 .. OutCap
  /\ session \in {"none", "open", "released"}
  /\ lock \in {"free", "burst", "drain"}
  /\ channel \in Seq(Command) /\ commands \in Seq(Command)
  /\ callbacks \in Seq(Event) /\ answer \in Event
  /\ call \in [step : {"none", "snapshot", "checked", "remainder"}, id : Nat,
               from : Nat, size : Nat, inline : BOOLEAN]
  /\ requests \in Seq([op : OrderedOps \cup {"read"}, size : Nat,
                       state : {"queued", "inline", "refused"}])
  /\ granted \in [bytes : Nat, slots : Nat]
  /\ taken \in Seq(Nat \X Nat)
  /\ pc \in {"opening", "opened", "top", "front", "answer", "draining",
             "select", "poll", "burst", "ended", "completing", "releasing",
             "closing", "done"}
  /\ written \in Nat /\ read \in {<<>>} \cup (Nat \X Nat)
  /\ streaming \in BOOLEAN /\ writeFirst \in BOOLEAN /\ failure \in BOOLEAN
  /\ window \in [bytes : Nat, slots : Nat, size : Sizes]
  /\ batch \in Seq(Nat \X Nat) /\ obtained \in Seq(Nat \X Nat)
  /\ arrived \in Nat /\ position \in Nat /\ uart \in Nat

(* pending_ops counts exactly the ordered commands that wait in the        *)
(* channel or with the task, and never exceeds the limit: no path of       *)
(* enqueue or of the task leaks or double-counts an admission.             *)
OrderedIn(s) == {s[i].id : i \in {k \in DOMAIN s : Ordered(s[k].op)}}

Admission ==
  receiving =>
    /\ pendingOps = Cardinality(OrderedIn(channel) \cup OrderedIn(commands))
    /\ pendingOps <= MaxPending

(* Every unit reaches the driver in the order of submission, and nothing   *)
(* is skipped: not inside a write, whose head may have gone inline and     *)
(* whose tail was queued, nor a write that was accepted earlier.           *)
Transferred(id) ==
  requests[id].op = "write" /\ requests[id].state # "refused"
    => requests[id].size = 0 \/ Contains(taken, <<id, requests[id].size>>)

InPlace(i) ==
  /\ taken[i][2] > 1 => i > 1 /\ taken[i-1] = <<taken[i][1], taken[i][2] - 1>>
  /\ taken[i][2] = 1 => i = 1 \/ taken[i-1][1] < taken[i][1]
  /\ \A id \in 1 .. (taken[i][1] - 1) : Transferred(id)

WireOrder == \A i \in DOMAIN taken : InPlace(i)

(* The completions of admitted ordered requests are published in the       *)
(* order of submission, none skipped and none twice, and a write that is   *)
(* reported as successful is entirely with the driver.  An event that      *)
(* answers such a request is found by its place among the callbacks.       *)
IsAnswer(e) == e.kind \in {"ok", "error"}

AnswerPlaces == {i \in DOMAIN callbacks : IsAnswer(callbacks[i])}

QueuedUpTo(n) ==
  {id \in 1 .. n : Ordered(requests[id].op) /\ requests[id].state = "queued"}

AnsweredBy(i) == {callbacks[j].id : j \in {k \in AnswerPlaces : k <= i}}

ExactAt(i) ==
  /\ QueuedUpTo(callbacks[i].id) = AnsweredBy(i)
  /\ \A j \in AnswerPlaces : j < i => callbacks[j].id < callbacks[i].id
  /\ callbacks[i].kind = "ok" => Transferred(callbacks[i].id)

AnswersExact == \A i \in AnswerPlaces : ExactAt(i)

(* When a drain succeeds, nothing of what was submitted before it is still *)
(* on its way: not with the task, in the driver's queue or in the UART.    *)
DrainBarrier ==
  [][pc = "draining" /\ pc' = "answer" /\ answer'.kind = "ok"
       => /\ queued = 0 /\ uart = 0
          /\ \A id \in 1 .. answer'.id : Transferred(id)]_vars

(* After a stop the driver accepts at most the transfer that was already   *)
(* being polled, and the immediate attempt of one call that passed its     *)
(* check before the task stopped itself, as long as the task has not       *)
(* released the descriptor; and no call passes its check any more.  So     *)
(* after close() neither the rest of a write nor a call in progress        *)
(* reaches the driver, in particular not the one whose array closed it.    *)
PolledTransfer == pc = "poll" /\ pc' = "top"

OvertakenAttempt == pc = "releasing" /\ call.step = "checked"

StopForbidsWrites ==
  [][stop => /\ taken' # taken => PolledTransfer \/ OvertakenAttempt
             /\ call'.step = "checked" => call.step = "checked"]_vars

(* The descriptor is released before close is published, close is the last *)
(* event, and stopped calls fail from then on.                             *)
ReleasedAtClose ==
  \A i \in DOMAIN callbacks : callbacks[i].kind = "close" =>
     i = Len(callbacks) /\ session # "open" /\ stop
=============================================================================

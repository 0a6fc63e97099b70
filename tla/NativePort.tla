----------------------------- MODULE NativePort -----------------------------
(***************************************************************************)
(* The native half of a port as the JavaScript thread sees it: the methods *)
(* of NativePort, the Control block it shares with the port's I/O task,    *)
(* the bounded command channel to that task, the bounded callback queue    *)
(* back, and the output side of the serial driver, which a write may reach *)
(* directly when nothing earlier is pending.                               *)
(*                                                                         *)
(* Bytes are abstracted to numbered units: unit <<id, k>> is the k-th unit *)
(* of the request id.  Requests are numbered in submission order.          *)
(***************************************************************************)
EXTENDS Naturals, Sequences, FiniteSets

CONSTANTS
  MaxPending,   \* MAX_PENDING_OPS: admitted and unanswered ordered commands
  ReadSlots,    \* READ_SLOTS: read events that may be outstanding
  ChunkSize,    \* CHUNK_SIZE: the largest transfer
  CallbackCap,  \* the capacity of the thread-safe function's queue
  OutCap        \* the capacity of the driver's output queue

ASSUME NativeAssumption ==
  /\ MaxPending \in Nat \ {0} /\ ReadSlots \in Nat \ {0}
  /\ ChunkSize \in Nat \ {0} /\ CallbackCap \in Nat \ {0}
  /\ OutCap \in Nat \ {0}

VARIABLES
  stop,        \* Control.stop
  permit,      \* the permit that Control.changed holds
  pendingOps,  \* Control.pending_ops
  session,     \* Control.session: "none", then "open", then "released"
  lock,        \* who holds the mutex of Control.session across steps
  channel,     \* the mpsc channel of commands
  receiving,   \* whether the I/O task still holds the receiver
  callbacks,   \* every event the task published, in order
  consumed,    \* how many of them JavaScript has taken from the queue
  env,         \* whether the JavaScript environment is alive
  call,        \* the native call that is in progress on the JS thread
  notifyDue,   \* stop() has stored the flag and not yet notified
  requests,    \* history: every request made, by id
  granted,     \* history: the read credit granted
  taken,       \* history: the units the driver accepted, in order
  queued,      \* how many of them are still in the driver's output queue
  gone         \* whether the device was lost

nativeVars == <<stop, permit, pendingOps, session, lock, channel, receiving,
                callbacks, consumed, env, call, notifyDue, requests, granted,
                taken, queued, gone>>

Least(a, b) == IF a <= b THEN a ELSE b

(***************************************************************************)
(* Commands (command.rs).  `from' counts the units of a write that an      *)
(* inline attempt already transferred; a credit has no id in the code, and *)
(* carries id 0.                                                           *)
(***************************************************************************)
OrderedOps == {"write", "control", "flush", "drain"}

Command == [id : Nat, op : OrderedOps \cup {"read", "credit"},
            from : Nat, size : Nat, slots : Nat]

Ordered(op) == op \in OrderedOps

(* An event on the callback queue.  A chunk <<first, n>> is the n input    *)
(* bytes from number first on.                                             *)
EventKinds == {"open", "ok", "error", "busy", "read", "data", "close"}
Event == [kind : EventKinds, id : Nat, failed : BOOLEAN,
          chunks : Seq(Nat \X Nat)]

NoCall == [step |-> "none", id |-> 0, from |-> 0, size |-> 0, inline |-> FALSE]

ChannelCap == MaxPending + ReadSlots

NextId == Len(requests) + 1

InitNative ==
  /\ stop = FALSE /\ permit = FALSE /\ pendingOps = 0
  /\ session = "none" /\ lock = "free"
  /\ channel = <<>> /\ receiving = TRUE
  /\ callbacks = <<>> /\ consumed = 0 /\ env = TRUE
  /\ call = NoCall /\ notifyDue = FALSE
  /\ requests = <<>> /\ granted = [bytes |-> 0, slots |-> 0]
  /\ taken = <<>> /\ queued = 0 /\ gone = FALSE

-----------------------------------------------------------------------------
(***************************************************************************)
(* The driver's output queue.                                              *)
(***************************************************************************)
Units(id, from, n) == [k \in 1 .. n |-> <<id, from + k>>]

(* A nonblocking write of n units transfers what fits.                     *)
FittingAll(n) == n

Fitting(n) == Least(n, OutCap - queued)

(* The driver accepts n units of write id after the first `from' ones.     *)
Accept(id, from, n) ==
  /\ taken' = taken \o Units(id, from, n)
  /\ queued' = queued + n

(***************************************************************************)
(* The callback queue: a nonblocking call fails when the queue is full or  *)
(* the environment is going away.                                          *)
(***************************************************************************)
CanSend == env /\ Len(callbacks) - consumed < CallbackCap

(* JavaScript runs the callback of the next event.                         *)
Consume ==
  /\ env /\ call.step = "none" /\ ~notifyDue
  /\ consumed < Len(callbacks)
  /\ consumed' = consumed + 1
  /\ UNCHANGED <<stop, permit, pendingOps, session, lock, channel, receiving,
                 callbacks, env, call, notifyDue, requests, granted, taken,
                 queued, gone>>

-----------------------------------------------------------------------------
(***************************************************************************)
(* enqueue: the total of admitted and unanswered ordered commands is       *)
(* bounded by pending_ops, and the channel is bounded too.  The increment  *)
(* is taken back whenever the command is refused.                          *)
(***************************************************************************)
Backlogged(op) == Ordered(op) /\ pendingOps >= MaxPending

Sendable == receiving /\ Len(channel) < ChannelCap

Admits(op) == ~stop /\ ~Backlogged(op) /\ Sendable

LeakedPending(op) == pendingOps + (IF Ordered(op) THEN 1 ELSE 0)

PendingWhenRefused(op) == pendingOps

Enqueue(c) ==
  IF Admits(c.op)
  THEN /\ channel' = Append(channel, c)
       /\ pendingOps' = pendingOps + (IF Ordered(c.op) THEN 1 ELSE 0)
  ELSE /\ channel' = channel
       /\ pendingOps' = PendingWhenRefused(c.op)

(* The record that history keeps of a request: `inline' is a write that    *)
(* was complete at once, `queued' one the task will answer, `refused' one  *)
(* that threw.                                                             *)
Recorded(op, size) ==
  Append(requests, [op |-> op, size |-> size,
                    state |-> IF Admits(op) THEN "queued" ELSE "refused"])

JsIdle == env /\ call.step = "none" /\ ~notifyDue

(* request: a control, a flush or a drain.                                 *)
Request(op) ==
  /\ JsIdle /\ op \in {"control", "flush", "drain"}
  /\ Enqueue([id |-> NextId, op |-> op, from |-> 0, size |-> 0, slots |-> 0])
  /\ requests' = Recorded(op, 0)
  /\ UNCHANGED <<stop, permit, session, lock, receiving, callbacks, consumed,
                 env, call, notifyDue, granted, taken, queued, gone>>

(* read: a single-shot read of at most `size' bytes.                       *)
ReadRequest(size) ==
  /\ JsIdle /\ size \in 1 .. ChunkSize
  /\ Enqueue([id |-> NextId, op |-> "read", from |-> 0, size |-> size,
              slots |-> 0])
  /\ requests' = Recorded("read", size)
  /\ UNCHANGED <<stop, permit, session, lock, receiving, callbacks, consumed,
                 env, call, notifyDue, granted, taken, queued, gone>>

(* read_credit: permission to publish `bytes' bytes in `slots' events.     *)
ReadCredit(bytes, slots) ==
  /\ JsIdle /\ bytes \in 1 .. ChunkSize /\ slots \in 1 .. ReadSlots
  /\ Enqueue([id |-> 0, op |-> "credit", from |-> 0, size |-> bytes,
              slots |-> slots])
  /\ granted' = IF Admits("credit")
                THEN [bytes |-> granted.bytes + bytes,
                      slots |-> granted.slots + slots]
                ELSE granted
  /\ UNCHANGED <<stop, permit, session, lock, receiving, callbacks, consumed,
                 env, call, notifyDue, requests, taken, queued, gone>>

-----------------------------------------------------------------------------
(***************************************************************************)
(* Writes.  A call goes through up to four steps, between which the I/O    *)
(* task can move: the array of writev is read, stop is checked, an         *)
(* immediate attempt is made, and what it did not transfer is enqueued.    *)
(* The attempt never waits for the port's mutex and never bypasses an      *)
(* earlier ordered command.                                                *)
(***************************************************************************)
BypassesPending(inline) == inline /\ lock = "free" /\ session = "open"

MayBypass(inline) ==
  inline /\ pendingOps = 0 /\ lock = "free" /\ session = "open"

(* try_write fails on a full queue, an interruption or a lost device, and  *)
(* then, as when no attempt is made, the whole write is enqueued.          *)
Outcomes(inline) == IF MayBypass(inline) /\ ~gone THEN BOOLEAN ELSE {FALSE}

Attempt(id, size, inline) ==
  \E written \in Outcomes(inline) :
    LET n == IF written THEN Fitting(size) ELSE 0
    IN  /\ Accept(id, 0, n)
        /\ IF written /\ n = size
           THEN /\ call' = NoCall
                /\ requests' = Append(requests, [op |-> "write",
                                     size |-> size, state |-> "inline"])
           ELSE /\ call' = [step |-> "remainder", id |-> id, from |-> n,
                            size |-> size, inline |-> inline]
                /\ requests' = requests

Calling(step, size, inline) ==
  [step |-> step, id |-> NextId, from |-> 0, size |-> size, inline |-> inline]

(* write: the check, after which the call holds nothing that a stop of the *)
(* I/O task would wait for.                                                *)
Write(size, inline) ==
  /\ JsIdle /\ size \in 0 .. ChunkSize
  /\ ~stop
  /\ call' = Calling("checked", size, inline)
  /\ UNCHANGED <<stop, permit, pendingOps, session, lock, channel, receiving,
                 callbacks, consumed, env, notifyDue, requests, granted, taken,
                 queued, gone>>

(* writev reads the elements of a JavaScript array, whose accessors may    *)
(* close the port: it checks stop before and after.                        *)
WritevSnapshot(size, inline) ==
  /\ JsIdle /\ size \in 0 .. ChunkSize
  /\ ~stop
  /\ call' = Calling("snapshot", size, inline)
  /\ UNCHANGED <<stop, permit, pendingOps, session, lock, channel, receiving,
                 callbacks, consumed, env, notifyDue, requests, granted, taken,
                 queued, gone>>

NoRecheck == TRUE

Recheck == ~stop

WritevRecheck ==
  /\ env /\ call.step = "snapshot" /\ ~notifyDue
  /\ call' = IF Recheck THEN [call EXCEPT !.step = "checked"] ELSE NoCall
  /\ UNCHANGED <<stop, permit, pendingOps, session, lock, channel, receiving,
                 callbacks, consumed, env, notifyDue, requests, granted, taken,
                 queued, gone>>

(* The attempt, of both: it holds the mutex from try_lock on, so that the  *)
(* descriptor cannot be released in it.                                    *)
WriteAttempt ==
  /\ env /\ call.step = "checked" /\ ~notifyDue
  /\ Attempt(call.id, call.size, call.inline)
  /\ UNCHANGED <<stop, permit, pendingOps, session, lock, channel, receiving,
                 callbacks, consumed, env, notifyDue, granted, gone>>

(* The remainder of a write joins the channel, or the call throws.         *)
EnqueueRemainder ==
  /\ env /\ call.step = "remainder" /\ ~notifyDue
  /\ Enqueue([id |-> call.id, op |-> "write", from |-> call.from,
              size |-> call.size, slots |-> 0])
  /\ requests' = Recorded("write", call.size)
  /\ call' = NoCall
  /\ UNCHANGED <<stop, permit, session, lock, receiving, callbacks, consumed,
                 env, notifyDue, granted, taken, queued, gone>>

-----------------------------------------------------------------------------
(***************************************************************************)
(* close, and the drop of a NativePort, call Control::stop: it stores the  *)
(* flag and then leaves a permit, which a task that waits, or one that     *)
(* comes to wait later, takes.                                             *)
(***************************************************************************)
Close ==
  /\ env /\ call.step \in {"none", "snapshot"} /\ ~notifyDue
  /\ stop' = TRUE
  /\ notifyDue' = TRUE
  /\ UNCHANGED <<permit, pendingOps, session, lock, channel, receiving,
                 callbacks, consumed, env, call, requests, granted, taken,
                 queued, gone>>

NoPermit == permit' = permit

Wake == permit' = TRUE

Notify ==
  /\ notifyDue
  /\ notifyDue' = FALSE
  /\ Wake
  /\ UNCHANGED <<stop, pendingOps, session, lock, channel, receiving, callbacks,
                 consumed, env, call, requests, granted, taken, queued, gone>>

(* The cleanup hook of the environment stops every session of it; no       *)
(* JavaScript runs and no callback is accepted afterwards.                 *)
EnvTeardown ==
  /\ JsIdle
  /\ env' = FALSE
  /\ stop' = TRUE
  /\ notifyDue' = TRUE
  /\ UNCHANGED <<permit, pendingOps, session, lock, channel, receiving,
                 callbacks, consumed, call, requests, granted, taken, queued,
                 gone>>

=============================================================================

----------------------------- MODULE BindingPort -----------------------------
(***************************************************************************)
(* BindingPort of binding.ts over a native port: the promises of submitted *)
(* operations, the accounting of ordered operations and of read credit,    *)
(* and the handshake of opening and closing.  Every JavaScript action runs *)
(* on one thread, so that it interleaves with the I/O task and the device  *)
(* only between the steps of a native write.                               *)
(***************************************************************************)
EXTENDS Reactor, SequencesExt

CONSTANT JsPending  \* the limit of _request and write on unsettled promises

(* Both limits are 64 (binding.ts:230 and 332, lib.rs:34), the slots are   *)
(* 32 (lib.rs:33), and the callback queue holds 128 events (lib.rs:191).   *)
ASSUME BindingAssumption ==
  /\ JsPending \in Nat \ {0} /\ JsPending <= MaxPending
  /\ JsPending + ReadSlots < CallbackCap

VARIABLES
  opened,      \* the promise `opened': "pending", "resolved", "rejected"
  isOpen, closing, finished,
  pending,     \* the ids of _pending
  ordered,     \* _ordered
  jsReading, jsStreaming,   \* _reading, _streaming
  readBytes, readSlots,     \* _readBytes, _readSlots
  job,         \* the write() or writev() in progress, _writing
  starts,      \* history: the next id when each of them began
  drains,      \* the drain() calls that await _writePromise, by write number
  drained,     \* history: for the id of a drain, the write it awaited
  settled,     \* history: the outcome of each promise, in order
  backlog,     \* chunks JavaScript has received and not delivered
  closed       \* the promise of close(): "none", "waiting", "resolved"

promiseVars == <<pending, ordered, jsReading, job, settled>>
creditVars == <<jsStreaming, readBytes, readSlots, backlog>>
lifeVars == <<opened, isOpen, closing, finished, closed>>
drainVars == <<starts, drains, drained>>
bindingVars == <<promiseVars, creditVars, lifeVars, drainVars>>
allVars == <<vars, bindingVars>>

(* `id' is the request the write waits for, `left' the sizes of the        *)
(* requests it has not made, `broken' a rejected _writePromise.            *)
NoJob == [active |-> FALSE, left |-> <<>>, id |-> 0, vector |-> FALSE,
          broken |-> FALSE]

InitBinding ==
  /\ opened = "pending" /\ isOpen = FALSE /\ closing = FALSE
  /\ finished = FALSE /\ closed = "none"
  /\ pending = {} /\ ordered = 0 /\ settled = <<>>
  /\ jsReading = FALSE /\ jsStreaming = FALSE
  /\ readBytes = 0 /\ readSlots = 0 /\ backlog = <<>>
  /\ job = NoJob /\ starts = <<>> /\ drains = <<>> /\ drained = <<>>

Usable == isOpen /\ ~closing

NoLimit == TRUE

HasRoom == Cardinality(pending) < JsPending

-----------------------------------------------------------------------------
(***************************************************************************)
(* write and writev: a write is one request, or a sequence of requests of  *)
(* at most CHUNK_SIZE each, every one after the settlement of the previous *)
(* one.  An immediate attempt is allowed when nothing ordered is unsettled.*)
(***************************************************************************)
AlwaysInline == TRUE

AllowInline == ordered = 0

Broken(vector) == [NoJob EXCEPT !.vector = vector, !.broken = vector]

(* The next request of a write, `rest' being the sizes after it.  It is    *)
(* refused at the limit, and the native call throws after a stop.          *)
WriteRequest(size, rest, vector) ==
  IF HasRoom /\ ~stop
  THEN /\ Write(size, AllowInline)
       /\ ordered' = ordered + 1
       /\ job' = [active |-> TRUE, left |-> rest, id |-> NextId,
                  vector |-> vector, broken |-> FALSE]
  ELSE /\ job' = Broken(vector)
       /\ UNCHANGED <<ordered, nativeVars>>

StartWrite(sizes) ==
  /\ JsIdle /\ Usable /\ ~job.active
  /\ starts' = Append(starts, NextId)
  /\ IF sizes = <<>>
     THEN job' = NoJob /\ UNCHANGED <<ordered, nativeVars>>
     ELSE WriteRequest(Head(sizes), Tail(sizes), Len(sizes) > 1)
  /\ UNCHANGED <<reactorVars, pending, jsReading, settled, creditVars,
                 lifeVars, drains, drained>>

(* The loop of writev goes on in a microtask.                              *)
ContinueWrite ==
  /\ JsIdle /\ job.active /\ job.id = 0
  /\ IF Usable THEN WriteRequest(Head(job.left), Tail(job.left), TRUE)
     ELSE job' = Broken(TRUE) /\ UNCHANGED <<ordered, nativeVars>>
  /\ UNCHANGED <<reactorVars, pending, jsReading, settled, creditVars,
                 lifeVars, drainVars>>

(* The native call returns true when the attempt was complete, and that    *)
(* request is not counted any more.                                        *)
AttemptWrite ==
  /\ WriteAttempt
  /\ IF call'.step = "none"
     THEN /\ ordered' = ordered - 1
          /\ job' = [job EXCEPT !.id = 0, !.active = job.left # <<>>]
     ELSE UNCHANGED <<ordered, job>>
  /\ UNCHANGED <<reactorVars, pending, jsReading, settled, creditVars,
                 lifeVars, drainVars>>

(* The native call returns false, or throws.                               *)
FinishWriteCall ==
  /\ EnqueueRemainder
  /\ IF Admits("write")
     THEN pending' = pending \cup {call.id} /\ UNCHANGED <<ordered, job>>
     ELSE /\ ordered' = ordered - 1 /\ job' = Broken(job.vector)
          /\ pending' = pending
  /\ UNCHANGED <<reactorVars, jsReading, settled, creditVars, lifeVars,
                 drainVars>>

-----------------------------------------------------------------------------
(***************************************************************************)
(* The other operations.  A refused submission rejects its promise and     *)
(* leaves no trace.                                                        *)
(***************************************************************************)
Submitted(op) ==
  IF Admits(op)
  THEN /\ pending' = pending \cup {NextId}
       /\ ordered' = ordered + (IF Ordered(op) THEN 1 ELSE 0)
  ELSE UNCHANGED <<pending, ordered>>

Operation(op) ==
  /\ JsIdle /\ Usable /\ HasRoom
  /\ Request(op) /\ Submitted(op)
  /\ UNCHANGED <<reactorVars, jsReading, job, settled, creditVars, lifeVars,
                 drainVars>>

ReadChunk(size) ==
  /\ JsIdle /\ Usable /\ HasRoom /\ ~jsReading /\ ~jsStreaming
  /\ ReadRequest(Least(size, ChunkSize)) /\ Submitted("read")
  /\ jsReading' = Admits("read")
  /\ UNCHANGED <<reactorVars, job, settled, creditVars, lifeVars, drainVars>>

(* drain awaits the write in progress before it submits its request.       *)
DrainCall ==
  /\ JsIdle
  /\ drains' = Append(drains, Len(starts))
  /\ UNCHANGED <<vars, promiseVars, creditVars, lifeVars, starts, drained>>

DoesNotAwait == TRUE

WriteDone == ~job.active \/ Head(drains) < Len(starts)

DrainContinue ==
  /\ JsIdle /\ drains # <<>> /\ WriteDone
  /\ drains' = Tail(drains)
  /\ IF Usable /\ HasRoom /\ ~(job.broken /\ Head(drains) = Len(starts))
     THEN /\ Request("drain") /\ Submitted("drain")
          /\ drained' = Append(drained, [id |-> NextId, job |-> Head(drains)])
     ELSE UNCHANGED <<nativeVars, pending, ordered, drained>>
  /\ UNCHANGED <<reactorVars, jsReading, job, settled, creditVars, lifeVars,
                 starts>>

(* startReading grants credit when half of the bytes or of the slots of    *)
(* the window are used.                                                    *)
FreeSlots == ReadSlots - readSlots

FullWindow(size) == size

FreeBytes(size) == size - readBytes

BytesOnly(size) == 2 * readBytes <= size

Refills(size) == 2 * readBytes <= size \/ 2 * readSlots <= ReadSlots

StartReading(length) ==
  LET size == Least(length, ChunkSize)
      bytes == FreeBytes(size)
      slots == FreeSlots
  IN  /\ JsIdle /\ Usable /\ ~jsReading
      /\ jsStreaming' = TRUE
      /\ IF Refills(size) /\ bytes > 0 /\ slots > 0
         THEN /\ ReadCredit(bytes, slots)
              /\ IF Admits("credit")
                 THEN readBytes' = readBytes + bytes
                      /\ readSlots' = readSlots + slots
                 ELSE UNCHANGED <<readBytes, readSlots>>
         ELSE UNCHANGED <<nativeVars, readBytes, readSlots>>
      /\ UNCHANGED <<reactorVars, promiseVars, backlog, lifeVars, drainVars>>

-----------------------------------------------------------------------------
(***************************************************************************)
(* Closing, before and after the port is open.                             *)
(***************************************************************************)
CloseCall ==
  /\ Usable /\ Close
  /\ closing' = TRUE /\ isOpen' = FALSE
  /\ closed' = IF finished THEN "resolved" ELSE "waiting"
  /\ UNCHANGED <<reactorVars, promiseVars, creditVars, opened, finished,
                 drainVars>>

(* cancelOpen may be called at any time, after the open too.  On a port    *)
(* that is finished the stop changes nothing.                              *)
CancelOpen ==
  /\ Close
  /\ closing' = TRUE
  /\ UNCHANGED <<reactorVars, promiseVars, creditVars, opened, isOpen,
                 finished, closed, drainVars>>

-----------------------------------------------------------------------------
(***************************************************************************)
(* The native callback.                                                    *)
(***************************************************************************)
OnOpen ==
  /\ IF closing THEN UNCHANGED <<isOpen, opened>>
     ELSE isOpen' = TRUE /\ opened' = "resolved"
  /\ UNCHANGED <<promiseVars, creditVars, closing, finished, closed>>

(* Reads wait in a FIFO for their microtask.                               *)
OnData(event) ==
  /\ backlog' = backlog \o event.chunks
  /\ UNCHANGED <<promiseVars, jsStreaming, readBytes, readSlots, lifeVars>>

(* A promise is settled, and what awaits it goes on.                       *)
Outcome(id, result) == [id |-> id, result |-> result]

AfterReply(id) == pending \ {id}

StillOrdered(id) == ordered

OrderedAfter(id) == ordered - (IF Ordered(requests[id].op) THEN 1 ELSE 0)

OnReply(event) ==
  LET id == event.id
      ok == event.kind \in {"ok", "read"}
  IN  /\ IF id \in pending
         THEN /\ pending' = AfterReply(id)
              /\ ordered' = OrderedAfter(id)
              /\ settled' = Append(settled, Outcome(id, event.kind))
              /\ jsReading' = (jsReading /\ requests[id].op # "read")
              /\ job' = IF job.active /\ job.id = id
                        THEN IF ok THEN [job EXCEPT !.id = 0,
                                                    !.active = job.left # <<>>]
                             ELSE Broken(TRUE)
                        ELSE job
         ELSE UNCHANGED promiseVars
      /\ UNCHANGED <<creditVars, lifeVars>>

(* _finishClose: everything that is unsettled is rejected.  An unexpected  *)
(* close leaves isOpen set, so that the stream can acknowledge it.         *)
LeavesPending == UNCHANGED <<pending, settled>>

Ascending(ids) ==
  {s \in [1 .. Cardinality(ids) -> ids] :
     \A i, j \in DOMAIN s : i < j => s[i] < s[j]}

RejectPending ==
  /\ pending' = {}
  /\ \E ids \in Ascending(pending) :
       settled' = settled \o [i \in DOMAIN ids |-> Outcome(ids[i], "closed")]

OnClose ==
  /\ ~finished /\ finished' = TRUE
  /\ opened' = IF opened = "pending" THEN "rejected" ELSE opened
  /\ RejectPending
  /\ ordered' = 0 /\ jsReading' = FALSE
  /\ job' = IF job.active /\ job.id # 0 THEN Broken(TRUE) ELSE job
  /\ closed' = IF closed = "waiting" THEN "resolved" ELSE closed
  /\ UNCHANGED <<creditVars, isOpen, closing>>

Callback ==
  LET event == callbacks[consumed + 1]
  IN  /\ Consume
      /\ \/ event.kind = "open" /\ OnOpen
         \/ event.kind = "data" /\ OnData(event)
         \/ event.kind \in {"ok", "error", "busy", "read"} /\ OnReply(event)
         \/ event.kind = "close" /\ OnClose
      /\ UNCHANGED <<reactorVars, drainVars>>

(* One chunk is delivered to onData, or dropped by a closed port.          *)
KeepsCredit == UNCHANGED <<readBytes, readSlots>>

ReturnCredit ==
  /\ readBytes' = readBytes - Head(backlog)[2]
  /\ readSlots' = readSlots - 1

Deliver ==
  /\ JsIdle /\ backlog # <<>>
  /\ backlog' = Tail(backlog)
  /\ IF isOpen THEN ReturnCredit ELSE UNCHANGED <<readBytes, readSlots>>
  /\ UNCHANGED <<vars, promiseVars, jsStreaming, lifeVars, drainVars>>
=============================================================================

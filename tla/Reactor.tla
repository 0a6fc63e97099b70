------------------------------- MODULE Reactor -------------------------------
(***************************************************************************)
(* The I/O task of one port (reactor.rs): it opens the device, executes    *)
(* the ordered commands one at a time, moves bytes in both directions, and *)
(* releases the descriptor before it publishes the close event.  `pc' is   *)
(* the place between two steps where other threads can move:               *)
(*                                                                         *)
(*   opening    the blocking open                                          *)
(*   opened     the session is published, stop not yet checked             *)
(*   top        the head of the outer loop                                 *)
(*   front      the loop over the front of the ordered commands            *)
(*   answer     a command is done and accounted, its event not yet sent    *)
(*   draining   the blocking physical drain, which holds the mutex         *)
(*   select     the task waits                                             *)
(*   poll       no notification and no command were ready: transfers       *)
(*   burst      collecting ready reads under the mutex                     *)
(*   ended, release, closing, done    the drop of Completion               *)
(***************************************************************************)
EXTENDS NativePort

CONSTANTS
  BurstLimit,  \* READ_BURST_LIMIT
  InitSize,    \* the initial read size, 1024
  MinSize,     \* the least read size, 64
  SmallRead    \* a partial read shorter than this ends no burst, 1024

(* The powers of two that a read size can have.                            *)
Powers == {1, 2, 4, 8, 16, 32, 64, 128, 256, 512, 1024, 2048, 4096, 8192,
           16384, 32768, 65536}

Sizes == Powers \cap (MinSize .. ChunkSize)

ASSUME ReactorAssumption ==
  /\ BurstLimit \in Nat \ {0} /\ SmallRead \in Nat
  /\ MinSize \in Sizes /\ InitSize \in Sizes /\ ChunkSize \in Sizes

VARIABLES
  pc,
  commands,    \* the ordered commands the task has received
  written,     \* units of the front write that were transferred
  read,        \* the pending single-shot read: <<>> or <<id, size>>
  streaming,   \* a read credit was received
  window,      \* the credit left, and the size of the next read
  writeFirst,  \* TransferPoller.write_first
  answer,      \* the event that pc = "answer" sends
  batch,       \* the chunks collected by a burst
  failure,     \* whether the task ended with an error
  arrived,     \* input bytes that reached the driver
  obtained,    \* history: the chunks taken from the driver, in order
  position,    \* the last input byte that was taken or flushed
  uart         \* units that left the driver's queue and are not sent yet

taskVars == <<pc, commands, written, read, streaming, window, writeFirst,
              answer, batch, failure>>
deviceVars == <<arrived, obtained, position, uart>>
reactorVars == <<taskVars, deviceVars>>
vars == <<nativeVars, reactorVars>>

NoEvent == [kind |-> "open", id |-> 0, failed |-> FALSE, chunks |-> <<>>]
Reply(kind, id) == [NoEvent EXCEPT !.kind = kind, !.id = id]
Data(chunks) == [NoEvent EXCEPT !.kind = "data", !.chunks = chunks]

InitReactor ==
  /\ pc = "opening"
  /\ commands = <<>> /\ written = 0 /\ read = <<>> /\ streaming = FALSE
  /\ window = [bytes |-> 0, slots |-> 0, size |-> InitSize]
  /\ writeFirst = FALSE
  /\ answer = NoEvent /\ batch = <<>> /\ failure = FALSE
  /\ arrived = 0 /\ obtained = <<>> /\ position = 0 /\ uart = 0

Init == InitNative /\ InitReactor

(* What no step of the task changes.                                       *)
jsVars == <<consumed, env, call, notifyDue, requests, granted>>
controlVars == <<stop, permit, pendingOps, session, lock>>
queueVars == <<channel, receiving>>
outVars == <<taken, queued, gone>>
inVars == <<arrived, obtained, position>>

(* send: publish event e and go on at `next', or leave run_open when the   *)
(* callback refuses it.                                                    *)
Send(e, next) ==
  IF CanSend
  THEN callbacks' = Append(callbacks, e) /\ pc' = next
  ELSE callbacks' = callbacks /\ pc' = "ended"

-----------------------------------------------------------------------------
(***************************************************************************)
(* Opening.                                                                *)
(***************************************************************************)
Opened ==
  /\ pc = "opening"
  /\ session' = "open"
  /\ pc' = "opened"
  /\ UNCHANGED <<stop, permit, pendingOps, lock, queueVars, callbacks, jsVars,
                 outVars, commands, written, read, streaming, window,
                 writeFirst, answer, batch, failure, deviceVars>>

OpenFailed ==
  /\ pc = "opening"
  /\ failure' = TRUE
  /\ pc' = "completing"
  /\ UNCHANGED <<controlVars, queueVars, callbacks, jsVars, outVars, commands,
                 written, read, streaming, window, writeFirst, answer, batch,
                 deviceVars>>

(* The port is published first; a stop during the open is seen here.       *)
PublishOpen ==
  /\ pc = "opened"
  /\ IF ~stop /\ CanSend
     THEN callbacks' = Append(callbacks, NoEvent) /\ pc' = "top"
     ELSE callbacks' = callbacks /\ pc' = "completing"
  /\ UNCHANGED <<controlVars, queueVars, jsVars, outVars, commands, written,
                 read, streaming, window, writeFirst, answer, batch, failure,
                 deviceVars>>

-----------------------------------------------------------------------------
(***************************************************************************)
(* The ordered commands, executed from the front one at a time.            *)
(***************************************************************************)
CheckStop ==
  /\ pc = "top"
  /\ pc' = IF stop THEN "ended" ELSE "front"
  /\ UNCHANGED <<controlVars, queueVars, callbacks, jsVars, outVars, commands,
                 written, read, streaming, window, writeFirst, answer, batch,
                 failure, deviceVars>>

FrontCommand == Head(commands)
FrontIs(op) == commands # <<>> /\ FrontCommand.op = op
Remaining == FrontCommand.size - FrontCommand.from - written

WritePending == FrontIs("write") /\ Remaining > 0
Draining == FrontIs("drain")

(* bytes_to_write: what the driver's queue holds.                          *)
QueueEmpty == queued = 0

(* Stopped, nothing left to execute, or the front command has to wait for  *)
(* the device.                                                             *)
LeaveFront ==
  /\ pc = "front"
  /\ \/ commands # <<>> /\ stop /\ pc' = "ended" /\ failure' = failure
     \/ commands = <<>> /\ pc' = "select" /\ failure' = failure
     \/ /\ ~stop /\ WritePending /\ pc' = "select" /\ failure' = failure
     \/ /\ ~stop /\ Draining
        /\ IF gone THEN pc' = "ended" /\ failure' = TRUE
           ELSE ~QueueEmpty /\ pc' = "select" /\ failure' = failure
  /\ UNCHANGED <<controlVars, queueVars, callbacks, jsVars, outVars, commands,
                 written, read, streaming, window, writeFirst, answer, batch,
                 deviceVars>>

(* The front command is done: it is accounted before its event is sent, so *)
(* that JavaScript can submit a successor as soon as it sees the event.    *)
Retire(event) ==
  /\ commands' = Tail(commands)
  /\ pendingOps' = pendingOps - 1
  /\ answer' = event
  /\ pc' = "answer"

KeepWritten == written

AfterWrite == 0

FinishWrite ==
  /\ pc = "front" /\ ~stop
  /\ FrontIs("write") /\ Remaining = 0
  /\ written' = AfterWrite
  /\ Retire(Reply("ok", FrontCommand.id))
  /\ UNCHANGED <<stop, permit, session, lock, queueVars, callbacks, jsVars,
                 outVars, read, streaming, window, writeFirst, batch, failure,
                 deviceVars>>

(* A control reads or changes line settings, whose state is not modelled.  *)
Control ==
  /\ pc = "front" /\ ~stop
  /\ FrontIs("control")
  /\ \E kind \in {"ok", "error"} :
        (kind = "ok" => ~gone) /\ Retire(Reply(kind, FrontCommand.id))
  /\ UNCHANGED <<stop, permit, session, lock, queueVars, callbacks, jsVars,
                 outVars, written, read, streaming, window, writeFirst, batch,
                 failure, deviceVars>>

(* Flush discards what the driver holds in both directions.                *)
Flush ==
  /\ pc = "front" /\ ~stop
  /\ FrontIs("flush")
  /\ \/ /\ ~gone
        /\ queued' = 0 /\ position' = arrived
        /\ Retire(Reply("ok", FrontCommand.id))
     \/ /\ UNCHANGED <<queued, position>>
        /\ Retire(Reply("error", FrontCommand.id))
  /\ UNCHANGED <<stop, permit, session, lock, queueVars, callbacks, jsVars,
                 taken, gone, written, read, streaming, window, writeFirst,
                 batch, failure, arrived, obtained, uart>>

(* The driver's queue is empty: the physical drain runs on a blocking      *)
(* thread, holds the mutex, and the task waits for it.                     *)
StartDrain ==
  /\ pc = "front" /\ ~stop
  /\ Draining /\ ~gone /\ QueueEmpty
  /\ lock' = "drain"
  /\ pc' = "draining"
  /\ UNCHANGED <<stop, permit, pendingOps, session, queueVars, callbacks,
                 jsVars, outVars, commands, written, read, streaming, window,
                 writeFirst, answer, batch, failure, deviceVars>>

QueueOnly == queued = 0

Drained == queued = 0 /\ uart = 0

FinishDrain ==
  /\ pc = "draining"
  /\ \/ Drained /\ Retire(Reply("ok", FrontCommand.id))
     \/ Retire(Reply("error", FrontCommand.id))
  /\ lock' = "free"
  /\ UNCHANGED <<stop, permit, session, queueVars, callbacks, jsVars, outVars,
                 written, read, streaming, window, writeFirst, batch, failure,
                 deviceVars>>

SendAnswer ==
  /\ pc = "answer"
  /\ Send(answer, IF answer.kind = "busy" THEN "top" ELSE "front")
  /\ answer' = NoEvent
  /\ UNCHANGED <<controlVars, queueVars, jsVars, outVars, commands, written,
                 read, streaming, window, writeFirst, batch, failure,
                 deviceVars>>

-----------------------------------------------------------------------------
(***************************************************************************)
(* The select: a notification first, then a command, then a transfer, and  *)
(* the timer of a drain last.  `poll' is reached when the first two were   *)
(* not ready; they may become ready before the transfer is tried.          *)
(***************************************************************************)
Notified ==
  /\ pc = "select" /\ permit
  /\ permit' = FALSE
  /\ pc' = "top"
  /\ UNCHANGED <<stop, pendingOps, session, lock, queueVars, callbacks, jsVars,
                 outVars, commands, written, read, streaming, window,
                 writeFirst, answer, batch, failure, deviceVars>>

ReceivableUnlessFull ==
  /\ pc = "select" /\ ~permit /\ channel # <<>>
  /\ Len(commands) < MaxPending

Receivable == pc = "select" /\ ~permit /\ channel # <<>>

QueueFirst(c) == <<c>> \o commands

Queue(c) == Append(commands, c)

ReceiveOrdered ==
  /\ Receivable /\ Ordered(Head(channel).op)
  /\ channel' = Tail(channel)
  /\ commands' = Queue(Head(channel))
  /\ pc' = "top"
  /\ UNCHANGED <<controlVars, receiving, callbacks, jsVars, outVars, written,
                 read, streaming, window, writeFirst, answer, batch, failure,
                 deviceVars>>

ReceiveRead ==
  /\ Receivable /\ Head(channel).op = "read"
  /\ channel' = Tail(channel)
  /\ IF read # <<>> \/ streaming
     THEN /\ answer' = Reply("busy", Head(channel).id)
          /\ pc' = "answer" /\ read' = read
     ELSE /\ read' = <<Head(channel).id, Head(channel).size>>
          /\ pc' = "top" /\ answer' = answer
  /\ UNCHANGED <<controlVars, receiving, callbacks, jsVars, outVars, commands,
                 written, streaming, window, writeFirst, batch, failure,
                 deviceVars>>

(* A credit that overflows the window ends the session.                    *)
Exceeds(w) == w.bytes > ChunkSize \/ w.slots > ReadSlots

ReceiveCredit ==
  /\ Receivable /\ Head(channel).op = "credit"
  /\ channel' = Tail(channel)
  /\ window' = [window EXCEPT !.bytes = @ + Head(channel).size,
                              !.slots = @ + Head(channel).slots]
  /\ IF read # <<>> \/ Exceeds(window')
     THEN failure' = TRUE /\ pc' = "ended" /\ streaming' = streaming
     ELSE failure' = failure /\ pc' = "top" /\ streaming' = TRUE
  /\ UNCHANGED <<controlVars, receiving, callbacks, jsVars, outVars, commands,
                 written, read, writeFirst, answer, batch, deviceVars>>

-----------------------------------------------------------------------------
(***************************************************************************)
(* Transfers (transfer.rs): a ready direction, the other one than last     *)
(* time when both are ready.  A lost device is ready and fails.            *)
(***************************************************************************)
Available == arrived - position

ReadLimit ==
  IF read # <<>> THEN read[2]
  ELSE IF window.slots > 0 THEN window.bytes ELSE 0

ReadCapacity == Least(ReadLimit, window.size)

ReadReady == ReadCapacity > 0 /\ (Available > 0 \/ gone)
WriteReady == WritePending /\ (queued < OutCap \/ gone)

PicksRead == ReadReady /\ ~(writeFirst /\ WriteReady)
PicksWrite == WriteReady /\ ~PicksRead

PollTransfers ==
  /\ pc = "select" /\ ~permit /\ channel = <<>>
  /\ ReadReady \/ WriteReady \/ Draining
  /\ pc' = "poll"
  /\ UNCHANGED <<controlVars, queueVars, callbacks, jsVars, outVars, commands,
                 written, read, streaming, window, writeFirst, answer, batch,
                 failure, deviceVars>>

(* Nothing is ready after all; a drain looks at the queue again in 1 ms.   *)
WaitAgain == "select"

AfterIdlePoll == IF Draining THEN "top" ELSE "select"

NothingReady ==
  /\ pc = "poll" /\ ~ReadReady /\ ~WriteReady
  /\ pc' = AfterIdlePoll
  /\ UNCHANGED <<controlVars, queueVars, callbacks, jsVars, outVars, commands,
                 written, read, streaming, window, writeFirst, answer, batch,
                 failure, deviceVars>>

(* An error, or a transfer of no bytes: the device disconnected.           *)
TransferFailed ==
  /\ pc = "poll" /\ gone /\ (ReadReady \/ WriteReady)
  /\ failure' = TRUE
  /\ pc' = "ended"
  /\ UNCHANGED <<controlVars, queueVars, callbacks, jsVars, outVars, commands,
                 written, read, streaming, window, writeFirst, answer, batch,
                 deviceVars>>

TransferWrite ==
  /\ pc = "poll" /\ PicksWrite /\ ~gone
  /\ LET n == Fitting(Remaining)
     IN  /\ Accept(FrontCommand.id, FrontCommand.from + written, n)
         /\ written' = written + n
  /\ writeFirst' = FALSE
  /\ pc' = "top"
  /\ UNCHANGED <<controlVars, queueVars, callbacks, jsVars, gone, commands,
                 read, streaming, window, answer, batch, failure, deviceVars>>

(* What a read of n bytes with room for `capacity' leaves: a full read     *)
(* doubles the size of the next one, a partial one adapts to the input.    *)
RoundUp(n) == CHOOSE s \in Sizes : n <= s /\ \A t \in Sizes : n <= t => s <= t

NextSize(n, capacity) ==
  IF n = capacity THEN Least(window.size * 2, ChunkSize) ELSE RoundUp(n)

KeepsSlots(n, capacity) ==
  [bytes |-> window.bytes - n, slots |-> window.slots,
   size |-> NextSize(n, capacity)]

Charge(n, capacity) ==
  [bytes |-> window.bytes - n, slots |-> window.slots - 1,
   size |-> NextSize(n, capacity)]

Chunk(n) == <<position + 1, n>>

Take(n) ==
  /\ obtained' = Append(obtained, Chunk(n))
  /\ position' = position + n

(* A single-shot read answers with what one transfer returned.             *)
TransferRead ==
  /\ pc = "poll" /\ PicksRead /\ ~gone /\ ~streaming
  /\ LET n == Least(ReadCapacity, Available)
     IN  /\ Take(n)
         /\ window' = [window EXCEPT !.size = NextSize(n, ReadCapacity)]
         /\ Send([Reply("read", read[1]) EXCEPT !.chunks = <<Chunk(n)>>], "top")
  /\ read' = <<>>
  /\ writeFirst' = TRUE
  /\ UNCHANGED <<controlVars, queueVars, jsVars, outVars, commands, written,
                 streaming, answer, batch, failure, arrived, uart>>

(* A large or a full read probably left input behind, and followers are    *)
(* collected unless writes or controls wait.                               *)
Promising(n) ==
  /\ ~WritePending /\ pendingOps = 0
  /\ n = ReadCapacity \/ n >= SmallRead

BytesSpent(w) == w.bytes = 0

Spent(w) == w.bytes = 0 \/ w.slots = 0

TransferStream ==
  /\ pc = "poll" /\ PicksRead /\ ~gone /\ streaming
  /\ LET n == Least(ReadCapacity, Available)
         burst == Promising(n) /\ ~Spent(Charge(n, ReadCapacity)) /\ CanSend
     IN  /\ Take(n)
         /\ window' = Charge(n, ReadCapacity)
         /\ Send(Data(<<Chunk(n)>>), IF burst THEN "burst" ELSE "top")
         /\ lock' = IF burst THEN "burst" ELSE lock
  /\ writeFirst' = TRUE
  /\ UNCHANGED <<stop, permit, pendingOps, session, queueVars, jsVars, outVars,
                 commands, written, read, streaming, answer, batch, failure,
                 arrived, uart>>

-----------------------------------------------------------------------------
(***************************************************************************)
(* A burst: one hold of the mutex, chunks into a private batch, published  *)
(* as one event after the mutex is released.                               *)
(***************************************************************************)
BurstContinues ==
  /\ ~stop /\ pendingOps = 0 /\ ~Spent(window)
  /\ Len(batch) < BurstLimit - 1

BurstRead ==
  /\ pc = "burst" /\ BurstContinues
  /\ ~gone /\ Available > 0
  /\ LET capacity == Least(window.bytes, window.size)
         n == Least(capacity, Available)
     IN  /\ Take(n)
         /\ batch' = Append(batch, Chunk(n))
         /\ window' = Charge(n, capacity)
  /\ UNCHANGED <<controlVars, queueVars, callbacks, jsVars, outVars, pc,
                 commands, written, read, streaming, writeFirst, answer,
                 failure, arrived, uart>>

(* The loop ends on one of its conditions, for lack of input, and whenever *)
(* the task's cooperative budget or an interruption says so; an error of a *)
(* later read is reported after what the earlier ones obtained.            *)
Dropped(broken) == IF broken THEN <<>> ELSE batch

Followers(broken) == batch

BurstEnd ==
  /\ pc = "burst"
  /\ lock' = "free"
  /\ batch' = <<>>
  /\ \E broken \in {b \in BOOLEAN : b => BurstContinues /\ gone} :
       LET next == IF broken THEN "ended" ELSE "top"
           followers == Followers(broken)
       IN  /\ IF followers = <<>> THEN callbacks' = callbacks /\ pc' = next
              ELSE Send(Data(followers), next)
           /\ failure' = (broken /\ (followers = <<>> \/ CanSend))
  /\ UNCHANGED <<stop, permit, pendingOps, session, queueVars, jsVars, outVars,
                 commands, written, read, streaming, window, writeFirst, answer,
                 deviceVars>>

-----------------------------------------------------------------------------
(***************************************************************************)
(* The end: run_open drops the receiver and all commands; Completion then  *)
(* marks the port stopped, releases the descriptor and reports.            *)
(***************************************************************************)
DropReceiver ==
  /\ pc = "ended"
  /\ receiving' = FALSE /\ channel' = <<>> /\ commands' = <<>>
  /\ pc' = "completing"
  /\ UNCHANGED <<controlVars, callbacks, jsVars, outVars, written, read,
                 streaming, window, writeFirst, answer, batch, failure,
                 deviceVars>>

MarkStopped ==
  /\ pc = "completing"
  /\ stop' = TRUE
  /\ pc' = "releasing"
  /\ UNCHANGED <<permit, pendingOps, session, lock, queueVars, callbacks,
                 jsVars, outVars, commands, written, read, streaming, window,
                 writeFirst, answer, batch, failure, deviceVars>>

KeptOpen == session

AfterRelease == "released"

Release ==
  /\ pc = "releasing"
  /\ session' = AfterRelease
  /\ pc' = "closing"
  /\ UNCHANGED <<stop, permit, pendingOps, lock, queueVars, callbacks, jsVars,
                 outVars, commands, written, read, streaming, window,
                 writeFirst, answer, batch, failure, deviceVars>>

SendClose ==
  /\ pc = "closing"
  /\ callbacks' = IF CanSend
                  THEN Append(callbacks, [NoEvent EXCEPT !.kind = "close",
                                                         !.failed = failure])
                  ELSE callbacks
  /\ receiving' = FALSE /\ channel' = <<>>
  /\ pc' = "done"
  /\ UNCHANGED <<controlVars, jsVars, outVars, commands, written, read,
                 streaming, window, writeFirst, answer, batch, failure,
                 deviceVars>>

Task ==
  \/ Opened \/ OpenFailed \/ PublishOpen
  \/ CheckStop \/ LeaveFront \/ FinishWrite \/ Control \/ Flush
  \/ StartDrain \/ FinishDrain \/ SendAnswer
  \/ Notified \/ ReceiveOrdered \/ ReceiveRead \/ ReceiveCredit
  \/ PollTransfers \/ NothingReady \/ TransferFailed
  \/ TransferWrite \/ TransferRead \/ TransferStream
  \/ BurstRead \/ BurstEnd
  \/ DropReceiver \/ MarkStopped \/ Release \/ SendClose

-----------------------------------------------------------------------------
(***************************************************************************)
(* The device: input arrives, output leaves the queue and then the UART,   *)
(* and the device may disappear.                                           *)
(***************************************************************************)
Arrive ==
  /\ session = "open" /\ ~gone
  /\ arrived' = arrived + 1
  /\ UNCHANGED <<nativeVars, taskVars, obtained, position, uart>>

Transmit ==
  /\ queued > 0 /\ uart = 0 /\ ~gone
  /\ queued' = queued - 1
  /\ uart' = 1
  /\ UNCHANGED <<controlVars, queueVars, callbacks, jsVars, taken, gone,
                 taskVars, inVars>>

Shift ==
  /\ uart > 0
  /\ uart' = 0
  /\ UNCHANGED <<nativeVars, taskVars, inVars>>

Lose ==
  /\ session = "open" /\ ~gone
  /\ gone' = TRUE
  /\ UNCHANGED <<controlVars, queueVars, callbacks, jsVars, taken, queued,
                 reactorVars>>
=============================================================================

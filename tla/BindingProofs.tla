---------------------------- MODULE BindingProofs ----------------------------
(***************************************************************************)
(* BindingPort over the native port, for every value of the constants and  *)
(* any caller: promises settle once, the two layers agree on admission and *)
(* on read credit, completions keep their order, a drain covers the writes *)
(* before it, no input is lost, and sessions fail only with the device.    *)
(***************************************************************************)
EXTENDS BindingSystem, AnyClientProofs, SequenceLemmas

(* To the native port, BindingPort is one of its clients.                  *)
LEMMA WriteCalls ==
  ASSUME NEW sizes \in Writes, StartWrite(sizes) \/ ContinueWrite
  PROVE  (AnyCall \/ UNCHANGED nativeVars) /\ UNCHANGED reactorVars
<1>1. ASSUME NEW size, NEW rest, NEW vector, WriteRequest(size, rest, vector)
      PROVE  AnyCall \/ UNCHANGED nativeVars
  <2>1. AllowInline \in BOOLEAN
    BY DEF AllowInline
  <2> QED
    BY <1>1, <2>1 DEF WriteRequest, Write, AnyCall
<1> QED
  BY <1>1 DEF StartWrite, ContinueWrite

LEMMA NextSplits ==
  ASSUME [Next]_allVars
  PROVE  \/ AnyCall /\ UNCHANGED reactorVars
         \/ (Task \/ OfDevice \/ UNCHANGED vars) /\ UNCHANGED bindingVars
         \/ UNCHANGED vars
<1>1. CASE UNCHANGED allVars
  BY <1>1 DEF allVars
<1>2. ASSUME NEW sizes \in Writes, StartWrite(sizes)
      PROVE  (AnyCall /\ UNCHANGED reactorVars) \/ UNCHANGED vars
  BY <1>2, WriteCalls DEF vars
<1>3. CASE ContinueWrite
  <2>1. CASE IF Usable
             THEN WriteRequest(Head(job.left), Tail(job.left), TRUE)
             ELSE UNCHANGED nativeVars
    <3>1. AllowInline \in BOOLEAN
      BY DEF AllowInline
    <3> QED
      BY <1>3, <2>1, <3>1 DEF ContinueWrite, WriteRequest, Write, AnyCall, vars
  <2> QED
    BY <1>3, <2>1 DEF ContinueWrite
<1>4. ASSUME NEW op, Operation(op) PROVE AnyCall /\ UNCHANGED reactorVars
  BY <1>4 DEF Operation, Request, OrderedOps, AnyCall
<1>5. ASSUME NEW size, ReadChunk(size) PROVE AnyCall /\ UNCHANGED reactorVars
  BY <1>5 DEF ReadChunk, ReadRequest, AnyCall
<1>6. ASSUME NEW length, StartReading(length)
      PROVE  (AnyCall /\ UNCHANGED reactorVars) \/ UNCHANGED vars
  BY <1>6 DEF StartReading, ReadCredit, AnyCall, vars
<1>7. CASE DrainCall \/ Deliver
  BY <1>7 DEF DrainCall, Deliver
<1>8. CASE CloseCall \/ CancelOpen \/ AttemptWrite \/ FinishWriteCall
  BY <1>8 DEF CloseCall, CancelOpen, AttemptWrite, FinishWriteCall, AnyCall
<1>9. CASE DrainContinue
  BY <1>9 DEF DrainContinue, Request, OrderedOps, AnyCall, vars
<1>10. CASE Callback \/ (Notify /\ UNCHANGED <<reactorVars, bindingVars>>)
  BY <1>10 DEF Callback, AnyCall
<1>11. CASE (Task /\ UNCHANGED bindingVars) \/ Device \/ Rest
  BY <1>11 DEF Device, Rest, OfDevice, allVars
<1> QED
  BY <1>1, <1>2, <1>3, <1>4, <1>5, <1>6, <1>7, <1>8, <1>9, <1>10, <1>11
  DEF Next, Caller, Pump

LEMMA NextConforms == [Next]_allVars => [AnyStep]_vars
BY NextSplits DEF AnyStep

(* Hence all that holds of a native port under any client holds here.      *)
THEOREM BindingConforms == Spec => AnySpec
<1>1. BindingInit => Init
  BY DEF BindingInit
<1> QED
  BY <1>1, NextConforms, PTL DEF Spec, AnySpec

NativeInv == Inv /\ Shape /\ Closing /\ Wire /\ Settling /\ AnswersExact

LEMMA NativeHolds ==
  /\ Init => NativeInv
  /\ NativeInv /\ [AnyStep]_vars => NativeInv'
  BY InitInv, InitShape, InitClosing, InitWire, InitSettling, NextInv,
     NextShape, NextClosing, NextWire, NextSettling
  DEF NativeInv

LEMMA StillNative == Spec => []NativeInv
  BY BindingConforms, NativeHolds, PTL DEF AnySpec
-----------------------------------------------------------------------------
(* What the task leaves to JavaScript, and a client to the task.           *)
LEMMA TaskKeeps == ASSUME Task PROVE UNCHANGED jsVars
<1>1. CASE \/ Opened \/ OpenFailed \/ PublishOpen \/ CheckStop \/ LeaveFront
           \/ FinishWrite \/ Control \/ Flush \/ StartDrain \/ FinishDrain
           \/ SendAnswer \/ Notified \/ ReceiveOrdered \/ ReceiveRead
  BY <1>1
  DEF Opened, OpenFailed, PublishOpen, CheckStop, LeaveFront, FinishWrite,
      Control, Flush, StartDrain, FinishDrain, SendAnswer, Notified,
      ReceiveOrdered, ReceiveRead
<1>2. CASE \/ ReceiveCredit \/ PollTransfers \/ NothingReady
           \/ TransferFailed \/ TransferWrite \/ TransferRead
           \/ TransferStream \/ BurstRead \/ BurstEnd \/ DropReceiver
           \/ MarkStopped \/ Release \/ SendClose
  BY <1>2
  DEF ReceiveCredit, PollTransfers, NothingReady, TransferFailed,
      TransferWrite, TransferRead, TransferStream, BurstRead, BurstEnd,
      DropReceiver, MarkStopped, Release, SendClose
<1> QED
  BY <1>1, <1>2 DEF Task

(* A step of the task that moves nothing between the queues, one that      *)
(* retires the front command, or one of those that do.                     *)
Quiet ==
  /\ UNCHANGED <<channel, receiving, callbacks, commands, read, streaming,
                 window, batch, obtained, answer>>
  /\ pc # "burst"
  /\ pc \in Over => pc' \in Over
  /\ pc' \notin {"opening", "answer", "burst", "done"}
  /\ pc' = "opened" => pc = "opening"
  /\ failure' = failure \/ (failure' /\ (gone \/ pc = "opening"))

Retires ==
  /\ UNCHANGED <<channel, receiving, callbacks, read, streaming, window, batch,
                 obtained, failure>>
  /\ pc \in {"front", "draining"} /\ pc' = "answer"
  /\ commands # <<>> /\ commands' = Tail(commands)
  /\ \E kind \in {"ok", "error"} : answer' = Reply(kind, FrontCommand.id)

LEMMA TaskEffect ==
  ASSUME NativeInv, Task
  PROVE  \/ Quiet \/ Retires \/ PublishOpen \/ SendAnswer \/ ReceiveOrdered
         \/ ReceiveRead \/ ReceiveCredit \/ TransferRead \/ TransferStream
         \/ BurstRead \/ BurstEnd \/ DropReceiver \/ SendClose
<1> USE DEF queueVars, deviceVars, inVars, Over, Ended
<1>1. CASE Opened \/ OpenFailed \/ CheckStop \/ StartDrain
  BY <1>1 DEF Opened, OpenFailed, CheckStop, StartDrain, Quiet
<1>2. CASE LeaveFront
  BY <1>2 DEF LeaveFront, Quiet
<1>3. CASE Notified \/ PollTransfers \/ NothingReady \/ TransferFailed
  BY <1>3 DEF Notified, PollTransfers, NothingReady, TransferFailed,
              AfterIdlePoll, Quiet
<1>4. CASE TransferWrite \/ MarkStopped \/ Release
  BY <1>4 DEF TransferWrite, MarkStopped, Release, Quiet
<1>5. CASE FinishWrite \/ Control
  BY <1>5 DEF FinishWrite, Control, FrontIs, Retire, Retires
<1>6. CASE Flush
  BY <1>6 DEF Flush, FrontIs, Retire, Retires
<1>7. CASE FinishDrain
  <2>1. commands # <<>>
    BY <1>7 DEF FinishDrain, NativeInv, Inv, Places
  <2> QED
    BY <1>7, <2>1 DEF FinishDrain, Retire, Retires
<1> QED
  BY <1>1, <1>2, <1>3, <1>4, <1>5, <1>6, <1>7 DEF Task

(* The events that a step of the task publishes: at most one, and only     *)
(* after a step that leaves run_open is none published.                    *)
LEMMA Publication ==
  ASSUME NativeInv, Task
  PROVE  \/ callbacks' = callbacks
         \/ \E e \in Event :
              /\ callbacks' = Append(callbacks, e)
              /\ \/ PublishOpen /\ e = NoEvent
                 \/ SendAnswer /\ e = answer
                 \/ /\ TransferRead /\ e.kind = "read" /\ e.id = read[1]
                    /\ e.chunks = <<Chunk(Least(ReadCapacity, Available))>>
                 \/ /\ TransferStream
                    /\ e = Data(<<Chunk(Least(ReadCapacity, Available))>>)
                 \/ BurstEnd /\ e = Data(batch)
                 \/ SendClose /\ e.kind = "close" /\ e.chunks = <<>>
<1> DEFINE chunk == <<Chunk(Least(ReadCapacity, Available))>>
<1>1. /\ answer \in Event /\ NoEvent \in Event /\ batch \in ChunkSeq
      /\ failure \in BOOLEAN
  BY NoEventType DEF NativeInv, Shape, TaskTypes
<1>2. CASE Quiet \/ Retires
  BY <1>2 DEF Quiet, Retires
<1>3. CASE ReceiveOrdered \/ ReceiveRead \/ ReceiveCredit
  BY <1>3 DEF ReceiveOrdered, ReceiveRead, ReceiveCredit
<1>4. CASE BurstRead \/ DropReceiver
  BY <1>4 DEF BurstRead, DropReceiver
<1>5. CASE PublishOpen
  BY <1>1, <1>5 DEF PublishOpen
<1>6. CASE SendAnswer
  BY <1>1, <1>6 DEF SendAnswer, Send
<1>7. CASE SendClose
  <2> DEFINE e == [NoEvent EXCEPT !.kind = "close", !.failed = failure]
  <2>1. e \in Event /\ e.kind = "close" /\ e.chunks = <<>>
    BY <1>1 DEF NoEvent, Event, EventKinds
  <2>2. callbacks' = callbacks \/ callbacks' = Append(callbacks, e)
    BY <1>7 DEF SendClose
  <2> HIDE DEF e
  <2> QED
    BY <1>7, <2>1, <2>2
<1>8. CASE TransferRead
  <2> DEFINE e == [Reply("read", read[1]) EXCEPT !.chunks = chunk]
  <2>1. /\ read \in Nat \X Nat /\ Chunk(Least(ReadCapacity, Available)) \in Nat \X Nat
    <3>1. /\ ReadLimit \in Nat \ {0} /\ Available > 0 /\ read \in Nat \X Nat
      BY <1>8, ReadTypes DEF TransferRead, PicksRead, NativeInv
    <3> QED
      BY <3>1, Takes DEF ReadCapacity, NativeInv
  <2>2. chunk \in Seq(Nat \X Nat) /\ read[1] \in Nat
    BY <2>1
  <2>3. e \in Event /\ e.kind = "read" /\ e.id = read[1] /\ e.chunks = chunk
    BY <2>2 DEF Reply, NoEvent, Event, EventKinds
  <2>4. callbacks' = callbacks \/ callbacks' = Append(callbacks, e)
    BY <1>8 DEF TransferRead, Send
  <2> HIDE DEF e
  <2> QED
    BY <1>8, <2>3, <2>4
<1>9. CASE TransferStream
  <2>1. Chunk(Least(ReadCapacity, Available)) \in Nat \X Nat
    <3>1. ReadLimit \in Nat \ {0} /\ Available > 0
      BY <1>9, ReadTypes DEF TransferStream, PicksRead, NativeInv
    <3> QED
      BY <3>1, Takes DEF ReadCapacity, NativeInv
  <2>2. Data(chunk) \in Event
    BY <2>1, DataType DEF ChunkSeq
  <2>3. callbacks' = callbacks \/ callbacks' = Append(callbacks, Data(chunk))
    BY <1>9 DEF TransferStream, Send
  <2> QED
    BY <1>9, <2>2, <2>3
<1>10. CASE BurstEnd
  <2>1. callbacks' = callbacks \/ callbacks' = Append(callbacks, Data(batch))
    BY <1>10 DEF BurstEnd, Followers, Send
  <2> QED
    BY <1>1, <1>10, <2>1, DataType
<1> QED
  BY <1>2, <1>3, <1>4, <1>5, <1>6, <1>7, <1>8, <1>9, <1>10, TaskEffect

(* A port that has ended holds no command; every event carries chunks only *)
(* if it is about a read; open is the first event; and an id that stands   *)
(* for a read, in a command or an event, is one of a read request.         *)
Ends ==
  /\ consumed <= Len(callbacks)
  /\ pc = "done" => ~receiving
  /\ ~receiving => channel = <<>>

Events ==
  /\ answer.kind \notin {"read", "data"} /\ answer.chunks = <<>>
  /\ pc = "answer" => answer.kind # "open"
  /\ pc \in {"opening", "opened"} => callbacks = <<>>
  /\ \A i \in DOMAIN callbacks :
       /\ callbacks[i].kind = "open" => i = 1
       /\ callbacks[i].kind \notin {"read", "data"} => callbacks[i].chunks = <<>>

IsRead(id) == id \in 1 .. Len(requests) /\ requests[id].op = "read"

ReadIds ==
  /\ \A i \in DOMAIN channel : channel[i].op = "read" => IsRead(channel[i].id)
  /\ read # <<>> => IsRead(read[1])
  /\ answer.kind = "busy" => IsRead(answer.id)
  /\ \A i \in DOMAIN callbacks :
       callbacks[i].kind \in {"read", "busy"} => IsRead(callbacks[i].id)

LEMMA InitTraffic == Init => Ends /\ Events /\ ReadIds
BY DEF Init, InitNative, InitReactor, NoEvent, Ends, Events, ReadIds

(* What a call does to the queues and to the record of requests.           *)
LEMMA CallEffect ==
  ASSUME NativeInv, AnyCall /\ UNCHANGED reactorVars
  PROVE  /\ UNCHANGED <<callbacks, receiving>>
         /\ \/ consumed' = consumed
            \/ consumed' = consumed + 1 /\ consumed < Len(callbacks)
         /\ \/ channel' = channel
            \/ \E c \in Command :
                 /\ channel' = Append(channel, c) /\ receiving /\ ~stop
                 /\ c.op # "credit" =>
                      /\ c.id = NextId /\ Len(requests') = Len(requests) + 1
                      /\ requests'[NextId].op = c.op
                      /\ requests'[NextId].state = "queued"
<1>1. /\ channel \in Seq(Command) /\ requests \in Seq(Requests)
      /\ NextId \in Nat
  BY DEF NativeInv, Inv, QueueTypes, NextId
<1>2. ASSUME NEW c \in Command, Enqueue(c),
             \/ c.op = "credit"
             \/ \E size \in Nat :
                  c.id = NextId /\ requests' = Recorded(c.op, size)
      PROVE  \/ channel' = channel
             \/ /\ channel' = Append(channel, c) /\ receiving /\ ~stop
                /\ c.op # "credit" =>
                     /\ c.id = NextId /\ Len(requests') = Len(requests) + 1
                     /\ requests'[NextId].op = c.op
                     /\ requests'[NextId].state = "queued"
  <2>1. \/ channel' = channel
        \/ channel' = Append(channel, c) /\ Admits(c.op) /\ receiving /\ ~stop
    BY <1>2 DEF Enqueue, Admits, Sendable
  <2>2. ASSUME c.op # "credit", Admits(c.op)
        PROVE  /\ c.id = NextId /\ Len(requests') = Len(requests) + 1
               /\ requests'[NextId].op = c.op
               /\ requests'[NextId].state = "queued"
    <3>1. PICK size \in Nat : c.id = NextId /\ requests' = Recorded(c.op, size)
      BY <1>2, <2>2
    <3>2. PICK r : /\ r.op = c.op /\ r.state = "queued"
                   /\ requests' = Append(requests, r)
      BY <2>2, <3>1 DEF Recorded
    <3> QED
      BY <1>1, <3>1, <3>2 DEF NextId
  <2> QED
    BY <2>1, <2>2
<1>3. ASSUME NEW op, Request(op)
      PROVE  \E c \in Command :
               /\ Enqueue(c) /\ c.id = NextId
               /\ \E size \in Nat : requests' = Recorded(c.op, size)
  <2> DEFINE c == [id |-> NextId, op |-> op, from |-> 0, size |-> 0, slots |-> 0]
  <2>1. c \in Command /\ c.op = op /\ c.id = NextId
    BY <1>1, <1>3 DEF Request, Command, OrderedOps
  <2>2. Enqueue(c) /\ requests' = Recorded(op, 0)
    BY <1>3 DEF Request
  <2> HIDE DEF c
  <2> QED
    BY <2>1, <2>2
<1>4. ASSUME NEW size, ReadRequest(size)
      PROVE  \E c \in Command :
               /\ Enqueue(c) /\ c.id = NextId
               /\ \E n \in Nat : requests' = Recorded(c.op, n)
  <2> DEFINE c == [id |-> NextId, op |-> "read", from |-> 0, size |-> size,
                   slots |-> 0]
  <2>1. size \in Nat
    BY <1>4, NativeAssumption DEF ReadRequest
  <2>2. c \in Command /\ c.op = "read" /\ c.id = NextId
    BY <1>1, <2>1 DEF Command
  <2>3. Enqueue(c) /\ requests' = Recorded("read", size)
    BY <1>4 DEF ReadRequest
  <2> HIDE DEF c
  <2> QED
    BY <2>1, <2>2, <2>3
<1>5. CASE EnqueueRemainder
  <2> DEFINE c == [id |-> call.id, op |-> "write", from |-> call.from,
                   size |-> call.size, slots |-> 0]
  <2>1. call \in CallRecords /\ call.id = NextId
    BY <1>5 DEF EnqueueRemainder, NativeInv, Inv, QueueTypes, Submission, NextId
  <2>2. c \in Command /\ c.op = "write" /\ c.id = NextId /\ call.size \in Nat
    BY <1>1, <2>1 DEF Command, CallRecords, OrderedOps
  <2>3. Enqueue(c) /\ requests' = Recorded("write", call.size)
    BY <1>5 DEF EnqueueRemainder
  <2>4. UNCHANGED <<callbacks, receiving, consumed>>
    BY <1>5 DEF EnqueueRemainder
  <2> HIDE DEF c
  <2> QED
    BY <1>2, <2>2, <2>3, <2>4
<1>6. ASSUME NEW bytes \in 1 .. ChunkSize, NEW slots \in 1 .. ReadSlots,
             ReadCredit(bytes, slots)
      PROVE  \E c \in Command : Enqueue(c) /\ c.op = "credit"
  <2> DEFINE c == [id |-> 0, op |-> "credit", from |-> 0, size |-> bytes,
                   slots |-> slots]
  <2>1. c \in Command /\ c.op = "credit"
    BY NativeAssumption DEF Command
  <2>2. Enqueue(c)
    BY <1>6 DEF ReadCredit
  <2> HIDE DEF c
  <2> QED
    BY <2>1, <2>2
<1>7. CASE \E op \in OrderedOps : Request(op)
  BY <1>2, <1>3, <1>7 DEF Request
<1>8. CASE \E size \in 1 .. ChunkSize : ReadRequest(size)
  BY <1>2, <1>4, <1>8 DEF ReadRequest
<1>9. CASE \E bytes \in 1 .. ChunkSize, slots \in 1 .. ReadSlots :
             ReadCredit(bytes, slots)
  BY <1>2, <1>6, <1>9 DEF ReadCredit
<1>10. CASE \E size \in 0 .. ChunkSize, inline \in BOOLEAN :
              Write(size, inline) \/ WritevSnapshot(size, inline)
  BY <1>10 DEF Write, WritevSnapshot
<1>11. CASE Consume
  BY <1>11 DEF Consume
<1>12. CASE WritevRecheck \/ WriteAttempt \/ Close \/ Notify \/ EnvTeardown
  BY <1>12 DEF WritevRecheck, WriteAttempt, Close, Notify, EnvTeardown
<1> QED
  BY <1>5, <1>7, <1>8, <1>9, <1>10, <1>11, <1>12 DEF AnyCall

LEMMA NextEnds ==
  ASSUME NativeInv, Ends, [AnyStep]_vars PROVE Ends'
<1>1. callbacks \in Seq(Event) /\ consumed \in Nat
  BY DEF NativeInv, Shape, TaskTypes
<1>2. CASE AnyCall /\ UNCHANGED reactorVars
  <2>1. UNCHANGED <<callbacks, receiving, pc>>
    BY <1>2, CallEffect DEF reactorVars, taskVars
  <2>2. consumed' <= Len(callbacks')
    BY <1>1, <1>2, <2>1, CallEffect DEF Ends
  <2>3. ~receiving' => channel' = <<>>
    BY <1>2, <2>1, CallEffect DEF Ends
  <2> QED
    BY <2>1, <2>2, <2>3 DEF Ends
<1>3. CASE Task
  <2>1. consumed' <= Len(callbacks')
    <3>1. consumed' = consumed
      BY <1>3, TaskKeeps DEF jsVars
    <3>2. callbacks' = callbacks \/ \E e \in Event : callbacks' = Append(callbacks, e)
      BY <1>3, Publication
    <3> QED
      BY <1>1, <3>1, <3>2 DEF Ends
  <2>2. /\ pc' = "done" => ~receiving'
        /\ ~receiving' => channel' = <<>>
    <3>1. CASE Quiet \/ Retires
      BY <3>1 DEF Quiet, Retires, Ends
    <3>2. CASE DropReceiver \/ SendClose
      BY <3>2 DEF DropReceiver, SendClose
    <3>3. CASE ReceiveOrdered \/ ReceiveRead \/ ReceiveCredit
      <4>1. /\ UNCHANGED receiving /\ channel # <<>> /\ pc' # "done"
        BY <3>3 DEF ReceiveOrdered, ReceiveRead, ReceiveCredit, Receivable
      <4> QED
        BY <4>1 DEF Ends
    <3>4. CASE \/ PublishOpen \/ SendAnswer \/ TransferRead \/ TransferStream
               \/ BurstRead \/ BurstEnd
      <4>1. UNCHANGED <<receiving, channel>>
        BY <3>4 DEF PublishOpen, SendAnswer, TransferRead, TransferStream,
                    BurstRead, BurstEnd, queueVars
      <4>2. pc' # "done"
        BY <3>4 DEF PublishOpen, SendAnswer, TransferRead, TransferStream,
                    BurstRead, BurstEnd, Send
      <4> QED
        BY <4>1, <4>2 DEF Ends
    <3> QED
      BY <1>3, <3>1, <3>2, <3>3, <3>4, TaskEffect
  <2> QED
    BY <2>1, <2>2 DEF Ends
<1>4. CASE OfDevice \/ UNCHANGED vars
  BY <1>4
  DEF OfDevice, Arrive, Transmit, Shift, Lose, vars, nativeVars, reactorVars,
      taskVars, queueVars, jsVars, Ends
<1> QED
  BY <1>2, <1>3, <1>4 DEF AnyStep

LEMMA NextEvents ==
  ASSUME NativeInv, Events, [AnyStep]_vars PROVE Events'
<1>1. callbacks \in Seq(Event) /\ Len(callbacks) \in Nat
  BY DEF NativeInv, Shape, TaskTypes
<1> DEFINE Sane(e, i) ==
             /\ e.kind = "open" => i = 1
             /\ e.kind \notin {"read", "data"} => e.chunks = <<>>
<1>2. ASSUME NEW e \in Event, callbacks' = Append(callbacks, e),
             Sane(e, Len(callbacks) + 1)
      PROVE  \A i \in DOMAIN callbacks' : Sane(callbacks'[i], i)
  <2>1. \A i \in DOMAIN callbacks : Sane(callbacks[i], i)
    BY DEF Events
  <2>2. /\ DOMAIN callbacks' = 1 .. (Len(callbacks) + 1)
        /\ \A i \in 1 .. Len(callbacks) : callbacks'[i] = callbacks[i]
        /\ callbacks'[Len(callbacks) + 1] = e
        /\ DOMAIN callbacks = 1 .. Len(callbacks)
    BY <1>1, <1>2
  <2> HIDE DEF Sane
  <2>3. ASSUME NEW i \in DOMAIN callbacks' PROVE Sane(callbacks'[i], i)
    <3>1. CASE i = Len(callbacks) + 1
      BY <1>2, <2>2, <3>1
    <3>2. CASE i # Len(callbacks) + 1
      <4>1. i \in 1 .. Len(callbacks)
        BY <1>1, <2>2, <2>3, <3>2
      <4> QED
        BY <2>1, <2>2, <4>1
    <3> QED
      BY <3>1, <3>2
  <2> QED
    BY <2>3
<1>3. CASE (AnyCall /\ UNCHANGED reactorVars) \/ OfDevice \/ UNCHANGED vars
  <2>1. UNCHANGED <<callbacks, pc, answer>>
    BY <1>3, CallEffect
    DEF OfDevice, Arrive, Transmit, Shift, Lose, vars, nativeVars, reactorVars,
        taskVars
  <2> QED
    BY <2>1 DEF Events
<1>4. CASE Task
  <2>1. /\ answer'.kind \notin {"read", "data"} /\ answer'.chunks = <<>>
        /\ pc' = "answer" => answer'.kind # "open"
    <3>1. CASE Quiet
      BY <3>1 DEF Quiet, Events
    <3>2. CASE Retires
      <4>1. PICK kind \in {"ok", "error"} : answer' = Reply(kind, FrontCommand.id)
        BY <3>2 DEF Retires
      <4> QED
        BY <4>1 DEF Reply, NoEvent
    <3>3. CASE SendAnswer
      BY <3>3 DEF SendAnswer, Send, NoEvent
    <3>4. CASE ReceiveRead
      BY <3>4 DEF ReceiveRead, Reply, NoEvent, Events
    <3>5. CASE \/ PublishOpen \/ ReceiveOrdered \/ ReceiveCredit
               \/ TransferRead \/ TransferStream \/ BurstRead \/ BurstEnd
               \/ DropReceiver \/ SendClose
      <4>1. answer' = answer
        BY <3>5 DEF PublishOpen, ReceiveOrdered, ReceiveCredit, TransferRead,
               TransferStream, BurstRead, BurstEnd, DropReceiver, SendClose
      <4>2. pc' # "answer"
        BY <3>5 DEF PublishOpen, ReceiveOrdered, ReceiveCredit, TransferRead,
               TransferStream, BurstRead, BurstEnd, DropReceiver, SendClose,
               Send
      <4> QED
        BY <4>1, <4>2 DEF Events
    <3> QED
      BY <1>4, <3>1, <3>2, <3>3, <3>4, <3>5, TaskEffect
  <2>2. pc' \in {"opening", "opened"} => callbacks' = <<>>
    <3>1. CASE Quiet
      BY <3>1 DEF Quiet, Events
    <3>2. CASE ~Quiet
      <4>1. pc' \notin {"opening", "opened"}
        BY <1>4, <3>2, TaskEffect
        DEF Retires, PublishOpen, SendAnswer, ReceiveOrdered, ReceiveRead,
            ReceiveCredit, TransferRead, TransferStream, BurstRead, BurstEnd,
            DropReceiver, SendClose, Send
      <4> QED
        BY <4>1
    <3> QED
      BY <3>1, <3>2
  <2>3. \A i \in DOMAIN callbacks' : Sane(callbacks'[i], i)
    <3>1. CASE callbacks' = callbacks
      BY <3>1 DEF Events
    <3>2. CASE callbacks' # callbacks
      <4>1. PICK e \in Event :
              /\ callbacks' = Append(callbacks, e)
              /\ \/ PublishOpen /\ e = NoEvent
                 \/ SendAnswer /\ e = answer
                 \/ e.kind \in {"read", "data"}
                 \/ e.kind = "close" /\ e.chunks = <<>>
        BY <1>4, <3>2, Publication, DataType
        DEF NativeInv, Shape, TaskTypes, Data, NoEvent
      <4>2. Sane(e, Len(callbacks) + 1)
        <5>1. CASE PublishOpen /\ e = NoEvent
          BY <5>1 DEF PublishOpen, NoEvent, Events
        <5>2. CASE SendAnswer /\ e = answer
          BY <5>2 DEF SendAnswer, Events
        <5> QED
          BY <4>1, <5>1, <5>2
      <4> HIDE DEF Sane
      <4> QED
        BY <1>2, <4>1, <4>2
    <3> QED
      BY <3>1, <3>2
  <2> QED
    BY <2>1, <2>2, <2>3 DEF Events
<1> QED
  BY <1>3, <1>4 DEF AnyStep

LEMMA DataKind == \A chunks : Data(chunks).kind = "data"
BY DEF Data, NoEvent

LEMMA NextReadIds ==
  ASSUME NativeInv, Events, ReadIds, [AnyStep]_vars PROVE ReadIds'
<1>1. /\ channel \in Seq(Command) /\ requests \in Seq(Requests)
      /\ Len(requests) \in Nat /\ callbacks \in Seq(Event)
  BY DEF NativeInv, Inv, QueueTypes, Shape, TaskTypes
<1>2. /\ Len(requests) <= Len(requests') /\ Len(requests') \in Nat
      /\ \A id \in 1 .. Len(requests) : requests'[id] = requests[id]
  BY StepGrows DEF NativeInv, Grows
<1> DEFINE StillRead(id) == id \in 1 .. Len(requests') /\ requests'[id].op = "read"
<1>3. ASSUME NEW id, IsRead(id) PROVE StillRead(id)
  BY <1>1, <1>2, <1>3 DEF IsRead
<1>4. ASSUME \A i \in DOMAIN channel' :
               channel'[i].op = "read" => StillRead(channel'[i].id),
             read' # <<>> => StillRead(read'[1]),
             answer'.kind = "busy" => StillRead(answer'.id),
             \A i \in DOMAIN callbacks' :
               callbacks'[i].kind \in {"read", "busy"}
                 => StillRead(callbacks'[i].id)
      PROVE  ReadIds'
  BY <1>4 DEF ReadIds, IsRead
<1> HIDE DEF StillRead
<1>5. CASE AnyCall /\ UNCHANGED reactorVars
  <2>1. UNCHANGED <<callbacks, read, answer>>
    BY <1>5, CallEffect DEF reactorVars, taskVars
  <2>2. ASSUME NEW i \in DOMAIN channel', channel'[i].op = "read"
        PROVE  StillRead(channel'[i].id)
    <3>1. CASE channel' = channel
      BY <1>3, <2>2, <3>1 DEF ReadIds
    <3>2. ASSUME NEW c \in Command, channel' = Append(channel, c),
                 c.op # "credit" =>
                   /\ c.id = NextId /\ Len(requests') = Len(requests) + 1
                   /\ requests'[NextId].op = c.op
          PROVE  StillRead(channel'[i].id)
      <4>1. CASE i \in DOMAIN channel
        <5>1. channel'[i] = channel[i]
          BY <1>1, <3>2, <4>1
        <5> QED
          BY <1>3, <2>2, <4>1, <5>1 DEF ReadIds
      <4>2. CASE i \notin DOMAIN channel
        <5>1. channel'[i] = c
          BY <1>1, <2>2, <3>2, <4>2
        <5>2. c.op = "read" /\ c.id = NextId
          BY <2>2, <3>2, <5>1
        <5>3. NextId \in 1 .. Len(requests') /\ requests'[NextId].op = "read"
          BY <1>1, <3>2, <5>2 DEF NextId
        <5> QED
          BY <5>1, <5>2, <5>3 DEF StillRead
      <4> QED
        BY <4>1, <4>2
    <3> QED
      BY <1>5, <3>1, <3>2, CallEffect
  <2> QED
    BY <1>3, <1>4, <2>1, <2>2 DEF ReadIds
<1>6. CASE Task
  <2>1. UNCHANGED requests
    BY <1>6, TaskKeeps DEF jsVars
  <2>2. ASSUME NEW i \in DOMAIN channel', channel'[i].op = "read"
        PROVE  StillRead(channel'[i].id)
    <3>1. CASE channel' = channel
      BY <1>3, <2>2, <3>1 DEF ReadIds
    <3>2. CASE channel # <<>> /\ channel' = Tail(channel)
      <4>1. i + 1 \in DOMAIN channel /\ channel'[i] = channel[i + 1]
        BY <1>1, <2>2, <3>2
      <4> QED
        BY <1>3, <2>2, <4>1 DEF ReadIds
    <3>3. CASE channel' = <<>>
      BY <2>2, <3>3
    <3>4. channel' = channel \/ channel' = <<>>
            \/ (channel # <<>> /\ channel' = Tail(channel))
      BY <1>6, TaskEffect
      DEF Quiet, Retires, PublishOpen, SendAnswer, ReceiveOrdered, ReceiveRead,
          ReceiveCredit, Receivable, TransferRead, TransferStream, BurstRead,
          BurstEnd, DropReceiver, SendClose, queueVars
    <3> QED
      BY <3>1, <3>2, <3>3, <3>4
  <2>3. read' # <<>> => StillRead(read'[1])
    <3>1. CASE read' = read
      BY <1>3, <3>1 DEF ReadIds
    <3>2. CASE ReceiveRead /\ read' # read
      <4>1. /\ channel # <<>> /\ Head(channel).op = "read"
            /\ read' = <<Head(channel).id, Head(channel).size>>
        BY <3>2 DEF ReceiveRead, Receivable
      <4>2. 1 \in DOMAIN channel /\ Head(channel) = channel[1]
        BY <1>1, <4>1
      <4> QED
        BY <1>3, <4>1, <4>2 DEF ReadIds
    <3>3. CASE TransferRead
      BY <3>3 DEF TransferRead
    <3>4. ~ReceiveRead /\ ~TransferRead => read' = read
      BY <1>6, TaskEffect
      DEF Quiet, Retires, PublishOpen, SendAnswer, ReceiveOrdered,
          ReceiveCredit, TransferStream, BurstRead, BurstEnd, DropReceiver,
          SendClose
    <3> QED
      BY <3>1, <3>2, <3>3, <3>4
  <2>4. answer'.kind = "busy" => StillRead(answer'.id)
    <3>1. CASE answer' = answer
      BY <1>3, <3>1 DEF ReadIds
    <3>2. CASE Retires
      <4>1. PICK kind \in {"ok", "error"} : answer' = Reply(kind, FrontCommand.id)
        BY <3>2 DEF Retires
      <4> QED
        BY <4>1 DEF Reply, NoEvent
    <3>3. CASE SendAnswer
      BY <3>3 DEF SendAnswer, NoEvent
    <3>4. CASE ReceiveRead
      <4>1. channel # <<>> /\ Head(channel).op = "read"
        BY <3>4 DEF ReceiveRead, Receivable
      <4>2. answer' = Reply("busy", Head(channel).id) \/ answer' = answer
        BY <3>4 DEF ReceiveRead
      <4>3. 1 \in DOMAIN channel /\ Head(channel) = channel[1]
        BY <1>1, <4>1
      <4>4. StillRead(Head(channel).id)
        BY <1>3, <4>1, <4>3 DEF ReadIds
      <4>5. CASE answer' = Reply("busy", Head(channel).id)
        <5>1. answer'.id = Head(channel).id
          BY <4>5 DEF Reply, NoEvent
        <5> QED
          BY <4>4, <5>1
      <4> QED
        BY <3>1, <4>2, <4>5
    <3>5. ~Retires /\ ~SendAnswer /\ ~ReceiveRead => answer' = answer
      BY <1>6, TaskEffect
      DEF Quiet, PublishOpen, ReceiveOrdered, ReceiveCredit, TransferRead,
          TransferStream, BurstRead, BurstEnd, DropReceiver, SendClose
    <3> QED
      BY <3>1, <3>2, <3>3, <3>4, <3>5
  <2>5. ASSUME NEW i \in DOMAIN callbacks', callbacks'[i].kind \in {"read", "busy"}
        PROVE  StillRead(callbacks'[i].id)
    <3>1. CASE i \in DOMAIN callbacks
      <4>1. \/ callbacks' = callbacks
            \/ \E e \in Event : callbacks' = Append(callbacks, e)
        BY <1>6, Publication
      <4>2. callbacks'[i] = callbacks[i]
        BY <1>1, <3>1, <4>1
      <4> QED
        BY <1>3, <2>5, <3>1, <4>2 DEF ReadIds
    <3>2. CASE i \notin DOMAIN callbacks
      <4>1. callbacks' # callbacks
        BY <2>5, <3>2
      <4>2. PICK e \in Event :
              /\ callbacks' = Append(callbacks, e)
              /\ \/ e.kind \in {"open", "data", "close"}
                 \/ SendAnswer /\ e = answer
                 \/ TransferRead /\ e.kind = "read" /\ e.id = read[1]
        BY <1>6, <4>1, Publication, DataKind DEF NoEvent
      <4>3. callbacks'[i] = e
        BY <1>1, <2>5, <3>2, <4>2
      <4>4. CASE SendAnswer /\ e = answer
        BY <1>3, <2>5, <4>3, <4>4 DEF Events, ReadIds
      <4>5. CASE TransferRead /\ e.kind = "read" /\ e.id = read[1]
        <5>1. ~streaming /\ ReadReady /\ ~gone /\ pc = "poll"
          BY <4>5 DEF TransferRead, PicksRead
        <5>2. read \in Nat \X Nat
          BY <5>1, ReadTypes DEF NativeInv
        <5> QED
          BY <1>3, <4>3, <4>5, <5>2 DEF ReadIds
      <4>6. CASE e.kind \in {"open", "data", "close"}
        BY <2>5, <4>3, <4>6
      <4> QED
        BY <4>2, <4>4, <4>5, <4>6
    <3> QED
      BY <3>1, <3>2
  <2> QED
    BY <1>4, <2>2, <2>3, <2>4, <2>5
<1>7. CASE OfDevice \/ UNCHANGED vars
  <2>1. UNCHANGED <<channel, read, answer, callbacks, requests>>
    BY <1>7
    DEF OfDevice, Arrive, Transmit, Shift, Lose, vars, nativeVars,
        reactorVars, taskVars, queueVars, jsVars
  <2> QED
    BY <1>3, <1>4, <2>1 DEF ReadIds
<1> QED
  BY <1>5, <1>6, <1>7 DEF AnyStep

(* The ids that are held, when a call adds a command or the task moves or  *)
(* drops some.                                                             *)
LEMMA HeldByCall ==
  ASSUME NativeInv, AnyCall /\ UNCHANGED reactorVars
  PROVE  \/ Held' = Held
         \/ \E c \in Command :
              /\ channel' = Append(channel, c) /\ c.id = NextId
              /\ Held' = Held \cup {c} /\ requests' # requests
<1>1. channel \in Seq(Command) /\ commands' = commands
  BY DEF NativeInv, Inv, QueueTypes, reactorVars, taskVars
<1>2. OrderedOf(commands)' = OrderedOf(commands)
  BY <1>1 DEF OrderedOf
<1>3. CASE channel' = channel
  BY <1>2, <1>3 DEF Held, OrderedOf
<1>4. CASE channel' # channel
  <2>1. PICK c \in Command :
          /\ channel' = Append(channel, c)
          /\ c.op # "credit" =>
               c.id = NextId /\ Len(requests') = Len(requests) + 1
    BY <1>4, CallEffect
  <2>2. OrderedOf(channel') = IF Ordered(c.op) THEN OrderedOf(channel) \cup {c}
                              ELSE OrderedOf(channel)
    BY <1>1, <2>1, OrderedOfAppend
  <2>3. CASE Ordered(c.op)
    <3>1. c.op # "credit"
      BY <2>3 DEF Ordered, OrderedOps
    <3>2. requests' # requests
      <4>1. Len(requests) \in Nat
        BY DEF NativeInv, Inv, QueueTypes
      <4> QED
        BY <2>1, <3>1, <4>1
    <3> QED
      BY <1>2, <2>1, <2>2, <2>3, <3>1, <3>2 DEF Held
  <2>4. CASE ~Ordered(c.op)
    BY <1>2, <2>1, <2>2, <2>4 DEF Held, OrderedOf
  <2> QED
    BY <2>3, <2>4
<1> QED
  BY <1>3, <1>4

LEMMA HeldByTask == ASSUME NativeInv, Task PROVE Held' \subseteq Held
<1>1. /\ channel \in Seq(Command) /\ commands \in Seq(Command)
  BY DEF NativeInv, Inv, QueueTypes
<1>2. CASE Quiet
  BY <1>2 DEF Quiet, Held, OrderedOf
<1>3. CASE Retires
  <2>1. commands # <<>> /\ commands' = Tail(commands) /\ channel' = channel
    BY <1>3 DEF Retires
  <2>2. OrderedOf(commands') \subseteq OrderedOf(commands)
    BY <1>1, <2>1, OrderedOfTail
  <2>3. OrderedOf(channel') = OrderedOf(channel)
    BY <2>1
  <2> QED
    BY <2>2, <2>3 DEF Held, OrderedOf
<1>4. CASE ReceiveOrdered \/ ReceiveRead \/ ReceiveCredit
  <2>1. /\ channel # <<>> /\ channel' = Tail(channel)
        /\ \/ Ordered(Head(channel).op) /\ commands' = Queue(Head(channel))
           \/ ~Ordered(Head(channel).op) /\ commands' = commands
    BY <1>4 DEF ReceiveOrdered, ReceiveRead, ReceiveCredit, Receivable, Ordered,
                OrderedOps
  <2> QED
    BY <2>1, HeldReceive DEF NativeInv
<1>5. CASE DropReceiver \/ SendClose
  <2>1. channel' = <<>> /\ (commands' = <<>> \/ commands' = commands)
    BY <1>5 DEF DropReceiver, SendClose
  <2> QED
    BY <2>1 DEF Held, OrderedOf
<1>6. CASE \/ PublishOpen \/ SendAnswer \/ TransferRead \/ TransferStream
           \/ BurstRead \/ BurstEnd
  <2>1. UNCHANGED <<channel, commands>>
    BY <1>6 DEF PublishOpen, SendAnswer, TransferRead, TransferStream,
                BurstRead, BurstEnd, queueVars
  <2> QED
    BY <2>1 DEF Held, OrderedOf
<1> QED
  BY <1>2, <1>3, <1>4, <1>5, <1>6, TaskEffect

(* An answered request is not held any more, also when the task has ended. *)
Parted == Answered \cap HeldIds = {}

LEMMA NextParted ==
  ASSUME NativeInv, Parted, [AnyStep]_vars PROVE Parted'
<1>1. Answered \subseteq 1 .. Len(requests) /\ Len(requests) \in Nat
  BY DEF NativeInv, Settling, Inv, QueueTypes
<1>2. CASE pc' \notin Over
  <2>1. Settling'
    BY NativeHolds DEF NativeInv
  <2>2. /\ \A x \in Answered', y \in HeldIds' : x < y
        /\ Answered' \subseteq 1 .. Len(requests')
    BY <1>2, <2>1 DEF Settling
  <2>3. Len(requests') \in Nat
    BY NativeHolds DEF NativeInv, Inv, QueueTypes
  <2>4. ASSUME NEW x \in Answered', x \in HeldIds' PROVE FALSE
    <3>1. x < x /\ x \in 1 .. Len(requests')
      BY <2>2, <2>4
    <3> QED
      BY <2>3, <3>1
  <2> QED
    BY <2>4 DEF Parted
<1>3. CASE pc' \in Over
  <2>1. Answered' = Answered
    <3>1. CASE callbacks' = callbacks
      BY <3>1 DEF Answered, AnswerPlaces
    <3>2. CASE callbacks' # callbacks
      <4>1. CASE Task
        <5>1. PICK e \in Event : /\ callbacks' = Append(callbacks, e)
                                 /\ SendAnswer \/ e.kind \notin {"ok", "error"}
          BY <3>2, <4>1, Publication, DataKind DEF NoEvent
        <5>2. ~SendAnswer
          BY <1>3, <3>2 DEF SendAnswer, Send, Over, Ended
        <5>3. callbacks \in Seq(Event)
          BY DEF NativeInv, Shape, TaskTypes
        <5>4. /\ AnswerPlaces' = AnswerPlaces
              /\ \A i \in AnswerPlaces : callbacks'[i] = callbacks[i]
          BY <5>1, <5>2, <5>3 DEF AnswerPlaces, IsAnswer
        <5> QED
          BY <5>4 DEF Answered
      <4>2. CASE (AnyCall /\ UNCHANGED reactorVars) \/ OfDevice \/ UNCHANGED vars
        BY <3>2, <4>2, CallEffect
        DEF OfDevice, Arrive, Transmit, Shift, Lose, vars, nativeVars
      <4> QED
        BY <4>1, <4>2 DEF AnyStep
    <3> QED
      BY <3>1, <3>2
  <2>2. HeldIds' \subseteq HeldIds \cup {NextId}
    <3>1. CASE Task
      BY <3>1, HeldByTask DEF HeldIds
    <3>2. CASE AnyCall /\ UNCHANGED reactorVars
      BY <3>2, HeldByCall DEF HeldIds
    <3>3. CASE OfDevice \/ UNCHANGED vars
      BY <3>3
      DEF OfDevice, Arrive, Transmit, Shift, Lose, vars, nativeVars,
          reactorVars, taskVars, queueVars, HeldIds, Held, OrderedOf
    <3> QED
      BY <3>1, <3>2, <3>3 DEF AnyStep
  <2>3. NextId \notin Answered
    BY <1>1 DEF NextId
  <2> QED
    BY <2>1, <2>2, <2>3 DEF Parted
<1> QED
  BY <1>2, <1>3

(* All of this, of which the client needs the rest of the proof.           *)
Port == NativeInv /\ Ends /\ Events /\ ReadIds /\ Parted

LEMMA InitPort == Init => Port
<1>1. Init => Parted
  BY DEF Init, InitNative, InitReactor, Parted, HeldIds, Held, OrderedOf
<1> QED
  BY <1>1, NativeHolds, InitTraffic DEF Port

LEMMA NextPort == Port /\ [AnyStep]_vars => Port'
BY NativeHolds, NextEnds, NextEvents, NextReadIds, NextParted DEF Port

LEMMA StillPort == Spec => []Port
BY InitPort, NextPort, BindingConforms, PTL DEF AnySpec
-----------------------------------------------------------------------------
(* What a step does to the promises: it admits none, one request joins     *)
(* them, one is settled, or the port is finished and all are rejected.     *)
(* Offset is _ordered without the write that is being submitted.           *)
Results == {"ok", "error", "busy", "read", "closed"}
Settlements == [id : Nat, result : Results]

Submitting == IF call.step = "none" THEN 0 ELSE 1
Offset == ordered - Submitting

NoneAdmitted ==
  /\ UNCHANGED <<pending, settled, finished>> /\ ordered' = Offset + Submitting'
  /\ call'.step # "none" => HasRoom \/ call.step # "none"
  /\ call'.step = "checked" /\ call'.inline => Offset = 0 \/ call' = call
  /\ \/ requests' = requests
     \/ \E r \in Requests :
          /\ requests' = Append(requests, r) /\ r.state # "queued"
          /\ r.state = "inline" => Offset = 0
          /\ r.state = "refused" => ~Admits(r.op) /\ HasRoom

OneAdmitted ==
  /\ UNCHANGED <<settled, finished>> /\ ~stop /\ call'.step = "none"
  /\ HasRoom
  /\ pending' = pending \cup {NextId}
  /\ \E r \in Requests :
       /\ requests' = Append(requests, r) /\ r.state = "queued"
       /\ ordered' = Offset + Submitting' + (IF Ordered(r.op) THEN 1 ELSE 0)

OneSettled ==
  /\ UNCHANGED <<requests, finished, call>> /\ call.step = "none"
  /\ \E id \in pending, result \in Results :
       /\ pending' = pending \ {id}
       /\ ordered' = ordered - (IF Ordered(requests[id].op) THEN 1 ELSE 0)
       /\ settled' = Append(settled, Outcome(id, result))

AllSettled ==
  /\ stop /\ finished' = TRUE /\ UNCHANGED <<requests, call>>
  /\ call.step = "none" /\ ordered' = 0 /\ RejectPending

PromiseStep ==
  NoneAdmitted \/ OneAdmitted \/ (Callback /\ (OneSettled \/ AllSettled))

(* A write that is being submitted counts for the limit, and is attempted  *)
(* at once only if nothing ordered was unsettled when it was called.       *)
Room ==
  /\ call.step # "none" => HasRoom
  /\ call.step = "checked" /\ call.inline => Offset = 0

LEMMA SubmitStep ==
  ASSUME NativeInv, ordered \in Int, UNCHANGED <<settled, finished>>,
         call.step = "none", call' = call, HasRoom,
         NEW op \in OrderedOps \cup {"read"}, NEW size \in Nat,
         requests' = Recorded(op, size), Submitted(op)
  PROVE  NoneAdmitted \/ OneAdmitted
<1> DEFINE r == [op |-> op, size |-> size,
                 state |-> IF Admits(op) THEN "queued" ELSE "refused"]
<1>1. r \in Requests /\ requests' = Append(requests, r) /\ r.op = op
  BY DEF Requests, Recorded
<1>2. CASE Admits(op)
  <2>1. r.state = "queued" /\ ~stop
    BY <1>2 DEF Admits
  <2>2. /\ pending' = pending \cup {NextId}
        /\ ordered' = ordered + (IF Ordered(op) THEN 1 ELSE 0)
    BY <1>2 DEF Submitted
  <2>3. ordered' = Offset + Submitting' + (IF Ordered(r.op) THEN 1 ELSE 0)
    BY <1>1, <2>2 DEF Offset, Submitting
  <2> HIDE DEF r
  <2> QED
    BY <1>1, <2>1, <2>2, <2>3 DEF OneAdmitted
<1>3. CASE ~Admits(op)
  <2>1. r.state = "refused" /\ ~Admits(r.op)
    BY <1>1, <1>3
  <2>2. UNCHANGED <<pending, ordered>>
    BY <1>3 DEF Submitted
  <2>3. ordered' = Offset + Submitting'
    BY <2>2 DEF Offset, Submitting
  <2> HIDE DEF r
  <2> QED
    BY <1>1, <2>1, <2>2, <2>3 DEF NoneAdmitted
<1> QED
  BY <1>2, <1>3

LEMMA WriteStep ==
  ASSUME NativeInv, ordered \in Int, UNCHANGED <<pending, settled, finished>>,
         JsIdle, NEW size, NEW rest, NEW vector,
         WriteRequest(size, rest, vector)
  PROVE  NoneAdmitted
<1>1. call.step = "none"
  BY DEF JsIdle
<1>2. CASE ~(HasRoom /\ ~stop)
  BY <1>2 DEF WriteRequest, nativeVars, NoneAdmitted, Offset, Submitting
<1>3. CASE HasRoom /\ ~stop
  <2>1. Write(size, AllowInline) /\ ordered' = ordered + 1
    BY <1>3 DEF WriteRequest
  <2>2. /\ call'.step = "checked" /\ call'.inline = AllowInline
        /\ requests' = requests
    BY <2>1 DEF Write, Calling
  <2>3. ordered' = Offset + Submitting'
    BY <1>1, <2>1, <2>2 DEF Offset, Submitting
  <2>4. AllowInline => Offset = 0
    BY <1>1 DEF AllowInline, Offset, Submitting
  <2> QED
    BY <1>3, <2>2, <2>3, <2>4 DEF NoneAdmitted
<1> QED
  BY <1>2, <1>3

LEMMA AttemptStep ==
  ASSUME NativeInv, Room, ordered \in Int, AttemptWrite
  PROVE  NoneAdmitted
<1>1. /\ call.step = "checked" /\ call.id = NextId /\ call.size \in Nat
      /\ call.inline \in BOOLEAN /\ Attempt(call.id, call.size, call.inline)
  BY DEF AttemptWrite, WriteAttempt, NativeInv, Inv, Submission, QueueTypes,
         CallRecords, NextId
<1>2. UNCHANGED <<pending, settled, finished>>
  BY DEF AttemptWrite, lifeVars
<1> DEFINE r == [op |-> "write", size |-> call.size, state |-> "inline"]
           n == Fitting(call.size)
<1>3. \/ /\ call' = NoCall /\ requests' = Append(requests, r)
         /\ call.inline
      \/ call'.step = "remainder" /\ requests' = requests
  <2>1. PICK w \in Outcomes(call.inline) :
           IF w /\ (IF w THEN n ELSE 0) = call.size
           THEN call' = NoCall /\ requests' = Append(requests, r)
           ELSE /\ call' = [step |-> "remainder", id |-> call.id,
                            from |-> IF w THEN n ELSE 0, size |-> call.size,
                            inline |-> call.inline]
                /\ requests' = requests
    BY <1>1 DEF Attempt
  <2>2. w => call.inline
    BY <2>1 DEF Outcomes, MayBypass
  <2> HIDE DEF r, n
  <2> QED
    BY <2>1, <2>2
<1>4. r \in Requests /\ r.state = "inline"
  BY <1>1 DEF Requests, OrderedOps
<1> HIDE DEF r
<1>5. CASE call' = NoCall /\ requests' = Append(requests, r) /\ call.inline
  <2>1. call'.step = "none" /\ ordered' = ordered - 1
    BY <1>5 DEF AttemptWrite, NoCall
  <2>2. ordered' = Offset + Submitting'
    BY <1>1, <2>1 DEF Offset, Submitting
  <2>3. Offset = 0
    BY <1>1, <1>5 DEF Room
  <2> QED
    BY <1>1, <1>2, <1>4, <1>5, <2>1, <2>2, <2>3 DEF NoneAdmitted
<1>6. CASE call'.step = "remainder" /\ requests' = requests
  <2>1. ordered' = ordered
    BY <1>6 DEF AttemptWrite
  <2>2. ordered' = Offset + Submitting'
    BY <1>1, <1>6, <2>1 DEF Offset, Submitting
  <2> QED
    BY <1>1, <1>2, <1>6, <2>2 DEF NoneAdmitted
<1> QED
  BY <1>3, <1>5, <1>6

LEMMA RemainderStep ==
  ASSUME NativeInv, Room, ordered \in Int, FinishWriteCall
  PROVE  NoneAdmitted \/ OneAdmitted
<1>1. /\ call.step = "remainder" /\ call.id = NextId /\ call.size \in Nat
      /\ requests' = Recorded("write", call.size) /\ call'.step = "none"
  BY DEF FinishWriteCall, EnqueueRemainder, NativeInv, Inv, Submission,
         QueueTypes, CallRecords, NextId, NoCall
<1> DEFINE r == [op |-> "write", size |-> call.size,
                 state |-> IF Admits("write") THEN "queued" ELSE "refused"]
<1>2. r \in Requests /\ requests' = Append(requests, r) /\ Ordered(r.op)
  BY <1>1 DEF Requests, Recorded, Ordered, OrderedOps
<1>3. UNCHANGED <<settled, finished>>
  BY DEF FinishWriteCall, lifeVars
<1>4. CASE Admits("write")
  <2>1. r.state = "queued" /\ ~stop
    BY <1>4 DEF Admits
  <2>2. pending' = pending \cup {NextId} /\ ordered' = ordered
    BY <1>1, <1>4 DEF FinishWriteCall
  <2>3. ordered' = Offset + Submitting' + 1
    BY <1>1, <2>2 DEF Offset, Submitting
  <2>4. HasRoom
    BY <1>1 DEF Room
  <2> HIDE DEF r
  <2> QED
    BY <1>1, <1>2, <1>3, <2>1, <2>2, <2>3, <2>4 DEF OneAdmitted
<1>5. CASE ~Admits("write")
  <2>1. r.state = "refused" /\ ~Admits(r.op) /\ HasRoom
    BY <1>1, <1>5 DEF Room
  <2>2. pending' = pending /\ ordered' = ordered - 1
    BY <1>5 DEF FinishWriteCall
  <2>3. ordered' = Offset + Submitting'
    BY <1>1, <2>2 DEF Offset, Submitting
  <2> HIDE DEF r
  <2> QED
    BY <1>1, <1>2, <1>3, <2>1, <2>2, <2>3 DEF NoneAdmitted
<1> QED
  BY <1>4, <1>5

LEMMA CallbackStep ==
  ASSUME NativeInv, ordered \in Int, Callback
  PROVE  NoneAdmitted \/ OneSettled \/ AllSettled
<1> DEFINE event == callbacks[consumed + 1]
<1>1. /\ requests' = requests /\ call' = call /\ call.step = "none"
      /\ consumed + 1 \in DOMAIN callbacks
      /\ \/ event.kind = "open" /\ OnOpen
         \/ event.kind = "data" /\ OnData(event)
         \/ event.kind \in {"ok", "error", "busy", "read"} /\ OnReply(event)
         \/ event.kind = "close" /\ OnClose
  <2>1. consumed \in Nat /\ callbacks \in Seq(Event)
    BY DEF NativeInv, Shape, TaskTypes
  <2>2. Consume
    BY DEF Callback
  <2>3. consumed + 1 \in DOMAIN callbacks
    BY <2>1, <2>2 DEF Consume
  <2> QED
    BY <2>2, <2>3 DEF Callback, Consume
<1>2. event.kind = "close" => stop
  BY <1>1 DEF NativeInv, Closing
<1> HIDE DEF event
<1>3. CASE OnOpen \/ OnData(event)
  BY <1>1, <1>3
  DEF OnOpen, OnData, NoneAdmitted, Offset, Submitting, promiseVars, lifeVars
<1>4. CASE event.kind \in {"ok", "error", "busy", "read"} /\ OnReply(event)
  <2>1. UNCHANGED finished
    BY <1>4 DEF OnReply, lifeVars
  <2>2. CASE event.id \in pending
    <3>1. /\ pending' = pending \ {event.id}
          /\ ordered' = ordered
                - (IF Ordered(requests[event.id].op) THEN 1 ELSE 0)
          /\ settled' = Append(settled, Outcome(event.id, event.kind))
      BY <1>4, <2>2 DEF OnReply, AfterReply, OrderedAfter
    <3>2. event.kind \in Results
      BY <1>4 DEF Results
    <3> QED
      BY <1>1, <2>1, <2>2, <3>1, <3>2 DEF OneSettled
  <2>3. CASE event.id \notin pending
    BY <1>1, <1>4, <2>1, <2>3
    DEF OnReply, promiseVars, NoneAdmitted, Offset, Submitting
  <2> QED
    BY <2>2, <2>3
<1>5. CASE event.kind = "close" /\ OnClose
  BY <1>1, <1>2, <1>5 DEF OnClose, AllSettled
<1> QED
  BY <1>1, <1>3, <1>4, <1>5

LEMMA StepPromises ==
  ASSUME NativeInv, Room, ordered \in Int, [Next]_allVars
  PROVE  PromiseStep
<1> USE DEF PromiseStep
<1>1. ASSUME UNCHANGED <<requests, call, pending, settled, ordered, finished>>
      PROVE  NoneAdmitted
  BY <1>1 DEF NoneAdmitted, Offset, Submitting
<1>2. CASE UNCHANGED allVars
  BY <1>1, <1>2 DEF allVars, vars, nativeVars, bindingVars, promiseVars,
                    lifeVars
<1>3. ASSUME NEW sizes, StartWrite(sizes) PROVE NoneAdmitted
  <2>1. JsIdle /\ UNCHANGED <<pending, settled, finished>>
    BY <1>3 DEF StartWrite, lifeVars
  <2>2. CASE sizes = <<>>
    BY <1>1, <1>3, <2>1, <2>2 DEF StartWrite, nativeVars
  <2>3. CASE sizes # <<>>
    BY <1>3, <2>1, <2>3, WriteStep DEF StartWrite
  <2> QED
    BY <2>2, <2>3
<1>4. CASE ContinueWrite
  <2>1. JsIdle /\ UNCHANGED <<pending, settled, finished>>
    BY <1>4 DEF ContinueWrite, lifeVars
  <2>2. CASE Usable
    BY <1>4, <2>1, <2>2, WriteStep DEF ContinueWrite
  <2>3. CASE ~Usable
    BY <1>1, <1>4, <2>1, <2>3 DEF ContinueWrite, nativeVars
  <2> QED
    BY <2>2, <2>3
<1>5. CASE FinishWriteCall
  BY <1>5, RemainderStep
<1>14. CASE AttemptWrite
  BY <1>14, AttemptStep
<1>6. ASSUME NEW op, Operation(op) PROVE PromiseStep
  <2>1. /\ Submitted(op) /\ UNCHANGED <<settled, finished>>
        /\ call.step = "none" /\ call' = call
        /\ HasRoom
        /\ requests' = Recorded(op, 0) /\ op \in OrderedOps \cup {"read"}
    BY <1>6 DEF Operation, Request, JsIdle, lifeVars, OrderedOps
  <2> QED
    BY <2>1, SubmitStep
<1>7. ASSUME NEW size, ReadChunk(size) PROVE PromiseStep
  <2> DEFINE limit == Least(size, ChunkSize)
  <2>1. /\ Submitted("read") /\ UNCHANGED <<settled, finished>>
        /\ call.step = "none" /\ call' = call /\ HasRoom
        /\ requests' = Recorded("read", limit) /\ limit \in Nat
    BY <1>7, NativeAssumption DEF ReadChunk, ReadRequest, JsIdle, lifeVars
  <2> QED
    BY <2>1, SubmitStep
<1>8. CASE DrainContinue
  <2>1. \/ Request("drain") /\ Submitted("drain") /\ HasRoom
        \/ UNCHANGED <<nativeVars, pending, ordered, drained>>
    BY <1>8 DEF DrainContinue
  <2>2. CASE Request("drain") /\ Submitted("drain") /\ HasRoom
    <3>1. /\ UNCHANGED <<settled, finished>>
          /\ call.step = "none" /\ call' = call /\ HasRoom
          /\ requests' = Recorded("drain", 0)
          /\ "drain" \in OrderedOps \cup {"read"}
      BY <1>8, <2>2 DEF DrainContinue, Request, JsIdle, lifeVars, OrderedOps
    <3> QED
      BY <2>2, <3>1, SubmitStep
  <2>3. CASE UNCHANGED <<nativeVars, pending, ordered, drained>>
    BY <1>1, <1>8, <2>3 DEF DrainContinue, nativeVars, lifeVars
  <2> QED
    BY <2>1, <2>2, <2>3
<1>9. ASSUME NEW length, StartReading(length) PROVE NoneAdmitted
  <2>1. UNCHANGED <<pending, settled, ordered, finished>>
    BY <1>9 DEF StartReading, promiseVars, lifeVars
  <2>2. UNCHANGED <<requests, call>>
    BY <1>9 DEF StartReading, ReadCredit, nativeVars
  <2> QED
    BY <1>1, <2>1, <2>2
<1>10. CASE DrainCall \/ Deliver \/ Rest
  BY <1>1, <1>10 DEF DrainCall, Deliver, Rest, allVars, vars, nativeVars,
                     bindingVars, promiseVars, lifeVars
<1>11. CASE CloseCall \/ CancelOpen
  BY <1>1, <1>11 DEF CloseCall, CancelOpen, Close, promiseVars
<1>12. CASE Callback
  BY <1>12, CallbackStep
<1>13. CASE (Notify \/ Task \/ Device) /\ UNCHANGED bindingVars
  <2>1. UNCHANGED <<requests, call>>
    BY <1>13, TaskKeeps DEF Notify, Device, Arrive, Transmit, Shift, Lose,
                 nativeVars, jsVars
  <2> QED
    BY <1>1, <1>13, <2>1 DEF bindingVars, promiseVars, lifeVars
<1> QED
  BY <1>2, <1>3, <1>4, <1>5, <1>6, <1>7, <1>8, <1>9, <1>10, <1>11, <1>12,
     <1>13, <1>14
  DEF Next, Caller, Pump, Device
-----------------------------------------------------------------------------
(* Every promise is settled once, and _ordered counts the ordered ones     *)
(* that are not settled: a cardinality of ids, none of which is settled    *)
(* already and none of which comes after the close.                        *)
Unsettled == {id \in pending : Ordered(requests[id].op)}

Promises ==
  /\ settled \in Seq(Settlements) /\ ordered \in Int
  /\ finished => stop
  /\ SettledOnce
  /\ Offset = Cardinality(Unsettled)
  /\ Room

LEMMA PendingFacts ==
  ASSUME NativeInv, SettledOnce
  PROVE  /\ requests \in Seq(Requests) /\ DOMAIN requests = 1 .. Len(requests)
         /\ pending \subseteq 1 .. Len(requests) /\ IsFiniteSet(pending)
         /\ SettledIds \subseteq 1 .. Len(requests) /\ IsFiniteSet(SettledIds)
         /\ IsFiniteSet(Unsettled)
<1>1. requests \in Seq(Requests) /\ DOMAIN requests = 1 .. Len(requests)
  BY DEF NativeInv, Inv, QueueTypes
<1>2. pending \subseteq 1 .. Len(requests) /\ SettledIds \subseteq 1 .. Len(requests)
  BY <1>1 DEF SettledOnce, Queued
<1>3. IsFiniteSet(1 .. Len(requests))
  BY <1>1, FS_Interval
<1> QED
  BY <1>1, <1>2, <1>3, FS_Subset DEF Unsettled

LEMMA InitPromises == BindingInit => Promises
<1> SUFFICES ASSUME BindingInit PROVE Promises
  OBVIOUS
<1>1. /\ requests = <<>> /\ settled = <<>> /\ pending = {} /\ ordered = 0
      /\ finished = FALSE /\ call.step = "none"
  BY DEF BindingInit, Init, InitNative, InitBinding, NoCall
<1>2. Queued = {} /\ SettledIds = {} /\ Unsettled = {}
  BY <1>1 DEF Queued, SettledIds, Unsettled
<1> QED
  BY <1>1, <1>2, FS_EmptySet DEF Promises, SettledOnce, Offset, Submitting, Room

LEMMA StopStays == ASSUME [AnyStep]_vars, stop PROVE stop'
<1>1. CASE Task
  <2>1. CASE MarkStopped
    BY <2>1 DEF MarkStopped
  <2>2. CASE \/ Opened \/ OpenFailed \/ PublishOpen \/ CheckStop \/ LeaveFront
             \/ FinishWrite \/ Control \/ Flush \/ StartDrain \/ FinishDrain
             \/ SendAnswer \/ Notified \/ ReceiveOrdered \/ ReceiveRead
    BY <2>2
    DEF Opened, OpenFailed, PublishOpen, CheckStop, LeaveFront, FinishWrite,
        Control, Flush, StartDrain, FinishDrain, SendAnswer, Notified,
        ReceiveOrdered, ReceiveRead, controlVars
  <2>3. CASE \/ ReceiveCredit \/ PollTransfers \/ NothingReady
             \/ TransferFailed \/ TransferWrite \/ TransferRead
             \/ TransferStream \/ BurstRead \/ BurstEnd \/ DropReceiver
             \/ Release \/ SendClose
    BY <2>3
    DEF ReceiveCredit, PollTransfers, NothingReady, TransferFailed,
        TransferWrite, TransferRead, TransferStream, BurstRead, BurstEnd,
        DropReceiver, Release, SendClose, controlVars
  <2> QED
    BY <1>1, <2>1, <2>2, <2>3 DEF Task
<1>2. CASE AnyCall
  BY <1>2
  DEF AnyCall, Request, ReadRequest, Write, WritevSnapshot, ReadCredit,
      WritevRecheck, WriteAttempt, EnqueueRemainder, Close, Notify, Consume,
      EnvTeardown
<1>3. CASE OfDevice \/ UNCHANGED vars
  BY <1>3
  DEF OfDevice, Arrive, Transmit, Shift, Lose, vars, nativeVars, controlVars
<1> QED
  BY <1>1, <1>2, <1>3 DEF AnyStep

(* The promises that are left when the port closes, in ascending order.    *)
LEMMA Rejects ==
  ASSUME settled \in Seq(Settlements), pending \subseteq Nat,
         IsFiniteSet(pending), RejectPending
  PROVE  /\ settled' \in Seq(Settlements)
         /\ SettledIds' = SettledIds \cup pending
         /\ Len(settled') = Len(settled) + Cardinality(pending)
         /\ pending' = {}
         /\ \A o \in {settled'[i] : i \in DOMAIN settled'} :
              o \in {settled[i] : i \in DOMAIN settled} \/ o.result = "closed"
<1>1. PICK ids \in Ascending(pending) :
        settled' = settled \o [i \in DOMAIN ids |-> Outcome(ids[i], "closed")]
  BY DEF RejectPending
<1>2. PICK n : n = Cardinality(pending)
  OBVIOUS
<1>3. n \in Nat
  BY <1>2, FS_CardinalityType
<1>4. /\ ids \in [1 .. n -> pending]
      /\ \A i, j \in 1 .. n : i < j => ids[i] < ids[j]
  BY <1>1, <1>2 DEF Ascending
<1>5. ids \in Injection(1 .. n, pending)
  <2>1. ASSUME NEW i \in 1 .. n, NEW j \in 1 .. n, ids[i] = ids[j]
        PROVE  i = j
    <3>1. ids[i] \in Nat /\ ids[j] \in Nat /\ i \in Nat /\ j \in Nat
      <4>1. ids[i] \in pending /\ ids[j] \in pending
        BY <1>4
      <4>2. ids[i] \in Nat /\ ids[j] \in Nat
        BY <4>1
      <4>3. i \in Nat /\ j \in Nat
        BY <1>3
      <4> QED
        BY <4>2, <4>3
    <3>2. ~(i < j) /\ ~(j < i)
      BY <1>4, <2>1, <3>1
    <3> QED
      BY <3>1, <3>2
  <2> QED
    BY <1>4, <2>1 DEF Injection, IsInjective
<1>6. \A id \in pending : \E i \in 1 .. n : ids[i] = id
  <2>1. Cardinality(1 .. n) = Cardinality(pending)
    BY <1>2, <1>3, FS_Interval
  <2>2. ids \in Surjection(1 .. n, pending)
    BY <1>5, <2>1, FS_Injection
  <2> QED
    BY <2>2 DEF Surjection
<1> DEFINE rest == [i \in 1 .. n |-> Outcome(ids[i], "closed")]
<1>7. settled' = settled \o rest
  <2>1. DOMAIN ids = 1 .. n
    BY <1>4
  <2> QED
    BY <1>1, <2>1
<1>8. /\ rest \in Seq(Settlements) /\ Len(rest) = n
      /\ \A i \in 1 .. n : rest[i].id = ids[i] /\ rest[i].result = "closed"
  <2>1. \A i \in 1 .. n : Outcome(ids[i], "closed") \in Settlements
    BY <1>4 DEF Outcome, Settlements, Results
  <2> QED
    BY <1>3, <2>1 DEF Outcome
<1> HIDE DEF rest
<1>9. /\ settled' \in Seq(Settlements) /\ Len(settled') = Len(settled) + n
      /\ \A i \in 1 .. Len(settled) : settled'[i] = settled[i]
      /\ \A i \in 1 .. n : settled'[Len(settled) + i] = rest[i]
      /\ Len(settled) \in Nat
  <2>1. PICK S : S = Settlements
    OBVIOUS
  <2>2. settled \in Seq(S) /\ rest \in Seq(S) /\ Len(rest) = n
    BY <1>8, <2>1
  <2>3. settled' \in Seq(S) /\ Len(settled') = Len(settled) + n
    BY <1>7, <2>2, ConcatProperties
  <2>4. Len(settled) \in Nat
    BY <2>2
  <2>5. ASSUME NEW i \in 1 .. Len(settled) PROVE settled'[i] = settled[i]
    BY <1>7, <2>2, <2>5
  <2>6. ASSUME NEW i \in 1 .. n PROVE settled'[Len(settled) + i] = rest[i]
    BY <1>3, <1>7, <2>2, <2>4, <2>6
  <2> QED
    BY <2>1, <2>3, <2>4, <2>5, <2>6
<1>10. SettledIds' = SettledIds \cup pending
  <2>1. ASSUME NEW i \in 1 .. (Len(settled) + n)
        PROVE  settled'[i].id \in SettledIds \cup pending
    <3>1. CASE i <= Len(settled)
      BY <1>9, <2>1, <3>1 DEF SettledIds
    <3>2. CASE i > Len(settled)
      <4>1. PICK k \in 1 .. n : i = Len(settled) + k
        <5>1. i - Len(settled) \in 1 .. n
          BY <1>3, <1>9, <3>2
        <5> QED
          BY <1>9, <5>1
      <4> QED
        BY SMTT(20), <1>4, <1>8, <1>9, <4>1
    <3> QED
      BY <1>3, <1>9, <3>1, <3>2
  <2>2. SettledIds \subseteq SettledIds'
    BY <1>3, <1>9 DEF SettledIds
  <2>3. ASSUME NEW id \in pending PROVE id \in SettledIds'
    <3>1. PICK k \in 1 .. n : ids[k] = id
      BY <1>6
    <3>2. settled'[Len(settled) + k].id = id
      BY <1>8, <1>9, <3>1
    <3>3. Len(settled) + k \in DOMAIN settled'
      BY <1>3, <1>9
    <3> QED
      BY <3>2, <3>3 DEF SettledIds
  <2>4. ASSUME NEW x \in SettledIds' PROVE x \in SettledIds \cup pending
    <3>1. PICK i \in DOMAIN settled' : x = settled'[i].id
      BY DEF SettledIds
    <3> QED
      BY <1>9, <2>1, <3>1
  <2> QED
    BY <2>2, <2>3, <2>4
<1>11. ASSUME NEW o \in {settled'[i] : i \in DOMAIN settled'}
       PROVE  o \in {settled[i] : i \in DOMAIN settled} \/ o.result = "closed"
  <2>1. PICK i \in 1 .. (Len(settled) + n) : o = settled'[i]
    BY <1>9, <1>11
  <2>2. CASE i <= Len(settled)
    BY <1>9, <2>1, <2>2
  <2>3. CASE i > Len(settled)
    <3>1. i - Len(settled) \in 1 .. n
      BY <1>3, <1>9, <2>3
    <3>2. PICK k \in 1 .. n : i = Len(settled) + k
      BY <1>9, <3>1
    <3> QED
      BY <1>8, <1>9, <2>1, <3>2
  <2> QED
    BY <1>3, <1>9, <2>2, <2>3
<1> QED
  BY <1>2, <1>9, <1>10, <1>11 DEF RejectPending

(* The ids that are queued or unsettled, when a request is recorded.       *)
LEMMA AppendRequest ==
  ASSUME NativeInv, SettledOnce, NEW r \in Requests,
         requests' = Append(requests, r)
  PROVE  /\ NextId \notin pending \cup SettledIds /\ NextId \in Nat
         /\ Queued' = Queued \cup (IF r.state = "queued" THEN {NextId} ELSE {})
         /\ pending' = pending => Unsettled' = Unsettled
         /\ pending' = pending \cup {NextId} =>
              Unsettled' = Unsettled
                              \cup (IF Ordered(r.op) THEN {NextId} ELSE {})
<1>1. /\ pending \subseteq 1 .. Len(requests) /\ Len(requests) \in Nat
      /\ SettledIds \subseteq 1 .. Len(requests)
      /\ DOMAIN requests = 1 .. Len(requests) /\ NextId = Len(requests) + 1
  BY PendingFacts DEF NextId
<1>2. /\ DOMAIN requests' = 1 .. NextId
      /\ \A id \in 1 .. Len(requests) : requests'[id] = requests[id]
      /\ requests'[NextId] = r
  BY <1>1, PendingFacts
<1>3. NextId \notin pending \cup SettledIds /\ NextId \in Nat
  BY <1>1
<1>4. DOMAIN requests' = DOMAIN requests \cup {NextId}
  BY <1>1, <1>2
<1>5. Queued' = Queued \cup (IF r.state = "queued" THEN {NextId} ELSE {})
  BY <1>1, <1>2, <1>4 DEF Queued
<1>6. \A id \in pending : requests'[id] = requests[id]
  BY <1>1, <1>2
<1>7. pending' = pending => Unsettled' = Unsettled
  BY <1>6 DEF Unsettled
<1>8. ASSUME pending' = pending \cup {NextId}
      PROVE  Unsettled' = Unsettled
                            \cup (IF Ordered(r.op) THEN {NextId} ELSE {})
  BY <1>2, <1>6, <1>8 DEF Unsettled
<1> QED
  BY <1>3, <1>5, <1>7, <1>8

LEMMA SettleOne ==
  ASSUME settled \in Seq(Settlements), NEW id \in Nat, NEW result \in Results,
         settled' = Append(settled, Outcome(id, result))
  PROVE  /\ settled' \in Seq(Settlements) /\ Len(settled') = Len(settled) + 1
         /\ SettledIds' = SettledIds \cup {id}
<1>1. PICK e \in Settlements : e = Outcome(id, result) /\ e.id = id
  BY DEF Outcome, Settlements
<1>2. /\ settled' \in Seq(Settlements) /\ Len(settled') = Len(settled) + 1
      /\ \A i \in 1 .. Len(settled) : settled'[i] = settled[i]
      /\ settled'[Len(settled) + 1] = e
      /\ DOMAIN settled = 1 .. Len(settled) /\ Len(settled) \in Nat
      /\ DOMAIN settled' = 1 .. (Len(settled) + 1)
  BY <1>1
<1>3. DOMAIN settled' = DOMAIN settled \cup {Len(settled) + 1}
  BY <1>2
<1>4. SettledIds' = SettledIds \cup {id}
  BY <1>1, <1>2, <1>3 DEF SettledIds
<1> QED
  BY <1>2, <1>4

LEMMA NextPromises ==
  ASSUME NativeInv, Promises, [Next]_allVars PROVE Promises'
<1>1. PromiseStep /\ (stop => stop')
  BY StepPromises, NextConforms, StopStays DEF Promises
<1>2. /\ settled \in Seq(Settlements) /\ SettledOnce /\ ordered \in Int
      /\ finished => stop /\ pending = {}
      /\ Offset = Cardinality(Unsettled) /\ Offset \in Int
      /\ Queued = pending \cup SettledIds /\ pending \cap SettledIds = {}
      /\ Cardinality(SettledIds) = Len(settled) /\ Room
  BY DEF Promises, SettledOnce, Offset, Submitting
<1>3. /\ requests \in Seq(Requests) /\ DOMAIN requests = 1 .. Len(requests)
      /\ pending \subseteq 1 .. Len(requests) /\ IsFiniteSet(pending)
      /\ SettledIds \subseteq 1 .. Len(requests) /\ IsFiniteSet(SettledIds)
      /\ IsFiniteSet(Unsettled) /\ Cardinality(Unsettled) \in Nat
      /\ pending \subseteq Nat
  BY <1>2, PendingFacts, FS_CardinalityType
<1>4. ASSUME /\ settled' \in Seq(Settlements)
             /\ ordered' \in Int /\ Offset' = Cardinality(Unsettled')
             /\ finished' => stop' /\ pending' = {}
             /\ Queued' = pending' \cup SettledIds'
             /\ pending' \cap SettledIds' = {}
             /\ Cardinality(SettledIds') = Len(settled')
             /\ Room'
      PROVE  Promises'
  BY <1>4 DEF Promises, SettledOnce
<1>5. ASSUME settled' = settled PROVE SettledIds' = SettledIds
  BY <1>5 DEF SettledIds
<1>6. ASSUME requests' = requests PROVE Queued' = Queued
  BY <1>6 DEF Queued
<1>7. Submitting' \in Int /\ Offset' = ordered' - Submitting'
  BY DEF Offset, Submitting
<1>8. CASE NoneAdmitted
  <2>1. /\ settled' = settled /\ pending' = pending /\ finished' = finished
        /\ ordered' = Offset + Submitting'
    BY <1>8 DEF NoneAdmitted
  <2>2. ordered' \in Int /\ Offset' = Offset
    BY <1>2, <1>7, <2>1
  <2>3. Queued' = Queued /\ Unsettled' = Unsettled
    <3>1. CASE requests' = requests
      BY <1>6, <2>1, <3>1 DEF Unsettled
    <3>2. CASE \E r \in Requests :
                 requests' = Append(requests, r) /\ r.state # "queued"
      <4>1. PICK r \in Requests :
              requests' = Append(requests, r) /\ r.state # "queued"
        BY <3>2
      <4> QED
        BY <1>2, <2>1, <4>1, AppendRequest
    <3> QED
      BY <1>8, <3>1, <3>2 DEF NoneAdmitted
  <2>4. Room'
    BY <1>2, <1>8, <2>2 DEF NoneAdmitted, Room, HasRoom
  <2> QED
    BY <1>1, <1>2, <1>4, <1>5, <2>1, <2>2, <2>3, <2>4
<1>9. CASE OneAdmitted
  <2>1. /\ settled' = settled /\ finished' = finished /\ ~stop
        /\ pending' = pending \cup {NextId}
    BY <1>9 DEF OneAdmitted
  <2>2. PICK r \in Requests :
          /\ requests' = Append(requests, r) /\ r.state = "queued"
          /\ ordered' = Offset + Submitting'
                          + (IF Ordered(r.op) THEN 1 ELSE 0)
    BY <1>9 DEF OneAdmitted
  <2>3. /\ NextId \notin pending \cup SettledIds
        /\ Queued' = Queued \cup {NextId}
        /\ Unsettled' = Unsettled
                          \cup (IF Ordered(r.op) THEN {NextId} ELSE {})
    BY <1>2, <2>1, <2>2, AppendRequest
  <2>4. /\ ordered' \in Int
        /\ Offset' = Offset + (IF Ordered(r.op) THEN 1 ELSE 0)
    BY SMTT(20), <1>2, <1>7, <2>2
  <2>5. Offset' = Cardinality(Unsettled')
    <3>1. CASE Ordered(r.op)
      <4>1. NextId \notin Unsettled
        BY <2>3 DEF Unsettled
      <4>2. Cardinality(Unsettled \cup {NextId}) = Cardinality(Unsettled) + 1
        BY <1>3, <4>1, FS_AddElement
      <4> QED
        BY <1>2, <2>3, <2>4, <3>1, <4>2
    <3>2. CASE ~Ordered(r.op)
      <4>1. Unsettled' = Unsettled
        BY <2>3, <3>2
      <4> QED
        BY <1>2, <2>4, <3>2, <4>1
    <3> QED
      BY <3>1, <3>2
  <2>6. /\ Queued' = pending' \cup SettledIds'
        /\ pending' \cap SettledIds' = {}
    BY <1>2, <1>5, <2>1, <2>3
  <2>7. Room'
    BY <1>9 DEF OneAdmitted, Room
  <2> QED
    BY <1>1, <1>2, <1>4, <1>5, <2>1, <2>4, <2>5, <2>6, <2>7
<1>10. CASE OneSettled
  <2>1. PICK id \in pending, result \in Results :
          /\ pending' = pending \ {id}
          /\ ordered' = ordered - (IF Ordered(requests[id].op) THEN 1 ELSE 0)
          /\ settled' = Append(settled, Outcome(id, result))
    BY <1>10 DEF OneSettled
  <2>2. requests' = requests /\ finished' = finished /\ call' = call /\ Room'
    BY <1>10 DEF OneSettled, Room
  <2>3. /\ settled' \in Seq(Settlements) /\ Len(settled') = Len(settled) + 1
        /\ SettledIds' = SettledIds \cup {id}
    BY <1>2, <1>3, <2>1, SettleOne
  <2>4. Cardinality(SettledIds') = Len(settled')
    <3>1. Cardinality(SettledIds \cup {id}) = Cardinality(SettledIds) + 1
      BY <1>2, <1>3, <2>1, FS_AddElement
    <3> QED
      BY <1>2, <2>3, <3>1
  <2>5. Submitting' = Submitting
    BY <2>2 DEF Submitting
  <2>6. /\ ordered' \in Int
        /\ Offset' = Offset - (IF Ordered(requests[id].op) THEN 1 ELSE 0)
    BY <1>2, <1>7, <2>1, <2>5 DEF Offset, Submitting
  <2>7. Offset' = Cardinality(Unsettled')
    <3>1. CASE Ordered(requests[id].op)
      <4>1. id \in Unsettled /\ Unsettled' = Unsettled \ {id}
        BY <2>1, <2>2, <3>1 DEF Unsettled
      <4>2. Cardinality(Unsettled \ {id}) = Cardinality(Unsettled) - 1
        BY <1>3, <4>1, FS_RemoveElement
      <4> QED
        BY <1>2, <2>6, <3>1, <4>1, <4>2
    <3>2. CASE ~Ordered(requests[id].op)
      <4>1. Unsettled' = Unsettled
        BY <2>1, <2>2, <3>2 DEF Unsettled
      <4> QED
        BY <1>2, <2>6, <3>2, <4>1
    <3> QED
      BY <3>1, <3>2
  <2>8. /\ Queued' = pending' \cup SettledIds'
        /\ pending' \cap SettledIds' = {}
    BY <1>2, <1>6, <2>1, <2>2, <2>3
  <2>9. finished => pending' = {}
    BY <1>2, <2>1
  <2> QED
    BY <1>1, <1>2, <1>4, <2>2, <2>3, <2>4, <2>6, <2>7, <2>8, <2>9
<1>11. CASE AllSettled
  <2>1. /\ stop /\ requests' = requests /\ call' = call /\ ordered' = 0
        /\ call.step = "none" /\ RejectPending /\ Room'
    BY <1>11 DEF AllSettled, Room
  <2>2. /\ settled' \in Seq(Settlements) /\ pending' = {}
        /\ SettledIds' = SettledIds \cup pending
        /\ Len(settled') = Len(settled) + Cardinality(pending)
    BY <1>2, <1>3, <2>1, Rejects
  <2>3. Cardinality(SettledIds') = Len(settled')
    <3>1. Cardinality(SettledIds \cup pending)
            = Cardinality(SettledIds) + Cardinality(pending)
      <4>1. Cardinality(SettledIds \cap pending) = 0
        BY <1>2, FS_EmptySet
      <4>2. Cardinality(SettledIds \cup pending)
              = Cardinality(SettledIds) + Cardinality(pending)
                  - Cardinality(SettledIds \cap pending)
        BY <1>3, FS_Union
      <4> QED
        BY <1>3, <4>1, <4>2, FS_CardinalityType
    <3> QED
      BY <1>2, <2>2, <3>1
  <2>4. ordered' \in Int /\ Offset' = Cardinality(Unsettled')
    <3>1. Unsettled' = {} /\ Offset' = 0
      BY <2>1, <2>2 DEF Unsettled, Offset, Submitting
    <3> QED
      BY <2>1, <3>1, FS_EmptySet
  <2>5. /\ Queued' = pending' \cup SettledIds'
        /\ pending' \cap SettledIds' = {}
    BY <1>2, <1>6, <2>1, <2>2
  <2> QED
    BY <1>1, <1>4, <2>1, <2>2, <2>3, <2>4, <2>5
<1> QED
  BY <1>1, <1>8, <1>9, <1>10, <1>11 DEF PromiseStep

LEMMA StillPromised == Spec => [](NativeInv /\ Promises)
BY InitPromises, NextPromises, StillNative, PTL DEF Spec

(* Every request that was admitted has one promise, which is settled once, *)
(* at the latest when the port is closed.                                  *)
THEOREM SettlesOnce == Spec => []SettledOnce
<1>1. Promises => SettledOnce
  BY DEF Promises
<1> QED
  BY StillPromised, <1>1, PTL

(* A write completes at once only when no earlier ordered promise is       *)
(* unsettled: AllowInline tests _ordered, which is exact.                  *)
THEOREM CompletesInOrder == Spec => CompletionOrder
<1> DEFINE InOrder ==
             \A id \in DOMAIN requests' \ DOMAIN requests :
               requests'[id].state = "inline"
                 => \A p \in pending : ~Ordered(requests[p].op)
<1>1. ASSUME NativeInv, Promises, [Next]_allVars PROVE InOrder
  <2>1. PromiseStep
    BY <1>1, StepPromises DEF Promises
  <2>2. requests \in Seq(Requests)
    BY <1>1, PendingFacts DEF Promises
  <2>3. ASSUME NEW r \in Requests, requests' = Append(requests, r),
               NEW id \in DOMAIN requests' \ DOMAIN requests
        PROVE  requests'[id] = r
    <3>1. /\ DOMAIN requests = 1 .. Len(requests) /\ Len(requests) \in Nat
          /\ DOMAIN requests' = 1 .. (Len(requests) + 1)
          /\ requests'[Len(requests) + 1] = r
      BY <2>2, <2>3
    <3>2. id = Len(requests) + 1
      BY <2>3, <3>1
    <3> QED
      BY <3>1, <3>2
  <2>4. ASSUME NoneAdmitted, NEW id \in DOMAIN requests' \ DOMAIN requests,
               requests'[id].state = "inline"
        PROVE  \A p \in pending : ~Ordered(requests[p].op)
    <3>1. PICK r \in Requests :
            /\ requests' = Append(requests, r)
            /\ r.state = "inline" => Offset = 0
      BY <2>4 DEF NoneAdmitted
    <3>2. Offset = 0
      BY <2>3, <2>4, <3>1
    <3>3. Cardinality(Unsettled) = 0
      BY <1>1, <3>2 DEF Promises
    <3>4. Unsettled = {}
      BY <1>1, <3>3, PendingFacts, FS_EmptySet DEF Promises
    <3> QED
      BY <3>4 DEF Unsettled
  <2>5. CASE OneAdmitted
    <3>1. PICK r \in Requests :
            requests' = Append(requests, r) /\ r.state = "queued"
      BY <2>5 DEF OneAdmitted
    <3> QED
      BY <2>3, <3>1
  <2>6. CASE OneSettled \/ AllSettled
    BY <2>6 DEF OneSettled, AllSettled
  <2> QED
    BY <2>1, <2>4, <2>5, <2>6 DEF PromiseStep
<1>2. NativeInv /\ Promises /\ [Next]_allVars => [InOrder]_allVars
  BY <1>1
<1> QED
  BY StillPromised, <1>2, PTL DEF Spec, CompletionOrder
-----------------------------------------------------------------------------
(* Single-shot reads and read credit exclude each other, and there is at   *)
(* most one single-shot read: in the channel, with the task, or in the     *)
(* callback queue.  So neither the error for credit during a read nor the  *)
(* "busy" answer ever happens.                                             *)
InChannel == {i \in DOMAIN channel : channel[i].op = "read"}
WithTask == read # <<>> /\ pc \notin Over
InQueue == {i \in consumed + 1 .. Len(callbacks) : callbacks[i].kind = "read"}

OneRead ==
  /\ \A i, j \in InChannel : i = j
  /\ \A i, j \in InQueue : i = j
  /\ InChannel # {} => ~WithTask /\ InQueue = {}
  /\ WithTask => InQueue = {}
  /\ InChannel # {} \/ WithTask \/ InQueue # {} => jsReading

Exclusive ==
  /\ jsReading \in BOOLEAN /\ jsStreaming \in BOOLEAN
  /\ ~(jsReading /\ jsStreaming)
  /\ streaming => jsStreaming
  /\ \A i \in DOMAIN channel :
       IsCredit(channel[i]) => jsStreaming /\ channel[i].slots > 0
  /\ answer.kind # "busy"
  /\ \A i \in DOMAIN callbacks : callbacks[i].kind # "busy"

Reads == OneRead /\ Exclusive

LEMMA InitReads == BindingInit => Reads
<1> SUFFICES ASSUME BindingInit PROVE Reads
  OBVIOUS
<1>1. /\ channel = <<>> /\ callbacks = <<>> /\ consumed = 0 /\ read = <<>>
      /\ streaming = FALSE /\ jsReading = FALSE /\ jsStreaming = FALSE
      /\ answer.kind = "open"
  BY DEF BindingInit, Init, InitNative, InitReactor, InitBinding, NoEvent
<1>2. InChannel = {} /\ InQueue = {} /\ ~WithTask /\ DOMAIN channel = {}
      /\ DOMAIN callbacks = {}
  BY <1>1 DEF InChannel, InQueue, WithTask
<1> QED
  BY <1>1, <1>2 DEF Reads, OneRead, Exclusive

(* How JavaScript and the environment touch what Reads is about.           *)
Joins(c) == channel' = Append(channel, c)

JsRead ==
  /\ ~jsReading /\ ~jsStreaming /\ jsStreaming' = jsStreaming
  /\ consumed' = consumed
  /\ \/ channel' = channel /\ jsReading' = FALSE
     \/ /\ jsReading' = TRUE
        /\ \E c \in Command : c.op = "read" /\ Joins(c)

JsStream ==
  /\ ~jsReading /\ jsReading' = jsReading /\ jsStreaming' = TRUE
  /\ consumed' = consumed
  /\ \/ channel' = channel
     \/ \E c \in Command : IsCredit(c) /\ c.slots > 0 /\ Joins(c)

JsCredit == JsStream /\ \E length \in Windows : StartReading(length)

JsOther ==
  /\ UNCHANGED <<jsReading, jsStreaming, consumed>>
  /\ channel' = channel \/ \E c \in Command : Ordered(c.op) /\ Joins(c)

LEMMA EnqueueEffect ==
  ASSUME NEW c \in Command, Enqueue(c)
  PROVE  channel' = IF Admits(c.op) THEN Append(channel, c) ELSE channel
BY DEF Enqueue

LEMMA JsReads ==
  ASSUME Port, [Next]_allVars
  PROVE  \/ Task /\ UNCHANGED <<consumed, bindingVars>>
         \/ /\ UNCHANGED <<read, streaming, pc, answer, callbacks>>
            /\ Callback \/ JsRead \/ JsCredit \/ JsOther
<1> USE DEF lifeVars, creditVars, promiseVars, nativeVars, reactorVars,
            taskVars
<1>1. /\ call \in CallRecords /\ NextId \in Nat
  BY DEF Port, NativeInv, Inv, QueueTypes, NextId
<1> DEFINE Goal == /\ UNCHANGED <<read, streaming, pc, answer, callbacks>>
                   /\ Callback \/ JsRead \/ JsCredit \/ JsOther
<1>2. CASE UNCHANGED allVars \/ Rest
  BY <1>2 DEF Rest, allVars, vars, bindingVars, JsOther
<1>3. ASSUME NEW sizes, StartWrite(sizes) PROVE Goal
  <2>1. UNCHANGED <<channel, consumed, callbacks>>
    BY <1>3 DEF StartWrite, WriteRequest, Write
  <2> QED
    BY <1>3, <2>1 DEF StartWrite, JsOther
<1>4. CASE ContinueWrite
  <2>1. UNCHANGED <<channel, consumed, callbacks>>
    BY <1>4 DEF ContinueWrite, WriteRequest, Write
  <2> QED
    BY <1>4, <2>1 DEF ContinueWrite, JsOther
<1>17. CASE AttemptWrite
  <2>1. UNCHANGED <<channel, consumed, callbacks>>
    BY <1>17 DEF AttemptWrite, WriteAttempt
  <2> QED
    BY <1>17, <2>1 DEF AttemptWrite, JsOther
<1>5. CASE FinishWriteCall
  <2> DEFINE c == [id |-> call.id, op |-> "write", from |-> call.from,
                   size |-> call.size, slots |-> 0]
  <2>1. c \in Command /\ Ordered(c.op)
    BY <1>1 DEF Command, CallRecords, Ordered, OrderedOps
  <2>2. Enqueue(c) /\ UNCHANGED <<consumed, callbacks>>
    BY <1>5 DEF FinishWriteCall, EnqueueRemainder
  <2>3. channel' = channel \/ Joins(c)
    BY <2>1, <2>2, EnqueueEffect DEF Joins
  <2> HIDE DEF c
  <2>4. channel' = channel \/ \E d \in Command : Ordered(d.op) /\ Joins(d)
    BY <2>1, <2>3
  <2> QED
    BY <1>5, <2>2, <2>4 DEF FinishWriteCall, JsOther
<1>6. ASSUME NEW op, Request(op)
      PROVE  /\ UNCHANGED <<consumed, callbacks>>
             /\ channel' = channel \/ \E d \in Command : Ordered(d.op) /\ Joins(d)
  <2> DEFINE c == [id |-> NextId, op |-> op, from |-> 0, size |-> 0, slots |-> 0]
  <2>1. c \in Command /\ Ordered(c.op)
    BY <1>1, <1>6 DEF Request, Command, Ordered, OrderedOps
  <2>2. Enqueue(c) /\ UNCHANGED <<consumed, callbacks>>
    BY <1>6 DEF Request
  <2>3. channel' = channel \/ Joins(c)
    BY <2>1, <2>2, EnqueueEffect DEF Joins
  <2> HIDE DEF c
  <2> QED
    BY <2>1, <2>2, <2>3
<1>7. ASSUME NEW op, Operation(op) PROVE Goal
  BY <1>6, <1>7 DEF Operation, JsOther
<1>8. CASE DrainContinue
  <2>1. /\ UNCHANGED <<consumed, callbacks>>
        /\ channel' = channel \/ \E d \in Command : Ordered(d.op) /\ Joins(d)
    BY <1>6, <1>8 DEF DrainContinue
  <2> QED
    BY <1>8, <2>1 DEF DrainContinue, JsOther
<1>9. ASSUME NEW size, ReadChunk(size) PROVE Goal
  <2> DEFINE limit == Least(size, ChunkSize)
             c == [id |-> NextId, op |-> "read", from |-> 0, size |-> limit,
                   slots |-> 0]
  <2>1. limit \in Nat
    BY <1>9, NativeAssumption DEF ReadChunk, ReadRequest
  <2>2. c \in Command /\ c.op = "read"
    BY <1>1, <2>1 DEF Command
  <2>3. Enqueue(c) /\ UNCHANGED <<consumed, callbacks>>
    BY <1>9 DEF ReadChunk, ReadRequest
  <2>4. channel' = IF Admits("read") THEN Append(channel, c) ELSE channel
    BY <2>2, <2>3, EnqueueEffect
  <2>5. /\ ~jsReading /\ ~jsStreaming /\ jsReading' = Admits("read")
        /\ UNCHANGED <<jsStreaming, read, streaming, pc, answer>>
    BY <1>9 DEF ReadChunk
  <2> HIDE DEF c
  <2>6. JsRead
    <3>1. CASE Admits("read")
      BY <2>2, <2>3, <2>4, <2>5, <3>1 DEF JsRead, Joins
    <3>2. CASE ~Admits("read")
      BY <2>3, <2>4, <2>5, <3>2 DEF JsRead
    <3> QED
      BY <3>1, <3>2
  <2> QED
    BY <2>3, <2>5, <2>6
<1>10. ASSUME NEW length \in Windows, StartReading(length) PROVE Goal
  <2>1. /\ ~jsReading /\ jsStreaming' = TRUE
        /\ UNCHANGED <<jsReading, read, streaming, pc, answer>>
    BY <1>10 DEF StartReading
  <2> DEFINE size == Least(length, ChunkSize)
             bytes == FreeBytes(size)
             slots == FreeSlots
  <2>2. ReadCredit(bytes, slots) \/ UNCHANGED nativeVars
    BY <1>10 DEF StartReading
  <2> HIDE DEF bytes, slots
  <2>3. CASE ReadCredit(bytes, slots)
    <3> DEFINE c == [id |-> 0, op |-> "credit", from |-> 0, size |-> bytes,
                     slots |-> slots]
    <3>1. c \in Command /\ IsCredit(c) /\ c.slots > 0
      BY <2>3, NativeAssumption DEF ReadCredit, Command, IsCredit
    <3>2. Enqueue(c) /\ UNCHANGED <<consumed, callbacks>>
      BY <2>3 DEF ReadCredit
    <3>3. channel' = channel \/ Joins(c)
      BY <3>1, <3>2, EnqueueEffect DEF Joins
    <3> HIDE DEF c
    <3>4. JsStream
      BY <2>1, <3>1, <3>2, <3>3 DEF JsStream
    <3> QED
      BY <1>10, <2>1, <3>2, <3>4 DEF JsCredit
  <2>4. CASE UNCHANGED nativeVars
    <3>1. UNCHANGED <<channel, consumed, callbacks>>
      BY <2>4
    <3> QED
      BY <1>10, <2>1, <3>1 DEF JsStream, JsCredit
  <2> QED
    BY <2>2, <2>3, <2>4
<1>11. CASE DrainCall \/ Deliver
  BY <1>11 DEF DrainCall, Deliver, vars, JsOther
<1>12. CASE CloseCall \/ CancelOpen
  BY <1>12 DEF CloseCall, CancelOpen, Close, JsOther
<1>13. CASE Callback
  BY <1>13 DEF Callback, Consume
<1>14. CASE Notify /\ UNCHANGED <<reactorVars, bindingVars>>
  BY <1>14 DEF Notify, bindingVars, JsOther
<1>15. CASE Device
  BY <1>15 DEF Device, Arrive, Transmit, Shift, Lose, bindingVars, queueVars,
               jsVars, JsOther
<1>16. CASE Task /\ UNCHANGED bindingVars
  BY <1>16, TaskKeeps DEF jsVars
<1> QED
  BY <1>2, <1>3, <1>4, <1>5, <1>17, <1>7, <1>8, <1>9, <1>10, <1>11, <1>12, <1>13,
     <1>14, <1>15, <1>16
  DEF Next, Caller, Pump

(* The effects on where the single-shot read can be.                       *)
LEMMA ChannelReads ==
  ASSUME channel \in Seq(Command)
  PROVE  /\ channel' = channel => InChannel' = InChannel
         /\ \A c \in Command : Joins(c) =>
              InChannel' = InChannel \cup (IF c.op = "read"
                                           THEN {Len(channel) + 1} ELSE {})
         /\ channel # <<>> /\ channel' = Tail(channel) =>
              /\ \A i \in InChannel' : i \in Nat /\ i + 1 \in InChannel /\ i # 0
              /\ Head(channel).op = "read" => 1 \in InChannel
<1>1. channel' = channel => InChannel' = InChannel
  BY DEF InChannel
<1>2. ASSUME NEW c \in Command, Joins(c)
      PROVE  InChannel' = InChannel \cup (IF c.op = "read"
                                          THEN {Len(channel) + 1} ELSE {})
  <2>1. /\ DOMAIN channel' = DOMAIN channel \cup {Len(channel) + 1}
        /\ \A i \in DOMAIN channel : channel'[i] = channel[i]
        /\ channel'[Len(channel) + 1] = c
    BY <1>2 DEF Joins
  <2> QED
    BY <2>1 DEF InChannel
<1>3. ASSUME channel # <<>>, channel' = Tail(channel)
      PROVE  /\ \A i \in InChannel' : i \in Nat /\ i + 1 \in InChannel /\ i # 0
             /\ Head(channel).op = "read" => 1 \in InChannel
  <2>1. /\ DOMAIN channel = 1 .. Len(channel) /\ Len(channel) \in Nat \ {0}
        /\ DOMAIN channel' = 1 .. (Len(channel) - 1)
        /\ \A i \in 1 .. (Len(channel) - 1) : channel'[i] = channel[i + 1]
        /\ Head(channel) = channel[1]
    BY <1>3
  <2> QED
    BY <2>1 DEF InChannel
<1> QED
  BY <1>1, <1>2, <1>3

LEMMA QueueReads ==
  ASSUME callbacks \in Seq(Event), consumed \in Nat, consumed <= Len(callbacks)
  PROVE  /\ UNCHANGED <<callbacks, consumed>> => InQueue' = InQueue
         /\ \A e \in Event :
              callbacks' = Append(callbacks, e) /\ consumed' = consumed =>
                InQueue' = InQueue \cup (IF e.kind = "read"
                                         THEN {Len(callbacks) + 1} ELSE {})
         /\ callbacks' = callbacks /\ consumed' = consumed + 1 =>
              InQueue' = InQueue \ {consumed + 1}
<1>1. UNCHANGED <<callbacks, consumed>> => InQueue' = InQueue
  BY DEF InQueue
<1>2. ASSUME NEW e \in Event, callbacks' = Append(callbacks, e),
             consumed' = consumed
      PROVE  InQueue' = InQueue \cup (IF e.kind = "read"
                                      THEN {Len(callbacks) + 1} ELSE {})
  <2>1. /\ Len(callbacks') = Len(callbacks) + 1
        /\ \A i \in 1 .. Len(callbacks) : callbacks'[i] = callbacks[i]
        /\ callbacks'[Len(callbacks) + 1] = e
    BY <1>2
  <2>2. consumed + 1 .. Len(callbacks) + 1
          = (consumed + 1 .. Len(callbacks)) \cup {Len(callbacks) + 1}
    BY <1>2
  <2>3. \A i \in consumed + 1 .. Len(callbacks) : callbacks'[i] = callbacks[i]
    BY <2>1
  <2> QED
    BY <1>2, <2>1, <2>2, <2>3 DEF InQueue
<1>3. ASSUME callbacks' = callbacks, consumed' = consumed + 1
      PROVE  InQueue' = InQueue \ {consumed + 1}
  BY <1>3 DEF InQueue
<1> QED
  BY <1>1, <1>2, <1>3

(* Credit in the channel.                                                  *)
LEMMA ChannelCredit ==
  ASSUME channel \in Seq(Command), jsStreaming => jsStreaming',
         \A i \in DOMAIN channel :
           IsCredit(channel[i]) => jsStreaming /\ channel[i].slots > 0,
         \/ channel' = channel
         \/ channel' = <<>>
         \/ channel # <<>> /\ channel' = Tail(channel)
         \/ \E c \in Command :
              Joins(c) /\ (IsCredit(c) => jsStreaming' /\ c.slots > 0)
  PROVE  \A i \in DOMAIN channel' :
           IsCredit(channel'[i]) => jsStreaming' /\ channel'[i].slots > 0
<1>1. CASE channel' = channel \/ channel' = <<>>
  BY <1>1
<1>2. CASE channel # <<>> /\ channel' = Tail(channel)
  <2>1. ASSUME NEW i \in DOMAIN channel'
        PROVE  i + 1 \in DOMAIN channel /\ channel'[i] = channel[i + 1]
    BY <1>2, <2>1
  <2> QED
    BY <2>1
<1>3. ASSUME NEW c \in Command, Joins(c),
             IsCredit(c) => jsStreaming' /\ c.slots > 0
      PROVE  \A i \in DOMAIN channel' :
               IsCredit(channel'[i]) => jsStreaming' /\ channel'[i].slots > 0
  <2>1. /\ DOMAIN channel' = DOMAIN channel \cup {Len(channel) + 1}
        /\ \A i \in DOMAIN channel : channel'[i] = channel[i]
        /\ channel'[Len(channel) + 1] = c
    BY <1>3 DEF Joins
  <2> QED
    BY <1>3, <2>1
<1> QED
  BY <1>1, <1>2, <1>3

LEMMA ReplyOps ==
  ASSUME NativeInv, NEW i \in DOMAIN callbacks, IsAnswer(callbacks[i])
  PROVE  /\ callbacks[i].id \in 1 .. Len(requests)
         /\ Ordered(requests[callbacks[i].id].op)
         /\ requests[callbacks[i].id].state = "queued"
<1>1. i \in AnswerPlaces /\ i \in Nat
  BY DEF AnswerPlaces, NativeInv, Shape, TaskTypes
<1>2. callbacks[i].id \in AnsweredBy(i)
  BY <1>1 DEF AnsweredBy
<1>3. callbacks[i].id \in QueuedUpTo(callbacks[i].id)
  BY <1>1, <1>2 DEF NativeInv, AnswersExact, ExactAt
<1>4. callbacks[i].id \in 1 .. Len(requests)
  BY <1>1 DEF NativeInv, Settling, Answered
<1> QED
  BY <1>3, <1>4 DEF QueuedUpTo

(* One read, when the channel only lost commands.                          *)
LEMMA OneReadKept ==
  ASSUME OneRead, jsReading' = jsReading, InQueue' = InQueue,
         WithTask' => WithTask,
         \/ InChannel' \subseteq InChannel
         \/ \A i \in InChannel' : i \in Nat /\ i + 1 \in InChannel
  PROVE  OneRead'
<1>1. \A i, j \in InChannel' : i = j
  <2>1. CASE InChannel' \subseteq InChannel
    BY <2>1 DEF OneRead
  <2>2. ASSUME \A i \in InChannel' : i \in Nat /\ i + 1 \in InChannel,
               NEW i \in InChannel', NEW j \in InChannel'
        PROVE  i = j
    <3>1. i + 1 = j + 1 /\ i \in Nat /\ j \in Nat
      BY <2>2 DEF OneRead
    <3> QED
      BY <3>1
  <2> QED
    BY <2>1, <2>2
<1>2. InChannel' # {} => InChannel # {}
  OBVIOUS
<1> QED
  BY <1>1, <1>2 DEF OneRead

LEMMA TaskReads ==
  ASSUME Port, Reads, Task, UNCHANGED <<consumed, bindingVars>>
  PROVE  Reads'
<1> USE DEF Over, Ended
<1>1. /\ channel \in Seq(Command) /\ callbacks \in Seq(Event)
      /\ consumed \in Nat /\ consumed <= Len(callbacks)
      /\ UNCHANGED <<jsReading, jsStreaming>>
  BY DEF Port, NativeInv, Inv, QueueTypes, Shape, TaskTypes, Ends, bindingVars,
         promiseVars, creditVars
<1>2. OneRead /\ Exclusive
  BY DEF Reads
<1>3. \/ callbacks' = callbacks
      \/ \E e \in Event : /\ callbacks' = Append(callbacks, e)
                          /\ e.kind # "busy"
                          /\ e.kind = "read" => TransferRead
  BY Publication, DataKind DEF Port, Exclusive, Reads, NoEvent, Events
<1>4. ~TransferRead => InQueue' = InQueue
  BY <1>1, <1>3, QueueReads
<1>5. \A i \in DOMAIN callbacks' : callbacks'[i].kind # "busy"
  BY <1>1, <1>2, <1>3 DEF Exclusive
<1>6. CASE ReceiveRead
  <2>1. /\ channel # <<>> /\ Head(channel).op = "read" /\ pc = "select"
        /\ channel' = Tail(channel) /\ streaming' = streaming
        /\ callbacks' = callbacks
    BY <1>6 DEF ReceiveRead, Receivable
  <2>2. 1 \in InChannel /\ \A i \in InChannel' : i \in Nat /\ i + 1 \in InChannel /\ i # 0
    BY <1>1, <2>1, ChannelReads
  <2>3. ASSUME NEW i \in InChannel' PROVE FALSE
    <3>1. i + 1 = 1 /\ i \in Nat /\ i # 0
      BY <1>2, <2>2, <2>3 DEF OneRead
    <3> QED
      BY <3>1
  <2>4. ~WithTask /\ InQueue = {} /\ jsReading
    BY <1>2, <2>2 DEF OneRead
  <2>5. read = <<>> /\ ~streaming
    BY <1>2, <2>1, <2>4 DEF WithTask, Exclusive
  <2>6. answer' = answer
    BY <1>6, <2>5 DEF ReceiveRead
  <2>7. InQueue' = {}
    BY <1>4, <1>6, <2>4 DEF ReceiveRead, Receivable, TransferRead
  <2>8. OneRead'
    BY <1>1, <2>3, <2>4, <2>7 DEF OneRead
  <2>9. \A i \in DOMAIN channel' :
          IsCredit(channel'[i]) => jsStreaming' /\ channel'[i].slots > 0
    BY <1>1, <1>2, <2>1, ChannelCredit DEF Exclusive
  <2> QED
    BY <1>1, <1>2, <1>5, <2>1, <2>6, <2>8, <2>9 DEF Reads, Exclusive
<1>7. CASE TransferRead
  <2>1. /\ ~streaming /\ pc = "poll" /\ ReadReady /\ ~gone /\ read' = <<>>
        /\ UNCHANGED <<channel, streaming, answer>>
    BY <1>7 DEF TransferRead, PicksRead, queueVars
  <2>2. WithTask
    <3>1. read \in Nat \X Nat
      BY <2>1, ReadTypes DEF Port, NativeInv
    <3> QED
      BY <2>1, <3>1 DEF WithTask
  <2>3. InQueue = {} /\ jsReading /\ InChannel = {}
    BY <1>2, <2>2 DEF OneRead
  <2>4. InQueue' \subseteq {Len(callbacks) + 1}
    <3>1. \/ InQueue' = InQueue
          \/ \E e \in Event :
               InQueue' = InQueue \cup (IF e.kind = "read"
                                        THEN {Len(callbacks) + 1} ELSE {})
      BY <1>1, <1>3, QueueReads
    <3> QED
      BY <2>3, <3>1
  <2>5. InChannel' = {} /\ ~WithTask'
    BY <2>1, <2>3 DEF InChannel, WithTask
  <2>6. OneRead'
    BY <1>1, <2>3, <2>4, <2>5 DEF OneRead
  <2> QED
    BY <1>1, <1>2, <1>5, <2>1, <2>6 DEF Reads, Exclusive
<1>8. ASSUME ~TransferRead, answer'.kind # "busy",
             read' = read, pc \in Over => pc' \in Over,
             streaming' = streaming \/ (streaming' = TRUE /\ jsStreaming),
             \/ channel' = channel
             \/ channel' = <<>>
             \/ channel # <<>> /\ channel' = Tail(channel)
      PROVE  Reads'
  <2>1. /\ WithTask' => WithTask
        /\ InQueue' = InQueue
    BY <1>4, <1>8 DEF WithTask
  <2>2. \/ InChannel' \subseteq InChannel
        \/ \A i \in InChannel' : i \in Nat /\ i + 1 \in InChannel
    <3>1. CASE channel' = <<>>
      BY <3>1 DEF InChannel
    <3> QED
      BY <1>1, <1>8, <3>1, ChannelReads
  <2>3. OneRead'
    BY <1>1, <1>2, <2>1, <2>2, OneReadKept
  <2>4. \A i \in DOMAIN channel' :
          IsCredit(channel'[i]) => jsStreaming' /\ channel'[i].slots > 0
    BY <1>1, <1>2, <1>8, ChannelCredit DEF Exclusive
  <2> QED
    BY <1>1, <1>2, <1>5, <1>8, <2>3, <2>4 DEF Reads, Exclusive
<1>9. CASE Quiet /\ ~TransferRead
  <2>1. answer'.kind # "busy"
    BY <1>2, <1>9 DEF Quiet, Exclusive
  <2> QED
    BY <1>8, <1>9, <2>1 DEF Quiet
<1>10. CASE Retires
  <2>1. answer'.kind # "busy"
    <3>1. PICK kind \in {"ok", "error"} : answer' = Reply(kind, FrontCommand.id)
      BY <1>10 DEF Retires
    <3> QED
      BY <3>1 DEF Reply, NoEvent
  <2> QED
    BY <1>8, <1>10, <2>1 DEF Retires, TransferRead
<1>11. CASE ReceiveCredit
  <2>1. /\ channel # <<>> /\ IsCredit(Head(channel)) /\ pc = "select"
        /\ channel' = Tail(channel)
        /\ UNCHANGED <<read, answer>>
        /\ streaming' = streaming \/ streaming' = TRUE
    BY <1>11 DEF ReceiveCredit, Receivable, IsCredit
  <2>2. jsStreaming
    <3>1. 1 \in DOMAIN channel /\ Head(channel) = channel[1]
      BY <1>1, <2>1
    <3> QED
      BY <1>2, <2>1, <3>1 DEF Exclusive
  <2> QED
    BY <1>2, <1>8, <2>1, <2>2 DEF TransferRead, Exclusive
<1>12. CASE \/ PublishOpen \/ SendAnswer \/ ReceiveOrdered \/ TransferStream
            \/ BurstRead \/ BurstEnd \/ DropReceiver \/ SendClose
  <2>1. answer'.kind # "busy" /\ UNCHANGED <<read, streaming>>
    BY <1>2, <1>12
    DEF PublishOpen, SendAnswer, ReceiveOrdered, TransferStream, BurstRead,
        BurstEnd, DropReceiver, SendClose, Exclusive, NoEvent
  <2>2. \/ channel' = channel
        \/ channel' = <<>>
        \/ channel # <<>> /\ channel' = Tail(channel)
    BY <1>12
    DEF PublishOpen, SendAnswer, ReceiveOrdered, Receivable, TransferStream,
        BurstRead, BurstEnd, DropReceiver, SendClose, queueVars
  <2>3. ~TransferRead /\ (pc \in Over => pc' \in Over)
    BY <1>12
    DEF PublishOpen, SendAnswer, ReceiveOrdered, Receivable, TransferStream,
        BurstRead, BurstEnd, DropReceiver, SendClose, TransferRead, Send
  <2> QED
    BY <1>8, <2>1, <2>2, <2>3
<1> QED
  BY <1>6, <1>7, <1>9, <1>10, <1>11, <1>12, TaskEffect DEF Port

LEMMA CallbackReads ==
  ASSUME Port, Reads, Callback PROVE Reads'
<1> DEFINE event == callbacks[consumed + 1]
<1>1. /\ channel \in Seq(Command) /\ callbacks \in Seq(Event)
      /\ consumed \in Nat /\ consumed <= Len(callbacks)
      /\ OneRead /\ Exclusive
  BY DEF Port, NativeInv, Inv, QueueTypes, Shape, TaskTypes, Ends, Reads
<1>2. /\ UNCHANGED <<channel, callbacks, read, streaming, pc, answer>>
      /\ consumed' = consumed + 1 /\ consumed < Len(callbacks)
  BY DEF Callback, Consume, reactorVars, taskVars
<1>3. consumed + 1 \in DOMAIN callbacks /\ consumed + 1 \in Nat
  BY <1>1, <1>2
<1>4. /\ InChannel' = InChannel /\ InQueue' = InQueue \ {consumed + 1}
      /\ WithTask' = WithTask
  BY <1>1, <1>2, ChannelReads, QueueReads DEF WithTask
<1>5. ASSUME jsStreaming' = jsStreaming, jsReading' \in BOOLEAN,
             jsReading' => jsReading,
             \/ jsReading' = jsReading
             \/ InChannel = {} /\ ~WithTask /\ InQueue' = {}
      PROVE  Reads'
  <2>1. OneRead'
    BY <1>1, <1>4, <1>5 DEF OneRead
  <2>2. Exclusive'
    BY <1>1, <1>2, <1>5 DEF Exclusive
  <2> QED
    BY <2>1, <2>2 DEF Reads
<1>6. CASE event.kind \in {"open", "data"}
  <2>1. jsStreaming' = jsStreaming /\ jsReading' = jsReading
    BY <1>6 DEF Callback, OnOpen, OnData, promiseVars, creditVars
  <2> QED
    BY <1>1, <1>5, <2>1 DEF Exclusive
<1>7. CASE event.kind \in {"ok", "error", "busy", "read"}
  <2>1. OnReply(event)
    BY <1>7 DEF Callback
  <2>2. /\ jsStreaming' = jsStreaming
        /\ \/ jsReading' = jsReading
           \/ /\ jsReading' = (jsReading /\ requests[event.id].op # "read")
    BY <2>1 DEF OnReply, promiseVars, creditVars
  <2>3. event.kind # "busy"
    BY <1>1, <1>3 DEF Exclusive
  <2>4. CASE IsAnswer(event)
    <3>1. requests[event.id].op # "read"
      BY <1>3, <2>4, ReplyOps DEF Port, Ordered, OrderedOps
    <3> QED
      BY <1>1, <1>5, <2>2, <3>1 DEF Exclusive
  <2>5. CASE event.kind = "read"
    <3>1. consumed + 1 \in InQueue
      BY <1>1, <1>2, <1>3, <2>5 DEF InQueue
    <3>2. InChannel = {} /\ ~WithTask /\ InQueue' = {}
      BY <1>1, <1>4, <3>1 DEF OneRead
    <3>3. jsReading' \in BOOLEAN /\ (jsReading' => jsReading)
      BY <1>1, <2>2 DEF Exclusive
    <3> QED
      BY <1>5, <2>2, <3>2, <3>3
  <2> QED
    BY <1>7, <2>3, <2>4, <2>5 DEF IsAnswer
<1>8. CASE event.kind = "close"
  <2>1. jsReading' = FALSE /\ jsStreaming' = jsStreaming
    BY <1>8 DEF Callback, OnClose, creditVars
  <2>2. pc = "done" /\ consumed + 1 = Len(callbacks)
    BY <1>3, <1>8 DEF Port, NativeInv, Closing
  <2>3. channel = <<>>
    BY <2>2 DEF Port, Ends
  <2>4. InChannel = {} /\ ~WithTask
    BY <2>2, <2>3 DEF InChannel, WithTask, Over, Ended
  <2>5. InQueue' = {}
    BY <1>1, <1>4, <2>2 DEF InQueue
  <2> QED
    BY <1>5, <2>1, <2>4, <2>5
<1>9. event.kind \in EventKinds
  <2>1. event \in Event
    BY <1>1, <1>3
  <2> QED
    BY <2>1 DEF Event
<1> QED
  BY <1>6, <1>7, <1>8, <1>9 DEF EventKinds

LEMMA NextReads ==
  ASSUME Port, Reads, [Next]_allVars PROVE Reads'
<1>1. /\ channel \in Seq(Command) /\ callbacks \in Seq(Event)
      /\ consumed \in Nat /\ consumed <= Len(callbacks)
      /\ OneRead /\ Exclusive
  BY DEF Port, NativeInv, Inv, QueueTypes, Shape, TaskTypes, Ends, Reads
<1>2. CASE Task /\ UNCHANGED <<consumed, bindingVars>>
  BY <1>2, TaskReads
<1>3. CASE Callback
  BY <1>3, CallbackReads
<1>4. ASSUME UNCHANGED <<read, streaming, pc, answer, callbacks, consumed>>
      PROVE  WithTask' = WithTask /\ InQueue' = InQueue
  BY <1>1, <1>4, QueueReads DEF WithTask
<1>5. ASSUME UNCHANGED <<read, streaming, pc, answer, callbacks>>, JsRead
      PROVE  Reads'
  <2>1. /\ ~jsReading /\ ~jsStreaming /\ jsStreaming' = jsStreaming
        /\ WithTask' = WithTask /\ InQueue' = InQueue
    BY <1>4, <1>5 DEF JsRead
  <2>2. InChannel = {} /\ ~WithTask /\ InQueue = {}
    BY <1>1, <2>1 DEF OneRead
  <2>3. CASE channel' = channel /\ jsReading' = FALSE
    <3>1. InChannel' = InChannel
      BY <2>3 DEF InChannel
    <3> QED
      BY <1>1, <1>5, <2>1, <2>2, <2>3, <3>1 DEF Reads, OneRead, Exclusive
  <2>4. ASSUME jsReading' = TRUE, NEW c \in Command, c.op = "read", Joins(c)
        PROVE  Reads'
    <3>1. InChannel' = {Len(channel) + 1}
      BY <1>1, <2>2, <2>4, ChannelReads
    <3>2. OneRead'
      BY <2>1, <2>2, <2>4, <3>1 DEF OneRead
    <3>3. \A i \in DOMAIN channel' :
            IsCredit(channel'[i]) => jsStreaming' /\ channel'[i].slots > 0
      BY <1>1, <2>1, <2>4, ChannelCredit DEF Exclusive, IsCredit
    <3> QED
      BY <1>1, <1>5, <2>1, <2>4, <3>2, <3>3 DEF Reads, Exclusive
  <2> QED
    BY <1>5, <2>3, <2>4 DEF JsRead
<1>6. ASSUME UNCHANGED <<read, streaming, pc, answer, callbacks, jsReading>>,
             consumed' = consumed, jsStreaming' \in BOOLEAN,
             jsStreaming => jsStreaming', jsReading => ~jsStreaming',
             \/ channel' = channel
             \/ \E c \in Command :
                  /\ c.op # "read" /\ Joins(c)
                  /\ IsCredit(c) => jsStreaming' /\ c.slots > 0
      PROVE  Reads'
  <2>1. InChannel' = InChannel /\ WithTask' = WithTask /\ InQueue' = InQueue
    BY <1>1, <1>4, <1>6, ChannelReads
  <2>2. OneRead'
    BY <1>1, <1>6, <2>1 DEF OneRead
  <2>3. \A i \in DOMAIN channel' :
          IsCredit(channel'[i]) => jsStreaming' /\ channel'[i].slots > 0
    BY <1>1, <1>6, ChannelCredit DEF Exclusive
  <2> QED
    BY <1>1, <1>6, <2>2, <2>3 DEF Reads, Exclusive
<1>7. ASSUME UNCHANGED <<read, streaming, pc, answer, callbacks>>, JsCredit
      PROVE  Reads'
  <2>1. \A c : IsCredit(c) => c.op # "read"
    BY DEF IsCredit
  <2> QED
    BY <1>6, <1>7, <2>1 DEF JsCredit, JsStream
<1>8. ASSUME UNCHANGED <<read, streaming, pc, answer, callbacks>>, JsOther
      PROVE  Reads'
  <2>1. \A c : Ordered(c.op) => c.op # "read" /\ ~IsCredit(c)
    BY DEF IsCredit, Ordered, OrderedOps
  <2>2. jsStreaming \in BOOLEAN /\ (jsReading => ~jsStreaming)
    BY <1>1 DEF Exclusive
  <2> QED
    BY <1>6, <1>8, <2>1, <2>2 DEF JsOther
<1> QED
  BY <1>2, <1>3, <1>5, <1>7, <1>8, JsReads
-----------------------------------------------------------------------------
(* JavaScript regards as pending all that the native side still holds, and *)
(* a single-shot read in the channel.                                      *)
Kept ==
  /\ HeldIds \subseteq pending
  /\ \A i \in InChannel : channel[i].id \in pending

LEMMA InitKept == BindingInit => Kept
BY DEF BindingInit, Init, InitNative, InitReactor, Kept, HeldIds, Held,
       OrderedOf, InChannel

LEMMA TaskKept ==
  ASSUME Port, Kept, Task, pending' = pending PROVE Kept'
<1>1. HeldIds' \subseteq HeldIds
  BY HeldByTask DEF Port, HeldIds
<1>2. channel \in Seq(Command)
  BY DEF Port, NativeInv, Inv, QueueTypes
<1>3. \/ channel' = channel
      \/ channel' = <<>>
      \/ channel # <<>> /\ channel' = Tail(channel)
  BY TaskEffect
  DEF Port, Quiet, Retires, PublishOpen, SendAnswer, ReceiveOrdered,
      ReceiveRead, ReceiveCredit, Receivable, TransferRead, TransferStream,
      BurstRead, BurstEnd, DropReceiver, SendClose, queueVars
<1>4. ASSUME NEW i \in InChannel' PROVE channel'[i].id \in pending
  <2>1. CASE channel' = channel
    BY <2>1 DEF Kept, InChannel
  <2>2. CASE channel' = <<>>
    BY <2>2 DEF InChannel
  <2>3. CASE channel # <<>> /\ channel' = Tail(channel)
    <3>1. i \in DOMAIN channel' /\ i \in Nat
      BY <1>2, <2>3 DEF InChannel
    <3>2. channel'[i] = channel[i + 1] /\ i + 1 \in DOMAIN channel
      BY <1>2, <2>3, <3>1
    <3> QED
      BY <3>1, <3>2 DEF Kept, InChannel
  <2> QED
    BY <1>3, <2>1, <2>2, <2>3
<1> QED
  BY <1>1, <1>4 DEF Kept

(* A request that joins the channel joins the promises.                    *)
LEMMA CallKept ==
  ASSUME Port, Kept, PromiseStep, ~Callback, AnyCall /\ UNCHANGED reactorVars
  PROVE  Kept'
<1>1. channel \in Seq(Command) /\ requests \in Seq(Requests) /\ NextId \in Nat
      /\ Len(requests) \in Nat
  BY DEF Port, NativeInv, Inv, QueueTypes, NextId
<1>2. pending \subseteq pending' /\ (NoneAdmitted \/ OneAdmitted)
  BY DEF PromiseStep, NoneAdmitted, OneAdmitted
<1>3. CASE channel' = channel
  <2>1. Held' = Held
    <3>1. commands' = commands
      BY DEF reactorVars, taskVars
    <3> QED
      BY <1>3, <3>1 DEF Held, OrderedOf
  <2> QED
    BY <1>2, <1>3, <2>1 DEF Kept, HeldIds, InChannel
<1>4. CASE channel' # channel
  <2>1. PICK c \in Command :
          /\ channel' = Append(channel, c)
          /\ c.op # "credit" => /\ c.id = NextId
                                /\ Len(requests') = Len(requests) + 1
                                /\ requests'[NextId].op = c.op
                                /\ requests'[NextId].state = "queued"
    BY <1>4, CallEffect DEF Port
  <2>2. c.op # "credit" => c.id \in pending'
    <3>1. ASSUME c.op # "credit", NoneAdmitted PROVE FALSE
      <4>1. requests' # requests
        BY <1>1, <2>1, <3>1
      <4>2. PICK r \in Requests :
              requests' = Append(requests, r) /\ r.state # "queued"
        BY <3>1, <4>1 DEF NoneAdmitted
      <4>3. requests'[NextId] = r
        BY <1>1, <4>2 DEF NextId
      <4> QED
        BY <2>1, <3>1, <4>2, <4>3
    <3> QED
      BY <1>2, <2>1, <3>1 DEF OneAdmitted
  <2>3. HeldIds' \subseteq HeldIds \cup {c.id} /\ (HeldIds' = HeldIds \/ Ordered(c.op))
    <3>1. commands' = commands
      BY DEF reactorVars, taskVars
    <3>2. OrderedOf(channel') = IF Ordered(c.op) THEN OrderedOf(channel) \cup {c}
                                ELSE OrderedOf(channel)
      BY <1>1, <2>1, OrderedOfAppend
    <3>3. OrderedOf(commands') = OrderedOf(commands)
      BY <3>1
    <3>4. CASE Ordered(c.op)
      <4>1. Held' = Held \cup {c}
        BY <3>1, <3>2, <3>4 DEF Held, OrderedOf
      <4> QED
        BY <3>4, <4>1 DEF HeldIds
    <3>5. CASE ~Ordered(c.op)
      <4>1. Held' = Held
        BY <3>1, <3>2, <3>5 DEF Held, OrderedOf
      <4> QED
        BY <4>1 DEF HeldIds
    <3> QED
      BY <3>4, <3>5
  <2>4. HeldIds' \subseteq pending'
    BY <1>2, <2>2, <2>3 DEF Kept, Ordered, OrderedOps
  <2>5. ASSUME NEW i \in InChannel' PROVE channel'[i].id \in pending'
    <3>1. i \in DOMAIN channel' /\ channel'[i].op = "read"
      BY DEF InChannel
    <3>2. CASE i \in DOMAIN channel
      <4>1. channel'[i] = channel[i]
        BY <1>1, <2>1, <3>2
      <4> QED
        BY <1>2, <3>1, <3>2, <4>1 DEF Kept, InChannel
    <3>3. CASE i \notin DOMAIN channel
      <4>1. channel'[i] = c
        BY <1>1, <2>1, <3>1, <3>3
      <4> QED
        BY <2>2, <3>1, <4>1
    <3> QED
      BY <3>2, <3>3
  <2> QED
    BY <2>4, <2>5 DEF Kept
<1> QED
  BY <1>3, <1>4

(* What is answered is not held any more, and nothing is at the close.     *)
LEMMA CallbackKept ==
  ASSUME Port, Reads, Kept, Callback PROVE Kept'
<1> DEFINE event == callbacks[consumed + 1]
<1>1. /\ UNCHANGED <<channel, commands, requests>> /\ consumed < Len(callbacks)
      /\ callbacks \in Seq(Event) /\ consumed \in Nat
      /\ consumed + 1 \in DOMAIN callbacks
  BY DEF Callback, Consume, reactorVars, taskVars, Port, NativeInv, Shape,
         TaskTypes
<1>2. HeldIds' = HeldIds /\ InChannel' = InChannel
  BY <1>1 DEF HeldIds, Held, OrderedOf, InChannel
<1>3. \/ pending' = pending
      \/ /\ event.kind \in {"ok", "error", "busy", "read"}
         /\ pending' = pending \ {event.id}
      \/ event.kind = "close"
  BY DEF Callback, OnOpen, OnData, OnReply, AfterReply, OnClose, promiseVars
<1>4. CASE pending' = pending
  BY <1>1, <1>2, <1>4 DEF Kept
<1>5. CASE event.kind = "close"
  <2>1. pc = "done"
    BY <1>1, <1>5 DEF Port, NativeInv, Closing
  <2>2. ~receiving /\ channel = <<>> /\ Held = {}
    BY <2>1 DEF Port, Ends, NativeInv, Wire, Known
  <2>3. HeldIds = {} /\ InChannel = {}
    BY <2>2 DEF HeldIds, InChannel
  <2> QED
    BY <1>2, <2>3 DEF Kept
<1>6. CASE event.kind \in {"ok", "error"} /\ pending' = pending \ {event.id}
  <2>1. event.id \in Answered /\ Ordered(requests[event.id].op)
    BY <1>1, <1>6, ReplyOps DEF Answered, AnswerPlaces, IsAnswer, Port
  <2>2. event.id \notin HeldIds
    BY <2>1 DEF Port, Parted
  <2>3. ASSUME NEW i \in InChannel PROVE channel[i].id # event.id
    <3>1. requests[channel[i].id].op = "read"
      BY DEF Port, ReadIds, IsRead, InChannel
    <3> QED
      BY <2>1, <3>1 DEF Ordered, OrderedOps
  <2> QED
    BY <1>1, <1>2, <1>6, <2>2, <2>3 DEF Kept
<1>7. CASE event.kind = "read" /\ pending' = pending \ {event.id}
  <2>1. InChannel = {}
    <3>1. consumed + 1 \in InQueue
      BY <1>1, <1>7 DEF InQueue
    <3> QED
      BY <3>1 DEF Reads, OneRead
  <2>2. IsRead(event.id)
    BY <1>1, <1>7 DEF Port, ReadIds
  <2>3. ASSUME NEW d \in Held PROVE d.id # event.id
    <3>1. requests[d.id].op = d.op /\ Ordered(d.op)
      BY HeldFacts DEF Port, NativeInv, Wire, Matching
    <3> QED
      BY <2>2, <3>1 DEF IsRead, Ordered, OrderedOps
  <2> QED
    BY <1>1, <1>2, <1>7, <2>1, <2>3 DEF Kept, HeldIds
<1>8. event.kind # "busy"
  BY <1>1 DEF Reads, Exclusive
<1> QED
  BY <1>3, <1>4, <1>5, <1>6, <1>7, <1>8

LEMMA NextKept ==
  ASSUME Port, Reads, Promises, Kept, [Next]_allVars PROVE Kept'
<1>1. PromiseStep
  BY StepPromises DEF Port, Promises
<1>2. CASE Callback
  BY <1>2, CallbackKept
<1>3. CASE ~Callback /\ AnyCall /\ UNCHANGED reactorVars
  BY <1>1, <1>3, CallKept
<1>4. CASE Task /\ UNCHANGED bindingVars
  BY <1>4, TaskKept DEF bindingVars, promiseVars
<1>5. CASE ~Callback /\ (OfDevice \/ UNCHANGED vars)
  <2>1. UNCHANGED <<channel, commands>>
    BY <1>5 DEF OfDevice, Arrive, Transmit, Shift, Lose, vars, nativeVars,
                reactorVars, taskVars, queueVars
  <2>2. pending \subseteq pending'
    BY <1>1, <1>5 DEF PromiseStep, NoneAdmitted, OneAdmitted
  <2> QED
    BY <2>1, <2>2 DEF Kept, HeldIds, Held, OrderedOf, InChannel
<1> QED
  BY <1>2, <1>3, <1>4, <1>5, NextSplits
-----------------------------------------------------------------------------
(* Total is the value of a recursive function, which exists and is the one *)
(* that adds up the numbers.                                               *)
Sums(f, s) == f = [i \in 0 .. Len(s) |-> IF i = 0 THEN 0 ELSE f[i - 1] + s[i]]

Summing(s) == CHOOSE f : Sums(f, s)

LEMMA TotalValue == ASSUME NEW s PROVE Total(s) = Summing(s)[Len(s)]
BY DEF Total, Summing, Sums

LEMMA SumsExist ==
  ASSUME NEW s \in Seq(Nat)
  PROVE  \E f \in [0 .. Len(s) -> Nat] : Sums(f, s)
<1> DEFINE Upto(n, f) ==
             \A i \in 0 .. n : f[i] = IF i = 0 THEN 0 ELSE f[i - 1] + s[i]
           P == {n \in Nat : n <= Len(s) =>
                               \E f \in [0 .. n -> Nat] : Upto(n, f)}
<1>1. 0 \in P
  <2>1. PICK f : f = [i \in 0 .. 0 |-> 0]
    OBVIOUS
  <2>2. f \in [0 .. 0 -> Nat] /\ Upto(0, f)
    BY <2>1
  <2> HIDE DEF Upto
  <2> QED
    BY <2>2
<1>2. ASSUME NEW n \in Nat, n \in P, n + 1 <= Len(s)
      PROVE  \E f \in [0 .. n + 1 -> Nat] : Upto(n + 1, f)
  <2>1. n <= Len(s)
    BY <1>2
  <2>2. PICK f \in [0 .. n -> Nat] : Upto(n, f)
    BY <1>2, <2>1
  <2> DEFINE last == f[n] + s[n + 1]
             g == [i \in 0 .. n + 1 |-> IF i = n + 1 THEN last ELSE f[i]]
  <2>3. s[n + 1] \in Nat /\ last \in Nat
    BY <1>2
  <2>4. g \in [0 .. n + 1 -> Nat]
    BY <2>3
  <2>5. ASSUME NEW i \in 0 .. n + 1
        PROVE  g[i] = IF i = 0 THEN 0 ELSE g[i - 1] + s[i]
    <3>1. CASE i = n + 1
      BY <3>1
    <3>2. CASE i # n + 1
      <4>1. i \in 0 .. n /\ g[i] = f[i]
        BY <3>2
      <4>2. i # 0 => i - 1 \in 0 .. n /\ g[i - 1] = f[i - 1]
        BY <4>1
      <4> QED
        BY <2>2, <4>1, <4>2
    <3> QED
      BY <3>1, <3>2
  <2> HIDE DEF g
  <2> QED
    BY <2>4, <2>5
<1>3. ASSUME NEW n \in Nat, n \in P PROVE n + 1 \in P
  <2>1. n + 1 <= Len(s) => \E f \in [0 .. n + 1 -> Nat] : Upto(n + 1, f)
    BY <1>2, <1>3
  <2> HIDE DEF Upto
  <2> QED
    BY <2>1
<1> HIDE DEF P
<1>4. Len(s) \in P
  BY SMTT(20), <1>1, <1>3, SetInduction
<1>5. PICK f \in [0 .. Len(s) -> Nat] : Upto(Len(s), f)
  BY <1>4 DEF P
<1>6. Sums(f, s)
  BY <1>5 DEF Sums
<1> QED
  BY <1>6

LEMMA SummingFacts ==
  ASSUME NEW s \in Seq(Nat)
  PROVE  /\ Summing(s)[0] = 0
         /\ \A i \in 1 .. Len(s) : Summing(s)[i] = Summing(s)[i - 1] + s[i]
         /\ \A i \in 0 .. Len(s) : Summing(s)[i] \in Nat
<1>1. Sums(Summing(s), s)
  BY SumsExist DEF Summing
<1> DEFINE f == Summing(s)
           P == {n \in Nat : n <= Len(s) => f[n] \in Nat}
<1>2. f = [i \in 0 .. Len(s) |-> IF i = 0 THEN 0 ELSE f[i - 1] + s[i]]
  BY <1>1 DEF Sums
<1> HIDE DEF f
<1>3. \A i \in 0 .. Len(s) : f[i] = IF i = 0 THEN 0 ELSE f[i - 1] + s[i]
  BY <1>2
<1>4. 0 \in 0 .. Len(s) /\ f[0] = 0
  BY <1>3
<1>5. \A i \in 1 .. Len(s) : f[i] = f[i - 1] + s[i]
  BY <1>3
<1>6. 0 \in P
  BY <1>4
<1>7. ASSUME NEW n \in Nat, n \in P PROVE n + 1 \in P
  <2>1. ASSUME n + 1 <= Len(s) PROVE f[n + 1] \in Nat
    <3>1. n + 1 \in 1 .. Len(s) /\ (n + 1) - 1 = n /\ n <= Len(s)
      BY <2>1
    <3>2. f[n] \in Nat /\ s[n + 1] \in Nat
      BY <1>7, <3>1
    <3>3. f[n + 1] = f[n] + s[n + 1]
      BY <1>5, <3>1
    <3> QED
      BY <3>2, <3>3
  <2> QED
    BY <2>1
<1> HIDE DEF P
<1>8. \A n \in Nat : n \in P
  BY <1>6, <1>7, SetInduction
<1>9. \A i \in 0 .. Len(s) : f[i] \in Nat
  BY <1>8 DEF P
<1> QED
  BY <1>4, <1>5, <1>9 DEF f

LEMMA TotalEmpty == Total(<<>>) = 0
<1>1. <<>> \in Seq(Nat) /\ Len(<<>>) = 0
  OBVIOUS
<1> QED
  BY <1>1, SummingFacts, TotalValue

LEMMA TotalType == ASSUME NEW s \in Seq(Nat) PROVE Total(s) \in Nat
<1>1. Len(s) \in 0 .. Len(s)
  OBVIOUS
<1> QED
  BY <1>1, SummingFacts, TotalValue

LEMMA TotalAppend ==
  ASSUME NEW s \in Seq(Nat), NEW n \in Nat
  PROVE  Total(Append(s, n)) = Total(s) + n
<1> DEFINE a == Append(s, n)
           f == Summing(s)
           g == Summing(a)
           P == {k \in Nat : k <= Len(s) => g[k] = f[k]}
<1>1. /\ a \in Seq(Nat) /\ Len(a) = Len(s) + 1 /\ a[Len(s) + 1] = n
      /\ \A i \in 1 .. Len(s) : a[i] = s[i]
      /\ Len(s) \in Nat
  OBVIOUS
<1>2. Total(a) = g[Len(a)] /\ Total(s) = f[Len(s)]
  BY TotalValue
<1> HIDE DEF a
<1>3. f[0] = 0 /\ \A i \in 1 .. Len(s) : f[i] = f[i - 1] + s[i]
  BY SummingFacts
<1>4. g[0] = 0 /\ \A i \in 1 .. Len(s) + 1 : g[i] = g[i - 1] + a[i]
  BY <1>1, SummingFacts
<1> HIDE DEF f, g
<1>5. 0 \in P
  BY <1>3, <1>4
<1>6. ASSUME NEW k \in Nat, k \in P PROVE k + 1 \in P
  <2>1. ASSUME k + 1 <= Len(s) PROVE g[k + 1] = f[k + 1]
    <3>1. /\ k + 1 \in 1 .. Len(s) /\ k + 1 \in 1 .. Len(s) + 1
          /\ (k + 1) - 1 = k /\ k <= Len(s)
      BY <1>1, <2>1
    <3>2. g[k] = f[k] /\ a[k + 1] = s[k + 1]
      BY <1>1, <1>6, <3>1
    <3>3. g[k + 1] = g[k] + a[k + 1] /\ f[k + 1] = f[k] + s[k + 1]
      BY <1>3, <1>4, <3>1
    <3> QED
      BY <3>2, <3>3
  <2> QED
    BY <2>1
<1> HIDE DEF P
<1>7. g[Len(s)] = f[Len(s)]
  <2>1. \A k \in Nat : k \in P
    BY <1>5, <1>6, SetInduction
  <2> QED
    BY <1>1, <2>1 DEF P
<1>8. g[Len(s) + 1] = g[Len(s)] + n
  <2>1. Len(s) + 1 \in 1 .. Len(s) + 1 /\ (Len(s) + 1) - 1 = Len(s)
    BY <1>1
  <2> QED
    BY <1>1, <1>4, <2>1
<1> QED
  BY <1>1, <1>2, <1>7, <1>8 DEF a

LEMMA TotalOne ==
  ASSUME NEW n \in Nat PROVE <<n>> \in Seq(Nat) /\ Total(<<n>>) = n
<1>1. <<>> \in Seq(Nat) /\ Append(<<>>, n) = <<n>>
  OBVIOUS
<1>2. Total(Append(<<>>, n)) = Total(<<>>) + n
  BY <1>1, TotalAppend
<1> QED
  BY <1>1, <1>2, TotalEmpty

LEMMA TotalConcat ==
  ASSUME NEW s \in Seq(Nat), NEW t \in Seq(Nat)
  PROVE  Total(s \o t) = Total(s) + Total(t)
<1> DEFINE Adds(u) == Total(s \o u) = Total(s) + Total(u)
           P == {n \in Nat : \A u \in Seq(Nat) : Len(u) = n => Adds(u)}
<1>1. 0 \in P
  <2>1. ASSUME NEW u \in Seq(Nat), Len(u) = 0 PROVE Adds(u)
    <3>1. u = <<>> /\ s \o u = s
      BY <2>1
    <3> QED
      BY <3>1, TotalEmpty, TotalType
  <2> HIDE DEF Adds
  <2> QED
    BY <2>1
<1>2. ASSUME NEW n \in Nat, n \in P PROVE n + 1 \in P
  <2>1. ASSUME NEW u \in Seq(Nat), Len(u) = n + 1 PROVE Adds(u)
    <3>1. PICK v \in Seq(Nat), k \in Nat : u = Append(v, k) /\ Len(v) = n
      <4>1. u # <<>>
        BY <2>1
      <4>2. PICK v, k : v = SubSeq(u, 1, n) /\ k = u[n + 1]
        OBVIOUS
      <4>3. v \in Seq(Nat) /\ k \in Nat /\ Len(v) = n
        BY <2>1, <4>2
      <4>4. u = Append(v, k)
        BY <2>1, <4>2, <4>3
      <4> QED
        BY <4>3, <4>4
    <3>2. Adds(v)
      BY <1>2, <3>1
    <3>3. s \o u = Append(s \o v, k) /\ s \o v \in Seq(Nat)
      BY <3>1
    <3>4. /\ Total(s \o u) = Total(s \o v) + k
          /\ Total(u) = Total(v) + k
      BY <3>1, <3>3, TotalAppend
    <3>5. Total(s) \in Nat /\ Total(v) \in Nat
      BY TotalType
    <3> QED
      BY <3>2, <3>4, <3>5
  <2> HIDE DEF Adds
  <2> QED
    BY <2>1
<1> HIDE DEF P
<1>3. \A n \in Nat : n \in P
  BY <1>1, <1>2, SetInduction
<1>4. Len(t) \in P
  BY <1>3
<1> QED
  BY <1>4 DEF P

(* There are no more positive numbers than their total.                    *)
LEMMA TotalCovers ==
  ASSUME NEW s \in Seq(Nat)
  PROVE  /\ IsFiniteSet({i \in DOMAIN s : s[i] > 0})
         /\ Cardinality({i \in DOMAIN s : s[i] > 0}) <= Total(s)
<1> DEFINE Some(u) == {i \in DOMAIN u : u[i] > 0}
           Covers(u) == IsFiniteSet(Some(u)) /\ Cardinality(Some(u)) <= Total(u)
           P == {n \in Nat : \A u \in Seq(Nat) : Len(u) = n => Covers(u)}
<1>1. 0 \in P
  <2>1. ASSUME NEW u \in Seq(Nat), Len(u) = 0 PROVE Covers(u)
    <3>1. u = <<>> /\ Some(u) = {}
      BY <2>1
    <3> QED
      BY <3>1, TotalEmpty, FS_EmptySet
  <2> HIDE DEF Covers
  <2> QED
    BY <2>1
<1>2. ASSUME NEW n \in Nat, n \in P PROVE n + 1 \in P
  <2>1. ASSUME NEW u \in Seq(Nat), Len(u) = n + 1 PROVE Covers(u)
    <3>1. PICK v \in Seq(Nat), k \in Nat : u = Append(v, k) /\ Len(v) = n
      <4>1. PICK v, k : v = SubSeq(u, 1, n) /\ k = u[n + 1]
        OBVIOUS
      <4>2. v \in Seq(Nat) /\ k \in Nat /\ Len(v) = n
        BY <2>1, <4>1
      <4>3. u = Append(v, k)
        BY <2>1, <4>1, <4>2
      <4> QED
        BY <4>2, <4>3
    <3>2. Covers(v)
      BY <1>2, <3>1
    <3>3. Some(u) = IF k > 0 THEN Some(v) \cup {n + 1} ELSE Some(v)
      <4>1. /\ DOMAIN u = 1 .. n + 1 /\ DOMAIN v = 1 .. n /\ u[n + 1] = k
            /\ \A i \in 1 .. n : u[i] = v[i]
        BY <2>1, <3>1
      <4>2. 1 .. n + 1 = (1 .. n) \cup {n + 1}
        OBVIOUS
      <4> QED
        BY <4>1, <4>2
    <3>4. Total(u) = Total(v) + k /\ Total(v) \in Nat
      BY <3>1, TotalAppend, TotalType
    <3>5. n + 1 \notin Some(v)
      BY <3>1
    <3>6. IsFiniteSet(Some(v)) /\ Cardinality(Some(v)) <= Total(v)
      BY <3>2
    <3> HIDE DEF Some
    <3>7. CASE k > 0
      <4>1. /\ IsFiniteSet(Some(u)) /\ Cardinality(Some(v)) \in Nat
            /\ Cardinality(Some(u)) = Cardinality(Some(v)) + 1
        BY <3>3, <3>5, <3>6, <3>7, FS_AddElement, FS_CardinalityType
      <4> QED
        BY <3>1, <3>4, <3>6, <3>7, <4>1
    <3>8. CASE ~(k > 0)
      <4>1. Some(u) = Some(v) /\ k = 0
        BY <3>1, <3>3, <3>8
      <4> QED
        BY <3>4, <3>6, <4>1
    <3> QED
      BY <3>7, <3>8
  <2> HIDE DEF Covers
  <2> QED
    BY <2>1
<1> HIDE DEF P
<1>3. \A n \in Nat : n \in P
  BY <1>1, <1>2, SetInduction
<1>4. Len(s) \in P
  BY <1>3
<1>5. Covers(s)
  BY <1>4 DEF P
<1> QED
  BY <1>5
-----------------------------------------------------------------------------
(* The bytes of some chunks.                                               *)
LEMMA BytesType ==
  ASSUME NEW a \in ChunkSeq
  PROVE  [i \in DOMAIN a |-> a[i][2]] \in Seq(Nat) /\ Bytes(a) \in Nat
<1>1. [i \in DOMAIN a |-> a[i][2]] \in Seq(Nat)
  BY DEF ChunkSeq
<1> QED
  BY <1>1, TotalType DEF Bytes

LEMMA BytesConcat ==
  ASSUME NEW a \in ChunkSeq, NEW b \in ChunkSeq
  PROVE  Bytes(a \o b) = Bytes(a) + Bytes(b) /\ a \o b \in ChunkSeq
<1> DEFINE F(s) == [i \in DOMAIN s |-> s[i][2]]
<1>1. F(a) \in Seq(Nat) /\ F(b) \in Seq(Nat) /\ a \o b \in ChunkSeq
  <2>1. F(a) \in Seq(Nat) /\ F(b) \in Seq(Nat)
    BY BytesType
  <2>2. \A T : a \in Seq(T) /\ b \in Seq(T) => a \o b \in Seq(T)
    BY ConcatProperties
  <2> QED
    BY <2>1, <2>2 DEF ChunkSeq
<1>2. F(a \o b) = F(a) \o F(b)
  <2>1. /\ DOMAIN a = 1 .. Len(a) /\ DOMAIN b = 1 .. Len(b)
        /\ Len(a) \in Nat /\ Len(b) \in Nat
        /\ DOMAIN (a \o b) = 1 .. Len(a) + Len(b)
        /\ \A i \in 1 .. Len(a) + Len(b) :
             (a \o b)[i] = IF i <= Len(a) THEN a[i] ELSE b[i - Len(a)]
    BY DEF ChunkSeq
  <2>2. /\ Len(F(a)) = Len(a) /\ Len(F(b)) = Len(b)
        /\ F(a) \o F(b) = [i \in 1 .. Len(a) + Len(b) |->
                             IF i <= Len(a) THEN F(a)[i] ELSE F(b)[i - Len(a)]]
    BY <1>1, <2>1
  <2> QED
    BY <2>1, <2>2
<1>3. Total(F(a) \o F(b)) = Total(F(a)) + Total(F(b))
  BY <1>1, TotalConcat
<1> QED
  BY <1>1, <1>2, <1>3 DEF Bytes

LEMMA BytesOne ==
  ASSUME NEW c \in Nat \X Nat
  PROVE  Bytes(<<c>>) = c[2] /\ <<c>> \in ChunkSeq
<1>1. [i \in DOMAIN <<c>> |-> <<c>>[i][2]] = <<c[2]>> /\ c[2] \in Nat
  OBVIOUS
<1> QED
  BY <1>1, TotalOne DEF Bytes, ChunkSeq

LEMMA BytesEmpty == Bytes(<<>>) = 0
<1>1. [i \in DOMAIN <<>> |-> <<>>[i][2]] = <<>>
  OBVIOUS
<1> QED
  BY <1>1, TotalEmpty DEF Bytes

LEMMA BytesTail ==
  ASSUME NEW a \in ChunkSeq, a # <<>>
  PROVE  /\ Bytes(a) = Head(a)[2] + Bytes(Tail(a))
         /\ Tail(a) \in ChunkSeq /\ Head(a)[2] \in Nat
<1>1. Head(a) \in Nat \X Nat /\ Tail(a) \in ChunkSeq /\ a = <<Head(a)>> \o Tail(a)
  BY DEF ChunkSeq
<1>2. Bytes(<<Head(a)>>) = Head(a)[2] /\ <<Head(a)>> \in ChunkSeq
  BY <1>1, BytesOne
<1> QED
  BY <1>1, <1>2, BytesConcat

(* The credit in a queue of commands.                                      *)
CreditBytes(s) ==
  Total([i \in DOMAIN s |-> IF IsCredit(s[i]) THEN s[i].size ELSE 0])
CreditSlots(s) ==
  Total([i \in DOMAIN s |-> IF IsCredit(s[i]) THEN s[i].slots ELSE 0])

CreditIn(c) ==
  IF IsCredit(c) THEN [bytes |-> c.size, slots |-> c.slots]
  ELSE [bytes |-> 0, slots |-> 0]

LEMMA CreditType ==
  ASSUME NEW s \in Seq(Command)
  PROVE  /\ CreditBytes(s) \in Nat /\ CreditSlots(s) \in Nat
         /\ [i \in DOMAIN s |-> IF IsCredit(s[i]) THEN s[i].size ELSE 0]
              \in Seq(Nat)
         /\ [i \in DOMAIN s |-> IF IsCredit(s[i]) THEN s[i].slots ELSE 0]
              \in Seq(Nat)
<1>1. /\ DOMAIN s = 1 .. Len(s) /\ Len(s) \in Nat
      /\ \A i \in DOMAIN s : s[i].size \in Nat /\ s[i].slots \in Nat
  <2>1. \A c \in Command : c.size \in Nat /\ c.slots \in Nat
    BY DEF Command
  <2> QED
    BY <2>1
<1>2. /\ [i \in DOMAIN s |-> IF IsCredit(s[i]) THEN s[i].size ELSE 0]
           \in Seq(Nat)
      /\ [i \in DOMAIN s |-> IF IsCredit(s[i]) THEN s[i].slots ELSE 0]
           \in Seq(Nat)
  BY <1>1
<1> QED
  BY <1>2, TotalType DEF CreditBytes, CreditSlots

LEMMA NoCredit == CreditBytes(<<>>) = 0 /\ CreditSlots(<<>>) = 0
<1>1. /\ [i \in DOMAIN <<>> |-> IF IsCredit(<<>>[i]) THEN <<>>[i].size ELSE 0]
           = <<>>
      /\ [i \in DOMAIN <<>> |-> IF IsCredit(<<>>[i]) THEN <<>>[i].slots ELSE 0]
           = <<>>
  OBVIOUS
<1> QED
  BY <1>1, TotalEmpty DEF CreditBytes, CreditSlots

LEMMA CreditAppend ==
  ASSUME NEW s \in Seq(Command), NEW c \in Command
  PROVE  /\ CreditBytes(Append(s, c)) = CreditBytes(s) + CreditIn(c).bytes
         /\ CreditSlots(Append(s, c)) = CreditSlots(s) + CreditIn(c).slots
<1> DEFINE B(t) == [i \in DOMAIN t |-> IF IsCredit(t[i]) THEN t[i].size ELSE 0]
           L(t) == [i \in DOMAIN t |-> IF IsCredit(t[i]) THEN t[i].slots ELSE 0]
<1>1. /\ B(s) \in Seq(Nat) /\ L(s) \in Seq(Nat)
      /\ CreditIn(c).bytes \in Nat /\ CreditIn(c).slots \in Nat
  BY CreditType DEF CreditIn, Command
<1>2. /\ Append(s, c) \in Seq(Command) /\ Len(s) \in Nat
      /\ DOMAIN Append(s, c) = 1 .. Len(s) + 1 /\ DOMAIN s = 1 .. Len(s)
      /\ \A i \in 1 .. Len(s) : Append(s, c)[i] = s[i]
      /\ Append(s, c)[Len(s) + 1] = c
  OBVIOUS
<1>3. B(Append(s, c)) = Append(B(s), CreditIn(c).bytes)
  BY <1>1, <1>2 DEF CreditIn
<1>4. L(Append(s, c)) = Append(L(s), CreditIn(c).slots)
  BY <1>1, <1>2 DEF CreditIn
<1> HIDE DEF B, L
<1>5. /\ Total(B(Append(s, c))) = Total(B(s)) + CreditIn(c).bytes
      /\ Total(L(Append(s, c))) = Total(L(s)) + CreditIn(c).slots
  BY <1>1, <1>3, <1>4, TotalAppend
<1> QED
  BY <1>5 DEF B, L, CreditBytes, CreditSlots

LEMMA CreditTail ==
  ASSUME NEW s \in Seq(Command), s # <<>>
  PROVE  /\ CreditBytes(s) = CreditIn(Head(s)).bytes + CreditBytes(Tail(s))
         /\ CreditSlots(s) = CreditIn(Head(s)).slots + CreditSlots(Tail(s))
<1> DEFINE B(t) == [i \in DOMAIN t |-> IF IsCredit(t[i]) THEN t[i].size ELSE 0]
           L(t) == [i \in DOMAIN t |-> IF IsCredit(t[i]) THEN t[i].slots ELSE 0]
           b == CreditIn(Head(s)).bytes
           l == CreditIn(Head(s)).slots
<1>1. /\ Tail(s) \in Seq(Command) /\ Len(s) \in Nat \ {0} /\ Head(s) = s[1]
      /\ DOMAIN Tail(s) = 1 .. Len(s) - 1 /\ DOMAIN s = 1 .. Len(s)
      /\ \A i \in 1 .. Len(s) - 1 : Tail(s)[i] = s[i + 1]
      /\ Head(s) \in Command
  OBVIOUS
<1>2. /\ B(Tail(s)) \in Seq(Nat) /\ L(Tail(s)) \in Seq(Nat)
      /\ b \in Nat /\ l \in Nat
  BY <1>1, CreditType DEF CreditIn, Command
<1>3. B(s) = <<b>> \o B(Tail(s))
  BY <1>1, <1>2 DEF CreditIn
<1>4. L(s) = <<l>> \o L(Tail(s))
  BY <1>1, <1>2 DEF CreditIn
<1>5. \A n \in Nat : <<n>> \in Seq(Nat) /\ Total(<<n>>) = n
  BY TotalOne
<1> HIDE DEF B, L, b, l
<1>6. /\ Total(<<b>> \o B(Tail(s))) = Total(<<b>>) + Total(B(Tail(s)))
      /\ Total(<<l>> \o L(Tail(s))) = Total(<<l>>) + Total(L(Tail(s)))
  BY <1>2, <1>5, TotalConcat
<1>7. Total(B(s)) = b + Total(B(Tail(s))) /\ Total(L(s)) = l + Total(L(Tail(s)))
  BY <1>2, <1>3, <1>4, <1>5, <1>6
<1> QED
  BY <1>7 DEF B, L, b, l, CreditBytes, CreditSlots

(* The data among the events after the first n.                            *)
DataOf(e) == IF IsData(e) THEN e.chunks ELSE <<>>

After(c, n) == SubSeq(c, n + 1, Len(c))

Gathered(c, n) ==
  FlattenSeq([i \in DOMAIN After(c, n) |-> DataOf(After(c, n)[i])])

LEMMA DataSeq ==
  ASSUME NEW s \in Seq(Event)
  PROVE  [i \in DOMAIN s |-> DataOf(s[i])] \in Seq(ChunkSeq)
<1>1. /\ DOMAIN s = 1 .. Len(s) /\ Len(s) \in Nat
      /\ \A i \in DOMAIN s : s[i].chunks \in Seq(Nat \X Nat)
  <2>1. \A e \in Event : e.chunks \in Seq(Nat \X Nat)
    BY DEF Event
  <2> QED
    BY <2>1
<1>2. \A i \in DOMAIN s : DataOf(s[i]) \in ChunkSeq
  BY <1>1 DEF DataOf, ChunkSeq
<1> QED
  BY <1>1, <1>2

LEMMA DataOfType == ASSUME NEW e \in Event PROVE DataOf(e) \in ChunkSeq
BY DEF DataOf, ChunkSeq, Event

LEMMA GatheredType ==
  ASSUME NEW c \in Seq(Event), NEW n \in Nat, n <= Len(c)
  PROVE  Gathered(c, n) \in ChunkSeq /\ After(c, n) \in Seq(Event)
<1>1. After(c, n) \in Seq(Event)
  BY DEF After
<1>2. [i \in DOMAIN After(c, n) |-> DataOf(After(c, n)[i])] \in Seq(ChunkSeq)
  BY <1>1, DataSeq
<1> QED
  BY <1>1, <1>2, FlattenType DEF Gathered, ChunkSeq

LEMMA GatheredAppend ==
  ASSUME NEW c \in Seq(Event), NEW n \in Nat, n <= Len(c), NEW e \in Event
  PROVE  Gathered(Append(c, e), n) = Gathered(c, n) \o DataOf(e)
<1> DEFINE D(s) == [i \in DOMAIN s |-> DataOf(s[i])]
           a == After(c, n)
<1>1. After(Append(c, e), n) = Append(a, e) /\ a \in Seq(Event)
  <2>1. /\ Len(Append(c, e)) = Len(c) + 1 /\ Len(c) \in Nat
        /\ \A i \in 1 .. Len(c) : Append(c, e)[i] = c[i]
        /\ Append(c, e)[Len(c) + 1] = e
    OBVIOUS
  <2>2. a \in Seq(Event) /\ Len(a) = Len(c) - n
        /\ \A i \in 1 .. Len(c) - n : a[i] = c[n + i]
    BY DEF After
  <2>3. PICK b : b = After(Append(c, e), n)
    OBVIOUS
  <2>4. /\ b \in Seq(Event) /\ Len(b) = (Len(c) - n) + 1
        /\ \A i \in 1 .. (Len(c) - n) + 1 : b[i] = Append(c, e)[n + i]
    BY <2>1, <2>3 DEF After
  <2> HIDE DEF a
  <2>5. PICK d : d = Append(a, e)
    OBVIOUS
  <2>6. /\ d \in Seq(Event) /\ Len(d) = (Len(c) - n) + 1
        /\ \A i \in 1 .. Len(c) - n : d[i] = a[i]
        /\ d[(Len(c) - n) + 1] = e
    BY <2>1, <2>2, <2>5
  <2>7. ASSUME NEW i \in 1 .. (Len(c) - n) + 1 PROVE b[i] = d[i]
    <3>1. CASE i = (Len(c) - n) + 1
      <4>1. n + i = Len(c) + 1
        BY <2>1, <3>1
      <4> QED
        BY <2>1, <2>4, <2>6, <3>1, <4>1
    <3>2. CASE i # (Len(c) - n) + 1
      <4>1. i \in 1 .. Len(c) - n /\ n + i \in 1 .. Len(c)
        BY <2>1, <3>2
      <4> QED
        BY <2>1, <2>2, <2>4, <2>6, <4>1
    <3> QED
      BY <3>1, <3>2
  <2>8. b = d
    BY <2>1, <2>4, <2>6, <2>7
  <2> QED
    BY <2>2, <2>3, <2>5, <2>8
<1> HIDE DEF a
<1>2. D(Append(a, e)) = Append(D(a), DataOf(e))
  BY <1>1
<1>3. D(a) \in Seq(ChunkSeq) /\ DataOf(e) \in ChunkSeq
  BY <1>1, DataSeq, DataOfType
<1>4. FlattenSeq(Append(D(a), DataOf(e))) = FlattenSeq(D(a)) \o DataOf(e)
  BY <1>3, FlattenAppend DEF ChunkSeq
<1> QED
  BY <1>1, <1>2, <1>4 DEF Gathered, a

LEMMA GatheredNext ==
  ASSUME NEW c \in Seq(Event), NEW n \in Nat, n < Len(c)
  PROVE  Gathered(c, n) = DataOf(c[n + 1]) \o Gathered(c, n + 1)
<1> DEFINE D(s) == [i \in DOMAIN s |-> DataOf(s[i])]
           a == After(c, n + 1)
           e == c[n + 1]
<1>1. After(c, n) = <<e>> \o a /\ a \in Seq(Event) /\ e \in Event
  BY DEF After
<1> HIDE DEF a, e
<1>2. D(<<e>> \o a) = <<DataOf(e)>> \o D(a)
  BY <1>1
<1>3. D(a) \in Seq(ChunkSeq) /\ DataOf(e) \in ChunkSeq
  BY <1>1, DataSeq, DataOfType
<1>4. FlattenSeq(<<DataOf(e)>> \o D(a)) = DataOf(e) \o FlattenSeq(D(a))
  BY <1>3, FlattenFront DEF ChunkSeq
<1> QED
  BY <1>1, <1>2, <1>4 DEF Gathered, a, e

(* What is on its way to the client, in bytes and in events.               *)
Waiting == Gathered(callbacks, consumed)

LEMMA ChunksAre ==
  ASSUME callbacks \in Seq(Event), consumed \in Nat, consumed <= Len(callbacks),
         backlog \in ChunkSeq, batch \in ChunkSeq
  PROVE  /\ Bytes(Chunks) = Bytes(Waiting) + Bytes(backlog) + Bytes(batch)
         /\ Len(Chunks) = Len(Waiting) + Len(backlog) + Len(batch)
         /\ Waiting \in ChunkSeq
<1>1. Chunks = Waiting \o backlog \o batch
  BY DEF Chunks, Unread, Waiting, Gathered, After, DataOf
<1>2. Waiting \in ChunkSeq
  BY GatheredType DEF Waiting
<1>3. /\ Waiting \o backlog \in ChunkSeq
      /\ Bytes(Waiting \o backlog) = Bytes(Waiting) + Bytes(backlog)
      /\ Bytes((Waiting \o backlog) \o batch)
           = Bytes(Waiting \o backlog) + Bytes(batch)
  BY <1>2, BytesConcat
<1>4. Len((Waiting \o backlog) \o batch)
        = Len(Waiting) + Len(backlog) + Len(batch)
  BY <1>2, <1>3 DEF ChunkSeq
<1> QED
  BY <1>1, <1>2, <1>3, <1>4
-----------------------------------------------------------------------------
(* The credit that the native side may still use, and the credit that is   *)
(* used and has not reached the client.  A session that is over uses none. *)
Active == receiving /\ pc # "ended"

GivenBytes == window.bytes + GrantedBytes
GivenSlots == window.slots + GrantedSlots

DueBytes == Bytes(Waiting) + Bytes(batch)
DueSlots == Len(Waiting) + Len(batch)

(* All that a session which is over still does is its completion.          *)
LEMMA Completing ==
  ASSUME Task, pc \in Over
  PROVE  DropReceiver \/ MarkStopped \/ Release \/ SendClose
<1> USE DEF Over, Ended
<1>1. CASE \/ Opened \/ OpenFailed \/ PublishOpen \/ CheckStop \/ LeaveFront
           \/ FinishWrite \/ Control \/ Flush \/ StartDrain \/ FinishDrain
           \/ SendAnswer \/ Notified \/ ReceiveOrdered \/ ReceiveRead
  BY <1>1
  DEF Opened, OpenFailed, PublishOpen, CheckStop, LeaveFront, FinishWrite,
      Control, Flush, StartDrain, FinishDrain, SendAnswer, Notified,
      ReceiveOrdered, ReceiveRead, Receivable
<1>2. CASE \/ ReceiveCredit \/ PollTransfers \/ NothingReady
           \/ TransferFailed \/ TransferWrite \/ TransferRead
           \/ TransferStream \/ BurstRead \/ BurstEnd
  BY <1>2
  DEF ReceiveCredit, Receivable, PollTransfers, NothingReady, TransferFailed,
      TransferWrite, TransferRead, TransferStream, BurstRead, BurstEnd
<1> QED
  BY <1>1, <1>2 DEF Task

LEMMA EndedDrops == ASSUME Task, pc = "ended" PROVE DropReceiver
BY Completing DEF Over, MarkStopped, Release, SendClose

LEMMA CreditTypes ==
  ASSUME Port
  PROVE  /\ callbacks \in Seq(Event) /\ consumed \in Nat
         /\ consumed <= Len(callbacks) /\ batch \in ChunkSeq
         /\ channel \in Seq(Command) /\ Waiting \in ChunkSeq
         /\ window.bytes \in Nat /\ window.slots \in Nat
         /\ GrantedBytes = CreditBytes(channel)
         /\ GrantedSlots = CreditSlots(channel)
         /\ GrantedBytes \in Nat /\ GrantedSlots \in Nat
         /\ GivenBytes \in Nat /\ GivenSlots \in Nat
         /\ DueBytes \in Nat /\ DueSlots \in Nat
         /\ Bytes(Waiting) \in Nat /\ Len(Waiting) \in Nat
         /\ Bytes(batch) \in Nat /\ Len(batch) \in Nat
<1>1. /\ callbacks \in Seq(Event) /\ consumed \in Nat
      /\ consumed <= Len(callbacks) /\ batch \in ChunkSeq
      /\ channel \in Seq(Command)
      /\ window.bytes \in Nat /\ window.slots \in Nat
  BY DEF Port, NativeInv, Inv, QueueTypes, Shape, TaskTypes, Ends
<1>2. Waiting \in ChunkSeq
  BY <1>1, GatheredType DEF Waiting
<1>3. /\ GrantedBytes = CreditBytes(channel)
      /\ GrantedSlots = CreditSlots(channel)
  BY DEF GrantedBytes, GrantedSlots, CreditBytes, CreditSlots
<1>4. GrantedBytes \in Nat /\ GrantedSlots \in Nat
  BY <1>1, <1>3, CreditType
<1>5. Bytes(Waiting) \in Nat /\ Bytes(batch) \in Nat
  BY <1>1, <1>2, BytesType
<1>6. Len(Waiting) \in Nat /\ Len(batch) \in Nat
  BY <1>1, <1>2 DEF ChunkSeq
<1>7. GivenBytes \in Nat /\ GivenSlots \in Nat
  BY <1>1, <1>4 DEF GivenBytes, GivenSlots
<1>8. DueBytes \in Nat /\ DueSlots \in Nat
  BY <1>5, <1>6 DEF DueBytes, DueSlots
<1> QED
  BY <1>1, <1>2, <1>3, <1>4, <1>5, <1>6, <1>7, <1>8

LEMMA WeightsAre ==
  /\ GivenBytes = window.bytes + GrantedBytes
  /\ GivenSlots = window.slots + GrantedSlots
  /\ DueBytes = Bytes(Waiting) + Bytes(batch)
  /\ DueSlots = Len(Waiting) + Len(batch)
  /\ GivenBytes' = window'.bytes + GrantedBytes'
  /\ GivenSlots' = window'.slots + GrantedSlots'
  /\ DueBytes' = Bytes(Waiting') + Bytes(batch')
  /\ DueSlots' = Len(Waiting') + Len(batch')
  /\ GrantedBytes' = CreditBytes(channel')
  /\ GrantedSlots' = CreditSlots(channel')
BY DEF GivenBytes, GivenSlots, DueBytes, DueSlots, GrantedBytes, GrantedSlots,
       CreditBytes, CreditSlots

(* The weights after a step that publishes an event, takes a command from  *)
(* the channel, or changes the batch and the window.                       *)
LEMMA WaitingAfter ==
  ASSUME Port, NEW e \in Event, callbacks' = Append(callbacks, e),
         consumed' = consumed
  PROVE  /\ Bytes(Waiting') = Bytes(Waiting) + Bytes(DataOf(e))
         /\ Len(Waiting') = Len(Waiting) + Len(DataOf(e))
<1>1. Waiting' = Waiting \o DataOf(e)
  BY CreditTypes, GatheredAppend DEF Waiting
<1>2. DataOf(e) \in ChunkSeq
  BY DataOfType
<1> QED
  BY <1>1, <1>2, CreditTypes, BytesConcat DEF ChunkSeq

LEMMA WaitingSame ==
  ASSUME Port, consumed' = consumed,
         \/ callbacks' = callbacks
         \/ \E e \in Event :
              /\ callbacks' = Append(callbacks, e)
              /\ e.kind # "data" \/ e.chunks = <<>>
  PROVE  Bytes(Waiting') = Bytes(Waiting) /\ Len(Waiting') = Len(Waiting)
<1>1. CASE callbacks' = callbacks
  BY <1>1 DEF Waiting
<1>2. ASSUME NEW e \in Event, callbacks' = Append(callbacks, e),
             e.kind # "data" \/ e.chunks = <<>>
      PROVE  Bytes(Waiting') = Bytes(Waiting) /\ Len(Waiting') = Len(Waiting)
  <2>1. DataOf(e) = <<>>
    BY <1>2 DEF DataOf, IsData
  <2> QED
    BY SMTT(20), <1>2, <2>1, WaitingAfter, BytesEmpty, CreditTypes
<1> QED
  BY <1>1, <1>2

Balance ==
  /\ Active' => /\ Active
                /\ GivenBytes' + DueBytes' = GivenBytes + DueBytes
                /\ GivenSlots' + DueSlots' = GivenSlots + DueSlots
  /\ GivenBytes' + DueBytes' <= GivenBytes + DueBytes
  /\ GivenSlots' + DueSlots' <= GivenSlots + DueSlots
(* The task that does nothing about credit.                                *)
LEMMA SameBalance ==
  ASSUME Port, Active' => Active,
         GivenBytes' = GivenBytes, GivenSlots' = GivenSlots,
         DueBytes' = DueBytes, DueSlots' = DueSlots
  PROVE  Balance
<1>1. /\ GivenBytes \in Nat /\ GivenSlots \in Nat
      /\ DueBytes \in Nat /\ DueSlots \in Nat
  BY CreditTypes
<1>2. /\ GivenBytes + DueBytes <= GivenBytes + DueBytes
      /\ GivenSlots + DueSlots <= GivenSlots + DueSlots
  BY <1>1
<1> QED
  BY <1>2 DEF Balance

(* Credit that is used is due.                                             *)
LEMMA UsedBalance ==
  ASSUME Port, Active, NEW n \in Nat, n <= window.bytes, window.slots > 0,
         window'.bytes = window.bytes - n, window'.slots = window.slots - 1,
         channel' = channel,
         Bytes(Waiting') + Bytes(batch') = (Bytes(Waiting) + Bytes(batch)) + n,
         Len(Waiting') + Len(batch') = (Len(Waiting) + Len(batch)) + 1
  PROVE  Balance
<1>1. /\ window.bytes \in Nat /\ window.slots \in Nat
      /\ GrantedBytes \in Nat /\ GrantedSlots \in Nat
      /\ DueBytes \in Nat /\ DueSlots \in Nat
  BY CreditTypes
<1>2. /\ GivenBytes = window.bytes + GrantedBytes
      /\ GivenSlots = window.slots + GrantedSlots
      /\ GivenBytes' = (window.bytes - n) + GrantedBytes
      /\ GivenSlots' = (window.slots - 1) + GrantedSlots
  <2>1. GrantedBytes' = GrantedBytes /\ GrantedSlots' = GrantedSlots
    BY DEF GrantedBytes, GrantedSlots
  <2> QED
    BY <2>1, WeightsAre
<1>3. DueBytes' = DueBytes + n /\ DueSlots' = DueSlots + 1
  BY WeightsAre
<1>4. \A w, g, d, k \in Nat : k <= w =>
        /\ ((w - k) + g) + (d + k) = (w + g) + d
        /\ (w + g) + d <= (w + g) + d
  OBVIOUS
<1>5. /\ GivenBytes' + DueBytes' = GivenBytes + DueBytes
      /\ GivenBytes + DueBytes <= GivenBytes + DueBytes
  <2>1. /\ ((window.bytes - n) + GrantedBytes) + (DueBytes + n)
             = (window.bytes + GrantedBytes) + DueBytes
        /\ (window.bytes + GrantedBytes) + DueBytes
             <= (window.bytes + GrantedBytes) + DueBytes
    BY <1>1, <1>4
  <2> QED
    BY <2>1, <1>2, <1>3
<1>6. /\ GivenSlots' + DueSlots' = GivenSlots + DueSlots
      /\ GivenSlots + DueSlots <= GivenSlots + DueSlots
  <2>1. 1 \in Nat /\ 1 <= window.slots
    BY <1>1
  <2>2. /\ ((window.slots - 1) + GrantedSlots) + (DueSlots + 1)
             = (window.slots + GrantedSlots) + DueSlots
        /\ (window.slots + GrantedSlots) + DueSlots
             <= (window.slots + GrantedSlots) + DueSlots
    BY <1>1, <1>4, <2>1
  <2> QED
    BY <2>2, <1>2, <1>3
<1> QED
  BY <1>5, <1>6 DEF Balance

(* The task moves credit and never makes any: what it takes from the       *)
(* window is on its way to the client, unless the session ends.            *)
LEMMA NoTraffic ==
  ASSUME Port, Task, consumed' = consumed, pc # "ended",
         UNCHANGED <<receiving, batch>>,
         window'.bytes = window.bytes, window'.slots = window.slots,
         \/ channel' = channel
         \/ /\ channel # <<>> /\ channel' = Tail(channel)
            /\ ~IsCredit(Head(channel)),
         \/ callbacks' = callbacks
         \/ \E e \in Event : /\ callbacks' = Append(callbacks, e)
                             /\ e.kind # "data" \/ e.chunks = <<>>
  PROVE  Balance
<1>1. Active' => Active
  BY DEF Active
<1>2. Bytes(Waiting') = Bytes(Waiting) /\ Len(Waiting') = Len(Waiting)
  BY WaitingSame
<1>3. /\ CreditBytes(channel') = CreditBytes(channel)
      /\ CreditSlots(channel') = CreditSlots(channel)
  <2>1. CASE channel' = channel
    BY <2>1
  <2>2. CASE /\ channel # <<>> /\ channel' = Tail(channel)
             /\ ~IsCredit(Head(channel))
    <3>1. channel \in Seq(Command) /\ Tail(channel) \in Seq(Command)
      BY <2>2, CreditTypes
    <3>2. CreditIn(Head(channel)) = [bytes |-> 0, slots |-> 0]
      BY <2>2 DEF CreditIn
    <3>3. /\ CreditBytes(channel) = 0 + CreditBytes(Tail(channel))
          /\ CreditSlots(channel) = 0 + CreditSlots(Tail(channel))
      BY <2>2, <3>1, <3>2, CreditTail
    <3>4. /\ CreditBytes(Tail(channel)) \in Nat
          /\ CreditSlots(Tail(channel)) \in Nat
      BY <3>1, CreditType
    <3> QED
      BY <2>2, <3>3, <3>4
  <2> QED
    BY <2>1, <2>2
<1>4. /\ GrantedBytes' = CreditBytes(channel')
      /\ GrantedSlots' = CreditSlots(channel')
  BY DEF GrantedBytes, GrantedSlots, CreditBytes, CreditSlots
<1>5. /\ GivenBytes' = GivenBytes /\ GivenSlots' = GivenSlots
      /\ DueBytes' = DueBytes /\ DueSlots' = DueSlots
  BY <1>2, <1>3, <1>4, CreditTypes, WeightsAre
<1> QED
  BY <1>1, <1>5, SameBalance

(* The session ends: what has not been published is forgotten.             *)
LEMMA EndTraffic ==
  ASSUME Port, consumed' = consumed, ~Active',
         batch' = batch \/ batch' = <<>>,
         channel' = channel \/ channel' = <<>>,
         window'.bytes \in Nat, window'.bytes <= window.bytes,
         window'.slots \in Nat, window'.slots <= window.slots,
         \/ callbacks' = callbacks
         \/ \E e \in Event : /\ callbacks' = Append(callbacks, e)
                             /\ e.kind # "data" \/ e.chunks = <<>>
  PROVE  Balance
<1>1. Bytes(Waiting') = Bytes(Waiting) /\ Len(Waiting') = Len(Waiting)
  BY WaitingSame
<1>2. Bytes(batch') <= Bytes(batch) /\ Len(batch') <= Len(batch)
      /\ Bytes(batch') \in Nat /\ Len(batch') \in Nat
  BY SMTT(20), CreditTypes, BytesEmpty
<1>3. /\ DueBytes = Bytes(Waiting) + Bytes(batch)
      /\ DueSlots = Len(Waiting) + Len(batch)
      /\ DueBytes' = Bytes(Waiting) + Bytes(batch')
      /\ DueSlots' = Len(Waiting) + Len(batch')
  BY <1>1, WeightsAre
<1>4. /\ Bytes(Waiting) \in Nat /\ Len(Waiting) \in Nat
      /\ Bytes(batch) \in Nat /\ Len(batch) \in Nat
      /\ GivenBytes \in Nat /\ GivenSlots \in Nat
      /\ DueBytes \in Nat /\ DueSlots \in Nat
  BY CreditTypes
<1>5. DueBytes' <= DueBytes /\ DueBytes' \in Nat
  BY SMTT(20), <1>2, <1>3, <1>4
<1>6. DueSlots' <= DueSlots /\ DueSlots' \in Nat
  BY <1>2, <1>3, <1>4
<1>7. /\ CreditBytes(channel') <= CreditBytes(channel)
      /\ CreditSlots(channel') <= CreditSlots(channel)
      /\ CreditBytes(channel') \in Nat /\ CreditSlots(channel') \in Nat
      /\ CreditBytes(channel) \in Nat /\ CreditSlots(channel) \in Nat
  <2>1. channel \in Seq(Command)
    BY CreditTypes
  <2>2. CreditBytes(channel) \in Nat /\ CreditSlots(channel) \in Nat
    BY <2>1, CreditType
  <2>3. CASE channel' = channel
    BY <2>2, <2>3
  <2>4. CASE channel' = <<>>
    BY <2>2, <2>4, NoCredit
  <2> QED
    BY <2>3, <2>4
<1>8. /\ GivenBytes = window.bytes + CreditBytes(channel)
      /\ GivenSlots = window.slots + CreditSlots(channel)
      /\ GivenBytes' = window'.bytes + CreditBytes(channel')
      /\ GivenSlots' = window'.slots + CreditSlots(channel')
      /\ window.bytes \in Nat /\ window.slots \in Nat
  BY CreditTypes, WeightsAre
<1>9. \A w, g, d, x, h, e \in Nat :
        x <= w /\ h <= g /\ e <= d => (x + h) + e <= (w + g) + d
  OBVIOUS
<1>10. (window'.bytes + CreditBytes(channel')) + DueBytes'
         <= (window.bytes + CreditBytes(channel)) + DueBytes
  BY <1>4, <1>5, <1>7, <1>8, <1>9
<1>11. (window'.slots + CreditSlots(channel')) + DueSlots'
         <= (window.slots + CreditSlots(channel)) + DueSlots
  BY <1>4, <1>6, <1>7, <1>8, <1>9
<1> QED
  BY <1>8, <1>10, <1>11 DEF Balance

LEMMA ReceiveBalance ==
  ASSUME Port, ReceiveCredit, consumed' = consumed PROVE Balance
<1> DEFINE c == Head(channel)
<1>1. /\ channel # <<>> /\ IsCredit(c) /\ channel' = Tail(channel)
      /\ pc = "select" /\ UNCHANGED <<receiving, callbacks, batch>>
      /\ window'.bytes = window.bytes + c.size
      /\ window'.slots = window.slots + c.slots
  <2>1. window \in [bytes : Nat, slots : Nat, size : Sizes]
    BY DEF Port, NativeInv, Shape, TaskTypes
  <2> QED
    BY <2>1 DEF ReceiveCredit, Receivable, IsCredit
<1>2. /\ c.size \in Nat /\ c.slots \in Nat /\ channel' \in Seq(Command)
      /\ CreditIn(c) = [bytes |-> c.size, slots |-> c.slots]
  BY <1>1, HeadType, CreditTypes DEF CreditIn
<1>3. /\ CreditBytes(channel) = c.size + CreditBytes(channel')
      /\ CreditSlots(channel) = c.slots + CreditSlots(channel')
  <2>1. channel \in Seq(Command)
    BY CreditTypes
  <2> QED
    BY <1>1, <1>2, <2>1, CreditTail
<1>4. /\ GrantedBytes' = CreditBytes(channel')
      /\ GrantedSlots' = CreditSlots(channel')
      /\ CreditBytes(channel') \in Nat /\ CreditSlots(channel') \in Nat
  BY <1>2, CreditType DEF GrantedBytes, GrantedSlots, CreditBytes, CreditSlots
<1>5. Bytes(Waiting') = Bytes(Waiting) /\ Len(Waiting') = Len(Waiting)
  BY <1>1, WaitingSame
<1>6. /\ window.bytes \in Nat /\ window.slots \in Nat
      /\ GrantedBytes = CreditBytes(channel)
      /\ GrantedSlots = CreditSlots(channel)
      /\ GivenBytes \in Nat /\ GivenSlots \in Nat
      /\ DueBytes \in Nat /\ DueSlots \in Nat
  BY CreditTypes
<1>7. /\ GivenBytes' = (window.bytes + c.size) + CreditBytes(channel')
      /\ GivenSlots' = (window.slots + c.slots) + CreditSlots(channel')
      /\ GivenBytes = window.bytes + (c.size + CreditBytes(channel'))
      /\ GivenSlots = window.slots + (c.slots + CreditSlots(channel'))
  BY <1>1, <1>3, <1>6, WeightsAre
<1>8. GivenBytes' = GivenBytes /\ GivenSlots' = GivenSlots
  BY SMTT(20), <1>2, <1>4, <1>6, <1>7
<1>9. DueBytes' = DueBytes /\ DueSlots' = DueSlots
  BY <1>1, <1>5, WeightsAre
<1>10. Active' => Active
  BY <1>1 DEF Active
<1> QED
  BY <1>6, <1>8, <1>9, <1>10, SameBalance

LEMMA StreamBalance ==
  ASSUME Port, TransferStream, consumed' = consumed PROVE Balance
<1> DEFINE n == Least(ReadCapacity, Available)
           chunk == <<Chunk(n)>>
<1>1. /\ n \in Nat \ {0} /\ n <= window.bytes /\ window.slots > 0
      /\ Chunk(n) \in Nat \X Nat
  <2>1. /\ ReadReady /\ ~gone /\ streaming /\ Shape
    BY DEF TransferStream, PicksRead, Port, NativeInv
  <2>2. /\ ReadLimit \in Nat \ {0} /\ Available > 0
        /\ ReadLimit = window.bytes /\ window.slots > 0
    BY <2>1, ReadTypes
  <2>3. n \in Nat \ {0} /\ n <= ReadLimit /\ Chunk(n) \in Nat \X Nat
    BY <2>1, <2>2, Takes DEF ReadCapacity
  <2> QED
    BY <2>2, <2>3
<1>2. /\ window'.bytes = window.bytes - n /\ window'.slots = window.slots - 1
      /\ UNCHANGED <<channel, receiving, batch>> /\ pc = "poll"
      /\ \/ callbacks' = Append(callbacks, Data(chunk))
         \/ callbacks' = callbacks /\ pc' = "ended"
  BY DEF TransferStream, Charge, Send, queueVars
<1>3. Bytes(chunk) = n /\ chunk \in ChunkSeq /\ Len(chunk) = 1
  BY <1>1, BytesOne DEF Chunk
<1> HIDE DEF chunk, n
<1>4. Data(chunk) \in Event /\ DataOf(Data(chunk)) = chunk
  BY <1>3, DataType DEF Data, DataOf, IsData, NoEvent
<1>5. CASE callbacks' = Append(callbacks, Data(chunk))
  <2>1. /\ Bytes(Waiting') = Bytes(Waiting) + n
        /\ Len(Waiting') = Len(Waiting) + 1
    BY <1>3, <1>4, <1>5, WaitingAfter
  <2>2. /\ Bytes(Waiting) \in Nat /\ Len(Waiting) \in Nat
        /\ Bytes(batch) \in Nat /\ Len(batch) \in Nat /\ batch' = batch
    BY <1>2, CreditTypes
  <2>3. /\ Bytes(Waiting') + Bytes(batch')
             = (Bytes(Waiting) + Bytes(batch)) + n
        /\ Len(Waiting') + Len(batch') = (Len(Waiting) + Len(batch)) + 1
    BY <1>1, <2>1, <2>2
  <2>4. Active
    BY <1>2 DEF Active, Port, NativeInv, Inv, Places, Ended
  <2> QED
    BY <1>1, <1>2, <2>3, <2>4, UsedBalance
<1>6. CASE callbacks' = callbacks /\ pc' = "ended"
  <2>1. /\ window'.bytes \in Nat /\ window'.bytes <= window.bytes
        /\ window'.slots \in Nat /\ window'.slots <= window.slots
    <3>1. window.bytes \in Nat /\ window.slots \in Nat
      BY CreditTypes
    <3>2. window.bytes - n \in Nat /\ window.bytes - n <= window.bytes
      BY <1>1, <3>1
    <3>3. window.slots - 1 \in Nat /\ window.slots - 1 <= window.slots
      BY <1>1, <3>1
    <3> QED
      BY <1>2, <3>2, <3>3
  <2> QED
    BY <1>2, <1>6, <2>1, EndTraffic DEF Active
<1> QED
  BY <1>2, <1>5, <1>6

LEMMA BurstBalance ==
  ASSUME Port, BurstRead, consumed' = consumed PROVE Balance
<1> DEFINE capacity == Least(window.bytes, window.size)
           n == Least(capacity, Available)
<1>1. /\ n \in Nat \ {0} /\ n <= window.bytes /\ window.slots > 0
      /\ Chunk(n) \in Nat \X Nat
  <2>1. /\ window.bytes \in Nat /\ window.bytes > 0 /\ window.slots > 0
        /\ Available > 0 /\ Shape
    BY SMTT(20), CreditTypes DEF BurstRead, BurstContinues, Spent, Port, NativeInv
  <2> QED
    BY <2>1, Takes
<1>2. /\ window'.bytes = window.bytes - n /\ window'.slots = window.slots - 1
      /\ UNCHANGED <<channel, receiving, callbacks, pc>>
      /\ batch' = Append(batch, Chunk(n)) /\ pc = "burst"
  BY DEF BurstRead, Charge, queueVars
<1>3. Bytes(<<Chunk(n)>>) = n /\ <<Chunk(n)>> \in ChunkSeq
  BY <1>1, BytesOne DEF Chunk
<1> HIDE DEF n, capacity
<1>4. Bytes(batch') = Bytes(batch) + n /\ Len(batch') = Len(batch) + 1
  <2>1. batch' = batch \o <<Chunk(n)>> /\ Len(batch') = Len(batch) + 1
    <3>1. batch \in Seq(Nat \X Nat) /\ Chunk(n) \in Nat \X Nat
      BY <1>1, CreditTypes DEF ChunkSeq
    <3> QED
      BY <1>2, <3>1, AppendIsConcat, AppendProperties
  <2> QED
    BY <1>3, <2>1, BytesConcat, CreditTypes
<1>5. Bytes(Waiting') = Bytes(Waiting) /\ Len(Waiting') = Len(Waiting)
  BY <1>2, WaitingSame
<1>6. /\ Bytes(Waiting) \in Nat /\ Len(Waiting) \in Nat
      /\ Bytes(batch) \in Nat /\ Len(batch) \in Nat
  BY CreditTypes
<1>7. /\ Bytes(Waiting') + Bytes(batch') = (Bytes(Waiting) + Bytes(batch)) + n
      /\ Len(Waiting') + Len(batch') = (Len(Waiting) + Len(batch)) + 1
  BY <1>1, <1>4, <1>5, <1>6
<1>8. Active
  BY <1>2 DEF Active, Port, NativeInv, Inv, Places, Ended
<1> QED
  BY <1>1, <1>2, <1>7, <1>8, UsedBalance

LEMMA EndBalance ==
  ASSUME Port, BurstEnd, consumed' = consumed PROVE Balance
<1>1. /\ UNCHANGED <<channel, receiving, window>> /\ batch' = <<>>
      /\ pc = "burst"
      /\ \/ batch = <<>> /\ callbacks' = callbacks
         \/ callbacks' = Append(callbacks, Data(batch))
         \/ callbacks' = callbacks /\ pc' = "ended"
  BY DEF BurstEnd, Followers, Send, queueVars
<1>2. Data(batch) \in Event /\ DataOf(Data(batch)) = batch
  BY DataType, CreditTypes DEF Data, DataOf, IsData, NoEvent
<1>3. Bytes(batch') = 0 /\ Len(batch') = 0
  BY <1>1, BytesEmpty
<1>4. GrantedBytes' = GrantedBytes /\ GrantedSlots' = GrantedSlots
  BY <1>1 DEF GrantedBytes, GrantedSlots
<1>5. Active
  BY <1>1 DEF Active, Port, NativeInv, Inv, Places, Ended
<1>6. CASE callbacks' = callbacks /\ pc' = "ended"
  <2>1. /\ window'.bytes \in Nat /\ window'.bytes <= window.bytes
        /\ window'.slots \in Nat /\ window'.slots <= window.slots
    BY SMTT(20), <1>1, CreditTypes
  <2> QED
    BY <1>1, <1>6, <2>1, EndTraffic DEF Active
<1>7. CASE \/ batch = <<>> /\ callbacks' = callbacks
           \/ callbacks' = Append(callbacks, Data(batch))
  <2>1. /\ Bytes(Waiting') = Bytes(Waiting) + Bytes(batch)
        /\ Len(Waiting') = Len(Waiting) + Len(batch)
    <3>1. CASE batch = <<>> /\ callbacks' = callbacks
      BY <3>1, WaitingSame, BytesEmpty, CreditTypes
    <3>2. CASE callbacks' = Append(callbacks, Data(batch))
      BY <1>2, <3>2, WaitingAfter
    <3> QED
      BY <1>7, <3>1, <3>2
  <2>2. /\ GivenBytes' = GivenBytes /\ GivenSlots' = GivenSlots
        /\ DueBytes' = DueBytes /\ DueSlots' = DueSlots
    BY <1>1, <1>3, <1>4, <2>1, CreditTypes, WeightsAre
  <2> QED
    BY <1>5, <2>2, SameBalance
<1> QED
  BY <1>1, <1>6, <1>7

LEMMA TaskBalance ==
  ASSUME Port, Task, consumed' = consumed PROVE Balance
<1>1. \/ callbacks' = callbacks
      \/ PublishOpen \/ SendAnswer \/ TransferRead \/ TransferStream
      \/ BurstEnd \/ SendClose
  BY Publication DEF Port
<1>2. CASE ReceiveCredit
  BY <1>2, ReceiveBalance
<1>3. CASE TransferStream
  BY <1>3, StreamBalance
<1>4. CASE BurstRead
  BY <1>4, BurstBalance
<1>5. CASE BurstEnd
  BY <1>5, EndBalance
<1>6. CASE DropReceiver \/ SendClose
  <2>1. /\ ~Active' /\ batch' = batch /\ window' = window
        /\ channel' = channel \/ channel' = <<>>
    BY <1>6 DEF DropReceiver, SendClose, Active, queueVars
  <2>2. \/ callbacks' = callbacks
        \/ \E e \in Event : /\ callbacks' = Append(callbacks, e)
                            /\ e.kind # "data" \/ e.chunks = <<>>
    <3>1. CASE DropReceiver
      BY <3>1 DEF DropReceiver
    <3>2. CASE SendClose
      <4>1. pc = "closing"
        BY <3>2 DEF SendClose
      <4> QED
        BY <3>2, <4>1, Publication
        DEF Port, PublishOpen, SendAnswer, TransferRead, TransferStream,
            BurstEnd
    <3> QED
      BY <1>6, <3>1, <3>2
  <2>3. /\ window'.bytes \in Nat /\ window'.bytes <= window.bytes
        /\ window'.slots \in Nat /\ window'.slots <= window.slots
    BY <2>1, CreditTypes
  <2> QED
    BY <2>1, <2>2, <2>3, EndTraffic
<1>7. CASE /\ \/ Quiet \/ Retires \/ PublishOpen \/ SendAnswer
              \/ ReceiveOrdered \/ ReceiveRead \/ TransferRead
           /\ ~TransferStream /\ ~BurstEnd /\ ~DropReceiver /\ ~SendClose
  <2>1. pc # "ended"
    BY <1>7, EndedDrops
  <2>2. UNCHANGED <<receiving, batch>>
    BY <1>7
    DEF Quiet, Retires, PublishOpen, SendAnswer, ReceiveOrdered, ReceiveRead,
        TransferRead, queueVars
  <2>3. window'.bytes = window.bytes /\ window'.slots = window.slots
    <3>1. window \in [bytes : Nat, slots : Nat, size : Sizes]
      BY DEF Port, NativeInv, Shape, TaskTypes
    <3> QED
      BY <1>7, <3>1
      DEF Quiet, Retires, PublishOpen, SendAnswer, ReceiveOrdered,
          ReceiveRead, TransferRead
  <2>4. \/ channel' = channel
        \/ /\ channel # <<>> /\ channel' = Tail(channel)
           /\ ~IsCredit(Head(channel))
    BY <1>7
    DEF Quiet, Retires, PublishOpen, SendAnswer, ReceiveOrdered, ReceiveRead,
        Receivable, TransferRead, queueVars, Ordered, OrderedOps, IsCredit
  <2>5. \/ callbacks' = callbacks
        \/ \E e \in Event : /\ callbacks' = Append(callbacks, e)
                            /\ e.kind # "data" \/ e.chunks = <<>>
    BY <1>7, Publication DEF Port, Events, NoEvent
  <2> QED
    BY <2>1, <2>2, <2>3, <2>4, <2>5, NoTraffic
<1> QED
  BY <1>2, <1>3, <1>4, <1>5, <1>6, <1>7, TaskEffect DEF Port
-----------------------------------------------------------------------------
(* The ledger of JavaScript: what it counts as outstanding covers what is  *)
(* given, due or undelivered, and is exactly that as long as the port is   *)
(* open at both ends.  Before the open event it is empty.                  *)
OutBytes == DueBytes + Bytes(backlog)
OutSlots == DueSlots + Len(backlog)

Covered ==
  /\ GivenBytes + OutBytes <= readBytes
  /\ GivenSlots + OutSlots <= readSlots

Exact ==
  Active /\ isOpen => /\ readBytes = GivenBytes + OutBytes
                      /\ readSlots = GivenSlots + OutSlots

Opening ==
  /\ opened = "pending" => readBytes = 0 /\ readSlots = 0 /\ ~isOpen
  /\ consumed = 0 => opened = "pending"

Limits ==
  readBytes \in 0 .. ChunkSize /\ readSlots \in 0 .. ReadSlots
    /\ backlog \in ChunkSeq

Ledger == Limits /\ Covered /\ Exact /\ Opening

LEMMA LedgerTypes ==
  ASSUME Port, Limits
  PROVE  /\ readBytes \in Nat /\ readSlots \in Nat
         /\ Bytes(backlog) \in Nat /\ Len(backlog) \in Nat
         /\ GivenBytes \in Nat /\ GivenSlots \in Nat
         /\ DueBytes \in Nat /\ DueSlots \in Nat
         /\ OutBytes = DueBytes + Bytes(backlog)
         /\ OutSlots = DueSlots + Len(backlog)
<1>1. readBytes \in Nat /\ readSlots \in Nat
  BY NativeAssumption DEF Limits
<1>2. Bytes(backlog) \in Nat /\ Len(backlog) \in Nat
  <2>1. backlog \in ChunkSeq
    BY DEF Limits
  <2> QED
    <3>1. Bytes(backlog) \in Nat
      BY <2>1, BytesType
    <3>2. Len(backlog) \in Nat
      BY <2>1 DEF ChunkSeq
    <3> QED
      BY <3>1, <3>2
<1> QED
  BY <1>1, <1>2, CreditTypes DEF OutBytes, OutSlots

LEMMA Weighed ==
  Port => /\ DueBytes \in Nat /\ DueSlots \in Nat
          /\ GivenBytes \in Nat /\ GivenSlots \in Nat
BY CreditTypes

LEMMA WeighedNext ==
  Port' => (/\ DueBytes \in Nat /\ DueSlots \in Nat
            /\ GivenBytes \in Nat /\ GivenSlots \in Nat)'
BY Weighed, PTL

LEMMA OutAre ==
  /\ OutBytes' = DueBytes' + Bytes(backlog')
  /\ OutSlots' = DueSlots' + Len(backlog')
BY DEF OutBytes, OutSlots

LEMMA InitLedger == BindingInit => Ledger
<1> SUFFICES ASSUME BindingInit PROVE Ledger
  OBVIOUS
<1>1. /\ channel = <<>> /\ callbacks = <<>> /\ consumed = 0 /\ batch = <<>>
      /\ backlog = <<>> /\ readBytes = 0 /\ readSlots = 0 /\ isOpen = FALSE
      /\ opened = "pending" /\ window.bytes = 0 /\ window.slots = 0
  BY DEF BindingInit, Init, InitNative, InitReactor, InitBinding
<1>2. Port
  BY InitPort DEF BindingInit
<1>3. Limits
  BY <1>1, NativeAssumption DEF Limits, ChunkSeq
<1>4. Bytes(Waiting) = 0 /\ Len(Waiting) = 0
  <2>1. After(<<>>, 0) = <<>>
    BY DEF After
  <2>2. [i \in DOMAIN After(<<>>, 0) |-> DataOf(After(<<>>, 0)[i])] = <<>>
    BY <2>1
  <2>3. FlattenSeq(<<>>) = <<>>
    BY FlattenEmpty
  <2> QED
    BY <1>1, <2>2, <2>3, BytesEmpty DEF Waiting, Gathered
<1>5. CreditBytes(<<>>) = 0 /\ CreditSlots(<<>>) = 0
  BY NoCredit
<1>6. /\ GivenBytes = 0 /\ GivenSlots = 0 /\ DueBytes = 0 /\ DueSlots = 0
  <2>1. GrantedBytes = 0 /\ GrantedSlots = 0
    BY <1>1, <1>2, <1>5, CreditTypes
  <2>2. Bytes(batch) = 0 /\ Len(batch) = 0
    BY <1>1, BytesEmpty
  <2> QED
    BY <1>1, <1>4, <2>1, <2>2, WeightsAre
<1>7. OutBytes = 0 /\ OutSlots = 0
  BY <1>1, <1>6, BytesEmpty DEF OutBytes, OutSlots
<1>8. Covered /\ Exact /\ Opening
  BY <1>1, <1>6, <1>7 DEF Covered, Exact, Opening
<1> QED
  BY <1>3, <1>8 DEF Ledger

LEMMA TaskLedger ==
  ASSUME Port, Ledger, Task, consumed' = consumed, UNCHANGED bindingVars
  PROVE  Ledger'
<1>1. UNCHANGED <<readBytes, readSlots, backlog, isOpen, opened>>
  BY DEF bindingVars, creditVars, lifeVars
<1>2. Limits' /\ Opening'
  BY <1>1 DEF Ledger, Limits, Opening
<1>3. Balance /\ Port'
  <2>1. [AnyStep]_vars
    BY DEF AnyStep
  <2> QED
    BY <2>1, TaskBalance, NextPort
<1>4. /\ readBytes \in Nat /\ readSlots \in Nat
      /\ Bytes(backlog) \in Nat /\ Len(backlog) \in Nat
      /\ GivenBytes \in Nat /\ GivenSlots \in Nat
      /\ DueBytes \in Nat /\ DueSlots \in Nat
      /\ OutBytes = DueBytes + Bytes(backlog)
      /\ OutSlots = DueSlots + Len(backlog)
  BY LedgerTypes DEF Ledger
<1>5. /\ DueBytes' \in Nat /\ DueSlots' \in Nat
      /\ GivenBytes' \in Nat /\ GivenSlots' \in Nat
  BY <1>3, WeighedNext
<1>6. /\ OutBytes' = DueBytes' + Bytes(backlog)
      /\ OutSlots' = DueSlots' + Len(backlog)
  BY <1>1, OutAre
<1>7. \A g, d, b \in Nat : g + (d + b) = (g + d) + b
  OBVIOUS
<1>8. /\ GivenBytes + OutBytes = (GivenBytes + DueBytes) + Bytes(backlog)
      /\ GivenSlots + OutSlots = (GivenSlots + DueSlots) + Len(backlog)
      /\ GivenBytes' + OutBytes' = (GivenBytes' + DueBytes') + Bytes(backlog)
      /\ GivenSlots' + OutSlots' = (GivenSlots' + DueSlots') + Len(backlog)
  <2>1. GivenBytes + (DueBytes + Bytes(backlog))
          = (GivenBytes + DueBytes) + Bytes(backlog)
    BY <1>4, <1>7
  <2>2. GivenSlots + (DueSlots + Len(backlog))
          = (GivenSlots + DueSlots) + Len(backlog)
    BY <1>4, <1>7
  <2>3. GivenBytes' + (DueBytes' + Bytes(backlog))
          = (GivenBytes' + DueBytes') + Bytes(backlog)
    BY SMTT(20), <1>4, <1>5, <1>7
  <2>4. GivenSlots' + (DueSlots' + Len(backlog))
          = (GivenSlots' + DueSlots') + Len(backlog)
    BY <1>4, <1>5, <1>7
  <2> QED
    BY <1>4, <1>6, <2>1, <2>2, <2>3, <2>4
<1>9. \A s, t, b, r \in Nat : s <= t /\ t + b <= r => s + b <= r
  OBVIOUS
<1>10. Covered'
  <2>1. /\ GivenBytes + DueBytes \in Nat /\ GivenSlots + DueSlots \in Nat
        /\ GivenBytes' + DueBytes' \in Nat /\ GivenSlots' + DueSlots' \in Nat
    <3>1. \A m, n \in Nat : m + n \in Nat
      OBVIOUS
    <3> QED
      BY <1>4, <1>5, <3>1
  <2>2. /\ (GivenBytes + DueBytes) + Bytes(backlog) <= readBytes
        /\ (GivenSlots + DueSlots) + Len(backlog) <= readSlots
    BY <1>8 DEF Ledger, Covered
  <2>3. (GivenBytes' + DueBytes') + Bytes(backlog) <= readBytes
    BY <1>3, <1>4, <1>9, <2>1, <2>2 DEF Balance
  <2>4. (GivenSlots' + DueSlots') + Len(backlog) <= readSlots
    BY <1>3, <1>4, <1>9, <2>1, <2>2 DEF Balance
  <2> QED
    BY <1>1, <1>8, <2>3, <2>4 DEF Covered
<1>11. Exact'
  BY <1>1, <1>3, <1>8 DEF Ledger, Exact, Balance
<1> QED
  BY <1>2, <1>10, <1>11 DEF Ledger

(* What JavaScript and the environment do about credit.                    *)
NoLedger ==
  /\ UNCHANGED <<readBytes, readSlots, backlog, opened, consumed>>
  /\ isOpen' => isOpen
  /\ channel' = channel \/ \E c \in Command : ~IsCredit(c) /\ Joins(c)

LEMMA ClientFrame ==
  ASSUME Port, [Next]_allVars
  PROVE  \/ Task /\ UNCHANGED <<consumed, bindingVars>>
         \/ UNCHANGED <<window, batch, pc, receiving, callbacks, failure,
                        commands, obtained>>
<1>1. CASE AnyCall /\ UNCHANGED reactorVars
  BY <1>1, CallEffect DEF Port, reactorVars, taskVars, deviceVars
<1>2. CASE Task /\ UNCHANGED bindingVars
  BY <1>2, TaskKeeps DEF jsVars
<1>3. CASE OfDevice \/ UNCHANGED vars
  BY <1>3 DEF OfDevice, Arrive, Transmit, Shift, Lose, vars, nativeVars,
              reactorVars, taskVars, deviceVars, queueVars, inVars, jsVars
<1> QED
  BY <1>1, <1>2, <1>3, NextSplits

LEMMA JsLedger ==
  ASSUME Port, [Next]_allVars
  PROVE  \/ Task /\ UNCHANGED <<consumed, bindingVars>>
         \/ /\ UNCHANGED <<window, batch, pc, receiving, callbacks>>
            /\ \/ Callback \/ Deliver
               \/ \E length \in Windows : StartReading(length)
               \/ NoLedger
<1> DEFINE Kind == \/ Callback \/ Deliver
                   \/ \E length \in Windows : StartReading(length)
           Still == /\ UNCHANGED <<readBytes, readSlots, backlog, opened>>
                    /\ isOpen' => isOpen
<1>1. (Task /\ UNCHANGED <<consumed, bindingVars>>) \/ Kind \/ Still
  <2> USE DEF creditVars, lifeVars, bindingVars
  <2>1. CASE UNCHANGED allVars \/ Rest
    BY <2>1 DEF Rest, allVars
  <2>2. CASE \E sizes \in Writes : StartWrite(sizes)
    BY <2>2 DEF StartWrite
  <2>3. CASE \/ ContinueWrite \/ AttemptWrite \/ FinishWriteCall
             \/ DrainCall \/ DrainContinue
    BY <2>3 DEF ContinueWrite, AttemptWrite, FinishWriteCall, DrainCall,
                DrainContinue
  <2>4. CASE \/ \E op \in Methods \cap {"control", "flush"} : Operation(op)
             \/ \E size \in ReadLengths : ReadChunk(size)
    BY <2>4 DEF Operation, ReadChunk
  <2>5. CASE CloseCall \/ CancelOpen
    BY <2>5 DEF CloseCall, CancelOpen
  <2>6. CASE (Notify /\ UNCHANGED <<reactorVars, bindingVars>>) \/ Device
    BY <2>6 DEF Device
  <2>7. CASE Task /\ UNCHANGED bindingVars
    BY <2>7, TaskKeeps DEF jsVars
  <2> QED
    BY <2>1, <2>2, <2>3, <2>4, <2>5, <2>6, <2>7 DEF Next, Caller, Pump
<1>2. ASSUME JsRead \/ JsOther
      PROVE  /\ consumed' = consumed
             /\ channel' = channel \/ \E c \in Command : ~IsCredit(c) /\ Joins(c)
  <2>1. \A c : Ordered(c.op) \/ c.op = "read" => ~IsCredit(c)
    BY DEF Ordered, OrderedOps, IsCredit
  <2> QED
    BY <1>2, <2>1 DEF JsRead, JsOther
<1>3. \/ Task /\ UNCHANGED <<consumed, bindingVars>>
      \/ Kind \/ NoLedger
  BY <1>1, <1>2, JsReads DEF JsCredit, NoLedger
<1> QED
  BY <1>3, ClientFrame

(* The weights are the same when nothing of them changes.                  *)
LEMMA SameLedger ==
  ASSUME Port, Ledger, UNCHANGED <<window, batch, pc, receiving, callbacks>>,
         NoLedger
  PROVE  Ledger'
<1>1. /\ channel \in Seq(Command) /\ Len(callbacks) \in Nat
      /\ GrantedBytes = CreditBytes(channel)
      /\ GrantedSlots = CreditSlots(channel)
      /\ CreditBytes(channel) \in Nat /\ CreditSlots(channel) \in Nat
  BY CreditTypes DEF Port, NativeInv, Shape, TaskTypes
<1>2. /\ CreditBytes(channel') = CreditBytes(channel)
      /\ CreditSlots(channel') = CreditSlots(channel)
  <2>1. ASSUME NEW c \in Command, ~IsCredit(c), Joins(c)
        PROVE  /\ CreditBytes(channel') = CreditBytes(channel)
               /\ CreditSlots(channel') = CreditSlots(channel)
    <3>1. CreditIn(c).bytes = 0 /\ CreditIn(c).slots = 0
      BY <2>1 DEF CreditIn
    <3>2. /\ CreditBytes(channel') = CreditBytes(channel) + 0
          /\ CreditSlots(channel') = CreditSlots(channel) + 0
      BY <1>1, <2>1, <3>1, CreditAppend DEF Joins
    <3> QED
      BY <1>1, <3>2
  <2> QED
    BY <2>1 DEF NoLedger
<1>3. Waiting' = Waiting
  BY DEF Waiting, NoLedger
<1>4. /\ GivenBytes' = GivenBytes /\ GivenSlots' = GivenSlots
      /\ DueBytes' = DueBytes /\ DueSlots' = DueSlots
  BY <1>1, <1>2, <1>3, WeightsAre
<1>5. OutBytes' = OutBytes /\ OutSlots' = OutSlots
  BY <1>4 DEF OutBytes, OutSlots, NoLedger
<1>6. Active' = Active
  BY DEF Active
<1> QED
  BY <1>4, <1>5, <1>6
  DEF Ledger, Limits, Covered, Exact, Opening, NoLedger

(* Chunks move from the queue to the backlog, in order.                    *)
LEMMA Delivered ==
  ASSUME Port, Callback
  PROVE  /\ Waiting = DataOf(callbacks[consumed + 1]) \o Waiting'
         /\ Waiting' \in ChunkSeq
         /\ DataOf(callbacks[consumed + 1]) \in ChunkSeq
<1>1. /\ callbacks' = callbacks /\ consumed' = consumed + 1
      /\ consumed < Len(callbacks)
  BY DEF Callback, Consume
<1>2. callbacks \in Seq(Event) /\ consumed \in Nat
  BY CreditTypes
<1>3. Gathered(callbacks, consumed)
        = DataOf(callbacks[consumed + 1]) \o Gathered(callbacks, consumed + 1)
  BY <1>1, <1>2, GatheredNext
<1>4. Gathered(callbacks, consumed + 1) \in ChunkSeq
  BY <1>1, <1>2, GatheredType
<1>5. callbacks[consumed + 1] \in Event
  BY <1>1, <1>2
<1>6. Waiting' = Gathered(callbacks, consumed + 1)
  BY <1>1 DEF Waiting
<1> QED
  BY <1>3, <1>4, <1>5, <1>6, DataOfType DEF Waiting

LEMMA CallbackLedger ==
  ASSUME Port, Ledger, Callback,
         UNCHANGED <<window, batch, pc, receiving, callbacks>>
  PROVE  Ledger'
<1> DEFINE event == callbacks[consumed + 1]
<1>1. /\ consumed + 1 \in DOMAIN callbacks /\ consumed \in Nat
      /\ consumed' = consumed + 1 /\ channel' = channel
      /\ \/ event.kind = "open" /\ OnOpen
         \/ event.kind = "data" /\ OnData(event)
         \/ event.kind \in {"ok", "error", "busy", "read"} /\ OnReply(event)
         \/ event.kind = "close" /\ OnClose
  BY SMTT(20), CreditTypes DEF Callback, Consume
<1>2. backlog' = backlog \o DataOf(event)
  <2>1. backlog \in ChunkSeq
    BY DEF Ledger, Limits
  <2>2. backlog \o <<>> = backlog
    BY <2>1 DEF ChunkSeq
  <2>3. CASE event.kind = "data"
    BY <1>1, <2>3 DEF OnData, DataOf, IsData
  <2>4. CASE event.kind # "data"
    BY <1>1, <2>2, <2>4
    DEF OnOpen, OnReply, OnClose, creditVars, DataOf, IsData
  <2> QED
    BY <2>3, <2>4
<1>3. UNCHANGED <<readBytes, readSlots>>
  BY <1>1 DEF OnOpen, OnData, OnReply, OnClose, creditVars
<1>4. /\ Waiting = DataOf(event) \o Waiting' /\ Waiting' \in ChunkSeq
      /\ DataOf(event) \in ChunkSeq /\ backlog \in ChunkSeq
  BY Delivered DEF Ledger, Limits
<1>5. PICK w \in ChunkSeq : w = Waiting'
  BY <1>4
<1>6. PICK d \in ChunkSeq : d = DataOf(event)
  BY <1>4
<1> HIDE DEF event
<1>7. /\ Bytes(Waiting) = Bytes(d) + Bytes(w)
      /\ Bytes(backlog') = Bytes(backlog) + Bytes(d)
      /\ backlog' \in ChunkSeq
  BY <1>2, <1>4, <1>5, <1>6, BytesConcat
<1>8. Len(Waiting) = Len(d) + Len(w) /\ Len(backlog') = Len(backlog) + Len(d)
  BY <1>2, <1>4, <1>5, <1>6 DEF ChunkSeq
<1>9. /\ Bytes(d) \in Nat /\ Bytes(w) \in Nat /\ Bytes(backlog) \in Nat
      /\ Bytes(batch) \in Nat /\ Len(batch) \in Nat
  BY <1>4, BytesType, CreditTypes
<1>10. Len(d) \in Nat /\ Len(w) \in Nat /\ Len(backlog) \in Nat
  BY <1>4 DEF ChunkSeq
<1>11. /\ DueBytes' = Bytes(w) + Bytes(batch) /\ DueSlots' = Len(w) + Len(batch)
       /\ DueBytes = Bytes(Waiting) + Bytes(batch)
       /\ DueSlots = Len(Waiting) + Len(batch)
  BY <1>5, WeightsAre
<1>12. \A a, b, c, e \in Nat : (b + c) + (e + a) = ((a + b) + c) + e
  OBVIOUS
<1>13. OutBytes' = OutBytes
  <2>1. (Bytes(w) + Bytes(batch)) + (Bytes(backlog) + Bytes(d))
          = ((Bytes(d) + Bytes(w)) + Bytes(batch)) + Bytes(backlog)
    BY <1>9, <1>12
  <2> QED
    BY <1>7, <1>11, <2>1, OutAre DEF OutBytes
<1>14. OutSlots' = OutSlots
  <2>1. (Len(w) + Len(batch)) + (Len(backlog) + Len(d))
          = ((Len(d) + Len(w)) + Len(batch)) + Len(backlog)
    BY <1>9, <1>10, <1>12
  <2> QED
    BY <1>8, <1>11, <2>1, OutAre DEF OutSlots
<1>15. GivenBytes' = GivenBytes /\ GivenSlots' = GivenSlots /\ Active' = Active
  BY <1>1 DEF GivenBytes, GivenSlots, GrantedBytes, GrantedSlots, Active
<1>16. Covered' /\ Limits'
  BY <1>3, <1>7, <1>13, <1>14, <1>15 DEF Ledger, Covered, Limits
<1>17. CASE event.kind = "open" /\ OnOpen /\ ~closing
  <2>1. consumed = 0
    BY <1>1, <1>17 DEF event, Port, Events
  <2>2. opened = "pending" /\ readBytes = 0 /\ readSlots = 0
    BY <2>1 DEF Ledger, Opening
  <2>3. opened' = "resolved"
    BY <1>17 DEF OnOpen
  <2>4. Opening'
    BY <1>1, <2>3, <2>1 DEF Opening
  <2>5. Exact'
    <3>1. GivenBytes' + OutBytes' <= 0 /\ GivenSlots' + OutSlots' <= 0
      BY <1>3, <1>16, <2>2 DEF Covered
    <3>2. /\ GivenBytes \in Nat /\ GivenSlots \in Nat
          /\ OutBytes \in Nat /\ OutSlots \in Nat
      BY LedgerTypes DEF Ledger
    <3>3. GivenBytes' + OutBytes' = 0 /\ GivenSlots' + OutSlots' = 0
      BY <1>13, <1>14, <1>15, <3>1, <3>2
    <3> QED
      BY <1>3, <2>2, <3>3 DEF Exact
  <2> QED
    BY <1>16, <2>4, <2>5 DEF Ledger
<1>18. CASE ~(event.kind = "open" /\ OnOpen /\ ~closing)
  <2>1. isOpen' = isOpen
    BY <1>1, <1>18 DEF OnOpen, OnData, OnReply, OnClose, lifeVars
  <2>2. opened' = opened \/ opened' = "rejected"
    BY <1>1, <1>18 DEF OnOpen, OnData, OnReply, OnClose, lifeVars
  <2>3. Opening'
    BY <1>1, <1>3, <2>1, <2>2 DEF Ledger, Opening
  <2>4. Exact'
    BY <1>3, <1>13, <1>14, <1>15, <2>1 DEF Ledger, Exact
  <2> QED
    BY <1>16, <2>3, <2>4 DEF Ledger
<1> QED
  BY <1>17, <1>18

LEMMA Returned ==
  ASSUME NEW g \in Nat, NEW o \in Nat, NEW k \in Nat, NEW r \in Nat,
         g + (o + k) <= r
  PROVE  /\ r - k \in Nat /\ r - k <= r
         /\ g + o <= r - k /\ g + o <= r
         /\ r = g + (o + k) => r - k = g + o
OBVIOUS

LEMMA DeliverLedger ==
  ASSUME Port, Ledger, Deliver PROVE Ledger'
<1> DEFINE n == Head(backlog)[2]
<1>1. /\ backlog # <<>> /\ backlog \in ChunkSeq /\ backlog' = Tail(backlog)
      /\ UNCHANGED <<opened, isOpen, consumed, callbacks, channel, window,
                     batch, pc, receiving>>
      /\ IF isOpen THEN /\ readBytes' = readBytes - n
                        /\ readSlots' = readSlots - 1
         ELSE UNCHANGED <<readBytes, readSlots>>
  BY DEF Deliver, ReturnCredit, Ledger, Limits, vars, nativeVars, reactorVars,
         taskVars, lifeVars
<1>2. /\ Bytes(backlog) = n + Bytes(backlog') /\ n \in Nat
      /\ backlog' \in ChunkSeq /\ Bytes(backlog') \in Nat
  BY <1>1, BytesTail, BytesType
<1>3. Len(backlog) = Len(backlog') + 1 /\ Len(backlog') \in Nat
  BY <1>1 DEF ChunkSeq
<1>4. /\ DueBytes' = DueBytes /\ DueSlots' = DueSlots /\ Active' = Active
      /\ GivenBytes' = GivenBytes /\ GivenSlots' = GivenSlots
  BY <1>1 DEF DueBytes, DueSlots, GivenBytes, GivenSlots, GrantedBytes,
              GrantedSlots, Waiting, Active
<1> HIDE DEF n
<1>5. /\ readBytes \in Nat /\ readSlots \in Nat
      /\ GivenBytes \in Nat /\ GivenSlots \in Nat
      /\ DueBytes \in Nat /\ DueSlots \in Nat
      /\ readBytes <= ChunkSize /\ readSlots <= ReadSlots
  BY LedgerTypes, NativeAssumption DEF Ledger, Limits
<1>6. /\ OutBytes = DueBytes + (n + Bytes(backlog'))
      /\ OutSlots = DueSlots + (Len(backlog') + 1)
      /\ OutBytes' = DueBytes + Bytes(backlog')
      /\ OutSlots' = DueSlots + Len(backlog')
  BY <1>2, <1>3, <1>4, OutAre DEF OutBytes, OutSlots
<1>7. OutBytes = OutBytes' + n /\ OutBytes' \in Nat
  BY <1>2, <1>5, <1>6
<1>8. OutSlots = OutSlots' + 1 /\ OutSlots' \in Nat
  BY <1>3, <1>5, <1>6
<1>9. /\ GivenBytes + (OutBytes' + n) <= readBytes
      /\ GivenSlots + (OutSlots' + 1) <= readSlots
      /\ Active /\ isOpen => /\ readBytes = GivenBytes + (OutBytes' + n)
                             /\ readSlots = GivenSlots + (OutSlots' + 1)
  BY <1>7, <1>8 DEF Ledger, Covered, Exact
<1>10. 1 \in Nat
  OBVIOUS
<1>11. /\ GivenBytes + OutBytes' <= readBytes - n
       /\ GivenBytes + OutBytes' <= readBytes
       /\ Active /\ isOpen => readBytes - n = GivenBytes + OutBytes'
       /\ readBytes - n \in Nat /\ readBytes - n <= readBytes
  <2>1. PICK g \in Nat : g = GivenBytes
    BY <1>5
  <2>2. PICK o \in Nat : o = OutBytes'
    BY <1>2, <1>5, <1>7
  <2>3. PICK r \in Nat : r = readBytes
    BY <1>5
  <2>4. PICK k \in Nat : k = n
    BY <1>2, <1>5, <1>7
  <2>5. /\ g + (o + k) <= r
        /\ Active /\ isOpen => r = g + (o + k)
    BY <1>9, <2>1, <2>2, <2>3, <2>4
  <2>6. /\ r - k \in Nat /\ r - k <= r
        /\ g + o <= r - k /\ g + o <= r
        /\ r = g + (o + k) => r - k = g + o
    BY <2>5, Returned
  <2> QED
    BY <2>1, <2>2, <2>3, <2>4, <2>5, <2>6
<1>12. /\ GivenSlots + OutSlots' <= readSlots - 1
       /\ GivenSlots + OutSlots' <= readSlots
       /\ Active /\ isOpen => readSlots - 1 = GivenSlots + OutSlots'
       /\ readSlots - 1 \in Nat /\ readSlots - 1 <= readSlots
  <2>1. PICK g \in Nat : g = GivenSlots
    BY <1>5
  <2>2. PICK o \in Nat : o = OutSlots'
    BY <1>5, <1>8, <1>10
  <2>3. PICK r \in Nat : r = readSlots
    BY <1>5
  <2>4. PICK k \in Nat : k = 1
    BY <1>5, <1>8, <1>10
  <2>5. /\ g + (o + k) <= r
        /\ Active /\ isOpen => r = g + (o + k)
    BY <1>9, <2>1, <2>2, <2>3, <2>4
  <2>6. /\ r - k \in Nat /\ r - k <= r
        /\ g + o <= r - k /\ g + o <= r
        /\ r = g + (o + k) => r - k = g + o
    BY <2>5, Returned
  <2> QED
    BY <2>1, <2>2, <2>3, <2>4, <2>5, <2>6
<1>13. Covered' /\ Exact'
  BY <1>1, <1>4, <1>11, <1>12 DEF Covered, Exact
<1>14. Limits'
  <2>1. readBytes' \in 0 .. ChunkSize
    BY <1>1, <1>5, <1>11, NativeAssumption
  <2>2. readSlots' \in 0 .. ReadSlots
    BY <1>1, <1>5, <1>12, NativeAssumption
  <2> QED
    BY <1>2, <2>1, <2>2 DEF Limits
<1>15. Opening'
  BY <1>1 DEF Ledger, Opening
<1> QED
  BY <1>13, <1>14, <1>15 DEF Ledger

LEMMA ReadingLedger ==
  ASSUME Port, Ledger, NEW length \in Windows, StartReading(length),
         UNCHANGED <<window, batch, pc, receiving, callbacks>>
  PROVE  Ledger'
<1> DEFINE size == Least(length, ChunkSize)
           bytes == FreeBytes(size)
           slots == FreeSlots
           c == [id |-> 0, op |-> "credit", from |-> 0, size |-> bytes,
                 slots |-> slots]
<1>1. /\ UNCHANGED <<backlog, opened, isOpen>> /\ isOpen
      /\ \/ ReadCredit(bytes, slots) /\ Admits("credit")
            /\ readBytes' = readBytes + bytes /\ readSlots' = readSlots + slots
         \/ /\ ReadCredit(bytes, slots) /\ ~Admits("credit")
            /\ UNCHANGED <<readBytes, readSlots>>
         \/ UNCHANGED <<nativeVars, readBytes, readSlots>>
  BY DEF StartReading, Usable, lifeVars
<1>2. ASSUME ReadCredit(bytes, slots), Admits("credit"),
             readBytes' = readBytes + bytes, readSlots' = readSlots + slots
      PROVE  Ledger'
  <2>1. /\ bytes \in Nat /\ slots \in Nat /\ size \in Nat /\ size <= ChunkSize
        /\ bytes = size - readBytes /\ slots = ReadSlots - readSlots
    <3>1. length \in Nat /\ ChunkSize \in Nat
      BY CallerAssumption, NativeAssumption
    <3> QED
      BY <1>2, <3>1, NativeAssumption
      DEF ReadCredit, FreeBytes, FreeSlots, Least
  <2>2. /\ c \in Command /\ CreditIn(c) = [bytes |-> bytes, slots |-> slots]
    BY <2>1 DEF Command, CreditIn, IsCredit
  <2>3. channel' = Append(channel, c) /\ consumed' = consumed
    <3>1. Enqueue(c) /\ consumed' = consumed /\ c.op = "credit"
      BY <1>2 DEF ReadCredit
    <3> QED
      BY <1>2, <2>2, <3>1, EnqueueEffect
  <2> HIDE DEF c, bytes, slots, size
  <2>4. /\ channel \in Seq(Command)
        /\ GrantedBytes = CreditBytes(channel)
        /\ GrantedSlots = CreditSlots(channel)
        /\ CreditBytes(channel) \in Nat /\ CreditSlots(channel) \in Nat
        /\ window.bytes \in Nat /\ window.slots \in Nat
    BY CreditTypes
  <2>5. /\ CreditBytes(channel') = CreditBytes(channel) + bytes
        /\ CreditSlots(channel') = CreditSlots(channel) + slots
    BY <2>2, <2>3, <2>4, CreditAppend
  <2>6. /\ GivenBytes' = window.bytes + (CreditBytes(channel) + bytes)
        /\ GivenSlots' = window.slots + (CreditSlots(channel) + slots)
        /\ GivenBytes = window.bytes + CreditBytes(channel)
        /\ GivenSlots = window.slots + CreditSlots(channel)
    BY <2>4, <2>5, WeightsAre
  <2>7. GivenBytes' = GivenBytes + bytes /\ GivenSlots' = GivenSlots + slots
    <3>1. /\ window.bytes + (CreditBytes(channel) + bytes)
               = (window.bytes + CreditBytes(channel)) + bytes
          /\ window.slots + (CreditSlots(channel) + slots)
               = (window.slots + CreditSlots(channel)) + slots
      BY <2>1, <2>4
    <3> QED
      BY <2>6, <3>1
  <2>8. /\ DueBytes' = DueBytes /\ DueSlots' = DueSlots
        /\ OutBytes' = OutBytes /\ OutSlots' = OutSlots /\ Active' = Active
    BY <1>1, <2>3 DEF DueBytes, DueSlots, Waiting, Active, OutBytes, OutSlots
  <2>9. /\ readBytes \in Nat /\ readSlots \in Nat
        /\ GivenBytes \in Nat /\ GivenSlots \in Nat
        /\ OutBytes \in Nat /\ OutSlots \in Nat
    <3>1. /\ DueBytes \in Nat /\ DueSlots \in Nat
          /\ Bytes(backlog) \in Nat /\ Len(backlog) \in Nat
          /\ OutBytes = DueBytes + Bytes(backlog)
          /\ OutSlots = DueSlots + Len(backlog)
      BY LedgerTypes DEF Ledger
    <3>2. OutBytes \in Nat /\ OutSlots \in Nat
      BY <3>1
    <3> QED
      BY <3>2, LedgerTypes DEF Ledger
  <2>10. \A g, o, r, k \in Nat :
           /\ g + o <= r => (g + k) + o <= r + k
           /\ r = g + o => r + k = (g + k) + o
    OBVIOUS
  <2>11. /\ (GivenBytes + bytes) + OutBytes <= readBytes + bytes
         /\ (GivenSlots + slots) + OutSlots <= readSlots + slots
         /\ Active /\ isOpen =>
              /\ readBytes + bytes = (GivenBytes + bytes) + OutBytes
              /\ readSlots + slots = (GivenSlots + slots) + OutSlots
    BY <2>1, <2>9, <2>10 DEF Ledger, Covered, Exact
  <2>12. Covered' /\ Exact'
    BY <1>1, <1>2, <2>7, <2>8, <2>11 DEF Covered, Exact
  <2>13. Limits'
    <3>1. readBytes' = size /\ readSlots' = ReadSlots
      BY <1>2, <2>1, <2>9, NativeAssumption
    <3> QED
      BY <1>1, <2>1, <3>1, NativeAssumption DEF Ledger, Limits
  <2>14. Opening'
    BY <1>1, <1>2, <2>3 DEF Ledger, Opening
  <2> QED
    BY <2>12, <2>13, <2>14 DEF Ledger
<1>3. ASSUME UNCHANGED <<readBytes, readSlots>>,
             \/ ReadCredit(bytes, slots) /\ ~Admits("credit")
             \/ UNCHANGED nativeVars
      PROVE  Ledger'
  <2>1. channel' = channel /\ consumed' = consumed
    BY <1>3 DEF ReadCredit, Enqueue, nativeVars
  <2> QED
    BY <1>1, <1>3, <2>1, SameLedger DEF NoLedger
<1> QED
  BY <1>1, <1>2, <1>3

LEMMA NextLedger == ASSUME Port, Ledger, [Next]_allVars PROVE Ledger'
  BY JsLedger, TaskLedger, CallbackLedger, DeliverLedger, ReadingLedger,
     SameLedger

LEMMA LedgerAgrees == ASSUME Port, Ledger PROVE CreditAgreed
<1> SUFFICES ASSUME isOpen, receiving, pc # "ended"
             PROVE  /\ readBytes = window.bytes + GrantedBytes + Bytes(Chunks)
                    /\ readSlots = window.slots + GrantedSlots + Len(Chunks)
  BY DEF CreditAgreed
<1>1. /\ readBytes = GivenBytes + OutBytes /\ readSlots = GivenSlots + OutSlots
  BY DEF Ledger, Exact, Active
<1>2. /\ Bytes(Chunks) = Bytes(Waiting) + Bytes(backlog) + Bytes(batch)
      /\ Len(Chunks) = Len(Waiting) + Len(backlog) + Len(batch)
  BY ChunksAre, CreditTypes DEF Ledger, Limits
<1>3. /\ OutBytes = (Bytes(Waiting) + Bytes(batch)) + Bytes(backlog)
      /\ OutSlots = (Len(Waiting) + Len(batch)) + Len(backlog)
      /\ GivenBytes = window.bytes + GrantedBytes
      /\ GivenSlots = window.slots + GrantedSlots
  BY WeightsAre DEF OutBytes, OutSlots
<1>4. /\ Bytes(Waiting) \in Nat /\ Len(Waiting) \in Nat
      /\ Bytes(batch) \in Nat /\ Len(batch) \in Nat
      /\ GrantedBytes \in Nat /\ GrantedSlots \in Nat
      /\ window.bytes \in Nat /\ window.slots \in Nat
  BY CreditTypes
<1>5. Bytes(backlog) \in Nat /\ Len(backlog) \in Nat
  BY LedgerTypes DEF Ledger
<1>6. \A a, b, c \in Nat : (a + b) + c = a + c + b
  OBVIOUS
<1>7. OutBytes = Bytes(Chunks) /\ OutSlots = Len(Chunks)
  BY <1>2, <1>3, <1>4, <1>5, <1>6
<1> QED
  BY <1>1, <1>3, <1>7

(* The credit that JavaScript counts as outstanding is exactly what the    *)
(* native side may still use plus what is on its way to onData: neither    *)
(* the refill rule nor the returns of startReading lose or invent any.     *)
THEOREM CreditIsExact == Spec => []CreditAgreed
<1>1. BindingInit => Port /\ Ledger
  BY InitPort, InitLedger DEF BindingInit
<1>2. Port /\ Ledger /\ [Next]_allVars => Port' /\ Ledger'
  BY NextPort, NextLedger, NextConforms
<1>3. Port /\ Ledger => CreditAgreed
  BY LedgerAgrees
<1> QED
  BY <1>1, <1>2, <1>3, PTL DEF Spec
-----------------------------------------------------------------------------
(* The limits fit together: what JavaScript submits finds room in the      *)
(* native queues, since the requests there are among the unsettled ones,   *)
(* fewer than JsPending, and every credit there holds a slot of the        *)
(* window.                                                                 *)
CreditAt == {i \in DOMAIN channel : IsCredit(channel[i])}
OthersAt == DOMAIN channel \ CreditAt

LEMMA CreditsFit ==
  ASSUME Port, Reads, Ledger
  PROVE  IsFiniteSet(CreditAt) /\ Cardinality(CreditAt) <= ReadSlots
<1> DEFINE F == [i \in DOMAIN channel |->
                   IF IsCredit(channel[i]) THEN channel[i].slots ELSE 0]
<1>1. channel \in Seq(Command)
  BY CreditTypes
<1>2. F \in Seq(Nat) /\ Total(F) = CreditSlots(channel)
  BY <1>1, CreditType DEF CreditSlots
<1>3. CreditAt = {i \in DOMAIN F : F[i] > 0}
  BY DEF CreditAt, Reads, Exclusive
<1> HIDE DEF F
<1>4. IsFiniteSet(CreditAt) /\ Cardinality(CreditAt) <= CreditSlots(channel)
  BY <1>2, <1>3, TotalCovers
<1>5. CreditSlots(channel) <= ReadSlots
  <2>1. /\ GivenSlots = window.slots + GrantedSlots
        /\ GrantedSlots = CreditSlots(channel)
        /\ window.slots \in Nat /\ GrantedSlots \in Nat
    BY CreditTypes, WeightsAre
  <2>2. OutSlots \in Nat
    <3>1. /\ DueSlots \in Nat /\ Len(backlog) \in Nat
          /\ OutSlots = DueSlots + Len(backlog)
      BY LedgerTypes DEF Ledger
    <3> QED
      BY <3>1
  <2>3. (window.slots + GrantedSlots) + OutSlots <= readSlots
    BY <2>1 DEF Ledger, Covered
  <2>4. readSlots \in Nat /\ readSlots <= ReadSlots /\ ReadSlots \in Nat
    BY NativeAssumption DEF Ledger, Limits
  <2>5. \A w, g, o, r, l \in Nat : (w + g) + o <= r /\ r <= l => g <= l
    OBVIOUS
  <2> QED
    BY <2>1, <2>2, <2>3, <2>4, <2>5
<1>6. CreditSlots(channel) \in Nat /\ Cardinality(CreditAt) \in Nat
  BY <1>1, <1>4, CreditType, FS_CardinalityType
<1> QED
  BY <1>4, <1>5, <1>6, NativeAssumption

LEMMA OthersFit ==
  ASSUME Port, Reads, Promises, Kept
  PROVE  /\ IsFiniteSet(OthersAt)
         /\ Cardinality(OthersAt) <= Cardinality(pending)
<1> DEFINE g == [i \in OthersAt |-> channel[i].id]
<1>1. channel \in Seq(Command) /\ DOMAIN channel = 1 .. Len(channel)
  BY CreditTypes
<1>2. \A i \in OthersAt :
        /\ i \in DOMAIN channel /\ i \in Nat
        /\ Ordered(channel[i].op) \/ channel[i].op = "read"
  <2>1. \A c \in Command : Ordered(c.op) \/ c.op = "read" \/ IsCredit(c)
    BY DEF Command, Ordered, OrderedOps, IsCredit
  <2> QED
    BY <1>1, <2>1 DEF OthersAt, CreditAt
<1>3. \A i \in OthersAt : Ordered(channel[i].op) => channel[i] \in Held
  BY <1>2 DEF Held, OrderedOf
<1>4. \A i \in OthersAt : channel[i].id \in pending
  BY <1>2, <1>3 DEF Kept, HeldIds, InChannel
<1>5. \A i \in OthersAt : requests[channel[i].id].op = channel[i].op
  <2>1. ASSUME NEW i \in OthersAt, channel[i].op = "read"
        PROVE  requests[channel[i].id].op = "read"
    BY <1>2, <2>1 DEF Port, ReadIds, IsRead
  <2> QED
    BY <1>2, <1>3, <2>1 DEF Port, NativeInv, Wire, Matching
<1>6. ASSUME NEW i \in OthersAt, NEW j \in OthersAt,
             channel[i].id = channel[j].id
      PROVE  i = j
  <2>1. channel[i].op = channel[j].op
    BY <1>5, <1>6
  <2>2. CASE channel[i].op = "read"
    BY <1>2, <2>1, <2>2 DEF Reads, OneRead, InChannel
  <2>3. CASE Ordered(channel[i].op)
    <3>1. Increasing(channel) /\ channel[i].id \in Nat
      <4>1. \A c \in Command : c.id \in Nat
        BY DEF Command
      <4> QED
        BY <1>1, <1>2, <4>1 DEF Port, NativeInv, Inv, Submission
    <3> QED
      BY <1>1, <1>2, <1>6, <2>1, <2>3, <3>1 DEF Increasing
  <2> QED
    BY <1>2, <2>2, <2>3
<1>7. g \in Injection(OthersAt, pending)
  BY <1>4, <1>6 DEF Injection, IsInjective
<1>8. IsFiniteSet(pending)
  BY PendingFacts DEF Port, Promises
<1> QED
  BY <1>7, <1>8, FS_Injection DEF ExistsInjection

LEMMA FindsRoom ==
  ASSUME Port, Reads, Promises, Kept, Ledger, HasRoom, receiving, ~stop,
         NEW op
  PROVE  Admits(op)
<1>1. /\ IsFiniteSet(pending) /\ Cardinality(pending) \in Nat
      /\ Cardinality(pending) < MaxPending
      /\ MaxPending \in Nat /\ ReadSlots \in Nat
  BY PendingFacts, FS_CardinalityType, BindingAssumption, NativeAssumption
  DEF Port, Promises, HasRoom
<1>2. pendingOps < MaxPending
  <2>1. pendingOps = Cardinality(InFlight) /\ IsFiniteSet(InFlight)
    BY DEF Port, NativeInv, Inv, Counting
  <2>2. InFlight \subseteq pending
    BY HeldFacts DEF Port, NativeInv, Kept, HeldIds
  <2>3. Cardinality(InFlight) <= Cardinality(pending)
        /\ Cardinality(InFlight) \in Nat
    BY <1>1, <2>1, <2>2, FS_Subset, FS_CardinalityType
  <2> QED
    BY <1>1, <2>1, <2>3
<1>3. Len(channel) < ChannelCap
  <2>1. /\ IsFiniteSet(CreditAt) /\ Cardinality(CreditAt) <= ReadSlots
        /\ IsFiniteSet(OthersAt) /\ Cardinality(OthersAt) <= Cardinality(pending)
    BY CreditsFit, OthersFit
  <2>2. Cardinality(CreditAt) \in Nat /\ Cardinality(OthersAt) \in Nat
    BY <2>1, FS_CardinalityType
  <2>3. channel \in Seq(Command) /\ Len(channel) \in Nat
        /\ DOMAIN channel = 1 .. Len(channel)
    BY CreditTypes
  <2>4. CreditAt \cup OthersAt = 1 .. Len(channel) /\ CreditAt \cap OthersAt = {}
    BY <2>3 DEF CreditAt, OthersAt
  <2>5. Cardinality(CreditAt \cup OthersAt)
          = Cardinality(CreditAt) + Cardinality(OthersAt) - 0
    BY <2>1, <2>4, FS_Union, FS_EmptySet
  <2>6. Cardinality(1 .. Len(channel)) = Len(channel)
    BY SMTT(20), <2>3, FS_Interval
  <2>7. Len(channel) = Cardinality(CreditAt) + Cardinality(OthersAt)
    <3>1. Cardinality(CreditAt) + Cardinality(OthersAt) - 0
            = Cardinality(CreditAt) + Cardinality(OthersAt)
      BY <2>2
    <3> QED
      BY <2>4, <2>5, <2>6, <3>1
  <2> QED
    BY <1>1, <2>1, <2>2, <2>7 DEF ChannelCap
<1> QED
  BY <1>1, <1>2, <1>3 DEF Admits, Backlogged, Sendable, Port, NativeInv, Inv,
                          QueueTypes

(* A stop and the end of a session are final.                              *)
LEMMA EndIsFinal == ASSUME Port, [AnyStep]_vars, ~receiving PROVE ~receiving'
<1>1. CASE AnyCall /\ UNCHANGED reactorVars
  BY <1>1, CallEffect DEF Port
<1>2. CASE Task
  <2>1. \/ receiving' = receiving
        \/ DropReceiver \/ SendClose
    BY <1>2, TaskEffect
    DEF Port, Quiet, Retires, PublishOpen, SendAnswer, ReceiveOrdered,
        ReceiveRead, ReceiveCredit, TransferRead, TransferStream, BurstRead,
        BurstEnd, queueVars
  <2> QED
    BY <2>1 DEF DropReceiver, SendClose
<1>3. CASE OfDevice \/ UNCHANGED vars
  BY <1>3 DEF OfDevice, Arrive, Transmit, Shift, Lose, vars, nativeVars,
              queueVars
<1> QED
  BY <1>1, <1>2, <1>3 DEF AnyStep

Refusals ==
  \A id \in DOMAIN requests :
    requests[id].state = "refused" => stop \/ ~receiving

LEMMA NextRefusals ==
  ASSUME Port, Reads, Promises, Kept, Ledger, Refusals, [Next]_allVars
  PROVE  Refusals'
<1>1. PromiseStep /\ [AnyStep]_vars
  BY StepPromises, NextConforms DEF Port, Promises
<1>2. stop \/ ~receiving => stop' \/ ~receiving'
  BY <1>1, StopStays, EndIsFinal
<1>3. CASE requests' = requests
  BY <1>2, <1>3 DEF Refusals
<1>4. ASSUME NEW r \in Requests, requests' = Append(requests, r),
             r.state = "refused" => stop \/ ~receiving
      PROVE  Refusals'
  <2>1. requests \in Seq(Requests)
    BY DEF Port, NativeInv, Inv, QueueTypes
  <2>2. /\ DOMAIN requests' = DOMAIN requests \cup {Len(requests) + 1}
        /\ \A id \in DOMAIN requests : requests'[id] = requests[id]
        /\ requests'[Len(requests) + 1] = r
    BY <1>4, <2>1
  <2>3. ASSUME NEW id \in DOMAIN requests', requests'[id].state = "refused"
        PROVE  stop \/ ~receiving
    BY <1>4, <2>2, <2>3 DEF Refusals
  <2> QED
    BY <1>2, <2>3 DEF Refusals
<1>5. CASE NoneAdmitted
  <2>1. ASSUME NEW r \in Requests, requests' = Append(requests, r),
               r.state = "refused" => ~Admits(r.op) /\ HasRoom
        PROVE  Refusals'
    <3>1. r.state = "refused" => stop \/ ~receiving
      BY <2>1, FindsRoom
    <3> QED
      BY <1>4, <2>1, <3>1
  <2> QED
    BY <1>3, <1>5, <2>1 DEF NoneAdmitted
<1>6. CASE OneAdmitted
  BY <1>4, <1>6 DEF OneAdmitted
<1>7. CASE OneSettled \/ AllSettled
  BY <1>3, <1>7 DEF OneSettled, AllSettled
<1> QED
  BY <1>1, <1>5, <1>6, <1>7 DEF PromiseStep

(* The two layers agree on admission: BindingPort submits nothing that the *)
(* native port refuses, but for a stop or the end of the session; and      *)
(* _ordered counts the ordered promises that are not settled.              *)
THEOREM LayersInStep == Spec => []LayersAgree
<1> DEFINE I == Port /\ Reads /\ Promises /\ Kept /\ Ledger /\ Refusals
<1>1. BindingInit => I
  <2>1. BindingInit => Refusals
    BY DEF BindingInit, Init, InitNative, Refusals
  <2> QED
    BY <2>1, InitPort, InitReads, InitPromises, InitKept, InitLedger
    DEF BindingInit
<1>2. I /\ [Next]_allVars => I'
  BY NextPort, NextReads, NextPromises, NextKept, NextLedger, NextRefusals,
     NextConforms DEF Port
<1>3. I => LayersAgree
  <2>1. Promises => ordered = Cardinality({id \in pending :
                                  Ordered(requests[id].op)}) + Submitting
    <3> SUFFICES ASSUME Promises
                 PROVE  ordered = Cardinality(Unsettled) + Submitting
      BY DEF Unsettled
    <3>1. ordered \in Int /\ Submitting \in Int
          /\ ordered - Submitting = Cardinality(Unsettled)
      BY DEF Promises, Offset, Submitting
    <3> QED
      BY <3>1
  <2> QED
    BY <2>1 DEF LayersAgree, Refusals, Submitting
<1> HIDE DEF I
<1> QED
  BY <1>1, <1>2, <1>3, PTL DEF Spec
-----------------------------------------------------------------------------
(* A session fails when the device cannot be opened or is lost, and not    *)
(* otherwise: neither error of ReceiveCredit happens.                      *)
LEMMA CreditFits ==
  ASSUME Port, Reads, Ledger, ReceiveCredit PROVE failure' = failure
<1> DEFINE c == Head(channel)
<1>1. /\ channel # <<>> /\ IsCredit(c) /\ pc = "select"
      /\ channel' = Tail(channel) /\ channel \in Seq(Command)
      /\ window' = [window EXCEPT !.bytes = @ + c.size, !.slots = @ + c.slots]
  BY CreditTypes DEF ReceiveCredit, Receivable, IsCredit
<1>2. read = <<>>
  <2>1. 1 \in DOMAIN channel /\ c = channel[1]
    BY <1>1
  <2>2. ~jsReading
    BY <1>1, <2>1 DEF Reads, Exclusive
  <2> QED
    BY <1>1, <2>2 DEF Reads, OneRead, WithTask, Over, Ended
<1>3. /\ window.bytes \in Nat /\ window.slots \in Nat
      /\ window'.bytes = window.bytes + c.size
      /\ window'.slots = window.slots + c.slots
  <2>1. window \in [bytes : Nat, slots : Nat, size : Sizes]
    BY DEF Port, NativeInv, Shape, TaskTypes
  <2> QED
    BY <1>1, <2>1
<1>4. /\ c.size \in Nat /\ c.slots \in Nat
      /\ CreditIn(c) = [bytes |-> c.size, slots |-> c.slots]
      /\ Tail(channel) \in Seq(Command)
  BY <1>1, HeadType DEF CreditIn
<1>5. /\ GrantedBytes = c.size + CreditBytes(Tail(channel))
      /\ GrantedSlots = c.slots + CreditSlots(Tail(channel))
      /\ CreditBytes(Tail(channel)) \in Nat /\ CreditSlots(Tail(channel)) \in Nat
  <2>1. /\ CreditBytes(channel) = c.size + CreditBytes(Tail(channel))
        /\ CreditSlots(channel) = c.slots + CreditSlots(Tail(channel))
    BY <1>1, <1>4, CreditTail
  <2>2. /\ GrantedBytes = CreditBytes(channel)
        /\ GrantedSlots = CreditSlots(channel)
    BY CreditTypes
  <2> QED
    BY <1>4, <2>1, <2>2, CreditType
<1>6. OutBytes \in Nat /\ OutSlots \in Nat
  <2>1. /\ DueBytes \in Nat /\ DueSlots \in Nat
        /\ Bytes(backlog) \in Nat /\ Len(backlog) \in Nat
        /\ OutBytes = DueBytes + Bytes(backlog)
        /\ OutSlots = DueSlots + Len(backlog)
    BY LedgerTypes DEF Ledger
  <2> QED
    BY <2>1
<1>7. /\ (window.bytes + (c.size + CreditBytes(Tail(channel)))) + OutBytes
           <= readBytes
      /\ (window.slots + (c.slots + CreditSlots(Tail(channel)))) + OutSlots
           <= readSlots
      /\ readBytes \in Nat /\ readSlots \in Nat
      /\ readBytes <= ChunkSize /\ readSlots <= ReadSlots
  BY <1>5, WeightsAre, LedgerTypes, NativeAssumption
  DEF Ledger, Covered, Limits
<1>8. \A w, n, t, o, r, l \in Nat :
        (w + (n + t)) + o <= r /\ r <= l => ~(w + n > l)
  OBVIOUS
<1>9. ~(window.bytes + c.size > ChunkSize)
  BY <1>3, <1>4, <1>5, <1>6, <1>7, <1>8, NativeAssumption
<1>10. ~(window.slots + c.slots > ReadSlots)
  BY <1>3, <1>4, <1>5, <1>6, <1>7, <1>8, NativeAssumption
<1> QED
  BY <1>2, <1>3, <1>9, <1>10 DEF ReceiveCredit, Exceeds

LEMMA TaskFails ==
  ASSUME Port, Reads, Ledger, Task
  PROVE  /\ failure' => failure \/ gone \/ OpenFailed
         /\ gone' = gone
<1> USE DEF outVars
<1>1. CASE \/ Opened \/ OpenFailed \/ PublishOpen \/ CheckStop \/ LeaveFront
           \/ FinishWrite \/ Control \/ Flush \/ StartDrain \/ FinishDrain
           \/ SendAnswer \/ Notified \/ ReceiveOrdered \/ ReceiveRead
  BY <1>1
  DEF Opened, OpenFailed, PublishOpen, CheckStop, LeaveFront, FinishWrite,
      Control, Flush, StartDrain, FinishDrain, SendAnswer, Notified,
      ReceiveOrdered, ReceiveRead
<1>2. CASE \/ PollTransfers \/ NothingReady
           \/ TransferFailed \/ TransferWrite \/ TransferRead
           \/ TransferStream \/ BurstRead \/ BurstEnd \/ DropReceiver
           \/ MarkStopped \/ Release \/ SendClose
  BY <1>2
  DEF PollTransfers, NothingReady, TransferFailed,
      TransferWrite, TransferRead, TransferStream, BurstRead, BurstEnd,
      DropReceiver, MarkStopped, Release, SendClose
<1>3. CASE ReceiveCredit
  <2>1. failure' = failure
    BY <1>3, CreditFits
  <2>2. gone' = gone
    BY <1>3 DEF ReceiveCredit
  <2> QED
    BY <2>1, <2>2
<1> QED
  BY <1>1, <1>2, <1>3 DEF Task

LEMMA OpensOnce ==
  ASSUME Task, pc' \in {"opening", "opened"} PROVE Opened
<1>1. CASE \/ OpenFailed \/ PublishOpen \/ CheckStop \/ LeaveFront
           \/ FinishWrite \/ Control \/ Flush \/ StartDrain \/ FinishDrain
           \/ SendAnswer \/ Notified \/ ReceiveOrdered \/ ReceiveRead
  BY <1>1
  DEF OpenFailed, PublishOpen, CheckStop, LeaveFront, FinishWrite, Control,
      Flush, StartDrain, FinishDrain, SendAnswer, Notified, ReceiveOrdered,
      ReceiveRead, Retire, Send
<1>2. CASE \/ ReceiveCredit \/ PollTransfers \/ NothingReady
           \/ TransferFailed \/ TransferWrite \/ TransferRead
           \/ TransferStream \/ DropReceiver \/ MarkStopped \/ Release
           \/ SendClose
  BY <1>2
  DEF ReceiveCredit, PollTransfers, NothingReady, AfterIdlePoll,
      TransferFailed, TransferWrite, TransferRead, TransferStream,
      DropReceiver, MarkStopped, Release, SendClose, Send
<1>3. CASE BurstRead \/ BurstEnd
  BY <1>3 DEF BurstRead, BurstEnd, Send
<1> QED
  BY <1>1, <1>2, <1>3 DEF Task

HasOpen == \E i \in DOMAIN callbacks : callbacks[i].kind = "open"

Failing ==
  /\ pc \in {"opening", "opened"} => ~failure
  /\ failure => gone \/ ~HasOpen
  /\ opened = "resolved" => HasOpen

LEMMA HasOpenAfter ==
  ASSUME Port, [AnyStep]_vars
  PROVE  /\ HasOpen => HasOpen'
         /\ HasOpen' => HasOpen \/ PublishOpen
<1>1. callbacks \in Seq(Event)
  BY CreditTypes
<1>2. CASE callbacks' = callbacks
  BY <1>2 DEF HasOpen
<1>3. ASSUME NEW e \in Event, callbacks' = Append(callbacks, e),
             e.kind = "open" => PublishOpen
      PROVE  /\ HasOpen => HasOpen'
             /\ HasOpen' => HasOpen \/ PublishOpen
  <2>1. /\ DOMAIN callbacks' = DOMAIN callbacks \cup {Len(callbacks) + 1}
        /\ \A i \in DOMAIN callbacks : callbacks'[i] = callbacks[i]
        /\ callbacks'[Len(callbacks) + 1] = e
    BY <1>1, <1>3
  <2> QED
    BY <1>3, <2>1 DEF HasOpen
<1>4. CASE Task
  <2>1. \/ callbacks' = callbacks
        \/ \E e \in Event : /\ callbacks' = Append(callbacks, e)
                            /\ e.kind = "open" => PublishOpen
    <3>1. SendAnswer => answer.kind # "open"
      BY DEF SendAnswer, Port, Events
    <3> QED
      BY <1>4, <3>1, Publication, DataKind DEF Port, NoEvent
  <2> QED
    BY <1>2, <1>3, <2>1
<1>5. CASE (AnyCall /\ UNCHANGED reactorVars) \/ OfDevice \/ UNCHANGED vars
  <2>1. callbacks' = callbacks
    BY <1>5, CallEffect DEF Port, OfDevice, Arrive, Transmit, Shift, Lose,
                            vars, nativeVars
  <2> QED
    BY <1>2, <2>1
<1> QED
  BY <1>4, <1>5 DEF AnyStep

LEMMA GoneStays ==
  ASSUME Port, Reads, Ledger, [AnyStep]_vars, gone PROVE gone'
<1>1. CASE Task
  BY <1>1, TaskFails
<1>2. CASE AnyCall
  BY <1>2
  DEF AnyCall, Request, ReadRequest, Write, WritevSnapshot, ReadCredit,
      WritevRecheck, WriteAttempt, EnqueueRemainder, Close, Notify, Consume,
      EnvTeardown
<1>3. CASE OfDevice \/ UNCHANGED vars
  BY <1>3
  DEF OfDevice, Arrive, Transmit, Shift, Lose, vars, nativeVars
<1> QED
  BY <1>1, <1>2, <1>3 DEF AnyStep

LEMMA NextFailing ==
  ASSUME Port, Reads, Ledger, Failing, [Next]_allVars PROVE Failing'
<1>1. /\ [AnyStep]_vars
      /\ HasOpen => HasOpen'
      /\ HasOpen' => HasOpen \/ PublishOpen
      /\ gone => gone'
  BY NextConforms, HasOpenAfter, GoneStays
<1>2. (pc \in {"opening", "opened"} => ~failure)'
  <2>1. CASE Task
    <3>1. pc' \in {"opening", "opened"} => Opened
      BY <2>1, OpensOnce
    <3> QED
      BY <3>1 DEF Failing, Opened
  <2>2. CASE UNCHANGED <<pc, failure>>
    BY <2>2 DEF Failing
  <2> QED
    BY <2>1, <2>2, ClientFrame
<1>3. (failure => gone \/ ~HasOpen)'
  <2>1. CASE Task
    <3>1. OpenFailed => ~HasOpen /\ ~PublishOpen
      BY DEF OpenFailed, PublishOpen, Port, Events, HasOpen
    <3>2. PublishOpen => ~failure /\ ~OpenFailed
      BY DEF PublishOpen, OpenFailed, Failing
    <3> QED
      BY <1>1, <2>1, <3>1, <3>2, TaskFails DEF Failing
  <2>2. CASE UNCHANGED <<pc, callbacks, failure>>
    BY <1>1, <2>2 DEF Failing, HasOpen
  <2> QED
    BY <2>1, <2>2, ClientFrame
<1>4. (opened = "resolved" => HasOpen)'
  <2>1. opened' = opened \/ opened' = "rejected" \/ HasOpen
    <3>1. CASE Callback
      <4> DEFINE event == callbacks[consumed + 1]
      <4>1. consumed + 1 \in DOMAIN callbacks
        BY <3>1, CreditTypes DEF Callback, Consume
      <4>2. \/ event.kind = "open" /\ OnOpen
            \/ event.kind = "data" /\ OnData(event)
            \/ OnReply(event)
            \/ OnClose
        BY <3>1 DEF Callback
      <4>3. OnData(event) \/ OnReply(event) => opened' = opened
        BY DEF OnData, OnReply, lifeVars
      <4>4. OnClose => opened' = opened \/ opened' = "rejected"
        BY DEF OnClose
      <4>5. event.kind = "open" => HasOpen
        BY <4>1 DEF HasOpen
      <4> QED
        BY <4>2, <4>3, <4>4, <4>5
    <3>2. CASE Deliver \/ (\E length \in Windows : StartReading(length))
               \/ NoLedger \/ UNCHANGED bindingVars
      BY <3>2 DEF Deliver, StartReading, NoLedger, bindingVars, lifeVars
    <3> QED
      BY <3>1, <3>2, JsLedger
  <2> QED
    BY <1>1, <2>1 DEF Failing
<1> QED
  BY <1>2, <1>3, <1>4 DEF Failing
-----------------------------------------------------------------------------
(* No event is refused.  An unread reply answers a promise of its own, an  *)
(* unread event of input holds a slot of its own, and while the open event *)
(* is unread nothing can be asked for.                                     *)
IsReply(e) == e.kind \in {"ok", "error", "read"}

RepliesAt == {i \in consumed + 1 .. Len(callbacks) : IsReply(callbacks[i])}

Awaited ==
  /\ \A i \in RepliesAt : callbacks[i].id \in pending
  /\ pc = "answer" => answer.id \in pending
  /\ WithTask => read[1] \in pending

Filled ==
  \A i \in DOMAIN callbacks : IsData(callbacks[i]) => callbacks[i].chunks # <<>>

Few ==
  /\ env /\ Cardinality(pending) <= JsPending
  /\ opened = "pending" => pending = {} /\ call.step = "none"

LEMMA InitFits == BindingInit => Awaited /\ Filled /\ Few
<1> SUFFICES ASSUME BindingInit PROVE Awaited /\ Filled /\ Few
  OBVIOUS
<1>1. /\ callbacks = <<>> /\ consumed = 0 /\ pc = "opening" /\ read = <<>>
      /\ env /\ pending = {} /\ call.step = "none"
  BY DEF BindingInit, Init, InitNative, InitReactor, InitBinding, NoCall
<1>2. DOMAIN callbacks = {} /\ RepliesAt = {}
  BY <1>1 DEF RepliesAt
<1> QED
  BY <1>1, <1>2, FS_EmptySet, BindingAssumption
  DEF Awaited, Filled, Few, WithTask

(* The environment lives as long as JavaScript runs.                       *)
LEMMA EnvStays == ASSUME [Next]_allVars PROVE env' = env
<1> USE DEF nativeVars
<1>1. ASSUME NEW sizes, StartWrite(sizes) PROVE env' = env
  BY <1>1 DEF StartWrite, WriteRequest, Write
<1>2. CASE ContinueWrite \/ AttemptWrite
  BY <1>2 DEF ContinueWrite, WriteRequest, Write, AttemptWrite, WriteAttempt,
              Attempt
<1>3. CASE FinishWriteCall
  BY <1>3 DEF FinishWriteCall, EnqueueRemainder, Enqueue
<1>4. ASSUME NEW op, Operation(op) PROVE env' = env
  BY <1>4 DEF Operation, Request, Enqueue
<1>5. ASSUME NEW size, ReadChunk(size) PROVE env' = env
  BY <1>5 DEF ReadChunk, ReadRequest, Enqueue
<1>6. ASSUME NEW length, StartReading(length) PROVE env' = env
  BY <1>6 DEF StartReading, ReadCredit, Enqueue
<1>7. CASE DrainCall \/ DrainContinue \/ Deliver
  BY <1>7 DEF DrainCall, DrainContinue, Request, Enqueue, Deliver, vars
<1>8. CASE CloseCall \/ CancelOpen
  BY <1>8 DEF CloseCall, CancelOpen, Close
<1>9. CASE Callback \/ (Notify /\ UNCHANGED <<reactorVars, bindingVars>>)
  BY <1>9 DEF Callback, Consume, Notify
<1>10. CASE (Task /\ UNCHANGED bindingVars) \/ Device
  BY <1>10, TaskKeeps DEF jsVars, Device, Arrive, Transmit, Shift, Lose
<1>11. CASE Rest \/ UNCHANGED allVars
  BY <1>11 DEF Rest, allVars, vars
<1> QED
  BY <1>1, <1>2, <1>3, <1>4, <1>5, <1>6, <1>7, <1>8, <1>9, <1>10, <1>11
  DEF Next, Caller, Pump

(* A port that is not open yet gets no promise.                            *)
LEMMA NotOpenYet ==
  ASSUME ~isOpen, call.step = "none", pending = {}, [Next]_allVars
  PROVE  call'.step = "none" /\ pending' = {}
<1> USE DEF nativeVars, promiseVars, Usable
<1>1. CASE ContinueWrite \/ AttemptWrite \/ FinishWriteCall
  BY <1>1 DEF ContinueWrite, AttemptWrite, WriteAttempt, FinishWriteCall,
              EnqueueRemainder
<1>2. CASE DrainCall \/ DrainContinue \/ Deliver
  BY <1>2 DEF DrainCall, DrainContinue, Deliver, vars
<1>3. CASE CloseCall \/ CancelOpen
  BY <1>3 DEF CloseCall, CancelOpen, Close
<1>4. CASE Callback
  BY <1>4 DEF Callback, Consume, OnOpen, OnData, OnReply, OnClose,
              RejectPending
<1>5. CASE Notify /\ UNCHANGED <<reactorVars, bindingVars>>
  BY <1>5 DEF Notify, bindingVars
<1>6. CASE (Task /\ UNCHANGED bindingVars) \/ Device
  BY <1>6, TaskKeeps DEF jsVars, Device, Arrive, Transmit, Shift, Lose,
                         bindingVars
<1>7. CASE Rest \/ UNCHANGED allVars
  BY <1>7 DEF Rest, allVars, vars, bindingVars
<1>8. ~(\E sizes \in Writes : StartWrite(sizes))
  BY DEF StartWrite
<1>9. /\ ~(\E op \in Methods \cap {"control", "flush"} : Operation(op))
      /\ ~(\E size \in ReadLengths : ReadChunk(size))
      /\ ~(\E length \in Windows : StartReading(length))
  BY DEF Operation, ReadChunk, StartReading
<1> QED
  BY <1>1, <1>2, <1>3, <1>4, <1>5, <1>6, <1>7, <1>8, <1>9
  DEF Next, Caller, Pump

LEMMA OpenedStays ==
  ASSUME Port, [Next]_allVars, opened' = "pending" PROVE opened = "pending"
<1>1. CASE Callback
  BY <1>1 DEF Callback, OnOpen, OnData, OnReply, OnClose, lifeVars
<1>2. CASE Deliver \/ (\E length \in Windows : StartReading(length))
           \/ NoLedger \/ UNCHANGED bindingVars
  BY <1>2 DEF Deliver, StartReading, NoLedger, bindingVars, lifeVars
<1> QED
  BY <1>1, <1>2, JsLedger

LEMMA NextFew ==
  ASSUME Port, Promises, Ledger, Few, [Next]_allVars PROVE Few'
<1>1. env'
  BY EnvStays DEF Few
<1>2. (opened = "pending" => pending = {} /\ call.step = "none")'
  BY OpenedStays, NotOpenYet DEF Few, Ledger, Opening
<1>3. /\ IsFiniteSet(pending) /\ Cardinality(pending) \in Nat
      /\ JsPending \in Nat
  BY PendingFacts, FS_CardinalityType, BindingAssumption DEF Port, Promises
<1>4. Cardinality(pending') <= JsPending
  <2>1. ASSUME pending' \subseteq pending PROVE Cardinality(pending') <= JsPending
    <3>1. Cardinality(pending') <= Cardinality(pending)
          /\ Cardinality(pending') \in Nat
      BY <1>3, <2>1, FS_Subset, FS_CardinalityType
    <3> QED
      BY <1>3, <3>1 DEF Few
  <2>2. CASE OneAdmitted
    <3>1. pending' = pending \cup {NextId} /\ Cardinality(pending) < JsPending
      BY <2>2 DEF OneAdmitted, HasRoom
    <3>2. \/ pending' = pending
          \/ Cardinality(pending') = Cardinality(pending) + 1
      BY <1>3, <3>1, FS_AddElement
    <3> QED
      BY <1>3, <3>1, <3>2
  <2>3. PromiseStep
    BY StepPromises DEF Port, Promises
  <2>4. NoneAdmitted \/ OneSettled \/ AllSettled => pending' \subseteq pending
    BY DEF NoneAdmitted, OneSettled, AllSettled, RejectPending
  <2> QED
    BY <2>1, <2>2, <2>3, <2>4 DEF PromiseStep
<1> QED
  BY <1>1, <1>2, <1>4 DEF Few

LEMMA NextFilled ==
  ASSUME Port, Reads, Filled, [Next]_allVars PROVE Filled'
<1>1. callbacks \in Seq(Event)
  BY CreditTypes
<1>2. ASSUME NEW e \in Event, callbacks' = Append(callbacks, e),
             IsData(e) => e.chunks # <<>>
      PROVE  Filled'
  <2>1. /\ DOMAIN callbacks' = DOMAIN callbacks \cup {Len(callbacks) + 1}
        /\ \A i \in DOMAIN callbacks : callbacks'[i] = callbacks[i]
        /\ callbacks'[Len(callbacks) + 1] = e
    BY <1>1, <1>2
  <2> QED
    BY <1>2, <2>1 DEF Filled, IsData
<1>3. CASE callbacks' = callbacks
  BY <1>3 DEF Filled, IsData
<1>4. CASE Task
  <2> DEFINE chunk == <<Chunk(Least(ReadCapacity, Available))>>
  <2>1. /\ NoEvent.kind = "open"
        /\ \A chunks : Data(chunks).chunks = chunks
        /\ chunk # <<>>
    BY DEF NoEvent, Data
  <2>2. answer.kind # "data"
    BY DEF Port, Events
  <2>3. BurstEnd /\ callbacks' # callbacks => batch # <<>>
    BY DEF BurstEnd, Followers
  <2> HIDE DEF chunk
  <2>4. \/ callbacks' = callbacks
        \/ \E e \in Event : /\ callbacks' = Append(callbacks, e)
                            /\ IsData(e) => e.chunks # <<>>
    <3>1. \/ callbacks' = callbacks
          \/ \E e \in Event :
               /\ callbacks' = Append(callbacks, e)
               /\ \/ e = NoEvent \/ e = answer \/ e.kind \in {"read", "close"}
                  \/ e = Data(chunk)
                  \/ BurstEnd /\ e = Data(batch)
      BY <1>4, Publication DEF Port, chunk
    <3> QED
      BY <2>1, <2>2, <2>3, <3>1 DEF IsData
  <2> QED
    BY <1>2, <1>3, <2>4
<1> QED
  BY <1>3, <1>4, ClientFrame

(* The task answers only what it holds, and takes only a read that waits.  *)
LEMMA TaskAwaited ==
  ASSUME Port, Reads, Kept, Awaited, Task, UNCHANGED <<consumed, bindingVars>>
  PROVE  Awaited'
<1> USE DEF Over, Ended
<1>1. /\ pending' = pending /\ callbacks \in Seq(Event) /\ consumed \in Nat
      /\ channel \in Seq(Command) /\ consumed <= Len(callbacks)
  BY CreditTypes DEF bindingVars, promiseVars
<1>2. Reads'
  BY TaskReads
<1>3. pc \in Over => pc' \in Over
  BY Completing DEF DropReceiver, MarkStopped, Release, SendClose
<1>4. TransferRead => WithTask
  <2>1. TransferRead => ~streaming /\ pc = "poll" /\ ReadReady
    BY DEF TransferRead, PicksRead
  <2>2. TransferRead => read \in Nat \X Nat
    BY <2>1, ReadTypes DEF TransferRead, PicksRead, Port, NativeInv
  <2> QED
    BY <2>1, <2>2 DEF WithTask
<1>5. ASSUME NEW i \in RepliesAt' PROVE callbacks'[i].id \in pending
  <2>1. CASE callbacks' = callbacks
    BY <1>5, <2>1 DEF RepliesAt, Awaited
  <2>2. ASSUME NEW e \in Event, callbacks' = Append(callbacks, e),
               IsReply(e) => e.id \in pending
        PROVE  callbacks'[i].id \in pending
    <3>1. /\ Len(callbacks') = Len(callbacks) + 1 /\ i \in Nat
          /\ i \in consumed + 1 .. Len(callbacks') /\ IsReply(callbacks'[i])
      BY <1>1, <1>5, <2>2 DEF RepliesAt
    <3>2. CASE i = Len(callbacks) + 1
      BY <1>1, <2>2, <3>1, <3>2
    <3>3. CASE i # Len(callbacks) + 1
      <4>1. i \in consumed + 1 .. Len(callbacks) /\ callbacks'[i] = callbacks[i]
        BY <1>1, <2>2, <3>1, <3>3
      <4> QED
        BY <3>1, <4>1 DEF RepliesAt, Awaited
    <3> QED
      BY <3>2, <3>3
  <2>3. \/ callbacks' = callbacks
        \/ \E e \in Event : /\ callbacks' = Append(callbacks, e)
                            /\ IsReply(e) => e.id \in pending
    <3>1. SendAnswer => answer.id \in pending
      BY DEF SendAnswer, Awaited
    <3>2. TransferRead => read[1] \in pending
      BY <1>4 DEF Awaited
    <3>3. \/ callbacks' = callbacks
          \/ \E e \in Event :
               /\ callbacks' = Append(callbacks, e)
               /\ \/ e.kind \in {"open", "data", "close"}
                  \/ SendAnswer /\ e = answer
                  \/ TransferRead /\ e.id = read[1]
      BY Publication, DataKind DEF Port, NoEvent
    <3> QED
      BY <3>1, <3>2, <3>3 DEF IsReply
  <2> QED
    BY <2>1, <2>2, <2>3
<1>6. CASE ReceiveRead
  <2>1. answer'.kind # "busy"
    BY <1>2 DEF Reads, Exclusive
  <2>2. /\ channel # <<>> /\ Head(channel).op = "read"
        /\ read' = <<Head(channel).id, Head(channel).size>> /\ pc' = "top"
    BY <1>6, <2>1 DEF ReceiveRead, Receivable, Reply, NoEvent
  <2>3. 1 \in InChannel /\ Head(channel) = channel[1]
    BY <1>1, <2>2 DEF InChannel
  <2>4. read'[1] \in pending
    BY <2>2, <2>3 DEF Kept
  <2> QED
    BY <1>1, <1>5, <2>2, <2>4 DEF Awaited
<1>7. CASE Retires
  <2>1. FrontCommand.id \in HeldIds
    <3>1. commands \in Seq(Command) /\ commands # <<>>
      BY <1>7 DEF Retires, Port, NativeInv, Inv, QueueTypes
    <3>2. Ordered(FrontCommand.op)
      BY <3>1 DEF FrontCommand, Port, NativeInv, Inv, Shape, TaskTypes, QueueTypes, Submission
    <3> QED
      BY <3>1, <3>2 DEF FrontCommand, HeldIds, Held, OrderedOf
  <2>2. answer'.id = FrontCommand.id
    BY <1>7 DEF Retires, Reply, NoEvent
  <2>3. UNCHANGED read /\ pc \notin Over
    BY <1>7 DEF Retires
  <2> QED
    BY <1>1, <1>5, <2>1, <2>2, <2>3 DEF Awaited, Kept, WithTask
<1>8. ASSUME pc' # "answer", read' = read \/ read' = <<>> PROVE Awaited'
  BY <1>1, <1>3, <1>5, <1>8 DEF Awaited, WithTask
<1>9. CASE Quiet
  BY <1>8, <1>9 DEF Quiet
<1>10. CASE \/ PublishOpen \/ SendAnswer \/ ReceiveOrdered \/ ReceiveCredit
            \/ TransferRead \/ TransferStream \/ BurstRead \/ BurstEnd
            \/ DropReceiver \/ SendClose
  <2>1. read' = read \/ read' = <<>>
    BY <1>10
    DEF PublishOpen, SendAnswer, ReceiveOrdered, ReceiveCredit, TransferRead,
        TransferStream, BurstRead, BurstEnd, DropReceiver, SendClose
  <2>2. pc' # "answer"
    BY <1>10
    DEF PublishOpen, SendAnswer, ReceiveOrdered, ReceiveCredit, TransferRead,
        TransferStream, BurstRead, BurstEnd, DropReceiver, SendClose, Send
  <2> QED
    BY <1>8, <2>1, <2>2
<1> QED
  BY <1>6, <1>7, <1>9, <1>10, TaskEffect DEF Port

(* What is answered is one promise, and no other event answers it.         *)
LEMMA CallbackAwaited ==
  ASSUME Port, Reads, Awaited, Callback PROVE Awaited'
<1> DEFINE event == callbacks[consumed + 1]
<1>1. /\ UNCHANGED <<callbacks, requests, pc, answer, read>>
      /\ consumed \in Nat /\ callbacks \in Seq(Event)
      /\ consumed' = consumed + 1 /\ consumed < Len(callbacks)
      /\ consumed + 1 \in DOMAIN callbacks
  BY CreditTypes DEF Callback, Consume, reactorVars, taskVars
<1>2. RepliesAt' = RepliesAt \ {consumed + 1} /\ WithTask' = WithTask
  BY <1>1 DEF RepliesAt, WithTask
<1>3. \A i \in RepliesAt' : i \in DOMAIN callbacks /\ i \in Nat /\ consumed + 1 < i
  BY <1>1, <1>2 DEF RepliesAt
<1>4. \/ pending' = pending
      \/ /\ event.kind \in {"ok", "error", "busy", "read"}
         /\ pending' = pending \ {event.id}
      \/ event.kind = "close"
  BY DEF Callback, OnOpen, OnData, OnReply, AfterReply, OnClose, promiseVars
<1>5. CASE pending' = pending
  BY <1>1, <1>2, <1>5 DEF Awaited
<1>6. CASE event.kind = "close"
  <2>1. pc = "done" /\ consumed + 1 = Len(callbacks)
    BY <1>1, <1>6 DEF Port, NativeInv, Closing
  <2>2. RepliesAt' = {} /\ ~WithTask
    BY <1>1, <1>3, <2>1 DEF RepliesAt, WithTask, Over, Ended
  <2> QED
    BY <1>1, <1>2, <2>1, <2>2 DEF Awaited
<1>7. ASSUME pending' = pending \ {event.id},
             \A i \in RepliesAt' : callbacks[i].id # event.id,
             pc = "answer" => answer.id # event.id,
             WithTask => read[1] # event.id
      PROVE  Awaited'
  BY <1>1, <1>2, <1>7 DEF Awaited
(* The answers that are still to come are about later requests.            *)
<1>8. ASSUME pc = "answer"
      PROVE  /\ IsAnswer(answer) /\ answer.id \in Answering
             /\ Ordered(requests[answer.id].op)
  <2>1. IsAnswer(answer)
    <3>1. answer.kind \in EventKinds
      BY DEF Port, NativeInv, Shape, TaskTypes, Event
    <3> QED
      BY <1>8, <3>1
      DEF EventKinds, IsAnswer, Port, Events, NativeInv, Closing, Reads,
          Exclusive
  <2>2. answer.id \in Answering
    BY <1>8, <2>1 DEF Answering
  <2>3. answer.id \in QueuedUpTo(Len(requests))
    BY <1>8, <2>2 DEF Port, NativeInv, Settling, Over, Ended
  <2> QED
    BY <2>1, <2>2, <2>3 DEF QueuedUpTo
<1>9. CASE event.kind \in {"ok", "error"} /\ pending' = pending \ {event.id}
  <2>1. /\ consumed + 1 \in AnswerPlaces /\ event.id \in Answered
        /\ Ordered(requests[event.id].op) /\ event.id \in Nat
    <3>1. /\ Ordered(requests[event.id].op) /\ event.id \in 1 .. Len(requests)
      BY <1>1, <1>9, ReplyOps DEF IsAnswer, Port
    <3>2. consumed + 1 \in AnswerPlaces
      BY <1>1, <1>9 DEF AnswerPlaces, IsAnswer
    <3> QED
      BY <3>1, <3>2 DEF Answered
  <2>2. ASSUME NEW id, IsRead(id) PROVE id # event.id
    BY <2>1, <2>2 DEF IsRead, Ordered, OrderedOps
  <2>3. ASSUME NEW i \in RepliesAt' PROVE callbacks[i].id # event.id
    <3>1. CASE callbacks[i].kind = "read"
      BY <1>3, <2>2, <3>1 DEF Port, ReadIds
    <3>2. CASE IsAnswer(callbacks[i])
      <4>1. i \in AnswerPlaces
        BY <1>3, <3>2 DEF AnswerPlaces
      <4>2. event.id < callbacks[i].id
        BY <1>3, <2>1, <4>1 DEF Port, NativeInv, AnswersExact, ExactAt
      <4>3. callbacks[i].id \in Nat
        BY <1>3, <3>2, ReplyOps DEF Port
      <4> QED
        BY <2>1, <4>2, <4>3
    <3> QED
      BY <1>1, <3>1, <3>2 DEF RepliesAt, IsReply, IsAnswer
  <2>4. ASSUME pc = "answer" PROVE answer.id # event.id
    <3>1. event.id < answer.id
      BY <1>8, <2>1, <2>4 DEF Port, NativeInv, Settling, Over, Ended
    <3> QED
      BY <2>1, <3>1
  <2>5. WithTask => read[1] # event.id
    BY <2>2 DEF WithTask, Port, ReadIds
  <2> QED
    BY <1>7, <1>9, <2>3, <2>4, <2>5
<1>10. CASE event.kind = "read" /\ pending' = pending \ {event.id}
  <2>1. consumed + 1 \in InQueue /\ requests[event.id].op = "read"
    BY <1>1, <1>10 DEF InQueue, Port, ReadIds, IsRead
  <2>2. ASSUME NEW i \in RepliesAt' PROVE callbacks[i].id # event.id
    <3>1. callbacks[i].kind # "read"
      <4>1. CASE callbacks[i].kind = "read"
        <5>1. i \in InQueue
          BY <1>1, <1>2, <4>1 DEF RepliesAt, InQueue
        <5> QED
          BY <1>1, <1>3, <2>1, <5>1 DEF Reads, OneRead
      <4> QED
        BY <4>1
    <3>2. IsAnswer(callbacks[i])
      BY <1>1, <3>1 DEF RepliesAt, IsReply, IsAnswer
    <3>3. Ordered(requests[callbacks[i].id].op)
      BY <1>3, <3>2, ReplyOps DEF Port
    <3> QED
      BY <2>1, <3>3 DEF Ordered, OrderedOps
  <2>3. pc = "answer" => answer.id # event.id
    BY <1>8, <2>1 DEF Ordered, OrderedOps
  <2>4. ~WithTask
    BY <2>1 DEF Reads, OneRead
  <2> QED
    BY <1>7, <1>10, <2>2, <2>3, <2>4
<1>11. event.kind # "busy"
  BY <1>1 DEF Reads, Exclusive
<1> QED
  BY <1>4, <1>5, <1>6, <1>9, <1>10, <1>11

LEMMA NextAwaited ==
  ASSUME Port, Reads, Promises, Kept, Awaited, [Next]_allVars PROVE Awaited'
<1>1. PromiseStep
  BY StepPromises DEF Port, Promises
<1>2. CASE Callback
  BY <1>2, CallbackAwaited
<1>3. CASE Task /\ UNCHANGED bindingVars
  BY <1>3, TaskKeeps, TaskAwaited DEF jsVars
<1>4. ASSUME ~Callback, UNCHANGED <<pc, answer, read, callbacks>>,
             consumed' = consumed \/ consumed' = consumed + 1
      PROVE  Awaited'
  <2>1. pending \subseteq pending'
    BY <1>1, <1>4 DEF PromiseStep, NoneAdmitted, OneAdmitted
  <2>2. RepliesAt' \subseteq RepliesAt
    <3>1. consumed \in Nat /\ Len(callbacks) \in Nat
      BY CreditTypes
    <3>2. consumed' + 1 .. Len(callbacks) \subseteq consumed + 1 .. Len(callbacks)
      BY <1>4, <3>1
    <3> QED
      BY <1>4, <3>2 DEF RepliesAt
  <2> QED
    BY <1>4, <2>1, <2>2 DEF Awaited, WithTask
<1>5. CASE ~Callback /\ AnyCall /\ UNCHANGED reactorVars
  <2>1. /\ callbacks' = callbacks
        /\ consumed' = consumed \/ consumed' = consumed + 1
    BY <1>5, CallEffect DEF Port
  <2> QED
    BY <1>4, <1>5, <2>1 DEF reactorVars, taskVars
<1>6. CASE ~Callback /\ (OfDevice \/ UNCHANGED vars)
  BY <1>4, <1>6 DEF OfDevice, Arrive, Transmit, Shift, Lose, vars, nativeVars,
                    reactorVars, taskVars, jsVars
<1> QED
  BY <1>2, <1>3, <1>5, <1>6, NextSplits

(* Unread events of input are no more than the chunks they hold.           *)
DataAt(c, n) == {i \in n + 1 .. Len(c) : IsData(c[i])}

LEMMA GatheredCovers ==
  ASSUME NEW c \in Seq(Event), NEW n \in Nat, n <= Len(c),
         \A i \in DOMAIN c : IsData(c[i]) => c[i].chunks # <<>>
  PROVE  /\ IsFiniteSet(DataAt(c, n))
         /\ Cardinality(DataAt(c, n)) <= Len(Gathered(c, n))
<1> DEFINE Covers(m) == /\ IsFiniteSet(DataAt(c, m))
                        /\ Cardinality(DataAt(c, m)) <= Len(Gathered(c, m))
           P == {k \in Nat : \A m \in Nat : m + k = Len(c) => Covers(m)}
<1>1. 0 \in P
  <2>1. ASSUME NEW m \in Nat, m + 0 = Len(c) PROVE Covers(m)
    <3>1. DataAt(c, m) = {}
      BY <2>1 DEF DataAt
    <3>2. Gathered(c, m) \in ChunkSeq
      BY <2>1, GatheredType
    <3>3. Len(Gathered(c, m)) \in Nat
      BY <3>2 DEF ChunkSeq
    <3> QED
      BY <3>1, <3>3, FS_EmptySet
  <2> HIDE DEF Covers
  <2> QED
    BY <2>1
<1>2. ASSUME NEW k \in Nat, k \in P PROVE k + 1 \in P
  <2>1. ASSUME NEW m \in Nat, m + (k + 1) = Len(c) PROVE Covers(m)
    <3>1. m < Len(c) /\ m + 1 \in Nat /\ m + 1 \in DOMAIN c
          /\ (m + 1) + k = Len(c) /\ m + 1 <= Len(c)
      BY <2>1
    <3>2. Covers(m + 1)
      BY <1>2, <3>1
    <3>3. Gathered(c, m) = DataOf(c[m + 1]) \o Gathered(c, m + 1)
      BY <3>1, GatheredNext
    <3>4. /\ DataOf(c[m + 1]) \in ChunkSeq /\ Gathered(c, m + 1) \in ChunkSeq
      BY <3>1, DataOfType, GatheredType
    <3>5. /\ Len(DataOf(c[m + 1])) \in Nat /\ Len(Gathered(c, m + 1)) \in Nat
          /\ Len(Gathered(c, m))
               = Len(DataOf(c[m + 1])) + Len(Gathered(c, m + 1))
      BY <3>3, <3>4 DEF ChunkSeq
    <3>6. DataAt(c, m) = IF IsData(c[m + 1]) THEN DataAt(c, m + 1) \cup {m + 1}
                         ELSE DataAt(c, m + 1)
      <4>1. m + 1 .. Len(c) = ((m + 1) + 1 .. Len(c)) \cup {m + 1}
        BY <3>1
      <4> QED
        BY <4>1 DEF DataAt
    <3>7. m + 1 \notin DataAt(c, m + 1)
      BY <3>1 DEF DataAt
    <3>8. CASE IsData(c[m + 1])
      <4>1. Len(DataOf(c[m + 1])) > 0
        <5>1. DataOf(c[m + 1]) # <<>>
          BY <3>1, <3>8 DEF DataOf
        <5> QED
          BY <3>4, <5>1 DEF ChunkSeq
      <4>2. /\ IsFiniteSet(DataAt(c, m))
            /\ Cardinality(DataAt(c, m + 1)) \in Nat
            /\ Cardinality(DataAt(c, m)) = Cardinality(DataAt(c, m + 1)) + 1
        BY <3>2, <3>6, <3>7, <3>8, FS_AddElement, FS_CardinalityType
      <4> QED
        BY <3>2, <3>5, <4>1, <4>2
    <3>9. CASE ~IsData(c[m + 1])
      <4>1. DataAt(c, m) = DataAt(c, m + 1)
            /\ Cardinality(DataAt(c, m + 1)) \in Nat
        BY <3>2, <3>6, <3>9, FS_CardinalityType
      <4> QED
        BY <3>2, <3>5, <4>1
    <3> QED
      BY <3>8, <3>9
  <2> HIDE DEF Covers
  <2> QED
    BY <2>1
<1> HIDE DEF P
<1>3. \A k \in Nat : k \in P
  BY <1>1, <1>2, SetInduction
<1>4. Len(c) - n \in P /\ n + (Len(c) - n) = Len(c)
  BY <1>3
<1>5. Covers(n)
  BY <1>4 DEF P
<1> QED
  BY <1>5

LEMMA RepliesFit ==
  ASSUME Port, Reads, Promises, Awaited
  PROVE  IsFiniteSet(RepliesAt) /\ Cardinality(RepliesAt) <= Cardinality(pending)
<1> DEFINE g == [i \in RepliesAt |-> callbacks[i].id]
<1>1. \A i \in RepliesAt :
        /\ i \in DOMAIN callbacks /\ i \in consumed + 1 .. Len(callbacks)
        /\ i \in Nat /\ callbacks[i].id \in pending
        /\ IsAnswer(callbacks[i]) \/ callbacks[i].kind = "read"
  <2>1. consumed \in Nat /\ callbacks \in Seq(Event) /\ Len(callbacks) \in Nat
    BY CreditTypes
  <2>2. ASSUME NEW i \in consumed + 1 .. Len(callbacks)
        PROVE  i \in DOMAIN callbacks /\ i \in Nat
    BY <2>1
  <2> QED
    BY <2>2 DEF RepliesAt, IsReply, IsAnswer, Awaited
<1>2. \A i \in RepliesAt :
        IsAnswer(callbacks[i]) <=> Ordered(requests[callbacks[i].id].op)
  <2>1. ASSUME NEW i \in RepliesAt, IsAnswer(callbacks[i])
        PROVE  Ordered(requests[callbacks[i].id].op)
    BY <1>1, <2>1, ReplyOps DEF Port
  <2>2. ASSUME NEW i \in RepliesAt, callbacks[i].kind = "read"
        PROVE  ~Ordered(requests[callbacks[i].id].op)
    BY <1>1, <2>2 DEF Port, ReadIds, IsRead, Ordered, OrderedOps
  <2> QED
    BY <1>1, <2>1, <2>2
<1>3. ASSUME NEW i \in RepliesAt, NEW j \in RepliesAt,
             IsAnswer(callbacks[i]), IsAnswer(callbacks[j]), j < i
      PROVE  callbacks[i].id # callbacks[j].id
  <2>1. i \in AnswerPlaces /\ j \in AnswerPlaces
    BY <1>1, <1>3 DEF AnswerPlaces
  <2>2. callbacks[j].id < callbacks[i].id
    BY <1>3, <2>1 DEF Port, NativeInv, AnswersExact, ExactAt
  <2>3. callbacks[i].id \in Nat /\ callbacks[j].id \in Nat
    BY <1>1, <1>3, ReplyOps DEF Port
  <2> QED
    BY <2>2, <2>3
<1>4. ASSUME NEW i \in RepliesAt, NEW j \in RepliesAt,
             callbacks[i].id = callbacks[j].id
      PROVE  i = j
  <2>1. CASE IsAnswer(callbacks[i])
    <3>1. IsAnswer(callbacks[j])
      BY <1>2, <1>4, <2>1
    <3>2. ~(i < j) /\ ~(j < i)
      BY <1>3, <1>4, <2>1, <3>1
    <3> QED
      BY <1>1, <3>2
  <2>2. CASE ~IsAnswer(callbacks[i])
    <3>1. callbacks[i].kind = "read" /\ callbacks[j].kind = "read"
      BY <1>1, <1>2, <1>4, <2>2
    <3> QED
      BY <1>1, <3>1 DEF InQueue, Reads, OneRead
  <2> QED
    BY <2>1, <2>2
<1>5. g \in Injection(RepliesAt, pending)
  BY <1>1, <1>4 DEF Injection, IsInjective
<1>6. IsFiniteSet(pending)
  BY PendingFacts DEF Port, Promises
<1> QED
  BY <1>5, <1>6, FS_Injection DEF ExistsInjection

LEMMA NothingRefused ==
  ASSUME Port, Reads, Promises, Ledger, Awaited, Filled, Few PROVE EventsFit
<1> SUFFICES ASSUME pc # "done" PROVE CanSend
  BY DEF EventsFit
<1> DEFINE data == DataAt(callbacks, consumed)
<1>1. /\ callbacks \in Seq(Event) /\ consumed \in Nat
      /\ consumed <= Len(callbacks) /\ Len(callbacks) \in Nat
      /\ JsPending \in Nat \ {0} /\ ReadSlots \in Nat /\ CallbackCap \in Nat
      /\ JsPending + ReadSlots < CallbackCap
  BY CreditTypes, BindingAssumption, NativeAssumption
<1>2. \A i \in consumed + 1 .. Len(callbacks) :
        \/ i = 1 \/ i \in RepliesAt \/ i \in data
  <2>1. ASSUME NEW i \in consumed + 1 .. Len(callbacks)
        PROVE  i = 1 \/ i \in RepliesAt \/ i \in data
    <3>1. i \in DOMAIN callbacks
      BY <1>1
    <3>2. callbacks[i].kind \in EventKinds
      <4>1. callbacks[i] \in Event
        BY <1>1, <3>1
      <4> QED
        BY <4>1 DEF Event
    <3>3. callbacks[i].kind # "busy" /\ callbacks[i].kind # "close"
      BY <3>1 DEF Reads, Exclusive, Port, NativeInv, Closing
    <3>4. callbacks[i].kind = "open" => i = 1
      BY <3>1 DEF Port, Events
    <3> QED
      BY <3>2, <3>3, <3>4 DEF EventKinds, RepliesAt, IsReply, DataAt, IsData
  <2> QED
    BY <2>1
<1>3. /\ IsFiniteSet(data) /\ Cardinality(data) \in Nat
      /\ Cardinality(data) <= readSlots
  <2>1. IsFiniteSet(data) /\ Cardinality(data) <= Len(Waiting)
    BY <1>1, GatheredCovers DEF Waiting, Filled
  <2>2. Cardinality(data) \in Nat
    BY <2>1, FS_CardinalityType
  <2>3. /\ Len(Waiting) \in Nat /\ Len(batch) \in Nat /\ Len(backlog) \in Nat
        /\ GivenSlots \in Nat /\ readSlots \in Nat
        /\ OutSlots = (Len(Waiting) + Len(batch)) + Len(backlog)
        /\ GivenSlots + OutSlots <= readSlots
    BY CreditTypes, LedgerTypes, WeightsAre DEF Ledger, Covered
  <2> HIDE DEF data
  <2> QED
    BY <2>1, <2>2, <2>3
<1>4. readSlots \in Nat /\ readSlots <= ReadSlots
  BY <1>1 DEF Ledger, Limits
<1>5. /\ IsFiniteSet(RepliesAt) /\ Cardinality(RepliesAt) \in Nat
      /\ Cardinality(RepliesAt) <= JsPending
  <2>1. /\ IsFiniteSet(RepliesAt) /\ Cardinality(RepliesAt) \in Nat
        /\ Cardinality(pending) \in Nat
        /\ Cardinality(RepliesAt) <= Cardinality(pending)
    BY RepliesFit, PendingFacts, FS_CardinalityType DEF Port, Promises
  <2> QED
    BY <1>1, <2>1 DEF Few
<1>6. Len(callbacks) - consumed < CallbackCap
  <2>1. CASE consumed = 0
    <3>1. pending = {} /\ readSlots = 0
      BY <2>1 DEF Ledger, Opening, Few
    <3>2. RepliesAt = {}
      BY <3>1 DEF Awaited
    <3>3. data = {}
      <4> HIDE DEF data
      <4>1. Cardinality(data) = 0
        BY <1>3, <3>1
      <4> QED
        BY <1>3, <4>1, FS_EmptySet
    <3>4. Len(callbacks) < 2
      <4> HIDE DEF data
      <4>1. ~(2 \in consumed + 1 .. Len(callbacks))
        BY <1>2, <3>2, <3>3
      <4> QED
        BY <1>1, <2>1, <4>1
    <3> QED
      BY <1>1, <2>1, <3>4
  <2>2. CASE consumed # 0
    <3> DEFINE unread == consumed + 1 .. Len(callbacks)
    <3> HIDE DEF data
    <3>1. unread \subseteq RepliesAt \cup data
      BY <1>1, <1>2, <2>2
    <3>2. /\ IsFiniteSet(RepliesAt \cup data)
          /\ Cardinality(RepliesAt \cup data)
               = Cardinality(RepliesAt) + Cardinality(data)
                   - Cardinality(RepliesAt \cap data)
      BY <1>3, <1>5, FS_Union
    <3>3. Cardinality(RepliesAt \cap data) \in Nat
      <4>1. IsFiniteSet(RepliesAt \cap data)
        BY <1>5, FS_Subset
      <4> QED
        BY <4>1, FS_CardinalityType
    <3>4. /\ Cardinality(unread) = Len(callbacks) - consumed
      <4>1. consumed + 1 \in Int /\ Len(callbacks) \in Int
        BY <1>1
      <4>2. Cardinality(unread)
              = IF consumed + 1 > Len(callbacks) THEN 0
                ELSE Len(callbacks) - (consumed + 1) + 1
        BY <4>1, FS_Interval
      <4> QED
        BY <1>1, <4>2
    <3>5. Cardinality(unread) <= Cardinality(RepliesAt \cup data)
      BY <3>1, <3>2, FS_Subset
    <3> HIDE DEF unread
    <3> QED
      BY <1>1, <1>3, <1>4, <1>5, <3>2, <3>3, <3>4, <3>5
  <2> QED
    BY <2>1, <2>2
<1> QED
  BY <1>6 DEF CanSend, Few

(* A session that is open ends with an error only when the device is lost, *)
(* and no event is refused.                                                *)
THEOREM FailsRightly == Spec => []FailsOnlyWithDevice
<1> DEFINE I == /\ Port /\ Reads /\ Promises /\ Kept /\ Ledger /\ Failing
                /\ Awaited /\ Filled /\ Few
<1>1. BindingInit => I
  <2>1. BindingInit => Failing
    BY DEF BindingInit, Init, InitReactor, InitBinding, Failing
  <2> QED
    BY <2>1, InitPort, InitReads, InitPromises, InitKept, InitLedger, InitFits
    DEF BindingInit
<1>2. I /\ [Next]_allVars => I'
  <2> SUFFICES ASSUME I, [Next]_allVars PROVE I'
    OBVIOUS
  <2>1. Port' /\ Reads' /\ Kept' /\ Ledger' /\ Failing'
    BY NextPort, NextReads, NextKept, NextLedger, NextFailing, NextConforms
  <2>2. Promises'
    BY NextPromises DEF Port
  <2>3. Awaited' /\ Filled' /\ Few'
    BY NextAwaited, NextFilled, NextFew
  <2> QED
    BY <2>1, <2>2, <2>3
<1>3. I => FailsOnlyWithDevice
  BY NothingRefused DEF FailsOnlyWithDevice, Failing
<1> HIDE DEF I
<1> QED
  BY <1>1, <1>2, <1>3, PTL DEF Spec
-----------------------------------------------------------------------------
(* What was taken from the driver is published in order.  As long as the   *)
(* session runs, and also when an error ends it, all of it is, except for  *)
(* the batch of a burst; only an event that the callback queue refuses     *)
(* takes its chunks with it, and it ends the session.                      *)
ChunksOf(c) == FlattenSeq([i \in DOMAIN c |-> c[i].chunks])

LEMMA ChunksOfAppend ==
  ASSUME NEW c \in Seq(Event), NEW e \in Event
  PROVE  /\ ChunksOf(c) \in ChunkSeq /\ e.chunks \in ChunkSeq
         /\ ChunksOf(Append(c, e)) = ChunksOf(c) \o e.chunks
<1> DEFINE D(s) == [i \in DOMAIN s |-> s[i].chunks]
<1>1. \A f \in Event : f.chunks \in Seq(Nat \X Nat)
  BY DEF Event
<1>2. D(c) \in Seq(Seq(Nat \X Nat))
  BY <1>1
<1>3. D(Append(c, e)) = Append(D(c), e.chunks)
  OBVIOUS
<1>4. FlattenSeq(D(c)) \in Seq(Nat \X Nat)
  BY <1>2, FlattenType
<1>5. FlattenSeq(Append(D(c), e.chunks)) = FlattenSeq(D(c)) \o e.chunks
  BY <1>1, <1>2, FlattenAppend
<1> QED
  BY <1>1, <1>3, <1>4, <1>5 DEF ChunksOf, ChunkSeq

(* The forms that a step can leave the three sequences in.                 *)
Complete == obtained = ChunksOf(callbacks) \o batch

Conserved ==
  /\ batch # <<>> => pc = "burst"
  /\ failure => pc \in Over
  /\ \E rest \in ChunkSeq : obtained = ChunksOf(callbacks) \o rest
  /\ failure \/ Active => Complete

LEMMA InputTypes ==
  ASSUME Port
  PROVE  /\ callbacks \in Seq(Event) /\ obtained \in ChunkSeq
         /\ batch \in ChunkSeq /\ ChunksOf(callbacks) \in ChunkSeq
         /\ failure \in BOOLEAN
<1>1. /\ callbacks \in Seq(Event) /\ obtained \in ChunkSeq
      /\ batch \in ChunkSeq /\ failure \in BOOLEAN
  BY DEF Port, NativeInv, Shape, TaskTypes
<1>2. NoEvent \in Event
  BY NoEventType
<1>3. ChunksOf(callbacks) \in ChunkSeq
  BY <1>1, <1>2, ChunksOfAppend
<1> QED
  BY <1>1, <1>3

LEMMA InputSame ==
  ASSUME Port,
         \/ callbacks' = callbacks
         \/ \E e \in Event : /\ callbacks' = Append(callbacks, e)
                             /\ e.chunks = <<>>
  PROVE  ChunksOf(callbacks') = ChunksOf(callbacks)
<1>1. ASSUME NEW e \in Event, callbacks' = Append(callbacks, e),
             e.chunks = <<>>
      PROVE  ChunksOf(callbacks') = ChunksOf(callbacks)
  <2>1. ChunksOf(callbacks') = ChunksOf(callbacks) \o <<>>
    BY <1>1, InputTypes, ChunksOfAppend
  <2> QED
    BY <2>1, InputTypes, ConcatEmptySeq DEF ChunkSeq
<1> QED
  BY <1>1

LEMMA FailureEnds ==
  ASSUME Task, failure' PROVE failure \/ pc' \in Over
<1> USE DEF Over, Ended
<1>1. CASE \/ Opened \/ OpenFailed \/ PublishOpen \/ CheckStop \/ LeaveFront
           \/ FinishWrite \/ Control \/ Flush \/ StartDrain \/ FinishDrain
           \/ SendAnswer \/ Notified \/ ReceiveOrdered \/ ReceiveRead
  BY <1>1
  DEF Opened, OpenFailed, PublishOpen, CheckStop, LeaveFront, FinishWrite,
      Control, Flush, StartDrain, FinishDrain, SendAnswer, Notified,
      ReceiveOrdered, ReceiveRead
<1>2. CASE \/ ReceiveCredit \/ PollTransfers \/ NothingReady
           \/ TransferFailed \/ TransferWrite \/ TransferRead
           \/ TransferStream \/ BurstRead \/ DropReceiver
           \/ MarkStopped \/ Release \/ SendClose
  BY <1>2
  DEF ReceiveCredit, PollTransfers, NothingReady,
      TransferFailed, TransferWrite, TransferRead, TransferStream, BurstRead,
      DropReceiver, MarkStopped, Release, SendClose
<1>3. CASE BurstEnd
  BY <1>3 DEF BurstEnd, Followers, Send
<1> QED
  BY <1>1, <1>2, <1>3 DEF Task

LEMMA OverStays ==
  ASSUME Port, Task, pc \in Over
  PROVE  /\ pc' \in Over /\ UNCHANGED <<obtained, batch>>
         /\ failure' = failure /\ (Active' => Active)
         /\ \/ callbacks' = callbacks
            \/ \E e \in Event : /\ callbacks' = Append(callbacks, e)
                                /\ e.chunks = <<>>
<1>1. DropReceiver \/ MarkStopped \/ Release \/ SendClose
  BY Completing
<1>2. /\ pc' \in Over /\ UNCHANGED <<obtained, batch>>
      /\ failure' = failure /\ (Active' => Active)
  <2>1. receiving => pc = "ended" \/ pc \in Ended
    BY DEF Over
  <2>2. CASE DropReceiver
    BY <2>2 DEF DropReceiver, deviceVars, Over, Ended, Active
  <2>3. CASE MarkStopped \/ Release
    BY <2>3 DEF MarkStopped, Release, deviceVars, queueVars, Over, Ended,
                Active
  <2>4. CASE SendClose
    BY <2>4 DEF SendClose, deviceVars, Over, Ended, Active
  <2> QED
    BY <1>1, <2>2, <2>3, <2>4
<1>3. \/ callbacks' = callbacks
      \/ \E e \in Event : /\ callbacks' = Append(callbacks, e)
                          /\ e.chunks = <<>>
  <2>1. CASE DropReceiver \/ MarkStopped \/ Release
    BY <2>1 DEF DropReceiver, MarkStopped, Release
  <2>2. CASE SendClose
    <3>1. pc = "closing"
      BY <2>2 DEF SendClose
    <3> QED
      BY <2>2, <3>1, Publication
      DEF Port, PublishOpen, SendAnswer, TransferRead, TransferStream, BurstEnd
  <2> QED
    BY <1>1, <2>1, <2>2
<1> QED
  BY <1>2, <1>3

(* A chunk that joins what was taken and what is published or collected.   *)
LEMMA Joined ==
  ASSUME NEW T, NEW p, NEW b, NEW x,
         p \in Seq(T), b \in Seq(T), x \in T
  PROVE  Append(p \o b, x) = p \o Append(b, x)
<1>1. p \o b \in Seq(T) /\ <<x>> \in Seq(T)
  BY ConcatProperties
<1>2. Append(p \o b, x) = (p \o b) \o <<x>> /\ Append(b, x) = b \o <<x>>
  BY <1>1, AppendIsConcat
<1>3. \A S : \A s, t, u \in Seq(S) : (s \o t) \o u = s \o (t \o u)
  BY ConcatAssociative, Zenon
<1>4. PICK one \in Seq(T) : one = <<x>>
  BY <1>1
<1>5. (p \o b) \o one = p \o (b \o one)
  BY <1>3
<1> QED
  BY <1>2, <1>4, <1>5

LEMMA TakenTogether ==
  ASSUME NEW p \in ChunkSeq, NEW b \in ChunkSeq, NEW chunk \in Nat \X Nat
  PROVE  /\ Append(p \o b, chunk) = p \o Append(b, chunk)
         /\ Append(p, chunk) = p \o <<chunk>>
         /\ Append(b, chunk) \in ChunkSeq
<1>1. p \in Seq(Nat \X Nat) /\ b \in Seq(Nat \X Nat)
  BY DEF ChunkSeq
<1>2. Append(p \o b, chunk) = p \o Append(b, chunk)
  <2>1. PICK T : T = Nat \X Nat
    OBVIOUS
  <2>2. p \in Seq(T) /\ b \in Seq(T) /\ chunk \in T
    BY <1>1, <2>1
  <2> QED
    BY SMTT(20), <2>2, Joined
<1>3. Append(p, chunk) = p \o <<chunk>>
  BY <1>1, AppendIsConcat
<1>4. Append(b, chunk) \in ChunkSeq
  BY <1>1, AppendProperties DEF ChunkSeq
<1> QED
  BY <1>2, <1>3, <1>4

(* A transfer outside of a burst: its chunk is published, or dropped.      *)
LEMMA TransferInput ==
  ASSUME Port, Complete, batch = <<>>, pc = "poll", ~failure,
         TransferRead \/ TransferStream
  PROVE  /\ batch' = <<>> /\ ~failure'
         /\ \/ obtained' = ChunksOf(callbacks')
            \/ /\ pc' = "ended"
               /\ \E rest \in ChunkSeq :
                    obtained' = ChunksOf(callbacks') \o rest
<1> DEFINE n == Least(ReadCapacity, Available)
           chunk == Chunk(n)
<1>1. chunk \in Nat \X Nat
  <2>1. ReadLimit \in Nat \ {0} /\ Available > 0
    BY ReadTypes DEF TransferRead, TransferStream, PicksRead, Port, NativeInv
  <2> QED
    BY <2>1, Takes DEF ReadCapacity, Port, NativeInv
<1>2. obtained' = Append(obtained, chunk) /\ batch' = <<>> /\ ~failure'
  BY DEF TransferRead, TransferStream, Take
<1>3. \/ callbacks' = callbacks
      \/ \E e \in Event : /\ callbacks' = Append(callbacks, e)
                          /\ e.chunks = <<chunk>> \/ e = Data(<<chunk>>)
  <2>1. ~PublishOpen /\ ~SendAnswer /\ ~BurstEnd /\ ~SendClose
    BY DEF PublishOpen, SendAnswer, BurstEnd, SendClose
  <2>2. Task
    BY DEF Task
  <2> QED
    BY <2>1, <2>2, Publication DEF Port
<1> HIDE DEF chunk, n
<1>4. callbacks' = callbacks => pc' = "ended"
  <2>1. \A e : callbacks # Append(callbacks, e)
    <3>1. \A e : Len(Append(callbacks, e)) = Len(callbacks) + 1
      BY InputTypes
    <3>2. Len(callbacks) \in Nat
      BY InputTypes
    <3> QED
      BY <3>1, <3>2
  <2> QED
    BY <2>1 DEF TransferRead, TransferStream, Send
<1>5. ASSUME NEW e \in Event, e = Data(<<chunk>>) PROVE e.chunks = <<chunk>>
  BY <1>5 DEF Data, NoEvent
<1>6. /\ obtained = ChunksOf(callbacks)
      /\ obtained' = ChunksOf(callbacks) \o <<chunk>>
      /\ <<chunk>> \in ChunkSeq
  <2>1. obtained = ChunksOf(callbacks)
    BY InputTypes, ConcatEmptySeq DEF Complete, ChunkSeq
  <2>2. <<chunk>> \in ChunkSeq
    BY <1>1 DEF ChunkSeq
  <2> QED
    BY <1>1, <1>2, <2>1, <2>2, InputTypes, TakenTogether
<1>7. CASE callbacks' = callbacks /\ pc' = "ended"
  BY <1>2, <1>6, <1>7
<1>8. CASE \E e \in Event : /\ callbacks' = Append(callbacks, e)
                           /\ e.chunks = <<chunk>>
  BY <1>2, <1>6, <1>8, InputTypes, ChunksOfAppend
<1> QED
  BY <1>2, <1>3, <1>4, <1>5, <1>7, <1>8

(* The end of a burst: the batch is published, or dropped without error.   *)
LEMMA EndInput ==
  ASSUME Port, Complete, BurstEnd
  PROVE  /\ batch' = <<>>
         /\ \/ obtained' = ChunksOf(callbacks')
            \/ /\ pc' = "ended" /\ ~failure'
               /\ \E rest \in ChunkSeq :
                    obtained' = ChunksOf(callbacks') \o rest
<1>1. /\ batch' = <<>> /\ obtained' = obtained
      /\ \/ batch = <<>> /\ callbacks' = callbacks
         \/ callbacks' = Append(callbacks, Data(batch))
         \/ callbacks' = callbacks /\ pc' = "ended" /\ ~failure'
  BY DEF BurstEnd, Followers, Send, deviceVars
<1>2. obtained = ChunksOf(callbacks) \o batch
  BY DEF Complete
<1>3. CASE batch = <<>> /\ callbacks' = callbacks
  BY <1>1, <1>2, <1>3, InputTypes, ConcatEmptySeq DEF ChunkSeq
<1>4. CASE callbacks' = Append(callbacks, Data(batch))
  <2>1. Data(batch) \in Event /\ Data(batch).chunks = batch
    BY DataType, InputTypes DEF Data, NoEvent
  <2> QED
    BY <1>1, <1>2, <1>4, <2>1, InputTypes, ChunksOfAppend
<1>5. CASE callbacks' = callbacks /\ pc' = "ended" /\ ~failure'
  BY <1>1, <1>2, <1>5, InputTypes
<1> QED
  BY <1>1, <1>3, <1>4, <1>5

LEMMA PublishedType == Port => ChunksOf(callbacks) \in ChunkSeq
BY InputTypes

LEMMA PublishedNext == Port' => ChunksOf(callbacks') \in ChunkSeq
<1>1. Port' => (ChunksOf(callbacks) \in ChunkSeq)'
  BY PublishedType, PTL
<1> QED
  BY <1>1 DEF ChunkSeq

LEMMA InputAfter ==
  ASSUME Port', batch' = <<>>, failure' => pc' \in Over,
         \/ obtained' = ChunksOf(callbacks')
         \/ /\ pc' = "ended" /\ ~failure'
            /\ \E rest \in ChunkSeq :
                 obtained' = ChunksOf(callbacks') \o rest
  PROVE  Conserved'
<1>1. ChunksOf(callbacks') \in ChunkSeq
  BY PublishedNext
<1>2. ChunksOf(callbacks') \o <<>> = ChunksOf(callbacks')
  BY <1>1, ConcatEmptySeq DEF ChunkSeq
<1>3. <<>> \in ChunkSeq
  BY DEF ChunkSeq
<1>4. \E rest \in ChunkSeq : obtained' = ChunksOf(callbacks') \o rest
  BY <1>2, <1>3
<1>5. failure' \/ Active' => obtained' = ChunksOf(callbacks') \o batch'
  BY <1>2 DEF Active
<1> QED
  BY <1>4, <1>5 DEF Conserved, Complete

(* A further read of a burst joins its batch.                              *)
LEMMA BurstInput ==
  ASSUME Port, Complete, BurstRead
  PROVE  /\ obtained' = ChunksOf(callbacks') \o batch'
         /\ batch' \in ChunkSeq /\ pc = "burst"
         /\ UNCHANGED <<pc, failure>>
<1> DEFINE n == Least(Least(window.bytes, window.size), Available)
           chunk == Chunk(n)
<1>1. chunk \in Nat \X Nat
  <2>1. /\ window.bytes \in Nat /\ window.bytes > 0 /\ Available > 0 /\ Shape
    BY CreditTypes DEF BurstRead, BurstContinues, Spent, Port, NativeInv
  <2> QED
    BY <2>1, Takes
<1>2. /\ obtained' = Append(obtained, chunk) /\ batch' = Append(batch, chunk)
      /\ UNCHANGED <<callbacks, pc, failure>> /\ pc = "burst"
  BY DEF BurstRead, Take
<1> HIDE DEF chunk
<1> QED
  BY <1>1, <1>2, InputTypes, TakenTogether DEF Complete

LEMMA TaskInput ==
  ASSUME Port, Port', Conserved, Task PROVE Conserved'
<1>1. failure' => failure \/ pc' \in Over
  BY FailureEnds
<1>2. CASE pc \in Over
  <2>1. /\ pc' \in Over /\ obtained' = obtained /\ batch' = batch
        /\ failure' = failure /\ (Active' => Active)
        /\ ChunksOf(callbacks') = ChunksOf(callbacks)
    BY <1>2, OverStays, InputSame
  <2>2. pc # "burst"
    BY <1>2 DEF Over, Ended
  <2> QED
    BY <2>1, <2>2 DEF Conserved, Complete
<1>3. CASE pc \notin Over
  <2>1. Complete /\ ~failure
    BY <1>3 DEF Conserved, Active, Port, NativeInv, Inv, Places, Over
  <2>2. CASE TransferRead \/ TransferStream
    <3>1. batch = <<>> /\ pc = "poll"
      BY <2>2 DEF TransferRead, TransferStream, Conserved
    <3>2. /\ batch' = <<>> /\ ~failure'
          /\ \/ obtained' = ChunksOf(callbacks')
             \/ /\ pc' = "ended"
                /\ \E rest \in ChunkSeq :
                     obtained' = ChunksOf(callbacks') \o rest
      BY <2>1, <2>2, <3>1, TransferInput
    <3> QED
      BY <3>2, InputAfter
  <2>3. CASE BurstEnd
    <3>1. /\ batch' = <<>>
          /\ \/ obtained' = ChunksOf(callbacks')
             \/ /\ pc' = "ended" /\ ~failure'
                /\ \E rest \in ChunkSeq :
                     obtained' = ChunksOf(callbacks') \o rest
      BY <2>1, <2>3, EndInput
    <3> QED
      BY <1>1, <2>1, <3>1, InputAfter
  <2>4. CASE BurstRead
    <3>1. /\ obtained' = ChunksOf(callbacks') \o batch'
          /\ batch' \in ChunkSeq /\ pc' = "burst" /\ ~failure'
      BY <2>1, <2>4, BurstInput
    <3>2. \E rest \in ChunkSeq : obtained' = ChunksOf(callbacks') \o rest
      BY <3>1
    <3> QED
      BY <3>1, <3>2 DEF Conserved, Complete
  <2>5. CASE ~TransferRead /\ ~TransferStream /\ ~BurstRead /\ ~BurstEnd
    <3>1. /\ UNCHANGED <<obtained, batch>> /\ pc # "burst"
      BY <2>5, TaskEffect
      DEF Port, Quiet, Retires, PublishOpen, SendAnswer, ReceiveOrdered,
          ReceiveRead, ReceiveCredit, Receivable, DropReceiver, SendClose,
          deviceVars
    <3>2. ChunksOf(callbacks') = ChunksOf(callbacks)
      <4>1. \/ callbacks' = callbacks
            \/ \E e \in Event : /\ callbacks' = Append(callbacks, e)
                                /\ e.chunks = <<>>
        BY <2>5, Publication DEF Port, Events, NoEvent
      <4> QED
        BY <4>1, InputSame
    <3>3. batch = <<>>
      BY <3>1 DEF Conserved
    <3>4. obtained' = ChunksOf(callbacks')
      <4>1. ChunksOf(callbacks) \o <<>> = ChunksOf(callbacks)
        BY InputTypes, ConcatEmptySeq DEF ChunkSeq
      <4> QED
        BY <2>1, <3>1, <3>2, <3>3, <4>1 DEF Complete
    <3> QED
      BY <1>1, <2>1, <3>1, <3>3, <3>4, InputAfter
  <2> QED
    BY <2>2, <2>3, <2>4, <2>5
<1> QED
  BY <1>2, <1>3

LEMMA NextConserved ==
  ASSUME Port, Port', Conserved, [Next]_allVars PROVE Conserved'
<1>1. CASE UNCHANGED <<batch, pc, receiving, callbacks, failure, obtained>>
  BY <1>1 DEF Conserved, Complete, Active
<1> QED
  BY <1>1, TaskInput, ClientFrame

LEMMA ConservedReads == ASSUME Port, Conserved PROVE ReadsConserved
<1>1. PICK rest \in ChunkSeq : obtained = ChunksOf(callbacks) \o rest
  BY DEF Conserved
<1>2. Published = ChunksOf(callbacks)
  BY DEF Published, ChunksOf
<1>3. IsPrefix(Published, obtained)
  <2> DEFINE p == ChunksOf(callbacks)
  <2>1. p \in Seq(Nat \X Nat) /\ rest \in Seq(Nat \X Nat)
    BY InputTypes DEF ChunkSeq
  <2> HIDE DEF p
  <2>2. /\ Len(p \o rest) = Len(p) + Len(rest)
        /\ \A i \in 1 .. Len(p) : (p \o rest)[i] = p[i]
        /\ p \o rest \in Seq(Nat \X Nat)
    BY <2>1, ConcatProperties
  <2>3. Len(p) <= Len(p \o rest)
    BY <2>1, <2>2
  <2>4. SubSeq(p, 1, Len(p)) = SubSeq(p \o rest, 1, Len(p))
    BY <2>1, <2>2, <2>3
  <2> QED
    BY <1>1, <1>2, <2>3, <2>4 DEF IsPrefix, p
<1> QED
  BY <1>2, <1>3 DEF ReadsConserved, Conserved, Complete, Active

(* No input that was taken from the driver is lost or reordered on its way *)
(* to the callback queue, also when the device fails in a burst.           *)
THEOREM InputConserved == Spec => []ReadsConserved
<1>1. BindingInit => Conserved
  <2>1. ChunksOf(<<>>) = <<>>
    BY FlattenEmpty DEF ChunksOf
  <2>2. <<>> \o <<>> = <<>> /\ <<>> \in ChunkSeq
    BY DEF ChunkSeq
  <2> QED
    BY <2>1, <2>2
    DEF BindingInit, Init, InitNative, InitReactor, Conserved, Complete
<1>2. Port /\ Conserved /\ [Next]_allVars => Conserved'
  BY NextConserved, NextPort, NextConforms
<1> QED
  BY <1>1, <1>2, StillPort, ConservedReads, PTL DEF Spec
-----------------------------------------------------------------------------
(* A drain that is done leaves everything that was submitted before it     *)
(* with the driver.                                                        *)
DrainedTo(id) == \A k \in 1 .. id : Transferred(k)

DoneDrain(e) ==
  e.kind = "ok" /\ requests[e.id].op = "drain" => DrainedTo(e.id)

(* The events that were sent, and the one that is next.                    *)
Reported ==
  {callbacks[i] : i \in DOMAIN callbacks}
    \cup (IF pc = "answer" THEN {answer} ELSE {})

DrainsDone == \A e \in Reported : DoneDrain(e)

LEMMA DoneKept ==
  ASSUME Port, [AnyStep]_vars, NEW e, DoneDrain(e),
         e.kind = "ok" => e.id \in 1 .. Len(requests)
  PROVE  DoneDrain(e)'
<1>1. Grows
  BY StepGrows DEF Port, NativeInv
<1>2. SUFFICES ASSUME e.kind = "ok", requests'[e.id].op = "drain",
                      NEW k \in 1 .. e.id
               PROVE  Transferred(k)'
  BY DEF DoneDrain, DrainedTo
<1>3. e.id \in 1 .. Len(requests) /\ Len(requests) \in Nat
  BY <1>1, <1>2 DEF Grows
<1>4. requests'[e.id] = requests[e.id]
  BY <1>1, <1>3 DEF Grows
<1>5. Transferred(k) /\ k \in 1 .. Len(requests)
  BY <1>2, <1>3, <1>4 DEF DoneDrain, DrainedTo
<1> QED
  BY <1>1, <1>5, TransferredKept

(* The completion of the front command.                                    *)
LEMMA RetireDone ==
  ASSUME Port, Task, Retires, answer'.kind = "ok",
         requests[answer'.id].op = "drain"
  PROVE  \A k \in 1 .. answer'.id : Transferred(k)
<1>1. commands # <<>> /\ FrontCommand.id \in Nat
  BY HeadType DEF Retires, Port, NativeInv, Inv, QueueTypes, FrontCommand
<1>2. answer'.id = FrontCommand.id
  BY <1>1, ReplyType DEF Retires, EventKinds
<1>3. requests[FrontCommand.id].op = FrontCommand.op
  BY <1>1, HeldFacts DEF Port, NativeInv, Wire, Matching
<1>4. ~FinishWrite /\ ~Control /\ ~Flush
  BY <1>2, <1>3 DEF FinishWrite, Control, Flush, FrontIs
<1>5. FinishDrain
  BY <1>4
  DEF Retires, Task, Opened, OpenFailed, PublishOpen, CheckStop, LeaveFront,
      StartDrain, SendAnswer, Notified, ReceiveOrdered, ReceiveRead,
      ReceiveCredit, Receivable, PollTransfers, NothingReady, TransferFailed,
      TransferWrite, TransferRead, TransferStream, BurstRead, BurstEnd,
      DropReceiver, MarkStopped, Release, SendClose
<1> QED
  BY <1>5, BarrierStep DEF Port, NativeInv

LEMMA NewReports ==
  ASSUME Port, [AnyStep]_vars, NEW e \in Reported'
  PROVE  \/ e \in Reported \/ e.kind # "ok"
         \/ Task /\ Retires /\ e = answer'
<1>1. callbacks \in Seq(Event)
  BY CreditTypes
<1>2. CASE UNCHANGED <<callbacks, pc, answer>>
  BY <1>2 DEF Reported
<1>3. CASE Task
  <2>1. CASE pc' = "answer" /\ e = answer'
    <3>1. Retires \/ answer'.kind = "busy"
      BY <1>3, <2>1, TaskEffect
      DEF Port, Quiet, PublishOpen, SendAnswer, ReceiveOrdered, ReceiveRead,
          ReceiveCredit, TransferRead, TransferStream, BurstRead, BurstEnd,
          Followers, DropReceiver, SendClose, Send, Reply, NoEvent
    <3> QED
      BY <1>3, <2>1, <3>1
  <2>2. CASE e \in {callbacks'[i] : i \in DOMAIN callbacks'}
    <3>1. CASE callbacks' = callbacks
      BY <2>2, <3>1 DEF Reported
    <3>2. ASSUME NEW x \in Event, callbacks' = Append(callbacks, x),
                 x.kind # "ok" \/ (pc = "answer" /\ x = answer)
          PROVE  e \in Reported \/ e.kind # "ok"
      <4>1. /\ DOMAIN callbacks' = DOMAIN callbacks \cup {Len(callbacks) + 1}
            /\ \A i \in DOMAIN callbacks : callbacks'[i] = callbacks[i]
            /\ callbacks'[Len(callbacks) + 1] = x
        BY <1>1, <3>2
      <4> QED
        BY <2>2, <3>2, <4>1 DEF Reported
    <3>3. \/ callbacks' = callbacks
          \/ \E x \in Event : /\ callbacks' = Append(callbacks, x)
                              /\ x.kind # "ok" \/ (pc = "answer" /\ x = answer)
      BY <1>3, Publication, DataKind DEF Port, NoEvent, SendAnswer
    <3> QED
      BY <3>1, <3>2, <3>3
  <2> QED
    BY <2>1, <2>2 DEF Reported
<1>4. CASE (AnyCall /\ UNCHANGED reactorVars) \/ OfDevice \/ UNCHANGED vars
  <2>1. UNCHANGED <<callbacks, pc, answer>>
    BY <1>4, CallEffect
    DEF Port, OfDevice, Arrive, Transmit, Shift, Lose, vars, nativeVars,
        reactorVars, taskVars
  <2> QED
    BY <1>2, <2>1
<1> QED
  BY <1>3, <1>4 DEF AnyStep

LEMMA NextDrainsDone ==
  ASSUME Port, DrainsDone, [AnyStep]_vars PROVE DrainsDone'
<1>1. ASSUME NEW e \in Reported, e.kind = "ok"
      PROVE  e.id \in 1 .. Len(requests)
  BY <1>1
  DEF Reported, Port, NativeInv, Settling, Answered, Answering, AnswerPlaces,
      IsAnswer
<1>2. ASSUME NEW e \in Reported' PROVE DoneDrain(e)'
  <2>1. CASE e \in Reported
    BY <1>1, <2>1, DoneKept DEF DrainsDone
  <2>2. CASE e.kind # "ok"
    BY <2>2 DEF DoneDrain
  <2>3. CASE Task /\ Retires /\ e = answer'
    <3>1. requests' = requests /\ Grows
      BY <2>3, TaskKeeps, StepGrows DEF jsVars, Port, NativeInv
    <3>2. SUFFICES ASSUME e.kind = "ok", requests[e.id].op = "drain",
                          NEW k \in 1 .. e.id
                   PROVE  Transferred(k)'
      BY <3>1 DEF DoneDrain, DrainedTo
    <3>3. Transferred(k)
      BY <2>3, <3>2, RetireDone
    <3>4. k \in 1 .. Len(requests)
      <4>1. commands # <<>> /\ FrontCommand.id \in Nat
        BY <2>3, HeadType
        DEF Retires, Port, NativeInv, Inv, QueueTypes, FrontCommand
      <4>2. e.id = FrontCommand.id
        BY <2>3, <4>1, ReplyType DEF Retires, EventKinds
      <4>3. FrontCommand.id <= Len(requests) /\ Len(requests) \in Nat
        BY <3>1, <4>1, HeldFacts DEF Port, NativeInv, Grows
      <4> QED
        BY <3>2, <4>1, <4>2, <4>3
    <3> QED
      BY <3>1, <3>3, <3>4, TransferredKept
  <2> QED
    BY <2>1, <2>2, <2>3, NewReports
<1> QED
  BY <1>2 DEF DrainsDone
-----------------------------------------------------------------------------
(* A drain is submitted after every request of the writes that it awaits:  *)
(* no write is in progress then, or the one in progress began later.       *)
Writing == job.active \/ call.step # "none"

DrainRecord == [id : Nat, job : Nat]

Awaits(d) ==
  /\ d.id \in 1 .. Len(requests) /\ requests[d.id].op = "drain"
  /\ d.job <= Len(starts) /\ (Writing => d.job < Len(starts))
  /\ \A id \in CalledBefore(d.job) : id < d.id

DrainCalls ==
  /\ starts \in Seq(Nat) /\ drains \in Seq(Nat) /\ drained \in Seq(DrainRecord)
  /\ \A k \in DOMAIN starts : starts[k] <= NextId
  /\ \A k \in DOMAIN drains : drains[k] <= Len(starts)
  /\ \A d \in {drained[k] : k \in DOMAIN drained} : Awaits(d)

(* What a step does to the writes and the drains that were called.         *)
Grown ==
  requests' = requests \/ \E r \in Requests : requests' = Append(requests, r)

Starting ==
  /\ starts' = Append(starts, NextId) /\ UNCHANGED <<drains, drained>>
  /\ Grown

Going == Writing /\ UNCHANGED drainVars /\ Grown

Steady ==
  /\ UNCHANGED <<starts, drained>> /\ (Writing' => Writing)
  /\ \/ requests' = requests
     \/ \E r \in Requests : requests' = Append(requests, r) /\ r.op # "write"
  /\ \/ drains' = drains
     \/ drains' = Append(drains, Len(starts))

LEMMA StepDrains ==
  ASSUME Port, Room, ordered \in Int, [Next]_allVars
  PROVE  Starting \/ Going \/ Steady \/ DrainContinue
<1>1. Grown
  BY StepPromises
  DEF Port, PromiseStep, NoneAdmitted, OneAdmitted, OneSettled, AllSettled,
      Grown
<1>2. ASSUME UNCHANGED <<requests, starts, drained, drains, call, job>>
      PROVE  Steady
  BY <1>2 DEF Steady, Writing
<1>3. ASSUME NEW sizes, StartWrite(sizes) PROVE Starting
  BY <1>1, <1>3 DEF StartWrite, Starting
<1>4. CASE ContinueWrite
  BY <1>1, <1>4 DEF ContinueWrite, Going, Writing
<1>5. CASE FinishWriteCall
  BY <1>1, <1>5 DEF FinishWriteCall, EnqueueRemainder, Going, Writing
<1>15. CASE AttemptWrite
  BY <1>1, <1>15 DEF AttemptWrite, WriteAttempt, Going, Writing
<1>6. ASSUME NEW op \in OrderedOps \cup {"read"}, NEW size \in Nat,
             op # "write", requests' = Recorded(op, size),
             UNCHANGED <<starts, drained, drains, call, job>>
      PROVE  Steady
  <2> DEFINE r == [op |-> op, size |-> size,
                   state |-> IF Admits(op) THEN "queued" ELSE "refused"]
  <2>1. r \in Requests /\ requests' = Append(requests, r) /\ r.op # "write"
    BY <1>6 DEF Requests, Recorded
  <2> HIDE DEF r
  <2> QED
    BY <1>6, <2>1 DEF Steady, Writing
<1>7. ASSUME NEW op, Operation(op) PROVE Steady
  <2>1. /\ op \in OrderedOps \cup {"read"} /\ op # "write"
        /\ requests' = Recorded(op, 0)
    BY <1>7 DEF Operation, Request, OrderedOps
  <2>2. UNCHANGED <<starts, drained, drains, call, job>>
    BY <1>7 DEF Operation, Request, drainVars
  <2> QED
    BY <1>6, <2>1, <2>2
<1>8. ASSUME NEW size, ReadChunk(size) PROVE Steady
  <2>1. /\ requests' = Recorded("read", Least(size, ChunkSize))
        /\ Least(size, ChunkSize) \in Nat
    BY <1>8, NativeAssumption DEF ReadChunk, ReadRequest
  <2>2. UNCHANGED <<starts, drained, drains, call, job>>
    BY <1>8 DEF ReadChunk, ReadRequest, drainVars
  <2> QED
    BY <1>6, <2>1, <2>2
<1>9. ASSUME NEW length, StartReading(length) PROVE Steady
  <2>1. UNCHANGED <<starts, drained, drains, job>>
    BY <1>9 DEF StartReading, promiseVars, drainVars
  <2>2. UNCHANGED <<requests, call>>
    BY <1>9 DEF StartReading, ReadCredit, nativeVars
  <2> QED
    BY <1>2, <2>1, <2>2
<1>10. CASE DrainCall
  BY <1>10 DEF DrainCall, Steady, Writing, vars, nativeVars, promiseVars
<1>11. CASE Deliver \/ Rest \/ UNCHANGED allVars
  BY <1>2, <1>11 DEF Deliver, Rest, allVars, vars, nativeVars, bindingVars,
                     promiseVars, drainVars
<1>12. CASE CloseCall \/ CancelOpen
  BY <1>2, <1>12 DEF CloseCall, CancelOpen, Close, promiseVars, drainVars
<1>13. CASE Callback
  <2> DEFINE event == callbacks[consumed + 1]
  <2>1. UNCHANGED <<requests, call, starts, drained, drains>>
    BY <1>13 DEF Callback, Consume, drainVars
  <2>2. job'.active => job.active
    <3>1. OnOpen \/ OnData(event) \/ OnReply(event) \/ OnClose
      BY <1>13 DEF Callback
    <3>2. CASE OnOpen \/ OnData(event)
      BY <3>2 DEF OnOpen, OnData, promiseVars
    <3>3. \A vector : ~Broken(vector).active
      BY DEF Broken, NoJob
    <3>4. CASE OnReply(event)
      <4>1. job' = job \/ job.active \/ \E vector : job' = Broken(vector)
        BY <3>4 DEF OnReply, promiseVars
      <4> QED
        BY <3>3, <4>1
    <3>5. CASE OnClose
      BY <3>3, <3>5 DEF OnClose
    <3> QED
      BY <3>1, <3>2, <3>4, <3>5
  <2> QED
    BY <2>1, <2>2 DEF Steady, Writing
<1>14. CASE (Notify \/ Task \/ Device) /\ UNCHANGED bindingVars
  <2>1. UNCHANGED <<requests, call>>
    BY <1>14, TaskKeeps DEF Notify, Device, Arrive, Transmit, Shift, Lose,
                 nativeVars, jsVars
  <2> QED
    BY <1>2, <1>14, <2>1 DEF bindingVars, promiseVars, drainVars
<1> QED
  BY <1>3, <1>4, <1>5, <1>7, <1>8, <1>9, <1>10, <1>11, <1>12, <1>13, <1>14,
     <1>15
  DEF Next, Caller, Pump, Device

(* No write that was not called before the n-th one can still join the     *)
(* writes called before it, unless one of them is in progress.             *)
LEMMA CalledStays ==
  ASSUME Port, DrainCalls, NEW n \in Nat, n <= Len(starts),
         \/ Starting
         \/ starts' = starts /\ Grown /\ n < Len(starts)
         \/ /\ starts' = starts
            /\ \/ requests' = requests
               \/ \E r \in Requests :
                    requests' = Append(requests, r) /\ r.op # "write"
  PROVE  CalledBefore(n)' \subseteq CalledBefore(n)
<1>1. /\ requests \in Seq(Requests) /\ starts \in Seq(Nat)
      /\ DOMAIN requests = 1 .. Len(requests) /\ Len(requests) \in Nat
      /\ DOMAIN starts = 1 .. Len(starts) /\ Len(starts) \in Nat
      /\ NextId = Len(requests) + 1
      /\ \A k \in DOMAIN starts : starts[k] \in Nat /\ starts[k] <= NextId
  BY DEF Port, NativeInv, Inv, QueueTypes, DrainCalls, NextId
<1>2. SUFFICES ASSUME NEW id \in CalledBefore(n)'
               PROVE  id \in CalledBefore(n)
  OBVIOUS
<1>3. /\ id \in DOMAIN requests' /\ requests'[id].op = "write"
      /\ n < Len(starts') => id < starts'[n + 1]
  BY DEF CalledBefore
<1>4. \/ requests' = requests
      \/ \E r \in Requests : requests' = Append(requests, r)
  BY DEF Starting, Grown
<1>5. \/ starts' = starts
      \/ /\ Len(starts') = Len(starts) + 1
         /\ starts'[Len(starts) + 1] = NextId
         /\ \A k \in 1 .. Len(starts) : starts'[k] = starts[k]
  <2>1. starts' = starts \/ starts' = Append(starts, NextId)
    BY DEF Starting
  <2>2. PICK m \in Nat : m = NextId
    BY <1>1
  <2>3. /\ Len(Append(starts, m)) = Len(starts) + 1
        /\ Append(starts, m)[Len(starts) + 1] = m
        /\ \A k \in 1 .. Len(starts) : Append(starts, m)[k] = starts[k]
    BY <1>1, AppendProperties
  <2> QED
    BY <2>1, <2>2, <2>3
<1>6. n < Len(starts) => /\ n < Len(starts') /\ starts'[n + 1] = starts[n + 1]
                         /\ n + 1 \in DOMAIN starts
  BY <1>1, <1>5
<1>7. CASE id \in DOMAIN requests
  <2>1. requests'[id] = requests[id]
    BY <1>1, <1>4, <1>7
  <2> QED
    BY <1>3, <1>6, <1>7, <2>1 DEF CalledBefore
<1>8. CASE id \notin DOMAIN requests
  <2>1. PICK r \in Requests : requests' = Append(requests, r)
    BY <1>3, <1>4, <1>8
  <2>2. id = NextId /\ requests'[id] = r
    <3>1. /\ DOMAIN requests' = 1 .. (Len(requests) + 1)
          /\ requests'[Len(requests) + 1] = r
      <4>1. /\ Append(requests, r) \in Seq(Requests)
            /\ Len(Append(requests, r)) = Len(requests) + 1
            /\ Append(requests, r)[Len(requests) + 1] = r
        BY <1>1, AppendProperties
      <4>2. PICK s \in Seq(Requests) : s = Append(requests, r)
        BY <4>1
      <4>3. DOMAIN s = 1 .. Len(s)
        OBVIOUS
      <4> QED
        BY <2>1, <4>1, <4>2, <4>3
    <3>2. id \in 1 .. (Len(requests) + 1) /\ id \notin 1 .. Len(requests)
      BY <1>1, <1>3, <1>8, <3>1
    <3>3. id = Len(requests) + 1
      BY <1>1, <3>2
    <3> QED
      BY <1>1, <3>1, <3>3
  <2>3. ASSUME n < Len(starts) PROVE FALSE
    <3>1. id < starts[n + 1] /\ n + 1 \in DOMAIN starts
      BY <1>3, <1>6, <2>3
    <3>2. starts[n + 1] \in Nat /\ starts[n + 1] <= NextId /\ NextId \in Nat
      BY <1>1, <3>1
    <3> QED
      BY <2>2, <3>1, <3>2
  <2>4. ~Starting
    <3>1. Starting => n < Len(starts') /\ starts'[n + 1] = NextId
      BY <1>1, <2>3 DEF Starting
    <3> QED
      BY <1>1, <1>3, <2>2, <3>1
  <2>5. \A x \in Requests : requests' = Append(requests, x) => x = r
    <3>1. \A x \in Requests : Append(requests, x)[Len(requests) + 1] = x
      BY <1>1
    <3> QED
      BY <2>1, <3>1
  <2> QED
    BY <1>3, <2>1, <2>2, <2>3, <2>4, <2>5
<1> QED
  BY <1>7, <1>8
(* What a sequence holds after an element is appended.                     *)
LEMMA Appended ==
  ASSUME NEW S, NEW s \in Seq(S), NEW e \in S, NEW t, t = Append(s, e)
  PROVE  /\ t \in Seq(S) /\ Len(t) = Len(s) + 1
         /\ \A k \in DOMAIN t : t[k] = e \/ (k \in DOMAIN s /\ t[k] = s[k])
<1>1. t \in Seq(S) /\ Len(t) = Len(s) + 1 /\ Len(s) \in Nat
  BY AppendProperties
<1>2. \A k \in 1 .. Len(s) : t[k] = s[k]
  BY AppendProperties
<1>3. t[Len(s) + 1] = e
  BY AppendProperties
<1>4. DOMAIN t = 1 .. Len(s) + 1 /\ DOMAIN s = 1 .. Len(s)
  BY <1>1
<1>5. DOMAIN t = DOMAIN s \cup {Len(s) + 1}
  BY <1>1, <1>4
<1> QED
  BY <1>1, <1>2, <1>3, <1>4, <1>5

(* The submission of a drain, once the write it awaits is done.            *)
Submits ==
  \E r \in Requests :
    /\ requests' = Append(requests, r) /\ r.op = "drain"
    /\ drained' = Append(drained, [id |-> NextId, job |-> Head(drains)])

LEMMA ContinueEffect ==
  ASSUME DrainContinue
  PROVE  /\ drains # <<>> /\ drains' = Tail(drains) /\ starts' = starts
         /\ Writing' => Writing
         /\ Writing => Head(drains) < Len(starts)
         /\ UNCHANGED <<requests, drained>> \/ Submits
<1>1. /\ drains # <<>> /\ drains' = Tail(drains) /\ starts' = starts
      /\ job' = job /\ call.step = "none"
      /\ job.active => Head(drains) < Len(starts)
  BY DEF DrainContinue, WriteDone, JsIdle
<1>2. CASE /\ Request("drain")
           /\ drained' = Append(drained, [id |-> NextId, job |-> Head(drains)])
  <2> DEFINE r == [op |-> "drain", size |-> 0,
                   state |-> IF Admits("drain") THEN "queued" ELSE "refused"]
  <2>1. r \in Requests /\ r.op = "drain"
    BY DEF Requests, OrderedOps
  <2>2. requests' = Append(requests, r) /\ call' = call
    BY <1>2 DEF Request, Recorded
  <2> HIDE DEF r
  <2> QED
    BY <1>1, <1>2, <2>1, <2>2 DEF Submits, Writing
<1>3. CASE UNCHANGED <<nativeVars, drained>>
  BY <1>1, <1>3 DEF nativeVars, Writing
<1> QED
  BY <1>2, <1>3 DEF DrainContinue

DrainStep == Starting \/ Going \/ Steady \/ DrainContinue

(* A drain that was submitted keeps what it awaited before it.             *)
LEMMA AwaitsKept ==
  ASSUME Port, Port', Grows, DrainCalls, DrainStep,
         NEW d \in DrainRecord, Awaits(d)
  PROVE  Awaits(d)'
<1>1. /\ d.job \in Nat /\ d.id \in 1 .. Len(requests)
      /\ requests[d.id].op = "drain"
      /\ d.job <= Len(starts) /\ (Writing => d.job < Len(starts))
      /\ \A id \in CalledBefore(d.job) : id < d.id
  BY DEF Awaits, DrainRecord
<1>2. /\ Len(requests) \in Nat /\ Len(requests') \in Nat
      /\ Len(requests) <= Len(requests')
      /\ requests'[d.id] = requests[d.id]
  BY <1>1 DEF Grows
<1>3. starts \in Seq(Nat) /\ Len(starts) \in Nat
  BY DEF DrainCalls
<1>4. CASE Starting
  <2>1. Len(starts') = Len(starts) + 1
    BY <1>3, <1>4 DEF Starting
  <2>2. d.job <= Len(starts') /\ d.job < Len(starts')
    BY <1>1, <1>3, <2>1
  <2>3. CalledBefore(d.job)' \subseteq CalledBefore(d.job)
    BY <1>1, <1>4, CalledStays
  <2> QED
    BY <1>1, <1>2, <2>2, <2>3 DEF Awaits
<1>5. CASE Going
  <2>1. starts' = starts /\ Grown /\ d.job < Len(starts)
    BY <1>1, <1>5 DEF Going, drainVars
  <2>2. CalledBefore(d.job)' \subseteq CalledBefore(d.job)
    BY <1>1, <2>1, CalledStays
  <2> QED
    BY <1>1, <1>2, <2>1, <2>2 DEF Awaits
<1>6. CASE Steady \/ DrainContinue
  <2>1. /\ starts' = starts /\ (Writing' => Writing)
        /\ \/ requests' = requests
           \/ \E r \in Requests :
                requests' = Append(requests, r) /\ r.op # "write"
    BY <1>6, ContinueEffect DEF Steady, Submits
  <2>2. CalledBefore(d.job)' \subseteq CalledBefore(d.job)
    BY <1>1, <2>1, CalledStays
  <2> QED
    BY <1>1, <1>2, <2>1, <2>2 DEF Awaits
<1> QED
  BY <1>4, <1>5, <1>6 DEF DrainStep

LEMMA AwaitsNew ==
  ASSUME Port, Port', Grows, DrainCalls, DrainContinue, Submits,
         NEW d, d = [id |-> NextId, job |-> Head(drains)]
  PROVE  d \in DrainRecord /\ Awaits(d)'
<1>1. /\ drains # <<>> /\ starts' = starts /\ (Writing' => Writing)
      /\ Writing => Head(drains) < Len(starts)
  BY ContinueEffect
<1>2. /\ Head(drains) \in Nat /\ Head(drains) <= Len(starts)
      /\ Len(starts) \in Nat
  <2>1. 1 \in DOMAIN drains /\ Head(drains) = drains[1]
    BY <1>1 DEF DrainCalls
  <2> QED
    BY <2>1 DEF DrainCalls
<1>3. PICK r \in Requests : requests' = Append(requests, r) /\ r.op = "drain"
  BY DEF Submits
<1>4. /\ requests \in Seq(Requests) /\ Len(requests) \in Nat
      /\ NextId = Len(requests) + 1 /\ NextId \in Nat
      /\ DOMAIN requests = 1 .. Len(requests)
  BY DEF Port, NativeInv, Inv, QueueTypes, NextId
<1>5. NextId \in 1 .. Len(requests') /\ requests'[NextId] = r
  BY <1>3, <1>4, AppendProperties
<1>6. PICK n \in Nat : n = Head(drains)
  BY <1>2
<1>7. CalledBefore(n)' \subseteq CalledBefore(n)
  BY <1>1, <1>2, <1>3, <1>6, CalledStays
<1>8. \A id \in CalledBefore(n)' : id < NextId
  BY <1>4, <1>7 DEF CalledBefore
<1>9. d \in DrainRecord /\ d.id = NextId /\ d.job = n
  BY <1>2, <1>4, <1>6 DEF DrainRecord
<1>10. Awaits(d)'
  BY <1>1, <1>2, <1>3, <1>5, <1>6, <1>8, <1>9 DEF Awaits
<1> QED
  BY <1>9, <1>10

LEMMA NextDrainCalls ==
  ASSUME Port, Port', Grows, DrainCalls, DrainStep PROVE DrainCalls'
<1>1. /\ starts \in Seq(Nat) /\ drains \in Seq(Nat)
      /\ drained \in Seq(DrainRecord) /\ Len(starts) \in Nat
      /\ NextId \in Nat /\ NextId' \in Nat /\ NextId <= NextId'
  BY DEF DrainCalls, Grows, NextId
<1>2. starts' = starts \/ starts' = Append(starts, NextId)
  BY ContinueEffect DEF DrainStep, Starting, Going, Steady, drainVars
<1>3. \/ drains' = drains \/ drains' = Append(drains, Len(starts))
      \/ drains # <<>> /\ drains' = Tail(drains)
  BY ContinueEffect DEF DrainStep, Starting, Going, Steady, drainVars
<1>4. drained' = drained \/ (DrainContinue /\ Submits)
  BY ContinueEffect DEF DrainStep, Starting, Going, Steady, drainVars
<1>5. /\ starts' \in Seq(Nat) /\ Len(starts) <= Len(starts')
      /\ \A k \in DOMAIN starts' : starts'[k] <= NextId'
  <2>1. CASE starts' = starts
    <3>1. \A k \in DOMAIN starts : starts[k] \in Nat /\ starts[k] <= NextId
      BY <1>1 DEF DrainCalls
    <3> QED
      BY <1>1, <2>1, <3>1
  <2>2. CASE starts' = Append(starts, NextId)
    <3>1. /\ starts' \in Seq(Nat) /\ Len(starts') = Len(starts) + 1
          /\ \A k \in DOMAIN starts' : \/ starts'[k] = NextId
                                       \/ /\ k \in DOMAIN starts
                                          /\ starts'[k] = starts[k]
      BY <1>1, <2>2, Appended
    <3>2. \A k \in DOMAIN starts : starts[k] \in Nat /\ starts[k] <= NextId
      BY <1>1 DEF DrainCalls
    <3>3. ASSUME NEW k \in DOMAIN starts' PROVE starts'[k] <= NextId'
      <4>1. \A m \in Nat : m <= m
        OBVIOUS
      <4>2. starts'[k] = NextId \/ (k \in DOMAIN starts /\ starts'[k] = starts[k])
        BY <3>1, <3>3
      <4>3. starts'[k] \in Nat /\ starts'[k] <= NextId
        BY <1>1, <3>2, <4>1, <4>2
      <4> QED
        BY <1>1, <4>3
    <3> QED
      BY <1>1, <3>1, <3>3
  <2> QED
    BY <1>2, <2>1, <2>2
<1>6. /\ drains' \in Seq(Nat)
      /\ \A k \in DOMAIN drains' : drains'[k] <= Len(starts)
  <2>1. \A k \in DOMAIN drains : drains[k] \in Nat /\ drains[k] <= Len(starts)
    BY <1>1 DEF DrainCalls
  <2>2. CASE drains' = drains
    BY <1>1, <2>1, <2>2
  <2>3. CASE drains' = Append(drains, Len(starts))
    <3>1. /\ drains' \in Seq(Nat)
          /\ \A k \in DOMAIN drains' : \/ drains'[k] = Len(starts)
                                       \/ /\ k \in DOMAIN drains
                                          /\ drains'[k] = drains[k]
      BY <1>1, <2>3, Appended
    <3> QED
      BY <1>1, <2>1, <3>1
  <2>4. CASE drains # <<>> /\ drains' = Tail(drains)
    BY <1>1, <2>1, <2>4
  <2> QED
    BY <1>3, <2>2, <2>3, <2>4
<1>7. \A k \in DOMAIN drains' : drains'[k] <= Len(starts')
  <2>1. \A k \in DOMAIN drains' : drains'[k] \in Nat
    BY <1>6
  <2>2. Len(starts') \in Nat
    BY <1>5
  <2> QED
    BY <1>1, <1>5, <1>6, <2>1, <2>2
<1>8. ASSUME NEW d \in {drained[k] : k \in DOMAIN drained} PROVE Awaits(d)'
  <2>1. d \in DrainRecord /\ Awaits(d)
    BY <1>1, <1>8 DEF DrainCalls
  <2> QED
    BY <2>1, AwaitsKept
<1>9. /\ drained' \in Seq(DrainRecord)
       /\ \A d \in {drained'[k] : k \in DOMAIN drained'} : Awaits(d)'
  <2>1. CASE drained' = drained
    BY <1>1, <1>8, <2>1
  <2>2. CASE DrainContinue /\ Submits
    <3>1. PICK d : d = [id |-> NextId, job |-> Head(drains)]
      OBVIOUS
    <3>2. d \in DrainRecord /\ Awaits(d)'
      BY <2>2, <3>1, AwaitsNew
    <3>3. drained' = Append(drained, d)
      BY <2>2, <3>1 DEF Submits
    <3>4. /\ drained' \in Seq(DrainRecord)
          /\ \A k \in DOMAIN drained' : \/ drained'[k] = d
                                        \/ /\ k \in DOMAIN drained
                                           /\ drained'[k] = drained[k]
      BY <1>1, <3>2, <3>3, Appended
    <3> QED
      BY <1>8, <3>2, <3>4
  <2> QED
    BY <1>4, <2>1, <2>2
<1> QED
  BY <1>5, <1>6, <1>7, <1>9 DEF DrainCalls

(* A promise that resolved was answered with success.                      *)
Reasons ==
  \A s \in {settled[i] : i \in DOMAIN settled} :
    s.result = "ok" =>
      \E k \in DOMAIN callbacks : /\ callbacks[k].kind = "ok"
                                 /\ callbacks[k].id = s.id

LEMMA NextReasons ==
  ASSUME Port, Promises, Promises', Reasons, [Next]_allVars PROVE Reasons'
<1>1. /\ settled \in Seq(Settlements) /\ callbacks \in Seq(Event)
      /\ consumed \in Nat /\ settled' \in Seq(Settlements)
  BY CreditTypes DEF Promises
<1>2. ASSUME NEW k \in DOMAIN callbacks
      PROVE  k \in DOMAIN callbacks' /\ callbacks'[k] = callbacks[k]
  <2>1. callbacks' = callbacks \/ \E e \in Event : callbacks' = Append(callbacks, e)
    BY ClientFrame, Publication DEF Port
  <2> QED
    BY SMTT(20), <1>1, <2>1
<1>3. ASSUME NEW s \in {settled'[i] : i \in DOMAIN settled'},
             s.result = "ok",
             \/ s \in {settled[i] : i \in DOMAIN settled}
             \/ \E k \in DOMAIN callbacks : /\ callbacks[k].kind = "ok"
                                          /\ callbacks[k].id = s.id
      PROVE  \E k \in DOMAIN callbacks' : /\ callbacks'[k].kind = "ok"
                                         /\ callbacks'[k].id = s.id
  BY <1>2, <1>3 DEF Reasons
<1>4. CASE settled' = settled
  BY <1>3, <1>4 DEF Reasons
<1>5. CASE Callback
  <2> DEFINE event == callbacks[consumed + 1]
  <2>1. consumed + 1 \in DOMAIN callbacks
    BY <1>1, <1>5 DEF Callback, Consume
  <2>2. OnOpen \/ OnData(event) \/ OnReply(event) \/ OnClose
    BY <1>5 DEF Callback
  <2>3. CASE OnOpen \/ OnData(event)
    BY <1>4, <2>3 DEF OnOpen, OnData, promiseVars
  <2>4. CASE OnReply(event)
    <3>1. CASE settled' = Append(settled, Outcome(event.id, event.kind))
      <4>1. PICK o : o = Outcome(event.id, event.kind)
        OBVIOUS
      <4>2. o.id = event.id /\ o.result = event.kind
        BY <4>1 DEF Outcome
      <4>3. o \in Settlements
        <5>1. /\ Len(settled) + 1 \in DOMAIN settled'
              /\ settled'[Len(settled) + 1] = o
          BY <1>1, <3>1, <4>1
        <5> QED
          BY <1>1, <5>1
      <4>4. \A i \in DOMAIN settled' : \/ settled'[i] = o
                                       \/ /\ i \in DOMAIN settled
                                          /\ settled'[i] = settled[i]
        BY <1>1, <3>1, <4>1, <4>3, Appended
      <4> QED
        BY <1>3, <2>1, <4>2, <4>4 DEF Reasons
    <3>2. CASE settled' = settled
      BY <1>4, <3>2
    <3> QED
      BY <2>4, <3>1, <3>2 DEF OnReply, promiseVars
  <2>5. CASE OnClose
    <3>1. /\ pending \subseteq Nat /\ IsFiniteSet(pending) /\ RejectPending
          /\ settled \in Seq(Settlements)
      BY <1>1, <2>5, PendingFacts DEF OnClose, Port, Promises
    <3>2. \A s \in {settled'[i] : i \in DOMAIN settled'} :
            s \in {settled[i] : i \in DOMAIN settled} \/ s.result = "closed"
      BY <3>1, Rejects
    <3> QED
      BY <1>3, <3>2 DEF Reasons
  <2> QED
    BY <2>2, <2>3, <2>4, <2>5
<1>6. settled' = settled \/ Callback
  BY StepPromises DEF Port, Promises, PromiseStep, NoneAdmitted, OneAdmitted
<1> QED
  BY <1>4, <1>5, <1>6
(* What a drain needs beyond the promises: that one which is done, done    *)
(* with everything before it, was submitted after the writes it awaits.    *)
DrainInv == Port /\ Promises /\ DrainsDone /\ DrainCalls /\ Reasons

LEMMA InitDrains == ASSUME BindingInit PROVE DrainInv
<1>1. Port
  BY InitPort DEF BindingInit
<1>2. Promises
  BY InitPromises
<1>3. DrainsDone
  BY DEF BindingInit, Init, InitNative, InitReactor, DrainsDone, Reported,
         DoneDrain, NoEvent
<1>4. DrainCalls
  BY DEF BindingInit, InitBinding, DrainCalls
<1>5. Reasons
  BY DEF BindingInit, InitBinding, Reasons
<1> QED
  BY <1>1, <1>2, <1>3, <1>4, <1>5 DEF DrainInv

LEMMA NextDrains ==
  ASSUME DrainInv, [Next]_allVars PROVE DrainInv'
<1>1. [AnyStep]_vars
  BY NextConforms DEF DrainInv, Port
<1>2. Port'
  BY <1>1, NextPort DEF DrainInv
<1>3. Promises'
  BY NextPromises DEF DrainInv, Port
<1>4. DrainsDone'
  BY <1>1, NextDrainsDone DEF DrainInv
<1>5. Grows
  BY <1>1, StepGrows DEF DrainInv, Port, NativeInv
<1>6. DrainStep
  BY StepDrains DEF DrainInv, Promises, DrainStep
<1>7. DrainCalls'
  BY <1>2, <1>5, <1>6, NextDrainCalls DEF DrainInv
<1>8. Reasons'
  BY <1>3, NextReasons DEF DrainInv
<1> QED
  BY <1>2, <1>3, <1>4, <1>7, <1>8 DEF DrainInv

LEMMA Covering == ASSUME DrainInv PROVE DrainCovers
<1>1. SUFFICES ASSUME NEW d \in {drained[k] : k \in DOMAIN drained},
                      Outcome(d.id, "ok") \in {settled[i] : i \in DOMAIN settled},
                      NEW id \in CalledBefore(d.job)
               PROVE  Transferred(id)
  BY DEF DrainCovers
<1>2. Awaits(d) /\ requests \in Seq(Requests)
  BY <1>1 DEF DrainInv, DrainCalls, Port, NativeInv, Inv, QueueTypes
<1>3. PICK k \in DOMAIN callbacks : /\ callbacks[k].kind = "ok"
                                    /\ callbacks[k].id = d.id
  BY <1>1 DEF DrainInv, Reasons, Outcome
<1>4. DrainedTo(d.id)
  BY <1>2, <1>3 DEF DrainInv, DrainsDone, Reported, DoneDrain, Awaits
<1>5. id \in 1 .. d.id
  BY <1>1, <1>2 DEF Awaits, CalledBefore
<1> QED
  BY <1>4, <1>5 DEF DrainedTo

(* A drain that resolves covers every write that was called before it, all *)
(* the parts of a writev included.                                         *)
THEOREM DrainsCover == Spec => []DrainCovers
<1>1. Spec => []DrainInv
  BY InitDrains, NextDrains, PTL DEF Spec
<1> QED
  BY <1>1, Covering, PTL
=============================================================================

# A TLA+ development of serialport-rs

This directory specifies the concurrent core of the library in `src/`: how a
write, a control operation, a drain, a read or a close travels from a Node
stream through `BindingPort` (TypeScript) and `NativePort` (Rust, JavaScript
thread) to the I/O task of the port (Rust, Tokio worker thread) and back, how
that task learns that it can transfer, how I/O workers are shared and retired,
and how devices are opened and listed on three platforms. TLC checks the modules
on small instances; TLAPS proves the safety of all of it, from the stream and its
parsers and `binding.ts` down to the driver, of wakeups, the worker pool, and
opening and listing devices, for every value of the constants.

## 1. Inventory

| Part | State it keeps | Operations | Interacts with |
| --- | --- | --- | --- |
| `NativePort` (`src/src/lib.rs`, `command.rs`) | `Control`: stop flag, `pending_ops`, session (port behind a mutex), a notification permit; the sending half of the command channel | `new`, `request`, `read`, `read_credit`, `write`, `writev`, `close`, the environment cleanup hook | commands over a bounded `mpsc` channel to the task; `try_lock` on the session for an inline write |
| I/O task (`src/src/reactor.rs`) | received commands, progress of the front write, single-shot read, streaming window, read size | open, execute commands in order, transfers, bursts, physical drain, `Completion::drop` | events over a bounded thread-safe function; the session mutex; the driver |
| Transfer poller (`src/src/transfer.rs`, the I/O of `platform/unix.rs`) | which direction goes first; in Tokio, the readiness it remembers and the wakers | `poll`, `try_read`, `try_write` | called by the task under the mutex; by JavaScript for an inline write; the kernel's edges |
| Worker pool (`src/src/workers.rs`) | weak references to at most `min(CPUs, 4)` workers, a count of ports on each | `acquire`, `spawn`, drop of a lease, drop of a worker | JavaScript threads acquire, worker threads release |
| `BindingPort` (`src/ts/lib/binding.ts`) | `_pending`, `_ordered`, `_reading`, `_streaming`, `_readBytes`, `_readSlots`, `_writing`, `_closing`, `_finished`, `isOpen`, the queue of undelivered reads | `write`, `writev`, `readChunk`, `startReading`, `drain`, controls, `close`, `cancelOpen`, the native callback | calls `NativePort`; promises and hooks to the stream |
| `SerialPortStream` (`src/ts/lib/stream.ts`) | `opening`, `closing`, `port`, the waiting write, requested reads, close callbacks and error | `open`, `close`, `_write`, `_writev`, `_read`, `_destroy`, operations | any binding, Node's stream machinery |
| Mock binding (`src/ts/lib/mock.ts`) | a registry of virtual devices, their data and one pending read | the same interface, `emitData`, `disconnect` | the stream |
| Parsers (`src/ts/lib/parsers`) | the bytes of an incomplete frame | `_transform`, `_flush` | Node's Transform |
| Platform, settings (`src/src/platform*`, `settings.rs`) | descriptors and handles, the settings of the line | open, configure, set and get the rate, drain | the operating system, other programs that use the device |
| Device listing (`ListTask`, `src/src/platform/*_list*`) | the result of one call | enumerate, ids of Linux, locations of macOS, metadata of Windows | the `serialport` crate, the registry, which changes meanwhile |
| Options, loader, version, scripts, benchmarks | none that lasts | | |

What makes it hard:

- *Three agents move at once*: the JavaScript thread, the I/O task (with a
  blocking thread during a drain), and the device. A native call takes several
  steps between which the task moves.
- *Two layers count the same things*: `_ordered` and `_pending` against
  `pending_ops` and the channel; `_readBytes` and `_readSlots` against the
  window of the task. They change at different times and must never disagree
  in a harmful direction.
- *Order*: an inline write must not overtake what was queued; completions must
  be in submission order; a drain is a barrier; close is reported last.
- *Limits*: 64 operations, 32 read events, 64 KiB of credit, a callback queue
  of 128, a worker limit. The task never waits for the callback queue: an event
  that does not fit ends the session.
- *Wakeups*: the kernel reports edges, Tokio remembers readiness that may be
  stale, calls are interrupted, and inline writes and bursts use readiness that
  a later poll relies on.
- *The world outside*: other programs set the line while Windows opens a device
  twice, and drivers change registry strings between the call that asks for
  their size and the one that reads them.
- *Ends*: close, the environment's teardown, a lost device, a failed open and
  cancelled opens may come at any step.

`PROJECT.json` lists the hazards with their lines and the properties that cover
each.

## 2. Modules

| Module | Contents |
| --- | --- |
| `NativePort` | the methods of `NativePort`, `Control`, admission, channel, callback queue, the driver's output queue |
| `Reactor` | the I/O task and the device |
| `AnyClient`, `AnyClientProofs` | both under any client at all; their safety properties and the proofs of them |
| `NativeSystem`, `NativeProofs` | both under a bounded client, without the accounting of `binding.ts`, for TLC; proof that this is a case of `AnyClient` |
| `Transfers` | how the task learns that it can transfer: readiness, wakers, interrupted calls |
| `BindingPort` | the accounting of `binding.ts` on top of `NativePort` and `Reactor` |
| `BindingSystem`, `BindingProofs` | all three under any caller of `BindingPort`; their properties and the proofs of them |
| `WorkerPool` | the pool and its properties |
| `ReadDelivery`, `ReadFifo` | the queue of reads between the native callback and `onData`, and the FIFO it implements |
| `RuntimeProofs` | proofs of `Transfers`, `WorkerPool` and `ReadDelivery`: a task is woken, its worker runs, and what it reads is delivered (`PoolSpec`, `DeliverySpec` and their parts are named for this) |
| `SequenceLemmas` | what the proofs need about flattened sequences, and induction over a set of numbers |
| `SerialStream` | the stream's handlers and continuations over any binding |
| `StreamSystem`, `StreamProofs` | a stream with a user, user code in callbacks, and a binding; their properties and the proofs of them |
| `DelimiterParser`, `PacketLengthParser`, `SlipParser` | parsers over a chunked input, each with the frames of the whole input as its reference; the SLIP encoder |
| `Parsers`, `ParserProofs` | one parser of any kind; the properties of all and their proofs |
| `PortOpening` | opening a device with its settings on Linux, macOS and Windows, and the rate of an open port |
| `PortListing` | listing devices and enriching them with metadata |
| `Platform`, `PlatformProofs` | either of the two; their properties and the proofs of them |
| `MC*` | values for TLC |

### 2.1 NativePort and Reactor

The variables keep the names of the code (`stop`, `pendingOps`, `session`,
`permit` for the permit of `Control.changed`, `channel`, `callbacks`; in the
task `commands`, `written`, `read`, `streaming`, `window`, `writeFirst`). `pc`
is the place of the task between two steps; the comment at the head of
`Reactor` lists its values. `lock` says who holds the session's mutex across
steps: a burst or a physical drain. `call` is the native call in progress. The
check of `stop`, the attempt of a write, and the enqueueing of its remainder are
three steps (`Write`, `WriteAttempt`, `EnqueueRemainder`), between which the
task moves; `writev` also has the snapshot of a JavaScript array
(`WritevSnapshot`), after which it checks again (`WritevRecheck`). The accessors
of such an array may run any code; in the model they may close the port, which
is what the second check is for (lib.rs:327), and make no other call.
`requests`, `granted`, `taken`, `obtained` are histories that the
properties refer to; `callbacks` keeps all events with `consumed` marking how
far JavaScript has come.

Bytes are numbered units, a chunk of input is <<first, length>>, a request's id
is the number of its submission. `update`, `set`, `get` and `getBaudRate` are
one operation `control`, which succeeds or fails: they differ in the values
they carry only. A lost device makes transfers fail, not the task: an idle port
does not notice.

Steps that are merged, and why nothing is lost by it:

- within an inline attempt, the load of `pending_ops`, `try_lock` and
  `try_write`: only JavaScript raises `pending_ops`, so that a load of 0 stays
  right, and the attempt holds the mutex from `try_lock` on;
- execution of a front command, `fetch_sub` on `pending_ops` and the choice of
  the event are one step; sending the event is another one, because between
  them JavaScript may submit (reactor.rs:179-185);
- a transfer, the load of `pending_ops` that decides on a burst, and the first
  event; the length of a burst is otherwise nondeterministic (`BurstEnd`),
  which covers Tokio's cooperative budget;
- `Completion::drop`: the end of `run_open` drops the receiver first, then
  `stop` is set, the session released, and close sent, each a step.

`AnyClient` is these two modules with no caller in particular: any method of
`NativePort` with any arguments, at any time. Its safety properties hold for
whatever uses the native port, so they are stated and proved once;
`NativeSystem`, which bounds the caller for TLC, and `BindingSystem`, in which
the caller is `BindingPort`, are both shown to take no other steps.

### 2.2 Transfers

`Reactor` lets the task transfer whenever a direction is ready; `Transfers`
shows why it comes to know of it. `task` is a poll of `TransferPoller::poll` in
its first or second direction, or between two polls; `ready` and `waker` are
what Tokio's `AsyncFd` keeps for each direction, `events` the edges that its
driver has not seen yet. A call that would block clears the readiness and asks
again (`WouldBlock`, then `NotReady`); one that is interrupted leaves it and
wakes the task itself (`Interrupted`). The inline `try_write` of JavaScript does
not look at the readiness and changes nothing of it, `try_read` in a burst
clears it. Driver and task share a thread, so edges are delivered between polls
only; the kernel moves at any time. The commands of the task are reduced to
whether it wants input and how much output is left, and its poll of the channel
to `Notified`. The amounts are bytes without identity: what is transferred, and
in which order, is the concern of `NativeSystem`.

`passed` counts, for a direction that is wanted, ready and undisturbed, the
transfers of the other one that it waited for; a call of its own that blocks or
is interrupted starts the count again. Tokio's cooperative budget, which makes a
poll pending and wakes the task, acts like an interruption and
is not distinguished.

### 2.3 BindingPort

One module for `binding.ts` over a native port. Every JavaScript action is a
run of one turn of the event loop, so it interleaves with the task and the
device only where a native write has several steps. A write is counted in
`_ordered` before its native call, and taken off again when the attempt
transfers it completely (`AttemptWrite`) or the call fails. `job` is the write or writev
in progress with the requests it has still to make; a `write` is one request, a
`writev` a sequence, each submitted after the previous settled. `drains` are
`drain()` calls that still await `_writePromise`. Microtasks (the loop of a
writev, the continuation of a drain, deliveries of reads) may be delayed past
later callbacks: the model has more interleavings than Node, never fewer.

`FailsOnlyWithDevice` says what the limits and the credit are for on the way back:
an open session ends with an error only when the device is lost, and no event
ever finds the callback queue full (`EventsFit`). The second part is not implied
by the first: a task that cannot queue an event ends without an error
(reactor.rs:34-41). It needs that the queue (128, lib.rs:191) is larger than the
limit on promises and the slots together (64 and 32).

`_finishClose` rejects what is pending in the order of the map, which is that of
the ids (`Ascending`).

`cancelOpen` has no condition, and `CancelOpen` has none; `BindingSystem` only
does not repeat it (`~closing`), and a stop of a port that has ended changes
nothing.

`LayersAgree` says what the two limits are for: what `BindingPort` submits is
refused by a stop or by a task that has ended, and never for want of room, in
the channel or in `pending_ops`. This needs `JsPending <= MaxPending` (both are
64, binding.ts:230 and lib.rs:34), and that the room in the channel for
`ReadSlots` more commands covers the grants of credit and the single-shot read.

Reads wait in one FIFO (`backlog`) and are delivered one chunk per step; that
the code's queue, with the retention of a batch after a listener throws, is such
a FIFO is what `ReadDelivery` shows. The allocation failure of an event
(binding.ts:138-141) is not modelled.
The 32-bit wrap of request ids is not modelled: ids of pending operations are
skipped, and at most 64 are pending.

### 2.4 WorkerPool

`acquire` holds the pool's mutex from `Lock` to `Unlock`; between them leases
are dropped on the worker threads, so each load is its own step (`Scan`). A
reference to a worker is a lease or an upgrade by the call of `acquire` in
progress (`active`); a worker without references stops. An element of
`Workers` may stand for another worker once the former one's thread has ended.

### 2.5 ReadDelivery

`pendingRead`, `queuedReads` and the number of scheduled runs of `deliverRead`
(binding.ts:109-172). A run delivers all chunks of the head event, or up to the
one whose listener throws or closes. `ReadFifo` is the promise: chunks come out
in order, once, until the port is closed; the mapping takes the head followed by
the queue as its content.

### 2.6 SerialStream

A stream goes through several sessions, each a call of the binding's `open` and
the port that it gives. `sessions` and `promises` are the binding: whether a
port still regards itself as open, whether its hooks are set, and the promises
that the stream awaits; they settle in any order. A handler is one step, unless
it calls user code: `todo` is the rest of the handler then, and the user may
call the stream before it goes on. `writing`, `errored` and `reading` are what
Node's stream machinery knows: one `_write` at a time, none after an error, and
`_read` again only after a push. Node calls a write's callback synchronously
when it is given an error outside of `_write`; this is why a waiting write that
a failed open rejects runs user code in the middle of the handler
(stream.ts:196).

The passing runs let that user code do everything but open the stream again;
`StreamReopen` allows it and shows that the handler of the failed open, which
looks at `closing` only afterwards (stream.ts:197), completes a close that was
meant for the second open: its callback reports success, and the second open
goes on. A binding with `cancel` then rejects it; with one without, the port
opens although it was closed. test/serial.test.ts:290 names the promise: "close
during opening cancels without a stray open".

The reason with which the hook of a lost port ends the session (stream.ts:164-166)
is left out: the model calls the callbacks of that close successful, for which
`CloseHonored` demands the most. `_finishClose` takes the hooks off the port that
it lets go, so no hook of a former port is called in the model, and the comparison
at stream.ts:163 never fails there; what `StaleIgnored` covers of former ports are
results and errors of their promises.

The early return of `_finishClose` (stream.ts:256) is in the model and is never
taken: its callers have checked the same before.

`Update` stands for all operations of an open port: the one whose continuation
changes the stream, because it stores the rate. `OperationResolved` does so only
while the port that was asked is still the one of the stream; `baudRate` is the
call that set it last, and `StaleIgnored` holds it fixed against promises of
former ports.

`IsOpen` is that of stream.ts. A read that a binding rejects as canceled while
the stream is still open on that port is excluded: the stream would wait for
another `_read`, and bindings cancel reads only when they close.

### 2.7 Parsers

`bytes` is what the `ByteQueue` holds, as a sequence; how the queue keeps it in
chunks is left out. A chunk is taken by `Transform`, and the rounds of the loop
of `_transform` are steps. A limit that cannot be reached stands for the absence
of `maxFrameLength`. Every module ends with a reference that looks at the bytes
of all chunks together, by positions, and not at the state of the parser.

- `DelimiterParser`: `Find` has the three phases of `DelimiterMatcher.find`: a
  match of earlier chunks is followed byte by byte (`Resumed`), the rest is
  searched (`EndsIn`), and the last bytes advance the matcher (`Suffix`). `Match`
  is the loop that the constructor, which computes the prefix table, and
  `#advance` share. The reference (`LastEnd`) takes an occurrence of the delimiter
  for an end if it begins after the end before it.
- `PacketLengthParser`: `Seek`, `Measure` and `Emit` are the loop; `Needed` says
  where it breaks for want of bytes. The reference (`Parsed`) gives the packets
  from a position of the input on.
- `SlipParser`: the byte loop, one action per branch. The search in plain chunks
  of 256 bytes or more (slip.ts:94-104) has the same effect and is not
  distinguished. `RoundTrip` composes the encoder with the reference, which
  `FramesExact` ties to the decoder. The reference says of each position what is
  escaped, where frames end and what is data (`EscapedAt`, `EndsAt`, `BadAt`,
  `IsData`), and a frame collects the data between two ends (`FrameAt`). A START without ESC_START is not escaped by
  the encoder; messages that contain it are excluded (`Encodable`).

`Parsers` chooses the kind in its initial state; the variables that belong to
the other kinds keep a fixed value.

### 2.8 PortOpening, PortListing, Platform

`PortOpening` follows `settings::open` from check to rate, one step per system
call, each of which may fail (`Fails`). `line` is the state of the device's
settings, which other programs may change while nobody keeps them out
(`OtherProgram`); a port whose line was used by another program while it was
open (`disturbed`) promises nothing about it. The calls of the `serialport`
crate are modelled by what they set: `Built` has only one kind of flow control
and none of IXANY, HUPCL and CMSPAR, which `Configure` adds afterwards.

- Linux and macOS: `TTYPort::open` with the rate; on macOS, a device whose
  driver has no `IOSSIOSPEED` rejects it when all else is set, and
  `platform::open` opens once more with the rate 0. `stored` is the rate that
  `TTYPort` remembers; 0 makes it ask termios (`BaudRate`), and termios may have
  lost a custom speed when `Configure` wrote its attributes (`SpeedsAfter`).
- Windows: `COMPort` sets and saves the DCB (`saved`), is closed, and the device
  is opened again for overlapped I/O. In between it is free, so `RestoreState`
  writes the saved state, and `Configure` the options on top of it. The handle
  is then duplicated, and both become raw handles, each of which passes to another
  owner (windows.rs:83-94). `handles` are those that are open, `Owned` those that
  the locals of the open own at each place and close if the call there fails;
  `OpeningExact` says that nothing is closed twice and that nothing remains. That
  Tokio closes the raw handle when its registration fails is taken from the comment
  at windows.rs:92.

`PortListing` is `ListTask::compute`. The result of the crate is mapped (ids of
`/dev/serial/by-id` in the order of their names, the `LocationId` of macOS from
the crate's bus and ports), and on Windows every device of every class is looked
at: its name selects the port, its ids and strings are applied to it. Strings
are read in two calls, `Probe` for the size and `ReadValue`; `Change` lets a
driver change the property that is looked up next, before or between them
(changes of other properties have no effect before they are looked up). Any
lookup may fail. A string is a sequence of letters with its terminator, and an
id, which `usb_identity` parses, is a record of what it tells. `held` keeps, for
each property of each device, every value that it has had.

The code sorts the result by path (lib.rs:449); `Order` lists the paths in that
order, and `Sorted` is the ascending rearrangement.

`Platform` chooses which of the two a behavior is about.

## 3. Runs

Deadlock is checked in every run but `Transfers`, where a port that is idle or
has ended really stops. Elsewhere, states in which the system has come to its
end carry an explicit stuttering action (`Finished`, `Rest`, `Idle`, `Quiet`,
`Stopped`, `Over`, `Listed`).

| Run | Question | Bounds |
| --- | --- | --- |
| `NativeOutput` | admission, order on the wire, order of answers, drain as a barrier; after a stop nothing is written but by what had looked before it, and the descriptor goes before the close event, under close, loss, a nested close in writev and an overflow | 3 requests, limit 2, driver queue of 2, callback queue of 2, writes of 0 and 3 units: a write is split between inline and queued and the limit is reached |
| `NativeFinish` | input flows behind a full backlog and a device that takes nothing; if it takes output, a stop (here the teardown of the environment; `BindingFinish` has close) ends the task and admitted requests finish | limit 1, 2 requests of write, drain and read, 2 slots, 2 input units, so that a burst has a follower |
| `Transfers` | no wakeup is lost; directions take turns; one that is always interrupted does not stop the other | output queue of 3, reads of 1, 3 input units, 3 writes of 2: a write is completed inline, in part or not at all |
| `BindingOutput` | the two layers agree on admission and on what is ordered; drain; completion order | JS limit and native limit 2, 3 requests, writev of two requests |
| `BindingReads` | no input lost or reordered in reads and bursts, device lost at any point; credit agreement, sessions fail only with the device and never by a full callback queue, input flows | 1 request (write or single-shot read), windows of 2 and 8, 3 slots, 5 input units: with the large window, single units use up the slots while bytes and input are left; a callback queue of 5, the least that `BindingAssumption` allows |
| `BindingFinish` | close, cancel, loss; promises settle once and in the end, close resolves | 2 requests, a writev of two, a drain |
| `ReadDelivery` | the delivery queue implements a FIFO, covers every event, returns every slot | events of 1 to 3 chunks, 9 chunks |
| `StreamLife` | callbacks once and (of open, close and destroy) always, close honored, no port left behind, late results ignored, reads and the waiting write resumed | 2 sessions, 4 calls of open, close, destroy, write, update; reads; calls from callbacks; bindings with promises or with streaming, which may refuse to close |
| `StreamReopen` | shows the stray open of 2.6 (expected violation) | 2 sessions, 4 calls |
| `Parsers` | frames and limits do not depend on chunk boundaries; SLIP messages come back from their encoding | chunks of up to 3 bytes; delimiters of one to four bytes with and without borders over two letters, inputs of up to 6; four packet formats, inputs of up to 6 of three bytes; four SLIP codings, inputs of up to 4 of six bytes |
| `Platform` | an open port has its settings and handles exactly, a failed one none; listed strings are whole, identities those of one device, no port is lost | all options over two to four values each, another program with four states of the line, 3 operations; two ports, three devices in two classes, two of one name, 2 changes of the registry, strings of up to 4 letters and a limit of 4 |
| `Workers` | workers in use, their number, their counts, their end | three ports, three workers alive or ending, limit 2 |

The limits are scaled down together (64 to 2, 32 to 1-3, 64 KiB to 4 or 8); what
matters is that each is reached and that the relations between them that the
code relies on are kept: the channel holds `MaxPending + ReadSlots`, the limit
of `binding.ts` is not above that of the native side
and the callback queue is larger than the limit on promises and the slots together
(`BindingAssumption`), except in `NativeOutput`, where it is meant to overflow.
Read sizes start at 2 with a maximum of 4 or 8, so that they both double and
shrink. `InputFlows` is checked with windows of two lengths, and 5 input units
for 3 slots: a grant that looked at the bytes only (`BytesOnly`) would leave input
waiting for a slot for ever.

## 4. Fairness

- The task and the pending half of a native call are weakly fair: a Tokio
  worker and the JavaScript thread keep running. So are `Notify` and the
  callback: `uv_async` wakes the event loop.
- `Shift`: the UART sends what it holds, since it has left flow control behind.
- `Transmit`, the device taking output, is not fair in `NativeSystem`:
  `ReadsFlow` holds without it. `StopEnds` and `RequestsFinish` assume it
  (`Sends`), as does `FairSpec` of `BindingSystem`; docs/architecture.md:49
  says that a blocked drain may delay close.
- `PullingSpec` adds that the stream asks again (`startReading`) as long as it
  is open, as Node's Readable calls `_read` after every push until it is full.
- In `StreamSystem` the binding settles each open and close of each session
  (strong fairness: a promise that is settled while a handler runs keeps its
  place among the microtasks), and a handler goes on when user code returns.
- In `Transfers`, a task that was woken is polled, and the driver hears of edges
  again and again: Tokio runs it after a bounded number of task polls, even when
  tasks wake themselves, hence strong fairness of `Deliver`. The line sends.
- A lease that is being dropped is dropped, and a worker without references
  ends.

## 5. Proofs

Every theorem holds for all values of the constants that satisfy the
assumptions of the modules:

- limits are positive (`NativeAssumption`, `ReactorAssumption`, the assumptions of
  the other modules), read sizes are powers of two between the smallest and the
  chunk size (at most 64 KiB), `JsPending <= MaxPending`, and
  `JsPending + ReadSlots < CallbackCap`. Nothing is assumed
  of the clients of `AnyClient`; the callers of `BindingPort` write sequences of
  any lengths (`CallerAssumption`);
- `OpeningAssumption`: platforms are the three that are implemented, options and
  lines are of their types; which of the options a platform accepts is not
  assumed, the model checks it;
- `ListingAssumption`: the ports of the crate have different paths (they are
  names of device files and of COM ports), only Linux has `/dev/serial/by-id`,
  IOKit has eight hexadecimal digits for a location, capitals have no other
  capital, and the size of a string in the registry is that of its text when it
  is even. Values, changes, classes and devices are otherwise arbitrary.

### 5.1 The native port: AnyClientProofs, NativeProofs

| Theorem | Property |
| --- | --- |
| `NativeTypes` | `TypeOK` |
| `AdmissionExact` | `Admission` |
| `OrderOnTheWire` | `WireOrder` |
| `AnswersInOrder` | `AnswersExact` |
| `DrainIsBarrier` | `DrainBarrier` |
| `SilentAfterStop` | `StopForbidsWrites` |
| `ReleasedBeforeClose` | `ReleasedAtClose` |
| `NativeSafe` | all of them, of `NativeSystem` |

The invariant is built in layers, each of which needs the ones before it.

1. `Inv`. That `pendingOps` is the number of the ordered commands which are held
   is not inductive: removing a front command lowers the cardinality only if its
   id occurs nowhere else. So `Submission` says that ids increase from the front
   of the task's commands to the end of the channel and stay below the next id,
   and `Places` where the task has no commands or has dropped the receiver.
2. `Shape`. A window that is used while the task streams never goes below zero
   only because a burst runs while the task streams (`Reading`), and the read
   size keeps its range because it is a power of two times the smallest.
3. `Closing`. What the end of the task has done at each of its steps; with it,
   the close event is last and comes after the release. `Overtaken` says when a
   call that has looked at `stop` may find it set at its attempt: only while the
   task ends, since JavaScript sets it in no such place. Then, until the session
   is released (reactor.rs:53-61), the attempt still reaches the device
   (reactor.rs:51 falls between lib.rs:260 and 268, for instance after an
   overflow of the callback queue with the device alive); this is why
   `StopForbidsWrites` names two things that may still write: the transfer that
   the task was polling when JavaScript stopped it, and this attempt. No call
   reaches its attempt if it looks after the stop, a writev that its array has
   closed included.
4. `Wire`. `WireOrder` looks at what the driver has accepted. That the next unit
   is in its place needs four facts: a held command is the request of its id
   (`Matching`); the last accepted unit is where the front write resumes, and
   where every held one that has not begun may start (`Partial`); a write that was
   split by an inline attempt is the last one, with nothing held, until its
   remainder is enqueued (`Remainder`); and every request is with the driver or
   held (`Accounted`). The last one has the case that made it hard: commands that
   are dropped with the receiver are neither, and it is `pending_ops`, which the
   end of the task leaves above zero, that keeps a later inline attempt away.
5. `Settling`. The admitted requests, as long as the task runs, are those that
   were answered, the one whose answer is being sent, and those held, and ids
   increase in this order. `AnswersExact` follows with `WireOrder`.

### 5.2 BindingPort: BindingProofs

| Theorem | Property |
| --- | --- |
| `BindingConforms` | every step is one of `AnyClient`, so 5.1 applies |
| `SettlesOnce` | `SettledOnce` |
| `CompletesInOrder` | `CompletionOrder` |
| `CreditIsExact` | `CreditAgreed` |
| `LayersInStep` | `LayersAgree` |
| `FailsRightly` | `FailsOnlyWithDevice` |
| `InputConserved` | `ReadsConserved` |
| `DrainsCover` | `DrainCovers` |

- `Port` is 5.1 and what it says of events and ids that a client sees: ids of
  reads are ids of read requests, open is the first event, an answered request is
  not held (`Parted`).
- `Promises` gives `SettledOnce`. `_ordered` is one too high between the two
  halves of a write, before its promise exists: `Offset` is `ordered` without it,
  and equals the number of unsettled ordered promises. `CompletesInOrder` follows,
  because `AllowInline` looks at `_ordered`. `Room` says that a write whose
  first half found room still has it for the second.
- `Reads`: there is one single-shot read at a time, which is in the channel, with
  the task or in the callback queue, and JavaScript knows of it while it is
  (`OneRead`); and it is exclusive with credit in the channel, so that the task is
  never `busy` (`Exclusive`).
- `Ledger` gives `CreditAgreed`. The credit of JavaScript is exact only while the
  task runs; afterwards what is outstanding is at most what JavaScript counts
  (`Covered`), which is what the later deliveries need, to return no more credit
  than is counted. A step of the task moves credit and data between the channel,
  the window, the burst and the callback queue and changes no sum (`Balance`), and
  ends it only downwards.
- `Refusals` gives `LayersAgree`: commands that are held are pending in
  JavaScript (`Kept`), so a place is free in `pending_ops`; and the commands in the
  channel which are not ordered are at most one read, or grants of credit with one
  slot each, of which the ledger leaves no more than `ReadSlots`.
- `Failing` gives `FailsOnlyWithDevice`: a task that streams ends with an error
  only for the device, for a grant that does not fit the window, which the ledger
  excludes, or for a read that meets a stream, which `Exclusive` does. For
  `EventsFit`, each unread event is charged to something that is limited: a reply
  answers a promise that is still pending, each another one (`Awaited`), and an
  event of input carries a chunk (`Filled`), which holds a slot that JavaScript
  counts. Nothing is pending while the open event is unread (`Few`). A task that
  is about to send has a promise or a slot that no unread event has taken yet.
- `Conserved` gives `ReadsConserved`: what was obtained is what the callbacks
  carry followed by the burst, also when the device fails within a burst; only an
  overflow of the callback queue leaves a rest, which was obtained last.
- `DrainInv` gives `DrainCovers`. It joins three things that happen at different
  times. A drain is submitted after all requests of the writes it awaits: none of
  them is in progress any more (`DrainCalls`). A drain with a successful answer has
  everything before it transferred (`DrainsDone`, by `DrainBarrier` at the step
  that answered it). And a promise that resolved was answered with success, not by
  the close (`Reasons`).

### 5.3 The task, its worker, and the delivery of reads

`RuntimeProofs`, of the pool: `Served`, `BoundedWorkers`, `ExactLoads` and
`SharedAtLimit` for any finite sets of ports and workers and any limit. The
invariant says that only references that `acquire` holds or that ports lease
keep a worker, that every alive worker is in the pool (so an upgrade of the pool
finds all of them, which bounds their number), and that the recorded least load
belongs to a worker that is referenced.

Of the task, for any sizes and any number of bytes and writes:

- `WakeupsKept`: `Spec => []NoLostWakeup`. That a task sleeps only when it will be
  woken is not inductive: it depends on what the poll did before. The invariant
  adds that whatever the kernel can do is remembered, as readiness or as an edge
  on its way (`EdgesKept`), that the second half of a poll finds the first
  direction asked for unless the poll has woken its own task (`AskedFirst`), and
  that a parked task has asked for both (`AskedBoth`).
- `TurnsTaken`: `Spec => []Alternates`. A direction that was passed over once is
  the one that `writeFirst` names, and the second half of a poll is reached only
  past a direction that did not wait.

Of the delivery of reads, for batches of any sizes:

- `Coverage`: `Spec => []Covered`. The invariant states when there is a head at
  all, the types of the queue, and that the number of scheduled runs is at least
  the number of events; a run that a throwing listener ends uses up its microtask
  and gives the retained rest a new one, and an event is never empty.
- `SlotsConserved`: `Spec => []SlotsReturned`.
- `DeliveryIsFifo`: `Spec => ImplementsFifo`, the refinement of `ReadFifo`. The
  head of the queue followed by the rest is the content of the FIFO; a run that
  delivers a part of the head is one step of the FIFO that takes as many chunks.

### 5.4 The stream: StreamProofs

| Theorem | Property |
| --- | --- |
| `StreamTyped` | `StreamTypes` |
| `StreamLeaksNoPort` | `NoLeak` |
| `StreamIgnoresStale` | `StaleIgnored` |
| `StreamForgetsNothing` | `NothingForgotten` |
| `StreamRepliesOnce` | `RepliedOnce` |
| `StreamHonorsClose` | `CloseHonored`, if no callback opens the stream again |

They hold for any number of sessions and calls, any bindings and any user code in
callbacks, except where the table says otherwise.

- `PortIsOpen` relates `port`, `opening` and `closing` to what the binding knows of
  each session. That the last session is the only one that may be open is kept
  by the reports of failures, too: one is left only when there is no port
  (`FailureHasNoPort`).
- `OneKind`: a binding streams in all sessions or in none, so an awaited read is
  one of a binding with promises. With it `StaleIgnored` needs only what each
  continuation compares.
- `ServeInv`: an open port has what Node waits for, unless the handler that made
  it open has not resumed yet; `readRequested` remembers the read until then, and
  a port that is asked has a promise (`ReadOutstanding`).
- `RepliedOnce` compares calls that are answered with each other, and is not
  inductive, because a call that is answered could still be owed an answer
  elsewhere. `Ledger` says that there is a function from calls to places - a reply,
  the rest of a handler, the callbacks of a close, an open, a promise, the waiting
  write - such that whoever holds a call is its place: a call in two places would
  have two values. Each handler moves calls between places (`Stay` keeps the
  others).
- `HonorInv` gives `CloseHonored`: whoever answers a close with success, or holds it
  to do so, has seen its session end, and an ended session does not open again.
  A failed open is reported before another one begins (`FailuresFirst`). The
  hypothesis `"nested" \notin Calls` is needed: it is the case of `StreamReopen`
  (2.6), which shows what happens without it.

### 5.5 Opening and listing: PlatformProofs

| Theorem | Property |
| --- | --- |
| `OpensExactly` | `OpeningExact` |
| `ListsExactly` | `ListingExact` |

`OpensExactly`: where an open can be, by platform (`Place`); which handles there are
at each place (`HandlesAt`); who keeps other programs out, and that the line can
have been disturbed only while a handle that is not exclusive is open
(`Keeping`); what has been set of the options up to each place, in the line or, on
Windows between the two opens, in the saved state (`SetSoFar`); and what the rate
of an open port is, with `stored` either the rate or 0 (`RateKnown`). The second
open of macOS and the state that Windows restores are the cases for which the
invariant names places at all.

`ListsExactly` is for any number of ports, classes, devices and changes, any
strings, and any orders of failures. `ListInv` says that every value of the
registry was heard of (`Registered`), that what was noted is of the device that
is looked at (`Noted`), that this device has the name of the port it was matched
with (`Selected`), and, of each port, that its strings were heard in full from
a device of its name or are those of the crate (`Whole`), that its identity is
that of one device (`Identified`) and agrees with its own id (`Own`). The proof
rests on three facts about the code's conversions:

- `ReadSays`: a value that was read with the room that a former call asked for is
  returned only if it is complete, also when it became shorter or longer
  meanwhile;
- `LocationIs`: the location computed from the crate's bus and ports has the
  digits that IOKit had (`macos_list` undoes what the crate did to them);
- `Arrangement`: numbers that are all different can be put in ascending order,
  so the sorted result exists; without it, `CHOOSE` would promise nothing. This
  is where the assumption on paths is used.

### 5.6 The parsers: ParserProofs

| Theorem | Property |
| --- | --- |
| `FramesAlwaysExact` | `FramesExact`: frames, rest and limits of all three parsers |
| `MessagesRoundTrip` | `RoundTrip`: SLIP messages |

For any input in any division into chunks, any delimiters, packet formats, SLIP
codes that satisfy `ParserAssumption`, and any limits. `ParserInv` has an
invariant for each parser, which relates its state to a reference read up to the
byte that the parser has reached; the work is to show what one byte, or one
delimiter, adds to the reference.

- `PacketInv`: the packets of the input are those that were emitted, followed by
  those that the reference finds from the position after them (`Progress`),
  and this whatever bytes are still to come, which is why the invariant
  quantifies over them: a packet is not emitted before the reference is sure of
  it. `KnowsHead` says what `started` and `length` know of the bytes at the
  head.
- `SlipInv`: `escaped` and `started` are what the reference says of the next
  position, the output is its frames, and `bytes` with `decoded` is its rest
  (`Follows`). `FramesAppend` and `FrameAppend` say what a byte adds to the frames
  and the rest, after what it does to each of the definitions by position. A
  decoder that failed did so for its rest, or for a frame that the byte completed
  (`HasFailed`). `EncodedIsRead` follows the decoder through the encoding of a
  message, byte by byte, which gives `RoundTrip`.
- `DelimitedInv`: `matched` is the greatest number of bytes before the position,
  none of them before the last end, that the delimiter begins with (`Longest`);
  the output is the reference's frames, and `bytes` its rest. This is the
  correctness of a Knuth-Morris-Pratt matcher: `FallFinds` says that falling back
  through the table misses no shorter match, `TableFacts` that the table has the
  longest borders, `AdvanceGrows` that one more byte keeps `Longest`. `FindFinds`
  then covers the three phases of `find`: up to the end it returns no delimiter
  ends (`Quiet`), or no delimiter ends in the chunk and what is matched is again
  the longest. That the prefix of a delimiter at the end of a chunk does not
  count towards the limit is `PendingBytes`; the reference has it as
  `Partial`, and both are the same number because no end lies in between.

### 5.7 Lemmas and induction

Sums over sequences (`Total`, `Bytes`) and `FlattenSeq` are defined by
recursive functions. The facts about them (an element appended, the first one
taken, two sequences joined) are proved for every sequence, by induction over a
set of numbers (`SequenceLemmas!SetInduction`): `NaturalsInduction` states it
for an operator, which cannot be instantiated, and a set of numbers serves as well,
by way of the least number that is not in it. The recursive references of the
parsers (`LastEnd`, `Parsed`, `EscapedAt`) and the table of the matcher are unfolded
once and treated likewise. `Arrangement` is proved in the same way, over
the length of the sequence: the last element takes its place among the others,
which are arranged. Lemmas about steps are stated for
the effect of a step where several actions share it (`TaskEffect`, `StepDrains`,
`PromiseStep`), so that the cases are split once.

### 5.8 Only model-checked

- Everything with fairness (`StopEnds`, `RequestsFinish`, `ReadsFlow`,
  `InputFlows`, `Settles`, `Retires`, `BothMove`, `Answered`): liveness and
  `ENABLED` are outside what the prover does.
- That a failed open whose callback reopens the stream breaks `CloseHonored`
  (`StreamReopen`): a violation is a behavior, which TLC exhibits.

## 6. Plan

1. An abstract binding that both `BindingSystem` and the binding of
   `StreamSystem` agree with.
2. `drain` of the stream, which first waits for its write, and refused calls;
   `read` into a buffer in `BindingPort`; failed allocations.
3. `MockBinding` against the same abstract binding.
4. The parsers that keep time or counts: inter-byte timeout and ccTalk.

## 7. Not modelled

- The values of settings and modem lines on an open port, and the partial
  effects of `set` (reactor.rs:413-420): the code reports the error and
  promises nothing of the lines.
- The overlapped I/O of Windows: its buffers and completions belong to Tokio.
  The deeper structure of the list handles of SetupAPI, which are released when
  they go out of scope, is left out of `PortListing`.
- An allocation that fails for one read event (binding.ts:138-141), and
  `read` into a caller's buffer.
- `MockBinding`, the parsers that only count or keep time, options, loading and
  versions, which are sequential checks; scripts and benchmarks are tooling.

------------------------------ MODULE Transfers ------------------------------
(***************************************************************************)
(* How the task of a port finds out that it can transfer (transfer.rs and  *)
(* the AsyncRead, AsyncWrite of unix.rs): Reactor.tla says that a ready    *)
(* direction is transferred, this module how the task comes to know of it. *)
(* The kernel reports edges to the I/O driver of Tokio, which remembers a  *)
(* readiness for each direction until a call finds it wrong, and wakes the *)
(* task that asked for it.  Driver and task share one thread, so events    *)
(* are delivered between two polls; the kernel and the JavaScript thread   *)
(* move at any time.  Calls in an `interrupted' direction may return EINTR *)
(* any number of times.                                                    *)
(***************************************************************************)
EXTENDS Naturals

CONSTANTS
  Capacity,   \* the output queue of the driver
  ReadSize,   \* the bytes that one read takes at most
  MaxInput,   \* bound: the bytes that arrive
  MaxWrites   \* bound: the writes that JavaScript makes

ASSUME TransferAssumption ==
  /\ Capacity \in Nat \ {0} /\ ReadSize \in Nat \ {0}
  /\ MaxInput \in Nat /\ MaxWrites \in Nat

VARIABLES
  task,        \* "parked", "woken", in the "first" or "second" direction of
               \* a poll, in a "burst", or "ended"
  again,       \* the poll woke its own task
  writeFirst,  \* TransferPoller.write_first
  ready,       \* the readiness that Tokio remembers
  waker,       \* the directions in which the task is woken
  events,      \* edges that the driver has not seen yet
  reading,     \* JavaScript wants input
  remaining,   \* of the write at the front
  input,       \* bytes to be read
  room,        \* free bytes of the output queue
  gone,
  interrupted,
  passed,      \* history: transfers of the other direction that this one,
               \* wanted, ready and undisturbed, has waited for
  arrived, writes

vars == <<task, again, writeFirst, ready, waker, events, reading, remaining,
          input, room, gone, interrupted, passed, arrived, writes>>

Directions == {"read", "write"}
Other(d) == IF d = "read" THEN "write" ELSE "read"
Least(a, b) == IF a <= b THEN a ELSE b

(* A registered descriptor reports what it is ready for at once.           *)
Init ==
  /\ task = "parked" /\ again = FALSE /\ writeFirst = FALSE
  /\ ready = {} /\ waker = {} /\ events = {"write"}
  /\ reading = FALSE /\ remaining = 0 /\ input = 0 /\ room = Capacity
  /\ gone = FALSE /\ interrupted \in SUBSET Directions
  /\ passed = [d \in Directions |-> 0]
  /\ arrived = 0 /\ writes = 0

Wanted(d) == IF d = "read" THEN reading ELSE remaining > 0
Possible(d) == gone \/ IF d = "read" THEN input > 0 ELSE room > 0

-----------------------------------------------------------------------------
(* TransferPoller::poll: both directions, one after the other, until one   *)
(* is not pending.                                                         *)
Poll ==
  /\ task = "woken"
  /\ task' = "first" /\ again' = FALSE
  /\ UNCHANGED <<writeFirst, ready, waker, events, reading, remaining, input,
                 room, gone, interrupted, passed, arrived, writes>>

AtRead == task = IF writeFirst THEN "second" ELSE "first"

Direction == IF AtRead THEN "read" ELSE "write"

Polling == task \in {"first", "second"}

(* This direction is pending: the other one is tried, then the task rests. *)
PendingAnd(wakes) ==
  /\ again' = (again \/ wakes)
  /\ task' = IF task = "first" THEN "second"
             ELSE IF again' THEN "woken" ELSE "parked"

NotWanted ==
  /\ Polling /\ ~Wanted(Direction)
  /\ PendingAnd(FALSE)
  /\ UNCHANGED <<writeFirst, ready, waker, events, reading, remaining, input,
                 room, gone, interrupted, passed, arrived, writes>>

(* poll_read_ready, poll_write_ready: the waker stays with Tokio.          *)
NotReady ==
  /\ Polling /\ Wanted(Direction) /\ Direction \notin ready
  /\ waker' = waker \cup {Direction}
  /\ PendingAnd(FALSE)
  /\ UNCHANGED <<writeFirst, ready, events, reading, remaining, input, room,
                 gone, interrupted, passed, arrived, writes>>

Calls(d) == Polling /\ Direction = d /\ Wanted(d) /\ d \in ready

(* The call would block: the readiness was stale.  It is cleared, and the  *)
(* loop asks for it again.                                                 *)
NotCleared == ready

Cleared == ready \ {Direction}

WouldBlock ==
  /\ Calls(Direction) /\ ~Possible(Direction)
  /\ ready' = Cleared
  /\ passed' = [passed EXCEPT ![Direction] = 0]
  /\ UNCHANGED <<task, again, writeFirst, waker, events, reading, remaining,
                 input, room, gone, interrupted, arrived, writes>>

(* retry_interrupted: pending, but the task comes back at once.            *)
Sleeps == PendingAnd(FALSE)

RetryFirst == task' = "woken" /\ again' = TRUE

RetryLater == PendingAnd(TRUE)

Interrupted ==
  /\ Calls(Direction) /\ Direction \in interrupted
  /\ RetryLater
  /\ passed' = [passed EXCEPT ![Direction] = 0]
  /\ UNCHANGED <<writeFirst, ready, waker, events, reading, remaining, input,
                 room, gone, interrupted, arrived, writes>>

Failed ==
  /\ Calls(Direction) /\ gone
  /\ task' = "ended"
  /\ UNCHANGED <<again, writeFirst, ready, waker, events, reading, remaining,
                 input, room, gone, interrupted, passed, arrived, writes>>

(* A transfer: the other direction comes first next time.                  *)
SameAgain(d) == d = "write"

TurnAfter(d) == d = "read"

Moved(d) ==
  /\ writeFirst' = TurnAfter(d)
  /\ passed' = [e \in Directions |->
                  IF e # d /\ Wanted(e) /\ e \in ready /\ Possible(e)
                  THEN passed[e] + 1 ELSE 0]

(* A streamed read may collect what else is there; a single one is over.   *)
Read ==
  /\ Calls("read") /\ ~gone /\ input > 0
  /\ input' = input - Least(input, ReadSize)
  /\ Moved("read")
  /\ \/ task' = "burst" /\ reading' = reading
     \/ task' = "woken" /\ reading' \in BOOLEAN
  /\ UNCHANGED <<again, ready, waker, events, remaining, room, gone,
                 interrupted, arrived, writes>>

Write ==
  /\ Calls("write") /\ ~gone /\ room > 0
  /\ room' = room - Least(room, remaining)
  /\ remaining' = remaining - Least(room, remaining)
  /\ Moved("write")
  /\ task' = "woken"
  /\ UNCHANGED <<again, ready, waker, events, reading, input, gone,
                 interrupted, arrived, writes>>

(* try_read in a burst: only while Tokio believes in input, which it stops *)
(* to do when the read would block.  An error ends the task.               *)
BurstRead ==
  /\ task = "burst" /\ "read" \in ready
  /\ IF gone \/ input = 0
     THEN /\ task' = IF gone THEN "ended" ELSE "woken"
          /\ ready' = IF gone THEN ready ELSE ready \ {"read"}
          /\ input' = input
     ELSE /\ input' = input - Least(input, ReadSize)
          /\ UNCHANGED <<task, ready>>
  /\ UNCHANGED <<again, writeFirst, waker, events, reading, remaining, room,
                 gone, interrupted, passed, arrived, writes>>

(* The burst ends at its limit, for a pending operation, when nothing is   *)
(* ready, or interrupted; with its credit, reading may be over.            *)
BurstEnd ==
  /\ task = "burst"
  /\ task' = "woken" /\ reading' \in BOOLEAN
  /\ UNCHANGED <<again, writeFirst, ready, waker, events, remaining, input,
                 room, gone, interrupted, passed, arrived, writes>>

-----------------------------------------------------------------------------
(* The driver of Tokio.                                                    *)
Woken(d) == IF d \in waker /\ task = "parked" THEN "woken" ELSE task

Deliver(d) ==
  /\ d \in events /\ task \in {"parked", "woken"}
  /\ events' = events \ {d}
  /\ ready' = ready \cup {d}
  /\ waker' = waker \ {d}
  /\ task' = Woken(d)
  /\ UNCHANGED <<again, writeFirst, reading, remaining, input, room, gone,
                 interrupted, passed, arrived, writes>>

(* JavaScript: a credit or a read reaches the task through its channel.    *)
Notified == IF task = "parked" THEN "woken" ELSE task

WantInput ==
  /\ ~reading /\ task \in {"parked", "woken"}
  /\ reading' = TRUE
  /\ task' = Notified
  /\ UNCHANGED <<again, writeFirst, ready, waker, events, remaining, input,
                 room, gone, interrupted, passed, arrived, writes>>

(* A write: what try_write moves at once, without a look at the readiness  *)
(* and while no poll holds the mutex, the rest through the channel.        *)
Inline == Least(room, 2)

WriteCall ==
  /\ remaining = 0 /\ writes < MaxWrites /\ task \in {"parked", "woken"}
  /\ \E n \in {0} \cup (IF gone THEN {} ELSE {Inline}) :
       /\ room' = room - n
       /\ remaining' = 2 - n
       /\ task' = IF n = 2 THEN task ELSE Notified
  /\ writes' = writes + 1
  /\ UNCHANGED <<again, writeFirst, ready, waker, events, reading, input, gone,
                 interrupted, passed, arrived>>

(* The kernel: each change is an edge.                                     *)
Arrive ==
  /\ ~gone /\ arrived < MaxInput
  /\ input' = input + 1 /\ arrived' = arrived + 1
  /\ events' = events \cup {"read"}
  /\ UNCHANGED <<task, again, writeFirst, ready, waker, reading, remaining,
                 room, gone, interrupted, passed, writes>>

Transmit ==
  /\ ~gone /\ room < Capacity
  /\ room' = room + 1
  /\ events' = events \cup {"write"}
  /\ UNCHANGED <<task, again, writeFirst, ready, waker, reading, remaining,
                 input, gone, interrupted, passed, arrived, writes>>

Lose ==
  /\ ~gone
  /\ gone' = TRUE /\ events' = Directions
  /\ UNCHANGED <<task, again, writeFirst, ready, waker, reading, remaining,
                 input, room, interrupted, passed, arrived, writes>>

Task ==
  \/ Poll \/ NotWanted \/ NotReady \/ WouldBlock \/ Interrupted \/ Failed
  \/ Read \/ Write \/ BurstRead \/ BurstEnd

Next ==
  \/ Task \/ \E d \in Directions : Deliver(d)
  \/ WantInput \/ WriteCall \/ Arrive \/ Transmit \/ Lose

(* The runtime polls a task that was woken, looks at the kernel's events   *)
(* again and again even when tasks wake themselves, and a line sends.      *)
Spec ==
  /\ Init /\ [][Next]_vars
  /\ WF_vars(Task)
  /\ \A d \in Directions : SF_vars(Deliver(d))
  /\ WF_vars(Transmit)

-----------------------------------------------------------------------------
(* A task rests only while it will be told: if a direction that it wants   *)
(* can move, an edge is under way and the task's waker is registered for   *)
(* it, whatever stale readiness, interruption, burst or inline write came  *)
(* before.                                                                 *)
NoLostWakeup ==
  task = "parked" =>
    \A d \in Directions :
      Wanted(d) /\ Possible(d) => d \in events /\ d \in waker

(* Neither direction waits for two transfers of the other one while it is  *)
(* wanted, ready and undisturbed (write_first of TransferPoller).          *)
Alternates == \A d \in Directions : passed[d] <= 1

(* Even if every call of one direction is interrupted, the other one moves *)
(* all that it can ("the other direction and ports can progress").         *)
BothMove ==
  \A d \in Directions :
    d \notin interrupted =>
      <>[](task = "ended" \/ ~(Wanted(d) /\ Possible(d)))
=============================================================================

---------------------------- MODULE ReadDelivery ----------------------------
(***************************************************************************)
(* The delivery of native reads to onData in binding.ts.  Every native     *)
(* callback with a read or a batch of reads queues one run of deliverRead  *)
(* as a microtask; a run takes the event at the head, whichever it is.  A  *)
(* listener may throw, which ends the run in the middle of a batch, or     *)
(* close the port.                                                         *)
(***************************************************************************)
EXTENDS Naturals, Sequences, SequencesExt

CONSTANTS
  BatchSizes,  \* the numbers of chunks in an event
  MaxChunks    \* bound: chunks that arrive

ASSUME DeliveryAssumption == BatchSizes \subseteq Nat \ {0}

VARIABLES
  pendingRead,  \* the event at the head, <<>> when there is none
  queuedReads,  \* the events behind it
  scheduled,    \* the runs of deliverRead that are queued
  readSlots,    \* the slots in use by chunks that were not delivered
  isOpen,
  delivered,    \* history: the chunks onData received
  received      \* history: how many chunks the native side delivered

deliveryVars == <<pendingRead, queuedReads, scheduled, readSlots, isOpen,
                  delivered, received>>

InitDelivery ==
  /\ pendingRead = <<>> /\ queuedReads = <<>> /\ scheduled = 0
  /\ readSlots = 0 /\ isOpen = TRUE /\ delivered = <<>> /\ received = 0

(* The native callback with an event of n chunks.                          *)
NativeRead(n) ==
  LET event == [i \in 1 .. n |-> received + i]
  IN  /\ IF pendingRead = <<>>
         THEN pendingRead' = event /\ queuedReads' = queuedReads
         ELSE queuedReads' = Append(queuedReads, event)
              /\ pendingRead' = pendingRead
      /\ scheduled' = scheduled + 1
      /\ readSlots' = readSlots + n
      /\ received' = received + n
      /\ UNCHANGED <<isOpen, delivered>>

(* The run takes the head; what becomes of it is up to the listeners.      *)
NextHead == IF queuedReads = <<>> THEN <<>> ELSE Head(queuedReads)
NextQueue == IF queuedReads = <<>> THEN <<>> ELSE Tail(queuedReads)

OneSlot(n) == readSlots - 1

SlotsAfter(n) == readSlots - n

ToListeners(n) ==
  /\ delivered' = delivered \o SubSeq(pendingRead, 1, n)
  /\ readSlots' = SlotsAfter(n)

(* retainRead: the rest of a batch goes ahead of what is queued, with a    *)
(* run of its own.                                                         *)
RetainedLast(rest) ==
  IF NextHead = <<>>
  THEN pendingRead' = rest /\ queuedReads' = NextQueue
  ELSE pendingRead' = NextHead /\ queuedReads' = Append(NextQueue, rest)

Retained(rest) ==
  /\ pendingRead' = rest
  /\ queuedReads' = IF NextHead = <<>> THEN NextQueue
                    ELSE <<NextHead>> \o NextQueue

NoRun == scheduled - 1

ExtraRun == scheduled

Completed ==
  /\ ToListeners(Len(pendingRead))
  /\ pendingRead' = NextHead /\ queuedReads' = NextQueue
  /\ scheduled' = scheduled - 1
  /\ isOpen' = isOpen

ClosedByListener ==
  /\ \E n \in 1 .. Len(pendingRead) : ToListeners(n)
  /\ pendingRead' = NextHead /\ queuedReads' = NextQueue
  /\ scheduled' = scheduled - 1
  /\ isOpen' = FALSE

(* The listener of chunk n throws; after the last one nothing is retained. *)
ResumeAt(n) == n + 1

Thrown ==
  \E n \in 1 .. Len(pendingRead) - 1 :
    /\ ToListeners(n)
    /\ Retained(SubSeq(pendingRead, ResumeAt(n), Len(pendingRead)))
    /\ scheduled' = ExtraRun
    /\ isOpen' = isOpen

(* A closed port drops the event, and a run may find nothing.              *)
Dropped ==
  /\ pendingRead' = NextHead /\ queuedReads' = NextQueue
  /\ scheduled' = scheduled - 1
  /\ UNCHANGED <<readSlots, isOpen, delivered>>

DeliverRead ==
  /\ scheduled > 0
  /\ IF isOpen /\ pendingRead # <<>>
     THEN Completed \/ ClosedByListener \/ Thrown
     ELSE Dropped
  /\ UNCHANGED received

Close ==
  /\ isOpen /\ isOpen' = FALSE
  /\ UNCHANGED <<pendingRead, queuedReads, scheduled, readSlots, delivered,
                 received>>

Idle == scheduled = 0 /\ UNCHANGED deliveryVars

NextDelivery ==
  \/ \E n \in BatchSizes : received + n <= MaxChunks /\ NativeRead(n)
  \/ DeliverRead \/ Close \/ Idle

DeliverySpec == InitDelivery /\ [][NextDelivery]_deliveryVars

-----------------------------------------------------------------------------
Events == IF pendingRead = <<>> THEN <<>> ELSE <<pendingRead>> \o queuedReads
Waiting == FlattenSeq(Events)

(* Every event that waits has a run of deliverRead of its own, also after  *)
(* a listener threw and its batch went back to the head: no read stays     *)
(* behind until another one arrives.                                       *)
Covered ==
  /\ Len(Events) <= scheduled
  /\ pendingRead = <<>> => queuedReads = <<>>

(* The slots of every chunk are returned once: what JavaScript regards as  *)
(* outstanding is what waits for delivery.                                 *)
SlotsReturned == isOpen => readSlots = Len(Waiting)

(* Listeners receive all chunks in order, each once, none skipped.         *)
Fifo == INSTANCE ReadFifo
          WITH incoming <- Waiting, open <- isOpen
ImplementsFifo == Fifo!Spec
=============================================================================

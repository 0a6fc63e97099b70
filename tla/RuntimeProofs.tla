---------------------------- MODULE RuntimeProofs ----------------------------
(***************************************************************************)
(* What the I/O task of a port relies on.  It is woken: it never sleeps    *)
(* while it could transfer, and neither direction is passed over twice,    *)
(* for any sizes and any number of bytes and writes.  And there is a       *)
(* worker to run it as long as the port holds its lease, for any number of *)
(* ports and any limit, with no more than Limit workers referenced.  And   *)
(* what a port reads reaches onData in order, for any batches and however  *)
(* listeners throw or close.                                               *)
(***************************************************************************)
EXTENDS Transfers, WorkerPool, ReadDelivery, SequenceLemmas, FiniteSetTheorems,
        TLAPS

-----------------------------------------------------------------------------
(* Transfers.                                                              *)
Types ==
  /\ task \in {"parked", "woken", "first", "second", "burst", "ended"}
  /\ again \in BOOLEAN /\ writeFirst \in BOOLEAN /\ reading \in BOOLEAN
  /\ ready \subseteq Directions /\ waker \subseteq Directions
  /\ events \subseteq Directions
  /\ remaining \in Nat /\ input \in Nat /\ room \in Nat
  /\ gone \in BOOLEAN
  /\ passed \in [Directions -> Nat]

(* What the kernel could do is remembered as readiness or as an edge.      *)
EdgesKept == \A d \in Directions : Possible(d) => d \in ready \cup events

(* A direction that is pending without a retry has left its waker, and no  *)
(* readiness remains that would keep an edge from waking it.               *)
AskedFor(d) == Wanted(d) => d \in waker /\ d \notin ready

AskedFirst == task = "second" => again \/ AskedFor(Other(Direction))
AskedBoth == task = "parked" => \A d \in Directions : AskedFor(d)

(* A direction that was passed over comes first in the next poll, and if   *)
(* it does not move there, it is not passed over by the second.            *)
TurnKept ==
  \A d \in Directions :
    /\ passed[d] <= 1
    /\ passed[d] = 1 => (writeFirst <=> d = "write")

Excused(d) == passed[d] = 0 \/ ~Wanted(d) \/ d \notin ready

ExcusedFirst == task = "second" => Excused(Other(Direction))

Wakeups == EdgesKept /\ AskedFirst /\ AskedBoth
Turns == TurnKept /\ ExcusedFirst

LEMMA LeastBounds ==
  ASSUME NEW a \in Nat, NEW b \in Nat
  PROVE  a - Least(a, b) \in Nat /\ a - Least(a, b) <= a
  BY SMT DEF Least

LEMMA Sizes == Capacity \in Nat /\ ReadSize \in Nat
  BY TransferAssumption DEF TransferAssumption

LEMMA TypesInit == Init => Types
<1> SUFFICES ASSUME Init PROVE Types
  OBVIOUS
<1>1. room \in Nat /\ remaining \in Nat /\ input \in Nat
  BY Sizes DEF Init
<1>2. passed \in [Directions -> Nat]
  BY DEF Init
<1>3. ready \subseteq Directions /\ waker \subseteq Directions
  BY DEF Init
<1>4. events \subseteq Directions
  BY DEF Init, Directions
<1> QED
  BY <1>1, <1>2, <1>3, <1>4 DEF Init, Types

LEMMA TypesStep == Types /\ [Next]_vars => Types'
<1> SUFFICES ASSUME Types, [Next]_vars PROVE Types'
  OBVIOUS
<1> USE DEF Types, Directions
<1>1. CASE UNCHANGED vars
  BY <1>1 DEF vars
<1>2. CASE Poll
  BY <1>2 DEF Poll
<1>3. CASE NotWanted
  BY <1>3 DEF NotWanted, PendingAnd
<1>4. CASE NotReady
  BY <1>4 DEF NotReady, PendingAnd, Direction, AtRead
<1>5. CASE WouldBlock
  BY <1>5 DEF WouldBlock, Cleared, Direction, AtRead
<1>6. CASE Interrupted
  BY <1>6 DEF Interrupted, RetryLater, PendingAnd, Direction, AtRead
<1>7. CASE Failed
  BY <1>7 DEF Failed
<1>8. CASE Read
  <2>1. input' \in Nat
    BY <1>8, Sizes, LeastBounds DEF Read
  <2> QED
    BY <1>8, <2>1 DEF Read, Moved, TurnAfter
<1>9. CASE Write
  <2>1. room' \in Nat
    BY <1>9, LeastBounds DEF Write
  <2>2. remaining' \in Nat
    BY <1>9 DEF Write, Least
  <2> QED
    BY <1>9, <2>1, <2>2 DEF Write, Moved, TurnAfter
<1>10. CASE BurstRead
  <2>1. input' \in Nat
    BY <1>10, Sizes, LeastBounds DEF BurstRead
  <2> QED
    BY <1>10, <2>1 DEF BurstRead
<1>11. CASE BurstEnd
  BY <1>11 DEF BurstEnd
<1>12. CASE \E d \in Directions : Deliver(d)
  BY <1>12 DEF Deliver, Woken
<1>13. CASE WantInput
  BY <1>13 DEF WantInput, Notified
<1>14. CASE WriteCall
  BY <1>14 DEF WriteCall, Inline, Least, Notified
<1>15. CASE Arrive
  BY <1>15 DEF Arrive
<1>16. CASE Transmit
  BY <1>16 DEF Transmit
<1>17. CASE Lose
  BY <1>17 DEF Lose
<1> HIDE DEF Types, Directions
<1> QED
  BY <1>1, <1>2, <1>3, <1>4, <1>5, <1>6, <1>7, <1>8, <1>9, <1>10, <1>11,
     <1>12, <1>13, <1>14, <1>15, <1>16, <1>17 DEF Next, Task

-----------------------------------------------------------------------------
LEMMA WakeupsInit == Init => Wakeups
  BY DEF Init, Wakeups, EdgesKept, AskedFirst, AskedBoth, AskedFor, Wanted,
         Possible, Directions

(* A step that neither makes a transfer possible nor forgets one.          *)
LEMMA EdgesStep == Types /\ EdgesKept /\ [Next]_vars => EdgesKept'
<1> SUFFICES ASSUME Types, EdgesKept, [Next]_vars PROVE EdgesKept'
  OBVIOUS
<1> USE DEF Types, EdgesKept, Possible, Directions
<1>1. CASE UNCHANGED vars
  BY <1>1 DEF vars
<1>2. CASE Poll \/ NotWanted \/ NotReady \/ Interrupted \/ Failed
  BY <1>2 DEF Poll, NotWanted, NotReady, Interrupted, Failed
<1>3. CASE WouldBlock
  BY <1>3 DEF WouldBlock, Cleared, Direction, AtRead
<1>4. CASE Read
  <2>1. input' \in Nat /\ input' <= input
    BY <1>4, Sizes, LeastBounds DEF Read
  <2> QED
    BY <1>4, <2>1 DEF Read
<1>5. CASE Write
  <2>1. room' \in Nat /\ room' <= room
    BY <1>5, LeastBounds DEF Write
  <2> QED
    BY <1>5, <2>1 DEF Write
<1>6. CASE BurstRead
  <2>1. input' \in Nat /\ input' <= input
    <3>1. input - Least(input, ReadSize) \in Nat
          /\ input - Least(input, ReadSize) <= input
      BY Sizes, LeastBounds
    <3>2. input' = input \/ input' = input - Least(input, ReadSize)
      BY <1>6 DEF BurstRead
    <3> QED
      BY <3>1, <3>2
  <2> QED
    BY <1>6, <2>1 DEF BurstRead
<1>7. CASE BurstEnd \/ WantInput
  BY <1>7 DEF BurstEnd, WantInput
<1>8. CASE \E d \in Directions : Deliver(d)
  BY <1>8 DEF Deliver
<1>9. CASE WriteCall
  BY <1>9 DEF WriteCall, Inline, Least
<1>10. CASE Arrive \/ Transmit \/ Lose
  BY <1>10 DEF Arrive, Transmit, Lose
<1> HIDE DEF Types, EdgesKept, Possible, Directions
<1> QED
  BY <1>1, <1>2, <1>3, <1>4, <1>5, <1>6, <1>7, <1>8, <1>9, <1>10
  DEF Next, Task

(* The task goes to sleep only after both directions were asked for.       *)
LEMMA AskedStep ==
  Types /\ AskedFirst /\ AskedBoth /\ [Next]_vars => AskedFirst' /\ AskedBoth'
<1> SUFFICES ASSUME Types, AskedFirst, AskedBoth, [Next]_vars
             PROVE  AskedFirst' /\ AskedBoth'
  OBVIOUS
<1> USE DEF Types, AskedFirst, AskedBoth, AskedFor, Wanted, Directions, Other
<1>1. CASE UNCHANGED vars
  BY <1>1 DEF vars, Direction, AtRead
<1>2. CASE Poll
  BY <1>2 DEF Poll
<1>3. CASE NotWanted
  BY <1>3 DEF NotWanted, PendingAnd, Direction, AtRead, Polling
<1>4. CASE NotReady
  BY <1>4 DEF NotReady, PendingAnd, Direction, AtRead, Polling
<1>5. CASE WouldBlock
  BY <1>5 DEF WouldBlock, Cleared, Calls, Direction, AtRead, Polling
<1>6. CASE Interrupted
  BY <1>6 DEF Interrupted, RetryLater, PendingAnd, Calls, Direction, AtRead,
              Polling
<1>7. CASE Failed \/ Read \/ Write \/ BurstRead \/ BurstEnd
  BY <1>7 DEF Failed, Read, Write, BurstRead, BurstEnd
<1>8. CASE \E d \in Directions : Deliver(d)
  BY <1>8 DEF Deliver, Woken
<1>9. CASE WantInput
  BY <1>9 DEF WantInput, Notified
<1>10. CASE WriteCall
  BY <1>10 DEF WriteCall, Inline, Least, Notified
<1>11. CASE Arrive \/ Transmit \/ Lose
  BY <1>11 DEF Arrive, Transmit, Lose, Direction, AtRead
<1> HIDE DEF Types, AskedFirst, AskedBoth, AskedFor, Wanted, Directions, Other
<1> QED
  BY <1>1, <1>2, <1>3, <1>4, <1>5, <1>6, <1>7, <1>8, <1>9, <1>10, <1>11
  DEF Next, Task

LEMMA WakeupsSuffice == Types /\ Wakeups => NoLostWakeup
  BY DEF Types, Wakeups, EdgesKept, AskedBoth, AskedFor, NoLostWakeup

(* The task sleeps only when the next edge will wake it: no interleaving   *)
(* of edges, stale readiness, interruptions, bursts and inline writes with *)
(* the polls of transfer.rs and unix.rs loses a wakeup.                    *)
THEOREM WakeupsKept == Spec => []NoLostWakeup
<1>1. Init => Types /\ Wakeups
  BY TypesInit, WakeupsInit
<1>2. Types /\ Wakeups /\ [Next]_vars => (Types /\ Wakeups)'
  BY TypesStep, EdgesStep, AskedStep DEF Wakeups
<1> QED
  BY <1>1, <1>2, WakeupsSuffice, PTL DEF Spec

-----------------------------------------------------------------------------
LEMMA TurnsInit == Init => Turns
  BY DEF Init, Turns, TurnKept, ExcusedFirst, Directions

LEMMA TurnsStep == Types /\ Turns /\ [Next]_vars => Turns'
<1> SUFFICES ASSUME Types, Turns, [Next]_vars PROVE Turns'
  OBVIOUS
<1> USE DEF Types, Turns, TurnKept, ExcusedFirst, Excused, Directions, Other,
            Direction, AtRead
<1>1. CASE UNCHANGED vars
  BY <1>1 DEF vars, Wanted
<1>2. CASE Poll
  BY <1>2 DEF Poll
<1>3. CASE NotWanted
  BY <1>3 DEF NotWanted, PendingAnd, Polling, Wanted
<1>4. CASE NotReady
  BY <1>4 DEF NotReady, PendingAnd, Polling, Wanted
<1>5. CASE WouldBlock
  BY <1>5 DEF WouldBlock, Cleared, Calls, Polling, Wanted
<1>6. CASE Interrupted
  BY <1>6 DEF Interrupted, RetryLater, PendingAnd, Calls, Polling, Wanted
<1>7. CASE Failed \/ BurstRead \/ BurstEnd
  BY <1>7 DEF Failed, BurstRead, BurstEnd
<1>8. CASE Read
  <2>1. writeFirst' /\ task' # "second"
    BY <1>8 DEF Read, Moved, TurnAfter
  <2>2. passed'["read"] = 0
    BY <1>8 DEF Read, Moved
  <2>3. passed'["write"] <= 1
    BY <1>8 DEF Read, Calls, Polling, Moved
  <2> QED
    BY <2>1, <2>2, <2>3
<1>9. CASE Write
  BY <1>9 DEF Write, Calls, Polling, Moved, TurnAfter
<1>10. CASE \E d \in Directions : Deliver(d)
  BY <1>10 DEF Deliver, Woken
<1>11. CASE WantInput
  BY <1>11 DEF WantInput, Notified
<1>12. CASE WriteCall
  BY <1>12 DEF WriteCall, Notified
<1>13. CASE Arrive \/ Transmit \/ Lose
  BY <1>13 DEF Arrive, Transmit, Lose, Wanted
<1> HIDE DEF Types, Turns, TurnKept, ExcusedFirst, Excused, Directions, Other,
            Direction, AtRead
<1> QED
  BY <1>1, <1>2, <1>3, <1>4, <1>5, <1>6, <1>7, <1>8, <1>9, <1>10, <1>11,
     <1>12, <1>13 DEF Next, Task

(* write_first of TransferPoller keeps either direction from being passed  *)
(* over twice while it is wanted, ready and not interrupted.               *)
THEOREM TurnsTaken == Spec => []Alternates
<1>1. Init => Types /\ Turns
  BY TypesInit, TurnsInit
<1>2. Types /\ Turns /\ [Next]_vars => (Types /\ Turns)'
  BY TypesStep, TurnsStep
<1>3. Turns => Alternates
  BY DEF Turns, TurnKept, Alternates
<1> QED
  BY <1>1, <1>2, <1>3, PTL DEF Spec

-----------------------------------------------------------------------------
(* The pool.                                                               *)
AliveSet == {w \in Workers : Alive(w)}

(* What acquire has upgraded runs, and while it works nothing else is      *)
(* referenced: other threads only release.                                 *)
AcquireInv ==
  /\ \A w \in active : thread[w] = "running"
  /\ holder = NoPort => active = {}
  /\ holder # NoPort => AliveSet \subseteq active /\ stage[holder] = "closed"
  /\ best.worker \in active \cup {NoWorker}
  /\ unscanned # active => best.worker # NoWorker

(* A reference is found through the pool, and a lease is dropped once.     *)
LeaseInv ==
  /\ AliveSet \subseteq pool
  /\ \A p \in Ports : lease[p] # NoWorker <=> stage[p] # "closed"

PoolInv ==
  TypeOK /\ AcquireInv /\ LeaseInv /\ ServedByRunning /\ Bounded /\ CountsLeases

(* The ports whose lease on w is counted.                                  *)
CountedPorts(w) == {p \in Leases(w) : stage[p] = "leased"}

LEMMA PoolInvInit == InitPool => PoolInv
<1> SUFFICES ASSUME InitPool PROVE PoolInv
  OBVIOUS
<1> USE DEF InitPool
<1>1. AliveSet = {}
  BY WorkerAssumption DEF AliveSet, Alive, Leases
<1>2. Bounded
  BY <1>1, FS_EmptySet, WorkerAssumption DEF Bounded, AliveSet
<1>3. TypeOK
  BY DEF TypeOK, Stages, Nothing
<1>5. CountsLeases
  <2> SUFFICES ASSUME NEW w \in Workers
               PROVE  {p \in Leases(w) : stage[p] = "leased"} = {} /\ ports[w] = 0
    BY FS_EmptySet DEF CountsLeases
  <2> QED
    BY WorkerAssumption DEF Leases
<1>4. AcquireInv /\ LeaseInv /\ ServedByRunning
  BY <1>1, WorkerAssumption DEF AcquireInv, LeaseInv, ServedByRunning, Nothing
<1> QED
  BY <1>2, <1>3, <1>4, <1>5 DEF PoolInv

(* A step that adds no reference keeps the bound.                          *)
LEMMA FewerAlive ==
  ASSUME PoolInv, AliveSet' \subseteq AliveSet
  PROVE  Bounded'
<1>1. IsFiniteSet(AliveSet)
  BY WorkerAssumption, FS_Subset DEF AliveSet
<1>2. /\ Cardinality(AliveSet') <= Cardinality(AliveSet)
      /\ Cardinality(AliveSet) \in Nat /\ Cardinality(AliveSet') \in Nat
  BY <1>1, FS_Subset, FS_CardinalityType
<1>3. Cardinality(AliveSet) <= Limit
  BY DEF PoolInv, Bounded, AliveSet
<1> QED
  BY <1>2, <1>3, WorkerAssumption DEF Bounded, AliveSet

(* A step that counts no lease and uncounts none keeps the counts.         *)
LEMMA SameCounts ==
  ASSUME PoolInv, ports' = ports, \A w \in Workers : CountedPorts(w)' = CountedPorts(w)
  PROVE  CountsLeases'
BY DEF PoolInv, CountsLeases, CountedPorts

(* Counting the lease of one more port.                                    *)
LEMMA GrantCounts ==
  ASSUME PoolInv, NEW w \in Workers, holder \in Ports, stage[holder] = "closed",
         Grant(w)
  PROVE  CountsLeases'
<1> SUFFICES ASSUME NEW v \in Workers
             PROVE  ports'[v] = Cardinality(CountedPorts(v)')
  BY DEF CountsLeases, CountedPorts
<1>1. ports[v] = Cardinality(CountedPorts(v)) /\ IsFiniteSet(CountedPorts(v))
  BY FS_Subset, WorkerAssumption DEF PoolInv, CountsLeases, CountedPorts, Leases
<1>2. CASE v = w
  <2>1. CountedPorts(v)' = CountedPorts(v) \cup {holder}
    BY <1>2 DEF CountedPorts, Leases, Grant, PoolInv, TypeOK
  <2>2. holder \notin CountedPorts(v)
    BY DEF CountedPorts
  <2>3. ports'[v] = ports[v] + 1
    BY <1>2 DEF Grant, Counted, PoolInv, TypeOK
  <2> QED
    BY <1>1, <2>1, <2>2, <2>3, FS_AddElement
<1>3. CASE v # w
  <2>1. CountedPorts(v)' = CountedPorts(v)
    BY <1>3 DEF CountedPorts, Leases, Grant, PoolInv, TypeOK, LeaseInv
  <2>2. ports'[v] = ports[v]
    BY <1>3 DEF Grant, PoolInv, TypeOK
  <2> QED
    BY <1>1, <2>1, <2>2
<1> QED
  BY <1>2, <1>3

(* Uncounting one; the counter was positive.                               *)
LEMMA UncountCounts ==
  ASSUME PoolInv, NEW p \in Ports, Uncount(p)
  PROVE  CountsLeases' /\ ports' \in [Workers -> Nat]
<1>1. lease[p] \in Workers
  BY DEF Uncount, PoolInv, LeaseInv, TypeOK
<1>2. ASSUME NEW v \in Workers
      PROVE  ports'[v] = Cardinality(CountedPorts(v)') /\ ports'[v] \in Nat
  <2>1. ports[v] = Cardinality(CountedPorts(v)) /\ IsFiniteSet(CountedPorts(v))
    BY FS_Subset, WorkerAssumption DEF PoolInv, CountsLeases, CountedPorts, Leases
  <2>2. CASE v = lease[p]
    <3>1. CountedPorts(v)' = CountedPorts(v) \ {p} /\ p \in CountedPorts(v)
      BY <2>2 DEF CountedPorts, Leases, Uncount, PoolInv, TypeOK
    <3>2. ports'[v] = ports[v] - 1
      BY <2>2 DEF Uncount, PoolInv, TypeOK
    <3>3. /\ Cardinality(CountedPorts(v)') = Cardinality(CountedPorts(v)) - 1
          /\ IsFiniteSet(CountedPorts(v)')
      BY <2>1, <3>1, FS_RemoveElement
    <3> QED
      BY <2>1, <3>2, <3>3, FS_CardinalityType
  <2>3. CASE v # lease[p]
    <3>1. CountedPorts(v)' = CountedPorts(v)
      BY <2>3 DEF CountedPorts, Leases, Uncount, PoolInv, TypeOK
    <3>2. ports'[v] = ports[v]
      BY <2>3 DEF Uncount, PoolInv, TypeOK
    <3> QED
      BY <2>1, <3>1, <3>2 DEF PoolInv, TypeOK
  <2> QED
    BY <2>2, <2>3
<1> QED
  BY <1>1, <1>2 DEF CountsLeases, CountedPorts, Uncount, PoolInv, TypeOK

LEMMA PoolInvNext == PoolInv /\ [NextPool]_poolVars => PoolInv'
<1> SUFFICES ASSUME PoolInv, [NextPool]_poolVars PROVE PoolInv'
  OBVIOUS
<1> USE WorkerAssumption DEF PoolInv, TypeOK, Stages, Nothing
<1>1. ASSUME NEW p \in Ports, Lock(p) PROVE PoolInv'
  <2> USE <1>1 DEF Lock
  <2>1. AliveSet' = AliveSet
    BY DEF AliveSet, Alive, Leases, Upgradable, AcquireInv
  <2>2. AliveSet \subseteq active' /\ active' \subseteq AliveSet
    BY DEF AliveSet, Upgradable, LeaseInv
  <2>3. TypeOK'
    BY DEF Upgradable
  <2>4. AcquireInv'
    BY <2>1, <2>2 DEF AcquireInv, AliveSet, Alive, Leases, ServedByRunning
  <2>5. LeaseInv' /\ ServedByRunning'
    BY <2>1, <2>2 DEF LeaseInv, ServedByRunning
  <2>c. CountsLeases'
    BY SameCounts DEF CountedPorts, Leases
  <2> QED
    BY <2>c, <2>1, <2>3, <2>4, <2>5, FewerAlive
<1>2. ASSUME NEW w \in Workers, Scan(w) PROVE PoolInv'
  <2> USE <1>2 DEF Scan
  <2>1. AliveSet' = AliveSet
    BY DEF AliveSet, Alive, Leases
  <2>2. TypeOK'
    OBVIOUS
  <2>3. AcquireInv'
    BY <2>1 DEF AcquireInv
  <2>4. LeaseInv' /\ ServedByRunning'
    BY <2>1 DEF LeaseInv, ServedByRunning
  <2>c. CountsLeases'
    BY SameCounts DEF CountedPorts, Leases
  <2> QED
    BY <2>c, <2>1, <2>2, <2>3, <2>4, FewerAlive
<1>3. ASSUME Reuse PROVE PoolInv'
  <2> USE <1>3 DEF Reuse, Grant, Unlock, Counted, Reusable
  <2>1. best.worker \in active /\ best.worker \in Workers /\ holder \in Ports
    BY DEF AcquireInv
  <2>2. AliveSet' \subseteq AliveSet
    BY <2>1 DEF AliveSet, Alive, Leases
  <2>3. TypeOK'
    BY <2>1
  <2>4. AcquireInv'
    BY <2>1 DEF AcquireInv
  <2>5. LeaseInv' /\ ServedByRunning'
    BY <2>1, <2>2 DEF LeaseInv, ServedByRunning, AcquireInv
  <2>c. CountsLeases'
    BY <2>1, GrantCounts DEF AcquireInv
  <2> QED
    BY <2>c, <2>2, <2>3, <2>4, <2>5, FewerAlive
<1>4. ASSUME NEW w \in Workers, Start(w) PROVE PoolInv'
  <2> USE <1>4 DEF Start, Grant, Unlock, Counted
  <2>1. holder \in Ports /\ w \notin active
    BY DEF AcquireInv
  <2>2. AliveSet' \subseteq active \cup {w}
    BY <2>1 DEF AliveSet, Alive, Leases, AcquireInv
  <2>3. TypeOK'
    BY <2>1
  <2>4. AcquireInv'
    BY <2>1 DEF AcquireInv
  <2>5. LeaseInv' /\ ServedByRunning'
    BY <2>1 DEF LeaseInv, ServedByRunning, AcquireInv, AliveSet, Alive, Leases
  <2>6. IsFiniteSet(active) /\ Cardinality(active) < Limit
    <3>1. IsFiniteSet(active) /\ Cardinality(active) \in Nat
      BY FS_Subset, FS_CardinalityType
    <3>2. CASE best.worker = NoWorker
      BY <3>1, <3>2, FS_EmptySet DEF AcquireInv
    <3>3. CASE best.worker # NoWorker
      BY <3>1, <3>3 DEF Reusable, AtLimit
    <3> QED
      BY <3>1, <3>2, <3>3
  <2>7. /\ IsFiniteSet(active \cup {w})
        /\ Cardinality(active \cup {w}) = Cardinality(active) + 1
    BY <2>1, <2>6, FS_AddElement
  <2>8. Cardinality(AliveSet') <= Cardinality(active \cup {w})
    BY <2>2, <2>7, FS_Subset
  <2>9. Bounded'
    <3>1. IsFiniteSet(AliveSet')
      BY <2>2, <2>7, FS_Subset
    <3> QED
      BY <3>1, <2>6, <2>7, <2>8, FS_CardinalityType DEF Bounded, AliveSet
  <2>c. CountsLeases'
    BY <2>1, GrantCounts DEF AcquireInv
  <2> QED
    BY <2>c, <2>3, <2>4, <2>5, <2>9
<1>5. ASSUME StartFails PROVE PoolInv'
  <2> USE <1>5 DEF StartFails, Unlock
  <2>1. AliveSet' \subseteq AliveSet
    BY DEF AliveSet, Alive, Leases
  <2>2. TypeOK' /\ AcquireInv'
    BY DEF AcquireInv
  <2>3. LeaseInv' /\ ServedByRunning'
    BY <2>1 DEF LeaseInv, ServedByRunning
  <2>c. CountsLeases'
    BY SameCounts DEF CountedPorts, Leases
  <2> QED
    BY <2>c, <2>1, <2>2, <2>3, FewerAlive
<1>6. ASSUME NEW p \in Ports, Uncount(p) PROVE PoolInv'
  <2> USE <1>6 DEF Uncount
  <2>1. AliveSet' = AliveSet
    BY DEF AliveSet, Alive, Leases
  <2>2. TypeOK' /\ CountsLeases'
    BY UncountCounts
  <2>3. LeaseInv'
    BY <2>1 DEF LeaseInv
  <2> QED
    BY <2>1, <2>2, <2>3, FewerAlive DEF AcquireInv, ServedByRunning
<1>7. ASSUME NEW p \in Ports, Drop(p) PROVE PoolInv'
  <2> USE <1>7 DEF Drop
  <2>1. AliveSet' \subseteq AliveSet
    BY DEF AliveSet, Alive, Leases
  <2>c. CountsLeases'
    BY SameCounts DEF CountedPorts, Leases
  <2> QED
    BY <2>c, <2>1, FewerAlive DEF AcquireInv, LeaseInv, ServedByRunning
<1>8. ASSUME NEW w \in Workers, Retire(w) PROVE PoolInv'
  <2> USE <1>8 DEF Retire
  <2>1. AliveSet' = AliveSet /\ w \notin AliveSet
    BY DEF AliveSet, Alive, Leases
  <2>2. \A p \in Ports : lease[p] # w
    BY DEF Alive, Leases
  <2>c. CountsLeases'
    BY SameCounts DEF CountedPorts, Leases
  <2> QED
    BY <2>c, <2>1, <2>2, FewerAlive
    DEF AcquireInv, LeaseInv, ServedByRunning, Alive
<1>9. ASSUME NEW w \in Workers, Exit(w) PROVE PoolInv'
  <2> USE <1>9 DEF Exit
  <2>1. AliveSet' = AliveSet
    BY DEF AliveSet, Alive, Leases
  <2>2. w \notin AliveSet
    BY DEF AcquireInv, ServedByRunning, AliveSet, Alive, Leases
  <2>c. CountsLeases'
    BY SameCounts DEF CountedPorts, Leases
  <2> QED
    BY <2>c, <2>1, <2>2, FewerAlive
    DEF AcquireInv, LeaseInv, ServedByRunning, AliveSet, Alive
<1>10. CASE UNCHANGED poolVars
  <2> USE <1>10 DEF poolVars
  <2>1. AliveSet' = AliveSet
    BY DEF AliveSet, Alive, Leases
  <2>c. CountsLeases'
    BY SameCounts DEF CountedPorts, Leases
  <2> QED
    BY <2>c, <2>1, FewerAlive DEF AcquireInv, LeaseInv, ServedByRunning
<1> QED
  BY <1>1, <1>2, <1>3, <1>4, <1>5, <1>6, <1>7, <1>8, <1>9, <1>10
  DEF NextPool, Acquire, Release, Ending

(* The inductive invariant holds of every behaviour.                       *)
THEOREM PoolInvariance == PoolSpec => []PoolInv
<1> QED
  BY PoolInvInit, PoolInvNext, PTL DEF PoolSpec

(* Every constant: the worker of a leased port is running, so a port that  *)
(* reuses a worker never finds it retired (acquire against Lease::drop).   *)
THEOREM Served == PoolSpec => []ServedByRunning
<1>1. PoolInv => ServedByRunning
  BY DEF PoolInv
<1> QED
  BY <1>1, PoolInvariance, PTL

(* Every constant: acquire never references more than Limit workers, so    *)
(* the array it fills is large enough.                                     *)
THEOREM BoundedWorkers == PoolSpec => []Bounded
<1>1. PoolInv => Bounded
  BY DEF PoolInv
<1> QED
  BY <1>1, PoolInvariance, PTL

(* Every constant: the load of a worker is the number of ports it serves,  *)
(* although Lease::drop decrements it without the mutex of the pool.       *)
THEOREM ExactLoads == PoolSpec => []CountsLeases
<1>1. PoolInv => CountsLeases
  BY DEF PoolInv
<1> QED
  BY <1>1, PoolInvariance, PTL

(* Only Reuse gives a port a worker that counts another lease: a worker    *)
(* that Start takes has none.                                              *)
LEMMA SharingStep ==
  ASSUME PoolInv, NextPool, NEW p \in Ports, lease[p] = NoWorker, lease'[p] # NoWorker,
         \E q \in Leases(lease'[p]) : stage[q] = "leased"
  PROVE  Cardinality(AliveSet) >= Limit
<1> USE WorkerAssumption DEF PoolInv, TypeOK
<1>1. CASE Reuse
  <2>1. holder = p /\ lease'[p] = best.worker /\ best.worker \in Workers
    BY <1>1 DEF Reuse, Grant, Reusable
  <2>2. /\ CountedPorts(best.worker) # {} /\ IsFiniteSet(CountedPorts(best.worker))
        /\ ports[best.worker] = Cardinality(CountedPorts(best.worker))
    BY <2>1, FS_Subset DEF CountedPorts, CountsLeases, Leases
  <2>3. ports[best.worker] # 0
    BY <2>2, FS_EmptySet
  <2>4. Cardinality(active) >= Limit
    BY <1>1, <2>3 DEF Reuse, Reusable, AtLimit
  <2>5. active \subseteq AliveSet /\ IsFiniteSet(AliveSet)
    BY FS_Subset DEF AliveSet, Alive
  <2> QED
    BY <2>4, <2>5, FS_Subset, FS_CardinalityType
<1>2. ASSUME NEW w \in Workers, Start(w) PROVE FALSE
  <2>1. lease'[p] = w
    BY <1>2 DEF Start, Grant
  <2> QED
    BY <1>2, <2>1 DEF Start, Leases, ServedByRunning
<1>3. ASSUME ~Reuse, \A w \in Workers : ~Start(w) PROVE lease'[p] = lease[p] \/ lease'[p] = NoWorker
  BY <1>3 DEF NextPool, Acquire, Release, Ending, Lock, Scan, StartFails, Unlock,
              Uncount, Drop, Retire, Exit
<1> QED
  BY <1>1, <1>2, <1>3

(* Every constant: a port shares a worker only when Limit workers are      *)
(* referenced, whatever was released while acquire read the loads.         *)
THEOREM SharedAtLimit == PoolSpec => SharesAtLimit
<1>1. PoolInv /\ [NextPool]_poolVars =>
        [\A p \in Ports :
           /\ lease[p] = NoWorker /\ lease'[p] # NoWorker
           /\ \E q \in Leases(lease'[p]) : stage[q] = "leased"
           => Cardinality({w \in Workers : Alive(w)}) >= Limit]_poolVars
  BY SharingStep DEF AliveSet, poolVars
<1> QED
  BY <1>1, PoolInvariance, PTL DEF PoolSpec, SharesAtLimit
-----------------------------------------------------------------------------
(* The delivery of reads.  No read is left without a run of deliverRead,   *)
(* for batches of any size, any number of events, and listeners that throw *)
(* at any chunk.  The head is empty only when nothing waits, because no    *)
(* event is empty: that is what makes the number of events countable from  *)
(* head and queue.                                                         *)
Event == Seq(Nat) \ {<<>>}

Shape ==
  /\ pendingRead \in Seq(Nat) /\ queuedReads \in Seq(Event)
  /\ scheduled \in Nat /\ received \in Nat

DeliveryInv == Shape /\ Covered

(* An event is a sequence of chunks that is not empty.                    *)
LEMMA NonEmpty ==
  ASSUME NEW s \in Seq(Nat), Len(s) # 0
  PROVE  s \in Event
  BY DEF Event

(* A native event is not empty.                                            *)
LEMMA EventShape ==
  ASSUME NEW n \in BatchSizes, received \in Nat
  PROVE  [i \in 1 .. n |-> received + i] \in Event
  <1>1. n \in Nat /\ n > 0  BY DeliveryAssumption
  <1>2. [i \in 1 .. n |-> received + i] \in Seq(Nat)
        /\ Len([i \in 1 .. n |-> received + i]) = n  BY <1>1
  <1> QED  BY <1>1, <1>2 DEF Event

(* The number of events: what Covered compares with the number of runs.    *)
LEMMA CountEvents ==
  ASSUME Shape
  PROVE  Len(Events) = IF pendingRead = <<>> THEN 0 ELSE Len(queuedReads) + 1
  <1>1. pendingRead # <<>> => <<pendingRead>> \in Seq(Event)
        /\ Len(<<pendingRead>>) = 1  BY DEF Shape, Event
  <1> QED  BY <1>1 DEF Shape, Events

(* What a run finds behind the head.                                       *)
LEMMA NextShape ==
  ASSUME Shape
  PROVE  /\ NextHead \in Seq(Nat) /\ NextQueue \in Seq(Event)
         /\ NextHead = <<>> => queuedReads = <<>> /\ NextQueue = <<>>
         /\ NextHead # <<>> => Len(NextQueue) + 1 = Len(queuedReads)
  <1>1. CASE queuedReads = <<>>  BY <1>1 DEF Shape, NextHead, NextQueue
  <1>2. CASE queuedReads # <<>>
    <2>1. Head(queuedReads) \in Event /\ Tail(queuedReads) \in Seq(Event)
          /\ Len(Tail(queuedReads)) = Len(queuedReads) - 1
      BY <1>2 DEF Shape
    <2> QED  BY <1>2, <2>1 DEF NextHead, NextQueue, Event, Shape
  <1> QED  BY <1>1, <1>2

(* A run that leaves nothing of the head uses itself up with one event.    *)
LEMMA Advance ==
  ASSUME DeliveryInv, scheduled > 0, pendingRead' = NextHead,
         queuedReads' = NextQueue, scheduled' = scheduled - 1,
         received' = received
  PROVE  DeliveryInv'
  <1>1. Shape'  BY NextShape DEF DeliveryInv, Shape
  <1>2. Len(Events') = IF pendingRead' = <<>> THEN 0 ELSE Len(queuedReads') + 1
    <2>1. pendingRead' # <<>> => <<pendingRead'>> \in Seq(Event)
          /\ Len(<<pendingRead'>>) = 1  BY <1>1 DEF Shape, Event
    <2> QED  BY <1>1, <2>1 DEF Shape, Events
  <1>3. pendingRead = <<>> => NextHead = <<>>
    BY DEF DeliveryInv, Covered, NextHead
  <1>4. Covered'
    BY <1>1, <1>2, <1>3, CountEvents, NextShape DEF DeliveryInv, Covered, Shape
  <1> QED  BY <1>1, <1>4 DEF DeliveryInv

LEMMA DeliveryInvInit == InitDelivery => DeliveryInv
  BY DEF InitDelivery, DeliveryInv, Shape, Covered, Events

LEMMA DeliveryInvNext == DeliveryInv /\ [NextDelivery]_deliveryVars => DeliveryInv'
  <1> SUFFICES ASSUME DeliveryInv, [NextDelivery]_deliveryVars
               PROVE  DeliveryInv'
    OBVIOUS
  <1> USE DEF DeliveryInv
  <1>1. ASSUME NEW n \in BatchSizes, NativeRead(n) PROVE DeliveryInv'
    <2> DEFINE event == [i \in 1 .. n |-> received + i]
    <2>1. event \in Event  BY EventShape DEF Shape
    <2>2. n \in Nat  BY DeliveryAssumption
    <2> HIDE DEF event
    <2>3. IF pendingRead = <<>>
          THEN pendingRead' = event /\ queuedReads' = queuedReads
          ELSE queuedReads' = Append(queuedReads, event)
               /\ pendingRead' = pendingRead
      BY <1>1 DEF NativeRead, event
    <2>4. scheduled' = scheduled + 1 /\ received' = received + n
      BY <1>1 DEF NativeRead
    <2>5. Shape'
      <3>1. event \in Seq(Nat)  BY <2>1 DEF Event
      <3>2. queuedReads' \in Seq(Event)  BY <2>1, <2>3 DEF Shape
      <3> QED  BY <2>2, <2>3, <2>4, <3>1, <3>2 DEF Shape
    <2>6. pendingRead' # <<>>  BY <2>1, <2>3 DEF Event
    <2>7. Len(Events') = Len(queuedReads') + 1
      <3>1. Events' = <<pendingRead'>> \o queuedReads'
        BY <2>6 DEF Events
      <3> QED  BY <2>5, <3>1 DEF Shape
    <2>8. pendingRead = <<>> => Len(queuedReads') = 0
      BY <2>3 DEF Covered
    <2>9. pendingRead # <<>> => Len(queuedReads') = Len(queuedReads) + 1
      BY <2>1, <2>3 DEF Shape
    <2> QED
      BY <2>4, <2>5, <2>6, <2>7, <2>8, <2>9, CountEvents DEF Covered, Shape
  <1>2. ASSUME DeliverRead PROVE DeliveryInv'
    <2>1. CASE Completed \/ ClosedByListener \/ Dropped
      BY <1>2, <2>1, Advance DEF DeliverRead, Completed, ClosedByListener, Dropped
    <2>2. CASE pendingRead # <<>> /\ Thrown
      <3>1. PICK n \in 1 .. Len(pendingRead) - 1 :
              /\ Retained(SubSeq(pendingRead, ResumeAt(n), Len(pendingRead)))
              /\ scheduled' = ExtraRun
        BY <2>2 DEF Thrown
      <3> DEFINE rest == SubSeq(pendingRead, ResumeAt(n), Len(pendingRead))
      <3>2. rest \in Event
        <4>1. pendingRead \in Seq(Nat) /\ n + 1 \in 1 .. Len(pendingRead)
          BY <3>1 DEF Shape
        <4>2. rest \in Seq(Nat) /\ Len(rest) = Len(pendingRead) - n
          BY <4>1 DEF ResumeAt
        <4>3. Len(rest) # 0  BY <3>1, <4>1, <4>2
        <4> QED  BY <4>2, <4>3, NonEmpty
      <3> HIDE DEF rest
      <3>3. /\ pendingRead' = rest
            /\ queuedReads' = IF NextHead = <<>> THEN NextQueue
                              ELSE <<NextHead>> \o NextQueue
            /\ scheduled' = scheduled /\ received' = received
        BY <1>2, <3>1 DEF rest, Retained, ExtraRun, DeliverRead
      <3>4. NextHead # <<>> => <<NextHead>> \in Seq(Event)
            /\ Len(<<NextHead>>) = 1
        BY NextShape DEF Event
      <3>5. Shape'
        <4>1. rest \in Seq(Nat)  BY <3>2 DEF Event
        <4>2. queuedReads' \in Seq(Event)  BY <3>3, <3>4, NextShape
        <4> QED  BY <3>3, <4>1, <4>2 DEF Shape
      <3>6. Len(queuedReads') = Len(queuedReads)
        BY <3>3, <3>4, NextShape DEF Shape
      <3>7. pendingRead' # <<>>  BY <3>2, <3>3 DEF Event
      <3>8. Len(Events') = Len(queuedReads') + 1
        <4>1. Events' = <<pendingRead'>> \o queuedReads'
          BY <3>7 DEF Events
        <4> QED  BY <3>5, <4>1 DEF Shape
      <3> QED
        BY <2>2, <3>3, <3>5, <3>6, <3>7, <3>8, CountEvents DEF Covered, Shape
    <2> QED  BY <1>2, <2>1, <2>2 DEF DeliverRead
  <1>3. ASSUME Close \/ Idle \/ UNCHANGED deliveryVars PROVE DeliveryInv'
    BY <1>3 DEF Close, Idle, deliveryVars, Shape, Covered, Events
  <1> QED  BY <1>1, <1>2, <1>3 DEF NextDelivery

(* Every waiting read has a run of deliverRead of its own.                 *)
THEOREM Coverage == DeliverySpec => []Covered
  <1>1. InitDelivery => DeliveryInv  BY DeliveryInvInit
  <1>2. DeliveryInv /\ [NextDelivery]_deliveryVars => DeliveryInv'  BY DeliveryInvNext
  <1>3. DeliveryInv => Covered  BY DEF DeliveryInv
  <1> QED  BY <1>1, <1>2, <1>3, PTL DEF DeliverySpec

-----------------------------------------------------------------------------
(* The chunks that wait: those of the head, and what follows them.         *)
Behind == FlattenSeq(queuedReads)

LEMMA WaitingShape ==
  ASSUME DeliveryInv
  PROVE  /\ Behind \in Seq(Nat) /\ Waiting \in Seq(Nat)
         /\ Waiting = pendingRead \o Behind
  <1>1. pendingRead \in Seq(Nat) /\ queuedReads \in Seq(Seq(Nat))
    <2>1. Event \subseteq Seq(Nat)  BY DEF Event
    <2> QED  BY <2>1, SeqMonotonic DEF DeliveryInv, Shape
  <1>2. Behind \in Seq(Nat)  BY <1>1, FlattenType DEF Behind
  <1>3. CASE pendingRead = <<>>
    <2>1. queuedReads = <<>>  BY <1>3 DEF DeliveryInv, Covered
    <2>2. Behind = <<>> /\ Waiting = <<>>
      BY <1>3, <2>1, FlattenEmpty DEF Behind, Waiting, Events
    <2> QED  BY <1>2, <1>3, <2>2
  <1>4. CASE pendingRead # <<>>
    <2>1. Waiting = FlattenSeq(<<pendingRead>> \o queuedReads)
      BY <1>4 DEF Waiting, Events
    <2>2. Waiting = pendingRead \o Behind
      BY <1>1, <2>1, FlattenFront DEF Behind
    <2> QED  BY <1>1, <1>2, <2>2
  <1> QED  BY <1>3, <1>4

HeadFirst == Waiting = pendingRead \o Behind

LEMMA WaitingNext == DeliveryInv' => HeadFirst'
  <1>1. DeliveryInv => HeadFirst  BY WaitingShape DEF HeadFirst
  <1> QED  BY <1>1, PTL

(* What a run finds behind the head is all that was queued.                *)
LEMMA BehindHead ==
  ASSUME Shape
  PROVE  /\ NextHead = <<>> => queuedReads = <<>> /\ NextQueue = <<>>
         /\ NextHead # <<>> => <<NextHead>> \o NextQueue = queuedReads
  <1>1. CASE queuedReads = <<>>
    BY <1>1 DEF NextHead, NextQueue
  <1>2. CASE queuedReads # <<>>
    <2>1. <<Head(queuedReads)>> \o Tail(queuedReads) = queuedReads
          /\ Head(queuedReads) \in Event
      BY <1>2 DEF Shape
    <2> QED  BY <1>2, <2>1 DEF NextHead, NextQueue, Event
  <1> QED  BY <1>1, <1>2

LEMMA AdvanceWaiting ==
  ASSUME DeliveryInv, DeliveryInv', pendingRead' = NextHead, queuedReads' = NextQueue
  PROVE  Waiting' = Behind
  <1>1. CASE NextHead = <<>>
    <2>1. queuedReads = <<>> /\ pendingRead' = <<>>
      BY <1>1, BehindHead DEF DeliveryInv
    <2> QED  BY <2>1, FlattenEmpty DEF Waiting, Events, Behind
  <1>2. CASE NextHead # <<>>
    <2>1. Events' = queuedReads
      BY <1>2, BehindHead DEF DeliveryInv, Events
    <2> QED  BY <2>1 DEF Waiting, Behind
  <1> QED  BY <1>1, <1>2

(* A part of the head, and the rest of all that waits.                     *)
LEMMA PartOfHead ==
  ASSUME NEW p \in Seq(Nat), NEW r \in Seq(Nat), NEW n \in 1 .. Len(p)
  PROVE  /\ n \in 1 .. Len(p \o r)
         /\ SubSeq(p \o r, 1, n) = SubSeq(p, 1, n)
         /\ SubSeq(p \o r, n + 1, Len(p \o r))
              = SubSeq(p, n + 1, Len(p)) \o r
         /\ Len(SubSeq(p, n + 1, Len(p)) \o r) = Len(p \o r) - n
  <1>1. Len(p) \in Nat /\ Len(r) \in Nat /\ Len(p \o r) = Len(p) + Len(r)
    OBVIOUS
  <1>2. SubSeq(p \o r, 1, n) = SubSeq(p, 1, n)
    BY <1>1
  <1> DEFINE rest == SubSeq(p, n + 1, Len(p))
             all == SubSeq(p \o r, n + 1, Len(p \o r))
  <1>3. /\ rest \in Seq(Nat) /\ Len(rest) = Len(p) - n
        /\ \A i \in 1 .. Len(p) - n : rest[i] = p[n + i]
    <2>1. n + 1 \in Int /\ Len(p) \in Int /\ \A i \in n + 1 .. Len(p) : p[i] \in Nat
      BY <1>1
    <2>2. /\ rest \in Seq(Nat)
          /\ Len(rest) = IF n + 1 <= Len(p) THEN Len(p) - (n + 1) + 1 ELSE 0
          /\ \A i \in 1 .. Len(p) - (n + 1) + 1 : rest[i] = p[(n + 1) + i - 1]
      BY SMTT(20), <2>1, SubSeqProperties
    <2> HIDE DEF rest
    <2>3. Len(rest) = Len(p) - n
      <3>1. Len(rest) = IF n + 1 <= Len(p) THEN Len(p) - (n + 1) + 1 ELSE 0
        BY <2>2
      <3>2. CASE n = Len(p)  BY <1>1, <3>1, <3>2
      <3>3. CASE n < Len(p)
        <4>1. n + 1 <= Len(p) /\ Len(p) - (n + 1) + 1 = Len(p) - n
          BY <1>1, <3>3
        <4> QED  BY <3>1, <4>1
      <3> QED  BY <1>1, <3>2, <3>3
    <2>4. ASSUME NEW i \in 1 .. Len(p) - n PROVE rest[i] = p[n + i]
      <3>1. i \in 1 .. Len(p) - (n + 1) + 1 /\ (n + 1) + i - 1 = n + i
        BY <1>1
      <3> QED  BY <2>2, <3>1
    <2> QED  BY <2>2, <2>3, <2>4
  <1>4. /\ all \in Seq(Nat) /\ Len(all) = Len(p) + Len(r) - n
        /\ \A i \in 1 .. Len(p) + Len(r) - n : all[i] = (p \o r)[n + i]
    <2>1. PICK w : w = p \o r  OBVIOUS
    <2>2. w \in Seq(Nat) /\ Len(w) = Len(p) + Len(r)  BY <2>1
    <2>3. LET a == SubSeq(w, n + 1, Len(w))
          IN  /\ a \in Seq(Nat) /\ Len(a) = Len(p) + Len(r) - n
              /\ \A i \in 1 .. Len(p) + Len(r) - n : a[i] = w[n + i]
      BY SMTT(20), <1>1, <2>2
    <2> QED  BY <2>1, <2>3
  <1> HIDE DEF rest, all
  <1>5. rest \o r \in Seq(Nat) /\ Len(rest \o r) = Len(p) + Len(r) - n
    <2>1. rest \o r \in Seq(Nat) /\ Len(rest \o r) = Len(rest) + Len(r)
      BY <1>3, ConcatProperties
    <2> QED  BY <1>1, <1>3, <2>1
  <1>6. ASSUME NEW i \in 1 .. Len(all) PROVE all[i] = (rest \o r)[i]
    <2>1. all[i] = (p \o r)[n + i] /\ n + i \in 1 .. Len(p) + Len(r)
      BY <1>1, <1>4
    <2>2. CASE i <= Len(p) - n
      <3>1. (p \o r)[n + i] = p[n + i]  BY <1>1, <2>1, <2>2
      <3>2. (rest \o r)[i] = rest[i] /\ rest[i] = p[n + i]
        BY <1>1, <1>3, <2>2
      <3> QED  BY <2>1, <3>1, <3>2
    <2>3. CASE i > Len(p) - n
      <3>1. (p \o r)[n + i] = r[(n + i) - Len(p)]  BY <1>1, <2>1, <2>3
      <3>2. (rest \o r)[i] = r[i - (Len(p) - n)]
        <4>1. i \in 1 .. Len(rest) + Len(r) /\ ~(i <= Len(rest))
          BY <1>1, <1>3, <1>4, <2>3
        <4>2. (rest \o r)[i] = r[i - Len(rest)]
          BY <1>3, <4>1, ConcatProperties
        <4> QED  BY <1>3, <4>2
      <3>3. (n + i) - Len(p) = i - (Len(p) - n)  BY <1>1, <1>4
      <3> QED  BY <2>1, <3>1, <3>2, <3>3
    <2>4. i <= Len(p) - n \/ i > Len(p) - n
      BY <1>1, <1>4
    <2> QED  BY <2>2, <2>3, <2>4
  <1>7. all = rest \o r
    BY <1>4, <1>5, <1>6, SeqEqual
  <1>8. n \in 1 .. Len(p \o r) /\ Len(rest \o r) = Len(p \o r) - n
    BY <1>1, <1>5
  <1> QED  BY <1>2, <1>7, <1>8 DEF rest, all

(* What a step does to the chunks that wait.                               *)
LEMMA ReadWaiting ==
  ASSUME DeliveryInv, DeliveryInv', NEW n \in BatchSizes, NativeRead(n)
  PROVE  \E event \in Seq(Nat) :
           Len(event) = n /\ n > 0 /\ Waiting' = Waiting \o event
  <1> DEFINE event == [i \in 1 .. n |-> received + i]
  <1>1. event \in Event /\ Len(event) = n /\ n > 0
    <2>1. n \in Nat /\ n > 0  BY DeliveryAssumption
    <2> QED  BY <2>1, EventShape DEF DeliveryInv, Shape
  <1>2. \/ pendingRead = <<>> /\ pendingRead' = event /\ queuedReads' = queuedReads
        \/ /\ pendingRead # <<>> /\ queuedReads' = Append(queuedReads, event)
           /\ pendingRead' = pendingRead
    BY DEF NativeRead
  <1> HIDE DEF event
  <1>3. event \in Seq(Nat)  BY <1>1 DEF Event
  <1>4. /\ Waiting = pendingRead \o Behind /\ Waiting' = (pendingRead \o Behind)'
        /\ pendingRead \in Seq(Nat) /\ Behind \in Seq(Nat)
    BY WaitingShape, WaitingNext DEF DeliveryInv, Shape, HeadFirst
  <1>5. CASE pendingRead = <<>> /\ pendingRead' = event
             /\ queuedReads' = queuedReads
    <2>1. Behind = <<>> /\ Behind' = <<>>
      BY <1>5, FlattenEmpty DEF DeliveryInv, Covered, Behind
    <2> QED  BY <1>1, <1>3, <1>4, <1>5, <2>1
  <1>6. CASE /\ pendingRead # <<>> /\ queuedReads' = Append(queuedReads, event)
             /\ pendingRead' = pendingRead
    <2>1. queuedReads \in Seq(Seq(Nat))
      <3>1. Event \subseteq Seq(Nat)  BY DEF Event
      <3> QED  BY <3>1, SeqMonotonic DEF DeliveryInv, Shape
    <2>2. Behind' = Behind \o event
      BY <1>3, <1>6, <2>1, FlattenAppend DEF Behind
    <2>3. pendingRead \o (Behind \o event) = (pendingRead \o Behind) \o event
      BY SMTT(20), <1>3, <1>4
    <2> QED  BY <1>1, <1>3, <1>4, <1>6, <2>2, <2>3
  <1> QED  BY <1>2, <1>5, <1>6

(* A run on an open port takes some chunks of the head.                    *)
LEMMA RunWaiting ==
  ASSUME DeliveryInv, DeliveryInv', DeliverRead, isOpen, pendingRead # <<>>
  PROVE  \E n \in 1 .. Len(Waiting) :
           /\ delivered' = delivered \o SubSeq(Waiting, 1, n)
           /\ readSlots' = readSlots - n
           /\ \/ /\ Waiting' = SubSeq(Waiting, n + 1, Len(Waiting))
                 /\ Len(Waiting') = Len(Waiting) - n
                 /\ isOpen' = isOpen
              \/ isOpen' = FALSE
  <1>1. /\ Waiting = pendingRead \o Behind /\ Waiting' = (pendingRead \o Behind)'
        /\ pendingRead \in Seq(Nat) /\ Behind \in Seq(Nat)
    BY WaitingShape, WaitingNext DEF DeliveryInv, Shape, HeadFirst
  <1>2. Len(pendingRead) \in 1 .. Len(pendingRead)
    BY <1>1
  <1>3. ASSUME NEW n \in 1 .. Len(pendingRead), ToListeners(n)
        PROVE  /\ n \in 1 .. Len(Waiting)
               /\ delivered' = delivered \o SubSeq(Waiting, 1, n)
               /\ readSlots' = readSlots - n
               /\ SubSeq(Waiting, n + 1, Len(Waiting))
                    = SubSeq(pendingRead, n + 1, Len(pendingRead)) \o Behind
               /\ Len(SubSeq(pendingRead, n + 1, Len(pendingRead)) \o Behind)
                    = Len(Waiting) - n
    BY <1>1, <1>3, PartOfHead DEF ToListeners, SlotsAfter
  <1>4. CASE Completed
    <2> DEFINE n == Len(pendingRead)
    <2>1. Waiting' = Behind
      BY <1>4, AdvanceWaiting DEF Completed
    <2>2. SubSeq(pendingRead, n + 1, n) = <<>> /\ <<>> \o Behind = Behind
      BY <1>1
    <2>3. ToListeners(n) /\ isOpen' = isOpen
      BY <1>4 DEF Completed
    <2> QED  BY <1>2, <1>3, <2>1, <2>2, <2>3
  <1>5. CASE ClosedByListener
    BY <1>3, <1>5 DEF ClosedByListener
  <1>6. CASE Thrown
    <2>1. PICK n \in 1 .. Len(pendingRead) - 1 :
            /\ ToListeners(n) /\ isOpen' = isOpen
            /\ Retained(SubSeq(pendingRead, n + 1, Len(pendingRead)))
      BY <1>6 DEF Thrown, ResumeAt
    <2>2. n \in 1 .. Len(pendingRead)
      BY <1>1
    <2>3. queuedReads' = queuedReads
      BY <2>1, BehindHead DEF Retained, DeliveryInv
    <2>4. Waiting' = SubSeq(pendingRead, n + 1, Len(pendingRead)) \o Behind
      BY <1>1, <2>1, <2>3 DEF Retained, Behind
    <2> QED  BY <1>3, <2>1, <2>2, <2>4
  <1> QED  BY <1>4, <1>5, <1>6 DEF DeliverRead

-----------------------------------------------------------------------------
LEMMA NextSlots ==
  ASSUME DeliveryInv, DeliveryInv', SlotsReturned, [NextDelivery]_deliveryVars
  PROVE  SlotsReturned'
  <1>1. Len(Waiting) \in Nat /\ Waiting \in Seq(Nat)  BY WaitingShape
  <1>2. ASSUME NEW n \in BatchSizes, NativeRead(n) PROVE SlotsReturned'
    <2>1. PICK event \in Seq(Nat) :
            Len(event) = n /\ Waiting' = Waiting \o event
      BY <1>2, ReadWaiting
    <2>2. Len(Waiting \o event) = Len(Waiting) + Len(event)  BY <1>1
    <2>3. Len(Waiting') = Len(Waiting) + n  BY <2>1, <2>2
    <2> QED  BY <1>2, <2>3 DEF NativeRead, SlotsReturned
  <1>3. CASE DeliverRead /\ isOpen /\ pendingRead # <<>>
    <2>1. PICK n \in 1 .. Len(Waiting) :
            /\ readSlots' = readSlots - n
            /\ Len(Waiting') = Len(Waiting) - n \/ isOpen' = FALSE
      BY <1>3, RunWaiting
    <2> QED  BY <1>1, <1>3, <2>1 DEF SlotsReturned
  <1>4. CASE DeliverRead /\ isOpen /\ pendingRead = <<>>
    <2>1. queuedReads = <<>>  BY <1>4 DEF DeliveryInv, Covered
    <2>2. UNCHANGED <<pendingRead, queuedReads, readSlots, isOpen>>
      BY <1>4, <2>1 DEF DeliverRead, Dropped, NextHead, NextQueue
    <2> QED  BY <2>2 DEF SlotsReturned, Waiting, Events
  <1>5. CASE DeliverRead /\ ~isOpen
    BY <1>5 DEF DeliverRead, Dropped, SlotsReturned
  <1>6. CASE Close
    BY <1>6 DEF Close, SlotsReturned
  <1>7. CASE Idle \/ UNCHANGED deliveryVars
    BY <1>7 DEF Idle, deliveryVars, SlotsReturned, Waiting, Events
  <1> QED  BY <1>2, <1>3, <1>4, <1>5, <1>6, <1>7 DEF NextDelivery

(* The slots in use are those of the chunks that wait, however listeners   *)
(* split the batches: each chunk gives back one slot, once.                *)
THEOREM SlotsConserved == DeliverySpec => []SlotsReturned
  <1>1. InitDelivery => DeliveryInv /\ SlotsReturned
    <2>1. InitDelivery => Waiting = <<>>
      BY FlattenEmpty DEF InitDelivery, Waiting, Events
    <2> QED  BY <2>1, DeliveryInvInit DEF InitDelivery, SlotsReturned
  <1>2. DeliveryInv /\ [NextDelivery]_deliveryVars => DeliveryInv'  BY DeliveryInvNext
  <1>3. DeliveryInv /\ SlotsReturned /\ [NextDelivery]_deliveryVars => SlotsReturned'
    BY DeliveryInvNext, NextSlots
  <1> QED  BY <1>1, <1>2, <1>3, PTL DEF DeliverySpec

LEMMA StepRefines ==
  ASSUME DeliveryInv, DeliveryInv', [NextDelivery]_deliveryVars
  PROVE  [Fifo!Next]_(Fifo!fifoVars)
  <1> USE DEF Fifo!fifoVars
  <1>1. Len(Waiting) \in Nat /\ Waiting \in Seq(Nat)  BY WaitingShape
  <1>2. ASSUME NEW n \in BatchSizes, NativeRead(n) PROVE Fifo!Receive
    <2>1. PICK event \in Seq(Nat) :
            Len(event) = n /\ n > 0 /\ Waiting' = Waiting \o event
      BY <1>2, ReadWaiting
    <2>2. /\ Len(Waiting') > Len(Waiting)
          /\ SubSeq(Waiting', 1, Len(Waiting)) = Waiting
      BY <1>1, <2>1
    <2> QED  BY <1>2, <2>2 DEF NativeRead, Fifo!Receive
  <1>3. CASE DeliverRead /\ isOpen /\ pendingRead # <<>>
    <2>1. Fifo!Deliver  BY <1>3, RunWaiting DEF Fifo!Deliver
    <2> QED  BY <2>1 DEF Fifo!Next
  <1>4. CASE DeliverRead /\ isOpen /\ pendingRead = <<>>
    <2>1. queuedReads = <<>>  BY <1>4 DEF DeliveryInv, Covered
    <2>2. UNCHANGED <<pendingRead, queuedReads, delivered, isOpen>>
      BY <1>4, <2>1 DEF DeliverRead, Dropped, NextHead, NextQueue
    <2> QED  BY <2>2 DEF Waiting, Events
  <1>5. CASE DeliverRead /\ ~isOpen
    BY <1>5 DEF DeliverRead, Dropped, Fifo!Next, Fifo!Discard
  <1>6. CASE Close
    BY <1>6 DEF Close, Fifo!Next, Fifo!Close, Waiting, Events
  <1>7. CASE Idle \/ UNCHANGED deliveryVars
    BY <1>7 DEF Idle, deliveryVars, Waiting, Events
  <1> QED
    BY <1>2, <1>3, <1>4, <1>5, <1>6, <1>7 DEF NextDelivery, Fifo!Next

(* The head, the queue behind it, the runs and the batches that go back to *)
(* the head implement a queue: while the port is open, onData receives the *)
(* chunks in order, each at most once, and none is skipped.                *)
THEOREM DeliveryIsFifo == DeliverySpec => ImplementsFifo
  <1>1. InitDelivery => DeliveryInv  BY DeliveryInvInit
  <1>2. InitDelivery => Fifo!Init
    BY FlattenEmpty DEF InitDelivery, Fifo!Init, Waiting, Events
  <1>3. DeliveryInv /\ [NextDelivery]_deliveryVars => DeliveryInv'  BY DeliveryInvNext
  <1>4. DeliveryInv /\ DeliveryInv' /\ [NextDelivery]_deliveryVars
        => [Fifo!Next]_(Fifo!fifoVars)
    BY StepRefines
  <1> QED
    BY <1>1, <1>2, <1>3, <1>4, PTL DEF DeliverySpec, ImplementsFifo, Fifo!Spec
=============================================================================

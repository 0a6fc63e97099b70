----------------------------- MODULE WorkerPool -----------------------------
(***************************************************************************)
(* The I/O workers (workers.rs).  A worker is a thread with a runtime that *)
(* lives as long as somebody holds a strong reference to it; the pool only *)
(* holds weak ones.  Ports are opened by JavaScript threads (Node has one  *)
(* per worker_threads environment), which take a lease under the mutex of  *)
(* the pool, and they end on the worker's own thread, without it.          *)
(***************************************************************************)
EXTENDS Naturals, FiniteSets

CONSTANTS
  Ports,    \* the ports that are opened, closed and opened again
  Workers,  \* bound: how many workers exist at a time, ending ones included
  NoWorker, \* stands for the absence of a worker
  NoPort,   \* stands for the absence of a port
  Limit     \* the limit on active workers: the CPUs, at most MAX_WORKERS

ASSUME WorkerAssumption ==
  /\ Limit \in Nat \ {0}
  /\ IsFiniteSet(Workers) /\ IsFiniteSet(Ports)
  /\ NoWorker \notin Workers /\ NoPort \notin Ports

VARIABLES
  pool,      \* the workers with an entry in WORKERS
  thread,    \* for each worker: "none", "running", "stopping"
  ports,     \* for each worker: Worker.ports
  stage,     \* for each port: where its lease is
  lease,     \* for each port: the worker it leases
  holder,    \* the port that is being acquired, and holds the pool's mutex
  active,    \* the workers that acquire has upgraded
  unscanned, \* those whose load it has not read yet
  best       \* the least busy one so far, with the load that was read

poolVars ==
  <<pool, thread, ports, stage, lease, holder, active, unscanned, best>>

(* The stages of a port: closed, its lease counted and its task spawned,   *)
(* and, in the drop of the lease, uncounted but still a reference.         *)
Stages == {"closed", "leased", "uncounted"}

Nothing == [worker |-> NoWorker, load |-> 0]

InitPool ==
  /\ pool = {} /\ thread = [w \in Workers |-> "none"]
  /\ ports = [w \in Workers |-> 0]
  /\ stage = [p \in Ports |-> "closed"]
  /\ lease = [p \in Ports |-> NoWorker]
  /\ holder = NoPort /\ active = {} /\ unscanned = {} /\ best = Nothing

(* Somebody holds a strong reference.                                      *)
Leases(w) == {p \in Ports : lease[p] = w}
Alive(w) == Leases(w) # {} \/ w \in active

(* acquire takes the mutex, upgrades what can be upgraded and forgets the  *)
(* rest.                                                                   *)
AllEntries == pool

Upgradable == {w \in pool : Alive(w)}

Lock(p) ==
  /\ holder = NoPort /\ stage[p] = "closed"
  /\ holder' = p
  /\ active' = Upgradable /\ unscanned' = Upgradable /\ pool' = Upgradable
  /\ best' = Nothing
  /\ UNCHANGED <<thread, ports, stage, lease>>

(* One load of min_by_key, while other threads go on releasing.            *)
Scan(w) ==
  /\ holder # NoPort /\ w \in unscanned
  /\ unscanned' = unscanned \ {w}
  /\ best' = IF best.worker = NoWorker \/ ports[w] < best.load
             THEN [worker |-> w, load |-> ports[w]] ELSE best
  /\ UNCHANGED <<pool, thread, ports, stage, lease, holder, active>>

(* The least busy worker is taken when it is idle by now or when no more   *)
(* may be started.                                                         *)
NeverAtLimit == FALSE

AtLimit == Cardinality(active) >= Limit

AnyReusable == best.worker # NoWorker

Reusable ==
  best.worker # NoWorker /\ (ports[best.worker] = 0 \/ AtLimit)

UnlockKeeping == holder' = NoPort /\ active' = active /\ best' = Nothing

Unlock == holder' = NoPort /\ active' = {} /\ best' = Nothing

StaleLoad(w) == IF w = best.worker THEN best.load + 1 ELSE ports[w] + 1

Counted(w) == ports[w] + 1

Grant(w) ==
  /\ ports' = [ports EXCEPT ![w] = Counted(w)]
  /\ lease' = [lease EXCEPT ![holder] = w]
  /\ stage' = [stage EXCEPT ![holder] = "leased"]
  /\ Unlock

Reuse ==
  /\ holder # NoPort /\ unscanned = {} /\ Reusable
  /\ Grant(best.worker)
  /\ UNCHANGED <<pool, thread, unscanned>>

Start(w) ==
  /\ holder # NoPort /\ unscanned = {} /\ ~Reusable
  /\ thread[w] = "none"
  /\ thread' = [thread EXCEPT ![w] = "running"]
  /\ pool' = pool \cup {w}
  /\ Grant(w)
  /\ UNCHANGED unscanned

(* The thread or its runtime cannot be created: the constructor throws.    *)
StartFails ==
  /\ holder # NoPort /\ unscanned = {} /\ ~Reusable
  /\ Unlock
  /\ UNCHANGED <<pool, thread, ports, stage, lease, unscanned>>

(* The port's task ends: Lease::drop uncounts it and then drops the        *)
(* reference to the worker.                                                *)
Uncount(p) ==
  /\ stage[p] = "leased"
  /\ stage' = [stage EXCEPT ![p] = "uncounted"]
  /\ ports' = [ports EXCEPT ![lease[p]] = @ - 1]
  /\ UNCHANGED <<pool, thread, lease, holder, active, unscanned, best>>

Drop(p) ==
  /\ stage[p] = "uncounted"
  /\ stage' = [stage EXCEPT ![p] = "closed"]
  /\ lease' = [lease EXCEPT ![p] = NoWorker]
  /\ UNCHANGED <<pool, thread, ports, holder, active, unscanned, best>>

(* Worker::drop runs once the last reference is gone, notifies the thread, *)
(* and the thread leaves block_on.                                         *)
Retire(w) ==
  /\ thread[w] = "running" /\ ~Alive(w)
  /\ thread' = [thread EXCEPT ![w] = "stopping"]
  /\ UNCHANGED <<pool, ports, stage, lease, holder, active, unscanned, best>>

(* Only now can another worker stand for the same element of Workers; its  *)
(* weak entry no longer upgrades.                                          *)
Exit(w) ==
  /\ thread[w] = "stopping"
  /\ thread' = [thread EXCEPT ![w] = "none"]
  /\ pool' = pool \ {w}
  /\ UNCHANGED <<ports, stage, lease, holder, active, unscanned, best>>

Acquire ==
  (\E w \in Workers : Scan(w) \/ Start(w)) \/ Reuse \/ StartFails

Release == \E p \in Ports : Uncount(p) \/ Drop(p)

Ending == \E w \in Workers : Retire(w) \/ Exit(w)

NextPool == (\E p \in Ports : Lock(p)) \/ Acquire \/ Release \/ Ending

PoolSpec == InitPool /\ [][NextPool]_poolVars

(* Every call of acquire ends; every lease that is being dropped, and the  *)
(* thread of every worker that nobody references, goes on.                 *)
FairPoolSpec ==
  /\ PoolSpec
  /\ WF_poolVars(Acquire) /\ WF_poolVars(\E p \in Ports : Drop(p))
  /\ \A w \in Workers : WF_poolVars(Retire(w)) /\ WF_poolVars(Exit(w))

-----------------------------------------------------------------------------
TypeOK ==
  /\ pool \subseteq Workers
  /\ thread \in [Workers -> {"none", "running", "stopping"}]
  /\ ports \in [Workers -> Nat]
  /\ stage \in [Ports -> Stages]
  /\ lease \in [Ports -> Workers \cup {NoWorker}]
  /\ holder \in Ports \cup {NoPort}
  /\ active \subseteq Workers /\ unscanned \subseteq active
  /\ best \in [worker : Workers \cup {NoWorker}, load : Nat]

(* The worker of a port runs until the port's lease is dropped: reuse by   *)
(* acquire never races with the retirement of the worker it reuses.        *)
ServedByRunning ==
  \A p \in Ports : lease[p] # NoWorker => thread[lease[p]] = "running"

(* No more than Limit workers are referenced at a time.  In particular the *)
(* array of MAX_WORKERS entries that acquire fills never overflows.        *)
Bounded == Cardinality({w \in Workers : Alive(w)}) <= Limit

(* Worker.ports counts the leases that are not being dropped: it neither   *)
(* drifts nor wraps around below zero.                                     *)
CountsLeases ==
  \A w \in Workers :
    ports[w] = Cardinality({p \in Leases(w) : stage[p] = "leased"})

(* A port only joins a worker that serves another port when the limit of   *)
(* workers is reached, whatever was released since the loads were read.    *)
SharesAtLimit ==
  [][\A p \in Ports :
       /\ lease[p] = NoWorker /\ lease'[p] # NoWorker
       /\ \E q \in Leases(lease'[p]) : stage[q] = "leased"
       => Cardinality({w \in Workers : Alive(w)}) >= Limit]_poolVars

(* A worker that no port leases any more retires, however often the pool   *)
(* is used in the meantime.                                                *)
Retires ==
  \A w \in Workers :
    (thread[w] = "running" /\ Leases(w) = {})
      ~> (thread[w] # "running" \/ Leases(w) # {})
=============================================================================

-------------------------- MODULE AnyClientProofs --------------------------
(***************************************************************************)
(* What holds of a native port for every value of the constants and every  *)
(* client: the admission count, the types, the release before the close    *)
(* event, the silence after a stop, the order of the units on the wire,    *)
(* the drain barrier, and the completions of the ordered requests.         *)
(*                                                                         *)
(* Admission comes first: pending_ops counts exactly the ordered commands  *)
(* that were admitted and are not executed yet, and never exceeds          *)
(* MaxPending.  The count is a cardinality of a set of ids, so the         *)
(* invariant has to say why no id occurs twice: ids increase from the      *)
(* front of the task's commands to the end of the channel.                 *)
(***************************************************************************)
EXTENDS AnyClient, FiniteSetTheorems, TLAPS

Requests == [op : OrderedOps \cup {"read"}, size : Nat,
             state : {"queued", "inline", "refused"}]

CallRecords ==
  [step : {"none", "snapshot", "checked", "remainder"}, id : Nat, from : Nat,
   size : Nat, inline : BOOLEAN]

QueueTypes ==
  /\ channel \in Seq(Command) /\ commands \in Seq(Command)
  /\ requests \in Seq(Requests)
  /\ call \in CallRecords
  /\ pendingOps \in Nat
  /\ queued \in 0 .. OutCap /\ written \in Nat

(* The ids of ordered commands increase along a queue, and are at most n.  *)
Increasing(s) ==
  \A i, j \in 1 .. Len(s) :
    i < j /\ Ordered(s[i].op) /\ Ordered(s[j].op) => s[i].id < s[j].id

AtMost(s, n) == \A i \in 1 .. Len(s) : Ordered(s[i].op) => s[i].id <= n

Before(s, t) ==
  \A i \in 1 .. Len(s), j \in 1 .. Len(t) :
    Ordered(s[i].op) /\ Ordered(t[j].op) => s[i].id < t[j].id

Submission ==
  /\ Increasing(channel) /\ Increasing(commands) /\ Before(commands, channel)
  /\ AtMost(channel, Len(requests)) /\ AtMost(commands, Len(requests))
  /\ \A i \in 1 .. Len(commands) : Ordered(commands[i].op)
  /\ call.step # "none" => call.id = Len(requests) + 1

(* Where the task has no commands, where it has dropped the receiver, and   *)
(* where it has a command for certain.                                     *)
Ended == {"completing", "releasing", "closing", "done"}
Empty == {"opening", "opened"} \cup Ended

Places ==
  /\ pc \in Empty => commands = <<>>
  /\ ~receiving => pc \in Ended
  /\ pc = "draining" => commands # <<>>

InFlight == OrderedIn(channel) \cup OrderedIn(commands)

Counting ==
  /\ IsFiniteSet(InFlight)
  /\ receiving => pendingOps = Cardinality(InFlight) /\ pendingOps <= MaxPending

Inv == QueueTypes /\ Submission /\ Places /\ Counting

-----------------------------------------------------------------------------
(* The ids in a queue after an append and after taking its head.           *)
LEMMA OrderedInAppend ==
  ASSUME NEW s \in Seq(Command), NEW c \in Command
  PROVE  OrderedIn(Append(s, c))
           = IF Ordered(c.op) THEN OrderedIn(s) \cup {c.id} ELSE OrderedIn(s)
<1>1. /\ Append(s, c) \in Seq(Command) /\ Len(Append(s, c)) = Len(s) + 1
      /\ \A i \in 1 .. Len(s) : Append(s, c)[i] = s[i]
      /\ Append(s, c)[Len(s) + 1] = c
      /\ Len(s) \in Nat
  OBVIOUS
<1>2. /\ DOMAIN s = 1 .. Len(s)
      /\ DOMAIN Append(s, c) = (1 .. Len(s)) \cup {Len(s) + 1}
  BY <1>1
<1> QED
  BY <1>1, <1>2 DEF OrderedIn

LEMMA OrderedInTail ==
  ASSUME NEW s \in Seq(Command), s # <<>>
  PROVE  OrderedIn(s) = IF Ordered(Head(s).op)
                        THEN OrderedIn(Tail(s)) \cup {Head(s).id}
                        ELSE OrderedIn(Tail(s))
<1>1. /\ Len(s) \in Nat \ {0} /\ DOMAIN s = 1 .. Len(s)
      /\ DOMAIN Tail(s) = 1 .. (Len(s) - 1)
      /\ \A i \in 1 .. (Len(s) - 1) : Tail(s)[i] = s[i + 1]
      /\ Head(s) = s[1]
  OBVIOUS
<1>2. ASSUME NEW x \in OrderedIn(s)
      PROVE  (Ordered(s[1].op) /\ x = s[1].id) \/ x \in OrderedIn(Tail(s))
  <2>1. PICK i \in DOMAIN s : Ordered(s[i].op) /\ x = s[i].id
    BY DEF OrderedIn
  <2>2. CASE i = 1
    BY <2>1, <2>2
  <2>3. CASE i # 1
    <3>1. i - 1 \in DOMAIN Tail(s) /\ Tail(s)[i - 1] = s[i]
      BY <1>1, <2>3
    <3> QED
      BY <2>1, <3>1 DEF OrderedIn
  <2> QED
    BY <2>2, <2>3
<1>3. ASSUME NEW x \in OrderedIn(Tail(s)) PROVE x \in OrderedIn(s)
  <2>1. PICK i \in DOMAIN Tail(s) : Ordered(Tail(s)[i].op) /\ x = Tail(s)[i].id
    BY DEF OrderedIn
  <2>2. i + 1 \in DOMAIN s /\ Tail(s)[i] = s[i + 1]
    BY <1>1
  <2> QED
    BY <2>1, <2>2 DEF OrderedIn
<1>4. Ordered(s[1].op) => s[1].id \in OrderedIn(s)
  BY <1>1 DEF OrderedIn
<1> QED
  BY <1>1, <1>2, <1>3, <1>4

(* Both keep the order of the ids.                                         *)
LEMMA IncreasingAppend ==
  ASSUME NEW s \in Seq(Command), NEW c \in Command, NEW n \in Nat,
         Increasing(s), AtMost(s, n), Ordered(c.op) => c.id = n + 1
  PROVE  Increasing(Append(s, c)) /\ AtMost(Append(s, c), n + 1)
<1>1. /\ Len(s) \in Nat /\ Append(s, c) \in Seq(Command)
      /\ Len(Append(s, c)) = Len(s) + 1
      /\ \A i \in 1 .. Len(s) : Append(s, c)[i] = s[i]
      /\ Append(s, c)[Len(s) + 1] = c
  OBVIOUS
<1>2. \A i \in 1 .. Len(s) : s[i].id \in Nat
  <2>1. \A i \in 1 .. Len(s) : s[i] \in Command
    OBVIOUS
  <2> QED
    BY <2>1 DEF Command
<1>3. AtMost(Append(s, c), n + 1)
  BY <1>1, <1>2 DEF AtMost
<1>4. Increasing(Append(s, c))
  <2> DEFINE a == Append(s, c)
  <2> SUFFICES ASSUME NEW i \in 1 .. Len(a), NEW j \in 1 .. Len(a), i < j,
                      Ordered(a[i].op), Ordered(a[j].op)
               PROVE  a[i].id < a[j].id
    BY DEF Increasing
  <2>1. i \in 1 .. Len(s) /\ a[i] = s[i]
    BY <1>1
  <2>2. CASE j = Len(s) + 1
    BY <1>1, <1>2, <2>1, <2>2 DEF AtMost
  <2>3. CASE j \in 1 .. Len(s)
    <3>1. a[j] = s[j]
      BY <1>1, <2>3
    <3> QED
      BY <2>1, <2>3, <3>1 DEF Increasing
  <2> QED
    BY <1>1, <2>2, <2>3
<1> QED
  BY <1>3, <1>4

LEMMA AtMostNext ==
  ASSUME NEW s \in Seq(Command), NEW n \in Nat, AtMost(s, n)
  PROVE  AtMost(s, n + 1)
<1>1. \A i \in 1 .. Len(s) : s[i] \in Command
  OBVIOUS
<1>2. \A i \in 1 .. Len(s) : s[i].id \in Nat
  BY <1>1 DEF Command
<1> QED
  BY <1>2 DEF AtMost

(* An id after all those of a queue is not in it.                          *)
LEMMA FreshId ==
  ASSUME NEW s \in Seq(Command), NEW n \in Nat, AtMost(s, n)
  PROVE  n + 1 \notin OrderedIn(s)
<1>1. DOMAIN s = 1 .. Len(s) /\ \A i \in 1 .. Len(s) : s[i] \in Command
  OBVIOUS
<1>2. \A i \in 1 .. Len(s) : s[i].id \in Nat
  BY <1>1 DEF Command
<1> QED
  BY <1>1, <1>2 DEF OrderedIn, AtMost

LEMMA TailOrder ==
  ASSUME NEW s \in Seq(Command), s # <<>>, NEW n \in Nat, NEW t \in Seq(Command)
  PROVE  /\ Increasing(s) => Increasing(Tail(s))
         /\ AtMost(s, n) => AtMost(Tail(s), n)
         /\ Before(s, t) => Before(Tail(s), t)
         /\ Before(t, s) => Before(t, Tail(s))
         /\ Increasing(s) /\ Ordered(Head(s).op) =>
              Head(s).id \notin OrderedIn(Tail(s))
         /\ Before(s, t) /\ Ordered(Head(s).op) => Head(s).id \notin OrderedIn(t)
<1>1. /\ Len(s) \in Nat \ {0} /\ Tail(s) \in Seq(Command)
      /\ Len(Tail(s)) = Len(s) - 1
      /\ \A i \in 1 .. Len(Tail(s)) : Tail(s)[i] = s[i + 1]
      /\ Head(s) = s[1] /\ DOMAIN Tail(s) = 1 .. Len(Tail(s))
      /\ DOMAIN t = 1 .. Len(t)
  OBVIOUS
<1>5. \A i \in 1 .. Len(s) : s[i].id \in Nat
  <2>1. \A i \in 1 .. Len(s) : s[i] \in Command
    OBVIOUS
  <2> QED
    BY <2>1 DEF Command
<1>2. /\ Increasing(s) => Increasing(Tail(s))
      /\ AtMost(s, n) => AtMost(Tail(s), n)
      /\ Before(s, t) => Before(Tail(s), t)
      /\ Before(t, s) => Before(t, Tail(s))
  BY <1>1 DEF Increasing, AtMost, Before
<1>3. Increasing(s) /\ Ordered(s[1].op) => s[1].id \notin OrderedIn(Tail(s))
  BY <1>1, <1>5, SMTT(40) DEF Increasing, OrderedIn
<1>4. Before(s, t) /\ Ordered(s[1].op) => s[1].id \notin OrderedIn(t)
  <2> SUFFICES ASSUME Before(s, t), Ordered(s[1].op), NEW j \in 1 .. Len(t),
                      Ordered(t[j].op), t[j].id = s[1].id
               PROVE  FALSE
    BY <1>1 DEF OrderedIn
  <2> QED
    BY <1>1, <1>5 DEF Before
<1> QED
  BY <1>1, <1>2, <1>3, <1>4

-----------------------------------------------------------------------------
LEMMA InitInv == Init => Inv
<1> SUFFICES ASSUME Init PROVE Inv
  OBVIOUS
<1> USE DEF Init, InitNative, InitReactor
<1>1. InFlight = {}
  BY DEF InFlight, OrderedIn
<1>2. Counting
  BY <1>1, FS_EmptySet, NativeAssumption DEF Counting
<1>3. QueueTypes
  BY NativeAssumption DEF QueueTypes, CallRecords, NoCall
<1>4. Submission
  BY DEF Submission, Increasing, Before, AtMost, NoCall
<1>5. Places
  BY DEF Places, Empty, Ended
<1> QED
  BY <1>2, <1>3, <1>4, <1>5 DEF Inv

(* Steps that move no command.                                             *)
LEMMA Frame ==
  ASSUME Inv, Places', queued' \in 0 .. OutCap, written' \in Nat,
         UNCHANGED <<channel, receiving, commands, pendingOps, requests, call>>
  PROVE  Inv'
BY DEF Inv, QueueTypes, Submission, Counting, InFlight, OrderedIn

(* enqueue of the command of a request: its id is the next one.            *)
LEMMA EnqueueInv ==
  ASSUME Inv, NEW c \in Command, c.id = Len(requests) + 1, Enqueue(c),
         NEW r \in Requests, requests' = Append(requests, r),
         call' \in CallRecords, call'.step = "none",
         UNCHANGED <<receiving, commands, written, pc, queued>>
  PROVE  Inv'
<1> USE DEF Inv
<1>1. QueueTypes'
  <2>1. pendingOps' \in Nat /\ channel' \in Seq(Command)
    <3>1. CASE Admits(c.op)
      <4>1. pendingOps' = pendingOps + (IF Ordered(c.op) THEN 1 ELSE 0)
        BY <3>1 DEF Enqueue
      <4>2. channel' = Append(channel, c)
        BY <3>1 DEF Enqueue
      <4>3. channel' \in Seq(Command)
        BY <4>2 DEF QueueTypes
      <4> QED
        BY <4>1, <4>3 DEF QueueTypes
    <3>2. CASE ~Admits(c.op)
      BY <3>2 DEF QueueTypes, Enqueue, PendingWhenRefused
    <3> QED
      BY <3>1, <3>2
  <2> QED
    BY <2>1 DEF QueueTypes
<1>2. Len(requests') = Len(requests) + 1 /\ Len(requests) \in Nat
  BY DEF QueueTypes
<1>3. Submission'
  <2>1. CASE channel' = Append(channel, c)
    <3>1. Increasing(channel') /\ AtMost(channel', Len(requests'))
      BY <1>2, <2>1, IncreasingAppend DEF Submission, QueueTypes
    <3>2. Before(commands', channel')
      <4>1. /\ Len(channel') = Len(channel) + 1 /\ channel'[Len(channel) + 1] = c
            /\ \A i \in 1 .. Len(channel) : channel'[i] = channel[i]
            /\ Len(channel) \in Nat
        BY <2>1 DEF QueueTypes
      <4>2. \A i \in 1 .. Len(commands) : commands[i].id \in Nat
        <5>1. \A i \in 1 .. Len(commands) : commands[i] \in Command
          BY DEF QueueTypes
        <5> QED
          BY <5>1 DEF Command
      <4> QED
        BY <1>2, <4>1, <4>2 DEF Submission, Before, AtMost
    <3>3. AtMost(commands', Len(requests'))
      BY <1>2, AtMostNext DEF Submission, QueueTypes
    <3> QED
      BY <3>1, <3>2, <3>3 DEF Submission
  <2>2. CASE channel' = channel
    <3>2. AtMost(channel', Len(requests')) /\ AtMost(commands', Len(requests'))
      BY <1>2, <2>2, AtMostNext DEF Submission, QueueTypes
    <3> QED
      BY <2>2, <3>2 DEF Submission
  <2> QED
    BY <2>1, <2>2 DEF Enqueue
<1>4. Counting'
  <2>1. CASE Admits(c.op)
    <3>1. /\ channel' = Append(channel, c)
          /\ pendingOps' = pendingOps + (IF Ordered(c.op) THEN 1 ELSE 0)
      BY <2>1 DEF Enqueue
    <3>2. InFlight' = IF Ordered(c.op) THEN InFlight \cup {c.id} ELSE InFlight
      BY <3>1, OrderedInAppend DEF InFlight, QueueTypes
    <3>3. c.id \notin InFlight
      BY <1>2, FreshId DEF InFlight, QueueTypes, Submission
    <3>4. IsFiniteSet(InFlight')
      BY <3>2, FS_AddElement DEF Counting
    <3>5. CASE Ordered(c.op)
      <4>1. Cardinality(InFlight') = Cardinality(InFlight) + 1
        BY <3>2, <3>3, <3>5, FS_AddElement DEF Counting
      <4>2. pendingOps < MaxPending
        BY <2>1, <3>5, NativeAssumption DEF Admits, Backlogged, QueueTypes
      <4> QED
        BY <3>1, <3>4, <3>5, <4>1, <4>2, NativeAssumption
        DEF Counting, QueueTypes
    <3>6. CASE ~Ordered(c.op)
      BY <3>1, <3>2, <3>6 DEF Counting, QueueTypes
    <3> QED
      BY <3>5, <3>6
  <2>2. CASE ~Admits(c.op)
    BY <2>2 DEF Enqueue, PendingWhenRefused, Counting, InFlight, OrderedIn
  <2> QED
    BY <2>1, <2>2
<1> QED
  BY <1>1, <1>3, <1>4 DEF Places

(* A read credit has no id, and is not counted.                            *)
LEMMA CreditInv ==
  ASSUME Inv, NEW c \in Command, c.op = "credit", Enqueue(c),
         UNCHANGED <<receiving, commands, written, pc, queued, requests, call>>
  PROVE  Inv'
<1> USE DEF Inv
<1>1. ~Ordered(c.op)
  BY DEF Ordered, OrderedOps
<1>2. CASE channel' = channel
  <2>1. pendingOps' = pendingOps
    BY <1>1, <1>2 DEF Enqueue, PendingWhenRefused, QueueTypes
  <2> QED
    BY <1>2, <2>1, Frame DEF Places, QueueTypes
<1>3. CASE channel' = Append(channel, c)
  <2>1. pendingOps' = pendingOps
    BY <1>1 DEF Enqueue, PendingWhenRefused, QueueTypes
  <2>2. InFlight' = InFlight
    BY <1>1, <1>3, OrderedInAppend DEF InFlight, QueueTypes
  <2>3. /\ Len(channel') = Len(channel) + 1 /\ channel'[Len(channel) + 1] = c
        /\ \A i \in 1 .. Len(channel) : channel'[i] = channel[i]
        /\ Len(channel) \in Nat /\ channel' \in Seq(Command)
    BY <1>3 DEF QueueTypes
  <2>4. Increasing(channel') /\ AtMost(channel', Len(requests'))
    BY <1>1, <2>3 DEF Submission, Increasing, AtMost
  <2>5. Before(commands', channel')
    BY <1>1, <2>3 DEF Submission, Before
  <2>6. QueueTypes' /\ Submission'
    BY <2>1, <2>3, <2>4, <2>5 DEF QueueTypes, Submission
  <2> QED
    BY <2>1, <2>2, <2>6 DEF Counting, Places
<1> QED
  BY <1>2, <1>3 DEF Enqueue

(* An attempt at an immediate write either records the request or leaves   *)
(* its remainder to be enqueued, with the next id in both cases.           *)
LEMMA AttemptInv ==
  ASSUME Inv, NEW size \in Nat, NEW inline \in BOOLEAN,
         Attempt(Len(requests) + 1, size, inline),
         UNCHANGED <<channel, receiving, commands, written, pendingOps, pc>>
  PROVE  Inv'
<1> USE DEF Inv
<1>1. PICK ok \in Outcomes(inline) :
        LET n == IF ok THEN Fitting(size) ELSE 0
        IN  /\ queued' = queued + n
            /\ IF ok /\ n = size
               THEN /\ call' = NoCall
                    /\ requests' = Append(requests, [op |-> "write",
                                       size |-> size, state |-> "inline"])
               ELSE /\ call' = [step |-> "remainder", id |-> Len(requests) + 1,
                                from |-> n, size |-> size, inline |-> inline]
                    /\ requests' = requests
  BY DEF Attempt, Accept
<1> DEFINE n == IF ok THEN Fitting(size) ELSE 0
<1>2. n \in Nat /\ queued' \in 0 .. OutCap /\ Len(requests) \in Nat
  BY <1>1, NativeAssumption DEF Fitting, Least, QueueTypes
<1>3. CASE requests' = requests /\ call'.step # "none"
  <2>1. call' \in CallRecords /\ call'.id = Len(requests) + 1
    BY <1>1, <1>2, <1>3 DEF NoCall, CallRecords
  <2> QED
    BY <1>2, <1>3, <2>1
    DEF QueueTypes, Submission, Places, Counting, InFlight, OrderedIn
<1>4. CASE /\ call' = NoCall
           /\ requests' = Append(requests, [op |-> "write", size |-> size,
                                            state |-> "inline"])
  <2>1. /\ Len(requests') = Len(requests) + 1 /\ requests' \in Seq(Requests)
        /\ call' \in CallRecords /\ call'.step = "none"
    BY <1>4 DEF QueueTypes, Requests, OrderedOps, NoCall, CallRecords
  <2>2. AtMost(channel', Len(requests')) /\ AtMost(commands', Len(requests'))
    BY <1>2, <2>1, AtMostNext DEF Submission, QueueTypes
  <2> QED
    BY <1>2, <2>1, <2>2
    DEF QueueTypes, Submission, Places, Counting, InFlight, OrderedIn
<1> QED
  BY <1>1, <1>3, <1>4

-----------------------------------------------------------------------------
(* The task receives the head of the channel: an ordered command keeps its *)
(* admission, a read or a credit has none.                                 *)
LEMMA ReceiveInv ==
  ASSUME Inv, channel # <<>>, channel' = Tail(channel),
         \/ Ordered(Head(channel).op) /\ commands' = Queue(Head(channel))
         \/ ~Ordered(Head(channel).op) /\ commands' = commands,
         pc \notin Empty, pc' \notin Empty, pc' # "draining",
         UNCHANGED <<receiving, pendingOps, requests, call, queued, written>>
  PROVE  Inv'
<1> USE DEF Inv
<1> DEFINE c == Head(channel)
<1>1. /\ c \in Command /\ channel' \in Seq(Command) /\ Len(requests) \in Nat
  BY DEF QueueTypes
<1>2. /\ Increasing(channel') /\ AtMost(channel', Len(requests))
      /\ Before(commands, channel')
  BY TailOrder DEF Submission, QueueTypes
<1>3. receiving
  BY DEF Places, Empty
<1>4. CASE ~Ordered(c.op) /\ commands' = commands
  <2>1. InFlight' = InFlight
    BY <1>4, OrderedInTail DEF InFlight, QueueTypes
  <2> QED
    BY <1>1, <1>2, <1>3, <1>4, <2>1 DEF QueueTypes, Submission, Places, Counting
<1>5. CASE Ordered(c.op) /\ commands' = Append(commands, c)
  <2>1. InFlight' = InFlight
    BY <1>1, <1>5, OrderedInTail, OrderedInAppend DEF InFlight, QueueTypes
  <2>2. /\ Len(commands') = Len(commands) + 1 /\ commands'[Len(commands) + 1] = c
        /\ \A i \in 1 .. Len(commands) : commands'[i] = commands[i]
        /\ Len(commands) \in Nat /\ commands' \in Seq(Command)
        /\ commands' # <<>>
    BY <1>1, <1>5 DEF QueueTypes
  <2>3. /\ Len(channel) \in Nat \ {0} /\ c = channel[1]
        /\ Len(channel') = Len(channel) - 1
        /\ \A i \in 1 .. Len(channel') : channel'[i] = channel[i + 1]
    BY DEF QueueTypes
  <2>4. AtMost(commands', Len(requests))
    BY <1>5, <2>2, <2>3 DEF Submission, AtMost
  <2>5. \A i \in 1 .. Len(commands') : Ordered(commands'[i].op)
    BY <1>5, <2>2 DEF Submission
  <2>6. Increasing(commands')
    <3> SUFFICES ASSUME NEW i \in 1 .. Len(commands'),
                        NEW j \in 1 .. Len(commands'), i < j
                 PROVE  commands'[i].id < commands'[j].id
      BY DEF Increasing
    <3>1. i \in 1 .. Len(commands) /\ commands'[i] = commands[i]
      BY <2>2
    <3>2. CASE j = Len(commands) + 1
      BY <1>5, <2>2, <2>3, <3>1, <3>2 DEF Submission, Before
    <3>3. CASE j \in 1 .. Len(commands)
      BY <2>2, <3>1, <3>3 DEF Submission, Increasing
    <3> QED
      BY <2>2, <3>2, <3>3
  <2>7. Before(commands', channel')
    <3> SUFFICES ASSUME NEW i \in 1 .. Len(commands'),
                        NEW j \in 1 .. Len(channel'), Ordered(channel'[j].op)
                 PROVE  commands'[i].id < channel'[j].id
      BY DEF Before
    <3>1. CASE i = Len(commands) + 1
      BY <1>5, <2>2, <2>3, <3>1 DEF Submission, Increasing
    <3>2. CASE i \in 1 .. Len(commands)
      BY <1>2, <2>2, <3>2 DEF Submission, Before
    <3> QED
      BY <2>2, <3>1, <3>2
  <2> QED
    BY <1>1, <1>2, <1>3, <1>5, <2>1, <2>2, <2>4, <2>5, <2>6, <2>7
    DEF QueueTypes, Submission, Places, Counting
<1> QED
  BY <1>4, <1>5 DEF Queue

(* The task is done with its front command: the id leaves the count, and   *)
(* no other command has it.                                                *)
LEMMA RetireInv ==
  ASSUME Inv, commands # <<>>, receiving,
         commands' = Tail(commands), pendingOps' = pendingOps - 1,
         queued' \in 0 .. OutCap, written' \in Nat, pc' = "answer",
         UNCHANGED <<channel, receiving, requests, call>>
  PROVE  Inv'
<1> USE DEF Inv
<1> DEFINE c == Head(commands)
<1>1. /\ c \in Command /\ Ordered(c.op) /\ commands' \in Seq(Command)
      /\ Len(requests) \in Nat /\ Len(commands) \in Nat \ {0}
      /\ Len(commands') = Len(commands) - 1
      /\ \A i \in 1 .. Len(commands') : commands'[i] = commands[i + 1]
  BY DEF QueueTypes, Submission
<1>2. InFlight = InFlight' \cup {c.id}
  BY <1>1, OrderedInTail DEF InFlight, QueueTypes, OrderedIn
<1>3. c.id \notin InFlight'
  <2>1. OrderedIn(channel') = OrderedIn(channel)
    BY DEF OrderedIn
  <2> QED
    BY <1>1, <2>1, TailOrder DEF InFlight, QueueTypes, Submission
<1>4. /\ Increasing(commands') /\ AtMost(commands', Len(requests))
      /\ Before(commands', channel)
  BY <1>1, TailOrder DEF Submission, QueueTypes
<1>5. InFlight' = InFlight \ {c.id} /\ c.id \in InFlight
  BY <1>2, <1>3
<1>6. /\ IsFiniteSet(InFlight')
      /\ Cardinality(InFlight') = Cardinality(InFlight) - 1
      /\ Cardinality(InFlight) \in Nat \ {0}
  <2>1. /\ IsFiniteSet(InFlight')
        /\ Cardinality(InFlight') = Cardinality(InFlight) - 1
    BY <1>5, FS_RemoveElement DEF Counting
  <2> QED
    BY <1>5, <2>1, FS_CardinalityType, FS_EmptySet DEF Counting
<1>7. pendingOps' \in Nat /\ pendingOps' = Cardinality(InFlight')
      /\ pendingOps' <= MaxPending
  BY <1>6, NativeAssumption DEF Counting, QueueTypes
<1>8. QueueTypes' /\ Counting'
  BY <1>1, <1>6, <1>7 DEF QueueTypes, Counting
<1>9. Submission' /\ Places'
  BY <1>1, <1>4 DEF Submission, Places, Empty, Ended
<1> QED
  BY <1>8, <1>9

-----------------------------------------------------------------------------
LEMMA ClientInv ==
  ASSUME Inv, AnyCall, UNCHANGED reactorVars PROVE Inv'
<1> USE DEF Inv, reactorVars, taskVars
<1>1. /\ Len(requests) \in Nat /\ requests \in Seq(Requests)
      /\ call \in CallRecords /\ queued \in 0 .. OutCap /\ written \in Nat
  BY DEF QueueTypes
<1>2. ASSUME NEW op \in OrderedOps, Request(op) PROVE Inv'
  <2> DEFINE c == [id |-> NextId, op |-> op, from |-> 0, size |-> 0, slots |-> 0]
             r == [op |-> op, size |-> 0,
                   state |-> IF Admits(op) THEN "queued" ELSE "refused"]
  <2>1. /\ c \in Command /\ c.id = Len(requests) + 1 /\ r \in Requests
    BY <1>1, <1>2 DEF Request, Command, Requests, OrderedOps, NextId
  <2>2. call.step = "none"
    BY <1>2 DEF Request, JsIdle
  <2>3. Enqueue(c) /\ requests' = Append(requests, r)
    BY <1>2 DEF Request, Recorded
  <2> QED
    BY <1>1, <1>2, <2>1, <2>2, <2>3, EnqueueInv DEF Request
<1>3. ASSUME NEW size \in 1 .. ChunkSize, ReadRequest(size) PROVE Inv'
  <2> DEFINE c == [id |-> NextId, op |-> "read", from |-> 0, size |-> size,
                   slots |-> 0]
             r == [op |-> "read", size |-> size,
                   state |-> IF Admits("read") THEN "queued" ELSE "refused"]
  <2>1. size \in Nat
    BY <1>3, NativeAssumption DEF ReadRequest
  <2>2. c \in Command /\ c.id = Len(requests) + 1 /\ r \in Requests
    BY <1>1, <2>1 DEF Command, Requests, NextId
  <2>3. call.step = "none"
    BY <1>3 DEF ReadRequest, JsIdle
  <2>4. Enqueue(c) /\ requests' = Append(requests, r)
    BY <1>3 DEF ReadRequest, Recorded
  <2> QED
    BY <1>1, <1>3, <2>2, <2>3, <2>4, EnqueueInv DEF ReadRequest
<1>4. ASSUME NEW bytes \in 1 .. ChunkSize, NEW slots \in 1 .. ReadSlots,
             ReadCredit(bytes, slots)
      PROVE  Inv'
  <2> DEFINE c == [id |-> 0, op |-> "credit", from |-> 0, size |-> bytes,
                   slots |-> slots]
  <2>1. c \in Command /\ c.op = "credit"
    BY <1>4, NativeAssumption DEF ReadCredit, Command
  <2> QED
    BY <1>4, <2>1, CreditInv DEF ReadCredit
<1>5. ASSUME NEW size \in 0 .. ChunkSize, NEW inline \in BOOLEAN,
             Write(size, inline)
      PROVE  Inv'
  <2>1. call' \in CallRecords /\ call'.id = Len(requests) + 1
    BY <1>1, <1>5, NativeAssumption DEF Write, Calling, CallRecords, NextId
  <2> QED
    BY <1>5, <2>1
    DEF Write, QueueTypes, Submission, Places, Counting, InFlight, OrderedIn
<1>6. ASSUME NEW size \in 0 .. ChunkSize, NEW inline \in BOOLEAN,
             WritevSnapshot(size, inline)
      PROVE  Inv'
  <2>1. call' \in CallRecords /\ call'.id = Len(requests) + 1
    BY <1>1, <1>6, NativeAssumption
    DEF WritevSnapshot, Calling, CallRecords, NextId
  <2> QED
    BY <1>6, <2>1
    DEF WritevSnapshot, QueueTypes, Submission, Places, Counting, InFlight,
        OrderedIn
<1>7. CASE WriteAttempt
  <2>1. call.id = Len(requests) + 1 /\ call.size \in Nat
        /\ call.inline \in BOOLEAN
    BY <1>1, <1>7 DEF WriteAttempt, Submission, CallRecords
  <2> QED
    BY <1>7, <2>1, AttemptInv DEF WriteAttempt
<1>13. CASE WritevRecheck
  <2>1. /\ call' = [call EXCEPT !.step = "checked"] \/ call' = NoCall
        /\ UNCHANGED <<requests, queued, pendingOps, channel, receiving>>
        /\ call.step = "snapshot"
    BY <1>13 DEF WritevRecheck
  <2>3. call.id = Len(requests) + 1
    BY <1>13 DEF WritevRecheck, Submission
  <2>2. /\ call' \in CallRecords
        /\ call'.step # "none" => call'.id = Len(requests) + 1
    <3>1. CASE call' = NoCall
      BY <3>1 DEF NoCall, CallRecords
    <3>2. CASE call' = [call EXCEPT !.step = "checked"]
      BY <1>1, <2>3, <3>2 DEF CallRecords
    <3> QED
      BY <2>1, <3>1, <3>2
  <2> QED
    BY <1>1, <1>13, <2>1, <2>2
    DEF WritevRecheck, QueueTypes, Submission, Places, Counting, InFlight,
        OrderedIn
<1>8. CASE EnqueueRemainder
  <2> DEFINE c == [id |-> call.id, op |-> "write", from |-> call.from,
                   size |-> call.size, slots |-> 0]
             r == [op |-> "write", size |-> call.size,
                   state |-> IF Admits("write") THEN "queued" ELSE "refused"]
  <2>1. call.id = Len(requests) + 1
    BY <1>8 DEF EnqueueRemainder, Submission
  <2>2. c \in Command /\ r \in Requests
    BY <1>1 DEF CallRecords, Command, Requests, OrderedOps
  <2>3. call' \in CallRecords /\ call'.step = "none"
    BY <1>8 DEF EnqueueRemainder, NoCall, CallRecords
  <2>4. Enqueue(c) /\ requests' = Append(requests, r)
    BY <1>8 DEF EnqueueRemainder, Recorded
  <2> QED
    BY <1>8, <2>1, <2>2, <2>3, <2>4, EnqueueInv DEF EnqueueRemainder
<1>9. CASE Close \/ Notify \/ Consume \/ EnvTeardown
  BY <1>1, <1>9, Frame DEF Close, Notify, Consume, EnvTeardown, Places
<1> QED
  BY <1>2, <1>3, <1>4, <1>5, <1>6, <1>7, <1>8, <1>9, <1>13
  DEF AnyCall

LEMMA TaskInv ==
  ASSUME Inv, Task PROVE Inv'
<1> USE DEF Inv, controlVars, queueVars, jsVars, outVars, deviceVars
<1> DEFINE Quiet == UNCHANGED <<channel, receiving, commands, pendingOps,
                                requests, call>>
<1>1. receiving \/ pc \in Ended
  BY DEF Places
<1>2. queued \in 0 .. OutCap /\ written \in Nat
  BY DEF QueueTypes
<1>3. CASE \/ Opened \/ OpenFailed \/ PublishOpen \/ CheckStop \/ LeaveFront
  BY <1>1, <1>2, <1>3, Frame
  DEF Opened, OpenFailed, PublishOpen, CheckStop, LeaveFront, Places, Empty,
      Ended
<1>4. CASE FinishWrite \/ Control \/ FinishDrain
  <2>1. receiving /\ commands # <<>>
    BY <1>1, <1>4 DEF FinishWrite, Control, FinishDrain, FrontIs, Places, Ended
  <2>2. /\ commands' = Tail(commands) /\ pendingOps' = pendingOps - 1
        /\ pc' = "answer"
        /\ UNCHANGED <<channel, receiving, requests, call, queued>>
        /\ written' \in Nat
    BY <1>2, <1>4 DEF FinishWrite, Control, FinishDrain, Retire, AfterWrite
  <2> QED
    BY <1>2, <2>1, <2>2, RetireInv
<1>5. CASE Flush
  <2>1. receiving /\ commands # <<>>
    BY <1>1, <1>5 DEF Flush, FrontIs, Ended
  <2>2. queued' \in 0 .. OutCap /\ written' \in Nat
    BY <1>2, <1>5, NativeAssumption DEF Flush
  <2>3. /\ commands' = Tail(commands) /\ pendingOps' = pendingOps - 1
        /\ pc' = "answer"
        /\ UNCHANGED <<channel, receiving, requests, call>>
    BY <1>5 DEF Flush, Retire
  <2> QED
    BY <2>1, <2>2, <2>3, RetireInv
<1>6. CASE StartDrain \/ Notified \/ PollTransfers \/ NothingReady
           \/ TransferFailed
  BY <1>1, <1>2, <1>6, Frame
  DEF StartDrain, Notified, PollTransfers, NothingReady, TransferFailed,
      AfterIdlePoll, Draining, FrontIs, Places, Empty, Ended
<1>7. CASE SendAnswer
  BY <1>1, <1>2, <1>7, Frame DEF SendAnswer, Send, Places, Empty, Ended
<1>8. CASE ReceiveOrdered \/ ReceiveRead \/ ReceiveCredit
  <2>1. /\ channel # <<>> /\ channel' = Tail(channel) /\ pc = "select"
        /\ pc' \in {"top", "answer", "ended"}
        /\ UNCHANGED <<receiving, pendingOps, requests, call, queued, written>>
    BY <1>8 DEF ReceiveOrdered, ReceiveRead, ReceiveCredit, Receivable
  <2>2. \/ Ordered(Head(channel).op) /\ commands' = Queue(Head(channel))
        \/ ~Ordered(Head(channel).op) /\ commands' = commands
    BY <1>8 DEF ReceiveOrdered, ReceiveRead, ReceiveCredit, Ordered, OrderedOps
  <2> QED
    BY <2>1, <2>2, ReceiveInv DEF Empty, Ended
<1>9. CASE TransferWrite
  <2>1. queued' \in 0 .. OutCap /\ written' \in Nat
    <3>1. commands # <<>> /\ Remaining > 0
      BY <1>9 DEF TransferWrite, PicksWrite, WriteReady, WritePending, FrontIs
    <3>2. Head(commands) \in Command
      BY <3>1 DEF QueueTypes
    <3>3. Remaining \in Int
      BY <1>2, <3>2 DEF Remaining, FrontCommand, Command
    <3> QED
      BY <1>2, <1>9, <3>1, <3>3, NativeAssumption
      DEF TransferWrite, Accept, Fitting, Least
  <2> QED
    BY <1>1, <1>9, <2>1, Frame DEF TransferWrite, Places, Empty, Ended
<1>10. CASE TransferRead \/ TransferStream
  BY <1>1, <1>2, <1>10, Frame
  DEF TransferRead, TransferStream, Send, Places, Empty, Ended
<1>11. CASE BurstRead
  BY <1>1, <1>2, <1>11, Frame DEF BurstRead, Places, Empty, Ended
<1>12. CASE BurstEnd
  BY <1>1, <1>2, <1>12, Frame DEF BurstEnd, Send, Places, Empty, Ended
<1>13. CASE DropReceiver \/ SendClose
  <2>1. /\ channel' = <<>> /\ commands' = <<>> /\ receiving' = FALSE
        /\ pc' \in Ended
        /\ UNCHANGED <<pendingOps, requests, call, queued, written>>
    BY <1>13 DEF DropReceiver, SendClose, Places, Empty, Ended
  <2>2. InFlight' = {}
    BY <2>1 DEF InFlight, OrderedIn
  <2> QED
    BY <2>1, <2>2, FS_EmptySet
    DEF QueueTypes, Submission, Places, Counting, Increasing, AtMost, Before,
        Empty, Ended
<1>14. CASE MarkStopped \/ Release
  BY <1>1, <1>2, <1>14, Frame DEF MarkStopped, Release, Places, Empty, Ended
<1> QED
  BY <1>3, <1>4, <1>5, <1>6, <1>7, <1>8, <1>9, <1>10, <1>11, <1>12, <1>13,
     <1>14
  DEF Task

LEMMA NextInv == Inv /\ [AnyStep]_vars => Inv'
<1> SUFFICES ASSUME Inv, [AnyStep]_vars PROVE Inv'
  OBVIOUS
<1>1. CASE AnyCall /\ UNCHANGED reactorVars
  BY <1>1, ClientInv
<1>2. CASE Task
  BY <1>2, TaskInv
<1>3. CASE OfDevice
  <2>1. queued' \in 0 .. OutCap /\ written' \in Nat
    BY <1>3, NativeAssumption
    DEF Inv, QueueTypes, OfDevice, Arrive, Transmit, Shift, Lose, nativeVars,
        outVars, reactorVars, taskVars
  <2> QED
    BY <1>3, <2>1, Frame
    DEF OfDevice, Arrive, Transmit, Shift, Lose, nativeVars, controlVars,
        queueVars, jsVars, taskVars, reactorVars, Places, Inv
<1>4. CASE UNCHANGED vars
  BY <1>4, Frame DEF vars, nativeVars, reactorVars, taskVars, Places, Inv,
     QueueTypes
<1> QED
  BY <1>1, <1>2, <1>3, <1>4 DEF AnyStep

(* pending_ops is exactly the number of admitted ordered commands that the *)
(* channel and the task hold, and never exceeds MAX_PENDING_OPS, in every  *)
(* interleaving of enqueue, of the task's retirement and of a stop.        *)
THEOREM AdmissionExact == AnySpec => []Admission
<1>1. Inv => Admission
  BY DEF Inv, Counting, Admission, InFlight
<1> QED
  BY InitInv, NextInv, <1>1, PTL DEF AnySpec

-----------------------------------------------------------------------------
(* The task has left run_open, or is about to.                             *)
Over == {"ended"} \cup Ended

(* Read credit: what the fields that the task keeps for itself hold, and   *)
(* that it never reads more than it was granted or than has arrived.       *)
ChunkSeq == Seq(Nat \X Nat)

TaskTypes ==
  /\ stop \in BOOLEAN /\ permit \in BOOLEAN /\ env \in BOOLEAN
  /\ notifyDue \in BOOLEAN /\ receiving \in BOOLEAN /\ gone \in BOOLEAN
  /\ consumed \in Nat
  /\ session \in {"none", "open", "released"}
  /\ lock \in {"free", "burst", "drain"}
  /\ callbacks \in Seq(Event) /\ answer \in Event
  /\ granted \in [bytes : Nat, slots : Nat]
  /\ taken \in ChunkSeq
  /\ pc \in {"opening", "opened", "top", "front", "answer", "draining",
             "select", "poll", "burst", "ended", "completing", "releasing",
             "closing", "done"}
  /\ read \in {<<>>} \cup (Nat \X Nat)
  /\ streaming \in BOOLEAN /\ writeFirst \in BOOLEAN /\ failure \in BOOLEAN
  /\ window \in [bytes : Nat, slots : Nat, size : Sizes]
  /\ batch \in ChunkSeq /\ obtained \in ChunkSeq
  /\ arrived \in Nat /\ position \in Nat /\ uart \in Nat

Reading ==
  /\ streaming => read = <<>>
  /\ window.slots > 0 => streaming \/ pc \in Over
  /\ pc = "burst" => streaming
  /\ position <= arrived

Shape == TaskTypes /\ Reading

LEMMA SizeFacts ==
  /\ Sizes \subseteq Nat \ {0}
  /\ \A s \in Sizes : Least(s * 2, ChunkSize) \in Sizes
  /\ \A n \in Nat : n <= ChunkSize => RoundUp(n) \in Sizes
<1>1. Sizes \subseteq Nat \ {0}
  BY DEF Sizes, Powers
<1>2. ASSUME NEW s \in Sizes PROVE Least(s * 2, ChunkSize) \in Sizes
  BY ReactorAssumption DEF Sizes, Powers, Least
<1>3. ASSUME NEW n \in Nat, n <= ChunkSize PROVE RoundUp(n) \in Sizes
  <2>1. \E s \in Sizes : n <= s /\ \A t \in Sizes : n <= t => s <= t
    BY <1>3, ReactorAssumption, SMTT(60) DEF Sizes, Powers
  <2> QED
    BY <2>1 DEF RoundUp
<1> QED
  BY <1>1, <1>2, <1>3

(* What a read with room for `capacity' takes, and what it leaves of the   *)
(* window: the credit never goes below zero.                               *)
LEMMA Takes ==
  ASSUME Shape, NEW limit \in Nat, limit > 0, Available > 0,
         NEW capacity, capacity = Least(limit, window.size),
         NEW n, n = Least(capacity, Available)
  PROVE  /\ n \in Nat \ {0} /\ n <= limit /\ n <= Available
         /\ Chunk(n) \in Nat \X Nat /\ position + n \in Nat
         /\ position + n <= arrived
         /\ NextSize(n, capacity) \in Sizes
<1>1. /\ window.size \in Sizes /\ window.size \in Nat \ {0}
      /\ window.size <= ChunkSize
      /\ position \in Nat /\ arrived \in Nat /\ position <= arrived
  BY SizeFacts DEF Shape, TaskTypes, Reading, Sizes
<1>2. capacity \in Nat \ {0} /\ capacity <= limit /\ capacity <= window.size
  BY <1>1 DEF Least
<1>3. n \in Nat \ {0} /\ n <= capacity /\ n <= Available
  BY <1>1, <1>2 DEF Least, Available
<1>4. n <= ChunkSize
  BY <1>1, <1>2, <1>3, NativeAssumption
<1>5. NextSize(n, capacity) \in Sizes
  BY <1>1, <1>3, <1>4, SizeFacts DEF NextSize
<1> QED
  BY <1>1, <1>2, <1>3, <1>5 DEF Chunk, Available

LEMMA NoEventType == NoEvent \in Event /\ NoEvent.kind = "open"
BY DEF NoEvent, Event, EventKinds

LEMMA ReplyType ==
  ASSUME NEW kind \in EventKinds, NEW id \in Nat
  PROVE  Reply(kind, id) \in Event /\ Reply(kind, id).kind = kind
         /\ Reply(kind, id).id = id
BY NoEventType DEF Reply, Event

LEMMA DataType ==
  ASSUME NEW chunks \in ChunkSeq
  PROVE  Data(chunks) \in Event /\ Data(chunks).kind = "data"
BY NoEventType DEF Data, Event, EventKinds, ChunkSeq

LEMMA HeadType ==
  ASSUME NEW s \in Seq(Command), s # <<>>
  PROVE  /\ Head(s) \in Command /\ Head(s).id \in Nat /\ Head(s).size \in Nat
         /\ Head(s).from \in Nat /\ Head(s).slots \in Nat
<1>1. Head(s) \in Command
  OBVIOUS
<1> QED
  BY <1>1 DEF Command

(* The driver appends the units of a transfer.                             *)
LEMMA UnitAt ==
  ASSUME NEW t \in ChunkSeq, NEW id \in Nat, NEW from \in Nat, NEW n \in Nat,
         NEW k \in 1 .. n
  PROVE  (t \o Units(id, from, n))[Len(t) + k] = <<id, from + k>>
<1> DEFINE u == Units(id, from, n)
<1>1. u \in ChunkSeq /\ Len(u) = n /\ u[k] = <<id, from + k>>
  BY DEF Units, ChunkSeq
<1> HIDE DEF u
<1>2. Len(t) \in Nat /\ Len(t) + k \in 1 .. (Len(t) + n)
  BY DEF ChunkSeq
<1>3. (t \o u)[Len(t) + k] = u[k]
  BY <1>1, <1>2 DEF ChunkSeq
<1> QED
  BY <1>1, <1>3 DEF u

LEMMA AcceptTypes ==
  ASSUME NEW t \in ChunkSeq, NEW id \in Nat, NEW from \in Nat, NEW n \in Nat
  PROVE  /\ t \o Units(id, from, n) \in ChunkSeq
         /\ Len(t \o Units(id, from, n)) = Len(t) + n
         /\ \A i \in 1 .. Len(t) : (t \o Units(id, from, n))[i] = t[i]
         /\ \A k \in 1 .. n :
              (t \o Units(id, from, n))[Len(t) + k] = <<id, from + k>>
<1>1. \A k \in 1 .. n :
        (t \o Units(id, from, n))[Len(t) + k] = <<id, from + k>>
  BY UnitAt
<1> DEFINE u == Units(id, from, n)
<1>2. u \in ChunkSeq /\ Len(u) = n
  BY DEF Units, ChunkSeq
<1> HIDE DEF u
<1>3. PICK C : C = Nat \X Nat
  OBVIOUS
<1>4. t \in Seq(C) /\ u \in Seq(C)
  BY <1>2, <1>3 DEF ChunkSeq
<1>5. /\ t \o u \in Seq(C) /\ Len(t \o u) = Len(t) + n
      /\ \A i \in 1 .. Len(t) : (t \o u)[i] = t[i]
  BY <1>2, <1>4
<1> QED
  BY <1>1, <1>3, <1>5 DEF u, ChunkSeq

(* How many units an attempt at an immediate write transfers.              *)
LEMMA AttemptTypes ==
  ASSUME Inv, taken \in ChunkSeq, NEW id \in Nat, NEW size \in Nat,
         NEW inline \in BOOLEAN, Attempt(id, size, inline)
  PROVE  taken' \in ChunkSeq
<1>1. PICK ok \in Outcomes(inline) :
        taken' = taken \o Units(id, 0, IF ok THEN Fitting(size) ELSE 0)
  BY DEF Attempt, Accept
<1>2. (IF ok THEN Fitting(size) ELSE 0) \in Nat
  BY NativeAssumption DEF Fitting, Least, Inv, QueueTypes
<1> QED
  BY <1>1, <1>2, AcceptTypes

-----------------------------------------------------------------------------
LEMMA InitShape == Init => Shape
<1> SUFFICES ASSUME Init PROVE Shape
  OBVIOUS
<1> USE DEF Init, InitNative, InitReactor
<1>1. window \in [bytes : Nat, slots : Nat, size : Sizes]
  BY ReactorAssumption
<1>2. /\ callbacks \in Seq(Event) /\ answer \in Event
      /\ granted \in [bytes : Nat, slots : Nat]
  BY NoEventType
<1>3. taken \in ChunkSeq /\ batch \in ChunkSeq /\ obtained \in ChunkSeq
  BY DEF ChunkSeq
<1>4. TaskTypes
  BY <1>1, <1>2, <1>3 DEF TaskTypes
<1> QED
  BY <1>4 DEF Shape, Reading

(* Steps that leave the events and the read side of the task alone.        *)
LEMMA ShapeFrame ==
  ASSUME Shape, stop' \in BOOLEAN, permit' \in BOOLEAN, env' \in BOOLEAN,
         notifyDue' \in BOOLEAN, receiving' \in BOOLEAN, gone' \in BOOLEAN,
         consumed' \in Nat, session' \in {"none", "open", "released"},
         lock' \in {"free", "burst", "drain"},
         granted' \in [bytes : Nat, slots : Nat], taken' \in ChunkSeq,
         callbacks' \in Seq(Event), answer' \in Event, failure' \in BOOLEAN,
         writeFirst' \in BOOLEAN, uart' \in Nat,
         \/ pc' = pc
         \/ /\ pc' \in {"opened", "top", "front", "answer", "draining",
                        "select", "poll", "ended", "completing", "releasing",
                        "closing", "done"}
            /\ pc \in Over => pc' \in Over,
         UNCHANGED <<read, streaming, window, batch, obtained, arrived,
                     position>>
  PROVE  Shape'
BY DEF Shape, TaskTypes, Reading, Over, Ended
LEMMA ClientShape ==
  ASSUME Inv, Shape, AnyCall, UNCHANGED reactorVars PROVE Shape'
<1> USE DEF reactorVars, taskVars, deviceVars
<1>1. /\ stop \in BOOLEAN /\ permit \in BOOLEAN /\ env \in BOOLEAN
      /\ notifyDue \in BOOLEAN /\ receiving \in BOOLEAN /\ gone \in BOOLEAN
      /\ consumed \in Nat /\ session \in {"none", "open", "released"}
      /\ lock \in {"free", "burst", "drain"}
      /\ granted \in [bytes : Nat, slots : Nat] /\ taken \in ChunkSeq
      /\ callbacks \in Seq(Event) /\ answer \in Event /\ failure \in BOOLEAN
      /\ writeFirst \in BOOLEAN /\ uart \in Nat
  BY DEF Shape, TaskTypes
<1>2. ASSUME NEW op \in OrderedOps, Request(op) PROVE Shape'
  BY <1>1, <1>2, ShapeFrame DEF Request
<1>3. ASSUME NEW size \in 1 .. ChunkSize, ReadRequest(size) PROVE Shape'
  BY <1>1, <1>3, ShapeFrame DEF ReadRequest
<1>4. ASSUME NEW bytes \in 1 .. ChunkSize, NEW slots \in 1 .. ReadSlots,
             ReadCredit(bytes, slots)
      PROVE  Shape'
  <2>1. granted' \in [bytes : Nat, slots : Nat]
    <3>1. bytes \in Nat /\ slots \in Nat
      BY <1>4, NativeAssumption DEF ReadCredit
    <3> QED
      BY <1>1, <1>4, <3>1 DEF ReadCredit
  <2> QED
    BY <1>1, <1>4, <2>1, ShapeFrame DEF ReadCredit
<1>5. ASSUME NEW size \in 0 .. ChunkSize, NEW inline \in BOOLEAN,
             Write(size, inline)
      PROVE  Shape'
  BY <1>1, <1>5, ShapeFrame DEF Write
<1>6. ASSUME NEW size \in 0 .. ChunkSize, NEW inline \in BOOLEAN,
             WritevSnapshot(size, inline)
      PROVE  Shape'
  BY <1>1, <1>6, ShapeFrame DEF WritevSnapshot
<1>13. CASE WritevRecheck
  BY <1>1, <1>13, ShapeFrame DEF WritevRecheck
<1>7. CASE WriteAttempt
  <2>1. taken' \in ChunkSeq
    <3>1. call.id \in Nat /\ call.size \in Nat /\ call.inline \in BOOLEAN
      BY DEF Inv, QueueTypes, CallRecords
    <3> QED
      BY <1>1, <1>7, <3>1, AttemptTypes DEF WriteAttempt
  <2> QED
    BY <1>1, <1>7, <2>1, ShapeFrame DEF WriteAttempt
<1>8. CASE EnqueueRemainder
  BY <1>1, <1>8, ShapeFrame DEF EnqueueRemainder
<1>9. CASE Close
  BY <1>1, <1>9, ShapeFrame DEF Close
<1>10. CASE Notify
  BY <1>1, <1>10, ShapeFrame DEF Notify, Wake
<1>11. CASE EnvTeardown
  BY <1>1, <1>11, ShapeFrame DEF EnvTeardown
<1>12. CASE Consume
  BY <1>1, <1>12, ShapeFrame DEF Consume
<1> QED
  BY <1>2, <1>3, <1>4, <1>5, <1>6, <1>7, <1>8, <1>9, <1>10, <1>11, <1>12, <1>13
  DEF AnyCall

(* A read that is possible: its limit is that of the pending single-shot   *)
(* read, or the credit.                                                    *)
LEMMA ReadTypes ==
  ASSUME Shape, ReadReady, ~gone
  PROVE  /\ ReadLimit \in Nat \ {0} /\ Available > 0
         /\ pc = "poll" /\ ~streaming => read \in Nat \X Nat
         /\ streaming => ReadLimit = window.bytes /\ window.slots > 0
<1>1. /\ window.size \in Nat \ {0} /\ window.bytes \in Nat /\ window.slots \in Nat
      /\ read \in {<<>>} \cup (Nat \X Nat)
  BY SizeFacts DEF Shape, TaskTypes
<1>2. ReadLimit \in Nat
  <2>1. CASE read = <<>>
    BY <1>1, <2>1 DEF ReadLimit
  <2>2. CASE read \in Nat \X Nat /\ read # <<>>
    BY <2>2 DEF ReadLimit
  <2> QED
    BY <1>1, <2>1, <2>2
<1>3. ReadLimit > 0 /\ Available > 0
  BY <1>1, <1>2 DEF ReadReady, ReadCapacity, Least
<1>4. streaming => ReadLimit = window.bytes /\ window.slots > 0
  BY <1>1, <1>3 DEF ReadLimit, Shape, Reading
<1>5. pc = "poll" /\ ~streaming => read # <<>>
  BY <1>1, <1>3 DEF ReadLimit, Shape, Reading, Over, Ended
<1> QED
  BY <1>1, <1>2, <1>3, <1>4, <1>5
LEMMA SendType ==
  ASSUME callbacks \in Seq(Event), NEW e \in Event, NEW next, Send(e, next)
  PROVE  callbacks' \in Seq(Event) /\ pc' \in {next, "ended"}
BY DEF Send

LEMMA TaskShape ==
  ASSUME Inv, Shape, Task PROVE Shape'
<1> USE DEF controlVars, queueVars, jsVars, outVars, inVars, deviceVars
<1>1. /\ stop \in BOOLEAN /\ permit \in BOOLEAN /\ env \in BOOLEAN
      /\ notifyDue \in BOOLEAN /\ receiving \in BOOLEAN /\ gone \in BOOLEAN
      /\ consumed \in Nat /\ session \in {"none", "open", "released"}
      /\ lock \in {"free", "burst", "drain"}
      /\ granted \in [bytes : Nat, slots : Nat] /\ taken \in ChunkSeq
      /\ callbacks \in Seq(Event) /\ answer \in Event /\ failure \in BOOLEAN
      /\ writeFirst \in BOOLEAN /\ uart \in Nat
  BY DEF Shape, TaskTypes
<1>2. CASE Opened
  BY <1>1, <1>2, ShapeFrame DEF Opened, Over, Ended
<1>3. CASE OpenFailed
  BY <1>1, <1>3, ShapeFrame DEF OpenFailed, Over, Ended
<1>4. CASE PublishOpen
  <2>1. callbacks' \in Seq(Event)
    BY <1>1, <1>4, NoEventType DEF PublishOpen
  <2> QED
    BY <1>1, <1>4, <2>1, ShapeFrame DEF PublishOpen, Over, Ended
<1>5. CASE CheckStop
  BY <1>1, <1>5, ShapeFrame DEF CheckStop, Over, Ended
<1>6. CASE LeaveFront
  <2>1. pc = "front" /\ pc' \in {"ended", "select"} /\ failure' \in BOOLEAN
    BY <1>1, <1>6 DEF LeaveFront
  <2> QED
    BY <1>1, <1>6, <2>1, ShapeFrame DEF LeaveFront, Over, Ended
<1>7. ASSUME NEW e \in Event, Retire(e), pc \in {"front", "draining"},
             lock' \in {"free", "burst", "drain"}, position' \in {position, arrived},
             UNCHANGED <<stop, permit, env, notifyDue, consumed, granted, gone,
                         session, receiving, callbacks, taken, read, streaming,
                         window, writeFirst, batch, failure, arrived, obtained,
                         uart>>
      PROVE  Shape'
  BY <1>1, <1>7 DEF Retire, Shape, TaskTypes, Reading, Over, Ended
<1>8. commands # <<>> =>
        \A kind \in EventKinds : Reply(kind, FrontCommand.id) \in Event
  BY HeadType, ReplyType DEF Inv, QueueTypes, FrontCommand
<1>9. CASE FinishWrite
  <2>1. Reply("ok", FrontCommand.id) \in Event
    BY <1>8, <1>9 DEF FinishWrite, FrontIs, EventKinds
  <2> QED
    BY <1>1, <1>7, <1>9, <2>1 DEF FinishWrite
<1>10. CASE Control
  <2>1. PICK kind \in {"ok", "error"} : Retire(Reply(kind, FrontCommand.id))
    BY <1>10 DEF Control
  <2>2. Reply(kind, FrontCommand.id) \in Event
    BY <1>8, <1>10 DEF Control, FrontIs, EventKinds
  <2> QED
    BY <1>1, <1>7, <1>10, <2>1, <2>2 DEF Control
<1>11. CASE Flush
  <2>1. PICK kind \in {"ok", "error"} : Retire(Reply(kind, FrontCommand.id))
    BY <1>11 DEF Flush
  <2>2. Reply(kind, FrontCommand.id) \in Event
    BY <1>8, <1>11 DEF Flush, FrontIs, EventKinds
  <2> QED
    BY <1>1, <1>7, <1>11, <2>1, <2>2 DEF Flush
<1>12. CASE FinishDrain
  <2>1. PICK kind \in {"ok", "error"} : Retire(Reply(kind, FrontCommand.id))
    BY <1>12 DEF FinishDrain
  <2>2. Reply(kind, FrontCommand.id) \in Event
    BY <1>8, <1>12 DEF FinishDrain, Inv, Places, EventKinds
  <2> QED
    BY <1>1, <1>7, <1>12, <2>1, <2>2 DEF FinishDrain
<1>13. CASE StartDrain
  BY <1>1, <1>13, ShapeFrame DEF StartDrain, Over, Ended
<1>14. CASE SendAnswer
  <2>1. callbacks' \in Seq(Event) /\ pc' \in {"top", "front", "ended"}
    BY <1>1, <1>14, SendType DEF SendAnswer
  <2>2. pc = "answer" /\ answer' \in Event
    BY <1>14, NoEventType DEF SendAnswer
  <2> QED
    BY <1>1, <1>14, <2>1, <2>2, ShapeFrame DEF SendAnswer, Over, Ended
<1>15. CASE Notified
  BY <1>1, <1>15, ShapeFrame, ZenonT(60) DEF Notified, Over, Ended
<1>16. CASE ReceiveOrdered
  BY <1>1, <1>16, ShapeFrame DEF ReceiveOrdered, Receivable, Over, Ended
<1>17. CASE ReceiveRead
  <2>1. Head(channel).id \in Nat /\ Head(channel).size \in Nat
    BY <1>17, HeadType DEF ReceiveRead, Receivable, Inv, QueueTypes
  <2>2. Reply("busy", Head(channel).id) \in Event
    BY <2>1, ReplyType DEF EventKinds
  <2>3. pc = "select" /\ pc' \in {"answer", "top"} /\ answer' \in Event
    BY <1>1, <1>17, <2>2 DEF ReceiveRead, Receivable
  <2>4. /\ read' \in {<<>>} \cup (Nat \X Nat)
        /\ streaming => read' = <<>>
    <3>1. CASE read # <<>> \/ streaming
      BY <1>17, <3>1 DEF ReceiveRead, Shape, TaskTypes, Reading
    <3>2. CASE ~(read # <<>> \/ streaming)
      BY <1>17, <2>1, <3>2 DEF ReceiveRead
    <3> QED
      BY <3>1, <3>2
  <2> QED
    BY <1>1, <1>17, <2>3, <2>4
    DEF ReceiveRead, Shape, TaskTypes, Reading, Over, Ended
<1>18. CASE ReceiveCredit
  <2>1. Head(channel).size \in Nat /\ Head(channel).slots \in Nat
    BY <1>18, HeadType DEF ReceiveCredit, Receivable, Inv, QueueTypes
  <2>2. window' \in [bytes : Nat, slots : Nat, size : Sizes]
    <3>1. window \in [bytes : Nat, slots : Nat, size : Sizes]
      BY DEF Shape, TaskTypes
    <3>2. /\ window.bytes + Head(channel).size \in Nat
          /\ window.slots + Head(channel).slots \in Nat
      BY <2>1, <3>1
    <3>3. window' = [window EXCEPT !.bytes = window.bytes + Head(channel).size,
                                   !.slots = window.slots + Head(channel).slots]
      BY <1>18 DEF ReceiveCredit
    <3> QED
      BY <3>1, <3>2, <3>3
  <2>3. CASE read # <<>> \/ Exceeds(window')
    <3>1. pc' = "ended" /\ failure' = TRUE /\ streaming' = streaming
      BY <1>18, <2>3 DEF ReceiveCredit
    <3> QED
      BY <1>1, <1>18, <2>2, <3>1
      DEF ReceiveCredit, Shape, TaskTypes, Reading, Over, Ended
  <2>4. CASE ~(read # <<>> \/ Exceeds(window'))
    BY <1>1, <1>18, <2>2, <2>4
    DEF ReceiveCredit, Shape, TaskTypes, Reading, Over, Ended
  <2> QED
    BY <2>3, <2>4
<1>19. CASE PollTransfers
  BY <1>1, <1>19, ShapeFrame DEF PollTransfers, Over, Ended
<1>20. CASE NothingReady
  <2>1. pc = "poll" /\ pc' \in {"top", "select"}
    BY <1>20 DEF NothingReady, AfterIdlePoll
  <2> QED
    BY <1>1, <1>20, <2>1, ShapeFrame DEF NothingReady, Over, Ended
<1>21. CASE TransferFailed
  BY <1>1, <1>21, ShapeFrame DEF TransferFailed, Over, Ended
<1>22. CASE TransferWrite
  <2>1. WritePending /\ commands # <<>>
    BY <1>22 DEF TransferWrite, PicksWrite, WriteReady, WritePending, FrontIs
  <2>2. /\ FrontCommand.id \in Nat /\ FrontCommand.from + written \in Nat
        /\ Remaining \in Int
    BY <2>1, HeadType DEF Inv, QueueTypes, FrontCommand, Remaining
  <2>3. Fitting(Remaining) \in Nat
    BY <2>1, <2>2, NativeAssumption
    DEF WritePending, Fitting, Least, Inv, QueueTypes
  <2>4. taken' \in ChunkSeq
    BY <1>1, <1>22, <2>2, <2>3, AcceptTypes DEF TransferWrite, Accept
  <2> QED
    BY <1>1, <1>22, <2>4, ShapeFrame DEF TransferWrite, Over, Ended
<1>23. CASE TransferRead
  <2> DEFINE n == Least(ReadCapacity, Available)
  <2>1. /\ n \in Nat \ {0} /\ Chunk(n) \in Nat \X Nat
        /\ position + n \in Nat /\ position + n <= arrived
        /\ NextSize(n, ReadCapacity) \in Sizes
        /\ read[1] \in Nat
    <3>1. /\ ReadLimit \in Nat \ {0} /\ Available > 0 /\ read \in Nat \X Nat
      BY <1>23, ReadTypes DEF TransferRead, PicksRead
    <3> QED
      BY <3>1, Takes DEF ReadCapacity
  <2>2. /\ Reply("read", read[1]) \in Event /\ Reply("read", read[1]).kind = "read"
    BY <2>1, ReplyType DEF EventKinds
  <2>3. [Reply("read", read[1]) EXCEPT !.chunks = <<Chunk(n)>>] \in Event
    <3>1. <<Chunk(n)>> \in Seq(Nat \X Nat)
      BY <2>1
    <3> QED
      BY <2>2, <3>1 DEF Event
  <2>4. /\ callbacks' \in Seq(Event) /\ pc' \in {"top", "ended"}
        /\ pc = "poll" /\ read' = <<>> /\ writeFirst' = TRUE
        /\ window' = [window EXCEPT !.size = NextSize(n, ReadCapacity)]
        /\ position' = position + n /\ obtained' = Append(obtained, Chunk(n))
        /\ ~streaming
    BY <1>1, <1>23, <2>3, SendType DEF TransferRead, Take
  <2>5. /\ window' \in [bytes : Nat, slots : Nat, size : Sizes]
        /\ window'.slots = window.slots
    BY <2>1, <2>4 DEF Shape, TaskTypes
  <2>6. obtained' \in ChunkSeq
    BY <2>1, <2>4 DEF Shape, TaskTypes, ChunkSeq
  <2> QED
    BY <1>1, <1>23, <2>1, <2>4, <2>5, <2>6, SMTT(40)
    DEF TransferRead, Shape, TaskTypes, Reading, Over, Ended
<1>24. CASE TransferStream
  <2> DEFINE n == Least(ReadCapacity, Available)
  <2>1. /\ n \in Nat \ {0} /\ Chunk(n) \in Nat \X Nat
        /\ position + n \in Nat /\ position + n <= arrived
        /\ NextSize(n, ReadCapacity) \in Sizes
        /\ n <= window.bytes /\ window.slots > 0
    <3>1. /\ ReadLimit \in Nat \ {0} /\ Available > 0
          /\ ReadLimit = window.bytes /\ window.slots > 0
      BY <1>24, ReadTypes DEF TransferStream, PicksRead
    <3> QED
      BY <3>1, Takes DEF ReadCapacity
  <2>2. <<Chunk(n)>> \in ChunkSeq
    BY <2>1 DEF ChunkSeq
  <2>3. Data(<<Chunk(n)>>) \in Event
    BY <2>2, DataType
  <2>4. /\ pc = "poll" /\ streaming /\ writeFirst' = TRUE
        /\ window' = Charge(n, ReadCapacity)
        /\ position' = position + n /\ obtained' = Append(obtained, Chunk(n))
        /\ lock' \in {"free", "burst", "drain"}
    BY <1>1, <1>24 DEF TransferStream, Take
  <2>5. callbacks' \in Seq(Event) /\ pc' \in {"top", "burst", "ended"}
    <3>1. \E next \in {"top", "burst"} : Send(Data(<<Chunk(n)>>), next)
      BY <1>24 DEF TransferStream
    <3> QED
      BY <1>1, <2>3, <3>1, SendType
  <2>6. window' \in [bytes : Nat, slots : Nat, size : Sizes]
    BY <2>1, <2>4, SMTT(40) DEF Charge, Shape, TaskTypes
  <2>7. obtained' \in ChunkSeq
    BY <2>1, <2>4 DEF Shape, TaskTypes, ChunkSeq
  <2> QED
    BY <1>1, <1>24, <2>1, <2>4, <2>5, <2>6, <2>7
    DEF TransferStream, Shape, TaskTypes, Reading, Over, Ended
<1>25. CASE BurstRead
  <2> DEFINE capacity == Least(window.bytes, window.size)
             n == Least(capacity, Available)
  <2>1. window.bytes \in Nat \ {0} /\ window.slots \in Nat \ {0}
    BY <1>25 DEF BurstRead, BurstContinues, Spent, Shape, TaskTypes
  <2>2. /\ n \in Nat \ {0} /\ n <= window.bytes /\ Chunk(n) \in Nat \X Nat
        /\ position + n \in Nat /\ position + n <= arrived
        /\ NextSize(n, capacity) \in Sizes
    BY <1>25, <2>1, Takes, SMTT(40) DEF BurstRead
  <2>3. /\ window' = Charge(n, capacity) /\ batch' = Append(batch, Chunk(n))
        /\ position' = position + n /\ obtained' = Append(obtained, Chunk(n))
        /\ pc = "burst"
    BY <1>25 DEF BurstRead, Take
  <2>4. window' \in [bytes : Nat, slots : Nat, size : Sizes]
    <3>1. window.bytes - n \in Nat /\ window.slots - 1 \in Nat
      BY <2>1, <2>2
    <3> QED
      BY <2>2, <2>3, <3>1 DEF Charge
  <2>5. obtained' \in ChunkSeq /\ batch' \in ChunkSeq
    BY <2>2, <2>3 DEF Shape, TaskTypes, ChunkSeq
  <2> QED
    BY <1>1, <1>25, <2>2, <2>3, <2>4, <2>5
    DEF BurstRead, Shape, TaskTypes, Reading, Over, Ended
<1>26. CASE BurstEnd
  <2>1. batch \in ChunkSeq
    BY DEF Shape, TaskTypes
  <2>2. PICK broken \in BOOLEAN :
          LET next == IF broken THEN "ended" ELSE "top"
          IN  /\ IF Followers(broken) = <<>>
                 THEN callbacks' = callbacks /\ pc' = next
                 ELSE Send(Data(Followers(broken)), next)
              /\ failure' = (broken /\ (Followers(broken) = <<>> \/ CanSend))
    BY <1>26 DEF BurstEnd
  <2>3. Data(Followers(broken)) \in Event
    BY <2>1, DataType DEF Followers
  <2>4. callbacks' \in Seq(Event) /\ pc' \in {"top", "ended"}
    BY <1>1, <2>2, <2>3, SendType
  <2>5. failure' \in BOOLEAN
    BY <2>2
  <2>6. batch' \in ChunkSeq /\ pc = "burst" /\ lock' = "free"
    BY <1>26 DEF BurstEnd, ChunkSeq
  <2> QED
    BY <1>1, <1>26, <2>4, <2>5, <2>6
    DEF BurstEnd, Shape, TaskTypes, Reading, Over, Ended
<1>27. CASE DropReceiver
  BY <1>1, <1>27, ShapeFrame, ZenonT(60) DEF DropReceiver, Over, Ended
<1>28. CASE MarkStopped
  BY <1>1, <1>28, ShapeFrame DEF MarkStopped, Over, Ended
<1>29. CASE Release
  BY <1>1, <1>29, ShapeFrame DEF Release, AfterRelease, Over, Ended
<1>30. CASE SendClose
  <2>1. [NoEvent EXCEPT !.kind = "close", !.failed = failure] \in Event
    BY <1>1, NoEventType DEF Event, EventKinds
  <2>2. callbacks' \in Seq(Event)
    BY <1>1, <1>30, <2>1 DEF SendClose
  <2> QED
    BY <1>1, <1>30, <2>2, ShapeFrame, ZenonT(60) DEF SendClose, Over, Ended
<1> QED
  BY <1>2, <1>3, <1>4, <1>5, <1>6, <1>9, <1>10, <1>11, <1>12, <1>13, <1>14,
     <1>15, <1>16, <1>17, <1>18, <1>19, <1>20, <1>21, <1>22, <1>23, <1>24,
     <1>25, <1>26, <1>27, <1>28, <1>29, <1>30
  DEF Task

LEMMA DeviceShape ==
  ASSUME Inv, Shape, OfDevice PROVE Shape'
<1> USE DEF Shape, TaskTypes, Reading, reactorVars, taskVars, nativeVars,
            controlVars, queueVars, jsVars, inVars
<1>1. CASE Arrive
  BY <1>1 DEF Arrive
<1>2. CASE Transmit
  BY <1>2 DEF Transmit
<1>3. CASE Shift
  BY <1>3 DEF Shift
<1>4. CASE Lose
  BY <1>4 DEF Lose, deviceVars
<1> QED
  BY <1>1, <1>2, <1>3, <1>4 DEF OfDevice

LEMMA NextShape == Inv /\ Shape /\ [AnyStep]_vars => Shape'
<1> SUFFICES ASSUME Inv, Shape, [AnyStep]_vars PROVE Shape'
  OBVIOUS
<1>1. CASE UNCHANGED vars
  BY <1>1 DEF vars, nativeVars, reactorVars, taskVars, deviceVars, Shape,
     TaskTypes, Reading
<1> QED
  BY <1>1, ClientShape, TaskShape, DeviceShape DEF AnyStep

(* Every variable keeps its type.  The read side is what makes this more   *)
(* than a list: the credit, the size of the next read and the input left   *)
(* never go below zero, in a burst either, and a size stays a power of two *)
(* between MinSize and ChunkSize.                                          *)
THEOREM NativeTypes == AnySpec => []TypeOK
<1>1. Inv /\ Shape => TypeOK
  BY DEF Inv, QueueTypes, Shape, TaskTypes, TypeOK, ChunkSeq, Requests, CallRecords
<1> QED
  BY InitInv, NextInv, InitShape, NextShape, <1>1, PTL DEF AnySpec
-----------------------------------------------------------------------------
(* The close event is the last one, after the release.                     *)
Closing ==
  /\ answer.kind # "close"
  /\ \A i \in DOMAIN callbacks :
       callbacks[i].kind = "close" => pc = "done" /\ i = Len(callbacks)
  /\ pc \in {"releasing", "closing", "done"} => stop
  /\ pc \in {"closing", "done"} => session = "released"

LEMMA InitClosing == Init => Closing
BY NoEventType DEF Init, InitNative, InitReactor, Closing

(* A step of run_open publishes no close event.                            *)
LEMMA RunClosing ==
  ASSUME Shape, Closing, pc # "done", answer'.kind # "close",
         pc' \notin {"releasing", "closing", "done"},
         \/ callbacks' = callbacks
         \/ \E e \in Event : e.kind # "close" /\ callbacks' = Append(callbacks, e)
  PROVE  Closing'
<1>1. callbacks \in Seq(Event)
  BY DEF Shape, TaskTypes
<1>2. \A i \in DOMAIN callbacks : callbacks[i].kind # "close"
  BY DEF Closing
<1>3. \A i \in DOMAIN callbacks' : callbacks'[i].kind # "close"
  <2>1. CASE callbacks' = callbacks
    BY <1>2, <2>1
  <2>2. ASSUME NEW e \in Event, e.kind # "close",
               callbacks' = Append(callbacks, e)
        PROVE  \A i \in DOMAIN callbacks' : callbacks'[i].kind # "close"
    BY <1>1, <1>2, <2>2
  <2> QED
    BY <2>1, <2>2
<1> QED
  BY <1>3 DEF Closing

LEMMA TaskClosing ==
  ASSUME Inv, Shape, Closing, Task PROVE Closing'
<1> USE DEF controlVars, queueVars, jsVars, outVars, inVars, deviceVars
<1>1. /\ answer \in Event /\ answer.kind # "close"
      /\ callbacks \in Seq(Event) /\ batch \in ChunkSeq
  BY DEF Shape, TaskTypes, Closing
<1> DEFINE Publishes ==
             \/ callbacks' = callbacks
             \/ \E e \in Event : e.kind # "close"
                                 /\ callbacks' = Append(callbacks, e)
           Runs == /\ pc # "done" /\ answer'.kind # "close" /\ Publishes
                   /\ pc' \notin {"releasing", "closing", "done"}
<1>2. ASSUME NEW e \in Event, e.kind # "close", NEW next \in {"top", "front", "burst", "ended"},
             Send(e, next)
      PROVE  Publishes /\ pc' \in {next, "ended"}
  BY <1>2 DEF Send
<1>3. commands # <<>> => FrontCommand.id \in Nat
  BY HeadType DEF Inv, QueueTypes, FrontCommand
<1>4. ASSUME NEW kind \in {"ok", "error"}, Retire(Reply(kind, FrontCommand.id)),
             commands # <<>>, pc \in {"front", "draining"},
             callbacks' = callbacks
      PROVE  Runs
  BY <1>3, <1>4, ReplyType DEF Retire, EventKinds
<1>5. CASE PublishOpen
  BY <1>1, <1>5, NoEventType, RunClosing DEF PublishOpen
<1>6. CASE \/ Opened \/ OpenFailed \/ CheckStop \/ LeaveFront \/ StartDrain
           \/ Notified \/ ReceiveOrdered \/ ReceiveCredit \/ PollTransfers
           \/ NothingReady \/ TransferFailed \/ TransferWrite \/ BurstRead
           \/ DropReceiver
  <2>1. Runs
    BY <1>1, <1>6
    DEF Opened, OpenFailed, CheckStop, LeaveFront, StartDrain, Notified,
        ReceiveOrdered, ReceiveCredit, Receivable, PollTransfers, NothingReady,
        AfterIdlePoll, TransferFailed, TransferWrite, BurstRead, DropReceiver
  <2> QED
    BY <2>1, RunClosing
<1>7. CASE FinishWrite \/ Control \/ Flush \/ FinishDrain
  <2>1. /\ \E kind \in {"ok", "error"} : Retire(Reply(kind, FrontCommand.id))
        /\ commands # <<>> /\ pc \in {"front", "draining"}
        /\ callbacks' = callbacks
    BY <1>7 DEF FinishWrite, Control, Flush, FinishDrain, FrontIs, Inv, Places
  <2> QED
    BY <1>4, <2>1, RunClosing
<1>8. CASE SendAnswer
  <2>1. answer' = NoEvent /\ pc = "answer"
        /\ \E next \in {"top", "front"} : Send(answer, next)
    BY <1>8 DEF SendAnswer
  <2>2. Runs
    BY <1>1, <1>2, <2>1, NoEventType
  <2> QED
    BY <2>2, RunClosing
<1>9. CASE ReceiveRead
  <2>1. Head(channel).id \in Nat
    BY <1>9, HeadType DEF ReceiveRead, Receivable, Inv, QueueTypes
  <2>2. Runs
    BY <1>1, <1>9, <2>1, ReplyType DEF ReceiveRead, Receivable, EventKinds
  <2> QED
    BY <2>2, RunClosing
<1>10. CASE TransferRead
  <2> DEFINE n == Least(ReadCapacity, Available)
             e == [Reply("read", read[1]) EXCEPT !.chunks = <<Chunk(n)>>]
  <2>1. n \in Nat /\ Chunk(n) \in Nat \X Nat /\ read[1] \in Nat
    <3>1. /\ ReadLimit \in Nat \ {0} /\ Available > 0 /\ read \in Nat \X Nat
      BY <1>10, ReadTypes DEF TransferRead, PicksRead
    <3> QED
      BY <3>1, Takes DEF ReadCapacity
  <2>2. Reply("read", read[1]) \in Event /\ Reply("read", read[1]).kind = "read"
    BY <2>1, ReplyType DEF EventKinds
  <2>3. e \in Event /\ e.kind = "read"
    <3>1. <<Chunk(n)>> \in Seq(Nat \X Nat)
      BY <2>1
    <3> QED
      BY <2>2, <3>1 DEF Event
  <2>4. Send(e, "top") /\ pc = "poll" /\ answer' = answer
    BY <1>10 DEF TransferRead
  <2>5. Runs
    BY <1>1, <1>2, <2>3, <2>4
  <2> QED
    BY <2>5, RunClosing
<1>11. CASE TransferStream
  <2> DEFINE n == Least(ReadCapacity, Available)
  <2>1. <<Chunk(n)>> \in ChunkSeq
    <3>1. /\ ReadLimit \in Nat \ {0} /\ Available > 0
      BY <1>11, ReadTypes DEF TransferStream, PicksRead
    <3>2. Chunk(n) \in Nat \X Nat
      BY <3>1, Takes DEF ReadCapacity
    <3> QED
      BY <3>2 DEF ChunkSeq
  <2>2. Data(<<Chunk(n)>>) \in Event /\ Data(<<Chunk(n)>>).kind = "data"
    BY <2>1, DataType
  <2>3. /\ \E next \in {"top", "burst"} : Send(Data(<<Chunk(n)>>), next)
        /\ pc = "poll" /\ answer' = answer
    BY <1>11 DEF TransferStream
  <2>4. Runs
    BY <1>1, <1>2, <2>2, <2>3
  <2> QED
    BY <2>4, RunClosing
<1>12. CASE BurstEnd
  <2>1. Data(batch) \in Event /\ Data(batch).kind = "data"
    BY <1>1, DataType
  <2>2. PICK next \in {"top", "ended"} :
          IF batch = <<>> THEN callbacks' = callbacks /\ pc' = next
          ELSE Send(Data(batch), next)
    BY <1>12 DEF BurstEnd, Followers
  <2>3. pc = "burst" /\ answer' = answer
    BY <1>12 DEF BurstEnd
  <2>4. Runs
    BY <1>1, <1>2, <2>1, <2>2, <2>3
  <2> QED
    BY <2>4, RunClosing
<1>13. CASE MarkStopped
  BY <1>13 DEF MarkStopped, Closing
<1>14. CASE Release
  BY <1>14 DEF Release, AfterRelease, Closing
<1>15. CASE SendClose
  <2>1. \A i \in DOMAIN callbacks : callbacks[i].kind # "close"
    BY <1>15 DEF SendClose, Closing
  <2>2. callbacks' = callbacks \/ \E e : callbacks' = Append(callbacks, e)
    BY <1>15 DEF SendClose
  <2>3. \A i \in DOMAIN callbacks' :
          callbacks'[i].kind = "close" => i = Len(callbacks')
    BY <1>1, <2>1, <2>2
  <2> QED
    BY <1>15, <2>3 DEF SendClose, Closing
<1> QED
  BY <1>5, <1>6, <1>7, <1>8, <1>9, <1>10, <1>11, <1>12, <1>13, <1>14, <1>15
  DEF Task

LEMMA NextClosing == Inv /\ Shape /\ Closing /\ [AnyStep]_vars => Closing'
<1> SUFFICES ASSUME Inv, Shape, Closing, [AnyStep]_vars PROVE Closing'
  OBVIOUS
<1>1. ASSUME UNCHANGED <<callbacks, answer, pc, session>>, stop => stop'
      PROVE  Closing'
  BY <1>1 DEF Closing
<1>2. CASE AnyCall /\ UNCHANGED reactorVars
  BY <1>1, <1>2
  DEF AnyCall, Request, ReadRequest, ReadCredit, Write, WritevSnapshot,
      WritevRecheck, WriteAttempt, EnqueueRemainder, Close, Notify, Consume,
      EnvTeardown,
      reactorVars, taskVars
<1>3. CASE OfDevice
  BY <1>1, <1>3
  DEF OfDevice, Arrive, Transmit, Shift, Lose, nativeVars, controlVars,
      queueVars, taskVars, reactorVars
<1>4. CASE UNCHANGED vars
  BY <1>1, <1>4 DEF vars, nativeVars, reactorVars, taskVars
<1> QED
  BY <1>2, <1>3, <1>4, TaskClosing DEF AnyStep

(* The descriptor is released before the close event is published, which   *)
(* is the last event of the port, once, and finds the port stopped,        *)
(* whatever ended the task and wherever it was.                            *)
THEOREM ReleasedBeforeClose == AnySpec => []ReleasedAtClose
<1>1. Closing => ReleasedAtClose
  BY DEF Closing, ReleasedAtClose
<1> QED
  BY InitInv, NextInv, InitShape, NextShape, InitClosing, NextClosing, <1>1, PTL
  DEF AnySpec

-----------------------------------------------------------------------------
(* JavaScript stores no stop between the check of a call and its attempt:   *)
(* a stop in that place is that of the task itself, which has left its     *)
(* loop for good and no longer transfers anything.                         *)
Overtaken ==
  call.step = "checked" /\ stop => pc \in {"releasing", "closing", "done"}

LEMMA InitOvertaken == Init => Overtaken
BY DEF Init, InitNative, NoCall, Overtaken

LEMMA NextOvertaken ==
  Inv /\ Shape /\ Overtaken /\ [AnyStep]_vars => Overtaken'
<1> SUFFICES ASSUME Inv, Shape, Overtaken, [AnyStep]_vars PROVE Overtaken'
  OBVIOUS
<1>1. ASSUME UNCHANGED stop, UNCHANGED pc,
             call'.step = "checked" => call.step = "checked" \/ ~stop
      PROVE  Overtaken'
  BY <1>1 DEF Overtaken
<1>2. CASE AnyCall /\ UNCHANGED reactorVars
  <2>1. UNCHANGED pc
    BY <1>2 DEF reactorVars, taskVars
  <2>2. CASE Close \/ EnvTeardown
    BY <2>2 DEF Close, EnvTeardown, JsIdle, Overtaken
  <2>3. CASE WriteAttempt
    <3>1. call'.step # "checked"
      BY <2>3 DEF WriteAttempt, Attempt, NoCall
    <3> QED
      BY <3>1 DEF Overtaken
  <2>4. CASE WritevRecheck
    BY <1>1, <2>1, <2>4 DEF WritevRecheck, Recheck, NoCall
  <2>5. ASSUME NEW size \in 0 .. ChunkSize, NEW inline \in BOOLEAN,
               Write(size, inline) \/ WritevSnapshot(size, inline)
        PROVE  Overtaken'
    BY <1>1, <2>1, <2>5 DEF Write, WritevSnapshot, Calling
  <2>6. CASE EnqueueRemainder
    BY <1>1, <2>1, <2>6 DEF EnqueueRemainder, NoCall
  <2>7. CASE Notify \/ Consume
    BY <1>1, <2>1, <2>7 DEF Notify, Consume
  <2>8. ASSUME NEW op \in OrderedOps, Request(op) PROVE Overtaken'
    BY <1>1, <2>1, <2>8 DEF Request
  <2>9. ASSUME NEW size \in 1 .. ChunkSize, ReadRequest(size) PROVE Overtaken'
    BY <1>1, <2>1, <2>9 DEF ReadRequest
  <2>10. ASSUME NEW bytes \in 1 .. ChunkSize, NEW slots \in 1 .. ReadSlots,
                ReadCredit(bytes, slots)
         PROVE  Overtaken'
    BY <1>1, <2>1, <2>10 DEF ReadCredit
  <2> QED
    BY <1>2, <2>2, <2>3, <2>4, <2>5, <2>6, <2>7, <2>8, <2>9, <2>10 DEF AnyCall
<1>3. CASE Task
  <2>1. call' = call
    BY <1>3 DEF Task, Opened, OpenFailed, PublishOpen, CheckStop, LeaveFront,
        FinishWrite, Control, Flush, StartDrain, FinishDrain, SendAnswer,
        Notified, ReceiveOrdered, ReceiveRead, ReceiveCredit, PollTransfers,
        NothingReady, TransferFailed, TransferWrite, TransferRead,
        TransferStream, BurstRead, BurstEnd, DropReceiver, MarkStopped,
        Release, SendClose, jsVars
  <2>2. CASE MarkStopped \/ Release \/ SendClose
    BY <2>2 DEF MarkStopped, Release, SendClose, Overtaken
  <2>3. CASE ~(MarkStopped \/ Release \/ SendClose)
    <3>1. stop' = stop
      BY <1>3, <2>3
      DEF Task, Opened, OpenFailed, PublishOpen, CheckStop, LeaveFront,
          FinishWrite, Control, Flush, StartDrain, FinishDrain, SendAnswer,
          Notified, ReceiveOrdered, ReceiveRead, ReceiveCredit, PollTransfers,
          NothingReady, TransferFailed, TransferWrite, TransferRead,
          TransferStream, BurstRead, BurstEnd, DropReceiver,
          controlVars
    <3>2. pc # "releasing" /\ pc # "closing" /\ pc # "done"
      BY <1>3, <2>3
      DEF Task, Opened, OpenFailed, PublishOpen, CheckStop, LeaveFront,
          FinishWrite, Control, Flush, StartDrain, FinishDrain, SendAnswer,
          Notified, ReceiveOrdered, ReceiveRead, ReceiveCredit, PollTransfers,
          NothingReady, TransferFailed, TransferWrite, TransferRead,
          TransferStream, BurstRead, BurstEnd, DropReceiver, Receivable
    <3> QED
      BY <2>1, <3>1, <3>2 DEF Overtaken
  <2> QED
    BY <2>2, <2>3
<1>4. CASE OfDevice
  BY <1>1, <1>4
  DEF OfDevice, Arrive, Transmit, Shift, Lose, nativeVars, controlVars,
      queueVars, jsVars, taskVars, reactorVars
<1>5. CASE UNCHANGED vars
  BY <1>1, <1>5 DEF vars, nativeVars, controlVars, jsVars, reactorVars, taskVars
<1> QED
  BY <1>2, <1>3, <1>4, <1>5 DEF AnyStep

(* Once a stop is stored the driver accepts at most what was being polled, *)
(* or the attempt of a call that the task overtook after its check and     *)
(* before it releases the descriptor, and no call passes its check.        *)
THEOREM SilentAfterStop == AnySpec => StopForbidsWrites
<1>1. ASSUME Overtaken, Closing, [AnyStep]_vars, stop
      PROVE  /\ taken' # taken => PolledTransfer \/ OvertakenAttempt
             /\ call'.step = "checked" => call.step = "checked"
  <2>1. CASE AnyCall /\ UNCHANGED reactorVars
    <3>1. CASE WriteAttempt
      <4>1. call'.step # "checked"
        BY <3>1 DEF WriteAttempt, Attempt, NoCall
      <4>2. ASSUME taken' # taken PROVE session = "open"
        <5>1. SUFFICES ASSUME session # "open" PROVE FALSE
          OBVIOUS
        <5>2. Outcomes(call.inline) = {FALSE}
          BY <5>1 DEF Outcomes, MayBypass
        <5>3. Accept(call.id, 0, 0)
          BY <3>1, <5>2 DEF WriteAttempt, Attempt
        <5>4. taken' = taken
          BY <5>3 DEF Accept, Units
        <5> QED
          BY <4>2, <5>4
      <4>3. call.step = "checked"
        BY <3>1 DEF WriteAttempt
      <4> QED
        BY <1>1, <4>1, <4>2, <4>3 DEF Overtaken, Closing, OvertakenAttempt
    <3>2. CASE WritevRecheck
      BY <1>1, <3>2 DEF WritevRecheck, Recheck, NoCall
    <3>3. CASE EnqueueRemainder \/ Close \/ Notify \/ Consume \/ EnvTeardown
      BY <3>3 DEF EnqueueRemainder, Close, Notify, Consume, EnvTeardown, NoCall
    <3>4. ASSUME NEW op \in OrderedOps, Request(op)
          PROVE  taken' = taken /\ call' = call
      BY <3>4 DEF Request
    <3>5. ASSUME NEW size \in 1 .. ChunkSize, ReadRequest(size)
          PROVE  taken' = taken /\ call' = call
      BY <3>5 DEF ReadRequest
    <3>6. ASSUME NEW bytes \in 1 .. ChunkSize, NEW slots \in 1 .. ReadSlots,
                 ReadCredit(bytes, slots)
          PROVE  taken' = taken /\ call' = call
      BY <3>6 DEF ReadCredit
    <3>7. ASSUME NEW size \in 0 .. ChunkSize, NEW inline \in BOOLEAN,
                 Write(size, inline) \/ WritevSnapshot(size, inline)
          PROVE  ~stop
      BY <3>7 DEF Write, WritevSnapshot
    <3> QED
      BY <1>1, <2>1, <3>1, <3>2, <3>3, <3>4, <3>5, <3>6, <3>7 DEF AnyCall
  <2>2. CASE Task
    <3>1. call' = call
      BY <2>2
      DEF Task, Opened, OpenFailed, PublishOpen, CheckStop, LeaveFront,
          FinishWrite, Control, Flush, StartDrain, FinishDrain, SendAnswer,
          Notified, ReceiveOrdered, ReceiveRead, ReceiveCredit, PollTransfers,
          NothingReady, TransferFailed, TransferWrite, TransferRead,
          TransferStream, BurstRead, BurstEnd, DropReceiver, MarkStopped,
          Release, SendClose, jsVars
    <3>2. taken' # taken => PolledTransfer
      BY <1>1, <2>2
      DEF Task, Opened, OpenFailed, PublishOpen, CheckStop, LeaveFront,
          FinishWrite, Control, Flush, StartDrain, FinishDrain, SendAnswer,
          Notified, ReceiveOrdered, ReceiveRead, ReceiveCredit, PollTransfers,
          NothingReady, TransferFailed, TransferWrite, TransferRead,
          TransferStream, BurstRead, BurstEnd, DropReceiver, MarkStopped,
          Release, SendClose, outVars, PolledTransfer
    <3> QED
      BY <3>1, <3>2
  <2>3. CASE OfDevice
    BY <1>1, <2>3 DEF OfDevice, Arrive, Transmit, Shift, Lose, nativeVars, jsVars
  <2>4. CASE UNCHANGED vars
    BY <1>1, <2>4 DEF vars, nativeVars, jsVars
  <2> QED
    BY <1>1, <2>1, <2>2, <2>3, <2>4 DEF AnyStep
<1>2. Overtaken /\ Closing /\ [AnyStep]_vars
        => [stop => /\ taken' # taken => PolledTransfer \/ OvertakenAttempt
                    /\ call'.step = "checked" => call.step = "checked"]_vars
  BY <1>1
<1> QED
  BY InitInv, NextInv, InitShape, NextShape, InitClosing, NextClosing,
     InitOvertaken, NextOvertaken, <1>2, PTL
  DEF AnySpec, StopForbidsWrites
-----------------------------------------------------------------------------
(* The ordered commands that wait in the channel or with the task.         *)
OrderedOf(s) == {s[i] : i \in {k \in DOMAIN s : Ordered(s[k].op)}}

Held == OrderedOf(channel) \cup OrderedOf(commands)

Matching ==
  \A d \in Held :
    /\ d.id \in 1 .. Len(requests)
    /\ requests[d.id].op = d.op /\ requests[d.id].size = d.size
    /\ requests[d.id].state = "queued"

(* How much of a held write is with the driver, and the unit that the      *)
(* driver accepted last.                                                   *)
Sent(d) ==
  d.from + (IF FrontIs("write") /\ d.id = FrontCommand.id THEN written ELSE 0)

LastUnit == IF taken = <<>> THEN <<0, 0>> ELSE taken[Len(taken)]

Resumes(id, sent) ==
  IF sent = 0 THEN LastUnit[1] < id ELSE LastUnit = <<id, sent>>

Partial ==
  /\ written > 0 => FrontIs("write") \/ pc \in Ended
  /\ \A d \in Held :
       d.op = "write" => Sent(d) <= d.size /\ Resumes(d.id, Sent(d))

Interrupted == call.step = "remainder" /\ call.from > 0

Remainder ==
  /\ call.step = "remainder" => call.from <= call.size
  /\ Interrupted => /\ LastUnit = <<call.id, call.from>>
                    /\ pendingOps = 0 /\ Held = {}
  /\ LastUnit[1] <= Len(requests) \/ Interrupted

(* A request is with the driver, or held, or was dropped with the          *)
(* receiver; then pending_ops stays above zero and lets no write pass.     *)
Accounted ==
  \A id \in 1 .. Len(requests) :
    Transferred(id) \/ (\E d \in Held : d.id = id)
      \/ (~receiving /\ pendingOps > 0)

Known ==
  /\ ~receiving => Held = {}
  /\ pc = "draining" => FrontIs("drain")
  /\ \A i \in DOMAIN taken : taken[i][1] \in 1 .. (Len(requests) + 1)

Wire == Matching /\ Partial /\ Remainder /\ Accounted /\ Known /\ WireOrder

LEMMA OrderedOfAppend ==
  ASSUME NEW s \in Seq(Command), NEW c \in Command
  PROVE  OrderedOf(Append(s, c))
           = IF Ordered(c.op) THEN OrderedOf(s) \cup {c} ELSE OrderedOf(s)
<1>1. /\ Append(s, c) \in Seq(Command)
      /\ \A i \in 1 .. Len(s) : Append(s, c)[i] = s[i]
      /\ Append(s, c)[Len(s) + 1] = c /\ Len(s) \in Nat
      /\ DOMAIN s = 1 .. Len(s)
      /\ DOMAIN Append(s, c) = (1 .. Len(s)) \cup {Len(s) + 1}
  OBVIOUS
<1> QED
  BY <1>1 DEF OrderedOf

LEMMA OrderedOfTail ==
  ASSUME NEW s \in Seq(Command), s # <<>>
  PROVE  OrderedOf(s) = IF Ordered(Head(s).op)
                        THEN OrderedOf(Tail(s)) \cup {Head(s)}
                        ELSE OrderedOf(Tail(s))
<1>1. /\ Len(s) \in Nat \ {0} /\ DOMAIN s = 1 .. Len(s)
      /\ DOMAIN Tail(s) = 1 .. (Len(s) - 1)
      /\ \A i \in 1 .. (Len(s) - 1) : Tail(s)[i] = s[i + 1]
      /\ Head(s) = s[1]
  OBVIOUS
<1>2. ASSUME NEW x \in OrderedOf(s)
      PROVE  (Ordered(s[1].op) /\ x = s[1]) \/ x \in OrderedOf(Tail(s))
  <2>1. PICK i \in DOMAIN s : Ordered(s[i].op) /\ x = s[i]
    BY DEF OrderedOf
  <2>2. CASE i = 1
    BY <2>1, <2>2
  <2>3. CASE i # 1
    <3>1. i - 1 \in DOMAIN Tail(s) /\ Tail(s)[i - 1] = s[i]
      BY <1>1, <2>3
    <3> QED
      BY <2>1, <3>1 DEF OrderedOf
  <2> QED
    BY <2>2, <2>3
<1>3. ASSUME NEW x \in OrderedOf(Tail(s)) PROVE x \in OrderedOf(s)
  <2>1. PICK i \in DOMAIN Tail(s) : Ordered(Tail(s)[i].op) /\ x = Tail(s)[i]
    BY DEF OrderedOf
  <2>2. i + 1 \in DOMAIN s /\ Tail(s)[i] = s[i + 1]
    BY <1>1
  <2> QED
    BY <2>1, <2>2 DEF OrderedOf
<1>4. Ordered(s[1].op) => s[1] \in OrderedOf(s)
  BY <1>1 DEF OrderedOf
<1> QED
  BY <1>1, <1>2, <1>3, <1>4

(* The held commands have distinct ids, the front one the least of them;   *)
(* while the task receives, pending_ops is zero exactly if none is held.   *)
LEMMA HeldFacts ==
  ASSUME Inv
  PROVE  /\ \A d \in Held : d \in Command /\ d.id \in Nat /\ d.from \in Nat
                            /\ d.size \in Nat /\ Ordered(d.op)
                            /\ d.id <= Len(requests)
         /\ commands # <<>> =>
              /\ FrontCommand \in Held
              /\ \A d \in Held : d = FrontCommand \/ FrontCommand.id < d.id
         /\ InFlight = {d.id : d \in Held}
         /\ receiving => (pendingOps = 0 <=> Held = {})
<1> USE DEF Inv
<1>1. /\ channel \in Seq(Command) /\ commands \in Seq(Command)
      /\ DOMAIN channel = 1 .. Len(channel)
      /\ DOMAIN commands = 1 .. Len(commands)
      /\ Len(channel) \in Nat /\ Len(commands) \in Nat /\ pendingOps \in Nat
  BY DEF QueueTypes
<1>2. ASSUME NEW d \in Held
      PROVE  d \in Command /\ Ordered(d.op) /\ d.id <= Len(requests)
  <2>1. CASE d \in OrderedOf(channel)
    BY <1>1, <2>1 DEF OrderedOf, Submission, AtMost
  <2>2. CASE d \in OrderedOf(commands)
    BY <1>1, <2>2 DEF OrderedOf, Submission, AtMost
  <2> QED
    BY <2>1, <2>2 DEF Held
<1>3. ASSUME NEW d \in Held PROVE d.id \in Nat /\ d.from \in Nat /\ d.size \in Nat
  BY <1>2 DEF Command
<1>4. ASSUME commands # <<>>
      PROVE  /\ FrontCommand \in Held
             /\ \A d \in Held : d = FrontCommand \/ FrontCommand.id < d.id
  <2>1. 1 \in DOMAIN commands /\ FrontCommand = commands[1]
    BY <1>1, <1>4 DEF FrontCommand
  <2>2. Ordered(FrontCommand.op)
    BY <1>1, <2>1 DEF Submission
  <2>3. FrontCommand \in Held
    BY <2>1, <2>2 DEF Held, OrderedOf
  <2>4. ASSUME NEW d \in OrderedOf(channel) PROVE FrontCommand.id < d.id
    BY <1>1, <2>1, <2>2 DEF OrderedOf, Submission, Before
  <2>5. ASSUME NEW d \in OrderedOf(commands)
        PROVE  d = FrontCommand \/ FrontCommand.id < d.id
    BY <1>1, <2>1, <2>2 DEF OrderedOf, Submission, Increasing
  <2> QED
    BY <2>3, <2>4, <2>5 DEF Held
<1>5. InFlight = {d.id : d \in Held}
  <2>1. \A s : OrderedIn(s) = {d.id : d \in OrderedOf(s)}
    BY DEF OrderedIn, OrderedOf
  <2> QED
    BY <2>1 DEF InFlight, Held
<1>6. receiving => (pendingOps = 0 <=> Held = {})
  <2>1. IsFiniteSet(InFlight) /\ (receiving => pendingOps = Cardinality(InFlight))
    BY DEF Counting
  <2>2. Cardinality(InFlight) = 0 <=> InFlight = {}
    BY <2>1, FS_EmptySet
  <2>3. InFlight = {} <=> Held = {}
    BY <1>5
  <2> QED
    BY <2>1, <2>2, <2>3
<1> QED
  BY <1>2, <1>3, <1>4, <1>5, <1>6

(* What the driver has, it keeps, and what was requested stays requested.  *)
Grows ==
  /\ taken \in ChunkSeq /\ taken' \in ChunkSeq
  /\ requests \in Seq(Requests) /\ requests' \in Seq(Requests)
  /\ Len(taken) <= Len(taken')
  /\ \A i \in 1 .. Len(taken) : taken'[i] = taken[i]
  /\ Len(requests) <= Len(requests')
  /\ \A id \in 1 .. Len(requests) : requests'[id] = requests[id]

LEMMA TransferredKept ==
  ASSUME Grows, NEW id \in 1 .. Len(requests), Transferred(id)
  PROVE  Transferred(id)'
<1>1. requests'[id] = requests[id] /\ Len(taken) \in Nat /\ Len(taken') \in Nat
  BY DEF Grows, ChunkSeq
<1>2. \A u : Contains(taken, u) => Contains(taken', u)
  BY <1>1 DEF Contains, Grows
<1> QED
  BY <1>1, <1>2 DEF Transferred

(* The units that one transfer adds, and the last unit after it.           *)
LEMMA Accepted ==
  ASSUME taken \in ChunkSeq, NEW id \in Nat, NEW from \in Nat, NEW n \in Nat,
         taken' = taken \o Units(id, from, n)
  PROVE  /\ taken' \in ChunkSeq /\ Len(taken') = Len(taken) + n
         /\ \A i \in 1 .. Len(taken) : taken'[i] = taken[i]
         /\ \A k \in 1 .. n : taken'[Len(taken) + k] = <<id, from + k>>
         /\ LastUnit' = IF n = 0 THEN LastUnit ELSE <<id, from + n>>
         /\ n > 0 => Contains(taken', <<id, from + n>>)
<1>1. /\ taken' \in ChunkSeq /\ Len(taken') = Len(taken) + n
      /\ \A i \in 1 .. Len(taken) : taken'[i] = taken[i]
      /\ \A k \in 1 .. n : taken'[Len(taken) + k] = <<id, from + k>>
  <2>1. PICK u : u = taken \o Units(id, from, n)
    OBVIOUS
  <2>2. u \in ChunkSeq /\ Len(u) = Len(taken) + n
    BY <2>1, AcceptTypes
  <2>3. \A i \in 1 .. Len(taken) : u[i] = taken[i]
    BY <2>1, AcceptTypes
  <2>4. ASSUME NEW k \in 1 .. n PROVE u[Len(taken) + k] = <<id, from + k>>
    <3>1. (taken \o Units(id, from, n))[Len(taken) + k] = <<id, from + k>>
      BY UnitAt
    <3> QED
      BY <2>1, <3>1
  <2> QED
    BY <2>1, <2>2, <2>3, <2>4
<1>2. /\ Len(taken) \in Nat /\ Len(taken') \in Nat
      /\ taken = <<>> <=> Len(taken) = 0
      /\ taken' = <<>> <=> Len(taken') = 0
  <2>1. taken \in Seq(Nat \X Nat) /\ taken' \in Seq(Nat \X Nat)
    BY <1>1 DEF ChunkSeq
  <2> QED
    BY <2>1, SMTT(40)
<1>3. CASE n = 0
  <2>1. LastUnit' = LastUnit
    BY <1>1, <1>2, <1>3 DEF LastUnit
  <2> QED
    BY <1>1, <1>3, <2>1
<1>4. CASE n > 0
  <2>1. taken' # <<>> /\ taken'[Len(taken')] = <<id, from + n>>
    BY <1>1, <1>2, <1>4
  <2>2. LastUnit' = <<id, from + n>>
    BY <2>1 DEF LastUnit
  <2>3. Contains(taken', <<id, from + n>>)
    <3>1. Len(taken') \in 1 .. Len(taken')
      BY <1>1, <1>2, <1>4
    <3> QED
      BY <2>1, <3>1 DEF Contains
  <2> QED
    BY <1>1, <1>4, <2>2, <2>3
<1> QED
  BY <1>3, <1>4, SMTT(40)

(* A transfer that resumes where the driver stands keeps the order, if     *)
(* every earlier request is with the driver.                               *)
LEMMA AcceptOrder ==
  ASSUME Grows, WireOrder, Known, NEW id \in Nat, NEW from \in Nat,
         NEW n \in Nat, taken' = taken \o Units(id, from, n),
         id <= Len(requests) + 1, Resumes(id, from),
         n > 0 => \A j \in 1 .. (id - 1) : Transferred(j)
  PROVE  WireOrder'
<1>1. /\ taken \in ChunkSeq /\ Len(taken) \in Nat /\ Len(requests) \in Nat
      /\ DOMAIN taken = 1 .. Len(taken)
      /\ taken = <<>> <=> Len(taken) = 0
  BY DEF Grows, ChunkSeq
<1>2. /\ taken' \in ChunkSeq /\ Len(taken') = Len(taken) + n
      /\ \A i \in 1 .. Len(taken) : taken'[i] = taken[i]
      /\ \A k \in 1 .. n : taken'[Len(taken) + k] = <<id, from + k>>
      /\ LastUnit' = IF n = 0 THEN LastUnit ELSE <<id, from + n>>
      /\ n > 0 => Contains(taken', <<id, from + n>>)
  BY <1>1, Accepted
<1>3. DOMAIN taken' = 1 .. (Len(taken) + n)
  BY <1>2 DEF Grows, ChunkSeq
<1>4. ASSUME NEW i \in DOMAIN taken', i <= Len(taken) PROVE InPlace(i)'
  <2>1. /\ i \in DOMAIN taken /\ taken'[i] = taken[i]
        /\ i > 1 => taken'[i-1] = taken[i-1]
    BY <1>1, <1>2, <1>3, <1>4
  <2>2. InPlace(i) /\ taken[i][1] \in 1 .. (Len(requests) + 1)
    BY <2>1 DEF WireOrder, Known
  <2>3. ASSUME NEW j \in 1 .. (taken[i][1] - 1) PROVE Transferred(j)'
    BY <1>1, <2>2, TransferredKept DEF InPlace
  <2>4. i = 1 \/ i > 1
    BY <1>3, <1>1
  <2> QED
    BY <2>1, <2>2, <2>3, <2>4 DEF InPlace
<1>5. ASSUME NEW i \in DOMAIN taken', i > Len(taken) PROVE InPlace(i)'
  <2> DEFINE k == i - Len(taken)
  <2>1. k \in 1 .. n /\ i = Len(taken) + k
    BY <1>1, <1>3, <1>5
  <2>2. taken'[i] = <<id, from + k>>
    BY <1>2, <2>1
  <2>3. ASSUME NEW j \in 1 .. (id - 1) PROVE Transferred(j)'
    BY <1>1, <2>1, TransferredKept
  <2>4. CASE k > 1
    <3>1. k - 1 \in 1 .. n /\ i - 1 = Len(taken) + (k - 1)
      BY <1>1, <2>1, <2>4
    <3>2. taken'[i - 1] = <<id, from + (k - 1)>>
      BY <1>2, <3>1
    <3>3. from + (k - 1) = (from + k) - 1 /\ i > 1 /\ from + k > 1
      BY <1>1, <2>1, <2>4
    <3>4. taken'[i][1] = id /\ taken'[i][2] = from + k
      BY <2>2
    <3>5. taken'[i - 1] = <<taken'[i][1], taken'[i][2] - 1>>
      BY <3>2, <3>3, <3>4
    <3>6. ~(taken'[i][2] = 1)
      BY <3>3, <3>4
    <3> QED
      BY <2>3, <3>3, <3>4, <3>5, <3>6 DEF InPlace
  <2>5. CASE k = 1 /\ from > 0
    <3>1. LastUnit = <<id, from>>
      BY <2>5 DEF Resumes
    <3>2. taken # <<>> /\ taken[Len(taken)] = <<id, from>>
      BY <2>5, <3>1 DEF LastUnit
    <3>3. i > 1 /\ i - 1 = Len(taken) /\ taken'[i - 1] = <<id, from>>
      <4>1. Len(taken) \in 1 .. Len(taken) /\ i - 1 = Len(taken) /\ i > 1
        BY <1>1, <2>1, <2>5, <3>2
      <4>2. taken'[Len(taken)] = taken[Len(taken)]
        BY <1>2, <4>1
      <4> QED
        BY <3>2, <4>1, <4>2
    <3>4. taken'[i] = <<id, from + 1>> /\ from = (from + 1) - 1 /\ from + 1 > 1
      BY <2>2, <2>5
    <3> QED
      BY <2>3, <3>3, <3>4 DEF InPlace
  <2>6. CASE k = 1 /\ from = 0
    <3>1. LastUnit[1] < id
      BY <2>6 DEF Resumes
    <3>2. CASE taken = <<>>
      <4>1. i = 1 /\ taken'[i] = <<id, 1>>
        BY <1>1, <2>1, <2>2, <2>6, <3>2
      <4> QED
        BY <2>3, <4>1 DEF InPlace
    <3>3. CASE taken # <<>>
      <4>1. i - 1 = Len(taken) /\ taken'[i - 1] = LastUnit /\ taken'[i] = <<id, 1>>
        <5>1. Len(taken) \in 1 .. Len(taken) /\ i - 1 = Len(taken)
          BY <1>1, <2>1, <2>6, <3>3
        <5>2. taken'[Len(taken)] = taken[Len(taken)]
          BY <1>2, <5>1
        <5>3. taken'[i] = <<id, 1>>
          BY <2>2, <2>6
        <5> QED
          BY <3>3, <5>1, <5>2, <5>3 DEF LastUnit
      <4> QED
        BY <2>3, <3>1, <4>1 DEF InPlace
    <3> QED
      BY <3>2, <3>3
  <2> QED
    BY <2>1, <2>4, <2>5, <2>6
<1>6. \A i \in DOMAIN taken' : i <= Len(taken) \/ i > Len(taken)
  BY <1>1, <1>3
<1> QED
  BY <1>4, <1>5, <1>6 DEF WireOrder

-----------------------------------------------------------------------------
LEMMA InitWire == Init => Wire
<1> SUFFICES ASSUME Init PROVE Wire
  OBVIOUS
<1> USE DEF Init, InitNative, InitReactor
<1>1. Held = {}
  BY DEF Held, OrderedOf
<1>2. LastUnit = <<0, 0>> /\ ~Interrupted /\ call.step = "none"
  BY DEF LastUnit, Interrupted, NoCall
<1>3. Matching /\ Partial /\ Remainder
  BY <1>1, <1>2 DEF Matching, Partial, Remainder
<1>4. Accounted /\ Known /\ WireOrder
  BY <1>1 DEF Accounted, Known, WireOrder
<1> QED
  BY <1>3, <1>4 DEF Wire

(* Steps that neither make a request, nor move output, nor finish or lose  *)
(* a command.                                                              *)
LEMMA WireFrame ==
  ASSUME Wire, Held' = Held, \A d \in Held : Sent(d)' = Sent(d),
         written > 0 => FrontIs("write")' \/ pc' \in Ended,
         pc' = "draining" => FrontIs("drain")',
         UNCHANGED <<taken, requests, call, written, pendingOps, receiving>>
  PROVE  Wire'
<1>1. LastUnit' = LastUnit /\ Interrupted' = Interrupted
  BY DEF LastUnit, Interrupted
<1>2. \A id : Transferred(id)' = Transferred(id)
  BY DEF Transferred
<1>3. Matching'
  BY DEF Wire, Matching
<1>4. \A id, sent : Resumes(id, sent)' = Resumes(id, sent)
  BY <1>1 DEF Resumes
<1>5. Partial'
  BY <1>4 DEF Wire, Partial
<1>6. Remainder'
  BY <1>1 DEF Wire, Remainder
<1>7. Accounted'
  BY <1>2 DEF Wire, Accounted
<1>8. Known'
  BY DEF Wire, Known
<1>9. WireOrder'
  BY <1>2 DEF Wire, WireOrder, InPlace
<1> QED
  BY <1>3, <1>5, <1>6, <1>7, <1>8, <1>9 DEF Wire

LEMMA HeldReceive ==
  ASSUME Inv, channel # <<>>, channel' = Tail(channel),
         \/ Ordered(Head(channel).op) /\ commands' = Queue(Head(channel))
         \/ ~Ordered(Head(channel).op) /\ commands' = commands
  PROVE  Held' = Held
<1> DEFINE c == Head(channel)
<1>1. c \in Command /\ channel \in Seq(Command) /\ commands \in Seq(Command)
  BY HeadType DEF Inv, QueueTypes
<1>2. CASE Ordered(c.op) /\ commands' = Append(commands, c)
  <2>1. OrderedOf(commands') = OrderedOf(commands) \cup {c}
    BY <1>1, <1>2, OrderedOfAppend
  <2>2. OrderedOf(channel) = OrderedOf(channel') \cup {c}
    BY <1>1, <1>2, OrderedOfTail
  <2> QED
    BY <2>1, <2>2 DEF Held, OrderedOf
<1>3. CASE ~Ordered(c.op) /\ commands' = commands
  <2>1. OrderedOf(channel) = OrderedOf(channel')
    BY <1>1, <1>3, OrderedOfTail
  <2> QED
    BY <1>3, <2>1 DEF Held, OrderedOf
<1> QED
  BY <1>2, <1>3 DEF Queue

(* The task takes a command from the channel.                              *)
LEMMA ReceiveWire ==
  ASSUME Inv, Wire, channel # <<>>, channel' = Tail(channel),
         \/ Ordered(Head(channel).op) /\ commands' = Queue(Head(channel))
         \/ ~Ordered(Head(channel).op) /\ commands' = commands,
         pc = "select", pc' # "draining",
         UNCHANGED <<taken, requests, call, written, pendingOps, receiving>>
  PROVE  Wire'
<1> DEFINE c == Head(channel)
<1>1. c \in Command /\ channel \in Seq(Command) /\ commands \in Seq(Command)
      /\ written \in Nat
  BY HeadType DEF Inv, QueueTypes
<1>2. Held' = Held
  BY HeldReceive
<1>3. commands # <<>> => commands' # <<>> /\ Head(commands') = Head(commands)
  BY <1>1 DEF Queue
<1>4. commands = <<>> => written = 0
  BY <1>1 DEF Wire, Partial, FrontIs, Ended
<1>5. ASSUME NEW d \in Held PROVE Sent(d)' = Sent(d)
  BY <1>3, <1>4 DEF Sent, FrontIs, FrontCommand
<1>6. written > 0 => FrontIs("write")'
  BY <1>3, <1>4 DEF Wire, Partial, FrontIs, FrontCommand, Ended
<1> QED
  BY <1>2, <1>5, <1>6, WireFrame

(* The front command is done: it was a write and all of it is with the     *)
(* driver, or it is no write.                                              *)
LEMMA RetireWire ==
  ASSUME Inv, Shape, Wire, commands # <<>>, receiving,
         commands' = Tail(commands), pendingOps' = pendingOps - 1,
         \/ FrontIs("write") /\ Remaining = 0 /\ written' = 0
         \/ ~FrontIs("write") /\ written' = written,
         pc \notin Ended, pc' = "answer",
         UNCHANGED <<channel, taken, requests, call, receiving>>
  PROVE  Wire' /\ Transferred(FrontCommand.id) /\ Held = Held' \cup {FrontCommand}
         /\ \A d \in Held' : FrontCommand.id < d.id
<1> DEFINE c == FrontCommand
<1>1. /\ commands \in Seq(Command) /\ written \in Nat /\ c \in Held
      /\ c.id \in Nat /\ c.from \in Nat /\ c.size \in Nat /\ Ordered(c.op)
      /\ \A d \in Held : d = c \/ c.id < d.id
      /\ \A d \in Held : d.id \in Nat /\ d.from \in Nat /\ Ordered(d.op)
  BY HeldFacts DEF Inv, QueueTypes
<1>2. Held = Held' \cup {c}
  BY <1>1, OrderedOfTail DEF Held, FrontCommand, OrderedOf
<1>3. ASSUME NEW d \in Held' PROVE c.id < d.id
  <2>1. OrderedOf(channel)' = OrderedOf(channel)
    BY DEF OrderedOf
  <2>2. CASE d \in OrderedOf(channel)
    <3>1. PICK i \in DOMAIN channel : Ordered(channel[i].op) /\ d = channel[i]
      BY <2>2 DEF OrderedOf
    <3>2. 1 \in 1 .. Len(commands) /\ c = commands[1] /\ i \in 1 .. Len(channel)
      BY <1>1, <3>1 DEF FrontCommand, Inv, QueueTypes
    <3> QED
      BY <1>1, <3>1, <3>2 DEF Inv, Submission, Before
  <2>3. CASE d \in OrderedOf(commands')
    <3>1. PICK i \in DOMAIN commands' : Ordered(commands'[i].op) /\ d = commands'[i]
      BY <2>3 DEF OrderedOf
    <3>2. /\ 1 \in 1 .. Len(commands) /\ c = commands[1]
          /\ i + 1 \in 1 .. Len(commands) /\ d = commands[i + 1] /\ 1 < i + 1
      BY <1>1, <3>1 DEF FrontCommand
    <3> QED
      BY <1>1, <3>1, <3>2 DEF Inv, Submission, Increasing
  <2> QED
    BY <2>1, <2>2, <2>3 DEF Held
<1>4. LastUnit' = LastUnit /\ Interrupted' = Interrupted
      /\ (\A id : Transferred(id)' = Transferred(id))
      /\ (\A id, sent : Resumes(id, sent)' = Resumes(id, sent))
  BY DEF LastUnit, Interrupted, Transferred, Resumes
<1>5. c.id \in 1 .. Len(requests) /\ requests[c.id].op = c.op
      /\ requests[c.id].size = c.size
  BY <1>1 DEF Wire, Matching
<1>6. Transferred(c.id)
  <2>1. CASE c.op = "write"
    <3>1. FrontIs("write") /\ Remaining = 0
      BY <2>1 DEF FrontIs
    <3>2. Sent(c) = c.size
      BY <1>1, <3>1 DEF Sent, Remaining
    <3>3. c.size = 0 \/ LastUnit = <<c.id, c.size>>
      BY <1>1, <2>1, <3>2 DEF Wire, Partial, Resumes
    <3>4. c.size > 0 => Contains(taken, <<c.id, c.size>>)
      <4>1. ASSUME c.size > 0 PROVE taken # <<>> /\ taken[Len(taken)] = <<c.id, c.size>>
        BY <1>1, <3>3, <4>1 DEF LastUnit
      <4>2. taken # <<>> => Len(taken) \in 1 .. Len(taken)
        BY DEF Shape, TaskTypes, ChunkSeq
      <4> QED
        BY <4>1, <4>2 DEF Contains
    <3> QED
      BY <1>1, <1>5, <3>4 DEF Transferred
  <2>2. CASE c.op # "write"
    BY <1>5, <2>2 DEF Transferred
  <2> QED
    BY <2>1, <2>2
<1>7. ASSUME NEW d \in Held' PROVE Sent(d)' = Sent(d) /\ d \in Held
  <2>1. d.id # c.id /\ d \in Held
    BY <1>1, <1>2, <1>3
  <2>2. Sent(d) = d.from + 0
    BY <2>1 DEF Sent
  <2>3. written' = 0
    BY <1>1 DEF Wire, Partial
  <2>4. Sent(d)' = d.from + 0
    BY <2>3 DEF Sent
  <2> QED
    BY <2>1, <2>2, <2>4
<1>8. Matching'
  BY <1>2 DEF Wire, Matching
<1>9. Partial'
  <2>1. written' = 0
    BY <1>1 DEF Wire, Partial
  <2> QED
    BY <1>4, <1>7, <2>1 DEF Wire, Partial
<1>10. Remainder'
  BY <1>1, <1>4 DEF Wire, Remainder
<1>11. Accounted'
  BY <1>2, <1>4, <1>6 DEF Wire, Accounted
<1>12. Known'
  BY DEF Wire, Known
<1>13. WireOrder'
  BY <1>4 DEF Wire, WireOrder, InPlace
<1> QED
  BY <1>2, <1>3, <1>6, <1>8, <1>9, <1>10, <1>11, <1>12, <1>13 DEF Wire

(* What enqueue and the reception of a command do to the held commands.    *)
LEMMA HeldEnqueue ==
  ASSUME Inv, NEW c \in Command, Enqueue(c), UNCHANGED commands
  PROVE  \/ Ordered(c.op) /\ Admits(c.op) /\ Held' = Held \cup {c}
         \/ ~(Ordered(c.op) /\ Admits(c.op)) /\ Held' = Held
<1>1. OrderedOf(commands)' = OrderedOf(commands) /\ channel \in Seq(Command)
  BY DEF OrderedOf, Inv, QueueTypes
<1>2. CASE Admits(c.op)
  <2>1. channel' = Append(channel, c)
    BY <1>2 DEF Enqueue
  <2>2. OrderedOf(channel') = IF Ordered(c.op) THEN OrderedOf(channel) \cup {c}
                              ELSE OrderedOf(channel)
    BY <1>1, <2>1, OrderedOfAppend
  <2> QED
    BY <1>1, <1>2, <2>2 DEF Held
<1>3. CASE ~Admits(c.op)
  BY <1>1, <1>3 DEF Enqueue, Held, OrderedOf
<1> QED
  BY <1>2, <1>3

(* enqueue of the command of a request, which a write resumes where the    *)
(* driver stands.                                                          *)
LEMMA EnqueueWire ==
  ASSUME Inv, Shape, Wire, NEW c \in Command, c.id = Len(requests) + 1,
         c.op # "credit", Enqueue(c), requests' = Recorded(c.op, c.size),
         c.op = "write" => c.from <= c.size /\ Resumes(c.id, c.from),
         LastUnit[1] <= Len(requests) + 1,
         call'.step = "none",
         UNCHANGED <<receiving, commands, written, pc, taken>>
  PROVE  Wire'
<1> DEFINE n == Len(requests)
           r == [op |-> c.op, size |-> c.size,
                 state |-> IF Admits(c.op) THEN "queued" ELSE "refused"]
<1>1. /\ n \in Nat /\ c.id \in Nat /\ c.from \in Nat /\ c.size \in Nat
      /\ c.op \in OrderedOps \cup {"read"} /\ requests \in Seq(Requests)
      /\ channel \in Seq(Command) /\ pendingOps \in Nat /\ taken \in ChunkSeq
  BY DEF Inv, QueueTypes, Command, Shape, TaskTypes
<1>2. requests' = Append(requests, r) /\ r \in Requests
  BY <1>1 DEF Recorded, Requests
<1>3. /\ Len(requests') = n + 1 /\ requests'[n + 1] = r
      /\ \A id \in 1 .. n : requests'[id] = requests[id]
      /\ requests' \in Seq(Requests)
  BY <1>1, <1>2
<1>4. Grows
  BY <1>1, <1>3 DEF Grows, ChunkSeq
<1>5. LastUnit' = LastUnit /\ ~Interrupted' /\ call'.step = "none"
      /\ (\A id, sent : Resumes(id, sent)' = Resumes(id, sent))
  BY DEF LastUnit, Interrupted, NoCall, Resumes
<1>6. /\ \A d \in Held : d.id \in Nat /\ d.id <= n
      /\ commands # <<>> => FrontCommand \in Held
  BY HeldFacts
<1>7. \/ Ordered(c.op) /\ Admits(c.op) /\ Held' = Held \cup {c}
      \/ ~(Ordered(c.op) /\ Admits(c.op)) /\ Held' = Held
  BY HeldEnqueue
<1>8. ASSUME NEW d \in Held PROVE Sent(d)' = Sent(d)
  BY DEF Sent, FrontIs, FrontCommand
<1>9. Sent(c)' = c.from
  <2>1. FrontIs("write") => FrontCommand.id # c.id
    BY <1>1, <1>6 DEF FrontIs
  <2> QED
    BY <1>1, <2>1 DEF Sent, FrontIs, FrontCommand
<1>10. Matching'
  <2>1. ASSUME NEW d \in Held
        PROVE  /\ d.id \in 1 .. Len(requests') /\ requests'[d.id].op = d.op
               /\ requests'[d.id].size = d.size /\ requests'[d.id].state = "queued"
    BY <1>1, <1>3 DEF Wire, Matching
  <2>2. Admits(c.op) =>
          /\ c.id \in 1 .. Len(requests') /\ requests'[c.id].op = c.op
          /\ requests'[c.id].size = c.size /\ requests'[c.id].state = "queued"
    BY <1>1, <1>3
  <2> QED
    BY <1>7, <2>1, <2>2 DEF Matching
<1>11. Partial'
  <2>1. written' > 0 => FrontIs("write")' \/ pc' \in Ended
    BY DEF Wire, Partial, FrontIs, FrontCommand
  <2>2. ASSUME NEW d \in Held'
        PROVE  d.op = "write" =>
                 (Sent(d) <= d.size /\ Resumes(d.id, Sent(d)))'
    <3>1. CASE d \in Held
      BY <1>5, <1>8, <3>1 DEF Wire, Partial
    <3>2. CASE d = c
      BY <1>5, <1>9, <3>2
    <3> QED
      BY <1>7, <3>1, <3>2
  <2> QED
    BY <2>1, <2>2 DEF Partial
<1>12. Remainder'
  BY <1>3, <1>5 DEF Remainder
<1>13. Accounted'
  <2>1. ASSUME NEW id \in 1 .. n
        PROVE  Transferred(id)' \/ (\E d \in Held' : d.id = id)
                 \/ (~receiving' /\ pendingOps' > 0)
    <3>1. CASE Transferred(id)
      BY <1>4, <3>1, TransferredKept
    <3>2. CASE \E d \in Held : d.id = id
      BY <1>7, <3>2
    <3>3. CASE ~receiving /\ pendingOps > 0
      BY <3>3 DEF Enqueue, Admits, Sendable, PendingWhenRefused
    <3> QED
      BY <3>1, <3>2, <3>3 DEF Wire, Accounted
  <2>2. ASSUME NEW id, id = n + 1
        PROVE  Transferred(id)' \/ (\E d \in Held' : d.id = id)
    <3>1. CASE Ordered(c.op) /\ Admits(c.op)
      BY <1>7, <2>2, <3>1
    <3>2. CASE ~Admits(c.op)
      BY <1>3, <2>2, <3>2 DEF Transferred
    <3>3. CASE ~Ordered(c.op)
      BY <1>3, <2>2, <3>3 DEF Transferred, Ordered, OrderedOps
    <3> QED
      BY <3>1, <3>2, <3>3
  <2>3. \A id \in 1 .. Len(requests') : id \in 1 .. n \/ id = n + 1
    BY <1>1, <1>3
  <2> QED
    BY <2>1, <2>2, <2>3 DEF Accounted
<1>14. Known'
  <2>1. ~receiving' => Held' = {}
    BY <1>7 DEF Admits, Sendable, Wire, Known
  <2>2. pc' = "draining" => FrontIs("drain")'
    BY DEF Wire, Known, FrontIs, FrontCommand
  <2>3. \A i \in DOMAIN taken' : taken'[i][1] \in 1 .. (Len(requests') + 1)
    BY <1>1, <1>3 DEF Wire, Known
  <2> QED
    BY <2>1, <2>2, <2>3 DEF Known
<1>15. WireOrder'
  <2> SUFFICES ASSUME NEW i \in DOMAIN taken PROVE InPlace(i)'
    BY DEF WireOrder
  <2>1. InPlace(i) /\ taken[i][1] \in 1 .. (n + 1)
    BY DEF Wire, WireOrder, Known
  <2>2. ASSUME NEW j \in 1 .. (taken[i][1] - 1) PROVE Transferred(j)'
    BY <1>1, <1>4, <2>1, TransferredKept DEF InPlace
  <2> QED
    BY <2>1, <2>2 DEF InPlace
<1> QED
  BY <1>10, <1>11, <1>12, <1>13, <1>14, <1>15 DEF Wire

(* A credit is no request.                                                 *)
LEMMA CreditWire ==
  ASSUME Inv, Wire, NEW c \in Command, c.op = "credit", Enqueue(c),
         UNCHANGED <<receiving, commands, written, pc, requests, call, taken>>
  PROVE  Wire'
<1>1. ~Ordered(c.op) /\ channel \in Seq(Command) /\ pendingOps \in Nat
  BY DEF Ordered, OrderedOps, Inv, QueueTypes
<1>2. pendingOps' = pendingOps
  BY <1>1 DEF Enqueue, PendingWhenRefused
<1>3. Held' = Held
  <2>1. OrderedOf(channel)' = OrderedOf(channel)
    <3>1. CASE channel' = channel
      BY <3>1 DEF OrderedOf
    <3>2. CASE channel' = Append(channel, c)
      <4>1. OrderedOf(channel') = OrderedOf(channel)
        BY <1>1, <3>2, OrderedOfAppend
      <4> QED
        BY <4>1 DEF OrderedOf
    <3> QED
      BY <3>1, <3>2 DEF Enqueue
  <2> QED
    BY <2>1 DEF Held, OrderedOf
<1>4. \A d \in Held : Sent(d)' = Sent(d)
  BY DEF Sent, FrontIs, FrontCommand
<1>5. /\ written > 0 => FrontIs("write")' \/ pc' \in Ended
      /\ pc' = "draining" => FrontIs("drain")'
  BY DEF Wire, Partial, Known, FrontIs, FrontCommand
<1> QED
  BY <1>2, <1>3, <1>4, <1>5, WireFrame

(* An immediate attempt transfers only when nothing is held, and what it   *)
(* leaves resumes where the driver stands.                                 *)
LEMMA AttemptWire ==
  ASSUME Inv, Shape, Wire, NEW size \in Nat, NEW inline \in BOOLEAN,
         Attempt(Len(requests) + 1, size, inline), call.step # "remainder",
         UNCHANGED <<channel, receiving, commands, written, pendingOps, pc>>
  PROVE  Wire'
<1>1. Len(requests) \in Nat /\ requests \in Seq(Requests) /\ taken \in ChunkSeq
      /\ pendingOps \in Nat /\ queued \in 0 .. OutCap
  BY DEF Inv, QueueTypes, Shape, TaskTypes
<1>2. PICK id \in Nat, k \in Nat :
        /\ id = Len(requests) + 1 /\ k <= size
        /\ taken' = taken \o Units(id, 0, k)
        /\ k > 0 => pendingOps = 0
        /\ \/ /\ k = size /\ call' = NoCall
              /\ requests' = Append(requests, [op |-> "write",
                                 size |-> size, state |-> "inline"])
           \/ /\ call' = [step |-> "remainder", id |-> id, from |-> k,
                          size |-> size, inline |-> inline]
              /\ requests' = requests
  <2>1. PICK ok \in Outcomes(inline) :
          /\ taken' = taken \o Units(Len(requests) + 1, 0,
                                     IF ok THEN Fitting(size) ELSE 0)
          /\ IF ok /\ (IF ok THEN Fitting(size) ELSE 0) = size
             THEN /\ call' = NoCall
                  /\ requests' = Append(requests, [op |-> "write",
                                     size |-> size, state |-> "inline"])
             ELSE /\ call' = [step |-> "remainder", id |-> Len(requests) + 1,
                              from |-> IF ok THEN Fitting(size) ELSE 0,
                              size |-> size, inline |-> inline]
                  /\ requests' = requests
    BY DEF Attempt, Accept
  <2>2. Fitting(size) \in Nat /\ Fitting(size) <= size
    BY <1>1, NativeAssumption DEF Fitting, Least
  <2>3. CASE ok
    <3>1. pendingOps = 0
      BY <2>3 DEF Outcomes, MayBypass
    <3> USE <1>1, <2>2
    <3> WITNESS Len(requests) + 1 \in Nat, Fitting(size) \in Nat
    <3> QED
      BY <2>1, <2>2, <2>3, <3>1
  <2>4. CASE ~ok
    <3> WITNESS Len(requests) + 1 \in Nat, 0 \in Nat
    <3> QED
      BY <2>1, <2>2, <2>4
  <2> QED
    BY <2>3, <2>4
<1>3. k > 0 => pendingOps = 0 /\ Held = {}
  BY <1>2, HeldFacts DEF Wire, Known
<1>4. /\ taken' \in ChunkSeq /\ Len(taken') = Len(taken) + k
      /\ \A i \in 1 .. Len(taken) : taken'[i] = taken[i]
      /\ \A j \in 1 .. k : taken'[Len(taken) + j] = <<id, 0 + j>>
      /\ LastUnit' = IF k = 0 THEN LastUnit ELSE <<id, 0 + k>>
      /\ k > 0 => Contains(taken', <<id, 0 + k>>)
  <2>1. ASSUME NEW from \in Nat, taken' = taken \o Units(id, from, k)
        PROVE  /\ taken' \in ChunkSeq /\ Len(taken') = Len(taken) + k
               /\ \A i \in 1 .. Len(taken) : taken'[i] = taken[i]
               /\ \A j \in 1 .. k : taken'[Len(taken) + j] = <<id, from + j>>
               /\ LastUnit' = IF k = 0 THEN LastUnit ELSE <<id, from + k>>
               /\ k > 0 => Contains(taken', <<id, from + k>>)
    BY <1>1, <2>1, Accepted
  <2>2. 0 \in Nat
    OBVIOUS
  <2> QED
    BY <1>2, <2>1, <2>2
<1>5. /\ requests' \in Seq(Requests) /\ Len(requests) <= Len(requests')
      /\ Len(requests') <= id
      /\ \A j \in 1 .. Len(requests) : requests'[j] = requests[j]
  <2>1. CASE requests' = requests
    BY <1>1, <1>2, <2>1
  <2>2. CASE requests' = Append(requests, [op |-> "write", size |-> size,
                                           state |-> "inline"])
    <3>1. [op |-> "write", size |-> size, state |-> "inline"] \in Requests
      BY DEF Requests, OrderedOps
    <3> QED
      BY <1>1, <1>2, <2>2, <3>1
  <2> QED
    BY <1>2, <2>1, <2>2
<1>6. Grows
  <2>1. Len(taken) \in Nat
    BY <1>1 DEF ChunkSeq
  <2>2. Len(taken) <= Len(taken')
    BY <1>4, <2>1
  <2> QED
    BY <1>1, <1>4, <1>5, <2>2 DEF Grows
<1>7. LastUnit[1] <= Len(requests) /\ ~Interrupted
  BY DEF Wire, Remainder, Interrupted
<1>8. LastUnit[1] \in Nat /\ Resumes(id, 0)
  <2>1. \A i \in 1 .. Len(taken) : taken[i] \in Nat \X Nat
    BY <1>1 DEF ChunkSeq
  <2>2. taken # <<>> => Len(taken) \in 1 .. Len(taken)
    BY <1>1 DEF ChunkSeq
  <2>3. LastUnit[1] \in Nat
    BY <2>1, <2>2 DEF LastUnit
  <2> QED
    BY <1>1, <1>2, <1>7, <2>3 DEF Resumes
<1>9. WireOrder'
  <2>1. k > 0 => \A j \in 1 .. (id - 1) : Transferred(j)
    BY <1>1, <1>2, <1>3 DEF Wire, Accounted
  <2>2. WireOrder /\ Known /\ id <= Len(requests) + 1
    BY <1>1, <1>2 DEF Wire
  <2> QED
    BY <1>2, <1>6, <1>8, <2>1, <2>2, 0 \in Nat, AcceptOrder
<1>10. Held' = Held /\ \A d \in Held : Sent(d)' = Sent(d)
  BY DEF Held, OrderedOf, Sent, FrontIs, FrontCommand
<1>11. Matching'
  BY <1>2, <1>5, <1>10 DEF Wire, Matching
<1>12. Partial'
  <2>1. written' > 0 => FrontIs("write")' \/ pc' \in Ended
    BY DEF Wire, Partial, FrontIs, FrontCommand
  <2>2. Held # {} => LastUnit' = LastUnit
    BY <1>2, <1>3, <1>4
  <2>3. ASSUME NEW d \in Held
        PROVE  d.op = "write" => (Sent(d) <= d.size /\ Resumes(d.id, Sent(d)))'
    <3>1. \A i, sent : Resumes(i, sent)' = Resumes(i, sent)
      BY <2>2 DEF Resumes
    <3> QED
      BY <1>10, <3>1 DEF Wire, Partial
  <2> QED
    BY <1>10, <2>1, <2>3 DEF Partial
<1>13. Remainder'
  <2>1. \/ call' = NoCall /\ Len(requests') = id
        \/ /\ call'.step = "remainder" /\ call'.from = k /\ call'.id = id
           /\ call'.size = size /\ requests' = requests
    BY <1>1, <1>2
  <2>2. call' = NoCall => call'.step = "none"
    BY DEF NoCall
  <2>3. CASE k = 0
    <3>1. LastUnit' = LastUnit /\ LastUnit[1] <= Len(requests)
      BY <1>4, <1>7, <2>3
    <3>2. LastUnit'[1] <= Len(requests')
      <4>1. CASE requests' = requests
        BY <3>1, <4>1
      <4>2. CASE Len(requests') = id
        BY <1>1, <1>2, <1>8, <3>1, <4>2 DEF Resumes
      <4> QED
        BY <2>1, <4>1, <4>2
    <3> QED
      BY <1>2, <2>1, <2>2, <2>3, <3>2 DEF Remainder, Interrupted
  <2>4. CASE k > 0
    <3>1. LastUnit' = <<id, k>> /\ pendingOps' = 0 /\ Held' = {}
      BY <1>2, <1>3, <1>4, <1>10, <2>4
    <3> QED
      BY <1>2, <2>1, <2>2, <2>4, <3>1 DEF Remainder, Interrupted
  <2> QED
    BY <1>2, <2>3, <2>4
<1>14. Accounted'
  <2>1. ASSUME NEW j \in 1 .. Len(requests)
        PROVE  Transferred(j)' \/ (\E d \in Held' : d.id = j)
                 \/ (~receiving' /\ pendingOps' > 0)
    BY <1>6, <1>10, TransferredKept DEF Wire, Accounted
  <2>2. ASSUME NEW j, j = id, Len(requests') = id PROVE Transferred(j)'
    <3>1. k = size /\ requests' = Append(requests, [op |-> "write",
                                       size |-> size, state |-> "inline"])
      BY <1>1, <1>2, <2>2
    <3>2. requests'[j].size = size
      BY <1>1, <1>2, <2>2, <3>1
    <3>3. size > 0 => Contains(taken', <<j, size>>)
      <4>1. 0 + k = size
        BY <3>1
      <4> QED
        BY <1>4, <2>2, <3>1, <4>1
    <3>4. size = 0 \/ size > 0
      OBVIOUS
    <3> QED
      BY <3>2, <3>3, <3>4 DEF Transferred
  <2>3. \A j \in 1 .. Len(requests') :
          j \in 1 .. Len(requests) \/ (j = id /\ Len(requests') = id)
    BY <1>1, <1>2, <1>5
  <2> QED
    BY <2>1, <2>2, <2>3 DEF Accounted
<1>15. Known'
  <2>1. ASSUME NEW i \in DOMAIN taken'
        PROVE  taken'[i][1] \in 1 .. (Len(requests') + 1)
    <3>1. Len(taken) \in Nat /\ DOMAIN taken = 1 .. Len(taken)
      BY <1>1 DEF ChunkSeq
    <3>2. DOMAIN taken' = 1 .. Len(taken')
      BY <1>4 DEF ChunkSeq
    <3>3. CASE i \in 1 .. Len(taken)
      BY <1>1, <1>4, <1>5, <3>1, <3>3 DEF Wire, Known
    <3>4. CASE i > Len(taken)
      <4>1. i - Len(taken) \in 1 .. k /\ i = Len(taken) + (i - Len(taken))
        BY <1>4, <3>1, <3>2, <3>4
      <4>2. taken'[i][1] = id
        BY <1>4, <4>1
      <4> QED
        BY <1>1, <1>2, <1>5, <4>2, SMTT(40)
    <3> QED
      BY <1>4, <3>1, <3>2, <3>3, <3>4
  <2>2. ~receiving' => Held' = {}
    BY <1>10 DEF Wire, Known
  <2>3. pc' = "draining" => FrontIs("drain")'
    BY DEF Wire, Known, FrontIs, FrontCommand
  <2> QED
    BY <2>1, <2>2, <2>3 DEF Known
<1> QED
  BY <1>9, <1>11, <1>12, <1>13, <1>14, <1>15 DEF Wire

(* The task transfers the next part of its front write.                    *)
LEMMA TransferWire ==
  ASSUME Inv, Shape, Wire, TransferWrite PROVE Wire'
<1> DEFINE c == FrontCommand
           from == c.from + written
           n == Fitting(Remaining)
<1>1. /\ FrontIs("write") /\ Remaining > 0 /\ queued < OutCap
      /\ taken' = taken \o Units(c.id, from, n) /\ written' = written + n
      /\ pc = "poll" /\ pc' = "top"
      /\ UNCHANGED <<channel, receiving, commands, requests, call, pendingOps>>
  BY DEF TransferWrite, PicksWrite, WriteReady, WritePending, Accept,
     controlVars, queueVars, jsVars
<1>2. /\ c \in Held /\ c.op = "write" /\ commands # <<>>
      /\ \A d \in Held : d = c \/ c.id < d.id
      /\ \A d \in Held : d.id \in Nat /\ d.from \in Nat /\ d.size \in Nat
                          /\ d.id <= Len(requests)
  BY <1>1, HeldFacts DEF FrontIs
<1>3. /\ written \in Nat /\ from \in Nat /\ Remaining = c.size - from
      /\ Remaining \in Nat /\ n \in Nat \ {0} /\ from + n <= c.size
      /\ Len(requests) \in Nat /\ taken \in ChunkSeq /\ requests \in Seq(Requests)
      /\ receiving
  <2>1. written \in Nat /\ queued \in 0 .. OutCap /\ receiving
    BY <1>1 DEF Inv, QueueTypes, Places, Ended
  <2>2. from \in Nat /\ Remaining = c.size - from /\ Remaining \in Nat
    BY <1>1, <1>2, <2>1, SMTT(40) DEF Remaining
  <2>3. n \in Nat \ {0} /\ n <= Remaining
    BY <1>1, <2>1, <2>2, NativeAssumption DEF Fitting, Least
  <2>4. from + n <= c.size
    <3>1. c.size \in Nat
      BY <1>2
    <3> HIDE DEF from, n
    <3> QED
      BY <2>2, <2>3, <3>1
  <2>5. Len(requests) \in Nat /\ taken \in ChunkSeq /\ requests \in Seq(Requests)
    BY DEF Inv, QueueTypes, Shape, TaskTypes
  <2> HIDE DEF from, n
  <2> QED
    BY <2>1, <2>2, <2>3, <2>4, <2>5
<1>4. Sent(c) = from /\ Resumes(c.id, from)
  <2>1. Sent(c) = from
    BY <1>1 DEF Sent
  <2> QED
    BY <1>2, <2>1 DEF Wire, Partial
<1>5. /\ taken' \in ChunkSeq /\ Len(taken') = Len(taken) + n
      /\ \A i \in 1 .. Len(taken) : taken'[i] = taken[i]
      /\ \A k \in 1 .. n : taken'[Len(taken) + k] = <<c.id, from + k>>
      /\ LastUnit' = IF n = 0 THEN LastUnit ELSE <<c.id, from + n>>
      /\ n > 0 => Contains(taken', <<c.id, from + n>>)
  BY <1>1, <1>2, <1>3, Accepted
<1>6. Grows
  BY <1>1, <1>3, <1>5 DEF Grows, ChunkSeq
<1>7. Held' = Held
  BY <1>1 DEF Held, OrderedOf
<1>8. ~Interrupted /\ ~Interrupted'
  BY <1>1, <1>2 DEF Wire, Remainder, Interrupted
<1>9. WireOrder'
  <2>1. ASSUME NEW j \in 1 .. (c.id - 1) PROVE Transferred(j)
    <3>1. c.id \in Nat /\ c.id <= Len(requests) /\ Len(requests) \in Nat
      BY <1>2, <1>3
    <3>2. j \in 1 .. Len(requests) /\ j < c.id
      BY <3>1
    <3>3. ASSUME NEW d \in Held PROVE d.id # j
      BY <1>2, <3>1, <3>2
    <3> QED
      BY <1>3, <3>2, <3>3 DEF Wire, Accounted
  <2>2. c.id \in Nat /\ c.id <= Len(requests) + 1 /\ WireOrder /\ Known
    BY <1>2, <1>3 DEF Wire
  <2>3. n \in Nat
    BY <1>3
  <2> HIDE DEF from, n
  <2> QED
    BY <1>1, <1>3, <1>4, <1>6, <2>1, <2>2, <2>3, AcceptOrder
<1>10. Matching'
  BY <1>1, <1>7 DEF Wire, Matching
<1>11. Partial'
  <2>1. written' > 0 => FrontIs("write")'
    BY <1>1 DEF FrontIs, FrontCommand
  <2>2. FrontCommand' = c /\ FrontIs("write")'
    BY <1>1 DEF FrontIs, FrontCommand
  <2>3. ASSUME NEW d \in Held, d.op = "write"
        PROVE  (Sent(d) <= d.size /\ Resumes(d.id, Sent(d)))'
    <3>1. CASE d = c
      <4>1. Sent(d)' = from + n
        BY <1>1, <1>2, <1>3, <2>2, <3>1 DEF Sent
      <4> QED
        BY <1>2, <1>3, <1>5, <3>1, <4>1 DEF Resumes
    <3>2. CASE c.id < d.id
      <4>1. Sent(d) = d.from /\ Sent(d)' = d.from
        BY <1>2, <2>2, <3>2 DEF Sent
      <4>2. Resumes(d.id, d.from) /\ d.from <= d.size
        BY <2>3, <4>1 DEF Wire, Partial
      <4>3. d.from = 0
        BY <1>2, <1>4, <3>2, <4>2 DEF Resumes
      <4>4. LastUnit'[1] < d.id
        BY <1>3, <1>5, <3>2
      <4> QED
        BY <4>1, <4>2, <4>3, <4>4 DEF Resumes
    <3> QED
      BY <1>2, <3>1, <3>2
  <2> QED
    BY <1>7, <2>1, <2>3 DEF Partial
<1>12. Remainder'
  <2>1. LastUnit'[1] <= Len(requests')
    BY <1>1, <1>2, <1>3, <1>5
  <2> QED
    BY <1>1, <1>8, <2>1 DEF Wire, Remainder
<1>13. Accounted'
  BY <1>1, <1>6, <1>7, TransferredKept DEF Wire, Accounted
<1>14. Known'
  <2>1. ASSUME NEW i \in DOMAIN taken'
        PROVE  taken'[i][1] \in 1 .. (Len(requests) + 1)
    <3>1. Len(taken) \in Nat /\ i \in 1 .. (Len(taken) + n)
          /\ DOMAIN taken = 1 .. Len(taken)
      BY <1>3, <1>5 DEF ChunkSeq
    <3>2. CASE i \in 1 .. Len(taken)
      BY <1>5, <3>1, <3>2 DEF Wire, Known
    <3>3. CASE i > Len(taken)
      <4>1. i - Len(taken) \in 1 .. n /\ i = Len(taken) + (i - Len(taken))
        BY <3>1, <3>3, <1>3
      <4>2. taken'[i][1] = c.id
        BY <1>5, <4>1
      <4>3. c.id \in 1 .. Len(requests)
        BY <1>2 DEF Wire, Matching
      <4> QED
        BY <1>3, <4>2, <4>3
    <3> QED
      BY <3>1, <3>2, <3>3
  <2> QED
    BY <1>1, <1>3, <2>1 DEF Known
<1> QED
  BY <1>9, <1>10, <1>11, <1>12, <1>13, <1>14 DEF Wire

(* The receiver and all commands are dropped.  Those that were held keep   *)
(* pending_ops above zero for good.                                        *)
LEMMA DropWire ==
  ASSUME Inv, Wire, channel' = <<>>, commands' = <<>>, receiving' = FALSE,
         pc' \in Ended,
         UNCHANGED <<taken, requests, call, written, pendingOps>>
  PROVE  Wire'
<1>1. Held' = {}
  BY DEF Held, OrderedOf
<1>2. LastUnit' = LastUnit /\ Interrupted' = Interrupted
      /\ (\A id : Transferred(id)' = Transferred(id))
  BY DEF LastUnit, Interrupted, Transferred
<1>3. pendingOps \in Nat
  BY DEF Inv, QueueTypes
<1>4. Accounted'
  <2>1. Held # {} => pendingOps > 0
    BY <1>3, HeldFacts DEF Wire, Known
  <2> QED
    BY <1>2, <2>1 DEF Wire, Accounted
<1>5. Remainder'
  BY <1>1, <1>2 DEF Wire, Remainder
<1>6. Matching' /\ Partial'
  BY <1>1 DEF Matching, Partial
<1>7. Known'
  BY <1>1 DEF Wire, Known, Ended
<1>8. WireOrder'
  BY <1>2 DEF Wire, WireOrder, InPlace
<1> QED
  BY <1>4, <1>5, <1>6, <1>7, <1>8 DEF Wire

LEMMA ClientWire ==
  ASSUME Inv, Shape, Wire, AnyCall, UNCHANGED reactorVars PROVE Wire'
<1> USE DEF reactorVars, taskVars
<1>1. /\ Len(requests) \in Nat /\ taken \in ChunkSeq /\ call \in CallRecords
      /\ written \in Nat
  BY DEF Inv, QueueTypes, Shape, TaskTypes
<1>2. LastUnit[1] \in Nat
  <2>1. \A i \in 1 .. Len(taken) : taken[i] \in Nat \X Nat
    BY <1>1 DEF ChunkSeq
  <2>2. taken # <<>> => Len(taken) \in 1 .. Len(taken)
    BY <1>1 DEF ChunkSeq
  <2> QED
    BY <2>1, <2>2 DEF LastUnit
<1>3. call.step # "remainder" => LastUnit[1] <= Len(requests)
  BY DEF Wire, Remainder, Interrupted
<1>4. ASSUME UNCHANGED <<channel, requests, taken, pendingOps, receiving>>,
             UNCHANGED <<commands, written, pc>>,
             call' = call \/ (call.step # "remainder" /\ call'.step # "remainder")
      PROVE  Wire'
  <2>1. Held' = Held /\ \A d \in Held : Sent(d)' = Sent(d)
    BY <1>4 DEF Held, OrderedOf, Sent, FrontIs, FrontCommand
  <2>2. LastUnit' = LastUnit /\ (\A id : Transferred(id)' = Transferred(id))
        /\ (\A id, sent : Resumes(id, sent)' = Resumes(id, sent))
    BY <1>4 DEF LastUnit, Transferred, Resumes
  <2>3. Matching' /\ Partial'
    BY <1>4, <2>1, <2>2 DEF Wire, Matching, Partial, FrontIs, FrontCommand
  <2>4. Remainder'
    BY <1>4, <2>1, <2>2 DEF Wire, Remainder, Interrupted
  <2>5. Accounted' /\ Known'
    BY <1>4, <2>1, <2>2 DEF Wire, Accounted, Known, FrontIs, FrontCommand
  <2>6. WireOrder'
    BY <1>4, <2>2 DEF Wire, WireOrder, InPlace
  <2> QED
    BY <2>3, <2>4, <2>5, <2>6 DEF Wire
<1>5. ASSUME NEW op \in OrderedOps, Request(op) PROVE Wire'
  <2> DEFINE c == [id |-> NextId, op |-> op, from |-> 0, size |-> 0, slots |-> 0]
  <2>1. /\ c \in Command /\ c.id = Len(requests) + 1
        /\ c.op # "credit" /\ c.op # "write" /\ call.step = "none"
    BY <1>1, <1>5 DEF Request, Command, OrderedOps, NextId, JsIdle
  <2>2. Enqueue(c) /\ requests' = Recorded(c.op, c.size)
    BY <1>5 DEF Request
  <2>3. LastUnit[1] <= Len(requests) + 1
    BY <1>1, <1>2, <1>3, <2>1
  <2>4. /\ UNCHANGED <<receiving, commands, written, pc, taken>>
        /\ call'.step = "none"
    BY <1>5, <2>1 DEF Request
  <2> HIDE DEF c
  <2> QED
    BY <2>1, <2>2, <2>3, <2>4, EnqueueWire
<1>6. ASSUME NEW size \in 1 .. ChunkSize, ReadRequest(size) PROVE Wire'
  <2> DEFINE c == [id |-> NextId, op |-> "read", from |-> 0, size |-> size,
                   slots |-> 0]
  <2>1. /\ c \in Command /\ c.id = Len(requests) + 1
        /\ c.op # "credit" /\ c.op # "write" /\ call.step = "none"
    <3>1. size \in Nat
      BY <1>6, NativeAssumption DEF ReadRequest
    <3> QED
      BY <1>1, <1>6, <3>1 DEF ReadRequest, Command, NextId, JsIdle
  <2>2. Enqueue(c) /\ requests' = Recorded(c.op, c.size)
    BY <1>6 DEF ReadRequest
  <2>3. LastUnit[1] <= Len(requests) + 1
    BY <1>1, <1>2, <1>3, <2>1
  <2>4. /\ UNCHANGED <<receiving, commands, written, pc, taken>>
        /\ call'.step = "none"
    BY <1>6, <2>1 DEF ReadRequest
  <2> HIDE DEF c
  <2> QED
    BY <2>1, <2>2, <2>3, <2>4, EnqueueWire
<1>7. ASSUME NEW bytes \in 1 .. ChunkSize, NEW slots \in 1 .. ReadSlots,
             ReadCredit(bytes, slots)
      PROVE  Wire'
  <2> DEFINE c == [id |-> 0, op |-> "credit", from |-> 0, size |-> bytes,
                   slots |-> slots]
  <2>1. c \in Command /\ c.op = "credit"
    BY <1>7, NativeAssumption DEF ReadCredit, Command
  <2> QED
    BY <1>7, <2>1, CreditWire DEF ReadCredit
<1>8. ASSUME NEW size \in 0 .. ChunkSize, NEW inline \in BOOLEAN,
             Write(size, inline)
      PROVE  Wire'
  <2>1. call.step # "remainder" /\ call'.step # "remainder"
    BY <1>8 DEF Write, Calling, JsIdle
  <2> QED
    BY <1>4, <1>8, <2>1 DEF Write
<1>9. ASSUME NEW size \in 0 .. ChunkSize, NEW inline \in BOOLEAN,
             WritevSnapshot(size, inline)
      PROVE  Wire'
  <2>1. call.step # "remainder" /\ call'.step # "remainder"
    BY <1>9 DEF WritevSnapshot, Calling, JsIdle
  <2> QED
    BY <1>4, <1>9, <2>1 DEF WritevSnapshot
<1>10. CASE WriteAttempt
  <2>1. /\ call.id = Len(requests) + 1 /\ call.size \in Nat
        /\ call.inline \in BOOLEAN /\ call.step # "remainder"
    BY <1>1, <1>10 DEF WriteAttempt, Inv, Submission, CallRecords
  <2> QED
    BY <1>10, <2>1, AttemptWire DEF WriteAttempt
<1>20. CASE WritevRecheck
  <2>1. call.step # "remainder" /\ call'.step # "remainder"
    BY <1>1, <1>20 DEF WritevRecheck, CallRecords, NoCall
  <2> QED
    BY <1>4, <1>20, <2>1 DEF WritevRecheck
<1>11. CASE EnqueueRemainder
  <2> DEFINE c == [id |-> call.id, op |-> "write", from |-> call.from,
                   size |-> call.size, slots |-> 0]
  <2>1. call.id = Len(requests) + 1 /\ call.step = "remainder"
    BY <1>11 DEF EnqueueRemainder, Inv, Submission
  <2>2. /\ c \in Command /\ c.id = Len(requests) + 1 /\ c.op # "credit"
        /\ c.op = "write" /\ c.from = call.from /\ c.from \in Nat
    BY <1>1, <2>1 DEF CallRecords, Command, OrderedOps
  <2>3. Enqueue(c) /\ requests' = Recorded(c.op, c.size)
    BY <1>11 DEF EnqueueRemainder
  <2>4. c.from <= c.size /\ Resumes(c.id, c.from)
        /\ LastUnit[1] <= Len(requests) + 1
    <3>1. CASE call.from = 0
      BY <1>1, <1>2, <2>1, <3>1 DEF Wire, Remainder, Interrupted, Resumes
    <3>2. CASE call.from > 0
      BY <1>1, <2>1, <3>2 DEF Wire, Remainder, Interrupted, Resumes
    <3> QED
      BY <2>2, <3>1, <3>2
  <2>5. /\ UNCHANGED <<receiving, commands, written, pc, taken>>
        /\ call'.step = "none"
    BY <1>11 DEF EnqueueRemainder, NoCall
  <2> HIDE DEF c
  <2> QED
    BY <2>2, <2>3, <2>4, <2>5, EnqueueWire
<1>12. CASE Close \/ Notify \/ Consume \/ EnvTeardown
  BY <1>4, <1>12 DEF Close, Notify, Consume, EnvTeardown
<1> QED
  BY <1>5, <1>6, <1>7, <1>8, <1>9, <1>10, <1>11, <1>12, <1>20
  DEF AnyCall

LEMMA TaskWire ==
  ASSUME Inv, Shape, Wire, Task PROVE Wire'
<1> USE DEF controlVars, queueVars, jsVars, outVars, deviceVars
<1>1. ASSUME UNCHANGED <<channel, commands, taken, requests, call, written,
                         pendingOps, receiving>>,
             pc \in Ended => pc' \in Ended,
             pc' = "draining" => FrontIs("drain")
      PROVE  Wire'
  <2>1. Held' = Held /\ \A d \in Held : Sent(d)' = Sent(d)
    BY <1>1 DEF Held, OrderedOf, Sent, FrontIs, FrontCommand
  <2>2. /\ written > 0 => FrontIs("write")' \/ pc' \in Ended
        /\ pc' = "draining" => FrontIs("drain")'
    BY <1>1 DEF Wire, Partial, FrontIs, FrontCommand
  <2> QED
    BY <1>1, <2>1, <2>2, WireFrame
<1>2. receiving \/ pc \in Ended
  BY DEF Inv, Places
<1>3. CASE Opened \/ OpenFailed \/ PublishOpen
  BY <1>1, <1>3 DEF Opened, OpenFailed, PublishOpen, Ended
<1>4. CASE CheckStop \/ LeaveFront \/ StartDrain
  BY <1>1, <1>4 DEF CheckStop, LeaveFront, StartDrain, Draining, Ended
<1>5. CASE FinishWrite
  <2>1. /\ FrontIs("write") /\ Remaining = 0 /\ written' = 0 /\ commands # <<>>
        /\ pc = "front"
    BY <1>5 DEF FinishWrite, AfterWrite, FrontIs
  <2> QED
    BY <1>2, <1>5, <2>1, RetireWire DEF FinishWrite, Retire, Ended
<1>6. CASE Control
  BY <1>2, <1>6, RetireWire DEF Control, Retire, FrontIs, Ended
<1>7. CASE Flush
  BY <1>2, <1>7, RetireWire DEF Flush, Retire, FrontIs, Ended
<1>8. CASE FinishDrain
  <2>1. FrontIs("drain") /\ pc = "draining"
    BY <1>8 DEF FinishDrain, Wire, Known
  <2> QED
    BY <1>2, <1>8, <2>1, RetireWire DEF FinishDrain, Retire, FrontIs, Ended
<1>9. CASE SendAnswer
  <2>1. pc = "answer" /\ pc' \in {"top", "front", "ended"}
    BY <1>9 DEF SendAnswer, Send
  <2> QED
    BY <1>1, <1>9, <2>1 DEF SendAnswer, Ended
<1>10. CASE ReceiveOrdered
  BY <1>10, ReceiveWire DEF ReceiveOrdered, Receivable
<1>11. CASE ReceiveRead
  <2>1. ~Ordered(Head(channel).op)
    BY <1>11 DEF ReceiveRead, Ordered, OrderedOps
  <2> QED
    BY <1>11, <2>1, ReceiveWire DEF ReceiveRead, Receivable
<1>12. CASE ReceiveCredit
  <2>1. ~Ordered(Head(channel).op)
    BY <1>12 DEF ReceiveCredit, Ordered, OrderedOps
  <2> QED
    BY <1>12, <2>1, ReceiveWire DEF ReceiveCredit, Receivable
<1>13. CASE Notified \/ PollTransfers \/ NothingReady \/ TransferFailed
  BY <1>1, <1>13
  DEF Notified, PollTransfers, NothingReady, AfterIdlePoll, TransferFailed, Ended
<1>14. CASE TransferWrite
  BY <1>14, TransferWire
<1>15. CASE TransferRead
  BY <1>1, <1>15 DEF TransferRead, Send, Ended
<1>16. CASE TransferStream
  BY <1>1, <1>16 DEF TransferStream, Send, Ended
<1>17. CASE BurstRead
  BY <1>1, <1>17 DEF BurstRead, Ended
<1>18. CASE BurstEnd
  BY <1>1, <1>18 DEF BurstEnd, Send, Ended
<1>19. CASE DropReceiver \/ SendClose
  <2>1. commands' = <<>>
    BY <1>19 DEF DropReceiver, SendClose, Inv, Places, Empty, Ended
  <2> QED
    BY <1>19, <2>1, DropWire DEF DropReceiver, SendClose, Ended
<1>20. CASE MarkStopped \/ Release
  BY <1>1, <1>20 DEF MarkStopped, Release, Ended
<1> QED
  BY <1>3, <1>4, <1>5, <1>6, <1>7, <1>8, <1>9, <1>10, <1>11, <1>12, <1>13,
     <1>14, <1>15, <1>16, <1>17, <1>18, <1>19, <1>20
  DEF Task

LEMMA NextWire == Inv /\ Shape /\ Wire /\ [AnyStep]_vars => Wire'
<1> SUFFICES ASSUME Inv, Shape, Wire, [AnyStep]_vars PROVE Wire'
  OBVIOUS
<1>1. ASSUME UNCHANGED <<channel, commands, taken, requests, call, written,
                         pendingOps, receiving, pc>>
      PROVE  Wire'
  <2>1. Held' = Held /\ \A d \in Held : Sent(d)' = Sent(d)
    BY <1>1 DEF Held, OrderedOf, Sent, FrontIs, FrontCommand
  <2>2. /\ written > 0 => FrontIs("write")' \/ pc' \in Ended
        /\ pc' = "draining" => FrontIs("drain")'
    BY <1>1 DEF Wire, Partial, Known, FrontIs, FrontCommand
  <2> QED
    BY <1>1, <2>1, <2>2, WireFrame
<1>2. CASE OfDevice
  BY <1>1, <1>2
  DEF OfDevice, Arrive, Transmit, Shift, Lose, nativeVars, controlVars,
      queueVars, jsVars, taskVars, reactorVars
<1>3. CASE UNCHANGED vars
  BY <1>1, <1>3 DEF vars, nativeVars, reactorVars, taskVars
<1> QED
  BY <1>2, <1>3, ClientWire, TaskWire DEF AnyStep

(* The units reach the driver in the order of submission and without a     *)
(* gap, although a write may go inline, be split between the inline        *)
(* attempt and the task, or be refused half-way, at any place of the task. *)
THEOREM OrderOnTheWire == AnySpec => []WireOrder
<1>1. Wire => WireOrder
  BY DEF Wire
<1> QED
  BY InitInv, NextInv, InitShape, NextShape, InitWire, NextWire, <1>1, PTL
  DEF AnySpec

(* What a drain finds when it ends with success.                           *)
LEMMA BarrierStep ==
  ASSUME Inv, Shape, Wire, FinishDrain, answer'.kind = "ok"
  PROVE  /\ queued = 0 /\ uart = 0
         /\ \A id \in 1 .. answer'.id : Transferred(id)
<1>1. FrontIs("drain") /\ commands # <<>> /\ receiving
  BY DEF FinishDrain, Wire, Known, FrontIs, Inv, Places, Ended
<1>2. FrontCommand.id \in Nat
  BY <1>1, HeadType DEF Inv, QueueTypes, FrontCommand
<1>3. /\ Reply("ok", FrontCommand.id).id = FrontCommand.id
      /\ Reply("error", FrontCommand.id).kind = "error"
  BY <1>2, ReplyType DEF EventKinds
<1>4. queued = 0 /\ uart = 0 /\ answer'.id = FrontCommand.id
  BY <1>3 DEF FinishDrain, Drained, Retire
<1>5. ASSUME NEW id \in 1 .. FrontCommand.id PROVE Transferred(id)
  <2>1. /\ FrontCommand \in Held
        /\ \A d \in Held : d = FrontCommand \/ FrontCommand.id < d.id
        /\ \A d \in Held : d.id \in Nat /\ d.id <= Len(requests)
    BY <1>1, HeldFacts
  <2>2. CASE id = FrontCommand.id
    <3>1. requests[id].op = "drain"
      BY <1>1, <2>1, <2>2 DEF Wire, Matching, FrontIs
    <3> QED
      BY <3>1 DEF Transferred
  <2>3. CASE id < FrontCommand.id
    <3>1. id \in 1 .. Len(requests)
      BY <1>2, <2>1, <2>3 DEF Inv, QueueTypes
    <3>2. \A d \in Held : d.id # id
      BY <1>2, <2>1, <2>3
    <3> QED
      BY <1>1, <3>1, <3>2 DEF Wire, Accounted
  <2> QED
    BY <1>2, <2>2, <2>3
<1> QED
  BY <1>4, <1>5

(* A drain that succeeds comes after everything that was submitted before  *)
(* it: nothing of it is with the task, in the driver's queue or in the     *)
(* UART when the completion is accounted.                                  *)
THEOREM DrainIsBarrier == AnySpec => DrainBarrier
<1>1. ASSUME Inv, Shape, Wire, [AnyStep]_vars, pc = "draining", pc' = "answer",
             answer'.kind = "ok"
      PROVE  /\ queued = 0 /\ uart = 0
             /\ \A id \in 1 .. answer'.id : Transferred(id)
  <2>1. ~(AnyCall /\ UNCHANGED reactorVars) /\ ~OfDevice
        /\ ~UNCHANGED vars
    BY <1>1
    DEF OfDevice, Arrive, Transmit, Shift, Lose, taskVars, reactorVars, vars
  <2>2. Task
    BY <1>1, <2>1 DEF AnyStep
  <2>3. FinishDrain
    BY <1>1, <2>2
    DEF Task, Opened, OpenFailed, PublishOpen, CheckStop, LeaveFront,
        FinishWrite, Control, Flush, StartDrain, SendAnswer, Notified,
        ReceiveOrdered, ReceiveRead, ReceiveCredit, Receivable,
        PollTransfers, NothingReady, TransferFailed, TransferWrite,
        TransferRead, TransferStream, BurstRead, BurstEnd, DropReceiver,
        MarkStopped, Release, SendClose
  <2> QED
    BY <1>1, <2>3, BarrierStep
<1>2. Inv /\ Shape /\ Wire /\ [AnyStep]_vars
        => [pc = "draining" /\ pc' = "answer" /\ answer'.kind = "ok"
              => /\ queued = 0 /\ uart = 0
                 /\ \A id \in 1 .. answer'.id : Transferred(id)]_vars
  BY <1>1
<1> QED
  BY InitInv, NextInv, InitShape, NextShape, InitWire, NextWire, <1>2, PTL
  DEF AnySpec, DrainBarrier
-----------------------------------------------------------------------------
(* The request whose event is accounted and not sent yet.                  *)
Answering == IF pc = "answer" /\ IsAnswer(answer) THEN {answer.id} ELSE {}

Answered == {callbacks[i].id : i \in AnswerPlaces}

HeldIds == {d.id : d \in Held}

Settling ==
  /\ Answered \cup Answering \subseteq 1 .. Len(requests)
  /\ Answering # {} /\ answer.kind = "ok" => Transferred(answer.id)
  /\ pc \notin Over =>
       /\ QueuedUpTo(Len(requests)) = Answered \cup Answering \cup HeldIds
       /\ \A x \in Answered, y \in Answering \cup HeldIds : x < y
       /\ \A x \in Answering, y \in HeldIds : x < y
(* A step lets requests and transferred units grow.                        *)
LEMMA StepGrows ==
  ASSUME Inv, Shape, [AnyStep]_vars PROVE Grows
<1>1. /\ taken \in ChunkSeq /\ taken' \in ChunkSeq /\ requests \in Seq(Requests)
      /\ requests' \in Seq(Requests) /\ queued \in 0 .. OutCap
      /\ Len(taken) \in Nat /\ Len(requests) \in Nat
  <2>1. Inv'
    BY NextInv
  <2>2. Shape'
    BY NextShape
  <2>3. taken \in ChunkSeq /\ taken' \in ChunkSeq
    BY <2>2 DEF Shape, TaskTypes
  <2>4. /\ requests \in Seq(Requests) /\ requests' \in Seq(Requests)
        /\ queued \in 0 .. OutCap
    BY <2>1 DEF Inv, QueueTypes
  <2> QED
    BY <2>3, <2>4 DEF ChunkSeq
<1>2. ASSUME NEW id \in Nat, NEW from \in Nat, NEW n \in Nat,
             taken' = taken \o Units(id, from, n)
      PROVE  /\ Len(taken) <= Len(taken')
             /\ \A i \in 1 .. Len(taken) : taken'[i] = taken[i]
  BY <1>1, <1>2, Accepted
<1>3. ASSUME NEW id \in Nat, NEW size \in Nat, NEW inline \in BOOLEAN,
             Attempt(id, size, inline)
      PROVE  /\ Len(taken) <= Len(taken')
             /\ \A i \in 1 .. Len(taken) : taken'[i] = taken[i]
             /\ requests' = requests \/ \E r : requests' = Append(requests, r)
  <2>1. PICK ok \in Outcomes(inline) :
          taken' = taken \o Units(id, 0, IF ok THEN Fitting(size) ELSE 0)
    BY <1>3 DEF Attempt, Accept
  <2>2. (IF ok THEN Fitting(size) ELSE 0) \in Nat /\ 0 \in Nat
    BY <1>1, NativeAssumption DEF Fitting, Least
  <2>3. requests' = requests \/ \E r : requests' = Append(requests, r)
    BY <1>3 DEF Attempt
  <2> QED
    BY <1>2, <2>1, <2>2, <2>3
<1>4. ASSUME \/ taken' = taken
             \/ /\ Len(taken) <= Len(taken')
                /\ \A i \in 1 .. Len(taken) : taken'[i] = taken[i],
             requests' = requests \/ \E r : requests' = Append(requests, r)
      PROVE  Grows
  <2>1. /\ Len(requests) <= Len(requests')
        /\ \A id \in 1 .. Len(requests) : requests'[id] = requests[id]
    BY <1>1, <1>4
  <2>2. /\ Len(taken) <= Len(taken')
        /\ \A i \in 1 .. Len(taken) : taken'[i] = taken[i]
    BY <1>1, <1>4
  <2> QED
    BY <1>1, <2>1, <2>2 DEF Grows
<1>5. CASE AnyCall /\ UNCHANGED reactorVars
  <2>2. CASE WriteAttempt
    <3>1. call.id \in Nat /\ call.size \in Nat /\ call.inline \in BOOLEAN
      BY DEF Inv, QueueTypes, CallRecords
    <3> QED
      BY <1>3, <1>4, <2>2, <3>1 DEF WriteAttempt
  <2>3. ASSUME taken' = taken,
               requests' = requests \/ \E op, size : requests' = Recorded(op, size)
        PROVE  Grows
    BY <1>4, <2>3 DEF Recorded
  <2> QED
    BY <1>5, <2>2, <2>3
    DEF AnyCall, Request, ReadRequest, ReadCredit, Write, WritevSnapshot,
        WritevRecheck, EnqueueRemainder, Close, Notify, Consume, EnvTeardown
<1>6. CASE TransferWrite
  <2>1. WritePending /\ commands # <<>>
    BY <1>6 DEF TransferWrite, PicksWrite, WriteReady, WritePending, FrontIs
  <2>2. /\ FrontCommand.id \in Nat /\ FrontCommand.from + written \in Nat
        /\ Remaining \in Int
    BY <2>1, HeadType DEF Inv, QueueTypes, FrontCommand, Remaining
  <2>3. Fitting(Remaining) \in Nat
    BY <1>1, <2>1, <2>2, NativeAssumption DEF WritePending, Fitting, Least
  <2>4. /\ taken' = taken \o Units(FrontCommand.id, FrontCommand.from + written,
                                   Fitting(Remaining))
        /\ requests' = requests
    BY <1>6 DEF TransferWrite, Accept, jsVars
  <2> QED
    BY <1>2, <1>4, <2>2, <2>3, <2>4
<1>7. CASE Task /\ ~TransferWrite
  <2>1. taken' = taken /\ requests' = requests
    BY <1>7
    DEF Task, Opened, OpenFailed, PublishOpen, CheckStop, LeaveFront,
        FinishWrite, Control, Flush, StartDrain, FinishDrain, SendAnswer,
        Notified, ReceiveOrdered, ReceiveRead, ReceiveCredit, PollTransfers,
        NothingReady, TransferFailed, TransferRead, TransferStream, BurstRead,
        BurstEnd, DropReceiver, MarkStopped, Release, SendClose, jsVars, outVars
  <2> QED
    BY <1>4, <2>1
<1>8. CASE OfDevice \/ UNCHANGED vars
  BY <1>4, <1>8
  DEF OfDevice, Arrive, Transmit, Shift, Lose, vars, nativeVars, jsVars
<1> QED
  BY <1>5, <1>6, <1>7, <1>8 DEF AnyStep

(* Places of answers, when no answer is published.                         *)
LEMMA PlacesKept ==
  ASSUME callbacks \in Seq(Event),
         \/ callbacks' = callbacks
         \/ \E e : ~IsAnswer(e) /\ callbacks' = Append(callbacks, e)
  PROVE  AnswerPlaces' = AnswerPlaces
         /\ \A i \in AnswerPlaces : callbacks'[i] = callbacks[i]
<1>1. CASE callbacks' = callbacks
  BY <1>1 DEF AnswerPlaces
<1>2. ASSUME NEW e, ~IsAnswer(e), callbacks' = Append(callbacks, e)
      PROVE  AnswerPlaces' = AnswerPlaces
             /\ \A i \in AnswerPlaces : callbacks'[i] = callbacks[i]
  <2>1. /\ DOMAIN callbacks = 1 .. Len(callbacks) /\ Len(callbacks) \in Nat
        /\ DOMAIN callbacks' = (1 .. Len(callbacks)) \cup {Len(callbacks) + 1}
        /\ \A i \in 1 .. Len(callbacks) : callbacks'[i] = callbacks[i]
        /\ callbacks'[Len(callbacks) + 1] = e
    BY <1>2
  <2> QED
    BY <1>2, <2>1 DEF AnswerPlaces
<1> QED
  BY <1>1, <1>2

LEMMA QueuedKept ==
  ASSUME Grows, NEW n \in Nat, n <= Len(requests)
  PROVE  QueuedUpTo(n)' = QueuedUpTo(n)
<1>1. \A id \in 1 .. n : requests'[id] = requests[id]
  BY DEF Grows
<1> QED
  BY <1>1 DEF QueuedUpTo

LEMMA ExactKept ==
  ASSUME Grows, AnswersExact, Answered \subseteq 1 .. Len(requests),
         AnswerPlaces' = AnswerPlaces,
         \A i \in AnswerPlaces : callbacks'[i] = callbacks[i]
  PROVE  AnswersExact' /\ Answered' = Answered
<1>1. ASSUME NEW i \in AnswerPlaces PROVE ExactAt(i)'
  <2>1. ExactAt(i) /\ callbacks[i].id \in 1 .. Len(requests)
        /\ callbacks'[i] = callbacks[i]
    BY DEF AnswersExact, Answered
  <2>2. PICK n \in 1 .. Len(requests) : n = callbacks[i].id
    BY <2>1
  <2>3. n \in Nat /\ n <= Len(requests) /\ Len(requests) \in Nat
    BY DEF Grows
  <2>4. QueuedUpTo(n)' = QueuedUpTo(n)
    BY <2>3, QueuedKept
  <2>5. AnsweredBy(i)' = AnsweredBy(i)
    BY DEF AnsweredBy
  <2>6. callbacks[i].kind = "ok" => Transferred(n)'
    BY <2>1, <2>2, TransferredKept DEF ExactAt
  <2>7. QueuedUpTo(callbacks[i].id)' = AnsweredBy(i)'
    <3>1. QueuedUpTo(n)' = AnsweredBy(i)'
      BY <2>1, <2>2, <2>4, <2>5 DEF ExactAt
    <3> QED
      BY <2>1, <2>2, <3>1 DEF QueuedUpTo
  <2>8. callbacks'[i].kind = "ok" => Transferred(callbacks[i].id)'
    BY <2>1, <2>2, <2>6 DEF Transferred
  <2>9. \A j \in AnswerPlaces' : j < i => callbacks'[j].id < callbacks'[i].id
    BY <2>1 DEF ExactAt
  <2> QED
    BY <2>7, <2>8, <2>9 DEF ExactAt
<1>2. Answered' = Answered
  BY DEF Answered
<1> QED
  BY <1>1, <1>2 DEF AnswersExact

LEMMA QueuedAppend ==
  ASSUME requests \in Seq(Requests), NEW r \in Requests,
         requests' = Append(requests, r)
  PROVE  QueuedUpTo(Len(requests))'
           = IF Ordered(r.op) /\ r.state = "queued"
             THEN QueuedUpTo(Len(requests)) \cup {Len(requests) + 1}
             ELSE QueuedUpTo(Len(requests))
<1>1. /\ Len(requests) \in Nat /\ Len(requests') = Len(requests) + 1
      /\ \A id \in 1 .. Len(requests) : requests'[id] = requests[id]
      /\ requests'[Len(requests) + 1] = r
  OBVIOUS
<1>2. 1 .. Len(requests') = (1 .. Len(requests)) \cup {Len(requests) + 1}
  BY <1>1
<1>3. Len(requests) + 1 \notin 1 .. Len(requests)
  BY <1>1
<1> QED
  BY <1>1, <1>2, <1>3 DEF QueuedUpTo

(* A step that publishes no answer of an ordered request, and that holds   *)
(* `fresh' requests more.                                                  *)
LEMMA SettleStep ==
  ASSUME Grows, Settling, AnswersExact, callbacks \in Seq(Event),
         \/ callbacks' = callbacks
         \/ \E e : ~IsAnswer(e) /\ callbacks' = Append(callbacks, e),
         Answering' \subseteq Answering, Answering' # {} => answer' = answer,
         NEW fresh, \A x \in fresh : x \in Nat /\ x > Len(requests),
         pc' \notin Over =>
           /\ pc \notin Over /\ Answering' = Answering
           /\ HeldIds' = HeldIds \cup fresh
           /\ QueuedUpTo(Len(requests))' = QueuedUpTo(Len(requests)) \cup fresh
  PROVE  Settling' /\ AnswersExact'
<1>1. AnswerPlaces' = AnswerPlaces
      /\ \A i \in AnswerPlaces : callbacks'[i] = callbacks[i]
  BY PlacesKept
<1>2. Answered \cup Answering \subseteq 1 .. Len(requests)
  BY DEF Settling
<1>3. AnswersExact' /\ Answered' = Answered
  BY <1>1, <1>2, ExactKept
<1>4. Len(requests) \in Nat /\ Len(requests') \in Nat
      /\ Len(requests) <= Len(requests')
  BY DEF Grows
<1>5. Answered' \cup Answering' \subseteq 1 .. Len(requests')
  BY <1>2, <1>3, <1>4
<1>6. ASSUME Answering' # {}, answer'.kind = "ok" PROVE Transferred(answer.id)'
  <2>1. Answering # {} /\ answer' = answer /\ answer.id \in Answering
    BY <1>6 DEF Answering
  <2>2. PICK n \in 1 .. Len(requests) : n = answer.id
    BY <1>2, <2>1
  <2>3. Transferred(n)
    BY <1>6, <2>1, <2>2 DEF Settling
  <2>4. Transferred(n)'
    BY <2>3, TransferredKept
  <2> QED
    BY <2>1, <2>2, <2>4 DEF Transferred
<1>7. ASSUME pc' \notin Over
      PROVE  /\ QueuedUpTo(Len(requests))'
                  = Answered' \cup Answering' \cup HeldIds'
             /\ \A x \in Answered', y \in Answering' \cup HeldIds' : x < y
             /\ \A x \in Answering', y \in HeldIds' : x < y
  <2>1. /\ Answering' = Answering
        /\ HeldIds' = HeldIds \cup fresh
        /\ QueuedUpTo(Len(requests))' = QueuedUpTo(Len(requests)) \cup fresh
        /\ QueuedUpTo(Len(requests)) = Answered \cup Answering \cup HeldIds
        /\ \A x \in Answered, y \in Answering \cup HeldIds : x < y
        /\ \A x \in Answering, y \in HeldIds : x < y
    BY <1>7 DEF Settling
  <2>2. \A x \in Answered \cup Answering, y \in fresh : x < y
    BY <1>2, <1>4
  <2> QED
    BY <1>3, <2>1, <2>2
<1>8. Settling'
  BY <1>5, <1>6, <1>7 DEF Settling
<1> QED
  BY <1>3, <1>8

(* The front command leaves the held ones and its answer is due.           *)
LEMMA SettleRetire ==
  ASSUME Grows, Settling, AnswersExact, UNCHANGED <<callbacks, requests>>,
         callbacks \in Seq(Event), pc \notin Over, pc # "answer",
         pc' = "answer", NEW c, IsAnswer(answer'), answer'.id = c.id,
         c.id \in 1 .. Len(requests), Transferred(c.id),
         Held = Held' \cup {c}, \A d \in Held' : c.id < d.id
  PROVE  Settling' /\ AnswersExact'
<1>1. AnswerPlaces' = AnswerPlaces
  BY DEF AnswerPlaces
<1>2. Answering = {} /\ Answering' = {c.id}
  BY DEF Answering
<1>3. Answered \subseteq 1 .. Len(requests)
  BY DEF Settling
<1>4. AnswersExact' /\ Answered' = Answered
  BY <1>1, <1>3, ExactKept
<1>5. HeldIds = HeldIds' \cup {c.id}
  BY DEF HeldIds
<1>6. \A y \in HeldIds' : c.id < y
  BY DEF HeldIds
<1>7. PICK n \in 1 .. Len(requests) : n = c.id
  OBVIOUS
<1>8. Transferred(answer.id)'
  <2>1. Transferred(n)'
    BY <1>7, TransferredKept
  <2> QED
    BY <1>7, <2>1 DEF Transferred
<1>9. QueuedUpTo(Len(requests))' = QueuedUpTo(Len(requests))
  BY DEF QueuedUpTo
<1>10. /\ QueuedUpTo(Len(requests)) = Answered \cup HeldIds
       /\ \A x \in Answered, y \in HeldIds : x < y
  BY <1>2 DEF Settling
<1>11. Settling'
  BY <1>2, <1>3, <1>4, <1>5, <1>6, <1>8, <1>9, <1>10 DEF Settling
<1> QED
  BY <1>4, <1>11

(* The answer that was due is published.                                   *)
LEMMA SettlePublish ==
  ASSUME Grows, Settling, AnswersExact, callbacks \in Seq(Event),
         callbacks' = Append(callbacks, answer), pc = "answer",
         IsAnswer(answer), pc' # "answer", UNCHANGED <<requests, taken>>,
         Held' = Held
  PROVE  Settling' /\ AnswersExact'
<1>0. PICK n : n = Len(callbacks) + 1
  OBVIOUS
<1>1. Answering = {answer.id} /\ Answering' = {} /\ pc \notin Over
  BY DEF Answering, Over, Ended
<1>2. /\ DOMAIN callbacks = 1 .. Len(callbacks) /\ Len(callbacks) \in Nat
      /\ DOMAIN callbacks' = (1 .. Len(callbacks)) \cup {n}
      /\ \A i \in 1 .. Len(callbacks) : callbacks'[i] = callbacks[i]
      /\ callbacks'[n] = answer /\ n \in Nat
  BY <1>0
<1>3. AnswerPlaces' = AnswerPlaces \cup {n}
  BY <1>2 DEF AnswerPlaces
<1>4. /\ AnswerPlaces \subseteq 1 .. Len(callbacks)
      /\ \A i \in AnswerPlaces : callbacks'[i] = callbacks[i]
      /\ \A i \in AnswerPlaces : i < n /\ ~(n <= i) /\ ~(n < i)
  BY <1>2 DEF AnswerPlaces
<1>5. Answered' = Answered \cup {answer.id}
  BY <1>2, <1>3, <1>4 DEF Answered
<1>6. /\ Answered \cup {answer.id} \subseteq 1 .. Len(requests)
      /\ answer.kind = "ok" => Transferred(answer.id)
      /\ QueuedUpTo(Len(requests)) = Answered \cup {answer.id} \cup HeldIds
      /\ \A x \in Answered, y \in {answer.id} \cup HeldIds : x < y
      /\ \A y \in HeldIds : answer.id < y
  BY <1>1 DEF Settling
<1>7. HeldIds' = HeldIds
  BY DEF HeldIds
<1>8. Settling'
  <2>1. QueuedUpTo(Len(requests))' = QueuedUpTo(Len(requests))
    BY DEF QueuedUpTo
  <2> QED
    BY <1>1, <1>5, <1>6, <1>7, <2>1 DEF Settling
<1>9. ASSUME NEW i \in AnswerPlaces PROVE ExactAt(i)'
  <2>1. /\ ExactAt(i) /\ callbacks'[i] = callbacks[i] /\ i \in Nat
        /\ i < n /\ ~(n <= i) /\ ~(n < i)
    BY <1>2, <1>4 DEF AnswersExact
  <2>2. AnsweredBy(i)' = AnsweredBy(i)
    BY <1>3, <1>4, <2>1 DEF AnsweredBy
  <2>3. QueuedUpTo(callbacks[i].id)' = QueuedUpTo(callbacks[i].id)
    BY <2>1 DEF QueuedUpTo
  <2>4. Transferred(callbacks[i].id)' <=> Transferred(callbacks[i].id)
    BY <2>1 DEF Transferred
  <2>5. \A j \in AnswerPlaces' : j < i => callbacks'[j].id < callbacks'[i].id
    BY <1>3, <1>4, <2>1 DEF ExactAt
  <2> QED
    BY <2>1, <2>2, <2>3, <2>4, <2>5 DEF ExactAt
<1>10. ExactAt(n)'
  <2>1. PICK a \in 1 .. Len(requests) : a = answer.id
    BY <1>6
  <2>2. QueuedUpTo(a) = Answered \cup {a}
    <3>1. Len(requests) \in Nat /\ a \in Nat /\ a <= Len(requests)
      BY DEF Grows
    <3>2. QueuedUpTo(a) = {x \in QueuedUpTo(Len(requests)) : x <= a}
      BY <3>1 DEF QueuedUpTo
    <3>3. \A x \in QueuedUpTo(Len(requests)) : x \in Nat
      BY DEF QueuedUpTo
    <3>4. \A x \in HeldIds : ~(x <= a)
      BY <1>6, <2>1, <3>1, <3>3
    <3>5. \A x \in Answered : x <= a
      <4>1. \A x \in Answered : x \in Nat /\ x < a
        BY <1>6, <2>1
      <4> QED
        BY <3>1, <4>1
    <3> QED
      BY <1>6, <2>1, <3>1, <3>2, <3>4, <3>5
  <2>3. AnsweredBy(n)' = Answered \cup {a}
    BY <1>2, <1>3, <1>4, <2>1 DEF AnsweredBy, Answered
  <2>4. QueuedUpTo(callbacks[n].id)' = QueuedUpTo(a)
    BY <1>2, <2>1 DEF QueuedUpTo
  <2>5. Transferred(callbacks[n].id)' <=> Transferred(a)
    BY <1>2, <2>1 DEF Transferred
  <2>6. \A j \in AnswerPlaces : callbacks[j].id < a
    BY <1>6, <2>1 DEF Answered
  <2>7. \A j \in AnswerPlaces' : j < n => callbacks'[j].id < callbacks'[n].id
    BY <1>2, <1>3, <1>4, <2>1, <2>6
  <2> QED
    BY <1>2, <1>6, <2>1, <2>2, <2>3, <2>4, <2>5, <2>7 DEF ExactAt
<1>11. AnswersExact'
  BY <1>3, <1>9, <1>10 DEF AnswersExact
<1> QED
  BY <1>8, <1>11

-----------------------------------------------------------------------------
LEMMA InitSettling == Init => Settling /\ AnswersExact
<1> SUFFICES ASSUME Init PROVE Settling /\ AnswersExact
  OBVIOUS
<1> USE DEF Init, InitNative, InitReactor
<1>1. AnswerPlaces = {}
  BY DEF AnswerPlaces
<1>2. Answered = {} /\ Answering = {}
  BY <1>1 DEF Answered, Answering
<1>3. HeldIds = {}
  BY DEF HeldIds, Held, OrderedOf
<1>4. QueuedUpTo(Len(requests)) = {}
  BY DEF QueuedUpTo
<1> QED
  BY <1>1, <1>2, <1>3, <1>4 DEF Settling, AnswersExact

LEMMA ClientSettling ==
  ASSUME Inv, Shape, Settling, AnswersExact, AnyCall, UNCHANGED reactorVars
  PROVE  Settling' /\ AnswersExact'
<1>1. /\ Len(requests) \in Nat /\ requests \in Seq(Requests)
      /\ call \in CallRecords /\ callbacks \in Seq(Event)
      /\ UNCHANGED <<pc, answer, commands>>
  BY DEF Inv, QueueTypes, Shape, TaskTypes, reactorVars, taskVars
<1>2. Grows
  BY StepGrows DEF AnyStep
<1>3. callbacks' = callbacks
  BY DEF AnyCall, Request, ReadRequest, ReadCredit, Write, WritevSnapshot,
         WritevRecheck, WriteAttempt, EnqueueRemainder, Close, Notify, Consume,
      EnvTeardown
<1>4. Answering' = Answering
  BY <1>1 DEF Answering
<1>5. ASSUME UNCHANGED channel,
             requests' = requests
               \/ \E r \in Requests : r.state = "inline"
                                      /\ requests' = Append(requests, r)
      PROVE  Settling' /\ AnswersExact'
  <2>1. HeldIds' = HeldIds
    BY <1>1, <1>5 DEF HeldIds, Held, OrderedOf
  <2>2. QueuedUpTo(Len(requests))' = QueuedUpTo(Len(requests))
    <3>1. CASE requests' = requests
      BY <3>1 DEF QueuedUpTo
    <3>2. ASSUME NEW r \in Requests, r.state = "inline",
                 requests' = Append(requests, r)
          PROVE  QueuedUpTo(Len(requests))' = QueuedUpTo(Len(requests))
      BY <1>1, <3>2, QueuedAppend
    <3> QED
      BY <1>5, <3>1, <3>2
  <2>3. PICK fresh : fresh = {}
    OBVIOUS
  <2>4. /\ HeldIds' = HeldIds \cup fresh
        /\ QueuedUpTo(Len(requests))' = QueuedUpTo(Len(requests)) \cup fresh
        /\ \A x \in fresh : x \in Nat /\ x > Len(requests)
    BY <2>1, <2>2, <2>3
  <2> QED
    BY <1>1, <1>2, <1>3, <1>4, <2>4, SettleStep
<1>6. ASSUME NEW c \in Command, c.id = NextId, c.op # "credit", Enqueue(c),
             requests' = Recorded(c.op, c.size)
      PROVE  Settling' /\ AnswersExact'
  <2> DEFINE r == [op |-> c.op, size |-> c.size,
                   state |-> IF Admits(c.op) THEN "queued" ELSE "refused"]
             fresh == IF Ordered(c.op) /\ Admits(c.op) THEN {c.id} ELSE {}
  <2>1. r \in Requests /\ requests' = Append(requests, r)
    BY <1>6 DEF Command, Requests, Recorded
  <2>2. QueuedUpTo(Len(requests))' = QueuedUpTo(Len(requests)) \cup fresh
    BY <1>1, <1>6, <2>1, QueuedAppend DEF NextId
  <2>3. HeldIds' = HeldIds \cup fresh
    BY <1>1, <1>6, HeldEnqueue DEF HeldIds
  <2>4. \A x \in fresh : x \in Nat /\ x > Len(requests)
    BY <1>1, <1>6 DEF NextId
  <2> HIDE DEF fresh
  <2> QED
    BY <1>1, <1>2, <1>3, <1>4, <2>2, <2>3, <2>4, SettleStep
<1>7. ASSUME NEW op \in OrderedOps, Request(op) PROVE Settling' /\ AnswersExact'
  <2> DEFINE c == [id |-> NextId, op |-> op, from |-> 0, size |-> 0, slots |-> 0]
  <2>1. /\ c \in Command /\ c.id = NextId /\ c.op # "credit"
        /\ Enqueue(c) /\ requests' = Recorded(c.op, c.size)
    BY <1>1, <1>7 DEF Request, Command, OrderedOps, NextId
  <2> HIDE DEF c
  <2> QED
    BY <1>6, <2>1
<1>8. ASSUME NEW size \in 1 .. ChunkSize, ReadRequest(size)
      PROVE  Settling' /\ AnswersExact'
  <2> DEFINE c == [id |-> NextId, op |-> "read", from |-> 0, size |-> size,
                   slots |-> 0]
  <2>1. size \in Nat
    BY <1>8, NativeAssumption DEF ReadRequest
  <2>2. /\ c \in Command /\ c.id = NextId /\ c.op # "credit"
        /\ Enqueue(c) /\ requests' = Recorded(c.op, c.size)
    BY <1>1, <1>8, <2>1 DEF ReadRequest, Command, NextId
  <2> HIDE DEF c
  <2> QED
    BY <1>6, <2>2
<1>9. ASSUME NEW bytes \in 1 .. ChunkSize, NEW slots \in 1 .. ReadSlots,
             ReadCredit(bytes, slots)
      PROVE  Settling' /\ AnswersExact'
  <2> DEFINE c == [id |-> 0, op |-> "credit", from |-> 0, size |-> bytes,
                   slots |-> slots]
  <2>1. /\ c \in Command /\ ~Ordered(c.op) /\ Enqueue(c)
        /\ UNCHANGED requests
    BY <1>9, NativeAssumption DEF ReadCredit, Command, Ordered, OrderedOps
  <2>2. Held' = Held
    BY <1>1, <2>1, HeldEnqueue
  <2>3. requests' = requests
    BY <2>1
  <2>4. PICK fresh : fresh = {}
    OBVIOUS
  <2>5. /\ HeldIds' = HeldIds \cup fresh
        /\ QueuedUpTo(Len(requests))' = QueuedUpTo(Len(requests)) \cup fresh
        /\ \A x \in fresh : x \in Nat /\ x > Len(requests)
    BY <2>2, <2>3, <2>4 DEF HeldIds, QueuedUpTo
  <2> QED
    BY <1>1, <1>2, <1>3, <1>4, <2>5, SettleStep
<1>10. ASSUME NEW id, NEW size \in Nat, NEW inline, Attempt(id, size, inline)
       PROVE  requests' = requests
                \/ \E r \in Requests : r.state = "inline"
                                       /\ requests' = Append(requests, r)
  <2> DEFINE r == [op |-> "write", size |-> size, state |-> "inline"]
  <2>1. r \in Requests /\ r.state = "inline"
    BY DEF Requests, OrderedOps
  <2>2. requests' = requests \/ requests' = Append(requests, r)
    BY <1>10 DEF Attempt
  <2> HIDE DEF r
  <2> QED
    BY <2>1, <2>2
<1>11. ASSUME NEW size \in 0 .. ChunkSize, NEW inline \in BOOLEAN,
              Write(size, inline)
       PROVE  Settling' /\ AnswersExact'
  BY <1>5, <1>11 DEF Write
<1>12. CASE WriteAttempt
  <2>1. call.size \in Nat
    BY <1>1 DEF CallRecords
  <2> QED
    BY <1>5, <1>10, <1>12, <2>1 DEF WriteAttempt
<1>13. CASE EnqueueRemainder
  <2> DEFINE c == [id |-> call.id, op |-> "write", from |-> call.from,
                   size |-> call.size, slots |-> 0]
  <2>1. call.id = NextId
    BY <1>13 DEF EnqueueRemainder, Inv, Submission, NextId
  <2>2. /\ c \in Command /\ c.id = NextId /\ c.op # "credit"
        /\ Enqueue(c) /\ requests' = Recorded(c.op, c.size)
    BY <1>1, <1>13, <2>1
    DEF EnqueueRemainder, Command, CallRecords, OrderedOps, NextId
  <2> HIDE DEF c
  <2> QED
    BY <1>6, <2>2
<1>14. ASSUME NEW size \in 0 .. ChunkSize, NEW inline \in BOOLEAN,
             WritevSnapshot(size, inline)
      PROVE  Settling' /\ AnswersExact'
  BY <1>5, <1>14 DEF WritevSnapshot
<1>15. CASE Close \/ Notify \/ Consume \/ EnvTeardown
  BY <1>5, <1>15 DEF Close, Notify, Consume, EnvTeardown
<1>16. CASE WritevRecheck
  BY <1>5, <1>16 DEF WritevRecheck
<1> QED
  BY <1>7, <1>8, <1>9, <1>11, <1>12, <1>13, <1>14, <1>15, <1>16
  DEF AnyCall

LEMMA TaskSettling ==
  ASSUME Inv, Shape, Wire, Settling, AnswersExact, Task
  PROVE  Settling' /\ AnswersExact'
<1> USE DEF controlVars, queueVars, jsVars, outVars, inVars, deviceVars
<1>1. /\ answer \in Event /\ callbacks \in Seq(Event) /\ batch \in ChunkSeq
      /\ commands \in Seq(Command) /\ channel \in Seq(Command)
  BY DEF Shape, TaskTypes, Inv, QueueTypes
<1>2. Grows
  BY StepGrows DEF AnyStep
<1> DEFINE Silent == \/ callbacks' = callbacks
                     \/ \E e : ~IsAnswer(e) /\ callbacks' = Append(callbacks, e)
<1>3. ASSUME Silent, Answering' = {},
             pc' \notin Over => /\ pc \notin Over /\ Answering = {}
                                /\ Held' = Held /\ requests' = requests
      PROVE  Settling' /\ AnswersExact'
  <2>1. pc' \notin Over =>
          /\ pc \notin Over /\ Answering' = Answering
          /\ HeldIds' = HeldIds \cup {}
          /\ QueuedUpTo(Len(requests))' = QueuedUpTo(Len(requests)) \cup {}
    BY <1>3 DEF HeldIds, QueuedUpTo
  <2> QED
    BY <1>1, <1>2, <1>3, <2>1, SettleStep
<1>4. ASSUME Silent, pc # "answer", pc' # "answer", pc \in Over => pc' \in Over,
             pc' \notin Over => Held' = Held /\ requests' = requests
      PROVE  Settling' /\ AnswersExact'
  <2>1. Answering = {} /\ Answering' = {}
    BY <1>4 DEF Answering
  <2> QED
    BY <1>3, <1>4, <2>1
<1>5. UNCHANGED <<channel, commands>> => Held' = Held
  BY DEF Held, OrderedOf
<1>6. ASSUME NEW e, ~IsAnswer(e), NEW next, next # "answer", Send(e, next)
      PROVE  Silent /\ pc' \in {next, "ended"}
  BY <1>6 DEF Send
<1>7. CASE \/ Opened \/ OpenFailed \/ PublishOpen \/ CheckStop \/ LeaveFront
           \/ StartDrain \/ Notified \/ PollTransfers \/ NothingReady
           \/ TransferFailed \/ TransferWrite \/ BurstRead \/ DropReceiver
           \/ MarkStopped \/ Release
  <2>1. Silent
    <3>1. ~IsAnswer(NoEvent)
      BY NoEventType DEF IsAnswer
    <3> QED
      BY <1>7, <3>1
      DEF Opened, OpenFailed, PublishOpen, CheckStop, LeaveFront, StartDrain,
          Notified, PollTransfers, NothingReady, TransferFailed, TransferWrite,
          BurstRead, DropReceiver, MarkStopped, Release
  <2>2. pc # "answer" /\ pc' # "answer" /\ (pc \in Over => pc' \in Over)
    BY <1>7
    DEF Opened, OpenFailed, PublishOpen, CheckStop, LeaveFront, StartDrain,
        Notified, PollTransfers, NothingReady, AfterIdlePoll, TransferFailed,
        TransferWrite, BurstRead, DropReceiver, MarkStopped, Release, Over,
        Ended
  <2>3. pc' \notin Over => UNCHANGED <<channel, commands, requests>>
    BY <1>7
    DEF Opened, OpenFailed, PublishOpen, CheckStop, LeaveFront, StartDrain,
        Notified, PollTransfers, NothingReady, TransferFailed, TransferWrite,
        BurstRead, DropReceiver, MarkStopped, Release, Over, Ended
  <2> QED
    BY <1>4, <1>5, <2>1, <2>2, <2>3
<1>8. CASE FinishWrite \/ Control \/ Flush \/ FinishDrain
  <2>1. /\ commands # <<>> /\ pc \in {"front", "draining"} /\ receiving
        /\ UNCHANGED <<callbacks, channel, requests, call, receiving, taken>>
    BY <1>8
    DEF FinishWrite, Control, Flush, FinishDrain, FrontIs, Inv, Places, Ended
  <2>2. FrontCommand.id \in Nat /\ FrontCommand \in Held
    BY <1>1, <2>1, HeldFacts
  <2>3. PICK kind \in {"ok", "error"} : Retire(Reply(kind, FrontCommand.id))
    BY <1>8 DEF FinishWrite, Control, Flush, FinishDrain
  <2>4. IsAnswer(answer') /\ answer'.id = FrontCommand.id
    BY <2>2, <2>3, ReplyType DEF Retire, IsAnswer, EventKinds
  <2>5. \/ FrontIs("write") /\ Remaining = 0 /\ written' = 0
        \/ ~FrontIs("write") /\ written' = written
    <3>1. CASE FinishWrite
      BY <3>1 DEF FinishWrite, AfterWrite
    <3>2. CASE Control \/ Flush
      BY <3>2 DEF Control, Flush, FrontIs
    <3>3. CASE FinishDrain
      BY <3>3 DEF FinishDrain, Wire, Known, FrontIs
    <3> QED
      BY <1>8, <3>1, <3>2, <3>3
  <2>6. /\ Transferred(FrontCommand.id) /\ Held = Held' \cup {FrontCommand}
        /\ \A d \in Held' : FrontCommand.id < d.id
    BY <2>1, <2>3, <2>5, RetireWire DEF Retire, Ended
  <2>7. FrontCommand.id \in 1 .. Len(requests)
    BY <2>2 DEF Wire, Matching
  <2> QED
    BY <1>1, <1>2, <2>1, <2>3, <2>4, <2>6, <2>7, SettleRetire
    DEF Retire, Over, Ended
<1>9. CASE SendAnswer
  <2>1. /\ pc = "answer" /\ pc' \in {"top", "front", "ended"}
        /\ UNCHANGED <<channel, commands, requests, taken>>
    BY <1>9 DEF SendAnswer, Send
  <2>2. CASE CanSend /\ IsAnswer(answer)
    <3>1. callbacks' = Append(callbacks, answer) /\ pc' # "answer"
      BY <1>9, <2>1, <2>2 DEF SendAnswer, Send
    <3> QED
      BY <1>1, <1>2, <1>5, <2>1, <2>2, <3>1, SettlePublish
  <2>3. CASE CanSend /\ ~IsAnswer(answer)
    <3>1. Silent
      BY <1>9, <2>3 DEF SendAnswer, Send
    <3>2. Answering = {} /\ Answering' = {}
      BY <2>1, <2>3 DEF Answering
    <3> QED
      BY <1>3, <1>5, <2>1, <3>1, <3>2 DEF Over, Ended
  <2>4. CASE ~CanSend
    <3>1. callbacks' = callbacks /\ pc' = "ended"
      BY <1>9, <2>4 DEF SendAnswer, Send
    <3>2. Answering' = {}
      BY <3>1 DEF Answering
    <3> QED
      BY <1>3, <3>1, <3>2 DEF Over
  <2> QED
    BY <2>2, <2>3, <2>4
<1>10. CASE ReceiveOrdered \/ ReceiveCredit
  <2>1. /\ channel # <<>> /\ channel' = Tail(channel) /\ pc = "select"
        /\ pc' \in {"top", "ended"} /\ UNCHANGED <<callbacks, requests>>
    BY <1>10 DEF ReceiveOrdered, ReceiveCredit, Receivable
  <2>2. \/ Ordered(Head(channel).op) /\ commands' = Queue(Head(channel))
        \/ ~Ordered(Head(channel).op) /\ commands' = commands
    BY <1>10 DEF ReceiveOrdered, ReceiveCredit, Ordered, OrderedOps
  <2>3. Held' = Held
    BY <2>1, <2>2, HeldReceive
  <2> QED
    BY <1>4, <2>1, <2>3 DEF Over, Ended
<1>11. CASE ReceiveRead
  <2>1. /\ channel # <<>> /\ channel' = Tail(channel) /\ pc = "select"
        /\ pc' \in {"top", "answer"}
        /\ UNCHANGED <<callbacks, requests, commands>>
        /\ ~Ordered(Head(channel).op)
    BY <1>11 DEF ReceiveRead, Receivable, Ordered, OrderedOps
  <2>2. Held' = Held
    BY <2>1, HeldReceive
  <2>3. Answering = {} /\ Answering' = {}
    <3>1. Head(channel).id \in Nat
      BY <1>1, <2>1, HeadType
    <3>2. pc' = "answer" => answer'.kind = "busy"
      BY <1>11, <3>1, ReplyType DEF ReceiveRead, EventKinds
    <3> QED
      BY <2>1, <3>2 DEF Answering, IsAnswer
  <2> QED
    BY <1>3, <2>1, <2>2, <2>3 DEF Over, Ended
<1>12. CASE TransferRead
  <2> DEFINE n == Least(ReadCapacity, Available)
             e == [Reply("read", read[1]) EXCEPT !.chunks = <<Chunk(n)>>]
  <2>1. read[1] \in Nat
    BY <1>12, ReadTypes DEF TransferRead, PicksRead
  <2>2. Reply("read", read[1]) \in Event /\ Reply("read", read[1]).kind = "read"
    BY <2>1, ReplyType DEF EventKinds
  <2>3. ~IsAnswer(e)
    BY <2>2 DEF Event, IsAnswer
  <2>4. /\ Send(e, "top") /\ pc = "poll"
        /\ UNCHANGED <<channel, commands, requests>>
    BY <1>12 DEF TransferRead
  <2> HIDE DEF e
  <2>5. Silent /\ pc' \in {"top", "ended"}
    BY <1>6, <2>3, <2>4
  <2> QED
    BY <1>4, <1>5, <2>4, <2>5 DEF Over, Ended
<1>13. CASE TransferStream
  <2> DEFINE n == Least(ReadCapacity, Available)
  <2>1. <<Chunk(n)>> \in ChunkSeq
    <3>1. ReadLimit \in Nat \ {0} /\ Available > 0
      BY <1>13, ReadTypes DEF TransferStream, PicksRead
    <3>2. Chunk(n) \in Nat \X Nat
      BY <3>1, Takes DEF ReadCapacity
    <3> QED
      BY <3>2 DEF ChunkSeq
  <2>2. ~IsAnswer(Data(<<Chunk(n)>>))
    BY <2>1, DataType DEF IsAnswer
  <2>3. /\ \E next \in {"top", "burst"} : Send(Data(<<Chunk(n)>>), next)
        /\ pc = "poll" /\ UNCHANGED <<channel, commands, requests>>
    BY <1>13 DEF TransferStream
  <2>4. Silent /\ pc' \in {"top", "burst", "ended"}
    BY <1>6, <2>2, <2>3
  <2> QED
    BY <1>4, <1>5, <2>3, <2>4 DEF Over, Ended
<1>14. CASE BurstEnd
  <2>1. ~IsAnswer(Data(batch))
    BY <1>1, DataType DEF IsAnswer
  <2>2. PICK next \in {"top", "ended"} :
          IF batch = <<>> THEN callbacks' = callbacks /\ pc' = next
          ELSE Send(Data(batch), next)
    BY <1>14 DEF BurstEnd, Followers
  <2>3. Silent /\ pc' \in {"top", "ended"}
    BY <1>6, <2>1, <2>2
  <2>4. pc = "burst" /\ UNCHANGED <<channel, commands, requests>>
    BY <1>14 DEF BurstEnd
  <2> QED
    BY <1>4, <1>5, <2>3, <2>4 DEF Over, Ended
<1>15. CASE SendClose
  <2> DEFINE e == [NoEvent EXCEPT !.kind = "close", !.failed = failure]
  <2>1. ~IsAnswer(e)
    BY NoEventType DEF Event, IsAnswer
  <2>2. callbacks' \in {callbacks, Append(callbacks, e)}
    BY <1>15 DEF SendClose
  <2> HIDE DEF e
  <2>3. pc = "closing" /\ pc' = "done"
    BY <1>15 DEF SendClose
  <2> QED
    BY <1>4, <2>1, <2>2, <2>3 DEF Over, Ended
<1> QED
  BY <1>7, <1>8, <1>9, <1>10, <1>11, <1>12, <1>13, <1>14, <1>15 DEF Task

LEMMA NextSettling ==
  Inv /\ Shape /\ Wire /\ Settling /\ AnswersExact /\ [AnyStep]_vars
    => Settling' /\ AnswersExact'
<1> SUFFICES ASSUME Inv, Shape, Wire, Settling, AnswersExact, [AnyStep]_vars
             PROVE  Settling' /\ AnswersExact'
  OBVIOUS
<1>1. CASE OfDevice \/ UNCHANGED vars
  <2>1. UNCHANGED <<channel, commands, requests, callbacks, pc, answer>>
    BY <1>1
    DEF OfDevice, Arrive, Transmit, Shift, Lose, nativeVars, controlVars,
        queueVars, jsVars, taskVars, reactorVars, vars
  <2>2. /\ Answering' = Answering
        /\ HeldIds' = HeldIds \cup {}
        /\ QueuedUpTo(Len(requests))' = QueuedUpTo(Len(requests)) \cup {}
    BY <2>1 DEF Answering, HeldIds, Held, OrderedOf, QueuedUpTo
  <2>3. Grows /\ callbacks \in Seq(Event)
    BY StepGrows DEF Shape, TaskTypes
  <2> QED
    BY <2>1, <2>2, <2>3, SettleStep
<1> QED
  BY <1>1, ClientSettling, TaskSettling DEF AnyStep

(* Each admitted ordered request is completed once, in the order of        *)
(* submission, none is skipped, and a write that is reported as successful *)
(* is entirely with the driver.                                            *)
THEOREM AnswersInOrder == AnySpec => []AnswersExact
BY InitInv, NextInv, InitShape, NextShape, InitWire, NextWire, InitSettling,
   NextSettling, PTL
DEF AnySpec
=============================================================================

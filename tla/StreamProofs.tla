---------------------------- MODULE StreamProofs ----------------------------
(***************************************************************************)
(* The stream of stream.ts with any user and any binding, for every bound  *)
(* on sessions and calls: no port is left behind, callbacks are called     *)
(* once, a close ends the session it was called for, reads and writes are  *)
(* resumed after a reopen, and what belongs to an old session is ignored.  *)
(***************************************************************************)
EXTENDS StreamSystem, SequenceTheorems, TLAPS

States == {"opening", "opened", "failed"}

SessionSet ==
  [state : States, isOpen : BOOLEAN, hooked : BOOLEAN, asked : BOOLEAN,
   streams : BOOLEAN, call : Nat]

PromiseSet ==
  [kind : {"close", "cancelClose", "read", "write", "update"},
   session : Nat, call : Nat]

Items == [op : {"reply", "resume", "failed"}, call : Nat, ok : BOOLEAN]

CallSet ==
  [kind : {"open", "close", "destroy", "write", "update"}, session : Nat]

(* The promises, and the rest of a handler, of the sessions up to the nth. *)
PromisesOf(ps, n) ==
  /\ ps \subseteq PromiseSet
  /\ \A p \in ps : p.session \in 1 .. n

TasksOf(td, n) ==
  /\ td \in Seq(Items)
  /\ \A i \in 1 .. Len(td) : td[i].op = "failed" => td[i].call \in 1 .. n

StreamTypes ==
  /\ opening \in BOOLEAN /\ closing \in BOOLEAN /\ destroyed \in BOOLEAN
  /\ closeError \in BOOLEAN /\ readRequested \in BOOLEAN
  /\ errored \in BOOLEAN /\ reading \in BOOLEAN
  /\ sessions \in Seq(SessionSet) /\ port \in 0 .. Len(sessions)
  /\ readPort \in Nat /\ waiting \in Nat /\ writing \in Nat /\ baudRate \in Nat
  /\ closeCallbacks \in Seq(Nat) /\ closes \in Seq(Nat)
  /\ replies \in Seq(Items) /\ calls \in Seq(CallSet)
  /\ PromisesOf(promises, Len(sessions))
  /\ TasksOf(todo, Len(sessions))

-----------------------------------------------------------------------------
(***************************************************************************)
(* What the operators of the handlers do to sequences of any length.       *)
(***************************************************************************)
LEMMA Joined ==
  ASSUME NEW S, NEW s \in Seq(S), NEW e \in S, NEW t, t = Append(s, e)
  PROVE  /\ t \in Seq(S) /\ Len(t) = Len(s) + 1 /\ t[Len(t)] = e
         /\ \A k \in 1 .. Len(s) : t[k] = s[k]
  BY AppendProperties

LEMMA Dropped ==
  ASSUME NEW S, NEW s \in Seq(S), s # <<>>, NEW t, t = Tail(s)
  PROVE  /\ t \in Seq(S) /\ Len(t) = Len(s) - 1 /\ Len(s) \in Nat \ {0}
         /\ Head(s) = s[1]
         /\ \A k \in 1 .. Len(t) : t[k] = s[k + 1]
<1>1. Len(s) \in Nat \ {0} /\ Head(s) = s[1]
  OBVIOUS
<1> QED
  BY <1>1, HeadTailProperties

(* One session changes: what it becomes, in the fields the proofs speak of. *)
Becomes(ss, tt, s, state, isOpen, asked) ==
  /\ tt \in Seq(SessionSet) /\ Len(tt) = Len(ss) /\ s \in 1 .. Len(ss)
  /\ tt[s].state = state /\ tt[s].isOpen = isOpen /\ tt[s].asked = asked
  /\ \A k \in 1 .. Len(ss) :
       /\ tt[k].call = ss[k].call /\ tt[k].streams = ss[k].streams
       /\ k # s => tt[k] = ss[k]

LEMMA Edited ==
  ASSUME NEW ss \in Seq(SessionSet), NEW s \in 1 .. Len(ss), NEW e \in SessionSet,
         e.call = ss[s].call, e.streams = ss[s].streams,
         NEW tt, tt = [ss EXCEPT ![s] = e]
  PROVE  Becomes(ss, tt, s, e.state, e.isOpen, e.asked)
<1>1. /\ tt \in Seq(SessionSet) /\ Len(tt) = Len(ss)
      /\ \A j \in 1 .. Len(ss) : tt[j] = IF j = s THEN e ELSE ss[j]
  BY ExceptSeq
<1> QED
  BY <1>1 DEF Becomes

LEMMA SessionEdits ==
  ASSUME NEW ss \in Seq(SessionSet), NEW s \in 1 .. Len(ss),
         NEW tt, NEW b \in BOOLEAN
  PROVE  /\ tt = [ss EXCEPT ![s].isOpen = b]
              => Becomes(ss, tt, s, ss[s].state, b, ss[s].asked)
         /\ tt = [ss EXCEPT ![s].asked = b]
              => Becomes(ss, tt, s, ss[s].state, ss[s].isOpen, b)
         /\ tt = [ss EXCEPT ![s].state = "failed"]
              => Becomes(ss, tt, s, "failed", ss[s].isOpen, ss[s].asked)
         /\ tt = [ss EXCEPT ![s].isOpen = FALSE, ![s].hooked = FALSE]
              => Becomes(ss, tt, s, ss[s].state, FALSE, ss[s].asked)
         /\ tt = [ss EXCEPT ![s].state = "opened", ![s].isOpen = b,
                            ![s].hooked = TRUE]
              => Becomes(ss, tt, s, "opened", b, ss[s].asked)
<1>0. ss[s] \in SessionSet /\ DOMAIN ss = 1 .. Len(ss)
  OBVIOUS
<1>1. ASSUME tt = [ss EXCEPT ![s].isOpen = b]
      PROVE  Becomes(ss, tt, s, ss[s].state, b, ss[s].asked)
  <2> DEFINE e == [ss[s] EXCEPT !.isOpen = b]
  <2>1. tt = [ss EXCEPT ![s] = e]
    BY <1>1, <1>0
  <2>2. /\ e \in SessionSet /\ e.call = ss[s].call /\ e.streams = ss[s].streams
        /\ e.state = ss[s].state /\ e.isOpen = b /\ e.asked = ss[s].asked
    BY <1>0 DEF SessionSet
  <2> HIDE DEF e
  <2> QED
    BY <2>1, <2>2, Edited
<1>2. ASSUME tt = [ss EXCEPT ![s].asked = b]
      PROVE  Becomes(ss, tt, s, ss[s].state, ss[s].isOpen, b)
  <2> DEFINE e == [ss[s] EXCEPT !.asked = b]
  <2>1. tt = [ss EXCEPT ![s] = e]
    BY <1>2, <1>0
  <2>2. /\ e \in SessionSet /\ e.call = ss[s].call /\ e.streams = ss[s].streams
        /\ e.state = ss[s].state /\ e.isOpen = ss[s].isOpen /\ e.asked = b
    BY <1>0 DEF SessionSet
  <2> HIDE DEF e
  <2> QED
    BY <2>1, <2>2, Edited
<1>3. ASSUME tt = [ss EXCEPT ![s].state = "failed"]
      PROVE  Becomes(ss, tt, s, "failed", ss[s].isOpen, ss[s].asked)
  <2> DEFINE e == [ss[s] EXCEPT !.state = "failed"]
  <2>1. tt = [ss EXCEPT ![s] = e]
    BY <1>3, <1>0
  <2>2. /\ e \in SessionSet /\ e.call = ss[s].call /\ e.streams = ss[s].streams
        /\ e.state = "failed" /\ e.isOpen = ss[s].isOpen
        /\ e.asked = ss[s].asked
    BY <1>0 DEF SessionSet, States
  <2> HIDE DEF e
  <2> QED
    BY <2>1, <2>2, Edited
<1>4. ASSUME tt = [ss EXCEPT ![s].isOpen = FALSE, ![s].hooked = FALSE]
      PROVE  Becomes(ss, tt, s, ss[s].state, FALSE, ss[s].asked)
  <2> DEFINE e == [ss[s] EXCEPT !.isOpen = FALSE, !.hooked = FALSE]
  <2>1. tt = [ss EXCEPT ![s] = e]
    BY <1>4, <1>0
  <2>2. /\ e \in SessionSet /\ e.call = ss[s].call /\ e.streams = ss[s].streams
        /\ e.state = ss[s].state /\ e.isOpen = FALSE /\ e.asked = ss[s].asked
    BY <1>0 DEF SessionSet
  <2> HIDE DEF e
  <2> QED
    BY <2>1, <2>2, Edited
<1>5. ASSUME tt = [ss EXCEPT ![s].state = "opened", ![s].isOpen = b,
                             ![s].hooked = TRUE]
      PROVE  Becomes(ss, tt, s, "opened", b, ss[s].asked)
  <2> DEFINE e == [ss[s] EXCEPT !.state = "opened", !.isOpen = b,
                                !.hooked = TRUE]
  <2>1. tt = [ss EXCEPT ![s] = e]
    BY <1>5, <1>0
  <2>2. /\ e \in SessionSet /\ e.call = ss[s].call /\ e.streams = ss[s].streams
        /\ e.state = "opened" /\ e.isOpen = b /\ e.asked = ss[s].asked
    BY <1>0 DEF SessionSet, States
  <2> HIDE DEF e
  <2> QED
    BY <2>1, <2>2, Edited
<1> QED
  BY <1>1, <1>2, <1>3, <1>4, <1>5

(* The replies to the calls cb, and then rest.                             *)
Answers(td, cb, ok, rest) ==
  /\ td \in Seq(Items) /\ Len(td) = Len(cb) + Len(rest)
  /\ \A i \in 1 .. Len(cb) : td[i] = Reply(cb[i], ok)
  /\ \A i \in 1 .. Len(rest) : td[Len(cb) + i] = rest[i]

LEMMA RepliesAre ==
  ASSUME NEW cb \in Seq(Nat), NEW ok \in BOOLEAN, NEW r, r = Replies(cb, ok)
  PROVE  /\ r \in Seq(Items) /\ Len(r) = Len(cb)
         /\ \A i \in 1 .. Len(cb) : r[i] = Reply(cb[i], ok)
<1>1. DOMAIN cb = 1 .. Len(cb) /\ Len(cb) \in Nat
  OBVIOUS
<1>2. \A i \in 1 .. Len(cb) : Reply(cb[i], ok) \in Items
  BY DEF Reply, Items
<1>3. r = [i \in 1 .. Len(cb) |-> Reply(cb[i], ok)]
  BY <1>1 DEF Replies
<1> QED
  BY <1>1, <1>2, <1>3

LEMMA AnswersIs ==
  ASSUME NEW cb \in Seq(Nat), NEW ok \in BOOLEAN, NEW rest \in Seq(Items),
         NEW td, td = Replies(cb, ok) \o rest
  PROVE  Answers(td, cb, ok, rest)
<1>1. PICK r : r = Replies(cb, ok)
  OBVIOUS
<1>2. /\ r \in Seq(Items) /\ Len(r) = Len(cb)
      /\ \A i \in 1 .. Len(cb) : r[i] = Reply(cb[i], ok)
  BY <1>1, RepliesAre
<1>3. Len(cb) \in Nat /\ Len(rest) \in Nat
  OBVIOUS
<1>4. /\ td \in Seq(Items) /\ Len(td) = Len(r) + Len(rest)
      /\ \A i \in 1 .. Len(r) + Len(rest) :
           td[i] = IF i <= Len(r) THEN r[i] ELSE rest[i - Len(r)]
  BY <1>1, <1>2, ConcatProperties
<1>5. \A i \in 1 .. Len(rest) :
        Len(cb) + i \in 1 .. Len(cb) + Len(rest) /\ ~(Len(cb) + i <= Len(cb))
        /\ Len(cb) + i - Len(cb) = i
  BY <1>3
<1> QED
  BY <1>2, <1>3, <1>4, <1>5 DEF Answers

(* What a handler has left to do besides the replies to closeCallbacks.    *)
LEMMA RestIs ==
  /\ \A n \in Nat, ok \in BOOLEAN :
       /\ Reply(n, ok) \in Items /\ Reply(n, ok).op = "reply"
       /\ Reply(n, ok).call = n /\ Reply(n, ok).ok = ok
       /\ <<Reply(n, ok)>> \in Seq(Items)
  /\ \A n \in Nat :
       /\ Reply(n, TRUE) \in Items /\ Reply(n, FALSE) \in Items
       /\ Reply(n, TRUE).op = "reply" /\ Reply(n, FALSE).op = "reply"
       /\ Reply(n, TRUE).call = n /\ Reply(n, FALSE).call = n
       /\ Reply(n, TRUE).ok = TRUE /\ Reply(n, FALSE).ok = FALSE
  /\ \A n \in Nat :
       Failed(n) \in Items /\ Failed(n).op = "failed" /\ Failed(n).call = n
  /\ Resume \in Items /\ Resume.op = "resume"
  /\ <<>> \in Seq(Items) /\ ResumeIO \in Seq(Items)
BY DEF Reply, Failed, Resume, ResumeIO, Items
-----------------------------------------------------------------------------
(***************************************************************************)
(* What the shared parts of the handlers change.                           *)
(***************************************************************************)
OpenChanges ==
  \E open \in BOOLEAN :
    Becomes(sessions, sessions', port, sessions[port].state, open,
            sessions[port].asked)

ClosePromise == Promise("close", port, 0)

CloseStarts(callbacks, awaited) ==
  /\ closing' = TRUE /\ closeError' \in BOOLEAN /\ UNCHANGED <<opening, port>>
  /\ closeCallbacks' = closeCallbacks \o callbacks
  /\ \/ opening /\ promises' = awaited /\ UNCHANGED sessions
     \/ /\ ~opening /\ port # 0 /\ sessions[port].isOpen /\ ~closing
        /\ promises' = awaited \cup {ClosePromise}
        /\ OpenChanges

LEMMA StartCloses ==
  ASSUME StreamTypes, Closable, NEW callbacks, NEW reason \in BOOLEAN,
         NEW awaited, StartClose(callbacks, reason, awaited)
  PROVE  CloseStarts(callbacks, awaited)
<1>1. CASE opening
  BY <1>1 DEF StartClose, CloseStarts
<1>2. CASE ~opening
  <2>1. port \in 1 .. Len(sessions) /\ sessions[port].isOpen /\ port # 0 /\ ~closing
    BY <1>2 DEF Closable, IsOpen, StreamTypes
  <2>2. PICK open \in BOOLEAN :
          sessions' = [sessions EXCEPT ![port].isOpen = open]
    BY <1>2 DEF StartClose
  <2>3. Becomes(sessions, sessions', port, sessions[port].state, open,
                sessions[port].asked)
    BY <2>1, <2>2, SessionEdits DEF StreamTypes
  <2> QED
    BY <1>2, <2>1, <2>3 DEF StartClose, CloseStarts, ClosePromise, OpenChanges
<1> QED
  BY <1>1, <1>2

(* The session ends for the stream, which answers the callbacks.           *)
CloseFinishes(ok, rest) ==
  /\ port' = 0 /\ closing' = FALSE /\ closeError' = FALSE
  /\ closeCallbacks' = <<>> /\ readPort' = 0 /\ readRequested' = TRUE
  /\ closes' \in Seq(Nat)
  /\ Answers(todo', closeCallbacks, ok, rest)

Passes(rest) ==
  /\ todo' = rest
  /\ UNCHANGED <<port, closing, closeError, closeCallbacks, readPort,
                 readRequested, closes>>

LEMMA FinishCloses ==
  ASSUME StreamTypes, NEW error \in BOOLEAN, NEW rest \in Seq(Items),
         FinishClose(error, rest)
  PROVE  \/ (port # 0 \/ closing) /\ CloseFinishes(~closeError /\ ~error, rest)
         \/ port = 0 /\ ~closing /\ Passes(rest)
<1>1. CASE port # 0 \/ closing
  <2>1. Answers(todo', closeCallbacks, ~closeError /\ ~error, rest)
    <3>1. (~closeError /\ ~error) \in BOOLEAN
      OBVIOUS
    <3>2. todo' = Replies(closeCallbacks, ~closeError /\ ~error) \o rest
      BY <1>1 DEF FinishClose
    <3> QED
      BY <3>1, <3>2, AnswersIs DEF StreamTypes
  <2>2. closes' \in Seq(Nat)
    <3> DEFINE e == IF port # 0 THEN port ELSE Len(sessions)
    <3>1. e \in Nat /\ closes \in Seq(Nat)
      BY DEF StreamTypes
    <3>2. closes' = Append(closes, e)
      BY <1>1 DEF FinishClose
    <3> QED
      BY <3>1, <3>2, Joined
  <2> QED
    BY <1>1, <2>1, <2>2 DEF FinishClose, CloseFinishes, ClearedCallbacks
<1>2. CASE ~(port # 0 \/ closing)
  BY <1>2 DEF FinishClose, Passes
<1> QED
  BY <1>1, <1>2

(* The port refused to close: it stays, and the callbacks get an error.    *)
CloseRefused(rest) ==
  /\ closing' = FALSE /\ closeError' = FALSE /\ closeCallbacks' = <<>>
  /\ UNCHANGED <<port, readPort, readRequested, closes>>
  /\ Answers(todo', closeCallbacks, FALSE, ResumeIO \o rest)

LEMMA ResumeThen ==
  ASSUME NEW rest \in Seq(Items), NEW t, t = ResumeIO \o rest
  PROVE  /\ t \in Seq(Items) /\ Len(t) = Len(rest) + 1 /\ t[1] = Resume
         /\ \A i \in 1 .. Len(rest) : t[i + 1] = rest[i]
<1>1. PICK r : r = ResumeIO
  OBVIOUS
<1>2. r \in Seq(Items) /\ Len(r) = 1 /\ r[1] = Resume
  BY <1>1, RestIs DEF ResumeIO
<1>3. Len(rest) \in Nat
  OBVIOUS
<1>4. /\ t \in Seq(Items) /\ Len(t) = Len(r) + Len(rest)
      /\ \A i \in 1 .. Len(r) + Len(rest) :
           t[i] = IF i <= Len(r) THEN r[i] ELSE rest[i - Len(r)]
  BY <1>1, <1>2, ConcatProperties
<1>5. \A i \in 1 .. Len(rest) :
        i + 1 \in 1 .. 1 + Len(rest) /\ ~(i + 1 <= 1) /\ i + 1 - 1 = i
  BY <1>3
<1>6. 1 \in 1 .. 1 + Len(rest) /\ 1 + Len(rest) = Len(rest) + 1
  BY <1>3
<1> QED
  BY <1>2, <1>4, <1>5, <1>6

LEMMA CloseFails ==
  ASSUME StreamTypes, NEW s, NEW rest \in Seq(Items), CloseFailed(s, rest)
  PROVE  \/ port = s /\ ~sessions'[s].isOpen
            /\ \/ (port # 0 \/ closing) /\ CloseFinishes(FALSE, rest)
               \/ port = 0 /\ ~closing /\ Passes(rest)
         \/ port = s /\ sessions'[s].isOpen /\ CloseRefused(rest)
         \/ port # s /\ Passes(rest)
<1>1. CASE port = s /\ ~StillOpen(s)
  <2>1. FinishClose(TRUE, rest)
    BY <1>1 DEF CloseFailed
  <2>2. (~closeError /\ ~TRUE) = FALSE
    OBVIOUS
  <2> QED
    BY <1>1, <2>1, <2>2, FinishCloses DEF StillOpen
<1>2. CASE port = s /\ StillOpen(s)
  <2>1. todo' = Replies(closeCallbacks, FALSE) \o ResumeIO \o rest
    BY <1>2 DEF CloseFailed
  <2>2. Replies(closeCallbacks, FALSE) \in Seq(Items)
    BY RepliesAre DEF StreamTypes
  <2>3. todo' = Replies(closeCallbacks, FALSE) \o (ResumeIO \o rest)
    <3>1. PICK r : r = Replies(closeCallbacks, FALSE)
      OBVIOUS
    <3>2. PICK t : t = ResumeIO
      OBVIOUS
    <3>3. r \in Seq(Items) /\ t \in Seq(Items) /\ todo' = r \o t \o rest
      BY <2>1, <2>2, <3>1, <3>2, RestIs
    <3>4. (r \o t) \o rest = r \o (t \o rest)
      <4>1. r \in Seq(Items) /\ t \in Seq(Items) /\ rest \in Seq(Items)
        BY <3>3, RestIs
      <4> QED
        BY <4>1, ConcatAssociative
    <3> QED
      BY <3>1, <3>2, <3>3, <3>4
  <2>4. Answers(todo', closeCallbacks, FALSE, ResumeIO \o rest)
    BY <2>3, ResumeThen, AnswersIs DEF StreamTypes
  <2> QED
    BY <1>2, <2>4 DEF CloseFailed, CloseRefused, StillOpen, ClearedCallbacks
<1>3. CASE port # s
  BY <1>3 DEF CloseFailed, Passes
<1> QED
  BY <1>1, <1>2, <1>3

(* Reading goes on: nothing is asked, onData or a read is, or asking fails *)
(* and the session is ended.                                               *)
ReadPromise == Promise("read", port, 0)

ReadsOn(awaited) ==
  /\ readRequested' = TRUE
  /\ \/ /\ ~IsOpen \/ readPort = port
        /\ promises' = awaited /\ UNCHANGED <<lifeVars, readPort, sessions>>
     \/ /\ IsOpen /\ readPort # port /\ sessions[port].streams
        /\ Becomes(sessions, sessions', port, sessions[port].state,
                   sessions[port].isOpen, TRUE)
        /\ promises' = awaited /\ UNCHANGED <<lifeVars, readPort>>
     \/ /\ IsOpen /\ sessions[port].streams /\ CloseStarts(<<>>, awaited)
        /\ UNCHANGED readPort
     \/ /\ IsOpen /\ readPort # port /\ ~sessions[port].streams /\ readPort' = port
        /\ promises' = awaited \cup {ReadPromise}
        /\ UNCHANGED <<lifeVars, sessions>>

LEMMA ReadMoreDoes ==
  ASSUME StreamTypes, NEW awaited, ReadMore(awaited)
  PROVE  ReadsOn(awaited)
<1>1. CASE /\ ~IsOpen \/ readPort = port
           /\ promises' = awaited
           /\ UNCHANGED <<lifeVars, readPort, sessions>>
  BY <1>1 DEF ReadMore, ReadsOn
<1>2. CASE /\ IsOpen /\ readPort # port /\ sessions[port].streams
           /\ sessions' = [sessions EXCEPT ![port].asked = TRUE]
           /\ promises' = awaited
           /\ UNCHANGED <<lifeVars, readPort>>
  <2>1. port \in 1 .. Len(sessions)
    BY <1>2 DEF IsOpen, StreamTypes
  <2>2. Becomes(sessions, sessions', port, sessions[port].state,
                sessions[port].isOpen, TRUE)
    BY <1>2, <2>1, SessionEdits DEF StreamTypes
  <2> QED
    BY <1>2, <2>2 DEF ReadMore, ReadsOn
<1>3. CASE /\ IsOpen /\ sessions[port].streams
           /\ StartClose(<<>>, TRUE, awaited) /\ readPort' = readPort
  <2>1. Closable
    BY <1>3 DEF Closable, IsOpen
  <2> QED
    BY <1>3, <2>1, StartCloses DEF ReadMore, ReadsOn
<1>4. CASE /\ IsOpen /\ readPort # port /\ ~sessions[port].streams
           /\ readPort' = port
           /\ promises' = awaited \cup {Promise("read", port, 0)}
           /\ UNCHANGED <<lifeVars, sessions>>
  BY <1>4 DEF ReadMore, ReadsOn, ReadPromise
<1> QED
  BY <1>1, <1>2, <1>3, <1>4 DEF ReadMore

(* Appending the record of an accepted call, or a reply.                   *)
CallIs(kind) ==
  /\ calls' \in Seq(CallSet) /\ Len(calls') = Len(calls) + 1
  /\ Len(calls) \in Nat /\ calls'[NextCall].kind = kind
  /\ calls'[NextCall].session = IF opening THEN Len(sessions) ELSE port
  /\ \A k \in 1 .. Len(calls) : calls'[k] = calls[k]

LEMMA CalledIs ==
  ASSUME StreamTypes, NEW kind \in {"open", "close", "destroy", "write", "update"},
         Called(kind)
  PROVE  CallIs(kind)
<1> DEFINE e == [kind |-> kind, session |-> IF opening THEN Len(sessions) ELSE port]
<1>1. e \in CallSet
  <2>1. Len(sessions) \in Nat /\ port \in Nat
    BY DEF StreamTypes
  <2> QED
    BY <2>1 DEF CallSet
<1>2. e.kind = kind /\ e.session = IF opening THEN Len(sessions) ELSE port
  OBVIOUS
<1>3. calls' = Append(calls, e) /\ calls \in Seq(CallSet)
  BY DEF Called, StreamTypes
<1> HIDE DEF e
<1>4. Len(calls) \in Nat
  BY <1>3
<1> QED
  BY <1>1, <1>2, <1>3, <1>4, Joined DEF CallIs, NextCall

(* The replies rs are followed by the reply to one more call.              *)
Followed(rs, tt, n, ok) ==
  /\ tt \in Seq(Items) /\ Len(tt) = Len(rs) + 1 /\ Len(rs) \in Nat
  /\ tt[Len(tt)] = Reply(n, ok)
  /\ \A k \in 1 .. Len(rs) : tt[k] = rs[k]

LEMMA FollowedIs ==
  ASSUME NEW rs \in Seq(Items), NEW n \in Nat, NEW ok \in BOOLEAN,
         NEW tt, tt = rs \o <<Reply(n, ok)>>
  PROVE  Followed(rs, tt, n, ok)
<1>1. PICK e : e = Reply(n, ok)
  OBVIOUS
<1>2. e \in Items
  BY <1>1, RestIs
<1>3. Append(rs, e) = rs \o <<e>>
  BY <1>2, AppendIsConcat
<1> QED
  BY <1>1, <1>2, <1>3, Joined DEF Followed

WaitingAnswered(rs) ==
  \/ waiting = 0 /\ rs = replies
  \/ waiting # 0 /\ Followed(replies, rs, waiting, FALSE)

LEMMA WaitingReplied ==
  ASSUME StreamTypes PROVE WaitingAnswered(replies \o WaitingReply)
<1>1. CASE waiting = 0
  <2>1. replies \o <<>> = replies
    BY ConcatEmptySeq DEF StreamTypes
  <2> QED
    BY <1>1, <2>1 DEF WaitingReply, WaitingAnswered
<1>2. CASE waiting # 0
  <2>1. replies \in Seq(Items) /\ waiting \in Nat
    BY DEF StreamTypes
  <2>2. PICK rs : rs = replies \o <<Reply(waiting, FALSE)>>
    OBVIOUS
  <2>3. Followed(replies, rs, waiting, FALSE)
    BY <2>1, <2>2, FollowedIs
  <2> QED
    BY <1>2, <2>2, <2>3 DEF WaitingReply, WaitingAnswered
<1> QED
  BY <1>1, <1>2

(* Two items, as an open leaves them when it ends.                         *)
LEMMA TwoItems ==
  ASSUME NEW a \in Items, NEW b \in Items, NEW td, td = <<a>> \o <<b>>
  PROVE  td \in Seq(Items) /\ Len(td) = 2 /\ td[1] = a /\ td[2] = b
<1>1. PICK u : u = <<a>>
  OBVIOUS
<1>2. u \in Seq(Items) /\ Len(u) = 1 /\ u[1] = a
  BY <1>1
<1>3. td = Append(u, b)
  BY <1>1, <1>2, AppendIsConcat
<1>4. /\ td \in Seq(Items) /\ Len(td) = Len(u) + 1 /\ td[Len(td)] = b
      /\ \A k \in 1 .. Len(u) : td[k] = u[k]
  <2>1. \A t : t = Append(u, b) =>
          /\ t \in Seq(Items) /\ Len(t) = Len(u) + 1 /\ t[Len(t)] = b
          /\ \A k \in 1 .. Len(u) : t[k] = u[k]
    BY <1>2, Joined
  <2> QED
    BY <1>3, <2>1
<1>5. Len(td) = 2
  BY <1>2, <1>4
<1>6. 1 \in 1 .. Len(u)
  BY <1>2
<1> QED
  BY <1>2, <1>4, <1>5, <1>6

(* What a failed open leaves to do: a waiting write fails first.           *)
LEMMA FailureLeft ==
  ASSUME StreamTypes, waiting # 0, NEW s \in Nat
  PROVE  \A td : td = WaitingReply \o <<Failed(s)>> =>
           /\ td \in Seq(Items) /\ Len(td) = 2
           /\ td[1] = Reply(waiting, FALSE) /\ td[2] = Failed(s)
<1>1. Reply(waiting, FALSE) \in Items /\ Failed(s) \in Items
  BY RestIs DEF StreamTypes
<1>2. WaitingReply = <<Reply(waiting, FALSE)>>
  BY DEF WaitingReply
<1>3. PICK a : a = Reply(waiting, FALSE)
  OBVIOUS
<1>4. PICK b : b = Failed(s)
  OBVIOUS
<1>5. \A td : td = <<a>> \o <<b>> =>
        td \in Seq(Items) /\ Len(td) = 2 /\ td[1] = a /\ td[2] = b
  <2>1. a \in Items /\ b \in Items
    BY <1>1, <1>3, <1>4
  <2> SUFFICES ASSUME NEW td, td = <<a>> \o <<b>>
               PROVE  td \in Seq(Items) /\ Len(td) = 2 /\ td[1] = a /\ td[2] = b
    OBVIOUS
  <2> QED
    BY <2>1, TwoItems
<1> QED
  BY <1>2, <1>3, <1>4, <1>5

LEMMA AnswersTasks ==
  ASSUME NEW td, NEW cb \in Seq(Nat), NEW ok \in BOOLEAN, NEW rest, NEW n \in Nat,
         TasksOf(rest, n), Answers(td, cb, ok, rest)
  PROVE  TasksOf(td, n)
<1>1. Len(cb) \in Nat /\ Len(rest) \in Nat
  BY DEF TasksOf
<1>2. ASSUME NEW i \in 1 .. Len(td), td[i].op = "failed" PROVE td[i].call \in 1 .. n
  <2>1. CASE i \in 1 .. Len(cb)
    <3>1. td[i] = Reply(cb[i], ok) /\ cb[i] \in Nat
      BY <2>1 DEF Answers
    <3> QED
      BY <1>2, <3>1, RestIs
  <2>2. CASE i \notin 1 .. Len(cb)
    <3>1. PICK j \in 1 .. Len(rest) : i = Len(cb) + j
      <4>1. i - Len(cb) \in 1 .. Len(rest) /\ i = Len(cb) + (i - Len(cb))
        BY <1>1, <2>2 DEF Answers
      <4> QED
        BY <4>1
    <3> QED
      BY <1>2, <3>1 DEF Answers, TasksOf
  <2> QED
    BY <2>1, <2>2
<1> QED
  BY <1>2 DEF Answers, TasksOf

LEMMA ShortTasks ==
  ASSUME NEW n \in Nat
  PROVE  /\ TasksOf(<<>>, n)
         /\ \A m \in Nat, ok \in BOOLEAN : TasksOf(<<Reply(m, ok)>>, n)
         /\ TasksOf(ResumeIO, n)
<1>1. TasksOf(<<>>, n)
  BY DEF TasksOf
<1>2. ASSUME NEW m \in Nat, NEW ok \in BOOLEAN PROVE TasksOf(<<Reply(m, ok)>>, n)
  <2>1. PICK e : e = Reply(m, ok)
    OBVIOUS
  <2>2. e \in Items /\ e.op = "reply"
    BY <2>1, RestIs
  <2> QED
    BY <2>1, <2>2 DEF TasksOf
<1>3. TasksOf(ResumeIO, n)
  <2>1. PICK e : e = Resume
    OBVIOUS
  <2>2. e \in Items /\ e.op = "resume"
    BY <2>1, RestIs
  <2> QED
    BY <2>1, <2>2 DEF TasksOf, ResumeIO
<1> QED
  BY <1>1, <1>2, <1>3

LEMMA ResumeTasks ==
  ASSUME NEW n \in Nat, NEW rest, TasksOf(rest, n), NEW t, t = ResumeIO \o rest
  PROVE  TasksOf(t, n)
<1>1. /\ t \in Seq(Items) /\ Len(t) = Len(rest) + 1 /\ t[1] = Resume
      /\ \A i \in 1 .. Len(rest) : t[i + 1] = rest[i]
  BY ResumeThen DEF TasksOf
<1>2. Len(rest) \in Nat
  BY DEF TasksOf
<1>3. ASSUME NEW i \in 1 .. Len(t), t[i].op = "failed" PROVE t[i].call \in 1 .. n
  <2>1. i # 1
    BY <1>1, <1>3, RestIs
  <2>2. i - 1 \in 1 .. Len(rest) /\ i = (i - 1) + 1
    BY <1>1, <1>2, <2>1
  <2>3. t[i] = rest[i - 1]
    BY <1>1, <2>2
  <2> QED
    BY <1>3, <2>2, <2>3 DEF TasksOf
<1> QED
  BY <1>1, <1>3 DEF TasksOf

-----------------------------------------------------------------------------
(***************************************************************************)
(* Types.                                                                  *)
(***************************************************************************)
(* The variables that the closing of a session sets, after it.             *)
LifeTypes ==
  /\ opening' \in BOOLEAN /\ closing' \in BOOLEAN /\ closeError' \in BOOLEAN
  /\ sessions' \in Seq(SessionSet) /\ port' \in 0 .. Len(sessions')
  /\ closeCallbacks' \in Seq(Nat)
  /\ PromisesOf(promises', Len(sessions'))

LEMMA LengthIs ==
  StreamTypes
    => Len(sessions) \in Nat /\ Len(calls) \in Nat /\ NextCall \in Nat \ {0}
BY DEF StreamTypes, NextCall

LEMMA PromisesGrow ==
  ASSUME NEW ps, NEW n \in Nat, PromisesOf(ps, n),
         NEW kind \in {"close", "cancelClose", "read", "write", "update"},
         NEW s \in 1 .. n, NEW c \in Nat
  PROVE  PromisesOf(ps \cup {Promise(kind, s, c)}, n)
<1>1. Promise(kind, s, c) \in PromiseSet /\ Promise(kind, s, c).session = s
  BY DEF Promise, PromiseSet
<1> QED
  BY <1>1 DEF PromisesOf

LEMMA ClosingTypes ==
  ASSUME StreamTypes, NEW callbacks \in Seq(Nat), NEW awaited,
         PromisesOf(awaited, Len(sessions)), CloseStarts(callbacks, awaited)
  PROVE  LifeTypes
<1>1. closeCallbacks' \in Seq(Nat)
  BY ConcatProperties DEF CloseStarts, StreamTypes
<1>2. CASE opening
  BY <1>1, <1>2 DEF CloseStarts, LifeTypes, StreamTypes
<1>3. CASE ~opening
  <2>1. /\ sessions' \in Seq(SessionSet) /\ Len(sessions') = Len(sessions)
        /\ port \in 1 .. Len(sessions) /\ Len(sessions) \in Nat
    BY <1>3 DEF CloseStarts, OpenChanges, Becomes, StreamTypes
  <2>2. PromisesOf(promises', Len(sessions))
    BY <1>3, <2>1, PromisesGrow DEF CloseStarts, ClosePromise
  <2> QED
    BY <1>1, <1>3, <2>1, <2>2 DEF CloseStarts, LifeTypes, StreamTypes
<1> QED
  BY <1>2, <1>3

LEMMA ReadingTypes ==
  ASSUME StreamTypes, NEW awaited, PromisesOf(awaited, Len(sessions)),
         ReadsOn(awaited)
  PROVE  LifeTypes /\ readRequested' \in BOOLEAN /\ readPort' \in Nat
<1>1. CASE /\ promises' = awaited /\ UNCHANGED <<lifeVars, readPort, sessions>>
  BY <1>1 DEF ReadsOn, LifeTypes, StreamTypes, lifeVars
<1>2. CASE /\ Becomes(sessions, sessions', port, sessions[port].state,
                      sessions[port].isOpen, TRUE)
           /\ promises' = awaited /\ UNCHANGED <<lifeVars, readPort>>
  BY <1>2 DEF ReadsOn, LifeTypes, StreamTypes, lifeVars, Becomes
<1>3. CASE CloseStarts(<<>>, awaited) /\ UNCHANGED readPort
  <2>1. <<>> \in Seq(Nat)
    OBVIOUS
  <2> QED
    BY <1>3, <2>1, ClosingTypes DEF ReadsOn, StreamTypes
<1>4. CASE /\ IsOpen /\ readPort' = port
           /\ promises' = awaited \cup {ReadPromise}
           /\ UNCHANGED <<lifeVars, sessions>>
  <2>1. port \in 1 .. Len(sessions) /\ Len(sessions) \in Nat
    BY <1>4 DEF IsOpen, StreamTypes
  <2>2. PromisesOf(promises', Len(sessions))
    BY <1>4, <2>1, PromisesGrow DEF ReadPromise
  <2> QED
    BY <1>4, <2>1, <2>2 DEF ReadsOn, LifeTypes, StreamTypes, lifeVars
<1> QED
  BY <1>1, <1>2, <1>3, <1>4 DEF ReadsOn

LEMMA FinishTasks ==
  ASSUME StreamTypes, NEW ok \in BOOLEAN, NEW n \in Nat, NEW rest, TasksOf(rest, n),
         \/ CloseFinishes(ok, rest) \/ CloseRefused(rest) \/ Passes(rest)
  PROVE  TasksOf(todo', n)
<1>1. CASE CloseFinishes(ok, rest)
  BY <1>1, AnswersTasks DEF CloseFinishes, StreamTypes
<1>2. CASE CloseRefused(rest)
  <2>1. PICK t : t = ResumeIO \o rest
    OBVIOUS
  <2>2. TasksOf(t, n)
    BY <2>1, ResumeTasks
  <2> QED
    BY <1>2, <2>1, <2>2, AnswersTasks DEF CloseRefused, StreamTypes
<1>3. CASE Passes(rest)
  BY <1>3 DEF Passes
<1> QED
  BY <1>1, <1>2, <1>3

LEMMA FinishTypes ==
  ASSUME StreamTypes, NEW ok \in BOOLEAN, NEW rest, TasksOf(rest, Len(sessions)),
         \/ CloseFinishes(ok, rest) \/ CloseRefused(rest) \/ Passes(rest)
  PROVE  /\ closing' \in BOOLEAN /\ closeError' \in BOOLEAN
         /\ port' \in {0, port} /\ closeCallbacks' \in Seq(Nat)
         /\ readPort' \in Nat /\ readRequested' \in BOOLEAN
         /\ closes' \in Seq(Nat) /\ TasksOf(todo', Len(sessions))
<1>1. Len(sessions) \in Nat /\ <<>> \in Seq(Nat)
  BY DEF StreamTypes
<1>2. TasksOf(todo', Len(sessions))
  BY <1>1, FinishTasks
<1>3. CASE CloseFinishes(ok, rest)
  BY <1>1, <1>2, <1>3 DEF CloseFinishes
<1>4. CASE CloseRefused(rest)
  BY <1>1, <1>2, <1>4 DEF CloseRefused, StreamTypes
<1>5. CASE Passes(rest)
  BY <1>2, <1>5 DEF Passes, StreamTypes
<1> QED
  BY <1>3, <1>4, <1>5

(* The calls of the user.                                                  *)
SessionAdded(ss, tt, call, streams) ==
  /\ tt \in Seq(SessionSet) /\ Len(tt) = Len(ss) + 1 /\ Len(ss) \in Nat
  /\ tt[Len(tt)].state = "opening" /\ ~tt[Len(tt)].isOpen
  /\ tt[Len(tt)].call = call /\ tt[Len(tt)].streams = streams
  /\ \A k \in 1 .. Len(ss) : tt[k] = ss[k]

LEMMA OpenAdds ==
  ASSUME StreamTypes, Open
  PROVE  /\ CallIs("open")
         /\ \E streams \in PortKinds :
              SessionAdded(sessions, sessions', NextCall, streams)
<1>1. CallIs("open")
  BY CalledIs DEF Open
<1>2. PICK streams \in PortKinds :
        sessions' = Append(sessions, NewSession(NextCall, streams))
  BY DEF Open
<1>3. PortKinds \subseteq BOOLEAN
  <2>1. CASE sessions = <<>>
    BY <2>1, StreamAssumption DEF PortKinds
  <2>2. CASE sessions # <<>>
    <3>1. sessions[1] \in SessionSet
      BY <2>2 DEF StreamTypes
    <3> QED
      BY <2>2, <3>1 DEF PortKinds, SessionSet
  <2> QED
    BY <2>1, <2>2
<1>4. PICK e : e = NewSession(NextCall, streams)
  OBVIOUS
<1>5. /\ e \in SessionSet /\ e.state = "opening" /\ ~e.isOpen
      /\ e.call = NextCall /\ e.streams = streams
  BY <1>2, <1>3, <1>4, LengthIs DEF NewSession, SessionSet, States
<1>6. Len(sessions) \in Nat /\ sessions \in Seq(SessionSet)
  BY DEF StreamTypes
<1>7. SessionAdded(sessions, sessions', NextCall, streams)
  BY <1>2, <1>4, <1>5, <1>6, Joined DEF SessionAdded
<1> QED
  BY <1>1, <1>2, <1>7

LEMMA UserTypes ==
  ASSUME StreamTypes, Open \/ Close \/ Write \/ Update \/ Read
  PROVE  StreamTypes'
<1>0. Len(sessions) \in Nat /\ NextCall \in Nat \ {0} /\ <<NextCall>> \in Seq(Nat)
  BY LengthIs DEF StreamTypes
<1>1. CASE Open
  <2>1. PICK streams : SessionAdded(sessions, sessions', NextCall, streams)
    BY <1>1, OpenAdds
  <2>2. Len(sessions') = Len(sessions) + 1 /\ sessions' \in Seq(SessionSet)
    BY <2>1 DEF SessionAdded
  <2>3. /\ PromisesOf(promises, Len(sessions')) /\ TasksOf(todo, Len(sessions'))
        /\ port \in 0 .. Len(sessions')
    <3>1. 1 .. Len(sessions) \subseteq 1 .. Len(sessions')
      BY <1>0, <2>2
    <3>2. 0 .. Len(sessions) \subseteq 0 .. Len(sessions')
      BY <1>0, <2>2
    <3>3. PromisesOf(promises, Len(sessions'))
      BY <3>1 DEF StreamTypes, PromisesOf
    <3>4. TasksOf(todo, Len(sessions'))
      BY <3>1, <3>2 DEF StreamTypes, TasksOf
    <3> QED
      BY <3>2, <3>3, <3>4 DEF StreamTypes
  <2>4. CallIs("open")
    BY <1>1, OpenAdds
  <2> QED
    BY <1>1, <2>2, <2>3, <2>4
    DEF Open, CallIs, StreamTypes, ownVars, readVars, writeVars
<1>2. CASE Close
  <2>1. CallIs("close") /\ CloseStarts(<<NextCall>>, promises)
    BY <1>2, CalledIs, StartCloses DEF Close
  <2>2. LifeTypes
    BY <1>0, <2>1, ClosingTypes DEF StreamTypes
  <2>3. Len(sessions') = Len(sessions)
    BY <2>1 DEF CloseStarts, OpenChanges, Becomes
  <2> QED
    BY <1>2, <2>1, <2>2, <2>3
    DEF Close, CallIs, StreamTypes, LifeTypes, ownVars, readVars, writeVars
<1>3. CASE Write
  <2>1. CallIs("write")
    BY <1>3, CalledIs DEF Write
  <2>2. PromisesOf(promises', Len(sessions)) /\ waiting' \in Nat
    <3>1. CASE IsOpen
      <4>1. port \in 1 .. Len(sessions)
        BY <3>1 DEF IsOpen, StreamTypes
      <4>2. PromisesOf(promises \cup {Promise("write", port, NextCall)},
                       Len(sessions))
        BY <1>0, <4>1, PromisesGrow DEF StreamTypes
      <4> QED
        BY <1>3, <3>1, <4>2 DEF Write, StreamTypes
    <3>2. CASE ~IsOpen
      BY <1>0, <1>3, <3>2 DEF Write, StreamTypes
    <3> QED
      BY <3>1, <3>2
  <2> QED
    BY <1>0, <1>3, <2>1, <2>2
    DEF Write, CallIs, StreamTypes, lifeVars, ownVars, readVars
<1>4. CASE Update
  <2>1. CallIs("update")
    BY <1>4, CalledIs DEF Update
  <2>2. port \in 1 .. Len(sessions)
    BY <1>4 DEF Update, IsOpen, StreamTypes
  <2>3. PromisesOf(promises', Len(sessions))
    BY <1>0, <1>4, <2>2, PromisesGrow DEF Update, StreamTypes
  <2> QED
    BY <1>4, <2>1, <2>3
    DEF Update, CallIs, StreamTypes, lifeVars, ownVars, readVars, writeVars
<1>5. CASE Read
  <2>1. ReadsOn(promises)
    BY <1>5, ReadMoreDoes DEF Read
  <2>2. LifeTypes /\ readRequested' \in BOOLEAN /\ readPort' \in Nat
    BY <2>1, ReadingTypes DEF StreamTypes
  <2>3. Len(sessions') = Len(sessions)
    BY <2>1 DEF ReadsOn, CloseStarts, OpenChanges, Becomes
  <2> QED
    BY <1>5, <2>2, <2>3
    DEF Read, StreamTypes, LifeTypes, ownVars, writeVars, historyVars
<1> QED
  BY <1>1, <1>2, <1>3, <1>4, <1>5

(* A destroy: its call waits for the close in progress, for the close that *)
(* it makes, or is answered now.                                           *)
DestroyDoes ==
  /\ \/ /\ waiting = 0 /\ UNCHANGED <<waiting, writing>>
        /\ \/ replies' = replies
           \/ Followed(replies, replies', NextCall, TRUE)
     \/ /\ waiting # 0 /\ waiting' = 0 /\ writing' = 0
        /\ \/ Followed(replies, replies', waiting, FALSE)
           \/ \E rs : /\ Followed(replies, rs, waiting, FALSE)
                      /\ Followed(rs, replies', NextCall, TRUE)
  /\ \/ /\ closing /\ closeCallbacks' = Append(closeCallbacks, NextCall)
        /\ replies' = replies \/ Followed(replies, replies', waiting, FALSE)
        /\ UNCHANGED <<opening, closing, port, closeError, sessions, promises>>
     \/ /\ CloseStarts(<<NextCall>>, promises)
        /\ replies' = replies \/ Followed(replies, replies', waiting, FALSE)
     \/ ~closing /\ ~IsOpen /\ ~opening /\ UNCHANGED <<lifeVars, sessions, promises>>

LEMMA DestroyIs ==
  ASSUME StreamTypes, Destroy
  PROVE  CallIs("destroy") /\ errored' \in BOOLEAN /\ DestroyDoes
<1>1. CallIs("destroy") /\ NextCall \in Nat \ {0}
  BY CalledIs, LengthIs DEF Destroy
<1>2. PICK rs : rs = replies \o WaitingReply
  OBVIOUS
<1>3. \/ waiting = 0 /\ rs = replies
      \/ waiting # 0 /\ Followed(replies, rs, waiting, FALSE)
  BY <1>2, WaitingReplied DEF WaitingAnswered
<1>4. \/ waiting = 0 /\ UNCHANGED <<waiting, writing>>
      \/ waiting # 0 /\ waiting' = 0 /\ writing' = 0
  BY DEF Destroy, FailWaitingWrite
<1>5. errored' \in BOOLEAN
  BY DEF Destroy, FailWaitingWrite, StreamTypes
<1>6. CASE /\ closing
           /\ closeCallbacks' = Append(closeCallbacks, NextCall)
           /\ replies' = replies \o WaitingReply
           /\ UNCHANGED <<opening, closing, port, closeError, sessions, promises>>
  BY <1>1, <1>2, <1>3, <1>4, <1>5, <1>6 DEF DestroyDoes
<1>7. CASE /\ Closable
           /\ StartClose(<<NextCall>>, FALSE, promises)
           /\ replies' = replies \o WaitingReply
  BY <1>1, <1>2, <1>3, <1>4, <1>5, <1>7, StartCloses DEF DestroyDoes
<1>8. CASE /\ ~closing /\ ~Closable
           /\ replies' = replies \o WaitingReply \o <<Reply(NextCall, TRUE)>>
           /\ UNCHANGED <<lifeVars, sessions, promises>>
  <2>1. rs \in Seq(Items)
    BY <1>3 DEF Followed, StreamTypes
  <2>2. Followed(rs, replies', NextCall, TRUE)
    BY <1>1, <1>2, <1>8, <2>1, FollowedIs
  <2> QED
    BY <1>1, <1>3, <1>4, <1>5, <1>8, <2>2 DEF DestroyDoes, Closable
<1> QED
  BY <1>6, <1>7, <1>8 DEF Destroy, DestroyWaits

LEMMA DestroyTypes == ASSUME StreamTypes, Destroy PROVE StreamTypes'
<1>1. CallIs("destroy") /\ errored' \in BOOLEAN /\ DestroyDoes
  BY DestroyIs
<1>2. NextCall \in Nat \ {0} /\ <<NextCall>> \in Seq(Nat)
  BY LengthIs
<1>3. LifeTypes /\ Len(sessions') = Len(sessions)
  <2>1. CASE /\ closeCallbacks' = Append(closeCallbacks, NextCall)
             /\ UNCHANGED <<opening, closing, port, closeError, sessions, promises>>
    <3>1. closeCallbacks' \in Seq(Nat)
      BY <1>2, <2>1, Joined DEF StreamTypes
    <3> QED
      BY <2>1, <3>1 DEF LifeTypes, StreamTypes
  <2>2. CASE CloseStarts(<<NextCall>>, promises)
    <3>1. LifeTypes
      BY <1>2, <2>2, ClosingTypes DEF StreamTypes
    <3>2. Len(sessions') = Len(sessions)
      BY <2>2 DEF CloseStarts, OpenChanges, Becomes
    <3> QED
      BY <3>1, <3>2
  <2>3. CASE UNCHANGED <<lifeVars, sessions, promises>>
    BY <2>3 DEF LifeTypes, StreamTypes, lifeVars
  <2> QED
    BY <1>1, <2>1, <2>2, <2>3 DEF DestroyDoes
<1>4. waiting' \in Nat /\ writing' \in Nat
  <2>1. \/ waiting' = waiting /\ writing' = writing
        \/ waiting' = 0 /\ writing' = 0
    BY <1>1 DEF DestroyDoes
  <2> QED
    BY <2>1 DEF StreamTypes
<1>5. replies' \in Seq(Items)
  BY <1>1 DEF DestroyDoes, StreamTypes, Followed
<1> QED
  BY <1>1, <1>3, <1>4, <1>5
  DEF Destroy, CallIs, StreamTypes, LifeTypes, ownVars, readVars

(* What is left of an open that failed: its report.                        *)
Report(s) == <<Reply(sessions[s].call, FALSE)>>

LEMMA FailureReports ==
  ASSUME StreamTypes, NEW s \in 1 .. Len(sessions), AfterFailure(s)
  PROVE  /\ TasksOf(Report(s), Len(sessions)) /\ sessions[s].call \in Nat
         /\ \/ closing /\ CloseFinishes(~closeError, Report(s))
            \/ ~closing /\ Passes(Report(s))
<1>1. sessions[s].call \in Nat /\ Len(sessions) \in Nat
  <2>1. sessions[s] \in SessionSet
    BY DEF StreamTypes
  <2> QED
    BY <2>1 DEF SessionSet, StreamTypes
<1>2. TasksOf(Report(s), Len(sessions))
  BY <1>1, ShortTasks DEF Report
<1>3. CASE closing
  <2>1. FinishClose(FALSE, Report(s))
    BY <1>3 DEF AfterFailure, Report
  <2>2. Report(s) \in Seq(Items) /\ (~closeError /\ ~FALSE) = ~closeError
    BY <1>2 DEF TasksOf, StreamTypes
  <2> QED
    BY <1>1, <1>2, <1>3, <2>1, <2>2, FinishCloses
<1>4. CASE ~closing
  BY <1>1, <1>2, <1>4 DEF AfterFailure, Passes, Report
<1> QED
  BY <1>3, <1>4

LEMMA FailWaitingTypes ==
  ASSUME StreamTypes, FailWaitingWrite
  PROVE  waiting' = 0 /\ writing' \in Nat /\ errored' \in BOOLEAN
BY DEF FailWaitingWrite, StreamTypes

OpenSucceeds(s) ==
  /\ ~closing /\ UNCHANGED <<writeVars, promises, replies>>
  /\ Becomes(sessions, sessions', s, "opened", TRUE, sessions[s].asked)
  /\ todo' = <<Reply(sessions[s].call, TRUE)>> \o ResumeIO

OpenIsCanceled(s) ==
  /\ closing /\ todo' = <<>>
  /\ waiting' = 0 /\ writing' \in Nat /\ errored' \in BOOLEAN
  /\ WaitingAnswered(replies')
  /\ promises' = promises \cup {Promise("cancelClose", s, sessions[s].call)}
  /\ \E open \in BOOLEAN :
       Becomes(sessions, sessions', s, "opened", open, sessions[s].asked)

LEMMA OpenResolves ==
  ASSUME StreamTypes, NEW s \in 1 .. Len(sessions), OpenResolved(s)
  PROVE  OpenSucceeds(s) \/ OpenIsCanceled(s)
<1>1. CASE /\ ~Canceled
           /\ sessions' = [sessions EXCEPT ![s].state = "opened",
                             ![s].isOpen = TRUE, ![s].hooked = TRUE]
           /\ todo' = <<Reply(sessions[s].call, TRUE)>> \o ResumeIO
           /\ UNCHANGED <<writeVars, promises, replies>>
  <2>1. Becomes(sessions, sessions', s, "opened", TRUE, sessions[s].asked)
    BY <1>1, SessionEdits DEF StreamTypes
  <2> QED
    BY <1>1, <2>1 DEF OpenSucceeds, Canceled
<1>2. CASE /\ Canceled
           /\ \E open \in BOOLEAN :
                sessions' = [sessions EXCEPT ![s].state = "opened",
                               ![s].isOpen = open, ![s].hooked = TRUE]
           /\ FailWaitingWrite
           /\ replies' = replies \o WaitingReply
           /\ promises' =
                promises \cup {Promise("cancelClose", s, sessions[s].call)}
           /\ todo' = <<>>
  <2>1. PICK open \in BOOLEAN :
          sessions' = [sessions EXCEPT ![s].state = "opened",
                         ![s].isOpen = open, ![s].hooked = TRUE]
    BY <1>2
  <2>2. Becomes(sessions, sessions', s, "opened", open, sessions[s].asked)
    BY <2>1, SessionEdits DEF StreamTypes
  <2>3. WaitingAnswered(replies')
    BY <1>2, WaitingReplied
  <2> QED
    BY <1>2, <2>2, <2>3, FailWaitingTypes DEF OpenIsCanceled, Canceled
<1> QED
  BY <1>1, <1>2 DEF OpenResolved

(* The callback of open is the first to be called, then the stream resumes. *)
LEMMA OpenLeaves ==
  ASSUME NEW n \in Nat
  PROVE  \A td : td = <<Reply(n, TRUE)>> \o ResumeIO =>
           /\ td \in Seq(Items) /\ Len(td) = 2
           /\ td[1] = Reply(n, TRUE) /\ td[2] = Resume
<1>1. Reply(n, TRUE) \in Items /\ Resume \in Items
  BY RestIs
<1>2. PICK a : a = Reply(n, TRUE)
  OBVIOUS
<1>3. PICK b : b = Resume
  OBVIOUS
<1>4. \A td : td = <<a>> \o <<b>> =>
        td \in Seq(Items) /\ Len(td) = 2 /\ td[1] = a /\ td[2] = b
  <2>1. a \in Items /\ b \in Items
    BY <1>1, <1>2, <1>3
  <2> QED
    BY <2>1, TwoItems, Zenon
<1> QED
  BY <1>2, <1>3, <1>4 DEF ResumeIO

LEMMA OpenTypes ==
  ASSUME StreamTypes, NEW s \in 1 .. Len(sessions),
         OpenResolved(s) \/ OpenRejected(s)
  PROVE  StreamTypes'
<1>0. /\ Len(sessions) \in Nat /\ sessions[s] \in SessionSet
      /\ sessions[s].call \in Nat
  <2>1. sessions[s] \in SessionSet
    BY DEF StreamTypes
  <2> QED
    BY <2>1 DEF StreamTypes, SessionSet
<1>1. CASE OpenResolved(s)
  <2>1. CASE OpenSucceeds(s)
    <3>1. /\ todo' \in Seq(Items) /\ Len(todo') = 2
          /\ todo'[1] = Reply(sessions[s].call, TRUE) /\ todo'[2] = Resume
      BY <1>0, <2>1, OpenLeaves DEF OpenSucceeds
    <3>2. TasksOf(todo', Len(sessions))
      <4>1. \A i \in 1 .. Len(todo') : i = 1 \/ i = 2
        BY <3>1
      <4>2. todo'[1].op = "reply" /\ todo'[2].op = "resume"
        BY <3>1 DEF Reply, Resume
      <4> QED
        BY <3>1, <4>1, <4>2 DEF TasksOf
    <3>3. sessions' \in Seq(SessionSet) /\ Len(sessions') = Len(sessions)
      BY <2>1 DEF OpenSucceeds, Becomes
    <3>4. /\ opening' = FALSE /\ port' = s
          /\ UNCHANGED <<writeVars, promises, replies, closing, closeCallbacks,
                         closeError, ownVars, readVars, calls, closes>>
      BY <1>1, <2>1 DEF OpenResolved, OpenSucceeds
    <3>5. /\ port' \in 0 .. Len(sessions') /\ PromisesOf(promises', Len(sessions'))
          /\ TasksOf(todo', Len(sessions'))
      BY <1>0, <3>2, <3>3, <3>4 DEF StreamTypes
    <3> QED
      BY <3>3, <3>4, <3>5 DEF StreamTypes, ownVars, readVars, writeVars
  <2>2. CASE OpenIsCanceled(s)
    <3>1. sessions' \in Seq(SessionSet) /\ Len(sessions') = Len(sessions)
      BY <2>2 DEF OpenIsCanceled, Becomes
    <3>2. PromisesOf(promises', Len(sessions))
      BY <1>0, <2>2, PromisesGrow DEF OpenIsCanceled, StreamTypes
    <3>3. replies' \in Seq(Items)
      BY <2>2 DEF OpenIsCanceled, WaitingAnswered, Followed, StreamTypes
    <3>4. TasksOf(todo', Len(sessions))
      BY <1>0, <2>2, ShortTasks DEF OpenIsCanceled
    <3>5. /\ opening' = FALSE /\ port' = s
          /\ waiting' = 0 /\ writing' \in Nat /\ errored' \in BOOLEAN
          /\ UNCHANGED <<closing, closeCallbacks, closeError, ownVars, readVars,
                         calls, closes>>
      BY <1>1, <2>2 DEF OpenResolved, OpenIsCanceled
    <3>6. /\ port' \in 0 .. Len(sessions') /\ PromisesOf(promises', Len(sessions'))
          /\ TasksOf(todo', Len(sessions'))
      BY <1>0, <3>1, <3>2, <3>4, <3>5
    <3> QED
      BY <3>1, <3>3, <3>5, <3>6 DEF StreamTypes, ownVars, readVars
  <2> QED
    BY <1>1, <2>1, <2>2, OpenResolves
<1>2. CASE OpenRejected(s)
  <2>1. Becomes(sessions, sessions', s, "failed", sessions[s].isOpen,
                sessions[s].asked)
    BY <1>2, SessionEdits DEF OpenRejected, StreamTypes
  <2>2. sessions' \in Seq(SessionSet) /\ Len(sessions') = Len(sessions)
    BY <2>1 DEF Becomes
  <2>3. waiting' = 0 /\ writing' \in Nat /\ errored' \in BOOLEAN
    BY <1>2, FailWaitingTypes DEF OpenRejected
  <2>4. /\ closing' \in BOOLEAN /\ closeError' \in BOOLEAN
        /\ port' \in {0, port} /\ closeCallbacks' \in Seq(Nat)
        /\ readPort' \in Nat /\ readRequested' \in BOOLEAN
        /\ closes' \in Seq(Nat) /\ TasksOf(todo', Len(sessions))
    <3>1. CASE waiting = 0 /\ AfterFailure(s)
      <4>1. (~closeError) \in BOOLEAN
        OBVIOUS
      <4> QED
        BY <3>1, <4>1, FailureReports, FinishTypes
    <3>2. CASE /\ waiting # 0
               /\ todo' = WaitingReply \o <<Failed(s)>>
               /\ UNCHANGED <<closing, port, closeError, closeCallbacks,
                              readPort, readRequested, closes>>
      <4>1. /\ todo' \in Seq(Items) /\ Len(todo') = 2
            /\ todo'[1] = Reply(waiting, FALSE) /\ todo'[2] = Failed(s)
        <5>1. s \in Nat
          BY <1>0
        <5> QED
          BY <3>2, <5>1, FailureLeft
      <4>2. TasksOf(todo', Len(sessions))
        <5>1. \A i \in 1 .. Len(todo') : i = 1 \/ i = 2
          BY <4>1
        <5>3. todo'[1].op = "reply" /\ todo'[2].call = s
          BY <4>1 DEF Reply, Failed
        <5> QED
          BY <4>1, <5>1, <5>3 DEF TasksOf
      <4> QED
        BY <3>2, <4>2 DEF StreamTypes
    <3> QED
      BY <1>2, <3>1, <3>2 DEF OpenRejected
  <2>5. opening' = FALSE /\ UNCHANGED <<ownVars, reading, promises, calls, replies>>
    BY <1>2 DEF OpenRejected
  <2>6. /\ port' \in 0 .. Len(sessions') /\ PromisesOf(promises', Len(sessions'))
        /\ TasksOf(todo', Len(sessions'))
    BY <1>0, <2>2, <2>4, <2>5 DEF StreamTypes
  <2> QED
    BY <2>2, <2>3, <2>4, <2>5, <2>6 DEF StreamTypes, ownVars
<1> QED
  BY <1>1, <1>2

(* The rest of a handler goes on.                                          *)
LEMMA HeadIs ==
  ASSUME StreamTypes, todo # <<>>
  PROVE  /\ Head(todo) = todo[1] /\ Head(todo) \in Items /\ 1 \in 1 .. Len(todo)
         /\ Head(todo).op = "failed" => Head(todo).call \in 1 .. Len(sessions)
         /\ Tail(todo) \in Seq(Items) /\ Len(Tail(todo)) = Len(todo) - 1
         /\ Len(todo) \in Nat
         /\ \A k \in 1 .. Len(Tail(todo)) :
              Tail(todo)[k] = todo[k + 1] /\ k + 1 \in 1 .. Len(todo)
         /\ TasksOf(Tail(todo), Len(sessions))
<1>1. todo \in Seq(Items)
  BY DEF StreamTypes, TasksOf
<1>2. PICK t : t = Tail(todo)
  OBVIOUS
<1>3. /\ t \in Seq(Items) /\ Len(t) = Len(todo) - 1 /\ Len(todo) \in Nat \ {0}
      /\ Head(todo) = todo[1]
      /\ \A k \in 1 .. Len(t) : t[k] = todo[k + 1]
  BY <1>1, <1>2, Dropped
<1>4. 1 \in 1 .. Len(todo) /\ \A k \in 1 .. Len(t) : k + 1 \in 1 .. Len(todo)
  BY <1>3
<1>5. todo[1] \in Items
  BY <1>1, <1>4
<1>6. TasksOf(t, Len(sessions))
  BY <1>3, <1>4 DEF StreamTypes, TasksOf
<1> QED
  BY <1>2, <1>3, <1>4, <1>5, <1>6 DEF StreamTypes, TasksOf

LEMMA CallBackTypes == ASSUME StreamTypes, CallBack PROVE StreamTypes'
<1>1. replies' \in Seq(Items)
  <2>1. PICK e : e = Head(todo)
    OBVIOUS
  <2>2. e \in Items /\ replies \in Seq(Items) /\ replies' = Append(replies, e)
    BY <2>1, HeadIs DEF CallBack, StreamTypes
  <2> QED
    BY <2>2, Joined
<1>2. TasksOf(todo', Len(sessions))
  BY HeadIs DEF CallBack
<1> QED
  BY <1>1, <1>2
  DEF CallBack, StreamTypes, lifeVars, ownVars, readVars, writeVars

LEMMA ReportTypes == ASSUME StreamTypes, ReportFailure PROVE StreamTypes'
<1>1. PICK s : s = Head(todo).call
  OBVIOUS
<1>2. s \in 1 .. Len(sessions) /\ AfterFailure(s) /\ (~closeError) \in BOOLEAN
  BY <1>1, HeadIs DEF ReportFailure
<1>3. /\ closing' \in BOOLEAN /\ closeError' \in BOOLEAN
      /\ port' \in {0, port} /\ closeCallbacks' \in Seq(Nat)
      /\ readPort' \in Nat /\ readRequested' \in BOOLEAN
      /\ closes' \in Seq(Nat) /\ TasksOf(todo', Len(sessions))
  BY <1>2, FailureReports, FinishTypes
<1>4. /\ UNCHANGED <<opening, ownVars, reading, writeVars, sessions, promises,
                     calls, replies>>
      /\ Len(sessions) \in Nat
  BY DEF ReportFailure, StreamTypes
<1> QED
  BY <1>3, <1>4 DEF StreamTypes, ownVars, writeVars

(* The stream resumes: a waiting write is handed to the port, and reading  *)
(* goes on.                                                                *)
Active == ~destroyed /\ IsOpen

WriteResumed ==
  IF Active /\ waiting # 0
  THEN promises \cup {Promise("write", port, waiting)} ELSE promises

LEMMA Resumes ==
  ASSUME StreamTypes, ResumeSteps
  PROVE  /\ todo # <<>> /\ Head(todo).op = "resume" /\ todo' = Tail(todo)
         /\ waiting' = IF Active THEN 0 ELSE waiting
         /\ PromisesOf(WriteResumed, Len(sessions))
         /\ \/ Active /\ readRequested /\ ReadsOn(WriteResumed)
            \/ /\ ~(Active /\ readRequested) /\ promises' = WriteResumed
               /\ UNCHANGED <<lifeVars, readRequested, readPort, sessions>>
         /\ UNCHANGED <<ownVars, reading, writing, errored, historyVars>>
<1>1. PromisesOf(WriteResumed, Len(sessions))
  <2>1. CASE Active /\ waiting # 0
    <3>1. port \in 1 .. Len(sessions) /\ Len(sessions) \in Nat
      BY <2>1 DEF Active, IsOpen, StreamTypes
    <3> QED
      BY <2>1, <3>1, PromisesGrow DEF WriteResumed, StreamTypes
  <2>2. CASE ~(Active /\ waiting # 0)
    BY <2>2 DEF WriteResumed, StreamTypes
  <2> QED
    BY <2>1, <2>2
<1>2. \/ Active /\ readRequested /\ ReadMore(WriteResumed)
      \/ /\ ~(Active /\ readRequested) /\ promises' = WriteResumed
         /\ UNCHANGED <<lifeVars, readRequested, readPort, sessions>>
  BY DEF ResumeSteps, Active, WriteResumed
<1>3. /\ todo # <<>> /\ Head(todo).op = "resume" /\ todo' = Tail(todo)
      /\ waiting' = IF Active THEN 0 ELSE waiting
      /\ UNCHANGED <<ownVars, reading, writing, errored, historyVars>>
  BY DEF ResumeSteps, Active
<1> QED
  BY <1>1, <1>2, <1>3, ReadMoreDoes

LEMMA ReadsKeep ==
  ASSUME NEW awaited, ReadsOn(awaited)
  PROVE  Len(sessions') = Len(sessions) /\ UNCHANGED opening
BY DEF ReadsOn, CloseStarts, OpenChanges, Becomes, lifeVars

LEMMA ResumeTypes == ASSUME StreamTypes, ResumeSteps PROVE StreamTypes'
<1>1. TasksOf(todo', Len(sessions))
  BY Resumes, HeadIs
<1>2. waiting' \in Nat
  BY Resumes DEF StreamTypes
<1>3. /\ LifeTypes /\ readRequested' \in BOOLEAN /\ readPort' \in Nat
      /\ Len(sessions') = Len(sessions)
  <2>1. CASE ReadsOn(WriteResumed)
    BY <2>1, Resumes, ReadingTypes, ReadsKeep
  <2>2. CASE /\ promises' = WriteResumed
             /\ UNCHANGED <<lifeVars, readRequested, readPort, sessions>>
    BY <2>2, Resumes DEF LifeTypes, StreamTypes, lifeVars
  <2> QED
    BY <2>1, <2>2, Resumes
<1>4. UNCHANGED <<ownVars, reading, writing, errored, historyVars>>
  BY Resumes
<1> QED
  BY <1>1, <1>2, <1>3, <1>4 DEF StreamTypes, LifeTypes, ownVars, historyVars

(* The binding settles a promise, or calls a hook.                         *)
SessionCloses(s) ==
  Becomes(sessions, sessions', s, sessions[s].state, FALSE, sessions[s].asked)

LEMMA RestOf ==
  ASSUME StreamTypes, NEW p \in promises
  PROVE  /\ p \in PromiseSet /\ p.session \in 1 .. Len(sessions)
         /\ p.call \in Nat /\ Rest(p) \in Seq(Items)
         /\ TasksOf(Rest(p), Len(sessions)) /\ Len(sessions) \in Nat
         /\ \A qs \in SUBSET promises : PromisesOf(qs, Len(sessions))
<1>1. /\ p \in PromiseSet /\ p.session \in 1 .. Len(sessions)
      /\ Len(sessions) \in Nat
      /\ \A qs \in SUBSET promises : PromisesOf(qs, Len(sessions))
  BY DEF StreamTypes, PromisesOf
<1>2. p.call \in Nat
  BY <1>1 DEF PromiseSet
<1>3. TasksOf(Rest(p), Len(sessions))
  BY <1>1, <1>2, ShortTasks DEF Rest
<1> QED
  BY <1>1, <1>2, <1>3 DEF TasksOf

(* A close that is resolved ends the session for the stream, if it is the  *)
(* session of this.port.                                                   *)
LEMMA CloseResolves ==
  ASSUME StreamTypes, NEW p \in promises, CloseResolved(p)
  PROVE  /\ promises' = promises \ {p} /\ SessionCloses(p.session)
         /\ UNCHANGED <<opening, ownVars, reading, writeVars, calls, replies>>
         /\ todo = <<>> /\ p.kind \in {"close", "cancelClose"}
         /\ \/ port = p.session /\ port # 0
               /\ CloseFinishes(~closeError, Rest(p))
            \/ port # p.session /\ Passes(Rest(p))
<1>1. SessionCloses(p.session)
  BY RestOf, SessionEdits DEF CloseResolved, Closed, SessionCloses, StreamTypes
<1>2. CASE Current(p.session) /\ FinishClose(closeError, Rest(p))
  <2>1. port = p.session /\ port # 0
    BY <1>2, RestOf DEF Current
  <2>2. closeError \in BOOLEAN /\ (~closeError /\ ~closeError) = ~closeError
    BY DEF StreamTypes
  <2> QED
    BY <1>1, <1>2, <2>1, <2>2, RestOf, FinishCloses DEF CloseResolved
<1>3. CASE /\ ~Current(p.session) /\ todo' = Rest(p)
           /\ UNCHANGED <<closing, port, closeError, closeCallbacks, readPort,
                          readRequested, closes>>
  BY <1>1, <1>3 DEF CloseResolved, Current, Passes
<1> QED
  BY <1>2, <1>3 DEF CloseResolved

LEMMA CloseRejects ==
  ASSUME StreamTypes, NEW p \in promises, CloseRejected(p)
  PROVE  /\ promises' = promises \ {p}
         /\ IF sessions[p.session].isOpen THEN UNCHANGED sessions
            ELSE SessionCloses(p.session)
         /\ UNCHANGED <<opening, ownVars, reading, writeVars, calls, replies>>
         /\ todo = <<>> /\ p.kind \in {"close", "cancelClose"}
         /\ \/ port = p.session /\ port # 0 /\ ~sessions'[port].isOpen
               /\ CloseFinishes(FALSE, Rest(p))
            \/ port = p.session /\ port # 0 /\ sessions'[port].isOpen
               /\ CloseRefused(Rest(p))
            \/ port # p.session /\ Passes(Rest(p))
<1>1. IF sessions[p.session].isOpen THEN UNCHANGED sessions
      ELSE SessionCloses(p.session)
  BY RestOf, SessionEdits DEF CloseRejected, Closed, SessionCloses, StreamTypes
<1>2. CloseFailed(p.session, Rest(p)) /\ Rest(p) \in Seq(Items)
      /\ p.session # 0
  BY RestOf DEF CloseRejected
<1>3. \/ port = p.session /\ port # 0 /\ ~sessions'[port].isOpen
         /\ CloseFinishes(FALSE, Rest(p))
      \/ port = p.session /\ port # 0 /\ sessions'[port].isOpen
         /\ CloseRefused(Rest(p))
      \/ port # p.session /\ Passes(Rest(p))
  BY <1>2, CloseFails
<1> QED
  BY <1>1, <1>3 DEF CloseRejected

LEMMA ClosesKeep ==
  ASSUME NEW s, SessionCloses(s)
  PROVE  sessions' \in Seq(SessionSet) /\ Len(sessions') = Len(sessions)
BY DEF SessionCloses, Becomes

LEMMA CloseTypes ==
  ASSUME StreamTypes, NEW p \in promises, CloseResolved(p) \/ CloseRejected(p)
  PROVE  StreamTypes'
<1>1. /\ PromisesOf(promises', Len(sessions)) /\ Len(sessions) \in Nat
      /\ sessions' \in Seq(SessionSet) /\ Len(sessions') = Len(sessions)
      /\ UNCHANGED <<opening, ownVars, reading, writeVars, calls, replies>>
  <2>1. promises' \in SUBSET promises
    BY CloseResolves, CloseRejects
  <2>2. sessions' \in Seq(SessionSet) /\ Len(sessions') = Len(sessions)
    BY CloseResolves, CloseRejects, ClosesKeep DEF StreamTypes
  <2> QED
    BY <2>1, <2>2, RestOf, CloseResolves, CloseRejects
<1>2. \E ok \in BOOLEAN : \/ CloseFinishes(ok, Rest(p)) \/ CloseRefused(Rest(p))
                          \/ Passes(Rest(p))
  BY CloseResolves, CloseRejects
<1>3. /\ closing' \in BOOLEAN /\ closeError' \in BOOLEAN
      /\ port' \in {0, port} /\ closeCallbacks' \in Seq(Nat)
      /\ readPort' \in Nat /\ readRequested' \in BOOLEAN
      /\ closes' \in Seq(Nat) /\ TasksOf(todo', Len(sessions))
  BY <1>2, RestOf, FinishTypes
<1>4. /\ port' \in 0 .. Len(sessions') /\ PromisesOf(promises', Len(sessions'))
      /\ TasksOf(todo', Len(sessions'))
  BY <1>1, <1>3 DEF StreamTypes
<1> QED
  BY <1>1, <1>3, <1>4 DEF StreamTypes, ownVars, writeVars

(* The end of a session that nobody asked for.                             *)
LEMMA OnCloseDoes ==
  ASSUME StreamTypes, NEW s \in 1 .. Len(sessions), OnClose(s)
  PROVE  /\ port = s /\ todo = <<>>
         /\ UNCHANGED <<ownVars, reading, writeVars, calls, replies>>
         /\ \/ /\ CloseStarts(<<>>, promises)
               /\ UNCHANGED <<readPort, readRequested, todo, closes>>
            \/ /\ SessionCloses(s) /\ CloseFinishes(~closeError, <<>>)
               /\ UNCHANGED <<opening, promises>>
<1>1. CASE /\ Current(s) /\ Closable /\ StartClose(<<>>, TRUE, promises)
           /\ UNCHANGED <<readPort, readRequested, todo, closes>>
  BY <1>1, StartCloses DEF OnClose, Current
<1>2. CASE /\ Current(s) /\ sessions' = Closed(s) /\ FinishClose(FALSE, <<>>)
           /\ UNCHANGED <<opening, promises>>
  <2>1. SessionCloses(s)
    BY <1>2, SessionEdits DEF Closed, SessionCloses, StreamTypes
  <2>2. /\ <<>> \in Seq(Items) /\ port = s /\ port # 0
        /\ (~closeError /\ ~FALSE) = ~closeError
    BY <1>2 DEF Current, StreamTypes
  <2> QED
    BY <1>2, <2>1, <2>2, FinishCloses DEF OnClose
<1> QED
  BY <1>1, <1>2 DEF OnClose

LEMMA OnCloseTypes ==
  ASSUME StreamTypes, NEW s \in 1 .. Len(sessions), OnClose(s)
  PROVE  StreamTypes'
<1>0. /\ <<>> \in Seq(Nat) /\ Len(sessions) \in Nat /\ (~closeError) \in BOOLEAN
      /\ PromisesOf(promises, Len(sessions)) /\ TasksOf(todo, Len(sessions))
      /\ TasksOf(<<>>, Len(sessions))
  BY ShortTasks DEF StreamTypes
<1>1. CASE /\ CloseStarts(<<>>, promises)
           /\ UNCHANGED <<readPort, readRequested, todo, closes>>
  <2>1. LifeTypes /\ Len(sessions') = Len(sessions)
    <3>1. LifeTypes
      BY <1>0, <1>1, ClosingTypes
    <3> QED
      BY <1>1, <3>1 DEF CloseStarts, OpenChanges, Becomes
  <2> QED
    BY <1>1, <2>1, OnCloseDoes DEF StreamTypes, LifeTypes, ownVars, writeVars
<1>2. CASE /\ SessionCloses(s) /\ CloseFinishes(~closeError, <<>>)
           /\ UNCHANGED <<opening, promises>>
  <2>1. sessions' \in Seq(SessionSet) /\ Len(sessions') = Len(sessions)
    BY <1>2, ClosesKeep
  <2>2. /\ closing' \in BOOLEAN /\ closeError' \in BOOLEAN
        /\ port' \in {0, port} /\ closeCallbacks' \in Seq(Nat)
        /\ readPort' \in Nat /\ readRequested' \in BOOLEAN
        /\ closes' \in Seq(Nat) /\ TasksOf(todo', Len(sessions))
    BY <1>0, <1>2, FinishTypes
  <2>3. /\ port' \in 0 .. Len(sessions') /\ PromisesOf(promises', Len(sessions'))
        /\ TasksOf(todo', Len(sessions'))
    BY <1>0, <1>2, <2>1, <2>2 DEF StreamTypes
  <2>4. UNCHANGED <<ownVars, reading, writeVars, calls, replies>>
    BY OnCloseDoes
  <2> QED
    BY <1>2, <2>1, <2>2, <2>3, <2>4 DEF StreamTypes, ownVars, writeVars
<1> QED
  BY <1>1, <1>2, OnCloseDoes

LEMMA WriteSettlesAs ==
  ASSUME StreamTypes, NEW p \in promises, WriteResolved(p) \/ WriteRejected(p)
  PROVE  /\ todo = <<>> /\ p.kind = "write"
         /\ writing' = 0 /\ errored' \in BOOLEAN
         /\ todo' = <<Reply(p.call, TRUE)>> \/ todo' = <<Reply(p.call, FALSE)>>
         /\ UNCHANGED <<ownVars, readVars, waiting, historyVars>>
         /\ \/ promises' = promises \ {p} /\ UNCHANGED <<lifeVars, sessions>>
            \/ port = p.session /\ CloseStarts(<<>>, promises \ {p})
<1>1. CASE WriteResolved(p)
  BY <1>1 DEF WriteResolved, StreamTypes
<1>2. CASE WriteRejected(p)
  <2>1. PICK canceled \in BOOLEAN :
          IF Disconnects(p, canceled) THEN StartClose(<<>>, TRUE, promises \ {p})
          ELSE promises' = promises \ {p} /\ UNCHANGED <<lifeVars, sessions>>
    BY <1>2 DEF WriteRejected
  <2>2. CASE Disconnects(p, canceled) /\ StartClose(<<>>, TRUE, promises \ {p})
    <3>1. Closable /\ port = p.session
      BY <2>2 DEF Disconnects, Closable, IsOpen, Current
    <3> QED
      BY <1>2, <2>2, <3>1, StartCloses DEF WriteRejected
  <2>3. CASE promises' = promises \ {p} /\ UNCHANGED <<lifeVars, sessions>>
    BY <1>2, <2>3 DEF WriteRejected
  <2> QED
    BY <2>1, <2>2, <2>3
<1> QED
  BY <1>1, <1>2

LEMMA StartKeeps ==
  ASSUME NEW callbacks, NEW awaited, CloseStarts(callbacks, awaited)
  PROVE  Len(sessions') = Len(sessions)
BY DEF CloseStarts, OpenChanges, Becomes

LEMMA WriteTypes ==
  ASSUME StreamTypes, NEW p \in promises, WriteResolved(p) \/ WriteRejected(p)
  PROVE  StreamTypes'
<1>1. LifeTypes /\ Len(sessions') = Len(sessions)
  <2>1. CASE promises' = promises \ {p} /\ UNCHANGED <<lifeVars, sessions>>
    BY <2>1, RestOf DEF LifeTypes, StreamTypes, lifeVars
  <2>2. CASE CloseStarts(<<>>, promises \ {p})
    <3>1. <<>> \in Seq(Nat) /\ PromisesOf(promises \ {p}, Len(sessions))
      BY RestOf
    <3> QED
      BY <2>2, <3>1, ClosingTypes, StartKeeps
  <2> QED
    BY <2>1, <2>2, WriteSettlesAs
<1>2. TasksOf(todo', Len(sessions'))
  <2>1. p.call \in Nat /\ Len(sessions') \in Nat
    BY <1>1, RestOf
  <2>2. TasksOf(<<Reply(p.call, TRUE)>>, Len(sessions'))
    BY <2>1, ShortTasks
  <2>3. TasksOf(<<Reply(p.call, FALSE)>>, Len(sessions'))
    BY <2>1, ShortTasks
  <2> QED
    BY <2>2, <2>3, WriteSettlesAs
<1>3. /\ UNCHANGED <<ownVars, readVars, waiting, historyVars>>
      /\ writing' = 0 /\ errored' \in BOOLEAN
  BY WriteSettlesAs
<1> QED
  BY <1>1, <1>2, <1>3 DEF StreamTypes, LifeTypes, ownVars, readVars, historyVars

LEMMA OperationTypes ==
  ASSUME StreamTypes, NEW p \in promises,
         OperationResolved(p) \/ OperationRejected(p)
  PROVE  StreamTypes'
<1>1. p.call \in Nat /\ PromisesOf(promises \ {p}, Len(sessions))
  BY RestOf
<1>2. TasksOf(todo', Len(sessions))
  <2>1. /\ TasksOf(<<Reply(p.call, TRUE)>>, Len(sessions))
        /\ TasksOf(<<Reply(p.call, FALSE)>>, Len(sessions))
    BY <1>1, RestOf, ShortTasks
  <2> QED
    BY <2>1 DEF OperationResolved, OperationRejected
<1>3. /\ baudRate' \in Nat /\ promises' = promises \ {p}
      /\ UNCHANGED <<lifeVars, destroyed, readVars, writeVars, sessions,
                     historyVars>>
  BY <1>1
  DEF OperationResolved, OperationRejected, StreamTypes, ownVars
<1> QED
  BY <1>1, <1>2, <1>3
  DEF StreamTypes, lifeVars, readVars, writeVars, historyVars

LEMMA DataTypes ==
  ASSUME StreamTypes, NEW s \in 1 .. Len(sessions), Data(s)
  PROVE  StreamTypes' /\ Becomes(sessions, sessions', s, sessions[s].state,
                                 sessions[s].isOpen, FALSE)
<1>1. Becomes(sessions, sessions', s, sessions[s].state, sessions[s].isOpen, FALSE)
  BY SessionEdits DEF Data, StreamTypes
<1>2. sessions' \in Seq(SessionSet) /\ Len(sessions') = Len(sessions)
  BY <1>1 DEF Becomes
<1>3. /\ readRequested' \in BOOLEAN /\ reading' \in BOOLEAN
      /\ UNCHANGED <<lifeVars, ownVars, todo, readPort, writeVars, promises,
                     historyVars>>
  BY DEF Data, StreamTypes
<1>4. /\ port' \in 0 .. Len(sessions') /\ PromisesOf(promises', Len(sessions'))
      /\ TasksOf(todo', Len(sessions'))
  BY <1>2, <1>3 DEF StreamTypes, lifeVars
<1> QED
  BY <1>1, <1>2, <1>3, <1>4
  DEF StreamTypes, lifeVars, ownVars, writeVars, historyVars

(* A read ends: the chunk is pushed, reading goes on with the port that is *)
(* open now, or nothing happens.                                           *)
ReadEnds(p) ==
  /\ readPort' = IF readPort = p.session THEN 0 ELSE readPort
  /\ promises' = promises \ {p}
  /\ UNCHANGED <<lifeVars, readRequested, reading, sessions>>

LEMMA ReadSettlesAs ==
  ASSUME StreamTypes, NEW p \in promises, ReadResolved(p) \/ ReadRejected(p)
  PROVE  /\ todo = <<>> /\ p.kind = "read"
         /\ UNCHANGED <<ownVars, todo, writeVars, historyVars>>
         /\ \/ /\ port = p.session /\ IsOpen
               /\ readRequested' = FALSE /\ reading' = FALSE /\ readPort' = 0
               /\ promises' = promises \ {p} /\ UNCHANGED <<lifeVars, sessions>>
            \/ /\ port = p.session /\ IsOpen
               /\ CloseStarts(<<>>, promises \ {p})
               /\ readPort' = 0 /\ UNCHANGED <<readRequested, reading>>
            \/ /\ port # p.session /\ IsOpen /\ ReadsOn(promises \ {p})
               /\ UNCHANGED reading
            \/ ~IsOpen /\ ReadEnds(p)
<1>1. CASE ReadResolved(p)
  BY <1>1, ReadMoreDoes DEF ReadResolved, ReadEnds, Current
<1>2. CASE ReadRejected(p)
  <2>1. CASE /\ Disconnects(p, FALSE)
             /\ StartClose(<<>>, TRUE, promises \ {p})
             /\ readPort' = 0 /\ readRequested' = readRequested
    <3>1. Closable /\ port = p.session /\ IsOpen
      BY <2>1 DEF Disconnects, Closable, IsOpen, Current
    <3> QED
      BY <1>2, <2>1, <3>1, StartCloses DEF ReadRejected
  <2>2. CASE /\ IsOpen /\ ~Current(p.session) /\ ReadMore(promises \ {p})
    BY <1>2, <2>2, ReadMoreDoes DEF ReadRejected, Current
  <2>3. CASE /\ ~IsOpen
             /\ readPort' = IF readPort = p.session THEN 0 ELSE readPort
             /\ promises' = promises \ {p}
             /\ UNCHANGED <<lifeVars, readRequested, sessions>>
    BY <1>2, <2>3 DEF ReadRejected, ReadEnds
  <2> QED
    BY <1>2, <2>1, <2>2, <2>3 DEF ReadRejected
<1> QED
  BY <1>1, <1>2

LEMMA ReadTypes ==
  ASSUME StreamTypes, NEW p \in promises, ReadResolved(p) \/ ReadRejected(p)
  PROVE  StreamTypes'
<1>0. <<>> \in Seq(Nat) /\ PromisesOf(promises \ {p}, Len(sessions))
  BY RestOf
<1>1. /\ LifeTypes /\ Len(sessions') = Len(sessions)
      /\ readRequested' \in BOOLEAN /\ readPort' \in Nat /\ reading' \in BOOLEAN
  <2>1. CASE /\ readPort' \in Nat /\ readRequested' \in BOOLEAN
             /\ reading' \in BOOLEAN
             /\ promises' = promises \ {p} /\ UNCHANGED <<lifeVars, sessions>>
    BY <1>0, <2>1 DEF LifeTypes, StreamTypes, lifeVars
  <2>2. CASE /\ CloseStarts(<<>>, promises \ {p})
             /\ readPort' = 0 /\ UNCHANGED <<readRequested, reading>>
    BY <1>0, <2>2, ClosingTypes, StartKeeps DEF StreamTypes
  <2>3. CASE ReadsOn(promises \ {p}) /\ UNCHANGED reading
    BY <1>0, <2>3, ReadingTypes, ReadsKeep DEF StreamTypes
  <2>4. CASE ReadEnds(p)
    BY <1>0, <2>1, <2>4 DEF ReadEnds, StreamTypes
  <2>5. CASE /\ readRequested' = FALSE /\ reading' = FALSE /\ readPort' = 0
             /\ promises' = promises \ {p} /\ UNCHANGED <<lifeVars, sessions>>
    BY <2>1, <2>5
  <2> QED
    BY <2>2, <2>3, <2>4, <2>5, ReadSettlesAs
<1>2. UNCHANGED <<ownVars, todo, writeVars, historyVars>>
  BY ReadSettlesAs
<1> QED
  BY <1>1, <1>2 DEF StreamTypes, LifeTypes, ownVars, writeVars, historyVars

(* The steps of the system, one action or continuation each.               *)
LEMMA Steps ==
  ASSUME StreamTypes, [Next]_vars
  PROVE  \/ Open /\ MayReopen
         \/ Close \/ Destroy \/ Write \/ Update \/ Read
         \/ CallBack \/ ReportFailure \/ ResumeSteps
         \/ \E s \in 1 .. Len(sessions) :
              OpenResolved(s) \/ OpenRejected(s) \/ OnClose(s) \/ Data(s)
         \/ \E p \in promises :
              \/ CloseResolved(p) \/ CloseRejected(p)
              \/ WriteResolved(p) \/ WriteRejected(p)
              \/ OperationResolved(p) \/ OperationRejected(p)
              \/ ReadResolved(p) \/ ReadRejected(p)
         \/ UNCHANGED vars
<1>1. DOMAIN sessions = 1 .. Len(sessions)
  BY DEF StreamTypes
<1>2. CASE User
  BY <1>2 DEF User
<1>3. CASE Handler
  BY <1>3 DEF Handler
<1>4. CASE \E s \in 1 .. MaxSessions : OpenSettles(s) \/ CloseSettles(s)
  BY <1>1, <1>4 DEF OpenSettles, CloseSettles
<1>5. CASE WriteSettles \/ ReadSettles \/ OperationSettles
  BY <1>5 DEF WriteSettles, ReadSettles, OperationSettles
<1>6. CASE Hooks
  BY <1>1, <1>6 DEF Hooks
<1>7. CASE Quiet \/ UNCHANGED vars
  BY <1>7 DEF Quiet
<1> QED
  BY <1>2, <1>3, <1>4, <1>5, <1>6, <1>7 DEF Next

LEMMA InitTypes == Init => StreamTypes
<1> SUFFICES ASSUME Init PROVE StreamTypes
  OBVIOUS
<1>1. /\ <<>> \in Seq(SessionSet) /\ <<>> \in Seq(Nat) /\ <<>> \in Seq(CallSet)
      /\ <<>> \in Seq(Items) /\ Len(<<>>) = 0
  OBVIOUS
<1>2. PromisesOf({}, 0) /\ TasksOf(<<>>, 0)
  BY ShortTasks DEF PromisesOf
<1>3. /\ sessions = <<>> /\ Len(sessions) = 0 /\ promises = {} /\ todo = <<>>
      /\ port = 0
  BY <1>1 DEF Init
<1>4. /\ port \in 0 .. Len(sessions) /\ PromisesOf(promises, Len(sessions))
      /\ TasksOf(todo, Len(sessions))
  BY <1>2, <1>3
<1> QED
  BY <1>1, <1>3, <1>4 DEF Init, StreamTypes

LEMMA NextTypes == StreamTypes /\ [Next]_vars => StreamTypes'
<1> SUFFICES ASSUME StreamTypes, [Next]_vars PROVE StreamTypes'
  OBVIOUS
<1>1. CASE UNCHANGED vars
  BY <1>1
  DEF vars, StreamTypes, lifeVars, ownVars, readVars, writeVars, historyVars
<1>2. CASE Open \/ Close \/ Destroy \/ Write \/ Update \/ Read
  BY <1>2, UserTypes, DestroyTypes
<1>3. CASE CallBack \/ ReportFailure \/ ResumeSteps
  BY <1>3, CallBackTypes, ReportTypes, ResumeTypes
<1>4. ASSUME NEW s \in 1 .. Len(sessions),
             OpenResolved(s) \/ OpenRejected(s) \/ OnClose(s) \/ Data(s)
      PROVE  StreamTypes'
  BY <1>4, OpenTypes, OnCloseTypes, DataTypes
<1>5. ASSUME NEW p \in promises,
             \/ CloseResolved(p) \/ CloseRejected(p)
             \/ WriteResolved(p) \/ WriteRejected(p)
             \/ OperationResolved(p) \/ OperationRejected(p)
             \/ ReadResolved(p) \/ ReadRejected(p)
      PROVE  StreamTypes'
  BY <1>5, CloseTypes, WriteTypes, OperationTypes, ReadTypes
<1> QED
  BY <1>1, <1>2, <1>3, <1>4, <1>5, Steps

(* The stream's variables, and those of its binding and its history, keep  *)
(* their types through every handler.                                      *)
THEOREM StreamTyped == Spec => []StreamTypes
BY InitTypes, NextTypes, PTL DEF Spec

-----------------------------------------------------------------------------
(***************************************************************************)
(* Ports: which session may be open or opening.                            *)
(***************************************************************************)
PortIsOpen ==
  /\ \A s \in 1 .. Len(sessions) :
       /\ sessions[s].state = "opening" => opening /\ s = Len(sessions)
       /\ sessions[s].isOpen => port = s
  /\ opening => port = 0 /\ Len(sessions) # 0
  /\ port # 0 /\ ~closing => sessions[port].isOpen

(* An open that failed is reported before a port is used again: with a     *)
(* port there is no failure left to report.                                *)
FailureHasNoPort == port # 0 => TasksOf(todo, 0)

PortInv == PortIsOpen /\ FailureHasNoPort

LEMMA StartPorts ==
  ASSUME StreamTypes, PortIsOpen, NEW callbacks, NEW awaited,
         CloseStarts(callbacks, awaited)
  PROVE  PortIsOpen'
<1>1. CASE opening
  BY <1>1 DEF CloseStarts, PortIsOpen
<1>2. CASE ~opening
  <2>1. PICK open \in BOOLEAN :
          Becomes(sessions, sessions', port, sessions[port].state, open,
                  sessions[port].asked)
    BY <1>2 DEF CloseStarts, OpenChanges
  <2>2. \A s \in 1 .. Len(sessions) : sessions'[s].state = sessions[s].state
    BY <2>1 DEF Becomes
  <2>3. \A s \in 1 .. Len(sessions) : sessions'[s].isOpen => port = s
    BY <2>1 DEF Becomes, PortIsOpen
  <2>4. Len(sessions') = Len(sessions)
    BY <2>1 DEF Becomes
  <2> QED
    BY <1>2, <2>2, <2>3, <2>4 DEF CloseStarts, PortIsOpen
<1> QED
  BY <1>1, <1>2

LEMMA ReadPorts ==
  ASSUME StreamTypes, PortIsOpen, NEW awaited, ReadsOn(awaited)
  PROVE  PortIsOpen' /\ UNCHANGED port
<1>1. CASE UNCHANGED <<lifeVars, sessions>>
  BY <1>1 DEF PortIsOpen, lifeVars
<1>2. CASE /\ Becomes(sessions, sessions', port, sessions[port].state,
                      sessions[port].isOpen, TRUE)
           /\ UNCHANGED lifeVars
  <2>1. \A s \in 1 .. Len(sessions) :
          /\ sessions'[s].state = sessions[s].state
          /\ sessions'[s].isOpen = sessions[s].isOpen
    BY <1>2 DEF Becomes
  <2>2. Len(sessions') = Len(sessions) /\ port \in 0 .. Len(sessions)
    BY <1>2 DEF Becomes, StreamTypes
  <2>3. UNCHANGED <<opening, closing, port>>
    BY <1>2 DEF lifeVars
  <2>4. \A s \in 1 .. Len(sessions) :
          /\ sessions'[s].state = "opening" => opening /\ s = Len(sessions)
          /\ sessions'[s].isOpen => port = s
    BY <2>1 DEF PortIsOpen
  <2>5. port # 0 /\ ~closing => sessions'[port].isOpen
    <3>1. port # 0 => port \in 1 .. Len(sessions)
      BY <2>2
    <3> QED
      BY <2>1, <3>1 DEF PortIsOpen
  <2>6. opening => port = 0 /\ Len(sessions) # 0
    BY DEF PortIsOpen
  <2> QED
    BY <2>2, <2>3, <2>4, <2>5, <2>6 DEF PortIsOpen
<1>3. CASE CloseStarts(<<>>, awaited)
  BY <1>3, StartPorts DEF CloseStarts
<1> QED
  BY <1>1, <1>2, <1>3 DEF ReadsOn

LEMMA UserPorts ==
  ASSUME StreamTypes, PortInv,
         Open \/ Close \/ Destroy \/ Write \/ Update \/ Read
  PROVE  PortInv'
<1>1. CASE Open
  <2>1. PICK streams : SessionAdded(sessions, sessions', NextCall, streams)
    BY <1>1, OpenAdds
  <2>2. port = 0
    BY <1>1 DEF Open, IsOpen, PortInv, PortIsOpen
  <2>3. /\ Len(sessions') = Len(sessions) + 1 /\ Len(sessions) \in Nat
        /\ ~sessions'[Len(sessions')].isOpen
        /\ \A k \in 1 .. Len(sessions) : sessions'[k] = sessions[k]
    BY <2>1 DEF SessionAdded
  <2>4. opening' /\ UNCHANGED <<port, todo, closing>> /\ ~opening
    BY <1>1 DEF Open
  <2>5. \A s \in 1 .. Len(sessions') : s \in 1 .. Len(sessions) \/ s = Len(sessions')
    BY <2>3
  <2>6. \A s \in 1 .. Len(sessions') :
          /\ sessions'[s].state = "opening" => s = Len(sessions')
          /\ ~sessions'[s].isOpen
    <3>1. ASSUME NEW s \in 1 .. Len(sessions)
          PROVE  sessions'[s].state # "opening" /\ ~sessions'[s].isOpen
      BY <2>2, <2>3, <2>4, <3>1 DEF PortInv, PortIsOpen
    <3> QED
      BY <2>3, <2>5, <3>1
  <2> QED
    BY <2>2, <2>3, <2>4, <2>6 DEF PortInv, PortIsOpen, FailureHasNoPort
<1>2. CASE Close
  <2>1. CloseStarts(<<NextCall>>, promises)
    BY <1>2, StartCloses DEF Close
  <2> QED
    BY <1>2, <2>1, StartPorts
    DEF Close, PortInv, FailureHasNoPort, CloseStarts
<1>3. CASE Destroy
  <2>1. DestroyDoes /\ UNCHANGED todo
    BY <1>3, DestroyIs DEF Destroy
  <2>2. CASE CloseStarts(<<NextCall>>, promises)
    BY <2>1, <2>2, StartPorts DEF PortInv, FailureHasNoPort, CloseStarts
  <2>3. CASE UNCHANGED <<opening, closing, port, sessions>>
    BY <2>1, <2>3 DEF PortInv, PortIsOpen, FailureHasNoPort
  <2> QED
    BY <2>1, <2>2, <2>3 DEF DestroyDoes, lifeVars
<1>4. CASE Write \/ Update
  BY <1>4 DEF Write, Update, PortInv, PortIsOpen, FailureHasNoPort, lifeVars
<1>5. CASE Read
  BY <1>5, ReadMoreDoes, ReadPorts DEF Read, PortInv, FailureHasNoPort
<1> QED
  BY <1>1, <1>2, <1>3, <1>4, <1>5

LEMMA FailurePorts ==
  ASSUME StreamTypes, PortInv, NEW s \in 1 .. Len(sessions), AfterFailure(s),
         port = 0
  PROVE  port' = 0 /\ closing' = FALSE
<1>1. closing \in BOOLEAN
  BY DEF StreamTypes
<1> QED
  BY <1>1, FailureReports DEF CloseFinishes, Passes

LEMMA HandlerPorts ==
  ASSUME StreamTypes, PortInv, CallBack \/ ReportFailure \/ ResumeSteps
  PROVE  PortInv'
<1>1. todo # <<>>
  BY DEF CallBack, ReportFailure, ResumeSteps
<1>2. ASSUME port # 0 PROVE TasksOf(Tail(todo), 0)
  <2>1. TasksOf(todo, 0)
    BY <1>2 DEF PortInv, FailureHasNoPort
  <2> QED
    BY <1>1, <2>1, HeadIs DEF TasksOf
<1>3. CASE CallBack
  <2>1. UNCHANGED <<opening, closing, port, sessions>> /\ todo' = Tail(todo)
    BY <1>3 DEF CallBack, lifeVars
  <2> QED
    BY <1>2, <2>1 DEF PortInv, PortIsOpen, FailureHasNoPort
<1>4. CASE ReportFailure
  <2>1. PICK s : s = Head(todo).call
    OBVIOUS
  <2>2. s \in 1 .. Len(sessions) /\ AfterFailure(s) /\ UNCHANGED <<opening, sessions>>
    BY <1>4, <2>1, HeadIs DEF ReportFailure
  <2>3. port = 0
    <3>1. 1 \in 1 .. Len(todo) /\ todo[1].op = "failed"
      BY <1>1, <1>4, HeadIs DEF ReportFailure
    <3>2. ~TasksOf(todo, 0)
      BY <3>1 DEF TasksOf
    <3> QED
      BY <3>2 DEF PortInv, FailureHasNoPort
  <2>4. port' = 0 /\ closing' = FALSE
    BY <2>2, <2>3, FailurePorts
  <2> QED
    BY <2>2, <2>3, <2>4 DEF PortInv, PortIsOpen, FailureHasNoPort
<1>5. CASE ResumeSteps
  <2>1. todo' = Tail(todo)
    BY <1>5, Resumes
  <2>2. CASE ReadsOn(WriteResumed)
    BY <1>2, <2>1, <2>2, ReadPorts DEF PortInv, FailureHasNoPort
  <2>3. CASE UNCHANGED <<lifeVars, sessions>>
    BY <1>2, <2>1, <2>3 DEF PortInv, PortIsOpen, FailureHasNoPort, lifeVars
  <2> QED
    BY <1>5, <2>2, <2>3, Resumes
<1> QED
  BY <1>3, <1>4, <1>5

LEMMA OpenPorts ==
  ASSUME StreamTypes, PortInv, NEW s \in 1 .. Len(sessions),
         OpenResolved(s) \/ OpenRejected(s)
  PROVE  PortInv'
<1>1. /\ sessions[s].state = "opening" /\ opening /\ s = Len(sessions)
      /\ port = 0 /\ opening' = FALSE /\ todo = <<>>
  BY DEF OpenResolved, OpenRejected, PortInv, PortIsOpen
<1>2. \A k \in 1 .. Len(sessions) :
        /\ ~sessions[k].isOpen
        /\ k # s => sessions[k].state # "opening"
  <2>1. s # 0 /\ Len(sessions) \in Nat
    BY DEF StreamTypes
  <2> QED
    BY <1>1, <2>1 DEF PortInv, PortIsOpen
<1>3. CASE OpenResolved(s)
  <2>1. port' = s /\ closing' = closing
    BY <1>3 DEF OpenResolved
  <2>2. CASE OpenSucceeds(s)
    <3>1. /\ todo' \in Seq(Items) /\ Len(todo') = 2
          /\ todo'[1] = Reply(sessions[s].call, TRUE) /\ todo'[2] = Resume
      <4>1. sessions[s].call \in Nat
        <5>1. sessions[s] \in SessionSet
          BY DEF StreamTypes
        <5> QED
          BY <5>1 DEF SessionSet
      <4> QED
        BY <2>2, <4>1, OpenLeaves DEF OpenSucceeds
    <3>2. TasksOf(todo', 0)
      <4>1. \A i \in 1 .. Len(todo') : i = 1 \/ i = 2
        BY <3>1
      <4>2. todo'[1].op = "reply" /\ todo'[2].op = "resume"
        BY <3>1 DEF Reply, Resume
      <4> QED
        BY <3>1, <4>1, <4>2 DEF TasksOf
    <3>3. Becomes(sessions, sessions', s, "opened", TRUE, sessions[s].asked)
      BY <2>2 DEF OpenSucceeds
    <3>4. \A k \in 1 .. Len(sessions) :
            /\ sessions'[k].state # "opening"
            /\ sessions'[k].isOpen => k = s
      BY <1>2, <3>3 DEF Becomes
    <3>5. Len(sessions') = Len(sessions) /\ sessions'[s].isOpen
      BY <3>3 DEF Becomes
    <3> QED
      BY <1>1, <2>1, <3>2, <3>4, <3>5 DEF PortInv, PortIsOpen, FailureHasNoPort
  <2>3. CASE OpenIsCanceled(s)
    <3>1. PICK open \in BOOLEAN :
            Becomes(sessions, sessions', s, "opened", open, sessions[s].asked)
      BY <2>3 DEF OpenIsCanceled
    <3>2. \A k \in 1 .. Len(sessions) :
            /\ sessions'[k].state # "opening"
            /\ sessions'[k].isOpen => k = s
      BY <1>2, <3>1 DEF Becomes
    <3>3. Len(sessions') = Len(sessions) /\ closing /\ todo' = <<>>
      BY <2>3, <3>1 DEF Becomes, OpenIsCanceled
    <3>4. TasksOf(<<>>, 0)
      BY ShortTasks
    <3> QED
      BY <1>1, <2>1, <3>2, <3>3, <3>4 DEF PortInv, PortIsOpen, FailureHasNoPort
  <2> QED
    BY <1>3, <2>2, <2>3, OpenResolves
<1>4. CASE OpenRejected(s)
  <2>1. Becomes(sessions, sessions', s, "failed", sessions[s].isOpen,
                sessions[s].asked)
    BY <1>4, SessionEdits DEF OpenRejected, StreamTypes
  <2>2. \A k \in 1 .. Len(sessions) :
          sessions'[k].state # "opening" /\ ~sessions'[k].isOpen
    BY <1>2, <2>1 DEF Becomes
  <2>3. Len(sessions') = Len(sessions)
    BY <2>1 DEF Becomes
  <2>4. port' = 0
    <3>1. CASE AfterFailure(s)
      BY <1>1, <3>1, FailurePorts
    <3>2. CASE UNCHANGED port
      BY <1>1, <3>2
    <3> QED
      BY <1>4, <3>1, <3>2 DEF OpenRejected
  <2> QED
    BY <1>1, <2>2, <2>3, <2>4 DEF PortInv, PortIsOpen, FailureHasNoPort
<1> QED
  BY <1>3, <1>4

(* A session that is no longer open, when no other is.                     *)
LEMMA ClosedPorts ==
  ASSUME StreamTypes, PortIsOpen, NEW s, SessionCloses(s)
  PROVE  /\ Len(sessions') = Len(sessions)
         /\ \A k \in 1 .. Len(sessions) :
              /\ sessions'[k].state = sessions[k].state
              /\ sessions'[k].isOpen => port = k /\ k # s
              /\ k # s => sessions'[k] = sessions[k]
BY DEF SessionCloses, Becomes, PortIsOpen

LEMMA ClosePorts ==
  ASSUME StreamTypes, PortInv, NEW p \in promises,
         CloseResolved(p) \/ CloseRejected(p)
  PROVE  PortInv'
<1>0. /\ UNCHANGED opening /\ todo = <<>> /\ TasksOf(Rest(p), 0)
      /\ port \in 0 .. Len(sessions)
  <2>1. p.call \in Nat
    BY RestOf
  <2>2. TasksOf(Rest(p), 0)
    BY <2>1, ShortTasks DEF Rest
  <2> QED
    BY <2>2 DEF CloseResolved, CloseRejected, StreamTypes
<1>1. ASSUME SessionCloses(p.session), port' = 0 /\ port = p.session
      PROVE  PortInv'
  BY <1>0, <1>1, ClosedPorts DEF PortInv, PortIsOpen, FailureHasNoPort
<1>2. ASSUME port # p.session, Passes(Rest(p)),
             SessionCloses(p.session) \/ UNCHANGED sessions
      PROVE  PortInv'
  <2>1. UNCHANGED <<port, closing>> /\ TasksOf(todo', 0)
    BY <1>0, <1>2 DEF Passes
  <2>2. CASE UNCHANGED sessions
    BY <1>0, <2>1, <2>2 DEF PortInv, PortIsOpen, FailureHasNoPort
  <2>3. CASE SessionCloses(p.session)
    <3>1. port # 0 => port \in 1 .. Len(sessions)
      BY <1>0
    <3>2. port # 0 /\ ~closing => sessions'[port].isOpen
      BY <1>2, <2>3, <3>1, ClosedPorts DEF PortInv, PortIsOpen
    <3>3. \A k \in 1 .. Len(sessions) :
            /\ sessions'[k].state = "opening" => opening /\ k = Len(sessions)
            /\ sessions'[k].isOpen => port = k
      BY <2>3, ClosedPorts DEF PortInv, PortIsOpen
    <3>4. Len(sessions') = Len(sessions)
      BY <2>3, ClosedPorts DEF PortInv
    <3> QED
      BY <1>0, <2>1, <3>2, <3>3, <3>4 DEF PortInv, PortIsOpen, FailureHasNoPort
  <2> QED
    BY <1>2, <2>2, <2>3
<1>3. CASE CloseResolved(p)
  BY <1>1, <1>2, <1>3, CloseResolves DEF CloseFinishes
<1>4. CASE CloseRejected(p)
  <2>1. CASE port = p.session /\ ~sessions'[port].isOpen /\ port' = 0
             /\ SessionCloses(p.session)
    BY <1>1, <2>1
  <2>2. CASE port = p.session /\ ~sessions'[port].isOpen /\ port' = 0
             /\ UNCHANGED sessions
    BY <1>0, <2>2 DEF PortInv, PortIsOpen, FailureHasNoPort
  <2>3. CASE port = p.session /\ port # 0 /\ sessions'[port].isOpen
             /\ CloseRefused(Rest(p))
    <3>1. UNCHANGED sessions
      <4>1. SessionCloses(p.session) => ~sessions'[p.session].isOpen
        BY DEF SessionCloses, Becomes
      <4> QED
        BY <1>4, <2>3, <4>1, CloseRejects
    <3>2. UNCHANGED port
      BY <2>3 DEF CloseRefused
    <3>3. TasksOf(todo', 0)
      BY <1>0, <2>3, FinishTasks
    <3> QED
      BY <1>0, <2>3, <3>1, <3>2, <3>3 DEF PortInv, PortIsOpen, FailureHasNoPort
  <2> QED
    BY <1>2, <1>4, <2>1, <2>2, <2>3, CloseRejects DEF CloseFinishes
<1> QED
  BY <1>3, <1>4

LEMMA OnClosePorts ==
  ASSUME StreamTypes, PortInv, NEW s \in 1 .. Len(sessions), OnClose(s)
  PROVE  PortInv'
<1>1. CASE /\ CloseStarts(<<>>, promises) /\ UNCHANGED todo
  BY <1>1, StartPorts DEF PortInv, FailureHasNoPort, CloseStarts
<1>2. CASE /\ SessionCloses(s) /\ CloseFinishes(~closeError, <<>>)
           /\ UNCHANGED opening
  <2>1. port' = 0 /\ port = s
    BY <1>2, OnCloseDoes DEF CloseFinishes
  <2> QED
    BY <1>2, <2>1, ClosedPorts DEF PortInv, PortIsOpen, FailureHasNoPort
<1> QED
  BY <1>1, <1>2, OnCloseDoes

LEMMA SettlePorts ==
  ASSUME StreamTypes, PortInv, NEW p \in promises,
         \/ WriteResolved(p) \/ WriteRejected(p)
         \/ OperationResolved(p) \/ OperationRejected(p)
         \/ ReadResolved(p) \/ ReadRejected(p)
  PROVE  PortInv'
<1>0. TasksOf(<<Reply(p.call, TRUE)>>, 0) /\ TasksOf(<<Reply(p.call, FALSE)>>, 0)
  BY RestOf, ShortTasks
<1>1. ASSUME PortIsOpen', UNCHANGED port, TasksOf(todo', 0) \/ UNCHANGED todo
      PROVE  PortInv'
  BY <1>1 DEF PortInv, FailureHasNoPort
<1>2. ASSUME UNCHANGED <<lifeVars, sessions>> PROVE PortIsOpen' /\ UNCHANGED port
  BY <1>2 DEF PortInv, PortIsOpen, lifeVars
<1>3. ASSUME CloseStarts(<<>>, promises \ {p}) PROVE PortIsOpen' /\ UNCHANGED port
  BY <1>3, StartPorts DEF PortInv, CloseStarts
<1>4. ASSUME ReadsOn(promises \ {p}) PROVE PortIsOpen' /\ UNCHANGED port
  BY <1>4, ReadPorts DEF PortInv
<1>5. CASE WriteResolved(p) \/ WriteRejected(p)
  <2>1. TasksOf(todo', 0)
    BY <1>0, <1>5, WriteSettlesAs
  <2> QED
    BY <1>1, <1>2, <1>3, <1>5, <2>1, WriteSettlesAs
<1>6. CASE OperationResolved(p) \/ OperationRejected(p)
  <2>1. TasksOf(todo', 0) /\ UNCHANGED <<lifeVars, sessions>>
    BY <1>0, <1>6 DEF OperationResolved, OperationRejected
  <2> QED
    BY <1>1, <1>2, <2>1
<1>7. CASE ReadResolved(p) \/ ReadRejected(p)
  <2>1. UNCHANGED todo
    BY <1>7, ReadSettlesAs
  <2>2. \/ UNCHANGED <<lifeVars, sessions>>
        \/ CloseStarts(<<>>, promises \ {p})
        \/ ReadsOn(promises \ {p})
    BY <1>7, ReadSettlesAs DEF ReadEnds
  <2> QED
    BY <1>1, <1>2, <1>3, <1>4, <2>1, <2>2
<1> QED
  BY <1>5, <1>6, <1>7

LEMMA DataPorts ==
  ASSUME StreamTypes, PortInv, NEW s \in 1 .. Len(sessions), Data(s)
  PROVE  PortInv'
<1>1. /\ Becomes(sessions, sessions', s, sessions[s].state, sessions[s].isOpen,
                 FALSE)
      /\ UNCHANGED <<opening, closing, port, todo>>
  BY DataTypes DEF Data, lifeVars
<1>2. \A k \in 1 .. Len(sessions) :
        /\ sessions'[k].state = sessions[k].state
        /\ sessions'[k].isOpen = sessions[k].isOpen
  BY <1>1 DEF Becomes
<1>3. Len(sessions') = Len(sessions)
  BY <1>1 DEF Becomes
<1>4. port # 0 => port \in 1 .. Len(sessions)
  BY DEF StreamTypes
<1>5. port # 0 /\ ~closing => sessions'[port].isOpen
  BY <1>2, <1>4 DEF PortInv, PortIsOpen
<1>6. \A k \in 1 .. Len(sessions) :
        /\ sessions'[k].state = "opening" => opening /\ k = Len(sessions)
        /\ sessions'[k].isOpen => port = k
  BY <1>2 DEF PortInv, PortIsOpen
<1> QED
  BY <1>1, <1>3, <1>5, <1>6 DEF PortInv, PortIsOpen, FailureHasNoPort

LEMMA NextPorts == StreamTypes /\ PortInv /\ [Next]_vars => PortInv'
<1> SUFFICES ASSUME StreamTypes, PortInv, [Next]_vars PROVE PortInv'
  OBVIOUS
<1>1. CASE UNCHANGED vars
  BY <1>1 DEF vars, PortInv, PortIsOpen, FailureHasNoPort, lifeVars
<1>2. CASE Open \/ Close \/ Destroy \/ Write \/ Update \/ Read
  BY <1>2, UserPorts
<1>3. CASE CallBack \/ ReportFailure \/ ResumeSteps
  BY <1>3, HandlerPorts
<1>4. ASSUME NEW s \in 1 .. Len(sessions),
             OpenResolved(s) \/ OpenRejected(s) \/ OnClose(s) \/ Data(s)
      PROVE  PortInv'
  BY <1>4, OpenPorts, OnClosePorts, DataPorts
<1>5. ASSUME NEW p \in promises,
             \/ CloseResolved(p) \/ CloseRejected(p)
             \/ WriteResolved(p) \/ WriteRejected(p)
             \/ OperationResolved(p) \/ OperationRejected(p)
             \/ ReadResolved(p) \/ ReadRejected(p)
      PROVE  PortInv'
  BY <1>5, ClosePorts, SettlePorts
<1> QED
  BY <1>1, <1>2, <1>3, <1>4, <1>5, Steps

LEMMA InitPorts == Init => PortInv
<1> SUFFICES ASSUME Init PROVE PortInv
  OBVIOUS
<1>1. port = 0 /\ ~opening /\ Len(sessions) = 0
  BY DEF Init
<1> QED
  BY <1>1 DEF PortInv, PortIsOpen, FailureHasNoPort

StreamPorts == StreamTypes /\ PortInv

LEMMA PortsHold == Spec => []StreamPorts
<1>1. Init => StreamPorts
  BY InitTypes, InitPorts DEF StreamPorts
<1>2. StreamPorts /\ [Next]_vars => StreamPorts'
  BY NextTypes, NextPorts DEF StreamPorts
<1> QED
  BY <1>1, <1>2, PTL DEF Spec

(* No port is left behind: the session that the binding regards as open is *)
(* the one of this.port, through reopens, cancelled opens (open and close  *)
(* of stream.ts) and closes that fail (_closeFailed).                      *)
THEOREM StreamLeaksNoPort == Spec => []NoLeak
<1>1. StreamPorts => NoLeak
  <2> SUFFICES ASSUME StreamPorts PROVE NoLeak
    OBVIOUS
  <2>1. DOMAIN sessions = 1 .. Len(sessions)
    BY DEF StreamPorts, StreamTypes
  <2> QED
    BY <2>1 DEF NoLeak, StreamPorts, PortInv, PortIsOpen
<1> QED
  BY <1>1, PortsHold, PTL

-----------------------------------------------------------------------------
(***************************************************************************)
(* What no step changes: whose call a session is of, and its kind.         *)
(***************************************************************************)
SessionsKept ==
  /\ Len(sessions) \in Nat /\ Len(sessions') \in Nat
  /\ \A k \in 1 .. Len(sessions) :
       /\ k \in 1 .. Len(sessions')
       /\ sessions'[k].call = sessions[k].call
       /\ sessions'[k].streams = sessions[k].streams

SameLength == SessionsKept /\ Len(sessions') = Len(sessions)

LEMMA SameSessions ==
  ASSUME StreamTypes, UNCHANGED sessions PROVE SameLength
BY DEF StreamTypes, SameLength, SessionsKept

LEMMA BecomesKept ==
  ASSUME StreamTypes,
         \E s, state, isOpen, asked :
           Becomes(sessions, sessions', s, state, isOpen, asked)
  PROVE  SameLength
<1>1. PICK s, state, isOpen, asked :
        Becomes(sessions, sessions', s, state, isOpen, asked)
  OBVIOUS
<1>2. Len(sessions) \in Nat
  BY DEF StreamTypes
<1> QED
  BY <1>1, <1>2 DEF Becomes, SameLength, SessionsKept

LEMMA StartKept ==
  ASSUME StreamTypes, NEW callbacks, NEW awaited, CloseStarts(callbacks, awaited)
  PROVE  SameLength
BY SameSessions, BecomesKept DEF CloseStarts, OpenChanges

LEMMA ReadsKept ==
  ASSUME StreamTypes, NEW awaited, ReadsOn(awaited) PROVE SameLength
BY SameSessions, BecomesKept, StartKept DEF ReadsOn

LEMMA UserKept ==
  ASSUME StreamTypes, Close \/ Destroy \/ Write \/ Update \/ Read
  PROVE  SameLength
<1>1. CASE Close
  BY <1>1, StartCloses, StartKept DEF Close
<1>2. CASE Destroy
  BY <1>2, DestroyIs, StartKept, SameSessions DEF DestroyDoes
<1>3. CASE Write \/ Update
  BY <1>3, SameSessions DEF Write, Update
<1>4. CASE Read
  BY <1>4, ReadMoreDoes, ReadsKept DEF Read
<1> QED
  BY <1>1, <1>2, <1>3, <1>4

LEMMA HandlerKept ==
  ASSUME StreamTypes, CallBack \/ ReportFailure \/ ResumeSteps
  PROVE  SameLength
<1>1. CASE CallBack \/ ReportFailure
  BY <1>1, SameSessions DEF CallBack, ReportFailure
<1>2. CASE ResumeSteps
  BY <1>2, Resumes, ReadsKept, SameSessions
<1> QED
  BY <1>1, <1>2

LEMMA SessionKept ==
  ASSUME StreamTypes, NEW s \in 1 .. Len(sessions),
         OpenResolved(s) \/ OpenRejected(s) \/ OnClose(s) \/ Data(s)
  PROVE  SameLength
<1>1. CASE OpenResolved(s)
  BY <1>1, OpenResolves, BecomesKept DEF OpenSucceeds, OpenIsCanceled
<1>2. CASE OpenRejected(s)
  <2>1. Becomes(sessions, sessions', s, "failed", sessions[s].isOpen,
                sessions[s].asked)
    BY <1>2, SessionEdits DEF OpenRejected, StreamTypes
  <2> QED
    BY <2>1, BecomesKept
<1>3. CASE OnClose(s)
  BY <1>3, OnCloseDoes, StartKept, BecomesKept DEF SessionCloses
<1>4. CASE Data(s)
  BY <1>4, DataTypes, BecomesKept
<1> QED
  BY <1>1, <1>2, <1>3, <1>4

LEMMA PromiseKept ==
  ASSUME StreamTypes, NEW p \in promises,
         \/ CloseResolved(p) \/ CloseRejected(p)
         \/ WriteResolved(p) \/ WriteRejected(p)
         \/ OperationResolved(p) \/ OperationRejected(p)
         \/ ReadResolved(p) \/ ReadRejected(p)
  PROVE  SameLength
<1>1. CASE CloseResolved(p)
  BY <1>1, CloseResolves, BecomesKept DEF SessionCloses
<1>2. CASE CloseRejected(p)
  BY <1>2, CloseRejects, BecomesKept, SameSessions DEF SessionCloses
<1>3. CASE WriteResolved(p) \/ WriteRejected(p)
  BY <1>3, WriteSettlesAs, SameSessions, StartKept
<1>4. CASE OperationResolved(p) \/ OperationRejected(p)
  BY <1>4, SameSessions DEF OperationResolved, OperationRejected
<1>5. CASE ReadResolved(p) \/ ReadRejected(p)
  BY <1>5, ReadSettlesAs, SameSessions, StartKept, ReadsKept DEF ReadEnds
<1> QED
  BY <1>1, <1>2, <1>3, <1>4, <1>5

-----------------------------------------------------------------------------
(***************************************************************************)
(* Kinds of ports: the ports of a binding are all of one kind, and only    *)
(* those without startReading have reads to await.                         *)
(***************************************************************************)
StreamsAlike(ss) ==
  \A s, t \in 1 .. Len(ss) : ss[s].streams = ss[t].streams

ReadsAwaited(ps, ss) ==
  \A p \in ps : p.kind = "read" => ~ss[p.session].streams

OneKind == StreamsAlike(sessions) /\ ReadsAwaited(promises, sessions)

(* What the stream has newly to await.                                     *)
NewRead(q) == q = ReadPromise /\ IsOpen /\ ~sessions[port].streams

KindlyAdded ==
  \A q \in promises' : q \in promises \/ q.kind # "read" \/ NewRead(q)

LEMMA KindsKept ==
  ASSUME StreamTypes, OneKind, SameLength, KindlyAdded PROVE OneKind'
<1>1. StreamsAlike(sessions')
  BY DEF OneKind, StreamsAlike, SameLength, SessionsKept
<1>2. ASSUME NEW q \in promises', q.kind = "read"
      PROVE  ~sessions'[q.session].streams
  <2>1. CASE q \in promises
    <3>1. q.session \in 1 .. Len(sessions) /\ ~sessions[q.session].streams
      BY <1>2, <2>1, RestOf DEF OneKind, ReadsAwaited
    <3> QED
      BY <3>1 DEF SameLength, SessionsKept
  <2>2. CASE NewRead(q)
    <3>1. q.session = port /\ port \in 1 .. Len(sessions)
      BY <2>2 DEF NewRead, ReadPromise, Promise, IsOpen, StreamTypes
    <3> QED
      BY <2>2, <3>1 DEF NewRead, SameLength, SessionsKept
  <2> QED
    BY <1>2, <2>1, <2>2 DEF KindlyAdded
<1> QED
  BY <1>1, <1>2 DEF OneKind, ReadsAwaited

(* The promises that a step adds.                                          *)
LEMMA StartAdds ==
  ASSUME NEW callbacks, NEW awaited, CloseStarts(callbacks, awaited)
  PROVE  /\ awaited \subseteq promises'
         /\ \A q \in promises' : q \in awaited \/ q = ClosePromise
         /\ ClosePromise.kind = "close" /\ ClosePromise.call = 0
BY DEF CloseStarts, ClosePromise, Promise

LEMMA ReadsAdd ==
  ASSUME NEW awaited, ReadsOn(awaited)
  PROVE  /\ awaited \subseteq promises'
         /\ \A q \in promises' :
              \/ q \in awaited
              \/ q.kind = "close" /\ q.call = 0
              \/ NewRead(q)
         /\ ReadPromise.kind = "read" /\ ReadPromise.call = 0
         /\ ReadPromise.session = port
BY StartAdds DEF ReadsOn, ReadPromise, Promise, NewRead

LEMMA WriteAdds ==
  ASSUME Write \/ Update
  PROVE  /\ promises \subseteq promises'
         /\ \A q \in promises' :
              q \in promises \/ (q.kind \in {"write", "update"} /\ q.call = NextCall)
BY DEF Write, Update, Promise

LEMMA ResumeAdds ==
  /\ promises \subseteq WriteResumed
  /\ \A q \in WriteResumed :
       q \in promises \/ (q.kind = "write" /\ q.call = waiting)
BY DEF WriteResumed, Promise

LEMMA OpenKinds == ASSUME StreamTypes, OneKind, Open PROVE OneKind'
<1>1. PICK streams \in PortKinds :
        SessionAdded(sessions, sessions', NextCall, streams)
  BY OpenAdds
<1>2. /\ Len(sessions') = Len(sessions) + 1 /\ Len(sessions) \in Nat
      /\ sessions'[Len(sessions')].streams = streams
      /\ \A k \in 1 .. Len(sessions) : sessions'[k] = sessions[k]
  BY <1>1 DEF SessionAdded
<1>3. \A k \in 1 .. Len(sessions) : sessions[k].streams = streams
  <2>1. ASSUME NEW k \in 1 .. Len(sessions)
        PROVE  sessions[k].streams = streams
    <3>1. 1 \in 1 .. Len(sessions) /\ sessions # <<>>
      BY <1>2
    <3>2. streams = sessions[1].streams
      BY <1>1, <3>1 DEF PortKinds
    <3> QED
      BY <3>1, <3>2 DEF OneKind, StreamsAlike
  <2> QED
    BY <2>1
<1>4. \A k \in 1 .. Len(sessions') : k \in 1 .. Len(sessions) \/ k = Len(sessions')
  BY <1>2
<1>5. \A k \in 1 .. Len(sessions') : sessions'[k].streams = streams
  BY <1>2, <1>3, <1>4
<1>6. \A p \in promises : p.session \in 1 .. Len(sessions)
  BY RestOf
<1>7. ReadsAwaited(promises, sessions')
  BY <1>2, <1>6 DEF OneKind, ReadsAwaited
<1>8. UNCHANGED promises
  BY DEF Open
<1> QED
  BY <1>5, <1>7, <1>8 DEF OneKind, StreamsAlike

LEMMA UserKinds ==
  ASSUME StreamTypes, OneKind, Close \/ Destroy \/ Write \/ Update \/ Read
  PROVE  OneKind'
<1>1. SameLength
  BY UserKept
<1>2. CASE Close
  <2>1. KindlyAdded
    BY <1>2, StartCloses, StartAdds DEF Close, KindlyAdded
  <2> QED
    BY <1>1, <2>1, KindsKept
<1>3. CASE Destroy
  <2>1. CASE CloseStarts(<<NextCall>>, promises)
    BY <1>1, <2>1, KindsKept, StartAdds DEF KindlyAdded
  <2>2. CASE UNCHANGED promises
    BY <1>1, <2>2, KindsKept DEF KindlyAdded
  <2> QED
    BY <1>3, <2>1, <2>2, DestroyIs DEF DestroyDoes
<1>4. CASE Write \/ Update
  BY <1>1, <1>4, KindsKept, WriteAdds DEF KindlyAdded
<1>5. CASE Read
  BY <1>1, <1>5, ReadMoreDoes, KindsKept, ReadsAdd DEF Read, KindlyAdded
<1> QED
  BY <1>2, <1>3, <1>4, <1>5

LEMMA HandlerKinds ==
  ASSUME StreamTypes, OneKind, CallBack \/ ReportFailure \/ ResumeSteps
  PROVE  OneKind'
<1>1. SameLength
  BY HandlerKept
<1>2. CASE CallBack \/ ReportFailure
  BY <1>1, <1>2, KindsKept DEF CallBack, ReportFailure, KindlyAdded
<1>3. CASE ResumeSteps
  <2>1. CASE ReadsOn(WriteResumed)
    <3>1. \A q \in promises' :
            q \in promises \/ q.kind # "read" \/ NewRead(q)
      BY <2>1, ReadsAdd, ResumeAdds
    <3> QED
      BY <1>1, <3>1, KindsKept DEF KindlyAdded
  <2>2. CASE promises' = WriteResumed
    BY <1>1, <2>2, ResumeAdds, KindsKept DEF KindlyAdded
  <2> QED
    BY <1>3, <2>1, <2>2, Resumes
<1> QED
  BY <1>2, <1>3

LEMMA SessionKinds ==
  ASSUME StreamTypes, OneKind, NEW s \in 1 .. Len(sessions),
         OpenResolved(s) \/ OpenRejected(s) \/ OnClose(s) \/ Data(s)
  PROVE  OneKind'
<1>1. SameLength
  BY SessionKept
<1>2. KindlyAdded
  <2>1. CASE OpenResolved(s)
    <3>1. Promise("cancelClose", s, sessions[s].call).kind = "cancelClose"
      BY DEF Promise
    <3> QED
      BY <2>1, <3>1, OpenResolves DEF OpenSucceeds, OpenIsCanceled, KindlyAdded
  <2>2. CASE OpenRejected(s)
    BY <2>2 DEF OpenRejected, KindlyAdded
  <2>3. CASE OnClose(s)
    BY <2>3, OnCloseDoes, StartAdds DEF KindlyAdded
  <2>4. CASE Data(s)
    BY <2>4 DEF Data, KindlyAdded
  <2> QED
    BY <2>1, <2>2, <2>3, <2>4
<1> QED
  BY <1>1, <1>2, KindsKept DEF KindlyAdded

LEMMA PromiseKinds ==
  ASSUME StreamTypes, OneKind, NEW p \in promises,
         \/ CloseResolved(p) \/ CloseRejected(p)
         \/ WriteResolved(p) \/ WriteRejected(p)
         \/ OperationResolved(p) \/ OperationRejected(p)
         \/ ReadResolved(p) \/ ReadRejected(p)
  PROVE  OneKind'
<1>1. SameLength
  BY PromiseKept
<1>2. CASE promises' = promises \ {p}
  BY <1>1, <1>2, KindsKept DEF KindlyAdded
<1>3. CASE CloseStarts(<<>>, promises \ {p})
  BY <1>1, <1>3, KindsKept, StartAdds DEF KindlyAdded
<1>4. CASE ReadsOn(promises \ {p})
  <2>1. \A q \in promises' :
          q \in promises \/ q.kind # "read" \/ NewRead(q)
    BY <1>4, ReadsAdd
  <2> QED
    BY <1>1, <2>1, KindsKept DEF KindlyAdded
<1>5. \/ promises' = promises \ {p}
      \/ CloseStarts(<<>>, promises \ {p})
      \/ ReadsOn(promises \ {p})
  <2>1. CASE CloseResolved(p) \/ CloseRejected(p)
    BY <2>1 DEF CloseResolved, CloseRejected
  <2>2. CASE WriteResolved(p) \/ WriteRejected(p)
    BY <2>2, WriteSettlesAs
  <2>3. CASE OperationResolved(p) \/ OperationRejected(p)
    BY <2>3 DEF OperationResolved, OperationRejected
  <2>4. CASE ReadResolved(p) \/ ReadRejected(p)
    BY <2>4, ReadSettlesAs DEF ReadEnds
  <2> QED
    BY <2>1, <2>2, <2>3, <2>4
<1> QED
  BY <1>2, <1>3, <1>4, <1>5

LEMMA NextKinds == StreamTypes /\ OneKind /\ [Next]_vars => OneKind'
<1> SUFFICES ASSUME StreamTypes, OneKind, [Next]_vars PROVE OneKind'
  OBVIOUS
<1>1. CASE UNCHANGED vars
  BY <1>1 DEF vars, OneKind
<1>2. CASE Open \/ Close \/ Destroy \/ Write \/ Update \/ Read
  BY <1>2, OpenKinds, UserKinds
<1>3. CASE CallBack \/ ReportFailure \/ ResumeSteps
  BY <1>3, HandlerKinds
<1>4. ASSUME NEW s \in 1 .. Len(sessions),
             OpenResolved(s) \/ OpenRejected(s) \/ OnClose(s) \/ Data(s)
      PROVE  OneKind'
  BY <1>4, SessionKinds
<1>5. ASSUME NEW p \in promises,
             \/ CloseResolved(p) \/ CloseRejected(p)
             \/ WriteResolved(p) \/ WriteRejected(p)
             \/ OperationResolved(p) \/ OperationRejected(p)
             \/ ReadResolved(p) \/ ReadRejected(p)
      PROVE  OneKind'
  BY <1>5, PromiseKinds
<1> QED
  BY <1>1, <1>2, <1>3, <1>4, <1>5, Steps

LEMMA InitKinds == Init => OneKind
<1> SUFFICES ASSUME Init PROVE OneKind
  OBVIOUS
<1>1. Len(sessions) = 0 /\ promises = {}
  BY DEF Init
<1> QED
  BY <1>1 DEF OneKind, StreamsAlike, ReadsAwaited

StreamKinds == StreamPorts /\ OneKind

LEMMA KindsHold == Spec => []StreamKinds
<1>1. Init => OneKind
  BY InitKinds
<1>2. StreamPorts /\ OneKind /\ [Next]_vars => OneKind'
  BY NextKinds DEF StreamPorts
<1> QED
  BY <1>1, <1>2, PortsHold, PTL DEF Spec, StreamKinds

(* What a step may not touch for a promise of an old session.              *)
PresentKept == UNCHANGED <<lifeVars, baudRate, closes>>

LEMMA StaleStep ==
  ASSUME StreamTypes, OneKind, NEW p \in promises, p.session # port,
         \/ CloseResolved(p) \/ CloseRejected(p)
         \/ WriteResolved(p) \/ WriteRejected(p)
         \/ OperationResolved(p) \/ OperationRejected(p)
         \/ ReadResolved(p) \/ ReadRejected(p)
  PROVE  PresentKept
<1>1. CASE CloseResolved(p) \/ CloseRejected(p)
  BY <1>1, CloseResolves, CloseRejects DEF Passes, PresentKept, lifeVars, ownVars
<1>2. CASE WriteResolved(p) \/ WriteRejected(p)
  BY <1>2, WriteSettlesAs DEF PresentKept, ownVars, historyVars
<1>3. CASE OperationResolved(p) \/ OperationRejected(p)
  BY <1>3
  DEF OperationResolved, OperationRejected, Current, PresentKept, ownVars,
      historyVars
<1>4. CASE ReadResolved(p) \/ ReadRejected(p)
  <2>1. UNCHANGED <<baudRate, closes>>
    BY <1>4, ReadSettlesAs DEF ownVars, historyVars
  <2>2. CASE IsOpen /\ ReadsOn(promises \ {p})
    <3>1. p.kind = "read" /\ p.session \in 1 .. Len(sessions)
      BY <1>4, ReadSettlesAs, RestOf
    <3>2. port \in 1 .. Len(sessions)
      BY <2>2 DEF IsOpen, StreamTypes
    <3>3. ~sessions[port].streams
      BY <3>1, <3>2 DEF OneKind, StreamsAlike, ReadsAwaited
    <3> QED
      BY <2>1, <2>2, <3>3 DEF ReadsOn, PresentKept
  <2>3. CASE ReadEnds(p)
    BY <2>1, <2>3 DEF ReadEnds, PresentKept
  <2> QED
    BY <1>4, <2>2, <2>3, ReadSettlesAs
<1> QED
  BY <1>1, <1>2, <1>3, <1>4

(* Only a promise that is settled ceases to be awaited.                    *)
LEMMA OthersAwaited ==
  ASSUME StreamTypes, NEW p \in promises,
         \/ CloseResolved(p) \/ CloseRejected(p)
         \/ WriteResolved(p) \/ WriteRejected(p)
         \/ OperationResolved(p) \/ OperationRejected(p)
         \/ ReadResolved(p) \/ ReadRejected(p)
  PROVE  \A q \in promises \ promises' : q = p
<1>1. CASE CloseResolved(p) \/ CloseRejected(p)
  BY <1>1 DEF CloseResolved, CloseRejected
<1>2. CASE WriteResolved(p) \/ WriteRejected(p)
  <2>1. CASE promises' = promises \ {p}
    BY <2>1
  <2>2. CASE CloseStarts(<<>>, promises \ {p})
    <3>1. promises \ {p} \subseteq promises'
      BY <2>2, StartAdds
    <3> QED
      BY <3>1
  <2> QED
    BY <1>2, <2>1, <2>2, WriteSettlesAs
<1>3. CASE OperationResolved(p) \/ OperationRejected(p)
  BY <1>3 DEF OperationResolved, OperationRejected
<1>4. CASE ReadResolved(p) \/ ReadRejected(p)
  <2>1. promises \ {p} \subseteq promises'
    <3>1. CloseStarts(<<>>, promises \ {p}) =>
            promises \ {p} \subseteq promises'
      BY StartAdds
    <3>2. ReadsOn(promises \ {p}) => promises \ {p} \subseteq promises'
      BY ReadsAdd
    <3> QED
      BY <1>4, <3>1, <3>2, ReadSettlesAs DEF ReadEnds
  <2> QED
    BY <2>1
<1> QED
  BY <1>1, <1>2, <1>3, <1>4

LEMMA AllAwaited ==
  ASSUME StreamTypes,
         \/ Open \/ Close \/ Destroy \/ Write \/ Update \/ Read
         \/ CallBack \/ ReportFailure \/ ResumeSteps
         \/ \E s \in 1 .. Len(sessions) :
              OpenResolved(s) \/ OpenRejected(s) \/ OnClose(s) \/ Data(s)
         \/ UNCHANGED vars
  PROVE  promises \subseteq promises'
<1>1. CASE Open \/ UNCHANGED vars
  BY <1>1 DEF Open, vars
<1>2. CASE Close
  BY <1>2, StartCloses, StartAdds DEF Close
<1>3. CASE Destroy
  BY <1>3, DestroyIs, StartAdds DEF DestroyDoes
<1>4. CASE Write \/ Update
  BY <1>4, WriteAdds
<1>5. CASE Read
  BY <1>5, ReadMoreDoes, ReadsAdd DEF Read
<1>6. CASE CallBack \/ ReportFailure
  BY <1>6 DEF CallBack, ReportFailure
<1>7. CASE ResumeSteps
  BY <1>7, Resumes, ReadsAdd, ResumeAdds
<1>8. ASSUME NEW s \in 1 .. Len(sessions),
             OpenResolved(s) \/ OpenRejected(s) \/ OnClose(s) \/ Data(s)
      PROVE  promises \subseteq promises'
  BY <1>8, OpenResolves, OnCloseDoes, StartAdds
  DEF OpenSucceeds, OpenIsCanceled, OpenRejected, Data
<1> QED
  BY <1>1, <1>2, <1>3, <1>4, <1>5, <1>6, <1>7, <1>8

(* What settles late on an old session - a close, a write, an operation or *)
(* a read - leaves the port that is in use, and its settings, alone: the   *)
(* checks of `port' in the continuations of stream.ts are enough.          *)
THEOREM StreamIgnoresStale == Spec => StaleIgnored
<1>1. StreamKinds /\ [Next]_vars
        => [\A p \in promises \ promises' :
              p.session # port => UNCHANGED <<lifeVars, baudRate, closes>>]_vars
  <2> SUFFICES ASSUME StreamKinds, [Next]_vars, NEW p \in promises \ promises',
                      p.session # port
               PROVE  PresentKept
    BY DEF PresentKept
  <2>1. StreamTypes /\ OneKind
    BY DEF StreamKinds, StreamPorts
  <2>2. PICK q \in promises :
          \/ CloseResolved(q) \/ CloseRejected(q)
          \/ WriteResolved(q) \/ WriteRejected(q)
          \/ OperationResolved(q) \/ OperationRejected(q)
          \/ ReadResolved(q) \/ ReadRejected(q)
    BY <2>1, Steps, AllAwaited
  <2>3. p = q
    BY <2>1, <2>2, OthersAwaited
  <2> QED
    BY <2>1, <2>2, <2>3, StaleStep
<1> QED
  BY <1>1, KindsHold, PTL DEF Spec, StaleIgnored

-----------------------------------------------------------------------------
(***************************************************************************)
(* Service: what Node waits for, the binding works on.                     *)
(***************************************************************************)
Resuming(td) == \E i \in 1 .. Len(td) : td[i].op = "resume"

(* readPort is 0 or this.port, whose read is then outstanding.             *)
ReadOutstanding == readPort # 0 => readPort = port /\ ReadPromise \in promises

(* An open port serves what Node waits for, once the handler that gave or  *)
(* kept it has resumed; until then readRequested remembers the read.       *)
Serving ==
  IsOpen /\ ~destroyed /\ ~Resuming(todo)
    => waiting = 0 /\ (reading => Asked)

ServeInv == (reading => readRequested) /\ ReadOutstanding /\ Serving

ReadsKeptAwaited == \A q \in promises : q.kind = "read" => q \in promises'

LEMMA Undisturbed ==
  ASSUME ServeInv, ReadsKeptAwaited, IsOpen' => IsOpen,
         UNCHANGED <<port, readPort, reading, readRequested, destroyed, waiting>>,
         Resuming(todo) => Resuming(todo'),
         port # 0 => sessions'[port].asked = sessions[port].asked
  PROVE  ServeInv'
<1>1. ReadOutstanding'
  <2>1. ReadPromise.kind = "read" /\ UNCHANGED ReadPromise
    BY DEF ReadPromise, Promise
  <2> QED
    BY <2>1 DEF ServeInv, ReadOutstanding, ReadsKeptAwaited
<1>2. Serving'
  <2> SUFFICES ASSUME IsOpen', ~destroyed', ~Resuming(todo')
               PROVE  waiting' = 0 /\ (reading' => Asked')
    BY DEF Serving
  <2>1. waiting = 0 /\ (reading => Asked) /\ port # 0
    BY DEF ServeInv, Serving, IsOpen
  <2>2. Asked => Asked'
    BY <2>1 DEF Asked, ReadsKeptAwaited
  <2> QED
    BY <2>1, <2>2
<1> QED
  BY <1>1, <1>2 DEF ServeInv

LEMMA NotServing ==
  ASSUME ServeInv, ~IsOpen' \/ destroyed' \/ Resuming(todo'),
         UNCHANGED reading, UNCHANGED readRequested \/ readRequested',
         \/ readPort' = 0
         \/ UNCHANGED <<readPort, port>> /\ ReadsKeptAwaited
  PROVE  ServeInv'
<1>1. ReadOutstanding'
  <2>1. ReadPromise.kind = "read" /\ (UNCHANGED port => UNCHANGED ReadPromise)
    BY DEF ReadPromise, Promise
  <2> QED
    BY <2>1 DEF ServeInv, ReadOutstanding, ReadsKeptAwaited
<1>2. Serving'
  BY DEF Serving
<1> QED
  BY <1>1, <1>2 DEF ServeInv

(* The closing of a session.                                               *)
LEMMA StartServes ==
  ASSUME ServeInv, NEW callbacks, NEW awaited, CloseStarts(callbacks, awaited),
         \A q \in promises : q.kind = "read" => q \in awaited,
         UNCHANGED <<reading, readRequested, readPort>>
  PROVE  ServeInv'
<1>1. ~IsOpen' /\ UNCHANGED port /\ ReadsKeptAwaited
  BY StartAdds DEF CloseStarts, IsOpen, ReadsKeptAwaited
<1> QED
  BY <1>1, NotServing

LEMMA FinishServes ==
  ASSUME ServeInv, NEW ok, NEW rest, CloseFinishes(ok, rest), UNCHANGED reading
  PROVE  ServeInv'
<1>1. ~IsOpen' /\ readPort' = 0 /\ readRequested'
  BY DEF CloseFinishes, IsOpen
<1> QED
  BY <1>1, NotServing

(* Reading goes on: what is asked is awaited.                              *)
LEMMA ReadsServe ==
  ASSUME StreamTypes, ServeInv, NEW awaited, ReadsOn(awaited),
         \A q \in promises : q.kind = "read" /\ q.session = port => q \in awaited
  PROVE  /\ ReadOutstanding' /\ readRequested'
         /\ IsOpen' => IsOpen /\ Asked'
<1>0. /\ ReadPromise.kind = "read" /\ ReadPromise.session = port
      /\ UNCHANGED port => UNCHANGED ReadPromise
  BY DEF ReadPromise, Promise
<1>1. CASE /\ ~IsOpen \/ readPort = port
           /\ promises' = awaited /\ UNCHANGED <<lifeVars, readPort, sessions>>
  <2>1. readPort # 0 => readPort = port /\ ReadPromise \in awaited
    BY <1>0 DEF ServeInv, ReadOutstanding
  <2>2. ReadOutstanding'
    BY <1>0, <1>1, <2>1 DEF ReadOutstanding, lifeVars
  <2>3. IsOpen' => IsOpen
    BY <1>1 DEF IsOpen, lifeVars
  <2>4. IsOpen' => Asked'
    BY <1>0, <1>1, <2>1, <2>3 DEF IsOpen, Asked, lifeVars
  <2> QED
    BY <2>2, <2>3, <2>4 DEF ReadsOn
<1>2. CASE /\ IsOpen /\ readPort # port
           /\ Becomes(sessions, sessions', port, sessions[port].state,
                      sessions[port].isOpen, TRUE)
           /\ promises' = awaited /\ UNCHANGED <<lifeVars, readPort>>
  <2>1. sessions'[port].asked /\ UNCHANGED port
    BY <1>2 DEF Becomes, lifeVars
  <2>2. readPort' = 0
    BY <1>2 DEF ServeInv, ReadOutstanding
  <2> QED
    BY <1>2, <2>1, <2>2 DEF ReadsOn, ReadOutstanding, Asked
<1>3. CASE CloseStarts(<<>>, awaited) /\ UNCHANGED readPort
  <2>1. ~IsOpen' /\ UNCHANGED port /\ awaited \subseteq promises'
    BY <1>3, StartAdds DEF CloseStarts, IsOpen
  <2>2. ReadOutstanding'
    BY <1>0, <1>3, <2>1 DEF ServeInv, ReadOutstanding
  <2> QED
    BY <2>1, <2>2 DEF ReadsOn
<1>4. CASE /\ IsOpen /\ readPort' = port
           /\ promises' = awaited \cup {ReadPromise}
           /\ UNCHANGED <<lifeVars, sessions>>
  <2>1. UNCHANGED port
    BY <1>4 DEF lifeVars
  <2> QED
    BY <1>0, <1>4, <2>1 DEF ReadsOn, ReadOutstanding, Asked
<1> QED
  BY <1>1, <1>2, <1>3, <1>4 DEF ReadsOn

LEMMA UserServes ==
  ASSUME StreamTypes, PortInv, ServeInv,
         Open \/ Close \/ Destroy \/ Write \/ Update \/ Read
  PROVE  ServeInv'
<1>1. CASE Open
  <2>1. port = 0
    BY <1>1 DEF Open, IsOpen, PortInv, PortIsOpen
  <2> QED
    BY <1>1, <2>1, NotServing DEF Open, readVars, IsOpen, ReadsKeptAwaited
<1>2. CASE Close
  <2>1. CloseStarts(<<NextCall>>, promises)
    BY <1>2, StartCloses DEF Close
  <2> QED
    BY <1>2, <2>1, StartServes DEF Close, readVars
<1>3. CASE Destroy
  <2>1. destroyed' /\ UNCHANGED <<reading, readRequested, readPort>>
    BY <1>3 DEF Destroy, readVars
  <2>2. UNCHANGED port /\ ReadsKeptAwaited
    BY <1>3, DestroyIs, StartAdds
    DEF DestroyDoes, CloseStarts, lifeVars, ReadsKeptAwaited
  <2> QED
    BY <2>1, <2>2, NotServing
<1>4. CASE Write \/ Update
  <2>1. /\ UNCHANGED <<port, closing, readPort, reading, readRequested,
                       destroyed, todo, sessions>>
        /\ ReadsKeptAwaited
    BY <1>4, WriteAdds
    DEF Write, Update, lifeVars, readVars, ownVars, ReadsKeptAwaited
  <2>2. CASE UNCHANGED waiting
    BY <2>1, <2>2, Undisturbed DEF IsOpen
  <2>3. CASE ~IsOpen
    BY <2>1, <2>3, NotServing DEF IsOpen
  <2> QED
    BY <1>4, <2>2, <2>3 DEF Write, Update, writeVars
<1>5. CASE Read
  <2>1. ReadsOn(promises)
    BY <1>5, ReadMoreDoes DEF Read
  <2>2. /\ ReadOutstanding' /\ readRequested'
        /\ IsOpen' => IsOpen /\ Asked'
    BY <2>1, ReadsServe
  <2>3. UNCHANGED <<destroyed, todo, waiting>>
    BY <1>5 DEF Read, ownVars, writeVars
  <2> QED
    BY <2>2, <2>3 DEF ServeInv, Serving
<1> QED
  BY <1>1, <1>2, <1>3, <1>4, <1>5

(* A failure that is left to report has no port to go with it.             *)
LEMMA ReportHasNoPort ==
  ASSUME StreamTypes, PortInv, ReportFailure
  PROVE  /\ port = 0 /\ Head(todo).call \in 1 .. Len(sessions)
         /\ AfterFailure(Head(todo).call)
<1>1. todo # <<>> /\ Head(todo).op = "failed" /\ AfterFailure(Head(todo).call)
  BY DEF ReportFailure
<1>2. 1 \in 1 .. Len(todo) /\ todo[1].op = "failed"
  BY <1>1, HeadIs
<1>3. ~TasksOf(todo, 0)
  BY <1>2 DEF TasksOf
<1> QED
  BY <1>1, <1>3, HeadIs DEF PortInv, FailureHasNoPort

LEMMA FailureServes ==
  ASSUME StreamTypes, ServeInv, port = 0, NEW s \in 1 .. Len(sessions),
         AfterFailure(s), UNCHANGED reading
  PROVE  ServeInv'
<1>1. CASE CloseFinishes(~closeError, Report(s))
  BY <1>1, FinishServes
<1>2. CASE Passes(Report(s))
  <2>1. readPort' = 0 /\ ~IsOpen' /\ UNCHANGED readRequested
    BY <1>2 DEF Passes, IsOpen, ServeInv, ReadOutstanding
  <2> QED
    BY <2>1, NotServing
<1> QED
  BY <1>1, <1>2, FailureReports

LEMMA HandlerServes ==
  ASSUME StreamTypes, PortInv, ServeInv, CallBack \/ ReportFailure \/ ResumeSteps
  PROVE  ServeInv'
<1>1. CASE CallBack
  <2>1. /\ UNCHANGED <<port, closing, readPort, reading, readRequested,
                       destroyed, waiting, sessions, promises>>
        /\ todo # <<>> /\ Head(todo).op = "reply" /\ todo' = Tail(todo)
    BY <1>1 DEF CallBack, lifeVars, readVars, ownVars, writeVars
  <2>2. ASSUME Resuming(todo) PROVE Resuming(todo')
    <3>1. PICK i \in 1 .. Len(todo) : todo[i].op = "resume"
      BY <2>2 DEF Resuming
    <3>2. i # 1
      BY <2>1, <3>1, HeadIs
    <3>3. i - 1 \in 1 .. Len(Tail(todo)) /\ (i - 1) + 1 = i
      BY <2>1, <3>2, HeadIs
    <3>4. todo'[i - 1] = todo[i]
      BY <2>1, <3>3, HeadIs
    <3> QED
      BY <2>1, <3>1, <3>3, <3>4 DEF Resuming
  <2> QED
    BY <2>1, <2>2, Undisturbed DEF IsOpen, ReadsKeptAwaited
<1>2. CASE ReportFailure
  BY <1>2, ReportHasNoPort, FailureServes DEF ReportFailure
<1>3. CASE ResumeSteps
  <2>1. /\ waiting' = IF Active THEN 0 ELSE waiting
        /\ UNCHANGED <<ownVars, reading, writing, errored, historyVars>>
    BY <1>3, Resumes
  <2>2. CASE Active /\ ReadsOn(WriteResumed)
    <3>1. /\ ReadOutstanding' /\ readRequested'
          /\ IsOpen' => IsOpen /\ Asked'
      BY <2>2, ResumeAdds, ReadsServe
    <3> QED
      BY <2>1, <2>2, <3>1 DEF ServeInv, Serving
  <2>3. CASE /\ ~(Active /\ readRequested) /\ promises' = WriteResumed
             /\ UNCHANGED <<lifeVars, readRequested, readPort, sessions>>
    <3>1. CASE Active
      <4>1. ~reading /\ waiting' = 0
        BY <2>1, <2>3, <3>1 DEF ServeInv
      <4>2. UNCHANGED <<readPort, port, ReadPromise>> /\ promises \subseteq promises'
        BY <2>3, ResumeAdds DEF ReadPromise, lifeVars
      <4>3. ReadOutstanding'
        BY <4>2 DEF ServeInv, ReadOutstanding
      <4> QED
        BY <2>1, <4>1, <4>3 DEF ServeInv, Serving
    <3>2. CASE ~Active
      <4>1. ~IsOpen' \/ destroyed'
        BY <2>1, <2>3, <3>2 DEF Active, IsOpen, lifeVars, ownVars
      <4>2. UNCHANGED <<readPort, port>> /\ ReadsKeptAwaited
        BY <2>3, ResumeAdds DEF lifeVars, ReadsKeptAwaited
      <4> QED
        BY <2>1, <2>3, <4>1, <4>2, NotServing
    <3> QED
      BY <3>1, <3>2
  <2> QED
    BY <1>3, <2>2, <2>3, Resumes
<1> QED
  BY <1>1, <1>2, <1>3

(* What a successful open leaves to do: its callback, then the stream      *)
(* resumes.                                                                *)
LEMMA SuccessLeaves ==
  ASSUME StreamTypes, NEW s \in 1 .. Len(sessions), OpenSucceeds(s)
  PROVE  /\ todo' \in Seq(Items) /\ Len(todo') = 2
         /\ todo'[1] = Reply(sessions[s].call, TRUE) /\ todo'[2] = Resume
<1>1. sessions[s].call \in Nat
  <2>1. sessions[s] \in SessionSet
    BY DEF StreamTypes
  <2> QED
    BY <2>1 DEF SessionSet
<1> QED
  BY <1>1, OpenLeaves DEF OpenSucceeds

LEMMA OpenServes ==
  ASSUME StreamTypes, PortInv, ServeInv, NEW s \in 1 .. Len(sessions),
         OpenResolved(s) \/ OpenRejected(s)
  PROVE  ServeInv'
<1>1. port = 0 /\ readPort = 0
  BY DEF OpenResolved, OpenRejected, PortInv, PortIsOpen, ServeInv,
     ReadOutstanding
<1>2. CASE OpenResolved(s)
  <2>1. UNCHANGED <<closing, readPort, reading, readRequested>>
    BY <1>2 DEF OpenResolved, readVars
  <2>2. CASE OpenSucceeds(s)
    <3>1. Resuming(todo')
      <4>1. 2 \in 1 .. Len(todo') /\ todo'[2].op = "resume"
        <5>1. Len(todo') = 2 /\ todo'[2] = Resume
          BY <2>2, SuccessLeaves
        <5> QED
          BY <5>1 DEF Resume
      <4> QED
        BY <4>1 DEF Resuming
    <3> QED
      BY <1>1, <2>1, <3>1, NotServing
  <2>3. CASE OpenIsCanceled(s)
    <3>1. ~IsOpen'
      BY <2>1, <2>3 DEF OpenIsCanceled, IsOpen
    <3> QED
      BY <1>1, <2>1, <3>1, NotServing
  <2> QED
    BY <1>2, <2>2, <2>3, OpenResolves
<1>3. CASE OpenRejected(s)
  <2>1. CASE AfterFailure(s)
    BY <1>1, <1>3, <2>1, FailureServes DEF OpenRejected
  <2>2. CASE UNCHANGED <<port, readPort, readRequested>>
    <3>1. ~IsOpen' /\ readPort' = 0 /\ UNCHANGED reading
      BY <1>1, <1>3, <2>2 DEF OpenRejected, IsOpen
    <3> QED
      BY <2>2, <3>1, NotServing
  <2> QED
    BY <1>3, <2>1, <2>2 DEF OpenRejected
<1> QED
  BY <1>2, <1>3

LEMMA AnswersResume ==
  ASSUME StreamTypes, NEW rest \in Seq(Items), CloseRefused(rest)
  PROVE  Resuming(todo')
<1>1. PICK t : t = ResumeIO \o rest
  OBVIOUS
<1>2. t \in Seq(Items) /\ Len(t) = Len(rest) + 1 /\ t[1] = Resume
  BY <1>1, ResumeThen
<1>3. Answers(todo', closeCallbacks, FALSE, t)
  BY <1>1 DEF CloseRefused
<1>4. Len(closeCallbacks) \in Nat /\ Len(rest) \in Nat
  BY DEF StreamTypes
<1>5. 1 \in 1 .. Len(t) /\ Len(closeCallbacks) + 1 \in 1 .. Len(todo')
  BY <1>2, <1>3, <1>4 DEF Answers
<1>6. todo'[Len(closeCallbacks) + 1] = Resume
  BY <1>2, <1>3, <1>5 DEF Answers
<1> QED
  BY <1>5, <1>6 DEF Resuming, Resume

LEMMA CloseServes ==
  ASSUME StreamTypes, PortInv, ServeInv, NEW p \in promises,
         CloseResolved(p) \/ CloseRejected(p)
  PROVE  ServeInv'
<1>1. /\ promises' = promises \ {p} /\ p.kind # "read"
      /\ UNCHANGED <<reading, waiting, destroyed>> /\ todo = <<>>
  BY DEF CloseResolved, CloseRejected, ownVars, writeVars
<1>2. ReadsKeptAwaited
  BY <1>1 DEF ReadsKeptAwaited
<1>3. ASSUME port # p.session, Passes(Rest(p)),
             SessionCloses(p.session) \/ UNCHANGED sessions
      PROVE  ServeInv'
  <2>1. /\ UNCHANGED <<port, closing, readPort, readRequested>>
        /\ ~Resuming(todo)
    BY <1>1, <1>3 DEF Passes, Resuming
  <2>2. port # 0 => sessions'[port] = sessions[port]
    <3>1. port # 0 => port \in 1 .. Len(sessions)
      BY DEF StreamTypes
    <3> QED
      BY <1>3, <3>1 DEF SessionCloses, Becomes
  <2>3. IsOpen' => IsOpen
    BY <2>1, <2>2 DEF IsOpen
  <2> QED
    BY <1>1, <1>2, <2>1, <2>2, <2>3, Undisturbed
<1>4. ASSUME CloseRefused(Rest(p)) PROVE ServeInv'
  <2>1. Resuming(todo')
    BY <1>4, RestOf, AnswersResume
  <2> QED
    BY <1>1, <1>2, <1>4, <2>1, NotServing DEF CloseRefused
<1>5. ASSUME NEW ok, CloseFinishes(ok, Rest(p)) PROVE ServeInv'
  BY <1>1, <1>5, FinishServes
<1>6. CASE CloseResolved(p)
  BY <1>3, <1>5, <1>6, CloseResolves
<1>7. CASE CloseRejected(p)
  BY <1>3, <1>4, <1>5, <1>7, CloseRejects
<1> QED
  BY <1>6, <1>7

LEMMA HookServes ==
  ASSUME StreamTypes, PortInv, ServeInv, NEW s \in 1 .. Len(sessions),
         OnClose(s) \/ Data(s)
  PROVE  ServeInv'
<1>1. CASE OnClose(s)
  BY <1>1, OnCloseDoes, StartServes, FinishServes
<1>2. CASE Data(s)
  <2>1. /\ Becomes(sessions, sessions', s, sessions[s].state,
                   sessions[s].isOpen, FALSE)
        /\ UNCHANGED <<port, closing, destroyed, todo, readPort, waiting, promises>>
    BY <1>2, DataTypes DEF Data, lifeVars, ownVars, writeVars
  <2>2. port # 0 => port \in 1 .. Len(sessions)
    BY DEF StreamTypes
  <2>3. IsOpen' => IsOpen
    BY <2>1, <2>2 DEF IsOpen, Becomes
  <2>4. CASE readRequested' = FALSE /\ reading' = FALSE
    <3>1. ReadOutstanding'
      BY <2>1 DEF ServeInv, ReadOutstanding, ReadPromise
    <3>2. Serving'
      BY <2>1, <2>3, <2>4 DEF ServeInv, Serving
    <3> QED
      BY <2>4, <3>1, <3>2 DEF ServeInv
  <2>5. CASE ~(port = s /\ IsOpen) /\ UNCHANGED <<readRequested, reading>>
    <3>1. CASE port # s
      <4>1. port # 0 => sessions'[port].asked = sessions[port].asked
        BY <2>1, <2>2, <3>1 DEF Becomes
      <4> QED
        BY <2>1, <2>3, <2>5, <4>1, Undisturbed DEF ReadsKeptAwaited
    <3>2. CASE ~IsOpen
      BY <2>1, <2>3, <2>5, <3>2, NotServing DEF ReadsKeptAwaited
    <3> QED
      BY <2>5, <3>1, <3>2
  <2> QED
    BY <1>2, <2>4, <2>5 DEF Data, Current
<1> QED
  BY <1>1, <1>2

LEMMA SettleServes ==
  ASSUME StreamTypes, PortInv, ServeInv, NEW p \in promises,
         \/ WriteResolved(p) \/ WriteRejected(p)
         \/ OperationResolved(p) \/ OperationRejected(p)
         \/ ReadResolved(p) \/ ReadRejected(p)
  PROVE  ServeInv'
<1>0. ~Resuming(<<>>)
  BY DEF Resuming
<1>1. ASSUME p.kind # "read", todo = <<>>,
             UNCHANGED <<destroyed, readVars, waiting>>,
             \/ promises' = promises \ {p} /\ UNCHANGED <<lifeVars, sessions>>
             \/ CloseStarts(<<>>, promises \ {p})
      PROVE  ServeInv'
  <2>1. UNCHANGED <<reading, readRequested, readPort>>
    BY <1>1 DEF readVars
  <2>2. CASE promises' = promises \ {p} /\ UNCHANGED <<lifeVars, sessions>>
    <3>1. UNCHANGED <<port, closing>> /\ ReadsKeptAwaited
      BY <1>1, <2>2 DEF lifeVars, ReadsKeptAwaited
    <3> QED
      BY <1>0, <1>1, <2>1, <2>2, <3>1, Undisturbed DEF IsOpen
  <2>3. CASE CloseStarts(<<>>, promises \ {p})
    BY <1>1, <2>1, <2>3, StartServes
  <2> QED
    BY <1>1, <2>2, <2>3
<1>2. CASE WriteResolved(p) \/ WriteRejected(p)
  <2>1. UNCHANGED destroyed
    BY <1>2, WriteSettlesAs DEF ownVars
  <2> QED
    BY <1>1, <1>2, <2>1, WriteSettlesAs
<1>3. CASE OperationResolved(p) \/ OperationRejected(p)
  BY <1>1, <1>3 DEF OperationResolved, OperationRejected, ownVars, writeVars
<1>4. CASE ReadResolved(p) \/ ReadRejected(p)
  <2>1. /\ todo = <<>> /\ UNCHANGED <<destroyed, todo, waiting>>
    BY <1>4, ReadSettlesAs DEF ownVars, writeVars
  <2>2. CASE /\ IsOpen
             /\ readRequested' = FALSE /\ reading' = FALSE /\ readPort' = 0
             /\ promises' = promises \ {p} /\ UNCHANGED <<lifeVars, sessions>>
    <3>1. waiting' = 0 \/ destroyed'
      BY <1>0, <2>1, <2>2 DEF ServeInv, Serving
    <3> QED
      BY <2>2, <3>1 DEF ServeInv, Serving, ReadOutstanding
  <2>3. CASE /\ CloseStarts(<<>>, promises \ {p})
             /\ readPort' = 0 /\ UNCHANGED <<readRequested, reading>>
    <3>1. ~IsOpen'
      BY <2>3 DEF CloseStarts, IsOpen
    <3> QED
      BY <2>3, <3>1, NotServing
  <2>4. CASE /\ port # p.session /\ IsOpen /\ ReadsOn(promises \ {p})
             /\ UNCHANGED reading
    <3>1. /\ ReadOutstanding' /\ readRequested'
          /\ IsOpen' => IsOpen /\ Asked'
      BY <2>4, ReadsServe
    <3>2. Serving'
      BY <2>1, <3>1 DEF ServeInv, Serving
    <3> QED
      BY <3>1, <3>2 DEF ServeInv
  <2>5. CASE ~IsOpen /\ ReadEnds(p)
    <3>1. UNCHANGED <<port, readRequested, reading>> /\ ~IsOpen'
      BY <2>5 DEF ReadEnds, lifeVars, IsOpen
    <3>2. CASE readPort = p.session
      <4>1. readPort' = 0
        BY <2>5, <3>2 DEF ReadEnds
      <4> QED
        BY <3>1, <4>1, NotServing
    <3>3. CASE readPort # p.session
      <4>1. UNCHANGED readPort /\ promises' = promises \ {p}
        BY <2>5, <3>3 DEF ReadEnds
      <4>2. readPort # 0 => p # ReadPromise
        BY <3>3 DEF ServeInv, ReadOutstanding, ReadPromise, Promise
      <4>3. ReadOutstanding'
        BY <3>1, <4>1, <4>2 DEF ServeInv, ReadOutstanding, ReadPromise
      <4> QED
        BY <3>1, <4>3 DEF ServeInv, Serving
    <3> QED
      BY <3>2, <3>3
  <2> QED
    BY <1>4, <2>2, <2>3, <2>4, <2>5, ReadSettlesAs
<1> QED
  BY <1>2, <1>3, <1>4

LEMMA NextServes == StreamPorts /\ ServeInv /\ [Next]_vars => ServeInv'
<1> SUFFICES ASSUME StreamPorts, ServeInv, [Next]_vars PROVE ServeInv'
  OBVIOUS
<1>0. StreamTypes /\ PortInv
  BY DEF StreamPorts
<1>1. CASE UNCHANGED vars
  <2>1. /\ UNCHANGED <<port, closing, readPort, reading, readRequested,
                       destroyed, waiting, todo, sessions, promises>>
    BY <1>1 DEF vars, lifeVars, readVars, ownVars, writeVars
  <2> QED
    BY <2>1, Undisturbed DEF IsOpen, ReadsKeptAwaited
<1>2. CASE Open \/ Close \/ Destroy \/ Write \/ Update \/ Read
  BY <1>0, <1>2, UserServes
<1>3. CASE CallBack \/ ReportFailure \/ ResumeSteps
  BY <1>0, <1>3, HandlerServes
<1>4. ASSUME NEW s \in 1 .. Len(sessions),
             OpenResolved(s) \/ OpenRejected(s) \/ OnClose(s) \/ Data(s)
      PROVE  ServeInv'
  BY <1>0, <1>4, OpenServes, HookServes
<1>5. ASSUME NEW p \in promises,
             \/ CloseResolved(p) \/ CloseRejected(p)
             \/ WriteResolved(p) \/ WriteRejected(p)
             \/ OperationResolved(p) \/ OperationRejected(p)
             \/ ReadResolved(p) \/ ReadRejected(p)
      PROVE  ServeInv'
  BY <1>0, <1>5, CloseServes, SettleServes
<1> QED
  BY <1>0, <1>1, <1>2, <1>3, <1>4, <1>5, Steps

(* Nothing is forgotten: when no handler runs, a port that is open works   *)
(* on the write that waits and on the read that Node asked for - after a   *)
(* reopen, and after a close that the binding refused (_resumeIO).         *)
THEOREM StreamForgetsNothing == Spec => []NothingForgotten
<1>1. Init => ServeInv
  BY DEF Init, ServeInv, ReadOutstanding, Serving
<1>2. ServeInv => NothingForgotten
  <2>1. ~Resuming(<<>>)
    BY DEF Resuming
  <2> QED
    BY <2>1 DEF ServeInv, Serving, NothingForgotten
<1> QED
  BY <1>1, <1>2, NextServes, PortsHold, PTL DEF Spec

-----------------------------------------------------------------------------
(***************************************************************************)
(* The ledger: each accepted call whose callback is due, or was called, is *)
(* in one place.  It is a function from the numbers of the calls to their  *)
(* places, so that a call in two places has two places that are equal.     *)
(***************************************************************************)
Owing == {"cancelClose", "write", "update"}

At(at, k, n, place) == n \in 1 .. k /\ at[n] = place

RepliesAt(at, k, rs) ==
  \A i \in 1 .. Len(rs) : At(at, k, rs[i].call, <<"replies", i>>)

TodoAt(at, k, td, ss) ==
  \A i \in 1 .. Len(td) :
    /\ td[i].op = "reply" => At(at, k, td[i].call, <<"todo", i>>)
    /\ td[i].op = "failed" => At(at, k, ss[td[i].call].call, <<"todo", i>>)

CallbacksAt(at, k, cb) ==
  \A i \in 1 .. Len(cb) : At(at, k, cb[i], <<"callbacks", i>>)

OpeningAt(at, k, ss) ==
  \A s \in 1 .. Len(ss) :
    ss[s].state = "opening" => At(at, k, ss[s].call, <<"open", s>>)

PromisesAt(at, k, ps) ==
  \A p \in ps : p.kind \in Owing => At(at, k, p.call, <<"promise", p>>)

WaitingAt(at, k, w) == w # 0 => At(at, k, w, <<"waiting", 0>>)

Ledger(k, rs, td, cb, ss, ps, w) ==
  \E at : /\ RepliesAt(at, k, rs) /\ TodoAt(at, k, td, ss)
          /\ CallbacksAt(at, k, cb) /\ OpeningAt(at, k, ss)
          /\ PromisesAt(at, k, ps) /\ WaitingAt(at, k, w)

(* The calls in places of one tag stay where they are.                     *)
Stay(at, b, k, m, tag) ==
  \A n \in 1 .. k : n \in 1 .. m /\ (at[n][1] = tag => b[n] = at[n])

LEMMA AllStay ==
  ASSUME NEW at, NEW b, NEW k, NEW m
  PROVE  /\ Stay(at, b, k, m, "replies")
              => \A rs : RepliesAt(at, k, rs) => RepliesAt(b, m, rs)
         /\ Stay(at, b, k, m, "todo")
              => \A td, ss : TodoAt(at, k, td, ss) => TodoAt(b, m, td, ss)
         /\ Stay(at, b, k, m, "callbacks")
              => \A cb : CallbacksAt(at, k, cb) => CallbacksAt(b, m, cb)
         /\ Stay(at, b, k, m, "open")
              => \A ss : OpeningAt(at, k, ss) => OpeningAt(b, m, ss)
         /\ Stay(at, b, k, m, "promise")
              => \A ps : PromisesAt(at, k, ps) => PromisesAt(b, m, ps)
         /\ Stay(at, b, k, m, "waiting")
              => \A w : WaitingAt(at, k, w) => WaitingAt(b, m, w)
<1>1. ASSUME NEW n, NEW tag, NEW x, Stay(at, b, k, m, tag), At(at, k, n, <<tag, x>>)
      PROVE  At(b, m, n, <<tag, x>>)
  <2>1. at[n] = <<tag, x>> /\ n \in 1 .. k
    BY <1>1 DEF At
  <2>2. at[n][1] = tag
    BY <2>1
  <2> QED
    BY <1>1, <2>1, <2>2 DEF At, Stay
<1>2. Stay(at, b, k, m, "replies")
        => \A rs : RepliesAt(at, k, rs) => RepliesAt(b, m, rs)
  BY <1>1 DEF RepliesAt
<1>3. Stay(at, b, k, m, "todo")
        => \A td, ss : TodoAt(at, k, td, ss) => TodoAt(b, m, td, ss)
  BY <1>1 DEF TodoAt
<1>4. Stay(at, b, k, m, "callbacks")
        => \A cb : CallbacksAt(at, k, cb) => CallbacksAt(b, m, cb)
  BY <1>1 DEF CallbacksAt
<1>5. Stay(at, b, k, m, "open")
        => \A ss : OpeningAt(at, k, ss) => OpeningAt(b, m, ss)
  BY <1>1 DEF OpeningAt
<1>6. Stay(at, b, k, m, "promise")
        => \A ps : PromisesAt(at, k, ps) => PromisesAt(b, m, ps)
  BY <1>1 DEF PromisesAt
<1>7. Stay(at, b, k, m, "waiting")
        => \A w : WaitingAt(at, k, w) => WaitingAt(b, m, w)
  BY <1>1 DEF WaitingAt
<1> QED
  BY <1>2, <1>3, <1>4, <1>5, <1>6, <1>7

(* One more reply is in its place.                                         *)
LEMMA RepliesFollow ==
  ASSUME NEW at, NEW k, NEW rs, RepliesAt(at, k, rs), NEW n, NEW r2, NEW ok,
         Followed(rs, r2, n, ok), At(at, k, n, <<"replies", Len(rs) + 1>>)
  PROVE  RepliesAt(at, k, r2)
<1>1. /\ Len(r2) = Len(rs) + 1 /\ r2[Len(r2)].call = n /\ Len(rs) \in Nat
      /\ \A i \in 1 .. Len(rs) : r2[i] = rs[i]
  BY DEF Followed, Reply
<1>2. \A i \in 1 .. Len(r2) : i \in 1 .. Len(rs) \/ i = Len(rs) + 1
  BY <1>1
<1> QED
  BY <1>1, <1>2 DEF RepliesAt

(* A new call is entered at any place; the others stay.                    *)
LEMMA Entered ==
  ASSUME NEW at, NEW k \in Nat, NEW place
  PROVE  \E b : /\ At(b, k + 1, k + 1, place)
                /\ \A n \in 1 .. k : n \in 1 .. k + 1 /\ b[n] = at[n]
                /\ \A tag : Stay(at, b, k, k + 1, tag)
<1>1. PICK b : b = [n \in 1 .. k + 1 |-> IF n = k + 1 THEN place ELSE at[n]]
  OBVIOUS
<1>2. \A n \in 1 .. k : n \in 1 .. k + 1 /\ n # k + 1
  OBVIOUS
<1>3. \A n \in 1 .. k : n \in 1 .. k + 1 /\ b[n] = at[n]
  BY <1>1, <1>2
<1>4. At(b, k + 1, k + 1, place)
  BY <1>1 DEF At
<1> QED
  BY <1>3, <1>4 DEF Stay

LEMMA EnterCallback ==
  ASSUME NEW k \in Nat, NEW rs, NEW td, NEW cb \in Seq(Nat), NEW ss, NEW ps, NEW w,
         Ledger(k, rs, td, cb, ss, ps, w), NEW c2, c2 = Append(cb, k + 1)
  PROVE  Ledger(k + 1, rs, td, c2, ss, ps, w)
<1>1. PICK at : /\ RepliesAt(at, k, rs) /\ TodoAt(at, k, td, ss)
                /\ CallbacksAt(at, k, cb) /\ OpeningAt(at, k, ss)
                /\ PromisesAt(at, k, ps) /\ WaitingAt(at, k, w)
  BY DEF Ledger
<1>2. PICK b : /\ At(b, k + 1, k + 1, <<"callbacks", Len(cb) + 1>>)
               /\ \A tag : Stay(at, b, k, k + 1, tag)
  BY Entered
<1>3. /\ RepliesAt(b, k + 1, rs) /\ TodoAt(b, k + 1, td, ss)
      /\ CallbacksAt(b, k + 1, cb) /\ OpeningAt(b, k + 1, ss)
      /\ PromisesAt(b, k + 1, ps) /\ WaitingAt(b, k + 1, w)
  BY <1>1, <1>2, AllStay
<1>4. /\ Len(c2) = Len(cb) + 1 /\ c2[Len(c2)] = k + 1 /\ Len(cb) \in Nat
      /\ \A i \in 1 .. Len(cb) : c2[i] = cb[i]
  BY Joined
<1>5. CallbacksAt(b, k + 1, c2)
  <2>1. \A i \in 1 .. Len(c2) : i \in 1 .. Len(cb) \/ i = Len(cb) + 1
    BY <1>4
  <2> QED
    BY <1>2, <1>3, <1>4, <2>1 DEF CallbacksAt
<1> QED
  BY <1>3, <1>5 DEF Ledger

LEMMA EnterReply ==
  ASSUME NEW k \in Nat, NEW rs, NEW td, NEW cb, NEW ss, NEW ps, NEW w,
         Ledger(k, rs, td, cb, ss, ps, w),
         NEW r2, NEW ok, Followed(rs, r2, k + 1, ok)
  PROVE  Ledger(k + 1, r2, td, cb, ss, ps, w)
<1>1. PICK at : /\ RepliesAt(at, k, rs) /\ TodoAt(at, k, td, ss)
                /\ CallbacksAt(at, k, cb) /\ OpeningAt(at, k, ss)
                /\ PromisesAt(at, k, ps) /\ WaitingAt(at, k, w)
  BY DEF Ledger
<1>2. PICK b : /\ At(b, k + 1, k + 1, <<"replies", Len(rs) + 1>>)
               /\ \A tag : Stay(at, b, k, k + 1, tag)
  BY Entered
<1>3. /\ RepliesAt(b, k + 1, rs) /\ TodoAt(b, k + 1, td, ss)
      /\ CallbacksAt(b, k + 1, cb) /\ OpeningAt(b, k + 1, ss)
      /\ PromisesAt(b, k + 1, ps) /\ WaitingAt(b, k + 1, w)
  BY <1>1, <1>2, AllStay
<1>4. RepliesAt(b, k + 1, r2)
  BY <1>2, <1>3, RepliesFollow
<1> QED
  BY <1>3, <1>4 DEF Ledger

LEMMA EnterSession ==
  ASSUME NEW k \in Nat, NEW rs, NEW td, NEW cb, NEW ss, NEW ps, NEW w,
         Ledger(k, rs, td, cb, ss, ps, w), TasksOf(td, Len(ss)),
         NEW tt, NEW streams, SessionAdded(ss, tt, k + 1, streams)
  PROVE  Ledger(k + 1, rs, td, cb, tt, ps, w)
<1>1. PICK at : /\ RepliesAt(at, k, rs) /\ TodoAt(at, k, td, ss)
                /\ CallbacksAt(at, k, cb) /\ OpeningAt(at, k, ss)
                /\ PromisesAt(at, k, ps) /\ WaitingAt(at, k, w)
  BY DEF Ledger
<1>2. PICK b : /\ At(b, k + 1, k + 1, <<"open", Len(ss) + 1>>)
               /\ \A tag : Stay(at, b, k, k + 1, tag)
  BY Entered
<1>3. /\ RepliesAt(b, k + 1, rs) /\ TodoAt(b, k + 1, td, ss)
      /\ CallbacksAt(b, k + 1, cb) /\ OpeningAt(b, k + 1, ss)
      /\ PromisesAt(b, k + 1, ps) /\ WaitingAt(b, k + 1, w)
  BY <1>1, <1>2, AllStay
<1>4. /\ Len(tt) = Len(ss) + 1 /\ tt[Len(tt)].call = k + 1 /\ Len(ss) \in Nat
      /\ \A i \in 1 .. Len(ss) : tt[i] = ss[i]
  BY DEF SessionAdded
<1>5. OpeningAt(b, k + 1, tt)
  <2>1. \A i \in 1 .. Len(tt) : i \in 1 .. Len(ss) \/ i = Len(ss) + 1
    BY <1>4
  <2> QED
    BY <1>2, <1>3, <1>4, <2>1 DEF OpeningAt
<1>6. TodoAt(b, k + 1, td, tt)
  BY <1>3, <1>4 DEF TodoAt, TasksOf
<1> QED
  BY <1>3, <1>5, <1>6 DEF Ledger

LEMMA EnterWrite ==
  ASSUME NEW k \in Nat, NEW rs, NEW td, NEW cb, NEW ss, NEW ps, NEW w,
         Ledger(k, rs, td, cb, ss, ps, w)
  PROVE  /\ Ledger(k + 1, rs, td, cb, ss, ps, k + 1)
         /\ \A p : p.call = k + 1
              => Ledger(k + 1, rs, td, cb, ss, ps \cup {p}, w)
<1>1. PICK at : /\ RepliesAt(at, k, rs) /\ TodoAt(at, k, td, ss)
                /\ CallbacksAt(at, k, cb) /\ OpeningAt(at, k, ss)
                /\ PromisesAt(at, k, ps) /\ WaitingAt(at, k, w)
  BY DEF Ledger
<1>2. Ledger(k + 1, rs, td, cb, ss, ps, k + 1)
  <2>1. PICK b : /\ At(b, k + 1, k + 1, <<"waiting", 0>>)
                 /\ \A tag : Stay(at, b, k, k + 1, tag)
    BY Entered
  <2>2. /\ RepliesAt(b, k + 1, rs) /\ TodoAt(b, k + 1, td, ss)
        /\ CallbacksAt(b, k + 1, cb) /\ OpeningAt(b, k + 1, ss)
        /\ PromisesAt(b, k + 1, ps)
    BY <1>1, <2>1, AllStay
  <2>3. WaitingAt(b, k + 1, k + 1)
    BY <2>1 DEF WaitingAt
  <2> QED
    BY <2>2, <2>3 DEF Ledger
<1>3. ASSUME NEW p, p.call = k + 1
      PROVE  Ledger(k + 1, rs, td, cb, ss, ps \cup {p}, w)
  <2>1. PICK b : /\ At(b, k + 1, k + 1, <<"promise", p>>)
                 /\ \A tag : Stay(at, b, k, k + 1, tag)
    BY Entered
  <2>2. /\ RepliesAt(b, k + 1, rs) /\ TodoAt(b, k + 1, td, ss)
        /\ CallbacksAt(b, k + 1, cb) /\ OpeningAt(b, k + 1, ss)
        /\ PromisesAt(b, k + 1, ps) /\ WaitingAt(b, k + 1, w)
    BY <1>1, <2>1, AllStay
  <2>3. PromisesAt(b, k + 1, ps \cup {p})
    BY <1>3, <2>1, <2>2 DEF PromisesAt
  <2> QED
    BY <2>2, <2>3 DEF Ledger
<1> QED
  BY <1>2, <1>3

(* A place that holds no call any more.                                    *)
LEMMA LedgerKept ==
  ASSUME NEW k, NEW rs, NEW td, NEW cb, NEW ss, NEW ps, NEW w,
         Ledger(k, rs, td, cb, ss, ps, w)
  PROVE  /\ Ledger(k, rs, <<>>, cb, ss, ps, w)
         /\ Ledger(k, rs, td, cb, ss, ps, 0)
         /\ \A qs : (\A q \in qs : q.kind \in Owing => q \in ps)
              => Ledger(k, rs, td, cb, ss, qs, w)
         /\ \A tt : /\ TasksOf(td, Len(ss)) /\ Len(tt) = Len(ss)
                    /\ \A s \in 1 .. Len(ss) :
                         /\ tt[s].call = ss[s].call
                         /\ tt[s].state = "opening" => ss[s].state = "opening"
              => Ledger(k, rs, td, cb, tt, ps, w)
<1>1. PICK at : /\ RepliesAt(at, k, rs) /\ TodoAt(at, k, td, ss)
                /\ CallbacksAt(at, k, cb) /\ OpeningAt(at, k, ss)
                /\ PromisesAt(at, k, ps) /\ WaitingAt(at, k, w)
  BY DEF Ledger
<1>2. Ledger(k, rs, <<>>, cb, ss, ps, w)
  <2>1. TodoAt(at, k, <<>>, ss)
    BY DEF TodoAt
  <2> QED
    BY <1>1, <2>1 DEF Ledger
<1>3. Ledger(k, rs, td, cb, ss, ps, 0)
  <2>1. WaitingAt(at, k, 0)
    BY DEF WaitingAt
  <2> QED
    BY <1>1, <2>1 DEF Ledger
<1>4. ASSUME NEW qs, \A q \in qs : q.kind \in Owing => q \in ps
      PROVE  Ledger(k, rs, td, cb, ss, qs, w)
  <2>1. PromisesAt(at, k, qs)
    BY <1>1, <1>4 DEF PromisesAt
  <2> QED
    BY <1>1, <2>1 DEF Ledger
<1>5. ASSUME NEW tt, TasksOf(td, Len(ss)), Len(tt) = Len(ss),
             \A s \in 1 .. Len(ss) :
               /\ tt[s].call = ss[s].call
               /\ tt[s].state = "opening" => ss[s].state = "opening"
      PROVE  Ledger(k, rs, td, cb, tt, ps, w)
  <2>1. OpeningAt(at, k, tt)
    BY <1>1, <1>5 DEF OpeningAt
  <2>2. TodoAt(at, k, td, tt)
    BY <1>1, <1>5 DEF TodoAt, TasksOf
  <2> QED
    BY <1>1, <2>1, <2>2 DEF Ledger
<1> QED
  BY <1>2, <1>3, <1>4, <1>5

(* The write that waited is answered, or goes to the binding.              *)
LEMMA WaitingMoves ==
  ASSUME NEW k, NEW rs, NEW td, NEW cb, NEW ss, NEW ps, NEW w,
         Ledger(k, rs, td, cb, ss, ps, w), w # 0
  PROVE  /\ \A r2, ok : Followed(rs, r2, w, ok)
              => Ledger(k, r2, td, cb, ss, ps, 0)
         /\ \A p : p.call = w => Ledger(k, rs, td, cb, ss, ps \cup {p}, 0)
<1>1. PICK at : /\ RepliesAt(at, k, rs) /\ TodoAt(at, k, td, ss)
                /\ CallbacksAt(at, k, cb) /\ OpeningAt(at, k, ss)
                /\ PromisesAt(at, k, ps) /\ WaitingAt(at, k, w)
  BY DEF Ledger
<1>2. ASSUME NEW place
      PROVE  \E b : /\ At(b, k, w, place)
                    /\ \A t : t # "waiting" => Stay(at, b, k, k, t)
  <2>1. PICK b : b = [n \in 1 .. k |-> IF at[n][1] = "waiting" THEN place
                                       ELSE at[n]]
    OBVIOUS
  <2>2. \A n \in 1 .. k : at[n][1] # "waiting" => b[n] = at[n]
    BY <2>1
  <2>3. w \in 1 .. k /\ at[w] = <<"waiting", 0>>
    BY <1>1 DEF WaitingAt, At
  <2>4. At(b, k, w, place)
    BY <2>1, <2>3 DEF At
  <2>5. ASSUME NEW t, t # "waiting" PROVE Stay(at, b, k, k, t)
    BY <2>2, <2>5 DEF Stay
  <2> QED
    BY <2>4, <2>5
<1>3. ASSUME NEW b, \A t : t # "waiting" => Stay(at, b, k, k, t)
      PROVE  /\ RepliesAt(b, k, rs) /\ TodoAt(b, k, td, ss)
             /\ CallbacksAt(b, k, cb) /\ OpeningAt(b, k, ss)
             /\ PromisesAt(b, k, ps) /\ WaitingAt(b, k, 0)
  <2>1. WaitingAt(b, k, 0)
    BY DEF WaitingAt
  <2> QED
    BY <1>1, <1>3, <2>1, AllStay
<1>4. ASSUME NEW r2, NEW ok, Followed(rs, r2, w, ok)
      PROVE  Ledger(k, r2, td, cb, ss, ps, 0)
  <2>1. PICK b : /\ At(b, k, w, <<"replies", Len(rs) + 1>>)
                 /\ \A t : t # "waiting" => Stay(at, b, k, k, t)
    BY <1>2
  <2>2. /\ RepliesAt(b, k, rs) /\ TodoAt(b, k, td, ss)
        /\ CallbacksAt(b, k, cb) /\ OpeningAt(b, k, ss)
        /\ PromisesAt(b, k, ps) /\ WaitingAt(b, k, 0)
    BY <1>3, <2>1
  <2>3. RepliesAt(b, k, r2)
    BY <1>4, <2>1, <2>2, RepliesFollow
  <2> QED
    BY <2>2, <2>3 DEF Ledger
<1>5. ASSUME NEW p, p.call = w
      PROVE  Ledger(k, rs, td, cb, ss, ps \cup {p}, 0)
  <2>1. PICK b : /\ At(b, k, w, <<"promise", p>>)
                 /\ \A t : t # "waiting" => Stay(at, b, k, k, t)
    BY <1>2
  <2>2. /\ RepliesAt(b, k, rs) /\ TodoAt(b, k, td, ss)
        /\ CallbacksAt(b, k, cb) /\ OpeningAt(b, k, ss)
        /\ PromisesAt(b, k, ps) /\ WaitingAt(b, k, 0)
    BY <1>3, <2>1
  <2>3. PromisesAt(b, k, ps \cup {p})
    BY <1>5, <2>1, <2>2 DEF PromisesAt
  <2> QED
    BY <2>2, <2>3 DEF Ledger
<1> QED
  BY <1>4, <1>5

(* A task is done: a reply that was due is in the replies.                 *)
LEMMA TaskDone ==
  ASSUME NEW k, NEW rs \in Seq(Items), NEW td, NEW cb, NEW ss, NEW ps, NEW w,
         Ledger(k, rs, td, cb, ss, ps, w), td \in Seq(Items), td # <<>>,
         NEW t2, t2 = Tail(td)
  PROVE  /\ Ledger(k, rs, t2, cb, ss, ps, w)
         /\ \A r2 : td[1].op = "reply" /\ r2 = Append(rs, td[1])
              => Ledger(k, r2, t2, cb, ss, ps, w)
<1>1. PICK at : /\ RepliesAt(at, k, rs) /\ TodoAt(at, k, td, ss)
                /\ CallbacksAt(at, k, cb) /\ OpeningAt(at, k, ss)
                /\ PromisesAt(at, k, ps) /\ WaitingAt(at, k, w)
  BY DEF Ledger
<1>2. PICK first : first = <<"replies", Len(rs) + 1>>
  OBVIOUS
<1>3. PICK b : b = [n \in 1 .. k |->
                     IF at[n][1] = "todo"
                     THEN IF at[n][2] = 1 THEN first ELSE <<"todo", at[n][2] - 1>>
                     ELSE at[n]]
  OBVIOUS
<1>4. \A t : t # "todo" => Stay(at, b, k, k, t)
  BY <1>3 DEF Stay
<1>5. /\ RepliesAt(b, k, rs) /\ CallbacksAt(b, k, cb) /\ OpeningAt(b, k, ss)
      /\ PromisesAt(b, k, ps) /\ WaitingAt(b, k, w)
  BY <1>1, <1>4, AllStay
<1>6. /\ Len(t2) = Len(td) - 1 /\ Len(td) \in Nat \ {0}
      /\ \A i \in 1 .. Len(t2) : t2[i] = td[i + 1]
  BY Dropped
<1>7. ASSUME NEW n, At(at, k, n, <<"todo", 1>>)
      PROVE  At(b, k, n, first)
  <2>1. n \in 1 .. k /\ at[n] = <<"todo", 1>>
    BY <1>7 DEF At
  <2>2. at[n][1] = "todo" /\ at[n][2] = 1
    BY <2>1
  <2>3. b[n] = first
    BY <1>3, <2>1, <2>2
  <2> QED
    BY <2>1, <2>3 DEF At
<1>8. ASSUME NEW n, NEW i \in 1 .. Len(t2), At(at, k, n, <<"todo", i + 1>>)
      PROVE  At(b, k, n, <<"todo", i>>)
  <2>1. n \in 1 .. k /\ at[n] = <<"todo", i + 1>>
    BY <1>8 DEF At
  <2>2. at[n][1] = "todo" /\ at[n][2] = i + 1
    BY <2>1
  <2>3. i + 1 # 1 /\ i + 1 - 1 = i
    BY <1>6
  <2>4. b[n] = <<"todo", i>>
    BY <1>3, <2>1, <2>2, <2>3
  <2> QED
    BY <2>1, <2>4 DEF At
<1>9. TodoAt(b, k, t2, ss)
  <2>1. \A i \in 1 .. Len(t2) : i + 1 \in 1 .. Len(td)
    BY <1>6
  <2> QED
    BY <1>1, <1>6, <1>8, <2>1 DEF TodoAt
<1>10. Ledger(k, rs, t2, cb, ss, ps, w)
  BY <1>5, <1>9 DEF Ledger
<1>11. ASSUME NEW r2, td[1].op = "reply", r2 = Append(rs, td[1])
       PROVE  Ledger(k, r2, t2, cb, ss, ps, w)
  <2>1. 1 \in 1 .. Len(td)
    BY <1>6
  <2>2. At(b, k, td[1].call, first)
    BY <1>1, <1>7, <1>11, <2>1 DEF TodoAt
  <2>3. td[1] \in Items
    BY <2>1
  <2>4. /\ Len(r2) = Len(rs) + 1 /\ r2[Len(r2)] = td[1] /\ Len(rs) \in Nat
        /\ \A i \in 1 .. Len(rs) : r2[i] = rs[i]
    BY <1>11, <2>3, Joined
  <2>5. RepliesAt(b, k, r2)
    <3>1. \A i \in 1 .. Len(r2) : i \in 1 .. Len(rs) \/ i = Len(rs) + 1
      BY <2>4
    <3> QED
      BY <1>2, <1>5, <2>2, <2>4, <3>1 DEF RepliesAt
  <2> QED
    BY <1>5, <1>9, <2>5 DEF Ledger
<1> QED
  BY <1>10, <1>11

(* What is left of a handler comes after other tasks: the replies of a     *)
(* close, for which the callbacks no longer wait, or the resumption.       *)
LEMMA AnswersLedger ==
  ASSUME NEW k, NEW rs, NEW rest \in Seq(Items), NEW cb \in Seq(Nat), NEW ss,
         NEW ps, NEW w, Ledger(k, rs, rest, cb, ss, ps, w),
         NEW td, NEW ok, Answers(td, cb, ok, rest)
  PROVE  Ledger(k, rs, td, <<>>, ss, ps, w)
<1>1. PICK at : /\ RepliesAt(at, k, rs) /\ TodoAt(at, k, rest, ss)
                /\ CallbacksAt(at, k, cb) /\ OpeningAt(at, k, ss)
                /\ PromisesAt(at, k, ps) /\ WaitingAt(at, k, w)
  BY DEF Ledger
<1>2. PICK b : b = [n \in 1 .. k |->
                     IF at[n][1] = "callbacks" THEN <<"todo", at[n][2]>>
                     ELSE IF at[n][1] = "todo"
                     THEN <<"todo", Len(cb) + at[n][2]>> ELSE at[n]]
  OBVIOUS
<1>3. \A t : t # "todo" /\ t # "callbacks" => Stay(at, b, k, k, t)
  BY <1>2 DEF Stay
<1>4. /\ RepliesAt(b, k, rs) /\ OpeningAt(b, k, ss)
      /\ PromisesAt(b, k, ps) /\ WaitingAt(b, k, w)
  BY <1>1, <1>3, AllStay
<1>5. ASSUME NEW n, NEW i, At(at, k, n, <<"callbacks", i>>)
      PROVE  At(b, k, n, <<"todo", i>>)
  <2>1. n \in 1 .. k /\ at[n] = <<"callbacks", i>>
    BY <1>5 DEF At
  <2>2. at[n][1] = "callbacks" /\ at[n][2] = i
    BY <2>1
  <2>3. b[n] = <<"todo", i>>
    BY <1>2, <2>1, <2>2
  <2> QED
    BY <2>1, <2>3 DEF At
<1>6. ASSUME NEW n, NEW i, At(at, k, n, <<"todo", i>>)
      PROVE  At(b, k, n, <<"todo", Len(cb) + i>>)
  <2>1. n \in 1 .. k /\ at[n] = <<"todo", i>>
    BY <1>6 DEF At
  <2>2. at[n][1] = "todo" /\ at[n][2] = i
    BY <2>1
  <2>3. b[n] = <<"todo", Len(cb) + i>>
    BY <1>2, <2>1, <2>2
  <2> QED
    BY <2>1, <2>3 DEF At
<1>7. /\ Len(td) = Len(cb) + Len(rest) /\ Len(cb) \in Nat /\ Len(rest) \in Nat
      /\ \A i \in 1 .. Len(cb) : td[i].op = "reply" /\ td[i].call = cb[i]
      /\ \A i \in 1 .. Len(rest) : td[Len(cb) + i] = rest[i]
  <2>1. \A n : Reply(n, ok).op = "reply" /\ Reply(n, ok).call = n
    BY DEF Reply
  <2>2. Len(cb) \in Nat /\ Len(rest) \in Nat
    OBVIOUS
  <2> QED
    BY <2>1, <2>2 DEF Answers
<1>8. ASSUME NEW i \in 1 .. Len(td)
      PROVE  /\ td[i].op = "reply" => At(b, k, td[i].call, <<"todo", i>>)
             /\ td[i].op = "failed"
                  => At(b, k, ss[td[i].call].call, <<"todo", i>>)
  <2>1. CASE i \in 1 .. Len(cb)
    <3>1. At(at, k, cb[i], <<"callbacks", i>>)
      BY <1>1, <2>1 DEF CallbacksAt
    <3> QED
      BY <1>5, <1>7, <2>1, <3>1
  <2>2. CASE i \notin 1 .. Len(cb)
    <3>1. PICK j \in 1 .. Len(rest) : i = Len(cb) + j
      <4>1. i - Len(cb) \in 1 .. Len(rest) /\ i = Len(cb) + (i - Len(cb))
        BY <1>7, <2>2
      <4> QED
        BY <4>1
    <3>2. td[i] = rest[j]
      BY <1>7, <3>1
    <3> QED
      BY <1>1, <1>6, <3>1, <3>2 DEF TodoAt
  <2> QED
    BY <2>1, <2>2
<1>9. TodoAt(b, k, td, ss)
  BY <1>8 DEF TodoAt
<1>10. CallbacksAt(b, k, <<>>)
  BY DEF CallbacksAt
<1> QED
  BY <1>4, <1>9, <1>10 DEF Ledger

LEMMA ResumeLedger ==
  ASSUME NEW k, NEW rs, NEW rest \in Seq(Items), NEW cb, NEW ss, NEW ps, NEW w,
         Ledger(k, rs, rest, cb, ss, ps, w), NEW td, td = ResumeIO \o rest
  PROVE  Ledger(k, rs, td, cb, ss, ps, w)
<1>1. PICK at : /\ RepliesAt(at, k, rs) /\ TodoAt(at, k, rest, ss)
                /\ CallbacksAt(at, k, cb) /\ OpeningAt(at, k, ss)
                /\ PromisesAt(at, k, ps) /\ WaitingAt(at, k, w)
  BY DEF Ledger
<1>2. PICK b : b = [n \in 1 .. k |->
                     IF at[n][1] = "todo" THEN <<"todo", at[n][2] + 1>>
                     ELSE at[n]]
  OBVIOUS
<1>3. \A t : t # "todo" => Stay(at, b, k, k, t)
  BY <1>2 DEF Stay
<1>4. /\ RepliesAt(b, k, rs) /\ CallbacksAt(b, k, cb) /\ OpeningAt(b, k, ss)
      /\ PromisesAt(b, k, ps) /\ WaitingAt(b, k, w)
  BY <1>1, <1>3, AllStay
<1>5. ASSUME NEW n, NEW i, At(at, k, n, <<"todo", i>>)
      PROVE  At(b, k, n, <<"todo", i + 1>>)
  <2>1. n \in 1 .. k /\ at[n] = <<"todo", i>>
    BY <1>5 DEF At
  <2>2. at[n][1] = "todo" /\ at[n][2] = i
    BY <2>1
  <2>3. b[n] = <<"todo", i + 1>>
    BY <1>2, <2>1, <2>2
  <2> QED
    BY <2>1, <2>3 DEF At
<1>6. /\ Len(td) = Len(rest) + 1 /\ td[1] = Resume /\ Len(rest) \in Nat
      /\ \A i \in 1 .. Len(rest) : td[i + 1] = rest[i]
  BY ResumeThen
<1>7. Resume.op = "resume"
  BY DEF Resume
<1>8. ASSUME NEW i \in 1 .. Len(td)
      PROVE  /\ td[i].op = "reply" => At(b, k, td[i].call, <<"todo", i>>)
             /\ td[i].op = "failed"
                  => At(b, k, ss[td[i].call].call, <<"todo", i>>)
  <2>1. CASE i = 1
    BY <1>6, <1>7, <2>1
  <2>2. CASE i # 1
    <3>1. PICK j \in 1 .. Len(rest) : i = j + 1
      <4>1. i - 1 \in 1 .. Len(rest) /\ i = (i - 1) + 1
        BY <1>6, <2>2
      <4> QED
        BY <4>1
    <3>2. td[i] = rest[j]
      BY <1>6, <3>1
    <3> QED
      BY <1>1, <1>5, <3>1, <3>2 DEF TodoAt
  <2> QED
    BY <2>1, <2>2
<1>9. TodoAt(b, k, td, ss)
  BY <1>8 DEF TodoAt
<1> QED
  BY <1>4, <1>9 DEF Ledger

(* The one reply that is left of a handler, before a resumption or not.    *)
OneReply(td, n) ==
  /\ td[1].call = n
  /\ \A i \in 1 .. Len(td) : td[i].op # "failed" /\ (td[i].op = "reply" => i = 1)

LEMMA OneReplyAt ==
  ASSUME NEW at, NEW k, NEW n, At(at, k, n, <<"todo", 1>>),
         NEW td, OneReply(td, n), NEW ss
  PROVE  TodoAt(at, k, td, ss)
<1>1. ASSUME NEW i \in 1 .. Len(td), td[i].op = "reply"
      PROVE  At(at, k, td[i].call, <<"todo", i>>)
  BY <1>1 DEF OneReply
<1> QED
  BY <1>1 DEF TodoAt, OneReply

(* A promise that settles, when no handler runs, leaves a reply.           *)
LEMMA PromiseLedger ==
  ASSUME NEW k, NEW rs, NEW cb, NEW ss, NEW ps, NEW w, NEW old,
         Ledger(k, rs, old, cb, ss, ps, w),
         NEW p \in ps, p.kind \in Owing, NEW td, OneReply(td, p.call)
  PROVE  Ledger(k, rs, td, cb, ss, ps \ {p}, w)
<1>1. PICK at : /\ RepliesAt(at, k, rs) /\ CallbacksAt(at, k, cb)
                /\ OpeningAt(at, k, ss) /\ PromisesAt(at, k, ps)
                /\ WaitingAt(at, k, w)
  BY DEF Ledger
<1>2. p.call \in 1 .. k /\ at[p.call] = <<"promise", p>>
  BY <1>1 DEF PromisesAt, At
<1>3. PICK b : b = [n \in 1 .. k |->
                     IF at[n] = <<"promise", p>> THEN <<"todo", 1>> ELSE at[n]]
  OBVIOUS
<1>4. \A t : t # "promise" => Stay(at, b, k, k, t)
  BY <1>3 DEF Stay
<1>5. /\ RepliesAt(b, k, rs) /\ CallbacksAt(b, k, cb) /\ OpeningAt(b, k, ss)
      /\ WaitingAt(b, k, w)
  BY <1>1, <1>4, AllStay
<1>6. At(b, k, p.call, <<"todo", 1>>)
  BY <1>2, <1>3 DEF At
<1>7. TodoAt(b, k, td, ss)
  BY <1>6, OneReplyAt
<1>8. ASSUME NEW q \in ps \ {p}, q.kind \in Owing
      PROVE  At(b, k, q.call, <<"promise", q>>)
  <2>1. q.call \in 1 .. k /\ at[q.call] = <<"promise", q>>
    BY <1>1, <1>8 DEF PromisesAt, At
  <2>2. <<"promise", q>> # <<"promise", p>>
    OBVIOUS
  <2> QED
    BY <1>3, <2>1, <2>2 DEF At
<1>9. PromisesAt(b, k, ps \ {p})
  BY <1>8 DEF PromisesAt
<1> QED
  BY <1>5, <1>7, <1>9 DEF Ledger

(* An open that ends goes to its reply, or to the close that cancels it.   *)
EndsOpening(ss, tt, s) ==
  /\ Len(tt) = Len(ss) /\ s \in 1 .. Len(ss)
  /\ ss[s].state = "opening" /\ tt[s].state # "opening"
  /\ tt[s].call = ss[s].call
  /\ \A i \in 1 .. Len(ss) : i # s => tt[i] = ss[i]

LEMMA OpenLedger ==
  ASSUME NEW k, NEW rs, NEW old, NEW cb, NEW ss, NEW ps, NEW w,
         Ledger(k, rs, old, cb, ss, ps, w), NEW tt, NEW s, EndsOpening(ss, tt, s)
  PROVE  /\ \A td : OneReply(td, ss[s].call)
              => Ledger(k, rs, td, cb, tt, ps, w)
         /\ \A p : p.call = ss[s].call
              => Ledger(k, rs, <<>>, cb, tt, ps \cup {p}, w)
<1>1. PICK at : /\ RepliesAt(at, k, rs) /\ CallbacksAt(at, k, cb)
                /\ OpeningAt(at, k, ss) /\ PromisesAt(at, k, ps)
                /\ WaitingAt(at, k, w)
  BY DEF Ledger
<1>2. ss[s].call \in 1 .. k /\ at[ss[s].call] = <<"open", s>>
  BY <1>1 DEF OpeningAt, At, EndsOpening
<1>3. ASSUME NEW place
      PROVE  \E b : /\ At(b, k, ss[s].call, place)
                    /\ RepliesAt(b, k, rs) /\ CallbacksAt(b, k, cb)
                    /\ OpeningAt(b, k, tt) /\ PromisesAt(b, k, ps)
                    /\ WaitingAt(b, k, w)
  <2>1. PICK b : b = [n \in 1 .. k |->
                       IF at[n] = <<"open", s>> THEN place ELSE at[n]]
    OBVIOUS
  <2>2. \A t : t # "open" => Stay(at, b, k, k, t)
    BY <2>1 DEF Stay
  <2>3. /\ RepliesAt(b, k, rs) /\ CallbacksAt(b, k, cb) /\ PromisesAt(b, k, ps)
        /\ WaitingAt(b, k, w)
    BY <1>1, <2>2, AllStay
  <2>4. At(b, k, ss[s].call, place)
    BY <1>2, <2>1 DEF At
  <2>5. ASSUME NEW i \in 1 .. Len(tt), tt[i].state = "opening"
        PROVE  At(b, k, tt[i].call, <<"open", i>>)
    <3>1. i # s /\ tt[i] = ss[i] /\ i \in 1 .. Len(ss)
      BY <2>5 DEF EndsOpening
    <3>2. ss[i].call \in 1 .. k /\ at[ss[i].call] = <<"open", i>>
      BY <1>1, <2>5, <3>1 DEF OpeningAt, At
    <3>3. <<"open", i>> # <<"open", s>>
      BY <3>1
    <3> QED
      BY <2>1, <3>1, <3>2, <3>3 DEF At
  <2>6. OpeningAt(b, k, tt)
    BY <2>5 DEF OpeningAt
  <2> QED
    BY <2>3, <2>4, <2>6
<1>4. ASSUME NEW td, OneReply(td, ss[s].call)
      PROVE  Ledger(k, rs, td, cb, tt, ps, w)
  <2>1. PICK b : /\ At(b, k, ss[s].call, <<"todo", 1>>)
                 /\ RepliesAt(b, k, rs) /\ CallbacksAt(b, k, cb)
                 /\ OpeningAt(b, k, tt) /\ PromisesAt(b, k, ps)
                 /\ WaitingAt(b, k, w)
    BY <1>3
  <2>2. TodoAt(b, k, td, tt)
    BY <1>4, <2>1, OneReplyAt
  <2> QED
    BY <2>1, <2>2 DEF Ledger
<1>5. ASSUME NEW p, p.call = ss[s].call
      PROVE  Ledger(k, rs, <<>>, cb, tt, ps \cup {p}, w)
  <2>1. PICK b : /\ At(b, k, ss[s].call, <<"promise", p>>)
                 /\ RepliesAt(b, k, rs) /\ CallbacksAt(b, k, cb)
                 /\ OpeningAt(b, k, tt) /\ PromisesAt(b, k, ps)
                 /\ WaitingAt(b, k, w)
    BY <1>3
  <2>2. TodoAt(b, k, <<>>, tt)
    BY DEF TodoAt
  <2>3. PromisesAt(b, k, ps \cup {p})
    BY <1>5, <2>1 DEF PromisesAt
  <2> QED
    BY <2>1, <2>2, <2>3 DEF Ledger
<1> QED
  BY <1>4, <1>5

(* With a write that waits, the reply to it comes first.                   *)
LEMMA OpenFailsLedger ==
  ASSUME NEW k, NEW rs, NEW old, NEW cb, NEW ss, NEW ps, NEW w,
         Ledger(k, rs, old, cb, ss, ps, w), NEW tt, NEW s,
         EndsOpening(ss, tt, s), w # 0, NEW td,
         Len(td) = 2, td[1].op = "reply", td[1].call = w,
         td[2].op = "failed", td[2].call = s
  PROVE  Ledger(k, rs, td, cb, tt, ps, 0)
<1>1. PICK at : /\ RepliesAt(at, k, rs) /\ CallbacksAt(at, k, cb)
                /\ OpeningAt(at, k, ss) /\ PromisesAt(at, k, ps)
                /\ WaitingAt(at, k, w)
  BY DEF Ledger
<1>2. ss[s].call \in 1 .. k /\ at[ss[s].call] = <<"open", s>>
  BY <1>1 DEF OpeningAt, At, EndsOpening
<1>3. w \in 1 .. k /\ at[w] = <<"waiting", 0>>
  BY <1>1 DEF WaitingAt, At
<1>4. PICK b : b = [n \in 1 .. k |->
                     IF at[n] = <<"open", s>> THEN <<"todo", 2>>
                     ELSE IF at[n] = <<"waiting", 0>> THEN <<"todo", 1>>
                     ELSE at[n]]
  OBVIOUS
<1>5. \A t : t # "open" /\ t # "waiting" => Stay(at, b, k, k, t)
  BY <1>4 DEF Stay
<1>6. RepliesAt(b, k, rs) /\ CallbacksAt(b, k, cb) /\ PromisesAt(b, k, ps)
  BY <1>1, <1>5, AllStay
<1>7. At(b, k, ss[s].call, <<"todo", 2>>) /\ At(b, k, w, <<"todo", 1>>)
  <2>1. <<"waiting", 0>> # <<"open", s>>
    OBVIOUS
  <2> QED
    BY <1>2, <1>3, <1>4, <2>1 DEF At
<1>8. ASSUME NEW i \in 1 .. Len(tt), tt[i].state = "opening"
      PROVE  At(b, k, tt[i].call, <<"open", i>>)
  <2>1. i # s /\ tt[i] = ss[i] /\ i \in 1 .. Len(ss)
    BY <1>8 DEF EndsOpening
  <2>2. ss[i].call \in 1 .. k /\ at[ss[i].call] = <<"open", i>>
    BY <1>1, <1>8, <2>1 DEF OpeningAt, At
  <2>3. <<"open", i>> # <<"open", s>> /\ <<"open", i>> # <<"waiting", 0>>
    BY <2>1
  <2> QED
    BY <1>4, <2>1, <2>2, <2>3 DEF At
<1>9. TodoAt(b, k, td, tt)
  <2>1. \A i \in 1 .. Len(td) : i = 1 \/ i = 2
    OBVIOUS
  <2>2. tt[s].call = ss[s].call
    BY DEF EndsOpening
  <2> QED
    BY <1>7, <2>1, <2>2 DEF TodoAt
<1>10. OpeningAt(b, k, tt) /\ WaitingAt(b, k, 0)
  BY <1>8 DEF OpeningAt, WaitingAt
<1> QED
  BY <1>6, <1>9, <1>10 DEF Ledger

(* Once the write was told, the open is in the place of its failure.       *)
LEMMA ReportLedger ==
  ASSUME NEW k, NEW rs, NEW td \in Seq(Items), NEW cb, NEW ss, NEW ps, NEW w,
         Ledger(k, rs, td, cb, ss, ps, w), td # <<>>, td[1].op = "failed",
         NEW t2, OneReply(t2, ss[td[1].call].call)
  PROVE  Ledger(k, rs, t2, cb, ss, ps, w)
<1>1. PICK at : /\ RepliesAt(at, k, rs) /\ TodoAt(at, k, td, ss)
                /\ CallbacksAt(at, k, cb) /\ OpeningAt(at, k, ss)
                /\ PromisesAt(at, k, ps) /\ WaitingAt(at, k, w)
  BY DEF Ledger
<1>2. At(at, k, ss[td[1].call].call, <<"todo", 1>>)
  <2>1. 1 \in 1 .. Len(td)
    OBVIOUS
  <2> QED
    BY <1>1, <2>1 DEF TodoAt
<1>3. TodoAt(at, k, t2, ss)
  BY <1>2, OneReplyAt
<1> QED
  BY <1>1, <1>3 DEF Ledger

-----------------------------------------------------------------------------
(***************************************************************************)
(* The ledger through the handlers: every call that was accepted, and no   *)
(* other, is entered, and is moved on by the step that takes its callback. *)
(***************************************************************************)
LedgerInv ==
  Ledger(Len(calls), replies, todo, closeCallbacks, sessions, promises, waiting)

LEMMA EditLedger ==
  ASSUME NEW k, NEW rs, NEW td, NEW cb, NEW ss, NEW ps, NEW w, NEW tt,
         Ledger(k, rs, td, cb, ss, ps, w), TasksOf(td, Len(ss)),
         \E s, isOpen, asked : Becomes(ss, tt, s, ss[s].state, isOpen, asked)
  PROVE  Ledger(k, rs, td, cb, tt, ps, w)
<1>1. PICK s, isOpen, asked : Becomes(ss, tt, s, ss[s].state, isOpen, asked)
  OBVIOUS
<1>2. /\ Len(tt) = Len(ss)
      /\ \A i \in 1 .. Len(ss) :
           /\ tt[i].call = ss[i].call
           /\ tt[i].state = "opening" => ss[i].state = "opening"
  BY <1>1 DEF Becomes
<1> QED
  BY <1>2, LedgerKept

LEMMA StartLedger ==
  ASSUME NEW callbacks, NEW awaited, CloseStarts(callbacks, awaited),
         NEW k, NEW rs, NEW td, NEW cb, NEW w, TasksOf(td, Len(sessions)),
         Ledger(k, rs, td, cb, sessions, awaited, w)
  PROVE  Ledger(k, rs, td, cb, sessions', promises', w)
<1>1. Ledger(k, rs, td, cb, sessions, promises', w)
  <2>1. \A q \in promises' : q.kind \in Owing => q \in awaited
    BY StartAdds DEF Owing
  <2> QED
    BY <2>1, LedgerKept
<1>2. CASE UNCHANGED sessions
  BY <1>1, <1>2
<1>3. CASE OpenChanges
  BY <1>1, <1>3, EditLedger DEF OpenChanges
<1> QED
  BY <1>2, <1>3 DEF CloseStarts

LEMMA ReadsLedger ==
  ASSUME StreamTypes, NEW awaited, ReadsOn(awaited),
         NEW k, NEW rs, NEW td, NEW w, TasksOf(td, Len(sessions)),
         Ledger(k, rs, td, closeCallbacks, sessions, awaited, w)
  PROVE  Ledger(k, rs, td, closeCallbacks', sessions', promises', w)
<1>1. CASE promises' = awaited /\ UNCHANGED <<lifeVars, readPort, sessions>>
  BY <1>1 DEF lifeVars
<1>2. CASE /\ Becomes(sessions, sessions', port, sessions[port].state,
                      sessions[port].isOpen, TRUE)
           /\ promises' = awaited /\ UNCHANGED <<lifeVars, readPort>>
  BY <1>2, EditLedger DEF lifeVars
<1>3. CASE CloseStarts(<<>>, awaited)
  <2>1. closeCallbacks' = closeCallbacks
    BY <1>3, ConcatEmptySeq DEF CloseStarts, StreamTypes
  <2> QED
    BY <1>3, <2>1, StartLedger
<1>4. CASE /\ promises' = awaited \cup {ReadPromise}
           /\ UNCHANGED <<lifeVars, sessions>>
  <2>1. \A q \in promises' : q.kind \in Owing => q \in awaited
    BY <1>4 DEF ReadPromise, Promise, Owing
  <2>2. Ledger(k, rs, td, closeCallbacks, sessions, promises', w)
    BY <2>1, LedgerKept
  <2> QED
    BY <1>4, <2>2 DEF lifeVars
<1> QED
  BY <1>1, <1>2, <1>3, <1>4 DEF ReadsOn

LEMMA FinishLedger ==
  ASSUME StreamTypes, NEW ok, NEW rest \in Seq(Items),
         CloseFinishes(ok, rest) \/ CloseRefused(rest) \/ Passes(rest),
         NEW k, NEW rs, NEW ss, NEW ps, NEW w,
         Ledger(k, rs, rest, closeCallbacks, ss, ps, w)
  PROVE  Ledger(k, rs, todo', closeCallbacks', ss, ps, w)
<1>1. closeCallbacks \in Seq(Nat)
  BY DEF StreamTypes
<1>2. CASE CloseFinishes(ok, rest)
  BY <1>1, <1>2, AnswersLedger DEF CloseFinishes
<1>3. CASE CloseRefused(rest)
  <2>1. PICK t : t = ResumeIO \o rest
    OBVIOUS
  <2>2. t \in Seq(Items) /\ Ledger(k, rs, t, closeCallbacks, ss, ps, w)
    BY <2>1, ResumeThen, ResumeLedger
  <2>3. Answers(todo', closeCallbacks, FALSE, t) /\ closeCallbacks' = <<>>
    BY <1>3, <2>1 DEF CloseRefused
  <2> QED
    BY <1>1, <2>2, <2>3, AnswersLedger
<1>4. CASE Passes(rest)
  BY <1>4 DEF Passes
<1> QED
  BY <1>2, <1>3, <1>4

LEMMA WaitingLedger ==
  ASSUME LedgerInv, NEW rs, WaitingAnswered(rs)
  PROVE  Ledger(Len(calls), rs, todo, closeCallbacks, sessions, promises, 0)
<1>1. CASE waiting = 0 /\ rs = replies
  BY <1>1 DEF LedgerInv
<1>2. CASE waiting # 0 /\ Followed(replies, rs, waiting, FALSE)
  BY <1>2, WaitingMoves DEF LedgerInv
<1> QED
  BY <1>1, <1>2 DEF WaitingAnswered

LEMMA OneReplyIs ==
  ASSUME NEW n
  PROVE  /\ OneReply(<<Reply(n, TRUE)>>, n) /\ OneReply(<<Reply(n, FALSE)>>, n)
         /\ \A td : /\ Len(td) = 2
                    /\ td[1] = Reply(n, TRUE) /\ td[2] = Resume
              => OneReply(td, n)
<1>1. /\ Reply(n, TRUE).op = "reply" /\ Reply(n, FALSE).op = "reply"
      /\ Reply(n, TRUE).call = n /\ Reply(n, FALSE).call = n
      /\ Resume.op = "resume"
  BY DEF Reply, Resume
<1>2. ASSUME NEW td, Len(td) = 1,
             td[1] = Reply(n, TRUE) \/ td[1] = Reply(n, FALSE)
      PROVE  OneReply(td, n)
  <2>1. \A i \in 1 .. Len(td) : i = 1
    BY <1>2
  <2> QED
    BY <1>1, <1>2, <2>1 DEF OneReply
<1>3. ASSUME NEW td, Len(td) = 2, td[1] = Reply(n, TRUE), td[2] = Resume
      PROVE  OneReply(td, n)
  <2>1. \A i \in 1 .. Len(td) : i = 1 \/ i = 2
    BY <1>3
  <2> QED
    BY <1>1, <1>3, <2>1 DEF OneReply
<1>4. ASSUME NEW e PROVE Len(<<e>>) = 1 /\ <<e>>[1] = e
  OBVIOUS
<1> QED
  BY <1>2, <1>3, <1>4

LEMMA OpenEnters == ASSUME StreamTypes, LedgerInv, Open PROVE LedgerInv'
<1>1. PICK streams : SessionAdded(sessions, sessions', NextCall, streams)
  BY OpenAdds
<1>2. Len(calls') = Len(calls) + 1 /\ Len(calls) \in Nat
  BY OpenAdds DEF CallIs
<1>3. TasksOf(todo, Len(sessions))
  BY DEF StreamTypes
<1>4. Ledger(Len(calls) + 1, replies, todo, closeCallbacks, sessions', promises,
             waiting)
  BY <1>1, <1>2, <1>3, EnterSession DEF LedgerInv, NextCall
<1> QED
  BY <1>2, <1>4 DEF LedgerInv, Open, writeVars

LEMMA CallbackEnters ==
  ASSUME StreamTypes, NEW k \in Nat, NEW rs, NEW td, NEW ss, NEW ps, NEW w,
         Ledger(k, rs, td, closeCallbacks, ss, ps, w), NEW c2,
         \/ c2 = Append(closeCallbacks, k + 1)
         \/ c2 = closeCallbacks \o <<k + 1>>
  PROVE  Ledger(k + 1, rs, td, c2, ss, ps, w)
<1>1. closeCallbacks \in Seq(Nat) /\ k + 1 \in Nat
  BY DEF StreamTypes
<1>2. c2 = Append(closeCallbacks, k + 1)
  BY <1>1, AppendIsConcat
<1> QED
  BY <1>1, <1>2, EnterCallback

LEMMA CloseEnters == ASSUME StreamTypes, LedgerInv, Close PROVE LedgerInv'
<1>1. /\ Len(calls') = Len(calls) + 1 /\ Len(calls) \in Nat
      /\ NextCall = Len(calls) + 1
  BY CalledIs DEF CallIs, Close, NextCall
<1>2. CloseStarts(<<NextCall>>, promises)
  BY StartCloses DEF Close
<1>3. Ledger(Len(calls) + 1, replies, todo, closeCallbacks', sessions, promises,
             waiting)
  BY <1>1, <1>2, CallbackEnters DEF LedgerInv, CloseStarts
<1>4. Ledger(Len(calls) + 1, replies, todo, closeCallbacks', sessions',
             promises', waiting)
  BY <1>2, <1>3, StartLedger DEF StreamTypes
<1> QED
  BY <1>1, <1>4 DEF LedgerInv, Close, writeVars

LEMMA DestroyEnters == ASSUME StreamTypes, LedgerInv, Destroy PROVE LedgerInv'
<1>1. /\ Len(calls') = Len(calls) + 1 /\ Len(calls) \in Nat
      /\ NextCall = Len(calls) + 1 /\ NextCall \in Nat
  BY DestroyIs DEF CallIs, NextCall
<1>2. PICK rs : rs = replies \o WaitingReply
  OBVIOUS
<1>3. WaitingAnswered(rs)
  BY <1>2, WaitingReplied
<1>4. Ledger(Len(calls), rs, todo, closeCallbacks, sessions, promises, 0)
  BY <1>3, WaitingLedger
<1>5. waiting' = 0 /\ UNCHANGED todo
  BY DEF Destroy, FailWaitingWrite
<1>6. CASE /\ closeCallbacks' = Append(closeCallbacks, NextCall)
           /\ replies' = replies \o WaitingReply
           /\ UNCHANGED <<opening, closing, port, closeError, sessions, promises>>
  <2>1. Ledger(Len(calls) + 1, rs, todo, closeCallbacks', sessions, promises, 0)
    BY <1>1, <1>4, <1>6, CallbackEnters
  <2> QED
    BY <1>1, <1>2, <1>5, <1>6, <2>1 DEF LedgerInv
<1>7. CASE /\ Closable /\ StartClose(<<NextCall>>, FALSE, promises)
           /\ replies' = replies \o WaitingReply
  <2>1. CloseStarts(<<NextCall>>, promises)
    BY <1>7, StartCloses
  <2>2. Ledger(Len(calls) + 1, rs, todo, closeCallbacks', sessions, promises, 0)
    BY <1>1, <1>4, <2>1, CallbackEnters DEF CloseStarts
  <2>3. Ledger(Len(calls) + 1, rs, todo, closeCallbacks', sessions', promises',
               0)
    BY <2>1, <2>2, StartLedger DEF StreamTypes
  <2> QED
    BY <1>1, <1>2, <1>5, <1>7, <2>3 DEF LedgerInv
<1>8. CASE /\ replies' = replies \o WaitingReply \o <<Reply(NextCall, TRUE)>>
           /\ UNCHANGED <<lifeVars, sessions, promises>>
  <2>1. rs \in Seq(Items)
    BY <1>3 DEF WaitingAnswered, Followed, StreamTypes
  <2>2. Followed(rs, replies', NextCall, TRUE)
    BY <1>1, <1>2, <1>8, <2>1, FollowedIs
  <2>3. Ledger(Len(calls) + 1, replies', todo, closeCallbacks, sessions,
               promises, 0)
    BY <1>1, <1>4, <2>2, EnterReply
  <2> QED
    BY <1>1, <1>5, <1>8, <2>3 DEF LedgerInv, lifeVars
<1> QED
  BY <1>6, <1>7, <1>8 DEF Destroy

LEMMA UserLedger ==
  ASSUME StreamTypes, LedgerInv, Write \/ Update \/ Read PROVE LedgerInv'
<1>0. NextCall = Len(calls) + 1 /\ Len(calls) \in Nat
  BY DEF StreamTypes, NextCall
<1>1. CASE Write
  <2>1. Len(calls') = Len(calls) + 1
    BY <1>1, CalledIs DEF Write, CallIs
  <2>2. Promise("write", port, NextCall).call = Len(calls) + 1
    BY <1>0 DEF Promise
  <2>3. /\ Ledger(Len(calls) + 1, replies, todo, closeCallbacks, sessions,
                  promises, Len(calls) + 1)
        /\ Ledger(Len(calls) + 1, replies, todo, closeCallbacks, sessions,
                  promises \cup {Promise("write", port, NextCall)}, waiting)
    BY <1>0, <2>2, EnterWrite DEF LedgerInv
  <2> QED
    BY <1>0, <1>1, <2>1, <2>3 DEF Write, LedgerInv, lifeVars
<1>2. CASE Update
  <2>1. Len(calls') = Len(calls) + 1
    BY <1>2, CalledIs DEF Update, CallIs
  <2>2. Promise("update", port, NextCall).call = Len(calls) + 1
    BY <1>0 DEF Promise
  <2>3. Ledger(Len(calls) + 1, replies, todo, closeCallbacks, sessions,
               promises \cup {Promise("update", port, NextCall)}, waiting)
    BY <1>0, <2>2, EnterWrite DEF LedgerInv
  <2> QED
    BY <1>2, <2>1, <2>3 DEF Update, LedgerInv, lifeVars, writeVars
<1>3. CASE Read
  <2>1. ReadsOn(promises) /\ TasksOf(todo, Len(sessions))
    BY <1>3, ReadMoreDoes DEF Read, StreamTypes
  <2>2. Ledger(Len(calls), replies, todo, closeCallbacks', sessions', promises',
               waiting)
    BY <2>1, ReadsLedger DEF LedgerInv
  <2> QED
    BY <1>3, <2>2 DEF Read, LedgerInv, writeVars, historyVars
<1> QED
  BY <1>1, <1>2, <1>3

LEMMA HandlerLedger ==
  ASSUME StreamTypes, LedgerInv, CallBack \/ ReportFailure \/ ResumeSteps
  PROVE  LedgerInv'
<1>0. todo \in Seq(Items) /\ replies \in Seq(Items)
  BY DEF StreamTypes, TasksOf
<1>1. CASE CallBack
  <2>1. /\ todo # <<>> /\ todo' = Tail(todo) /\ todo[1].op = "reply"
        /\ replies' = Append(replies, todo[1])
    BY <1>1, HeadIs DEF CallBack
  <2>2. Ledger(Len(calls), replies', todo', closeCallbacks, sessions, promises,
               waiting)
    BY <1>0, <2>1, TaskDone DEF LedgerInv
  <2> QED
    BY <1>1, <2>2 DEF CallBack, LedgerInv, lifeVars, writeVars
<1>2. CASE ReportFailure
  <2>1. PICK s : s = todo[1].call
    OBVIOUS
  <2>2. /\ todo # <<>> /\ todo[1].op = "failed" /\ AfterFailure(s)
        /\ s \in 1 .. Len(sessions)
    BY <1>2, <2>1, HeadIs DEF ReportFailure
  <2>3. /\ Report(s) \in Seq(Items) /\ OneReply(Report(s), sessions[s].call)
        /\ \E ok : CloseFinishes(ok, Report(s)) \/ Passes(Report(s))
    BY <2>2, FailureReports, OneReplyIs DEF Report, TasksOf
  <2>4. Ledger(Len(calls), replies, Report(s), closeCallbacks, sessions,
               promises, waiting)
    BY <1>0, <2>1, <2>2, <2>3, ReportLedger DEF LedgerInv
  <2>5. Ledger(Len(calls), replies, todo', closeCallbacks', sessions, promises,
               waiting)
    BY <2>3, <2>4, FinishLedger
  <2> QED
    BY <1>2, <2>5 DEF ReportFailure, LedgerInv, writeVars
<1>3. CASE ResumeSteps
  <2>1. todo # <<>> /\ todo' = Tail(todo) /\ TasksOf(todo', Len(sessions))
    BY <1>3, Resumes, HeadIs
  <2>2. Ledger(Len(calls), replies, todo', closeCallbacks, sessions, promises,
               waiting)
    BY <1>0, <2>1, TaskDone DEF LedgerInv
  <2>3. Ledger(Len(calls), replies, todo', closeCallbacks, sessions,
               WriteResumed, waiting')
    <3>1. CASE Active /\ waiting # 0
      <4>1. Promise("write", port, waiting).call = waiting
        BY DEF Promise
      <4>2. /\ WriteResumed = promises \cup {Promise("write", port, waiting)}
            /\ waiting' = 0
        BY <1>3, <3>1, Resumes DEF WriteResumed
      <4> QED
        BY <2>2, <3>1, <4>1, <4>2, WaitingMoves
    <3>2. CASE ~(Active /\ waiting # 0)
      <4>1. WriteResumed = promises /\ waiting' = waiting
        BY <1>3, <3>2, Resumes DEF WriteResumed
      <4> QED
        BY <2>2, <4>1
    <3> QED
      BY <3>1, <3>2
  <2>4. Ledger(Len(calls), replies, todo', closeCallbacks', sessions', promises',
               waiting')
    <3>1. CASE ReadsOn(WriteResumed)
      BY <2>1, <2>3, <3>1, ReadsLedger
    <3>2. CASE /\ promises' = WriteResumed
               /\ UNCHANGED <<lifeVars, readRequested, readPort, sessions>>
      BY <2>3, <3>2 DEF lifeVars
    <3> QED
      BY <1>3, <3>1, <3>2, Resumes
  <2> QED
    BY <1>3, <2>4, Resumes DEF LedgerInv, historyVars
<1> QED
  BY <1>1, <1>2, <1>3

LEMMA OpenSettlesLedger ==
  ASSUME StreamTypes, LedgerInv, NEW s \in 1 .. Len(sessions),
         OpenResolved(s) \/ OpenRejected(s)
  PROVE  LedgerInv'
<1>0. sessions[s].state = "opening" /\ sessions[s].call \in Nat /\ s \in Nat
  <2>1. sessions[s].call \in Nat
    <3>1. sessions[s] \in SessionSet
      BY DEF StreamTypes
    <3> QED
      BY <3>1 DEF SessionSet
  <2>2. sessions[s].state = "opening"
    BY Zenon DEF OpenResolved, OpenRejected
  <2> QED
    BY <2>1, <2>2
<1>1. CASE OpenResolved(s) /\ OpenSucceeds(s)
  <2>1. EndsOpening(sessions, sessions', s)
    BY <1>0, <1>1 DEF OpenSucceeds, Becomes, EndsOpening
  <2>2. OneReply(todo', sessions[s].call)
    BY <1>0, <1>1, OpenLeaves, OneReplyIs DEF OpenSucceeds
  <2>3. Ledger(Len(calls), replies, todo', closeCallbacks, sessions', promises,
               waiting)
    BY <2>1, <2>2, OpenLedger DEF LedgerInv
  <2>4. UNCHANGED <<calls, closeCallbacks, replies, promises, waiting>>
    BY <1>1 DEF OpenResolved, OpenSucceeds, writeVars
  <2> QED
    BY <2>3, <2>4 DEF LedgerInv
<1>2. CASE OpenResolved(s) /\ OpenIsCanceled(s)
  <2>1. EndsOpening(sessions, sessions', s)
    BY <1>0, <1>2 DEF OpenIsCanceled, Becomes, EndsOpening
  <2>2. Ledger(Len(calls), replies', todo, closeCallbacks, sessions, promises, 0)
    BY <1>2, WaitingLedger DEF OpenIsCanceled
  <2>3. PICK p : p = Promise("cancelClose", s, sessions[s].call)
    OBVIOUS
  <2>4. p.call = sessions[s].call
    BY <2>3 DEF Promise
  <2>5. Ledger(Len(calls), replies', <<>>, closeCallbacks, sessions',
               promises \cup {p}, 0)
    BY <2>1, <2>2, <2>4, OpenLedger
  <2>6. /\ UNCHANGED <<calls, closeCallbacks>> /\ waiting' = 0 /\ todo' = <<>>
        /\ promises' = promises \cup {p}
    BY <1>2, <2>3 DEF OpenResolved, OpenIsCanceled
  <2> QED
    BY <2>5, <2>6 DEF LedgerInv
<1>3. CASE OpenRejected(s)
  <2>1. Becomes(sessions, sessions', s, "failed", sessions[s].isOpen,
                sessions[s].asked)
    BY <1>3, SessionEdits DEF OpenRejected, StreamTypes
  <2>2. EndsOpening(sessions, sessions', s)
    BY <1>0, <2>1 DEF Becomes, EndsOpening
  <2>3. UNCHANGED <<calls, replies, promises>> /\ waiting' = 0
    BY <1>3 DEF OpenRejected, FailWaitingWrite
  <2>4. CASE waiting = 0 /\ AfterFailure(s)
    <3>1. /\ Report(s) \in Seq(Items) /\ OneReply(Report(s), sessions[s].call)
          /\ \E ok : CloseFinishes(ok, Report(s)) \/ Passes(Report(s))
      BY <2>4, FailureReports, OneReplyIs DEF Report, TasksOf
    <3>2. Ledger(Len(calls), replies, Report(s), closeCallbacks, sessions',
                 promises, waiting)
      BY <2>2, <3>1, OpenLedger DEF LedgerInv
    <3>3. Ledger(Len(calls), replies, todo', closeCallbacks', sessions',
                 promises, waiting)
      BY <3>1, <3>2, FinishLedger
    <3> QED
      BY <2>3, <2>4, <3>3 DEF LedgerInv
  <2>5. CASE /\ waiting # 0 /\ todo' = WaitingReply \o <<Failed(s)>>
             /\ UNCHANGED <<closing, port, closeError, closeCallbacks, readPort,
                            readRequested, closes>>
    <3>1. /\ Len(todo') = 2
          /\ todo'[1] = Reply(waiting, FALSE) /\ todo'[2] = Failed(s)
      BY <1>0, <2>5, FailureLeft
    <3>2. /\ todo'[1].op = "reply" /\ todo'[1].call = waiting
          /\ todo'[2].op = "failed" /\ todo'[2].call = s
      BY <3>1 DEF Reply, Failed
    <3>3. PICK td : td = todo'
      OBVIOUS
    <3>4. Ledger(Len(calls), replies, td, closeCallbacks, sessions', promises, 0)
      BY <2>2, <2>5, <3>1, <3>2, <3>3, OpenFailsLedger DEF LedgerInv
    <3> QED
      BY <2>3, <2>5, <3>3, <3>4 DEF LedgerInv
  <2> QED
    BY <1>3, <2>4, <2>5 DEF OpenRejected
<1> QED
  BY <1>1, <1>2, <1>3, OpenResolves

LEMMA HookLedger ==
  ASSUME StreamTypes, LedgerInv, NEW s \in 1 .. Len(sessions),
         OnClose(s) \/ Data(s)
  PROVE  LedgerInv'
<1>0. TasksOf(todo, Len(sessions)) /\ <<>> \in Seq(Items)
  BY DEF StreamTypes
<1>1. CASE OnClose(s)
  <2>1. UNCHANGED <<writeVars, calls, replies>> /\ todo = <<>>
    BY <1>1, OnCloseDoes
  <2>2. CASE CloseStarts(<<>>, promises) /\ UNCHANGED todo
    <3>1. closeCallbacks' = closeCallbacks
      BY <2>2, ConcatEmptySeq DEF CloseStarts, StreamTypes
    <3>2. Ledger(Len(calls), replies, todo, closeCallbacks, sessions', promises',
                 waiting)
      BY <1>0, <2>2, StartLedger DEF LedgerInv
    <3> QED
      BY <2>1, <2>2, <3>1, <3>2 DEF LedgerInv, writeVars
  <2>3. CASE /\ SessionCloses(s) /\ CloseFinishes(~closeError, <<>>)
             /\ UNCHANGED <<opening, promises>>
    <3>1. Ledger(Len(calls), replies, todo, closeCallbacks, sessions', promises,
                 waiting)
      BY <1>0, <2>3, EditLedger DEF LedgerInv, SessionCloses
    <3>2. Ledger(Len(calls), replies, todo', closeCallbacks', sessions',
                 promises, waiting)
      BY <1>0, <2>1, <2>3, <3>1, FinishLedger
    <3> QED
      BY <2>1, <2>3, <3>2 DEF LedgerInv, writeVars
  <2> QED
    BY <1>1, <2>2, <2>3, OnCloseDoes
<1>2. CASE Data(s)
  <2>1. Ledger(Len(calls), replies, todo, closeCallbacks, sessions', promises,
               waiting)
    BY <1>0, <1>2, DataTypes, EditLedger DEF LedgerInv
  <2> QED
    BY <1>2, <2>1 DEF Data, LedgerInv, lifeVars, writeVars, historyVars
<1> QED
  BY <1>1, <1>2

(* The close of a cancelled open also owes the callback of that open.      *)
LEMMA RestLedger ==
  ASSUME StreamTypes, LedgerInv, NEW p \in promises,
         p.kind \in {"close", "cancelClose"}
  PROVE  Ledger(Len(calls), replies, Rest(p), closeCallbacks, sessions,
                promises \ {p}, waiting)
<1>1. CASE p.kind = "cancelClose"
  <2>1. OneReply(Rest(p), p.call) /\ p.kind \in Owing
    BY <1>1, OneReplyIs DEF Rest, Owing
  <2> QED
    BY <2>1, PromiseLedger DEF LedgerInv
<1>2. CASE p.kind = "close"
  <2>1. Rest(p) = <<>>
    BY <1>2 DEF Rest
  <2> QED
    BY <2>1, LedgerKept DEF LedgerInv
<1> QED
  BY <1>1, <1>2

LEMMA CloseSettlesLedger ==
  ASSUME StreamTypes, LedgerInv, NEW p \in promises,
         CloseResolved(p) \/ CloseRejected(p)
  PROVE  LedgerInv'
<1>1. /\ p.kind \in {"close", "cancelClose"} /\ promises' = promises \ {p}
      /\ UNCHANGED <<writeVars, calls, replies>>
  BY CloseResolves, CloseRejects
<1>2. Rest(p) \in Seq(Items) /\ TasksOf(Rest(p), Len(sessions))
  BY RestOf
<1>3. UNCHANGED sessions \/ SessionCloses(p.session)
  BY CloseResolves, CloseRejects
<1>4. \E ok : CloseFinishes(ok, Rest(p)) \/ CloseRefused(Rest(p))
              \/ Passes(Rest(p))
  BY CloseResolves, CloseRejects
<1>5. Ledger(Len(calls), replies, Rest(p), closeCallbacks, sessions, promises',
             waiting)
  BY <1>1, RestLedger
<1>6. Ledger(Len(calls), replies, Rest(p), closeCallbacks, sessions', promises',
             waiting)
  <2>1. CASE UNCHANGED sessions
    BY <1>5, <2>1
  <2>2. CASE SessionCloses(p.session)
    BY <1>2, <1>5, <2>2, EditLedger DEF SessionCloses
  <2> QED
    BY <1>3, <2>1, <2>2
<1>7. Ledger(Len(calls), replies, todo', closeCallbacks', sessions', promises',
             waiting)
  BY <1>2, <1>4, <1>6, FinishLedger
<1> QED
  BY <1>1, <1>7 DEF LedgerInv, writeVars

LEMMA SettleLedger ==
  ASSUME StreamTypes, LedgerInv, NEW p \in promises,
         \/ WriteResolved(p) \/ WriteRejected(p)
         \/ OperationResolved(p) \/ OperationRejected(p)
         \/ ReadResolved(p) \/ ReadRejected(p)
  PROVE  LedgerInv'
<1>0. /\ TasksOf(<<Reply(p.call, TRUE)>>, Len(sessions))
      /\ TasksOf(<<Reply(p.call, FALSE)>>, Len(sessions))
  BY RestOf, ShortTasks
<1>1. CASE WriteResolved(p) \/ WriteRejected(p)
  <2>1. /\ p.kind \in Owing
        /\ OneReply(todo', p.call) /\ TasksOf(todo', Len(sessions))
        /\ UNCHANGED <<waiting, calls, replies>>
    BY <1>0, <1>1, WriteSettlesAs, OneReplyIs DEF Owing, historyVars
  <2>2. Ledger(Len(calls), replies, todo', closeCallbacks, sessions,
               promises \ {p}, waiting)
    BY <2>1, PromiseLedger DEF LedgerInv
  <2>3. CASE promises' = promises \ {p} /\ UNCHANGED <<lifeVars, sessions>>
    BY <2>1, <2>2, <2>3 DEF LedgerInv, lifeVars
  <2>4. CASE CloseStarts(<<>>, promises \ {p})
    <3>1. closeCallbacks' = closeCallbacks
      BY <2>4, ConcatEmptySeq DEF CloseStarts, StreamTypes
    <3>2. Ledger(Len(calls), replies, todo', closeCallbacks, sessions',
                 promises', waiting)
      BY <2>1, <2>2, <2>4, StartLedger
    <3> QED
      BY <2>1, <3>1, <3>2 DEF LedgerInv
  <2> QED
    BY <1>1, <2>3, <2>4, WriteSettlesAs
<1>2. CASE OperationResolved(p) \/ OperationRejected(p)
  <2>1. /\ p.kind \in Owing /\ OneReply(todo', p.call)
        /\ promises' = promises \ {p}
        /\ UNCHANGED <<lifeVars, writeVars, sessions, historyVars>>
    BY <1>2, OneReplyIs DEF OperationResolved, OperationRejected, Owing
  <2>2. Ledger(Len(calls), replies, todo', closeCallbacks, sessions,
               promises \ {p}, waiting)
    BY <2>1, PromiseLedger DEF LedgerInv
  <2> QED
    BY <2>1, <2>2 DEF LedgerInv, lifeVars, writeVars, historyVars
<1>3. CASE ReadResolved(p) \/ ReadRejected(p)
  <2>1. UNCHANGED <<todo, writeVars, historyVars>> /\ TasksOf(todo, Len(sessions))
    BY <1>3, ReadSettlesAs DEF StreamTypes
  <2>2. Ledger(Len(calls), replies, todo, closeCallbacks, sessions,
               promises \ {p}, waiting)
    BY LedgerKept DEF LedgerInv
  <2>3. CASE promises' = promises \ {p} /\ UNCHANGED <<lifeVars, sessions>>
    BY <2>1, <2>2, <2>3 DEF LedgerInv, lifeVars, writeVars, historyVars
  <2>4. CASE CloseStarts(<<>>, promises \ {p})
    <3>1. closeCallbacks' = closeCallbacks
      BY <2>4, ConcatEmptySeq DEF CloseStarts, StreamTypes
    <3>2. Ledger(Len(calls), replies, todo, closeCallbacks, sessions',
                 promises', waiting)
      BY <2>1, <2>2, <2>4, StartLedger
    <3> QED
      BY <2>1, <3>1, <3>2 DEF LedgerInv, writeVars, historyVars
  <2>5. CASE ReadsOn(promises \ {p})
    <3>1. Ledger(Len(calls), replies, todo, closeCallbacks', sessions',
                 promises', waiting)
      BY <2>1, <2>2, <2>5, ReadsLedger
    <3> QED
      BY <2>1, <3>1 DEF LedgerInv, writeVars, historyVars
  <2> QED
    BY <1>3, <2>3, <2>4, <2>5, ReadSettlesAs DEF ReadEnds
<1> QED
  BY <1>1, <1>2, <1>3

LEMMA NextLedger == StreamTypes /\ LedgerInv /\ [Next]_vars => LedgerInv'
<1> SUFFICES ASSUME StreamTypes, LedgerInv, [Next]_vars PROVE LedgerInv'
  OBVIOUS
<1>1. CASE UNCHANGED vars
  BY <1>1 DEF vars, LedgerInv, lifeVars, writeVars, historyVars
<1>2. CASE Open \/ Close \/ Destroy \/ Write \/ Update \/ Read
  BY <1>2, OpenEnters, CloseEnters, DestroyEnters, UserLedger
<1>3. CASE CallBack \/ ReportFailure \/ ResumeSteps
  BY <1>3, HandlerLedger
<1>4. ASSUME NEW s \in 1 .. Len(sessions),
             OpenResolved(s) \/ OpenRejected(s) \/ OnClose(s) \/ Data(s)
      PROVE  LedgerInv'
  BY <1>4, OpenSettlesLedger, HookLedger
<1>5. ASSUME NEW p \in promises,
             \/ CloseResolved(p) \/ CloseRejected(p)
             \/ WriteResolved(p) \/ WriteRejected(p)
             \/ OperationResolved(p) \/ OperationRejected(p)
             \/ ReadResolved(p) \/ ReadRejected(p)
      PROVE  LedgerInv'
  BY <1>5, CloseSettlesLedger, SettleLedger
<1> QED
  BY <1>1, <1>2, <1>3, <1>4, <1>5, Steps

LEMMA InitLedger == Init => LedgerInv
<1> SUFFICES ASSUME Init PROVE LedgerInv
  OBVIOUS
<1>1. \A at, k : /\ RepliesAt(at, k, <<>>) /\ TodoAt(at, k, <<>>, <<>>)
                 /\ CallbacksAt(at, k, <<>>) /\ OpeningAt(at, k, <<>>)
                 /\ PromisesAt(at, k, {}) /\ WaitingAt(at, k, 0)
  BY DEF RepliesAt, TodoAt, CallbacksAt, OpeningAt, PromisesAt, WaitingAt
<1>2. /\ replies = <<>> /\ todo = <<>> /\ closeCallbacks = <<>>
      /\ sessions = <<>> /\ promises = {} /\ waiting = 0
  BY DEF Init
<1>3. \E at : TRUE
  OBVIOUS
<1> QED
  BY <1>1, <1>2, <1>3 DEF LedgerInv, Ledger

(* No call is in two places of the ledger, so none of its callbacks, of a  *)
(* close that is destroyed meanwhile, of an open that is cancelled or of a *)
(* write that waits when an open fails, is called twice.                   *)
THEOREM StreamRepliesOnce == Spec => []RepliedOnce
<1>1. Init => StreamTypes /\ LedgerInv
  BY InitTypes, InitLedger
<1>2. StreamTypes /\ LedgerInv /\ [Next]_vars => (StreamTypes /\ LedgerInv)'
  BY NextTypes, NextLedger
<1>3. StreamTypes /\ LedgerInv => RepliedOnce
  <2> SUFFICES ASSUME StreamTypes, LedgerInv,
                      NEW i \in DOMAIN replies, NEW j \in DOMAIN replies,
                      replies[i].call = replies[j].call
               PROVE  i = j
    BY DEF RepliedOnce
  <2>1. PICK at : RepliesAt(at, Len(calls), replies)
    BY DEF LedgerInv, Ledger
  <2>2. i \in 1 .. Len(replies) /\ j \in 1 .. Len(replies)
    BY DEF StreamTypes
  <2>3. /\ at[replies[i].call] = <<"replies", i>>
        /\ at[replies[j].call] = <<"replies", j>>
    BY <2>1, <2>2 DEF RepliesAt, At
  <2>4. <<"replies", i>> = <<"replies", j>>
    BY <2>3
  <2> QED
    BY <2>4
<1> QED
  BY <1>1, <1>2, <1>3, PTL DEF Spec

-----------------------------------------------------------------------------
(***************************************************************************)
(* Closes that are honoured: a session that has ended never opens again,   *)
(* and a close or a destroy succeeds when every session has ended.         *)
(***************************************************************************)
Ended(e) == e.state # "opening" /\ ~e.isOpen

SessionsOn(ss, tt) ==
  \A k \in 1 .. Len(ss) :
    /\ k \in 1 .. Len(tt) /\ tt[k].call = ss[k].call
    /\ Ended(ss[k]) => Ended(tt[k])

CallsOn(cs, ds) ==
  /\ Len(cs) \in Nat
  /\ \A n \in 1 .. Len(cs) : n \in 1 .. Len(ds) /\ ds[n] = cs[n]

LEMMA BecomesOn ==
  ASSUME NEW s, NEW state, NEW isOpen, NEW asked,
         Becomes(sessions, sessions', s, state, isOpen, asked),
         Ended(sessions[s]) => state # "opening" /\ ~isOpen
  PROVE  SessionsOn(sessions, sessions')
<1>1. ASSUME NEW k \in 1 .. Len(sessions)
      PROVE  /\ k \in 1 .. Len(sessions') /\ sessions'[k].call = sessions[k].call
             /\ Ended(sessions[k]) => Ended(sessions'[k])
  <2>1. CASE k = s
    BY <2>1 DEF Becomes, Ended
  <2>2. CASE k # s
    BY <2>2 DEF Becomes
  <2> QED
    BY <2>1, <2>2
<1> QED
  BY <1>1 DEF SessionsOn

LEMMA SameOn ==
  ASSUME UNCHANGED sessions PROVE SessionsOn(sessions, sessions')
BY DEF SessionsOn

LEMMA StartOn ==
  ASSUME NEW callbacks, NEW awaited, CloseStarts(callbacks, awaited)
  PROVE  SessionsOn(sessions, sessions')
<1>1. CASE UNCHANGED sessions
  BY <1>1, SameOn
<1>2. CASE sessions[port].isOpen /\ OpenChanges
  <2>1. ~Ended(sessions[port])
    BY <1>2 DEF Ended
  <2> QED
    BY <1>2, <2>1, BecomesOn DEF OpenChanges
<1> QED
  BY <1>1, <1>2 DEF CloseStarts

LEMMA ReadsOnOn ==
  ASSUME NEW awaited, ReadsOn(awaited) PROVE SessionsOn(sessions, sessions')
<1>1. CASE UNCHANGED sessions
  BY <1>1, SameOn
<1>2. CASE CloseStarts(<<>>, awaited)
  BY <1>2, StartOn
<1>3. CASE /\ IsOpen
           /\ Becomes(sessions, sessions', port, sessions[port].state,
                      sessions[port].isOpen, TRUE)
  <2>1. ~Ended(sessions[port])
    BY <1>3 DEF Ended, IsOpen
  <2> QED
    BY <1>3, <2>1, BecomesOn
<1> QED
  BY <1>1, <1>2, <1>3 DEF ReadsOn

LEMMA ClosesOn ==
  ASSUME NEW s, SessionCloses(s) PROVE SessionsOn(sessions, sessions')
<1>1. Ended(sessions[s]) => sessions[s].state # "opening"
  BY DEF Ended
<1> QED
  BY <1>1, BecomesOn DEF SessionCloses

(* Whatever the step, each session that has ended stays as it is.          *)
LEMMA NextOn ==
  ASSUME StreamTypes, [Next]_vars PROVE SessionsOn(sessions, sessions')
<1>1. CASE Open
  <2>1. PICK streams : SessionAdded(sessions, sessions', NextCall, streams)
    BY <1>1, OpenAdds
  <2>2. /\ Len(sessions') = Len(sessions) + 1 /\ Len(sessions) \in Nat
        /\ \A k \in 1 .. Len(sessions) : sessions'[k] = sessions[k]
    BY <2>1 DEF SessionAdded
  <2> QED
    BY <2>2 DEF SessionsOn
<1>2. CASE Close
  BY <1>2, StartCloses, StartOn DEF Close
<1>3. CASE Destroy
  BY <1>3, DestroyIs, StartOn, SameOn DEF DestroyDoes
<1>4. CASE Write \/ Update \/ CallBack \/ ReportFailure
  BY <1>4, SameOn DEF Write, Update, CallBack, ReportFailure
<1>5. CASE Read
  BY <1>5, ReadMoreDoes, ReadsOnOn DEF Read
<1>6. CASE ResumeSteps
  BY <1>6, Resumes, ReadsOnOn, SameOn
<1>7. ASSUME NEW s \in 1 .. Len(sessions),
             OpenResolved(s) \/ OpenRejected(s) \/ OnClose(s) \/ Data(s)
      PROVE  SessionsOn(sessions, sessions')
  <2>1. CASE OpenResolved(s) \/ OpenRejected(s)
    <3>1. ~Ended(sessions[s])
      BY <2>1 DEF OpenResolved, OpenRejected, Ended
    <3>2. \E state, isOpen, asked :
            Becomes(sessions, sessions', s, state, isOpen, asked)
      <4>1. CASE OpenResolved(s)
        BY <4>1, OpenResolves DEF OpenSucceeds, OpenIsCanceled
      <4>2. CASE OpenRejected(s)
        BY <4>2, SessionEdits DEF OpenRejected, StreamTypes
      <4> QED
        BY <2>1, <4>1, <4>2
    <3> QED
      BY <3>1, <3>2, BecomesOn
  <2>2. CASE OnClose(s)
    BY <2>2, OnCloseDoes, StartOn, ClosesOn
  <2>3. CASE Data(s)
    <3>1. ~Ended(sessions[s])
      BY <2>3 DEF Data, Ended
    <3> QED
      BY <2>3, <3>1, DataTypes, BecomesOn
  <2> QED
    BY <1>7, <2>1, <2>2, <2>3
<1>8. ASSUME NEW p \in promises,
             \/ CloseResolved(p) \/ CloseRejected(p)
             \/ WriteResolved(p) \/ WriteRejected(p)
             \/ OperationResolved(p) \/ OperationRejected(p)
             \/ ReadResolved(p) \/ ReadRejected(p)
      PROVE  SessionsOn(sessions, sessions')
  <2>1. CASE CloseResolved(p) \/ CloseRejected(p)
    BY <2>1, CloseResolves, CloseRejects, ClosesOn, SameOn
  <2>2. CASE WriteResolved(p) \/ WriteRejected(p)
    BY <2>2, WriteSettlesAs, StartOn, SameOn
  <2>3. CASE OperationResolved(p) \/ OperationRejected(p)
    BY <2>3, SameOn DEF OperationResolved, OperationRejected
  <2>4. CASE ReadResolved(p) \/ ReadRejected(p)
    BY <2>4, ReadSettlesAs, StartOn, ReadsOnOn, SameOn DEF ReadEnds
  <2> QED
    BY <1>8, <2>1, <2>2, <2>3, <2>4
<1>9. CASE UNCHANGED vars
  BY <1>9, SameOn DEF vars
<1> QED
  BY <1>1, <1>2, <1>3, <1>4, <1>5, <1>6, <1>7, <1>8, <1>9, Steps

(* The calls that were made, each with the session it is about.            *)
SessionsOf(cs, n) == \A i \in 1 .. Len(cs) : cs[i].session \in 0 .. n

LEMMA NextCalls ==
  ASSUME StreamTypes, SessionsOf(calls, Len(sessions)), [Next]_vars
  PROVE  CallsOn(calls, calls') /\ SessionsOf(calls', Len(sessions'))
<1>0. /\ Len(calls) \in Nat /\ Len(sessions) \in Nat
      /\ port \in 0 .. Len(sessions) /\ NextCall = Len(calls) + 1
  BY DEF StreamTypes, NextCall
<1>1. UNCHANGED calls \/ \E kind : CallIs(kind)
  <2>1. CASE Open \/ Close \/ Write \/ Update
    BY <2>1, CalledIs DEF Open, Close, Write, Update
  <2>2. CASE Destroy
    BY <2>2, DestroyIs
  <2>3. CASE Read \/ CallBack \/ ReportFailure
    BY <2>3 DEF Read, CallBack, ReportFailure, historyVars
  <2>4. CASE ResumeSteps
    BY <2>4, Resumes DEF historyVars
  <2>5. ASSUME NEW s \in 1 .. Len(sessions),
               OpenResolved(s) \/ OpenRejected(s) \/ OnClose(s) \/ Data(s)
        PROVE  UNCHANGED calls
    BY <2>5 DEF OpenResolved, OpenRejected, OnClose, Data, historyVars
  <2>6. ASSUME NEW p \in promises,
               \/ CloseResolved(p) \/ CloseRejected(p)
               \/ WriteResolved(p) \/ WriteRejected(p)
               \/ OperationResolved(p) \/ OperationRejected(p)
               \/ ReadResolved(p) \/ ReadRejected(p)
        PROVE  UNCHANGED calls
    BY <2>6
    DEF CloseResolved, CloseRejected, WriteResolved, WriteRejected,
        OperationResolved, OperationRejected, ReadResolved, ReadRejected,
        historyVars
  <2>7. CASE UNCHANGED vars
    BY <2>7 DEF vars, historyVars
  <2> QED
    BY <2>1, <2>2, <2>3, <2>4, <2>5, <2>6, <2>7, Steps
<1>2. Len(sessions') \in Nat /\ Len(sessions) <= Len(sessions')
  <2>1. Len(sessions') \in Nat
    BY NextTypes DEF StreamTypes
  <2>2. CASE Len(sessions) = 0
    BY <1>0, <2>1, <2>2
  <2>3. CASE Len(sessions) # 0
    <3>1. Len(sessions) \in 1 .. Len(sessions)
      BY <1>0, <2>3
    <3> QED
      BY <2>1, <3>1, NextOn DEF SessionsOn
  <2> QED
    BY <2>2, <2>3
<1>3. CASE UNCHANGED calls
  BY <1>0, <1>2, <1>3 DEF CallsOn, SessionsOf
<1>4. ASSUME NEW kind, CallIs(kind)
      PROVE  CallsOn(calls, calls') /\ SessionsOf(calls', Len(sessions'))
  <2>1. \A i \in 1 .. Len(calls') : i \in 1 .. Len(calls) \/ i = NextCall
    BY <1>0, <1>4 DEF CallIs
  <2>2. calls'[NextCall].session \in 0 .. Len(sessions')
    BY <1>0, <1>2, <1>4 DEF CallIs
  <2>3. SessionsOf(calls', Len(sessions'))
    BY <1>0, <1>2, <1>4, <2>1, <2>2 DEF CallIs, SessionsOf
  <2> QED
    BY <1>0, <1>4, <2>3 DEF CallIs, CallsOn
<1> QED
  BY <1>1, <1>3, <1>4

(* The calls that are neither a close nor a destroy, by what answers them. *)
Plain(cs, n) == n \in 1 .. Len(cs) /\ cs[n].kind \in {"open", "write", "update"}

OpensPlain(cs, ss) == \A s \in 1 .. Len(ss) : Plain(cs, ss[s].call)

WritesPlain(cs, ps, w) ==
  /\ \A p \in ps : p.kind \in {"write", "update"} => Plain(cs, p.call)
  /\ w # 0 => Plain(cs, w)

PlainCalls == OpensPlain(calls, sessions) /\ WritesPlain(calls, promises, waiting)

LEMMA PlainOn ==
  ASSUME NEW cs, NEW ds, CallsOn(cs, ds)
  PROVE  /\ \A n : Plain(cs, n) => Plain(ds, n)
         /\ \A ss : OpensPlain(cs, ss) => OpensPlain(ds, ss)
         /\ \A ps, w : WritesPlain(cs, ps, w) => WritesPlain(ds, ps, w)
<1>1. \A n : Plain(cs, n) => Plain(ds, n)
  BY DEF Plain, CallsOn
<1> QED
  BY <1>1 DEF OpensPlain, WritesPlain

LEMMA CallIsPlain ==
  ASSUME NEW kind \in {"open", "write", "update"}, CallIs(kind)
  PROVE  Plain(calls', NextCall)
BY DEF CallIs, Plain, NextCall

LEMMA OpensKept ==
  ASSUME StreamTypes, OpensPlain(calls, sessions), [Next]_vars,
         CallsOn(calls, calls')
  PROVE  OpensPlain(calls', sessions')
<1>1. OpensPlain(calls', sessions)
  BY PlainOn
<1>2. ASSUME SameLength PROVE OpensPlain(calls', sessions')
  BY <1>1, <1>2 DEF OpensPlain, SameLength, SessionsKept
<1>3. CASE Open
  <2>1. PICK streams : SessionAdded(sessions, sessions', NextCall, streams)
    BY <1>3, OpenAdds
  <2>2. /\ Len(sessions') = Len(sessions) + 1 /\ Len(sessions) \in Nat
        /\ sessions'[Len(sessions')].call = NextCall
        /\ \A k \in 1 .. Len(sessions) : sessions'[k] = sessions[k]
    BY <2>1 DEF SessionAdded
  <2>3. \A k \in 1 .. Len(sessions') :
          k \in 1 .. Len(sessions) \/ k = Len(sessions')
    BY <2>2
  <2>4. Plain(calls', NextCall)
    BY <1>3, OpenAdds, CallIsPlain
  <2> QED
    BY <1>1, <2>2, <2>3, <2>4 DEF OpensPlain
<1>4. CASE Close \/ Destroy \/ Write \/ Update \/ Read
  BY <1>2, <1>4, UserKept
<1>5. CASE CallBack \/ ReportFailure \/ ResumeSteps
  BY <1>2, <1>5, HandlerKept
<1>6. ASSUME NEW s \in 1 .. Len(sessions),
             OpenResolved(s) \/ OpenRejected(s) \/ OnClose(s) \/ Data(s)
      PROVE  SameLength
  BY <1>6, SessionKept
<1>7. ASSUME NEW p \in promises,
             \/ CloseResolved(p) \/ CloseRejected(p)
             \/ WriteResolved(p) \/ WriteRejected(p)
             \/ OperationResolved(p) \/ OperationRejected(p)
             \/ ReadResolved(p) \/ ReadRejected(p)
      PROVE  SameLength
  BY <1>7, PromiseKept
<1>8. CASE UNCHANGED vars
  BY <1>2, <1>8, SameSessions DEF vars
<1> QED
  BY <1>2, <1>3, <1>4, <1>5, <1>6, <1>7, <1>8, Steps

LEMMA WritesKept ==
  ASSUME StreamTypes, WritesPlain(calls, promises, waiting), [Next]_vars,
         CallsOn(calls, calls')
  PROVE  WritesPlain(calls', promises', waiting')
<1>1. WritesPlain(calls', promises, waiting)
  BY PlainOn
<1>2. ASSUME \A q \in promises' :
               q \in promises \/ q.kind \notin {"write", "update"},
             waiting' = waiting \/ waiting' = 0
      PROVE  WritesPlain(calls', promises', waiting')
  BY <1>1, <1>2 DEF WritesPlain
<1>3. ASSUME NEW awaited, awaited \subseteq promises,
             \/ promises' = awaited
             \/ \E callbacks : CloseStarts(callbacks, awaited)
             \/ ReadsOn(awaited)
      PROVE  \A q \in promises' :
               q \in promises \/ q.kind \notin {"write", "update"}
  BY <1>3, StartAdds, ReadsAdd DEF NewRead
<1>4. CASE Open
  BY <1>2, <1>4 DEF Open, writeVars
<1>5. CASE Close
  BY <1>2, <1>3, <1>5, StartCloses DEF Close, writeVars
<1>6. CASE Destroy
  <2>1. waiting' = 0
    BY <1>6 DEF Destroy, FailWaitingWrite
  <2> QED
    BY <1>2, <1>3, <1>6, <2>1, DestroyIs DEF DestroyDoes
<1>7. CASE Write \/ Update
  <2>1. Plain(calls', NextCall)
    <3>1. CallIs("write") \/ CallIs("update")
      BY <1>7, CalledIs DEF Write, Update
    <3> QED
      BY <3>1, CallIsPlain
  <2>2. waiting' = waiting \/ waiting' = NextCall
    BY <1>7 DEF Write, Update, writeVars
  <2> QED
    BY <1>1, <1>7, <2>1, <2>2, WriteAdds DEF WritesPlain
<1>8. CASE Read
  BY <1>2, <1>3, <1>8, ReadMoreDoes DEF Read, writeVars
<1>9. CASE CallBack \/ ReportFailure
  BY <1>2, <1>9 DEF CallBack, ReportFailure, writeVars
<1>10. CASE ResumeSteps
  <2>1. waiting' = waiting \/ waiting' = 0
    BY <1>10, Resumes
  <2>2. \A q \in promises' :
          \/ q \in WriteResumed
          \/ q.kind \notin {"write", "update"}
    <3>1. CASE ReadsOn(WriteResumed)
      BY <3>1, ReadsAdd DEF NewRead
    <3>2. CASE promises' = WriteResumed
      BY <3>2
    <3> QED
      BY <1>10, <3>1, <3>2, Resumes
  <2>3. \A q \in WriteResumed :
          q \in promises \/ (waiting # 0 /\ q.call = waiting)
    BY DEF WriteResumed, Promise
  <2> QED
    BY <1>1, <2>1, <2>2, <2>3 DEF WritesPlain
<1>11. ASSUME NEW s \in 1 .. Len(sessions),
              OpenResolved(s) \/ OpenRejected(s) \/ OnClose(s) \/ Data(s)
       PROVE  WritesPlain(calls', promises', waiting')
  <2>1. CASE OpenResolved(s)
    <3>1. Promise("cancelClose", s, sessions[s].call).kind = "cancelClose"
      BY DEF Promise
    <3> QED
      BY <1>2, <2>1, <3>1, OpenResolves
      DEF OpenSucceeds, OpenIsCanceled, writeVars
  <2>2. CASE OpenRejected(s)
    BY <1>2, <2>2 DEF OpenRejected, FailWaitingWrite
  <2>3. CASE OnClose(s)
    BY <1>2, <1>3, <2>3, OnCloseDoes DEF writeVars
  <2>4. CASE Data(s)
    BY <1>2, <2>4 DEF Data, writeVars
  <2> QED
    BY <1>11, <2>1, <2>2, <2>3, <2>4
<1>12. ASSUME NEW p \in promises,
              \/ CloseResolved(p) \/ CloseRejected(p)
              \/ WriteResolved(p) \/ WriteRejected(p)
              \/ OperationResolved(p) \/ OperationRejected(p)
              \/ ReadResolved(p) \/ ReadRejected(p)
       PROVE  WritesPlain(calls', promises', waiting')
  <2>1. promises \ {p} \subseteq promises
    OBVIOUS
  <2>2. CASE CloseResolved(p) \/ CloseRejected(p)
    BY <1>2, <2>2 DEF CloseResolved, CloseRejected, writeVars
  <2>3. CASE WriteResolved(p) \/ WriteRejected(p)
    BY <1>2, <1>3, <2>1, <2>3, WriteSettlesAs
  <2>4. CASE OperationResolved(p) \/ OperationRejected(p)
    BY <1>2, <2>4 DEF OperationResolved, OperationRejected, writeVars
  <2>5. CASE ReadResolved(p) \/ ReadRejected(p)
    BY <1>2, <1>3, <2>1, <2>5, ReadSettlesAs DEF ReadEnds, writeVars
  <2> QED
    BY <1>12, <2>2, <2>3, <2>4, <2>5
<1>13. CASE UNCHANGED vars
  BY <1>2, <1>13 DEF vars, writeVars
<1> QED
  BY <1>4, <1>5, <1>6, <1>7, <1>8, <1>9, <1>10, <1>11, <1>12, <1>13, Steps

(* An open that failed is reported before the next open is begun, if the   *)
(* callback of the write that it fails does not begin one.                 *)
FailuresFirst == opening => TasksOf(todo, 0)

LEMMA NextFailures ==
  ASSUME StreamTypes, PortInv, FailuresFirst, "nested" \notin Calls, [Next]_vars
  PROVE  FailuresFirst'
<1>1. ASSUME TasksOf(todo', 0) \/ UNCHANGED todo, UNCHANGED opening
      PROVE  FailuresFirst'
  BY <1>1 DEF FailuresFirst
<1>2. CASE Open /\ MayReopen
  <2>1. DOMAIN todo = 1 .. Len(todo) /\ todo \in Seq(Items)
    BY DEF StreamTypes, TasksOf
  <2>2. \A i \in 1 .. Len(todo) : todo[i].op # "failed"
    BY <1>2, <2>1 DEF MayReopen
  <2>3. TasksOf(todo, 0) /\ UNCHANGED todo
    BY <1>2, <2>1, <2>2 DEF TasksOf, Open
  <2> QED
    BY <2>3 DEF FailuresFirst
<1>3. CASE Close \/ Destroy \/ Write \/ Update \/ Read
  <2>1. UNCHANGED todo
    BY <1>3 DEF Close, Destroy, Write, Update, Read
  <2>2. UNCHANGED opening
    <3>1. CASE Close
      BY <3>1, StartCloses DEF Close, CloseStarts
    <3>2. CASE Destroy
      BY <3>2, DestroyIs DEF DestroyDoes, CloseStarts, lifeVars
    <3>3. CASE Write \/ Update
      BY <3>3 DEF Write, Update, lifeVars
    <3>4. CASE Read
      BY <3>4, ReadMoreDoes, ReadsKeep DEF Read
    <3> QED
      BY <1>3, <3>1, <3>2, <3>3, <3>4
  <2> QED
    BY <1>1, <2>1, <2>2
<1>4. CASE CallBack \/ ResumeSteps
  <2>1. todo # <<>> /\ todo' = Tail(todo)
    BY <1>4 DEF CallBack, ResumeSteps
  <2>2. UNCHANGED opening
    <3>1. CASE CallBack
      BY <3>1 DEF CallBack, lifeVars
    <3>2. CASE ResumeSteps
      BY <3>2, Resumes, ReadsKeep DEF lifeVars
    <3> QED
      BY <1>4, <3>1, <3>2
  <2>3. TasksOf(todo, 0) => TasksOf(todo', 0)
    BY <2>1, HeadIs DEF TasksOf
  <2> QED
    BY <2>2, <2>3 DEF FailuresFirst
<1>5. CASE ReportFailure
  <2>1. UNCHANGED opening
    BY <1>5 DEF ReportFailure
  <2>2. ~TasksOf(todo, 0)
    <3>1. 1 \in 1 .. Len(todo) /\ todo[1].op = "failed"
      BY <1>5, HeadIs DEF ReportFailure
    <3> QED
      BY <3>1 DEF TasksOf
  <2> QED
    BY <2>1, <2>2 DEF FailuresFirst
<1>6. ASSUME NEW s \in 1 .. Len(sessions),
             OpenResolved(s) \/ OpenRejected(s) \/ OnClose(s) \/ Data(s)
      PROVE  FailuresFirst'
  <2>1. CASE OpenResolved(s) \/ OpenRejected(s)
    BY <2>1 DEF OpenResolved, OpenRejected, FailuresFirst
  <2>2. CASE OnClose(s)
    <3>1. ~opening
      BY <2>2, OnCloseDoes DEF PortInv, PortIsOpen
    <3>2. UNCHANGED opening
      BY <2>2, OnCloseDoes DEF CloseStarts
    <3> QED
      BY <3>1, <3>2 DEF FailuresFirst
  <2>3. CASE Data(s)
    BY <1>1, <2>3 DEF Data, lifeVars
  <2> QED
    BY <1>6, <2>1, <2>2, <2>3
<1>7. ASSUME NEW p \in promises,
             \/ CloseResolved(p) \/ CloseRejected(p)
             \/ WriteResolved(p) \/ WriteRejected(p)
             \/ OperationResolved(p) \/ OperationRejected(p)
             \/ ReadResolved(p) \/ ReadRejected(p)
      PROVE  FailuresFirst'
  <2>0. p.call \in Nat /\ p.session \in 1 .. Len(sessions)
    BY RestOf
  <2>1. CASE CloseResolved(p) \/ CloseRejected(p)
    <3>1. UNCHANGED opening /\ TasksOf(Rest(p), 0)
      BY <2>0, <2>1, ShortTasks DEF Rest, CloseResolved, CloseRejected
    <3>2. CASE opening
      <4>1. port = 0
        BY <3>2 DEF PortInv, PortIsOpen
      <4>2. Passes(Rest(p))
        BY <2>0, <2>1, <4>1, CloseResolves, CloseRejects
      <4> QED
        BY <1>1, <3>1, <4>2 DEF Passes
    <3>3. CASE ~opening
      BY <3>1, <3>3 DEF FailuresFirst
    <3> QED
      BY <3>2, <3>3
  <2>2. /\ TasksOf(<<Reply(p.call, TRUE)>>, 0)
        /\ TasksOf(<<Reply(p.call, FALSE)>>, 0)
    BY <2>0, ShortTasks
  <2>3. CASE WriteResolved(p) \/ WriteRejected(p)
    <3>1. TasksOf(todo', 0)
      BY <2>2, <2>3, WriteSettlesAs
    <3>2. UNCHANGED opening
      BY <2>3, WriteSettlesAs DEF CloseStarts, lifeVars
    <3> QED
      BY <1>1, <3>1, <3>2
  <2>4. CASE OperationResolved(p) \/ OperationRejected(p)
    BY <1>1, <2>2, <2>4 DEF OperationResolved, OperationRejected, lifeVars
  <2>5. CASE ReadResolved(p) \/ ReadRejected(p)
    <3>1. UNCHANGED todo
      BY <2>5, ReadSettlesAs
    <3>2. UNCHANGED opening
      BY <2>5, ReadSettlesAs, ReadsKeep DEF CloseStarts, ReadEnds, lifeVars
    <3> QED
      BY <1>1, <3>1, <3>2
  <2> QED
    BY <1>7, <2>1, <2>3, <2>4, <2>5
<1>8. CASE UNCHANGED vars
  BY <1>1, <1>8 DEF vars, lifeVars
<1> QED
  BY <1>2, <1>3, <1>4, <1>5, <1>6, <1>7, <1>8, Steps

(* The calls that are told, or are about to be told, that they succeeded.  *)
SaysOk(td, n) ==
  \E i \in 1 .. Len(td) : td[i].op = "reply" /\ td[i].ok /\ td[i].call = n

RepliedOk(rs, n) == \E i \in 1 .. Len(rs) : rs[i].ok /\ rs[i].call = n

Succeeds(n) == SaysOk(todo, n) \/ RepliedOk(replies, n)

LEMMA FollowedOk ==
  ASSUME NEW rs, NEW tt, NEW m, NEW n
  PROVE  /\ Followed(rs, tt, m, FALSE) /\ RepliedOk(tt, n) => RepliedOk(rs, n)
         /\ Followed(rs, tt, m, TRUE) /\ RepliedOk(tt, n)
              => RepliedOk(rs, n) \/ n = m
<1>1. ASSUME NEW ok, Followed(rs, tt, m, ok), RepliedOk(tt, n)
      PROVE  RepliedOk(rs, n) \/ (ok /\ n = m)
  <2>1. PICK i \in 1 .. Len(tt) : tt[i].ok /\ tt[i].call = n
    BY <1>1 DEF RepliedOk
  <2>2. i \in 1 .. Len(rs) \/ i = Len(tt)
    BY <1>1 DEF Followed
  <2>3. CASE i \in 1 .. Len(rs)
    BY <1>1, <2>1, <2>3 DEF Followed, RepliedOk
  <2>4. CASE i = Len(tt)
    BY <1>1, <2>1, <2>4 DEF Followed, Reply
  <2> QED
    BY <2>2, <2>3, <2>4
<1>2. PICK no : no = FALSE
  OBVIOUS
<1>3. PICK yes : yes = TRUE
  OBVIOUS
<1> QED
  BY <1>1, <1>2, <1>3

LEMMA WaitingOk ==
  ASSUME NEW rs, WaitingAnswered(rs), NEW n, RepliedOk(rs, n)
  PROVE  RepliedOk(replies, n)
BY FollowedOk DEF WaitingAnswered

LEMMA ShortOk ==
  ASSUME NEW n
  PROVE  /\ ~SaysOk(<<>>, n)
         /\ \A m : /\ ~SaysOk(<<Reply(m, FALSE)>>, n)
                   /\ SaysOk(<<Reply(m, TRUE)>>, n) => n = m
         /\ \A m, td : /\ Len(td) = 2
                       /\ td[1] = Reply(m, TRUE) /\ td[2] = Resume
              => (SaysOk(td, n) => n = m)
         /\ \A m, s, td : /\ Len(td) = 2
                          /\ td[1] = Reply(m, FALSE) /\ td[2] = Failed(s)
              => ~SaysOk(td, n)
<1>1. ~SaysOk(<<>>, n)
  BY DEF SaysOk
<1>2. ASSUME NEW td, Len(td) = 1 PROVE \A i \in 1 .. Len(td) : i = 1
  BY <1>2
<1>3. ASSUME NEW td, Len(td) = 2 PROVE \A i \in 1 .. Len(td) : i = 1 \/ i = 2
  BY <1>3
<1>4. ASSUME NEW m
      PROVE  /\ ~SaysOk(<<Reply(m, FALSE)>>, n)
             /\ SaysOk(<<Reply(m, TRUE)>>, n) => n = m
  BY <1>2 DEF SaysOk, Reply
<1>5. ASSUME NEW m, NEW td, Len(td) = 2,
             td[1] = Reply(m, TRUE), td[2] = Resume, SaysOk(td, n)
      PROVE  n = m
  BY <1>3, <1>5 DEF SaysOk, Reply, Resume
<1>6. ASSUME NEW m, NEW s, NEW td, Len(td) = 2,
             td[1] = Reply(m, FALSE), td[2] = Failed(s)
      PROVE  ~SaysOk(td, n)
  BY <1>3, <1>6 DEF SaysOk, Reply, Failed
<1> QED
  BY <1>1, <1>4, <1>5, <1>6

(* A close that is refused, or is of an old session, makes no call succeed. *)
LEMMA RefusedOk ==
  ASSUME StreamTypes, NEW rest \in Seq(Items), CloseRefused(rest) \/ Passes(rest),
         NEW n, SaysOk(todo', n)
  PROVE  SaysOk(rest, n)
<1>1. CASE CloseRefused(rest)
  <2>1. PICK t : t = ResumeIO \o rest
    OBVIOUS
  <2>2. /\ Len(t) = Len(rest) + 1 /\ t[1] = Resume /\ Len(rest) \in Nat
        /\ \A i \in 1 .. Len(rest) : t[i + 1] = rest[i]
    <3>1. rest \in Seq(Items) /\ Len(rest) \in Nat
      OBVIOUS
    <3> QED
      BY <2>1, <3>1, ResumeThen
  <2>3. /\ Len(todo') = Len(closeCallbacks) + Len(t) /\ Len(closeCallbacks) \in Nat
        /\ \A i \in 1 .. Len(t) : todo'[Len(closeCallbacks) + i] = t[i]
    BY <1>1, <2>1 DEF CloseRefused, Answers, StreamTypes
  <2>4. ASSUME NEW i \in 1 .. Len(closeCallbacks) PROVE ~todo'[i].ok
    <3>1. todo'[i] = Reply(closeCallbacks[i], FALSE)
      BY <1>1 DEF CloseRefused, Answers
    <3>2. Reply(closeCallbacks[i], FALSE).ok = FALSE
      BY DEF Reply
    <3> QED
      BY <3>1, <3>2
  <2>5. PICK i \in 1 .. Len(todo') :
          todo'[i].op = "reply" /\ todo'[i].ok /\ todo'[i].call = n
    BY DEF SaysOk
  <2>6. PICK j \in 1 .. Len(t) : i = Len(closeCallbacks) + j
    <3>1. /\ i - Len(closeCallbacks) \in 1 .. Len(t)
          /\ i = Len(closeCallbacks) + (i - Len(closeCallbacks))
      BY <2>2, <2>3, <2>4, <2>5
    <3> QED
      BY <3>1
  <2>7. t[j] = todo'[i]
    BY <2>3, <2>6
  <2>8. j # 1
    BY <2>2, <2>5, <2>7 DEF Resume
  <2>9. PICK l \in 1 .. Len(rest) : j = l + 1
    <3>1. j - 1 \in 1 .. Len(rest) /\ j = (j - 1) + 1
      BY <2>2, <2>8
    <3> QED
      BY <3>1
  <2>10. rest[l] = todo'[i]
    BY <2>2, <2>7, <2>9
  <2> QED
    BY <2>5, <2>10 DEF SaysOk
<1>2. CASE Passes(rest)
  BY <1>2 DEF Passes
<1> QED
  BY <1>1, <1>2

(* What makes a call succeed: it is a call of another kind, the stream has *)
(* no session left, or it was about none.                                  *)
NoSession == port = 0 /\ ~opening

Justified(n) ==
  Succeeds(n) \/ Plain(calls', n) \/ NoSession' \/ calls'[n].session = 0

LEMMA UserOk ==
  ASSUME StreamTypes, PortInv, NEW n, Succeeds(n)',
         Open \/ Close \/ Destroy \/ Write \/ Update \/ Read
  PROVE  Justified(n)
<1>1. CASE Open \/ Close \/ Write \/ Update \/ Read
  <2>1. UNCHANGED <<todo, replies>>
    BY <1>1 DEF Open, Close, Write, Update, Read, historyVars
  <2> QED
    BY <2>1 DEF Succeeds, Justified
<1>2. CASE Destroy
  <2>1. UNCHANGED todo
    BY <1>2 DEF Destroy
  <2>2. PICK rs : rs = replies \o WaitingReply
    OBVIOUS
  <2>3. WaitingAnswered(rs)
    BY <2>2, WaitingReplied
  <2>4. CASE replies' = replies \o WaitingReply
    BY <2>1, <2>2, <2>3, <2>4, WaitingOk DEF Succeeds, Justified
  <2>5. CASE /\ ~DestroyWaits /\ ~Closable
             /\ replies' = replies \o WaitingReply \o <<Reply(NextCall, TRUE)>>
    <3>1. rs \in Seq(Items) /\ NextCall \in Nat
      BY <2>3, LengthIs DEF WaitingAnswered, Followed, StreamTypes
    <3>2. Followed(rs, replies', NextCall, TRUE)
      BY <2>2, <2>5, <3>1, FollowedIs
    <3>3. RepliedOk(replies', n) => RepliedOk(replies, n) \/ n = NextCall
      BY <2>3, <3>2, FollowedOk, WaitingOk
    <3>4. calls'[NextCall].session = 0
      <4>1. port = 0 /\ ~opening
        BY <2>5 DEF DestroyWaits, Closable, IsOpen, PortInv, PortIsOpen
      <4> QED
        BY <1>2, <4>1, DestroyIs DEF CallIs
    <3> QED
      BY <2>1, <3>3, <3>4 DEF Succeeds, Justified
  <2> QED
    BY <1>2, <2>4, <2>5 DEF Destroy
<1> QED
  BY <1>1, <1>2

LEMMA TailOk ==
  ASSUME StreamTypes, todo # <<>>, todo' = Tail(todo), NEW n, SaysOk(todo', n)
  PROVE  SaysOk(todo, n)
BY HeadIs DEF SaysOk

LEMMA FailureOk ==
  ASSUME StreamTypes, NEW s \in 1 .. Len(sessions), AfterFailure(s), ~opening',
         NEW n, SaysOk(todo', n)
  PROVE  NoSession'
<1>1. CASE CloseFinishes(~closeError, Report(s))
  BY <1>1 DEF CloseFinishes, NoSession
<1>2. CASE Passes(Report(s))
  BY <1>2, ShortOk DEF Passes, Report
<1> QED
  BY <1>1, <1>2, FailureReports

LEMMA HandlerOk ==
  ASSUME StreamTypes, FailuresFirst, NEW n, Succeeds(n)',
         CallBack \/ ReportFailure \/ ResumeSteps
  PROVE  Justified(n)
<1>1. CASE CallBack
  <2>1. todo # <<>> /\ todo' = Tail(todo)
    BY <1>1 DEF CallBack
  <2>2. CASE SaysOk(todo', n)
    BY <2>1, <2>2, TailOk DEF Succeeds, Justified
  <2>3. CASE RepliedOk(replies', n)
    <3>1. PICK e : e = todo[1]
      OBVIOUS
    <3>2. /\ e \in Items /\ e.op = "reply" /\ 1 \in 1 .. Len(todo)
          /\ replies \in Seq(Items) /\ replies' = Append(replies, e)
      BY <1>1, <2>1, <3>1, HeadIs DEF CallBack, StreamTypes
    <3>3. /\ Len(replies') = Len(replies) + 1 /\ replies'[Len(replies')] = e
          /\ Len(replies) \in Nat
          /\ \A i \in 1 .. Len(replies) : replies'[i] = replies[i]
      BY <3>2, Joined
    <3>4. PICK i \in 1 .. Len(replies') : replies'[i].ok /\ replies'[i].call = n
      BY <2>3 DEF RepliedOk
    <3>5. i \in 1 .. Len(replies) \/ i = Len(replies')
      BY <3>3
    <3>6. CASE i \in 1 .. Len(replies)
      BY <3>3, <3>4, <3>6 DEF RepliedOk, Succeeds, Justified
    <3>7. CASE i = Len(replies')
      <4>1. SaysOk(todo, n)
        BY <3>1, <3>2, <3>3, <3>4, <3>7 DEF SaysOk
      <4> QED
        BY <4>1 DEF Succeeds, Justified
    <3> QED
      BY <3>5, <3>6, <3>7
  <2> QED
    BY <2>2, <2>3 DEF Succeeds
<1>2. CASE ReportFailure
  <2>1. UNCHANGED <<opening, replies>>
    BY <1>2 DEF ReportFailure
  <2>2. /\ AfterFailure(Head(todo).call)
        /\ Head(todo).call \in 1 .. Len(sessions)
        /\ 1 \in 1 .. Len(todo) /\ todo[1].op = "failed"
    BY <1>2, HeadIs DEF ReportFailure
  <2>3. ~opening
    BY <2>2 DEF FailuresFirst, TasksOf
  <2> QED
    BY <2>1, <2>2, <2>3, FailureOk DEF Succeeds, Justified
<1>3. CASE ResumeSteps
  <2>1. todo # <<>> /\ todo' = Tail(todo) /\ UNCHANGED replies
    BY <1>3, Resumes DEF historyVars
  <2> QED
    BY <2>1, TailOk DEF Succeeds, Justified
<1> QED
  BY <1>1, <1>2, <1>3

LEMMA SessionOk ==
  ASSUME StreamTypes, PortInv, OpensPlain(calls, sessions),
         CallsOn(calls, calls'), NEW n, Succeeds(n)', NEW s \in 1 .. Len(sessions),
         OpenResolved(s) \/ OpenRejected(s) \/ OnClose(s) \/ Data(s)
  PROVE  Justified(n)
<1>0. sessions[s].call \in Nat /\ s \in Nat
  <2>1. sessions[s] \in SessionSet
    BY DEF StreamTypes
  <2> QED
    BY <2>1 DEF SessionSet
<1>1. CASE OpenResolved(s) /\ OpenSucceeds(s)
  <2>1. SaysOk(todo', n) => n = sessions[s].call
    BY <1>0, <1>1, OpenLeaves, ShortOk DEF OpenSucceeds
  <2>2. Plain(calls', sessions[s].call)
    BY PlainOn DEF OpensPlain
  <2> QED
    BY <1>1, <2>1, <2>2 DEF OpenSucceeds, Succeeds, Justified
<1>2. CASE OpenResolved(s) /\ OpenIsCanceled(s)
  BY <1>2, ShortOk, WaitingOk DEF OpenIsCanceled, Succeeds, Justified
<1>3. CASE OpenRejected(s)
  <2>1. ~opening' /\ UNCHANGED replies
    BY <1>3 DEF OpenRejected
  <2>2. CASE AfterFailure(s)
    BY <2>1, <2>2, FailureOk DEF Succeeds, Justified
  <2>3. CASE waiting # 0 /\ todo' = WaitingReply \o <<Failed(s)>>
    <3>1. /\ Len(todo') = 2
          /\ todo'[1] = Reply(waiting, FALSE) /\ todo'[2] = Failed(s)
      BY <1>0, <2>3, FailureLeft
    <3>2. ~SaysOk(todo', n)
      <4>1. PICK td : td = todo'
        OBVIOUS
      <4> QED
        BY <3>1, <4>1, ShortOk
    <3> QED
      BY <2>1, <3>2 DEF Succeeds, Justified
  <2> QED
    BY <1>3, <2>2, <2>3 DEF OpenRejected
<1>4. CASE OnClose(s)
  <2>1. port # 0 /\ UNCHANGED replies
    BY <1>4, OnCloseDoes DEF StreamTypes
  <2>2. ~opening
    BY <2>1 DEF PortInv, PortIsOpen
  <2>3. CASE UNCHANGED todo
    BY <2>1, <2>3 DEF Succeeds, Justified
  <2>4. CASE CloseFinishes(~closeError, <<>>) /\ UNCHANGED opening
    BY <2>2, <2>4 DEF CloseFinishes, NoSession, Justified
  <2> QED
    BY <1>4, <2>3, <2>4, OnCloseDoes
<1>5. CASE Data(s)
  BY <1>5 DEF Data, historyVars, Succeeds, Justified
<1> QED
  BY <1>1, <1>2, <1>3, <1>4, <1>5, OpenResolves

LEMMA PromiseOk ==
  ASSUME StreamTypes, PortInv, WritesPlain(calls, promises, waiting),
         CallsOn(calls, calls'), NEW n, Succeeds(n)', NEW p \in promises,
         \/ CloseResolved(p) \/ CloseRejected(p)
         \/ WriteResolved(p) \/ WriteRejected(p)
         \/ OperationResolved(p) \/ OperationRejected(p)
         \/ ReadResolved(p) \/ ReadRejected(p)
  PROVE  Justified(n)
<1>1. CASE CloseResolved(p) \/ CloseRejected(p)
  <2>1. /\ UNCHANGED <<opening, replies>> /\ Rest(p) \in Seq(Items)
        /\ ~SaysOk(Rest(p), n)
    BY <1>1, RestOf, ShortOk DEF Rest, CloseResolved, CloseRejected
  <2>2. \/ port # 0 /\ \E ok : CloseFinishes(ok, Rest(p))
        \/ CloseRefused(Rest(p)) \/ Passes(Rest(p))
    BY <1>1, CloseResolves, CloseRejects
  <2>3. CASE port # 0 /\ \E ok : CloseFinishes(ok, Rest(p))
    <3>1. NoSession'
      BY <2>1, <2>3 DEF CloseFinishes, NoSession, PortInv, PortIsOpen
    <3> QED
      BY <3>1 DEF Justified
  <2>4. CASE CloseRefused(Rest(p)) \/ Passes(Rest(p))
    BY <2>1, <2>4, RefusedOk DEF Succeeds, Justified
  <2> QED
    BY <2>2, <2>3, <2>4
<1>2. ASSUME p.kind \in {"write", "update"}, UNCHANGED replies,
             \/ todo' = <<Reply(p.call, TRUE)>>
             \/ todo' = <<Reply(p.call, FALSE)>>
      PROVE  Justified(n)
  <2>1. Plain(calls', p.call)
    BY <1>2, PlainOn DEF WritesPlain
  <2>2. SaysOk(todo', n) => n = p.call
    BY <1>2, ShortOk
  <2> QED
    BY <1>2, <2>1, <2>2 DEF Succeeds, Justified
<1>3. CASE WriteResolved(p) \/ WriteRejected(p)
  BY <1>2, <1>3, WriteSettlesAs DEF historyVars
<1>4. CASE OperationResolved(p) \/ OperationRejected(p)
  BY <1>2, <1>4 DEF OperationResolved, OperationRejected, historyVars
<1>5. CASE ReadResolved(p) \/ ReadRejected(p)
  BY <1>5, ReadSettlesAs DEF historyVars, Succeeds, Justified
<1> QED
  BY <1>1, <1>3, <1>4, <1>5

Honored(cs, ss, n) ==
  cs[n].kind \in {"close", "destroy"} /\ cs[n].session # 0
    => Ended(ss[cs[n].session])

SuccessHonored == \A n : Succeeds(n) => Honored(calls, sessions, n)

HonorInv ==
  /\ SessionsOf(calls, Len(sessions))
  /\ OpensPlain(calls, sessions) /\ WritesPlain(calls, promises, waiting)
  /\ FailuresFirst /\ SuccessHonored

LEMMA SucceedsIsCall ==
  ASSUME NEW k, NEW rs, NEW td, NEW cb, NEW ss, NEW ps, NEW w,
         Ledger(k, rs, td, cb, ss, ps, w),
         NEW n, SaysOk(td, n) \/ RepliedOk(rs, n)
  PROVE  n \in 1 .. k
<1>1. PICK at : RepliesAt(at, k, rs) /\ TodoAt(at, k, td, ss)
  BY DEF Ledger
<1>2. CASE SaysOk(td, n)
  BY <1>1, <1>2 DEF SaysOk, TodoAt, At
<1>3. CASE RepliedOk(rs, n)
  BY <1>1, <1>3 DEF RepliedOk, RepliesAt, At
<1> QED
  BY <1>2, <1>3

LEMMA NextHonors ==
  ASSUME StreamPorts, StreamPorts', LedgerInv, LedgerInv', HonorInv,
         "nested" \notin Calls, [Next]_vars
  PROVE  HonorInv'
<1>0. /\ StreamTypes /\ PortInv /\ StreamTypes' /\ PortInv'
      /\ SessionsOf(calls, Len(sessions))
      /\ OpensPlain(calls, sessions) /\ WritesPlain(calls, promises, waiting)
      /\ FailuresFirst /\ SuccessHonored
  BY DEF StreamPorts, HonorInv
<1>1. CallsOn(calls, calls') /\ SessionsOf(calls', Len(sessions'))
  BY <1>0, NextCalls
<1>2. OpensPlain(calls', sessions') /\ WritesPlain(calls', promises', waiting')
  BY <1>0, <1>1, OpensKept, WritesKept
<1>3. FailuresFirst'
  BY <1>0, NextFailures
<1>4. SessionsOn(sessions, sessions')
  BY <1>0, NextOn
<1>5. ASSUME NEW n, Succeeds(n)' PROVE Honored(calls', sessions', n)
  <2>1. Justified(n)
    <3>1. CASE Open \/ Close \/ Destroy \/ Write \/ Update \/ Read
      BY <1>0, <1>5, <3>1, UserOk
    <3>2. CASE CallBack \/ ReportFailure \/ ResumeSteps
      BY <1>0, <1>5, <3>2, HandlerOk
    <3>3. ASSUME NEW s \in 1 .. Len(sessions),
                 OpenResolved(s) \/ OpenRejected(s) \/ OnClose(s) \/ Data(s)
          PROVE  Justified(n)
      BY <1>0, <1>1, <1>5, <3>3, SessionOk
    <3>4. ASSUME NEW p \in promises,
                 \/ CloseResolved(p) \/ CloseRejected(p)
                 \/ WriteResolved(p) \/ WriteRejected(p)
                 \/ OperationResolved(p) \/ OperationRejected(p)
                 \/ ReadResolved(p) \/ ReadRejected(p)
          PROVE  Justified(n)
      BY <1>0, <1>1, <1>5, <3>4, PromiseOk
    <3>5. CASE UNCHANGED vars
      BY <1>5, <3>5 DEF vars, historyVars, Succeeds, Justified
    <3> QED
      BY <1>0, <3>1, <3>2, <3>3, <3>4, <3>5, Steps
  <2>2. n \in 1 .. Len(calls') /\ calls'[n].session \in 0 .. Len(sessions')
    <3>1. n \in 1 .. Len(calls')
      BY <1>5, SucceedsIsCall DEF LedgerInv, Succeeds
    <3> QED
      BY <1>1, <3>1 DEF SessionsOf
  <2>3. CASE Succeeds(n)
    <3>1. Honored(calls, sessions, n) /\ n \in 1 .. Len(calls)
      BY <1>0, <2>3, SucceedsIsCall DEF SuccessHonored, LedgerInv, Succeeds
    <3>2. calls'[n] = calls[n] /\ calls[n].session \in 0 .. Len(sessions)
      BY <1>0, <1>1, <3>1 DEF CallsOn, SessionsOf
    <3>3. ASSUME calls[n].session # 0, Ended(sessions[calls[n].session])
          PROVE  Ended(sessions'[calls[n].session])
      <4>1. calls[n].session \in 1 .. Len(sessions)
        <5>1. Len(sessions) \in Nat
          BY <1>0 DEF StreamTypes
        <5> QED
          BY <3>2, <3>3, <5>1
      <4> QED
        BY <1>4, <3>3, <4>1 DEF SessionsOn
    <3> QED
      BY <3>1, <3>2, <3>3 DEF Honored
  <2>4. CASE Plain(calls', n)
    BY <2>4 DEF Plain, Honored
  <2>5. CASE NoSession'
    <3>1. ASSUME NEW s \in 1 .. Len(sessions') PROVE Ended(sessions'[s])
      BY <1>0, <2>5, <3>1 DEF NoSession, PortInv, PortIsOpen, Ended
    <3> QED
      BY <2>2, <3>1 DEF Honored
  <2>6. CASE calls'[n].session = 0
    BY <2>6 DEF Honored
  <2> QED
    BY <2>1, <2>3, <2>4, <2>5, <2>6 DEF Justified
<1>6. SuccessHonored'
  BY <1>5 DEF SuccessHonored, Succeeds
<1> QED
  BY <1>1, <1>2, <1>3, <1>6 DEF HonorInv

LEMMA InitHonors == Init => HonorInv
<1> SUFFICES ASSUME Init PROVE HonorInv
  OBVIOUS
<1>1. /\ replies = <<>> /\ todo = <<>> /\ calls = <<>> /\ sessions = <<>>
      /\ promises = {} /\ waiting = 0 /\ opening = FALSE
  BY DEF Init
<1>2. ~\E n : Succeeds(n)
  BY <1>1 DEF Succeeds, SaysOk, RepliedOk
<1>3. SessionsOf(<<>>, 0) /\ OpensPlain(<<>>, <<>>) /\ WritesPlain(<<>>, {}, 0)
  BY DEF SessionsOf, OpensPlain, WritesPlain
<1> QED
  BY <1>1, <1>2, <1>3 DEF HonorInv, FailuresFirst, SuccessHonored

(* A close, and a destroy, reports success only when the session that it   *)
(* was called for has ended, and it never opens again: unless a callback   *)
(* of a write that a failed open rejects opens the stream once more.       *)
THEOREM StreamHonorsClose ==
  "nested" \notin Calls => (Spec => []CloseHonored)
<1> SUFFICES ASSUME "nested" \notin Calls PROVE Spec => []CloseHonored
  OBVIOUS
<1> DEFINE Inv == StreamPorts /\ LedgerInv /\ HonorInv
<1>1. Init => Inv
  BY InitTypes, InitPorts, InitLedger, InitHonors DEF StreamPorts
<1>2. Inv /\ [Next]_vars => Inv'
  <2>1. Inv /\ [Next]_vars => StreamPorts' /\ LedgerInv'
    BY NextTypes, NextPorts, NextLedger DEF StreamPorts
  <2> QED
    BY <2>1, NextHonors
<1>3. Inv => CloseHonored
  <2> SUFFICES ASSUME Inv, NEW i \in DOMAIN replies, replies[i].ok
               PROVE  Honored(calls, sessions, replies[i].call)
    BY DEF CloseHonored, Honored, Ended
  <2>1. i \in 1 .. Len(replies)
    BY DEF StreamPorts, StreamTypes
  <2>2. Succeeds(replies[i].call)
    BY <2>1 DEF Succeeds, RepliedOk
  <2> QED
    BY <2>2 DEF HonorInv, SuccessHonored
<1> HIDE DEF Inv
<1> QED
  BY <1>1, <1>2, <1>3, PTL DEF Spec
=============================================================================

---------------------------- MODULE SerialStream ----------------------------
(***************************************************************************)
(* SerialPortStream of stream.ts over any binding: the handlers of one     *)
(* stream through several sessions, a session being one call of the        *)
(* binding's open and the port it gives.  A handler runs to its end in one *)
(* step, except where it calls user code, which may call the stream again  *)
(* before the handler goes on: `todo' is what the handler still does.      *)
(***************************************************************************)
EXTENDS Naturals, Sequences, FiniteSets, SequencesExt

CONSTANT
  Streaming   \* whether ports have startReading and onData: FALSE, TRUE or both

ASSUME StreamAssumption == Streaming \subseteq BOOLEAN

VARIABLES
  opening, closing, destroyed,
  port,            \* the session of this.port, or 0
  waiting,         \* the call of _waitingWrite, or 0
  readRequested, readPort,
  closeCallbacks,  \* the calls whose callbacks wait for the close
  closeError,      \* whether _closeError holds a reason
  baudRate,        \* settings.baudRate: the call of update it is from, or 0
  todo,            \* the rest of the handler that called user code
  writing,         \* Node: the call of _write whose callback is due, or 0
  errored,         \* Node: whether a write has failed
  reading,         \* Node: whether _read was called and nothing pushed yet
  sessions,        \* the binding's sessions
  promises,        \* the promises of the binding that the stream awaits
  calls,           \* history: the accepted calls
  replies,         \* history: the callbacks that were called, in order
  closes           \* history: the sessions whose close was emitted

lifeVars == <<opening, closing, port, closeCallbacks, closeError>>
ownVars == <<destroyed, baudRate>>
readVars == <<readRequested, readPort, reading>>
writeVars == <<waiting, writing, errored>>
historyVars == <<calls, replies, closes>>
vars == <<lifeVars, ownVars, todo, readVars, writeVars, sessions, promises,
          historyVars>>

(* A session is opening until its promise is settled.  `asked' is a        *)
(* startReading that onData has not answered yet.                          *)
NewSession(call, streams) ==
  [state |-> "opening", isOpen |-> FALSE, hooked |-> FALSE, asked |-> FALSE,
   streams |-> streams, call |-> call]

Promise(kind, s, call) == [kind |-> kind, session |-> s, call |-> call]

Reply(call, ok) == [op |-> "reply", call |-> call, ok |-> ok]
Resume == [op |-> "resume", call |-> 0, ok |-> TRUE]
Failed(s) == [op |-> "failed", call |-> s, ok |-> FALSE]

(* The ports of one binding are all of one kind.                           *)
PortKinds == IF sessions = <<>> THEN Streaming ELSE {sessions[1].streams}

NextCall == Len(calls) + 1

IsOpen == port # 0 /\ sessions[port].isOpen /\ ~closing

Init ==
  /\ opening = FALSE /\ closing = FALSE /\ destroyed = FALSE /\ port = 0
  /\ baudRate = 0
  /\ waiting = 0 /\ readRequested = FALSE /\ readPort = 0
  /\ closeCallbacks = <<>> /\ closeError = FALSE /\ todo = <<>>
  /\ writing = 0 /\ errored = FALSE /\ reading = FALSE
  /\ sessions = <<>> /\ promises = {}
  /\ calls = <<>> /\ replies = <<>> /\ closes = <<>>

-----------------------------------------------------------------------------
(***************************************************************************)
(* Closing.                                                                *)
(***************************************************************************)
Closable == ~closing /\ (IsOpen \/ opening)

(* close: an open in progress is cancelled, if the binding knows how; else *)
(* the binding closes the port, and may no longer regard it as open at     *)
(* once.  `awaited' are the other promises that are awaited.               *)
StartClose(callbacks, reason, awaited) ==
  /\ closing' = TRUE /\ closeError' = reason
  /\ closeCallbacks' = closeCallbacks \o callbacks
  /\ IF opening
     THEN promises' = awaited /\ sessions' = sessions
     ELSE /\ promises' = awaited \cup {Promise("close", port, 0)}
          /\ \E open \in BOOLEAN :
               sessions' = [sessions EXCEPT ![port].isOpen = open]
  /\ UNCHANGED <<opening, port>>

(* The callbacks get the reason of the disconnection, or else `error'.     *)
Replies(callbacks, ok) == [i \in DOMAIN callbacks |-> Reply(callbacks[i], ok)]

KeptCallbacks == closeCallbacks

ClearedCallbacks == <<>>

FinishClose(error, rest) ==
  IF port # 0 \/ closing
  THEN /\ port' = 0 /\ closing' = FALSE /\ closeError' = FALSE
       /\ closeCallbacks' = ClearedCallbacks
       /\ readPort' = 0 /\ readRequested' = TRUE
       /\ closes' = Append(closes, IF port # 0 THEN port ELSE Len(sessions))
       /\ todo' = Replies(closeCallbacks, ~closeError /\ ~error) \o rest
  ELSE /\ todo' = rest
       /\ UNCHANGED <<port, closing, closeError, closeCallbacks, readPort,
                      readRequested, closes>>

(* _closeFailed: a port that refuses to close stays in use.                *)
TakenAsClosed(s) == FALSE

StillOpen(s) == sessions'[s].isOpen

NoResume == <<>>

ResumeIO == <<Resume>>

CloseFailed(s, rest) ==
  IF port = s /\ ~StillOpen(s) THEN FinishClose(TRUE, rest)
  ELSE /\ IF port = s
          THEN /\ closing' = FALSE /\ closeError' = FALSE
               /\ closeCallbacks' = ClearedCallbacks
               /\ todo' = Replies(closeCallbacks, FALSE) \o ResumeIO \o rest
          ELSE todo' = rest /\ UNCHANGED <<closing, closeError, closeCallbacks>>
       /\ UNCHANGED <<port, readPort, readRequested, closes>>

(* The binding no longer regards session s as open and its hooks are       *)
(* cleared.                                                                *)
Closed(s) == [sessions EXCEPT ![s].isOpen = FALSE, ![s].hooked = FALSE]

-----------------------------------------------------------------------------
(***************************************************************************)
(* Reading: _read asks the binding for more unless a read of this port is  *)
(* outstanding.  startReading may throw, which ends the session.           *)
(***************************************************************************)
ReadMore(awaited) ==
  /\ readRequested' = TRUE
  /\ \/ /\ ~IsOpen \/ readPort = port
        /\ promises' = awaited
        /\ UNCHANGED <<lifeVars, readPort, sessions>>
     \/ /\ IsOpen /\ readPort # port /\ sessions[port].streams
        /\ \/ /\ sessions' = [sessions EXCEPT ![port].asked = TRUE]
              /\ promises' = awaited
              /\ UNCHANGED lifeVars
           \/ StartClose(<<>>, TRUE, awaited)
        /\ readPort' = readPort
     \/ /\ IsOpen /\ readPort # port /\ ~sessions[port].streams
        /\ readPort' = port
        /\ promises' = awaited \cup {Promise("read", port, 0)}
        /\ UNCHANGED <<lifeVars, sessions>>

-----------------------------------------------------------------------------
(***************************************************************************)
(* The calls that are accepted; others only report an error.  User code    *)
(* runs at any time.                                                       *)
(***************************************************************************)
Called(kind) ==
  calls' = Append(calls, [kind |-> kind,
                          session |-> IF opening THEN Len(sessions) ELSE port])

Open ==
  /\ ~destroyed /\ ~IsOpen /\ ~opening /\ ~closing
  /\ opening' = TRUE
  /\ \E streams \in PortKinds :
       sessions' = Append(sessions, NewSession(NextCall, streams))
  /\ Called("open")
  /\ UNCHANGED <<closing, port, closeCallbacks, closeError, ownVars, todo,
                 readVars, writeVars, promises, replies, closes>>

Close ==
  /\ Closable
  /\ StartClose(<<NextCall>>, FALSE, promises)
  /\ Called("close")
  /\ UNCHANGED <<ownVars, todo, readVars, writeVars, replies, closes>>

(* _failWaitingWrite calls the callback of the write, and Node enters its  *)
(* error state.                                                            *)
WaitingReply ==
  IF waiting = 0 THEN <<>> ELSE <<Reply(waiting, FALSE)>>

FailWaitingWrite ==
  /\ waiting' = 0
  /\ writing' = IF waiting = 0 THEN writing ELSE 0
  /\ errored' = (errored \/ waiting # 0)

(* destroy waits for the close that is in progress, or makes one.          *)
DestroyNow == FALSE

DestroyWaits == closing

Destroy ==
  /\ ~destroyed /\ destroyed' = TRUE
  /\ Called("destroy")
  /\ FailWaitingWrite
  /\ \/ /\ DestroyWaits
        /\ closeCallbacks' = Append(closeCallbacks, NextCall)
        /\ replies' = replies \o WaitingReply
        /\ UNCHANGED <<opening, closing, port, closeError, sessions, promises>>
     \/ /\ Closable
        /\ StartClose(<<NextCall>>, FALSE, promises)
        /\ replies' = replies \o WaitingReply
     \/ /\ ~DestroyWaits /\ ~Closable
        /\ replies' = replies \o WaitingReply \o <<Reply(NextCall, TRUE)>>
        /\ UNCHANGED <<lifeVars, sessions, promises>>
  /\ UNCHANGED <<baudRate, todo, readVars, closes>>

(* Node calls _write for one write at a time, and for none after an error. *)
Write ==
  /\ writing = 0 /\ ~errored /\ ~destroyed
  /\ Called("write")
  /\ writing' = NextCall
  /\ IF IsOpen
     THEN /\ promises' = promises \cup {Promise("write", port, NextCall)}
          /\ waiting' = waiting
     ELSE waiting' = NextCall /\ promises' = promises
  /\ UNCHANGED <<lifeVars, ownVars, todo, readVars, errored, sessions,
                 replies, closes>>

Read ==
  /\ ~reading /\ ~destroyed /\ ~errored
  /\ reading' = TRUE
  /\ ReadMore(promises)
  /\ UNCHANGED <<ownVars, todo, writeVars, historyVars>>

(* update; set, get, getBaudRate and flush are the same without a setting, *)
(* and a drain is, after an empty write.                                   *)
Update ==
  /\ IsOpen
  /\ Called("update")
  /\ promises' = promises \cup {Promise("update", port, NextCall)}
  /\ UNCHANGED <<lifeVars, ownVars, todo, readVars, writeVars, sessions,
                 replies, closes>>

-----------------------------------------------------------------------------
(***************************************************************************)
(* The continuations of the open promise.                                  *)
(***************************************************************************)
IgnoresClose == FALSE

Canceled == closing

OpenResolved(s) ==
  /\ todo = <<>> /\ sessions[s].state = "opening"
  /\ opening' = FALSE /\ port' = s
  /\ \/ /\ ~Canceled
        /\ sessions' = [sessions EXCEPT ![s].state = "opened",
                          ![s].isOpen = TRUE, ![s].hooked = TRUE]
        /\ todo' = <<Reply(sessions[s].call, TRUE)>> \o ResumeIO
        /\ UNCHANGED <<writeVars, promises, replies>>
     \/ /\ Canceled
        /\ \E open \in BOOLEAN :
             sessions' = [sessions EXCEPT ![s].state = "opened",
                            ![s].isOpen = open, ![s].hooked = TRUE]
        /\ FailWaitingWrite
        /\ replies' = replies \o WaitingReply
        /\ promises' =
             promises \cup {Promise("cancelClose", s, sessions[s].call)}
        /\ todo' = <<>>
  /\ UNCHANGED <<closing, closeCallbacks, closeError, ownVars, readVars,
                 calls, closes>>

(* A waiting write fails first, and its callback runs before the rest of    *)
(* the handler: then the failure is reported, or the close that was asked  *)
(* for is complete.                                                        *)
AfterFailure(s) ==
  LET report == <<Reply(sessions[s].call, FALSE)>>
  IN  IF closing THEN FinishClose(FALSE, report)
      ELSE /\ todo' = report
           /\ UNCHANGED <<closing, port, closeError, closeCallbacks, readPort,
                          readRequested, closes>>

OpenRejected(s) ==
  /\ todo = <<>> /\ sessions[s].state = "opening"
  /\ sessions' = [sessions EXCEPT ![s].state = "failed"]
  /\ opening' = FALSE
  /\ FailWaitingWrite
  /\ \/ waiting = 0 /\ AfterFailure(s)
     \/ /\ waiting # 0
        /\ todo' = WaitingReply \o <<Failed(s)>>
        /\ UNCHANGED <<closing, port, closeError, closeCallbacks, readPort,
                       readRequested, closes>>
  /\ UNCHANGED <<ownVars, reading, promises, calls, replies>>

ReportFailure ==
  /\ todo # <<>> /\ Head(todo).op = "failed"
  /\ AfterFailure(Head(todo).call)
  /\ UNCHANGED <<opening, ownVars, reading, writeVars, sessions, promises,
                 calls, replies>>

CallBack ==
  /\ todo # <<>> /\ Head(todo).op = "reply"
  /\ replies' = Append(replies, Head(todo))
  /\ todo' = Tail(todo)
  /\ UNCHANGED <<lifeVars, ownVars, readVars, writeVars, sessions, promises,
                 calls, closes>>

(* _resumeIO.                                                              *)
ResumeSteps ==
  /\ todo # <<>> /\ Head(todo).op = "resume"
  /\ todo' = Tail(todo)
  /\ LET active == ~destroyed /\ IsOpen
         awaited == IF active /\ waiting # 0
                    THEN promises \cup {Promise("write", port, waiting)}
                    ELSE promises
     IN  /\ waiting' = IF active THEN 0 ELSE waiting
         /\ IF active /\ readRequested THEN ReadMore(awaited)
            ELSE /\ promises' = awaited
                 /\ UNCHANGED <<lifeVars, readRequested, readPort, sessions>>
  /\ UNCHANGED <<ownVars, reading, writing, errored, historyVars>>

-----------------------------------------------------------------------------
(***************************************************************************)
(* The continuations of close, and of the close of a cancelled open, which *)
(* then reports to the callback of open.                                   *)
(***************************************************************************)
AnySession(s) == TRUE

Current(s) == port = s

Rest(p) == IF p.kind = "cancelClose" THEN <<Reply(p.call, FALSE)>> ELSE <<>>

CloseResolved(p) ==
  /\ todo = <<>> /\ p \in promises /\ p.kind \in {"close", "cancelClose"}
  /\ promises' = promises \ {p}
  /\ sessions' = Closed(p.session)
  /\ IF Current(p.session) THEN FinishClose(closeError, Rest(p))
     ELSE /\ todo' = Rest(p)
          /\ UNCHANGED <<closing, port, closeError, closeCallbacks, readPort,
                         readRequested, closes>>
  /\ UNCHANGED <<opening, ownVars, reading, writeVars, calls, replies>>

CloseRejected(p) ==
  /\ todo = <<>> /\ p \in promises /\ p.kind \in {"close", "cancelClose"}
  /\ promises' = promises \ {p}
  /\ sessions' = IF sessions[p.session].isOpen THEN sessions
                 ELSE Closed(p.session)
  /\ CloseFailed(p.session, Rest(p))
  /\ UNCHANGED <<opening, ownVars, reading, writeVars, calls, replies>>

(* The hook onClose: an unexpected end is acknowledged by closing, unless  *)
(* a close is in progress or the binding is no longer open.                *)
OnClose(s) ==
  /\ todo = <<>> /\ sessions[s].hooked
  /\ \/ /\ Current(s) /\ sessions[s].isOpen /\ Closable
        /\ StartClose(<<>>, TRUE, promises)
        /\ UNCHANGED <<readPort, readRequested, todo, closes>>
     \/ /\ Current(s)
        /\ sessions' = Closed(s)
        /\ FinishClose(FALSE, <<>>)
        /\ UNCHANGED <<opening, promises>>
  /\ UNCHANGED <<ownVars, reading, writeVars, calls, replies>>

-----------------------------------------------------------------------------
(***************************************************************************)
(* The continuations of writes and reads.  A session that was lost during  *)
(* the call rejects it as canceled, which does not close the port.         *)
(***************************************************************************)
WriteResolved(p) ==
  /\ todo = <<>> /\ p \in promises /\ p.kind = "write"
  /\ promises' = promises \ {p}
  /\ writing' = 0
  /\ todo' = <<Reply(p.call, TRUE)>>
  /\ UNCHANGED <<lifeVars, ownVars, readVars, waiting, errored, sessions,
                 historyVars>>

Disconnects(p, canceled) == ~canceled /\ Current(p.session) /\ IsOpen

WriteRejected(p) ==
  /\ todo = <<>> /\ p \in promises /\ p.kind = "write"
  /\ \E canceled \in BOOLEAN :
       IF Disconnects(p, canceled) THEN StartClose(<<>>, TRUE, promises \ {p})
       ELSE promises' = promises \ {p} /\ UNCHANGED <<lifeVars, sessions>>
  /\ writing' = 0 /\ errored' = TRUE
  /\ todo' = <<Reply(p.call, FALSE)>>
  /\ UNCHANGED <<ownVars, readVars, waiting, historyVars>>

(* _operation: what completed on an old port leaves the settings alone.    *)
OperationResolved(p) ==
  /\ todo = <<>> /\ p \in promises /\ p.kind = "update"
  /\ promises' = promises \ {p}
  /\ baudRate' = IF Current(p.session) THEN p.call ELSE baudRate
  /\ todo' = <<Reply(p.call, TRUE)>>
  /\ UNCHANGED <<lifeVars, destroyed, readVars, writeVars, sessions,
                 historyVars>>

OperationRejected(p) ==
  /\ todo = <<>> /\ p \in promises /\ p.kind = "update"
  /\ promises' = promises \ {p}
  /\ todo' = <<Reply(p.call, FALSE)>>
  /\ UNCHANGED <<lifeVars, ownVars, readVars, writeVars, sessions,
                 historyVars>>

(* A chunk from onData, or from a read that is still of the current port.  *)
Data(s) ==
  /\ todo = <<>> /\ sessions[s].hooked /\ sessions[s].asked
  /\ sessions[s].isOpen
  /\ sessions' = [sessions EXCEPT ![s].asked = FALSE]
  /\ IF Current(s) /\ IsOpen
     THEN readRequested' = FALSE /\ reading' = FALSE
     ELSE UNCHANGED <<readRequested, reading>>
  /\ UNCHANGED <<lifeVars, ownVars, todo, readPort, writeVars, promises,
                 historyVars>>

ReadResolved(p) ==
  /\ todo = <<>> /\ p \in promises /\ p.kind = "read"
  /\ \/ /\ Current(p.session) /\ IsOpen
        /\ readRequested' = FALSE /\ reading' = FALSE
        /\ readPort' = 0
        /\ promises' = promises \ {p}
        /\ UNCHANGED <<lifeVars, sessions>>
     \/ /\ IsOpen /\ ~Current(p.session)
        /\ ReadMore(promises \ {p})
        /\ reading' = reading
     \/ /\ ~IsOpen
        /\ readPort' = IF readPort = p.session THEN 0 ELSE readPort
        /\ promises' = promises \ {p}
        /\ UNCHANGED <<lifeVars, readRequested, reading, sessions>>
  /\ UNCHANGED <<ownVars, todo, writeVars, historyVars>>

ReadRejected(p) ==
  /\ todo = <<>> /\ p \in promises /\ p.kind = "read"
  /\ \/ /\ Disconnects(p, FALSE)
        /\ StartClose(<<>>, TRUE, promises \ {p})
        /\ readPort' = 0 /\ readRequested' = readRequested
     \/ /\ IsOpen /\ ~Current(p.session)
        /\ ReadMore(promises \ {p})
     \/ /\ ~IsOpen
        /\ readPort' = IF readPort = p.session THEN 0 ELSE readPort
        /\ promises' = promises \ {p}
        /\ UNCHANGED <<lifeVars, readRequested, sessions>>
  /\ UNCHANGED <<ownVars, todo, reading, writeVars, historyVars>>
=============================================================================

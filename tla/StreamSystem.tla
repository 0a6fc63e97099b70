---------------------------- MODULE StreamSystem ----------------------------
(***************************************************************************)
(* A stream with its user and its binding.  The binding settles every      *)
(* promise once, in any order; it may refuse to close.                     *)
(***************************************************************************)
EXTENDS SerialStream

CONSTANTS
  Calls,        \* the calls this user makes
  MaxSessions,  \* bound: calls of open
  MaxCalls      \* bound: calls of open, close, destroy and write

(* Whether the callback of a write that a failed open rejects may open the *)
(* stream again, while the handler of that open has not yet finished.      *)
MayReopen ==
  "nested" \notin Calls => \A i \in DOMAIN todo : todo[i].op # "failed"

User ==
  \/ /\ Len(calls) < MaxCalls
     /\ \/ Len(sessions) < MaxSessions /\ MayReopen /\ Open
        \/ Close
        \/ "destroy" \in Calls /\ Destroy
        \/ "write" \in Calls /\ Write
        \/ "update" \in Calls /\ Update
  \/ "read" \in Calls /\ Read

Handler == CallBack \/ ReportFailure \/ ResumeSteps

OpenSettles(s) == s \in DOMAIN sessions /\ (OpenResolved(s) \/ OpenRejected(s))

CloseSettles(s) ==
  \E p \in promises :
    /\ p.session = s
    /\ CloseResolved(p) \/ ("refuse" \in Calls /\ CloseRejected(p))

WriteSettles == \E p \in promises : WriteResolved(p) \/ WriteRejected(p)

OperationSettles ==
  \E p \in promises : OperationResolved(p) \/ OperationRejected(p)

ReadSettles == \E p \in promises : ReadResolved(p) \/ ReadRejected(p)

Hooks == \E s \in DOMAIN sessions : OnClose(s) \/ Data(s)

(* Nothing is in progress and the user may stop here.                      *)
Quiet == todo = <<>> /\ UNCHANGED vars

Next ==
  \/ User \/ Handler
  \/ \E s \in 1 .. MaxSessions : OpenSettles(s) \/ CloseSettles(s)
  \/ WriteSettles \/ ReadSettles \/ OperationSettles
  \/ Hooks \/ Quiet

Spec == Init /\ [][Next]_vars

(* A handler goes on when user code returns, and the binding settles every *)
(* open and close: strongly fair, since a promise that is settled while    *)
(* another handler runs keeps its place in the queue of microtasks.        *)
FairSpec ==
  /\ Spec
  /\ WF_vars(Handler)
  /\ \A s \in 1 .. MaxSessions :
       SF_vars(OpenSettles(s)) /\ SF_vars(CloseSettles(s))

-----------------------------------------------------------------------------
(* Every callback is called at most once, whatever the order of promises,  *)
(* hooks and calls from other callbacks.                                   *)
RepliedOnce == \A i, j \in DOMAIN replies :
  replies[i].call = replies[j].call => i = j

(* A close, or a destroy, that reports success has closed the session it   *)
(* was called for, also when that session was still opening.               *)
CloseHonored ==
  \A i \in DOMAIN replies :
    LET c == calls[replies[i].call]
    IN  replies[i].ok /\ c.kind \in {"close", "destroy"} /\ c.session # 0
          => /\ sessions[c.session].state # "opening"
             /\ ~sessions[c.session].isOpen

(* The stream holds every port that is open: none is left behind by a      *)
(* reopen, a cancelled open or a failed close.                             *)
NoLeak == \A s \in DOMAIN sessions : sessions[s].isOpen => port = s

(* Node waits for data or for the callback of a write only if the binding  *)
(* works on it, on the current port: after a reopen and after a close that *)
(* failed, reads and the waiting write are resumed.                        *)
Asked ==
  \/ sessions[port].asked
  \/ \E p \in promises : p.kind = "read" /\ p.session = port

NothingForgotten ==
  todo = <<>> /\ IsOpen /\ ~destroyed =>
    /\ waiting = 0
    /\ reading => Asked

(* Promises of an old session that settle late change nothing of the       *)
(* present one, the settings that it was opened with included.             *)
StaleIgnored ==
  [][\A p \in promises \ promises' :
       p.session # port => UNCHANGED <<lifeVars, baudRate, closes>>]_vars

(* Every open, close and destroy that was accepted calls its callback: a   *)
(* stream that is called no more ends with all of them answered.           *)
Answered ==
  <>[](\A n \in DOMAIN calls :
         calls[n].kind \in {"open", "close", "destroy"} =>
           \E i \in DOMAIN replies : replies[i].call = n)
=============================================================================

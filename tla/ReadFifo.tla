------------------------------ MODULE ReadFifo ------------------------------
(***************************************************************************)
(* What the consumer of a binding port is promised about input: while the  *)
(* port is open, the chunks of the native side reach onData in order, each *)
(* at most once and none skipped.                                          *)
(***************************************************************************)
EXTENDS Naturals, Sequences

VARIABLES
  incoming,   \* the chunks that wait
  delivered,  \* the chunks that onData has received
  open

fifoVars == <<incoming, delivered, open>>

Init == incoming = <<>> /\ delivered = <<>> /\ open = TRUE

Receive ==
  /\ Len(incoming') > Len(incoming)
  /\ SubSeq(incoming', 1, Len(incoming)) = incoming
  /\ UNCHANGED <<delivered, open>>

(* A turn delivers n chunks, and its last listener may close the port.     *)
Deliver ==
  \E n \in 1 .. Len(incoming) :
    /\ open
    /\ delivered' = delivered \o SubSeq(incoming, 1, n)
    /\ \/ incoming' = SubSeq(incoming, n + 1, Len(incoming)) /\ open' = open
       \/ open' = FALSE

Close == open' = FALSE /\ UNCHANGED <<incoming, delivered>>

(* What a closed port still holds is discarded.                            *)
Discard == ~open /\ UNCHANGED <<delivered, open>>

Next == Receive \/ Deliver \/ Close \/ Discard

Spec == Init /\ [][Next]_fifoVars
=============================================================================

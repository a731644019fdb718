---------------------------- MODULE PacketStream ----------------------------
(***************************************************************************)
(* What the receive side of a connection promises: the packets the peer    *)
(* sent are handed to EchoRecive one by one, in the order they were sent,  *)
(* until the connection closes.  Nothing is said of bytes.                 *)
(***************************************************************************)
EXTENDS Naturals, Sequences

CONSTANT Packets   \* what a peer may send

VARIABLES
  sent,       \* packets the peer sent
  delivered,  \* packets handed to EchoRecive
  open        \* whether the connection is still served

streamVars == <<sent, delivered, open>>

Init == sent = <<>> /\ delivered = <<>> /\ open = TRUE

Send ==
  /\ \E p \in Packets : sent' = Append(sent, p)
  /\ UNCHANGED <<delivered, open>>

\* The next packet is handed over; the application may refuse it, which ends
\* the connection.
Deliver ==
  /\ open
  /\ Len(delivered) < Len(sent)
  /\ delivered' = Append(delivered, sent[Len(delivered) + 1])
  /\ open' \in BOOLEAN
  /\ UNCHANGED sent

Next == Send \/ Deliver

Spec == Init /\ [][Next]_streamVars
=============================================================================

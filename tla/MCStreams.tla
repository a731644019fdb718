----------------------------- MODULE MCStreams ------------------------------
(***************************************************************************)
(* The two receivers of the packet stream, the server's and the client's:  *)
(* each behaviour is of one of them, and the other stays as it begins.     *)
(* For the client a size has two bytes and a receive five: packets of a     *)
(* bare size and of a size with a byte, up to two of them.                 *)
(***************************************************************************)
EXTENDS MCFraming, ClientService

VARIABLE side  \* the receiver that runs

ASSUME ClientAssumptions ==
  LengthsAssumption /\ BufferAssumption /\ NumbersAssumption /\ BoundsAssumption

StreamsInit == side \in {"server", "client"} /\ Init /\ ClientInit

StreamsNext ==
  \/ side = "server" /\ Next /\ UNCHANGED <<side, clientVars>>
  \/ side = "client" /\ ClientNext /\ UNCHANGED <<side, vars>>

\* The fairness of Framing and of ClientService, each for its side.
Streams ==
  /\ StreamsInit /\ [][StreamsNext]_<<side, vars, clientVars>>
  /\ WF_vars(side = "server" /\ \E n \in 1 .. RecvLen : Arrive(n)) /\ WF_vars(side = "server" /\ OnRecv)
  /\ WF_clientVars(side = "client" /\ GoesOn)
  /\ WF_clientVars(side = "client" /\ \E w \in Workers : Kernel(w))
  /\ \A w \in Workers : WF_clientVars(side = "client" /\ (Callback(w) \/ ClientOnRecv(w)))

-----------------------------------------------------------------------------

\* The client goes on: Stop returns, and each request that was answered is seen
\* to be.
ClientGoesOn == StopReturns /\ AnswersArrive
=============================================================================

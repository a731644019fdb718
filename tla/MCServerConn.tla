---------------------------- MODULE MCServerConn ----------------------------
(* Small instances of ServerConn.                                           *)
EXTENDS ServerConn, TLC

\* Workers are interchangeable, and so are clients, in runs without liveness.
Symmetry == Permutations(Workers) \cup Permutations(Clients)
=============================================================================

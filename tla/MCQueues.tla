----------------------------- MODULE MCQueues -------------------------------
(***************************************************************************)
(* The two queues that a thread empties: what the log sends to its window, *)
(* and the statements of the database manager.  Each behaviour is of one   *)
(* of them, and the other stays as it begins.                              *)
(***************************************************************************)
EXTENDS LogSend, AsyncDb

CONSTANTS s, t

VARIABLE which  \* the queue

QueuesInit == which \in {"log", "db"} /\ Init /\ DbInit

QueuesNext ==
  \/ which = "log" /\ Next /\ UNCHANGED <<which, dbVars>>
  \/ which = "db" /\ DbNext /\ UNCHANGED <<which, vars>>

\* The fairness of LogSend, and for the database: threads go on, and one that
\* waits for a lock gets it in time.
Queues ==
  /\ QueuesInit /\ [][QueuesNext]_<<which, vars, dbVars>>
  /\ WF_vars(which = "log" /\ Sending)
  /\ WF_dbVars(which = "db" /\ Join) /\ WF_dbVars(which = "db" /\ AsyncThread)
  /\ SF_dbVars(which = "db" /\ LockQueue) /\ SF_dbVars(which = "db" /\ EnterMutex(Async))
  /\ \A c \in Callers : WF_dbVars(which = "db" /\ SQL(c)) /\ SF_dbVars(which = "db" /\ Push(c))
=============================================================================

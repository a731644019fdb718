------------------------------ MODULE AsyncDb -------------------------------
(***************************************************************************)
(* CBaseDbManager: statements are executed at once by the thread that asks *)
(* (ExcuteSQL), or queued (AsyncExcuteSQL) for a thread that RunAsyncThread*)
(* starts and StopAsyncThread ends.  Each statement opens a connection of  *)
(* its own, under the mutex _Mtx; the queue has the lock of CThreadLock.   *)
(* A queued statement is the number of its place among all queued.         *)
(***************************************************************************)
EXTENDS Naturals, Sequences, FiniteSets, Functions

CONSTANTS
  Callers,                        \* threads that have statements
  Async,                          \* the thread of RunAsyncThread
  MaxQueued, MaxRuns, MaxFaults   \* bounds: statements queued, starts, ODBC calls that fail

ASSUME CallersAssumption == Async \notin Callers /\ IsFiniteSet(Callers)
ASSUME DbBoundsAssumption == {MaxQueued, MaxRuns, MaxFaults} \subseteq Nat

VARIABLES
  bRun,      \* _bRun
  joinable,  \* _hAsyncThread.joinable()
  ctl,       \* where the thread is that calls RunAsyncThread and StopAsyncThread
  runs,      \* starts so far
  queue,     \* _QueAsyncSQL
  asked,     \* statements queued so far
  lock,      \* the threads in CThreadLock
  mtx,       \* the threads in _Mtx
  dbPc,      \* where each thread is
  inHand,    \* the statement the async thread has taken, 0 for none
  handles,   \* Env of each thread
  tried,     \* queued statements the async thread has gone through with
  sqlFaults  \* ODBC calls that failed

ctlVars == <<bRun, joinable, ctl, runs>>
queueVars == <<queue, asked, lock, tried>>
sqlVars == <<mtx, handles, sqlFaults>>
dbVars == <<ctlVars, queueVars, sqlVars, dbPc, inHand>>

Threads == Callers \cup {Async}
InSQL == {"env", "attr", "dbc", "connect", "stmt", "execute", "fetch", "free_stmt", "free_dbc", "free_env"}
DbLabels == {"idle", "top", "check", "locked", "want", "mutex"} \cup InSQL

DbTypeOK ==
  /\ bRun \in BOOLEAN /\ joinable \in BOOLEAN /\ ctl \in {"idle", "join"} /\ runs \in 0 .. MaxRuns
  /\ asked \in 0 .. MaxQueued /\ queue \in Seq(1 .. MaxQueued) /\ tried \in Seq(1 .. MaxQueued)
  /\ lock \in SUBSET Threads /\ mtx \in SUBSET Threads
  /\ dbPc \in [Threads -> DbLabels] /\ inHand \in 0 .. MaxQueued
  /\ handles \in [Threads -> SUBSET {"env", "dbc", "stmt"}] /\ sqlFaults \in 0 .. MaxFaults

DbInit ==
  /\ bRun = FALSE /\ joinable = FALSE /\ ctl = "idle" /\ runs = 0
  /\ queue = <<>> /\ asked = 0 /\ lock = {} /\ tried = <<>>
  /\ mtx = {} /\ handles = [t \in Threads |-> {}] /\ sqlFaults = 0
  /\ dbPc = [t \in Threads |-> "idle"] /\ inHand = 0

Move(t, label) == dbPc' = [dbPc EXCEPT ![t] = label]

-----------------------------------------------------------------------------
(* RunAsyncThread and StopAsyncThread, called by one thread.                *)

RunAsyncThread ==
  /\ ctl = "idle" /\ ~bRun /\ runs < MaxRuns
  /\ bRun' = TRUE /\ joinable' = TRUE /\ runs' = runs + 1
  /\ Move(Async, "top")
  /\ UNCHANGED <<ctl, queueVars, sqlVars, inHand>>

StopAsyncThread ==
  /\ ctl = "idle" /\ runs > 0
  /\ bRun' = FALSE
  /\ ctl' = IF joinable THEN "join" ELSE "idle"
  /\ UNCHANGED <<joinable, runs, queueVars, sqlVars, dbPc, inHand>>

Join ==
  /\ ctl = "join" /\ dbPc[Async] = "idle"
  /\ joinable' = FALSE /\ ctl' = "idle"
  /\ UNCHANGED <<bRun, runs, queueVars, sqlVars, dbPc, inHand>>

-----------------------------------------------------------------------------
(* Callers.                                                                 *)

\* AsyncExcuteSQL tests _bRun, and queues whatever happens to it after that.
AsyncExcuteSQL(t) ==
  /\ dbPc[t] = "idle" /\ bRun /\ asked + Cardinality({u \in Callers : dbPc[u] = "want"}) < MaxQueued
  /\ Move(t, "want")
  /\ UNCHANGED <<ctlVars, queueVars, sqlVars, inHand>>

Push(t) ==
  /\ dbPc[t] = "want" /\ lock = {}
  /\ queue' = Append(queue, asked + 1) /\ asked' = asked + 1
  /\ Move(t, "idle")
  /\ UNCHANGED <<ctlVars, lock, tried, sqlVars, inHand>>

\* ExcuteSQL, in either form, ExcuteSQL_SingleResult and ExcuteSQL_NoneResult.
ExcuteSQL(t) ==
  /\ dbPc[t] = "idle"
  /\ Move(t, "mutex")
  /\ UNCHANGED <<ctlVars, queueVars, sqlVars, inHand>>

-----------------------------------------------------------------------------
(* _AsyncThread.                                                            *)

Top ==
  /\ dbPc[Async] = "top"
  /\ Move(Async, IF bRun THEN "check" ELSE "idle")
  /\ UNCHANGED <<ctlVars, queueVars, sqlVars, inHand>>

LockQueue ==
  /\ dbPc[Async] = "check" /\ lock = {}
  /\ lock' = {Async} /\ Move(Async, "locked")
  /\ UNCHANGED <<ctlVars, queue, asked, tried, sqlVars, inHand>>

\* Mutated forms of Take: the lock is kept when there is nothing to take; the
\* last is taken.
TakeKeepsLock ==
  /\ dbPc[Async] = "locked"
  /\ IF queue = <<>> THEN Move(Async, "top") /\ UNCHANGED <<queue, inHand, lock>>
     ELSE inHand' = Head(queue) /\ queue' = Tail(queue) /\ lock' = lock \ {Async} /\ Move(Async, "mutex")
  /\ UNCHANGED <<ctlVars, asked, tried, sqlVars>>

TakeLast ==
  /\ dbPc[Async] = "locked" /\ lock' = lock \ {Async}
  /\ IF queue = <<>> THEN Move(Async, "top") /\ UNCHANGED <<queue, inHand>>
     ELSE /\ inHand' = queue[Len(queue)] /\ queue' = SubSeq(queue, 1, Len(queue) - 1)
          /\ Move(Async, "mutex")
  /\ UNCHANGED <<ctlVars, asked, tried, sqlVars>>

\* The first statement is taken, or the thread sleeps and looks again.
Take ==
  /\ dbPc[Async] = "locked" /\ lock' = lock \ {Async}
  /\ IF queue = <<>> THEN Move(Async, "top") /\ UNCHANGED <<queue, inHand>>
     ELSE inHand' = Head(queue) /\ queue' = Tail(queue) /\ Move(Async, "mutex")
  /\ UNCHANGED <<ctlVars, asked, tried, sqlVars>>

-----------------------------------------------------------------------------
(* ExcuteSQL.                                                               *)

\* Mutated form of EnterMutex: there is no mutex.
EnterFreely(t) ==
  /\ dbPc[t] = "mutex"
  /\ mtx' = mtx \cup {t} /\ Move(t, "env")
  /\ UNCHANGED <<ctlVars, queueVars, handles, sqlFaults, inHand>>

EnterMutex(t) ==
  /\ dbPc[t] = "mutex" /\ mtx = {}
  /\ mtx' = {t} /\ Move(t, "env")
  /\ UNCHANGED <<ctlVars, queueVars, handles, sqlFaults, inHand>>

\* An ODBC call that succeeds goes on to the next, one that fails to FreeMem.
Call(t, at, next) ==
  /\ dbPc[t] = at
  /\ \/ Move(t, next) /\ UNCHANGED sqlFaults
     \/ sqlFaults < MaxFaults /\ sqlFaults' = sqlFaults + 1 /\ Move(t, "free_stmt")
  /\ UNCHANGED <<ctlVars, queueVars, mtx, inHand>>

Alloc(t, h) == handles' = [handles EXCEPT ![t] = IF dbPc'[t] = "free_stmt" THEN @ ELSE @ \cup {h}]

\* InitializeSQLEnv.
InitializeSQLEnv(t) ==
  \/ Call(t, "env", "attr") /\ Alloc(t, "env")
  \/ Call(t, "attr", "dbc") /\ UNCHANGED handles
  \/ Call(t, "dbc", "connect") /\ Alloc(t, "dbc")
  \/ Call(t, "connect", "stmt") /\ UNCHANGED handles

\* Then the statement, and its rows until SQLFetch fails or there are no more.
Statement(t) ==
  \/ Call(t, "stmt", "execute") /\ Alloc(t, "stmt")
  \/ Call(t, "execute", "fetch") /\ UNCHANGED handles
  \/ Call(t, "fetch", "free_stmt") /\ UNCHANGED handles

Free(t, at, h, next) ==
  /\ dbPc[t] = at /\ Move(t, next)
  /\ handles' = [handles EXCEPT ![t] = @ \ {h}]
  /\ UNCHANGED <<ctlVars, queueVars, mtx, sqlFaults, inHand>>

\* Mutated form of Return: the thread ends when a statement has failed.
ReturnEndsOnError(t) ==
  /\ dbPc[t] = "free_env"
  /\ handles' = [handles EXCEPT ![t] = @ \ {"env"}]
  /\ mtx' = mtx \ {t}
  /\ IF t = Async THEN /\ tried' = Append(tried, inHand) /\ inHand' = 0
                       /\ Move(t, IF sqlFaults > 0 THEN "idle" ELSE "top")
                  ELSE UNCHANGED <<tried, inHand>> /\ Move(t, "idle")
  /\ UNCHANGED <<ctlVars, queue, asked, lock, sqlFaults>>

\* FreeMem ends with the environment; then _Mtx is released.
Return(t) ==
  /\ dbPc[t] = "free_env"
  /\ handles' = [handles EXCEPT ![t] = @ \ {"env"}]
  /\ mtx' = mtx \ {t}
  /\ IF t = Async THEN tried' = Append(tried, inHand) /\ inHand' = 0 /\ Move(t, "top")
                  ELSE UNCHANGED <<tried, inHand>> /\ Move(t, "idle")
  /\ UNCHANGED <<ctlVars, queue, asked, lock, sqlFaults>>

\* Mutated form of FreeMem: the connection is not freed.
FreeMemKeepsDbc(t) ==
  \/ Free(t, "free_stmt", "stmt", "free_env")
  \/ Return(t)

FreeMem(t) ==
  \/ Free(t, "free_stmt", "stmt", "free_dbc")
  \/ Free(t, "free_dbc", "dbc", "free_env")
  \/ Return(t)

SQL(t) == EnterMutex(t) \/ InitializeSQLEnv(t) \/ Statement(t) \/ FreeMem(t)

-----------------------------------------------------------------------------

AsyncThread == Top \/ LockQueue \/ Take \/ SQL(Async)

DbNext ==
  \/ RunAsyncThread \/ StopAsyncThread \/ Join \/ AsyncThread
  \/ \E t \in Callers : AsyncExcuteSQL(t) \/ Push(t) \/ ExcuteSQL(t) \/ SQL(t)

DbSpec == DbInit /\ [][DbNext]_dbVars

-----------------------------------------------------------------------------
(* Properties.                                                              *)

\* Every statement that was queued has been gone through with, is in hand, or is
\* in the queue, each once and in the order of queueing; across stops, too.
Queued1by1 ==
  tried \o (IF inHand = 0 THEN <<>> ELSE <<inHand>>) \o queue = [k \in 1 .. asked |-> k]

\* A thread's handles depend on one another, none is left when it is done, and
\* no two threads have a connection.
HandlesNested ==
  \A t \in Threads :
    /\ "stmt" \in handles[t] => "dbc" \in handles[t]
    /\ "dbc" \in handles[t] => "env" \in handles[t]
    /\ dbPc[t] \notin InSQL => handles[t] = {}
    /\ \A u \in Threads : "dbc" \in handles[t] /\ "dbc" \in handles[u] => t = u

\* A queued statement is gone through with, unless the thread is stopped.
QueuedIsTried == \A k \in 1 .. MaxQueued : asked >= k ~> (k \in Range(tried) \/ ~bRun)

\* StopAsyncThread returns, and the thread is gone then.
StopReturns == ctl = "join" ~> ctl = "idle"
StoppedIsGone == ~joinable => dbPc[Async] = "idle"

\* The thread does what it is there for: it serves, and stops when told to.
ThreadServes == QueuedIsTried /\ StopReturns
=============================================================================

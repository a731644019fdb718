--------------------------- MODULE Queues_proofs ----------------------------
(***************************************************************************)
(* Proofs about the two queues that a thread of their own empties.         *)
(* LogSend, for any number of entries, callers and windows: the type       *)
(* invariant, and that until synchronous sending is chosen the windows get *)
(* the entries in the order of printing.  AsyncDb, for any finite set of   *)
(* callers and any bounds: the type invariant, the nesting of the ODBC     *)
(* handles with one connection at a time, the order of the queue across    *)
(* stops, and that a stop that has returned leaves no thread behind.       *)
(***************************************************************************)
EXTENDS LogSend, AsyncDb, FiniteSetTheorems, TLAPS

-----------------------------------------------------------------------------
(* LogSend.                                                                *)

\* Increasing sequences: when one that follows another is increasing with it,
\* a greater number at the end, and what is left without the head.
LEMMA IncreasingConcat ==
  ASSUME NEW s \in Seq(Nat), NEW t \in Seq(Nat), Increasing(s), Increasing(t),
         \A j \in DOMAIN s, k \in DOMAIN t : s[j] < t[k]
  PROVE  s \o t \in Seq(Nat) /\ Increasing(s \o t)
<1>1. s \o t \in Seq(Nat)
  OBVIOUS
<1>2. SUFFICES ASSUME NEW j \in DOMAIN (s \o t), NEW k \in DOMAIN (s \o t), j < k
               PROVE  (s \o t)[j] < (s \o t)[k]
  BY <1>1 DEF Increasing
<1>3. j \in 1 .. Len(s) + Len(t) /\ k \in 1 .. Len(s) + Len(t)
  BY <1>2
<1>4. CASE k <= Len(s)
  BY <1>2, <1>3, <1>4 DEF Increasing
<1>5. CASE j > Len(s)
  <2>1. (s \o t)[j] = t[j - Len(s)] /\ (s \o t)[k] = t[k - Len(s)]
    BY <1>2, <1>3, <1>5
  <2>2. j - Len(s) \in DOMAIN t /\ k - Len(s) \in DOMAIN t /\ j - Len(s) < k - Len(s)
    BY <1>2, <1>3, <1>5
  <2> QED BY <2>1, <2>2 DEF Increasing
<1>6. CASE j <= Len(s) /\ k > Len(s)
  <2>1. (s \o t)[j] = s[j] /\ (s \o t)[k] = t[k - Len(s)]
    BY <1>3, <1>6
  <2>2. j \in DOMAIN s /\ k - Len(s) \in DOMAIN t
    BY <1>3, <1>6
  <2> QED BY <2>1, <2>2
<1> QED BY <1>3, <1>4, <1>5, <1>6

LEMMA IncreasingAppend ==
  ASSUME NEW s \in Seq(Nat), NEW n \in Nat, Increasing(s), \A j \in DOMAIN s : s[j] < n
  PROVE  Increasing(Append(s, n))
  BY DEF Increasing

LEMMA IncreasingTail ==
  ASSUME NEW s \in Seq(Nat), s # <<>>, Increasing(s)
  PROVE  /\ Head(s) \in Nat /\ Tail(s) \in Seq(Nat) /\ Increasing(Tail(s))
         /\ \A k \in DOMAIN Tail(s) : Head(s) < Tail(s)[k]
         /\ \A k \in DOMAIN Tail(s) : k + 1 \in DOMAIN s /\ Tail(s)[k] = s[k + 1]
<1>1. Len(s) >= 1 /\ Head(s) = s[1] /\ Tail(s) \in Seq(Nat) /\ DOMAIN Tail(s) = 1 .. Len(s) - 1
  OBVIOUS
<1>2. \A k \in DOMAIN Tail(s) : k + 1 \in DOMAIN s /\ Tail(s)[k] = s[k + 1]
  OBVIOUS
<1> QED BY <1>1, <1>2 DEF Increasing

\* A sequence of entries stays one when there are more.
LEMMA MoreEntries ==
  ASSUME NEW n \in Nat, NEW s \in Seq(1 .. n)
  PROVE  s \in Seq(1 .. n + 1) /\ s \in Seq(Nat) /\ \A k \in DOMAIN s : s[k] <= n
  OBVIOUS

-----------------------------------------------------------------------------

\* The type invariant in three parts, and what the send thread holds, and when.
FlagsTyped ==
  /\ run \in BOOLEAN /\ sync \in BOOLEAN
  /\ open \in BOOLEAN /\ windows \in Nat /\ hWnd \in 0 .. windows /\ callers \in Nat

HeldTyped == pc \in Labels /\ (sending # 0 <=> pc = "send")

QueuesTyped ==
  /\ queued \in Nat /\ sending \in 0 .. queued
  /\ sendQ \in Seq(1 .. queued) /\ shown \in Seq(1 .. queued)

TypeInv == FlagsTyped /\ HeldTyped /\ QueuesTyped

LEMMA AddTyped ==
  ASSUME QueuesTyped, AddLogContentToQueue
  PROVE  QueuesTyped' /\ sending' = sending
<1>1. /\ queued \in Nat /\ queued' = queued + 1 /\ sending' = sending
      /\ sendQ \in Seq(1 .. queued') /\ shown \in Seq(1 .. queued')
  BY MoreEntries DEF QueuesTyped, AddLogContentToQueue
<1>2. queued' \in 1 .. queued' /\ sending' \in 0 .. queued'
  BY <1>1 DEF QueuesTyped
<1>3. Append(sendQ, queued') \in Seq(1 .. queued') /\ Append(shown, queued') \in Seq(1 .. queued')
  BY <1>1, <1>2
<1>4. shown' = shown \/ shown' = Append(shown, queued')
  BY <1>1 DEF AddLogContentToQueue, SendLogToForm
<1>5. sendQ' = sendQ \/ sendQ' = Append(sendQ, queued')
  BY <1>1 DEF AddLogContentToQueue
<1>6. sendQ' \in Seq(1 .. queued')
  BY <1>1, <1>3, <1>5
<1>7. shown' \in Seq(1 .. queued')
  BY <1>1, <1>3, <1>4
<1> QED BY <1>1, <1>2, <1>6, <1>7 DEF QueuesTyped

\* Calls and the window: they leave the send thread where it is.
LEMMA CallsTyped ==
  ASSUME TypeInv,
         \/ SetClientName \/ Release \/ SetSyncSendLog \/ Clear
         \/ BeginPrint \/ PrintToConsole \/ ToggleWindow
  PROVE  TypeInv'
<1>1. CASE SetClientName
  <2>1. FlagsTyped'
    BY <1>1 DEF SetClientName, TypeInv, FlagsTyped, windowVars
  <2>2. QueuesTyped' /\ sending' = sending
    BY <1>1, AddTyped DEF SetClientName, TypeInv
  <2>3. HeldTyped'
    <3>1. pc = "none" /\ pc' = "check"
      BY <1>1 DEF SetClientName, Goto
    <3>2. sending = 0
      BY <3>1 DEF TypeInv, HeldTyped
    <3>3. (sending # 0 <=> pc = "send")'
      BY <2>2, <3>1, <3>2
    <3>4. (pc \in Labels)'
      BY <3>1 DEF Labels
    <3> QED BY <3>3, <3>4 DEF HeldTyped
  <2> QED BY <2>1, <2>2, <2>3 DEF TypeInv
<1>2. CASE PrintToConsole
  <2>1. FlagsTyped'
    BY <1>2 DEF PrintToConsole, TypeInv, FlagsTyped, settings, windowVars
  <2>2. QueuesTyped' /\ sending' = sending
    BY <1>2, AddTyped DEF PrintToConsole, TypeInv
  <2>3. HeldTyped'
    BY <1>2, <2>2 DEF PrintToConsole, TypeInv, HeldTyped
  <2> QED BY <2>1, <2>2, <2>3 DEF TypeInv
<1>3. CASE Release \/ SetSyncSendLog \/ BeginPrint \/ ToggleWindow
  <2>1. FlagsTyped'
    <3>1. (run \in BOOLEAN /\ sync \in BOOLEAN /\ open \in BOOLEAN)'
      BY <1>3 DEF Release, SetSyncSendLog, BeginPrint, ToggleWindow, TypeInv, FlagsTyped,
                  settings, windowVars
    <3>2. (windows \in Nat /\ hWnd \in 0 .. windows /\ callers \in Nat)'
      BY <1>3 DEF Release, SetSyncSendLog, BeginPrint, ToggleWindow, TypeInv, FlagsTyped, windowVars
    <3> QED BY <3>1, <3>2 DEF FlagsTyped
  <2>2. UNCHANGED <<pc, sendQ, sending, shown, queued>>
    BY <1>3 DEF Release, SetSyncSendLog, BeginPrint, ToggleWindow, sendVars
  <2>3. HeldTyped' /\ QueuesTyped'
    BY <2>2 DEF TypeInv, HeldTyped, QueuesTyped
  <2> QED BY <2>1, <2>3 DEF TypeInv
<1>4. CASE Clear
  <2>1. FlagsTyped' /\ HeldTyped'
    BY <1>4 DEF Clear, TypeInv, FlagsTyped, HeldTyped, settings, windowVars
  <2>2. QueuesTyped'
    BY <1>4 DEF Clear, TypeInv, QueuesTyped
  <2> QED BY <2>1, <2>2 DEF TypeInv
<1> QED BY <1>1, <1>2, <1>3, <1>4

LEMMA SendingTyped ==
  ASSUME TypeInv, Sending
  PROVE  TypeInv'
<1>1. FlagsTyped'
  BY DEF TypeInv, FlagsTyped, Sending, SendLoop, ExistLogServer, ClearLogContent, Poll, SendOne,
         Rest, sendFrame, settings, windowVars
<1>2. HeldTyped' /\ UNCHANGED queued
  <2>1. CASE Poll
    <3>1. sendQ # <<>> => Head(sendQ) # 0
      BY DEF TypeInv, QueuesTyped
    <3> QED BY <2>1, <3>1 DEF TypeInv, HeldTyped, Poll, Goto, Labels, sendFrame
  <2>2. CASE SendOne
    BY <2>2 DEF TypeInv, HeldTyped, SendOne, Goto, Labels, sendFrame
  <2>3. CASE SendLoop \/ ExistLogServer \/ ClearLogContent \/ Rest
    BY <2>3 DEF TypeInv, HeldTyped, SendLoop, ExistLogServer, ClearLogContent, Rest, Goto, Labels,
                sendFrame
  <2> QED BY <2>1, <2>2, <2>3 DEF Sending
<1>3. sending' \in 0 .. queued /\ sendQ' \in Seq(1 .. queued) /\ shown' \in Seq(1 .. queued)
  <2>1. CASE Poll
    <3>1. sendQ # <<>> => Head(sendQ) \in 0 .. queued /\ Tail(sendQ) \in Seq(1 .. queued)
      BY DEF TypeInv, QueuesTyped
    <3>2. shown' = shown /\ (\/ UNCHANGED <<sendQ, sending>>
                             \/ sendQ # <<>> /\ sending' = Head(sendQ) /\ sendQ' = Tail(sendQ))
      BY <2>1 DEF Poll
    <3> QED BY <3>1, <3>2 DEF TypeInv, QueuesTyped
  <2>2. CASE SendOne
    <3>1. sending \in 1 .. queued /\ Append(shown, sending) \in Seq(1 .. queued)
      BY <2>2 DEF SendOne, TypeInv, HeldTyped, QueuesTyped
    <3>2. sending' = 0 /\ sendQ' = sendQ /\ (shown' = shown \/ shown' = Append(shown, sending))
      BY <2>2 DEF SendOne, SendLogToForm
    <3>3. sending' \in 0 .. queued
      BY <3>2 DEF TypeInv, QueuesTyped
    <3>4. sendQ' \in Seq(1 .. queued) /\ shown' \in Seq(1 .. queued)
      BY <3>1, <3>2 DEF TypeInv, QueuesTyped
    <3> QED BY <3>3, <3>4
  <2>3. CASE SendLoop \/ ExistLogServer \/ ClearLogContent \/ Rest
    <3>1. sending' = sending /\ shown' = shown /\ (sendQ' = sendQ \/ sendQ' = <<>>)
      BY <2>3 DEF SendLoop, ExistLogServer, ClearLogContent, Rest
    <3>2. sendQ' \in Seq(1 .. queued)
      <4>1. sendQ \in Seq(1 .. queued) /\ <<>> \in Seq(1 .. queued)
        BY DEF TypeInv, QueuesTyped
      <4> QED BY <3>1, <4>1
    <3>3. sending' \in 0 .. queued
      BY <3>1 DEF TypeInv, QueuesTyped
    <3>4. shown' \in Seq(1 .. queued)
      BY <3>1 DEF TypeInv, QueuesTyped
    <3> QED BY <3>2, <3>3, <3>4
  <2> QED BY <2>1, <2>2, <2>3 DEF Sending
<1>4. QueuesTyped'
  BY <1>2, <1>3 DEF TypeInv, QueuesTyped
<1> QED BY <1>1, <1>2, <1>4 DEF TypeInv

LEMMA TypeStep == TypeInv /\ [Next]_vars => TypeInv'
<1>1. CASE UNCHANGED vars
  BY <1>1 DEF vars, settings, windowVars, sendVars, TypeInv, FlagsTyped, HeldTyped, QueuesTyped
<1> QED BY <1>1, CallsTyped, SendingTyped DEF Next

LEMMA TypeInit == Init => TypeInv
<1>0. Init => run \in BOOLEAN /\ sync \in BOOLEAN /\ open \in BOOLEAN
  BY DEF Init
<1>1. Init => FlagsTyped
  BY <1>0 DEF Init, FlagsTyped
<1>2. Init => HeldTyped
  BY DEF Init, HeldTyped, Labels
<1>3. Init => QueuesTyped
  BY DEF Init, QueuesTyped
<1> QED BY <1>1, <1>2, <1>3 DEF TypeInv

\* Every variable keeps its type: nothing is queued or shown that was not
\* printed, and the send thread has an entry whenever it sends.
THEOREM TypeCorrect == Spec => []TypeOK
<1>1. TypeInv => TypeOK
  BY DEF TypeInv, FlagsTyped, HeldTyped, QueuesTyped, TypeOK
<1> QED BY <1>1, TypeInit, TypeStep, PTL DEF Spec

-----------------------------------------------------------------------------

\* The windows, the send thread and the queue have the entries in order.
OrderInv ==
  /\ Increasing(shown) /\ Increasing(sendQ)
  /\ \A j \in DOMAIN shown, k \in DOMAIN sendQ : shown[j] < sendQ[k]
  /\ sending # 0 =>
       /\ \A j \in DOMAIN shown : shown[j] < sending
       /\ \A k \in DOMAIN sendQ : sending < sendQ[k]

AsyncInv == ~sync => OrderInv

LEMMA OrderStep == TypeInv /\ AsyncInv /\ [Next]_vars => AsyncInv'
<1> SUFFICES ASSUME TypeInv, AsyncInv, [Next]_vars, ~sync' PROVE OrderInv'
  BY DEF AsyncInv
<1>t. /\ queued \in Nat /\ sending \in Nat
      /\ sendQ \in Seq(Nat) /\ \A k \in DOMAIN sendQ : sendQ[k] <= queued
      /\ shown \in Seq(Nat) /\ \A j \in DOMAIN shown : shown[j] <= queued
      /\ sending <= queued
  BY MoreEntries DEF TypeInv, QueuesTyped
<1>0. CASE UNCHANGED <<sendQ, sending, shown, sync>>
  BY <1>0 DEF AsyncInv, OrderInv, Increasing
<1>a. ASSUME AddLogContentToQueue, UNCHANGED sync PROVE OrderInv'
  <2>1. sendQ' = Append(sendQ, queued + 1) /\ shown' = shown /\ sending' = sending /\ OrderInv
    BY <1>a DEF AddLogContentToQueue, AsyncInv
  <2>2. Increasing(sendQ')
    BY <2>1, <1>t, IncreasingAppend DEF OrderInv
  <2>3. \A k \in DOMAIN sendQ' : (k \in DOMAIN sendQ /\ sendQ'[k] = sendQ[k]) \/ sendQ'[k] = queued + 1
    BY <2>1, <1>t
  <2> QED BY <2>1, <2>2, <2>3, <1>t DEF OrderInv, Increasing
<1>1. CASE SetClientName \/ PrintToConsole
  BY <1>1, <1>a DEF SetClientName, PrintToConsole, settings
<1>2. CASE Release \/ SetSyncSendLog \/ BeginPrint \/ ToggleWindow
  BY <1>2, <1>0 DEF Release, SetSyncSendLog, BeginPrint, ToggleWindow, sendVars, settings
<1>3. CASE Clear \/ ClearLogContent
  <2>1. (sendQ' = <<>>) /\ shown' = shown /\ sending' = sending /\ OrderInv
    BY <1>3 DEF Clear, ClearLogContent, AsyncInv, sendFrame, settings
  <2> QED BY <2>1 DEF OrderInv, Increasing
<1>4. CASE SendLoop \/ ExistLogServer \/ Rest
  BY <1>4, <1>0 DEF SendLoop, ExistLogServer, Rest, sendFrame, settings
<1>5. CASE Poll
  <2>1. CASE UNCHANGED <<sendQ, sending>>
    BY <1>5, <2>1, <1>0 DEF Poll, sendFrame, settings
  <2>2. CASE sendQ # <<>> /\ sending' = Head(sendQ) /\ sendQ' = Tail(sendQ)
    <3>1. shown' = shown /\ OrderInv
      BY <1>5 DEF Poll, AsyncInv, sendFrame, settings
    <3>2. /\ Increasing(Tail(sendQ))
          /\ \A k \in DOMAIN Tail(sendQ) : Head(sendQ) < Tail(sendQ)[k]
          /\ \A k \in DOMAIN Tail(sendQ) : k + 1 \in DOMAIN sendQ /\ Tail(sendQ)[k] = sendQ[k + 1]
      BY <2>2, <3>1, <1>t, IncreasingTail DEF OrderInv
    <3>3. \A j \in DOMAIN shown : shown[j] < Head(sendQ)
      BY <2>2, <3>1, <1>t DEF OrderInv
    <3> QED BY <2>2, <3>1, <3>2, <3>3 DEF OrderInv, Increasing
  <2> QED BY <1>5, <2>1, <2>2 DEF Poll
<1>6. CASE SendOne
  <2>1. sending' = 0 /\ sendQ' = sendQ /\ sending # 0 /\ OrderInv
    BY <1>6 DEF SendOne, TypeInv, HeldTyped, AsyncInv, sendFrame, settings
  <2>2. CASE shown' = shown
    BY <2>1, <2>2 DEF OrderInv, Increasing
  <2>3. CASE shown' = Append(shown, sending)
    <3>1. Increasing(shown')
      BY <2>1, <2>3, <1>t, IncreasingAppend DEF OrderInv
    <3>2. \A j \in DOMAIN shown' : (j \in DOMAIN shown /\ shown'[j] = shown[j]) \/ shown'[j] = sending
      BY <2>3, <1>t
    <3> QED BY <2>1, <3>1, <3>2 DEF OrderInv, Increasing
  <2> QED BY <1>6, <2>2, <2>3 DEF SendOne, SendLogToForm
<1>7. CASE UNCHANGED vars
  BY <1>7, <1>0 DEF vars, sendVars, settings
<1> QED BY <1>1, <1>2, <1>3, <1>4, <1>5, <1>6, <1>7 DEF Next, Sending

\* Until synchronous sending is chosen, what the windows got, what the send
\* thread holds and what is queued is in the order of printing.
THEOREM InOrder == Spec => []ShownInOrder
<1>1. Init => AsyncInv
  BY DEF Init, AsyncInv, OrderInv, Increasing
<1>2. TypeInv /\ AsyncInv => ShownInOrder
  <2> SUFFICES ASSUME TypeInv, OrderInv
               PROVE  Increasing(shown \o (IF sending = 0 THEN <<>> ELSE <<sending>>) \o sendQ)
    BY DEF AsyncInv, ShownInOrder
  <2> DEFINE held == IF sending = 0 THEN <<>> ELSE <<sending>>
  <2>1. /\ shown \in Seq(Nat) /\ sendQ \in Seq(Nat) /\ sending \in Nat /\ held \in Seq(Nat)
    BY MoreEntries DEF TypeInv, QueuesTyped
  <2>2. Increasing(held) /\ \A k \in DOMAIN held : sending # 0 /\ held[k] = sending
    BY <2>1 DEF Increasing
  <2> HIDE DEF held
  <2>3. shown \o held \in Seq(Nat) /\ Increasing(shown \o held)
    BY <2>1, <2>2, IncreasingConcat DEF OrderInv
  <2>4. \A j \in DOMAIN (shown \o held) :
          \/ j \in DOMAIN shown /\ (shown \o held)[j] = shown[j]
          \/ sending # 0 /\ (shown \o held)[j] = sending
    <3> SUFFICES ASSUME NEW j \in DOMAIN (shown \o held), j > Len(shown)
                 PROVE  sending # 0 /\ (shown \o held)[j] = sending
      BY <2>1
    <3>1. j - Len(shown) \in DOMAIN held /\ (shown \o held)[j] = held[j - Len(shown)]
      BY <2>1
    <3> QED BY <3>1, <2>2
  <2>5. \A j \in DOMAIN (shown \o held), k \in DOMAIN sendQ : (shown \o held)[j] < sendQ[k]
    BY <2>4 DEF OrderInv
  <2>6. Increasing((shown \o held) \o sendQ)
    BY <2>1, <2>3, <2>5, IncreasingConcat DEF OrderInv
  <2> QED BY <2>6 DEF held
<1> QED BY <1>1, <1>2, TypeInit, TypeStep, OrderStep, PTL DEF Spec

-----------------------------------------------------------------------------
(* AsyncDb.                                                                *)

\* The types without the bound on the queue, which a caller that is about to
\* queue counts for.
Typed ==
  /\ bRun \in BOOLEAN /\ joinable \in BOOLEAN /\ ctl \in {"idle", "join"} /\ runs \in 0 .. MaxRuns
  /\ lock \in SUBSET Threads /\ mtx \in SUBSET Threads
  /\ dbPc \in [Threads -> DbLabels]
  /\ handles \in [Threads -> SUBSET {"env", "dbc", "stmt"}] /\ sqlFaults \in 0 .. MaxFaults

\* The same for the statements.
QueueTyped ==
  /\ asked \in 0 .. MaxQueued /\ queue \in Seq(1 .. MaxQueued) /\ tried \in Seq(1 .. MaxQueued)
  /\ inHand \in 0 .. MaxQueued

Wanting == {u \in Callers : dbPc[u] = "want"}
Room == asked + Cardinality(Wanting) <= MaxQueued

\* The thread has a statement in hand exactly when it is about to execute it or
\* does.
HandInv == inHand # 0 <=> dbPc[Async] \in {"mutex"} \cup InSQL

\* A thread that is not joinable has ended; one that is started has been told to
\* run, or is being waited for.
CtlInv ==
  /\ ~joinable => dbPc[Async] = "idle" /\ ~bRun
  /\ ctl = "join" => joinable /\ ~bRun
  /\ ctl = "idle" /\ joinable => bRun

DbTypeInv == Typed /\ QueueTyped /\ Room /\ HandInv /\ CtlInv

-----------------------------------------------------------------------------

\* A step of ExcuteSQL moves one thread, and touches no statement unless it is
\* the asynchronous thread's last.
LEMMA SQLShape ==
  ASSUME Typed, NEW t \in Threads, SQL(t)
  PROVE  /\ dbPc[t] \in {"mutex"} \cup InSQL
         /\ \/ dbPc' = [dbPc EXCEPT ![t] = dbPc'[t]] /\ dbPc'[t] \in InSQL /\ UNCHANGED <<tried, inHand>>
            \/ Return(t)
         /\ UNCHANGED <<ctlVars, queue, asked, lock>>
<1> USE DEF Typed, Move, ctlVars, queueVars, InSQL, DbLabels
<1>1. CASE EnterMutex(t)
  BY <1>1 DEF EnterMutex
<1>2. CASE InitializeSQLEnv(t)
  BY <1>2 DEF InitializeSQLEnv, Call
<1>3. CASE Statement(t)
  BY <1>3 DEF Statement, Call
<1>4. CASE FreeMem(t)
  <2>1. CASE Return(t)
    BY <2>1 DEF Return
  <2>2. CASE Free(t, "free_stmt", "stmt", "free_dbc") \/ Free(t, "free_dbc", "dbc", "free_env")
    BY <2>2 DEF Free
  <2> QED BY <1>4, <2>1, <2>2 DEF FreeMem
<1> QED BY <1>1, <1>2, <1>3, <1>4 DEF SQL

LEMMA SQLTyped ==
  ASSUME Typed, NEW t \in Threads, SQL(t)
  PROVE  Typed'
<1> USE DbBoundsAssumption DEF Typed, Move, ctlVars, queueVars, InSQL, DbLabels
<1>1. CASE EnterMutex(t)
  BY <1>1 DEF EnterMutex
<1>2. CASE InitializeSQLEnv(t)
  BY <1>2 DEF InitializeSQLEnv, Call, Alloc
<1>3. CASE Statement(t)
  BY <1>3 DEF Statement, Call, Alloc
<1>4. CASE FreeMem(t)
  BY <1>4 DEF FreeMem, Free, Return
<1> QED BY <1>1, <1>2, <1>3, <1>4 DEF SQL

\* Every step keeps the types.
LEMMA TypedStep ==
  ASSUME Typed, [DbNext]_dbVars
  PROVE  Typed'
<1> USE DbBoundsAssumption DEF Typed, Move, ctlVars, queueVars, sqlVars, DbLabels, Threads
<1>1. CASE RunAsyncThread
  BY <1>1 DEF RunAsyncThread
<1>2. CASE StopAsyncThread
  BY <1>2 DEF StopAsyncThread
<1>3. CASE Join
  BY <1>3 DEF Join
<1>4. CASE Top \/ LockQueue \/ Take
  BY <1>4 DEF Top, LockQueue, Take
<1>5. ASSUME NEW t \in Callers, AsyncExcuteSQL(t) \/ Push(t) \/ ExcuteSQL(t)
      PROVE  Typed'
  BY <1>5 DEF AsyncExcuteSQL, Push, ExcuteSQL
<1>6. ASSUME NEW t \in Threads, SQL(t)
      PROVE  Typed'
  BY <1>6, SQLTyped
<1>7. CASE UNCHANGED dbVars
  BY <1>7 DEF dbVars
<1> QED BY <1>1, <1>2, <1>3, <1>4, <1>5, <1>6, <1>7 DEF DbNext, AsyncThread

\* A caller that is about to queue counts for the bound, so the queue stays
\* within it.
LEMMA RoomStep ==
  ASSUME Typed, QueueTyped, Room, [DbNext]_dbVars
  PROVE  Room' /\ asked' \in 0 .. MaxQueued
<1>1. IsFiniteSet(Wanting) /\ Cardinality(Wanting) \in Nat
  BY CallersAssumption, FS_Subset, FS_CardinalityType DEF Wanting
<1>2. asked \in Nat /\ MaxQueued \in Nat
  BY DbBoundsAssumption DEF QueueTyped
<1> SUFFICES Room' /\ (asked' = asked \/ asked' = asked + 1)
  <2>1. IsFiniteSet(Wanting') /\ Cardinality(Wanting') \in Nat
    BY CallersAssumption, FS_Subset, FS_CardinalityType DEF Wanting
  <2> QED BY <1>2, <2>1 DEF Room
<1>3. ASSUME NEW t \in Callers, AsyncExcuteSQL(t)
      PROVE  Room' /\ asked' = asked
  <2>1. asked' = asked /\ t \notin Wanting /\ Wanting' = Wanting \cup {t}
    BY <1>3 DEF AsyncExcuteSQL, Move, Wanting, Typed, Threads, queueVars
  <2>2. Cardinality(Wanting') = Cardinality(Wanting) + 1
    BY <2>1, <1>1, FS_AddElement
  <2>3. asked + Cardinality(Wanting) < MaxQueued
    BY <1>3 DEF AsyncExcuteSQL, Wanting
  <2> QED BY <2>1, <2>2, <2>3, <1>1, <1>2 DEF Room
<1>4. ASSUME NEW t \in Callers, Push(t)
      PROVE  Room' /\ asked' = asked + 1
  <2>1. asked' = asked + 1 /\ t \in Wanting /\ Wanting' = Wanting \ {t}
    BY <1>4 DEF Push, Move, Wanting, Typed, Threads
  <2>2. Cardinality(Wanting') = Cardinality(Wanting) - 1
    BY <2>1, <1>1, FS_RemoveElement
  <2> QED BY <2>1, <2>2, <1>1, <1>2 DEF Room
<1>5. ASSUME Wanting' = Wanting, asked' = asked
      PROVE  Room' /\ asked' = asked
  BY <1>5 DEF Room
<1>6. CASE RunAsyncThread \/ StopAsyncThread \/ Join \/ Top \/ LockQueue \/ Take
  <2>1. asked' = asked /\ \A u \in Callers : dbPc'[u] = dbPc[u]
    BY <1>6, CallersAssumption DEF RunAsyncThread, StopAsyncThread, Join, Top, LockQueue, Take,
      Move, Typed, Threads, queueVars
  <2> QED BY <1>5, <2>1 DEF Wanting
<1>7. ASSUME NEW t \in Callers, ExcuteSQL(t)
      PROVE  Room' /\ asked' = asked
  <2>1. asked' = asked /\ dbPc[t] = "idle" /\ dbPc' = [dbPc EXCEPT ![t] = "mutex"]
    BY <1>7 DEF ExcuteSQL, Move, queueVars
  <2> QED BY <1>5, <2>1 DEF Wanting, Typed, Threads
<1>8. ASSUME NEW t \in Threads, SQL(t)
      PROVE  Room' /\ asked' = asked
  <2>1. asked' = asked /\ dbPc[t] # "want"
    BY <1>8, SQLShape DEF InSQL
  <2>2. PICK l : l # "want" /\ dbPc' = [dbPc EXCEPT ![t] = l]
    BY <1>8, SQLShape DEF Return, Move, InSQL
  <2>3. \A u \in Callers : dbPc'[u] = "want" <=> dbPc[u] = "want"
    BY <2>1, <2>2 DEF Typed, Threads
  <2> QED BY <1>5, <2>1, <2>3 DEF Wanting
<1>9. CASE UNCHANGED dbVars
  BY <1>9, <1>5 DEF dbVars, queueVars, Wanting
<1> QED BY <1>3, <1>4, <1>6, <1>7, <1>8, <1>9 DEF DbNext, AsyncThread, Threads

\* The statements keep their types.
LEMMA QueueTypedStep ==
  ASSUME Typed, QueueTyped, Room, HandInv, [DbNext]_dbVars
  PROVE  QueueTyped'
<1> USE DEF QueueTyped
<1>0. MaxQueued \in Nat
  BY DbBoundsAssumption
<1>1. asked' \in 0 .. MaxQueued
  BY RoomStep
<1>2. CASE Take
  <2>1. queue # <<>> => Head(queue) \in 1 .. MaxQueued /\ Tail(queue) \in Seq(1 .. MaxQueued)
    BY <1>0
  <2>2. CASE queue = <<>>
    BY <1>1, <1>2, <2>2 DEF Take
  <2>3. CASE queue # <<>>
    <3>1. queue' = Tail(queue) /\ inHand' = Head(queue) /\ tried' = tried
      BY <1>2, <2>3 DEF Take
    <3> QED BY <1>0, <1>1, <2>1, <2>3, <3>1
  <2> QED BY <2>2, <2>3
<1>3. ASSUME NEW t \in Callers, Push(t)
      PROVE  QueueTyped'
  <2>1. asked' \in 1 .. MaxQueued /\ queue' = Append(queue, asked')
    BY <1>0, <1>1, <1>3 DEF Push
  <2>2. queue' \in Seq(1 .. MaxQueued)
    BY <2>1
  <2> QED BY <1>1, <1>3, <2>2 DEF Push
<1>4. ASSUME NEW t \in Threads, SQL(t)
      PROVE  QueueTyped'
  <2>1. CASE UNCHANGED <<tried, inHand>>
    BY <1>4, <2>1, <1>1, SQLShape
  <2>2. CASE Return(t) /\ t = Async
    <3>1. inHand \in 1 .. MaxQueued
      BY <2>2 DEF Return, HandInv, InSQL
    <3>2. Append(tried, inHand) \in Seq(1 .. MaxQueued)
      BY <3>1
    <3>3. tried' = Append(tried, inHand) /\ inHand' = 0 /\ queue' = queue
      BY <2>2 DEF Return
    <3> QED BY <1>0, <1>1, <3>2, <3>3
  <2>3. CASE Return(t) /\ t # Async
    BY <1>1, <2>3 DEF Return
  <2> QED BY <1>4, <2>1, <2>2, <2>3, SQLShape
<1>5. CASE RunAsyncThread \/ StopAsyncThread \/ Join \/ Top \/ LockQueue \/ UNCHANGED dbVars
  BY <1>5 DEF RunAsyncThread, StopAsyncThread, Join, Top, LockQueue, dbVars, queueVars
<1>6. ASSUME NEW t \in Callers, AsyncExcuteSQL(t) \/ ExcuteSQL(t)
      PROVE  QueueTyped'
  BY <1>6 DEF AsyncExcuteSQL, ExcuteSQL, queueVars
<1> QED BY <1>2, <1>3, <1>4, <1>5, <1>6 DEF DbNext, AsyncThread, Threads

\* What the thread has in hand goes with where it is.
LEMMA HandStep ==
  ASSUME Typed, QueueTyped, HandInv, CtlInv, [DbNext]_dbVars
  PROVE  HandInv' /\ CtlInv'
<1> USE DEF HandInv, CtlInv, Move, InSQL, ctlVars
<1>1. Async \in Threads /\ Async \notin Callers
  BY CallersAssumption DEF Threads
<1>2. dbPc \in [Threads -> DbLabels] /\ ctl \in {"idle", "join"} /\ joinable \in BOOLEAN /\ bRun \in BOOLEAN
  BY DEF Typed
<1>3. ASSUME RunAsyncThread \/ StopAsyncThread \/ Join \/ Top \/ LockQueue
      PROVE  HandInv' /\ CtlInv'
  BY <1>1, <1>2, <1>3 DEF RunAsyncThread, StopAsyncThread, Join, Top, LockQueue
<1>4. ASSUME Take
      PROVE  HandInv' /\ CtlInv'
  <2>1. queue # <<>> => Head(queue) # 0
    BY DbBoundsAssumption DEF QueueTyped
  <2> QED BY <1>1, <1>2, <1>4, <2>1 DEF Take
<1>5. ASSUME NEW t \in Callers, AsyncExcuteSQL(t) \/ Push(t) \/ ExcuteSQL(t)
      PROVE  HandInv' /\ CtlInv'
  <2>1. dbPc'[Async] = dbPc[Async] /\ inHand' = inHand
    BY <1>1, <1>2, <1>5 DEF AsyncExcuteSQL, Push, ExcuteSQL
  <2>2. UNCHANGED ctlVars
    BY <1>5 DEF AsyncExcuteSQL, Push, ExcuteSQL
  <2> QED BY <2>1, <2>2
<1>6. ASSUME NEW t \in Threads, SQL(t)
      PROVE  HandInv' /\ CtlInv'
  <2>1. UNCHANGED ctlVars /\ dbPc[t] # "idle"
    BY <1>6, SQLShape
  <2>2. CASE Return(t)
    BY <1>1, <1>2, <2>1, <2>2 DEF Return
  <2>3. CASE dbPc' = [dbPc EXCEPT ![t] = dbPc'[t]] /\ dbPc'[t] \in InSQL /\ UNCHANGED <<tried, inHand>>
    <3>1. dbPc[t] \in {"mutex"} \cup InSQL
      BY <1>6, SQLShape
    <3>2. CASE t = Async
      BY <1>2, <2>1, <2>3, <3>1, <3>2
    <3>3. CASE t # Async
      BY <1>1, <1>2, <2>1, <2>3, <3>3
    <3> QED BY <3>2, <3>3
  <2> QED BY <1>6, <2>2, <2>3, SQLShape
<1>7. CASE UNCHANGED dbVars
  BY <1>7 DEF dbVars
<1>8. CASE AsyncThread
  BY <1>1, <1>3, <1>4, <1>6, <1>8 DEF AsyncThread
<1> QED BY <1>3, <1>5, <1>6, <1>7, <1>8 DEF DbNext, Threads

LEMMA DbTypeInit ==
  ASSUME DbInit
  PROVE  DbTypeInv
<1>1. MaxQueued \in Nat /\ MaxRuns \in Nat /\ MaxFaults \in Nat
  BY DbBoundsAssumption
<1>2. Typed /\ QueueTyped
  <2>1. dbPc \in [Threads -> DbLabels] /\ handles \in [Threads -> SUBSET {"env", "dbc", "stmt"}]
    BY DEF DbInit, DbLabels
  <2>2. queue \in Seq(1 .. MaxQueued) /\ tried \in Seq(1 .. MaxQueued)
    BY DEF DbInit
  <2>3. QueueTyped
    BY <1>1, <2>2 DEF DbInit, QueueTyped
  <2>4. runs \in 0 .. MaxRuns /\ sqlFaults \in 0 .. MaxFaults
    BY <1>1 DEF DbInit
  <2>5. Typed
    BY <2>1, <2>4 DEF DbInit, Typed
  <2> QED BY <2>3, <2>5
<1>3. HandInv /\ CtlInv
  BY DEF DbInit, HandInv, CtlInv, InSQL, Threads
<1>4. Wanting = {}
  BY DEF DbInit, Wanting, Threads
<1> QED BY <1>1, <1>2, <1>3, <1>4, FS_EmptySet DEF DbInit, Room, DbTypeInv

LEMMA DbTypeStep ==
  ASSUME DbTypeInv, [DbNext]_dbVars
  PROVE  DbTypeInv'
BY TypedStep, QueueTypedStep, RoomStep, HandStep DEF DbTypeInv

LEMMA TypeInvariant ==
  DbSpec => []DbTypeInv
BY DbTypeInit, DbTypeStep, PTL DEF DbSpec

\* The state of CBaseDbManager has its types; in particular no more is queued
\* than the bound, and a statement in hand is one that was queued.
THEOREM DbTypeCorrect ==
  DbSpec => []DbTypeOK
<1>1. DbTypeInv => DbTypeOK
  BY DEF DbTypeInv, Typed, QueueTyped, DbTypeOK
<1> QED BY <1>1, TypeInvariant, PTL

\* StopAsyncThread returns when its thread has ended (std::thread::join), and
\* a start needs one that has: no thread outlives its stop.
THEOREM NoThreadLeft ==
  DbSpec => []StoppedIsGone
<1>1. DbTypeInv => StoppedIsGone
  BY DEF DbTypeInv, CtlInv, StoppedIsGone
<1> QED BY <1>1, TypeInvariant, PTL

-----------------------------------------------------------------------------
(* The handles.                                                             *)

\* A thread is between ExcuteSQL's first call and its last exactly while it is
\* in _Mtx, and one thread at most is.
MtxInv ==
  /\ \A t \in Threads : dbPc[t] \in InSQL <=> t \in mtx
  /\ \A t \in mtx, u \in mtx : t = u

Nested(h) == ("stmt" \in h => "dbc" \in h) /\ ("dbc" \in h => "env" \in h)

\* Which handles a thread has at each place: an allocation finds what it
\* depends on, and FreeMem works from the last one back.
HandlesInv ==
  \A t \in Threads :
    /\ Nested(handles[t])
    /\ dbPc[t] \in {"attr", "dbc"} => "env" \in handles[t]
    /\ dbPc[t] \in {"connect", "stmt"} => "dbc" \in handles[t]
    /\ dbPc[t] = "free_dbc" => "stmt" \notin handles[t]
    /\ dbPc[t] = "free_env" => handles[t] \subseteq {"env"}
    /\ dbPc[t] \notin InSQL => handles[t] = {}

\* Only ExcuteSQL touches the mutex and the handles, and it moves one thread.
LEMMA OutsideSQL ==
  ASSUME Typed, CtlInv, [DbNext]_dbVars, ~\E t \in Threads : SQL(t)
  PROVE  /\ mtx' = mtx /\ handles' = handles
         /\ \A t \in Threads : dbPc'[t] = dbPc[t] \/ (dbPc[t] \notin InSQL /\ dbPc'[t] \notin InSQL)
<1> USE DEF Typed, Move, sqlVars, InSQL
<1> DEFINE Goal ==
  /\ mtx' = mtx /\ handles' = handles
  /\ \A t \in Threads : dbPc'[t] = dbPc[t] \/ (dbPc[t] \notin InSQL /\ dbPc'[t] \notin InSQL)
<1>1. RunAsyncThread => Goal
  BY DEF RunAsyncThread, CtlInv
<1>2. StopAsyncThread \/ Join \/ UNCHANGED dbVars => Goal
  BY DEF StopAsyncThread, Join, dbVars
<1>3. Top \/ LockQueue \/ Take => Goal
  BY DEF Top, LockQueue, Take
<1>4. \A t \in Callers : AsyncExcuteSQL(t) \/ Push(t) \/ ExcuteSQL(t) => Goal
  BY DEF AsyncExcuteSQL, Push, ExcuteSQL
<1> HIDE DEF Goal
<1>5. Goal
  BY <1>1, <1>2, <1>3, <1>4 DEF DbNext, AsyncThread, Threads
<1> QED BY <1>5 DEF Goal

\* A step of ExcuteSQL changes the handles of its own thread alone, and the
\* mutex only at its ends.
LEMMA InsideSQL ==
  ASSUME Typed, NEW t \in Threads, SQL(t)
  PROVE  /\ \A u \in Threads \ {t} : dbPc'[u] = dbPc[u] /\ handles'[u] = handles[u]
         /\ \/ EnterMutex(t)
            \/ Return(t)
            \/ mtx' = mtx /\ dbPc[t] \in InSQL /\ dbPc'[t] \in InSQL
<1> USE DEF Typed, Move, InSQL
<1>1. CASE EnterMutex(t)
  BY <1>1 DEF EnterMutex
<1>2. CASE InitializeSQLEnv(t)
  BY <1>2 DEF InitializeSQLEnv, Call, Alloc
<1>3. CASE Statement(t)
  BY <1>3 DEF Statement, Call, Alloc
<1>4. CASE FreeMem(t)
  BY <1>4 DEF FreeMem, Free, Return
<1> QED BY <1>1, <1>2, <1>3, <1>4 DEF SQL

LEMMA MtxStep ==
  ASSUME Typed, CtlInv, MtxInv, [DbNext]_dbVars
  PROVE  MtxInv'
<1>1. CASE ~\E t \in Threads : SQL(t)
  BY <1>1, OutsideSQL DEF MtxInv
<1>2. ASSUME NEW t \in Threads, SQL(t)
      PROVE  MtxInv'
  <2> USE DEF Typed, Move, InSQL, MtxInv
  <2>1. CASE EnterMutex(t)
    BY <2>1 DEF EnterMutex
  <2>2. CASE Return(t)
    BY <2>2 DEF Return
  <2>3. CASE mtx' = mtx /\ dbPc[t] \in InSQL /\ dbPc'[t] \in InSQL
    BY <1>2, <2>3, InsideSQL
  <2> QED BY <1>2, <2>1, <2>2, <2>3, InsideSQL
<1> QED BY <1>1, <1>2

LEMMA HandlesStep ==
  ASSUME Typed, CtlInv, HandlesInv, [DbNext]_dbVars
  PROVE  HandlesInv'
<1> USE DEF Typed, Move, InSQL, HandlesInv, Nested
<1>1. CASE ~\E t \in Threads : SQL(t)
  <2> SUFFICES ASSUME NEW t \in Threads
               PROVE  HandlesInv!(t)'
    OBVIOUS
  <2>1. handles'[t] = handles[t] /\ (dbPc'[t] = dbPc[t] \/ (dbPc[t] \notin InSQL /\ dbPc'[t] \notin InSQL))
    BY <1>1, OutsideSQL
  <2> QED BY <2>1
<1>2. ASSUME NEW t \in Threads, SQL(t)
      PROVE  HandlesInv'
  <2> SUFFICES HandlesInv!(t)'
    BY <1>2, InsideSQL
  <2>1. CASE EnterMutex(t)
    BY <2>1 DEF EnterMutex
  <2>2. CASE InitializeSQLEnv(t)
    <3>1. CASE Call(t, "env", "attr") /\ Alloc(t, "env")
      BY <3>1 DEF Call, Alloc
    <3>2. CASE Call(t, "attr", "dbc") /\ UNCHANGED handles
      BY <3>2 DEF Call
    <3>3. CASE Call(t, "dbc", "connect") /\ Alloc(t, "dbc")
      BY <3>3 DEF Call, Alloc
    <3>4. CASE Call(t, "connect", "stmt") /\ UNCHANGED handles
      BY <3>4 DEF Call
    <3> QED BY <2>2, <3>1, <3>2, <3>3, <3>4 DEF InitializeSQLEnv
  <2>3. CASE Statement(t)
    <3>1. CASE Call(t, "stmt", "execute") /\ Alloc(t, "stmt")
      BY <3>1 DEF Call, Alloc
    <3>2. CASE (Call(t, "execute", "fetch") \/ Call(t, "fetch", "free_stmt")) /\ UNCHANGED handles
      BY <3>2 DEF Call
    <3> QED BY <2>3, <3>1, <3>2 DEF Statement
  <2>4. CASE FreeMem(t)
    <3>1. CASE Free(t, "free_stmt", "stmt", "free_dbc")
      BY <3>1 DEF Free
    <3>2. CASE Free(t, "free_dbc", "dbc", "free_env")
      BY <3>2 DEF Free
    <3>3. CASE Return(t)
      BY <3>3 DEF Return
    <3> QED BY <2>4, <3>1, <3>2, <3>3 DEF FreeMem
  <2> QED BY <1>2, <2>1, <2>2, <2>3, <2>4 DEF SQL
<1> QED BY <1>1, <1>2

LEMMA HandlesInit ==
  ASSUME DbInit
  PROVE  MtxInv /\ HandlesInv
BY DEF DbInit, MtxInv, HandlesInv, Nested, InSQL

LEMMA HandlesInvariant ==
  DbSpec => [](Typed /\ MtxInv /\ HandlesInv)
<1>1. DbTypeInv => Typed /\ CtlInv
  BY DEF DbTypeInv
<1>2. DbTypeInv /\ MtxInv /\ HandlesInv /\ [DbNext]_dbVars => MtxInv' /\ HandlesInv'
  BY <1>1, MtxStep, HandlesStep
<1> QED BY <1>1, <1>2, HandlesInit, TypeInvariant, PTL DEF DbSpec

\* Whatever ODBC call fails, FreeMem frees what had been allocated, the last
\* one first: a handle depends on one that is still there, and a thread that
\* is not in ExcuteSQL has none.  _Mtx is held from the first allocation to the
\* last release, so callers and the thread never have two connections open.
THEOREM HandlesNest ==
  DbSpec => []HandlesNested
<1>1. Typed /\ MtxInv /\ HandlesInv => HandlesNested
  <2> SUFFICES ASSUME Typed, MtxInv, HandlesInv
               PROVE  HandlesNested
    OBVIOUS
  <2>1. \A t \in Threads : "dbc" \in handles[t] => t \in mtx
    BY DEF MtxInv, HandlesInv
  <2>2. \A t \in Threads, u \in Threads : "dbc" \in handles[t] /\ "dbc" \in handles[u] => t = u
    BY <2>1 DEF MtxInv
  <2> QED BY <2>2 DEF HandlesInv, Nested, HandlesNested
<1> QED BY <1>1, HandlesInvariant, PTL

-----------------------------------------------------------------------------
(* The queue.                                                               *)

Hand == IF inHand = 0 THEN <<>> ELSE <<inHand>>
Numbers(n) == [k \in 1 .. n |-> k]

LEMMA AppendNumber ==
  ASSUME NEW n \in Nat
  PROVE  Append(Numbers(n), n + 1) = Numbers(n + 1)
BY DEF Numbers

\* Where a statement may go without changing the order: from the queue's head
\* to the hand, and from the hand to the end of those gone through with.
LEMMA PushOrder ==
  ASSUME NEW S, NEW a \in Seq(S), NEW b \in Seq(S), NEW c \in Seq(S), NEW x \in S
  PROVE  a \o b \o Append(c, x) = Append(a \o b \o c, x)
OBVIOUS

LEMMA TakeOrder ==
  ASSUME NEW S, NEW a \in Seq(S), NEW c \in Seq(S), c # <<>>
  PROVE  a \o <<Head(c)>> \o Tail(c) = a \o <<>> \o c
OBVIOUS

LEMMA ReturnOrder ==
  ASSUME NEW S, NEW a \in Seq(S), NEW c \in Seq(S), NEW x \in S
  PROVE  Append(a, x) \o <<>> \o c = a \o <<x>> \o c
OBVIOUS

LEMMA DbOrderStep ==
  ASSUME DbTypeInv, Queued1by1, [DbNext]_dbVars
  PROVE  Queued1by1'
<1>1. Async \in Threads /\ Async \notin Callers /\ MaxQueued \in Nat
  BY CallersAssumption, DbBoundsAssumption DEF Threads
<1>2. /\ queue \in Seq(1 .. MaxQueued) /\ tried \in Seq(1 .. MaxQueued)
      /\ asked \in Nat /\ inHand \in 0 .. MaxQueued
      /\ asked' \in 0 .. MaxQueued
  BY <1>1, RoomStep DEF DbTypeInv, QueueTyped
<1>3. Hand \in Seq(1 .. MaxQueued)
  <2>1. CASE inHand = 0
    BY <2>1 DEF Hand
  <2>2. CASE inHand # 0
    <3>1. inHand \in 1 .. MaxQueued
      BY <1>1, <1>2, <2>2
    <3> QED BY <2>2, <3>1 DEF Hand
  <2> QED BY <2>1, <2>2
<1>4. tried \o Hand \o queue = Numbers(asked)
  BY DEF Queued1by1, Hand, Numbers
<1> SUFFICES tried' \o Hand' \o queue' = Numbers(asked')
  BY DEF Queued1by1, Hand, Numbers
<1>5. ASSUME UNCHANGED <<tried, inHand, queue, asked>>
      PROVE  tried' \o Hand' \o queue' = Numbers(asked')
  BY <1>4, <1>5 DEF Hand
<1>6. ASSUME NEW t \in Callers, Push(t)
      PROVE  tried' \o Hand' \o queue' = Numbers(asked')
  <2>1. tried' = tried /\ Hand' = Hand /\ asked' = asked + 1 /\ queue' = Append(queue, asked + 1)
    BY <1>6 DEF Push, Hand
  <2>2. asked + 1 \in 1 .. MaxQueued
    BY <1>2, <2>1
  <2>3. tried \o Hand \o Append(queue, asked + 1) = Append(tried \o Hand \o queue, asked + 1)
    BY <1>2, <1>3, <2>2, PushOrder, SMTT(40)
  <2>4. Append(Numbers(asked), asked + 1) = Numbers(asked + 1)
    BY <1>2, AppendNumber
  <2> QED BY <1>4, <2>1, <2>3, <2>4
<1>7. ASSUME Take
      PROVE  tried' \o Hand' \o queue' = Numbers(asked')
  <2>1. CASE queue = <<>>
    BY <1>5, <1>7, <2>1 DEF Take
  <2>2. CASE queue # <<>>
    <3>1. inHand = 0
      BY <1>7 DEF Take, DbTypeInv, HandInv, InSQL
    <3>2. tried' = tried /\ inHand' = Head(queue) /\ queue' = Tail(queue) /\ asked' = asked
      BY <1>7, <2>2 DEF Take
    <3>3. Head(queue) # 0
      BY <1>1, <1>2, <2>2
    <3>4. Hand = <<>> /\ Hand' = <<Head(queue)>>
      BY <3>1, <3>2, <3>3 DEF Hand
    <3>5. tried \o <<Head(queue)>> \o Tail(queue) = tried \o <<>> \o queue
      BY <1>2, <2>2, TakeOrder
    <3> QED BY <1>4, <3>2, <3>4, <3>5
  <2> QED BY <2>1, <2>2
<1>8. ASSUME NEW t \in Threads, SQL(t)
      PROVE  tried' \o Hand' \o queue' = Numbers(asked')
  <2>1. UNCHANGED <<queue, asked>> /\ (UNCHANGED <<tried, inHand>> \/ Return(t))
    BY <1>8, SQLShape DEF DbTypeInv
  <2>2. CASE UNCHANGED <<tried, inHand>>
    BY <1>5, <2>1, <2>2
  <2>3. CASE Return(t) /\ t # Async
    BY <1>5, <2>1, <2>3 DEF Return
  <2>4. CASE Return(t) /\ t = Async
    <3>1. inHand # 0
      BY <2>4 DEF Return, DbTypeInv, HandInv, InSQL
    <3>2. tried' = Append(tried, inHand) /\ inHand' = 0
      BY <2>4 DEF Return
    <3>3. Hand = <<inHand>> /\ Hand' = <<>>
      BY <3>1, <3>2 DEF Hand
    <3>4. inHand \in 1 .. MaxQueued
      BY <1>1, <1>2, <3>1
    <3>5. Append(tried, inHand) \o <<>> \o queue = tried \o <<inHand>> \o queue
      BY <1>2, <3>4, ReturnOrder
    <3> QED BY <1>4, <2>1, <3>2, <3>3, <3>5
  <2> QED BY <2>1, <2>2, <2>3, <2>4
<1>9. CASE RunAsyncThread \/ StopAsyncThread \/ Join \/ Top \/ LockQueue \/ UNCHANGED dbVars
  BY <1>5, <1>9 DEF RunAsyncThread, StopAsyncThread, Join, Top, LockQueue, dbVars, queueVars
<1>10. ASSUME NEW t \in Callers, AsyncExcuteSQL(t) \/ ExcuteSQL(t)
      PROVE  tried' \o Hand' \o queue' = Numbers(asked')
  BY <1>5, <1>10 DEF AsyncExcuteSQL, ExcuteSQL, queueVars
<1> QED BY <1>6, <1>7, <1>8, <1>9, <1>10 DEF DbNext, AsyncThread, Threads

\* The queue under CThreadLock keeps the statements: each is gone through with
\* once and in the order of queueing, also when the thread is stopped with some
\* left and started again.
THEOREM QueueKept ==
  DbSpec => []Queued1by1
<1>1. DbInit => Queued1by1
  BY DEF DbInit, Queued1by1
<1>2. DbTypeInv /\ Queued1by1 /\ [DbNext]_dbVars => Queued1by1'
  BY DbOrderStep
<1> QED BY <1>1, <1>2, TypeInvariant, PTL DEF DbSpec
=============================================================================

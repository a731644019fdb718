-------------------------- MODULE ServerConn_proofs --------------------------
(***************************************************************************)
(* Proofs about ServerConn, for any workers and clients, any number of     *)
(* sends and any faults: the type invariant, that the receive side of a    *)
(* client has one user at a time, and that no client is released twice.    *)
(* For a server that sends nothing also: that the count of a client's      *)
(* operations is exact, that nothing uses a client after its release and   *)
(* that a client on line is listened to.                                   *)
(***************************************************************************)
EXTENDS ServerConn, TLAPS

\* A store of a decremented count follows a load of a positive one.
LoadedPositive == \A w \in Workers : pc[w] = "dec_store" => tmp[w] > 0

WorkersInv == WorkersTyped /\ LoadedPositive
DataTyped ==
  /\ server \in {"running", "stopping", "down"}
  /\ clients \subseteq Clients /\ freed \in [Clients -> Nat]
  /\ obj \in [Clients -> Obj] /\ io \in [Clients -> Io] /\ link \in [Clients -> Link]
TypeInv == DataTyped /\ WorkersInv

-----------------------------------------------------------------------------
(* How the moves of a worker keep its variables typed.                       *)

LEMMA HandlerLabel == \A k, r : Handler(k, r) \in Continuations
  BY DEF Handler, Continuations

LEMMA ContinuationsAreLabels ==
  /\ Continuations \subseteq Labels /\ "idle" \in Labels
  /\ "dec_store" \notin Continuations
  BY DEF Continuations, Labels

LEMMA GotoTyped ==
  ASSUME WorkersInv, NEW w \in Workers, NEW l \in Labels, l # "dec_store",
         pc[w] # "idle", Goto(w, l)
  PROVE  WorkersInv'
  BY DEF WorkersInv, WorkersTyped, LoadedPositive, Goto

LEMMA ReturnTyped ==
  ASSUME WorkersInv, NEW w \in Workers, Return(w)
  PROVE  WorkersInv'
<1>1. NoJob \in Job
  BY DEF NoJob, Job, Kinds, Results
<1>2. "idle" \in Labels /\ "idle" \in Continuations
  BY DEF Labels, Continuations
<1> QED BY <1>1, <1>2 DEF WorkersInv, WorkersTyped, LoadedPositive, Return

LEMMA CallTyped ==
  ASSUME WorkersInv, NEW w \in Workers, NEW l \in {"inc", "dec"},
         NEW n \in Continuations, pc[w] # "idle", Call(w, l, n)
  PROVE  WorkersInv'
<1>1. l \in Labels
  BY DEF Labels
<1> QED BY <1>1 DEF WorkersInv, WorkersTyped, LoadedPositive, Call

LEMMA TakeTyped ==
  ASSUME WorkersInv, NEW w \in Workers, NEW c \in Clients, NEW k \in Kinds, NEW r \in Results,
         Take(w, c, k, r)
  PROVE  WorkersInv'
<1>1. "dec" \in Labels
  BY DEF Labels
<1>2. [cli |-> c, kind |-> k, res |-> r] \in Job
  BY DEF Job
<1> QED BY <1>1, <1>2, HandlerLabel
        DEF WorkersInv, WorkersTyped, LoadedPositive, Take

LEMMA IdleWorkers ==
  ASSUME WorkersInv, UNCHANGED workerVars
  PROVE  WorkersInv'
  BY DEF WorkersInv, WorkersTyped, LoadedPositive, workerVars

\* The result of PostRecv sends a worker back to OnClose or ends its callback.
LEMMA PostRecvFailedTyped ==
  ASSUME WorkersInv, NEW w \in Workers, pc[w] # "idle", PostRecvFailed(w)
  PROVE  WorkersInv'
<1>1. "close" \in Labels
  BY DEF Labels
<1> QED BY <1>1, GotoTyped, ReturnTyped DEF PostRecvFailed

-----------------------------------------------------------------------------
LEMMA TypeInit == Init => TypeInv
  BY DEF Init, TypeInv, DataTyped, WorkersInv, WorkersTyped, LoadedPositive, NoJob,
         Obj, Io, Link, Job, Labels, Continuations, Kinds, Results

LEMMA TypeStep == TypeInv /\ [Next]_vars => TypeInv'
<1> SUFFICES ASSUME TypeInv, [Next]_vars PROVE TypeInv'
  OBVIOUS
<1> USE DEF TypeInv
<1>1. ASSUME NEW w \in Workers, Callback(w) PROVE TypeInv'
  <2> DEFINE c == job[w].cli
  <2>c. pc[w] # "idle" => c \in Clients
    BY DEF WorkersInv, WorkersTyped
  <2>l. {"echo", "post", "close", "erase"} \subseteq Labels
    BY DEF Labels
  <2>k. {"arm", "unarm", "echo", "send"} \subseteq Continuations
    BY DEF Continuations
  <2>1. CASE Load(w)
    <3>1. pc[w] \in {"inc", "dec"} /\ UNCHANGED <<server, clients, freed, obj, io, link>>
      BY <2>1 DEF Load
    <3>2. cont[w] \in Continuations
      BY DEF WorkersInv, WorkersTyped
    <3>3. obj[c].ref \in Nat
      BY <2>c, <3>1 DEF DataTyped, Obj
    <3>4. CASE pc[w] = "dec" /\ obj[c].ref = 0
      <4>1. Goto(w, cont[w])
        BY <2>1, <3>4 DEF Load
      <4> QED BY <3>1, <3>2, <4>1, GotoTyped, ContinuationsAreLabels DEF DataTyped
    <3>5. CASE ~(pc[w] = "dec" /\ obj[c].ref = 0)
      <4>1. /\ tmp' = [tmp EXCEPT ![w] = obj[c].ref]
            /\ pc' = [pc EXCEPT ![w] = IF @ = "inc" THEN "inc_store" ELSE "dec_store"]
            /\ UNCHANGED <<job, cont>>
        BY <2>1, <3>5 DEF Load
      <4>2. {"inc_store", "dec_store"} \subseteq Labels
        BY DEF Labels
      <4>3. WorkersTyped'
        BY <2>c, <3>1, <3>3, <4>1, <4>2 DEF WorkersInv, WorkersTyped
      <4>4. LoadedPositive'
        BY <3>1, <3>3, <3>5, <4>1 DEF WorkersInv, WorkersTyped, LoadedPositive
      <4> QED BY <3>1, <4>3, <4>4 DEF DataTyped, WorkersInv
    <3> QED BY <3>4, <3>5
  <2>2. CASE Store(w)
    <3>1. /\ pc[w] \in {"inc_store", "dec_store"}
          /\ Goto(w, cont[w])
          /\ UNCHANGED <<server, clients, freed, io, link>>
      BY <2>2 DEF Store
    <3>2. cont[w] \in Continuations /\ tmp[w] \in Nat
      BY DEF WorkersInv, WorkersTyped
    <3>3. (IF pc[w] = "inc_store" THEN tmp[w] + 1 ELSE tmp[w] - 1) \in Nat
      BY <3>1, <3>2 DEF WorkersInv, LoadedPositive
    <3>4. obj' \in [Clients -> Obj]
      BY <2>2, <2>c, <3>1, <3>3 DEF Store, DataTyped, Obj
    <3> QED BY <3>1, <3>2, <3>4, GotoTyped, ContinuationsAreLabels DEF DataTyped
  <2>3. CASE Finish(w)
    BY <2>3, ReturnTyped DEF Finish, DataTyped
  <2>4. CASE AddClient(w)
    <3>1. obj' \in [Clients -> Obj]
      <4>1. c \in Clients
        BY <2>4, <2>c DEF AddClient
      <4>2. [obj[c] EXCEPT !.online = TRUE, !.stale = FALSE] \in Obj
        BY <4>1, ZenonT(40) DEF DataTyped, Obj
      <4> QED BY <2>4, <4>1, <4>2 DEF AddClient, DataTyped
    <3> QED BY <2>4, <2>l, <3>1, GotoTyped, ReturnTyped DEF AddClient, DataTyped
  <2>5. CASE Receive(w)
    <3>1. obj' \in [Clients -> Obj]
      BY <2>5, <2>c DEF Receive, DataTyped, Obj
    <3> QED BY <2>5, <2>l, <3>1, GotoTyped DEF Receive, DataTyped
  <2>6. CASE TimedOut(w)
    BY <2>6, <2>l, GotoTyped, ReturnTyped DEF TimedOut, DataTyped
  <2>7. CASE Echo(w)
    <3>1. obj' \in [Clients -> Obj] /\ link' \in [Clients -> Link]
      <4>1. ASSUME NEW s \in {obj[c].stale, FALSE}, obj' = [obj EXCEPT ![c].stale = s]
            PROVE  obj' \in [Clients -> Obj]
        <5>1. c \in Clients
          BY <2>7, <2>c DEF Echo
        <5>2. s \in BOOLEAN
          BY <5>1 DEF DataTyped, Obj
        <5> QED BY <4>1, <5>1, <5>2 DEF DataTyped, Obj
      <4>2. ASSUME link' = [link EXCEPT ![c].sent = @ + 1] PROVE link' \in [Clients -> Link]
        <5>1. c \in Clients
          BY <2>7, <2>c DEF Echo
        <5>2. [link[c] EXCEPT !.sent = @ + 1] \in Link
          BY <5>1 DEF DataTyped, Link
        <5> QED BY <4>2, <5>1, <5>2 DEF DataTyped
      <4> QED BY <2>7, <4>1, <4>2 DEF Echo, DataTyped
    <3>2. pc[w] = "echo" /\ UNCHANGED <<server, clients, freed, io>>
      BY <2>7 DEF Echo
    <3>3. Goto(w, "post") \/ Goto(w, "close") \/ Call(w, "inc", "send")
      BY <2>7 DEF Echo
    <3> QED BY <2>l, <2>k, <3>1, <3>2, <3>3, GotoTyped, CallTyped DEF DataTyped
  <2>8. CASE Send(w)
    <3>1. io' \in [Clients -> Io]
      BY <2>8, <2>c DEF Send, DataTyped, Io
    <3> QED BY <2>8, <2>l, <2>k, <3>1, GotoTyped, CallTyped DEF Send, DataTyped
  <2>9. CASE PostRecv(w)
    BY <2>9, <2>k, CallTyped, PostRecvFailedTyped DEF PostRecv, DataTyped
  <2>10. CASE Arm(w)
    <3>1. obj' \in [Clients -> Obj]
      BY <2>10, <2>c DEF Arm, DataTyped, Obj
    <3>2. io' \in [Clients -> Io]
      BY <2>10, <2>c DEF Arm, DataTyped, Io
    <3> QED BY <2>10, <2>k, <3>1, <3>2, ReturnTyped, CallTyped DEF Arm, DataTyped
  <2>11. CASE Unarm(w)
    <3>1. obj' \in [Clients -> Obj]
      BY <2>11, <2>c DEF Unarm, DataTyped, Obj
    <3> QED BY <2>11, <3>1, PostRecvFailedTyped DEF Unarm, DataTyped
  <2>12. CASE Close(w)
    BY <2>12, <2>l, GotoTyped, ReturnTyped DEF Close, DataTyped
  <2>13. CASE Erase(w)
    <3>1. freed' \in [Clients -> Nat]
      BY <2>13, <2>c DEF Erase, DataTyped
    <3>2. io' \in [Clients -> Io]
      <4>1. [accept |-> FALSE, recv |-> 0, send |-> 0] \in Io
        BY DEF Io
      <4> QED BY <2>13, <2>c, <4>1 DEF Erase, DataTyped
    <3>3. link' \in [Clients -> Link]
      <4>1. c \in Clients
        BY <2>13, <2>c DEF Erase
      <4>2. link' = [link EXCEPT ![c].sock = "closed"] \/ link' = link
        BY <2>13 DEF Erase
      <4> QED BY <4>1, <4>2 DEF DataTyped, Link
    <3> QED BY <2>13, <3>1, <3>2, <3>3, ReturnTyped DEF Erase, DataTyped
  <2> QED BY <1>1, <2>1, <2>2, <2>3, <2>4, <2>5, <2>6, <2>7, <2>8, <2>9, <2>10,
             <2>11, <2>12, <2>13 DEF Callback
<1>2. ASSUME NEW w \in Workers, FreedFault(w) PROVE TypeInv'
  BY <1>2, ReturnTyped DEF FreedFault, DataTyped
<1>3. ASSUME NEW w \in Workers, NEW c \in Clients, Completion(w, c) PROVE TypeInv'
  <2>1. \E k \in Kinds, r \in Results : Take(w, c, k, r)
    BY <1>3 DEF Completion, TakeAccept, TakeData, TakeEnd, TakeTimeout, TakeSend, Kinds, Results
  <2>2. WorkersInv'
    BY <2>1, TakeTyped
  <2>3. UNCHANGED <<server, clients, freed, obj>>
    BY <2>1 DEF Take
  <2>4. io' \in [Clients -> Io]
    <3>1. \/ io' = [io EXCEPT ![c].accept = FALSE]
          \/ io[c].recv > 0 /\ io' = [io EXCEPT ![c].recv = @ - 1]
          \/ io[c].send > 0 /\ io' = [io EXCEPT ![c].send = @ - 1]
      BY <1>3 DEF Completion, TakeAccept, TakeData, TakeEnd, TakeTimeout, TakeSend
    <3>2. CASE io' = [io EXCEPT ![c].accept = FALSE]
      BY <3>2 DEF DataTyped, Io
    <3>3. CASE io[c].recv > 0 /\ io' = [io EXCEPT ![c].recv = @ - 1]
      BY <3>3 DEF DataTyped, Io
    <3>4. CASE io[c].send > 0 /\ io' = [io EXCEPT ![c].send = @ - 1]
      BY <3>4 DEF DataTyped, Io
    <3> QED BY <3>1, <3>2, <3>3, <3>4
  <2>5. link' \in [Clients -> Link]
    BY <1>3 DEF Completion, TakeAccept, TakeData, TakeEnd, TakeTimeout, TakeSend, DataTyped, Link
  <2> QED BY <2>2, <2>3, <2>4, <2>5 DEF DataTyped
<1>4. ASSUME NEW c \in Clients, PostAccept(c) PROVE TypeInv'
  <2>1. io' \in [Clients -> Io]
    BY <1>4, ZenonT(40) DEF PostAccept, DataTyped, Io
  <2> QED BY <1>4, <2>1, IdleWorkers DEF PostAccept, DataTyped
<1>5. ASSUME NEW c \in Clients, Silence(c) PROVE TypeInv'
  <2>1. obj' \in [Clients -> Obj]
    BY <1>5 DEF Silence, DataTyped, Obj
  <2> QED BY <1>5, <2>1, IdleWorkers DEF Silence, DataTyped
<1>6. ASSUME NEW c \in Clients, PeerLeaves(c) PROVE TypeInv'
  <2>1. link' \in [Clients -> Link]
    BY <1>6, SMTT(40) DEF PeerLeaves, DataTyped, Link
  <2> QED BY <1>6, <2>1, IdleWorkers DEF PeerLeaves, DataTyped
<1>7. CASE ClearScan
  <2>1. obj' \in [Clients -> Obj] /\ link' \in [Clients -> Link]
    BY <1>7, ZenonT(40) DEF ClearScan, DataTyped, Obj, Link
  <2> QED BY <1>7, <2>1, IdleWorkers DEF ClearScan, DataTyped
<1>8. CASE StopServer
  BY <1>8, IdleWorkers DEF StopServer, DataTyped
<1>9. CASE StopServerWaited
  <2>1. io' \in [Clients -> Io]
    BY <1>9 DEF StopServerWaited, DataTyped, Io
  <2> QED BY <1>9, <2>1, IdleWorkers DEF StopServerWaited, DataTyped
<1>10. CASE UNCHANGED vars
  BY <1>10, IdleWorkers DEF vars, DataTyped, workerVars
<1> QED BY <1>1, <1>2, <1>3, <1>4, <1>5, <1>6, <1>7, <1>8, <1>9, <1>10 DEF Next

\* Every variable keeps its type; in particular a count is never decremented
\* below zero, although the test for zero and the store are separate steps.
THEOREM TypeCorrect == Spec => []TypeOK
<1>1. TypeInv => TypeOK
  BY DEF TypeInv, TypeOK, DataTyped, WorkersInv
<1> QED BY <1>1, TypeInit, TypeStep, PTL DEF Spec

-----------------------------------------------------------------------------
(* No client is released twice.                                              *)

\* A client in the set was not released, and one outside was at most once.
OnceInv == \A c \in Clients : freed[c] <= 1 /\ (c \in clients => freed[c] = 0)

LEMMA OnceStep == TypeInv /\ OnceInv /\ [Next]_vars => OnceInv'
<1> SUFFICES ASSUME TypeInv, OnceInv, [Next]_vars PROVE OnceInv'
  OBVIOUS
<1> USE DEF OnceInv
<1>1. CASE UNCHANGED <<clients, freed>>
  BY <1>1
<1>2. ASSUME NEW w \in Workers, Erase(w), clients' # clients PROVE OnceInv'
  <2>1. job[w].cli \in Clients
    BY <1>2 DEF Erase, TypeInv, WorkersInv, WorkersTyped
  <2>2. /\ job[w].cli \in clients
        /\ clients' = clients \ {job[w].cli}
        /\ freed' = [freed EXCEPT ![job[w].cli] = @ + 1]
    BY <1>2 DEF Erase
  <2>3. freed \in [Clients -> Nat]
    BY DEF TypeInv, DataTyped
  <2> QED BY <2>1, <2>2, <2>3
<1>3. ASSUME NEW c \in Clients, PostAccept(c) PROVE OnceInv'
  BY <1>3 DEF PostAccept
<1>4. ASSUME NEW w \in Workers, Erase(w), clients' = clients PROVE OnceInv'
  <2>1. UNCHANGED <<clients, freed>>
    BY <1>4 DEF Erase
  <2> QED BY <2>1, <1>1
<1>5. ASSUME NEW w \in Workers, Callback(w) PROVE Erase(w) \/ UNCHANGED <<clients, freed>>
  BY <1>5 DEF Callback, Load, Store, Finish, AddClient, Receive, TimedOut, Echo, Send,
              PostRecv, Arm, Unarm, Close
<1>6. ASSUME NEW w \in Workers, NEW c \in Clients, Completion(w, c)
      PROVE  UNCHANGED <<clients, freed>>
  BY <1>6 DEF Completion, TakeAccept, TakeData, TakeEnd, TakeTimeout, TakeSend, Take
<1>7. ASSUME NEW w \in Workers, FreedFault(w) PROVE UNCHANGED <<clients, freed>>
  BY <1>7 DEF FreedFault
<1>8. ASSUME NEW c \in Clients, Silence(c) \/ PeerLeaves(c) PROVE UNCHANGED <<clients, freed>>
  BY <1>8 DEF Silence, PeerLeaves
<1>9. CASE ClearScan \/ StopServer \/ StopServerWaited \/ UNCHANGED vars
  BY <1>9, <1>1 DEF ClearScan, StopServer, StopServerWaited, vars
<1> QED BY <1>1, <1>2, <1>3, <1>4, <1>5, <1>6, <1>7, <1>8, <1>9 DEF Next

\* Whichever callbacks decide at once to close a client, the look-up in the
\* set makes only one of them release it.
THEOREM NoDoubleRelease == Spec => []ReleasedOnce
<1>1. Init => TypeInv /\ OnceInv
  BY TypeInit DEF Init, OnceInv
<1>2. TypeInv /\ OnceInv /\ [Next]_vars => (TypeInv /\ OnceInv)'
  BY TypeStep, OnceStep
<1>3. TypeInv /\ OnceInv => ReleasedOnce
  BY DEF OnceInv, ReleasedOnce
<1> QED BY <1>1, <1>2, <1>3, PTL DEF Spec

-----------------------------------------------------------------------------
(* The receive side of a client has one user at a time.                      *)

OwnsReceive(w) == job[w].kind \in {"accept", "recv"}

\* A worker that handles a send's completion only counts it and closes.
KindInv ==
  \A w \in Workers : pc[w] # "idle" /\ ~OwnsReceive(w) =>
    /\ pc[w] \in {"dec", "dec_store", "return", "close", "erase"}
    /\ pc[w] \in {"dec", "dec_store"} => cont[w] \in {"return", "close"}

\* Nothing is outstanding on a client before PostAccept makes it.
FreshInv ==
  \A c \in Clients : c \notin clients /\ freed[c] = 0 =>
    /\ io[c].recv = 0 /\ io[c].send = 0 /\ ~io[c].accept
    /\ \A w \in Workers : ~Handles(w, c)

LEMMA KindStep == TypeInv /\ KindInv /\ [Next]_vars => KindInv'
<1> SUFFICES ASSUME TypeInv, KindInv, [Next]_vars PROVE KindInv'
  OBVIOUS
<1>t. /\ pc \in [Workers -> Labels] /\ job \in [Workers -> Job]
      /\ cont \in [Workers -> Continuations]
  BY DEF TypeInv, WorkersInv, WorkersTyped
<1> USE DEF KindInv, OwnsReceive
<1>1. ASSUME NEW w \in Workers, Callback(w) PROVE KindInv'
  <2> USE DEF Goto, Call, Return, NoJob
  <2>1. CASE Load(w)       BY <2>1, <1>t DEF Load
  <2>2. CASE Store(w)      BY <2>2, <1>t DEF Store
  <2>3. CASE Finish(w)     BY <2>3, <1>t DEF Finish
  <2>4. CASE AddClient(w)  BY <2>4, <1>t DEF AddClient
  <2>5. CASE Receive(w)    BY <2>5, <1>t DEF Receive
  <2>6. CASE TimedOut(w)   BY <2>6, <1>t DEF TimedOut
  <2>7. CASE Echo(w)       BY <2>7, <1>t DEF Echo
  <2>8. CASE Send(w)       BY <2>8, <1>t DEF Send
  <2>9. CASE PostRecv(w)   BY <2>9, <1>t DEF PostRecv, PostRecvFailed
  <2>10. CASE Arm(w)       BY <2>10, <1>t DEF Arm
  <2>11. CASE Unarm(w)     BY <2>11, <1>t DEF Unarm, PostRecvFailed
  <2>12. CASE Close(w)     BY <2>12, <1>t DEF Close
  <2>13. CASE Erase(w)     BY <2>13, <1>t DEF Erase
  <2> QED BY <1>1, <2>1, <2>2, <2>3, <2>4, <2>5, <2>6, <2>7, <2>8, <2>9, <2>10,
             <2>11, <2>12, <2>13 DEF Callback
<1>2. ASSUME NEW w \in Workers, FreedFault(w) PROVE KindInv'
  BY <1>2, <1>t DEF FreedFault, Return
<1>3. ASSUME NEW w \in Workers, NEW c \in Clients, Completion(w, c) PROVE KindInv'
  <2>1. PICK k \in Kinds, r \in Results : Take(w, c, k, r) /\ k # "none"
    BY <1>3 DEF Completion, TakeAccept, TakeData, TakeEnd, TakeTimeout, TakeSend, Kinds, Results
  <2>2. k \notin {"accept", "recv"} => Handler(k, r) \in {"return", "close"}
    BY DEF Handler
  <2> QED BY <2>1, <2>2, <1>t DEF Take
<1>4. CASE UNCHANGED workerVars
  BY <1>4 DEF workerVars
<1>5. ASSUME NEW c \in Clients, PostAccept(c) \/ Silence(c) \/ PeerLeaves(c)
      PROVE  UNCHANGED workerVars
  BY <1>5 DEF PostAccept, Silence, PeerLeaves
<1>6. CASE ClearScan \/ StopServer \/ StopServerWaited \/ UNCHANGED vars
  BY <1>6, <1>4 DEF ClearScan, StopServer, StopServerWaited, vars, workerVars
<1> QED BY <1>1, <1>2, <1>3, <1>4, <1>5, <1>6 DEF Next

\* No worker takes up a client, and none changes the job it has.
NoNewJobs ==
  \A u \in Workers : pc'[u] # "idle" => pc[u] # "idle" /\ job'[u] = job[u]

\* No receive or accept is added to what the kernel has for c.
NoNewReceive(c) == io'[c].recv <= io[c].recv /\ (io'[c].accept => io[c].accept)

\* A step of a callback touches the kernel's operations of its own client only;
\* of these it adds a receive only by WSARecv; and it brings no client back.
LEMMA CallbackShape ==
  ASSUME TypeInv, NEW w \in Workers, Callback(w) \/ FreedFault(w)
  PROVE  /\ job[w].cli \in Clients /\ pc[w] # "idle"
         /\ NoNewJobs
         /\ \A c \in Clients \ {job[w].cli} : io'[c] = io[c]
         /\ Arm(w) \/ NoNewReceive(job[w].cli)
         /\ \A c \in Clients : c \notin clients' /\ freed'[c] = 0 =>
                                 c \notin clients /\ freed[c] = 0
<1>t. /\ pc \in [Workers -> Labels] /\ job \in [Workers -> Job]
      /\ pc[w] # "idle" => job[w].cli \in Clients
      /\ io \in [Clients -> Io] /\ freed \in [Clients -> Nat]
  BY DEF TypeInv, WorkersInv, WorkersTyped, DataTyped
<1>r. \A c \in Clients : io[c].recv \in Nat
  BY <1>t DEF Io
<1>1. pc[w] # "idle"
  BY DEF Callback, Load, Store, Finish, AddClient, Receive, TimedOut, Echo, Send, PostRecv,
         Arm, Unarm, Close, Erase, FreedFault
<1>2. Goto(w, pc'[w]) \/ Return(w) \/ Load(w) \/ (\E l, n \in Labels : Call(w, l, n))
  BY DEF Callback, Store, Finish, AddClient, Receive, TimedOut, Echo, Send, PostRecv,
         PostRecvFailed, Arm, Unarm, Close, Erase, FreedFault, Goto, Labels
<1>3. NoNewJobs
  BY <1>t, <1>1, <1>2 DEF NoNewJobs, Goto, Return, Call, Load
<1>4. CASE UNCHANGED <<clients, freed, io>>
  BY <1>t, <1>r, <1>1, <1>3, <1>4 DEF NoNewReceive
<1>5. CASE Send(w)
  <2>1. UNCHANGED <<clients, freed>>
    BY <1>5 DEF Send
  <2>2. io' = [io EXCEPT ![job[w].cli].send = @ + 1] \/ io' = io
    BY <1>5 DEF Send
  <2>3. NoNewReceive(job[w].cli) /\ \A c \in Clients \ {job[w].cli} : io'[c] = io[c]
    BY <2>2, <1>1, <1>t, <1>r DEF NoNewReceive, Io
  <2> QED BY <2>1, <2>3, <1>t, <1>1, <1>3
<1>6. CASE Arm(w)
  <2>1. UNCHANGED <<clients, freed>>
    BY <1>6 DEF Arm
  <2>2. io' = [io EXCEPT ![job[w].cli].recv = @ + 1] \/ io' = io
    BY <1>6 DEF Arm
  <2> QED BY <2>1, <2>2, <1>6, <1>t, <1>1, <1>3
<1>7. CASE Erase(w)
  <2> DEFINE c0 == job[w].cli
  <2>1. \/ UNCHANGED <<clients, freed, io>>
        \/ /\ clients' = clients \ {c0}
           /\ freed' = [freed EXCEPT ![c0] = @ + 1]
           /\ io' = [io EXCEPT ![c0] = [accept |-> FALSE, recv |-> 0, send |-> 0]]
    BY <1>7 DEF Erase
  <2>2. CASE /\ clients' = clients \ {c0}
             /\ freed' = [freed EXCEPT ![c0] = @ + 1]
             /\ io' = [io EXCEPT ![c0] = [accept |-> FALSE, recv |-> 0, send |-> 0]]
    <3>1. freed'[c0] > 0 /\ \A c \in Clients \ {c0} : freed'[c] = freed[c]
      BY <2>2, <1>t, <1>1
    <3>2. NoNewReceive(c0) /\ \A c \in Clients \ {c0} : io'[c] = io[c]
      BY <2>2, <1>t, <1>1, <1>r DEF NoNewReceive
    <3> QED BY <2>2, <3>1, <3>2, <1>t, <1>1, <1>3
  <2> QED BY <2>1, <2>2, <1>4
<1> QED BY <1>4, <1>5, <1>6, <1>7 DEF Callback, Load, Store, Finish, AddClient, Receive,
           TimedOut, Echo, PostRecv, Unarm, Close, FreedFault

\* A completion gives an idle worker one operation of one client, which leaves
\* the kernel.
LEMMA CompletionShape ==
  ASSUME TypeInv, NEW w \in Workers, NEW c0 \in Clients, Completion(w, c0)
  PROVE  /\ UNCHANGED <<clients, freed>>
         /\ \A c \in Clients \ {c0} : io'[c] = io[c]
         /\ pc'[w] = "dec" /\ job'[w].cli = c0
         /\ \A u \in Workers \ {w} : pc'[u] = pc[u] /\ job'[u] = job[u]
         /\ \/ /\ job'[w].kind = "accept" /\ io[c0].accept
               /\ ~io'[c0].accept /\ io'[c0].recv = io[c0].recv
            \/ /\ job'[w].kind = "recv" /\ io[c0].recv > 0
               /\ io'[c0].recv = io[c0].recv - 1 /\ io'[c0].accept = io[c0].accept
            \/ /\ job'[w].kind = "send" /\ io[c0].send > 0
               /\ io'[c0].recv = io[c0].recv /\ io'[c0].accept = io[c0].accept
<1>t. /\ pc \in [Workers -> Labels] /\ job \in [Workers -> Job] /\ io \in [Clients -> Io]
  BY DEF TypeInv, WorkersInv, WorkersTyped, DataTyped
<1>1. \/ \E r : Take(w, c0, "accept", r) /\ io[c0].accept
              /\ io' = [io EXCEPT ![c0].accept = FALSE]
      \/ \E r : Take(w, c0, "recv", r) /\ io[c0].recv > 0
              /\ io' = [io EXCEPT ![c0].recv = @ - 1]
      \/ \E r : Take(w, c0, "send", r) /\ io[c0].send > 0
              /\ io' = [io EXCEPT ![c0].send = @ - 1]
  BY DEF Completion, TakeAccept, TakeData, TakeEnd, TakeTimeout, TakeSend
<1>2. ASSUME NEW k, NEW r, Take(w, c0, k, r)
      PROVE  /\ UNCHANGED <<clients, freed>>
             /\ pc'[w] = "dec" /\ job'[w].cli = c0 /\ job'[w].kind = k
             /\ \A u \in Workers \ {w} : pc'[u] = pc[u] /\ job'[u] = job[u]
  BY <1>2, <1>t DEF Take
<1>3. CASE \E r : Take(w, c0, "accept", r) /\ io[c0].accept
               /\ io' = [io EXCEPT ![c0].accept = FALSE]
  BY <1>2, <1>3, <1>t DEF Io
<1>4. CASE \E r : Take(w, c0, "recv", r) /\ io[c0].recv > 0
               /\ io' = [io EXCEPT ![c0].recv = @ - 1]
  BY <1>2, <1>4, <1>t DEF Io
<1>5. CASE \E r : Take(w, c0, "send", r) /\ io[c0].send > 0
               /\ io' = [io EXCEPT ![c0].send = @ - 1]
  BY <1>2, <1>5, <1>t DEF Io
<1> QED BY <1>1, <1>3, <1>4, <1>5

LEMMA FreshStep == TypeInv /\ FreshInv /\ [Next]_vars => FreshInv'
<1> SUFFICES ASSUME TypeInv, FreshInv, [Next]_vars PROVE FreshInv'
  OBVIOUS
<1>t. /\ clients \subseteq Clients /\ freed \in [Clients -> Nat] /\ io \in [Clients -> Io]
      /\ \A c \in Clients : io[c].recv \in Nat /\ io[c].send \in Nat
  BY DEF TypeInv, DataTyped, Io
<1> USE DEF FreshInv, Handles
<1>1. ASSUME NEW w \in Workers, Callback(w) \/ FreedFault(w) PROVE FreshInv'
  BY <1>1, CallbackShape DEF NoNewJobs
<1>2. ASSUME NEW w \in Workers, NEW c0 \in Clients, Completion(w, c0) PROVE FreshInv'
  <2>1. c0 \in clients \/ freed[c0] # 0
    BY <1>2, <1>t, CompletionShape
  <2> QED BY <1>2, <2>1, CompletionShape
<1>3. ASSUME NEW c0 \in Clients, PostAccept(c0) PROVE FreshInv'
  <2>1. \A c \in Clients \ {c0} : io'[c] = io[c]
    BY <1>3, <1>t DEF PostAccept
  <2> QED BY <1>3, <2>1 DEF PostAccept, workerVars
<1>4. CASE UNCHANGED <<clients, freed, io, workerVars>>
  BY <1>4 DEF workerVars
<1>5. ASSUME NEW c \in Clients, Silence(c) \/ PeerLeaves(c) PROVE FreshInv'
  BY <1>5, <1>4 DEF Silence, PeerLeaves
<1>6. CASE StopServerWaited
  <2>1. \A c \in Clients : io'[c].recv = io[c].recv /\ io'[c].send = io[c].send /\ ~io'[c].accept
    BY <1>6, <1>t DEF StopServerWaited, Io
  <2> QED BY <1>6, <2>1 DEF StopServerWaited, workerVars
<1>7. CASE ClearScan \/ StopServer \/ UNCHANGED vars
  BY <1>7, <1>4 DEF ClearScan, StopServer, vars, workerVars
<1> QED BY <1>1, <1>2, <1>3, <1>5, <1>6, <1>7 DEF Next

\* A step that adds no receive and gives no worker a job keeps the exclusion.
LEMMA ShrinkingKeeps ==
  ASSUME TypeInv, TypeInv', RecvExclusive, NoNewJobs, \A c \in Clients : NoNewReceive(c)
  PROVE  RecvExclusive'
<1>t. \A c \in Clients : io[c].recv \in Nat /\ io'[c].recv \in Nat
  BY DEF TypeInv, DataTyped, Io
<1>1. \A w \in Workers, c \in Clients : Receiving(w, c)' => Receiving(w, c)
  BY DEF Receiving, Handles, NoNewJobs
<1> QED BY <1>t, <1>1 DEF RecvExclusive, NoNewReceive

LEMMA ExclusiveStep ==
  TypeInv /\ KindInv /\ FreshInv /\ RecvExclusive /\ [Next]_vars => RecvExclusive'
<1> SUFFICES ASSUME TypeInv, KindInv, FreshInv, RecvExclusive, [Next]_vars
             PROVE  RecvExclusive'
  OBVIOUS
<1>p. TypeInv'
  BY TypeStep
<1>t. /\ io \in [Clients -> Io] /\ pc \in [Workers -> Labels] /\ job \in [Workers -> Job]
      /\ \A c \in Clients : io[c].recv \in Nat
  BY DEF TypeInv, WorkersInv, WorkersTyped, DataTyped, Io
<1>1. ASSUME NEW w \in Workers, Callback(w) \/ FreedFault(w), NoNewReceive(job[w].cli)
      PROVE  RecvExclusive'
  <2>1. \A c \in Clients : NoNewReceive(c)
    BY <1>1, <1>t, CallbackShape DEF NoNewReceive
  <2> QED BY <1>1, <1>p, <2>1, CallbackShape, ShrinkingKeeps
<1>2. ASSUME NEW w \in Workers, Callback(w), Arm(w) PROVE RecvExclusive'
  <2>1. PICK c0 \in Clients : c0 = job[w].cli /\ pc[w] = "arm"
    BY <1>2, CallbackShape DEF Arm
  <2>2. Receiving(w, c0)
    BY <2>1 DEF KindInv, OwnsReceive, Receiving, Handles
  <2>3. /\ io[c0].recv = 0 /\ ~io[c0].accept
        /\ \A u \in Workers : Receiving(u, c0) => u = w
    BY <2>1, <2>2 DEF RecvExclusive
  <2>4. CASE io' = io
    BY <1>1, <1>2, <2>1, <2>4, <1>t DEF NoNewReceive
  <2>5. CASE io' = [io EXCEPT ![c0].recv = @ + 1] /\ Return(w)
    <3>1. io'[c0].recv = 1 /\ ~io'[c0].accept
      BY <2>1, <2>3, <2>5, <1>t DEF Io
    <3>2. \A c \in Clients \ {c0} : io'[c] = io[c]
      BY <2>5, <1>t
    <3>3. \A u \in Workers, c \in Clients : Receiving(u, c)' => u # w /\ Receiving(u, c)
      BY <2>5, <1>t DEF Return, Receiving, Handles
    <3>4. \A u \in Workers : ~Receiving(u, c0)'
      BY <3>3, <2>3, <2>1
    <3> QED BY <3>1, <3>2, <3>3, <3>4, <2>1 DEF RecvExclusive
  <2> QED BY <1>2, <2>1, <2>4, <2>5 DEF Arm
<1>3. ASSUME NEW w \in Workers, NEW c0 \in Clients, Completion(w, c0) PROVE RecvExclusive'
  <2>1. \A u \in Workers \ {w}, c \in Clients : Receiving(u, c)' => Receiving(u, c)
    BY <1>3, CompletionShape DEF Receiving, Handles
  <2>2. \A c \in Clients \ {c0} : ~Receiving(w, c)' /\ io'[c] = io[c]
    BY <1>3, CompletionShape DEF Receiving, Handles
  <2>3. ASSUME NEW c \in Clients \ {c0}
        PROVE  /\ io'[c].recv <= 1
               /\ io'[c].accept => io'[c].recv = 0
               /\ \A u \in Workers : Receiving(u, c)' => io'[c].recv = 0 /\ ~io'[c].accept
               /\ \A u, v \in Workers : Receiving(u, c)' /\ Receiving(v, c)' => u = v
    BY <2>1, <2>2 DEF RecvExclusive
  <2>4. /\ io'[c0].recv <= 1
        /\ io'[c0].accept => io'[c0].recv = 0
        /\ \A u \in Workers : Receiving(u, c0)' => io'[c0].recv = 0 /\ ~io'[c0].accept
        /\ \A u, v \in Workers : Receiving(u, c0)' /\ Receiving(v, c0)' => u = v
    <3>1. CASE /\ job'[w].kind = "accept" /\ io[c0].accept
               /\ ~io'[c0].accept /\ io'[c0].recv = io[c0].recv
      BY <3>1, <2>1 DEF RecvExclusive
    <3>2. CASE /\ job'[w].kind = "recv" /\ io[c0].recv > 0
               /\ io'[c0].recv = io[c0].recv - 1 /\ io'[c0].accept = io[c0].accept
      BY <3>2, <2>1, <1>t DEF RecvExclusive
    <3>3. CASE /\ job'[w].kind = "send" /\ io[c0].send > 0
               /\ io'[c0].recv = io[c0].recv /\ io'[c0].accept = io[c0].accept
      <4>1. ~Receiving(w, c0)'
        BY <3>3 DEF Receiving
      <4> QED BY <3>3, <4>1, <2>1 DEF RecvExclusive
    <3> QED BY <1>3, <3>1, <3>2, <3>3, CompletionShape
  <2> QED BY <2>3, <2>4 DEF RecvExclusive
<1>4. ASSUME NEW c0 \in Clients, PostAccept(c0) PROVE RecvExclusive'
  <2>1. /\ io[c0].recv = 0 /\ \A u \in Workers : ~Receiving(u, c0)
    BY <1>4 DEF PostAccept, FreshInv, Receiving
  <2>2. io'[c0].recv = 0 /\ \A c \in Clients \ {c0} : io'[c] = io[c]
    BY <1>4, <2>1, <1>t DEF PostAccept, Io
  <2>3. \A u \in Workers, c \in Clients : Receiving(u, c)' <=> Receiving(u, c)
    BY <1>4 DEF PostAccept, workerVars, Receiving, Handles
  <2> QED BY <2>1, <2>2, <2>3 DEF RecvExclusive
<1>5. ASSUME UNCHANGED workerVars, \A c \in Clients : NoNewReceive(c) PROVE RecvExclusive'
  <2>1. NoNewJobs
    BY <1>5 DEF NoNewJobs, workerVars
  <2> QED BY <1>5, <1>p, <2>1, ShrinkingKeeps
<1>6. CASE UNCHANGED <<io, workerVars>>
  BY <1>5, <1>6, <1>t DEF NoNewReceive
<1>7. ASSUME NEW c \in Clients, Silence(c) \/ PeerLeaves(c) PROVE RecvExclusive'
  BY <1>7, <1>6 DEF Silence, PeerLeaves
<1>8. CASE StopServerWaited
  <2>1. \A c \in Clients : io'[c].recv = io[c].recv /\ ~io'[c].accept
    BY <1>8, <1>t DEF StopServerWaited, Io
  <2> QED BY <1>8, <2>1, <1>t, <1>5 DEF StopServerWaited, NoNewReceive
<1>9. CASE ClearScan \/ StopServer \/ UNCHANGED vars
  BY <1>9, <1>6 DEF ClearScan, StopServer, vars, workerVars
<1>10. ASSUME NEW w \in Workers, Callback(w) \/ FreedFault(w) PROVE RecvExclusive'
  <2>1. Arm(w) \/ NoNewReceive(job[w].cli)
    BY <1>10, CallbackShape
  <2>2. Arm(w) => Callback(w)
    BY DEF Callback
  <2> QED BY <1>1, <1>2, <1>10, <2>1, <2>2
<1> QED BY <1>10, <1>3, <1>4, <1>7, <1>8, <1>9 DEF Next

ExclusiveInv == TypeInv /\ KindInv /\ FreshInv /\ RecvExclusive

LEMMA ExclusiveInit == Init => ExclusiveInv
  BY TypeInit DEF Init, ExclusiveInv, KindInv, FreshInv, RecvExclusive, Handles, Receiving

LEMMA ExclusiveInvStep == ExclusiveInv /\ [Next]_vars => ExclusiveInv'
  BY TypeStep, KindStep, FreshStep, ExclusiveStep DEF ExclusiveInv

\* The buffers and the ExistPostRecv flag of a client are used by one callback
\* at a time, whatever the pool's threads, the sends and the failures: the flag
\* and the reassembly buffer need no lock.
THEOREM ReceiveExclusive == Spec => []RecvExclusive
<1>1. ExclusiveInv => RecvExclusive
  BY DEF ExclusiveInv
<1> QED BY <1>1, ExclusiveInit, ExclusiveInvStep, PTL DEF Spec

-----------------------------------------------------------------------------
(* A server whose application sends nothing: MaxSends = 0.  The count of a   *)
(* client, which no lock protects, has one user at a time then.              *)

\* The worker has the reference of the receive that completed or of the one it
\* is about to post.
Counted(w) ==
  \/ pc[w] = "dec" /\ (job[w].kind = "recv" \/ cont[w] = "unarm")
  \/ pc[w] \in {"dec_store", "arm"}

SoloClient(c) ==
  /\ io[c].send = 0
  /\ freed[c] > 0 => io[c].recv = 0 /\ ~io[c].accept

SoloWorker(w) ==
  pc[w] # "idle" =>
    /\ OwnsReceive(w) /\ pc[w] # "send" /\ freed[job[w].cli] = 0
    /\ obj[job[w].cli].ref = IF Counted(w) THEN 1 ELSE 0
    /\ pc[w] = "inc_store" => tmp[w] = 0
    /\ pc[w] = "dec_store" => tmp[w] = 1
    /\ pc[w] \in {"inc", "inc_store"} => cont[w] = "arm"
    /\ pc[w] \in {"dec", "dec_store"} => cont[w] \notin {"arm", "send"}

SoloInv ==
  /\ \A c \in Clients : SoloClient(c)
  /\ \A w \in Workers : SoloWorker(w)

SoloBase == TypeInv /\ RecvExclusive /\ SoloInv /\ RefExact

\* A client has one callback at a time, and nothing outstanding meanwhile.
LEMMA OneCallback ==
  ASSUME SoloBase, NEW w \in Workers, pc[w] # "idle"
  PROVE  /\ job[w].cli \in Clients /\ io[job[w].cli].recv = 0 /\ ~io[job[w].cli].accept
         /\ \A u \in Workers : pc[u] # "idle" /\ job[u].cli = job[w].cli => u = w
<1>1. job[w].cli \in Clients
  BY DEF SoloBase, TypeInv, WorkersInv, WorkersTyped
<1>2. \A u \in Workers : pc[u] # "idle" => OwnsReceive(u)
  BY DEF SoloBase, SoloInv, SoloWorker
<1>3. \A u \in Workers : pc[u] # "idle" /\ job[u].cli = job[w].cli => Receiving(u, job[w].cli)
  BY <1>2 DEF Receiving, Handles, OwnsReceive
<1> QED BY <1>1, <1>3 DEF SoloBase, RecvExclusive

\* What a callback leaves alone.
LEMMA CallbackFrame ==
  ASSUME TypeInv, NEW w \in Workers, Callback(w)
  PROVE  /\ \A u \in Workers \ {w} : pc'[u] = pc[u] /\ job'[u] = job[u] /\ tmp'[u] = tmp[u] /\ cont'[u] = cont[u]
         /\ \A d \in Clients \ {job[w].cli} :
              obj'[d] = obj[d] /\ io'[d] = io[d] /\ freed'[d] = freed[d] /\ link'[d] = link[d]
         /\ UNCHANGED server
<1>t. /\ pc \in [Workers -> Labels] /\ job \in [Workers -> Job] /\ tmp \in [Workers -> Nat]
      /\ cont \in [Workers -> Continuations]
      /\ freed \in [Clients -> Nat] /\ obj \in [Clients -> Obj] /\ io \in [Clients -> Io] /\ link \in [Clients -> Link]
  BY DEF TypeInv, DataTyped, WorkersInv, WorkersTyped
<1>1. Goto(w, pc'[w]) \/ Return(w) \/ Load(w) \/ (\E l, n \in Labels : Call(w, l, n))
  BY DEF Callback, Store, Finish, AddClient, Receive, TimedOut, Echo, Send, PostRecv,
         PostRecvFailed, Arm, Unarm, Close, Erase, Goto, Labels
<1>2. \A u \in Workers \ {w} : pc'[u] = pc[u] /\ job'[u] = job[u] /\ tmp'[u] = tmp[u] /\ cont'[u] = cont[u]
  <2>1. CASE Goto(w, pc'[w])
    BY <2>1, <1>t DEF Goto
  <2>2. CASE Return(w)
    BY <2>2, <1>t DEF Return
  <2>3. CASE Load(w)
    BY <2>3, <1>t DEF Load, Goto
  <2>4. CASE \E l, n \in Labels : Call(w, l, n)
    BY <2>4, <1>t DEF Call
  <2> QED BY <1>1, <2>1, <2>2, <2>3, <2>4
<1>3. ASSUME NEW d \in Clients, d # job[w].cli
      PROVE  obj'[d] = obj[d] /\ io'[d] = io[d] /\ freed'[d] = freed[d] /\ link'[d] = link[d]
  BY <1>3, <1>t DEF Callback, Load, Store, Finish, AddClient, Receive, TimedOut, Echo, Send, PostRecv,
         Arm, Unarm, Close, Erase
<1>4. UNCHANGED server
  BY DEF Callback, Load, Store, Finish, AddClient, Receive, TimedOut, Echo, Send, PostRecv,
         Arm, Unarm, Close, Erase
<1> QED BY <1>2, <1>3, <1>4

\* A callback keeps the count right: what it has of it, and what it leaves.
LEMMA CallbackSolo ==
  ASSUME MaxSends = 0, SoloBase, NEW w \in Workers, Callback(w), NEW c \in Clients, c = job[w].cli
  PROVE  /\ SoloClient(c)' /\ SoloWorker(w)'
         /\ pc'[w] = "idle" /\ freed'[c] = 0 => obj'[c].ref = io'[c].recv + io'[c].send
<1>t. /\ pc \in [Workers -> Labels] /\ job \in [Workers -> Job] /\ tmp \in [Workers -> Nat]
      /\ cont \in [Workers -> Continuations]
      /\ freed \in [Clients -> Nat] /\ obj \in [Clients -> Obj] /\ io \in [Clients -> Io] /\ link \in [Clients -> Link]
  BY DEF SoloBase, TypeInv, DataTyped, WorkersInv, WorkersTyped
<1>1. pc[w] # "idle"
  BY CallbackShape DEF SoloBase
<1>2. /\ io[c].recv = 0 /\ io[c].send = 0 /\ ~io[c].accept /\ freed[c] = 0
      /\ OwnsReceive(w) /\ pc[w] # "send"
      /\ obj[c].ref = IF Counted(w) THEN 1 ELSE 0
      /\ pc[w] = "inc_store" => tmp[w] = 0
      /\ pc[w] = "dec_store" => tmp[w] = 1
      /\ pc[w] \in {"inc", "inc_store"} => cont[w] = "arm"
      /\ pc[w] \in {"dec", "dec_store"} => cont[w] \notin {"arm", "send"}
  BY <1>1, OneCallback DEF SoloBase, SoloInv, SoloClient, SoloWorker
<1>3. obj[c] \in Obj /\ io[c] \in Io /\ link[c] \in Link /\ link[c].sent \in Nat /\ cont[w] \in Continuations
  BY <1>t DEF Link
<1> USE DEF Goto, Call, Return, SoloClient, SoloWorker, Counted, OwnsReceive
<1>4. CASE Load(w)
  <2>1. UNCHANGED <<freed, obj, io, job>>
    BY <1>4 DEF Load
  <2>2. CASE pc[w] = "dec" /\ obj[c].ref = 0
    <3>1. pc' = [pc EXCEPT ![w] = cont[w]] /\ UNCHANGED <<tmp, cont>>
      BY <1>4, <2>2 DEF Load
    <3>2. pc'[w] = cont[w] /\ cont[w] \notin {"arm", "send", "inc", "inc_store", "dec", "dec_store"}
      BY <1>t, <1>2, <1>3, <2>2, <3>1 DEF Continuations
    <3> QED BY <1>2, <2>1, <2>2, <3>2
  <2>3. CASE pc[w] = "dec" /\ obj[c].ref # 0
    <3>1. pc'[w] = "dec_store" /\ tmp'[w] = 1 /\ cont' = cont
      BY <1>t, <1>2, <1>4, <2>3 DEF Load
    <3> QED BY <1>2, <2>1, <2>3, <3>1
  <2>4. CASE pc[w] = "inc"
    <3>1. pc'[w] = "inc_store" /\ tmp'[w] = 0 /\ cont' = cont
      BY <1>t, <1>2, <1>4, <2>4 DEF Load
    <3> QED BY <1>2, <2>1, <2>4, <3>1
  <2> QED BY <1>4, <2>2, <2>3, <2>4 DEF Load
<1>5. CASE Store(w)
  <2>1. UNCHANGED <<freed, io, job, cont>> /\ pc' = [pc EXCEPT ![w] = cont[w]]
    BY <1>5 DEF Store
  <2>2. pc'[w] = cont[w] /\ (pc[w] = "inc_store" \/ pc[w] = "dec_store")
    BY <1>t, <1>5, <2>1 DEF Store
  <2>3. (IF pc[w] = "inc_store" THEN tmp[w] + 1 ELSE tmp[w] - 1) = IF pc[w] = "inc_store" THEN 1 ELSE 0
    BY <1>2, <2>2
  <2>4. obj'[c].ref = IF pc[w] = "inc_store" THEN 1 ELSE 0
    <3> DEFINE n == IF pc[w] = "inc_store" THEN tmp[w] + 1 ELSE tmp[w] - 1
    <3>1. obj' = [obj EXCEPT ![c].ref = n]
      BY <1>5 DEF Store
    <3> HIDE DEF n
    <3>2. obj'[c].ref = n
      BY <1>t, <3>1 DEF Obj
    <3> QED BY <2>3, <3>2 DEF n
  <2>5. cont[w] \notin {"send", "inc", "inc_store", "dec", "dec_store"} /\ (cont[w] = "arm" <=> pc[w] = "inc_store")
    BY <1>2, <1>3, <2>2 DEF Continuations
  <2> QED BY <1>2, <2>1, <2>2, <2>4, <2>5
<1>6. CASE Finish(w)
  BY <1>t, <1>2, <1>6 DEF Finish
<1>7. CASE AddClient(w)
  <2>1. obj'[c].ref = obj[c].ref
    <3> DEFINE v == [obj[c] EXCEPT !.online = TRUE, !.stale = FALSE]
    <3>1. v.ref = obj[c].ref
      BY <1>3 DEF Obj
    <3>2. obj' = [obj EXCEPT ![c] = v] \/ obj' = obj
      BY <1>7 DEF AddClient
    <3> HIDE DEF v
    <3> QED BY <1>t, <3>1, <3>2
  <2> QED BY <1>t, <1>2, <1>7, <2>1 DEF AddClient
<1>8. CASE Receive(w)
  <2>1. obj'[c].ref = obj[c].ref
    BY <1>t, <1>3, <1>8 DEF Receive, Obj
  <2> QED BY <1>t, <1>2, <1>8, <2>1 DEF Receive
<1>9. CASE TimedOut(w)
  BY <1>t, <1>2, <1>9 DEF TimedOut
<1>10. CASE Echo(w)
  <2>1. ~ (link[c].sent < MaxSends)
    BY <1>3
  <2>2. pc[w] = "echo" /\ (Goto(w, "post") \/ Goto(w, "close")) /\ UNCHANGED <<freed, io>>
    BY <1>10, <2>1 DEF Echo
  <2>3. obj' = obj \/ \E b : obj' = [obj EXCEPT ![c].stale = b]
    BY <1>10, <2>1 DEF Echo
  <2>4. obj'[c].ref = obj[c].ref
    BY <1>t, <1>3, <2>3, ZenonT(40) DEF Obj
  <2> QED BY <1>t, <1>2, <2>2, <2>4
<1>11. CASE Send(w)
  BY <1>2, <1>11 DEF Send
<1>12. CASE PostRecv(w)
  BY <1>t, <1>2, <1>12 DEF PostRecv, PostRecvFailed
<1>13. CASE Arm(w)
  <2>1. obj'[c].ref = obj[c].ref /\ obj[c].ref = 1 /\ pc[w] = "arm"
    BY <1>t, <1>2, <1>3, <1>13 DEF Arm, Obj
  <2>2. CASE io' = [io EXCEPT ![c].recv = @ + 1] /\ Return(w)
    <3>1. io'[c].recv = 1 /\ io'[c].send = 0 /\ freed' = freed
      BY <1>t, <1>2, <1>13, <2>2 DEF Io, Arm
    <3> QED BY <1>t, <1>2, <2>1, <2>2, <3>1
  <2>3. CASE Call(w, "dec", "unarm") /\ UNCHANGED io
    BY <1>t, <1>2, <1>13, <2>1, <2>3 DEF Arm
  <2> QED BY <1>13, <2>2, <2>3 DEF Arm
<1>14. CASE Unarm(w)
  <2>1. obj'[c].ref = obj[c].ref
    BY <1>t, <1>3, <1>14 DEF Unarm, Obj
  <2> QED BY <1>t, <1>2, <1>14, <2>1 DEF Unarm, PostRecvFailed
<1>15. CASE Close(w)
  BY <1>t, <1>2, <1>15 DEF Close
<1>16. CASE Erase(w)
  <2>1. Return(w) /\ pc[w] = "erase" /\ obj' = obj
    BY <1>16 DEF Erase
  <2>2. \/ freed' = [freed EXCEPT ![c] = @ + 1] /\ io' = [io EXCEPT ![c] = [accept |-> FALSE, recv |-> 0, send |-> 0]]
        \/ UNCHANGED <<freed, io>>
    BY <1>16 DEF Erase
  <2>3. io'[c].recv = 0 /\ io'[c].send = 0 /\ ~io'[c].accept
    BY <1>t, <1>2, <2>2
  <2> QED BY <1>t, <1>2, <2>1, <2>2, <2>3
<1> QED BY <1>4, <1>5, <1>6, <1>7, <1>8, <1>9, <1>10, <1>11, <1>12, <1>13, <1>14, <1>15, <1>16 DEF Callback

\* A worker nothing happened to has what it had of the count.
LEMMA SameWorker ==
  ASSUME NEW w \in Workers, SoloWorker(w),
         pc'[w] = pc[w] /\ job'[w] = job[w] /\ tmp'[w] = tmp[w] /\ cont'[w] = cont[w],
         pc[w] # "idle" => freed'[job[w].cli] = freed[job[w].cli] /\ obj'[job[w].cli].ref = obj[job[w].cli].ref
  PROVE  SoloWorker(w)'
  BY DEF SoloWorker, Counted, OwnsReceive

\* Nor does a client that nobody handles.
LEMMA SameClients ==
  ASSUME SoloInv, RefExact, UNCHANGED workerVars, freed' = freed,
         \A c \in Clients : /\ obj'[c].ref = obj[c].ref /\ io'[c].recv = io[c].recv /\ io'[c].send = io[c].send
                            /\ freed[c] > 0 /\ io'[c].accept => io[c].accept,
         \A w \in Workers : pc[w] # "idle" => job[w].cli \in Clients
  PROVE  SoloInv' /\ RefExact'
<1>1. \A w \in Workers : SoloWorker(w)'
  BY SameWorker DEF workerVars, SoloInv
<1>2. \A c \in Clients : SoloClient(c)'
  BY DEF SoloInv, SoloClient
<1>3. RefExact'
  BY DEF RefExact, Handled, Handles, workerVars
<1> QED BY <1>1, <1>2, <1>3 DEF SoloInv

LEMMA SoloStep ==
  ASSUME MaxSends = 0, SoloBase, [Next]_vars
  PROVE  SoloInv' /\ RefExact'
<1>b. TypeInv /\ SoloInv /\ RefExact
  BY DEF SoloBase
<1>t. /\ pc \in [Workers -> Labels] /\ job \in [Workers -> Job] /\ tmp \in [Workers -> Nat]
      /\ cont \in [Workers -> Continuations]
      /\ freed \in [Clients -> Nat] /\ obj \in [Clients -> Obj] /\ io \in [Clients -> Io] /\ link \in [Clients -> Link]
      /\ \A u \in Workers : pc[u] # "idle" => job[u].cli \in Clients
  BY <1>b DEF TypeInv, DataTyped, WorkersInv, WorkersTyped
<1>1. ASSUME NEW w \in Workers, Callback(w)
      PROVE  SoloInv' /\ RefExact'
  <2>1. pc[w] # "idle" /\ job[w].cli \in Clients
    BY <1>1, <1>b, CallbackShape
  <2>2. PICK c \in Clients : c = job[w].cli
    BY <2>1
  <2>3. /\ SoloClient(c)' /\ SoloWorker(w)'
        /\ pc'[w] = "idle" /\ freed'[c] = 0 => obj'[c].ref = io'[c].recv + io'[c].send
    BY <1>1, <2>2, CallbackSolo
  <2>4. /\ \A u \in Workers \ {w} : pc'[u] = pc[u] /\ job'[u] = job[u] /\ tmp'[u] = tmp[u] /\ cont'[u] = cont[u]
        /\ \A d \in Clients \ {c} : obj'[d] = obj[d] /\ io'[d] = io[d] /\ freed'[d] = freed[d]
    BY <1>1, <1>b, <2>2, CallbackFrame
  <2>5. \A u \in Workers \ {w} : pc[u] # "idle" => job[u].cli # c
    BY <2>1, <2>2, OneCallback
  <2>6. \A u \in Workers : SoloWorker(u)'
    <3> SUFFICES ASSUME NEW u \in Workers, u # w PROVE SoloWorker(u)'
      BY <2>3
    <3>1. pc[u] # "idle" => freed'[job[u].cli] = freed[job[u].cli] /\ obj'[job[u].cli].ref = obj[job[u].cli].ref
      BY <1>t, <2>4, <2>5
    <3>2. SoloWorker(u)
      BY <1>b DEF SoloInv
    <3> QED BY <2>4, <3>1, <3>2, SameWorker
  <2>7. \A d \in Clients : SoloClient(d)'
    BY <1>b, <2>3, <2>4 DEF SoloInv, SoloClient
  <2>8. RefExact'
    <3> SUFFICES ASSUME NEW d \in Clients, freed'[d] = 0, \A u \in Workers : ~ (pc'[u] # "idle" /\ job'[u].cli = d)
                 PROVE  obj'[d].ref = io'[d].recv + io'[d].send
      BY DEF RefExact, Handled, Handles
    <3>1. CASE d = c
      <4>1. pc'[w] # "idle" => job'[w].cli = c
        BY <1>1, <1>b, <2>2, CallbackShape DEF NoNewJobs
      <4> QED BY <2>3, <3>1, <4>1
    <3>2. CASE d # c
      <4>1. \A u \in Workers : ~ (pc[u] # "idle" /\ job[u].cli = d)
        BY <2>2, <2>4, <3>2
      <4> QED BY <1>b, <2>4, <3>2, <4>1 DEF RefExact, Handled, Handles
    <3> QED BY <3>1, <3>2
  <2> QED BY <2>6, <2>7, <2>8 DEF SoloInv
<1>2. ASSUME NEW w \in Workers, FreedFault(w)
      PROVE  FALSE
  BY <1>2, <1>b DEF FreedFault, SoloInv, SoloWorker
<1>3. ASSUME NEW w \in Workers, NEW c \in Clients, Completion(w, c)
      PROVE  SoloInv' /\ RefExact'
  <2>1. io[c].send = 0 /\ (freed[c] > 0 => io[c].recv = 0 /\ ~io[c].accept) /\ io[c].recv \in Nat
    BY <1>b, <1>t DEF SoloInv, SoloClient, Io
  <2>2. freed[c] = 0 /\ (io[c].recv > 0 \/ io[c].accept)
    BY <1>3, <1>t, <2>1 DEF Completion, TakeAccept, TakeData, TakeEnd, TakeTimeout, TakeSend
  <2>3. \A u \in Workers : ~ (pc[u] # "idle" /\ job[u].cli = c)
    BY <2>1, <2>2, OneCallback
  <2>4. obj[c].ref = io[c].recv
    BY <1>b, <1>t, <2>1, <2>2, <2>3 DEF RefExact, Handled, Handles, Obj
  <2>5. io[c].recv <= 1 /\ (io[c].accept => io[c].recv = 0)
    BY DEF SoloBase, RecvExclusive
  <2>6. PICK kind \in {"accept", "recv"}, res \in Results : Take(w, c, kind, res) /\ (kind = "accept" <=> io[c].accept)
    <3>1. CASE TakeAccept(w, c)
      BY <3>1 DEF TakeAccept, Results
    <3>2. CASE TakeData(w, c) \/ TakeEnd(w, c) \/ TakeTimeout(w, c)
      <4>1. \E res \in Results : Take(w, c, "recv", res)
        BY <3>2 DEF TakeData, TakeEnd, TakeTimeout, Results
      <4>2. ~io[c].accept
        BY <2>5, <3>2 DEF TakeData, TakeEnd, TakeTimeout
      <4> QED BY <4>1, <4>2
    <3>3. ~TakeSend(w, c)
      BY <2>1 DEF TakeSend
    <3> QED BY <1>3, <3>1, <3>2, <3>3 DEF Completion
  <2>7. /\ pc[w] = "idle" /\ pc' = [pc EXCEPT ![w] = "dec"]
        /\ job' = [job EXCEPT ![w] = [cli |-> c, kind |-> kind, res |-> res]]
        /\ cont' = [cont EXCEPT ![w] = Handler(kind, res)]
        /\ UNCHANGED <<server, clients, freed, obj, tmp>>
    BY <2>6 DEF Take
  <2>8. Handler(kind, res) \notin {"arm", "send", "unarm"}
    BY DEF Handler
  <2>9. /\ pc'[w] = "dec" /\ job'[w].cli = c /\ job'[w].kind = kind /\ cont'[w] \notin {"arm", "send", "unarm"}
        /\ \A u \in Workers \ {w} : pc'[u] = pc[u] /\ job'[u] = job[u] /\ tmp'[u] = tmp[u] /\ cont'[u] = cont[u]
    <3> DEFINE h == Handler(kind, res)
    <3>1. cont' = [cont EXCEPT ![w] = h] /\ h \notin {"arm", "send", "unarm"}
      BY <2>7, <2>8
    <3> HIDE DEF h
    <3> QED BY <1>t, <2>7, <3>1
  <2>10. SoloWorker(w)'
    BY <2>2, <2>4, <2>5, <2>6, <2>7, <2>9, <2>1 DEF SoloWorker, OwnsReceive, Counted
  <2>11. \A u \in Workers : SoloWorker(u)'
    <3> SUFFICES ASSUME NEW u \in Workers, u # w PROVE SoloWorker(u)'
      BY <2>10
    <3>1. SoloWorker(u)
      BY <1>b DEF SoloInv
    <3> QED BY <2>7, <2>9, <3>1, SameWorker
  <2>12. \A d \in Clients : io'[d].send = 0 /\ io'[d].recv <= io[d].recv /\ (io'[d].accept => io[d].accept)
                            /\ (d # c => io'[d] = io[d]) /\ io'[d].recv \in Nat
    <3>1. \/ io' = [io EXCEPT ![c].accept = FALSE]
          \/ io[c].recv > 0 /\ io' = [io EXCEPT ![c].recv = @ - 1]
      BY <1>3, <2>1 DEF Completion, TakeAccept, TakeData, TakeEnd, TakeTimeout, TakeSend
    <3>2. \A d \in Clients : io[d].send = 0
      BY <1>b DEF SoloInv, SoloClient
    <3> QED BY <1>t, <3>1, <3>2 DEF Io
  <2>13. \A d \in Clients : SoloClient(d)'
    BY <1>b, <1>t, <2>7, <2>12 DEF SoloInv, SoloClient, Io
  <2>14. RefExact'
    <3> SUFFICES ASSUME NEW d \in Clients, freed'[d] = 0, \A u \in Workers : ~ (pc'[u] # "idle" /\ job'[u].cli = d)
                 PROVE  obj'[d].ref = io'[d].recv + io'[d].send
      BY DEF RefExact, Handled, Handles
    <3>1. d # c
      BY <2>9
    <3>2. \A u \in Workers : ~ (pc[u] # "idle" /\ job[u].cli = d)
      BY <2>7, <2>9
    <3> QED BY <1>b, <2>7, <2>12, <3>1, <3>2 DEF RefExact, Handled, Handles
  <2> QED BY <2>11, <2>13, <2>14 DEF SoloInv
<1>4. ASSUME NEW c \in Clients, PostAccept(c)
      PROVE  SoloInv' /\ RefExact'
  <2>1. io' = [io EXCEPT ![c].accept = TRUE] \/ io' = io
    BY <1>4 DEF PostAccept
  <2>2. freed[c] = 0 /\ UNCHANGED <<freed, obj, workerVars>>
    BY <1>4 DEF PostAccept
  <2>3. \A d \in Clients : /\ obj'[d].ref = obj[d].ref /\ io'[d].recv = io[d].recv /\ io'[d].send = io[d].send
                           /\ freed[d] > 0 /\ io'[d].accept => io[d].accept
    BY <1>t, <2>1, <2>2 DEF Io
  <2> QED BY <1>b, <1>t, <2>2, <2>3, SameClients
<1>5. ASSUME NEW c \in Clients, Silence(c) \/ PeerLeaves(c)
      PROVE  SoloInv' /\ RefExact'
  <2>1. UNCHANGED <<freed, io, workerVars>> /\ (obj' = obj \/ obj' = [obj EXCEPT ![c].stale = TRUE])
    BY <1>5 DEF Silence, PeerLeaves
  <2>2. \A d \in Clients : obj'[d].ref = obj[d].ref
    BY <1>t, <2>1 DEF Obj
  <2> QED BY <1>b, <1>t, <2>1, <2>2, SameClients
<1>6. CASE ClearScan
  <2>1. UNCHANGED <<freed, io, workerVars>>
    BY <1>6 DEF ClearScan
  <2>2. \A d \in Clients : obj'[d].ref = obj[d].ref
    BY <1>6, <1>t DEF ClearScan, Obj
  <2> QED BY <1>b, <1>t, <2>1, <2>2, SameClients
<1>7. CASE StopServerWaited
  <2>1. UNCHANGED <<freed, obj, workerVars>>
    BY <1>7 DEF StopServerWaited
  <2>2. \A d \in Clients : io'[d].recv = io[d].recv /\ io'[d].send = io[d].send /\ ~io'[d].accept
    BY <1>7, <1>t DEF StopServerWaited, Io
  <2> QED BY <1>b, <1>t, <2>1, <2>2, SameClients
<1>8. CASE StopServer \/ UNCHANGED vars
  <2>1. UNCHANGED <<freed, obj, io, workerVars>>
    BY <1>8 DEF StopServer, vars, workerVars
  <2> QED BY <1>b, <1>t, <2>1, SameClients
<1> QED BY <1>1, <1>2, <1>3, <1>4, <1>5, <1>6, <1>7, <1>8 DEF Next

LEMMA SoloInit == Init => SoloInv /\ RefExact
  BY DEF Init, SoloInv, SoloClient, SoloWorker, RefExact

LEMMA SoloInvStep ==
  ASSUME MaxSends = 0
  PROVE  ExclusiveInv /\ SoloInv /\ RefExact /\ [Next]_vars => (ExclusiveInv /\ SoloInv /\ RefExact)'
<1>1. ExclusiveInv /\ SoloInv /\ RefExact => SoloBase
  BY DEF ExclusiveInv, SoloBase
<1> QED BY <1>1, ExclusiveInvStep, SoloStep

\* As long as the application sends nothing, whatever fails and however many
\* callbacks run, a client that no callback handles has a reference for each
\* operation in the kernel, although adding to the count is a load and a store.
THEOREM CountExact == ASSUME MaxSends = 0 PROVE Spec => []RefExact
<1>1. Init => ExclusiveInv /\ SoloInv /\ RefExact
  BY ExclusiveInit, SoloInit
<1>2. ExclusiveInv /\ SoloInv /\ RefExact /\ [Next]_vars => (ExclusiveInv /\ SoloInv /\ RefExact)'
  BY SoloInvStep
<1> QED BY <1>1, <1>2, PTL DEF Spec

\* Nor does a callback go on with a client that another one released.
THEOREM NoneUsedAfterRelease == ASSUME MaxSends = 0 PROVE Spec => []NoUseAfterRelease
<1>1. Init => ExclusiveInv /\ SoloInv /\ RefExact
  BY ExclusiveInit, SoloInit
<1>2. ExclusiveInv /\ SoloInv /\ RefExact /\ [Next]_vars => (ExclusiveInv /\ SoloInv /\ RefExact)'
  BY SoloInvStep
<1>3. SoloInv => NoUseAfterRelease
  BY DEF SoloInv, SoloWorker, NoUseAfterRelease
<1> QED BY <1>1, <1>2, <1>3, PTL DEF Spec

-----------------------------------------------------------------------------
(* If besides that no receive fails to be posted or times out, the server    *)
(* hears every client that is on line.                                       *)

\* The worker was given the client's accept and has not put it on line.
Accepting(w) == job[w].kind = "accept" /\ (pc[w] = "add" \/ (pc[w] = "dec" /\ cont[w] # "unarm"))

Fresh(c) == c \notin clients /\ freed[c] = 0

\* A client is off line and unarmed until its accept was handled ...
OffInv ==
  \A c \in Clients :
    Fresh(c) \/ io[c].accept \/ (\E w \in Workers : Handles(w, c) /\ Accepting(w))
      => ~obj[c].online /\ ~obj[c].exist

\* ... and no callback ends without a receive, a release or a dead connection.
EndWorker(w) ==
  pc[w] # "idle" =>
    /\ pc[w] \notin {"return", "timeout"}
    /\ pc[w] \in {"dec", "dec_store"} => cont[w] \in {"add", "recv", "close", "unarm"}
    /\ job[w].kind = "accept" /\ pc[w] = "dec_store" => cont[w] = "unarm"
    /\ job[w].kind = "recv" => pc[w] # "add" /\ (pc[w] \in {"dec", "dec_store"} => cont[w] # "add")
    /\ pc[w] \in {"echo", "post"} => ~obj[job[w].cli].exist
    /\ pc[w] = "unarm" \/ (pc[w] \in {"dec", "dec_store"} /\ cont[w] = "unarm") => Dead(job[w].cli)

EndInv == \A w \in Workers : EndWorker(w)

NoRetries == {"post_recv", "sem_timeout"} \cap Faults = {}

ListenBase == SoloBase /\ FreshInv /\ OffInv /\ EndInv /\ OnlineListens

\* What a callback of w leaves of its client: one that goes on keeps EndWorker,
\* and one that ends leaves a receive, no entry, or a connection that is gone.
LEMMA CallbackListens ==
  ASSUME MaxSends = 0, NoRetries, ListenBase, NEW w \in Workers, Callback(w), NEW c \in Clients, c = job[w].cli
  PROVE  /\ EndWorker(w)'
         /\ pc'[w] # "idle" /\ Accepting(w)' => Accepting(w) /\ obj' = obj
         /\ ~io'[c].accept
         /\ pc'[w] = "idle" /\ c \in clients' /\ obj'[c].online /\ ~Gone(c)' /\ server' # "down" => io'[c].recv = 1
<1>b. SoloBase /\ TypeInv
  BY DEF ListenBase, SoloBase
<1>t. /\ pc \in [Workers -> Labels] /\ job \in [Workers -> Job] /\ tmp \in [Workers -> Nat]
      /\ cont \in [Workers -> Continuations]
      /\ freed \in [Clients -> Nat] /\ obj \in [Clients -> Obj] /\ io \in [Clients -> Io] /\ link \in [Clients -> Link]
  BY <1>b DEF TypeInv, DataTyped, WorkersInv, WorkersTyped
<1>1. pc[w] # "idle"
  BY <1>b, CallbackShape
<1>2. /\ io[c].recv = 0 /\ io[c].send = 0 /\ ~io[c].accept /\ freed[c] = 0
      /\ OwnsReceive(w) /\ pc[w] # "send"
      /\ obj[c].ref = IF Counted(w) THEN 1 ELSE 0
      /\ pc[w] \in {"inc", "inc_store"} => cont[w] = "arm"
      /\ pc[w] \in {"dec", "dec_store"} => cont[w] \notin {"arm", "send"}
  BY <1>1, <1>b, OneCallback DEF SoloBase, SoloInv, SoloClient, SoloWorker
<1>3. obj[c] \in Obj /\ io[c] \in Io /\ link[c] \in Link /\ link[c].sent \in Nat /\ cont[w] \in Continuations
      /\ job[w].kind \in {"accept", "recv"}
  BY <1>t, <1>2 DEF Link, OwnsReceive
<1>4. EndWorker(w) /\ (Accepting(w) => ~obj[c].online /\ ~obj[c].exist)
  BY <1>1 DEF ListenBase, EndInv, OffInv, Handles
<1>5. "post_recv" \notin Faults
  BY DEF NoRetries
<1> USE DEF Goto, Call, Return, EndWorker, Counted, Accepting
<1>6. CASE Load(w)
  <2>1. UNCHANGED <<clients, obj, io, link, job, cont>> /\ (pc[w] = "inc" \/ pc[w] = "dec")
    BY <1>6 DEF Load
  <2>2. CASE pc[w] = "dec" /\ obj[c].ref = 0
    <3>1. pc'[w] = cont[w]
      BY <1>t, <1>6, <2>2 DEF Load
    <3>2. cont[w] \in {"add", "recv", "close"} /\ job[w].kind = "accept"
      BY <1>1, <1>2, <1>3, <1>4, <2>2
    <3> QED BY <1>1, <1>2, <1>3, <1>4, <2>1, <2>2, <3>1, <3>2
  <2>3. CASE pc[w] = "dec" /\ obj[c].ref # 0
    <3>1. pc'[w] = "dec_store"
      BY <1>t, <1>6, <2>3 DEF Load
    <3>2. job[w].kind = "accept" => cont[w] = "unarm"
      BY <1>2, <1>3, <2>3
    <3> QED BY <1>1, <1>2, <1>3, <1>4, <2>1, <2>3, <3>1, <3>2 DEF Dead
  <2>4. CASE pc[w] = "inc"
    <3>1. pc'[w] = "inc_store"
      BY <1>t, <1>6, <2>4 DEF Load
    <3> QED BY <1>2, <2>1, <3>1
  <2> QED BY <2>1, <2>2, <2>3, <2>4
<1>7. CASE Store(w)
  <2>1. UNCHANGED <<clients, io, link, job, cont>> /\ (pc[w] = "inc_store" \/ pc[w] = "dec_store")
    BY <1>7 DEF Store
  <2>2. pc'[w] = cont[w]
    BY <1>t, <1>7 DEF Store
  <2>3. CASE pc[w] = "inc_store"
    <3>1. cont[w] = "arm"
      BY <1>2, <2>3
    <3> QED BY <1>2, <2>1, <2>2, <3>1
  <2>4. CASE pc[w] = "dec_store"
    <3>1. cont[w] \in {"recv", "close", "unarm"} /\ (cont[w] = "unarm" => Dead(c))
      BY <1>1, <1>3, <1>4, <2>4
    <3> QED BY <1>2, <2>1, <2>2, <3>1 DEF Dead
  <2> QED BY <2>1, <2>3, <2>4
<1>8. CASE Finish(w)
  BY <1>1, <1>4, <1>8 DEF Finish
<1>9. CASE AddClient(w)
  <2>1. ~obj[c].online /\ ~obj[c].exist /\ pc[w] = "add"
    BY <1>1, <1>3, <1>4, <1>9 DEF AddClient
  <2>2. CASE Return(w) /\ UNCHANGED obj
    BY <1>t, <1>2, <1>9, <2>1, <2>2 DEF AddClient
  <2>3. CASE Goto(w, "post") /\ obj' = [obj EXCEPT ![c] = [@ EXCEPT !.online = TRUE, !.stale = FALSE]]
    <3> DEFINE v == [obj[c] EXCEPT !.online = TRUE, !.stale = FALSE]
    <3>1. ~v.exist
      BY <1>3, <2>1 DEF Obj
    <3>2. obj' = [obj EXCEPT ![c] = v]
      BY <2>3
    <3> HIDE DEF v
    <3>3. ~obj'[c].exist
      BY <1>t, <3>1, <3>2
    <3> QED BY <1>t, <1>2, <1>9, <2>3, <3>3 DEF AddClient
  <2> QED BY <1>9, <2>2, <2>3 DEF AddClient
<1>10. CASE Receive(w)
  <2>1. ~obj'[c].exist
    BY <1>t, <1>3, <1>10 DEF Receive, Obj
  <2> QED BY <1>t, <1>2, <1>10, <2>1 DEF Receive
<1>11. CASE TimedOut(w)
  BY <1>1, <1>4, <1>11 DEF TimedOut
<1>12. CASE Echo(w)
  <2>1. ~ (link[c].sent < MaxSends)
    BY <1>3
  <2>2. pc[w] = "echo" /\ (Goto(w, "post") \/ Goto(w, "close")) /\ UNCHANGED io
    BY <1>12, <2>1 DEF Echo
  <2>3. obj' = obj \/ \E b : obj' = [obj EXCEPT ![c].stale = b]
    BY <1>12, <2>1 DEF Echo
  <2>4. ~obj'[c].exist
    <3>1. ~obj[c].exist
      BY <1>1, <1>4, <2>2
    <3>2. obj'[c].exist = obj[c].exist
      <4>1. obj[c] \in Obj /\ obj \in [Clients -> Obj]
        BY <1>t
      <4>2. CASE obj' = obj
        BY <4>2
      <4>3. CASE \E b : obj' = [obj EXCEPT ![c].stale = b]
        BY <4>1, <4>3 DEF Obj
      <4> QED BY <2>3, <4>2, <4>3
    <3> QED BY <3>1, <3>2
  <2> QED BY <1>t, <1>2, <2>2, <2>4
<1>13. CASE Send(w)
  BY <1>2, <1>13 DEF Send
<1>14. CASE PostRecv(w)
  BY <1>t, <1>1, <1>2, <1>4, <1>14 DEF PostRecv
<1>15. CASE Arm(w)
  <2>1. CASE io' = [io EXCEPT ![c].recv = @ + 1] /\ Return(w)
    <3>1. io'[c].recv = 1 /\ ~io'[c].accept
      BY <1>t, <1>2, <2>1 DEF Io
    <3> QED BY <1>t, <2>1, <3>1
  <2>2. CASE Dead(c) /\ Call(w, "dec", "unarm") /\ UNCHANGED io
    <3>1. pc'[w] = "dec" /\ cont'[w] = "unarm" /\ job' = job /\ link' = link
      BY <1>t, <1>15, <2>2 DEF Arm
    <3> QED BY <1>2, <1>3, <2>2, <3>1 DEF Dead
  <2> QED BY <1>5, <1>15, <2>1, <2>2 DEF Arm
<1>16. CASE Unarm(w)
  <2>1. Dead(c) /\ link' = link /\ io' = io /\ (Goto(w, "close") \/ Return(w))
    BY <1>1, <1>4, <1>16 DEF Unarm, PostRecvFailed
  <2>2. Gone(c)'
    BY <2>1 DEF Dead, Gone
  <2> QED BY <1>t, <1>2, <2>1, <2>2
<1>17. CASE Close(w)
  BY <1>t, <1>2, <1>17 DEF Close
<1>18. CASE Erase(w)
  <2>1. Return(w)
    BY <1>18 DEF Erase
  <2>2. ~io'[c].accept /\ (c \notin clients' \/ server' = "down")
    BY <1>t, <1>2, <1>18 DEF Erase
  <2> QED BY <1>t, <2>1, <2>2
<1> QED BY <1>6, <1>7, <1>8, <1>9, <1>10, <1>11, <1>12, <1>13, <1>14, <1>15, <1>16, <1>17, <1>18 DEF Callback

LEMMA SameEndWorker ==
  ASSUME NEW w \in Workers, EndWorker(w),
         pc'[w] = pc[w] /\ job'[w] = job[w] /\ cont'[w] = cont[w],
         pc[w] # "idle" => /\ obj'[job[w].cli].exist = obj[job[w].cli].exist
                           /\ Dead(job[w].cli) => link'[job[w].cli].peer = "reset" \/ link'[job[w].cli].sock # "open"
  PROVE  EndWorker(w)'
  BY DEF EndWorker, Dead

\* What the rest of the server and the peers do: no client gets on line, no
\* connection comes back.
LEMMA OthersListen ==
  ASSUME TypeInv, OffInv, EndInv, OnlineListens, UNCHANGED <<clients, freed, workerVars>>,
         server' # "down" => server # "down",
         \A c \in Clients :
           /\ obj'[c].exist = obj[c].exist /\ (obj'[c].online => obj[c].online)
           /\ io'[c].recv = io[c].recv /\ (io'[c].accept => io[c].accept)
           /\ Gone(c) => link'[c].peer \in {"half", "reset"} \/ link'[c].sock # "open"
           /\ Dead(c) => link'[c].peer = "reset" \/ link'[c].sock # "open"
  PROVE  OffInv' /\ EndInv' /\ OnlineListens'
<1>1. \A w \in Workers : pc[w] # "idle" => job[w].cli \in Clients
  BY DEF TypeInv, WorkersInv, WorkersTyped
<1>2. pc' = pc /\ job' = job /\ cont' = cont
  BY DEF workerVars
<1>3. OffInv'
  BY <1>2 DEF OffInv, Fresh, Handles, Accepting
<1>4. EndInv'
  BY <1>1, <1>2, SameEndWorker DEF EndInv
<1>5. clients \subseteq Clients
  BY DEF TypeInv, DataTyped
<1>6. OnlineListens'
  BY <1>2, <1>5 DEF OnlineListens, Handled, Handles, Gone
<1> QED BY <1>3, <1>4, <1>6

LEMMA ListenStep ==
  ASSUME MaxSends = 0, NoRetries, ListenBase, [Next]_vars
  PROVE  OffInv' /\ EndInv' /\ OnlineListens'
<1>b. SoloBase /\ TypeInv /\ FreshInv /\ OffInv /\ EndInv /\ OnlineListens /\ SoloInv
  BY DEF ListenBase, SoloBase
<1>t. /\ pc \in [Workers -> Labels] /\ job \in [Workers -> Job] /\ tmp \in [Workers -> Nat]
      /\ cont \in [Workers -> Continuations] /\ clients \subseteq Clients
      /\ freed \in [Clients -> Nat] /\ obj \in [Clients -> Obj] /\ io \in [Clients -> Io] /\ link \in [Clients -> Link]
      /\ \A u \in Workers : pc[u] # "idle" => job[u].cli \in Clients
  BY <1>b DEF TypeInv, DataTyped, WorkersInv, WorkersTyped
<1>1. ASSUME NEW w \in Workers, Callback(w)
      PROVE  OffInv' /\ EndInv' /\ OnlineListens'
  <2>1. pc[w] # "idle" /\ job[w].cli \in Clients
    BY <1>1, <1>b, CallbackShape
  <2>2. PICK c \in Clients : c = job[w].cli
    BY <2>1
  <2>3. /\ EndWorker(w)'
        /\ pc'[w] # "idle" /\ Accepting(w)' => Accepting(w) /\ obj' = obj
        /\ ~io'[c].accept
        /\ pc'[w] = "idle" /\ c \in clients' /\ obj'[c].online /\ ~Gone(c)' /\ server' # "down" => io'[c].recv = 1
    BY <1>1, <2>2, CallbackListens
  <2>4. /\ \A u \in Workers \ {w} : pc'[u] = pc[u] /\ job'[u] = job[u] /\ tmp'[u] = tmp[u] /\ cont'[u] = cont[u]
        /\ \A d \in Clients \ {c} : obj'[d] = obj[d] /\ io'[d] = io[d] /\ freed'[d] = freed[d] /\ link'[d] = link[d]
        /\ server' = server
    BY <1>1, <1>b, <2>2, CallbackFrame
  <2>5. \A u \in Workers \ {w} : pc[u] # "idle" => job[u].cli # c
    BY <1>b, <2>1, <2>2, OneCallback
  <2>6. /\ pc'[w] # "idle" => job'[w].cli = c
        /\ \A d \in Clients : Fresh(d)' => Fresh(d)
        /\ ~Fresh(c)
    <3>1. NoNewJobs /\ \A d \in Clients : Fresh(d)' => Fresh(d)
      BY <1>1, <1>b, CallbackShape DEF Fresh
    <3>2. ~Fresh(c)
      BY <1>b, <2>1, <2>2 DEF FreshInv, Fresh, Handles
    <3> QED BY <2>2, <3>1, <3>2 DEF NoNewJobs
  <2>7. EndInv'
    <3> SUFFICES ASSUME NEW u \in Workers, u # w PROVE EndWorker(u)'
      BY <2>3 DEF EndInv
    <3>1. EndWorker(u)
      BY <1>b DEF EndInv
    <3>2. pc[u] # "idle" => obj'[job[u].cli] = obj[job[u].cli] /\ link'[job[u].cli] = link[job[u].cli]
      BY <1>t, <2>4, <2>5
    <3> QED BY <2>4, <3>1, <3>2, SameEndWorker DEF Dead
  <2>8. OffInv'
    <3> SUFFICES ASSUME NEW d \in Clients,
                        Fresh(d)' \/ io'[d].accept \/ \E u \in Workers : pc'[u] # "idle" /\ job'[u].cli = d /\ Accepting(u)'
                 PROVE  ~obj'[d].online /\ ~obj'[d].exist
      BY DEF OffInv, Handles
    <3>1. CASE d = c
      <4>1. PICK u \in Workers : pc'[u] # "idle" /\ job'[u].cli = c /\ Accepting(u)'
        BY <2>3, <2>6, <3>1
      <4>2. u = w
        BY <2>4, <2>5, <4>1
      <4>3. Accepting(w) /\ obj' = obj
        BY <2>3, <4>1, <4>2
      <4> QED BY <1>b, <2>1, <2>2, <3>1, <4>3 DEF OffInv, Handles
    <3>2. CASE d # c
      <4>1. \A u \in Workers : pc'[u] # "idle" /\ job'[u].cli = d /\ Accepting(u)' => Handles(u, d) /\ Accepting(u)
        BY <2>4, <2>6, <3>2 DEF Handles, Accepting
      <4> QED BY <1>b, <2>4, <2>6, <3>2, <4>1 DEF OffInv
    <3> QED BY <3>1, <3>2
  <2>9. OnlineListens'
    <3> SUFFICES ASSUME NEW d \in clients', obj'[d].online, \A u \in Workers : ~ (pc'[u] # "idle" /\ job'[u].cli = d),
                        ~Gone(d)', server' # "down"
                 PROVE  io'[d].recv = 1
      BY DEF OnlineListens, Handled, Handles
    <3>1. CASE d = c
      BY <2>3, <2>6, <3>1
    <3>2. CASE d # c
      <4>1. \A u \in Workers : ~ (pc[u] # "idle" /\ job[u].cli = d)
        BY <2>2, <2>4, <3>2
      <4>2. d \in clients
        BY <1>1 DEF Callback, Load, Store, Finish, AddClient, Receive, TimedOut, Echo, Send, PostRecv,
                    Arm, Unarm, Close, Erase
      <4> QED BY <1>b, <1>t, <2>4, <3>2, <4>1, <4>2 DEF OnlineListens, Handled, Handles, Gone
    <3> QED BY <3>1, <3>2
  <2> QED BY <2>7, <2>8, <2>9
<1>2. ASSUME NEW w \in Workers, FreedFault(w)
      PROVE  FALSE
  BY <1>2, <1>b DEF FreedFault, SoloInv, SoloWorker
<1>3. ASSUME NEW w \in Workers, NEW c \in Clients, Completion(w, c)
      PROVE  OffInv' /\ EndInv' /\ OnlineListens'
  <2>1. /\ UNCHANGED <<clients, freed>>
        /\ \A d \in Clients \ {c} : io'[d] = io[d]
        /\ pc'[w] = "dec" /\ job'[w].cli = c
        /\ \A u \in Workers \ {w} : pc'[u] = pc[u] /\ job'[u] = job[u]
        /\ (io'[c].accept => io[c].accept) /\ (job'[w].kind = "accept" => io[c].accept)
    BY <1>3, <1>b, CompletionShape
  <2>2. freed[c] = 0 /\ io[c].send = 0 /\ (io[c].recv > 0 \/ io[c].accept)
    <3>1. io[c].send = 0 /\ (freed[c] > 0 => io[c].recv = 0 /\ ~io[c].accept) /\ io[c].recv \in Nat /\ freed[c] \in Nat
      BY <1>b, <1>t DEF SoloInv, SoloClient, Io
    <3> QED BY <1>3, <3>1 DEF Completion, TakeAccept, TakeData, TakeEnd, TakeTimeout, TakeSend
  <2>3. \A u \in Workers : ~ (pc[u] # "idle" /\ job[u].cli = c)
    BY <1>b, <2>2, OneCallback
  <2>4. \E kind, res : Take(w, c, kind, res) /\ cont'[w] \in {"add", "recv", "close"}
                       /\ kind = job'[w].kind /\ (kind = "recv" => cont'[w] # "add")
    <3>1. CASE TakeAccept(w, c)
      <4>1. PICK res : Take(w, c, "accept", res) /\ res # "timeout"
        BY <3>1 DEF TakeAccept, NoRetries
      <4>2. Handler("accept", res) \in {"add", "close"}
        BY <4>1 DEF Handler
      <4>3. cont'[w] = Handler("accept", res)
        BY <1>t, <4>1, Zenon DEF Take, WorkersInv, WorkersTyped
      <4>4. job'[w].kind = "accept"
        BY <1>t, <4>1 DEF Take
      <4>5. /\ Take(w, c, "accept", res) /\ cont'[w] \in {"add", "recv", "close"}
            /\ "accept" = job'[w].kind /\ ("accept" = "recv" => cont'[w] # "add")
        BY <4>1, <4>2, <4>3, <4>4
      <4> WITNESS "accept", res
      <4> QED BY <4>5
    <3>2. CASE TakeData(w, c) \/ TakeEnd(w, c)
      <4>1. PICK res : Take(w, c, "recv", res) /\ res # "timeout"
        BY <3>2 DEF TakeData, TakeEnd
      <4>2. Handler("recv", res) \in {"recv", "close"}
        BY <4>1 DEF Handler
      <4>3. cont'[w] = Handler("recv", res)
        BY <1>t, <4>1, Zenon DEF Take, WorkersInv, WorkersTyped
      <4>4. job'[w].kind = "recv"
        BY <1>t, <4>1 DEF Take
      <4>5. cont'[w] \in {"add", "recv", "close"} /\ cont'[w] # "add"
        BY <4>2, <4>3
      <4>6. /\ Take(w, c, "recv", res) /\ cont'[w] \in {"add", "recv", "close"}
            /\ "recv" = job'[w].kind /\ ("recv" = "recv" => cont'[w] # "add")
        BY <4>1, <4>4, <4>5
      <4> WITNESS "recv", res
      <4> QED BY <4>6
    <3>3. ~TakeTimeout(w, c) /\ ~TakeSend(w, c)
      BY <2>2 DEF TakeTimeout, TakeSend, NoRetries
    <3> QED BY <1>3, <3>1, <3>2, <3>3 DEF Completion
  <2>5. UNCHANGED <<server, obj>> /\ \A u \in Workers \ {w} : cont'[u] = cont[u]
    BY <1>t, <2>4 DEF Take
  <2>6. \A d \in Clients \ {c} : link'[d] = link[d]
    BY <1>3, <1>t DEF Completion, TakeAccept, TakeData, TakeEnd, TakeTimeout, TakeSend
  <2>7. EndInv'
    <3>1. EndWorker(w)'
      BY <2>1, <2>4 DEF EndWorker
    <3>2. ASSUME NEW u \in Workers, u # w PROVE EndWorker(u)'
      <4>1. EndWorker(u)
        BY <1>b DEF EndInv
      <4>2. pc[u] # "idle" => link'[job[u].cli] = link[job[u].cli]
        BY <1>t, <2>3, <2>6
      <4> QED BY <2>1, <2>5, <3>2, <4>1, <4>2, SameEndWorker DEF Dead
    <3> QED BY <3>1, <3>2 DEF EndInv
  <2>8. OffInv'
    <3> SUFFICES ASSUME NEW d \in Clients,
                        Fresh(d)' \/ io'[d].accept \/ \E u \in Workers : pc'[u] # "idle" /\ job'[u].cli = d /\ Accepting(u)'
                 PROVE  Fresh(d) \/ io[d].accept \/ \E u \in Workers : Handles(u, d) /\ Accepting(u)
      BY <1>b, <2>5 DEF OffInv, Handles
    <3>1. CASE Fresh(d)' \/ io'[d].accept
      BY <2>1, <3>1 DEF Fresh
    <3>2. CASE \E u \in Workers : pc'[u] # "idle" /\ job'[u].cli = d /\ Accepting(u)'
      <4>1. PICK u \in Workers : pc'[u] # "idle" /\ job'[u].cli = d /\ Accepting(u)'
        BY <3>2
      <4>2. CASE u = w
        BY <2>1, <4>1, <4>2 DEF Accepting
      <4>3. CASE u # w
        BY <2>1, <2>5, <4>1, <4>3 DEF Accepting, Handles
      <4> QED BY <4>2, <4>3
    <3> QED BY <3>1, <3>2
  <2>9. OnlineListens'
    <3> SUFFICES ASSUME NEW d \in clients', obj'[d].online, \A u \in Workers : ~ (pc'[u] # "idle" /\ job'[u].cli = d),
                        ~Gone(d)', server' # "down"
                 PROVE  io'[d].recv = 1
      BY DEF OnlineListens, Handled, Handles
    <3>1. d # c /\ d \in clients /\ d \in Clients
      BY <1>t, <2>1
    <3>2. \A u \in Workers : ~ (pc[u] # "idle" /\ job[u].cli = d)
      <4>1. pc[w] = "idle"
        BY <2>4 DEF Take
      <4> QED BY <2>1, <4>1
    <3> QED BY <1>b, <2>1, <2>5, <2>6, <3>1, <3>2 DEF OnlineListens, Handled, Handles, Gone
  <2> QED BY <2>7, <2>8, <2>9
<1>4. ASSUME NEW c \in Clients, PostAccept(c)
      PROVE  OffInv' /\ EndInv' /\ OnlineListens'
  <2>1. /\ Fresh(c) /\ clients' = clients \cup {c} /\ UNCHANGED <<server, freed, obj, link, workerVars>>
        /\ (io' = [io EXCEPT ![c].accept = TRUE] \/ io' = io)
    BY <1>4 DEF PostAccept, Fresh
  <2>2. \A d \in Clients : d # c => io'[d] = io[d]
    BY <1>t, <2>1
  <2>3. pc' = pc /\ job' = job /\ cont' = cont
    BY <2>1 DEF workerVars
  <2>4. ~obj[c].online /\ ~obj[c].exist
    BY <1>b, <2>1 DEF OffInv
  <2>5. OffInv'
    BY <1>b, <2>1, <2>2, <2>3, <2>4 DEF OffInv, Fresh, Handles, Accepting
  <2>6. EndInv'
    BY <1>b, <2>1, <2>3, SameEndWorker DEF EndInv, Dead
  <2>7. OnlineListens'
    BY <1>b, <1>t, <2>1, <2>2, <2>3, <2>4 DEF OnlineListens, Handled, Handles, Gone
  <2> QED BY <2>5, <2>6, <2>7
<1>5. ASSUME NEW c \in Clients, Silence(c)
      PROVE  OffInv' /\ EndInv' /\ OnlineListens'
  <2>1. UNCHANGED <<server, clients, freed, io, link, workerVars>> /\ obj' = [obj EXCEPT ![c].stale = TRUE]
    BY <1>5 DEF Silence
  <2>2. \A d \in Clients : obj'[d].exist = obj[d].exist /\ obj'[d].online = obj[d].online
    BY <1>t, <2>1 DEF Obj
  <2> QED BY <1>b, <2>1, <2>2, OthersListen DEF Gone, Dead
<1>6. ASSUME NEW c \in Clients, PeerLeaves(c)
      PROVE  OffInv' /\ EndInv' /\ OnlineListens'
  <2>1. /\ UNCHANGED <<server, clients, freed, obj, io, workerVars>>
        /\ \/ link[c].peer = "open" /\ link' = [link EXCEPT ![c].peer = "half"]
           \/ link' = [link EXCEPT ![c].peer = "reset"]
    BY <1>6 DEF PeerLeaves
  <2>2. \A d \in Clients : /\ Gone(d) => link'[d].peer \in {"half", "reset"} \/ link'[d].sock # "open"
                           /\ Dead(d) => link'[d].peer = "reset" \/ link'[d].sock # "open"
    BY <1>t, <2>1 DEF Link, Gone, Dead
  <2> QED BY <1>b, <2>1, <2>2, OthersListen
<1>7. CASE ClearScan
  <2>1. UNCHANGED <<server, clients, freed, io, workerVars>>
    BY <1>7 DEF ClearScan
  <2>2. PICK overdue :
          /\ obj' = [c \in Clients |-> [obj[c] EXCEPT !.online = @ /\ c \notin overdue]]
          /\ link' = [c \in Clients |-> [link[c] EXCEPT !.sock = IF c \in overdue THEN "shut" ELSE @]]
    BY <1>7 DEF ClearScan
  <2>3. ASSUME NEW c \in Clients
        PROVE  /\ obj'[c].exist = obj[c].exist /\ (obj'[c].online => obj[c].online)
               /\ Gone(c) => link'[c].peer \in {"half", "reset"} \/ link'[c].sock # "open"
               /\ Dead(c) => link'[c].peer = "reset" \/ link'[c].sock # "open"
    <3>1. obj[c] \in Obj /\ link[c] \in Link
      BY <1>t
    <3>2. obj'[c].exist = obj[c].exist /\ (obj'[c].online => obj[c].online)
      <4>1. obj'[c] = [obj[c] EXCEPT !.online = @ /\ c \notin overdue]
        BY <2>2
      <4> QED BY <3>1, <4>1 DEF Obj
    <3>3. link'[c].peer = link[c].peer /\ link'[c].sock = IF c \in overdue THEN "shut" ELSE link[c].sock
      <4>1. link'[c] = [link[c] EXCEPT !.sock = IF c \in overdue THEN "shut" ELSE @]
        BY <2>2
      <4> QED BY <3>1, <4>1 DEF Link
    <3> QED BY <3>2, <3>3 DEF Gone, Dead
  <2> QED BY <1>b, <2>1, <2>3, OthersListen
<1>8. CASE StopServerWaited
  <2>1. UNCHANGED <<clients, freed, obj, link, workerVars>> /\ server' = "down"
    BY <1>8 DEF StopServerWaited
  <2>2. \A c \in Clients : io'[c].recv = io[c].recv /\ ~io'[c].accept
    BY <1>8, <1>t DEF StopServerWaited, Io
  <2> QED BY <1>b, <2>1, <2>2, OthersListen DEF Gone, Dead
<1>9. CASE StopServer \/ UNCHANGED vars
  <2>1. UNCHANGED <<clients, freed, obj, io, link, workerVars>> /\ (server' # "down" => server # "down")
    BY <1>9 DEF StopServer, vars, workerVars
  <2> QED BY <1>b, <2>1, OthersListen DEF Gone, Dead
<1> QED BY <1>1, <1>2, <1>3, <1>4, <1>5, <1>6, <1>7, <1>8, <1>9 DEF Next

\* The server hears every client that is on line and whose connection stands: no
\* callback ends without a receive posted, the client released or the connection
\* gone, as long as the application sends nothing and receives neither fail to
\* be posted nor time out.
THEOREM OnlineClientsAreHeard ==
  ASSUME MaxSends = 0, NoRetries PROVE Spec => []OnlineListens
<1> DEFINE All == ExclusiveInv /\ SoloInv /\ RefExact /\ OffInv /\ EndInv /\ OnlineListens
<1>1. Init => OffInv /\ EndInv /\ OnlineListens
  BY DEF Init, OffInv, EndInv, EndWorker, OnlineListens
<1>2. Init => All
  BY <1>1, ExclusiveInit, SoloInit
<1>3. All => ListenBase
  BY DEF ExclusiveInv, SoloBase, ListenBase
<1>4. All /\ [Next]_vars => All'
  BY <1>3, SoloInvStep, ListenStep
<1> QED BY <1>2, <1>4, PTL DEF Spec
=============================================================================

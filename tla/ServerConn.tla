----------------------------- MODULE ServerConn -----------------------------
(***************************************************************************)
(* The life of the clients of CSocketBaseServerService: the objects        *)
(* PostAccept creates, the receives and sends outstanding on them, the     *)
(* reference count and the ExistPostRecv flag that say so, and OnClose,    *)
(* which releases a client when its count is zero.                         *)
(*                                                                         *)
(* Completions run on the threads of the pool (Workers), in any order and  *)
(* several at once for one client.  The set of clients is read and changed *)
(* under _VecSocketClientLock, in one step each; the count is a plain UINT *)
(* no lock protects, so adding to it is a load and a store.                *)
(* How many accepts are posted is the subject of AcceptPool.               *)
(***************************************************************************)
EXTENDS Naturals, FiniteSets

CONSTANTS
  Workers,    \* threads of the thread pool
  Clients,    \* CSocketRemoteClient objects, one for each accept ever posted
  NoClient,   \* the client of a worker that runs no callback
  MaxSends,   \* bound: PostSend calls the application makes for one client
  Faults      \* failures of the system that may happen (see FaultKinds)

FaultKinds ==
  { "post_accept",   \* AcceptEx fails when posted
    "accept",        \* an accept completes with an error
    "tp_io",         \* CreateThreadpoolIo fails for an accepted socket
    "post_recv",     \* WSARecv fails at once
    "sem_timeout",   \* an operation completes with ERROR_SEM_TIMEOUT
    "half_close",    \* the peer closes its sending side and still reads
    "reset" }        \* the peer resets the connection

ASSUME NoClientAssumption == NoClient \notin Clients
ASSUME FaultsAssumption == Faults \subseteq FaultKinds
ASSUME BoundAssumption == MaxSends \in Nat

VARIABLES
  server,     \* "running", "stopping" (in StopServer) or "down" (returned)
  clients,    \* _VecSocketClient
  freed,      \* how often ReleaseSocketClient was called for each client
  obj,        \* fields of each client: ref, exist, online, stale (keep-alive overdue)
  io,         \* operations in the kernel for each client: accept, recv, send
  link,       \* its connection: peer, sock, and the sends made (sent)
  pc,         \* where each worker is
  job,        \* the completion it handles: client, kind of operation, result
  tmp,        \* the count it loaded
  cont        \* where it goes on after a change of the count

vars == <<server, clients, freed, obj, io, link, pc, job, tmp, cont>>
workerVars == <<pc, job, tmp, cont>>

Labels == {"idle", "inc", "inc_store", "dec", "dec_store", "add", "recv",
           "timeout", "echo", "post", "arm", "unarm", "send", "close", "erase",
           "return"}
Continuations == {"idle", "add", "recv", "timeout", "echo", "arm", "unarm",
                  "send", "close", "return"}
Kinds   == {"none", "accept", "recv", "send"}
Results == {"none", "ok", "zero", "timeout", "error"}

NoJob == [cli |-> NoClient, kind |-> "none", res |-> "none"]

Obj  == [ref: Nat, exist: BOOLEAN, online: BOOLEAN, stale: BOOLEAN]
Io   == [accept: BOOLEAN, recv: Nat, send: Nat]
Link == [peer: {"none", "open", "half", "reset"}, sock: {"open", "shut", "closed"}, sent: Nat]
Job  == [cli: Clients \cup {NoClient}, kind: Kinds, res: Results]

WorkersTyped ==
  /\ pc \in [Workers -> Labels]
  /\ job \in [Workers -> Job]
  /\ tmp \in [Workers -> Nat]
  /\ cont \in [Workers -> Continuations]
  /\ \A w \in Workers : pc[w] # "idle" => job[w].cli \in Clients

TypeOK ==
  /\ server \in {"running", "stopping", "down"}
  /\ clients \subseteq Clients /\ freed \in [Clients -> Nat]
  /\ obj \in [Clients -> Obj] /\ io \in [Clients -> Io] /\ link \in [Clients -> Link]
  /\ WorkersTyped

Init ==
  /\ server = "running" /\ clients = {} /\ freed = [c \in Clients |-> 0]
  /\ obj = [c \in Clients |-> [ref |-> 0, exist |-> FALSE, online |-> FALSE, stale |-> FALSE]]
  /\ io = [c \in Clients |-> [accept |-> FALSE, recv |-> 0, send |-> 0]]
  /\ link = [c \in Clients |-> [peer |-> "none", sock |-> "open", sent |-> 0]]
  /\ pc = [w \in Workers |-> "idle"] /\ job = [w \in Workers |-> NoJob]
  /\ tmp = [w \in Workers |-> 0] /\ cont = [w \in Workers |-> "idle"]

\* The peer or DisConnect ended the connection: a receive gets no data.
Gone(c) == link[c].peer \in {"half", "reset"} \/ link[c].sock # "open"

\* Nothing can be sent any more.
Dead(c) == link[c].peer = "reset" \/ link[c].sock # "open"

Goto(w, label) == pc' = [pc EXCEPT ![w] = label] /\ UNCHANGED <<job, tmp, cont>>

\* The callback returns and its event is deleted.
Return(w) ==
  /\ pc' = [pc EXCEPT ![w] = "idle"]
  /\ job' = [job EXCEPT ![w] = NoJob]
  /\ tmp' = [tmp EXCEPT ![w] = 0]
  /\ cont' = [cont EXCEPT ![w] = "idle"]

\* Call AddRefCount ("inc") or SubRefCount ("dec"), then go on at next.
Call(w, label, next) ==
  /\ pc' = [pc EXCEPT ![w] = label]
  /\ cont' = [cont EXCEPT ![w] = next]
  /\ UNCHANGED <<job, tmp>>

-----------------------------------------------------------------------------
(* The reference count: += 1, and -= 1 unless it is zero.                    *)

Load(w) ==
  /\ pc[w] \in {"inc", "dec"}
  /\ LET n == obj[job[w].cli].ref
     IN  IF pc[w] = "dec" /\ n = 0
         THEN Goto(w, cont[w])
         ELSE /\ tmp' = [tmp EXCEPT ![w] = n]
              /\ pc' = [pc EXCEPT ![w] = IF @ = "inc" THEN "inc_store" ELSE "dec_store"]
              /\ UNCHANGED <<job, cont>>
  /\ UNCHANGED <<server, clients, freed, obj, io, link>>

Store(w) ==
  /\ pc[w] \in {"inc_store", "dec_store"}
  /\ obj' = [obj EXCEPT ![job[w].cli].ref =
               IF pc[w] = "inc_store" THEN tmp[w] + 1 ELSE tmp[w] - 1]
  /\ Goto(w, cont[w])
  /\ UNCHANGED <<server, clients, freed, io, link>>

-----------------------------------------------------------------------------
(* IoCompletionCallback: a worker takes a completion, drops the count, and   *)
(* goes on by kind and result.                                               *)

\* Mutated form of Handler: an empty receive is not taken for a close.
HandlerIgnoresEnd(kind, res) ==
  CASE kind = "accept" /\ res = "ok"      -> "add"
    [] kind = "recv"   /\ res = "ok"      -> "recv"
    [] kind = "recv"   /\ res = "timeout" -> "timeout"
    [] kind = "send"   /\ res = "error"   -> "close"
    [] OTHER                              -> "return"

\* ERROR_SEM_TIMEOUT of an accept or a send does nothing: the event is deleted.
Handler(kind, res) ==
  CASE kind = "accept" /\ res = "ok"      -> "add"
    [] kind = "recv"   /\ res = "ok"      -> "recv"
    [] kind = "recv"   /\ res = "timeout" -> "timeout"
    [] kind = "send"   /\ res = "ok"      -> "return"
    [] kind # "recv"   /\ res = "timeout" -> "return"
    [] OTHER                              -> "close"

Take(w, c, kind, res) ==
  /\ pc[w] = "idle"
  /\ pc' = [pc EXCEPT ![w] = "dec"]
  /\ job' = [job EXCEPT ![w] = [cli |-> c, kind |-> kind, res |-> res]]
  /\ cont' = [cont EXCEPT ![w] = Handler(kind, res)]
  /\ UNCHANGED <<server, clients, freed, obj, tmp>>

\* A connection arrives on a posted accept, or the accept times out, fails or,
\* by StopServer, is cancelled.
TakeAccept(w, c) ==
  /\ io[c].accept
  /\ io' = [io EXCEPT ![c].accept = FALSE]
  /\ \/ Take(w, c, "accept", "ok") /\ link' = [link EXCEPT ![c].peer = "open"]
     \/ /\ "accept" \in Faults \/ server = "stopping"
        /\ Take(w, c, "accept", "error")
        /\ UNCHANGED link
     \/ "sem_timeout" \in Faults /\ Take(w, c, "accept", "timeout") /\ UNCHANGED link

\* A receive completes with data ...
TakeData(w, c) ==
  /\ io[c].recv > 0 /\ ~Gone(c)
  /\ io' = [io EXCEPT ![c].recv = @ - 1]
  /\ Take(w, c, "recv", "ok")
  /\ UNCHANGED link

\* ... or with nothing or an error, because the connection ended ...
TakeEnd(w, c) ==
  /\ io[c].recv > 0 /\ Gone(c)
  /\ io' = [io EXCEPT ![c].recv = @ - 1]
  /\ Take(w, c, "recv", IF link[c].peer = "reset" THEN "error" ELSE "zero")
  /\ UNCHANGED link

\* ... or with ERROR_SEM_TIMEOUT.
TakeTimeout(w, c) ==
  /\ "sem_timeout" \in Faults
  /\ io[c].recv > 0 /\ ~Gone(c)
  /\ io' = [io EXCEPT ![c].recv = @ - 1]
  /\ Take(w, c, "recv", "timeout")
  /\ UNCHANGED link

TakeSend(w, c) ==
  /\ io[c].send > 0
  /\ io' = [io EXCEPT ![c].send = @ - 1]
  /\ \/ Take(w, c, "send", IF Dead(c) THEN "error" ELSE "ok")
     \/ "sem_timeout" \in Faults /\ Take(w, c, "send", "timeout")
  /\ UNCHANGED link

\* OnSend after a send that went well only frees the buffer.
Finish(w) ==
  /\ pc[w] = "return"
  /\ Return(w)
  /\ UNCHANGED <<server, clients, freed, obj, io, link>>

\* OnAccept's AddClient: with a thread-pool io of its own the client goes on
\* line and gets its first receive; without, it stays in the set.
AddClient(w) ==
  /\ pc[w] = "add"
  /\ \/ /\ obj' = [obj EXCEPT ![job[w].cli] = [@ EXCEPT !.online = TRUE, !.stale = FALSE]]
        /\ Goto(w, "post")
     \/ "tp_io" \in Faults /\ Return(w) /\ UNCHANGED obj
  /\ UNCHANGED <<server, clients, freed, io, link>>

-----------------------------------------------------------------------------
(* OnRecv and the receives.                                                  *)

\* Mutated form of Receive: a short receive is buffered and none posted.
ReceiveForgets(w) ==
  /\ pc[w] = "recv"
  /\ obj' = [obj EXCEPT ![job[w].cli].exist = FALSE]
  /\ Goto(w, "echo") \/ Return(w)
  /\ UNCHANGED <<server, clients, freed, io, link>>

\* IoCompletionCallback clears the flag and calls OnRecv.
Receive(w) ==
  /\ pc[w] = "recv"
  /\ obj' = [obj EXCEPT ![job[w].cli].exist = FALSE]
  /\ Goto(w, "echo")
  /\ UNCHANGED <<server, clients, freed, io, link>>

\* ERROR_SEM_TIMEOUT: post the receive again, unless the flag says there is one.
TimedOut(w) ==
  /\ pc[w] = "timeout"
  /\ IF obj[job[w].cli].exist THEN Return(w) ELSE Goto(w, "post")
  /\ UNCHANGED <<server, clients, freed, obj, io, link>>

\* The application's EchoRecive: it may answer with PostSend (again and again),
\* refresh the keep-alive tick, and returns TRUE or FALSE.
Echo(w) ==
  /\ pc[w] = "echo"
  /\ LET c == job[w].cli
     IN  \/ /\ \E s \in {obj[c].stale, FALSE} : obj' = [obj EXCEPT ![c].stale = s]
            /\ Goto(w, "post")
            /\ UNCHANGED link
         \/ Goto(w, "close") /\ UNCHANGED <<obj, link>>
         \/ /\ link[c].sent < MaxSends
            /\ link' = [link EXCEPT ![c].sent = @ + 1]
            /\ Call(w, "inc", "send")
            /\ UNCHANGED obj
  /\ UNCHANGED <<server, clients, freed, io>>

\* PostSend's WSASend.
Send(w) ==
  /\ pc[w] = "send"
  /\ LET c == job[w].cli
     IN  \/ /\ link[c].sock = "open"
            /\ io' = [io EXCEPT ![c].send = @ + 1]
            /\ Goto(w, "echo")
         \/ /\ Dead(c)
            /\ Call(w, "dec", "echo")
            /\ UNCHANGED io
  /\ UNCHANGED <<server, clients, freed, obj, link>>

\* PostRecv returned FALSE: OnRecv returns that and OnClose is called; AddClient
\* and the timeout branch ignore it.
PostRecvFailed(w) ==
  IF job[w].kind = "recv" /\ job[w].res = "ok" THEN Goto(w, "close") ELSE Return(w)

PostRecv(w) ==
  /\ pc[w] = "post"
  /\ IF obj[job[w].cli].exist THEN PostRecvFailed(w) ELSE Call(w, "inc", "arm")
  /\ UNCHANGED <<server, clients, freed, obj, io, link>>

\* Mutated forms of Arm: a failed WSARecv keeps its reference; OnRecv goes on
\* to its second PostRecv after the first.
ArmKeepsRef(w) ==
  /\ pc[w] = "arm"
  /\ LET c == job[w].cli
     IN  /\ obj' = [obj EXCEPT ![c].exist = TRUE]
         /\ \/ /\ link[c].sock = "open"
               /\ io' = [io EXCEPT ![c].recv = @ + 1]
               /\ Return(w)
            \/ /\ Dead(c) \/ "post_recv" \in Faults
               /\ Goto(w, "unarm")
               /\ UNCHANGED io
  /\ UNCHANGED <<server, clients, freed, link>>

ArmTwice(w) ==
  /\ pc[w] = "arm"
  /\ LET c == job[w].cli
     IN  /\ obj' = [obj EXCEPT ![c].exist = TRUE]
         /\ \/ /\ link[c].sock = "open"
               /\ io' = [io EXCEPT ![c].recv = @ + 1]
               /\ IF job[w].kind = "recv" THEN Goto(w, "post") ELSE Return(w)
            \/ /\ Dead(c) \/ "post_recv" \in Faults
               /\ Call(w, "dec", "unarm")
               /\ UNCHANGED io
  /\ UNCHANGED <<server, clients, freed, link>>

\* SetExistPostRecv(TRUE) and WSARecv.
Arm(w) ==
  /\ pc[w] = "arm"
  /\ LET c == job[w].cli
     IN  /\ obj' = [obj EXCEPT ![c].exist = TRUE]
         /\ \/ /\ link[c].sock = "open"
               /\ io' = [io EXCEPT ![c].recv = @ + 1]
               /\ Return(w)
            \/ /\ Dead(c) \/ "post_recv" \in Faults
               /\ Call(w, "dec", "unarm")
               /\ UNCHANGED io
  /\ UNCHANGED <<server, clients, freed, link>>

Unarm(w) ==
  /\ pc[w] = "unarm"
  /\ obj' = [obj EXCEPT ![job[w].cli].exist = FALSE]
  /\ PostRecvFailed(w)
  /\ UNCHANGED <<server, clients, freed, io, link>>

-----------------------------------------------------------------------------
(* OnClose.                                                                  *)

\* With a count other than zero it logs and leaves the client alone.
Close(w) ==
  /\ pc[w] = "close"
  /\ IF obj[job[w].cli].ref = 0 THEN Goto(w, "erase") ELSE Return(w)
  /\ UNCHANGED <<server, clients, freed, obj, io, link>>

\* Mutated form of Erase: releases without looking the client up.
EraseUnchecked(w) ==
  /\ pc[w] = "erase"
  /\ LET c == job[w].cli
     IN  /\ clients' = clients \ {c}
         /\ freed' = [freed EXCEPT ![c] = @ + 1]
         /\ io' = [io EXCEPT ![c] = [accept |-> FALSE, recv |-> 0, send |-> 0]]
         /\ link' = [link EXCEPT ![c].sock = "closed"]
  /\ Return(w)
  /\ UNCHANGED <<server, obj>>

\* Under the lock: a client still in the set leaves it and is released, which
\* closes its socket and cancels what the kernel has.  The lock is deleted when
\* StopServer returns; entering it then works or faults.
Erase(w) ==
  /\ pc[w] = "erase"
  /\ LET c == job[w].cli
     IN  \/ /\ c \in clients
            /\ clients' = clients \ {c}
            /\ freed' = [freed EXCEPT ![c] = @ + 1]
            /\ io' = [io EXCEPT ![c] = [accept |-> FALSE, recv |-> 0, send |-> 0]]
            /\ link' = [link EXCEPT ![c].sock = "closed"]
         \/ /\ c \notin clients \/ server = "down"
            /\ UNCHANGED <<clients, freed, io, link>>
  /\ Return(w)
  /\ UNCHANGED <<server, obj>>

\* A callback that touches a freed client either reads what was left there (the
\* actions above) or faults; CException swallows the fault and the callback ends.
FreedFault(w) ==
  /\ pc[w] # "idle" /\ freed[job[w].cli] > 0
  /\ Return(w)
  /\ UNCHANGED <<server, clients, freed, obj, io, link>>

-----------------------------------------------------------------------------
(* The rest of the server, and the peers.                                    *)

\* PostAccept, called by RunServer and OnAccept: the new client is in the set
\* from here on, posted or not.
PostAccept(c) ==
  /\ server # "down" /\ c \notin clients /\ freed[c] = 0
  /\ clients' = clients \cup {c}
  /\ \/ server = "running" /\ io' = [io EXCEPT ![c].accept = TRUE]
     \/ (server = "stopping" \/ "post_accept" \in Faults) /\ UNCHANGED io
  /\ UNCHANGED <<server, freed, obj, link, workerVars>>

\* Mutated forms of ClearScan: overdue clients are released on the spot; they
\* are only marked off line.
ClearScanReleases ==
  /\ server # "down"
  /\ LET overdue == {c \in clients : obj[c].online /\ obj[c].stale}
     IN  /\ overdue # {}
         /\ clients' = clients \ overdue
         /\ freed' = [c \in Clients |-> IF c \in overdue THEN 1 ELSE freed[c]]
         /\ io' = [c \in Clients |-> IF c \in overdue
                    THEN [accept |-> FALSE, recv |-> 0, send |-> 0] ELSE io[c]]
         /\ link' = [c \in Clients |-> [link[c] EXCEPT !.sock = IF c \in overdue THEN "closed" ELSE @]]
  /\ UNCHANGED <<server, obj, workerVars>>

ClearScanMarks ==
  /\ server # "down"
  /\ LET overdue == {c \in clients : obj[c].online /\ obj[c].stale}
     IN  /\ overdue # {}
         /\ obj' = [c \in Clients |-> [obj[c] EXCEPT !.online = @ /\ c \notin overdue]]
  /\ UNCHANGED <<server, clients, freed, io, link, workerVars>>

\* One scan of _ClearThread, which a stop may overtake: clients on line whose
\* keep-alive is overdue are disconnected.
ClearScan ==
  /\ server # "down"
  /\ LET overdue == {c \in clients : obj[c].online /\ obj[c].stale}
     IN  /\ overdue # {}
         /\ obj' = [c \in Clients |-> [obj[c] EXCEPT !.online = @ /\ c \notin overdue]]
         /\ link' = [c \in Clients |-> [link[c] EXCEPT !.sock = IF c \in overdue THEN "shut" ELSE @]]
  /\ UNCHANGED <<server, clients, freed, io, workerVars>>

\* StopServer closes the listening socket, which cancels the accepts; drops the
\* callbacks of accepts that have not begun and waits for those that have and
\* for _ClearThread; and returns.  The clients have thread-pool ios outside the
\* cleanup group, and nothing closes them.
StopServer ==
  /\ server = "running"
  /\ server' = "stopping"
  /\ UNCHANGED <<clients, freed, obj, io, link, workerVars>>

StopServerWaited ==
  /\ server = "stopping"
  /\ \A w \in Workers : job[w].kind # "accept"
  /\ server' = "down"
  /\ io' = [c \in Clients |-> [io[c] EXCEPT !.accept = FALSE]]
  /\ UNCHANGED <<clients, freed, obj, link, workerVars>>

\* Sixty seconds without SetKeepALive.
Silence(c) ==
  /\ obj[c].online /\ ~obj[c].stale /\ freed[c] = 0
  /\ obj' = [obj EXCEPT ![c].stale = TRUE]
  /\ UNCHANGED <<server, clients, freed, io, link, workerVars>>

PeerLeaves(c) ==
  /\ \/ /\ "half_close" \in Faults /\ link[c].peer = "open"
        /\ link' = [link EXCEPT ![c].peer = "half"]
     \/ /\ "reset" \in Faults /\ link[c].peer \in {"open", "half"}
        /\ link' = [link EXCEPT ![c].peer = "reset"]
  /\ UNCHANGED <<server, clients, freed, obj, io, workerVars>>

-----------------------------------------------------------------------------

Callback(w) ==
  \/ Load(w) \/ Store(w) \/ Finish(w) \/ AddClient(w) \/ Receive(w) \/ TimedOut(w)
  \/ Echo(w) \/ Send(w) \/ PostRecv(w) \/ Arm(w) \/ Unarm(w) \/ Close(w) \/ Erase(w)

Completion(w, c) ==
  TakeAccept(w, c) \/ TakeData(w, c) \/ TakeEnd(w, c) \/ TakeTimeout(w, c) \/ TakeSend(w, c)

Next ==
  \/ \E w \in Workers : Callback(w) \/ FreedFault(w) \/ \E c \in Clients : Completion(w, c)
  \/ \E c \in Clients : PostAccept(c) \/ Silence(c) \/ PeerLeaves(c)
  \/ ClearScan \/ StopServer \/ StopServerWaited

Spec == Init /\ [][Next]_vars

\* Callbacks go on, the pool runs the completions of ended receives and of
\* sends, and _ClearThread scans once a second while the server runs.
FairSpec ==
  /\ Spec
  /\ \A w \in Workers : WF_vars(Callback(w))
  /\ \A c \in Clients : WF_vars(\E w \in Workers : TakeEnd(w, c))
                        /\ WF_vars(\E w \in Workers : TakeSend(w, c))
  /\ WF_vars(server = "running" /\ ClearScan)

-----------------------------------------------------------------------------
(* Properties.                                                               *)

Handles(w, c) == pc[w] # "idle" /\ job[w].cli = c
Handled(c) == \E w \in Workers : Handles(w, c)
Receiving(w, c) == Handles(w, c) /\ job[w].kind \in {"accept", "recv"}

\* The receive buffer, the reassembly buffer and the ExistPostRecv flag of a
\* client have one user at a time: the pending accept, the pending receive or
\* the one callback that handles either.
RecvExclusive ==
  \A c \in Clients :
    /\ io[c].recv <= 1
    /\ io[c].accept => io[c].recv = 0
    /\ \A w \in Workers : Receiving(w, c) => io[c].recv = 0 /\ ~io[c].accept
    /\ \A w, u \in Workers : Receiving(w, c) /\ Receiving(u, c) => w = u

\* No client is released twice, whichever callbacks decide to close it at once.
ReleasedOnce == \A c \in Clients : freed[c] <= 1

\* A client no callback handles has as many references as operations in the
\* kernel.
RefExact ==
  \A c \in Clients :
    freed[c] = 0 /\ ~Handled(c) => obj[c].ref = io[c].recv + io[c].send

\* No callback goes on with a client that another one released.
NoUseAfterRelease == \A w \in Workers : pc[w] # "idle" => freed[job[w].cli] = 0

\* A client that is on line, whose connection stands and which no callback
\* handles, has a receive outstanding: the server hears it.  (Once StopServer
\* has deleted the lock, OnClose may no longer get at the set.)
OnlineListens ==
  \A c \in clients :
    obj[c].online /\ ~Handled(c) /\ ~Gone(c) /\ server # "down" => io[c].recv = 1

\* A client with a receive outstanding when its connection ends is released.
GoneIsReleased ==
  \A c \in Clients : (Gone(c) /\ io[c].recv > 0) ~> (freed[c] > 0 \/ server = "down")

\* A client on line with a receive outstanding that falls silent, and stays
\* so, is disconnected and released.
SilentIsReleased ==
  \A c \in Clients : (obj[c].online /\ obj[c].stale /\ io[c].recv > 0) ~>
    (freed[c] > 0 \/ ~obj[c].stale \/ server # "running")
=============================================================================

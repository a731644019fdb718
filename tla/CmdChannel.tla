----------------------------- MODULE CmdChannel -----------------------------
(***************************************************************************)
(* Commands for programs that log: CCmdLogServer (LogClientDLL) accepts    *)
(* connections, learns the name of each client and sends commands to those *)
(* of a name; CCmdLog (LogLib), in each program, connects again whenever   *)
(* its connection ends, and runs every command on a thread of its own.     *)
(*                                                                         *)
(* A connection has a number; what the server's list holds is its handle,  *)
(* which is free for another connection once the socket is closed.  A      *)
(* command is the number of its place among all that were given.           *)
(***************************************************************************)
EXTENDS Naturals, Sequences, FiniteSets, Functions, Loops

CONSTANTS
  Clients,    \* programs with a CCmdLog
  Names,      \* client names, as MakeTextToUpper leaves them
  RunAgain,   \* whether programs call Run again after Stop
  Handles,    \* socket handles of the server's process
  MaxConns,   \* bound: sockets the clients create
  MaxCmds,    \* bound: commands
  MaxCalls,   \* bound: calls of the programs to Run, ReSetClientName and Stop
  MaxFaults   \* bound: calls the network fails, and messages it cuts

ASSUME BoundsAssumption == {MaxConns, MaxCmds, MaxCalls, MaxFaults} \subseteq Nat
ASSUME NamesAssumption == Names # {}
ASSUME HandlesAssumption == Handles \subseteq Nat

VARIABLES
  run,      \* _Run of each client
  name,     \* _wsClientName
  sk,       \* _skClient, 0 for INVALID_SOCKET
  recvPc,   \* where the client's _RecvThread is
  rs,       \* the socket it receives from
  appPc,    \* where the program is that calls Stop or ReSetClientName
  conn,     \* the connections
  srvRun,   \* _Run of the server
  acceptPc, \* where _AcceptThread is
  list,     \* _VecClient
  sendPc,   \* where SendContent is
  todo,     \* VecClientSocket: handles still to send to
  cmds,     \* who each command was for
  started,  \* commands each client has a thread for
  ran,      \* commands each client ran
  calls,    \* calls of the programs so far
  faults    \* faults so far

clientVars == <<run, name, sk, recvPc, rs, appPc>>
serverVars == <<srvRun, acceptPc, list>>
sendVars == <<sendPc, todo, cmds>>
execVars == <<started, ran>>
vars == <<clientVars, conn, serverVars, sendVars, execVars, calls, faults>>

\* The name a command for all clients is looked up by.
Everyone == ""

RecvLabels == {"none", "top", "connect", "dial", "hello", "inner", "recv", "check", "reset", "done"}
AppLabels == {"idle", "rename_check", "rename_reset", "stop_check", "stop_reset", "stop_wait"}

\* near, far: the client's and the server's end.  up: what the server can read.
Conn == [owner: Clients, near: {"new", "open", "closed"},
         far: {"none", "backlog", "hello", "listed", "closed"},
         handle: Handles \cup {0}, up: {"none", "part", "whole"}, name: Names,
         down: Seq(1 .. MaxCmds)]

Entry == [handle: Handles, name: Names]

TypeOK ==
  /\ run \in [Clients -> BOOLEAN] /\ name \in [Clients -> Names]
  /\ conn \in Seq(Conn)
  /\ \A p \in Clients : {sk[p], rs[p]} \subseteq 0 .. Len(conn)
  /\ recvPc \in [Clients -> RecvLabels] /\ appPc \in [Clients -> AppLabels]
  /\ srvRun \in BOOLEAN /\ acceptPc \in {"accept", "done"} /\ list \in Seq(Entry)
  /\ sendPc \in {"idle", "send", "remove", "close"} /\ todo \in Seq(Handles)
  /\ (sendPc = "idle") = (todo = <<>>)
  /\ cmds \in Seq(Names \cup {Everyone})
  /\ \A p \in Clients : started[p] \cup Range(ran[p]) \subseteq DOMAIN cmds
  /\ calls \in 0 .. MaxCalls /\ faults \in 0 .. MaxFaults

Init ==
  /\ run = [p \in Clients |-> FALSE] /\ name = [p \in Clients |-> CHOOSE n \in Names : TRUE]
  /\ sk = [p \in Clients |-> 0] /\ rs = [p \in Clients |-> 0]
  /\ recvPc = [p \in Clients |-> "none"] /\ appPc = [p \in Clients |-> "idle"]
  /\ conn = <<>>
  /\ srvRun = TRUE /\ acceptPc = "accept" /\ list = <<>>
  /\ sendPc = "idle" /\ todo = <<>> /\ cmds = <<>>
  /\ started = [p \in Clients |-> {}] /\ ran = [p \in Clients |-> <<>>]
  /\ calls = 0 /\ faults = 0

RecvGoto(p, label) == recvPc' = [recvPc EXCEPT ![p] = label]
AppGoto(p, label) == appPc' = [appPc EXCEPT ![p] = label]
Call == calls < MaxCalls /\ calls' = calls + 1
Fault == faults < MaxFaults /\ faults' = faults + 1

-----------------------------------------------------------------------------
(* The program that uses CCmdLog: Run, ReSetClientName and Stop.             *)

Run(p) ==
  /\ Call /\ appPc[p] = "idle" /\ recvPc[p] \in {"none"} \cup (IF RunAgain THEN {"done"} ELSE {})
  /\ run' = [run EXCEPT ![p] = TRUE]
  /\ RecvGoto(p, "top")
  /\ UNCHANGED <<name, sk, rs, appPc, conn, serverVars, sendVars, execVars, faults>>

\* Both change a field first and then call BreakLogConnect.
ReSetClientName(p) ==
  /\ Call /\ appPc[p] = "idle"
  /\ \E n \in Names \ {name[p]} : name' = [name EXCEPT ![p] = n]
  /\ AppGoto(p, "rename_check")
  /\ UNCHANGED <<run, sk, recvPc, rs, conn, serverVars, sendVars, execVars, faults>>

Stop(p) ==
  /\ Call /\ appPc[p] = "idle" /\ run[p]
  /\ run' = [run EXCEPT ![p] = FALSE]
  /\ AppGoto(p, "stop_check")
  /\ UNCHANGED <<name, sk, recvPc, rs, conn, serverVars, sendVars, execVars, faults>>

\* BreakLogConnect: a socket there is is closed ...
CloseNear(p) == conn' = [conn EXCEPT ![sk[p]].near = "closed"]

AppBreak(p) ==
  /\ appPc[p] \in {"rename_check", "stop_check"}
  /\ IF sk[p] = 0
     THEN AppGoto(p, IF appPc[p] = "stop_check" THEN "stop_wait" ELSE "idle") /\ UNCHANGED conn
     ELSE AppGoto(p, IF appPc[p] = "stop_check" THEN "stop_reset" ELSE "rename_reset") /\ CloseNear(p)
  /\ UNCHANGED <<run, name, sk, recvPc, rs, serverVars, sendVars, execVars, faults, calls>>

\* ... and _skClient set to INVALID_SOCKET, whatever it is by then.
AppReset(p) ==
  /\ appPc[p] \in {"rename_reset", "stop_reset"}
  /\ sk' = [sk EXCEPT ![p] = 0]
  /\ AppGoto(p, IF appPc[p] = "stop_reset" THEN "stop_wait" ELSE "idle")
  /\ UNCHANGED <<run, name, recvPc, rs, conn, serverVars, sendVars, execVars, faults, calls>>

\* Stop waits for the thread, and terminates it after three seconds.
StopWait(p) ==
  /\ appPc[p] = "stop_wait"
  /\ \/ recvPc[p] \in {"none", "done"} /\ UNCHANGED <<recvPc, faults>>
     \/ recvPc[p] \notin {"none", "done"} /\ RecvGoto(p, "done") /\ Fault
  /\ AppGoto(p, "idle")
  /\ UNCHANGED <<run, name, sk, rs, conn, serverVars, sendVars, execVars, calls>>

-----------------------------------------------------------------------------
(* _RecvThread.                                                             *)

Top(p) ==
  /\ recvPc[p] = "top"
  /\ RecvGoto(p, IF run[p] THEN "connect" ELSE "done")
  /\ UNCHANGED <<run, name, sk, rs, appPc, conn, serverVars, sendVars, execVars, faults, calls>>

\* ConnectLogServer: a socket, unless the last attempt has left one ...
CreateSocket(p) ==
  /\ recvPc[p] = "connect"
  /\ IF sk[p] # 0 THEN UNCHANGED <<sk, conn>>
     ELSE /\ Len(conn) < MaxConns
          /\ sk' = [sk EXCEPT ![p] = Len(conn) + 1]
          /\ conn' = Append(conn, [owner |-> p, near |-> "new", far |-> "none", handle |-> 0,
                                   up |-> "none", name |-> name[p], down |-> <<>>])
  /\ RecvGoto(p, "dial")
  /\ UNCHANGED <<run, name, rs, appPc, serverVars, sendVars, execVars, faults, calls>>

\* ... that is connected, if it is there still and the server listens.
Connect(p) ==
  /\ recvPc[p] = "dial"
  /\ LET c == sk[p]
     IN  IF c # 0 /\ conn[c].near = "new" /\ srvRun
         THEN /\ conn' = [conn EXCEPT ![c].near = "open", ![c].far = "backlog"]
              /\ RecvGoto(p, "hello")
         ELSE RecvGoto(p, "top") /\ UNCHANGED conn
  /\ UNCHANGED <<run, name, sk, rs, appPc, serverVars, sendVars, execVars, faults, calls>>

\* SendClientName: a failed send gives -1, which as a BOOL is true.
SendClientName(p) ==
  /\ recvPc[p] = "hello"
  /\ LET c == sk[p]
     IN  IF c # 0 /\ conn[c].near = "open" /\ conn[c].far # "closed"
         THEN \/ conn' = [conn EXCEPT ![c].up = "whole", ![c].name = name[p]] /\ UNCHANGED faults
              \/ conn' = [conn EXCEPT ![c].up = "part"] /\ Fault
         ELSE UNCHANGED <<conn, faults>>
  /\ RecvGoto(p, "inner")
  /\ UNCHANGED <<run, name, sk, rs, appPc, serverVars, sendVars, execVars, calls>>

Inner(p) ==
  /\ recvPc[p] = "inner"
  /\ rs' = [rs EXCEPT ![p] = IF run[p] THEN sk[p] ELSE 0]
  /\ RecvGoto(p, IF run[p] THEN "recv" ELSE "top")
  /\ UNCHANGED <<run, name, sk, appPc, conn, serverVars, sendVars, execVars, faults, calls>>

\* Mutated form of Recv: a message that was cut is received again.
RecvAgain(p) ==
  /\ recvPc[p] = "recv" /\ rs[p] # 0
  /\ LET c == rs[p]
         k == Head(conn[c].down)
     IN  /\ conn[c].near = "open" /\ conn[c].down # <<>>
         /\ \/ /\ started' = [started EXCEPT ![p] = @ \cup {k}]
               /\ conn' = [conn EXCEPT ![c].down = Tail(@)]
               /\ UNCHANGED faults
            \/ started' = [started EXCEPT ![p] = @ \cup {k}] /\ Fault /\ UNCHANGED conn
  /\ RecvGoto(p, "inner")
  /\ UNCHANGED <<run, name, sk, rs, appPc, serverVars, sendVars, ran, calls>>

\* Mutated form of Recv: after a message that was cut it goes on receiving.
RecvGoesOn(p) ==
  /\ recvPc[p] = "recv" /\ rs[p] # 0
  /\ LET c == rs[p] IN
         /\ conn[c].near = "open" /\ conn[c].down # <<>>
         /\ conn' = [conn EXCEPT ![c].down = Tail(@)]
         /\ \/ started' = [started EXCEPT ![p] = @ \cup {Head(conn[c].down)}] /\ UNCHANGED faults
            \/ Fault /\ UNCHANGED started
  /\ RecvGoto(p, "inner")
  /\ UNCHANGED <<run, name, sk, rs, appPc, serverVars, sendVars, ran, calls>>

\* Recv gets a message; ExcuteLogServerCmd gives it a thread.  One that was cut
\* is lost, and the connection is given up.
Recv(p) ==
  /\ recvPc[p] = "recv" /\ rs[p] # 0
  /\ LET c == rs[p] IN
         /\ conn[c].near = "open" /\ conn[c].down # <<>>
         /\ conn' = [conn EXCEPT ![c].down = Tail(@)]
         /\ \/ /\ started' = [started EXCEPT ![p] = @ \cup {Head(conn[c].down)}]
               /\ RecvGoto(p, "inner") /\ UNCHANGED faults
            \/ RecvGoto(p, "check") /\ Fault /\ UNCHANGED started
  /\ UNCHANGED <<run, name, sk, rs, appPc, serverVars, sendVars, ran, calls>>

\* No socket, one that another thread has closed, or the server has closed it.
RecvFailed(p) ==
  /\ recvPc[p] = "recv"
  /\ \/ rs[p] = 0
     \/ rs[p] # 0 /\ conn[rs[p]].near # "open"
     \/ rs[p] # 0 /\ conn[rs[p]].far = "closed" /\ conn[rs[p]].down = <<>>
  /\ RecvGoto(p, "check")
  /\ UNCHANGED <<run, name, sk, rs, appPc, conn, serverVars, sendVars, execVars, faults, calls>>

\* Recv calls BreakLogConnect.
RecvBreak(p) ==
  /\ recvPc[p] = "check"
  /\ IF sk[p] = 0 THEN RecvGoto(p, "top") /\ UNCHANGED conn
                  ELSE RecvGoto(p, "reset") /\ CloseNear(p)
  /\ UNCHANGED <<run, name, sk, rs, appPc, serverVars, sendVars, execVars, faults, calls>>

\* Mutated form of RecvReset: the closed socket is kept.
RecvKeeps(p) ==
  /\ recvPc[p] = "reset"
  /\ RecvGoto(p, "top")
  /\ UNCHANGED <<run, name, sk, rs, appPc, conn, serverVars, sendVars, execVars, calls, faults>>

RecvReset(p) ==
  /\ recvPc[p] = "reset"
  /\ sk' = [sk EXCEPT ![p] = 0]
  /\ RecvGoto(p, "top")
  /\ UNCHANGED <<run, name, rs, appPc, conn, serverVars, sendVars, execVars, faults, calls>>

RecvThread(p) ==
  \/ Top(p) \/ CreateSocket(p) \/ Connect(p) \/ SendClientName(p) \/ Inner(p)
  \/ Recv(p) \/ RecvFailed(p) \/ RecvBreak(p) \/ RecvReset(p)

\* The threads of commands run in any order.
Execute(p) ==
  /\ \E k \in started[p] :
       /\ started' = [started EXCEPT ![p] = @ \ {k}]
       /\ ran' = [ran EXCEPT ![p] = Append(@, k)]
  /\ UNCHANGED <<clientVars, conn, serverVars, sendVars, faults, calls>>

-----------------------------------------------------------------------------
(* CCmdLogServer.                                                           *)

Held == {conn[c].handle : c \in {d \in DOMAIN conn : conn[d].far \in {"hello", "listed"}}}

\* _AcceptThread gives each connection a thread.
Accept ==
  /\ acceptPc = "accept" /\ srvRun
  /\ \E c \in DOMAIN conn, h \in Handles \ Held :
       /\ conn[c].far = "backlog"
       /\ \A g \in Handles \ Held : h <= g
       /\ conn' = [conn EXCEPT ![c].far = "hello", ![c].handle = h]
  /\ UNCHANGED <<clientVars, serverVars, sendVars, execVars, faults, calls>>

AcceptEnds ==
  /\ acceptPc = "accept" /\ ~srvRun
  /\ acceptPc' = "done"
  /\ UNCHANGED <<clientVars, conn, srvRun, list, sendVars, execVars, faults, calls>>

\* The thread lists a client that has sent its name whole ...
Register(c) ==
  /\ conn[c].far = "hello" /\ conn[c].up = "whole"
  /\ list' = Append(list, [handle |-> conn[c].handle, name |-> conn[c].name])
  /\ conn' = [conn EXCEPT ![c].far = "listed"]
  /\ UNCHANGED <<clientVars, srvRun, acceptPc, sendVars, execVars, faults, calls>>

\* Mutated form of Reject: it closes a connection that was registered, too, once
\* the client has closed it.
RejectListed(c) ==
  /\ conn[c].far \in {"hello", "listed"} /\ conn[c].near = "closed"
  /\ conn' = [conn EXCEPT ![c].far = "closed"]
  /\ UNCHANGED <<clientVars, serverVars, sendVars, execVars, calls, faults>>

\* ... and closes others: a part of it, the end of the connection, or nothing
\* for three seconds.
Reject(c) ==
  /\ conn[c].far = "hello"
  /\ \/ conn[c].up = "part" /\ UNCHANGED faults
     \/ conn[c].up = "none" /\ conn[c].near = "closed" /\ UNCHANGED faults
     \/ conn[c].up = "none" /\ conn[c].near # "closed" /\ Fault
  /\ conn' = [conn EXCEPT ![c].far = "closed"]
  /\ UNCHANGED <<clientVars, serverVars, sendVars, execVars, calls>>

\* Stop: the clients that wait to be accepted are reset; those accepted stay.
StopServer ==
  /\ srvRun /\ srvRun' = FALSE
  /\ conn' = [c \in DOMAIN conn |->
                [conn[c] EXCEPT !.far = IF @ = "backlog" THEN "closed" ELSE @]]
  /\ UNCHANGED <<clientVars, acceptPc, list, sendVars, execVars, faults, calls>>

\* WriteMsgToClient, called on the one UI thread of the log window, and SendContent:
\* a copy of the handles of that name.  "all", or no name, is for every client.
SendContent ==
  /\ sendPc = "idle" /\ Len(cmds) < MaxCmds
  /\ \E n \in Names \cup {"ALL", Everyone} :
       LET to == IF n = "ALL" THEN Everyone ELSE n
           picked == Kept(list, {j \in DOMAIN list : to \in {Everyone, list[j].name}})
       IN  /\ cmds' = Append(cmds, to)
           /\ todo' = [j \in DOMAIN picked |-> picked[j].handle]
           /\ sendPc' = IF picked = <<>> THEN "idle" ELSE "send"
  /\ UNCHANGED <<clientVars, conn, serverVars, execVars, faults, calls>>

\* Mutated form of NextTarget: one turn too many.
NextTargetAlways == todo' = Tail(todo) /\ sendPc' = "send"

NextTarget == todo' = Tail(todo) /\ sendPc' = IF Tail(todo) = <<>> THEN "idle" ELSE "send"

\* Nobody may read what was sent; a send to a closed end may fail or not.
Send ==
  /\ sendPc = "send"
  /\ \/ /\ \E c \in DOMAIN conn :
             /\ conn[c].handle = Head(todo) /\ conn[c].far \in {"hello", "listed"}
             /\ conn' = [conn EXCEPT ![c].down = Append(@, Len(cmds))]
        /\ NextTarget /\ UNCHANGED faults
     \/ /\ IF \E c \in DOMAIN conn : /\ conn[c].handle = Head(todo)
                                     /\ conn[c].far \in {"hello", "listed"}
                                     /\ conn[c].near = "open"
           THEN Fault ELSE UNCHANGED faults
        /\ sendPc' = "remove" /\ UNCHANGED <<conn, todo>>
  /\ UNCHANGED <<clientVars, serverVars, cmds, execVars, calls>>

\* Mutated form of RemoveSocket: the entry stays.
RemoveNothing ==
  /\ sendPc = "remove" /\ sendPc' = "close"
  /\ UNCHANGED <<clientVars, conn, serverVars, todo, cmds, execVars, faults, calls>>

\* A send that fails: RemoveSocket ...
RemoveSocket ==
  /\ sendPc = "remove" /\ sendPc' = "close"
  /\ list' = Kept(list, {j \in DOMAIN list : list[j].handle # Head(todo)})
  /\ UNCHANGED <<clientVars, conn, srvRun, acceptPc, todo, cmds, execVars, faults, calls>>

\* ... and then the socket is closed.
CloseSocket ==
  /\ sendPc = "close"
  /\ conn' = [c \in DOMAIN conn |->
                [conn[c] EXCEPT !.far = IF conn[c].handle = Head(todo) /\ @ \in {"hello", "listed"}
                                        THEN "closed" ELSE @]]
  /\ NextTarget
  /\ UNCHANGED <<clientVars, serverVars, cmds, execVars, faults, calls>>

Sending == Send \/ RemoveSocket \/ CloseSocket

-----------------------------------------------------------------------------

Breaking(p) == AppBreak(p) \/ AppReset(p) \/ StopWait(p)

ServerThreads == Accept \/ AcceptEnds \/ \E c \in DOMAIN conn : Register(c) \/ Reject(c)

Next ==
  \/ \E p \in Clients : Run(p) \/ ReSetClientName(p) \/ Stop(p) \/ Breaking(p)
  \/ \E p \in Clients : RecvThread(p) \/ Execute(p)
  \/ ServerThreads \/ StopServer \/ SendContent \/ Sending

Spec == Init /\ [][Next]_vars

\* Threads go on, and connections that wait are accepted.
FairSpec ==
  /\ Spec
  /\ \A p \in Clients : WF_vars(RecvThread(p)) /\ WF_vars(Breaking(p)) /\ WF_vars(Execute(p))
  /\ WF_vars(ServerThreads) /\ WF_vars(Sending)

-----------------------------------------------------------------------------
(* Properties.                                                              *)

\* A client runs no command twice, though it may be listed twice.
AtMostOnce ==
  \A p \in Clients :
    /\ \A j, k \in DOMAIN ran[p] : ran[p][j] = ran[p][k] => j = k
    /\ started[p] \cap Range(ran[p]) = {}

\* The list has an entry for each connection that was registered and not
\* closed, with its handle and its name, and no other; but for the one that
\* SendContent is about to close.
ListIsTrue ==
  LET closing == IF sendPc = "close" THEN {Head(todo)} ELSE {}
      Live == {c \in DOMAIN conn : conn[c].far = "listed" /\ conn[c].handle \notin closing}
  IN  /\ Range(list) = {[handle |-> conn[c].handle, name |-> conn[c].name] : c \in Live}
      /\ Len(list) = Cardinality(Live)

\* Where a command is on its way, it was meant for the name the client gave on
\* that connection.
RightTarget ==
  \A c \in DOMAIN conn, k \in 1 .. MaxCmds :
    k \in Range(conn[c].down) => cmds[k] \in {Everyone, conn[c].name}

\* The state has its types, and commands go to whom they are meant for, once.
OnlyMeant == TypeOK /\ RightTarget /\ AtMostOnce

Registered(p) == \E c \in DOMAIN conn : /\ conn[c].owner = p /\ conn[c].near = "open"
                                        /\ conn[c].far = "listed" /\ conn[c].name = name[p]

\* A client that runs is listed with its latest name, as long as the server
\* runs, whatever breaks, until it stops (or the bound on sockets is reached).
ComesBack ==
  \A p \in Clients :
    (run[p] /\ srvRun) ~> (Registered(p) \/ ~run[p] \/ ~srvRun \/ Len(conn) = MaxConns)

\* A command that reached the connection a client reads is run, as long as that
\* connection stays the client's.
SentIsRun ==
  \A p \in Clients, k \in 1 .. MaxCmds, c \in 1 .. MaxConns :
    (sk[p] = c /\ rs[p] = c /\ k \in Range(conn[c].down))
      ~> (k \in Range(ran[p]) \/ ~run[p] \/ sk[p] # c)
=============================================================================

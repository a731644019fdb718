--------------------------- MODULE ClientService ----------------------------
(***************************************************************************)
(* CSocketBaseClientService: a program connects to a server, sends         *)
(* requests and gets the packets of the server cut from the stream, in     *)
(* callbacks of a thread pool.  All receives share _RecvBuffer, and a      *)
(* receive is posted by each PostSend and by each OnRecv that is left with *)
(* part of a packet.  TCP cuts the stream as it likes; `well` remembers     *)
(* whether it has cut so that the code can follow.                         *)
(*                                                                         *)
(* A byte of the stream is <<k, i>>, the i-th of the k-th packet; the      *)
(* first SizeLen of a packet hold its length.                              *)
(***************************************************************************)
EXTENDS Integers, Sequences, FiniteSets, SequencesExt

CONSTANTS
  Workers,     \* threads of the pool
  Lengths,     \* lengths of packets
  SizeLen,     \* 4 in the code
  ClientRecvLen,  \* em_Buffer_Length
  Numbers,     \* what bytes that are no size of a packet may say as one
  MaxRequests, MaxAnswers, MaxFaults   \* bounds: PostSends, packets, faults

LengthsAssumption == \A l \in Lengths : l \in Nat /\ l >= SizeLen
BufferAssumption == SizeLen \in Nat \ {0} /\ ClientRecvLen \in Nat /\ ClientRecvLen >= SizeLen
NumbersAssumption == Numbers \subseteq Nat /\ Numbers # {}
BoundsAssumption == {MaxRequests, MaxAnswers, MaxFaults} \subseteq Nat

VARIABLES
  appPc,      \* where the program is
  told,       \* what Run has returned
  bConnect,   \* _bConnect
  socket,     \* _ServerSocket; "closed" is INVALID_SOCKET again
  io,         \* whether _pServerTpIo is set
  connecting, \* whether the kernel has a ConnectEx
  posted,     \* receives in the kernel
  sends,      \* sends in the kernel
  exist,      \* _ExistPostRecv
  recvBuffer, \* _RecvBuffer
  vecBuffer,  \* _VecBuffer
  recvSize,   \* _dwRecvSize
  worker,     \* the callback of each worker
  echoed,     \* history: packets EchoPacket got as long as `well`
  lengths,    \* the lengths of the packets the server sent
  taken,      \* bytes of the stream the receives have taken
  requests,   \* requests sent
  peer,       \* whether the server is there
  well,       \* history: whether each receive so far was cut well, and handled alone
  faults

appVars == <<appPc, told, requests>>
linkVars == <<bConnect, socket, io>>
kernelVars == <<connecting, posted, sends>>
dataVars == <<recvBuffer, vecBuffer, recvSize, echoed>>
serverVars == <<lengths, peer>>
netVars == <<taken, well>>
clientVars == <<appVars, linkVars, kernelVars, exist, dataVars, worker, serverVars, netVars, faults>>

AppLabels == {"new", "wait", "idle", "send", "stop", "stop_recv", "stop_send", "stopped", "crashed"}
Kinds == {"connect", "recv", "send", "timeout", "error"}

\* left, off: NumberOfBytesTransferred and Buffer - _RecvBuffer.
Idle == [pc |-> "idle", kind |-> "send", left |-> 0, off |-> 0, packet |-> <<>>]
Job(k, n) == [Idle EXCEPT !.pc = "queued", !.kind = k, !.left = n]

PacketOf(k) == [i \in 1 .. lengths[k] |-> <<k, i>>]
ByteStream == FlattenSeq([k \in 1 .. Len(lengths) |-> PacketOf(k)])
NoByte == <<0, 0>>   \* a zero, or what lies in memory behind _RecvBuffer
Bytes == (1 .. MaxAnswers) \X Nat \union {NoByte}
Zeros == [i \in 1 .. ClientRecvLen |-> NoByte]

ClientTypeOK ==
  /\ appPc \in AppLabels /\ told \in {"none", "yes", "no"} /\ requests \in 0 .. MaxRequests
  /\ bConnect \in BOOLEAN /\ io \in BOOLEAN /\ exist \in BOOLEAN /\ connecting \in BOOLEAN
  /\ socket \in {"none", "bound", "open", "closed"}
  /\ posted \in Nat /\ sends \in 0 .. MaxRequests
  /\ recvBuffer \in [1 .. ClientRecvLen -> Bytes] /\ vecBuffer \in Seq(Bytes) /\ recvSize \in Nat
  /\ \A w \in Workers :
       /\ worker[w].pc \in {"idle", "queued", "loop", "echo", "tail", "rest", "hang"}
       /\ worker[w].kind \in Kinds /\ worker[w].left \in Nat /\ worker[w].off \in Nat
       /\ worker[w].left + worker[w].off <= ClientRecvLen
  /\ lengths \in Seq(Lengths) /\ peer \in {"up", "down"}
  /\ taken \in 0 .. Len(ByteStream) /\ well \in BOOLEAN /\ faults \in 0 .. MaxFaults

ClientInit ==
  /\ appPc = "new" /\ told = "none" /\ requests = 0
  /\ bConnect = FALSE /\ socket = "none" /\ io = FALSE
  /\ connecting = FALSE /\ posted = 0 /\ sends = 0 /\ exist = FALSE
  /\ recvBuffer = Zeros /\ vecBuffer = <<>> /\ recvSize = 0 /\ echoed = <<>>
  /\ worker = [w \in Workers |-> Idle]
  /\ lengths = <<>> /\ peer = "up" /\ taken = 0 /\ well = TRUE /\ faults = 0

Fault == faults < MaxFaults /\ faults' = faults + 1
Queued == {w \in Workers : worker[w].pc = "queued"}
Running == {w \in Workers : worker[w].pc \notin {"idle", "queued"}}
Become(w, c) == worker' = [worker EXCEPT ![w] = c]
EndCallback(w) == Become(w, Idle)

-----------------------------------------------------------------------------
(* The program.                                                             *)

\* Run fails before there is a socket ...
CreateServerSocketFails == Fault /\ told' = "no" /\ appPc' = "idle" /\ UNCHANGED <<socket, io, connecting>>

\* ... or a thread-pool io, when Stop has a socket to close only ...
CreateIoFails ==
  Fault /\ told' = "no" /\ appPc' = "idle" /\ socket' = "closed" /\ UNCHANGED <<io, connecting>>

\* A connect that does not start frees the list of addresses, and the loop reads
\* the next one from it: there is none, or some address is tried, or it faults.
ConnectExFails ==
  /\ Fault /\ socket' = "bound" /\ io' = TRUE
  /\ \/ told' = "no" /\ appPc' = "idle" /\ UNCHANGED connecting
     \/ connecting' = TRUE /\ appPc' = "wait" /\ UNCHANGED told
     \/ appPc' = "crashed" /\ UNCHANGED <<told, connecting>>

\* One that is through at once leaves the loop with FALSE; its callback comes.
ConnectExAtOnce ==
  told' = "no" /\ appPc' = "idle" /\ socket' = "bound" /\ io' = TRUE /\ connecting' = TRUE /\ UNCHANGED faults

ConnectExPends ==
  /\ socket' = "bound" /\ io' = TRUE /\ connecting' = TRUE
  /\ appPc' = "wait" /\ UNCHANGED <<told, faults>>

PostConnect == ConnectExFails \/ ConnectExAtOnce \/ ConnectExPends

Run ==
  /\ appPc = "new"
  /\ CreateServerSocketFails \/ CreateIoFails \/ PostConnect
  /\ UNCHANGED <<requests, bConnect, posted, sends, exist, dataVars, worker, serverVars, netVars>>

\* WaitToConnect looks until _bConnect is set or the time has run out.
WaitToConnect ==
  /\ appPc = "wait" /\ appPc' = "idle"
  /\ \/ bConnect /\ told' = "yes" /\ UNCHANGED faults
     \/ Fault /\ told' = "no"
  /\ UNCHANGED <<requests, linkVars, kernelVars, exist, dataVars, worker, serverVars, netVars>>

\* Mutated form of Disconnect: _bConnect stays.
DisconnectQuietly ==
  /\ bConnect' = bConnect
  /\ socket' = IF socket = "none" THEN "none" ELSE "closed"

\* What Stop does before it waits for the callbacks.
Disconnect ==
  /\ bConnect' = FALSE
  /\ socket' = IF socket = "none" THEN "none" ELSE "closed"

\* PostSend begins with a receive.  One that fails closes the connection.
PostSend ==
  /\ appPc = "idle" /\ told = "yes" /\ bConnect /\ requests < MaxRequests
  /\ \/ /\ socket = "open" /\ posted' = posted + 1 /\ exist' = TRUE
        /\ appPc' = "send" /\ UNCHANGED <<bConnect, socket, faults>>
     \/ /\ IF socket = "open" THEN Fault ELSE UNCHANGED faults
        /\ Disconnect /\ exist' = TRUE /\ appPc' = "stop_recv" /\ UNCHANGED posted
  /\ UNCHANGED <<told, requests, io, connecting, sends, dataVars, worker, serverVars, netVars>>

\* Its second half sends.  With _pServerTpIo gone StartThreadpoolIo faults.
WsaSend ==
  /\ appPc = "send"
  /\ \/ /\ ~io /\ appPc' = "crashed"
        /\ UNCHANGED <<requests, bConnect, socket, sends, faults>>
     \/ /\ io /\ socket = "open" /\ sends' = sends + 1 /\ requests' = requests + 1
        /\ appPc' = "idle" /\ UNCHANGED <<bConnect, socket, faults>>
     \/ /\ io /\ (IF socket = "open" THEN Fault ELSE UNCHANGED faults)
        /\ Disconnect /\ appPc' = "stop_send" /\ UNCHANGED <<requests, sends>>
  /\ UNCHANGED <<told, io, connecting, posted, exist, dataVars, worker, serverVars, netVars>>

Stop ==
  /\ appPc = "idle" /\ told # "none"
  /\ Disconnect /\ appPc' = "stop"
  /\ UNCHANGED <<told, requests, io, kernelVars, exist, dataVars, worker, serverVars, netVars, faults>>

\* Mutated form of WaitForCallbacks: it only drops those that have not begun.
DropCallbacks ==
  /\ io
  /\ worker' = [w \in Workers |-> IF w \in Queued THEN Idle ELSE worker[w]]
  /\ connecting' = FALSE /\ posted' = 0 /\ sends' = 0

\* WaitForThreadpoolIoCallbacks drops the callbacks that have not begun, and
\* waits for the others.
WaitForCallbacks ==
  /\ io /\ Running = {}
  /\ worker' = [w \in Workers |-> Idle]
  /\ connecting' = FALSE /\ posted' = 0 /\ sends' = 0

StopWait ==
  /\ appPc \in {"stop", "stop_recv", "stop_send"}
  /\ \/ WaitForCallbacks
     \/ ~io /\ UNCHANGED <<worker, kernelVars>>
  /\ io' = FALSE
  /\ appPc' = IF appPc = "stop_recv" THEN "send" ELSE "stopped"
  /\ exist' = IF appPc = "stop_recv" THEN FALSE ELSE exist
  /\ UNCHANGED <<told, requests, bConnect, socket, dataVars, serverVars, netVars, faults>>

GoesOn == WaitToConnect \/ WsaSend \/ StopWait

-----------------------------------------------------------------------------
(* The server and the kernel.                                               *)

\* A server sends packets, asked or not.
Answer ==
  /\ peer = "up" /\ socket = "open" /\ Len(lengths) < MaxAnswers
  /\ \E l \in Lengths : lengths' = Append(lengths, l)
  /\ UNCHANGED <<appVars, linkVars, kernelVars, exist, dataVars, worker, peer, netVars, faults>>

PeerCloses ==
  /\ peer = "up" /\ socket = "open" /\ Fault /\ peer' = "down"
  /\ UNCHANGED <<appVars, linkVars, kernelVars, exist, dataVars, worker, lengths, netVars>>

\* A callback that has bytes of the stream to handle.
HasBytes(w) ==
  /\ worker[w].kind = "recv"
  /\ worker[w].pc \in {"loop", "echo", "tail"} \/ (worker[w].pc = "queued" /\ worker[w].left > 0)

\* Whether the next n bytes do not end inside a size field, and go past the end of
\* a packet only if they begin with one and all their packets have its length.
CutWell(n) ==
  LET first == ByteStream[taken + 1]
      last  == ByteStream[taken + n]
  IN  /\ last[2] >= SizeLen
      /\ \/ first[1] = last[1]
         \/ first[2] = 1 /\ \A k \in first[1] .. last[1] : lengths[k] = lengths[first[1]]

\* The kernel writes any number of the bytes to _RecvBuffer before a callback is
\* queued, whether or not another one still reads there.
CompleteRecv(w) ==
  /\ posted > 0 /\ socket = "open" /\ worker[w] = Idle
  /\ \E n \in 1 .. ClientRecvLen :
       /\ taken + n <= Len(ByteStream)
       /\ recvBuffer' = [i \in 1 .. ClientRecvLen |-> IF i <= n THEN ByteStream[taken + i] ELSE recvBuffer[i]]
       /\ taken' = taken + n /\ posted' = posted - 1
       /\ well' = (well /\ CutWell(n) /\ \A u \in Workers : ~HasBytes(u))
       /\ Become(w, Job("recv", n))
  /\ UNCHANGED <<appVars, linkVars, connecting, sends, exist, vecBuffer, recvSize, echoed, serverVars, faults>>

\* The end of the stream, wherever the server left it, is a receive of no bytes.
CompleteEnd(w) ==
  /\ posted > 0 /\ socket = "open" /\ worker[w] = Idle /\ peer = "down"
  /\ posted' = posted - 1 /\ Become(w, Job("recv", 0))
  /\ UNCHANGED <<appVars, linkVars, connecting, sends, exist, dataVars, serverVars, netVars, faults>>

CompleteConnect(w) ==
  /\ connecting /\ socket = "bound" /\ worker[w] = Idle
  /\ connecting' = FALSE /\ socket' = "open" /\ Become(w, Job("connect", 0))
  /\ UNCHANGED <<appVars, bConnect, io, posted, sends, exist, dataVars, serverVars, netVars, faults>>

CompleteSend(w) ==
  /\ sends > 0 /\ socket = "open" /\ worker[w] = Idle
  /\ sends' = sends - 1 /\ Become(w, Job("send", 0))
  /\ UNCHANGED <<appVars, linkVars, connecting, posted, exist, dataVars, serverVars, netVars, faults>>

\* Operations fail when the socket is closed, and may otherwise; a receive may
\* time out.
CompleteFailed(w) ==
  /\ worker[w] = Idle
  /\ IF socket = "closed" THEN UNCHANGED faults ELSE Fault
  /\ \/ connecting /\ connecting' = FALSE /\ UNCHANGED <<posted, sends>> /\ Become(w, Job("error", 0))
     \/ /\ posted > 0 /\ posted' = posted - 1 /\ UNCHANGED <<connecting, sends>>
        /\ \/ Become(w, Job("error", 0))
           \/ socket = "open" /\ Become(w, Job("timeout", 0))
     \/ sends > 0 /\ sends' = sends - 1 /\ UNCHANGED <<connecting, posted>> /\ Become(w, Job("error", 0))
  /\ UNCHANGED <<appVars, linkVars, exist, dataVars, serverVars, netVars>>

Kernel(w) == CompleteRecv(w) \/ CompleteEnd(w) \/ CompleteConnect(w) \/ CompleteSend(w)

-----------------------------------------------------------------------------
(* The callbacks.                                                           *)

\* OnClose calls Stop, which waits for the callbacks, this one too: it stays.
OnClose(w) == Disconnect /\ Become(w, [worker[w] EXCEPT !.pc = "hang"])

\* Mutated form of PostRecv: only if the flag says that none is posted.
PostRecvUnlessFlag(w) ==
  \/ /\ socket = "open" /\ posted' = (IF exist THEN posted ELSE posted + 1) /\ exist' = TRUE /\ EndCallback(w)
     /\ UNCHANGED <<bConnect, socket, faults>>
  \/ /\ IF socket = "open" THEN Fault ELSE UNCHANGED faults
     /\ OnClose(w) /\ exist' = TRUE /\ UNCHANGED posted

\* PostRecv as a callback calls it, at its end.
PostRecv(w) ==
  \/ /\ socket = "open" /\ posted' = posted + 1 /\ exist' = TRUE /\ EndCallback(w)
     /\ UNCHANGED <<bConnect, socket, faults>>
  \/ /\ IF socket = "open" THEN Fault ELSE UNCHANGED faults
     /\ OnClose(w) /\ exist' = TRUE /\ UNCHANGED posted

\* IoCompletionCallback for what is not a receive with data.
Callback(w) ==
  /\ worker[w].pc = "queued" /\ worker[w].left = 0
  /\ \/ /\ worker[w].kind = "connect" /\ bConnect' = TRUE /\ EndCallback(w)
        /\ UNCHANGED <<socket, posted, exist, faults>>
     \/ worker[w].kind = "send" /\ EndCallback(w) /\ UNCHANGED <<bConnect, socket, posted, exist, faults>>
     \/ worker[w].kind \in {"recv", "error"} /\ OnClose(w) /\ UNCHANGED <<posted, exist, faults>>
     \/ /\ worker[w].kind = "timeout"
        /\ IF exist THEN EndCallback(w) /\ UNCHANGED <<bConnect, socket, posted, exist, faults>> ELSE PostRecv(w)
  /\ UNCHANGED <<appVars, io, connecting, sends, dataVars, serverVars, netVars>>

\* SetValue_By_Buffer on the start of _RecvBuffer: the length of the packet that
\* begins there, or 0 where it was zeroed, or else some number.
SizesAtStart ==
  LET start == SubSeq(recvBuffer, 1, SizeLen)
      k     == start[1][1]
  IN  IF k > 0 /\ \A i \in 1 .. SizeLen : start[i] = <<k, i>> THEN {lengths[k]}
      ELSE IF \A i \in 1 .. SizeLen : start[i] = NoByte THEN {0}
      ELSE Numbers

\* OnRecv: the size is read unless it is known ...
RecvBegins(w) ==
  /\ worker[w].pc = "queued" /\ worker[w].kind = "recv" /\ worker[w].left > 0
  /\ recvSize # 0 \/ worker[w].left >= SizeLen
  /\ \E n \in IF recvSize = 0 THEN SizesAtStart ELSE {recvSize} : recvSize' = n
  /\ Become(w, [worker[w] EXCEPT !.pc = "loop"])
  /\ UNCHANGED <<appVars, linkVars, kernelVars, exist, recvBuffer, vecBuffer, echoed, serverVars, netVars, faults>>

\* Nothing is said of the bytes in _VecBuffer and of packets when not `well`: only
\* how many there are goes on to count.
Followed(s) == IF well THEN s ELSE [i \in 1 .. Len(s) |-> NoByte]

RestOf(w) == SubSeq(recvBuffer, worker[w].off + 1, worker[w].off + worker[w].left)

\* ... or the bytes are too few and put away.
RecvShort(w) ==
  /\ worker[w].pc = "queued" /\ worker[w].kind = "recv" /\ worker[w].left > 0
  /\ recvSize = 0 /\ worker[w].left < SizeLen
  /\ vecBuffer' = Followed(vecBuffer \o RestOf(w)) /\ PostRecv(w)
  /\ UNCHANGED <<appVars, io, connecting, sends, recvBuffer, recvSize, echoed, serverVars, netVars>>

\* Mutated form of FillPacket: counts the whole packet against this receive.
FillCountsAll(w) ==
  /\ worker[w].pc = "loop" /\ worker[w].left + Len(vecBuffer) >= recvSize
  /\ LET size == recvSize - Len(vecBuffer)
     IN  IF size < 0 THEN EndCallback(w) /\ vecBuffer' = Followed(vecBuffer \o Zeros)
         ELSE /\ vecBuffer' = <<>>
              /\ Become(w, [worker[w] EXCEPT !.pc = "echo", !.left = @ - recvSize, !.off = @ + size,
                              !.packet = Followed(vecBuffer \o SubSeq(RestOf(w), 1, size))])
  /\ UNCHANGED <<appVars, linkVars, kernelVars, exist, recvBuffer, recvSize, echoed, serverVars, netVars, faults>>

\* The loop: what the packet lacks goes to _VecBuffer, and that to EchoPacket.
\* A negative length appends what is behind the buffer too, until it faults.
FillPacket(w) ==
  /\ worker[w].pc = "loop" /\ worker[w].left + Len(vecBuffer) >= recvSize
  /\ LET size == recvSize - Len(vecBuffer)
     IN  IF size < 0 THEN EndCallback(w) /\ vecBuffer' = Followed(vecBuffer \o Zeros)
         ELSE /\ vecBuffer' = <<>>
              /\ Become(w, [worker[w] EXCEPT !.pc = "echo", !.left = @ - size, !.off = @ + size,
                              !.packet = Followed(vecBuffer \o SubSeq(RestOf(w), 1, size))])
  /\ UNCHANGED <<appVars, linkVars, kernelVars, exist, recvBuffer, recvSize, echoed, serverVars, netVars, faults>>

\* EchoPacket is the program's.
EchoPacket(w) ==
  /\ worker[w].pc = "echo"
  /\ echoed' = IF well THEN Append(echoed, worker[w].packet) ELSE echoed
  /\ Become(w, [worker[w] EXCEPT !.pc = "tail", !.packet = <<>>])
  /\ UNCHANGED <<appVars, linkVars, kernelVars, exist, recvBuffer, vecBuffer, recvSize, serverVars, netVars, faults>>

\* Mutated form of Tail: the size stays.
TailKeepsSize(w) ==
  /\ worker[w].pc = "tail"
  /\ IF worker[w].left >= SizeLen
     THEN /\ \E n \in SizesAtStart : recvSize' = n
          /\ Become(w, [worker[w] EXCEPT !.pc = "loop"])
     ELSE recvSize' = recvSize /\ EndCallback(w)
  /\ UNCHANGED <<appVars, linkVars, kernelVars, exist, recvBuffer, vecBuffer, echoed, serverVars, netVars, faults>>

\* The size of the packet that follows is read from the start of _RecvBuffer;
\* fewer bytes than a size has are dropped, and no receive is posted.
Tail_(w) ==
  /\ worker[w].pc = "tail"
  /\ IF worker[w].left >= SizeLen
     THEN /\ \E n \in SizesAtStart : recvSize' = n
          /\ Become(w, [worker[w] EXCEPT !.pc = "loop"])
     ELSE recvSize' = 0 /\ EndCallback(w)
  /\ UNCHANGED <<appVars, linkVars, kernelVars, exist, recvBuffer, vecBuffer, echoed, serverVars, netVars, faults>>

\* Mutated form of SaveRest: it needs a lock that Stop holds.
SaveRestLocked(w) ==
  /\ worker[w].pc = "loop" /\ worker[w].left + Len(vecBuffer) < recvSize
  /\ appPc # "stop"
  /\ vecBuffer' = Followed(vecBuffer \o RestOf(w)) /\ recvBuffer' = Zeros /\ PostRecv(w)
  /\ UNCHANGED <<appVars, io, connecting, sends, recvSize, echoed, serverVars, netVars>>

\* Part of a packet is put away, _RecvBuffer zeroed, and a receive posted.
SaveRest(w) ==
  /\ worker[w].pc = "loop" /\ worker[w].left + Len(vecBuffer) < recvSize
  /\ vecBuffer' = Followed(vecBuffer \o RestOf(w)) /\ recvBuffer' = Zeros /\ PostRecv(w)
  /\ UNCHANGED <<appVars, io, connecting, sends, recvSize, echoed, serverVars, netVars>>

ClientOnRecv(w) == RecvBegins(w) \/ RecvShort(w) \/ FillPacket(w) \/ EchoPacket(w) \/ Tail_(w) \/ SaveRest(w)

-----------------------------------------------------------------------------

ClientNext ==
  \/ Run \/ GoesOn \/ PostSend \/ Stop
  \/ Answer \/ PeerCloses
  \/ \E w \in Workers : Kernel(w) \/ CompleteFailed(w) \/ Callback(w) \/ ClientOnRecv(w)

ClientSpec == ClientInit /\ [][ClientNext]_clientVars

\* Threads go on with the call they are in, and the kernel completes what it can.
Fairness ==
  /\ WF_clientVars(GoesOn) /\ WF_clientVars(\E w \in Workers : Kernel(w))
  /\ \A w \in Workers : WF_clientVars(Callback(w) \/ ClientOnRecv(w))

ClientFairSpec == ClientSpec /\ Fairness

-----------------------------------------------------------------------------
(* Properties.                                                              *)

\* As long as TCP cuts the stream well and no two receives share _RecvBuffer,
\* what EchoPacket gets is the stream of packets, whole and in order.
Packets == INSTANCE PacketStream
  WITH Packets <- {[i \in 1 .. l |-> <<k, i>>] : k \in 1 .. MaxAnswers, l \in Lengths},
       sent <- [k \in 1 .. Len(lengths) |-> PacketOf(k)], delivered <- echoed, open <- TRUE

ClientIsStream == Packets!Spec

\* When the size of a packet that follows another in a receive has been read, it
\* is that packet's length: "Set Packet MaxSize".
NextSizeIsItsPackets ==
  \A w \in Workers :
    worker[w].pc = "loop" /\ worker[w].off > 0 =>
      LET next == recvBuffer[worker[w].off + 1]
      IN  next[2] = 1 => recvSize = lengths[next[1]]

\* IsConnect says so only while there is a connection, unless Run gave up
\* before the connect was through.
ConnectIsTrue == bConnect /\ told # "no" => socket = "open"

\* When Stop has returned no callback is left that could use the object.
StoppedIsQuiet == appPc = "stopped" /\ told = "yes" => \A w \in Workers : worker[w] = Idle

\* A callback that took 0 for a size cuts empty packets for ever.
Spins(w) == worker[w].pc \in {"loop", "echo", "tail"} /\ recvSize = 0

\* Stop returns, unless a callback has called OnClose or spins: it is never in its
\* wait from some time on.
StopReturns == []<>(appPc = "stop" => \E w \in Workers : worker[w].pc = "hang" \/ Spins(w))

\* Each request that was answered is seen to be in the end, unless the stream was cut
\* ill, the connection ends or a receive times out.
AnswersArrive ==
  []<>(\A k \in 1 .. MaxRequests :
         Len(lengths) >= k /\ requests >= k => Len(echoed) >= k \/ ~well \/ socket = "closed" \/ faults > 0)

\* The state has its types, and the flags the program reads say what is so.
ToldRight == ClientTypeOK /\ ConnectIsTrue /\ StoppedIsQuiet
=============================================================================

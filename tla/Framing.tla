------------------------------ MODULE Framing -------------------------------
(***************************************************************************)
(* How CSocketBaseServerService::OnRecv cuts the byte stream of one        *)
(* connection into packets.  A packet begins with its own size, four bytes *)
(* long; TCP delivers the stream in pieces of any length, up to the length *)
(* of the receive buffer.  One callback at a time handles the receives of  *)
(* a connection (ServerConn, RecvExclusive), so the steps below have no    *)
(* other actor than the peer.                                              *)
(***************************************************************************)
EXTENDS Integers, Sequences, FiniteSets

CONSTANTS
  Payloads,     \* byte sequences a peer sends
  RecvLen,      \* em_Buffer_Len - 1: the most one receive delivers
  MaxPackets,   \* bound: packets the peer sends
  SplitHeaders  \* whether a piece may end inside the four bytes of a size

Byte == 0 .. 255
HeaderLen == 4

\* OnRecv takes sizes for an int.
ASSUME PayloadsAssumption ==
  Payloads \subseteq Seq(Byte) /\ \A d \in Payloads : HeaderLen + Len(d) <= 2147483647
ASSUME RecvLenAssumption == RecvLen \in Nat /\ RecvLen >= HeaderLen
ASSUME BoundAssumption == MaxPackets \in Nat
ASSUME SplitAssumption == SplitHeaders \in BOOLEAN

VARIABLES
  stream,     \* the bytes the peer sent
  ends,       \* where in the stream each packet ends
  got,        \* how many bytes the receives have taken
  pc,         \* where OnRecv is: "wait" when a receive is posted
  rest,       \* the bytes of this receive from Buffer on
  buf,        \* _VecBuffer, its length being _uBufferSize
  maxSize,    \* _uBufferMaxSize
  delivered   \* the packets EchoRecive was called with

vars == <<stream, ends, got, pc, rest, buf, maxSize, delivered>>
peerVars == <<stream, ends>>

\* SetValue_By_Buffer: the first four bytes as a DWORD.
SizeAt(bytes) ==
  bytes[1] + 256 * (bytes[2] + 256 * (bytes[3] + 256 * bytes[4]))

IsPacket(bytes) == Len(bytes) >= HeaderLen /\ SizeAt(bytes) = Len(bytes)

\* GetDataPtr: the size, low byte first, before the data.
Header(n) == <<n % 256, (n \div 256) % 256, (n \div 65536) % 256, (n \div 16777216) % 256>>

Packet(data) == Header(HeaderLen + Len(data)) \o data

Labels == {"wait", "recv", "loop", "echo", "rest", "blocked", "closed"}

TypeOK ==
  /\ stream \in Seq(Byte) /\ ends \in Seq(Nat) /\ got \in 0 .. Len(stream)
  /\ pc \in Labels
  /\ rest \in Seq(Byte) /\ Len(rest) <= RecvLen
  /\ buf \in Seq(Byte) /\ maxSize \in Nat
  /\ \A k \in 1 .. Len(delivered) : IsPacket(delivered[k])

Init ==
  /\ stream = <<>> /\ ends = <<>> /\ got = 0
  /\ pc = "wait" /\ rest = <<>> /\ buf = <<>> /\ maxSize = 0
  /\ delivered = <<>>

\* Where the k-th packet ends.
End(k) == IF k = 0 THEN 0 ELSE ends[k]

-----------------------------------------------------------------------------
(* The peer and the network.                                                 *)

Send ==
  /\ Len(ends) < MaxPackets
  /\ \E data \in Payloads :
       /\ stream' = stream \o Packet(data)
       /\ ends' = Append(ends, Len(stream) + Len(Packet(data)))
  /\ UNCHANGED <<got, pc, rest, buf, maxSize, delivered>>

\* Whether position p is inside the size field of a packet.
InHeader(p) == \E k \in 0 .. Len(ends) : End(k) < p /\ p < End(k) + HeaderLen

\* The posted receive completes with the next n bytes.
Arrive(n) ==
  /\ pc = "wait"
  /\ got + n <= Len(stream)
  /\ SplitHeaders \/ ~InHeader(got + n)
  /\ got' = got + n
  /\ rest' = SubSeq(stream, got + 1, got + n)
  /\ pc' = "recv"
  /\ UNCHANGED <<peerVars, buf, maxSize, delivered>>

-----------------------------------------------------------------------------
(* OnRecv.                                                                   *)

\* Fewer than four bytes are put away and the next receive is posted.
Short ==
  /\ pc = "recv" /\ Len(rest) < HeaderLen
  /\ buf' = buf \o rest
  /\ rest' = <<>>
  /\ pc' = "wait"
  /\ UNCHANGED <<peerVars, got, maxSize, delivered>>

\* Mutated form of Begin: the size is read again from every receive.
BeginAlwaysReads ==
  /\ pc = "recv" /\ Len(rest) >= HeaderLen
  /\ maxSize' = SizeAt(rest)
  /\ pc' = "loop"
  /\ UNCHANGED <<peerVars, got, rest, buf, delivered>>

\* Otherwise, unless the size of the packet is known, it is read from the first
\* four bytes of this receive.
Begin ==
  /\ pc = "recv" /\ Len(rest) >= HeaderLen
  /\ maxSize' = IF maxSize = 0 THEN SizeAt(rest) ELSE maxSize
  /\ pc' = "loop"
  /\ UNCHANGED <<peerVars, got, rest, buf, delivered>>

\* Mutated form of Fill: takes one byte too few for the packet.
FillOneShort ==
  /\ pc = "loop" /\ Len(rest) + Len(buf) >= maxSize
  /\ LET index == maxSize - Len(buf) - 1
     IN  IF index \in 0 .. RecvLen
         THEN /\ buf' = buf \o SubSeq(rest, 1, index)
              /\ rest' = SubSeq(rest, index + 1, Len(rest))
              /\ pc' = IF buf' = <<>> THEN "rest" ELSE "echo"
         ELSE pc' = "blocked" /\ UNCHANGED <<rest, buf>>
  /\ UNCHANGED <<peerVars, got, maxSize, delivered>>

\* The loop, while the bytes at hand reach maxSize: SetBuffer takes what the
\* packet lacks.  It refuses a length of em_Buffer_Len or more, which a negative
\* one is as a UINT, with a MessageBox that holds the callback.
Fill ==
  /\ pc = "loop" /\ Len(rest) + Len(buf) >= maxSize
  /\ LET index == maxSize - Len(buf)
     IN  IF index \in 0 .. RecvLen
         THEN /\ buf' = buf \o SubSeq(rest, 1, index)
              /\ rest' = SubSeq(rest, index + 1, Len(rest))
              /\ pc' = IF buf' = <<>> THEN "rest" ELSE "echo"
         ELSE pc' = "blocked" /\ UNCHANGED <<rest, buf>>
  /\ UNCHANGED <<peerVars, got, maxSize, delivered>>

\* Mutated forms of Echo: the buffer is not cleared; the size is not; the test
\* for another size in this receive is > for >=; the loop ends after one packet.
EchoKeepsBuffer ==
  /\ pc = "echo"
  /\ delivered' = Append(delivered, buf)
  /\ \/ pc' = "closed" /\ UNCHANGED <<rest, buf, maxSize>>
     \/ /\ buf' = buf
        /\ IF Len(rest) >= HeaderLen
           THEN maxSize' = SizeAt(rest) /\ rest' = rest /\ pc' = "loop"
           ELSE maxSize' = 0 /\ rest' = <<>> /\ pc' = "wait"
  /\ UNCHANGED <<peerVars, got>>

EchoKeepsSize ==
  /\ pc = "echo"
  /\ delivered' = Append(delivered, buf)
  /\ \/ pc' = "closed" /\ UNCHANGED <<rest, buf, maxSize>>
     \/ /\ buf' = <<>>
        /\ IF Len(rest) >= HeaderLen
           THEN maxSize' = SizeAt(rest) /\ rest' = rest /\ pc' = "loop"
           ELSE maxSize' = maxSize /\ rest' = <<>> /\ pc' = "wait"
  /\ UNCHANGED <<peerVars, got>>

EchoTestsStrictly ==
  /\ pc = "echo"
  /\ delivered' = Append(delivered, buf)
  /\ \/ pc' = "closed" /\ UNCHANGED <<rest, buf, maxSize>>
     \/ /\ buf' = <<>>
        /\ IF Len(rest) > HeaderLen
           THEN maxSize' = SizeAt(rest) /\ rest' = rest /\ pc' = "loop"
           ELSE maxSize' = 0 /\ rest' = <<>> /\ pc' = "wait"
  /\ UNCHANGED <<peerVars, got>>

EchoOnce ==
  /\ pc = "echo"
  /\ delivered' = Append(delivered, buf)
  /\ \/ pc' = "closed" /\ UNCHANGED <<rest, buf, maxSize>>
     \/ /\ buf' = <<>>
        /\ IF Len(rest) >= HeaderLen
           THEN maxSize' = SizeAt(rest) /\ rest' = rest /\ pc' = "rest"
           ELSE maxSize' = 0 /\ rest' = <<>> /\ pc' = "wait"
  /\ UNCHANGED <<peerVars, got>>

\* EchoRecive gets the packet.  If it returns FALSE the connection is closed.
\* Else the buffer is cleared and the next size read from what is left of this
\* receive; when fewer than four bytes are left they are dropped.
Echo ==
  /\ pc = "echo"
  /\ delivered' = Append(delivered, buf)
  /\ \/ pc' = "closed" /\ UNCHANGED <<rest, buf, maxSize>>
     \/ /\ buf' = <<>>
        /\ IF Len(rest) >= HeaderLen
           THEN maxSize' = SizeAt(rest) /\ rest' = rest /\ pc' = "loop"
           ELSE maxSize' = 0 /\ rest' = <<>> /\ pc' = "wait"
  /\ UNCHANGED <<peerVars, got>>

\* After the loop what is left is put away and the next receive is posted.
Rest ==
  /\ pc = "rest" \/ (pc = "loop" /\ Len(rest) + Len(buf) < maxSize)
  /\ buf' = buf \o rest
  /\ rest' = <<>>
  /\ pc' = "wait"
  /\ UNCHANGED <<peerVars, got, maxSize, delivered>>

OnRecv == Short \/ Begin \/ Fill \/ Echo \/ Rest

Next == Send \/ (\E n \in 1 .. RecvLen : Arrive(n)) \/ OnRecv

Spec == Init /\ [][Next]_vars

\* TCP delivers what was sent, and a callback goes on.
FairSpec == Spec /\ WF_vars(\E n \in 1 .. RecvLen : Arrive(n)) /\ WF_vars(OnRecv)

-----------------------------------------------------------------------------
(* Properties.  Those that speak of the packets sent hold as long as no      *)
(* piece ends inside a size field.                                           *)

Sent == [k \in 1 .. Len(ends) |-> SubSeq(stream, End(k - 1) + 1, End(k))]

\* No byte is lost, repeated or moved on its way to the application: what was
\* delivered, what is put away and what this receive still holds are the bytes
\* received.
Intact ==
  pc # "closed" =>
    buf \o rest = SubSeq(stream, End(Len(delivered)) + 1, got)

\* _uBufferMaxSize, once set, is the size in the head of the packet that is
\* being put together.
SizeFromHead ==
  pc # "closed" /\ maxSize # 0 =>
    /\ Len(delivered) < Len(ends)
    /\ maxSize = Len(Sent[Len(delivered) + 1])

\* SetBuffer never refuses: no callback stops in its MessageBox.
NeverBlocked == pc # "blocked"

\* Between receives at most one packet that was received whole has not been
\* delivered (one whose last piece was shorter than four bytes).
LagsByOne ==
  pc = "wait" => Cardinality({k \in 1 .. Len(ends) : ends[k] <= got}) <= Len(delivered) + 1

\* What OnRecv puts together is right in all these ways.
Reassembled == TypeOK /\ Intact /\ SizeFromHead /\ NeverBlocked /\ LagsByOne

\* A packet is delivered at the latest when the one after it has come: it never is
\* from some time on that two wait.
EarlierDelivered == []<>(Len(ends) <= Len(delivered) + 1 \/ pc = "closed")

\* OnRecv implements the stream of packets.
Stream == INSTANCE PacketStream
  WITH Packets <- {Packet(d) : d \in Payloads}, sent <- Sent, open <- pc # "closed"

IsStream == Stream!Spec
=============================================================================

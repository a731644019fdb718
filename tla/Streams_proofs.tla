--------------------------- MODULE Streams_proofs ---------------------------
(***************************************************************************)
(* Proofs about the two ends of a connection that make packets of a stream *)
(* of bytes.  Framing, for every set of payloads and every length of the   *)
(* receive buffer, when no piece ends inside a size field: what OnRecv     *)
(* puts together is right, and it implements the stream of packets.        *)
(* ClientService, for any number of workers, requests, packets and faults  *)
(* and all lengths: what the flags say of the connection, and, as long as  *)
(* TCP cuts the stream so that the code can follow, that EchoPacket gets   *)
(* the stream.                                                             *)
(***************************************************************************)
EXTENDS Framing, ClientService, Loops_proofs, FunctionTheorems, SequenceTheorems, FiniteSetTheorems, WellFoundedInduction, TLAPS

-----------------------------------------------------------------------------
(* Framing.                                                                *)

-----------------------------------------------------------------------------
(* The operators.                                                            *)

\* The greatest int.
MaxInt == 2147483647

\* What GetDataPtr writes as a size SetValue_By_Buffer reads back.
LEMMA HeaderSays ==
  ASSUME NEW n \in Nat, n <= MaxInt
  PROVE  Header(n) \in Seq(Byte) /\ Len(Header(n)) = HeaderLen /\ SizeAt(Header(n)) = n
<1>1. /\ n % 256 \in Byte /\ (n \div 256) % 256 \in Byte
      /\ (n \div 65536) % 256 \in Byte /\ (n \div 16777216) % 256 \in Byte
  BY DEF Byte
<1>2. (n % 256) + 256 * (((n \div 256) % 256)
        + 256 * (((n \div 65536) % 256) + 256 * ((n \div 16777216) % 256))) = n
  BY SMT DEF MaxInt
<1> QED BY <1>1, <1>2 DEF Header, HeaderLen, SizeAt

\* A size is read from the first four bytes alone.
LEMMA SizeOfHead ==
  ASSUME NEW s \in Seq(Byte), NEW t \in Seq(Byte), Len(s) >= HeaderLen, Len(t) >= HeaderLen,
         \A i \in 1 .. HeaderLen : s[i] = t[i]
  PROVE  SizeAt(s) = SizeAt(t)
  BY DEF SizeAt, HeaderLen

LEMMA PacketSays ==
  ASSUME NEW data \in Payloads
  PROVE  /\ Packet(data) \in Seq(Byte)
         /\ Len(Packet(data)) = HeaderLen + Len(data)
         /\ SizeAt(Packet(data)) = HeaderLen + Len(data)
<1> DEFINE n == HeaderLen + Len(data)
<1>1. data \in Seq(Byte) /\ n \in Nat /\ n <= MaxInt
  BY PayloadsAssumption, SMT DEF HeaderLen, MaxInt
<1>2. Header(n) \in Seq(Byte) /\ Len(Header(n)) = HeaderLen /\ SizeAt(Header(n)) = n
  BY <1>1, HeaderSays
<1>3. /\ Packet(data) \in Seq(Byte)
      /\ Len(Packet(data)) = n
      /\ \A i \in 1 .. HeaderLen : Packet(data)[i] = Header(n)[i]
  <2> HIDE DEF n
  <2>1. Packet(data) = Header(n) \o data
    BY DEF Packet, n
  <2> QED BY <1>1, <1>2, <2>1 DEF n, HeaderLen
<1> QED BY <1>1, <1>2, <1>3, SizeOfHead DEF HeaderLen

-----------------------------------------------------------------------------
(* The invariant.                                                            *)

Done == Len(delivered)

\* The size in the stream at position p.
SizeIn(p) == SizeAt(SubSeq(stream, p + 1, p + HeaderLen))

\* The stream is its packets one after the other, each with its size in front.
StreamInv ==
  /\ stream \in Seq(Byte) /\ ends \in Seq(Nat)
  /\ Len(stream) = End(Len(ends))
  /\ \A j, k \in 0 .. Len(ends) : j < k => End(j) + HeaderLen <= End(k)
  /\ \A k \in 1 .. Len(ends) : SizeIn(End(k - 1)) = End(k) - End(k - 1)

DeliveredInv ==
  /\ delivered \in Seq(Seq(Byte)) /\ Done <= Len(ends)
  /\ \A k \in 1 .. Done : IsPacket(delivered[k])

\* The receives end outside the size fields, and what OnRecv has in hand is the
\* stream from the first packet not delivered on.
HandInv ==
  /\ got \in 0 .. Len(stream) /\ ~InHeader(got)
  /\ pc \in Labels \ {"rest", "blocked"}
  /\ rest \in Seq(Byte) /\ Len(rest) <= RecvLen /\ buf \in Seq(Byte) /\ maxSize \in Nat
  /\ pc # "closed" => /\ End(Done) + Len(buf) + Len(rest) = got
                      /\ buf \o rest = SubSeq(stream, End(Done) + 1, got)

\* A size that is set is the next packet's, and not more than that is put away;
\* while none is set nothing is.
SizeInv ==
  pc # "closed" =>
    /\ maxSize # 0 => /\ Done < Len(ends)
                      /\ maxSize = End(Done + 1) - End(Done)
                      /\ Len(buf) <= maxSize
    /\ maxSize = 0 => buf = <<>>
    /\ pc = "wait" => rest = <<>>
    /\ pc = "recv" => rest # <<>>
    /\ pc \in {"loop", "echo"} => maxSize # 0
    /\ pc = "echo" => Len(buf) = maxSize

Inv == StreamInv /\ DeliveredInv /\ HandInv /\ SizeInv

LEMMA InitInv == Init => Inv
<1> SUFFICES ASSUME Init PROVE Inv
  OBVIOUS
<1>1. StreamInv
  BY DEF Init, StreamInv, End
<1>2. DeliveredInv
  BY DEF Init, DeliveredInv, Done
<1>3. ~InHeader(got)
  BY DEF Init, InHeader, End
<1>4. buf \o rest = SubSeq(stream, End(Done) + 1, got)
  BY DEF Init, End, Done
<1>5. HandInv
  BY <1>3, <1>4, RecvLenAssumption DEF Init, HandInv, Labels, End, Done
<1>6. SizeInv
  BY DEF Init, SizeInv
<1> QED BY <1>1, <1>2, <1>5, <1>6 DEF Inv

-----------------------------------------------------------------------------
(* The stream and its pieces.                                                *)

\* Where packets end.
LEMMA EndsTyped ==
  ASSUME StreamInv
  PROVE  /\ Len(ends) \in Nat /\ Len(stream) \in Nat
         /\ \A k \in 0 .. Len(ends) : End(k) \in 0 .. Len(stream)
<1>1. Len(ends) \in Nat /\ Len(stream) \in Nat /\ \A k \in 0 .. Len(ends) : End(k) \in Nat
  BY DEF StreamInv, End
<1>2. \A k \in 0 .. Len(ends) : End(k) <= End(Len(ends))
  <2> TAKE k \in 0 .. Len(ends)
  <2>1. CASE k = Len(ends)
    BY <1>1, <2>1
  <2>2. CASE k < Len(ends)
    BY <1>1, <2>2 DEF StreamInv, HeaderLen
  <2> QED BY <1>1, <2>1, <2>2
<1> QED BY <1>1, <1>2 DEF StreamInv

\* The bytes of a concatenation.
LEMMA ConcatParts ==
  ASSUME NEW T, NEW b \in Seq(T), NEW r \in Seq(T)
  PROVE  /\ b \o r \in Seq(T) /\ Len(b \o r) = Len(b) + Len(r)
         /\ \A i \in 1 .. Len(b) : (b \o r)[i] = b[i]
         /\ \A i \in 1 .. Len(r) : (b \o r)[Len(b) + i] = r[i]
  OBVIOUS

\* When b and r make up the stream s from p to q, b is its first part and r the rest.
CutInTwo(s, b, r, p, q) ==
  b \o r = SubSeq(s, p + 1, q) =>
    /\ Len(b) + Len(r) = q - p
    /\ b = SubSeq(s, p + 1, p + Len(b))
    /\ r = SubSeq(s, p + Len(b) + 1, q)

LEMMA CutsInTwo ==
  ASSUME NEW s \in Seq(Byte), NEW b \in Seq(Byte), NEW r \in Seq(Byte),
         NEW p \in Nat, NEW q \in p .. Len(s)
  PROVE  CutInTwo(s, b, r, p, q)
<1> DEFINE c == b \o r
<1>1. /\ Len(b) \in Nat /\ Len(r) \in Nat /\ Len(c) = Len(b) + Len(r)
      /\ \A i \in 1 .. Len(b) : c[i] = b[i]
      /\ \A i \in 1 .. Len(r) : c[Len(b) + i] = r[i]
  BY ConcatParts
<1> HIDE DEF c
<1>2. SUFFICES ASSUME c = SubSeq(s, p + 1, q)
               PROVE  /\ Len(b) + Len(r) = q - p
                      /\ b = SubSeq(s, p + 1, p + Len(b))
                      /\ r = SubSeq(s, p + Len(b) + 1, q)
  BY DEF c, CutInTwo
<1>3. Len(c) = q - p /\ \A i \in 1 .. q - p : c[i] = s[p + i]
  BY <1>2
<1>4. Len(b) + Len(r) = q - p
  BY <1>1, <1>3
<1>5. b = SubSeq(s, p + 1, p + Len(b))
  <2>1. /\ SubSeq(s, p + 1, p + Len(b)) \in Seq(Byte)
        /\ Len(SubSeq(s, p + 1, p + Len(b))) = Len(b)
        /\ \A i \in 1 .. Len(b) : SubSeq(s, p + 1, p + Len(b))[i] = s[p + i]
    BY <1>1, <1>4
  <2>2. \A i \in 1 .. Len(b) : b[i] = s[p + i]
    BY <1>1, <1>3, <1>4
  <2> QED BY <2>1, <2>2, SeqEqual
<1>6. r = SubSeq(s, p + Len(b) + 1, q)
  <2> DEFINE t == SubSeq(s, p + Len(b) + 1, q)
  <2>1. t \in Seq(Byte) /\ Len(t) = Len(r) /\ \A i \in 1 .. Len(r) : t[i] = s[p + Len(b) + i]
    BY <1>1, <1>4
  <2>2. \A i \in 1 .. Len(r) : r[i] = s[p + Len(b) + i]
    BY <1>1, <1>3, <1>4
  <2> HIDE DEF t
  <2>3. r = t
    BY <2>1, <2>2, SeqEqual
  <2> QED BY <2>3 DEF t
<1> QED BY <1>4, <1>5, <1>6

\* Where four bytes or more of the stream follow the end of a packet there is
\* another packet, and they begin with its size.
LEMMA NextSize ==
  ASSUME StreamInv, NEW k \in 0 .. Len(ends), NEW q \in 0 .. Len(stream), q >= End(k) + HeaderLen
  PROVE  /\ k < Len(ends)
         /\ SizeAt(SubSeq(stream, End(k) + 1, q)) = End(k + 1) - End(k)
         /\ End(k + 1) - End(k) >= HeaderLen
<1>1. Len(ends) \in Nat /\ Len(stream) \in Nat /\ End(k) \in 0 .. Len(stream)
  BY EndsTyped
<1>2. k < Len(ends)
  BY <1>1 DEF StreamInv, HeaderLen
<1>3. End(k + 1) \in 0 .. Len(stream) /\ End(k + 1) - End(k) >= HeaderLen
  BY <1>1, <1>2, EndsTyped, SMTT(40) DEF StreamInv, HeaderLen
<1>4. SizeIn(End(k)) = End(k + 1) - End(k)
  <2>1. k + 1 \in 1 .. Len(ends) /\ (k + 1) - 1 = k
    BY <1>1, <1>2
  <2> QED BY <2>1 DEF StreamInv
<1>5. SizeAt(SubSeq(stream, End(k) + 1, q)) = SizeIn(End(k))
  <2> DEFINE e == End(k)
             s == SubSeq(stream, e + 1, q)
             t == SubSeq(stream, e + 1, e + HeaderLen)
  <2>1. e \in Nat /\ q \in Nat /\ q <= Len(stream) /\ q >= e + 4 /\ stream \in Seq(Byte)
    BY <1>1 DEF StreamInv, HeaderLen
  <2> HIDE DEF e
  <2>2. s \in Seq(Byte) /\ Len(s) >= HeaderLen /\ \A i \in 1 .. HeaderLen : s[i] = stream[e + i]
    BY <2>1 DEF HeaderLen
  <2>3. t \in Seq(Byte) /\ Len(t) >= HeaderLen /\ \A i \in 1 .. HeaderLen : t[i] = stream[e + i]
    BY <2>1 DEF HeaderLen
  <2>4. SizeAt(s) = SizeAt(t)
    BY <2>2, <2>3, SizeOfHead
  <2> QED BY <2>4 DEF e, SizeIn
<1> QED BY <1>2, <1>3, <1>4, <1>5

\* Outside the size fields: what is behind the end of a packet is four bytes
\* behind it or more.
LEMMA BeyondHeader ==
  ASSUME StreamInv, NEW p \in Nat, ~InHeader(p), NEW k \in 0 .. Len(ends), p > End(k)
  PROVE  p >= End(k) + HeaderLen
<1>1. End(k) \in Nat
  BY EndsTyped
<1> QED BY <1>1 DEF InHeader, HeaderLen

-----------------------------------------------------------------------------
(* The peer and the network.                                                 *)

\* The peer sends data.
Sending(data) ==
  /\ stream' = stream \o Packet(data)
  /\ ends' = Append(ends, Len(stream) + Len(Packet(data)))

\* What the peer sends comes after what is there, which does not change.
LEMMA SendAppends ==
  ASSUME StreamInv, NEW data \in Payloads, Sending(data)
  PROVE  /\ Len(ends') = Len(ends) + 1
         /\ stream' \in Seq(Byte) /\ ends' \in Seq(Nat)
         /\ Len(stream') = Len(stream) + Len(Packet(data))
         /\ \A k \in 0 .. Len(ends) : End(k)' = End(k)
         /\ \A k \in {Len(ends) + 1} : End(k)' = Len(stream')
         /\ \A p, q \in 0 .. Len(stream) : SubSeq(stream', p + 1, q) = SubSeq(stream, p + 1, q)
         /\ SubSeq(stream', Len(stream) + 1, Len(stream')) = Packet(data)
<1> DEFINE P == Packet(data)
<1>1. P \in Seq(Byte) /\ Len(P) \in Nat /\ Len(P) >= HeaderLen
  BY PacketSays, PayloadsAssumption, SMT DEF HeaderLen
<1> HIDE DEF P
<1>2. stream \in Seq(Byte) /\ ends \in Seq(Nat) /\ Len(ends) \in Nat /\ Len(stream) \in Nat
  BY DEF StreamInv
<1>3. stream' = stream \o P /\ ends' = Append(ends, Len(stream) + Len(P))
  BY DEF P, Sending
<1>4. stream' \in Seq(Byte) /\ Len(stream') = Len(stream) + Len(P)
  BY <1>1, <1>2, <1>3
<1>5. /\ ends' \in Seq(Nat) /\ Len(ends') = Len(ends) + 1
      /\ \A k \in 1 .. Len(ends) : ends'[k] = ends[k]
      /\ ends'[Len(ends) + 1] = Len(stream) + Len(P)
  BY <1>1, <1>2, <1>3
<1>6. \A k \in 0 .. Len(ends) : End(k)' = End(k)
  BY <1>2, <1>5 DEF End
<1>7. \A k \in {Len(ends) + 1} : End(k)' = Len(stream')
  BY <1>2, <1>4, <1>5 DEF End
<1>8. ASSUME NEW p \in 0 .. Len(stream), NEW q \in 0 .. Len(stream)
      PROVE  SubSeq(stream', p + 1, q) = SubSeq(stream, p + 1, q)
  <2>1. CASE p + 1 <= q
    BY <1>1, <1>2, <1>3, <2>1, SubSeqOfConcat1
  <2>2. CASE p + 1 > q
    BY <1>2, <2>2, SubSeqEmpty
  <2> QED BY <1>2, <2>1, <2>2
<1>9. SubSeq(stream', Len(stream) + 1, Len(stream')) = P
  <2>1. SubSeq(stream \o P, Len(stream) + 1, Len(stream) + Len(P)) = SubSeq(P, 1, Len(P))
    <3>1. Len(P) >= 1
      BY <1>1 DEF HeaderLen
    <3>2. /\ Len(stream) + 1 \in Len(stream) + 1 .. Len(stream) + Len(P)
          /\ Len(stream) + Len(P) \in Len(stream) + 1 .. Len(stream) + Len(P)
          /\ (Len(stream) + 1) - Len(stream) = 1 /\ (Len(stream) + Len(P)) - Len(stream) = Len(P)
      BY <1>1, <1>2, <3>1
    <3> QED BY <1>1, <1>2, <3>2, SubSeqOfConcat2
  <2>2. SubSeq(P, 1, Len(P)) = P
    BY <1>1, SubSeqFull
  <2> QED BY <1>3, <1>4, <2>1, <2>2
<1> QED BY <1>4, <1>5, <1>6, <1>7, <1>8, <1>9 DEF P

LEMMA SendStream ==
  ASSUME StreamInv, NEW data \in Payloads, Sending(data)
  PROVE  StreamInv'
<1>0. PICK n \in Nat, m \in Nat : n = Len(ends) /\ m = Len(Packet(data))
  BY PacketSays, PayloadsAssumption, SMT DEF StreamInv
<1>1. /\ Len(ends') = n + 1 /\ stream' \in Seq(Byte) /\ ends' \in Seq(Nat)
      /\ Len(stream') = Len(stream) + m
      /\ \A k \in 0 .. n : End(k)' = End(k)
      /\ End(n + 1)' = Len(stream')
  BY <1>0, SendAppends
<1>2. m \in Nat /\ m >= HeaderLen
  BY <1>0, PacketSays, PayloadsAssumption, SMT DEF HeaderLen
<1>3. /\ n \in Nat /\ Len(stream) \in Nat /\ Len(stream) = End(n)
      /\ \A k \in 0 .. n : End(k) \in 0 .. Len(stream)
  BY <1>0, EndsTyped DEF StreamInv
<1>4. ASSUME NEW j \in 0 .. n + 1, NEW k \in 0 .. n + 1, j < k
      PROVE  End(j)' + HeaderLen <= End(k)'
  <2>1. CASE k <= n
    <3>1. j \in 0 .. n /\ k \in 0 .. n
      BY <1>3, <1>4, <2>1
    <3>2. End(j) + HeaderLen <= End(k)
      BY <1>0, <1>4, <3>1 DEF StreamInv
    <3> QED BY <1>1, <3>1, <3>2
  <2>2. CASE k = n + 1
    <3>1. j \in 0 .. n
      BY <1>3, <1>4, <2>2
    <3>2. End(j)' <= Len(stream) /\ End(j)' \in Nat
      BY <1>1, <1>3, <3>1
    <3>3. End(k)' = Len(stream) + m
      BY <1>1, <2>2
    <3> QED BY <1>2, <1>3, <3>2, <3>3 DEF HeaderLen
  <2> QED BY <1>3, <2>1, <2>2
<1>5. ASSUME NEW k \in 1 .. n + 1
      PROVE  SizeIn(End(k - 1))' = End(k)' - End(k - 1)'
  <2>0. PICK e \in 0 .. Len(stream) : e = End(k - 1)
    BY <1>3
  <2>1. k - 1 \in 0 .. n /\ e \in 0 .. Len(stream) /\ End(k - 1)' = e
    BY <1>1, <1>3, <2>0
  <2>2. CASE k <= n
    <3>1. k \in 1 .. n
      BY <1>3, <2>2
    <3>2. End(k)' = End(k) /\ End(k) \in 0 .. Len(stream) /\ e + HeaderLen <= End(k)
      <4>1. k \in 0 .. n /\ k - 1 < k
        BY <1>3, <3>1
      <4>2. End(k - 1) + HeaderLen <= End(k)
        BY <1>0, <2>1, <4>1 DEF StreamInv
      <4> QED BY <1>1, <1>3, <2>0, <4>1, <4>2
    <3>3. e + HeaderLen \in 0 .. Len(stream)
      BY <1>3, <2>1, <3>2 DEF HeaderLen
    <3>4. SubSeq(stream', e + 1, e + HeaderLen) = SubSeq(stream, e + 1, e + HeaderLen)
      BY <2>1, <3>3, SendAppends
    <3>5. SizeIn(e) = End(k) - e
      BY <1>0, <2>0, <3>1 DEF StreamInv
    <3> QED BY <2>1, <3>2, <3>4, <3>5 DEF SizeIn
  <2>3. CASE k = n + 1
    <3>1. e = Len(stream) /\ End(k)' = Len(stream) + m
      BY <1>1, <1>3, <2>0, <2>3
    <3> DEFINE s == SubSeq(stream', e + 1, e + HeaderLen)
    <3>2. /\ s \in Seq(Byte) /\ Len(s) >= HeaderLen
          /\ \A i \in 1 .. HeaderLen : s[i] = stream'[e + i]
      <4>1. e \in Nat /\ Len(stream') \in Nat /\ e + HeaderLen <= Len(stream')
        BY <1>1, <1>2, <1>3, <3>1 DEF HeaderLen
      <4> QED BY <1>1, <4>1 DEF HeaderLen
    <3>3. \A i \in 1 .. HeaderLen : stream'[e + i] = Packet(data)[i]
      <4>1. \A i \in 1 .. m : (stream \o Packet(data))[Len(stream) + i] = Packet(data)[i]
        BY <1>0, PacketSays, ConcatParts DEF StreamInv
      <4>2. \A i \in 1 .. HeaderLen : i \in 1 .. m
        BY <1>2 DEF HeaderLen
      <4> QED BY <3>1, <4>1, <4>2 DEF Sending
    <3> HIDE DEF s
    <3>4. SizeAt(s) = m
      BY <1>2, <3>2, <3>3, <1>0, PacketSays, SizeOfHead
    <3>5. End(k)' - e = m
      BY <1>2, <1>3, <3>1
    <3> QED BY <2>1, <3>4, <3>5 DEF s, SizeIn
  <2> QED BY <1>3, <2>2, <2>3
<1> QED BY <1>1, <1>4, <1>5 DEF StreamInv

LEMMA SendInv ==
  ASSUME Inv, Send
  PROVE  Inv'
<1>1. StreamInv /\ DeliveredInv /\ HandInv /\ SizeInv
  BY DEF Inv
<1>2. PICK data \in Payloads : Sending(data)
  BY DEF Send, Sending
<1>3. got' = got /\ pc' = pc /\ rest' = rest /\ buf' = buf /\ maxSize' = maxSize /\ delivered' = delivered
  BY DEF Send
<1>4. PICK n \in Nat, d \in Nat, l \in Nat : n = Len(ends) /\ d = Done /\ l = Len(stream)
  BY <1>1 DEF StreamInv, DeliveredInv, Done
<1>5. d <= n /\ Done' = d
  BY <1>1, <1>3, <1>4 DEF DeliveredInv, Done
<1>6. /\ Len(ends') = n + 1 /\ Len(stream') \in Nat /\ Len(stream') > l
      /\ \A k \in 0 .. n : End(k)' = End(k)
      /\ End(n + 1)' = Len(stream')
      /\ \A p, q \in 0 .. l : SubSeq(stream', p + 1, q) = SubSeq(stream, p + 1, q)
  <2>1. PICK m \in Nat : m = Len(Packet(data)) /\ m > 0
    BY PacketSays, PayloadsAssumption, SMT DEF HeaderLen
  <2>2. /\ Len(ends') = n + 1 /\ Len(stream') = l + m
        /\ \A k \in 0 .. n : End(k)' = End(k)
        /\ End(n + 1)' = Len(stream')
        /\ \A p, q \in 0 .. l : SubSeq(stream', p + 1, q) = SubSeq(stream, p + 1, q)
    BY <1>1, <1>2, <1>4, <2>1, SendAppends
  <2>3. Len(stream') \in Nat /\ Len(stream') > l
    BY <1>4, <2>1, <2>2
  <2> QED BY <2>2, <2>3
<1>7. \A k \in 0 .. n : End(k) \in 0 .. l
  BY <1>1, <1>4, EndsTyped
<1>8. StreamInv'
  BY <1>1, <1>2, SendStream
<1>9. DeliveredInv'
  BY <1>1, <1>3, <1>4, <1>5, <1>6 DEF DeliveredInv, Done
<1>10. got \in 0 .. l /\ ~InHeader(got)
  BY <1>1, <1>4 DEF HandInv
<1>11. ~InHeader(got)'
  <2> SUFFICES ASSUME NEW k \in 0 .. n + 1, End(k)' < got, got < End(k)' + HeaderLen
               PROVE  FALSE
    BY <1>3, <1>6 DEF InHeader
  <2>1. k \in 0 .. n
    BY <1>4, <1>6, <1>10
  <2>2. End(k)' = End(k)
    BY <1>6, <2>1
  <2> QED BY <1>4, <1>10, <2>1, <2>2 DEF InHeader
<1>12. End(Done)' = End(Done) /\ End(Done) \in 0 .. l
  BY <1>4, <1>5, <1>6, <1>7
<1>13. SubSeq(stream', End(Done)' + 1, got') = SubSeq(stream, End(Done) + 1, got)
  BY <1>3, <1>6, <1>10, <1>12
<1>14. HandInv'
  <2>1. got' \in 0 .. Len(stream')
    BY <1>3, <1>4, <1>6, <1>10
  <2>2. pc' # "closed" => /\ End(Done)' + Len(buf') + Len(rest') = got'
                          /\ buf' \o rest' = SubSeq(stream', End(Done)' + 1, got')
    BY <1>1, <1>3, <1>12, <1>13 DEF HandInv
  <2> QED BY <1>1, <1>3, <1>11, <2>1, <2>2 DEF HandInv
<1>15. d < n => End(d + 1)' = End(d + 1)
  BY <1>6
<1>16. SizeInv'
  BY <1>1, <1>3, <1>4, <1>5, <1>6, <1>12, <1>15 DEF SizeInv
<1> QED BY <1>8, <1>9, <1>14, <1>16 DEF Inv

\* A step of the network or of OnRecv leaves what was sent alone.
LEMMA StreamKept ==
  ASSUME StreamInv, UNCHANGED peerVars
  PROVE  /\ StreamInv' /\ stream' = stream /\ ends' = ends
         /\ \A k : End(k)' = End(k)
         /\ \A p : InHeader(p)' <=> InHeader(p)
<1>1. stream' = stream /\ ends' = ends
  BY DEF peerVars
<1> QED BY <1>1 DEF StreamInv, SizeIn, InHeader, End

\* While a connection is served what is in hand begins where the last delivered
\* packet ends.
LEMMA InHand ==
  ASSUME Inv
  PROVE  /\ Done \in 0 .. Len(ends) /\ Len(ends) \in Nat
         /\ End(Done) \in 0 .. Len(stream) /\ Len(stream) \in Nat /\ got \in 0 .. Len(stream)
         /\ buf \in Seq(Byte) /\ Len(buf) \in Nat /\ rest \in Seq(Byte) /\ Len(rest) \in Nat
         /\ stream \in Seq(Byte) /\ maxSize \in Nat /\ RecvLen \in Nat
         /\ Done < Len(ends) => End(Done + 1) \in 0 .. Len(stream)
<1>1. Done \in 0 .. Len(ends) /\ Len(ends) \in Nat
  BY DEF Inv, StreamInv, DeliveredInv, Done
<1>2. End(Done) \in 0 .. Len(stream) /\ (Done < Len(ends) => End(Done + 1) \in 0 .. Len(stream))
  BY <1>1, EndsTyped DEF Inv
<1> QED BY <1>1, <1>2, RecvLenAssumption DEF Inv, StreamInv, HandInv

LEMMA ArriveInv ==
  ASSUME Inv, ~SplitHeaders, NEW n \in 1 .. RecvLen, Arrive(n)
  PROVE  Inv'
<1>1. StreamInv /\ DeliveredInv /\ HandInv /\ SizeInv
  BY DEF Inv
<1>2. /\ pc = "wait" /\ pc' = "recv" /\ got + n <= Len(stream) /\ ~InHeader(got + n)
      /\ got' = got + n /\ rest' = SubSeq(stream, got + 1, got + n)
      /\ buf' = buf /\ maxSize' = maxSize /\ delivered' = delivered
      /\ UNCHANGED peerVars
  BY DEF Arrive
<1>3. /\ StreamInv' /\ stream' = stream /\ ends' = ends
      /\ \A k : End(k)' = End(k) /\ \A p : InHeader(p)' <=> InHeader(p)
  BY <1>1, <1>2, StreamKept
<1>4. Done' = Done /\ End(Done)' = End(Done) /\ End(Done + 1)' = End(Done + 1)
  BY <1>2, <1>3 DEF Done
<1>5. rest = <<>> /\ End(Done) + Len(buf) = got
  <2>1. rest = <<>> /\ End(Done) + Len(buf) + Len(rest) = got
    BY <1>1, <1>2 DEF HandInv, SizeInv
  <2> QED BY <2>1, InHand
<1>6. /\ n \in Nat /\ n >= 1 /\ n <= RecvLen /\ Len(rest') = n
      /\ got \in Nat /\ Len(stream) \in Nat /\ got + n <= Len(stream)
      /\ End(Done) \in Nat /\ Len(buf) \in Nat /\ rest' \in Seq(Byte)
  <2>1. n \in Nat /\ n >= 1 /\ n <= RecvLen
    BY RecvLenAssumption
  <2>2. got \in Nat /\ Len(stream) \in Nat /\ End(Done) \in Nat /\ Len(buf) \in Nat
    BY InHand
  <2>3. got + n <= Len(stream)
    BY <1>2
  <2>4. rest' \in Seq(Byte) /\ Len(rest') = n
    BY <1>2, <2>1, <2>2, <2>3, InHand
  <2> QED BY <2>1, <2>2, <2>3, <2>4
<1>7. buf' \o rest' = SubSeq(stream, End(Done) + 1, got + n)
  <2>0. buf = SubSeq(stream, End(Done) + 1, got)
    <3>1. buf \o rest = SubSeq(stream, End(Done) + 1, got)
      BY <1>1, <1>2 DEF HandInv
    <3>2. buf \o rest = buf
      BY <1>5, InHand
    <3> QED BY <3>1, <3>2
  <2>1. /\ End(Done) + 1 \in 1 .. Len(stream) + 1
        /\ got \in (End(Done) + 1) - 1 .. Len(stream)
        /\ got + n \in got .. Len(stream)
    BY <1>5, <1>6
  <2>2. SubSeq(stream, End(Done) + 1, got) \o SubSeq(stream, got + 1, got + n)
          = SubSeq(stream, End(Done) + 1, got + n)
    BY <2>1, InHand, ConcatAdjacentSubSeq
  <2> QED BY <1>2, <2>0, <2>2
<1>8. DeliveredInv'
  BY <1>1, <1>2, <1>3 DEF DeliveredInv, Done
<1>9. /\ got + n \in 0 .. Len(stream) /\ n <= RecvLen
      /\ End(Done) + Len(buf) + n = got + n
  BY <1>5, <1>6
<1>10. ~InHeader(got)'
  BY <1>2, <1>3
<1>11. HandInv'
  BY <1>1, <1>2, <1>3, <1>4, <1>6, <1>7, <1>9, <1>10, InHand DEF HandInv, Labels
<1>12. SizeInv'
  <2>1. rest' # <<>>
    BY <1>6
  <2>2. pc' = "recv" /\ buf' = buf /\ maxSize' = maxSize
    BY <1>2
  <2> QED BY <1>1, <1>2, <1>3, <1>4, <2>1, <2>2 DEF SizeInv
<1> QED BY <1>3, <1>8, <1>11, <1>12 DEF Inv

-----------------------------------------------------------------------------
(* OnRecv.                                                                   *)

\* What is in hand, in numbers.
LEMMA InNumbers ==
  ASSUME Inv, pc # "closed"
  PROVE  /\ got = End(Done) + Len(buf) + Len(rest)
         /\ maxSize # 0 => /\ End(Done + 1) = End(Done) + maxSize /\ maxSize >= HeaderLen
                           /\ Len(buf) <= maxSize /\ Done < Len(ends)
         /\ maxSize = 0 => buf = <<>>
<1>1. got = End(Done) + Len(buf) + Len(rest)
  BY DEF Inv, HandInv
<1>2. CASE maxSize # 0
  <2>1. Done < Len(ends) /\ maxSize = End(Done + 1) - End(Done) /\ Len(buf) <= maxSize
    BY <1>2 DEF Inv, SizeInv
  <2>2. /\ Done \in 0 .. Len(ends) /\ Len(ends) \in Nat /\ End(Done) \in Nat /\ End(Done + 1) \in Nat
    BY <2>1, InHand
  <2>3. Done + 1 \in 0 .. Len(ends) /\ Done < Done + 1
    BY <2>1, <2>2
  <2>4. End(Done) + HeaderLen <= End(Done + 1)
    BY <2>2, <2>3 DEF Inv, StreamInv
  <2> QED BY <1>1, <1>2, <2>1, <2>2, <2>4, SMTT(40) DEF HeaderLen
<1>3. CASE maxSize = 0
  BY <1>1, <1>3 DEF Inv, SizeInv
<1> QED BY <1>2, <1>3

\* A step within a packet: the bytes in hand stay the same bytes.
LEMMA SameBytes ==
  ASSUME Inv, pc # "closed", UNCHANGED <<peerVars, got, delivered>>,
         pc' \in Labels \ {"rest", "blocked"},
         rest' \in Seq(Byte), Len(rest') <= RecvLen, buf' \in Seq(Byte), maxSize' \in Nat,
         Len(buf') + Len(rest') = Len(buf) + Len(rest), buf' \o rest' = buf \o rest
  PROVE  StreamInv' /\ DeliveredInv' /\ HandInv'
<1>1. StreamInv /\ DeliveredInv /\ HandInv
  BY DEF Inv
<1>2. /\ StreamInv' /\ stream' = stream /\ ends' = ends
      /\ \A k : End(k)' = End(k) /\ \A p : InHeader(p)' <=> InHeader(p)
  BY <1>1, StreamKept
<1>3. DeliveredInv'
  BY <1>1, <1>2 DEF DeliveredInv, Done
<1>4. End(Done)' = End(Done) /\ Done' = Done
  BY <1>2 DEF Done
<1>5. got = End(Done) + Len(buf) + Len(rest) /\ buf \o rest = SubSeq(stream, End(Done) + 1, got)
  BY <1>1 DEF HandInv
<1>6. got' = End(Done)' + Len(buf') + Len(rest')
  <2>1. PICK e \in Nat, b \in Nat, r \in Nat : e = End(Done) /\ b = Len(buf) /\ r = Len(rest)
    BY InHand
  <2>2. PICK b2 \in Nat, r2 \in Nat : b2 = Len(buf') /\ r2 = Len(rest')
    OBVIOUS
  <2>3. b2 + r2 = b + r
    BY <2>1, <2>2
  <2>4. e + b2 + r2 = e + b + r
    BY <2>3
  <2>5. got' = e + b + r /\ End(Done)' = e
    BY <1>4, <1>5, <2>1
  <2> QED BY <2>2, <2>4, <2>5
<1>7. HandInv'
  <2>1. ~InHeader(got)'
    BY <1>1, <1>2 DEF HandInv
  <2>2. buf' \o rest' = SubSeq(stream', End(Done)' + 1, got')
    BY <1>2, <1>4, <1>5
  <2>3. got' \in 0 .. Len(stream')
    BY <1>1, <1>2 DEF HandInv
  <2> QED BY <1>6, <2>1, <2>2, <2>3 DEF HandInv
<1> QED BY <1>2, <1>3, <1>7

\* A piece shorter than four bytes does not reach past the packet it is of.
LEMMA ShortStays ==
  ASSUME Inv, pc = "recv", Len(rest) < HeaderLen
  PROVE  maxSize # 0 /\ Len(buf) + Len(rest) <= maxSize
<1>1. PICK d \in Nat, e \in Nat, b \in Nat, r \in Nat :
        d = Done /\ e = End(d) /\ b = Len(buf) /\ r = Len(rest)
  BY InHand
<1>2. /\ got = e + b + r /\ got \in Nat /\ r < 4 /\ r > 0 /\ d \in 0 .. Len(ends) /\ ~InHeader(got)
  <2>1. got = e + b + r
    BY <1>1, InNumbers
  <2>2. rest # <<>> /\ ~InHeader(got)
    BY DEF Inv, SizeInv, HandInv
  <2> QED BY <1>1, <2>1, <2>2, InHand DEF HeaderLen
<1>3. ASSUME maxSize = 0
      PROVE  FALSE
  <2>1. b = 0
    BY <1>1, <1>3, InNumbers
  <2>2. got > e /\ got < e + 4
    BY <1>2, <2>1
  <2> QED BY <1>1, <1>2, <2>2, BeyondHeader DEF Inv, HeaderLen
<1>4. maxSize \in Nat /\ maxSize # 0 /\ End(d + 1) = e + maxSize /\ b <= maxSize /\ d + 1 \in 0 .. Len(ends)
  BY <1>1, <1>3, InHand, InNumbers
<1>5. ASSUME b + r > maxSize
      PROVE  FALSE
  <2>1. got > End(d + 1) /\ got < End(d + 1) + 4
    BY <1>2, <1>4, <1>5
  <2> QED BY <1>2, <1>4, <2>1, BeyondHeader DEF Inv, HeaderLen
<1> QED BY <1>1, <1>4, <1>5

LEMMA ShortInv ==
  ASSUME Inv, Short
  PROVE  Inv'
<1>1. /\ pc = "recv" /\ pc' = "wait" /\ Len(rest) < HeaderLen /\ buf' = buf \o rest /\ rest' = <<>>
      /\ maxSize' = maxSize /\ UNCHANGED <<peerVars, got, delivered>>
  BY DEF Short
<1>2. maxSize # 0 /\ Len(buf) + Len(rest) <= maxSize
  BY <1>1, ShortStays
<1>3. /\ rest' \in Seq(Byte) /\ Len(rest') = 0 /\ buf' \in Seq(Byte)
      /\ Len(buf') = Len(buf) + Len(rest) /\ buf' \o rest' = buf \o rest
  BY <1>1, InHand
<1>4. Len(rest') <= RecvLen /\ Len(buf') + Len(rest') = Len(buf) + Len(rest)
  <2>1. RecvLen \in Nat /\ Len(buf') \in Nat
    BY <1>3, InHand
  <2> QED BY <1>3, <2>1
<1>5. StreamInv' /\ DeliveredInv' /\ HandInv'
  BY <1>1, <1>3, <1>4, InHand, SameBytes DEF Labels
<1>6. Done' = Done /\ End(Done)' = End(Done) /\ End(Done + 1)' = End(Done + 1) /\ ends' = ends
  BY <1>1 DEF Done, End, peerVars
<1>7. SizeInv'
  BY <1>1, <1>2, <1>3, <1>6 DEF Inv, SizeInv
<1> QED BY <1>5, <1>7 DEF Inv

LEMMA BeginInv ==
  ASSUME Inv, Begin
  PROVE  Inv'
<1>1. /\ pc = "recv" /\ pc' = "loop" /\ Len(rest) >= HeaderLen
      /\ maxSize' = IF maxSize = 0 THEN SizeAt(rest) ELSE maxSize
      /\ rest' = rest /\ buf' = buf /\ UNCHANGED <<peerVars, got, delivered>>
  BY DEF Begin
<1>2. /\ Done < Len(ends) /\ maxSize' = End(Done + 1) - End(Done)
      /\ maxSize' \in Nat /\ maxSize' # 0 /\ Len(buf) <= maxSize'
  <2>1. CASE maxSize = 0
    <3>1. buf = <<>> /\ Len(buf) = 0 /\ got = End(Done) + Len(rest)
      <4>1. buf = <<>> /\ got = End(Done) + Len(buf) + Len(rest)
        BY <1>1, <2>1, InNumbers
      <4> QED BY <4>1, InHand
    <3>2. rest = SubSeq(stream, End(Done) + 1, got)
      <4>1. buf \o rest = SubSeq(stream, End(Done) + 1, got)
        BY <1>1 DEF Inv, HandInv
      <4>2. buf \o rest = rest
        BY <3>1, InHand
      <4> QED BY <4>1, <4>2
    <3>3. got >= End(Done) + HeaderLen
      BY <1>1, <3>1, InHand DEF HeaderLen
    <3>4. /\ Done < Len(ends) /\ SizeAt(rest) = End(Done + 1) - End(Done)
          /\ End(Done + 1) - End(Done) >= HeaderLen
      BY <3>2, <3>3, InHand, NextSize DEF Inv
    <3>5. End(Done + 1) \in Nat /\ End(Done) \in Nat
      BY <3>4, InHand
    <3> QED BY <1>1, <2>1, <3>1, <3>4, <3>5 DEF HeaderLen
  <2>2. CASE maxSize # 0
    BY <1>1, <2>2, InHand DEF Inv, SizeInv
  <2> QED BY <2>1, <2>2
<1>3. StreamInv' /\ DeliveredInv' /\ HandInv'
  <2>1. rest \in Seq(Byte) /\ Len(rest) <= RecvLen
    BY DEF Inv, HandInv
  <2> QED BY <1>1, <1>2, <2>1, InHand, SameBytes DEF Labels
<1>4. Done' = Done /\ End(Done)' = End(Done) /\ End(Done + 1)' = End(Done + 1) /\ ends' = ends
  BY <1>1 DEF Done, End, peerVars
<1>5. SizeInv'
  BY <1>1, <1>2, <1>4 DEF SizeInv
<1> QED BY <1>3, <1>5 DEF Inv

\* SetBuffer never refuses, and takes what the packet lacks.
LEMMA FillTakes ==
  ASSUME Inv, Fill
  PROVE  /\ pc = "loop" /\ pc' = "echo" /\ maxSize' = maxSize /\ maxSize # 0
         /\ UNCHANGED <<peerVars, got, delivered>>
         /\ rest' \in Seq(Byte) /\ buf' \in Seq(Byte) /\ Len(rest') <= RecvLen
         /\ Len(buf') = maxSize /\ Len(buf') + Len(rest') = Len(buf) + Len(rest)
         /\ buf' \o rest' = buf \o rest
<1>1. /\ pc = "loop" /\ Len(rest) + Len(buf) >= maxSize
      /\ maxSize' = maxSize /\ UNCHANGED <<peerVars, got, delivered>>
  BY DEF Fill
<1>2. PICK b \in Nat, r \in Nat, x \in Nat, i \in Int : b = Len(buf) /\ r = Len(rest) /\ x = maxSize /\ i = x - b
  BY InHand
<1>3. x # 0 /\ x >= 4 /\ b <= x /\ r <= RecvLen
  <2>1. maxSize # 0
    BY <1>1 DEF Inv, SizeInv
  <2>2. maxSize >= HeaderLen /\ Len(buf) <= maxSize
    BY <1>1, <2>1, InNumbers
  <2> QED BY <1>2, <2>1, <2>2 DEF Inv, HandInv, HeaderLen
<1>4. i \in 0 .. RecvLen /\ i \in 0 .. r
  <2>1. r + b >= x /\ RecvLen \in Nat
    BY <1>1, <1>2, InHand
  <2> QED BY <1>2, <1>3, <2>1
<1>5. /\ buf' = buf \o SubSeq(rest, 1, i) /\ rest' = SubSeq(rest, i + 1, Len(rest))
      /\ pc' = IF buf' = <<>> THEN "rest" ELSE "echo"
  BY <1>2, <1>4 DEF Fill
<1>6. /\ SubSeq(rest, 1, i) \in Seq(Byte) /\ Len(SubSeq(rest, 1, i)) = i
      /\ rest' \in Seq(Byte) /\ Len(rest') = r - i
  <2>1. rest \in Seq(Byte) /\ Len(rest) = r /\ i \in Nat /\ i <= r
    BY <1>2, <1>4, InHand
  <2> QED BY <1>5, <2>1
<1>7. buf' \in Seq(Byte) /\ Len(buf') = b + i
  BY <1>2, <1>5, <1>6, InHand
<1>8. b + i = x /\ Len(rest') <= RecvLen /\ Len(buf') + Len(rest') = b + r
  BY <1>2, <1>3, <1>4, <1>6, <1>7, RecvLenAssumption
<1>9. pc' = "echo"
  <2>1. buf' # <<>>
    BY <1>3, <1>7, <1>8
  <2> QED BY <1>5, <2>1
<1>10. buf' \o rest' = buf \o rest
  <2>1. SubSeq(rest, 1, i) \o rest' = rest
    <3>1. SubSeq(rest, 1, i) \o SubSeq(rest, i + 1, Len(rest)) = SubSeq(rest, 1, Len(rest))
      <4>1. 1 \in 1 .. Len(rest) + 1 /\ i \in 1 - 1 .. Len(rest) /\ Len(rest) \in i .. Len(rest)
        BY <1>2, <1>4
      <4> QED BY <4>1, InHand, ConcatAdjacentSubSeq
    <3> QED BY <1>5, <3>1, InHand, SubSeqFull
  <2>2. \A s, t, u \in Seq(Byte) : (s \o t) \o u = s \o (t \o u)
    BY ConcatAssociative
  <2>3. (buf \o SubSeq(rest, 1, i)) \o rest' = buf \o (SubSeq(rest, 1, i) \o rest')
    BY <1>6, <2>2, InHand, ZenonT(40)
  <2> QED BY <1>5, <2>1, <2>3
<1> QED BY <1>1, <1>2, <1>3, <1>6, <1>7, <1>8, <1>9, <1>10

LEMMA FillInv ==
  ASSUME Inv, Fill
  PROVE  Inv'
<1>1. /\ pc = "loop" /\ pc' = "echo" /\ maxSize' = maxSize /\ maxSize # 0
      /\ UNCHANGED <<peerVars, got, delivered>>
      /\ rest' \in Seq(Byte) /\ buf' \in Seq(Byte) /\ Len(rest') <= RecvLen
      /\ Len(buf') = maxSize /\ Len(buf') + Len(rest') = Len(buf) + Len(rest)
      /\ buf' \o rest' = buf \o rest
  BY FillTakes
<1>2. StreamInv' /\ DeliveredInv' /\ HandInv'
  BY <1>1, InHand, SameBytes DEF Labels
<1>3. Done' = Done /\ End(Done)' = End(Done) /\ End(Done + 1)' = End(Done + 1) /\ ends' = ends
  BY <1>1 DEF Done, End, peerVars
<1>4. maxSize \in Nat
  BY InHand
<1>5. SizeInv'
  BY <1>1, <1>3, <1>4 DEF Inv, SizeInv
<1> QED BY <1>2, <1>5 DEF Inv

LEMMA RestInv ==
  ASSUME Inv, Rest
  PROVE  Inv'
<1>1. /\ pc = "loop" /\ Len(rest) + Len(buf) < maxSize
      /\ pc' = "wait" /\ buf' = buf \o rest /\ rest' = <<>>
      /\ maxSize' = maxSize /\ UNCHANGED <<peerVars, got, delivered>>
  BY DEF Rest, Inv, HandInv
<1>2. maxSize # 0
  BY <1>1 DEF Inv, SizeInv
<1>3. /\ rest' \in Seq(Byte) /\ Len(rest') = 0 /\ buf' \in Seq(Byte)
      /\ Len(buf') = Len(buf) + Len(rest) /\ buf' \o rest' = buf \o rest
  BY <1>1, InHand
<1>4. Len(rest') <= RecvLen /\ Len(buf') + Len(rest') = Len(buf) + Len(rest)
  <2>1. RecvLen \in Nat /\ Len(buf') \in Nat
    BY <1>3, InHand
  <2> QED BY <1>3, <2>1
<1>5. StreamInv' /\ DeliveredInv' /\ HandInv'
  BY <1>1, <1>3, <1>4, InHand, SameBytes DEF Labels
<1>6. Done' = Done /\ End(Done)' = End(Done) /\ End(Done + 1)' = End(Done + 1) /\ ends' = ends
  BY <1>1 DEF Done, End, peerVars
<1>7. Len(buf') <= maxSize'
  <2>1. Len(rest) \in Nat /\ Len(buf) \in Nat /\ maxSize \in Nat
    BY InHand
  <2> QED BY <1>1, <1>3, <2>1
<1>8. SizeInv'
  BY <1>1, <1>2, <1>3, <1>6, <1>7 DEF Inv, SizeInv
<1> QED BY <1>5, <1>8 DEF Inv

\* EchoRecive gets the next packet that was sent.
LEMMA EchoesNext ==
  ASSUME Inv, pc = "echo"
  PROVE  /\ Done < Len(ends) /\ Len(buf) = End(Done + 1) - End(Done)
         /\ buf = SubSeq(stream, End(Done) + 1, End(Done + 1))
         /\ rest = SubSeq(stream, End(Done + 1) + 1, got)
         /\ IsPacket(buf)
<1>1. /\ maxSize # 0 /\ Len(buf) = maxSize /\ Done < Len(ends)
      /\ End(Done + 1) = End(Done) + maxSize /\ maxSize >= HeaderLen
  <2>1. maxSize # 0 /\ Len(buf) = maxSize
    BY DEF Inv, SizeInv
  <2> QED BY <2>1, InNumbers
<1>2. PICK d \in Nat, e \in Nat, f \in Nat, x \in Nat :
        d = Done /\ e = End(d) /\ f = End(d + 1) /\ x = maxSize /\ f = e + x /\ x >= 4
  BY <1>1, InHand DEF HeaderLen
<1>3. /\ buf \o rest = SubSeq(stream, e + 1, got)
      /\ got \in Nat /\ got <= Len(stream) /\ Len(stream) \in Nat
      /\ got = f + Len(rest) /\ Len(rest) \in Nat
  <2>1. buf \o rest = SubSeq(stream, e + 1, got) /\ got = e + Len(buf) + Len(rest)
    BY <1>2 DEF Inv, HandInv
  <2> QED BY <1>1, <1>2, <2>1, InHand
<1>4. buf = SubSeq(stream, e + 1, e + Len(buf)) /\ rest = SubSeq(stream, e + Len(buf) + 1, got)
  <2>1. got \in e .. Len(stream)
    BY <1>2, <1>3, SMTT(40)
  <2>2. CutInTwo(stream, buf, rest, e, got)
    BY <2>1, InHand, CutsInTwo
  <2> QED BY <1>3, <2>2 DEF CutInTwo
<1>5. buf = SubSeq(stream, e + 1, f) /\ rest = SubSeq(stream, f + 1, got)
  BY <1>1, <1>2, <1>4
<1>6. SizeAt(SubSeq(stream, e + 1, f)) = f - e
  <2>1. d \in 0 .. Len(ends) /\ f \in 0 .. Len(stream) /\ f >= e + HeaderLen
    BY <1>1, <1>2, InHand DEF HeaderLen
  <2> QED BY <1>2, <2>1, NextSize DEF Inv
<1>7. IsPacket(buf)
  BY <1>1, <1>2, <1>5, <1>6 DEF IsPacket, HeaderLen
<1>8. Done < Len(ends) /\ Len(buf) = End(Done + 1) - End(Done) /\ e = End(Done) /\ f = End(Done + 1)
  BY <1>1, <1>2
<1> QED BY <1>5, <1>7, <1>8

LEMMA EchoInv ==
  ASSUME Inv, Echo
  PROVE  Inv'
<1>1. /\ pc = "echo" /\ delivered' = Append(delivered, buf)
      /\ \/ pc' = "closed" /\ UNCHANGED <<rest, buf, maxSize>>
         \/ /\ buf' = <<>>
            /\ \/ Len(rest) >= HeaderLen /\ maxSize' = SizeAt(rest) /\ rest' = rest /\ pc' = "loop"
               \/ Len(rest) < HeaderLen /\ maxSize' = 0 /\ rest' = <<>> /\ pc' = "wait"
      /\ UNCHANGED <<peerVars, got>>
  <2>1. Len(rest) \in Nat
    BY InHand
  <2> QED BY <2>1 DEF Echo, HeaderLen
<1>2. PICK d \in Nat, f \in Nat, r \in Nat : d = Done /\ f = End(d + 1) /\ r = Len(rest) /\ d < Len(ends)
  BY <1>1, EchoesNext, InHand, SMTT(40)
<1>3. /\ StreamInv' /\ stream' = stream /\ ends' = ends
      /\ \A k : End(k)' = End(k) /\ \A p : InHeader(p)' <=> InHeader(p)
  BY <1>1, StreamKept DEF Inv
<1>4. /\ Done' = d + 1 /\ delivered' \in Seq(Seq(Byte))
      /\ \A k \in 1 .. d : delivered'[k] = delivered[k]
      /\ delivered'[d + 1] = buf
  <2>1. delivered \in Seq(Seq(Byte)) /\ Len(delivered) = d
    BY <1>2 DEF Inv, DeliveredInv, Done
  <2> QED BY <1>1, <2>1, InHand DEF Done
<1>5. DeliveredInv'
  <2>1. IsPacket(buf) /\ \A k \in 1 .. d : IsPacket(delivered[k])
    BY <1>1, <1>2, EchoesNext DEF Inv, DeliveredInv
  <2>2. ASSUME NEW k \in 1 .. d + 1
        PROVE  IsPacket(delivered'[k])
    <3>1. k \in 1 .. d \/ k = d + 1
      OBVIOUS
    <3> QED BY <1>4, <2>1, <3>1
  <2>3. d + 1 <= Len(ends)
    BY <1>2, InHand
  <2> QED BY <1>3, <1>4, <2>2, <2>3 DEF DeliveredInv
<1>6. got = f + r /\ got \in 0 .. Len(stream) /\ got \in Nat /\ ~InHeader(got)
  <2>1. Len(buf) = f - End(d)
    BY <1>1, <1>2, EchoesNext
  <2>2. got = End(d) + Len(buf) + r
    BY <1>1, <1>2, InNumbers
  <2>3. got = f + r
    BY <1>2, <2>1, <2>2, InHand, SMTT(40)
  <2> QED BY <2>3, InHand DEF Inv, HandInv
<1>7. End(Done)' = f
  BY <1>2, <1>3, <1>4
<1>8. rest = SubSeq(stream, f + 1, got)
  BY <1>1, <1>2, EchoesNext
<1>9. CASE pc' = "closed" /\ UNCHANGED <<rest, buf, maxSize>>
  <2>1. HandInv'
    BY <1>1, <1>3, <1>9 DEF Inv, HandInv, Labels
  <2>2. SizeInv'
    BY <1>9 DEF SizeInv
  <2> QED BY <1>3, <1>5, <2>1, <2>2 DEF Inv
<1>10. CASE buf' = <<>> /\ Len(rest) >= HeaderLen /\ maxSize' = SizeAt(rest) /\ rest' = rest /\ pc' = "loop"
  <2>1. /\ d + 1 < Len(ends) /\ SizeAt(rest) = End(d + 2) - f /\ End(d + 2) - f >= HeaderLen
    <3>1. d + 1 \in 0 .. Len(ends) /\ got >= End(d + 1) + HeaderLen
      BY <1>2, <1>6, <1>10, InHand DEF HeaderLen
    <3>2. (d + 1) + 1 = d + 2
      OBVIOUS
    <3> QED BY <1>2, <1>6, <1>8, <3>1, <3>2, NextSize DEF Inv
  <2>2. maxSize' \in Nat /\ maxSize' # 0
    <3>1. End(d + 2) \in Nat
      BY <1>2, <2>1, EndsTyped, InHand DEF Inv
    <3> QED BY <1>10, <2>1, <3>1 DEF HeaderLen
  <2>3. Len(buf') = 0 /\ buf' \o rest' = rest /\ buf' \in Seq(Byte)
    BY <1>10, InHand
  <2>4. HandInv'
    <3>1. End(Done)' + Len(buf') + Len(rest') = got'
      BY <1>1, <1>2, <1>6, <1>7, <1>10, <2>3
    <3> QED BY <1>1, <1>3, <1>6, <1>7, <1>10, <1>8, <2>2, <2>3, <3>1 DEF Inv, HandInv, Labels
  <2>5. End(Done + 1)' = End(d + 2) /\ Len(ends') = Len(ends)
    BY <1>3, <1>4
  <2>6. SizeInv'
    BY <1>3, <1>4, <1>7, <1>10, <2>1, <2>2, <2>3, <2>5 DEF SizeInv
  <2> QED BY <1>3, <1>5, <2>4, <2>6 DEF Inv
<1>11. CASE buf' = <<>> /\ Len(rest) < HeaderLen /\ maxSize' = 0 /\ rest' = <<>> /\ pc' = "wait"
  <2>1. r = 0
    <3>1. SUFFICES ASSUME r > 0 PROVE FALSE
      BY <1>2
    <3>2. got > f /\ got \in Nat /\ got < f + HeaderLen
      BY <1>2, <1>6, <1>11, <3>1 DEF HeaderLen
    <3>3. d + 1 \in 0 .. Len(ends)
      BY <1>2, InHand
    <3> QED BY <1>2, <1>6, <3>2, <3>3, BeyondHeader DEF Inv, HeaderLen
  <2>2. rest = <<>> /\ got = f
    <3>1. Len(rest) = 0 /\ rest \in Seq(Byte)
      BY <1>2, <2>1, InHand
    <3>2. rest = <<>>
      BY <3>1
    <3>3. got = f
      BY <1>6, <2>1
    <3> QED BY <3>2, <3>3
  <2>3. buf' \o rest' = SubSeq(stream, f + 1, got)
    <3>1. buf' \o rest' = rest
      BY <1>11, <2>2
    <3> QED BY <1>8, <3>1
  <2>4. HandInv'
    <3>1. End(Done)' + Len(buf') + Len(rest') = got'
      BY <1>1, <1>2, <1>7, <1>11, <2>2
    <3>2. RecvLen \in Nat
      BY InHand
    <3> QED BY <1>1, <1>3, <1>6, <1>7, <1>11, <2>3, <3>1, <3>2 DEF Inv, HandInv, Labels
  <2>5. SizeInv'
    BY <1>11 DEF SizeInv
  <2> QED BY <1>3, <1>5, <2>4, <2>5 DEF Inv
<1> QED BY <1>1, <1>9, <1>10, <1>11

LEMMA StepInv ==
  ASSUME Inv, ~SplitHeaders, [Next]_vars
  PROVE  Inv'
<1>1. CASE Send
  BY <1>1, SendInv
<1>2. ASSUME NEW n \in 1 .. RecvLen, Arrive(n)
      PROVE  Inv'
  BY <1>2, ArriveInv
<1>3. CASE Short
  BY <1>3, ShortInv
<1>4. CASE Begin
  BY <1>4, BeginInv
<1>5. CASE Fill
  BY <1>5, FillInv
<1>6. CASE Echo
  BY <1>6, EchoInv
<1>7. CASE Rest
  BY <1>7, RestInv
<1>8. CASE UNCHANGED vars
  <2>1. /\ StreamInv' /\ stream' = stream /\ ends' = ends
        /\ \A k : End(k)' = End(k) /\ \A p : InHeader(p)' <=> InHeader(p)
    BY <1>8, StreamKept DEF Inv, vars, peerVars
  <2>2. /\ got' = got /\ pc' = pc /\ rest' = rest /\ buf' = buf /\ maxSize' = maxSize
        /\ delivered' = delivered /\ Done' = Done
        /\ End(Done)' = End(Done) /\ End(Done + 1)' = End(Done + 1)
    BY <1>8, <2>1 DEF vars, Done
  <2>3. DeliveredInv' /\ HandInv' /\ SizeInv'
    BY <2>1, <2>2 DEF Inv, DeliveredInv, HandInv, SizeInv
  <2> QED BY <2>1, <2>3 DEF Inv
<1> QED BY <1>1, <1>2, <1>3, <1>4, <1>5, <1>6, <1>7, <1>8 DEF Next, OnRecv

\* The invariant holds as long as no piece ends inside a size field.
THEOREM Invariance ==
  ASSUME ~SplitHeaders
  PROVE  Spec => []Inv
<1>1. Inv /\ [Next]_vars => Inv'
  BY StepInv
<1> QED BY <1>1, InitInv, PTL DEF Spec

-----------------------------------------------------------------------------
(* What OnRecv puts together is right.                                       *)

\* Of the packets received whole only the next one can be undelivered.
LEMMA Lag ==
  ASSUME Inv
  PROVE  LagsByOne
<1> SUFFICES ASSUME pc = "wait"
             PROVE  Cardinality({k \in 1 .. Len(ends) : ends[k] <= got}) <= Done + 1
  BY DEF LagsByOne, Done
<1> DEFINE K == {k \in 1 .. Len(ends) : ends[k] <= got}
<1>1. PICK d \in Nat, n \in Nat : d = Done /\ n = Len(ends) /\ d <= n
  BY InHand
<1>2. d < n => got <= End(d + 1)
  <2> SUFFICES ASSUME d < n PROVE got <= End(d + 1)
    OBVIOUS
  <2>1. End(d) \in Nat /\ End(d + 1) \in Nat /\ End(d) + HeaderLen <= End(d + 1)
    <3>1. d \in 0 .. n /\ d + 1 \in 0 .. n /\ d < d + 1
      BY <1>1
    <3> QED BY <1>1, <3>1, EndsTyped DEF Inv, StreamInv
  <2>2. rest = <<>> /\ Len(rest) = 0 /\ got = End(d) + Len(buf)
    <3>1. rest = <<>> /\ got = End(Done) + Len(buf) + Len(rest)
      BY InNumbers DEF Inv, SizeInv
    <3> QED BY <1>1, <3>1, InHand
  <2>3. CASE maxSize = 0
    <3>1. Len(buf) = 0
      BY <2>3, InNumbers
    <3> QED BY <2>1, <2>2, <3>1 DEF HeaderLen
  <2>4. CASE maxSize # 0
    <3>1. End(d + 1) = End(d) + maxSize /\ Len(buf) <= maxSize
      BY <1>1, <2>4, InNumbers
    <3> QED BY <2>1, <2>2, <3>1, InHand
  <2> QED BY <2>3, <2>4
<1>3. K \subseteq 1 .. d + 1
  <2> SUFFICES ASSUME NEW k \in 1 .. n, ends[k] <= got, k > d + 1
               PROVE  FALSE
    BY <1>1
  <2>1. d < n /\ d + 1 \in 0 .. n /\ k \in 0 .. n /\ d + 1 < k
    BY <1>1
  <2>2. End(d + 1) + HeaderLen <= End(k) /\ End(k) = ends[k] /\ End(d + 1) \in Nat /\ End(k) \in Nat
    <3>1. End(k) = ends[k]
      BY DEF End
    <3> QED BY <1>1, <2>1, <3>1, EndsTyped DEF Inv, StreamInv
  <2>3. got \in Nat /\ got <= End(d + 1)
    BY <1>2, <2>1, InHand
  <2> QED BY <2>2, <2>3 DEF HeaderLen
<1> HIDE DEF K
<1>4. IsFiniteSet(1 .. d + 1) /\ Cardinality(1 .. d + 1) = d + 1
  BY FS_Interval
<1>5. Cardinality(K) <= d + 1
  BY <1>3, <1>4, FS_Subset
<1> QED BY <1>1, <1>5 DEF K

\* In every state of OnRecv, whatever the payloads, the length of the receive
\* buffer and the pieces the stream arrives in, if none of them ends inside a
\* size: no byte is lost, repeated or moved; a size that is set is the next
\* packet's; SetBuffer never refuses; at most one packet received whole waits.
THEOREM PacketsReassembled ==
  ASSUME ~SplitHeaders
  PROVE  Spec => []Reassembled
<1>1. Inv => Reassembled
  <2> SUFFICES ASSUME Inv PROVE Reassembled
    OBVIOUS
  <2>1. TypeOK
    BY DEF Inv, StreamInv, DeliveredInv, HandInv, TypeOK, Done
  <2>2. Intact
    BY DEF Inv, HandInv, Intact, Done
  <2>3. SizeFromHead
    <3> SUFFICES ASSUME pc # "closed", maxSize # 0
                 PROVE  Done < Len(ends) /\ maxSize = Len(Sent[Done + 1])
      BY DEF SizeFromHead, Done
    <3>1. Done < Len(ends) /\ End(Done + 1) = End(Done) + maxSize
      BY InNumbers
    <3>2. Done + 1 \in 1 .. Len(ends) /\ (Done + 1) - 1 = Done
      BY <3>1, InHand
    <3>3. Sent[Done + 1] = SubSeq(stream, End(Done) + 1, End(Done + 1))
      BY <3>2 DEF Sent
    <3>4. Len(SubSeq(stream, End(Done) + 1, End(Done) + maxSize)) = maxSize
      <4>1. End(Done) \in Nat /\ maxSize \in Nat /\ stream \in Seq(Byte)
        BY InHand
      <4>2. End(Done) + maxSize <= Len(stream) /\ Len(stream) \in Nat
        BY <3>1, InHand
      <4> QED BY <4>1, <4>2
    <3> QED BY <3>1, <3>3, <3>4
  <2>4. NeverBlocked
    BY DEF Inv, HandInv, NeverBlocked
  <2> QED BY <2>1, <2>2, <2>3, <2>4, Lag DEF Reassembled
<1> QED BY <1>1, Invariance, PTL

-----------------------------------------------------------------------------
(* OnRecv implements the stream of packets.                                  *)

LEMMA TupleIsSeq ==
  ASSUME NEW T, NEW n \in Nat, NEW f \in [1 .. n -> T]
  PROVE  f \in Seq(T) /\ Len(f) = n
  OBVIOUS

\* What the peer sends is one more packet in the abstract stream.
LEMMA SentGrows ==
  ASSUME StreamInv, NEW data \in Payloads, Sending(data)
  PROVE  Sent' = Append(Sent, Packet(data))
<1>1. PICK n \in Nat, l \in Nat : n = Len(ends) /\ l = Len(stream) /\ l = End(n)
  BY DEF StreamInv
<1>2. /\ Len(ends') = n + 1
      /\ \A k \in 0 .. n : End(k)' = End(k) /\ End(k) \in 0 .. l
      /\ End(n + 1)' = Len(stream')
      /\ \A p, q \in 0 .. l : SubSeq(stream', p + 1, q) = SubSeq(stream, p + 1, q)
      /\ SubSeq(stream', l + 1, Len(stream')) = Packet(data)
  BY <1>1, SendAppends, EndsTyped
<1>3. Sent' = [k \in 1 .. n + 1 |-> SubSeq(stream', End(k - 1)' + 1, End(k)')]
  BY <1>2 DEF Sent
<1>4. Sent = [k \in 1 .. n |-> SubSeq(stream, End(k - 1) + 1, End(k))]
  BY <1>1 DEF Sent
<1>5. ASSUME NEW k \in 1 .. n
      PROVE  SubSeq(stream', End(k - 1)' + 1, End(k)') = Sent[k]
  <2>1. k \in 0 .. n /\ k - 1 \in 0 .. n
    OBVIOUS
  <2>2. /\ End(k)' = End(k) /\ End(k - 1)' = End(k - 1)
        /\ End(k) \in 0 .. l /\ End(k - 1) \in 0 .. l
    BY <1>2, <2>1
  <2> QED BY <1>2, <1>4, <2>2
<1>6. SubSeq(stream', End((n + 1) - 1)' + 1, End(n + 1)') = Packet(data)
  <2>1. (n + 1) - 1 = n /\ n \in 0 .. n
    OBVIOUS
  <2>2. End(n)' = l
    BY <1>1, <1>2, <2>1
  <2> QED BY <1>2, <2>1, <2>2
<1>7. Sent \in Seq(Seq(Byte)) /\ Len(Sent) = n /\ Packet(data) \in Seq(Byte)
  <2>1. \A k \in 1 .. n : SubSeq(stream, End(k - 1) + 1, End(k)) \in Seq(Byte)
    <3> TAKE k \in 1 .. n
    <3>1. End(k) \in 0 .. l /\ End(k - 1) \in 0 .. l
      <4>1. k \in 0 .. n /\ k - 1 \in 0 .. n
        OBVIOUS
      <4> QED BY <1>2, <4>1
    <3>2. stream \in Seq(Byte) /\ Len(stream) = l
      BY <1>1 DEF StreamInv
    <3> QED BY <3>1, <3>2
  <2>2. Sent \in [1 .. n -> Seq(Byte)]
    BY <1>4, <2>1
  <2> QED BY <2>2, PacketSays, TupleIsSeq
<1>8. /\ Append(Sent, Packet(data)) \in Seq(Seq(Byte)) /\ Len(Append(Sent, Packet(data))) = n + 1
      /\ \A k \in 1 .. n : Append(Sent, Packet(data))[k] = Sent[k]
      /\ Append(Sent, Packet(data))[n + 1] = Packet(data)
  BY <1>7, AppendProperties
<1>9. Append(Sent, Packet(data)) = [k \in 1 .. n + 1 |-> Append(Sent, Packet(data))[k]]
  <2>1. Append(Sent, Packet(data)) \in [1 .. n + 1 -> Seq(Byte)]
    BY <1>8, LenProperties
  <2> QED BY <2>1
<1>10. ASSUME NEW k \in 1 .. n + 1
       PROVE  SubSeq(stream', End(k - 1)' + 1, End(k)') = Append(Sent, Packet(data))[k]
  <2>1. k \in 1 .. n \/ k = n + 1
    OBVIOUS
  <2>2. CASE k \in 1 .. n
    BY <1>5, <1>8, <2>2
  <2>3. CASE k = n + 1
    BY <1>6, <1>8, <2>3
  <2> QED BY <2>1, <2>2, <2>3
<1> QED BY <1>3, <1>9, <1>10

\* Every step is one of the abstract stream or leaves it alone.
LEMMA StepSimulates ==
  ASSUME Inv, [Next]_vars
  PROVE  [Stream!Next]_(Stream!streamVars)
<1>1. CASE Send
  <2>1. PICK data \in Payloads : Sending(data)
    BY <1>1 DEF Send, Sending
  <2>2. Sent' = Append(Sent, Packet(data))
    BY <2>1, SentGrows DEF Inv
  <2>3. Packet(data) \in {Packet(d) : d \in Payloads}
    OBVIOUS
  <2>4. UNCHANGED <<delivered, pc # "closed">>
    BY <1>1 DEF Send
  <2> QED BY <2>2, <2>3, <2>4 DEF Stream!Next, Stream!Send
<1>2. CASE Echo
  <2>1. pc = "echo" /\ delivered' = Append(delivered, buf) /\ UNCHANGED peerVars
    BY <1>2 DEF Echo
  <2>2. Sent' = Sent /\ pc # "closed"
    BY <2>1 DEF Sent, End, peerVars
  <2>3. Done < Len(ends)
    BY <2>1, EchoesNext
  <2>4. Len(Sent) = Len(ends)
    BY InHand DEF Sent
  <2>5. Sent[Done + 1] = buf
    <3>1. Done + 1 \in 1 .. Len(ends) /\ (Done + 1) - 1 = Done
      BY <2>3, InHand, SMTT(40)
    <3>2. buf = SubSeq(stream, End(Done) + 1, End(Done + 1))
      BY <2>1, EchoesNext
    <3> QED BY <3>1, <3>2 DEF Sent
  <2>6. (pc # "closed")' \in BOOLEAN
    OBVIOUS
  <2> QED BY <2>1, <2>2, <2>3, <2>4, <2>5, <2>6 DEF Stream!Next, Stream!Deliver, Done
<1>3. CASE (\E n \in 1 .. RecvLen : Arrive(n)) \/ Short \/ Begin \/ Fill \/ Rest \/ UNCHANGED vars
  <2>1. UNCHANGED peerVars /\ delivered' = delivered
    BY <1>3 DEF Arrive, Short, Begin, Fill, Rest, vars, peerVars
  <2>2. Sent' = Sent
    BY <2>1 DEF Sent, End, peerVars
  <2>3. pc # "closed" <=> pc' # "closed"
    BY <1>3 DEF Arrive, Short, Begin, Fill, Rest, vars
  <2> QED BY <2>1, <2>2, <2>3 DEF Stream!streamVars
<1> QED BY <1>1, <1>2, <1>3 DEF Next, OnRecv

\* OnRecv implements PacketStream, whatever the payloads, the length of the
\* receive buffer and the pieces the stream arrives in, if none of them ends
\* inside a size: EchoRecive is called with the packets that were sent, each
\* once and in the order of sending, until the connection closes.
THEOREM ImplementsStream ==
  ASSUME ~SplitHeaders
  PROVE  Spec => IsStream
<1>1. Init => Stream!Init
  <2> SUFFICES ASSUME Init PROVE Stream!Init
    OBVIOUS
  <2>1. Sent = <<>>
    BY DEF Init, Sent
  <2> QED BY <2>1 DEF Init, Stream!Init
<1>2. Inv /\ [Next]_vars => [Stream!Next]_(Stream!streamVars)
  BY StepSimulates
<1> QED BY <1>1, <1>2, Invariance, PTL DEF Spec, IsStream, Stream!Spec

-----------------------------------------------------------------------------
(* ClientService.                                                          *)

-----------------------------------------------------------------------------
(* The invariant of the connection and the callbacks.                        *)

Busy(w) == worker[w].pc # "idle"
Pcs == {"idle", "queued", "loop", "echo", "tail", "hang"}

\* A callback that is not of data has no bytes; only one of data goes on.
JobShape(w) ==
  /\ worker[w] = [pc |-> worker[w].pc, kind |-> worker[w].kind, left |-> worker[w].left,
                  off |-> worker[w].off, packet |-> worker[w].packet]
  /\ worker[w].pc \in Pcs /\ worker[w].kind \in Kinds
  /\ ~Busy(w) => worker[w] = Idle
  /\ worker[w].pc \in {"loop", "echo", "tail"} => worker[w].kind = "recv"
  /\ worker[w].kind = "connect" => worker[w].pc = "queued"

CtlTyped ==
  /\ appPc \in AppLabels /\ told \in {"none", "yes", "no"}
  /\ bConnect \in BOOLEAN /\ io \in BOOLEAN /\ exist \in BOOLEAN /\ connecting \in BOOLEAN
  /\ socket \in {"none", "bound", "open", "closed"} /\ peer \in {"up", "down"}
  /\ requests \in 0 .. MaxRequests /\ sends \in 0 .. requests /\ posted \in Nat /\ faults \in 0 .. MaxFaults
  /\ appPc \in {"send", "stop_recv"} => requests < MaxRequests
  /\ worker = [w \in Workers |-> worker[w]] /\ \A w \in Workers : JobShape(w)

\* Until Run has an answer there is the connect or its callback, if anything; and
\* the flag is set by the callback of a connect that went well.
ConnectInv ==
  /\ told = "none" => appPc \in {"new", "wait", "crashed"}
  /\ appPc \in {"new", "wait"} => told = "none"
  /\ appPc \in {"send", "stop_recv", "stop_send"} => told = "yes"
  /\ told # "yes" => /\ posted = 0 /\ sends = 0
                     /\ \A w \in Workers : Busy(w) => worker[w].kind \in {"connect", "error"}
  /\ told = "none" =>
       /\ appPc # "new" <=> io
       /\ appPc = "new" => socket = "none" /\ ~connecting /\ ~bConnect /\ \A w \in Workers : ~Busy(w)
       /\ connecting => ~bConnect /\ \A w \in Workers : ~Busy(w)
       /\ bConnect => socket = "open"
       /\ \A w \in Workers : Busy(w) =>
            /\ ~bConnect /\ \A u \in Workers \ {w} : ~Busy(u)
            /\ worker[w].kind = "connect" => socket = "open"
  /\ told = "yes" => /\ ~connecting /\ \A w \in Workers : worker[w].kind # "connect"
                     /\ bConnect => socket = "open"
                     /\ socket \in {"open", "closed"}

\* Once the thread-pool io is gone nothing is under way.
Quiet == ~connecting /\ posted = 0 /\ sends = 0 /\ \A w \in Workers : worker[w] = Idle
StopInv ==
  /\ told = "yes" => /\ io \/ Quiet
                     /\ appPc \in {"idle", "stop", "stop_recv", "stop_send"} => io
                     /\ appPc = "stopped" => ~io
  /\ appPc \in {"stop", "stop_recv", "stop_send"} => socket \in {"none", "closed"}

CtlInv == CtlTyped /\ ConnectInv /\ StopInv

-----------------------------------------------------------------------------
(* The invariant of the data: its types, and what is where as long as TCP   *)
(* cuts the stream well and no two receives share _RecvBuffer.              *)

Numbered(k, m) == [i \in 1 .. m |-> <<k, i>>]
Heard == Len(echoed)

\* The stream is its packets, one after the other.
ClientStreamInv ==
  /\ lengths \in Seq(Lengths) /\ Len(lengths) <= MaxAnswers
  /\ ByteStream \in Seq(Bytes)
  /\ \A j \in 1 .. Len(ByteStream) :
       /\ ByteStream[j] = <<ByteStream[j][1], ByteStream[j][2]>>
       /\ ByteStream[j][1] \in 1 .. Len(lengths) /\ ByteStream[j][2] \in 1 .. lengths[ByteStream[j][1]]
       /\ \A i \in 1 .. lengths[ByteStream[j][1]] :
            /\ j + i - ByteStream[j][2] \in 1 .. Len(ByteStream)
            /\ ByteStream[j + i - ByteStream[j][2]] = <<ByteStream[j][1], i>>
       /\ ByteStream[j][2] = lengths[ByteStream[j][1]] /\ j < Len(ByteStream) => ByteStream[j + 1] = <<ByteStream[j][1] + 1, 1>>
  /\ \A j, l \in 1 .. Len(ByteStream) : j <= l => ByteStream[j][1] <= ByteStream[l][1]
  /\ Len(ByteStream) > 0 => ByteStream[1] = <<1, 1>>
  /\ lengths = <<>> => Len(ByteStream) = 0
  /\ lengths # <<>> => Len(ByteStream) > 0 /\ ByteStream[Len(ByteStream)] = <<Len(lengths), lengths[Len(lengths)]>>

\* At p the first d packets end, or that and m bytes of the next one.
Ended(p, d) == IF p = 0 THEN d = 0 ELSE ByteStream[p] = <<d, lengths[d]>>
At(p, d, m) ==
  /\ p \in 0 .. Len(ByteStream)
  /\ IF m = 0 THEN Ended(p, d) ELSE p # 0 /\ ByteStream[p] = <<d + 1, m>> /\ m < lengths[d + 1]

\* What is put away is the start of the next packet, up to p; the size is that
\* packet's, or not known when there is nothing.
Pending(p) ==
  /\ At(p, Heard, Len(vecBuffer)) /\ vecBuffer = Numbered(Heard + 1, Len(vecBuffer))
  /\ recvSize = IF vecBuffer = <<>> THEN 0 ELSE lengths[Heard + 1]

\* One callback at a time has bytes.
OneReceive == \A u, w \in Workers : HasBytes(u) /\ HasBytes(w) => u = w

\* The piece of the stream a callback got, and where it is in it.
First(w) == taken - worker[w].left - worker[w].off + 1

Piece(w) ==
  /\ worker[w].left \in Nat /\ worker[w].off \in Nat
  /\ worker[w].left + worker[w].off \in 1 .. ClientRecvLen
  /\ First(w) \in 1 .. taken
  /\ \A i \in 1 .. worker[w].left + worker[w].off : recvBuffer[i] = ByteStream[First(w) + i - 1]
  /\ ByteStream[taken][2] >= SizeLen
  /\ \/ \A j \in First(w) .. taken : ByteStream[j][1] = ByteStream[taken][1]
     \/ /\ ByteStream[First(w)][2] = 1
        /\ \A j \in First(w) .. taken : lengths[ByteStream[j][1]] = lengths[ByteStream[First(w)][1]]

Place(w) ==
  LET p == taken - worker[w].left
  IN  /\ worker[w].pc = "queued" => worker[w].off = 0 /\ Pending(p)
      /\ worker[w].pc = "loop" => /\ worker[w].left > 0
                                  /\ At(p, Heard, Len(vecBuffer)) /\ vecBuffer = Numbered(Heard + 1, Len(vecBuffer))
                                  /\ recvSize = lengths[Heard + 1]
      /\ worker[w].pc \in {"echo", "tail"} => vecBuffer = <<>> /\ worker[w].off > 0
      /\ worker[w].pc = "echo" => /\ Heard < Len(lengths) /\ worker[w].packet = PacketOf(Heard + 1)
                                  /\ Ended(p, Heard + 1)
      /\ worker[w].pc = "tail" => Ended(p, Heard)

ClientHandInv ==
  /\ \A w \in Workers : HasBytes(w) => Piece(w) /\ Place(w)
  /\ socket # "closed" /\ (\A w \in Workers : ~HasBytes(w)) => Pending(taken)

Spans(w) == /\ worker[w].left \in Nat /\ worker[w].off \in Nat
            /\ worker[w].left + worker[w].off <= ClientRecvLen

DataTyped ==
  /\ recvBuffer \in [1 .. ClientRecvLen -> Bytes]
  /\ \A i \in 1 .. ClientRecvLen : recvBuffer[i][1] \in 0 .. Len(lengths)
  /\ vecBuffer \in Seq(Bytes) /\ recvSize \in Nat /\ echoed \in Seq(Seq(Bytes))
  /\ taken \in 0 .. Len(ByteStream) /\ well \in BOOLEAN
  /\ \A w \in Workers : Spans(w)

DataInv == ClientStreamInv /\ DataTyped /\ (well => OneReceive /\ ClientHandInv)
WellInv == well /\ ClientStreamInv /\ DataTyped /\ OneReceive /\ ClientHandInv
ClientInv == CtlInv /\ DataInv

-----------------------------------------------------------------------------
(* What the moves of a worker are.                                           *)

LEMMA Becomes ==
  ASSUME worker = [u \in Workers |-> worker[u]], NEW w \in Workers, NEW c, Become(w, c)
  PROVE  /\ worker' = [u \in Workers |-> worker'[u]] /\ worker'[w] = c
         /\ \A u \in Workers \ {w} : worker'[u] = worker[u]
<1>1. worker' = [worker EXCEPT ![w] = c]
  BY DEF Become
<1>2. worker' = [u \in Workers |-> IF u = w THEN c ELSE worker[u]]
  BY <1>1
<1> QED BY <1>2

\* A job as a record, with another label.
LEMMA Labelled ==
  ASSUME NEW w \in Workers, JobShape(w), NEW l
  PROVE  [worker[w] EXCEPT !.pc = l] =
           [pc |-> l, kind |-> worker[w].kind, left |-> worker[w].left, off |-> worker[w].off, packet |-> worker[w].packet]
  BY DEF JobShape

LEMMA Filled ==
  ASSUME NEW w \in Workers, JobShape(w), NEW n, NEW b
  PROVE  [worker[w] EXCEPT !.pc = "echo", !.left = @ - n, !.off = @ + n, !.packet = b] =
           [pc |-> "echo", kind |-> worker[w].kind, left |-> worker[w].left - n,
            off |-> worker[w].off + n, packet |-> b]
<1> DEFINE a == [worker[w] EXCEPT !.pc = "echo"]
           d == [a EXCEPT !.left = @ - n]
           e == [d EXCEPT !.off = @ + n]
<1>1. a = [pc |-> "echo", kind |-> worker[w].kind, left |-> worker[w].left, off |-> worker[w].off,
           packet |-> worker[w].packet]
  BY Labelled
<1> HIDE DEF a
<1>2. d = [pc |-> "echo", kind |-> worker[w].kind, left |-> worker[w].left - n, off |-> worker[w].off,
           packet |-> worker[w].packet]
  BY <1>1
<1> HIDE DEF d
<1>3. e = [pc |-> "echo", kind |-> worker[w].kind, left |-> worker[w].left - n, off |-> worker[w].off + n,
           packet |-> worker[w].packet]
  BY <1>2
<1> HIDE DEF e
<1>4. [e EXCEPT !.packet = b] = [pc |-> "echo", kind |-> worker[w].kind, left |-> worker[w].left - n,
                                 off |-> worker[w].off + n, packet |-> b]
  BY <1>3
<1>5. [worker[w] EXCEPT !.pc = "echo", !.left = @ - n, !.off = @ + n, !.packet = b] = [e EXCEPT !.packet = b]
  BY DEF a, d, e
<1> QED BY <1>4, <1>5

LEMMA Echoed ==
  ASSUME NEW w \in Workers, JobShape(w)
  PROVE  [worker[w] EXCEPT !.pc = "tail", !.packet = <<>>] =
           [pc |-> "tail", kind |-> worker[w].kind, left |-> worker[w].left, off |-> worker[w].off, packet |-> <<>>]
<1> DEFINE a == [worker[w] EXCEPT !.pc = "tail"]
<1>1. a = [pc |-> "tail", kind |-> worker[w].kind, left |-> worker[w].left, off |-> worker[w].off,
           packet |-> worker[w].packet]
  BY Labelled
<1> HIDE DEF a
<1>2. [a EXCEPT !.packet = <<>>] = [pc |-> "tail", kind |-> worker[w].kind, left |-> worker[w].left,
                                    off |-> worker[w].off, packet |-> <<>>]
  BY <1>1
<1>3. [worker[w] EXCEPT !.pc = "tail", !.packet = <<>>] = [a EXCEPT !.packet = <<>>]
  BY DEF a
<1> QED BY <1>2, <1>3

LEMMA JobIs ==
  ASSUME NEW k, NEW n
  PROVE  Job(k, n) = [pc |-> "queued", kind |-> k, left |-> n, off |-> 0, packet |-> <<>>]
<1> DEFINE a == [Idle EXCEPT !.pc = "queued"]
           b == [a EXCEPT !.kind = k]
<1>1. a = [pc |-> "queued", kind |-> "send", left |-> 0, off |-> 0, packet |-> <<>>]
  BY DEF Idle
<1> HIDE DEF a
<1>2. b = [pc |-> "queued", kind |-> k, left |-> 0, off |-> 0, packet |-> <<>>]
  BY <1>1
<1> HIDE DEF b
<1>3. [b EXCEPT !.left = n] = [pc |-> "queued", kind |-> k, left |-> n, off |-> 0, packet |-> <<>>]
  BY <1>2
<1>4. Job(k, n) = [b EXCEPT !.left = n]
  BY DEF Job, a, b
<1> QED BY <1>3, <1>4

\* The ways a step of a callback ends: it goes on or ends and leaves the
\* connection alone, it ends with a receive posted, it closes the connection and
\* stays, or it was the connect's.
GoesOnOrEnds(w) ==
  /\ UNCHANGED <<bConnect, socket, posted, exist, faults>>
  /\ worker'[w] = Idle \/ (/\ worker'[w].pc \in {"loop", "echo", "tail"} /\ worker'[w].kind = worker[w].kind
                           /\ worker[w].kind = "recv")
EndsPosting(w) ==
  /\ worker[w].kind \in {"recv", "timeout"} /\ socket = "open"
  /\ posted' = posted + 1 /\ worker'[w] = Idle /\ exist' = TRUE /\ UNCHANGED <<bConnect, socket, faults>>
Closes(w) ==
  /\ worker[w].kind \in {"recv", "timeout", "error"}
  /\ Disconnect /\ exist' \in BOOLEAN /\ UNCHANGED posted /\ faults' \in 0 .. MaxFaults
  /\ worker'[w].pc = "hang" /\ worker'[w].kind = worker[w].kind
Connects(w) ==
  /\ worker[w].kind = "connect" /\ bConnect' = TRUE /\ worker'[w] = Idle /\ UNCHANGED <<socket, posted, exist, faults>>

CallbackMoves(w) ==
  /\ Busy(w) /\ JobShape(w)' /\ worker' = [u \in Workers |-> worker'[u]]
  /\ \A u \in Workers \ {w} : worker'[u] = worker[u]
  /\ UNCHANGED <<appVars, io, connecting, sends, peer>>
  /\ GoesOnOrEnds(w) \/ EndsPosting(w) \/ Closes(w) \/ Connects(w)

LEMMA CallbackCtl ==
  ASSUME CtlInv, NEW w \in Workers, CallbackMoves(w)
  PROVE  CtlInv'
<1>1. CtlTyped'
  <2>1. \A u \in Workers : JobShape(u)'
    BY DEF CallbackMoves, CtlInv, CtlTyped, JobShape, Busy
  <2>2. /\ bConnect' \in BOOLEAN /\ exist' \in BOOLEAN /\ socket' \in {"none", "bound", "open", "closed"}
        /\ posted' \in Nat /\ faults' \in 0 .. MaxFaults
    <3>1. /\ bConnect \in BOOLEAN /\ exist \in BOOLEAN /\ socket \in {"none", "bound", "open", "closed"}
          /\ posted \in Nat /\ faults \in 0 .. MaxFaults
      BY DEF CtlInv, CtlTyped
    <3>2. CASE GoesOnOrEnds(w)
      BY <3>1, <3>2 DEF GoesOnOrEnds
    <3>3. CASE EndsPosting(w)
      BY <3>1, <3>3 DEF EndsPosting
    <3>4. CASE Closes(w)
      BY <3>1, <3>4 DEF Closes, Disconnect
    <3>5. CASE Connects(w)
      BY <3>1, <3>5 DEF Connects
    <3> QED BY <3>2, <3>3, <3>4, <3>5 DEF CallbackMoves
  <2> QED BY <2>1, <2>2 DEF CallbackMoves, appVars, CtlInv, CtlTyped
<1>2. \A u \in Workers : Busy(u)' => Busy(u) /\ worker'[u].kind = worker[u].kind
  BY DEF CallbackMoves, GoesOnOrEnds, EndsPosting, Closes, Connects, Busy, Idle
<1>3. \A u \in Workers : worker'[u].kind = worker[u].kind \/ worker'[u].kind = "send"
  BY DEF CallbackMoves, GoesOnOrEnds, EndsPosting, Closes, Connects, Idle
<1>4. ConnectInv'
  BY <1>2, <1>3 DEF CallbackMoves, GoesOnOrEnds, EndsPosting, Closes, Connects, Disconnect, appVars, Busy, Idle, CtlInv, ConnectInv
<1>5. StopInv'
  BY DEF CallbackMoves, GoesOnOrEnds, EndsPosting, Closes, Connects, Disconnect, appVars, Busy, Idle, CtlInv, StopInv, Quiet
<1> QED BY <1>1, <1>4, <1>5 DEF CtlInv

LEMMA PostRecvMoves ==
  ASSUME BoundsAssumption, CtlInv, NEW w \in Workers, worker[w].kind \in {"recv", "timeout"}, PostRecv(w)
  PROVE  /\ EndsPosting(w) \/ Closes(w)
         /\ JobShape(w)' /\ worker' = [u \in Workers |-> worker'[u]]
         /\ \A u \in Workers \ {w} : worker'[u] = worker[u]
<1>1. worker = [u \in Workers |-> worker[u]] /\ JobShape(w) /\ faults \in 0 .. MaxFaults
  BY DEF CtlInv, CtlTyped
<1>2. CASE EndCallback(w) /\ EndsPosting(w)
  <2>1. Become(w, Idle)
    BY <1>2 DEF EndCallback
  <2>2. JobShape(w)'
    BY <1>2 DEF EndsPosting, JobShape, Busy, Idle, Pcs, Kinds
  <2> QED BY <1>1, <1>2, <2>1, <2>2, Becomes
<1>3. CASE OnClose(w) /\ exist' = TRUE /\ posted' = posted /\ faults' \in 0 .. MaxFaults
  <2> DEFINE c == [worker[w] EXCEPT !.pc = "hang"]
  <2>1. Become(w, c) /\ Disconnect
    BY <1>3 DEF OnClose
  <2>2. c = [pc |-> "hang", kind |-> worker[w].kind, left |-> worker[w].left,
             off |-> worker[w].off, packet |-> worker[w].packet]
    BY <1>1, Labelled
  <2> HIDE DEF c
  <2>3. /\ worker' = [u \in Workers |-> worker'[u]] /\ worker'[w] = c
        /\ \A u \in Workers \ {w} : worker'[u] = worker[u]
    BY <1>1, <2>1, Becomes
  <2>4. JobShape(w)' /\ worker'[w].pc = "hang" /\ worker'[w].kind = worker[w].kind
    BY <1>1, <2>2, <2>3 DEF JobShape, Busy, Idle, Pcs, Kinds
  <2> QED BY <1>3, <2>1, <2>3, <2>4 DEF Closes
<1>4. (EndCallback(w) /\ EndsPosting(w)) \/ (OnClose(w) /\ exist' = TRUE /\ posted' = posted /\ faults' \in 0 .. MaxFaults)
  <2>1. CASE socket = "open" /\ posted' = posted + 1 /\ exist' = TRUE /\ EndCallback(w) /\ UNCHANGED <<bConnect, socket, faults>>
    <3>1. worker'[w] = Idle
      BY <1>1, <2>1, Becomes DEF EndCallback
    <3> QED BY <2>1, <3>1 DEF EndsPosting
  <2>2. CASE /\ IF socket = "open" THEN Fault ELSE UNCHANGED faults
             /\ OnClose(w) /\ exist' = TRUE /\ UNCHANGED posted
    <3>1. faults' \in 0 .. MaxFaults
      BY <1>1, <2>2 DEF Fault, BoundsAssumption
    <3> QED BY <2>2, <3>1
  <2> QED BY <2>1, <2>2 DEF PostRecv
<1> QED BY <1>2, <1>3, <1>4

LEMMA CallbackShape ==
  ASSUME BoundsAssumption, CtlInv, NEW w \in Workers, Callback(w) \/ ClientOnRecv(w)
  PROVE  CallbackMoves(w)
<1>1. worker = [u \in Workers |-> worker[u]] /\ JobShape(w) /\ faults \in 0 .. MaxFaults /\ exist \in BOOLEAN
  BY DEF CtlInv, CtlTyped
<1>2. Busy(w) /\ UNCHANGED <<appVars, io, connecting, sends>>
  BY DEF Busy, Callback, ClientOnRecv, RecvBegins, RecvShort, FillPacket, EchoPacket, Tail_, SaveRest, linkVars, kernelVars
<1>3. peer' = peer
  BY DEF Callback, ClientOnRecv, RecvBegins, RecvShort, FillPacket, EchoPacket, Tail_, SaveRest, serverVars
<1>4. ASSUME EndCallback(w)
      PROVE  /\ JobShape(w)' /\ worker' = [u \in Workers |-> worker'[u]] /\ worker'[w] = Idle
             /\ \A u \in Workers \ {w} : worker'[u] = worker[u]
  <2>1. /\ worker' = [u \in Workers |-> worker'[u]] /\ worker'[w] = Idle
        /\ \A u \in Workers \ {w} : worker'[u] = worker[u]
    BY <1>1, <1>4, Becomes DEF EndCallback
  <2> QED BY <2>1 DEF JobShape, Busy, Idle, Pcs, Kinds
<1>5. ASSUME NEW c, Become(w, c), worker[w].kind = "recv",
             \E l \in {"loop", "echo", "tail"} : \E n, o, b : c = [pc |-> l, kind |-> worker[w].kind, left |-> n, off |-> o, packet |-> b]
      PROVE  /\ JobShape(w)' /\ worker' = [u \in Workers |-> worker'[u]]
             /\ worker'[w].pc \in {"loop", "echo", "tail"} /\ worker'[w].kind = worker[w].kind
             /\ \A u \in Workers \ {w} : worker'[u] = worker[u]
  <2>1. /\ worker' = [u \in Workers |-> worker'[u]] /\ worker'[w] = c
        /\ \A u \in Workers \ {w} : worker'[u] = worker[u]
    BY <1>1, <1>5, Becomes
  <2> QED BY <1>5, <2>1 DEF JobShape, Busy, Idle, Pcs, Kinds
<1>6. CASE Callback(w)
  <2>1. CASE worker[w].kind = "connect" /\ bConnect' = TRUE /\ EndCallback(w) /\ UNCHANGED <<socket, posted, exist, faults>>
    BY <1>2, <1>3, <1>4, <2>1 DEF CallbackMoves, Connects
  <2>2. CASE EndCallback(w) /\ UNCHANGED <<bConnect, socket, posted, exist, faults>>
    BY <1>2, <1>3, <1>4, <2>2 DEF CallbackMoves, GoesOnOrEnds
  <2>3. CASE worker[w].kind \in {"recv", "error"} /\ OnClose(w) /\ UNCHANGED <<posted, exist, faults>>
    <3> DEFINE c == [worker[w] EXCEPT !.pc = "hang"]
    <3>1. Become(w, c) /\ Disconnect
      BY <2>3 DEF OnClose
    <3>2. c = [pc |-> "hang", kind |-> worker[w].kind, left |-> worker[w].left,
               off |-> worker[w].off, packet |-> worker[w].packet]
      BY <1>1, Labelled
    <3> HIDE DEF c
    <3>3. /\ worker' = [u \in Workers |-> worker'[u]] /\ worker'[w] = c
          /\ \A u \in Workers \ {w} : worker'[u] = worker[u]
      BY <1>1, <3>1, Becomes
    <3>4. JobShape(w)' /\ worker'[w].pc = "hang" /\ worker'[w].kind = worker[w].kind
      BY <1>1, <2>3, <3>2, <3>3 DEF JobShape, Busy, Idle, Pcs, Kinds
    <3>5. Closes(w)
      BY <1>1, <2>3, <3>1, <3>4 DEF Closes
    <3> QED BY <1>2, <1>3, <3>3, <3>4, <3>5 DEF CallbackMoves
  <2>4. CASE worker[w].kind = "timeout" /\ PostRecv(w)
    BY <1>2, <1>3, <2>4, PostRecvMoves DEF CallbackMoves
  <2> QED BY <1>6, <2>1, <2>2, <2>3, <2>4 DEF Callback
<1>7. CASE ClientOnRecv(w)
  <2>1. worker[w].kind = "recv"
    BY <1>1, <1>7 DEF ClientOnRecv, RecvBegins, RecvShort, FillPacket, EchoPacket, Tail_, SaveRest, JobShape
  <2>2. CASE RecvShort(w) \/ SaveRest(w)
    BY <1>2, <1>3, <2>1, <2>2, PostRecvMoves DEF CallbackMoves, RecvShort, SaveRest
  <2>3. CASE RecvBegins(w) \/ FillPacket(w) \/ EchoPacket(w) \/ Tail_(w)
    <3>1. UNCHANGED <<bConnect, socket, posted, exist, faults>>
      BY <2>3 DEF RecvBegins, FillPacket, EchoPacket, Tail_, linkVars, kernelVars
    <3>2. EndCallback(w) \/ \E c : Become(w, c) /\ \E l \in {"loop", "echo", "tail"} : \E n, o, b :
                             c = [pc |-> l, kind |-> worker[w].kind, left |-> n, off |-> o, packet |-> b]
      <4> DEFINE Goes(l, n, o, b) == [pc |-> l, kind |-> worker[w].kind, left |-> n, off |-> o, packet |-> b]
      <4>1. CASE RecvBegins(w) \/ Tail_(w)
        <5>1. EndCallback(w) \/ Become(w, [worker[w] EXCEPT !.pc = "loop"])
          BY <4>1 DEF RecvBegins, Tail_
        <5>2. [worker[w] EXCEPT !.pc = "loop"] = Goes("loop", worker[w].left, worker[w].off, worker[w].packet)
          BY <1>1, Labelled
        <5> QED BY <5>1, <5>2
      <4>2. CASE FillPacket(w)
        <5> DEFINE n == recvSize - Len(vecBuffer)
                   b == Followed(vecBuffer \o SubSeq(RestOf(w), 1, n))
        <5>1. EndCallback(w) \/ Become(w, [worker[w] EXCEPT !.pc = "echo", !.left = @ - n, !.off = @ + n, !.packet = b])
          BY <4>2 DEF FillPacket
        <5> HIDE DEF n, b
        <5>2. [worker[w] EXCEPT !.pc = "echo", !.left = @ - n, !.off = @ + n, !.packet = b]
                = Goes("echo", worker[w].left - n, worker[w].off + n, b)
          BY <1>1, Filled
        <5> QED BY <5>1, <5>2
      <4>3. CASE EchoPacket(w)
        <5>1. Become(w, [worker[w] EXCEPT !.pc = "tail", !.packet = <<>>])
          BY <4>3 DEF EchoPacket
        <5>2. [worker[w] EXCEPT !.pc = "tail", !.packet = <<>>] = Goes("tail", worker[w].left, worker[w].off, <<>>)
          BY <1>1, Echoed
        <5> QED BY <5>1, <5>2
      <4> QED BY <2>3, <4>1, <4>2, <4>3
    <3>3. CASE EndCallback(w)
      BY <1>2, <1>3, <1>4, <3>1, <3>3 DEF CallbackMoves, GoesOnOrEnds
    <3>4. CASE \E c : Become(w, c) /\ \E l \in {"loop", "echo", "tail"} : \E n, o, b :
                        c = [pc |-> l, kind |-> worker[w].kind, left |-> n, off |-> o, packet |-> b]
      BY <1>2, <1>3, <1>5, <2>1, <3>1, <3>4 DEF CallbackMoves, GoesOnOrEnds
    <3> QED BY <3>2, <3>3, <3>4
  <2> QED BY <1>7, <2>2, <2>3 DEF ClientOnRecv
<1> QED BY <1>6, <1>7

-----------------------------------------------------------------------------
(* The flags.                                                               *)

LEMMA CtlInit == BoundsAssumption /\ ClientInit => CtlInv
<1> SUFFICES ASSUME BoundsAssumption, ClientInit PROVE CtlInv
  OBVIOUS
<1>1. \A w \in Workers : worker[w] = Idle
  BY DEF ClientInit
<1>2. \A w \in Workers : JobShape(w)
  BY <1>1 DEF JobShape, Busy, Idle, Pcs, Kinds
<1>3. CtlTyped
  <2>1. MaxRequests \in Nat /\ MaxFaults \in Nat
    BY DEF BoundsAssumption
  <2>2. requests \in 0 .. MaxRequests /\ sends \in 0 .. requests /\ posted \in Nat /\ faults \in 0 .. MaxFaults
    BY <2>1 DEF ClientInit
  <2>3. worker = [w \in Workers |-> worker[w]]
    BY DEF ClientInit
  <2> QED BY <1>2, <2>2, <2>3, Zenon DEF ClientInit, CtlTyped, AppLabels
<1>4. ConnectInv /\ StopInv
  BY <1>1 DEF ClientInit, ConnectInv, StopInv, Quiet, Busy, Idle
<1> QED BY <1>3, <1>4 DEF CtlInv

\* An operation that completes is gone from the kernel and becomes a callback of
\* its kind.
Completes(w, k, n) ==
  /\ worker[w] = Idle /\ worker' = [u \in Workers |-> worker'[u]]
  /\ worker'[w] = [pc |-> "queued", kind |-> k, left |-> n, off |-> 0, packet |-> <<>>]
  /\ \A u \in Workers \ {w} : worker'[u] = worker[u]
  /\ \/ /\ k \in {"recv", "timeout", "error"}
        /\ posted > 0 /\ posted' = posted - 1 /\ UNCHANGED <<connecting, sends>>
     \/ k \in {"send", "error"} /\ sends > 0 /\ sends' = sends - 1 /\ UNCHANGED <<connecting, posted>>
     \/ /\ k = "connect" /\ connecting /\ socket' = "open"
        /\ connecting' = FALSE /\ UNCHANGED <<posted, sends>>
     \/ k = "error" /\ connecting /\ connecting' = FALSE /\ UNCHANGED <<posted, sends>>
  /\ UNCHANGED <<appVars, bConnect, io, exist>>
  /\ socket' = socket \/ (socket = "bound" /\ socket' = "open")
  /\ peer' = peer /\ faults' \in 0 .. MaxFaults

LEMMA CompletionShape ==
  ASSUME BoundsAssumption, CtlInv, NEW w \in Workers, Kernel(w) \/ CompleteFailed(w)
  PROVE  \E k, n : Completes(w, k, n) /\ (CompleteRecv(w) \/ n = 0)
<1>1. worker = [u \in Workers |-> worker[u]] /\ worker[w] = Idle /\ faults \in 0 .. MaxFaults
  BY DEF CtlInv, CtlTyped, Kernel, CompleteRecv, CompleteEnd, CompleteConnect, CompleteSend, CompleteFailed
<1>2. PICK k, n : /\ Become(w, Job(k, n)) /\ (CompleteRecv(w) \/ n = 0)
                  /\ \/ /\ k \in {"recv", "timeout", "error"}
                        /\ posted > 0 /\ posted' = posted - 1 /\ UNCHANGED <<connecting, sends>>
                     \/ k \in {"send", "error"} /\ sends > 0 /\ sends' = sends - 1 /\ UNCHANGED <<connecting, posted>>
                     \/ /\ k = "connect" /\ connecting /\ socket' = "open"
                        /\ connecting' = FALSE /\ UNCHANGED <<posted, sends>>
                     \/ k = "error" /\ connecting /\ connecting' = FALSE /\ UNCHANGED <<posted, sends>>
  <2>1. CASE CompleteRecv(w)
    BY <2>1 DEF CompleteRecv
  <2>2. CASE CompleteEnd(w)
    BY <2>2 DEF CompleteEnd
  <2>3. CASE CompleteConnect(w)
    BY <2>3 DEF CompleteConnect
  <2>4. CASE CompleteSend(w)
    BY <2>4 DEF CompleteSend
  <2>5. CASE CompleteFailed(w)
    BY <2>5 DEF CompleteFailed
  <2> QED BY <2>1, <2>2, <2>3, <2>4, <2>5 DEF Kernel
<1>3. /\ UNCHANGED <<appVars, bConnect, io, exist>>
      /\ socket' = socket \/ (socket = "bound" /\ socket' = "open")
      /\ peer' = peer /\ faults' \in 0 .. MaxFaults
  <2>1. CASE Kernel(w)
    BY <1>1, <2>1 DEF Kernel, CompleteRecv, CompleteEnd, CompleteConnect, CompleteSend, appVars, linkVars, serverVars
  <2>2. CASE CompleteFailed(w)
    <3>1. UNCHANGED <<appVars, bConnect, io, exist, socket, peer>>
      BY <2>2 DEF CompleteFailed, appVars, linkVars, serverVars
    <3>2. faults' \in 0 .. MaxFaults
      BY <1>1, <2>2 DEF CompleteFailed, Fault, BoundsAssumption
    <3> QED BY <3>1, <3>2
  <2> QED BY <2>1, <2>2
<1>4. /\ worker' = [u \in Workers |-> worker'[u]] /\ worker'[w] = [pc |-> "queued", kind |-> k, left |-> n, off |-> 0, packet |-> <<>>]
      /\ \A u \in Workers \ {w} : worker'[u] = worker[u]
  BY <1>1, <1>2, Becomes, JobIs
<1> QED BY <1>1, <1>2, <1>3, <1>4 DEF Completes

LEMMA CompletionCtl ==
  ASSUME BoundsAssumption, CtlInv, NEW w \in Workers, NEW k, NEW n, Completes(w, k, n)
  PROVE  CtlInv'
<1>1. CtlTyped /\ ConnectInv /\ StopInv /\ worker = [u \in Workers |-> worker[u]] /\ worker[w] = Idle /\ ~Busy(w)
  BY DEF CtlInv, CtlTyped, Completes, Busy, Idle
<1>2. \/ k \in {"recv", "timeout", "error"} /\ posted > 0 /\ posted' = posted - 1 /\ UNCHANGED <<connecting, sends>>
      \/ k \in {"send", "error"} /\ sends > 0 /\ sends' = sends - 1 /\ UNCHANGED <<connecting, posted>>
      \/ k = "connect" /\ connecting /\ socket' = "open" /\ connecting' = FALSE /\ UNCHANGED <<posted, sends>>
      \/ k = "error" /\ connecting /\ connecting' = FALSE /\ UNCHANGED <<posted, sends>>
  BY DEF Completes
<1>3. /\ UNCHANGED <<appPc, told, requests, bConnect, io, exist>>
      /\ socket' = socket \/ (socket = "bound" /\ socket' = "open")
      /\ peer' = peer /\ faults' \in 0 .. MaxFaults
  BY DEF Completes, appVars
<1>4. /\ worker' = [u \in Workers |-> worker'[u]] /\ worker'[w] = [pc |-> "queued", kind |-> k, left |-> n, off |-> 0, packet |-> <<>>]
      /\ \A u \in Workers \ {w} : worker'[u] = worker[u]
  BY DEF Completes
<1>5. \A u \in Workers \ {w} : Busy(u)' = Busy(u) /\ worker'[u].kind = worker[u].kind
  BY <1>4 DEF Busy
<1>6. worker'[w].kind = k /\ worker'[w].pc = "queued" /\ Busy(w)'
  BY <1>4 DEF Busy
<1>7. CtlTyped'
  <2>1. JobShape(w)'
    BY <1>2, <1>4 DEF JobShape, Busy, Idle, Pcs, Kinds
  <2>2. \A u \in Workers : JobShape(u)'
    BY <1>1, <1>4, <2>1 DEF CtlTyped, JobShape, Busy
  <2>3. posted' \in Nat /\ sends' \in 0 .. requests' /\ connecting' \in BOOLEAN
    <3>1. posted \in Nat /\ sends \in 0 .. requests /\ requests \in Nat /\ connecting \in BOOLEAN
      BY <1>1 DEF CtlTyped
    <3>2. connecting' = connecting \/ connecting' = FALSE
      BY <1>2
    <3>3. connecting' \in BOOLEAN
      BY <3>1, <3>2, Zenon
    <3>4. (posted > 0 /\ posted' = posted - 1) \/ posted' = posted
      BY <1>2
    <3>5. (sends > 0 /\ sends' = sends - 1) \/ sends' = sends
      BY <1>2
    <3> QED BY <1>3, <3>1, <3>3, <3>4, <3>5
  <2>4. /\ UNCHANGED <<appPc, told, requests, bConnect, io, exist>>
        /\ socket' \in {"none", "bound", "open", "closed"} /\ peer' \in {"up", "down"}
    BY <1>1, <1>3 DEF CtlTyped
  <2> QED BY <1>1, <1>3, <1>4, <2>2, <2>3, <2>4 DEF CtlTyped
<1>8. ConnectInv'
  <2>1. CASE told = "yes"
    BY <1>1, <1>2, <1>3, <1>5, <1>6, <2>1 DEF ConnectInv, Busy
  <2>2. CASE told # "yes"
    <3>1. connecting /\ k \in {"connect", "error"} /\ (k = "connect" => socket' = "open") /\ ~connecting'
          /\ posted' = 0 /\ sends' = 0
      BY <1>1, <1>2, <2>2 DEF ConnectInv
    <3>2. ASSUME told = "none"
          PROVE  ~bConnect /\ \A u \in Workers : ~Busy(u)
      BY <1>1, <3>1, <3>2 DEF ConnectInv
    <3> QED BY <1>1, <1>3, <1>5, <1>6, <2>2, <3>1, <3>2 DEF ConnectInv, Busy
  <2> QED BY <2>1, <2>2
<1>9. StopInv'
  BY <1>1, <1>2, <1>3 DEF StopInv, Quiet
<1> QED BY <1>7, <1>8, <1>9 DEF CtlInv

\* The program's calls: each as the code makes it.
LEMMA ProgramCtl ==
  ASSUME BoundsAssumption, CtlInv, Run \/ WaitToConnect \/ PostSend \/ WsaSend \/ Stop
  PROVE  CtlInv'
<1>1. CtlTyped /\ ConnectInv /\ StopInv /\ {MaxRequests, MaxFaults} \subseteq Nat
  BY DEF CtlInv, BoundsAssumption
<1>2. worker' = worker /\ peer' = peer
  BY DEF Run, WaitToConnect, PostSend, WsaSend, Stop, serverVars
<1>3. CtlTyped'
  <2>1. \A u \in Workers : JobShape(u)'
    BY <1>1, <1>2 DEF CtlTyped, JobShape, Busy
  <2>2. /\ requests' \in 0 .. MaxRequests /\ sends' \in 0 .. requests' /\ posted' \in Nat /\ faults' \in 0 .. MaxFaults
        /\ appPc' \in {"send", "stop_recv"} => requests' < MaxRequests
    <3>1. /\ requests \in 0 .. MaxRequests /\ sends \in 0 .. requests /\ posted \in Nat /\ faults \in 0 .. MaxFaults
          /\ appPc \in {"send", "stop_recv"} => requests < MaxRequests
      BY <1>1 DEF CtlTyped
    <3>2. CASE Run \/ Stop
      BY <1>1, <3>1, <3>2 DEF Run, CreateServerSocketFails, CreateIoFails, ConnectExFails, ConnectExAtOnce, ConnectExPends, PostConnect, Fault, Stop, kernelVars
    <3>3. CASE WaitToConnect
      BY <1>1, <3>1, <3>3 DEF WaitToConnect, Fault, kernelVars
    <3>4. CASE PostSend
      <4>1. /\ requests' = requests /\ sends' = sends /\ requests < MaxRequests /\ posted' \in {posted, posted + 1}
            /\ faults' = faults \/ Fault
        BY <3>4 DEF PostSend
      <4> QED BY <1>1, <3>1, <4>1 DEF Fault
    <3>5. CASE WsaSend
      <4>1. /\ \/ requests' = requests /\ sends' = sends
               \/ requests' = requests + 1 /\ sends' = sends + 1
            /\ appPc = "send" /\ appPc' \notin {"send", "stop_recv"} /\ posted' = posted /\ (faults' = faults \/ Fault)
        BY <3>5 DEF WsaSend
      <4> QED BY <1>1, <3>1, <4>1 DEF Fault
    <3> QED BY <3>2, <3>3, <3>4, <3>5
  <2>3. appPc' \in AppLabels /\ told' \in {"none", "yes", "no"} /\ socket' \in {"none", "bound", "open", "closed"}
    <3>1. appPc \in AppLabels /\ told \in {"none", "yes", "no"} /\ socket \in {"none", "bound", "open", "closed"}
      BY <1>1 DEF CtlTyped
    <3>2. CASE Run
      BY <3>1, <3>2 DEF Run, CreateServerSocketFails, CreateIoFails, ConnectExFails, ConnectExAtOnce, ConnectExPends, PostConnect, AppLabels
    <3>3. CASE WaitToConnect \/ PostSend \/ WsaSend \/ Stop
      BY <3>1, <3>3 DEF WaitToConnect, PostSend, WsaSend, Stop, Disconnect, linkVars, AppLabels
    <3> QED BY <3>2, <3>3
  <2>4. /\ bConnect' = bConnect \/ bConnect' = FALSE
        /\ io' = io \/ io' = TRUE
        /\ exist' = exist \/ exist' = TRUE
        /\ connecting' = connecting \/ connecting' = TRUE
    BY DEF Run, CreateServerSocketFails, CreateIoFails, ConnectExFails, ConnectExAtOnce, ConnectExPends, PostConnect, WaitToConnect, PostSend, WsaSend, Stop,
           Disconnect, linkVars, kernelVars
  <2>5. {bConnect', io', exist', connecting'} \subseteq BOOLEAN
    <3>1. {bConnect, io, exist, connecting} \subseteq BOOLEAN
      BY <1>1 DEF CtlTyped
    <3> QED BY <2>4, <3>1, Zenon
  <2> QED BY <1>1, <1>2, <2>1, <2>2, <2>3, <2>5 DEF CtlTyped
<1>4. ConnectInv'
  <2> USE DEF Busy
  <2>2. CASE Run
    BY <1>1, <1>2, <2>2 DEF Run, CreateServerSocketFails, CreateIoFails, ConnectExFails, ConnectExAtOnce, ConnectExPends, PostConnect, ConnectInv, CtlTyped
  <2>3. CASE WaitToConnect
    <3>1. told = "none" /\ \A u \in Workers : ~Busy(u) => worker[u].kind = "send"
      BY <1>1, <2>3 DEF WaitToConnect, ConnectInv, CtlTyped, JobShape, Idle
    <3>2. bConnect => ~connecting /\ socket = "open" /\ \A u \in Workers : ~Busy(u)
      BY <1>1, <3>1 DEF ConnectInv
    <3> QED BY <1>1, <1>2, <2>3, <3>1, <3>2 DEF WaitToConnect, linkVars, kernelVars, ConnectInv
  <2>4. CASE PostSend
    BY <1>1, <1>2, <2>4 DEF PostSend, Disconnect, ConnectInv, CtlTyped
  <2>5. CASE WsaSend
    BY <1>1, <1>2, <2>5 DEF WsaSend, Disconnect, ConnectInv, CtlTyped
  <2>6. CASE Stop
    BY <1>1, <1>2, <2>6 DEF Stop, Disconnect, kernelVars, ConnectInv, CtlTyped
  <2> QED BY <2>2, <2>3, <2>4, <2>5, <2>6
<1>5. StopInv'
  <2>2. CASE Run
    BY <1>1, <1>2, <2>2 DEF Run, CreateServerSocketFails, CreateIoFails, ConnectExFails, ConnectExAtOnce, ConnectExPends, PostConnect, ConnectInv, StopInv, CtlTyped
  <2>3. CASE WaitToConnect
    BY <1>1, <1>2, <2>3 DEF WaitToConnect, linkVars, kernelVars, ConnectInv, StopInv, Quiet, CtlTyped
  <2>4. CASE PostSend
    BY <1>1, <1>2, <2>4 DEF PostSend, Disconnect, StopInv, Quiet, CtlTyped
  <2>5. CASE WsaSend
    BY <1>1, <1>2, <2>5 DEF WsaSend, Disconnect, StopInv, Quiet, CtlTyped
  <2>6. CASE Stop
    BY <1>1, <1>2, <2>6 DEF Stop, Disconnect, kernelVars, StopInv, Quiet, CtlTyped
  <2> QED BY <2>2, <2>3, <2>4, <2>5, <2>6
<1> QED BY <1>3, <1>4, <1>5 DEF CtlInv

\* The wait of Stop leaves nothing under way.
LEMMA StopWaitCtl ==
  ASSUME CtlInv, StopWait
  PROVE  CtlInv'
<1>1. CtlTyped /\ ConnectInv /\ StopInv
  BY DEF CtlInv
<1>2. /\ UNCHANGED <<told, requests, bConnect, socket, faults, peer>> /\ exist' \in BOOLEAN /\ io' = FALSE
      /\ appPc \in {"stop", "stop_recv", "stop_send"} /\ appPc' = IF appPc = "stop_recv" THEN "send" ELSE "stopped"
  BY <1>1 DEF StopWait, CtlTyped, serverVars
<1>3. \/ io /\ worker' = [u \in Workers |-> Idle] /\ connecting' = FALSE /\ posted' = 0 /\ sends' = 0
      \/ ~io /\ UNCHANGED <<worker, connecting, posted, sends>>
  BY DEF StopWait, WaitForCallbacks, kernelVars
<1>4. CtlTyped'
  <2>1. worker' = [u \in Workers |-> worker'[u]] /\ \A u \in Workers : JobShape(u)'
    BY <1>1, <1>3 DEF CtlTyped, JobShape, Busy, Idle, Pcs, Kinds
  <2>2. connecting' \in BOOLEAN /\ posted' \in Nat /\ sends' \in 0 .. requests
    <3>1. posted \in Nat /\ sends \in 0 .. requests /\ requests \in Nat /\ connecting \in BOOLEAN
      BY <1>1 DEF CtlTyped
    <3>2. connecting' \in BOOLEAN
      BY <1>3, <3>1, Zenon
    <3>3. (posted' = 0 /\ sends' = 0) \/ (posted' = posted /\ sends' = sends)
      BY <1>3
    <3> QED BY <3>1, <3>2, <3>3
  <2> QED BY <1>1, <1>2, <2>1, <2>2 DEF CtlTyped, AppLabels
<1>5. ConnectInv'
  BY <1>1, <1>2, <1>3 DEF ConnectInv, CtlTyped, Busy, Idle
<1>6. StopInv'
  BY <1>1, <1>2, <1>3 DEF StopInv, Quiet
<1> QED BY <1>4, <1>5, <1>6 DEF CtlInv

LEMMA CtlStep == BoundsAssumption /\ CtlInv /\ [ClientNext]_clientVars => CtlInv'
<1> SUFFICES ASSUME BoundsAssumption, CtlInv, [ClientNext]_clientVars PROVE CtlInv'
  OBVIOUS
<1>1. CASE Answer \/ PeerCloses \/ UNCHANGED clientVars
  <2>1. /\ UNCHANGED <<appVars, linkVars, kernelVars, exist, worker>> /\ peer' \in {peer, "down"} /\ faults' \in 0 .. MaxFaults
    BY <1>1 DEF Answer, PeerCloses, Fault, clientVars, serverVars, CtlInv, CtlTyped, BoundsAssumption
  <2> QED BY <2>1 DEF CtlInv, CtlTyped, JobShape, ConnectInv, StopInv, Quiet, Busy, appVars, linkVars, kernelVars
<1>2. ASSUME NEW w \in Workers, Callback(w) \/ ClientOnRecv(w)
      PROVE  CtlInv'
  BY <1>2, CallbackShape, CallbackCtl
<1>3. ASSUME NEW w \in Workers, Kernel(w) \/ CompleteFailed(w)
      PROVE  CtlInv'
  BY <1>3, CompletionShape, CompletionCtl
<1> QED BY <1>1, <1>2, <1>3, ProgramCtl, StopWaitCtl DEF ClientNext, GoesOn

-----------------------------------------------------------------------------
(* The stream.  The inductions are on the set of the numbers for which the   *)
(* statement is false: it would have a least one.                            *)

\* A packet that is sent comes behind those that were ...
Answers == [k \in 1 .. Len(lengths) |-> PacketOf(k)]

LEMMA ClientSentGrows ==
  ASSUME LengthsAssumption, BoundsAssumption, NEW l \in Lengths, lengths \in Seq(Lengths), Len(lengths) < MaxAnswers,
         lengths' = Append(lengths, l)
  PROVE  /\ Answers \in Seq(Seq(Bytes)) /\ Answers' = Append(Answers, Numbered(Len(lengths) + 1, l)) /\ l \in Nat
         /\ Numbered(Len(lengths) + 1, l) \in Seq(Bytes) /\ Len(Numbered(Len(lengths) + 1, l)) = l
<1> DEFINE n == Len(lengths)
           P == [k \in 1 .. n |-> PacketOf(k)]
           x == Numbered(n + 1, l)
<1>1. /\ n \in Nat /\ MaxAnswers \in Nat /\ l \in Nat /\ \A k \in 1 .. n : lengths[k] \in Nat
      /\ Len(lengths') = n + 1 /\ lengths'[n + 1] = l /\ \A k \in 1 .. n : lengths'[k] = lengths[k]
  BY AppendProperties DEF LengthsAssumption, BoundsAssumption
<1>2. ASSUME NEW k \in 1 .. n + 1, NEW m \in Nat
      PROVE  Numbered(k, m) \in Seq(Bytes) /\ Len(Numbered(k, m)) = m
  <2>1. \A i \in 1 .. m : <<k, i>> \in Bytes
    BY <1>1, <1>2 DEF Bytes
  <2>2. Numbered(k, m) \in [1 .. m -> Bytes]
    BY <2>1 DEF Numbered
  <2>3. Numbered(k, m) \in Seq(Bytes)
    BY <1>2, <2>2, IsASeq DEF Numbered
  <2> QED BY <1>2, <2>3 DEF Numbered
<1>3. \A k \in 1 .. n : PacketOf(k) = Numbered(k, lengths[k]) /\ k \in 1 .. n + 1
  BY <1>1 DEF PacketOf, Numbered
<1>4. P \in Seq(Seq(Bytes)) /\ Len(P) = n /\ x \in Seq(Bytes) /\ Len(x) = l
  <2>1. \A k \in 1 .. n : PacketOf(k) \in Seq(Bytes)
    BY <1>1, <1>2, <1>3
  <2>2. P \in [1 .. n -> Seq(Bytes)]
    BY <2>1
  <2>3. P \in Seq(Seq(Bytes)) /\ Len(P) = n
    BY <1>1, <2>2, IsASeq
  <2>4. n + 1 \in 1 .. n + 1
    BY <1>1
  <2> QED BY <1>1, <1>2, <2>3, <2>4
<1>5. Append(P, x) = [k \in 1 .. n + 1 |-> [i \in 1 .. lengths'[k] |-> <<k, i>>]]
  <2> DEFINE Q == [k \in 1 .. n + 1 |-> [i \in 1 .. lengths'[k] |-> <<k, i>>]]
  <2>1. Append(P, x) = [k \in 1 .. n + 1 |-> IF k = n + 1 THEN x ELSE P[k]]
    BY <1>4
  <2>2. \A k \in 1 .. n + 1 : (IF k = n + 1 THEN x ELSE P[k]) = [i \in 1 .. lengths'[k] |-> <<k, i>>]
    <3> TAKE k \in 1 .. n + 1
    <3>1. CASE k = n + 1
      BY <1>1, <3>1 DEF Numbered
    <3>2. CASE k # n + 1
      <4>1. k \in 1 .. n /\ lengths'[k] = lengths[k]
        BY <1>1, <3>2
      <4>2. P[k] = [i \in 1 .. lengths[k] |-> <<k, i>>]
        BY <4>1 DEF PacketOf
      <4> QED BY <3>2, <4>1, <4>2
    <3> QED BY <3>1, <3>2
  <2> QED BY <2>1, <2>2
<1>6. Answers' = [k \in 1 .. n + 1 |-> [i \in 1 .. lengths'[k] |-> <<k, i>>]]
  BY <1>1 DEF Answers, PacketOf
<1> HIDE DEF x
<1> QED BY <1>1, <1>4, <1>5, <1>6 DEF Answers, x

\* ... and at the end of the stream.
LEMMA StreamGrows ==
  ASSUME LengthsAssumption, BoundsAssumption, NEW l \in Lengths, lengths \in Seq(Lengths), Len(lengths) < MaxAnswers,
         lengths' = Append(lengths, l)
  PROVE  /\ ByteStream \in Seq(Bytes) /\ ByteStream' \in Seq(Bytes)
         /\ Len(ByteStream') = Len(ByteStream) + l
         /\ \A j \in 1 .. Len(ByteStream) : ByteStream'[j] = ByteStream[j]
         /\ \A i \in 1 .. l : ByteStream'[Len(ByteStream) + i] = <<Len(lengths) + 1, i>>
<1> DEFINE n == Len(lengths)
           P == Answers
           x == Numbered(n + 1, l)
<1>1. P \in Seq(Seq(Bytes)) /\ x \in Seq(Bytes) /\ Len(x) = l /\ l \in Nat /\ Answers' = Append(P, x)
  BY ClientSentGrows
<1>2. ByteStream' = FlattenSeq(Answers')
  BY DEF ByteStream, Answers
<1>3. ByteStream = FlattenSeq(P)
  BY DEF ByteStream, Answers
<1> HIDE DEF P, x
<1>4. ByteStream \in Seq(Bytes) /\ ByteStream' = ByteStream \o x
  BY <1>1, <1>2, <1>3, FlattenGrows
<1> DEFINE S == ByteStream
<1> HIDE DEF S
<1>5. /\ S \o x \in Seq(Bytes) /\ Len(S \o x) = Len(S) + l
      /\ \A j \in 1 .. Len(S) : (S \o x)[j] = S[j]
      /\ \A i \in 1 .. l : (S \o x)[Len(S) + i] = x[i]
  <2>1. S \in Seq(Bytes)
    BY <1>4 DEF S
  <2>2. /\ S \o x \in Seq(Bytes) /\ Len(S \o x) = Len(S) + Len(x)
        /\ \A j \in 1 .. Len(S) : (S \o x)[j] = S[j]
        /\ \A i \in 1 .. Len(x) : (S \o x)[Len(S) + i] = x[i]
    <3>1. x \in Seq(Bytes)
      BY <1>1
    <3> QED BY <2>1, <3>1, ConcatParts
  <2> QED BY <1>1, <2>2
<1>6. \A i \in 1 .. l : x[i] = <<n + 1, i>>
  BY DEF x, Numbered
<1> QED BY <1>4, <1>5, <1>6 DEF S

\* A byte of the stream has its packet around it, and the next packet follows.
ByteInv(j) ==
  /\ ByteStream[j] = <<ByteStream[j][1], ByteStream[j][2]>>
  /\ ByteStream[j][1] \in 1 .. Len(lengths) /\ ByteStream[j][2] \in 1 .. lengths[ByteStream[j][1]]
  /\ \A i \in 1 .. lengths[ByteStream[j][1]] :
       /\ j + i - ByteStream[j][2] \in 1 .. Len(ByteStream)
       /\ ByteStream[j + i - ByteStream[j][2]] = <<ByteStream[j][1], i>>
  /\ ByteStream[j][2] = lengths[ByteStream[j][1]] /\ j < Len(ByteStream) => ByteStream[j + 1] = <<ByteStream[j][1] + 1, 1>>

LEMMA AnswerStream ==
  ASSUME LengthsAssumption, BufferAssumption, BoundsAssumption, ClientStreamInv, Answer
  PROVE  /\ ClientStreamInv' /\ Len(lengths') = Len(lengths) + 1 /\ Len(lengths) \in Nat
         /\ \A k \in 1 .. Len(lengths) : lengths'[k] = lengths[k]
         /\ Len(ByteStream) \in Nat /\ Len(ByteStream') \in Nat /\ Len(ByteStream) <= Len(ByteStream')
         /\ \A j \in 1 .. Len(ByteStream) : ByteStream'[j] = ByteStream[j]
<1>1. PICK l \in Lengths : lengths' = Append(lengths, l)
  BY DEF Answer
<1>2. lengths \in Seq(Lengths) /\ Len(lengths) < MaxAnswers
  BY DEF ClientStreamInv, Answer
<1>3. /\ ByteStream \in Seq(Bytes) /\ ByteStream' \in Seq(Bytes)
      /\ Len(ByteStream') = Len(ByteStream) + l
      /\ \A j \in 1 .. Len(ByteStream) : ByteStream'[j] = ByteStream[j]
      /\ \A i \in 1 .. l : ByteStream'[Len(ByteStream) + i] = <<Len(lengths) + 1, i>>
  BY <1>1, <1>2, StreamGrows
<1> DEFINE n == Len(lengths)
           S == ByteStream
           T == ByteStream'
           a == Len(S)
           b == Len(T)
           f == lengths'
<1>4. /\ n \in Nat /\ f \in Seq(Lengths) /\ Len(f) = n + 1 /\ f[n + 1] = l
      /\ \A k \in 1 .. n : f[k] = lengths[k]
  BY <1>1, <1>2, AppendProperties
<1>5. l \in Nat /\ l >= 1 /\ \A k \in 1 .. n : lengths[k] \in Nat /\ lengths[k] >= 1
  BY <1>2 DEF LengthsAssumption, BufferAssumption
<1>6. a \in Nat /\ b \in Nat /\ b = a + l /\ (\A j \in 1 .. a : T[j] = S[j]) /\ \A i \in 1 .. l : T[a + i] = <<n + 1, i>>
  <2>1. Len(ByteStream) \in Nat /\ Len(ByteStream') \in Nat
    BY <1>3
  <2> HIDE DEF ClientStreamInv
  <2> QED BY <1>3, <2>1
<1>7. /\ \A j \in 1 .. a : ByteInv(j)
      /\ \A j, k \in 1 .. a : j <= k => S[j][1] <= S[k][1]
      /\ a > 0 => S[1] = <<1, 1>>
      /\ n = 0 <=> a = 0
      /\ n # 0 => S[a] = <<n, lengths[n]>>
  <2>1. n = 0 <=> lengths = <<>>
    BY <1>2
  <2>2. \A j \in 1 .. a : ByteInv(j)
    BY DEF ClientStreamInv, ByteInv
  <2>3. /\ \A j, k \in 1 .. a : j <= k => S[j][1] <= S[k][1]
        /\ a > 0 => S[1] = <<1, 1>>
        /\ lengths = <<>> => a = 0
        /\ lengths # <<>> => a > 0 /\ S[a] = <<n, lengths[n]>>
    BY DEF ClientStreamInv
  <2> QED BY <1>6, <2>1, <2>2, <2>3
<1>8. \A j \in 1 .. a : /\ S[j] = <<S[j][1], S[j][2]>> /\ S[j][1] \in 1 .. n /\ S[j][2] \in 1 .. lengths[S[j][1]]
                        /\ \A i \in 1 .. lengths[S[j][1]] :
                             j + i - S[j][2] \in 1 .. a /\ S[j + i - S[j][2]] = <<S[j][1], i>>
                        /\ S[j][2] = lengths[S[j][1]] /\ j < a => S[j + 1] = <<S[j][1] + 1, 1>>
  BY <1>7 DEF ByteInv
<1> DEFINE Whole(j) ==
      /\ T[j] = <<T[j][1], T[j][2]>>
      /\ T[j][1] \in 1 .. Len(f) /\ T[j][2] \in 1 .. f[T[j][1]]
      /\ \A i \in 1 .. f[T[j][1]] : j + i - T[j][2] \in 1 .. b /\ T[j + i - T[j][2]] = <<T[j][1], i>>
      /\ T[j][2] = f[T[j][1]] /\ j < b => T[j + 1] = <<T[j][1] + 1, 1>>
<1> HIDE DEF n, S, T, a, b, f
<1>9. ASSUME NEW j \in 1 .. a
      PROVE  Whole(j)
  <2>1. T[j] = S[j] /\ S[j][1] \in 1 .. n /\ S[j][2] \in Nat /\ f[S[j][1]] = lengths[S[j][1]]
    BY <1>4, <1>5, <1>6, <1>8, SMTT(40)
  <2>2. \A i \in 1 .. f[T[j][1]] : j + i - T[j][2] \in 1 .. b /\ T[j + i - T[j][2]] = <<T[j][1], i>>
    <3> TAKE i \in 1 .. f[T[j][1]]
    <3>1. j + i - S[j][2] \in 1 .. a /\ S[j + i - S[j][2]] = <<S[j][1], i>>
      BY <1>8, <2>1
    <3>2. j + i - S[j][2] \in 1 .. b /\ T[j + i - S[j][2]] = S[j + i - S[j][2]]
      BY <1>5, <1>6, <3>1
    <3> QED BY <2>1, <3>1, <3>2
  <2>3. ASSUME T[j][2] = f[T[j][1]], j < b
        PROVE  T[j + 1] = <<T[j][1] + 1, 1>>
    <3>1. CASE j < a
      BY <1>6, <1>8, <2>1, <2>3, <3>1
    <3>2. CASE j = a
      <4>1. n # 0 /\ S[a] = <<n, lengths[n]>>
        BY <1>4, <1>6, <1>7, <3>2
      <4> QED BY <1>5, <1>6, <2>1, <3>2, <4>1
    <3> QED BY <1>6, <3>1, <3>2
  <2>4. /\ T[j] = <<T[j][1], T[j][2]>>
        /\ T[j][1] \in 1 .. Len(f) /\ T[j][2] \in 1 .. f[T[j][1]]
    BY <1>4, <1>8, <2>1
  <2> QED BY <2>2, <2>3, <2>4
<1>10. ASSUME NEW j \in 1 .. b, j > a
       PROVE  Whole(j)
  <2>1. PICK i \in 1 .. l : j = a + i
    <3>1. j - a \in 1 .. l /\ j = a + (j - a)
      BY <1>5, <1>6, <1>10
    <3> QED BY <3>1
  <2>2. T[j] = <<n + 1, i>>
    BY <1>6, <2>1
  <2>3. \A k \in 1 .. l : j + k - i \in 1 .. b /\ T[j + k - i] = <<n + 1, k>>
    <3> TAKE k \in 1 .. l
    <3>1. j + k - i = a + k /\ a + k \in 1 .. b
      BY <1>5, <1>6, <2>1
    <3> QED BY <1>6, <3>1
  <2>4. i = l => ~(j < b)
    BY <1>6, <2>1
  <2>5. T[j][1] = n + 1 /\ T[j][2] = i /\ f[T[j][1]] = l /\ T[j][1] \in 1 .. Len(f)
    BY <1>4, <2>2
  <2>6. \A k \in 1 .. f[T[j][1]] : j + k - T[j][2] \in 1 .. b /\ T[j + k - T[j][2]] = <<T[j][1], k>>
    BY <2>3, <2>5
  <2> QED BY <2>2, <2>4, <2>5, <2>6
<1>11. \A j \in 1 .. b : Whole(j)
  <2> SUFFICES ASSUME NEW j \in 1 .. b PROVE Whole(j)
    OBVIOUS
  <2> HIDE DEF Whole
  <2>1. j \in 1 .. a \/ j > a
    BY <1>6
  <2> QED BY <1>9, <1>10, <2>1
<1>12. \A j, k \in 1 .. b : j <= k => T[j][1] <= T[k][1]
  <2>1. \A j \in 1 .. a : T[j][1] = S[j][1] /\ S[j][1] \in 1 .. n
    BY <1>6, <1>8
  <2>2. \A j \in 1 .. b : j > a => T[j][1] = n + 1
    <3> TAKE j \in 1 .. b
    <3> HAVE j > a
    <3>1. j - a \in 1 .. l /\ j = a + (j - a)
      BY <1>5, <1>6
    <3>2. T[a + (j - a)] = <<n + 1, j - a>>
      BY <1>6, <3>1
    <3> QED BY <3>1, <3>2
  <2> QED BY <1>4, <1>6, <1>7, <2>1, <2>2
<1>13. T[1] = <<1, 1>>
  BY <1>4, <1>5, <1>6, <1>7
<1>14. T[b] = <<n + 1, f[n + 1]>> /\ b > 0
  <2>1. l \in 1 .. l /\ b = a + l /\ b > 0
    BY <1>5, <1>6
  <2>2. T[a + l] = <<n + 1, l>>
    BY <1>6, <2>1
  <2> QED BY <1>4, <2>1, <2>2
<1>15. f # <<>> /\ Len(f) <= MaxAnswers
  BY <1>2, <1>4 DEF n, BoundsAssumption
<1>16. ClientStreamInv'
  BY <1>3, <1>4, <1>11, <1>12, <1>13, <1>14, <1>15 DEF ClientStreamInv, f, T, b
<1> QED BY <1>3, <1>4, <1>5, <1>6, <1>16 DEF n, f, a, S, b, T

\* After p comes the rest of the packet that is there, or the next one.
LEMMA NextBytes ==
  ASSUME ClientStreamInv, LengthsAssumption, BufferAssumption, NEW p \in Nat, NEW d \in Nat, NEW m \in Nat, At(p, d, m), p < Len(ByteStream)
  PROVE  /\ d + 1 \in 1 .. Len(lengths) /\ lengths[d + 1] \in Nat /\ m < lengths[d + 1] /\ lengths[d + 1] >= SizeLen
         /\ \A i \in 1 .. lengths[d + 1] - m : p + i \in 1 .. Len(ByteStream) /\ ByteStream[p + i] = <<d + 1, m + i>>
<1>1. /\ Len(ByteStream) \in Nat /\ Len(lengths) \in Nat
      /\ \A k \in 1 .. Len(lengths) : lengths[k] \in Nat /\ lengths[k] >= SizeLen /\ lengths[k] >= 1
  BY DEF ClientStreamInv, LengthsAssumption, BufferAssumption
<1>2. \A j \in 1 .. Len(ByteStream) : ByteInv(j)
  BY DEF ClientStreamInv, ByteInv
<1>3. CASE m = 0
  <2>1. ByteStream[p + 1] = <<d + 1, 1>> /\ p + 1 \in 1 .. Len(ByteStream)
    <3>1. CASE p = 0
      BY <1>1, <1>3, <3>1 DEF At, Ended, ClientStreamInv
    <3>2. CASE p # 0
      <4>1. ByteStream[p] = <<d, lengths[d]>> /\ p \in 1 .. Len(ByteStream)
        BY <1>1, <1>3, <3>2 DEF At, Ended
      <4>2. ByteInv(p)
        BY <1>2, <4>1
      <4> QED BY <1>1, <4>1, <4>2 DEF ByteInv
    <3> QED BY <3>1, <3>2
  <2>2. ByteInv(p + 1) /\ ByteStream[p + 1][1] = d + 1 /\ ByteStream[p + 1][2] = 1
    BY <1>2, <2>1
  <2>3. d + 1 \in 1 .. Len(lengths)
    BY <2>2 DEF ByteInv
  <2>4. \A i \in 1 .. lengths[d + 1] : (p + 1) + i - 1 \in 1 .. Len(ByteStream) /\ ByteStream[(p + 1) + i - 1] = <<d + 1, i>>
    BY <2>2 DEF ByteInv
  <2>5. /\ lengths[d + 1] \in Nat /\ lengths[d + 1] >= SizeLen /\ 0 < lengths[d + 1]
        /\ lengths[d + 1] - 0 = lengths[d + 1]
    BY <1>1, <2>3
  <2>6. ASSUME NEW i \in 1 .. lengths[d + 1]
        PROVE  p + i \in 1 .. Len(ByteStream) /\ ByteStream[p + i] = <<d + 1, 0 + i>>
    <3>1. (p + 1) + i - 1 = p + i /\ 0 + i = i
      BY <2>5
    <3> QED BY <2>4, <3>1
  <2> QED BY <1>3, <2>3, <2>5, <2>6
<1>4. CASE m # 0
  <2>1. ByteStream[p] = <<d + 1, m>> /\ p \in 1 .. Len(ByteStream) /\ m < lengths[d + 1]
    BY <1>1, <1>4 DEF At
  <2>2. ByteInv(p)
    BY <1>2, <2>1
  <2>3. d + 1 \in 1 .. Len(lengths)
    BY <2>1, <2>2 DEF ByteInv
  <2>4. \A i \in 1 .. lengths[d + 1] : p + i - m \in 1 .. Len(ByteStream) /\ ByteStream[p + i - m] = <<d + 1, i>>
    BY <2>1, <2>2 DEF ByteInv
  <2>5. ASSUME NEW i \in 1 .. lengths[d + 1] - m
        PROVE  p + i \in 1 .. Len(ByteStream) /\ ByteStream[p + i] = <<d + 1, m + i>>
    <3>1. m + i \in 1 .. lengths[d + 1] /\ p + (m + i) - m = p + i
      BY <1>1, <2>1, <2>3, SMTT(40)
    <3> QED BY <2>4, <3>1
  <2> QED BY <1>1, <2>1, <2>3, <2>5
<1> QED BY <1>3, <1>4

-----------------------------------------------------------------------------
(* What the parts of a step leave of the data.                               *)

\* A callback that ends or hangs has no bytes to handle any more.
LEMMA EndsOrHangs ==
  ASSUME CtlInv, DataTyped, BufferAssumption, NEW w \in Workers,
         EndCallback(w) \/ Become(w, [worker[w] EXCEPT !.pc = "hang"])
  PROVE  /\ ~HasBytes(w)' /\ Spans(w)'
         /\ \A u \in Workers \ {w} : worker'[u] = worker[u]
<1>1. worker = [u \in Workers |-> worker[u]] /\ JobShape(w) /\ Spans(w) /\ 0 \in Nat /\ 0 + 0 <= ClientRecvLen
  BY DEF CtlInv, CtlTyped, DataTyped, BufferAssumption
<1>2. PICK c : Become(w, c) /\ c.pc \in {"idle", "hang"} /\ c.left \in Nat /\ c.off \in Nat /\ c.left + c.off <= ClientRecvLen
  <2> DEFINE c == [worker[w] EXCEPT !.pc = "hang"]
  <2>1. CASE EndCallback(w)
    BY <1>1, <2>1 DEF EndCallback, Idle
  <2>2. CASE Become(w, c)
    <3>1. c = [pc |-> "hang", kind |-> worker[w].kind, left |-> worker[w].left,
               off |-> worker[w].off, packet |-> worker[w].packet]
      BY <1>1, Labelled
    <3> HIDE DEF c
    <3> QED BY <1>1, <2>2, <3>1 DEF Spans
  <2> QED BY <2>1, <2>2
<1>3. worker'[w] = c /\ \A u \in Workers \ {w} : worker'[u] = worker[u]
  BY <1>1, <1>2, Becomes
<1> QED BY <1>2, <1>3 DEF HasBytes, Spans

LEMMA SpansKept ==
  ASSUME DataTyped, NEW w \in Workers, \A u \in Workers \ {w} : worker'[u] = worker[u], Spans(w)'
  PROVE  \A u \in Workers : Spans(u)'
<1>1. \A u \in Workers : Spans(u)
  BY DEF DataTyped
<1> QED BY <1>1 DEF Spans

\* What the actions that put bytes away do to the callback and the socket.
LEMMA PutAway ==
  ASSUME BufferAssumption, CtlInv, DataTyped, NEW w \in Workers, PostRecv(w)
  PROVE  /\ ~HasBytes(w)' /\ (\A u \in Workers : Spans(u)')
         /\ \A u \in Workers \ {w} : worker'[u] = worker[u]
         /\ socket' # "closed" => socket # "closed"
<1>1. EndCallback(w) \/ Become(w, [worker[w] EXCEPT !.pc = "hang"])
  BY DEF PostRecv, OnClose
<1>2. ~HasBytes(w)' /\ Spans(w)' /\ \A u \in Workers \ {w} : worker'[u] = worker[u]
  BY <1>1, EndsOrHangs
<1>3. socket' # "closed" => socket # "closed"
  <2>1. socket \in {"none", "bound", "open", "closed"}
    BY DEF CtlInv, CtlTyped
  <2> QED BY <2>1 DEF PostRecv, OnClose, Disconnect
<1> QED BY <1>2, <1>3, SpansKept

\* A callback that is not of data ends or hangs.
LEMMA CallbackEnds ==
  ASSUME BoundsAssumption, BufferAssumption, CtlInv, DataTyped, NEW w \in Workers, Callback(w)
  PROVE  /\ UNCHANGED <<dataVars, lengths, taken, well>> /\ ~HasBytes(w) /\ ~HasBytes(w)'
         /\ (\A u \in Workers : Spans(u)') /\ \A u \in Workers \ {w} : worker'[u] = worker[u]
         /\ socket' # "closed" => socket # "closed"
<1>1. /\ UNCHANGED <<dataVars, lengths, taken, well>> /\ ~HasBytes(w)
      /\ EndCallback(w) \/ Become(w, [worker[w] EXCEPT !.pc = "hang"])
  <2>1. worker[w].left \in Nat
    BY DEF DataTyped, Spans
  <2> QED BY <2>1 DEF Callback, OnClose, PostRecv, serverVars, netVars, HasBytes
<1>2. ~HasBytes(w)' /\ Spans(w)' /\ \A u \in Workers \ {w} : worker'[u] = worker[u]
  BY <1>1, EndsOrHangs
<1>3. socket' # "closed" => socket # "closed"
  <2>1. socket \in {"none", "bound", "open", "closed"}
    BY DEF CtlInv, CtlTyped
  <2>2. CallbackMoves(w)
    BY CallbackShape
  <2> QED BY <2>1, <2>2 DEF CallbackMoves, GoesOnOrEnds, EndsPosting, Closes, Connects, Disconnect
<1> QED BY <1>1, <1>2, <1>3, SpansKept

\* An operation that completes without data becomes a callback without bytes.
LEMMA CompletionEmpty ==
  ASSUME BufferAssumption, CtlInv, DataTyped, NEW w \in Workers,
         CompleteEnd(w) \/ CompleteConnect(w) \/ CompleteSend(w) \/ CompleteFailed(w)
  PROVE  /\ UNCHANGED <<dataVars, lengths, taken, well>> /\ ~HasBytes(w) /\ ~HasBytes(w)'
         /\ (\A u \in Workers : Spans(u)') /\ \A u \in Workers \ {w} : worker'[u] = worker[u]
         /\ socket' # "closed" => socket # "closed"
<1>1. UNCHANGED <<dataVars, lengths, taken, well>>
  BY DEF CompleteEnd, CompleteConnect, CompleteSend, CompleteFailed, serverVars, netVars
<1>2. /\ worker[w] = Idle /\ worker = [u \in Workers |-> worker[u]]
      /\ \E k : Become(w, Job(k, 0))
      /\ socket' # "closed" => socket # "closed"
  BY DEF CompleteEnd, CompleteConnect, CompleteSend, CompleteFailed, linkVars, CtlInv, CtlTyped
<1>3. /\ ~HasBytes(w) /\ ~HasBytes(w)' /\ worker'[w].left = 0 /\ worker'[w].off = 0
      /\ \A u \in Workers \ {w} : worker'[u] = worker[u]
  <2>1. PICK k : Become(w, Job(k, 0))
    BY <1>2
  <2>2. worker'[w] = [pc |-> "queued", kind |-> k, left |-> 0, off |-> 0, packet |-> <<>>]
    BY <1>2, <2>1, Becomes, JobIs
  <2>3. \A u \in Workers \ {w} : worker'[u] = worker[u]
    BY <1>2, <2>1, Becomes
  <2> QED BY <1>2, <2>2, <2>3 DEF HasBytes, Idle
<1>4. Spans(w)'
  BY <1>3 DEF Spans, BufferAssumption
<1> QED BY <1>1, <1>2, <1>3, <1>4, SpansKept

\* The steps of the program and of the peer leave the callbacks as they are, or
\* there are none any more.
LEMMA ProgramLeaves ==
  ASSUME BufferAssumption, CtlInv, DataTyped, Run \/ GoesOn \/ PostSend \/ Stop \/ PeerCloses \/ UNCHANGED clientVars
  PROVE  /\ UNCHANGED <<dataVars, lengths, taken, well>> /\ (\A w \in Workers : Spans(w)')
         /\ \A w \in Workers : HasBytes(w)' => HasBytes(w) /\ worker'[w] = worker[w]
         /\ socket' # "closed" => socket # "closed" /\ \A w \in Workers : HasBytes(w) => HasBytes(w)'
<1>1. UNCHANGED <<dataVars, lengths, taken, well>>
  BY DEF Run, GoesOn, WaitToConnect, WsaSend, StopWait, PostSend, Stop, PeerCloses, clientVars, serverVars, netVars
<1>2. socket' # "closed" => socket # "closed"
  <2>1. socket \in {"none", "bound", "open", "closed"} /\ ConnectInv
    BY DEF CtlInv, CtlTyped
  <2>2. CASE Run
    <3>1. socket = "none"
      BY <2>1, <2>2 DEF Run, ConnectInv
    <3> QED BY <3>1
  <2>3. CASE GoesOn \/ PostSend \/ Stop \/ PeerCloses \/ UNCHANGED clientVars
    BY <2>1, <2>3 DEF GoesOn, WaitToConnect, WsaSend, StopWait, PostSend, Stop, PeerCloses, clientVars, linkVars, Disconnect
  <2> QED BY <2>2, <2>3
<1>3. CASE worker' = worker
  BY <1>1, <1>2, <1>3 DEF HasBytes, DataTyped, Spans
<1>4. CASE StopWait /\ worker' = [w \in Workers |-> Idle]
  <2>1. socket' = socket /\ appPc \in {"stop", "stop_recv", "stop_send"}
    BY <1>4 DEF StopWait
  <2>2. socket' # "closed" => \A w \in Workers : ~HasBytes(w)
    <3>1. socket' # "closed" => told # "yes"
      BY <2>1 DEF CtlInv, ConnectInv, StopInv
    <3> QED BY <3>1 DEF CtlInv, ConnectInv, HasBytes, Busy
  <2>3. \A w \in Workers : worker'[w] = Idle /\ ~HasBytes(w)' /\ Spans(w)'
    BY <1>4 DEF HasBytes, Idle, Spans, BufferAssumption
  <2> QED BY <1>1, <1>2, <2>2, <2>3
<1>5. worker' = worker \/ (StopWait /\ worker' = [w \in Workers |-> Idle])
  BY DEF Run, GoesOn, WaitToConnect, WsaSend, StopWait, WaitForCallbacks, PostSend, Stop, PeerCloses, clientVars
<1> QED BY <1>3, <1>4, <1>5

\* While all is well one callback at a time has bytes.
LEMMA ReceivesStep ==
  ASSUME BoundsAssumption, BufferAssumption, CtlInv, DataInv, [ClientNext]_clientVars, well'
  PROVE  well /\ OneReceive'
<1>1. well
  BY DEF ClientNext, Run, GoesOn, WaitToConnect, WsaSend, StopWait, PostSend, Stop, Answer, PeerCloses, Kernel, CompleteRecv,
         CompleteEnd, CompleteConnect, CompleteSend, CompleteFailed, Callback, ClientOnRecv, RecvBegins, RecvShort, FillPacket,
         EchoPacket, Tail_, SaveRest, clientVars, netVars
<1>2. OneReceive /\ DataTyped
  BY <1>1 DEF DataInv
<1>3. ASSUME \A u \in Workers : HasBytes(u)' => HasBytes(u)
      PROVE  OneReceive'
  BY <1>2, <1>3 DEF OneReceive
<1>4. CASE Run \/ GoesOn \/ PostSend \/ Stop \/ PeerCloses \/ UNCHANGED clientVars
  BY <1>1, <1>2, <1>3, <1>4, ProgramLeaves
<1>5. CASE Answer
  <2>1. worker' = worker
    BY <1>5 DEF Answer
  <2>2. \A u \in Workers : HasBytes(u)' => HasBytes(u)
    BY <2>1 DEF HasBytes
  <2> QED BY <1>1, <1>3, <2>2
<1>6. ASSUME NEW w \in Workers, CompleteRecv(w)
      PROVE  OneReceive'
  <2>1. (\A u \in Workers : ~HasBytes(u)) /\ \E n : Become(w, Job("recv", n))
    BY <1>6 DEF CompleteRecv
  <2>2. \A u \in Workers \ {w} : ~HasBytes(u)'
    BY <2>1, Becomes DEF HasBytes, CtlInv, CtlTyped
  <2> QED BY <2>2 DEF OneReceive
<1>7. ASSUME NEW w \in Workers, \A u \in Workers \ {w} : worker'[u] = worker[u], HasBytes(w)' => HasBytes(w)
      PROVE  OneReceive'
  BY <1>3, <1>7 DEF HasBytes
<1>8. ASSUME NEW w \in Workers, CompleteEnd(w) \/ CompleteConnect(w) \/ CompleteSend(w) \/ CompleteFailed(w)
      PROVE  OneReceive'
  BY <1>2, <1>7, <1>8, CompletionEmpty
<1>9. ASSUME NEW w \in Workers, Callback(w)
      PROVE  OneReceive'
  BY <1>2, <1>7, <1>9, CallbackEnds
<1>10. ASSUME NEW w \in Workers, ClientOnRecv(w)
       PROVE  OneReceive'
  <2>1. HasBytes(w)
    BY <1>10 DEF ClientOnRecv, RecvBegins, RecvShort, FillPacket, EchoPacket, Tail_, SaveRest, HasBytes, CtlInv, CtlTyped, JobShape
  <2>2. \A u \in Workers \ {w} : worker'[u] = worker[u]
    BY <1>10, CallbackShape DEF CallbackMoves
  <2> QED BY <1>7, <2>1, <2>2
<1> QED BY <1>1, <1>4, <1>5, <1>6, <1>8, <1>9, <1>10 DEF ClientNext, Kernel

-----------------------------------------------------------------------------
(* The types of the data.                                                    *)

\* The bytes of a callback that are left are bytes of _RecvBuffer.
LEMMA RestTyped ==
  ASSUME BufferAssumption, DataTyped, NEW w \in Workers
  PROVE  /\ RestOf(w) \in Seq(Bytes) /\ Len(RestOf(w)) = worker[w].left
         /\ \A i \in 1 .. worker[w].left : RestOf(w)[i] = recvBuffer[worker[w].off + i]
<1> DEFINE l == worker[w].left
           o == worker[w].off
           B == recvBuffer
<1>1. /\ l \in Nat /\ o \in Nat /\ l + o <= ClientRecvLen /\ ClientRecvLen \in Nat
      /\ \A i \in 1 .. ClientRecvLen : B[i] \in Bytes
  BY DEF DataTyped, Spans, BufferAssumption
<1>2. RestOf(w) = SubSeq(B, o + 1, o + l)
  BY DEF RestOf
<1> HIDE DEF l, o, B
<1>3. \A i \in o + 1 .. o + l : B[i] \in Bytes
  BY <1>1
<1>4. o + 1 \in Int /\ o + l \in Int
  BY <1>1
<1>5. SubSeq(B, o + 1, o + l) \in Seq(Bytes)
  BY <1>3, <1>4, SubSeqProperties
<1>6. Len(SubSeq(B, o + 1, o + l)) = l
  BY <1>1, <1>3, <1>4, SubSeqProperties
<1>7. \A i \in 1 .. l : SubSeq(B, o + 1, o + l)[i] = B[o + i]
  <2> TAKE i \in 1 .. l
  <2>1. i \in 1 .. (o + l) - (o + 1) + 1 /\ (o + 1) + i - 1 = o + i
    BY <1>1
  <2> QED BY <1>3, <1>4, <2>1, SubSeqProperties
<1> QED BY <1>2, <1>5, <1>6, <1>7 DEF l, o, B

LEMMA FollowedTyped ==
  ASSUME NEW s \in Seq(Bytes)
  PROVE  Followed(s) \in Seq(Bytes)
<1>1. CASE well
  BY <1>1 DEF Followed
<1>2. CASE ~well
  <2>1. Followed(s) = [i \in 1 .. Len(s) |-> NoByte] /\ NoByte \in Bytes /\ Len(s) \in Nat
    BY <1>2 DEF Followed, Bytes
  <2> QED BY <2>1, IsASeq
<1> QED BY <1>1, <1>2

\* What _RecvBuffer begins with, byte by byte.
LEMMA StartIs ==
  ASSUME BufferAssumption, DataTyped
  PROVE  /\ \A i \in 1 .. SizeLen : SubSeq(recvBuffer, 1, SizeLen)[i] = recvBuffer[i]
         /\ 1 \in 1 .. SizeLen /\ \A i \in 1 .. SizeLen : i \in 1 .. ClientRecvLen
<1>1. /\ SizeLen \in Nat /\ SizeLen > 0 /\ SizeLen <= ClientRecvLen /\ ClientRecvLen \in Nat
      /\ \A i \in 1 .. ClientRecvLen : recvBuffer[i] \in Bytes
  BY DEF DataTyped, BufferAssumption
<1>2. \A i \in 1 .. SizeLen : recvBuffer[i] \in Bytes
  BY <1>1
<1>3. \A i \in 1 .. SizeLen - 1 + 1 : SubSeq(recvBuffer, 1, SizeLen)[i] = recvBuffer[1 + i - 1]
  BY <1>1, <1>2, SubSeqProperties
<1>4. SizeLen - 1 + 1 = SizeLen /\ \A i \in 1 .. SizeLen : 1 + i - 1 = i
  BY <1>1
<1> QED BY <1>1, <1>3, <1>4

LEMMA SizesTyped ==
  ASSUME LengthsAssumption, BufferAssumption, NumbersAssumption, ClientStreamInv, DataTyped
  PROVE  SizesAtStart \subseteq Nat
<1> DEFINE start == SubSeq(recvBuffer, 1, SizeLen)
           k == start[1][1]
<1>1. k \in 0 .. Len(lengths)
  BY StartIs DEF DataTyped
<1>2. ASSUME k > 0
      PROVE  lengths[k] \in Nat
  <2> HIDE DEF k
  <2>1. k \in 1 .. Len(lengths)
    BY <1>1, <1>2 DEF ClientStreamInv
  <2> QED BY <2>1 DEF ClientStreamInv, LengthsAssumption
<1> HIDE DEF k, start
<1>3. SizesAtStart = IF k > 0 /\ \A i \in 1 .. SizeLen : start[i] = <<k, i>> THEN {lengths[k]}
                     ELSE IF \A i \in 1 .. SizeLen : start[i] = NoByte THEN {0} ELSE Numbers
  BY DEF SizesAtStart, k, start
<1>4. Numbers \subseteq Nat
  BY DEF NumbersAssumption
<1>5. CASE k > 0 /\ \A i \in 1 .. SizeLen : start[i] = <<k, i>>
  BY <1>2, <1>3, <1>5
<1>6. CASE ~(k > 0 /\ \A i \in 1 .. SizeLen : start[i] = <<k, i>>)
  <2>1. SizesAtStart = {0} \/ SizesAtStart = Numbers
    BY <1>3, <1>6
  <2>2. {0} \subseteq Nat
    OBVIOUS
  <2> QED BY <1>4, <2>1, <2>2, Zenon
<1> QED BY <1>5, <1>6

\* The size of a packet whose head is there.
LEMMA SizesAre ==
  ASSUME BufferAssumption, DataTyped, NEW k \in Nat, k > 0, \A i \in 1 .. SizeLen : recvBuffer[i] = <<k, i>>
  PROVE  SizesAtStart = {lengths[k]}
<1> DEFINE start == SubSeq(recvBuffer, 1, SizeLen)
<1>1. \A i \in 1 .. SizeLen : start[i] = <<k, i>>
  BY StartIs
<1>2. start[1][1] = k
  <2> HIDE DEF start
  <2>1. start[1] = <<k, 1>>
    BY <1>1, StartIs
  <2> QED BY <2>1
<1> HIDE DEF start
<1>3. SizesAtStart = IF start[1][1] > 0 /\ \A i \in 1 .. SizeLen : start[i] = <<start[1][1], i>> THEN {lengths[start[1][1]]}
                     ELSE IF \A i \in 1 .. SizeLen : start[i] = NoByte THEN {0} ELSE Numbers
  BY DEF SizesAtStart, start
<1> QED BY <1>1, <1>2, <1>3

LEMMA ZerosTyped ==
  ASSUME BufferAssumption, lengths \in Seq(Lengths)
  PROVE  /\ Zeros \in [1 .. ClientRecvLen -> Bytes] /\ Zeros \in Seq(Bytes)
         /\ \A i \in 1 .. ClientRecvLen : Zeros[i][1] \in 0 .. Len(lengths)
<1>1. NoByte \in Bytes /\ NoByte[1] = 0 /\ 0 \in 0 .. Len(lengths) /\ ClientRecvLen \in Nat
  BY DEF NoByte, Bytes, BufferAssumption
<1>2. Zeros \in [1 .. ClientRecvLen -> Bytes] /\ \A i \in 1 .. ClientRecvLen : Zeros[i] = NoByte
  BY <1>1 DEF Zeros
<1>3. Zeros \in Seq(Bytes)
  BY <1>1, IsASeq DEF Zeros
<1> QED BY <1>1, <1>2, <1>3

LEMMA StreamStep ==
  ASSUME LengthsAssumption, BufferAssumption, BoundsAssumption, ClientStreamInv, [ClientNext]_clientVars
  PROVE  ClientStreamInv'
<1>1. CASE Answer
  BY <1>1, AnswerStream
<1>2. CASE UNCHANGED lengths
  <2>1. ByteStream' = ByteStream
    BY <1>2 DEF ByteStream, PacketOf
  <2> QED BY <1>2, <2>1 DEF ClientStreamInv
<1>3. Answer \/ UNCHANGED lengths
  BY DEF ClientNext, Run, GoesOn, WaitToConnect, WsaSend, StopWait, PostSend, Stop, PeerCloses, Kernel, CompleteRecv,
         CompleteEnd, CompleteConnect, CompleteSend, CompleteFailed, Callback, ClientOnRecv, RecvBegins, RecvShort, FillPacket,
         EchoPacket, Tail_, SaveRest, clientVars, serverVars
<1> QED BY <1>1, <1>2, <1>3

\* What a step has to keep of the types, without new bytes of the stream.
LEMMA TypesKept ==
  ASSUME BufferAssumption, ClientStreamInv, DataTyped, UNCHANGED <<lengths, taken, well>>, recvBuffer' \in {recvBuffer, Zeros},
         recvSize' \in Nat, vecBuffer' \in Seq(Bytes), echoed' \in Seq(Seq(Bytes)), \A w \in Workers : Spans(w)'
  PROVE  DataTyped'
<1>1. ByteStream' = ByteStream
  BY DEF ByteStream, PacketOf
<1>2. /\ recvBuffer' \in [1 .. ClientRecvLen -> Bytes]
      /\ \A i \in 1 .. ClientRecvLen : recvBuffer'[i][1] \in 0 .. Len(lengths)
  <2>1. CASE recvBuffer' = recvBuffer
    BY <2>1 DEF DataTyped
  <2>2. CASE recvBuffer' = Zeros
    BY <2>2, ZerosTyped DEF ClientStreamInv
  <2> QED BY <2>1, <2>2
<1>3. taken' \in 0 .. Len(ByteStream')
  BY <1>1 DEF DataTyped
<1>4. well' \in BOOLEAN
  BY Zenon DEF DataTyped
<1> QED BY <1>2, <1>3, <1>4 DEF DataTyped

LEMMA RecvTypes ==
  ASSUME BufferAssumption, CtlInv, ClientStreamInv, DataTyped, NEW w \in Workers, CompleteRecv(w)
  PROVE  DataTyped'
<1>1. PICK n \in 1 .. ClientRecvLen :
        /\ taken + n <= Len(ByteStream) /\ taken' = taken + n /\ Become(w, Job("recv", n))
        /\ recvBuffer' = [i \in 1 .. ClientRecvLen |-> IF i <= n THEN ByteStream[taken + i] ELSE recvBuffer[i]]
        /\ well' = (well /\ CutWell(n) /\ \A u \in Workers : ~HasBytes(u))
  BY DEF CompleteRecv
<1>2. UNCHANGED <<vecBuffer, recvSize, echoed, lengths>> /\ worker = [u \in Workers |-> worker[u]]
  BY DEF CompleteRecv, serverVars, CtlInv, CtlTyped
<1>3. ByteStream' = ByteStream
  BY <1>2 DEF ByteStream, PacketOf
<1>4. ClientRecvLen \in Nat /\ taken \in Nat /\ Len(ByteStream) \in Nat /\ n \in Nat /\ Len(lengths) \in Nat
  BY DEF BufferAssumption, DataTyped, ClientStreamInv
<1>5. \A i \in 1 .. ClientRecvLen : recvBuffer'[i] \in Bytes /\ recvBuffer'[i][1] \in 0 .. Len(lengths)
  <2> TAKE i \in 1 .. ClientRecvLen
  <2>1. CASE i <= n
    <3>1. taken + i \in 1 .. Len(ByteStream)
      BY <1>1, <1>4, <2>1
    <3>2. ByteStream[taken + i] \in Bytes /\ ByteStream[taken + i][1] \in 1 .. Len(lengths)
      BY <3>1 DEF ClientStreamInv
    <3>3. recvBuffer'[i] = ByteStream[taken + i]
      BY <1>1, <2>1
    <3> QED BY <1>4, <3>2, <3>3
  <2>2. CASE ~(i <= n)
    BY <1>1, <2>2 DEF DataTyped
  <2> QED BY <2>1, <2>2
<1>6. recvBuffer' \in [1 .. ClientRecvLen -> Bytes]
  <2>1. recvBuffer' = [i \in 1 .. ClientRecvLen |-> recvBuffer'[i]]
    BY <1>1
  <2> QED BY <1>5, <2>1
<1>7. /\ worker'[w] = [pc |-> "queued", kind |-> "recv", left |-> n, off |-> 0, packet |-> <<>>]
      /\ \A u \in Workers \ {w} : worker'[u] = worker[u]
  BY <1>1, <1>2, Becomes, JobIs
<1>8. \A u \in Workers : Spans(u)'
  <2>1. Spans(w)'
    BY <1>1, <1>4, <1>7 DEF Spans
  <2> QED BY <1>7, <2>1, SpansKept
<1>9. taken' \in 0 .. Len(ByteStream') /\ well' \in BOOLEAN
  BY <1>1, <1>3, <1>4
<1> QED BY <1>2, <1>5, <1>6, <1>8, <1>9 DEF DataTyped

LEMMA OnRecvTypes ==
  ASSUME LengthsAssumption, BufferAssumption, NumbersAssumption, BoundsAssumption, CtlInv, DataInv,
         NEW w \in Workers, ClientOnRecv(w)
  PROVE  DataTyped'
<1>1. ClientStreamInv /\ DataTyped /\ JobShape(w) /\ Spans(w) /\ worker = [u \in Workers |-> worker[u]]
  BY DEF DataInv, DataTyped, CtlInv, CtlTyped
<1>2. UNCHANGED <<lengths, taken, well>>
  BY DEF ClientOnRecv, RecvBegins, RecvShort, FillPacket, EchoPacket, Tail_, SaveRest, serverVars, netVars
<1>3. vecBuffer \in Seq(Bytes) /\ recvSize \in Nat /\ echoed \in Seq(Seq(Bytes)) /\ SizesAtStart \subseteq Nat
  BY <1>1, SizesTyped DEF DataTyped
<1>4. \A u \in Workers \ {w} : worker'[u] = worker[u]
  BY CallbackShape DEF CallbackMoves
<1>5. CASE RecvBegins(w) \/ Tail_(w)
  <2>1. UNCHANGED <<recvBuffer, vecBuffer, echoed>> /\ recvSize' \in Nat
    BY <1>3, <1>5 DEF RecvBegins, Tail_
  <2>2. Spans(w)'
    <3>1. CASE EndCallback(w)
      BY <1>1, <3>1, EndsOrHangs
    <3>2. CASE Become(w, [worker[w] EXCEPT !.pc = "loop"])
      <4>1. worker'[w] = [worker[w] EXCEPT !.pc = "loop"]
        BY <1>1, <3>2, Becomes
      <4>2. worker'[w].left = worker[w].left /\ worker'[w].off = worker[w].off
        BY <1>1, <4>1, Labelled
      <4> QED BY <1>1, <4>2 DEF Spans
    <3> QED BY <1>5, <3>1, <3>2 DEF RecvBegins, Tail_
  <2>3. \A u \in Workers : Spans(u)'
    BY <1>1, <1>4, <2>2, SpansKept
  <2> QED BY <1>1, <1>2, <1>3, <2>1, <2>3, TypesKept
<1>6. CASE RecvShort(w) \/ SaveRest(w)
  <2>1. PostRecv(w) /\ vecBuffer' = Followed(vecBuffer \o RestOf(w)) /\ UNCHANGED <<recvSize, echoed>> /\ recvBuffer' \in {recvBuffer, Zeros}
    BY <1>6 DEF RecvShort, SaveRest
  <2>2. vecBuffer \o RestOf(w) \in Seq(Bytes)
    <3>1. RestOf(w) \in Seq(Bytes)
      BY <1>1, RestTyped
    <3> QED BY <1>3, <3>1, ConcatParts
  <2>3. vecBuffer' \in Seq(Bytes)
    BY <2>1, <2>2, FollowedTyped
  <2>4. \A u \in Workers : Spans(u)'
    BY <1>1, <2>1, PutAway
  <2> QED BY <1>1, <1>2, <1>3, <2>1, <2>3, <2>4, TypesKept
<1>7. CASE FillPacket(w)
  <2> DEFINE n == recvSize - Len(vecBuffer)
             b == Followed(vecBuffer \o SubSeq(RestOf(w), 1, n))
  <2>1. UNCHANGED <<recvBuffer, recvSize, echoed>> /\ worker[w].left + Len(vecBuffer) >= recvSize
    BY <1>7 DEF FillPacket
  <2>2. CASE EndCallback(w) /\ vecBuffer' = Followed(vecBuffer \o Zeros)
    <3>1. vecBuffer \o Zeros \in Seq(Bytes)
      BY <1>1, <1>3, ZerosTyped, ConcatParts DEF ClientStreamInv
    <3>2. vecBuffer' \in Seq(Bytes)
      BY <2>2, <3>1, FollowedTyped
    <3>3. \A u \in Workers : Spans(u)'
      BY <1>1, <1>4, <2>2, EndsOrHangs, SpansKept
    <3> QED BY <1>1, <1>2, <1>3, <2>1, <3>2, <3>3, TypesKept
  <2>3. CASE /\ ~(n < 0) /\ vecBuffer' = <<>>
             /\ Become(w, [worker[w] EXCEPT !.pc = "echo", !.left = @ - n, !.off = @ + n, !.packet = b])
    <3>1. worker'[w].left = worker[w].left - n /\ worker'[w].off = worker[w].off + n
      <4> HIDE DEF n, b
      <4>1. worker'[w] = [worker[w] EXCEPT !.pc = "echo", !.left = @ - n, !.off = @ + n, !.packet = b]
        BY <1>1, <2>3, Becomes
      <4>2. [worker[w] EXCEPT !.pc = "echo", !.left = @ - n, !.off = @ + n, !.packet = b]
              = [pc |-> "echo", kind |-> worker[w].kind, left |-> worker[w].left - n,
                 off |-> worker[w].off + n, packet |-> b]
        BY <1>1, Filled
      <4> QED BY <4>1, <4>2
    <3>2. Spans(w)'
      <4> DEFINE l == worker[w].left
                 o == worker[w].off
                 m == Len(vecBuffer)
      <4> HIDE DEF l, o, m
      <4>1. l \in Nat /\ o \in Nat /\ l + o <= ClientRecvLen /\ m \in Nat /\ recvSize \in Nat /\ l + m >= recvSize /\ ClientRecvLen \in Nat
        BY <1>1, <1>3, <2>1 DEF l, o, m, Spans, BufferAssumption
      <4>2. ~(recvSize - m < 0) /\ worker'[w].left = l - (recvSize - m) /\ worker'[w].off = o + (recvSize - m)
        BY <2>3, <3>1 DEF l, o, m
      <4> QED BY <4>1, <4>2 DEF Spans
    <3>3. \A u \in Workers : Spans(u)'
      BY <1>1, <1>4, <3>2, SpansKept
    <3>4. vecBuffer' \in Seq(Bytes)
      BY <2>3
    <3> HIDE DEF n, b
    <3> QED BY <1>1, <1>2, <1>3, <2>1, <3>3, <3>4, TypesKept
  <2> QED BY <1>7, <2>2, <2>3 DEF FillPacket
<1>8. CASE EchoPacket(w)
  <2>1. UNCHANGED <<recvBuffer, vecBuffer, recvSize>> /\ Become(w, [worker[w] EXCEPT !.pc = "tail", !.packet = <<>>])
    BY <1>8 DEF EchoPacket
  <2>2. worker'[w].left = worker[w].left /\ worker'[w].off = worker[w].off
    <3>1. worker'[w] = [worker[w] EXCEPT !.pc = "tail", !.packet = <<>>]
      BY <1>1, <2>1, Becomes
    <3>2. [worker[w] EXCEPT !.pc = "tail", !.packet = <<>>] =
            [pc |-> "tail", kind |-> worker[w].kind, left |-> worker[w].left, off |-> worker[w].off, packet |-> <<>>]
      BY <1>1, Echoed
    <3> QED BY <3>1, <3>2
  <2>3. \A u \in Workers : Spans(u)'
    <3>1. Spans(w)'
      BY <1>1, <2>2 DEF Spans
    <3> QED BY <1>1, <1>4, <3>1, SpansKept
  <2>4. echoed' \in Seq(Seq(Bytes))
    <3>1. CASE ~well
      BY <1>3, <1>8, <3>1 DEF EchoPacket
    <3>2. CASE well
      <4> DEFINE k == Heard + 1
      <4>1. HasBytes(w) /\ worker[w].pc = "echo"
        BY <1>1, <1>8 DEF EchoPacket, JobShape, HasBytes
      <4>2. Heard < Len(lengths) /\ worker[w].packet = PacketOf(k)
        BY <3>2, <4>1 DEF DataInv, ClientHandInv, Place
      <4>3. /\ Heard \in Nat /\ Len(lengths) \in Nat /\ Len(lengths) <= MaxAnswers /\ MaxAnswers \in Nat
            /\ \A j \in 1 .. Len(lengths) : lengths[j] \in Nat
        BY <1>1, <1>3 DEF Heard, ClientStreamInv, LengthsAssumption, BoundsAssumption
      <4>4. k \in 1 .. Len(lengths) /\ k \in 1 .. MaxAnswers /\ lengths[k] \in Nat
        BY <4>2, <4>3
      <4> HIDE DEF k
      <4>5. \A i \in 1 .. lengths[k] : <<k, i>> \in Bytes
        BY <4>4 DEF Bytes
      <4>6. PacketOf(k) \in Seq(Bytes)
        BY <4>4, <4>5, IsASeq DEF PacketOf
      <4>7. echoed' = Append(echoed, PacketOf(k))
        BY <1>8, <3>2, <4>2 DEF EchoPacket
      <4> QED BY <1>3, <4>6, <4>7
    <3> QED BY <3>1, <3>2
  <2> QED BY <1>1, <1>2, <1>3, <2>1, <2>3, <2>4, TypesKept
<1> QED BY <1>5, <1>6, <1>7, <1>8 DEF ClientOnRecv

LEMMA TypesStep ==
  ASSUME LengthsAssumption, BufferAssumption, NumbersAssumption, BoundsAssumption, CtlInv, DataInv, [ClientNext]_clientVars
  PROVE  DataTyped'
<1>1. ClientStreamInv /\ DataTyped
  BY DEF DataInv
<1>2. ASSUME UNCHANGED <<dataVars, lengths, taken, well>>, \A w \in Workers : Spans(w)'
      PROVE  DataTyped'
  <2>1. UNCHANGED <<recvBuffer, vecBuffer, recvSize, echoed, lengths, taken, well>>
    BY <1>2 DEF dataVars
  <2>2. recvSize' \in Nat /\ vecBuffer' \in Seq(Bytes) /\ echoed' \in Seq(Seq(Bytes))
    BY <1>1, <2>1 DEF DataTyped
  <2> QED BY <1>1, <1>2, <2>1, <2>2, TypesKept
<1>3. CASE Run \/ GoesOn \/ PostSend \/ Stop \/ PeerCloses \/ UNCHANGED clientVars
  BY <1>1, <1>2, <1>3, ProgramLeaves
<1>4. CASE Answer
  <2>1. UNCHANGED <<recvBuffer, vecBuffer, recvSize, echoed, taken, worker, well>>
    BY <1>4 DEF Answer, dataVars, netVars
  <2>2. Len(lengths') = Len(lengths) + 1 /\ Len(lengths) \in Nat /\ Len(ByteStream) \in Nat /\ Len(ByteStream') \in Nat /\ Len(ByteStream) <= Len(ByteStream')
    BY <1>1, <1>4, AnswerStream
  <2>3. well' \in BOOLEAN /\ \A w \in Workers : Spans(w)'
    BY <1>1, <2>1, Zenon DEF DataTyped, Spans
  <2>4. taken' \in 0 .. Len(ByteStream')
    BY <1>1, <2>1, <2>2 DEF DataTyped
  <2>5. \A i \in 1 .. ClientRecvLen : recvBuffer'[i][1] \in 0 .. Len(lengths')
    BY <1>1, <2>1, <2>2 DEF DataTyped
  <2> QED BY <1>1, <2>1, <2>3, <2>4, <2>5 DEF DataTyped
<1>5. ASSUME NEW w \in Workers, Kernel(w) \/ CompleteFailed(w)
      PROVE  DataTyped'
  BY <1>1, <1>2, <1>5, RecvTypes, CompletionEmpty DEF Kernel
<1>6. ASSUME NEW w \in Workers, Callback(w)
      PROVE  DataTyped'
  BY <1>1, <1>2, <1>6, CallbackEnds
<1> QED BY <1>3, <1>4, <1>5, <1>6, OnRecvTypes DEF ClientNext

-----------------------------------------------------------------------------
(* What is where, while all is well.                                         *)

\* Steps that leave the data alone.
LEMMA DataStays ==
  ASSUME WellInv, UNCHANGED <<dataVars, lengths, taken>>,
         \A w \in Workers : HasBytes(w)' => HasBytes(w) /\ worker'[w] = worker[w],
         socket' # "closed" => socket # "closed" /\ \A w \in Workers : HasBytes(w) => HasBytes(w)'
  PROVE  ClientHandInv'
<1>1. ByteStream' = ByteStream /\ lengths' = lengths /\ taken' = taken /\ UNCHANGED <<recvBuffer, vecBuffer, recvSize, echoed>>
  BY DEF ByteStream, PacketOf, dataVars
<1>2. ASSUME NEW w \in Workers, HasBytes(w)'
      PROVE  Piece(w)' /\ Place(w)'
  <2>1. Piece(w) /\ Place(w) /\ worker'[w] = worker[w]
    BY <1>2 DEF WellInv, ClientHandInv
  <2>2. Piece(w)'
    BY <1>1, <2>1 DEF Piece, First
  <2>3. Place(w)'
    BY <1>1, <2>1 DEF Place, Pending, At, Ended, Heard, Numbered, PacketOf
  <2> QED BY <2>2, <2>3
<1>3. ASSUME socket' # "closed", \A w \in Workers : ~HasBytes(w)'
      PROVE  Pending(taken)'
  <2>1. Pending(taken)
    BY <1>3 DEF WellInv, ClientHandInv
  <2> QED BY <1>1, <2>1 DEF Pending, At, Ended, Heard, Numbered
<1> QED BY <1>2, <1>3 DEF ClientHandInv

\* A step of a callback that has no bytes before or after it.
LEMMA EmptyStays ==
  ASSUME WellInv, NEW w \in Workers, UNCHANGED <<dataVars, lengths, taken>>, ~HasBytes(w), ~HasBytes(w)',
         \A u \in Workers \ {w} : worker'[u] = worker[u], socket' # "closed" => socket # "closed"
  PROVE  ClientHandInv'
<1>1. \A u \in Workers : /\ HasBytes(u)' => HasBytes(u) /\ worker'[u] = worker[u]
                         /\ HasBytes(u) => HasBytes(u)'
  BY DEF HasBytes
<1> QED BY <1>1, DataStays

\* A piece of l + o bytes that ends at g is of the stream's s bytes.
LEMMA PieceRange ==
  ASSUME NEW s \in Nat, NEW g \in 0 .. s, NEW l \in Nat, NEW o \in Nat, NEW f, f = g - l - o + 1, f \in 1 .. g
  PROVE  /\ (\A j \in f .. g : j \in 1 .. s) /\ (\A i \in 1 .. l + o : f + i - 1 \in 1 .. s) /\ g \in f .. g
         /\ g - l \in 0 .. s /\ (l > 0 => g - l < s)
  OBVIOUS

\* What was true of the bytes that have come stays true.
LEMMA AnswerData ==
  ASSUME LengthsAssumption, BufferAssumption, BoundsAssumption, WellInv, Answer
  PROVE  ClientHandInv'
<1>1. /\ ClientStreamInv' /\ Len(lengths') = Len(lengths) + 1 /\ Len(lengths) \in Nat
      /\ \A k \in 1 .. Len(lengths) : lengths'[k] = lengths[k]
      /\ Len(ByteStream) \in Nat /\ Len(ByteStream') \in Nat /\ Len(ByteStream) <= Len(ByteStream')
      /\ \A j \in 1 .. Len(ByteStream) : ByteStream'[j] = ByteStream[j]
  BY AnswerStream DEF WellInv
<1>2. UNCHANGED <<recvBuffer, vecBuffer, recvSize, echoed, taken, worker, socket>>
  BY DEF Answer, dataVars, linkVars, netVars
<1>3. \A j \in 1 .. Len(ByteStream) : ByteInv(j)
  BY DEF WellInv, ClientStreamInv, ByteInv
<1>4. \A j \in 1 .. Len(ByteStream) : /\ ByteStream[j][1] \in 1 .. Len(lengths)
                                      /\ lengths'[ByteStream[j][1]] = lengths[ByteStream[j][1]]
  BY <1>1, <1>3 DEF ByteInv
<1>5. ASSUME NEW p \in 0 .. Len(ByteStream), NEW d, Ended(p, d)
      PROVE  Ended(p, d)'
  <2>1. CASE p = 0
    BY <1>5, <2>1 DEF Ended
  <2>2. CASE p # 0
    <3>1. p \in 1 .. Len(ByteStream) /\ ByteStream[p] = <<d, lengths[d]>>
      BY <1>1, <1>5, <2>2 DEF Ended
    <3>2. lengths'[d] = lengths[d]
      BY <1>4, <3>1
    <3> QED BY <1>1, <2>2, <3>1, <3>2 DEF Ended
  <2> QED BY <2>1, <2>2
<1>6. ASSUME NEW p \in 0 .. Len(ByteStream), NEW d, NEW m, At(p, d, m)
      PROVE  At(p, d, m)' /\ (m # 0 => lengths'[d + 1] = lengths[d + 1])
  <2>1. p \in 0 .. Len(ByteStream')
    BY <1>1
  <2>2. CASE m = 0
    BY <1>5, <1>6, <2>1, <2>2 DEF At
  <2>3. CASE m # 0
    <3>1. p \in 1 .. Len(ByteStream) /\ ByteStream[p] = <<d + 1, m>> /\ m < lengths[d + 1]
      BY <1>1, <1>6, <2>3 DEF At
    <3>2. lengths'[d + 1] = lengths[d + 1]
      BY <1>4, <3>1
    <3> QED BY <1>1, <2>1, <2>3, <3>1, <3>2 DEF At
  <2> QED BY <2>2, <2>3
<1>7. ASSUME NEW p \in 0 .. Len(ByteStream), Pending(p)
      PROVE  Pending(p)'
  <2>1. At(p, Heard, Len(vecBuffer)) /\ vecBuffer \in Seq(Bytes)
    BY <1>7 DEF Pending, WellInv, DataTyped
  <2>2. At(p, Heard, Len(vecBuffer))' /\ (vecBuffer # <<>> => lengths'[Heard + 1] = lengths[Heard + 1])
    BY <1>2, <1>6, <2>1 DEF Heard
  <2> QED BY <1>2, <1>7, <2>2 DEF Pending, Heard, Numbered
<1>8. taken \in 0 .. Len(ByteStream)
  BY DEF WellInv, DataTyped
<1>9. ASSUME NEW w \in Workers, HasBytes(w)'
       PROVE  Piece(w)' /\ Place(w)'
  <2>1. Piece(w) /\ Place(w)
    BY <1>2, <1>9 DEF HasBytes, WellInv, ClientHandInv
  <2>2. /\ worker[w].left \in Nat /\ worker[w].off \in Nat /\ worker[w].left + worker[w].off \in 1 .. ClientRecvLen
        /\ First(w) \in 1 .. taken /\ First(w) = taken - worker[w].left - worker[w].off + 1
    BY <2>1 DEF Piece, First
  <2> DEFINE f == First(w)
             n == worker[w].left + worker[w].off
             p == taken - worker[w].left
  <2>3. First(w)' = f
    BY <1>2 DEF First
  <2>4. (\A j \in f .. taken : j \in 1 .. Len(ByteStream)) /\ (\A i \in 1 .. n : f + i - 1 \in 1 .. Len(ByteStream)) /\ taken \in f .. taken
    <3> DEFINE s == Len(ByteStream)
               l == worker[w].left
               o == worker[w].off
    <3> HIDE DEF f, s, l, o
    <3>1. s \in Nat /\ taken \in 0 .. s /\ l \in Nat /\ o \in Nat /\ f = taken - l - o + 1 /\ f \in 1 .. taken
      BY <1>1, <1>8, <2>2 DEF f, s, l, o
    <3>2. (\A j \in f .. taken : j \in 1 .. s) /\ (\A i \in 1 .. l + o : f + i - 1 \in 1 .. s) /\ taken \in f .. taken
      BY <3>1, PieceRange
    <3> QED BY <3>2 DEF s, l, o
  <2>5. p \in 0 .. Len(ByteStream) /\ (worker[w].left > 0 => p < Len(ByteStream))
    BY <1>1, <1>8, <2>2, PieceRange
  <2>6. Piece(w)'
    <3>1. \A j \in f .. taken : ByteStream'[j] = ByteStream[j] /\ lengths'[ByteStream[j][1]] = lengths[ByteStream[j][1]]
      BY <1>1, <1>4, <2>4
    <3>2. \A i \in 1 .. n : ByteStream'[f + i - 1] = ByteStream[f + i - 1]
      BY <1>1, <2>4
    <3>3. f \in f .. taken
      BY <2>2
    <3>4. \A i \in 1 .. n : recvBuffer[i] = ByteStream'[f + i - 1]
      BY <2>1, <3>2 DEF Piece
    <3>5. ByteStream'[taken][2] >= SizeLen
      BY <2>1, <2>4, <3>1 DEF Piece
    <3>6. \/ \A j \in f .. taken : ByteStream'[j][1] = ByteStream'[taken][1]
          \/ /\ ByteStream'[f][2] = 1
             /\ \A j \in f .. taken : lengths'[ByteStream'[j][1]] = lengths'[ByteStream'[f][1]]
      BY <2>1, <2>4, <3>1, <3>3 DEF Piece
    <3> HIDE DEF f, n
    <3> QED BY <1>2, <2>2, <2>3, <3>4, <3>5, <3>6 DEF Piece, f, n
  <2>7. Place(w)'
    <3> DEFINE m == Len(vecBuffer)
    <3>1. At(p, Heard, m) => At(p, Heard, m)'
      BY <1>2, <1>6, <2>5 DEF Heard
    <3>2. Pending(p) => Pending(p)'
      BY <1>2, <1>7, <2>5
    <3>3. p' = p /\ Heard' = Heard /\ m' = m
      BY <1>2 DEF Heard
    <3>4. ASSUME worker[w].pc = "loop"
          PROVE  lengths'[Heard + 1] = lengths[Heard + 1]
      <4>1. At(p, Heard, m) /\ worker[w].left > 0
        BY <2>1, <3>4 DEF Place
      <4>2. p \in Nat /\ Heard \in Nat /\ m \in Nat
        BY <2>5 DEF Heard, WellInv, DataTyped
      <4>3. Heard + 1 \in 1 .. Len(lengths)
        BY <2>5, <4>1, <4>2, NextBytes DEF WellInv
      <4> QED BY <1>1, <4>3
    <3>5. ASSUME worker[w].pc = "echo"
          PROVE  Heard < Len(lengths') /\ PacketOf(Heard + 1)' = PacketOf(Heard + 1) /\ Ended(p, Heard + 1)'
      <4>1. Heard < Len(lengths) /\ Ended(p, Heard + 1) /\ Heard \in Nat
        BY <2>1, <3>5 DEF Place, Heard, WellInv, DataTyped
      <4>2. Heard + 1 \in 1 .. Len(lengths) /\ Heard < Len(lengths')
        BY <1>1, <4>1
      <4>3. PacketOf(Heard + 1)' = PacketOf(Heard + 1)
        BY <1>1, <1>2, <4>2 DEF PacketOf, Heard
      <4>4. Ended(p, Heard + 1)'
        BY <1>2, <1>5, <2>5, <4>1 DEF Heard
      <4> QED BY <4>2, <4>3, <4>4
    <3>6. Ended(p, Heard) => Ended(p, Heard)'
      BY <1>2, <1>5, <2>5 DEF Heard
    <3>7. vecBuffer = Numbered(Heard + 1, m) => vecBuffer = Numbered(Heard + 1, m)'
      BY <1>2 DEF Numbered, Heard
    <3> HIDE DEF m, p
    <3>8. /\ worker[w].pc = "queued" => worker[w].off = 0 /\ Pending(p)
          /\ worker[w].pc = "loop" => /\ worker[w].left > 0
                                      /\ At(p, Heard, m) /\ vecBuffer = Numbered(Heard + 1, m)
                                      /\ recvSize = lengths[Heard + 1]
          /\ worker[w].pc \in {"echo", "tail"} => vecBuffer = <<>> /\ worker[w].off > 0
          /\ worker[w].pc = "echo" => /\ Heard < Len(lengths) /\ worker[w].packet = PacketOf(Heard + 1)
                                      /\ Ended(p, Heard + 1)
          /\ worker[w].pc = "tail" => Ended(p, Heard)
      BY <2>1 DEF Place, p, m
    <3>9. /\ worker'[w].pc = "queued" => worker'[w].off = 0 /\ Pending(p)'
          /\ worker'[w].pc = "loop" => /\ worker'[w].left > 0
                                       /\ At(p, Heard, m)' /\ vecBuffer' = Numbered(Heard + 1, m)'
                                       /\ recvSize' = lengths'[Heard' + 1]
          /\ worker'[w].pc \in {"echo", "tail"} => vecBuffer' = <<>> /\ worker'[w].off > 0
          /\ worker'[w].pc = "echo" => /\ Heard' < Len(lengths') /\ worker'[w].packet = PacketOf(Heard + 1)'
                                       /\ Ended(p, Heard + 1)'
          /\ worker'[w].pc = "tail" => Ended(p, Heard)'
      BY <1>2, <3>1, <3>2, <3>3, <3>4, <3>5, <3>6, <3>7, <3>8
    <3> QED BY <3>9 DEF Place, p, m
  <2> QED BY <2>6, <2>7
<1>10. ASSUME socket' # "closed", \A w \in Workers : ~HasBytes(w)'
       PROVE  Pending(taken)'
  <2>1. Pending(taken)
    BY <1>2, <1>10 DEF HasBytes, WellInv, ClientHandInv
  <2> QED BY <1>2, <1>7, <1>8, <2>1 DEF Pending
<1> QED BY <1>9, <1>10 DEF ClientHandInv

\* Bytes come: after those that came before.
LEMMA CompleteRecvData ==
  ASSUME LengthsAssumption, BufferAssumption, BoundsAssumption, CtlInv, WellInv, NEW w \in Workers, CompleteRecv(w), well'
  PROVE  ClientHandInv'
<1>1. PICK n \in 1 .. ClientRecvLen :
        /\ taken + n <= Len(ByteStream) /\ CutWell(n) /\ \A u \in Workers : ~HasBytes(u)
        /\ recvBuffer' = [i \in 1 .. ClientRecvLen |-> IF i <= n THEN ByteStream[taken + i] ELSE recvBuffer[i]]
        /\ taken' = taken + n /\ Become(w, Job("recv", n))
  BY DEF CompleteRecv
<1>2. /\ socket = "open" /\ worker[w] = Idle
      /\ UNCHANGED <<vecBuffer, recvSize, echoed, lengths>>
      /\ worker = [u \in Workers |-> worker[u]]
  BY DEF CompleteRecv, serverVars, CtlInv, CtlTyped
<1>3. ByteStream' = ByteStream
  BY <1>2 DEF ByteStream, PacketOf
<1>4. /\ worker'[w] = [pc |-> "queued", kind |-> "recv", left |-> n, off |-> 0, packet |-> <<>>]
      /\ \A u \in Workers \ {w} : worker'[u] = worker[u]
  BY <1>1, <1>2, Becomes, JobIs
<1>5. \A u \in Workers : ~HasBytes(u)
  BY <1>1
<1>6. \A u \in Workers \ {w} : ~HasBytes(u)'
  BY <1>4, <1>5 DEF HasBytes
<1>7. Pending(taken)
  BY <1>2, <1>5 DEF WellInv, ClientHandInv
<1>8. /\ taken \in Nat /\ n \in Nat /\ n > 0 /\ n <= ClientRecvLen /\ ClientRecvLen \in Nat
      /\ Len(ByteStream) \in Nat
  BY DEF WellInv, ClientStreamInv, DataTyped, BufferAssumption
<1>9. \A i \in 1 .. n : recvBuffer'[i] = ByteStream[taken + i]
  <2> TAKE i \in 1 .. n
  <2>1. i \in 1 .. ClientRecvLen /\ i <= n
    BY <1>8
  <2> QED BY <1>1, <2>1
<1>10. First(w)' = taken + 1 /\ taken' = taken + n
  BY <1>1, <1>4, <1>8 DEF First
<1>11. \A j \in taken + 1 .. taken + n : j \in 1 .. Len(ByteStream)
  BY <1>1, <1>8
<1>12. taken + 1 \in taken + 1 .. taken + n /\ taken + n \in taken + 1 .. taken + n
  BY <1>8
<1>13. \A j \in taken + 1 .. taken + n :
         /\ ByteStream[taken + 1][1] <= ByteStream[j][1] /\ ByteStream[j][1] <= ByteStream[taken + n][1]
         /\ ByteStream[j][1] \in Int
  <2>1. \A j \in taken + 1 .. taken + n : taken + 1 <= j /\ j <= taken + n
    BY <1>8
  <2>2. \A j, l \in 1 .. Len(ByteStream) : j <= l => ByteStream[j][1] <= ByteStream[l][1]
    BY DEF WellInv, ClientStreamInv
  <2>3. Len(lengths) \in Nat /\ \A j \in 1 .. Len(ByteStream) : ByteStream[j][1] \in 1 .. Len(lengths)
    BY DEF WellInv, ClientStreamInv
  <2> QED BY <1>11, <1>12, <2>1, <2>2, <2>3
<1>14. \/ \A j \in taken + 1 .. taken + n : ByteStream[j][1] = ByteStream[taken + n][1]
       \/ /\ ByteStream[taken + 1][2] = 1
          /\ \A j \in taken + 1 .. taken + n : lengths[ByteStream[j][1]] = lengths[ByteStream[taken + 1][1]]
  <2>1. CASE ByteStream[taken + 1][1] = ByteStream[taken + n][1]
    <3> QED BY <1>12, <1>13, <2>1
  <2>2. CASE /\ ByteStream[taken + 1][2] = 1
             /\ \A k \in ByteStream[taken + 1][1] .. ByteStream[taken + n][1] : lengths[k] = lengths[ByteStream[taken + 1][1]]
    <3>1. \A j \in taken + 1 .. taken + n :
            /\ ByteStream[taken + 1][1] <= ByteStream[j][1] /\ ByteStream[j][1] <= ByteStream[taken + n][1]
            /\ ByteStream[j][1] \in Int
      BY <1>13
    <3>2. ByteStream[taken + 1][1] \in Int /\ ByteStream[taken + n][1] \in Int
      BY <1>12, <3>1
    <3> QED BY <2>2, <3>1, <3>2
  <2> QED BY <1>1, <2>1, <2>2 DEF CutWell
<1>15. ByteStream[taken + n][2] >= SizeLen
  BY <1>1 DEF CutWell
<1>16. Piece(w)'
  <2>1. /\ worker'[w].left \in Nat /\ worker'[w].off \in Nat
        /\ worker'[w].left + worker'[w].off = n /\ n \in 1 .. ClientRecvLen
    BY <1>4, <1>8
  <2>2. taken + 1 \in 1 .. taken + n /\ \A i \in 1 .. n : (taken + 1) + i - 1 = taken + i
    BY <1>8
  <2>3. \A i \in 1 .. n : recvBuffer'[i] = ByteStream'[First(w)' + i - 1]
    BY <1>3, <1>9, <1>10, <2>2
  <2>4. ByteStream'[taken'][2] >= SizeLen
    BY <1>2, <1>3, <1>10, <1>15
  <2>5. \/ \A j \in First(w)' .. taken' : ByteStream'[j][1] = ByteStream'[taken'][1]
        \/ /\ ByteStream'[First(w)'][2] = 1
           /\ \A j \in First(w)' .. taken' : lengths'[ByteStream'[j][1]] = lengths'[ByteStream'[First(w)'][1]]
    BY <1>2, <1>3, <1>10, <1>14
  <2> QED BY <1>9, <1>10, <2>1, <2>2, <2>3, <2>4, <2>5 DEF Piece
<1>17. Place(w)'
  <2>1. taken' - worker'[w].left = taken /\ worker'[w].pc = "queued" /\ worker'[w].off = 0
    BY <1>1, <1>4, <1>8
  <2>2. At(taken, Heard, Len(vecBuffer)) /\ vecBuffer = Numbered(Heard + 1, Len(vecBuffer))
        /\ recvSize = IF vecBuffer = <<>> THEN 0 ELSE lengths[Heard + 1]
    BY <1>7 DEF Pending
  <2>3. Pending(taken - worker[w].left)'
    BY <1>2, <1>3, <2>1, <2>2 DEF Pending, At, Ended, Heard, Numbered
  <2> QED BY <2>1, <2>3 DEF Place
<1>18. HasBytes(w)'
  BY <1>4, <1>8 DEF HasBytes
<1> QED BY <1>6, <1>16, <1>17, <1>18 DEF ClientHandInv

-----------------------------------------------------------------------------
(* The callback with data.                                                   *)

\* The callback that has bytes is the only one, and its bytes are of the stream.
LEMMA Holds ==
  ASSUME BufferAssumption, CtlInv, WellInv, NEW w \in Workers, HasBytes(w)
  PROVE  /\ Piece(w) /\ Place(w) /\ (\A u \in Workers \ {w} : ~HasBytes(u))
         /\ worker[w].left \in Nat /\ worker[w].off \in Nat /\ worker[w].left + worker[w].off <= ClientRecvLen /\ ClientRecvLen \in Nat
         /\ taken \in Nat /\ Len(ByteStream) \in Nat /\ taken <= Len(ByteStream)
         /\ First(w) = taken - worker[w].left - worker[w].off + 1 /\ First(w) \in 1 .. taken
         /\ taken - worker[w].left \in Nat /\ taken - worker[w].left <= taken
         /\ worker[w].left > 0 => taken - worker[w].left < Len(ByteStream)
         /\ Heard \in Nat /\ Len(vecBuffer) \in Nat
         /\ worker = [u \in Workers |-> worker[u]] /\ JobShape(w)
         /\ worker[w].kind = "recv"
<1>1. Piece(w) /\ Place(w)
  BY DEF WellInv, ClientHandInv
<1>2. \A u \in Workers \ {w} : ~HasBytes(u)
  BY DEF WellInv, OneReceive
<1>3. /\ worker[w].left \in Nat /\ worker[w].off \in Nat /\ worker[w].left + worker[w].off \in 1 .. ClientRecvLen
      /\ First(w) = taken - worker[w].left - worker[w].off + 1 /\ First(w) \in 1 .. taken
  BY <1>1 DEF Piece, First
<1>4. taken \in 0 .. Len(ByteStream) /\ Len(ByteStream) \in Nat /\ ClientRecvLen \in Nat /\ Heard \in Nat /\ Len(vecBuffer) \in Nat
  BY DEF WellInv, ClientStreamInv, DataTyped, BufferAssumption, Heard
<1>5. worker = [u \in Workers |-> worker[u]] /\ JobShape(w) /\ worker[w].kind = "recv"
  BY DEF CtlInv, CtlTyped, HasBytes
<1>6. /\ worker[w].left + worker[w].off <= ClientRecvLen
      /\ taken - worker[w].left \in Nat /\ taken - worker[w].left <= taken
      /\ worker[w].left > 0 => taken - worker[w].left < Len(ByteStream)
  <2> DEFINE l == worker[w].left
             o == worker[w].off
             s == Len(ByteStream)
  <2> HIDE DEF l, o, s
  <2>1. /\ l \in Nat /\ o \in Nat /\ l + o \in 1 .. ClientRecvLen /\ taken - l - o + 1 \in 1 .. taken
        /\ taken \in 0 .. s /\ s \in Nat /\ ClientRecvLen \in Nat
    BY <1>3, <1>4 DEF l, o, s
  <2>2. l + o <= ClientRecvLen /\ taken - l \in Nat /\ taken - l <= taken /\ (l > 0 => taken - l < s)
    BY <2>1
  <2> QED BY <2>2 DEF l, o, s
<1> QED BY <1>1, <1>2, <1>3, <1>4, <1>5, <1>6

\* The bytes of the piece that are left are the next ones of the stream.
LEMMA RestIs ==
  ASSUME BufferAssumption, CtlInv, WellInv, NEW w \in Workers, HasBytes(w)
  PROVE  /\ RestOf(w) \in Seq(Bytes) /\ Len(RestOf(w)) = worker[w].left
         /\ \A i \in 1 .. worker[w].left : RestOf(w)[i] = ByteStream[taken - worker[w].left + i]
<1> DEFINE l == worker[w].left
           o == worker[w].off
<1>1. /\ l \in Nat /\ o \in Nat /\ taken \in Nat
      /\ First(w) = taken - l - o + 1 /\ \A i \in 1 .. l + o : recvBuffer[i] = ByteStream[First(w) + i - 1]
  BY Holds DEF Piece
<1>2. RestOf(w) \in Seq(Bytes) /\ Len(RestOf(w)) = l /\ \A i \in 1 .. l : RestOf(w)[i] = recvBuffer[o + i]
  BY RestTyped DEF WellInv
<1> HIDE DEF l, o
<1>3. \A i \in 1 .. l : recvBuffer[o + i] = ByteStream[taken - l + i]
  <2> TAKE i \in 1 .. l
  <2>1. o + i \in 1 .. l + o /\ First(w) + (o + i) - 1 = taken - l + i
    BY <1>1
  <2> QED BY <1>1, <2>1
<1> QED BY <1>2, <1>3 DEF l

\* More bytes of a packet behind those that are there.
Follow(s, k, m) == \A i \in 1 .. Len(s) : s[i] = <<k, m + i>>

LEMMA PutTogether ==
  ASSUME NEW k, NEW v \in Seq(Bytes), NEW r \in Seq(Bytes), Follow(v, k, 0), Follow(r, k, Len(v))
  PROVE  v \o r \in Seq(Bytes) /\ v \o r = Numbered(k, Len(v) + Len(r)) /\ Len(v \o r) = Len(v) + Len(r)
<1> DEFINE m == Len(v)
           n == Len(r)
           t == v \o r
<1>1. /\ t \in Seq(Bytes) /\ Len(t) = m + n
      /\ \A i \in 1 .. m : t[i] = v[i]
      /\ \A i \in 1 .. n : t[m + i] = r[i]
  <2>1. v \in Seq(Bytes) /\ r \in Seq(Bytes)
    OBVIOUS
  <2> QED BY ONLY <2>1, ConcatParts
<1>2. m \in Nat /\ n \in Nat /\ \A i \in 1 .. n : r[i] = <<k, m + i>>
  BY DEF Follow
<1>3. \A i \in 1 .. m : v[i] = <<k, i>>
  BY DEF Follow
<1> HIDE DEF m, n, t
<1>4. \A i \in 1 .. m + n : t[i] = <<k, i>>
  <2> TAKE i \in 1 .. m + n
  <2>1. CASE i <= m
    <3>1. i \in 1 .. m
      BY <1>2, <2>1
    <3> QED BY <1>1, <1>3, <3>1
  <2>2. CASE i > m
    <3>1. i - m \in 1 .. n /\ m + (i - m) = i
      BY <1>2, <2>2
    <3>2. t[m + (i - m)] = r[i - m] /\ r[i - m] = <<k, m + (i - m)>>
      BY <1>1, <1>2, <3>1
    <3> QED BY <3>1, <3>2
  <2> QED BY <1>2, <2>1, <2>2
<1>5. t = [i \in 1 .. m + n |-> t[i]]
  BY <1>1
<1>6. [i \in 1 .. m + n |-> t[i]] = Numbered(k, m + n)
  BY <1>4 DEF Numbered
<1> QED BY <1>1, <1>5, <1>6 DEF m, n, t

\* What a step of the callback w has to keep.
LEMMA HandStep ==
  ASSUME NEW w \in Workers, \A u \in Workers \ {w} : ~HasBytes(u) /\ worker'[u] = worker[u],
         HasBytes(w)' => Piece(w)' /\ Place(w)',
         ~HasBytes(w)' /\ socket' # "closed" => Pending(taken)'
  PROVE  ClientHandInv'
<1>1. \A u \in Workers \ {w} : ~HasBytes(u)'
  BY DEF HasBytes
<1> QED BY <1>1 DEF ClientHandInv

\* A callback that goes on within its piece.
LEMMA PieceKept ==
  ASSUME NEW w \in Workers, Piece(w), UNCHANGED <<recvBuffer, lengths, taken>>, taken \in Nat,
         worker'[w].left \in Nat, worker'[w].off \in Nat,
         worker'[w].left + worker'[w].off = worker[w].left + worker[w].off
  PROVE  Piece(w)' /\ First(w)' = First(w)
<1>1. ByteStream' = ByteStream
  BY DEF ByteStream, PacketOf
<1>2. worker[w].left \in Nat /\ worker[w].off \in Nat
  BY DEF Piece
<1>3. First(w)' = First(w)
  <2>1. \A t, a, b, c, d \in Nat : a + b = c + d => t - a - b + 1 = t - c - d + 1
    OBVIOUS
  <2>2. taken - worker'[w].left - worker'[w].off + 1 = taken - worker[w].left - worker[w].off + 1
    BY <1>2, <2>1
  <2>3. taken' = taken
    OBVIOUS
  <2> QED BY <2>2, <2>3 DEF First
<1> QED BY <1>1, <1>3 DEF Piece

\* The start of the stream's next bytes, at the start of a receive.
LEMMA BeginsWhole ==
  ASSUME LengthsAssumption, BufferAssumption, CtlInv, WellInv, NEW w \in Workers, HasBytes(w),
         worker[w].pc = "queued", recvSize = 0
  PROVE  vecBuffer = <<>> /\ At(taken - worker[w].left, Heard, 0)
<1>1. Pending(taken - worker[w].left) /\ worker[w].left > 0
  BY Holds DEF Place, HasBytes
<1> DEFINE p == taken - worker[w].left
           m == Len(vecBuffer)
<1>2. At(p, Heard, m) /\ p \in Nat /\ p < Len(ByteStream) /\ Heard \in Nat /\ m \in Nat
  BY <1>1, Holds DEF Pending
<1>3. Heard + 1 \in 1 .. Len(lengths) /\ lengths[Heard + 1] \in Nat /\ lengths[Heard + 1] >= SizeLen
  <2> HIDE DEF p, m
  <2> QED BY <1>2, NextBytes DEF WellInv
<1>4. vecBuffer = <<>>
  BY <1>1, <1>3 DEF Pending, BufferAssumption
<1> QED BY <1>2, <1>4

\* The size that is read is that of the packet that comes next.
LEMMA RecvBeginsData ==
  ASSUME LengthsAssumption, BufferAssumption, BoundsAssumption, CtlInv, WellInv, NEW w \in Workers, RecvBegins(w)
  PROVE  ClientHandInv'
<1>1. HasBytes(w) /\ worker[w].pc = "queued" /\ worker[w].left > 0
  BY DEF RecvBegins, HasBytes
<1> DEFINE p == taken - worker[w].left
           m == Len(vecBuffer)
<1>2. Piece(w) /\ worker[w].off = 0 /\ Pending(p)
  BY <1>1, Holds DEF Place
<1>3. UNCHANGED <<recvBuffer, vecBuffer, echoed, lengths, taken, socket>> /\ ByteStream' = ByteStream
  BY DEF RecvBegins, linkVars, serverVars, netVars, ByteStream, PacketOf
<1>4. /\ worker'[w] = [pc |-> "loop", kind |-> "recv", left |-> worker[w].left, off |-> worker[w].off, packet |-> worker[w].packet]
      /\ \A u \in Workers \ {w} : worker'[u] = worker[u]
  <2>1. Become(w, [worker[w] EXCEPT !.pc = "loop"])
    BY DEF RecvBegins
  <2> QED BY <1>1, <2>1, Holds, Becomes, Labelled
<1>5. At(p, Heard, m) /\ p \in Nat /\ p < Len(ByteStream) /\ Heard \in Nat /\ m \in Nat
  BY <1>1, <1>2, Holds DEF Pending
<1>6. /\ Heard + 1 \in 1 .. Len(lengths) /\ lengths[Heard + 1] \in Nat /\ lengths[Heard + 1] >= SizeLen /\ m < lengths[Heard + 1]
      /\ \A i \in 1 .. lengths[Heard + 1] - m : p + i \in 1 .. Len(ByteStream) /\ ByteStream[p + i] = <<Heard + 1, m + i>>
  <2> HIDE DEF p, m
  <2> QED BY <1>5, NextBytes DEF WellInv
<1>7. recvSize' = lengths[Heard + 1]
  <2>1. CASE recvSize # 0
    BY <1>2, <2>1 DEF RecvBegins, Pending
  <2>2. CASE recvSize = 0
    <3>1. m = 0
      BY <1>1, <2>2, BeginsWhole
    <3>2. \A i \in 1 .. SizeLen : recvBuffer[i] = <<Heard + 1, i>>
      <4> DEFINE l == worker[w].left
      <4>1. /\ \A i \in 1 .. l + 0 : recvBuffer[i] = ByteStream[First(w) + i - 1]
            /\ First(w) = taken - l - 0 + 1
        BY <1>2 DEF Piece, First
      <4>2. l \in Nat /\ taken \in Nat /\ SizeLen \in Nat /\ l >= SizeLen
        BY <1>1, <2>2, Holds DEF RecvBegins, BufferAssumption
      <4> HIDE DEF l
      <4>3. \A i \in 1 .. SizeLen : /\ i \in 1 .. l + 0 /\ First(w) + i - 1 = (taken - l) + i
                                    /\ i \in 1 .. lengths[Heard + 1] - 0
        BY <1>6, <4>1, <4>2
      <4>4. \A i \in 1 .. SizeLen : ByteStream[(taken - l) + i] = <<Heard + 1, 0 + i>> /\ 0 + i = i
        BY <1>6, <3>1, <4>3 DEF l
      <4> QED BY <4>1, <4>3, <4>4
    <3>3. Heard + 1 \in Nat /\ Heard + 1 > 0
      BY <1>5
    <3>4. SizesAtStart = {lengths[Heard + 1]}
      BY <3>2, <3>3, SizesAre DEF WellInv
    <3> QED BY <2>2, <3>4 DEF RecvBegins
  <2> QED BY <2>1, <2>2
<1>8. Piece(w)'
  <2>1. Piece(w) /\ taken \in Nat
    BY <1>1, <1>2, Holds
  <2>2. worker'[w].left = worker[w].left /\ worker'[w].off = worker[w].off
    BY <1>4
  <2>3. worker[w].left \in Nat /\ worker[w].off \in Nat
    BY <2>1 DEF Piece
  <2>4. UNCHANGED <<recvBuffer, lengths, taken>>
    BY <1>3
  <2> QED BY <2>1, <2>2, <2>3, <2>4, PieceKept
<1>9. Place(w)'
  <2>1. taken' - worker'[w].left = p /\ worker'[w].pc = "loop" /\ worker'[w].left > 0
    BY <1>1, <1>3, <1>4
  <2>2. At(p, Heard, m)' /\ p' = p
    BY <1>3, <1>4, <1>5 DEF At, Ended, Heard
  <2>3. vecBuffer' = Numbered(Heard + 1, m)'
    BY <1>2, <1>3 DEF Pending, Heard, Numbered
  <2>4. recvSize' = lengths'[Heard' + 1]
    BY <1>3, <1>7 DEF Heard
  <2> QED BY <2>1, <2>2, <2>3, <2>4 DEF Place
<1>10. HasBytes(w)'
  BY <1>4 DEF HasBytes
<1> QED BY <1>1, <1>4, <1>8, <1>9, <1>10, Holds, HandStep

\* Bytes that are fewer than the packet lacks: the receive ended in the packet.
LEMMA EndsWithin ==
  ASSUME ClientStreamInv, LengthsAssumption, BufferAssumption, taken \in Nat, taken <= Len(ByteStream), NEW l \in Nat, l > 0,
         taken - l \in Nat, NEW d \in Nat, NEW m \in Nat, At(taken - l, d, m), l + m < lengths[d + 1]
  PROVE  At(taken, d, m + l) /\ ByteStream[taken] = <<d + 1, m + l>> /\ m + l # 0 /\ d + 1 \in 1 .. Len(lengths)
<1> DEFINE p == taken - l
<1>1. p < Len(ByteStream) /\ Len(ByteStream) \in Nat /\ p \in Nat /\ p + l = taken
  BY DEF ClientStreamInv
<1>2. /\ d + 1 \in 1 .. Len(lengths) /\ lengths[d + 1] \in Nat
      /\ \A i \in 1 .. lengths[d + 1] - m : p + i \in 1 .. Len(ByteStream) /\ ByteStream[p + i] = <<d + 1, m + i>>
  <2> HIDE DEF p
  <2>1. At(p, d, m)
    BY DEF p
  <2>2. /\ d + 1 \in 1 .. Len(lengths) /\ lengths[d + 1] \in Nat /\ m < lengths[d + 1] /\ lengths[d + 1] >= SizeLen
        /\ \A i \in 1 .. lengths[d + 1] - m : p + i \in 1 .. Len(ByteStream) /\ ByteStream[p + i] = <<d + 1, m + i>>
    BY <1>1, <2>1, NextBytes, SMTT(30)
  <2> QED BY <2>2
<1>3. l \in 1 .. lengths[d + 1] - m
  <2>1. lengths[d + 1] \in Nat
    BY <1>2
  <2>2. \A x \in Nat : l + m < x => l \in 1 .. x - m
    OBVIOUS
  <2> QED BY <2>1, <2>2
<1>4. ByteStream[taken] = <<d + 1, m + l>>
  <2> HIDE DEF p
  <2>1. ByteStream[p + l] = <<d + 1, m + l>>
    BY <1>2, <1>3
  <2> QED BY <1>1, <2>1
<1> QED BY <1>1, <1>2, <1>4 DEF At

\* A receive that is cut well does not end within a size field.
LEMMA NotInSize ==
  ASSUME BufferAssumption, NEW w \in Workers, Piece(w), NEW d, NEW l \in Nat, l < SizeLen, ByteStream[taken] = <<d, l>>
  PROVE  FALSE
<1>1. ByteStream[taken][2] = l /\ ByteStream[taken][2] >= SizeLen /\ SizeLen \in Nat
  BY DEF Piece, BufferAssumption
<1> QED BY <1>1

\* So bytes of one receive are never too few for a size.
LEMMA NeverShort ==
  ASSUME LengthsAssumption, BufferAssumption, BoundsAssumption, CtlInv, WellInv, NEW w \in Workers, RecvShort(w)
  PROVE  FALSE
<1> DEFINE l == worker[w].left
<1>1. HasBytes(w) /\ worker[w].pc = "queued" /\ l > 0 /\ recvSize = 0 /\ l < SizeLen
  BY DEF RecvShort, HasBytes
<1> HIDE DEF l
<1>2. At(taken - l, Heard, 0) /\ Piece(w) /\ l \in Nat /\ taken - l \in Nat
      /\ taken \in Nat /\ taken <= Len(ByteStream) /\ Len(ByteStream) \in Nat /\ Heard \in Nat /\ SizeLen \in Nat
  BY <1>1, BeginsWhole, Holds DEF l, BufferAssumption
<1>3. taken - l < Len(ByteStream) /\ 0 \in Nat
  BY <1>1, <1>2
<1>4. lengths[Heard + 1] \in Nat /\ lengths[Heard + 1] >= SizeLen
  <2>1. ClientStreamInv
    BY DEF WellInv
  <2> QED BY <1>2, <1>3, <2>1, NextBytes
<1>5. l + 0 < lengths[Heard + 1]
  BY <1>1, <1>2, <1>4
<1>6. ByteStream[taken] = <<Heard + 1, 0 + l>>
  BY <1>1, <1>2, <1>3, <1>5, EndsWithin DEF WellInv
<1>7. ByteStream[taken] = <<Heard + 1, l>>
  BY <1>2, <1>6
<1> QED BY <1>1, <1>2, <1>7, NotInSize

\* Part of a packet is put away: it is there, and pending.
LEMMA SaveRestData ==
  ASSUME LengthsAssumption, BufferAssumption, BoundsAssumption, CtlInv, WellInv, NEW w \in Workers, SaveRest(w)
  PROVE  ClientHandInv'
<1> DEFINE l == worker[w].left
           m == Len(vecBuffer)
<1>1. HasBytes(w) /\ worker[w].pc = "loop" /\ l + m < recvSize /\ PostRecv(w)
  <2>1. worker[w].kind = "recv"
    BY DEF SaveRest, CtlInv, CtlTyped, JobShape
  <2> QED BY <2>1 DEF SaveRest, HasBytes
<1>2. UNCHANGED <<recvSize, echoed, lengths, taken>> /\ ByteStream' = ByteStream /\ vecBuffer' = vecBuffer \o RestOf(w)
  BY DEF SaveRest, Followed, WellInv, serverVars, netVars, ByteStream, PacketOf
<1>3. ~HasBytes(w)' /\ \A u \in Workers \ {w} : worker'[u] = worker[u]
  BY <1>1, PutAway DEF WellInv
<1>4. l > 0 /\ At(taken - l, Heard, m) /\ vecBuffer = Numbered(Heard + 1, m) /\ recvSize = lengths[Heard + 1]
  BY <1>1, Holds DEF Place
<1>5. l \in Nat /\ m \in Nat /\ Heard \in Nat /\ taken \in Nat /\ taken <= Len(ByteStream) /\ taken - l \in Nat /\ Len(ByteStream) \in Nat
  BY <1>1, Holds
<1>6. At(taken, Heard, m + l) /\ m + l # 0
  <2> HIDE DEF l, m
  <2>1. l + m < lengths[Heard + 1]
    BY <1>1, <1>4
  <2> QED BY <1>4, <1>5, <2>1, EndsWithin DEF WellInv
<1>7. vecBuffer \o RestOf(w) \in Seq(Bytes) /\ vecBuffer \o RestOf(w) = Numbered(Heard + 1, m + l) /\ Len(vecBuffer \o RestOf(w)) = m + l
  <2>1. /\ RestOf(w) \in Seq(Bytes) /\ Len(RestOf(w)) = l
        /\ \A i \in 1 .. l : RestOf(w)[i] = ByteStream[(taken - l) + i]
    BY <1>1, RestIs
  <2>2. \A i \in 1 .. l : ByteStream[(taken - l) + i] = <<Heard + 1, m + i>>
    <3> HIDE DEF l, m
    <3>1. taken - l < Len(ByteStream)
      BY <1>4, <1>5
    <3> DEFINE p == taken - l
    <3>2. lengths[Heard + 1] \in Nat /\ \A i \in 1 .. lengths[Heard + 1] - m : ByteStream[p + i] = <<Heard + 1, m + i>>
      <4>1. ClientStreamInv /\ p \in Nat /\ p < Len(ByteStream) /\ At(p, Heard, m)
        BY <1>4, <1>5, <3>1 DEF WellInv
      <4> HIDE DEF p
      <4>2. /\ Heard + 1 \in 1 .. Len(lengths) /\ lengths[Heard + 1] \in Nat /\ m < lengths[Heard + 1]
            /\ lengths[Heard + 1] >= SizeLen
            /\ \A i \in 1 .. lengths[Heard + 1] - m :
                 p + i \in 1 .. Len(ByteStream) /\ ByteStream[p + i] = <<Heard + 1, m + i>>
        BY <1>5, <4>1, NextBytes
      <4> QED BY <4>2
    <3>3. \A i \in 1 .. l : i \in 1 .. lengths[Heard + 1] - m
      BY <1>1, <1>4, <1>5, <3>2
    <3> QED BY <3>2, <3>3
  <2>3. vecBuffer \in Seq(Bytes)
    BY DEF WellInv, DataTyped
  <2>4. \A i \in 1 .. l : RestOf(w)[i] = <<Heard + 1, m + i>>
    BY <2>1, <2>2
  <2> DEFINE v == vecBuffer
             r == RestOf(w)
             k == Heard + 1
  <2>5. v \in Seq(Bytes) /\ Len(v) = m /\ r \in Seq(Bytes) /\ Len(r) = l /\ \A i \in 1 .. m : v[i] = <<k, i>>
    BY <1>4, <2>1, <2>3 DEF Numbered
  <2>6. \A i \in 1 .. l : r[i] = <<k, m + i>>
    BY <2>4
  <2> HIDE DEF v, r, k
  <2>7. v \o r \in Seq(Bytes) /\ v \o r = Numbered(k, Len(v) + Len(r)) /\ Len(v \o r) = Len(v) + Len(r)
    <3>1. Follow(v, k, 0) /\ Follow(r, k, Len(v))
      BY <2>5, <2>6 DEF Follow
    <3> QED BY <2>5, <3>1, PutTogether
  <2> QED BY <2>5, <2>7 DEF v, r, k
<1>8. Pending(taken)'
  <2>1. taken \in 0 .. Len(ByteStream) /\ taken # 0 /\ ByteStream[taken] = <<Heard + 1, m + l>> /\ m + l < lengths[Heard + 1]
    BY <1>6 DEF At
  <2>2. vecBuffer' = Numbered(Heard + 1, m + l) /\ Len(vecBuffer') = m + l /\ vecBuffer' # <<>>
    BY <1>2, <1>6, <1>7
  <2> HIDE DEF l, m
  <2>3. Heard' = Heard
    BY <1>2 DEF Heard
  <2> QED BY <1>2, <1>4, <1>6, <2>1, <2>2, <2>3 DEF Pending, At, Numbered
<1> QED BY <1>1, <1>3, <1>8, Holds, HandStep

\* A packet's rest is there: the packet is put together.
LEMMA FillData ==
  ASSUME LengthsAssumption, BufferAssumption, BoundsAssumption, CtlInv, WellInv, NEW w \in Workers, FillPacket(w)
  PROVE  ClientHandInv'
<1> DEFINE l == worker[w].left
           o == worker[w].off
           m == Len(vecBuffer)
           p == taken - l
           n == recvSize - m
           b == vecBuffer \o SubSeq(RestOf(w), 1, n)
<1>1. HasBytes(w) /\ worker[w].pc = "loop" /\ l + m >= recvSize
  <2>1. worker[w].kind = "recv"
    BY DEF FillPacket, CtlInv, CtlTyped, JobShape
  <2> QED BY <2>1 DEF FillPacket, HasBytes
<1>2. UNCHANGED <<recvBuffer, recvSize, echoed, lengths, taken, socket>> /\ ByteStream' = ByteStream
  BY DEF FillPacket, linkVars, serverVars, netVars, ByteStream, PacketOf
<1>3. l > 0 /\ At(p, Heard, m) /\ vecBuffer = Numbered(Heard + 1, m) /\ recvSize = lengths[Heard + 1]
  BY <1>1, Holds DEF Place
<1>4. /\ l \in Nat /\ o \in Nat /\ l + o <= ClientRecvLen /\ ClientRecvLen \in Nat /\ m \in Nat /\ Heard \in Nat /\ taken \in Nat
      /\ p \in Nat /\ p < Len(ByteStream) /\ Len(ByteStream) \in Nat /\ taken <= Len(ByteStream)
  BY <1>1, <1>3, Holds
<1>5. /\ Heard + 1 \in 1 .. Len(lengths) /\ lengths[Heard + 1] \in Nat /\ m < lengths[Heard + 1]
      /\ \A i \in 1 .. lengths[Heard + 1] - m : p + i \in 1 .. Len(ByteStream) /\ ByteStream[p + i] = <<Heard + 1, m + i>>
  <2>1. ClientStreamInv
    BY DEF WellInv
  <2> HIDE DEF p, m
  <2> QED BY <1>3, <1>4, <2>1, NextBytes, SMTT(40)
<1>6. n \in Nat /\ n > 0 /\ n <= l /\ m + n = lengths[Heard + 1]
  <2> HIDE DEF l, m
  <2> QED BY <1>1, <1>3, <1>4, <1>5, SMTT(40)
<1>7. /\ vecBuffer' = <<>>
      /\ worker'[w] = [pc |-> "echo", kind |-> "recv", left |-> l - n, off |-> o + n, packet |-> b]
      /\ \A u \in Workers \ {w} : worker'[u] = worker[u]
  <2>1. /\ vecBuffer' = <<>>
        /\ Become(w, [worker[w] EXCEPT !.pc = "echo", !.left = @ - n, !.off = @ + n, !.packet = b])
    <3> HIDE DEF b
    <3>1. ~(n < 0)
      BY <1>6
    <3>2. Followed(vecBuffer \o SubSeq(RestOf(w), 1, n)) = b
      BY DEF Followed, WellInv, b
    <3> QED BY <3>1, <3>2 DEF FillPacket
  <2> HIDE DEF n, b
  <2>2. [worker[w] EXCEPT !.pc = "echo", !.left = @ - n, !.off = @ + n, !.packet = b]
          = [pc |-> "echo", kind |-> "recv", left |-> l - n, off |-> o + n, packet |-> b]
    <3>1. JobShape(w) /\ worker[w].kind = "recv"
      BY <1>1, Holds
    <3>2. [worker[w] EXCEPT !.pc = "echo", !.left = @ - n, !.off = @ + n, !.packet = b]
            = [pc |-> "echo", kind |-> worker[w].kind, left |-> worker[w].left - n,
               off |-> worker[w].off + n, packet |-> b]
      BY <3>1, Filled
    <3> QED BY <3>1, <3>2
  <2> QED BY <1>1, <2>1, <2>2, Holds, Becomes
<1>8. b = PacketOf(Heard + 1)
  <2> DEFINE r == SubSeq(RestOf(w), 1, n)
  <2>1. /\ RestOf(w) \in Seq(Bytes) /\ Len(RestOf(w)) = l
        /\ \A i \in 1 .. l : RestOf(w)[i] = ByteStream[p + i]
    BY <1>1, RestIs
  <2>2. r \in Seq(Bytes) /\ Len(r) = n /\ \A i \in 1 .. n : r[i] = RestOf(w)[i]
    <3> DEFINE R == RestOf(w)
    <3> HIDE DEF R, n, l
    <3>1. \A i \in 1 .. n : R[i] \in Bytes
      BY <1>4, <1>6, <2>1 DEF R
    <3>2. /\ SubSeq(R, 1, n) \in Seq(Bytes) /\ Len(SubSeq(R, 1, n)) = IF 1 <= n THEN n - 1 + 1 ELSE 0
          /\ \A i \in 1 .. n - 1 + 1 : SubSeq(R, 1, n)[i] = R[1 + i - 1]
      BY <1>6, <3>1, SubSeqProperties
    <3>3. n - 1 + 1 = n /\ 1 <= n /\ \A i \in 1 .. n : 1 + i - 1 = i
      BY <1>6
    <3> QED BY <3>2, <3>3 DEF R
  <2>3. \A i \in 1 .. n : r[i] = <<Heard + 1, m + i>>
    <3> HIDE DEF r, n, l, m, p
    <3>1. \A i \in 1 .. n : i \in 1 .. l /\ i \in 1 .. lengths[Heard + 1] - m
      BY <1>4, <1>5, <1>6
    <3> QED BY <1>5, <2>1, <2>2, <3>1
  <2> DEFINE v == vecBuffer
             k == Heard + 1
  <2>4. v \in Seq(Bytes) /\ \A i \in 1 .. Len(v) : v[i] = <<k, i>>
    BY <1>3 DEF Numbered, WellInv, DataTyped
  <2>5. \A i \in 1 .. Len(r) : r[i] = <<k, Len(v) + i>>
    BY <2>2, <2>3
  <2>6. v \o r = Numbered(k, Len(v) + Len(r))
    <3>1. r \in Seq(Bytes) /\ v \in Seq(Bytes)
      BY <2>2, <2>4
    <3>2. Follow(v, k, 0) /\ Follow(r, k, Len(v))
      <4> HIDE DEF v, r, k
      <4>1. Len(v) \in Nat
        BY <3>1
      <4>2. \A i \in 1 .. Len(v) : 0 + i = i
        BY <4>1
      <4> QED BY <2>4, <2>5, <4>2 DEF Follow
    <3> HIDE DEF v, r, k
    <3>3. v \o r \in Seq(Bytes) /\ v \o r = Numbered(k, Len(v) + Len(r)) /\ Len(v \o r) = Len(v) + Len(r)
      BY <3>1, <3>2, PutTogether
    <3> QED BY <3>3
  <2>7. Len(v) + Len(r) = lengths[k]
    BY <1>6, <2>2
  <2> HIDE DEF v, r, k, n
  <2>8. Numbered(k, lengths[k]) = PacketOf(k)
    BY DEF Numbered, PacketOf
  <2>9. b = v \o r
    BY DEF v, r
  <2> QED BY <2>6, <2>7, <2>8, <2>9 DEF k
<1>9. Piece(w)'
  <2>1. worker'[w].left \in Nat /\ worker'[w].off \in Nat /\ worker'[w].left + worker'[w].off = l + o
    <3> HIDE DEF l, o, n, b
    <3> QED BY <1>4, <1>6, <1>7
  <2> QED BY <1>1, <1>2, <2>1, PieceKept, Holds
<1>10. Place(w)'
  <2> DEFINE q == taken' - worker'[w].left
  <2>1. /\ worker'[w].pc = "echo" /\ worker'[w].packet = PacketOf(Heard + 1)
        /\ q = p + n /\ worker'[w].off = o + n /\ o + n > 0 /\ vecBuffer' = <<>>
    <3> HIDE DEF l, o, n, b
    <3> QED BY <1>2, <1>4, <1>6, <1>7, <1>8 DEF p
  <2>2. p + n # 0 /\ ByteStream[p + n] = <<Heard + 1, lengths[Heard + 1]>>
    <3> HIDE DEF n, p, m
    <3>1. n \in 1 .. lengths[Heard + 1] - m /\ p + n # 0
      BY <1>4, <1>5, <1>6
    <3>2. ByteStream[p + n] = <<Heard + 1, m + n>>
      BY <1>5, <3>1
    <3> QED BY <1>6, <3>1, <3>2
  <2>3. /\ Heard < Len(lengths) /\ Heard' = Heard /\ PacketOf(Heard + 1)' = PacketOf(Heard + 1)
    BY <1>2, <1>4, <1>5 DEF Heard, PacketOf
  <2>4. Ended(taken - worker[w].left, Heard + 1)'
    <3>1. (taken - worker[w].left)' = p + n
      BY <2>1
    <3> HIDE DEF p, n
    <3> QED BY <1>2, <2>2, <2>3, <3>1 DEF Ended
  <2> HIDE DEF n, o, p
  <2> QED BY <1>2, <2>1, <2>3, <2>4 DEF Place
<1>11. HasBytes(w)'
  BY <1>7 DEF HasBytes
<1> QED BY <1>1, <1>7, <1>9, <1>10, <1>11, Holds, HandStep

\* EchoPacket gets the packet that follows those it got.
LEMMA EchoData ==
  ASSUME LengthsAssumption, BufferAssumption, BoundsAssumption, CtlInv, WellInv, NEW w \in Workers, EchoPacket(w)
  PROVE  /\ ClientHandInv'
         /\ Heard < Len(lengths) /\ echoed' = Append(echoed, PacketOf(Heard + 1)) /\ UNCHANGED lengths
<1>1. HasBytes(w) /\ worker[w].pc = "echo"
  <2>1. worker[w].kind = "recv"
    BY DEF EchoPacket, CtlInv, CtlTyped, JobShape
  <2> QED BY <2>1 DEF EchoPacket, HasBytes
<1>2. UNCHANGED <<recvBuffer, vecBuffer, recvSize, lengths, taken, socket>> /\ ByteStream' = ByteStream
  BY DEF EchoPacket, linkVars, serverVars, netVars, ByteStream, PacketOf
<1>3. /\ Heard < Len(lengths) /\ worker[w].packet = PacketOf(Heard + 1) /\ Ended(taken - worker[w].left, Heard + 1)
      /\ vecBuffer = <<>> /\ worker[w].off > 0
  BY <1>1, Holds DEF Place
<1>4. /\ worker'[w] = [pc |-> "tail", kind |-> "recv", left |-> worker[w].left, off |-> worker[w].off, packet |-> <<>>]
      /\ \A u \in Workers \ {w} : worker'[u] = worker[u]
  <2>1. Become(w, [worker[w] EXCEPT !.pc = "tail", !.packet = <<>>])
    BY DEF EchoPacket
  <2>2. JobShape(w) /\ worker[w].kind = "recv" /\ worker = [u \in Workers |-> worker[u]]
    BY <1>1, Holds
  <2>3. [worker[w] EXCEPT !.pc = "tail", !.packet = <<>>]
          = [pc |-> "tail", kind |-> "recv", left |-> worker[w].left, off |-> worker[w].off, packet |-> <<>>]
    BY <2>2, Echoed
  <2> QED BY <2>1, <2>2, <2>3, Becomes
<1>5. echoed' = Append(echoed, PacketOf(Heard + 1))
  BY <1>3 DEF EchoPacket, WellInv
<1>6. Heard' = Heard + 1
  BY <1>5, AppendProperties DEF Heard, WellInv, DataTyped
<1>7. Piece(w)'
  <2>1. Piece(w) /\ taken \in Nat /\ worker[w].left \in Nat /\ worker[w].off \in Nat
    BY <1>1, Holds
  <2>2. /\ worker'[w].left \in Nat /\ worker'[w].off \in Nat
        /\ worker'[w].left + worker'[w].off = worker[w].left + worker[w].off
    BY <1>4, <2>1
  <2> QED BY <1>2, <2>1, <2>2, PieceKept
<1>8. Place(w)'
  <2>1. worker'[w].pc = "tail" /\ vecBuffer' = <<>> /\ worker'[w].off > 0 /\ (taken - worker[w].left)' = taken - worker[w].left
    BY <1>2, <1>3, <1>4
  <2>2. Ended(taken - worker[w].left, Heard)'
    BY <1>2, <1>3, <1>6, <2>1 DEF Ended
  <2> QED BY <2>1, <2>2 DEF Place
<1>9. HasBytes(w)'
  BY <1>4 DEF HasBytes
<1>10. ClientHandInv'
  BY <1>1, <1>4, <1>7, <1>8, <1>9, Holds, HandStep
<1> QED BY <1>2, <1>3, <1>5, <1>10

\* After a packet the next one begins, and its size is the one at the start of
\* _RecvBuffer, all packets of the piece being of one length; or the piece is at
\* its end.
LEMMA TailData ==
  ASSUME LengthsAssumption, BufferAssumption, BoundsAssumption, CtlInv, WellInv, NEW w \in Workers, Tail_(w)
  PROVE  ClientHandInv'
<1> DEFINE l == worker[w].left
           p == taken - l
<1>1. HasBytes(w) /\ worker[w].pc = "tail"
  <2>1. worker[w].kind = "recv"
    BY DEF Tail_, CtlInv, CtlTyped, JobShape
  <2> QED BY <2>1 DEF Tail_, HasBytes
<1>2. UNCHANGED <<recvBuffer, vecBuffer, echoed, lengths, taken, socket>> /\ ByteStream' = ByteStream
  BY DEF Tail_, linkVars, serverVars, netVars, ByteStream, PacketOf
<1>3. Ended(p, Heard) /\ vecBuffer = <<>> /\ worker[w].off > 0 /\ Piece(w)
  BY <1>1, Holds DEF Place
<1>4. /\ l \in Nat /\ worker[w].off \in Nat /\ taken \in Nat /\ taken <= Len(ByteStream) /\ Len(ByteStream) \in Nat /\ p \in Nat
      /\ Heard \in Nat /\ First(w) = taken - l - worker[w].off + 1 /\ First(w) \in 1 .. taken /\ SizeLen \in Nat \ {0}
      /\ l > 0 => p < Len(ByteStream)
  BY <1>1, Holds DEF BufferAssumption
<1>5. At(p, Heard, 0)
  <2> HIDE DEF p
  <2> QED BY <1>3, <1>4, p <= taken DEF At, p
<1>6. ASSUME l > 0
      PROVE  /\ Heard + 1 \in 1 .. Len(lengths) /\ lengths[Heard + 1] \in Nat /\ lengths[Heard + 1] >= SizeLen
             /\ ByteStream[p + 1] = <<Heard + 1, 1>>
  <2>1. ClientStreamInv /\ p < Len(ByteStream)
    BY <1>4, <1>6 DEF WellInv
  <2> HIDE DEF p
  <2>2. /\ Heard + 1 \in 1 .. Len(lengths) /\ lengths[Heard + 1] \in Nat /\ 0 < lengths[Heard + 1]
        /\ lengths[Heard + 1] >= SizeLen
        /\ \A i \in 1 .. lengths[Heard + 1] - 0 :
             p + i \in 1 .. Len(ByteStream) /\ ByteStream[p + i] = <<Heard + 1, 0 + i>>
    <3>1. p \in Nat /\ Heard \in Nat /\ 0 \in Nat
      BY <1>4
    <3> QED BY <1>5, <2>1, <3>1, NextBytes
  <2>3. 1 \in 1 .. lengths[Heard + 1] - 0
    BY <1>4, <2>2
  <2> QED BY <2>2, <2>3
<1>7. CASE l >= SizeLen
  <2>1. l > 0
    BY <1>4, <1>7
  <2>2. /\ worker'[w] = [pc |-> "loop", kind |-> "recv", left |-> l, off |-> worker[w].off, packet |-> worker[w].packet]
        /\ \A u \in Workers \ {w} : worker'[u] = worker[u]
    <3>1. Become(w, [worker[w] EXCEPT !.pc = "loop"])
      BY <1>7 DEF Tail_
    <3> QED BY <1>1, <3>1, Holds, Becomes, Labelled, ZenonT(40)
  <2>3. recvSize' = lengths[Heard + 1]
    <3>1. p \in First(w) .. taken /\ p + 1 \in First(w) .. taken /\ p # 0
      <4> DEFINE o == worker[w].off
      <4> HIDE DEF o, l
      <4>1. o > 0
        BY <1>3 DEF o
      <4> QED BY <1>4, <2>1, <4>1 DEF o
    <3>2. ByteStream[p][1] = Heard /\ ByteStream[p + 1][1] = Heard + 1
      BY <1>3, <1>6, <2>1, <3>1 DEF Ended
    <3>3. ~ \A j \in First(w) .. taken : ByteStream[j][1] = ByteStream[taken][1]
      <4> HIDE DEF p
      <4>1. Heard # Heard + 1
        BY <1>4
      <4> QED BY <3>1, <3>2, <4>1
    <3>4. /\ ByteStream[First(w)][2] = 1
          /\ \A j \in First(w) .. taken : lengths[ByteStream[j][1]] = lengths[ByteStream[First(w)][1]]
      BY <1>3, <3>3 DEF Piece
    <3>5. lengths[ByteStream[First(w)][1]] = lengths[Heard + 1]
      <4> HIDE DEF p
      <4> QED BY <3>1, <3>2, <3>4
    <3>6. \A i \in 1 .. SizeLen : recvBuffer[i] = <<ByteStream[First(w)][1], i>>
      <4> DEFINE f == First(w)
                 o == worker[w].off
                 d == ByteStream[f][1]
      <4>1. f \in 1 .. Len(ByteStream) /\ ByteInv(f)
        <5> HIDE DEF f
        <5>1. f \in 1 .. Len(ByteStream)
          BY <1>4 DEF f
        <5> QED BY <5>1 DEF WellInv, ClientStreamInv, ByteInv
      <4>2. /\ ByteStream[f][2] = 1 /\ d \in 1 .. Len(lengths)
            /\ \A i \in 1 .. lengths[d] : ByteStream[f + i - 1] = <<d, i>>
        BY <3>4, <4>1 DEF ByteInv
      <4>3. lengths[d] \in Nat /\ lengths[d] >= SizeLen
        BY <4>2 DEF WellInv, ClientStreamInv, LengthsAssumption
      <4>4. \A i \in 1 .. l + o : recvBuffer[i] = ByteStream[f + i - 1]
        BY <1>3 DEF Piece
      <4>5. \A i \in 1 .. SizeLen : i \in 1 .. lengths[d] /\ i \in 1 .. l + o
        <5> HIDE DEF l, o, d, f
        <5> QED BY <1>4, <1>7, <4>3, SMTT(40) DEF o
      <4> QED BY <4>2, <4>4, <4>5
    <3>7. ByteStream[First(w)][1] \in Nat /\ ByteStream[First(w)][1] > 0
      <4>1. First(w) \in 1 .. Len(ByteStream) /\ Len(lengths) \in Nat
        BY <1>4 DEF WellInv, ClientStreamInv
      <4> QED BY <4>1 DEF WellInv, ClientStreamInv
    <3>8. SizesAtStart = {lengths[Heard + 1]}
      BY <3>5, <3>6, <3>7, SizesAre DEF WellInv
    <3> QED BY <1>7, <3>8 DEF Tail_
  <2>5. Piece(w)'
    BY <1>1, <1>2, <1>3, <2>2, PieceKept, Holds, SMTT(40)
  <2>6. Place(w)'
    <3>1. worker'[w].pc = "loop" /\ worker'[w].left > 0 /\ (taken - worker[w].left)' = p
      BY <1>2, <2>1, <2>2
    <3>2. Len(vecBuffer') = 0 /\ vecBuffer' = <<>> /\ Heard' = Heard
      BY <1>2, <1>3 DEF Heard
    <3>3. At(taken - worker[w].left, Heard, Len(vecBuffer))'
      <4> HIDE DEF p
      <4> QED BY <1>2, <1>5, <3>1, <3>2 DEF At, Ended
    <3>4. vecBuffer' = Numbered(Heard + 1, Len(vecBuffer))'
      <4>1. Numbered(Heard + 1, Len(vecBuffer))' = [i \in 1 .. 0 |-> <<Heard' + 1, i>>]
        BY <3>2 DEF Numbered
      <4> QED BY <3>2, <4>1
    <3> QED BY <1>2, <2>3, <3>1, <3>2, <3>3, <3>4 DEF Place
  <2>7. HasBytes(w)'
    BY <2>2 DEF HasBytes
  <2> QED BY <1>1, <2>2, <2>5, <2>6, <2>7, Holds, HandStep
<1>8. CASE ~(l >= SizeLen)
  <2>1. EndCallback(w) /\ recvSize' = 0
    BY <1>8 DEF Tail_
  <2>2. ~HasBytes(w)' /\ \A u \in Workers \ {w} : worker'[u] = worker[u]
    BY <2>1, EndsOrHangs DEF WellInv
  <2>5. Pending(taken)'
    <3>1. l = 0
      <4>1. SUFFICES ASSUME l > 0 PROVE FALSE
        BY <1>4
      <4> DEFINE d == Heard
      <4>2. l < SizeLen /\ 0 + l < lengths[Heard + 1] /\ l + 0 < lengths[Heard + 1] /\ Heard + 1 \in 1 .. Len(lengths)
        <5> HIDE DEF l
        <5>1. lengths[Heard + 1] \in Nat /\ lengths[Heard + 1] >= SizeLen /\ Heard + 1 \in 1 .. Len(lengths)
          BY <1>6, <4>1
        <5> QED BY <1>4, <1>8, <5>1, SMTT(40)
      <4> HIDE DEF l, d
      <4>3. /\ ClientStreamInv /\ taken \in Nat /\ taken <= Len(ByteStream) /\ l \in Nat /\ l > 0 /\ taken - l \in Nat
            /\ d \in Nat /\ 0 \in Nat /\ At(taken - l, d, 0) /\ l + 0 < lengths[d + 1]
        BY <1>4, <1>5, <4>1, <4>2 DEF WellInv, d
      <4>4. ByteStream[taken] = <<d + 1, 0 + l>>
        BY <4>3, EndsWithin
      <4>5. ByteStream[taken] = <<Heard + 1, l>>
        BY <4>3, <4>4 DEF d
      <4> QED BY <1>3, <1>4, <4>2, <4>3, <4>5, NotInSize
    <3>2. At(taken, Heard, 0)
      BY <1>4, <1>5, <3>1
    <3>3. Len(vecBuffer') = 0 /\ vecBuffer' = <<>> /\ Heard' = Heard
      BY <1>2, <1>3 DEF Heard
    <3>4. At(taken, Heard, Len(vecBuffer))'
      BY <1>2, <3>2, <3>3 DEF At, Ended
    <3>5. vecBuffer' = Numbered(Heard + 1, Len(vecBuffer))'
      <4>1. Numbered(Heard + 1, Len(vecBuffer))' = [i \in 1 .. 0 |-> <<Heard' + 1, i>>]
        BY <3>3 DEF Numbered
      <4> QED BY <3>3, <4>1
    <3> QED BY <2>1, <3>3, <3>4, <3>5 DEF Pending
  <2> QED BY <1>1, <1>2, <2>2, <2>5, Holds, HandStep
<1> QED BY <1>7, <1>8

-----------------------------------------------------------------------------
(* The theorems.                                                             *)

LEMMA DataInit == BufferAssumption /\ BoundsAssumption /\ ClientInit => DataInv
<1> SUFFICES ASSUME BufferAssumption, BoundsAssumption, ClientInit PROVE DataInv
  OBVIOUS
<1>1. lengths = <<>> /\ Len(lengths) = 0 /\ echoed = <<>> /\ taken = 0 /\ vecBuffer = <<>> /\ recvBuffer = Zeros /\ recvSize = 0 /\ well = TRUE
  BY DEF ClientInit
<1>2. ByteStream = <<>>
  <2> DEFINE P == [k \in 1 .. Len(lengths) |-> PacketOf(k)]
  <2>1. P = <<>>
    BY <1>1
  <2>2. FlattenSeq(P) = P
    <3> HIDE DEF P
    <3>1. Len(P) = 0
      BY <2>1
    <3> QED BY <3>1 DEF FlattenSeq
  <2> QED BY <2>1, <2>2 DEF ByteStream
<1>3. \A w \in Workers : worker[w] = Idle
  BY DEF ClientInit
<1>4. ClientStreamInv
  <2>1. Len(ByteStream) = 0
    BY <1>2
  <2>2. lengths \in Seq(Lengths) /\ ByteStream \in Seq(Bytes) /\ Len(lengths) <= MaxAnswers
    BY <1>1, <1>2 DEF BoundsAssumption
  <2> QED BY <1>1, <2>1, <2>2 DEF ClientStreamInv
<1>5. OneReceive
  BY <1>3 DEF OneReceive, HasBytes, Idle
<1>6. DataTyped
  <2>1. \A w \in Workers : Spans(w)
    BY <1>3 DEF Idle, Spans, BufferAssumption
  <2>2. /\ recvBuffer \in [1 .. ClientRecvLen -> Bytes]
        /\ \A i \in 1 .. ClientRecvLen : recvBuffer[i][1] \in 0 .. Len(lengths)
    BY <1>1, <1>4, ZerosTyped DEF ClientStreamInv
  <2> QED BY <1>1, <1>2, <2>1, <2>2 DEF DataTyped
<1>7. ClientHandInv
  <2>1. \A w \in Workers : ~HasBytes(w)
    BY <1>3 DEF HasBytes, Idle
  <2>2. Pending(taken)
    BY <1>1, <1>2 DEF Pending, At, Ended, Heard, Numbered
  <2> QED BY <2>1, <2>2 DEF ClientHandInv
<1> QED BY <1>4, <1>5, <1>6, <1>7 DEF DataInv

Assumptions == LengthsAssumption /\ BufferAssumption /\ NumbersAssumption /\ BoundsAssumption

LEMMA DataStep == Assumptions /\ ClientInv /\ [ClientNext]_clientVars => DataInv'
<1> SUFFICES ASSUME LengthsAssumption, BufferAssumption, NumbersAssumption, BoundsAssumption, CtlInv, DataInv,
                    [ClientNext]_clientVars
             PROVE  DataInv'
  BY DEF Assumptions, ClientInv
<1>1. ClientStreamInv' /\ DataTyped'
  BY StreamStep, TypesStep DEF DataInv
<1>2. ASSUME well'
      PROVE  OneReceive' /\ ClientHandInv'
  <2>1. well /\ OneReceive'
    BY <1>2, ReceivesStep
  <2>2. WellInv /\ DataTyped
    BY <2>1 DEF DataInv, WellInv
  <2>3. CASE Run \/ GoesOn \/ PostSend \/ Stop \/ PeerCloses \/ UNCHANGED clientVars
    BY <2>1, <2>2, <2>3, ProgramLeaves, DataStays
  <2>4. CASE Answer
    BY <2>1, <2>2, <2>4, AnswerData
  <2>5. ASSUME NEW w \in Workers, Kernel(w) \/ CompleteFailed(w)
        PROVE  ClientHandInv'
    <3>1. CASE CompleteRecv(w)
      BY <1>2, <2>2, <3>1, CompleteRecvData
    <3>2. CASE CompleteEnd(w) \/ CompleteConnect(w) \/ CompleteSend(w) \/ CompleteFailed(w)
      BY <2>2, <3>2, CompletionEmpty, EmptyStays
    <3> QED BY <2>5, <3>1, <3>2 DEF Kernel
  <2>6. ASSUME NEW w \in Workers, Callback(w)
        PROVE  ClientHandInv'
    BY <2>2, <2>6, CallbackEnds, EmptyStays
  <2>7. ASSUME NEW w \in Workers, ClientOnRecv(w)
        PROVE  ClientHandInv'
    BY <2>2, <2>7, RecvBeginsData, NeverShort, FillData, EchoData, TailData, SaveRestData DEF ClientOnRecv
  <2> QED BY <2>1, <2>3, <2>4, <2>5, <2>6, <2>7 DEF ClientNext
<1> QED BY <1>1, <1>2 DEF DataInv

\* While IsConnect says that there is a connection there is one, unless Run had
\* given up; and when Stop has returned no callback is left.
THEOREM FlagsAreTrue ==
  ASSUME BoundsAssumption
  PROVE  ClientSpec => [](ConnectIsTrue /\ StoppedIsQuiet)
<1>1. ClientInit => CtlInv
  BY CtlInit
<1>2. CtlInv /\ [ClientNext]_clientVars => CtlInv'
  BY CtlStep
<1>3. CtlInv => ConnectIsTrue /\ StoppedIsQuiet
  <2> SUFFICES ASSUME CtlInv PROVE ConnectIsTrue /\ StoppedIsQuiet
    OBVIOUS
  <2>1. told \in {"none", "yes", "no"} /\ ConnectInv /\ StopInv
    BY DEF CtlInv, CtlTyped
  <2>2. ConnectIsTrue
    BY <2>1 DEF ConnectInv, ConnectIsTrue
  <2>3. StoppedIsQuiet
    BY <2>1 DEF StopInv, Quiet, StoppedIsQuiet
  <2> QED BY <2>2, <2>3
<1> QED BY <1>1, <1>2, <1>3, PTL DEF ClientSpec

LEMMA ClientInvariance ==
  ASSUME Assumptions
  PROVE  ClientSpec => []ClientInv
<1>1. ClientInit => ClientInv
  BY CtlInit, DataInit DEF Assumptions, ClientInv
<1>2. ClientInv /\ [ClientNext]_clientVars => ClientInv'
  BY CtlStep, DataStep DEF Assumptions, ClientInv
<1> QED BY <1>1, <1>2, PTL DEF ClientSpec

\* With that, the state of the client has its types, however the stream is cut and
\* however many receives share _RecvBuffer: the place of a callback and what is
\* left for it stay within _RecvBuffer, though the sizes it cuts by may be wrong.
THEOREM StateIsRight ==
  ASSUME Assumptions
  PROVE  ClientSpec => []ToldRight
<1>1. ClientInv => ClientTypeOK
  <2> SUFFICES ASSUME ClientInv PROVE ClientTypeOK
    OBVIOUS
  <2>1. CtlTyped /\ DataTyped /\ ClientStreamInv
    BY DEF ClientInv, CtlInv, DataInv
  <2>2. sends \in 0 .. MaxRequests
    <3>1. sends \in 0 .. requests /\ requests \in 0 .. MaxRequests /\ MaxRequests \in Nat
      BY <2>1 DEF CtlTyped, Assumptions, BoundsAssumption
    <3> QED BY <3>1
  <2>3. \A w \in Workers : /\ worker[w].pc \in {"idle", "queued", "loop", "echo", "tail", "rest", "hang"}
                           /\ worker[w].kind \in Kinds /\ worker[w].left \in Nat /\ worker[w].off \in Nat
                           /\ worker[w].left + worker[w].off <= ClientRecvLen
    BY <2>1 DEF CtlTyped, JobShape, Pcs, DataTyped, Spans
  <2>4. bConnect \in BOOLEAN /\ io \in BOOLEAN /\ exist \in BOOLEAN /\ connecting \in BOOLEAN
    BY <2>1, Zenon DEF CtlTyped
  <2>5. /\ appPc \in AppLabels /\ told \in {"none", "yes", "no"} /\ requests \in 0 .. MaxRequests
        /\ socket \in {"none", "bound", "open", "closed"} /\ posted \in Nat
        /\ peer \in {"up", "down"} /\ faults \in 0 .. MaxFaults
    BY <2>1 DEF CtlTyped
  <2>6. /\ recvBuffer \in [1 .. ClientRecvLen -> Bytes] /\ vecBuffer \in Seq(Bytes) /\ recvSize \in Nat
        /\ lengths \in Seq(Lengths) /\ taken \in 0 .. Len(ByteStream)
    BY <2>1 DEF DataTyped, ClientStreamInv
  <2>7. well \in BOOLEAN
    BY <2>1, Zenon DEF DataTyped
  <2> QED BY <2>2, <2>3, <2>4, <2>5, <2>6, <2>7 DEF ClientTypeOK
<1> QED BY <1>1, ClientInvariance, FlagsAreTrue, PTL DEF ToldRight, Assumptions

-----------------------------------------------------------------------------
(* The refinement.                                                           *)

\* Only EchoPacket and the server change what the stream of packets shows.
LEMMA OthersStutter ==
  ASSUME [ClientNext]_clientVars
  PROVE  Answer \/ (\E w \in Workers : EchoPacket(w)) \/ (UNCHANGED <<echoed, lengths>>)
<1>1. CASE Run \/ GoesOn \/ PostSend \/ Stop \/ PeerCloses \/ UNCHANGED clientVars
  BY <1>1 DEF Run, GoesOn, WaitToConnect, WsaSend, StopWait, PostSend, Stop, PeerCloses, clientVars, dataVars, serverVars
<1>2. ASSUME NEW w \in Workers, Kernel(w) \/ CompleteFailed(w)
      PROVE  UNCHANGED <<echoed, lengths>>
  BY <1>2 DEF Kernel, CompleteRecv, CompleteEnd, CompleteConnect, CompleteSend, CompleteFailed, dataVars, serverVars
<1>3. ASSUME NEW w \in Workers, Callback(w) \/ ClientOnRecv(w), ~EchoPacket(w)
      PROVE  UNCHANGED <<echoed, lengths>>
  BY <1>3 DEF Callback, ClientOnRecv, RecvBegins, RecvShort, FillPacket, Tail_, SaveRest, dataVars, serverVars
<1> QED BY <1>1, <1>2, <1>3 DEF ClientNext

LEMMA ClientStepSimulates ==
  ASSUME Assumptions, ClientInv, [ClientNext]_clientVars
  PROVE  [Packets!Next]_(Packets!streamVars)
<1>1. Answers = [k \in 1 .. Len(lengths) |-> PacketOf(k)]
  BY DEF Answers
<1>2. CASE Answer
  <2>1. PICK l \in Lengths : lengths' = Append(lengths, l)
    BY <1>2 DEF Answer
  <2>2. lengths \in Seq(Lengths) /\ Len(lengths) < MaxAnswers /\ Len(lengths) \in Nat /\ MaxAnswers \in Nat
    BY <1>2 DEF ClientInv, DataInv, ClientStreamInv, Answer, Assumptions, BoundsAssumption
  <2>3. Answers' = Append(Answers, Numbered(Len(lengths) + 1, l))
    BY <2>1, <2>2, ClientSentGrows DEF Assumptions
  <2>4. Numbered(Len(lengths) + 1, l) \in {[i \in 1 .. m |-> <<k, i>>] : k \in 1 .. MaxAnswers, m \in Lengths}
    <3>1. Len(lengths) + 1 \in 1 .. MaxAnswers
      BY <2>2
    <3> QED BY <3>1 DEF Numbered
  <2>5. UNCHANGED echoed
    BY <1>2 DEF Answer, dataVars
  <2>6. Packets!Send
    <3> DEFINE S == {[i \in 1 .. m |-> <<k, i>>] : k \in 1 .. MaxAnswers, m \in Lengths}
    <3>1. \E x \in S : Answers' = Append(Answers, x)
      <4> HIDE DEF S
      <4>1. Numbered(Len(lengths) + 1, l) \in S
        BY <2>4 DEF S
      <4> QED BY <2>3, <4>1
    <3>2. Packets!Send <=> ((\E x \in S : Answers' = Append(Answers, x)) /\ echoed' = echoed)
      BY DEF Packets!Send, Answers
    <3> HIDE DEF S
    <3> QED BY <2>5, <3>1, <3>2
  <2> QED BY <2>6 DEF Packets!Next
<1>3. ASSUME NEW w \in Workers, EchoPacket(w), well
      PROVE  Packets!Deliver
  <2>1. Heard < Len(lengths) /\ echoed' = Append(echoed, PacketOf(Heard + 1)) /\ UNCHANGED lengths
    <3>1. CtlInv /\ WellInv /\ LengthsAssumption /\ BufferAssumption /\ BoundsAssumption
      BY <1>3 DEF Assumptions, ClientInv, DataInv, WellInv
    <3> QED BY <1>3, <3>1, EchoData
  <2>2. Len(lengths) \in Nat /\ Heard \in Nat
    BY DEF ClientInv, DataInv, ClientStreamInv, DataTyped, Heard
  <2>3. Len(Answers) = Len(lengths) /\ Answers' = Answers /\ Answers[Heard + 1] = PacketOf(Heard + 1)
    <3>1. Heard + 1 \in 1 .. Len(lengths)
      BY <2>1, <2>2
    <3> QED BY <2>1, <2>2, <3>1 DEF Answers, PacketOf
  <2> QED BY <2>1, <2>3 DEF Packets!Deliver, Answers, Heard
<1>4. CASE UNCHANGED <<echoed, lengths>>
  <2>1. Answers' = Answers
    BY <1>4 DEF Answers, PacketOf
  <2> QED BY <1>4, <2>1 DEF Packets!streamVars, Answers
<1>5. ASSUME NEW w \in Workers, EchoPacket(w), ~well
      PROVE  UNCHANGED <<echoed, lengths>>
  BY <1>5 DEF EchoPacket, serverVars
<1> QED BY <1>2, <1>3, <1>4, <1>5, OthersStutter DEF Packets!Next

\* The client implements PacketStream for any number of workers and packets, any
\* lengths and any length of _RecvBuffer: EchoPacket gets the packets of the
\* server, whole, each once and in order, also when callbacks and Stop cross, up
\* to the first receive that is not cut well, as CutWell says, or that comes while
\* a callback still reads _RecvBuffer.  Nothing is claimed of what comes after.
THEOREM ClientImplementsStream ==
  ASSUME Assumptions
  PROVE  ClientSpec => ClientIsStream
<1>1. ClientInit => Packets!Init
  <2> SUFFICES ASSUME ClientInit PROVE Packets!Init
    OBVIOUS
  <2>1. [k \in 1 .. Len(lengths) |-> PacketOf(k)] = <<>> /\ echoed = <<>>
    BY DEF ClientInit
  <2> QED BY <2>1 DEF Packets!Init
<1>2. ClientInv /\ [ClientNext]_clientVars => [Packets!Next]_(Packets!streamVars)
  BY ClientStepSimulates
<1> QED BY <1>1, <1>2, ClientInvariance, PTL DEF ClientSpec, ClientIsStream, Packets!Spec
=============================================================================

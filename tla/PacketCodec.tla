---------------------------- MODULE PacketCodec ----------------------------
(***************************************************************************)
(* CSocketBuffer: one side writes values behind a head and takes the bytes *)
(* to send; the other puts what arrives into a buffer, has it verified and *)
(* reads values, of the types that were written or of others.  What        *)
(* arrives may be the packet, a part of it, more than it, or have a byte   *)
(* changed.  A byte is a digit of base Base, 256 in the code.              *)
(***************************************************************************)
EXTENDS Naturals, Sequences, SequencesExt

CONSTANTS
  Base,       \* values of a byte
  Heads,      \* message heads, below Base^4
  Values,     \* [type, value] that are written; a value is a sequence of numbers
  MaxWrites, MaxReads  \* bounds: values written, and read

VARIABLES
  state,     \* "empty", "writing", "sent", "arrived", "reading"
  head,      \* the head given to the first buffer
  out,       \* _Data of the first buffer
  wire,      \* what GetDataPtr returned
  damaged,   \* a byte was changed on the way
  arrived,   \* all that was put into the second buffer
  in,        \* _Data of the second buffer
  verdict,   \* of VerDataPtr
  msgHead,   \* MsgHead, as VerDataPtr leaves it
  written, read   \* values, in order

vars == <<state, head, out, wire, damaged, arrived, in, verdict, msgHead, written, read>>

Init ==
  /\ state = "empty" /\ head \in Heads /\ out = <<>> /\ wire = <<>> /\ damaged = FALSE /\ arrived = <<>> /\ in = <<>>
  /\ verdict = "none" /\ msgHead = Base^4 /\ written = <<>> /\ read = <<>>

\* Mutated form of LittleEndian: a byte is not cut from the value.
ShiftOnly(v, n) == [i \in 1 .. n |-> v \div Base^(i - 1)]

LittleEndian(v, n) == [i \in 1 .. n |-> (v \div Base^(i - 1)) % Base]

\* Get on an empty buffer is 0.
Get(data, i) == IF i <= Len(data) THEN data[i] ELSE 0
Number(data, n) == LET sum[i \in 0 .. n] == IF i = 0 THEN 0 ELSE sum[i - 1] + Get(data, i) * Base^(i - 1) IN sum[n]
Rest(data, n) == SubSeq(data, n + 1, Len(data))

\* int, UINT and float go as a DWORD, a text as its UTF-8 and a 0.
Width == [DWORD |-> 4, ULONGLONG |-> 8, WORD |-> 2, BYTE |-> 1, bool |-> 1]

Bytes(type, v) ==
  CASE type \in DOMAIN Width -> LittleEndian(v[1], Width[type])
    [] type = "SYSTEMTIME" -> FlattenSeq([i \in 1 .. 8 |-> LittleEndian(v[i], 2)])
    [] type = "text" -> Append(v, 0)
    [] type = "raw" -> v

\* Mutated form of TextEnd: a text is all that is left.
TextToEnd(data) == Len(data) + 1

\* Bytes a text takes from the buffer, its 0 included.
TextEnd(data) == LET end == {i \in 1 .. Len(data) + 1 : Get(data, i) = 0} IN CHOOSE i \in end : \A j \in end : i <= j

\* A value read, and the bytes taken for it.
Read(type, data) ==
  CASE type = "bool" -> [value |-> <<IF Get(data, 1) = 1 THEN 1 ELSE 0>>, taken |-> 1]
    [] type \in DOMAIN Width \ {"bool"} -> [value |-> <<Number(data, Width[type])>>, taken |-> Width[type]]
    [] type = "SYSTEMTIME" -> [value |-> [i \in 1 .. 8 |-> Number(Rest(data, 2 * (i - 1)), 2)], taken |-> 16]
    [] type = "text" -> [value |-> SubSeq(data, 1, TextEnd(data) - 1), taken |-> TextEnd(data)]

\* AddVerData: two DWORDs every packet has, none of their bytes 0, and the head.
Magic == <<1, 2, 1, 3, 3, 1, 2, 1>>
InitializeHead ==
  /\ state = "empty" /\ state' = "writing" /\ out' = Magic \o LittleEndian(head, 4)
  /\ UNCHANGED <<head, wire, damaged, arrived, in, verdict, msgHead, written, read>>

\* operator<<, and SetDataPtr for bytes.
Write ==
  /\ state = "writing" /\ Len(written) < MaxWrites
  /\ \E val \in Values : out' = out \o Bytes(val.type, val.value) /\ written' = Append(written, val)
  /\ UNCHANGED <<state, head, wire, damaged, arrived, in, verdict, msgHead, read>>

\* The size counts itself.
GetDataPtr ==
  /\ state = "writing" /\ state' = "sent" /\ wire' = LittleEndian(Len(out) + 4, 4) \o out
  /\ UNCHANGED <<head, out, damaged, arrived, in, verdict, msgHead, written, read>>

\* What SetDataPtr appends is all that came.
SetDataPtr(data) == in' = in \o data /\ arrived' = arrived \o data

Arrive ==
  /\ state = "sent" /\ state' = "arrived"
  /\ \/ SetDataPtr(wire) /\ UNCHANGED damaged
     \/ \E n \in {0, 4, 13, Len(wire) - 1} : SetDataPtr(SubSeq(wire, 1, n)) /\ UNCHANGED damaged
     \/ \E i \in 1 .. Len(wire), b \in 0 .. 1 : b # wire[i] /\ SetDataPtr([wire EXCEPT ![i] = b]) /\ damaged' = TRUE
  /\ UNCHANGED <<head, out, wire, verdict, msgHead, written, read>>

\* The buffer still holds a packet when the next is put into it.
ArriveAgain ==
  /\ state = "arrived" /\ Len(arrived) <= Len(wire)
  /\ \E n \in {1, Len(wire)} : SetDataPtr(SubSeq(wire, 1, n))
  /\ UNCHANGED <<state, head, out, wire, damaged, verdict, msgHead, written, read>>

\* Mutated form of SizeIsWrong: a buffer that holds more will do.
SizeIsShort(size, left) == size > left + 16

SizeIsWrong(size, left) == size # left + 16

VerDataPtr ==
  /\ state = "arrived" /\ state' = "reading" /\ in' = Rest(in, 16)
  /\ LET dword(k) == Number(Rest(in, 4 * k), 4)
         crc == <<dword(1), dword(2)>> = <<Number(Magic, 4), Number(Rest(Magic, 4), 4)>>
     IN  /\ verdict' = CASE ~crc -> "InvalidCRC"
                         [] crc /\ SizeIsWrong(dword(0), Len(in')) -> "InvalidSize"
                         [] OTHER -> "None"
         /\ msgHead' = IF verdict' = "None" THEN dword(3) ELSE msgHead
  /\ UNCHANGED <<head, out, wire, damaged, arrived, written, read>>

\* operator>>, once the packet is accepted.
ReadNext ==
  /\ state = "reading" /\ verdict = "None" /\ Len(read) < MaxReads
  /\ \E type \in DOMAIN Width \union {"text", "SYSTEMTIME"} :
       \E r \in {Read(type, in)} : in' = Rest(in, r.taken) /\ read' = Append(read, [type |-> type, value |-> r.value])
  /\ UNCHANGED <<state, head, out, wire, damaged, arrived, verdict, msgHead, written>>

\* GetSizeBuffer: with fewer bytes than asked for the buffer keeps them, and
\* what comes back was never written.
GetSizeBuffer ==
  /\ state = "reading" /\ verdict = "None" /\ Len(read) < MaxReads
  /\ \E n \in 1 .. 2 :
       IF Len(in) >= n THEN in' = Rest(in, n) /\ read' = Append(read, [type |-> "raw", value |-> SubSeq(in, 1, n)])
       ELSE /\ \E garbage \in [1 .. n -> 0 .. 1] : read' = Append(read, [type |-> "raw", value |-> garbage])
            /\ UNCHANGED in
  /\ UNCHANGED <<state, head, out, wire, damaged, arrived, verdict, msgHead, written>>

\* GetBuffer takes all that is left.
GetBuffer ==
  /\ state = "reading" /\ verdict = "None" /\ Len(read) < MaxReads
  /\ in' = <<>> /\ read' = Append(read, [type |-> "raw", value |-> in])
  /\ UNCHANGED <<state, head, out, wire, damaged, arrived, verdict, msgHead, written>>

Next == InitializeHead \/ Write \/ GetDataPtr \/ Arrive \/ ArriveAgain \/ VerDataPtr \/ ReadNext \/ GetSizeBuffer \/ GetBuffer

Spec == Init /\ [][Next]_vars

-----------------------------------------------------------------------------
(* Properties. *)

\* Type invariant: bytes are bytes, and the size fits its field.
TypeOK ==
  /\ state \in {"empty", "writing", "sent", "arrived", "reading"} /\ head \in Heads
  /\ \A s \in {out, wire, arrived, in} : \A i \in DOMAIN s : s[i] \in 0 .. Base - 1
  /\ damaged \in BOOLEAN /\ verdict \in {"none", "InvalidCRC", "InvalidSize", "None"} /\ msgHead \in 0 .. Base^4
  /\ Range(written) \subseteq Values /\ Len(read) <= MaxReads /\ Len(wire) < Base^4

Types(s) == [i \in DOMAIN s |-> s[i].type]
Lengths(s) == [i \in DOMAIN s |-> Len(s[i].value)]

\* An intact packet is read back as written: as long as the reads are of the
\* types that were written, and as many bytes, they return the values, and
\* reads beyond the last return 0, FALSE or an empty text.
RoundTrip ==
  verdict = "None" /\ arrived = wire =>
    \A n \in 0 .. Len(read) :
      LET w == SubSeq(written, 1, n)  r == SubSeq(read, 1, n)
      IN  /\ n <= Len(written) /\ Types(r) = Types(w) /\ Lengths(SelectSeq(r, LAMBDA x : x.type = "raw")) = Lengths(SelectSeq(w, LAMBDA x : x.type = "raw"))
             => r = w
          /\ n > Len(written) /\ SubSeq(read, 1, Len(written)) = written /\ read[n].type # "raw" => Range(read[n].value) \subseteq {0}

\* What is not damaged but cut short, or followed by more, is not accepted; an
\* intact packet is, with its head.  One cut is: Get makes up the head's last
\* bytes, so a packet without values passes with a part of its head.
OnlyWhole ==
  LET cutHead == Len(wire) = 16 /\ Len(arrived) \in 12 .. 15
  IN  state = "reading" /\ ~damaged /\ (IsPrefix(arrived, wire) \/ IsPrefix(wire, arrived)) =>
                                       /\ verdict = "None" <=> arrived = wire \/ cutHead
                                       /\ arrived = wire => msgHead = head

\* A damaged byte passes only where nothing guards it: in the head or in the
\* values; the size and the two constants are never accepted damaged.
DamageBehindHead ==
  verdict = "None" /\ damaged /\ Len(arrived) = Len(wire) => SubSeq(arrived, 1, 12) = SubSeq(wire, 1, 12)

\* The state has its types, and a packet comes out as it went in or is refused.
Decodes == TypeOK /\ RoundTrip /\ OnlyWhole /\ DamageBehindHead
=============================================================================

--------------------------- MODULE LogForm_proofs ---------------------------
(***************************************************************************)
(* Proofs about LogForm, for any messages, files and bounds, any size of a *)
(* batch and of the lists: the lists, the grid and the bar agree, only a   *)
(* grid whose lists were emptied can make RemoveRange throw, and a saved   *)
(* file comes back.                                                        *)
(***************************************************************************)
EXTENDS LogForm, Loops_proofs

-----------------------------------------------------------------------------
(* The inductive invariant.                                                  *)

Said == Range(Says) \ {Short, Bad}
Messages == [no : 1 .. MaxSent, kind : Range(Says)]
Entries ==
  [no : Nat \ {0}, client : {m.client : m \in Said} \X Nat, content : Seq(SUBSET Texts) \ {<<>>},
   type : {m.type : m \in Said}, line : Nat]
Lines == [line : LineKinds \ {"log"}] \cup [line : {"log"}, entry : Entries]

ControlTyped ==
  /\ recv \in {"on", "ended", "failed", "closed"} /\ modal \in {"none", "confirm", "load"}
  /\ load \in {"none", "parsing", "parsed", "failed"} /\ bAbandon \in BOOLEAN /\ bare \in BOOLEAN
  /\ DOMAIN filter = Fields /\ threw \subseteq {"range", "progress"} /\ clicks \in 0 .. MaxClicks

MessagesTyped == sent \in 0 .. MaxSent /\ tasks \subseteq Messages /\ queue \in Seq(Messages)

ListsTyped == {all, dgv, saved, parsed} \subseteq Seq(Entries) /\ rows \in Nat

FileTyped == dropped \in Seq(Lines) /\ lines \in Seq(Lines) /\ nIndex \in Nat

\* No number is on its way twice, and a number on its way is of a message sent.
FlightInv ==
  /\ \A m \in tasks : m.no <= sent /\ \A i \in DOMAIN queue : m.no # queue[i].no
  /\ \A m, n \in tasks : m.no = n.no => m = n
  /\ \A i \in DOMAIN queue : queue[i].no <= sent
  /\ \A i, j \in DOMAIN queue : queue[i].no = queue[j].no => i = j

\* A number that is on its way no more, and never will be.
Settled(n) ==
  /\ n <= sent \/ n > MaxSent
  /\ \A m \in tasks : m.no # n
  /\ \A i \in DOMAIN queue : queue[i].no # n

IsLog(s, k) == s[k].line = "log"

SettledInv ==
  /\ \A k \in DOMAIN all : Settled(all[k].no)
  /\ \A k \in DOMAIN saved : Settled(saved[k].no)
  /\ \A k \in DOMAIN dropped : IsLog(dropped, k) => Settled(dropped[k].entry.no)

Distinct(s) == \A j, k \in DOMAIN s : s[j].no = s[k].no => j = k

\* d is a part of a, in its order.
InOrder(d, a) ==
  /\ \A i \in DOMAIN d : \E p \in DOMAIN a : a[p] = d[i]
  /\ \A i, j \in DOMAIN d : i < j => \E p, q \in DOMAIN a : p < q /\ a[p] = d[i] /\ a[q] = d[j]

ListsInv == Distinct(all) /\ InOrder(dgv, all) /\ Distinct(saved)

FilteredInv == \A k \in DOMAIN dgv : dgv[k].client[2] = 0 => Passes(dgv[k], filter)

\* How many lines of the file are done, and a file whose lines come in pairs, as all
\* that the form saves do.
done == Len(dropped) - Len(lines)
InPairs(s) == \A k \in DOMAIN s : k % 2 = 1 => s[k].line = "stack"
AsSaved(s) == InPairs(s) /\ Len(s) % 2 = 0 /\ \A k \in DOMAIN s : k % 2 = 0 => IsLog(s, k)

\* What is parsed is of lines that are done, each of another.
ParsedInv ==
  /\ \A j, k \in DOMAIN dropped :
       IsLog(dropped, j) /\ IsLog(dropped, k) /\ dropped[j].entry.no = dropped[k].entry.no => j = k
  /\ Len(lines) <= Len(dropped) /\ \A i \in DOMAIN lines : lines[i] = dropped[done + i]
  /\ load = "parsed" => Len(lines) < 2
  /\ \A k \in DOMAIN parsed : parsed[k].client[2] # 0
  /\ \A k \in DOMAIN parsed : \E j \in 1 .. done : IsLog(dropped, j) /\ dropped[j].entry.no = parsed[k].no
  /\ Distinct(parsed)

PairsInv ==
  /\ InPairs(dropped) => done = 2 * nIndex /\ nProgress \in 0 .. 100
  /\ AsSaved(dropped) => Len(parsed) = nIndex /\ \A k \in 1 .. nIndex : parsed[k] = Reloaded(dropped[2 * k].entry)

ThrewInv == "progress" \in threw => modal = "load" /\ ~ InPairs(dropped)

Inv ==
  /\ ControlTyped /\ MessagesTyped /\ ListsTyped /\ FileTyped
  /\ FlightInv /\ SettledInv /\ ListsInv /\ FilteredInv /\ RowsHaveEntries
  /\ ParsedInv /\ PairsInv /\ ThrewInv

-----------------------------------------------------------------------------
(* Parts of a sequence, in its order.                                        *)

LEMMA InOrderTwice ==
  ASSUME NEW e, NEW d, NEW a, InOrder(e, d), InOrder(d, a)
  PROVE  InOrder(e, a)
<1>1. ASSUME NEW i \in DOMAIN e
      PROVE  \E p \in DOMAIN a : a[p] = e[i]
  <2>1. PICK k \in DOMAIN d : d[k] = e[i]
    BY DEF InOrder
  <2> QED BY <2>1 DEF InOrder
<1>2. ASSUME NEW i \in DOMAIN e, NEW j \in DOMAIN e, i < j
      PROVE  \E p, q \in DOMAIN a : p < q /\ a[p] = e[i] /\ a[q] = e[j]
  <2>1. PICK k \in DOMAIN d, l \in DOMAIN d : k < l /\ d[k] = e[i] /\ d[l] = e[j]
    BY <1>2 DEF InOrder
  <2>2. PICK p \in DOMAIN a, q \in DOMAIN a : p < q /\ a[p] = d[k] /\ a[q] = d[l]
    BY <2>1 DEF InOrder
  <2> QED BY <2>1, <2>2
<1> QED BY <1>1, <1>2 DEF InOrder

LEMMA InOrderSelf ==
  ASSUME NEW S, NEW s \in Seq(S)
  PROVE  InOrder(s, s)
BY DEF InOrder

LEMMA InOrderDistinct ==
  ASSUME NEW S, NEW d \in Seq(S), NEW a \in Seq(S), InOrder(d, a), Distinct(a)
  PROVE  Distinct(d)
<1>1. ASSUME NEW i \in DOMAIN d, NEW j \in DOMAIN d, i < j
      PROVE  d[i].no # d[j].no
  <2>1. PICK p \in DOMAIN a, q \in DOMAIN a : p < q /\ a[p] = d[i] /\ a[q] = d[j]
    BY <1>1 DEF InOrder
  <2>2. p # q
    BY <2>1
  <2> QED BY <2>1, <2>2 DEF Distinct
<1>2. \A i, j \in DOMAIN d : i < j \/ j < i \/ i = j
  OBVIOUS
<1> QED BY <1>1, <1>2 DEF Distinct

LEMMA InOrderConcat ==
  ASSUME NEW S, NEW d \in Seq(S), NEW a \in Seq(S), NEW e \in Seq(S), NEW b \in Seq(S), InOrder(d, a), InOrder(e, b)
  PROVE  InOrder(d \o e, a \o b)
<1> DEFINE D == d \o e
           A == a \o b
           m == Len(d)
           n == Len(a)
<1>1. /\ m \in Nat /\ n \in Nat /\ DOMAIN d = 1 .. m /\ DOMAIN a = 1 .. n
      /\ DOMAIN e = 1 .. Len(e) /\ DOMAIN b = 1 .. Len(b) /\ Len(e) \in Nat /\ Len(b) \in Nat
      /\ DOMAIN D = 1 .. m + Len(e) /\ DOMAIN A = 1 .. n + Len(b)
  OBVIOUS
<1>2. (\A i \in 1 .. m : D[i] = d[i]) /\ \A i \in 1 .. Len(e) : D[m + i] = e[i]
  OBVIOUS
<1>3. (\A i \in 1 .. n : A[i] = a[i]) /\ \A i \in 1 .. Len(b) : A[n + i] = b[i]
  OBVIOUS
<1> HIDE DEF D, A, m, n
<1>4. \A i \in DOMAIN D : i \in 1 .. m \/ \E k \in 1 .. Len(e) : i = m + k
  <2> TAKE i \in DOMAIN D
  <2>1. CASE i <= m
    BY <1>1, <2>1
  <2>2. CASE i > m
    <3>1. i - m \in 1 .. Len(e) /\ i = m + (i - m)
      BY <1>1, <2>2
    <3> QED BY <3>1
  <2> QED BY <1>1, <2>1, <2>2
<1>5. (\A p \in 1 .. n : p \in DOMAIN A) /\ \A p \in 1 .. Len(b) : n + p \in DOMAIN A
  BY <1>1
<1>6. ASSUME NEW i \in DOMAIN D
      PROVE  \E p \in DOMAIN A : A[p] = D[i]
  <2>1. CASE i \in 1 .. m
    <3>1. PICK p \in 1 .. n : a[p] = d[i]
      BY <1>1, <2>1 DEF InOrder
    <3> QED BY <1>2, <1>3, <1>5, <2>1, <3>1
  <2>2. CASE \E k \in 1 .. Len(e) : i = m + k
    <3>1. PICK k \in 1 .. Len(e) : i = m + k
      BY <2>2
    <3>2. PICK p \in 1 .. Len(b) : b[p] = e[k]
      BY <1>1 DEF InOrder
    <3> QED BY <1>2, <1>3, <1>5, <3>1, <3>2
  <2> QED BY <1>4, <2>1, <2>2
<1>7. ASSUME NEW i \in DOMAIN D, NEW j \in DOMAIN D, i < j
      PROVE  \E p, q \in DOMAIN A : p < q /\ A[p] = D[i] /\ A[q] = D[j]
  <2>1. CASE j \in 1 .. m
    <3>1. i \in 1 .. m
      BY <1>1, <1>7, <2>1
    <3>2. PICK p \in 1 .. n, q \in 1 .. n : p < q /\ a[p] = d[i] /\ a[q] = d[j]
      BY <1>1, <1>7, <2>1, <3>1 DEF InOrder
    <3> QED BY <1>2, <1>3, <1>5, <2>1, <3>1, <3>2
  <2>2. CASE i \in 1 .. m /\ \E l \in 1 .. Len(e) : j = m + l
    <3>1. PICK l \in 1 .. Len(e) : j = m + l
      BY <2>2
    <3>2. PICK p \in 1 .. n : a[p] = d[i]
      BY <1>1, <2>2 DEF InOrder
    <3>3. PICK q \in 1 .. Len(b) : b[q] = e[l]
      BY <1>1 DEF InOrder
    <3>4. p < n + q
      BY <1>1
    <3> QED BY <1>2, <1>3, <1>5, <2>2, <3>1, <3>2, <3>3, <3>4
  <2>3. CASE (\E k \in 1 .. Len(e) : i = m + k) /\ \E l \in 1 .. Len(e) : j = m + l
    <3>1. PICK k \in 1 .. Len(e), l \in 1 .. Len(e) : i = m + k /\ j = m + l
      BY <2>3
    <3>2. k < l /\ k \in DOMAIN e /\ l \in DOMAIN e
      BY <1>1, <1>7, <3>1
    <3>3. PICK p \in DOMAIN b, q \in DOMAIN b : p < q /\ b[p] = e[k] /\ b[q] = e[l]
      BY <3>2 DEF InOrder
    <3>4. n + p < n + q
      BY <1>1, <3>3
    <3> QED BY <1>2, <1>3, <1>5, <3>1, <3>3, <3>4
  <2>4. ~ (j \in 1 .. m /\ \E k \in 1 .. Len(e) : i = m + k)
    BY <1>1, <1>7
  <2> QED BY <1>4, <2>1, <2>2, <2>3, <2>4
<1> QED BY <1>6, <1>7 DEF InOrder, D, A

\* What is at a place of the part is at no earlier place of the whole.
LEMMA PlaceAtLeast ==
  ASSUME NEW S, NEW d \in Seq(S), NEW a \in Seq(S), InOrder(d, a), Distinct(a)
  PROVE  \A i \in DOMAIN d, p \in DOMAIN a : a[p] = d[i] => i <= p
<1>1. Len(d) \in Nat /\ DOMAIN d = 1 .. Len(d) /\ Len(a) \in Nat /\ DOMAIN a = 1 .. Len(a)
  OBVIOUS
<1> DEFINE M == {i \in DOMAIN d : \E p \in DOMAIN a : a[p] = d[i] /\ p < i}
<1>2. ASSUME M # {}
      PROVE  FALSE
  <2>1. PICK i \in M : \A k \in M : i <= k
    <3>1. M \subseteq Nat
      BY <1>1
    <3> QED BY <1>2, <3>1, LeastNumber DEF HasLeast
  <2>2. PICK p \in DOMAIN a : a[p] = d[i] /\ p < i
    BY <2>1
  <2>3. i - 1 \in DOMAIN d /\ i - 1 < i /\ i - 1 \notin M
    BY <1>1, <2>1, <2>2
  <2>4. PICK q \in DOMAIN a, r \in DOMAIN a : q < r /\ a[q] = d[i - 1] /\ a[r] = d[i]
    BY <2>1, <2>3 DEF InOrder
  <2>5. r = p
    BY <2>2, <2>4 DEF Distinct
  <2>6. ~ (q < i - 1)
    BY <2>3, <2>4
  <2> QED BY <1>1, <2>1, <2>2, <2>4, <2>5, <2>6
<1> QED BY <1>1, <1>2

LEMMA RestOf ==
  ASSUME NEW S, NEW s \in Seq(S), NEW n \in Nat, n <= Len(s)
  PROVE  LET t == SubSeq(s, n + 1, Len(s))
         IN  /\ t \in Seq(S) /\ Len(t) = Len(s) - n /\ DOMAIN t = 1 .. Len(s) - n
             /\ \A i \in DOMAIN t : t[i] = s[n + i] /\ n + i \in DOMAIN s
<1> DEFINE t == SubSeq(s, n + 1, Len(s))
<1>1. Len(s) \in Nat /\ n + 1 \in Nat
  OBVIOUS
<1>2. t \in Seq(S) /\ Len(t) = Len(s) - n
  BY <1>1
<1>3. DOMAIN t = 1 .. Len(s) - n
  BY <1>2
<1>4. \A i \in DOMAIN t : t[i] = s[n + i] /\ n + i \in DOMAIN s
  BY <1>1, <1>3
<1> QED BY <1>2, <1>3, <1>4

LEMMA InOrderHalf ==
  ASSUME NEW S, NEW d \in Seq(S), NEW a \in Seq(S), InOrder(d, a), Distinct(a), NEW n \in Nat, n <= Len(d)
  PROVE  /\ SubSeq(d, n + 1, Len(d)) \in Seq(S) /\ SubSeq(a, n + 1, Len(a)) \in Seq(S)
         /\ Len(SubSeq(d, n + 1, Len(d))) = Len(d) - n
         /\ InOrder(SubSeq(d, n + 1, Len(d)), SubSeq(a, n + 1, Len(a)))
         /\ Distinct(SubSeq(a, n + 1, Len(a)))
         /\ InOrder(SubSeq(d, n + 1, Len(d)), d)
         /\ \A k \in DOMAIN SubSeq(a, n + 1, Len(a)) : \E p \in DOMAIN a : SubSeq(a, n + 1, Len(a))[k] = a[p]
<1> DEFINE D == SubSeq(d, n + 1, Len(d))
           A == SubSeq(a, n + 1, Len(a))
<1>1. Len(d) \in Nat /\ DOMAIN d = 1 .. Len(d) /\ Len(a) \in Nat /\ DOMAIN a = 1 .. Len(a)
  OBVIOUS
<1>2. n <= Len(a)
  <2>1. CASE Len(d) = 0
    BY <1>1, <2>1
  <2>2. CASE Len(d) # 0
    <3>1. Len(d) \in DOMAIN d
      BY <1>1, <2>2
    <3>2. PICK p \in DOMAIN a : a[p] = d[Len(d)]
      BY <3>1 DEF InOrder
    <3>3. Len(d) <= p
      BY <3>1, <3>2, PlaceAtLeast
    <3> QED BY <1>1, <3>3
  <2> QED BY <2>1, <2>2
<1>3. /\ D \in Seq(S) /\ Len(D) = Len(d) - n /\ DOMAIN D = 1 .. Len(d) - n
      /\ \A i \in DOMAIN D : D[i] = d[n + i] /\ n + i \in DOMAIN d
  BY <1>1, RestOf
<1>4. /\ A \in Seq(S) /\ DOMAIN A = 1 .. Len(a) - n /\ \A i \in DOMAIN A : A[i] = a[n + i] /\ n + i \in DOMAIN a
  BY <1>1, <1>2, RestOf
<1> HIDE DEF D, A
<1>5. ASSUME NEW i \in DOMAIN D, NEW p \in DOMAIN a, a[p] = D[i]
      PROVE  p - n \in DOMAIN A /\ A[p - n] = D[i]
  <2>1. n + i \in DOMAIN d /\ a[p] = d[n + i] /\ i >= 1
    BY <1>3, <1>5
  <2>2. n + i <= p
    BY <2>1, PlaceAtLeast
  <2>3. p - n \in 1 .. Len(a) - n /\ n + (p - n) = p
    <3>1. p \in Nat /\ p <= Len(a)
      BY <1>1
    <3>2. i \in Nat
      BY <1>1, <1>3
    <3> QED BY <1>1, <2>1, <2>2, <3>1, <3>2
  <2> QED BY <1>4, <1>5, <2>3
<1>6. InOrder(D, A)
  <2>1. ASSUME NEW i \in DOMAIN D
        PROVE  \E p \in DOMAIN A : A[p] = D[i]
    <3>1. PICK p \in DOMAIN a : a[p] = D[i]
      BY <1>3 DEF InOrder
    <3> QED BY <1>5, <3>1
  <2>2. ASSUME NEW i \in DOMAIN D, NEW j \in DOMAIN D, i < j
        PROVE  \E p, q \in DOMAIN A : p < q /\ A[p] = D[i] /\ A[q] = D[j]
    <3>1. n + i \in DOMAIN d /\ n + j \in DOMAIN d /\ n + i < n + j
      BY <1>1, <1>3, <2>2
    <3>2. PICK p \in DOMAIN a, q \in DOMAIN a : p < q /\ a[p] = D[i] /\ a[q] = D[j]
      BY <1>3, <3>1 DEF InOrder
    <3>3. p - n < q - n
      BY <1>1, <3>2
    <3> QED BY <1>5, <3>2, <3>3
  <2> QED BY <2>1, <2>2 DEF InOrder
<1>7. Distinct(A)
  BY <1>1, <1>4 DEF Distinct
<1>8. InOrder(D, d)
  <2>1. \A i, j \in DOMAIN D : i < j => n + i < n + j
    BY <1>1, <1>3
  <2> QED BY <1>3, <2>1 DEF InOrder
<1> QED BY <1>3, <1>4, <1>6, <1>7, <1>8 DEF D, A

\* What passes is a part, in its order.
LEMMA PassingInOrder ==
  ASSUME NEW S, NEW s \in Seq(S), NEW by
  PROVE  /\ PassingOf(s, by) \in Seq(S) /\ InOrder(PassingOf(s, by), s)
         /\ \A k \in DOMAIN PassingOf(s, by) : Passes(PassingOf(s, by)[k], by)
<1> DEFINE I == {k \in DOMAIN s : Passes(s[k], by)}
           t == Kept(s, I)
<1>1. Selects(t, Len(s), S, s, I) /\ DOMAIN s = 1 .. Len(s) /\ PassingOf(s, by) = t
  BY KeptSelects DEF PassingOf
<1>2. \A k \in I : Passes(s[k], by)
  OBVIOUS
<1> HIDE DEF t, I
<1>3. t \in Seq(S) /\ DOMAIN t = 1 .. Len(t)
  BY <1>1 DEF Selects
<1>4. InOrder(t, s)
  <2>1. ASSUME NEW i \in DOMAIN t
        PROVE  \E p \in DOMAIN s : s[p] = t[i]
    <3>1. PICK p \in 1 .. Len(s) : p \in I /\ t[i] = s[p]
      BY <1>1, <1>3 DEF Selects
    <3> QED BY <1>1, <3>1
  <2>2. ASSUME NEW i \in DOMAIN t, NEW j \in DOMAIN t, i < j
        PROVE  \E p, q \in DOMAIN s : p < q /\ s[p] = t[i] /\ s[q] = t[j]
    <3>1. PICK p \in 1 .. Len(s), q \in 1 .. Len(s) : p < q /\ t[i] = s[p] /\ t[j] = s[q]
      BY <1>1, <1>3, <2>2 DEF Selects
    <3> QED BY <1>1, <3>1
  <2> QED BY <2>1, <2>2 DEF InOrder
<1>5. \A k \in DOMAIN t : Passes(t[k], by)
  <2> TAKE k \in DOMAIN t
  <2>1. PICK j \in 1 .. Len(s) : j \in I /\ t[k] = s[j]
    BY <1>1, <1>3 DEF Selects
  <2> QED BY <1>2, <2>1
<1> QED BY <1>1, <1>3, <1>4, <1>5

-----------------------------------------------------------------------------
(* Which actions change what.                                                *)

LEMMA MessagesChange ==
  [Next]_formVars =>
    WndProc \/ (\E t \in tasks : Enqueue(t)) \/ GetDLLMessageThread \/ UNCHANGED msgVars
BY DEF Next, User, formVars, ShowException, CellValueNeeded, Click, btnFilter_Click, btnRestore_Click, cbAbandon_CheckedChanged, Clear, Answer,
       Form1_FormClosing, SaveFile, DragDrop, GetFileTextThrows, ConvertToList, LoadLogFile, Worker

LEMMA ListsChange ==
  [Next]_formVars =>
    \/ GetDLLMessageThread \/ CellValueNeeded
    \/ \E by \in Offers : btnFilter_Click(by)
    \/ btnRestore_Click \/ Answer(TRUE) \/ LoadLogFile
    \/ UNCHANGED <<all, dgv, rows, bare, filter>>
BY DEF Next, User, formVars, listVars, WndProc, Enqueue, ShowException, cbAbandon_CheckedChanged, Clear, Answer,
       Form1_FormClosing, SaveFile, DragDrop, GetFileTextThrows, ConvertToList, Worker

LEMMA FileChange ==
  [Next]_formVars =>
    \/ \E file \in {Foreign(f) : f \in OtherFiles} \cup {LinesOf(saved)} : DragDrop(file)
    \/ ConvertToList
    \/ /\ UNCHANGED <<lines, dropped, parsed, nIndex, nProgress>>
       /\ load' = load \/ load' = "failed" \/ LoadLogFile
BY DEF Next, User, formVars, loadVars, WndProc, Enqueue, GetDLLMessageThread, ShowException, CellValueNeeded, btnFilter_Click, btnRestore_Click,
       cbAbandon_CheckedChanged, Clear, Answer, Form1_FormClosing, SaveFile, GetFileTextThrows, LoadLogFile, Worker

LEMMA SavedChange ==
  [Next]_formVars => SaveFile \/ UNCHANGED saved
BY DEF Next, User, formVars, WndProc, Enqueue, GetDLLMessageThread, ShowException, CellValueNeeded, btnFilter_Click, btnRestore_Click,
       cbAbandon_CheckedChanged, Clear, Answer, Form1_FormClosing, DragDrop, GetFileTextThrows, ConvertToList, LoadLogFile, Worker

\* The three ways of Clear_Half.
IsHalf(half, d, a) ==
  LET n == rows \div 2
  IN  \/ n = 0 /\ half.dgv = <<>> /\ half.all = <<>> /\ half.rows = 0 /\ half.bare = TRUE /\ half.throws = FALSE
      \/ n # 0 /\ n > Len(d) /\ half.dgv = d /\ half.all = a /\ half.rows = rows /\ half.bare = bare /\ half.throws = TRUE
      \/ /\ n # 0 /\ ~ (n > Len(d))
         /\ half.dgv = SubSeq(d, n + 1, Len(d)) /\ half.all = SubSeq(a, n + 1, Len(a))
         /\ half.rows = n /\ half.bare = bare /\ half.throws = FALSE

LEMMA HalfCases ==
  ASSUME NEW d, NEW a
  PROVE  IsHalf(ClearHalf(d, a), d, a)
<1> DEFINE n == rows \div 2
           D == SubSeq(d, n + 1, Len(d))
           A == SubSeq(a, n + 1, Len(a))
           h == ClearHalf(d, a)
<1>1. CASE n = 0
  <2>1. h = [Whole(<<>>, <<>>) EXCEPT !.rows = 0, !.bare = TRUE]
    BY <1>1 DEF ClearHalf
  <2> QED BY <1>1, <2>1 DEF Whole, IsHalf
<1>2. CASE n # 0 /\ n > Len(d)
  <2>1. h = [Whole(d, a) EXCEPT !.throws = TRUE]
    BY <1>2 DEF ClearHalf
  <2> QED BY <1>2, <2>1 DEF Whole, IsHalf
<1>3. CASE n # 0 /\ ~ (n > Len(d))
  <2>1. h = [Whole(D, A) EXCEPT !.rows = n]
    BY <1>3 DEF ClearHalf
  <2> HIDE DEF D, A, n
  <2>2. h.dgv = D /\ h.all = A /\ h.rows = n /\ h.bare = bare /\ h.throws = FALSE
    BY <2>1 DEF Whole
  <2> QED BY <1>3, <2>2 DEF IsHalf, n, D, A
<1> QED BY <1>1, <1>2, <1>3

\* A turn of the loop: the lists with what it took, and half of them if it was the
\* last it could take.
TurnEnds(d, a) == dgv' = d /\ all' = a /\ UNCHANGED <<rows, bare, threw>>

TurnGoesOn(d, a, half) ==
  /\ dgv' = half.dgv /\ all' = half.all /\ bare' = half.bare
  /\ IF half.throws THEN recv' = "ended" /\ threw' = threw \cup {"range"} /\ rows' = rows
                    ELSE rows' = half.rows + Len(d) - Len(dgv) /\ UNCHANGED <<recv, threw>>

Turn(got) ==
  LET d == dgv \o PassingOf(got, filter)
      a == all \o got
  IN  \/ recv' \in {"ended", "failed"} /\ TurnEnds(d, a)
      \/ TurnGoesOn(d, a, Whole(d, a))
      \/ TurnGoesOn(d, a, ClearHalf(d, a))

LEMMA TurnIs ==
  ASSUME GetDLLMessageThread
  PROVE  Turn(Handled(SubSeq(queue, 1, Min({Len(queue), Batch}))))
<1> DEFINE batch == SubSeq(queue, 1, Min({Len(queue), Batch}))
           got == Handled(batch)
           d == dgv \o PassingOf(got, filter)
           a == all \o got
<1>1. IF Len(got) < Len(batch)
      THEN recv' \in {"ended", "failed"} /\ dgv' = d /\ all' = a /\ UNCHANGED <<rows, bare, threw>>
      ELSE \E half \in {IF Len(a) >= nMaxLogCount THEN ClearHalf(d, a) ELSE Whole(d, a)} : TurnGoesOn(d, a, half)
  <2>1. PICK b \in {batch} : \E g \in {Handled(b)} : \E e \in {dgv \o PassingOf(g, filter)} : \E l \in {all \o g} :
          IF Len(g) < Len(b)
          THEN recv' \in {"ended", "failed"} /\ dgv' = e /\ all' = l /\ UNCHANGED <<rows, bare, threw>>
          ELSE \E half \in {IF Len(l) >= nMaxLogCount THEN ClearHalf(e, l) ELSE Whole(e, l)} : TurnGoesOn(e, l, half)
    <3>1. PICK b \in {batch} : \E g \in {Handled(b)} : \E e \in {dgv \o PassingOf(g, filter)} : \E l \in {all \o g} :
            /\ queue' = SubSeq(queue, Len(b) + 1, Len(queue))
            /\ names' = names \cup {g[k].client : k \in DOMAIN g}
            /\ IF Len(g) < Len(b)
               THEN /\ recv' = Stopped(b[Len(g) + 1])
                    /\ dgv' = e /\ all' = l /\ UNCHANGED <<rows, bare, threw>>
               ELSE \E half \in {IF Len(l) >= nMaxLogCount THEN ClearHalf(e, l) ELSE Whole(e, l)} : TurnGoesOn(e, l, half)
      BY DEF GetDLLMessageThread, TurnGoesOn
    <3>2. PICK g \in {Handled(b)} : \E e \in {dgv \o PassingOf(g, filter)} : \E l \in {all \o g} :
            /\ queue' = SubSeq(queue, Len(b) + 1, Len(queue))
            /\ names' = names \cup {g[k].client : k \in DOMAIN g}
            /\ IF Len(g) < Len(b)
               THEN /\ recv' = Stopped(b[Len(g) + 1])
                    /\ dgv' = e /\ all' = l /\ UNCHANGED <<rows, bare, threw>>
               ELSE \E half \in {IF Len(l) >= nMaxLogCount THEN ClearHalf(e, l) ELSE Whole(e, l)} : TurnGoesOn(e, l, half)
      BY <3>1, Zenon
    <3>3. PICK e \in {dgv \o PassingOf(g, filter)} : \E l \in {all \o g} :
            /\ queue' = SubSeq(queue, Len(b) + 1, Len(queue))
            /\ names' = names \cup {g[k].client : k \in DOMAIN g}
            /\ IF Len(g) < Len(b)
               THEN /\ recv' = Stopped(b[Len(g) + 1])
                    /\ dgv' = e /\ all' = l /\ UNCHANGED <<rows, bare, threw>>
               ELSE \E half \in {IF Len(l) >= nMaxLogCount THEN ClearHalf(e, l) ELSE Whole(e, l)} : TurnGoesOn(e, l, half)
      BY <3>2, Zenon
    <3>4. PICK l \in {all \o g} :
            /\ queue' = SubSeq(queue, Len(b) + 1, Len(queue))
            /\ names' = names \cup {g[k].client : k \in DOMAIN g}
            /\ IF Len(g) < Len(b)
               THEN /\ recv' = Stopped(b[Len(g) + 1])
                    /\ dgv' = e /\ all' = l /\ UNCHANGED <<rows, bare, threw>>
               ELSE \E half \in {IF Len(l) >= nMaxLogCount THEN ClearHalf(e, l) ELSE Whole(e, l)} : TurnGoesOn(e, l, half)
      BY <3>3, Zenon
    <3>5. Stopped(b[Len(g) + 1]) \in {"ended", "failed"}
      BY DEF Stopped
    <3>6. IF Len(g) < Len(b)
          THEN recv' \in {"ended", "failed"} /\ dgv' = e /\ all' = l /\ UNCHANGED <<rows, bare, threw>>
          ELSE \E half \in {IF Len(l) >= nMaxLogCount THEN ClearHalf(e, l) ELSE Whole(e, l)} : TurnGoesOn(e, l, half)
      BY <3>4, <3>5, Zenon
    <3> QED BY <3>6, Zenon
  <2>2. b = batch
    OBVIOUS
  <2> QED BY <2>1, <2>2, Zenon
<1> HIDE DEF batch, got, d, a
<1>2. (recv' \in {"ended", "failed"} /\ TurnEnds(d, a)) \/ TurnGoesOn(d, a, Whole(d, a)) \/ TurnGoesOn(d, a, ClearHalf(d, a))
  BY <1>1 DEF TurnEnds
<1> QED BY <1>2 DEF Turn, batch, got, d, a

LEMMA TurnChanges ==
  ASSUME GetDLLMessageThread
  PROVE  recv' \in {recv, "ended", "failed"} /\ bare' \in {bare, TRUE} /\ threw' \in {threw, threw \cup {"range"}}
<1>1. PICK got : Turn(got)
  BY TurnIs
<1> DEFINE d == dgv \o PassingOf(got, filter)
           a == all \o got
<1>2. (recv' \in {"ended", "failed"} /\ TurnEnds(d, a)) \/ TurnGoesOn(d, a, Whole(d, a)) \/ TurnGoesOn(d, a, ClearHalf(d, a))
  BY <1>1 DEF Turn
<1> HIDE DEF d, a
<1>3. CASE recv' \in {"ended", "failed"} /\ TurnEnds(d, a)
  BY <1>3 DEF TurnEnds
<1>4. CASE TurnGoesOn(d, a, Whole(d, a))
  BY <1>4 DEF TurnGoesOn, Whole
<1>5. CASE TurnGoesOn(d, a, ClearHalf(d, a))
  BY <1>5, HalfCases DEF TurnGoesOn, IsHalf
<1> QED BY <1>2, <1>3, <1>4, <1>5

LEMMA ControlStep ==
  ControlTyped /\ [Next]_formVars => ControlTyped'
<1> SUFFICES ASSUME ControlTyped, [Next]_formVars
             PROVE  ControlTyped'
  OBVIOUS
<1> USE BoundsAssumption
<1>1. CASE WndProc
  BY <1>1 DEF WndProc, ControlTyped, listVars, loadVars
<1>2. CASE \E t \in tasks : Enqueue(t)
  BY <1>2 DEF Enqueue, ControlTyped, listVars, loadVars
<1>3. CASE GetDLLMessageThread
  <2>1. recv' \in {recv, "ended", "failed"} /\ bare' \in {bare, TRUE} /\ threw' \in {threw, threw \cup {"range"}}
    BY <1>3, TurnChanges
  <2> QED BY <1>3, <2>1 DEF GetDLLMessageThread, ControlTyped, loadVars
<1>3a. CASE ShowException
  BY <1>3a DEF ShowException, ControlTyped, loadVars, listVars
<1>4. CASE CellValueNeeded
  <2>1. bare' \in {bare, TRUE} /\ threw' \in {threw, threw \cup {"range"}}
    <3>1. PICK half \in {ClearHalf(dgv, all)} : bare' = half.bare /\ threw' = IF half.throws THEN threw \cup {"range"} ELSE threw
      BY <1>4 DEF CellValueNeeded
    <3>2. IsHalf(half, dgv, all)
      BY <3>1, HalfCases
    <3> QED BY <3>1, <3>2 DEF IsHalf
  <2> QED BY <1>4, <2>1 DEF CellValueNeeded, ControlTyped, loadVars
<1>5. CASE \E by \in Offers : btnFilter_Click(by)
  <2>1. DOMAIN filter' = Fields /\ bare' \in BOOLEAN
    BY <1>5 DEF btnFilter_Click, Shown
  <2> QED BY <1>5, <2>1 DEF btnFilter_Click, Click, ControlTyped, loadVars
<1>6. CASE btnRestore_Click
  <2>1. DOMAIN filter' = Fields /\ bare' \in BOOLEAN
    BY <1>6 DEF btnRestore_Click, Shown, NoFilter
  <2> QED BY <1>6, <2>1 DEF btnRestore_Click, Click, ControlTyped, loadVars
<1>7. CASE cbAbandon_CheckedChanged
  BY <1>7 DEF cbAbandon_CheckedChanged, Click, ControlTyped, listVars, loadVars
<1>8. CASE Clear
  BY <1>8 DEF Clear, Click, ControlTyped, listVars, loadVars
<1>9. CASE \E yes \in BOOLEAN : Answer(yes)
  BY <1>9 DEF Answer, Shown, ControlTyped, listVars, loadVars
<1>10. CASE SaveFile
  BY <1>10 DEF SaveFile, Click, ControlTyped, listVars, loadVars
<1>11. CASE \E file \in {Foreign(f) : f \in OtherFiles} \cup {LinesOf(saved)} : DragDrop(file)
  BY <1>11 DEF DragDrop, Click, ControlTyped, listVars, loadVars
<1>12. CASE Form1_FormClosing
  BY <1>12 DEF Form1_FormClosing, Click, ControlTyped, listVars, loadVars
<1>13. CASE GetFileTextThrows
  BY <1>13 DEF GetFileTextThrows, ControlTyped, listVars, loadVars
<1>14. CASE ConvertToList
  BY <1>14 DEF ConvertToList, ControlTyped, listVars, loadVars
<1>15. CASE LoadLogFile
  BY <1>15 DEF LoadLogFile, Shown, ControlTyped, listVars, loadVars
<1>16. CASE Worker
  BY <1>16 DEF Worker, ControlTyped, listVars, loadVars
<1>17. CASE UNCHANGED formVars
  BY <1>17 DEF formVars, ControlTyped, listVars, loadVars
<1> QED BY <1>1, <1>2, <1>3, <1>3a, <1>4, <1>5, <1>6, <1>7, <1>8, <1>9, <1>10, <1>11, <1>12, <1>13, <1>14, <1>15, <1>16, <1>17 DEF Next, User

-----------------------------------------------------------------------------
(* Messages on their way.                                                    *)

LEMMA LeastIsMin ==
  ASSUME NEW T, T \subseteq Nat, T # {}
  PROVE  Min(T) \in T /\ \A y \in T : Min(T) <= y
BY LeastNumber DEF HasLeast, Min

\* A number that is settled in the next state.
StaysSettled(n) ==
  /\ n <= sent' \/ n > MaxSent
  /\ \A m \in tasks' : m.no # n
  /\ \A i \in DOMAIN queue' : queue'[i].no # n

Took == Handled(SubSeq(queue, 1, Min({Len(queue), Batch})))

LEMMA SaidIs ==
  \A m \in Said : m.content \in Seq(SUBSET Texts) \ {<<>>} /\ m.line \in Nat
  BY SaysAssumption DEF Said

LEMMA EntryTyped ==
  ASSUME NEW m \in Messages, m.kind \notin {Short, Bad}
  PROVE  Entry(m) \in Entries /\ Entry(m).no = m.no /\ Entry(m).client[2] = 0
<1>1. m.kind \in Said /\ m.no \in Nat \ {0}
  BY DEF Messages, Said
<1>2. <<m.kind.client, 0>> \in {n.client : n \in Said} \X Nat
  BY <1>1
<1>3. m.kind.type \in {n.type : n \in Said}
  BY <1>1
<1>4. m.kind.content \in Seq(SUBSET Texts) \ {<<>>} /\ m.kind.line \in Nat
  BY <1>1, SaidIs
<1> QED BY <1>1, <1>2, <1>3, <1>4 DEF Entry, Entries

LEMMA TookIs ==
  ASSUME MessagesTyped, queue # <<>>
  PROVE  LET n == Min({Len(queue), Batch})
         IN  /\ n \in 1 .. Len(queue) /\ Len(SubSeq(queue, 1, n)) = n
             /\ Took \in Seq(Entries) /\ Len(Took) \in 0 .. n
             /\ \A k \in 1 .. Len(Took) : Took[k].no = queue[k].no /\ Took[k].client[2] = 0
<1> DEFINE n == Min({Len(queue), Batch})
           batch == SubSeq(queue, 1, n)
           ends == {i \in DOMAIN batch : Ends(batch[i])}
           T == {Len(batch)} \cup {k - 1 : k \in ends}
           m == Min(T)
<1>1. Len(queue) \in Nat \ {0} /\ queue \in Seq(Messages) /\ Batch \in Nat \ {0}
  BY BatchAssumption DEF MessagesTyped
<1>2. n \in 1 .. Len(queue)
  <2>1. {Len(queue), Batch} \subseteq Nat /\ {Len(queue), Batch} # {}
    BY <1>1
  <2>2. n \in {Len(queue), Batch} /\ n <= Len(queue)
    BY <2>1, LeastIsMin
  <2> QED BY <1>1, <2>2
<1> HIDE DEF n
<1>3. /\ batch \in Seq(Messages) /\ Len(batch) = n /\ DOMAIN batch = 1 .. n
      /\ \A k \in 1 .. n : batch[k] = queue[k] /\ queue[k] \in Messages
  BY <1>1, <1>2
<1> HIDE DEF batch
<1>4. m \in 0 .. n /\ \A k \in 1 .. m : k \notin ends
  <2>1. T \subseteq Nat /\ T # {} /\ Len(batch) \in T
    BY <1>2, <1>3
  <2> HIDE DEF T
  <2>2. m \in T /\ \A y \in T : m <= y
    BY <2>1, LeastIsMin
  <2>3. \A k \in ends : k - 1 \in T /\ k \in Nat
    BY <1>3 DEF T
  <2>4. m \in Nat /\ m <= n
    BY <1>3, <2>1, <2>2
  <2>5. ASSUME NEW k \in ends, k \in 1 .. m
        PROVE  FALSE
    <3>1. m <= k - 1
      BY <2>2, <2>3
    <3> QED BY <2>3, <2>4, <2>5, <3>1
  <2> QED BY <1>2, <2>4, <2>5
<1>5. Took = [k \in 1 .. m |-> Entry(batch[k])]
  BY DEF Took, Handled, batch, n
<1> HIDE DEF T, m
<1>6. ASSUME NEW k \in 1 .. m
      PROVE  /\ Entry(batch[k]) \in Entries /\ Entry(batch[k]).no = queue[k].no
             /\ Entry(batch[k]).client[2] = 0
  <2>1. k \in 1 .. n /\ k \in DOMAIN batch /\ ~ Ends(batch[k])
    BY <1>2, <1>3, <1>4
  <2>2. batch[k] \in Messages /\ batch[k].kind \notin {Short, Bad} /\ batch[k].no = queue[k].no
    BY <1>3, <2>1 DEF Ends
  <2> HIDE DEF ends
  <2> QED BY <2>2, EntryTyped
<1>7. m \in Nat
  BY <1>2, <1>4
<1>8. Took \in Seq(Entries) /\ Len(Took) = m /\ \A k \in 1 .. m : Took[k] = Entry(batch[k])
  BY <1>5, <1>6, <1>7
<1> QED BY <1>2, <1>3, <1>4, <1>6, <1>8 DEF n, batch

LEMMA MessagesStep ==
  ASSUME MessagesTyped, FlightInv, [Next]_formVars
  PROVE  MessagesTyped' /\ FlightInv' /\ \A n \in Nat : Settled(n) => StaysSettled(n)
<1>1. CASE WndProc
  <2> DEFINE m == [no |-> sent + 1, kind |-> Says[sent + 1]]
  <2>1. sent' = sent + 1 /\ sent' \in 0 .. MaxSent /\ tasks' = tasks \cup {m} /\ queue' = queue
    BY <1>1, SaysAssumption DEF WndProc, MessagesTyped, MaxSent
  <2>2. m \in Messages /\ m.no = sent + 1
    <3>1. sent + 1 \in DOMAIN Says /\ Says[sent + 1] \in Range(Says)
      BY <1>1, SaysAssumption DEF WndProc, MessagesTyped, MaxSent, Range
    <3> QED BY <2>1, <3>1 DEF Messages, MessagesTyped
  <2> HIDE DEF m
  <2>3. /\ MaxSent \in Nat /\ sent \in Nat /\ sent < MaxSent
        /\ (\A i \in DOMAIN queue : queue[i].no \in Nat) /\ \A t \in tasks : t.no \in Nat
    <3>1. MaxSent \in Nat /\ sent < MaxSent
      BY <1>1, SaysAssumption DEF MaxSent, WndProc
    <3>2. \A i \in DOMAIN queue : queue[i] \in Messages
      BY DEF MessagesTyped
    <3> QED BY <3>1, <3>2 DEF MessagesTyped, Messages
  <2>4. MessagesTyped'
    BY <2>1, <2>2 DEF MessagesTyped
  <2>5. FlightInv'
    BY <2>1, <2>2, <2>3 DEF FlightInv
  <2>6. ASSUME NEW n \in Nat, Settled(n)
        PROVE  StaysSettled(n)
    <3>1. n # sent + 1 /\ (n <= sent + 1 \/ n > MaxSent)
      BY <2>1, <2>3, <2>6 DEF Settled, StaysSettled
    <3> QED BY <2>1, <2>2, <2>6, <3>1 DEF Settled, StaysSettled
  <2> QED BY <2>4, <2>5, <2>6
<1>2. CASE \E t \in tasks : Enqueue(t)
  <2>1. PICK t \in tasks : queue' = Append(queue, t) /\ tasks' = tasks \ {t} /\ sent' = sent
    BY <1>2 DEF Enqueue
  <2>2. t \in Messages /\ t.no <= sent /\ queue \in Seq(Messages)
    BY DEF MessagesTyped, FlightInv
  <2>3. /\ queue' \in Seq(Messages) /\ DOMAIN queue' = 1 .. Len(queue) + 1 /\ DOMAIN queue = 1 .. Len(queue)
        /\ queue'[Len(queue) + 1] = t /\ (\A i \in DOMAIN queue : queue'[i] = queue[i]) /\ Len(queue) \in Nat
    BY <2>1, <2>2, AppendProperties
  <2>4. \A i \in DOMAIN queue' : i \in DOMAIN queue \/ i = Len(queue) + 1
    BY <2>3
  <2>5. MessagesTyped'
    BY <2>1, <2>3 DEF MessagesTyped
  <2>6. FlightInv'
    <3>1. \A m \in tasks' : m.no <= sent' /\ \A i \in DOMAIN queue' : m.no # queue'[i].no
      BY <2>1, <2>3, <2>4 DEF FlightInv
    <3>2. \A m, n \in tasks' : m.no = n.no => m = n
      BY <2>1 DEF FlightInv
    <3>3. \A i \in DOMAIN queue' : queue'[i].no <= sent'
      BY <2>1, <2>2, <2>3, <2>4 DEF FlightInv
    <3>4. \A i, j \in DOMAIN queue' : queue'[i].no = queue'[j].no => i = j
      BY <2>3, <2>4 DEF FlightInv
    <3> QED BY <3>1, <3>2, <3>3, <3>4 DEF FlightInv
  <2>7. \A n \in Nat : Settled(n) => StaysSettled(n)
    BY <2>1, <2>3, <2>4 DEF Settled, StaysSettled
  <2> QED BY <2>5, <2>6, <2>7
<1>3. CASE GetDLLMessageThread
  <2> DEFINE n == Min({Len(queue), Batch})
  <2>1. queue # <<>> /\ queue' = SubSeq(queue, Len(SubSeq(queue, 1, n)) + 1, Len(queue)) /\ sent' = sent /\ tasks' = tasks
    BY <1>3 DEF GetDLLMessageThread, MessagesWait
  <2>2. n \in 1 .. Len(queue) /\ Len(SubSeq(queue, 1, n)) = n
    BY <2>1, TookIs
  <2> HIDE DEF n
  <2>3. queue \in Seq(Messages) /\ n \in Nat /\ n <= Len(queue) /\ queue' = SubSeq(queue, n + 1, Len(queue))
    BY <2>1, <2>2 DEF MessagesTyped
  <2>4. queue' \in Seq(Messages) /\ \A i \in DOMAIN queue' : queue'[i] = queue[n + i] /\ n + i \in DOMAIN queue
    BY <2>3, RestOf
  <2>5. MessagesTyped'
    BY <2>1, <2>4 DEF MessagesTyped
  <2>6. FlightInv'
    <3>1. \A i, j \in DOMAIN queue' : n + i = n + j => i = j
      BY <2>3, <2>4
    <3>2. \A m \in tasks : m.no <= sent /\ \A i \in DOMAIN queue' : m.no # queue'[i].no
      BY <2>4 DEF FlightInv
    <3>3. \A i \in DOMAIN queue' : queue'[i].no <= sent
      BY <2>4 DEF FlightInv
    <3>4. ASSUME NEW i \in DOMAIN queue', NEW j \in DOMAIN queue', queue'[i].no = queue'[j].no
          PROVE  i = j
      BY <2>4, <3>1, <3>4 DEF FlightInv
    <3> QED BY <2>1, <3>2, <3>3, <3>4 DEF FlightInv
  <2>7. \A k \in Nat : Settled(k) => StaysSettled(k)
    BY <2>1, <2>4 DEF Settled, StaysSettled
  <2> QED BY <2>5, <2>6, <2>7
<1>4. CASE UNCHANGED msgVars
  BY <1>4 DEF msgVars, MessagesTyped, FlightInv, Settled, StaysSettled
<1> QED BY <1>1, <1>2, <1>3, <1>4, MessagesChange

\* What a turn takes is on its way no more.
LEMMA TookSettled ==
  ASSUME MessagesTyped, FlightInv, GetDLLMessageThread
  PROVE  /\ \A k \in DOMAIN Took : StaysSettled(Took[k].no) /\ ~ Settled(Took[k].no)
         /\ Distinct(Took)
<1> DEFINE n == Min({Len(queue), Batch})
<1>1. /\ queue # <<>> /\ queue' = SubSeq(queue, Len(SubSeq(queue, 1, n)) + 1, Len(queue))
      /\ sent' = sent /\ tasks' = tasks
  BY DEF GetDLLMessageThread, MessagesWait
<1>2. /\ n \in 1 .. Len(queue) /\ Len(SubSeq(queue, 1, n)) = n
      /\ Took \in Seq(Entries) /\ Len(Took) \in 0 .. n
      /\ \A k \in 1 .. Len(Took) : Took[k].no = queue[k].no
  BY <1>1, TookIs
<1> HIDE DEF n
<1>3. queue \in Seq(Messages) /\ n \in Nat /\ n <= Len(queue) /\ queue' = SubSeq(queue, n + 1, Len(queue))
  BY <1>1, <1>2 DEF MessagesTyped
<1>4. \A i \in DOMAIN queue' : queue'[i] = queue[n + i] /\ n + i \in DOMAIN queue /\ i > 0
  BY <1>3, RestOf
<1>5. \A k \in DOMAIN Took : k \in DOMAIN queue /\ Took[k].no = queue[k].no /\ k <= n /\ k \in Nat
  BY <1>2, <1>3
<1>6. ASSUME NEW k \in DOMAIN Took
      PROVE  StaysSettled(Took[k].no) /\ ~ Settled(Took[k].no)
  <2>1. \A i \in DOMAIN queue' : n + i # k
    <3> TAKE i \in DOMAIN queue'
    <3>1. i \in Nat /\ i > 0
      BY <1>3, <1>4, RestOf
    <3> QED BY <1>3, <1>5, <3>1
  <2>2. Took[k].no = queue[k].no /\ k \in DOMAIN queue /\ Took[k].no <= sent
    BY <1>5 DEF FlightInv
  <2>3. \A m \in tasks : m.no # Took[k].no
    BY <2>2 DEF FlightInv
  <2>4. \A i \in DOMAIN queue' : queue'[i].no # Took[k].no
    BY <1>4, <2>1, <2>2 DEF FlightInv
  <2> QED BY <1>1, <2>2, <2>3, <2>4 DEF Settled, StaysSettled
<1>7. Distinct(Took)
  BY <1>5 DEF FlightInv, Distinct
<1> QED BY <1>6, <1>7

-----------------------------------------------------------------------------
(* The lists and the rows of the grid.                                       *)

\* What any two lists keep when half of the rows goes from both.
LEMMA HalfLists ==
  ASSUME NEW d \in Seq(Entries), NEW a \in Seq(Entries), InOrder(d, a), Distinct(a), rows \in Nat,
         NEW half, IsHalf(half, d, a)
  PROVE  /\ half.dgv \in Seq(Entries) /\ half.all \in Seq(Entries)
         /\ InOrder(half.dgv, half.all) /\ Distinct(half.all) /\ InOrder(half.dgv, d) /\ half.rows \in Nat
         /\ \A k \in DOMAIN half.all : \E p \in DOMAIN a : half.all[k] = a[p]
         /\ ~ half.bare /\ ~ half.throws => ~ bare /\ 2 * half.rows <= rows /\ Len(half.dgv) = Len(d) - half.rows
         /\ half.throws => half.dgv = d /\ half.bare = bare /\ rows > Len(d)
<1> DEFINE n == rows \div 2
<1>1. n \in Nat /\ 2 * n <= rows /\ n <= rows
  OBVIOUS
<1>2. CASE n = 0 /\ half.dgv = <<>> /\ half.all = <<>> /\ half.rows = 0 /\ half.bare = TRUE /\ half.throws = FALSE
  <2>1. <<>> \in Seq(Entries) /\ DOMAIN <<>> = {}
    OBVIOUS
  <2>2. InOrder(<<>>, <<>>) /\ InOrder(<<>>, d) /\ Distinct(<<>>)
    BY <2>1 DEF InOrder, Distinct
  <2> QED BY <1>2, <2>1, <2>2
<1>3. CASE n # 0 /\ n > Len(d) /\ half.dgv = d /\ half.all = a /\ half.rows = rows /\ half.bare = bare /\ half.throws = TRUE
  <2>1. InOrder(d, d) /\ rows > Len(d)
    BY <1>1, <1>3, InOrderSelf
  <2> QED BY <1>3, <2>1
<1>4. CASE /\ n # 0 /\ ~ (n > Len(d))
           /\ half.dgv = SubSeq(d, n + 1, Len(d)) /\ half.all = SubSeq(a, n + 1, Len(a))
           /\ half.rows = n /\ half.bare = bare /\ half.throws = FALSE
  <2> HIDE DEF n
  <2>1. n <= Len(d)
    BY <1>1, <1>4
  <2>2. /\ SubSeq(d, n + 1, Len(d)) \in Seq(Entries) /\ SubSeq(a, n + 1, Len(a)) \in Seq(Entries)
        /\ Len(SubSeq(d, n + 1, Len(d))) = Len(d) - n
        /\ InOrder(SubSeq(d, n + 1, Len(d)), SubSeq(a, n + 1, Len(a)))
        /\ Distinct(SubSeq(a, n + 1, Len(a)))
        /\ InOrder(SubSeq(d, n + 1, Len(d)), d)
        /\ \A k \in DOMAIN SubSeq(a, n + 1, Len(a)) : \E p \in DOMAIN a : SubSeq(a, n + 1, Len(a))[k] = a[p]
    BY <1>1, <2>1, InOrderHalf
  <2> QED BY <1>1, <1>4, <2>2
<1> QED BY <1>2, <1>3, <1>4 DEF IsHalf

\* The lists with what a turn takes.
TurnDgv == dgv \o PassingOf(Took, filter)
TurnAll == all \o Took

LEMMA TurnLists ==
  ASSUME Inv, [Next]_formVars, GetDLLMessageThread
  PROVE  /\ TurnDgv \in Seq(Entries) /\ TurnAll \in Seq(Entries) /\ Len(dgv) <= Len(TurnDgv)
         /\ InOrder(TurnDgv, TurnAll) /\ Distinct(TurnAll)
         /\ \A k \in DOMAIN TurnDgv : TurnDgv[k].client[2] = 0 => Passes(TurnDgv[k], filter)
         /\ \A k \in DOMAIN TurnAll : StaysSettled(TurnAll[k].no)
         /\ \/ recv' \in {"ended", "failed"} /\ TurnEnds(TurnDgv, TurnAll)
            \/ TurnGoesOn(TurnDgv, TurnAll, Whole(TurnDgv, TurnAll))
            \/ TurnGoesOn(TurnDgv, TurnAll, ClearHalf(TurnDgv, TurnAll))
<1> DEFINE P == PassingOf(Took, filter)
<1>1. queue # <<>> /\ MessagesTyped /\ FlightInv
  BY DEF GetDLLMessageThread, MessagesWait, Inv
<1>2. all \in Seq(Entries) /\ dgv \in Seq(Entries) /\ Took \in Seq(Entries)
  BY <1>1, TookIs DEF Inv, ListsTyped
<1>3. P \in Seq(Entries) /\ InOrder(P, Took) /\ \A k \in DOMAIN P : Passes(P[k], filter)
  BY <1>2, PassingInOrder
<1>4. InOrder(dgv, all) /\ Distinct(all) /\ FilteredInv /\ (\A k \in DOMAIN all : Settled(all[k].no))
  BY DEF Inv, ListsInv, SettledInv
<1>5. (\A k \in DOMAIN Took : StaysSettled(Took[k].no) /\ ~ Settled(Took[k].no)) /\ Distinct(Took)
  BY <1>1, TookSettled
<1>6. \A k \in DOMAIN all : StaysSettled(all[k].no)
  <2>1. \A k \in DOMAIN all : all[k] \in Entries
    BY <1>2
  <2>2. \A k \in DOMAIN all : all[k].no \in Nat
    BY <2>1 DEF Entries
  <2>3. \A n \in Nat : Settled(n) => StaysSettled(n)
    BY <1>1, MessagesStep
  <2> QED BY <1>4, <2>2, <2>3
<1>7. /\ TurnAll \in Seq(Entries) /\ DOMAIN TurnAll = 1 .. Len(all) + Len(Took)
      /\ DOMAIN all = 1 .. Len(all) /\ DOMAIN Took = 1 .. Len(Took) /\ Len(all) \in Nat /\ Len(Took) \in Nat
      /\ \A k \in DOMAIN all : TurnAll[k] = all[k]
      /\ \A k \in DOMAIN TurnAll : k \in DOMAIN all \/ (k - Len(all) \in DOMAIN Took /\ TurnAll[k] = Took[k - Len(all)])
  BY <1>2 DEF TurnAll
<1> HIDE DEF P
<1>8. /\ TurnDgv \in Seq(Entries) /\ Len(dgv) <= Len(TurnDgv)
      /\ \A k \in DOMAIN dgv : TurnDgv[k] = dgv[k]
      /\ \A k \in DOMAIN TurnDgv : k \in DOMAIN dgv \/ (k - Len(dgv) \in DOMAIN P /\ TurnDgv[k] = P[k - Len(dgv)])
  BY <1>2, <1>3 DEF TurnDgv, P
<1>9. InOrder(TurnDgv, TurnAll)
  BY <1>2, <1>3, <1>4, InOrderConcat DEF TurnDgv, TurnAll, P
<1>10. \A k \in DOMAIN TurnAll : StaysSettled(TurnAll[k].no)
  BY <1>5, <1>6, <1>7
<1>11. Distinct(TurnAll)
  <2>1. SUFFICES ASSUME NEW j \in DOMAIN TurnAll, NEW k \in DOMAIN TurnAll, TurnAll[j].no = TurnAll[k].no
                 PROVE  j = k
    BY DEF Distinct
  <2>2. CASE j \in DOMAIN all /\ k \in DOMAIN all
    BY <1>4, <1>7, <2>1, <2>2 DEF Distinct
  <2>3. CASE j \notin DOMAIN all /\ k \notin DOMAIN all
    <3>1. j - Len(all) = k - Len(all)
      BY <1>5, <1>7, <2>1, <2>3 DEF Distinct
    <3> QED BY <1>7, <3>1
  <2>4. ~ (j \in DOMAIN all /\ k \notin DOMAIN all) /\ ~ (k \in DOMAIN all /\ j \notin DOMAIN all)
    BY <1>4, <1>5, <1>7, <2>1
  <2> QED BY <2>2, <2>3, <2>4
<1>12. \A k \in DOMAIN TurnDgv : TurnDgv[k].client[2] = 0 => Passes(TurnDgv[k], filter)
  BY <1>3, <1>4, <1>8 DEF FilteredInv
<1>13. \/ recv' \in {"ended", "failed"} /\ TurnEnds(TurnDgv, TurnAll)
       \/ TurnGoesOn(TurnDgv, TurnAll, Whole(TurnDgv, TurnAll))
       \/ TurnGoesOn(TurnDgv, TurnAll, ClearHalf(TurnDgv, TurnAll))
  BY TurnIs DEF Turn, Took, TurnDgv, TurnAll
<1> QED BY <1>7, <1>8, <1>9, <1>10, <1>11, <1>12, <1>13

\* The lists of the next state: what holds of them after every step.
NextLists ==
  /\ all' \in Seq(Entries) /\ dgv' \in Seq(Entries) /\ rows' \in Nat
  /\ Distinct(all') /\ InOrder(dgv', all')
  /\ \A k \in DOMAIN all' : StaysSettled(all'[k].no)
  /\ \A k \in DOMAIN dgv' : dgv'[k].client[2] = 0 => Passes(dgv'[k], filter')
  /\ ~ bare' => rows' <= Len(dgv')
  /\ "range" \in threw' /\ "range" \notin threw => bare

\* Entries that are part of others are as settled as these, and pass as these do.
LEMMA PartOf ==
  ASSUME NEW e, NEW d, InOrder(e, d), NEW by
  PROVE  /\ (\A k \in DOMAIN d : StaysSettled(d[k].no)) => \A k \in DOMAIN e : StaysSettled(e[k].no)
         /\ (\A k \in DOMAIN d : d[k].client[2] = 0 => Passes(d[k], by))
              => \A k \in DOMAIN e : e[k].client[2] = 0 => Passes(e[k], by)
<1>1. \A k \in DOMAIN e : \E p \in DOMAIN d : d[p] = e[k]
  BY DEF InOrder
<1>2. ASSUME \A k \in DOMAIN d : StaysSettled(d[k].no), NEW k \in DOMAIN e
      PROVE  StaysSettled(e[k].no)
  <2>1. PICK p \in DOMAIN d : d[p] = e[k]
    BY <1>1
  <2>2. StaysSettled(d[p].no)
    BY <1>2
  <2> QED BY <2>1, <2>2
<1>3. ASSUME \A k \in DOMAIN d : d[k].client[2] = 0 => Passes(d[k], by), NEW k \in DOMAIN e, e[k].client[2] = 0
      PROVE  Passes(e[k], by)
  <2>1. PICK p \in DOMAIN d : d[p] = e[k]
    BY <1>1
  <2>2. Passes(d[p], by)
    BY <1>3, <2>1
  <2> QED BY <2>1, <2>2
<1> QED BY <1>2, <1>3

LEMMA HalfNext ==
  ASSUME NEW d \in Seq(Entries), NEW a \in Seq(Entries), InOrder(d, a), Distinct(a), rows \in Nat,
         \A k \in DOMAIN a : StaysSettled(a[k].no),
         \A k \in DOMAIN d : d[k].client[2] = 0 => Passes(d[k], filter), filter' = filter,
         ~ bare => rows <= Len(d),
         NEW half, IsHalf(half, d, a), NEW more \in Nat, ~ bare => rows + more <= Len(d),
         dgv' = half.dgv, all' = half.all, bare' = half.bare,
         half.throws => rows' = rows, ~ half.throws => rows' = half.rows + more /\ threw' = threw
  PROVE  NextLists
<1>1. /\ half.dgv \in Seq(Entries) /\ half.all \in Seq(Entries)
      /\ InOrder(half.dgv, half.all) /\ Distinct(half.all) /\ InOrder(half.dgv, d) /\ half.rows \in Nat
      /\ (\A k \in DOMAIN half.all : \E p \in DOMAIN a : half.all[k] = a[p])
      /\ (~ half.bare /\ ~ half.throws => ~ bare /\ 2 * half.rows <= rows /\ Len(half.dgv) = Len(d) - half.rows)
      /\ (half.throws => half.dgv = d /\ half.bare = bare /\ rows > Len(d))
  BY HalfLists
<1>2. \A k \in DOMAIN all' : StaysSettled(all'[k].no)
  <2> TAKE k \in DOMAIN all'
  <2>1. PICK p \in DOMAIN a : all'[k] = a[p]
    BY <1>1
  <2>2. StaysSettled(a[p].no)
    OBVIOUS
  <2> QED BY <2>1, <2>2
<1>3. \A k \in DOMAIN dgv' : dgv'[k].client[2] = 0 => Passes(dgv'[k], filter')
  <2>1. \A k \in DOMAIN half.dgv : half.dgv[k].client[2] = 0 => Passes(half.dgv[k], filter)
    BY <1>1, PartOf
  <2> QED BY <2>1
<1>4. rows' \in Nat
  BY <1>1
<1>5. ASSUME ~ bare'
      PROVE  rows' <= Len(dgv')
  <2>1. CASE half.throws
    BY <1>1, <1>5, <2>1
  <2>2. CASE ~ half.throws
    <3>1. rows' = half.rows + more /\ 2 * half.rows <= rows /\ Len(dgv') = Len(d) - half.rows /\ rows + more <= Len(d)
      BY <1>1, <1>5, <2>2
    <3> QED BY <1>1, <3>1
  <2> QED BY <2>1, <2>2
<1>6. ASSUME "range" \in threw', "range" \notin threw
      PROVE  bare
  <2>1. half.throws /\ rows > Len(d)
    BY <1>1, <1>6
  <2>2. Len(d) \in Nat
    OBVIOUS
  <2> QED BY <2>1, <2>2
<1> QED BY <1>1, <1>2, <1>3, <1>4, <1>5, <1>6 DEF NextLists

LEMMA TurnNext ==
  ASSUME Inv, [Next]_formVars, GetDLLMessageThread
  PROVE  NextLists
<1> DEFINE d == TurnDgv
           a == TurnAll
<1>1. /\ d \in Seq(Entries) /\ a \in Seq(Entries) /\ Len(dgv) <= Len(d)
      /\ InOrder(d, a) /\ Distinct(a)
      /\ (\A k \in DOMAIN d : d[k].client[2] = 0 => Passes(d[k], filter))
      /\ \A k \in DOMAIN a : StaysSettled(a[k].no)
  BY TurnLists
<1>2. \/ recv' \in {"ended", "failed"} /\ TurnEnds(d, a)
      \/ TurnGoesOn(d, a, Whole(d, a))
      \/ TurnGoesOn(d, a, ClearHalf(d, a))
  BY TurnLists
<1>3. rows \in Nat /\ (~ bare => rows <= Len(dgv)) /\ filter' = filter /\ dgv \in Seq(Entries)
  BY DEF Inv, ListsTyped, RowsHaveEntries, GetDLLMessageThread
<1> HIDE DEF d, a
<1>4. Len(d) \in Nat /\ Len(dgv) \in Nat
  BY <1>1, <1>3
<1>5. CASE recv' \in {"ended", "failed"} /\ TurnEnds(d, a)
  <2>1. dgv' = d /\ all' = a /\ rows' = rows /\ bare' = bare /\ threw' = threw
    BY <1>5 DEF TurnEnds
  <2>2. ~ bare' => rows' <= Len(dgv')
    BY <1>1, <1>3, <1>4, <2>1
  <2> QED BY <1>1, <1>3, <2>1, <2>2 DEF NextLists
<1>6. CASE TurnGoesOn(d, a, Whole(d, a))
  <2>1. /\ dgv' = d /\ all' = a /\ bare' = bare
        /\ rows' = rows + Len(d) - Len(dgv) /\ threw' = threw
    BY <1>6 DEF TurnGoesOn, Whole
  <2>2. rows' \in Nat /\ (~ bare' => rows' <= Len(dgv'))
    BY <1>1, <1>3, <1>4, <2>1
  <2> QED BY <1>1, <1>3, <2>1, <2>2 DEF NextLists
<1>7. CASE TurnGoesOn(d, a, ClearHalf(d, a))
  <2> DEFINE half == ClearHalf(d, a)
             more == Len(d) - Len(dgv)
  <2>1. /\ dgv' = half.dgv /\ all' = half.all /\ bare' = half.bare
        /\ (half.throws => rows' = rows)
        /\ (~ half.throws => rows' = half.rows + Len(d) - Len(dgv) /\ threw' = threw)
    BY <1>7 DEF TurnGoesOn
  <2>2. IsHalf(half, d, a)
    BY HalfCases
  <2> HIDE DEF half
  <2>3. half.rows \in Nat
    BY <1>1, <1>3, <2>2, HalfLists
  <2>4. more \in Nat /\ (~ bare => rows <= Len(d)) /\ (~ bare => rows + more <= Len(d))
        /\ half.rows + Len(d) - Len(dgv) = half.rows + more
    BY <1>1, <1>3, <1>4, <2>3
  <2> HIDE DEF more
  <2> QED BY <1>1, <1>3, <2>1, <2>2, <2>4, HalfNext
<1> QED BY <1>2, <1>5, <1>6, <1>7

LEMMA SettledStays ==
  ASSUME Inv, [Next]_formVars
  PROVE  /\ \A k \in DOMAIN all : StaysSettled(all[k].no)
         /\ \A k \in DOMAIN saved : StaysSettled(saved[k].no)
         /\ \A k \in DOMAIN dropped : IsLog(dropped, k) => StaysSettled(dropped[k].entry.no)
<1>1. \A n \in Nat : Settled(n) => StaysSettled(n)
  BY MessagesStep DEF Inv
<1>2. \A e \in Entries : e.no \in Nat
  BY DEF Entries
<1>3. (\A k \in DOMAIN all : all[k] \in Entries) /\ \A k \in DOMAIN saved : saved[k] \in Entries
  BY DEF Inv, ListsTyped
<1>4. \A k \in DOMAIN dropped : IsLog(dropped, k) => dropped[k].entry \in Entries
  <2>1. \A l \in Lines : l.line = "log" => l.entry \in Entries
    BY DEF Lines
  <2>2. \A k \in DOMAIN dropped : dropped[k] \in Lines
    BY DEF Inv, FileTyped
  <2> QED BY <2>1, <2>2 DEF IsLog
<1>5. SettledInv
  BY DEF Inv
<1> QED BY <1>1, <1>2, <1>3, <1>4, <1>5 DEF SettledInv

\* Only the steps that drop half of the rows can make RemoveRange throw.
LEMMA RangeThrown ==
  ASSUME [Next]_formVars, UNCHANGED <<all, dgv, rows, bare, filter>>, ~ GetDLLMessageThread, ~ CellValueNeeded
  PROVE  "range" \in threw' => "range" \in threw
BY DEF Next, User, formVars, WndProc, Enqueue, ShowException, btnFilter_Click, btnRestore_Click, cbAbandon_CheckedChanged, Clear, Answer,
       Form1_FormClosing, SaveFile, DragDrop, GetFileTextThrows, ConvertToList, LoadLogFile, Worker

LEMMA CellNext ==
  ASSUME Inv, [Next]_formVars, CellValueNeeded
  PROVE  NextLists
<1>1. PICK half \in {ClearHalf(dgv, all)} :
        /\ dgv' = half.dgv /\ all' = half.all /\ rows' = half.rows /\ bare' = half.bare
        /\ threw' = IF half.throws THEN threw \cup {"range"} ELSE threw
  BY DEF CellValueNeeded
<1>2. IsHalf(half, dgv, all)
  BY HalfCases
<1>3. /\ rows \in Nat /\ (~ bare => rows <= Len(dgv)) /\ filter' = filter
      /\ dgv \in Seq(Entries) /\ all \in Seq(Entries) /\ InOrder(dgv, all) /\ Distinct(all)
      /\ \A k \in DOMAIN dgv : dgv[k].client[2] = 0 => Passes(dgv[k], filter)
  BY DEF Inv, ListsTyped, ListsInv, RowsHaveEntries, FilteredInv, CellValueNeeded
<1>4. \A k \in DOMAIN all : StaysSettled(all[k].no)
  BY SettledStays
<1>5. half.throws => half.rows = rows
  BY <1>2 DEF IsHalf
<1>6. (half.throws => rows' = rows) /\ (~ half.throws => rows' = half.rows + 0 /\ threw' = threw)
  <2>1. half.rows \in Nat
    BY <1>2, <1>3, HalfLists
  <2> QED BY <1>1, <1>5, <2>1
<1>7. ~ bare => rows + 0 <= Len(dgv)
  BY <1>3
<1> QED BY <1>1, <1>2, <1>3, <1>4, <1>6, <1>7, HalfNext

\* A step that shows a list: a part of the list of all that it leaves.
LEMMA ShownNext ==
  ASSUME NEW list, Shown(list), list \in Seq(Entries), all' \in Seq(Entries), Distinct(all'), InOrder(list, all'),
         \A k \in DOMAIN all' : StaysSettled(all'[k].no),
         \A k \in DOMAIN list : list[k].client[2] = 0 => Passes(list[k], filter'),
         threw' = threw
  PROVE  NextLists
<1>1. dgv' = list /\ rows' = Len(list) /\ bare' = FALSE /\ Len(list) \in Nat
  BY DEF Shown
<1> QED BY <1>1 DEF NextLists

LEMMA FilterNext ==
  ASSUME Inv, [Next]_formVars, NEW by, btnFilter_Click(by)
  PROVE  NextLists
<1> DEFINE list == PassingOf(dgv, by)
<1>1. /\ Shown(list) /\ all' = all /\ threw' = threw
      /\ filter' = [f \in Fields |-> IF by[f] = None THEN filter[f] ELSE by[f]]
  BY DEF btnFilter_Click
<1>2. /\ dgv \in Seq(Entries) /\ all \in Seq(Entries) /\ InOrder(dgv, all) /\ Distinct(all)
      /\ \A k \in DOMAIN dgv : dgv[k].client[2] = 0 => Passes(dgv[k], filter)
  BY DEF Inv, ListsTyped, ListsInv, FilteredInv
<1>3. list \in Seq(Entries) /\ InOrder(list, dgv) /\ \A k \in DOMAIN list : Passes(list[k], by)
  BY <1>2, PassingInOrder
<1> HIDE DEF list
<1>4. InOrder(list, all)
  BY <1>2, <1>3, InOrderTwice
<1>5. \A k \in DOMAIN list : list[k].client[2] = 0 => Passes(list[k], filter)
  BY <1>2, <1>3, PartOf
<1>6. ASSUME NEW k \in DOMAIN list, list[k].client[2] = 0
      PROVE  Passes(list[k], filter')
  <2>1. Passes(list[k], by) /\ Passes(list[k], filter)
    BY <1>3, <1>5, <1>6
  <2>2. \A f \in Fields : filter'[f] \in {by[f], filter[f]}
    BY <1>1
  <2>3. filter'.client \in {by.client, filter.client} /\ filter'.content \in {by.content, filter.content}
        /\ filter'.type \in {by.type, filter.type}
    BY <2>2 DEF Fields
  <2> HIDE DEF list
  <2> QED BY <2>1, <2>3 DEF Passes
<1>7. \A k \in DOMAIN all : StaysSettled(all[k].no)
  BY SettledStays
<1> QED BY <1>1, <1>2, <1>3, <1>4, <1>6, <1>7, ShownNext

LEMMA RestoreNext ==
  ASSUME Inv, [Next]_formVars, btnRestore_Click
  PROVE  NextLists
<1>1. Shown(all) /\ all' = all /\ threw' = threw /\ filter' = NoFilter
  BY DEF btnRestore_Click
<1>2. all \in Seq(Entries) /\ Distinct(all) /\ InOrder(all, all)
  BY InOrderSelf DEF Inv, ListsTyped, ListsInv
<1>3. \A k \in DOMAIN all : Passes(all[k], NoFilter)
  <2>1. NoFilter.client = None /\ NoFilter.content = None /\ NoFilter.type = None
    BY DEF NoFilter, Fields
  <2> QED BY <2>1 DEF Passes
<1>4. \A k \in DOMAIN all : StaysSettled(all[k].no)
  BY SettledStays
<1> QED BY <1>1, <1>2, <1>3, <1>4, ShownNext

LEMMA ClearNext ==
  ASSUME Inv, [Next]_formVars, Answer(TRUE)
  PROVE  NextLists
<1>1. Shown(<<>>) /\ all' = <<>> /\ threw' = threw
  BY DEF Answer
<1>2. <<>> \in Seq(Entries) /\ DOMAIN <<>> = {}
  OBVIOUS
<1>3. Distinct(<<>>) /\ InOrder(<<>>, <<>>)
  BY <1>2 DEF Distinct, InOrder
<1> QED BY <1>1, <1>2, <1>3, ShownNext

LEMMA LoadNext ==
  ASSUME Inv, [Next]_formVars, LoadLogFile
  PROVE  NextLists
<1>1. Shown(parsed) /\ all' = parsed /\ threw' = threw
  BY DEF LoadLogFile
<1>2. parsed \in Seq(Entries) /\ Distinct(parsed) /\ InOrder(parsed, parsed)
  BY InOrderSelf DEF Inv, ListsTyped, ParsedInv
<1>3. \A k \in DOMAIN parsed : parsed[k].client[2] # 0
  BY DEF Inv, ParsedInv
<1>4. \A k \in DOMAIN parsed : StaysSettled(parsed[k].no)
  <2> TAKE k \in DOMAIN parsed
  <2>1. PICK j \in 1 .. done : IsLog(dropped, j) /\ dropped[j].entry.no = parsed[k].no
    BY DEF Inv, ParsedInv
  <2>2. j \in DOMAIN dropped
    BY DEF Inv, FileTyped, done
  <2>3. StaysSettled(dropped[j].entry.no)
    BY <2>1, <2>2, SettledStays
  <2> QED BY <2>1, <2>3
<1> QED BY <1>1, <1>2, <1>3, <1>4, ShownNext

LEMMA ListsStep ==
  ASSUME Inv, [Next]_formVars
  PROVE  NextLists
<1>1. CASE UNCHANGED <<all, dgv, rows, bare, filter>>
  <2>1. \A k \in DOMAIN all : StaysSettled(all[k].no)
    BY SettledStays
  <2>2. CASE GetDLLMessageThread \/ CellValueNeeded
    BY <2>2, TurnNext, CellNext
  <2>3. CASE ~ (GetDLLMessageThread \/ CellValueNeeded)
    <3>1. "range" \in threw' => "range" \in threw
      BY <1>1, <2>3, RangeThrown
    <3> QED BY <1>1, <2>1, <3>1 DEF NextLists, Inv, ListsTyped, ListsInv, FilteredInv, RowsHaveEntries
  <2> QED BY <2>2, <2>3
<1> QED BY <1>1, ListsChange, TurnNext, CellNext, FilterNext, RestoreNext, ClearNext, LoadNext

-----------------------------------------------------------------------------
(* What is saved, dropped and parsed.                                        *)

SavedNext ==
  saved' \in Seq(Entries) /\ Distinct(saved') /\ \A k \in DOMAIN saved' : StaysSettled(saved'[k].no)

LEMMA SavedStep ==
  ASSUME Inv, [Next]_formVars
  PROVE  SavedNext
<1>1. CASE SaveFile
  <2>1. saved' = dgv
    BY <1>1 DEF SaveFile
  <2>2. dgv \in Seq(Entries) /\ all \in Seq(Entries) /\ InOrder(dgv, all) /\ Distinct(all)
    BY DEF Inv, ListsTyped, ListsInv
  <2>3. Distinct(dgv)
    BY <2>2, InOrderDistinct
  <2>4. \A k \in DOMAIN dgv : StaysSettled(dgv[k].no)
    BY <2>2, SettledStays, PartOf
  <2> QED BY <2>1, <2>2, <2>3, <2>4 DEF SavedNext
<1>2. CASE UNCHANGED saved
  BY <1>2, SettledStays DEF SavedNext, Inv, ListsTyped, ListsInv
<1> QED BY <1>1, <1>2, SavedChange

\* The entries in a file are settled, and each is there once.
IsFile(file) ==
  /\ file \in Seq(Lines)
  /\ \A k \in DOMAIN file : IsLog(file, k) => StaysSettled(file[k].entry.no)
  /\ \A j, k \in DOMAIN file : IsLog(file, j) /\ IsLog(file, k) /\ file[j].entry.no = file[k].entry.no => j = k

LEMMA EntryIs ==
  ASSUME NEW n \in Nat \ {0}, NEW s \in Said
  PROVE  Entry([no |-> n, kind |-> s]) \in Entries /\ Entry([no |-> n, kind |-> s]).no = n
<1>1. <<s.client, 0>> \in {m.client : m \in Said} \X Nat
  OBVIOUS
<1>2. s.type \in {m.type : m \in Said}
  OBVIOUS
<1>3. s.content \in Seq(SUBSET Texts) \ {<<>>} /\ s.line \in Nat
  BY SaidIs
<1> QED BY <1>1, <1>2, <1>3 DEF Entry, Entries

LEMMA LineIs ==
  /\ \A l \in LineKinds \ {"log"} : [line |-> l] \in Lines /\ [line |-> l].line = l
  /\ \A e \in Entries : [line |-> "log", entry |-> e] \in Lines
  /\ \A e : [line |-> "log", entry |-> e].line = "log" /\ [line |-> "log", entry |-> e].entry = e
<1>1. \A l \in LineKinds \ {"log"} : [line |-> l] \in [line : LineKinds \ {"log"}] /\ [line |-> l].line = l
  OBVIOUS
<1>2. \A e \in Entries : [line |-> "log", entry |-> e] \in [line : {"log"}, entry : Entries]
  OBVIOUS
<1>3. \A e : [line |-> "log", entry |-> e].line = "log" /\ [line |-> "log", entry |-> e].entry = e
  OBVIOUS
<1> QED BY <1>1, <1>2, <1>3 DEF Lines

LEMMA ForeignIsFile ==
  ASSUME Inv, [Next]_formVars, NEW f \in OtherFiles
  PROVE  IsFile(Foreign(f))
<1> DEFINE file == Foreign(f)
           E(k) == Entry([no |-> MaxSent + k, kind |-> Says[1]])
<1>1. f \in Seq(LineKinds) /\ DOMAIN f = 1 .. Len(f) /\ Len(f) \in Nat /\ MaxSent \in Nat
  BY FilesAssumption, SaysAssumption DEF MaxSent
<1>2. \A k \in DOMAIN f : file[k] = IF f[k] # "log" THEN [line |-> f[k]] ELSE [line |-> "log", entry |-> E(k)]
  BY DEF Foreign
<1>3. DOMAIN file = DOMAIN f
  BY DEF Foreign
<1>4. ASSUME NEW k \in DOMAIN f, f[k] = "log"
      PROVE  E(k) \in Entries /\ E(k).no = MaxSent + k
  <2>1. "log" \in Range(f)
    BY <1>4 DEF Range
  <2>2. Says # <<>> /\ Says[1] \notin {Short, Bad}
    BY <2>1, FilesAssumption
  <2>3. Says[1] \in Said
    <3>1. 1 \in DOMAIN Says
      BY <2>2, SaysAssumption
    <3> QED BY <2>2, <3>1 DEF Said, Range
  <2>4. MaxSent + k \in Nat \ {0}
    BY <1>1
  <2> QED BY <2>3, <2>4, EntryIs
<1> HIDE DEF E
<1>5. ASSUME NEW k \in DOMAIN f
      PROVE  file[k] \in Lines
  <2>1. CASE f[k] = "log"
    <3>1. file[k] = [line |-> "log", entry |-> E(k)]
      BY <1>2, <2>1
    <3> QED BY <1>4, <2>1, <3>1, LineIs
  <2>2. CASE f[k] # "log"
    <3>1. f[k] \in LineKinds \ {"log"}
      BY <1>1, <2>2
    <3>2. file[k] = [line |-> f[k]]
      BY <1>2, <2>2
    <3> QED BY <3>1, <3>2, LineIs
  <2> QED BY <2>1, <2>2
<1>6. file = [k \in 1 .. Len(f) |-> file[k]]
  BY <1>1 DEF Foreign
<1>7. ASSUME NEW k \in DOMAIN f, IsLog(file, k)
      PROVE  f[k] = "log" /\ file[k].entry = E(k)
  <2>1. f[k] = "log"
    <3>1. SUFFICES ASSUME f[k] # "log"
                   PROVE  FALSE
      OBVIOUS
    <3>2. f[k] \in LineKinds \ {"log"}
      BY <1>1, <3>1
    <3>3. file[k] = [line |-> f[k]]
      BY <1>2, <3>1
    <3>4. file[k].line = f[k]
      BY <3>2, <3>3, LineIs
    <3> QED BY <1>7, <3>1, <3>4 DEF IsLog
  <2>2. file[k] = [line |-> "log", entry |-> E(k)]
    BY <1>2, <2>1
  <2> QED BY <2>1, <2>2, LineIs
<1> HIDE DEF file
<1>8. file \in Seq(Lines)
  BY <1>1, <1>5, <1>6
<1>9. ASSUME NEW k \in Nat, k > 0
      PROVE  StaysSettled(MaxSent + k)
  <2>1. MessagesTyped'
    BY MessagesStep DEF Inv
  <2>2. \A m \in Messages : m.no # MaxSent + k
    BY <1>1, <1>9 DEF Messages
  <2>3. \A i \in DOMAIN queue' : queue'[i] \in Messages
    BY <2>1 DEF MessagesTyped
  <2>4. MaxSent + k > MaxSent
    BY <1>1, <1>9
  <2> QED BY <2>1, <2>2, <2>3, <2>4 DEF MessagesTyped, StaysSettled
<1>10. ASSUME NEW k \in DOMAIN file, IsLog(file, k)
       PROVE  StaysSettled(file[k].entry.no)
  <2>1. k \in DOMAIN f /\ k \in Nat /\ k > 0
    BY <1>1, <1>3 DEF file
  <2>2. file[k].entry.no = MaxSent + k
    BY <1>4, <1>7, <1>10, <2>1
  <2> QED BY <1>9, <2>1, <2>2
<1>11. \A j, k \in DOMAIN f : MaxSent + j = MaxSent + k => j = k
  BY <1>1
<1>12. \A j, k \in DOMAIN file : IsLog(file, j) /\ IsLog(file, k) /\ file[j].entry.no = file[k].entry.no => j = k
  BY <1>3, <1>4, <1>7, <1>11 DEF file
<1> QED BY <1>8, <1>10, <1>12 DEF IsFile, file

LEMMA LinesOfIs ==
  ASSUME NEW s \in Seq(Entries)
  PROVE  /\ LinesOf(s) \in Seq(Lines) /\ AsSaved(LinesOf(s)) /\ DOMAIN LinesOf(s) = 1 .. 2 * Len(s) /\ Len(LinesOf(s)) = 2 * Len(s)
         /\ \A k \in DOMAIN LinesOf(s) : IsLog(LinesOf(s), k) =>
              k % 2 = 0 /\ k \div 2 \in DOMAIN s /\ LinesOf(s)[k].entry = s[k \div 2]
         /\ \A k \in DOMAIN s : LinesOf(s)[2 * k].entry = s[k]
<1> DEFINE file == LinesOf(s)
<1>1. Len(s) \in Nat /\ DOMAIN s = 1 .. Len(s) /\ \A k \in DOMAIN s : s[k] \in Entries
  OBVIOUS
<1>2. \A k \in 1 .. 2 * Len(s) : file[k] = IF k % 2 = 1 THEN [line |-> "stack"] ELSE [line |-> "log", entry |-> s[k \div 2]]
  BY DEF LinesOf
<1>3. file = [k \in 1 .. 2 * Len(s) |-> file[k]]
  BY DEF LinesOf
<1> HIDE DEF file
<1>4. \A k \in 1 .. 2 * Len(s) : k % 2 # 1 => k % 2 = 0 /\ k \div 2 \in DOMAIN s
  BY <1>1
<1>5. ASSUME NEW k \in 1 .. 2 * Len(s)
      PROVE  /\ file[k] \in Lines /\ (k % 2 = 1 => file[k].line = "stack")
             /\ k % 2 # 1 => file[k].line = "log" /\ file[k].entry = s[k \div 2]
  <2>1. CASE k % 2 = 1
    <3>1. file[k] = [line |-> "stack"]
      BY <1>2, <2>1
    <3>2. "stack" \in LineKinds \ {"log"}
      BY DEF LineKinds
    <3> QED BY <2>1, <3>1, <3>2, LineIs
  <2>2. CASE k % 2 # 1
    <3>1. s[k \div 2] \in Entries
      BY <1>1, <1>4, <2>2
    <3>2. file[k] = [line |-> "log", entry |-> s[k \div 2]]
      BY <1>2, <2>2
    <3> QED BY <2>2, <3>1, <3>2, LineIs
  <2> QED BY <2>1, <2>2
<1>6. 2 * Len(s) \in Nat
  BY <1>1
<1>7. file \in Seq(Lines) /\ DOMAIN file = 1 .. 2 * Len(s) /\ Len(file) = 2 * Len(s)
  BY <1>3, <1>5, <1>6
<1>8. AsSaved(file)
  <2>1. (2 * Len(s)) % 2 = 0
    BY <1>1
  <2>2. \A k \in DOMAIN file : k % 2 = 0 => k % 2 # 1
    OBVIOUS
  <2> QED BY <1>5, <1>7, <2>1, <2>2 DEF AsSaved, InPairs, IsLog
<1>9. \A k \in DOMAIN file : IsLog(file, k) => k % 2 = 0 /\ k \div 2 \in DOMAIN s /\ file[k].entry = s[k \div 2]
  BY <1>4, <1>5, <1>7 DEF IsLog
<1>10. ASSUME NEW k \in DOMAIN s
       PROVE  file[2 * k].entry = s[k]
  <2>1. 2 * k \in 1 .. 2 * Len(s) /\ (2 * k) % 2 # 1 /\ (2 * k) \div 2 = k
    BY <1>1
  <2> QED BY <1>5, <2>1
<1> QED BY <1>7, <1>8, <1>9, <1>10 DEF file

LEMMA SavedIsFile ==
  ASSUME Inv, [Next]_formVars
  PROVE  IsFile(LinesOf(saved))
<1> DEFINE file == LinesOf(saved)
<1>1. saved \in Seq(Entries) /\ Distinct(saved)
  BY DEF Inv, ListsTyped, ListsInv
<1>2. /\ file \in Seq(Lines) /\ DOMAIN file = 1 .. 2 * Len(saved)
      /\ \A k \in DOMAIN file : IsLog(file, k) => k % 2 = 0 /\ k \div 2 \in DOMAIN saved /\ file[k].entry = saved[k \div 2]
  BY <1>1, LinesOfIs
<1>3. \A j, k \in DOMAIN file : j % 2 = 0 /\ k % 2 = 0 /\ j \div 2 = k \div 2 => j = k
  BY <1>1, <1>2
<1> HIDE DEF file
<1>4. \A k \in DOMAIN saved : StaysSettled(saved[k].no)
  BY SettledStays
<1> QED BY <1>1, <1>2, <1>3, <1>4 DEF IsFile, Distinct, file

\* What a step leaves of the file and of what is parsed of it.
FileNext ==
  /\ dropped' \in Seq(Lines) /\ lines' \in Seq(Lines) /\ nIndex' \in Nat /\ parsed' \in Seq(Entries)
  /\ \A k \in DOMAIN dropped' : IsLog(dropped', k) => StaysSettled(dropped'[k].entry.no)
  /\ ParsedInv' /\ PairsInv'

LEMMA DragNext ==
  ASSUME Inv, [Next]_formVars, NEW file, IsFile(file), DragDrop(file)
  PROVE  FileNext
<1>1. /\ load' = "parsing" /\ nProgress' = 0 /\ lines' = file /\ dropped' = file /\ parsed' = <<>> /\ nIndex' = 0
      /\ file \in Seq(Lines) /\ Len(file) \in Nat
  BY DEF DragDrop, IsFile
<1>2. done' = 0 /\ 1 .. done' = {}
  BY <1>1 DEF done
<1>3. <<>> \in Seq(Entries) /\ DOMAIN <<>> = {} /\ Len(<<>>) = 0
  OBVIOUS
<1>4. ParsedInv'
  <2>1. \A i \in DOMAIN file : file[0 + i] = file[i]
    BY <1>1
  <2>2. Distinct(parsed')
    BY <1>1, <1>3 DEF Distinct
  <2>3. \A j, k \in DOMAIN dropped' :
          IsLog(dropped', j) /\ IsLog(dropped', k) /\ dropped'[j].entry.no = dropped'[k].entry.no => j = k
    BY <1>1 DEF IsFile
  <2> QED BY <1>1, <1>2, <1>3, <2>1, <2>2, <2>3 DEF ParsedInv, IsLog
<1>5. PairsInv'
  BY <1>1, <1>2, <1>3 DEF PairsInv
<1> QED BY <1>1, <1>3, <1>4, <1>5 DEF FileNext, IsFile

\* A part of the whole, in percent.
LEMMA Percent ==
  ASSUME NEW n \in Nat, NEW h \in Nat, n < h
  PROVE  (n * 100) \div h \in 0 .. 100
<1> DEFINE q == (n * 100) \div h
           r == (n * 100) % h
<1>1. n * 100 \in Nat /\ h \in Nat \ {0}
  OBVIOUS
<1>2. q \in Int /\ r \in 0 .. h - 1 /\ n * 100 = h * q + r
  BY <1>1
<1> HIDE DEF q, r
<1>3. ~ (q >= 101)
  <2>1. SUFFICES ASSUME q >= 101
                 PROVE  FALSE
    OBVIOUS
  <2>2. h * q >= h * 101
    BY <1>1, <1>2, <2>1
  <2> QED BY <1>1, <1>2, <2>2
<1>4. ~ (q < 0)
  <2>1. SUFFICES ASSUME q < 0
                 PROVE  FALSE
    OBVIOUS
  <2>2. h * q <= h * (0 - 1)
    BY <1>1, <1>2, <2>1
  <2> QED BY <1>1, <1>2, <2>2
<1> QED BY <1>2, <1>3, <1>4 DEF q

LEMMA ReloadedIs ==
  ASSUME NEW e \in Entries
  PROVE  Reloaded(e) \in Entries /\ Reloaded(e).no = e.no /\ Reloaded(e).client[2] # 0
<1>1. e.client \in {m.client : m \in Said} \X Nat
  BY DEF Entries
<1>2. <<e.client[1], e.client[2] + 1>> \in {m.client : m \in Said} \X Nat /\ e.client[2] + 1 # 0
  BY <1>1
<1>3. e.content \in Seq(SUBSET Texts) \ {<<>>}
  BY DEF Entries
<1>4. e.content[1] \in SUBSET Texts
  BY <1>3
<1>5. <<e.content[1]>> \in Seq(SUBSET Texts) \ {<<>>}
  BY <1>4
<1> DEFINE c == <<e.client[1], e.client[2] + 1>>
           t == <<e.content[1]>>
<1>6. Reloaded(e) = [no |-> e.no, client |-> c, content |-> t, type |-> e.type, line |-> 0]
  BY DEF Reloaded
<1>7. c[2] # 0
  BY <1>1, <1>2
<1>8. c \in {m.client : m \in Said} \X Nat /\ t \in Seq(SUBSET Texts) \ {<<>>}
  BY <1>2, <1>5
<1> DEFINE T == {m.type : m \in Said}
           C == {m.client : m \in Said} \X Nat
           S == Seq(SUBSET Texts) \ {<<>>}
<1>9. e \in [no : Nat \ {0}, client : C, content : S, type : T, line : Nat] /\ c \in C /\ t \in S
  BY <1>8 DEF Entries
<1> HIDE DEF c, t, T, C, S
<1>10. /\ Reloaded(e) \in [no : Nat \ {0}, client : C, content : S, type : T, line : Nat]
       /\ Reloaded(e).no = e.no /\ Reloaded(e).client = c
  BY <1>6, <1>9
<1> QED BY <1>7, <1>10 DEF Entries, C, S, T

LEMMA ReloadedKeeps ==
  \A e : Reloaded(e).no = e.no /\ Reloaded(e).type = e.type /\ Reloaded(e).content = <<e.content[1]>>
  BY DEF Reloaded

LEMMA LinesLeft ==
  ASSUME Inv, NEW n \in {1, 2}, n <= Len(lines), NEW left, left = SubSeq(lines, n + 1, Len(lines))
  PROVE  left \in Seq(Lines) /\ Len(left) = Len(lines) - n /\ \A i \in DOMAIN left : left[i] = dropped[done + n + i]
<1>1. /\ lines \in Seq(Lines) /\ Len(lines) \in Nat /\ dropped \in Seq(Lines) /\ Len(dropped) \in Nat
      /\ \A i \in DOMAIN lines : lines[i] = dropped[done + i]
  BY DEF Inv, FileTyped, ParsedInv
<1>2. done \in Int /\ n \in Nat
  BY <1>1 DEF done
<1>3. /\ left \in Seq(Lines) /\ Len(left) = Len(lines) - n /\ DOMAIN left = 1 .. Len(lines) - n
      /\ \A i \in DOMAIN left : left[i] = lines[n + i] /\ n + i \in DOMAIN lines
  <2> HIDE DEF Inv
  <2> QED BY <1>1, <1>2, RestOf, ZenonT(40)
<1> HIDE DEF done
<1>4. \A i \in 1 .. Len(lines) - n : done + (n + i) = done + n + i
  BY <1>1, <1>2
<1>5. ASSUME NEW i \in DOMAIN left
      PROVE  left[i] = dropped[done + n + i]
  <2>1. lines[n + i] = dropped[done + (n + i)]
    BY <1>1, <1>3
  <2> QED BY <1>3, <1>4, <2>1
<1> QED BY <1>3, <1>5

LEMMA ConvertedLines ==
  ASSUME Inv, ConvertPair, Len(lines) >= 2
  PROVE  \E n \in {1, 2} :
           /\ lines' \in Seq(Lines) /\ Len(lines') = Len(lines) - n
           /\ \A i \in DOMAIN lines' : lines'[i] = dropped[done + n + i]
           /\ n = 2 <=> dropped[done + 1].line = "stack"
           /\ IF n = 2 /\ IsLog(dropped, done + 2) THEN parsed' = Append(parsed, Reloaded(dropped[done + 2].entry))
                                                   ELSE parsed' = parsed
<1>1. /\ lines \in Seq(Lines) /\ Len(lines) \in Nat /\ dropped \in Seq(Lines) /\ Len(dropped) \in Nat
      /\ DOMAIN lines = 1 .. Len(lines) /\ \A i \in DOMAIN lines : lines[i] = dropped[done + i]
  BY DEF Inv, FileTyped, ParsedInv
<1>2. done \in Int
  BY <1>1 DEF done
<1>3. lines[1] = dropped[done + 1] /\ lines[2] = dropped[done + 2]
  BY <1>1
<1> HIDE DEF done
<1>4. CASE lines[1].line = "stack"
  <2>1. lines' = SubSeq(lines, 2 + 1, Len(lines))
    BY <1>4 DEF ConvertPair
  <2>2. 2 \in {1, 2} /\ 2 <= Len(lines)
    BY <1>1
  <2>3. /\ lines' \in Seq(Lines) /\ Len(lines') = Len(lines) - 2
        /\ \A i \in DOMAIN lines' : lines'[i] = dropped[done + 2 + i]
    BY <2>1, <2>2, LinesLeft
  <2>4. IF IsLog(dropped, done + 2) THEN parsed' = Append(parsed, Reloaded(dropped[done + 2].entry)) ELSE parsed' = parsed
    BY <1>3, <1>4 DEF ConvertPair, IsLog
  <2> QED BY <1>3, <1>4, <2>3, <2>4
<1>5. CASE lines[1].line # "stack"
  <2>1. lines' = Tail(lines) /\ parsed' = parsed
    BY <1>5 DEF ConvertPair
  <2>2. lines' = SubSeq(lines, 1 + 1, Len(lines))
    BY <1>1, <2>1
  <2>3. 1 \in {1, 2} /\ 1 <= Len(lines)
    BY <1>1
  <2>4. /\ lines' \in Seq(Lines) /\ Len(lines') = Len(lines) - 1
        /\ \A i \in DOMAIN lines' : lines'[i] = dropped[done + 1 + i]
    BY <2>2, <2>3, LinesLeft
  <2>5. 1 = 2 <=> dropped[done + 1].line = "stack"
    BY <1>3, <1>5
  <2> WITNESS 1 \in {1, 2}
  <2> QED BY <2>1, <2>4, <2>5
<1> QED BY <1>4, <1>5

LEMMA PairNext ==
  ASSUME Inv, [Next]_formVars, ConvertToList, Len(lines) >= 2
  PROVE  FileNext
<1>1. ConvertPair /\ load' = load /\ dropped' = dropped /\ load = "parsing"
  BY DEF ConvertToList
<1>2. nProgress' = (nIndex * 100) \div (Len(dropped) \div 2) /\ nIndex' = nIndex + 1
  BY <1>1 DEF ConvertPair
<1>3. PICK n \in {1, 2} :
        /\ lines' \in Seq(Lines) /\ Len(lines') = Len(lines) - n
        /\ \A i \in DOMAIN lines' : lines'[i] = dropped[done + n + i]
        /\ n = 2 <=> dropped[done + 1].line = "stack"
        /\ IF n = 2 /\ IsLog(dropped, done + 2) THEN parsed' = Append(parsed, Reloaded(dropped[done + 2].entry))
                                                ELSE parsed' = parsed
  BY <1>1, ConvertedLines
<1>4. /\ dropped \in Seq(Lines) /\ Len(dropped) \in Nat /\ Len(lines) \in Nat /\ Len(lines) <= Len(dropped)
      /\ DOMAIN dropped = 1 .. Len(dropped) /\ nIndex \in Nat
      /\ parsed \in Seq(Entries) /\ Len(parsed) \in Nat /\ DOMAIN parsed = 1 .. Len(parsed)
  BY DEF Inv, FileTyped, ListsTyped, ParsedInv
<1>5. done \in Nat /\ done' = done + n /\ done + 2 <= Len(dropped) /\ Len(lines') <= Len(dropped)
  BY <1>1, <1>3, <1>4 DEF done
<1>6. \A j, k \in DOMAIN dropped :
        IsLog(dropped, j) /\ IsLog(dropped, k) /\ dropped[j].entry.no = dropped[k].entry.no => j = k
  BY DEF Inv, ParsedInv
<1>7. /\ Distinct(parsed) /\ \A k \in DOMAIN parsed : parsed[k].client[2] # 0
      /\ \A k \in DOMAIN parsed : \E j \in 1 .. done : IsLog(dropped, j) /\ dropped[j].entry.no = parsed[k].no
  BY DEF Inv, ParsedInv
<1> DEFINE e == Reloaded(dropped[done + 2].entry)
           now == done'
           took == n = 2 /\ IsLog(dropped, done + 2)
<1>8. now = done + n
  BY <1>5
<1> HIDE DEF done, now
<1>9. ASSUME took
      PROVE  /\ e \in Entries /\ e.no = dropped[done + 2].entry.no /\ e.client[2] # 0 /\ done + 2 \in DOMAIN dropped
             /\ parsed' \in Seq(Entries) /\ Len(parsed') = Len(parsed) + 1 /\ DOMAIN parsed' = 1 .. Len(parsed) + 1
             /\ \A k \in DOMAIN parsed' : (k \in DOMAIN parsed /\ parsed'[k] = parsed[k]) \/ (k = Len(parsed) + 1 /\ parsed'[k] = e)
  <2>1. done + 2 \in DOMAIN dropped
    BY <1>4, <1>5
  <2>2. dropped[done + 2].entry \in Entries
    <3>1. dropped[done + 2] \in Lines /\ dropped[done + 2].line = "log"
      BY <1>4, <1>9, <2>1 DEF IsLog
    <3> QED BY <3>1 DEF Lines
  <2>3. e \in Entries /\ e.no = dropped[done + 2].entry.no /\ e.client[2] # 0
    BY <2>2, ReloadedIs
  <2>4. parsed' = Append(parsed, e)
    BY <1>3, <1>9
  <2> HIDE DEF e
  <2>5. /\ parsed' \in Seq(Entries) /\ Len(parsed') = Len(parsed) + 1 /\ DOMAIN parsed' = 1 .. Len(parsed) + 1
        /\ parsed'[Len(parsed) + 1] = e /\ \A k \in 1 .. Len(parsed) : parsed'[k] = parsed[k]
    BY <1>4, <2>3, <2>4, AppendProperties
  <2>6. \A k \in 1 .. Len(parsed) + 1 : k \in 1 .. Len(parsed) \/ k = Len(parsed) + 1
    BY <1>4
  <2> QED BY <1>4, <2>1, <2>3, <2>5, <2>6 DEF e
<1>10. ASSUME ~ took
       PROVE  parsed' = parsed
  BY <1>3, <1>10
<1> HIDE DEF e, took
<1>11. parsed' \in Seq(Entries)
  BY <1>4, <1>9, <1>10
<1>12. \A k \in DOMAIN parsed' : parsed'[k].client[2] # 0
  BY <1>7, <1>9, <1>10
<1>13. ASSUME NEW k \in DOMAIN parsed'
       PROVE  \E j \in 1 .. now : IsLog(dropped, j) /\ dropped[j].entry.no = parsed'[k].no
  <2>1. CASE took /\ k = Len(parsed) + 1 /\ parsed'[k] = e
    <3>1. done + 2 \in 1 .. now /\ IsLog(dropped, done + 2)
      BY <1>5, <1>8, <2>1 DEF took
    <3> QED BY <1>9, <2>1, <3>1
  <2>2. CASE k \in DOMAIN parsed /\ parsed'[k] = parsed[k]
    <3>1. PICK j \in 1 .. done : IsLog(dropped, j) /\ dropped[j].entry.no = parsed[k].no
      BY <1>7, <2>2
    <3>2. j \in 1 .. now
      BY <1>5, <1>8
    <3> QED BY <2>2, <3>1, <3>2
  <2> QED BY <1>9, <1>10, <2>1, <2>2
<1>14. Distinct(parsed')
  <2>1. ASSUME took, NEW k \in DOMAIN parsed
        PROVE  parsed[k].no # e.no
    <3>1. PICK j \in 1 .. done : IsLog(dropped, j) /\ dropped[j].entry.no = parsed[k].no
      BY <1>7
    <3>2. j \in DOMAIN dropped /\ j # done + 2 /\ done + 2 \in DOMAIN dropped
      BY <1>4, <1>5
    <3>3. IsLog(dropped, done + 2)
      BY <2>1 DEF took
    <3> QED BY <1>6, <1>9, <2>1, <3>1, <3>2, <3>3
  <2>2. CASE took
    <3>1. ASSUME NEW j \in DOMAIN parsed', NEW k \in DOMAIN parsed', parsed'[j].no = parsed'[k].no
          PROVE  j = k
      <4>1. (j \in DOMAIN parsed /\ parsed'[j] = parsed[j]) \/ (j = Len(parsed) + 1 /\ parsed'[j] = e)
        BY <1>9, <2>2
      <4>2. (k \in DOMAIN parsed /\ parsed'[k] = parsed[k]) \/ (k = Len(parsed) + 1 /\ parsed'[k] = e)
        BY <1>9, <2>2
      <4> QED BY <1>7, <2>1, <2>2, <3>1, <4>1, <4>2 DEF Distinct
    <3> QED BY <3>1 DEF Distinct
  <2>3. CASE ~ took
    BY <1>7, <1>10, <2>3
  <2> QED BY <2>2, <2>3
<1>15. ParsedInv'
  <2>1. Len(lines') <= Len(dropped') /\ \A i \in DOMAIN lines' : lines'[i] = dropped'[now + i]
    BY <1>1, <1>3, <1>5, <1>8
  <2>2. ~ (load' = "parsed")
    BY <1>1
  <2> QED BY <1>1, <1>6, <1>12, <1>13, <1>14, <2>1, <2>2 DEF ParsedInv, now
<1>16. ASSUME InPairs(dropped)
       PROVE  n = 2 /\ now = 2 * nIndex' /\ nProgress' \in 0 .. 100 /\ done = 2 * nIndex
  <2>1. done = 2 * nIndex
    BY <1>16 DEF Inv, PairsInv
  <2>2. done + 1 \in DOMAIN dropped /\ (done + 1) % 2 = 1
    BY <1>4, <1>5, <2>1
  <2>3. n = 2
    BY <1>3, <1>16, <2>2 DEF InPairs
  <2>4. Len(dropped) \div 2 \in Nat /\ nIndex < Len(dropped) \div 2
    BY <1>4, <1>5, <2>1
  <2>5. (nIndex * 100) \div (Len(dropped) \div 2) \in 0 .. 100
    BY <1>4, <2>4, Percent
  <2> QED BY <1>2, <1>4, <1>8, <2>1, <2>3, <2>5
<1>17. ASSUME AsSaved(dropped)
       PROVE  Len(parsed') = nIndex' /\ \A k \in 1 .. nIndex' : parsed'[k] = Reloaded(dropped[2 * k].entry)
  <2>1. InPairs(dropped)
    BY <1>17 DEF AsSaved
  <2>2. n = 2 /\ done = 2 * nIndex /\ done + 2 = 2 * (nIndex + 1) /\ (done + 2) % 2 = 0 /\ done + 2 \in DOMAIN dropped
    BY <1>4, <1>5, <1>16, <2>1
  <2>3. took
    BY <1>17, <2>2 DEF took, AsSaved
  <2>4. Len(parsed) = nIndex /\ \A k \in 1 .. nIndex : parsed[k] = Reloaded(dropped[2 * k].entry)
    BY <1>17 DEF Inv, PairsInv
  <2>5. ASSUME NEW k \in 1 .. nIndex + 1
        PROVE  parsed'[k] = Reloaded(dropped[2 * k].entry)
    <3>1. (k \in 1 .. nIndex /\ parsed'[k] = parsed[k]) \/ (k = nIndex + 1 /\ parsed'[k] = e)
      BY <1>4, <1>9, <2>3, <2>4
    <3>2. e = Reloaded(dropped[2 * (nIndex + 1)].entry)
      BY <2>2 DEF e
    <3> QED BY <2>4, <3>1, <3>2
  <2> QED BY <1>2, <1>9, <2>3, <2>4, <2>5
<1>18. PairsInv'
  BY <1>1, <1>16, <1>17 DEF PairsInv, now
<1> QED BY <1>1, <1>2, <1>3, <1>4, <1>11, <1>15, <1>18, SettledStays DEF FileNext

LEMMA LastNext ==
  ASSUME Inv, [Next]_formVars, ConvertToList, Len(lines) < 2
  PROVE  FileNext
<1>1. load' = "parsed" /\ nProgress' = 100 /\ UNCHANGED <<lines, dropped, parsed, nIndex>>
  <2>1. Len(lines) \in Nat
    BY DEF Inv, FileTyped
  <2> QED BY <2>1 DEF ConvertToList
<1>2. done' = done
  BY <1>1 DEF done
<1>3. ParsedInv'
  BY <1>1, <1>2 DEF Inv, ParsedInv, Distinct, IsLog
<1>4. PairsInv'
  BY <1>1, <1>2 DEF Inv, PairsInv
<1> QED BY <1>1, <1>3, <1>4, SettledStays DEF FileNext, Inv, FileTyped, ListsTyped

LEMMA FileStep ==
  ASSUME Inv, [Next]_formVars
  PROVE  FileNext
<1>1. CASE \E file \in {Foreign(f) : f \in OtherFiles} \cup {LinesOf(saved)} : DragDrop(file)
  BY <1>1, ForeignIsFile, SavedIsFile, DragNext
<1>2. CASE ConvertToList
  <2>1. Len(lines) \in Nat
    BY DEF Inv, FileTyped
  <2> QED BY <1>2, <2>1, PairNext, LastNext
<1>3. CASE /\ UNCHANGED <<lines, dropped, parsed, nIndex, nProgress>>
           /\ load' = load \/ load' = "failed" \/ LoadLogFile
  <2>1. load' = "parsed" => load = "parsed"
    BY <1>3 DEF LoadLogFile
  <2>2. done' = done
    BY <1>3 DEF done
  <2>3. ParsedInv'
    BY <1>3, <2>1, <2>2 DEF Inv, ParsedInv, Distinct, IsLog
  <2>4. PairsInv'
    BY <1>3, <2>2 DEF Inv, PairsInv
  <2> QED BY <1>3, <2>3, <2>4, SettledStays DEF FileNext, Inv, FileTyped, ListsTyped
<1> QED BY <1>1, <1>2, <1>3, FileChange

\* The bar can only throw while the dialog is open, and then the dialog stays.
LEMMA ThrewStep ==
  ASSUME Inv, [Next]_formVars
  PROVE  ThrewInv'
<1>1. CASE Worker
  <2>1. /\ modal = "load" /\ "progress" \notin threw /\ nProgress >= 100 /\ dropped' = dropped
        /\ IF nProgress = 100 THEN threw' = threw ELSE modal' = modal
    BY <1>1 DEF Worker, loadVars
  <2>2. InPairs(dropped) => nProgress \in 0 .. 100
    BY DEF Inv, PairsInv
  <2>3. CASE nProgress = 100
    BY <2>1, <2>3 DEF ThrewInv
  <2>4. CASE nProgress # 100
    <3>1. ~ InPairs(dropped)
      BY <2>1, <2>2, <2>4
    <3> QED BY <2>1, <2>4, <3>1 DEF ThrewInv
  <2> QED BY <2>3, <2>4
<1>2. CASE ~ Worker
  <2>1. "progress" \in threw' => "progress" \in threw
    <3>1. CASE GetDLLMessageThread
      BY <3>1, TurnChanges
    <3>2. CASE ~ GetDLLMessageThread
      BY <1>2, <3>2 DEF Next, User, formVars, WndProc, Enqueue, ShowException, CellValueNeeded, btnFilter_Click, btnRestore_Click,
            cbAbandon_CheckedChanged, Clear, Answer, Form1_FormClosing, SaveFile, DragDrop, GetFileTextThrows, ConvertToList,
            LoadLogFile
    <3> QED BY <3>1, <3>2
  <2>2. ASSUME modal = "load"
        PROVE  modal' = modal /\ dropped' = dropped
    BY <1>2, <2>2 DEF Next, User, formVars, loadVars, WndProc, Enqueue, GetDLLMessageThread, ShowException, CellValueNeeded, Click, btnFilter_Click,
          btnRestore_Click, cbAbandon_CheckedChanged, Clear, Answer, Form1_FormClosing, SaveFile, DragDrop, GetFileTextThrows,
          ConvertToList, LoadLogFile
  <2> QED BY <2>1, <2>2 DEF Inv, ThrewInv
<1> QED BY <1>1, <1>2

-----------------------------------------------------------------------------
(* The invariant, and what it gives.                                         *)

LEMMA InvInit ==
  Init => Inv
<1> SUFFICES ASSUME Init
             PROVE  Inv
  OBVIOUS
<1>1. MaxSent \in Nat
  BY SaysAssumption DEF MaxSent
<1>2. \A S : <<>> \in Seq(S)
  OBVIOUS
<1>3. DOMAIN <<>> = {} /\ Len(<<>>) = 0
  OBVIOUS
<1>4. ControlTyped
  <2>1. DOMAIN filter = Fields
    BY DEF Init, NoFilter
  <2>2. clicks \in 0 .. MaxClicks /\ threw \subseteq {"range", "progress"}
    BY BoundsAssumption DEF Init
  <2> QED BY <2>1, <2>2 DEF Init, ControlTyped
<1>5. MessagesTyped /\ ListsTyped /\ FileTyped
  BY <1>1, <1>2 DEF Init, MessagesTyped, ListsTyped, FileTyped
<1>6. FlightInv /\ SettledInv /\ FilteredInv
  BY <1>3 DEF Init, FlightInv, SettledInv, FilteredInv
<1>7. ListsInv /\ RowsHaveEntries
  BY <1>3 DEF Init, ListsInv, Distinct, InOrder, RowsHaveEntries
<1>8. ParsedInv
  BY <1>3 DEF Init, ParsedInv, Distinct, done
<1>9. PairsInv
  BY <1>3 DEF Init, PairsInv, done
<1>10. ThrewInv
  BY DEF Init, ThrewInv
<1> QED BY <1>4, <1>5, <1>6, <1>7, <1>8, <1>9, <1>10 DEF Inv

LEMMA InvStep ==
  Inv /\ [Next]_formVars => Inv'
<1> SUFFICES ASSUME Inv, [Next]_formVars
             PROVE  Inv'
  OBVIOUS
<1>1. ControlTyped'
  BY ControlStep DEF Inv
<1>2. MessagesTyped' /\ FlightInv'
  BY MessagesStep DEF Inv
<1>3. NextLists /\ SavedNext /\ FileNext
  BY ListsStep, SavedStep, FileStep
<1>4. ListsTyped' /\ FileTyped'
  BY <1>3 DEF NextLists, SavedNext, FileNext, ListsTyped, FileTyped
<1>5. SettledInv'
  <2>1. \A k \in DOMAIN all' : StaysSettled(all'[k].no)
    BY <1>3 DEF NextLists
  <2>2. \A k \in DOMAIN saved' : StaysSettled(saved'[k].no)
    BY <1>3 DEF SavedNext
  <2>3. \A k \in DOMAIN dropped' : IsLog(dropped', k) => StaysSettled(dropped'[k].entry.no)
    BY <1>3 DEF FileNext
  <2> QED BY <2>1, <2>2, <2>3 DEF SettledInv, Settled, StaysSettled, IsLog
<1>6. ListsInv' /\ FilteredInv' /\ RowsHaveEntries'
  BY <1>3 DEF NextLists, SavedNext, ListsInv, FilteredInv, RowsHaveEntries, Distinct, InOrder, Passes
<1>7. ParsedInv' /\ PairsInv'
  BY <1>3 DEF FileNext
<1>8. ThrewInv'
  BY ThrewStep
<1> QED BY <1>1, <1>2, <1>4, <1>5, <1>6, <1>7, <1>8 DEF Inv

LEMMA Invariant ==
  Spec => []Inv
<1>1. Init => Inv
  BY InvInit
<1>2. Inv /\ [Next]_formVars => Inv'
  BY InvStep
<1> QED BY <1>1, <1>2, PTL DEF Spec

LEMMA InvTypes ==
  ASSUME Inv
  PROVE  TypeOK
<1>1. tasks \subseteq [no : 1 .. sent, kind : Range(Says)]
  <2>1. ASSUME NEW m \in tasks
        PROVE  m \in [no : 1 .. sent, kind : Range(Says)]
    <3>1. m \in Messages /\ m.no <= sent
      BY DEF Inv, MessagesTyped, FlightInv
    <3> QED BY <3>1 DEF Messages, Inv, MessagesTyped
  <2> QED BY <2>1
<1>2. \A e \in Entries : e.no \in Nat \ {0} /\ e.type # None
  <2>1. \A m \in Said : m.type # None
    BY SaysAssumption DEF Said
  <2> QED BY <2>1 DEF Entries
<1>3. \A s \in {all, dgv, parsed, saved} : \A i \in DOMAIN s : s[i] \in Entries
  <2>1. ASSUME NEW s \in Seq(Entries)
        PROVE  \A i \in DOMAIN s : s[i] \in Entries
    OBVIOUS
  <2>2. \A s \in {all, dgv, parsed, saved} : s \in Seq(Entries)
    BY DEF Inv, ListsTyped
  <2> QED BY <2>1, <2>2
<1>4. \A s \in {all, dgv, parsed, saved} : \A i \in DOMAIN s : s[i].no \in Nat \ {0} /\ s[i].type # None
  BY <1>2, <1>3
<1> QED BY <1>1, <1>4 DEF TypeOK, Inv, ControlTyped, MessagesTyped, ListsTyped

LEMMA InvOnce ==
  ASSUME Inv
  PROVE  Once
<1>1. IsInjective(Numbers(all)) /\ IsInjective(Numbers(queue))
  BY DEF Inv, ListsInv, Distinct, FlightInv, Numbers, IsInjective
<1>2. \A n : n \in Range(Numbers(queue)) <=> \E i \in DOMAIN queue : queue[i].no = n
  BY DEF Range, Numbers
<1>3. \A m \in tasks : m.no \notin Range(Numbers(queue))
  BY <1>2 DEF Inv, FlightInv
<1>4. ASSUME NEW k \in DOMAIN all
      PROVE  all[k].no \notin Range(Numbers(queue)) \cup {m.no : m \in tasks}
  BY <1>2 DEF Inv, SettledInv, Settled
<1> QED BY <1>1, <1>3, <1>4 DEF Once

LEMMA InvAgrees ==
  ASSUME Inv
  PROVE  ListsAgree
<1>1. ViewOfAll
  BY DEF Inv, ListsInv, InOrder, ViewOfAll, Range
<1>2. ViewFiltered
  BY DEF Inv, FilteredInv, ViewFiltered
<1>3. ProgressInRange
  BY DEF Inv, ThrewInv, InPairs, ProgressInRange
<1> QED BY <1>1, <1>2, <1>3, InvTypes, InvOnce DEF ListsAgree, Inv

\* Whatever comes, is filtered, cleared, saved and loaded: no message is twice in what
\* the window holds, the view is part of the list of all in its order and passes the
\* filters, a row has an entry unless the lists were emptied behind the grid, and the
\* bar of the load dialog can only throw on a file whose lines do not come in pairs.
THEOREM ListsAgreeAlways ==
  Spec => []ListsAgree
<1>1. Spec => []Inv
  BY Invariant
<1>2. Inv => ListsAgree
  BY InvAgrees
<1> QED BY <1>1, <1>2, PTL

\* Clear_Half can only make RemoveRange throw when the rows of the grid are of lists
\* that were emptied before, which the half of less than two rows does.
THEOREM RemoveRangeThrowsOnlyBare ==
  Spec => ThrowsOnlyBare
<1>1. Inv /\ [Next]_formVars => [("range" \in threw') /\ ("range" \notin threw) => bare]_formVars
  BY ListsStep DEF NextLists
<1>2. Spec => []Inv
  BY Invariant
<1> QED BY <1>1, <1>2, PTL DEF Spec, ThrowsOnlyBare

\* When the file dropped is the one that was saved, the list that LoadLogFile leaves
\* is what was saved, in order, with the types and the contents up to their first '#',
\* for any size of file.
THEOREM SavedFileComesBack ==
  Spec => SavedComesBack
<1>1. ASSUME Inv, [Next]_formVars, load = "parsed", load' = "none", dropped = LinesOf(saved)
      PROVE  Back(all', saved)
  <2>1. all' = parsed
    BY <1>1, FileChange DEF DragDrop, ConvertToList, LoadLogFile
  <2>2. saved \in Seq(Entries) /\ Len(saved) \in Nat /\ DOMAIN saved = 1 .. Len(saved)
    BY <1>1 DEF Inv, ListsTyped
  <2>3. /\ AsSaved(dropped) /\ InPairs(dropped) /\ Len(dropped) = 2 * Len(saved)
        /\ \A k \in DOMAIN saved : dropped[2 * k].entry = saved[k]
    BY <1>1, <2>2, LinesOfIs DEF AsSaved
  <2>4. Len(lines) < 2 /\ Len(lines) \in Nat /\ nIndex \in Nat
    BY <1>1 DEF Inv, FileTyped, ParsedInv
  <2>5. nIndex = Len(saved)
    <3>1. Len(dropped) - Len(lines) = 2 * nIndex
      BY <1>1, <2>3 DEF Inv, PairsInv, done
    <3>2. \A s, n, l \in Nat : l < 2 /\ 2 * s - l = 2 * n => n = s
      OBVIOUS
    <3>3. 2 * Len(saved) - Len(lines) = 2 * nIndex
      BY <2>3, <3>1
    <3> QED BY <2>2, <2>4, <3>2, <3>3
  <2>6. Len(parsed) = nIndex /\ \A k \in 1 .. nIndex : parsed[k] = Reloaded(dropped[2 * k].entry)
    BY <1>1, <2>3 DEF Inv, PairsInv
  <2>7. DOMAIN parsed = 1 .. Len(parsed)
    BY <1>1 DEF Inv, ListsTyped
  <2>8. ASSUME NEW k \in DOMAIN saved
        PROVE  parsed[k] = Reloaded(saved[k])
    <3>1. k \in 1 .. nIndex /\ dropped[2 * k].entry = saved[k]
      BY <2>2, <2>3, <2>5
    <3> QED BY <2>6, <3>1
  <2>9. ASSUME NEW k \in DOMAIN saved
        PROVE  /\ parsed[k].no = saved[k].no /\ parsed[k].type = saved[k].type
               /\ parsed[k].content = <<saved[k].content[1]>>
    BY <2>8, ReloadedKeeps
  <2>10. DOMAIN parsed = DOMAIN saved
    BY <2>2, <2>5, <2>6, <2>7
  <2>11. Numbers(parsed) = Numbers(saved)
    BY <2>9, <2>10 DEF Numbers
  <2> QED BY <2>1, <2>9, <2>11 DEF Back
<1>2. Inv /\ [Next]_formVars
        => [load = "parsed" /\ load' = "none" /\ dropped = LinesOf(saved) => Back(all', saved)]_formVars
  BY <1>1
<1>3. Spec => []Inv
  BY Invariant
<1> QED BY <1>2, <1>3, PTL DEF Spec, SavedComesBack
=============================================================================

-------------------------- MODULE Complete_proofs ---------------------------
(***************************************************************************)
(* Proofs about LogSave and PatternSearch: that nothing is left out and    *)
(* all is in its order.  Of LogSave, for any set of printing threads, any  *)
(* limits and any number of entries and failed writes: the types and where *)
(* each entry is, the order of the file, and that an exception has been    *)
(* written or dropped when its Print returns.  Of PatternSearch, for any   *)
(* images, patterns and sizes: what a search finds is a match, Sunday's    *)
(* algorithm passes none over, and a search that is made again finds the   *)
(* same.                                                                   *)
(***************************************************************************)
EXTENDS LogSave, PatternSearch, Loops_proofs

-----------------------------------------------------------------------------
(* LogSave.                                                                  *)

\* The type invariant in two parts, with pc as a function.
ControlTyped ==
  /\ run \in BOOLEAN /\ sync \in BOOLEAN /\ infinite \in BOOLEAN
  /\ pc \in [Threads -> CallerLabels \cup SaveLabels] /\ pc[SaveThread] \in SaveLabels
  /\ \A c \in Callers : pc[c] \in CallerLabels
  /\ req \in [Threads -> Calls] /\ owner \in Threads \cup {NoThread}

Entries == Seq(Nat)

EntriesTyped ==
  /\ saveQ \in Entries /\ hand \in [Threads -> Entries] /\ file \in Entries
  /\ mine \in [Callers -> Nat] /\ gone \subseteq Nat /\ filed \in Nat /\ faults \in Nat

Typed == ControlTyped /\ EntriesTyped

\* A thread is between taking and trimming exactly while it owns the mutex, and
\* has entries in hand only on its way to the file.
MutexInv ==
  /\ \A t \in Threads : pc[t] \in {"take", "write", "trim"} <=> owner = t
  /\ \A t \in Threads : hand[t] # <<>> => pc[t] = "write"

\* What a writes is older than what b does.
Before(a, b) == \A m \in Range(a), n \in Range(b) : m < n

\* The file, what is on its way to it and the queue follow one another, and each
\* is in order.
OrderInv ==
  /\ Increasing(file) /\ Increasing(saveQ) /\ Before(file, saveQ)
  /\ \A t \in Threads : Increasing(hand[t]) /\ Before(file, hand[t]) /\ Before(hand[t], saveQ)

\* A caller's latest exception is on its way to the mutex, or its own thread has
\* it in hand, or it has been written or dropped.
ExceptionInv ==
  \A c \in Callers :
    /\ mine[c] \in 0 .. filed
    /\ mine[c] # 0 /\ pc[c] \notin {"lock", "take"} => mine[c] \in Range(hand[c]) \cup Range(file) \cup gone

\* The inductive invariant.
Inv == Typed /\ MutexInv /\ Conserved /\ OrderInv /\ ExceptionInv

-----------------------------------------------------------------------------
(* Sequences.                                                               *)

LEMMA IncreasingJoin ==
  ASSUME NEW s \in Seq(Nat), NEW t \in Seq(Nat), Increasing(s), Increasing(t), Before(s, t)
  PROVE  Increasing(s \o t)
<1>1. SUFFICES ASSUME NEW j \in DOMAIN (s \o t), NEW k \in DOMAIN (s \o t), j < k
               PROVE  (s \o t)[j] < (s \o t)[k]
  BY DEF Increasing
<1>2. j \in 1 .. Len(s) + Len(t) /\ k \in 1 .. Len(s) + Len(t)
  BY <1>1
<1>3. CASE k <= Len(s)
  BY <1>1, <1>2, <1>3 DEF Increasing
<1>4. CASE j > Len(s)
  <2>1. (s \o t)[j] = t[j - Len(s)] /\ (s \o t)[k] = t[k - Len(s)]
    BY <1>1, <1>2, <1>4
  <2>2. j - Len(s) \in DOMAIN t /\ k - Len(s) \in DOMAIN t /\ j - Len(s) < k - Len(s)
    BY <1>1, <1>2, <1>4
  <2> QED BY <2>1, <2>2 DEF Increasing
<1>5. CASE j <= Len(s) /\ k > Len(s)
  <2>1. (s \o t)[j] = s[j] /\ (s \o t)[k] = t[k - Len(s)]
    BY <1>2, <1>5
  <2>2. j \in DOMAIN s /\ k - Len(s) \in DOMAIN t
    BY <1>2, <1>5
  <2>3. s[j] \in Range(s) /\ t[k - Len(s)] \in Range(t)
    BY <2>2 DEF Range
  <2> QED BY <2>1, <2>3 DEF Before
<1> QED BY <1>2, <1>3, <1>4, <1>5

\* What a concatenation holds.
LEMMA JoinValues ==
  ASSUME NEW s \in Seq(Nat), NEW t \in Seq(Nat)
  PROVE  Range(s \o t) = Range(s) \cup Range(t)
<1>1. \A k \in DOMAIN (s \o t) : (k \in DOMAIN s /\ (s \o t)[k] = s[k]) \/ (k - Len(s) \in DOMAIN t /\ (s \o t)[k] = t[k - Len(s)])
  OBVIOUS
<1>2. \A j \in DOMAIN s : j \in DOMAIN (s \o t) /\ (s \o t)[j] = s[j]
  OBVIOUS
<1>3. \A j \in DOMAIN t : j + Len(s) \in DOMAIN (s \o t) /\ (s \o t)[j + Len(s)] = t[j]
  OBVIOUS
<1>4. Range(s \o t) \subseteq Range(s) \cup Range(t)
  BY <1>1 DEF Range
<1>5. Range(s) \subseteq Range(s \o t)
  BY <1>2 DEF Range
<1>6. Range(t) \subseteq Range(s \o t)
  BY <1>3 DEF Range
<1> QED BY <1>4, <1>5, <1>6

\* What a queue holds after Append, and that it stays in order.
LEMMA AppendValues ==
  ASSUME NEW s \in Seq(Nat), NEW n \in Nat
  PROVE  /\ Append(s, n) \in Seq(Nat)
         /\ Range(Append(s, n)) = Range(s) \cup {n}
         /\ Increasing(s) /\ (\A m \in Range(s) : m < n) => Increasing(Append(s, n))
<1>1. /\ Append(s, n) \in Seq(Nat)
      /\ DOMAIN Append(s, n) = 1 .. Len(s) + 1 /\ Append(s, n)[Len(s) + 1] = n
      /\ \A k \in DOMAIN s : k \in DOMAIN Append(s, n) /\ Append(s, n)[k] = s[k]
  OBVIOUS
<1>2. \A k \in DOMAIN Append(s, n) : k \in DOMAIN s \/ k = Len(s) + 1
  BY <1>1
<1>3. Range(Append(s, n)) = Range(s) \cup {n}
  BY <1>1, <1>2 DEF Range
<1>4. ASSUME Increasing(s), \A m \in Range(s) : m < n
      PROVE  Increasing(Append(s, n))
  <2>1. \A k \in DOMAIN s : s[k] < n
    BY <1>4 DEF Range
  <2> QED BY <1>1, <1>2, <1>4, <2>1 DEF Increasing
<1> QED BY <1>1, <1>3, <1>4

\* The two halves of a sequence.
LEMMA HalfValues ==
  ASSUME NEW s \in Seq(Nat), NEW h \in 0 .. Len(s)
  PROVE  /\ SubSeq(s, h + 1, Len(s)) \in Seq(Nat)
         /\ \A k \in DOMAIN SubSeq(s, h + 1, Len(s)) : k + h \in DOMAIN s /\ SubSeq(s, h + 1, Len(s))[k] = s[k + h]
         /\ Range(s) = Range(SubSeq(s, 1, h)) \cup Range(SubSeq(s, h + 1, Len(s)))
         /\ Increasing(s) => Increasing(SubSeq(s, h + 1, Len(s)))
<1> DEFINE a == SubSeq(s, 1, h)
           b == SubSeq(s, h + 1, Len(s))
<1>0. h \in Nat /\ h <= Len(s) /\ Len(s) \in Nat /\ \A i \in 1 .. Len(s) : s[i] \in Nat
  OBVIOUS
<1>1. b \in Seq(Nat) /\ DOMAIN b = 1 .. Len(s) - h /\ \A k \in DOMAIN b : k + h \in DOMAIN s /\ b[k] = s[k + h]
  <2>1. \A i \in h + 1 .. Len(s) : s[i] \in Nat
    BY <1>0
  <2>2. /\ b \in Seq(Nat)
        /\ Len(b) = IF h + 1 <= Len(s) THEN Len(s) - (h + 1) + 1 ELSE 0
        /\ \A i \in 1 .. Len(s) - (h + 1) + 1 : b[i] = s[(h + 1) + i - 1]
    BY <1>0, <2>1, SubSeqProperties
  <2> HIDE DEF b
  <2>3. Len(b) = Len(s) - h /\ DOMAIN b = 1 .. Len(b)
    BY <1>0, <2>2
  <2>4. \A k \in 1 .. Len(s) - h : b[k] = s[k + h]
    BY <1>0, <2>2
  <2>5. \A k \in 1 .. Len(s) - h : k + h \in 1 .. Len(s)
    BY <1>0
  <2>6. DOMAIN s = 1 .. Len(s) /\ DOMAIN b = 1 .. Len(s) - h
    BY <2>3
  <2> QED BY <2>2, <2>4, <2>5, <2>6
<1>2. DOMAIN a = 1 .. h /\ \A k \in DOMAIN a : k \in DOMAIN s /\ a[k] = s[k]
  <2>1. \A i \in 1 .. h : s[i] \in Nat
    BY <1>0
  <2>2. /\ a \in Seq(Nat)
        /\ Len(a) = IF 1 <= h THEN h - 1 + 1 ELSE 0
        /\ \A i \in 1 .. h - 1 + 1 : a[i] = s[1 + i - 1]
    BY <1>0, <2>1, SubSeqProperties
  <2> HIDE DEF a
  <2>3. Len(a) = h /\ DOMAIN a = 1 .. Len(a)
    BY <1>0, <2>2
  <2>4. \A k \in 1 .. h : a[k] = s[k] /\ k \in 1 .. Len(s)
    BY <1>0, <2>2
  <2> QED BY <2>3, <2>4
<1> HIDE DEF a, b
<1>3. \A k \in DOMAIN s : k \in DOMAIN a \/ (k - h \in DOMAIN b /\ b[k - h] = s[k])
  <2> TAKE k \in DOMAIN s
  <2>1. k \in 1 .. Len(s)
    BY <1>0
  <2>2. CASE k <= h
    BY <1>0, <1>2, <2>1, <2>2
  <2>3. CASE k > h
    <3>1. k - h \in DOMAIN b
      <4>1. k - h \in 1 .. Len(s) - h
        BY <1>0, <2>1, <2>3
      <4> QED BY <1>1, <4>1
    <3>2. b[k - h] = s[(k - h) + h] /\ (k - h) + h = k
      BY <1>0, <1>1, <2>1, <3>1
    <3> QED BY <3>1, <3>2
  <2> QED BY <1>0, <2>1, <2>2, <2>3
<1>4. Range(s) = Range(a) \cup Range(b)
  <2>1. Range(s) \subseteq Range(a) \cup Range(b)
    BY <1>2, <1>3 DEF Range
  <2>2. Range(a) \subseteq Range(s)
    BY <1>2 DEF Range
  <2>3. Range(b) \subseteq Range(s)
    BY <1>1 DEF Range
  <2> QED BY <2>1, <2>2, <2>3
<1>5. Increasing(s) => Increasing(b)
  BY <1>1 DEF Increasing
<1> QED BY <1>1, <1>4, <1>5 DEF a, b

LEMMA EmptyValues == Range(<<>>) = {} /\ Increasing(<<>>) /\ \A s : Before(<<>>, s) /\ Before(s, <<>>)
  BY DEF Range, Increasing, Before

-----------------------------------------------------------------------------
(* The types and the mutex.                                                 *)

\* The steps that move no entry.
Idling ==
  \/ Release \/ SetSyncSendLog \/ SetInfiniteSave \/ SaveLoop
  \/ \E c \in Callers : BeginPrint(c) \/ Save(c)

\* The steps of Next, by what they do to the entries.
LEMMA Steps ==
  ASSUME Next
  PROVE  \/ Idling \/ Clear \/ ClearSaveLog
         \/ SetClientName \/ \E c \in Callers : PrintToFile(c)
         \/ \E t \in Threads : Lock(t) \/ Take(t) \/ Write(t) \/ Trim(t)
BY DEF Next, Idling, SavingThread, Calling, SaveLogImmediately, Threads

LEMMA IdlingShape ==
  ASSUME Typed, Idling
  PROVE  /\ UNCHANGED <<saveQ, hand, file, gone, filed, mine, owner>>
         /\ \A t \in Threads :
              pc'[t] = pc[t] \/ (pc[t] \in {"idle", "loop"} /\ pc'[t] \in {"file", "lock", "drop", "done"})
BY ThreadsAssumption DEF Idling, Release, SetSyncSendLog, SetInfiniteSave, SaveLoop, BeginPrint, Save,
  Goto, saveVars, callVars, saveFrame, Typed, ControlTyped, Threads

LEMMA ControlStep ==
  ASSUME ControlTyped, [Next]_vars
  PROVE  ControlTyped'
<1> USE ThreadsAssumption DEF ControlTyped, Threads, Goto, settings, callVars, saveVars, CallerLabels, SaveLabels, Saving
<1>1. CASE Idling
  <2>1. CASE Release \/ SetSyncSendLog \/ SetInfiniteSave
    BY <2>1 DEF Release, SetSyncSendLog, SetInfiniteSave
  <2>2. CASE SaveLoop
    BY <2>2 DEF SaveLoop, saveFrame
  <2>3. ASSUME NEW c \in Callers, BeginPrint(c) \/ Save(c)
        PROVE  ControlTyped'
    <3>1. PICK r \in Calls, l \in {"file", "lock"} : req' = [req EXCEPT ![c] = r] /\ pc' = [pc EXCEPT ![c] = l]
      BY <2>3 DEF BeginPrint, Save, Calls
    <3>2. UNCHANGED <<settings, owner>>
      BY <2>3 DEF BeginPrint, Save
    <3> QED BY <3>1, <3>2
  <2> QED BY <1>1, <2>1, <2>2, <2>3 DEF Idling
<1>2. CASE Clear \/ ClearSaveLog
  BY <1>2 DEF Clear, ClearSaveLog, saveFrame
<1>3. CASE SetClientName
  BY <1>3 DEF SetClientName, AddSaveLogToQueue
<1>4. ASSUME NEW c \in Callers, PrintToFile(c)
      PROVE  ControlTyped'
  <2>1. PICK l \in {"lock", "idle"} : pc' = [pc EXCEPT ![c] = l]
    BY <1>4 DEF PrintToFile
  <2>2. req' \in [Threads -> Calls]
    BY <1>4 DEF PrintToFile, Calls
  <2>3. UNCHANGED <<settings, owner>>
    BY <1>4 DEF PrintToFile, AddSaveLogToQueue
  <2> QED BY <2>1, <2>2, <2>3
<1>5. ASSUME NEW t \in Threads, Lock(t) \/ Take(t) \/ Write(t) \/ Trim(t)
      PROVE  ControlTyped'
  <2>1. PICK l \in {"take", "write", "trim", "loop", "idle"} :
          /\ pc' = [pc EXCEPT ![t] = l]
          /\ l = "loop" => t = SaveThread
          /\ l = "idle" => t # SaveThread
    BY <1>5 DEF Lock, Take, Write, Trim
  <2>2. req' \in [Threads -> Calls]
    BY <1>5 DEF Lock, Take, Write, Trim, Calls, savingFrame
  <2>3. UNCHANGED settings /\ owner' \in {owner, t, NoThread}
    BY <1>5 DEF Lock, Take, Write, Trim, savingFrame
  <2> QED BY <2>1, <2>2, <2>3
<1>6. CASE UNCHANGED vars
  BY <1>6 DEF vars
<1> QED BY <1>1, <1>2, <1>3, <1>4, <1>5, <1>6, Steps

LEMMA EntriesStep ==
  ASSUME Typed, [Next]_vars
  PROVE  EntriesTyped'
<1> USE DEF Typed, EntriesTyped
<1>0. /\ \A s \in Entries, t \in Entries : s \o t \in Entries
      /\ \A s \in Entries : Range(s) \subseteq Nat
      /\ <<>> \in Entries
  BY DEF Range, Entries
<1>1. CASE Idling
  <2>1. UNCHANGED faults
    BY <1>1 DEF Idling, Release, SetSyncSendLog, SetInfiniteSave, SaveLoop, BeginPrint, Save, saveVars, saveFrame
  <2> QED BY <1>1, <2>1, IdlingShape
<1>2. CASE Clear
  BY <1>0, <1>2 DEF Clear, callVars
<1>3. CASE ClearSaveLog
  <2> DEFINE half == Len(saveQ) \div 2
             a == SubSeq(saveQ, 1, half)
             b == SubSeq(saveQ, half + 1, Len(saveQ))
  <2>1. half \in 0 .. Len(saveQ)
    BY DEF Entries
  <2>2. saveQ' = b /\ gone' = gone \cup Range(a) /\ UNCHANGED <<mine, hand, file, filed, faults>>
    BY <1>3 DEF ClearSaveLog, saveFrame, callVars
  <2>3. b \in Entries /\ Range(saveQ) = Range(a) \cup Range(b)
    BY <2>1, HalfValues DEF Entries
  <2> HIDE DEF a, b
  <2> QED BY <1>0, <2>2, <2>3
<1>4. ASSUME AddSaveLogToQueue
      PROVE  /\ saveQ' \in Entries /\ filed' \in Nat /\ filed + 1 \in Nat
             /\ UNCHANGED <<hand, file, gone, faults>>
  BY <1>4 DEF AddSaveLogToQueue, Entries
<1>5. CASE SetClientName
  BY <1>4, <1>5 DEF SetClientName, callVars
<1>6. ASSUME NEW c \in Callers, PrintToFile(c)
      PROVE  EntriesTyped'
  <2>1. mine' \in [Callers -> Nat]
    BY <1>4, <1>6 DEF PrintToFile
  <2> QED BY <1>4, <1>6, <2>1 DEF PrintToFile
<1>7. ASSUME NEW t \in Threads, Lock(t) \/ Take(t)
      PROVE  EntriesTyped'
  BY <1>0, <1>7 DEF Lock, Take, savingFrame, callVars
<1>8. ASSUME NEW t \in Threads, Write(t)
      PROVE  EntriesTyped'
  <2>1. hand[t] \in Entries /\ file \o hand[t] \in Entries
    BY <1>0
  <2>2. /\ file' \in {file, hand[t], file \o hand[t]}
        /\ gone' \in {gone, gone \cup Range(file), gone \cup Range(hand[t])}
        /\ faults' \in {faults, faults + 1}
    BY <1>8 DEF Write
  <2>3. hand' \in [Threads -> Entries] /\ UNCHANGED <<mine, saveQ, filed>>
    BY <1>0, <1>8 DEF Write, savingFrame, callVars
  <2>4. file' \in Entries
    BY <2>1, <2>2
  <2>5. gone' \subseteq Nat
    BY <1>0, <2>1, <2>2
  <2>6. faults' \in Nat
    BY <2>2
  <2> QED BY <2>3, <2>4, <2>5, <2>6
<1>9. ASSUME NEW t \in Threads, Trim(t)
      PROVE  EntriesTyped'
  <2>1. file' \in {file, <<>>} /\ gone' \in {gone, gone \cup Range(file)}
    BY <1>9 DEF Trim
  <2>2. UNCHANGED <<mine, saveQ, hand, filed, faults>>
    BY <1>9 DEF Trim
  <2> QED BY <1>0, <2>1, <2>2
<1>10. CASE UNCHANGED vars
  BY <1>10 DEF vars, saveVars, callVars
<1> QED BY <1>1, <1>2, <1>3, <1>5, <1>6, <1>7, <1>8, <1>9, <1>10, Steps

LEMMA TypedStep ==
  ASSUME Typed, [Next]_vars
  PROVE  Typed'
BY ControlStep, EntriesStep DEF Typed

LEMMA MutexStep ==
  ASSUME Typed, MutexInv, [Next]_vars
  PROVE  MutexInv'
<1> USE ThreadsAssumption DEF MutexInv, Goto, Threads, Typed, ControlTyped, EntriesTyped
<1>1. CASE Idling
  BY <1>1, IdlingShape
<1>2. CASE Clear
  BY <1>2 DEF Clear
<1>3. CASE ClearSaveLog
  BY <1>3 DEF ClearSaveLog, saveFrame
<1>4. CASE SetClientName
  BY <1>4 DEF SetClientName, AddSaveLogToQueue
<1>5. ASSUME NEW c \in Callers, PrintToFile(c)
      PROVE  MutexInv'
  BY <1>5 DEF PrintToFile, AddSaveLogToQueue
<1>6. ASSUME NEW t \in Threads, Lock(t) \/ Take(t) \/ Write(t) \/ Trim(t)
      PROVE  MutexInv'
  BY <1>6 DEF Lock, Take, Write, Trim
<1>7. CASE UNCHANGED vars
  BY <1>7 DEF vars, saveVars
<1> QED BY <1>1, <1>2, <1>3, <1>4, <1>5, <1>6, <1>7, Steps

-----------------------------------------------------------------------------
(* What each step does to the entries.                                      *)

\* The owner of the mutex alone has entries in hand.
LEMMA OwnerHolds ==
  ASSUME Typed, MutexInv, NEW t \in Threads, pc[t] \in {"take", "write", "trim"}
  PROVE  /\ \A u \in Threads : u # t => hand[u] = <<>>
         /\ pc[t] # "write" => hand[t] = <<>>
         /\ Held = Range(hand[t])
<1>1. \A u \in Threads : u # t => hand[u] = <<>>
  BY DEF MutexInv
<1>2. pc[t] # "write" => hand[t] = <<>>
  BY DEF MutexInv
<1>3. \A u \in Threads : u # t => Range(hand[u]) = {}
  BY <1>1, EmptyValues
<1>4. Held = Range(hand[t])
  BY <1>3 DEF Held
<1> QED BY <1>1, <1>2, <1>4

LEMMA Printed ==
  ASSUME Typed, AddSaveLogToQueue
  PROVE  /\ filed' = filed + 1 /\ UNCHANGED <<owner, hand, file, gone, Held>>
         /\ Range(saveQ') = Range(saveQ) \cup {filed + 1}
         /\ Increasing(saveQ) /\ (\A m \in Range(saveQ) : m < filed + 1) => Increasing(saveQ')
<1>1. filed' = filed + 1 /\ saveQ' = Append(saveQ, filed + 1) /\ UNCHANGED <<owner, hand, file, gone>>
  BY DEF AddSaveLogToQueue
<1>2. saveQ \in Seq(Nat) /\ filed + 1 \in Nat
  BY DEF Typed, EntriesTyped, Entries
<1>3. UNCHANGED Held
  BY <1>1 DEF Held
<1> QED BY <1>1, <1>2, <1>3, AppendValues

LEMMA Dropped ==
  ASSUME Typed, Clear \/ ClearSaveLog
  PROVE  /\ UNCHANGED <<owner, hand, file, filed, mine, Held>>
         /\ Range(saveQ) \cup gone = Range(saveQ') \cup gone'
         /\ Range(saveQ') \subseteq Range(saveQ) /\ gone \subseteq gone'
         /\ Increasing(saveQ) => Increasing(saveQ')
         /\ \A c \in Callers : pc'[c] = pc[c]
<1>1. UNCHANGED <<owner, hand, file, filed, mine>>
  BY DEF Clear, ClearSaveLog, saveFrame, callVars
<1>2. UNCHANGED Held
  BY <1>1 DEF Held
<1>3. \A c \in Callers : pc'[c] = pc[c]
  BY ThreadsAssumption DEF Clear, ClearSaveLog, Goto, Typed, ControlTyped, Threads
<1>4. CASE Clear
  <2>1. Range(saveQ') = {} /\ Increasing(saveQ') /\ gone' = gone \cup Range(saveQ)
    BY <1>4, EmptyValues DEF Clear
  <2> QED BY <1>1, <1>2, <1>3, <2>1
<1>5. CASE ClearSaveLog
  <2> DEFINE half == Len(saveQ) \div 2
             a == SubSeq(saveQ, 1, half)
             b == SubSeq(saveQ, half + 1, Len(saveQ))
  <2>1. saveQ \in Seq(Nat) /\ half \in 0 .. Len(saveQ)
    BY DEF Typed, EntriesTyped, Entries
  <2>2. saveQ' = b /\ gone' = gone \cup Range(a)
    BY <1>5 DEF ClearSaveLog
  <2>3. Range(saveQ) = Range(a) \cup Range(b) /\ (Increasing(saveQ) => Increasing(b))
    BY <2>1, HalfValues
  <2> HIDE DEF a, b
  <2> QED BY <1>1, <1>2, <1>3, <2>2, <2>3
<1> QED BY <1>4, <1>5

\* Lock and Trim; the latter may empty the file.
LEMMA LockedTrimmed ==
  ASSUME Typed, NEW t \in Threads, Lock(t) \/ Trim(t)
  PROVE  /\ UNCHANGED <<saveQ, hand, filed, mine, Held>>
         /\ Range(file) \cup gone = Range(file') \cup gone'
         /\ Range(file') \subseteq Range(file) /\ (Increasing(file) => Increasing(file'))
         /\ \A u \in Threads : pc'[u] \notin {"lock", "take"} => pc[u] \notin {"lock", "take"}
<1>1. UNCHANGED <<saveQ, hand, filed, mine>>
  BY DEF Lock, Trim, savingFrame, callVars
<1>2. UNCHANGED Held
  BY <1>1 DEF Held
<1>3. \/ UNCHANGED <<file, gone>>
      \/ file' = <<>> /\ gone' = gone \cup Range(file)
  BY DEF Lock, Trim
<1>4. \A u \in Threads : pc'[u] \notin {"lock", "take"} => pc[u] \notin {"lock", "take"}
  BY DEF Lock, Trim, Goto, Typed, ControlTyped
<1> QED BY <1>1, <1>2, <1>3, <1>4, EmptyValues

LEMMA Taken ==
  ASSUME Typed, MutexInv, NEW t \in Threads, Take(t)
  PROVE  /\ UNCHANGED <<owner, file, gone, filed, mine>> /\ saveQ' = <<>>
         /\ hand'[t] = saveQ /\ (\A u \in Threads : u # t => hand'[u] = hand[u])
         /\ Held = {} /\ Held' = Range(saveQ)
         /\ \A u \in Threads : u # t => pc'[u] = pc[u]
<1>1. UNCHANGED <<owner, file, gone, filed, mine>> /\ saveQ' = <<>> /\ hand' = [hand EXCEPT ![t] = saveQ]
  BY DEF Take, savingFrame, callVars
<1>2. hand'[t] = saveQ /\ (\A u \in Threads : u # t => hand'[u] = hand[u])
  BY <1>1 DEF Typed, EntriesTyped
<1>3. pc[t] = "take" /\ (\A u \in Threads : u # t => pc'[u] = pc[u])
  BY DEF Take, Goto, Typed, ControlTyped
<1>4. hand[t] = <<>> /\ Held = Range(hand[t]) /\ (\A u \in Threads : u # t => hand[u] = <<>>)
  BY <1>3, OwnerHolds
<1>5. Held = {} /\ (\A u \in Threads : u # t => Range(hand'[u]) = {})
  BY <1>2, <1>4, EmptyValues
<1>6. Held' = Range(saveQ)
  BY <1>2, <1>5 DEF Held
<1> QED BY <1>1, <1>2, <1>3, <1>5, <1>6

LEMMA Written ==
  ASSUME Typed, MutexInv, NEW t \in Threads, Write(t)
  PROVE  /\ UNCHANGED <<saveQ, owner, filed, mine>>
         /\ hand'[t] = <<>> /\ (\A u \in Threads : u # t => hand'[u] = hand[u] /\ hand[u] = <<>>)
         /\ Held = Range(hand[t]) /\ Held' = {}
         /\ file' \in {file, hand[t], file \o hand[t]}
         /\ Range(file') \cup gone' = Range(file) \cup gone \cup Range(hand[t])
         /\ \A u \in Threads : pc'[u] \notin {"lock", "take"} => pc[u] \notin {"lock", "take"}
<1>1. UNCHANGED <<saveQ, owner, filed, mine>> /\ hand' = [hand EXCEPT ![t] = <<>>]
  BY DEF Write, savingFrame, callVars
<1>2. hand'[t] = <<>> /\ (\A u \in Threads : u # t => hand'[u] = hand[u])
  BY <1>1 DEF Typed, EntriesTyped
<1>3. pc[t] = "write" /\ (\A u \in Threads : pc'[u] \notin {"lock", "take"} => pc[u] \notin {"lock", "take"})
  BY DEF Write, Goto, Typed, ControlTyped
<1>4. Held = Range(hand[t]) /\ (\A u \in Threads : u # t => hand[u] = <<>>)
  BY <1>3, OwnerHolds
<1>5. \A u \in Threads : Range(hand'[u]) = {}
  BY <1>2, <1>4, EmptyValues
<1>6. Held' = {}
  BY <1>5 DEF Held
<1>7. \/ file' = hand[t] /\ gone' = gone \cup Range(file)
      \/ file' = file \o hand[t] /\ gone' = gone
      \/ file' = file /\ gone' = gone \cup Range(hand[t])
  BY DEF Write
<1>8. file \in Seq(Nat) /\ hand[t] \in Seq(Nat)
  BY DEF Typed, EntriesTyped, Entries
<1>9. Range(file \o hand[t]) = Range(file) \cup Range(hand[t])
  BY <1>8, JoinValues
<1>10. Range(file') \cup gone' = Range(file) \cup gone \cup Range(hand[t])
  BY <1>7, <1>9
<1> QED BY <1>1, <1>2, <1>3, <1>4, <1>6, <1>7, <1>10

-----------------------------------------------------------------------------
(* The invariant is kept.                                                   *)

LEMMA ConservedStep ==
  ASSUME Inv, [Next]_vars
  PROVE  Conserved'
<1> USE DEF Inv, Conserved
<1>1. CASE Idling \/ UNCHANGED vars
  <2>1. UNCHANGED <<saveQ, hand, file, gone, filed>>
    BY <1>1, IdlingShape DEF vars, saveVars
  <2>2. UNCHANGED Held
    BY <2>1 DEF Held
  <2> QED BY <2>1, <2>2
<1>2. CASE Clear \/ ClearSaveLog
  BY <1>2, Dropped
<1>3. CASE AddSaveLogToQueue
  <2>1. 1 .. filed + 1 = (1 .. filed) \cup {filed + 1}
    BY DEF Typed, EntriesTyped
  <2> QED BY <1>3, <2>1, Printed
<1>4. ASSUME NEW t \in Threads, Lock(t) \/ Trim(t)
      PROVE  Conserved'
  BY <1>4, LockedTrimmed
<1>5. ASSUME NEW t \in Threads, Take(t)
      PROVE  Conserved'
  BY <1>5, Taken, EmptyValues
<1>6. ASSUME NEW t \in Threads, Write(t)
      PROVE  Conserved'
  BY <1>6, Written
<1>7. SetClientName \/ (\E c \in Callers : PrintToFile(c)) => AddSaveLogToQueue
  BY DEF SetClientName, PrintToFile
<1> QED BY <1>1, <1>2, <1>3, <1>4, <1>5, <1>6, <1>7, Steps

LEMMA OrderStep ==
  ASSUME Inv, [Next]_vars
  PROVE  OrderInv'
<1> USE DEF Inv, OrderInv
<1>1. CASE Idling \/ UNCHANGED vars
  <2>1. UNCHANGED <<saveQ, hand, file>>
    BY <1>1, IdlingShape DEF vars, saveVars
  <2> QED BY <2>1 DEF Before, Increasing
<1>2. CASE Clear \/ ClearSaveLog
  BY <1>2, Dropped DEF Before
<1>3. CASE AddSaveLogToQueue
  <2>1. \A m \in Range(saveQ) \cup Range(file) \cup Held : m < filed + 1
    BY DEF Conserved, Typed, EntriesTyped
  <2>2. \A t \in Threads : Range(hand[t]) \subseteq Held
    BY DEF Held
  <2> QED BY <1>3, <2>1, <2>2, Printed DEF Before
<1>4. ASSUME NEW t \in Threads, Lock(t) \/ Trim(t)
      PROVE  OrderInv'
  BY <1>4, LockedTrimmed DEF Before
<1>5. ASSUME NEW t \in Threads, Take(t)
      PROVE  OrderInv'
  <2>1. saveQ' = <<>> /\ file' = file /\ hand'[t] = saveQ /\ (\A u \in Threads : u # t => hand'[u] = hand[u])
    BY <1>5, Taken
  <2>2. ASSUME NEW u \in Threads
        PROVE  Increasing(hand'[u]) /\ Before(file', hand'[u])
    BY <2>1
  <2> QED BY <2>1, <2>2, EmptyValues
<1>6. ASSUME NEW t \in Threads, Write(t)
      PROVE  OrderInv'
  <2>1. /\ saveQ' = saveQ /\ hand'[t] = <<>> /\ (\A u \in Threads : u # t => hand'[u] = <<>>)
        /\ file' \in {file, hand[t], file \o hand[t]}
    BY <1>6, Written
  <2>2. file \in Seq(Nat) /\ hand[t] \in Seq(Nat)
    BY DEF Typed, EntriesTyped, Entries
  <2>3. Increasing(file \o hand[t]) /\ Before(file \o hand[t], saveQ)
    BY <2>2, IncreasingJoin, JoinValues DEF Before
  <2>4. Increasing(file') /\ Before(file', saveQ')
    BY <2>1, <2>3
  <2> QED BY <2>1, <2>4, EmptyValues
<1>7. SetClientName \/ (\E c \in Callers : PrintToFile(c)) => AddSaveLogToQueue
  BY DEF SetClientName, PrintToFile
<1> QED BY <1>1, <1>2, <1>3, <1>4, <1>5, <1>6, <1>7, Steps

LEMMA ExceptionStep ==
  ASSUME Inv, [Next]_vars
  PROVE  ExceptionInv'
<1> USE DEF Inv, ExceptionInv
<1>0. filed \in Nat /\ Callers \subseteq Threads
  BY DEF Typed, EntriesTyped, Threads
<1>1. CASE Idling \/ UNCHANGED vars
  <2>1. UNCHANGED <<saveQ, hand, file, gone, filed, mine>>
    BY <1>1, IdlingShape DEF vars, saveVars, callVars
  <2>2. \A c \in Callers : pc'[c] \notin {"lock", "take"} => pc[c] \notin {"lock", "take"}
    BY <1>0, <1>1, IdlingShape DEF vars
  <2> QED BY <2>1, <2>2
<1>2. CASE Clear \/ ClearSaveLog
  BY <1>2, Dropped
<1>3. CASE SetClientName
  <2>1. AddSaveLogToQueue /\ mine' = mine /\ \A c \in Callers : pc'[c] = pc[c]
    BY <1>0, <1>3, ThreadsAssumption DEF SetClientName, callVars, Goto, Typed, ControlTyped
  <2> QED BY <1>0, <2>1, Printed
<1>4. ASSUME NEW c \in Callers, PrintToFile(c)
      PROVE  ExceptionInv'
  <2>1. /\ AddSaveLogToQueue /\ pc[c] = "file"
        /\ \A d \in Callers : d # c => pc'[d] = pc[d] /\ mine'[d] = mine[d]
        /\ \/ mine'[c] = filed + 1 /\ pc'[c] = "lock"
           \/ mine'[c] = mine[c]
    BY <1>0, <1>4 DEF PrintToFile, Goto, Typed, ControlTyped, EntriesTyped
  <2>2. filed' = filed + 1 /\ UNCHANGED <<hand, file, gone>>
    BY <2>1, Printed
  <2>3. \A d \in Callers : mine'[d] \in 0 .. filed'
    BY <1>0, <2>1, <2>2
  <2> QED BY <2>1, <2>2, <2>3
<1>5. ASSUME NEW t \in Threads, Lock(t) \/ Trim(t)
      PROVE  ExceptionInv'
  BY <1>0, <1>5, LockedTrimmed
<1>6. ASSUME NEW t \in Threads, Take(t)
      PROVE  ExceptionInv'
  <2>1. /\ UNCHANGED <<file, gone, filed, mine>>
        /\ hand'[t] = saveQ /\ (\A u \in Threads : u # t => hand'[u] = hand[u] /\ pc'[u] = pc[u])
        /\ Held = {}
    BY <1>6, Taken
  <2>2. 1 .. filed = Range(saveQ) \cup Range(file) \cup gone
    BY <2>1 DEF Conserved
  <2>3. ASSUME NEW c \in Callers, mine[c] # 0
        PROVE  mine[c] \in Range(saveQ) \cup Range(file) \cup gone
    BY <1>0, <2>2, <2>3
  <2> QED BY <1>0, <2>1, <2>3
<1>7. ASSUME NEW t \in Threads, Write(t)
      PROVE  ExceptionInv'
  <2>1. /\ UNCHANGED <<filed, mine>>
        /\ \A u \in Threads : u # t => hand'[u] = hand[u]
        /\ Range(file') \cup gone' = Range(file) \cup gone \cup Range(hand[t])
        /\ \A u \in Threads : pc'[u] \notin {"lock", "take"} => pc[u] \notin {"lock", "take"}
    BY <1>7, Written
  <2> QED BY <1>0, <2>1
<1> QED BY <1>1, <1>2, <1>3, <1>4, <1>5, <1>6, <1>7, Steps

LEMMA InvInit ==
  ASSUME Init
  PROVE  Inv
<1> USE DEF Init
<1>1. Typed
  <2>1. ControlTyped
    BY ThreadsAssumption DEF ControlTyped, Threads, CallerLabels, SaveLabels, Calls
  <2>2. <<>> \in Entries
    BY DEF Entries
  <2>3. EntriesTyped
    BY <2>2 DEF EntriesTyped
  <2> QED BY <2>1, <2>3 DEF Typed
<1>2. MutexInv
  BY ThreadsAssumption DEF MutexInv, Threads
<1>3. Held = {}
  BY EmptyValues DEF Held
<1>4. Conserved
  BY <1>3, EmptyValues DEF Conserved
<1>5. OrderInv
  BY EmptyValues DEF OrderInv
<1>6. ExceptionInv
  BY DEF ExceptionInv
<1> QED BY <1>1, <1>2, <1>4, <1>5, <1>6 DEF Inv

LEMMA InvStep ==
  ASSUME Inv, [Next]_vars
  PROVE  Inv'
<1>1. Typed' /\ MutexInv'
  BY TypedStep, MutexStep DEF Inv
<1> QED BY <1>1, ConservedStep, OrderStep, ExceptionStep DEF Inv

LEMMA Invariant == Spec => []Inv
BY InvInit, InvStep, PTL DEF Spec

-----------------------------------------------------------------------------
(* Theorems.                                                                *)

\* The state has its types and every entry printed for the file is in the queue,
\* with the thread that saves, in the file, or was dropped by Clear, ClearSaveLog,
\* ClearLogFile, an overwriting save or a failed write: none is lost on the way
\* of SaveLog_Immediately.
THEOREM AllAccounted == Spec => []Accounted
<1>1. Typed => TypeOK
  BY DEF Typed, ControlTyped, EntriesTyped, Entries, TypeOK
<1>2. Inv => Accounted
  BY <1>1 DEF Inv, Accounted
<1> QED BY <1>2, Invariant, PTL

\* Whichever threads save, in whatever order they find the mutex free, the file,
\* what the owner is about to write and the queue are in the order of printing,
\* with nothing twice.
THEOREM InOrder == Spec => []SavedInOrder
<1>1. ASSUME Inv
      PROVE  SavedInOrder
  <2>1. file \in Seq(Nat) /\ saveQ \in Seq(Nat) /\ (\A t \in Threads : hand[t] \in Seq(Nat))
    BY <1>1 DEF Inv, Typed, EntriesTyped, Entries
  <2>2. Increasing(file \o saveQ)
    BY <1>1, <2>1, IncreasingJoin DEF Inv, OrderInv
  <2>3. ASSUME NEW t \in Threads, hand[t] # <<>>
        PROVE  owner = t /\ Increasing(file \o hand[t] \o saveQ)
    <3>1. owner = t
      BY <1>1, <2>3 DEF Inv, MutexInv
    <3>2. file \o hand[t] \in Seq(Nat) /\ Range(file \o hand[t]) = Range(file) \cup Range(hand[t])
      BY <2>1, JoinValues
    <3>3. Increasing(file \o hand[t]) /\ Before(file \o hand[t], saveQ)
      BY <1>1, <2>1, <3>2, IncreasingJoin DEF Inv, OrderInv, Before
    <3> DEFINE s == file \o hand[t]
    <3>4. s \in Seq(Nat) /\ Increasing(s) /\ Before(s, saveQ)
      BY <3>2, <3>3
    <3> HIDE DEF s
    <3>5. Increasing(s \o saveQ)
      BY <2>1, <3>4, <1>1, IncreasingJoin DEF Inv, OrderInv
    <3> QED BY <3>1, <3>5 DEF s
  <2> QED BY <2>2, <2>3 DEF SavedInOrder
<1> QED BY <1>1, Invariant, PTL

\* When the Print of an exception has returned, its entry has been written to the
\* file or dropped, whichever thread took it from the queue: SaveLog_Immediately
\* waits for the mutex, so a thread that took the entry has written it by then.
THEOREM ExceptionSaved == Spec => []ExceptionOnDisk
<1>1. ASSUME Inv
      PROVE  ExceptionOnDisk
  <2>1. SUFFICES ASSUME NEW c \in Callers, pc[c] = "idle", mine[c] # 0
                 PROVE  mine[c] \in Range(file) \cup gone
    BY DEF ExceptionOnDisk
  <2>2. hand[c] = <<>>
    BY <1>1, <2>1 DEF Inv, MutexInv, Threads
  <2>3. mine[c] \in Range(hand[c]) \cup Range(file) \cup gone
    BY <1>1, <2>1 DEF Inv, ExceptionInv
  <2> QED BY <2>2, <2>3, EmptyValues
<1> QED BY <1>1, Invariant, PTL

-----------------------------------------------------------------------------
(* PatternSearch: the inductive invariant.                                   *)

Regions == [base : Nat, size : Nat, protect : {"none", "execute", "readonly", "free"}]

SearchTyped ==
  /\ mem \in Seq(Pages) /\ Len(mem) * PageSize <= Addresses
  /\ who \in {"own", "self", "other"} /\ searchPc \in {"idle", "query", "scan", "collect", "found", "answered", "fault"}
  /\ key \in Keys /\ addr \in Nat \ {0} /\ mbi \in Regions /\ now \in Nat
  /\ vlst \in Seq(Nat) /\ vec \in Seq(Nat) /\ history \in Seq(Seq(Nat))

\* The answer is there once, and then nothing is searched any more.
Values == 0 .. Addresses - 1 \union {Thrown}
AnswerInv ==
  /\ searchPc # "answered" => answer = <<"none", 0>>
  /\ Len(answer) > 2 => Last(answer) \in Values
  /\ CallIsTarget

\* The pages of the region that is looked at are those from addr on.
RegionInv == searchPc \in {"scan", "collect"} => mbi.base = addr

\* All pages of the region are there in this process.
Within == \A i \in mbi.base .. mbi.base + mbi.size - 1 : i \in DOMAIN mem
L == Len(key)

\* The place where a match of the pattern may be found in a code.
MatchAt(code, at) == at + L < Len(code) /\ Matches(code, at)
Far(s) == \A i \in 1 .. Len(s) - 1 : s[i + 1] > s[i] + L
Covers(s, at) == \E i \in DOMAIN s : s[i] <= at /\ at <= s[i] + L

\* What is found of a code before n: matches, each further than the pattern from the
\* last, and there is no match before n but within or right behind one of them.
FoundBefore(code, s, n) ==
  /\ \A i \in DOMAIN s : MatchAt(code, s[i]) /\ s[i] + L < n
  /\ Far(s)
  /\ \A at \in Nat : at < n /\ MatchAt(code, at) => Covers(s, at)

ScanInv ==
  /\ searchPc = "scan" => FoundBefore(CodeOf(mbi), vlst, now)
  /\ searchPc = "collect" => Within /\ FoundBefore(CodeOf(mbi), vlst, now) /\ now + L >= Len(CodeOf(mbi))

\* What is found of the image so far lies before the page that comes next.
VecInv ==
  /\ \A i \in DOMAIN vec : MatchAt(AllBytes, vec[i])
  /\ Far(vec)
  /\ searchPc \in {"query", "scan", "collect"} => \A i \in DOMAIN vec : vec[i] + L < (addr - 1) * PageSize

\* The first search of CSearchBinary leaves no read-only page behind it.
NoneReadOnly(n) == \A i \in DOMAIN mem : i <= n => mem[i].protect # "readonly"
Passed ==
  IF searchPc = "query" THEN addr - 1 ELSE IF searchPc \in {"scan", "collect"} THEN addr + mbi.size - 1 ELSE 0
PassedInv ==
  /\ who = "own" => NoneReadOnly(Passed)
  /\ history # <<>> => NoneReadOnly(Len(mem))

-----------------------------------------------------------------------------
(* The image.                                                                *)

Byte == 0 .. Addresses - 1
BytesOf(m) == [i \in DOMAIN m |-> m[i].bytes]

LEMMA ImageBytes ==
  ASSUME SearchAssumption, NEW m \in Seq(Pages)
  PROVE  /\ BytesOf(m) \in Seq(Pieces(Byte, PageSize)) /\ Len(BytesOf(m)) = Len(m)
         /\ FlattenSeq(BytesOf(m)) \in Seq(Byte) /\ Len(FlattenSeq(BytesOf(m))) = Len(m) * PageSize
<1>1. PageSize \in Nat /\ Len(m) \in Nat /\ DOMAIN m = 1 .. Len(m)
  BY DEF SearchAssumption
<1>2. \A i \in 1 .. Len(m) : m[i].bytes \in Pieces(Byte, PageSize)
  <2> TAKE i \in 1 .. Len(m)
  <2>1. m[i] \in Pages
    BY <1>1
  <2>2. m[i].bytes \in [1 .. PageSize -> Byte]
    BY <2>1 DEF Pages, Byte
  <2>3. m[i].bytes \in Seq(Byte) /\ Len(m[i].bytes) = PageSize
    BY <1>1, <2>2
  <2> QED BY <2>3 DEF Pieces
<1>3. BytesOf(m) \in Seq(Pieces(Byte, PageSize)) /\ Len(BytesOf(m)) = Len(m)
  BY <1>1, <1>2 DEF BytesOf
<1> QED BY <1>1, <1>3, FlattenLength

\* The code of a region is where its pages are in the image.
LEMMA RegionCode ==
  ASSUME SearchAssumption, SearchTyped, NEW r \in Regions, r.base > 0, \A i \in r.base .. r.base + r.size - 1 : i \in DOMAIN mem
  PROVE  /\ CodeOf(r) \in Seq(Byte) /\ Len(CodeOf(r)) = r.size * PageSize
         /\ r.size > 0 => r.base + r.size - 1 <= Len(mem)
         /\ RegionStart(r) \in Nat /\ RegionStart(r) + Len(CodeOf(r)) = (r.base + r.size - 1) * PageSize
         /\ \A x \in 1 .. Len(CodeOf(r)) : CodeOf(r)[x] = AllBytes[RegionStart(r) + x]
<1> DEFINE b == r.base
           k == r.size
           part == [i \in 1 .. k |-> BytesOf(mem)[b + i - 1]]
<1>1. /\ b \in Nat \ {0} /\ k \in Nat /\ PageSize \in Nat
      /\ mem \in Seq(Pages) /\ Len(mem) \in Nat /\ DOMAIN mem = 1 .. Len(mem)
  BY DEF Regions, SearchAssumption, SearchTyped
<1>2. BytesOf(mem) \in Seq(Pieces(Byte, PageSize)) /\ Len(BytesOf(mem)) = Len(mem) /\ AllBytes = FlattenSeq(BytesOf(mem))
  BY <1>1, ImageBytes DEF AllBytes, BytesOf
<1>3. k > 0 => b + k - 1 <= Len(mem)
  <2>1. k > 0 => b + k - 1 \in b .. b + k - 1
    BY <1>1
  <2> QED BY <1>1, <2>1
<1>4. \A i \in 1 .. k : b + i - 1 \in 1 .. Len(mem)
  BY <1>1, <1>3
<1>5. part \in Seq(Pieces(Byte, PageSize)) /\ Len(part) = k
  <2>1. \A i \in 1 .. k : BytesOf(mem)[b + i - 1] \in Pieces(Byte, PageSize)
    BY <1>2, <1>4
  <2> QED BY <1>1, <2>1
<1>6. CodeOf(r) = FlattenSeq(part)
  <2>1. \A i \in 1 .. k : BytesOf(mem)[b + i - 1] = mem[b + i - 1].bytes
    BY <1>1, <1>4 DEF BytesOf
  <2>2. part = [i \in 1 .. k |-> mem[b + i - 1].bytes]
    BY <2>1
  <2> QED BY <2>2 DEF CodeOf
<1>7. CodeOf(r) \in Seq(Byte) /\ Len(CodeOf(r)) = k * PageSize
  BY <1>1, <1>5, <1>6, FlattenLength
<1>8. RegionStart(r) \in Nat /\ RegionStart(r) + k * PageSize = (b + k - 1) * PageSize
  <2>1. \A x, y, z \in Nat : x * z \in Nat /\ x * z + y * z = (x + y) * z
    OBVIOUS
  <2>2. b - 1 \in Nat /\ (b - 1) + k = b + k - 1
    BY <1>1
  <2>3. (b - 1) * PageSize \in Nat /\ (b - 1) * PageSize + k * PageSize = ((b - 1) + k) * PageSize
    BY <1>1, <2>1, <2>2
  <2> QED BY <2>2, <2>3 DEF RegionStart
<1>9. \A x \in 1 .. k * PageSize : FlattenSeq(part)[x] = AllBytes[(b - 1) * PageSize + x]
  <2>1. CASE k = 0
    <3>1. 0 * PageSize = 0
      BY <1>1
    <3>2. ASSUME NEW x \in 1 .. k * PageSize PROVE FALSE
      BY <2>1, <3>1, <3>2
    <3> QED BY <3>2
  <2>2. CASE k # 0
    <3>1. b + k - 1 <= Len(BytesOf(mem))
      BY <1>1, <1>2, <1>3, <2>2
    <3>2. FlatPart(BytesOf(mem), b, k, PageSize)
      BY <1>1, <1>2, <3>1, FlattenPart
    <3> QED BY <1>2, <3>2 DEF FlatPart
  <2> QED BY <2>1, <2>2
<1> QED BY <1>3, <1>6, <1>7, <1>8, <1>9 DEF RegionStart

\* The pages from p on that share its protection.
LEMMA QueryIs ==
  ASSUME NEW m \in Seq(Pages), NEW p \in 1 .. Len(m), NEW r, r = VirtualQueryEx(m, p)
  PROVE  /\ r \in Regions /\ r.base = p /\ r.size > 0 /\ p + r.size - 1 <= Len(m)
         /\ \A i \in p .. p + r.size - 1 : i \in DOMAIN m /\ m[i].protect = r.protect
<1> DEFINE T == {n \in p .. Len(m) : n < Len(m) => m[n + 1].protect # m[p].protect}
           Is(n) == /\ \A i \in p .. n : m[i].protect = m[p].protect
                    /\ n < Len(m) => m[n + 1].protect # m[p].protect
           last == CHOOSE n \in p .. Len(m) : Is(n)
<1>1. Len(m) \in Nat /\ DOMAIN m = 1 .. Len(m) /\ p \in Nat /\ p >= 1 /\ p <= Len(m)
  OBVIOUS
<1>2. PICK n \in T : \A y \in T : n <= y
  <2>1. Len(m) \in T
    BY <1>1
  <2>2. T \subseteq Nat /\ T # {}
    BY <1>1, <2>1
  <2> QED BY <2>2, LeastNumber DEF HasLeast
<1>3. Is(n)
  <2>1. ASSUME NEW i \in p .. n, m[i].protect # m[p].protect
        PROVE  FALSE
    <3>1. i - 1 \in p .. Len(m) /\ (i - 1) + 1 = i
      BY <1>1, <1>2, <2>1
    <3>2. i - 1 \in T
      BY <2>1, <3>1
    <3>4. n <= i - 1
      BY <1>2, <3>2
    <3>3. n \in Nat /\ i \in Nat /\ i <= n /\ n <= i - 1
      BY <1>1, <3>4
    <3> QED BY <3>3
  <2> QED BY <1>2, <2>1
<1>4. last \in p .. Len(m) /\ Is(last)
  BY <1>2, <1>3
<1>5. r = [base |-> p, size |-> last - p + 1, protect |-> m[p].protect]
  BY DEF VirtualQueryEx
<1> HIDE DEF last, T
<1>6. m[p].protect \in {"execute", "readonly", "free"}
  <2>1. m[p] \in Pages
    BY <1>1
  <2> QED BY <2>1 DEF Pages
<1>7. last - p + 1 \in Nat /\ last - p + 1 > 0 /\ p + (last - p + 1) - 1 = last
  BY <1>1, <1>4
<1> QED BY <1>1, <1>4, <1>5, <1>6, <1>7 DEF Regions

\* VirtualProtect changes the protection of pages, and nothing else.
LEMMA ProtectIs ==
  ASSUME NEW r, mem \in Seq(Pages)
  PROVE  /\ Protect(r) \in Seq(Pages) /\ Len(Protect(r)) = Len(mem) /\ DOMAIN Protect(r) = DOMAIN mem
         /\ BytesOf(Protect(r)) = BytesOf(mem)
         /\ \A i \in DOMAIN mem :
              Protect(r)[i].protect = IF who = "own" /\ r.protect = "readonly" /\ i \in r.base .. r.base + r.size - 1 THEN "execute"
                                      ELSE mem[i].protect
         /\ who # "own" \/ r.protect # "readonly" => Protect(r) = mem
<1> DEFINE m == Protect(r)
           Now(i) == who = "own" /\ r.protect = "readonly" /\ i \in r.base .. r.base + r.size - 1
<1>1. Len(mem) \in Nat /\ DOMAIN mem = 1 .. Len(mem) /\ mem = [i \in 1 .. Len(mem) |-> mem[i]]
  OBVIOUS
<1>2. m = [i \in 1 .. Len(mem) |-> IF Now(i) THEN [mem[i] EXCEPT !.protect = "execute"] ELSE mem[i]]
  BY <1>1 DEF Protect
<1> HIDE DEF m, Now
<1>3. ASSUME NEW i \in 1 .. Len(mem)
      PROVE  m[i] \in Pages /\ m[i].bytes = mem[i].bytes /\ m[i].protect = IF Now(i) THEN "execute" ELSE mem[i].protect
  <2>1. mem[i] \in Pages
    BY <1>1
  <2>2. m[i] = IF Now(i) THEN [mem[i] EXCEPT !.protect = "execute"] ELSE mem[i]
    BY <1>2
  <2> QED BY <2>1, <2>2 DEF Pages
<1>4. m \in Seq(Pages) /\ Len(m) = Len(mem) /\ DOMAIN m = 1 .. Len(mem)
  BY <1>1, <1>2, <1>3
<1>5. BytesOf(m) = BytesOf(mem)
  BY <1>1, <1>3, <1>4 DEF BytesOf
<1>6. who # "own" \/ r.protect # "readonly" => m = mem
  <2> SUFFICES ASSUME who # "own" \/ r.protect # "readonly"
               PROVE  m = mem
    OBVIOUS
  <2>1. \A i \in 1 .. Len(mem) : ~ Now(i)
    BY DEF Now
  <2> QED BY <1>1, <1>2, <2>1
<1> QED BY <1>1, <1>3, <1>4, <1>5, <1>6 DEF m, Now

-----------------------------------------------------------------------------
(* Types.                                                                    *)

LEMMA KeyIs ==
  ASSUME SearchAssumption, SearchTyped
  PROVE  L \in Nat /\ L > 0 /\ key \in Seq(Nat) /\ DOMAIN key = 1 .. L
<1>1. key \in Seq(Nat) /\ key # <<>>
  BY DEF SearchAssumption, SearchTyped
<1> QED BY <1>1 DEF L

LEMMA MaxIs ==
  ASSUME NEW n \in Nat, NEW T, T \subseteq 1 .. n, T # {}
  PROVE  Max(T) \in T /\ \A y \in T : y <= Max(T)
<1> DEFINE U == {n - x : x \in T}
<1>1. PICK u \in U : \A y \in U : u <= y
  <2>1. \A x \in T : n - x \in Nat
    OBVIOUS
  <2>2. U \subseteq Nat /\ U # {}
    BY <2>1
  <2> HIDE DEF U
  <2> QED BY <2>2, LeastNumber DEF HasLeast
<1>2. PICK x \in T : u = n - x
  BY <1>1
<1>3. \A y \in T : x >= y
  <2> TAKE y \in T
  <2>1. n - y \in U
    OBVIOUS
  <2> QED BY <1>1, <1>2, <2>1
<1>4. Max(T) \in T /\ \A y \in T : Max(T) >= y
  BY <1>3 DEF Max
<1> QED BY <1>4

\* Sunday's skip does not pass a place where the pattern might match: the word behind
\* the place has to be in it.
LEMMA SkipIs ==
  ASSUME SearchAssumption, SearchTyped, NEW code \in Seq(Byte), now + L < Len(code)
  PROVE  Skip(code) \in Nat \ {0} /\ \A d \in 1 .. Skip(code) - 1 : ~ Matches(code, now + d)
<1> DEFINE word == code[L + now + 1]
           T == {i \in 1 .. L : key[i] \in {Wild, word}}
<1>1. L \in Nat /\ now \in Nat
  BY KeyIs DEF SearchTyped
<1>2. Skip(code) = IF T = {} THEN L + 1 ELSE IF L - Max(T) + 1 = -1 THEN L + 1 ELSE L - Max(T) + 1
  <2>1. GetWord_By_Char(word) = IF T = {} THEN -1 ELSE L - Max(T) + 1
    BY DEF GetWord_By_Char, L
  <2> QED BY <2>1 DEF Skip, L
<1>3. ASSUME NEW d \in 1 .. L, Matches(code, now + d)
      PROVE  L + 1 - d \in T
  <2>1. L + 1 - d \in 1 .. L /\ (now + d) + (L + 1 - d) = L + now + 1
    BY <1>1
  <2>2. key[L + 1 - d] = Wild \/ key[L + 1 - d] = code[(now + d) + (L + 1 - d)]
    BY <1>3, <2>1 DEF Matches, L
  <2> QED BY <2>1, <2>2
<1> HIDE DEF T
<1>4. CASE T = {}
  BY <1>1, <1>2, <1>3, <1>4
<1>5. CASE T # {}
  <2>1. Max(T) \in T /\ T \subseteq 1 .. L /\ \A y \in T : y <= Max(T)
    <3>1. T \subseteq 1 .. L
      BY DEF T
    <3> QED BY <1>1, <1>5, <3>1, MaxIs
  <2>4. Max(T) \in 1 .. L
    BY <2>1
  <2>5. L - Max(T) + 1 # -1
    BY <1>1, <2>4
  <2>2. Skip(code) = L - Max(T) + 1 /\ Max(T) \in 1 .. L
    BY <1>2, <1>5, <2>4, <2>5
  <2>3. ASSUME NEW d \in 1 .. Skip(code) - 1, Matches(code, now + d)
        PROVE  FALSE
    <3>1. d \in 1 .. L /\ L + 1 - d > Max(T)
      BY <1>1, <2>2
    <3> QED BY <1>1, <1>3, <2>1, <2>2, <2>3, <3>1
  <2> QED BY <1>1, <2>2, <2>3
<1> QED BY <1>4, <1>5

Step == [SearchNext]_searchVars
Search == SearchAssumption /\ SearchTyped /\ RegionInv

LEMMA QueriedIs ==
  ASSUME SearchAssumption, SearchTyped
  PROVE  Queried \in Seq(Pages)
BY DEF SearchAssumption, SearchTyped, Queried

\* What the image is of does not change, only its protection.
LEMMA ImageStays ==
  ASSUME Search, Step
  PROVE  /\ mem' \in Seq(Pages) /\ Len(mem') = Len(mem) /\ DOMAIN mem' = DOMAIN mem /\ AllBytes' = AllBytes /\ key' = key
         /\ ~ Query => mem' = mem
<1>1. CASE Query
  <2>1. PICK r : mem' = Protect(r) /\ key' = key
    BY <1>1 DEF Query
  <2>2. mem \in Seq(Pages)
    BY DEF Search, SearchTyped
  <2> QED BY <1>1, <2>1, <2>2, ProtectIs DEF AllBytes, BytesOf
<1>2. CASE ~ Query
  <2>1. mem' = mem /\ key' = key
    BY <1>2 DEF Step, SearchNext, searchVars, SearchBase, SearchFails, QueryFails, Sunday, Collect, EndOfImage, Answer
  <2> QED BY <1>2, <2>1 DEF AllBytes, Search, SearchTyped
<1> QED BY <1>1, <1>2

LEMMA SearchTypedStep ==
  ASSUME Search, Step
  PROVE  SearchTyped' /\ RegionInv'
<1>1. mem' \in Seq(Pages) /\ Len(mem') * PageSize <= Addresses /\ key' \in Keys
  BY ImageStays DEF Search, SearchTyped
<1>2. ASSUME NEW w \in {"own", "self", "other"}, SearchBase(w)
      PROVE  SearchTyped' /\ RegionInv'
  <2>1. mbi' \in Regions
    BY <1>2 DEF SearchBase, Garbage, Regions
  <2> QED BY <1>1, <1>2, <2>1 DEF SearchBase, Search, SearchTyped, RegionInv
<1>3. ASSUME NEW w \in {"own", "self", "other"}, SearchFails(w)
      PROVE  SearchTyped' /\ RegionInv'
  BY <1>1, <1>3 DEF SearchFails, Search, SearchTyped, RegionInv
<1>4. CASE Query
  <2>1. PICK r : /\ r = VirtualQueryEx(Queried, addr) /\ mbi' = r
                 /\ IF Scanned(r) THEN searchPc' = "scan" /\ UNCHANGED addr ELSE searchPc' = "query" /\ addr' = addr + r.size
    BY <1>4 DEF Query
  <2>2. addr \in 1 .. Len(Queried) /\ Queried \in Seq(Pages)
    BY <1>4, QueriedIs DEF Query, Search, SearchTyped
  <2>3. r \in Regions /\ r.base = addr /\ r.size \in Nat
    BY <2>1, <2>2, QueryIs DEF Regions
  <2>4. addr' \in Nat \ {0} /\ searchPc' \in {"scan", "query"} /\ (searchPc' = "scan" => addr' = addr)
    BY <2>1, <2>3 DEF Search, SearchTyped
  <2> QED BY <1>1, <1>4, <2>1, <2>3, <2>4 DEF Query, Search, SearchTyped, RegionInv
<1>5. CASE QueryFails
  <2>1. addr' \in Nat \ {0}
    BY <1>5 DEF QueryFails, Search, SearchTyped, Regions
  <2> QED BY <1>1, <1>5, <2>1 DEF QueryFails, Search, SearchTyped, RegionInv
<1>6. CASE Sunday
  <2>1. searchPc' \in {"scan", "collect", "fault"} /\ UNCHANGED <<mem, who, key, addr, mbi, vec, history>>
    BY <1>6 DEF Sunday
  <2>2. now' \in Nat /\ vlst' \in Seq(Nat)
    <3>1. CASE UNCHANGED <<vlst, now>>
      BY <3>1 DEF Search, SearchTyped
    <3>2. CASE ~ UNCHANGED <<vlst, now>>
      <4>1. PICK code : /\ code = CodeOf(mbi) /\ now + L < Len(code)
                        /\ \/ vlst' = Append(vlst, now) /\ now' = now + L + 1
                           \/ now' = now + Skip(code) /\ vlst' = vlst
                        /\ \A i \in mbi.base .. mbi.base + mbi.size - 1 : i \in DOMAIN mem
        BY <1>6, <3>2 DEF Sunday, L
      <4>2. mbi.base > 0 /\ mbi \in Regions
        BY <1>6 DEF Sunday, Search, SearchTyped, RegionInv
      <4>3. code \in Seq(Byte)
        BY <4>1, <4>2, RegionCode DEF Search
      <4>4. Skip(code) \in Nat
        BY <4>1, <4>3, SkipIs DEF Search
      <4>5. L \in Nat
        BY KeyIs DEF Search
      <4>6. now \in Nat /\ vlst \in Seq(Nat)
        BY DEF Search, SearchTyped
      <4>7. CASE vlst' = Append(vlst, now) /\ now' = now + L + 1
        BY <4>5, <4>6, <4>7, AppendProperties
      <4>8. CASE now' = now + Skip(code) /\ vlst' = vlst
        BY <4>4, <4>6, <4>8
      <4> QED BY <4>1, <4>7, <4>8
    <3> QED BY <3>1, <3>2
  <2>3. searchPc = "scan"
    BY <1>6 DEF Sunday
  <2> QED BY <1>1, <2>1, <2>2, <2>3 DEF Search, SearchTyped, RegionInv
<1>7. CASE Collect
  <2>1. mbi.base > 0 /\ mbi \in Regions /\ mbi.base \in Nat /\ mbi.size \in Nat /\ addr \in Nat \ {0} /\ PageSize \in Nat
    BY <1>7 DEF Collect, Search, SearchTyped, RegionInv, Regions, SearchAssumption
  <2>2. RegionStart(mbi) \in Nat
    <3>1. \A x, y \in Nat : x * y \in Nat
      OBVIOUS
    <3>2. mbi.base - 1 \in Nat
      BY <2>1
    <3> QED BY <2>1, <3>1, <3>2 DEF RegionStart
  <2>3. [i \in DOMAIN vlst |-> RegionStart(mbi) + vlst[i]] \in Seq(Nat)
    <3>1. vlst \in Seq(Nat) /\ DOMAIN vlst = 1 .. Len(vlst) /\ Len(vlst) \in Nat
      BY DEF Search, SearchTyped
    <3>2. \A i \in 1 .. Len(vlst) : RegionStart(mbi) + vlst[i] \in Nat
      BY <2>2, <3>1
    <3> QED BY <3>1, <3>2
  <2>4. vec' \in Seq(Nat)
    <3>1. vec \in Seq(Nat)
      BY DEF Search, SearchTyped
    <3>2. \E t \in Seq(Nat) : vec' = vec \o t
      <4>1. CASE Len(vlst) < MaxSearchCount
        BY <1>7, <2>3, <4>1 DEF Collect
      <4>2. CASE ~ (Len(vlst) < MaxSearchCount)
        <5>1. vec' = vec \o <<>> /\ <<>> \in Seq(Nat)
          BY <1>7, <4>2 DEF Collect
        <5> QED BY <5>1
      <4> QED BY <4>1, <4>2
    <3> QED BY <3>1, <3>2, ConcatProperties
  <2>5. addr' \in Nat \ {0}
    BY <1>7, <2>1 DEF Collect
  <2> QED BY <1>1, <1>7, <2>4, <2>5 DEF Collect, Search, SearchTyped, RegionInv
<1>8. CASE EndOfImage
  <2>1. history' \in Seq(Seq(Nat))
    <3>1. vec \in Seq(Nat) /\ history \in Seq(Seq(Nat))
      BY DEF Search, SearchTyped
    <3>2. Append(history, vec) \in Seq(Seq(Nat))
      BY <3>1, AppendProperties
    <3> QED BY <1>8, <3>1, <3>2 DEF EndOfImage
  <2> QED BY <1>1, <1>8, <2>1 DEF EndOfImage, Search, SearchTyped, RegionInv
<1>9. CASE Answer
  BY <1>1, <1>9 DEF Answer, Search, SearchTyped, RegionInv
<1>10. CASE UNCHANGED searchVars
  BY <1>10 DEF searchVars, Search, SearchTyped, RegionInv
<1> QED BY <1>2, <1>3, <1>4, <1>5, <1>6, <1>7, <1>8, <1>9, <1>10 DEF Step, SearchNext

-----------------------------------------------------------------------------
(* The scan of a region.                                                     *)

LEMMA FarGrows ==
  ASSUME L \in Nat, NEW s \in Seq(Nat), NEW n \in Nat, Far(s), \A i \in DOMAIN s : s[i] + L < n
  PROVE  Far(Append(s, n))
<1> DEFINE u == Append(s, n)
<1>1. /\ Len(s) \in Nat /\ DOMAIN s = 1 .. Len(s)
      /\ u \in Seq(Nat) /\ Len(u) = Len(s) + 1 /\ u[Len(s) + 1] = n /\ \A i \in 1 .. Len(s) : u[i] = s[i]
  BY AppendProperties
<1> HIDE DEF u
<1>2. ASSUME NEW i \in 1 .. Len(u) - 1
      PROVE  u[i + 1] > u[i] + L
  <2>1. i \in 1 .. Len(s) /\ u[i] = s[i] /\ s[i] \in Nat
    BY <1>1
  <2>2. CASE i = Len(s)
    BY <1>1, <2>1, <2>2
  <2>3. CASE i # Len(s)
    <3>1. \A n1 \in Nat : \A k \in 1 .. n1 : k # n1 => k \in 1 .. n1 - 1 /\ k + 1 \in 1 .. n1
      OBVIOUS
    <3>2. i \in 1 .. Len(s) - 1 /\ i + 1 \in 1 .. Len(s)
      BY <1>1, <2>1, <2>3, <3>1
    <3> QED BY <1>1, <2>1, <3>2 DEF Far
  <2> QED BY <2>2, <2>3
<1> QED BY <1>2 DEF Far, u

LEMMA FoundOneMore ==
  ASSUME L \in Nat, NEW code, NEW s \in Seq(Nat), NEW n \in Nat, FoundBefore(code, s, n), MatchAt(code, n)
  PROVE  FoundBefore(code, Append(s, n), n + L + 1)
<1> DEFINE u == Append(s, n)
<1>1. /\ Len(s) \in Nat /\ DOMAIN s = 1 .. Len(s)
      /\ u \in Seq(Nat) /\ Len(u) = Len(s) + 1 /\ u[Len(s) + 1] = n /\ \A i \in 1 .. Len(s) : u[i] = s[i]
  BY AppendProperties
<1>2. Far(u)
  BY FarGrows DEF FoundBefore
<1> HIDE DEF u
<1>3. DOMAIN u = 1 .. Len(s) + 1
  BY <1>1
<1>4. ASSUME NEW i \in DOMAIN u
      PROVE  MatchAt(code, u[i]) /\ u[i] + L < n + L + 1
  <2>1. CASE i \in 1 .. Len(s)
    <3>1. MatchAt(code, s[i]) /\ s[i] + L < n /\ s[i] \in Nat
      BY <1>1, <2>1 DEF FoundBefore
    <3> QED BY <1>1, <2>1, <3>1
  <2>2. CASE i = Len(s) + 1
    BY <1>1, <2>2
  <2> QED BY <1>1, <1>3, <2>1, <2>2
<1>5. ASSUME NEW at \in Nat, at < n + L + 1, MatchAt(code, at)
      PROVE  Covers(u, at)
  <2>1. CASE at < n
    <3>1. PICK i \in 1 .. Len(s) : s[i] <= at /\ at <= s[i] + L
      BY <1>1, <1>5, <2>1 DEF FoundBefore, Covers
    <3>2. i \in DOMAIN u /\ u[i] = s[i]
      BY <1>1, <1>3, <3>1
    <3> QED BY <3>1, <3>2 DEF Covers
  <2>2. CASE at >= n
    <3>1. Len(s) + 1 \in DOMAIN u /\ n <= at /\ at <= n + L
      BY <1>1, <1>3, <1>5, <2>2
    <3> QED BY <1>1, <3>1 DEF Covers
  <2> QED BY <2>1, <2>2
<1>6. FoundBefore(code, u, n + L + 1)
  BY <1>2, <1>4, <1>5 DEF FoundBefore
<1> QED BY <1>6 DEF u

LEMMA FoundFurther ==
  ASSUME L \in Nat, NEW code, NEW s \in Seq(Nat), NEW n \in Nat, NEW k \in Nat \ {0}, FoundBefore(code, s, n),
         \A d \in 0 .. k - 1 : ~ MatchAt(code, n + d)
  PROVE  FoundBefore(code, s, n + k)
<1>1. ASSUME NEW i \in DOMAIN s
      PROVE  MatchAt(code, s[i]) /\ s[i] + L < n + k
  <2>1. MatchAt(code, s[i]) /\ s[i] + L < n /\ s[i] \in Nat
    BY DEF FoundBefore
  <2> QED BY <2>1
<1>2. ASSUME NEW at \in Nat, at < n + k, MatchAt(code, at)
      PROVE  Covers(s, at)
  <2>1. CASE at < n
    BY <1>2, <2>1 DEF FoundBefore
  <2>2. CASE at >= n
    <3>1. at - n \in 0 .. k - 1 /\ n + (at - n) = at
      BY <1>2, <2>2
    <3> QED BY <1>2, <3>1
  <2> QED BY <2>1, <2>2
<1> QED BY <1>1, <1>2 DEF FoundBefore

LEMMA ScanStep ==
  ASSUME Search, ScanInv, Step
  PROVE  ScanInv'
<1>1. key' = key /\ L' = L /\ L \in Nat
  BY ImageStays, KeyIs DEF L, Search
<1>2. CASE Query
  <2>1. searchPc' \in {"scan", "query"} /\ vlst' = <<>> /\ now' = 0
    BY <1>2 DEF Query
  <2>2. \A code : FoundBefore(code, <<>>, 0)
    BY DEF FoundBefore, Far
  <2>3. FoundBefore(CodeOf(mbi), vlst, now)'
    <3>1. FoundBefore(CodeOf(mbi)', <<>>, 0)
      BY <2>2
    <3> QED BY <1>1, <2>1 DEF FoundBefore, Far
  <2> QED BY <2>1, <2>3 DEF ScanInv
<1>3. CASE Sunday
  <2>1. searchPc = "scan" /\ UNCHANGED <<mem, key, mbi>> /\ now \in Nat /\ vlst \in Seq(Nat) /\ mbi.base > 0 /\ mbi \in Regions
    BY <1>3 DEF Sunday, Search, SearchTyped, RegionInv
  <2>2. PICK code : code = CodeOf(mbi)
    OBVIOUS
  <2>3. CodeOf(mbi)' = code
    BY <2>1, <2>2 DEF CodeOf
  <2>4. FoundBefore(code, vlst, now)
    BY <2>1, <2>2 DEF ScanInv
  <2>5. CASE searchPc' = "fault"
    BY <2>5 DEF ScanInv
  <2>6. CASE searchPc' # "fault"
    <3>1. /\ Within
          /\ IF now + L < Len(code)
             THEN /\ IF CompCode(code, now)
                     THEN vlst' = Append(vlst, now) /\ now' = now + L + 1
                     ELSE now' = now + Skip(code) /\ vlst' = vlst
                  /\ searchPc' = searchPc
             ELSE searchPc' = "collect" /\ vlst' = vlst /\ now' = now
      BY <1>3, <2>2, <2>6 DEF Sunday, Within, L
    <3>2. code \in Seq(Byte) /\ Len(code) \in Nat
      BY <2>1, <2>2, <3>1, RegionCode DEF Search, Within
    <3>3. FoundBefore(code, vlst', now')
      <4>1. CASE now + L < Len(code) /\ CompCode(code, now)
        <5>1. MatchAt(code, now)
          BY <4>1 DEF MatchAt, CompCode, Matches
        <5>2. vlst' = Append(vlst, now) /\ now' = now + L + 1
          BY <3>1, <4>1
        <5>3. FoundBefore(code, Append(vlst, now), now + L + 1)
          BY <1>1, <2>1, <2>4, <5>1, FoundOneMore
        <5> QED BY <5>2, <5>3
      <4>2. CASE now + L < Len(code) /\ ~ CompCode(code, now)
        <5>1. ~ MatchAt(code, now)
          BY <4>2 DEF MatchAt, CompCode, Matches
        <5>2. vlst' = vlst /\ now' = now + Skip(code)
          BY <3>1, <4>2
        <5>3. Skip(code) \in Nat \ {0} /\ \A d \in 1 .. Skip(code) - 1 : ~ Matches(code, now + d)
          BY <3>2, <4>2, SkipIs DEF Search
        <5>4. \A d \in 0 .. Skip(code) - 1 : ~ MatchAt(code, now + d)
          <6> TAKE d \in 0 .. Skip(code) - 1
          <6>1. CASE d = 0
            BY <2>1, <5>1, <6>1
          <6>2. CASE d # 0
            <7>1. d \in 1 .. Skip(code) - 1
              BY <5>3, <6>2
            <7> QED BY <5>3, <7>1 DEF MatchAt
          <6> QED BY <6>1, <6>2
        <5>5. FoundBefore(code, vlst, now + Skip(code))
          BY <1>1, <2>1, <2>4, <5>3, <5>4, FoundFurther
        <5> QED BY <5>2, <5>5
      <4>3. CASE ~ (now + L < Len(code))
        BY <2>4, <3>1, <4>3
      <4> QED BY <4>1, <4>2, <4>3
    <3>4. FoundBefore(CodeOf(mbi), vlst, now)'
      BY <1>1, <2>3, <3>3 DEF FoundBefore, MatchAt, Matches, Far, Covers
    <3>5. Within'
      BY <2>1, <3>1 DEF Within
    <3>6. CASE now + L < Len(code)
      <4>1. searchPc' = "scan"
        BY <2>1, <3>1, <3>6
      <4> QED BY <3>4, <4>1 DEF ScanInv
    <3>7. CASE ~ (now + L < Len(code))
      <4>1. searchPc' = "collect" /\ now' = now
        BY <3>1, <3>7
      <4>2. now' + L' >= Len(CodeOf(mbi)')
        BY <1>1, <2>1, <2>3, <3>2, <3>7, <4>1
      <4> QED BY <3>4, <3>5, <4>1, <4>2 DEF ScanInv
    <3> QED BY <3>6, <3>7
  <2> QED BY <2>5, <2>6
<1>4. CASE searchPc' \notin {"scan", "collect"}
  BY <1>4 DEF ScanInv
<1>5. CASE UNCHANGED searchVars
  <2>1. CodeOf(mbi)' = CodeOf(mbi) /\ UNCHANGED <<searchPc, mem, mbi, key, vlst, now>>
    BY <1>5 DEF searchVars, CodeOf
  <2> QED BY <1>1, <2>1 DEF ScanInv, Within, FoundBefore, MatchAt, Matches, Far, Covers
<1>6. Query \/ Sunday \/ UNCHANGED searchVars \/ searchPc' \notin {"scan", "collect"}
  BY DEF Step, SearchNext, SearchBase, SearchFails, QueryFails, Collect, EndOfImage, Answer
<1> QED BY <1>2, <1>3, <1>4, <1>5, <1>6

-----------------------------------------------------------------------------
(* What is found of the image.                                               *)

LEMMA FarConcat ==
  ASSUME L \in Nat, NEW s \in Seq(Nat), NEW t \in Seq(Nat), Far(s), Far(t),
         \A i \in DOMAIN s, j \in DOMAIN t : s[i] + L < t[j]
  PROVE  Far(s \o t)
<1> DEFINE u == s \o t
           n == Len(s)
           m == Len(t)
<1>1. /\ n \in Nat /\ m \in Nat /\ DOMAIN s = 1 .. n /\ DOMAIN t = 1 .. m
      /\ Len(u) = n + m /\ OfBoth(u, s, t, n, m)
  BY OnConcat
<1> HIDE DEF u, n, m
<1>2. ASSUME NEW i \in 1 .. Len(u) - 1
      PROVE  u[i + 1] > u[i] + L
  <2>1. i \in Nat /\ i >= 1 /\ i + 1 <= n + m
    BY <1>1
  <2>2. /\ u[i] = IF i <= n THEN s[i] ELSE t[i - n]
        /\ u[i + 1] = IF i + 1 <= n THEN s[i + 1] ELSE t[(i + 1) - n]
    BY <1>1, <2>1 DEF OfBoth
  <2>3. CASE i + 1 <= n
    <3>1. i \in 1 .. n - 1 /\ i <= n
      BY <1>1, <2>1, <2>3
    <3>2. s[i + 1] > s[i] + L
      BY <1>1, <3>1 DEF Far, n
    <3> QED BY <2>2, <2>3, <3>1, <3>2
  <2>4. CASE i = n
    <3>1. i \in DOMAIN s /\ (i + 1) - n \in DOMAIN t /\ ~ (i + 1 <= n) /\ i <= n
      BY <1>1, <2>1, <2>4
    <3>2. s[i] + L < t[(i + 1) - n] /\ s[i] \in Nat /\ t[(i + 1) - n] \in Nat
      BY <3>1
    <3> QED BY <2>2, <3>1, <3>2
  <2>5. CASE i > n
    <3>1. i - n \in 1 .. m - 1 /\ (i - n) + 1 = (i + 1) - n /\ ~ (i + 1 <= n) /\ ~ (i <= n)
      BY <1>1, <2>1, <2>5
    <3>2. t[(i - n) + 1] > t[i - n] + L
      BY <1>1, <3>1 DEF Far, m
    <3> QED BY <2>2, <3>1, <3>2
  <2> QED BY <1>1, <2>1, <2>3, <2>4, <2>5
<1> QED BY <1>2 DEF Far, u

\* What was found of a region, as places in the image.
Places(r, s) == [i \in DOMAIN s |-> RegionStart(r) + s[i]]

LEMMA PlacesAre ==
  ASSUME Search, NEW r \in Regions, r.base > 0, \A i \in r.base .. r.base + r.size - 1 : i \in DOMAIN mem,
         NEW s \in Seq(Nat), NEW n \in Nat, FoundBefore(CodeOf(r), s, n)
  PROVE  /\ Places(r, s) \in Seq(Nat) /\ Far(Places(r, s))
         /\ \A i \in DOMAIN Places(r, s) :
              /\ MatchAt(AllBytes, Places(r, s)[i])
              /\ (r.base - 1) * PageSize <= Places(r, s)[i]
              /\ Places(r, s)[i] + L < (r.base + r.size - 1) * PageSize
<1> DEFINE R == RegionStart(r)
           code == CodeOf(r)
           u == Places(r, s)
<1>1. /\ code \in Seq(Byte) /\ Len(code) \in Nat /\ Len(code) = r.size * PageSize
      /\ R \in Nat /\ R + Len(code) = (r.base + r.size - 1) * PageSize
      /\ r.size > 0 => r.base + r.size - 1 <= Len(mem)
      /\ \A x \in 1 .. Len(code) : code[x] = AllBytes[R + x]
  BY RegionCode DEF Search
<1>2. Len(s) \in Nat /\ DOMAIN s = 1 .. Len(s) /\ L \in Nat
  BY KeyIs DEF Search
<1>3. u \in Seq(Nat) /\ Len(u) = Len(s) /\ DOMAIN u = 1 .. Len(s) /\ \A i \in 1 .. Len(s) : u[i] = R + s[i]
  BY <1>1, <1>2 DEF Places
<1>4. ASSUME Len(code) > 0
      PROVE  R + Len(code) <= Len(AllBytes) /\ Len(AllBytes) \in Nat
  <2>1. r.size \in Nat /\ r.base \in Nat /\ PageSize \in Nat /\ Len(mem) \in Nat /\ mem \in Seq(Pages)
    BY DEF Regions, Search, SearchAssumption, SearchTyped
  <2>2. r.size > 0
    <3>1. \A p1 \in Nat : 0 * p1 = 0
      OBVIOUS
    <3> QED BY <1>1, <1>4, <2>1, <3>1
  <2>3. Len(AllBytes) = Len(mem) * PageSize
    BY <2>1, ImageBytes DEF AllBytes, BytesOf, Search
  <2>4. \A x, y, z \in Nat : x <= y => x * z <= y * z /\ y * z \in Nat
    OBVIOUS
  <2>5. r.base + r.size - 1 \in Nat /\ r.base + r.size - 1 <= Len(mem)
    <3>1. r.base + r.size - 1 <= Len(mem)
      BY <1>1, <2>2
    <3>2. r.base + r.size - 1 \in Nat
      BY <2>1, <2>2
    <3> QED BY <3>1, <3>2
  <2>6. (r.base + r.size - 1) * PageSize <= Len(mem) * PageSize /\ Len(mem) * PageSize \in Nat
    BY <2>1, <2>4, <2>5
  <2> QED BY <1>1, <2>3, <2>6
<1> HIDE DEF u, R, code
<1>5. ASSUME NEW i \in 1 .. Len(s)
      PROVE  MatchAt(AllBytes, u[i]) /\ R <= u[i] /\ u[i] + L < R + Len(code)
  <2>1. MatchAt(code, s[i]) /\ s[i] + L < Len(code) /\ s[i] \in Nat
    BY <1>2 DEF FoundBefore, MatchAt, code
  <2>2. u[i] = R + s[i] /\ u[i] + L < R + Len(code) /\ R <= u[i]
    <3>1. u[i] = R + s[i]
      BY <1>3
    <3>2. R \in Nat /\ Len(code) \in Nat
      BY <1>1
    <3> QED BY <1>2, <2>1, <3>1, <3>2
  <2>3. Len(code) > 0 /\ R + Len(code) <= Len(AllBytes) /\ Len(AllBytes) \in Nat
    <3>1. Len(code) > 0
      BY <1>1, <1>2, <2>1
    <3> QED BY <1>4, <3>1
  <2>4. u[i] + L < Len(AllBytes)
    BY <1>1, <1>2, <2>1, <2>2, <2>3, SMTT(40)
  <2>5. ASSUME NEW j \in 1 .. L
        PROVE  key[j] = Wild \/ key[j] = AllBytes[u[i] + j]
    <3>1. key[j] = Wild \/ key[j] = code[s[i] + j]
      BY <2>1 DEF MatchAt, Matches, L
    <3>2. s[i] + j \in 1 .. Len(code) /\ R + (s[i] + j) = u[i] + j
      <4> DEFINE v == s[i]
                 w == u[i]
                 c == Len(code)
      <4>1. R \in Nat /\ c \in Nat /\ L \in Nat /\ j \in Nat /\ j >= 1 /\ j <= L /\ v \in Nat /\ v + L < c /\ w = R + v
        BY <1>1, <1>2, <2>1, <2>2
      <4> HIDE DEF v, w, c
      <4>2. v + j \in 1 .. c /\ R + (v + j) = w + j
        BY <4>1
      <4> QED BY <4>2 DEF v, w, c
    <3> QED BY <1>1, <3>1, <3>2
  <2> QED BY <2>2, <2>4, <2>5 DEF MatchAt, Matches, L
<1>6. Far(u)
  <2>1. ASSUME NEW i \in 1 .. Len(u) - 1
        PROVE  u[i + 1] > u[i] + L
    <3>1. i \in 1 .. Len(s) /\ i + 1 \in 1 .. Len(s) /\ i \in 1 .. Len(s) - 1
      BY <1>2, <1>3
    <3>2. s[i + 1] > s[i] + L /\ s[i] \in Nat /\ s[i + 1] \in Nat
      BY <1>2, <3>1 DEF FoundBefore, Far
    <3> QED BY <1>1, <1>2, <1>3, <3>1, <3>2
  <2> QED BY <2>1 DEF Far
<1> QED BY <1>1, <1>3, <1>5, <1>6 DEF u, R, code, RegionStart

\* Further pages begin at higher places.
LEMMA FurtherOn ==
  ASSUME SearchAssumption, NEW a \in Nat \ {0}, NEW n \in Nat, NEW c, c = a + n
  PROVE  (a - 1) * PageSize \in Nat /\ (c - 1) * PageSize \in Nat /\ (a - 1) * PageSize <= (c - 1) * PageSize
<1>1. \A x, y, z \in Nat : x <= y => x * z <= y * z /\ y * z \in Nat /\ x * z \in Nat
  OBVIOUS
<1>2. a - 1 \in Nat /\ c - 1 \in Nat /\ a - 1 <= c - 1 /\ PageSize \in Nat
  BY DEF SearchAssumption
<1> QED BY <1>1, <1>2

LEMMA VecStep ==
  ASSUME Search, ScanInv, VecInv, Step
  PROVE  VecInv'
<1>1. AllBytes' = AllBytes /\ key' = key /\ L' = L /\ L \in Nat
  BY ImageStays, KeyIs DEF L, Search
<1>2. vec \in Seq(Nat) /\ addr \in Nat \ {0} /\ mbi \in Regions /\ mbi.size \in Nat /\ mbi.base \in Nat /\ SearchAssumption
  BY DEF Search, SearchTyped, Regions
<1>3. ASSUME vec' = <<>> PROVE VecInv'
  BY <1>3 DEF VecInv, Far
<1>4. ASSUME vec' = vec, searchPc' \in {"query", "scan", "collect"} => addr' = addr /\ searchPc \in {"query", "scan", "collect"}
      PROVE  VecInv'
  BY <1>1, <1>4 DEF VecInv, Far, MatchAt, Matches
<1>5. ASSUME vec' = vec, searchPc = "query", NEW n \in Nat, addr' = addr + n
      PROVE  VecInv'
  <2>1. (addr - 1) * PageSize \in Nat /\ (addr' - 1) * PageSize \in Nat /\ (addr - 1) * PageSize <= (addr' - 1) * PageSize
    BY <1>2, <1>5, FurtherOn
  <2>2. ASSUME NEW i \in DOMAIN vec
        PROVE  vec[i] + L < (addr' - 1) * PageSize
    <3>1. vec[i] \in Nat /\ vec[i] + L < (addr - 1) * PageSize
      BY <1>2, <1>5 DEF VecInv
    <3> QED BY <1>1, <2>1, <3>1
  <2> QED BY <1>1, <1>5, <2>2 DEF VecInv, Far, MatchAt, Matches
<1>6. CASE Query
  <2>1. PICK r : /\ r = VirtualQueryEx(Queried, addr)
                 /\ IF Scanned(r) THEN searchPc' = "scan" /\ UNCHANGED addr ELSE searchPc' = "query" /\ addr' = addr + r.size
    BY <1>6 DEF Query
  <2>2. addr \in 1 .. Len(Queried) /\ Queried \in Seq(Pages) /\ searchPc = "query" /\ vec' = vec
    BY <1>6, QueriedIs DEF Query, Search, SearchTyped
  <2>3. r.size \in Nat
    BY <2>1, <2>2, QueryIs DEF Regions
  <2>4. CASE Scanned(r)
    BY <1>4, <2>1, <2>2, <2>4
  <2>5. CASE ~ Scanned(r)
    BY <1>5, <2>1, <2>2, <2>3, <2>5
  <2> QED BY <2>4, <2>5
<1>7. CASE QueryFails
  BY <1>2, <1>5, <1>7 DEF QueryFails
<1>8. CASE Collect
  <2>1. /\ searchPc = "collect" /\ searchPc' = "query" /\ addr' = addr + mbi.size /\ mbi.base = addr
        /\ vec' = vec \o IF Len(vlst) < MaxSearchCount THEN Places(mbi, vlst) ELSE <<>>
    BY <1>8 DEF Collect, Places, Search, RegionInv
  <2>2. (addr - 1) * PageSize \in Nat /\ (addr' - 1) * PageSize \in Nat /\ (addr - 1) * PageSize <= (addr' - 1) * PageSize
    BY <1>2, <2>1, FurtherOn
  <2>3. PICK t \in Seq(Nat) : /\ vec' = vec \o t /\ Far(t)
                 /\ \A i \in DOMAIN t : MatchAt(AllBytes, t[i]) /\ (addr - 1) * PageSize <= t[i] /\ t[i] + L < (addr' - 1) * PageSize
    <3>1. CASE Len(vlst) < MaxSearchCount
      <4>1. Within /\ FoundBefore(CodeOf(mbi), vlst, now) /\ vlst \in Seq(Nat) /\ now \in Nat
        BY <2>1 DEF ScanInv, Search, SearchTyped
      <4>2. /\ Places(mbi, vlst) \in Seq(Nat) /\ Far(Places(mbi, vlst))
            /\ \A i \in DOMAIN Places(mbi, vlst) :
                 /\ MatchAt(AllBytes, Places(mbi, vlst)[i])
                 /\ (mbi.base - 1) * PageSize <= Places(mbi, vlst)[i]
                 /\ Places(mbi, vlst)[i] + L < (mbi.base + mbi.size - 1) * PageSize
        <5>1. mbi.base > 0 /\ Search /\ \A i \in mbi.base .. mbi.base + mbi.size - 1 : i \in DOMAIN mem
          BY <1>2, <2>1, <4>1 DEF Within
        <5> QED BY <1>2, <4>1, <5>1, PlacesAre
      <4>3. vec' = vec \o Places(mbi, vlst)
        BY <2>1, <3>1
      <4>4. mbi.base = addr /\ mbi.base + mbi.size - 1 = addr' - 1
        BY <1>2, <2>1
      <4> QED BY <4>2, <4>3, <4>4
    <3>2. CASE ~ (Len(vlst) < MaxSearchCount)
      <4>1. vec' = vec \o <<>> /\ <<>> \in Seq(Nat) /\ Far(<<>>) /\ DOMAIN <<>> = {}
        BY <2>1, <3>2 DEF Far
      <4> QED BY <4>1
    <3> QED BY <3>1, <3>2
  <2>4. \A i \in DOMAIN vec : MatchAt(AllBytes, vec[i]) /\ vec[i] \in Nat /\ vec[i] + L < (addr - 1) * PageSize
    BY <1>2, <2>1 DEF VecInv
  <2>5. Far(vec')
    <3>1. \A i \in DOMAIN vec, j \in DOMAIN t : vec[i] + L < t[j]
      <4> TAKE i \in DOMAIN vec, j \in DOMAIN t
      <4>1. vec[i] \in Nat /\ t[j] \in Nat /\ vec[i] + L < (addr - 1) * PageSize /\ (addr - 1) * PageSize <= t[j]
        BY <2>3, <2>4
      <4> QED BY <1>1, <2>2, <4>1
    <3>2. Far(vec)
      BY DEF VecInv
    <3>3. Far(vec \o t)
      BY <1>1, <1>2, <2>3, <3>1, <3>2, FarConcat
    <3> QED BY <2>3, <3>3
  <2>6. ASSUME NEW i \in DOMAIN vec'
        PROVE  MatchAt(AllBytes, vec'[i]) /\ vec'[i] + L < (addr' - 1) * PageSize
    <3> DEFINE n == Len(vec)
               m == Len(t)
    <3>1. n \in Nat /\ m \in Nat /\ vec' \in Seq(Nat) /\ Len(vec') = n + m /\ OfBoth(vec', vec, t, n, m)
      BY <1>2, <2>3, OnConcat
    <3>2. i \in 1 .. n + m /\ DOMAIN vec = 1 .. n /\ DOMAIN t = 1 .. m
      BY <1>2, <2>3, <3>1
    <3>3. vec'[i] = IF i <= n THEN vec[i] ELSE t[i - n]
      BY <3>1, <3>2 DEF OfBoth
    <3> HIDE DEF n, m
    <3>4. CASE i <= n
      <4>1. i \in DOMAIN vec /\ vec'[i] = vec[i]
        BY <3>1, <3>2, <3>3, <3>4
      <4>2. MatchAt(AllBytes, vec[i]) /\ vec[i] \in Nat /\ vec[i] + L < (addr - 1) * PageSize
        BY <2>4, <4>1
      <4> QED BY <1>1, <2>2, <4>1, <4>2
    <3>5. CASE i > n
      <4>1. i - n \in DOMAIN t /\ vec'[i] = t[i - n]
        BY <3>1, <3>2, <3>3, <3>5
      <4> QED BY <2>3, <4>1
    <3> QED BY <3>1, <3>2, <3>4, <3>5
  <2>7. Far(vec)'
    BY <1>1, <2>5 DEF Far
  <2>8. \A i \in DOMAIN vec' : MatchAt(AllBytes, vec[i])' /\ vec'[i] + L' < (addr' - 1) * PageSize
    BY <1>1, <2>6 DEF MatchAt, Matches
  <2> QED BY <2>7, <2>8 DEF VecInv
<1>9. CASE Sunday
  BY <1>4, <1>9 DEF Sunday
<1>10. CASE EndOfImage
  BY <1>4, <1>10 DEF EndOfImage
<1>11. CASE Answer
  BY <1>4, <1>11 DEF Answer
<1>12. CASE UNCHANGED searchVars
  BY <1>4, <1>12 DEF searchVars
<1>13. ASSUME NEW w, SearchBase(w) \/ SearchFails(w)
       PROVE  VecInv'
  BY <1>3, <1>13 DEF SearchBase, SearchFails
<1> QED BY <1>6, <1>7, <1>8, <1>9, <1>10, <1>11, <1>12, <1>13 DEF Step, SearchNext

-----------------------------------------------------------------------------
(* The protection of the pages.                                              *)

LEMMA PassedStep ==
  ASSUME Search, PassedInv, Step
  PROVE  PassedInv' /\ (history # <<>> => mem' = mem)
<1>1. /\ mem \in Seq(Pages) /\ Len(mem) \in Nat /\ DOMAIN mem = 1 .. Len(mem) /\ DOMAIN mem' = DOMAIN mem /\ Len(mem') = Len(mem)
      /\ addr \in Nat \ {0} /\ mbi.size \in Nat /\ vec \in Seq(Nat) /\ history \in Seq(Seq(Nat))
  BY ImageStays DEF Search, SearchTyped, Regions
<1>2. CASE Query
  <2>1. PICK r : /\ r = VirtualQueryEx(Queried, addr) /\ mbi' = r /\ mem' = Protect(r)
                 /\ IF Scanned(r) THEN searchPc' = "scan" /\ UNCHANGED addr ELSE searchPc' = "query" /\ addr' = addr + r.size
    BY <1>2 DEF Query
  <2>2. addr \in 1 .. Len(Queried) /\ Queried \in Seq(Pages) /\ searchPc = "query" /\ who' = who /\ history' = history
    BY <1>2, QueriedIs DEF Query, Search, SearchTyped
  <2>3. r.base = addr /\ r.size \in Nat /\ \A i \in addr .. addr + r.size - 1 : i \in DOMAIN Queried /\ Queried[i].protect = r.protect
    BY <2>1, <2>2, QueryIs DEF Regions
  <2>4. \A i \in DOMAIN mem :
          mem'[i].protect = IF who = "own" /\ r.protect = "readonly" /\ i \in addr .. addr + r.size - 1 THEN "execute" ELSE mem[i].protect
    BY <1>1, <2>1, <2>3, ProtectIs
  <2>5. \A i \in DOMAIN mem : mem[i].protect # "readonly" => mem'[i].protect # "readonly"
    BY <2>4
  <2>6. who = "own" => Passed' = addr + r.size - 1
    <3>1. CASE searchPc' = "scan"
      <4>1. addr' = addr /\ mbi' = r
        BY <2>1, <3>1
      <4> QED BY <3>1, <4>1 DEF Passed
    <3>2. CASE searchPc' # "scan"
      <4>1. searchPc' = "query" /\ addr' = addr + r.size
        BY <2>1, <3>2
      <4>2. Passed' = addr' - 1
        BY <4>1 DEF Passed
      <4>3. addr' - 1 = addr + r.size - 1
        BY <1>1, <2>3, <4>1
      <4> QED BY <4>2, <4>3
    <3> QED BY <3>1, <3>2
  <2>7. ASSUME who = "own", NEW i \in DOMAIN mem, i <= addr + r.size - 1
        PROVE  mem'[i].protect # "readonly"
    <3>1. CASE i < addr
      <4>1. i <= addr - 1 /\ NoneReadOnly(addr - 1)
        BY <1>1, <2>2, <2>7, <3>1 DEF PassedInv, Passed
      <4> QED BY <2>5, <4>1 DEF NoneReadOnly
    <3>2. CASE i >= addr
      <4>1. i \in addr .. addr + r.size - 1
        BY <1>1, <2>3, <2>7, <3>2
      <4>2. mem[i].protect = r.protect
        BY <2>3, <2>7, <4>1 DEF Queried
      <4> QED BY <2>4, <2>7, <4>1, <4>2
    <3> QED BY <1>1, <2>7, <3>1, <3>2
  <2>8. (who = "own" => NoneReadOnly(Passed))'
    BY <1>1, <2>2, <2>6, <2>7 DEF NoneReadOnly
  <2>9. (history # <<>> => NoneReadOnly(Len(mem)))'
    BY <1>1, <2>2, <2>5 DEF NoneReadOnly, PassedInv
  <2>10. history # <<>> => mem' = mem
    <3> SUFFICES ASSUME history # <<>> PROVE mem' = mem
      OBVIOUS
    <3>1. who # "own" \/ r.protect # "readonly"
      <4>1. CASE who = "own"
        <5>1. addr \in DOMAIN mem /\ mem[addr].protect = r.protect
          <6>1. addr \in addr .. addr + r.size - 1
            <7>1. r.size > 0
              BY <2>1, <2>2, QueryIs
            <7> QED BY <1>1, <2>3, <7>1
          <6> QED BY <2>3, <4>1, <6>1 DEF Queried
        <5>2. addr <= Len(mem)
          BY <1>1, <5>1
        <5> QED BY <5>1, <5>2 DEF PassedInv, NoneReadOnly
      <4> QED BY <4>1
    <3> QED BY <1>1, <2>1, <3>1, ProtectIs
  <2> QED BY <2>8, <2>9, <2>10 DEF PassedInv
<1>3. CASE ~ Query
  <2>1. mem' = mem
    BY <1>3, ImageStays
  <2>2. who' = "own" => Passed' = 0 \/ (who = "own" /\ Passed' = Passed)
    <3>1. CASE \E w \in {"own", "self", "other"} : SearchBase(w) \/ SearchFails(w)
      <4>1. PICK w \in {"own", "self", "other"} : SearchBase(w) \/ SearchFails(w)
        BY <3>1
      <4>2. (searchPc' = "query" /\ addr' = 1) \/ searchPc' = "found"
        BY <4>1 DEF SearchBase, SearchFails
      <4>3. Passed' = 0
        BY <4>2 DEF Passed
      <4> QED BY <4>3
    <3>3. CASE QueryFails
      BY <3>3 DEF QueryFails
    <3>4. CASE Sunday
      BY <3>4 DEF Sunday, Passed
    <3>5. CASE Collect
      <4>1. searchPc = "collect" /\ searchPc' = "query" /\ addr' = addr + mbi.size /\ who' = who
        BY <3>5 DEF Collect
      <4>2. Passed = addr + mbi.size - 1 /\ Passed' = addr' - 1
        BY <4>1 DEF Passed
      <4>3. addr' - 1 = addr + mbi.size - 1
        BY <1>1, <4>1
      <4> QED BY <4>1, <4>2, <4>3
    <3>6. CASE EndOfImage \/ Answer
      BY <3>6 DEF EndOfImage, Answer, Passed
    <3>7. CASE UNCHANGED searchVars
      BY <3>7 DEF searchVars, Passed
    <3>8. \/ \E w \in {"own", "self", "other"} : SearchBase(w) \/ SearchFails(w)
          \/ QueryFails \/ Sunday \/ Collect \/ EndOfImage \/ Answer \/ UNCHANGED searchVars
      BY <1>3 DEF Step, SearchNext
    <3> QED BY Zenon, <3>1, <3>3, <3>4, <3>5, <3>6, <3>7, <3>8
  <2>3. history' # <<>> => history # <<>> \/ (who = "own" /\ searchPc = "query" /\ addr > Len(mem))
    BY <1>3 DEF Step, SearchNext, searchVars, SearchBase, SearchFails, QueryFails, Sunday, Collect, EndOfImage, Answer, Queried
  <2>4. \A n : NoneReadOnly(n)' <=> NoneReadOnly(n)
    BY <2>1 DEF NoneReadOnly
  <2>5. NoneReadOnly(0)
    BY <1>1 DEF NoneReadOnly
  <2>6. (who = "own" => NoneReadOnly(Passed))'
    BY <2>1, <2>2, <2>5 DEF PassedInv, NoneReadOnly
  <2>7. (history # <<>> => NoneReadOnly(Len(mem)))'
    <3>1. CASE history # <<>>
      BY <2>1, <3>1 DEF PassedInv, NoneReadOnly
    <3>2. CASE who = "own" /\ searchPc = "query" /\ addr > Len(mem)
      <4>1. NoneReadOnly(addr - 1)
        BY <3>2 DEF PassedInv, Passed
      <4>2. \A i \in DOMAIN mem : i <= addr - 1
        BY <1>1, <3>2
      <4>3. \A i \in DOMAIN mem : mem[i].protect # "readonly"
        BY <4>1, <4>2 DEF NoneReadOnly
      <4> QED BY <2>1, <4>3 DEF NoneReadOnly
    <3> QED BY <2>3, <3>1, <3>2
  <2> QED BY <2>1, <2>6, <2>7 DEF PassedInv
<1> QED BY <1>2, <1>3

-----------------------------------------------------------------------------
(* A search that is made again.                                              *)

\* All that is found of a code: there is one such sequence only.
Whole(code, s) ==
  /\ \A i \in DOMAIN s : MatchAt(code, s[i])
  /\ Far(s)
  /\ \A at \in Nat : MatchAt(code, at) => Covers(s, at)

LEMMA FarApart ==
  ASSUME L \in Nat, NEW s \in Seq(Nat), Far(s), NEW i \in DOMAIN s, NEW j \in DOMAIN s, i < j
  PROVE  s[j] > s[i] + L
<1> DEFINE M == {k \in DOMAIN s : i < k /\ ~ (s[k] > s[i] + L)}
<1>1. Len(s) \in Nat /\ DOMAIN s = 1 .. Len(s) /\ \A k \in DOMAIN s : s[k] \in Nat
  OBVIOUS
<1>2. ASSUME M # {} PROVE FALSE
  <2>1. M \subseteq Nat
    BY <1>1
  <2>2. PICK k \in M : \A y \in M : k <= y
    BY <1>2, <2>1, LeastNumber DEF HasLeast
  <2>3. k \in 1 .. Len(s) /\ i \in 1 .. Len(s) /\ i < k /\ ~ (s[k] > s[i] + L)
    BY <1>1, <2>2
  <2>4. k - 1 \in 1 .. Len(s) - 1 /\ (k - 1) + 1 = k /\ k - 1 \in DOMAIN s /\ k - 1 >= i
    BY <1>1, <2>3
  <2>5. s[k] > s[k - 1] + L
    BY <2>4 DEF Far
  <2>6. s[k - 1] \in Nat /\ s[k] \in Nat /\ s[i] \in Nat
    BY <1>1, <2>3, <2>4
  <2>7. CASE k - 1 = i
    BY <2>3, <2>5, <2>7
  <2>8. CASE k - 1 > i
    <3>1. k - 1 \notin M
      BY <2>2, <2>3
    <3>2. s[k - 1] > s[i] + L
      BY <2>4, <2>8, <3>1
    <3> QED BY <2>3, <2>5, <2>6, <3>2, SMTT(40)
  <2> QED BY <2>3, <2>4, <2>7, <2>8
<1> QED BY <1>2

\* What is found in one way is found in the other, at the same place.
LEMMA WholeWithin ==
  ASSUME L \in Nat, NEW code, NEW s \in Seq(Nat), NEW t \in Seq(Nat), Whole(code, s), Whole(code, t)
  PROVE  \A i \in DOMAIN s : i \in DOMAIN t /\ t[i] = s[i]
<1> DEFINE M == {k \in DOMAIN s : ~ (k \in DOMAIN t /\ t[k] = s[k])}
<1>1. /\ Len(s) \in Nat /\ DOMAIN s = 1 .. Len(s) /\ \A k \in DOMAIN s : s[k] \in Nat
      /\ Len(t) \in Nat /\ DOMAIN t = 1 .. Len(t) /\ \A k \in DOMAIN t : t[k] \in Nat
  OBVIOUS
<1>2. ASSUME M # {} PROVE FALSE
  <2>1. M \subseteq Nat
    BY <1>1
  <2>2. PICK i \in M : \A y \in M : i <= y
    BY <1>2, <2>1, LeastNumber DEF HasLeast
  <2>3. i \in DOMAIN s /\ i \in Nat /\ s[i] \in Nat /\ \A k \in DOMAIN s : k < i => k \in DOMAIN t /\ t[k] = s[k]
    <3>1. i \in DOMAIN s /\ i \in Nat /\ s[i] \in Nat
      BY <1>1, <2>2
    <3>2. ASSUME NEW k \in DOMAIN s, k < i
          PROVE  k \in DOMAIN t /\ t[k] = s[k]
      <4>1. k \notin M
        BY <1>1, <2>2, <3>1, <3>2
      <4> QED BY <3>2, <4>1
    <3> QED BY <3>1, <3>2
  <2>4. ASSUME NEW u \in Seq(Nat), NEW v \in Seq(Nat), Whole(code, u), Whole(code, v), i \in DOMAIN u,
               \A k \in DOMAIN v : k < i => k \in DOMAIN u /\ u[k] = v[k]
        PROVE  i \in DOMAIN v /\ v[i] <= u[i]
    <3>1. DOMAIN u = 1 .. Len(u) /\ DOMAIN v = 1 .. Len(v) /\ Len(u) \in Nat /\ Len(v) \in Nat /\ u[i] \in Nat
      BY <2>4
    <3>2. PICK k \in DOMAIN v : v[k] <= u[i] /\ u[i] <= v[k] + L
      <4>1. MatchAt(code, u[i])
        BY <2>4 DEF Whole
      <4> QED BY <2>4, <3>1, <4>1 DEF Whole, Covers
    <3>3. k \in Nat /\ v[k] \in Nat
      BY <3>1, <3>2
    <3>4. CASE k < i
      <4>1. k \in DOMAIN u /\ u[k] = v[k]
        BY <2>4, <3>4
      <4>2. u[i] > u[k] + L
        BY <2>4, <3>4, <4>1, FarApart DEF Whole
      <4>3. v[k] + L \in Nat /\ u[i] > v[k] + L
        BY <3>3, <4>1, <4>2, SMTT(40)
      <4>4. ~ (u[i] <= v[k] + L)
        BY <3>1, <4>3, SMTT(40)
      <4> QED BY <3>2, <4>4, ZenonT(40)
    <3>5. CASE k = i
      BY <3>2, <3>5
    <3>6. CASE k > i
      <4>1. i \in DOMAIN v /\ v[i] \in Nat
        BY <2>3, <3>1, <3>3, <3>6
      <4>2. v[k] > v[i] + L
        BY <2>4, <3>6, <4>1, FarApart DEF Whole
      <4>3. v[k] >= v[i]
        BY <3>3, <4>1, <4>2
      <4> QED BY <3>1, <3>2, <3>3, <4>1, <4>3, SMTT(40)
    <3> QED BY <2>3, <3>3, <3>4, <3>5, <3>6
  <2>5. i \in DOMAIN t /\ t[i] <= s[i]
    <3>1. \A k \in DOMAIN t : k < i => k \in DOMAIN s /\ s[k] = t[k]
      <4> TAKE k \in DOMAIN t
      <4>1. k < i => k \in DOMAIN s
        BY <1>1, <2>3
      <4> QED BY <2>3, <4>1
    <3> QED BY <2>3, <2>4, <3>1
  <2>6. s[i] <= t[i]
    BY <2>3, <2>4, <2>5
  <2>7. t[i] = s[i]
    BY <1>1, <2>3, <2>5, <2>6
  <2> QED BY <2>2, <2>5, <2>7
<1> QED BY <1>2

LEMMA WholeUnique ==
  ASSUME L \in Nat, NEW code, NEW s \in Seq(Nat), NEW t \in Seq(Nat), Whole(code, s), Whole(code, t)
  PROVE  s = t
<1>1. Len(s) \in Nat /\ DOMAIN s = 1 .. Len(s) /\ Len(t) \in Nat /\ DOMAIN t = 1 .. Len(t)
  OBVIOUS
<1>2. \A i \in DOMAIN s : i \in DOMAIN t /\ t[i] = s[i]
  BY WholeWithin
<1>3. \A i \in DOMAIN t : i \in DOMAIN s
  BY WholeWithin
<1>4. DOMAIN s = DOMAIN t
  BY <1>2, <1>3
<1>5. Len(s) = Len(t)
  <2>1. \A n, m \in Nat : 1 .. n = 1 .. m => n = m
    <3> TAKE n, m \in Nat
    <3> HAVE 1 .. n = 1 .. m
    <3>1. n \in 1 .. n \/ n = 0
      OBVIOUS
    <3>2. m \in 1 .. m \/ m = 0
      OBVIOUS
    <3>3. n <= m
      BY <3>1
    <3>4. m <= n
      BY <3>2
    <3> QED BY <3>3, <3>4
  <2> QED BY <1>1, <1>4, <2>1
<1> QED BY <1>1, <1>2, <1>5, SeqEqual

\* What the scan of a region adds to what is found of the image.
Adds(r, t) ==
  \/ /\ r.protect = "execute"
     /\ \E code \in {CodeOf(r)}, s \in Seq(Nat) : Whole(code, s) /\ t = IF Len(s) < MaxSearchCount THEN Places(r, s) ELSE <<>>
  \/ r.protect # "execute" /\ t = <<>>

\* From one region to the next, from a place and what is found before it.
Turn(c, d) ==
  \E r \in {VirtualQueryEx(mem, c[1])} : d[1] = c[1] + r.size /\ \E t : Adds(r, t) /\ d[2] = c[2] \o t

\* The places a search comes to, to the n-th.
IsTrace(f, n) ==
  /\ f[0][1] = 1 /\ f[0][2] = <<>>
  /\ \A i \in 0 .. n - 1 : f[i][1] \in 1 .. Len(mem) /\ Turn(f[i], f[i + 1])
Trace(c, n) == \E f : IsTrace(f, n) /\ f[n] = c
Reaches(c) == \E n \in Nat : Trace(c, n)
Ends(v) == \E c : Reaches(c) /\ c[1] \notin 1 .. Len(mem) /\ v = c[2]

\* From the second on, a search of CSearchBinary goes from region to region of an image
\* that does not change any more.
RepeatInv ==
  /\ who = "own" /\ history # <<>> /\ searchPc \in {"query", "scan", "collect"} => Reaches(<<addr, vec>>)
  /\ who = "own" /\ history # <<>> /\ searchPc \in {"scan", "collect"} =>
       addr \in 1 .. Len(mem) /\ mbi = VirtualQueryEx(mem, addr) /\ mbi.protect = "execute"
  /\ \A i \in DOMAIN history : i > 1 => Ends(history[i])

LEMMA TurnsAgree ==
  ASSUME L \in Nat, NEW c, NEW d, NEW c1, NEW d1, Turn(c, d), Turn(c1, d1), c[1] = c1[1], c[2] = c1[2]
  PROVE  d[1] = d1[1] /\ d[2] = d1[2]
<1> DEFINE r == VirtualQueryEx(mem, c[1])
<1>1. PICK t : Adds(r, t) /\ d[1] = c[1] + r.size /\ d[2] = c[2] \o t
  BY DEF Turn
<1>2. PICK t1 : Adds(r, t1) /\ d1[1] = c[1] + r.size /\ d1[2] = c[2] \o t1
  <2>1. VirtualQueryEx(mem, c1[1]) = r
    OBVIOUS
  <2> QED BY <2>1 DEF Turn
<1> HIDE DEF r
<1>3. t = t1
  <2>1. CASE r.protect = "execute"
    <3>1. PICK s \in Seq(Nat) : Whole(CodeOf(r), s) /\ t = IF Len(s) < MaxSearchCount THEN Places(r, s) ELSE <<>>
      BY <1>1, <2>1 DEF Adds
    <3>2. PICK s1 \in Seq(Nat) : Whole(CodeOf(r), s1) /\ t1 = IF Len(s1) < MaxSearchCount THEN Places(r, s1) ELSE <<>>
      BY <1>2, <2>1 DEF Adds
    <3>3. s = s1
      BY <3>1, <3>2, WholeUnique
    <3> QED BY <3>1, <3>2, <3>3
  <2>2. CASE r.protect # "execute"
    BY <1>1, <1>2, <2>2 DEF Adds
  <2> QED BY <2>1, <2>2
<1> QED BY <1>1, <1>2, <1>3

LEMMA TracesAgree ==
  ASSUME L \in Nat, NEW f, NEW n \in Nat, NEW g, NEW m \in Nat, n <= m, IsTrace(f, n), IsTrace(g, m)
  PROVE  f[n][1] = g[n][1] /\ f[n][2] = g[n][2]
<1> DEFINE Same(i) == f[i][1] = g[i][1] /\ f[i][2] = g[i][2]
           M == {i \in 0 .. n : ~ Same(i)}
<1>1. ASSUME M # {} PROVE FALSE
  <2>1. M \subseteq Nat
    OBVIOUS
  <2>2. PICK i \in M : \A y \in M : i <= y
    BY <1>1, <2>1, LeastNumber DEF HasLeast
  <2>3. i \in 0 .. n /\ ~ Same(i)
    BY <2>2
  <2>4. CASE i = 0
    <3>1. Same(0)
      BY DEF IsTrace
    <3> QED BY <2>3, <2>4, <3>1
  <2>5. CASE i # 0
    <3>1. PICK j \in 0 .. n - 1 : j + 1 = i
      <4>1. i - 1 \in 0 .. n - 1 /\ (i - 1) + 1 = i
        BY <2>3, <2>5
      <4> QED BY <4>1
    <3>2. j \in 0 .. m - 1 /\ j \in 0 .. n /\ j < i
      BY <3>1
    <3>3. Same(j)
      <4>1. j \notin M
        BY <2>2, <2>3, <3>2
      <4> QED BY <3>2, <4>1
    <3>4. Turn(f[j], f[j + 1]) /\ Turn(g[j], g[j + 1])
      BY <3>1, <3>2 DEF IsTrace
    <3>5. Same(j + 1)
      BY <3>3, <3>4, TurnsAgree
    <3> QED BY <2>3, <3>1, <3>5
  <2> QED BY <2>4, <2>5
<1>2. n \in 0 .. n
  OBVIOUS
<1> QED BY <1>1, <1>2

LEMMA EndsAgree ==
  ASSUME L \in Nat, NEW v, NEW w, Ends(v), Ends(w)
  PROVE  v = w
<1>1. PICK n \in Nat : \E f : IsTrace(f, n) /\ f[n][1] \notin 1 .. Len(mem) /\ v = f[n][2]
  BY DEF Ends, Reaches, Trace
<1>2. PICK m \in Nat : \E g : IsTrace(g, m) /\ g[m][1] \notin 1 .. Len(mem) /\ w = g[m][2]
  BY DEF Ends, Reaches, Trace
<1>3. PICK f : IsTrace(f, n) /\ f[n][1] \notin 1 .. Len(mem) /\ v = f[n][2]
  BY <1>1
<1>4. PICK g : IsTrace(g, m) /\ g[m][1] \notin 1 .. Len(mem) /\ w = g[m][2]
  BY <1>2
<1>5. CASE n < m
  <2>1. f[n][1] = g[n][1]
    BY <1>3, <1>4, <1>5, TracesAgree
  <2>2. n \in 0 .. m - 1
    BY <1>5
  <2>3. g[n][1] \in 1 .. Len(mem)
    BY <1>4, <2>2 DEF IsTrace
  <2> QED BY <1>3, <2>1, <2>3
<1>6. CASE m < n
  <2>1. g[m][1] = f[m][1]
    BY <1>3, <1>4, <1>6, TracesAgree
  <2>2. m \in 0 .. n - 1
    BY <1>6
  <2>3. f[m][1] \in 1 .. Len(mem)
    BY <1>3, <2>2 DEF IsTrace
  <2> QED BY <1>4, <2>1, <2>3
<1>7. CASE n = m
  BY <1>3, <1>4, <1>7, TracesAgree
<1> QED BY <1>5, <1>6, <1>7

\* One region more.
LEMMA ReachesMore ==
  ASSUME NEW c, Reaches(c), c[1] \in 1 .. Len(mem), NEW d, Turn(c, d)
  PROVE  Reaches(d)
<1>1. PICK n \in Nat : Trace(c, n)
  BY DEF Reaches
<1>2. PICK f : IsTrace(f, n) /\ f[n] = c
  BY <1>1 DEF Trace
<1> DEFINE g == [i \in 0 .. n + 1 |-> IF i = n + 1 THEN d ELSE f[i]]
<1>3. g[n + 1] = d /\ \A i \in 0 .. n : g[i] = f[i]
  OBVIOUS
<1> HIDE DEF g
<1>4. g[0][1] = 1 /\ g[0][2] = <<>>
  BY <1>2, <1>3 DEF IsTrace
<1>5. ASSUME NEW i \in 0 .. (n + 1) - 1
      PROVE  g[i][1] \in 1 .. Len(mem) /\ Turn(g[i], g[i + 1])
  <2>1. CASE i = n
    BY <1>2, <1>3, <2>1
  <2>2. CASE i # n
    <3>1. i \in 0 .. n - 1 /\ i \in 0 .. n /\ i + 1 \in 0 .. n
      BY <1>5, <2>2
    <3> QED BY <1>2, <1>3, <3>1 DEF IsTrace
  <2> QED BY <2>1, <2>2
<1>6. IsTrace(g, n + 1)
  BY <1>4, <1>5 DEF IsTrace
<1>7. n + 1 \in Nat
  OBVIOUS
<1> QED BY <1>3, <1>6, <1>7 DEF Reaches, Trace

LEMMA ReachesFirst == Reaches(<<1, <<>> >>)
<1> DEFINE f == [i \in 0 .. 0 |-> <<1, <<>> >>]
<1>1. f[0] = <<1, <<>> >>
  OBVIOUS
<1> HIDE DEF f
<1>2. IsTrace(f, 0)
  <2>1. 0 .. 0 - 1 = {}
    OBVIOUS
  <2> QED BY <1>1, <2>1 DEF IsTrace
<1> QED BY <1>1, <1>2 DEF Reaches, Trace

\* As long as the image does not change.
LEMMA ReachesStays ==
  ASSUME mem' = mem, key' = key
  PROVE  /\ \A c : Reaches(c) => Reaches(c)'
         /\ \A v : Ends(v) => Ends(v)'
<1>1. \A r : CodeOf(r)' = CodeOf(r)
  BY DEF CodeOf
<1>2. \A code, s : Whole(code, s)' <=> Whole(code, s)
  BY DEF Whole, MatchAt, Matches, Far, Covers, L
<1>3. \A r, t : Adds(r, t) => Adds(r, t)'
  <2> SUFFICES ASSUME NEW r, NEW t, Adds(r, t)
               PROVE  Adds(r, t)'
    OBVIOUS
  <2>1. CASE r.protect # "execute"
    BY <2>1 DEF Adds
  <2>2. CASE r.protect = "execute"
    <3>1. PICK code : code = CodeOf(r)
      OBVIOUS
    <3>2. PICK s \in Seq(Nat) : code = CodeOf(r) /\ Whole(code, s) /\ t = IF Len(s) < MaxSearchCount THEN Places(r, s) ELSE <<>>
      BY <2>2, <3>1 DEF Adds
    <3>3. Whole(code, s)'
      BY <1>2, <3>2
    <3>4. code = CodeOf(r)'
      BY <1>1, <3>2
    <3> QED BY <2>2, <3>2, <3>3, <3>4 DEF Adds
  <2> QED BY <2>1, <2>2
<1>4. \A c, d : Turn(c, d) => Turn(c, d)'
  <2> SUFFICES ASSUME NEW c, NEW d, Turn(c, d)
               PROVE  Turn(c, d)'
    OBVIOUS
  <2>1. PICK r : r = VirtualQueryEx(mem, c[1]) /\ d[1] = c[1] + r.size /\ \E t : Adds(r, t) /\ d[2] = c[2] \o t
    BY DEF Turn
  <2>2. PICK t : Adds(r, t) /\ d[2] = c[2] \o t
    BY <2>1
  <2>3. Adds(r, t)'
    BY <1>3, <2>2
  <2>4. r = VirtualQueryEx(mem', c[1])
    BY <2>1
  <2> QED BY <2>1, <2>2, <2>3, <2>4 DEF Turn
<1>5. \A f, n : IsTrace(f, n) => IsTrace(f, n)'
  BY <1>4 DEF IsTrace
<1>6. \A c : Reaches(c) => Reaches(c)'
  BY <1>5 DEF Reaches, Trace
<1> QED BY <1>6 DEF Ends

LEMMA WholeAtCollect ==
  ASSUME Search, ScanInv, searchPc = "collect"
  PROVE  Whole(CodeOf(mbi), vlst)
<1>1. Within /\ FoundBefore(CodeOf(mbi), vlst, now) /\ now + L >= Len(CodeOf(mbi)) /\ now \in Nat /\ mbi \in Regions /\ mbi.base > 0
  BY DEF ScanInv, Search, SearchTyped, RegionInv
<1>2. L \in Nat /\ Len(CodeOf(mbi)) \in Nat
  <2>1. CodeOf(mbi) \in Seq(Byte)
    BY <1>1, RegionCode DEF Within, Search
  <2> QED BY <2>1, KeyIs DEF Search
<1>3. ASSUME NEW at \in Nat, MatchAt(CodeOf(mbi), at)
      PROVE  Covers(vlst, at)
  <2>1. at < now
    BY <1>1, <1>2, <1>3 DEF MatchAt
  <2> QED BY <1>1, <1>3, <2>1 DEF FoundBefore
<1> QED BY <1>1, <1>3 DEF Whole, FoundBefore

LEMMA RepeatStep ==
  ASSUME Search, ScanInv, PassedInv, RepeatInv, Step
  PROVE  RepeatInv'
<1>1. history \in Seq(Seq(Nat)) /\ vec \in Seq(Nat) /\ addr \in Nat \ {0} /\ Len(mem) \in Nat
  BY DEF Search, SearchTyped
<1>2. history' = history \/ (EndOfImage /\ history' = Append(history, vec))
  BY DEF Step, SearchNext, searchVars, SearchBase, SearchFails, Query, QueryFails, Sunday, Collect, EndOfImage, Answer
<1>3. CASE history = <<>>
  <2>1. history' = <<>> \/ (history' = <<vec>> /\ searchPc' = "found")
    BY <1>2, <1>3 DEF EndOfImage
  <2>2. \A i \in DOMAIN history' : ~ (i > 1)
    BY <2>1
  <2> QED BY <2>1, <2>2 DEF RepeatInv
<1>4. CASE history # <<>>
  <2>1. mem' = mem /\ key' = key
    BY <1>4, PassedStep, ImageStays
  <2>2. (\A c : Reaches(c) => Reaches(c)') /\ (\A v : Ends(v) => Ends(v)')
    BY <2>1, ReachesStays
  <2>3. \A i \in DOMAIN history' : i > 1 => Ends(history'[i])
    <3>1. CASE history' = history
      BY <3>1 DEF RepeatInv
    <3>2. CASE EndOfImage /\ history' = Append(history, vec) /\ history' # history
      <4>1. who = "own" /\ searchPc = "query" /\ addr > Len(mem)
        BY <3>2 DEF EndOfImage, Queried
      <4>2. Reaches(<<addr, vec>>)
        BY <1>4, <4>1 DEF RepeatInv
      <4>3. Ends(vec)
        <5>1. <<addr, vec>>[1] \notin 1 .. Len(mem) /\ vec = <<addr, vec>>[2]
          BY <1>1, <4>1
        <5> QED BY <4>2, <5>1 DEF Ends
      <4>4. /\ Len(history) \in Nat /\ DOMAIN history = 1 .. Len(history) /\ DOMAIN history' = 1 .. Len(history) + 1
            /\ history'[Len(history) + 1] = vec /\ \A i \in 1 .. Len(history) : history'[i] = history[i]
        BY <1>1, <3>2, AppendProperties
      <4>5. ASSUME NEW i \in DOMAIN history', i > 1
            PROVE  Ends(history'[i])
        <5>1. CASE i \in 1 .. Len(history)
          BY <4>4, <4>5, <5>1 DEF RepeatInv
        <5>2. CASE i = Len(history) + 1
          BY <4>3, <4>4, <5>2
        <5> QED BY <4>4, <5>1, <5>2
      <4> QED BY <4>5
    <3> QED BY <1>2, <3>1, <3>2
  <2>4. \A i \in DOMAIN history' : i > 1 => Ends(history[i])'
    <3> TAKE i \in DOMAIN history'
    <3> HAVE i > 1
    <3>1. PICK v : v = history'[i]
      OBVIOUS
    <3>2. Ends(v)'
      BY <2>2, <2>3, <3>1
    <3> QED BY <3>1, <3>2 DEF Ends
  <2> DEFINE Looked == addr \in 1 .. Len(mem) /\ mbi = VirtualQueryEx(mem, addr) /\ mbi.protect = "execute"
  <2>5. ASSUME who' = "own", searchPc' \in {"query", "scan", "collect"}
        PROVE  Reaches(<<addr', vec'>>) /\ (searchPc' \in {"scan", "collect"} => Looked')
    <3>1. CASE \E w \in {"own", "self", "other"} : SearchBase(w) \/ SearchFails(w)
      <4>1. searchPc' = "query" /\ addr' = 1 /\ vec' = <<>>
        BY <2>5, <3>1 DEF SearchBase, SearchFails
      <4> QED BY <4>1, ReachesFirst
    <3>2. CASE Query
      <4>1. who = "own" /\ searchPc = "query" /\ addr \in 1 .. Len(mem) /\ vec' = vec
        BY <1>1, <2>5, <3>2 DEF Query, Queried
      <4>2. PICK r : /\ r = VirtualQueryEx(mem, addr) /\ mbi' = r
                     /\ IF r.protect = "execute" THEN searchPc' = "scan" /\ addr' = addr ELSE searchPc' = "query" /\ addr' = addr + r.size
        BY <3>2, <4>1 DEF Query, Queried, Scanned
      <4>3. Reaches(<<addr, vec>>)
        BY <1>4, <4>1 DEF RepeatInv
      <4>4. CASE r.protect = "execute"
        BY <2>1, <4>1, <4>2, <4>3, <4>4
      <4>5. CASE r.protect # "execute"
        <5>1. vec = vec \o <<>>
          BY <1>1
        <5>2. Adds(r, <<>>)
          BY <4>5 DEF Adds
        <5>3. Turn(<<addr, vec>>, <<addr', vec'>>)
          BY <4>1, <4>2, <4>5, <5>1, <5>2 DEF Turn
        <5>4. Reaches(<<addr', vec'>>)
          BY <4>1, <4>3, <5>3, ReachesMore
        <5> QED BY <4>2, <4>5, <5>4
      <4> QED BY <4>4, <4>5
    <3>3. CASE QueryFails
      BY <2>5, <3>3 DEF QueryFails
    <3>4. CASE Sunday \/ UNCHANGED searchVars
      <4>1. UNCHANGED <<who, addr, vec, mbi>> /\ (searchPc' = searchPc \/ (searchPc = "scan" /\ searchPc' = "collect"))
        BY <2>5, <3>4 DEF Sunday, searchVars
      <4>2. Reaches(<<addr, vec>>) /\ (searchPc \in {"scan", "collect"} => Looked)
        BY <1>4, <2>5, <4>1 DEF RepeatInv
      <4> QED BY <2>1, <4>1, <4>2
    <3>5. CASE Collect
      <4>1. who = "own" /\ searchPc = "collect" /\ searchPc' = "query" /\ addr' = addr + mbi.size
        BY <2>5, <3>5 DEF Collect
      <4>2. Reaches(<<addr, vec>>) /\ Looked
        BY <1>4, <4>1 DEF RepeatInv
      <4>3. Whole(CodeOf(mbi), vlst) /\ vlst \in Seq(Nat)
        BY <4>1, WholeAtCollect DEF Search, SearchTyped
      <4>4. PICK t : t = IF Len(vlst) < MaxSearchCount THEN Places(mbi, vlst) ELSE <<>>
        OBVIOUS
      <4>5. vec' = vec \o t
        BY <3>5, <4>4 DEF Collect, Places
      <4>6. Adds(mbi, t)
        BY <4>2, <4>3, <4>4 DEF Adds
      <4>7. Turn(<<addr, vec>>, <<addr', vec'>>)
        BY <4>1, <4>2, <4>5, <4>6 DEF Turn
      <4>8. Reaches(<<addr', vec'>>)
        BY <4>2, <4>7, ReachesMore
      <4> QED BY <4>1, <4>8
    <3>6. CASE EndOfImage \/ Answer
      BY <2>5, <3>6 DEF EndOfImage, Answer
    <3>7. \/ \E w \in {"own", "self", "other"} : SearchBase(w) \/ SearchFails(w)
          \/ Query \/ QueryFails \/ Sunday \/ Collect \/ EndOfImage \/ Answer \/ UNCHANGED searchVars
      BY DEF Step, SearchNext
    <3> QED BY Zenon, <3>1, <3>2, <3>3, <3>4, <3>5, <3>6, <3>7
  <2>6. ASSUME who' = "own", searchPc' \in {"query", "scan", "collect"}
        PROVE  Reaches(<<addr, vec>>)'
    <3>1. PICK c : c = <<addr', vec'>>
      OBVIOUS
    <3>2. Reaches(c)'
      BY <2>2, <2>5, <2>6, <3>1
    <3> QED BY <3>1, <3>2 DEF Reaches, Trace
  <2> QED BY <2>4, <2>5, <2>6 DEF RepeatInv
<1> QED BY <1>3, <1>4

-----------------------------------------------------------------------------
(* The answers.                                                              *)

LEMMA ReadIs ==
  ASSUME SearchAssumption, SearchTyped, NEW a \in Int
  PROVE  Read(a) \in Byte
<1> DEFINE p == a \div PageSize + 1
           q == (a % PageSize) + 1
<1>1. PageSize \in Nat /\ PageSize > 0 /\ Addresses \in Nat /\ Addresses > 0 /\ Queried \in Seq(Pages)
  BY QueriedIs DEF SearchAssumption
<1>2. CASE a >= 0 /\ p <= Len(Queried) /\ Queried[p].protect # "free"
  <2>1. p \in 1 .. Len(Queried) /\ q \in 1 .. PageSize
    <3>1. a \in Nat /\ a \div PageSize \in Nat /\ a % PageSize \in 0 .. PageSize - 1
      BY <1>1, <1>2
    <3>2. Len(Queried) \in Nat
      BY <1>1
    <3> QED BY <1>1, <1>2, <3>1, <3>2
  <2>2. Queried[p] \in Pages
    BY <1>1, <2>1
  <2> HIDE DEF p, q
  <2>3. Queried[p].bytes[q] \in Byte
    BY <2>1, <2>2 DEF Pages, Byte
  <2> QED BY <1>2, <2>3 DEF Read, p, q
<1>3. CASE ~ (a >= 0 /\ p <= Len(Queried) /\ Queried[p].protect # "free")
  <2>1. Read(a) = 0
    BY <1>3 DEF Read
  <2> QED BY <1>1, <2>1 DEF Byte
<1> QED BY <1>2, <1>3

LEMMA NthIs ==
  ASSUME SearchAssumption, SearchTyped, NEW order \in Int, HasNth(order), NEW off \in Int
  PROVE  /\ vec[order + 1] \in Nat /\ order + 1 \in DOMAIN vec
         /\ Nth(order, off) \in Byte
<1>1. vec \in Seq(Nat) /\ Addresses \in Nat \ {0}
  BY DEF SearchAssumption, SearchTyped
<1>2. order + 1 \in 1 .. Len(vec)
  BY <1>1 DEF HasNth
<1>3. vec[order + 1] \in Nat /\ order + 1 \in DOMAIN vec
  BY <1>1, <1>2
<1>4. \A x \in Int : x % Addresses \in 0 .. Addresses - 1
  BY <1>1
<1> QED BY <1>3, <1>4 DEF Nth, Byte

LEMMA NoNthIs ==
  ASSUME SearchAssumption, NEW order
  PROVE  \E v \in Values : NoNth(order) = <<v>>
<1>1. 0 \in Values /\ Thrown \in Values
  BY DEF SearchAssumption, Values
<1> QED BY <1>1 DEF NoNth

\* Every answer but the list of all addresses is one value.
LEMMA OneValue ==
  ASSUME SearchAssumption, SearchTyped, NEW order \in Int, NEW off \in Int, NEW mov \in Int
  PROVE  /\ \E v \in Values : FindAddr(order, off) = <<v>>
         /\ \E v \in Values : FindCALL(order, off, mov) = <<v>>
         /\ \E v \in Values : FindBase(order, off, mov) = <<v>>
         /\ \E v \in Values : FindBase_ByCALL(order, off, mov, 1) = <<v>>
<1>1. Addresses \in Nat \ {0} /\ Byte \subseteq Values /\ Byte \subseteq Int /\ Values \subseteq Int /\ 0 \in Byte
  BY DEF SearchAssumption, Byte, Values, Thrown
<1>2. \A x, y \in Int : (x + y) % Addresses \in Byte /\ (x + y) % Addresses \in Int
  BY <1>1 DEF Byte
<1>3. \A x \in Int : Read(x) \in Byte /\ Read(x) \in Int
  BY <1>1, ReadIs
<1>4. HasNth(order) => Nth(order, off) \in Byte
  BY NthIs
<1>5. \E v \in Values : NoNth(order) = <<v>>
  BY NoNthIs
<1>6. \E v \in Values : FindAddr(order, off) = <<v>>
  BY <1>1, <1>4, <1>5 DEF FindAddr
<1>7. \E v \in Values : FindCALL(order, off, mov) = <<v>>
  <2>1. CASE ~ HasNth(order)
    BY <1>5, <2>1 DEF FindCALL
  <2>2. CASE HasNth(order)
    <3>1. Nth(order, off) \in Int
      BY <1>1, <1>4, <2>2
    <3>2. PICK a \in Int : a = (Nth(order, off) + mov) % Addresses
      BY <1>2, <3>1
    <3>3. Read(a) \in Int
      BY <1>3
    <3>4. Read(a) + 1 \in Int
      BY <3>3
    <3>5. Relative(a) \in Byte
      BY <1>2, <3>4 DEF Relative
    <3>6. Relative(a) \in Values
      BY <1>1, <3>5
    <3>7. FindCALL(order, off, mov) = <<Relative(a)>> \/ FindCALL(order, off, mov) = <<0>>
      BY <2>2, <3>2 DEF FindCALL
    <3> QED BY <1>1, <3>6, <3>7
  <2> QED BY <2>1, <2>2
<1>8. \E v \in Values : FindBase(order, off, mov) = <<v>>
  <2>1. CASE ~ HasNth(order)
    BY <1>5, <2>1 DEF FindBase
  <2>2. CASE HasNth(order)
    <3>1. Read((Nth(order, off) + mov) % Addresses) \in Values
      <4>1. Nth(order, off) \in Int
        BY <1>1, <1>4, <2>2
      <4>2. (Nth(order, off) + mov) % Addresses \in Int
        BY <1>2, <4>1
      <4>3. Read((Nth(order, off) + mov) % Addresses) \in Byte
        BY <1>3, <4>2
      <4> QED BY <1>1, <4>3
    <3> QED BY <2>2, <3>1 DEF FindBase
  <2> QED BY <2>1, <2>2
<1>9. \E v \in Values : FindBase_ByCALL(order, off, mov, 1) = <<v>>
  <2>1. PICK v \in Values : FindCALL(order, off, mov) = <<v>>
    BY <1>7
  <2>2. Read((v + 1) % Addresses) \in Values
    <3>1. v \in Int
      BY <1>1
    <3>2. (v + 1) % Addresses \in Int
      BY <1>2, <3>1
    <3>3. Read((v + 1) % Addresses) \in Byte
      BY <1>3, <3>2
    <3> QED BY <1>1, <3>3
  <2>3. FindBase_ByCALL(order, off, mov, 1) = <<v>> \/ FindBase_ByCALL(order, off, mov, 1) = <<Read((v + 1) % Addresses)>>
    BY <2>1 DEF FindBase_ByCALL
  <2> QED BY <2>2, <2>3
<1> QED BY <1>6, <1>7, <1>8, <1>9

\* Behind a sequence.
LEMMA LastIs ==
  ASSUME NEW S, NEW h \in Seq(S), NEW V, NEW t \in Seq(V), t # <<>>
  PROVE  /\ Last(h \o t) \in V
         /\ \A i \in 1 .. Len(h) : (h \o t)[i] = h[i]
         /\ (h \o t)[Len(h) + 1] = t[1]
<1> DEFINE U == S \cup V
           u == h \o t
<1>1. h \in Seq(U) /\ t \in Seq(U) /\ Len(h) \in Nat /\ Len(t) \in Nat /\ Len(t) > 0
  OBVIOUS
<1> HIDE DEF U
<1>2. Len(u) = Len(h) + Len(t) /\ OfBoth(u, h, t, Len(h), Len(t))
  BY <1>1, OnConcat
<1>3. u[Len(h) + Len(t)] = t[Len(t)]
  <2>1. Len(h) + Len(t) \in 1 .. Len(h) + Len(t) /\ ~ (Len(h) + Len(t) <= Len(h)) /\ (Len(h) + Len(t)) - Len(h) = Len(t)
    BY <1>1
  <2> QED BY <1>2, <2>1 DEF OfBoth
<1>4. t[Len(t)] \in V
  BY <1>1
<1>5. u[Len(h) + 1] = t[1]
  <2>1. Len(h) + 1 \in 1 .. Len(h) + Len(t) /\ ~ (Len(h) + 1 <= Len(h)) /\ (Len(h) + 1) - Len(h) = 1
    BY <1>1
  <2> QED BY <1>2, <2>1 DEF OfBoth
<1>6. \A i \in 1 .. Len(h) : u[i] = h[i]
  <2> TAKE i \in 1 .. Len(h)
  <2>1. i \in 1 .. Len(h) + Len(t) /\ i <= Len(h)
    BY <1>1
  <2> QED BY <1>2, <2>1 DEF OfBoth
<1> QED BY <1>2, <1>3, <1>4, <1>5, <1>6 DEF Last

LEMMA CallGoesThere ==
  ASSUME Search, VecInv, NEW order \in Int, order >= 0, order < Len(vec), Read(vec[order + 1]) = CALL
  PROVE  FindCALL(order, 0, 1) = <<(vec[order + 1] + 2 + Read(vec[order + 1] + 1)) % Addresses>>
<1> DEFINE at == vec[order + 1]
<1>1. HasNth(order) /\ order + 1 \in DOMAIN vec /\ at \in Nat /\ Addresses \in Nat \ {0}
  <2>1. vec \in Seq(Nat) /\ Addresses \in Nat \ {0}
    BY DEF Search, SearchTyped, SearchAssumption
  <2>2. HasNth(order)
    BY <2>1 DEF HasNth
  <2> QED BY <2>1, <2>2, NthIs DEF Search
<1>2. at + 1 < Addresses
  <2>1. at + L < Len(AllBytes)
    BY <1>1 DEF VecInv, MatchAt
  <2>2. Len(AllBytes) = Len(mem) * PageSize /\ Len(mem) * PageSize <= Addresses /\ Len(AllBytes) \in Nat
    <3>1. mem \in Seq(Pages) /\ Len(mem) * PageSize <= Addresses
      BY DEF Search, SearchTyped
    <3>2. AllBytes \in Seq(Byte) /\ Len(AllBytes) = Len(mem) * PageSize
      BY <3>1, ImageBytes DEF AllBytes, BytesOf, Search
    <3> QED BY <3>1, <3>2
  <2>3. L \in Nat /\ L > 0
    BY KeyIs DEF Search
  <2> QED BY <1>1, <2>1, <2>2, <2>3
<1> HIDE DEF at
<1>3. \A x \in Nat : x < Addresses => x % Addresses = x
  BY <1>1
<1>4. Nth(order, 0) = at
  <2>1. at - 0 = at /\ at \in Nat /\ at < Addresses
    BY <1>1, <1>2
  <2> QED BY <1>3, <2>1 DEF Nth, at
<1>5. (at + 1) % Addresses = at + 1
  BY <1>1, <1>2, <1>3
<1>6. Read(at) = CALL
  BY DEF at
<1>7. FindCALL(order, 0, 1) = <<Relative(at + 1)>>
  BY <1>1, <1>4, <1>5, <1>6 DEF FindCALL
<1>8. Relative(at + 1) = (at + 2 + Read(at + 1)) % Addresses
  <2>1. Read(at + 1) \in Int
    <3>1. at + 1 \in Int
      BY <1>1
    <3> QED BY <3>1, ReadIs DEF Search, Byte, SearchAssumption
  <2>2. Read(at + 1) + 1 + (at + 1) = at + 2 + Read(at + 1)
    BY <1>1, <2>1
  <2> QED BY <2>2 DEF Relative
<1> QED BY <1>7, <1>8 DEF at

LEMMA AnswerStep ==
  ASSUME Search, VecInv, AnswerInv, Step
  PROVE  AnswerInv'
<1>1. CASE Answer
  <2>1. UNCHANGED <<mem, who, vec>> /\ searchPc' = "answered"
    BY <1>1 DEF Answer
  <2>2. PICK order \in Orders, off \in Offsets :
          \/ answer' = <<"FindAddrs", off>> \o FindAddrs(off)
          \/ answer' = <<"FindAddr", order, off>> \o FindAddr(order, off)
          \/ \E mov \in Movs :
               \/ answer' = <<"FindCALL", order, off, mov>> \o FindCALL(order, off, mov)
               \/ answer' = <<"FindBase", order, off, mov>> \o FindBase(order, off, mov)
               \/ answer' = <<"FindBase_ByCALL", order, off, mov>> \o FindBase_ByCALL(order, off, mov, 1)
    BY <1>1 DEF Answer
  <2>3. order \in Int /\ off \in Int /\ Movs \subseteq Int
    BY DEF Search, SearchAssumption
  <2> DEFINE Target(a) ==
        a[1] = "FindCALL" /\ a[2] >= 0 /\ a[2] < Len(vec) /\ a[3] = 0 /\ a[4] = 1 =>
          (Read(vec[a[2] + 1]) = CALL => a[5] = (vec[a[2] + 1] + 2 + Read(vec[a[2] + 1] + 1)) % Addresses)
      Good(a) == (Len(a) > 2 => Last(a) \in Values) /\ Target(a)
  <2>4. ASSUME NEW S, NEW h \in Seq(S), Len(h) > 0, h[1] # "FindCALL", NEW v \in Values
        PROVE  Good(h \o <<v>>)
    <3>1. <<v>> \in Seq(Values) /\ <<v>> # <<>>
      OBVIOUS
    <3>2. Last(h \o <<v>>) \in Values /\ \A i \in 1 .. Len(h) : (h \o <<v>>)[i] = h[i]
      BY <3>1, LastIs
    <3>3. 1 \in 1 .. Len(h)
      BY <2>4
    <3>4. (h \o <<v>>)[1] # "FindCALL"
      BY <2>4, <3>2, <3>3
    <3> QED BY <3>2, <3>4
  <2>5. ASSUME answer' = <<"FindAddrs", off>> \o FindAddrs(off)
        PROVE  Good(answer')
    <3> DEFINE h == <<"FindAddrs", off>>
               t == FindAddrs(off)
    <3>1. h \in Seq({"FindAddrs", off}) /\ Len(h) = 2 /\ h[1] = "FindAddrs"
      OBVIOUS
    <3>2. vec \in Seq(Nat) /\ Addresses \in Nat \ {0}
      BY DEF Search, SearchTyped, SearchAssumption
    <3>3. t \in Seq(Values) /\ Len(t) = Len(vec)
      <4>1. \A x \in Int : x % Addresses \in Values
        BY <3>2 DEF Values
      <4>2. \A i \in 1 .. Len(vec) : (vec[i] - off) % Addresses \in Values
        <5> TAKE i \in 1 .. Len(vec)
        <5>1. vec[i] - off \in Int
          BY <2>3, <3>2
        <5> QED BY <4>1, <5>1
      <4> QED BY <3>2, <4>2 DEF FindAddrs
    <3> HIDE DEF h, t
    <3>4. answer' = h \o t
      BY <2>5 DEF h, t
    <3>5. CASE t = <<>>
      <4>1. h \o t = h
        BY <3>1, <3>5
      <4>2. answer' = h
        BY <3>4, <4>1
      <4>3. Len(answer') = 2 /\ answer'[1] # "FindCALL"
        BY <3>1, <4>2
      <4> QED BY <4>3
    <3>6. CASE t # <<>>
      <4>1. Last(h \o t) \in Values /\ \A i \in 1 .. Len(h) : (h \o t)[i] = h[i]
        BY <3>1, <3>3, <3>6, LastIs
      <4>2. 1 \in 1 .. Len(h)
        BY <3>1
      <4>3. Last(answer') \in Values /\ answer'[1] # "FindCALL"
        BY <3>1, <3>4, <4>1, <4>2
      <4> QED BY <4>3
    <3> QED BY <3>5, <3>6
  <2>6. ASSUME answer' = <<"FindAddr", order, off>> \o FindAddr(order, off)
        PROVE  Good(answer')
    <3> DEFINE h == <<"FindAddr", order, off>>
    <3>1. h \in Seq({"FindAddr", order, off}) /\ Len(h) = 3 /\ h[1] = "FindAddr"
      OBVIOUS
    <3>2. PICK v \in Values : FindAddr(order, off) = <<v>>
      <4>1. \A mov \in Int : \E v \in Values : FindAddr(order, off) = <<v>>
        BY <2>3, OneValue DEF Search
      <4> QED BY <4>1
    <3> HIDE DEF h, Good
    <3>3. answer' = h \o <<v>>
      BY <2>6, <3>2 DEF h
    <3>4. Good(h \o <<v>>)
      BY <2>4, <3>1
    <3> QED BY <3>3, <3>4
  <2>7. ASSUME NEW mov \in Movs, answer' = <<"FindCALL", order, off, mov>> \o FindCALL(order, off, mov)
        PROVE  Good(answer')
    <3> DEFINE h == <<"FindCALL", order, off, mov>>
    <3>1. h \in Seq({"FindCALL", order, off, mov}) /\ Len(h) = 4 /\ h[2] = order /\ h[3] = off /\ h[4] = mov
      OBVIOUS
    <3>2. PICK v \in Values : FindCALL(order, off, mov) = <<v>>
      BY <2>3, OneValue DEF Search
    <3> HIDE DEF h
    <3>3. <<v>> \in Seq(Values) /\ <<v>> # <<>> /\ <<v>>[1] = v
      OBVIOUS
    <3>4. /\ Last(h \o <<v>>) \in Values /\ (h \o <<v>>)[5] = v
          /\ (h \o <<v>>)[2] = order /\ (h \o <<v>>)[3] = off /\ (h \o <<v>>)[4] = mov
      <4>1. /\ Last(h \o <<v>>) \in Values /\ (h \o <<v>>)[Len(h) + 1] = <<v>>[1]
            /\ \A i \in 1 .. Len(h) : (h \o <<v>>)[i] = h[i]
        BY <3>1, <3>3, LastIs
      <4>2. 2 \in 1 .. Len(h) /\ 3 \in 1 .. Len(h) /\ 4 \in 1 .. Len(h) /\ Len(h) + 1 = 5
        BY <3>1
      <4> QED BY <3>1, <3>3, <4>1, <4>2
    <3>5. answer' = h \o <<v>>
      BY <2>7, <3>2 DEF h
    <3>6. Target(answer')
      <4> SUFFICES ASSUME order >= 0, order < Len(vec), off = 0, mov = 1, Read(vec[order + 1]) = CALL
                   PROVE  v = (vec[order + 1] + 2 + Read(vec[order + 1] + 1)) % Addresses
        BY <3>4, <3>5
      <4>1. FindCALL(order, off, mov) = <<(vec[order + 1] + 2 + Read(vec[order + 1] + 1)) % Addresses>>
        BY <2>3, CallGoesThere
      <4> QED BY <3>2, <4>1
    <3> QED BY <3>4, <3>5, <3>6
  <2>8. ASSUME NEW mov \in Movs, answer' = <<"FindBase", order, off, mov>> \o FindBase(order, off, mov)
        PROVE  Good(answer')
    <3> DEFINE h == <<"FindBase", order, off, mov>>
    <3>1. h \in Seq({"FindBase", order, off, mov}) /\ Len(h) = 4 /\ h[1] = "FindBase"
      OBVIOUS
    <3>2. PICK v \in Values : FindBase(order, off, mov) = <<v>>
      BY <2>3, OneValue DEF Search
    <3> HIDE DEF h, Good
    <3>3. answer' = h \o <<v>>
      BY <2>8, <3>2 DEF h
    <3>4. Good(h \o <<v>>)
      BY <2>4, <3>1
    <3> QED BY <3>3, <3>4
  <2>9. ASSUME NEW mov \in Movs, answer' = <<"FindBase_ByCALL", order, off, mov>> \o FindBase_ByCALL(order, off, mov, 1)
        PROVE  Good(answer')
    <3> DEFINE h == <<"FindBase_ByCALL", order, off, mov>>
    <3>1. h \in Seq({"FindBase_ByCALL", order, off, mov}) /\ Len(h) = 4 /\ h[1] = "FindBase_ByCALL"
      OBVIOUS
    <3>2. PICK v \in Values : FindBase_ByCALL(order, off, mov, 1) = <<v>>
      BY <2>3, OneValue DEF Search
    <3> HIDE DEF h, Good
    <3>3. answer' = h \o <<v>>
      BY <2>9, <3>2 DEF h
    <3>4. Good(h \o <<v>>)
      BY <2>4, <3>1
    <3> QED BY <3>3, <3>4
  <2> HIDE DEF Good
  <2>10. Good(answer')
    BY <2>2, <2>5, <2>6, <2>7, <2>8, <2>9
  <2>11. CallIsTarget'
    BY <2>1, <2>10 DEF Good, CallIsTarget, Read, Queried
  <2> QED BY <2>1, <2>10, <2>11 DEF Good, AnswerInv, Values
<1>2. CASE UNCHANGED searchVars
  BY <1>2 DEF searchVars, AnswerInv, CallIsTarget, Read, Queried
<1>3. CASE ~ Answer /\ ~ UNCHANGED searchVars
  <2>1. answer' = answer /\ searchPc # "answered" /\ searchPc' # "answered"
    BY <1>3 DEF Step, SearchNext, SearchBase, SearchFails, Query, QueryFails, Sunday, Collect, EndOfImage
  <2>2. answer' = <<"none", 0>>
    BY <2>1 DEF AnswerInv
  <2> QED BY <2>1, <2>2 DEF AnswerInv, CallIsTarget
<1> QED BY <1>1, <1>2, <1>3

-----------------------------------------------------------------------------
(* The theorem.                                                              *)

SearchInv == SearchTyped /\ RegionInv /\ ScanInv /\ VecInv /\ PassedInv /\ RepeatInv /\ AnswerInv

LEMMA SearchBegins ==
  ASSUME SearchAssumption, SearchInit
  PROVE  SearchInv
<1>1. SearchTyped
  <2>1. mem \in Seq(Pages) /\ Len(mem) * PageSize <= Addresses
    BY DEF SearchAssumption, SearchInit
  <2>2. mbi \in Regions /\ vec \in Seq(Nat) /\ vlst \in Seq(Nat) /\ history \in Seq(Seq(Nat))
    BY DEF SearchInit, Garbage, Regions
  <2> QED BY <2>1, <2>2 DEF SearchInit, SearchTyped
<1>2. AnswerInv
  BY DEF SearchInit, AnswerInv, CallIsTarget
<1>3. PassedInv
  BY <1>1 DEF SearchInit, PassedInv, Passed, NoneReadOnly, SearchTyped
<1>4. VecInv
  BY DEF SearchInit, VecInv, Far
<1> QED BY <1>1, <1>2, <1>3, <1>4 DEF SearchInit, SearchInv, RegionInv, ScanInv, RepeatInv

LEMMA SearchGoesOn ==
  ASSUME SearchAssumption, SearchInv, Step
  PROVE  SearchInv'
<1>1. Search
  BY DEF Search, SearchInv
<1>2. SearchTyped' /\ RegionInv'
  BY <1>1, SearchTypedStep
<1>3. ScanInv'
  BY <1>1, ScanStep DEF SearchInv
<1>4. VecInv'
  BY <1>1, VecStep DEF SearchInv
<1>5. PassedInv'
  BY <1>1, PassedStep DEF SearchInv
<1>6. RepeatInv'
  BY <1>1, RepeatStep DEF SearchInv
<1>7. AnswerInv'
  BY <1>1, AnswerStep DEF SearchInv
<1> QED BY <1>2, <1>3, <1>4, <1>5, <1>6, <1>7 DEF SearchInv

LEMMA SearchInvFinds ==
  ASSUME SearchAssumption, SearchInv
  PROVE  Finds
<1>1. Search
  BY DEF Search, SearchInv
<1>2. L \in Nat /\ L > 0
  BY <1>1, KeyIs DEF Search
<1>3. SearchTypeOK
  <2>1. ASSUME NEW i \in DOMAIN mem
        PROVE  mem[i].protect \in {"execute", "readonly", "free"} /\ Len(mem[i].bytes) = PageSize
    <3>1. mem[i] \in Pages /\ PageSize \in Nat
      BY <1>1 DEF Search, SearchTyped, SearchAssumption
    <3>2. mem[i].bytes \in [1 .. PageSize -> Byte]
      BY <3>1 DEF Pages, Byte
    <3> QED BY <3>1, <3>2 DEF Pages
  <2>2. \A i \in DOMAIN history : history[i] \in Seq(Nat)
    BY DEF SearchInv, SearchTyped
  <2> QED BY <2>1, <2>2 DEF SearchTypeOK, SearchInv, SearchTyped, AnswerInv, Values
<1>4. FoundIsMatch
  <2>1. ASSUME NEW i \in DOMAIN vec
        PROVE  vec[i] + Len(key) <= Len(AllBytes) /\ Matches(AllBytes, vec[i])
    <3>1. MatchAt(AllBytes, vec[i]) /\ vec[i] \in Nat
      BY DEF SearchInv, VecInv, SearchTyped
    <3>2. Len(AllBytes) \in Nat
      <4>1. AllBytes \in Seq(Byte)
        BY ImageBytes DEF AllBytes, BytesOf, SearchInv, SearchTyped
      <4> QED BY <4>1
    <3>3. vec[i] + L <= Len(AllBytes)
      BY <1>2, <3>1, <3>2 DEF MatchAt
    <3> QED BY <3>1, <3>3 DEF MatchAt, L
  <2>2. \A i \in 1 .. Len(vec) - 1 : vec[i + 1] > vec[i] + Len(key)
    BY DEF SearchInv, VecInv, Far, L
  <2> QED BY <2>1, <2>2 DEF FoundIsMatch
<1>5. NoneMissed
  <2> SUFFICES ASSUME searchPc = "collect"
               PROVE  \A at \in 0 .. Len(CodeOf(mbi)) - L - 1 :
                        Matches(CodeOf(mbi), at) => \E i \in DOMAIN vlst : vlst[i] <= at /\ at <= vlst[i] + L
    BY DEF NoneMissed, L
  <2>1. Whole(CodeOf(mbi), vlst)
    BY <1>1, WholeAtCollect DEF SearchInv
  <2>2. Len(CodeOf(mbi)) \in Nat
    <3>1. Within /\ mbi \in Regions /\ mbi.base > 0
      BY DEF SearchInv, ScanInv, SearchTyped, RegionInv
    <3>2. CodeOf(mbi) \in Seq(Byte)
      BY <1>1, <3>1, RegionCode DEF Within, Search
    <3> QED BY <3>2
  <2> TAKE at \in 0 .. Len(CodeOf(mbi)) - L - 1
  <2> HAVE Matches(CodeOf(mbi), at)
  <2>3. MatchAt(CodeOf(mbi), at) /\ at \in Nat
    BY <1>2, <2>2 DEF MatchAt
  <2> QED BY <2>1, <2>3 DEF Whole, Covers
<1>6. RepeatAgrees
  <2> SUFFICES ASSUME Len(history) > 2
               PROVE  history[Len(history)] = history[Len(history) - 1]
    BY DEF RepeatAgrees
  <2>1. Len(history) \in DOMAIN history /\ Len(history) - 1 \in DOMAIN history /\ Len(history) - 1 > 1
    BY DEF SearchInv, SearchTyped
  <2>2. Ends(history[Len(history)]) /\ Ends(history[Len(history) - 1])
    BY <2>1 DEF SearchInv, RepeatInv
  <2> QED BY <1>2, <2>2, EndsAgree
<1>7. CallIsTarget
  BY DEF SearchInv, AnswerInv
<1> QED BY <1>3, <1>4, <1>5, <1>6, <1>7 DEF Finds

\* Whatever the image, the pattern and the sizes: what a search finds is the pattern, no
\* match of a region is passed over (the skip of CL_sunday), from the second search of
\* CSearchBinary on the same search finds the same, and FindCALL of a relative CALL is the
\* address it calls.
THEOREM SearchesFind ==
  ASSUME SearchAssumption
  PROVE  SearchSpec => []Finds
<1>1. SearchInit => SearchInv
  BY SearchBegins
<1>2. SearchInv /\ [SearchNext]_searchVars => SearchInv'
  BY SearchGoesOn DEF Step
<1>3. SearchInv => Finds
  BY SearchInvFinds
<1> QED BY <1>1, <1>2, <1>3, PTL DEF SearchSpec
=============================================================================

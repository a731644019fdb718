------------------------- MODULE Accounting_proofs -------------------------
(***************************************************************************)
(* Proofs about AcceptPool, for any finite set of workers and any levels:  *)
(* the type invariant, and that the counter accounts for every accept; and *)
(* about SystemCalls, for any threads, drives and kinds of bridge: that    *)
(* what a function takes is given back.                                    *)
(***************************************************************************)
EXTENDS AcceptPool, SystemCalls, Loops_proofs, FiniteSetTheorems

-----------------------------------------------------------------------------
(* AcceptPool.                                                             *)

USE DEF Labels

\* A worker's move changes the number of workers that owe a decrement, and of
\* those that owe an increment, by the label it leaves and the one it enters.
LEMMA MoveCounts ==
  ASSUME TypeOK, NEW w \in Workers, NEW l \in Labels, Goto(w, l)
  PROVE  /\ Cardinality(Owing) \in Nat /\ Cardinality(Uncounted) \in Nat
         /\ Cardinality(Owing') = Cardinality(Owing)
              + (IF l = "decr" THEN 1 ELSE 0) - (IF pc[w] = "decr" THEN 1 ELSE 0)
         /\ Cardinality(Uncounted') = Cardinality(Uncounted)
              + (IF l = "incr" THEN 1 ELSE 0) - (IF pc[w] = "incr" THEN 1 ELSE 0)
<1>1. IsFiniteSet(Owing) /\ IsFiniteSet(Uncounted)
  BY WorkersAssumption, FS_Subset DEF Owing, Uncounted
<1>2. Cardinality(Owing) \in Nat /\ Cardinality(Uncounted) \in Nat
  BY <1>1, FS_CardinalityType
<1>3. pc' = [pc EXCEPT ![w] = l] /\ pc \in [Workers -> Labels]
  BY DEF Goto, TypeOK
<1>4. Owing' = IF l = "decr" THEN Owing \cup {w} ELSE Owing \ {w}
  BY <1>3 DEF Owing
<1>5. Uncounted' = IF l = "incr" THEN Uncounted \cup {w} ELSE Uncounted \ {w}
  BY <1>3 DEF Uncounted
<1>6. /\ w \in Owing <=> pc[w] = "decr"
      /\ w \in Uncounted <=> pc[w] = "incr"
  BY DEF Owing, Uncounted
<1>7. /\ Cardinality(Owing \cup {w}) =
           IF w \in Owing THEN Cardinality(Owing) ELSE Cardinality(Owing) + 1
      /\ Cardinality(Owing \ {w}) =
           IF w \in Owing THEN Cardinality(Owing) - 1 ELSE Cardinality(Owing)
  BY <1>1, FS_AddElement, FS_RemoveElement
<1>8. /\ Cardinality(Uncounted \cup {w}) =
           IF w \in Uncounted THEN Cardinality(Uncounted) ELSE Cardinality(Uncounted) + 1
      /\ Cardinality(Uncounted \ {w}) =
           IF w \in Uncounted THEN Cardinality(Uncounted) - 1 ELSE Cardinality(Uncounted)
  BY <1>1, FS_AddElement, FS_RemoveElement
<1>9. Cardinality(Owing') = Cardinality(Owing)
        + (IF l = "decr" THEN 1 ELSE 0) - (IF pc[w] = "decr" THEN 1 ELSE 0)
  BY <1>2, <1>4, <1>6, <1>7
<1>10. Cardinality(Uncounted') = Cardinality(Uncounted)
        + (IF l = "incr" THEN 1 ELSE 0) - (IF pc[w] = "incr" THEN 1 ELSE 0)
  BY <1>2, <1>5, <1>6, <1>8
<1> QED BY <1>2, <1>9, <1>10

\* What a UINT subtraction returns is a UINT.
LEMMA WordRange == \A n \in Int : Word(n) \in 0 .. WordSize - 1
  BY WordAssumption, LevelsAssumption DEF Word

\* Every variable keeps its type: the counters stay natural, each worker is
\* at a label of OnAccept and its top-up fits a UINT.
THEOREM TypeCorrect == Spec => []TypeOK
<1>1. Init => TypeOK
  BY WordAssumption, LevelsAssumption DEF Init, TypeOK
<1>2. TypeOK /\ [Next]_poolVars => TypeOK'
  <2> SUFFICES ASSUME TypeOK, [Next]_poolVars PROVE TypeOK'
    OBVIOUS
  <2> USE DEF TypeOK
  <2>p. pool' = pool
    BY DEF Next, poolVars
  <2>1. CASE RunServer
    BY <2>p, <2>1 DEF RunServer, PostAccept
  <2>2. CASE StopServer
    BY <2>p, <2>2 DEF StopServer
  <2>3. CASE StopServerWaited
    BY <2>p, <2>3 DEF StopServerWaited
  <2>4. CASE Connect
    BY <2>p, <2>4 DEF Connect
  <2>5. ASSUME NEW w \in Workers, Dispatch(w) PROVE TypeOK'
    BY <2>p, <2>5 DEF Dispatch, Goto
  <2>6. ASSUME NEW w \in Workers, DispatchFailed(w) PROVE TypeOK'
    BY <2>p, <2>6 DEF DispatchFailed
  <2>7. ASSUME NEW w \in Workers, OnAccept(w) PROVE TypeOK'
    <3>1. CASE Decrement(w)
      BY <2>p, <3>1 DEF Decrement, Goto
    <3>2. CASE Check(w)
      BY <2>p, <3>2 DEF Check, Goto
    <3>3. CASE ReadCount(w)
      <4>1. Word(Target - acceptCount) \in 0 .. WordSize - 1
        BY WordRange, LevelsAssumption
      <4> QED BY <2>p, <3>3, <4>1 DEF ReadCount, Goto
    <3>4. CASE Post(w)
      BY <2>p, <3>4 DEF Post, PostAccept, Goto
    <3>5. CASE Increment(w)
      BY <2>p, <3>5 DEF Increment, Goto
    <3>6. CASE LoopEnd(w)
      BY <2>p, <3>6, WordAssumption, LevelsAssumption DEF LoopEnd, Goto
    <3> QED BY <2>7, <3>1, <3>2, <3>3, <3>4, <3>5, <3>6 DEF OnAccept
  <2>8. CASE UNCHANGED poolVars
    BY <2>p, <2>8 DEF vars, poolVars
  <2> QED BY <2>1, <2>2, <2>3, <2>4, <2>5, <2>6, <2>7, <2>8 DEF Next
<1> QED BY <1>1, <1>2, PTL DEF Spec

-----------------------------------------------------------------------------
(* The accounting of the counter is inductive with the types.               *)

IInv == TypeOK /\ Accounting

LEMMA AccountingInit == Init => Accounting
<1> SUFFICES ASSUME Init PROVE Accounting
  OBVIOUS
<1>1. Owing = {} /\ Uncounted = {}
  BY DEF Init, Owing, Uncounted
<1> QED BY <1>1, FS_EmptySet DEF Init, Accounting

\* No step of a worker, of the peers or of RunServer and StopServer breaks
\* the accounting.
LEMMA AccountingStep == IInv /\ [Next]_poolVars => Accounting'
<1> SUFFICES ASSUME IInv, [Next]_poolVars PROVE Accounting'
  OBVIOUS
<1> USE DEF IInv
<1>t. /\ Cardinality(Owing) \in Nat /\ Cardinality(Uncounted) \in Nat
      /\ acceptCount \in Int /\ posted \in Nat /\ stranded \in Nat
  <2>1. IsFiniteSet(Owing) /\ IsFiniteSet(Uncounted)
    BY WorkersAssumption, FS_Subset DEF Owing, Uncounted
  <2> QED BY <2>1, FS_CardinalityType DEF TypeOK
<1>u. ASSUME pc' = pc PROVE Owing' = Owing /\ Uncounted' = Uncounted
  BY <1>u DEF Owing, Uncounted
<1>1. CASE RunServer
  BY <1>1, <1>t, <1>u DEF RunServer, PostAccept, Accounting
<1>2. CASE StopServer
  BY <1>2, <1>u DEF StopServer, Accounting
<1>3. CASE StopServerWaited
  BY <1>3, <1>t, <1>u DEF StopServerWaited, Accounting
<1>4. CASE Connect
  BY <1>4, <1>u DEF Connect, Accounting
<1>5. ASSUME NEW w \in Workers, Dispatch(w) PROVE Accounting'
  BY <1>5, <1>t, MoveCounts DEF Dispatch, Accounting
<1>6. ASSUME NEW w \in Workers, DispatchFailed(w) PROVE Accounting'
  BY <1>6, <1>t, <1>u DEF DispatchFailed, Accounting
<1>7. ASSUME NEW w \in Workers, OnAccept(w) PROVE Accounting'
  <2>1. CASE Decrement(w)
    BY <2>1, <1>t, MoveCounts DEF Decrement, Accounting
  <2>2. CASE Check(w)
    BY <2>2, <1>t, MoveCounts DEF Check, Accounting
  <2>3. CASE ReadCount(w)
    BY <2>3, <1>t, MoveCounts DEF ReadCount, Accounting
  <2>4. CASE Post(w)
    BY <2>4, <1>t, MoveCounts DEF Post, PostAccept, Accounting
  <2>5. CASE Increment(w)
    BY <2>5, <1>t, MoveCounts DEF Increment, Accounting
  <2>6. CASE LoopEnd(w)
    BY <2>6, <1>t, MoveCounts DEF LoopEnd, Accounting
  <2> QED BY <1>7, <2>1, <2>2, <2>3, <2>4, <2>5, <2>6 DEF OnAccept
<1>8. CASE UNCHANGED poolVars
  BY <1>8, <1>u DEF vars, poolVars, Accounting
<1> QED BY <1>1, <1>2, <1>3, <1>4, <1>5, <1>6, <1>7, <1>8 DEF Next, TypeOK

\* However the threads of the pool interleave, and whatever faults and Stop
\* do, the counter is the accepts in the kernel plus the stranded slots, up
\* to the workers between a post or a completion and their own update of it.
THEOREM CounterAccounts == Spec => []Accounting
<1>1. Init => Accounting
  BY AccountingInit
<1>2. TypeOK /\ Accounting /\ [Next]_poolVars => Accounting'
  BY AccountingStep DEF IInv
<1> QED BY <1>1, <1>2, TypeCorrect, PTL DEF Spec

\* The counter is below zero only by workers that are yet to count a post.
THEOREM CounterFloor == Spec => []CountFloor
<1>1. TypeOK /\ Accounting => CountFloor
  <2>1. IsFiniteSet(Owing) /\ IsFiniteSet(Uncounted)
    BY WorkersAssumption, FS_Subset DEF Owing, Uncounted
  <2>2. Cardinality(Owing) \in Nat /\ Cardinality(Uncounted) \in Nat
    BY <2>1, FS_CardinalityType
  <2> QED BY <2>2 DEF TypeOK, Accounting, CountFloor
<1> QED BY <1>1, TypeCorrect, CounterAccounts, PTL

-----------------------------------------------------------------------------
(* A pool of one thread, where no OnAccept overlaps another.                *)

\* Where the counter is at each label, for the pool's only worker.
SoloInv(w) ==
  /\ pc[w] # "idle" => accepted > 0
  /\ pc[w] = "idle" /\ server \in {"running", "stopping"} =>
       acceptCount \in IF accepted > 0 THEN Low + 1 .. Target ELSE {1}
  /\ server = "new" => acceptCount = 0 /\ pc[w] = "idle" /\ posted = 0 /\ accepted = 0
  /\ server = "down" => pc[w] = "idle"
  /\ server \in {"new", "down"} => posted = 0
  /\ pc[w] = "decr"  => acceptCount \in 1 .. Target
  /\ pc[w] = "check" => acceptCount \in 0 .. Target - 1
  /\ pc[w] = "read"  => acceptCount \in 0 .. Low
  /\ pc[w] \in {"loop", "incr"} =>
       /\ acceptCount >= 0
       /\ acceptCount + uCount[w] - i[w] = Target
       /\ i[w] <= uCount[w]
       /\ pc[w] = "incr" => i[w] < uCount[w]

\* A load returns the counter itself when it fits the word.
LEMMA WordIdentity == \A n \in 0 .. Target : Word(n) = n
  BY WordAssumption, LevelsAssumption DEF Word

LEMMA SoloStep ==
  ASSUME NEW w \in Workers, pool = {w}, TypeOK, SoloInv(w), [Next]_poolVars
  PROVE  SoloInv(w)'
<1> USE LevelsAssumption DEF SoloInv, TypeOK
<1>1. CASE RunServer
  BY <1>1 DEF RunServer
<1>2. CASE StopServer
  BY <1>2 DEF StopServer
<1>3. CASE StopServerWaited
  BY <1>3 DEF StopServerWaited
<1>4. CASE Connect
  BY <1>4 DEF Connect
<1>5. CASE Dispatch(w)
  BY <1>5 DEF Dispatch, Goto
<1>6. CASE DispatchFailed(w)
  BY <1>6 DEF DispatchFailed
<1>7. CASE OnAccept(w)
  <2>1. CASE Decrement(w)
    BY <2>1 DEF Decrement, Goto
  <2>2. CASE Check(w)
    BY <2>2, WordIdentity DEF Check, Goto
  <2>3. CASE ReadCount(w)
    BY <2>3, WordIdentity DEF ReadCount, Goto
  <2>4. CASE Post(w)
    BY <2>4 DEF Post, PostAccept, Goto
  <2>5. CASE Increment(w)
    BY <2>5 DEF Increment, Goto
  <2>6. CASE LoopEnd(w)
    BY <2>6 DEF LoopEnd, Goto
  <2> QED BY <1>7, <2>1, <2>2, <2>3, <2>4, <2>5, <2>6 DEF OnAccept
<1>8. CASE UNCHANGED poolVars
  BY <1>8 DEF vars, poolVars
<1> QED BY <1>1, <1>2, <1>3, <1>4, <1>5, <1>6, <1>7, <1>8 DEF Next

\* Only a thread that the pool has leaves "idle".
LEMMA OthersIdle ==
  ASSUME NEW w \in Workers, pool = {w}, TypeOK, [Next]_poolVars,
         \A u \in Workers \ {w} : pc[u] = "idle"
  PROVE  \A u \in Workers \ {w} : pc'[u] = "idle"
<1>1. CASE RunServer \/ StopServer \/ StopServerWaited \/ Connect \/ UNCHANGED poolVars
  BY <1>1 DEF RunServer, StopServer, StopServerWaited, Connect, vars, poolVars
<1>2. CASE Dispatch(w) \/ DispatchFailed(w)
  BY <1>2 DEF Dispatch, DispatchFailed, Goto, TypeOK
<1>3. CASE OnAccept(w)
  BY <1>3 DEF OnAccept, Decrement, Check, ReadCount, Post, Increment, LoopEnd, Goto, TypeOK
<1> QED BY <1>1, <1>2, <1>3 DEF Next

AloneInv ==
  \A w \in Workers : pool = {w} => SoloInv(w) /\ \A u \in Workers \ {w} : pc[u] = "idle"

\* When the pool has one thread, so that completions are handled one at a time,
\* every OnAccept leaves it above the low mark and not above the target.
THEOREM SoloPoolFull == Spec => []QuietPoolFull
<1>1. Init => AloneInv
  BY DEF Init, SoloInv, AloneInv
<1>2. TypeOK /\ AloneInv /\ [Next]_poolVars => AloneInv'
  <2> SUFFICES ASSUME TypeOK, AloneInv, [Next]_poolVars, NEW w \in Workers, pool' = {w}
               PROVE  SoloInv(w)' /\ \A u \in Workers \ {w} : pc'[u] = "idle"
    BY DEF AloneInv
  <2>1. pool = {w}
    BY DEF Next, poolVars
  <2> QED BY <2>1, SoloStep, OthersIdle DEF AloneInv
<1>3. AloneInv => QuietPoolFull
  BY DEF AloneInv, SoloInv, QuietPoolFull, Quiet, Alone
<1> QED BY <1>1, <1>2, <1>3, TypeCorrect, PTL DEF Spec

HIDE DEF Labels

-----------------------------------------------------------------------------
(* SystemCalls.  A function is annotated with what is open before each of  *)
(* its calls (its places); each call is shown to go from its place to the  *)
(* next, and to where it goes when it fails.                               *)

\* What a thread holds before a call of a function: at least `must` and at most
\* `can` is open, and `left` is deferred.
Place(must, can, left) == [must |-> must, can |-> can, left |-> left]
Holds(rs) == Place(rs, rs, <<>>)
HoldsOr(rs, r) == Place(rs, rs \cup {r}, <<>>)
Left(rs, left) == Place(rs, rs, left)
AllLeft(left) == Place(Range(left), Range(left), left)

None == Holds({})
File == Holds({"file"})
FileMemory == Holds({"file", "memory"})
Memory == Holds({"memory"})
MemoryLeft == AllLeft(<<"memory">>)
Buffer == Holds({"buffer"})
MayBuffer == HoldsOr({}, "buffer")
Clipboard == Holds({"clipboard"})
ClipboardMemory == Holds({"clipboard", "memory"})
ClipboardMay == HoldsOr({"clipboard"}, "memory")
MayMemory == HoldsOr({}, "memory")
Process == Holds({"process"})
ProcessBuffer == Holds({"process", "buffer"})
ProcessMay == HoldsOr({"process"}, "buffer")
ProcessThread == Holds({"process", "thread"})
OnlyThread == Holds({"thread"})
Snapshot == Holds({"snapshot"})
Device == Holds({"device"})
DeviceLeft == AllLeft(<<"device">>)
Disk == Holds({"disk"})
DiskLeft == AllLeft(<<"disk">>)
DiskDescriptor == Holds({"disk", "descriptor"})
DescriptorLeft == Left({"disk", "descriptor"}, <<"descriptor">>)
BothLeft == AllLeft(<<"disk", "descriptor">>)
WindowDC == Holds({"windowDC"})
WindowLeft == AllLeft(<<"windowDC">>)
MemoryDC == Left({"windowDC", "memoryDC"}, <<"windowDC">>)
DCsLeft == AllLeft(<<"memoryDC", "windowDC">>)
Bitmap == Left({"windowDC", "memoryDC", "bitmap"}, <<"memoryDC", "windowDC">>)
BitmapLeft == AllLeft(<<"bitmap", "memoryDC", "windowDC">>)
Dib == Left({"windowDC", "memoryDC", "bitmap", "dib"}, <<"bitmap", "memoryDC", "windowDC">>)
DibLeft == AllLeft(<<"dib", "bitmap", "memoryDC", "windowDC">>)

ShortPlaces == <<None, File, File, None>>
ReadPlaces == <<None, File, File, File, File, None>>
UnicodePlaces == <<None, None, File, File, None, File, File, File, None>>

FilePlaces == <<None, File, None>>
AsciiPlaces == <<None, None, File, None, File, File, File, None>>
ContentPlaces == <<None, File, File, FileMemory, FileMemory, Memory, None>>
PEPlaces == <<None, File, File, FileMemory, FileMemory, Memory, MemoryLeft, MemoryLeft, MemoryLeft>>
ConvertPlaces == <<None, Buffer, Buffer, None>>
FormatPlaces == <<None, None, Buffer, MayBuffer, None>>
ClipboardPlaces == <<None, Clipboard, ClipboardMemory, ClipboardMay, MayMemory>>
TerminatePlaces == <<None, Process, Process, None>>
VecPlaces == <<None, Snapshot, Snapshot, Snapshot, Snapshot, None>>
ThreadIdPlaces == <<None, Snapshot, Snapshot, None>>
CpuPlaces == <<None, Process, Process>>
WorkSetPlaces == <<None, Process, Process, Process, ProcessBuffer, ProcessMay, Process>>
CreatePlaces == <<None, None, None, ProcessThread, ProcessThread, None, ProcessThread, OnlyThread>>
NumberPlaces == <<None, Device, DeviceLeft, DeviceLeft>>
IdentifyPlaces == <<None, Device, DeviceLeft, DeviceLeft, None, Disk, DiskLeft, DiskLeft, DiskLeft, DiskLeft>>
UsbPlaces == <<None, None, Disk, DiskDescriptor, DescriptorLeft, BothLeft, BothLeft>>
SerialPlaces == [k \in 1 .. 6 + 2 * nSatTypes |-> IF k <= 2 THEN None ELSE Disk]
ContentOfScreenPlaces ==
  <<None, None, WindowDC, WindowLeft, MemoryDC, DCsLeft, Bitmap, BitmapLeft, BitmapLeft, Dib,
    DibLeft, DibLeft, DibLeft, DibLeft>>
ScreenshotPlaces ==
  <<None, None, WindowDC, WindowLeft, MemoryDC, DCsLeft, Bitmap, BitmapLeft, BitmapLeft, Dib,
    DibLeft, DibLeft, DibLeft, DibLeft, None, File, File, None>>

\* The places of every function.
Places == [
  ReadUnicodeFile |-> ReadPlaces, ReadASCIIFile |-> ReadPlaces, WriteUnicodeFile |-> UnicodePlaces,
  WriteASCIIFile |-> AsciiPlaces, WriteFile |-> ShortPlaces, AppendFile |-> ShortPlaces,
  AppendUnicodeFile |-> UnicodePlaces, CreateUnicodeTextFile |-> ShortPlaces, CreateASCIITextFile |-> FilePlaces,
  ClearFileContent |-> FilePlaces, ReadFileContent |-> ContentPlaces, ReadAsciiFileLen |-> ShortPlaces, LoadPE |-> PEPlaces,
  Convert |-> ConvertPlaces, MakeFormatText |-> FormatPlaces, CopyTextToClipboard |-> ClipboardPlaces,
  TerminateProcByPid |-> TerminatePlaces, GetVecProcess |-> VecPlaces, GetMainThreadId |-> ThreadIdPlaces,
  GetCpuUsageByPid |-> CpuPlaces, CalcWorkSetPrivate |-> WorkSetPlaces, CreateProc |-> CreatePlaces,
  GetPhysicalDiskNumber |-> NumberPlaces, GetDiskSerialNumber_ByIdentify |-> IdentifyPlaces,
  IsUsbDiver |-> UsbPlaces, GetDiskSerailNumber_BySCSI |-> SerialPlaces,
  GetScreenShotContent |-> ContentOfScreenPlaces, Screenshot |-> ScreenshotPlaces ]

Made == {"memoryDC", "bitmap"}

\* Released in turn, nothing is released twice, and the window's DC is released
\* after what was made from it.
InTurn(d) ==
  \A h \in DOMAIN d :
    /\ \A j \in DOMAIN d : d[h] = d[j] => h = j
    /\ d[h] \in Made => \E j \in DOMAIN d : j > h /\ d[j] = "windowDC"

\* Whatever holds at a place holds at another.
Goes(a, b) == b.must \subseteq a.must /\ a.can \subseteq b.can /\ a.left = b.left
Plus(a, rs) == Place(a.must \cup rs, a.can \cup rs, a.left)
Minus(a, rs) == Place(a.must \ rs, a.can \ rs, a.left)

\* A function that is left at a place keeps no more than it says.
Ends(a, kept) == Range(a.left) \subseteq a.must /\ a.can \ Range(a.left) \subseteq kept

Ops ==
  {"open", "unchecked", "try", "ask", "use", "may", "throws", "new", "close", "closeif", "defer", "leave", "give", "maygive",
   "path", "exit"}

\* A call goes with the place before it, the place after it, and the one where it
\* goes, by number, when it fails or its condition does not hold.
Follows(fn, k, here, call, next, m, away) ==
  LET rs == Range(call.res)
  IN  /\ call.op \in Ops /\ call.skip \in Nat /\ m = IF call.op = "may" THEN k + 1 + call.skip ELSE k + call.skip
      /\ call.op = "path" <=> fn \in Statics /\ k = 1
      /\ call.op = "unchecked" <=> fn \in Statics /\ k = 2
      /\ call.op \in {"try", "ask", "use", "close", "give", "maygive", "defer"} => rs \subseteq here.must
      /\ call.op \in {"open", "new", "unchecked"} => rs \cap here.can = {} /\ Goes(Plus(here, rs), next)
      /\ call.op = "unchecked" => rs = {"disk"}
      /\ call.op \in {"open", "try", "ask"} =>
           IF call.skip = 0 THEN Ends(Minus(here, Range(call.on)), Keeps(fn, "fail"))
           ELSE Goes(Minus(here, Range(call.on)), away)
      /\ call.op \in {"new", "throws"} => Ends(here, Keeps(fn, "throw"))
      /\ call.op = "ask" => Ends(here, Keeps(fn, "found"))
      /\ call.op = "exit" => Ends(here, Keeps(fn, "done"))
      /\ call.op \in {"path", "try", "ask", "may", "throws", "use", "maygive"} => Goes(here, next)
      /\ call.op = "may" => Goes(here, away)
      /\ call.op \in {"close", "closeif", "give", "maygive"} => Goes(Minus(here, rs), next)
      /\ call.op = "defer" => call.res = <<call.res[1]>> /\ Goes(Place(here.must, here.can, call.res \o here.left), next)
      /\ call.op = "leave" => here.must = Range(here.left) /\ here.can = Range(here.left) /\ Goes(None, next)

PlaceFits(a) == InTurn(a.left) /\ (a.can \cap Made # {} => "windowDC" \in a.must)

\* A sequence of calls goes with its places.
Walk(fn, c, p) ==
  LET n == Len(c)
  IN  /\ n \in Nat /\ DOMAIN c = 1 .. n /\ DOMAIN p = 1 .. n + 1 /\ (fn \in Statics => n >= 2)
      /\ p[1] = None /\ Ends(p[n + 1], Keeps(fn, "done"))
      /\ \A k \in 1 .. n + 1 : PlaceFits(p[k])
      /\ \A k \in 1 .. n : \E m \in 1 .. n + 1 : Follows(fn, k, p[k], c[k], p[k + 1], m, p[m])

\* The first two calls of the functions with a static path are others.
Later(fn, k) == fn \notin Statics \/ k > 2

USE DEF Follows, Later, PlaceFits, InTurn, Made, Goes, Plus, Minus, Ends, Ops, Range, Place, Holds, HoldsOr, Left,
        AllLeft, Step, Open, OpenOr, OpenOrSkip, OpenBoth, OpenUnchecked, Try, TryOr, Ask, Use, May, Throws,
        New, Close, CloseIfHeld, Defer, Leave, Give, MayGive, SetPath, Exit, None, File, FileMemory, Memory,
        MemoryLeft, Buffer, MayBuffer, Clipboard, ClipboardMemory, ClipboardMay, MayMemory, Process,
        ProcessBuffer, ProcessMay, ProcessThread, OnlyThread, Snapshot, Device, DeviceLeft, Disk, DiskLeft,
        DiskDescriptor, DescriptorLeft, BothLeft, WindowDC, WindowLeft, MemoryDC, DCsLeft, Bitmap, BitmapLeft,
        Dib, DibLeft

LEMMA RangeOf ==
  /\ Range(<<>>) = {}
  /\ \A a : Range(<<a>>) = {a}
  /\ \A a, b : Range(<<a, b>>) = {a, b}
  /\ \A a, b, c : Range(<<a, b, c>>) = {a, b, c}
  /\ \A a, b, c, d : Range(<<a, b, c, d>>) = {a, b, c, d}
  OBVIOUS

\* A destructor is set before the others.
LEMMA Prepended ==
  /\ \A a, b : <<a>> \o <<b>> = <<a, b>>
  /\ \A a, b, c : <<a>> \o <<b, c>> = <<a, b, c>>
  /\ \A a, b, c, d : <<a>> \o <<b, c, d>> = <<a, b, c, d>>
<1>1. \A a, b : <<a>> \o <<b>> = <<a, b>>
  <2> TAKE a, b
  <2> DEFINE S == {a, b}
  <2>1. <<a>> \in Seq(S) /\ <<b>> \in Seq(S) /\ <<a, b>> \in Seq(S)
    OBVIOUS
  <2> HIDE DEF S
  <2>2. <<a>> \o <<b>> \in Seq(S) /\ Len(<<a>> \o <<b>>) = 2
    BY <2>1
  <2>3. \A h \in 1 .. 2 : (<<a>> \o <<b>>)[h] = <<a, b>>[h]
    BY <2>1
  <2> QED
    BY <2>1, <2>2, <2>3, SeqEqual
<1>2. \A a, b, c : <<a>> \o <<b, c>> = <<a, b, c>>
  <2> TAKE a, b, c
  <2> DEFINE S == {a, b, c}
  <2>1. <<a>> \in Seq(S) /\ <<b, c>> \in Seq(S) /\ <<a, b, c>> \in Seq(S)
    OBVIOUS
  <2> HIDE DEF S
  <2>2. <<a>> \o <<b, c>> \in Seq(S) /\ Len(<<a>> \o <<b, c>>) = 3
    BY <2>1
  <2>3. \A h \in 1 .. 3 : (<<a>> \o <<b, c>>)[h] = <<a, b, c>>[h]
    BY <2>1
  <2> QED
    BY <2>1, <2>2, <2>3, SeqEqual
<1>3. \A a, b, c, d : <<a>> \o <<b, c, d>> = <<a, b, c, d>>
  <2> TAKE a, b, c, d
  <2> DEFINE S == {a, b, c, d}
  <2>1. <<a>> \in Seq(S) /\ <<b, c, d>> \in Seq(S) /\ <<a, b, c, d>> \in Seq(S)
    OBVIOUS
  <2> HIDE DEF S
  <2>2. <<a>> \o <<b, c, d>> \in Seq(S) /\ Len(<<a>> \o <<b, c, d>>) = 4
    BY <2>1
  <2>3. \A h \in 1 .. 4 : (<<a>> \o <<b, c, d>>)[h] = <<a, b, c, d>>[h]
    BY <2>1
  <2> QED
    BY <2>1, <2>2, <2>3, SeqEqual
<1> HIDE DEF Follows
<1> QED
  BY <1>1, <1>2, <1>3

\* Files that are opened, and closed again.
LEMMA FileFollows ==
  ASSUME NEW fn, NEW k \in Nat, Later(fn, k)
  PROVE  /\ Follows(fn, k, None, Open("file"), File, k, None)
         /\ Follows(fn, k, File, Close("file"), None, k, File)
         /\ (\A m : m = k + 2 => Follows(fn, k, None, OpenOrSkip("file", 2), File, m, None))
         /\ (\A m : m = k + 3 => Follows(fn, k, None, May(2), None, m, None))
         /\ (\A m : m = k + 4 => Follows(fn, k, None, May(3), None, m, None))
         /\ Follows(fn, k, File, Use(<<"file">>), File, k, File)
         /\ {"file"} \subseteq Keeps(fn, "throw") => Follows(fn, k, File, Throws, File, k, File)
<1>1. Follows(fn, k, None, Open("file"), File, k, None)
  OBVIOUS
<1>2. Follows(fn, k, File, Close("file"), None, k, File)
  OBVIOUS
<1>3. \A m : m = k + 2 => Follows(fn, k, None, OpenOrSkip("file", 2), File, m, None)
  OBVIOUS
<1>4. \A m : m = k + 3 => Follows(fn, k, None, May(2), None, m, None)
  OBVIOUS
<1>5. \A m : m = k + 4 => Follows(fn, k, None, May(3), None, m, None)
  OBVIOUS
<1>6. Follows(fn, k, File, Use(<<"file">>), File, k, File)
  OBVIOUS
<1>7. {"file"} \subseteq Keeps(fn, "throw") => Follows(fn, k, File, Throws, File, k, File)
  OBVIOUS
<1> HIDE DEF Follows
<1> QED
  BY <1>1, <1>2, <1>3, <1>4, <1>5, <1>6, <1>7

\* The content of a file, in memory.
LEMMA ContentFollows ==
  ASSUME NEW fn, NEW k \in Nat, Later(fn, k)
  PROVE  /\ Follows(fn, k, File, TryOr(<<"file">>, <<"file">>), File, k, File)
         /\ Follows(fn, k, File, OpenOr("memory", <<"file">>), FileMemory, k, File)
         /\ Follows(fn, k, FileMemory, TryOr(<<"file">>, <<"memory", "file">>), FileMemory, k, FileMemory)
         /\ Follows(fn, k, FileMemory, Close("file"), Memory, k, FileMemory)
         /\ Follows(fn, k, Memory, Give(<<"memory">>), None, k, Memory)
         /\ Follows(fn, k, Memory, Defer("memory"), MemoryLeft, k, Memory)
         /\ Follows(fn, k, MemoryLeft, Try(<<"memory">>), MemoryLeft, k, MemoryLeft)
         /\ Follows(fn, k, MemoryLeft, Use(<<"memory">>), MemoryLeft, k, MemoryLeft)
<1>1. Follows(fn, k, File, TryOr(<<"file">>, <<"file">>), File, k, File)
  OBVIOUS
<1>2. Follows(fn, k, File, OpenOr("memory", <<"file">>), FileMemory, k, File)
  OBVIOUS
<1>3. Follows(fn, k, FileMemory, TryOr(<<"file">>, <<"memory", "file">>), FileMemory, k, FileMemory)
  OBVIOUS
<1>4. Follows(fn, k, FileMemory, Close("file"), Memory, k, FileMemory)
  OBVIOUS
<1>5. Follows(fn, k, Memory, Give(<<"memory">>), None, k, Memory)
  OBVIOUS
<1>6. Follows(fn, k, Memory, Defer("memory"), MemoryLeft, k, Memory)
  OBVIOUS
<1>7. Follows(fn, k, MemoryLeft, Try(<<"memory">>), MemoryLeft, k, MemoryLeft)
  OBVIOUS
<1>8. Follows(fn, k, MemoryLeft, Use(<<"memory">>), MemoryLeft, k, MemoryLeft)
  OBVIOUS
<1> HIDE DEF Follows
<1> QED
  BY <1>1, <1>2, <1>3, <1>4, <1>5, <1>6, <1>7, <1>8

\* Buffers of the conversions, which an exception keeps.
LEMMA BufferFollows ==
  ASSUME NEW fn, NEW k \in Nat, Later(fn, k),
         {"buffer"} \subseteq Keeps(fn, "throw")
  PROVE  /\ Follows(fn, k, None, New("buffer"), Buffer, k, None)
         /\ Follows(fn, k, Buffer, Throws, Buffer, k, Buffer)
         /\ Follows(fn, k, Buffer, Throws, MayBuffer, k, Buffer)
         /\ Follows(fn, k, Buffer, Close("buffer"), None, k, Buffer)
         /\ Follows(fn, k, MayBuffer, CloseIfHeld("buffer"), None, k, MayBuffer)
         /\ Follows(fn, k, None, May(2), None, k + 3, MayBuffer)
<1>1. Follows(fn, k, None, New("buffer"), Buffer, k, None)
  OBVIOUS
<1>2. Follows(fn, k, Buffer, Throws, Buffer, k, Buffer)
  OBVIOUS
<1>3. Follows(fn, k, Buffer, Throws, MayBuffer, k, Buffer)
  OBVIOUS
<1>4. Follows(fn, k, Buffer, Close("buffer"), None, k, Buffer)
  OBVIOUS
<1>5. Follows(fn, k, MayBuffer, CloseIfHeld("buffer"), None, k, MayBuffer)
  OBVIOUS
<1>6. Follows(fn, k, None, May(2), None, k + 3, MayBuffer)
  OBVIOUS
<1> HIDE DEF Follows
<1> QED
  BY <1>1, <1>2, <1>3, <1>4, <1>5, <1>6

\* The clipboard, and the memory it may get.
LEMMA ClipboardFollows ==
  ASSUME NEW fn, NEW k \in Nat, Later(fn, k)
  PROVE  /\ Follows(fn, k, None, Open("clipboard"), Clipboard, k, None)
         /\ Follows(fn, k, Clipboard, OpenOr("memory", <<"clipboard">>), ClipboardMemory, k, Clipboard)
         /\ Follows(fn, k, ClipboardMemory, MayGive("memory"), ClipboardMay, k, ClipboardMemory)
         /\ Follows(fn, k, ClipboardMay, Close("clipboard"), MayMemory, k, ClipboardMay)
<1>1. Follows(fn, k, None, Open("clipboard"), Clipboard, k, None)
  OBVIOUS
<1>2. Follows(fn, k, Clipboard, OpenOr("memory", <<"clipboard">>), ClipboardMemory, k, Clipboard)
  OBVIOUS
<1>3. Follows(fn, k, ClipboardMemory, MayGive("memory"), ClipboardMay, k, ClipboardMemory)
  OBVIOUS
<1>4. Follows(fn, k, ClipboardMay, Close("clipboard"), MayMemory, k, ClipboardMay)
  OBVIOUS
<1> HIDE DEF Follows
<1> QED
  BY <1>1, <1>2, <1>3, <1>4

\* Processes, and snapshots of them.
LEMMA ProcessFollows ==
  ASSUME NEW fn, NEW k \in Nat, Later(fn, k)
  PROVE  /\ Follows(fn, k, None, Open("process"), Process, k, None)
         /\ Follows(fn, k, Process, Use(<<"process">>), Process, k, Process)
         /\ Follows(fn, k, Process, Close("process"), None, k, Process)
         /\ Follows(fn, k, None, Open("snapshot"), Snapshot, k, None)
         /\ Follows(fn, k, Snapshot, TryOr(<<"snapshot">>, <<"snapshot">>), Snapshot, k, Snapshot)
         /\ Follows(fn, k, Snapshot, Use(<<"snapshot">>), Snapshot, k, Snapshot)
         /\ Follows(fn, k, Snapshot, Close("snapshot"), None, k, Snapshot)
         /\ {"snapshot"} \subseteq Keeps(fn, "throw") => Follows(fn, k, Snapshot, Throws, Snapshot, k, Snapshot)
<1>1. Follows(fn, k, None, Open("process"), Process, k, None)
  OBVIOUS
<1>2. Follows(fn, k, Process, Use(<<"process">>), Process, k, Process)
  OBVIOUS
<1>3. Follows(fn, k, Process, Close("process"), None, k, Process)
  OBVIOUS
<1>4. Follows(fn, k, None, Open("snapshot"), Snapshot, k, None)
  OBVIOUS
<1>5. Follows(fn, k, Snapshot, TryOr(<<"snapshot">>, <<"snapshot">>), Snapshot, k, Snapshot)
  OBVIOUS
<1>6. Follows(fn, k, Snapshot, Use(<<"snapshot">>), Snapshot, k, Snapshot)
  OBVIOUS
<1>7. Follows(fn, k, Snapshot, Close("snapshot"), None, k, Snapshot)
  OBVIOUS
<1>8. {"snapshot"} \subseteq Keeps(fn, "throw") => Follows(fn, k, Snapshot, Throws, Snapshot, k, Snapshot)
  OBVIOUS
<1> HIDE DEF Follows
<1> QED
  BY <1>1, <1>2, <1>3, <1>4, <1>5, <1>6, <1>7, <1>8

\* Processes that are kept.
LEMMA KeptFollows ==
  ASSUME NEW fn, NEW k \in Nat, Later(fn, k),
         {"process"} \subseteq Keeps(fn, "fail")
  PROVE  /\ Follows(fn, k, None, Open("process"), Process, k, None)
         /\ Follows(fn, k, Process, Try(<<"process">>), Process, k, Process)
         /\ Follows(fn, k, Process, May(3), Process, k + 4, ProcessMay)
         /\ Follows(fn, k, Process, Open("buffer"), ProcessBuffer, k, Process)
         /\ Follows(fn, k, ProcessBuffer, TryOr(<<"process">>, <<"buffer">>), ProcessMay, k, ProcessBuffer)
         /\ Follows(fn, k, ProcessMay, CloseIfHeld("buffer"), Process, k, ProcessMay)
<1>1. Follows(fn, k, None, Open("process"), Process, k, None)
  OBVIOUS
<1>2. Follows(fn, k, Process, Try(<<"process">>), Process, k, Process)
  OBVIOUS
<1>3. Follows(fn, k, Process, May(3), Process, k + 4, ProcessMay)
  OBVIOUS
<1>4. Follows(fn, k, Process, Open("buffer"), ProcessBuffer, k, Process)
  OBVIOUS
<1>5. Follows(fn, k, ProcessBuffer, TryOr(<<"process">>, <<"buffer">>), ProcessMay, k, ProcessBuffer)
  OBVIOUS
<1>6. Follows(fn, k, ProcessMay, CloseIfHeld("buffer"), Process, k, ProcessMay)
  OBVIOUS
<1> HIDE DEF Follows
<1> QED
  BY <1>1, <1>2, <1>3, <1>4, <1>5, <1>6

\* A process that is created, and its thread, which is kept or given away.
LEMMA CreateFollows ==
  ASSUME NEW fn, NEW k \in Nat, Later(fn, k)
  PROVE  /\ Follows(fn, k, None, Throws, None, k, None)
         /\ Follows(fn, k, None, Try(<<>>), None, k, None)
         /\ Follows(fn, k, None, OpenBoth("process", "thread"), ProcessThread, k, None)
         /\ (\A m : m = k + 3 => Follows(fn, k, ProcessThread, May(2), ProcessThread, m, ProcessThread))
         /\ Follows(fn, k, ProcessThread, Give(<<"process", "thread">>), None, k, ProcessThread)
         /\ Follows(fn, k, None, Exit, ProcessThread, k, None)
         /\ Follows(fn, k, ProcessThread, Close("process"), OnlyThread, k, ProcessThread)
<1>1. Follows(fn, k, None, Throws, None, k, None)
  OBVIOUS
<1>2. Follows(fn, k, None, Try(<<>>), None, k, None)
  OBVIOUS
<1>3. Follows(fn, k, None, OpenBoth("process", "thread"), ProcessThread, k, None)
  OBVIOUS
<1>4. \A m : m = k + 3 => Follows(fn, k, ProcessThread, May(2), ProcessThread, m, ProcessThread)
  OBVIOUS
<1>5. Follows(fn, k, ProcessThread, Give(<<"process", "thread">>), None, k, ProcessThread)
  OBVIOUS
<1>6. Follows(fn, k, None, Exit, ProcessThread, k, None)
  OBVIOUS
<1>7. Follows(fn, k, ProcessThread, Close("process"), OnlyThread, k, ProcessThread)
  OBVIOUS
<1> HIDE DEF Follows
<1> QED
  BY <1>1, <1>2, <1>3, <1>4, <1>5, <1>6, <1>7

\* Devices and disks, which destructors close.
LEMMA DiskFollows ==
  ASSUME NEW fn, NEW k \in Nat, Later(fn, k)
  PROVE  /\ Follows(fn, k, None, Open("device"), Device, k, None)
         /\ Follows(fn, k, Device, Defer("device"), DeviceLeft, k, Device)
         /\ Follows(fn, k, DeviceLeft, Try(<<"device">>), DeviceLeft, k, DeviceLeft)
         /\ Follows(fn, k, DeviceLeft, Leave, None, k, DeviceLeft)
         /\ Follows(fn, k, None, Open("disk"), Disk, k, None)
         /\ Follows(fn, k, Disk, Defer("disk"), DiskLeft, k, Disk)
         /\ Follows(fn, k, DiskLeft, Try(<<"disk">>), DiskLeft, k, DiskLeft)
         /\ Follows(fn, k, DiskLeft, Throws, DiskLeft, k, DiskLeft)
<1>1. Follows(fn, k, None, Open("device"), Device, k, None)
  OBVIOUS
<1>2. Follows(fn, k, Device, Defer("device"), DeviceLeft, k, Device)
  OBVIOUS
<1>3. Follows(fn, k, DeviceLeft, Try(<<"device">>), DeviceLeft, k, DeviceLeft)
  OBVIOUS
<1>4. Follows(fn, k, DeviceLeft, Leave, None, k, DeviceLeft)
  OBVIOUS
<1>5. Follows(fn, k, None, Open("disk"), Disk, k, None)
  OBVIOUS
<1>6. Follows(fn, k, Disk, Defer("disk"), DiskLeft, k, Disk)
  OBVIOUS
<1>7. Follows(fn, k, DiskLeft, Try(<<"disk">>), DiskLeft, k, DiskLeft)
  OBVIOUS
<1>8. Follows(fn, k, DiskLeft, Throws, DiskLeft, k, DiskLeft)
  OBVIOUS
<1> HIDE DEF Follows
<1> QED
  BY <1>1, <1>2, <1>3, <1>4, <1>5, <1>6, <1>7, <1>8

\* The disk of a drive, and a descriptor.
LEMMA UsbFollows ==
  ASSUME NEW fn, NEW k \in Nat, Later(fn, k),
         {"disk"} \subseteq Keeps(fn, "throw")
  PROVE  /\ Follows(fn, k, Disk, New("descriptor"), DiskDescriptor, k, Disk)
         /\ Follows(fn, k, DiskDescriptor, Defer("descriptor"), DescriptorLeft, k, DiskDescriptor)
         /\ Follows(fn, k, DescriptorLeft, Defer("disk"), BothLeft, k, DescriptorLeft)
         /\ Follows(fn, k, BothLeft, Try(<<"disk">>), BothLeft, k, BothLeft)
<1>1. Follows(fn, k, Disk, New("descriptor"), DiskDescriptor, k, Disk)
  OBVIOUS
<1>2. Follows(fn, k, DiskDescriptor, Defer("descriptor"), DescriptorLeft, k, DiskDescriptor)
  OBVIOUS
<1>3. Follows(fn, k, DescriptorLeft, Defer("disk"), BothLeft, k, DescriptorLeft)
  <2>1. <<"disk">> \o <<"descriptor">> = <<"disk", "descriptor">>
    BY Prepended
  <2> QED
    BY <2>1, RangeOf
<1>4. Follows(fn, k, BothLeft, Try(<<"disk">>), BothLeft, k, BothLeft)
  BY SMTT(40)
<1> HIDE DEF Follows
<1> QED
  BY <1>1, <1>2, <1>3, <1>4

\* The path is written, and the drive opened.
LEMMA PathFollows ==
  ASSUME NEW fn \in Statics
  PROVE  Follows(fn, 1, None, SetPath, None, 1, None) /\ Follows(fn, 2, None, OpenUnchecked("disk"), Disk, 2, None)
<1>1. Follows(fn, 1, None, SetPath, None, 1, None)
  OBVIOUS
<1>2. Follows(fn, 2, None, OpenUnchecked("disk"), Disk, 2, None)
  OBVIOUS
<1> HIDE DEF Follows
<1> QED
  BY <1>1, <1>2

\* The disk is asked for its number, in one way or another.
LEMMA SerialFollows ==
  ASSUME NEW fn, NEW k \in Nat, Later(fn, k),
         {"disk"} \subseteq Keeps(fn, "fail"), {"disk"} \subseteq Keeps(fn, "found")
  PROVE  /\ Follows(fn, k, Disk, Try(<<"disk">>), Disk, k, Disk)
         /\ Follows(fn, k, Disk, Ask(<<"disk">>, 1), Disk, k + 1, Disk)
         /\ Follows(fn, k, Disk, Ask(<<"disk">>, 2), Disk, k + 2, Disk)
<1>1. Follows(fn, k, Disk, Try(<<"disk">>), Disk, k, Disk)
  OBVIOUS
<1>2. Follows(fn, k, Disk, Ask(<<"disk">>, 1), Disk, k + 1, Disk)
  OBVIOUS
<1>3. Follows(fn, k, Disk, Ask(<<"disk">>, 2), Disk, k + 2, Disk)
  OBVIOUS
<1> HIDE DEF Follows
<1> QED
  BY <1>1, <1>2, <1>3

\* Objects of a screenshot: each is left to a destructor before the next is made.
LEMMA GdiFollows ==
  ASSUME NEW fn, NEW k \in Nat, Later(fn, k)
  PROVE  /\ Follows(fn, k, None, Try(<<>>), None, k, None)
         /\ Follows(fn, k, None, Open("windowDC"), WindowDC, k, None)
         /\ Follows(fn, k, WindowDC, Defer("windowDC"), WindowLeft, k, WindowDC)
         /\ Follows(fn, k, WindowLeft, Open("memoryDC"), MemoryDC, k, WindowLeft)
         /\ Follows(fn, k, MemoryDC, Defer("memoryDC"), DCsLeft, k, MemoryDC)
         /\ Follows(fn, k, DCsLeft, Open("bitmap"), Bitmap, k, DCsLeft)
         /\ Follows(fn, k, Bitmap, Defer("bitmap"), BitmapLeft, k, Bitmap)
         /\ Follows(fn, k, BitmapLeft, Use(<<"windowDC", "memoryDC", "bitmap">>), BitmapLeft, k, BitmapLeft)
         /\ Follows(fn, k, BitmapLeft, Open("dib"), Dib, k, BitmapLeft)
         /\ Follows(fn, k, Dib, Defer("dib"), DibLeft, k, Dib)
         /\ Follows(fn, k, DibLeft, Try(<<"dib">>), DibLeft, k, DibLeft)
         /\ Follows(fn, k, DibLeft, Use(<<"memoryDC", "bitmap", "dib">>), DibLeft, k, DibLeft)
         /\ Follows(fn, k, DibLeft, Throws, DibLeft, k, DibLeft)
         /\ Follows(fn, k, DibLeft, Leave, None, k, DibLeft)
<1>1. Follows(fn, k, None, Try(<<>>), None, k, None)
  BY RangeOf
<1>2. Follows(fn, k, None, Open("windowDC"), WindowDC, k, None)
  BY RangeOf
<1>3. Follows(fn, k, WindowDC, Defer("windowDC"), WindowLeft, k, WindowDC)
  BY RangeOf
<1>4. Follows(fn, k, WindowLeft, Open("memoryDC"), MemoryDC, k, WindowLeft)
  BY RangeOf
<1>5. Follows(fn, k, MemoryDC, Defer("memoryDC"), DCsLeft, k, MemoryDC)
  <2>1. <<"memoryDC">> \o <<"windowDC">> = <<"memoryDC", "windowDC">>
    BY Prepended
  <2> QED
    BY <2>1, RangeOf
<1>6. Follows(fn, k, DCsLeft, Open("bitmap"), Bitmap, k, DCsLeft)
  BY RangeOf
<1>7. Follows(fn, k, Bitmap, Defer("bitmap"), BitmapLeft, k, Bitmap)
  <2>1. <<"bitmap">> \o <<"memoryDC", "windowDC">> = <<"bitmap", "memoryDC", "windowDC">>
    BY Prepended
  <2> QED
    BY <2>1, RangeOf
<1>8. Follows(fn, k, BitmapLeft, Use(<<"windowDC", "memoryDC", "bitmap">>), BitmapLeft, k, BitmapLeft)
  BY RangeOf, SMTT(40)
<1>9. Follows(fn, k, BitmapLeft, Open("dib"), Dib, k, BitmapLeft)
  BY RangeOf, SMTT(40)
<1>10. Follows(fn, k, Dib, Defer("dib"), DibLeft, k, Dib)
  <2>1. <<"dib">> \o <<"bitmap", "memoryDC", "windowDC">> = <<"dib", "bitmap", "memoryDC", "windowDC">>
    BY Prepended
  <2> QED
    BY <2>1, RangeOf
<1>11. Follows(fn, k, DibLeft, Try(<<"dib">>), DibLeft, k, DibLeft)
  BY RangeOf
<1>12. Follows(fn, k, DibLeft, Use(<<"memoryDC", "bitmap", "dib">>), DibLeft, k, DibLeft)
  BY RangeOf, SMTT(40)
<1>13. Follows(fn, k, DibLeft, Throws, DibLeft, k, DibLeft)
  BY RangeOf, SMTT(40)
<1>14. Follows(fn, k, DibLeft, Leave, None, k, DibLeft)
  BY RangeOf
<1> HIDE DEF Follows
<1> QED
  BY <1>1, <1>2, <1>3, <1>4, <1>5, <1>6, <1>7, <1>8, <1>9, <1>10, <1>11, <1>12, <1>13, <1>14

\* What is left to destructors goes in turn; the window's DC is open when
\* something made from it is.
LEMMA FitPlaces ==
  /\ PlaceFits(None) /\ PlaceFits(File) /\ PlaceFits(FileMemory) /\ PlaceFits(Memory)
  /\ PlaceFits(MemoryLeft) /\ PlaceFits(Buffer) /\ PlaceFits(MayBuffer) /\ PlaceFits(Clipboard)
  /\ PlaceFits(ClipboardMemory) /\ PlaceFits(ClipboardMay) /\ PlaceFits(MayMemory)
  /\ PlaceFits(Process) /\ PlaceFits(ProcessBuffer) /\ PlaceFits(ProcessMay) /\ PlaceFits(ProcessThread)
  /\ PlaceFits(OnlyThread) /\ PlaceFits(Snapshot) /\ PlaceFits(Device) /\ PlaceFits(DeviceLeft)
  /\ PlaceFits(Disk) /\ PlaceFits(DiskLeft) /\ PlaceFits(DiskDescriptor) /\ PlaceFits(DescriptorLeft)
  /\ PlaceFits(BothLeft)
  /\ PlaceFits(WindowDC) /\ PlaceFits(WindowLeft) /\ PlaceFits(MemoryDC) /\ PlaceFits(DCsLeft)
  /\ PlaceFits(Bitmap) /\ PlaceFits(BitmapLeft) /\ PlaceFits(Dib) /\ PlaceFits(DibLeft)
<1>1. PlaceFits(None) /\ PlaceFits(File) /\ PlaceFits(FileMemory) /\ PlaceFits(Memory)
  BY RangeOf
<1>2. PlaceFits(MemoryLeft) /\ PlaceFits(Buffer) /\ PlaceFits(MayBuffer) /\ PlaceFits(Clipboard)
  BY RangeOf
<1>3. PlaceFits(ClipboardMemory) /\ PlaceFits(ClipboardMay) /\ PlaceFits(MayMemory)
  BY RangeOf
<1>4. PlaceFits(Process) /\ PlaceFits(ProcessBuffer) /\ PlaceFits(ProcessMay) /\ PlaceFits(ProcessThread)
  BY RangeOf
<1>5. PlaceFits(OnlyThread) /\ PlaceFits(Snapshot) /\ PlaceFits(Device) /\ PlaceFits(DeviceLeft)
  BY RangeOf
<1>6. PlaceFits(Disk) /\ PlaceFits(DiskLeft) /\ PlaceFits(DiskDescriptor) /\ PlaceFits(DescriptorLeft)
  BY RangeOf
<1>7. PlaceFits(BothLeft)
  BY RangeOf
<1>8. PlaceFits(WindowDC) /\ PlaceFits(WindowLeft) /\ PlaceFits(MemoryDC) /\ PlaceFits(DCsLeft)
  BY RangeOf
<1>9. PlaceFits(Bitmap) /\ PlaceFits(BitmapLeft) /\ PlaceFits(Dib) /\ PlaceFits(DibLeft)
  BY RangeOf
<1> HIDE DEF Follows
<1> QED
  BY <1>1, <1>2, <1>3, <1>4, <1>5, <1>6, <1>7, <1>8, <1>9

\* Where a function may be left.
LEMMA EndsOf ==
  ASSUME NEW kept
  PROVE  /\ Ends(None, kept) /\ Ends(MemoryLeft, kept) /\ Ends(DeviceLeft, kept) /\ Ends(DiskLeft, kept)
         /\ Ends(BothLeft, kept) /\ Ends(DibLeft, kept)
         /\ {"memory"} \subseteq kept => Ends(MayMemory, kept)
         /\ {"process"} \subseteq kept => Ends(Process, kept)
         /\ {"thread"} \subseteq kept => Ends(OnlyThread, kept)
         /\ {"disk"} \subseteq kept => Ends(Disk, kept)
<1>1. Ends(None, kept) /\ Ends(MemoryLeft, kept) /\ Ends(DeviceLeft, kept) /\ Ends(DiskLeft, kept)
  BY RangeOf
<1>2. Ends(BothLeft, kept) /\ Ends(DibLeft, kept)
  BY RangeOf
<1>3. {"memory"} \subseteq kept => Ends(MayMemory, kept)
  BY RangeOf
<1>4. {"process"} \subseteq kept => Ends(Process, kept)
  BY RangeOf
<1>5. {"thread"} \subseteq kept => Ends(OnlyThread, kept)
  BY RangeOf
<1>6. {"disk"} \subseteq kept => Ends(Disk, kept)
  BY RangeOf
<1> HIDE DEF Follows
<1> QED
  BY <1>1, <1>2, <1>3, <1>4, <1>5, <1>6

HIDE DEF Follows, Later, PlaceFits, InTurn, Made, Goes, Plus, Minus, Ends, Ops, Range, Place, Holds, HoldsOr, Left,
        AllLeft, Step, Open, OpenOr, OpenOrSkip, OpenBoth, OpenUnchecked, Try, TryOr, Ask, Use, May, Throws,
        New, Close, CloseIfHeld, Defer, Leave, Give, MayGive, SetPath, Exit, None, File, FileMemory, Memory,
        MemoryLeft, Buffer, MayBuffer, Clipboard, ClipboardMemory, ClipboardMay, MayMemory, Process,
        ProcessBuffer, ProcessMay, ProcessThread, OnlyThread, Snapshot, Device, DeviceLeft, Disk, DiskLeft,
        DiskDescriptor, DescriptorLeft, BothLeft, WindowDC, WindowLeft, MemoryDC, DCsLeft, Bitmap, BitmapLeft,
        Dib, DibLeft

\* The files that are opened, used and closed.
LEMMA ShortWalk ==
  ASSUME NEW fn, fn \notin Statics
  PROVE  Walk(fn, WriteFile, ShortPlaces)
<1>1. /\ Len(WriteFile) = 3 /\ DOMAIN WriteFile = 1 .. 3 /\ WriteFile[1] = Open("file")
      /\ WriteFile[2] = Use(<<"file">>) /\ WriteFile[3] = Close("file")
  BY DEF WriteFile
<1>2. /\ DOMAIN ShortPlaces = 1 .. 4 /\ ShortPlaces[1] = None /\ ShortPlaces[2] = File /\ ShortPlaces[3] = File
      /\ ShortPlaces[4] = None
  BY DEF ShortPlaces
<1>3. \A k \in 1 .. 3 : \E m \in 1 .. 4 :
        Follows(fn, k, ShortPlaces[k], WriteFile[k], ShortPlaces[k + 1], m, ShortPlaces[m])
  BY <1>1, <1>2, FileFollows DEF Later
<1>4. Ends(ShortPlaces[4], Keeps(fn, "done")) /\ \A k \in 1 .. 4 : PlaceFits(ShortPlaces[k])
  BY <1>2, EndsOf, FitPlaces
<1> QED
  BY <1>1, <1>2, <1>3, <1>4 DEF Walk

\* The files that are read.
LEMMA ReadWalk ==
  ASSUME NEW fn, fn \notin Statics, {"file"} \subseteq Keeps(fn, "throw")
  PROVE  Walk(fn, ReadUnicodeFile, ReadPlaces)
<1>1. /\ Len(ReadUnicodeFile) = 5 /\ DOMAIN ReadUnicodeFile = 1 .. 5 /\ ReadUnicodeFile[1] = Open("file")
      /\ ReadUnicodeFile[2] = Throws /\ ReadUnicodeFile[3] = Use(<<"file">>) /\ ReadUnicodeFile[4] = Throws
      /\ ReadUnicodeFile[5] = Close("file")
  BY DEF ReadUnicodeFile
<1>2. /\ DOMAIN ReadPlaces = 1 .. 6 /\ ReadPlaces[1] = None /\ ReadPlaces[2] = File /\ ReadPlaces[3] = File
      /\ ReadPlaces[4] = File /\ ReadPlaces[5] = File /\ ReadPlaces[6] = None
  BY DEF ReadPlaces
<1>3. \A k \in 1 .. 5 : \E m \in 1 .. 6 :
        Follows(fn, k, ReadPlaces[k], ReadUnicodeFile[k], ReadPlaces[k + 1], m, ReadPlaces[m])
  BY <1>1, <1>2, FileFollows DEF Later
<1>4. Ends(ReadPlaces[6], Keeps(fn, "done")) /\ \A k \in 1 .. 6 : PlaceFits(ReadPlaces[k])
  BY <1>2, EndsOf, FitPlaces
<1> QED
  BY <1>1, <1>2, <1>3, <1>4 DEF Walk

\* The files that are created first when they are not there.
LEMMA UnicodeWalk ==
  ASSUME NEW fn, fn \notin Statics, {"file"} \subseteq Keeps(fn, "throw")
  PROVE  Walk(fn, WriteUnicodeFile, UnicodePlaces)
<1>1. /\ Len(WriteUnicodeFile) = 8 /\ DOMAIN WriteUnicodeFile = 1 .. 8 /\ WriteUnicodeFile[1] = May(3)
      /\ WriteUnicodeFile[2] = Open("file") /\ WriteUnicodeFile[3] = Use(<<"file">>)
      /\ WriteUnicodeFile[4] = Close("file") /\ WriteUnicodeFile[5] = Open("file")
      /\ WriteUnicodeFile[6] = Throws /\ WriteUnicodeFile[7] = Use(<<"file">>)
      /\ WriteUnicodeFile[8] = Close("file")
  BY DEF WriteUnicodeFile, CreateUnicodeTextFile
<1>2. /\ DOMAIN UnicodePlaces = 1 .. 9 /\ UnicodePlaces[1] = None /\ UnicodePlaces[2] = None
      /\ UnicodePlaces[3] = File /\ UnicodePlaces[4] = File /\ UnicodePlaces[5] = None
      /\ UnicodePlaces[6] = File /\ UnicodePlaces[7] = File /\ UnicodePlaces[8] = File
      /\ UnicodePlaces[9] = None
  BY DEF UnicodePlaces
<1>3. \A k \in 1 .. 8 : \E m \in 1 .. 9 :
        Follows(fn, k, UnicodePlaces[k], WriteUnicodeFile[k], UnicodePlaces[k + 1], m, UnicodePlaces[m])
  <2>1. Follows(fn, 1, None, May(3), None, 5, None)
    BY FileFollows, 5 = 1 + 4, 1 \in Nat DEF Later
  <2>2. Follows(fn, 2, None, Open("file"), File, 2, None)
    BY FileFollows DEF Later
  <2>3. Follows(fn, 3, File, Use(<<"file">>), File, 3, File)
    BY FileFollows DEF Later
  <2>4. Follows(fn, 4, File, Close("file"), None, 4, File)
    BY FileFollows DEF Later
  <2>5. Follows(fn, 5, None, Open("file"), File, 5, None)
    BY FileFollows DEF Later
  <2>6. Follows(fn, 6, File, Throws, File, 6, File)
    BY FileFollows DEF Later
  <2>7. Follows(fn, 7, File, Use(<<"file">>), File, 7, File)
    BY FileFollows DEF Later
  <2>8. Follows(fn, 8, File, Close("file"), None, 8, File)
    BY FileFollows DEF Later
  <2> QED
    BY <1>1, <1>2, <2>1, <2>2, <2>3, <2>4, <2>5, <2>6, <2>7, <2>8
<1>4. Ends(UnicodePlaces[9], Keeps(fn, "done")) /\ \A k \in 1 .. 9 : PlaceFits(UnicodePlaces[k])
  BY <1>2, EndsOf, FitPlaces
<1> QED
  BY <1>1, <1>2, <1>3, <1>4 DEF Walk

\* The same, with no mark of the order of bytes.
LEMMA AsciiWalk ==
  ASSUME NEW fn, fn \notin Statics, {"file"} \subseteq Keeps(fn, "throw")
  PROVE  Walk(fn, WriteASCIIFile, AsciiPlaces)
<1>1. /\ Len(WriteASCIIFile) = 7 /\ DOMAIN WriteASCIIFile = 1 .. 7 /\ WriteASCIIFile[1] = May(2)
      /\ WriteASCIIFile[2] = Open("file") /\ WriteASCIIFile[3] = Close("file")
      /\ WriteASCIIFile[4] = Open("file") /\ WriteASCIIFile[5] = Throws /\ WriteASCIIFile[6] = Use(<<"file">>)
      /\ WriteASCIIFile[7] = Close("file")
  BY DEF WriteASCIIFile, CreateASCIITextFile
<1>2. /\ DOMAIN AsciiPlaces = 1 .. 8 /\ AsciiPlaces[1] = None /\ AsciiPlaces[2] = None /\ AsciiPlaces[3] = File
      /\ AsciiPlaces[4] = None /\ AsciiPlaces[5] = File /\ AsciiPlaces[6] = File /\ AsciiPlaces[7] = File
      /\ AsciiPlaces[8] = None
  BY DEF AsciiPlaces
<1>3. \A k \in 1 .. 7 : \E m \in 1 .. 8 :
        Follows(fn, k, AsciiPlaces[k], WriteASCIIFile[k], AsciiPlaces[k + 1], m, AsciiPlaces[m])
  <2>1. Follows(fn, 1, None, May(2), None, 4, None)
    BY FileFollows, 4 = 1 + 3, 1 \in Nat DEF Later
  <2>2. Follows(fn, 2, None, Open("file"), File, 2, None)
    BY FileFollows DEF Later
  <2>3. Follows(fn, 3, File, Close("file"), None, 3, File)
    BY FileFollows DEF Later
  <2>4. Follows(fn, 4, None, Open("file"), File, 4, None)
    BY FileFollows DEF Later
  <2>5. Follows(fn, 5, File, Throws, File, 5, File)
    BY FileFollows DEF Later
  <2>6. Follows(fn, 6, File, Use(<<"file">>), File, 6, File)
    BY FileFollows DEF Later
  <2>7. Follows(fn, 7, File, Close("file"), None, 7, File)
    BY FileFollows DEF Later
  <2> QED
    BY <1>1, <1>2, <2>1, <2>2, <2>3, <2>4, <2>5, <2>6, <2>7
<1>4. Ends(AsciiPlaces[8], Keeps(fn, "done")) /\ \A k \in 1 .. 8 : PlaceFits(AsciiPlaces[k])
  BY <1>2, EndsOf, FitPlaces
<1> QED
  BY <1>1, <1>2, <1>3, <1>4 DEF Walk

\* CreateASCIITextFile.
LEMMA CreatedWalk ==
  ASSUME NEW fn, fn \notin Statics
  PROVE  Walk(fn, CreateASCIITextFile, FilePlaces)
<1>1. /\ Len(CreateASCIITextFile) = 2 /\ DOMAIN CreateASCIITextFile = 1 .. 2
      /\ CreateASCIITextFile[1] = Open("file") /\ CreateASCIITextFile[2] = Close("file")
  BY DEF CreateASCIITextFile
<1>2. /\ DOMAIN FilePlaces = 1 .. 3 /\ FilePlaces[1] = None /\ FilePlaces[2] = File /\ FilePlaces[3] = None
  BY DEF FilePlaces
<1>3. \A k \in 1 .. 2 : \E m \in 1 .. 3 :
        Follows(fn, k, FilePlaces[k], CreateASCIITextFile[k], FilePlaces[k + 1], m, FilePlaces[m])
  BY <1>1, <1>2, FileFollows DEF Later
<1>4. Ends(FilePlaces[3], Keeps(fn, "done")) /\ \A k \in 1 .. 3 : PlaceFits(FilePlaces[k])
  BY <1>2, EndsOf, FitPlaces
<1> QED
  BY <1>1, <1>2, <1>3, <1>4 DEF Walk

\* ClearFileContent.
LEMMA ClearedWalk ==
  ASSUME NEW fn, fn \notin Statics
  PROVE  Walk(fn, ClearFileContent, FilePlaces)
<1>1. /\ Len(ClearFileContent) = 2 /\ DOMAIN ClearFileContent = 1 .. 2
      /\ ClearFileContent[1] = OpenOrSkip("file", 2) /\ ClearFileContent[2] = Close("file")
  BY DEF ClearFileContent
<1>2. /\ DOMAIN FilePlaces = 1 .. 3 /\ FilePlaces[1] = None /\ FilePlaces[2] = File /\ FilePlaces[3] = None
  BY DEF FilePlaces
<1>3. \A k \in 1 .. 2 : \E m \in 1 .. 3 :
        Follows(fn, k, FilePlaces[k], ClearFileContent[k], FilePlaces[k + 1], m, FilePlaces[m])
  <2>1. Follows(fn, 1, None, OpenOrSkip("file", 2), File, 3, None)
    BY FileFollows, 3 = 1 + 2, 1 \in Nat DEF Later
  <2>2. Follows(fn, 2, File, Close("file"), None, 2, File)
    BY FileFollows DEF Later
  <2> QED
    BY <1>1, <1>2, <2>1, <2>2
<1>4. Ends(FilePlaces[3], Keeps(fn, "done")) /\ \A k \in 1 .. 3 : PlaceFits(FilePlaces[k])
  BY <1>2, EndsOf, FitPlaces
<1> QED
  BY <1>1, <1>2, <1>3, <1>4 DEF Walk

\* ReadFileContent.
LEMMA ContentWalk ==
  ASSUME NEW fn, fn \notin Statics
  PROVE  Walk(fn, ReadFileContent, ContentPlaces)
<1>1. /\ Len(ReadFileContent) = 6 /\ DOMAIN ReadFileContent = 1 .. 6 /\ ReadFileContent[1] = Open("file")
      /\ ReadFileContent[2] = TryOr(<<"file">>, <<"file">>) /\ ReadFileContent[3] = OpenOr("memory", <<"file">>)
      /\ ReadFileContent[4] = TryOr(<<"file">>, <<"memory", "file">>) /\ ReadFileContent[5] = Close("file")
      /\ ReadFileContent[6] = Give(<<"memory">>)
  BY DEF ReadFileContent, ReadContent
<1>2. /\ DOMAIN ContentPlaces = 1 .. 7 /\ ContentPlaces[1] = None /\ ContentPlaces[2] = File
      /\ ContentPlaces[3] = File /\ ContentPlaces[4] = FileMemory /\ ContentPlaces[5] = FileMemory
      /\ ContentPlaces[6] = Memory /\ ContentPlaces[7] = None
  BY DEF ContentPlaces
<1>3. \A k \in 1 .. 6 : \E m \in 1 .. 7 :
        Follows(fn, k, ContentPlaces[k], ReadFileContent[k], ContentPlaces[k + 1], m, ContentPlaces[m])
  BY <1>1, <1>2, FileFollows, ContentFollows DEF Later
<1>4. Ends(ContentPlaces[7], Keeps(fn, "done")) /\ \A k \in 1 .. 7 : PlaceFits(ContentPlaces[k])
  BY <1>2, EndsOf, FitPlaces
<1> QED
  BY <1>1, <1>2, <1>3, <1>4 DEF Walk

\* LoadPE.
LEMMA PEWalk ==
  ASSUME NEW fn, fn \notin Statics
  PROVE  Walk(fn, LoadPE, PEPlaces)
<1>1. /\ Len(LoadPE) = 8 /\ DOMAIN LoadPE = 1 .. 8 /\ LoadPE[1] = Open("file")
      /\ LoadPE[2] = TryOr(<<"file">>, <<"file">>) /\ LoadPE[3] = OpenOr("memory", <<"file">>)
      /\ LoadPE[4] = TryOr(<<"file">>, <<"memory", "file">>) /\ LoadPE[5] = Close("file")
      /\ LoadPE[6] = Defer("memory") /\ LoadPE[7] = Try(<<"memory">>) /\ LoadPE[8] = Use(<<"memory">>)
  BY DEF LoadPE, ReadContent
<1>2. /\ DOMAIN PEPlaces = 1 .. 9 /\ PEPlaces[1] = None /\ PEPlaces[2] = File /\ PEPlaces[3] = File
      /\ PEPlaces[4] = FileMemory /\ PEPlaces[5] = FileMemory /\ PEPlaces[6] = Memory
      /\ PEPlaces[7] = MemoryLeft /\ PEPlaces[8] = MemoryLeft /\ PEPlaces[9] = MemoryLeft
  BY DEF PEPlaces
<1>3. \A k \in 1 .. 8 : \E m \in 1 .. 9 : Follows(fn, k, PEPlaces[k], LoadPE[k], PEPlaces[k + 1], m, PEPlaces[m])
  BY <1>1, <1>2, FileFollows, ContentFollows DEF Later
<1>4. Ends(PEPlaces[9], Keeps(fn, "done")) /\ \A k \in 1 .. 9 : PlaceFits(PEPlaces[k])
  BY <1>2, EndsOf, FitPlaces
<1> QED
  BY <1>1, <1>2, <1>3, <1>4 DEF Walk

\* The conversions of characters.
LEMMA ConvertWalk ==
  ASSUME NEW fn, fn \notin Statics, {"buffer"} \subseteq Keeps(fn, "throw")
  PROVE  Walk(fn, Convert, ConvertPlaces)
<1>1. /\ Len(Convert) = 3 /\ DOMAIN Convert = 1 .. 3 /\ Convert[1] = New("buffer") /\ Convert[2] = Throws
      /\ Convert[3] = Close("buffer")
  BY DEF Convert
<1>2. /\ DOMAIN ConvertPlaces = 1 .. 4 /\ ConvertPlaces[1] = None /\ ConvertPlaces[2] = Buffer
      /\ ConvertPlaces[3] = Buffer /\ ConvertPlaces[4] = None
  BY DEF ConvertPlaces
<1>3. \A k \in 1 .. 3 : \E m \in 1 .. 4 :
        Follows(fn, k, ConvertPlaces[k], Convert[k], ConvertPlaces[k + 1], m, ConvertPlaces[m])
  BY <1>1, <1>2, BufferFollows DEF Later
<1>4. Ends(ConvertPlaces[4], Keeps(fn, "done")) /\ \A k \in 1 .. 4 : PlaceFits(ConvertPlaces[k])
  BY <1>2, EndsOf, FitPlaces
<1> QED
  BY <1>1, <1>2, <1>3, <1>4 DEF Walk

\* MakeFormatText.
LEMMA FormatWalk ==
  ASSUME NEW fn, fn \notin Statics, {"buffer"} \subseteq Keeps(fn, "throw")
  PROVE  Walk(fn, MakeFormatText, FormatPlaces)
<1>1. /\ Len(MakeFormatText) = 4 /\ DOMAIN MakeFormatText = 1 .. 4 /\ MakeFormatText[1] = May(2)
      /\ MakeFormatText[2] = New("buffer") /\ MakeFormatText[3] = Throws
      /\ MakeFormatText[4] = CloseIfHeld("buffer")
  BY DEF MakeFormatText
<1>2. /\ DOMAIN FormatPlaces = 1 .. 5 /\ FormatPlaces[1] = None /\ FormatPlaces[2] = None
      /\ FormatPlaces[3] = Buffer /\ FormatPlaces[4] = MayBuffer /\ FormatPlaces[5] = None
  BY DEF FormatPlaces
<1>3. \A k \in 1 .. 4 : \E m \in 1 .. 5 :
        Follows(fn, k, FormatPlaces[k], MakeFormatText[k], FormatPlaces[k + 1], m, FormatPlaces[m])
  BY <1>1, <1>2, BufferFollows, SMTT(40) DEF Later
<1>4. Ends(FormatPlaces[5], Keeps(fn, "done")) /\ \A k \in 1 .. 5 : PlaceFits(FormatPlaces[k])
  BY <1>2, EndsOf, FitPlaces
<1> QED
  BY <1>1, <1>2, <1>3, <1>4 DEF Walk

\* CopyTextToClipboard.
LEMMA ClipboardWalk ==
  ASSUME NEW fn, fn \notin Statics, {"memory"} \subseteq Keeps(fn, "done")
  PROVE  Walk(fn, CopyTextToClipboard, ClipboardPlaces)
<1>1. /\ Len(CopyTextToClipboard) = 4 /\ DOMAIN CopyTextToClipboard = 1 .. 4
      /\ CopyTextToClipboard[1] = Open("clipboard")
      /\ CopyTextToClipboard[2] = OpenOr("memory", <<"clipboard">>)
      /\ CopyTextToClipboard[3] = MayGive("memory") /\ CopyTextToClipboard[4] = Close("clipboard")
  BY DEF CopyTextToClipboard
<1>2. /\ DOMAIN ClipboardPlaces = 1 .. 5 /\ ClipboardPlaces[1] = None /\ ClipboardPlaces[2] = Clipboard
      /\ ClipboardPlaces[3] = ClipboardMemory /\ ClipboardPlaces[4] = ClipboardMay
      /\ ClipboardPlaces[5] = MayMemory
  BY DEF ClipboardPlaces
<1>3. \A k \in 1 .. 4 : \E m \in 1 .. 5 :
        Follows(fn, k, ClipboardPlaces[k], CopyTextToClipboard[k], ClipboardPlaces[k + 1], m, ClipboardPlaces[m])
  BY <1>1, <1>2, ClipboardFollows DEF Later
<1>4. Ends(ClipboardPlaces[5], Keeps(fn, "done")) /\ \A k \in 1 .. 5 : PlaceFits(ClipboardPlaces[k])
  BY <1>2, EndsOf, FitPlaces
<1> QED
  BY <1>1, <1>2, <1>3, <1>4 DEF Walk

\* TerminateProcByPid.
LEMMA TerminateWalk ==
  ASSUME NEW fn, fn \notin Statics
  PROVE  Walk(fn, TerminateProcByPid, TerminatePlaces)
<1>1. /\ Len(TerminateProcByPid) = 3 /\ DOMAIN TerminateProcByPid = 1 .. 3
      /\ TerminateProcByPid[1] = Open("process") /\ TerminateProcByPid[2] = Use(<<"process">>)
      /\ TerminateProcByPid[3] = Close("process")
  BY DEF TerminateProcByPid
<1>2. /\ DOMAIN TerminatePlaces = 1 .. 4 /\ TerminatePlaces[1] = None /\ TerminatePlaces[2] = Process
      /\ TerminatePlaces[3] = Process /\ TerminatePlaces[4] = None
  BY DEF TerminatePlaces
<1>3. \A k \in 1 .. 3 : \E m \in 1 .. 4 :
        Follows(fn, k, TerminatePlaces[k], TerminateProcByPid[k], TerminatePlaces[k + 1], m, TerminatePlaces[m])
  BY <1>1, <1>2, ProcessFollows DEF Later
<1>4. Ends(TerminatePlaces[4], Keeps(fn, "done")) /\ \A k \in 1 .. 4 : PlaceFits(TerminatePlaces[k])
  BY <1>2, EndsOf, FitPlaces
<1> QED
  BY <1>1, <1>2, <1>3, <1>4 DEF Walk

\* GetVecProcess.
LEMMA VecWalk ==
  ASSUME NEW fn, fn \notin Statics, {"snapshot"} \subseteq Keeps(fn, "throw")
  PROVE  Walk(fn, GetVecProcess, VecPlaces)
<1>1. /\ Len(GetVecProcess) = 5 /\ DOMAIN GetVecProcess = 1 .. 5 /\ GetVecProcess[1] = Open("snapshot")
      /\ GetVecProcess[2] = TryOr(<<"snapshot">>, <<"snapshot">>) /\ GetVecProcess[3] = Throws
      /\ GetVecProcess[4] = Use(<<"snapshot">>) /\ GetVecProcess[5] = Close("snapshot")
  BY DEF GetVecProcess
<1>2. /\ DOMAIN VecPlaces = 1 .. 6 /\ VecPlaces[1] = None /\ VecPlaces[2] = Snapshot /\ VecPlaces[3] = Snapshot
      /\ VecPlaces[4] = Snapshot /\ VecPlaces[5] = Snapshot /\ VecPlaces[6] = None
  BY DEF VecPlaces
<1>3. \A k \in 1 .. 5 : \E m \in 1 .. 6 :
        Follows(fn, k, VecPlaces[k], GetVecProcess[k], VecPlaces[k + 1], m, VecPlaces[m])
  BY <1>1, <1>2, ProcessFollows DEF Later
<1>4. Ends(VecPlaces[6], Keeps(fn, "done")) /\ \A k \in 1 .. 6 : PlaceFits(VecPlaces[k])
  BY <1>2, EndsOf, FitPlaces
<1> QED
  BY <1>1, <1>2, <1>3, <1>4 DEF Walk

\* GetMainThreadId.
LEMMA ThreadIdWalk ==
  ASSUME NEW fn, fn \notin Statics
  PROVE  Walk(fn, GetMainThreadId, ThreadIdPlaces)
<1>1. /\ Len(GetMainThreadId) = 3 /\ DOMAIN GetMainThreadId = 1 .. 3 /\ GetMainThreadId[1] = Open("snapshot")
      /\ GetMainThreadId[2] = Use(<<"snapshot">>) /\ GetMainThreadId[3] = Close("snapshot")
  BY DEF GetMainThreadId
<1>2. /\ DOMAIN ThreadIdPlaces = 1 .. 4 /\ ThreadIdPlaces[1] = None /\ ThreadIdPlaces[2] = Snapshot
      /\ ThreadIdPlaces[3] = Snapshot /\ ThreadIdPlaces[4] = None
  BY DEF ThreadIdPlaces
<1>3. \A k \in 1 .. 3 : \E m \in 1 .. 4 :
        Follows(fn, k, ThreadIdPlaces[k], GetMainThreadId[k], ThreadIdPlaces[k + 1], m, ThreadIdPlaces[m])
  BY <1>1, <1>2, ProcessFollows DEF Later
<1>4. Ends(ThreadIdPlaces[4], Keeps(fn, "done")) /\ \A k \in 1 .. 4 : PlaceFits(ThreadIdPlaces[k])
  BY <1>2, EndsOf, FitPlaces
<1> QED
  BY <1>1, <1>2, <1>3, <1>4 DEF Walk

\* GetCpuUsageByPid.
LEMMA CpuWalk ==
  ASSUME NEW fn, fn \notin Statics, {"process"} \subseteq Keeps(fn, "fail"), {"process"} \subseteq Keeps(fn, "done")
  PROVE  Walk(fn, GetCpuUsageByPid, CpuPlaces)
<1>1. /\ Len(GetCpuUsageByPid) = 2 /\ DOMAIN GetCpuUsageByPid = 1 .. 2 /\ GetCpuUsageByPid[1] = Open("process")
      /\ GetCpuUsageByPid[2] = Try(<<"process">>)
  BY DEF GetCpuUsageByPid
<1>2. /\ DOMAIN CpuPlaces = 1 .. 3 /\ CpuPlaces[1] = None /\ CpuPlaces[2] = Process /\ CpuPlaces[3] = Process
  BY DEF CpuPlaces
<1>3. \A k \in 1 .. 2 : \E m \in 1 .. 3 :
        Follows(fn, k, CpuPlaces[k], GetCpuUsageByPid[k], CpuPlaces[k + 1], m, CpuPlaces[m])
  BY <1>1, <1>2, KeptFollows DEF Later
<1>4. Ends(CpuPlaces[3], Keeps(fn, "done")) /\ \A k \in 1 .. 3 : PlaceFits(CpuPlaces[k])
  BY <1>2, EndsOf, FitPlaces
<1> QED
  BY <1>1, <1>2, <1>3, <1>4 DEF Walk

\* CalcWorkSetPrivate.
LEMMA WorkSetWalk ==
  ASSUME NEW fn, fn \notin Statics, {"process"} \subseteq Keeps(fn, "fail"), {"process"} \subseteq Keeps(fn, "done")
  PROVE  Walk(fn, CalcWorkSetPrivate, WorkSetPlaces)
<1>1. /\ Len(CalcWorkSetPrivate) = 6 /\ DOMAIN CalcWorkSetPrivate = 1 .. 6
      /\ CalcWorkSetPrivate[1] = Open("process") /\ CalcWorkSetPrivate[2] = May(3)
      /\ CalcWorkSetPrivate[3] = Try(<<"process">>) /\ CalcWorkSetPrivate[4] = Open("buffer")
      /\ CalcWorkSetPrivate[5] = TryOr(<<"process">>, <<"buffer">>)
      /\ CalcWorkSetPrivate[6] = CloseIfHeld("buffer")
  BY DEF CalcWorkSetPrivate
<1>2. /\ DOMAIN WorkSetPlaces = 1 .. 7 /\ WorkSetPlaces[1] = None /\ WorkSetPlaces[2] = Process
      /\ WorkSetPlaces[3] = Process /\ WorkSetPlaces[4] = Process /\ WorkSetPlaces[5] = ProcessBuffer
      /\ WorkSetPlaces[6] = ProcessMay /\ WorkSetPlaces[7] = Process
  BY DEF WorkSetPlaces
<1>3. \A k \in 1 .. 6 : \E m \in 1 .. 7 :
        Follows(fn, k, WorkSetPlaces[k], CalcWorkSetPrivate[k], WorkSetPlaces[k + 1], m, WorkSetPlaces[m])
  BY <1>1, <1>2, KeptFollows, SMTT(40) DEF Later
<1>4. Ends(WorkSetPlaces[7], Keeps(fn, "done")) /\ \A k \in 1 .. 7 : PlaceFits(WorkSetPlaces[k])
  BY <1>2, EndsOf, FitPlaces
<1> QED
  BY <1>1, <1>2, <1>3, <1>4 DEF Walk

\* CreateProc.
LEMMA CreateWalk ==
  ASSUME NEW fn, fn \notin Statics, {"thread"} \subseteq Keeps(fn, "done")
  PROVE  Walk(fn, CreateProc, CreatePlaces)
<1>1. /\ Len(CreateProc) = 7 /\ DOMAIN CreateProc = 1 .. 7 /\ CreateProc[1] = Throws
      /\ CreateProc[2] = Try(<<>>) /\ CreateProc[3] = OpenBoth("process", "thread") /\ CreateProc[4] = May(2)
      /\ CreateProc[5] = Give(<<"process", "thread">>) /\ CreateProc[6] = Exit
      /\ CreateProc[7] = Close("process")
  BY DEF CreateProc
<1>2. /\ DOMAIN CreatePlaces = 1 .. 8 /\ CreatePlaces[1] = None /\ CreatePlaces[2] = None
      /\ CreatePlaces[3] = None /\ CreatePlaces[4] = ProcessThread /\ CreatePlaces[5] = ProcessThread
      /\ CreatePlaces[6] = None /\ CreatePlaces[7] = ProcessThread /\ CreatePlaces[8] = OnlyThread
  BY DEF CreatePlaces
<1>3. \A k \in 1 .. 7 : \E m \in 1 .. 8 :
        Follows(fn, k, CreatePlaces[k], CreateProc[k], CreatePlaces[k + 1], m, CreatePlaces[m])
  <2>1. Follows(fn, 1, None, Throws, None, 1, None)
    BY CreateFollows DEF Later
  <2>2. Follows(fn, 2, None, Try(<<>>), None, 2, None)
    BY CreateFollows DEF Later
  <2>3. Follows(fn, 3, None, OpenBoth("process", "thread"), ProcessThread, 3, None)
    BY CreateFollows DEF Later
  <2>4. Follows(fn, 4, ProcessThread, May(2), ProcessThread, 7, ProcessThread)
    BY CreateFollows, 7 = 4 + 3, 4 \in Nat DEF Later
  <2>5. Follows(fn, 5, ProcessThread, Give(<<"process", "thread">>), None, 5, ProcessThread)
    BY CreateFollows DEF Later
  <2>6. Follows(fn, 6, None, Exit, ProcessThread, 6, None)
    BY CreateFollows DEF Later
  <2>7. Follows(fn, 7, ProcessThread, Close("process"), OnlyThread, 7, ProcessThread)
    BY CreateFollows DEF Later
  <2> QED
    BY <1>1, <1>2, <2>1, <2>2, <2>3, <2>4, <2>5, <2>6, <2>7
<1>4. Ends(CreatePlaces[8], Keeps(fn, "done")) /\ \A k \in 1 .. 8 : PlaceFits(CreatePlaces[k])
  BY <1>2, EndsOf, FitPlaces
<1> QED
  BY <1>1, <1>2, <1>3, <1>4 DEF Walk

\* GetPhysicalDiskNumber.
LEMMA NumberWalk ==
  ASSUME NEW fn, fn \notin Statics
  PROVE  Walk(fn, GetPhysicalDiskNumber, NumberPlaces)
<1>1. /\ Len(GetPhysicalDiskNumber) = 3 /\ DOMAIN GetPhysicalDiskNumber = 1 .. 3
      /\ GetPhysicalDiskNumber[1] = Open("device") /\ GetPhysicalDiskNumber[2] = Defer("device")
      /\ GetPhysicalDiskNumber[3] = Try(<<"device">>)
  BY DEF GetPhysicalDiskNumber
<1>2. /\ DOMAIN NumberPlaces = 1 .. 4 /\ NumberPlaces[1] = None /\ NumberPlaces[2] = Device
      /\ NumberPlaces[3] = DeviceLeft /\ NumberPlaces[4] = DeviceLeft
  BY DEF NumberPlaces
<1>3. \A k \in 1 .. 3 : \E m \in 1 .. 4 :
        Follows(fn, k, NumberPlaces[k], GetPhysicalDiskNumber[k], NumberPlaces[k + 1], m, NumberPlaces[m])
  BY <1>1, <1>2, DiskFollows DEF Later
<1>4. Ends(NumberPlaces[4], Keeps(fn, "done")) /\ \A k \in 1 .. 4 : PlaceFits(NumberPlaces[k])
  BY <1>2, EndsOf, FitPlaces
<1> QED
  BY <1>1, <1>2, <1>3, <1>4 DEF Walk

\* GetDiskSerialNumber_ByIdentify.
LEMMA IdentifyWalk ==
  ASSUME NEW fn, fn \notin Statics
  PROVE  Walk(fn, GetDiskSerialNumber_ByIdentify, IdentifyPlaces)
<1>1. /\ Len(GetDiskSerialNumber_ByIdentify) = 9 /\ DOMAIN GetDiskSerialNumber_ByIdentify = 1 .. 9
      /\ GetDiskSerialNumber_ByIdentify[1] = Open("device")
      /\ GetDiskSerialNumber_ByIdentify[2] = Defer("device")
      /\ GetDiskSerialNumber_ByIdentify[3] = Try(<<"device">>) /\ GetDiskSerialNumber_ByIdentify[4] = Leave
      /\ GetDiskSerialNumber_ByIdentify[5] = Open("disk") /\ GetDiskSerialNumber_ByIdentify[6] = Defer("disk")
      /\ GetDiskSerialNumber_ByIdentify[7] = Try(<<"disk">>)
      /\ GetDiskSerialNumber_ByIdentify[8] = Try(<<"disk">>) /\ GetDiskSerialNumber_ByIdentify[9] = Throws
  BY DEF GetDiskSerialNumber_ByIdentify, GetPhysicalDiskNumber
<1>2. /\ DOMAIN IdentifyPlaces = 1 .. 10 /\ IdentifyPlaces[1] = None /\ IdentifyPlaces[2] = Device
      /\ IdentifyPlaces[3] = DeviceLeft /\ IdentifyPlaces[4] = DeviceLeft /\ IdentifyPlaces[5] = None
      /\ IdentifyPlaces[6] = Disk /\ IdentifyPlaces[7] = DiskLeft /\ IdentifyPlaces[8] = DiskLeft
      /\ IdentifyPlaces[9] = DiskLeft /\ IdentifyPlaces[10] = DiskLeft
  BY DEF IdentifyPlaces
<1>3. \A k \in 1 .. 9 : \E m \in 1 .. 10 :
        Follows(fn, k, IdentifyPlaces[k], GetDiskSerialNumber_ByIdentify[k],
                IdentifyPlaces[k + 1], m, IdentifyPlaces[m])
  BY <1>1, <1>2, DiskFollows DEF Later
<1>4. Ends(IdentifyPlaces[10], Keeps(fn, "done")) /\ \A k \in 1 .. 10 : PlaceFits(IdentifyPlaces[k])
  BY <1>2, EndsOf, FitPlaces
<1> QED
  BY <1>1, <1>2, <1>3, <1>4 DEF Walk

\* GetScreenShotContent.
LEMMA ScreenWalk ==
  ASSUME NEW fn, fn \notin Statics
  PROVE  Walk(fn, GetScreenShotContent, ContentOfScreenPlaces)
<1>1. /\ Len(GetScreenShotContent) = 13 /\ DOMAIN GetScreenShotContent = 1 .. 13
      /\ GetScreenShotContent[1] = Try(<<>>) /\ GetScreenShotContent[2] = Open("windowDC")
      /\ GetScreenShotContent[3] = Defer("windowDC") /\ GetScreenShotContent[4] = Open("memoryDC")
      /\ GetScreenShotContent[5] = Defer("memoryDC") /\ GetScreenShotContent[6] = Open("bitmap")
      /\ GetScreenShotContent[7] = Defer("bitmap")
      /\ GetScreenShotContent[8] = Use(<<"windowDC", "memoryDC", "bitmap">>)
      /\ GetScreenShotContent[9] = Open("dib") /\ GetScreenShotContent[10] = Defer("dib")
      /\ GetScreenShotContent[11] = Try(<<"dib">>)
      /\ GetScreenShotContent[12] = Use(<<"memoryDC", "bitmap", "dib">>) /\ GetScreenShotContent[13] = Throws
  BY DEF GetScreenShotContent
<1>2. /\ DOMAIN ContentOfScreenPlaces = 1 .. 14 /\ ContentOfScreenPlaces[1] = None
      /\ ContentOfScreenPlaces[2] = None /\ ContentOfScreenPlaces[3] = WindowDC
      /\ ContentOfScreenPlaces[4] = WindowLeft /\ ContentOfScreenPlaces[5] = MemoryDC
      /\ ContentOfScreenPlaces[6] = DCsLeft /\ ContentOfScreenPlaces[7] = Bitmap
      /\ ContentOfScreenPlaces[8] = BitmapLeft /\ ContentOfScreenPlaces[9] = BitmapLeft
      /\ ContentOfScreenPlaces[10] = Dib /\ ContentOfScreenPlaces[11] = DibLeft
      /\ ContentOfScreenPlaces[12] = DibLeft /\ ContentOfScreenPlaces[13] = DibLeft
      /\ ContentOfScreenPlaces[14] = DibLeft
  BY DEF ContentOfScreenPlaces
<1>3. \A k \in 1 .. 13 : \E m \in 1 .. 14 :
        Follows(fn, k, ContentOfScreenPlaces[k], GetScreenShotContent[k],
                ContentOfScreenPlaces[k + 1], m, ContentOfScreenPlaces[m])
  BY <1>1, <1>2, GdiFollows DEF Later
<1>4. Ends(ContentOfScreenPlaces[14], Keeps(fn, "done")) /\ \A k \in 1 .. 14 : PlaceFits(ContentOfScreenPlaces[k])
  BY <1>2, EndsOf, FitPlaces
<1> QED
  BY <1>1, <1>2, <1>3, <1>4 DEF Walk

\* Screenshot.
LEMMA ScreenshotWalk ==
  ASSUME NEW fn, fn \notin Statics
  PROVE  Walk(fn, Screenshot, ScreenshotPlaces)
<1>1. /\ Len(Screenshot) = 17 /\ DOMAIN Screenshot = 1 .. 17 /\ Screenshot[1] = Try(<<>>)
      /\ Screenshot[2] = Open("windowDC") /\ Screenshot[3] = Defer("windowDC")
      /\ Screenshot[4] = Open("memoryDC") /\ Screenshot[5] = Defer("memoryDC") /\ Screenshot[6] = Open("bitmap")
      /\ Screenshot[7] = Defer("bitmap") /\ Screenshot[8] = Use(<<"windowDC", "memoryDC", "bitmap">>)
      /\ Screenshot[9] = Open("dib") /\ Screenshot[10] = Defer("dib") /\ Screenshot[11] = Try(<<"dib">>)
      /\ Screenshot[12] = Use(<<"memoryDC", "bitmap", "dib">>) /\ Screenshot[13] = Throws
      /\ Screenshot[14] = Leave /\ Screenshot[15] = Open("file") /\ Screenshot[16] = Use(<<"file">>)
      /\ Screenshot[17] = Close("file")
  BY DEF Screenshot, GetScreenShotContent
<1>2. /\ DOMAIN ScreenshotPlaces = 1 .. 18 /\ ScreenshotPlaces[1] = None /\ ScreenshotPlaces[2] = None
      /\ ScreenshotPlaces[3] = WindowDC /\ ScreenshotPlaces[4] = WindowLeft /\ ScreenshotPlaces[5] = MemoryDC
      /\ ScreenshotPlaces[6] = DCsLeft /\ ScreenshotPlaces[7] = Bitmap /\ ScreenshotPlaces[8] = BitmapLeft
      /\ ScreenshotPlaces[9] = BitmapLeft /\ ScreenshotPlaces[10] = Dib /\ ScreenshotPlaces[11] = DibLeft
      /\ ScreenshotPlaces[12] = DibLeft /\ ScreenshotPlaces[13] = DibLeft /\ ScreenshotPlaces[14] = DibLeft
      /\ ScreenshotPlaces[15] = None /\ ScreenshotPlaces[16] = File /\ ScreenshotPlaces[17] = File
      /\ ScreenshotPlaces[18] = None
  BY DEF ScreenshotPlaces
<1>3. \A k \in 1 .. 17 : \E m \in 1 .. 18 :
        Follows(fn, k, ScreenshotPlaces[k], Screenshot[k], ScreenshotPlaces[k + 1], m, ScreenshotPlaces[m])
  BY <1>1, <1>2, GdiFollows, FileFollows, SMTT(40) DEF Later
<1>4. Ends(ScreenshotPlaces[18], Keeps(fn, "done")) /\ \A k \in 1 .. 18 : PlaceFits(ScreenshotPlaces[k])
  BY <1>2, EndsOf, FitPlaces
<1>5. /\ Len(Screenshot) = 17 /\ Len(Screenshot) + 1 = 18 /\ Len(Screenshot) \in Nat
      /\ DOMAIN Screenshot = 1 .. Len(Screenshot)
  BY <1>1
<1>6. DOMAIN ScreenshotPlaces = 1 .. Len(Screenshot) + 1 /\ ScreenshotPlaces[1] = None
  BY <1>2, <1>5
<1>7. \A k \in 1 .. Len(Screenshot) : \E m \in 1 .. Len(Screenshot) + 1 :
        Follows(fn, k, ScreenshotPlaces[k], Screenshot[k], ScreenshotPlaces[k + 1], m, ScreenshotPlaces[m])
  BY <1>3, <1>5
<1>8. Ends(ScreenshotPlaces[Len(Screenshot) + 1], Keeps(fn, "done")) /\ \A k \in 1 .. Len(Screenshot) + 1 : PlaceFits(ScreenshotPlaces[k])
  BY <1>4, <1>5
<1> QED
  BY <1>5, <1>6, <1>7, <1>8 DEF Walk

\* IsUsbDiver.
LEMMA UsbWalk ==
  ASSUME NEW fn \in Statics, {"disk"} \subseteq Keeps(fn, "throw")
  PROVE  Walk(fn, IsUsbDiver, UsbPlaces)
<1>1. /\ Len(IsUsbDiver) = 6 /\ DOMAIN IsUsbDiver = 1 .. 6 /\ IsUsbDiver[1] = SetPath
      /\ IsUsbDiver[2] = OpenUnchecked("disk")
      /\ IsUsbDiver[3] = New("descriptor") /\ IsUsbDiver[4] = Defer("descriptor") /\ IsUsbDiver[5] = Defer("disk")
      /\ IsUsbDiver[6] = Try(<<"disk">>)
  BY DEF IsUsbDiver
<1>2. /\ DOMAIN UsbPlaces = 1 .. 7 /\ UsbPlaces[1] = None /\ UsbPlaces[2] = None /\ UsbPlaces[3] = Disk
      /\ UsbPlaces[4] = DiskDescriptor /\ UsbPlaces[5] = DescriptorLeft /\ UsbPlaces[6] = BothLeft
      /\ UsbPlaces[7] = BothLeft
  BY DEF UsbPlaces
<1>3. \A k \in 1 .. 6 : \E m \in 1 .. 7 :
        Follows(fn, k, UsbPlaces[k], IsUsbDiver[k], UsbPlaces[k + 1], m, UsbPlaces[m])
  BY <1>1, <1>2, PathFollows, UsbFollows DEF Later
<1>4. Ends(UsbPlaces[7], Keeps(fn, "done")) /\ \A k \in 1 .. 7 : PlaceFits(UsbPlaces[k])
  BY <1>2, EndsOf, FitPlaces
<1> QED
  BY <1>1, <1>2, <1>3, <1>4 DEF Walk

\* The same two calls, any number of times.
LEMMA FlatPairs ==
  ASSUME NEW T, NEW x \in Seq(T), Len(x) = 2, NEW m \in Nat
  PROVE  LET flat == FlattenSeq([h \in 1 .. m |-> x])  IN  flat \in Seq(T) /\ Len(flat) = 2 * m
<1> DEFINE Flat == [n \in Nat |-> FlattenSeq([h \in 1 .. n |-> x])]
           Good(n) == Flat[n] \in Seq(T) /\ Len(Flat[n]) = 2 * n
           M == {n \in Nat : ~ Good(n)}
<1>1. SUFFICES ASSUME M # {} PROVE FALSE
  <2>1. Flat[m] = FlattenSeq([h \in 1 .. m |-> x])
    OBVIOUS
  <2> HIDE DEF Flat
  <2> QED
    BY <2>1
<1> HIDE DEF Flat
<1>2. PICK n \in M : \A y \in M : n <= y
  BY <1>1, LeastNumber DEF HasLeast
<1>3. CASE n = 0
  <2>1. [h \in 1 .. 0 |-> x] = <<>>
    OBVIOUS
  <2>2. Flat[0] = <<>>
    BY <2>1 DEF Flat, FlattenSeq
  <2>3. Good(0)
    BY <2>2, EmptySeq
  <2> QED
    BY <1>2, <1>3, <2>3
<1>4. CASE n # 0
  <2>1. n - 1 \in Nat /\ Good(n - 1)
    BY <1>2, <1>4
  <2> DEFINE s == [h \in 1 .. n - 1 |-> x]
  <2>2. s \in Seq(Seq(T)) /\ Len(s) = n - 1
    BY <2>1
  <2>3. Append(s, x) = [h \in 1 .. n |-> x]
    BY <2>1, <2>2
  <2>9. n \in Nat
    BY <1>2
  <2>4. Flat[n] = Flat[n - 1] \o x
    <3>1. FlattenSeq(Append(s, x)) = FlattenSeq(s) \o x
      BY <2>2, FlattenGrows
    <3> QED
      BY <2>1, <2>3, <2>9, <3>1 DEF Flat
  <2>5. Flat[n - 1] \o x \in Seq(T) /\ Len(Flat[n - 1] \o x) = Len(Flat[n - 1]) + 2
    <3>1. \A f \in Seq(T) : f \o x \in Seq(T) /\ Len(f \o x) = Len(f) + Len(x)
      BY ConcatProperties
    <3> QED
      BY <2>1, <3>1
  <2>6. Good(n)
    BY <2>1, <2>4, <2>5, <2>9
  <2> QED
    BY <1>2, <2>6
<1> QED
  BY <1>2, <1>3, <1>4

\* GetDiskSerailNumber_BySCSI, with any number of kinds of bridge.
LEMMA SerialWalk ==
  ASSUME NEW fn \in Statics, {"disk"} \subseteq Keeps(fn, "fail"), {"disk"} \subseteq Keeps(fn, "found"),
         {"disk"} \subseteq Keeps(fn, "done")
  PROVE  Walk(fn, GetDiskSerailNumber_BySCSI, SerialPlaces)
<1> DEFINE c == GetDiskSerailNumber_BySCSI
           b == Ask(<<"disk">>, 2)
           a == Ask(<<"disk">>, 1)
           flat == FlattenSeq([type \in 1 .. nSatTypes |-> GetUsbDriverSerialNumber_By_SatType])
           n == 5 + 2 * nSatTypes
<1>0. nSatTypes \in Nat
  BY FunctionsAssumption
<1>1. flat \in Seq({a, b}) /\ Len(flat) = 2 * nSatTypes
  <2>1. GetUsbDriverSerialNumber_By_SatType \in Seq({a, b}) /\ Len(GetUsbDriverSerialNumber_By_SatType) = 2
    BY DEF GetUsbDriverSerialNumber_By_SatType
  <2> QED
    BY <1>0, <2>1, FlatPairs
<1>2. c = <<SetPath, OpenUnchecked("disk")>> \o <<a>> \o flat \o <<Try(<<"disk">>), a>>
  BY DEF GetDiskSerailNumber_BySCSI, GetUsbDriverSerailNumber_By_NvmeAsMedia, GetUsbDriverSerialNumber_By_NvmeJMicron
<1> HIDE DEF c, a, b, flat
<1>3. /\ Len(c) = n /\ DOMAIN c = 1 .. n /\ c[1] = SetPath /\ c[2] = OpenUnchecked("disk")
      /\ c[n - 1] = Try(<<"disk">>) /\ c[n] = a
      /\ \A k \in 3 .. n - 2 : c[k] \in {a, b}
  <2> DEFINE X == {SetPath, OpenUnchecked("disk"), Try(<<"disk">>), a, b}
             first == <<SetPath, OpenUnchecked("disk")>> \o <<a>>
             last == <<Try(<<"disk">>), a>>
  <2>1. first \in Seq(X) /\ Len(first) = 3 /\ first[1] = SetPath /\ first[2] = OpenUnchecked("disk") /\ first[3] = a
    OBVIOUS
  <2>2. last \in Seq(X) /\ Len(last) = 2 /\ last[1] = Try(<<"disk">>) /\ last[2] = a
    OBVIOUS
  <2>3. flat \in Seq(X) /\ \A h \in 1 .. 2 * nSatTypes : flat[h] \in {a, b}
    BY <1>1
  <2>4. c = (first \o flat) \o last
    BY <1>2
  <2> DEFINE d == first \o flat
  <2> HIDE DEF first, last, X
  <2>5. /\ d \in Seq(X) /\ Len(d) = 3 + 2 * nSatTypes
        /\ \A h \in 1 .. 3 + 2 * nSatTypes : d[h] = IF h <= 3 THEN first[h] ELSE flat[h - 3]
    <3>1. /\ d \in Seq(X) /\ Len(d) = Len(first) + Len(flat)
          /\ \A h \in 1 .. Len(first) + Len(flat) : d[h] = IF h <= Len(first) THEN first[h] ELSE flat[h - Len(first)]
      BY <2>1, <2>3, ConcatProperties
    <3> HIDE DEF d
    <3> QED
      BY <1>0, <1>1, <2>1, <3>1
  <2>10. c = d \o last
    BY <2>4
  <2> HIDE DEF d
  <2>6. /\ Len(c) = n /\ DOMAIN c = 1 .. n
        /\ \A h \in 1 .. n : c[h] = IF h <= n - 2 THEN d[h] ELSE last[h - (n - 2)]
    <3>2. /\ d \o last \in Seq(X) /\ Len(d \o last) = Len(d) + Len(last)
          /\ \A h \in 1 .. Len(d) + Len(last) : (d \o last)[h] = IF h <= Len(d) THEN d[h] ELSE last[h - Len(d)]
      BY <2>2, <2>5, ConcatProperties
    <3>3. Len(d) = n - 2 /\ Len(d) + Len(last) = n
      BY <1>0, <2>2, <2>5
    <3> QED
      BY <2>10, <3>2, <3>3
  <2>7. c[1] = SetPath /\ c[2] = OpenUnchecked("disk")
    <3>1. 1 \in 1 .. n /\ 2 \in 1 .. n /\ 1 <= n - 2 /\ 2 <= n - 2 /\ 1 \in 1 .. 3 + 2 * nSatTypes
                       /\ 2 \in 1 .. 3 + 2 * nSatTypes
      BY <1>0
    <3> HIDE DEF n
    <3> QED
      BY <2>1, <2>5, <2>6, <3>1
  <2>8. c[n - 1] = Try(<<"disk">>) /\ c[n] = a
    <3>1. /\ n - 1 \in 1 .. n /\ n \in 1 .. n /\ ~ (n - 1 <= n - 2) /\ ~ (n <= n - 2)
          /\ (n - 1) - (n - 2) = 1 /\ n - (n - 2) = 2
      BY <1>0
    <3> HIDE DEF n
    <3> QED
      BY <2>2, <2>6, <3>1
  <2>9. ASSUME NEW k \in 3 .. n - 2 PROVE c[k] \in {a, b}
    <3>0. k \in 1 .. n /\ k <= n - 2 /\ k \in 1 .. 3 + 2 * nSatTypes
      BY <1>0
    <3>1. CASE k = 3
      BY <2>1, <2>5, <2>6, <3>0, <3>1
    <3>2. CASE k # 3
      <4>1. k - 3 \in 1 .. 2 * nSatTypes /\ ~ (k <= 3)
        BY <1>0, <3>2
      <4> QED
        BY <2>3, <2>5, <2>6, <3>0, <4>1
    <3> QED
      BY <3>1, <3>2
  <2> QED
    BY <2>6, <2>7, <2>8, <2>9
<1>4. DOMAIN SerialPlaces = 1 .. n + 1 /\ \A k \in 1 .. n + 1 : SerialPlaces[k] = IF k <= 2 THEN None ELSE Disk
  BY <1>0 DEF SerialPlaces
<1>5. ASSUME NEW k \in 1 .. n
      PROVE  \E m \in 1 .. n + 1 : Follows(fn, k, SerialPlaces[k], c[k], SerialPlaces[k + 1], m, SerialPlaces[m])
  <2>0. n \in Nat /\ n >= 5 /\ k \in Nat
    BY <1>0
  <2> HIDE DEF n
  <2>1. CASE k = 1
    <3>1. SerialPlaces[1] = None /\ SerialPlaces[1 + 1] = None /\ 1 \in 1 .. n + 1
      BY <1>4, <2>0
    <3> QED
      BY <1>3, <2>1, <3>1, PathFollows
  <2>2. CASE k = 2
    <3>1. SerialPlaces[2] = None /\ SerialPlaces[2 + 1] = Disk /\ 2 \in 1 .. n + 1
      BY <1>4, <2>0
    <3> QED
      BY <1>3, <2>2, <3>1, PathFollows
  <2>3. CASE k \in 3 .. n - 2
    <3>1. \A m \in 3 .. n + 1 : SerialPlaces[m] = Disk
      BY <1>4
    <3>2. k + 1 \in 3 .. n + 1 /\ k + 2 \in 3 .. n + 1 /\ k \in 3 .. n + 1 /\ Later(fn, k)
      BY <2>0, <2>3 DEF Later
    <3>3. Follows(fn, k, Disk, a, Disk, k + 1, Disk) /\ Follows(fn, k, Disk, b, Disk, k + 2, Disk)
      BY <2>0, <3>2, SerialFollows DEF a, b
    <3>4. c[k] \in {a, b}
      BY <1>3, <2>3
    <3>5. k + 1 \in 1 .. n + 1 /\ k + 2 \in 1 .. n + 1
      BY <2>0, <3>2
    <3> QED
      BY <3>1, <3>2, <3>3, <3>4, <3>5
  <2>4. CASE k = n - 1
    <3>1. SerialPlaces[k] = Disk /\ SerialPlaces[k + 1] = Disk /\ k \in 1 .. n + 1 /\ Later(fn, k)
      BY <1>4, <2>0, <2>4 DEF Later
    <3>2. Follows(fn, k, Disk, Try(<<"disk">>), Disk, k, Disk)
      BY <2>0, <3>1, SerialFollows
    <3> QED
      BY <1>3, <2>4, <3>1, <3>2
  <2>5. CASE k = n
    <3>1. SerialPlaces[k] = Disk /\ SerialPlaces[k + 1] = Disk /\ k + 1 \in 1 .. n + 1 /\ Later(fn, k)
      BY <1>4, <2>0, <2>5 DEF Later
    <3>2. Follows(fn, k, Disk, a, Disk, k + 1, Disk)
      BY <2>0, <3>1, SerialFollows DEF a
    <3> QED
      BY <1>3, <2>5, <3>1, <3>2
  <2> QED
    BY <2>0, <2>1, <2>2, <2>3, <2>4, <2>5
<1>6. Ends(SerialPlaces[n + 1], Keeps(fn, "done")) /\ \A k \in 1 .. n + 1 : PlaceFits(SerialPlaces[k])
  BY <1>0, <1>4, EndsOf, FitPlaces
<1>7. n \in Nat /\ n >= 2 /\ SerialPlaces[1] = None
  BY <1>0, <1>4
<1> HIDE DEF n
<1> QED
  BY <1>3, <1>4, <1>5, <1>6, <1>7 DEF Walk, c

\* What is kept, function by function.
LEMMA KeepsOf ==
  /\ Keeps("ReadUnicodeFile", "throw") = {"file"}
  /\ Keeps("ReadASCIIFile", "throw") = {"file"}
  /\ Keeps("WriteUnicodeFile", "throw") = {"file"}
  /\ Keeps("WriteASCIIFile", "throw") = {"file"}
  /\ Keeps("AppendUnicodeFile", "throw") = {"file"}
  /\ Keeps("GetCpuUsageByPid", "fail") = {"process"}
  /\ Keeps("CalcWorkSetPrivate", "fail") = {"process"}
  /\ Keeps("GetCpuUsageByPid", "done") = {"process"}
  /\ Keeps("CalcWorkSetPrivate", "done") = {"process"}
  /\ Keeps("CreateProc", "done") = {"thread"}
  /\ Keeps("GetDiskSerailNumber_BySCSI", "fail") = {"disk"}
  /\ Keeps("GetDiskSerailNumber_BySCSI", "found") = {"disk"}
  /\ Keeps("GetDiskSerailNumber_BySCSI", "done") = {"disk"}
  /\ Keeps("CopyTextToClipboard", "done") = {"memory"}
  /\ Keeps("GetVecProcess", "throw") = {"snapshot"}
  /\ Keeps("Convert", "throw") = {"buffer"}
  /\ Keeps("MakeFormatText", "throw") = {"buffer"}
  /\ Keeps("IsUsbDiver", "throw") = {"disk"}
<1>1. Keeps("ReadUnicodeFile", "throw") = {"file"}
  BY DEF Keeps, FileFunctions
<1>2. Keeps("ReadASCIIFile", "throw") = {"file"}
  BY DEF Keeps, FileFunctions
<1>3. Keeps("WriteUnicodeFile", "throw") = {"file"}
  BY DEF Keeps, FileFunctions
<1>4. Keeps("WriteASCIIFile", "throw") = {"file"}
  BY DEF Keeps, FileFunctions
<1>5. Keeps("AppendUnicodeFile", "throw") = {"file"}
  BY DEF Keeps, FileFunctions
<1>6. Keeps("GetCpuUsageByPid", "fail") = {"process"}
  BY DEF Keeps, FileFunctions
<1>7. Keeps("CalcWorkSetPrivate", "fail") = {"process"}
  BY DEF Keeps, FileFunctions
<1>8. Keeps("GetCpuUsageByPid", "done") = {"process"}
  BY DEF Keeps, FileFunctions
<1>9. Keeps("CalcWorkSetPrivate", "done") = {"process"}
  BY DEF Keeps, FileFunctions
<1>10. Keeps("CreateProc", "done") = {"thread"}
  BY DEF Keeps, FileFunctions
<1>11. Keeps("GetDiskSerailNumber_BySCSI", "fail") = {"disk"}
  BY DEF Keeps, FileFunctions
<1>12. Keeps("GetDiskSerailNumber_BySCSI", "found") = {"disk"}
  BY DEF Keeps, FileFunctions
<1>13. Keeps("GetDiskSerailNumber_BySCSI", "done") = {"disk"}
  BY DEF Keeps, FileFunctions
<1>14. Keeps("CopyTextToClipboard", "done") = {"memory"}
  BY DEF Keeps, FileFunctions
<1>15. Keeps("GetVecProcess", "throw") = {"snapshot"}
  BY DEF Keeps, FileFunctions
<1>16. Keeps("Convert", "throw") = {"buffer"}
  BY DEF Keeps, FileFunctions
<1>17. Keeps("MakeFormatText", "throw") = {"buffer"}
  BY DEF Keeps, FileFunctions
<1>18. Keeps("IsUsbDiver", "throw") = {"disk"}
  BY DEF Keeps, FileFunctions
<1> QED
  BY <1>1, <1>2, <1>3, <1>4, <1>5, <1>6, <1>7, <1>8, <1>9, <1>10, <1>11, <1>12, <1>13, <1>14, <1>15, <1>16,
      <1>17, <1>18

\* Every function goes with its places.
LEMMA EveryWalk == \A fn \in DOMAIN Code : Walk(fn, Code[fn], Places[fn])
<1>0. DOMAIN Code = {"ReadUnicodeFile", "ReadASCIIFile", "WriteUnicodeFile", "WriteASCIIFile",
                     "WriteFile", "AppendFile", "AppendUnicodeFile", "CreateUnicodeTextFile",
                     "CreateASCIITextFile", "ClearFileContent", "ReadFileContent", "ReadAsciiFileLen",
                     "LoadPE", "Convert", "MakeFormatText", "CopyTextToClipboard",
                     "TerminateProcByPid", "GetVecProcess", "GetMainThreadId", "GetCpuUsageByPid",
                     "CalcWorkSetPrivate", "CreateProc", "GetPhysicalDiskNumber", "GetDiskSerialNumber_ByIdentify",
                     "IsUsbDiver", "GetDiskSerailNumber_BySCSI", "GetScreenShotContent", "Screenshot"}
  BY DEF Code
<1>1. Walk("ReadUnicodeFile", Code["ReadUnicodeFile"], Places["ReadUnicodeFile"])
  <2>1. Code["ReadUnicodeFile"] = ReadUnicodeFile /\ Places["ReadUnicodeFile"] = ReadPlaces
    BY DEF Code, Places
  <2>2. "ReadUnicodeFile" \notin Statics
    BY DEF Statics
  <2> QED
    BY <2>1, <2>2, KeepsOf, ReadWalk
<1>2. Walk("ReadASCIIFile", Code["ReadASCIIFile"], Places["ReadASCIIFile"])
  <2>1. Code["ReadASCIIFile"] = ReadASCIIFile /\ Places["ReadASCIIFile"] = ReadPlaces
    BY DEF Code, Places
  <2>2. "ReadASCIIFile" \notin Statics
    BY DEF Statics
  <2>3. ReadASCIIFile = ReadUnicodeFile
    BY DEF ReadASCIIFile, ReadUnicodeFile
  <2> QED
    BY <2>1, <2>2, <2>3, KeepsOf, ReadWalk
<1>3. Walk("WriteUnicodeFile", Code["WriteUnicodeFile"], Places["WriteUnicodeFile"])
  <2>1. Code["WriteUnicodeFile"] = WriteUnicodeFile /\ Places["WriteUnicodeFile"] = UnicodePlaces
    BY DEF Code, Places
  <2>2. "WriteUnicodeFile" \notin Statics
    BY DEF Statics
  <2> QED
    BY <2>1, <2>2, KeepsOf, UnicodeWalk
<1>4. Walk("WriteASCIIFile", Code["WriteASCIIFile"], Places["WriteASCIIFile"])
  <2>1. Code["WriteASCIIFile"] = WriteASCIIFile /\ Places["WriteASCIIFile"] = AsciiPlaces
    BY DEF Code, Places
  <2>2. "WriteASCIIFile" \notin Statics
    BY DEF Statics
  <2> QED
    BY <2>1, <2>2, KeepsOf, AsciiWalk
<1>5. Walk("WriteFile", Code["WriteFile"], Places["WriteFile"])
  <2>1. Code["WriteFile"] = WriteFile /\ Places["WriteFile"] = ShortPlaces
    BY DEF Code, Places
  <2>2. "WriteFile" \notin Statics
    BY DEF Statics
  <2> QED
    BY <2>1, <2>2, ShortWalk
<1>6. Walk("AppendFile", Code["AppendFile"], Places["AppendFile"])
  <2>1. Code["AppendFile"] = AppendFile /\ Places["AppendFile"] = ShortPlaces
    BY DEF Code, Places
  <2>2. "AppendFile" \notin Statics
    BY DEF Statics
  <2>3. AppendFile = WriteFile
    BY DEF AppendFile, WriteFile
  <2> QED
    BY <2>1, <2>2, <2>3, ShortWalk
<1>7. Walk("AppendUnicodeFile", Code["AppendUnicodeFile"], Places["AppendUnicodeFile"])
  <2>1. Code["AppendUnicodeFile"] = AppendUnicodeFile /\ Places["AppendUnicodeFile"] = UnicodePlaces
    BY DEF Code, Places
  <2>2. "AppendUnicodeFile" \notin Statics
    BY DEF Statics
  <2>3. AppendUnicodeFile = WriteUnicodeFile
    BY DEF AppendUnicodeFile, WriteUnicodeFile
  <2> QED
    BY <2>1, <2>2, <2>3, KeepsOf, UnicodeWalk
<1>8. Walk("CreateUnicodeTextFile", Code["CreateUnicodeTextFile"], Places["CreateUnicodeTextFile"])
  <2>1. Code["CreateUnicodeTextFile"] = CreateUnicodeTextFile /\ Places["CreateUnicodeTextFile"] = ShortPlaces
    BY DEF Code, Places
  <2>2. "CreateUnicodeTextFile" \notin Statics
    BY DEF Statics
  <2>3. CreateUnicodeTextFile = WriteFile
    BY DEF CreateUnicodeTextFile, WriteFile
  <2> QED
    BY <2>1, <2>2, <2>3, ShortWalk
<1>9. Walk("CreateASCIITextFile", Code["CreateASCIITextFile"], Places["CreateASCIITextFile"])
  <2>1. Code["CreateASCIITextFile"] = CreateASCIITextFile /\ Places["CreateASCIITextFile"] = FilePlaces
    BY DEF Code, Places
  <2>2. "CreateASCIITextFile" \notin Statics
    BY DEF Statics
  <2> QED
    BY <2>1, <2>2, CreatedWalk
<1>10. Walk("ClearFileContent", Code["ClearFileContent"], Places["ClearFileContent"])
  <2>1. Code["ClearFileContent"] = ClearFileContent /\ Places["ClearFileContent"] = FilePlaces
    BY DEF Code, Places
  <2>2. "ClearFileContent" \notin Statics
    BY DEF Statics
  <2> QED
    BY <2>1, <2>2, ClearedWalk
<1>11. Walk("ReadFileContent", Code["ReadFileContent"], Places["ReadFileContent"])
  <2>1. Code["ReadFileContent"] = ReadFileContent /\ Places["ReadFileContent"] = ContentPlaces
    BY DEF Code, Places
  <2>2. "ReadFileContent" \notin Statics
    BY DEF Statics
  <2> QED
    BY <2>1, <2>2, ContentWalk
<1>12. Walk("ReadAsciiFileLen", Code["ReadAsciiFileLen"], Places["ReadAsciiFileLen"])
  <2>1. Code["ReadAsciiFileLen"] = ReadAsciiFileLen /\ Places["ReadAsciiFileLen"] = ShortPlaces
    BY DEF Code, Places
  <2>2. "ReadAsciiFileLen" \notin Statics
    BY DEF Statics
  <2>3. ReadAsciiFileLen = WriteFile
    BY DEF ReadAsciiFileLen, WriteFile
  <2> QED
    BY <2>1, <2>2, <2>3, ShortWalk
<1>13. Walk("LoadPE", Code["LoadPE"], Places["LoadPE"])
  <2>1. Code["LoadPE"] = LoadPE /\ Places["LoadPE"] = PEPlaces
    BY DEF Code, Places
  <2>2. "LoadPE" \notin Statics
    BY DEF Statics
  <2> QED
    BY <2>1, <2>2, PEWalk
<1>14. Walk("Convert", Code["Convert"], Places["Convert"])
  <2>1. Code["Convert"] = Convert /\ Places["Convert"] = ConvertPlaces
    BY DEF Code, Places
  <2>2. "Convert" \notin Statics
    BY DEF Statics
  <2> QED
    BY <2>1, <2>2, KeepsOf, ConvertWalk
<1>15. Walk("MakeFormatText", Code["MakeFormatText"], Places["MakeFormatText"])
  <2>1. Code["MakeFormatText"] = MakeFormatText /\ Places["MakeFormatText"] = FormatPlaces
    BY DEF Code, Places
  <2>2. "MakeFormatText" \notin Statics
    BY DEF Statics
  <2> QED
    BY <2>1, <2>2, KeepsOf, FormatWalk
<1>16. Walk("CopyTextToClipboard", Code["CopyTextToClipboard"], Places["CopyTextToClipboard"])
  <2>1. Code["CopyTextToClipboard"] = CopyTextToClipboard /\ Places["CopyTextToClipboard"] = ClipboardPlaces
    BY DEF Code, Places
  <2>2. "CopyTextToClipboard" \notin Statics
    BY DEF Statics
  <2> QED
    BY <2>1, <2>2, KeepsOf, ClipboardWalk
<1>17. Walk("TerminateProcByPid", Code["TerminateProcByPid"], Places["TerminateProcByPid"])
  <2>1. Code["TerminateProcByPid"] = TerminateProcByPid /\ Places["TerminateProcByPid"] = TerminatePlaces
    BY DEF Code, Places
  <2>2. "TerminateProcByPid" \notin Statics
    BY DEF Statics
  <2> QED
    BY <2>1, <2>2, TerminateWalk
<1>18. Walk("GetVecProcess", Code["GetVecProcess"], Places["GetVecProcess"])
  <2>1. Code["GetVecProcess"] = GetVecProcess /\ Places["GetVecProcess"] = VecPlaces
    BY DEF Code, Places
  <2>2. "GetVecProcess" \notin Statics
    BY DEF Statics
  <2> QED
    BY <2>1, <2>2, KeepsOf, VecWalk
<1>19. Walk("GetMainThreadId", Code["GetMainThreadId"], Places["GetMainThreadId"])
  <2>1. Code["GetMainThreadId"] = GetMainThreadId /\ Places["GetMainThreadId"] = ThreadIdPlaces
    BY DEF Code, Places
  <2>2. "GetMainThreadId" \notin Statics
    BY DEF Statics
  <2> QED
    BY <2>1, <2>2, ThreadIdWalk
<1>20. Walk("GetCpuUsageByPid", Code["GetCpuUsageByPid"], Places["GetCpuUsageByPid"])
  <2>1. Code["GetCpuUsageByPid"] = GetCpuUsageByPid /\ Places["GetCpuUsageByPid"] = CpuPlaces
    BY DEF Code, Places
  <2>2. "GetCpuUsageByPid" \notin Statics
    BY DEF Statics
  <2> QED
    BY <2>1, <2>2, KeepsOf, CpuWalk
<1>21. Walk("CalcWorkSetPrivate", Code["CalcWorkSetPrivate"], Places["CalcWorkSetPrivate"])
  <2>1. Code["CalcWorkSetPrivate"] = CalcWorkSetPrivate /\ Places["CalcWorkSetPrivate"] = WorkSetPlaces
    BY DEF Code, Places
  <2>2. "CalcWorkSetPrivate" \notin Statics
    BY DEF Statics
  <2> QED
    BY <2>1, <2>2, KeepsOf, WorkSetWalk
<1>22. Walk("CreateProc", Code["CreateProc"], Places["CreateProc"])
  <2>1. Code["CreateProc"] = CreateProc /\ Places["CreateProc"] = CreatePlaces
    BY DEF Code, Places
  <2>2. "CreateProc" \notin Statics
    BY DEF Statics
  <2> QED
    BY <2>1, <2>2, KeepsOf, CreateWalk
<1>23. Walk("GetPhysicalDiskNumber", Code["GetPhysicalDiskNumber"], Places["GetPhysicalDiskNumber"])
  <2>1. Code["GetPhysicalDiskNumber"] = GetPhysicalDiskNumber /\ Places["GetPhysicalDiskNumber"] = NumberPlaces
    BY DEF Code, Places
  <2>2. "GetPhysicalDiskNumber" \notin Statics
    BY DEF Statics
  <2> QED
    BY <2>1, <2>2, NumberWalk
<1>24. Walk("GetDiskSerialNumber_ByIdentify", Code["GetDiskSerialNumber_ByIdentify"],
               Places["GetDiskSerialNumber_ByIdentify"])
  <2>1. /\ Code["GetDiskSerialNumber_ByIdentify"] = GetDiskSerialNumber_ByIdentify
        /\ Places["GetDiskSerialNumber_ByIdentify"] = IdentifyPlaces
    BY DEF Code, Places
  <2>2. "GetDiskSerialNumber_ByIdentify" \notin Statics
    BY DEF Statics
  <2> QED
    BY <2>1, <2>2, IdentifyWalk
<1>25. Walk("IsUsbDiver", Code["IsUsbDiver"], Places["IsUsbDiver"])
  <2>1. Code["IsUsbDiver"] = IsUsbDiver /\ Places["IsUsbDiver"] = UsbPlaces
    BY DEF Code, Places
  <2>2. "IsUsbDiver" \in Statics
    BY DEF Statics
  <2> QED
    BY <2>1, <2>2, KeepsOf, UsbWalk
<1>26. Walk("GetDiskSerailNumber_BySCSI", Code["GetDiskSerailNumber_BySCSI"], Places["GetDiskSerailNumber_BySCSI"])
  <2>1. /\ Code["GetDiskSerailNumber_BySCSI"] = GetDiskSerailNumber_BySCSI
        /\ Places["GetDiskSerailNumber_BySCSI"] = SerialPlaces
    BY DEF Code, Places
  <2>2. "GetDiskSerailNumber_BySCSI" \in Statics
    BY DEF Statics
  <2> QED
    BY <2>1, <2>2, KeepsOf, SerialWalk
<1>27. Walk("GetScreenShotContent", Code["GetScreenShotContent"], Places["GetScreenShotContent"])
  <2>1. Code["GetScreenShotContent"] = GetScreenShotContent /\ Places["GetScreenShotContent"] = ContentOfScreenPlaces
    BY DEF Code, Places
  <2>2. "GetScreenShotContent" \notin Statics
    BY DEF Statics
  <2> QED
    BY <2>1, <2>2, ScreenWalk
<1>28. Walk("Screenshot", Code["Screenshot"], Places["Screenshot"])
  <2>1. Code["Screenshot"] = Screenshot /\ Places["Screenshot"] = ScreenshotPlaces
    BY DEF Code, Places
  <2>2. "Screenshot" \notin Statics
    BY DEF Statics
  <2> QED
    BY <2>1, <2>2, ScreenshotWalk
<1> QED
  BY <1>0, <1>1, <1>2, <1>3, <1>4, <1>5, <1>6, <1>7, <1>8, <1>9, <1>10, <1>11, <1>12, <1>13, <1>14, <1>15, <1>16,
      <1>17,
     <1>18, <1>19, <1>20, <1>21, <1>22, <1>23, <1>24, <1>25, <1>26, <1>27, <1>28

-----------------------------------------------------------------------------
(* The calls of the threads.                                               *)

Exits == {"done", "found", "fail", "throw"}
CallStates ==
  [fn : DOMAIN Code \cup {"none"}, pc : Nat, drive : Drives \cup {"none"}, at : Drives \cup {"none", "?"},
   held : SUBSET Resources, bad : SUBSET {"disk"}, deferred : Seq(Resources),
   exit : Exits \cup {"running", "returned"}, overtaken : BOOLEAN]

Opened(s) == s.held \cup s.bad
AtLeave(s) == s.pc <= Len(Code[s.fn]) /\ Here(s).op = "leave"

\* Before a call: what its place says.
Stands(s) ==
  LET a == Places[s.fn][s.pc]
  IN  s.deferred = a.left /\ a.must \subseteq Opened(s) /\ Opened(s) \subseteq a.can

\* An inner function is left: what it opened is what its destructors close.
Empties(s) == InTurn(s.deferred) /\ Opened(s) = Range(s.deferred)

\* The function is left: what its destructors do not close is kept.
Ended(s) ==
  /\ InTurn(s.deferred) /\ Range(s.deferred) \subseteq Opened(s)
  /\ s.held \ Range(s.deferred) \subseteq Keeps(s.fn, s.exit)

Going(s) ==
  /\ s.fn \in DOMAIN Code /\ s.pc \in 1 .. Len(Code[s.fn]) + 1 /\ (s.fn \in Statics => s.drive \in Drives)
  /\ s.exit \in Exits \cup {"running"}
  /\ IF s.exit # "running" THEN Ended(s) ELSE IF AtLeave(s) THEN Empties(s) ELSE Stands(s)

\* Between the writing of the path and the opening it says the call's drive.
DriveKnown(s, p) ==
  /\ s.at \in {"none", s.drive} \/ s.overtaken
  /\ s.fn \in Statics /\ s.pc = 2 /\ s.exit = "running" => p[s.fn] = s.drive \/ s.overtaken

CallInv(s, p) == s \in CallStates /\ (s = Idle \/ Going(s)) /\ DriveKnown(s, p)

Paths == [Statics -> Drives \cup {"?"}]

CallsInv == th \in [Threads -> CallStates] /\ path \in Paths /\ \A t \in Threads : CallInv(th[t], path)

\* The places and the instruction of a call that is not the end of an inner function.
LEMMA AtCall ==
  ASSUME NEW s \in CallStates, Going(s), s.exit = "running", s.pc <= Len(Code[s.fn])
  PROVE  /\ \E m \in 1 .. Len(Code[s.fn]) + 1 :
              Follows(s.fn, s.pc, Places[s.fn][s.pc], Here(s), Places[s.fn][s.pc + 1], m, Places[s.fn][m])
         /\ s.pc + 1 \in 1 .. Len(Code[s.fn]) + 1 /\ PlaceFits(Places[s.fn][s.pc])
         /\ Range(Here(s).res) \subseteq Resources
<1>1. s.fn \in DOMAIN Code /\ s.pc \in 1 .. Len(Code[s.fn]) + 1
  BY DEF Going
<1>2. Walk(s.fn, Code[s.fn], Places[s.fn])
  BY <1>1, EveryWalk
<1>3. Len(Code[s.fn]) \in Nat /\ DOMAIN Code[s.fn] = 1 .. Len(Code[s.fn])
  BY <1>2 DEF Walk
<1>4. s.pc \in 1 .. Len(Code[s.fn])
  BY <1>1, <1>3
<1>5. Here(s) \in Range(Code[s.fn])
  BY <1>3, <1>4 DEF Here, Range
<1>6. Range(Here(s).res) \subseteq Resources
  BY <1>1, <1>5 DEF Resources
<1>7. \E m \in 1 .. Len(Code[s.fn]) + 1 :
        Follows(s.fn, s.pc, Places[s.fn][s.pc], Here(s), Places[s.fn][s.pc + 1], m, Places[s.fn][m])
  BY <1>2, <1>4 DEF Walk, Here
<1>8. PlaceFits(Places[s.fn][s.pc])
  BY <1>1, <1>2 DEF Walk
<1> QED
  BY <1>3, <1>4, <1>6, <1>7, <1>8

\* Whatever goes on to a place, with what the place says.
LEMMA Arrives ==
  ASSUME NEW s \in CallStates, s.fn \in DOMAIN Code, s.pc \in 1 .. Len(Code[s.fn]) + 1,
      s.fn \in Statics => s.drive \in Drives,
         s.exit = "running", Stands(s)
  PROVE  Going(s)
<1>1. ASSUME AtLeave(s) PROVE Empties(s)
  <2>1. Walk(s.fn, Code[s.fn], Places[s.fn])
    BY EveryWalk
  <2>2. s.pc \in 1 .. Len(Code[s.fn]) /\ Len(Code[s.fn]) \in Nat
    BY <1>1, <2>1 DEF AtLeave, Walk, CallStates
  <2>3. PICK m \in 1 .. Len(Code[s.fn]) + 1 :
          Follows(s.fn, s.pc, Places[s.fn][s.pc], Here(s), Places[s.fn][s.pc + 1], m, Places[s.fn][m])
    BY <2>1, <2>2 DEF Walk, Here
  <2>4. PlaceFits(Places[s.fn][s.pc])
    BY <2>1 DEF Walk
  <2>5. /\ Places[s.fn][s.pc].must = Range(Places[s.fn][s.pc].left)
        /\ Places[s.fn][s.pc].can = Range(Places[s.fn][s.pc].left)
    BY <1>1, <2>3 DEF Follows, AtLeave
  <2> QED
    BY <2>4, <2>5 DEF Empties, Stands, PlaceFits
<1> QED
  BY <1>1 DEF Going

\* A running call goes on, by anything but the path or the end of an inner function.
LEMMA GoesOn ==
  ASSUME NEW p, NEW s, CallInv(s, p), Going(s), s.exit = "running", s.pc <= Len(Code[s.fn]), Here(s).op # "path",
         NEW u \in CallStates, u.fn = s.fn, u.drive = s.drive, u.overtaken = s.overtaken,
         u.at = s.at \/ u.at = s.drive \/ s.overtaken, u.exit = "running",
         u.pc \in 1 .. Len(Code[s.fn]) + 1, u.pc > s.pc, Stands(u)
  PROVE  CallInv(u, p)
<1>1. s \in CallStates
  BY DEF CallInv
<1>2. Going(u)
  BY Arrives DEF Going
<1>3. DriveKnown(u, p)
  <2>1. u.at \in {"none", u.drive} \/ u.overtaken
    BY DEF CallInv, DriveKnown
  <2>2. ~ (u.fn \in Statics /\ u.pc = 2)
    <3>1. SUFFICES ASSUME s.fn \in Statics, u.pc = 2 PROVE FALSE
      OBVIOUS
    <3>2. s.pc = 1
      BY <1>1, <3>1 DEF Going, CallStates
    <3>3. Here(s).op = "path"
      BY <1>1, <3>1, <3>2, AtCall DEF Follows
    <3> QED
      BY <3>3
  <2> QED
    BY <2>1, <2>2 DEF DriveKnown
<1> QED
  BY <1>2, <1>3 DEF CallInv

\* A running call ends.
LEMMA GoesOut ==
  ASSUME NEW p, NEW s, CallInv(s, p), Going(s), NEW u \in CallStates, u.fn = s.fn, u.pc = s.pc, u.drive = s.drive,
         u.overtaken = s.overtaken, u.at = s.at, u.exit \in Exits, Ended(u)
  PROVE  CallInv(u, p)
<1>1. u.exit # "running"
  BY DEF Exits
<1> QED
  BY <1>1 DEF CallInv, Going, DriveKnown

\* A call that is running, at an instruction of some kind.
Runs(s, p, ops) ==
  CallInv(s, p) /\ Going(s) /\ s.exit = "running" /\ s.pc <= Len(Code[s.fn]) /\ Here(s).op \in ops

\* What a running call that is not the end of an inner function knows.
LEMMA AtRuns ==
  ASSUME NEW p, NEW s, NEW ops, Runs(s, p, ops), "leave" \notin ops
  PROVE  /\ s \in CallStates /\ Going(s) /\ Stands(s) /\ s.pc \in Nat /\ s.pc + 1 \in 1 .. Len(Code[s.fn]) + 1
         /\ \E m \in 1 .. Len(Code[s.fn]) + 1 :
              Follows(s.fn, s.pc, Places[s.fn][s.pc], Here(s), Places[s.fn][s.pc + 1], m, Places[s.fn][m])
         /\ InTurn(Places[s.fn][s.pc].left) /\ Range(Here(s).res) \subseteq Resources
<1>1. s \in CallStates /\ Going(s) /\ s.exit = "running" /\ s.pc <= Len(Code[s.fn]) /\ Here(s).op # "leave"
  BY DEF Runs, CallInv
<1>2. Stands(s)
  BY <1>1 DEF Going, AtLeave
<1>3. s.pc \in Nat
  BY <1>1 DEF CallStates
<1> QED
  BY <1>1, <1>2, <1>3, AtCall DEF PlaceFits

\* The fields of a call that goes on.
LEMMA OnFields ==
  ASSUME NEW s \in CallStates
  PROVE  /\ On(s) \in CallStates /\ On(s).fn = s.fn /\ On(s).pc = s.pc + 1 /\ On(s).drive = s.drive /\ On(s).at = s.at
         /\ On(s).held = s.held /\ On(s).bad = s.bad /\ On(s).deferred = s.deferred /\ On(s).exit = s.exit
         /\ On(s).overtaken = s.overtaken
  BY DEF On, CallStates

LEMMA GotFields ==
  ASSUME NEW s \in CallStates, Range(Here(s).res) \subseteq Resources
  PROVE  /\ Got(s) \in CallStates /\ Got(s).fn = s.fn /\ Got(s).pc = s.pc + 1 /\ Got(s).drive = s.drive
         /\ Got(s).at = s.at
         /\ Got(s).held = s.held \cup Range(Here(s).res) /\ Got(s).bad = s.bad /\ Got(s).deferred = s.deferred
         /\ Got(s).exit = s.exit /\ Got(s).overtaken = s.overtaken
<1> DEFINE w == On(s)
           rs == Range(Here(s).res)
<1>1. Got(s) = [w EXCEPT !.held = @ \cup rs]
  BY DEF Got
<1> HIDE DEF rs
<1>2. w \in CallStates
  BY OnFields
<1> HIDE DEF w
<1>3. /\ Got(s) \in CallStates /\ Got(s).fn = w.fn /\ Got(s).pc = w.pc /\ Got(s).drive = w.drive /\ Got(s).at = w.at
      /\ Got(s).held = w.held \cup rs /\ Got(s).bad = w.bad /\ Got(s).deferred = w.deferred
      /\ Got(s).exit = w.exit /\ Got(s).overtaken = w.overtaken
  BY <1>1, <1>2 DEF CallStates, rs
<1> QED
  BY <1>3, OnFields DEF w, rs

\* The next call, with what its place says.
LEMMA OnKeeps ==
  ASSUME NEW p, NEW s, Runs(s, p, {"try", "ask", "may", "throws", "use", "maygive"})
  PROVE  CallInv(On(s), p)
<1> DEFINE u == On(s)
           a == Places[s.fn][s.pc]
           b == Places[s.fn][s.pc + 1]
<1>1. /\ s \in CallStates /\ Going(s) /\ Stands(s) /\ s.pc \in Nat /\ s.pc + 1 \in 1 .. Len(Code[s.fn]) + 1
      /\ CallInv(s, p) /\ s.exit = "running" /\ s.pc <= Len(Code[s.fn]) /\ Here(s).op # "path"
  BY AtRuns DEF Runs
<1>2. Goes(a, b)
  BY AtRuns DEF Follows, Runs
<1>3. /\ u \in CallStates /\ u.fn = s.fn /\ u.pc = s.pc + 1 /\ u.drive = s.drive /\ u.at = s.at /\ u.held = s.held
      /\ u.bad = s.bad /\ u.deferred = s.deferred /\ u.exit = s.exit /\ u.overtaken = s.overtaken
  BY <1>1, OnFields
<1> HIDE DEF u
<1>4. Stands(u)
  BY <1>1, <1>2, <1>3 DEF Stands, Goes, Opened
<1> QED
  BY <1>1, <1>3, <1>4, GoesOn DEF u

\* A resource that is opened.
LEMMA GotKeeps ==
  ASSUME NEW p, NEW s, Runs(s, p, {"open", "new"})
  PROVE  CallInv(Got(s), p)
<1> DEFINE u == Got(s)
           a == Places[s.fn][s.pc]
           b == Places[s.fn][s.pc + 1]
           rs == Range(Here(s).res)
<1>1. /\ s \in CallStates /\ Going(s) /\ Stands(s) /\ s.pc \in Nat /\ s.pc + 1 \in 1 .. Len(Code[s.fn]) + 1
      /\ CallInv(s, p) /\ s.exit = "running" /\ s.pc <= Len(Code[s.fn]) /\ Here(s).op # "path"
      /\ rs \subseteq Resources
  BY AtRuns DEF Runs
<1>2. Goes(Plus(a, rs), b)
  BY AtRuns DEF Follows, Runs
<1>3. /\ u \in CallStates /\ u.fn = s.fn /\ u.pc = s.pc + 1 /\ u.drive = s.drive /\ u.at = s.at
      /\ u.held = s.held \cup rs
      /\ u.bad = s.bad /\ u.deferred = s.deferred /\ u.exit = s.exit /\ u.overtaken = s.overtaken
  BY <1>1, GotFields
<1> HIDE DEF rs
<1> HIDE DEF u
<1>4. Stands(u)
  BY <1>1, <1>2, <1>3 DEF Stands, Goes, Plus, Place, Opened
<1> QED
  BY <1>1, <1>3, <1>4, GoesOn DEF u

\* A drive that is opened, or is not: the handle is then an invalid one.
LEMMA UncheckedKeeps ==
  ASSUME NEW p \in Paths, NEW s, Runs(s, p, {"unchecked"})
  PROVE  /\ CallInv([Got(s) EXCEPT !.at = p[s.fn]], p)
         /\ CallInv([On(s) EXCEPT !.bad = Range(Here(s).res)], p)
<1> DEFINE u == [Got(s) EXCEPT !.at = p[s.fn]]
           v == [On(s) EXCEPT !.bad = Range(Here(s).res)]
           a == Places[s.fn][s.pc]
           b == Places[s.fn][s.pc + 1]
           rs == Range(Here(s).res)
<1>1. /\ s \in CallStates /\ Going(s) /\ Stands(s) /\ s.pc \in Nat /\ s.pc + 1 \in 1 .. Len(Code[s.fn]) + 1
      /\ CallInv(s, p) /\ s.exit = "running" /\ s.pc <= Len(Code[s.fn]) /\ Here(s).op # "path"
      /\ rs \subseteq Resources
  BY AtRuns DEF Runs
<1>2. Goes(Plus(a, rs), b) /\ rs = {"disk"} /\ s.fn \in Statics /\ s.pc = 2
  BY AtRuns DEF Follows, Runs
<1>3. p[s.fn] \in Drives \cup {"?"} /\ (p[s.fn] = s.drive \/ s.overtaken)
  BY <1>1, <1>2 DEF Paths, CallInv, DriveKnown
<1>4. /\ u \in CallStates /\ u.fn = s.fn /\ u.pc = s.pc + 1 /\ u.drive = s.drive /\ u.at = p[s.fn]
      /\ u.held = s.held \cup rs
      /\ u.bad = s.bad /\ u.deferred = s.deferred /\ u.exit = s.exit /\ u.overtaken = s.overtaken
  <2> DEFINE w == Got(s)
  <2>1. w \in CallStates
    BY <1>1, GotFields
  <2> HIDE DEF w
  <2>2. LET x == [w EXCEPT !.at = p[s.fn]]
        IN  /\ x \in CallStates /\ x.fn = w.fn /\ x.pc = w.pc /\ x.drive = w.drive /\ x.at = p[s.fn]
            /\ x.held = w.held
            /\ x.bad = w.bad /\ x.deferred = w.deferred /\ x.exit = w.exit /\ x.overtaken = w.overtaken
    BY <1>3, <2>1 DEF CallStates
  <2> QED
    BY <1>1, <2>2, GotFields DEF w
<1> HIDE DEF rs
<1>5. /\ v \in CallStates /\ v.fn = s.fn /\ v.pc = s.pc + 1 /\ v.drive = s.drive /\ v.at = s.at /\ v.held = s.held
      /\ v.bad = rs /\ v.deferred = s.deferred /\ v.exit = s.exit /\ v.overtaken = s.overtaken
  <2> DEFINE w == On(s)
  <2>1. w \in CallStates
    BY <1>1, OnFields
  <2> HIDE DEF w
  <2>2. LET x == [w EXCEPT !.bad = rs]
        IN  /\ x \in CallStates /\ x.fn = w.fn /\ x.pc = w.pc /\ x.drive = w.drive /\ x.at = w.at /\ x.held = w.held
            /\ x.bad = rs /\ x.deferred = w.deferred /\ x.exit = w.exit /\ x.overtaken = w.overtaken
    BY <1>2, <2>1 DEF CallStates
  <2> QED
    BY <1>1, <2>2, OnFields DEF w, rs
<1>6. s.bad \subseteq rs
  BY <1>1, <1>2 DEF CallStates
<1> HIDE DEF u, v
<1>7. Stands(u) /\ Stands(v)
  BY <1>1, <1>2, <1>4, <1>5, <1>6 DEF Stands, Goes, Plus, Place, Opened
<1>8. CallInv(u, p)
  BY <1>1, <1>3, <1>4, <1>7, GoesOn
<1>9. CallInv(v, p)
  BY <1>1, <1>5, <1>7, GoesOn
<1> QED
  BY <1>8, <1>9 DEF u, v

\* A call that fails closes what its branch closes, and returns or goes elsewhere.
LEMMA FailedKeeps ==
  ASSUME NEW p, NEW s, Runs(s, p, {"open", "try", "ask"})
  PROVE  CallInv(Failed(s), p)
<1> DEFINE call == Here(s)
           rs == Range(call.on)
           a == Places[s.fn][s.pc]
           u == Shut(s, rs)
<1>1. /\ s \in CallStates /\ Going(s) /\ Stands(s) /\ s.pc \in Nat /\ s.pc + 1 \in 1 .. Len(Code[s.fn]) + 1
      /\ CallInv(s, p) /\ s.exit = "running" /\ s.pc <= Len(Code[s.fn]) /\ Here(s).op # "path" /\ InTurn(a.left)
  BY AtRuns DEF Runs
<1>2. PICK m \in 1 .. Len(Code[s.fn]) + 1 :
        Follows(s.fn, s.pc, a, call, Places[s.fn][s.pc + 1], m, Places[s.fn][m])
  BY AtRuns DEF Runs
<1>3. call.op \in {"open", "try", "ask"} /\ call.skip \in Nat /\ m = s.pc + call.skip
  BY <1>2 DEF Follows, Runs
<1>4. IF call.skip = 0 THEN Ends(Minus(a, rs), Keeps(s.fn, "fail")) ELSE Goes(Minus(a, rs), Places[s.fn][m])
  BY <1>2, <1>3 DEF Follows
<1> HIDE DEF rs
<1>5. /\ u \in CallStates /\ u.fn = s.fn /\ u.pc = s.pc /\ u.drive = s.drive /\ u.at = s.at /\ u.held = s.held \ rs
      /\ u.bad = s.bad \ rs /\ u.deferred = s.deferred /\ u.exit = s.exit /\ u.overtaken = s.overtaken
  BY <1>1 DEF Shut, CallStates
<1>6. Failed(s) = IF call.skip = 0 THEN [u EXCEPT !.exit = "fail"] ELSE [u EXCEPT !.pc = m]
  BY <1>3, <1>5 DEF Failed, Out, rs
<1> HIDE DEF u
<1>7. CASE call.skip = 0
  <2> DEFINE v == [u EXCEPT !.exit = "fail"]
  <2>1. /\ v \in CallStates /\ v.fn = s.fn /\ v.pc = s.pc /\ v.drive = s.drive /\ v.at = s.at /\ v.held = s.held \ rs
        /\ v.bad = s.bad \ rs /\ v.deferred = s.deferred /\ v.exit = "fail" /\ v.overtaken = s.overtaken
    BY <1>5 DEF CallStates, Exits
  <2> HIDE DEF v
  <2>2. Ended(v)
    <3>1. Range(a.left) \subseteq a.must \ rs /\ (a.can \ rs) \ Range(a.left) \subseteq Keeps(s.fn, "fail")
      BY <1>4, <1>7 DEF Ends, Minus, Place
    <3> QED
      BY <1>1, <2>1, <3>1 DEF Ended, Stands, Opened
  <2>3. v.exit \in Exits
    BY <2>1 DEF Exits
  <2>4. CallInv(v, p)
    BY <1>1, <2>1, <2>2, <2>3, GoesOut
  <2> QED
    BY <1>6, <1>7, <2>4 DEF v
<1>8. CASE call.skip # 0
  <2> DEFINE v == [u EXCEPT !.pc = m]
  <2>1. /\ v \in CallStates /\ v.fn = s.fn /\ v.pc = m /\ v.drive = s.drive /\ v.at = s.at /\ v.held = s.held \ rs
        /\ v.bad = s.bad \ rs /\ v.deferred = s.deferred /\ v.exit = s.exit /\ v.overtaken = s.overtaken
    <3>1. m \in Nat
      BY <1>1, <1>3
    <3> QED
      BY <1>5, <3>1 DEF CallStates
  <2> HIDE DEF v
  <2>2. Stands(v)
    <3>1. Goes(Minus(a, rs), Places[s.fn][m])
      BY <1>4, <1>8
    <3> QED
      BY <1>1, <2>1, <3>1 DEF Stands, Goes, Minus, Place, Opened
  <2>3. v.pc > s.pc
    BY <1>1, <1>3, <1>8, <2>1
  <2>4. CallInv(v, p)
    BY <1>1, <2>1, <2>2, <2>3, GoesOn
  <2> QED
    BY <1>6, <1>8, <2>4 DEF v
<1> QED
  BY <1>7, <1>8

\* A call that is left on another way: found, by an exception, or early.
LEMMA OutKeeps ==
  ASSUME NEW p, NEW s, NEW e,
         \/ Runs(s, p, {"new", "throws"}) /\ e = "throw"
         \/ Runs(s, p, {"ask"}) /\ e = "found"
         \/ Runs(s, p, {"exit"}) /\ e = "done"
  PROVE  CallInv(Out(s, e), p)
<1> DEFINE u == Out(s, e)
           a == Places[s.fn][s.pc]
<1>1. /\ s \in CallStates /\ Going(s) /\ Stands(s) /\ CallInv(s, p) /\ InTurn(a.left)
      /\ Ends(a, Keeps(s.fn, e)) /\ e \in Exits
  <2>1. CASE Runs(s, p, {"new", "throws"}) /\ e = "throw"
    BY <2>1, AtRuns DEF Follows, Runs, Exits
  <2>2. CASE Runs(s, p, {"ask"}) /\ e = "found"
    BY <2>2, AtRuns DEF Follows, Runs, Exits
  <2>3. CASE Runs(s, p, {"exit"}) /\ e = "done"
    BY <2>3, AtRuns DEF Follows, Runs, Exits
  <2> QED
    BY <2>1, <2>2, <2>3
<1>2. /\ u \in CallStates /\ u.fn = s.fn /\ u.pc = s.pc /\ u.drive = s.drive /\ u.at = s.at /\ u.held = s.held
      /\ u.bad = s.bad /\ u.deferred = s.deferred /\ u.exit = e /\ u.overtaken = s.overtaken
  BY <1>1 DEF Out, CallStates
<1> HIDE DEF u
<1>3. Ended(u)
  BY <1>1, <1>2 DEF Ended, Ends, Stands, Opened
<1> QED
  BY <1>1, <1>2, <1>3, GoesOut DEF u

\* A condition that skips some calls.
LEMMA BranchKeeps ==
  ASSUME NEW p, NEW s, Runs(s, p, {"may"})
  PROVE  CallInv([s EXCEPT !.pc = @ + 1 + Here(s).skip], p)
<1> DEFINE u == [s EXCEPT !.pc = @ + 1 + Here(s).skip]
           a == Places[s.fn][s.pc]
<1>1. /\ s \in CallStates /\ Going(s) /\ Stands(s) /\ s.pc \in Nat
      /\ CallInv(s, p) /\ s.exit = "running" /\ s.pc <= Len(Code[s.fn]) /\ Here(s).op = "may"
  BY AtRuns DEF Runs
<1>2. PICK m \in 1 .. Len(Code[s.fn]) + 1 :
        Follows(s.fn, s.pc, a, Here(s), Places[s.fn][s.pc + 1], m, Places[s.fn][m])
  BY AtRuns DEF Runs
<1>3. Here(s).skip \in Nat /\ m = s.pc + 1 + Here(s).skip /\ Goes(a, Places[s.fn][m])
  BY <1>1, <1>2 DEF Follows
<1>4. m \in Nat /\ m > s.pc
  BY <1>1, <1>3
<1>5. u = [s EXCEPT !.pc = m]
  BY <1>1, <1>3 DEF CallStates
<1>6. /\ u \in CallStates /\ u.fn = s.fn /\ u.pc = m /\ u.drive = s.drive /\ u.at = s.at /\ u.held = s.held
      /\ u.bad = s.bad /\ u.deferred = s.deferred /\ u.exit = s.exit /\ u.overtaken = s.overtaken
  BY <1>1, <1>4, <1>5 DEF CallStates
<1> HIDE DEF u
<1>7. Stands(u)
  BY <1>1, <1>3, <1>6 DEF Stands, Goes, Opened
<1> QED
  BY <1>1, <1>4, <1>6, <1>7, GoesOn DEF u

\* What is closed, or given away.
LEMMA ShutKeeps ==
  ASSUME NEW p, NEW s, Runs(s, p, {"close", "closeif", "give", "maygive"})
  PROVE  CallInv(On(Shut(s, Range(Here(s).res))), p)
<1> DEFINE rs == Range(Here(s).res)
           w == Shut(s, rs)
           u == On(w)
           a == Places[s.fn][s.pc]
           b == Places[s.fn][s.pc + 1]
<1>1. /\ s \in CallStates /\ Going(s) /\ Stands(s) /\ s.pc \in Nat /\ s.pc + 1 \in 1 .. Len(Code[s.fn]) + 1
      /\ CallInv(s, p) /\ s.exit = "running" /\ s.pc <= Len(Code[s.fn]) /\ Here(s).op # "path"
  BY AtRuns DEF Runs
<1>2. Goes(Minus(a, rs), b)
  BY AtRuns DEF Follows, Runs
<1> HIDE DEF rs
<1>3. /\ w \in CallStates /\ w.fn = s.fn /\ w.pc = s.pc /\ w.drive = s.drive /\ w.at = s.at /\ w.held = s.held \ rs
      /\ w.bad = s.bad \ rs /\ w.deferred = s.deferred /\ w.exit = s.exit /\ w.overtaken = s.overtaken
  BY <1>1 DEF Shut, CallStates
<1> HIDE DEF w
<1>4. /\ u \in CallStates /\ u.fn = s.fn /\ u.pc = s.pc + 1 /\ u.drive = s.drive /\ u.at = s.at
      /\ u.held = s.held \ rs
      /\ u.bad = s.bad \ rs /\ u.deferred = s.deferred /\ u.exit = s.exit /\ u.overtaken = s.overtaken
  BY <1>3, OnFields
<1> HIDE DEF u
<1>5. Stands(u)
  BY <1>1, <1>2, <1>4 DEF Stands, Goes, Minus, Place, Opened
<1> QED
  BY <1>1, <1>4, <1>5, GoesOn DEF u, w, rs

\* A destructor that is set.
LEMMA DeferKeeps ==
  ASSUME NEW p, NEW s, Runs(s, p, {"defer"})
  PROVE  CallInv([On(s) EXCEPT !.deferred = Here(s).res \o @], p)
<1> DEFINE call == Here(s)
           w == On(s)
           u == [w EXCEPT !.deferred = call.res \o @]
           a == Places[s.fn][s.pc]
           b == Places[s.fn][s.pc + 1]
<1>1. /\ s \in CallStates /\ Going(s) /\ Stands(s) /\ s.pc \in Nat /\ s.pc + 1 \in 1 .. Len(Code[s.fn]) + 1
      /\ CallInv(s, p) /\ s.exit = "running" /\ s.pc <= Len(Code[s.fn]) /\ Here(s).op # "path"
      /\ Range(call.res) \subseteq Resources
  BY AtRuns DEF Runs
<1>2. call.res = <<call.res[1]>> /\ Goes(Place(a.must, a.can, call.res \o a.left), b)
  BY AtRuns DEF Follows, Runs
<1>3. call.res \in Seq(Resources)
  <2> DEFINE x == call.res[1]
  <2>1. call.res = <<x>>
    BY <1>2
  <2> HIDE DEF x
  <2>2. x \in Range(<<x>>)
    BY DEF Range
  <2>3. x \in Resources
    BY <1>1, <2>1, <2>2
  <2> QED
    BY <2>1, <2>3
<1> HIDE DEF call
<1>4. /\ w \in CallStates /\ w.fn = s.fn /\ w.pc = s.pc + 1 /\ w.drive = s.drive /\ w.at = s.at /\ w.held = s.held
      /\ w.bad = s.bad /\ w.deferred = s.deferred /\ w.exit = s.exit /\ w.overtaken = s.overtaken
  BY <1>1, OnFields
<1> HIDE DEF w
<1>5. call.res \o w.deferred \in Seq(Resources)
  <2>1. w.deferred \in Seq(Resources)
    BY <1>4 DEF CallStates
  <2> QED
    BY <1>3, <2>1, ConcatProperties
<1>6. /\ u \in CallStates /\ u.fn = s.fn /\ u.pc = s.pc + 1 /\ u.drive = s.drive /\ u.at = s.at /\ u.held = s.held
      /\ u.bad = s.bad /\ u.deferred = call.res \o s.deferred /\ u.exit = s.exit /\ u.overtaken = s.overtaken
  BY <1>4, <1>5 DEF CallStates
<1>7. Stands(u)
  <2> HIDE DEF u
  <2> QED
    BY <1>1, <1>2, <1>6 DEF Stands, Goes, Place, Opened
<1>8. CallInv(u, p)
  <2> HIDE DEF u
  <2> QED
    BY <1>1, <1>6, <1>7, GoesOn
<1> QED
  BY <1>8 DEF w, call

\* The end of the body.
LEMMA BodyKeeps ==
  ASSUME NEW p, NEW s, CallInv(s, p), Going(s), s.exit = "running", s.pc > Len(Code[s.fn])
  PROVE  CallInv(Out(s, "done"), p)
<1> DEFINE u == Out(s, "done")
           n == Len(Code[s.fn])
           a == Places[s.fn][n + 1]
<1>1. s \in CallStates /\ Walk(s.fn, Code[s.fn], Places[s.fn])
  BY EveryWalk DEF CallInv, Going
<1>2. n \in Nat /\ s.pc = n + 1
  BY <1>1 DEF Walk, Going, CallStates
<1>3. Ends(a, Keeps(s.fn, "done")) /\ InTurn(a.left)
  <2>1. n + 1 \in 1 .. n + 1
    BY <1>2
  <2> QED
    BY <1>1, <2>1 DEF Walk, PlaceFits
<1>4. ~ AtLeave(s)
  BY <1>2 DEF AtLeave
<1>5. Stands(s)
  BY <1>4 DEF Going
<1>6. /\ u \in CallStates /\ u.fn = s.fn /\ u.pc = s.pc /\ u.drive = s.drive /\ u.at = s.at /\ u.held = s.held
      /\ u.bad = s.bad /\ u.deferred = s.deferred /\ u.exit = "done" /\ u.overtaken = s.overtaken
  BY <1>1 DEF Out, CallStates, Exits
<1> HIDE DEF u
<1>7. Ended(u)
  BY <1>2, <1>3, <1>5, <1>6 DEF Ended, Ends, Stands, Opened
<1>8. u.exit \in Exits
  BY <1>6 DEF Exits
<1> QED
  BY <1>6, <1>7, <1>8, GoesOut DEF u

\* What is left when the first destructor has gone.
LEMMA FirstGone ==
  ASSUME NEW S, NEW d \in Seq(S), d # <<>>, InTurn(d)
  PROVE  LET e == RemoveAt(d, 1)
         IN  e \in Seq(S) /\ InTurn(e) /\ Range(e) = Range(d) \ {d[1]} /\ d[1] \in Range(d)
<1> DEFINE e == RemoveAt(d, 1)
           n == Len(d)
<1>1. n \in Nat /\ n >= 1 /\ DOMAIN d = 1 .. n
  OBVIOUS
<1>2. e = SubSeq(d, 1, 0) \o SubSeq(d, 2, n)
  BY DEF RemoveAt
<1>3. SubSeq(d, 1, 0) = <<>>
  OBVIOUS
<1>4. /\ SubSeq(d, 2, n) \in Seq(S) /\ Len(SubSeq(d, 2, n)) = n - 1
      /\ \A h \in 1 .. n - 1 : SubSeq(d, 2, n)[h] = d[h + 1]
  BY <1>1
<1>5. e \in Seq(S) /\ DOMAIN e = 1 .. n - 1 /\ \A h \in 1 .. n - 1 : e[h] = d[h + 1]
  BY <1>2, <1>3, <1>4
<1> HIDE DEF e, n
<1>6. \A h, j \in 1 .. n : d[h] = d[j] => h = j
  BY <1>1 DEF InTurn
<1>7. Range(e) = Range(d) \ {d[1]}
  <2>1. ASSUME NEW x \in Range(e) PROVE x \in Range(d) \ {d[1]}
    <3>1. PICK h \in 1 .. n - 1 : x = d[h + 1]
      BY <1>5 DEF Range
    <3>2. h + 1 \in 1 .. n /\ 1 \in 1 .. n /\ h + 1 # 1
      BY <1>1
    <3> QED
      BY <1>1, <1>6, <3>1, <3>2 DEF Range
  <2>2. ASSUME NEW x \in Range(d), x # d[1] PROVE x \in Range(e)
    <3>1. PICK h \in 1 .. n : x = d[h]
      BY <1>1 DEF Range
    <3>2. h - 1 \in 1 .. n - 1 /\ (h - 1) + 1 = h
      BY <1>1, <2>2, <3>1
    <3> QED
      BY <1>5, <3>1, <3>2 DEF Range
  <2> QED
    BY <2>1, <2>2
<1>8. InTurn(e)
  <2>1. ASSUME NEW h \in 1 .. n - 1, NEW j \in 1 .. n - 1, e[h] = e[j] PROVE h = j
    <3>1. h + 1 \in 1 .. n /\ j + 1 \in 1 .. n /\ d[h + 1] = d[j + 1]
      BY <1>1, <1>5, <2>1
    <3> QED
      BY <1>6, <3>1
  <2>2. ASSUME NEW h \in 1 .. n - 1, e[h] \in Made PROVE \E j \in 1 .. n - 1 : j > h /\ e[j] = "windowDC"
    <3>1. h + 1 \in 1 .. n /\ d[h + 1] \in Made
      BY <1>1, <1>5, <2>2
    <3>2. PICK j \in 1 .. n : j > h + 1 /\ d[j] = "windowDC"
      BY <1>1, <3>1 DEF InTurn
    <3>3. j - 1 \in 1 .. n - 1 /\ j - 1 > h /\ (j - 1) + 1 = j
      BY <1>1, <3>2
    <3> QED
      BY <1>5, <3>2, <3>3
  <2> QED
    BY <1>5, <2>1, <2>2 DEF InTurn
<1>9. d[1] \in Range(d)
  BY <1>1 DEF Range
<1> QED
  BY <1>5, <1>7, <1>8, <1>9 DEF e

\* A destructor closes what it was set for.
LEMMA ReleaseKeeps ==
  ASSUME NEW p, NEW s, CallInv(s, p), Going(s), s.exit # "running" \/ AtLeave(s), s.deferred # <<>>
  PROVE  CallInv([Shut(s, {s.deferred[1]}) EXCEPT !.deferred = RemoveAt(@, 1)], p)
<1> DEFINE d == s.deferred
           w == Shut(s, {d[1]})
           u == [w EXCEPT !.deferred = RemoveAt(@, 1)]
<1>1. s \in CallStates /\ d \in Seq(Resources)
  BY DEF CallInv, CallStates
<1>2. InTurn(d)
  BY DEF Going, Ended, Empties
<1>3. /\ RemoveAt(d, 1) \in Seq(Resources) /\ InTurn(RemoveAt(d, 1)) /\ Range(RemoveAt(d, 1)) = Range(d) \ {d[1]}
      /\ d[1] \in Range(d)
  BY <1>1, <1>2, FirstGone
<1>4. /\ w \in CallStates /\ w.fn = s.fn /\ w.pc = s.pc /\ w.drive = s.drive /\ w.at = s.at
      /\ w.held = s.held \ {d[1]}
      /\ w.bad = s.bad \ {d[1]} /\ w.deferred = d /\ w.exit = s.exit /\ w.overtaken = s.overtaken
  BY <1>1 DEF Shut, CallStates
<1> HIDE DEF w
<1>5. /\ u \in CallStates /\ u.fn = s.fn /\ u.pc = s.pc /\ u.drive = s.drive /\ u.at = s.at
      /\ u.held = s.held \ {d[1]}
      /\ u.bad = s.bad \ {d[1]} /\ u.deferred = RemoveAt(d, 1) /\ u.exit = s.exit /\ u.overtaken = s.overtaken
  BY <1>3, <1>4 DEF CallStates
<1>6. CallInv(u, p)
  <2> HIDE DEF u
  <2>1. AtLeave(u) <=> AtLeave(s)
    BY <1>5 DEF AtLeave, Here
  <2>2. CASE s.exit # "running"
    <3>1. Ended(u)
      BY <1>3, <1>5, <2>2 DEF Going, Ended, Opened
    <3> QED
      BY <1>5, <2>2, <3>1 DEF CallInv, Going, DriveKnown
  <2>3. CASE s.exit = "running"
    <3>1. Empties(u)
      BY <1>3, <1>5, <2>3 DEF Going, Empties, Opened
    <3> QED
      BY <1>5, <2>1, <2>3, <3>1 DEF CallInv, Going, DriveKnown
  <2> QED
    BY <2>2, <2>3
<1> QED
  BY <1>6 DEF w

\* The end of an inner function.
LEMMA LeaveKeeps ==
  ASSUME NEW p, NEW s, Runs(s, p, {"leave"}), s.deferred = <<>>
  PROVE  CallInv(On(s), p)
<1> DEFINE u == On(s)
           a == Places[s.fn][s.pc]
           b == Places[s.fn][s.pc + 1]
<1>1. s \in CallStates /\ Going(s) /\ AtLeave(s) /\ s.exit = "running" /\ CallInv(s, p) /\ Here(s).op = "leave"
  BY DEF Runs, CallInv, AtLeave
<1>2. Opened(s) = {}
  BY <1>1, RangeOf DEF Going, Empties, Runs
<1>3. s.pc \in Nat /\ s.pc + 1 \in 1 .. Len(Code[s.fn]) + 1 /\ Goes(None, b)
  BY <1>1, AtCall DEF Follows, AtLeave, CallStates
<1>4. /\ u \in CallStates /\ u.fn = s.fn /\ u.pc = s.pc + 1 /\ u.drive = s.drive /\ u.at = s.at /\ u.held = s.held
      /\ u.bad = s.bad /\ u.deferred = s.deferred /\ u.exit = s.exit /\ u.overtaken = s.overtaken
  BY <1>1, OnFields
<1> HIDE DEF u
<1>5. Stands(u)
  <2>1. b.must = {} /\ b.left = <<>>
    BY <1>3 DEF Goes, None, Holds, Place
  <2> QED
    BY <1>2, <1>4, <2>1 DEF Stands, Opened
<1>6. u.pc > s.pc
  BY <1>3, <1>4
<1> QED
  BY <1>1, <1>3, <1>4, <1>5, <1>6, GoesOn DEF u, AtLeave

\* No GDI object is kept.
LEMMA NothingMade ==
  ASSUME NEW fn, NEW e, NEW r \in Made
  PROVE  r \notin Keeps(fn, e)
<1>1. r \notin {"process", "thread", "disk", "memory", "file", "snapshot", "buffer"}
  BY DEF Made
<1> QED
  BY <1>1 DEF Keeps

\* A thread that calls nothing.
LEMMA IdleKeeps ==
  ASSUME NEW p
  PROVE  Idle \in CallStates /\ CallInv(Idle, p)
<1>1. <<>> \in Seq(Resources)
  BY EmptySeq
<1>2. Idle \in CallStates
  BY <1>1 DEF Idle, CallStates
<1> QED
  BY <1>2 DEF CallInv, DriveKnown, Idle

\* The start of a function.
LEMMA CallKeeps ==
  ASSUME NEW p, NEW fn \in DOMAIN Code, NEW d \in Drives \cup {"none"}, fn \in Statics => d \in Drives
  PROVE  CallInv([Idle EXCEPT !.fn = fn, !.pc = 1, !.drive = d, !.exit = "running"], p)
<1> DEFINE u == [Idle EXCEPT !.fn = fn, !.pc = 1, !.drive = d, !.exit = "running"]
<1>1. <<>> \in Seq(Resources)
  BY EmptySeq
<1>2. /\ u \in CallStates /\ u.fn = fn /\ u.pc = 1 /\ u.drive = d /\ u.at = "none" /\ u.held = {} /\ u.bad = {}
      /\ u.deferred = <<>> /\ u.exit = "running" /\ u.overtaken = FALSE
  BY <1>1 DEF Idle, CallStates
<1> HIDE DEF u
<1>3. Walk(fn, Code[fn], Places[fn])
  BY EveryWalk
<1>4. Len(Code[fn]) \in Nat /\ Places[fn][1] = None
  BY <1>3 DEF Walk
<1>5. Stands(u)
  BY <1>2, <1>4 DEF Stands, Opened, None, Holds, Place
<1>6. 1 \in 1 .. Len(Code[fn]) + 1
  BY <1>4
<1>7. Going(u)
  BY <1>2, <1>5, <1>6, Arrives
<1> QED
  BY <1>2, <1>7 DEF CallInv, DriveKnown, u

\* The path is written: by the call itself,
LEMMA PathKeeps ==
  ASSUME NEW p \in Paths, NEW s, Runs(s, p, {"path"})
  PROVE  /\ s.fn \in Statics /\ s.drive \in Drives
         /\ CallInv(On(s), [p EXCEPT ![s.fn] = s.drive])
<1> DEFINE u == On(s)
           q == [p EXCEPT ![s.fn] = s.drive]
           a == Places[s.fn][s.pc]
           b == Places[s.fn][s.pc + 1]
<1>1. /\ s \in CallStates /\ Going(s) /\ Stands(s) /\ s.pc \in Nat /\ s.pc + 1 \in 1 .. Len(Code[s.fn]) + 1
      /\ CallInv(s, p) /\ s.exit = "running" /\ s.pc <= Len(Code[s.fn])
  BY AtRuns DEF Runs
<1>2. Goes(a, b) /\ s.fn \in Statics
  BY AtRuns DEF Follows, Runs
<1>3. s.fn \in DOMAIN Code /\ s.drive \in Drives
  BY <1>1, <1>2 DEF Going
<1>4. /\ u \in CallStates /\ u.fn = s.fn /\ u.pc = s.pc + 1 /\ u.drive = s.drive /\ u.at = s.at /\ u.held = s.held
      /\ u.bad = s.bad /\ u.deferred = s.deferred /\ u.exit = s.exit /\ u.overtaken = s.overtaken
  BY <1>1, OnFields
<1> HIDE DEF u
<1>5. Stands(u)
  BY <1>1, <1>2, <1>4 DEF Stands, Goes, Opened
<1>6. Going(u)
  BY <1>1, <1>3, <1>4, <1>5, Arrives
<1>7. q[s.fn] = s.drive
  BY <1>2 DEF Paths
<1>8. u.at \in {"none", u.drive} \/ u.overtaken
  BY <1>1, <1>4 DEF CallInv, DriveKnown
<1>9. DriveKnown(u, q)
  BY <1>4, <1>7, <1>8 DEF DriveKnown
<1> QED
  BY <1>2, <1>3, <1>4, <1>6, <1>9 DEF CallInv, u

\* or by a call of another thread.
LEMMA OthersKeep ==
  ASSUME NEW p \in Paths, NEW s, CallInv(s, p), NEW fn \in Statics, NEW d,
         NEW u, u = IF s.fn = fn /\ s.exit = "running" /\ s.pc <= Len(Code[s.fn]) /\ Here(s).op \in {"unchecked"}
                    THEN [s EXCEPT !.overtaken = TRUE] ELSE s
  PROVE  u \in CallStates /\ CallInv(u, [p EXCEPT ![fn] = d])
<1> DEFINE q == [p EXCEPT ![fn] = d]
           v == [s EXCEPT !.overtaken = TRUE]
<1>1. s \in CallStates
  BY DEF CallInv
<1>2. \A f \in Statics : f # fn => q[f] = p[f]
  BY DEF Paths
<1>3. CASE s.fn = fn /\ s.exit = "running" /\ s.pc <= Len(Code[s.fn]) /\ Here(s).op \in {"unchecked"}
  <2>1. /\ v \in CallStates /\ v.fn = s.fn /\ v.pc = s.pc /\ v.drive = s.drive /\ v.at = s.at /\ v.held = s.held
        /\ v.bad = s.bad /\ v.deferred = s.deferred /\ v.exit = s.exit /\ v.overtaken = TRUE
    BY <1>1 DEF CallStates
  <2> HIDE DEF v
  <2>2. Going(s)
    BY <1>3 DEF CallInv, Idle
  <2>3. AtLeave(v) <=> AtLeave(s)
    BY <2>1 DEF AtLeave, Here
  <2>4. Going(v)
    BY <2>1, <2>2, <2>3 DEF Going, Ended, Empties, Stands, Opened
  <2> QED
    BY <1>3, <2>1, <2>4 DEF CallInv, DriveKnown, v
<1>4. CASE ~ (s.fn = fn /\ s.exit = "running" /\ s.pc <= Len(Code[s.fn]) /\ Here(s).op \in {"unchecked"})
  <2>1. u = s
    BY <1>4
  <2>2. ~ (s.fn = fn /\ s.exit = "running" /\ s.pc = 2)
    <3>1. SUFFICES ASSUME s.fn = fn, s.exit = "running", s.pc = 2 PROVE FALSE
      OBVIOUS
    <3>2. s.fn \in DOMAIN Code
      BY <3>1 DEF CallInv, Going, Idle
    <3>3. Walk(s.fn, Code[s.fn], Places[s.fn])
      BY <3>2, EveryWalk
    <3>4. 2 \in 1 .. Len(Code[s.fn]) /\ 2 <= Len(Code[s.fn])
      BY <3>1, <3>3 DEF Walk
    <3>5. Here(s).op = "unchecked"
      BY <3>1, <3>3, <3>4 DEF Walk, Follows, Here
    <3> QED
      BY <1>4, <3>1, <3>4, <3>5
  <2>3. DriveKnown(s, q)
    BY <1>2, <2>2 DEF CallInv, DriveKnown
  <2> QED
    BY <1>1, <2>1, <2>3 DEF CallInv
<1> QED
  BY <1>3, <1>4

\* One call of one thread steps, and the paths stay.
LEMMA OneSteps ==
  ASSUME CallsInv, NEW t \in Threads, NEW u, CallInv(u, path), Put(t, u), UNCHANGED path
  PROVE  CallsInv'
<1>1. u \in CallStates
  BY DEF CallInv
<1>2. th' = [th EXCEPT ![t] = u] /\ path' = path
  BY DEF Put
<1>3. th' \in [Threads -> CallStates] /\ \A x \in Threads : CallInv(th'[x], path)
  BY <1>1, <1>2 DEF CallsInv
<1> QED
  BY <1>2, <1>3 DEF CallsInv

LEMMA CallsInitInv == CallsInit => CallsInv
<1> SUFFICES ASSUME CallsInit PROVE CallsInv
  OBVIOUS
<1>1. th \in [Threads -> CallStates] /\ path \in Paths
  BY IdleKeeps DEF CallsInit, Paths
<1>2. \A t \in Threads : CallInv(th[t], path)
  BY IdleKeeps DEF CallsInit
<1> QED
  BY <1>1, <1>2 DEF CallsInv

LEMMA CallsNextInv == CallsInv /\ [CallsNext]_callVars => CallsInv'
<1> SUFFICES ASSUME CallsInv, [CallsNext]_callVars PROVE CallsInv'
  OBVIOUS
<1> USE DEF Exits
<1>0. CASE UNCHANGED callVars
  BY <1>0 DEF callVars, CallsInv
<1>1. SUFFICES ASSUME NEW t \in Threads,
                      \/ \E fn \in Calls[t] : \E d \in IF fn \in Statics THEN Drives ELSE {"none"} : Call(t, fn, d)
                      \/ Acquire(t) \/ Allocate(t) \/ WritePath(t) \/ AcquireUnchecked(t) \/ TryCall(t) \/ AskSerial(t)
                      \/ Branch(t) \/ MayThrow(t) \/ UseIt(t) \/ GiveBack(t) \/ MayGiveAway(t) \/ SetResDeleter(t)
                      \/ ExitEarly(t) \/ EndOfBody(t) \/ Release(t) \/ LeaveInner(t) \/ Return(t)
               PROVE  CallsInv'
  BY <1>0 DEF CallsNext
<1> DEFINE s == th[t]
<1>2. CallInv(s, path) /\ s \in CallStates /\ path \in Paths
  BY DEF CallsInv
<1>3. s.exit # "returned" => Going(s)
  BY <1>2 DEF CallInv, Idle
<1>4. \A ops : At(t, ops) => Runs(s, path, ops)
  BY <1>2, <1>3 DEF At, Runs
<1> HIDE DEF Exits
<1>5. ASSUME NEW fn \in Calls[t], NEW d \in IF fn \in Statics THEN Drives ELSE {"none"}, Call(t, fn, d)
      PROVE  CallsInv'
  <2>1. fn \in DOMAIN Code /\ d \in Drives \cup {"none"} /\ (fn \in Statics => d \in Drives)
    BY FunctionsAssumption
  <2>2. CallInv([Idle EXCEPT !.fn = fn, !.pc = 1, !.drive = d, !.exit = "running"], path)
    BY <2>1, CallKeeps
  <2> QED
    BY <1>5, <2>2, OneSteps DEF Call
<1>6. CASE Acquire(t)
  <2>1. Runs(s, path, {"open", "new"}) /\ Runs(s, path, {"open", "try", "ask"})
    BY <1>4, <1>6 DEF Acquire, Runs
  <2>2. CallInv(Got(s), path) /\ CallInv(Failed(s), path)
    BY <2>1, GotKeeps, FailedKeeps
  <2> QED
    BY <1>6, <2>2, OneSteps DEF Acquire
<1>7. CASE Allocate(t)
  <2>1. Runs(s, path, {"open", "new"}) /\ Runs(s, path, {"new", "throws"})
    BY <1>4, <1>7 DEF Allocate, Runs
  <2>2. CallInv(Got(s), path) /\ CallInv(Out(s, "throw"), path)
    BY <2>1, GotKeeps, OutKeeps
  <2> QED
    BY <1>7, <2>2, OneSteps DEF Allocate
<1>8. CASE WritePath(t)
  <2>1. Runs(s, path, {"path"})
    BY <1>4, <1>8 DEF WritePath
  <2> DEFINE q == [path EXCEPT ![s.fn] = s.drive]
  <2>2. path' = q
    BY <1>8 DEF WritePath, PathOf
  <2>3. s.fn \in Statics /\ s.drive \in Drives /\ CallInv(On(s), q)
    BY <1>2, <2>1, PathKeeps
  <2>4. q \in Paths
    BY <1>2, <2>3 DEF Paths
  <2> HIDE DEF q
  <2>5. ASSUME NEW u \in Threads PROVE th'[u] \in CallStates /\ CallInv(th'[u], q)
    <3>1. CASE u = t
      <4>1. th'[u] = On(s)
        BY <1>8, <3>1 DEF WritePath
      <4> QED
        BY <2>3, <4>1 DEF CallInv
    <3>2. CASE u # t
      <4>1. th'[u] = IF th[u].fn = s.fn /\ th[u].exit = "running" /\ th[u].pc <= Len(Code[th[u].fn])
                         /\ Here(th[u]).op \in {"unchecked"}
                     THEN [th[u] EXCEPT !.overtaken = TRUE] ELSE th[u]
        BY <1>8, <3>2 DEF WritePath, At
      <4>2. CallInv(th[u], path)
        BY DEF CallsInv
      <4> QED
        BY <1>2, <2>3, <4>1, <4>2, OthersKeep DEF q
    <3> QED
      BY <3>1, <3>2
  <2>6. th' \in [Threads -> CallStates]
    <3>1. th' = [u \in Threads |-> th'[u]]
      BY <1>8 DEF WritePath
    <3> QED
      BY <2>5, <3>1
  <2> QED
    BY <2>2, <2>4, <2>5, <2>6 DEF CallsInv
<1>9. CASE AcquireUnchecked(t)
  <2>1. Runs(s, path, {"unchecked"})
    BY <1>4, <1>9 DEF AcquireUnchecked
  <2>2. CallInv([Got(s) EXCEPT !.at = path[s.fn]], path) /\ CallInv([On(s) EXCEPT !.bad = Range(Here(s).res)], path)
    BY <1>2, <2>1, UncheckedKeeps
  <2> QED
    BY <1>9, <2>2, OneSteps DEF AcquireUnchecked, PathOf
<1>10. CASE TryCall(t)
  <2>1. Runs(s, path, {"open", "try", "ask"}) /\ Runs(s, path, {"try", "ask", "may", "throws", "use", "maygive"})
    BY <1>4, <1>10 DEF TryCall, Runs
  <2>2. CallInv(On(s), path) /\ CallInv(Failed(s), path)
    BY <2>1, OnKeeps, FailedKeeps
  <2> QED
    BY <1>10, <2>2, OneSteps DEF TryCall
<1>11. CASE AskSerial(t)
  <2>1. /\ Runs(s, path, {"open", "try", "ask"}) /\ Runs(s, path, {"try", "ask", "may", "throws", "use", "maygive"})
        /\ Runs(s, path, {"ask"})
    BY <1>4, <1>11 DEF AskSerial, Runs
  <2>2. CallInv(On(s), path) /\ CallInv(Failed(s), path) /\ CallInv(Out(s, "found"), path)
    BY <2>1, OnKeeps, FailedKeeps, OutKeeps
  <2> QED
    BY <1>11, <2>2, OneSteps DEF AskSerial
<1>12. CASE Branch(t)
  <2>1. Runs(s, path, {"may"}) /\ Runs(s, path, {"try", "ask", "may", "throws", "use", "maygive"})
    BY <1>4, <1>12 DEF Branch, Runs
  <2>2. CallInv(On(s), path) /\ CallInv([s EXCEPT !.pc = @ + 1 + Here(s).skip], path)
    BY <2>1, OnKeeps, BranchKeeps
  <2> QED
    BY <1>12, <2>2, OneSteps DEF Branch
<1>13. CASE MayThrow(t)
  <2>1. Runs(s, path, {"new", "throws"}) /\ Runs(s, path, {"try", "ask", "may", "throws", "use", "maygive"})
    BY <1>4, <1>13 DEF MayThrow, Runs
  <2>2. CallInv(On(s), path) /\ CallInv(Out(s, "throw"), path)
    BY <2>1, OnKeeps, OutKeeps
  <2> QED
    BY <1>13, <2>2, OneSteps DEF MayThrow
<1>14. CASE UseIt(t)
  <2>1. Runs(s, path, {"try", "ask", "may", "throws", "use", "maygive"})
    BY <1>4, <1>14 DEF UseIt, Runs
  <2> QED
    BY <1>14, <2>1, OnKeeps, OneSteps DEF UseIt
<1>15. CASE GiveBack(t)
  <2>1. Runs(s, path, {"close", "closeif", "give", "maygive"})
    BY <1>4, <1>15 DEF GiveBack, Runs
  <2> QED
    BY <1>15, <2>1, ShutKeeps, OneSteps DEF GiveBack
<1>16. CASE MayGiveAway(t)
  <2>1. /\ Runs(s, path, {"close", "closeif", "give", "maygive"})
        /\ Runs(s, path, {"try", "ask", "may", "throws", "use", "maygive"})
    BY <1>4, <1>16 DEF MayGiveAway, Runs
  <2>2. CallInv(On(s), path) /\ CallInv(On(Shut(s, Range(Here(s).res))), path)
    BY <2>1, OnKeeps, ShutKeeps
  <2> QED
    BY <1>16, <2>2, OneSteps DEF MayGiveAway
<1>17. CASE SetResDeleter(t)
  <2>1. Runs(s, path, {"defer"})
    BY <1>4, <1>17 DEF SetResDeleter
  <2> QED
    BY <1>17, <2>1, DeferKeeps, OneSteps DEF SetResDeleter
<1>18. CASE ExitEarly(t)
  <2>1. Runs(s, path, {"exit"})
    BY <1>4, <1>18 DEF ExitEarly
  <2>2. CallInv(Out(s, "done"), path)
    BY <2>1, OutKeeps
  <2> QED
    BY <1>18, <2>2, OneSteps DEF ExitEarly
<1>19. CASE EndOfBody(t)
  <2>1. s.exit = "running" /\ Going(s) /\ s.pc > Len(Code[s.fn])
    BY <1>3, <1>19 DEF EndOfBody
  <2>2. CallInv(Out(s, "done"), path)
    BY <1>2, <2>1, BodyKeeps
  <2> QED
    BY <1>19, <2>2, OneSteps DEF EndOfBody
<1>20. CASE Release(t)
  <2>1. s.deferred # <<>> /\ Going(s) /\ (s.exit # "running" \/ AtLeave(s))
    BY <1>3, <1>20 DEF Release, Leaves, At, AtLeave
  <2>2. CallInv([Shut(s, {s.deferred[1]}) EXCEPT !.deferred = RemoveAt(@, 1)], path)
    BY <1>2, <2>1, ReleaseKeeps
  <2>3. Put(t, [Shut(s, {s.deferred[1]}) EXCEPT !.deferred = RemoveAt(@, 1)]) /\ UNCHANGED path
    BY <1>20 DEF Release, NextReleased
  <2> QED
    BY <2>2, <2>3, OneSteps
<1>21. CASE LeaveInner(t)
  <2>1. Runs(s, path, {"leave"}) /\ s.deferred = <<>>
    BY <1>4, <1>21 DEF LeaveInner
  <2> QED
    BY <1>21, <2>1, LeaveKeeps, OneSteps DEF LeaveInner
<1>22. CASE Return(t)
  BY <1>22, IdleKeeps, OneSteps DEF Return
<1> QED
  BY <1>1, <1>5, <1>6, <1>7, <1>8, <1>9, <1>10, <1>11, <1>12, <1>13, <1>14, <1>15, <1>16, <1>17, <1>18, <1>19, <1>20,
     <1>21, <1>22

\* What the invariant says of the calls.
LEMMA CallsGiveBack == CallsInv => GivenBack
<1> SUFFICES ASSUME CallsInv PROVE GivenBack
  OBVIOUS
<1>0. path \in [Statics -> Drives \union {"?"}]
  BY DEF CallsInv, Paths
<1> SUFFICES ASSUME NEW t \in Threads
             PROVE  LET s == th[t]  open == s.held \union s.bad
                    IN  /\ s.fn \in DOMAIN Code \union {"none"}
                        /\ s.fn # "none" => s.pc \in 1 .. Len(Code[s.fn]) + 1
                        /\ s.drive \in Drives \union {"none"} /\ s.at \in Drives \union {"none", "?"}
                        /\ s.held \subseteq Resources /\ s.bad \subseteq {"disk"}
                        /\ s.deferred \in Seq(Resources)
                        /\ s.exit \in {"running", "done", "found", "fail", "throw", "returned"}
                        /\ s.overtaken \in BOOLEAN
                        /\ Returning(s) => s.held \subseteq Keeps(s.fn, s.exit)
                        /\ At(t, {"try", "ask", "use", "close", "give", "maygive", "defer"}) =>
                             Range(Here(s).res) \subseteq open
                        /\ Leaves(t) => Range(s.deferred) \subseteq open
                        /\ At(t, {"open", "new", "unchecked"}) => Range(Here(s).res) \intersect open = {}
                        /\ {"memoryDC", "bitmap"} \intersect s.held # {} => "windowDC" \in s.held
                        /\ s.at \in {"none", s.drive} \/ s.overtaken
  BY <1>0 DEF GivenBack, CallsTyped, NothingLeft, UsesOpen, MadeFrom, RightDrive
<1> DEFINE s == th[t]
           open == s.held \union s.bad
<1>1. s \in CallStates /\ CallInv(s, path)
  BY DEF CallsInv
<1>2. CASE s = Idle
  BY <1>1, <1>2 DEF Idle, CallStates, Returning, At, Leaves, Exits, CallInv, DriveKnown
<1>3. CASE Going(s)
  <2> HIDE DEF s
  <2>1. /\ s.fn \in DOMAIN Code /\ s.pc \in 1 .. Len(Code[s.fn]) + 1 /\ s.drive \in Drives \union {"none"}
        /\ s.at \in Drives \union {"none", "?"} /\ s.held \subseteq Resources /\ s.bad \subseteq {"disk"}
        /\ s.deferred \in Seq(Resources) /\ s.overtaken \in BOOLEAN
        /\ s.exit \in {"running", "done", "found", "fail", "throw", "returned"}
    BY <1>1, <1>3 DEF Going, CallStates, Exits
  <2>2. s.at \in {"none", s.drive} \/ s.overtaken
    BY <1>1 DEF CallInv, DriveKnown
  <2>3. Returning(s) => s.held \subseteq Keeps(s.fn, s.exit)
    <3>1. SUFFICES ASSUME Returning(s) PROVE s.held \subseteq Keeps(s.fn, s.exit)
      OBVIOUS
    <3>2. Ended(s) /\ s.deferred = <<>>
      BY <1>3, <3>1 DEF Returning, Going
    <3> QED
      BY <3>2, RangeOf DEF Ended
  <2>4. ASSUME NEW ops, "leave" \notin ops, At(t, ops)
        PROVE  Runs(s, path, ops)
    BY <1>1, <1>3, <2>4 DEF At, Runs, s
  <2>5. At(t, {"try", "ask", "use", "close", "give", "maygive", "defer"}) => Range(Here(s).res) \subseteq open
    <3>1. SUFFICES ASSUME At(t, {"try", "ask", "use", "close", "give", "maygive", "defer"})
                   PROVE  Range(Here(s).res) \subseteq open
      OBVIOUS
    <3>2. Runs(s, path, {"try", "ask", "use", "close", "give", "maygive", "defer"})
      BY <2>4, <3>1
    <3>3. Stands(s) /\ Range(Here(s).res) \subseteq Places[s.fn][s.pc].must
      BY <3>2, AtRuns DEF Follows, Runs
    <3> QED
      BY <3>3 DEF Stands, Opened
  <2>6. At(t, {"open", "new", "unchecked"}) => Range(Here(s).res) \intersect open = {}
    <3>1. SUFFICES ASSUME At(t, {"open", "new", "unchecked"}) PROVE Range(Here(s).res) \intersect open = {}
      OBVIOUS
    <3>2. Runs(s, path, {"open", "new", "unchecked"})
      BY <2>4, <3>1
    <3>3. Stands(s) /\ Range(Here(s).res) \cap Places[s.fn][s.pc].can = {}
      BY <3>2, AtRuns DEF Follows, Runs
    <3> QED
      BY <3>3 DEF Stands, Opened
  <2>7. Leaves(t) => Range(s.deferred) \subseteq open
    <3>1. SUFFICES ASSUME Leaves(t) PROVE Range(s.deferred) \subseteq open
      OBVIOUS
    <3>2. s.exit # "running" \/ AtLeave(s)
      BY <3>1 DEF Leaves, At, AtLeave, s
    <3>3. Ended(s) \/ Empties(s)
      BY <1>3, <3>2 DEF Going
    <3> QED
      BY <3>3 DEF Ended, Empties, Opened
  <2>8. Made \intersect s.held # {} => "windowDC" \in s.held
    <3>1. SUFFICES ASSUME NEW r \in Made \cap s.held PROVE "windowDC" \in s.held
      OBVIOUS
    <3>2. "windowDC" \in Opened(s) => "windowDC" \in s.held
      BY <2>1 DEF Opened
    <3>3. ASSUME r \in Range(s.deferred), InTurn(s.deferred) PROVE "windowDC" \in Range(s.deferred)
      <4>1. PICK h \in DOMAIN s.deferred : s.deferred[h] = r
        BY <3>3 DEF Range
      <4>2. PICK j \in DOMAIN s.deferred : s.deferred[j] = "windowDC"
        BY <3>1, <3>3, <4>1 DEF InTurn
      <4> QED
        BY <4>2 DEF Range
    <3>4. CASE Ended(s)
      <4>1. r \notin Keeps(s.fn, s.exit)
        BY NothingMade
      <4> QED
        BY <3>1, <3>2, <3>3, <3>4, <4>1 DEF Ended
    <3>5. CASE Empties(s)
      BY <3>1, <3>2, <3>3, <3>5 DEF Empties, Opened
    <3>6. CASE Stands(s)
      <4>1. PlaceFits(Places[s.fn][s.pc])
        BY <2>1, EveryWalk DEF Walk
      <4> QED
        BY <3>1, <3>2, <3>6, <4>1 DEF Stands, PlaceFits, Opened
    <3> QED
      BY <1>3, <3>4, <3>5, <3>6 DEF Going
  <2>9. Made = {"memoryDC", "bitmap"}
    BY DEF Made
  <2> QED
    BY <2>1, <2>2, <2>3, <2>5, <2>6, <2>7, <2>8, <2>9 DEF s
<1> QED
  BY <1>1, <1>2, <1>3 DEF CallInv

\* For any number of threads, drives and kinds of bridge: whatever a function of
\* the libraries takes is used while it is open, given back once and in turn, and
\* kept on no way out but those of Keeps; and a disk function opens the drive it
\* was asked about unless a call of the same function came between.
THEOREM CallsGivenBack == CallsSpec => []GivenBack
<1>1. CallsInit => CallsInv
  BY CallsInitInv
<1>2. CallsInv /\ [CallsNext]_callVars => CallsInv'
  BY CallsNextInv
<1>3. CallsInv => GivenBack
  BY CallsGiveBack
<1> QED
  BY <1>1, <1>2, <1>3, PTL DEF CallsSpec

=============================================================================

---------------------------- MODULE SystemCalls ----------------------------
(***************************************************************************)
(* The functions of FileLib, ProcessLib, DiskLib, GdiLib, CharacterLib and *)
(* the PE loader that take something from the system or the heap and have  *)
(* to give it back on every way out: early returns, calls that fail half   *)
(* way, exceptions that InvokeFunc swallows.  A function is the sequence   *)
(* of its calls; what it reads and computes between them is left out.      *)
(* Threads run these functions side by side: two of them keep the path of  *)
(* the drive they open in a static buffer.                                 *)
(***************************************************************************)
EXTENDS Naturals, Sequences, FiniteSets, SequencesExt

CONSTANTS
  Threads,   \* threads that call the functions
  Calls,     \* Calls[t]: the functions thread t calls
  Drives,    \* drive letters they ask about
  nSatTypes  \* kinds of USB bridge that are tried: VecSatType, 6 in the code

-----------------------------------------------------------------------------
(* Instructions.  `res` are the resources taken, used or given back, `on`  *)
(* those closed in place when the call fails, `skip` how far a failed call *)
(* jumps: 0 returns from the function.                                     *)

Step(op, res, on, skip) == [op |-> op, res |-> res, on |-> on, skip |-> skip]

Open(r)         == Step("open", <<r>>, <<>>, 0)
OpenOr(r, rs)   == Step("open", <<r>>, rs, 0)      \* closes rs when it cannot open r
OpenOrSkip(r, n)== Step("open", <<r>>, <<>>, n)
OpenBoth(r, s)  == Step("open", <<r, s>>, <<>>, 0)
OpenUnchecked(r)== Step("unchecked", <<r>>, <<>>, 0)   \* tests the handle for the wrong value
Try(rs)         == Step("try", rs, <<>>, 0)        \* a call on rs that may fail
TryOr(rs, on)   == Step("try", rs, on, 0)
Ask(rs, n)      == Step("ask", rs, <<>>, n)        \* may fail, or bring nothing, or the serial number
Use(rs)         == Step("use", rs, <<>>, 0)
May(n)          == Step("may", <<>>, <<>>, n)      \* a condition not modelled: skips n or not
Throws          == Step("throws", <<>>, <<>>, 0)   \* may raise an exception
New(r)          == Step("new", <<r>>, <<>>, 0)     \* raises one when there is no memory
Close(r)        == Step("close", <<r>>, <<>>, 0)
CloseIfHeld(r)  == Step("closeif", <<r>>, <<>>, 0)
Defer(r)        == Step("defer", <<r>>, <<>>, 0)   \* SetResDeleter, or a destructor
Leave           == Step("leave", <<>>, <<>>, 0)    \* an inner function returns
Give(rs)        == Step("give", rs, <<>>, 0)       \* to the caller, or to the system
MayGive(r)      == Step("maygive", <<r>>, <<>>, 0)
SetPath         == Step("path", <<>>, <<>>, 0)
Exit            == Step("exit", <<>>, <<>>, 0)

-----------------------------------------------------------------------------
(* CFile.  The FILE* is closed on every return; nothing closes it when an  *)
(* exception passes.                                                       *)

ReadUnicodeFile == <<Open("file"), Throws, Use(<<"file">>), Throws, Close("file")>>
ReadASCIIFile == ReadUnicodeFile
CreateUnicodeTextFile == <<Open("file"), Use(<<"file">>), Close("file")>>
CreateASCIITextFile == <<Open("file"), Close("file")>>
WriteUnicodeFile == <<May(3)>> \o CreateUnicodeTextFile \o <<Open("file"), Throws, Use(<<"file">>), Close("file")>>
WriteASCIIFile == <<May(2)>> \o CreateASCIITextFile \o <<Open("file"), Throws, Use(<<"file">>), Close("file")>>
WriteFile == <<Open("file"), Use(<<"file">>), Close("file")>>
AppendFile == WriteFile
AppendUnicodeFile == <<May(3)>> \o CreateUnicodeTextFile \o <<Open("file"), Throws, Use(<<"file">>), Close("file")>>
ClearFileContent == <<OpenOrSkip("file", 2), Close("file")>>
ReadAsciiFileLen == WriteFile

\* Mutated form of ReadContent: a read that fails keeps the memory.
ReadContentKeepsMemory ==
  <<Open("file"), TryOr(<<"file">>, <<"file">>), OpenOr("memory", <<"file">>), TryOr(<<"file">>, <<"file">>), Close("file")>>

ReadContent ==
  <<Open("file"), TryOr(<<"file">>, <<"file">>), OpenOr("memory", <<"file">>), TryOr(<<"file">>, <<"memory", "file">>), Close("file")>>

ReadFileContent == ReadContent \o <<Give(<<"memory">>)>>

\* CLogExpressionPeLoader: _bAlloc makes the destructor free what was read.
\* Mutated form of LoadPE: the destructor frees what a failed read has freed.
LoadPEFreesTwice == <<Defer("memory")>> \o ReadContent \o <<Try(<<"memory">>), Use(<<"memory">>)>>

LoadPE == ReadContent \o <<Defer("memory"), Try(<<"memory">>), Use(<<"memory">>)>>

-----------------------------------------------------------------------------
(* CCharacter. *)

Convert == <<New("buffer"), Throws, Close("buffer")>>
MakeFormatText == <<May(2), New("buffer"), Throws, CloseIfHeld("buffer")>>
CopyTextToClipboard ==
  <<Open("clipboard"), OpenOr("memory", <<"clipboard">>), MayGive("memory"), Close("clipboard")>>

-----------------------------------------------------------------------------
(* CProcess, CThread. *)

TerminateProcByPid == <<Open("process"), Use(<<"process">>), Close("process")>>
GetVecProcess == <<Open("snapshot"), TryOr(<<"snapshot">>, <<"snapshot">>), Throws, Use(<<"snapshot">>), Close("snapshot")>>
GetMainThreadId == <<Open("snapshot"), Use(<<"snapshot">>), Close("snapshot")>>
GetCpuUsageByPid == <<Open("process"), Try(<<"process">>)>>
CalcWorkSetPrivate ==
  <<Open("process"), May(3), Try(<<"process">>), Open("buffer"), TryOr(<<"process">>, <<"buffer">>), CloseIfHeld("buffer")>>
CreateProc == <<Throws, Try(<<>>), OpenBoth("process", "thread"), May(2), Give(<<"process", "thread">>), Exit, Close("process")>>

-----------------------------------------------------------------------------
(* CDiskInfo.  CreateFile answers INVALID_HANDLE_VALUE when it fails; two  *)
(* functions test for NULL.                                                *)

GetPhysicalDiskNumber == <<Open("device"), Defer("device"), Try(<<"device">>)>>
GetDiskSerialNumber_ByIdentify ==
  GetPhysicalDiskNumber \o <<Leave, Open("disk"), Defer("disk"), Try(<<"disk">>), Try(<<"disk">>), Throws>>
IsUsbDiver ==
  <<SetPath, OpenUnchecked("disk"), New("descriptor"), Defer("descriptor"), Defer("disk"), Try(<<"disk">>)>>

\* One request each for the targets 0xA0 and 0xB0; one that fails ends it.
GetUsbDriverSerialNumber_By_SatType == <<Ask(<<"disk">>, 2), Ask(<<"disk">>, 1)>>
GetUsbDriverSerailNumber_By_NvmeAsMedia == <<Ask(<<"disk">>, 1)>>
GetUsbDriverSerialNumber_By_NvmeJMicron == <<Try(<<"disk">>), Ask(<<"disk">>, 1)>>
GetDiskSerailNumber_BySCSI ==
  <<SetPath, OpenUnchecked("disk")>> \o GetUsbDriverSerailNumber_By_NvmeAsMedia
    \o FlattenSeq([type \in 1 .. nSatTypes |-> GetUsbDriverSerialNumber_By_SatType])
    \o GetUsbDriverSerialNumber_By_NvmeJMicron

-----------------------------------------------------------------------------
(* CGdiScreenshot. *)

GetScreenShotContent ==
  <<Try(<<>>), Open("windowDC"), Defer("windowDC"), Open("memoryDC"), Defer("memoryDC"), Open("bitmap"), Defer("bitmap"),
    Use(<<"windowDC", "memoryDC", "bitmap">>), Open("dib"), Defer("dib"), Try(<<"dib">>), Use(<<"memoryDC", "bitmap", "dib">>), Throws>>
Screenshot == GetScreenShotContent \o <<Leave, Open("file"), Use(<<"file">>), Close("file")>>

Code == [
  ReadUnicodeFile |-> ReadUnicodeFile, ReadASCIIFile |-> ReadASCIIFile, WriteUnicodeFile |-> WriteUnicodeFile,
  WriteASCIIFile |-> WriteASCIIFile, WriteFile |-> WriteFile, AppendFile |-> AppendFile, AppendUnicodeFile |-> AppendUnicodeFile,
  CreateUnicodeTextFile |-> CreateUnicodeTextFile, CreateASCIITextFile |-> CreateASCIITextFile,
  ClearFileContent |-> ClearFileContent, ReadFileContent |-> ReadFileContent, ReadAsciiFileLen |-> ReadAsciiFileLen, LoadPE |-> LoadPE,
  Convert |-> Convert, MakeFormatText |-> MakeFormatText, CopyTextToClipboard |-> CopyTextToClipboard,
  TerminateProcByPid |-> TerminateProcByPid, GetVecProcess |-> GetVecProcess, GetMainThreadId |-> GetMainThreadId,
  GetCpuUsageByPid |-> GetCpuUsageByPid, CalcWorkSetPrivate |-> CalcWorkSetPrivate, CreateProc |-> CreateProc,
  GetPhysicalDiskNumber |-> GetPhysicalDiskNumber, GetDiskSerialNumber_ByIdentify |-> GetDiskSerialNumber_ByIdentify,
  IsUsbDiver |-> IsUsbDiver, GetDiskSerailNumber_BySCSI |-> GetDiskSerailNumber_BySCSI,
  GetScreenShotContent |-> GetScreenShotContent, Screenshot |-> Screenshot ]

Statics == {"IsUsbDiver", "GetDiskSerailNumber_BySCSI"}   \* functions with a static path

\* There are kinds of bridge, and the threads call functions of this module.
ASSUME FunctionsAssumption == nSatTypes \in Nat /\ \A t \in Threads : Calls[t] \subseteq DOMAIN Code

Resources == UNION {Range(i.res) : i \in UNION {Range(Code[fn]) : fn \in DOMAIN Code}}

-----------------------------------------------------------------------------
VARIABLES
  th,     \* the call each thread is in
  path    \* the static path of a function, its drive letter

callVars == <<th, path>>

\* at: drive of the opened disk; bad: handles that are INVALID_HANDLE_VALUE;
\* deferred: what destructors give back; overtaken: another call has written
\* the path between this call's writing it and its opening it.
Idle == [fn |-> "none", pc |-> 0, drive |-> "none", at |-> "none", held |-> {}, bad |-> {},
         deferred |-> <<>>, exit |-> "returned", overtaken |-> FALSE]

CallsInit == th = [t \in Threads |-> Idle] /\ path = [fn \in Statics |-> "?"]

Put(t, s) == th' = [th EXCEPT ![t] = s]
Call(t, fn, d) == /\ th[t] = Idle /\ Put(t, [Idle EXCEPT !.fn = fn, !.pc = 1, !.drive = d, !.exit = "running"])
                  /\ UNCHANGED path

Here(s) == Code[s.fn][s.pc]
At(t, ops) == th[t].exit = "running" /\ th[t].pc <= Len(Code[th[t].fn]) /\ Here(th[t]).op \in ops
On(s) == [s EXCEPT !.pc = @ + 1]
Out(s, e) == [s EXCEPT !.exit = e]
Shut(s, rs) == [s EXCEPT !.held = @ \ rs, !.bad = @ \ rs]

\* Mutated form of Failed: a failed call does not return, and the next is left out.
FailedNowhere(s) == [Shut(s, Range(Here(s).on)) EXCEPT !.pc = @ + 2]

\* The call fails: what its branch closes, and where the branch goes.
Failed(s) == LET i == Here(s)  shut == Shut(s, Range(i.on))
             IN  IF i.skip = 0 THEN Out(shut, "fail") ELSE [shut EXCEPT !.pc = @ + i.skip]
Got(s) == [On(s) EXCEPT !.held = @ \union Range(Here(s).res)]

Acquire(t) == /\ At(t, {"open"}) /\ \E s \in {Got(th[t]), Failed(th[t])} : Put(t, s)
              /\ UNCHANGED path
Allocate(t) == /\ At(t, {"new"}) /\ \E s \in {Got(th[t]), Out(th[t], "throw")} : Put(t, s)
               /\ UNCHANGED path

\* Mutated form of PathOf: one buffer for both functions.
OnePath(fn) == "IsUsbDiver"

PathOf(fn) == fn

\* wszDeivePath[4] = wchDisk
WritePath(t) ==
  /\ At(t, {"path"})
  /\ path' = [path EXCEPT ![PathOf(th[t].fn)] = th[t].drive]
  /\ th' = [u \in Threads |-> CASE u = t -> On(th[u])
                                [] u # t /\ th[u].fn = th[t].fn /\ At(u, {"unchecked"}) -> [th[u] EXCEPT !.overtaken = TRUE]
                                [] OTHER -> th[u]]

\* INVALID_HANDLE_VALUE passes the test for NULL.
AcquireUnchecked(t) ==
  /\ At(t, {"unchecked"})
  /\ \E s \in {[Got(th[t]) EXCEPT !.at = path[PathOf(th[t].fn)]], [On(th[t]) EXCEPT !.bad = Range(Here(th[t]).res)]} : Put(t, s)
  /\ UNCHANGED path

\* A call on an invalid handle always fails.
TryCall(t) ==
  /\ At(t, {"try"})
  /\ \/ Range(Here(th[t]).res) \intersect th[t].bad = {} /\ Put(t, On(th[t]))
     \/ Put(t, Failed(th[t]))
  /\ UNCHANGED path

\* The serial number is there, or blank, or the request fails.
AskSerial(t) ==
  /\ At(t, {"ask"})
  /\ \/ /\ Range(Here(th[t]).res) \intersect th[t].bad = {}
        /\ \E s \in {Out(th[t], "found"), On(th[t])} : Put(t, s)
     \/ Put(t, Failed(th[t]))
  /\ UNCHANGED path

Branch(t) == At(t, {"may"}) /\ (\E s \in {On(th[t]), [th[t] EXCEPT !.pc = @ + 1 + Here(th[t]).skip]} : Put(t, s)) /\ UNCHANGED path
MayThrow(t) == At(t, {"throws"}) /\ (\E s \in {On(th[t]), Out(th[t], "throw")} : Put(t, s)) /\ UNCHANGED path
UseIt(t) == At(t, {"use"}) /\ Put(t, On(th[t])) /\ UNCHANGED path
GiveBack(t) == At(t, {"close", "closeif", "give"}) /\ Put(t, On(Shut(th[t], Range(Here(th[t]).res)))) /\ UNCHANGED path
MayGiveAway(t) ==
  At(t, {"maygive"}) /\ (\E s \in {On(th[t]), On(Shut(th[t], Range(Here(th[t]).res)))} : Put(t, s)) /\ UNCHANGED path
SetResDeleter(t) == /\ At(t, {"defer"}) /\ Put(t, [On(th[t]) EXCEPT !.deferred = Here(th[t]).res \o @])
                    /\ UNCHANGED path

ExitEarly(t) == At(t, {"exit"}) /\ Put(t, Out(th[t], "done")) /\ UNCHANGED path
EndOfBody(t) == /\ th[t].exit = "running" /\ th[t].pc > Len(Code[th[t].fn]) /\ Put(t, Out(th[t], "done"))
                /\ UNCHANGED path

\* Mutated form of NextReleased: the first to be set is the first to go.
NextReleasedFirst(s) == Len(s.deferred)

\* Its place in the list.
NextReleased(s) == 1

\* ~CResManager, last first, when an inner function or the function returns.
Leaves(t) == At(t, {"leave"}) \/ th[t].exit \in {"done", "found", "fail", "throw"}
Release(t) ==
  /\ Leaves(t) /\ th[t].deferred # <<>>
  /\ \E i \in {NextReleased(th[t])} :
       Put(t, [Shut(th[t], {th[t].deferred[i]}) EXCEPT !.deferred = RemoveAt(@, i)])
  /\ UNCHANGED path
LeaveInner(t) == At(t, {"leave"}) /\ th[t].deferred = <<>> /\ Put(t, On(th[t])) /\ UNCHANGED path

Returning(s) == s.exit \in {"done", "found", "fail", "throw"} /\ s.deferred = <<>>
Return(t) == Returning(th[t]) /\ Put(t, Idle) /\ UNCHANGED path

CallsNext ==
  \E t \in Threads :
    \/ \E fn \in Calls[t] : \E d \in IF fn \in Statics THEN Drives ELSE {"none"} : Call(t, fn, d)
    \/ Acquire(t) \/ Allocate(t) \/ WritePath(t) \/ AcquireUnchecked(t) \/ TryCall(t) \/ AskSerial(t)
    \/ Branch(t) \/ MayThrow(t) \/ UseIt(t) \/ GiveBack(t) \/ MayGiveAway(t) \/ SetResDeleter(t)
    \/ ExitEarly(t) \/ EndOfBody(t) \/ Release(t) \/ LeaveInner(t) \/ Return(t)

CallsSpec == CallsInit /\ [][CallsNext]_callVars

-----------------------------------------------------------------------------
(* Properties. *)

\* Type invariant: the calls the threads are in and the static paths.
CallsTyped ==
  /\ \A t \in Threads :
       /\ th[t].fn \in DOMAIN Code \union {"none"}
       /\ th[t].fn # "none" => th[t].pc \in 1 .. Len(Code[th[t].fn]) + 1
       /\ th[t].drive \in Drives \union {"none"} /\ th[t].at \in Drives \union {"none", "?"}
       /\ th[t].held \subseteq Resources /\ th[t].bad \subseteq {"disk"}
       /\ th[t].deferred \in Seq(Resources)
       /\ th[t].exit \in {"running", "done", "found", "fail", "throw", "returned"} /\ th[t].overtaken \in BOOLEAN
  /\ path \in [Statics -> Drives \union {"?"}]

FileFunctions == {"ReadUnicodeFile", "ReadASCIIFile", "WriteUnicodeFile", "WriteASCIIFile", "AppendUnicodeFile"}

\* What the code does not give back: handles no return closes, and what only
\* the straight way out closes when an exception takes another.
Keeps(fn, exit) ==
  CASE fn \in {"GetCpuUsageByPid", "CalcWorkSetPrivate"} -> {"process"}
    [] fn = "CreateProc" -> {"thread"}
    [] fn = "GetDiskSerailNumber_BySCSI" -> {"disk"}
    [] fn = "CopyTextToClipboard" /\ exit = "done" -> {"memory"}
    [] fn \in FileFunctions /\ exit = "throw" -> {"file"}
    [] fn = "GetVecProcess" /\ exit = "throw" -> {"snapshot"}
    [] fn \in {"Convert", "MakeFormatText"} /\ exit = "throw" -> {"buffer"}
    [] fn = "IsUsbDiver" /\ exit = "throw" -> {"disk"}
    [] OTHER -> {}

\* A function that returns, at whichever of its returns or by an exception,
\* has given back all it took, but for the leaks of Keeps.
NothingLeft == \A t \in Threads : Returning(th[t]) => th[t].held \subseteq Keeps(th[t].fn, th[t].exit)

\* What a call uses, closes or leaves to a destructor is open at that time,
\* and is given back once: never used after it is closed, never closed twice.
\* An invalid disk handle is the one exception: it is tried, and closed.
UsesOpen ==
  \A t \in Threads :
    LET s == th[t]  open == s.held \union s.bad
    IN  /\ At(t, {"try", "ask", "use", "close", "give", "maygive", "defer"}) => Range(Here(s).res) \subseteq open
        /\ Leaves(t) => Range(s.deferred) \subseteq open
        /\ At(t, {"open", "new", "unchecked"}) => Range(Here(s).res) \intersect open = {}

\* GDI objects go before the device context they were made from: the window's
\* DC is held as long as the memory DC or the bitmap made from it.
MadeFrom ==
  \A t \in Threads : {"memoryDC", "bitmap"} \intersect th[t].held # {} => "windowDC" \in th[t].held

\* A disk function opens the drive it was asked about, unless another call of
\* the same function wrote the shared path first; the other function's calls
\* do not disturb it.
RightDrive == \A t \in Threads : th[t].at \in {"none", th[t].drive} \/ th[t].overtaken

\* The state has its types, and what is taken is used while it is held, and
\* given back.
GivenBack == CallsTyped /\ NothingLeft /\ UsesOpen /\ MadeFrom /\ RightDrive
=============================================================================

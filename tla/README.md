# Verification of libTools

TLA+ models of libTools, the TLC configurations that check them on small
instances, and TLAPS proofs of the main invariants for every instance. Source
paths below are those of the repository.

## 1. The system

libTools is a collection of C++ libraries for Windows tools, with one C#
program. A part of it runs on several threads or machines; the rest are
functions over text, memory and the operating system.

| component | state | operations | talks to |
|---|---|---|---|
| **SocketServerLib** `CSocketBaseServerService` | listening socket, thread-pool io, `_uAccpetCount`, the set `_VecSocketClient` with its lock, `_bRun` | `Run`, `Stop`, `PostAccept`, `PostRecv`, `PostSend`, the completion callback and its `OnAccept`, `OnRecv`, `OnSend`, `OnClose`; `_ClearThread` | kernel (overlapped io), thread pool, application callbacks |
| **SocketCommon** `CSocketRemoteClient` | socket, io, reference count, `ExistPostRecv`, `OnLine`, keep-alive tick, receive and reassembly buffers | `AddRefCount`, `SubRefCount`, `SetBuffer`, `DisConnect`, `Release` | the server's callbacks, several at once |
| **SocketCommon** `CSocketBuffer` | a byte buffer that is written at its end and read from its start | `<<`, `>>`, `GetDataPtr`, `SetDataPtr`, `VerDataPtr` | both ends of a connection |
| **SocketClientLib** `CSocketBaseClientService` | socket, io, one receive buffer for all receives, a reassembly buffer, `_bConnect` | `Run`, `Stop`, `PostSend`, `PostRecv`, `OnConnect`, `OnRecv`, `OnClose` | the server; the program's `EchoPacket` |
| **LogLib** `CLog` | a send queue, a save queue, two threads, flags | `Print`, the threads' loops, `SaveLog_Immediately`, `Release` | the log window by `WM_COPYDATA`; files |
| **LogLib** `CCmdLog` | a socket that two threads use, a name, a thread | `Run`, `Stop`, `ReSetClientName`, `_RecvThread` | LogClientDLL over TCP |
| **LogLib** `CLogExpression`, `CLogExpressionCalc`, PE loader | registered functions; tokens, stacks; a file in memory | `Run`; `Analysis`, `GetRpn`, `CalcResult_By_Rpn` | CharacterLib, FileLib |
| **LogClientDLL** `CCmdLogServer` | list of sockets and their names, accept thread | `Run`, `Stop`, `SendContent`, `RemoveSocket` | LogClientForm (exports), `CCmdLog` (TCP) |
| **LogClientForm** | message queue, two lists, the grid, filters, progress | `WndProc`, the receive loop, the buttons, `LoadLogFile` | LogClientDLL, `CLog`, files |
| **DbManagerLib** `CBaseDbManager` | ODBC handles, queue of asynchronous statements, a thread | `ExcuteSQL`, `AsyncExcuteSQL`, `RunAsyncThread`, `StopAsyncThread` | a database |
| **ProcessLib** | `CThreadLock`, `CResHandleManager`; pattern searches; process handles | RAII wrappers; `FindAddr`, `FindCALL`, `FindBase` | all of the above; other processes |
| **FileLib, DiskLib, GdiLib** | two static path buffers | files, serial numbers of drives, screenshots | the system |
| **CharacterLib, TimeLib** | none | trimming, splitting, replacing, parameters in quotes, dates and durations | LogLib |
| **HookLib** `CInlineHook`, `CLdrHeader`, `CDasm` | the code of procedures, a block of memory per hook, the caller's `RealProc` | `Hook`, `UnHook`, each with two interfaces; `SizeOfCode` | the program's own code |
| **AlgroithmLib** | RC4's `k`, which grows; RSA's keys | `GetKeyStream`, `GetEncryptText`, `GenerateKey`, `Encrypt`, `Decrypt`; digests | |
| **MathLib, SystemEnvLib, InjectorLib** | none | geometry, queries, loading into other processes | |

`PROJECT.json` lists each with its sources and its status, and, under
`hazards`, the places where this code can go wrong in a way a test would hardly
reach.

### What is hard in it

* *Threads.* Completions run on the threads of the system's pool, in any order
  and several at once for one client. The set of clients has a lock; the
  counters, the flags and the buffers have none.
* *Ordering.* The completion of an operation may run before the call that
  posted it has returned; a timeout may come before the answer it stands for.
* *Failure.* Most operations can fail when called and again when they complete,
  and each failure has a path of its own through the reference count.
* *Boundaries.* TCP cuts the stream of packets anywhere; sizes are read from
  the stream; counters are unsigned.
* *Stopping.* `Stop`, `Release` and `StopAsyncThread` meet callbacks and queues
  in whatever state they are, and sometimes the callback is their own caller.
* *Leaving.* The wrappers of the system have many ways out, and on each some of
  what was opened has to be closed.

What makes each part correct: the server keeps accepts posted (1); a client's
receive side has one user at a time (2), a client is released once, after its
last use (3), and released at all when its connection ends or falls silent (4);
packets come out as they went in, wherever the stream is cut outside a size, on the
client as long as the cuts suit it (5); a queue loses nothing and keeps its order, at its limit and at the stop too (6);
a command reaches the programs it is meant for, once, and a program comes back
after its connection broke (7); the log window shows what it got (8); a
function gives back what it took (9) and computes what its name says (10).

## 2. The modules

| module | what it is | properties |
|---|---|---|
| `AcceptPool` | the counter of posted accepts and `OnAccept`, access by access | (1) |
| `ServerConn` | the server's clients: receives, sends, reference count, flag, closing, keep-alive, stopping | (2) (3) (4) |
| `PacketStream` | the abstract specification of a connection's receive side | (5) |
| `Framing` | the server's `OnRecv` on bytes, implements `PacketStream` | (5) |
| `ClientService` | the client: connect, sends, receives that share a buffer, `Stop`; implements `PacketStream` up to the first receive that is cut ill | (5) |
| `LogSave`, `LogSend` | the two halves of `CLog` | (6) |
| `AsyncDb` | `CBaseDbManager`: queue, thread, mutex, handles | (6) (9) |
| `CmdChannel` | `CCmdLog` and `CCmdLogServer` together, over connections that break | (7) |
| `LogForm` | the log window | (8) |
| `SystemCalls` | what the wrappers open, use and close, path by path | (9) |
| `ExprCalc` | the calculator of the console | (10) |
| `PatternSearch` | the two pattern searches over memory | (10) |
| `PacketCodec` | `CSocketBuffer`: what is written and read, and what is verified | (10) |
| `TextTools` | texts, dates, and the command line of `CLogExpression` | (10) |
| `Dasm` | `CDasm`: how long an instruction is, by its tables | (10) |
| `InlineHook` | hooks of a procedure, on bytes of memory, and what a call of it then does | (9) (10) |
| `RC4` | the objects of a sender and a receiver, over several texts | (10) |
| `RSA` | keys from two entries of the list of primes, encryption, decryption | (10) |
| `MCServerConn`, `MCFraming`, `MCLogForm` | symmetry and small inputs for TLC | |
| `MCStreams` | `Framing` and `ClientService` in one run | |
| `MCQueues` | `LogSend` and `AsyncDb` in one run | |
| `MCFunctions` | the modules of functions in one run | |
| `Loops` | what a loop keeps of a list (`Kept`), for `CmdChannel` and `LogForm` | |
| `Loops_proofs` | lemmas on what loops and `FlattenSeq` give | |
| `Accounting_proofs` | theorems of `AcceptPool` and `SystemCalls` | (1) (9) |
| `ServerConn_proofs` | theorems of `ServerConn` | (2) (3) (4) |
| `Streams_proofs` | theorems of `Framing` and `ClientService` | (5) |
| `Complete_proofs` | theorems of `LogSave` and `PatternSearch` | (6) (10) |
| `Queues_proofs` | theorems of `LogSend` and `AsyncDb` | (6) (9) |
| `CmdChannel_proofs` | theorems of `CmdChannel` | (7) |
| `LogForm_proofs` | theorems of `LogForm` | (8) |

How they fit: `AcceptPool` counts accepts and says nothing of who they are for;
`ServerConn` has the clients and takes the number of accepts posted as
arbitrary (`PostAccept(c)` is enabled for any client not yet used). `Framing`
looks inside the step `Echo` of `ServerConn` (a receive was completed and its
bytes handled), for one connection; that it may treat one receive at a time,
with no other actor on the buffers, is what `RecvExclusive` of `ServerConn`
says, and that is proved. `ClientService` has no such guarantee, so there the
stream and the callbacks are in one module. What `Framing` and `ClientService`
deliver is a packet that `PacketCodec` verifies and reads. `LogSave` and
`LogSend` are the two halves of `CLog`, which share only its flags, `Print` and
`Clear`; they are kept apart because no property relates the two queues. What
`LogSend` shows is what `LogForm` gets; `CmdChannel` carries the command that
`TextTools` takes apart (`Run`) and `ExprCalc` may evaluate. `MCStreams`,
`MCQueues` and `MCFunctions` put modules that share no variable side by side:
a behaviour is of one of them, and the others stay as they begin.

### AcceptPool

`acceptCount` is `_uAccpetCount` before reduction modulo 2^32; the code sees
`Word(acceptCount)`. The counter is atomic, so each access is one step, and
`pc[w]` says which access of `OnAccept` worker `w` makes next: decrement
(`decr`), test (`check`), the second read (`read`), and the loop of posts
(`loop`) and increments (`incr`). `posted` counts accepts in the kernel;
`stranded` counts the slots that the counter still contains though no accept
will give them back: a post that failed (`PostAccept` returns `VOID`, its caller
counts it all the same), a completion with an error (which goes to `OnClose`),
and what `StopServer` cancels (`StopServer` closes the socket, after which
a cancelled accept may still complete with an error, and `StopServerWaited`
drops the callbacks that have not begun). `RunServer` is one step because no completion
can come before its accept is posted. How many threads the system gives the pool
is chosen at the start (`pool`); two properties are stated for one thread (`Alone`).

### ServerConn

One record per client for the fields of `CSocketRemoteClient` (`obj`), for the
operations in the kernel (`io`) and for the connection (`link`); per worker the
place in the callback (`pc`), the completion it handles (`job`), the count it
loaded (`tmp`) and where it continues (`cont`). `AddRefCount` and `SubRefCount`
work on a plain `UINT`, so each is a `Load` and a `Store`; reading and changing
the set under its lock is one step. The application's `EchoRecive` may send any
number of times (bounded by `MaxSends`), refresh the keep-alive or not, and
return either value. An operation of any kind may time out: for a receive the code
has a branch, a send or an accept that times out is forgotten. `Faults` chooses which failures of the system happen. A
callback that touches a released client may go on with what is left in memory,
or fault; `CException::InvokeAction` swallows the fault and the callback ends
(`FreedFault`). Clients are not reused: each accept ever posted has its own.

### Framing

The stream is real bytes. A packet is four bytes of size, low byte first, the
size including itself, and then the data (`GetDataPtr`). `Arrive(n)` completes a
receive with the next `n` bytes; the other actions are the parts of `OnRecv` in
its order. `rest` is what `Buffer`/`nBufferLen` point to, `buf` is `_VecBuffer`,
`maxSize` is `_uBufferMaxSize`. `SetBuffer` refuses a length of
`em_Buffer_Len` or more, among them every negative one cast to `UINT`, by a
`MessageBox` that holds the callback (`blocked`).

`SplitHeaders = FALSE` restricts the cuts: no piece ends inside a size field.
TCP gives no such guarantee. The restriction is there to say exactly what the
code needs in order to be correct; `framing_split` shows what happens without
it.

### ClientService

A byte of the stream is `<<k, i>>`, the `i`-th of packet `k`, so that a byte in
the wrong place is seen. Workers are the threads of the pool, `worker[w]` the place
in a callback and what it has read so far. Every `PostSend` posts a receive, and
all receives fill `_RecvBuffer`: two that complete together write the same bytes.
Names that `Framing` has too are others here, so that one run can have both
(`ClientOnRecv` is `OnRecv`, `echoed` what `EchoPacket` got).

Neither the program, nor the server, nor TCP is restricted: requests may overlap,
packets of any lengths come asked or not, and a receive completes with any number
of the bytes. The size of the packet that follows another is read from the start
of `_RecvBuffer` (`SizesAtStart`), where the code reads it: that is the size of the
first packet of the receive, or no size at all and then one of `Numbers`, or the
zero that was left there. `client_next` shows it go wrong. The history variable
`well` says whether it may have: it stays true as long as each receive ends in no
size field, goes past the end of a packet only if it begins with one and all its
packets are of one length (`CutWell`), and comes while no callback has bytes to
handle. The stream of packets is claimed as long as `well`; after that bytes have no
names any more (`NoByte`, `Followed`), but lengths, places and control go on as in
the code: a size below what is put away makes a length negative, and the callback
appends what lies behind the buffer until it faults; a size of zero makes it cut
empty packets for ever (`Spins`). `ToldRight` and `StopReturns` hold through all
that.

What the model shows of the code without a property of its own: `OnClose` from a
callback calls `Stop`, which waits for that callback for ever (`hang`);
`_ExistPostRecv` is always set when a receive times out, so none is posted again;
`PostSend` after a failed `PostRecv` faults; a `ConnectEx` that fails frees the list
of addresses that the loop goes on to read (`ConnectExFails`), and one that is
through at once makes `Run` say `FALSE` though the connect's callback comes
(`ConnectExAtOnce`).

### LogSave

`saveQ` is `_QueueSaveLogContent`, and an entry is its place in the order of
printing, so that order, loss and duplication can be told. Each function that
holds `_MtxSaveLogContent` for its whole body is one step. `SaveLog_Immediately`
holds a static mutex of its own over several: `Lock`, `Take` (the queue is
copied and cleared), `Write` (which may fail: `SaveLog` returns nothing) and
`Trim` (`ClearLogFile`, then the mutex is released). It is called by callers and
by the save thread. `ClearSaveLog` drops the older half of a full queue;
between it and the test of `IsSaveLog` other threads act. The length of the
file in bytes is the number of its entries, `FileLimit` stands for 20 megabytes.

### LogSend

`hWnd` is the window `ExistLogServer` found, one of those that have been opened
so far; it goes on standing there after the window has closed (`SendLogToForm`
then does nothing). The send thread forgets it, looks for one, empties the queue
if there is none, and else takes entries one by one for three seconds (`Poll`,
`SendOne`, `Rest`). With synchronous sending the printing thread sends under
the queue's mutex.

### AsyncDb

A queued statement is its number. A caller that executes at once and the thread
go through the same steps from `mutex` to `free_env`: each ODBC call may fail,
and then `FreeMem` frees what there is, from the statement back. One thread
calls `RunAsyncThread` and `StopAsyncThread`; a second one would assign to a
joinable `std::thread`, which ends the process. What is queued at a stop stays
queued, and is gone through with after the next start.

### CmdChannel

A connection has a number, its two ends `near` (the program's) and `far` (the
server's), the bytes on the way, and the handle the server knows it by, which
another connection gets once it is closed. Every access of `_skClient` is a
step, on both threads that use it: the receive thread of `CCmdLog`, and the
program's thread in `Stop` and `ReSetClientName` (`BreakLogConnect` tests,
closes, and resets). The server has its accept thread, a thread for each new
client (`Register`), and `SendContent`, which works on a copy of the handles of a
name, or of all for `all` and for no name (`Everyone`). One call is under way at a
time: the only caller of the exported function is the UI thread of the log window
(`RunExpr` in Form1.cs). The network may cut a message in two, or break.

`RunAgain` lets a program call `Run` after `Stop`. The run has it `FALSE`: with
it `ComesBack` fails, because `Stop` may leave a connected socket, on which the
next `connect` fails for ever. `Kept(s, I)`, of `Loops`, is what is left of a
sequence when the places outside `I` are taken out: `RemoveSocket` erases from the
list so, and the proofs need it as a function. A second thing the model shows: when a rename
meets the receive thread between `connect` and its use of the socket
(CmdLog.cpp:159-167), the connection made last may be reset unclosed; the server
goes on sending to it and nobody reads. `SentIsRun` is therefore stated for a
connection as long as it is the client's.

### LogForm

What runs on the UI thread without an `await` is one step. `WndProc` starts a
task per message, and tasks queue in any order; the loop takes up to `Batch`
messages a turn. `all` and `dgv` are `ListClientLog` and `ListDgvLog`, `rows`
the grid's row count, which the loop sets from `dgv` and which decides how much
`ClearHalf` removes from both lists. Two facts have names, because properties
are stated up to them: `bare` (half of fewer than two rows was removed: the lists
are emptied and the rows still come), and `threw` (exceptions that the framework
shows: of `RemoveRange` and of the progress bar). What passes the filters is `Kept`
of the list, at the places that pass. A content is the sequence of its parts between
signs `#`, each the set of the texts that occur in it: a filter on the content asks
for one of them, and an entry that is saved and loaded comes back with the first
part only (`Reloaded`, LogFile.cs:91-97), line 0, and one colon more. A file is a
sequence of kinds of lines; one that the form did not save may be any, and its
entries then repeat the first message. A message whose type or line is no number
(`Bad`) makes `int.Parse` throw: the loop shows a box (`recv = "failed"`) and closes
the window (`ShowException`).

What the model shows of the code: a message of too few parts, or one that is
filtered while abandoning is on, ends the receive loop for good; half of an odd
count hides the newest entry until the next; a file that is no saved log can
push the progress above 100, and then the dialog stays; so it does when the file
cannot be read; a loaded entry's client keeps the colon behind its name
(LogFile.cs:110); loading ignores the filters and wipes what arrived meanwhile;
filters add up, and "Empty" does not take one away.

### SystemCalls

A function is the sequence of its calls (`Step`): what each opens, uses, closes,
leaves to a destructor, gives to the caller, and where it goes when it fails.
Threads go through such sequences side by side (`th`), each call failing or
throwing wherever it can. `CResHandleManager` and destructors are the deferred
list, released in reverse. The two functions of DiskLib that keep the drive's
path in a static buffer share `path`.

`Keeps` names what the code does not give back, and `NothingLeft` says that there
is nothing else: `GetCpuUsageByPid` and `CalcWorkSetPrivate` keep the process,
`CreateProc` the thread, `GetDiskSerailNumber_BySCSI` the disk, and
`CopyTextToClipboard` the memory; five file functions, `GetVecProcess`, the
conversions and `IsUsbDiver` keep a handle or a buffer when an exception takes
another way out. `INVALID_HANDLE_VALUE` passes the test `== NULL`, so an invalid
disk is tried and closed (`bad`). Two kinds of USB bridge stand for six, since
the loop returns at the first that fails; the number of kinds is a parameter
(`nSatTypes`), and the module assumes of it that it is a natural number, and of the
calls that they are calls of the functions of the table (`FunctionsAssumption`).

### ExprCalc

The lexer, the translation to reverse Polish and the stack machine, one turn of
a loop per step, compared with a grammar's value (`Value`). The properties name
where the code differs from arithmetic: a `-` overtaken by a stronger symbol
(1-2*3-4 is 1-(2*3-4), because `PushSymbol` takes one symbol off the stack where
it should take all of no lower priority); an address in brackets of an expression
in brackets, which faults; 1+[2]*3, which is (1+[2])*3; a remainder by zero,
which faults where a division is refused; `<` or `>` at the very end, which
throws out of a function that promises not to. Numbers of the upper half of the
word are read as the largest signed one.

### PatternSearch

An image is pages with a protection; a byte stands for a DWORD where the code
reads one. The search goes region by region with what `VirtualQueryEx` says,
and Sunday's algorithm within one. The model shows: the first search makes
read-only pages executable and still skips them; a region with more matches than
may be returned gives none; the last position of a region never matches, and
after a match the search goes on one further than the pattern, which misses an
adjacent one; `CProcessSearchBinary` reads its own memory at the other process's
addresses; `|| PAGE_READONLY` is always true; a query that fails leaves the
region's size as it was. The properties are stated up to these.
`SearchAssumption` says what images, patterns and sizes may be: pages of one size
with values for bytes, no more of them than there are addresses, and no empty
pattern.

### PacketCodec

One buffer is written and sent, the other gets what arrives: all of it, a part,
more than it, or a byte changed. `Base` is the number of values a byte has. What
it shows: a packet without values passes `VerDataPtr` when its head has lost up
to four bytes, since reads beyond the end give zeros; nothing guards the values;
`GetSizeBuffer` hands out memory that was never written when there are too few
bytes.

### TextTools

Each behaviour is one call of a function and its result, and the properties say
what undoes it: pieces put together, values put into the format, parameters
written with commas and quotes. The model shows: commas within quotes count for
the number of parameters; a text of blanks trims to one blank; `Split` with only
`KeepOnly` keeps no piece, and loses the last one after an empty one when empty
ones are removed; a format whose part does not occur answers `TRUE`; a `)` within
quotes ends the command. A date is read in both of the forms the code knows; the
Chinese signs are letters in the model.

### Dasm and InlineHook

`Dasm` has the two tables as sets, and the decoder; `Manual` is the processor's
manual (32-bit code) in its own words. `SizeIsManuals` compares them on every
opcode with every form of its operand, and `Differs` names where they differ:
operands in memory of the floating point unit, the other encoding of `TEST`, the
long `NOP`s and the three-byte opcodes, moves of control registers.

`InlineHook` has memory as a function from addresses to bytes, the four bytes
of a relative address kept together (`Part`). `InlineHook` builds the block of a
hook (`Allocated`) and what is to be written over the procedure; the write is a
step of its own that may be seen half done or fail, since nobody looks at its
result; with `HookContent` each of its pieces may fail alone (`Pieces`); `Assign` sets `RealProc`; `UnInlineHook` writes back and `Free` frees.
`kind = "content"` is the other interface, which keeps two words in a
`HookContent`. `Run` executes what is in memory, so that `HooksChain` can compare
a call of the procedure with the hooks in force followed by the procedure itself.

The model shows, and the properties name: a relative branch or call among the
covered instructions is copied unmoved (`IsRelativeCmd` exists and is not called);
a procedure shorter than the jump gets a part of it, and one that returns at once
makes the code write through a null pointer (`faulted`); outside a module a second
hook of a procedure copies a jump unmoved, and taking it back writes zeros;
hooks taken back in another order than the reverse leave a jump to freed memory
(`lost`), as does a write that went in part; between the write and `Assign` a call finds no way to the procedure;
`HookContent` restores eight bytes, whatever `uNopCount` says.

### RC4 and RSA

`N` is 256 in the code. The key stream is set up anew at each call and appended
to `k`, while texts use `k` from its start: every text is encrypted with the same
stream, and one object of the receiver gives them back as long as it is asked for
the same lengths; a new object does for a first text, and up to the first text's
length for later ones. From the second call on `GetKeyStream` writes behind the
buffer it returns (`past`). An entry of `S` that is exchanged with itself becomes
zero, so `S` is a permutation only while none is (`RangedAsRC4`).

`RSA` checks the loop of `ExtEuclid` turn by turn (`Bezout`), that the exponent is
an inverse whenever there is one, and that characters come back if it is and the
primes are two and greater than 1. The list of primes begins with 1, one entry
may be drawn twice, and nothing looks for the inverse: then some character does
not come back (`SomeChange`). Characters below zero are left out.

## 3. The runs

| run | bounds | what it shows |
|---|---|---|
| `accept` | pool of 1 or 2 threads, levels 1/3, word 16, 5 connections, 1 fault, fair | the counter accounts for every accept whatever the interleaving; with one thread a top-up leaves the pool between the low mark and the target, and once one accept succeeded, connections are accepted |
| `accept_deaf` | 1 or 2 threads, no fault, fair | *violated*: the server may end with no accept posted |
| `conn_recv` | 3 workers, 1 client, no sends, fair; faults but `post_recv`, `sem_timeout` | count exact, no use after release, clients on line are heard; ended and silent clients are released |
| `conn_sends` | 3 workers, 1 client, 2 sends, all faults | the receive side has one user; no client is released twice |
| `streams` | server: 4 packets of 4, 5 and 10 bytes, receives of up to 9, no size field cut; client: 2 workers, 2 requests, 2 packets of 2 and 3 bytes, receives of up to 5, cut anywhere, 1 fault; fair | the server delivers the stream of packets and is at most one packet behind; the client delivers it up to the first receive that is not cut well or shares the buffer, then answers arrive too; `Stop` returns and leaves no callback |
| `client_next` | the client: 1 worker, 1 request, 2 packets of 2 and 3 bytes, no fault | *violated*: the size of the next packet is read from the first |
| `framing_split` | the server, any cut | *violated*: size read from the middle of a packet |
| `log_save` | 2 callers and the save thread, queue limit 2, file limit 2, 3 entries (more when callers overlap), 1 failed write, fair | the file has the entries in order and once, none vanishes, an exception is written when its `Print` returns; once saving is synchronous nothing stays in the queue |
| `queues` | log: 2 callers, 4 entries, 2 windows; database: 2 callers, 3 statements, 2 starts, 1 failed call; fair | entries are shown in order and once, and taken; statements are gone through with in order and once, handles nested and freed, one connection, `StopAsyncThread` returns |
| `cmd` | 1 program, 2 names and all, 3 connections on 2 handles, 1 command, 2 calls of the program, 1 fault, fair | the server's list is true, a command reaches only its name, or all, and runs once, and a program comes back to the list |
| `form` | 6 messages of 2 clients, one malformed and some with a `#` in the content, 2 tasks at once, list of 3, batches of 2, 2 clicks, a file that is no log, fair | no message twice, the view is part of the list, filters hold, rows have entries, a saved log comes back up to `#`, the loop and the dialog end as they should |
| `functions` | see below | the value of expressions, what is given back, what is found, what comes out of packets and texts, what hooks do, what can be decrypted |

A property of a run may be the conjunction of named parts, each defined and
commented on its own in the module: `Reassembled` of `Framing`, `ToldRight` of
`ClientService`, `Accounted` of `LogSave`, `OnlyMeant` of `CmdChannel`,
`ListsAgree` and `MovesOn` of `LogForm`, `Calculates`, `GivenBack`, `Finds`,
`Decodes`, `TextsKept`, `Hooked` and `Enciphers` of the modules of functions,
`ThreadServes` of `AsyncDb`, `ClientGoesOn` of the client. There is a mutant for
each part of these but a few: one mutant may break several.

### Why the bounds are enough

*Accept pool.* Levels 1 and 3 stand for 3 and 10: there are counters below, at
and between the levels, and two connections empty the pool from full to the low
mark, so five allow two top-ups to overlap. Word size 16 leaves a gap between the
target and the wrapped values. With two workers every pair of accesses is
interleaved; the theorems remove the bounds.

*Clients of the server.* Nothing but the set relates two clients, and each step
takes one client in or out of it, so one client is enough; what matters is how
many callbacks of it run at once, and three workers are the most completions that
a receive and two sends allow. (The proofs are for any number of clients.)
`conn_recv` has no sends because with them `RefExact` and `NoUseAfterRelease` do
not hold: a send's completion may release the client under the receive callback
that sent. `post_recv` and `sem_timeout` are left out of it because
`OnlineListens` fails with them (see the hazards): these are conditions on the
properties, stated here so that nobody reads more into the run. `GoneIsReleased`
is about receives: a client whose peer closes with only a send outstanding is
never released.

*Streams.* Packets shorter than, as long as and longer than what is left of a
receive, an empty payload (a packet that is all header), and a payload whose
bytes misread as a size end within the stream. Four packets make a receive
that spans the end of one, all of the next and the start of a third. On the
client a size field of two bytes keeps the same cases with fewer bytes: a packet of
a bare size and one of a byte more, a receive that holds both, one that holds the
end of one and the start of the other, and one number (7, more than a receive holds)
that bytes may say which are no size. The
proofs remove the bounds of both, on payloads, lengths, packets, requests,
workers and faults.

*Queues.* Two callers and the thread can all three meet at a lock. The save
queue's limit of two is reached, and passed, with entries of several threads; a
file limit of two is reached by one save and by several. Two windows let the
handle of a closed one be used while there is another. Two starts let a statement
stay queued across a stop. The proofs remove the bounds of `LogSend` and
`AsyncDb`.

*Commands.* Three connections on two handles make a handle be used again while a
copy of the old one is still sent to; a rename, a stop and a broken connection
each take a call or a fault of the bound, and any two meet. For `ListIsTrue` and
`OnlyMeant` the proofs remove the bounds.

*Log window.* With a list of three and batches of two the list is halved in the
middle of a batch, and twice; two tasks change places; one content has no text before
its `#` and one behind; the file has lines before,
between and behind the pair that is a log entry. For `ListsAgree`, `ThrowsOnlyBare`
and `SavedComesBack` the proofs remove the bounds.

*Functions.* Expressions of up to three symbols of every priority, signs, both
kinds of brackets, `dd` with and without a count, words of eight bits. Two
threads, each with a few calls in any order, among them both that share the static
path; for `GivenBack` the proof removes the bounds on threads, drives and kinds of
bridge. Images of up to two pages of three bytes, six patterns with wildcards at
each place, three searches one after the other; for `Finds` the proof removes
these bounds too. Two values written and two read,
of every type, with every cut and one changed byte of base 4. Texts of up to
some five characters over the characters that matter to each function. Ten
procedures that differ in what the jump covers, two hooks in any order of making
and taking back, one write that fails, whole or in some of its pieces. Bytes of two bits, keys of up to three of
them, three texts; seven entries of the list and a public exponent of 5.

Deadlock is not checked: a stopped server, a closed connection, a released log,
a closed window and an exhausted bound all really stop.

### Fairness

The thread pool starts a thread for a completion that is queued and runs every
callback on: weak fairness of each worker's callback and of taking completions.
In `AcceptPool` that is `Dispatch`, over all workers together, since any thread
may take it, and never of a failed accept, a peer that connects or `Stop`. In
`ServerConn` the end of a receive and of a send are always completed by the
kernel; `_ClearThread` scans once a second while the server
runs (a scan that a stop overtakes may happen, and need not). Peers,
application, silence and faults are not fair. `Framing` assumes that TCP
delivers what was sent, in pieces that satisfy `SplitHeaders`. `ClientService`
assumes the same of its pool and of the kernel, and that a call of `Run`,
`PostSend` or `Stop` that has begun goes on; the server need not answer.

The threads of `CLog` go on and their sleeps end; a caller that is inside
`Print` or `SaveLog_Immediately` goes on. Nobody need print, open a window or
set a flag. That the send thread makes its first test of the three seconds in
time is assumed: a thread that is held up for three seconds at that place each
time it comes there would send nothing. In `AsyncDb` a thread that waits for a
lock gets it in time (strong fairness of `LockQueue`, `EnterMutex` and `Push`: the
locks of Windows do not starve a waiter for ever), and nobody need queue, start
or stop. In `CmdChannel` the threads of both programs go on, and connections
that are made are accepted; the network need not deliver what it cuts. In
`LogForm` the UI thread's loop and the thread that loads go on; the user need
do nothing.

## 4. Findings

Each is a run that fails, with the line that says otherwise in `PROJECT.json`.

1. `accept_deaf`: an accept can complete before it is counted; the counter is
   then a huge `UINT`, nobody tops the pool up, and the server goes deaf.
2. `framing_split`: a size that comes in two pieces is read from the second.
3. `client_next`: the client reads the size of a packet that follows another in a
   receive from the start of the receive, which is right only when the receive begins
   with a packet of the same length.

More follows from the models without a run of its own. Of the server: the counter
is read again after the test, so the difference `10 - _uAccpetCount` can wrap and
one thread posts accepts without end; when the first accept fails
(`DispatchFailed`), its slot is never posted again and the server accepts nobody
(`ConnectsAreAccepted` therefore supposes one that succeeded); the count does not
cover running callbacks, so a client can be released under one, and `OnClose` then
does not find it in the set; a client whose peer closes while a send is outstanding
is never released; `StopServer` returns with `clients` as it is, though it logs the
release of all clients; with any cut, up to three bytes that follow a packet in the
same receive are dropped. What the other models show is in section 2, under each.

## 5. The proofs

TLAPS checks them for every finite set of workers, every level and word size
that satisfies the assumptions in `AcceptPool`, for any sets of workers,
clients and faults and any number of sends in `ServerConn` (three of its theorems
suppose that nothing is sent), for any payloads and receive length in `Framing`,
any lengths, workers, requests and faults in `ClientService`, any clients, names,
handles and bounds in `CmdChannel`, any number of entries, callers and windows in
`LogSave` and `LogSend`, for any finite set of callers and any bounds in `AsyncDb`,
for any messages, files, filters, batches and list lengths in `LogForm`, for
any threads, drives and number of kinds of bridge in `SystemCalls`, and for any
images, patterns, sizes and number of searches in `PatternSearch`.

Names below are those of the proof modules; where two modules share one, the
second has its own (`DbTypeInv` for `AsyncDb`, `ClientStreamInv` and
`ClientHandInv` for the client).

**AcceptPool.** `TypeCorrect` is inductive by itself. `CounterAccounts`
(`Accounting`) needs only the types: the equation between counter, kernel and
workers is kept by each access, and `MoveCounts` says how a worker's move
changes the cardinalities in it. `CounterFloor` follows from `Accounting`,
since everything else in it is a natural number. `SoloPoolFull` is of
`QuietPoolFull`, which is about a pool of one thread (`AloneInv`); it is not inductive, and `SoloInv` strengthens
it with what holds at each label: after the test the counter is at most `Low`, in
the loop `acceptCount + uCount - i` is the target, and so the loop ends at it.

**ServerConn.** `TypeInv` adds to the types that a store of a decremented count
follows a load of a positive one (`SubRefCount` tests before it subtracts);
without that the count would not stay a natural number. `NoDoubleRelease`
needs `OnceInv`: a client in the set has not been released. `PostAccept` never
puts a released client back, and the check and the removal are under one lock,
which is why two callbacks that both decide to close release once.
`ReceiveExclusive` needs two facts more. `KindInv`: only a callback of an
accept or of a receive is at the labels that post a receive. `FreshInv`: a
client that is not in the set, and not released, has nothing in the kernel and
nobody handling it, so `PostAccept` starts with nothing outstanding.
`ExclusiveStep` then needs only
the *shape* of the steps (`CallbackShape`, `CompletionShape`): a completion turns
a pending operation into a worker's job, a callback keeps its job or ends, and
only `Arm`, which posts a receive, returns at the same time. Note what it does *not* need: the
flag `ExistPostRecv`. The flag is redundant for exclusion, and harmful after a
timeout (see the hazards).

When the application sends nothing (`MaxSends = 0`, which is what `conn_recv`
supposes, for the reason given in section 3), the count is exact (`CountExact`,
which states `RefExact`) and no callback goes on with a client that another one
released (`NoneUsedAfterRelease`, of `NoUseAfterRelease`). The count is a plain
`UINT`, so this rests on a client having one callback at a time and nothing in
the kernel meanwhile (`OneCallback`, from `RecvExclusive` and `RefExact`).
`SoloInv` says then what the count is at each label: one where the callback still
has the reference of the receive that completed or has taken that of the next
(`Counted`), else zero; that what was loaded is still what will be counted from;
and that a released client has nothing in the kernel, and so no callback.
`OnlineClientsAreHeard` (of `OnlineListens`) supposes besides that receives
neither fail to be posted nor time out (`NoRetries`); with either the code does
lose a client (see the hazards). `OffInv`: until its accept was handled a client
is off line, and its flag is not set. `EndInv`: no callback ends but by posting a
receive, by releasing the client, or with its connection dead.

**Framing.** For any payloads and receive length, if no piece ends inside a size
field (`~SplitHeaders`, as in the run; `framing_split` shows what happens else).
`Inv` has four parts. `StreamInv`: the stream is its packets one after the other
and has their sizes at their starts, by `HeaderSays`, the lemma that
`SetValue_By_Buffer` reads back what `GetDataPtr` wrote. `DeliveredInv`: the
packets delivered are the first ones sent, whole. `HandInv`: `_VecBuffer` and the
rest of the receive, put together, are the stream from the first packet not
delivered up to what was received. `SizeInv`: a size that is set is that
packet's, and no more is put away than it has; while none is set nothing is. From
these `PacketsReassembled` (of `Reassembled`) follows: what is delivered is right,
every size was read from the start of a packet, `SetBuffer` never refuses, and
between receives at most one packet that was received whole waits.
`ImplementsStream` (of `IsStream`): a step sends a packet, delivers the next, or
changes nothing that `PacketStream` sees.

**ClientService.** All three theorems suppose of the constants only what the run's
module assumes of them (`FlagsAreTrue` the bounds; the others all of
`Assumptions`: packets and receives are at least as long as a size), and nothing of
the program, the server or TCP. `FlagsAreTrue`: its
invariant `CtlInv` says who can be under way before `Run` has an answer (the
connect or its callback, and `_bConnect` is set by that callback only:
`ConnectInv`), and that with the thread-pool io gone nothing is under way
(`StopInv`). `DataInv` has two halves. One holds always: `ClientStreamInv`, the
stream byte by byte (a byte knows its packet and its place, and its neighbours
fit), and `DataTyped`, which has the types and says that the place of a callback
and what is left for it stay within `_RecvBuffer`, whatever sizes were read
(`Spans`). The other holds as long as `well`: one callback at a time has bytes
(`OneReceive`); while none has, what is put away is the start of the next packet, up
to the last byte taken, and the size is that packet's (`Pending`); a callback's
bytes are a piece of the stream that lies in one packet, or begins with one and has
packets of one length (`Piece`, which is what `CutWell` says of it), so that the size
that the code reads from the start of the receive is right; and `Place` says at each
label how far the callback is. Nothing is said of what is put away once the
connection is closed, since no packet is made of it any more. `StateIsRight` is of
`ToldRight`. `ClientImplementsStream` is of `ClientIsStream`: a step sends a packet,
delivers the next, or stutters, as every step of a callback does that is no longer
`well` (`OthersStutter`); it says nothing of what the program gets from then on.
The packets are put together by `FlattenSeq`, a recursive
function; what it gives for one packet more (`FlattenGrows` in
`Loops_proofs`, `StreamGrows`, `AnswerStream`) is proved from a least
counterexample, since the library's induction cannot be used.

**CmdChannel.** For any clients, names and handles, with `RunAgain` or without.
`ClientInv`: a socket that a client holds or receives from is the last it made, so
nobody else reads what is on its way there. `ConnInv`: two connections that the
server has not closed have different handles. `ListInv`: the list has, once each,
the connections that are registered, but for one whose send has just failed and
that is about to be removed. `TodoInv`: the copy that `SendContent` goes through
has handles of registered connections, though others may come meanwhile.
`WayInv`: what is on its way on a connection was meant for its name; `OnceInv`: and
its client has not received it. `ListStaysTrue` is of `ListIsTrue`,
`CommandsReachWhomTheyAreFor` of `OnlyMeant`. Most steps only let connections fade
(`Fades`: they close, or lose what is on its way), which keeps every part
(`Fading`), so that only greeting, registering, removing and sending are looked at
on their own. What `Kept` leaves of a sequence (`KeptSelects` in `Loops_proofs`) is
proved from a least counterexample too.

**LogSave.** The invariant (`Inv`) has five parts. `MutexInv`: a thread is between
`Take` and `Trim` exactly while it owns the mutex of `SaveLog_Immediately`, and
has entries in hand only at `write`; so at `Take` nobody has any, and at `Write`
only the owner. `Conserved` is `AllAccounted` itself, and `OrderInv` says that the
file, each hand and the queue are in order and follow one another; a new entry
comes last because, by `Conserved`, all others were filed before. `ExceptionInv`
is what makes `ExceptionSaved` inductive: an exception's entry need not be in the
file while its thread is at `lock` or `take`; when that thread takes the queue,
the entry is in what it takes or, as nobody else holds anything, already in the
file or dropped. With a mutex that is only tried (`LockTries`) that step fails.
One lemma per kind of step (`Printed`, `Dropped`, `LockedTrimmed`, `Taken`,
`Written`) says what it does to the sets of entries, and the invariant's lemmas
use only those.

**LogSend.** For any number of entries, callers and windows. `TypeCorrect` needs
that the send thread holds an entry exactly when it is about to send one
(`HeldTyped`). `InOrder` (`ShownInOrder`): while sending is not synchronous an
entry goes from the end of the queue to its head, to the thread's hand, to the
window, so what the windows got, what the thread holds and what is queued are
increasing one after the other (`OrderInv`); a new entry is greater than all.
The lemmas on increasing sequences say what appending, the tail and
concatenation do. It is not an invariant once `SetSyncSendLog` was called: then
a printing thread overtakes the queue.

**AsyncDb.** `DbTypeInv` has the types, and what they need: the callers that are
about to queue count for the bound (`Room`), the thread has a statement in hand
exactly between taking and returning (`HandInv`), and a thread that is not
joinable has ended (`CtlInv`, which is `NoThreadLeft`). `MtxInv` says that a
thread is in `ExcuteSQL` exactly while it holds the mutex, and that one does;
`HandlesInv` which handles there are at each call. A step outside `ExcuteSQL`
leaves both alone (`OutsideSQL`), one inside changes its own thread's
(`InsideSQL`); `HandlesNest` follows, and with it that there is one connection
at a time. `QueueKept`: a statement
goes from the end of the queue to its head, to the hand, to those gone through
with, and three lemmas say that each of these moves leaves the three sequences,
one after the other, what they were.

**LogForm.** For any messages, files, batches and list lengths. `ListsAgreeAlways`
needs to know that no message comes twice: `FlightInv` says that no number is on
its way twice, `SettledInv` that a number in the list, in the saved file or in the
file being loaded will not come again (`StaysSettled` is kept by every step that
takes or sends messages). `ListsInv` says that no number is twice in the list, and
that the view is part of the list *in its order* (`InOrder`). That is why halving
both lists keeps the view a part of the list although different numbers of entries
go: an entry of the view stands at least as far behind in the list
(`PlaceAtLeast`), so what is left of the view is in what is left of the list
(`InOrderHalf`). A turn may halve in the middle of a batch; `TurnIs` reduces it to
taking a batch, passing it, and halving or not, and `HalfLists` and `TurnLists` say
what that leaves. `FilteredInv` has the filters, `RowsHaveEntries` is inductive
with these. For a file `ParsedInv` says which lines are done and that what is
parsed is theirs; `PairsInv`, for a file made of pairs, that two lines are done for
each index, that the bar stays within 100 (`Percent`), and, for one that the form
saved, that the k-th entry parsed is that of line 2k. Hence `ThrewInv`: the bar
throws only on other files. `RemoveRangeThrowsOnlyBare` (of `ThrowsOnlyBare`) looks
at the one step that halves (`RangeThrown`), and `SavedFileComesBack` (of
`SavedComesBack`) follows from `ParsedInv` and `PairsInv` when a file ends. Each of
the four groups of variables, the messages, the lists, what was saved, and the file,
has one lemma that says how any step changes it (`MessagesStep`, `ListsStep`,
`SavedStep`, `FileStep`).

**SystemCalls.** The proof annotates every function, as one would a program: the
*place* before a call says what must be open, what may be, and what destructors are
to close, in their order (`Places`). `Follows` is the rule for a call: what it uses
or closes must be open, what it opens may not be yet, where it goes its place must
hold, and on each way out no more may be left than destructors close and `Keeps`
names. `Walk` says that the places of a function go with all of its calls;
`EveryWalk` shows it for each function of the table, and `SerialWalk` for any number
of bridges (`FlatPairs`: the two calls for a bridge, flattened). The invariant
(`CallsInv`) says of each thread that it stands at a place that holds (`Stands`); at
the end of an inner function that destructors close all that is open (`Empties`);
and, once it has left, that what they do not close is in `Keeps` (`Ended`). `InTurn`
is what makes releases come in turn: a bitmap or a memory DC is released before the
window's DC. `DriveKnown` says that between writing the static path and opening it
the path is the call's own drive, unless the call was overtaken. There is one lemma
per kind of call (`GotKeeps`, `FailedKeeps`, `ShutKeeps`, `DeferKeeps`,
`ReleaseKeeps` and others), and none of them looks at a function: that is done once,
in `EveryWalk`.

**PatternSearch.** `SearchesFind` is of `Finds`, in all its parts. `FoundBefore` is
the invariant of one scan: what was found before `now` are matches, each further
than the pattern from the last, and every match before `now` begins within or right
behind one of them. A turn that does not match goes on by `Skip`; `SkipIs` shows that
no match begins in between, since the byte behind the pattern's end has to be in the
pattern at the place where it would then lie. `RegionCode` says where the code of a
region is in the image: pages of one size put together, of which a run of pages is a
part (`FlattenPart`, by a least counterexample). With it the places found in a region
(`PlacesAre`) are matches of the image behind all that was found before (`VecInv`).
`PassedInv`: the first search of `CSearchBinary` leaves no read-only page behind it,
so after it the image never changes (`PassedStep`). That a search made again finds the
same relates two executions; the proof makes it a fact about one state. Matches that
are far apart and cover all others are determined by the code (`WholeUnique`: two such
sequences cannot first differ anywhere). So what a region adds is determined, the turns
from region to region agree (`TurnsAgree`), and two searches that went through the
image ended with the same (`EndsAgree`). `RepeatInv` then only says that a search is
somewhere on that way, and that all but the first of the history came to its end.
`CallIsTarget` needs that a match and the byte behind it lie below the highest address,
so that no address wraps before the instruction's own sum (`CallGoesThere`).

Only model-checked: the liveness properties (`EarlierDelivered` among them), which
are out of the prover's reach; and the other modules of functions, `ExprCalc`,
`PacketCodec`, `TextTools`, `Dasm`, `InlineHook`, `RC4` and `RSA` (`Calculates`,
`Decodes`, `TextsKept`, `Hooked`, `Enciphers`). What those say rests on recursion
over the input (a grammar's value, a split text), on bits (`^^`), on powers of a
base or on tables, and what such a definition gives for every input is out of the
prover's reach. `RefExact`, `NoUseAfterRelease`, `OnlineListens`, `Reassembled`,
`IsStream`, `ToldRight` and `ClientIsStream` are proved under the conditions under
which the runs check them.

## 6. What is not modelled

* A restart of the server after `Stop`: the lock is deleted and the counter not
  reset; a second `Run` of the client.
* A send completed in part.
* `CSocketRemoteClient::Release` waiting for its own io's callbacks:
  `ReleaseSocketClient` is a pure virtual function, and the models take the
  application's to return.
* What `OnRecv` does after the `MessageBox` of `SetBuffer` is dismissed.
* A freed client's memory used for a new client: clients are not addresses.
* The bytes of the client after a receive that was not cut well or that shared
  `_RecvBuffer` (section 2).
* Of a log entry, line breaks within its content, blanks at its ends, and a `#` in
  the names of functions, files and clients.
* In `CLog`: the search for the process of the log window (its outcome is
  modelled), a second `SetClientName`, threads that cannot be created, and an
  exception thrown while a mutex is held, whose handler prints and so waits for
  that mutex.
* The rows that statements return, and a fault within the ODBC driver.
* What the registered functions of the console do; commands for the log window's
  own process.
* The tables of an executable (the PE loader prints them), the layout of bitmaps
  and of the drives' answers: data that nothing in the code decides by.
* The digests of AlgroithmLib, which test vectors settle. In HookLib the table of
  imports; `SizeOfProc` and `IsRelativeCmd`, which nothing calls; a thread that is
  within the bytes a jump is written over. InjectorLib: its effects are the
  loader's. MathLib and SystemEnvLib: floating-point formulas and queries. Layout
  of the C# dialogs.

## 7. What could follow

1. The turns of single loops as invariants for every input, where no recursion is
   needed to state them: `Bezout` of `ExtEuclid`, for one.
2. A second `Run` of the server and of the client, which begin with what the first
   left behind (section 6).
3. What an application has to promise the client, and a server to it, for all its
   receives to be cut well.

## 8. Running

    tlc -workers 2 -config AcceptPool.cfg AcceptPool
    tlapm ServerConn_proofs.tla

Each run's module and configuration are in `PROJECT.json`. The definitions
headed "Mutated form of" are never used by a specification: each is a plausible
bug put in the place of the definition it mutates, to see that a property
notices.

------------------------------ MODULE LogForm ------------------------------
(***************************************************************************)
(* LogClientForm, the log window.  Messages arrive by WM_COPYDATA, tasks   *)
(* queue them, and a loop on the UI thread takes them in batches into two  *)
(* lists: every entry (ListClientLog) and those that pass the filters      *)
(* (ListDgvLog), which a virtual grid shows by row number.  The user       *)
(* filters, restores, clears, saves, and drops log files to load, which a  *)
(* pool thread parses while a progress dialog is open.  What happens       *)
(* without an await on the UI thread is one step.                          *)
(***************************************************************************)
EXTENDS Integers, Sequences, FiniteSets, SequencesExt, Loops

CONSTANTS
  Says,         \* what the messages say, in turn: records of client, content, type and line
  None,         \* no filter; "Empty" in the filter form
  Short,        \* a message of fewer than six parts
  Bad,          \* a message whose type or line is no number
  Batch,        \* messages a turn of the loop takes at most (100 in the code)
  nMaxLogCount, \* entries from which half is dropped
  OtherFiles,   \* files that are no saved log: kinds of lines, entries saying Says[1]
  Texts, Types, \* texts in the content and types the user filters by
  MaxTasks, MaxClicks  \* bounds: tasks at once, things the user does

LineKinds == {"stack", "log", "other"}

ASSUME BatchAssumption == Batch \in Nat \ {0} /\ nMaxLogCount \in Nat \ {0}
ASSUME BoundsAssumption == MaxTasks \in Nat /\ MaxClicks \in Nat
ASSUME SaysAssumption ==
  /\ Says \in Seq(Range(Says))
  /\ \A m \in Range(Says) \ {Short, Bad} :
       /\ m = [client |-> m.client, content |-> m.content, type |-> m.type, line |-> m.line]
       /\ m.content \in Seq(SUBSET Texts) \ {<<>>} /\ m.type # None /\ m.line \in Nat
ASSUME FilesAssumption ==
  /\ OtherFiles \subseteq Seq(LineKinds)
  /\ \A file \in OtherFiles : "log" \in Range(file) => Says # <<>> /\ Says[1] \notin {Short, Bad}

VARIABLES
  sent,      \* messages so far
  tasks,     \* messages whose task has not queued them yet
  queue,     \* _Queue
  recv,      \* whether the loop still runs; "failed": it shows its exception
  all,       \* ListClientLog
  dgv,       \* ListDgvLog
  rows,      \* dgvLog.Rows.Count
  names,     \* ListClientName
  filter,    \* the three filter functions: the value each compares with
  bAbandon,  \* bAbandon
  modal,     \* the dialog that keeps the user from the window
  load,      \* where LoadLogFile is
  lines,     \* lines of the file that are left
  dropped,   \* the lines it had
  parsed,    \* vList
  nIndex,    \* iterations of ConvertToList
  nProgress, \* nProgressValue
  saved,     \* the entries in the file saved last
  bare,      \* the lists were emptied behind the grid's back
  threw,     \* exceptions the framework has shown: of RemoveRange, of the progress bar
  clicks     \* things the user did

msgVars == <<sent, tasks, queue>>
listVars == <<all, dgv, rows, names, bare>>
loadVars == <<load, lines, dropped, parsed, nIndex, nProgress>>
formVars == <<msgVars, recv, listVars, filter, bAbandon, modal, loadVars, saved, threw, clicks>>

Fields == {"client", "content", "type"}
MaxSent == Len(Says)
NoFilter == [f \in Fields |-> None]

\* A content is the sequence of its parts between signs '#', each the set of the
\* texts that occur in it.  A filter on the content asks for one of them.
Passes(m, by) ==
  /\ by.client \in {None, m.client} /\ by.type \in {None, m.type}
  /\ by.content = None \/ \E k \in DOMAIN m.content : by.content \in m.content[k]

Numbers(s) == [i \in DOMAIN s |-> s[i].no]
PassingOf(s, by) == Kept(s, {k \in DOMAIN s : Passes(s[k], by)})

TypeOK ==
  /\ sent \in 0 .. MaxSent /\ tasks \subseteq [no : 1 .. sent, kind : Range(Says)]
  /\ recv \in {"on", "ended", "failed", "closed"} /\ modal \in {"none", "confirm", "load"}
  /\ rows \in Nat /\ load \in {"none", "parsing", "parsed", "failed"}
  /\ DOMAIN filter = Fields /\ bAbandon \in BOOLEAN /\ bare \in BOOLEAN
  /\ threw \subseteq {"range", "progress"} /\ clicks \in 0 .. MaxClicks
  /\ \A s \in {all, dgv, parsed, saved} : \A i \in DOMAIN s : s[i].no \in Nat \ {0} /\ s[i].type # None

Init ==
  /\ sent = 0 /\ tasks = {} /\ queue = <<>> /\ recv = "on"
  /\ all = <<>> /\ dgv = <<>> /\ rows = 0 /\ names = {} /\ bare = FALSE
  /\ filter = NoFilter /\ bAbandon = FALSE /\ modal = "none"
  /\ load = "none" /\ lines = <<>> /\ dropped = <<>> /\ parsed = <<>> /\ nIndex = 0 /\ nProgress = 0
  /\ saved = <<>> /\ threw = {} /\ clicks = 0

-----------------------------------------------------------------------------
(* Messages.                                                                *)

\* WM_COPYDATA: a task is started for the message, which queues it some time.
WndProc ==
  /\ sent < MaxSent /\ Cardinality(tasks) < MaxTasks /\ recv # "closed"
  /\ sent' = sent + 1 /\ tasks' = tasks \cup {[no |-> sent + 1, kind |-> Says[sent + 1]]}
  /\ UNCHANGED <<queue, recv, listVars, filter, bAbandon, modal, loadVars, saved, threw, clicks>>

\* Mutated form of Enqueue: the task stays.
EnqueueTwice(t) ==
  /\ queue' = Append(queue, t) /\ recv # "closed" /\ Len(queue) < MaxSent
  /\ UNCHANGED <<sent, tasks, recv, listVars, filter, bAbandon, modal, loadVars, saved, threw, clicks>>

Enqueue(t) ==
  /\ recv # "closed"
  /\ queue' = Append(queue, t) /\ tasks' = tasks \ {t}
  /\ UNCHANGED <<sent, recv, listVars, filter, bAbandon, modal, loadVars, saved, threw, clicks>>

\* An entry as the messages have it, and as a loaded file has it: a content ends at
\* its first '#', the line is taken for part of the function, and the colon of
\* "#Client:" stays, for Remove returns the string without it.
Entry(m) ==
  [no |-> m.no, client |-> <<m.kind.client, 0>>, content |-> m.kind.content, type |-> m.kind.type, line |-> m.kind.line]

Reloaded(e) ==
  [no |-> e.no, client |-> <<e.client[1], e.client[2] + 1>>, content |-> <<e.content[1]>>, type |-> e.type, line |-> 0]

\* The loop ends at such a message, and the rest of its batch is gone: int.Parse
\* throws, or the loop returns.
Stopped(m) == IF m.kind = Bad THEN "failed" ELSE "ended"
Ends(m) == m.kind \in {Short, Bad} \/ (bAbandon /\ ~Passes(Entry(m), filter))

\* Entries of the messages before the first at which the loop ends.
Handled(batch) ==
  LET n == Min({Len(batch)} \cup {k - 1 : k \in {i \in DOMAIN batch : Ends(batch[i])}})
  IN  [k \in 1 .. n |-> Entry(batch[k])]

Whole(d, a) == [dgv |-> d, all |-> a, rows |-> rows, throws |-> FALSE, bare |-> bare]

\* Mutated forms of ClearHalf: only the list of all loses entries; the half is of
\* the list.
ClearHalfOfAll(d, a) ==
  LET n == rows \div 2
  IN  IF n = 0 THEN [Whole(<<>>, <<>>) EXCEPT !.rows = 0, !.bare = TRUE]
      ELSE [Whole(d, SubSeq(a, n + 1, Len(a))) EXCEPT !.rows = n]

ClearHalfOfList(d, a) ==
  LET n == Len(a) \div 2
  IN  IF n > Len(d) THEN [Whole(d, a) EXCEPT !.throws = TRUE]
      ELSE [Whole(SubSeq(d, n + 1, Len(d)), SubSeq(a, n + 1, Len(a))) EXCEPT !.rows = Min({rows, n})]

\* Clear_Half: half of the grid's rows, and as many entries of both lists, are
\* removed from the start; RemoveRange throws when a list has fewer, and a count
\* of 0 stands for all.
ClearHalf(d, a) ==
  LET n == rows \div 2
  IN  IF n = 0 THEN [Whole(<<>>, <<>>) EXCEPT !.rows = 0, !.bare = TRUE]
      ELSE IF n > Len(d) THEN [Whole(d, a) EXCEPT !.throws = TRUE]
      ELSE [Whole(SubSeq(d, n + 1, Len(d)), SubSeq(a, n + 1, Len(a))) EXCEPT !.rows = n]

\* Mutated form of MessagesWait: the loop waits for a whole batch.
BatchWaits == Len(queue) >= Batch

\* With none, the loop sleeps for a second and looks again.
MessagesWait == queue # <<>>

\* A turn of GetDLLMessageThread.  When the list is full, half of the grid's rows
\* goes before the rows of this batch are added.
GetDLLMessageThread ==
  /\ recv = "on" /\ MessagesWait
  /\ \E batch \in {SubSeq(queue, 1, Min({Len(queue), Batch}))} : \E got \in {Handled(batch)} :
     \E d \in {dgv \o PassingOf(got, filter)} : \E a \in {all \o got} :
       /\ queue' = SubSeq(queue, Len(batch) + 1, Len(queue))
       /\ names' = names \cup {got[k].client : k \in DOMAIN got}
       /\ IF Len(got) < Len(batch)
          THEN /\ recv' = Stopped(batch[Len(got) + 1])
               /\ dgv' = d /\ all' = a /\ UNCHANGED <<rows, bare, threw>>
          ELSE \E half \in {IF Len(a) >= nMaxLogCount THEN ClearHalf(d, a) ELSE Whole(d, a)} :
                 /\ dgv' = half.dgv /\ all' = half.all /\ bare' = half.bare
                 /\ IF half.throws THEN recv' = "ended" /\ threw' = threw \cup {"range"} /\ rows' = rows
                                   ELSE rows' = half.rows + Len(d) - Len(dgv) /\ UNCHANGED <<recv, threw>>
  /\ UNCHANGED <<sent, tasks, filter, bAbandon, modal, loadVars, saved, clicks>>

\* The exception of int.Parse: a box that keeps the user from the window, and then
\* Application.Exit, which closes the form.
ShowException ==
  /\ recv = "failed"
  /\ recv' = "closed"
  /\ UNCHANGED <<msgVars, listVars, filter, bAbandon, modal, loadVars, saved, threw, clicks>>

\* The grid asks for the cells of a row, and there are more rows than the most.
CellValueNeeded ==
  /\ recv # "closed" /\ rows > nMaxLogCount
  /\ \E half \in {ClearHalf(dgv, all)} :
       /\ dgv' = half.dgv /\ all' = half.all /\ rows' = half.rows /\ bare' = half.bare
       /\ threw' = IF half.throws THEN threw \cup {"range"} ELSE threw
  /\ UNCHANGED <<msgVars, recv, names, filter, bAbandon, modal, loadVars, saved, clicks>>

-----------------------------------------------------------------------------
(* The user.                                                                *)

Click ==
  /\ modal = "none" /\ recv \notin {"failed", "closed"} /\ clicks < MaxClicks
  /\ clicks' = clicks + 1

\* Mutated forms of Shown: the grid keeps its rows; the last row is forgotten.
ShownNoRows(list) == dgv' = list /\ rows' = rows /\ bare' = FALSE

ShownButLast(list) == dgv' = list /\ rows' = Len(list) - 1 /\ bare' = FALSE

\* ListDgvLog becomes the list, and RefushDgvLog sets the rows.
Shown(list) == dgv' = list /\ rows' = Len(list) /\ bare' = FALSE

\* Mutated form of btnFilter_Click: keeps the view as it is.
btnFilterLater(by) ==
  /\ Click
  /\ filter' = [f \in Fields |-> IF by[f] = None THEN filter[f] ELSE by[f]]
  /\ UNCHANGED <<msgVars, recv, listVars, bAbandon, modal, loadVars, saved, threw>>

\* btnFilter: each field that is not "Empty" replaces the filter on it, and takes
\* from the view what does not pass; what an earlier filter took stays away.
btnFilter_Click(by) ==
  /\ Click /\ by # NoFilter
  /\ filter' = [f \in Fields |-> IF by[f] = None THEN filter[f] ELSE by[f]]
  /\ Shown(PassingOf(dgv, by))
  /\ UNCHANGED <<msgVars, recv, all, names, bAbandon, modal, loadVars, saved, threw>>

btnRestore_Click ==
  /\ Click
  /\ filter' = NoFilter /\ Shown(all)
  /\ UNCHANGED <<msgVars, recv, all, names, bAbandon, modal, loadVars, saved, threw>>

cbAbandon_CheckedChanged ==
  /\ Click
  /\ bAbandon' = ~bAbandon
  /\ UNCHANGED <<msgVars, recv, listVars, filter, modal, loadVars, saved, threw>>

\* Clear asks first; the loop goes on while the question is open.
Clear ==
  /\ Click
  /\ modal' = "confirm"
  /\ UNCHANGED <<msgVars, recv, listVars, filter, bAbandon, loadVars, saved, threw>>

Answer(yes) ==
  /\ modal = "confirm" /\ recv \notin {"failed", "closed"} /\ modal' = "none"
  /\ IF yes THEN all' = <<>> /\ Shown(<<>>) ELSE UNCHANGED <<all, dgv, rows, bare>>
  /\ UNCHANGED <<msgVars, recv, names, filter, bAbandon, loadVars, saved, threw, clicks>>

Form1_FormClosing ==
  /\ Click
  /\ recv' = "closed"
  /\ UNCHANGED <<msgVars, listVars, filter, bAbandon, modal, loadVars, saved, threw>>

-----------------------------------------------------------------------------
(* Files.  A line is the stack of an entry, what an entry says, or neither.  *)

\* Ctrl+S: the view goes to a file.
SaveFile ==
  /\ Click
  /\ saved' = dgv
  /\ UNCHANGED <<msgVars, recv, listVars, filter, bAbandon, modal, loadVars, threw>>

LinesOf(list) ==
  [k \in 1 .. 2 * Len(list) |-> IF k % 2 = 1 THEN [line |-> "stack"] ELSE [line |-> "log", entry |-> list[k \div 2]]]

Foreign(file) ==
  [k \in DOMAIN file |->
     IF file[k] # "log" THEN [line |-> file[k]]
     ELSE [line |-> "log", entry |-> Entry([no |-> MaxSent + k, kind |-> Says[1]])]]

\* DragDrop: the parsing starts, and the dialog opens.
DragDrop(file) ==
  /\ Click /\ load \in {"none", "failed"}
  /\ load' = "parsing" /\ modal' = "load" /\ nProgress' = 0
  /\ lines' = file /\ dropped' = file /\ parsed' = <<>> /\ nIndex' = 0
  /\ UNCHANGED <<msgVars, recv, listVars, filter, bAbandon, saved, threw>>

\* The file cannot be opened: the exception comes up on the UI thread.
GetFileTextThrows ==
  /\ load = "parsing" /\ nIndex = 0 /\ nProgress = 0 /\ recv # "closed"
  /\ load' = "failed"
  /\ UNCHANGED <<msgVars, recv, listVars, filter, bAbandon, modal, lines, dropped, parsed, nIndex, nProgress, saved, threw, clicks>>

\* Mutated forms of ConvertToList: one line goes at a time; lines are counted, not pairs.
ConvertSingly ==
  /\ lines' = Tail(lines)
  /\ parsed' = IF lines[1].line = "stack" /\ lines[2].line = "log" /\ Len(lines) < Len(dropped)
               THEN Append(parsed, Reloaded(lines[2].entry)) ELSE parsed
  /\ nProgress' = (nIndex * 100) \div (Len(dropped) \div 2) /\ nIndex' = nIndex + 1

ConvertCountsLines ==
  /\ IF lines[1].line = "stack"
     THEN /\ lines' = SubSeq(lines, 3, Len(lines))
          /\ parsed' = IF lines[2].line = "log" THEN Append(parsed, Reloaded(lines[2].entry)) ELSE parsed
     ELSE lines' = Tail(lines) /\ UNCHANGED parsed
  /\ nProgress' = (nIndex * 100) \div (Len(dropped) \div 2) /\ nIndex' = nIndex + 2

\* An iteration of ConvertToList: two lines make an entry, or are dropped if the
\* second has no time; a line that is no stack is dropped alone.
ConvertPair ==
  /\ IF lines[1].line = "stack"
     THEN /\ lines' = SubSeq(lines, 3, Len(lines))
          /\ parsed' = IF lines[2].line = "log" THEN Append(parsed, Reloaded(lines[2].entry)) ELSE parsed
     ELSE lines' = Tail(lines) /\ UNCHANGED parsed
  /\ nProgress' = (nIndex * 100) \div (Len(dropped) \div 2) /\ nIndex' = nIndex + 1

ConvertToList ==
  /\ load = "parsing" /\ recv # "closed"
  /\ IF Len(lines) >= 2
     THEN ConvertPair /\ names' = names \cup {parsed'[k].client : k \in DOMAIN parsed'} /\ load' = load
     ELSE load' = "parsed" /\ nProgress' = 100 /\ UNCHANGED <<lines, parsed, nIndex, names>>
  /\ UNCHANGED <<msgVars, recv, all, dgv, rows, bare, filter, bAbandon, modal, dropped, saved, threw, clicks>>

\* What follows the await: both lists become the file's, whatever the filters.
LoadLogFile ==
  /\ load = "parsed" /\ recv # "closed"
  /\ load' = "none" /\ all' = parsed /\ Shown(parsed)
  /\ UNCHANGED <<msgVars, recv, names, filter, bAbandon, modal, lines, dropped, parsed, nIndex, nProgress, saved, threw, clicks>>

\* Mutated form of Worker: closes the dialog only while the file is parsed.
WorkerMissesEnd ==
  /\ modal = "load" /\ "progress" \notin threw /\ recv # "closed" /\ load = "parsing" /\ nProgress = 100
  /\ modal' = "none"
  /\ UNCHANGED <<msgVars, recv, listVars, filter, bAbandon, loadVars, saved, threw, clicks>>

\* A turn of the dialog's Worker.  A value above the bar's maximum ends it.
Worker ==
  /\ modal = "load" /\ "progress" \notin threw /\ recv # "closed" /\ nProgress >= 100
  /\ IF nProgress = 100 THEN modal' = "none" /\ UNCHANGED threw
                        ELSE threw' = threw \cup {"progress"} /\ UNCHANGED modal
  /\ UNCHANGED <<msgVars, recv, listVars, filter, bAbandon, loadVars, saved, clicks>>

-----------------------------------------------------------------------------

\* What the filter form offers: names that were seen, contents, and types.
Offers == [client : names \cup {None}, content : Texts \cup {None}, type : Types \cup {None}]

User ==
  \/ \E by \in Offers : btnFilter_Click(by)
  \/ btnRestore_Click \/ cbAbandon_CheckedChanged \/ Clear \/ (\E yes \in BOOLEAN : Answer(yes))
  \/ SaveFile \/ (\E file \in {Foreign(f) : f \in OtherFiles} \cup {LinesOf(saved)} : DragDrop(file))
  \/ Form1_FormClosing

Next ==
  \/ WndProc \/ (\E t \in tasks : Enqueue(t))
  \/ GetDLLMessageThread \/ ShowException \/ CellValueNeeded \/ User
  \/ GetFileTextThrows \/ ConvertToList \/ LoadLogFile \/ Worker

Spec == Init /\ [][Next]_formVars

\* The UI thread and the tasks go on; nothing is asked of the user or of senders.
Fairness ==
  /\ WF_formVars(GetDLLMessageThread)
  /\ WF_formVars(ConvertToList \/ LoadLogFile \/ Worker)

FairSpec == Spec /\ Fairness

-----------------------------------------------------------------------------
(* Properties.                                                              *)

\* A message is in one place only: on its way, or once in the list of all.
Once ==
  /\ IsInjective(Numbers(all)) /\ IsInjective(Numbers(queue))
  /\ \A m \in tasks : m.no \notin Range(Numbers(queue))
  /\ \A k \in DOMAIN all : all[k].no \notin Range(Numbers(queue)) \cup {m.no : m \in tasks}

\* The view is part of the list of all, in the same order and each entry once, though
\* half of the grid's rows is taken from the start of both.
ViewOfAll ==
  /\ Range(dgv) \subseteq Range(all)
  /\ \A i, j \in DOMAIN dgv : i < j => \E p, q \in DOMAIN all : p < q /\ all[p] = dgv[i] /\ all[q] = dgv[j]

\* Every entry in view that was received passes the filters that are set now.
ViewFiltered == \A k \in DOMAIN dgv : dgv[k].client[2] = 0 /\ dgv[k].no <= MaxSent => Passes(dgv[k], filter)

\* A row of the grid has an entry to show, unless half of less than two rows was
\* dropped since the grid was set: then the lists are empty and the rows come anyway.
RowsHaveEntries == ~bare => rows <= Len(dgv)

\* Only then can the next half be more than the view has, and RemoveRange throw.
ThrowsOnlyBare == [][("range" \in threw') /\ ("range" \notin threw) => bare]_formVars

\* The progress bar gets no value above its maximum from a file made of pairs.
ProgressInRange == "progress" \in threw => \E k \in DOMAIN dropped : k % 2 = 1 /\ dropped[k].line # "stack"

\* The state has its types, and the lists, the grid and the bar agree.
ListsAgree == TypeOK /\ Once /\ ViewOfAll /\ ViewFiltered /\ RowsHaveEntries /\ ProgressInRange

\* A saved file comes back in order, each entry with its type and its content up to
\* the first '#', and replaces what was there.
Back(list, was) ==
  /\ Numbers(list) = Numbers(was)
  /\ \A k \in DOMAIN was : list[k].type = was[k].type /\ list[k].content = <<was[k].content[1]>>

SavedComesBack ==
  [][load = "parsed" /\ load' = "none" /\ dropped = LinesOf(saved) => Back(all', saved)]_formVars

\* Queued messages are taken, unless the loop has ended.
QueuedIsTaken == []<>(queue = <<>> \/ recv # "on")

\* The dialog closes, unless the file could not be read or the bar threw.
DialogCloses == (modal = "load") ~> (modal # "load" \/ load = "failed" \/ threw # {} \/ recv = "closed")

\* The receive loop takes what is queued, and a dialog does not stay.
MovesOn == QueuedIsTaken /\ DialogCloses
=============================================================================

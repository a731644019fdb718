------------------------------ MODULE LogSend -------------------------------
(***************************************************************************)
(* CLog, the side of the log window.  Threads that print append entries to *)
(* a queue, from which a send thread hands them to the window while there  *)
(* is one; when sending is synchronous they go to the window at once.      *)
(* The queue's mutex is held for one step.  An entry is the number of its  *)
(* place among all that were ever printed to the console.                  *)
(***************************************************************************)
EXTENDS Naturals, Sequences, Functions

CONSTANTS
  MaxPrints,   \* bound: entries printed
  MaxCallers,  \* bound: threads that print at once
  MaxWindows   \* bound: log windows ever opened

ASSUME BoundsAssumption == MaxPrints \in Nat /\ MaxCallers \in Nat /\ MaxWindows \in Nat

VARIABLES
  run,      \* _bRun
  sync,     \* _bSync
  open,     \* whether there is a log window
  windows,  \* how many there have been: the handle of the latest
  hWnd,     \* _LogFormContent.hWnd, 0 for none
  pc,       \* where the send thread is
  callers,  \* threads in Print, past its test of _bRun
  sendQ,    \* _QueueLogContent
  sending,  \* the entry it took, 0 for none
  shown,    \* entries the windows got
  queued    \* entries printed so far

settings == <<run, sync>>
windowVars == <<open, windows>>
sendVars == <<sendQ, sending, shown, queued>>
vars == <<settings, windowVars, hWnd, pc, callers, sendVars>>

Labels == {"none", "check", "find", "clear", "poll", "rest", "send", "done"}

TypeOK ==
  /\ run \in BOOLEAN /\ sync \in BOOLEAN
  /\ open \in BOOLEAN /\ windows \in Nat /\ hWnd \in 0 .. windows
  /\ pc \in Labels /\ callers \in Nat
  /\ sendQ \in Seq(1 .. queued) /\ sending \in 0 .. queued /\ (pc = "send" => sending # 0)
  /\ shown \in Seq(1 .. queued) /\ queued \in Nat

Init ==
  /\ run = FALSE /\ sync = FALSE
  /\ open = FALSE /\ windows = 0 /\ hWnd = 0 /\ pc = "none" /\ callers = 0
  /\ sendQ = <<>> /\ sending = 0 /\ shown = <<>> /\ queued = 0

Goto(label) == pc' = label

\* SendLogToForm: SendMessageW to a window that is no more does nothing.
SendLogToForm(entry) ==
  shown' = IF open /\ hWnd = windows THEN Append(shown, entry) ELSE shown

\* AddLogContentToQueue.
AddLogContentToQueue ==
  /\ queued' = queued + 1
  /\ IF sync
     THEN SendLogToForm(queued + 1) /\ UNCHANGED sendQ
     ELSE sendQ' = Append(sendQ, queued + 1) /\ UNCHANGED shown
  /\ UNCHANGED sending

-----------------------------------------------------------------------------
(* Start, stop, settings, and the threads that print.                       *)

\* SetClientName: the log runs, prints that it does, and starts its threads.
SetClientName ==
  /\ pc = "none"
  /\ run' = TRUE
  /\ AddLogContentToQueue
  /\ Goto("check")
  /\ UNCHANGED <<sync, windowVars, hWnd, callers>>

\* Release waits a second at most for the thread, whether it ended or not.
Release ==
  /\ run /\ run' = FALSE
  /\ UNCHANGED <<sync, windowVars, hWnd, pc, callers, sendVars>>

SetSyncSendLog ==
  /\ ~sync /\ sync' = TRUE
  /\ UNCHANGED <<run, windowVars, hWnd, pc, callers, sendVars>>

Clear ==
  /\ sendQ # <<>> /\ sendQ' = <<>>
  /\ UNCHANGED <<settings, windowVars, hWnd, pc, callers, sending, shown, queued>>

\* Print to the console, on any thread: it tests _bRun ...
BeginPrint ==
  /\ run /\ callers < MaxCallers /\ queued + callers < MaxPrints
  /\ callers' = callers + 1
  /\ UNCHANGED <<settings, windowVars, hWnd, pc, sendVars>>

\* ... and appends.
PrintToConsole ==
  /\ callers > 0
  /\ callers' = callers - 1
  /\ AddLogContentToQueue
  /\ UNCHANGED <<settings, windowVars, hWnd, pc>>

\* Somebody opens or closes the log window.
ToggleWindow ==
  /\ IF open THEN open' = FALSE /\ UNCHANGED windows
             ELSE windows < MaxWindows /\ open' = TRUE /\ windows' = windows + 1
  /\ UNCHANGED <<settings, hWnd, pc, callers, sendVars>>

-----------------------------------------------------------------------------
(* _SendThread.                                                             *)

sendFrame == <<settings, windowVars, callers, queued>>

\* ExistLogServer forgets the window ...
SendLoop ==
  /\ pc = "check"
  /\ IF run THEN hWnd' = 0 /\ Goto("find")
            ELSE UNCHANGED hWnd /\ Goto("done")
  /\ UNCHANGED <<sendFrame, sendQ, sending, shown>>

\* Mutated form of ExistLogServer: no window ends the thread.
ExistLogServerOrEnd ==
  /\ pc = "find"
  /\ hWnd' = IF open THEN windows ELSE 0
  /\ Goto(IF open THEN "poll" ELSE "done")
  /\ UNCHANGED <<sendFrame, sendQ, sending, shown>>

\* ... and looks for one.
ExistLogServer ==
  /\ pc = "find"
  /\ hWnd' = IF open THEN windows ELSE 0
  /\ Goto(IF open THEN "poll" ELSE "clear")
  /\ UNCHANGED <<sendFrame, sendQ, sending, shown>>

\* No window: the queue is emptied, and again in a second.
ClearLogContent ==
  /\ pc = "clear"
  /\ sendQ' = <<>>
  /\ Goto("check")
  /\ UNCHANGED <<sendFrame, hWnd, sending, shown>>

\* Mutated form of Poll: takes the last entry of the queue.
PollLast ==
  /\ pc = "poll"
  /\ IF ~run THEN Goto("check") /\ UNCHANGED <<sendQ, sending>>
     ELSE IF sendQ = <<>> THEN Goto("rest") /\ UNCHANGED <<sendQ, sending>>
     ELSE /\ sending' = sendQ[Len(sendQ)]
          /\ sendQ' = SubSeq(sendQ, 1, Len(sendQ) - 1)
          /\ Goto("send")
  /\ UNCHANGED <<sendFrame, hWnd, shown>>

\* With a window, entries are taken for three seconds: the first test of the
\* time cannot fail.
Poll ==
  /\ pc = "poll"
  /\ IF ~run THEN Goto("check") /\ UNCHANGED <<sendQ, sending>>
     ELSE IF sendQ = <<>> THEN Goto("rest") /\ UNCHANGED <<sendQ, sending>>
     ELSE /\ sending' = Head(sendQ)
          /\ sendQ' = Tail(sendQ)
          /\ Goto("send")
  /\ UNCHANGED <<sendFrame, hWnd, shown>>

\* The entry is sent outside the lock.
SendOne ==
  /\ pc = "send"
  /\ SendLogToForm(sending)
  /\ sending' = 0
  /\ Goto("rest")
  /\ UNCHANGED <<sendFrame, hWnd, sendQ>>

\* The three seconds are over, or not.
Rest ==
  /\ pc = "rest"
  /\ Goto("poll") \/ Goto("check")
  /\ UNCHANGED <<sendFrame, hWnd, sendQ, sending, shown>>

-----------------------------------------------------------------------------

Sending == SendLoop \/ ExistLogServer \/ ClearLogContent \/ Poll \/ SendOne \/ Rest

Next ==
  \/ SetClientName \/ Release \/ SetSyncSendLog \/ Clear
  \/ BeginPrint \/ PrintToConsole \/ ToggleWindow
  \/ Sending

Spec == Init /\ [][Next]_vars

\* The send thread goes on; its sleeps end.
FairSpec == Spec /\ WF_vars(Sending)

-----------------------------------------------------------------------------
(* Properties.                                                              *)

Increasing(s) == \A j, k \in DOMAIN s : j < k => s[j] < s[k]

\* Until synchronous sending is chosen the windows get entries in order, each
\* at most once.
ShownInOrder ==
  ~sync => Increasing(shown \o (IF sending = 0 THEN <<>> ELSE <<sending>>) \o sendQ)

\* An entry for the window does not stay in the queue while the log runs.
QueuedIsTaken ==
  \A n \in 1 .. MaxPrints : n \in Range(sendQ) ~> (n \notin Range(sendQ) \/ ~run)
=============================================================================

------------------------------ MODULE LogSave -------------------------------
(***************************************************************************)
(* CLog, the side of the file.  Threads that print append entries to a     *)
(* queue; the queue is written to the file when an exception is printed    *)
(* (SaveLog_Immediately, on the printing thread), or by a save thread,     *)
(* which does so when sending is synchronous and else only drops the older *)
(* half of a full queue.                                                   *)
(*                                                                         *)
(* The queue has a mutex, held for one step; SaveLog_Immediately holds     *)
(* another over several.  An entry is the number of its place among all    *)
(* that ever entered the queue.  What Print sends to the window is the     *)
(* subject of LogSend.                                                     *)
(***************************************************************************)
EXTENDS Naturals, Sequences, Functions

CONSTANTS
  Callers,    \* threads that print
  SaveThread, \* the thread of CLog
  NoThread,   \* the owner of a free mutex
  Limit,      \* MAX_SAVELOG_COUNT
  FileLimit,  \* entries that make 20 megabytes
  MaxPrints,  \* bound: no Print begins once so many entries were filed
  MaxFaults   \* bound: writes to the file that fail

Threads == Callers \cup {SaveThread}

ASSUME ThreadsAssumption == SaveThread \notin Callers /\ NoThread \notin Threads
ASSUME LimitsAssumption == Limit \in Nat /\ FileLimit \in Nat \ {0}
ASSUME BoundsAssumption == MaxPrints \in Nat /\ MaxFaults \in Nat

VARIABLES
  run,      \* _bRun
  sync,     \* _bSync
  infinite, \* _InfiniteSave
  pc,       \* where each thread is
  req,      \* what kind of call each thread makes
  mine,     \* the entry of a caller's latest exception, 0 for none
  saveQ,    \* _QueueSaveLogContent
  owner,    \* the thread that holds the mutex of SaveLog_Immediately
  hand,     \* VecLogContent of each thread
  file,     \* the entries in the file
  gone,     \* entries that were dropped, cleared or not written
  filed,    \* entries printed so far
  faults    \* writes that failed

settings == <<run, sync, infinite>>
callVars == <<req, mine>>
saveVars == <<saveQ, owner, hand, file, gone, filed, faults>>
vars == <<settings, pc, callVars, saveVars>>

Saving == {"lock", "take", "write", "trim"}
CallerLabels == {"idle", "file"} \cup Saving
SaveLabels == {"none", "loop", "drop", "done"} \cup Saving

\* Print of an exception or of anything else; SaveLog_Immediately called by the
\* program, to append or to overwrite.
Calls == {"none", "print", "exception", "append", "overwrite"}

TypeOK ==
  /\ run \in BOOLEAN /\ sync \in BOOLEAN /\ infinite \in BOOLEAN
  /\ DOMAIN pc = Threads /\ pc[SaveThread] \in SaveLabels
  /\ \A c \in Callers : pc[c] \in CallerLabels
  /\ req \in [Threads -> Calls] /\ mine \in [Callers -> Nat]
  /\ saveQ \in Seq(Nat) /\ owner \in Threads \cup {NoThread}
  /\ hand \in [Threads -> Seq(Nat)] /\ file \in Seq(Nat)
  /\ gone \subseteq Nat /\ filed \in Nat /\ faults \in Nat

Init ==
  /\ run = FALSE /\ sync = FALSE /\ infinite = FALSE
  /\ pc = [t \in Threads |-> IF t = SaveThread THEN "none" ELSE "idle"]
  /\ req = [t \in Threads |-> "none"] /\ mine = [c \in Callers |-> 0]
  /\ saveQ = <<>> /\ owner = NoThread /\ hand = [t \in Threads |-> <<>>]
  /\ file = <<>> /\ gone = {} /\ filed = 0 /\ faults = 0

Goto(t, label) == pc' = [pc EXCEPT ![t] = label]

AddSaveLogToQueue ==
  /\ filed' = filed + 1
  /\ saveQ' = Append(saveQ, filed + 1)
  /\ UNCHANGED <<owner, hand, file, gone, faults>>

-----------------------------------------------------------------------------
(* Start, stop and settings.                                                *)

\* SetClientName: the log runs, prints that it does, and starts its threads.
SetClientName ==
  /\ pc[SaveThread] = "none"
  /\ run' = TRUE
  /\ AddSaveLogToQueue
  /\ Goto(SaveThread, "loop")
  /\ UNCHANGED <<sync, infinite, callVars>>

\* Release waits a second at most for the thread, whether it ended or not.
Release ==
  /\ run /\ run' = FALSE
  /\ UNCHANGED <<sync, infinite, pc, callVars, saveVars>>

SetSyncSendLog ==
  /\ ~sync /\ sync' = TRUE
  /\ UNCHANGED <<run, infinite, pc, callVars, saveVars>>

SetInfiniteSave ==
  /\ ~infinite /\ infinite' = TRUE
  /\ UNCHANGED <<run, sync, pc, callVars, saveVars>>

Clear ==
  /\ saveQ # <<>>
  /\ saveQ' = <<>>
  /\ gone' = gone \cup Range(saveQ)
  /\ UNCHANGED <<settings, pc, callVars, owner, hand, file, filed, faults>>

-----------------------------------------------------------------------------
(* Print, on the thread that calls it.                                      *)

BeginPrint(c) ==
  /\ pc[c] = "idle" /\ run /\ filed < MaxPrints
  /\ \E r \in {"print", "exception"} : req' = [req EXCEPT ![c] = r]
  /\ Goto(c, "file")
  /\ UNCHANGED <<settings, mine, saveVars>>

\* The entry is queued; an exception then has the queue saved.
PrintToFile(c) ==
  /\ pc[c] = "file"
  /\ AddSaveLogToQueue
  /\ IF req[c] = "exception"
     THEN mine' = [mine EXCEPT ![c] = filed + 1] /\ Goto(c, "lock")
     ELSE UNCHANGED mine /\ Goto(c, "idle")
  /\ req' = [req EXCEPT ![c] = IF @ = "print" THEN "none" ELSE @]
  /\ UNCHANGED settings

\* A program calls SaveLog_Immediately itself, or prints an exception that does
\* not go to the file.
Save(c) ==
  /\ pc[c] = "idle"
  /\ \E r \in {"append", "overwrite"} : req' = [req EXCEPT ![c] = r]
  /\ Goto(c, "lock")
  /\ UNCHANGED <<settings, mine, saveVars>>

-----------------------------------------------------------------------------
(* SaveLog_Immediately.                                                     *)

savingFrame == <<settings, callVars>>

\* Mutated forms of Lock: the mutex is not taken; a thread that finds it taken
\* leaves the saving to its owner.
LockShared(t) ==
  /\ pc[t] = "lock"
  /\ owner' = t
  /\ Goto(t, "take")
  /\ UNCHANGED <<savingFrame, saveQ, hand, file, gone, filed, faults>>

LockTries(t) ==
  /\ pc[t] = "lock"
  /\ IF owner = NoThread
     THEN owner' = t /\ Goto(t, "take")
     ELSE owner' = owner /\ Goto(t, IF t = SaveThread THEN "loop" ELSE "idle")
  /\ UNCHANGED <<savingFrame, saveQ, hand, file, gone, filed, faults>>

Lock(t) ==
  /\ pc[t] = "lock" /\ owner = NoThread
  /\ owner' = t
  /\ Goto(t, "take")
  /\ UNCHANGED <<savingFrame, saveQ, hand, file, gone, filed, faults>>

\* Mutated form of Take: the copy and the clear are not under one lock.
TakeUnlocked(t) ==
  /\ pc[t] = "take"
  /\ \E n \in 0 .. Len(saveQ) : hand' = [hand EXCEPT ![t] = SubSeq(saveQ, 1, n)]
  /\ saveQ' = <<>>
  /\ Goto(t, IF saveQ = <<>> THEN "trim" ELSE "write")
  /\ UNCHANGED <<savingFrame, owner, file, gone, filed, faults>>

\* GetSaveLogContentForQueue: the whole queue, in one step.
Take(t) ==
  /\ pc[t] = "take"
  /\ hand' = [hand EXCEPT ![t] = saveQ]
  /\ saveQ' = <<>>
  /\ Goto(t, IF saveQ = <<>> THEN "trim" ELSE "write")
  /\ UNCHANGED <<savingFrame, owner, file, gone, filed, faults>>

\* SaveLog appends to the file or writes it anew; nobody asks if that failed.
Write(t) ==
  /\ pc[t] = "write"
  /\ \/ /\ IF req[t] = "overwrite"
           THEN file' = hand[t] /\ gone' = gone \cup Range(file)
           ELSE file' = file \o hand[t] /\ UNCHANGED gone
        /\ UNCHANGED faults
     \/ /\ faults < MaxFaults
        /\ faults' = faults + 1
        /\ gone' = gone \cup Range(hand[t])
        /\ UNCHANGED file
  /\ hand' = [hand EXCEPT ![t] = <<>>]
  /\ Goto(t, "trim")
  /\ UNCHANGED <<savingFrame, saveQ, owner, filed>>

\* Mutated form of Trim: the save thread ends after it has saved.
TrimEnds(t) ==
  /\ pc[t] = "trim"
  /\ IF ~infinite /\ Len(file) >= FileLimit
     THEN file' = <<>> /\ gone' = gone \cup Range(file)
     ELSE UNCHANGED <<file, gone>>
  /\ owner' = NoThread
  /\ Goto(t, "idle")
  /\ req' = [req EXCEPT ![t] = "none"]
  /\ UNCHANGED <<settings, mine, saveQ, hand, filed, faults>>

\* ClearLogFile empties a file that is too long; then the mutex is released.
Trim(t) ==
  /\ pc[t] = "trim"
  /\ IF ~infinite /\ Len(file) >= FileLimit
     THEN file' = <<>> /\ gone' = gone \cup Range(file)
     ELSE UNCHANGED <<file, gone>>
  /\ owner' = NoThread
  /\ Goto(t, IF t = SaveThread THEN "loop" ELSE "idle")
  /\ req' = [req EXCEPT ![t] = "none"]
  /\ UNCHANGED <<settings, mine, saveQ, hand, filed, faults>>

SaveLogImmediately(t) == Lock(t) \/ Take(t) \/ Write(t) \/ Trim(t)

-----------------------------------------------------------------------------
(* _SaveThread.                                                             *)

saveFrame == <<settings, callVars, owner, hand, file, filed, faults>>

\* Mutated form of SaveLoop: asks for the limit first.
SaveLoopLimitFirst ==
  /\ pc[SaveThread] = "loop"
  /\ \/ ~run /\ Goto(SaveThread, "done")
     \/ run /\ Len(saveQ) >= Limit /\ Goto(SaveThread, IF sync THEN "lock" ELSE "drop")
  /\ UNCHANGED <<saveFrame, saveQ, gone>>

\* It saves when sync is set; else it waits until the queue is full.
SaveLoop ==
  /\ pc[SaveThread] = "loop"
  /\ \/ ~run /\ Goto(SaveThread, "done")
     \/ run /\ sync /\ Goto(SaveThread, "lock")
     \/ run /\ ~sync /\ Len(saveQ) >= Limit /\ Goto(SaveThread, "drop")
  /\ UNCHANGED <<saveFrame, saveQ, gone>>

\* ClearSaveLog drops the older half of what the queue holds by now.
ClearSaveLog ==
  /\ pc[SaveThread] = "drop"
  /\ LET half == Len(saveQ) \div 2
     IN  /\ gone' = gone \cup Range(SubSeq(saveQ, 1, half))
         /\ saveQ' = SubSeq(saveQ, half + 1, Len(saveQ))
  /\ Goto(SaveThread, "loop")
  /\ UNCHANGED saveFrame

-----------------------------------------------------------------------------

SavingThread == SaveLoop \/ ClearSaveLog \/ SaveLogImmediately(SaveThread)

Calling(c) == PrintToFile(c) \/ SaveLogImmediately(c)

Next ==
  \/ SetClientName \/ Release \/ SetSyncSendLog \/ SetInfiniteSave \/ Clear
  \/ SavingThread
  \/ \E c \in Callers : BeginPrint(c) \/ Save(c) \/ Calling(c)

Spec == Init /\ [][Next]_vars

\* Threads go on; sleeps end.
FairSpec == Spec /\ WF_vars(SavingThread) /\ \A c \in Callers : WF_vars(Calling(c))

-----------------------------------------------------------------------------
(* Properties.                                                              *)

Increasing(s) == \A j, k \in DOMAIN s : j < k => s[j] < s[k]

\* What a thread holds on its way to the file.
Held == UNION {Range(hand[t]) : t \in Threads}

\* The file and the queue behind it are in the order of printing, whichever
\* threads save; nothing is written twice.
SavedInOrder ==
  /\ Increasing(file \o saveQ)
  /\ \A t \in Threads : hand[t] # <<>> =>
       owner = t /\ Increasing(file \o hand[t] \o saveQ)

\* Every entry for the file is in the queue, with a thread that saves, in the
\* file, or was dropped by one of the operations that drop.
Conserved == 1 .. filed = Range(saveQ) \cup Held \cup Range(file) \cup gone

\* The state has its types, and no entry is lost track of.
Accounted == TypeOK /\ Conserved

\* When the Print of an exception returns, its entry has been written or
\* dropped, also if another thread took it from the queue.
ExceptionOnDisk ==
  \A c \in Callers : pc[c] = "idle" /\ mine[c] # 0 => mine[c] \in Range(file) \cup gone

\* Once synchronous sending is chosen, an entry does not stay in the queue while
\* the log runs.
SyncIsSaved ==
  \A n \in 1 .. MaxPrints :
    (sync /\ n \in Range(saveQ)) ~> (n \notin Range(saveQ) \/ ~run)
=============================================================================

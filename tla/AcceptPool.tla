----------------------------- MODULE AcceptPool -----------------------------
(***************************************************************************)
(* The pool of pre-posted accepts of CSocketBaseServerService.  RunServer  *)
(* posts the first AcceptEx; every accept completion runs OnAccept on some *)
(* thread-pool thread, which gives its slot back (_uAccpetCount -= 1) and, *)
(* when few slots are left, posts new accepts up to the target.            *)
(* _uAccpetCount is a std::atomic<UINT>: each access is one step, but the  *)
(* decrement, the test, the second read and the increments of one OnAccept *)
(* are separate accesses that other threads run between.                   *)
(***************************************************************************)
EXTENDS Integers, FiniteSets

CONSTANTS
  Workers,      \* threads the thread pool may have
  Low,          \* 3: OnAccept tops up when the counter is at most Low
  Target,       \* 10: what a top-up aims at
  WordSize,     \* 2^32: the number of values of a UINT
  MaxConnects,  \* bound: connections the peers ever open
  MaxFaults     \* bound: accepts that fail, when posted or when completed

ASSUME WorkersAssumption == IsFiniteSet(Workers)
ASSUME LevelsAssumption  == Low \in Nat /\ Target \in Nat /\ Low < Target
ASSUME WordAssumption    == WordSize \in Nat /\ Target < WordSize
ASSUME BoundsAssumption  == MaxConnects \in Nat /\ MaxFaults \in Nat

VARIABLES
  pool,         \* the threads it has: the system decides
  server,       \* "new", "running", "stopping" or "down"
  acceptCount,  \* _uAccpetCount before reduction: the code sees its residue
  pc,           \* where each worker is in its callback
  uCount,       \* the local uCount of each worker
  i,            \* the local loop index of each worker
  posted,       \* AcceptEx calls in the kernel, completed ones not yet taken included
  stranded,     \* slots counted for an accept that will never be given back
  arrived,      \* connections opened so far
  backlog,      \* connections no accept has taken yet
  accepted,     \* accepts that succeeded
  faults        \* faults so far

vars == <<server, acceptCount, pc, uCount, i, posted, stranded,
          arrived, backlog, accepted, faults>>
poolVars == <<vars, pool>>

Labels == {"idle", "decr", "check", "read", "loop", "incr"}

TypeOK ==
  /\ pool \in SUBSET Workers \ {{}}
  /\ server \in {"new", "running", "stopping", "down"}
  /\ acceptCount \in Int
  /\ pc \in [Workers -> Labels]
  /\ uCount \in [Workers -> 0 .. WordSize - 1]
  /\ i \in [Workers -> Nat]
  /\ posted \in Nat /\ stranded \in Nat
  /\ arrived \in Nat /\ backlog \in Nat /\ accepted \in Nat /\ faults \in Nat

\* What a load of the atomic UINT returns.
Word(n) == n % WordSize

Init ==
  /\ pool \in SUBSET Workers \ {{}}
  /\ server = "new"
  /\ acceptCount = 0
  /\ pc = [w \in Workers |-> "idle"]
  /\ uCount = [w \in Workers |-> 0]
  /\ i = [w \in Workers |-> 0]
  /\ posted = 0 /\ stranded = 0
  /\ arrived = 0 /\ backlog = 0 /\ accepted = 0 /\ faults = 0

Goto(w, label) == pc' = [pc EXCEPT ![w] = label]

-----------------------------------------------------------------------------
(* PostAccept: an accept is pending in the kernel, or the call returned     *)
(* early (no socket, AcceptEx failed) without telling its caller.  Once     *)
(* StopServer has closed the listening socket every call fails.             *)

PostAccept ==
  \/ /\ server \in {"new", "running"}
     /\ posted' = posted + 1
     /\ UNCHANGED <<stranded, faults>>
  \/ /\ faults < MaxFaults
     /\ faults' = faults + 1
     /\ stranded' = stranded + 1
     /\ UNCHANGED posted
  \/ /\ server = "stopping"
     /\ stranded' = stranded + 1
     /\ UNCHANGED <<posted, faults>>

\* Mutated form of RunServer: the first accept is not counted.
RunServerUncounted ==
  /\ server = "new"
  /\ PostAccept
  /\ server' = "running"
  /\ UNCHANGED <<acceptCount, pc, uCount, i, arrived, backlog, accepted>>

\* RunServer once the socket listens: count the first accept, post it.  No
\* completion can come between the two, so they are one step.
RunServer ==
  /\ server = "new"
  /\ acceptCount' = acceptCount + 1
  /\ PostAccept
  /\ server' = "running"
  /\ UNCHANGED <<pc, uCount, i, arrived, backlog, accepted>>

\* StopServer closes the listening socket, which cancels its pending accepts ...
StopServer ==
  /\ server = "running"
  /\ server' = "stopping"
  /\ UNCHANGED <<acceptCount, pc, uCount, i, posted, stranded,
                 arrived, backlog, accepted, faults>>

\* ... drops the callbacks that have not begun, so that OnAccept never gives
\* their slots back, and waits for those that have.
StopServerWaited ==
  /\ server = "stopping"
  /\ \A w \in Workers : pc[w] = "idle"
  /\ server' = "down"
  /\ posted' = 0
  /\ stranded' = stranded + posted
  /\ backlog' = 0
  /\ UNCHANGED <<acceptCount, pc, uCount, i, arrived, accepted, faults>>

\* A peer connects.
Connect ==
  /\ server = "running"
  /\ arrived < MaxConnects
  /\ arrived' = arrived + 1
  /\ backlog' = backlog + 1
  /\ UNCHANGED <<server, acceptCount, pc, uCount, i, posted, stranded, accepted, faults>>

-----------------------------------------------------------------------------
(* IoCompletionCallback on a worker, for an accept.                         *)

\* A worker takes the completion of an accept that succeeded.
Dispatch(w) ==
  /\ pc[w] = "idle" /\ posted > 0 /\ backlog > 0
  /\ posted' = posted - 1
  /\ backlog' = backlog - 1
  /\ accepted' = accepted + 1
  /\ Goto(w, "decr")
  /\ UNCHANGED <<server, acceptCount, uCount, i, stranded, arrived, faults>>

\* It takes one that failed (the peer reset the connection first, or Stop
\* cancelled it): OnClose releases the client, OnAccept does not run.
DispatchFailed(w) ==
  /\ pc[w] = "idle" /\ posted > 0
  /\ \/ server = "stopping" /\ UNCHANGED <<backlog, faults>>
     \/ /\ backlog > 0 /\ faults < MaxFaults
        /\ backlog' = backlog - 1
        /\ faults' = faults + 1
  /\ posted' = posted - 1
  /\ stranded' = stranded + 1
  /\ UNCHANGED <<server, acceptCount, pc, uCount, i, arrived, accepted>>

\* _uAccpetCount -= 1;
Decrement(w) ==
  /\ pc[w] = "decr"
  /\ acceptCount' = acceptCount - 1
  /\ Goto(w, "check")
  /\ UNCHANGED <<server, uCount, i, posted, stranded, arrived, backlog, accepted, faults>>

\* Mutated form of Check: tests < for <=.
CheckBelow(w) ==
  /\ pc[w] = "check"
  /\ Goto(w, IF Word(acceptCount) < Low THEN "read" ELSE "idle")
  /\ UNCHANGED <<server, acceptCount, uCount, i, posted, stranded,
                 arrived, backlog, accepted, faults>>

\* if (_uAccpetCount <= 3)
Check(w) ==
  /\ pc[w] = "check"
  /\ Goto(w, IF Word(acceptCount) <= Low THEN "read" ELSE "idle")
  /\ UNCHANGED <<server, acceptCount, uCount, i, posted, stranded,
                 arrived, backlog, accepted, faults>>

\* UINT uCount = 10 - _uAccpetCount;
ReadCount(w) ==
  /\ pc[w] = "read"
  /\ uCount' = [uCount EXCEPT ![w] = Word(Target - acceptCount)]
  /\ i' = [i EXCEPT ![w] = 0]
  /\ Goto(w, "loop")
  /\ UNCHANGED <<server, acceptCount, posted, stranded, arrived, backlog, accepted, faults>>

\* The body of the loop, first PostAccept ...
Post(w) ==
  /\ pc[w] = "loop" /\ i[w] < uCount[w]
  /\ PostAccept
  /\ Goto(w, "incr")
  /\ UNCHANGED <<server, acceptCount, uCount, i, arrived, backlog, accepted>>

\* ... then _uAccpetCount += 1, whether or not the accept was posted.
Increment(w) ==
  /\ pc[w] = "incr"
  /\ acceptCount' = acceptCount + 1
  /\ i' = [i EXCEPT ![w] = @ + 1]
  /\ Goto(w, "loop")
  /\ UNCHANGED <<server, uCount, posted, stranded, arrived, backlog, accepted, faults>>

LoopEnd(w) ==
  /\ pc[w] = "loop" /\ i[w] >= uCount[w]
  /\ Goto(w, "idle")
  /\ uCount' = [uCount EXCEPT ![w] = 0]
  /\ i' = [i EXCEPT ![w] = 0]
  /\ UNCHANGED <<server, acceptCount, posted, stranded, arrived, backlog, accepted, faults>>

OnAccept(w) ==
  Decrement(w) \/ Check(w) \/ ReadCount(w) \/ Post(w) \/ Increment(w) \/ LoopEnd(w)

Next ==
  /\ \/ RunServer \/ StopServer \/ StopServerWaited \/ Connect
     \/ \E w \in pool : Dispatch(w) \/ DispatchFailed(w) \/ OnAccept(w)
  /\ UNCHANGED pool

Spec == Init /\ [][Next]_poolVars

\* The thread pool runs a queued completion on some free thread and lets a
\* thread that runs a callback go on.
FairSpec ==
  /\ Spec
  /\ WF_vars(\E w \in pool : Dispatch(w))
  /\ \A w \in Workers : WF_vars(OnAccept(w))

-----------------------------------------------------------------------------
(* Properties.                                                              *)

\* Workers that took an accept and have not yet given its slot back, and
\* workers that posted an accept and have not yet counted it.
Owing     == {w \in Workers : pc[w] = "decr"}
Uncounted == {w \in Workers : pc[w] = "incr"}

Quiet == server = "running" /\ \A w \in Workers : pc[w] = "idle"

\* Whatever the interleaving of OnAccept's separate accesses, the counter is
\* the accepts in the kernel plus the slots that faults and Stop stranded,
\* but for the slots of the callbacks between a post or a completion and
\* their own update of the counter.
Accounting ==
  acceptCount = posted + stranded + Cardinality(Owing) - Cardinality(Uncounted)

\* The counter goes below zero (as a UINT: wraps around to a value the test
\* takes for a full pool) only while workers have posts to count, and by no
\* more than one for each of them.
CountFloor == acceptCount >= - Cardinality(Uncounted)

\* No OnAccept runs beside another: the pool has one thread.
Alone == \E w \in Workers : pool = {w}

\* With one thread, a pool that accepted something is above the low mark and not
\* above the target between callbacks: each OnAccept leaves it so.
QuietPoolFull == Alone /\ Quiet /\ accepted > 0 => acceptCount \in Low + 1 .. Target

\* With one thread, and up to Low faults, a connection is accepted in the end.
ConnectsAreAccepted ==
  (Alone /\ accepted > 0 /\ backlog > 0) ~> (backlog = 0 \/ server # "running")

\* The same for every pool and connection, the first included.
EveryConnectIsAccepted == backlog > 0 ~> (backlog = 0 \/ server # "running")
=============================================================================

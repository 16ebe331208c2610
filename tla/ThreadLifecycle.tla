--------------------------- MODULE ThreadLifecycle ---------------------------
(***************************************************************************)
(* One object of class Thread and the OS thread behind it, under every     *)
(* sequence of calls a client may make: create_and_start() until it        *)
(* succeeds, join() at most once (joining a thread twice is undefined on   *)
(* Linux and no client does it), cancel() at any time, and the destructor, *)
(* which cancels.                                                          *)
(*                                                                         *)
(* The two platforms differ where it matters.  On Windows a thread is      *)
(* created suspended and then resumed, and TerminateThread() ends it on    *)
(* the spot.  On Linux pthread_cancel() leaves a request that the thread   *)
(* heeds at its next cancellation point, if it gets to one.  What run()     *)
(* does is left open but for its critical sections, which matter because   *)
(* the client takes the same lock in the getters of the Runnable.          *)
(***************************************************************************)
EXTENDS ThreadObject

VARIABLES
  windows,   \* which platform the program was built for
  pc,        \* whether the client is between calls, in a call, or done
  th,        \* the flags of the Thread object
  os,        \* the OS thread
  owner,     \* who owns the mutex of the Runnable
  pending,   \* pthread_cancel() has left a request
  reaped,    \* pthread_join() has released the handle
  last       \* the last call that returned, and what it returned

vars == <<windows, pc, th, os, owner, pending, reaped, last>>

\* "killed" is a thread that ended by cancellation, "returned" one whose
\* run() came to its end.
Ended == {"returned", "killed"}

\* "critical" is a thread that holds the lock of its Runnable.
Running == {"working", "critical"}
OSThreads == {"none", "suspended"} \cup Running \cup Ended

Calls == {"none", "create_and_start", "join", "cancel", "getter"}

TypeOK ==
  /\ windows \in BOOLEAN
  /\ pc \in {"ready", "joining", "getting", "deleted", "crashed"}
  /\ th \in ThreadObjects
  /\ os \in OSThreads
  /\ owner \in {"free", "worker", "client"}
  /\ pending \in BOOLEAN
  /\ reaped \in BOOLEAN
  /\ last \in [call : Calls, ret : BOOLEAN]

Init ==
  /\ windows \in BOOLEAN
  /\ pc = "ready"
  /\ th = NewThread
  /\ os = "none"
  /\ owner = "free"
  /\ pending = FALSE
  /\ reaped = FALSE
  /\ last = [call |-> "none", ret |-> FALSE]

Return(call, ret) == last' = [call |-> call, ret |-> ret]

-----------------------------------------------------------------------------
(* The client's calls.                                                     *)

\* The OS creates the thread or not; on Windows it may then fail to resume
\* it.
CreateAndStart ==
  /\ pc = "ready"
  /\ ~th.created
  /\ \/ /\ th' = AfterStart(th)
        /\ os' = "working"
        /\ Return("create_and_start", TRUE)
     \/ /\ UNCHANGED <<th, os>>
        /\ Return("create_and_start", FALSE)
     \/ /\ windows
        /\ th' = AfterCreate(th)
        /\ os' = "suspended"
        /\ Return("create_and_start", FALSE)
  /\ UNCHANGED <<windows, pc, owner, pending, reaped>>

\* join() returns at once if there is nothing to wait for, or blocks.
JoinCall ==
  /\ pc = "ready"
  /\ ~reaped
  /\ IF JoinWaits(th)
     THEN pc' = "joining" /\ UNCHANGED last
     ELSE UNCHANGED pc /\ Return("join", FALSE)
  /\ UNCHANGED <<windows, th, os, owner, pending, reaped>>

\* The wait ends with the OS thread.  On Linux the exit pointer of a thread
\* that returned holds its exit code, always 0; that of a cancelled thread is
\* PTHREAD_CANCELED, which join() dereferences all the same.
JoinReturn ==
  /\ pc = "joining"
  /\ os \in Ended
  /\ reaped' = TRUE
  /\ IF ~windows /\ os = "killed"
     THEN pc' = "crashed" /\ UNCHANGED <<th, last>>
     ELSE /\ pc' = "ready"
          /\ th' = AfterJoin(th)
          /\ Return("join", TRUE)
  /\ UNCHANGED <<windows, os, owner, pending>>

\* What the OS may do with the request: TerminateThread() ends a thread that
\* has not ended; pthread_cancel() always accepts a request for one that has
\* not ended, and may report ESRCH for one that has.
CancelByOS(ok) ==
  IF windows
  THEN /\ ok => os \notin Ended
       /\ os' = IF ok THEN "killed" ELSE os
       /\ UNCHANGED pending
  ELSE /\ os \notin Ended => ok
       /\ pending' = (pending \/ (ok /\ os \notin Ended))
       /\ UNCHANGED os

\* The body of cancel(), with its return value.
CancelBody(ret) ==
  IF CancelCallsOS(th, windows)
  THEN \E ok \in BOOLEAN :
         /\ CancelByOS(ok)
         /\ ret = CancelBranch(ok, windows)
         /\ th' = IF ret THEN AfterCancel(th) ELSE th
  ELSE ret = TRUE /\ UNCHANGED <<th, os, pending>>

Cancel ==
  /\ pc = "ready"
  /\ \E ret \in BOOLEAN : CancelBody(ret) /\ Return("cancel", ret)
  /\ UNCHANGED <<windows, pc, owner, reaped>>

\* ~Thread(), which warns if cancel() returns false.
Delete ==
  /\ pc = "ready"
  /\ \E ret \in BOOLEAN : CancelBody(ret) /\ Return("cancel", ret)
  /\ pc' = "deleted"
  /\ UNCHANGED <<windows, owner, reaped>>

\* A getter of the Runnable takes its lock, and waits for it if it has to.
GetterCall ==
  /\ pc = "ready"
  /\ pc' = "getting"
  /\ UNCHANGED <<windows, th, os, owner, pending, reaped, last>>

\* acquireLock(-1), the read and releaseLock().  A Windows mutex whose owner
\* was killed is abandoned: the wait hands it over with WAIT_ABANDONED, which
\* acquireLock() takes for a failure, so the getter returns a default and the
\* client stays the owner.  It may then acquire the mutex again at will.
GetterReturn ==
  /\ pc = "getting"
  /\ \/ /\ owner = "free"
        /\ Return("getter", TRUE)
        /\ UNCHANGED owner
     \/ /\ windows
        /\ owner = "worker" /\ os = "killed"
        /\ owner' = "client"
        /\ Return("getter", FALSE)
     \/ /\ windows
        /\ owner = "client"
        /\ Return("getter", TRUE)
        /\ UNCHANGED owner
  /\ pc' = "ready"
  /\ UNCHANGED <<windows, th, os, pending, reaped>>

-----------------------------------------------------------------------------
(* The OS thread.                                                          *)

AcquireLock ==
  /\ os = "working"
  /\ owner = "free"
  /\ os' = "critical"
  /\ owner' = "worker"
  /\ UNCHANGED <<windows, pc, th, pending, reaped, last>>

ReleaseLock ==
  /\ os = "critical"
  /\ os' = "working"
  /\ owner' = "free"
  /\ UNCHANGED <<windows, pc, th, pending, reaped, last>>

\* run() returns, outside of its critical sections.
RunReturns ==
  /\ os = "working"
  /\ os' = "returned"
  /\ UNCHANGED <<windows, pc, th, owner, pending, reaped, last>>

\* Mutant: a cancellation point, such as output, in a critical section.
CancellationPointAnywhere ==
  /\ os \in Running
  /\ pending
  /\ os' = "killed"
  /\ UNCHANGED <<windows, pc, th, owner, pending, reaped, last>>

\* The thread comes to a cancellation point with a request pending; there is
\* none in the critical sections of the workers.
CancellationPoint ==
  /\ os = "working"
  /\ pending
  /\ os' = "killed"
  /\ UNCHANGED <<windows, pc, th, owner, pending, reaped, last>>

OSThread ==
  AcquireLock \/ ReleaseLock \/ RunReturns \/ CancellationPoint

\* Nothing is left to happen.
Stopped ==
  /\ pc \in {"deleted", "crashed"}
  /\ os \notin Running
  /\ UNCHANGED vars

Client ==
  CreateAndStart \/ JoinCall \/ JoinReturn \/ Cancel \/ Delete
  \/ GetterCall \/ GetterReturn

Next == Client \/ OSThread \/ Stopped

Spec == Init /\ [][Next]_vars

\* run() always comes to an end and does not hold its lock for ever, however
\* often it takes it; a blocked call returns when it can.
FairSpec ==
  /\ Spec
  /\ SF_vars(RunReturns) /\ WF_vars(ReleaseLock)
  /\ WF_vars(JoinReturn) /\ WF_vars(GetterReturn)

-----------------------------------------------------------------------------
(* Properties.                                                             *)

\* The flags never claim more than the OS thread has done: completed_ means
\* that it has ended, a live thread is always reported as running, and
\* suspended_ is exact.
FlagsTrackThread ==
  /\ th.completed => os \in Ended
  /\ os \in Running => th.running
  /\ th.suspended <=> os = "suspended"

\* pthread_cancel() is never called on a handle that was joined: neither a
\* second cancel() nor the destructor touches a thread that is gone.
NoCallOnReapedThread ==
  ~windows /\ reaped /\ pc # "crashed" => ~CancelCallsOS(th, windows)

\* The lock of the Runnable is lost only to TerminateThread(): a thread that
\* returned, or was cancelled on Linux, does not own it, and a getter fails,
\* or leaves its caller the owner, only behind a thread killed on Windows.
LockLostOnlyByTerminate ==
  \/ owner = "worker" /\ os \notin Running
  \/ owner = "client"
  \/ last.call = "getter" /\ ~last.ret
  => windows /\ os = "killed"

\* A blocked join() or getter returns, or takes the process down: it is never
\* stuck behind a thread that never started, that cancel() gave up on, or
\* that was killed in its critical section.
BlockedCallsReturn ==
  pc \in {"joining", "getting"} ~> pc \notin {"joining", "getting"}

-----------------------------------------------------------------------------
(* The inductive invariant behind FlagsTrackThread, NoCallOnReapedThread   *)
(* and LockLostOnlyByTerminate.                                            *)

\* created_ and started_ are exact, and only a started thread is joined.
FlagsInOrder ==
  /\ th.created <=> os # "none"
  /\ os \in Running => th.started
  /\ pc = "joining" => th.created /\ th.started
  /\ os = "suspended" => windows

\* A reaped thread has ended, and join() noted it.
ReapedIsEnded ==
  reaped => os \in Ended /\ (pc # "crashed" => th.completed)

\* Only a live thread in its critical section owns the lock, unless it was
\* killed there.
OwnerIsCritical ==
  /\ os = "critical" => owner = "worker"
  /\ owner = "worker" => os = "critical" \/ (windows /\ os = "killed")

Inv ==
  /\ TypeOK
  /\ FlagsTrackThread
  /\ FlagsInOrder
  /\ ReapedIsEnded
  /\ OwnerIsCritical
  /\ LockLostOnlyByTerminate

=============================================================================

---------------------------- MODULE ThreadObject ----------------------------
(***************************************************************************)
(* The bookkeeping of class Thread (src/src/Thread.cpp): the five flags    *)
(* it keeps about one OS thread and how each method changes them.  The OS  *)
(* thread itself is not here: the modules that use this one hold its state *)
(* and decide what the OS calls return.  `windows` selects the _WIN32      *)
(* branch of a method, its negation the __gnu_linux__ branch.              *)
(***************************************************************************)

\* created_, started_, suspended_, running_ and completed_.
ThreadObjects ==
  [created : BOOLEAN, started : BOOLEAN, suspended : BOOLEAN,
   running : BOOLEAN, completed : BOOLEAN]

\* A Thread as its constructor leaves it.
NewThread ==
  [created |-> FALSE, started |-> FALSE, suspended |-> FALSE,
   running |-> FALSE, completed |-> FALSE]

\* Windows only: create() made a suspended OS thread.
AfterCreate(th) == [th EXCEPT !.created = TRUE, !.suspended = TRUE]

\* create_and_start() succeeded: pthread_create() on Linux, create() then
\* start() on Windows; the flags end up the same.
AfterStart(th) ==
  [th EXCEPT !.created = TRUE, !.started = TRUE,
             !.suspended = FALSE, !.running = TRUE]

\* Mutants of the guard of join(): it consults the wrong flag, or forgets
\* that a created thread may never have been started.
JoinWaitsIfCompleted(th) == th.created /\ th.completed
JoinWaitsIfCreated(th) == th.created

\* join() calls the OS only for a thread that was created and started;
\* for any other it returns false at once.
JoinWaits(th) == th.created /\ th.started

\* Mutant: a joined thread is not known to have completed.
AfterJoinForgetful(th) == [th EXCEPT !.running = FALSE, !.suspended = FALSE]

\* The wait of join() succeeded.
AfterJoin(th) ==
  [th EXCEPT !.running = FALSE, !.suspended = FALSE, !.completed = TRUE]

\* Mutant: only the creation of the thread is looked at.
CancelCallsOSIfCreated(th, windows) == th.created

\* cancel() calls the OS (pthread_cancel, TerminateThread) only then; for
\* any other thread it returns true and changes nothing.
CancelCallsOS(th, windows) == th.created /\ (windows \/ ~th.completed)

\* Mutant: the test of pthread_cancel() the other way round.
CancelBranchOnSuccess(osSucceeded, windows) == osSucceeded

\* cancel() writes its flags and returns true when the OS call returned a
\* value other than zero.  That is success for TerminateThread, and an
\* error for pthread_cancel.
CancelBranch(osSucceeded, windows) == IF windows THEN osSucceeded
                                                 ELSE ~osSucceeded

\* The flags written in that branch.
AfterCancel(th) ==
  [th EXCEPT !.running = FALSE, !.suspended = FALSE, !.completed = TRUE]

=============================================================================

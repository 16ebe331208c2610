----------------------- MODULE ThreadLifecycle_proofs -----------------------
(***************************************************************************)
(* Theorems about ThreadLifecycle, for both platforms and every sequence   *)
(* of calls.                                                               *)
(***************************************************************************)
EXTENDS ThreadLifecycle, TLAPS

\* What each method of Thread leaves in the flags.
LEMMA Flags ==
  ASSUME NEW f \in ThreadObjects
  PROVE  /\ NewThread \in ThreadObjects
         /\ AfterCreate(f) \in ThreadObjects
         /\ AfterCreate(f).created /\ AfterCreate(f).suspended
         /\ AfterCreate(f).completed = f.completed
         /\ AfterStart(f) \in ThreadObjects
         /\ AfterStart(f).created /\ AfterStart(f).started
         /\ AfterStart(f).running /\ ~AfterStart(f).suspended
         /\ AfterStart(f).completed = f.completed
         /\ AfterJoin(f) = AfterCancel(f)
         /\ AfterCancel(f) \in ThreadObjects
         /\ AfterCancel(f).completed
         /\ ~AfterCancel(f).running /\ ~AfterCancel(f).suspended
         /\ AfterCancel(f).created = f.created
         /\ AfterCancel(f).started = f.started
BY DEF ThreadObjects, NewThread, AfterCreate, AfterStart, AfterJoin,
       AfterCancel

LEMMA Returns ==
  ASSUME NEW call \in Calls, NEW ret \in BOOLEAN
  PROVE  /\ [call |-> call, ret |-> ret] \in [call : Calls, ret : BOOLEAN]
         /\ [call |-> call, ret |-> ret].call = call
         /\ [call |-> call, ret |-> ret].ret = ret
OBVIOUS

LEMMA ReturnStep ==
  ASSUME NEW call \in Calls, NEW ret \in BOOLEAN, Return(call, ret)
  PROVE  /\ last' \in [call : Calls, ret : BOOLEAN]
         /\ last'.call = call
         /\ last'.ret = ret
BY Returns DEF Return

LEMMA InvInit == Init => Inv
<1> SUFFICES ASSUME Init PROVE Inv
  OBVIOUS
<1> USE DEF Init, OSThreads, Running, Ended
<1>1. last \in [call : Calls, ret : BOOLEAN] /\ last.call = "none"
  BY Returns DEF Calls
<1>2. /\ th \in ThreadObjects
      /\ ~th.created /\ ~th.suspended /\ ~th.completed
  BY DEF NewThread, ThreadObjects
<1>3. TypeOK
  BY <1>1, <1>2 DEF TypeOK
<1> QED
  BY <1>1, <1>2, <1>3 DEF Inv, FlagsTrackThread, FlagsInOrder, ReapedIsEnded,
                          OwnerIsCritical, LockLostOnlyByTerminate

\* cancel() keeps the flags in step with the OS thread, whatever the OS
\* answers: it writes completed_ only for a thread that has ended.
LEMMA CancelKeepsFlags ==
  ASSUME Inv, pc = "ready", NEW ret \in BOOLEAN, CancelBody(ret),
         UNCHANGED <<windows, owner, reaped>>
  PROVE  /\ th' \in ThreadObjects /\ os' \in OSThreads /\ pending' \in BOOLEAN
         /\ FlagsTrackThread'
         /\ th'.created <=> os' # "none"
         /\ os' \in Running => th'.started
         /\ os' = "suspended" => windows
         /\ os \in Ended => os' \in Ended
         /\ os' = os \/ (windows /\ os' = "killed")
         /\ os = "killed" => os' = "killed"
         /\ th.completed => th'.completed
<1> USE DEF Inv, TypeOK, FlagsTrackThread, FlagsInOrder, OSThreads, Running,
            Ended
<1>1. CASE ~CancelCallsOS(th, windows)
  BY <1>1 DEF CancelBody
<1>2. CASE CancelCallsOS(th, windows)
  <2>1. PICK ok \in BOOLEAN :
          /\ CancelByOS(ok)
          /\ ret = CancelBranch(ok, windows)
          /\ th' = IF ret THEN AfterCancel(th) ELSE th
    BY <1>2 DEF CancelBody
  <2>2. CASE windows
    BY <1>2, <2>1, <2>2, Flags DEF CancelByOS, CancelBranch, CancelCallsOS
  <2>3. CASE ~windows
    BY <1>2, <2>1, <2>3, Flags DEF CancelByOS, CancelBranch, CancelCallsOS
  <2> QED
    BY <2>2, <2>3
<1> QED
  BY <1>1, <1>2

LEMMA InvStep == Inv /\ [Next]_vars => Inv'
<1> SUFFICES ASSUME Inv, [Next]_vars PROVE Inv'
  OBVIOUS
<1> USE DEF Inv, TypeOK, FlagsTrackThread, FlagsInOrder, ReapedIsEnded,
            OwnerIsCritical, LockLostOnlyByTerminate, OSThreads, Running,
            Ended
<1>0. /\ {"create_and_start", "join", "cancel", "getter"} \subseteq Calls
      /\ TRUE \in BOOLEAN /\ FALSE \in BOOLEAN
  BY DEF Calls
<1>1. CASE CreateAndStart
  <2>1. /\ last' \in [call : Calls, ret : BOOLEAN]
        /\ last'.call = "create_and_start"
    BY <1>0, <1>1, ReturnStep DEF CreateAndStart
  <2> QED
    BY <1>1, <2>1, Flags DEF CreateAndStart
<1>2. CASE JoinCall
  <2>1. UNCHANGED last \/ Return("join", FALSE)
    BY <1>2 DEF JoinCall
  <2>2. /\ last' \in [call : Calls, ret : BOOLEAN]
        /\ last' = last \/ last'.call = "join"
    BY <1>0, <2>1, ReturnStep
  <2> QED
    BY <1>2, <2>2 DEF JoinCall, JoinWaits
<1>3. CASE JoinReturn
  <2>1. UNCHANGED last \/ Return("join", TRUE)
    BY <1>3 DEF JoinReturn
  <2>2. /\ last' \in [call : Calls, ret : BOOLEAN]
        /\ last' = last \/ last'.call = "join"
    BY <1>0, <2>1, ReturnStep
  <2> QED
    BY <1>3, <2>2, Flags DEF JoinReturn
<1>4. CASE Cancel
  <2>1. PICK ret \in BOOLEAN : CancelBody(ret) /\ Return("cancel", ret)
    BY <1>4 DEF Cancel
  <2>2. last' \in [call : Calls, ret : BOOLEAN] /\ last'.call = "cancel"
    BY <1>0, <2>1, ReturnStep
  <2> QED
    BY <1>4, <2>1, <2>2, CancelKeepsFlags DEF Cancel
<1>5. CASE Delete
  <2>1. PICK ret \in BOOLEAN : CancelBody(ret) /\ Return("cancel", ret)
    BY <1>5 DEF Delete
  <2>2. last' \in [call : Calls, ret : BOOLEAN] /\ last'.call = "cancel"
    BY <1>0, <2>1, ReturnStep
  <2> QED
    BY <1>5, <2>1, <2>2, CancelKeepsFlags DEF Delete
<1>6. CASE GetterCall
  BY <1>6 DEF GetterCall
<1>7. CASE GetterReturn
  <2>1. PICK ret \in BOOLEAN :
          /\ Return("getter", ret)
          /\ ~ret => windows /\ os = "killed"
    BY <1>0, <1>7 DEF GetterReturn
  <2>2. /\ last' \in [call : Calls, ret : BOOLEAN]
        /\ last'.ret = ret
    BY <1>0, <2>1, ReturnStep
  <2> QED
    BY <1>7, <2>1, <2>2 DEF GetterReturn
<1>8. CASE OSThread
  BY <1>8 DEF OSThread, AcquireLock, ReleaseLock, RunReturns,
              CancellationPoint
<1>9. CASE UNCHANGED vars
  BY <1>9 DEF vars
<1> QED
  BY <1>1, <1>2, <1>3, <1>4, <1>5, <1>6, <1>7, <1>8, <1>9
  DEF Next, Client, Stopped

\* Inv is an invariant, and with it that every variable has its type.
THEOREM Invariance == Spec => []Inv
<1> QED
  BY InvInit, InvStep, PTL DEF Spec

\* The flags never claim more than the OS thread has done.
THEOREM FlagsAreSound == Spec => []FlagsTrackThread
<1>1. Inv => FlagsTrackThread
  BY DEF Inv
<1> QED
  BY Invariance, <1>1, PTL

\* pthread_cancel() is never called on a joined handle.
THEOREM NoStaleHandle == Spec => []NoCallOnReapedThread
<1>1. Inv => NoCallOnReapedThread
  BY DEF Inv, ReapedIsEnded, NoCallOnReapedThread, CancelCallsOS
<1> QED
  BY Invariance, <1>1, PTL

\* The lock of the Runnable is lost only to TerminateThread().
THEOREM LockSafety == Spec => []LockLostOnlyByTerminate
<1>1. Inv => LockLostOnlyByTerminate
  BY DEF Inv
<1> QED
  BY Invariance, <1>1, PTL

=============================================================================

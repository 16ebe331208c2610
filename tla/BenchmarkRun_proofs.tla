------------------------- MODULE BenchmarkRun_proofs -------------------------
(***************************************************************************)
(* Theorems about BenchmarkRun for every number of workers and iterations, *)
(* every platform and every timing of the kernels.                         *)
(***************************************************************************)
EXTENDS BenchmarkRun, FiniteSetTheorems, TLAPS

\* The unsigned subtraction stays in the range of tick_t.
LEMMA ModIsTick ==
  ASSUME NEW a \in Int
  PROVE  a % TickMod \in Ticks
BY BenchmarkRunAssumption DEF Ticks

LEMMA AdjustedTicksType ==
  ASSUME NEW s \in Stacks
  PROVE  AdjustedTicks(s) \in Ticks
BY ModIsTick, BenchmarkRunAssumption DEF AdjustedTicks, Stacks, Ticks

\* The records the actions build have their types.
LEMMA FreshTypes ==
  /\ NewThread \in ThreadObjects
  /\ NewWorker \in WorkerObjects
  /\ NoWorker \in WorkerObjects
  /\ FreshStack \in Stacks
  /\ ZeroSum \in Sums
  /\ NoMetric \in Metrics
<1>1. 0 \in Ticks
  BY BenchmarkRunAssumption DEF Ticks
<1>2. NewThread \in ThreadObjects
  BY DEF NewThread, ThreadObjects
<1>3. NewWorker \in WorkerObjects
  BY <1>1 DEF NewWorker, WorkerObjects
<1>4. NoWorker \in WorkerObjects
  BY <1>3 DEF NoWorker, WorkerObjects
<1>5. FreshStack \in Stacks
  BY <1>1 DEF FreshStack, Stacks
<1>6. ZeroSum \in Sums
  BY DEF ZeroSum, Sums
<1>7. NoMetric \in Metrics
  BY <1>6 DEF NoMetric, Metrics
<1> QED
  BY <1>2, <1>3, <1>4, <1>5, <1>6, <1>7

LEMMA ThreadObjectTypes ==
  ASSUME NEW th \in ThreadObjects
  PROVE  /\ AfterCreate(th) \in ThreadObjects
         /\ AfterStart(th) \in ThreadObjects
         /\ AfterJoin(th) \in ThreadObjects
BY DEF ThreadObjects, AfterCreate, AfterStart, AfterJoin

\* The initial state is well typed, and every step keeps the types.
LEMMA TypeInit == Init => TypeOK
<1> SUFFICES ASSUME Init PROVE TypeOK
  OBVIOUS
<1>1. kind \in BenchmarkKinds /\ windows \in BOOLEAN /\ pc \in Points
  BY BenchmarkRunAssumption DEF Init, Points
<1>2. t \in Workers /\ i \in Iterations /\ iterations \in 1..MaxIterations
  BY BenchmarkRunAssumption DEF Init, Workers, Iterations
<1>3. /\ thread \in [Workers -> ThreadObjects]
      /\ worker \in [Workers -> WorkerObjects]
      /\ lock \in [Workers -> {"free", "worker"}]
      /\ wpc \in [Workers -> WorkerPoints]
      /\ local \in [Workers -> Stacks]
  BY FreshTypes DEF Init, WorkerPoints
<1> QED
  BY <1>1, <1>2, <1>3, FreshTypes DEF Init, TypeOK

LEMMA TypeStep == TypeOK /\ [Next]_vars => TypeOK'
<1> SUFFICES ASSUME TypeOK, [Next]_vars PROVE TypeOK'
  OBVIOUS
<1> USE BenchmarkRunAssumption, FreshTypes, ThreadObjectTypes
<1>1. CASE SetUp
  BY <1>1 DEF SetUp, TypeOK, config, Points
<1>2. CASE CreateWorker
  BY <1>2 DEF CreateWorker, NextWorker, TypeOK, config, Points, Workers
<1>3. CASE StartWorker
  <2>1. thread' \in [Workers -> ThreadObjects]
    BY <1>3 DEF StartWorker, TypeOK
  <2>2. wpc' \in [Workers -> WorkerPoints]
    BY <1>3 DEF StartWorker, TypeOK, WorkerPoints, Running
  <2> QED
    BY <1>3, <2>1, <2>2 DEF StartWorker, NextWorker, TypeOK, config, Points,
                            Workers
<1>4. CASE JoinWorker
  BY <1>4 DEF JoinWorker, NextWorker, TypeOK, config, Points, Workers
<1>5. CASE GetPasses
  <2>1. sum' \in Sums
    BY <1>5 DEF GetPasses, TypeOK, Sums, WorkerObjects
  <2> QED
    BY <1>5, <2>1 DEF GetPasses, TypeOK, config, Points
<1>6. CASE GetAdjustedTicks
  <2>1. (sum.ticks + worker[t].adjusted) % TickMod \in Nat
    <3>1. sum.ticks \in Int /\ worker[t].adjusted \in Int
      BY DEF TypeOK, Sums, WorkerObjects, Ticks
    <3>2. (sum.ticks + worker[t].adjusted) % TickMod \in Ticks
      BY <3>1, ModIsTick
    <3> QED
      BY <3>2 DEF Ticks
  <2>2. sum' \in Sums
    BY <1>6, <2>1 DEF GetAdjustedTicks, TypeOK, Sums, WorkerObjects, Ticks
  <2> QED
    BY <1>6, <2>2 DEF GetAdjustedTicks, TypeOK, config, Points
<1>7. CASE HadWarning
  <2>1. sum' \in Sums
    BY <1>7 DEF HadWarning, TypeOK, Sums, WorkerObjects
  <2> QED
    BY <1>7, <2>1 DEF HadWarning, TypeOK, config, Points, Workers
<1>8. CASE RecordMetric
  <2>1. metric' \in [Iterations -> Metrics]
    BY <1>8 DEF RecordMetric, TypeOK, Metrics
  <2>2. warning' \in BOOLEAN
    BY <1>8 DEF RecordMetric, TypeOK, Sums
  <2> QED
    BY <1>8, <2>1, <2>2 DEF RecordMetric, TypeOK, config, Points
<1>9. CASE DeleteWorker
  <2>1. wpc' \in [Workers -> WorkerPoints]
    BY <1>9 DEF DeleteWorker, OSThreadAfterDelete, TypeOK, WorkerPoints
  <2>2. pc' \in Points /\ t' \in Workers /\ i' \in Iterations
    BY <1>9 DEF DeleteWorker, NextIteration, TypeOK, Points, Workers,
                Iterations
  <2> QED
    BY <1>9, <2>1, <2>2 DEF DeleteWorker, TypeOK, config
<1>10. CASE CheckConvergence
  BY <1>10 DEF CheckConvergence, NextIteration, TypeOK, config, Points,
               Iterations
<1>11. CASE Finish
  BY <1>11 DEF Finish, TypeOK, config, Points
<1>12. ASSUME NEW w \in Workers, Grab(w) PROVE TypeOK'
  BY <1>12 DEF Grab, TypeOK, config, mainVars, WorkerPoints, Running
<1>13. ASSUME NEW w \in Workers, MeasureBatch(w) PROVE TypeOK'
  <2>1. local' \in [Workers -> Stacks]
    BY <1>13, ModIsTick DEF MeasureBatch, TypeOK, Stacks, Ticks
  <2> QED
    BY <1>13, <2>1 DEF MeasureBatch, TypeOK, config, mainVars
<1>14. ASSUME NEW w \in Workers, MeasureDone(w) PROVE TypeOK'
  BY <1>14 DEF MeasureDone, TypeOK, config, mainVars, WorkerPoints, Running
<1>15. ASSUME NEW w \in Workers, DummyBatch(w) PROVE TypeOK'
  <2>1. local' \in [Workers -> Stacks]
    BY <1>15, ModIsTick DEF DummyBatch, TypeOK, Stacks, Ticks
  <2> QED
    BY <1>15, <2>1 DEF DummyBatch, TypeOK, config, mainVars
<1>16. ASSUME NEW w \in Workers, Publish(w) PROVE TypeOK'
  <2>1. local[w] \in Stacks /\ AdjustedTicks(local[w]) \in Ticks
    BY AdjustedTicksType DEF TypeOK
  <2>2. LooksFishy(local[w]) \in BOOLEAN
    BY DEF LooksFishy
  <2>3. worker' \in [Workers -> WorkerObjects]
    <3> DEFINE new == [worker[w] EXCEPT !.adjusted = AdjustedTicks(local[w]),
                                        !.elapsed = local[w].elapsed,
                                        !.dummy = local[w].dummy,
                                        !.warning = LooksFishy(local[w])]
    <3>1. worker \in [Workers -> WorkerObjects] /\ worker[w] \in WorkerObjects
      BY DEF TypeOK
    <3>2. local[w].elapsed \in Ticks /\ local[w].dummy \in Ticks
      BY <2>1 DEF Stacks
    <3>3. new \in WorkerObjects
      BY <2>1, <2>2, <3>1, <3>2 DEF WorkerObjects
    <3>4. worker' = [worker EXCEPT ![w] = new]
      BY <1>16, <3>1 DEF Publish
    <3> HIDE DEF new
    <3> QED
      BY <3>1, <3>3, <3>4
  <2> QED
    BY <1>16, <2>3 DEF Publish, TypeOK, config, mainVars, WorkerPoints,
                       Running
<1>17. ASSUME NEW w \in Workers, Release(w) PROVE TypeOK'
  <2>1. worker' \in [Workers -> WorkerObjects]
    BY <1>17 DEF Release, TypeOK, WorkerObjects, Stacks
  <2> QED
    BY <1>17, <2>1 DEF Release, TypeOK, config, mainVars, WorkerPoints
<1>18. CASE UNCHANGED vars
  BY <1>18 DEF vars, TypeOK
<1> QED
  BY <1>1, <1>2, <1>3, <1>4, <1>5, <1>6, <1>7, <1>8, <1>9, <1>10, <1>11,
     <1>12, <1>13, <1>14, <1>15, <1>16, <1>17, <1>18
  DEF Next, Main, WorkerThread, Returned

\* TypeOK is an invariant: every variable keeps its type, in particular the
\* tick counters stay within tick_t for every timing of the kernels.
THEOREM TypeCorrect == Spec => []TypeOK
<1> QED
  BY TypeInit, TypeStep, PTL DEF Spec

-----------------------------------------------------------------------------
(* Inv is inductive.  One lemma per conjunct: each of the main thread's    *)
(* loops takes the workers, in order, from one stage of an iteration to    *)
(* the next, and a worker thread moves only itself.                        *)

LEMMA InvInit == Init => Inv
<1> SUFFICES ASSUME Init PROVE Inv
  OBVIOUS
<1>1. TypeOK
  BY TypeInit
<1>2. LoopsInOrder
  BY DEF Init, LoopsInOrder, Stage, Gone, NoWorker, NewWorker, Collecting
<1>3. LockMeansPublishing
  BY DEF Init, LockMeansPublishing
<1>4. ResultsAreHonest
  BY DEF Init, ResultsAreHonest, FreshStack
<1>5. WarningsAreKept
  BY DEF Init, WarningsAreKept, NoMetric, Collecting
<1>6. RoundsInOrder
  BY BenchmarkRunAssumption DEF Init, RoundsInOrder, Round, NoMetric, Iterations
<1> QED
  BY <1>1, <1>2, <1>3, <1>4, <1>5, <1>6 DEF Inv

\* The loops of the main thread keep their order.
LEMMA LoopsStep == Inv /\ [Next]_vars => LoopsInOrder'
<1> SUFFICES ASSUME Inv, [Next]_vars, NEW v \in Workers
             PROVE  Stage(v)'
  BY DEF LoopsInOrder
<1> USE BenchmarkRunAssumption DEF Inv, LoopsInOrder, Stage, Collecting, config
<1>1. CASE SetUp
  BY <1>1 DEF SetUp, Gone, TypeOK, RoundsInOrder, Workers
<1>2. CASE CreateWorker
  <2>1. v = t => Fresh(v)'
    BY <1>2 DEF CreateWorker, Fresh, Gone, TypeOK, Workers, NewWorker
  <2>2. v # t => UNCHANGED <<worker[v], thread[v], wpc[v]>>
    BY <1>2 DEF CreateWorker, TypeOK
  <2> QED
    BY <1>2, <2>1, <2>2 DEF CreateWorker, NextWorker, Gone, Fresh, TypeOK,
                            Workers
<1>3. CASE StartWorker
  <2>1. v = t => Launched(v)'
    <3> HAVE v = t
    <3>1. worker[v].alive /\ wpc[v] = "none" /\ thread[v] = NewThread
      BY <1>3 DEF StartWorker, Fresh, TypeOK, Workers
    <3>2. CASE UNCHANGED <<thread, wpc>>
      BY <1>3, <3>1, <3>2 DEF StartWorker, Launched, NotStarted, NewThread
    <3>3. CASE /\ thread' = [thread EXCEPT ![t] = AfterStart(@)]
               /\ wpc' = [wpc EXCEPT ![t] = "grab"]
      <4>1. wpc'[v] = "grab" /\ thread'[v] = AfterStart(NewThread)
        BY <3>1, <3>3 DEF TypeOK
      <4>2. AfterStart(NewThread).created /\ AfterStart(NewThread).started
        BY DEF AfterStart, NewThread
      <4> QED
        BY <1>3, <3>1, <4>1, <4>2 DEF StartWorker, Launched, Running
    <3>4. CASE /\ windows
               /\ thread' = [thread EXCEPT ![t] = AfterCreate(@)]
               /\ wpc' = [wpc EXCEPT ![t] = "suspended"]
      <4>1. wpc'[v] = "suspended" /\ thread'[v] = AfterCreate(NewThread)
        BY <3>1, <3>4 DEF TypeOK
      <4>2. AfterCreate(NewThread).created /\ ~AfterCreate(NewThread).started
        BY DEF AfterCreate, NewThread
      <4> QED
        BY <1>3, <3>1, <3>4, <4>1, <4>2 DEF StartWorker, Launched, NotStarted
    <3> QED
      BY <1>3, <3>2, <3>3, <3>4 DEF StartWorker
  <2>2. v # t => UNCHANGED <<worker[v], thread[v], wpc[v], windows>>
    BY <1>3 DEF StartWorker, TypeOK
  <2> QED
    BY <1>3, <2>1, <2>2 DEF StartWorker, NextWorker, Fresh, Launched,
                            NotStarted, TypeOK, Workers
<1>4. CASE JoinWorker
  <2>1. v = t => Joined(v)'
    <3> HAVE v = t
    <3>1. Launched(v) /\ thread[v] \in ThreadObjects
      BY <1>4 DEF JoinWorker, TypeOK, Workers
    <3>2. CASE JoinWaits(thread[t])
      <4>1. thread'[v] = AfterJoin(thread[v]) /\ wpc[v] = "exited"
        BY <1>4, <3>2 DEF JoinWorker, TypeOK
      <4>2. AfterJoin(thread[v]).started
        BY <3>1, <3>2 DEF AfterJoin, JoinWaits, ThreadObjects
      <4> QED
        BY <1>4, <3>1, <4>1, <4>2 DEF JoinWorker, Launched, Joined
    <3>3. CASE ~JoinWaits(thread[t])
      BY <1>4, <3>1, <3>3 DEF JoinWorker, JoinWaits, Launched, Joined,
                              NotStarted
    <3> QED
      BY <3>2, <3>3
  <2>2. v # t => UNCHANGED <<worker[v], thread[v], wpc[v], windows>>
    BY <1>4 DEF JoinWorker, TypeOK
  <2> QED
    BY <1>4, <2>1, <2>2 DEF JoinWorker, NextWorker, Launched, Joined,
                            NotStarted, TypeOK, Workers
<1>5. CASE GetPasses
  BY <1>5 DEF GetPasses, Joined, NotStarted
<1>6. CASE GetAdjustedTicks
  BY <1>6 DEF GetAdjustedTicks, Joined, NotStarted
<1>7. CASE HadWarning
  BY <1>7 DEF HadWarning, Joined, NotStarted
<1>8. CASE RecordMetric
  BY <1>8 DEF RecordMetric, RoundsInOrder, Joined, NotStarted, TypeOK, Workers
<1>9. CASE DeleteWorker
  BY <1>9 DEF DeleteWorker, NextIteration, Gone, Joined, NotStarted, TypeOK,
              Workers, NoWorker, NewWorker, OSThreadAfterDelete, CancelCallsOS
<1>10. CASE CheckConvergence
  BY <1>10 DEF CheckConvergence, NextIteration, Gone, RoundsInOrder, TypeOK,
               Workers
<1>11. CASE Finish
  BY <1>11 DEF Finish, Gone
<1>12. ASSUME NEW w \in Workers, WorkerThread(w)
       PROVE  Stage(v)'
  <2>1. UNCHANGED <<pc, t, thread, windows>>
    BY <1>12 DEF WorkerThread, Grab, MeasureBatch, MeasureDone, DummyBatch,
                 Publish, Release, config, mainVars
  <2>2. /\ worker'[v].alive = worker[v].alive
        /\ wpc[v] \in Running => wpc'[v] \in Running \cup {"exited"}
        /\ wpc[v] \notin Running => wpc'[v] = wpc[v]
    BY <1>12 DEF WorkerThread, Grab, MeasureBatch, MeasureDone, DummyBatch,
                 Publish, Release, TypeOK, Running, WorkerObjects
  <2> QED
    BY <2>1, <2>2 DEF Gone, Fresh, Launched, Joined, NotStarted, Running
<1>13. CASE UNCHANGED vars
  BY <1>13 DEF vars, Gone, Fresh, Launched, Joined, NotStarted
<1> QED
  BY <1>1, <1>2, <1>3, <1>4, <1>5, <1>6, <1>7, <1>8, <1>9, <1>10, <1>11,
     <1>12, <1>13 DEF Next, Main, Returned

\* Only Publish and Release move a worker in or out of its critical section.
LEMMA LockStep == Inv /\ [Next]_vars => LockMeansPublishing'
<1> SUFFICES ASSUME Inv, [Next]_vars, NEW v \in Workers
             PROVE  lock'[v] # "free" <=> wpc'[v] = "release"
  BY DEF LockMeansPublishing
<1> USE DEF Inv, LockMeansPublishing, config, mainVars, TypeOK
<1>1. CASE SetUp \/ CreateWorker \/ GetPasses \/ GetAdjustedTicks \/ HadWarning
           \/ RecordMetric \/ JoinWorker \/ CheckConvergence \/ Finish
  BY <1>1 DEF SetUp, CreateWorker, GetPasses, GetAdjustedTicks, HadWarning,
              RecordMetric, JoinWorker, CheckConvergence, Finish
<1>2. CASE StartWorker
  <2>1. wpc[t] = "none" /\ lock[t] = "free"
    BY <1>2, BenchmarkRunAssumption
    DEF StartWorker, LoopsInOrder, Stage, Fresh, Workers
  <2>2. v # t => wpc'[v] = wpc[v]
    BY <1>2 DEF StartWorker
  <2>3. wpc'[t] # "release"
    BY <1>2, <2>1 DEF StartWorker
  <2>4. lock' = lock
    BY <1>2 DEF StartWorker
  <2> QED
    BY <2>1, <2>2, <2>3, <2>4
<1>3. CASE DeleteWorker
  BY <1>3 DEF DeleteWorker, OSThreadAfterDelete, LoopsInOrder, Stage, Joined,
              NotStarted, Workers
<1>4. ASSUME NEW w \in Workers, WorkerThread(w)
      PROVE  lock'[v] # "free" <=> wpc'[v] = "release"
  BY <1>4 DEF WorkerThread, Grab, MeasureBatch, MeasureDone, DummyBatch,
              Publish, Release
<1>5. CASE UNCHANGED vars
  BY <1>5 DEF vars
<1> QED
  BY <1>1, <1>2, <1>3, <1>4, <1>5 DEF Next, Main, Returned

\* A value that LooksFishy lets through has not wrapped.
LEMMA UnflaggedIsCredible ==
  ASSUME NEW s \in Stacks, ~LooksFishy(s)
  PROVE  /\ s.elapsed > 0
         /\ AdjustedTicks(s) = s.elapsed - s.dummy
         /\ 2 * AdjustedTicks(s) >= s.elapsed
         /\ s.elapsed >= MinElapsedTicks
<1>1. s.elapsed \in 0..TickMod-1 /\ s.dummy \in 0..TickMod-1
  BY DEF Stacks, Ticks
<1>2. s.dummy < s.elapsed /\ s.elapsed >= MinElapsedTicks
  BY <1>1, BenchmarkRunAssumption DEF LooksFishy
<1>3. s.elapsed - s.dummy \in 0..TickMod-1
  BY <1>1, <1>2, BenchmarkRunAssumption
<1>4. ASSUME NEW x \in 0..TickMod-1 PROVE x % TickMod = x
  BY BenchmarkRunAssumption
<1>5. AdjustedTicks(s) = s.elapsed - s.dummy
  BY <1>3, <1>4 DEF AdjustedTicks
<1>6. 2 * AdjustedTicks(s) >= s.elapsed
  BY <1>1, <1>5, BenchmarkRunAssumption DEF LooksFishy
<1> QED
  BY <1>1, <1>2, <1>5, <1>6

\* Nothing but the worker itself touches its results while it runs, and what
\* it publishes passes the check it made.
LEMMA HonestStep == Inv /\ [Next]_vars => ResultsAreHonest'
<1> DEFINE Honest(v) ==
      /\ local[v].elapsed > 0 => local[v].passes > 0
      /\ wpc[v] = "release" =>
           /\ Credible(v)
           /\ worker[v].elapsed = local[v].elapsed
      /\ wpc[v] = "exited" =>
           /\ worker[v].completed
           /\ Credible(v)
           /\ worker[v].elapsed > 0 => worker[v].passes > 0
<1> SUFFICES ASSUME Inv, [Next]_vars, NEW v \in Workers
             PROVE  Honest(v)'
  BY DEF ResultsAreHonest
<1>0. Honest(v)
  BY DEF Inv, ResultsAreHonest
<1> USE DEF Inv, config, mainVars, TypeOK, Credible
<1>1. CASE SetUp \/ GetPasses \/ GetAdjustedTicks \/ HadWarning
           \/ RecordMetric \/ JoinWorker \/ CheckConvergence \/ Finish
  BY <1>0, <1>1 DEF SetUp, GetPasses, GetAdjustedTicks, HadWarning,
                    RecordMetric, JoinWorker, CheckConvergence, Finish
<1>2. CASE CreateWorker
  <2>1. v = t => wpc[v] = "none"
    BY <1>2 DEF CreateWorker, LoopsInOrder, Stage, Gone, Workers
  <2> QED
    BY <1>0, <1>2, <2>1 DEF CreateWorker
<1>3. CASE StartWorker
  BY <1>0, <1>3 DEF StartWorker
<1>4. CASE DeleteWorker
  <2>1. v = t => wpc'[v] \notin {"release", "exited"}
    BY <1>4 DEF DeleteWorker, OSThreadAfterDelete, LoopsInOrder, Stage,
                Joined, NotStarted, Workers
  <2> QED
    BY <1>0, <1>4, <2>1 DEF DeleteWorker
<1>5. ASSUME NEW w \in Workers, WorkerThread(w), v # w PROVE Honest(v)'
  <2>1. UNCHANGED <<local[v], worker[v], wpc[v]>>
    BY <1>5 DEF WorkerThread, Grab, MeasureBatch, MeasureDone, DummyBatch,
                Publish, Release
  <2> QED
    BY <1>0, <2>1
<1>6. CASE Grab(v) \/ MeasureDone(v)
  BY <1>0, <1>6 DEF Grab, MeasureDone
<1>7. CASE MeasureBatch(v)
  <2>1. local'[v].passes = local[v].passes + 1 /\ local[v].passes \in Nat
    BY <1>7 DEF MeasureBatch, Stacks
  <2> QED
    BY <1>0, <1>7, <2>1 DEF MeasureBatch
<1>8. CASE DummyBatch(v)
  <2>1. local'[v].passes = local[v].passes /\ local'[v].elapsed = local[v].elapsed
    BY <1>8 DEF DummyBatch, Stacks
  <2> QED
    BY <1>0, <1>8, <2>1 DEF DummyBatch
<1>9. CASE Publish(v)
  <2>1. /\ worker'[v].elapsed = local[v].elapsed
        /\ worker'[v].dummy = local[v].dummy
        /\ worker'[v].adjusted = AdjustedTicks(local[v])
        /\ worker'[v].warning = LooksFishy(local[v])
        /\ wpc'[v] = "release" /\ UNCHANGED local
    BY <1>9 DEF Publish, WorkerObjects
  <2>2. Credible(v)'
    BY <2>1, UnflaggedIsCredible
  <2> QED
    BY <1>0, <2>1, <2>2
<1>10. CASE Release(v)
  <2>1. /\ worker'[v].completed
        /\ worker'[v].passes = local[v].passes
        /\ worker'[v].elapsed = worker[v].elapsed
        /\ worker'[v].dummy = worker[v].dummy
        /\ worker'[v].adjusted = worker[v].adjusted
        /\ worker'[v].warning = worker[v].warning
        /\ wpc'[v] = "exited" /\ local'[v] = FreshStack
    BY <1>10 DEF Release, WorkerObjects
  <2>2. wpc[v] = "release"
    BY <1>10 DEF Release
  <2> QED
    BY <1>0, <2>1, <2>2 DEF FreshStack
<1>11. CASE UNCHANGED vars
  BY <1>0, <1>11 DEF vars
<1> QED
  BY <1>1, <1>2, <1>3, <1>4, <1>5, <1>6, <1>7, <1>8, <1>9, <1>10, <1>11
  DEF Next, Main, Returned, WorkerThread

\* A warning read from a worker stays in the totals until it reaches
\* warning_, which is never cleared.
LEMMA WarningsStep == Inv /\ [Next]_vars => WarningsAreKept'
<1> SUFFICES ASSUME Inv, [Next]_vars PROVE WarningsAreKept'
  OBVIOUS
<1> USE BenchmarkRunAssumption
        DEF Inv, WarningsAreKept, config, mainVars, TypeOK, Collecting
<1>1. CASE SetUp \/ StartWorker \/ CheckConvergence \/ Finish
  BY <1>1 DEF SetUp, StartWorker, NextWorker, CheckConvergence, NextIteration,
              Finish
<1>2. CASE CreateWorker
  BY <1>2 DEF CreateWorker, NextWorker
<1>3. CASE JoinWorker
  BY <1>3 DEF JoinWorker, NextWorker, Workers
<1>4. CASE GetPasses \/ GetAdjustedTicks
  <2>1. sum'.warning = sum.warning
    BY <1>4 DEF GetPasses, GetAdjustedTicks, Sums
  <2> QED
    BY <1>4, <2>1 DEF GetPasses, GetAdjustedTicks
<1>5. CASE HadWarning
  <2>1. sum'.warning <=> sum.warning \/ worker[t].warning
    BY <1>5 DEF HadWarning, Sums, WorkerObjects
  <2> QED
    BY <1>5, <2>1 DEF HadWarning, Workers
<1>6. CASE RecordMetric
  <2>1. \A k \in Iterations :
          metric'[k] = IF k = i THEN [taken |-> TRUE, sum |-> sum] ELSE metric[k]
    BY <1>6 DEF RecordMetric
  <2>2. warning' <=> warning \/ sum.warning
    BY <1>6 DEF RecordMetric, Sums
  <2> QED
    BY <1>6, <2>1, <2>2 DEF RecordMetric
<1>7. CASE DeleteWorker
  BY <1>7 DEF DeleteWorker, NextIteration
<1>8. ASSUME NEW w \in Workers, WorkerThread(w) PROVE WarningsAreKept'
  <2>1. UNCHANGED <<pc, t, sum, metric, warning>>
    BY <1>8 DEF WorkerThread, Grab, MeasureBatch, MeasureDone, DummyBatch,
                Publish, Release
  <2>2. pc \in Collecting => wpc[w] \notin Running
    BY DEF LoopsInOrder, Stage, Joined, NotStarted, Running
  <2>3. pc \notin Collecting
    BY <1>8, <2>2 DEF WorkerThread, Grab, MeasureBatch, MeasureDone,
                      DummyBatch, Publish, Release, Running
  <2> QED
    BY <2>1, <2>3
<1>9. CASE UNCHANGED vars
  BY <1>9 DEF vars
<1> QED
  BY <1>1, <1>2, <1>3, <1>4, <1>5, <1>6, <1>7, <1>8, <1>9
  DEF Next, Main, Returned

\* Slots of metric_on_iter_ are filled one after the other.
LEMMA RoundsStep == Inv /\ [Next]_vars => RoundsInOrder'
<1> SUFFICES ASSUME Inv, [Next]_vars PROVE RoundsInOrder'
  OBVIOUS
<1> USE BenchmarkRunAssumption
        DEF Inv, RoundsInOrder, Round, config, mainVars, TypeOK, Iterations,
            Workers
<1>1. CASE SetUp
  BY <1>1 DEF SetUp
<1>2. CASE CreateWorker
  BY <1>2 DEF CreateWorker, NextWorker
<1>3. CASE StartWorker
  BY <1>3 DEF StartWorker, NextWorker
<1>4. CASE JoinWorker
  BY <1>4 DEF JoinWorker, NextWorker
<1>5. CASE GetPasses \/ GetAdjustedTicks
  BY <1>5 DEF GetPasses, GetAdjustedTicks
<1>6. CASE HadWarning
  BY <1>6 DEF HadWarning
<1>7. CASE RecordMetric
  <2>1. \A k \in Iterations :
          metric'[k] = IF k = i THEN [taken |-> TRUE, sum |-> sum] ELSE metric[k]
    BY <1>7 DEF RecordMetric
  <2>2. \A k \in Iterations : metric'[k].taken <=> k < i + 1
    BY <1>7, <2>1 DEF RecordMetric
  <2> QED
    BY <1>7, <2>2 DEF RecordMetric
<1>8. CASE DeleteWorker
  BY <1>8 DEF DeleteWorker, NextIteration
<1>9. CASE CheckConvergence
  BY <1>9 DEF CheckConvergence, NextIteration
<1>10. CASE Finish
  BY <1>10 DEF Finish
<1>11. ASSUME NEW w \in Workers, WorkerThread(w) PROVE RoundsInOrder'
  BY <1>11, SMTT(30)
  DEF WorkerThread, Grab, MeasureBatch, MeasureDone, DummyBatch, Publish,
      Release
<1>12. CASE UNCHANGED vars
  BY <1>12 DEF vars
<1> QED
  BY <1>1, <1>2, <1>3, <1>4, <1>5, <1>6, <1>7, <1>8, <1>9, <1>10, <1>11,
     <1>12 DEF Next, Main, Returned

\* Inv holds in every reachable state.
THEOREM Invariance == Spec => []Inv
<1>1. Inv /\ [Next]_vars => Inv'
  BY TypeStep, LoopsStep, LockStep, HonestStep, WarningsStep, RoundsStep DEF Inv
<1> QED
  BY InvInit, <1>1, PTL DEF Spec

-----------------------------------------------------------------------------
(* What the runs check, for every instance.                                *)

\* No worker object is deleted while its thread may run, or its lock is held.
THEOREM WorkerLifetime == Spec => []NoUseAfterFree
<1>1. Inv => NoUseAfterFree
  BY DEF Inv, TypeOK, Points, LoopsInOrder, Stage, Gone, Fresh, Launched,
         Joined, NotStarted, LockMeansPublishing, Running, Collecting,
         NoUseAfterFree
<1> QED
  BY Invariance, <1>1, PTL

\* Results are read only when no worker runs, and are complete.
THEOREM Barrier == Spec => []CollectsOnlyFinishedWork
<1>1. Inv => CollectsOnlyFinishedWork
  <2> SUFFICES ASSUME Inv PROVE CollectsOnlyFinishedWork
    OBVIOUS
  <2> USE DEF Inv, LoopsInOrder, Stage, Gone, Joined, NotStarted, Running,
              Collecting
  <2>1. ASSUME NEW w \in Workers, pc \in Collecting \cup {"delete"}
        PROVE  wpc[w] \notin Running
    BY <2>1
  <2>2. ASSUME NEW w \in Workers, pc \in Collecting, thread[w].started
        PROVE  worker[w].completed
    BY <2>2 DEF ResultsAreHonest
  <2> QED
    BY <2>1, <2>2 DEF CollectsOnlyFinishedWork
<1> QED
  BY Invariance, <1>1, PTL

\* A metric recorded without a warning rests on credible results only.
THEOREM Soundness == Spec => []UnflaggedMetricIsSound
<1>1. Inv => UnflaggedMetricIsSound
  <2> SUFFICES ASSUME Inv PROVE UnflaggedMetricIsSound
    OBVIOUS
  <2>1. ASSUME pc = "record", ~sum.warning, NEW w \in Workers,
               thread[w].started
        PROVE  /\ worker[w].passes > 0
               /\ worker[w].adjusted = worker[w].elapsed - worker[w].dummy
               /\ 2 * worker[w].adjusted >= worker[w].elapsed
               /\ worker[w].elapsed >= MinElapsedTicks
    <3>1. wpc[w] = "exited"
      BY <2>1 DEF Inv, LoopsInOrder, Stage, Joined, NotStarted, Collecting
    <3>2. ~worker[w].warning
      BY <2>1 DEF Inv, WarningsAreKept
    <3> QED
      BY <3>1, <3>2 DEF Inv, ResultsAreHonest, Credible
  <2> QED
    BY <2>1 DEF UnflaggedMetricIsSound, Inv, WarningsAreKept
<1> QED
  BY Invariance, <1>1, PTL

\* has_run_ is set only over a complete set of metrics, with nothing left.
THEOREM Completeness == Spec => []HasRunIsComplete
<1>1. Inv => HasRunIsComplete
  BY DEF Inv, RoundsInOrder, Round, LoopsInOrder, Stage, Gone, HasRunIsComplete
<1> QED
  BY Invariance, <1>1, PTL

\* Only RecordMetric writes a metric, into the first slot not yet taken.
THEOREM Finality == Spec => MetricsAreFinal
<1> DEFINE Final ==
      \A k \in Iterations :
        /\ metric[k].taken => metric'[k] = metric[k]
        /\ metric'[k].taken => \A j \in 0..k-1 : metric[j].taken
<1>1. ASSUME Inv, [Next]_vars PROVE Final
  <2> USE <1>1, BenchmarkRunAssumption
          DEF Inv, TypeOK, RoundsInOrder, Round, Iterations
  <2>1. CASE RecordMetric
    <3>1. \A k \in Iterations : metric[k].taken <=> k < i
      BY <2>1 DEF RecordMetric
    <3>2. \A k \in Iterations : k # i => metric'[k] = metric[k]
      BY <2>1 DEF RecordMetric
    <3> QED
      BY <3>1, <3>2
  <2>2. CASE ~RecordMetric
    <3>1. UNCHANGED metric
      BY <2>2 DEF Next, Main, SetUp, CreateWorker, StartWorker, JoinWorker,
           GetPasses, GetAdjustedTicks, HadWarning, DeleteWorker,
           CheckConvergence, Finish, WorkerThread, Grab, MeasureBatch,
           MeasureDone, DummyBatch, Publish, Release, Returned, vars, mainVars
    <3> QED
      BY <3>1
  <2> QED
    BY <2>1, <2>2
<1>2. Inv /\ [Next]_vars => [Final]_vars
  BY <1>1
<1> QED
  BY Invariance, <1>2, PTL DEF Spec, MetricsAreFinal

-----------------------------------------------------------------------------
(* The totals of an iteration.                                             *)

LEMMA Remainder ==
  ASSUME NEW p \in Nat \ {0}, NEW q \in Nat, NEW s \in 0..(p - 1)
  PROVE  (p * q + s) % p = s
OBVIOUS

\* A total that wraps around at every addition is the sum, wrapped around.
LEMMA WrappedSum ==
  ASSUME NEW a \in Nat, NEW b \in Nat, NEW m \in Nat \ {0}
  PROVE  ((a % m) + b) % m = (a + b) % m
<1> DEFINE r == a % m
           q == a \div m
           x == r + b
           s == x % m
           e == x \div m
<1>1. q \in Nat /\ r \in 0..(m - 1) /\ a = m * q + r
  OBVIOUS
<1> HIDE DEF q, r
<1>2. x \in Nat /\ a + b = m * q + x
  BY <1>1
<1> HIDE DEF x
<1>3. e \in Nat /\ s \in 0..(m - 1) /\ x = m * e + s
  BY <1>2
<1> HIDE DEF e, s
<1>4. a + b = m * (q + e) + s
  <2>1. m * (q + e) = m * q + m * e
    BY <1>1, <1>3, Z3
  <2> QED
    BY <1>1, <1>2, <1>3, <2>1
<1>5. (m * (q + e) + s) % m = s
  <2>1. q + e \in Nat
    BY <1>1, <1>3
  <2> QED
    BY <1>3, <2>1, Remainder
<1> QED
  BY <1>4, <1>5 DEF s, x, r

LEMMA SumOfNone ==
  ASSUME NEW c
  PROVE  SumOver(c, {}) = 0
<1>1. UNION {{w} \X (1..c[w]) : w \in {}} = {}
  OBVIOUS
<1> QED
  BY <1>1, FS_EmptySet DEF SumOver

\* Another worker adds its counter to the sum.
LEMMA SumOfOneMore ==
  ASSUME NEW c \in [Workers -> Nat], NEW S \in SUBSET Workers,
         NEW w \in Workers, w \notin S
  PROVE  /\ SumOver(c, S) \in Nat
         /\ SumOver(c, S \cup {w}) = SumOver(c, S) + c[w]
<1> DEFINE U(v) == {v} \X (1..c[v])
           T == {U(v) : v \in S}
           A == UNION T
           B == U(w)
<1>1. \A v \in Workers : IsFiniteSet(U(v)) /\ Cardinality(U(v)) = c[v]
  <2> SUFFICES ASSUME NEW v \in Workers
               PROVE  IsFiniteSet(U(v)) /\ Cardinality(U(v)) = c[v]
    OBVIOUS
  <2>1. c[v] \in Nat
    OBVIOUS
  <2>2. IsFiniteSet(1..c[v]) /\ Cardinality(1..c[v]) = c[v]
    BY <2>1, FS_Interval
  <2>3. IsFiniteSet({v}) /\ Cardinality({v}) = 1
    BY FS_Singleton
  <2>4. /\ IsFiniteSet({v} \X (1..c[v]))
        /\ Cardinality({v} \X (1..c[v])) = 1 * c[v]
    BY <2>2, <2>3, FS_Product
  <2> QED
    BY <2>1, <2>4
<1>2. IsFiniteSet(T)
  <2>1. IsFiniteSet(Workers)
    BY BenchmarkRunAssumption, FS_Interval DEF Workers
  <2>2. IsFiniteSet(S)
    BY <2>1, FS_Subset
  <2> DEFINE f == [v \in S |-> U(v)]
  <2>3. f \in Surjection(S, T)
    BY DEF Surjection
  <2> HIDE DEF f, T
  <2> QED
    BY <2>2, <2>3, FS_Surjection
<1>3. IsFiniteSet(A)
  <2>1. \A X \in T : IsFiniteSet(X)
    BY <1>1
  <2> HIDE DEF T
  <2> QED
    BY <1>2, <2>1, FS_UNION
<1>4. A \cap B = {}
  OBVIOUS
<1>5. UNION {U(v) : v \in S \cup {w}} = A \cup B
  OBVIOUS
<1>6. IsFiniteSet(B) /\ Cardinality(B) = c[w] /\ c[w] \in Nat
  BY <1>1
<1>7. Cardinality(A) \in Nat
  BY <1>3, FS_CardinalityType
<1>8. Cardinality(A \cup B) = Cardinality(A) + Cardinality(B)
  <2> HIDE DEF A, B
  <2>1. Cardinality(A \cap B) = 0
    BY <1>4, FS_EmptySet
  <2>2. Cardinality(A \cup B)
          = Cardinality(A) + Cardinality(B) - Cardinality(A \cap B)
    BY <1>3, <1>6, FS_Union
  <2>3. Cardinality(B) \in Nat
    BY <1>6
  <2> QED
    BY <1>7, <2>1, <2>2, <2>3
<1>9. SumOver(c, S) = Cardinality(A)
  BY DEF SumOver
<1>10. SumOver(c, S \cup {w}) = Cardinality(A \cup B)
  BY <1>5 DEF SumOver
<1> QED
  BY <1>6, <1>7, <1>8, <1>9, <1>10

\* The workers that have been added when the loop is at worker t.
LEMMA AddedSoFar ==
  ASSUME TypeOK
  PROVE  LET B == {w \in Workers : w < t}
             p == Added({"getAdjustedTicks", "hadWarning"})
             k == Added({"hadWarning"})
             q == Added({})
         IN /\ pc = "getPasses" => p = B /\ k = B /\ q = B
            /\ pc = "getAdjustedTicks" => p = B \cup {t} /\ k = B /\ q = B
            /\ pc = "hadWarning" => p = B \cup {t} /\ k = B \cup {t} /\ q = B
            /\ pc = "record" => p = Workers /\ k = Workers /\ q = Workers
<1>1. t \in Workers /\ t \in Int /\ \A w \in Workers : w \in Int
  BY BenchmarkRunAssumption DEF TypeOK, Workers
<1>2. /\ "getPasses" # "record" /\ "getAdjustedTicks" # "record"
      /\ "hadWarning" # "record"
  OBVIOUS
<1>3. ~(t < t)
  BY <1>1
<1> QED
  BY <1>1, <1>2, <1>3 DEF Added

\* Where nothing is published the totals hold what they held.
LEMMA TotalsStay ==
  ASSUME UNCHANGED <<kind, worker>>, NEW s, NEW p, NEW k, NEW q,
         TotalsOf(s, p, k, q)
  PROVE  /\ s.passes = SumOver(PublishedPasses', p \cap LoadWorkers')
         /\ s.ticks = SumOver(PublishedTicks', k \cap LoadWorkers') % TickMod
         /\ IsLatency' /\ 0 \in p => s.latPasses = worker'[0].passes
         /\ IsLatency' /\ 0 \in k => s.latTicks = worker'[0].adjusted
         /\ s.warning <=> \E w \in q : worker'[w].warning
<1>1. /\ PublishedPasses' = PublishedPasses /\ PublishedTicks' = PublishedTicks
      /\ LoadWorkers' = LoadWorkers /\ IsLatency' = IsLatency
      /\ worker' = worker
  BY DEF PublishedPasses, PublishedTicks, LoadWorkers, IsLatencyWorker,
         IsLatency
<1> QED
  BY <1>1 DEF TotalsOf

LEMMA TotalsInit == Init => TotalsAreExact
BY DEF Init, TotalsAreExact, Collecting

LEMMA TotalsStep == Inv /\ TotalsAreExact /\ [Next]_vars => TotalsAreExact'
<1> SUFFICES ASSUME Inv, TotalsAreExact, [Next]_vars
             PROVE  TotalsAreExact'
  OBVIOUS
<1> USE BenchmarkRunAssumption
<1> DEFINE B == {w \in Workers : w < t}
<1>1. TypeOK /\ TypeOK'
  BY TypeStep DEF Inv
<1>2. /\ PublishedPasses \in [Workers -> Nat]
      /\ PublishedTicks \in [Workers -> Nat]
      /\ LoadWorkers \subseteq Workers /\ 0 \in Workers
      /\ t \in Workers /\ t \in Nat /\ sum \in Sums
      /\ PublishedPasses[t] = worker[t].passes
      /\ PublishedTicks[t] = worker[t].adjusted
  <2>1. \A w \in Workers : worker[w].passes \in Nat /\ worker[w].adjusted \in Nat
    BY <1>1 DEF TypeOK, WorkerObjects, Ticks
  <2> QED
    BY <1>1, <2>1 DEF PublishedPasses, PublishedTicks, LoadWorkers, TypeOK,
                      Workers
<1>3. B \subseteq Workers /\ t \notin B
  BY <1>2 DEF Workers
\* The totals after a step that publishes nothing.
<1>4. ASSUME UNCHANGED <<kind, worker>>, pc' \in Collecting,
             TotalsOf(sum', Added({"getAdjustedTicks", "hadWarning"})',
                      Added({"hadWarning"})', Added({})')
      PROVE  TotalsAreExact'
  <2> DEFINE s == sum'
             p == Added({"getAdjustedTicks", "hadWarning"})'
             k == Added({"hadWarning"})'
             q == Added({})'
  <2>1. TotalsOf(s, p, k, q)
    BY <1>4
  <2> HIDE DEF s, p, k, q
  <2>2. /\ s.passes = SumOver(PublishedPasses', p \cap LoadWorkers')
        /\ s.ticks = SumOver(PublishedTicks', k \cap LoadWorkers') % TickMod
        /\ IsLatency' /\ 0 \in p => s.latPasses = worker'[0].passes
        /\ IsLatency' /\ 0 \in k => s.latTicks = worker'[0].adjusted
        /\ s.warning <=> \E w \in q : worker'[w].warning
    BY <1>4, <2>1, TotalsStay, ZenonT(30)
  <2> QED
    BY <1>4, <2>2 DEF TotalsAreExact, TotalsOf, s, p, k, q
<1>5. ASSUME pc \notin Collecting, pc' \notin Collecting, UNCHANGED sum
      PROVE  TotalsAreExact'
  BY <1>5 DEF TotalsAreExact, ZeroSum
<1>6. CASE SetUp \/ CreateWorker \/ StartWorker \/ DeleteWorker
             \/ CheckConvergence \/ Finish
  BY <1>5, <1>6 DEF SetUp, CreateWorker, StartWorker, DeleteWorker,
    CheckConvergence, Finish, NextWorker, NextIteration, Collecting
<1>7. CASE JoinWorker
  <2>1. /\ pc = "join" /\ UNCHANGED <<kind, worker, sum>>
        /\ pc' = "join" \/ (pc' = "getPasses" /\ t' = 0)
    BY <1>7 DEF JoinWorker, NextWorker, config
  <2>2. sum = ZeroSum
    BY <2>1 DEF TotalsAreExact, Collecting
  <2>3. CASE pc' = "join"
    BY <1>5, <2>1, <2>3 DEF Collecting
  <2>4. CASE pc' = "getPasses" /\ t' = 0
    <3>1. {w \in Workers : w < 0} = {}
      BY DEF Workers
    <3>2. /\ Added({"getAdjustedTicks", "hadWarning"})' = {}
          /\ Added({"hadWarning"})' = {} /\ Added({})' = {}
      BY <2>4, <3>1 DEF Added
    <3>3. {} \cap LoadWorkers = {} /\ 0 % TickMod = 0
      OBVIOUS
    <3>4. TotalsOf(sum', {}, {}, {})
      BY <2>1, <2>2, <3>3, SumOfNone DEF TotalsOf, ZeroSum
    <3>5. pc' \in Collecting
      BY <2>4 DEF Collecting
    <3> QED
      BY <1>4, <2>1, <3>2, <3>4, <3>5
  <2> QED
    BY <2>1, <2>3, <2>4
<1>8. ASSUME pc \in Collecting
      PROVE  TotalsOf(sum, Added({"getAdjustedTicks", "hadWarning"}),
                      Added({"hadWarning"}), Added({}))
  BY <1>8 DEF TotalsAreExact
\* A load worker is added to a sum, a latency worker is not.
<1>9. ASSUME NEW c \in [Workers -> Nat]
      PROVE  /\ SumOver(c, B \cap LoadWorkers) \in Nat
             /\ SumOver(c, (B \cup {t}) \cap LoadWorkers) =
                  SumOver(c, B \cap LoadWorkers)
                    + IF IsLatencyWorker(t) THEN 0 ELSE c[t]
  <2> DEFINE L == B \cap LoadWorkers
  <2>1. L \in SUBSET Workers /\ t \notin L /\ t \in Workers
    BY <1>2, <1>3
  <2>2. t \in LoadWorkers <=> ~IsLatencyWorker(t)
    BY <1>2 DEF LoadWorkers
  <2>3. (B \cup {t}) \cap LoadWorkers =
          IF IsLatencyWorker(t) THEN L ELSE L \cup {t}
    BY <2>2
  <2> HIDE DEF L
  <2>4. SumOver(c, L) \in Nat /\ SumOver(c, L \cup {t}) = SumOver(c, L) + c[t]
    BY <2>1, SumOfOneMore
  <2>5. SumOver(c, B \cap LoadWorkers) = SumOver(c, L)
    BY DEF L
  <2>6. CASE IsLatencyWorker(t)
    <3>1. (B \cup {t}) \cap LoadWorkers = L
      BY <2>3, <2>6
    <3> QED
      BY <2>4, <2>5, <2>6, <3>1
  <2>7. CASE ~IsLatencyWorker(t)
    <3>1. (B \cup {t}) \cap LoadWorkers = L \cup {t}
      BY <2>3, <2>7
    <3> QED
      BY <2>4, <2>5, <2>7, <3>1
  <2> QED
    BY <2>6, <2>7
<1> HIDE DEF B
<1>10. IsLatencyWorker(t) <=> IsLatency /\ t = 0
  BY DEF IsLatencyWorker
<1>11. CASE GetPasses
  <2>1. /\ pc = "getPasses" /\ pc' = "getAdjustedTicks"
        /\ UNCHANGED <<kind, worker, t>>
        /\ sum' = IF IsLatencyWorker(t)
                  THEN [sum EXCEPT !.latPasses = worker[t].passes]
                  ELSE [sum EXCEPT !.passes = @ + worker[t].passes]
    BY <1>11 DEF GetPasses, config
  <2>2. TotalsOf(sum, B, B, B)
    BY <1>1, <1>8, <2>1, AddedSoFar DEF Collecting, B
  <2>3. /\ sum'.passes = sum.passes
                           + IF IsLatencyWorker(t) THEN 0 ELSE worker[t].passes
        /\ sum'.ticks = sum.ticks /\ sum'.latTicks = sum.latTicks
        /\ sum'.warning = sum.warning
        /\ sum'.latPasses = IF IsLatencyWorker(t) THEN worker[t].passes
                                                  ELSE sum.latPasses
    BY <1>2, <2>1 DEF Sums
  <2>4. TotalsOf(sum', B \cup {t}, B, B)
    BY <1>2, <1>9, <1>10, <2>2, <2>3 DEF TotalsOf
  <2>5. /\ Added({"getAdjustedTicks", "hadWarning"})' = B \cup {t}
        /\ Added({"hadWarning"})' = B /\ Added({})' = B
    BY <1>2, <1>3, <2>1 DEF Added, B, Workers
  <2>6. pc' \in Collecting
    BY <2>1 DEF Collecting
  <2> QED
    BY <1>4, <2>1, <2>4, <2>5, <2>6
<1>12. CASE GetAdjustedTicks
  <2>1. /\ pc = "getAdjustedTicks" /\ pc' = "hadWarning"
        /\ UNCHANGED <<kind, worker, t>>
        /\ sum' = IF IsLatencyWorker(t)
                  THEN [sum EXCEPT !.latTicks = worker[t].adjusted]
                  ELSE [sum EXCEPT !.ticks = (@ + worker[t].adjusted) % TickMod]
    BY <1>12 DEF GetAdjustedTicks, config
  <2>2. TotalsOf(sum, B \cup {t}, B, B)
    BY <1>1, <1>8, <2>1, AddedSoFar DEF Collecting, B
  <2>3. /\ sum'.passes = sum.passes
        /\ sum'.ticks = IF IsLatencyWorker(t) THEN sum.ticks
                        ELSE (sum.ticks + worker[t].adjusted) % TickMod
        /\ sum'.latPasses = sum.latPasses
        /\ sum'.warning = sum.warning
        /\ sum'.latTicks = IF IsLatencyWorker(t) THEN worker[t].adjusted
                                                 ELSE sum.latTicks
    BY <1>2, <2>1 DEF Sums
  <2>4. sum'.ticks =
          SumOver(PublishedTicks, (B \cup {t}) \cap LoadWorkers) % TickMod
    <3> DEFINE a == SumOver(PublishedTicks, B \cap LoadWorkers)
               d == PublishedTicks[t]
    <3>1. /\ a \in Nat /\ d \in Nat /\ TickMod \in Nat \ {0}
          /\ SumOver(PublishedTicks, (B \cup {t}) \cap LoadWorkers) =
               a + IF IsLatencyWorker(t) THEN 0 ELSE d
      BY <1>2, <1>9
    <3>2. sum.ticks = a % TickMod /\ worker[t].adjusted = d
      BY <1>2, <2>2 DEF TotalsOf
    <3> HIDE DEF a, d
    <3>3. ((a % TickMod) + d) % TickMod = (a + d) % TickMod
      BY <3>1, WrappedSum, ZenonT(30)
    <3> QED
      BY <2>3, <3>1, <3>2, <3>3
  <2>5. TotalsOf(sum', B \cup {t}, B \cup {t}, B)
    BY <1>2, <1>10, <2>2, <2>3, <2>4 DEF TotalsOf
  <2>6. /\ Added({"getAdjustedTicks", "hadWarning"})' = B \cup {t}
        /\ Added({"hadWarning"})' = B \cup {t} /\ Added({})' = B
    BY <1>2, <1>3, <2>1 DEF Added, B, Workers
  <2>7. pc' \in Collecting
    BY <2>1 DEF Collecting
  <2> QED
    BY <1>4, <2>1, <2>5, <2>6, <2>7
<1>13. CASE HadWarning
  <2>1. /\ pc = "hadWarning" /\ UNCHANGED <<kind, worker>>
        /\ sum' = [sum EXCEPT !.warning = @ \/ worker[t].warning]
        /\ IF t + 1 < NumWorkers
           THEN t' = t + 1 /\ pc' = "getPasses"
           ELSE t' = 0 /\ pc' = "record"
    BY <1>13 DEF HadWarning, config
  <2> DEFINE C == B \cup {t}
  <2>2. TotalsOf(sum, C, C, B)
    BY <1>1, <1>8, <2>1, AddedSoFar DEF Collecting, B
  <2>3. /\ sum'.passes = sum.passes /\ sum'.ticks = sum.ticks
        /\ sum'.latPasses = sum.latPasses /\ sum'.latTicks = sum.latTicks
    BY <1>2, <2>1 DEF Sums
  <2>4. sum'.warning <=> sum.warning \/ worker[t].warning
    BY <1>1, <2>1 DEF TypeOK, Sums, WorkerObjects
  <2>5. TotalsOf(sum', C, C, C)
    <3>1. sum'.warning <=> \E w \in C : worker[w].warning
      BY <2>2, <2>4 DEF TotalsOf
    <3> QED
      BY <2>2, <2>3, <3>1 DEF TotalsOf
  <2>6. /\ Added({"getAdjustedTicks", "hadWarning"})' = C
        /\ Added({"hadWarning"})' = C /\ Added({})' = C
    <3>1. CASE t + 1 < NumWorkers
      BY <1>2, <2>1, <3>1, SMTT(30) DEF Added, B, Workers
    <3>2. CASE ~(t + 1 < NumWorkers)
      <4>1. C = Workers
        BY <1>2, <3>2 DEF B, Workers
      <4> QED
        BY <2>1, <3>2, <4>1 DEF Added
    <3> QED
      BY <3>1, <3>2
  <2>7. pc' \in Collecting
    BY <2>1 DEF Collecting
  <2> QED
    BY <1>4, <2>1, <2>5, <2>6, <2>7
<1>14. CASE RecordMetric
  BY <1>14 DEF RecordMetric, TotalsAreExact, Collecting, ZeroSum
<1>15. ASSUME UNCHANGED <<kind, worker, pc, t, sum>>
       PROVE  TotalsAreExact'
  <2>1. CASE pc \in Collecting
    BY <1>4, <1>8, <1>15, <2>1 DEF Added
  <2> QED
    BY <1>5, <1>15, <2>1
<1>16. ASSUME NEW w \in Workers, WorkerThread(w) PROVE TotalsAreExact'
  <2>1. UNCHANGED <<kind, pc, t, sum>>
    BY <1>16 DEF WorkerThread, Grab, MeasureBatch, MeasureDone, DummyBatch,
                 Publish, Release, mainVars, config
  <2>2. pc \in Collecting => wpc[w] \notin Running
    BY DEF Inv, LoopsInOrder, Stage, Joined, NotStarted, Running
  <2>3. pc \notin Collecting
    BY <1>16, <2>2 DEF WorkerThread, Grab, MeasureBatch, MeasureDone,
                       DummyBatch, Publish, Release, Running
  <2> QED
    BY <1>5, <2>1, <2>3
<1>17. CASE UNCHANGED vars
  BY <1>15, <1>17 DEF vars
<1> QED
  BY <1>6, <1>7, <1>11, <1>12, <1>13, <1>14, <1>16, <1>17
  DEF Next, Main, Returned

\* What a metric is computed from is what the workers of its iteration have
\* published, all of it, each worker's counters once.
THEOREM TotalsAreRight == Spec => []AggregateIsExact
<1>1. Inv /\ TotalsAreExact => AggregateIsExact
  <2> SUFFICES ASSUME Inv, TotalsAreExact, pc = "record"
               PROVE  AggregateIsExact
    BY DEF AggregateIsExact
  <2>1. TotalsOf(sum, Workers, Workers, Workers)
    BY DEF TotalsAreExact, Collecting, Added
  <2>2. Workers \cap LoadWorkers = LoadWorkers /\ 0 \in Workers
    BY BenchmarkRunAssumption DEF LoadWorkers, Workers
  <2>3. sum.warning \in BOOLEAN
    BY DEF Inv, TypeOK, Sums
  <2>4. sum.warning = \E w \in Workers : worker[w].warning
    BY <2>1, <2>3 DEF TotalsOf
  <2> QED
    BY <2>1, <2>2, <2>4 DEF TotalsOf, AggregateIsExact
<1> QED
  BY Invariance, TotalsInit, TotalsStep, <1>1, PTL DEF Spec

-----------------------------------------------------------------------------
(* The iteration loop implements ForkJoin.                                 *)

\* Before the first iteration no round is recorded and everybody waits.
LEMMA RefinesInit == Init => FJ!Init
BY DEF Init, FJ!Init, Round, Turn, Collecting

\* A step that changes neither the round nor anybody's turn is a stutter.
LEMMA RefinesStutter ==
  ASSUME Round' = Round, \A w \in Workers : Turn(w)' = Turn(w)
  PROVE  UNCHANGED FJ!vars
BY DEF FJ!vars

\* Started, a worker begins its turn; not started, it is skipped.
LEMMA RefinesStart ==
  ASSUME Inv, StartWorker, NEW v \in Workers, v = t
  PROVE  FJ!Next
<1>1. Round = i /\ Round' = Round /\ Round < MaxIterations
  BY BenchmarkRunAssumption
  DEF StartWorker, NextWorker, Inv, TypeOK, Iterations, RoundsInOrder, Round
<1>2. Turn(v) = "waiting"
  BY BenchmarkRunAssumption
  DEF Inv, TypeOK, Workers, StartWorker, Turn, Collecting
<1>3. \A w \in Workers : w # v => Turn(w)' = Turn(w)
  BY BenchmarkRunAssumption
  DEF Inv, TypeOK, Workers, StartWorker, NextWorker, Turn, Collecting
<1>4. Turn(v)' \in {"working", "skipped"}
  <2>1. wpc[v] = "none"
    BY BenchmarkRunAssumption
    DEF Inv, StartWorker, LoopsInOrder, Stage, Fresh, Workers
  <2>2. wpc'[v] \in {"none", "suspended", "grab"}
    BY <2>1 DEF StartWorker, Inv, TypeOK
  <2>3. pc' = "join" \/ (pc' = "start" /\ ~(v >= t'))
    BY BenchmarkRunAssumption DEF StartWorker, NextWorker, Workers
  <2> QED
    BY <2>2, <2>3 DEF Turn, Collecting, Running
<1>5. [w \in Workers |-> Turn(w)]' =
        [[w \in Workers |-> Turn(w)] EXCEPT ![v] = Turn(v)']
  BY <1>3
<1> QED
  BY <1>1, <1>2, <1>4, <1>5 DEF FJ!Next, FJ!Begin, FJ!Skip

\* A worker thread finishes its turn when it leaves its critical section.
LEMMA RefinesWorker ==
  ASSUME Inv, NEW v \in Workers, WorkerThread(v)
  PROVE  [FJ!Next]_(FJ!vars)
<1> USE DEF Inv, TypeOK
<1>1. UNCHANGED <<pc, t, i>>
  BY DEF WorkerThread, Grab, MeasureBatch, MeasureDone, DummyBatch, Publish,
         Release, mainVars
<1>2. Round' = Round
  BY <1>1 DEF Round
<1>3. \A w \in Workers : w # v => wpc'[w] = wpc[w]
  BY DEF WorkerThread, Grab, MeasureBatch, MeasureDone, DummyBatch, Publish,
         Release
<1>4. \A w \in Workers : w # v => Turn(w)' = Turn(w)
  BY <1>1, <1>3 DEF Turn, Collecting
<1>5. CASE Release(v)
  <2>1. wpc[v] = "release" /\ wpc'[v] = "exited"
    BY <1>5 DEF Release
  <2>2. pc = "join" \/ (pc = "start" /\ v < t)
    BY <2>1 DEF LoopsInOrder, Stage, Gone, Fresh, Joined, NotStarted,
                Collecting, Points
  <2>3. Turn(v) = "working" /\ Turn(v)' = "finished"
    BY <1>1, <2>1, <2>2, BenchmarkRunAssumption
    DEF Turn, Running, Workers, Collecting
  <2>4. [w \in Workers |-> Turn(w)]' =
          [[w \in Workers |-> Turn(w)] EXCEPT ![v] = "finished"]
    BY <1>4, <2>3
  <2> QED
    BY <1>2, <2>3, <2>4 DEF FJ!Next, FJ!Finish
<1>6. CASE ~Release(v)
  <2>1. wpc[v] \in Running /\ wpc'[v] \in Running
    BY <1>6 DEF WorkerThread, Grab, MeasureBatch, MeasureDone, DummyBatch,
                Publish, Running
  <2>2. Turn(v)' = Turn(v)
    BY <1>1, <2>1 DEF Turn, Collecting
  <2> QED
    BY <1>2, <1>4, <2>2, RefinesStutter
<1> QED
  BY <1>5, <1>6

\* Recording a metric is passing the barrier.
LEMMA RefinesRecord ==
  ASSUME Inv, RecordMetric
  PROVE  FJ!Next
<1> USE BenchmarkRunAssumption DEF Inv, TypeOK, Iterations
<1>1. Round < MaxIterations /\ Round' = Round + 1
  BY DEF RecordMetric, Round
<1>2. \A w \in Workers : Turn(w) \in {"finished", "skipped"}
  BY DEF RecordMetric, Turn, Collecting, LoopsInOrder, Stage, Joined,
         NotStarted, Running
<1>3. \A w \in Workers : Turn(w)' = "waiting"
  BY DEF RecordMetric, Turn, Collecting
<1> QED
  BY <1>1, <1>2, <1>3 DEF FJ!Next, FJ!Record

LEMMA RefinesStep == Inv /\ [Next]_vars => [FJ!Next]_(FJ!vars)
<1> SUFFICES ASSUME Inv, [Next]_vars PROVE [FJ!Next]_(FJ!vars)
  OBVIOUS
<1>1. ASSUME SetUp \/ CreateWorker \/ JoinWorker \/ GetPasses
             \/ GetAdjustedTicks \/ HadWarning \/ DeleteWorker
             \/ CheckConvergence \/ Finish
      PROVE  UNCHANGED FJ!vars
  <2>1. Round' = Round
    BY <1>1 DEF Inv, TypeOK, Iterations, SetUp, CreateWorker, JoinWorker,
         GetPasses, GetAdjustedTicks, HadWarning, DeleteWorker,
         CheckConvergence, Finish, NextWorker, NextIteration, Round
  <2>2. \A w \in Workers : Turn(w)' = Turn(w)
    BY <1>1, BenchmarkRunAssumption, SMTT(30)
    DEF Inv, TypeOK, Workers, SetUp, CreateWorker, JoinWorker, GetPasses,
        GetAdjustedTicks, HadWarning, DeleteWorker, CheckConvergence, Finish,
        NextWorker, NextIteration, Turn, Collecting
  <2> QED
    BY <2>1, <2>2, RefinesStutter
<1>2. CASE UNCHANGED vars
  <2>1. Round' = Round /\ \A w \in Workers : Turn(w)' = Turn(w)
    BY <1>2 DEF vars, Round, Turn
  <2> QED
    BY <2>1, RefinesStutter
<1>3. CASE StartWorker
  BY <1>3, RefinesStart DEF Inv, TypeOK
<1> QED
  BY <1>1, <1>2, <1>3, RefinesWorker, RefinesRecord DEF Next, Main, Returned

\* Every behaviour of runCore() and its workers is one of ForkJoin: a metric
\* is recorded only behind the barrier.
THEOREM Refinement == Spec => ImplementsForkJoin
<1> QED
  BY Invariance, RefinesInit, RefinesStep, PTL
  DEF Spec, ImplementsForkJoin, FJ!Spec

=============================================================================

---------------------------- MODULE BenchmarkRun ----------------------------
(***************************************************************************)
(* One call of Benchmark::run(): the main thread's iteration loop          *)
(* (runCore() of the throughput, latency, delay-injected latency and       *)
(* matrix benchmarks, which share it) and the worker threads it forks and  *)
(* joins in each iteration.                                                *)
(*                                                                         *)
(* In an iteration the main thread creates a worker object and a Thread    *)
(* object per worker, starts all the threads, joins them one by one, reads *)
(* the results out of the worker objects through getters that each take    *)
(* the object's lock, records the metric of the iteration and deletes the  *)
(* objects.  A worker thread takes its parameters under the lock, measures *)
(* until its time is up, runs the dummy kernel as often, and publishes its *)
(* counters under the lock.                                                *)
(***************************************************************************)
EXTENDS Integers, FiniteSets, ThreadObject

CONSTANTS
  NumWorkers,       \* num_worker_threads_
  MaxIterations,    \* iterations_ as configured
  Kinds,            \* the benchmark classes a behaviour may be a run of
  WarmUp,           \* the matrix benchmarks look for convergence from this
                    \* iteration on (5 in the code)
  LogExtended,      \* g_log_extended
  TargetTicks,      \* g_ticks_per_ms * BENCHMARK_DURATION_MS
  MinElapsedTicks,  \* MIN_ELAPSED_TICKS
  BatchTicks,       \* what one timed batch of kernel calls can take
  DummyTicks,       \* what one timed batch of dummy kernel calls can take
  TickMod           \* tick_t holds 0..TickMod-1

BenchmarkKinds ==
  {"Throughput", "Latency", "DelayInjected", "ThroughputMatrix",
   "LatencyMatrix"}

ASSUME BenchmarkRunAssumption ==
  /\ NumWorkers \in Nat \ {0}
  /\ MaxIterations \in Nat \ {0}
  /\ Kinds \subseteq BenchmarkKinds
  /\ WarmUp \in Nat
  /\ LogExtended \in BOOLEAN
  /\ TargetTicks \in Nat
  /\ MinElapsedTicks \in Nat
  /\ BatchTicks \subseteq Nat \ {0}
  /\ DummyTicks \subseteq Nat
  /\ TickMod \in Nat \ {0}
  /\ \A d \in BatchTicks : TargetTicks + d <= TickMod

Workers == 0..NumWorkers-1
Iterations == 0..MaxIterations-1

VARIABLES
  kind,        \* which class this benchmark is of
  windows,     \* which platform it was built for
  pc,          \* where the main thread is in runCore()
  t,           \* its loop variable over the workers
  i,           \* its loop variable over the iterations
  iterations,  \* iterations_, which the matrix benchmarks may reduce
  thread,      \* the Thread objects
  worker,      \* the worker objects: alive, and the published counters
  lock,        \* who holds the Runnable lock of each worker object
  wpc,         \* where each OS thread is in run()
  local,       \* the stack of each OS thread
  sum,         \* the totals of the current iteration
  metric,      \* metric_on_iter_ (and load_metric_on_iter_)
  warning,     \* warning_
  hasRun       \* has_run_

mainVars == <<pc, t, i, iterations, sum, metric, warning, hasRun>>
config == <<kind, windows>>
vars == <<kind, windows, pc, t, i, iterations, thread, worker, lock, wpc,
          local, sum, metric, warning, hasRun>>

IsLatency == kind \in {"Latency", "DelayInjected", "LatencyMatrix"}
IsMatrix  == kind \in {"ThroughputMatrix", "LatencyMatrix"}

-----------------------------------------------------------------------------
(* Worker objects and what a worker thread keeps on its stack.             *)

Ticks == 0..TickMod-1

WorkerObjects ==
  [alive : BOOLEAN, passes : Nat, elapsed : Ticks, dummy : Ticks,
   adjusted : Ticks, warning : BOOLEAN, completed : BOOLEAN]

NewWorker ==
  [alive |-> TRUE, passes |-> 0, elapsed |-> 0, dummy |-> 0,
   adjusted |-> 0, warning |-> FALSE, completed |-> FALSE]

NoWorker == [NewWorker EXCEPT !.alive = FALSE]

\* passes, p, elapsed_ticks and elapsed_dummy_ticks; a pass counts for a
\* whole batch (1024 of them in LoadWorker, 256 in LatencyWorker).
Stacks == [passes : Nat, p : Nat, elapsed : Ticks, dummy : Ticks]
FreshStack == [passes |-> 0, p |-> 0, elapsed |-> 0, dummy |-> 0]

Running == {"grab", "measure", "dummy", "release"}
WorkerPoints == Running \cup {"none", "suspended", "exited", "killed"}

\* Mutant: a check that forgets the dummy time exceeding the measured time.
LooksFishyButForOverrun(s) ==
  \/ s.elapsed < MinElapsedTicks
  \/ 2 * ((s.elapsed - s.dummy) % TickMod) < s.elapsed

\* adjusted_ticks: an unsigned subtraction.
AdjustedTicks(s) == (s.elapsed - s.dummy) % TickMod

\* "Warn if something looks fishy".
LooksFishy(s) ==
  \/ s.dummy >= s.elapsed
  \/ s.elapsed < MinElapsedTicks
  \/ 2 * AdjustedTicks(s) < s.elapsed

-----------------------------------------------------------------------------
(* Totals and metrics.                                                     *)

Sums == [latPasses : Nat, latTicks : Nat, passes : Nat, ticks : Nat,
         warning : BOOLEAN]
ZeroSum == [latPasses |-> 0, latTicks |-> 0, passes |-> 0, ticks |-> 0,
            warning |-> FALSE]

\* What the metric of an iteration is computed from; -1 is `taken = FALSE`.
Metrics == [taken : BOOLEAN, sum : Sums]
NoMetric == [taken |-> FALSE, sum |-> ZeroSum]

-----------------------------------------------------------------------------
Points == {"setup", "create", "start", "join", "getPasses",
           "getAdjustedTicks", "hadWarning", "record", "delete",
           "converge", "finish", "done", "failed"}

Init ==
  /\ kind \in Kinds
  /\ windows \in BOOLEAN
  /\ pc = "setup"
  /\ t = 0
  /\ i = 0
  /\ iterations = MaxIterations
  /\ thread = [w \in Workers |-> NewThread]
  /\ worker = [w \in Workers |-> NoWorker]
  /\ lock = [w \in Workers |-> "free"]
  /\ wpc = [w \in Workers |-> "none"]
  /\ local = [w \in Workers |-> FreshStack]
  /\ sum = ZeroSum
  /\ metric = [k \in Iterations |-> NoMetric]
  /\ warning = FALSE
  /\ hasRun = FALSE

\* Advances the loop over the workers, and to `next` when it is over.
NextWorker(next) ==
  IF t + 1 < NumWorkers
  THEN t' = t + 1 /\ UNCHANGED pc
  ELSE t' = 0 /\ pc' = next

-----------------------------------------------------------------------------
(* The main thread.                                                        *)

\* Choosing kernels and building the pointer permutations: either fails,
\* and run() returns false, or the loop is entered.
SetUp ==
  /\ pc = "setup"
  /\ pc' \in {"create", "failed"}
  /\ UNCHANGED <<config, t, i, iterations, thread, worker, lock, wpc, local,
                 sum, metric, warning, hasRun>>

\* A worker object and its Thread.
CreateWorker ==
  /\ pc = "create"
  /\ worker' = [worker EXCEPT ![t] = NewWorker]
  /\ thread' = [thread EXCEPT ![t] = NewThread]
  /\ NextWorker("start")
  /\ UNCHANGED <<config, i, iterations, lock, wpc, local, sum, metric,
                 warning, hasRun>>

\* create_and_start(), whose return value the loop ignores.  The OS may
\* refuse to create the thread, and on Windows also to resume it.
StartWorker ==
  /\ pc = "start"
  /\ \/ /\ thread' = [thread EXCEPT ![t] = AfterStart(@)]
        /\ wpc' = [wpc EXCEPT ![t] = "grab"]
     \/ UNCHANGED <<thread, wpc>>
     \/ /\ windows
        /\ thread' = [thread EXCEPT ![t] = AfterCreate(@)]
        /\ wpc' = [wpc EXCEPT ![t] = "suspended"]
  /\ NextWorker("join")
  /\ UNCHANGED <<config, i, iterations, worker, lock, local, sum, metric,
                 warning, hasRun>>

\* Mutant: only the first thread is waited for.
JoinFirstWorker ==
  /\ pc = "join"
  /\ IF JoinWaits(thread[t])
     THEN /\ wpc[t] = "exited"
          /\ thread' = [thread EXCEPT ![t] = AfterJoin(@)]
     ELSE UNCHANGED thread
  /\ t' = 0 /\ pc' = "getPasses"
  /\ UNCHANGED <<config, i, iterations, worker, lock, wpc, local, sum,
                 metric, warning, hasRun>>

\* join(): blocks until run() has returned, unless the thread was never
\* started; then a message is all that happens.
JoinWorker ==
  /\ pc = "join"
  /\ IF JoinWaits(thread[t])
     THEN /\ wpc[t] = "exited"
          /\ thread' = [thread EXCEPT ![t] = AfterJoin(@)]
     ELSE UNCHANGED thread
  /\ NextWorker("getPasses")
  /\ UNCHANGED <<config, i, iterations, worker, lock, wpc, local, sum,
                 metric, warning, hasRun>>

\* Worker 0 of a latency benchmark measures latency, all others are load.
IsLatencyWorker(w) == IsLatency /\ w = 0

\* Each getter is a critical section of its own.
GetPasses ==
  /\ pc = "getPasses"
  /\ lock[t] = "free"
  /\ sum' = IF IsLatencyWorker(t)
            THEN [sum EXCEPT !.latPasses = worker[t].passes]
            ELSE [sum EXCEPT !.passes = @ + worker[t].passes]
  /\ pc' = "getAdjustedTicks"
  /\ UNCHANGED <<config, t, i, iterations, thread, worker, lock, wpc, local,
                 metric, warning, hasRun>>

GetAdjustedTicks ==
  /\ pc = "getAdjustedTicks"
  /\ lock[t] = "free"
  /\ sum' = IF IsLatencyWorker(t)
            THEN [sum EXCEPT !.latTicks = worker[t].adjusted]
            ELSE [sum EXCEPT !.ticks = (@ + worker[t].adjusted) % TickMod]
  /\ pc' = "hadWarning"
  /\ UNCHANGED <<config, t, i, iterations, thread, worker, lock, wpc, local,
                 metric, warning, hasRun>>

HadWarning ==
  /\ pc = "hadWarning"
  /\ lock[t] = "free"
  /\ sum' = [sum EXCEPT !.warning = @ \/ worker[t].warning]
  /\ IF t + 1 < NumWorkers
     THEN t' = t + 1 /\ pc' = "getPasses"
     ELSE t' = 0 /\ pc' = "record"
  /\ UNCHANGED <<config, i, iterations, thread, worker, lock, wpc, local,
                 metric, warning, hasRun>>

\* Mutants: the totals survive into the next iteration, and the metric goes
\* to the slot of the wrong loop variable.
RecordWithoutReset ==
  /\ pc = "record"
  /\ metric' = [metric EXCEPT ![i] = [taken |-> TRUE, sum |-> sum]]
  /\ warning' = (warning \/ sum.warning)
  /\ pc' = "delete"
  /\ UNCHANGED <<config, t, i, iterations, thread, worker, lock, wpc, local,
                 sum, hasRun>>

RecordAtWorkerIndex ==
  /\ pc = "record"
  /\ metric' = [metric EXCEPT ![t] = [taken |-> TRUE, sum |-> sum]]
  /\ warning' = (warning \/ sum.warning)
  /\ sum' = ZeroSum
  /\ pc' = "delete"
  /\ UNCHANGED <<config, t, i, iterations, thread, worker, lock, wpc, local,
                 hasRun>>

\* metric_on_iter_[i] and warning_; the totals are locals of the iteration.
RecordMetric ==
  /\ pc = "record"
  /\ metric' = [metric EXCEPT ![i] = [taken |-> TRUE, sum |-> sum]]
  /\ warning' = (warning \/ sum.warning)
  /\ sum' = ZeroSum
  /\ pc' = "delete"
  /\ UNCHANGED <<config, t, i, iterations, thread, worker, lock, wpc, local,
                 hasRun>>

\* ~Thread() cancels the thread if it thinks there is one.  On Windows that
\* ends it at once; pthread_cancel() is only a request, and a thread in a
\* kernel loop runs on.  An OS thread that has ended is gone.
OSThreadAfterDelete(w) ==
  IF wpc[w] \in {"exited", "killed"} THEN "none"
  ELSE IF windows /\ CancelCallsOS(thread[w], windows) THEN "none"
  ELSE wpc[w]

\* `for` over the iterations.
NextIteration ==
  IF i + 1 < iterations
  THEN i' = i + 1 /\ pc' = "create"
  ELSE UNCHANGED i /\ pc' = "finish"

\* delete worker_threads[t]; delete workers[t].
DeleteWorker ==
  /\ pc = "delete"
  /\ wpc' = [wpc EXCEPT ![t] = OSThreadAfterDelete(t)]
  /\ thread' = [thread EXCEPT ![t] = NewThread]
  /\ worker' = [worker EXCEPT ![t] = NoWorker]
  /\ IF t + 1 < NumWorkers
     THEN t' = t + 1 /\ UNCHANGED <<pc, i>>
     ELSE /\ t' = 0
          /\ IF IsMatrix THEN pc' = "converge" /\ UNCHANGED i
                         ELSE NextIteration
  /\ UNCHANGED <<config, iterations, lock, local, sum, metric, warning,
                 hasRun>>

\* Mutant: the count of iterations needed is one too low.
CheckConvergenceOffByOne ==
  /\ pc = "converge"
  /\ \/ /\ i >= WarmUp
        /\ ~LogExtended
        /\ iterations' = i
        /\ pc' = "finish"
        /\ UNCHANGED i
     \/ NextIteration /\ UNCHANGED iterations
  /\ UNCHANGED <<config, t, thread, worker, lock, wpc, local, sum, metric,
                 warning, hasRun>>

\* The matrix benchmarks stop early once the confidence interval of the
\* median is narrow enough; whether it is depends on the measurements.
CheckConvergence ==
  /\ pc = "converge"
  /\ \/ /\ i >= WarmUp
        /\ ~LogExtended
        /\ iterations' = i + 1
        /\ pc' = "finish"
        /\ UNCHANGED i
     \/ NextIteration /\ UNCHANGED iterations
  /\ UNCHANGED <<config, t, thread, worker, lock, wpc, local, sum, metric,
                 warning, hasRun>>

Finish ==
  /\ pc = "finish"
  /\ hasRun' = TRUE
  /\ pc' = "done"
  /\ UNCHANGED <<config, t, i, iterations, thread, worker, lock, wpc, local,
                 sum, metric, warning>>

Main ==
  \/ SetUp \/ CreateWorker \/ StartWorker \/ JoinWorker
  \/ GetPasses \/ GetAdjustedTicks \/ HadWarning \/ RecordMetric
  \/ DeleteWorker \/ CheckConvergence \/ Finish

-----------------------------------------------------------------------------
(* A worker thread: LoadWorker::run() and LatencyWorker::run().            *)

\* Copies the parameters under the lock.
Grab(w) ==
  /\ wpc[w] = "grab"
  /\ lock[w] = "free"
  /\ wpc' = [wpc EXCEPT ![w] = "measure"]
  /\ UNCHANGED <<config, mainVars, thread, worker, lock, local>>

\* One timed batch of the kernel.
MeasureBatch(w) ==
  /\ wpc[w] = "measure"
  /\ local[w].elapsed < TargetTicks
  /\ \E d \in BatchTicks :
       local' = [local EXCEPT ![w].elapsed = (@ + d) % TickMod,
                              ![w].passes = @ + 1]
  /\ UNCHANGED <<config, mainVars, thread, worker, lock, wpc>>

MeasureDone(w) ==
  /\ wpc[w] = "measure"
  /\ local[w].elapsed >= TargetTicks
  /\ wpc' = [wpc EXCEPT ![w] = "dummy"]
  /\ UNCHANGED <<config, mainVars, thread, worker, lock, local>>

\* One timed batch of the dummy kernel.
DummyBatch(w) ==
  /\ wpc[w] = "dummy"
  /\ local[w].p < local[w].passes
  /\ \E d \in DummyTicks :
       local' = [local EXCEPT ![w].dummy = (@ + d) % TickMod,
                              ![w].p = @ + 1]
  /\ UNCHANGED <<config, mainVars, thread, worker, lock, wpc>>

\* Takes the lock and writes the counters, all but the last two ...
Publish(w) ==
  /\ wpc[w] = "dummy"
  /\ local[w].p >= local[w].passes
  /\ lock[w] = "free"
  /\ lock' = [lock EXCEPT ![w] = "worker"]
  /\ worker' = [worker EXCEPT
       ![w].adjusted = AdjustedTicks(local[w]),
       ![w].elapsed = local[w].elapsed,
       ![w].dummy = local[w].dummy,
       ![w].warning = LooksFishy(local[w])]
  /\ wpc' = [wpc EXCEPT ![w] = "release"]
  /\ UNCHANGED <<config, mainVars, thread, local>>

\* ... then completed_ and passes_, releases it and returns; the
\* stack is gone.
Release(w) ==
  /\ wpc[w] = "release"
  /\ worker' = [worker EXCEPT ![w].completed = TRUE,
                              ![w].passes = local[w].passes]
  /\ lock' = [lock EXCEPT ![w] = "free"]
  /\ wpc' = [wpc EXCEPT ![w] = "exited"]
  /\ local' = [local EXCEPT ![w] = FreshStack]
  /\ UNCHANGED <<config, mainVars, thread>>

WorkerThread(w) ==
  \/ Grab(w) \/ MeasureBatch(w) \/ MeasureDone(w) \/ DummyBatch(w)
  \/ Publish(w) \/ Release(w)

-----------------------------------------------------------------------------
\* runCore() has returned and no thread is left.
Returned ==
  /\ pc \in {"done", "failed"}
  /\ UNCHANGED vars

Next ==
  \/ Main
  \/ \E w \in Workers : WorkerThread(w)
  \/ Returned

Spec == Init /\ [][Next]_vars

\* The scheduler runs every thread that can run, and the kernels finish.
Fairness == WF_vars(Main) /\ \A w \in Workers : WF_vars(WorkerThread(w))

FairSpec == Spec /\ Fairness

-----------------------------------------------------------------------------
(* Properties.                                                             *)

\* Every variable has its type.
TypeOK ==
  /\ kind \in BenchmarkKinds
  /\ windows \in BOOLEAN
  /\ pc \in Points
  /\ t \in Workers
  /\ i \in Iterations
  /\ iterations \in 1..MaxIterations
  /\ thread \in [Workers -> ThreadObjects]
  /\ worker \in [Workers -> WorkerObjects]
  /\ lock \in [Workers -> {"free", "worker"}]
  /\ wpc \in [Workers -> WorkerPoints]
  /\ local \in [Workers -> Stacks]
  /\ sum \in Sums
  /\ metric \in [Iterations -> Metrics]
  /\ warning \in BOOLEAN
  /\ hasRun \in BOOLEAN

\* A worker object outlives the thread that runs it: whenever an OS thread
\* may still execute run(), the object it was given has not been deleted,
\* and no deleted object's lock is held (its destructor destroys the mutex).
NoUseAfterFree ==
  \A w \in Workers :
    /\ wpc[w] \in Running \cup {"suspended"} => worker[w].alive
    /\ lock[w] # "free" => worker[w].alive

Collecting == {"getPasses", "getAdjustedTicks", "hadWarning", "record"}

\* From the first getter to the last delete of an iteration no worker thread
\* is running, and while results are read every worker whose thread was
\* started has published all of its counters.
CollectsOnlyFinishedWork ==
  /\ pc \in Collecting \cup {"delete"} =>
       \A w \in Workers : wpc[w] \notin Running
  /\ pc \in Collecting =>
       \A w \in Workers : thread[w].started => worker[w].completed

LoadWorkers == {w \in Workers : ~IsLatencyWorker(w)}

\* The sum of c over the workers in S, by counting its units one by one.
SumOver(c, S) == Cardinality(UNION {{w} \X (1..c[w]) : w \in S})

PublishedPasses == [w \in Workers |-> worker[w].passes]
PublishedTicks == [w \in Workers |-> worker[w].adjusted]

\* When the metric of an iteration is computed, its inputs are the published
\* counters of this iteration's workers, each counted once: nothing is left
\* from an earlier iteration and nothing was read before it was published.
AggregateIsExact ==
  pc = "record" =>
    /\ sum.passes = SumOver(PublishedPasses, LoadWorkers)
    /\ sum.ticks = SumOver(PublishedTicks, LoadWorkers) % TickMod
    /\ IsLatency => /\ sum.latPasses = worker[0].passes
                    /\ sum.latTicks = worker[0].adjusted
    /\ sum.warning = \E w \in Workers : worker[w].warning

\* When a metric is about to be recorded without a warning, what every
\* started worker contributed is credible: it made passes, its dummy time
\* did not swallow the measured time, so that the unsigned subtraction did
\* not wrap, and it ran for the minimum time.  A warning of any recorded
\* iteration is a warning of the benchmark.
UnflaggedMetricIsSound ==
  /\ pc = "record" /\ ~sum.warning =>
       \A w \in Workers : thread[w].started =>
         /\ worker[w].passes > 0
         /\ worker[w].adjusted = worker[w].elapsed - worker[w].dummy
         /\ 2 * worker[w].adjusted >= worker[w].elapsed
         /\ worker[w].elapsed >= MinElapsedTicks
  /\ \A k \in Iterations :
       metric[k].taken /\ metric[k].sum.warning => warning

\* A metric once recorded is final, and iterations are recorded in order
\* with none left out: the loop never rewrites or skips a slot.
MetricsAreFinal ==
  [][\A k \in Iterations :
       /\ metric[k].taken => metric'[k] = metric[k]
       /\ metric'[k].taken => \A j \in 0..k-1 : metric[j].taken]_vars

\* has_run_ means that exactly the first iterations_ slots hold metrics (a
\* converged matrix benchmark lowers iterations_ and reports over the slots
\* below it) and that no thread or worker object is left behind.
HasRunIsComplete ==
  hasRun =>
    /\ \A k \in Iterations : metric[k].taken <=> k < iterations
    /\ \A w \in Workers : wpc[w] = "none" /\ ~worker[w].alive

\* run() returns: no join waits for a thread that will never end.
BenchmarkReturns == <>(pc \in {"done", "failed"})

\* warning_ is documented to say that the results might be clearly
\* questionable or incorrect: without it, every recorded iteration rests on
\* passes of the latency worker and of all load workers that were to run.
\* The code breaks it when the OS refuses a thread.
NoSilentWorkerLoss ==
  pc = "delete" /\ ~warning =>
    \A w \in Workers : worker[w].alive => worker[w].passes > 0

-----------------------------------------------------------------------------
(* The inductive invariant behind the properties: what holds of worker w   *)
(* before, during and after each of the main thread's loops over workers.  *)

\* No object, no thread.
Gone(w) == ~worker[w].alive /\ wpc[w] = "none"

\* Created, not yet started.
Fresh(w) == worker[w].alive /\ wpc[w] = "none" /\ thread[w] = NewThread

\* The OS refused to create the thread, or left it suspended.
NotStarted(w) ==
  /\ ~thread[w].started
  /\ wpc[w] \in {"none", "suspended"}
  /\ wpc[w] = "suspended" => windows /\ thread[w].created

\* After create_and_start().
Launched(w) ==
  /\ worker[w].alive
  /\ \/ NotStarted(w)
     \/ /\ thread[w].created /\ thread[w].started
        /\ wpc[w] \in Running \cup {"exited"}

\* After join().
Joined(w) ==
  /\ worker[w].alive
  /\ NotStarted(w) \/ (thread[w].started /\ wpc[w] = "exited")

Stage(w) ==
  /\ pc \in {"setup", "converge", "finish", "done", "failed"} => Gone(w)
  /\ pc = "create" => IF w < t THEN Fresh(w) ELSE Gone(w)
  /\ pc = "start"  => IF w < t THEN Launched(w) ELSE Fresh(w)
  /\ pc = "join"   => IF w < t THEN Joined(w) ELSE Launched(w)
  /\ pc \in Collecting => Joined(w)
  /\ pc = "delete" => IF w < t THEN Gone(w) ELSE Joined(w)

LoopsInOrder == \A w \in Workers : Stage(w)

\* The lock is held exactly while counters are being written.
LockMeansPublishing ==
  \A w \in Workers : lock[w] # "free" <=> wpc[w] = "release"

\* What is published is complete and flagged if it looks fishy.
Credible(w) ==
  ~worker[w].warning =>
    /\ worker[w].elapsed > 0
    /\ worker[w].adjusted = worker[w].elapsed - worker[w].dummy
    /\ 2 * worker[w].adjusted >= worker[w].elapsed
    /\ worker[w].elapsed >= MinElapsedTicks

ResultsAreHonest ==
  \A w \in Workers :
    /\ local[w].elapsed > 0 => local[w].passes > 0
    /\ wpc[w] = "release" =>
         /\ Credible(w)
         /\ worker[w].elapsed = local[w].elapsed
    /\ wpc[w] = "exited" =>
         /\ worker[w].completed
         /\ Credible(w)
         /\ worker[w].elapsed > 0 => worker[w].passes > 0

\* Warnings of workers already visited are in the totals, and those of the
\* totals of recorded iterations are in warning_.
WarningsAreKept ==
  /\ \A w \in Workers :
       /\ pc = "record" \/ (pc \in Collecting /\ w < t)
       /\ worker[w].warning
       => sum.warning
  /\ \A k \in Iterations : metric[k].taken /\ metric[k].sum.warning => warning

\* Where the loop over the iterations is.
Round == IF pc \in {"delete", "converge", "finish", "done"} THEN i + 1 ELSE i

RoundsInOrder ==
  /\ i < iterations
  /\ pc \in {"finish", "done"} => iterations = i + 1
  /\ pc \in {"setup", "failed"} => i = 0
  /\ pc \in {"setup", "record", "converge", "finish", "done", "failed"}
       => t = 0
  /\ hasRun <=> pc = "done"
  /\ \A k \in Iterations : metric[k].taken <=> k < Round

\* The workers whose results the totals hold: those the loop has been over,
\* and the one it is at from one of the given points on.
Added(points) ==
  IF pc = "record" THEN Workers
  ELSE {w \in Workers : w < t \/ (w = t /\ pc \in points)}

\* The totals s hold the passes of the workers in p, the ticks of those in k
\* and the warnings of those in q.
TotalsOf(s, p, k, q) ==
  /\ s.passes = SumOver(PublishedPasses, p \cap LoadWorkers)
  /\ s.ticks = SumOver(PublishedTicks, k \cap LoadWorkers) % TickMod
  /\ IsLatency /\ 0 \in p => s.latPasses = worker[0].passes
  /\ IsLatency /\ 0 \in k => s.latTicks = worker[0].adjusted
  /\ s.warning <=> \E w \in q : worker[w].warning

TotalsAreExact ==
  IF pc \in Collecting
  THEN TotalsOf(sum, Added({"getAdjustedTicks", "hadWarning"}),
                Added({"hadWarning"}), Added({}))
  ELSE sum = ZeroSum

Inv ==
  /\ TypeOK
  /\ LoopsInOrder
  /\ LockMeansPublishing
  /\ ResultsAreHonest
  /\ WarningsAreKept
  /\ RoundsInOrder

-----------------------------------------------------------------------------
(* The iteration loop implements rounds of work separated by a barrier.    *)

\* What worker w did in the round the main thread is in.
Turn(w) ==
  IF pc \notin Collecting \cup {"start", "join"} \/ (pc = "start" /\ w >= t)
  THEN "waiting"
  ELSE IF wpc[w] \in Running THEN "working"
  ELSE IF wpc[w] = "exited" THEN "finished"
  ELSE "skipped"

FJ == INSTANCE ForkJoin WITH
        MaxRounds <- MaxIterations,
        round <- Round,
        turn <- [w \in Workers |-> Turn(w)]

\* Every step of the main thread and of the workers is a step of ForkJoin,
\* or none: above all, a metric is recorded only behind the barrier.
ImplementsForkJoin == FJ!Spec

=============================================================================

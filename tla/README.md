# X-Mem: a verification development

X-Mem measures memory throughput and latency. A process configures itself from
the command line, allocates memory regions, builds a list of benchmarks and runs
them one after the other. A benchmark forks worker threads that all measure for a
quarter of a second, joins them, reads their counters and records a metric, many
times over; on Windows further threads sample the DRAM power meanwhile. What is
reported is only worth something if these threads, their objects and the numbers
they leave behind are handled in the right order. This directory models that in
TLA+, model-checks it with TLC and proves it with TLAPS.

All source paths are relative to the repository's `src/src/`; `PROJECT.json`
gives the lines every definition stands for.

## 1. Inventory

| Component | State it keeps | Operations | Interacts with | Hard about it | What makes it correct |
|---|---|---|---|---|---|
| **Benchmark execution**: `Benchmark`, `ThroughputBenchmark`, `LatencyBenchmark`, `MatrixBenchmark` and its two subclasses | `metric_on_iter_`, `load_metric_on_iter_`, `iterations_`, `warning_`, `has_run_`; per iteration the vectors of workers and threads | `run()`, `runCore()` | forks workers through `Thread`, reads them through locked getters, starts and stops power threads; run by the manager | thread interleavings, a thread that cannot be started, early convergence | results are read behind the barrier, complete, once each; lifetimes; warnings not lost; `has_run_` means complete |
| **Workers**: `MemoryWorker`, `LoadWorker`, `LatencyWorker` | parameters, counters, `warning_`, `completed_`, all under the `Runnable` lock | `run()`, getters | run by a `Thread`, read by the benchmark | publication in pieces; unsigned subtraction of times | published atomically; implausible times flagged |
| **Thread** | `created_`, `started_`, `suspended_`, `running_`, `completed_`, OS handle | `create_and_start`, `join`, `cancel`, destructor | the OS, on two platforms | call sequences, deferred cancellation, suspended creation | flags do not claim more than the OS thread did; no use of a joined handle |
| **Runnable** | a mutex | `acquireLock`, `releaseLock` | worker and main thread | killed owner, abandoned mutex, relative timeout passed as absolute | mutual exclusion, no lost lock |
| **Power measurement**: `PowerReader`, `WindowsDRAMPowerReader`, `startPowerThreads`, `stopPowerThreads` | stop signal, trace, metrics per reader; readers shared by all benchmarks | start, sample, stop, collect | benchmark main thread and one sampler per socket | two critical sections per sample, three per reset, sleeping | sampling covers the workload, no sampler survives, results per socket |
| **Statistics**: `computeMetrics`, `computeMedian`, getters | mean, percentiles, mode, CI bounds | pure | `metric_on_iter_` | boundary indices | order statistics agree with their definition |
| **BenchmarkManager** | vectors of benchmarks, `built_benchmarks_`, memory regions, readers | `buildBenchmarks`, `run*Benchmarks`, `printMatrix` | configurator, benchmarks | failure in the middle, division of workers | every configured combination built and run once |
| **Working sets** | `mem_arrays_`, lengths, nodes | `setupWorkingSets`, destructor | OS allocators | indices, alignment, freeing | regions disjoint, inside their allocation, freed once |
| **Configurator** | one field per option | `configureFromInput` | option parser | defaults and conflicts of some forty options | accepted configurations are runnable |
| **Topology and placement**: `common.cpp` | numbers of nodes, packages, CPUs; package of each CPU; affinity and priority of threads and process | `query_sys_info`, `cpu_id_in_numa_node`, affinity and priority calls | manager, benchmarks, workers | one stream read three times; nodes, packages and CPU numbers that do not match; a priority class all workers share | distinct CPUs for distinct workers of a node, all of a node's CPUs where it counts, priorities given back |
| **Kernels**: `benchmark_kernels.cpp` | none | some two hundred walks, `determine_*_kernel`, `build_random_pointer_permutation` | workers | literals repeated two hundred times, wrap-around, overrun of a worker's part, pointers rewritten while they are followed | a pass moves what is counted, stays in its part, and its dummy does as much; the pointers stay a permutation |
| **Delay-injected extension** | the benchmarks of one call | its own kernels and `runCore()`, `runExtDelayInjectedLoadedLatencyBenchmark` | manager, latency benchmark | a second way to count regions, chunks it cannot run | like a latency benchmark |
| **Timers, assembly, PDH wrapper, option parser** | | | | | I/O, straight-line or vendored code |

The behaviours that are hard to test are listed in `PROJECT.json` under
`hazards`, each at its line with the properties that would catch it.

## 2. Plan

1. `ThreadObject`, `BenchmarkRun`, `ForkJoin`: the iteration loop. *Done,
   proved.*
2. `ThreadLifecycle`: one thread under every sequence of calls. *Done, proved.*
3. `PowerSampling`: samplers and shared readers. *Done, proved.* Worth stating:
   an abstract per-benchmark power record which one socket implements.
4. `Metrics`: the statistics and the decision to stop early. *Done, proved.*
5. `WorkingSets`: allocation, alignment and release. *Done, proved.*
6. `Configurator` and `BenchmarkManager`: from a command line to the release of
   the memory. *Done, proved.*
7. `LoadWalk`: sequential, reverse and strided kernels and the modulo step of
   `LoadWorker`. *Done, proved.*
8. `Kernels`, `PointerChain`: all kernels as a table; permutations, random
   kernels and pointer chasing. *Done, proved.*
9. `Topology`, `Placement`: what the program knows of the machine, and where and
   at which priority workers run. *Done, proved.*
10. The delay-injected extension: in `Kernels`, `BenchmarkRun` and
    `BenchmarkManager`. *Done.*

## 3. Modules

| Module | Models |
|---|---|
| `ThreadObject` | class `Thread` as data: its five flags and what every method does to them, both platforms. Used by `BenchmarkRun`, `ThreadLifecycle` and `PowerSampling`. |
| `BenchmarkRun` | `Benchmark::run()`/`runCore()` and the worker threads |
| `ForkJoin` | abstract: rounds separated by a barrier |
| `BenchmarkRun_proofs` | theorems about `BenchmarkRun` |
| `ThreadLifecycle` | one `Thread`, its OS thread and the lock of its `Runnable` |
| `ThreadLifecycle_proofs` | theorems about it |
| `PowerSampling` | power readers, sampling threads, start/stop/collect |
| `PowerSampling_proofs` | theorems about it |
| `Metrics` | `computeMedian()`, `computeMetrics()`, the early exit of the matrix benchmarks |
| `Metrics_proofs` | theorems about it |
| `WorkingSets` | `setupWorkingSets()` and the release of the regions |
| `Configurator` | `configureFromInput()`: a function from options to a rejection or a configuration |
| `BenchmarkManager` | `main()`, the manager's loops over benchmarks, `printMatrix()`; extends the two before |
| `MCBenchmarkManager` | TLC instance: a machine and twenty-five command lines |
| `BenchmarkManager_proofs` | theorems about `WorkingSets`, and about configurations, benchmarks and memory of the whole program |
| `Kernels` | the sequential, strided and delay-injected kernels and their dummies as a table of steps and unrollings, and `determine_sequential_kernel()` |
| `LoadWalk` | the sequential half of `LoadWorker::run()` with the kernels it calls: addresses |
| `LoadWalk_proofs` | theorems about it |
| `PointerChain` | `build_random_pointer_permutation()`, the random kernels, and both workers chasing pointers |
| `MCPointerChain` | TLC instance: benchmarks of one worker and of two |
| `PointerChain_proofs` | theorems about it |
| `Topology` | `query_sys_info()`, `cpu_id_in_numa_node()` |
| `Placement` | the CPUs, affinities and priorities of workers; extends `Topology` |
| `Placement_proofs` | theorems about where and at which priority workers run |
| `MCPlacement` | TLC instance: eight machines |

### BenchmarkRun

The five `runCore()`s share one loop, so one module models them; `kind` tells
which class a behaviour is a run of. `pc` is where the main thread is, `t` and
`i` are the code's loop variables, `thread[w]` and `worker[w]` the two objects
made for worker `w`, `wpc[w]` and `local[w]` the OS thread and its stack, `sum`
the locals in which an iteration adds up counters.

| Action | Code |
|---|---|
| `SetUp` | choice of kernels, pointer permutations; may fail |
| `CreateWorker` | `new LoadWorker`/`LatencyWorker`, `new Thread` |
| `StartWorker` | `create_and_start()`, its result ignored; the OS may refuse, or on Windows leave the thread suspended |
| `JoinWorker` | `join()` |
| `GetPasses`, `GetAdjustedTicks`, `HadWarning` | the getters, each a critical section of its own |
| `RecordMetric` | `metric_on_iter_[i] = ...`, `warning_` |
| `DeleteWorker` | the two deletes; `~Thread` cancels |
| `CheckConvergence` | the matrix benchmarks' early exit |
| `Finish` | `has_run_` |
| `Grab`, `MeasureBatch`, `MeasureDone`, `DummyBatch`, `Publish`, `Release` | `LoadWorker::run()`, `LatencyWorker::run()` |

Abstracted: a metric is the record of the totals it is computed from, not the
quotient; a pass stands for a batch (1024 or 256 calls); the outcome of the
convergence test is free, since it depends on the measurements; affinity and
priorities, which are in `Placement`, priming and messages have no effect on this
state.
`getElapsedDummyTicks()` and `getBytesPerPass()` are left out: the one feeds
messages only and both behave like the getters that are there. Ticks wrap at
`TickMod` as `tick_t` does; an assumption says that the measured time itself does
not come near it (a quarter of a second against 2^64 ticks).

### ThreadLifecycle

The client calls in any order what clients of `Thread` may: `create_and_start`
until it succeeds, one `join`, `cancel`, getters of the `Runnable`, the
destructor. On Linux `pthread_cancel` leaves a request that takes effect at a
cancellation point outside the critical sections, or never; it may report an
error for a thread that has ended. On Windows `TerminateThread` ends the thread
on the spot, also in its critical section; the mutex is then abandoned and the
next `acquireLock()` owns it while returning false. Left out: the exit code
(always 0 for a thread with a target), and failures of the wait itself.

### PowerSampling

`reader[s]` is a `PowerReader`, `thread[s]` the `Thread` of this benchmark for
it, `spc[s]` the sampler in `WindowsDRAMPowerReader::run()`. Each critical
section is one step, so the lock is not a variable. A sample is the number of
the benchmark during which it was read and a mean or peak is the trace it was
computed from. The workload takes any time. The readers exist only in the
Windows build; on Linux all are NULL and every loop is empty, and no build mixes
the two, which is why the code's use of one index for threads and readers does
no harm. Thread objects are never deleted by the code.

### Metrics

Measurements are positive integers; a median is kept as its double and a mean as
sum and count. `i` counts the iterations, `metric` is `metric_on_iter_` and
`stats` the members with the results. The ranks of the interval are defined by
the inequality the square root stands for. The properties never sort: a
percentile is a measurement with enough measurements on either side, and the
interval is judged by the binomial distribution. `computeMetrics()` exists twice
in the code, with the same body.

### WorkingSets, Configurator, BenchmarkManager

Memory is a set of ranges that the operating system has handed out (`heap`);
`array`, `len` and `node` are `mem_arrays_`, `mem_array_lens_` and
`mem_array_node_`. Every allocation may start at any address of `Bases` that
satisfies what the allocator promises (page boundaries, except for `malloc()`), or
fail and end the program. The destructor frees whole ranges or, with `numa_free()`
and `munmap()`, as many bytes as it says (`LeftBehind`). `build` is Windows, Linux
with NUMA or Linux with `malloc()`; the macros that give a build NUMA and large
pages always go together. Lengths are what they are in the code, addresses and page
sizes small.

A command line is a record with, for each option, the arguments it was given;
`Rejected` collects every way to the label `error`, `Configuration` what the
fields of the `Configurator` are otherwise. Refused arguments (not a number, not
positive) never get past the option parser and are not among the inputs.

| Action | Code |
|---|---|
| `SetUp` | the constructor: one region per step |
| `Advance` | `main()`: a mode that is not selected |
| `BeginMode` | `run...Benchmarks()` up to its loop, with `buildBenchmarks()` the first time |
| `RunBenchmark` | one turn of the loop: `run()`, which may fail, and the report |
| `BeginExtension`, `RefuseExtension` | `runExtDelayInjectedLoadedLatencyBenchmark()` up to its loop: builds its benchmarks itself, or refuses a single worker |
| `EndMode` | the end of the function; the printed matrix is the operator `Matrix` |
| `Destroy` | the destructor: one region per step |

`RunBenchmark` is one step here and the whole of `BenchmarkRun` there. A benchmark
is a record of what its constructor is given; the number in its name is `index`;
which part of its memory each worker gets is `PartOf`. The extension is a stage of
`main()` after the four modes. Left out: result files, the STREAM extension, which
is an empty function, and the power readers, whose sharing is in `PowerSampling`.

### Kernels, LoadWalk

A kernel is a step (how far the pointer moves from one access to the next, in
words, negative for a backward one) and an unrolling (accesses per turn of its
loop), one pair for each size of a chunk; where the pointer begins, wraps around
and stops follows from the step. Every kernel has a definition of its own with
the literals that stand in its source, so `revStride2Write` differs from the
others as the code does. `ReadKernels`, `WriteKernels` and `DelayedPair` are the
selection of a kernel with its dummy.

`LoadWalk` is one worker on its part of the region; workers share nothing but
addresses, so `me` is any of them. `start` is `start_address`, `wordptr` and `i`
are the kernel's, `phase` tells priming, passes and dummy passes apart.
`touched`, `moved`, `steps` and `pages` record what happened and decide nothing.

| Action | Code |
|---|---|
| `Call` | a kernel is called with `start_address` and `end_address` |
| `Iterate` | one turn of its loop: the unrolled accesses, "end, modulo" |
| `Leave` | the loop ends |
| `ReturnFromPriming`, `ReturnFromPass`, `ReturnFromDummy` | what `run()` does between calls |

The build is part of the choice of a kernel (`windows`). Left out are the
sequential kernels that are in assembly language on Windows, those for 128 and 256
bits; for 512 bits there is none. The delayed kernels for 128 and 256 bits are not
in assembly there: they are empty functions that return at once (`NotImplemented`),
selected all the same, and their dummies walk as on Linux. An unrolling of 0 stands
for such a kernel, whose loop is never entered (`More`). `PassesPerBatch` stands for 1024: only whole batches are run,
and the clock decides when they are enough.

### PointerChain

The region is an array `mem` of words; a pointer is the number of a word, `Ones`
the filling of a chunk and `Old` what was there before. `Build` does one part: the
loop that lets every chunk point to itself, by the literals of the code, and a
shuffle, which may be any permutation. Then the workers run.

| Action | Code |
|---|---|
| `Build` | `build_random_pointer_permutation()` for the next part |
| `Call` | a kernel is called with `next_address` |
| `Load`, `Store` | one step of the unrolled chase; only the writing kernels store |
| `Fault` | the pointer leads to where no chunk can be loaded |
| `ReturnFromPass` | `next_address` for the next call, the clock, the end of the passes |
| `DummyPass` | a call of the dummy, which leaves `next_address` alone |

`ptr` is the kernel's `p`, `val` the chunk loaded, `next` the worker's
`next_address`; `hops` and `due` are history. Between a load and a store any other
worker may load or store. A latency worker chases words whatever chunk its load
workers use. The wide kernels that the Windows build lacks have no accesses.

### Topology, Placement

`machine` is the hardware and the build and never changes. `/proc/cpuinfo` is the
lines the program looks for, read through a stream (`pos`, `eof`) by three loops,
one line per step; the locals and globals are named after those of the code.
`MapPackages` may write past the end of the vector: the state *crashed*, or
nothing that is modelled. On Windows one system call gives all.

| Action | Code |
|---|---|
| `QueryNodes`, `CountPackages`, `CountCores`, `MapPackages`, `QueryWindows` | `query_sys_info()` |
| `TestThreadAffinities` | `test_thread_affinities()`, with `-v` |
| `StartOnNode`, `StartOnWholeNode`, `StartOnCPU` | an iteration of a `runCore()`: the CPU of each worker, by node, for a throughput matrix, with `--all_cores` |
| `Crash` | a throughput matrix whose node has no CPUs, or with no map of packages |
| `Lock`, `MeasureAndUnlock` | `lock_thread_to_cpu()`, the measurement, `unlock_thread_to_cpu()` |
| `Save`, `Boost`, `Revert` | the three steps of raising and reverting the priority |
| `Join` | all workers have ended |

An affinity is a set of CPUs. `ShiftedMasks` is what `1 << cpu_id` may denote: one
CPU, all from one on where the sign bit is extended, anything where the shift is
undefined. The operating system refuses an empty set and on Windows one that is
not allowed; on Linux it intersects. On Windows the class belongs to the process
and is read and written in two steps by each worker, which is why the priority is
modelled step by step. `overlapped` is history.

## 4. Runs

| Run | Instance | Shows |
|---|---|---|
| `benchmark_run` | 2 workers, 2 iterations, throughput and latency matrix kinds, both platforms, kernel batches of 1 or 3 ticks, dummy batches of 0 or 3, `TickMod` 8 | `NoUseAfterFree`, `CollectsOnlyFinishedWork`, `UnflaggedMetricIsSound`, `HasRunIsComplete`, `AggregateIsExact`, `MetricsAreFinal`, refinement of `ForkJoin`, `BenchmarkReturns` |
| `silent_worker_loss` | 2 workers, 1 iteration | violated: a worker lost at its start leaves no warning |
| `thread_lifecycle` | one thread, both platforms; no bound | `FlagsTrackThread`, `NoCallOnReapedThread`, `LockLostOnlyByTerminate`, `BlockedCallsReturn` |
| `power_sampling` | 2 sockets, 2 benchmarks, 3 samples per trace | `SamplersRunThroughout`, `NoSamplerOutlivesBenchmark`, `MetricsMatchTrace`, `LastCollectionIsComplete`, `AllBenchmarksReported` |
| `metrics` | up to 8 iterations, 4 values, two of them within 5% of a third; interval coverage up to 22 | `StatisticsMatchMeasurements`, `IntervalCoversMedian`, `IntervalIsOfReportedMetrics`, `StopsOnlyConverged` |
| `manager` | 2 nodes, 3 CPUs, pages of 2 and 4, 5 addresses, 25 command lines, 3 builds, delays up to 4, 1 failing benchmark | `ConfigOK`, `EachTestRunOnce`, `TestNumbersIdentify`, `MemoryIsTheBenchmarks`, `MatrixCellsInPlace`, `RegionsAreSound`, `NumaBuildsFreeRegions` |
| `matrix_unallocated` | same | violated: matrix benchmarks of nodes that were not selected |
| `load_walk` | all 100 kernels of the portable build and the 44 delayed ones with their dummies; of Windows, the 40 portable ones and the 44 delayed ones, 22 of them empty; passes of 4096 bytes as in the code, 2 workers, parts of 1 to 4 pages, 2 places of the region, up to 2 batches of 2 passes | `PassesStayInside`, `CallMovesItsBytes`, `StridedPassRepeats`, `StaysNextToPart`, `DummyMirrorsPasses` |
| `working_set_covered` | same, without the delayed kernels | violated: the passes stay on some of the pages |
| `pointer_chain` | every chunk size on 32-bit, 64-bit and Windows builds, reading and writing, 1 worker with 1 to 3 chunks, 2 workers with 2 chunks, every shuffle; whole kernels of up to 1024 accesses | `ChainIsPermutation`, `StaysHome`, `OneLongChase`, `PassDoesWhatIsCounted` |
| `placement` | 8 machines of up to 4 CPUs, `int` of 4 bits, up to 3 workers, 2 iterations | `WorkersSpreadOverNode`, `WholeNodeIsMeasured`, `ClassRestoredUnlessOverlapped` |
| `priority_restored` | one Windows machine, 2 workers | violated: the process keeps the high priority class |

Why the bounds are enough. Two workers are the least that let one be started
and the other refused, one be load and the other latency, one finish before the
other is joined; the proofs cover every number. Two iterations show what carries
over from one to the next and, with `WarmUp = 0` in place of 5, both outcomes of
the convergence test. The tick sets contain runs that are plausible, too short
(below `MinElapsedTicks`), dominated by the dummy, and with a wrapped
difference. Two sockets are needed for the order of collection, two benchmarks
for shared readers; a cap of three samples lets traces differ, be stale or be cut
short. At the cap a sampler only waits for its stop signal, which it would also
do while sleeping.

The early exit needs six measurements, so eight iterations let a benchmark stop
at the sixth, at the seventh, or not at all; 22 is past the point where both
ranks have moved inwards several times. Two nodes and two regions per node tell
apart the three ways to count regions; of the five addresses one lies off every
boundary and the others leave room for up to four regions, next to each other or
not. Four passes over parts of up to four pages reach the last page and wrap, for
remainders of the address of every kind; the kernels run at their real size.
The twenty-five command lines use every option that the manager looks at, each
at least once together with a mode that depends on it, and seven are refused; the
delays 0, 1, 2 and 4 are the first, the second and two that were doubled.

Three chunks give every shape of permutation of which a cycle can miss a chunk;
two workers side by side with two chunks each are the least that interleave loads
and stores across the border of their parts. The machines have CPUs that
alternate between nodes, two nodes in one package, an offline CPU, no NUMA, fewer
allowed CPUs than there are, and with four bits to an `int` a CPU on the sign bit
and the undefined shifts. Three workers are one too many for every node; two
iterations let the second find what the first has left.

Priming reads the whole part, with the 32-bit forward kernel, four times.

Fairness. `BenchmarkRun` and `PowerSampling`: weak fairness of the main thread
and of each thread, that is, the OS runs every thread that can run, and kernels
and counter queries return. No fairness makes the OS create a thread. In
`ThreadLifecycle` strong fairness of `RunReturns` says that `run()` ends however
often it takes its lock first; clients are free to stop calling.

Deadlock checking is on in every run; a system that has finished stutters explicitly
(`Returned`, `Stopped`, `Done`, `WSDone`), and so does one in which a sampler sleeps
for ever. `AllBenchmarksReported` excepts that case, which is a finding.

## 5. Proofs

TLAPS checks, for every value of the constants that the named assumptions of the
modules allow:

| Module | Theorems | Assumed |
|---|---|---|
| `BenchmarkRun_proofs` | `TypeCorrect`; `Invariance`; from it `WorkerLifetime`, `Barrier`, `Soundness`, `Completeness`, `Finality`, `TotalsAreRight` and `Refinement`: the run's safety properties and the implementation of `ForkJoin` | `BenchmarkRunAssumption`: what is measured at a time fits into a tick |
| `ThreadLifecycle_proofs` | `Invariance`, `FlagsAreSound`, `NoStaleHandle`, `LockSafety` | none |
| `PowerSampling_proofs` | `TypeCorrect`, `Invariance`; from it `SamplingLasts`, `SamplersEnd`, `MetricsAreCurrent`, `CollectionIsComplete` | `PowerSamplingAssumption`: at least one socket, benchmark and sample |
| `Metrics_proofs` | `Invariance`; from it `StatisticsAreRight`, `IntervalIsRight`, `StopsAreRight`; `IntervalIsSymmetric` | `MetricsAssumption`: measurements are positive |
| `BenchmarkManager_proofs`, of `WorkingSets` | `RegionsInvariance`, `RegionsSound`, `AllIsGivenBack`, `RegionsOfNodes`, `SelectedNodesHaveMemory` | `WorkingSetsAssumption`: sizes are positive; `ConfigOK` initially, which is proved below |
| `BenchmarkManager_proofs`, of the program | `ConfigurationIsSound`, `ConfigurationsAreAccepted`; `UsesWorkingSets`, `MemoryOfBenchmarks`, `MemoryIsGivenBack`; `BenchmarksBuiltOnce`, `TestsHaveTheirNumbers`, `MatrixIsRight`, `MemoryIsRight`; `ModesRunInTurn`, `TestsAreRunOnce` | `ConfiguratorAssumption`, `BenchmarkManagerAssumption`, see below |
| `LoadWalk_proofs` | `TypeCorrect`, `PassesInside`; `CallsMoveTheirBytes`, `AccessesStayInside`, `StridesRepeat`, `OverheadIsMirrored` | `LoadWalkAssumption`: a pass holds whole words of every size; of the last four also `WholeIterations` |
| `PointerChain_proofs` | `ChainStays`, `WorkersStayHome`, `ChaseIsChain`, `PassesAreCountedRight` | `PointerChainAssumption`: a part is a whole number of chunks |
| `Placement_proofs` | `Invariance`, `PriorityRestored`, `WorkersAreSpread`, `WholeNodesAreMeasured` | `PlacementAssumption`, `TopologyAssumption`: what a machine is |

The argument for `BenchmarkRun`. None of its properties is inductive by itself:
that no worker runs while results are read depends on how far the join loop got
and on which threads were started. `Inv` therefore says, for each worker and each
value of `pc`, in which stage the worker is (`Stage`): *gone*, *fresh*,
*launched*, *joined*, depending on whether the loop over workers has passed it.
Each loop moves workers from one stage to the next. To that come the meaning of
the lock (`LockMeansPublishing`), what published counters satisfy
(`ResultsAreHonest`), that warnings reach `warning_` (`WarningsAreKept`) and where
the loop over iterations is (`RoundsInOrder`). One lemma per conjunct shows that
every action keeps it. The refinement maps a worker to *waiting*, *working*,
*finished* or *skipped* (`Turn`): starting is `Begin` or `Skip`, releasing the
lock for the last time is `Finish`, recording a metric is `Record`, and all else
stutters.

That the totals are exact (`TotalsAreRight`) is a statement about sums over a set
of workers, some of which the OS refused to start. `SumOver` therefore counts
units: a worker with `n` passes stands for `n` pairs, and to add a worker is to
add its pairs to a finite set (`SumOfOneMore`). The invariant `TotalsAreExact`
says that `sum` holds the counters of the workers before `t`, which of them
depending on `pc` since passes and ticks are added in two steps; ticks are added
modulo `TickMod` and the reference takes the modulus once (`WrappedSum`).

For `PowerSampling` the invariant says for each socket how far the main thread
has got with it: stopped, cleared, reset, sampling, joined, collected. A sampler
of an earlier benchmark cannot see the reader of a later one, because it has been
joined before the reader is cleared; so a stop signal is always that of the
current benchmark, and a trace holds samples of the current benchmark only.
Between the two critical sections of a sample the metrics lag behind the trace by
one sample, and `MetricsMatchTrace` excepts only that.

For `ThreadLifecycle` the flags are strengthened by `FlagsInOrder`,
`ReapedIsEnded` and `OwnerIsCritical`.

For `Metrics` the loop is the smaller part: `Inv` says that measurements are
recorded up to `i` and the interval is that of the recorded ones
(`IntervalIsOfRecorded`), also when the vector is then cut. The larger part is
what sorting yields. The element at a place of the sorted vector is the one with
as many elements before it (`Before`, equal ones in their order). That every place
is taken (`SortingPlaces`) is a pigeonhole argument: no two elements have equally
many before them, so the numbers are all those below the length. Hence an element
of the sorted vector has as many on either side as its place says
(`SortedElement`, `OthersAreFewer`), from which follow the order, the ends, the
median and the percentiles. The sum counts units, as in `SumOver`.

For `WorkingSets`, `RegionsAreSound` holds of a finished set-up only because it
held after every allocation (`SoundSoFar`): a new range overlaps none that was
handed out, and the old regions lie in those (`AddRegion`). That the aligned
region still fits is arithmetic (`RoundingUp`, `Room`): without large pages a
page more is allocated and alignment moves by less than a page; with large pages
the range starts on a boundary and does not move. With large pages the pointer is
stored under the number of the node, and the argument holds only for one region
per node; `Exits` shows that with more the program always exits.

That all regions are given back (`AllIsGivenBack`) needs an account of everything
that is handed out (`Accounted`): the whole range of each region not yet given
back, what was left behind those that were, and nothing else; and the ranges, as
they were handed out, are disjoint. It holds because no place is written twice,
because no node is listed twice (`PlacesAhead`). The destructor then finds under a
region's pointer that region's range and no other, since what is left of another
begins inside that other's range (`OneLess`), and what it leaves is no longer than a
page (`SizesAreRight`).

For `BenchmarkManager` nothing is assumed of the configuration. `Accepted` proves
that `configureFromInput()` accepts a command line only if what it makes of it is
sound (`ConfigInv`): nodes exist and are listed once, working sets are whole pages,
chunk sizes and strides are those the loops know. Assumed is what the option parser
lets through (`IsCommandLine`, from `MyArg`), and that the 4 KB of which working
sets are a multiple are whole pages (`PageKB % PageSize = 0`), which the usual page
size makes true and which fails on machines with larger pages. The nested loops of
`buildBenchmarks()` are lists of pairs; one list nested in another, both without
repetition, has none either (`NestedLists`), so each combination is built once.
`BenchInv` says what the vectors hold and which number comes next; numbers and
matrix cells are then arithmetic on positions. `LogInv` says that what has been run
is a prefix of the modes, with a prefix of the benchmarks of the last one.

`MemoryIsRight` joins the three modules. That there is memory at all for a region of
a selected node is an invariant of the loops that allocate it (`AllocatedSoFar`).
Which region a benchmark is given was computed from node and region number when it
was built, and how long it is when it was allocated (`OnItsNode`); how it is divided
is computed by the benchmark from its own number of workers. Pieces of equal length
that are multiples of a pass suit a pass again (`Pieces`), and for all benchmarks
but matrices by node and physical addresses the number of pieces is the number of
working sets (`SoundParts`).

For `LoadWalk` the invariant is that region, part and start are all multiples of
a pass: the remainder of a multiple of a pass modulo another is one too
(`RemainderOfMultiple`), so what is less than the length leaves room for a pass.
That a region begins on a page and its length is a multiple of a pass is what
`LoadWalk` assumes, and `PointerChain` likewise that a part is whole chunks;
`MemoryIsRight` proves it of the program (`PartsAreSound`), but for the parts the
property excepts. For what happens within a call,
`CallsInv` says where the pointer of a kernel is after a number of iterations:
forward or backward, and for strided kernels how often it has wrapped around. It
wraps exactly at the end because the bytes of an iteration (`Span`) divide 4096 for
each of the kernels, which is a fact about the literals of all of them
(`PairsSuit`), but for the 22 that are missing on Windows: `Missing` names them, and
the lemma `EmptyHasNoLoop` shows that the pointer of a call of theirs stays where it
begins and nothing is touched. `CallMovesItsBytes` and `StridedPassRepeats` except
them, `DummyMirrorsPasses` excepts them from the count of steps, and the other
properties hold for them too. Hence the hypothesis `WholeIterations`, that a pass is a multiple of
4096 bytes, as it is in the code; in a pass that is not made of whole iterations the
last one would go on behind the end, and the theorems would be false.

For `PointerChain` the invariant (`ChainInv`) is that the set of pointers of every
part that has been built is the set of its chunks, and that each worker is at a
chunk of its own part, with in `val` what that chunk holds. The loop puts at every
chunk its own address (`IdentityMapping`), so a shuffle puts there a permutation
of them: an injection of a finite set into itself is onto
(`ShuffleIsPermutation`). A pointer loaded from a chunk therefore leads to a chunk
of the same part (`ChainGoesOn`). A store puts back what is there, because only
the worker itself stores to its part, and parts do not overlap (`PartsApart`,
`OthersStay`): memory does not change at all once the workers run. 512-bit chunks
are excepted (`SoundLayout`), see the findings. That a pass does as much as is
counted (`PassesAreCountedRight`) is that a kernel does not return before its last
step (`HopsInv`), and that the number of its steps times its chunk is the bytes of a
pass (`UnrollMatchesCount`), but for the empty kernels of Windows.

For `Placement` by itself `ClassRestoredUnlessOverlapped` does not say what a worker
remembers, nor which class the process has in between. `ClassIsKept` does: while no
two workers were busy at once, the busy one holds the class the process was started
with, and the process has any other only from its raising to its restoring.
`WorkersAreSpread` rests on `cpu_id_in_numa_node()` counting CPUs of a node: the
CPU of a rank is one of the node with as many of them below it, so ranks and CPUs
correspond, and a set of as many CPUs as the node has is the node
(a pigeonhole argument with cardinalities). `WholeNodesAreMeasured` needs in
addition that the loops of `query_sys_info()` have read the file right
(`TopologyInv`): they did as far as they have got.

Only model-checked: liveness (`BenchmarkReturns`, `BlockedCallsReturn`,
`AllBenchmarksReported`), since fairness and ENABLED are outside of what the prover
handles; and of `IntervalCoversMedian` the 95%, a numerical statement about binomial
coefficients for each number of measurements, which TLC evaluates for up to 22. That
the two ranks, computed from different formulas, exist and are symmetric, is proved
for any number (`IntervalIsSymmetric`).

## 6. Findings

- A worker whose thread cannot be created is left out of the metric without a
  warning (`silent_worker_loss`).
- `Thread::cancel()` on Linux inverts the result of `pthread_cancel()`. Inverting the
  test alone would not do: a success of `pthread_cancel()` is only a request, and
  setting `completed_` on it breaks `FlagsTrackThread`.
- `Thread::join()` on Linux dereferences `PTHREAD_CANCELED` after a `cancel()`
  that took effect (state *crashed* of `ThreadLifecycle`); no caller does that.
- `stopPowerThreads()` collects all sockets after each join; the values reported
  for all sockets are those after the first; `LastCollectionIsComplete` speaks
  of the collection after the last join only.
- The sampling period less the time used may be negative and is converted to
  `DWORD`; the sampler may sleep for ever (`sleepForever` in `PowerSampling`), and
  the join with it.
- The mode is the maximum (`Mode` in `Metrics`).
- The start of a pass is computed from an address modulo the length, so a worker
  may visit some pages of its working set only (`working_set_covered`).
- Backward kernels touch the first word after the worker's part
  (`StaysNextToPart` allows that one word).
- `revStride2Write_Word512()` walks forward (`revStride2Write` of `Kernels`); for
  512-bit chunks `build_random_pointer_permutation()` fills half of the region and
  shuffles chunks without a pointer, so the chase faults (`SoundLayout`). The
  random kernels for 128 and 256 bits are empty on Windows.
- So are the delay-injected kernels for 128 and 256 bits: 4096 bytes are counted for
  a call that moves none, and the steps of a dummy that walks are subtracted
  (`Missing` of `LoadWalk`).
- A Windows process may keep the high priority class when all workers have ended
  (`priority_restored`). On Linux `boost_scheduling_priority()` tests the result of
  `nice()` for an error code it never returns.
- `query_sys_info()` does not rewind the stream before it counts cores and finds
  none; with an offline CPU it writes past the end of its map of packages.
- A throughput matrix has as many workers as there are CPUs whose package has the
  number of the node, which is wrong where packages and nodes differ; with none
  it divides by zero, and on Windows it reads an empty vector (`Crash`).
- On Windows `1 << cpu_id` names no CPU from number 31 on.
- The extension takes the region with the number of the node, which with several
  regions per node lies on another (`MemoryIsTheBenchmarks` excepts it), builds
  512-bit benchmarks that always fail, and asks for at least one worker where it
  needs two.
- With `-u` or `-M`, matrix benchmarks are built for the regions of all nodes;
  those of the others are null pointers (`matrix_unallocated`).
- Without NUMA all regions free one pointer; `NumaBuildsFreeRegions` speaks of the
  other builds. With large pages and
  physical addresses the mapped regions are passed to `free_huge_pages()`;
  `NumaBuildsFreeRegions` excepts that combination.
- `numa_free()` and `munmap()` are told the length of a region, which is less than
  was allocated; up to a page per region stays (`LeftBehind`).
- A physical address within a page is tested from the start of the page.
- Without `--all_cores` the workers of a throughput matrix benchmark share memory
  for as many working sets as `-j` says: their parts may be smaller than a pass, and
  passes then leave the part and the region. So do those of a latency matrix at
  physical addresses with `-j` above 1. `MemoryIsTheBenchmarks` looks at the parts
  of the others.
- Large pages with several regions per node always end in *Failed to allocate*;
  the size of a large-page allocation is not rounded up to a large page;
  `--all` does run the extensions. (No run of their own; see `findings`.)
- With several chunk sizes or strides `printMatrix()` starts a row after as many
  cells as there are regions, and labels it as if each cell were a region.
- With fewer than six iterations the matrix benchmarks print interval bounds that
  nothing has set.

## 7. Not modelled

See `PROJECT.json`, `components`, for each part with its reason. Result files and
reports are output only. Timers, assembly kernels, the PDH wrapper and the option
parser are pure I/O, straight-line or vendored code: calibration is one sleep and a
division, and elapsed ticks are inputs of `BenchmarkRun`.
`lock_thread_to_numa_node()` and `runAll()` have no caller, and `acquireLock()` with
a timeout is never called.

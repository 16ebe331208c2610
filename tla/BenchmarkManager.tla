-------------------------- MODULE BenchmarkManager --------------------------
(***************************************************************************)
(* One execution of X-Mem: main() configures itself from the command line, *)
(* constructs a BenchmarkManager, which sets up the working sets, lets it  *)
(* run the benchmarks of each selected mode, the first of which builds     *)
(* all benchmarks of all modes, and destroys it.                           *)
(*                                                                         *)
(* WorkingSets is the memory, Configurator the command line.  A benchmark  *)
(* that runs is one step here, which succeeds or fails; BenchmarkRun is    *)
(* that step in detail.  The delay-injected loaded latency benchmark, the  *)
(* one extension that is compiled in, is a mode of its own after the four. *)
(***************************************************************************)
EXTENDS WorkingSets, Configurator

CONSTANTS
  CommandLines,  \* the command lines a behaviour may start with
  PackageOf,     \* g_physical_package_of_cpu
  MaxDelay,      \* the longest delay of the extension: 1024
  MaxFailures    \* bound: how many benchmarks fail in one execution

\* The 4 KB that working sets are a multiple of are whole pages.
ASSUME BenchmarkManagerAssumption ==
  /\ \A o \in CommandLines : IsCommandLine(o)
  /\ MachineNodes = NumNodes
  /\ PageKB % PageSize = 0
  /\ 32 \in Chunks
  /\ PackageOf \in [0..NumCPUs-1 -> Nat]
  /\ MaxDelay \in Nat
  /\ MaxFailures \in Nat

VARIABLES
  stage,     \* where main() is: "setup", one of the stages, or "end"
  i,         \* the loop variable of the run...Benchmarks() functions
  built,     \* built_benchmarks_
  testIndex, \* g_test_index
  bench,     \* the vectors of benchmarks, by mode
  log,       \* the benchmarks whose run() was called, by mode, in order
  failures   \* how many of them failed

managerVars == <<stage, i, built, testIndex, bench, log, failures>>
vars == <<wsVars, managerVars>>

\* A region that is not in mem_arrays_: reading it is undefined.
Outside == -2

\* EXT_NUM_DELAY_INJECTED_LOADED_LATENCY_BENCHMARK.
DelayInjected == 0

\* The modes, and the extension "E", and which of them main() runs.
Stages == Modes \cup {"E"}
Selected ==
  config.modes \cup {e \in {"E"} : DelayInjected \in config.extensions}

\* What a loop over s and, in it, one over t go through.
Nested(s, t) ==
  [n \in 1..(Len(s) * Len(t)) |->
     <<s[((n - 1) \div Len(t)) + 1], t[((n - 1) % Len(t)) + 1]>>]

\* The members of S in the order in which s lists them.
Listed(s, S) ==
  LET at == Ascending({n \in DOMAIN s : s[n] \in S}) IN
  [n \in DOMAIN at |-> s[at[n]]]

\* The vectors made of the enumerations, in the order of the code.
ChunkList == Ascending(config.chunks)
RWList == Listed(<<"READ", "WRITE">>, config.rws)
StrideList ==
  Listed(<<1, -1, 2, -2, 4, -4, 8, -8, 16, -16>>, config.strides)
RegionList == [n \in 1..config.regions |-> n - 1]
AllRegionList == [n \in 1..NumRegions |-> n - 1]

ArrayOf(id) == IF id \in RegionIds THEN array[id] ELSE Outside
LenOf(id) == IF id \in RegionIds THEN len[id] ELSE Outside

-----------------------------------------------------------------------------
(* buildBenchmarks().                                                      *)

\* The combinations of access type, chunk size and stride for one region
\* and one CPU node.  Random access has no stride, and no 32-bit chunks.
SequentialCases ==
  LET loops == Nested(RWList, Nested(ChunkList, StrideList)) IN
  IF "SEQUENTIAL" \in config.patterns
  THEN [n \in DOMAIN loops |->
          [pattern |-> "SEQUENTIAL", rw |-> loops[n][1],
           chunk |-> loops[n][2][1], stride |-> loops[n][2][2]]]
  ELSE <<>>

RandomCases ==
  LET loops == Nested(RWList, Ascending(config.chunks \ {32})) IN
  IF "RANDOM" \in config.patterns
  THEN [n \in DOMAIN loops |->
          [pattern |-> "RANDOM", rw |-> loops[n][1], chunk |-> loops[n][2],
           stride |-> 0]]
  ELSE <<>>

Cases == SequentialCases \o RandomCases

\* A region of mem_arrays_: see WorkingSets.
RegionNumber(n, m) == n * config.regions + m

\* The nest of loops up to the CPU node, then the cases.
Places ==
  LET loops == Nested(config.memNodes, Nested(RegionList, config.cpuNodes)) IN
  [n \in DOMAIN loops |->
     [region |-> RegionNumber(loops[n][1], loops[n][2][1]),
      memNode |-> loops[n][1], cpuNode |-> loops[n][2][2]]]

\* Mutant: the test number moves on only where a latency benchmark is built.
TestNumberOfLatency(first, p, c) ==
  first + (IF config.workers > 1 THEN (p - 1) * Len(Cases) + (c - 1)
                                 ELSE p - 1)

\* The tests are numbered, one number per place and case.
TestNumber(first, p, c) == first + (p - 1) * Len(Cases) + (c - 1)

At(first, p, c) ==
  [index |-> TestNumber(first, p, c), region |-> Places[p].region,
   memNode |-> Places[p].memNode, pu |-> Places[p].cpuNode,
   what |-> Cases[c], mem |-> ArrayOf(Places[p].region),
   len |-> LenOf(Places[p].region), workers |-> config.workers]

ThroughputBenchmarks(first) ==
  [n \in 1..(Len(Places) * Len(Cases)) |->
     At(first, ((n - 1) \div Len(Cases)) + 1, ((n - 1) % Len(Cases)) + 1)]

\* With one worker a single latency benchmark per place will do.
LatencyBenchmarks(first) ==
  IF config.workers > 1 \/ Cases = <<>>
  THEN ThroughputBenchmarks(first)
  ELSE [p \in 1..Len(Places) |-> At(first, p, 1)]

\* processor_units: all CPUs, or the selected CPU nodes.
ProcessorUnits ==
  IF config.allCores THEN [n \in 1..NumCPUs |-> n - 1] ELSE config.cpuNodes

CPUsOfNode(n) == Cardinality({c \in 0..NumCPUs-1 : PackageOf[c] = n})

\* Mutant: the loop over the regions is outermost.
MatrixCasesByRegion ==
  LET loops == Nested(Nested(AllRegionList, ProcessorUnits),
                      Nested(ChunkList, StrideList)) IN
  [n \in DOMAIN loops |->
     [pu |-> loops[n][1][2], region |-> loops[n][1][1],
      chunk |-> loops[n][2][1], stride |-> loops[n][2][2]]]

\* The nest of loops for the matrix benchmarks: over all of mem_arrays_.
MatrixCases ==
  LET loops == Nested(Nested(ProcessorUnits, AllRegionList),
                      Nested(ChunkList, StrideList)) IN
  [n \in DOMAIN loops |->
     [pu |-> loops[n][1][1], region |-> loops[n][1][2],
      chunk |-> loops[n][2][1], stride |-> loops[n][2][2]]]

\* A throughput benchmark has one worker per CPU of its processor unit.
MatrixWorkers(mode, pu) ==
  IF mode = "LM" THEN config.workers
  ELSE IF config.allCores THEN 1 ELSE CPUsOfNode(pu)

MatrixBenchmarks(mode, first) ==
  [n \in 1..Len(MatrixCases) |->
     LET c == MatrixCases[n] IN
     [index |-> first + n - 1, region |-> c.region, memNode |-> node[c.region],
      pu |-> c.pu,
      what |-> [pattern |-> "SEQUENTIAL", rw |-> "READ", chunk |-> c.chunk,
                stride |-> c.stride],
      mem |-> array[c.region], len |-> len[c.region],
      workers |-> MatrixWorkers(mode, c.pu)]]

\* runExtDelayInjectedLoadedLatencyBenchmark(): all chunk sizes there are,
\* whatever was chosen, and the delays 0, 1, 2, 4 and so on.
IsDelay(d) == d = 0 \/ \E e \in 0..d : d = 2 ^ e
Delays == Ascending({d \in 0..MaxDelay : IsDelay(d)})

DelayCases ==
  LET loops == Nested(Nested(config.memNodes, config.cpuNodes),
                      Nested(Ascending(Chunks), Delays)) IN
  [n \in DOMAIN loops |->
     [memNode |-> loops[n][1][1], cpuNode |-> loops[n][1][2],
      chunk |-> loops[n][2][1], delay |-> loops[n][2][2]]]

\* The region is the one with the number of the node, whatever the number of
\* regions a node has.
DelayBenchmarks(first) ==
  [n \in 1..Len(DelayCases) |->
     LET c == DelayCases[n] IN
     [index |-> first + n - 1, region |-> c.memNode, memNode |-> c.memNode,
      pu |-> c.cpuNode, what |-> [chunk |-> c.chunk, delay |-> c.delay],
      mem |-> ArrayOf(c.memNode), len |-> LenOf(c.memNode),
      workers |-> config.workers]]

\* Appends to the vectors; the flag keeps it from happening twice.
BuildBenchmarks ==
  LET tests == testIndex + Len(Places) * Len(Cases) IN
  /\ bench' =
       [T |-> bench.T \o ThroughputBenchmarks(testIndex),
        L |-> bench.L \o LatencyBenchmarks(testIndex),
        LM |-> bench.LM \o MatrixBenchmarks("LM", tests),
        TM |-> bench.TM \o MatrixBenchmarks("TM", tests + Len(MatrixCases)),
        E |-> bench.E]
  /\ testIndex' = tests + 2 * Len(MatrixCases)

-----------------------------------------------------------------------------
(* main().                                                                 *)

\* The order in which main() looks at the modes.
NextStage == [setup |-> "T", T |-> "L", L |-> "LM", LM |-> "TM", TM |-> "E",
              E |-> "end"]

Empty == [m \in Stages |-> <<>>]

Init ==
  /\ \E o \in CommandLines, b \in Builds :
       /\ o.regions # <<>> => b # "windows"  \* there is no /dev/mem
       /\ build = b
       /\ config = Configuration(b, IF Rejected(b, o) THEN NoOptions ELSE o)
       /\ stage = IF Rejected(b, o) THEN "rejected" ELSE "setup"
  /\ WSInit
  /\ i = 0
  /\ built = FALSE
  /\ testIndex = config.base
  /\ bench = Empty
  /\ log = Empty
  /\ failures = 0

\* The constructor; the program may exit in it.
SetUp ==
  /\ stage = "setup"
  /\ SetUpWorkingSets
  /\ UNCHANGED managerVars

\* On to the next mode.
Advance ==
  /\ \/ stage = "setup" /\ setup = "ready"
     \/ stage \in Stages /\ stage \notin Selected
  /\ stage' = NextStage[stage]
  /\ UNCHANGED <<wsVars, i, built, testIndex, bench, log, failures>>

\* Mutant: the flag is not set.
SetBuiltNot == built

SetBuilt == TRUE

\* The beginning of the functions run...Benchmarks().
BeginMode ==
  /\ stage \in config.modes
  /\ i = 0
  /\ i' = 1
  /\ IF built THEN UNCHANGED <<bench, testIndex>> ELSE BuildBenchmarks
  /\ built' = SetBuilt
  /\ UNCHANGED <<wsVars, stage, log, failures>>

\* The extension needs a latency worker and a load worker, and builds its
\* benchmarks itself.
BeginExtension ==
  /\ stage = "E"
  /\ stage \in Selected
  /\ config.workers >= 2
  /\ i = 0
  /\ i' = 1
  /\ bench' = [bench EXCEPT !.E = DelayBenchmarks(testIndex)]
  /\ testIndex' = testIndex + Len(DelayCases)
  /\ UNCHANGED <<wsVars, stage, built, log, failures>>

RefuseExtension ==
  /\ stage = "E"
  /\ stage \in Selected
  /\ config.workers < 2
  /\ stage' = NextStage[stage]
  /\ UNCHANGED <<wsVars, i, built, testIndex, bench, log, failures>>

\* Mutant: the first benchmark that fails ends the loop.
AfterFailureStop == Len(bench[stage]) + 1

AfterFailure == i + 1

\* One turn of the loop over the benchmarks; what run() returns is not
\* looked at.
RunBenchmark ==
  /\ stage \in Selected
  /\ i \in DOMAIN bench[stage]
  /\ log' = [log EXCEPT ![stage] = Append(@, bench[stage][i])]
  /\ \/ i' = i + 1 /\ UNCHANGED failures
     \/ /\ failures < MaxFailures
        /\ failures' = failures + 1
        /\ i' = AfterFailure
  /\ UNCHANGED <<wsVars, stage, built, testIndex, bench>>

\* The end of the loop.  After matrix benchmarks the matrix is printed.
EndMode ==
  /\ stage \in Selected
  /\ i > Len(bench[stage])
  /\ i > 0
  /\ stage' = NextStage[stage]
  /\ i' = 0
  /\ UNCHANGED <<wsVars, built, testIndex, bench, log, failures>>

\* The destructor.
Destroy ==
  /\ stage = "end"
  /\ Release
  /\ UNCHANGED managerVars

Done ==
  /\ setup \in {"released", "exited"} \/ stage = "rejected"
  /\ UNCHANGED vars

Next ==
  \/ SetUp \/ Advance \/ BeginMode \/ BeginExtension \/ RefuseExtension
  \/ RunBenchmark \/ EndMode \/ Destroy \/ Done

Spec == Init /\ [][Next]_vars

\* "Carve up memory space so each worker has its own area to play in": every
\* runCore() begins with len_per_thread, the length of the part of worker t.
LenPerThread(b) == b.len \div b.workers
PartOf(b, t) ==
  [base |-> b.mem + t * LenPerThread(b), size |-> LenPerThread(b)]

\* printMatrix(): a row starts at every benchmark whose number is a multiple
\* of the number of regions, and is labelled with its processor unit.
RegionsPerPU == NumRegions

Matrix(m) ==
  [row \in 1..(Len(bench[m]) \div RegionsPerPU) |->
     LET first == (row - 1) * RegionsPerPU IN
     [label |-> bench[m][first + 1].pu,
      cells |-> [col \in 1..RegionsPerPU |-> bench[m][first + col]]]]

-----------------------------------------------------------------------------
(* Properties.                                                             *)

\* What the command line asks to be measured at every place.
Wanted ==
  {[pattern |-> p, rw |-> w, chunk |-> c, stride |-> s] :
     p \in config.patterns \cap {"SEQUENTIAL"}, w \in config.rws,
     c \in config.chunks, s \in config.strides}
  \cup
  {[pattern |-> p, rw |-> w, chunk |-> c, stride |-> 0] :
     p \in config.patterns \cap {"RANDOM"}, w \in config.rws,
     c \in config.chunks \ {32}}

PlaceOf(b) == <<b.memNode, b.region % config.regions, b.pu>>

WantedPlaces ==
  Range(config.memNodes) \X (0..config.regions-1) \X Range(config.cpuNodes)

\* When the program reaches its end, each selected mode has run what the
\* command line asks for and nothing else, each combination once: every
\* throughput test; every latency test, or one per place where there is one
\* worker; every region from every processor unit for the matrices; for the
\* extension every pair of nodes, chunk size, and delay that is 0 or a power
\* of two.  An earlier failure changes nothing.
EachTestRunOnce ==
  stage = "end" =>
    /\ \A m \in Stages \ Selected : log[m] = <<>>
    /\ \A m \in Selected : IsInjective([n \in DOMAIN log[m] |->
         <<PlaceOf(log[m][n]), log[m][n].region, log[m][n].what>>])
    /\ "T" \in config.modes =>
         {<<PlaceOf(b), b.what>> : b \in Range(log.T)} = WantedPlaces \X Wanted
    /\ "L" \in config.modes /\ config.workers > 1 =>
         {<<PlaceOf(b), b.what>> : b \in Range(log.L)} = WantedPlaces \X Wanted
    /\ "L" \in config.modes /\ config.workers = 1 /\ Wanted # {} =>
         /\ Len(log.L) = Cardinality(WantedPlaces)
         /\ {PlaceOf(b) : b \in Range(log.L)} = WantedPlaces
    /\ \A m \in config.modes \cap {"LM", "TM"} :
         {<<b.pu, b.region, b.what.chunk, b.what.stride>> :
            b \in Range(log[m])}
           = Range(ProcessorUnits) \X RegionIds \X config.chunks
               \X config.strides
    /\ "E" \in Selected /\ config.workers > 1 =>
         {<<b.memNode, b.pu, b.what.chunk, b.what.delay>> : b \in Range(log.E)}
           = Range(config.memNodes) \X Range(config.cpuNodes) \X Chunks
               \X {d \in 0..MaxDelay : d = 0 \/ \E e \in 0..d : d = 2 ^ e}

\* The number in a test's name identifies it: within a mode no two tests
\* have the same, and a latency test has the number of the throughput test
\* of the same combination.
TestNumbersIdentify ==
  /\ \A m \in Stages : IsInjective([n \in DOMAIN bench[m] |->
                                      bench[m][n].index])
  /\ \A b1 \in Range(bench.T), b2 \in Range(bench.L) :
       b1.index = b2.index => b1 = b2
  /\ \A m1, m2 \in Stages : m1 # m2 /\ {m1, m2} # {"T", "L"} =>
       \A b1 \in Range(bench[m1]), b2 \in Range(bench[m2]) :
         b1.index # b2.index

\* A part that a worker can walk over in passes of 4 KB without leaving it:
\* it begins on a page and is a whole number of passes.
SuitsPasses(x) ==
  /\ x.base % PageSize = 0 \/ LargePageSize % PageSize # 0
  /\ x.size % PageKB = 0

\* The parts of the workers of b are as large as one working set each, suit
\* their passes, lie in the memory of b and do not overlap.
PartsAreSound(b) ==
  \A t \in 0..b.workers-1 :
    /\ PartOf(b, t).size >= config.wsSize
    /\ SuitsPasses(PartOf(b, t))
    /\ Within(PartOf(b, t), [base |-> b.mem, size |-> b.len])
    /\ \A u \in 0..b.workers-1 : u # t => Disjoint(PartOf(b, t), PartOf(b, u))

\* A benchmark writes to all of its memory before it measures.  When run()
\* is called that memory is handed out, lies on the node the benchmark is
\* said to test, and falls into sound parts for its workers.  (The number of
\* workers of a throughput matrix benchmark, and the length of a region at a
\* physical address, have nothing to do with the number of working sets; the
\* parts are looked at there only if one worker has all.
\* Matrix benchmarks of regions of nodes that are not selected, which were
\* never allocated, are not looked at here; see MatrixMemoryIsAllocated.  Nor
\* is the extension where a node has not exactly one region of virtual memory:
\* it takes the wrong one.)
MemoryIsTheBenchmarks ==
  /\ stage \in Selected
  /\ i \in DOMAIN bench[stage]
  /\ stage = "E" => config.regions = 1 /\ ~config.physical
  =>
    LET b == bench[stage][i] IN
    \/ b.mem # Null
    \/ config.physical
    \/ b.region \div config.regions \in Range(config.memNodes)
    =>
      /\ b.mem \notin {Null, Outside}
      /\ \E h \in heap : Within([base |-> b.mem, size |-> b.len], h)
      /\ ~config.physical => b.memNode = b.region \div config.regions
      /\ b.workers = 1 \/ (stage # "TM" /\ ~config.physical) =>
           PartsAreSound(b)

\* The cell of the printed matrix in the row of a processor unit and the
\* column of a region shows the benchmark of that unit and that region,
\* where there is one chunk size and one stride.
MatrixCellsInPlace ==
  \A m \in config.modes \cap {"LM", "TM"} :
    /\ bench[m] # <<>>
    /\ Cardinality(config.chunks) = 1
    /\ Cardinality(config.strides) = 1
    =>
    /\ Len(Matrix(m)) = Len(ProcessorUnits)
    /\ \A row \in DOMAIN Matrix(m) :
         LET r0 == Matrix(m)[row] IN
         /\ r0.label = ProcessorUnits[row]
         /\ \A id \in RegionIds : /\ r0.cells[id + 1].pu = r0.label
                                  /\ r0.cells[id + 1].region = id

\* "Limits benchmarking to CPU and memory NUMA node 0 instead of all
\* intra-node and inter-node combinations" (the usage text): a benchmark
\* uses memory of a selected node, which is allocated.
MatrixMemoryIsAllocated ==
  stage \in config.modes \cap {"LM", "TM"} /\ i \in DOMAIN bench[stage] =>
    bench[stage][i].mem # Null

=============================================================================

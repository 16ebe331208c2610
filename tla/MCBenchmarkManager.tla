------------------------- MODULE MCBenchmarkManager -------------------------
(***************************************************************************)
(* A machine with two NUMA nodes and three CPUs, and command lines that    *)
(* between them use every option that BenchmarkManager looks at.           *)
(***************************************************************************)
EXTENDS BenchmarkManager

With(modes) == [NoOptions EXCEPT !.modes = modes]

\* Throughput and latency tests.
PlainCommandLines ==
  {NoOptions,
   [NoOptions EXCEPT !.memRegions = <<2>>, !.cpuNodes = {0}],
   [NoOptions EXCEPT !.workers = <<2>>, !.cpuNodes = {1}, !.base = <<7>>],
   [NoOptions EXCEPT !.workers = <<4>>],
   [NoOptions EXCEPT !.memNodes = {1}, !.memRegions = <<2>>,
                     !.patterns = {"RANDOM", "SEQUENTIAL"}, !.rws = {"READ"}],
   [NoOptions EXCEPT !.memNodes = {2}],
   [NoOptions EXCEPT !.chunks = {32}, !.patterns = {"RANDOM"}],
   [NoOptions EXCEPT !.wsSize = <<3>>],
   [NoOptions EXCEPT !.largePages = TRUE, !.ignoreNuma = TRUE]}

\* Matrix tests, all modes, and physical addresses.
MatrixCommandLines ==
  {[With({"LM"}) EXCEPT !.workers = <<2>>],
   With(Modes),
   [With({"LM", "TM"}) EXCEPT !.ignoreNuma = TRUE],
   [With({"TM"}) EXCEPT !.allCores = TRUE, !.chunks = {32, 64}],
   [With({"LM", "TM"}) EXCEPT !.regions = << <<5, 8>> >>],
   [With({"LM", "L"}) EXCEPT !.regions = << <<5, 8>> >>],
   [With({"TM"}) EXCEPT !.regions = << <<5, 8>> >>, !.memRegions = <<1>>],
   [With({"LM"}) EXCEPT !.regions = << <<5, 8>> >>, !.largePages = TRUE,
                        !.ignoreNuma = TRUE],
   [NoOptions EXCEPT !.all = TRUE],
   [NoOptions EXCEPT !.all = TRUE, !.modes = {"LM"},
                     !.regions = << <<5, 8>> >>]}

\* The extension, alone and after others, with too few workers and with a
\* number that is not one of an extension.
ExtensionCommandLines ==
  {[NoOptions EXCEPT !.extension = {0}, !.workers = <<2>>],
   [NoOptions EXCEPT !.extension = {0}, !.workers = <<2>>, !.memRegions = <<2>>],
   [NoOptions EXCEPT !.extension = {0}, !.workers = <<2>>, !.memNodes = {1},
                     !.chunks = {32}, !.regions = << <<5>> >>],
   [With({"L"}) EXCEPT !.extension = {0}, !.workers = <<2>>, !.cpuNodes = {1}],
   [NoOptions EXCEPT !.extension = {0}],
   [NoOptions EXCEPT !.extension = {0, 1}]}

MCCommandLines ==
  PlainCommandLines \cup MatrixCommandLines \cup ExtensionCommandLines

MCPackageOf == [c \in 0..2 |-> IF c < 2 THEN 0 ELSE 1]

=============================================================================

----------------------------- MODULE Configurator ----------------------------
(***************************************************************************)
(* Configurator::configureFromInput(): which command lines are accepted,   *)
(* and the configuration an accepted one leads to.                         *)
(*                                                                         *)
(* A command line is a record.  An option that may be given once with an   *)
(* argument is the sequence of the arguments it was given, one that may be *)
(* given several times is the set of them, a flag is a Boolean.  The       *)
(* option parser has rejected what it rejects before: arguments that are   *)
(* not positive where they must be, and unknown options.                   *)
(***************************************************************************)
EXTENDS Integers, Sequences, FiniteSets, Functions

CONSTANTS
  MachineNodes,  \* g_num_numa_nodes
  NumCPUs,       \* g_num_logical_cpus
  Chunks,        \* chunk sizes of this build, 32 among them
  Strides,       \* the strides there are
  Extensions,    \* the extensions compiled in
  PageKB         \* 4: working sets are a multiple of so many KB

ASSUME ConfiguratorAssumption ==
  /\ MachineNodes \in Nat \ {0}
  /\ NumCPUs \in Nat \ {0}
  /\ Chunks \subseteq {32, 64, 128, 256, 512}
  /\ Strides \subseteq {1, -1, 2, -2, 4, -4, 8, -8, 16, -16}
  /\ PageKB \in Nat \ {0}

\* Throughput, latency, and the two matrix modes.
Modes == {"T", "L", "LM", "TM"}

\* What the option parser lets through: the arguments of -w, -j, -n and -m
\* are positive, those of -i, -C and -M are not negative, and --regions is a
\* list of addresses.
IsCommandLine(o) ==
  /\ o.modes \subseteq Modes
  /\ {o.wsSize, o.workers, o.iterations, o.memRegions} \subseteq Seq(Nat \ {0})
  /\ o.base \in Seq(Nat)
  /\ o.cpuNodes \cup o.memNodes \cup o.chunks \cup o.extension \subseteq Nat
  /\ o.strides \subseteq Int
  /\ o.patterns \subseteq {"SEQUENTIAL", "RANDOM"}
  /\ o.rws \subseteq {"READ", "WRITE"}
  /\ o.regions \in Seq(Seq(Nat))
  /\ {o.all, o.ignoreNuma, o.largePages, o.allCores, o.help} \subseteq BOOLEAN

\* The defaults.
NoOptions ==
  [all |-> FALSE, modes |-> {}, extension |-> {}, wsSize |-> <<>>,
   ignoreNuma |-> FALSE, cpuNodes |-> {}, memNodes |-> {},
   largePages |-> FALSE, workers |-> <<>>, chunks |-> {}, iterations |-> <<>>,
   patterns |-> {}, rws |-> {}, strides |-> {}, memRegions |-> <<>>,
   regions |-> <<>>, base |-> <<>>, allCores |-> FALSE, extended |-> FALSE, help |-> FALSE]

DefaultChunk == IF 64 \in Chunks THEN 64 ELSE 32
DefaultWSSize == PageKB

\* An option given at most once overrides the default.
Given(s, default) == IF s = <<>> THEN default ELSE s[1]

\* Options of a kind override the defaults of that kind together.
Chosen(S, defaults) == IF S = {} THEN defaults ELSE S

-----------------------------------------------------------------------------
(* What has NUMA: see WorkingSets for the builds.                          *)

NumaEnabled(build, o) == build # "malloc" /\ ~o.ignoreNuma

\* A set of numbers in ascending order: the n-th is above n - 1 others.
Ascending(S) ==
  [n \in 1..Cardinality(S) |->
     CHOOSE x \in S : Cardinality({y \in S : y < x}) = n - 1]

\* Node 0 only without NUMA, else the nodes given, or all of them, sorted.
NodesOf(build, o, given) ==
  IF NumaEnabled(build, o)
  THEN Ascending(Chosen(given, 0..MachineNodes-1))
  ELSE <<0>>

UsesLargePages(build, o) == o.largePages /\ build # "malloc"

\* The modes, before "all" is looked at.
ChosenModes(o) ==
  IF o.modes = {} /\ o.extension = {} THEN {"T", "L"} ELSE o.modes

ModesRun(o) == IF o.all THEN Modes ELSE ChosenModes(o)

\* Mutant: "all" is taken into account after the checks.
ModesForgettingAll(o) == ChosenModes(o)

\* The modes when the options for memory regions are checked.
ModesChecked(o) == ModesRun(o)

-----------------------------------------------------------------------------
(* Every way to the label "error".                                         *)

\* Mutant: an off-by-one in the test of a NUMA node.
NodeExistsOffByOne(n) == n <= MachineNodes

NodeExists(n) == n < MachineNodes

\* The names of output files are checked like these.
OnceOptions(o) == {o.wsSize, o.workers, o.iterations, o.base, o.memRegions}

Rejected(build, o) ==
  \/ \E s \in OnceOptions(o) : Len(s) > 1
  \/ \E e \in o.extension : e \notin Extensions
  \/ Given(o.wsSize, DefaultWSSize) % PageKB # 0
  \/ /\ NumaEnabled(build, o)
     /\ \E n \in o.cpuNodes \cup o.memNodes : ~NodeExists(n)
  \/ build = "linux" /\ o.largePages /\ NumaEnabled(build, o)
  \/ Given(o.workers, 1) > NumCPUs
  \/ \E c \in o.chunks : c \notin Chunks
  \/ \E s \in o.strides : s \notin Strides
  \/ o.memRegions # <<>> /\ o.regions # <<>>
  \/ o.regions # <<>> /\ ModesChecked(o) \cap {"T", "L"} # {}
  \/ o.help

\* The configuration of an accepted command line.  regions given as physical
\* addresses also set the number of regions; `all` overrides the chunk
\* sizes, strides, patterns and access types, and runs the extensions.
Configuration(build, o) ==
  [modes |-> ModesRun(o),
   extensions |-> IF o.all THEN Extensions ELSE o.extension,
   wsSize |-> Given(o.wsSize, DefaultWSSize),
   cpuNodes |-> NodesOf(build, o, o.cpuNodes),
   memNodes |-> NodesOf(build, o, o.memNodes),
   largePages |-> UsesLargePages(build, o),
   workers |-> Given(o.workers, 1),
   chunks |-> IF o.all THEN Chunks ELSE Chosen(o.chunks, {DefaultChunk}),
   iterations |-> Given(o.iterations, 1),
   base |-> Given(o.base, 1),
   patterns |-> IF o.all THEN {"SEQUENTIAL", "RANDOM"}
                         ELSE Chosen(o.patterns, {"SEQUENTIAL"}),
   rws |-> IF o.all THEN {"READ", "WRITE"} ELSE Chosen(o.rws, {"READ", "WRITE"}),
   strides |-> IF o.all THEN Strides ELSE Chosen(o.strides, {1}),
   physical |-> o.regions # <<>>,
   phys |-> Given(o.regions, <<>>),
   regions |-> IF o.regions # <<>> THEN Len(o.regions[1])
                                   ELSE Given(o.memRegions, 1),
   allCores |-> o.allCores,
   extended |-> o.extended]

=============================================================================

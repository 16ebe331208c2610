------------------------------- MODULE Topology -------------------------------
(***************************************************************************)
(* What the program finds out about the machine before it does anything    *)
(* else (query_sys_info()), and how it names the CPUs of a NUMA node       *)
(* afterwards (cpu_id_in_numa_node()).                                     *)
(*                                                                         *)
(* On Linux the file /proc/cpuinfo is read line by line, through one       *)
(* stream, in three loops.  Of its lines only those matter here that the   *)
(* loops look for: of each online CPU, in the order of their numbers, its  *)
(* processor number, its package and its core.  On Windows the loops count *)
(* the records of one system call.                                         *)
(***************************************************************************)
EXTENDS Integers, FiniteSets

CONSTANT Machines  \* the machines, and builds for them, to look at

\* cpus: the numbers of the CPUs that are online; node, package, core: where
\* each of them is; numa: whether this is a build without HAS_NUMA ("none"),
\* and if not whether the NUMA API is available; allowed: the CPUs the process
\* may run on when it is started; class: its priority class then, on Windows;
\* privileged: it may raise its priority, on Linux.
IsMachine(m) ==
  /\ m.os \in {"linux", "windows"}
  /\ m.numa \in {"none", "available", "unavailable"}
  /\ m.cpus \subseteq Nat /\ m.cpus # {} /\ IsFiniteSet(m.cpus)
  /\ m.node \in [m.cpus -> Nat]
  /\ m.package \in [m.cpus -> Nat]
  /\ m.core \in [m.cpus -> Nat]
  /\ m.allowed \in SUBSET m.cpus \ {{}}
  /\ m.class \in {"normal", "high"}
  /\ m.privileged \in BOOLEAN

ASSUME TopologyAssumption == \A m \in Machines : IsMachine(m)

VARIABLES
  machine,
  query,       \* where query_sys_info() is, or how it ended
  pos,         \* the line of /proc/cpuinfo the stream is at
  eof,         \* in.eof()
  cpu,         \* the processor number last read
  packageIds,  \* phys_package_ids
  coreIds,     \* core_ids
  numNodes,    \* g_num_numa_nodes
  numPackages, \* g_num_physical_packages
  numCores,    \* g_num_physical_cpus
  numCPUs,     \* g_num_logical_cpus
  packageOf    \* g_physical_package_of_cpu

stream == <<pos, eof>>
locals == <<cpu, packageIds, coreIds>>
globals == <<numNodes, numPackages, numCores, numCPUs, packageOf>>
topology == <<machine, query, stream, locals, globals>>

Online == machine.cpus

NodeCPUs(n) == {c \in Online : machine.node[c] = n}

\* The member of S that has k smaller ones.
Nth(S, k) == CHOOSE c \in S : Cardinality({d \in S : d < c}) = k

MaxOf(S) == CHOOSE x \in S : \A y \in S : y <= x

\* init_globals(), and the file opened.
InitTopology ==
  /\ machine \in Machines
  /\ query = "start"
  /\ pos = 1 /\ eof = FALSE
  /\ cpu = 0 /\ packageIds = {} /\ coreIds = {}
  /\ numNodes = 0 /\ numPackages = 0 /\ numCores = 0 /\ numCPUs = 0
  /\ packageOf = <<>>

-----------------------------------------------------------------------------
(* GNU/Linux.                                                              *)

NumLines == 3 * Cardinality(Online)

Line(n) ==
  LET c == Nth(Online, (n - 1) \div 3)
  IN  CASE n % 3 = 1 -> [kind |-> "processor", id |-> c]
        [] n % 3 = 2 -> [kind |-> "physical id", id |-> machine.package[c]]
        [] n % 3 = 0 -> [kind |-> "core id", id |-> machine.core[c]]

\* in.getline(): after the last line there is one more turn of the loop, with
\* an empty line.
Getline == IF pos <= NumLines THEN pos' = pos + 1 /\ eof' = eof
                              ELSE pos' = pos /\ eof' = TRUE

Finds(kind) == pos <= NumLines /\ Line(pos).kind = kind

\* Without the NUMA API the program ends; a build without HAS_NUMA takes the
\* machine for one node.
QueryNodes ==
  /\ query = "start"
  /\ machine.os = "linux"
  /\ IF machine.numa = "unavailable"
     THEN query' = "failed" /\ numNodes' = numNodes
     ELSE /\ query' = "packages"
          /\ numNodes' = IF machine.numa = "none" THEN 1
                         ELSE MaxOf({machine.node[c] : c \in Online}) + 1
  /\ UNCHANGED <<machine, stream, locals, numPackages, numCores, numCPUs,
                 packageOf>>

CountPackages ==
  /\ query = "packages"
  /\ \/ /\ ~eof
        /\ Getline
        /\ packageIds' = packageIds \cup
             {Line(p).id : p \in {q \in {pos} : Finds("physical id")}}
        /\ UNCHANGED <<query, globals>>
     \/ /\ eof
        /\ numPackages' = Cardinality(packageIds)
        /\ numCPUs' = Cardinality(Online)
        /\ query' = "cores"
        /\ UNCHANGED <<stream, packageIds, numNodes, numCores, packageOf>>
  /\ UNCHANGED <<machine, cpu, coreIds>>

\* Mutant: the stream stays at its end, as it does before this loop.
RewindForgotten == UNCHANGED stream

\* in.clear(); in.seekg(0)
Rewind == pos' = 1 /\ eof' = FALSE

\* The loop that looks for the cores finds the stream where the loop before it
\* has left it.
CountCores ==
  /\ query = "cores"
  /\ \/ /\ ~eof
        /\ Getline
        /\ coreIds' = coreIds \cup
             {Line(p).id : p \in {q \in {pos} : Finds("core id")}}
        /\ UNCHANGED <<query, globals>>
     \/ /\ eof
        /\ numCores' = Cardinality(coreIds) * numPackages
        /\ packageOf' = [c \in 0..numCPUs-1 |-> 0]
        /\ query' = "map"
        /\ Rewind
        /\ UNCHANGED <<coreIds, numNodes, numPackages, numCPUs>>
  /\ UNCHANGED <<machine, cpu, packageIds>>

\* A processor number past the end of the vector, because a CPU with a smaller
\* number is offline, is written to memory that belongs to something else: the
\* program may crash or go on.
MapPackages ==
  /\ query = "map"
  /\ \/ /\ ~eof
        /\ Getline
        /\ cpu' = IF Finds("processor") THEN Line(pos).id ELSE cpu
        /\ packageOf' = IF Finds("physical id") /\ cpu \in DOMAIN packageOf
                        THEN [packageOf EXCEPT ![cpu] = Line(pos).id]
                        ELSE packageOf
        /\ query' \in IF Finds("physical id") /\ cpu \notin DOMAIN packageOf
                      THEN {"map", "crashed"} ELSE {"map"}
     \/ /\ eof
        /\ query' = "done"
        /\ UNCHANGED <<stream, cpu, packageOf>>
  /\ UNCHANGED <<machine, packageIds, coreIds, numNodes, numPackages, numCores,
                 numCPUs>>

-----------------------------------------------------------------------------
(* Windows.  The mapping of CPUs to packages stays empty.                  *)

QueryWindows ==
  /\ query = "start"
  /\ machine.os = "windows"
  /\ numNodes' = Cardinality({machine.node[c] : c \in Online})
  /\ numPackages' = Cardinality({machine.package[c] : c \in Online})
  /\ numCores' =
       Cardinality({<<machine.package[c], machine.core[c]>> : c \in Online})
  /\ numCPUs' = Cardinality(Online)
  /\ query' = "done"
  /\ UNCHANGED <<machine, stream, locals, packageOf>>

QuerySysInfo ==
  QueryNodes \/ CountPackages \/ CountCores \/ MapPackages \/ QueryWindows

-----------------------------------------------------------------------------

\* Mutant: the rank is counted up before it is compared.
RankCountedFirst(n, k) ==
  {c \in NodeCPUs(n) : Cardinality({d \in NodeCPUs(n) : d <= c}) = k}

\* The CPUs of node n that the loops over its mask find at rank k.
AtRank(n, k) ==
  {c \in NodeCPUs(n) : Cardinality({d \in NodeCPUs(n) : d < c}) = k}

\* The k-th CPU of node n, from 0, or -1.  A build without HAS_NUMA does not
\* ask whether there is a CPU of this number.
CPUIdInNumaNode(n, k) ==
  IF machine.numa = "none"
  THEN IF n # 0 THEN -1 ELSE k
  ELSE IF AtRank(n, k) = {} THEN -1 ELSE CHOOSE c \in AtRank(n, k) : TRUE
===============================================================================

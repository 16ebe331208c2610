------------------------------- MODULE Placement -------------------------------
(***************************************************************************)
(* Where and how urgently the workers run.  A benchmark has a CPU for each *)
(* of its workers; the worker locks itself to it, raises its priority,     *)
(* measures, and undoes both.  On Windows the priority consists of the     *)
(* class of the process, which all workers share, and that of the thread.  *)
(***************************************************************************)
EXTENDS Topology

CONSTANTS
  IntBits,     \* the bits of an int: 32
  MaxWorkers,  \* bound: how many workers a benchmark has
  MaxRounds    \* bound: how many iterations of benchmarks are run

ASSUME PlacementAssumption ==
  /\ IntBits \in Nat \ {0}
  /\ MaxWorkers \in Nat \ {0}
  /\ MaxRounds \in Nat \ {0}

VARIABLES
  rounds,    \* how many iterations have been started
  mainMask,  \* the affinity of the main thread, which new threads inherit
  bench,     \* the benchmark that is running
  wpc,       \* where each worker is in run()
  cpuOf,     \* cpu_affinity_ of each worker
  mask,      \* its affinity
  locked,    \* `locked` in run()
  class,     \* Windows: the priority class of the process
  saved,     \* original_priority_class of each worker
  boosted,   \* whether its thread priority is raised
  overlapped \* history: two workers were between boost and revert at once

workers == <<wpc, cpuOf, mask, locked, saved, boosted>>
placement == <<rounds, mainMask, bench, workers, class, overlapped>>
vars == <<topology, placement>>

Workers == 0..MaxWorkers-1

Idle == [kind |-> "idle", node |-> 0, size |-> 0]

Least(a, b) == IF a < b THEN a ELSE b

Init ==
  /\ InitTopology
  /\ rounds = 0
  /\ mainMask = machine.allowed
  /\ bench = Idle
  /\ wpc = [t \in Workers |-> "none"]
  /\ cpuOf = [t \in Workers |-> 0]
  /\ mask = [t \in Workers |-> {}]
  /\ locked = [t \in Workers |-> FALSE]
  /\ class = machine.class
  /\ saved = [t \in Workers |-> class]
  /\ boosted = [t \in Workers |-> FALSE]
  /\ overlapped = FALSE

-----------------------------------------------------------------------------
(* Thread affinity.                                                        *)

\* The CPUs that 1 << c can denote as a mask: the literal is an int, so the
\* highest bit is extended to all higher ones and anything beyond is undefined.
ShiftedMasks(c) ==
  CASE c \in 0..IntBits-2 -> {{c}}
    [] c = IntBits - 1 -> {c..2 * IntBits - 1}
    [] OTHER -> SUBSET Online

\* The affinities that lock_thread_to_cpu(c) can ask for.  On Linux a CPU that
\* does not exist, -1 among them, leaves the set empty.
Requests(c) ==
  IF machine.os = "linux" THEN {{c} \cap Online} ELSE ShiftedMasks(c)

\* The operating system refuses a set without a CPU to run on, and Windows one
\* that names a CPU that the process may not run on.
Granted(request) ==
  /\ request # {}
  /\ machine.os = "windows" => request \subseteq machine.allowed

\* unlock_thread_to_cpu(): as many CPUs as are online, from number 0 on, join
\* the affinity there is.
Unlocked(m) ==
  IF machine.os = "linux"
  THEN m \cup (Online \cap 0..Cardinality(Online)-1)
  ELSE machine.allowed

\* With -v the main thread locks itself to every CPU and unlocks itself, one
\* CPU after the other; they are numbered as if none was offline, so that one
\* may be refused.  tested[c] is its affinity after the first c CPUs.  It does
\* not depend on the lock on Windows, where unlocking allows all CPUs.
TestThreadAffinities ==
  /\ query = "done"
  /\ rounds = 0
  /\ bench = Idle
  /\ LET tested[c \in 0..numCPUs] ==
           IF c = 0 THEN mainMask
           ELSE Unlocked(IF c - 1 \in Online THEN {c - 1} ELSE tested[c - 1])
     IN  mainMask' = tested[numCPUs]
  /\ UNCHANGED <<topology, rounds, bench, workers, class, overlapped>>

-----------------------------------------------------------------------------
(* The main thread.                                                        *)

\* Starts n workers; worker t is to run on CPU At(t).
Start(kind, node, n, At(_)) ==
  /\ query = "done"
  /\ bench = Idle
  /\ rounds < MaxRounds
  /\ n \in 1..MaxWorkers
  /\ rounds' = rounds + 1
  /\ bench' = [kind |-> kind, node |-> node, size |-> n]
  /\ cpuOf' = [t \in Workers |-> IF t < n THEN At(t) ELSE cpuOf[t]]
  /\ wpc' = [t \in Workers |-> IF t < n THEN "lock" ELSE "none"]
  /\ mask' = [t \in Workers |-> IF t < n THEN mainMask ELSE {}]
  /\ locked' = [t \in Workers |-> FALSE]
  /\ boosted' = [t \in Workers |-> FALSE]
  /\ UNCHANGED <<topology, mainMask, saved, class, overlapped>>

\* An iteration of a throughput or latency benchmark: as many workers as the
\* user says, up to the number of CPUs of the machine.
StartOnNode ==
  \E n \in 0..numNodes-1, size \in 1..numCPUs :
    Start("node", n, size, LAMBDA t : CPUIdInNumaNode(n, t))

\* For a throughput matrix: the CPUs whose package has the number of the node.
CPUsInCPUNode(n) == {c \in 0..numCPUs-1 : packageOf[c] = n}

\* One of the throughput matrix: a worker for every CPU of the node.  It has no
\* iteration where the map is empty (Windows) or where no package has the
\* number of the node: the program ends there, see Crash.
StartOnWholeNode ==
  /\ packageOf # <<>>
  /\ \E n \in 0..numNodes-1 :
       Start("whole node", n, Cardinality(CPUsInCPUNode(n)),
             LAMBDA t : CPUIdInNumaNode(n, t))

\* One of a matrix with --all_cores: every worker on the same CPU, one for
\* throughput and as many as the user says for latency.
StartOnCPU ==
  \E c \in 0..numCPUs-1, size \in 1..numCPUs :
    Start("cpu", 0, size, LAMBDA t : c)

\* An element of the empty map is read, or the length of the region divided by
\* no workers.
Crash ==
  /\ query = "done"
  /\ bench = Idle
  /\ \/ packageOf = <<>>
     \/ /\ packageOf # <<>>
        /\ \E n \in 0..numNodes-1 : CPUsInCPUNode(n) = {}
  /\ query' = "crashed"
  /\ UNCHANGED <<machine, stream, locals, globals, placement>>

\* All threads joined.
Join ==
  /\ bench # Idle
  /\ \A t \in Workers : wpc[t] \in {"none", "done"}
  /\ bench' = Idle
  /\ UNCHANGED <<topology, rounds, mainMask, workers, class, overlapped>>

-----------------------------------------------------------------------------
(* LoadWorker::run() and LatencyWorker::run().                             *)

Lock(t) ==
  /\ wpc[t] = "lock"
  /\ \E request \in Requests(cpuOf[t]) :
       /\ locked' = [locked EXCEPT ![t] = Granted(request)]
       /\ mask' = [mask EXCEPT ![t] = IF Granted(request) THEN request ELSE @]
  /\ wpc' = [wpc EXCEPT ![t] = "save"]
  /\ UNCHANGED <<topology, rounds, mainMask, bench, cpuOf, saved, boosted,
                 class, overlapped>>

\* boost_scheduling_priority(): first the class is read ...
Save(t) ==
  /\ wpc[t] = "save"
  /\ wpc' = [wpc EXCEPT ![t] = "boost"]
  /\ saved' = [saved EXCEPT ![t] = class]
  /\ overlapped' =
       \/ overlapped
       \/ \E u \in Workers \ {t} : wpc[u] \in {"boost", "measure", "revert"}
  /\ UNCHANGED <<topology, rounds, mainMask, bench, cpuOf, mask, locked,
                 boosted, class>>

\* ... then it is raised.  On Linux only the niceness of the thread changes,
\* and only if the user may do that.
Boost(t) ==
  /\ wpc[t] = "boost"
  /\ wpc' = [wpc EXCEPT ![t] = "measure"]
  /\ class' = IF machine.os = "windows" THEN "high" ELSE class
  /\ boosted' = [boosted EXCEPT ![t] =
                   machine.os = "windows" \/ machine.privileged]
  /\ UNCHANGED <<topology, rounds, mainMask, bench, cpuOf, mask, locked, saved,
                 overlapped>>

\* The priming, the passes and the dummy passes; then the affinity is given up.
MeasureAndUnlock(t) ==
  /\ wpc[t] = "measure"
  /\ wpc' = [wpc EXCEPT ![t] = "revert"]
  /\ mask' = [mask EXCEPT ![t] = IF locked[t] THEN Unlocked(@) ELSE @]
  /\ UNCHANGED <<topology, rounds, mainMask, bench, cpuOf, locked, saved,
                 boosted, class, overlapped>>

\* Mutant: the class becomes that of a normal process, whatever it was.
ClassAssumed(t) == IF machine.os = "windows" THEN "normal" ELSE class

ClassReverted(t) == IF machine.os = "windows" THEN saved[t] ELSE class

\* revert_scheduling_priority(): nice(0) on Linux changes nothing.
Revert(t) ==
  /\ wpc[t] = "revert"
  /\ wpc' = [wpc EXCEPT ![t] = "done"]
  /\ class' = ClassReverted(t)
  /\ boosted' = [boosted EXCEPT ![t] = @ /\ machine.os = "linux"]
  /\ UNCHANGED <<topology, rounds, mainMask, bench, cpuOf, mask, locked, saved,
                 overlapped>>

Stopped ==
  /\ \/ query \in {"failed", "crashed"}
     \/ query = "done" /\ bench = Idle /\ rounds = MaxRounds
  /\ UNCHANGED vars

Next ==
  \/ QuerySysInfo /\ UNCHANGED placement
  \/ TestThreadAffinities
  \/ StartOnNode \/ StartOnWholeNode \/ StartOnCPU \/ Crash
  \/ Join
  \/ \E t \in Workers :
       Lock(t) \/ Save(t) \/ Boost(t) \/ MeasureAndUnlock(t) \/ Revert(t)
  \/ Stopped

Spec == Init /\ [][Next]_vars

-----------------------------------------------------------------------------

Active(t) == wpc[t] \in {"save", "boost", "measure"}

Pinned(t) == Active(t) /\ locked[t]

\* What lock_thread_to_cpu() can name on Windows.
Nameable(c) == machine.os = "linux" \/ c \in 0..IntBits-2

BenchWorkers == {t \in Workers : t < bench.size}

\* The CPUs the workers are locked to while all of them measure.
Occupied == UNION {mask[t] : t \in {u \in BenchWorkers : Pinned(u)}}

\* Every worker of a benchmark on a NUMA node that could be locked has a CPU
\* for itself, whatever the CPUs of the node are numbered like; and they take
\* the CPUs of the node and no other, each of them if there are enough workers
\* ("Set processor affinity", LoadWorker.cpp:137).  A worker too many is told
\* CPU -1 and stays unlocked.  On Windows this is so where an int has a bit
\* for the CPUs, and the process may run on them.
WorkersSpreadOverNode ==
  bench.kind \in {"node", "whole node"} =>
    /\ \A t, u \in BenchWorkers :
         /\ t # u /\ Pinned(t) /\ Pinned(u)
         /\ Nameable(cpuOf[t]) /\ Nameable(cpuOf[u])
         => mask[t] \cap mask[u] = {}
    /\ /\ machine.numa = "available"
       /\ machine.os = "windows" => NodeCPUs(bench.node) \subseteq machine.allowed
       /\ \A t \in BenchWorkers : Active(t) /\ Nameable(cpuOf[t])
       => /\ Occupied \subseteq NodeCPUs(bench.node)
          /\ Cardinality(Occupied) =
               Least(bench.size, Cardinality(NodeCPUs(bench.node)))

\* Where the packages of a machine are its nodes and no CPU is offline, a
\* throughput matrix measures a node with one worker on every CPU of it: what
\* query_sys_info() has read, what the BenchmarkManager counts in it ("find
\* out how many cores has the cpu NUMA node", BenchmarkManager.cpp:1282) and
\* what the workers lock themselves to are the same CPUs.
WholeNodeIsMeasured ==
  /\ bench.kind = "whole node"
  /\ machine.numa = "available"
  /\ machine.package = machine.node
  /\ Online = 0..Cardinality(Online)-1
  /\ \A t \in BenchWorkers : Active(t)
  => /\ Occupied = NodeCPUs(bench.node)
     /\ bench.size = Cardinality(Occupied)

\* "Reverts the scheduling priority of the calling thread." (common.h:595):
\* when the workers have ended the process has the priority it was started
\* with.
ClassRestored ==
  bench = Idle => class = machine.class

\* So it is as long as no two workers are between the raising and the
\* reverting of their priority at once; and a worker that is there alone is
\* never measured at any other priority than the high one.
ClassRestoredUnlessOverlapped ==
  ~overlapped =>
    /\ bench = Idle => class = machine.class
    /\ machine.os = "windows" =>
         \A t \in Workers : wpc[t] = "measure" => class = "high"
===============================================================================

--------------------------- MODULE Placement_proofs ---------------------------
(***************************************************************************)
(* Theorems about Placement, for any machines, numbered in any way, and    *)
(* any number of workers: the priority of the process is restored, the     *)
(* workers are spread over the CPUs of a node, and a whole node is a whole *)
(* node because query_sys_info() has read its CPUs right.                  *)
(***************************************************************************)
EXTENDS Placement, FiniteSetTheorems, TLAPS

-----------------------------------------------------------------------------
(* The priority.                                                           *)

\* Where a worker has read the class and has not restored it.
Busy == {"boost", "measure", "revert"}

\* No worker is under way between two iterations.
IdleIsQuiet ==
  bench = Idle => \A t \in Workers : wpc[t] \in {"none", "done"}

\* As long as no two workers have been busy at once, the one that is remembers
\* the class the process was started with, which the process has at every
\* moment but from its raising to its restoring.
ClassIsKept ==
  ~overlapped =>
    /\ \A t, u \in Workers : wpc[t] \in Busy /\ wpc[u] \in Busy => t = u
    /\ \A t \in Workers : wpc[t] \in Busy => saved[t] = machine.class
    /\ (\A t \in Workers : wpc[t] \notin Busy \ {"boost"}) =>
         class = machine.class
    /\ machine.os # "windows" => class = machine.class
    /\ machine.os = "windows" =>
         \A t \in Workers : wpc[t] \in Busy \ {"boost"} => class = "high"

Inv ==
  /\ wpc \in [Workers -> {"none", "lock", "save", "done"} \cup Busy]
  /\ DOMAIN saved = Workers
  /\ IdleIsQuiet
  /\ ClassIsKept
-----------------------------------------------------------------------------

LEMMA PriorityInit == Init => Inv
<1> SUFFICES ASSUME Init
             PROVE  Inv
  OBVIOUS
<1>1. wpc = [t \in Workers |-> "none"] /\ saved = [t \in Workers |-> class]
  BY DEF Init
<1>2. class = machine.class
  BY DEF Init
<1> QED
  BY <1>1, <1>2 DEF Inv, IdleIsQuiet, ClassIsKept, Busy

\* An iteration starts when all workers have ended, and the new ones have not
\* looked at the class yet.
LEMMA StartStep ==
  ASSUME Inv, bench = Idle, wpc' \in [Workers -> {"lock", "none"}],
         UNCHANGED <<saved, class, overlapped, machine>>, bench' # Idle
  PROVE  Inv'
<1>1. \A t \in Workers : wpc[t] \notin Busy /\ wpc'[t] \notin Busy
  BY DEF Inv, IdleIsQuiet, Busy
<1>2. IdleIsQuiet'
  BY DEF IdleIsQuiet
<1>3. ClassIsKept'
  BY <1>1 DEF Inv, ClassIsKept
<1> QED
  BY <1>2, <1>3 DEF Inv

LEMMA Starts ==
  ASSUME Inv, StartOnNode \/ StartOnWholeNode \/ StartOnCPU
  PROVE  Inv'
<1>1. bench = Idle /\ UNCHANGED <<saved, class, overlapped, machine>>
  BY DEF StartOnNode, StartOnWholeNode, StartOnCPU, Start, topology
<1>2. wpc' \in [Workers -> {"lock", "none"}]
  BY DEF StartOnNode, StartOnWholeNode, StartOnCPU, Start
<1>3. bench'.kind # "idle"
  <2>1. CASE StartOnNode
    BY <2>1 DEF StartOnNode, Start
  <2>2. CASE StartOnWholeNode
    <3>1. PICK n \in 0..numNodes-1 :
                 bench' = [kind |-> "whole node", node |-> n,
                           size |-> Cardinality(CPUsInCPUNode(n))]
      BY <2>2, Zenon DEF StartOnWholeNode, Start
    <3> QED
      BY <3>1
  <2>3. CASE StartOnCPU
    BY <2>3 DEF StartOnCPU, Start
  <2> QED
    BY <2>1, <2>2, <2>3
<1>4. bench' # Idle
  BY <1>3 DEF Idle
<1> QED
  BY <1>1, <1>2, <1>4, StartStep

\* What leaves priorities and the stages of workers alone.
LEMMA OtherSteps ==
  ASSUME Inv, UNCHANGED <<wpc, saved, class, overlapped>>,
         machine' = machine, bench' = Idle => IdleIsQuiet'
  PROVE  Inv'
BY DEF Inv, IdleIsQuiet, ClassIsKept

LEMMA WorkerStep ==
  ASSUME Inv, NEW t \in Workers,
         Lock(t) \/ Save(t) \/ Boost(t) \/ MeasureAndUnlock(t) \/ Revert(t)
  PROVE  Inv'
<1>0. machine' = machine /\ bench' = bench /\ wpc[t] \notin {"none", "done"}
  BY DEF Lock, Save, Boost, MeasureAndUnlock, Revert, topology
<1>1. bench' # Idle
  BY <1>0 DEF Inv, IdleIsQuiet
<1>2. CASE Lock(t)
  <2>1. wpc' = [wpc EXCEPT ![t] = "save"] /\ wpc[t] = "lock"
        /\ UNCHANGED <<saved, class, overlapped>>
    BY <1>2 DEF Lock
  <2>2. \A u \in Workers : wpc'[u] \in Busy <=> wpc[u] \in Busy
    BY <2>1 DEF Inv, Busy
  <2>3. \A u \in Workers : wpc'[u] \in Busy => wpc'[u] = wpc[u]
    BY <2>1, <2>2 DEF Inv, Busy
  <2>4. ClassIsKept'
    BY <1>0, <2>1, <2>2, <2>3 DEF Inv, ClassIsKept, Busy
  <2> QED
    BY <1>1, <2>1, <2>4 DEF Inv, IdleIsQuiet
<1>3. CASE Save(t)
  <2>1. /\ wpc' = [wpc EXCEPT ![t] = "boost"] /\ wpc[t] = "save"
        /\ saved' = [saved EXCEPT ![t] = class]
        /\ overlapped' = (\/ overlapped
                          \/ \E u \in Workers \ {t} : wpc[u] \in Busy)
        /\ class' = class
    BY <1>3 DEF Save, Busy
  <2>2. ASSUME ~overlapped'
        PROVE  /\ ~overlapped
               /\ \A u \in Workers : wpc[u] \notin Busy
               /\ \A u \in Workers : wpc'[u] \in Busy => u = t
               /\ class = machine.class
               /\ saved'[t] = class
    BY <2>1, <2>2 DEF Inv, ClassIsKept, Busy
  <2>3. ClassIsKept'
    BY <1>0, <2>1, <2>2 DEF Inv, ClassIsKept, Busy
  <2> QED
    BY <1>1, <2>1, <2>3 DEF Inv, IdleIsQuiet, Busy
<1>4. CASE Boost(t)
  <2>1. /\ wpc' = [wpc EXCEPT ![t] = "measure"] /\ wpc[t] = "boost"
        /\ class' = IF machine.os = "windows" THEN "high" ELSE class
        /\ UNCHANGED <<saved, overlapped>>
    BY <1>4 DEF Boost
  <2>2. \A u \in Workers : wpc'[u] \in Busy <=> wpc[u] \in Busy
    BY <2>1 DEF Inv, Busy
  <2>3. ClassIsKept'
    BY <1>0, <2>1, <2>2 DEF Inv, ClassIsKept, Busy
  <2> QED
    BY <1>1, <2>1, <2>3 DEF Inv, IdleIsQuiet, Busy
<1>5. CASE MeasureAndUnlock(t)
  <2>1. /\ wpc' = [wpc EXCEPT ![t] = "revert"] /\ wpc[t] = "measure"
        /\ UNCHANGED <<saved, class, overlapped>>
    BY <1>5 DEF MeasureAndUnlock
  <2>2. \A u \in Workers :
          /\ wpc'[u] \in Busy <=> wpc[u] \in Busy
          /\ wpc'[u] \in Busy \ {"boost"} <=> wpc[u] \in Busy \ {"boost"}
    BY <2>1 DEF Inv, Busy
  <2>3. ClassIsKept'
    BY <1>0, <2>1, <2>2 DEF Inv, ClassIsKept
  <2> QED
    BY <1>1, <2>1, <2>3 DEF Inv, IdleIsQuiet, Busy
<1>6. CASE Revert(t)
  <2>1. /\ wpc' = [wpc EXCEPT ![t] = "done"] /\ wpc[t] = "revert"
        /\ class' = IF machine.os = "windows" THEN saved[t] ELSE class
        /\ UNCHANGED <<saved, overlapped>>
    BY <1>6 DEF Revert, ClassReverted
  <2>2. ASSUME ~overlapped
        PROVE  /\ saved[t] = machine.class
               /\ \A u \in Workers : wpc'[u] \notin Busy
               /\ machine.os # "windows" => class = machine.class
    BY <2>1, <2>2 DEF Inv, ClassIsKept, Busy
  <2>3. ClassIsKept'
    BY <1>0, <2>1, <2>2 DEF Inv, ClassIsKept, Busy
  <2> QED
    BY <1>1, <2>1, <2>3 DEF Inv, IdleIsQuiet
<1> QED
  BY <1>2, <1>3, <1>4, <1>5, <1>6

LEMMA PriorityStep == Inv /\ [Next]_vars => Inv'
<1> SUFFICES ASSUME Inv, [Next]_vars
             PROVE  Inv'
  OBVIOUS
<1>1. CASE QuerySysInfo /\ UNCHANGED placement
  <2>1. machine' = machine
    BY <1>1 DEF QuerySysInfo, QueryNodes, CountPackages, CountCores,
                MapPackages, QueryWindows
  <2>2. UNCHANGED <<wpc, saved, class, overlapped, bench>>
    BY <1>1 DEF placement, workers
  <2> QED
    BY <2>1, <2>2, OtherSteps DEF Inv, IdleIsQuiet
<1>2. CASE TestThreadAffinities \/ Crash
  <2>1. UNCHANGED <<wpc, saved, class, overlapped, bench, machine>>
    BY <1>2 DEF TestThreadAffinities, Crash, placement, workers, topology
  <2> QED
    BY <2>1, OtherSteps DEF Inv, IdleIsQuiet
<1>3. CASE StartOnNode \/ StartOnWholeNode \/ StartOnCPU
  BY <1>3, Starts
<1>4. CASE Join
  <2>1. UNCHANGED <<wpc, saved, class, overlapped, machine>>
    BY <1>4 DEF Join, workers, topology
  <2>2. IdleIsQuiet'
    BY <1>4, <2>1 DEF Join, IdleIsQuiet
  <2> QED
    BY <2>1, <2>2, OtherSteps
<1>5. CASE \E t \in Workers :
             Lock(t) \/ Save(t) \/ Boost(t) \/ MeasureAndUnlock(t) \/ Revert(t)
  BY <1>5, WorkerStep
<1>6. CASE Stopped \/ UNCHANGED vars
  <2>1. UNCHANGED <<wpc, saved, class, overlapped, bench, machine>>
    BY <1>6 DEF Stopped, vars, placement, workers, topology
  <2> QED
    BY <2>1, OtherSteps DEF Inv, IdleIsQuiet
<1> QED
  BY <1>1, <1>2, <1>3, <1>4, <1>5, <1>6 DEF Next

\* The invariant of the priorities.
THEOREM Invariance == Spec => []Inv
BY PriorityInit, PriorityStep, PTL DEF Spec

\* With workers that raise and revert their priority one after the other, on
\* any machine, the process has its own priority class again after every
\* iteration, and on Windows each of them is measured at the high one.
THEOREM PriorityRestored == Spec => []ClassRestoredUnlessOverlapped
<1>1. Inv => ClassRestoredUnlessOverlapped
  BY DEF Inv, IdleIsQuiet, ClassIsKept, Busy, ClassRestoredUnlessOverlapped
<1> QED
  BY <1>1, Invariance, PTL


-----------------------------------------------------------------------------
(* The CPUs of a set in the order of their numbers.                        *)

Rank(S, c) == Cardinality({d \in S : d < c})

\* There are fewer smaller members than members, and more of them below a
\* larger one.
LEMMA Ranks ==
  ASSUME NEW S, S \subseteq Nat, IsFiniteSet(S)
  PROVE  /\ Cardinality(S) \in Nat
         /\ \A c \in S : Rank(S, c) \in 0..Cardinality(S)-1
         /\ \A c, e \in S : c < e => Rank(S, c) < Rank(S, e)
<1>1. Cardinality(S) \in Nat
  BY FS_CardinalityType
<1>2. ASSUME NEW c \in S
      PROVE  /\ IsFiniteSet({d \in S : d < c})
             /\ Rank(S, c) \in 0..Cardinality(S)-1
  <2> DEFINE B == {d \in S : d < c}
  <2>1. B \in SUBSET S /\ c \notin B
    OBVIOUS
  <2>2. IsFiniteSet(B) /\ Cardinality(B) <= Cardinality(S)
    BY <2>1, FS_Subset
  <2>3. Cardinality(B) # Cardinality(S)
    BY <2>1, FS_Subset
  <2>4. Cardinality(B) \in Nat
    BY <2>2, FS_CardinalityType
  <2> QED  BY <1>1, <2>2, <2>3, <2>4 DEF Rank
<1>3. ASSUME NEW c \in S, NEW e \in S, c < e
      PROVE  Rank(S, c) < Rank(S, e)
  <2> DEFINE B == {d \in S : d < c}
             E == {d \in S : d < e}
  <2>1. IsFiniteSet(B) /\ IsFiniteSet(E)
    BY <1>2
  <2>2. B \cup {c} \in SUBSET E /\ c \notin B
    <3>1. c \in Nat /\ e \in Nat /\ \A d \in S : d \in Nat
      OBVIOUS
    <3>2. \A d \in S : d < c => d < e
      BY <1>3, <3>1
    <3>3. c \in E /\ B \subseteq E
      BY <1>3, <3>2
    <3>4. ~(c < c)
      BY <3>1
    <3> QED  BY <3>3, <3>4
  <2>3. Cardinality(B \cup {c}) = Cardinality(B) + 1
    <3> HIDE DEF B
    <3> QED  BY <2>1, <2>2, FS_AddElement
  <2>4. Cardinality(B \cup {c}) <= Cardinality(E)
    <3> HIDE DEF B, E
    <3> QED  BY <2>1, <2>2, FS_Subset
  <2>5. Cardinality(B) \in Nat /\ Cardinality(E) \in Nat
    BY <2>1, FS_CardinalityType
  <2> QED  BY <2>3, <2>4, <2>5 DEF Rank
<1> QED  BY <1>1, <1>2, <1>3

\* Every rank there can be is that of one member.
LEMMA RankIsOnto ==
  ASSUME NEW S, S \subseteq Nat, IsFiniteSet(S), NEW k \in 0..Cardinality(S)-1
  PROVE  \E c \in S : Rank(S, c) = k /\ \A e \in S : Rank(S, e) = k => e = c
<1> DEFINE T == 0..Cardinality(S)-1
           f == [c \in S |-> Rank(S, c)]
<1>1. /\ Cardinality(S) \in Nat /\ f \in [S -> T]
      /\ \A c, e \in S : c < e => Rank(S, c) < Rank(S, e)
      /\ \A c \in S : Rank(S, c) \in Int
  <2>1. /\ Cardinality(S) \in Nat
        /\ \A c \in S : Rank(S, c) \in T
        /\ \A c, e \in S : c < e => Rank(S, c) < Rank(S, e)
    BY Ranks
  <2>2. f \in [S -> T]
    BY <2>1
  <2> QED  BY <2>1, <2>2
<1>2. \A c, e \in S : Rank(S, c) = Rank(S, e) => c = e
  <2>1. ASSUME NEW c \in S, NEW e \in S, Rank(S, c) = Rank(S, e), c # e
        PROVE  FALSE
    <3>1. c < e \/ e < c
      BY <2>1
    <3> QED  BY <1>1, <2>1, <3>1
  <2> QED  BY <2>1
<1>3. f \in Injection(S, T)
  BY <1>1, <1>2 DEF Injection, IsInjective
<1>4. IsFiniteSet(T) /\ Cardinality(T) = Cardinality(S)
  BY <1>1, FS_Interval
<1>5. f \in Surjection(S, T)
  <2> HIDE DEF f, T
  <2> QED  BY <1>3, <1>4, FS_Injection
<1>6. PICK c \in S : f[c] = k
  BY <1>5 DEF Surjection
<1> QED  BY <1>2, <1>6

LEMMA NodeCPUsFinite ==
  ASSUME IsMachine(machine), NEW n
  PROVE  /\ NodeCPUs(n) \subseteq Online /\ NodeCPUs(n) \subseteq Nat
         /\ IsFiniteSet(NodeCPUs(n)) /\ Cardinality(NodeCPUs(n)) \in Nat
<1>1. Online \subseteq Nat /\ IsFiniteSet(Online)
  BY DEF IsMachine, Online
<1>2. NodeCPUs(n) \in SUBSET Online
  BY DEF NodeCPUs
<1>3. IsFiniteSet(NodeCPUs(n))
  BY <1>1, <1>2, FS_Subset
<1> QED  BY <1>1, <1>2, <1>3, FS_CardinalityType

\* cpu_id_in_numa_node() counts through the CPUs of a node, and then says
\* that there are no more.
LEMMA CPUOfRank ==
  ASSUME IsMachine(machine), machine.numa # "none", NEW n, NEW k \in Nat
  PROVE  /\ k < Cardinality(NodeCPUs(n)) =>
              /\ CPUIdInNumaNode(n, k) \in NodeCPUs(n)
              /\ Rank(NodeCPUs(n), CPUIdInNumaNode(n, k)) = k
         /\ k >= Cardinality(NodeCPUs(n)) => CPUIdInNumaNode(n, k) = -1
<1> DEFINE S == NodeCPUs(n)
<1>1. S \subseteq Nat /\ IsFiniteSet(S) /\ Cardinality(S) \in Nat
  BY NodeCPUsFinite
<1>2. AtRank(n, k) = {c \in S : Rank(S, c) = k}
  BY DEF AtRank, Rank
<1>3. CPUIdInNumaNode(n, k) =
        IF AtRank(n, k) = {} THEN -1 ELSE CHOOSE c \in AtRank(n, k) : TRUE
  BY DEF CPUIdInNumaNode
<1>4. CASE k < Cardinality(S)
  <2>1. AtRank(n, k) # {}
    <3> HIDE DEF S
    <3>1. k \in 0..Cardinality(S)-1
      BY <1>1, <1>4
    <3> QED  BY <1>1, <1>2, <3>1, RankIsOnto
  <2>2. CPUIdInNumaNode(n, k) \in AtRank(n, k)
    BY <1>3, <2>1
  <2> QED  BY <1>1, <1>2, <1>4, <2>2
<1>5. CASE k >= Cardinality(S)
  <2>1. \A c \in S : Rank(S, c) # k
    <3> HIDE DEF S
    <3>1. \A c \in S : Rank(S, c) \in 0..Cardinality(S)-1
      BY <1>1, Ranks
    <3> QED  BY <1>1, <1>5, <3>1
  <2> QED  BY <1>1, <1>2, <1>3, <1>5, <2>1
<1> QED  BY <1>1, <1>4, <1>5

\* It names no CPU twice.
LEMMA DifferentCPUs ==
  ASSUME IsMachine(machine), NEW n, NEW j \in Nat, NEW k \in Nat,
         CPUIdInNumaNode(n, j) = CPUIdInNumaNode(n, k),
         CPUIdInNumaNode(n, j) # -1
  PROVE  j = k
<1>1. CASE machine.numa = "none"
  BY <1>1 DEF CPUIdInNumaNode
<1>2. CASE machine.numa # "none"
  <2>1. Cardinality(NodeCPUs(n)) \in Nat
    BY NodeCPUsFinite
  <2>2. /\ Rank(NodeCPUs(n), CPUIdInNumaNode(n, j)) = j
        /\ Rank(NodeCPUs(n), CPUIdInNumaNode(n, k)) = k
    BY <1>2, <2>1, CPUOfRank
  <2> QED  BY <2>2
<1> QED  BY <1>1, <1>2


-----------------------------------------------------------------------------
(* Where the workers run.                                                  *)

\* How the affinity of a worker came about, while it relies on it.
LockAt(t) ==
  Active(t) =>
    \E request \in Requests(cpuOf[t]) :
      /\ locked[t] = Granted(request)
      /\ locked[t] => mask[t] = request

OnNode == {"node", "whole node"}

SpreadInv ==
  /\ machine \in Machines
  /\ bench.size \in 0..MaxWorkers
  /\ cpuOf = [t \in Workers |-> cpuOf[t]]
  /\ mask = [t \in Workers |-> mask[t]]
  /\ locked = [t \in Workers |-> locked[t]]
  /\ wpc = [t \in Workers |-> wpc[t]]
  /\ bench.kind \in OnNode =>
       \A t \in BenchWorkers : cpuOf[t] = CPUIdInNumaNode(bench.node, t)
  /\ \A t \in Workers : LockAt(t)

\* What depends on the machine alone.
LEMMA SameMachine ==
  ASSUME machine' = machine
  PROVE  /\ \A n, t : CPUIdInNumaNode(n, t)' = CPUIdInNumaNode(n, t)
         /\ \A c : Requests(c)' = Requests(c)
         /\ \A r : Granted(r)' <=> Granted(r)
BY DEF CPUIdInNumaNode, AtRank, NodeCPUs, Online, Requests, ShiftedMasks,
       Granted

LEMMA MachineStays == [Next]_vars => machine' = machine
BY DEF Next, vars, topology, QuerySysInfo, QueryNodes, CountPackages,
       CountCores, MapPackages, QueryWindows, TestThreadAffinities,
       StartOnNode, StartOnWholeNode, StartOnCPU, Start, Crash, Join, Lock,
       Save, Boost, MeasureAndUnlock, Revert, Stopped

LEMMA SpreadInit == Init => SpreadInv
<1> SUFFICES ASSUME Init PROVE SpreadInv
  OBVIOUS
<1>1. /\ machine \in Machines /\ bench = Idle
      /\ wpc = [t \in Workers |-> "none"] /\ cpuOf = [t \in Workers |-> 0]
      /\ mask = [t \in Workers |-> {}] /\ locked = [t \in Workers |-> FALSE]
  BY DEF Init, InitTopology
<1>2. bench.size \in 0..MaxWorkers /\ bench.kind \notin OnNode
  BY <1>1, PlacementAssumption DEF Idle, OnNode
<1>3. \A t \in Workers : ~Active(t)
  BY <1>1 DEF Active
<1> QED  BY <1>1, <1>2, <1>3 DEF SpreadInv, LockAt

\* The workers of an iteration on a node are told the CPUs of the node in
\* their order, and none of them is locked yet.
LEMMA SpreadStart ==
  ASSUME SpreadInv, StartOnNode \/ StartOnWholeNode \/ StartOnCPU
  PROVE  SpreadInv'
<1>1. machine' = machine
  BY MachineStays DEF Next
<1>2. /\ mask' = [t \in Workers |-> mask'[t]]
      /\ locked' = [t \in Workers |-> locked'[t]]
      /\ wpc' = [t \in Workers |-> wpc'[t]]
      /\ cpuOf' = [t \in Workers |-> cpuOf'[t]]
  BY DEF StartOnNode, StartOnWholeNode, StartOnCPU, Start
<1>3. \A t \in Workers : wpc'[t] \in {"lock", "none"}
  BY DEF StartOnNode, StartOnWholeNode, StartOnCPU, Start
<1>4. \A t \in Workers : LockAt(t)'
  BY <1>3 DEF LockAt, Active
<1>5. CASE StartOnCPU
  <2>1. \E size \in 1..MaxWorkers :
          bench' = [kind |-> "cpu", node |-> 0, size |-> size]
    BY <1>5 DEF StartOnCPU, Start
  <2>2. bench'.size \in 0..MaxWorkers /\ bench'.kind \notin OnNode
    BY <2>1, PlacementAssumption DEF OnNode
  <2> QED  BY <1>1, <1>2, <1>4, <2>2 DEF SpreadInv
<1>6. CASE StartOnNode \/ StartOnWholeNode
  <2>1. \E kind \in OnNode, n \in 0..numNodes-1, size \in 1..MaxWorkers :
          /\ bench' = [kind |-> kind, node |-> n, size |-> size]
          /\ cpuOf' = [t \in Workers |-> IF t < size THEN CPUIdInNumaNode(n, t)
                                                     ELSE cpuOf[t]]
    <3>1. CASE StartOnNode
      <4>1. \E n \in 0..numNodes-1, size \in 1..numCPUs :
              /\ size \in 1..MaxWorkers
              /\ bench' = [kind |-> "node", node |-> n, size |-> size]
              /\ cpuOf' = [t \in Workers |->
                            IF t < size THEN CPUIdInNumaNode(n, t) ELSE cpuOf[t]]
        BY <3>1 DEF StartOnNode, Start
      <4> QED  BY <4>1, Zenon DEF OnNode
    <3>2. CASE StartOnWholeNode
      BY <3>2, Zenon DEF StartOnWholeNode, Start, OnNode
    <3> QED  BY <1>6, <3>1, <3>2
  <2>2. PICK kind \in OnNode, n \in 0..numNodes-1, size \in 1..MaxWorkers :
          /\ bench' = [kind |-> kind, node |-> n, size |-> size]
          /\ cpuOf' = [t \in Workers |-> IF t < size THEN CPUIdInNumaNode(n, t)
                                                     ELSE cpuOf[t]]
    BY <2>1
  <2>3. bench'.size = size /\ bench'.node = n /\ size \in 0..MaxWorkers
    BY <2>2, PlacementAssumption
  <2>4. \A t \in BenchWorkers' : cpuOf'[t] = CPUIdInNumaNode(bench.node, t)'
    <3>1. BenchWorkers' = {t \in Workers : t < size}
      BY <2>3 DEF BenchWorkers, Workers
    <3>2. \A t : CPUIdInNumaNode(bench.node, t)' = CPUIdInNumaNode(n, t)
      BY <1>1, <2>3 DEF CPUIdInNumaNode, AtRank, NodeCPUs, Online
    <3> QED  BY <2>2, <3>1, <3>2
  <2> QED  BY <1>1, <1>2, <1>4, <2>3, <2>4 DEF SpreadInv
<1> QED  BY <1>5, <1>6

\* A worker asks for its own CPU and for no other, before it measures.
LEMMA SpreadWorker ==
  ASSUME SpreadInv, NEW t \in Workers,
         Lock(t) \/ Save(t) \/ Boost(t) \/ MeasureAndUnlock(t) \/ Revert(t)
  PROVE  SpreadInv'
<1>1. machine' = machine /\ bench' = bench /\ cpuOf' = cpuOf
  BY DEF Lock, Save, Boost, MeasureAndUnlock, Revert, topology
<1>2. /\ \A n, u : CPUIdInNumaNode(n, u)' = CPUIdInNumaNode(n, u)
      /\ \A c : Requests(c)' = Requests(c)
      /\ \A r : Granted(r)' <=> Granted(r)
  BY <1>1, SameMachine
<1>3. SUFFICES /\ mask' = [u \in Workers |-> mask'[u]]
               /\ locked' = [u \in Workers |-> locked'[u]]
               /\ wpc' = [u \in Workers |-> wpc'[u]]
               /\ LockAt(t)'
               /\ \A u \in Workers : u # t =>
                    mask'[u] = mask[u] /\ locked'[u] = locked[u] /\ wpc'[u] = wpc[u]
  <2>1. ASSUME NEW u \in Workers PROVE LockAt(u)'
    BY <1>1, <1>2, <1>3, ZenonT(30) DEF SpreadInv, LockAt, Active
  <2>2. \A u : CPUIdInNumaNode(bench.node, u)' = CPUIdInNumaNode(bench.node, u)
    BY <1>1 DEF CPUIdInNumaNode, AtRank, NodeCPUs, Online
  <2> QED
    BY <1>1, <1>3, <2>1, <2>2 DEF SpreadInv, BenchWorkers, Workers
<1>4. CASE Lock(t)
  <2>1. PICK request \in Requests(cpuOf[t]) :
          /\ locked' = [locked EXCEPT ![t] = Granted(request)]
          /\ mask' = [mask EXCEPT ![t] = IF Granted(request) THEN request ELSE @]
    BY <1>4 DEF Lock
  <2>2. wpc' = [wpc EXCEPT ![t] = "save"]
    BY <1>4 DEF Lock
  <2>3. locked'[t] = Granted(request) /\ (Granted(request) => mask'[t] = request)
    BY <2>1 DEF SpreadInv
  <2>4. LockAt(t)'
    BY <1>1, <1>2, <2>1, <2>3, Zenon DEF LockAt
  <2> QED  BY <2>1, <2>2, <2>4 DEF SpreadInv
<1>5. CASE Save(t) \/ Boost(t)
  <2>1. /\ UNCHANGED <<mask, locked>> /\ Active(t)
        /\ \E s \in {"boost", "measure"} : wpc' = [wpc EXCEPT ![t] = s]
    BY <1>5 DEF Save, Boost, Active
  <2> QED  BY <1>1, <1>2, <2>1 DEF SpreadInv, LockAt
<1>6. CASE MeasureAndUnlock(t)
  <2>1. /\ wpc' = [wpc EXCEPT ![t] = "revert"] /\ locked' = locked
        /\ mask' = [mask EXCEPT ![t] = IF locked[t] THEN Unlocked(@) ELSE @]
    BY <1>6 DEF MeasureAndUnlock
  <2> QED  BY <2>1 DEF SpreadInv, LockAt, Active
<1>7. CASE Revert(t)
  <2>1. wpc' = [wpc EXCEPT ![t] = "done"] /\ UNCHANGED <<locked, mask>>
    BY <1>7 DEF Revert
  <2> QED  BY <2>1 DEF SpreadInv, LockAt, Active
<1> QED  BY <1>4, <1>5, <1>6, <1>7

LEMMA SpreadStep == SpreadInv /\ [Next]_vars => SpreadInv'
<1> SUFFICES ASSUME SpreadInv, [Next]_vars
             PROVE  SpreadInv'
  OBVIOUS
<1>1. machine' = machine
  BY MachineStays
<1>2. ASSUME UNCHANGED <<wpc, cpuOf, mask, locked>>, bench' \in {bench, Idle}
      PROVE  SpreadInv'
  <2>1. /\ \A n, u : CPUIdInNumaNode(n, u)' = CPUIdInNumaNode(n, u)
        /\ \A c : Requests(c)' = Requests(c)
        /\ \A r : Granted(r)' <=> Granted(r)
    BY <1>1, SameMachine
  <2>2. ASSUME NEW t \in Workers PROVE LockAt(t)'
    BY <1>2, <2>1 DEF SpreadInv, LockAt, Active
  <2>3. CASE bench' = bench
    <3>1. \A u : CPUIdInNumaNode(bench.node, u)' = CPUIdInNumaNode(bench.node, u)
      BY <1>1, <2>3 DEF CPUIdInNumaNode, AtRank, NodeCPUs, Online
    <3> QED
      BY <1>1, <1>2, <2>2, <2>3, <3>1 DEF SpreadInv, BenchWorkers, Workers
  <2>4. CASE bench' = Idle
    <3>1. bench'.size = 0 /\ bench'.kind \notin OnNode
      BY <2>4 DEF Idle, OnNode
    <3> QED
      BY <1>1, <1>2, <2>2, <3>1, PlacementAssumption DEF SpreadInv
  <2> QED  BY <1>2, <2>3, <2>4
<1>3. CASE QuerySysInfo /\ UNCHANGED placement
  BY <1>2, <1>3 DEF placement, workers
<1>4. CASE TestThreadAffinities \/ Crash \/ Join
  BY <1>2, <1>4 DEF TestThreadAffinities, Crash, Join, placement, workers
<1>5. CASE StartOnNode \/ StartOnWholeNode \/ StartOnCPU
  BY <1>5, SpreadStart
<1>6. CASE \E t \in Workers :
             Lock(t) \/ Save(t) \/ Boost(t) \/ MeasureAndUnlock(t) \/ Revert(t)
  BY <1>6, SpreadWorker
<1>7. CASE Stopped \/ UNCHANGED vars
  BY <1>2, <1>7 DEF Stopped, vars, placement, workers
<1> QED
  BY <1>3, <1>4, <1>5, <1>6, <1>7 DEF Next

\* A worker that relies on its lock and whose CPU has a name runs on this CPU
\* only; and if the process may run there it is locked.
LEMMA LockedToItsCPU ==
  ASSUME SpreadInv, NEW t \in Workers, Active(t), Nameable(cpuOf[t])
  PROVE  /\ locked[t] => mask[t] = {cpuOf[t]} /\ cpuOf[t] # -1
         /\ machine.os = "linux" => (locked[t] <=> cpuOf[t] \in Online)
         /\ /\ cpuOf[t] \in Online
            /\ machine.os = "windows" => cpuOf[t] \in machine.allowed
            => locked[t]
<1>1. IsMachine(machine)
  BY TopologyAssumption DEF SpreadInv
<1>2. machine.os \in {"linux", "windows"} /\ Online \subseteq Nat
  BY <1>1 DEF IsMachine, Online
<1>3. PICK request \in Requests(cpuOf[t]) :
        locked[t] = Granted(request) /\ (locked[t] => mask[t] = request)
  BY DEF SpreadInv, LockAt
<1>4. CASE machine.os = "linux"
  <2>1. request = {cpuOf[t]} \cap Online
    BY <1>3, <1>4 DEF Requests
  <2>2. Granted(request) <=> request # {}
    BY <1>4 DEF Granted
  <2>3. -1 \notin Online
    BY <1>2
  <2> QED  BY <1>3, <1>4, <2>1, <2>2, <2>3
<1>5. CASE machine.os = "windows"
  <2>1. cpuOf[t] \in 0..IntBits-2
    BY <1>5 DEF Nameable
  <2>2. request = {cpuOf[t]}
    <3>1. ShiftedMasks(cpuOf[t]) = {{cpuOf[t]}}
      <4>1. cpuOf[t] # IntBits - 1
        BY <2>1, PlacementAssumption
      <4> QED  BY <2>1, <4>1 DEF ShiftedMasks
    <3>2. Requests(cpuOf[t]) = ShiftedMasks(cpuOf[t])
      BY <1>5 DEF Requests
    <3> QED  BY <1>3, <3>1, <3>2
  <2>3. Granted(request) <=> cpuOf[t] \in machine.allowed
    BY <1>5, <2>2 DEF Granted
  <2>4. cpuOf[t] # -1
    BY <2>1, PlacementAssumption
  <2> QED  BY <1>3, <1>5, <2>2, <2>3, <2>4
<1> QED  BY <1>2, <1>4, <1>5

\* The workers of a benchmark on a node occupy the CPUs of the node, each its
\* own, as far as there are CPUs.
LEMMA NodeIsOccupied ==
  ASSUME SpreadInv, bench.kind \in OnNode, machine.numa = "available",
         machine.os = "windows" => NodeCPUs(bench.node) \subseteq machine.allowed,
         \A t \in BenchWorkers : Active(t) /\ Nameable(cpuOf[t])
  PROVE  /\ Occupied \subseteq NodeCPUs(bench.node)
         /\ Cardinality(Occupied) =
              Least(bench.size, Cardinality(NodeCPUs(bench.node)))
<1> DEFINE N == NodeCPUs(bench.node)
           CPUAt(k) == CPUIdInNumaNode(bench.node, k)
           m == Least(bench.size, Cardinality(N))
           f == [k \in 0..m-1 |-> CPUAt(k)]
<1>1. IsMachine(machine) /\ bench.size \in 0..MaxWorkers /\ MaxWorkers \in Nat
  BY TopologyAssumption, PlacementAssumption DEF SpreadInv
<1>2. N \subseteq Online /\ IsFiniteSet(N) /\ Cardinality(N) \in Nat
      /\ Online \subseteq Nat /\ machine.os \in {"linux", "windows"}
  BY <1>1, NodeCPUsFinite DEF IsMachine, Online
<1>3. m \in Nat /\ m <= bench.size /\ m <= Cardinality(N)
  BY <1>1, <1>2 DEF Least
<1>4. BenchWorkers = 0..bench.size-1
  BY <1>1 DEF BenchWorkers, Workers
<1>5. \A t \in BenchWorkers : cpuOf[t] = CPUAt(t)
  BY DEF SpreadInv
<1>6. ASSUME NEW k \in 0..m-1
      PROVE  CPUAt(k) \in N /\ Pinned(k) /\ mask[k] = {CPUAt(k)}
  <2>1. k \in Nat /\ k < Cardinality(N) /\ k \in BenchWorkers /\ k \in Workers
    BY <1>1, <1>2, <1>3, <1>4 DEF BenchWorkers
  <2>2. CPUAt(k) \in N
    BY <1>1, <2>1, CPUOfRank
  <2>3. cpuOf[k] = CPUAt(k) /\ Active(k) /\ Nameable(cpuOf[k])
    BY <1>5, <2>1
  <2>4. cpuOf[k] \in Online
        /\ (machine.os = "windows" => cpuOf[k] \in machine.allowed)
    BY <1>2, <2>2, <2>3
  <2>5. locked[k] /\ mask[k] = {cpuOf[k]}
    BY <2>1, <2>3, <2>4, LockedToItsCPU
  <2> QED  BY <2>2, <2>3, <2>5 DEF Pinned
<1>7. ASSUME NEW t \in BenchWorkers, t \notin 0..m-1
      PROVE  ~Pinned(t)
  <2>1. t \in Nat /\ t >= Cardinality(N) /\ t \in Workers
    BY <1>1, <1>2, <1>4, <1>7 DEF Least, BenchWorkers
  <2>2. cpuOf[t] = -1
    BY <1>1, <1>5, <2>1, CPUOfRank
  <2>3. Active(t) /\ Nameable(cpuOf[t])
    OBVIOUS
  <2>4. ~locked[t]
    BY <2>1, <2>2, <2>3, LockedToItsCPU
  <2> QED  BY <2>4 DEF Pinned
<1>8. Occupied = {CPUAt(k) : k \in 0..m-1}
  <2>1. {u \in BenchWorkers : Pinned(u)} = 0..m-1
    <3>1. 0..m-1 \subseteq BenchWorkers
      BY <1>1, <1>3, <1>4
    <3> QED  BY <1>6, <1>7, <3>1
  <2>2. Occupied = UNION {mask[t] : t \in 0..m-1}
    BY <2>1 DEF Occupied
  <2> HIDE DEF m
  <2>3. UNION {mask[t] : t \in 0..m-1} = {CPUAt(k) : k \in 0..m-1}
    BY <1>6
  <2> QED  BY <2>2, <2>3
<1>9. Occupied \subseteq N
  BY <1>6, <1>8
<1>10. f \in Bijection(0..m-1, Occupied)
  <2>1. f \in [0..m-1 -> Occupied]
    BY <1>8
  <2>2. \A a, b \in 0..m-1 : f[a] = f[b] => a = b
    <3>1. ASSUME NEW a \in 0..m-1, NEW b \in 0..m-1, CPUAt(a) = CPUAt(b)
          PROVE  a = b
      <4>1. a \in Nat /\ b \in Nat
        BY <1>3
      <4>2. CPUAt(a) # -1
        BY <1>2, <1>6
      <4> QED  BY <1>1, <3>1, <4>1, <4>2, DifferentCPUs
    <3> QED  BY <3>1
  <2>3. \A c \in Occupied : \E a \in 0..m-1 : f[a] = c
    BY <1>8
  <2> HIDE DEF f, m
  <2> QED  BY <2>1, <2>2, <2>3 DEF Bijection, Injection, Surjection, IsInjective
<1>11. Cardinality(Occupied) = m
  <2> HIDE DEF f, m
  <2>1. IsFiniteSet(0..m-1) /\ Cardinality(0..m-1) = m
    BY <1>3, FS_Interval
  <2> QED  BY <1>10, <2>1, FS_Bijection DEF ExistsBijection
<1> QED  BY <1>9, <1>11

\* lock_thread_to_cpu() and cpu_id_in_numa_node() together spread the workers
\* over the CPUs of the node, on any machine, however its CPUs are numbered.
THEOREM WorkersAreSpread == Spec => []WorkersSpreadOverNode
<1>1. ASSUME SpreadInv, bench.kind \in OnNode,
             NEW t \in BenchWorkers, NEW u \in BenchWorkers, t # u,
             Pinned(t), Pinned(u), Nameable(cpuOf[t]), Nameable(cpuOf[u])
      PROVE  mask[t] \cap mask[u] = {}
  <2>1. /\ t \in Workers /\ u \in Workers /\ t \in Nat /\ u \in Nat
        /\ Active(t) /\ Active(u) /\ locked[t] /\ locked[u]
    BY <1>1, PlacementAssumption DEF BenchWorkers, Workers, Pinned
  <2>2. /\ mask[t] = {cpuOf[t]} /\ cpuOf[t] # -1
        /\ mask[u] = {cpuOf[u]} /\ cpuOf[u] # -1
    BY <1>1, <2>1, LockedToItsCPU
  <2>3. /\ cpuOf[t] = CPUIdInNumaNode(bench.node, t)
        /\ cpuOf[u] = CPUIdInNumaNode(bench.node, u)
    BY <1>1 DEF SpreadInv
  <2>4. IsMachine(machine)
    BY <1>1, TopologyAssumption DEF SpreadInv
  <2>5. cpuOf[t] # cpuOf[u]
    BY <1>1, <2>1, <2>2, <2>3, <2>4, DifferentCPUs
  <2> QED  BY <2>2, <2>5
<1>2. SpreadInv => WorkersSpreadOverNode
  BY <1>1, NodeIsOccupied DEF WorkersSpreadOverNode, OnNode
<1> QED  BY SpreadInit, SpreadStep, <1>2, PTL DEF Spec


-----------------------------------------------------------------------------
(* What query_sys_info() has read.                                         *)

\* No CPU is offline.
Contiguous == Online = 0..Cardinality(Online)-1

\* The three lines of each CPU are read one after the other, and the package
\* is stored under the processor number read last.
MapSoFar ==
  /\ packageOf = [c \in 0..numCPUs-1 |-> packageOf[c]]
  /\ pos \in 1..NumLines+1
  /\ eof => pos = NumLines + 1
  /\ pos % 3 = 2 => cpu = (pos - 1) \div 3
  /\ \A c \in 0..numCPUs-1 : 3 * c + 2 < pos => packageOf[c] = machine.package[c]

TopologyInv ==
  /\ machine \in Machines
  /\ query \in {"start", "failed", "packages", "cores", "map", "done", "crashed"}
  /\ machine.os = "windows" =>
       packageOf = <<>> /\ query \in {"start", "done", "crashed"}
  /\ machine.os = "linux" /\ query \in {"cores", "map", "done"} =>
       numCPUs = Cardinality(Online)
  /\ query = "map" /\ Contiguous => MapSoFar
  /\ machine.os = "linux" /\ query = "done" /\ Contiguous =>
       \A c \in 0..numCPUs-1 : packageOf[c] = machine.package[c]

\* A benchmark of a whole node is as large as the map of packages says.
WholeNodeInv ==
  /\ TopologyInv
  /\ bench # Idle => query = "done"
  /\ bench.kind = "whole node" =>
       /\ machine.os = "linux"
       /\ bench.size = Cardinality(CPUsInCPUNode(bench.node))

\* The lines of a machine no CPU of which is offline.
LEMMA Lines ==
  ASSUME IsMachine(machine), Contiguous, NEW n \in 1..NumLines
  PROVE  /\ (n - 1) \div 3 \in 0..Cardinality(Online)-1
         /\ n % 3 = 1 => Line(n) = [kind |-> "processor", id |-> (n - 1) \div 3]
         /\ n % 3 = 2 => Line(n) = [kind |-> "physical id",
                                    id |-> machine.package[(n - 1) \div 3]]
         /\ n % 3 = 0 => Line(n).kind = "core id"
<1> DEFINE N == Cardinality(Online)
           c == (n - 1) \div 3
<1>1. IsFiniteSet(Online) /\ N \in Nat
  BY FS_CardinalityType DEF IsMachine, Online
<1>2. n \in 1..3 * N
  BY DEF NumLines
<1>3. c \in 0..N-1
  <2> HIDE DEF N
  <2> QED  BY <1>1, <1>2, Z3
<1>4. \A x \in Online : Cardinality({d \in Online : d < x}) = x
  <2>1. ASSUME NEW x \in 0..N-1
        PROVE  Cardinality({d \in 0..N-1 : d < x}) = x
    <3>1. {d \in 0..N-1 : d < x} = 0..x-1
      BY <1>1, <2>1
    <3>2. Cardinality(0..x-1) = x
      BY <1>1, <2>1, FS_Interval
    <3> QED  BY <3>1, <3>2
  <2>2. Online = 0..N-1
    BY DEF Contiguous
  <2> HIDE DEF N
  <2> QED  BY <2>1, <2>2
<1>5. Nth(Online, c) = c
  <2>1. c \in Online
    BY <1>3 DEF Contiguous
  <2> HIDE DEF c
  <2> QED  BY <1>4, <2>1 DEF Nth
<1>6. Line(n) = CASE n % 3 = 1 -> [kind |-> "processor", id |-> c]
                  [] n % 3 = 2 -> [kind |-> "physical id",
                                   id |-> machine.package[c]]
                  [] n % 3 = 0 -> [kind |-> "core id", id |-> machine.core[c]]
  BY <1>5, Zenon DEF Line
<1> HIDE DEF c
<1>7. n % 3 = 1 => Line(n) = [kind |-> "processor", id |-> c]
  <2>1. n % 3 = 1 => n % 3 # 2 /\ n % 3 # 0
    OBVIOUS
  <2> QED  BY <1>6, <2>1, Zenon
<1>8. n % 3 = 2 => Line(n) = [kind |-> "physical id", id |-> machine.package[c]]
  <2>1. n % 3 = 2 => n % 3 # 1 /\ n % 3 # 0
    OBVIOUS
  <2> QED  BY <1>6, <2>1, Zenon
<1>9. n % 3 = 0 => Line(n).kind = "core id"
  <2>1. n % 3 = 0 => n % 3 # 1 /\ n % 3 # 2
    OBVIOUS
  <2>2. n % 3 = 0 =>
          Line(n) = [kind |-> "core id", id |-> machine.core[c]]
    BY <1>6, <2>1, Zenon
  <2>3. [kind |-> "core id", id |-> machine.core[c]].kind = "core id"
    OBVIOUS
  <2> QED  BY <2>2, <2>3, Zenon
<1> QED  BY <1>3, <1>7, <1>8, <1>9 DEF c

LEMMA TopologyInit == Init => WholeNodeInv
<1> SUFFICES ASSUME Init PROVE WholeNodeInv
  OBVIOUS
<1>1. machine \in Machines /\ query = "start" /\ packageOf = <<>> /\ bench = Idle
  BY DEF Init, InitTopology
<1> QED  BY <1>1 DEF WholeNodeInv, TopologyInv, Idle

\* One turn of the loop that maps the CPUs to their packages.
MapTurn ==
  /\ ~eof
  /\ Getline
  /\ UNCHANGED <<machine, numCPUs>>
  /\ cpu' = IF Finds("processor") THEN Line(pos).id ELSE cpu
  /\ packageOf' = IF Finds("physical id") /\ cpu \in DOMAIN packageOf
                  THEN [packageOf EXCEPT ![cpu] = Line(pos).id]
                  ELSE packageOf

LEMMA MapStep ==
  ASSUME IsMachine(machine), Contiguous, MapSoFar, MapTurn,
         numCPUs = Cardinality(Online)
  PROVE  MapSoFar'
<1> DEFINE c == (pos - 1) \div 3
<1>1. /\ IsFiniteSet(Online) /\ numCPUs \in Nat /\ NumLines = 3 * numCPUs
      /\ NumLines \in Nat
  BY FS_CardinalityType DEF IsMachine, Online, NumLines
<1>2. NumLines' = NumLines /\ numCPUs' = numCPUs /\ machine' = machine
  BY DEF MapTurn, NumLines, Online
<1>3. pos \in 1..NumLines+1 /\ pos \in Nat /\ DOMAIN packageOf = 0..numCPUs-1
  <2>1. pos \in 1..NumLines+1
    BY DEF MapSoFar
  <2>2. packageOf = [x \in 0..numCPUs-1 |-> packageOf[x]]
    BY DEF MapSoFar
  <2>3. DOMAIN packageOf = 0..numCPUs-1
    BY <2>2
  <2> QED  BY <1>1, <2>1, <2>3
<1>4. CASE pos = NumLines + 1
  <2>1. pos' = pos /\ eof' = TRUE
    <3>1. ~(pos <= NumLines)
      BY <1>1, <1>4
    <3> QED  BY <3>1, Zenon DEF MapTurn, Getline
  <2>2. \A kind : ~Finds(kind)
    BY <1>1, <1>4 DEF Finds
  <2>3. cpu' = cpu /\ packageOf' = packageOf
    BY <2>2 DEF MapTurn
  <2> QED  BY <1>2, <1>4, <2>1, <2>3 DEF MapSoFar
<1>5. CASE pos # NumLines + 1
  <2>1. pos \in 1..NumLines /\ pos' = pos + 1 /\ eof' = eof
    <3>1. pos \in 1..NumLines /\ pos <= NumLines
      BY <1>1, <1>3, <1>5
    <3> QED  BY <3>1, Zenon DEF MapTurn, Getline
  <2>2. pos' \in 1..NumLines+1
    BY <1>1, <2>1
  <2>3. \A kind : Finds(kind) <=> Line(pos).kind = kind
    BY <1>1, <2>1 DEF Finds
  <2>4. c \in 0..numCPUs-1
    BY <2>1, Lines
  <2>5. CASE pos % 3 = 1
    <3>1. Line(pos) = [kind |-> "processor", id |-> c]
      BY <2>1, <2>5, Lines
    <3>2. cpu' = c /\ packageOf' = packageOf
      <4>1. Line(pos).kind = "processor" /\ Line(pos).id = c
        BY <3>1
      <4>2. Finds("processor") /\ ~Finds("physical id")
        BY <2>3, <4>1
      <4> QED  BY <4>1, <4>2, Zenon DEF MapTurn
    <3>3. (pos' - 1) \div 3 = c /\ pos' % 3 = 2
      BY <1>3, <2>1, <2>5
    <3>4. \A x \in 0..numCPUs-1 : 3 * x + 2 < pos' => 3 * x + 2 < pos
      BY <1>1, <1>3, <2>1, <2>5
    <3> QED
      BY <1>2, <2>1, <2>2, <3>2, <3>3, <3>4 DEF MapSoFar
  <2>6. CASE pos % 3 = 2
    <3>1. Line(pos) = [kind |-> "physical id", id |-> machine.package[c]]
      BY <2>1, <2>6, Lines
    <3>2. cpu = c
      BY <2>6 DEF MapSoFar
    <3>3. packageOf' = [packageOf EXCEPT ![c] = machine.package[c]]
      <4>1. Line(pos).kind = "physical id" /\ Line(pos).id = machine.package[c]
        <5> DEFINE l == Line(pos)
                   x == machine.package[c]
        <5>1. l = [kind |-> "physical id", id |-> x]
          BY <3>1, Zenon
        <5> HIDE DEF l, x
        <5>2. l.kind = "physical id" /\ l.id = x
          BY <5>1
        <5> QED  BY <5>2, Zenon DEF l, x
      <4>2. Finds("physical id") /\ cpu \in DOMAIN packageOf
        BY <1>3, <2>3, <2>4, <3>2, <4>1
      <4> QED  BY <3>2, <4>1, <4>2, Zenon DEF MapTurn
    <3>4. pos' % 3 = 0
      BY <1>3, <2>1, <2>6
    <3>5. \A x \in 0..numCPUs-1 : 3 * x + 2 < pos' => 3 * x + 2 < pos \/ x = c
      BY <1>1, <1>3, <2>1, <2>6
    <3>6. /\ packageOf' = [x \in 0..numCPUs-1 |-> packageOf'[x]]
          /\ packageOf'[c] = machine.package[c]
          /\ \A x \in 0..numCPUs-1 : x # c => packageOf'[x] = packageOf[x]
      BY <1>3, <2>4, <3>3
    <3> HIDE DEF c
    <3> QED
      BY <1>2, <2>1, <2>2, <3>4, <3>5, <3>6 DEF MapSoFar
  <2>7. CASE pos % 3 = 0
    <3>1. Line(pos).kind = "core id"
      BY <2>1, <2>7, Lines
    <3>2. packageOf' = packageOf
      BY <2>3, <3>1 DEF MapTurn
    <3>3. pos' % 3 = 1
      BY <1>3, <2>1, <2>7
    <3>4. \A x \in 0..numCPUs-1 : 3 * x + 2 < pos' => 3 * x + 2 < pos
      BY <1>1, <1>3, <2>1, <2>7
    <3> QED
      BY <1>2, <2>1, <2>2, <3>2, <3>3, <3>4 DEF MapSoFar
  <2> QED  BY <1>3, <2>5, <2>6, <2>7
<1> QED  BY <1>4, <1>5

\* query_sys_info() ends with the number and the package of each CPU.
LEMMA QueryStep == TopologyInv /\ QuerySysInfo => TopologyInv'
<1> SUFFICES ASSUME TopologyInv, QuerySysInfo PROVE TopologyInv'
  OBVIOUS
<1>1. machine \in Machines /\ machine' = machine /\ IsMachine(machine)
  BY TopologyAssumption
  DEF TopologyInv, QuerySysInfo, QueryNodes, CountPackages, CountCores,
      MapPackages, QueryWindows
<1>2. Online' = Online /\ NumLines' = NumLines /\ (Contiguous' <=> Contiguous)
  BY <1>1 DEF Online, NumLines, Contiguous
<1>3. machine.os \in {"linux", "windows"}
  BY <1>1 DEF IsMachine
<1>4. CASE QueryNodes
  <2>1. machine.os = "linux" /\ query' \in {"failed", "packages"}
    BY <1>4 DEF QueryNodes
  <2> QED  BY <1>1, <2>1 DEF TopologyInv
<1>5. CASE CountPackages
  <2>1. query = "packages" /\ machine.os = "linux"
    BY <1>3, <1>5 DEF CountPackages, TopologyInv
  <2>2. \/ query' = "packages"
        \/ query' = "cores" /\ numCPUs' = Cardinality(Online)
    BY <1>5 DEF CountPackages
  <2> QED  BY <1>1, <1>2, <2>1, <2>2 DEF TopologyInv
<1>6. CASE CountCores
  <2>1. query = "cores" /\ machine.os = "linux" /\ numCPUs = Cardinality(Online)
    BY <1>3, <1>6 DEF CountCores, TopologyInv
  <2>2. \/ query' = "cores" /\ numCPUs' = numCPUs
        \/ /\ query' = "map" /\ numCPUs' = numCPUs /\ pos' = 1 /\ eof' = FALSE
           /\ packageOf' = [c \in 0..numCPUs-1 |-> 0]
    BY <1>6, <2>1 DEF CountCores, Rewind, globals
  <2>3. CASE query' = "cores" /\ numCPUs' = numCPUs
    BY <1>1, <1>2, <2>1, <2>3 DEF TopologyInv
  <2>4. CASE /\ query' = "map" /\ numCPUs' = numCPUs /\ pos' = 1 /\ eof' = FALSE
             /\ packageOf' = [c \in 0..numCPUs-1 |-> 0]
    <3>1. numCPUs \in Nat /\ NumLines = 3 * numCPUs
      BY <1>1, <2>1, FS_CardinalityType DEF IsMachine, Online, NumLines
    <3>2. MapSoFar'
      BY <1>2, <2>4, <3>1 DEF MapSoFar
    <3> QED  BY <1>1, <1>2, <2>1, <2>4, <3>2 DEF TopologyInv
  <2> QED  BY <2>2, <2>3, <2>4
<1>7. CASE MapPackages
  <2>1. /\ query = "map" /\ machine.os = "linux"
        /\ numCPUs = Cardinality(Online) /\ numCPUs' = numCPUs
    BY <1>3, <1>7 DEF MapPackages, TopologyInv
  <2>2. CASE eof
    <3>1. query' = "done" /\ packageOf' = packageOf
      BY <1>7, <2>2 DEF MapPackages
    <3>2. ASSUME Contiguous, NEW c \in 0..numCPUs-1
          PROVE  packageOf[c] = machine.package[c]
      <4>1. MapSoFar
        BY <2>1, <3>2 DEF TopologyInv
      <4>2. numCPUs \in Nat /\ NumLines = 3 * numCPUs
        BY <1>1, <2>1, FS_CardinalityType DEF IsMachine, Online, NumLines
      <4>3. pos = 3 * numCPUs + 1
        BY <2>2, <4>1, <4>2 DEF MapSoFar
      <4>4. 3 * c + 2 < pos
        BY <4>2, <4>3
      <4> QED  BY <4>1, <4>4 DEF MapSoFar
    <3> QED  BY <1>1, <1>2, <2>1, <3>1, <3>2 DEF TopologyInv
  <2>3. CASE ~eof
    <3>1. query' \in {"map", "crashed"} /\ MapTurn
      BY <1>1, <1>7, <2>1, <2>3 DEF MapPackages, MapTurn
    <3>2. Contiguous => MapSoFar'
      BY <1>1, <2>1, <2>3, <3>1, MapStep DEF TopologyInv
    <3> QED  BY <1>1, <1>2, <2>1, <3>1, <3>2 DEF TopologyInv
  <2> QED  BY <2>2, <2>3
<1>8. CASE QueryWindows
  <2>1. machine.os = "windows" /\ query' = "done" /\ packageOf' = packageOf
    BY <1>8 DEF QueryWindows
  <2> QED  BY <1>1, <2>1 DEF TopologyInv
<1> QED  BY <1>4, <1>5, <1>6, <1>7, <1>8 DEF QuerySysInfo

\* Nobody writes to what has been read, so a benchmark of a whole node is
\* still as large as the map says when its workers run.
LEMMA WholeNodeStep == WholeNodeInv /\ [Next]_vars => WholeNodeInv'
<1> SUFFICES ASSUME WholeNodeInv, [Next]_vars PROVE WholeNodeInv'
  OBVIOUS
<1>1. ASSUME UNCHANGED topology
      PROVE  /\ TopologyInv' /\ UNCHANGED <<machine, query, numCPUs, packageOf>>
             /\ \A n : CPUsInCPUNode(n)' = CPUsInCPUNode(n)
  <2>1. UNCHANGED <<machine, query, pos, eof, cpu, numCPUs, packageOf>>
    BY <1>1 DEF topology, stream, locals, globals
  <2> QED
    BY <2>1 DEF WholeNodeInv, TopologyInv, MapSoFar, Contiguous, Online,
                NumLines, CPUsInCPUNode
<1>2. CASE QuerySysInfo /\ UNCHANGED placement
  <2>1. bench' = bench /\ query # "done"
    BY <1>2 DEF placement, QuerySysInfo, QueryNodes, CountPackages, CountCores,
                MapPackages, QueryWindows
  <2>2. bench = Idle
    BY <2>1 DEF WholeNodeInv
  <2> QED  BY <1>2, <2>1, <2>2, QueryStep DEF WholeNodeInv, Idle
<1>3. CASE Crash
  <2>1. /\ bench = Idle /\ bench' = Idle /\ query' = "crashed"
        /\ UNCHANGED <<machine, numCPUs, packageOf>>
    BY <1>3 DEF Crash, placement, globals
  <2>2. TopologyInv'
    BY <2>1 DEF WholeNodeInv, TopologyInv
  <2> QED  BY <2>1, <2>2 DEF WholeNodeInv, Idle
<1>4. CASE /\ UNCHANGED topology
           /\ bench' \in {bench, Idle}
  <2>1. CASE bench' = bench
    <3>1. CPUsInCPUNode(bench.node)' = CPUsInCPUNode(bench.node)
      BY <1>1, <1>4, <2>1 DEF CPUsInCPUNode
    <3> QED  BY <1>1, <1>4, <2>1, <3>1 DEF WholeNodeInv
  <2>2. CASE bench' = Idle
    <3>1. bench'.kind # "whole node"
      BY <2>2 DEF Idle
    <3> QED  BY <1>1, <1>4, <2>2, <3>1 DEF WholeNodeInv, Idle
  <2> QED  BY <1>4, <2>1, <2>2
<1>5. CASE StartOnNode \/ StartOnCPU
  <2>1. UNCHANGED topology /\ query = "done"
    BY <1>5 DEF StartOnNode, StartOnCPU, Start
  <2>2. bench'.kind \in {"node", "cpu"}
    BY <1>5 DEF StartOnNode, StartOnCPU, Start
  <2> QED  BY <1>1, <2>1, <2>2 DEF WholeNodeInv
<1>6. CASE StartOnWholeNode
  <2>1. UNCHANGED topology /\ query = "done" /\ packageOf # <<>>
    BY <1>6, Zenon DEF StartOnWholeNode, Start
  <2>2. PICK n \in 0..numNodes-1 :
          bench' = [kind |-> "whole node", node |-> n,
                    size |-> Cardinality(CPUsInCPUNode(n))]
    BY <1>6, Zenon DEF StartOnWholeNode, Start
  <2>3. machine.os = "linux"
    BY <2>1, TopologyAssumption DEF WholeNodeInv, TopologyInv, IsMachine
  <2>4. bench'.size = Cardinality(CPUsInCPUNode(n)) /\ bench'.node = n
    BY <2>2
  <2>5. CPUsInCPUNode(bench.node)' = CPUsInCPUNode(n)
    BY <1>1, <2>1, <2>4 DEF CPUsInCPUNode
  <2> QED  BY <1>1, <2>1, <2>3, <2>4, <2>5 DEF WholeNodeInv
<1>7. CASE TestThreadAffinities \/ Join
  BY <1>4, <1>7 DEF TestThreadAffinities, Join
<1>8. CASE \E t \in Workers :
             Lock(t) \/ Save(t) \/ Boost(t) \/ MeasureAndUnlock(t) \/ Revert(t)
  BY <1>4, <1>8 DEF Lock, Save, Boost, MeasureAndUnlock, Revert
<1>9. CASE Stopped \/ UNCHANGED vars
  BY <1>4, <1>9 DEF Stopped, vars, placement
<1> QED
  BY <1>2, <1>3, <1>5, <1>6, <1>7, <1>8, <1>9 DEF Next

\* What is read from the system, what is counted in it for a benchmark, and
\* what the workers lock themselves to are the same CPUs, on any machine whose
\* packages are its nodes.
THEOREM WholeNodesAreMeasured == Spec => []WholeNodeIsMeasured
<1>1. ASSUME SpreadInv, WholeNodeInv,
             bench.kind = "whole node", machine.numa = "available",
             machine.package = machine.node,
             Online = 0..Cardinality(Online)-1,
             \A t \in BenchWorkers : Active(t)
      PROVE  Occupied = NodeCPUs(bench.node) /\ bench.size = Cardinality(Occupied)
  <2> DEFINE N == NodeCPUs(bench.node)
  <2>1. /\ machine.os = "linux" /\ query = "done" /\ Contiguous
        /\ numCPUs = Cardinality(Online)
        /\ bench.size = Cardinality(CPUsInCPUNode(bench.node))
        /\ \A c \in 0..numCPUs-1 : packageOf[c] = machine.package[c]
    <3>1. bench # Idle /\ Contiguous
      <4>1. Idle.kind # "whole node"
        BY DEF Idle
      <4>2. Contiguous
        BY <1>1, Zenon DEF Contiguous
      <4> QED  BY <1>1, <4>1, <4>2, Zenon
    <3>2. /\ machine.os = "linux" /\ query = "done" /\ TopologyInv
          /\ bench.size = Cardinality(CPUsInCPUNode(bench.node))
      BY <1>1, <3>1 DEF WholeNodeInv
    <3> QED  BY <3>1, <3>2 DEF TopologyInv
  <2>2. CPUsInCPUNode(bench.node) = N
    BY <1>1, <2>1 DEF CPUsInCPUNode, NodeCPUs
  <2>3. IsMachine(machine)
    BY <1>1, TopologyAssumption DEF SpreadInv
  <2>4. IsFiniteSet(N) /\ Cardinality(N) \in Nat
    BY <2>3, NodeCPUsFinite
  <2>5. Least(bench.size, Cardinality(N)) = Cardinality(N)
    BY <2>1, <2>2, <2>4 DEF Least
  <2>6. \A t \in BenchWorkers : Active(t) /\ Nameable(cpuOf[t])
    BY <1>1, <2>1 DEF Nameable
  <2>7. Occupied \subseteq N /\ Cardinality(Occupied) = Cardinality(N)
    BY <1>1, <2>1, <2>5, <2>6, NodeIsOccupied DEF OnNode
  <2>8. Occupied = N
    <3> HIDE DEF N
    <3> QED  BY <2>4, <2>7, FS_Subset
  <2> QED  BY <2>1, <2>2, <2>8
<1>2. SpreadInv /\ WholeNodeInv => WholeNodeIsMeasured
  BY <1>1 DEF WholeNodeIsMeasured
<1> QED
  BY SpreadInit, SpreadStep, TopologyInit, WholeNodeStep, <1>2, PTL DEF Spec

===============================================================================

------------------------------ MODULE MCPlacement ------------------------------
(***************************************************************************)
(* Small machines for TLC: two sockets whose CPUs alternate, a package with*)
(* two nodes, an offline CPU, builds without HAS_NUMA, a machine without   *)
(* the NUMA API, and Windows with a CPU more than an int has bits for.     *)
(***************************************************************************)
EXTENDS Placement

\* node and package are sequences, for the CPUs from number 0 on.
Machine(os, numa, cpus, node, package, allowed) ==
  {[os |-> os, numa |-> numa, cpus |-> cpus,
    node |-> [c \in cpus |-> node[c + 1]],
    package |-> [c \in cpus |-> package[c + 1]],
    core |-> [c \in cpus |-> c \div 2],
    allowed |-> allowed, class |-> class0, privileged |-> p] :
      class0 \in IF os = "windows" THEN {"normal", "high"} ELSE {"normal"},
      p \in IF os = "linux" THEN BOOLEAN ELSE {TRUE}}

LinuxMachines ==
  Machine("linux", "available", 0..3, <<0, 1, 0, 1>>, <<0, 1, 0, 1>>, 0..3)
  \cup Machine("linux", "available", 0..2, <<0, 1, 0>>, <<0, 1, 0>>, {1})
  \cup Machine("linux", "available", 0..2, <<0, 1, 0>>, <<0, 0, 0>>, 0..2)
  \cup Machine("linux", "available", {0, 2}, <<0, 0, 1>>, <<0, 0, 1>>, {0, 2})
  \cup Machine("linux", "none", {0, 2}, <<0, 0, 0>>, <<0, 0, 0>>, {0, 2})
  \cup Machine("linux", "unavailable", {0}, <<0>>, <<0>>, {0})

WindowsMachines ==
  Machine("windows", "available", 0..3, <<0, 1, 1, 0>>, <<0, 1, 1, 0>>, 0..3)
  \cup Machine("windows", "available", 0..1, <<0, 0>>, <<0, 0>>, {0})

MCMachines == LinuxMachines \cup WindowsMachines

OneWindowsMachine ==
  Machine("windows", "available", 0..1, <<0, 0>>, <<0, 0>>, 0..1)
================================================================================

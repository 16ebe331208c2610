------------------------------ MODULE ForkJoin ------------------------------
(***************************************************************************)
(* What the iteration loop of a benchmark promises, with no threads, locks *)
(* or program points in it: rounds of work separated by a barrier.  In a   *)
(* round every worker takes its turn once, unless it cannot be started, in *)
(* which case it is skipped; the round is recorded only when no worker of  *)
(* it is still working, and no worker of the next round begins before.     *)
(***************************************************************************)
EXTENDS Naturals

CONSTANTS Workers,    \* the worker threads of the benchmark
          MaxRounds   \* iterations_, as configured

VARIABLES round,      \* rounds recorded so far
          turn        \* what each worker did in the current round

vars == <<round, turn>>

Turns == {"waiting", "working", "finished", "skipped"}

TypeOK ==
  /\ round \in 0..MaxRounds
  /\ turn \in [Workers -> Turns]

Init ==
  /\ round = 0
  /\ turn = [w \in Workers |-> "waiting"]

Begin(w) ==
  /\ round < MaxRounds
  /\ turn[w] = "waiting"
  /\ turn' = [turn EXCEPT ![w] = "working"]
  /\ UNCHANGED round

Skip(w) ==
  /\ round < MaxRounds
  /\ turn[w] = "waiting"
  /\ turn' = [turn EXCEPT ![w] = "skipped"]
  /\ UNCHANGED round

Finish(w) ==
  /\ turn[w] = "working"
  /\ turn' = [turn EXCEPT ![w] = "finished"]
  /\ UNCHANGED round

\* The barrier: nobody is working or yet to begin.
Record ==
  /\ round < MaxRounds
  /\ \A w \in Workers : turn[w] \in {"finished", "skipped"}
  /\ round' = round + 1
  /\ turn' = [w \in Workers |-> "waiting"]

Next ==
  \/ \E w \in Workers : Begin(w) \/ Skip(w) \/ Finish(w)
  \/ Record

Spec == Init /\ [][Next]_vars

=============================================================================

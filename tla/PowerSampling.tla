---------------------------- MODULE PowerSampling ----------------------------
(***************************************************************************)
(* DRAM power measurement in the Windows build: the PowerReader objects,   *)
(* one per socket, which all benchmarks share and run one after the other, *)
(* the sampling threads a benchmark starts before its workload and stops   *)
(* after it, and the per-socket results it collects.  In the Linux build   *)
(* all readers are NULL and every loop below is empty.                     *)
(*                                                                         *)
(* A sample is represented by the number of the benchmark during which it  *)
(* was read, and the mean and the peak of a trace by the trace they were   *)
(* computed from: the properties ask which samples a result rests on, not  *)
(* how many watts it is.                                                   *)
(***************************************************************************)
EXTENDS Integers, Sequences, ThreadObject

CONSTANTS
  NumSockets,      \* g_num_physical_packages, the number of readers
  NumBenchmarks,   \* how many benchmarks are run, one after the other
  MaxSamples       \* bound: how many samples fit into a trace

ASSUME PowerSamplingAssumption ==
  /\ NumSockets \in Nat \ {0}
  /\ NumBenchmarks \in Nat \ {0}
  /\ MaxSamples \in Nat \ {0}

Sockets == 0..NumSockets-1
Benchmarks == 1..NumBenchmarks

VARIABLES
  pc,       \* where the main thread is in start- or stopPowerThreads()
  i,        \* its loop variable over threads or readers
  j,        \* the variable of the loop nested in stopPowerThreads()
  bench,    \* the benchmark that is running
  reader,   \* the PowerReader objects
  thread,   \* dram_power_threads_ of this benchmark
  spc,      \* where each sampling thread is in run()
  sample,   \* `result` of each sampling thread
  mean,     \* mean_dram_power_socket_ of this benchmark
  peak      \* peak_dram_power_socket_ of this benchmark

mainVars == <<pc, i, j, bench, thread, mean, peak>>
vars == <<pc, i, j, bench, reader, thread, spc, sample, mean, peak>>

Traces == Seq(Benchmarks)

\* stop_signal_, power_trace_, num_samples_, and what mean_power_ and
\* peak_power_ were computed from.  Every critical section of a reader is one
\* step of this module, so its lock needs no variable.
Readers == [stop : BOOLEAN, trace : Traces, num : Nat, metricsOf : Traces]

NewReader == [stop |-> FALSE, trace |-> <<>>, num |-> 0, metricsOf |-> <<>>]

Points == {"stopReader", "clear", "reset", "start", "work", "signal", "join",
           "collectMean", "collectPeak", "report", "done"}

Running == {"check", "collect", "push", "metrics", "sleep", "sleepForever"}
SamplerPoints == Running \cup {"none", "suspended", "exited", "killed"}

TypeOK ==
  /\ pc \in Points
  /\ i \in Sockets
  /\ j \in Sockets
  /\ bench \in Benchmarks
  /\ reader \in [Sockets -> Readers]
  /\ thread \in [Sockets -> ThreadObjects]
  /\ spc \in [Sockets -> SamplerPoints]
  /\ sample \in [Sockets -> Benchmarks]
  /\ mean \in Seq(Traces)
  /\ peak \in Seq(Traces)

Init ==
  /\ pc = "stopReader"
  /\ i = 0
  /\ j = 0
  /\ bench = 1
  /\ reader = [s \in Sockets |-> NewReader]
  /\ thread = [s \in Sockets |-> NewThread]
  /\ spc = [s \in Sockets |-> "none"]
  /\ sample = [s \in Sockets |-> 1]
  /\ mean = <<>>
  /\ peak = <<>>

\* Advances the loop over threads to its body `again`, or past its end.
NextSocket(again, next) ==
  IF i + 1 < NumSockets
  THEN i' = i + 1 /\ pc' = again
  ELSE i' = 0 /\ pc' = next

-----------------------------------------------------------------------------
(* startPowerThreads().                                                    *)

\* clearAndReset() is three critical sections: stop(), clear(), and the one
\* that takes the stop signal back.
StopReader ==
  /\ pc = "stopReader"
  /\ reader' = [reader EXCEPT ![i].stop = TRUE]
  /\ pc' = "clear"
  /\ UNCHANGED <<i, j, bench, thread, spc, sample, mean, peak>>

\* Mutant: the trace of the previous benchmark is kept.
ClearReaderKeepsTrace ==
  /\ pc = "clear"
  /\ reader' = [reader EXCEPT ![i].num = 0, ![i].metricsOf = <<>>]
  /\ pc' = "reset"
  /\ UNCHANGED <<i, j, bench, thread, spc, sample, mean, peak>>

ClearReader ==
  /\ pc = "clear"
  /\ reader' = [reader EXCEPT ![i].trace = <<>>, ![i].num = 0,
                              ![i].metricsOf = <<>>]
  /\ pc' = "reset"
  /\ UNCHANGED <<i, j, bench, thread, spc, sample, mean, peak>>

\* Mutant: the stop signal stays.
ResetReaderNot ==
  /\ pc = "reset"
  /\ pc' = "start"
  /\ UNCHANGED <<i, j, bench, reader, thread, spc, sample, mean, peak>>

ResetReader ==
  /\ pc = "reset"
  /\ reader' = [reader EXCEPT ![i].stop = FALSE]
  /\ pc' = "start"
  /\ UNCHANGED <<i, j, bench, thread, spc, sample, mean, peak>>

\* A new Thread and its create_and_start().  The OS may refuse to create the
\* thread or to resume it; the benchmark goes on with a warning.
StartSampler ==
  /\ pc = "start"
  /\ \/ /\ thread' = [thread EXCEPT ![i] = AfterStart(NewThread)]
        /\ spc' = [spc EXCEPT ![i] = "check"]
     \/ /\ thread' = [thread EXCEPT ![i] = NewThread]
        /\ UNCHANGED spc
     \/ /\ thread' = [thread EXCEPT ![i] = AfterCreate(NewThread)]
        /\ spc' = [spc EXCEPT ![i] = "suspended"]
  /\ NextSocket("stopReader", "work")
  /\ UNCHANGED <<j, bench, reader, sample, mean, peak>>

\* The workload of the benchmark, which takes any time.
Workload ==
  /\ pc = "work"
  /\ pc' = "signal"
  /\ UNCHANGED <<i, j, bench, reader, thread, spc, sample, mean, peak>>

-----------------------------------------------------------------------------
(* stopPowerThreads().                                                     *)

\* Mutant: only the first thread is told to stop.
SignalFirstStop ==
  /\ pc = "signal"
  /\ reader' = [reader EXCEPT ![i].stop = @ \/ thread[i].started]
  /\ pc' = "join"
  /\ UNCHANGED <<i, j, bench, thread, spc, sample, mean, peak>>

\* stop() of the reader, if its thread was started.
SignalStop ==
  /\ pc = "signal"
  /\ reader' = [reader EXCEPT ![i].stop = @ \/ thread[i].started]
  /\ NextSocket("signal", "join")
  /\ UNCHANGED <<j, bench, thread, spc, sample, mean, peak>>

\* join(), or cancel() for a thread that cannot be joined.  The latter ends
\* a thread that was created and never resumed, unless the OS refuses.
JoinSampler ==
  /\ pc = "join"
  /\ \/ /\ JoinWaits(thread[i])
        /\ spc[i] = "exited"
        /\ thread' = [thread EXCEPT ![i] = AfterJoin(@)]
        /\ UNCHANGED spc
     \/ /\ ~JoinWaits(thread[i])
        /\ CancelCallsOS(thread[i], TRUE)
        /\ \/ /\ thread' = [thread EXCEPT ![i] = AfterCancel(@)]
              /\ spc' = [spc EXCEPT ![i] = "killed"]
           \/ UNCHANGED <<thread, spc>>
     \/ /\ ~JoinWaits(thread[i])
        /\ ~CancelCallsOS(thread[i], TRUE)
        /\ UNCHANGED <<thread, spc>>
  /\ pc' = "collectMean"
  /\ UNCHANGED <<i, j, bench, reader, sample, mean, peak>>

\* The loop over all readers is nested in the loop over the threads.
CollectMean ==
  /\ pc = "collectMean"
  /\ mean' = Append(mean, reader[j].metricsOf)
  /\ pc' = "collectPeak"
  /\ UNCHANGED <<i, j, bench, reader, thread, spc, sample, peak>>

CollectPeak ==
  /\ pc = "collectPeak"
  /\ peak' = Append(peak, reader[j].metricsOf)
  /\ IF j + 1 < NumSockets
     THEN j' = j + 1 /\ pc' = "collectMean" /\ UNCHANGED i
     ELSE j' = 0 /\ NextSocket("join", "report")
  /\ UNCHANGED <<bench, reader, thread, spc, sample, mean>>

\* The manager goes on to the next benchmark, which has vectors of its own;
\* Thread objects are never deleted, and a suspended OS thread stays behind.
NextBenchmark ==
  /\ pc = "report"
  /\ IF bench < NumBenchmarks
     THEN /\ bench' = bench + 1
          /\ pc' = "stopReader"
          /\ mean' = <<>>
          /\ peak' = <<>>
          /\ spc' = [s \in Sockets |->
                       IF spc[s] \in Running THEN spc[s] ELSE "none"]
     ELSE pc' = "done" /\ UNCHANGED <<bench, mean, peak, spc>>
  /\ UNCHANGED <<i, j, reader, thread, sample>>

Main ==
  \/ StopReader \/ ClearReader \/ ResetReader \/ StartSampler \/ Workload
  \/ SignalStop \/ JoinSampler \/ CollectMean \/ CollectPeak \/ NextBenchmark

-----------------------------------------------------------------------------
(* A sampling thread: WindowsDRAMPowerReader::run().                       *)

\* Reads the stop signal under the lock.
CheckStop(s) ==
  /\ spc[s] = "check"
  /\ IF reader[s].stop
     THEN spc' = [spc EXCEPT ![s] = "exited"]
     ELSE /\ Len(reader[s].trace) < MaxSamples
          /\ spc' = [spc EXCEPT ![s] = "collect"]
  /\ UNCHANGED <<mainVars, reader, sample>>

\* Queries the counter, without the lock.
ReadCounter(s) ==
  /\ spc[s] = "collect"
  /\ sample' = [sample EXCEPT ![s] = bench]
  /\ spc' = [spc EXCEPT ![s] = "push"]
  /\ UNCHANGED <<mainVars, reader>>

\* Mutant: the metrics are not brought up to date after the sample.
PushSampleOnly(s) ==
  /\ spc[s] = "push"
  /\ reader' = [reader EXCEPT ![s].trace = Append(@, sample[s]),
                              ![s].num = @ + 1]
  /\ spc' = [spc EXCEPT ![s] = "sleep"]
  /\ UNCHANGED <<mainVars, sample>>

PushSample(s) ==
  /\ spc[s] = "push"
  /\ reader' = [reader EXCEPT ![s].trace = Append(@, sample[s]),
                              ![s].num = @ + 1]
  /\ spc' = [spc EXCEPT ![s] = "metrics"]
  /\ UNCHANGED <<mainVars, sample>>

\* calculateMetrics(), in a critical section of its own, and then Sleep() for
\* what is left of the period.  If nothing is left, a negative number is
\* converted to DWORD, which is undefined: one outcome is INFINITE, and the
\* thread never wakes.
CalculateMetrics(s) ==
  /\ spc[s] = "metrics"
  /\ reader' = [reader EXCEPT ![s].metricsOf = reader[s].trace,
                              ![s].num = Len(reader[s].trace)]
  /\ \E next \in {"sleep", "sleepForever"} : spc' = [spc EXCEPT ![s] = next]
  /\ UNCHANGED <<mainVars, sample>>

Wake(s) ==
  /\ spc[s] = "sleep"
  /\ spc' = [spc EXCEPT ![s] = "check"]
  /\ UNCHANGED <<mainVars, reader, sample>>

Sampler(s) ==
  \/ CheckStop(s) \/ ReadCounter(s) \/ PushSample(s) \/ CalculateMetrics(s)
  \/ Wake(s)

-----------------------------------------------------------------------------
\* The program stays where it is once it has ended, and while a sampling
\* thread sleeps for ever.
Done ==
  /\ pc = "done" \/ \E s \in Sockets : spc[s] = "sleepForever"
  /\ UNCHANGED vars

Next ==
  \/ Main
  \/ \E s \in Sockets : Sampler(s)
  \/ Done

Spec == Init /\ [][Next]_vars

\* Every thread that can run is run.
Fairness == WF_vars(Main) /\ \A s \in Sockets : WF_vars(Sampler(s))

FairSpec == Spec /\ Fairness

-----------------------------------------------------------------------------
(* Properties.                                                             *)

\* No sampling thread is alive when its reader is cleared and reset for the
\* next benchmark: reset would take back the stop signal of the old thread
\* and leave two threads sampling into one trace.
NoSamplerOutlivesBenchmark ==
  /\ pc \in {"stopReader", "clear", "reset", "start"} =>
       \A s \in Sockets : s >= i => spc[s] \notin Running
  /\ pc \in {"report", "done"} => \A s \in Sockets : spc[s] \notin Running

\* Whenever a sampler is not between its two critical sections, the metrics
\* of its reader are those of the whole trace and the number of samples is
\* that of the trace.
MetricsMatchTrace ==
  \A s \in Sockets :
    spc[s] # "metrics" =>
      /\ reader[s].metricsOf = reader[s].trace
      /\ reader[s].num = Len(reader[s].trace)

\* The results a finished benchmark collected last, after its last join,
\* rest on complete traces: the mean and the peak of a socket are of all
\* samples its reader took, and all were taken during this benchmark.
LastCollectionIsComplete ==
  pc \in {"report", "done"} =>
    \A s \in Sockets :
      LET k == (NumSockets - 1) * NumSockets + s + 1 IN
      /\ Len(mean) = NumSockets * NumSockets
      /\ Len(peak) = NumSockets * NumSockets
      /\ mean[k] = reader[s].trace
      /\ peak[k] = reader[s].trace
      /\ \A n \in DOMAIN mean[k] : mean[k][n] = bench

\* Power is sampled for as long as the workload runs: the stop signal of an
\* earlier benchmark, or of clearAndReset() itself, never reaches a sampler.
SamplersRunThroughout ==
  \A s \in Sockets :
    \/ pc = "work"
    \/ pc \in {"stopReader", "clear", "reset", "start"} /\ s < i
    => (thread[s].started => ~reader[s].stop /\ spc[s] \in Running)

\* Every benchmark comes to its end: stopPowerThreads() does stop the
\* threads it waits for, unless one of them sleeps for ever.
AllBenchmarksReported ==
  <>(pc = "done" \/ \E s \in Sockets : spc[s] = "sleepForever")

=============================================================================

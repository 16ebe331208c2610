-------------------------- MODULE PowerSampling_proofs --------------------------
(***************************************************************************)
(* Theorems about PowerSampling, for every number of sockets, benchmarks   *)
(* and samples: that samplers run when they should and only then, and that *)
(* the results rest on complete traces of the benchmark they are of.       *)
(***************************************************************************)
EXTENDS PowerSampling, TLAPS

Starting == {"stopReader", "clear", "reset", "start"}
Collecting == {"collectMean", "collectPeak"}
Over == {"report", "done"}

(* How far the main thread has got with socket s.                          *)

\* The reader has been cleared for this benchmark.
Cleared(s) ==
  pc \in Starting => s < i \/ (s = i /\ pc \in {"reset", "start"})

\* The Thread object is the one of this benchmark.
Launched(s) == pc \in Starting => s < i

\* Nobody has told the sampler to stop since the reader was reset.
Untold(s) ==
  \/ pc \in Starting /\ s < i
  \/ pc = "start" /\ s = i
  \/ pc = "work"
  \/ pc = "signal" /\ i <= s

\* SignalStop has passed the socket.
Told(s) ==
  \/ pc = "signal" /\ s < i
  \/ pc \in {"join"} \cup Collecting \cup Over

\* JoinSampler has passed the socket.
Joined(s) ==
  \/ pc = "join" /\ s < i
  \/ pc \in Collecting /\ s <= i
  \/ pc \in Over

-----------------------------------------------------------------------------
(* The inductive invariant.                                                *)

\* A Thread object knows whether its OS thread has been let run, and there is
\* no thread before it is launched.
ThreadsAreKnown ==
  \A s \in Sockets :
    /\ Launched(s) =>
         /\ thread[s].started <=> spc[s] \in Running \cup {"exited"}
         /\ thread[s].started => thread[s].created
    /\ ~Launched(s) => spc[s] = "none"

\* The stop signal is what the main thread made it last, and only that ends
\* a sampler.
StopsAreSignalled ==
  \A s \in Sockets :
    /\ Untold(s) => ~reader[s].stop
    /\ Told(s) /\ thread[s].started => reader[s].stop
    /\ spc[s] = "exited" => reader[s].stop

JoinedAreGone == \A s \in Sockets : Joined(s) => spc[s] \notin Running

\* All samples are of this benchmark, also the one that is under way.
SamplesAreOfBenchmark ==
  \A s \in Sockets :
    /\ spc[s] = "push" => sample[s] = bench
    /\ Cleared(s) => \A n \in 1..Len(reader[s].trace) :
                       reader[s].trace[n] = bench

\* The loop variables rest at 0.
LoopsAreReset ==
  /\ pc \in {"work"} \cup Over => i = 0
  /\ pc \notin Collecting => j = 0

\* How many results there are, and which are final: those collected after
\* the last join.
Rounds == i * NumSockets
LastRound == (NumSockets - 1) * NumSockets

Final(results, s) ==
  LastRound + s + 1 <= Len(results) =>
    results[LastRound + s + 1] = reader[s].trace

ResultsAreCollected ==
  /\ pc \in Starting \cup {"work", "signal"} =>
       Len(mean) = 0 /\ Len(peak) = 0
  /\ pc = "join" => Len(mean) = Rounds /\ Len(peak) = Rounds
  /\ pc = "collectMean" => Len(mean) = Rounds + j /\ Len(peak) = Rounds + j
  /\ pc = "collectPeak" =>
       Len(mean) = Rounds + j + 1 /\ Len(peak) = Rounds + j
  /\ pc \in Over =>
       /\ Len(mean) = NumSockets * NumSockets
       /\ Len(peak) = NumSockets * NumSockets
  /\ \A s \in Sockets : Final(mean, s) /\ Final(peak, s)

Inv ==
  /\ TypeOK
  /\ ThreadsAreKnown
  /\ StopsAreSignalled
  /\ JoinedAreGone
  /\ MetricsMatchTrace
  /\ SamplesAreOfBenchmark
  /\ LoopsAreReset
  /\ ResultsAreCollected

-----------------------------------------------------------------------------
(* Lemmas about the data.                                                  *)

LEMMA FlagTypes ==
  /\ NewThread \in ThreadObjects
  /\ ~NewThread.created /\ ~NewThread.started
  /\ \A th \in ThreadObjects :
       /\ AfterStart(th) \in ThreadObjects
       /\ AfterCreate(th) \in ThreadObjects
       /\ AfterJoin(th) \in ThreadObjects
       /\ AfterCancel(th) \in ThreadObjects
       /\ AfterStart(th).created /\ AfterStart(th).started
       /\ AfterCreate(th).created /\ AfterCreate(th).started = th.started
       /\ AfterJoin(th).created = th.created
       /\ AfterJoin(th).started = th.started
       /\ AfterCancel(th).created = th.created
       /\ AfterCancel(th).started = th.started
BY DEF NewThread, ThreadObjects, AfterStart, AfterCreate, AfterJoin,
       AfterCancel

\* The loops over sockets.
LEMMA SocketSteps ==
  /\ NumSockets \in Nat \ {0}
  /\ 0 \in Sockets
  /\ \A s \in Sockets : s \in Nat /\ s < NumSockets
  /\ \A s \in Sockets : s + 1 < NumSockets => s + 1 \in Sockets
  /\ \A s \in Sockets : ~(s + 1 < NumSockets) => s = NumSockets - 1
BY PowerSamplingAssumption DEF Sockets

\* The results of one round after the other.
LEMMA RoundSteps ==
  ASSUME NEW r \in Sockets
  PROVE  /\ LastRound \in Nat /\ r * NumSockets \in Nat
         /\ LastRound + NumSockets = NumSockets * NumSockets
         /\ (r + 1) * NumSockets = r * NumSockets + NumSockets
         /\ r # NumSockets - 1 => r * NumSockets + NumSockets <= LastRound
<1>1. NumSockets \in Nat \ {0} /\ r \in Nat /\ r < NumSockets
  BY SocketSteps
<1>2. (NumSockets - 1) * NumSockets = NumSockets * NumSockets - NumSockets
  BY <1>1, Z3
<1>3. (r + 1) * NumSockets = r * NumSockets + NumSockets
  BY <1>1, Z3
<1>4. r * NumSockets \in Nat /\ NumSockets * NumSockets \in Nat
      /\ NumSockets * NumSockets >= NumSockets
  BY <1>1, Z3
<1>5. ASSUME r # NumSockets - 1
      PROVE  (r + 1) * NumSockets <= (NumSockets - 1) * NumSockets
  BY <1>1, <1>5, Z3
<1> QED
  BY <1>1, <1>2, <1>3, <1>4, <1>5 DEF LastRound

-----------------------------------------------------------------------------
(* Initially.                                                              *)

LEMMA InvInit == Init => Inv
<1> SUFFICES ASSUME Init
             PROVE  Inv
  OBVIOUS
<1> USE SocketSteps DEF Init
<1>1. TypeOK
  <2>1. NewReader \in Readers
    BY DEF NewReader, Readers, Traces
  <2>2. 1 \in Benchmarks
    BY PowerSamplingAssumption DEF Benchmarks
  <2> QED
    BY <2>1, <2>2, FlagTypes DEF TypeOK, Points, SamplerPoints, Traces
<1>2. ThreadsAreKnown
  BY DEF ThreadsAreKnown, Launched, Starting
<1>3. StopsAreSignalled
  BY DEF StopsAreSignalled, Untold, Told, NewReader, Collecting, Over
<1>4. JoinedAreGone
  BY DEF JoinedAreGone, Running
<1>5. MetricsMatchTrace
  BY DEF MetricsMatchTrace, NewReader
<1>6. SamplesAreOfBenchmark
  BY DEF SamplesAreOfBenchmark, NewReader
<1>7. LoopsAreReset
  BY DEF LoopsAreReset
<1>8. ResultsAreCollected
  <2>1. Len(mean) = 0 /\ Len(peak) = 0 /\ LastRound \in Nat
    BY RoundSteps
  <2>2. ASSUME NEW s \in Sockets
        PROVE  Final(mean, s) /\ Final(peak, s)
    <3>1. ~(LastRound + s + 1 <= 0)
      BY <2>1
    <3> QED
      BY <2>1, <3>1 DEF Final
  <2> QED
    BY <2>1, <2>2 DEF ResultsAreCollected, Collecting, Over
<1> QED
  BY <1>1, <1>2, <1>3, <1>4, <1>5, <1>6, <1>7, <1>8 DEF Inv

-----------------------------------------------------------------------------
(* Types.                                                                  *)

LEMMA NextSocketTypes ==
  ASSUME i \in Sockets, NEW again, NEW next, NextSocket(again, next)
  PROVE  i' \in Sockets /\ pc' \in {again, next}
BY SocketSteps DEF NextSocket

LEMMA TypeStep == TypeOK /\ [Next]_vars => TypeOK'
<1> SUFFICES ASSUME TypeOK, [Next]_vars
             PROVE  TypeOK'
  OBVIOUS
<1>1. CASE StopReader \/ ClearReader \/ ResetReader
  <2>1. reader' \in [Sockets -> Readers]
    <3>1. <<>> \in Traces /\ 0 \in Nat
      BY DEF Traces
    <3>2. CASE StopReader
      BY <3>2 DEF TypeOK, StopReader, Readers
    <3>3. CASE ClearReader
      BY <3>1, <3>3 DEF TypeOK, ClearReader, Readers
    <3>4. CASE ResetReader
      BY <3>4 DEF TypeOK, ResetReader, Readers
    <3> QED
      BY <1>1, <3>2, <3>3, <3>4
  <2>2. UNCHANGED <<i, j, bench, thread, spc, sample, mean, peak>>
        /\ pc' \in {"clear", "reset", "start"}
    BY <1>1 DEF StopReader, ClearReader, ResetReader
  <2> QED
    BY <2>1, <2>2 DEF TypeOK, Points
<1>2. CASE StartSampler
  <2>1. thread' \in [Sockets -> ThreadObjects]
    BY <1>2, FlagTypes DEF TypeOK, StartSampler
  <2>2. spc' \in [Sockets -> SamplerPoints]
    BY <1>2 DEF TypeOK, StartSampler, SamplerPoints, Running
  <2>3. i' \in Sockets /\ pc' \in {"stopReader", "work"}
    BY <1>2, NextSocketTypes DEF TypeOK, StartSampler
  <2>4. UNCHANGED <<j, bench, reader, sample, mean, peak>>
    BY <1>2 DEF StartSampler
  <2> QED
    BY <2>1, <2>2, <2>3, <2>4 DEF TypeOK, Points
<1>3. CASE Workload
  BY <1>3 DEF TypeOK, Workload, Points
<1>4. CASE SignalStop
  <2>1. reader' \in [Sockets -> Readers]
    <3> DEFINE new == [reader[i] EXCEPT !.stop = @ \/ thread[i].started]
    <3>1. /\ reader \in [Sockets -> Readers] /\ i \in Sockets
          /\ thread[i].started \in BOOLEAN
      BY DEF TypeOK, ThreadObjects
    <3>2. reader[i] \in Readers
      BY <3>1
    <3>3. new \in Readers
      BY <3>1, <3>2 DEF Readers
    <3>4. reader' = [reader EXCEPT ![i] = new]
      BY <1>4 DEF SignalStop
    <3> HIDE DEF new
    <3> QED
      BY <3>1, <3>3, <3>4
  <2>2. i' \in Sockets /\ pc' \in {"signal", "join"}
    BY <1>4, NextSocketTypes DEF TypeOK, SignalStop
  <2>3. UNCHANGED <<j, bench, thread, spc, sample, mean, peak>>
    BY <1>4 DEF SignalStop
  <2> QED
    BY <2>1, <2>2, <2>3 DEF TypeOK, Points
<1>5. CASE JoinSampler
  <2>1. thread' \in [Sockets -> ThreadObjects]
    <3>1. i \in Sockets /\ thread \in [Sockets -> ThreadObjects]
      BY DEF TypeOK
    <3>2. /\ AfterJoin(thread[i]) \in ThreadObjects
          /\ AfterCancel(thread[i]) \in ThreadObjects
      BY <3>1, FlagTypes
    <3>3. \/ thread' = thread
          \/ thread' = [thread EXCEPT ![i] = AfterJoin(thread[i])]
          \/ thread' = [thread EXCEPT ![i] = AfterCancel(thread[i])]
      BY <1>5 DEF JoinSampler
    <3> QED
      BY <3>1, <3>2, <3>3
  <2>2. spc' \in [Sockets -> SamplerPoints]
    BY <1>5 DEF TypeOK, JoinSampler, SamplerPoints
  <2> QED
    BY <1>5, <2>1, <2>2 DEF TypeOK, JoinSampler, Points
<1>6. CASE CollectMean \/ CollectPeak
  <2>1. reader[j].metricsOf \in Traces
    BY DEF TypeOK, Readers
  <2>2. mean' \in Seq(Traces) /\ peak' \in Seq(Traces)
    <3>1. mean \in Seq(Traces) /\ peak \in Seq(Traces)
      BY DEF TypeOK
    <3>2. /\ mean' \in {mean, Append(mean, reader[j].metricsOf)}
          /\ peak' \in {peak, Append(peak, reader[j].metricsOf)}
      BY <1>6 DEF CollectMean, CollectPeak
    <3>3. \A results \in Seq(Traces), x \in Traces :
            Append(results, x) \in Seq(Traces)
      OBVIOUS
    <3>4. \A results \in Seq(Traces) :
            Append(results, reader[j].metricsOf) \in Seq(Traces)
      BY <2>1, <3>3
    <3> QED
      BY <3>1, <3>2, <3>4
  <2>3. i' \in Sockets /\ j' \in Sockets /\ pc' \in Points
    BY <1>6, NextSocketTypes, SocketSteps
    DEF TypeOK, CollectMean, CollectPeak, Points
  <2> QED
    BY <1>6, <2>2, <2>3 DEF TypeOK, CollectMean, CollectPeak
<1>7. CASE NextBenchmark
  <2>1. bench' \in Benchmarks
    BY <1>7, PowerSamplingAssumption DEF TypeOK, NextBenchmark, Benchmarks
  <2>2. spc' \in [Sockets -> SamplerPoints]
    BY <1>7 DEF TypeOK, NextBenchmark, SamplerPoints
  <2>3. mean' \in Seq(Traces) /\ peak' \in Seq(Traces) /\ pc' \in Points
    <3>1. mean' \in {mean, <<>>} /\ peak' \in {peak, <<>>}
          /\ pc' \in {"stopReader", "done"}
      BY <1>7 DEF NextBenchmark
    <3>2. <<>> \in Seq(Traces)
      OBVIOUS
    <3> QED
      BY <3>1, <3>2 DEF TypeOK, Points
  <2> QED
    BY <1>7, <2>1, <2>2, <2>3 DEF TypeOK, NextBenchmark
<1>8. ASSUME NEW s \in Sockets, Sampler(s)
      PROVE  TypeOK'
  <2>1. reader' \in [Sockets -> Readers]
    <3>1. CASE PushSample(s)
      <4>1. Append(reader[s].trace, sample[s]) \in Traces
            /\ reader[s].num + 1 \in Nat
        BY DEF TypeOK, Readers, Traces
      <4> QED
        BY <3>1, <4>1 DEF PushSample, TypeOK, Readers
    <3>2. CASE CalculateMetrics(s)
      <4> DEFINE new == [reader[s] EXCEPT !.metricsOf = reader[s].trace,
                                          !.num = Len(reader[s].trace)]
      <4>1. reader \in [Sockets -> Readers] /\ reader[s] \in Readers
        BY DEF TypeOK
      <4>2. reader[s].trace \in Traces /\ Len(reader[s].trace) \in Nat
        BY <4>1 DEF Readers, Traces
      <4>3. new \in Readers
        BY <4>1, <4>2 DEF Readers
      <4>4. reader' = [reader EXCEPT ![s] = new]
        <5>1. reader' = [reader EXCEPT ![s].metricsOf = reader[s].trace,
                                       ![s].num = Len(reader[s].trace)]
          BY <3>2 DEF CalculateMetrics
        <5> QED
          BY <4>1, <5>1
      <4> HIDE DEF new
      <4> QED
        BY <4>1, <4>3, <4>4
    <3> QED
      BY <1>8, <3>1, <3>2
      DEF Sampler, CheckStop, ReadCounter, Wake, TypeOK
  <2>2. spc' \in [Sockets -> SamplerPoints]
    BY <1>8 DEF Sampler, CheckStop, ReadCounter, PushSample, CalculateMetrics,
                Wake, TypeOK, SamplerPoints, Running
  <2>3. sample' \in [Sockets -> Benchmarks] /\ UNCHANGED mainVars
    BY <1>8 DEF Sampler, CheckStop, ReadCounter, PushSample, CalculateMetrics,
                Wake, TypeOK
  <2> QED
    BY <2>1, <2>2, <2>3 DEF TypeOK, mainVars
<1>9. CASE UNCHANGED vars
  BY <1>9 DEF TypeOK, vars
<1> QED
  BY <1>1, <1>2, <1>3, <1>4, <1>5, <1>6, <1>7, <1>8, <1>9
  DEF Next, Main, Done

\* The variables of startPowerThreads(), stopPowerThreads() and run() have
\* their types.
THEOREM TypeCorrect == Spec => []TypeOK
<1>1. Init => TypeOK
  BY InvInit DEF Inv
<1> QED
  BY <1>1, TypeStep, PTL DEF Spec

-----------------------------------------------------------------------------
(* One part of the invariant after the other.                              *)

\* Launching leads from the sockets before i to those up to i, and so do the
\* other loops over sockets.
LEMMA NextSocketPasses ==
  ASSUME i \in Sockets, NEW again, NEW next, NextSocket(again, next),
         NEW s \in Sockets
  PROVE  \/ pc' = again /\ i' = i + 1 /\ (s < i' <=> s <= i)
         \/ pc' = next /\ i' = 0 /\ i = NumSockets - 1 /\ s <= i
BY SocketSteps DEF NextSocket

\* Samplers only move on among their own stages, or exit when told to.
LEMMA SamplerMoves ==
  ASSUME TypeOK, NEW s \in Sockets, Sampler(s)
  PROVE  /\ spc[s] \in Running
         /\ spc'[s] \in Running \/ (spc'[s] = "exited" /\ reader[s].stop)
         /\ \A u \in Sockets \ {s} : spc'[u] = spc[u] /\ reader'[u] = reader[u]
         /\ reader'[s].stop = reader[s].stop
         /\ UNCHANGED mainVars
BY DEF Sampler, CheckStop, ReadCounter, PushSample, CalculateMetrics, Wake,
       TypeOK, Readers, Running

LEMMA ThreadsStep == Inv /\ [Next]_vars => ThreadsAreKnown'
<1> SUFFICES ASSUME Inv, [Next]_vars, NEW s \in Sockets
             PROVE  /\ Launched(s)' =>
                         /\ thread'[s].started <=>
                              spc'[s] \in Running \cup {"exited"}
                         /\ thread'[s].started => thread'[s].created
                    /\ ~Launched(s)' => spc'[s] = "none"
  BY DEF ThreadsAreKnown
<1>0. /\ i \in Sockets /\ thread \in [Sockets -> ThreadObjects]
      /\ spc \in [Sockets -> SamplerPoints]
      /\ Launched(s) =>
           /\ thread[s].started <=> spc[s] \in Running \cup {"exited"}
           /\ thread[s].started => thread[s].created
      /\ ~Launched(s) => spc[s] = "none"
  BY DEF Inv, TypeOK, ThreadsAreKnown
<1>1. CASE StopReader \/ ClearReader \/ ResetReader
  BY <1>0, <1>1 DEF StopReader, ClearReader, ResetReader, Launched, Starting
<1>2. CASE StartSampler
  <2>1. Launched(s)' <=> s <= i
    BY <1>0, <1>2, NextSocketPasses DEF StartSampler, Launched, Starting
  <2>2. Launched(s) <=> s < i
    BY <1>2 DEF StartSampler, Launched, Starting
  <2>3. CASE s = i
    BY <1>0, <1>2, <2>1, <2>2, <2>3, FlagTypes, SocketSteps
    DEF StartSampler, Running
  <2>4. CASE s # i
    <3>1. thread'[s] = thread[s] /\ spc'[s] = spc[s]
      BY <1>0, <1>2, <2>4 DEF StartSampler
    <3> QED
      BY <1>0, <2>1, <2>2, <2>4, <3>1, SocketSteps
  <2> QED
    BY <2>3, <2>4
<1>3. CASE Workload \/ SignalStop \/ CollectMean \/ CollectPeak
  <2>1. UNCHANGED <<thread, spc>>
    BY <1>3 DEF Workload, SignalStop, CollectMean, CollectPeak
  <2>2. Launched(s) /\ Launched(s)'
    BY <1>3
    DEF Workload, SignalStop, CollectMean, CollectPeak, Launched, Starting,
        NextSocket
  <2> QED
    BY <1>0, <2>1, <2>2
<1>4. CASE JoinSampler
  <2>1. Launched(s) /\ Launched(s)'
    BY <1>4 DEF JoinSampler, Launched, Starting
  <2>2. CASE JoinWaits(thread[i])
    <3>1. thread' = [thread EXCEPT ![i] = AfterJoin(thread[i])] /\ spc' = spc
      BY <1>4, <2>2 DEF JoinSampler
    <3>2. thread'[s].started = thread[s].started
          /\ thread'[s].created = thread[s].created
      BY <1>0, <3>1, FlagTypes
    <3> QED
      BY <1>0, <2>1, <3>1, <3>2
  <2>3. CASE ~JoinWaits(thread[i])
    <3>1. \/ UNCHANGED <<thread, spc>>
          \/ /\ thread' = [thread EXCEPT ![i] = AfterCancel(thread[i])]
             /\ spc' = [spc EXCEPT ![i] = "killed"]
      BY <1>4, <2>3 DEF JoinSampler
    <3>2. thread'[s].started = thread[s].started
          /\ thread'[s].created = thread[s].created
      BY <1>0, <3>1, FlagTypes
    <3>3. s = i => ~thread[s].started
      BY <1>0, <2>1, <2>3 DEF JoinWaits
    <3> QED
      BY <1>0, <2>1, <3>1, <3>2, <3>3 DEF Running
  <2> QED
    BY <2>2, <2>3
<1>5. CASE NextBenchmark
  <2>1. spc[s] \notin Running /\ i = 0
    BY <1>5 DEF NextBenchmark, Inv, JoinedAreGone, Joined, LoopsAreReset, Over
  <2>2. Launched(s)
    BY <1>5 DEF NextBenchmark, Launched, Starting
  <2>3. CASE bench < NumBenchmarks
    <3>1. ~Launched(s)' /\ spc'[s] = "none"
      BY <1>5, <2>1, <2>3, SocketSteps DEF NextBenchmark, Launched, Starting
    <3> QED
      BY <3>1
  <2>4. CASE ~(bench < NumBenchmarks)
    <3>1. Launched(s)' /\ UNCHANGED <<thread, spc>>
      BY <1>5, <2>4 DEF NextBenchmark, Launched, Starting
    <3> QED
      BY <1>0, <2>2, <3>1
  <2> QED
    BY <2>3, <2>4
<1>6. ASSUME NEW u \in Sockets, Sampler(u)
      PROVE  /\ Launched(s)' <=> Launched(s)
             /\ thread' = thread
             /\ spc'[s] \in Running \cup {"exited"} <=>
                  spc[s] \in Running \cup {"exited"}
             /\ spc[s] = "none" => spc'[s] = "none"
  BY <1>6, SamplerMoves DEF Inv, mainVars, Launched, Running
<1>7. CASE UNCHANGED vars
  BY <1>0, <1>7 DEF vars, Launched
<1> QED
  BY <1>0, <1>1, <1>2, <1>3, <1>4, <1>5, <1>6, <1>7 DEF Next, Main, Done

LEMMA StopsStep == Inv /\ [Next]_vars => StopsAreSignalled'
<1> SUFFICES ASSUME Inv, [Next]_vars, NEW s \in Sockets
             PROVE  /\ Untold(s)' => ~reader'[s].stop
                    /\ Told(s)' /\ thread'[s].started => reader'[s].stop
                    /\ spc'[s] = "exited" => reader'[s].stop
  BY DEF StopsAreSignalled
<1>0. /\ i \in Sockets /\ reader \in [Sockets -> Readers]
      /\ spc \in [Sockets -> SamplerPoints]
      /\ thread \in [Sockets -> ThreadObjects]
      /\ Untold(s) => ~reader[s].stop
      /\ Told(s) /\ thread[s].started => reader[s].stop
      /\ spc[s] = "exited" => reader[s].stop
      /\ ~Launched(s) => spc[s] = "none"
  BY DEF Inv, TypeOK, ThreadsAreKnown, StopsAreSignalled
<1> USE DEF Collecting, Over, Starting
<1>1. CASE StopReader \/ ClearReader \/ ResetReader
  <2>1. ~Told(s)' /\ (Untold(s)' <=> s < i \/ (s = i /\ ResetReader))
        /\ (Untold(s) <=> s < i)
    BY <1>1 DEF StopReader, ClearReader, ResetReader, Told, Untold
  <2>2. CASE s # i
    BY <1>0, <1>1, <2>1, <2>2 DEF StopReader, ClearReader, ResetReader
  <2>3. CASE s = i
    <3>1. spc[s] = "none" /\ spc' = spc
      BY <1>0, <1>1, <2>3, SocketSteps
      DEF StopReader, ClearReader, ResetReader, Launched
    <3>2. ResetReader => ~reader'[s].stop
      BY <1>0, <2>3 DEF ResetReader, Readers
    <3> QED
      BY <2>1, <2>3, <3>1, <3>2, SocketSteps
  <2> QED
    BY <2>2, <2>3
<1>2. CASE StartSampler
  <2>1. ~Told(s)' /\ reader' = reader
    BY <1>2 DEF StartSampler, Told, NextSocket
  <2>2. Untold(s)' <=> s <= i
    BY <1>0, <1>2, NextSocketPasses DEF StartSampler, Untold
  <2>3. Untold(s) <=> s <= i
    BY <1>0, <1>2, SocketSteps DEF StartSampler, Untold
  <2>4. spc'[s] = "exited" => spc[s] = "exited"
    BY <1>0, <1>2 DEF StartSampler
  <2> QED
    BY <1>0, <2>1, <2>2, <2>3, <2>4
<1>3. CASE Workload
  <2>1. i = 0 /\ i' = i
    BY <1>3 DEF Workload, Inv, LoopsAreReset
  <2>2. Untold(s) /\ ~Told(s)'
    BY <1>3, <2>1, SocketSteps DEF Workload, Untold, Told
  <2> QED
    BY <1>0, <1>3, <2>2 DEF Workload
<1>4. CASE SignalStop
  <2>1. \/ pc' = "signal" /\ i' = i + 1 /\ (s < i' <=> s <= i)
        \/ pc' = "join" /\ s <= i
    BY <1>0, <1>4, NextSocketPasses DEF SignalStop
  <2>2. /\ Untold(s)' => i < s
        /\ Told(s)' <=> s <= i
        /\ Untold(s) <=> i <= s
        /\ Told(s) <=> s < i
    BY <1>0, <1>4, <2>1, SocketSteps DEF SignalStop, Untold, Told
  <2>3. /\ s # i => reader'[s].stop = reader[s].stop
        /\ reader[s].stop => reader'[s].stop
        /\ s = i /\ thread[s].started => reader'[s].stop
        /\ UNCHANGED <<thread, spc>>
    BY <1>0, <1>4 DEF SignalStop, Readers, ThreadObjects
  <2> QED
    BY <1>0, <2>2, <2>3, SocketSteps
<1>5. CASE JoinSampler
  <2>1. ~Untold(s)' /\ Told(s) /\ reader' = reader
    BY <1>5 DEF JoinSampler, Untold, Told
  <2>2. thread'[s].started = thread[s].started
    <3>1. \/ thread' = thread
          \/ thread' = [thread EXCEPT ![i] = AfterJoin(thread[i])]
          \/ thread' = [thread EXCEPT ![i] = AfterCancel(thread[i])]
      BY <1>5 DEF JoinSampler
    <3> QED
      BY <1>0, <3>1, FlagTypes
  <2>3. spc'[s] = "exited" => spc[s] = "exited"
    BY <1>0, <1>5 DEF JoinSampler
  <2> QED
    BY <1>0, <2>1, <2>2, <2>3
<1>6. CASE CollectMean \/ CollectPeak
  BY <1>0, <1>6 DEF CollectMean, CollectPeak, NextSocket, Untold, Told
<1>7. CASE NextBenchmark
  <2>1. ~Untold(s)'
    BY <1>7, SocketSteps
    DEF NextBenchmark, Untold, Inv, LoopsAreReset
  <2>2. Told(s) /\ UNCHANGED <<reader, thread>>
    BY <1>7 DEF NextBenchmark, Told
  <2>3. spc'[s] = "exited" => spc[s] = "exited"
    BY <1>0, <1>7 DEF NextBenchmark, Running
  <2> QED
    BY <1>0, <2>1, <2>2, <2>3
<1>8. ASSUME NEW u \in Sockets, Sampler(u)
      PROVE  /\ Untold(s)' <=> Untold(s)
             /\ Told(s)' <=> Told(s)
             /\ thread' = thread
             /\ reader'[s].stop = reader[s].stop
             /\ spc'[s] = "exited" => spc[s] = "exited" \/ reader[s].stop
  BY <1>8, SamplerMoves DEF Inv, mainVars, Untold, Told, Running
<1>9. CASE UNCHANGED vars
  BY <1>0, <1>9 DEF vars, Untold, Told
<1> QED
  BY <1>0, <1>1, <1>2, <1>3, <1>4, <1>5, <1>6, <1>7, <1>8, <1>9
  DEF Next, Main, Done

\* What joining does to a socket: the one that is joined does not run, and
\* no reader, whose sampler is gone, is written to by it any more.
LEMMA JoinedStep == Inv /\ [Next]_vars => JoinedAreGone'
<1> SUFFICES ASSUME Inv, [Next]_vars, NEW s \in Sockets, Joined(s)'
             PROVE  spc'[s] \notin Running
  BY DEF JoinedAreGone
<1>0. /\ i \in Sockets /\ j \in Sockets
      /\ thread \in [Sockets -> ThreadObjects]
      /\ spc \in [Sockets -> SamplerPoints]
      /\ Joined(s) => spc[s] \notin Running
      /\ Launched(i) =>
           /\ thread[i].started <=> spc[i] \in Running \cup {"exited"}
           /\ thread[i].started => thread[i].created
  BY DEF Inv, TypeOK, ThreadsAreKnown, JoinedAreGone
<1> USE DEF Collecting, Over
<1>1. CASE StopReader \/ ClearReader \/ ResetReader \/ StartSampler \/ Workload
  BY <1>1
  DEF StopReader, ClearReader, ResetReader, StartSampler, Workload, Joined,
      NextSocket
<1>2. CASE SignalStop
  BY <1>0, <1>2, NextSocketPasses, SocketSteps DEF SignalStop, Joined
<1>3. CASE JoinSampler
  <2>1. s <= i /\ (Joined(s) <=> s < i)
    BY <1>3 DEF JoinSampler, Joined
  <2>2. CASE s = i
    <3>1. Launched(i)
      BY <1>3 DEF JoinSampler, Launched, Starting
    <3> QED
      BY <1>0, <1>3, <2>2, <3>1 DEF JoinSampler, JoinWaits, Running
  <2>3. CASE s # i
    <3>1. spc'[s] = spc[s]
      BY <1>0, <1>3, <2>3 DEF JoinSampler
    <3>2. s < i
      BY <1>0, <2>1, <2>3, SocketSteps
    <3> QED
      BY <1>0, <2>1, <3>1, <3>2
  <2> QED
    BY <2>2, <2>3
<1>4. CASE CollectMean
  BY <1>0, <1>4 DEF CollectMean, Joined
<1>5. CASE CollectPeak
  <2>1. CASE j + 1 < NumSockets
    BY <1>0, <1>5, <2>1 DEF CollectPeak, Joined
  <2>2. CASE ~(j + 1 < NumSockets)
    <3>1. NextSocket("join", "report") /\ spc' = spc
      BY <1>5, <2>2 DEF CollectPeak
    <3>2. s <= i
      BY <1>0, <3>1, NextSocketPasses, SocketSteps DEF Joined
    <3> QED
      BY <1>0, <1>5, <3>1, <3>2 DEF CollectPeak, Joined
  <2> QED
    BY <2>1, <2>2
<1>6. CASE NextBenchmark
  BY <1>0, <1>6 DEF NextBenchmark, Joined
<1>7. ASSUME NEW u \in Sockets, Sampler(u)
      PROVE  Joined(s) /\ (spc'[s] \in Running => spc[s] \in Running)
  BY <1>7, SamplerMoves DEF Inv, mainVars, Joined, Running
<1>8. CASE UNCHANGED vars
  BY <1>0, <1>8 DEF vars, Joined
<1> QED
  BY <1>0, <1>1, <1>2, <1>3, <1>4, <1>5, <1>6, <1>7, <1>8 DEF Next, Main, Done

\* stop() and the last part of clearAndReset() write only the stop signal.
LEMMA StopOnly ==
  ASSUME TypeOK, StopReader \/ ResetReader \/ SignalStop, NEW s \in Sockets
  PROVE  /\ reader'[s].metricsOf = reader[s].metricsOf
         /\ reader'[s].trace = reader[s].trace
         /\ reader'[s].num = reader[s].num
<1>1. i \in Sockets /\ reader \in [Sockets -> Readers]
  BY DEF TypeOK
<1>2. \E b : reader' = [reader EXCEPT ![i].stop = b]
  <2>1. CASE StopReader
    BY <2>1 DEF StopReader
  <2>2. CASE ResetReader
    BY <2>2 DEF ResetReader
  <2>3. CASE SignalStop
    BY <2>3 DEF SignalStop
  <2> QED
    BY <2>1, <2>2, <2>3
<1> QED
  BY <1>1, <1>2 DEF Readers

LEMMA MetricsStep == Inv /\ [Next]_vars => MetricsMatchTrace'
<1> SUFFICES ASSUME Inv, [Next]_vars, NEW s \in Sockets,
                    spc'[s] # "metrics"
             PROVE  /\ reader'[s].metricsOf = reader'[s].trace
                    /\ reader'[s].num = Len(reader'[s].trace)
  BY DEF MetricsMatchTrace
<1>0. /\ i \in Sockets
      /\ reader \in [Sockets -> Readers]
      /\ spc \in [Sockets -> SamplerPoints]
      /\ spc[s] # "metrics" => /\ reader[s].metricsOf = reader[s].trace
                               /\ reader[s].num = Len(reader[s].trace)
  BY DEF Inv, TypeOK, MetricsMatchTrace
<1>1. CASE StopReader \/ ResetReader \/ SignalStop
  <2>1. /\ reader'[s].metricsOf = reader[s].metricsOf
        /\ reader'[s].trace = reader[s].trace
        /\ reader'[s].num = reader[s].num
        /\ spc' = spc
    BY <1>1, StopOnly DEF StopReader, ResetReader, SignalStop, Inv
  <2> QED
    BY <1>0, <2>1
<1>2. CASE ClearReader
  BY <1>0, <1>2 DEF ClearReader, Readers
<1>3. CASE StartSampler
  <2>1. spc[i] = "none"
    BY <1>0, <1>3, SocketSteps
    DEF StartSampler, Inv, ThreadsAreKnown, Launched, Starting
  <2>2. spc[s] # "metrics" /\ reader' = reader
    BY <1>0, <1>3, <2>1 DEF StartSampler
  <2> QED
    BY <1>0, <2>2
<1>4. CASE JoinSampler
  <2>1. Joined(i)'
    BY <1>0, <1>4, SocketSteps DEF JoinSampler, Joined, Collecting
  <2>2. spc'[i] \notin Running
    BY <1>0, <2>1, <1>4, JoinedStep DEF JoinedAreGone, JoinSampler
  <2>3. s # i => spc'[s] = spc[s]
    BY <1>0, <1>4 DEF JoinSampler
  <2>4. spc[s] = "metrics" => s # i
    BY <1>0, <1>4, <2>2
    DEF JoinSampler, Running, JoinWaits, Inv, ThreadsAreKnown, Launched, Starting
  <2> QED
    BY <1>0, <1>4, <2>3, <2>4 DEF JoinSampler
<1>5. CASE Workload \/ CollectMean \/ CollectPeak
  BY <1>0, <1>5 DEF Workload, CollectMean, CollectPeak
<1>6. CASE NextBenchmark
  <2>1. spc[s] \notin Running /\ reader' = reader
    BY <1>6 DEF NextBenchmark, Inv, JoinedAreGone, Joined, Over
  <2> QED
    BY <1>0, <2>1 DEF Running
<1>7. ASSUME NEW u \in Sockets, Sampler(u)
      PROVE  /\ reader'[s].metricsOf = reader'[s].trace
             /\ reader'[s].num = Len(reader'[s].trace)
  <2>1. CASE u # s
    <3>1. spc'[s] = spc[s] /\ reader'[s] = reader[s]
      BY <1>7, <2>1, SamplerMoves DEF Inv
    <3> QED
      BY <1>0, <3>1
  <2>2. CASE u = s
    <3>1. CASE CheckStop(s) \/ ReadCounter(s) \/ Wake(s)
      BY <1>0, <3>1 DEF CheckStop, ReadCounter, Wake
    <3>2. ~PushSample(s)
      BY <1>0 DEF PushSample
    <3>3. CASE CalculateMetrics(s)
      BY <1>0, <3>3 DEF CalculateMetrics, Readers
    <3> QED
      BY <1>7, <2>2, <3>1, <3>2, <3>3 DEF Sampler
  <2> QED
    BY <2>1, <2>2
<1>8. CASE UNCHANGED vars
  BY <1>0, <1>8 DEF vars
<1> QED
  BY <1>1, <1>2, <1>3, <1>4, <1>5, <1>6, <1>7, <1>8 DEF Next, Main, Done

LEMMA SamplesStep == Inv /\ [Next]_vars => SamplesAreOfBenchmark'
<1> SUFFICES ASSUME Inv, [Next]_vars, NEW s \in Sockets
             PROVE  /\ spc'[s] = "push" => sample'[s] = bench'
                    /\ Cleared(s)' => \A n \in 1..Len(reader'[s].trace) :
                                        reader'[s].trace[n] = bench'
  BY DEF SamplesAreOfBenchmark
<1>0. /\ i \in Sockets /\ sample \in [Sockets -> Benchmarks]
      /\ reader \in [Sockets -> Readers]
      /\ spc \in [Sockets -> SamplerPoints]
      /\ spc[s] = "push" => sample[s] = bench
      /\ Cleared(s) => \A n \in 1..Len(reader[s].trace) :
                         reader[s].trace[n] = bench
  BY DEF Inv, TypeOK, SamplesAreOfBenchmark
<1>1. CASE StopReader \/ ResetReader \/ SignalStop
  <2>1. reader'[s].trace = reader[s].trace /\ UNCHANGED <<spc, sample, bench>>
    BY <1>1, StopOnly
    DEF StopReader, ResetReader, SignalStop, Inv
  <2>2. Cleared(s)' => Cleared(s)
    BY <1>1
    DEF StopReader, ResetReader, SignalStop, Cleared, Starting, NextSocket
  <2> QED
    BY <1>0, <2>1, <2>2
<1>2. CASE ClearReader
  <2>1. UNCHANGED <<spc, sample, bench>>
    BY <1>2 DEF ClearReader
  <2>2. CASE s = i
    BY <1>0, <1>2, <2>1, <2>2 DEF ClearReader, Readers
  <2>3. CASE s # i
    BY <1>0, <1>2, <2>1, <2>3 DEF ClearReader, Cleared, Starting
  <2> QED
    BY <2>2, <2>3
<1>3. CASE StartSampler
  <2>1. UNCHANGED <<reader, sample, bench>> /\ (spc'[s] = "push" => spc[s] = "push")
    BY <1>0, <1>3 DEF StartSampler
  <2>2. Cleared(s)' => s <= i
    BY <1>0, <1>3, NextSocketPasses, SocketSteps
    DEF StartSampler, Cleared, Starting
  <2>3. s <= i => Cleared(s)
    BY <1>0, <1>3, SocketSteps DEF StartSampler, Cleared, Starting
  <2> QED
    BY <1>0, <2>1, <2>2, <2>3
<1>4. CASE Workload \/ JoinSampler \/ CollectMean \/ CollectPeak
  <2>1. UNCHANGED <<reader, sample, bench>> /\ (spc'[s] = "push" => spc[s] = "push")
    BY <1>0, <1>4 DEF Workload, JoinSampler, CollectMean, CollectPeak
  <2>2. Cleared(s)
    BY <1>4
    DEF Workload, JoinSampler, CollectMean, CollectPeak, Cleared, Starting
  <2> QED
    BY <1>0, <2>1, <2>2
<1>5. CASE NextBenchmark
  <2>1. spc'[s] # "push"
    BY <1>0, <1>5
    DEF NextBenchmark, Inv, JoinedAreGone, Joined, Over, Running
  <2>2. i = 0 /\ i' = 0 /\ reader' = reader /\ Cleared(s)
    BY <1>5 DEF NextBenchmark, Inv, LoopsAreReset, Over, Cleared, Starting
  <2>3. Cleared(s)' => bench' = bench
    BY <1>5, <2>2, SocketSteps DEF NextBenchmark, Cleared, Starting
  <2> QED
    BY <1>0, <2>1, <2>2, <2>3
<1>6. ASSUME NEW u \in Sockets, Sampler(u)
      PROVE  /\ spc'[s] = "push" => sample'[s] = bench'
             /\ Cleared(s)' => \A n \in 1..Len(reader'[s].trace) :
                                 reader'[s].trace[n] = bench'
  <2>1. (Cleared(s)' <=> Cleared(s)) /\ bench' = bench
    BY <1>6, SamplerMoves DEF Inv, mainVars, Cleared
  <2>2. CASE u # s
    <3>1. spc'[s] = spc[s] /\ reader'[s] = reader[s]
      BY <1>6, <2>2, SamplerMoves DEF Inv
    <3>2. sample'[s] = sample[s]
      BY <1>0, <1>6, <2>2
      DEF Sampler, CheckStop, ReadCounter, PushSample, CalculateMetrics, Wake
    <3> QED
      BY <1>0, <2>1, <3>1, <3>2
  <2>3. CASE u = s
    <3>1. CASE CheckStop(s) \/ ReadCounter(s) \/ Wake(s)
      BY <1>0, <2>1, <3>1 DEF CheckStop, ReadCounter, Wake, mainVars
    <3>2. CASE PushSample(s)
      <4>1. reader'[s].trace = Append(reader[s].trace, sample[s])
            /\ sample[s] = bench /\ spc'[s] = "metrics"
        BY <1>0, <3>2 DEF PushSample, Readers
      <4>2. reader[s].trace \in Seq(Benchmarks)
        BY <1>0 DEF Readers, Traces
      <4>3. ASSUME Cleared(s), NEW n \in 1..Len(reader'[s].trace)
            PROVE  reader'[s].trace[n] = bench
        <5>1. n \in 1..Len(reader[s].trace) \/ n = Len(reader[s].trace) + 1
          BY <4>1, <4>2
        <5> QED
          BY <1>0, <4>1, <4>2, <4>3, <5>1
      <4> QED
        BY <2>1, <4>1, <4>3
    <3>3. CASE CalculateMetrics(s)
      BY <1>0, <2>1, <3>3 DEF CalculateMetrics, Readers, mainVars
    <3> QED
      BY <1>6, <2>3, <3>1, <3>2, <3>3 DEF Sampler
  <2> QED
    BY <2>2, <2>3
<1>7. CASE UNCHANGED vars
  BY <1>0, <1>7 DEF vars, Cleared
<1> QED
  BY <1>1, <1>2, <1>3, <1>4, <1>5, <1>6, <1>7 DEF Next, Main, Done

LEMMA LoopsStep == Inv /\ [Next]_vars => LoopsAreReset'
<1> SUFFICES ASSUME Inv, [Next]_vars
             PROVE  LoopsAreReset'
  OBVIOUS
<1> USE DEF LoopsAreReset, Collecting, Over
<1>1. LoopsAreReset
  BY DEF Inv
<1>2. CASE Main
  BY <1>1, <1>2
  DEF Main, StopReader, ClearReader, ResetReader, StartSampler, Workload,
      SignalStop, JoinSampler, CollectMean, CollectPeak, NextBenchmark,
      NextSocket
<1>3. CASE \E s \in Sockets : Sampler(s)
  BY <1>1, <1>3, SamplerMoves DEF Inv, mainVars
<1>4. CASE UNCHANGED vars
  BY <1>1, <1>4 DEF vars
<1> QED
  BY <1>2, <1>3, <1>4 DEF Next, Done

\* As soon as one of the final results is there, no sampler runs.
LEMMA FinalComesLast ==
  ASSUME Inv, NEW s \in Sockets,
         \/ LastRound + s + 1 <= Len(mean)
         \/ LastRound + s + 1 <= Len(peak)
  PROVE  /\ pc \in Collecting \cup Over
         /\ pc \in Collecting => i = NumSockets - 1
         /\ \A u \in Sockets : spc[u] \notin Running
<1>1. i \in Sockets /\ j \in Sockets /\ pc \in Points
  BY DEF Inv, TypeOK
<1>2. ResultsAreCollected
  BY DEF Inv
<1>3. /\ LastRound \in Nat /\ Rounds \in Nat
      /\ i # NumSockets - 1 => Rounds + NumSockets <= LastRound
      /\ i = NumSockets - 1 => Rounds = LastRound
  BY <1>1, RoundSteps DEF Rounds, LastRound
<1>4. /\ NumSockets \in Nat \ {0} /\ s \in Nat /\ j \in Nat
      /\ j < NumSockets /\ i < NumSockets /\ i \in Nat
  BY <1>1, SocketSteps
<1>5. pc \in Collecting \cup Over
  <2>1. pc \notin Starting \cup {"work", "signal"}
    BY <1>2, <1>3, <1>4 DEF ResultsAreCollected
  <2>2. pc # "join"
    BY <1>2, <1>3, <1>4 DEF ResultsAreCollected
  <2> QED
    BY <1>1, <2>1, <2>2 DEF Points, Starting, Collecting, Over
<1>6. pc \in Collecting => i = NumSockets - 1
  BY <1>2, <1>3, <1>4 DEF ResultsAreCollected, Collecting
<1>7. \A u \in Sockets : Joined(u)
  BY <1>1, <1>5, <1>6, SocketSteps DEF Joined
<1> QED
  BY <1>5, <1>6, <1>7 DEF Inv, JoinedAreGone

\* One more result keeps what is final final: a new final result is of a
\* reader that is complete.
LEMMA FinalGrows ==
  ASSUME Inv, NEW results \in Seq(Traces), NEW s \in Sockets,
         Final(results, s), Len(results) = Rounds + j,
         pc \in Collecting
  PROVE  LastRound + s + 1 <= Len(results) + 1 =>
           Append(results, reader[j].metricsOf)[LastRound + s + 1]
             = reader[s].trace
<1> SUFFICES ASSUME LastRound + s + 1 <= Len(results) + 1
             PROVE  Append(results, reader[j].metricsOf)[LastRound + s + 1]
                      = reader[s].trace
  OBVIOUS
<1>1. i \in Sockets /\ j \in Sockets
  BY DEF Inv, TypeOK
<1>2. /\ LastRound \in Nat /\ Rounds \in Nat
      /\ i # NumSockets - 1 => Rounds + NumSockets <= LastRound
      /\ i = NumSockets - 1 => Rounds = LastRound
  BY <1>1, RoundSteps DEF Rounds, LastRound
<1>3. /\ NumSockets \in Nat \ {0} /\ s \in Nat /\ j \in Nat
      /\ j < NumSockets /\ i < NumSockets /\ i \in Nat
  BY <1>1, SocketSteps
<1>4. CASE LastRound + s + 1 <= Len(results)
  BY <1>2, <1>3, <1>4 DEF Final
<1>5. CASE LastRound + s + 1 = Len(results) + 1
  <2>1. i = NumSockets - 1 /\ s = j
    BY <1>2, <1>3, <1>5
  <2>2. Joined(j)
    BY <1>3, <2>1 DEF Joined
  <2>3. spc[j] \notin Running
    BY <1>1, <2>2 DEF Inv, JoinedAreGone
  <2>4. reader[j].metricsOf = reader[j].trace
    BY <1>1, <2>3 DEF Inv, MetricsMatchTrace, Running
  <2> QED
    BY <1>2, <1>3, <1>5, <2>1, <2>4
<1> QED
  BY <1>2, <1>3, <1>4, <1>5

\* Nothing that is final changes any more.
LEMMA FinalStays ==
  ASSUME Inv, UNCHANGED <<mean, peak>>, NEW s \in Sockets,
         spc[s] \notin Running /\ pc \in Collecting \cup Over =>
           reader'[s].trace = reader[s].trace
  PROVE  Final(mean, s)' /\ Final(peak, s)'
<1>1. Final(mean, s) /\ Final(peak, s)
  BY DEF Inv, ResultsAreCollected
<1> QED
  BY <1>1, FinalComesLast DEF Final, LastRound

LEMMA ResultsStep == Inv /\ [Next]_vars => ResultsAreCollected'
<1> SUFFICES ASSUME Inv, [Next]_vars
             PROVE  ResultsAreCollected'
  OBVIOUS
<1>0. /\ i \in Sockets /\ j \in Sockets
      /\ mean \in Seq(Traces) /\ peak \in Seq(Traces)
      /\ ResultsAreCollected /\ LoopsAreReset
  BY DEF Inv, TypeOK
<1>1. /\ NumSockets \in Nat \ {0} /\ i \in Nat /\ j \in Nat
      /\ i < NumSockets /\ j < NumSockets
      /\ LastRound \in Nat /\ Rounds \in Nat
      /\ (i + 1) * NumSockets = Rounds + NumSockets
      /\ 0 * NumSockets = 0
      /\ i = NumSockets - 1 => Rounds + NumSockets = NumSockets * NumSockets
      /\ \A s \in Sockets : s \in Nat
  <2>1. /\ NumSockets \in Nat \ {0} /\ i \in Nat /\ j \in Nat
        /\ i < NumSockets /\ j < NumSockets
        /\ \A s \in Sockets : s \in Nat
    BY <1>0, SocketSteps
  <2>2. /\ LastRound \in Nat /\ Rounds \in Nat
        /\ (i + 1) * NumSockets = Rounds + NumSockets
        /\ LastRound + NumSockets = NumSockets * NumSockets
        /\ i = NumSockets - 1 => Rounds = LastRound
    BY <1>0, RoundSteps DEF Rounds, LastRound
  <2>3. 0 * NumSockets = 0
    BY <2>1
  <2> QED
    BY <2>1, <2>2, <2>3
<1>2. CASE \/ StopReader \/ ClearReader \/ ResetReader \/ StartSampler
           \/ Workload \/ SignalStop
  <2>1. UNCHANGED <<mean, peak>> /\ pc \notin Collecting \cup Over
    BY <1>2
    DEF StopReader, ClearReader, ResetReader, StartSampler, Workload,
        SignalStop, Collecting, Over
  <2>2. \A s \in Sockets : Final(mean, s)' /\ Final(peak, s)'
    BY <2>1, FinalStays
  <2>3. Len(mean) = 0 /\ Len(peak) = 0
    BY <1>0, <1>2
    DEF StopReader, ClearReader, ResetReader, StartSampler, Workload,
        SignalStop, Starting, ResultsAreCollected
  <2>4. /\ pc' \in Starting \cup {"work", "signal", "join"}
        /\ pc' = "join" => i' = 0
    BY <1>2
    DEF StopReader, ClearReader, ResetReader, StartSampler, Workload,
        SignalStop, Starting, NextSocket
  <2>5. pc' = "join" => Rounds' = 0
    BY <1>1, <2>4 DEF Rounds
  <2> QED
    BY <2>1, <2>2, <2>3, <2>4, <2>5
    DEF ResultsAreCollected, Starting, Collecting, Over
<1>3. CASE JoinSampler
  <2>1. UNCHANGED <<mean, peak, reader, i, j>> /\ j = 0
        /\ pc = "join" /\ pc' = "collectMean"
    BY <1>0, <1>3 DEF JoinSampler, LoopsAreReset, Collecting
  <2>2. \A s \in Sockets : Final(mean, s)' /\ Final(peak, s)'
    BY <2>1, FinalStays
  <2>3. Rounds' = Rounds
    BY <2>1 DEF Rounds
  <2> QED
    BY <1>0, <1>1, <2>1, <2>2, <2>3
    DEF ResultsAreCollected, Starting, Collecting, Over
<1>4. CASE CollectMean
  <2>1. UNCHANGED <<peak, reader, i, j>> /\ pc \in Collecting
        /\ pc = "collectMean" /\ pc' = "collectPeak"
        /\ mean' = Append(mean, reader[j].metricsOf)
    BY <1>4 DEF CollectMean, Collecting
  <2>2. Len(mean) = Rounds + j /\ Len(peak) = Rounds + j
    BY <1>0, <2>1 DEF ResultsAreCollected
  <2>3. Len(mean') = Len(mean) + 1
    BY <1>0, <2>1
  <2>4. ASSUME NEW s \in Sockets
        PROVE  Final(mean, s)' /\ Final(peak, s)'
    <3>1. Final(mean, s) /\ Final(peak, s)
      BY <1>0 DEF ResultsAreCollected
    <3>2. LastRound + s + 1 <= Len(mean) + 1 =>
            mean'[LastRound + s + 1] = reader[s].trace
      BY <1>0, <2>1, <2>2, <3>1, FinalGrows
    <3> QED
      BY <2>1, <2>3, <3>1, <3>2 DEF Final, LastRound
  <2>5. Rounds' = Rounds
    BY <2>1 DEF Rounds
  <2> QED
    BY <1>1, <2>1, <2>2, <2>3, <2>4, <2>5
    DEF ResultsAreCollected, Starting, Collecting, Over
<1>5. CASE CollectPeak
  <2>1. UNCHANGED <<mean, reader>> /\ pc \in Collecting /\ pc = "collectPeak"
        /\ peak' = Append(peak, reader[j].metricsOf)
    BY <1>5 DEF CollectPeak, Collecting
  <2>2. Len(mean) = Rounds + j + 1 /\ Len(peak) = Rounds + j
    BY <1>0, <2>1 DEF ResultsAreCollected
  <2>3. Len(peak') = Len(peak) + 1
    BY <1>0, <2>1
  <2>4. ASSUME NEW s \in Sockets
        PROVE  Final(mean, s)' /\ Final(peak, s)'
    <3>1. Final(mean, s) /\ Final(peak, s)
      BY <1>0 DEF ResultsAreCollected
    <3>2. LastRound + s + 1 <= Len(peak) + 1 =>
            peak'[LastRound + s + 1] = reader[s].trace
      BY <1>0, <2>1, <2>2, <3>1, FinalGrows
    <3> QED
      BY <2>1, <2>3, <3>1, <3>2 DEF Final, LastRound
  <2>5. CASE j + 1 < NumSockets
    <3>1. pc' = "collectMean" /\ j' = j + 1 /\ Rounds' = Rounds
      BY <1>5, <2>5 DEF CollectPeak, Rounds
    <3> QED
      BY <1>1, <2>1, <2>2, <2>3, <2>4, <3>1
      DEF ResultsAreCollected, Starting, Collecting, Over
  <2>6. CASE ~(j + 1 < NumSockets)
    <3>1. j = NumSockets - 1 /\ j' = 0 /\ NextSocket("join", "report")
      BY <1>1, <1>5, <2>6 DEF CollectPeak
    <3>2. Len(mean') = Rounds + NumSockets /\ Len(peak') = Rounds + NumSockets
      BY <1>1, <2>1, <2>2, <2>3, <3>1
    <3>3. CASE i + 1 < NumSockets
      <4>1. pc' = "join" /\ Rounds' = Rounds + NumSockets
        BY <1>1, <3>1, <3>3 DEF NextSocket, Rounds
      <4> QED
        BY <2>4, <3>2, <4>1
        DEF ResultsAreCollected, Starting, Collecting, Over
    <3>4. CASE ~(i + 1 < NumSockets)
      <4>1. pc' = "report" /\ i = NumSockets - 1
        BY <1>1, <3>1, <3>4 DEF NextSocket
      <4> QED
        BY <1>1, <2>4, <3>2, <4>1
        DEF ResultsAreCollected, Starting, Collecting, Over
    <3> QED
      BY <3>3, <3>4
  <2> QED
    BY <2>5, <2>6
<1>6. CASE NextBenchmark
  <2>1. CASE bench < NumBenchmarks
    <3>1. pc' = "stopReader" /\ mean' = <<>> /\ peak' = <<>>
      BY <1>6, <2>1 DEF NextBenchmark
    <3>2. Len(mean') = 0 /\ Len(peak') = 0
      BY <3>1
    <3>3. ASSUME NEW s \in Sockets
          PROVE  Final(mean, s)' /\ Final(peak, s)'
      <4>1. ~(LastRound' + s + 1 <= 0)
        BY <1>1 DEF LastRound
      <4> QED
        BY <3>2, <4>1 DEF Final
    <3> QED
      BY <3>1, <3>2, <3>3
      DEF ResultsAreCollected, Starting, Collecting, Over
  <2>2. CASE ~(bench < NumBenchmarks)
    <3>1. pc = "report" /\ pc' = "done" /\ UNCHANGED <<mean, peak, reader>>
      BY <1>6, <2>2 DEF NextBenchmark
    <3>2. \A s \in Sockets : Final(mean, s)' /\ Final(peak, s)'
      BY <3>1, FinalStays
    <3> QED
      BY <1>0, <3>1, <3>2 DEF ResultsAreCollected, Starting, Collecting, Over
  <2> QED
    BY <2>1, <2>2
<1>7. CASE (\E u \in Sockets : Sampler(u)) \/ UNCHANGED vars
  <2>1. UNCHANGED mainVars
    BY <1>7, SamplerMoves DEF Inv, vars, mainVars
  <2>2. ASSUME NEW s \in Sockets, spc[s] \notin Running
        PROVE  reader'[s] = reader[s]
    BY <1>7, <2>2, SamplerMoves DEF Inv, vars
  <2>3. \A s \in Sockets : Final(mean, s)' /\ Final(peak, s)'
    BY <2>1, <2>2, FinalStays DEF mainVars
  <2>4. UNCHANGED <<pc, i, j, mean, peak>>
    BY <2>1 DEF mainVars
  <2> QED
    BY <1>0, <2>3, <2>4 DEF ResultsAreCollected, Rounds
<1> QED
  BY <1>2, <1>3, <1>4, <1>5, <1>6, <1>7 DEF Next, Main, Done

-----------------------------------------------------------------------------
(* The theorems.                                                           *)

\* The invariant of the samplers and of the loops that start and stop them.
THEOREM Invariance == Spec => []Inv
<1>1. Inv /\ [Next]_vars => Inv'
  BY TypeStep, ThreadsStep, StopsStep, JoinedStep, MetricsStep, SamplesStep,
     LoopsStep, ResultsStep
  DEF Inv
<1> QED
  BY InvInit, <1>1, PTL DEF Spec

\* For as long as the workload runs every sampler that could be started
\* samples: neither the stop() in clearAndReset() nor that of the benchmark
\* before reaches it.
THEOREM SamplingLasts == Spec => []SamplersRunThroughout
<1>1. ASSUME Inv, NEW s \in Sockets,
             \/ pc = "work"
             \/ pc \in {"stopReader", "clear", "reset", "start"} /\ s < i
      PROVE  thread[s].started => ~reader[s].stop /\ spc[s] \in Running
  <2>1. Launched(s) /\ Untold(s)
    BY <1>1 DEF Launched, Untold, Starting
  <2> QED
    BY <1>1, <2>1 DEF Inv, ThreadsAreKnown, StopsAreSignalled
<1>2. Inv => SamplersRunThroughout
  BY <1>1 DEF SamplersRunThroughout
<1> QED
  BY <1>2, Invariance, PTL

\* stopPowerThreads() leaves no sampler behind, so that clearAndReset() never
\* takes back the stop signal of one that still runs, although a thread that
\* was never resumed is not waited for and cannot always be cancelled.
THEOREM SamplersEnd == Spec => []NoSamplerOutlivesBenchmark
<1>1. ASSUME Inv, pc \in {"stopReader", "clear", "reset", "start"},
             NEW s \in Sockets, s >= i
      PROVE  spc[s] \notin Running
  <2>1. s \in Nat /\ i \in Nat
    BY <1>1, SocketSteps DEF Inv, TypeOK
  <2>2. ~Launched(s)
    BY <1>1, <2>1 DEF Launched, Starting
  <2> QED
    BY <1>1, <2>2 DEF Inv, ThreadsAreKnown, Running
<1>2. ASSUME Inv, pc \in {"report", "done"}, NEW s \in Sockets
      PROVE  spc[s] \notin Running
  BY <1>2 DEF Inv, JoinedAreGone, Joined, Over
<1>3. Inv => NoSamplerOutlivesBenchmark
  BY <1>1, <1>2 DEF NoSamplerOutlivesBenchmark
<1> QED
  BY <1>3, Invariance, PTL

\* Outside of the two critical sections of run(), mean, peak and number of
\* samples are those of the power trace.
THEOREM MetricsAreCurrent == Spec => []MetricsMatchTrace
<1>1. Inv => MetricsMatchTrace
  BY DEF Inv
<1> QED
  BY <1>1, Invariance, PTL

\* What a benchmark collected in its last round is of complete traces, which
\* hold its own samples and no others; with more than one socket, what it
\* collected before may not be, since other samplers still ran.
THEOREM CollectionIsComplete == Spec => []LastCollectionIsComplete
<1>1. ASSUME Inv, pc \in {"report", "done"}, NEW s \in Sockets,
             NEW k, k = (NumSockets - 1) * NumSockets + s + 1
      PROVE  /\ Len(mean) = NumSockets * NumSockets
             /\ Len(peak) = NumSockets * NumSockets
             /\ mean[k] = reader[s].trace
             /\ peak[k] = reader[s].trace
             /\ \A n \in DOMAIN mean[k] : mean[k][n] = bench
  <2>1. /\ Len(mean) = NumSockets * NumSockets
        /\ Len(peak) = NumSockets * NumSockets
        /\ Final(mean, s) /\ Final(peak, s)
    BY <1>1 DEF Inv, ResultsAreCollected, Over
  <2>2. LastRound + s + 1 <= NumSockets * NumSockets /\ k = LastRound + s + 1
    <3>1. LastRound \in Nat
          /\ LastRound + NumSockets = NumSockets * NumSockets
      BY <1>1, RoundSteps
    <3>2. s \in Nat /\ s < NumSockets /\ NumSockets \in Nat
      BY <1>1, SocketSteps
    <3> QED
      BY <1>1, <3>1, <3>2 DEF LastRound
  <2>3. mean[k] = reader[s].trace /\ peak[k] = reader[s].trace
    BY <2>1, <2>2 DEF Final
  <2>4. Cleared(s)
    BY <1>1 DEF Cleared, Starting
  <2>5. reader[s].trace \in Seq(Benchmarks)
    BY <1>1 DEF Inv, TypeOK, Readers, Traces
  <2>6. DOMAIN reader[s].trace = 1..Len(reader[s].trace)
    BY <2>5
  <2> QED
    BY <1>1, <2>1, <2>3, <2>4, <2>6 DEF Inv, SamplesAreOfBenchmark
<1>2. Inv => LastCollectionIsComplete
  BY <1>1 DEF LastCollectionIsComplete
<1> QED
  BY <1>2, Invariance, PTL

===============================================================================

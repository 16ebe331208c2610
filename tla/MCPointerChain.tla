---------------------------- MODULE MCPointerChain ----------------------------
(***************************************************************************)
(* Small benchmarks for TLC: one worker with every size of chunk and chains*)
(* of up to three chunks, and two workers side by side with the chunks that*)
(* make their passes short.                                                *)
(***************************************************************************)
EXTENDS PointerChain

Benchmark(kind, rw, windows, word, chunk, workers, pointers) ==
  [kind |-> kind, rw |-> rw, windows |-> windows, word |-> word,
   chunk |-> chunk, workers |-> workers,
   words |-> pointers * (chunk \div word)]

OneWorker ==
  {Benchmark("throughput", rw, FALSE, word, chunk, 1, pointers) :
     rw \in {"READ", "WRITE"}, word \in {4, 8}, chunk \in {16, 32, 64},
     pointers \in 1..3}
  \cup {Benchmark(kind, rw, windows, word, word, 1, pointers) :
          kind \in {"throughput", "latency"}, rw \in {"READ", "WRITE"},
          windows \in BOOLEAN, word \in {4, 8}, pointers \in 1..3}

Windows ==
  {Benchmark("throughput", rw, TRUE, 8, chunk, 1, 2) :
     rw \in {"READ", "WRITE"}, chunk \in {16, 32}}

TwoWorkers ==
  {Benchmark("throughput", rw, FALSE, 8, 32, 2, 2) : rw \in {"READ", "WRITE"}}
  \cup {Benchmark("latency", "WRITE", FALSE, 8, 16, 2, 1)}

MCSetups == OneWorker \cup Windows \cup TwoWorkers
===============================================================================

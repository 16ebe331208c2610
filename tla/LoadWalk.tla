------------------------------- MODULE LoadWalk -------------------------------
(***************************************************************************)
(* The addresses a load worker touches.  A worker has a part of the memory *)
(* region for itself and calls a sequential kernel over and over, each     *)
(* call on the next THROUGHPUT_BENCHMARK_BYTES_PER_PASS bytes of its part; *)
(* then it calls the dummy kernel as often, to subtract the loop overhead. *)
(*                                                                         *)
(* An address is a number.  What is read or written is left out.  The      *)
(* workers share nothing but addresses, so one worker is modelled, any of  *)
(* the Workers.  Random kernels are in PointerChain.                       *)
(***************************************************************************)
EXTENDS Integers, Sequences, Kernels

CONSTANTS
  PassBytes,      \* THROUGHPUT_BENCHMARK_BYTES_PER_PASS
  Choices,        \* the kernels to look at
  Workers,        \* num_worker_threads_
  RegionPages,    \* where a memory region may begin, in passes
  PartPages,      \* how long a worker's part may be, in passes
  PassesPerBatch, \* how many passes are timed at once: 1024 in the code
  MaxBatches      \* bound: how often the clock is read

ASSUME LoadWalkAssumption ==
  /\ PassBytes \in Nat \ {0}
  /\ \A c \in ChunkBytes : PassBytes % c = 0
  /\ Choices \subseteq AllChoices
  /\ Workers \in Nat \ {0}
  /\ RegionPages \subseteq Nat
  /\ PartPages \subseteq Nat \ {0}
  /\ PassesPerBatch \in Nat \ {0}
  /\ MaxBatches \in Nat \ {0}

VARIABLES
  choice,  \* the build, and what the benchmark asked for
  region,  \* mem_array_ of the benchmark
  me,      \* the number of this worker
  len,     \* len_per_thread
  phase,   \* "prime", "real", "dummy" or "done"
  pc,      \* "call", "loop" or "return"
  passes,  \* calls of the kernel
  p,       \* calls of the dummy kernel
  start,   \* start_address, the beginning of the pass
  wordptr, \* in the kernel
  i,       \* in a strided kernel: the words counted so far
  touched, \* history: the addresses of the words touched in this call
  moved,   \* history: how many accesses that took
  steps,   \* history: steps of the pointer in all passes, real and dummy
  pages    \* history: the offsets in the part at which the passes began

worker == <<choice, region, me, len>>
vars == <<worker, phase, pc, passes, p, start, wordptr, i,
          touched, moved, steps, pages>>

MemArray == region + me * len
PartEnd == MemArray + len

-----------------------------------------------------------------------------
(* The kernels that are not written in assembly language.                  *)

Kernel ==
  CASE phase = "prime" -> forwSequentialRead[4]
    [] phase = "dummy" -> PairOf(choice)[2]
    [] OTHER           -> PairOf(choice)[1]

Chunk == IF phase = "prime" THEN 4 ELSE choice.chunk

\* Where the call ends: a pass covers PassBytes, priming all of the part.
End == IF phase = "prime" THEN start + len ELSE start + PassBytes

Backward == Kernel.step < 0

Strided == Kernel.step \notin {1, -1}

Words == (End - start) \div Chunk

\* From one access to the next, in bytes.
Step == Kernel.step * Chunk

\* Mutant: every access of an iteration hits the next word.
AccessedConsecutively ==
  {wordptr + (IF Backward THEN -n ELSE n) * Chunk : n \in 0..Kernel.unroll-1}

\* The unrolled accesses of one iteration.
Accessed == {wordptr + n * Step : n \in 0..Kernel.unroll-1}

\* Mutant: the end is compared with > in place of >=.
WrappedLate(ptr) ==
  IF ~Strided THEN ptr
  ELSE IF Backward
       THEN (IF ptr < start THEN ptr + Words * Chunk ELSE ptr)
       ELSE (IF ptr > End THEN ptr - Words * Chunk ELSE ptr)

\* "end, modulo" of the strided kernels.
Wrapped(ptr) ==
  IF ~Strided THEN ptr
  ELSE IF Backward
       THEN (IF ptr <= start THEN ptr + Words * Chunk ELSE ptr)
       ELSE (IF ptr >= End THEN ptr - Words * Chunk ELSE ptr)

\* The condition of the loop, if the kernel has one.
More ==
  /\ Kernel.unroll # 0
  /\ IF Strided THEN i < Words
     ELSE IF Backward THEN wordptr > start ELSE wordptr < End

-----------------------------------------------------------------------------
(* LoadWorker::run().                                                      *)

PrimeCalls == 4

Init ==
  /\ choice \in Choices
  /\ region \in {n * PassBytes : n \in RegionPages}
  /\ me \in 0..Workers-1
  /\ len \in {n * PassBytes : n \in PartPages}
  /\ phase = "prime"
  /\ pc = "call"
  /\ passes = 0
  /\ p = 0
  /\ start = MemArray
  /\ wordptr = MemArray
  /\ i = 0
  /\ touched = {}
  /\ moved = 0
  /\ steps = [x \in {"real", "dummy"} |-> 0]
  /\ pages = [x \in {"real", "dummy"} |-> <<>>]

\* A kernel is called with start_address and end_address.
Call ==
  /\ pc = "call"
  /\ pc' = "loop"
  /\ wordptr' = (IF Backward THEN End ELSE start)
  /\ i' = 0
  /\ touched' = {}
  /\ moved' = 0
  /\ UNCHANGED <<worker, phase, passes, p, start, steps, pages>>

\* One iteration of the kernel's loop.  A dummy kernel touches nothing.
Iterate ==
  /\ pc = "loop"
  /\ More
  /\ wordptr' = Wrapped(wordptr + Kernel.unroll * Step)
  /\ i' = (IF Strided THEN i + Kernel.unroll ELSE i)
  /\ IF phase = "dummy"
     THEN UNCHANGED <<touched, moved>>
     ELSE /\ touched' = touched \cup Accessed
          /\ moved' = moved + Kernel.unroll
  /\ steps' = (IF phase = "prime" THEN steps
                ELSE [steps EXCEPT ![phase] = @ + Kernel.unroll])
  /\ UNCHANGED <<worker, phase, pc, passes, p, start, pages>>

Leave ==
  /\ pc = "loop"
  /\ ~More
  /\ pc' = "return"
  /\ UNCHANGED <<worker, phase, passes, p, start, wordptr, i, touched, moved,
                 steps, pages>>

ReturnFromPriming ==
  /\ phase = "prime"
  /\ pc = "return"
  /\ pc' = "call"
  /\ IF p + 1 < PrimeCalls
     THEN p' = p + 1 /\ phase' = phase
     ELSE p' = 0 /\ phase' = "real"
  /\ UNCHANGED <<worker, passes, start, wordptr, i, touched, moved, steps,
                 pages>>

\* Mutant: the passes do not wrap around.
NextStartUnwrapped == start + PassBytes

\* The address, not its offset in the part, is taken modulo the length.
NextStart == MemArray + ((start + PassBytes) % len)

WithPage == [pages EXCEPT ![phase] = Append(@, start - MemArray)]

\* Mutant: start_address is not reset before the dummy passes.
StartOfDummyKept == NextStart

StartOfDummy == MemArray

\* The clock is read once per batch.
ReturnFromPass ==
  /\ phase = "real"
  /\ pc = "return"
  /\ pc' = "call"
  /\ passes' = passes + 1
  /\ pages' = WithPage
  /\ \/ /\ passes' % PassesPerBatch # 0 \/ passes' < MaxBatches * PassesPerBatch
        /\ start' = NextStart
        /\ phase' = phase
     \/ /\ passes' % PassesPerBatch = 0
        /\ start' = StartOfDummy
        /\ phase' = "dummy"
  /\ UNCHANGED <<worker, p, wordptr, i, touched, moved, steps>>

DummyGoesOn(n) == n % PassesPerBatch # 0 \/ n < passes

ReturnFromDummy ==
  /\ phase = "dummy"
  /\ pc = "return"
  /\ p' = p + 1
  /\ pages' = WithPage
  /\ start' = NextStart
  /\ IF DummyGoesOn(p')
     THEN pc' = "call" /\ phase' = phase
     ELSE pc' = pc /\ phase' = "done"
  /\ UNCHANGED <<worker, passes, wordptr, i, touched, moved, steps>>

Done == phase = "done" /\ UNCHANGED vars

Next ==
  \/ Call \/ Iterate \/ Leave
  \/ ReturnFromPriming \/ ReturnFromPass \/ ReturnFromDummy
  \/ Done

Spec == Init /\ [][Next]_vars

-----------------------------------------------------------------------------

\* Types, and no more dummy passes than passes.
TypeOK ==
  /\ choice \in Choices
  /\ region \in Nat /\ len \in Nat \ {0} /\ me \in 0..Workers-1
  /\ phase \in {"prime", "real", "dummy", "done"}
  /\ pc \in {"call", "loop", "return"}
  /\ passes \in 0..MaxBatches * PassesPerBatch
  /\ p \in Nat /\ (phase \in {"real", "dummy", "done"} => p <= passes)
  /\ start \in Nat /\ wordptr \in Int /\ i \in Nat
  /\ touched \subseteq Int /\ moved \in Nat
  /\ steps \in [{"real", "dummy"} -> Nat]
  /\ pages \in [{"real", "dummy"} -> Seq(Int)]

\* Every pass lies in the part of the memory region that belongs to the
\* worker, although its start is computed modulo the length from an address
\* and not from an offset.
PassesStayInside == MemArray <= start /\ start + PassBytes <= PartEnd

\* The delay-injected kernels for 128 and 256 bits are missing on Windows:
\* "return 0; //TODO: Not yet implemented for Windows."
Missing(c) == c.windows /\ c.delay > 0 /\ c.chunk > 8

\* A call accesses as many bytes as the caller counts for it, whatever the
\* kernel, the size of its words, and how often its loop is unrolled, unless
\* it is a kernel that is missing on Windows.
CallMovesItsBytes ==
  /\ pc = "return"
  /\ phase = "prime" \/ (phase = "real" /\ ~Missing(choice))
  => moved * Chunk = End - start

\* A pass with stride s touches every s-th word and no other: the wrapping of
\* the pointer leads back to the beginning and not to the words between.
\* Backwards, the words are those that end, not begin, one stride apart.  A
\* kernel that is missing on Windows touches nothing.
StridedPassRepeats ==
  pc = "return" /\ phase = "real" /\ ~Missing(choice) =>
    LET stride == (IF choice.stride < 0 THEN -choice.stride ELSE choice.stride)
                    * choice.chunk
        Nth(n) == IF Backward THEN End - n * stride ELSE start + n * stride
    IN  touched = {Nth(n) : n \in 0..(PassBytes \div stride) - 1}

\* No worker touches anything beyond the first word after its part.
StaysNextToPart == \A a \in touched : MemArray <= a /\ a <= PartEnd

\* What is measured to be subtracted is the same loop: as many calls for the
\* same pages in the same order, and as many steps in them, but for a kernel
\* that is missing on Windows, whose dummy is not.
DummyMirrorsPasses ==
  phase = "done" => /\ p = passes
                    /\ pages["dummy"] = pages["real"]
                    /\ ~Missing(choice) => steps["dummy"] = steps["real"]

\* The worker uses all of its working set: after enough passes it has
\* visited every page of its part ("would use 512 MB of memory in total for
\* benchmarking", Configurator.h).
WorkingSetIsCovered ==
  phase = "dummy" /\ passes * PassBytes >= len =>
    {pages["real"][n] : n \in 1..Len(pages["real"])} =
      {n * PassBytes : n \in 0..(len \div PassBytes) - 1}

=============================================================================

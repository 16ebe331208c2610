----------------------------- MODULE PointerChain -----------------------------
(***************************************************************************)
(* Random access.  Before the workers start, the benchmark fills the parts *)
(* of the memory region with pointers: every chunk of a part points to     *)
(* itself, then the chunks are shuffled.  A worker chases the pointers of  *)
(* its part: it loads a chunk, stores it again where the benchmark writes, *)
(* and goes on at the address the chunk holds.  A latency benchmark builds *)
(* a chain of words in the part of its latency worker; its load workers    *)
(* are here only where they access memory at random too.                   *)
(*                                                                         *)
(* An address is the number of a word, and so is a pointer.  The shuffle   *)
(* may bring about any permutation.                                        *)
(***************************************************************************)
EXTENDS Integers, FiniteSets

CONSTANTS
  Setups,         \* the benchmarks to look at
  PassesPerBatch, \* 1024 for load workers and 256 for latency workers
  MaxBatches      \* bound: how often the clock is read

ChunkBytes == {4, 8, 16, 32, 64}

\* word: the bytes of a pointer, 8 if HAS_WORD_64; words: len_per_thread.
IsSetup(s) ==
  /\ s.kind \in {"throughput", "latency"}
  /\ s.rw \in {"READ", "WRITE"}
  /\ s.windows \in BOOLEAN
  /\ s.word \in {4, 8}
  /\ s.chunk \in {s.word, 16, 32, 64}
  /\ s.workers \in Nat \ {0}
  /\ s.words \in Nat \ {0}
  /\ s.words % (s.chunk \div s.word) = 0

ASSUME PointerChainAssumption ==
  /\ \A s \in Setups : IsSetup(s)
  /\ PassesPerBatch \in Nat \ {0}
  /\ MaxBatches \in Nat \ {0}

VARIABLES
  setup,  \* the benchmark
  built,  \* how many parts have their chain
  mem,    \* the memory region
  phase,  \* of each worker: "real", "dummy" or "done"
  pc,     \* of each worker: "call", "load", "store" or "return"
  next,   \* next_address, the end of the last pass
  ptr,    \* p, in the kernel
  val,    \* the chunk loaded
  hops,   \* history: how many loads this call has made
  passes, \* calls of the kernel
  dummies,\* p, calls of the dummy kernel
  due,    \* history: where the chain leads from the last chunk loaded
  killed  \* the process has accessed memory that is not there

memory == <<setup, built, mem>>
counts == <<phase, passes, dummies>>
vars == <<memory, counts, pc, next, ptr, val, hops, due, killed>>

Ones == -1 \* the filling of a chunk
Old == -2  \* whatever was there before

Workers == 0..setup.workers-1
Words == 0..setup.workers * setup.words - 1

MemArray(t) == t * setup.words

Part(t) == MemArray(t)..MemArray(t) + setup.words - 1

IsLatencyWorker(t) == setup.kind = "latency" /\ t = 0

\* chunk_size, as the permutation for this part is built with.
Chunk(t) == IF IsLatencyWorker(t) THEN setup.word ELSE setup.chunk

\* How many words a chunk has.
Width(t) == Chunk(t) \div setup.word

NumPointers(t) == setup.words \div Width(t)

\* Where the chunks begin.
Starts(t) == {MemArray(t) + i * Width(t) : i \in 0..NumPointers(t)-1}

-----------------------------------------------------------------------------
(* build_random_pointer_permutation().                                     *)

\* Mutant: the literals of the 128-bit case are those of the 256-bit case.
BaseCopied(t) == IF Chunk(t) \in {16, 64} THEN 32 \div setup.word ELSE Width(t)

\* How many words apart the pointers are put: i, i*2, i*4 or i*8.  The
\* 512-bit case has the literals of the 256-bit case.
Base(t) == IF Chunk(t) = 64 THEN 32 \div setup.word ELSE Width(t)

\* The word at offset o after the loop "identity mapping": each turn of it
\* writes a pointer and fills the rest of the chunk.
Identity(t, o) ==
  LET turns == {i \in 0..NumPointers(t)-1 :
                  i * Base(t) <= o /\ o < i * Base(t) + Width(t)}
      last == CHOOSE i \in turns : \A j \in turns : j <= i
  IN  CASE turns = {} -> Old
        [] turns # {} /\ o = last * Base(t) -> MemArray(t) + o
        [] OTHER -> Ones

\* std::shuffle() on chunks.
Permutations(t) ==
  LET ids == 0..NumPointers(t)-1
  IN  {f \in [ids -> ids] : \A i, j \in ids : i # j => f[i] # f[j]}

Shuffled(t, f) ==
  [a \in Words |->
     IF a \notin Part(t) THEN mem[a]
     ELSE LET o == a - MemArray(t)
          IN  IF o \div Width(t) \in DOMAIN f
              THEN Identity(t, f[o \div Width(t)] * Width(t) + (o % Width(t)))
              ELSE Identity(t, o)]

\* Mutant: every chain is built in the first part.
FirstPartAgain == 0

\* The runCore()s build a chain for every part in order ...
NextPart == built

Build ==
  /\ built < setup.workers
  /\ \E f \in Permutations(NextPart) : mem' = Shuffled(NextPart, f)
  /\ built' = built + 1
  /\ UNCHANGED <<setup, counts, pc, next, ptr, val, hops, due, killed>>

\* ... and only then start the workers.
Running == built = setup.workers /\ ~killed

-----------------------------------------------------------------------------
(* The random kernels.                                                     *)

\* Mutant: the 256-bit kernels have the literal of the 128-bit ones.
UnrollCopied(t) ==
  CASE IsLatencyWorker(t) -> 512
    [] ~IsLatencyWorker(t) /\ setup.chunk = 4 -> 1024
    [] ~IsLatencyWorker(t) /\ setup.chunk = 8 -> 512
    [] OTHER -> IF setup.windows THEN 0
                ELSE CASE setup.chunk = 16 -> 256 [] setup.chunk = 32 -> 256
                       [] setup.chunk = 64 -> 64

\* The literals of the UNROLL macros.  For Windows the wide kernels are not
\* written yet and return at once.
Unroll(t) ==
  CASE IsLatencyWorker(t) -> 512
    [] ~IsLatencyWorker(t) /\ setup.chunk = 4 -> 1024
    [] ~IsLatencyWorker(t) /\ setup.chunk = 8 -> 512
    [] OTHER -> IF setup.windows THEN 0
                ELSE CASE setup.chunk = 16 -> 256 [] setup.chunk = 32 -> 128
                       [] setup.chunk = 64 -> 64

Stores(t) == ~IsLatencyWorker(t) /\ setup.rw = "WRITE"

Call(t) ==
  /\ Running
  /\ phase[t] = "real"
  /\ pc[t] = "call"
  /\ pc' = [pc EXCEPT ![t] = IF Unroll(t) = 0 THEN "return" ELSE "load"]
  /\ ptr' = [ptr EXCEPT ![t] = next[t]]
  /\ hops' = [hops EXCEPT ![t] = 0]
  /\ UNCHANGED <<memory, counts, next, val, due, killed>>

\* A chunk can be loaded from where one may begin; anything else is not in
\* the region or not aligned.
Loadable(t) ==
  /\ ptr[t] \in Words
  /\ ptr[t] + Width(t) - 1 \in Words
  /\ ptr[t] % Width(t) = 0

\* After the last of the unrolled steps the kernel hands back where it is.
Advance(t, to, n) ==
  /\ ptr' = [ptr EXCEPT ![t] = to]
  /\ IF n < Unroll(t)
     THEN pc' = [pc EXCEPT ![t] = "load"] /\ next' = next
     ELSE pc' = [pc EXCEPT ![t] = "return"] /\ next' = [next EXCEPT ![t] = to]

Load(t) ==
  /\ Running
  /\ pc[t] = "load"
  /\ Loadable(t)
  /\ hops' = [hops EXCEPT ![t] = @ + 1]
  /\ due' = [due EXCEPT ![t] = mem[ptr[t]]]
  /\ IF Stores(t)
     THEN /\ val' = [val EXCEPT ![t] = [w \in 0..Width(t)-1 |-> mem[ptr[t] + w]]]
          /\ pc' = [pc EXCEPT ![t] = "store"]
          /\ UNCHANGED <<ptr, next>>
     ELSE /\ Advance(t, mem[ptr[t]], hops[t] + 1)
          /\ val' = val
  /\ UNCHANGED <<memory, counts, killed>>

\* Mutant: the chunk is stored where it points to.
StoreAtSuccessor(t) ==
  [a \in Words |-> IF a - val[t][0] \in 0..Width(t)-1
                   THEN val[t][a - val[t][0]] ELSE mem[a]]

Stored(t) ==
  [a \in Words |-> IF a - ptr[t] \in 0..Width(t)-1
                   THEN val[t][a - ptr[t]] ELSE mem[a]]

Store(t) ==
  /\ Running
  /\ pc[t] = "store"
  /\ mem' = Stored(t)
  /\ Advance(t, val[t][0], hops[t])
  /\ UNCHANGED <<setup, built, counts, val, hops, due, killed>>

\* The chain has led out of the region: the operating system ends the
\* process.
Fault(t) ==
  /\ Running
  /\ pc[t] = "load"
  /\ ~Loadable(t)
  /\ killed' = TRUE
  /\ UNCHANGED <<memory, counts, pc, next, ptr, val, hops, due>>

-----------------------------------------------------------------------------
(* LoadWorker::run() and LatencyWorker::run().                             *)

Init ==
  /\ setup \in Setups
  /\ built = 0
  /\ mem = [a \in Words |-> Old]
  /\ phase = [t \in Workers |-> "real"]
  /\ pc = [t \in Workers |-> "call"]
  /\ next = [t \in Workers |-> MemArray(t)]
  /\ ptr = [t \in Workers |-> MemArray(t)]
  /\ val = [t \in Workers |-> <<>>]
  /\ hops = [t \in Workers |-> 0]
  /\ passes = [t \in Workers |-> 0]
  /\ dummies = [t \in Workers |-> 0]
  /\ due = [t \in Workers |-> MemArray(t)]
  /\ killed = FALSE

\* Mutant: every pass begins at the beginning of the part.
NextAddressReset(t) == [next EXCEPT ![t] = MemArray(t)]

\* The next pass goes on where this one ended.
NextAddress(t) == next

\* The clock is read once per batch.
ReturnFromPass(t) ==
  /\ Running
  /\ phase[t] = "real"
  /\ pc[t] = "return"
  /\ pc' = [pc EXCEPT ![t] = "call"]
  /\ passes' = [passes EXCEPT ![t] = @ + 1]
  /\ \/ /\ \/ passes'[t] % PassesPerBatch # 0
           \/ passes'[t] < MaxBatches * PassesPerBatch
        /\ next' = NextAddress(t)
        /\ phase' = phase
     \/ /\ passes'[t] % PassesPerBatch = 0
        /\ next' = [next EXCEPT ![t] = MemArray(t)]
        /\ phase' = [phase EXCEPT ![t] = "dummy"]
  /\ UNCHANGED <<memory, dummies, ptr, val, hops, due, killed>>

\* A dummy kernel leaves next_address alone.
DummyPass(t) ==
  /\ Running
  /\ phase[t] = "dummy"
  /\ dummies' = [dummies EXCEPT ![t] = @ + 1]
  /\ phase' = [phase EXCEPT ![t] =
                 IF dummies'[t] % PassesPerBatch = 0 /\ dummies'[t] >= passes[t]
                 THEN "done" ELSE "dummy"]
  /\ UNCHANGED <<memory, passes, pc, next, ptr, val, hops, due, killed>>

Stopped ==
  /\ killed \/ \A t \in Workers : phase[t] = "done"
  /\ UNCHANGED vars

Next ==
  \/ Build
  \/ \E t \in Workers :
       \/ Call(t) \/ Load(t) \/ Store(t) \/ Fault(t)
       \/ ReturnFromPass(t) \/ DummyPass(t)
  \/ Stopped

Spec == Init /\ [][Next]_vars

-----------------------------------------------------------------------------

\* Chunks of 512 bits are not laid out as they are shuffled.
SoundLayout == setup.chunk # 64

\* The pointers of a part lead to the chunks of this part and each of them to
\* another: the chain is a permutation, and stays one while workers chase it
\* and store what they load, in this part and the parts beside it.
ChainIsPermutation ==
  SoundLayout => \A t \in 0..built-1 : {mem[a] : a \in Starts(t)} = Starts(t)

\* "Note that the pointers for each thread must stay within its respective
\* region, otherwise sharing may occur" (ThroughputBenchmark.cpp:98): no
\* worker ever loads from anywhere but a chunk of its own part, in whatever
\* order the workers run.
StaysHome ==
  SoundLayout => /\ ~killed
                 /\ \A t \in Workers : pc[t] \in {"load", "store"} =>
                      ptr[t] \in Starts(t)

\* The accesses of all passes form one chain, each at the address that the
\* one before it loaded: what latency is measured of.
OneLongChase ==
  \A t \in Workers :
    phase[t] = "real" /\ pc[t] = "load" => ptr[t] = due[t]

\* A pass moves as many bytes as the load worker counts for it (4096), and
\* makes as many accesses as runCore() counts for a latency worker.  The wide
\* kernels are missing on Windows.
PassDoesWhatIsCounted ==
  \A t \in Workers :
    phase[t] = "real" /\ pc[t] = "return" /\ ~(setup.windows /\ Chunk(t) > 8) =>
      IF IsLatencyWorker(t) THEN hops[t] = (512 * 8) \div 8
                            ELSE hops[t] * Chunk(t) = 4096

===============================================================================

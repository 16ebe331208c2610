-------------------------- MODULE PointerChain_proofs --------------------------
(***************************************************************************)
(* Theorems about PointerChain, for every size of the region, number of    *)
(* workers, chunk but the widest, and every outcome of the shuffles: the   *)
(* pointers of a part are always a permutation of its chunks, no worker    *)
(* leaves its part, and the accesses of a worker form one chain.  And of   *)
(* every chunk: a pass accesses what is counted for it.                    *)
(***************************************************************************)
EXTENDS PointerChain, FiniteSetTheorems, TLAPS

-----------------------------------------------------------------------------
(* Arithmetic.                                                             *)

\* A multiple divided by what it is a multiple of.
LEMMA Multiples ==
  ASSUME NEW i \in Nat, NEW w \in Nat \ {0}
  PROVE  i * w \in Nat /\ (i * w) \div w = i /\ (i * w) % w = 0
<1>1. i * w \in Nat
  OBVIOUS
<1> DEFINE n == i * w
           q == n \div w
           r == n % w
<1>2. q \in Int /\ r \in 0..w-1 /\ n = w * q + r
  <2> HIDE DEF n
  <2> QED  BY <1>1, Z3 DEF n
<1>3. r = w * (i - q)
  BY <1>2, Z3
<1>4. i - q = 0
  <2>1. CASE i - q >= 1
    <3>1. w * (i - q) >= w
      BY <1>2, <2>1, Z3
    <3> QED  BY <3>1, <1>2, <1>3
  <2>2. CASE i - q <= -1
    <3>1. w * (i - q) <= -w
      BY <1>2, <2>2, Z3
    <3> QED  BY <3>1, <1>2, <1>3
  <2> QED  BY <2>1, <2>2, <1>2
<1> QED  BY <1>1, <1>2, <1>3, <1>4, Z3

\* Two multiples of w less than w apart are the same.
LEMMA SameMultiple ==
  ASSUME NEW i \in Nat, NEW j \in Nat, NEW w \in Nat \ {0},
         j * w <= i * w, i * w < j * w + w
  PROVE  j = i
<1>1. CASE j >= i + 1
  <2>1. j * w >= (i + 1) * w
    BY <1>1, Z3
  <2>2. (i + 1) * w = i * w + w
    BY Z3
  <2> QED  BY <2>1, <2>2
<1>2. CASE j + 1 <= i
  <2>1. i * w >= (j + 1) * w
    BY <1>2, Z3
  <2>2. (j + 1) * w = j * w + w
    BY Z3
  <2> QED  BY <2>1, <2>2
<1> QED  BY <1>1, <1>2

-----------------------------------------------------------------------------
(* The layout of a region.                                                 *)

\* What is known of the setup of a benchmark and its workers.
SetupOK ==
  /\ IsSetup(setup)
  /\ setup.chunk # 64

\* A part is made of whole chunks.
LEMMA WholeChunks ==
  ASSUME SetupOK, NEW t \in Workers
  PROVE  /\ t \in Nat /\ Width(t) \in Nat \ {0}
         /\ NumPointers(t) \in Nat \ {0}
         /\ setup.words = NumPointers(t) * Width(t)
         /\ setup.words \in Nat \ {0} /\ MemArray(t) \in Nat
         /\ Base(t) = Width(t)
<1>1. /\ setup.words \in Nat \ {0} /\ setup.word \in {4, 8}
      /\ setup.chunk \in {setup.word, 16, 32} /\ setup.workers \in Nat \ {0}
      /\ setup.words % (setup.chunk \div setup.word) = 0
  BY DEF SetupOK, IsSetup
<1>2. t \in Nat
  BY <1>1 DEF Workers
<1>3. Chunk(t) \in {setup.word, setup.chunk}
  BY DEF Chunk
<1>4. Width(t) \in {1, 2, 4, 8}
  BY <1>1, <1>3, SMT DEF Width
<1>5. setup.words % Width(t) = 0
  <2>1. CASE Chunk(t) = setup.chunk
    BY <2>1, <1>1 DEF Width
  <2>2. CASE Chunk(t) = setup.word
    <3>1. Width(t) = 1
      BY <2>2, <1>1 DEF Width
    <3> QED  BY <3>1, <1>1, Z3
  <2> QED  BY <1>3, <2>1, <2>2
<1>6. /\ NumPointers(t) \in Nat \ {0}
      /\ setup.words = NumPointers(t) * Width(t)
  BY <1>1, <1>4, <1>5, Z3 DEF NumPointers
<1>7. MemArray(t) \in Nat
  BY <1>1, <1>2, Z3 DEF MemArray
<1>8. Base(t) = Width(t)
  BY <1>1, <1>3 DEF Base
<1> QED  BY <1>1, <1>2, <1>4, <1>6, <1>7, <1>8

\* A chunk lies in its part, and a chunk can be loaded from there.
LEMMA StartsInPart ==
  ASSUME SetupOK, NEW t \in Workers, NEW a \in Starts(t)
  PROVE  /\ a \in Nat /\ a \in Part(t) /\ a + Width(t) - 1 \in Part(t)
         /\ a % Width(t) = 0
<1>1. PICK i \in 0..NumPointers(t)-1 : a = MemArray(t) + i * Width(t)
  BY DEF Starts
<1> DEFINE w == Width(t)
           n == NumPointers(t)
<1>2. /\ t \in Nat /\ w \in Nat \ {0} /\ n \in Nat \ {0} /\ MemArray(t) \in Nat
      /\ setup.words = n * w /\ MemArray(t) = t * setup.words
  BY WholeChunks DEF MemArray
<1> HIDE DEF w, n
<1>3. i \in Nat /\ i + 1 <= n
  BY <1>1, <1>2 DEF n
<1>4. i * w >= 0 /\ i * w + w <= n * w
  <2>1. (i + 1) * w <= n * w
    BY <1>2, <1>3, Z3
  <2>2. (i + 1) * w = i * w + w /\ i * w >= 0
    BY <1>2, <1>3, Z3
  <2> QED  BY <2>1, <2>2
<1>5. i * w \in Nat /\ n * w \in Nat /\ a = MemArray(t) + i * w
  BY <1>1, <1>2, <1>3 DEF w
<1>6. a \in MemArray(t)..MemArray(t) + n * w - 1
  BY <1>2, <1>4, <1>5
<1>7. a + w - 1 \in MemArray(t)..MemArray(t) + n * w - 1
  BY <1>2, <1>4, <1>5
<1>8. a % w = 0
  <2>1. t * (n * w) = (t * n) * w
    BY <1>2, Z3
  <2>2. a = (t * n + i) * w
    BY <1>2, <1>3, <1>5, <2>1, Z3
  <2>3. t * n + i \in Nat
    BY <1>2, <1>3, Z3
  <2> QED  BY <2>2, <2>3, <1>2, Multiples
<1> QED  BY <1>2, <1>5, <1>6, <1>7, <1>8 DEF Part, w

\* The part of a worker lies in the region.
LEMMA PartInRegion ==
  ASSUME SetupOK, NEW t \in Workers
  PROVE  Part(t) \subseteq Words
<1> DEFINE L == setup.words
           n == setup.workers
<1>1. L \in Nat \ {0} /\ n \in Nat \ {0} /\ t \in Nat /\ t + 1 <= n
  BY DEF SetupOK, IsSetup, Workers
<1> HIDE DEF L, n
<1>2. t * L + L <= n * L
  <2>1. (t + 1) * L <= n * L
    BY <1>1, Z3
  <2>2. (t + 1) * L = t * L + L
    BY <1>1, Z3
  <2> QED  BY <2>1, <2>2
<1>3. t * L \in Nat /\ n * L \in Nat
  BY <1>1, Z3
<1>4. t * L..t * L + L - 1 \subseteq 0..n * L - 1
  BY <1>1, <1>2, <1>3
<1> QED  BY <1>4 DEF Part, MemArray, Words, L, n

\* The parts of two workers have nothing in common.
LEMMA PartsApart ==
  ASSUME SetupOK, NEW t \in Workers, NEW u \in Workers, u < t,
         NEW a \in Part(u)
  PROVE  a \notin Part(t)
<1> DEFINE L == setup.words
<1>1. L \in Nat \ {0} /\ t \in Nat /\ u \in Nat /\ u + 1 <= t
  BY DEF SetupOK, IsSetup, Workers
<1>2. a \in u * L..u * L + L - 1
  BY DEF Part, MemArray
<1> HIDE DEF L
<1>3. u * L + L <= t * L
  <2>1. (u + 1) * L <= t * L
    BY <1>1, Z3
  <2>2. (u + 1) * L = u * L + L
    BY <1>1, Z3
  <2> QED  BY <2>1, <2>2
<1>4. u * L \in Nat /\ t * L \in Nat
  BY <1>1, Z3
<1>5. a < t * L
  BY <1>1, <1>2, <1>3, <1>4
<1>6. a \notin t * L..t * L + L - 1
  BY <1>1, <1>4, <1>5
<1> QED  BY <1>6 DEF Part, MemArray, L

-----------------------------------------------------------------------------
(* Building a chain.                                                       *)

\* The loop makes every chunk point to itself.
LEMMA IdentityMapping ==
  ASSUME SetupOK, NEW t \in Workers, NEW i \in 0..NumPointers(t)-1
  PROVE  Identity(t, i * Width(t)) = MemArray(t) + i * Width(t)
<1> DEFINE w == Width(t)
           o == i * w
           turns == {j \in 0..NumPointers(t)-1 : j * Base(t) <= o /\ o < j * Base(t) + w}
           last == CHOOSE j \in turns : \A k \in turns : k <= j
<1>1. /\ w \in Nat \ {0} /\ NumPointers(t) \in Nat \ {0} /\ Base(t) = w
  BY WholeChunks
<1>2. i \in Nat /\ o \in Nat
  BY <1>1, Z3
<1>3. i \in turns
  BY <1>1, <1>2
<1>4. \A j \in turns : j = i
  <2> SUFFICES ASSUME NEW j \in turns PROVE j = i
    OBVIOUS
  <2>1. j \in Nat /\ j * w <= i * w /\ i * w < j * w + w
    BY <1>1
  <2> QED  BY <2>1, <1>1, <1>2, SameMultiple
<1>5. turns = {i}
  BY <1>3, <1>4
<1>6. last = i
  <2> HIDE DEF turns
  <2> QED  BY <1>2, <1>5
<1>7. last * Base(t) = o
  BY <1>1, <1>6
<1>8. Identity(t, o) = MemArray(t) + o
  <2> HIDE DEF last, o
  <2>1. Identity(t, o) = CASE turns = {} -> Old
                           [] turns # {} /\ o = last * Base(t) -> MemArray(t) + o
                           [] OTHER -> Ones
    BY DEF Identity, last
  <2> QED  BY <2>1, <1>5, <1>7
<1> QED  BY <1>8

\* The shuffle moves the pointers about as it permutes the chunks.
LEMMA ShuffledChunks ==
  ASSUME SetupOK, NEW t \in Workers, NEW f \in Permutations(t),
         NEW i \in 0..NumPointers(t)-1
  PROVE  /\ f[i] \in 0..NumPointers(t)-1
         /\ Shuffled(t, f)[MemArray(t) + i * Width(t)] =
              MemArray(t) + f[i] * Width(t)
<1> DEFINE w == Width(t)
           a == MemArray(t) + i * w
<1>1. /\ w \in Nat \ {0} /\ NumPointers(t) \in Nat \ {0} /\ MemArray(t) \in Nat
  BY WholeChunks
<1>2. i \in Nat /\ f \in [0..NumPointers(t)-1 -> 0..NumPointers(t)-1]
  BY <1>1 DEF Permutations
<1>3. f[i] \in 0..NumPointers(t)-1 /\ f[i] \in Nat
  BY <1>1, <1>2
<1>4. i * w \in Nat /\ (i * w) \div w = i /\ (i * w) % w = 0
  BY <1>1, <1>2, Multiples
<1>5. a - MemArray(t) = i * w
  BY <1>1, <1>4
<1>6. a \in Starts(t)
  BY DEF Starts
<1>7. a \in Part(t) /\ a \in Words
  BY <1>6, StartsInPart, PartInRegion
<1>8. f[i] * w + 0 = f[i] * w
  BY <1>1, <1>3, Z3
<1>9. Shuffled(t, f)[a] = Identity(t, f[i] * w)
  <2>1. Shuffled(t, f)[a] =
          LET o == a - MemArray(t)
          IN  IF o \div Width(t) \in DOMAIN f
              THEN Identity(t, f[o \div Width(t)] * Width(t) + (o % Width(t)))
              ELSE Identity(t, o)
    BY <1>7 DEF Shuffled
  <2>2. DOMAIN f = 0..NumPointers(t)-1
    BY <1>2
  <2> QED  BY <2>1, <2>2, <1>4, <1>5, <1>8
<1> QED  BY <1>3, <1>9, IdentityMapping

\* So the pointers are a permutation: on a finite set an injection reaches
\* everything.
LEMMA ShuffleIsPermutation ==
  ASSUME SetupOK, NEW t \in Workers, NEW f \in Permutations(t)
  PROVE  {Shuffled(t, f)[a] : a \in Starts(t)} = Starts(t)
<1> DEFINE ids == 0..NumPointers(t)-1
           At(i) == MemArray(t) + i * Width(t)
           new == Shuffled(t, f)
<1>1. f \in [ids -> ids] /\ \A i, j \in ids : i # j => f[i] # f[j]
  BY DEF Permutations
<1>2. \A j \in ids : \E i \in ids : f[i] = j
  <2>1. IsFiniteSet(ids)
    BY WholeChunks, FS_Interval
  <2>2. f \in Injection(ids, ids)
    BY <1>1 DEF Injection, IsInjective
  <2>3. f \in Surjection(ids, ids)
    BY <2>1, <2>2, FS_Injection
  <2> QED  BY <2>3 DEF Surjection
<1>3. \A i \in ids : f[i] \in ids /\ new[At(i)] = At(f[i])
  BY ShuffledChunks
<1>4. Starts(t) = {At(i) : i \in ids}
  BY DEF Starts
<1> HIDE DEF ids, At, new
<1>5. {new[a] : a \in Starts(t)} = {At(f[i]) : i \in ids}
  BY <1>3, <1>4
<1>6. {At(f[i]) : i \in ids} = {At(i) : i \in ids}
  <2>1. \A i \in ids : At(f[i]) \in {At(j) : j \in ids}
    BY <1>3
  <2>2. \A j \in ids : At(j) \in {At(f[i]) : i \in ids}
    BY <1>2, Zenon
  <2> QED  BY <2>1, <2>2
<1> QED  BY <1>4, <1>5, <1>6 DEF new

-----------------------------------------------------------------------------
(* The chase.                                                              *)

Chained(t) == {mem[a] : a \in Starts(t)} = Starts(t)

\* What the workers' variables say of the chain: a worker is at a chunk of
\* its own part, holds what is in memory there, and goes on where the last
\* access has led.
Chasing(t) ==
  /\ next[t] \in Starts(t) /\ ptr[t] \in Starts(t)
  /\ pc[t] = "store" => /\ val[t] = [w \in 0..Width(t)-1 |-> mem[ptr[t] + w]]
                        /\ due[t] = mem[ptr[t]]
  /\ phase[t] = "real" /\ pc[t] \in {"call", "return"} => due[t] = next[t]
  /\ phase[t] = "real" /\ pc[t] = "load" => due[t] = ptr[t]
  /\ pc[t] \in {"load", "store"} => phase[t] = "real"

ChaseTypes ==
  /\ built \in 0..setup.workers
  /\ mem = [a \in Words |-> mem[a]]
  /\ next \in [Workers -> Int] /\ ptr \in [Workers -> Int]
  /\ due = [t \in Workers |-> due[t]]
  /\ val = [t \in Workers |-> val[t]]
  /\ phase \in [Workers -> {"real", "dummy", "done"}]
  /\ pc \in [Workers -> {"call", "load", "store", "return"}]

Home ==
  /\ ChaseTypes
  /\ ~killed
  /\ built < setup.workers => \A t \in Workers : pc[t] = "call"
  /\ \A t \in 0..built-1 : Chained(t)
  /\ \A t \in Workers : Chasing(t)

ChainInv == setup \in Setups /\ (SoundLayout => Home)

\* A part begins with a chunk.
LEMMA FirstChunk ==
  ASSUME SetupOK, NEW t \in Workers
  PROVE  MemArray(t) \in Starts(t) /\ MemArray(t) \in Int
<1>1. /\ Width(t) \in Nat /\ NumPointers(t) \in Nat \ {0}
      /\ MemArray(t) \in Nat
  BY WholeChunks
<1>2. MemArray(t) = MemArray(t) + 0 * Width(t) /\ 0 \in 0..NumPointers(t)-1
  BY <1>1, Z3
<1> QED  BY <1>1, <1>2 DEF Starts

\* Nothing moves when the setup stays.
LEMMA SameSetup ==
  ASSUME setup' = setup
  PROVE  /\ Workers' = Workers /\ Words' = Words
         /\ \A t : /\ Width(t)' = Width(t) /\ Starts(t)' = Starts(t)
                   /\ MemArray(t)' = MemArray(t)
<1>1. \A t : Width(t)' = Width(t) /\ MemArray(t)' = MemArray(t)
  BY DEF Width, Chunk, IsLatencyWorker, MemArray
<1>2. \A t : NumPointers(t)' = NumPointers(t)
  BY <1>1 DEF NumPointers
<1>3. \A t : Starts(t)' = Starts(t)
  BY <1>1, <1>2 DEF Starts
<1> QED  BY <1>1, <1>3 DEF Workers, Words

\* The first state.
LEMMA ChainInit == Init => ChainInv
<1> SUFFICES ASSUME Init, SoundLayout PROVE setup \in Setups /\ Home
  BY DEF ChainInv, Init
<1>1. setup \in Setups /\ SetupOK
  BY PointerChainAssumption DEF Init, SetupOK, SoundLayout
<1>2. \A t \in Workers : MemArray(t) \in Starts(t) /\ MemArray(t) \in Int
  BY <1>1, FirstChunk
<1>3. ChaseTypes
  <2>1. built \in 0..setup.workers
    BY <1>1 DEF Init, SetupOK, IsSetup
  <2> QED  BY <1>2, <2>1 DEF Init, ChaseTypes
<1>4. \A t \in Workers : Chasing(t)
  BY <1>2 DEF Init, Chasing
<1>5. \A t \in 0..built-1 : Chained(t)
  BY DEF Init
<1>6. ~killed /\ \A t \in Workers : pc[t] = "call"
  BY DEF Init
<1> QED  BY <1>1, <1>3, <1>4, <1>5, <1>6 DEF Home

\* Building the next chain leaves the earlier ones alone.
LEMMA BuildStep ==
  ASSUME Home, SetupOK, Build
  PROVE  Home'
<1>1. /\ built \in 0..setup.workers /\ built < setup.workers
      /\ built' = built + 1 /\ setup' = setup
      /\ setup.workers \in Nat
  BY DEF Home, ChaseTypes, Build, SetupOK, IsSetup
<1>2. built \in Workers /\ built' \in 0..setup.workers
  BY <1>1 DEF Workers
<1>3. PICK f \in Permutations(built) : mem' = Shuffled(built, f)
  BY DEF Build, NextPart
<1>4. /\ Workers' = Workers /\ Words' = Words
                   /\ \A t : Width(t)' = Width(t) /\ Starts(t)' = Starts(t)
  BY <1>1, SameSetup
<1>5. mem' = [a \in Words |-> mem'[a]]
  BY <1>3 DEF Shuffled
<1>6. ASSUME NEW t \in 0..built'-1
      PROVE  {mem'[a] : a \in Starts(t)} = Starts(t)
  <2>1. t \in Workers /\ t \in Nat /\ t <= built
    BY <1>1 DEF Workers
  <2>2. CASE t = built
    BY <1>2, <1>3, <2>2, ShuffleIsPermutation
  <2>3. CASE t < built
    <3>1. ASSUME NEW a \in Starts(t) PROVE mem'[a] = mem[a]
      <4>1. a \in Part(t) /\ a \in Words
        BY <2>1, StartsInPart, PartInRegion
      <4>2. a \notin Part(built)
        BY <1>2, <2>1, <2>3, <4>1, PartsApart
      <4> QED  BY <1>3, <4>1, <4>2 DEF Shuffled
    <3>2. {mem[a] : a \in Starts(t)} = Starts(t)
      BY <1>1, <2>1, <2>3 DEF Home, Chained
    <3> QED  BY <3>1, <3>2
  <2> QED  BY <1>1, <2>1, <2>2, <2>3
<1>7. UNCHANGED <<phase, pc, next, ptr, val, due, killed>>
  BY DEF Build, counts
<1>8. ASSUME NEW t \in Workers PROVE Chasing(t)'
  <2>1. Chasing(t) /\ pc[t] # "store"
    BY <1>1 DEF Home
  <2> QED  BY <1>4, <1>7, <2>1 DEF Chasing
<1>9. built' < setup'.workers => \A t \in Workers' : pc'[t] = "call"
  BY <1>1, <1>4, <1>7 DEF Home
<1>10. ChaseTypes'
  BY <1>1, <1>2, <1>4, <1>5, <1>7 DEF Home, ChaseTypes
<1>11. \A t \in 0..built'-1 : Chained(t)'
  BY <1>4, <1>6 DEF Chained
<1> QED
  BY <1>4, <1>7, <1>8, <1>9, <1>10, <1>11 DEF Home


\* The chain leads from a chunk of a part to a chunk of this part.
LEMMA ChainGoesOn ==
  ASSUME Home, SetupOK, Running, NEW t \in Workers
  PROVE  /\ mem[ptr[t]] \in Starts(t) /\ mem[ptr[t]] \in Int
         /\ Loadable(t)
<1>1. t \in 0..built-1
  BY DEF Running, Workers
<1>2. Chained(t) /\ ptr[t] \in Starts(t)
  BY <1>1 DEF Home, Chasing
<1>3. mem[ptr[t]] \in Starts(t)
  BY <1>2 DEF Chained
<1>4. mem[ptr[t]] \in Int
  BY <1>3, StartsInPart
<1>5. Loadable(t)
  BY <1>2, StartsInPart, PartInRegion DEF Loadable
<1> QED  BY <1>3, <1>4, <1>5

\* The other workers, when one has moved and memory is as it was.
LEMMA OthersStay ==
  ASSUME Home, NEW t \in Workers,
         UNCHANGED <<setup, built, killed>>, mem' = mem,
         built = setup.workers,
         ChaseTypes', Chasing(t)',
         \A u \in Workers : u # t => /\ next'[u] = next[u] /\ ptr'[u] = ptr[u]
                                     /\ pc'[u] = pc[u] /\ phase'[u] = phase[u]
                                     /\ val'[u] = val[u] /\ due'[u] = due[u]
  PROVE  Home'
<1>1. /\ Workers' = Workers
      /\ \A u : Width(u)' = Width(u) /\ Starts(u)' = Starts(u)
  BY SameSetup
<1>2. \A u \in 0..built-1 : Chained(u)'
  BY <1>1 DEF Home, Chained
<1>3. ASSUME NEW u \in Workers PROVE Chasing(u)'
  <2>1. CASE u = t
    BY <2>1
  <2>2. CASE u # t
    <3>1. Chasing(u)
      BY DEF Home
    <3> QED  BY <1>1, <2>2, <3>1 DEF Chasing
  <2> QED  BY <2>1, <2>2
<1>4. built \in 0..setup.workers /\ ~(built' < setup'.workers)
  BY DEF Home, ChaseTypes
<1> QED  BY <1>1, <1>2, <1>3, <1>4 DEF Home

\* Entering a kernel.
LEMMA CallStep ==
  ASSUME Home, SetupOK, NEW t \in Workers, Call(t)
  PROVE  Home'
<1>1. /\ UNCHANGED <<setup, built, mem, killed, phase, next, val, due>>
      /\ built = setup.workers /\ phase[t] = "real" /\ pc[t] = "call"
  BY DEF Call, memory, counts, Running
<1>2. /\ ChaseTypes /\ Chasing(t)
  BY DEF Home
<1>3. ptr' = [ptr EXCEPT ![t] = next[t]]
  BY DEF Call
<1>4. PICK c \in {"return", "load"} : pc' = [pc EXCEPT ![t] = c]
  BY DEF Call
<1>5. ptr'[t] = next[t] /\ pc'[t] = c
  BY <1>2, <1>3, <1>4 DEF ChaseTypes
<1>6. /\ Workers' = Workers /\ Words' = Words
      /\ \A u : Width(u)' = Width(u) /\ Starts(u)' = Starts(u)
  BY <1>1, SameSetup
<1>7. ChaseTypes'
  BY <1>1, <1>2, <1>3, <1>4, <1>6 DEF ChaseTypes
<1>8. Chasing(t)'
  BY <1>1, <1>2, <1>5, <1>6 DEF Chasing
<1>9. \A u \in Workers : u # t => ptr'[u] = ptr[u] /\ pc'[u] = pc[u]
  BY <1>2, <1>3, <1>4 DEF ChaseTypes
<1> QED  BY <1>1, <1>7, <1>8, <1>9, OthersStay

\* Going on to where the chain leads.
LEMMA AdvanceStep ==
  ASSUME Home, SetupOK, NEW t \in Workers, NEW n, NEW to,
         Running, to \in Starts(t), to \in Int, phase[t] = "real",
         Advance(t, to, n),
         UNCHANGED <<setup, built, killed, phase>>, mem' = mem,
         due' = [due EXCEPT ![t] = to],
         val' = val
  PROVE  Home'
<1>1. ChaseTypes /\ Chasing(t) /\ built = setup.workers
  BY DEF Home, Running
<1>2. ptr' = [ptr EXCEPT ![t] = to]
  BY DEF Advance
<1>3. \/ pc' = [pc EXCEPT ![t] = "load"] /\ next' = next
      \/ pc' = [pc EXCEPT ![t] = "return"] /\ next' = [next EXCEPT ![t] = to]
  BY DEF Advance
<1>4. /\ Workers' = Workers /\ Words' = Words
      /\ \A u : Width(u)' = Width(u) /\ Starts(u)' = Starts(u)
  BY SameSetup
<1>5. ChaseTypes'
  BY <1>1, <1>2, <1>3, <1>4 DEF ChaseTypes
<1>6. /\ ptr'[t] = to /\ due'[t] = to
      /\ \/ pc'[t] = "load" /\ next'[t] = next[t]
         \/ pc'[t] = "return" /\ next'[t] = to
  BY <1>1, <1>2, <1>3 DEF ChaseTypes
<1>7. Chasing(t)'
  BY <1>1, <1>4, <1>6 DEF Chasing
<1>8. \A u \in Workers : u # t =>
        /\ ptr'[u] = ptr[u] /\ pc'[u] = pc[u] /\ next'[u] = next[u]
        /\ due'[u] = due[u]
  BY <1>1, <1>2, <1>3 DEF ChaseTypes
<1> QED  BY <1>1, <1>5, <1>7, <1>8, OthersStay

\* Loading a chunk.
LEMMA LoadStep ==
  ASSUME Home, SetupOK, NEW t \in Workers, Load(t)
  PROVE  Home'
<1>1. /\ UNCHANGED <<setup, built, mem, killed, phase>>
      /\ built = setup.workers /\ Running /\ pc[t] = "load"
  BY DEF Load, memory, counts, Running
<1>2. /\ ChaseTypes /\ Chasing(t) /\ phase[t] = "real"
  BY <1>1 DEF Home, Chasing
<1>3. mem[ptr[t]] \in Starts(t) /\ mem[ptr[t]] \in Int
  BY <1>1, ChainGoesOn
<1>4. due' = [due EXCEPT ![t] = mem[ptr[t]]]
  BY DEF Load
<1>5. CASE Stores(t)
  <2> DEFINE chunk == [w \in 0..Width(t)-1 |-> mem[ptr[t] + w]]
  <2>1. /\ val' = [val EXCEPT ![t] = chunk]
        /\ pc' = [pc EXCEPT ![t] = "store"]
        /\ UNCHANGED <<ptr, next>>
    BY <1>5 DEF Load
  <2>2. /\ Workers' = Workers /\ Words' = Words
        /\ \A u : Width(u)' = Width(u) /\ Starts(u)' = Starts(u)
    BY <1>1, SameSetup
  <2>3. val'[t] = chunk /\ pc'[t] = "store" /\ due'[t] = mem[ptr[t]]
    <3> HIDE DEF chunk
    <3> QED  BY <1>2, <1>4, <2>1 DEF ChaseTypes
  <2>4. \A u \in Workers : u # t => /\ val'[u] = val[u] /\ pc'[u] = pc[u]
                                    /\ due'[u] = due[u]
    <3> HIDE DEF chunk
    <3> QED  BY <1>2, <1>4, <2>1 DEF ChaseTypes
  <2>5. ChaseTypes'
    <3> HIDE DEF chunk
    <3> QED  BY <1>1, <1>2, <1>4, <2>1, <2>2 DEF ChaseTypes
  <2>6. Chasing(t)'
    <3>1. chunk = [w \in 0..Width(t)'-1 |-> mem'[ptr'[t] + w]]
      BY <1>1, <2>1, <2>2
    <3> QED  BY <1>1, <1>2, <2>1, <2>2, <2>3, <3>1 DEF Chasing
  <2> QED  BY <1>1, <2>1, <2>4, <2>5, <2>6, OthersStay
<1>6. CASE ~Stores(t)
  <2>1. Advance(t, mem[ptr[t]], hops[t] + 1) /\ val' = val
    BY <1>6 DEF Load
  <2> QED  BY <1>1, <1>2, <1>3, <1>4, <2>1, AdvanceStep
<1> QED  BY <1>5, <1>6

\* Storing a chunk puts back what is there: no other worker can have changed
\* it, and every part stays as it was.
LEMMA StoreStep ==
  ASSUME Home, SetupOK, NEW t \in Workers, Store(t)
  PROVE  Home'
<1>1. /\ UNCHANGED <<setup, built, killed, phase, val, due>>
      /\ built = setup.workers /\ Running /\ pc[t] = "store"
      /\ mem' = Stored(t) /\ Advance(t, val[t][0], hops[t])
  BY DEF Store, counts, Running
<1>2. /\ ChaseTypes /\ Chasing(t) /\ phase[t] = "real"
  BY <1>1 DEF Home, Chasing
<1>3. val[t] = [w \in 0..Width(t)-1 |-> mem[ptr[t] + w]] /\ due[t] = mem[ptr[t]]
  BY <1>1, <1>2 DEF Chasing
<1>4. mem[ptr[t]] \in Starts(t) /\ mem[ptr[t]] \in Int /\ ptr[t] \in Int
  BY <1>1, <1>2, ChainGoesOn DEF ChaseTypes
<1>5. Width(t) \in Nat \ {0}
  BY WholeChunks
<1>6. val[t][0] = mem[ptr[t]]
  <2>1. ptr[t] + 0 = ptr[t] /\ 0 \in 0..Width(t)-1
    BY <1>4, <1>5
  <2> QED  BY <1>3, <2>1
<1>7. mem' = mem
  <2>1. ASSUME NEW a \in Words, a - ptr[t] \in 0..Width(t)-1
        PROVE  val[t][a - ptr[t]] = mem[a]
    <3>1. a \in Int
      BY DEF Words
    <3>2. ptr[t] + (a - ptr[t]) = a
      BY <3>1, <1>4
    <3> QED  BY <1>3, <2>1, <3>2
  <2>2. Stored(t) = [a \in Words |-> mem[a]]
    BY <2>1 DEF Stored
  <2> QED  BY <1>1, <1>2, <2>2 DEF ChaseTypes
<1>8. due' = [due EXCEPT ![t] = val[t][0]]
  BY <1>1, <1>2, <1>3, <1>6 DEF ChaseTypes
<1> QED  BY <1>1, <1>2, <1>4, <1>6, <1>7, <1>8, AdvanceStep

\* The end of a pass.
LEMMA PassStep ==
  ASSUME Home, SetupOK, NEW t \in Workers, ReturnFromPass(t)
  PROVE  Home'
<1>1. /\ UNCHANGED <<setup, built, mem, killed, ptr, val, due>>
      /\ built = setup.workers /\ phase[t] = "real" /\ pc[t] = "return"
      /\ pc' = [pc EXCEPT ![t] = "call"]
  BY DEF ReturnFromPass, memory, Running
<1>2. /\ ChaseTypes /\ Chasing(t)
  BY DEF Home
<1>3. \/ next' = next /\ phase' = phase
      \/ /\ next' = [next EXCEPT ![t] = MemArray(t)]
         /\ phase' = [phase EXCEPT ![t] = "dummy"]
  BY DEF ReturnFromPass, NextAddress
<1>4. MemArray(t) \in Starts(t) /\ MemArray(t) \in Int
  BY FirstChunk
<1>5. /\ Workers' = Workers /\ Words' = Words
      /\ \A u : Width(u)' = Width(u) /\ Starts(u)' = Starts(u)
  BY <1>1, SameSetup
<1>6. ChaseTypes'
  BY <1>1, <1>2, <1>3, <1>4, <1>5 DEF ChaseTypes
<1>7. /\ pc'[t] = "call"
      /\ \/ next'[t] = next[t] /\ phase'[t] = phase[t]
         \/ next'[t] = MemArray(t) /\ phase'[t] = "dummy"
  BY <1>1, <1>2, <1>3 DEF ChaseTypes
<1>8. Chasing(t)'
  BY <1>1, <1>2, <1>4, <1>5, <1>7 DEF Chasing
<1>9. \A u \in Workers : u # t => /\ pc'[u] = pc[u] /\ next'[u] = next[u]
                                  /\ phase'[u] = phase[u]
  BY <1>1, <1>2, <1>3 DEF ChaseTypes
<1> QED  BY <1>1, <1>6, <1>8, <1>9, OthersStay

\* A dummy pass.
LEMMA DummyStep ==
  ASSUME Home, SetupOK, NEW t \in Workers, DummyPass(t)
  PROVE  Home'
<1>1. /\ UNCHANGED <<setup, built, mem, killed, ptr, val, due, next, pc>>
      /\ built = setup.workers /\ phase[t] = "dummy"
  BY DEF DummyPass, memory, Running
<1>2. /\ ChaseTypes /\ Chasing(t)
  BY DEF Home
<1>3. PICK d \in {"dummy", "done"} : phase' = [phase EXCEPT ![t] = d]
  BY DEF DummyPass
<1>4. /\ Workers' = Workers /\ Words' = Words
      /\ \A u : Width(u)' = Width(u) /\ Starts(u)' = Starts(u)
  BY <1>1, SameSetup
<1>5. ChaseTypes'
  BY <1>1, <1>2, <1>3, <1>4 DEF ChaseTypes
<1>6. phase'[t] = d
  BY <1>2, <1>3 DEF ChaseTypes
<1>7. Chasing(t)'
  BY <1>1, <1>2, <1>4, <1>6 DEF Chasing
<1>8. \A u \in Workers : u # t => phase'[u] = phase[u]
  BY <1>2, <1>3 DEF ChaseTypes
<1> QED  BY <1>1, <1>5, <1>7, <1>8, OthersStay

\* Every step.
LEMMA ChainStep == ChainInv /\ [Next]_vars => ChainInv'
<1> SUFFICES ASSUME ChainInv, [Next]_vars PROVE ChainInv'
  OBVIOUS
<1>1. setup' = setup
  BY DEF Next, vars, memory, Build, Call, Load, Store, Fault, ReturnFromPass,
         DummyPass, Stopped
<1>2. setup' \in Setups /\ (SoundLayout' <=> SoundLayout)
  BY <1>1 DEF ChainInv, SoundLayout
<1> SUFFICES ASSUME SoundLayout PROVE Home'
  BY <1>2 DEF ChainInv
<1>3. Home /\ SetupOK
  BY PointerChainAssumption DEF ChainInv, SetupOK, SoundLayout
<1>4. CASE Build
  BY <1>3, <1>4, BuildStep
<1>5. ASSUME NEW t \in Workers,
             \/ Call(t) \/ Load(t) \/ Store(t) \/ Fault(t)
             \/ ReturnFromPass(t) \/ DummyPass(t)
      PROVE  Home'
  <2>1. CASE Call(t)
    BY <1>3, <2>1, CallStep
  <2>2. CASE Load(t)
    BY <1>3, <2>2, LoadStep
  <2>3. CASE Store(t)
    BY <1>3, <2>3, StoreStep
  <2>4. CASE Fault(t)
    BY <1>3, <2>4, ChainGoesOn DEF Fault
  <2>5. CASE ReturnFromPass(t)
    BY <1>3, <2>5, PassStep
  <2>6. CASE DummyPass(t)
    BY <1>3, <2>6, DummyStep
  <2> QED  BY <1>5, <2>1, <2>2, <2>3, <2>4, <2>5, <2>6
<1>6. CASE UNCHANGED vars
  <2>1. /\ UNCHANGED <<setup, built, mem, killed, phase, pc, next, ptr, val, due>>
    BY <1>6 DEF vars, memory, counts
  <2>2. /\ Workers' = Workers /\ Words' = Words
        /\ \A u : Width(u)' = Width(u) /\ Starts(u)' = Starts(u)
    BY <1>1, SameSetup
  <2>3. ChaseTypes'
    BY <1>3, <2>1, <2>2 DEF Home, ChaseTypes
  <2>4. \A t \in Workers : Chasing(t)'
    BY <1>3, <2>1, <2>2 DEF Home, Chasing
  <2>5. \A t \in 0..built-1 : Chained(t)'
    BY <1>3, <2>1, <2>2 DEF Home, Chained
  <2> QED  BY <1>3, <2>1, <2>2, <2>3, <2>4, <2>5 DEF Home
<1> QED  BY <1>4, <1>5, <1>6 DEF Next, Stopped

\* build_random_pointer_permutation() and the random kernels keep the
\* pointers of every part a permutation of its chunks.
THEOREM ChainStays == Spec => []ChainIsPermutation
<1>1. ChainInv => ChainIsPermutation
  BY DEF ChainInv, Home, Chained, ChainIsPermutation
<1> QED  BY ChainInit, ChainStep, <1>1, PTL DEF Spec

\* No random kernel accesses anything but the chunks of its worker's part.
THEOREM WorkersStayHome == Spec => []StaysHome
<1>1. ChainInv => StaysHome
  BY DEF ChainInv, Home, Chasing, StaysHome
<1> QED  BY ChainInit, ChainStep, <1>1, PTL DEF Spec

-----------------------------------------------------------------------------
(* One long chase, whatever the layout.                                    *)

DueAt(t) ==
  /\ pc[t] \in {"load", "store"} => phase[t] = "real"
  /\ pc[t] = "store" => due[t] = val[t][0]
  /\ phase[t] = "real" /\ pc[t] \in {"call", "return"} => due[t] = next[t]
  /\ phase[t] = "real" /\ pc[t] = "load" => due[t] = ptr[t]

\* The workers' variables are functions.
DueTypes ==
  /\ setup \in Setups
  /\ pc \in [Workers -> {"call", "load", "store", "return"}]
  /\ phase = [t \in Workers |-> phase[t]] /\ due = [t \in Workers |-> due[t]]
  /\ next = [t \in Workers |-> next[t]] /\ ptr = [t \in Workers |-> ptr[t]]
  /\ val = [t \in Workers |-> val[t]]

DueInv == DueTypes /\ \A t \in Workers : DueAt(t)

\* Chunks have a first word.
LEMMA ChunkHasFirst == ASSUME setup \in Setups PROVE \A t : 0 \in 0..Width(t)-1
<1> SUFFICES ASSUME NEW t PROVE 0 \in 0..Width(t)-1
  OBVIOUS
<1>1. setup.word \in {4, 8} /\ setup.chunk \in {setup.word, 16, 32, 64}
  BY PointerChainAssumption DEF IsSetup
<1>2. Width(t) \in {1, 2, 4, 8, 16}
  BY <1>1, SMT DEF Width, Chunk
<1> QED  BY <1>2

\* Going on leads where the last chunk says.
LEMMA DueAfterAdvance ==
  ASSUME DueInv, NEW t \in Workers, NEW n, NEW to, Advance(t, to, n),
         phase[t] = "real", phase' = phase
  PROVE  /\ pc' \in [Workers -> {"call", "load", "store", "return"}]
         /\ next' = [u \in Workers |-> next'[u]]
         /\ ptr' = [u \in Workers |-> ptr'[u]]
         /\ due'[t] = to => DueAt(t)'
         /\ \A u \in Workers : u # t => /\ next'[u] = next[u]
                                        /\ ptr'[u] = ptr[u] /\ pc'[u] = pc[u]
<1>1. ptr' = [ptr EXCEPT ![t] = to]
  BY DEF Advance
<1>2. \/ pc' = [pc EXCEPT ![t] = "load"] /\ next' = next
      \/ pc' = [pc EXCEPT ![t] = "return"] /\ next' = [next EXCEPT ![t] = to]
  BY DEF Advance
<1> QED  BY <1>1, <1>2 DEF DueInv, DueTypes, DueAt

\* One step of a worker.
LEMMA DueStep ==
  ASSUME DueInv, NEW t \in Workers, setup' = setup, Workers' = Workers,
         \/ Call(t) \/ Load(t) \/ Store(t) \/ Fault(t)
         \/ ReturnFromPass(t) \/ DummyPass(t)
  PROVE  DueInv'
<1>1. DueTypes /\ DueAt(t) /\ \A u \in Workers : DueAt(u)
  BY DEF DueInv
<1>2. CASE Call(t)
  <2>1. PICK c \in {"return", "load"} : pc' = [pc EXCEPT ![t] = c]
    BY <1>2 DEF Call
  <2> QED  BY <1>1, <1>2, <2>1 DEF Call, counts, DueInv, DueTypes, DueAt
<1>3. CASE Load(t)
  <2>1. due' = [due EXCEPT ![t] = mem[ptr[t]]] /\ phase' = phase /\ pc[t] = "load"
    BY <1>3 DEF Load, counts
  <2>2. due'[t] = mem[ptr[t]] /\ \A u \in Workers : u # t => due'[u] = due[u]
    BY <1>1, <2>1 DEF DueTypes
  <2>3. CASE Stores(t)
    <3> DEFINE chunk == [w \in 0..Width(t)-1 |-> mem[ptr[t] + w]]
    <3>1. /\ val' = [val EXCEPT ![t] = chunk] /\ UNCHANGED <<ptr, next>>
          /\ pc' = [pc EXCEPT ![t] = "store"]
      BY <1>3, <2>3 DEF Load
    <3>2. chunk[0] = mem[ptr[t]]
      <4>1. ptr[t] \in Int
        BY <1>3 DEF Load, Loadable, Words
      <4> QED  BY <1>1, <4>1, ChunkHasFirst DEF DueTypes
    <3> HIDE DEF chunk
    <3> QED  BY <1>1, <2>1, <2>2, <3>1, <3>2 DEF DueInv, DueTypes, DueAt
  <2>4. CASE ~Stores(t)
    <3>1. Advance(t, mem[ptr[t]], hops[t] + 1) /\ val' = val
      BY <1>3, <2>4 DEF Load
    <3>2. phase[t] = "real"
      BY <1>1, <2>1 DEF DueAt
    <3>3. /\ pc' \in [Workers -> {"call", "load", "store", "return"}]
          /\ next' = [u \in Workers |-> next'[u]]
          /\ ptr' = [u \in Workers |-> ptr'[u]] /\ DueAt(t)'
          /\ \A u \in Workers : u # t => /\ next'[u] = next[u]
                                         /\ ptr'[u] = ptr[u] /\ pc'[u] = pc[u]
      BY <2>1, <2>2, <3>1, <3>2, DueAfterAdvance
    <3>4. DueTypes'
      BY <1>1, <2>1, <3>1, <3>3 DEF DueTypes
    <3>5. ASSUME NEW u \in Workers PROVE DueAt(u)'
      BY <1>1, <2>1, <2>2, <3>1, <3>3 DEF DueAt
    <3> QED  BY <3>4, <3>5 DEF DueInv
  <2> QED  BY <2>3, <2>4
<1>4. CASE Store(t)
  <2>1. /\ UNCHANGED <<phase, val, due>> /\ Advance(t, val[t][0], hops[t])
        /\ pc[t] = "store"
    BY <1>4 DEF Store, counts
  <2>2. phase[t] = "real" /\ due[t] = val[t][0]
    BY <1>1, <2>1 DEF DueAt
  <2> QED  BY <1>1, <2>1, <2>2, DueAfterAdvance DEF DueInv, DueTypes, DueAt
<1>5. CASE Fault(t)
  BY <1>1, <1>5 DEF Fault, counts, DueInv, DueTypes, DueAt
<1>6. CASE ReturnFromPass(t)
  <2>1. /\ UNCHANGED <<ptr, val, due>> /\ phase[t] = "real" /\ pc[t] = "return"
        /\ pc' = [pc EXCEPT ![t] = "call"]
        /\ \/ next' = next /\ phase' = phase
           \/ /\ next' = [next EXCEPT ![t] = MemArray(t)]
              /\ phase' = [phase EXCEPT ![t] = "dummy"]
    BY <1>6 DEF ReturnFromPass, NextAddress
  <2> QED  BY <1>1, <2>1 DEF DueInv, DueTypes, DueAt
<1>7. CASE DummyPass(t)
  <2>1. PICK d \in {"dummy", "done"} : phase' = [phase EXCEPT ![t] = d]
    BY <1>7 DEF DummyPass
  <2> QED  BY <1>1, <1>7, <2>1 DEF DummyPass, DueInv, DueTypes, DueAt
<1> QED  BY <1>2, <1>3, <1>4, <1>5, <1>6, <1>7

\* The accesses of a worker are a chain: each depends on the one before, from
\* one pass to the next as well, and those of the latency worker in particular.
THEOREM ChaseIsChain == Spec => []OneLongChase
<1>1. Init => DueInv
  <2> SUFFICES ASSUME Init PROVE DueInv
    OBVIOUS
  <2>1. DueTypes
    BY DEF Init, DueTypes
  <2> QED  BY <2>1 DEF Init, DueInv, DueAt
<1>2. DueInv /\ [Next]_vars => DueInv'
  <2> SUFFICES ASSUME DueInv, [Next]_vars PROVE DueInv'
    OBVIOUS
  <2>1. setup' = setup
    BY DEF Next, vars, memory, Build, Call, Load, Store, Fault, ReturnFromPass,
           DummyPass, Stopped
  <2>2. Workers' = Workers
    BY <2>1 DEF Workers
  <2>3. CASE Build \/ UNCHANGED vars
    <3>1. UNCHANGED <<setup, pc, phase, due, next, ptr, val>>
      BY <2>3 DEF Build, vars, memory, counts
    <3> QED  BY <2>2, <3>1 DEF DueInv, DueTypes, DueAt
  <2>4. ASSUME NEW t \in Workers,
               \/ Call(t) \/ Load(t) \/ Store(t) \/ Fault(t)
               \/ ReturnFromPass(t) \/ DummyPass(t)
        PROVE  DueInv'
    BY <2>1, <2>2, <2>4, DueStep
  <2> QED  BY <2>3, <2>4 DEF Next, Stopped
<1>3. DueInv => OneLongChase
  BY DEF DueInv, DueAt, OneLongChase
<1> QED  BY <1>1, <1>2, <1>3, PTL DEF Spec


-----------------------------------------------------------------------------
(* What a pass is counted for, whatever the layout.                        *)

\* A kernel loads once for each of its unrolled steps, and has not returned
\* before the last of them.
HopsAt(t) ==
  /\ pc[t] = "load" => hops[t] \in Nat /\ hops[t] < Unroll(t)
  /\ pc[t] = "store" => hops[t] \in Nat /\ hops[t] <= Unroll(t)
  /\ pc[t] = "return" => hops[t] = Unroll(t)

HopsInv ==
  /\ setup \in Setups
  /\ pc \in [Workers -> {"call", "load", "store", "return"}]
  /\ hops = [t \in Workers |-> hops[t]]
  /\ \A t \in Workers : HopsAt(t)

\* The literals of the UNROLL macros add up to the bytes of a pass.
LEMMA UnrollMatchesCount ==
  ASSUME setup \in Setups, NEW t
  PROVE  /\ Unroll(t) \in Nat
         /\ IsLatencyWorker(t) => Unroll(t) = (512 * 8) \div 8
         /\ ~IsLatencyWorker(t) /\ ~(setup.windows /\ Chunk(t) > 8) =>
              Unroll(t) * Chunk(t) = 4096
<1>1. /\ setup.word \in {4, 8} /\ setup.chunk \in {setup.word, 16, 32, 64}
      /\ setup.windows \in BOOLEAN
  BY PointerChainAssumption DEF IsSetup
<1>2. CASE IsLatencyWorker(t)
  <2>1. Unroll(t) = 512
    BY <1>2 DEF Unroll
  <2> QED  BY <1>2, <2>1
<1>3. CASE ~IsLatencyWorker(t)
  <2>1. Chunk(t) = setup.chunk
    BY <1>3 DEF Chunk
  <2>2. setup.chunk = 4 => Unroll(t) = 1024
    BY <1>3 DEF Unroll
  <2>3. setup.chunk = 8 => Unroll(t) = 512
    BY <1>3 DEF Unroll
  <2>4. setup.chunk \in {16, 32, 64} =>
          Unroll(t) = IF setup.windows THEN 0
                      ELSE IF setup.chunk = 16 THEN 256
                      ELSE IF setup.chunk = 32 THEN 128 ELSE 64
    BY <1>3 DEF Unroll
  <2>5. setup.chunk \in {4, 8, 16, 32, 64}
    BY <1>1
  <2> QED  BY <1>1, <1>3, <2>1, <2>2, <2>3, <2>4, <2>5
<1> QED  BY <1>2, <1>3

\* One step of a worker.
LEMMA HopsStep ==
  ASSUME HopsInv, NEW t \in Workers, setup' = setup,
         \/ Call(t) \/ Load(t) \/ Store(t) \/ Fault(t)
         \/ ReturnFromPass(t) \/ DummyPass(t)
  PROVE  HopsInv'
<1>1. /\ setup \in Setups /\ hops = [u \in Workers |-> hops[u]]
      /\ pc \in [Workers -> {"call", "load", "store", "return"}]
      /\ HopsAt(t) /\ \A u \in Workers : HopsAt(u)
  BY DEF HopsInv
<1>2. Workers' = Workers /\ \A u : Unroll(u)' = Unroll(u)
  BY DEF Workers, Unroll, IsLatencyWorker
<1>3. Unroll(t) \in Nat
  BY <1>1, UnrollMatchesCount
<1>4. SUFFICES /\ pc' \in [Workers -> {"call", "load", "store", "return"}]
               /\ hops' = [u \in Workers |-> hops'[u]]
               /\ HopsAt(t)'
               /\ \A u \in Workers : u # t => pc'[u] = pc[u] /\ hops'[u] = hops[u]
  BY <1>1, <1>2 DEF HopsInv, HopsAt
<1>5. CASE Call(t)
  <2>1. /\ pc' = [pc EXCEPT ![t] = IF Unroll(t) = 0 THEN "return" ELSE "load"]
        /\ hops' = [hops EXCEPT ![t] = 0]
    BY <1>5 DEF Call
  <2> QED  BY <1>1, <1>2, <1>3, <2>1 DEF HopsAt
<1>6. CASE Load(t)
  <2>1. pc[t] = "load" /\ hops' = [hops EXCEPT ![t] = hops[t] + 1]
    BY <1>6 DEF Load
  <2>2. hops[t] \in Nat /\ hops[t] + 1 <= Unroll(t) /\ hops'[t] = hops[t] + 1
    BY <1>1, <1>3, <2>1 DEF HopsAt
  <2>3. CASE Stores(t)
    <3>1. pc' = [pc EXCEPT ![t] = "store"]
      BY <1>6, <2>3 DEF Load
    <3> QED  BY <1>1, <1>2, <2>1, <2>2, <3>1 DEF HopsAt
  <2>4. CASE ~Stores(t)
    <3>1. Advance(t, mem[ptr[t]], hops[t] + 1)
      BY <1>6, <2>4 DEF Load
    <3>2. \/ hops[t] + 1 < Unroll(t) /\ pc' = [pc EXCEPT ![t] = "load"]
          \/ ~(hops[t] + 1 < Unroll(t)) /\ pc' = [pc EXCEPT ![t] = "return"]
      BY <3>1 DEF Advance
    <3> QED  BY <1>1, <1>2, <1>3, <2>1, <2>2, <3>2 DEF HopsAt
  <2> QED  BY <2>3, <2>4
<1>7. CASE Store(t)
  <2>1. pc[t] = "store" /\ hops' = hops /\ Advance(t, val[t][0], hops[t])
    BY <1>7 DEF Store
  <2>2. \/ hops[t] < Unroll(t) /\ pc' = [pc EXCEPT ![t] = "load"]
        \/ ~(hops[t] < Unroll(t)) /\ pc' = [pc EXCEPT ![t] = "return"]
    BY <2>1 DEF Advance
  <2>3. hops[t] \in Nat /\ hops[t] <= Unroll(t)
    BY <1>1, <2>1 DEF HopsAt
  <2> QED  BY <1>1, <1>2, <1>3, <2>1, <2>2, <2>3 DEF HopsAt
<1>8. CASE Fault(t) \/ DummyPass(t)
  <2>1. pc' = pc /\ hops' = hops
    BY <1>8 DEF Fault, DummyPass
  <2> QED  BY <1>1, <1>2, <2>1 DEF HopsAt
<1>9. CASE ReturnFromPass(t)
  <2>1. pc' = [pc EXCEPT ![t] = "call"] /\ hops' = hops
    BY <1>9 DEF ReturnFromPass
  <2> QED  BY <1>1, <1>2, <2>1 DEF HopsAt
<1> QED  BY <1>5, <1>6, <1>7, <1>8, <1>9

\* Every pass of every worker, in whatever order they run, accesses what
\* runCore() and the load worker count for it.
THEOREM PassesAreCountedRight == Spec => []PassDoesWhatIsCounted
<1>1. Init => HopsInv
  <2> SUFFICES ASSUME Init PROVE HopsInv
    OBVIOUS
  <2>1. /\ setup \in Setups /\ hops = [t \in Workers |-> 0]
        /\ pc = [t \in Workers |-> "call"]
    BY DEF Init
  <2> QED  BY <2>1 DEF HopsInv, HopsAt
<1>2. HopsInv /\ [Next]_vars => HopsInv'
  <2> SUFFICES ASSUME HopsInv, [Next]_vars PROVE HopsInv'
    OBVIOUS
  <2>1. setup' = setup
    BY DEF Next, vars, memory, Build, Call, Load, Store, Fault, ReturnFromPass,
           DummyPass, Stopped
  <2>2. CASE Build \/ UNCHANGED vars
    <3>1. UNCHANGED <<setup, pc, hops>>
      BY <2>2 DEF Build, vars, memory
    <3>2. Workers' = Workers /\ \A t : Unroll(t)' = Unroll(t)
      BY <2>1 DEF Workers, Unroll, IsLatencyWorker
    <3> QED  BY <3>1, <3>2 DEF HopsInv, HopsAt
  <2>3. ASSUME NEW t \in Workers,
               \/ Call(t) \/ Load(t) \/ Store(t) \/ Fault(t)
               \/ ReturnFromPass(t) \/ DummyPass(t)
        PROVE  HopsInv'
    BY <2>1, <2>3, HopsStep
  <2> QED  BY <2>2, <2>3 DEF Next, Stopped
<1>3. HopsInv => PassDoesWhatIsCounted
  <2>1. ASSUME HopsInv, NEW t \in Workers, pc[t] = "return",
               ~(setup.windows /\ Chunk(t) > 8)
        PROVE  IF IsLatencyWorker(t) THEN hops[t] = (512 * 8) \div 8
                                     ELSE hops[t] * Chunk(t) = 4096
    BY <2>1, UnrollMatchesCount DEF HopsInv, HopsAt
  <2> QED  BY <2>1 DEF PassDoesWhatIsCounted
<1> QED  BY <1>1, <1>2, <1>3, PTL DEF Spec

===============================================================================

--------------------------- MODULE LoadWalk_proofs ---------------------------
(***************************************************************************)
(* Theorems about LoadWalk, for every position of the memory region, every *)
(* number and length of parts, and every choice of kernel: type            *)
(* correctness and that every pass lies inside the worker's part, for any  *)
(* length of a pass; and what a call accesses, for passes as long as those *)
(* of the code.                                                            *)
(***************************************************************************)
EXTENDS LoadWalk, TLAPS

\* A multiple of d, given as one.
IsMultiple(n, d) == \E x \in Nat : n = d * x

\* The remainder of one multiple of d by another is a multiple of d that
\* leaves room for d more.
LEMMA RemainderOfMultiple ==
  ASSUME NEW d \in Nat \ {0}, NEW x \in Nat, NEW y \in Nat \ {0}
  PROVE  /\ (d * x) % (d * y) \in Nat
         /\ IsMultiple((d * x) % (d * y), d)
         /\ ((d * x) % (d * y)) + d <= d * y
<1> DEFINE l == d * y
           q == (d * x) \div l
           r == (d * x) % l
           z == x - y * q
<1>1. l \in Nat \ {0}
  BY Z3
<1>2. d * x \in Nat
  OBVIOUS
<1>3. q \in Int /\ r \in Nat /\ r < l /\ d * x = l * q + r
  <2> HIDE DEF l
  <2> QED  BY <1>1, <1>2, Z3
<1>4. y * q \in Int /\ z \in Int
  BY <1>3, Z3
<1>5. r = d * z
  <2>1. l * q = d * (y * q)
    BY <1>3, Z3
  <2>2. d * z = d * x - d * (y * q)
    BY <1>4, Z3
  <2> QED  BY <1>3, <2>1, <2>2, <1>4, Z3
<1>6. z >= 0
  <2>1. SUFFICES ASSUME z <= -1 PROVE FALSE
    BY <1>4
  <2>2. d * z <= -d
    BY <1>4, <2>1, Z3
  <2> QED  BY <2>2, <1>5, <1>3
<1>7. z + 1 <= y
  <2>1. SUFFICES ASSUME z >= y PROVE FALSE
    BY <1>4
  <2>2. d * z >= d * y
    BY <1>4, <2>1, Z3
  <2> QED  BY <2>2, <1>5, <1>3
<1>8. d * (z + 1) <= d * y
  BY <1>4, <1>7, Z3
<1>9. d * (z + 1) = r + d
  BY <1>4, <1>5, Z3
<1>10. r + d <= d * y
  BY <1>8, <1>9
<1>11. IsMultiple(r, d)
  BY <1>4, <1>5, <1>6 DEF IsMultiple
<1> QED  BY <1>3, <1>10, <1>11

\* A number that is not a multiple of b is not m * b.
LEMMA MultiplesLeaveNothing ==
  ASSUME NEW m \in Nat, NEW b \in Nat \ {0}
  PROVE  m * b \in Nat /\ (m * b) % b = 0
<1>1. m * b \in Nat
  OBVIOUS
<1> DEFINE n == m * b
           q == n \div b
           r == n % b
<1>2. q \in Int /\ r \in 0..b-1 /\ n = b * q + r
  <2> HIDE DEF n
  <2> QED  BY <1>1, Z3 DEF n
<1>3. r = b * (m - q)
  BY <1>2, Z3
<1>4. m - q = 0
  <2>1. CASE m - q >= 1
    <3>1. b * (m - q) >= b
      BY <1>2, <2>1, Z3
    <3> QED  BY <3>1, <1>2, <1>3
  <2>2. CASE m - q <= -1
    <3>1. b * (m - q) <= -b
      BY <1>2, <2>2, Z3
    <3> QED  BY <3>1, <1>2, <1>3
  <2> QED  BY <2>1, <2>2, <1>2
<1> QED  BY <1>1, <1>3, <1>4, <1>2, Z3

-----------------------------------------------------------------------------
(* Where the passes lie.                                                   *)

\* Everything that addresses are made of is a multiple of a pass.
WholePages ==
  /\ IsMultiple(region, PassBytes)
  /\ \E y \in Nat \ {0} : len = PassBytes * y
  /\ me \in Nat
  /\ IsMultiple(start, PassBytes)

WalkInv == WholePages /\ PassesStayInside

\* The worker's part begins on a multiple of a pass and has room for one.
LEMMA PartIsWhole ==
  ASSUME WholePages
  PROVE  /\ region \in Nat /\ len \in Nat \ {0} /\ start \in Nat
         /\ MemArray \in Nat /\ PartEnd \in Nat
         /\ IsMultiple(MemArray, PassBytes)
         /\ MemArray + PassBytes <= PartEnd
<1>1. PassBytes \in Nat \ {0}
  BY LoadWalkAssumption
<1>2. PICK x \in Nat : region = PassBytes * x
  BY DEF WholePages, IsMultiple
<1>3. PICK y \in Nat \ {0} : len = PassBytes * y
  BY DEF WholePages
<1>4. PICK w \in Nat : start = PassBytes * w
  BY DEF WholePages, IsMultiple
<1>5. me \in Nat
  BY DEF WholePages
<1>6. region \in Nat /\ start \in Nat
  BY <1>1, <1>2, <1>4, Z3
<1>7. len \in Nat \ {0} /\ len >= PassBytes
  BY <1>1, <1>3, Z3
<1>8. me * len \in Nat /\ x + me * y \in Nat
  BY <1>2, <1>3, <1>5, <1>7, Z3
<1>9. MemArray = PassBytes * (x + me * y)
  <2>1. me * len = PassBytes * (me * y)
    BY <1>1, <1>3, <1>5, Z3
  <2>2. PassBytes * (x + me * y) = PassBytes * x + PassBytes * (me * y)
    BY <1>1, <1>2, <1>3, <1>5, Z3
  <2> QED  BY <2>1, <2>2, <1>2 DEF MemArray
<1>10. MemArray \in Nat
  BY <1>6, <1>8 DEF MemArray
<1>11. IsMultiple(MemArray, PassBytes)
  BY <1>8, <1>9 DEF IsMultiple
<1> QED  BY <1>1, <1>6, <1>7, <1>10, <1>11 DEF PartEnd

\* The next pass is inside whenever this one is on a multiple of a pass:
\* that the whole address is taken modulo the length does no harm here.
LEMMA NextPass ==
  ASSUME WholePages
  PROVE  /\ IsMultiple(NextStart, PassBytes)
         /\ MemArray <= NextStart /\ NextStart + PassBytes <= PartEnd
<1>1. PassBytes \in Nat \ {0}
  BY LoadWalkAssumption
<1>2. PICK y \in Nat \ {0} : len = PassBytes * y
  BY DEF WholePages
<1>3. PICK w \in Nat : start = PassBytes * w
  BY DEF WholePages, IsMultiple
<1>4. start + PassBytes = PassBytes * (w + 1) /\ w + 1 \in Nat
  BY <1>1, <1>3, Z3
<1> DEFINE o == (start + PassBytes) % len
<1>5. o \in Nat /\ IsMultiple(o, PassBytes) /\ o + PassBytes <= len
  BY <1>1, <1>2, <1>4, RemainderOfMultiple
<1>6. MemArray \in Nat /\ IsMultiple(MemArray, PassBytes) /\ len \in Nat
  BY PartIsWhole
<1>7. IsMultiple(MemArray + o, PassBytes)
  <2>1. PICK v \in Nat : MemArray = PassBytes * v
    BY <1>6 DEF IsMultiple
  <2>2. PICK u \in Nat : o = PassBytes * u
    BY <1>5 DEF IsMultiple
  <2>3. MemArray + o = PassBytes * (v + u)
    BY <1>1, <2>1, <2>2, Z3
  <2>4. v + u \in Nat
    OBVIOUS
  <2> QED  BY <2>3, <2>4 DEF IsMultiple
<1> QED  BY <1>1, <1>5, <1>6, <1>7 DEF NextStart, PartEnd

\* The passes of the program begin where they may.
LEMMA WalkInit == Init => WalkInv
<1> SUFFICES ASSUME Init PROVE WalkInv
  OBVIOUS
<1>1. PassBytes \in Nat \ {0}
  BY LoadWalkAssumption
<1>2. PICK n \in RegionPages : region = n * PassBytes
  BY DEF Init
<1>3. PICK m \in PartPages : len = m * PassBytes
  BY DEF Init
<1>4. n \in Nat /\ m \in Nat \ {0}
  BY <1>2, <1>3, LoadWalkAssumption
<1>5. IsMultiple(region, PassBytes) /\ len = PassBytes * m
  BY <1>1, <1>2, <1>3, <1>4, Z3 DEF IsMultiple
<1>6. me \in Nat
  BY LoadWalkAssumption DEF Init
<1>7. start = MemArray
  BY DEF Init
<1>8. IsMultiple(MemArray, PassBytes)
  <2>1. me * len = PassBytes * (me * m)
    BY <1>1, <1>4, <1>5, <1>6, Z3
  <2>2. region + me * len = PassBytes * (n + me * m)
    BY <1>1, <1>2, <1>4, <1>6, <2>1, Z3
  <2>3. n + me * m \in Nat
    BY <1>4, <1>6, Z3
  <2> QED  BY <2>2, <2>3 DEF MemArray, IsMultiple
<1>9. WholePages
  BY <1>4, <1>5, <1>6, <1>7, <1>8 DEF WholePages
<1> QED  BY <1>1, <1>7, <1>9, PartIsWhole DEF WalkInv, PassesStayInside

\* Every step leads from one such pass to another.
LEMMA WalkStep == WalkInv /\ [Next]_vars => WalkInv'
<1> SUFFICES ASSUME WalkInv, [Next]_vars PROVE WalkInv'
  OBVIOUS
<1>1. PassBytes \in Nat \ {0}
  BY LoadWalkAssumption
<1>2. UNCHANGED worker
  BY DEF Next, vars, Call, Iterate, Leave, ReturnFromPriming, ReturnFromPass,
         ReturnFromDummy, Done
<1>3. start' \in {start, NextStart, MemArray}
  BY DEF Next, vars, Call, Iterate, Leave, ReturnFromPriming, ReturnFromPass,
         ReturnFromDummy, Done, StartOfDummy
<1>4. MemArray' = MemArray /\ PartEnd' = PartEnd
  BY <1>2 DEF worker, MemArray, PartEnd
<1>5. WholePages /\ PassesStayInside
  BY DEF WalkInv
<1>6. /\ IsMultiple(start', PassBytes)
      /\ MemArray <= start' /\ start' + PassBytes <= PartEnd
  <2>1. CASE start' = start
    BY <2>1, <1>5 DEF WholePages, PassesStayInside
  <2>2. CASE start' = NextStart
    BY <2>2, <1>5, NextPass
  <2>3. CASE start' = MemArray
    BY <2>3, <1>5, PartIsWhole
  <2> QED  BY <1>3, <2>1, <2>2, <2>3
<1>7. WholePages'
  BY <1>2, <1>5, <1>6 DEF WholePages, worker, IsMultiple
<1> QED  BY <1>4, <1>6, <1>7 DEF WalkInv, PassesStayInside

\* LoadWorker::run() never calls a kernel on anything but the worker's own
\* part of the memory region.
THEOREM PassesInside == Spec => []PassesStayInside
<1>1. WalkInv => PassesStayInside
  BY DEF WalkInv
<1> QED  BY WalkInit, WalkStep, <1>1, PTL DEF Spec

-----------------------------------------------------------------------------
(* Type correctness.                                                       *)

\* How far the counters of the loops may be.  The clock is read after whole
\* batches only, which is what bounds the dummy passes by the passes.
Counting ==
  /\ phase = "prime" => passes = 0
  /\ phase = "real" => p = 0 /\ passes < MaxBatches * PassesPerBatch
  /\ phase = "dummy" => passes % PassesPerBatch = 0 /\ p < passes

TypeInv == TypeOK /\ Counting /\ WalkInv

\* A table of kernels holds kernels: with strides of 1, 2, 4, 8 and 16.
LEMMA LoopTypes ==
  ASSUME NEW s \in Strides
  PROVE  /\ Loop(s, 1024, 512, 256, 128, 64) \in [ChunkBytes -> KernelType]
         /\ Loop(s, 512, 256, 128, 64, 32) \in [ChunkBytes -> KernelType]
         /\ Loop(s, 256, 128, 64, 32, 16) \in [ChunkBytes -> KernelType]
         /\ Loop(s, 128, 64, 32, 16, 8) \in [ChunkBytes -> KernelType]
         /\ Loop(s, 64, 32, 16, 8, 4) \in [ChunkBytes -> KernelType]
<1> SUFFICES ASSUME NEW chunk \in {4, 8, 16, 32, 64}
    PROVE  /\ Loop(s, 1024, 512, 256, 128, 64)[chunk] \in KernelType
           /\ Loop(s, 512, 256, 128, 64, 32)[chunk] \in KernelType
           /\ Loop(s, 256, 128, 64, 32, 16)[chunk] \in KernelType
           /\ Loop(s, 128, 64, 32, 16, 8)[chunk] \in KernelType
           /\ Loop(s, 64, 32, 16, 8, 4)[chunk] \in KernelType
  BY DEF Loop, ChunkBytes
<1>1. chunk \in ChunkBytes
  BY DEF ChunkBytes
<1> QED  BY <1>1 DEF Loop, KernelType

\* So do the pairs of determine_sequential_kernel() ...
LEMMA ReadKernelTypes ==
  \A s \in Strides : /\ ReadKernels[s][1] \in [ChunkBytes -> KernelType]
                     /\ ReadKernels[s][2] \in [ChunkBytes -> KernelType]
<1>0. {1, -1, 2, -2, 4, -4, 8, -8, 16, -16} = Strides
  BY DEF Strides
<1> DEFINE Table == [ChunkBytes -> KernelType]
<1>1. /\ forwSequentialRead \in Table /\ revSequentialRead \in Table
      /\ dummy_forwSequentialLoop \in Table /\ dummy_revSequentialLoop \in Table
  BY <1>0, LoopTypes DEF forwSequentialRead, revSequentialRead,
         dummy_forwSequentialLoop, dummy_revSequentialLoop
<1>2. /\ forwStride2Read \in Table /\ revStride2Read \in Table
      /\ dummy_forwStride2Loop \in Table /\ dummy_revStride2Loop \in Table
  BY <1>0, LoopTypes DEF forwStride2Read, revStride2Read,
         dummy_forwStride2Loop, dummy_revStride2Loop
<1>3. /\ forwStride4Read \in Table /\ revStride4Read \in Table
      /\ dummy_forwStride4Loop \in Table /\ dummy_revStride4Loop \in Table
  BY <1>0, LoopTypes DEF forwStride4Read, revStride4Read,
         dummy_forwStride4Loop, dummy_revStride4Loop
<1>4. /\ forwStride8Read \in Table /\ revStride8Read \in Table
      /\ dummy_forwStride8Loop \in Table /\ dummy_revStride8Loop \in Table
  BY <1>0, LoopTypes DEF forwStride8Read, revStride8Read,
         dummy_forwStride8Loop, dummy_revStride8Loop
<1>5. /\ forwStride16Read \in Table /\ revStride16Read \in Table
      /\ dummy_forwStride16Loop \in Table /\ dummy_revStride16Loop \in Table
  BY <1>0, LoopTypes DEF forwStride16Read, revStride16Read,
         dummy_forwStride16Loop, dummy_revStride16Loop
<1> SUFFICES ASSUME NEW s \in {1, -1, 2, -2, 4, -4, 8, -8, 16, -16}
             PROVE  ReadKernels[s][1] \in Table /\ ReadKernels[s][2] \in Table
  BY <1>0
<1> HIDE DEF Table
<1> QED  BY <1>0, <1>1, <1>2, <1>3, <1>4, <1>5 DEF ReadKernels

\* ... for writing as well, with the one table that is patched together.
LEMMA WriteKernelTypes ==
  \A s \in Strides : /\ WriteKernels[s][1] \in [ChunkBytes -> KernelType]
                     /\ WriteKernels[s][2] \in [ChunkBytes -> KernelType]
<1>0. {1, -1, 2, -2, 4, -4, 8, -8, 16, -16} = Strides
  BY DEF Strides
<1> DEFINE Table == [ChunkBytes -> KernelType]
<1>1. /\ forwSequentialWrite \in Table /\ revSequentialWrite \in Table
      /\ dummy_forwSequentialLoop \in Table /\ dummy_revSequentialLoop \in Table
  BY <1>0, LoopTypes DEF forwSequentialWrite, revSequentialWrite,
         dummy_forwSequentialLoop, dummy_revSequentialLoop
<1>2. /\ forwStride2Write \in Table
      /\ dummy_forwStride2Loop \in Table /\ dummy_revStride2Loop \in Table
  BY <1>0, LoopTypes DEF forwStride2Write,
         dummy_forwStride2Loop, dummy_revStride2Loop
<1>3. revStride2Write \in Table
  <2>1. Loop(-2, 512, 256, 128, 64, 32) \in Table
    BY <1>0, LoopTypes
  <2> QED  BY <2>1, <1>2 DEF revStride2Write
<1>4. /\ forwStride4Write \in Table /\ revStride4Write \in Table
      /\ dummy_forwStride4Loop \in Table /\ dummy_revStride4Loop \in Table
  BY <1>0, LoopTypes DEF forwStride4Write, revStride4Write,
         dummy_forwStride4Loop, dummy_revStride4Loop
<1>5. /\ forwStride8Write \in Table /\ revStride8Write \in Table
      /\ dummy_forwStride8Loop \in Table /\ dummy_revStride8Loop \in Table
  BY <1>0, LoopTypes DEF forwStride8Write, revStride8Write,
         dummy_forwStride8Loop, dummy_revStride8Loop
<1>6. /\ forwStride16Write \in Table /\ revStride16Write \in Table
      /\ dummy_forwStride16Loop \in Table /\ dummy_revStride16Loop \in Table
  BY <1>0, LoopTypes DEF forwStride16Write, revStride16Write,
         dummy_forwStride16Loop, dummy_revStride16Loop
<1> SUFFICES ASSUME NEW s \in {1, -1, 2, -2, 4, -4, 8, -8, 16, -16}
             PROVE  WriteKernels[s][1] \in Table /\ WriteKernels[s][2] \in Table
  BY <1>0
<1> HIDE DEF Table
<1> QED  BY <1>0, <1>1, <1>2, <1>3, <1>4, <1>5, <1>6 DEF WriteKernels

\* And the delay-injected pairs, although some lists of dummies are shorter.
LEMMA DelayedTypes ==
  ASSUME NEW n \in 1..11, NEW windows \in BOOLEAN
  PROVE  \A pair \in {Delayed32[n], Delayed64[n],
                      Delayed128(windows)[n], Delayed256(windows)[n]} :
           pair[1] \in KernelType /\ pair[2] \in KernelType
<1> DEFINE Good(d) == Len(d) \in Nat \ {0} /\ \A k \in 1..Len(d) : d[k] \in Nat
<1>1. ASSUME NEW reads, NEW dummies, Good(reads), Len(reads) = 11, Good(dummies)
      PROVE  /\ Delayed(reads, dummies)[n][1] \in KernelType
             /\ Delayed(reads, dummies)[n][2] \in KernelType
  <2>1. reads[n] \in Nat
    BY <1>1
  <2> DEFINE k == IF n < Len(dummies) THEN n ELSE Len(dummies)
  <2>2. dummies[k] \in Nat
    <3>1. ASSUME NEW l \in Nat \ {0}
          PROVE  (IF n < l THEN n ELSE l) \in 1..l
      BY <3>1, Z3
    <3>2. Len(dummies) \in Nat \ {0}
      BY <1>1, Zenon
    <3>3. k \in 1..Len(dummies)
      BY <3>1, <3>2, Zenon
    <3> QED  BY <1>1, <3>3, Zenon
  <2>3. Delayed(reads, dummies)[n] =
          <<[step |-> 1, unroll |-> reads[n]],
            [step |-> 1, unroll |-> dummies[k]]>>
    BY DEF Delayed
  <2> QED  BY <2>1, <2>2, <2>3 DEF KernelType, Strides
<1>2. /\ Good(forwSequentialRead_Word32_Delay)
      /\ Good(forwSequentialRead_Word64_Delay)
      /\ Good(forwSequentialRead_Word128_Delay(windows))
      /\ Good(forwSequentialRead_Word256_Delay(windows))
  BY DEF forwSequentialRead_Word32_Delay, forwSequentialRead_Word64_Delay,
         forwSequentialRead_Word128_Delay, forwSequentialRead_Word256_Delay,
         NotImplemented
<1>3. /\ Len(forwSequentialRead_Word32_Delay) = 11
      /\ Len(forwSequentialRead_Word64_Delay) = 11
      /\ Len(forwSequentialRead_Word128_Delay(windows)) = 11
      /\ Len(forwSequentialRead_Word256_Delay(windows)) = 11
  BY DEF forwSequentialRead_Word32_Delay, forwSequentialRead_Word64_Delay,
         forwSequentialRead_Word128_Delay, forwSequentialRead_Word256_Delay,
         NotImplemented
<1>4. /\ Good(dummy_forwSequentialLoop_Word32_Delay)
      /\ Good(dummy_forwSequentialLoop_Word64_Delay)
      /\ Good(dummy_forwSequentialLoop_Word128_Delay)
      /\ Good(dummy_forwSequentialLoop_Word256_Delay)
  BY DEF dummy_forwSequentialLoop_Word32_Delay,
         dummy_forwSequentialLoop_Word64_Delay,
         dummy_forwSequentialLoop_Word128_Delay,
         dummy_forwSequentialLoop_Word256_Delay
<1> HIDE DEF Good
<1> QED  BY <1>1, <1>2, <1>3, <1>4, Zenon
            DEF Delayed32, Delayed64, Delayed128, Delayed256

\* A kernel computes with integers.
LEMMA KernelTypes ==
  ASSUME TypeOK
  PROVE  /\ Chunk \in Nat \ {0} /\ Kernel \in KernelType
         /\ Kernel.unroll \in Nat /\ Step \in Int
         /\ End \in Nat /\ Words \in Nat
<1>1. choice \in AllChoices
  BY LoadWalkAssumption DEF TypeOK
<1>2. choice.chunk \in ChunkBytes /\ choice.stride \in Strides
  BY <1>1 DEF AllChoices, PlainChoices, DelayChoices, Strides, ChunkBytes
<1>3. Chunk \in Nat \ {0}
  BY <1>2 DEF Chunk, ChunkBytes
<1>4. PairOf(choice)[1] \in KernelType /\ PairOf(choice)[2] \in KernelType
  <2>1. CASE choice.delay = 0
    BY <1>2, <2>1, ReadKernelTypes, WriteKernelTypes DEF PairOf, PlainPair
  <2>2. CASE choice.delay # 0
    <3>1. /\ choice.delay \in 1..11 /\ choice.chunk \in {4, 8, 16, 32}
          /\ choice.windows \in BOOLEAN
      BY <1>1, <2>2 DEF AllChoices, PlainChoices, DelayChoices, ChunkBytes
    <3> QED  BY <2>2, <3>1, DelayedTypes DEF PairOf, DelayedPair
  <2> QED  BY <2>1, <2>2
<1>5. forwSequentialRead[4] \in KernelType
  <2>1. forwSequentialRead \in [ChunkBytes -> KernelType]
    BY LoopTypes DEF forwSequentialRead, Strides
  <2> QED  BY <2>1 DEF ChunkBytes
<1>6. Kernel \in KernelType
  BY <1>4, <1>5 DEF Kernel
<1>7. Kernel.unroll \in Nat /\ Kernel.step \in Int
  BY <1>6 DEF KernelType, Strides
<1>8. Step \in Int
  BY <1>3, <1>7, Z3 DEF Step
<1>9. End \in Nat /\ End - start \in Nat
  BY LoadWalkAssumption DEF TypeOK, End
<1>10. Words \in Nat
  <2>1. (End - start) \div Chunk \in Nat
    <3> DEFINE n == End - start
    <3> HIDE DEF n
    <3>1. n \div Chunk \in Nat
      BY <1>9, <1>3, Z3 DEF n
    <3> QED  BY <3>1 DEF n
  <2> QED  BY <2>1 DEF Words
<1> QED  BY <1>3, <1>6, <1>7, <1>8, <1>9, <1>10

\* The first state.
LEMMA TypeInit == Init => TypeInv
<1> SUFFICES ASSUME Init PROVE TypeInv
  OBVIOUS
<1>1. WalkInv
  BY WalkInit
<1>2. /\ region \in Nat /\ len \in Nat \ {0} /\ start \in Nat
      /\ MemArray \in Nat
  BY <1>1, PartIsWhole DEF WalkInv
<1>3. MaxBatches * PassesPerBatch \in Nat \ {0}
  BY LoadWalkAssumption, Z3
<1>4. TypeOK
  BY <1>2, <1>3 DEF Init, TypeOK
<1>5. Counting
  BY DEF Init, Counting
<1> QED  BY <1>1, <1>4, <1>5 DEF TypeInv

\* Every action.
LEMMA TypeStep == TypeInv /\ [Next]_vars => TypeInv'
<1> SUFFICES ASSUME TypeInv, [Next]_vars PROVE TypeInv'
  OBVIOUS
<1>1. TypeOK /\ Counting /\ WalkInv
  BY DEF TypeInv
<1>2. WalkInv'
  BY <1>1, WalkStep
<1>3. start' \in Nat /\ region' \in Nat /\ len' \in Nat \ {0}
  <2>1. \A x, y \in Nat \ {0} : x * y \in Nat \ {0}
    BY Z3
  <2>2. PassBytes \in Nat \ {0}
    BY LoadWalkAssumption
  <2>3. \A x \in Nat : PassBytes * x \in Nat
    BY <2>2, Z3
  <2> QED  BY <1>2, <2>1, <2>2, <2>3 DEF WalkInv, WholePages, IsMultiple
<1>4. MemArray \in Nat
  BY <1>1, PartIsWhole DEF WalkInv
<1>5. /\ Chunk \in Nat \ {0} /\ Kernel.unroll \in Nat /\ Step \in Int
      /\ End \in Nat /\ Words \in Nat
  BY <1>1, KernelTypes
<1>6. CASE Call
  BY <1>1, <1>2, <1>3, <1>5, <1>6 DEF Call, TypeInv, TypeOK, Counting, worker
<1>7. CASE Iterate
  <2>1. \A n \in Nat : n * Step \in Int
    BY <1>5, Z3
  <2>2. Words * Chunk \in Int
    BY <1>5, Z3
  <2>3. wordptr' \in Int
    <3>1. wordptr + Kernel.unroll * Step \in Int
      BY <1>1, <1>5, <2>1 DEF TypeOK
    <3>2. \A ptr \in Int : Wrapped(ptr) \in Int
      BY <2>2 DEF Wrapped
    <3> QED  BY <1>7, <3>1, <3>2 DEF Iterate
  <2>4. i' \in Nat
    BY <1>1, <1>5, <1>7 DEF Iterate, TypeOK
  <2>5. touched' \subseteq Int /\ moved' \in Nat
    <3>1. wordptr \in Int /\ 0..Kernel.unroll-1 \subseteq Nat
      BY <1>1, <1>5 DEF TypeOK
    <3>2. \A n \in 0..Kernel.unroll-1 : wordptr + n * Step \in Int
      BY <3>1, <2>1
    <3>3. Accessed \subseteq Int
      BY <3>2, Zenon DEF Accessed
    <3>4. touched \subseteq Int /\ moved \in Nat
      BY <1>1 DEF TypeOK
    <3>5. CASE phase = "dummy"
      BY <3>4, <3>5, <1>7 DEF Iterate
    <3>6. CASE phase # "dummy"
      <4>1. touched' = touched \cup Accessed /\ moved' = moved + Kernel.unroll
        BY <3>6, <1>7 DEF Iterate
      <4> QED  BY <4>1, <3>3, <3>4, <1>5
    <3> QED  BY <3>5, <3>6
  <2>6. steps' \in [{"real", "dummy"} -> Nat]
    <3>1. phase \in {"prime", "real", "dummy"} \/ phase = "done"
      BY <1>1 DEF TypeOK
    <3>2. steps' = steps
             \/ steps' = [steps EXCEPT ![phase] = @ + Kernel.unroll]
      BY <1>7 DEF Iterate
    <3> QED  BY <3>1, <3>2, <1>1, <1>5 DEF TypeOK
  <2> QED
    BY <1>1, <1>2, <1>3, <1>7, <2>3, <2>4, <2>5, <2>6
       DEF Iterate, TypeInv, TypeOK, Counting, worker
<1>8. CASE Leave
  BY <1>1, <1>2, <1>3, <1>8 DEF Leave, TypeInv, TypeOK, Counting, worker
<1>9. MaxBatches * PassesPerBatch \in Nat \ {0}
  BY LoadWalkAssumption, Z3
<1>10. PassesPerBatch \in Nat \ {0}
  BY LoadWalkAssumption
<1>11. (MaxBatches * PassesPerBatch) % PassesPerBatch = 0
  BY LoadWalkAssumption, MultiplesLeaveNothing
<1>12. CASE ReturnFromPriming
  <2>1. p' \in Nat /\ phase' \in {"prime", "real"} /\ (phase' = "real" => p' = 0)
    BY <1>1, <1>12 DEF ReturnFromPriming, TypeOK
  <2>2. passes = 0 /\ passes' = 0
    BY <1>1, <1>12 DEF ReturnFromPriming, Counting, TypeOK
  <2> QED
    BY <1>1, <1>2, <1>3, <1>9, <1>12, <2>1, <2>2
       DEF ReturnFromPriming, TypeInv, TypeOK, Counting, worker
<1>13. start - MemArray \in Int
  BY <1>1, <1>4 DEF TypeOK
<1>14. phase \in {"real", "dummy"} =>
         WithPage \in [{"real", "dummy"} -> Seq(Int)]
  BY <1>1, <1>13 DEF WithPage, TypeOK
<1>15. CASE ReturnFromPass
  <2>1. /\ p = 0 /\ passes \in Nat /\ passes < MaxBatches * PassesPerBatch
        /\ passes' = passes + 1 /\ p' = p
    BY <1>1, <1>15 DEF ReturnFromPass, Counting, TypeOK
  <2>2. passes' \in 1..MaxBatches * PassesPerBatch
    BY <1>9, <2>1
  <2>3. phase' \in {"real", "dummy"}
    BY <1>15 DEF ReturnFromPass
  <2>4. CASE phase' = "real"
    <3>1. \/ passes' % PassesPerBatch # 0
          \/ passes' < MaxBatches * PassesPerBatch
      BY <1>15, <2>4 DEF ReturnFromPass
    <3>2. passes' < MaxBatches * PassesPerBatch
      BY <3>1, <1>9, <1>11, <2>2
    <3> QED
      BY <1>1, <1>2, <1>3, <1>14, <1>15, <2>1, <2>2, <2>4, <3>2
         DEF ReturnFromPass, TypeInv, TypeOK, Counting, worker
  <2>5. CASE phase' = "dummy"
    <3>1. passes' % PassesPerBatch = 0
      BY <1>15, <2>5 DEF ReturnFromPass
    <3> QED
      BY <1>1, <1>2, <1>3, <1>14, <1>15, <2>1, <2>2, <2>5, <3>1
         DEF ReturnFromPass, TypeInv, TypeOK, Counting, worker
  <2> QED  BY <2>3, <2>4, <2>5
<1>16. CASE ReturnFromDummy
  <2>1. /\ p \in Nat /\ p' = p + 1 /\ p < passes /\ passes \in Nat
        /\ passes % PassesPerBatch = 0 /\ passes' = passes
    BY <1>1, <1>9, <1>16 DEF ReturnFromDummy, Counting, TypeOK
  <2>2. p' \in Nat /\ p' <= passes
    BY <2>1
  <2>3. CASE DummyGoesOn(p')
    <3>1. p' # passes
      BY <2>1, <2>3 DEF DummyGoesOn
    <3>2. phase' = "dummy" /\ pc' = "call"
      BY <1>16, <2>3 DEF ReturnFromDummy
    <3> QED
      BY <1>1, <1>2, <1>3, <1>14, <1>16, <2>1, <2>2, <3>1, <3>2
         DEF ReturnFromDummy, TypeInv, TypeOK, Counting, worker
  <2>4. CASE ~DummyGoesOn(p')
    <3>1. phase' = "done" /\ pc' = "return"
      BY <1>16, <2>4 DEF ReturnFromDummy
    <3> QED
      BY <1>1, <1>2, <1>3, <1>14, <1>16, <2>1, <2>2, <3>1
         DEF ReturnFromDummy, TypeInv, TypeOK, Counting, worker
  <2> QED  BY <2>3, <2>4
<1>17. CASE UNCHANGED vars
  BY <1>1, <1>2, <1>17 DEF vars, TypeInv, TypeOK, Counting, worker
<1> QED
  BY <1>6, <1>7, <1>8, <1>12, <1>15, <1>16, <1>17 DEF Next, Done

\* The type invariant, and with it that no more dummy passes are run than
\* passes, although both are only counted in whole batches.
THEOREM TypeCorrect == Spec => []TypeOK
<1>1. TypeInv => TypeOK
  BY DEF TypeInv
<1> QED  BY TypeInit, TypeStep, <1>1, PTL DEF Spec

-----------------------------------------------------------------------------
(* What the tables of kernels have in common: an iteration of a kernel     *)
(* covers a whole fraction of 4096 bytes, whatever the size of its words   *)
(* and however often it is unrolled.                                       *)

Magnitude(s) == IF s < 0 THEN -s ELSE s

Suits(kernel, chunk, stride) ==
  /\ Magnitude(kernel.step) = Magnitude(stride)
  /\ IsMultiple(4096, kernel.unroll * (Magnitude(kernel.step) * chunk))

LEMMA LoopsSuit ==
  ASSUME NEW chunk \in ChunkBytes
  PROVE  /\ \A s \in {1, -1} :
              Suits(Loop(s, 1024, 512, 256, 128, 64)[chunk], chunk, s)
         /\ \A s \in {2, -2} :
              Suits(Loop(s, 512, 256, 128, 64, 32)[chunk], chunk, s)
         /\ \A s \in {4, -4} :
              Suits(Loop(s, 256, 128, 64, 32, 16)[chunk], chunk, s)
         /\ \A s \in {8, -8} :
              Suits(Loop(s, 128, 64, 32, 16, 8)[chunk], chunk, s)
         /\ \A s \in {16, -16} :
              Suits(Loop(s, 64, 32, 16, 8, 4)[chunk], chunk, s)
<1>1. ASSUME NEW kernel, NEW s, Magnitude(kernel.step) = Magnitude(s),
             kernel.unroll * (Magnitude(kernel.step) * chunk) = 4096
      PROVE  Suits(kernel, chunk, s)
  <2>1. IsMultiple(4096, 4096)
    <3>1. 4096 = 4096 * 1 /\ 1 \in Nat
      OBVIOUS
    <3> QED  BY <3>1 DEF IsMultiple
  <2>2. IsMultiple(4096, kernel.unroll * (Magnitude(kernel.step) * chunk))
    BY <1>1, <2>1
  <2> QED  BY <1>1, <2>2 DEF Suits
<1>2. chunk \in {4, 8, 16, 32, 64}
  BY DEF ChunkBytes
<1>3. ASSUME NEW s \in {1, -1}
      PROVE  Suits(Loop(s, 1024, 512, 256, 128, 64)[chunk], chunk, s)
  BY <1>1, <1>2 DEF Loop, Magnitude
<1>4. ASSUME NEW s \in {2, -2}
      PROVE  Suits(Loop(s, 512, 256, 128, 64, 32)[chunk], chunk, s)
  BY <1>1, <1>2 DEF Loop, Magnitude
<1>5. ASSUME NEW s \in {4, -4}
      PROVE  Suits(Loop(s, 256, 128, 64, 32, 16)[chunk], chunk, s)
  BY <1>1, <1>2 DEF Loop, Magnitude
<1>6. ASSUME NEW s \in {8, -8}
      PROVE  Suits(Loop(s, 128, 64, 32, 16, 8)[chunk], chunk, s)
  BY <1>1, <1>2 DEF Loop, Magnitude
<1>7. ASSUME NEW s \in {16, -16}
      PROVE  Suits(Loop(s, 64, 32, 16, 8, 4)[chunk], chunk, s)
  BY <1>1, <1>2 DEF Loop, Magnitude
<1> QED  BY <1>3, <1>4, <1>5, <1>6, <1>7

\* A benchmark is given a kernel and a dummy that go through memory at the
\* stride it asked for, if in the one case not in its direction.
LEMMA PlainKernelsSuit ==
  ASSUME NEW s \in Strides, NEW chunk \in ChunkBytes
  PROVE  /\ Suits(ReadKernels[s][1][chunk], chunk, s)
         /\ Suits(ReadKernels[s][2][chunk], chunk, s)
         /\ Suits(WriteKernels[s][1][chunk], chunk, s)
         /\ Suits(WriteKernels[s][2][chunk], chunk, s)
<1>1. CASE s \in {1, -1}
  <2>1. Suits(Loop(s, 1024, 512, 256, 128, 64)[chunk], chunk, s)
    BY <1>1, LoopsSuit
  <2> QED
    BY <1>1, <2>1
    DEF ReadKernels, WriteKernels, forwSequentialRead, revSequentialRead,
        forwSequentialWrite, revSequentialWrite, dummy_forwSequentialLoop,
        dummy_revSequentialLoop
<1>2. CASE s \in {2, -2}
  <2>1. Suits(Loop(s, 512, 256, 128, 64, 32)[chunk], chunk, s)
    BY <1>2, LoopsSuit
  <2>2. s = -2 => Suits(Loop(2, 512, 256, 128, 64, 32)[chunk], chunk, s)
    BY LoopsSuit DEF Suits, Magnitude
  <2>3. s = -2 =>
          WriteKernels[s][1][chunk] \in
            {Loop(2, 512, 256, 128, 64, 32)[chunk],
             Loop(-2, 512, 256, 128, 64, 32)[chunk]}
    BY DEF WriteKernels, revStride2Write, forwStride2Write
  <2> QED
    BY <1>2, <2>1, <2>2, <2>3
    DEF ReadKernels, WriteKernels, forwStride2Read, revStride2Read,
        forwStride2Write, dummy_forwStride2Loop, dummy_revStride2Loop
<1>3. CASE s \in {4, -4}
  <2>1. Suits(Loop(s, 256, 128, 64, 32, 16)[chunk], chunk, s)
    BY <1>3, LoopsSuit
  <2> QED
    BY <1>3, <2>1
    DEF ReadKernels, WriteKernels, forwStride4Read, revStride4Read,
        forwStride4Write, revStride4Write, dummy_forwStride4Loop,
        dummy_revStride4Loop
<1>4. CASE s \in {8, -8}
  <2>1. Suits(Loop(s, 128, 64, 32, 16, 8)[chunk], chunk, s)
    BY <1>4, LoopsSuit
  <2> QED
    BY <1>4, <2>1
    DEF ReadKernels, WriteKernels, forwStride8Read, revStride8Read,
        forwStride8Write, revStride8Write, dummy_forwStride8Loop,
        dummy_revStride8Loop
<1>5. CASE s \in {16, -16}
  <2>1. Suits(Loop(s, 64, 32, 16, 8, 4)[chunk], chunk, s)
    BY <1>5, LoopsSuit
  <2> QED
    BY <1>5, <2>1
    DEF ReadKernels, WriteKernels, forwStride16Read, revStride16Read,
        forwStride16Write, revStride16Write, dummy_forwStride16Loop,
        dummy_revStride16Loop
<1> QED  BY <1>1, <1>2, <1>3, <1>4, <1>5 DEF Strides

Powers == {1, 2, 4, 8, 16, 32, 64, 128, 256, 512, 1024, 2048, 4096}

\* Of a kernel that is missing on Windows this is true of the dummy alone.
LEMMA DelayedKernelsSuit ==
  ASSUME NEW n \in 1..11, NEW windows \in BOOLEAN
  PROVE  /\ \A m \in {1, 2} :
              /\ Suits(Delayed32[n][m], 4, 1) /\ Suits(Delayed64[n][m], 8, 1)
         /\ ~windows => /\ Suits(Delayed128(windows)[n][1], 16, 1)
                        /\ Suits(Delayed256(windows)[n][1], 32, 1)
         /\ Suits(Delayed128(windows)[n][2], 16, 1)
         /\ Suits(Delayed256(windows)[n][2], 32, 1)
<1>1. \A u \in Powers : IsMultiple(4096, u)
  <2>1. \A u \in Powers : \E x \in Powers : 4096 = u * x
    BY DEF Powers
  <2> QED  BY <2>1 DEF IsMultiple, Powers
<1> DEFINE Fits(d, chunk) ==
             \A k \in 1..Len(d) : d[k] * chunk \in Powers
           Nonempty(d) == Len(d) \in Nat \ {0}
<1>2. ASSUME NEW u, NEW chunk \in Nat, u * chunk \in Powers
      PROVE  Suits([step |-> 1, unroll |-> u], chunk, 1)
  BY <1>1, <1>2 DEF Suits, Magnitude
<1>3. ASSUME NEW reads, NEW dummies, NEW chunk \in Nat,
             Len(reads) = 11, Fits(reads, chunk)
      PROVE  Suits(Delayed(reads, dummies)[n][1], chunk, 1)
  <2>1. reads[n] * chunk \in Powers
    BY <1>3
  <2>2. Delayed(reads, dummies)[n][1] = [step |-> 1, unroll |-> reads[n]]
    BY DEF Delayed
  <2> HIDE DEF Fits
  <2> QED  BY <1>2, <2>1, <2>2
<1>4. ASSUME NEW reads, NEW dummies, NEW chunk \in Nat,
             Nonempty(dummies), Fits(dummies, chunk)
      PROVE  Suits(Delayed(reads, dummies)[n][2], chunk, 1)
  <2> DEFINE k == IF n < Len(dummies) THEN n ELSE Len(dummies)
  <2>1. k \in 1..Len(dummies)
    BY <1>4
  <2>2. dummies[k] * chunk \in Powers
    BY <1>4, <2>1
  <2>3. Delayed(reads, dummies)[n][2] = [step |-> 1, unroll |-> dummies[k]]
    BY DEF Delayed
  <2> HIDE DEF k, Fits
  <2> QED  BY <1>2, <2>2, <2>3
<1>5. /\ Len(forwSequentialRead_Word32_Delay) = 11
      /\ Len(forwSequentialRead_Word64_Delay) = 11
      /\ ~windows => /\ Len(forwSequentialRead_Word128_Delay(windows)) = 11
                     /\ Len(forwSequentialRead_Word256_Delay(windows)) = 11
      /\ Nonempty(dummy_forwSequentialLoop_Word32_Delay)
      /\ Nonempty(dummy_forwSequentialLoop_Word64_Delay)
      /\ Nonempty(dummy_forwSequentialLoop_Word128_Delay)
      /\ Nonempty(dummy_forwSequentialLoop_Word256_Delay)
  BY DEF forwSequentialRead_Word32_Delay, forwSequentialRead_Word64_Delay,
         forwSequentialRead_Word128_Delay, forwSequentialRead_Word256_Delay,
         dummy_forwSequentialLoop_Word32_Delay,
         dummy_forwSequentialLoop_Word64_Delay,
         dummy_forwSequentialLoop_Word128_Delay,
         dummy_forwSequentialLoop_Word256_Delay
<1>6. /\ Fits(forwSequentialRead_Word32_Delay, 4)
      /\ Fits(dummy_forwSequentialLoop_Word32_Delay, 4)
  BY DEF Powers, forwSequentialRead_Word32_Delay,
         dummy_forwSequentialLoop_Word32_Delay
<1>7. /\ Fits(forwSequentialRead_Word64_Delay, 8)
      /\ Fits(dummy_forwSequentialLoop_Word64_Delay, 8)
  BY DEF Powers, forwSequentialRead_Word64_Delay,
         dummy_forwSequentialLoop_Word64_Delay
<1>8. /\ ~windows => Fits(forwSequentialRead_Word128_Delay(windows), 16)
      /\ Fits(dummy_forwSequentialLoop_Word128_Delay, 16)
  BY DEF Powers, forwSequentialRead_Word128_Delay,
         dummy_forwSequentialLoop_Word128_Delay
<1>9. /\ ~windows => Fits(forwSequentialRead_Word256_Delay(windows), 32)
      /\ Fits(dummy_forwSequentialLoop_Word256_Delay, 32)
  BY DEF Powers, forwSequentialRead_Word256_Delay,
         dummy_forwSequentialLoop_Word256_Delay
<1> HIDE DEF Fits, Nonempty
<1> QED  BY <1>3, <1>4, <1>5, <1>6, <1>7, <1>8, <1>9
         DEF Delayed32, Delayed64, Delayed128, Delayed256

LEMMA PairsSuit ==
  ASSUME NEW c \in AllChoices
  PROVE  /\ ~Missing(c) => Suits(PairOf(c)[1], c.chunk, c.stride)
         /\ Suits(PairOf(c)[2], c.chunk, c.stride)
<1>1. CASE c \in PlainChoices
  <2>1. c.delay = 0 /\ c.chunk \in ChunkBytes /\ c.stride \in Strides
    BY <1>1 DEF PlainChoices, ChunkBytes
  <2> QED  BY <2>1, PlainKernelsSuit DEF PairOf, PlainPair
<1>2. CASE c \in DelayChoices
  <2>1. /\ c.delay \in 1..11 /\ c.delay # 0 /\ c.stride = 1
        /\ c.chunk \in {4, 8, 16, 32} /\ c.windows \in BOOLEAN
    BY <1>2 DEF DelayChoices, ChunkBytes
  <2>2. ~Missing(c) => c.chunk \in {4, 8} \/ ~c.windows
    BY <2>1 DEF Missing
  <2>3. PairOf(c) = DelayedPair(c)
    BY <2>1 DEF PairOf
  <2>4. /\ ~Missing(c) => Suits(DelayedPair(c)[1], c.chunk, 1)
        /\ Suits(DelayedPair(c)[2], c.chunk, 1)
    <3>1. CASE c.chunk = 4
      BY <2>1, <3>1, DelayedKernelsSuit DEF DelayedPair
    <3>2. CASE c.chunk = 8
      BY <2>1, <3>2, DelayedKernelsSuit DEF DelayedPair
    <3>3. CASE c.chunk = 16
      BY <2>1, <2>2, <3>3, DelayedKernelsSuit DEF DelayedPair
    <3>4. CASE c.chunk = 32
      BY <2>1, <2>2, <3>4, DelayedKernelsSuit DEF DelayedPair
    <3> QED  BY <2>1, <3>1, <3>2, <3>3, <3>4
  <2> QED  BY <2>1, <2>3, <2>4
<1> QED  BY <1>1, <1>2 DEF AllChoices

\* And this is how a call of a missing kernel does nothing.
LEMMA MissingHasNoLoop ==
  ASSUME NEW c \in AllChoices, Missing(c)
  PROVE  PairOf(c)[1].unroll = 0
<1>1. /\ c.delay \in 1..11 /\ c.delay # 0 /\ c.chunk \in {16, 32} /\ c.windows
  <2>1. c.delay > 0 /\ c.chunk > 8 /\ c.windows
    BY DEF Missing
  <2>2. c \in DelayChoices
    <3>1. c \in PlainChoices => c.delay = 0
      BY DEF PlainChoices
    <3> QED  BY <2>1, <3>1 DEF AllChoices
  <2>3. c.delay \in 1..11 /\ c.chunk \in {4, 8, 16, 32}
    BY <2>2 DEF DelayChoices, ChunkBytes
  <2> QED  BY <2>1, <2>3
<1>2. ASSUME NEW dummies, NEW n \in 1..11
      PROVE  Delayed(NotImplemented, dummies)[n][1].unroll = 0
  BY DEF Delayed, NotImplemented
<1> QED
  BY <1>1, <1>2 DEF PairOf, DelayedPair, Delayed128, Delayed256,
     forwSequentialRead_Word128_Delay, forwSequentialRead_Word256_Delay

-----------------------------------------------------------------------------
(* What a call of a kernel has done so far.  After m iterations its        *)
(* pointer is r iterations away from where it began; unlike m, r starts    *)
(* again when the pointer of a strided kernel wraps around.                *)

\* The length of a pass is a multiple of what the longest loops cover: it is
\* 4096 in the code.
WholeIterations == PassBytes % 4096 = 0

\* The bytes from one access to the next, and those of an iteration.
Stride == Magnitude(Kernel.step) * Chunk
Span == Kernel.unroll * Stride

\* How many iterations go over the memory once, and how many there are.
Spans == (End - start) \div Span
Iterations == Magnitude(Kernel.step) * Spans

\* The kernel that is called, or was last, is missing on Windows.
Empty == phase \in {"real", "done"} /\ Missing(choice)

Nth(n) == IF Backward THEN End - n * Stride ELSE start + n * Stride
Place(r) == IF Backward THEN End - r * Span ELSE start + r * Span

Least(a, b) == IF a < b THEN a ELSE b

\* The accesses that are counted for a pass, and the passes that are over.
PassWords == PassBytes \div choice.chunk
PassesOver == IF phase = "dummy" THEN p ELSE passes

InCall(m, r) ==
  /\ m < Spans => r = m
  /\ Strided => i = m * Kernel.unroll /\ r < Spans
  /\ ~Strided => r = m
  /\ wordptr = Place(r)
  /\ phase # "dummy" =>
       /\ moved = m * Kernel.unroll
       /\ touched = {Nth(n) : n \in 0..Least(m, Spans) * Kernel.unroll - 1}
  /\ phase # "prime" =>
       steps[phase] = PassesOver * PassWords + m * Kernel.unroll

CallInv ==
  pc # "call" /\ phase # "done" /\ ~Empty =>
    \E m \in 0..Iterations, r \in 0..Spans :
      InCall(m, r) /\ (pc = "return" => m = Iterations)

\* The steps of the passes that are over.
StepsInv ==
  /\ phase \in {"prime", "real"} => steps["dummy"] = 0
  /\ phase = "prime" => steps["real"] = 0
  /\ phase \in {"dummy", "done"} /\ ~Missing(choice) =>
       steps["real"] = passes * PassWords
  /\ phase = "done" => p = passes /\ steps["dummy"] = passes * PassWords
  /\ phase = "done" => pc = "return"
  /\ pc = "call" /\ phase # "prime" /\ ~Empty =>
       steps[phase] = PassesOver * PassWords

\* The offset of the pass after the one at offset o, and that of this pass.
NextOffset(o) == (MemArray + o + PassBytes) % len
Offset == start - MemArray

\* The passes begin at 0 and go on from one offset to the next, whether they
\* are timed or only their overhead is.
PagesInv ==
  /\ Len(pages["real"]) = passes
  /\ Len(pages["dummy"]) = IF phase \in {"dummy", "done"} THEN p ELSE 0
  /\ \A n \in 1..passes :
       pages["real"][n] = IF n = 1 THEN 0 ELSE NextOffset(pages["real"][n-1])
  /\ \A n \in 1..Len(pages["dummy"]) : pages["dummy"][n] = pages["real"][n]
  /\ phase = "prime" => start = MemArray
  /\ phase = "real" =>
       Offset = IF passes = 0 THEN 0 ELSE NextOffset(pages["real"][passes])
  /\ phase = "dummy" => Offset = pages["real"][p+1]
  /\ phase = "done" => p = passes

CallsInv == TypeInv /\ PagesInv /\ CallInv /\ StepsInv /\ StaysNextToPart

-----------------------------------------------------------------------------
(* The arithmetic of a call.                                               *)

LEMMA DivisionOfMultiple ==
  ASSUME NEW d \in Nat \ {0}, NEW q \in Nat
  PROVE  (d * q) \div d = q
<1> DEFINE n == d * q
           e == n \div d
<1>1. n \in Nat
  BY Z3
<1>2. e \in Int /\ n - d * e >= 0 /\ n - d * e < d
  <2> HIDE DEF n
  <2> QED  BY <1>1, Z3
<1>3. ASSUME q - e >= 1 PROVE FALSE
  <2>1. d * (q - e) >= d
    BY <1>2, <1>3, Z3
  <2>2. d * (q - e) = n - d * e
    BY <1>2, Z3
  <2> QED  BY <1>2, <2>1, <2>2
<1>4. ASSUME q - e <= -1 PROVE FALSE
  <2>1. d * (q - e) <= -d
    BY <1>2, <1>4, Z3
  <2>2. d * (q - e) = n - d * e
    BY <1>2, Z3
  <2> QED  BY <1>2, <2>1, <2>2
<1> QED  BY <1>2, <1>3, <1>4

LEMMA MultipleOfMultiple ==
  ASSUME NEW d \in Nat, NEW m \in Nat, NEW n, IsMultiple(m, d), IsMultiple(n, m)
  PROVE  IsMultiple(n, d)
<1>1. PICK x \in Nat : m = d * x
  BY DEF IsMultiple
<1>2. PICK y \in Nat : n = m * y
  BY DEF IsMultiple
<1>3. n = d * (x * y) /\ x * y \in Nat
  BY <1>1, <1>2, Z3
<1> QED  BY <1>3 DEF IsMultiple

\* The kernel that is being called covers, in whole iterations, what it is
\* called for, and counts the words of a pass when it is called for one.
LEMMA CallShape ==
  ASSUME TypeOK, WalkInv, WholeIterations, ~Empty
  PROVE  /\ start \in Nat /\ End \in Nat /\ Chunk \in Nat \ {0}
         /\ Kernel.unroll \in Nat \ {0}
         /\ Magnitude(Kernel.step) \in Nat \ {0}
         /\ Stride \in Nat \ {0} /\ Span \in Nat \ {0}
         /\ Spans \in Nat \ {0} /\ End - start = Span * Spans
         /\ Iterations \in Nat /\ Spans <= Iterations
         /\ Strided <=> Magnitude(Kernel.step) # 1
         /\ Words = Kernel.unroll * Iterations /\ Words * Chunk = End - start
         /\ Step = IF Backward THEN -Stride ELSE Stride
         /\ phase # "prime" =>
              Words = PassWords /\ Chunk = choice.chunk /\ End = start + PassBytes
<1> DEFINE u == Kernel.unroll
           m == Magnitude(Kernel.step)
<1>1. /\ Chunk \in Nat \ {0} /\ Kernel \in KernelType
      /\ start \in Nat /\ End \in Nat
  BY KernelTypes DEF TypeOK
<1>2. /\ u \in Nat /\ m \in Nat \ {0}
      /\ Kernel.step = IF Backward THEN -m ELSE m
      /\ Strided <=> m # 1
  BY <1>1 DEF KernelType, Strides, Magnitude, Backward, Strided
<1>3. Stride = m * Chunk /\ Stride \in Nat \ {0}
  BY <1>1, <1>2, Z3 DEF Stride
<1>5. IsMultiple(4096, Span)
  <2>1. CASE phase = "prime"
    <3>1. Kernel = Loop(1, 1024, 512, 256, 128, 64)[4] /\ Chunk = 4
      BY <2>1 DEF Kernel, Chunk, forwSequentialRead
    <3>2. Suits(Kernel, 4, 1)
      BY <3>1, LoopsSuit DEF ChunkBytes
    <3> QED  BY <3>1, <3>2 DEF Suits, Span, Stride
  <2>2. CASE phase # "prime"
    <3>1. choice \in AllChoices
      BY LoadWalkAssumption DEF TypeOK
    <3>2. Chunk = choice.chunk
      BY <2>2 DEF Chunk
    <3>3. \/ Kernel = PairOf(choice)[1] /\ ~Missing(choice)
          \/ Kernel = PairOf(choice)[2]
      BY <2>2 DEF Kernel, Empty, TypeOK
    <3> QED  BY <3>1, <3>2, <3>3, PairsSuit DEF Suits, Span, Stride
  <2> QED  BY <2>1, <2>2
<1>4. Span = u * Stride /\ u \in Nat \ {0} /\ Span \in Nat \ {0}
  <2>1. Span = u * Stride
    BY DEF Span
  <2>2. PICK x \in Nat : 4096 = (u * Stride) * x
    BY <1>5, <2>1 DEF IsMultiple
  <2>3. u # 0
    BY <1>3, <2>2, Z3
  <2> QED  BY <1>2, <1>3, <2>1, <2>3, Z3
<1>6. /\ PassBytes \in Nat \ {0}
      /\ IsMultiple(PassBytes, 4096)
  <2>1. PassBytes \in Nat \ {0}
    BY LoadWalkAssumption
  <2>2. PassBytes = 4096 * (PassBytes \div 4096) /\ PassBytes \div 4096 \in Nat
    BY <2>1, Z3 DEF WholeIterations
  <2> QED  BY <2>1, <2>2 DEF IsMultiple
<1>7. IsMultiple(PassBytes, Span)
  BY <1>4, <1>5, <1>6, MultipleOfMultiple
<1>8. IsMultiple(End - start, PassBytes) /\ End - start \in Nat \ {0}
  <2>1. CASE phase = "prime"
    <3>1. End - start = len
      BY <1>1, <2>1 DEF End, TypeOK
    <3>2. PICK y \in Nat \ {0} : len = PassBytes * y
      BY DEF WalkInv, WholePages
    <3> QED  BY <3>1, <3>2 DEF IsMultiple, TypeOK
  <2>2. CASE phase # "prime"
    <3>1. End - start = PassBytes
      BY <1>1, <1>6, <2>2 DEF End
    <3>2. PassBytes = PassBytes * 1
      BY <1>6
    <3> QED  BY <1>6, <3>1, <3>2 DEF IsMultiple
  <2> QED  BY <2>1, <2>2
<1>9. PICK q \in Nat : End - start = Span * q
  <2>1. IsMultiple(End - start, Span)
    BY <1>4, <1>6, <1>7, <1>8, MultipleOfMultiple
  <2> QED  BY <2>1 DEF IsMultiple
<1>10. q \in Nat \ {0}
  BY <1>4, <1>8, <1>9, Z3
<1>11. Spans = q
  BY <1>4, <1>9, DivisionOfMultiple DEF Spans
<1>12. Iterations = m * q /\ Iterations \in Nat /\ q <= Iterations
  BY <1>2, <1>10, <1>11, Z3 DEF Iterations
<1>13. End - start = Chunk * (u * Iterations)
  <2>1. Span * q = (u * (m * Chunk)) * q
    BY <1>3, <1>4
  <2>2. (u * (m * Chunk)) * q = Chunk * (u * (m * q))
    BY <1>1, <1>2, Z3
  <2> QED  BY <1>9, <1>12, <2>1, <2>2
<1>14. u * Iterations \in Nat
  BY <1>2, <1>12, Z3
<1>15. Words = u * Iterations
  BY <1>1, <1>13, <1>14, DivisionOfMultiple DEF Words
<1>16. Words * Chunk = End - start
  BY <1>1, <1>13, <1>14, <1>15, Z3
<1>17. Step = IF Backward THEN -Stride ELSE Stride
  <2>1. CASE Backward
    BY <1>1, <1>2, <1>3, <2>1, Z3 DEF Step
  <2>2. CASE ~Backward
    BY <1>1, <1>2, <1>3, <2>2, Z3 DEF Step
  <2> QED  BY <2>1, <2>2
<1>18. phase # "prime" =>
         Words = PassWords /\ Chunk = choice.chunk /\ End = start + PassBytes
  <2>1. phase # "prime" => End - start = PassBytes
    BY <1>1, <1>6 DEF End
  <2> QED  BY <2>1 DEF Words, PassWords, Chunk, End
<1> QED
  BY <1>1, <1>2, <1>3, <1>4, <1>9, <1>10, <1>11, <1>12, <1>15, <1>16, <1>17,
     <1>18

LEMMA EmptyHasNoLoop ==
  ASSUME TypeOK, Empty
  PROVE  ~More
<1>1. choice \in AllChoices /\ Missing(choice)
  BY LoadWalkAssumption DEF TypeOK, Empty
<1>2. Kernel = PairOf(choice)[1]
  BY DEF Kernel, Empty
<1> QED  BY <1>1, <1>2, MissingHasNoLoop DEF More

\* Within a call all of this stays.
LEMMA SameCall ==
  ASSUME UNCHANGED <<worker, phase, start>>
  PROVE  /\ UNCHANGED <<Kernel, Chunk, End, Stride, Span, Spans, Iterations,
                        PassWords, Words, MemArray, PartEnd, Step>>
         /\ Backward' <=> Backward
         /\ Strided' <=> Strided
         /\ Empty' <=> Empty
         /\ \A n : Nth(n)' = Nth(n) /\ Place(n)' = Place(n)
BY DEF worker, Kernel, Chunk, End, Stride, Span, Spans, Iterations, PassWords,
       Words, MemArray, PartEnd, Step, Backward, Strided, Empty, Nth, Place

-----------------------------------------------------------------------------
(* The steps of a call.                                                    *)

LEMMA CallBegins ==
  ASSUME CallsInv, WholeIterations, Call, ~Empty
  PROVE  CallInv'
<1>1. UNCHANGED <<worker, phase, passes, p, start, steps>> /\ pc = "call"
      /\ pc' = "loop" /\ i' = 0 /\ touched' = {} /\ moved' = 0
      /\ wordptr' = IF Backward THEN End ELSE start
  BY DEF Call
<1>2. TypeOK /\ WalkInv /\ StepsInv
  BY DEF CallsInv, TypeInv
<1>3. Spans \in Nat \ {0} /\ Iterations \in Nat /\ Span \in Nat \ {0}
      /\ Kernel.unroll \in Nat \ {0} /\ start \in Nat /\ End \in Nat
  BY <1>2, CallShape
<1>4. Place(0) = wordptr'
  BY <1>1, <1>3 DEF Place
<1>5. 0 * Kernel.unroll = 0
  BY <1>3
<1>6. {Nth(n) : n \in 0..Least(0, Spans) * Kernel.unroll - 1} = {}
  <2>1. Least(0, Spans) = 0
    BY <1>3 DEF Least
  <2>2. 0..Least(0, Spans) * Kernel.unroll - 1 = {}
    BY <1>5, <2>1
  <2> QED  BY <2>2
<1>7. phase # "prime" /\ phase # "done" =>
        steps[phase] = PassesOver * PassWords + 0 * Kernel.unroll
  <2>1. phase # "prime" /\ phase # "done" => steps[phase] \in Nat
    BY <1>2 DEF TypeOK
  <2> QED  BY <1>1, <1>2, <1>5, <2>1 DEF StepsInv
<1>8. phase # "done" => InCall(0, 0)'
  BY <1>1, <1>3, <1>4, <1>5, <1>6, <1>7, SameCall DEF InCall, PassesOver
<1>9. 0 \in 0..Iterations' /\ 0 \in 0..Spans' /\ pc' # "return"
  BY <1>1, <1>3, SameCall
<1>10. phase' # "done" =>
         \E m \in 0..Iterations', r \in 0..Spans' :
           InCall(m, r)' /\ (pc' = "return" => m = Iterations')
  BY <1>1, <1>8, <1>9
<1> QED  BY <1>10 DEF CallInv

\* Where the pointer is after one more iteration.
LEMMA PointerStep ==
  ASSUME CallsInv, WholeIterations, More, phase # "done", ~Empty,
         NEW m \in 0..Iterations, NEW r \in 0..Spans, InCall(m, r)
  PROVE  /\ m < Iterations /\ r < Spans
         /\ Wrapped(wordptr + Kernel.unroll * Step) =
              Place(IF Strided /\ r + 1 = Spans THEN 0 ELSE r + 1)
<1> DEFINE u == Kernel.unroll
<1>1. TypeOK /\ WalkInv
  BY DEF CallsInv, TypeInv
<1>2. /\ start \in Nat /\ End \in Nat /\ u \in Nat \ {0}
      /\ Span \in Nat \ {0} /\ Spans \in Nat \ {0} /\ Stride \in Nat \ {0}
      /\ Iterations \in Nat
      /\ End = start + Span * Spans
      /\ Words = u * Iterations /\ Words * Chunk = End - start
      /\ Span = u * Stride
      /\ Step = IF Backward THEN -Stride ELSE Stride
  BY <1>1, CallShape DEF Span
<1>3. ~Strided => Iterations = Spans
  BY <1>1, <1>2, CallShape DEF Iterations
<1>4. m \in Nat /\ r \in Nat /\ r <= Spans
  BY <1>2
<1>5. wordptr = Place(r)
  BY DEF InCall
<1>6. \A k \in Nat : k * Span \in Nat
        /\ (k < Spans => k * Span < Span * Spans)
        /\ (k >= Spans => k * Span >= Span * Spans)
        /\ (k = Spans => k * Span = Span * Spans)
        /\ (k + 1) * Span = k * Span + Span
  <2>1. ASSUME NEW k \in Nat
        PROVE k * Span \in Nat /\ (k + 1) * Span = k * Span + Span
    <3>1. ASSUME NEW b \in Nat PROVE k * b \in Nat /\ (k + 1) * b = k * b + b
      BY <3>1, Z3
    <3> QED  BY <1>2, <3>1
  <2>2. ASSUME NEW k \in Nat, k < Spans PROVE k * Span < Span * Spans
    BY <1>2, <2>2, Z3
  <2>3. ASSUME NEW k \in Nat, k >= Spans PROVE k * Span >= Span * Spans
    BY <1>2, <2>3, Z3
  <2>4. Spans * Span = Span * Spans
    BY <1>2, Z3
  <2> QED  BY <2>1, <2>2, <2>3, <2>4
<1>7. m < Iterations /\ r < Spans
  <2>1. CASE Strided
    <3>1. m * u < u * Iterations
      BY <1>2, <2>1 DEF InCall, More
    <3>2. m < Iterations
      BY <1>2, <1>4, <3>1, Z3
    <3> QED  BY <2>1, <3>2 DEF InCall
  <2>2. CASE ~Strided
    <3>1. r = m
      BY <2>2 DEF InCall
    <3>2. r < Spans
      <4>1. CASE Backward
        <5>1. End - r * Span > start
          BY <1>5, <2>2, <4>1 DEF More, Place
        <5> QED  BY <1>2, <1>4, <1>6, <5>1
      <4>2. CASE ~Backward
        <5>1. start + r * Span < End
          BY <1>5, <2>2, <4>2 DEF More, Place
        <5> QED  BY <1>2, <1>4, <1>6, <5>1
      <4> QED  BY <4>1, <4>2
    <3> QED  BY <1>3, <2>2, <3>1, <3>2
  <2> QED  BY <2>1, <2>2
<1>8. u * Step = IF Backward THEN -Span ELSE Span
  <2>1. u * Stride \in Nat /\ u * (-Stride) = -(u * Stride)
    BY <1>2, Z3
  <2> QED  BY <1>2, <2>1
<1>9. wordptr + u * Step = Place(r + 1)
  <2>1. r * Span \in Nat /\ (r + 1) * Span = r * Span + Span
    BY <1>4, <1>6
  <2> QED  BY <1>2, <1>5, <1>8, <2>1 DEF Place
<1> DEFINE next == wordptr + u * Step
           t == IF Strided /\ r + 1 = Spans THEN 0 ELSE r + 1
<1>10. CASE ~Strided
  <2>1. Wrapped(next) = next /\ t = r + 1
    BY <1>10 DEF Wrapped
  <2> QED  BY <1>7, <1>9, <2>1
<1>11. CASE Strided /\ r + 1 = Spans
  <2>1. Place(r + 1) = IF Backward THEN start ELSE End
    BY <1>2, <1>4, <1>6, <1>11 DEF Place
  <2>2. Place(0) = IF Backward THEN End ELSE start
    BY <1>2 DEF Place
  <2>3. next = (IF Backward THEN start ELSE End) /\ t = 0
    BY <1>9, <1>11, <2>1
  <2>4. Wrapped(next) = IF Backward THEN End ELSE start
    <3> HIDE DEF next
    <3> QED  BY <1>2, <1>11, <2>3 DEF Wrapped
  <2> QED  BY <1>7, <2>2, <2>3, <2>4
<1>12. CASE Strided /\ r + 1 # Spans
  <2>1. r + 1 \in Nat /\ r + 1 < Spans
    BY <1>2, <1>4, <1>7, <1>12
  <2>2. (r + 1) * Span \in Nat /\ (r + 1) * Span < Span * Spans
    BY <1>6, <2>1
  <2>3. IF Backward THEN Place(r + 1) > start ELSE Place(r + 1) < End
    BY <1>2, <2>2 DEF Place
  <2>4. Place(r + 1) \in Int
    BY <1>2, <2>2 DEF Place
  <2>5. next \in Int /\ (IF Backward THEN next > start ELSE next < End)
    BY <1>9, <2>3, <2>4
  <2>6. Wrapped(next) = next /\ t = r + 1
    <3>1. Wrapped(next) = next
      <4> HIDE DEF next
      <4> QED  BY <1>2, <2>5 DEF Wrapped
    <3> QED  BY <1>12, <3>1
  <2> QED  BY <1>7, <1>9, <2>6
<1> QED  BY <1>10, <1>11, <1>12

\* The accesses of an iteration continue those before it, and when the
\* pointer has wrapped around they are the same again.
LEMMA AccessStep ==
  ASSUME CallsInv, WholeIterations, phase # "done", ~Empty,
         NEW m \in 0..Iterations, NEW r \in 0..Spans, InCall(m, r),
         r < Spans
  PROVE  {Nth(n) : n \in 0..Least(m, Spans) * Kernel.unroll - 1} \cup Accessed
           = {Nth(n) : n \in 0..Least(m + 1, Spans) * Kernel.unroll - 1}
<1> DEFINE u == Kernel.unroll
<1>1. TypeOK /\ WalkInv
  BY DEF CallsInv, TypeInv
<1>2. /\ start \in Nat /\ End \in Nat /\ u \in Nat \ {0}
      /\ Span \in Nat \ {0} /\ Spans \in Nat \ {0} /\ Stride \in Nat \ {0}
      /\ Iterations \in Nat
      /\ Step = IF Backward THEN -Stride ELSE Stride
  BY <1>1, CallShape
<1>3. m \in Nat /\ r \in Nat
  BY <1>2
<1>4. wordptr = Place(r)
  BY DEF InCall
<1>5. ASSUME NEW n \in Nat
      PROVE  wordptr + n * Step = Nth(r * u + n)
  <2>1. /\ r * Span = r * (u * Stride) /\ n * Stride \in Nat
        /\ r * Span \in Nat
    BY <1>2, <1>3, <1>5, Z3 DEF Span
  <2>2. (r * u + n) * Stride = r * (u * Stride) + n * Stride
    BY <1>2, <1>3, <1>5, Z3
  <2>3. n * (-Stride) = -(n * Stride)
    BY <1>2, <1>5, Z3
  <2> DEFINE a == r * Span
             b == n * Stride
             c == (r * u + n) * Stride
  <2>4. a \in Nat /\ b \in Nat /\ c = a + b
    BY <2>1, <2>2
  <2>5. n * Step = IF Backward THEN -b ELSE b
    BY <1>2, <2>3
  <2>6. wordptr = IF Backward THEN End - a ELSE start + a
    BY <1>4 DEF Place
  <2>7. Nth(r * u + n) = IF Backward THEN End - c ELSE start + c
    BY DEF Nth
  <2> HIDE DEF a, b, c
  <2> QED  BY <1>2, <2>4, <2>5, <2>6, <2>7
<1>6. Accessed = {Nth(r * u + n) : n \in 0..u-1}
  BY <1>2, <1>5 DEF Accessed
<1>7. \A k \in Nat : k * u \in Nat /\ (k + 1) * u = k * u + u
  <2>1. ASSUME NEW k \in Nat, NEW b \in Nat
        PROVE  k * b \in Nat /\ (k + 1) * b = k * b + b
    BY <2>1, Z3
  <2> QED  BY <1>2, <2>1
<1> HIDE DEF u
<1>8. CASE m < Spans
  <2>1. Least(m, Spans) = m /\ Least(m + 1, Spans) = m + 1 /\ r = m
    BY <1>2, <1>3, <1>8 DEF Least, InCall
  <2>2. m * u \in Nat /\ (m + 1) * u = m * u + u
    BY <1>3, <1>7
  <2>3. ASSUME NEW n \in 0..m * u + u - 1
        PROVE  n \in 0..m * u - 1 \/ \E l \in 0..u-1 : n = m * u + l
    <3>1. CASE n < m * u
      BY <2>2, <3>1
    <3>2. CASE ~(n < m * u)
      <4>1. n - m * u \in 0..u-1 /\ n = m * u + (n - m * u)
        BY <1>2, <2>2, <3>2
      <4> QED  BY <4>1
    <3> QED  BY <3>1, <3>2
  <2>4. \A n \in 0..m * u - 1 : n \in 0..m * u + u - 1
    BY <1>2, <2>2
  <2>5. \A l \in 0..u-1 : m * u + l \in 0..m * u + u - 1
    BY <1>2, <2>2
  <2>6. {Nth(n) : n \in 0..m * u - 1} \cup {Nth(m * u + l) : l \in 0..u-1}
          = {Nth(n) : n \in 0..m * u + u - 1}
    BY <2>3, <2>4, <2>5, Zenon
  <2>7. Accessed = {Nth(m * u + l) : l \in 0..u-1}
    BY <1>6, <2>1
  <2>8. {Nth(n) : n \in 0..Least(m, Spans) * u - 1} \cup Accessed
          = {Nth(n) : n \in 0..m * u + u - 1}
    BY <2>1, <2>6, <2>7, Zenon
  <2>9. {Nth(n) : n \in 0..Least(m + 1, Spans) * u - 1}
          = {Nth(n) : n \in 0..m * u + u - 1}
    <3>1. Least(m + 1, Spans) * u = m * u + u
      BY <2>1, <2>2, Zenon
    <3>2. Least(m + 1, Spans) * u - 1 = m * u + u - 1
      <4> DEFINE a == Least(m + 1, Spans) * u
      <4>1. a = m * u + u
        BY <3>1
      <4> HIDE DEF a
      <4>2. a - 1 = m * u + u - 1
        BY <1>2, <2>2, <4>1 DEF u
      <4> QED  BY <4>2 DEF a
    <3> QED  BY <3>2, Zenon
  <2>10. {Nth(n) : n \in 0..Least(m, Spans) * u - 1} \cup Accessed
           = {Nth(n) : n \in 0..Least(m + 1, Spans) * u - 1}
    BY <2>8, <2>9, Zenon
  <2> QED  BY <2>10 DEF u
<1>9. CASE ~(m < Spans)
  <2>1. Least(m, Spans) = Spans /\ Least(m + 1, Spans) = Spans
    BY <1>2, <1>3, <1>9 DEF Least
  <2>2. r * u \in Nat /\ Spans * u \in Nat /\ r * u + u <= Spans * u
    <3>1. ASSUME NEW b \in Nat PROVE (r + 1) * b <= Spans * b
      BY <1>2, <1>3, <3>1, Z3
    <3> QED  BY <1>2, <1>3, <1>7, <3>1
  <2>3. \A l \in 0..u-1 : r * u + l \in 0..Spans * u - 1
    BY <1>2, <2>2
  <2>4. {Nth(r * u + l) : l \in 0..u-1} \subseteq
          {Nth(n) : n \in 0..Spans * u - 1}
    BY <2>3, Zenon
  <2> QED  BY <1>6, <2>1, <2>4 DEF u
<1> QED  BY <1>8, <1>9

LEMMA IterateStep ==
  ASSUME CallsInv, WholeIterations, Iterate, ~Empty
  PROVE  CallInv'
<1> DEFINE u == Kernel.unroll
<1>1. TypeOK /\ WalkInv /\ StepsInv /\ CallInv
  BY DEF CallsInv, TypeInv
<1>2. /\ UNCHANGED <<worker, phase, passes, p, start>>
      /\ pc = "loop" /\ pc' = "loop" /\ More
      /\ wordptr' = Wrapped(wordptr + u * Step)
      /\ i' = IF Strided THEN i + u ELSE i
      /\ phase # "dummy" =>
           touched' = touched \cup Accessed /\ moved' = moved + u
      /\ phase # "prime" => steps' = [steps EXCEPT ![phase] = @ + u]
  BY DEF Iterate
<1>3. phase # "done"
  BY <1>1, <1>2 DEF StepsInv
<1>4. PICK m \in 0..Iterations, r \in 0..Spans : InCall(m, r)
  BY <1>1, <1>2, <1>3 DEF CallInv
<1>5. PICK t : t = IF Strided /\ r + 1 = Spans THEN 0 ELSE r + 1
  OBVIOUS
<1>5a. m < Iterations /\ r < Spans /\ wordptr' = Place(t)
  BY <1>2, <1>3, <1>4, <1>5, PointerStep
<1>6. /\ u \in Nat \ {0} /\ Spans \in Nat \ {0} /\ Iterations \in Nat
      /\ m \in Nat /\ r \in Nat /\ m + 1 \in 0..Iterations /\ t \in 0..Spans
  BY <1>1, <1>4, <1>5, <1>5a, CallShape
<1>7. m * u \in Nat /\ (m + 1) * u = m * u + u
  <2>1. ASSUME NEW b \in Nat PROVE m * b \in Nat /\ (m + 1) * b = m * b + b
    BY <1>6, <2>1, Z3
  <2> QED  BY <1>6, <2>1
<1>8. m + 1 < Spans => t = m + 1
  BY <1>4, <1>5, <1>6 DEF InCall
<1>9. Strided => i' = (m + 1) * u /\ t < Spans
  BY <1>2, <1>4, <1>5, <1>5a, <1>6, <1>7 DEF InCall
<1>10. ~Strided => t = m + 1
  BY <1>4, <1>5 DEF InCall
<1>11. phase # "dummy" =>
         /\ moved' = (m + 1) * u
         /\ touched' = {Nth(n) : n \in 0..Least(m + 1, Spans) * u - 1}
  <2>1. phase # "dummy" =>
          /\ moved = m * u
          /\ touched = {Nth(n) : n \in 0..Least(m, Spans) * u - 1}
    BY <1>4 DEF InCall
  <2>2. {Nth(n) : n \in 0..Least(m, Spans) * u - 1} \cup Accessed
          = {Nth(n) : n \in 0..Least(m + 1, Spans) * u - 1}
    BY <1>3, <1>4, <1>5a, AccessStep
  <2> HIDE DEF u
  <2> QED  BY <1>2, <1>7, <2>1, <2>2, Zenon
<1>12. phase # "prime" =>
         steps'[phase] = PassesOver * PassWords + (m + 1) * u
  <2>1. SUFFICES ASSUME phase # "prime"
                 PROVE  steps'[phase] = PassesOver * PassWords + (m + 1) * u
    OBVIOUS
  <2>2. phase \in {"real", "dummy"} /\ steps \in [{"real", "dummy"} -> Nat]
    BY <1>1, <1>3, <2>1 DEF TypeOK
  <2>3. steps'[phase] = steps[phase] + u
    BY <1>2, <2>1, <2>2
  <2>4. steps[phase] = PassesOver * PassWords + m * u
    BY <1>4, <2>1 DEF InCall
  <2>5. PassesOver * PassWords \in Nat
    <3>1. PassesOver \in Nat
      BY <1>1, LoadWalkAssumption, Z3 DEF TypeOK, PassesOver
    <3>2. PassWords \in Nat
      <4>1. PassWords = Words /\ Words \in Nat
        BY <1>1, <2>1, CallShape, KernelTypes
      <4> QED  BY <4>1
    <3> QED  BY <3>1, <3>2, Z3
  <2> HIDE DEF u
  <2> QED  BY <1>6, <1>7, <2>3, <2>4, <2>5
<1>13. InCall(m + 1, t)'
  <2> HIDE DEF u
  <2>1. UNCHANGED <<Kernel, Spans, PassWords, PassesOver>>
        /\ (Strided' <=> Strided) /\ Place(t)' = Place(t)
        /\ \A n : Nth(n)' = Nth(n)
    BY <1>2, SameCall DEF PassesOver
  <2>2. {Nth(n)' : n \in 0..Least(m + 1, Spans) * u - 1}
          = {Nth(n) : n \in 0..Least(m + 1, Spans) * u - 1}
    BY <2>1
  <2> QED
    BY <1>2, <1>5a, <1>8, <1>9, <1>10, <1>11, <1>12, <2>1, <2>2 DEF InCall, u
<1>14. \E k \in 0..Iterations', l \in 0..Spans' : InCall(k, l)'
  <2>1. Iterations' = Iterations /\ Spans' = Spans
    BY <1>2, SameCall
  <2> QED  BY <1>6, <1>13, <2>1
<1> QED  BY <1>2, <1>14 DEF CallInv

LEMMA LeaveStep ==
  ASSUME CallsInv, WholeIterations, Leave, ~Empty
  PROVE  CallInv'
<1> DEFINE u == Kernel.unroll
<1>1. TypeOK /\ WalkInv /\ StepsInv /\ CallInv
  BY DEF CallsInv, TypeInv
<1>2. /\ UNCHANGED <<worker, phase, passes, p, start, wordptr, i, touched,
                     moved, steps>>
      /\ pc = "loop" /\ ~More
  BY DEF Leave
<1>3. phase # "done"
  BY <1>1, <1>2 DEF StepsInv
<1>4. PICK m \in 0..Iterations, r \in 0..Spans : InCall(m, r)
  BY <1>1, <1>2, <1>3 DEF CallInv
<1>5. /\ start \in Nat /\ End \in Nat /\ u \in Nat \ {0}
      /\ Span \in Nat \ {0} /\ Spans \in Nat \ {0} /\ Iterations \in Nat
      /\ End = start + Span * Spans
      /\ Words = u * Iterations
      /\ m \in Nat /\ r \in Nat
      /\ ~Strided => Iterations = Spans
  BY <1>1, <1>4, CallShape DEF Iterations
<1>6. m = Iterations
  <2>1. CASE Strided
    <3>1. ~(m * u < u * Iterations)
      BY <1>2, <1>4, <1>5, <2>1 DEF InCall, More
    <3>2. ~(m < Iterations)
      <4>1. m < Iterations => m * u < u * Iterations
        BY <1>5, Z3
      <4> QED  BY <3>1, <4>1
    <3> QED  BY <1>5, <3>2
  <2>2. CASE ~Strided
    <3>1. r = m /\ wordptr = Place(r)
      BY <1>4, <2>2 DEF InCall
    <3>2. r < Spans => r * Span < Span * Spans
      BY <1>5, Z3
    <3>3. r * Span \in Nat /\ Span * Spans \in Nat
      BY <1>5, Z3
    <3>4. ~(r < Spans)
      BY <1>2, <1>5, <2>2, <3>1, <3>2, <3>3 DEF More, Place
    <3> QED  BY <1>5, <2>2, <3>1, <3>4
  <2> QED  BY <2>1, <2>2
<1>7. InCall(m, r)' /\ Iterations' = Iterations /\ Spans' = Spans
  BY <1>2, <1>4, SameCall DEF InCall, PassesOver
<1>8. \E k \in 0..Iterations', l \in 0..Spans' :
        InCall(k, l)' /\ (pc' = "return" => k = Iterations')
  BY <1>6, <1>7
<1> QED  BY <1>8 DEF CallInv

-----------------------------------------------------------------------------
(* From call to call.                                                      *)

\* A call that has returned has counted the words of a pass.
LEMMA ReturnCounts ==
  ASSUME CallsInv, WholeIterations, pc = "return", phase \in {"real", "dummy"},
         ~Empty
  PROVE  /\ steps[phase] = PassesOver * PassWords + PassWords
         /\ PassWords \in Nat
<1>1. TypeOK /\ WalkInv /\ CallInv
  BY DEF CallsInv, TypeInv
<1>2. \E r \in 0..Spans : InCall(Iterations, r)
  BY <1>1 DEF CallInv
<1>3. steps[phase] = PassesOver * PassWords + Iterations * Kernel.unroll
  BY <1>2 DEF InCall
<1>4. /\ Words = Kernel.unroll * Iterations /\ Words = PassWords
      /\ Kernel.unroll \in Nat /\ Iterations \in Nat
  BY <1>1, CallShape
<1>5. Iterations * Kernel.unroll = PassWords /\ PassWords \in Nat
  BY <1>4, Z3
<1> QED  BY <1>3, <1>5

LEMMA StepsStep == CallsInv /\ [Next]_vars /\ WholeIterations => StepsInv'
<1> SUFFICES ASSUME CallsInv, [Next]_vars, WholeIterations
             PROVE  StepsInv'
  OBVIOUS
<1>1. TypeOK /\ Counting /\ WalkInv /\ StepsInv
  BY DEF CallsInv, TypeInv
<1>2. choice' = choice
  BY DEF Next, vars, Call, Iterate, Leave, ReturnFromPriming, ReturnFromPass,
         ReturnFromDummy, Done, worker
<1>3. PassWords' = PassWords
  BY <1>2 DEF PassWords
<1>4. /\ passes \in Nat /\ p \in Nat
      /\ steps \in [{"real", "dummy"} -> Nat]
  BY <1>1, LoadWalkAssumption, Z3 DEF TypeOK
<1>5. PassWords \in Nat /\ 0 * PassWords = 0
  <2>1. choice.chunk \in ChunkBytes
    BY <1>1, LoadWalkAssumption
    DEF TypeOK, AllChoices, PlainChoices, DelayChoices, ChunkBytes
  <2>2. choice.chunk \in Nat \ {0} /\ PassBytes \in Nat
    BY <2>1, LoadWalkAssumption DEF ChunkBytes
  <2>3. PassWords \in Nat
    BY <2>2, Z3 DEF PassWords
  <2> QED  BY <2>3
<1>6. CASE Call \/ Leave \/ UNCHANGED vars
  <2>1. UNCHANGED <<phase, passes, p, steps>> /\ (pc' = "call" => pc = "call")
        /\ (phase = "done" /\ pc = "return" => pc' = "return")
    BY <1>6 DEF Call, Leave, vars
  <2> QED
    BY <1>1, <1>2, <1>3, <2>1 DEF StepsInv, PassesOver, Empty, Missing
<1>7. CASE Iterate
  <2>1. /\ UNCHANGED <<phase, pc, passes, p>> /\ pc = "loop"
        /\ steps' = IF phase = "prime" THEN steps
                    ELSE [steps EXCEPT ![phase] = @ + Kernel.unroll]
    BY <1>7 DEF Iterate
  <2>2. phase \in {"prime", "real", "dummy"}
    BY <1>1, <2>1 DEF TypeOK, StepsInv
  <2>3. /\ phase # "real" => steps'["real"] = steps["real"]
        /\ phase # "dummy" => steps'["dummy"] = steps["dummy"]
    BY <1>4, <2>1, <2>2
  <2> QED  BY <1>1, <1>2, <1>3, <2>1, <2>2, <2>3 DEF StepsInv, Missing
<1>8. CASE ReturnFromPriming
  <2>1. /\ UNCHANGED <<passes, steps>> /\ phase = "prime" /\ passes = 0
        /\ phase' \in {"prime", "real"}
    BY <1>1, <1>8 DEF ReturnFromPriming, Counting
  <2>2. steps["real"] = 0 /\ steps["dummy"] = 0
    BY <1>1, <2>1 DEF StepsInv
  <2> QED  BY <1>3, <1>5, <2>1, <2>2 DEF StepsInv, PassesOver
<1>9. CASE ReturnFromPass
  <2>1. /\ phase = "real" /\ pc = "return" /\ pc' = "call"
        /\ passes' = passes + 1 /\ UNCHANGED <<p, steps>>
        /\ phase' \in {"real", "dummy"} /\ p = 0
    BY <1>1, <1>9 DEF ReturnFromPass, Counting
  <2>2. ~Missing(choice) => steps["real"] = passes * PassWords + PassWords
    BY <2>1, ReturnCounts DEF PassesOver, Empty
  <2>3. (passes + 1) * PassWords = passes * PassWords + PassWords
    BY <1>4, <1>5, Z3
  <2>4. steps["dummy"] = 0
    BY <1>1, <2>1 DEF StepsInv
  <2>5. Missing(choice)' <=> Missing(choice)
    BY <1>2 DEF Missing
  <2> QED
    BY <1>3, <1>5, <2>1, <2>2, <2>3, <2>4, <2>5 DEF StepsInv, PassesOver, Empty
<1>10. CASE ReturnFromDummy
  <2>1. /\ phase = "dummy" /\ pc = "return" /\ p' = p + 1
        /\ UNCHANGED <<passes, steps>>
        /\ phase' \in {"dummy", "done"}
        /\ pc' = IF phase' = "dummy" THEN "call" ELSE "return"
        /\ phase' = "done" => ~DummyGoesOn(p + 1)
        /\ p < passes
    <3>1. CASE DummyGoesOn(p')
      BY <1>1, <1>10, <3>1 DEF ReturnFromDummy, Counting
    <3>2. CASE ~DummyGoesOn(p')
      BY <1>1, <1>10, <3>2 DEF ReturnFromDummy, Counting
    <3> QED  BY <3>1, <3>2
  <2>2. steps["dummy"] = p * PassWords + PassWords /\ PassWords \in Nat
    BY <2>1, ReturnCounts DEF PassesOver, Empty
  <2>3. (p + 1) * PassWords = p * PassWords + PassWords
    BY <1>4, <2>2, Z3
  <2>4. phase' = "done" => p + 1 = passes
    BY <1>4, <2>1 DEF DummyGoesOn
  <2>5. ~Missing(choice)' => steps["real"] = passes * PassWords
    BY <1>1, <1>2, <2>1 DEF StepsInv, Missing
  <2> QED
    BY <1>3, <2>1, <2>2, <2>3, <2>4, <2>5 DEF StepsInv, PassesOver
<1> QED  BY <1>6, <1>7, <1>8, <1>9, <1>10 DEF Next, Done

LEMMA CallStep == CallsInv /\ [Next]_vars /\ WholeIterations => CallInv'
<1> SUFFICES ASSUME CallsInv, [Next]_vars, WholeIterations
             PROVE  CallInv'
  OBVIOUS
<1>1. CASE Call \/ Iterate \/ Leave
  <2>1. Empty' <=> Empty
    BY <1>1, SameCall DEF Call, Iterate, Leave
  <2> QED  BY <1>1, <2>1, CallBegins, IterateStep, LeaveStep DEF CallInv
<1>2. CASE ReturnFromPriming \/ ReturnFromPass
  BY <1>2 DEF ReturnFromPriming, ReturnFromPass, CallInv
<1>3. CASE ReturnFromDummy
  BY <1>3 DEF ReturnFromDummy, CallInv
<1>4. CASE UNCHANGED vars
  <2>1. UNCHANGED <<worker, phase, start, pc, passes, p, wordptr, i, touched,
                    moved, steps>>
    BY <1>4 DEF vars
  <2>2. CallInv
    BY DEF CallsInv
  <2>3. SUFFICES ASSUME pc # "call", phase # "done", ~Empty
                 PROVE  \E m \in 0..Iterations', r \in 0..Spans' :
                          InCall(m, r)' /\ (pc' = "return" => m = Iterations')
    BY <2>1, SameCall DEF CallInv
  <2>4. PICK m \in 0..Iterations, r \in 0..Spans :
          InCall(m, r) /\ (pc = "return" => m = Iterations)
    BY <2>2, <2>3 DEF CallInv
  <2>5. InCall(m, r)' /\ Iterations' = Iterations /\ Spans' = Spans
    BY <2>1, <2>4, SameCall DEF InCall, PassesOver
  <2> QED  BY <2>1, <2>4, <2>5
<1> QED  BY <1>1, <1>2, <1>3, <1>4 DEF Next, Done

\* What a call accesses lies in what it is called for.
LEMMA AccessesInside ==
  ASSUME TypeOK, WalkInv, WholeIterations, ~Empty, NEW m \in Nat,
         NEW n \in 0..Least(m, Spans) * Kernel.unroll - 1
  PROVE  start <= Nth(n) /\ Nth(n) <= End
<1> DEFINE u == Kernel.unroll
<1>1. /\ start \in Nat /\ End \in Nat /\ u \in Nat \ {0}
      /\ Span \in Nat \ {0} /\ Spans \in Nat \ {0} /\ Stride \in Nat \ {0}
      /\ End = start + Span * Spans /\ Span = u * Stride
  BY CallShape DEF Span
<1>2. n \in Nat /\ n <= Spans * u
  <2>1. Least(m, Spans) \in Nat /\ Least(m, Spans) <= Spans
    BY <1>1 DEF Least
  <2>2. \A b \in Nat : Least(m, Spans) * b <= Spans * b
                       /\ Least(m, Spans) * b \in Nat /\ Spans * b \in Nat
    <3> DEFINE l == Least(m, Spans)
    <3> HIDE DEF l
    <3>1. l \in Nat /\ l <= Spans
      BY <2>1 DEF l
    <3>2. \A b \in Nat : l * b <= Spans * b /\ l * b \in Nat /\ Spans * b \in Nat
      BY <1>1, <3>1, Z3
    <3> QED  BY <3>2 DEF l
  <2>3. /\ Least(m, Spans) * u <= Spans * u
        /\ Least(m, Spans) * u \in Nat /\ Spans * u \in Nat
    BY <1>1, <2>2
  <2> QED  BY <2>3
<1>3. n * Stride \in Nat /\ n * Stride <= (Spans * u) * Stride
  BY <1>1, <1>2, Z3
<1>4. (Spans * u) * Stride = Span * Spans
  BY <1>1, Z3
<1> QED  BY <1>1, <1>3, <1>4 DEF Nth

LEMMA NeighbourStep ==
  CallsInv /\ [Next]_vars /\ WholeIterations => StaysNextToPart'
<1> SUFFICES ASSUME CallsInv, [Next]_vars, WholeIterations
             PROVE  StaysNextToPart'
  OBVIOUS
<1>1. /\ TypeOK /\ WalkInv /\ PagesInv /\ StaysNextToPart
  BY DEF CallsInv, TypeInv
<1>2. MemArray' = MemArray /\ PartEnd' = PartEnd
  BY DEF Next, vars, Call, Iterate, Leave, ReturnFromPriming, ReturnFromPass,
         ReturnFromDummy, Done, worker, MemArray, PartEnd
<1>3. CASE touched' = touched \/ touched' = {}
  BY <1>1, <1>2, <1>3 DEF StaysNextToPart
<1>4. CASE Iterate /\ phase # "dummy"
  <2>1. /\ UNCHANGED <<worker, phase, start>> /\ pc' = "loop" /\ pc = "loop"
    BY <1>4 DEF Iterate
  <2>2. phase # "done" /\ ~Empty
    BY <1>1, <1>4, <2>1, EmptyHasNoLoop DEF CallsInv, StepsInv, Iterate
  <2>3. PICK m \in 0..Iterations, r \in 0..Spans : InCall(m, r)'
    BY <2>1, <2>2, CallStep, SameCall DEF CallInv
  <2>4. m \in Nat
    BY <1>1, <2>2, CallShape
  <2>5. touched' = {Nth(n) : n \in 0..Least(m, Spans) * Kernel.unroll - 1}
    <3>1. touched' = {Nth(n)' : n \in 0..Least(m, Spans') * Kernel'.unroll - 1}
      BY <1>4, <2>1, <2>3 DEF InCall, Least
    <3>2. Spans' = Spans /\ Kernel' = Kernel /\ \A n : Nth(n)' = Nth(n)
      BY <2>1, SameCall
    <3> QED  BY <3>1, <3>2
  <2>6. \A a \in touched' : start <= a /\ a <= End
    BY <1>1, <2>2, <2>4, <2>5, AccessesInside
  <2>7. /\ start \in Nat /\ End \in Nat /\ MemArray \in Nat /\ PartEnd \in Nat
        /\ MemArray <= start /\ End <= PartEnd
    <3>1. start \in Nat /\ End \in Nat /\ MemArray \in Nat /\ PartEnd \in Nat
      BY <1>1, <2>2, CallShape, PartIsWhole DEF WalkInv
    <3>2. CASE phase = "prime"
      BY <1>1, <3>1, <3>2 DEF PagesInv, End, PartEnd
    <3>3. CASE phase # "prime"
      BY <1>1, <3>1, <3>3 DEF WalkInv, PassesStayInside, End
    <3> QED  BY <3>1, <3>2, <3>3
  <2>8. touched' \subseteq Int
    BY <2>1, TypeStep DEF CallsInv, TypeInv, TypeOK
  <2> QED  BY <1>2, <2>6, <2>7, <2>8 DEF StaysNextToPart
<1> QED
  BY <1>3, <1>4
  DEF Next, vars, Call, Iterate, Leave, ReturnFromPriming, ReturnFromPass,
      ReturnFromDummy, Done

-----------------------------------------------------------------------------
(* The pages that are visited.                                             *)

\* The offset of the next pass, from where this one is.
LEMMA OffsetStep ==
  ASSUME WalkInv, TypeOK
  PROVE  NextStart - MemArray = NextOffset(Offset) /\ Offset \in Int
<1>1. start \in Nat /\ MemArray \in Nat /\ len \in Nat \ {0}
  BY PartIsWhole DEF WalkInv
<1>2. MemArray + Offset = start
  BY <1>1 DEF Offset
<1>3. (start + PassBytes) % len \in Int
  <2>1. start + PassBytes \in Nat
    BY <1>1, LoadWalkAssumption
  <2> DEFINE a == start + PassBytes
  <2> HIDE DEF a
  <2>2. a % len \in Int
    BY <1>1, <2>1, Z3 DEF a
  <2> QED  BY <2>2 DEF a
<1>4. NextStart - MemArray = (start + PassBytes) % len
  <2> DEFINE b == (start + PassBytes) % len
  <2>1. NextStart = MemArray + b
    BY DEF NextStart
  <2> HIDE DEF b
  <2>2. NextStart - MemArray = b
    BY <1>1, <1>3, <2>1 DEF b
  <2> QED  BY <2>2 DEF b
<1>5. NextOffset(Offset) = (start + PassBytes) % len
  BY <1>2 DEF NextOffset
<1> QED  BY <1>1, <1>4, <1>5 DEF Offset

LEMMA PagesInit == Init => PagesInv
BY DEF Init, PagesInv

LEMMA PagesStep == TypeInv /\ PagesInv /\ [Next]_vars => PagesInv'
<1> SUFFICES ASSUME TypeInv, PagesInv, [Next]_vars
             PROVE  PagesInv'
  OBVIOUS
<1>1. TypeOK /\ Counting /\ WalkInv
  BY DEF TypeInv
<1>2. MemArray' = MemArray /\ len' = len
  BY DEF Next, vars, Call, Iterate, Leave, ReturnFromPriming, ReturnFromPass,
         ReturnFromDummy, Done, worker, MemArray
<1>3. \A o : NextOffset(o)' = NextOffset(o)
  BY <1>2 DEF NextOffset
<1>4. /\ passes \in Nat /\ p \in Nat
      /\ pages \in [{"real", "dummy"} -> Seq(Int)]
      /\ MemArray \in Nat /\ start \in Nat
  BY <1>1, LoadWalkAssumption, PartIsWhole, Z3 DEF TypeOK, WalkInv
<1>5. Offset \in Int /\ NextStart - MemArray = NextOffset(Offset)
  BY <1>1, OffsetStep
<1>6. CASE Call \/ Iterate \/ Leave \/ UNCHANGED vars
  <2>1. UNCHANGED <<phase, passes, p, start, pages>>
    BY <1>6 DEF Call, Iterate, Leave, vars
  <2> QED  BY <1>2, <1>3, <2>1 DEF PagesInv, Offset
<1>7. CASE ReturnFromPriming
  <2>1. /\ phase = "prime" /\ phase' \in {"prime", "real"} /\ passes = 0
        /\ UNCHANGED <<passes, start, pages>>
    BY <1>1, <1>7 DEF ReturnFromPriming, Counting
  <2>2. start = MemArray /\ start - MemArray = 0
    BY <1>4, <2>1 DEF PagesInv
  <2> QED  BY <1>2, <1>3, <2>1, <2>2 DEF PagesInv, Offset
<1>8. CASE ReturnFromPass
  <2>1. /\ phase = "real" /\ passes' = passes + 1 /\ p' = p /\ p = 0
        /\ pages' = [pages EXCEPT !["real"] = Append(@, Offset)]
        /\ \/ phase' = "real" /\ start' = NextStart
           \/ phase' = "dummy" /\ start' = MemArray
    BY <1>1, <1>8
    DEF ReturnFromPass, Counting, WithPage, Offset, StartOfDummy
  <2>2. /\ pages'["real"] = Append(pages["real"], Offset)
        /\ pages'["dummy"] = pages["dummy"]
    BY <1>4, <2>1
  <2>3. Len(pages["real"]) = passes /\ Len(pages["dummy"]) = 0
    BY <2>1 DEF PagesInv
  <2>4. /\ Len(pages'["real"]) = passes + 1
        /\ \A n \in 1..passes : pages'["real"][n] = pages["real"][n]
        /\ pages'["real"][passes + 1] = Offset
    BY <1>4, <1>5, <2>2, <2>3
  <2>5. Offset = IF passes = 0 THEN 0 ELSE NextOffset(pages["real"][passes])
    BY <2>1 DEF PagesInv
  <2>6. ASSUME NEW n \in 1..passes + 1
        PROVE  pages'["real"][n] =
                 IF n = 1 THEN 0 ELSE NextOffset(pages'["real"][n-1])
    <3>1. CASE n = passes + 1
      <4>1. passes # 0 => pages'["real"][passes] = pages["real"][passes]
        BY <1>4, <2>4
      <4>2. n = 1 <=> passes = 0
        BY <1>4, <3>1
      <4>3. n - 1 = passes
        BY <1>4, <3>1
      <4> QED  BY <2>4, <2>5, <3>1, <4>1, <4>2, <4>3
    <3>2. CASE n # passes + 1
      <4>1. n \in 1..passes /\ (n # 1 => n - 1 \in 1..passes)
        BY <1>4, <3>2
      <4>2. pages["real"][n] =
              IF n = 1 THEN 0 ELSE NextOffset(pages["real"][n-1])
        BY <4>1 DEF PagesInv
      <4> QED  BY <2>4, <4>1, <4>2
    <3> QED  BY <3>1, <3>2
  <2>7. phase' = "real" => Offset' = NextOffset(pages'["real"][passes + 1])
    BY <1>2, <1>5, <2>1, <2>4 DEF Offset
  <2>8. phase' = "dummy" => Offset' = pages'["real"][1]
    <3>1. 1 \in 1..passes + 1
      BY <1>4
    <3>2. pages'["real"][1] = 0
      BY <2>6, <3>1
    <3>3. MemArray - MemArray = 0
      BY <1>4
    <3> QED  BY <1>2, <2>1, <3>2, <3>3 DEF Offset
  <2>9. passes + 1 # 0 /\ 0 + 1 = 1
    BY <1>4
  <2> QED
    BY <1>3, <2>1, <2>2, <2>3, <2>4, <2>6, <2>7, <2>8, <2>9 DEF PagesInv
<1>9. CASE ReturnFromDummy
  <2>1. /\ phase = "dummy" /\ p' = p + 1 /\ passes' = passes /\ p < passes
        /\ pages' = [pages EXCEPT !["dummy"] = Append(@, Offset)]
        /\ start' = NextStart
        /\ phase' \in {"dummy", "done"}
        /\ phase' = "done" <=> ~DummyGoesOn(p + 1)
    <3>1. CASE DummyGoesOn(p')
      BY <1>1, <1>9, <3>1 DEF ReturnFromDummy, Counting, WithPage, Offset
    <3>2. CASE ~DummyGoesOn(p')
      BY <1>1, <1>9, <3>2 DEF ReturnFromDummy, Counting, WithPage, Offset
    <3> QED  BY <3>1, <3>2
  <2>2. /\ pages'["dummy"] = Append(pages["dummy"], Offset)
        /\ pages'["real"] = pages["real"]
    BY <1>4, <2>1
  <2>3. Len(pages["dummy"]) = p /\ Offset = pages["real"][p + 1]
    BY <2>1 DEF PagesInv
  <2>4. /\ Len(pages'["dummy"]) = p + 1
        /\ \A n \in 1..p : pages'["dummy"][n] = pages["dummy"][n]
        /\ pages'["dummy"][p + 1] = Offset
    BY <1>4, <1>5, <2>2, <2>3
  <2>5. ASSUME NEW n \in 1..p + 1
        PROVE  pages'["dummy"][n] = pages'["real"][n]
    <3>1. n \in 1..p \/ n = p + 1
      BY <1>4
    <3>2. n \in 1..p => pages["dummy"][n] = pages["real"][n]
      BY <2>3 DEF PagesInv
    <3> QED  BY <2>2, <2>3, <2>4, <3>1, <3>2
  <2>6. phase' = "dummy" => Offset' = pages'["real"][(p + 1) + 1]
    <3>1. SUFFICES ASSUME phase' = "dummy"
                   PROVE  Offset' = pages["real"][(p + 1) + 1]
      BY <2>2
    <3>2. Offset' = NextOffset(pages["real"][p + 1])
      BY <1>2, <1>5, <2>1, <2>3 DEF Offset
    <3>3. p + 1 # passes
      <4>1. DummyGoesOn(p + 1)
        BY <2>1, <3>1
      <4> QED  BY <1>1, <1>4, <2>1, <4>1 DEF DummyGoesOn, Counting
    <3>4. (p + 1) + 1 \in 1..passes /\ (p + 1) + 1 # 1
          /\ ((p + 1) + 1) - 1 = p + 1
      BY <1>4, <2>1, <3>3
    <3>5. pages["real"][(p + 1) + 1] = NextOffset(pages["real"][p + 1])
      BY <3>4 DEF PagesInv
    <3> QED  BY <3>2, <3>5
  <2>7. phase' = "done" => p + 1 = passes
    BY <1>4, <2>1 DEF DummyGoesOn
  <2>8. /\ Len(pages["real"]) = passes
        /\ \A n \in 1..passes : pages["real"][n] =
             IF n = 1 THEN 0 ELSE NextOffset(pages["real"][n-1])
    BY DEF PagesInv
  <2> QED
    BY <1>3, <2>1, <2>2, <2>4, <2>5, <2>6, <2>7, <2>8 DEF PagesInv
<1> QED  BY <1>6, <1>7, <1>8, <1>9 DEF Next, Done

-----------------------------------------------------------------------------
(* The theorems about calls.                                               *)

\* The invariant of the calls, if the passes are as long as the code has
\* them or a multiple of that.
THEOREM CallsAreRegular == Spec /\ WholeIterations => []CallsInv
<1>1. Init => CallsInv
  <2>1. Init => TypeInv /\ PagesInv
    BY TypeInit, PagesInit
  <2>2. Init => CallInv /\ StepsInv /\ StaysNextToPart
    BY DEF Init, CallInv, StepsInv, StaysNextToPart
  <2> QED  BY <2>1, <2>2 DEF CallsInv
<1>2. CallsInv /\ [Next]_vars /\ WholeIterations => CallsInv'
  BY TypeStep, PagesStep, CallStep, StepsStep, NeighbourStep DEF CallsInv
<1>3. WholeIterations => []WholeIterations
  <2>1. WholeIterations => WholeIterations'
    BY DEF WholeIterations
  <2> QED  BY <2>1, PTL
<1> QED  BY <1>1, <1>2, <1>3, PTL DEF Spec

\* Whatever the kernel, its word size and unrolling, the bytes that are
\* counted for a call are those that it accesses, unless it is a delayed
\* kernel for 128 or 256 bits on Windows, which returns at once.
THEOREM CallsMoveTheirBytes == Spec /\ WholeIterations => []CallMovesItsBytes
<1>1. ASSUME CallsInv, WholeIterations, pc = "return",
             phase = "prime" \/ (phase = "real" /\ ~Missing(choice))
      PROVE  moved * Chunk = End - start
  <2>1. TypeOK /\ WalkInv /\ CallInv /\ ~Empty
    BY <1>1 DEF CallsInv, TypeInv, Empty
  <2>2. PICK r \in 0..Spans : InCall(Iterations, r)
    BY <1>1, <2>1 DEF CallInv
  <2>3. moved = Iterations * Kernel.unroll
    BY <1>1, <2>2 DEF InCall
  <2>4. /\ Words = Kernel.unroll * Iterations /\ Words * Chunk = End - start
        /\ Kernel.unroll \in Nat /\ Iterations \in Nat
    BY <1>1, <2>1, CallShape
  <2>5. moved = Words
    BY <2>3, <2>4, Z3
  <2> QED  BY <2>4, <2>5
<1>2. CallsInv /\ WholeIterations => CallMovesItsBytes
  BY <1>1 DEF CallMovesItsBytes
<1>3. WholeIterations => []WholeIterations
  <2>1. WholeIterations => WholeIterations'
    BY DEF WholeIterations
  <2> QED  BY <2>1, PTL
<1> QED  BY <1>2, <1>3, CallsAreRegular, PTL

\* No access of a strided or a backward kernel leaves the worker's part by
\* more than the one word after it, wherever its pointer wraps around.
THEOREM AccessesStayInside == Spec /\ WholeIterations => []StaysNextToPart
<1>1. CallsInv => StaysNextToPart
  BY DEF CallsInv
<1> QED  BY <1>1, CallsAreRegular, PTL

\* The loop that is measured to be subtracted is called as often as the one it
\* is subtracted from, for the same pages in the same order, and makes as many
\* steps, unless there is no such loop in a Windows build.
THEOREM OverheadIsMirrored == Spec /\ WholeIterations => []DummyMirrorsPasses
<1>1. ASSUME CallsInv, phase = "done"
      PROVE  /\ p = passes
             /\ pages["dummy"] = pages["real"]
             /\ ~Missing(choice) => steps["dummy"] = steps["real"]
  <2>1. TypeOK /\ StepsInv /\ PagesInv
    BY <1>1 DEF CallsInv, TypeInv
  <2>2. p = passes /\ (~Missing(choice) => steps["dummy"] = steps["real"])
    BY <1>1, <2>1 DEF StepsInv
  <2>3. /\ pages["dummy"] \in Seq(Int) /\ pages["real"] \in Seq(Int)
        /\ Len(pages["dummy"]) = Len(pages["real"])
        /\ \A n \in 1..Len(pages["dummy"]) : pages["dummy"][n] = pages["real"][n]
    BY <1>1, <2>1, <2>2 DEF TypeOK, PagesInv
  <2>4. pages["dummy"] = pages["real"]
    BY <2>3, SMTT(30)
  <2> QED  BY <2>2, <2>4
<1>2. CallsInv => DummyMirrorsPasses
  BY <1>1 DEF DummyMirrorsPasses
<1> QED  BY <1>2, CallsAreRegular, PTL


\* A strided kernel accesses the words of its stride and no others, although
\* its pointer wraps around.  This says nothing of the kernels that are missing
\* on Windows.
THEOREM StridesRepeat == Spec /\ WholeIterations => []StridedPassRepeats
<1>1. ASSUME CallsInv, WholeIterations, pc = "return", phase = "real",
             ~Missing(choice), NEW stride,
             stride = (IF choice.stride < 0 THEN -choice.stride
                                            ELSE choice.stride) * choice.chunk
      PROVE  touched = {IF Backward THEN End - n * stride
                                    ELSE start + n * stride :
                          n \in 0..(PassBytes \div stride) - 1}
  <2>1. TypeOK /\ WalkInv /\ CallInv /\ ~Empty
    BY <1>1 DEF CallsInv, TypeInv, Empty
  <2>2. PICK r \in 0..Spans : InCall(Iterations, r)
    BY <1>1, <2>1 DEF CallInv
  <2>3. touched = {Nth(n) : n \in 0..Least(Iterations, Spans) * Kernel.unroll - 1}
    BY <1>1, <2>2 DEF InCall
  <2>4. /\ start \in Nat /\ End = start + PassBytes /\ Chunk = choice.chunk
        /\ Kernel.unroll \in Nat \ {0}
        /\ Stride \in Nat \ {0} /\ Span \in Nat \ {0}
        /\ Spans \in Nat \ {0} /\ End - start = Span * Spans
        /\ Iterations \in Nat /\ Spans <= Iterations
    BY <1>1, <2>1, CallShape
  <2>5. Stride = stride
    <3>1. choice \in AllChoices
      BY <2>1, LoadWalkAssumption DEF TypeOK
    <3>2. Kernel = PairOf(choice)[1]
      BY <1>1 DEF Kernel
    <3>3. Magnitude(Kernel.step) = Magnitude(choice.stride)
      BY <1>1, <3>1, <3>2, PairsSuit DEF Suits
    <3> QED  BY <1>1, <2>4, <3>3 DEF Stride, Magnitude
  <2>6. Least(Iterations, Spans) = Spans
    BY <2>4 DEF Least
  <2>7. PassBytes \div Stride = Spans * Kernel.unroll
    <3>1. PassBytes = Span * Spans
      <4>1. PassBytes \in Nat
        BY LoadWalkAssumption
      <4> QED  BY <2>4, <4>1
    <3>2. Span * Spans = Stride * (Spans * Kernel.unroll)
          /\ Spans * Kernel.unroll \in Nat
      BY <2>4, Z3 DEF Span
    <3> DEFINE turns == Spans * Kernel.unroll
    <3>3. (Stride * turns) \div Stride = turns
      <4> HIDE DEF turns
      <4> QED  BY <2>4, <3>2, DivisionOfMultiple DEF turns
    <3> QED  BY <3>1, <3>2, <3>3
  <2>8. touched = {Nth(n) : n \in 0..(PassBytes \div stride) - 1}
    BY <2>3, <2>5, <2>6, <2>7
  <2> QED  BY <2>5, <2>8 DEF Nth
<1>2. CallsInv /\ WholeIterations => StridedPassRepeats
  BY <1>1 DEF StridedPassRepeats
<1>3. WholeIterations => []WholeIterations
  <2>1. WholeIterations => WholeIterations'
    BY DEF WholeIterations
  <2> QED  BY <2>1, PTL
<1> QED  BY <1>2, <1>3, CallsAreRegular, PTL

===============================================================================

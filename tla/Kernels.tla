------------------------------- MODULE Kernels -------------------------------
(***************************************************************************)
(* The sequential benchmark kernels: portable C++ loops over [start_address,*)
(* end_address) that are unrolled by hand, about two hundred of them, and  *)
(* the functions that pick the kernel and its dummy for a benchmark.  Some *)
(* kernels are assembly language in a Windows build, and left out there;   *)
(* some others are not written for Windows and return at once.             *)
(*                                                                         *)
(* A kernel is the number of words its pointer moves from one access to    *)
(* the next, and the number of accesses in one iteration of its loop.      *)
(* Where a pointer begins, wraps around and stops is in LoadWalk; it       *)
(* follows from the step.  What is read or written is left out.  A kernel  *)
(* without accesses has no loop.                                           *)
(***************************************************************************)
EXTENDS Integers, Sequences

ChunkBytes == {4, 8, 16, 32, 64}

Strides == {1, -1, 2, -2, 4, -4, 8, -8, 16, -16}

\* A kernel in its Word32, Word64, Word128, Word256 and Word512 versions.
Loop(step, word32, word64, word128, word256, word512) ==
  [chunk \in ChunkBytes |->
     [step |-> step,
      unroll |-> CASE chunk = 4 -> word32   [] chunk = 8 -> word64
                   [] chunk = 16 -> word128 [] chunk = 32 -> word256
                   [] chunk = 64 -> word512]]

-----------------------------------------------------------------------------
(* The dummy kernels, which only move the pointer.                         *)

dummy_forwSequentialLoop == Loop(1, 1024, 512, 256, 128, 64)
dummy_revSequentialLoop == Loop(-1, 1024, 512, 256, 128, 64)

dummy_forwStride2Loop == Loop(2, 512, 256, 128, 64, 32)
dummy_revStride2Loop == Loop(-2, 512, 256, 128, 64, 32)
dummy_forwStride4Loop == Loop(4, 256, 128, 64, 32, 16)
dummy_revStride4Loop == Loop(-4, 256, 128, 64, 32, 16)
dummy_forwStride8Loop == Loop(8, 128, 64, 32, 16, 8)
dummy_revStride8Loop == Loop(-8, 128, 64, 32, 16, 8)
dummy_forwStride16Loop == Loop(16, 64, 32, 16, 8, 4)
dummy_revStride16Loop == Loop(-16, 64, 32, 16, 8, 4)

-----------------------------------------------------------------------------
(* The kernels that read or write the word.                                *)

\* Mutant: the 256-bit version has the literal of the 128-bit one.
forwSequentialReadCopied == Loop(1, 1024, 512, 256, 256, 64)

forwSequentialRead == Loop(1, 1024, 512, 256, 128, 64)
revSequentialRead == Loop(-1, 1024, 512, 256, 128, 64)
forwSequentialWrite == Loop(1, 1024, 512, 256, 128, 64)
revSequentialWrite == Loop(-1, 1024, 512, 256, 128, 64)

forwStride2Read == Loop(2, 512, 256, 128, 64, 32)
revStride2Read == Loop(-2, 512, 256, 128, 64, 32)
forwStride2Write == Loop(2, 512, 256, 128, 64, 32)

\* The 512-bit version is a copy of the forward one; its dummy is not.
revStride2Write ==
  [chunk \in ChunkBytes |-> IF chunk = 64 THEN forwStride2Write[chunk]
                            ELSE Loop(-2, 512, 256, 128, 64, 32)[chunk]]

forwStride4Read == Loop(4, 256, 128, 64, 32, 16)
revStride4Read == Loop(-4, 256, 128, 64, 32, 16)
forwStride4Write == Loop(4, 256, 128, 64, 32, 16)
revStride4Write == Loop(-4, 256, 128, 64, 32, 16)
forwStride8Read == Loop(8, 128, 64, 32, 16, 8)
revStride8Read == Loop(-8, 128, 64, 32, 16, 8)
forwStride8Write == Loop(8, 128, 64, 32, 16, 8)
revStride8Write == Loop(-8, 128, 64, 32, 16, 8)
forwStride16Read == Loop(16, 64, 32, 16, 8, 4)
revStride16Read == Loop(-16, 64, 32, 16, 8, 4)
forwStride16Write == Loop(16, 64, 32, 16, 8, 4)
revStride16Write == Loop(-16, 64, 32, 16, 8, 4)

-----------------------------------------------------------------------------
(* determine_sequential_kernel(): the kernel and its dummy.                *)

ReadKernels == [s \in Strides |->
  CASE s = 1   -> <<forwSequentialRead, dummy_forwSequentialLoop>>
    [] s = -1  -> <<revSequentialRead, dummy_revSequentialLoop>>
    [] s = 2   -> <<forwStride2Read, dummy_forwStride2Loop>>
    [] s = -2  -> <<revStride2Read, dummy_revStride2Loop>>
    [] s = 4   -> <<forwStride4Read, dummy_forwStride4Loop>>
    [] s = -4  -> <<revStride4Read, dummy_revStride4Loop>>
    [] s = 8   -> <<forwStride8Read, dummy_forwStride8Loop>>
    [] s = -8  -> <<revStride8Read, dummy_revStride8Loop>>
    [] s = 16  -> <<forwStride16Read, dummy_forwStride16Loop>>
    [] s = -16 -> <<revStride16Read, dummy_revStride16Loop>>]

WriteKernels == [s \in Strides |->
  CASE s = 1   -> <<forwSequentialWrite, dummy_forwSequentialLoop>>
    [] s = -1  -> <<revSequentialWrite, dummy_revSequentialLoop>>
    [] s = 2   -> <<forwStride2Write, dummy_forwStride2Loop>>
    [] s = -2  -> <<revStride2Write, dummy_revStride2Loop>>
    [] s = 4   -> <<forwStride4Write, dummy_forwStride4Loop>>
    [] s = -4  -> <<revStride4Write, dummy_revStride4Loop>>
    [] s = 8   -> <<forwStride8Write, dummy_forwStride8Loop>>
    [] s = -8  -> <<revStride8Write, dummy_revStride8Loop>>
    [] s = 16  -> <<forwStride16Write, dummy_forwStride16Loop>>
    [] s = -16 -> <<revStride16Write, dummy_revStride16Loop>>]

-----------------------------------------------------------------------------
(* The delay-injected kernels: forwards, reading, with a number of nops    *)
(* after each access.  The n-th is the version for 2^(n-1) nops: 1 to 1024.*)

forwSequentialRead_Word32_Delay  == <<512, 256, 128, 64, 32, 16, 8, 4, 2, 1, 1>>
forwSequentialRead_Word64_Delay  == <<256, 128, 64, 32, 16, 8, 4, 2, 1, 1, 1>>

\* For Windows the wider ones are "return 0; //TODO: Not yet implemented".
NotImplemented == <<0, 0, 0, 0, 0, 0, 0, 0, 0, 0, 0>>

forwSequentialRead_Word128_Delay(windows) ==
  IF windows THEN NotImplemented ELSE <<128, 64, 32, 16, 8, 4, 2, 1, 1, 1, 1>>
forwSequentialRead_Word256_Delay(windows) ==
  IF windows THEN NotImplemented ELSE <<64, 32, 16, 8, 4, 2, 1, 1, 1, 1, 1>>

\* The dummies are the same for all builds.  The last of them, "plus", serves
\* the longer delays as well.
dummy_forwSequentialLoop_Word32_Delay  == <<512, 256, 128, 64, 32, 16, 8, 4, 2, 1>>
dummy_forwSequentialLoop_Word64_Delay  == <<256, 128, 64, 32, 16, 8, 4, 2, 1>>
dummy_forwSequentialLoop_Word128_Delay == <<128, 64, 32, 16, 8, 4, 2, 1>>
dummy_forwSequentialLoop_Word256_Delay == <<64, 32, 16, 8, 4, 2, 1>>

\* The pair for a delay, of which the dummy's list may be the shorter.
Delayed(reads, dummies) ==
  [n \in 1..11 |->
     <<[step |-> 1, unroll |-> reads[n]],
       [step |-> 1,
        unroll |-> dummies[IF n < Len(dummies) THEN n ELSE Len(dummies)]]>>]

Delayed32 == Delayed(forwSequentialRead_Word32_Delay,
                     dummy_forwSequentialLoop_Word32_Delay)
Delayed64 == Delayed(forwSequentialRead_Word64_Delay,
                     dummy_forwSequentialLoop_Word64_Delay)
Delayed128(windows) == Delayed(forwSequentialRead_Word128_Delay(windows),
                               dummy_forwSequentialLoop_Word128_Delay)
Delayed256(windows) == Delayed(forwSequentialRead_Word256_Delay(windows),
                               dummy_forwSequentialLoop_Word256_Delay)

-----------------------------------------------------------------------------

\* The build of the program, and what a benchmark asks for.  The delay is 0, or
\* n for 2^(n-1) nops.  Without a delay, a Windows build has assembly language
\* for 128 and 256 bits, which is left out, and no words of 512 bits.
PlainChoices ==
  [windows : {FALSE}, rw : {"READ", "WRITE"}, chunk : ChunkBytes,
   stride : Strides, delay : {0}]
  \cup
  [windows : {TRUE}, rw : {"READ", "WRITE"}, chunk : {4, 8},
   stride : Strides, delay : {0}]

\* Others than these make the delay-injected benchmark fail.
DelayChoices ==
  [windows : BOOLEAN, rw : {"READ"}, chunk : ChunkBytes \ {64}, stride : {1},
   delay : 1..11]

AllChoices == PlainChoices \cup DelayChoices

DelayedPair(c) ==
  CASE c.chunk = 4 -> Delayed32[c.delay] [] c.chunk = 8 -> Delayed64[c.delay]
    [] c.chunk = 16 -> Delayed128(c.windows)[c.delay]
    [] c.chunk = 32 -> Delayed256(c.windows)[c.delay]

PlainPair(c) ==
  LET pair == IF c.rw = "READ" THEN ReadKernels[c.stride]
                               ELSE WriteKernels[c.stride]
  IN  <<pair[1][c.chunk], pair[2][c.chunk]>>

\* The kernel and its dummy.
PairOf(c) == IF c.delay = 0 THEN PlainPair(c) ELSE DelayedPair(c)

\* What the tables above consist of.
KernelType == [step : Strides, unroll : Nat]

=============================================================================

----------------------- MODULE BenchmarkManager_proofs -----------------------
(***************************************************************************)
(* In two parts.  The first is about WorkingSets alone: that               *)
(* setupWorkingSets() gives every benchmark memory of its own, of the      *)
(* length and on the node it notes, and that the destructor gives all of   *)
(* it back, for any number of nodes, regions and workers, any page sizes   *)
(* and any addresses the operating system chooses.  A region stays where   *)
(* it was allocated, as long as the place under which its pointer is       *)
(* stored is the one that is aligned afterwards.  With large pages that    *)
(* holds only for one region per node; Exits says that otherwise the       *)
(* program never gets past setupWorkingSets().                             *)
(*                                                                         *)
(* The second: every command line that is accepted leads to a              *)
(* configuration which the program can work with; hence it uses the        *)
(* working sets as WorkingSets says, and what is proved in the first part  *)
(* holds of every execution.  The loops of buildBenchmarks() are lists,    *)
(* which go through every combination, once.  The numbers of the tests,    *)
(* the cells of the matrices and the memory of each benchmark follow from  *)
(* where it stands in a list; and what main() runs is each list that is    *)
(* selected, from one end to the other.                                    *)
(***************************************************************************)
EXTENDS BenchmarkManager, FiniteSetTheorems, TLAPS

-----------------------------------------------------------------------------
(* Arithmetic.                                                             *)

\* The remainder of a number given by quotient and remainder.
LEMMA Remainder ==
  ASSUME NEW p \in Nat \ {0}, NEW q \in Nat, NEW s \in 0..(p - 1)
  PROVE (p * q + s) % p = s
OBVIOUS

\* Rounding upwards moves an address by less than the alignment, to a
\* multiple of it, and leaves multiples where they are: (a + mask) & ~mask.
LEMMA RoundingUp ==
  ASSUME NEW a \in Nat, NEW p \in Nat \ {0},
         NEW b, b = (a + (p - 1)) - ((a + (p - 1)) % p)
  PROVE /\ b \in Nat
        /\ a <= b
        /\ b <= a + (p - 1)
        /\ b % p = 0
        /\ a % p = 0 => b = a
<1> DEFINE x == a + (p - 1)
           q == x \div p
<1>1. x \in Nat
  OBVIOUS
<1>2. x % p \in 0..(p - 1) /\ q \in Nat /\ x = p * q + (x % p)
  BY <1>1
<1>3. b = p * q
  BY <1>1, <1>2
<1>4. b \in Nat /\ a <= b /\ b <= a + (p - 1)
  BY <1>1, <1>2
<1>5. (p * q) % p = 0
  BY <1>2
<1>6. ASSUME a % p = 0
      PROVE  b = a
  <2> DEFINE s == a \div p
  <2>1. s \in Nat /\ a = p * s
    BY <1>6
  <2>2. x = p * s + (p - 1)
    BY <2>1
  <2>3. (p * s + (p - 1)) % p = p - 1
    <3> HIDE DEF s
    <3>1. p - 1 \in 0..(p - 1)
      OBVIOUS
    <3> QED
      BY <2>1, <3>1, Remainder
  <2>4. x % p = p - 1
    BY <2>2, <2>3
  <2>5. b = x - (p - 1)
    BY <2>4
  <2> QED
    BY <2>5
<1> QED
  BY <1>3, <1>4, <1>5, <1>6

\* A multiple of a multiple of p is a multiple of p.
LEMMA MultipleOfMultiple ==
  ASSUME NEW p \in Nat \ {0}, NEW m \in Nat \ {0}, NEW a \in Nat,
         a % m = 0, m % p = 0
  PROVE a % p = 0
<1> DEFINE s == a \div m
           t == m \div p
<1>1. s \in Nat /\ a = m * s
  OBVIOUS
<1>2. t \in Nat /\ m = p * t
  OBVIOUS
<1>3. t * s \in Nat /\ a = p * (t * s)
  <2> HIDE DEF s, t
  <2>1. t * s \in Nat /\ (p * t) * s = p * (t * s)
    BY <1>1, <1>2
  <2> QED
    BY <1>1, <1>2, <2>1
<1>4. \A u \in Nat : (p * u) % p = 0
  OBVIOUS
<1> QED
  BY <1>3, <1>4

LEMMA Multiples ==
  ASSUME NEW m \in Nat \ {0}, NEW n \in Nat
  PROVE  (n * m) % m = 0
<1>1. n * m = m * n + 0 /\ 0 \in 0..(m - 1)
  OBVIOUS
<1> QED
  BY <1>1, Remainder

\* The place of region m of node n is within mem_arrays_, and so is the
\* place under the number of the node; they are the same only for the first
\* region of node 0, or if there is one region per node.
LEMMA RegionPlaces ==
  ASSUME NEW N \in Nat \ {0}, NEW R \in Nat \ {0},
         NEW n \in 0..(N - 1), NEW m \in 0..(R - 1)
  PROVE /\ n * R + m \in 0..(N * R - 1)
        /\ n \in 0..(N * R - 1)
        /\ R = 1 => n * R + m = n
        /\ R > 1 /\ n * R + m = n => n = 0 /\ m = 0
        /\ m >= 1 => n * R + m # 0
        /\ n >= 1 => n * R + m # 0
<1>1. n * R \in Nat /\ N * R \in Nat /\ (N - 1) * R = N * R - R
  OBVIOUS
<1>2. (N - 1) - n \in Nat /\ ((N - 1) - n) * R = (N * R - R) - n * R
  OBVIOUS
<1>3. ((N - 1) - n) * R >= 0
  BY <1>2
<1>4. n * R <= N * R - R
  BY <1>1, <1>2, <1>3
<1>5. n * R >= n /\ (R > 1 /\ n >= 1 => n * R > n)
  OBVIOUS
<1>6. n * R + m \in 0..(N * R - 1)
  BY <1>1, <1>4
<1>7. n \in 0..(N * R - 1)
  BY <1>1, <1>4, <1>5
<1> QED
  BY <1>1, <1>5, <1>6, <1>7

-----------------------------------------------------------------------------
(* The invariant.                                                          *)

\* The regions of I with addresses a and lengths l lie in the ranges H, on
\* page boundaries, and share no address.
Owned(I, a, l, H) ==
  /\ \A id \in I : a[id] # Null =>
       /\ \E h \in H : Within([base |-> a[id], size |-> l[id]], h)
       /\ a[id] % PageSize = 0 \/ LargePageSize % PageSize # 0
  /\ \A id1, id2 \in I :
       a[id1] # Null /\ a[id2] # Null /\ id1 # id2 =>
         Disjoint([base |-> a[id1], size |-> l[id1]],
                  [base |-> a[id2], size |-> l[id2]])

IsRange(h) == h.base \in Nat /\ h.size \in Nat

TypeInv ==
  /\ ConfigOK
  /\ build \in AllBuilds
  /\ setup \in {"allocate", "ready", "exited", "release", "released"}
  /\ k \in Nat
  /\ r \in Nat
  /\ array \in [RegionIds -> Nat \cup {Null}]
  /\ len \in [RegionIds -> Nat]
  /\ \A h \in heap : IsRange(h)

\* Where the loops are.
InLoops ==
  setup = "allocate" =>
    /\ k >= 1
    /\ ~config.physical => /\ k \in DOMAIN config.memNodes
                           /\ r < config.regions

\* A pointer is stored where it is aligned.
SlotsFit ==
  config.physical \/ ~config.largePages \/ config.regions = 1

SoundSoFar ==
  SlotsFit /\ setup \in {"allocate", "ready"} =>
    Owned(RegionIds, array, len, heap)

\* Otherwise no region but the first of node 0 is ever aligned, and the
\* program exits.
Exits ==
  ~SlotsFit =>
    /\ setup \in {"allocate", "exited"}
    /\ setup = "allocate" => \A id \in RegionIds \ {0} : array[id] = Null

WSInv == TypeInv /\ InLoops /\ SoundSoFar /\ Exits

-----------------------------------------------------------------------------
(* One more region, in a range that overlaps no other.                     *)
LEMMA AddRegion ==
  ASSUME NEW I, NEW a \in [I -> Nat \cup {Null}], NEW l \in [I -> Nat],
         NEW H, \A h \in H : IsRange(h), Owned(I, a, l, H),
         NEW h0, IsRange(h0),
         \A h \in H : Disjoint(h, [base |-> h0.base, size |-> h0.size]),
         NEW id0 \in I, NEW v \in Nat, NEW w \in Nat,
         h0.base <= v, v + w <= h0.base + h0.size,
         v % PageSize = 0 \/ LargePageSize % PageSize # 0
  PROVE  Owned(I, [a EXCEPT ![id0] = v], [l EXCEPT ![id0] = w], H \cup {h0})
<1> DEFINE a1 == [a EXCEPT ![id0] = v]
           l1 == [l EXCEPT ![id0] = w]
           New == [base |-> v, size |-> w]
           Old(id) == [base |-> a[id], size |-> l[id]]
<1>1. a1[id0] = v /\ l1[id0] = w
  OBVIOUS
<1>2. \A id \in I : id # id0 => a1[id] = a[id] /\ l1[id] = l[id]
  OBVIOUS
<1>3. Within(New, h0)
  BY DEF Within
<1>4. ASSUME NEW id \in I, a[id] # Null
      PROVE  Disjoint(Old(id), New) /\ Disjoint(New, Old(id))
  <2>1. PICK h \in H : Within(Old(id), h)
    BY <1>4 DEF Owned
  <2>2. h.base \in Nat /\ h.size \in Nat /\ h0.base \in Nat /\ h0.size \in Nat
    BY <2>1 DEF IsRange
  <2>3. a[id] \in Nat /\ l[id] \in Nat
    BY <1>4
  <2>4. \/ h.base + h.size <= h0.base
        \/ h0.base + h0.size <= h.base
    BY DEF Disjoint
  <2>5. h.base <= a[id] /\ a[id] + l[id] <= h.base + h.size
    BY <2>1 DEF Within
  <2> QED
    BY <2>2, <2>3, <2>4, <2>5 DEF Disjoint
<1>5. ASSUME NEW id \in I, a1[id] # Null
      PROVE  /\ \E h \in H \cup {h0} :
                   Within([base |-> a1[id], size |-> l1[id]], h)
             /\ a1[id] % PageSize = 0 \/ LargePageSize % PageSize # 0
  <2>1. CASE id = id0
    BY <1>1, <1>3, <2>1
  <2>2. CASE id # id0
    BY <1>2, <1>5, <2>2 DEF Owned
  <2> QED
    BY <2>1, <2>2
<1>6. ASSUME NEW id1 \in I, NEW id2 \in I,
             a1[id1] # Null, a1[id2] # Null, id1 # id2
      PROVE  Disjoint([base |-> a1[id1], size |-> l1[id1]],
                      [base |-> a1[id2], size |-> l1[id2]])
  <2>1. CASE id1 = id0
    BY <1>1, <1>2, <1>4, <1>6, <2>1
  <2>2. CASE id2 = id0
    BY <1>1, <1>2, <1>4, <1>6, <2>2
  <2>3. CASE id1 # id0 /\ id2 # id0
    BY <1>2, <1>6, <2>3 DEF Owned
  <2> QED
    BY <2>1, <2>2, <2>3
<1> QED
  BY <1>5, <1>6 DEF Owned

-----------------------------------------------------------------------------
(* The steps.                                                              *)

\* The current region is one of mem_arrays_, and so is the place under the
\* number of its node.
LEMMA CurrentRegion ==
  ASSUME TypeInv, InLoops, setup = "allocate", ~config.physical
  PROVE /\ config.memNodes[k] \in Nodes
        /\ RegionId \in RegionIds
        /\ config.memNodes[k] \in RegionIds
        /\ config.regions = 1 => RegionId = config.memNodes[k]
        /\ config.regions > 1 /\ RegionId = config.memNodes[k] => r = 0
        /\ config.regions > 1 /\ r >= 1 => RegionId # 0
        /\ config.regions > 1 /\ RegionId = 0 => r = 0
<1> DEFINE n == config.memNodes[k]
<1>1. n \in 0..(NumNodes - 1)
  <2>1. config.memNodes \in Seq(Nodes) /\ k \in DOMAIN config.memNodes
    BY DEF TypeInv, InLoops, ConfigOK
  <2>2. config.memNodes[k] \in Nodes
    BY <2>1
  <2> QED
    BY <2>2 DEF Nodes
<1>2. config.regions \in Nat \ {0} /\ r \in 0..(config.regions - 1)
  BY DEF TypeInv, InLoops, ConfigOK
<1>3. NumNodes \in Nat \ {0}
  BY WorkingSetsAssumption
<1>4. RegionIds = 0..(NumNodes * config.regions - 1)
  BY DEF RegionIds, NumRegions
<1>5. RegionId = n * config.regions + r
  BY DEF RegionId
<1> HIDE DEF n
<1>6. LET R == config.regions IN
      /\ n * R + r \in 0..(NumNodes * R - 1)
      /\ n \in 0..(NumNodes * R - 1)
      /\ R = 1 => n * R + r = n
      /\ R > 1 /\ n * R + r = n => n = 0 /\ r = 0
      /\ r >= 1 => n * R + r # 0
  BY <1>1, <1>2, <1>3, RegionPlaces
<1>7. /\ n \in Nodes
      /\ RegionId \in RegionIds
      /\ n \in RegionIds
      /\ config.regions = 1 => RegionId = n
      /\ config.regions > 1 /\ RegionId = n => r = 0
      /\ r >= 1 => RegionId # 0
  BY <1>1, <1>4, <1>5, <1>6 DEF Nodes
<1> QED
  BY <1>2, <1>7 DEF n

\* The allocation leaves room for the alignment.
LEMMA Room ==
  ASSUME TypeInv, ~config.physical, NEW base \in Nat,
         config.largePages => base % LargePageSize = 0
  PROVE /\ WorkingSetSize \in Nat
        /\ AllocationSize \in Nat
        /\ Aligned(base) \in Nat
        /\ base <= Aligned(base)
        /\ Aligned(base) + WorkingSetSize <= base + AllocationSize
        /\ Aligned(base) % PageSize = 0 \/ LargePageSize % PageSize # 0
<1>1. /\ PageSize \in Nat \ {0}
      /\ LargePageSize \in Nat \ {0}
      /\ config.largePages \in BOOLEAN
      /\ config.workers \in Nat
      /\ config.wsSize \in Nat
  BY WorkingSetsAssumption DEF TypeInv, ConfigOK
<1>2. WorkingSetSize \in Nat
  BY <1>1 DEF WorkingSetSize
<1>3. CASE config.largePages
  <2>1. WorkingSetSize % LargePageSize \in Nat
    BY <1>1, <1>2
  <2>2. AllocationSize \in Nat /\ WorkingSetSize <= AllocationSize
    BY <1>1, <1>2, <1>3, <2>1 DEF AllocationSize, LargeAllocationSize
  <2>3. Alignment = LargePageSize
    BY <1>3 DEF Alignment
  <2>4. Aligned(base) = base
    BY <1>1, <1>3, <2>3, RoundingUp DEF Aligned
  <2>5. base % PageSize = 0 \/ LargePageSize % PageSize # 0
    BY <1>1, <1>3, MultipleOfMultiple
  <2> QED
    BY <1>2, <2>2, <2>4, <2>5
<1>4. CASE ~config.largePages
  <2>1. AllocationSize = WorkingSetSize + PageSize
    BY <1>4 DEF AllocationSize
  <2>2. Alignment = PageSize
    BY <1>4 DEF Alignment
  <2>3. /\ Aligned(base) \in Nat
        /\ base <= Aligned(base)
        /\ Aligned(base) <= base + (PageSize - 1)
        /\ Aligned(base) % PageSize = 0
    BY <1>1, <2>2, RoundingUp DEF Aligned
  <2> QED
    BY <1>1, <1>2, <2>1, <2>3
<1> QED
  BY <1>1, <1>3, <1>4

LEMMA NextRegionInLoops ==
  ASSUME TypeInv, InLoops, setup = "allocate", ~config.physical,
         NextRegion, config' = config
  PROVE /\ k' \in Nat /\ r' \in Nat
        /\ setup' \in {"allocate", "ready"}
        /\ setup' = "allocate" =>
             k' >= 1 /\ k' \in DOMAIN config.memNodes /\ r' < config.regions
        /\ config.regions > 1 /\ r = 0 => setup' = "allocate"
<1>1. /\ k \in Nat /\ r \in Nat /\ config.regions \in Nat
      /\ config.regions > 0
      /\ config.memNodes \in Seq(Nodes)
      /\ k >= 1 /\ k \in DOMAIN config.memNodes /\ r < config.regions
  BY DEF TypeInv, InLoops, ConfigOK
<1>2. /\ DOMAIN config.memNodes = 1..Len(config.memNodes)
      /\ Len(config.memNodes) \in Nat
  BY <1>1
<1> QED
  BY <1>1, <1>2 DEF NextRegion

\* One allocation preserves the invariant.
LEMMA AllocateStep ==
  ASSUME WSInv, AllocateRegion
  PROVE  WSInv'
<1> USE DEF WSInv
<1>1. setup = "allocate" /\ ~config.physical /\ config' = config
      /\ build' = build
  BY DEF AllocateRegion
<1> DEFINE n == config.memNodes[k]
           slot == IF config.largePages THEN n ELSE RegionId
<1>2. PICK base \in Bases :
        LET stored == [array EXCEPT ![slot] = base] IN
        /\ IsFree(base, AllocationSize)
        /\ heap' = heap \cup
             {[base |-> base, size |-> AllocationSize, by |-> Allocator]}
        /\ \/ /\ stored[RegionId] # Null
              /\ array' = [stored EXCEPT ![RegionId] = Aligned(@)]
              /\ len' = [len EXCEPT ![RegionId] = WorkingSetSize]
              /\ NextRegion
           \/ /\ stored[RegionId] = Null
              /\ array' = stored
              /\ setup' = "exited"
              /\ UNCHANGED <<k, r, len>>
  BY DEF AllocateRegion
<1> DEFINE stored == [array EXCEPT ![slot] = base]
           h0 == [base |-> base, size |-> AllocationSize, by |-> Allocator]
<1>3. /\ RegionId \in RegionIds /\ n \in RegionIds /\ slot \in RegionIds
      /\ config.regions = 1 => RegionId = n
      /\ config.regions > 1 /\ RegionId = n => r = 0
      /\ config.regions > 1 /\ r >= 1 => RegionId # 0
      /\ config.regions > 1 /\ RegionId = 0 => r = 0
  BY <1>1, CurrentRegion
<1>4. base \in Nat /\ (config.largePages => base % LargePageSize = 0)
  BY <1>2, WorkingSetsAssumption DEF IsFree
<1>5. /\ WorkingSetSize \in Nat
      /\ AllocationSize \in Nat
      /\ Aligned(base) \in Nat
      /\ base <= Aligned(base)
      /\ Aligned(base) + WorkingSetSize <= base + AllocationSize
      /\ Aligned(base) % PageSize = 0 \/ LargePageSize % PageSize # 0
  BY <1>1, <1>4, Room
<1>6. IsRange(h0)
  BY <1>4, <1>5 DEF IsRange
<1>7. stored \in [RegionIds -> Nat \cup {Null}]
  BY <1>3, <1>4 DEF TypeInv
<1>8. RegionIds' = RegionIds
  BY <1>1 DEF RegionIds, NumRegions
<1>9. ConfigOK' /\ (SlotsFit' <=> SlotsFit)
  BY <1>1 DEF ConfigOK, TypeInv, SlotsFit
<1>10. \A h \in heap' : IsRange(h)
  BY <1>2, <1>6 DEF TypeInv
<1>11. CASE stored[RegionId] = Null
  <2>1. /\ array' = stored /\ len' = len /\ setup' = "exited"
        /\ k' = k /\ r' = r
    BY <1>2, <1>11
  <2>2. TypeInv'
    BY <1>1, <1>7, <1>8, <1>9, <1>10, <2>1 DEF TypeInv
  <2> QED
    BY <1>9, <2>1, <2>2 DEF InLoops, SoundSoFar, Exits
<1>12. CASE stored[RegionId] # Null
  <2>1. /\ array' = [stored EXCEPT ![RegionId] = Aligned(@)]
        /\ len' = [len EXCEPT ![RegionId] = WorkingSetSize]
        /\ NextRegion
    BY <1>2, <1>12
  <2>2. /\ k' \in Nat /\ r' \in Nat
        /\ setup' \in {"allocate", "ready"}
        /\ setup' = "allocate" =>
             k' >= 1 /\ k' \in DOMAIN config.memNodes /\ r' < config.regions
        /\ config.regions > 1 /\ r = 0 => setup' = "allocate"
    BY <1>1, <2>1, NextRegionInLoops
  <2>3. InLoops'
    BY <1>1, <2>2 DEF InLoops
  <2>4. stored[RegionId] \in Nat /\ Aligned(stored[RegionId]) \in Nat
    <3>1. stored[RegionId] \in Nat
      BY <1>3, <1>7, <1>12
    <3>2. Alignment \in Nat \ {0}
      BY WorkingSetsAssumption DEF Alignment
    <3> QED
      BY <3>1, <3>2, RoundingUp DEF Aligned
  <2>5. array' \in [RegionIds -> Nat \cup {Null}]
        /\ len' \in [RegionIds -> Nat]
    BY <1>3, <1>5, <1>7, <2>1, <2>4 DEF TypeInv
  <2>6. TypeInv'
    BY <1>1, <1>8, <1>9, <1>10, <2>2, <2>5 DEF TypeInv
  <2>7. CASE SlotsFit
    <3>1. slot = RegionId
      BY <1>1, <1>3, <2>7 DEF SlotsFit
    <3>2. stored[RegionId] = base
      BY <1>3, <3>1 DEF TypeInv
    <3>3. array' = [array EXCEPT ![RegionId] = Aligned(base)]
      BY <1>3, <2>1, <3>1, <3>2 DEF TypeInv
    <3>4. Owned(RegionIds, array, len, heap)
      BY <1>1, <2>7 DEF SoundSoFar
    <3>5. \A h \in heap : Disjoint(h, [base |-> h0.base, size |-> h0.size])
      BY <1>2 DEF IsFree
    <3>6. Owned(RegionIds, array', len', heap')
      <4>1. /\ array \in [RegionIds -> Nat \cup {Null}]
            /\ len \in [RegionIds -> Nat]
            /\ \A h \in heap : IsRange(h)
        BY DEF TypeInv
      <4>2. /\ h0.base <= Aligned(base)
            /\ Aligned(base) + WorkingSetSize <= h0.base + h0.size
        BY <1>5
      <4>3. Owned(RegionIds, [array EXCEPT ![RegionId] = Aligned(base)],
                  [len EXCEPT ![RegionId] = WorkingSetSize], heap \cup {h0})
        BY <1>3, <1>5, <1>6, <3>4, <3>5, <4>1, <4>2, AddRegion
      <4> QED
        BY <1>2, <2>1, <3>3, <4>3
    <3>7. SoundSoFar'
      BY <1>8, <3>6 DEF SoundSoFar, Owned
    <3>8. Exits'
      BY <1>9, <2>7 DEF Exits
    <3> QED
      BY <2>3, <2>6, <3>7, <3>8
  <2>8. CASE ~SlotsFit
    <3>1. config.regions > 1 /\ slot = n
      BY <1>1, <2>8 DEF SlotsFit, TypeInv, ConfigOK
    <3>2. \A id \in RegionIds \ {0} : array[id] = Null
      BY <1>1, <2>8 DEF Exits
    <3>3. RegionId = n \/ array[RegionId] # Null
      BY <1>3, <1>12, <3>1 DEF TypeInv
    <3>4. r = 0
      BY <1>3, <3>1, <3>2, <3>3
    <3>5. setup' = "allocate"
      BY <2>2, <3>1, <3>4
    <3>6. \A id \in RegionIds \ {0} : array'[id] = Null
      <4>1. RegionId = 0 \/ RegionId = n
        BY <1>3, <3>2, <3>3
      <4>2. n = 0 /\ RegionId = 0
        <5>1. /\ n \in 0..(NumNodes - 1)
              /\ r \in 0..(config.regions - 1)
              /\ config.regions \in Nat \ {0}
              /\ NumNodes \in Nat \ {0}
          BY <1>1, WorkingSetsAssumption, SMTT(30)
             DEF TypeInv, InLoops, ConfigOK, Nodes
        <5>2. RegionId = n * config.regions + r
          BY DEF RegionId
        <5>3. /\ RegionId = n => n = 0
              /\ n >= 1 => RegionId # 0
          BY <3>1, <5>1, <5>2, RegionPlaces
        <5> QED
          BY <4>1, <5>1, <5>3
      <4> QED
        BY <1>3, <1>7, <2>1, <3>1, <3>2, <4>2 DEF TypeInv
    <3>7. Exits'
      BY <1>8, <3>5, <3>6 DEF Exits
    <3>8. SoundSoFar'
      BY <1>9, <2>8 DEF SoundSoFar
    <3> QED
      BY <2>3, <2>6, <3>7, <3>8
  <2> QED
    BY <2>7, <2>8
<1> QED
  BY <1>11, <1>12

\* One mapping of a physical address preserves the invariant.
LEMMA MapStep ==
  ASSUME WSInv, MapRegion
  PROVE  WSInv'
<1> USE DEF WSInv
<1>1. /\ setup = "allocate" /\ config.physical /\ k <= Len(config.phys)
      /\ config' = config /\ build' = build /\ setup' = setup /\ r' = r
      /\ k' = k + 1
  BY DEF MapRegion
<1> DEFINE size == (config.phys[k] % PageSize) + config.wsSize
           id0 == k - 1
<1>2. PICK base \in Bases :
        /\ IsFree(base, size)
        /\ heap' = heap \cup
             {[base |-> base, size |-> size, by |-> "mmap"]}
        /\ array' = [array EXCEPT ![id0] = base]
        /\ len' = [len EXCEPT ![id0] = config.wsSize]
  BY DEF MapRegion
<1> DEFINE h0 == [base |-> base, size |-> size, by |-> "mmap"]
<1>3. /\ k \in Nat /\ k >= 1 /\ config.phys \in Seq(Nat)
      /\ config.wsSize \in Nat
      /\ array \in [RegionIds -> Nat \cup {Null}]
      /\ len \in [RegionIds -> Nat]
      /\ \A h \in heap : IsRange(h)
  BY <1>1 DEF TypeInv, ConfigOK, InLoops
<1>4. id0 \in RegionIds
  BY <1>1, <1>3 DEF RegionIds, NumRegions
<1>5. base \in Nat /\ PageSize \in Nat \ {0} /\ base % PageSize = 0
  BY <1>1, <1>2, WorkingSetsAssumption DEF IsFree
<1>6. size \in Nat /\ config.wsSize <= size
  <2>1. config.phys[k] \in Nat
    <3>1. k \in DOMAIN config.phys
      BY <1>1, <1>3
    <3> QED
      BY <1>3, <3>1
  <2>2. config.phys[k] % PageSize \in Nat
    BY <1>5, <2>1
  <2> QED
    BY <1>3, <2>2
<1>7. IsRange(h0)
  BY <1>5, <1>6 DEF IsRange
<1>8. /\ RegionIds' = RegionIds
      /\ ConfigOK'
      /\ SlotsFit /\ SlotsFit'
  BY <1>1 DEF RegionIds, NumRegions, ConfigOK, TypeInv, SlotsFit
<1>9. TypeInv'
  BY <1>1, <1>2, <1>3, <1>4, <1>5, <1>7, <1>8 DEF TypeInv
<1>10. InLoops'
  BY <1>1, <1>3 DEF InLoops
<1>11. Owned(RegionIds, array', len', heap')
  <2>1. Owned(RegionIds, array, len, heap)
    BY <1>1, <1>8 DEF SoundSoFar
  <2>2. \A h \in heap : Disjoint(h, [base |-> h0.base, size |-> h0.size])
    BY <1>2 DEF IsFree
  <2>3. h0.base <= base /\ base + config.wsSize <= h0.base + h0.size
    BY <1>3, <1>5, <1>6
  <2>4. Owned(RegionIds, [array EXCEPT ![id0] = base],
              [len EXCEPT ![id0] = config.wsSize], heap \cup {h0})
    BY <1>3, <1>4, <1>5, <1>7, <2>1, <2>2, <2>3, AddRegion
  <2> QED
    BY <1>2, <2>4
<1>12. SoundSoFar'
  BY <1>8, <1>11 DEF SoundSoFar, Owned
<1>13. Exits'
  BY <1>8 DEF Exits
<1> QED
  BY <1>9, <1>10, <1>12, <1>13

LEMMA InitialState ==
  ASSUME ConfigOK, WSInit
  PROVE  WSInv
<1>1. /\ setup = "allocate" /\ k = 1 /\ r = 0 /\ heap = {}
      /\ array = [id \in RegionIds |-> Null]
      /\ len = [id \in RegionIds |-> 0]
      /\ build \in AllBuilds
  BY WorkingSetsAssumption DEF WSInit
<1>2. TypeInv
  BY <1>1 DEF TypeInv
<1>3. InLoops
  <2>1. config.memNodes \in Seq(Nodes) /\ config.memNodes # <<>>
    BY DEF ConfigOK
  <2>2. 1 \in DOMAIN config.memNodes
    BY <2>1
  <2> QED
    BY <1>1, <2>2 DEF InLoops, ConfigOK
<1>4. SoundSoFar
  BY <1>1 DEF SoundSoFar, Owned
<1>5. Exits
  BY <1>1 DEF Exits
<1> QED
  BY <1>2, <1>3, <1>4, <1>5 DEF WSInv

LEMMA RegionsAreCounted ==
  ASSUME TypeInv
  PROVE  NumRegions \in Int
<1>1. config.phys \in Seq(Nat) /\ config.regions \in Nat
  BY DEF TypeInv, ConfigOK
<1>2. NumNodes * config.regions \in Int
  BY <1>1, WorkingSetsAssumption
<1> QED
  BY <1>1, <1>2 DEF NumRegions

\* What stays of a range that has been given back is a range.
LEMMA LeftoversAreRanges ==
  ASSUME TypeInv, setup = "release", k < NumRegions,
         NEW g \in heap, NEW h \in LeftBehind(g, k)
  PROVE  IsRange(h)
<1>1. IsRange(g)
  BY DEF TypeInv
<1>2. k \in RegionIds
  <2>1. NumRegions \in Int
    BY RegionsAreCounted
  <2> QED
    BY <2>1 DEF TypeInv, RegionIds
<1>3. len[k] \in Nat
  BY <1>2 DEF TypeInv
<1> QED
  BY <1>1, <1>3 DEF LeftBehind, IsRange

LEMMA Step ==
  ASSUME WSInv, [WSNext]_wsVars
  PROVE  WSInv'
<1> DEFINE Same == UNCHANGED <<build, config, array, len>>
\* A step that moves neither a region nor the loops.
<1>1. ASSUME Same, \A h \in heap' : IsRange(h), k' \in Nat, r' = r,
             setup' \in {"exited", "release", "released"},
             setup' = "exited" \/ SlotsFit
      PROVE  WSInv'
  <2>1. RegionIds' = RegionIds /\ ConfigOK' /\ (SlotsFit' <=> SlotsFit)
    BY <1>1 DEF RegionIds, NumRegions, ConfigOK, WSInv, TypeInv, SlotsFit
  <2>2. TypeInv'
    BY <1>1, <2>1 DEF WSInv, TypeInv
  <2> QED
    BY <1>1, <2>1, <2>2 DEF WSInv, InLoops, SoundSoFar, Exits
<1>2. CASE UNCHANGED wsVars
  BY <1>2 DEF wsVars, WSInv, TypeInv, InLoops, SoundSoFar, Exits, SlotsFit,
              ConfigOK, RegionIds, NumRegions, Owned
<1>3. CASE AllocateRegion
  BY <1>3, AllocateStep
<1>4. CASE MapRegion
  BY <1>4, MapStep
<1>5. CASE AllMapped
  <2>1. /\ UNCHANGED <<build, config, k, r, array, len, heap>>
        /\ setup = "allocate" /\ setup' = "ready" /\ config.physical
    BY <1>5 DEF AllMapped
  <2>2. RegionIds' = RegionIds /\ ConfigOK' /\ SlotsFit' /\ SlotsFit
    BY <2>1 DEF RegionIds, NumRegions, ConfigOK, WSInv, TypeInv, SlotsFit
  <2>3. TypeInv'
    BY <2>1, <2>2 DEF WSInv, TypeInv
  <2>4. SoundSoFar'
    BY <2>1, <2>2 DEF WSInv, SoundSoFar, Owned
  <2> QED
    BY <2>1, <2>2, <2>3, <2>4 DEF WSInv, InLoops, Exits
<1>6. CASE AllocationFails
  BY <1>1, <1>6 DEF AllocationFails, WSInv, TypeInv
<1>7. CASE StartRelease
  BY <1>1, <1>7 DEF StartRelease, WSInv, TypeInv, Exits
<1>8. CASE ReleaseRegion
  <2>1. \A h \in heap' : IsRange(h)
    BY <1>8, LeftoversAreRanges DEF ReleaseRegion, WSInv, TypeInv
  <2> QED
    BY <1>1, <1>8, <2>1 DEF ReleaseRegion, WSInv, TypeInv, Exits
<1>9. CASE AllReleased
  BY <1>1, <1>9 DEF AllReleased, WSInv, TypeInv, Exits
<1> QED
  BY <1>2, <1>3, <1>4, <1>5, <1>6, <1>7, <1>8, <1>9
     DEF WSNext, SetUpWorkingSets, Release, WSDone

-----------------------------------------------------------------------------
(* The theorems.                                                           *)

\* The invariant above, of setting up and releasing the working sets.
THEOREM RegionsInvariance == WSSpec => []WSInv
<1>1. ConfigOK /\ WSInit => WSInv
  BY InitialState
<1>2. WSInv /\ [WSNext]_wsVars => WSInv'
  BY Step
<1> QED
  BY <1>1, <1>2, PTL DEF WSSpec

\* When the working sets are ready, every region lies in memory that the
\* operating system has handed out, alignment included, and no two regions
\* share an address.
THEOREM RegionsSound == WSSpec => []RegionsAreSound
<1>1. ASSUME WSInv, setup = "ready"
      PROVE  Owned(RegionIds, array, len, heap)
  BY <1>1 DEF WSInv, SoundSoFar, Exits
<1>2. WSInv => RegionsAreSound
  BY <1>1 DEF RegionsAreSound, Owned, Allocated, Region
<1> QED
  BY <1>2, RegionsInvariance, PTL

-----------------------------------------------------------------------------
(* What the destructor gives back.                                         *)

\* The builds, and the configurations, whose pointers are given back with the
\* function that goes with the one they came from.
Matching == build # "malloc" /\ ~(config.physical /\ config.largePages)

\* The regions that have been allocated and not yet given back.
Live ==
  {id \in Allocated : \/ setup \in {"allocate", "ready", "exited"}
                      \/ setup = "release" /\ id >= k}

\* How long a region is, and how long the range that was handed out for it.
RegionSize == IF config.physical THEN config.wsSize ELSE WorkingSetSize

Sizes ==
  [id \in RegionIds |->
     IF config.physical THEN (config.phys[id + 1] % PageSize) + config.wsSize
                        ELSE AllocationSize]

\* The regions of which, after they have been given back, something stays.
Behind ==
  {id \in Allocated \ Live : FreesByLength /\ RegionSize < Sizes[id]}

\* The range of a region at address a[id], and what stays of it when w bytes
\* have been given back.
Whole(a, s, by, id) == [base |-> a[id], size |-> s[id], by |-> by]

Rest(a, s, w, by, id) ==
  [base |-> a[id] + w, size |-> s[id] - w, by |-> by]

\* The ranges H are those of the regions L, all of them whole, and what stays
\* of those of the regions G.  The ranges that were handed out for the
\* regions A have no address in common.
Accounted(A, L, G, a, s, w, by, H) ==
  /\ H = {Whole(a, s, by, id) : id \in L} \cup {Rest(a, s, w, by, id) : id \in G}
  /\ \A id1, id2 \in A :
       id1 # id2 => Disjoint(Whole(a, s, by, id1), Whole(a, s, by, id2))

\* The places of regions the loops have not come to are empty: no pointer is
\* overwritten, because no node is listed twice.
PlacesAhead ==
  setup = "allocate" =>
    IF config.physical
    THEN \A id \in RegionIds : id >= k - 1 => array[id] = Null
    ELSE \A j \in DOMAIN config.memNodes, m \in 0..(config.regions - 1) :
           j > k \/ (j = k /\ m >= r) =>
             array[config.memNodes[j] * config.regions + m] = Null

FreeInv ==
  Matching =>
    /\ ~badFree
    /\ SlotsFit => PlacesAhead
    /\ SlotsFit /\ setup # "exited" =>
         /\ \A id \in Allocated : len[id] = RegionSize
         /\ Accounted(Allocated, Live, Behind,
                      array, Sizes, RegionSize, Deallocator, heap)

-----------------------------------------------------------------------------
(* One range more, and one less.                                           *)

LEMMA OneMore ==
  ASSUME NEW I, NEW a \in [I -> Nat \cup {Null}], NEW s \in [I -> Nat],
         NEW w, NEW by, NEW H, NEW L \in SUBSET I,
         Accounted(L, L, {}, a, s, w, by, H),
         NEW id0 \in I \ L, NEW base \in Nat,
         \A h \in H : Disjoint(h, [base |-> base, size |-> s[id0]])
  PROVE  Accounted(L \cup {id0}, L \cup {id0}, {},
                   [a EXCEPT ![id0] = base], s, w, by,
                   H \cup {[base |-> base, size |-> s[id0], by |-> by]})
<1> DEFINE b == [a EXCEPT ![id0] = base]
           h0 == [base |-> base, size |-> s[id0], by |-> by]
<1>1. b[id0] = base /\ \A id \in L : b[id] = a[id]
  OBVIOUS
<1> HIDE DEF b
<1>2. Whole(b, s, by, id0) = h0
  BY <1>1 DEF Whole
<1>3. \A id \in L : Whole(b, s, by, id) = Whole(a, s, by, id)
  BY <1>1 DEF Whole
<1>4. H = {Whole(a, s, by, id) : id \in L}
  BY DEF Accounted
<1>5. H \cup {h0} = {Whole(b, s, by, id) : id \in L \cup {id0}}
  BY <1>2, <1>3, <1>4
<1>6. ASSUME NEW id \in L
      PROVE  /\ Disjoint(Whole(b, s, by, id), Whole(b, s, by, id0))
             /\ Disjoint(Whole(b, s, by, id0), Whole(b, s, by, id))
  <2>1. Whole(a, s, by, id) \in H
    BY <1>4
  <2>2. Disjoint(Whole(a, s, by, id), [base |-> base, size |-> s[id0]])
    BY <2>1
  <2> QED
    BY <1>1, <2>2 DEF Disjoint, Whole
<1>7. ASSUME NEW id1 \in L \cup {id0}, NEW id2 \in L \cup {id0}, id1 # id2
      PROVE  Disjoint(Whole(b, s, by, id1), Whole(b, s, by, id2))
  <2>1. CASE id1 \in L /\ id2 \in L
    BY <1>3, <1>7, <2>1 DEF Accounted
  <2>2. CASE id1 = id0 \/ id2 = id0
    BY <1>6, <1>7, <2>2
  <2> QED
    BY <2>1, <2>2
<1>8. Accounted(L \cup {id0}, L \cup {id0}, {}, b, s, w, by, H \cup {h0})
  BY <1>5, <1>7 DEF Accounted
<1> QED
  BY <1>8 DEF b

\* No range but its own is under the pointer of a region, because what stays
\* of another begins inside that other's range.
LEMMA OneLess ==
  ASSUME NEW a, NEW s, NEW w \in Nat \ {0}, NEW by, NEW H,
         NEW A, NEW L \in SUBSET A, NEW G \in SUBSET (A \ L),
         \A id \in A : a[id] \in Nat /\ s[id] \in Nat /\ w <= s[id],
         \A id \in G : w < s[id],
         Accounted(A, L, G, a, s, w, by, H),
         NEW id0 \in L
  PROVE  /\ \A h \in H :
              h.base = a[id0] /\ h.by = by <=> h = Whole(a, s, by, id0)
         /\ Whole(a, s, by, id0) \in H
         /\ Accounted(A, L \ {id0}, G, a, s, w, by,
                      H \ {Whole(a, s, by, id0)})
<1> DEFINE h0 == Whole(a, s, by, id0)
<1>1. ASSUME NEW id \in L, id # id0
      PROVE  Whole(a, s, by, id).base # a[id0]
  <2>1. Disjoint(Whole(a, s, by, id), Whole(a, s, by, id0))
    BY <1>1 DEF Accounted
  <2> QED
    BY <2>1 DEF Disjoint, Whole
<1>2. ASSUME NEW id \in G
      PROVE  Rest(a, s, w, by, id).base # a[id0]
  <2>1. Disjoint(Whole(a, s, by, id), Whole(a, s, by, id0))
    BY DEF Accounted
  <2>2. /\ a[id] \in Nat /\ s[id] \in Nat /\ w < s[id]
        /\ a[id0] \in Nat /\ s[id0] \in Nat /\ w <= s[id0]
    OBVIOUS
  <2> QED
    BY <2>1, <2>2 DEF Disjoint, Whole, Rest
<1>3. h0 \in H /\ h0.base = a[id0] /\ h0.by = by
  BY DEF Accounted, Whole
<1>4. ASSUME NEW h \in H, h.base = a[id0]
      PROVE  h = h0
  <2>1. CASE \E id \in L : h = Whole(a, s, by, id)
    BY <1>1, <1>4, <2>1
  <2>2. CASE \E id \in G : h = Rest(a, s, w, by, id)
    BY <1>2, <1>4, <2>2
  <2> QED
    BY <2>1, <2>2 DEF Accounted
<1>5. H \ {h0} = {Whole(a, s, by, id) : id \in L \ {id0}}
                 \cup {Rest(a, s, w, by, id) : id \in G}
  <2>1. \A id \in L \ {id0} : Whole(a, s, by, id) # h0
    BY <1>1, <1>3
  <2>2. \A id \in G : Rest(a, s, w, by, id) # h0
    BY <1>2, <1>3
  <2> HIDE DEF h0
  <2>3. H = {Whole(a, s, by, id) : id \in L}
              \cup {Rest(a, s, w, by, id) : id \in G}
    BY DEF Accounted
  <2> QED
    BY <2>1, <2>2, <2>3 DEF h0
<1>6. Accounted(A, L \ {id0}, G, a, s, w, by, H \ {h0})
  BY <1>5 DEF Accounted
<1> QED
  BY <1>3, <1>4, <1>6

\* How much larger a range is than its region.
LEMMA SizesAreRight ==
  ASSUME TypeInv
  PROVE  /\ RegionSize \in Nat \ {0}
         /\ Sizes \in [RegionIds -> Nat]
         /\ \A id \in RegionIds :
              /\ RegionSize <= Sizes[id]
              /\ Matching /\ FreesByLength => Sizes[id] - RegionSize <= PageSize
<1>1. /\ PageSize \in Nat \ {0} /\ LargePageSize \in Nat \ {0}
      /\ config.workers \in Nat \ {0} /\ config.wsSize \in Nat \ {0}
      /\ config.phys \in Seq(Nat)
      /\ build \in AllBuilds
  BY WorkingSetsAssumption DEF TypeInv, ConfigOK
<1>2. WorkingSetSize \in Nat \ {0}
  BY <1>1 DEF WorkingSetSize
<1>3. CASE config.physical
  <2>1. ASSUME NEW id \in RegionIds
        PROVE  config.phys[id + 1] % PageSize \in 0..(PageSize - 1)
    <3>1. id + 1 \in DOMAIN config.phys
      BY <1>1, <1>3 DEF RegionIds, NumRegions
    <3>2. config.phys[id + 1] \in Nat
      BY <1>1, <3>1
    <3> QED
      BY <1>1, <3>2
  <2> QED
    BY <1>1, <1>3, <2>1 DEF RegionSize, Sizes
<1>4. CASE ~config.physical
  <2>1. WorkingSetSize % LargePageSize \in Nat
    BY <1>1, <1>2
  <2>2. AllocationSize \in Nat /\ WorkingSetSize <= AllocationSize
    BY <1>1, <1>2, <2>1 DEF AllocationSize, LargeAllocationSize
  <2>3. Matching /\ FreesByLength => ~config.largePages
    BY <1>1, <1>4 DEF FreesByLength, Deallocator, Allocator, Matching, AllBuilds
  <2>4. ~config.largePages => AllocationSize = WorkingSetSize + PageSize
    BY DEF AllocationSize
  <2> QED
    BY <1>1, <1>2, <1>4, <2>2, <2>3, <2>4 DEF RegionSize, Sizes
<1> QED
  BY <1>3, <1>4

\* Different regions of different nodes have different places.
LEMMA DifferentPlaces ==
  ASSUME NEW R \in Nat \ {0}, NEW n1 \in Nat, NEW n2 \in Nat,
         NEW m1 \in 0..(R - 1), NEW m2 \in 0..(R - 1),
         n1 * R + m1 = n2 * R + m2
  PROVE  n1 = n2 /\ m1 = m2
<1>1. ASSUME NEW x \in Nat, NEW y \in Nat, x > y
      PROVE  x * R >= y * R + R
  <2>1. x - y - 1 \in Nat
    BY <1>1
  <2>2. (x - y - 1) * R \in Nat /\ (x - y - 1) * R = x * R - y * R - R
    BY <2>1, Z3
  <2>3. x * R \in Nat /\ y * R \in Nat
    OBVIOUS
  <2> QED
    BY <2>2, <2>3
<1>2. n1 * R \in Nat /\ n2 * R \in Nat
  OBVIOUS
<1>3. ~(n1 > n2)
  <2> SUFFICES ASSUME n1 > n2 PROVE FALSE
    OBVIOUS
  <2>1. n1 * R >= n2 * R + R
    BY <1>1
  <2> QED
    BY <1>2, <2>1
<1>4. ~(n2 > n1)
  <2> SUFFICES ASSUME n2 > n1 PROVE FALSE
    OBVIOUS
  <2>1. n2 * R >= n1 * R + R
    BY <1>1
  <2> QED
    BY <1>2, <2>1
<1>5. n1 = n2
  BY <1>3, <1>4
<1> QED
  BY <1>2, <1>5


-----------------------------------------------------------------------------
(* The steps.                                                              *)

LEMMA NothingAllocated ==
  ASSUME ConfigOK, WSInit
  PROVE  FreeInv
<1>1. /\ setup = "allocate" /\ heap = {} /\ ~badFree /\ k = 1 /\ r = 0
      /\ array = [id \in RegionIds |-> Null]
  BY DEF WSInit
<1>2. Live = {} /\ Behind = {} /\ Allocated = {}
  BY <1>1 DEF Live, Behind, Allocated
<1>3. ASSUME ~config.physical,
             NEW j \in DOMAIN config.memNodes, NEW m \in 0..(config.regions - 1)
      PROVE  config.memNodes[j] * config.regions + m \in RegionIds
  <2>1. config.memNodes[j] \in 0..(NumNodes - 1)
    <3>1. config.memNodes[j] \in Nodes
      BY DEF ConfigOK
    <3> QED
      BY <3>1 DEF Nodes
  <2>2. config.regions \in Nat \ {0} /\ NumNodes \in Nat \ {0}
    BY <1>3, WorkingSetsAssumption DEF ConfigOK
  <2> DEFINE n == config.memNodes[j]
             R == config.regions
  <2> HIDE DEF n, R
  <2>3. n * R + m \in 0..(NumNodes * R - 1)
    BY <2>1, <2>2, RegionPlaces DEF n, R
  <2> QED
    BY <1>3, <2>3 DEF n, R, RegionIds, NumRegions
<1> QED
  BY <1>1, <1>2, <1>3 DEF FreeInv, PlacesAhead, Accounted

\* The next region of the loops is at another place than those before.
LEMMA PlacesStayAhead ==
  ASSUME WSInv, setup = "allocate", ~config.physical, PlacesAhead,
         NextRegion, config' = config,
         NEW v, array' = [array EXCEPT ![RegionId] = v]
  PROVE  PlacesAhead'
<1> DEFINE R == config.regions
           Place(j, m) == config.memNodes[j] * R + m
<1>1. /\ k \in DOMAIN config.memNodes /\ r \in 0..(R - 1)
      /\ R \in Nat \ {0}
      /\ config.memNodes \in Seq(Nodes)
      /\ DOMAIN config.memNodes = 1..Len(config.memNodes)
      /\ Len(config.memNodes) \in Nat
      /\ \A j \in DOMAIN config.memNodes : config.memNodes[j] \in Nodes
      /\ \A h, j \in DOMAIN config.memNodes :
           h # j => config.memNodes[h] # config.memNodes[j]
      /\ array \in [RegionIds -> Nat \cup {Null}]
  BY DEF WSInv, TypeInv, InLoops, ConfigOK
<1> SUFFICES ASSUME setup' = "allocate",
                    NEW j \in DOMAIN config.memNodes, NEW m \in 0..(R - 1),
                    j > k' \/ (j = k' /\ m >= r')
             PROVE  array'[Place(j, m)] = Null
  BY DEF PlacesAhead
<1>2. /\ j > k \/ (j = k /\ m > r)
  BY <1>1 DEF NextRegion
<1>3. array[Place(j, m)] = Null
  BY <1>1, <1>2 DEF PlacesAhead
<1>4. Place(j, m) # RegionId
  <2> SUFFICES ASSUME Place(j, m) = Place(k, r)
               PROVE  FALSE
    BY DEF RegionId
  <2>1. config.memNodes[j] = config.memNodes[k] /\ m = r
    <3> DEFINE n1 == config.memNodes[j]
               n2 == config.memNodes[k]
    <3>1. /\ n1 \in Nat /\ n2 \in Nat /\ n1 * R + m = n2 * R + r
          /\ R \in Nat \ {0} /\ m \in 0..(R - 1) /\ r \in 0..(R - 1)
      BY <1>1 DEF Nodes
    <3> HIDE DEF n1, n2, R
    <3>2. n1 = n2 /\ m = r
      BY <3>1, DifferentPlaces
    <3> QED
      BY <3>2 DEF n1, n2
  <2> QED
    BY <1>1, <1>2, <2>1
<1> QED
  BY <1>1, <1>3, <1>4

\* While regions are allocated each of them has its range.
LEMMA NoneGivenBack ==
  ASSUME setup \in {"allocate", "ready"}
  PROVE  Live = Allocated /\ Behind = {}
BY DEF Live, Behind

\* A region that is put into an empty place takes a range of its own.
LEMMA RegionIsAdded ==
  ASSUME WSInv, FreeInv, Matching, SlotsFit,
         setup = "allocate", setup' \in {"allocate", "ready"},
         UNCHANGED <<build, config>>,
         NEW id0 \in RegionIds, array[id0] = Null, NEW base \in Nat,
         array' = [array EXCEPT ![id0] = base],
         len' = [len EXCEPT ![id0] = RegionSize],
         \A h \in heap : Disjoint(h, [base |-> base, size |-> Sizes[id0]]),
         heap' = heap \cup
           {[base |-> base, size |-> Sizes[id0], by |-> Deallocator]}
  PROVE  /\ \A id \in Allocated' : len'[id] = RegionSize'
         /\ Accounted(Allocated', Live', Behind',
                      array', Sizes', RegionSize', Deallocator', heap')
<1>1. /\ RegionIds' = RegionIds
      /\ Sizes' = Sizes
      /\ RegionSize' = RegionSize
      /\ Deallocator' = Deallocator
  BY DEF RegionIds, NumRegions, Sizes, AllocationSize, LargeAllocationSize,
         RegionSize, WorkingSetSize, Deallocator, Allocator
<1>2. /\ array \in [RegionIds -> Nat \cup {Null}]
      /\ len \in [RegionIds -> Nat]
      /\ Sizes \in [RegionIds -> Nat]
  BY SizesAreRight DEF WSInv, TypeInv
<1>3. /\ \A id \in Allocated : len[id] = RegionSize
      /\ Accounted(Allocated, Allocated, {},
                   array, Sizes, RegionSize, Deallocator, heap)
  BY NoneGivenBack DEF FreeInv
<1>4. /\ Allocated \in SUBSET RegionIds
      /\ id0 \in RegionIds \ Allocated
      /\ Allocated' = Allocated \cup {id0}
  BY <1>1, <1>2 DEF Allocated, Null
<1>5. Live' = Allocated' /\ Behind' = {}
  BY DEF Live, Behind
<1>6. Accounted(Allocated \cup {id0}, Allocated \cup {id0}, {},
                [array EXCEPT ![id0] = base], Sizes, RegionSize, Deallocator,
                heap \cup
                  {[base |-> base, size |-> Sizes[id0], by |-> Deallocator]})
  BY <1>2, <1>3, <1>4, OneMore
<1>7. \A id \in Allocated' : len'[id] = RegionSize
  BY <1>2, <1>3, <1>4
<1> QED
  BY <1>1, <1>4, <1>5, <1>6, <1>7

LEMMA AllocateFrees ==
  ASSUME WSInv, FreeInv, AllocateRegion
  PROVE  FreeInv'
<1>1. /\ setup = "allocate" /\ ~config.physical
      /\ UNCHANGED <<build, config, badFree>>
  BY DEF AllocateRegion
<1> SUFFICES ASSUME Matching, SlotsFit, setup' # "exited"
             PROVE  /\ PlacesAhead'
                    /\ \A id \in Allocated' : len'[id] = RegionSize'
                    /\ Accounted(Allocated', Live', Behind', array', Sizes',
                                 RegionSize', Deallocator', heap')
  <2>1. (Matching' <=> Matching) /\ (SlotsFit' <=> SlotsFit)
    BY <1>1 DEF Matching, SlotsFit
  <2>2. setup' = "exited" => PlacesAhead'
    BY DEF PlacesAhead
  <2> QED
    BY <1>1, <2>1, <2>2 DEF FreeInv
<1> DEFINE n == config.memNodes[k]
           slot == IF config.largePages THEN n ELSE RegionId
<1>2. PICK base \in Bases :
        LET stored == [array EXCEPT ![slot] = base] IN
        /\ IsFree(base, AllocationSize)
        /\ heap' = heap \cup
             {[base |-> base, size |-> AllocationSize, by |-> Allocator]}
        /\ array' = [stored EXCEPT ![RegionId] = Aligned(@)]
        /\ len' = [len EXCEPT ![RegionId] = WorkingSetSize]
        /\ NextRegion
  BY DEF AllocateRegion
<1>3. /\ RegionId \in RegionIds
      /\ array \in [RegionIds -> Nat \cup {Null}]
  BY <1>1, CurrentRegion DEF WSInv, TypeInv
<1>4. slot = RegionId
  BY <1>1, CurrentRegion DEF SlotsFit, WSInv
<1>5. base \in Nat
  BY WorkingSetsAssumption
<1>6. Aligned(base) = base
  <2>1. base % Alignment = 0
    BY <1>1, <1>2 DEF IsFree, Alignment, Matching
  <2>2. Alignment \in Nat \ {0}
    BY WorkingSetsAssumption DEF Alignment
  <2> QED
    BY <1>5, <2>1, <2>2, RoundingUp DEF Aligned
<1>7. array' = [array EXCEPT ![RegionId] = base]
  BY <1>2, <1>3, <1>4, <1>6
<1>8. PlacesAhead
  BY <1>1 DEF FreeInv
<1>9. PlacesAhead'
  BY <1>1, <1>2, <1>7, <1>8, PlacesStayAhead
<1>10. array[RegionId] = Null
  <2>1. /\ k \in DOMAIN config.memNodes /\ r \in 0..(config.regions - 1)
        /\ k \in Nat
    BY <1>1 DEF WSInv, TypeInv, InLoops, ConfigOK
  <2> QED
    BY <1>1, <1>8, <2>1 DEF PlacesAhead, RegionId
<1>11. setup' \in {"allocate", "ready"}
  BY <1>1, <1>2 DEF NextRegion
<1>12. /\ Deallocator = Allocator
       /\ Sizes[RegionId] = AllocationSize
       /\ RegionSize = WorkingSetSize
  BY <1>1, <1>3 DEF Deallocator, Sizes, RegionSize
<1>13. \A h \in heap :
         Disjoint(h, [base |-> base, size |-> Sizes[RegionId]])
  BY <1>2, <1>12 DEF IsFree
<1> QED
  BY <1>1, <1>2, <1>3, <1>5, <1>7, <1>9, <1>10, <1>11, <1>12, <1>13,
     RegionIsAdded

LEMMA MapFrees ==
  ASSUME WSInv, FreeInv, MapRegion
  PROVE  FreeInv'
<1>1. /\ setup = "allocate" /\ config.physical /\ k <= Len(config.phys)
      /\ UNCHANGED <<build, config, setup, badFree>>
      /\ k' = k + 1
  BY DEF MapRegion
<1> SUFFICES ASSUME Matching, SlotsFit
             PROVE  /\ PlacesAhead'
                    /\ \A id \in Allocated' : len'[id] = RegionSize'
                    /\ Accounted(Allocated', Live', Behind', array', Sizes',
                                 RegionSize', Deallocator', heap')
  BY <1>1 DEF FreeInv, Matching, SlotsFit
<1> DEFINE size == (config.phys[k] % PageSize) + config.wsSize
           id0 == k - 1
<1>2. PICK base \in Bases :
        /\ IsFree(base, size)
        /\ heap' = heap \cup
             {[base |-> base, size |-> size, by |-> "mmap"]}
        /\ array' = [array EXCEPT ![id0] = base]
        /\ len' = [len EXCEPT ![id0] = config.wsSize]
  BY DEF MapRegion
<1>3. /\ k \in Nat /\ k >= 1 /\ config.phys \in Seq(Nat)
      /\ array \in [RegionIds -> Nat \cup {Null}]
  BY <1>1 DEF WSInv, TypeInv, ConfigOK, InLoops
<1>4. id0 \in RegionIds /\ id0 + 1 = k /\ RegionIds \subseteq Nat
  BY <1>1, <1>3 DEF RegionIds, NumRegions
<1>5. base \in Nat
  BY WorkingSetsAssumption
<1>6. PlacesAhead
  BY <1>1 DEF FreeInv
<1>7. RegionIds' = RegionIds
  BY <1>1 DEF RegionIds, NumRegions
<1>8. PlacesAhead'
  BY <1>1, <1>2, <1>3, <1>4, <1>6, <1>7 DEF PlacesAhead
<1>9. array[id0] = Null
  BY <1>1, <1>3, <1>4, <1>6 DEF PlacesAhead
<1>10. /\ Deallocator = "mmap"
       /\ Sizes[id0] = size
       /\ RegionSize = config.wsSize
  BY <1>1, <1>4 DEF Deallocator, Matching, Sizes, RegionSize
<1> HIDE DEF id0, size
<1>11. \A h \in heap : Disjoint(h, [base |-> base, size |-> Sizes[id0]])
  BY <1>2, <1>10 DEF IsFree
<1> QED
  BY <1>1, <1>2, <1>4, <1>5, <1>8, <1>9, <1>10, <1>11, RegionIsAdded

\* The destructor finds each range under the pointer of its region.
LEMMA ReleaseFrees ==
  ASSUME WSInv, FreeInv, ReleaseRegion
  PROVE  FreeInv'
<1>1. /\ setup = "release" /\ k < NumRegions /\ k' = k + 1
      /\ UNCHANGED <<build, config, setup, array, len>>
  BY DEF ReleaseRegion
<1>2. SlotsFit
  BY <1>1 DEF WSInv, Exits
<1> DEFINE Regions(A, L, G, H) ==
             Accounted(A, L, G, array, Sizes, RegionSize, Deallocator, H)
<1> SUFFICES ASSUME Matching
             PROVE  /\ ~badFree'
                    /\ \A id \in Allocated' : len'[id] = RegionSize'
                    /\ Accounted(Allocated', Live', Behind', array', Sizes',
                                 RegionSize', Deallocator', heap')
  BY <1>1 DEF FreeInv, Matching, PlacesAhead
<1>3. /\ ~badFree
      /\ \A id \in Allocated : len[id] = RegionSize
      /\ Regions(Allocated, Live, Behind, heap)
  BY <1>1, <1>2 DEF FreeInv
<1>4. k \in RegionIds /\ RegionIds \subseteq Int
  <2>1. k \in Nat /\ NumRegions \in Int
    BY RegionsAreCounted DEF WSInv, TypeInv
  <2> QED
    BY <1>1, <2>1 DEF RegionIds, NumRegions
<1>5. /\ RegionIds' = RegionIds
      /\ Allocated' = Allocated
      /\ Sizes' = Sizes
      /\ RegionSize' = RegionSize
      /\ Deallocator' = Deallocator
      /\ FreesByLength' = FreesByLength
  BY <1>1 DEF RegionIds, NumRegions, Allocated, Sizes, AllocationSize,
              LargeAllocationSize, RegionSize, WorkingSetSize, Deallocator,
              Allocator, FreesByLength
<1>6. Live = {id \in Allocated : id >= k}
  BY <1>1 DEF Live
<1>7. Live' = Live \ {k}
  <2>1. Live' = {id \in Allocated : id >= k + 1}
    BY <1>1, <1>5 DEF Live
  <2>2. \A id \in RegionIds : id >= k + 1 <=> id >= k /\ id # k
    BY <1>4
  <2> QED
    BY <1>6, <2>1, <2>2 DEF Allocated
<1>8. Behind' = {id \in Allocated \ Live' :
                   FreesByLength /\ RegionSize < Sizes[id]}
  BY <1>5 DEF Behind
<1>9. CASE array[k] = Null
  <2>1. heap' = heap /\ badFree' = badFree /\ k \notin Allocated
    BY <1>9 DEF ReleaseRegion, Allocated
  <2>2. Live' = Live
    BY <1>6, <1>7, <2>1
  <2>3. Behind' = Behind
    BY <1>8, <2>2 DEF Behind
  <2> QED
    BY <1>1, <1>3, <1>5, <2>1, <2>2, <2>3
<1>10. CASE array[k] # Null
  <2> DEFINE freed == {h \in heap : h.base = array[k] /\ h.by = Deallocator}
             g == Whole(array, Sizes, Deallocator, k)
  <2>1. PointerToFree(k) = array[k]
    BY DEF PointerToFree, Matching
  <2>2. /\ heap' = (heap \ freed) \cup UNION {LeftBehind(h, k) : h \in freed}
        /\ badFree' = (badFree \/ freed = {})
    BY <1>10, <2>1 DEF ReleaseRegion
  <2>3. k \in Live /\ k \in Allocated
    BY <1>4, <1>6, <1>10 DEF Allocated
  <2>4. /\ freed = {g}
        /\ Regions(Allocated, Live \ {k}, Behind, heap \ freed)
    <3>1. \A id \in Allocated : /\ array[id] \in Nat
                                /\ Sizes[id] \in Nat
                                /\ RegionSize <= Sizes[id]
      BY SizesAreRight DEF WSInv, TypeInv, Allocated
    <3>2. /\ RegionSize \in Nat \ {0}
          /\ Live \in SUBSET Allocated
          /\ Behind \in SUBSET (Allocated \ Live)
          /\ \A id \in Behind : RegionSize < Sizes[id]
      BY SizesAreRight DEF WSInv, Live, Behind, Allocated
    <3>3. /\ \A h \in heap : h.base = array[k] /\ h.by = Deallocator <=> h = g
          /\ g \in heap
          /\ Regions(Allocated, Live \ {k}, Behind, heap \ {g})
      BY <1>3, <2>3, <3>1, <3>2, OneLess
    <3> HIDE DEF g
    <3>4. freed = {g}
      BY <3>3
    <3> QED
      BY <3>3, <3>4
  <2>5. len[k] = RegionSize /\ g.base = array[k] /\ g.size = Sizes[k]
        /\ g.by = Deallocator
    BY <1>3, <2>3 DEF Whole
  <2> DEFINE rest == Rest(array, Sizes, RegionSize, Deallocator, k)
  <2> HIDE DEF freed, g
  <2>6. heap' = (heap \ freed) \cup LeftBehind(g, k) /\ ~badFree'
    BY <1>3, <2>2, <2>4
  <2>7. CASE FreesByLength /\ RegionSize < Sizes[k]
    <3>1. LeftBehind(g, k) = {rest}
      BY <2>5, <2>7 DEF LeftBehind, Rest
    <3>2. Behind' = Behind \cup {k}
      BY <1>7, <1>8, <2>3, <2>7 DEF Behind
    <3> HIDE DEF rest
    <3>3. Regions(Allocated, Live \ {k}, Behind \cup {k},
                  (heap \ freed) \cup {rest})
      BY <2>4 DEF Accounted, rest
    <3> QED
      BY <1>1, <1>3, <1>5, <1>7, <2>6, <3>1, <3>2, <3>3
  <2>8. CASE ~(FreesByLength /\ RegionSize < Sizes[k])
    <3>1. LeftBehind(g, k) = {}
      BY <2>5, <2>8 DEF LeftBehind
    <3>2. Behind' = Behind
      BY <1>7, <1>8, <2>3, <2>8 DEF Behind
    <3> QED
      BY <1>1, <1>3, <1>5, <1>7, <2>4, <2>6, <3>1, <3>2
  <2> QED
    BY <2>7, <2>8
<1> QED
  BY <1>9, <1>10

LEMMA FreeStep ==
  ASSUME WSInv, FreeInv, [WSNext]_wsVars
  PROVE  FreeInv'
<1> DEFINE Same == UNCHANGED <<build, config, array, len, heap, badFree>>
\* A step to another part of the program that leaves memory alone.
<1>1. ASSUME Same, setup' # "allocate", setup # "exited" \/ setup' = "exited",
             setup' # "exited" => Live' = Live
      PROVE  FreeInv'
  <2>1. /\ Matching' <=> Matching
        /\ SlotsFit' <=> SlotsFit
        /\ Deallocator' = Deallocator
        /\ FreesByLength' = FreesByLength
        /\ RegionSize' = RegionSize
        /\ Sizes' = Sizes
        /\ Allocated' = Allocated
    BY <1>1 DEF Matching, SlotsFit, Deallocator, Allocator, FreesByLength,
                RegionSize, Sizes, AllocationSize, LargeAllocationSize,
                WorkingSetSize, Allocated, RegionIds, NumRegions
  <2>2. setup' # "exited" => Behind' = Behind
    BY <1>1, <2>1 DEF Behind
  <2> QED
    BY <1>1, <2>1, <2>2 DEF FreeInv, PlacesAhead
<1>2. ASSUME UNCHANGED <<build, config, array>>
      PROVE  /\ RegionIds' = RegionIds
             /\ Allocated' = Allocated
  BY <1>2 DEF RegionIds, NumRegions, Allocated
<1>3. CASE UNCHANGED wsVars
  BY <1>3 DEF wsVars, FreeInv, Matching, SlotsFit, PlacesAhead, Live, Allocated,
              RegionIds, NumRegions, Deallocator, Allocator, Behind,
              FreesByLength, RegionSize, Sizes, AllocationSize,
              LargeAllocationSize, WorkingSetSize
<1>4. CASE AllocateRegion
  BY <1>4, AllocateFrees
<1>5. CASE MapRegion
  BY <1>5, MapFrees
<1>6. CASE AllMapped
  BY <1>1, <1>2, <1>6 DEF AllMapped, Live
<1>7. CASE AllocationFails
  BY <1>1, <1>7 DEF AllocationFails
<1>8. CASE StartRelease
  <2>1. RegionIds \subseteq Nat
    BY RegionsAreCounted DEF RegionIds, WSInv
  <2>2. setup = "ready" /\ setup' = "release" /\ k' = 0 /\ Same
    BY <1>8 DEF StartRelease
  <2>3. Live' = Live
    <3>1. \A id \in Allocated : id >= 0
      BY <2>1 DEF Allocated
    <3>2. Live' = {id \in Allocated : id >= 0}
      BY <1>2, <2>2 DEF Live
    <3>3. Live = Allocated
      BY <2>2 DEF Live
    <3> QED
      BY <3>1, <3>2, <3>3
  <2> QED
    BY <1>1, <2>2, <2>3
<1>9. CASE ReleaseRegion
  BY <1>9, ReleaseFrees
<1>10. CASE AllReleased
  <2>1. /\ setup = "release" /\ setup' = "released" /\ Same
        /\ k >= NumRegions
    BY <1>10 DEF AllReleased
  <2>2. Live = {}
    <3>1. k \in Nat
      BY DEF WSInv, TypeInv
    <3>2. NumRegions \in Int
      BY RegionsAreCounted DEF WSInv
    <3> QED
      BY <2>1, <3>1, <3>2 DEF Live, Allocated, RegionIds
  <2>3. Live' = {}
    BY <2>1 DEF Live
  <2> QED
    BY <1>1, <2>1, <2>2, <2>3
<1> QED
  BY <1>3, <1>4, <1>5, <1>6, <1>7, <1>8, <1>9, <1>10
     DEF WSNext, SetUpWorkingSets, Release, WSDone

\* What is left when the destructor is done lies behind the regions.
LEMMA WhatIsLeft ==
  ASSUME WSInv, FreeInv, Matching, setup = "released"
  PROVE  /\ \A h \in heap :
              /\ h.size <= PageSize
              /\ \A id \in Allocated : Disjoint(h, Region(id))
         /\ ~FreesByLength => heap = {}
<1>1. SlotsFit
  BY DEF WSInv, Exits
<1>2. Live = {}
  BY DEF Live
<1> DEFINE TheRest(id) == Rest(array, Sizes, RegionSize, Deallocator, id)
           TheWhole(id) == Whole(array, Sizes, Deallocator, id)
<1>3. /\ \A id \in Allocated : len[id] = RegionSize
      /\ heap = {TheRest(id) : id \in Behind}
      /\ \A id1, id2 \in Allocated :
           id1 # id2 => Disjoint(TheWhole(id1), TheWhole(id2))
  BY <1>1, <1>2 DEF FreeInv, Accounted
<1>4. /\ RegionSize \in Nat \ {0}
      /\ \A id \in Allocated :
           /\ array[id] \in Nat
           /\ Sizes[id] \in Nat
           /\ RegionSize <= Sizes[id]
           /\ FreesByLength => Sizes[id] - RegionSize <= PageSize
  BY SizesAreRight DEF WSInv, TypeInv, Allocated
<1>5. ASSUME NEW g \in Behind, NEW id \in Allocated
      PROVE  Disjoint(TheRest(g), Region(id))
  <2>1. g \in Allocated /\ RegionSize < Sizes[g]
    BY DEF Behind
  <2>2. CASE g = id
    BY <1>3, <1>4, <2>1, <2>2 DEF Disjoint, Rest, Region
  <2>3. CASE g # id
    <3>1. Disjoint(TheWhole(g), TheWhole(id))
      BY <1>3, <2>1, <2>3
    <3> QED
      BY <1>3, <1>4, <2>1, <3>1 DEF Disjoint, Whole, Rest, Region
  <2> QED
    BY <2>2, <2>3
<1>6. ASSUME NEW g \in Behind
      PROVE  TheRest(g).size <= PageSize
  BY <1>4 DEF Behind, Rest
<1>7. ~FreesByLength => Behind = {}
  BY DEF Behind
<1> QED
  BY <1>3, <1>5, <1>6, <1>7

\* In the builds that allocate with NUMA functions, the destructor gives back
\* every region once, and nothing else: "Free memory arrays" of
\* ~BenchmarkManager().  Where it says how much to free, no more than a page
\* behind a region stays; otherwise nothing.
THEOREM AllIsGivenBack == WSSpec => []NumaBuildsFreeRegions
<1>1. ConfigOK /\ WSInit => FreeInv
  BY NothingAllocated
<1>2. WSInv /\ FreeInv /\ [WSNext]_wsVars => FreeInv'
  BY FreeStep
<1>3. WSInv /\ FreeInv => NumaBuildsFreeRegions
  BY WhatIsLeft DEF FreeInv, NumaBuildsFreeRegions, Matching
<1> QED
  BY <1>1, <1>2, <1>3, RegionsInvariance, PTL DEF WSSpec

-----------------------------------------------------------------------------
(* Where the regions lie.                                                  *)

\* A region of virtual memory that has been allocated lies on the node that
\* its number belongs to, and is as large as all working sets; one at a
\* physical address is as large as one.
OnItsNode ==
  /\ DOMAIN node = RegionIds
  /\ ~config.physical /\ SlotsFit /\ setup # "exited" =>
       \A id \in Allocated : /\ node[id] = id \div config.regions
                             /\ len[id] = WorkingSetSize
  /\ config.physical => \A id \in Allocated : len[id] = config.wsSize

\* The number of a region tells its node.
LEMMA NodeOfRegion ==
  ASSUME NEW R \in Nat \ {0}, NEW n \in Nat, NEW m \in 0..(R - 1)
  PROVE  (n * R + m) \div R = n /\ (n * R + m) % R = m
<1> DEFINE x == n * R + m
           q == x \div R
<1>1. n * R \in Nat /\ n * R = R * n /\ x \in Nat
  OBVIOUS
<1>2. (R * n + m) % R = m
  BY Remainder
<1>3. x % R = m
  BY <1>1, <1>2
<1>4. q \in Int /\ x = R * q + (x % R)
  <2>1. \A b \in Nat : b \div R \in Int /\ b = R * (b \div R) + (b % R)
    BY Z3
  <2> HIDE DEF x
  <2> QED
    BY <1>1, <2>1
<1>5. R * q = R * n
  <2>1. x = R * n + m
    BY <1>1
  <2>2. R * q \in Int /\ R * n \in Int
    BY <1>1, <1>4
  <2> HIDE DEF x, q
  <2> QED
    BY <1>3, <1>4, <2>1, <2>2
<1>6. q = n
  <2> HIDE DEF q
  <2>1. R * (q - n) = 0
    BY <1>1, <1>4, <1>5, Z3
  <2>2. q - n = 0
    BY <1>4, <2>1, Z3
  <2> QED
    BY <1>4, <2>2
<1> QED
  BY <1>3, <1>6

LEMMA AllocateOnNode ==
  ASSUME WSInv, OnItsNode, AllocateRegion
  PROVE  OnItsNode'
<1>1. /\ setup = "allocate" /\ ~config.physical /\ config' = config
      /\ node' = [node EXCEPT ![RegionId] = config.memNodes[k]]
  BY DEF AllocateRegion
<1>2. /\ RegionIds' = RegionIds /\ WorkingSetSize' = WorkingSetSize
      /\ (SlotsFit' <=> SlotsFit)
  BY <1>1 DEF RegionIds, NumRegions, WorkingSetSize, SlotsFit
<1> DEFINE n == config.memNodes[k]
<1>3. /\ RegionId \in RegionIds
      /\ config.regions = 1 => RegionId = n
  BY <1>1, CurrentRegion DEF WSInv
<1>4. DOMAIN node' = RegionIds'
  BY <1>1, <1>2 DEF OnItsNode
<1>5. ASSUME SlotsFit, setup' # "exited", NEW id \in RegionIds,
             array'[id] # Null
      PROVE  node'[id] = id \div config.regions /\ len'[id] = WorkingSetSize
  <2> DEFINE slot == IF config.largePages THEN n ELSE RegionId
  <2>1. slot = RegionId
    BY <1>1, <1>3, <1>5 DEF SlotsFit
  <2>2. PICK base \in Bases :
          /\ array' = [[array EXCEPT ![slot] = base]
                         EXCEPT ![RegionId] = Aligned(@)]
          /\ len' = [len EXCEPT ![RegionId] = WorkingSetSize]
    BY <1>5 DEF AllocateRegion
  <2>3. /\ array \in [RegionIds -> Nat \cup {Null}]
        /\ len \in [RegionIds -> Nat]
    BY DEF WSInv, TypeInv
  <2>4. CASE id = RegionId
    <3>1. len'[id] = WorkingSetSize /\ node'[id] = n
      BY <1>1, <1>3, <2>2, <2>3, <2>4 DEF OnItsNode
    <3>2. /\ config.regions \in Nat \ {0} /\ r \in 0..(config.regions - 1)
          /\ config.memNodes \in Seq(Nodes) /\ k \in DOMAIN config.memNodes
      BY <1>1 DEF WSInv, TypeInv, InLoops, ConfigOK
    <3>3. n \in Nat
      <4>1. n \in Nodes
        BY <3>2
      <4> QED
        BY <4>1, WorkingSetsAssumption DEF Nodes
    <3>4. RegionId = n * config.regions + r
      BY DEF RegionId
    <3> HIDE DEF n
    <3>5. RegionId \div config.regions = n
      BY <3>2, <3>3, <3>4, NodeOfRegion
    <3> QED
      BY <2>4, <3>1, <3>5
  <2>5. CASE id # RegionId
    <3>1. array'[id] = array[id] /\ len'[id] = len[id] /\ node'[id] = node[id]
      BY <1>1, <2>1, <2>2, <2>3, <2>5 DEF OnItsNode
    <3> QED
      BY <1>1, <1>5, <3>1 DEF OnItsNode, Allocated
  <2> QED
    BY <2>4, <2>5
<1> QED
  BY <1>1, <1>2, <1>4, <1>5 DEF OnItsNode, Allocated

\* What the program notes of a region of virtual memory it has allocated, its
\* node and its length, is what the number of the region says.
THEOREM RegionsOfNodes == WSSpec => []OnItsNode
<1>1. ConfigOK /\ WSInit => OnItsNode
  BY DEF WSInit, OnItsNode, Allocated
<1>2. ASSUME WSInv, OnItsNode, [WSNext]_wsVars
      PROVE  OnItsNode'
  <2>1. ASSUME UNCHANGED <<config, array, len, node>>,
               setup' # "exited" => setup # "exited"
        PROVE  OnItsNode'
    BY <1>2, <2>1 DEF OnItsNode, Allocated, RegionIds, NumRegions,
                      WorkingSetSize, SlotsFit
  <2>2. CASE MapRegion
    <3>1. /\ config.physical /\ config' = config
          /\ \E n \in Nodes \cup {NoNode} : node' = [node EXCEPT ![k - 1] = n]
          /\ \E base \in Bases : array' = [array EXCEPT ![k - 1] = base]
          /\ len' = [len EXCEPT ![k - 1] = config.wsSize]
      BY <2>2 DEF MapRegion
    <3>2. RegionIds' = RegionIds
      BY <3>1 DEF RegionIds, NumRegions
    <3>3. /\ array \in [RegionIds -> Nat \cup {Null}]
          /\ len \in [RegionIds -> Nat]
      BY <1>2 DEF WSInv, TypeInv
    <3>4. ASSUME NEW id \in RegionIds, array'[id] # Null
          PROVE  len'[id] = config.wsSize
      BY <1>2, <3>1, <3>3, <3>4 DEF OnItsNode, Allocated
    <3>5. DOMAIN node' = RegionIds'
      BY <1>2, <3>1, <3>2 DEF OnItsNode
    <3> QED
      BY <3>1, <3>2, <3>4, <3>5 DEF OnItsNode, Allocated
  <2>3. CASE AllocateRegion
    BY <1>2, <2>3, AllocateOnNode
  <2>4. CASE AllMapped \/ AllocationFails \/ StartRelease \/ ReleaseRegion
               \/ AllReleased \/ UNCHANGED wsVars
    BY <2>1, <2>4 DEF AllMapped, AllocationFails, StartRelease, ReleaseRegion,
                      AllReleased, wsVars
  <2> QED
    BY <1>2, <2>2, <2>3, <2>4
       DEF WSNext, SetUpWorkingSets, Release, WSDone
<1> QED
  BY <1>1, <1>2, RegionsInvariance, PTL DEF WSSpec


\* The regions of virtual memory that the loops have passed when they are at
\* region q of the node p, and those of all selected nodes, have memory.
HasMemoryBefore(p, q) ==
  \A j \in DOMAIN config.memNodes, m \in 0..(config.regions - 1) :
    j < p \/ (j = p /\ m < q) =>
      array[config.memNodes[j] * config.regions + m] # Null

HasMemory ==
  \A j \in DOMAIN config.memNodes, m \in 0..(config.regions - 1) :
    array[config.memNodes[j] * config.regions + m] # Null

\* What the loops have passed has been allocated.
AllocatedSoFar ==
  SlotsFit =>
    /\ setup = "allocate" =>
         IF config.physical
         THEN \A id \in RegionIds : id < k - 1 => array[id] # Null
         ELSE HasMemoryBefore(k, r)
    /\ setup = "ready" =>
         IF config.physical
         THEN \A id \in RegionIds : array[id] # Null
         ELSE HasMemory

LEMMA AllocateInTurn ==
  ASSUME WSInv, AllocatedSoFar, AllocateRegion
  PROVE  AllocatedSoFar'
<1>1. /\ setup = "allocate" /\ ~config.physical /\ config' = config
  BY DEF AllocateRegion
<1> SUFFICES ASSUME SlotsFit, setup' # "exited"
             PROVE  AllocatedSoFar'
  BY <1>1 DEF AllocatedSoFar, SlotsFit
<1> DEFINE n == config.memNodes[k]
           R == config.regions
           slot == IF config.largePages THEN n ELSE RegionId
           Place(j, m) == config.memNodes[j] * R + m
<1>2. PICK base \in Bases :
        /\ array' = [[array EXCEPT ![slot] = base]
                       EXCEPT ![RegionId] = Aligned(@)]
        /\ IsFree(base, AllocationSize)
        /\ NextRegion
  BY DEF AllocateRegion
<1>3. /\ RegionId \in RegionIds
      /\ slot = RegionId
      /\ array \in [RegionIds -> Nat \cup {Null}]
  BY <1>1, CurrentRegion DEF WSInv, TypeInv, SlotsFit
<1>4. Aligned(base) \in Nat
  <2>1. base \in Nat /\ (config.largePages => base % LargePageSize = 0)
    BY <1>2, WorkingSetsAssumption DEF IsFree
  <2> QED
    BY <1>1, <2>1, Room DEF WSInv
<1>5. array' = [array EXCEPT ![RegionId] = Aligned(base)]
  BY <1>2, <1>3
<1>6. ASSUME NEW id, array[id] # Null \/ id = RegionId
      PROVE  array'[id] # Null
  BY <1>3, <1>4, <1>5, <1>6 DEF Null
<1>7. /\ k \in 1..Len(config.memNodes) /\ r \in 0..(R - 1)
      /\ R \in Nat \ {0}
      /\ DOMAIN config.memNodes = 1..Len(config.memNodes)
      /\ Len(config.memNodes) \in Nat
  BY <1>1 DEF WSInv, TypeInv, InLoops, ConfigOK
<1>8. HasMemoryBefore(k, r)
  BY <1>1 DEF AllocatedSoFar
\* After this step also the place the loops are at.
<1>9. ASSUME NEW j \in DOMAIN config.memNodes, NEW m \in 0..(R - 1),
             j < k \/ (j = k /\ m <= r)
      PROVE  array'[Place(j, m)] # Null
  <2>1. CASE j = k /\ m = r
    BY <1>6, <2>1 DEF RegionId
  <2>2. CASE j < k \/ (j = k /\ m < r)
    BY <1>6, <1>8, <2>2 DEF HasMemoryBefore
  <2> QED
    BY <1>7, <1>9, <2>1, <2>2
<1>10. ASSUME setup' = "allocate",
              NEW j \in DOMAIN config.memNodes, NEW m \in 0..(R - 1),
              j < k' \/ (j = k' /\ m < r')
       PROVE  array'[Place(j, m)] # Null
  <2>1. j < k \/ (j = k /\ m <= r)
    BY <1>1, <1>2, <1>7, <1>10 DEF NextRegion
  <2> QED
    BY <1>9, <2>1
<1>11. ASSUME setup' = "ready",
              NEW j \in DOMAIN config.memNodes, NEW m \in 0..(R - 1)
       PROVE  array'[Place(j, m)] # Null
  <2>1. j < k \/ (j = k /\ m <= r)
    BY <1>1, <1>2, <1>7, <1>11 DEF NextRegion
  <2> QED
    BY <1>9, <2>1
<1> QED
  BY <1>1, <1>10, <1>11 DEF AllocatedSoFar, HasMemoryBefore, HasMemory

LEMMA MapInTurn ==
  ASSUME WSInv, AllocatedSoFar, MapRegion
  PROVE  AllocatedSoFar'
<1>1. /\ setup = "allocate" /\ config.physical /\ config' = config
      /\ setup' = setup /\ k' = k + 1 /\ k <= Len(config.phys)
  BY DEF MapRegion
<1>2. PICK base \in Bases : array' = [array EXCEPT ![k - 1] = base]
  BY DEF MapRegion
<1>3. /\ array \in [RegionIds -> Nat \cup {Null}] /\ base \in Nat
      /\ RegionIds \subseteq Int /\ k \in Nat
      /\ \A id \in RegionIds : id < k - 1 => array[id] # Null
  BY <1>1, WorkingSetsAssumption, RegionsAreCounted
     DEF WSInv, TypeInv, RegionIds, AllocatedSoFar, SlotsFit
<1>4. RegionIds' = RegionIds
  BY <1>1 DEF RegionIds, NumRegions
<1>5. ASSUME NEW id \in RegionIds, id < k
      PROVE  array'[id] # Null
  <2>1. id = k - 1 \/ id < k - 1
    BY <1>3, <1>5
  <2> QED
    BY <1>2, <1>3, <2>1 DEF Null
<1> QED
  BY <1>1, <1>3, <1>4, <1>5 DEF AllocatedSoFar

\* When the working sets are ready there is memory for every region of every
\* selected node, and for every physical address.
THEOREM SelectedNodesHaveMemory == WSSpec => []AllocatedSoFar
<1>1. ASSUME ConfigOK, WSInit
      PROVE  AllocatedSoFar
  <2>1. /\ setup = "allocate" /\ k = 1 /\ r = 0
        /\ config.memNodes \in Seq(Nodes)
    BY <1>1 DEF WSInit, ConfigOK
  <2>2. HasMemoryBefore(k, r)
    BY <2>1 DEF HasMemoryBefore
  <2>3. config.physical => RegionIds \subseteq Nat
    BY <1>1 DEF RegionIds, NumRegions, ConfigOK
  <2> QED
    BY <2>1, <2>2, <2>3 DEF AllocatedSoFar
<1>2. ASSUME WSInv, AllocatedSoFar, [WSNext]_wsVars
      PROVE  AllocatedSoFar'
  <2>1. CASE AllocateRegion
    BY <1>2, <2>1, AllocateInTurn
  <2>2. CASE MapRegion
    BY <1>2, <2>2, MapInTurn
  <2>3. CASE AllMapped
    <3>1. /\ setup = "allocate" /\ config.physical /\ k > Len(config.phys)
          /\ UNCHANGED <<config, array>> /\ setup' = "ready"
      BY <2>3 DEF AllMapped
    <3>2. \A id \in RegionIds : id < k - 1
      BY <1>2, <3>1 DEF RegionIds, NumRegions, WSInv, TypeInv, ConfigOK
    <3> QED
      BY <1>2, <3>1, <3>2 DEF AllocatedSoFar, RegionIds, NumRegions, SlotsFit
  <2>4. CASE AllocationFails \/ StartRelease \/ ReleaseRegion \/ AllReleased
    BY <2>4 DEF AllocationFails, StartRelease, ReleaseRegion, AllReleased,
                AllocatedSoFar
  <2>5. CASE UNCHANGED wsVars
    BY <1>2, <2>5 DEF wsVars, AllocatedSoFar, RegionIds, NumRegions, SlotsFit,
                      HasMemoryBefore, HasMemory
  <2> QED
    BY <1>2, <2>1, <2>2, <2>3, <2>4, <2>5
       DEF WSNext, SetUpWorkingSets, Release, WSDone
<1> QED
  BY <1>1, <1>2, RegionsInvariance, PTL DEF WSSpec

-----------------------------------------------------------------------------
(* Sets as lists.                                                          *)

Rank(S, x) == Cardinality({y \in S : y < x})

\* There are fewer smaller members than members, and more of them below a
\* larger one.
LEMMA Ranks ==
  ASSUME NEW S, S \subseteq Int, IsFiniteSet(S)
  PROVE  /\ Cardinality(S) \in Nat
         /\ \A x \in S : Rank(S, x) \in 0..Cardinality(S)-1
         /\ \A x, y \in S : x < y => Rank(S, x) < Rank(S, y)
<1>1. Cardinality(S) \in Nat
  BY FS_CardinalityType
<1>2. ASSUME NEW x \in S
      PROVE  /\ IsFiniteSet({y \in S : y < x})
             /\ Rank(S, x) \in 0..Cardinality(S)-1
  <2> DEFINE B == {y \in S : y < x}
  <2>1. B \in SUBSET S /\ x \notin B
    OBVIOUS
  <2>2. IsFiniteSet(B) /\ Cardinality(B) <= Cardinality(S)
    BY <2>1, FS_Subset
  <2>3. Cardinality(B) # Cardinality(S)
    BY <2>1, FS_Subset
  <2>4. Cardinality(B) \in Nat
    BY <2>2, FS_CardinalityType
  <2> QED
    BY <1>1, <2>2, <2>3, <2>4 DEF Rank
<1>3. ASSUME NEW x \in S, NEW y \in S, x < y
      PROVE  Rank(S, x) < Rank(S, y)
  <2> DEFINE B == {z \in S : z < x}
             E == {z \in S : z < y}
  <2>1. IsFiniteSet(B) /\ IsFiniteSet(E)
    BY <1>2
  <2>2. B \cup {x} \in SUBSET E /\ x \notin B
    <3>1. x \in Int /\ y \in Int /\ \A z \in S : z \in Int
      OBVIOUS
    <3>2. \A z \in S : z < x => z < y
      BY <1>3, <3>1
    <3>3. x \in E /\ B \subseteq E
      BY <1>3, <3>2
    <3>4. ~(x < x)
      BY <3>1
    <3> QED
      BY <3>3, <3>4
  <2>3. Cardinality(B \cup {x}) = Cardinality(B) + 1
    <3> HIDE DEF B
    <3> QED
      BY <2>1, <2>2, FS_AddElement
  <2>4. Cardinality(B \cup {x}) <= Cardinality(E)
    <3> HIDE DEF B, E
    <3> QED
      BY <2>1, <2>2, FS_Subset
  <2>5. Cardinality(B) \in Nat /\ Cardinality(E) \in Nat
    BY <2>1, FS_CardinalityType
  <2> QED
    BY <2>3, <2>4, <2>5 DEF Rank
<1> QED
  BY <1>1, <1>2, <1>3

\* Every rank there can be is that of one member.
LEMMA RankIsOnto ==
  ASSUME NEW S, S \subseteq Int, IsFiniteSet(S), NEW m \in 0..Cardinality(S)-1
  PROVE  \E x \in S : Rank(S, x) = m
<1> DEFINE T == 0..Cardinality(S)-1
           f == [x \in S |-> Rank(S, x)]
<1>1. /\ Cardinality(S) \in Nat
      /\ \A x \in S : Rank(S, x) \in T
      /\ \A x, y \in S : x < y => Rank(S, x) < Rank(S, y)
  BY Ranks
<1>2. ASSUME NEW x \in S, NEW y \in S, Rank(S, x) = Rank(S, y), x # y
      PROVE  FALSE
  <2>1. x < y \/ y < x
    BY <1>2
  <2>2. Rank(S, x) \in Int /\ Rank(S, y) \in Int
    BY <1>1
  <2> QED
    BY <1>1, <1>2, <2>1, <2>2
<1>3. f \in Injection(S, T)
  BY <1>1, <1>2 DEF Injection, IsInjective
<1>4. IsFiniteSet(T) /\ Cardinality(T) = Cardinality(S)
  BY <1>1, FS_Interval
<1>5. f \in Surjection(S, T)
  <2> HIDE DEF f, T
  <2> QED
    BY <1>3, <1>4, FS_Injection
<1> QED
  BY <1>5 DEF Surjection

\* The list s has each member of S once.
Lists(s, S) ==
  /\ s \in [1..Len(s) -> S]
  /\ Len(s) \in Nat
  /\ \A m, n \in 1..Len(s) : m # n => s[m] # s[n]
  /\ \A x \in S : \E n \in 1..Len(s) : s[n] = x

\* Sorting loses nothing.
LEMMA AscendingLists ==
  ASSUME NEW S, S \subseteq Int, IsFiniteSet(S)
  PROVE  Lists(Ascending(S), S) /\ Len(Ascending(S)) = Cardinality(S)
<1> DEFINE N == Cardinality(S)
           s == Ascending(S)
<1>1. /\ N \in Nat
      /\ \A x \in S : Rank(S, x) \in 0..N-1
  BY Ranks
<1>2. s = [n \in 1..N |-> CHOOSE x \in S : Rank(S, x) = n - 1]
  BY DEF Ascending, Rank
<1>3. ASSUME NEW n \in 1..N
      PROVE  s[n] \in S /\ Rank(S, s[n]) = n - 1
  <2>1. n - 1 \in 0..N-1
    BY <1>1
  <2>2. \E x \in S : Rank(S, x) = n - 1
    BY <2>1, RankIsOnto
  <2>3. s[n] = CHOOSE x \in S : Rank(S, x) = n - 1
    BY <1>2
  <2> HIDE DEF s
  <2> QED
    BY <2>2, <2>3
<1> HIDE DEF s
<1>4. s \in Seq(S) /\ s \in [1..N -> S] /\ Len(s) = N
  <2>1. s \in [1..N -> S]
    BY <1>2, <1>3
  <2> QED
    BY <1>1, <2>1
<1>5. \A m, n \in 1..N : m # n => s[m] # s[n]
  <2> SUFFICES ASSUME NEW m \in 1..N, NEW n \in 1..N, s[m] = s[n]
               PROVE  m = n
    OBVIOUS
  <2>1. m - 1 = n - 1
    BY <1>3
  <2> QED
    BY <1>1, <2>1
<1>6. ASSUME NEW x \in S
      PROVE  \E n \in 1..N : s[n] = x
  <2> DEFINE n == Rank(S, x) + 1
  <2>1. n \in 1..N /\ n - 1 = Rank(S, x)
    BY <1>1
  <2>2. s[n] \in S /\ Rank(S, s[n]) = Rank(S, x)
    BY <1>3, <2>1
  <2>3. s[n] = x
    <3> HIDE DEF n
    <3>1. s[n] \in Int /\ x \in Int
      BY <2>2
    <3>2. \A y, z \in S : y < z => Rank(S, y) < Rank(S, z)
      BY Ranks
    <3>3. Rank(S, x) \in Int
      BY <1>1
    <3> QED
      BY <2>2, <3>1, <3>2, <3>3
  <2> QED
    BY <2>1, <2>3
<1> QED
  BY <1>1, <1>4, <1>5, <1>6 DEF Lists, s

\* Nor does choosing some members of a list that repeats none.
LEMMA ListedLists ==
  ASSUME NEW U, NEW s \in Seq(U), \A m, n \in 1..Len(s) : m # n => s[m] # s[n],
         NEW S, \A x \in S : \E n \in 1..Len(s) : s[n] = x
  PROVE  Lists(Listed(s, S), S)
<1> DEFINE P == {n \in DOMAIN s : s[n] \in S}
           at == Ascending(P)
           l == Listed(s, S)
<1>1. Len(s) \in Nat /\ DOMAIN s = 1..Len(s)
  OBVIOUS
<1>2. P \subseteq Int /\ IsFiniteSet(P)
  <2>1. IsFiniteSet(1..Len(s))
    BY <1>1, FS_Interval
  <2>2. P \in SUBSET (1..Len(s))
    BY <1>1
  <2> QED
    BY <1>1, <2>1, <2>2, FS_Subset
<1> HIDE DEF P
<1>3. Lists(at, P)
  BY <1>2, AscendingLists
<1> HIDE DEF at
<1>4. l = [n \in DOMAIN at |-> s[at[n]]]
  BY DEF Listed, at, P
<1>5. /\ DOMAIN at = 1..Len(at) /\ Len(at) \in Nat
      /\ \A n \in 1..Len(at) : at[n] \in DOMAIN s /\ s[at[n]] \in S
  BY <1>3 DEF Lists, P
<1> HIDE DEF l
<1>6. l \in [1..Len(at) -> S] /\ l \in Seq(S) /\ Len(l) = Len(at)
  <2>1. l \in [1..Len(at) -> S]
    BY <1>4, <1>5
  <2> DEFINE L == Len(at)
  <2>2. L \in Nat
    BY <1>5
  <2> HIDE DEF L
  <2>3. ASSUME l \in [1..L -> S]
        PROVE  l \in Seq(S) /\ Len(l) = L
    BY <2>2, <2>3
  <2> QED
    BY <2>1, <2>3 DEF L
<1>7. \A m, n \in 1..Len(l) : m # n => l[m] # l[n]
  BY <1>1, <1>3, <1>4, <1>5, <1>6 DEF Lists
<1>8. ASSUME NEW x \in S
      PROVE  \E n \in 1..Len(l) : l[n] = x
  <2>1. PICK p \in 1..Len(s) : s[p] = x
    OBVIOUS
  <2>2. p \in P
    BY <1>1, <2>1 DEF P
  <2>3. PICK n \in 1..Len(at) : at[n] = p
    BY <1>3, <2>2 DEF Lists
  <2> QED
    BY <1>4, <1>5, <1>6, <2>1, <2>3
<1> QED
  BY <1>5, <1>6, <1>7, <1>8 DEF Lists, l

\* The position at which a nest of loops is in its n-th turn.
LEMMA Turn ==
  ASSUME NEW M \in Nat, NEW N \in Nat, NEW n \in 1..(M * N)
  PROVE  /\ N > 0
         /\ ((n - 1) \div N) + 1 \in 1..M
         /\ ((n - 1) % N) + 1 \in 1..N
         /\ n - 1 = ((n - 1) \div N) * N + ((n - 1) % N)
<1>1. N > 0
  <2> SUFFICES ASSUME N = 0 PROVE FALSE
    OBVIOUS
  <2>1. M * N = 0
    OBVIOUS
  <2> QED
    BY <2>1
<1> DEFINE q == (n - 1) \div N
           p == (n - 1) % N
<1>2. M * N \in Nat /\ n - 1 \in Nat
  OBVIOUS
<1>3. q \in Nat /\ p \in 0..(N - 1) /\ n - 1 = N * q + p
  BY <1>1, <1>2, Z3
<1>4. N * q = q * N /\ q * N \in Nat
  BY <1>3
<1> HIDE DEF q, p
<1>5. q < M
  <2> SUFFICES ASSUME q >= M PROVE FALSE
    BY <1>3
  <2>1. (q - M) \in Nat
    BY <1>3
  <2>2. (q - M) * N >= 0 /\ (q - M) * N = q * N - M * N
    BY <1>3, <2>1, Z3
  <2> QED
    BY <1>2, <1>3, <1>4, <2>2
<1>6. q + 1 \in 1..M /\ p + 1 \in 1..N /\ n - 1 = q * N + p
  BY <1>3, <1>4, <1>5
<1> QED
  BY <1>1, <1>6 DEF q, p

\* The turn at which it is at a given position.
LEMMA TurnOf ==
  ASSUME NEW M \in Nat, NEW N \in Nat, NEW m \in 1..M, NEW p \in 1..N
  PROVE  /\ (m - 1) * N + p \in 1..(M * N)
         /\ (((m - 1) * N + p - 1) \div N) + 1 = m
         /\ (((m - 1) * N + p - 1) % N) + 1 = p
<1> DEFINE a == m - 1
           n == a * N + p
<1>1. a \in 0..(M - 1) /\ N \in Nat \ {0} /\ a \in Nat
  OBVIOUS
<1> HIDE DEF a
<1>2. a * N \in Nat /\ M * N \in Nat
  BY <1>1
<1>3. a * N + N <= M * N
  <2>1. M - a - 1 \in Nat
    BY <1>1
  <2>2. (M - a - 1) * N \in Nat /\ (M - a - 1) * N = M * N - a * N - N
    BY <1>1, <2>1, Z3
  <2> QED
    BY <1>2, <2>2
<1>4. n \in 1..(M * N)
  BY <1>2, <1>3
<1>5. n - 1 \in Nat /\ n - 1 = N * a + (p - 1) /\ p - 1 \in 0..(N - 1)
  BY <1>1, <1>2
<1>6. (n - 1) % N = p - 1
  <2>1. (N * a + (p - 1)) % N = p - 1
    BY <1>1, <1>5, Remainder
  <2> HIDE DEF n
  <2> QED
    BY <1>5, <2>1
<1>7. (n - 1) \div N = a
  <2> DEFINE q == (n - 1) \div N
  <2>1. q \in Int /\ n - 1 = N * q + ((n - 1) % N)
    <3>1. \A b \in Nat : b \div N \in Int /\ b = N * (b \div N) + (b % N)
      BY <1>1, Z3
    <3> HIDE DEF n
    <3> QED
      BY <1>5, <3>1
  <2> HIDE DEF q, n
  <2>2. N * q = N * a
    BY <1>1, <1>5, <1>6, <2>1
  <2>3. N * (q - a) = 0
    BY <1>1, <2>1, <2>2, Z3
  <2>4. q - a = 0
    BY <1>1, <2>1, <2>3, Z3
  <2> QED
    BY <1>1, <2>1, <2>4 DEF q
<1> QED
  BY <1>1, <1>4, <1>6, <1>7 DEF a

\* The turn of two loops in which the outer one is in its m-th, and the inner
\* one, which has N of them, in its p-th.
Position(m, N, p) == (m - 1) * N + p

LEMMA TurnAt ==
  ASSUME NEW M \in Nat, NEW N \in Nat, NEW m \in 1..M, NEW p \in 1..N
  PROVE  LET n == Position(m, N, p) IN
         /\ n \in 1..(M * N)
         /\ ((n - 1) \div N) + 1 = m
         /\ ((n - 1) % N) + 1 = p
BY TurnOf DEF Position

LEMMA NestedAt ==
  ASSUME NEW s, Len(s) \in Nat, NEW t, Len(t) \in Nat,
         NEW m \in 1..Len(s), NEW p \in 1..Len(t)
  PROVE  /\ Position(m, Len(t), p) \in 1..(Len(s) * Len(t))
         /\ Nested(s, t)[Position(m, Len(t), p)] = <<s[m], t[p]>>
<1> DEFINE M == Len(s)
           N == Len(t)
           n == Position(m, N, p)
<1>1. /\ n \in 1..(M * N)
      /\ ((n - 1) \div N) + 1 = m
      /\ ((n - 1) % N) + 1 = p
  <2> HIDE DEF M, N
  <2>1. M \in Nat /\ N \in Nat /\ m \in 1..M /\ p \in 1..N
    BY DEF M, N
  <2> QED
    BY <2>1, TurnAt
<1>2. Nested(s, t) =
        [j \in 1..(M * N) |-> <<s[((j - 1) \div N) + 1],
                                t[((j - 1) % N) + 1]>>]
  BY DEF Nested
<1> HIDE DEF M, N, n
<1>3. Nested(s, t)[n] = <<s[((n - 1) \div N) + 1], t[((n - 1) % N) + 1]>>
  BY <1>1, <1>2
<1> QED
  BY <1>1, <1>3 DEF M, N, n

\* A loop in a loop goes through all pairs, once each.
LEMMA NestedLists ==
  ASSUME NEW S, NEW s, Lists(s, S), NEW T, NEW t, Lists(t, T)
  PROVE  /\ Lists(Nested(s, t), S \X T)
         /\ Len(Nested(s, t)) = Len(s) * Len(t)
<1> DEFINE M == Len(s)
           N == Len(t)
           Q(n) == ((n - 1) \div N) + 1
           P(n) == ((n - 1) % N) + 1
           l == Nested(s, t)
<1>1. M \in Nat /\ N \in Nat /\ M * N \in Nat
  BY DEF Lists
<1>2. l = [n \in 1..(M * N) |-> <<s[Q(n)], t[P(n)]>>]
  BY DEF Nested
<1>3. ASSUME NEW n \in 1..(M * N)
      PROVE  /\ Q(n) \in 1..M /\ P(n) \in 1..N
             /\ n - 1 = (Q(n) - 1) * N + (P(n) - 1)
             /\ l[n] = <<s[Q(n)], t[P(n)]>>
  <2>1. /\ Q(n) \in 1..M /\ P(n) \in 1..N
        /\ n - 1 = ((n - 1) \div N) * N + ((n - 1) % N)
        /\ N > 0
    BY <1>1, Turn
  <2>2. Q(n) - 1 = (n - 1) \div N /\ P(n) - 1 = (n - 1) % N
    <3>1. n - 1 \in Nat
      BY <1>1
    <3>2. (n - 1) \div N \in Int /\ (n - 1) % N \in Int
      BY <1>1, <2>1, <3>1
    <3> QED
      BY <3>2
  <2>3. l[n] = <<s[Q(n)], t[P(n)]>>
    BY <1>2
  <2> QED
    BY <2>1, <2>2, <2>3
<1>4. ASSUME NEW m \in 1..M, NEW p \in 1..N
      PROVE  /\ (m - 1) * N + p \in 1..(M * N)
             /\ l[(m - 1) * N + p] = <<s[m], t[p]>>
  <2> DEFINE n == (m - 1) * N + p
  <2>1. n \in 1..(M * N) /\ Q(n) = m /\ P(n) = p
    BY <1>1, TurnOf
  <2> QED
    BY <1>3, <2>1
<1> HIDE DEF l, Q, P
<1>5. l \in [1..(M * N) -> S \X T]
  <2>1. \A n \in 1..(M * N) : s[Q(n)] \in S /\ t[P(n)] \in T
    BY <1>3 DEF Lists
  <2> QED
    BY <1>2, <2>1
<1>6. l \in Seq(S \X T) /\ Len(l) = M * N
  BY <1>1, <1>5
<1>7. ASSUME NEW m \in 1..(M * N), NEW n \in 1..(M * N), l[m] = l[n]
      PROVE  m = n
  <2>1. s[Q(m)] = s[Q(n)] /\ t[P(m)] = t[P(n)]
    BY <1>3, <1>7
  <2>2. Q(m) = Q(n) /\ P(m) = P(n)
    BY <1>3, <2>1 DEF Lists
  <2>3. m - 1 = n - 1
    BY <1>3, <2>2
  <2> QED
    BY <1>1, <2>3
<1>8. ASSUME NEW x \in S \X T
      PROVE  \E n \in 1..(M * N) : l[n] = x
  <2>1. x[1] \in S /\ x[2] \in T /\ x = <<x[1], x[2]>>
    OBVIOUS
  <2>2. PICK m \in 1..M : s[m] = x[1]
    BY <2>1 DEF Lists
  <2>3. PICK p \in 1..N : t[p] = x[2]
    BY <2>1 DEF Lists
  <2> QED
    BY <1>4, <2>1, <2>2, <2>3
<1>9. Lists(l, S \X T)
  BY <1>1, <1>5, <1>6, <1>7, <1>8 DEF Lists
<1> QED
  BY <1>4, <1>6, <1>9 DEF l

\* Computing something else from each member leaves a list, of what is
\* computed, if that tells the members apart.
LEMMA MappedLists ==
  ASSUME NEW S, NEW s, Lists(s, S), NEW f, DOMAIN f = S,
         NEW T, \A x \in S : f[x] \in T,
         \A y \in T : \E x \in S : f[x] = y,
         \A x, y \in S : f[x] = f[y] => x = y,
         NEW l, l = [n \in DOMAIN s |-> f[s[n]]]
  PROVE  Lists(l, T) /\ Len(l) = Len(s)
<1>1. /\ DOMAIN s = 1..Len(s) /\ Len(s) \in Nat
      /\ \A n \in 1..Len(s) : s[n] \in S
  BY DEF Lists
<1>2. l \in [1..Len(s) -> T]
  BY <1>1
<1>3. l \in Seq(T) /\ Len(l) = Len(s)
  BY <1>1, <1>2
<1>4. ASSUME NEW y \in T
      PROVE  \E n \in 1..Len(s) : l[n] = y
  <2>1. PICK x \in S : f[x] = y
    OBVIOUS
  <2>2. PICK n \in 1..Len(s) : s[n] = x
    BY DEF Lists
  <2> QED
    BY <1>1, <2>1, <2>2
<1>5. ASSUME NEW m \in 1..Len(s), NEW n \in 1..Len(s), l[m] = l[n]
      PROVE  m = n
  <2>1. s[m] = s[n]
    BY <1>1, <1>5
  <2> QED
    BY <2>1 DEF Lists
<1> QED
  BY <1>1, <1>2, <1>3, <1>4, <1>5 DEF Lists

\* A loop goes through as many members as there are.
LEMMA ListLength ==
  ASSUME NEW S, NEW s, Lists(s, S)
  PROVE  Cardinality(S) = Len(s)
<1> DEFINE L == Len(s)
<1>1. L \in Nat /\ s \in [1..L -> S]
  BY DEF Lists
<1>2. s \in Bijection(1..L, S)
  <2>1. \A m, n \in 1..L : m # n => s[m] # s[n]
    BY DEF Lists
  <2>2. \A x \in S : \E n \in 1..L : s[n] = x
    BY DEF Lists
  <2> HIDE DEF L
  <2> QED
    BY <1>1, <2>1, <2>2 DEF Bijection, Injection, Surjection, IsInjective
<1>3. ExistsBijection(1..L, S)
  BY <1>2 DEF ExistsBijection
<1> QED
  BY <1>1, <1>3, FS_CountingElements

\* One loop after the other goes through both sets.
LEMMA ListsInTurn ==
  ASSUME NEW S, NEW s, Lists(s, S), NEW T, NEW t, Lists(t, T),
         S \cap T = {}
  PROVE  Lists(s \o t, S \cup T)
<1> DEFINE U == S \cup T
           M == Len(s)
           N == Len(t)
           l == s \o t
<1>1. /\ M \in Nat /\ s \in [1..M -> S] /\ N \in Nat /\ t \in [1..N -> T]
  BY DEF Lists
<1>2. /\ l \in Seq(U) /\ Len(l) = M + N
      /\ \A n \in 1..(M + N) : l[n] = IF n <= M THEN s[n] ELSE t[n - M]
  <2>1. s \in Seq(U) /\ t \in Seq(U)
    <3>1. s \in [1..M -> U] /\ t \in [1..N -> U]
      BY <1>1
    <3> HIDE DEF U, M, N
    <3> QED
      BY <1>1, <3>1
  <2> HIDE DEF U
  <2> QED
    BY <2>1
<1> HIDE DEF l, M, N
<1>3. \A n \in 1..(M + N) : \/ n \in 1..M
                            \/ n > M /\ n - M \in 1..N
  BY <1>1
<1>4. l \in [1..(M + N) -> U]
  BY <1>2
<1>5. ASSUME NEW m \in 1..(M + N), NEW n \in 1..(M + N), l[m] = l[n]
      PROVE  m = n
  <2>1. \A a, b \in 1..M : s[a] = s[b] => a = b
    BY DEF Lists, M
  <2>2. \A a, b \in 1..N : t[a] = t[b] => a = b
    BY DEF Lists, N
  <2>3. CASE m \in 1..M /\ n \in 1..M
    BY <1>1, <1>2, <1>5, <2>1, <2>3
  <2>4. CASE m > M /\ n > M
    <3>1. t[m - M] = t[n - M] /\ m - M \in 1..N /\ n - M \in 1..N
      BY <1>1, <1>2, <1>3, <1>5, <2>4
    <3>2. m - M = n - M
      BY <2>2, <3>1
    <3> QED
      BY <1>1, <3>2
  <2>5. CASE m \in 1..M /\ n > M
    <3>1. l[m] \in S /\ l[n] \in T
      BY <1>1, <1>2, <1>3, <2>5
    <3> QED
      BY <1>5, <3>1
  <2>6. CASE m > M /\ n \in 1..M
    <3>1. l[n] \in S /\ l[m] \in T
      BY <1>1, <1>2, <1>3, <2>6
    <3> QED
      BY <1>5, <3>1
  <2> QED
    BY <1>1, <2>3, <2>4, <2>5, <2>6
<1>6. ASSUME NEW x \in U
      PROVE  \E n \in 1..(M + N) : l[n] = x
  <2>1. CASE x \in S
    <3>1. PICK n \in 1..M : s[n] = x
      BY <2>1 DEF Lists, M
    <3> QED
      BY <1>1, <1>2, <3>1
  <2>2. CASE x \in T
    <3>1. PICK n \in 1..N : t[n] = x
      BY <2>2 DEF Lists, N
    <3>2. M + n \in 1..(M + N) /\ ~(M + n <= M) /\ (M + n) - M = n
      BY <1>1
    <3> QED
      BY <1>2, <3>1, <3>2
  <2> QED
    BY <2>1, <2>2
<1>7. M + N \in Nat
  BY <1>1
<1> HIDE DEF U
<1>8. Lists(l, U)
  BY <1>2, <1>4, <1>5, <1>6, <1>7 DEF Lists
<1> QED
  BY <1>8 DEF l, U

\* A vector of n benchmarks.
LEMMA Vector ==
  ASSUME NEW N \in Nat, NEW s, s = [n \in 1..N |-> s[n]]
  PROVE  /\ s \in Seq({s[n] : n \in 1..N})
         /\ Len(s) = N /\ DOMAIN s = 1..N
         /\ <<>> \o s = s
         /\ N = 0 <=> s = <<>>
<1> DEFINE U == {s[n] : n \in 1..N}
<1>1. s \in [1..N -> U]
  OBVIOUS
<1> HIDE DEF U
<1>2. s \in Seq(U) /\ Len(s) = N /\ DOMAIN s = 1..N
  BY <1>1
<1>3. <<>> \o s = s
  BY <1>2
<1>4. N = 0 <=> s = <<>>
  BY <1>2
<1> QED
  BY <1>2, <1>3, <1>4 DEF U

-----------------------------------------------------------------------------
(* Configurations.                                                         *)

AllStrides == <<1, -1, 2, -2, 4, -4, 8, -8, 16, -16>>

\* What setupWorkingSets() needs of a configuration, and what the loops of
\* the BenchmarkManager do.
ConfigInv ==
  /\ ConfigOK
  /\ config.modes \subseteq Modes
  /\ config.chunks \subseteq Chunks
  /\ config.rws \subseteq {"READ", "WRITE"}
  /\ \A s \in config.strides : \E n \in 1..10 : AllStrides[n] = s
  /\ config.patterns \subseteq {"SEQUENTIAL", "RANDOM"}
  /\ config.base \in Nat
  /\ config.allCores \in BOOLEAN
  /\ Lists(config.memNodes, Range(config.memNodes))
  /\ Lists(config.cpuNodes, Range(config.cpuNodes))
  /\ config.modes \cap {"T", "L"} # {} => ~config.physical
  /\ config.wsSize % PageKB = 0

\* The option, or the default.
LEMMA GivenOption ==
  ASSUME NEW T, NEW s \in Seq(T), NEW d \in T
  PROVE  Given(s, d) \in T
<1>1. s # <<>> => s[1] \in T
  OBVIOUS
<1> QED
  BY <1>1 DEF Given

LEMMA NodeList ==
  ASSUME NEW b, NEW o, NEW given, given \subseteq Nat,
         NumaEnabled(b, o) => \A n \in given : NodeExists(n)
  PROVE  LET l == NodesOf(b, o, given) IN
         /\ l \in Seq(Nodes)
         /\ l # <<>>
         /\ Lists(l, Range(l))
<1> DEFINE l == NodesOf(b, o, given)
<1>1. MachineNodes = NumNodes /\ NumNodes \in Nat \ {0} /\ 0 \in Nodes
  BY WorkingSetsAssumption, BenchmarkManagerAssumption DEF Nodes
<1>2. CASE ~NumaEnabled(b, o)
  <2>1. l = <<0>>
    BY <1>2 DEF NodesOf
  <2> HIDE DEF l
  <2>2. l \in Seq(Nodes) /\ l # <<>> /\ Len(l) = 1 /\ DOMAIN l = {1}
    BY <1>1, <2>1
  <2>3. Lists(l, Range(l))
    BY <2>1, <2>2 DEF Lists, Range
  <2> QED
    BY <2>2, <2>3 DEF l
<1>3. CASE NumaEnabled(b, o)
  <2> DEFINE S == Chosen(given, 0..MachineNodes-1)
  <2>1. S \in SUBSET Nodes /\ S # {}
    <3>1. 0..MachineNodes-1 = Nodes
      BY <1>1 DEF Nodes
    <3>2. \A n \in given : n \in Nodes
      BY <1>1, <1>3 DEF NodeExists, Nodes
    <3> QED
      BY <1>1, <3>1, <3>2 DEF Chosen
  <2>2. S \subseteq Int /\ IsFiniteSet(S)
    <3>1. IsFiniteSet(Nodes) /\ Nodes \subseteq Int
      BY <1>1, FS_Interval DEF Nodes
    <3> HIDE DEF S
    <3> QED
      BY <2>1, <3>1, FS_Subset
  <2>3. l = Ascending(S)
    BY <1>3 DEF NodesOf
  <2> HIDE DEF S, l
  <2>4. Lists(l, S)
    BY <2>2, <2>3, AscendingLists
  <2>5. l \in [1..Len(l) -> S] /\ Len(l) \in Nat /\ DOMAIN l = 1..Len(l)
    BY <2>4 DEF Lists
  <2>6. l \in Seq(Nodes)
    <3> DEFINE L == Len(l)
    <3>1. l \in [1..L -> Nodes] /\ L \in Nat
      BY <2>1, <2>5
    <3> HIDE DEF L
    <3> QED
      BY <3>1
  <2>7. Range(l) = S
    <3>1. \A x \in S : x \in Range(l)
      BY <2>4, <2>5 DEF Lists, Range
    <3>2. \A x \in Range(l) : x \in S
      BY <2>5 DEF Range
    <3> QED
      BY <3>1, <3>2
  <2>8. l # <<>>
    <3>1. PICK x \in S : TRUE
      BY <2>1
    <3>2. \E n \in 1..Len(l) : l[n] = x
      BY <2>4 DEF Lists
    <3>3. Len(l) # 0
      BY <3>2
    <3> QED
      BY <3>3
  <2> QED
    BY <2>4, <2>6, <2>7, <2>8 DEF l
<1> QED
  BY <1>2, <1>3

\* A configuration that an accepted command line leads to.
LEMMA Accepted ==
  ASSUME NEW b, NEW o, IsCommandLine(o), ~Rejected(b, o),
         config = Configuration(b, o)
  PROVE  ConfigInv
<1>1. /\ config.modes = ModesRun(o)
      /\ config.wsSize = Given(o.wsSize, DefaultWSSize)
      /\ config.cpuNodes = NodesOf(b, o, o.cpuNodes)
      /\ config.memNodes = NodesOf(b, o, o.memNodes)
      /\ config.largePages = UsesLargePages(b, o)
      /\ config.workers = Given(o.workers, 1)
      /\ config.chunks = IF o.all THEN Chunks
                                  ELSE Chosen(o.chunks, {DefaultChunk})
      /\ config.base = Given(o.base, 1)
      /\ config.patterns = IF o.all THEN {"SEQUENTIAL", "RANDOM"}
                                    ELSE Chosen(o.patterns, {"SEQUENTIAL"})
      /\ config.rws = IF o.all THEN {"READ", "WRITE"}
                               ELSE Chosen(o.rws, {"READ", "WRITE"})
      /\ config.strides = IF o.all THEN Strides ELSE Chosen(o.strides, {1})
      /\ config.physical = (o.regions # <<>>)
      /\ config.phys = Given(o.regions, <<>>)
      /\ config.regions = IF o.regions # <<>> THEN Len(o.regions[1])
                                              ELSE Given(o.memRegions, 1)
      /\ config.allCores = o.allCores
  BY DEF Configuration
<1>2. /\ o.modes \subseteq Modes
      /\ o.wsSize \in Seq(Nat \ {0})
      /\ o.workers \in Seq(Nat \ {0})
      /\ o.memRegions \in Seq(Nat \ {0})
      /\ o.base \in Seq(Nat)
      /\ o.cpuNodes \subseteq Nat
      /\ o.memNodes \subseteq Nat
      /\ o.patterns \subseteq {"SEQUENTIAL", "RANDOM"}
      /\ o.rws \subseteq {"READ", "WRITE"}
      /\ o.regions \in Seq(Seq(Nat))
      /\ o.all \in BOOLEAN /\ o.largePages \in BOOLEAN
      /\ o.allCores \in BOOLEAN
  BY DEF IsCommandLine
<1>3. /\ Given(o.wsSize, DefaultWSSize) % PageKB = 0
      /\ NumaEnabled(b, o) =>
           \A n \in o.cpuNodes \cup o.memNodes : NodeExists(n)
      /\ \A c \in o.chunks : c \in Chunks
      /\ \A s \in o.strides : s \in Strides
      /\ o.regions # <<>> => ModesRun(o) \cap {"T", "L"} = {}
  BY DEF Rejected, ModesChecked
<1>4. /\ PageKB \in Nat \ {0} /\ PageSize \in Nat \ {0}
      /\ PageKB % PageSize = 0
  BY WorkingSetsAssumption, ConfiguratorAssumption, BenchmarkManagerAssumption
<1> DEFINE Pos == Nat \ {0}
<1>a. /\ Given(o.wsSize, DefaultWSSize) \in Pos
      /\ Given(o.workers, 1) \in Pos
      /\ Given(o.memRegions, 1) \in Pos
  <2>1. /\ o.wsSize \in Seq(Pos)
        /\ o.workers \in Seq(Pos)
        /\ o.memRegions \in Seq(Pos)
        /\ DefaultWSSize \in Pos /\ 1 \in Pos
    BY <1>2, <1>4 DEF DefaultWSSize
  <2> HIDE DEF Pos
  <2> QED
    BY <2>1, GivenOption
<1>b. Given(o.base, 1) \in Nat
  <2>1. o.base \in Seq(Nat) /\ 1 \in Nat
    BY <1>2
  <2> QED
    BY <2>1, GivenOption
<1>5. /\ config.wsSize \in Nat \ {0}
      /\ config.wsSize % PageSize = 0
  <2>1. config.wsSize \in Nat \ {0}
    BY <1>1, <1>a
  <2> QED
    BY <1>1, <1>3, <1>4, <2>1, MultipleOfMultiple
<1>6. /\ config.workers \in Nat \ {0}
      /\ config.base \in Nat
  BY <1>1, <1>a, <1>b
<1>7. /\ config.memNodes \in Seq(Nodes) /\ config.memNodes # <<>>
      /\ Lists(config.memNodes, Range(config.memNodes))
      /\ Lists(config.cpuNodes, Range(config.cpuNodes))
  BY <1>1, <1>2, <1>3, NodeList
<1>8. \A n, m \in DOMAIN config.memNodes :
        n # m => config.memNodes[n] # config.memNodes[m]
  BY <1>7 DEF Lists
<1>9. /\ config.physical \in BOOLEAN /\ config.largePages \in BOOLEAN
      /\ config.allCores \in BOOLEAN
  BY <1>1, <1>2 DEF UsesLargePages
<1>10. config.phys \in Seq(Nat)
  <2> DEFINE T == Seq(Nat)
  <2>1. <<>> \in T /\ o.regions \in Seq(T)
    BY <1>2
  <2> HIDE DEF T
  <2>2. Given(o.regions, <<>>) \in T
    BY <2>1, GivenOption
  <2> QED
    BY <1>1, <2>2 DEF T
<1>11. config.regions \in Nat /\ (~config.physical => config.regions > 0)
  <2>1. CASE o.regions = <<>>
    <3>1. config.regions = Given(o.memRegions, 1)
      BY <1>1, <2>1
    <3> QED
      BY <1>a, <3>1
  <2>2. CASE o.regions # <<>>
    <3> DEFINE T == Seq(Nat)
    <3>1. o.regions \in Seq(T)
      BY <1>2
    <3>2. o.regions[1] \in T
      <4> HIDE DEF T
      <4> QED
        BY <2>2, <3>1
    <3>3. Len(o.regions[1]) \in Nat
      BY <3>2
    <3>4. config.regions = Len(o.regions[1]) /\ config.physical
      BY <1>1, <2>2
    <3> QED
      BY <3>3, <3>4
  <2> QED
    BY <2>1, <2>2
<1>12. ConfigOK
  BY <1>5, <1>6, <1>7, <1>8, <1>9, <1>10, <1>11 DEF ConfigOK
<1>13. config.modes \subseteq Modes
  BY <1>1, <1>2 DEF ModesRun, ChosenModes, Modes
<1>14. config.chunks \subseteq Chunks
  <2>1. DefaultChunk \in Chunks
    BY BenchmarkManagerAssumption DEF DefaultChunk
  <2> QED
    BY <1>1, <1>2, <1>3, <2>1 DEF Chosen
<1>15. /\ config.rws \subseteq {"READ", "WRITE"}
       /\ config.patterns \subseteq {"SEQUENTIAL", "RANDOM"}
  BY <1>1, <1>2 DEF Chosen
<1>16. \A s \in config.strides : \E n \in 1..10 : AllStrides[n] = s
  <2>1. \A s \in config.strides :
          s \in {1, -1, 2, -2, 4, -4, 8, -8, 16, -16}
    <3>1. config.strides \subseteq Strides \cup {1}
      BY <1>1, <1>3 DEF Chosen
    <3> QED
      BY <3>1, ConfiguratorAssumption
  <2>2. /\ AllStrides[1] = 1 /\ AllStrides[2] = -1
        /\ AllStrides[3] = 2 /\ AllStrides[4] = -2
        /\ AllStrides[5] = 4 /\ AllStrides[6] = -4
        /\ AllStrides[7] = 8 /\ AllStrides[8] = -8
        /\ AllStrides[9] = 16 /\ AllStrides[10] = -16
    BY DEF AllStrides
  <2> QED
    BY <2>1, <2>2
<1>17. config.modes \cap {"T", "L"} # {} => ~config.physical
  BY <1>1, <1>3
<1>18. config.wsSize % PageKB = 0
  BY <1>1, <1>3
<1> QED
  BY <1>6, <1>7, <1>9, <1>12, <1>13, <1>14, <1>15, <1>16, <1>17, <1>18
     DEF ConfigInv

\* Without options the program runs, too.
LEMMA Defaults ==
  ASSUME NEW b
  PROVE  IsCommandLine(NoOptions) /\ ~Rejected(b, NoOptions)
<1>1. IsCommandLine(NoOptions)
  BY DEF IsCommandLine, NoOptions
<1>2. ~Rejected(b, NoOptions)
  <2>1. /\ NoOptions.wsSize = <<>> /\ NoOptions.workers = <<>>
        /\ NoOptions.iterations = <<>> /\ NoOptions.base = <<>>
        /\ NoOptions.memRegions = <<>> /\ NoOptions.regions = <<>>
        /\ NoOptions.extension = {} /\ NoOptions.cpuNodes = {}
        /\ NoOptions.memNodes = {} /\ NoOptions.chunks = {}
        /\ NoOptions.strides = {}
        /\ ~NoOptions.largePages /\ ~NoOptions.help
    BY DEF NoOptions
  <2>2. PageKB % PageKB = 0 /\ ~(1 > NumCPUs)
    BY ConfiguratorAssumption
  <2>3. \A s \in OnceOptions(NoOptions) : Len(s) = 0
    BY <2>1 DEF OnceOptions
  <2> QED
    BY <2>1, <2>2, <2>3 DEF Rejected, Given, DefaultWSSize
<1> QED
  BY <1>1, <1>2

LEMMA InitialConfig == Init => ConfigInv
<1> SUFFICES ASSUME Init
             PROVE  ConfigInv
  OBVIOUS
<1>1. PICK o \in CommandLines, b \in Builds :
        config = Configuration(b, IF Rejected(b, o) THEN NoOptions ELSE o)
  BY DEF Init
<1>2. IsCommandLine(o)
  BY BenchmarkManagerAssumption
<1>3. CASE Rejected(b, o)
  BY <1>1, <1>3, Accepted, Defaults
<1>4. CASE ~Rejected(b, o)
  BY <1>1, <1>2, <1>4, Accepted
<1> QED
  BY <1>3, <1>4

LEMMA ConfigStays == [Next]_vars => UNCHANGED <<build, config>>
BY DEF Next, vars, wsVars, SetUp, SetUpWorkingSets, AllocateRegion, MapRegion,
       AllMapped, AllocationFails, Advance, BeginMode, BeginExtension,
       RefuseExtension, RunBenchmark, EndMode, Destroy, Release, StartRelease,
       ReleaseRegion, AllReleased, Done

\* Every command line that is accepted leads to a configuration which
\* setupWorkingSets() and the loops of the BenchmarkManager can work with.
THEOREM ConfigurationIsSound == Spec => []ConfigInv
<1>1. ConfigInv /\ [Next]_vars => ConfigInv'
  BY ConfigStays DEF ConfigInv, ConfigOK
<1> QED
  BY <1>1, InitialConfig, PTL DEF Spec

\* Its first part is what is checked of every command line in the model.
THEOREM ConfigurationsAreAccepted == Spec => []ConfigOK
<1>1. ConfigInv => ConfigOK
  BY DEF ConfigInv
<1> QED
  BY <1>1, ConfigurationIsSound, PTL

-----------------------------------------------------------------------------
(* The working sets of the whole program.                                  *)

LEMMA InitialWorkingSets == Init => WSInit
BY DEF Init

LEMMA StepOfWorkingSets == [Next]_vars => [WSNext]_wsVars
<1> SUFFICES ASSUME [Next]_vars
             PROVE  [WSNext]_wsVars
  OBVIOUS
<1>1. CASE SetUp
  BY <1>1 DEF SetUp, WSNext
<1>2. CASE Destroy
  BY <1>2 DEF Destroy, WSNext
<1>3. CASE Advance \/ RunBenchmark \/ EndMode \/ Done
  BY <1>3 DEF Advance, RunBenchmark, EndMode, Done, vars
<1>5. CASE BeginMode \/ BeginExtension \/ RefuseExtension
  BY <1>5 DEF BeginMode, BeginExtension, RefuseExtension
<1>4. CASE UNCHANGED vars
  BY <1>4 DEF vars
<1> QED
  BY <1>1, <1>2, <1>3, <1>4, <1>5 DEF Next

\* Every execution sets up and releases its working sets as WorkingSets says.
THEOREM UsesWorkingSets == Spec => WSSpec
<1>1. Init => ConfigOK /\ WSInit
  BY InitialConfig, InitialWorkingSets DEF ConfigInv
<1> QED
  BY <1>1, StepOfWorkingSets, PTL DEF Spec, WSSpec

\* No benchmark of an execution is given memory that was not handed out, or
\* that belongs to another region.
THEOREM MemoryOfBenchmarks == Spec => []RegionsAreSound
BY UsesWorkingSets, RegionsSound, PTL

\* An execution that reaches the end of ~BenchmarkManager() has given back
\* every region, once, except with malloc() and where the destructor takes
\* physical addresses for large pages.
THEOREM MemoryIsGivenBack == Spec => []NumaBuildsFreeRegions
BY UsesWorkingSets, AllIsGivenBack, PTL

-----------------------------------------------------------------------------
(* The loops of buildBenchmarks().                                         *)

\* Everything a loop goes through, and what it goes through.
LEMMA Loops ==
  ASSUME ConfigInv
  PROVE  /\ Lists(ChunkList, config.chunks)
         /\ Lists(Ascending(config.chunks \ {32}), config.chunks \ {32})
         /\ Lists(Ascending(Chunks), Chunks)
         /\ Lists(RWList, config.rws)
         /\ Lists(StrideList, config.strides)
         /\ Lists(Delays, {d \in 0..MaxDelay : IsDelay(d)})
<1>1. ASSUME NEW S, S \subseteq Chunks
      PROVE  Lists(Ascending(S), S)
  <2>1. S \in SUBSET (0..512)
    BY <1>1, ConfiguratorAssumption
  <2> DEFINE top == 512
             All == 0..top
  <2>2. IsFiniteSet(All) /\ All \subseteq Int /\ S \in SUBSET All
    <3>1. top \in Int /\ S \in SUBSET All
      BY <2>1
    <3> HIDE DEF top
    <3> QED
      BY <3>1, FS_Interval
  <2> HIDE DEF All
  <2>3. S \subseteq Int /\ IsFiniteSet(S)
    BY <2>2, FS_Subset
  <2> QED
    BY <2>3, AscendingLists
<1>2. config.chunks \subseteq Chunks
  BY DEF ConfigInv
<1>3. Lists(RWList, config.rws)
  <2> DEFINE s == <<"READ", "WRITE">>
             U == {"READ", "WRITE"}
  <2>1. s \in Seq(U) /\ Len(s) = 2 /\ s[1] = "READ" /\ s[2] = "WRITE"
    OBVIOUS
  <2>2. RWList = Listed(s, config.rws)
    BY DEF RWList
  <2>3. config.rws \subseteq U
    BY DEF ConfigInv
  <2> HIDE DEF s
  <2>4. \A m, n \in 1..Len(s) : m # n => s[m] # s[n]
    BY <2>1
  <2>5. \A x \in config.rws : \E n \in 1..Len(s) : s[n] = x
    BY <2>1, <2>3
  <2> HIDE DEF U
  <2> QED
    BY <2>1, <2>2, <2>4, <2>5, ListedLists
<1>4. Lists(StrideList, config.strides)
  <2>1. /\ AllStrides \in Seq(Int) /\ Len(AllStrides) = 10
        /\ AllStrides[1] = 1 /\ AllStrides[2] = -1
        /\ AllStrides[3] = 2 /\ AllStrides[4] = -2
        /\ AllStrides[5] = 4 /\ AllStrides[6] = -4
        /\ AllStrides[7] = 8 /\ AllStrides[8] = -8
        /\ AllStrides[9] = 16 /\ AllStrides[10] = -16
    BY DEF AllStrides
  <2>2. StrideList = Listed(AllStrides, config.strides)
    BY DEF StrideList, AllStrides
  <2>3. \A m, n \in 1..Len(AllStrides) :
          m # n => AllStrides[m] # AllStrides[n]
    BY <2>1, SMTT(30)
  <2>4. \A x \in config.strides :
          \E n \in 1..Len(AllStrides) : AllStrides[n] = x
    BY <2>1 DEF ConfigInv
  <2>5. AllStrides \in Seq(Int)
    BY <2>1
  <2> QED
    BY <2>2, <2>3, <2>4, <2>5, ListedLists
<1>5. Lists(Delays, {d \in 0..MaxDelay : IsDelay(d)})
  <2> DEFINE D == {d \in 0..MaxDelay : IsDelay(d)}
  <2>1. IsFiniteSet(0..MaxDelay) /\ MaxDelay \in Nat
    BY FS_Interval, BenchmarkManagerAssumption
  <2>2. D \in SUBSET (0..MaxDelay) /\ 0..MaxDelay \subseteq Int
    BY <2>1
  <2>3. Delays = Ascending(D)
    BY DEF Delays
  <2> HIDE DEF D
  <2>4. D \subseteq Int /\ IsFiniteSet(D)
    BY <2>1, <2>2, FS_Subset
  <2> QED
    BY <2>3, <2>4, AscendingLists DEF D
<1>6. Lists(Ascending(config.chunks \ {32}), config.chunks \ {32})
  <2>1. config.chunks \ {32} \subseteq Chunks
    BY <1>2
  <2> QED
    BY <1>1, <2>1
<1> QED
  BY <1>1, <1>2, <1>3, <1>4, <1>5, <1>6 DEF ChunkList

\* The loops over numbers.
LEMMA Count ==
  ASSUME NEW N \in Nat
  PROVE  LET s == [n \in 1..N |-> n - 1] IN Lists(s, 0..N-1) /\ Len(s) = N
<1> DEFINE s == [n \in 1..N |-> n - 1]
<1>1. s \in [1..N -> 0..N-1]
  OBVIOUS
<1>2. Len(s) = N
  OBVIOUS
<1>3. \A x \in 0..N-1 : x + 1 \in 1..N /\ s[x + 1] = x
  OBVIOUS
<1>4. \A m, n \in 1..N : m # n => s[m] # s[n]
  OBVIOUS
<1> HIDE DEF s
<1>5. Lists(s, 0..N-1)
  BY <1>1, <1>2, <1>3, <1>4 DEF Lists
<1> QED
  BY <1>2, <1>5 DEF s

LEMMA LoopsOverRegions ==
  ASSUME ConfigInv
  PROVE  /\ NumRegions \in Nat
         /\ Lists(RegionList, 0..config.regions-1)
         /\ Lists(AllRegionList, RegionIds)
         /\ Len(AllRegionList) = NumRegions
         /\ \A n \in 1..NumRegions : AllRegionList[n] = n - 1
         /\ Lists(ProcessorUnits, Range(ProcessorUnits))
<1>1. config.regions \in Nat /\ Len(config.phys) \in Nat /\ NumNodes \in Nat
  BY WorkingSetsAssumption DEF ConfigInv, ConfigOK
<1>2. NumRegions \in Nat
  BY <1>1 DEF NumRegions
<1>3. Lists(RegionList, 0..config.regions-1)
  BY <1>1, Count DEF RegionList
<1>4. Lists(AllRegionList, RegionIds) /\ Len(AllRegionList) = NumRegions
  BY <1>2, Count DEF AllRegionList, RegionIds
<1>5. Lists(ProcessorUnits, Range(ProcessorUnits))
  <2>1. CASE ~config.allCores
    BY <2>1 DEF ConfigInv, ProcessorUnits
  <2>2. CASE config.allCores
    <3> DEFINE s == [n \in 1..NumCPUs |-> n - 1]
    <3>1. ProcessorUnits = s
      BY <2>2 DEF ProcessorUnits
    <3>2. NumCPUs \in Nat
      BY ConfiguratorAssumption
    <3>3. Lists(s, 0..NumCPUs-1)
      BY <3>2, Count
    <3>4. Range(s) = 0..NumCPUs-1
      <4>1. \A x \in 0..NumCPUs-1 : x + 1 \in 1..NumCPUs /\ s[x + 1] = x
        BY <3>2
      <4>2. \A n \in 1..NumCPUs : s[n] \in 0..NumCPUs-1
        BY <3>2
      <4> QED
        BY <4>1, <4>2 DEF Range
    <3> QED
      BY <3>1, <3>3, <3>4
  <2> QED
    BY <2>1, <2>2
<1> QED
  BY <1>2, <1>3, <1>4, <1>5 DEF AllRegionList

\* No loop, nothing to go through.
LEMMA NoTurns == Lists(<<>>, {})
BY DEF Lists

\* Every combination of access type, chunk size and stride that the command
\* line asks for is tested at each place, once.
LEMMA CasesListed ==
  ASSUME ConfigInv
  PROVE  Lists(Cases, Wanted)
<1> DEFINE W1 == {[pattern |-> p, rw |-> w, chunk |-> c, stride |-> s] :
                    p \in config.patterns \cap {"SEQUENTIAL"},
                    w \in config.rws, c \in config.chunks,
                    s \in config.strides}
           W2 == {[pattern |-> p, rw |-> w, chunk |-> c, stride |-> 0] :
                    p \in config.patterns \cap {"RANDOM"},
                    w \in config.rws, c \in config.chunks \ {32}}
<1>1. Lists(SequentialCases, W1)
  <2>1. CASE "SEQUENTIAL" \in config.patterns
    <3> DEFINE S == config.rws \X (config.chunks \X config.strides)
               s == Nested(RWList, Nested(ChunkList, StrideList))
               f == [x \in S |-> [pattern |-> "SEQUENTIAL", rw |-> x[1],
                                  chunk |-> x[2][1], stride |-> x[2][2]]]
    <3>1. Lists(s, S)
      BY Loops, NestedLists
    <3>2. \A x \in S : f[x] \in W1
      BY <2>1
    <3>3. ASSUME NEW y \in W1
          PROVE  \E x \in S : f[x] = y
      <4>1. ASSUME NEW w \in config.rws, NEW c \in config.chunks,
                   NEW d \in config.strides
            PROVE  f[<<w, <<c, d>>>>] =
                     [pattern |-> "SEQUENTIAL", rw |-> w, chunk |-> c,
                      stride |-> d]
        OBVIOUS
      <4>2. \A w \in config.rws, c \in config.chunks, d \in config.strides :
              <<w, <<c, d>>>> \in S
        OBVIOUS
      <4>3. PICK w \in config.rws, c \in config.chunks,
                 d \in config.strides :
              y = [pattern |-> "SEQUENTIAL", rw |-> w, chunk |-> c,
                   stride |-> d]
        OBVIOUS
      <4> WITNESS <<w, <<c, d>>>> \in S
      <4> QED
        BY <4>1, <4>3
    <3>4. \A x, y \in S : f[x] = f[y] => x = y
      <4> SUFFICES ASSUME NEW x \in S, NEW y \in S, f[x] = f[y]
                   PROVE  x = y
        OBVIOUS
      <4>1. x[1] = y[1] /\ x[2][1] = y[2][1] /\ x[2][2] = y[2][2]
        OBVIOUS
      <4> QED
        BY <4>1
    <3>5. DOMAIN s = 1..Len(s) /\ \A n \in 1..Len(s) : s[n] \in S
      BY <3>1 DEF Lists
    <3>6. SequentialCases = [n \in DOMAIN s |-> f[s[n]]]
      <4>1. SequentialCases =
              [n \in DOMAIN s |->
                 [pattern |-> "SEQUENTIAL", rw |-> s[n][1],
                  chunk |-> s[n][2][1], stride |-> s[n][2][2]]]
        BY <2>1 DEF SequentialCases
      <4>2. \A x \in S : f[x] = [pattern |-> "SEQUENTIAL", rw |-> x[1],
                                 chunk |-> x[2][1], stride |-> x[2][2]]
        OBVIOUS
      <4> HIDE DEF s, S, f
      <4> QED
        BY <3>5, <4>1, <4>2
    <3>7. DOMAIN f = S
      OBVIOUS
    <3> HIDE DEF W1, S, s, f
    <3> QED
      BY <3>1, <3>2, <3>3, <3>4, <3>6, <3>7, MappedLists
  <2>2. CASE "SEQUENTIAL" \notin config.patterns
    <3>1. SequentialCases = <<>>
      BY <2>2 DEF SequentialCases
    <3>2. W1 = {}
      BY <2>2
    <3> HIDE DEF W1, W2
    <3> QED
      BY <3>1, <3>2, NoTurns
  <2> QED
    BY <2>1, <2>2
<1>2. Lists(RandomCases, W2)
  <2>1. CASE "RANDOM" \in config.patterns
    <3> DEFINE S == config.rws \X (config.chunks \ {32})
               s == Nested(RWList, Ascending(config.chunks \ {32}))
               f == [x \in S |-> [pattern |-> "RANDOM", rw |-> x[1],
                                  chunk |-> x[2], stride |-> 0]]
    <3>1. Lists(s, S)
      BY Loops, NestedLists
    <3>2. \A x \in S : f[x] \in W2
      BY <2>1
    <3>3. ASSUME NEW y \in W2
          PROVE  \E x \in S : f[x] = y
      <4>1. ASSUME NEW w \in config.rws, NEW c \in config.chunks \ {32}
            PROVE  f[<<w, c>>] =
                     [pattern |-> "RANDOM", rw |-> w, chunk |-> c, stride |-> 0]
        OBVIOUS
      <4>2. \A w \in config.rws, c \in config.chunks \ {32} : <<w, c>> \in S
        OBVIOUS
      <4>3. PICK w \in config.rws, c \in config.chunks \ {32} :
              y = [pattern |-> "RANDOM", rw |-> w, chunk |-> c, stride |-> 0]
        OBVIOUS
      <4> WITNESS <<w, c>> \in S
      <4> QED
        BY <4>1, <4>3
    <3>4. \A x, y \in S : f[x] = f[y] => x = y
      <4> SUFFICES ASSUME NEW x \in S, NEW y \in S, f[x] = f[y]
                   PROVE  x = y
        OBVIOUS
      <4>1. x[1] = y[1] /\ x[2] = y[2]
        OBVIOUS
      <4> QED
        BY <4>1
    <3>5. DOMAIN s = 1..Len(s) /\ \A n \in 1..Len(s) : s[n] \in S
      BY <3>1 DEF Lists
    <3>6. RandomCases = [n \in DOMAIN s |-> f[s[n]]]
      <4>1. RandomCases =
              [n \in DOMAIN s |->
                 [pattern |-> "RANDOM", rw |-> s[n][1], chunk |-> s[n][2],
                  stride |-> 0]]
        BY <2>1 DEF RandomCases
      <4>2. \A x \in S : f[x] = [pattern |-> "RANDOM", rw |-> x[1],
                                 chunk |-> x[2], stride |-> 0]
        OBVIOUS
      <4> HIDE DEF s, S, f
      <4> QED
        BY <3>5, <4>1, <4>2
    <3>7. DOMAIN f = S
      OBVIOUS
    <3> HIDE DEF W2, S, s, f
    <3> QED
      BY <3>1, <3>2, <3>3, <3>4, <3>6, <3>7, MappedLists
  <2>2. CASE "RANDOM" \notin config.patterns
    <3>1. RandomCases = <<>>
      BY <2>2 DEF RandomCases
    <3>2. W2 = {}
      BY <2>2
    <3> HIDE DEF W1, W2
    <3> QED
      BY <3>1, <3>2, NoTurns
  <2> QED
    BY <2>1, <2>2
<1>3. W1 \cap W2 = {}
  OBVIOUS
<1>4. Wanted = W1 \cup W2
  BY DEF Wanted
<1> HIDE DEF W1, W2
<1> QED
  BY <1>1, <1>2, <1>3, <1>4, ListsInTurn DEF Cases

\* Every place is gone to once: a node of memory, a region there, and a node
\* of CPUs.  The number of the region tells which it is.
PlaceList ==
  [n \in DOMAIN Places |->
     <<Places[n].memNode, Places[n].region % config.regions,
       Places[n].cpuNode>>]

LEMMA PlacesListed ==
  ASSUME ConfigInv
  PROVE  /\ Lists(PlaceList, WantedPlaces)
         /\ Len(PlaceList) = Len(Places) /\ Len(Places) \in Nat
         /\ DOMAIN Places = 1..Len(Places)
         /\ \A p \in 1..Len(Places) :
              LET q == Places[p] IN
              /\ q.region \in 0..(NumNodes * config.regions - 1)
              /\ q.region \div config.regions = q.memNode
              /\ config.regions = 1 => q.region = q.memNode
<1> DEFINE A == Range(config.memNodes)
           B == 0..config.regions-1
           C == Range(config.cpuNodes)
           S == A \X (B \X C)
           s == Nested(config.memNodes, Nested(RegionList, config.cpuNodes))
           f == [x \in S |-> <<x[1], x[2][1], x[2][2]>>]
<1>1. Lists(s, S)
  <2>1. Lists(config.memNodes, A) /\ Lists(config.cpuNodes, C)
    BY DEF ConfigInv
  <2>2. Lists(RegionList, B)
    BY LoopsOverRegions
  <2> HIDE DEF A, B, C
  <2> QED
    BY <2>1, <2>2, NestedLists
<1>2. A \subseteq Nodes /\ Nodes \subseteq Nat /\ NumNodes \in Nat \ {0}
  <2>1. config.memNodes \in Seq(Nodes)
    BY DEF ConfigInv, ConfigOK
  <2>2. A \subseteq Nodes
    BY <2>1 DEF Range
  <2> QED
    BY <2>2, WorkingSetsAssumption DEF Nodes
<1>3. config.regions \in Nat
  BY DEF ConfigInv, ConfigOK
<1>4. DOMAIN s = 1..Len(s) /\ Len(s) \in Nat /\ \A n \in 1..Len(s) : s[n] \in S
  BY <1>1 DEF Lists
<1>5. Places =
        [n \in DOMAIN s |->
           [region |-> s[n][1] * config.regions + s[n][2][1],
            memNode |-> s[n][1], cpuNode |-> s[n][2][2]]]
  BY DEF Places, RegionNumber
<1>6. ASSUME NEW x \in S
      PROVE  LET region == x[1] * config.regions + x[2][1] IN
             /\ region \in 0..(NumNodes * config.regions - 1)
             /\ region \div config.regions = x[1]
             /\ region % config.regions = x[2][1]
             /\ config.regions = 1 => region = x[1]
  <2>1. x[1] \in 0..(NumNodes - 1) /\ x[1] \in Nat
    BY <1>2 DEF Nodes
  <2>2. x[2][1] \in 0..(config.regions - 1)
    OBVIOUS
  <2>3. config.regions \in Nat \ {0}
    BY <1>3, <2>2
  <2> HIDE DEF S
  <2>4. /\ x[1] * config.regions + x[2][1]
             \in 0..(NumNodes * config.regions - 1)
        /\ config.regions = 1 => x[1] * config.regions + x[2][1] = x[1]
    <3> DEFINE n == x[1]
               m == x[2][1]
               R == config.regions
    <3>1. /\ n \in 0..(NumNodes - 1) /\ m \in 0..(R - 1)
          /\ R \in Nat \ {0} /\ NumNodes \in Nat \ {0}
      BY <1>2, <2>1, <2>2, <2>3
    <3> HIDE DEF n, m, R
    <3>2. /\ n * R + m \in 0..(NumNodes * R - 1)
          /\ R = 1 => n * R + m = n
      BY <3>1, RegionPlaces
    <3> QED
      BY <3>2 DEF n, m, R
  <2>5. /\ (x[1] * config.regions + x[2][1]) \div config.regions = x[1]
        /\ (x[1] * config.regions + x[2][1]) % config.regions = x[2][1]
    BY <2>1, <2>2, <2>3, NodeOfRegion
  <2> QED
    BY <2>4, <2>5
<1> HIDE DEF s
<1>7. /\ DOMAIN Places = 1..Len(s)
      /\ \A n \in 1..Len(s) :
           /\ Places[n].region = s[n][1] * config.regions + s[n][2][1]
           /\ Places[n].memNode = s[n][1]
           /\ Places[n].cpuNode = s[n][2][2]
  BY <1>4, <1>5
<1>8. Len(Places) = Len(s)
  <2>1. Places = [n \in 1..Len(s) |-> Places[n]]
    BY <1>4, <1>5
  <2> QED
    BY <1>4, <2>1, Vector
<1>9. PlaceList = [n \in DOMAIN s |-> f[s[n]]]
  <2>1. ASSUME NEW n \in 1..Len(s)
        PROVE  f[s[n]] = <<Places[n].memNode, Places[n].region % config.regions,
                           Places[n].cpuNode>>
    BY <1>4, <1>6, <1>7
  <2> HIDE DEF f
  <2> QED
    BY <1>4, <1>7, <2>1 DEF PlaceList
<1>10. Lists(PlaceList, WantedPlaces) /\ Len(PlaceList) = Len(s)
  <2>1. WantedPlaces = A \X B \X C
    BY DEF WantedPlaces
  <2>2. \A x \in S : f[x] \in A \X B \X C
    OBVIOUS
  <2>3. ASSUME NEW y \in A \X B \X C
        PROVE  \E x \in S : f[x] = y
    <3>1. y[1] \in A /\ y[2] \in B /\ y[3] \in C /\ y = <<y[1], y[2], y[3]>>
      OBVIOUS
    <3>2. <<y[1], <<y[2], y[3]>>>> \in S
      BY <3>1
    <3>3. f[<<y[1], <<y[2], y[3]>>>>] = <<y[1], y[2], y[3]>>
      BY <3>2
    <3> QED
      BY <3>1, <3>2, <3>3
  <2>4. ASSUME NEW x \in S, NEW y \in S, f[x] = f[y]
        PROVE  x = y
    <3>1. x[1] = y[1] /\ x[2][1] = y[2][1] /\ x[2][2] = y[2][2]
      BY <2>4
    <3> QED
      BY <3>1
  <2>5. DOMAIN f = S
    OBVIOUS
  <2> DEFINE T == A \X B \X C
  <2>6. /\ \A x \in S : f[x] \in T
        /\ \A y \in T : \E x \in S : f[x] = y
        /\ \A x, y \in S : f[x] = f[y] => x = y
    BY <2>2, <2>3, <2>4
  <2> HIDE DEF S, f, T
  <2>7. Lists(PlaceList, T) /\ Len(PlaceList) = Len(s)
    BY <1>1, <1>9, <2>5, <2>6, MappedLists
  <2> QED
    BY <2>1, <2>7 DEF T
<1> QED
  BY <1>4, <1>6, <1>7, <1>8, <1>10

\* Every region is gone to from every processor unit, once with each chunk
\* size and stride.
MatrixList ==
  [n \in DOMAIN MatrixCases |->
     <<MatrixCases[n].pu, MatrixCases[n].region, MatrixCases[n].chunk,
       MatrixCases[n].stride>>]

MatrixSet ==
  Range(ProcessorUnits) \X RegionIds \X config.chunks \X config.strides

\* Pairs of pairs are quadruples.
LEMMA Quadruples ==
  ASSUME NEW A, NEW B, NEW C, NEW D
  PROVE  LET S == (A \X B) \X (C \X D)
             T == A \X B \X C \X D
             f == [x \in S |-> <<x[1][1], x[1][2], x[2][1], x[2][2]>>]
         IN /\ DOMAIN f = S
            /\ \A x \in S : f[x] \in T
            /\ \A y \in T : \E x \in S : f[x] = y
            /\ \A x, y \in S : f[x] = f[y] => x = y
<1> DEFINE S == (A \X B) \X (C \X D)
           T == A \X B \X C \X D
           f == [x \in S |-> <<x[1][1], x[1][2], x[2][1], x[2][2]>>]
<1>1. \A x \in S : f[x] \in T
  OBVIOUS
<1>2. ASSUME NEW y \in T
      PROVE  \E x \in S : f[x] = y
  <2>1. /\ y[1] \in A /\ y[2] \in B /\ y[3] \in C /\ y[4] \in D
        /\ y = <<y[1], y[2], y[3], y[4]>>
    OBVIOUS
  <2>2. <<<<y[1], y[2]>>, <<y[3], y[4]>>>> \in S
    BY <2>1
  <2>3. f[<<<<y[1], y[2]>>, <<y[3], y[4]>>>>] = <<y[1], y[2], y[3], y[4]>>
    BY <2>2
  <2> QED
    BY <2>1, <2>2, <2>3
<1>3. ASSUME NEW x \in S, NEW y \in S, f[x] = f[y]
      PROVE  x = y
  <2>1. /\ x[1][1] = y[1][1] /\ x[1][2] = y[1][2]
        /\ x[2][1] = y[2][1] /\ x[2][2] = y[2][2]
    BY <1>3
  <2> QED
    BY <2>1
<1> QED
  BY <1>1, <1>2, <1>3

LEMMA MatrixCasesListed ==
  ASSUME ConfigInv
  PROVE  /\ Lists(MatrixList, MatrixSet)
         /\ DOMAIN MatrixCases = 1..Len(MatrixCases)
         /\ Len(MatrixCases) \in Nat
         /\ Len(MatrixList) = Len(MatrixCases)
         /\ Len(MatrixCases) = (Len(ProcessorUnits) * NumRegions)
                                 * (Len(ChunkList) * Len(StrideList))
         /\ Len(ChunkList) = 1 /\ Len(StrideList) = 1 =>
              \A row \in 1..Len(ProcessorUnits), id \in RegionIds :
                LET c == MatrixCases[(row - 1) * NumRegions + (id + 1)] IN
                c.pu = ProcessorUnits[row] /\ c.region = id
<1> DEFINE A == Range(ProcessorUnits)
           B == RegionIds
           C == config.chunks
           D == config.strides
           P == Nested(ProcessorUnits, AllRegionList)
           Q == Nested(ChunkList, StrideList)
           s == Nested(P, Q)
           S == (A \X B) \X (C \X D)
           T == A \X B \X C \X D
           f == [x \in S |-> <<x[1][1], x[1][2], x[2][1], x[2][2]>>]
<1>1. /\ Lists(ProcessorUnits, A) /\ Lists(AllRegionList, B)
      /\ Lists(ChunkList, C) /\ Lists(StrideList, D)
      /\ Len(AllRegionList) = NumRegions /\ NumRegions \in Nat
      /\ \A n \in 1..NumRegions : AllRegionList[n] = n - 1
  BY Loops, LoopsOverRegions
<1>2. /\ DOMAIN f = S
      /\ \A x \in S : f[x] \in T
      /\ \A y \in T : \E x \in S : f[x] = y
      /\ \A x, y \in S : f[x] = f[y] => x = y
  BY Quadruples
<1> HIDE DEF A, B, C, D
<1>3. /\ Lists(P, A \X B) /\ Len(P) = Len(ProcessorUnits) * NumRegions
      /\ \A m \in 1..Len(ProcessorUnits), p \in 1..NumRegions :
           P[Position(m, NumRegions, p)] = <<ProcessorUnits[m], p - 1>>
  <2>1. /\ Lists(P, A \X B)
        /\ Len(P) = Len(ProcessorUnits) * Len(AllRegionList)
    BY <1>1, NestedLists
  <2>2. ASSUME NEW m \in 1..Len(ProcessorUnits), NEW p \in 1..NumRegions
        PROVE  P[Position(m, NumRegions, p)] = <<ProcessorUnits[m], p - 1>>
    <3>1. Len(ProcessorUnits) \in Nat /\ Len(AllRegionList) \in Nat
      BY <1>1 DEF Lists
    <3>2. P[Position(m, NumRegions, p)] = <<ProcessorUnits[m], AllRegionList[p]>>
      <4>1. p \in 1..Len(AllRegionList) /\ Len(AllRegionList) = NumRegions
        BY <1>1
      <4>2. P[Position(m, Len(AllRegionList), p)] =
              <<ProcessorUnits[m], AllRegionList[p]>>
        BY <3>1, <4>1, NestedAt
      <4> QED
        BY <4>1, <4>2
    <3> QED
      BY <1>1, <3>2
  <2> QED
    BY <1>1, <2>1, <2>2
<1>4. /\ Lists(Q, C \X D) /\ Len(Q) = Len(ChunkList) * Len(StrideList)
  <2>1. Lists(ChunkList, C) /\ Lists(StrideList, D)
    BY <1>1
  <2> QED
    BY <2>1, NestedLists
<1> HIDE DEF P, Q
<1>5. /\ Lists(s, S) /\ Len(s) = Len(P) * Len(Q)
      /\ \A m \in 1..Len(P), p \in 1..Len(Q) :
           s[Position(m, Len(Q), p)] = <<P[m], Q[p]>>
  <2> DEFINE E == A \X B
             F == C \X D
  <2>1. Lists(P, E) /\ Lists(Q, F)
    BY <1>3, <1>4
  <2> HIDE DEF E, F
  <2>2. /\ Lists(s, E \X F) /\ Len(s) = Len(P) * Len(Q)
    BY <2>1, NestedLists
  <2>3. ASSUME NEW m \in 1..Len(P), NEW p \in 1..Len(Q)
        PROVE  s[Position(m, Len(Q), p)] = <<P[m], Q[p]>>
    <3>1. Len(P) \in Nat /\ Len(Q) \in Nat
      BY <2>1 DEF Lists
    <3> QED
      BY <3>1, NestedAt
  <2> QED
    BY <2>2, <2>3 DEF E, F
<1>6. DOMAIN s = 1..Len(s) /\ Len(s) \in Nat /\ \A n \in 1..Len(s) : s[n] \in S
  BY <1>5 DEF Lists
<1>7. MatrixCases =
        [n \in DOMAIN s |-> [pu |-> s[n][1][1], region |-> s[n][1][2],
                             chunk |-> s[n][2][1], stride |-> s[n][2][2]]]
  BY DEF MatrixCases, P, Q
<1> HIDE DEF s
<1>8. /\ DOMAIN MatrixCases = 1..Len(s)
      /\ \A n \in 1..Len(s) :
           /\ MatrixCases[n].pu = s[n][1][1]
           /\ MatrixCases[n].region = s[n][1][2]
           /\ MatrixCases[n].chunk = s[n][2][1]
           /\ MatrixCases[n].stride = s[n][2][2]
  BY <1>6, <1>7
<1>9. Len(MatrixCases) = Len(s)
  <2>1. MatrixCases = [n \in 1..Len(s) |-> MatrixCases[n]]
    BY <1>6, <1>7
  <2> QED
    BY <1>6, <2>1, Vector
<1>10. MatrixList = [n \in DOMAIN s |-> f[s[n]]]
  <2>1. ASSUME NEW n \in 1..Len(s)
        PROVE  f[s[n]] = <<MatrixCases[n].pu, MatrixCases[n].region,
                           MatrixCases[n].chunk, MatrixCases[n].stride>>
    BY <1>6, <1>8
  <2> HIDE DEF f
  <2> QED
    BY <1>6, <1>8, <2>1 DEF MatrixList
<1>11. MatrixSet = T
  BY DEF MatrixSet, A, B, C, D
<1>12. ASSUME Len(ChunkList) = 1, Len(StrideList) = 1,
              NEW row \in 1..Len(ProcessorUnits), NEW id \in RegionIds
       PROVE  LET c == MatrixCases[(row - 1) * NumRegions + (id + 1)] IN
              c.pu = ProcessorUnits[row] /\ c.region = id
  <2> DEFINE n == Position(row, NumRegions, id + 1)
  <2>1. Len(Q) = 1 /\ Len(P) \in Nat
    BY <1>3, <1>4, <1>12 DEF Lists
  <2>2. /\ id + 1 \in 1..NumRegions /\ (id + 1) - 1 = id
        /\ Len(ProcessorUnits) \in Nat /\ Len(AllRegionList) \in Nat
    BY <1>1 DEF RegionIds, Lists
  <2>3. P[n] = <<ProcessorUnits[row], id>>
    BY <1>3, <2>2
  <2>4. n \in 1..Len(P)
    BY <1>1, <1>3, <2>2, NestedAt
  <2>5. n = (row - 1) * NumRegions + (id + 1)
    BY DEF Position
  <2> HIDE DEF n
  <2>6. Position(n, 1, 1) = n /\ n \in 1..Len(s) /\ 1 \in 1..Len(Q)
    BY <1>5, <2>1, <2>4 DEF Position
  <2>7. s[n] = <<P[n], Q[1]>>
    BY <1>5, <2>1, <2>4, <2>6
  <2> QED
    BY <1>8, <2>3, <2>5, <2>6, <2>7
<1>13. Lists(MatrixList, T) /\ Len(MatrixList) = Len(s)
  <2> HIDE DEF S, T, f
  <2> QED
    <3>1. Lists(s, S)
      BY <1>5
    <3> QED
      BY <1>2, <1>10, <3>1, MappedLists
<1> QED
  BY <1>3, <1>4, <1>5, <1>6, <1>8, <1>9, <1>11, <1>12, <1>13

\* The extension goes to every pair of nodes, once with each chunk size and
\* delay there is.
DelayList ==
  [n \in DOMAIN DelayCases |->
     <<DelayCases[n].memNode, DelayCases[n].cpuNode, DelayCases[n].chunk,
       DelayCases[n].delay>>]

DelaySet ==
  Range(config.memNodes) \X Range(config.cpuNodes) \X Chunks
    \X {d \in 0..MaxDelay : IsDelay(d)}

LEMMA DelayCasesListed ==
  ASSUME ConfigInv
  PROVE  /\ Lists(DelayList, DelaySet)
         /\ DOMAIN DelayCases = 1..Len(DelayCases)
         /\ Len(DelayCases) \in Nat
         /\ Len(DelayList) = Len(DelayCases)
         /\ \A n \in 1..Len(DelayCases) : DelayCases[n].memNode \in Nodes
<1> DEFINE A == Range(config.memNodes)
           B == Range(config.cpuNodes)
           C == Chunks
           D == {d \in 0..MaxDelay : IsDelay(d)}
           P == Nested(config.memNodes, config.cpuNodes)
           Q == Nested(Ascending(Chunks), Delays)
           s == Nested(P, Q)
           S == (A \X B) \X (C \X D)
           T == A \X B \X C \X D
           f == [x \in S |-> <<x[1][1], x[1][2], x[2][1], x[2][2]>>]
<1>1. /\ Lists(config.memNodes, A) /\ Lists(config.cpuNodes, B)
      /\ Lists(Ascending(Chunks), C) /\ Lists(Delays, D)
  BY Loops DEF ConfigInv
<1>2. /\ DOMAIN f = S
      /\ \A x \in S : f[x] \in T
      /\ \A y \in T : \E x \in S : f[x] = y
      /\ \A x, y \in S : f[x] = f[y] => x = y
  BY Quadruples
<1>a. A \subseteq Nodes
  <2>1. config.memNodes \in Seq(Nodes)
    BY DEF ConfigInv, ConfigOK
  <2> QED
    BY <2>1 DEF Range
<1> HIDE DEF A, B, C, D
<1>3. Lists(P, A \X B) /\ Lists(Q, C \X D)
  BY <1>1, NestedLists
<1> HIDE DEF P, Q
<1>4. Lists(s, S)
  <2> DEFINE E == A \X B
             F == C \X D
  <2>1. Lists(P, E) /\ Lists(Q, F)
    BY <1>3
  <2> HIDE DEF E, F
  <2>2. Lists(s, E \X F)
    BY <2>1, NestedLists
  <2> QED
    BY <2>2 DEF E, F
<1>5. DOMAIN s = 1..Len(s) /\ Len(s) \in Nat /\ \A n \in 1..Len(s) : s[n] \in S
  BY <1>4 DEF Lists
<1>6. DelayCases =
        [n \in DOMAIN s |-> [memNode |-> s[n][1][1], cpuNode |-> s[n][1][2],
                             chunk |-> s[n][2][1], delay |-> s[n][2][2]]]
  BY DEF DelayCases, P, Q
<1> HIDE DEF s
<1>7. /\ DOMAIN DelayCases = 1..Len(s)
      /\ \A n \in 1..Len(s) :
           /\ DelayCases[n].memNode = s[n][1][1]
           /\ DelayCases[n].cpuNode = s[n][1][2]
           /\ DelayCases[n].chunk = s[n][2][1]
           /\ DelayCases[n].delay = s[n][2][2]
  BY <1>5, <1>6
<1>8. Len(DelayCases) = Len(s)
  <2>1. DelayCases = [n \in 1..Len(s) |-> DelayCases[n]]
    BY <1>5, <1>6
  <2> QED
    BY <1>5, <2>1, Vector
<1>9. DelayList = [n \in DOMAIN s |-> f[s[n]]]
  <2>1. ASSUME NEW n \in 1..Len(s)
        PROVE  f[s[n]] = <<DelayCases[n].memNode, DelayCases[n].cpuNode,
                           DelayCases[n].chunk, DelayCases[n].delay>>
    BY <1>5, <1>7
  <2> HIDE DEF f
  <2> QED
    BY <1>5, <1>7, <2>1 DEF DelayList
<1>10. DelaySet = T
  BY DEF DelaySet, A, B, C, D
<1>11. Lists(DelayList, T) /\ Len(DelayList) = Len(s)
  <2> HIDE DEF S, T, f
  <2> QED
    BY <1>2, <1>4, <1>9, MappedLists
<1>12. \A n \in 1..Len(s) : DelayCases[n].memNode \in Nodes
  BY <1>a, <1>5, <1>7
<1> QED
  BY <1>5, <1>7, <1>8, <1>10, <1>11, <1>12

-----------------------------------------------------------------------------
(* The benchmarks that are built.                                          *)

\* How many tests there are at all places, for each of the two modes.
Tests == Len(Places) * Len(Cases)

\* What test n of the throughput tests is: its case and its place.
LEMMA ThroughputTests ==
  ASSUME ConfigInv, NEW first \in Nat
  PROVE  LET s == ThroughputBenchmarks(first) IN
         /\ Tests \in Nat /\ Len(Cases) \in Nat /\ Len(Places) \in Nat
         /\ s = [n \in 1..Tests |-> s[n]]
         /\ \A n \in 1..Tests : s[n].index = first + n - 1
         /\ \A n \in 1..Tests :
              \E p \in 1..Len(Places), c \in 1..Len(Cases) :
                /\ s[n] = At(first, p, c)
                /\ <<PlaceOf(s[n]), s[n].what>> = Nested(PlaceList, Cases)[n]
<1> DEFINE M == Len(Places)
           N == Len(Cases)
           s == ThroughputBenchmarks(first)
           Q(n) == ((n - 1) \div N) + 1
           P(n) == ((n - 1) % N) + 1
<1>1. M \in Nat /\ N \in Nat /\ Tests = M * N /\ Tests \in Nat
  BY PlacesListed, CasesListed DEF Lists, Tests
<1>2. s = [n \in 1..Tests |-> At(first, Q(n), P(n))]
  BY DEF ThroughputBenchmarks, Tests
<1>3. DOMAIN s = 1..Tests /\ s = [n \in 1..Tests |-> s[n]]
  BY <1>2
<1>4. ASSUME NEW n \in 1..Tests
      PROVE  /\ s[n] = At(first, Q(n), P(n))
             /\ Q(n) \in 1..M /\ P(n) \in 1..N
             /\ s[n].index = first + n - 1
             /\ <<PlaceOf(s[n]), s[n].what>> = Nested(PlaceList, Cases)[n]
  <2>1. /\ Q(n) \in 1..M /\ P(n) \in 1..N
        /\ n - 1 = ((n - 1) \div N) * N + ((n - 1) % N)
    <3> HIDE DEF M, N
    <3> QED
      BY <1>1, Turn
  <2>2. s[n] = At(first, Q(n), P(n))
    BY <1>2
  <2>3. s[n].index = first + n - 1
    <3>1. s[n].index = first + (Q(n) - 1) * N + (P(n) - 1)
      BY <2>2 DEF At, TestNumber
    <3>2. Q(n) - 1 = (n - 1) \div N /\ P(n) - 1 = (n - 1) % N
      <4> HIDE DEF N
      <4>1. N \in Nat /\ N # 0 /\ n - 1 \in Nat
        BY <1>1, <2>1
      <4>2. (n - 1) \div N \in Int /\ (n - 1) % N \in Int
        BY <4>1
      <4> QED
        BY <4>2
    <3>3. (n - 1) \div N \in Int /\ (n - 1) % N \in Int
      <4> HIDE DEF N
      <4>1. N \in Nat /\ N # 0 /\ n - 1 \in Nat
        BY <1>1, <2>1
      <4> QED
        BY <4>1
    <3>4. ((n - 1) \div N) * N \in Int
      <4> DEFINE x == (n - 1) \div N
      <4> HIDE DEF x, N
      <4> QED
        BY <1>1, <3>3 DEF x
    <3> DEFINE y == (n - 1) \div N
               z == (n - 1) % N
               q == Q(n)
               p == P(n)
    <3>5. /\ s[n].index = first + (q - 1) * N + (p - 1)
          /\ q - 1 = y /\ p - 1 = z /\ n - 1 = y * N + z
          /\ y * N \in Int /\ z \in Int
      BY <2>1, <3>1, <3>2, <3>3, <3>4
    <3> HIDE DEF y, z, q, p, N, s
    <3>6. s[n].index = first + y * N + z
      BY <3>5
    <3> QED
      BY <1>1, <3>5, <3>6
  <2>4. <<PlaceOf(s[n]), s[n].what>> = <<PlaceList[Q(n)], Cases[P(n)]>>
    <3> DEFINE q == Q(n)
               p == P(n)
    <3>1. q \in DOMAIN Places
      BY <2>1, PlacesListed
    <3>2. s[n] = At(first, q, p)
      BY <2>2
    <3> HIDE DEF q, p, s
    <3> QED
      BY <3>1, <3>2 DEF PlaceOf, PlaceList, At, q, p
  <2>5. Nested(PlaceList, Cases)[n] = <<PlaceList[Q(n)], Cases[P(n)]>>
    <3>1. Len(PlaceList) = M
      BY PlacesListed
    <3>2. Nested(PlaceList, Cases) =
            [j \in 1..(M * N) |-> <<PlaceList[Q(j)], Cases[P(j)]>>]
      BY <3>1 DEF Nested
    <3>3. n \in 1..(M * N)
      BY <1>1
    <3> QED
      BY <3>2, <3>3
  <2> QED
    BY <2>1, <2>2, <2>3, <2>4, <2>5
<1> HIDE DEF s, Q, P
<1> QED
  BY <1>1, <1>3, <1>4 DEF s

-----------------------------------------------------------------------------
(* What has been built, and what has been run.                             *)

\* Where the numbering of the tests has got to after buildBenchmarks().
NextTest ==
  config.base + IF built THEN Tests + 2 * Len(MatrixCases) ELSE 0

\* The benchmarks of all modes are built at once, when none is there yet.
Built ==
  /\ bench.T = ThroughputBenchmarks(config.base)
  /\ bench.L = LatencyBenchmarks(config.base)
  /\ bench.LM = MatrixBenchmarks("LM", config.base + Tests)
  /\ bench.TM = MatrixBenchmarks("TM", config.base + Tests + Len(MatrixCases))

ExtensionBegun == stage = "end" \/ (stage = "E" /\ i > 0)

BenchInv ==
  /\ stage \in {"rejected", "setup", "end"} \cup Stages
  /\ i \in Nat
  /\ built \in BOOLEAN
  /\ stage \in Stages => setup = "ready"
  /\ stage \in {"rejected", "setup"} => ~built
  /\ stage \notin Selected => i = 0
  /\ stage \in Modes /\ i > 0 => built
  /\ stage = "E" /\ i > 0 => config.workers >= 2
  /\ DOMAIN bench = Stages
  /\ IF built THEN Built ELSE \A m \in Modes : bench[m] = <<>>
  /\ IF ExtensionBegun
     THEN bench.E \in {<<>>, DelayBenchmarks(NextTest)}
     ELSE bench.E = <<>> /\ testIndex = NextTest

\* What the loops go through depends on the configuration only, and the
\* benchmarks depend on it and on the memory.
LEMMA LoopsStay ==
  ASSUME config' = config
  PROVE  /\ Places' = Places /\ Cases' = Cases /\ Tests' = Tests
         /\ MatrixCases' = MatrixCases /\ DelayCases' = DelayCases
         /\ Selected' = Selected /\ RegionIds' = RegionIds
<1>1. Places' = Places
  BY DEF Places, RegionNumber, RegionList, Nested
<1>2. RWList' = RWList /\ ChunkList' = ChunkList /\ StrideList' = StrideList
  BY DEF RWList, ChunkList, StrideList, Listed, Ascending
<1>3. Cases' = Cases
  BY <1>2 DEF Cases, SequentialCases, RandomCases, Nested, Ascending
<1>4. NumRegions' = NumRegions /\ ProcessorUnits' = ProcessorUnits
  BY DEF NumRegions, ProcessorUnits
<1>5. MatrixCases' = MatrixCases
  BY <1>2, <1>4 DEF MatrixCases, AllRegionList, Nested
<1>6. DelayCases' = DelayCases
  BY DEF DelayCases, Nested, Ascending, Delays
<1> QED
  BY <1>1, <1>3, <1>4, <1>5, <1>6 DEF Tests, Selected, RegionIds

LEMMA BenchmarksStay ==
  ASSUME UNCHANGED <<config, array, len, node>>
  PROVE  /\ ThroughputBenchmarks(config.base)' =
              ThroughputBenchmarks(config.base)
         /\ LatencyBenchmarks(config.base)' = LatencyBenchmarks(config.base)
         /\ MatrixBenchmarks("LM", config.base + Tests)' =
              MatrixBenchmarks("LM", config.base + Tests)
         /\ MatrixBenchmarks("TM", config.base + Tests + Len(MatrixCases))' =
              MatrixBenchmarks("TM", config.base + Tests + Len(MatrixCases))
         /\ built' = built => /\ NextTest' = NextTest
                              /\ DelayBenchmarks(NextTest)' =
                                   DelayBenchmarks(NextTest)
<1>1. /\ Places' = Places /\ Cases' = Cases /\ Tests' = Tests
      /\ MatrixCases' = MatrixCases /\ DelayCases' = DelayCases
      /\ RegionIds' = RegionIds
  BY LoopsStay
<1>2. ThroughputBenchmarks(config.base)' = ThroughputBenchmarks(config.base)
  BY <1>1 DEF ThroughputBenchmarks, At, TestNumber, ArrayOf, LenOf
<1>3. LatencyBenchmarks(config.base)' = LatencyBenchmarks(config.base)
  BY <1>1, <1>2 DEF LatencyBenchmarks, At, TestNumber, ArrayOf, LenOf
<1>4. /\ MatrixBenchmarks("LM", config.base + Tests)' =
           MatrixBenchmarks("LM", config.base + Tests)
      /\ MatrixBenchmarks("TM", config.base + Tests + Len(MatrixCases))' =
           MatrixBenchmarks("TM", config.base + Tests + Len(MatrixCases))
  BY <1>1 DEF MatrixBenchmarks, MatrixWorkers
<1>5. ASSUME built' = built
      PROVE  /\ NextTest' = NextTest
             /\ DelayBenchmarks(NextTest)' = DelayBenchmarks(NextTest)
  <2>1. NextTest' = NextTest
    BY <1>1, <1>5 DEF NextTest
  <2> QED
    BY <1>1, <2>1 DEF DelayBenchmarks, ArrayOf, LenOf
<1> QED
  BY <1>2, <1>3, <1>4, <1>5

\* Each mode's benchmarks are a vector.
LEMMA Vectors ==
  ASSUME ConfigInv, NEW first \in Nat
  PROVE  /\ Tests \in Nat /\ Len(MatrixCases) \in Nat
         /\ Len(DelayCases) \in Nat
         /\ LET s == ThroughputBenchmarks(first)
            IN s = [n \in 1..Tests |-> s[n]]
         /\ LET s == LatencyBenchmarks(first)
            IN \E N \in Nat : s = [n \in 1..N |-> s[n]]
         /\ \A mode \in {"LM", "TM"} :
              LET s == MatrixBenchmarks(mode, first)
              IN s = [n \in 1..Len(MatrixCases) |-> s[n]]
         /\ LET s == DelayBenchmarks(first)
            IN s = [n \in 1..Len(DelayCases) |-> s[n]]
<1>1. /\ Tests \in Nat /\ Len(Places) \in Nat
      /\ ThroughputBenchmarks(first) =
           [n \in 1..Tests |-> ThroughputBenchmarks(first)[n]]
  BY ThroughputTests
<1>2. Len(MatrixCases) \in Nat /\ Len(DelayCases) \in Nat
  BY MatrixCasesListed, DelayCasesListed
<1>3. \E N \in Nat :
        LatencyBenchmarks(first) =
          [n \in 1..N |-> LatencyBenchmarks(first)[n]]
  <2>1. CASE config.workers > 1 \/ Cases = <<>>
    <3>1. LatencyBenchmarks(first) = ThroughputBenchmarks(first)
      BY <2>1 DEF LatencyBenchmarks
    <3> QED
      BY <1>1, <3>1
  <2>2. CASE ~(config.workers > 1 \/ Cases = <<>>)
    <3>1. LatencyBenchmarks(first) =
            [p \in 1..Len(Places) |-> At(first, p, 1)]
      BY <2>2 DEF LatencyBenchmarks
    <3>2. LatencyBenchmarks(first) =
            [p \in 1..Len(Places) |-> LatencyBenchmarks(first)[p]]
      BY <3>1
    <3> QED
      BY <1>1, <3>2
  <2> QED
    BY <2>1, <2>2
<1>4. ASSUME NEW mode \in {"LM", "TM"}
      PROVE  MatrixBenchmarks(mode, first) =
               [n \in 1..Len(MatrixCases) |->
                  MatrixBenchmarks(mode, first)[n]]
  BY DEF MatrixBenchmarks
<1>5. DelayBenchmarks(first) =
        [n \in 1..Len(DelayCases) |-> DelayBenchmarks(first)[n]]
  BY DEF DelayBenchmarks
<1> QED
  BY <1>1, <1>2, <1>3, <1>4, <1>5

LEMMA InitialBenchmarks == Init /\ ConfigInv => BenchInv
<1> SUFFICES ASSUME Init, ConfigInv
             PROVE  BenchInv
  OBVIOUS
<1>1. /\ stage \in {"rejected", "setup"} /\ i = 0 /\ built = FALSE
      /\ testIndex = config.base /\ bench = Empty
  BY DEF Init
<1>2. stage \notin Stages /\ stage \notin Modes /\ ~ExtensionBegun
  BY <1>1 DEF Stages, Modes, ExtensionBegun
<1>3. DOMAIN bench = Stages /\ \A m \in Stages : bench[m] = <<>>
  BY <1>1 DEF Empty
<1>4. Modes \subseteq Stages /\ "E" \in Stages
  BY DEF Stages
<1>5. NextTest = config.base
  BY <1>1 DEF NextTest, ConfigInv
<1> QED
  BY <1>1, <1>2, <1>3, <1>4, <1>5 DEF BenchInv

\* Where nothing is built, what has been built stays as it is.
LEMMA NothingBuilt ==
  ASSUME BenchInv, UNCHANGED <<config, array, len, node, bench, built>>
  PROVE  /\ IF built' THEN Built' ELSE \A m \in Modes : bench'[m] = <<>>
         /\ NextTest' = NextTest
         /\ DelayBenchmarks(NextTest)' = DelayBenchmarks(NextTest)
<1>1. Built => Built'
  BY BenchmarksStay DEF Built
<1> QED
  BY <1>1, BenchmarksStay DEF BenchInv

\* buildBenchmarks() builds everything, numbered from the base on.
LEMMA BuildsAll ==
  ASSUME ConfigInv, BenchInv, ~built, ~ExtensionBegun, BuildBenchmarks,
         built' = TRUE, UNCHANGED wsVars
  PROVE  /\ Built' /\ testIndex' = NextTest'
         /\ bench'.E = bench.E /\ DOMAIN bench' = Stages
<1>1. config.base \in Nat
  BY DEF ConfigInv
<1>2. testIndex = config.base
  BY <1>1 DEF BenchInv, NextTest
<1>3. bench.T = <<>> /\ bench.L = <<>> /\ bench.LM = <<>> /\ bench.TM = <<>>
  BY DEF BenchInv, Modes
<1>4. UNCHANGED <<config, array, len, node>>
  BY DEF wsVars
<1>5. Tests \in Nat /\ Len(MatrixCases) \in Nat
  BY <1>1, Vectors
<1> DEFINE b == config.base
           t == ThroughputBenchmarks(b)
           l == LatencyBenchmarks(b)
           lm == MatrixBenchmarks("LM", b + Tests)
           tm == MatrixBenchmarks("TM", b + Tests + Len(MatrixCases))
<1>6. /\ <<>> \o t = t /\ <<>> \o l = l
      /\ <<>> \o lm = lm /\ <<>> \o tm = tm
  <2>1. <<>> \o t = t
    BY <1>1, Vectors, Vector
  <2>2. <<>> \o l = l
    <3>1. PICK N \in Nat : l = [n \in 1..N |-> l[n]]
      BY <1>1, Vectors
    <3> HIDE DEF l
    <3> QED
      BY <3>1, Vector
  <2>3. b + Tests \in Nat /\ b + Tests + Len(MatrixCases) \in Nat
    BY <1>1, <1>5
  <2>4. <<>> \o lm = lm
    BY <1>5, <2>3, Vectors, Vector
  <2>5. <<>> \o tm = tm
    BY <1>5, <2>3, Vectors, Vector
  <2> QED
    BY <2>1, <2>2, <2>4, <2>5
<1>7. /\ bench' = [T |-> bench.T \o t, L |-> bench.L \o l,
                   LM |-> bench.LM \o lm, TM |-> bench.TM \o tm,
                   E |-> bench.E]
      /\ testIndex' = b + Tests + 2 * Len(MatrixCases)
  BY <1>2 DEF BuildBenchmarks, Tests
<1>8. bench' = [T |-> t, L |-> l, LM |-> lm, TM |-> tm, E |-> bench.E]
  BY <1>3, <1>6, <1>7
<1> HIDE DEF t, l, lm, tm
<1>9. bench'.T = t /\ bench'.L = l /\ bench'.LM = lm /\ bench'.TM = tm
      /\ bench'.E = bench.E /\ DOMAIN bench' = {"T", "L", "LM", "TM", "E"}
  BY <1>8
<1>10. DOMAIN bench' = Stages
  BY <1>9 DEF Stages, Modes
<1>11. Built'
  BY <1>4, <1>9, BenchmarksStay DEF Built, t, l, lm, tm
<1>12. testIndex' = NextTest'
  <2>1. NextTest' = config.base + (Tests + 2 * Len(MatrixCases))
    BY <1>4, LoopsStay DEF NextTest
  <2> QED
    BY <1>1, <1>5, <1>7, <2>1
<1> QED
  BY <1>9, <1>10, <1>11, <1>12

LEMMA AllAreVectors ==
  ASSUME ConfigInv, BenchInv, NEW m \in Stages
  PROVE  \E N \in Nat : bench[m] = [n \in 1..N |-> bench[m][n]]
<1>1. /\ config.base \in Nat /\ Tests \in Nat /\ Len(MatrixCases) \in Nat
      /\ Len(DelayCases) \in Nat
  BY Vectors DEF ConfigInv
<1>2. /\ config.base + Tests \in Nat
      /\ config.base + Tests + Len(MatrixCases) \in Nat
      /\ NextTest \in Nat
  BY <1>1 DEF NextTest
<1>3. CASE bench[m] = <<>>
  <2>1. <<>> = [n \in 1..0 |-> bench[m][n]]
    OBVIOUS
  <2> QED
    BY <1>3, <2>1
<1>4. CASE m \in Modes /\ built
  <2>1. CASE m = "T"
    <3> DEFINE t == ThroughputBenchmarks(config.base)
    <3>1. t = [n \in 1..Tests |-> t[n]]
      BY <1>1, Vectors
    <3>2. bench[m] = t
      BY <1>4, <2>1 DEF BenchInv, Built
    <3> HIDE DEF t
    <3> QED
      BY <1>1, <3>1, <3>2
  <2>2. CASE m = "L"
    <3> DEFINE t == LatencyBenchmarks(config.base)
    <3>1. PICK N \in Nat : t = [n \in 1..N |-> t[n]]
      BY <1>1, Vectors
    <3>2. bench[m] = t
      BY <1>4, <2>2 DEF BenchInv, Built
    <3> HIDE DEF t
    <3> QED
      BY <3>1, <3>2
  <2>3. CASE m = "LM"
    <3> DEFINE t == MatrixBenchmarks("LM", config.base + Tests)
    <3>1. t = [n \in 1..Len(MatrixCases) |-> t[n]]
      BY <1>2, Vectors
    <3>2. bench[m] = t
      BY <1>4, <2>3 DEF BenchInv, Built
    <3> HIDE DEF t
    <3> QED
      BY <1>1, <3>1, <3>2
  <2>4. CASE m = "TM"
    <3> DEFINE t == MatrixBenchmarks("TM",
                      config.base + Tests + Len(MatrixCases))
    <3>1. t = [n \in 1..Len(MatrixCases) |-> t[n]]
      BY <1>2, Vectors
    <3>2. bench[m] = t
      BY <1>4, <2>4 DEF BenchInv, Built
    <3> HIDE DEF t
    <3> QED
      BY <1>1, <3>1, <3>2
  <2> QED
    BY <1>4, <2>1, <2>2, <2>3, <2>4 DEF Modes
<1>5. CASE m = "E" /\ bench[m] # <<>>
  <2> DEFINE t == DelayBenchmarks(NextTest)
  <2>1. t = [n \in 1..Len(DelayCases) |-> t[n]]
    BY <1>2, Vectors
  <2>2. bench[m] = t
    BY <1>5 DEF BenchInv
  <2> HIDE DEF t
  <2> QED
    BY <1>1, <2>1, <2>2
<1>6. m \in Modes /\ ~built => bench[m] = <<>>
  BY DEF BenchInv
<1> QED
  BY <1>3, <1>4, <1>5, <1>6 DEF Stages, BenchInv

LEMMA StepOfBenchmarks ==
  ASSUME ConfigInv, BenchInv, [Next]_vars
  PROVE  BenchInv'
<1>1. config' = config
  BY ConfigStays
<1>2. Selected' = Selected /\ config.modes \subseteq Modes
  BY <1>1, LoopsStay DEF ConfigInv
<1>3. /\ Modes = {"T", "L", "LM", "TM"}
      /\ Stages = {"T", "L", "LM", "TM", "E"}
      /\ Selected \subseteq Stages
      /\ \A m \in Selected : m = "E" \/ m \in config.modes
  BY <1>2 DEF Modes, Stages, Selected
<1>4. /\ NextStage["setup"] = "T" /\ NextStage["T"] = "L"
      /\ NextStage["L"] = "LM" /\ NextStage["LM"] = "TM"
      /\ NextStage["TM"] = "E" /\ NextStage["E"] = "end"
  BY DEF NextStage
<1>5. \A m \in Stages : NextStage[m] \in (Stages \cup {"end"}) \ {"T"}
  BY <1>3, <1>4
<1>6. /\ i \in Nat /\ built \in BOOLEAN /\ DOMAIN bench = Stages
      /\ stage \in {"rejected", "setup", "end"} \cup Stages
  BY DEF BenchInv
\* A step that builds nothing.
<1>7. ASSUME UNCHANGED <<array, len, node, bench, built, testIndex>>,
             stage' \in {"rejected", "setup", "end"} \cup Stages,
             i' \in Nat,
             stage' \in Stages => setup' = "ready",
             stage' \in {"rejected", "setup"} => ~built,
             stage' \notin Selected => i' = 0,
             stage' \in Modes /\ i' > 0 => built,
             stage' = "E" /\ i' > 0 => config.workers >= 2,
             ExtensionBegun => ExtensionBegun'
      PROVE  BenchInv'
  <2>1. /\ IF built' THEN Built' ELSE \A m \in Modes : bench'[m] = <<>>
        /\ NextTest' = NextTest
        /\ DelayBenchmarks(NextTest)' = DelayBenchmarks(NextTest)
    BY <1>1, <1>7, NothingBuilt
  <2>2. IF ExtensionBegun'
        THEN bench'.E \in {<<>>, DelayBenchmarks(NextTest)'}
        ELSE bench'.E = <<>> /\ testIndex' = NextTest'
    BY <1>7, <2>1 DEF BenchInv
  <2> QED
    BY <1>1, <1>2, <1>3, <1>6, <1>7, <2>1, <2>2 DEF BenchInv
<1>8. CASE SetUp
  <2>1. stage = "setup" /\ UNCHANGED managerVars
    BY <1>8 DEF SetUp
  <2>2. /\ ~built /\ bench.E = <<>> /\ testIndex = NextTest
        /\ i = 0 /\ \A m \in Modes : bench[m] = <<>>
        /\ ~ExtensionBegun
    BY <1>3, <2>1 DEF BenchInv, ExtensionBegun
  <2>3. /\ stage' = stage /\ i' = i /\ built' = built /\ bench' = bench
        /\ testIndex' = testIndex
    BY <2>1 DEF managerVars
  <2>4. NextTest' = NextTest
    BY <1>1, <2>2, <2>3 DEF NextTest
  <2>5. ~ExtensionBegun' /\ ~built' /\ i' = 0
    BY <2>2, <2>3 DEF ExtensionBegun
  <2> QED
    BY <1>1, <1>3, <1>6, <2>1, <2>2, <2>3, <2>4, <2>5 DEF BenchInv
<1>9. CASE Advance
  <2>1. /\ UNCHANGED <<wsVars, i, built, testIndex, bench>>
        /\ stage' = NextStage[stage]
        /\ \/ stage = "setup" /\ setup = "ready"
           \/ stage \in Stages /\ stage \notin Selected
    BY <1>9 DEF Advance
  <2>2. UNCHANGED <<array, len, node, setup>>
    BY <2>1 DEF wsVars
  <2>3. i = 0 /\ setup = "ready"
    BY <1>3, <2>1 DEF BenchInv
  <2>4. stage' \in Stages \cup {"end"} /\ i' = 0 /\ setup' = "ready"
    BY <1>3, <1>4, <1>5, <2>1, <2>2, <2>3
  <2>5. ~ExtensionBegun
    BY <1>3, <2>1, <2>3 DEF ExtensionBegun
  <2> QED
    BY <1>3, <1>7, <2>1, <2>2, <2>4, <2>5
<1>10. CASE BeginMode
  <2>1. /\ stage \in config.modes /\ i = 0 /\ i' = 1 /\ built' = TRUE
        /\ IF built THEN UNCHANGED <<bench, testIndex>> ELSE BuildBenchmarks
        /\ UNCHANGED <<wsVars, stage>>
    BY <1>10 DEF BeginMode, SetBuilt
  <2>2. UNCHANGED <<config, array, len, node, setup>>
    BY <2>1 DEF wsVars
  <2>3. /\ stage \in Modes /\ stage \in Selected /\ stage # "E"
        /\ setup = "ready" /\ ~ExtensionBegun /\ ~ExtensionBegun'
    BY <1>2, <1>3, <2>1 DEF BenchInv, Selected, ExtensionBegun
  <2>4. CASE built
    BY <1>3, <1>6, <1>7, <2>1, <2>2, <2>3, <2>4
  <2>5. CASE ~built
    <3>1. /\ Built' /\ testIndex' = NextTest'
          /\ bench'.E = bench.E /\ DOMAIN bench' = Stages
      BY <2>1, <2>3, <2>5, BuildsAll
    <3>2. bench.E = <<>>
      BY <2>3 DEF BenchInv
    <3>3. stage' = stage /\ i' \in Nat
      BY <2>1
    <3> QED
      BY <1>1, <1>2, <1>3, <1>6, <2>1, <2>2, <2>3, <3>1, <3>2, <3>3
         DEF BenchInv
  <2> QED
    BY <2>4, <2>5
<1>11. CASE BeginExtension
  <2>1. /\ stage = "E" /\ stage \in Selected /\ config.workers >= 2
        /\ i = 0 /\ i' = 1
        /\ bench' = [bench EXCEPT !.E = DelayBenchmarks(testIndex)]
        /\ UNCHANGED <<wsVars, stage, built>>
    BY <1>11 DEF BeginExtension
  <2>2. UNCHANGED <<config, array, len, node, setup>>
    BY <2>1 DEF wsVars
  <2>3. ~ExtensionBegun /\ testIndex = NextTest /\ setup = "ready"
    BY <1>3, <2>1 DEF ExtensionBegun, BenchInv
  <2>4. /\ DOMAIN bench' = Stages /\ bench'.E = DelayBenchmarks(NextTest)
        /\ bench'.T = bench.T /\ bench'.L = bench.L /\ bench'.LM = bench.LM
        /\ bench'.TM = bench.TM
    BY <1>3, <1>6, <2>1, <2>3
  <2>5. /\ NextTest' = NextTest
        /\ DelayBenchmarks(NextTest)' = DelayBenchmarks(NextTest)
    BY <2>1, <2>2, BenchmarksStay
  <2>6. IF built' THEN Built' ELSE \A m \in Modes : bench'[m] = <<>>
    <3>1. CASE built
      BY <2>1, <2>2, <2>4, <3>1, BenchmarksStay DEF BenchInv, Built
    <3>2. CASE ~built
      <4>1. \A m \in Modes : bench[m] = <<>>
        BY <3>2 DEF BenchInv
      <4> QED
        BY <1>3, <2>1, <2>4, <3>2, <4>1
    <3> QED
      BY <3>1, <3>2
  <2>7. ExtensionBegun'
    BY <2>1 DEF ExtensionBegun
  <2>8. stage' = "E" /\ i' = 1 /\ stage' \notin Modes /\ stage' \in Stages
        /\ stage' \in Selected' /\ setup' = "ready" /\ built' \in BOOLEAN
    BY <1>2, <1>3, <1>6, <2>1, <2>2, <2>3
  <2> QED
    BY <1>1, <1>3, <2>1, <2>4, <2>5, <2>6, <2>7, <2>8 DEF BenchInv
<1>12. CASE RefuseExtension
  <2>1. /\ stage = "E" /\ stage' = "end" /\ config.workers < 2
        /\ UNCHANGED <<wsVars, i, built, testIndex, bench>>
    BY <1>4, <1>12 DEF RefuseExtension
  <2>2. UNCHANGED <<array, len, node, setup>>
    BY <2>1 DEF wsVars
  <2>3. i = 0
    <3>1. config.workers \in Nat
      BY DEF ConfigInv, ConfigOK
    <3> QED
      BY <1>6, <2>1, <3>1 DEF BenchInv
  <2>4. ~ExtensionBegun
    BY <2>1, <2>3 DEF ExtensionBegun
  <2> QED
    BY <1>3, <1>7, <2>1, <2>2, <2>3, <2>4
<1>13. CASE RunBenchmark
  <2>1. /\ stage \in Selected /\ i \in DOMAIN bench[stage] /\ i' = i + 1
        /\ UNCHANGED <<wsVars, stage, built, testIndex, bench>>
    BY <1>13 DEF RunBenchmark, AfterFailure
  <2>2. UNCHANGED <<array, len, node, setup>>
    BY <2>1 DEF wsVars
  <2>3. i > 0
    <3>1. PICK N \in Nat : bench[stage] = [n \in 1..N |-> bench[stage][n]]
      BY <1>3, <2>1, AllAreVectors
    <3>2. DOMAIN bench[stage] = 1..N
      BY <3>1
    <3> QED
      BY <1>6, <2>1, <3>2
  <2> QED
    BY <1>3, <1>6, <1>7, <2>1, <2>2, <2>3 DEF BenchInv, ExtensionBegun
<1>14. CASE EndMode
  <2>1. /\ stage \in Selected /\ i > 0 /\ stage' = NextStage[stage] /\ i' = 0
        /\ UNCHANGED <<wsVars, built, testIndex, bench>>
    BY <1>14 DEF EndMode
  <2>2. UNCHANGED <<array, len, node, setup>>
    BY <2>1 DEF wsVars
  <2>3. ExtensionBegun => ExtensionBegun'
    BY <1>3, <1>4, <2>1 DEF ExtensionBegun
  <2>4. stage' \in Stages \cup {"end"} /\ setup' = "ready"
    BY <1>3, <1>5, <2>1, <2>2 DEF BenchInv
  <2> QED
    BY <1>3, <1>7, <2>1, <2>2, <2>3, <2>4
<1>15. CASE Destroy
  <2>1. stage = "end" /\ UNCHANGED managerVars /\ UNCHANGED <<array, len, node>>
    BY <1>15 DEF Destroy, Release, StartRelease, ReleaseRegion, AllReleased
  <2>2. UNCHANGED <<bench, built, testIndex, stage, i>>
    BY <2>1 DEF managerVars
  <2>3. i = 0 /\ ExtensionBegun'
    BY <1>3, <2>1, <2>2 DEF BenchInv, ExtensionBegun
  <2> QED
    BY <1>3, <1>7, <2>1, <2>2, <2>3
<1>16. CASE UNCHANGED vars
  <2>1. UNCHANGED <<array, len, node, setup, bench, built, testIndex, stage, i>>
    BY <1>16 DEF vars, wsVars, managerVars
  <2> QED
    BY <1>2, <1>6, <1>7, <2>1 DEF BenchInv, ExtensionBegun
<1>17. Done => UNCHANGED vars
  BY DEF Done
<1> QED
  BY <1>8, <1>9, <1>10, <1>11, <1>12, <1>13, <1>14, <1>15, <1>16, <1>17 DEF Next

\* The flag built_benchmarks_ does what it is for: whatever modes are run,
\* there is one vector of benchmarks of each, built once, and a benchmark is
\* run only while the memory is set up.
THEOREM BenchmarksBuiltOnce == Spec => []BenchInv
BY InitialConfig, ConfigurationIsSound, InitialBenchmarks, StepOfBenchmarks, PTL
   DEF Spec

-----------------------------------------------------------------------------
(* The numbers in the names of the tests.                                  *)

\* Each latency test is a throughput test, and no two are the same one.
LEMMA LatencyTests ==
  ASSUME ConfigInv, NEW first \in Nat
  PROVE  LET s == LatencyBenchmarks(first)
             t == ThroughputBenchmarks(first)
         IN /\ \A p \in DOMAIN s : \E n \in 1..Tests : s[p] = t[n]
            /\ \A p, q \in DOMAIN s : s[p].index = s[q].index => p = q
<1> DEFINE s == LatencyBenchmarks(first)
           t == ThroughputBenchmarks(first)
           M == Len(Places)
           N == Len(Cases)
<1>1. /\ Tests \in Nat /\ M \in Nat /\ N \in Nat
      /\ t = [n \in 1..Tests |-> t[n]]
      /\ \A n \in 1..Tests : t[n].index = first + n - 1
  BY ThroughputTests
<1>2. CASE config.workers > 1 \/ Cases = <<>>
  <2>1. s = t
    BY <1>2 DEF LatencyBenchmarks
  <2>2. DOMAIN s = 1..Tests
    BY <1>1, <2>1
  <2> HIDE DEF s, t
  <2>3. \A p, q \in 1..Tests : first + p - 1 = first + q - 1 => p = q
    BY <1>1
  <2> QED
    BY <1>1, <2>1, <2>2, <2>3 DEF s, t
<1>3. CASE ~(config.workers > 1 \/ Cases = <<>>)
  <2>1. s = [p \in 1..M |-> At(first, p, 1)]
    BY <1>3 DEF LatencyBenchmarks
  <2>2. 1 \in 1..N
    <3>1. Cases \in [1..N -> Wanted]
      BY CasesListed DEF Lists
    <3>2. Cases \in Seq(Wanted) /\ Cases # <<>>
      <4> HIDE DEF N
      <4>1. Cases \in Seq(Wanted)
        BY <1>1, <3>1
      <4> QED
        BY <1>3, <4>1
    <3>3. N # 0
      BY <3>2
    <3> QED
      BY <1>1, <3>3
  <2>3. ASSUME NEW p \in 1..M
        PROVE  /\ Position(p, N, 1) \in 1..Tests
               /\ ((Position(p, N, 1) - 1) \div N) + 1 = p
               /\ s[p] = t[Position(p, N, 1)]
    <3> DEFINE n == Position(p, N, 1)
    <3>1. /\ n \in 1..Tests
          /\ ((n - 1) \div N) + 1 = p
          /\ ((n - 1) % N) + 1 = 1
      <4>1. Tests = M * N
        BY DEF Tests
      <4> HIDE DEF M, N, n
      <4>2. PICK c \in 1..N : c = 1
        BY <2>2
      <4>3. LET j == Position(p, N, c) IN
            /\ j \in 1..(M * N)
            /\ ((j - 1) \div N) + 1 = p
            /\ ((j - 1) % N) + 1 = c
        BY <1>1, TurnAt
      <4>4. n = Position(p, N, c)
        BY <4>2 DEF n
      <4> QED
        BY <4>1, <4>2, <4>3, <4>4
    <3> HIDE DEF n
    <3>2. t[n] = At(first, ((n - 1) \div N) + 1, ((n - 1) % N) + 1)
      BY <3>1 DEF ThroughputBenchmarks, Tests
    <3>3. t[n] = At(first, p, 1)
      BY <3>1, <3>2
    <3>4. s[p] = At(first, p, 1)
      BY <2>1
    <3> QED
      BY <3>1, <3>3, <3>4 DEF n
  <2>4. DOMAIN s = 1..M
    BY <2>1
  <2>5. ASSUME NEW p \in 1..M, NEW q \in 1..M, s[p].index = s[q].index
        PROVE  p = q
    <3> DEFINE x == Position(p, N, 1)
               y == Position(q, N, 1)
    <3>1. x \in 1..Tests /\ y \in 1..Tests /\ t[x].index = t[y].index
      BY <2>3, <2>5
    <3>2. ((x - 1) \div N) + 1 = p /\ ((y - 1) \div N) + 1 = q
      BY <2>3
    <3> HIDE DEF x, y, t
    <3>3. first + x - 1 = first + y - 1
      BY <1>1, <3>1
    <3>4. x = y
      BY <3>1, <3>3
    <3> QED
      BY <3>2, <3>4
  <2> HIDE DEF s, t
  <2> QED
    BY <2>3, <2>4, <2>5 DEF s, t
<1> QED
  BY <1>2, <1>3

\* The first number of a mode.
FirstTest ==
  [T |-> config.base, L |-> config.base, LM |-> config.base + Tests,
   TM |-> config.base + Tests + Len(MatrixCases), E |-> NextTest]

\* Numbers of different modes are in different ranges.
LEMMA Numbers ==
  ASSUME ConfigInv, BenchInv, NEW m \in Stages, NEW n \in DOMAIN bench[m]
  PROVE  /\ m = "L" => \E j \in DOMAIN bench.T : bench[m][n] = bench.T[j]
         /\ n \in Nat \ {0}
         /\ m # "L" => bench[m][n].index = FirstTest[m] + n - 1
         /\ m = "T" => n <= Tests
         /\ m \in {"LM", "TM"} => n <= Len(MatrixCases)
         /\ m # "E" => built
<1>1. /\ config.base \in Nat /\ Tests \in Nat /\ Len(MatrixCases) \in Nat
      /\ Len(DelayCases) \in Nat
  BY Vectors DEF ConfigInv
<1>2. /\ config.base + Tests \in Nat
      /\ config.base + Tests + Len(MatrixCases) \in Nat
      /\ NextTest \in Nat
  BY <1>1 DEF NextTest
<1>3. \E N \in Nat : bench[m] = [j \in 1..N |-> bench[m][j]]
  BY AllAreVectors
<1>4. n \in Nat \ {0}
  <2>1. PICK N \in Nat : bench[m] = [j \in 1..N |-> bench[m][j]]
    BY <1>3
  <2>2. DOMAIN bench[m] = 1..N
    BY <2>1
  <2> QED
    BY <2>2
<1>5. m # "E" => built
  <2>1. m # "E" /\ ~built => bench[m] = <<>>
    BY DEF BenchInv, Stages
  <2>2. bench[m] # <<>>
    OBVIOUS
  <2> QED
    BY <2>1, <2>2 DEF BenchInv
<1>6. CASE m = "T"
  <2>1. bench[m] = ThroughputBenchmarks(config.base)
    BY <1>5, <1>6 DEF BenchInv, Built
  <2> DEFINE t == ThroughputBenchmarks(config.base)
  <2>2. /\ t = [j \in 1..Tests |-> t[j]]
        /\ \A j \in 1..Tests : t[j].index = config.base + j - 1
    BY <1>1, ThroughputTests
  <2> HIDE DEF t
  <2>3. DOMAIN t = 1..Tests
    BY <2>2
  <2>4. n \in 1..Tests /\ bench[m][n].index = config.base + n - 1
    BY <2>1, <2>2, <2>3 DEF t
  <2>5. FirstTest[m] = config.base
    BY <1>6 DEF FirstTest
  <2> QED
    BY <1>1, <1>4, <1>5, <1>6, <2>4, <2>5
<1>7. CASE m = "L"
  <2> DEFINE l == LatencyBenchmarks(config.base)
             t == ThroughputBenchmarks(config.base)
  <2>1. bench[m] = l /\ bench.T = t
    BY <1>5, <1>7 DEF BenchInv, Built
  <2>2. \A p \in DOMAIN l : \E j \in 1..Tests : l[p] = t[j]
    BY <1>1, LatencyTests
  <2>3. DOMAIN t = 1..Tests
    BY DEF ThroughputBenchmarks, Tests
  <2> HIDE DEF l, t
  <2> QED
    BY <1>4, <1>5, <1>7, <2>1, <2>2, <2>3
<1>8. CASE m \in {"LM", "TM"}
  <2>1. bench[m] = MatrixBenchmarks(m, FirstTest[m])
    BY <1>5, <1>8 DEF BenchInv, Built, FirstTest
  <2>2. DOMAIN bench[m] = 1..Len(MatrixCases)
    BY <2>1 DEF MatrixBenchmarks
  <2>3. bench[m][n].index = FirstTest[m] + n - 1
    BY <2>1, <2>2 DEF MatrixBenchmarks
  <2> QED
    BY <1>1, <1>4, <1>5, <1>8, <2>2, <2>3
<1>9. CASE m = "E"
  <2>1. bench[m] # <<>>
    OBVIOUS
  <2>2. bench[m] = DelayBenchmarks(NextTest)
    BY <1>9, <2>1 DEF BenchInv
  <2>3. DOMAIN bench[m] = 1..Len(DelayCases)
    BY <2>2 DEF DelayBenchmarks
  <2>4. bench[m][n].index = NextTest + n - 1
    BY <2>2, <2>3 DEF DelayBenchmarks
  <2>5. FirstTest[m] = NextTest
    BY <1>9 DEF FirstTest
  <2> QED
    BY <1>4, <1>9, <2>4, <2>5
<1> QED
  BY <1>6, <1>7, <1>8, <1>9 DEF Stages, Modes

LEMMA NumbersIdentify ==
  ASSUME ConfigInv, BenchInv
  PROVE  TestNumbersIdentify
<1>1. /\ config.base \in Nat /\ Tests \in Nat /\ Len(MatrixCases) \in Nat
  BY Vectors DEF ConfigInv
<1> DEFINE X == Len(MatrixCases)
           b == config.base
<1>2. /\ FirstTest["T"] = b /\ FirstTest["LM"] = b + Tests
      /\ FirstTest["TM"] = b + Tests + X
      /\ FirstTest["E"] = NextTest
      /\ built => NextTest = b + (Tests + 2 * X)
  BY DEF FirstTest, NextTest
<1>3. \A m \in Stages : m # "L" => FirstTest[m] \in Nat
  <2>1. NextTest \in Nat
    BY <1>1 DEF NextTest
  <2> QED
    BY <1>1, <1>2, <2>1 DEF Stages, Modes
<1>4. ASSUME NEW m \in Stages, NEW n1 \in DOMAIN bench[m],
             NEW n2 \in DOMAIN bench[m],
             bench[m][n1].index = bench[m][n2].index
      PROVE  n1 = n2
  <2>1. CASE m # "L"
    <3>1. FirstTest[m] + n1 - 1 = FirstTest[m] + n2 - 1
      BY <1>4, <2>1, Numbers
    <3>2. n1 \in Nat /\ n2 \in Nat
      BY Numbers
    <3> QED
      BY <1>3, <2>1, <3>1, <3>2
  <2>2. CASE m = "L"
    <3>1. built
      BY <2>2, Numbers
    <3>2. bench[m] = LatencyBenchmarks(b)
      BY <2>2, <3>1 DEF BenchInv, Built
    <3>3. LET s == LatencyBenchmarks(b)
          IN \A p, q \in DOMAIN s : s[p].index = s[q].index => p = q
      BY <1>1, LatencyTests
    <3> QED
      BY <1>4, <3>2, <3>3
  <2> QED
    BY <2>1, <2>2
<1>5. ASSUME NEW n1 \in DOMAIN bench.T, NEW n2 \in DOMAIN bench.L,
             bench.T[n1].index = bench.L[n2].index
      PROVE  bench.T[n1] = bench.L[n2]
  <2>1. {"T", "L"} \subseteq Stages
    BY DEF Stages, Modes
  <2>2. PICK j \in DOMAIN bench.T : bench.L[n2] = bench.T[j]
    BY <2>1, Numbers
  <2>3. n1 = j
    BY <1>4, <1>5, <2>1, <2>2
  <2> QED
    BY <2>2, <2>3
\* A latency test has the number of a throughput test.
<1>6. ASSUME NEW m \in Stages, NEW n \in DOMAIN bench[m]
      PROVE  LET x == bench[m][n].index IN
             /\ x \in Nat
             /\ m \in {"T", "L"} => x < b + Tests
             /\ m = "LM" => b + Tests <= x /\ x < b + Tests + X
             /\ m = "TM" => b + Tests + X <= x /\ x < b + Tests + X + X
             /\ m = "E" /\ built => b + Tests + X + X <= x
             /\ m # "E" => built
  <2>1. CASE m # "L"
    <3>1. /\ n \in Nat \ {0} /\ bench[m][n].index = FirstTest[m] + n - 1
          /\ m = "T" => n <= Tests
          /\ m \in {"LM", "TM"} => n <= X
          /\ m # "E" => built
      BY <2>1, Numbers
    <3>2. FirstTest[m] \in Nat
      BY <1>3, <2>1
    <3> HIDE DEF X, b
    <3>3. b \in Nat /\ X \in Nat
      BY <1>1 DEF X, b
    <3> QED
      <4>1. CASE m = "T"
        BY <1>1, <1>2, <3>1, <3>3, <4>1
      <4>2. CASE m = "LM"
        BY <1>1, <1>2, <3>1, <3>3, <4>2
      <4>3. CASE m = "TM"
        BY <1>1, <1>2, <3>1, <3>3, <4>3
      <4>4. CASE m = "E"
        <5>1. built => NextTest = b + Tests + X + X
          BY <1>1, <1>2, <3>3
        <5> QED
          BY <1>1, <1>2, <3>1, <3>2, <3>3, <4>4, <5>1
      <4> QED
        BY <2>1, <4>1, <4>2, <4>3, <4>4 DEF Stages, Modes
  <2>2. CASE m = "L"
    <3>1. {"T", "L"} \subseteq Stages
      BY DEF Stages, Modes
    <3>2. PICK j \in DOMAIN bench.T : bench[m][n] = bench.T[j]
      BY <2>2, Numbers
    <3>3. /\ j \in Nat \ {0} /\ bench.T[j].index = FirstTest["T"] + j - 1
          /\ j <= Tests
      BY <3>1, Numbers
    <3>4. built
      BY <2>2, Numbers
    <3> HIDE DEF X, b
    <3>5. b \in Nat /\ X \in Nat
      BY <1>1 DEF X, b
    <3> QED
      BY <1>1, <1>2, <2>2, <3>2, <3>3, <3>4, <3>5
  <2> QED
    BY <2>1, <2>2
<1>7. ASSUME NEW m1 \in Stages, NEW m2 \in Stages, m1 # m2,
             {m1, m2} # {"T", "L"},
             NEW n1 \in DOMAIN bench[m1], NEW n2 \in DOMAIN bench[m2]
      PROVE  bench[m1][n1].index # bench[m2][n2].index
  <2> DEFINE x == bench[m1][n1].index
             y == bench[m2][n2].index
             Between(m, z) ==
               /\ z \in Nat
               /\ m \in {"T", "L"} => z < b + Tests
               /\ m = "LM" => b + Tests <= z /\ z < b + Tests + X
               /\ m = "TM" => b + Tests + X <= z /\ z < b + Tests + X + X
               /\ m = "E" /\ built => b + Tests + X + X <= z
               /\ m # "E" => built
  <2>1. Between(m1, x)
    BY <1>6
  <2>2. Between(m2, y)
    BY <1>6
  <2>3. b \in Nat /\ X \in Nat
    BY <1>1
  <2> HIDE DEF x, y, b, X
  <2>4. x # y
    BY <1>1, <1>7, <2>1, <2>2, <2>3 DEF Stages, Modes
  <2> QED
    BY <2>4 DEF x, y
<1>8. \A m \in Stages :
        IsInjective([n \in DOMAIN bench[m] |-> bench[m][n].index])
  BY <1>4 DEF IsInjective
<1>9. \A b1 \in Range(bench.T), b2 \in Range(bench.L) :
        b1.index = b2.index => b1 = b2
  BY <1>5 DEF Range
<1>10. \A m1, m2 \in Stages : m1 # m2 /\ {m1, m2} # {"T", "L"} =>
         \A b1 \in Range(bench[m1]), b2 \in Range(bench[m2]) :
           b1.index # b2.index
  BY <1>7 DEF Range
<1> QED
  BY <1>8, <1>9, <1>10 DEF TestNumbersIdentify

\* A test's number tells which it is, whatever modes are run and in whatever
\* case: numbers are not given twice, although latency tests are left out,
\* and the matrices and the extension count on from where the others stopped.
THEOREM TestsHaveTheirNumbers == Spec => []TestNumbersIdentify
BY NumbersIdentify, ConfigurationIsSound, BenchmarksBuiltOnce, PTL

-----------------------------------------------------------------------------
(* The printed matrices.                                                   *)

LEMMA OneTurn ==
  ASSUME NEW S, NEW s, Lists(s, S), Cardinality(S) = 1
  PROVE  Len(s) = 1
BY ListLength

LEMMA CellsInPlace ==
  ASSUME ConfigInv, BenchInv
  PROVE  MatrixCellsInPlace
<1> SUFFICES ASSUME NEW m \in config.modes \cap {"LM", "TM"},
                    bench[m] # <<>>,
                    Cardinality(config.chunks) = 1,
                    Cardinality(config.strides) = 1
             PROVE  /\ Len(Matrix(m)) = Len(ProcessorUnits)
                    /\ \A row \in DOMAIN Matrix(m) :
                         LET r0 == Matrix(m)[row] IN
                         /\ r0.label = ProcessorUnits[row]
                         /\ \A id \in RegionIds :
                              /\ r0.cells[id + 1].pu = r0.label
                              /\ r0.cells[id + 1].region = id
  BY DEF MatrixCellsInPlace
<1> DEFINE X == Len(MatrixCases)
           P == Len(ProcessorUnits)
           R == NumRegions
<1>1. Len(ChunkList) = 1 /\ Len(StrideList) = 1
  BY Loops, OneTurn
<1>2. /\ X \in Nat /\ DOMAIN MatrixCases = 1..X /\ P \in Nat /\ R \in Nat
      /\ X = (P * R) * (1 * 1)
  BY <1>1, MatrixCasesListed, LoopsOverRegions DEF Lists
<1>3. \A row \in 1..P, id \in RegionIds :
        LET c == MatrixCases[(row - 1) * R + (id + 1)] IN
        c.pu = ProcessorUnits[row] /\ c.region = id
  BY <1>1, MatrixCasesListed
<1>4. PICK first \in Nat : bench[m] = MatrixBenchmarks(m, first)
  <2>1. built
    BY DEF BenchInv, Modes
  <2>2. config.base \in Nat /\ Tests \in Nat
    BY Vectors DEF ConfigInv
  <2>3. config.base + Tests \in Nat /\ config.base + Tests + X \in Nat
    BY <1>2, <2>2
  <2> QED
    BY <2>1, <2>3 DEF BenchInv, Built
<1>5. /\ Len(bench[m]) = X
      /\ \A n \in 1..X : /\ bench[m][n].pu = MatrixCases[n].pu
                         /\ bench[m][n].region = MatrixCases[n].region
  <2>1. bench[m] = [n \in 1..X |-> bench[m][n]]
    BY <1>4 DEF MatrixBenchmarks
  <2>2. Len(bench[m]) = X
    BY <1>2, <2>1, Vector
  <2>3. ASSUME NEW n \in 1..X
        PROVE  /\ bench[m][n].pu = MatrixCases[n].pu
               /\ bench[m][n].region = MatrixCases[n].region
    BY <1>4 DEF MatrixBenchmarks
  <2> QED
    BY <2>2, <2>3
<1>6. X = P * R /\ X # 0
  <2>1. (P * R) * (1 * 1) = P * R
    <3> HIDE DEF P, R
    <3> QED
      BY <1>2
  <2>2. bench[m] = [n \in 1..X |-> bench[m][n]]
    BY <1>4 DEF MatrixBenchmarks
  <2> QED
    BY <1>2, <2>1, <2>2, Vector
<1> HIDE DEF X, P, R
<1>7. R \in Nat \ {0} /\ X \div R = P
  <2>1. R # 0
    BY <1>2, <1>6
  <2>2. P * R + 0 = P * R
    BY <1>2
  <2>3. (P * R + 0) \div R = P
    BY <1>2, <2>1, NodeOfRegion
  <2> QED
    BY <1>2, <1>6, <2>1, <2>2, <2>3
<1>8. ASSUME NEW row \in 1..P, NEW id \in RegionIds
      PROVE  LET n == (row - 1) * R + (id + 1) IN
             /\ bench[m][n].pu = ProcessorUnits[row]
             /\ bench[m][n].region = id
  <2> DEFINE n == (row - 1) * R + (id + 1)
  <2>1. id + 1 \in 1..R
    BY <1>2 DEF RegionIds, R
  <2>2. n \in 1..X
    BY <1>2, <1>6, <2>1, TurnOf
  <2>3. MatrixCases[n].pu = ProcessorUnits[row] /\ MatrixCases[n].region = id
    BY <1>3
  <2> HIDE DEF n
  <2> QED
    BY <1>5, <2>2, <2>3 DEF n
<1>9. Matrix(m) =
        [row \in 1..P |->
           [label |-> bench[m][(row - 1) * R + 1].pu,
            cells |-> [col \in 1..R |-> bench[m][(row - 1) * R + col]]]]
  BY <1>5, <1>7 DEF Matrix, RegionsPerPU, R
<1>10. Len(Matrix(m)) = P /\ DOMAIN Matrix(m) = 1..P
  <2>1. Matrix(m) = [row \in 1..P |-> Matrix(m)[row]]
    BY <1>9
  <2> QED
    BY <1>2, <2>1, Vector
<1>11. ASSUME NEW row \in 1..P
       PROVE  LET r0 == Matrix(m)[row] IN
              /\ r0.label = ProcessorUnits[row]
              /\ \A id \in RegionIds : /\ r0.cells[id + 1].pu = r0.label
                                       /\ r0.cells[id + 1].region = id
  <2> DEFINE offset == (row - 1) * R
  <2>1. /\ Matrix(m)[row].label = bench[m][offset + 1].pu
        /\ Matrix(m)[row].cells = [col \in 1..R |-> bench[m][offset + col]]
    <3>1. Matrix(m)[row] =
            [label |-> bench[m][offset + 1].pu,
             cells |-> [col \in 1..R |-> bench[m][offset + col]]]
      BY <1>9
    <3> HIDE DEF offset
    <3> QED
      BY <3>1
  <2>2. ASSUME NEW id \in RegionIds
        PROVE  /\ Matrix(m)[row].cells[id + 1].pu = ProcessorUnits[row]
               /\ Matrix(m)[row].cells[id + 1].region = id
    <3>1. id + 1 \in 1..R
      BY <1>2 DEF RegionIds, R
    <3>2. Matrix(m)[row].cells[id + 1] = bench[m][offset + (id + 1)]
      BY <2>1, <3>1
    <3> QED
      BY <1>8, <3>2
  <2>3. Matrix(m)[row].label = ProcessorUnits[row]
    <3>1. 0 \in RegionIds /\ 0 + 1 = 1
      BY <1>7 DEF RegionIds, R
    <3>2. bench[m][offset + (0 + 1)].pu = ProcessorUnits[row]
      BY <1>8, <3>1
    <3> QED
      BY <2>1, <3>1, <3>2
  <2> QED
    BY <2>2, <2>3
<1> QED
  BY <1>10, <1>11 DEF P

\* In the printed matrix the row and the column of a cell name the processor
\* unit and the region that were measured.
THEOREM MatrixIsRight == Spec => []MatrixCellsInPlace
BY CellsInPlace, ConfigurationIsSound, BenchmarksBuiltOnce, PTL

-----------------------------------------------------------------------------
(* The memory of the benchmarks.                                           *)

\* A benchmark has the memory of a region, and says what the program has
\* noted of that region.
OfRegion(b) ==
  /\ b.region \in RegionIds
  /\ b.mem = array[b.region] /\ b.len = len[b.region]
  /\ \/ b.memNode = node[b.region]
     \/ b.memNode = b.region \div config.regions

LEMMA ThroughputMemory ==
  ASSUME ConfigInv, BenchInv, ~config.physical, built, NEW n \in DOMAIN bench.T
  PROVE  OfRegion(bench.T[n]) /\ bench.T[n].workers = config.workers
<1> DEFINE t == ThroughputBenchmarks(config.base)
<1>1. bench.T = t
  BY DEF BenchInv, Built
<1>0. config.base \in Nat
  BY DEF ConfigInv
<1>2. /\ \A j \in 1..Tests : \E p \in 1..Len(Places), c \in 1..Len(Cases) :
           t[j] = At(config.base, p, c)
      /\ t = [j \in 1..Tests |-> t[j]]
  <2>1. /\ t = [j \in 1..Tests |-> t[j]]
        /\ \A j \in 1..Tests :
             \E p \in 1..Len(Places), c \in 1..Len(Cases) :
               /\ t[j] = At(config.base, p, c)
               /\ <<PlaceOf(t[j]), t[j].what>> = Nested(PlaceList, Cases)[j]
    BY ThroughputTests, <1>0
  <2> HIDE DEF t
  <2> QED
    BY <2>1
<1> HIDE DEF t
<1>3. n \in 1..Tests
  BY <1>1, <1>2
<1>4. PICK p \in 1..Len(Places), c \in 1..Len(Cases) :
        t[n] = At(config.base, p, c)
  BY <1>2, <1>3
<1>5. /\ Places[p].region \in RegionIds
      /\ Places[p].region \div config.regions = Places[p].memNode
  BY PlacesListed DEF RegionIds, NumRegions
<1> QED
  BY <1>1, <1>4, <1>5 DEF OfRegion, At, ArrayOf, LenOf

LEMMA MatrixMemory ==
  ASSUME ConfigInv, BenchInv, built, NEW m \in {"LM", "TM"},
         NEW n \in DOMAIN bench[m]
  PROVE  /\ OfRegion(bench[m][n])
         /\ m = "LM" => bench[m][n].workers = config.workers
<1>1. bench[m] = MatrixBenchmarks(m, FirstTest[m])
  BY DEF BenchInv, Built, FirstTest
<1>2. n \in 1..Len(MatrixCases)
  BY <1>1 DEF MatrixBenchmarks
<1>3. MatrixCases[n].region \in RegionIds
  <2>1. /\ Lists(MatrixList, MatrixSet) /\ Len(MatrixList) = Len(MatrixCases)
        /\ DOMAIN MatrixCases = 1..Len(MatrixCases)
    BY MatrixCasesListed
  <2>2. MatrixList[n] \in MatrixSet
    BY <1>2, <2>1 DEF Lists
  <2>3. MatrixList[n] = <<MatrixCases[n].pu, MatrixCases[n].region,
                          MatrixCases[n].chunk, MatrixCases[n].stride>>
    BY <1>2, <2>1 DEF MatrixList
  <2> QED
    BY <2>2, <2>3 DEF MatrixSet
<1> QED
  BY <1>1, <1>2, <1>3 DEF MatrixBenchmarks, OfRegion, MatrixWorkers

LEMMA ExtensionMemory ==
  ASSUME ConfigInv, BenchInv, ~config.physical, config.regions = 1,
         NEW n \in DOMAIN bench.E
  PROVE  OfRegion(bench.E[n]) /\ bench.E[n].workers = config.workers
<1>1. bench.E = DelayBenchmarks(NextTest)
  <2>1. bench.E # <<>>
    OBVIOUS
  <2> QED
    BY <2>1 DEF BenchInv
<1>2. n \in 1..Len(DelayCases)
  BY <1>1 DEF DelayBenchmarks
<1> DEFINE c == DelayCases[n]
<1>3. c.memNode \in Nodes
  BY <1>2, DelayCasesListed
<1>4. /\ c.memNode \in RegionIds
      /\ c.memNode \div config.regions = c.memNode
  <2>1. NumNodes \in Nat
    BY WorkingSetsAssumption
  <2>2. RegionIds = 0..NumNodes-1
    BY <2>1 DEF RegionIds, NumRegions
  <2>3. \A x \in Nat : x \div 1 = x
    OBVIOUS
  <2> QED
    BY <1>3, <2>1, <2>2, <2>3 DEF Nodes
<1>5. /\ bench.E[n].region = c.memNode /\ bench.E[n].memNode = c.memNode
      /\ bench.E[n].mem = ArrayOf(c.memNode)
      /\ bench.E[n].len = LenOf(c.memNode)
      /\ bench.E[n].workers = config.workers
  BY <1>1, <1>2 DEF DelayBenchmarks
<1> QED
  BY <1>4, <1>5 DEF OfRegion, ArrayOf, LenOf

\* As many pieces as there are workers lie one behind the other, each begins
\* where a page does, and together they are the whole.
LEMMA Pieces ==
  ASSUME NEW a \in Nat, NEW w \in Nat \ {0}, NEW z \in Nat,
         NEW p \in Nat \ {0}, z % p = 0
  PROVE  /\ (w * z) \div w = z
         /\ \A t \in 0..(w - 1) :
              /\ a + t * z \in Nat
              /\ a + t * z + z <= a + w * z
              /\ a % p = 0 => (a + t * z) % p = 0
              /\ \A u \in 0..(w - 1) :
                   t < u => a + t * z + z <= a + u * z
<1>1. w * z \in Nat /\ w * z = z * w + 0 /\ 0 \in 0..(w - 1)
  OBVIOUS
<1>2. (w * z) \div w = z
  <2>1. (z * w + 0) \div w = z
    BY <1>1, NodeOfRegion
  <2> QED
    BY <1>1, <2>1
<1>3. ASSUME NEW t \in Nat, NEW u \in Nat, t < u
      PROVE  /\ t * z \in Nat /\ u * z \in Nat
             /\ t * z + z <= u * z
  <2>1. t * z \in Nat /\ u * z \in Nat
    OBVIOUS
  <2>2. u - (t + 1) \in Nat
    BY <1>3
  <2>3. (u - (t + 1)) * z >= 0
    BY <2>2
  <2>4. (u - (t + 1)) * z = u * z - (t * z + z)
    OBVIOUS
  <2> QED
    BY <2>1, <2>3, <2>4
<1>4. ASSUME NEW t \in 0..(w - 1), a % p = 0
      PROVE  (a + t * z) % p = 0
  <2> DEFINE q == a \div p
             s == z \div p
  <2>1. q \in Nat /\ a = p * q /\ s \in Nat /\ z = p * s
    BY <1>4
  <2>2. q + t * s \in Nat /\ a + t * z = p * (q + t * s) + 0
    <3> HIDE DEF q, s
    <3>1. t * s \in Nat /\ t * (p * s) = p * (t * s)
      BY <2>1
    <3>2. p * (q + t * s) = p * q + p * (t * s)
      BY <2>1, <3>1
    <3> QED
      BY <2>1, <3>1, <3>2
  <2>3. \A n \in Nat : (p * n + 0) % p = 0
    BY Remainder
  <2> HIDE DEF q, s
  <2> QED
    BY <2>2, <2>3
<1>5. ASSUME NEW t \in 0..(w - 1)
      PROVE  a + t * z \in Nat /\ a + t * z + z <= a + w * z
  BY <1>1, <1>3, <1>5
<1>6. ASSUME NEW t \in 0..(w - 1), NEW u \in 0..(w - 1), t < u
      PROVE  a + t * z + z <= a + u * z
  BY <1>3, <1>6
<1> QED
  BY <1>2, <1>4, <1>5, <1>6, Zenon

\* Memory for working sets that begins on a page falls into sound parts.
LEMMA SoundParts ==
  ASSUME NEW b, b.mem \in Nat, b.workers \in Nat \ {0},
         NEW z \in Nat, b.len = b.workers * z,
         z % PageSize = 0, z % PageKB = 0,
         config.wsSize \in Nat, z >= config.wsSize,
         b.mem % PageSize = 0 \/ LargePageSize % PageSize # 0
  PROVE  PartsAreSound(b)
<1> DEFINE w == b.workers
           a == b.mem
<1>1. PageSize \in Nat \ {0}
  BY WorkingSetsAssumption
<1>2. LenPerThread(b) = z
  BY <1>1, Pieces DEF LenPerThread
<1>3. \A t \in 0..(w - 1) : PartOf(b, t) = [base |-> a + t * z, size |-> z]
  BY <1>2 DEF PartOf
<1> HIDE DEF w, a
<1>4. w \in Nat \ {0} /\ a \in Nat /\ b.mem = a /\ b.workers = w
  BY DEF w, a
<1>5. \A t \in 0..(w - 1) :
        /\ a + t * z \in Nat
        /\ a + t * z + z <= a + w * z
        /\ a % PageSize = 0 => (a + t * z) % PageSize = 0
        /\ \A u \in 0..(w - 1) : t < u => a + t * z + z <= a + u * z
  <2>1. PageSize \in Nat \ {0} /\ z % PageSize = 0 /\ z \in Nat
    BY <1>1
  <2>2. w \in Nat \ {0}
    BY <1>4
  <2>3. a \in Nat
    BY <1>4
  <2> QED
    BY ONLY <2>1, <2>2, <2>3, Pieces, ZenonT(60)
<1>6. ASSUME NEW t \in 0..(w - 1)
      PROVE  /\ SuitsPasses([base |-> a + t * z, size |-> z])
             /\ Within([base |-> a + t * z, size |-> z],
                       [base |-> a, size |-> w * z])
             /\ \A u \in 0..(w - 1) : u # t =>
                  Disjoint([base |-> a + t * z, size |-> z],
                           [base |-> a + u * z, size |-> z])
  <2>1. SuitsPasses([base |-> a + t * z, size |-> z])
    BY <1>4, <1>5, <1>6 DEF SuitsPasses
  <2>2. Within([base |-> a + t * z, size |-> z], [base |-> a, size |-> w * z])
    <3>1. t * z \in Nat /\ a <= a + t * z
      BY <1>4
    <3> QED
      BY <1>5, <1>6, <3>1 DEF Within
  <2>3. ASSUME NEW u \in 0..(w - 1), u # t
        PROVE  Disjoint([base |-> a + t * z, size |-> z],
                        [base |-> a + u * z, size |-> z])
    <3>1. t < u \/ u < t
      BY <1>4, <2>3
    <3> QED
      BY <1>5, <1>6, <2>3, <3>1 DEF Disjoint
  <2> QED
    BY <2>1, <2>2, <2>3
<1>7. [base |-> b.mem, size |-> b.len] = [base |-> a, size |-> w * z]
  BY <1>4
<1>8. ASSUME NEW t \in 0..(w - 1)
      PROVE  /\ PartOf(b, t).size >= config.wsSize
             /\ SuitsPasses(PartOf(b, t))
             /\ Within(PartOf(b, t), [base |-> b.mem, size |-> b.len])
             /\ \A u \in 0..(w - 1) :
                  u # t => Disjoint(PartOf(b, t), PartOf(b, u))
  <2>1. PartOf(b, t) = [base |-> a + t * z, size |-> z]
    BY <1>3
  <2>2. PartOf(b, t).size >= config.wsSize
    BY <2>1
  <2> QED
    BY <1>3, <1>6, <1>7, <2>1, <2>2, Zenon
<1> QED
  BY <1>4, <1>8, Zenon DEF PartsAreSound

\* A region of a selected node, or at a physical address, has memory.
LEMMA RegionHasMemory ==
  ASSUME WSInv, AllocatedSoFar, SlotsFit, setup = "ready", NEW id \in RegionIds,
         config.physical \/ id \div config.regions \in Range(config.memNodes)
  PROVE  array[id] # Null
<1>1. CASE config.physical
  BY <1>1 DEF AllocatedSoFar
<1>2. CASE ~config.physical
  <2> DEFINE R == config.regions
             n == id \div R
             m == id % R
  <2>1. PICK j \in DOMAIN config.memNodes : config.memNodes[j] = n
    BY <1>2 DEF Range
  <2>2. R \in Nat \ {0} /\ NumNodes \in Nat \ {0}
    BY <1>2, WorkingSetsAssumption DEF WSInv, TypeInv, ConfigOK
  <2>3. id \in Nat
    <3>1. NumNodes * R \in Nat
      BY <2>2
    <3> QED
      BY <1>2, <3>1 DEF RegionIds, NumRegions
  <2>4. m \in 0..(R - 1) /\ id = n * R + m
    <3> HIDE DEF R
    <3> QED
      BY <2>2, <2>3, Z3
  <2>5. array[config.memNodes[j] * R + m] # Null
    BY <1>2, <2>4 DEF AllocatedSoFar, HasMemory
  <2> QED
    BY <2>1, <2>4, <2>5
<1> QED
  BY <1>1, <1>2

LEMMA MemoryOfTheBenchmarks ==
  ASSUME ConfigInv, BenchInv, WSInv, OnItsNode, AllocatedSoFar
  PROVE  MemoryIsTheBenchmarks
<1> DEFINE b == bench[stage][i]
<1> SUFFICES ASSUME stage \in Selected, i \in DOMAIN bench[stage],
                    stage = "E" => config.regions = 1 /\ ~config.physical,
                    \/ b.mem # Null
                    \/ config.physical
                    \/ b.region \div config.regions \in Range(config.memNodes)
             PROVE  /\ b.mem \notin {Null, Outside}
                    /\ \E h \in heap :
                         Within([base |-> b.mem, size |-> b.len], h)
                    /\ ~config.physical =>
                         b.memNode = b.region \div config.regions
                    /\ b.workers = 1 \/ (stage # "TM" /\ ~config.physical) =>
                         PartsAreSound(b)
  BY DEF MemoryIsTheBenchmarks
<1>1. stage \in Stages /\ (stage # "E" => stage \in config.modes)
  BY DEF Selected, Stages, Modes, ConfigInv
<1>2. setup = "ready" /\ SlotsFit
  BY <1>1 DEF BenchInv, WSInv, Exits
<1>3. stage # "E" => built
  BY <1>1, Numbers
<1>4. stage \in {"T", "L"} => ~config.physical
  BY <1>1 DEF ConfigInv
<1>5. /\ OfRegion(b)
      /\ stage # "TM" => b.workers = config.workers
  <2>1. CASE stage = "T"
    BY <1>3, <1>4, <2>1, ThroughputMemory
  <2>2. CASE stage = "L"
    <3>1. PICK j \in DOMAIN bench.T : b = bench.T[j]
      BY <1>1, <2>2, Numbers
    <3> HIDE DEF b
    <3> QED
      BY <1>3, <1>4, <2>2, <3>1, ThroughputMemory
  <2>3. CASE stage \in {"LM", "TM"}
    BY <1>3, <2>3, MatrixMemory
  <2>4. CASE stage = "E"
    BY <2>4, ExtensionMemory
  <2> QED
    BY <1>1, <2>1, <2>2, <2>3, <2>4 DEF Stages, Modes
<1> DEFINE id == b.region
<1>6. /\ id \in RegionIds /\ b.mem = array[id] /\ b.len = len[id]
      /\ b.memNode = node[id] \/ b.memNode = id \div config.regions
  BY <1>5 DEF OfRegion
<1>7. id \in Allocated
  BY <1>2, <1>6, RegionHasMemory DEF Allocated
<1> HIDE DEF b, id
<1>8. array[id] \in Nat
  <2>1. array \in [RegionIds -> Nat \cup {Null}]
    BY DEF WSInv, TypeInv
  <2> QED
    BY <1>6, <1>7, <2>1 DEF Allocated
<1>9. /\ ~config.physical => /\ node[id] = id \div config.regions
                            /\ len[id] = config.workers * config.wsSize
      /\ config.physical => len[id] = config.wsSize
  BY <1>2, <1>7 DEF OnItsNode, WorkingSetSize
<1>10. /\ \E h \in heap : Within([base |-> array[id], size |-> len[id]], h)
       /\ array[id] % PageSize = 0 \/ LargePageSize % PageSize # 0
  BY <1>2, <1>6, <1>7 DEF WSInv, SoundSoFar, Owned, Allocated
<1>11. b.mem \notin {Null, Outside}
  BY <1>6, <1>8 DEF Null, Outside
<1>12. /\ config.workers \in Nat \ {0} /\ config.wsSize \in Nat \ {0}
       /\ config.wsSize % PageSize = 0 /\ config.wsSize % PageKB = 0
       /\ PageSize \in Nat \ {0} /\ PageKB \in Nat \ {0}
  BY WorkingSetsAssumption, ConfiguratorAssumption DEF ConfigInv, ConfigOK
<1>13. ASSUME b.workers = 1
       PROVE  PartsAreSound(b)
  <2> DEFINE z == len[id]
  <2>1. /\ z \in Nat /\ z >= config.wsSize
        /\ z % PageSize = 0 /\ z % PageKB = 0
    <3>1. CASE config.physical
      BY <1>9, <1>12, <3>1
    <3>2. CASE ~config.physical
      <4> DEFINE m == config.workers * config.wsSize
      <4>1. z = m
        BY <1>9, <3>2
      <4>2. m \in Nat /\ m >= config.wsSize
        BY <1>12
      <4>3. m % config.wsSize = 0
        BY <1>12, Multiples
      <4> HIDE DEF m, z
      <4> QED
        BY <1>12, <4>1, <4>2, <4>3, MultipleOfMultiple
    <3> QED
      BY <3>1, <3>2
  <2>2. b.len = b.workers * z
    BY <1>6, <1>13, <2>1
  <2> HIDE DEF z
  <2> QED
    BY <1>6, <1>8, <1>10, <1>12, <1>13, <2>1, <2>2, SoundParts
<1>14. ASSUME stage # "TM", ~config.physical
       PROVE  PartsAreSound(b)
  <2>1. b.len = b.workers * config.wsSize /\ b.workers \in Nat \ {0}
    BY <1>5, <1>6, <1>9, <1>12, <1>14
  <2> QED
    BY <1>6, <1>8, <1>10, <1>12, <2>1, SoundParts
<1> QED
  BY <1>6, <1>9, <1>10, <1>11, <1>13, <1>14 DEF id

\* A benchmark of a node that was selected, or of a physical address, has
\* memory.  It is handed out, lies on the node that the benchmark reports, and
\* falls into parts of which each is one worker's own: none smaller than a
\* working set, all of whole passes, from a page onwards.
THEOREM MemoryIsRight == Spec => []MemoryIsTheBenchmarks
BY MemoryOfTheBenchmarks, ConfigurationIsSound, BenchmarksBuiltOnce,
   UsesWorkingSets, RegionsInvariance, RegionsOfNodes, SelectedNodesHaveMemory,
   PTL


-----------------------------------------------------------------------------
(* What has been run.                                                      *)

\* The modes that main() has left behind it.
Past ==
  [rejected |-> {}, setup |-> {}, T |-> {}, L |-> {"T"}, LM |-> {"T", "L"},
   TM |-> {"T", "L", "LM"}, E |-> Modes, end |-> Stages]

\* The modes that are run at all: the extension needs two workers.
Ran == config.modes \cup {e \in Selected : e = "E" /\ config.workers > 1}

\* A mode that is over has run its vector from one end to the other.
HasRun(m) ==
  IF m \in Ran
  THEN /\ log[m] = bench[m]
       /\ IF m = "E" THEN bench.E = DelayBenchmarks(NextTest) ELSE built
  ELSE log[m] = <<>>

\* The mode that is on has run its vector as far as its loop has got.
IsRunning(m) ==
  /\ i > 1 => i - 1 \in DOMAIN bench[m]
  /\ log[m] = [n \in 1..(i - 1) |-> bench[m][n]]
  /\ m = "E" /\ i > 0 => bench.E = DelayBenchmarks(NextTest)

LogInv ==
  /\ DOMAIN log = Stages
  /\ \A m \in Stages :
       /\ m \in Past[stage] => HasRun(m)
       /\ m = stage => IsRunning(m)
       /\ m \notin Past[stage] \cup {stage} => log[m] = <<>>

LEMMA Order ==
  /\ Modes = {"T", "L", "LM", "TM"}
  /\ Stages = {"T", "L", "LM", "TM", "E"}
  /\ NextStage["setup"] = "T"
  /\ Past["rejected"] = {} /\ Past["setup"] = {} /\ Past["T"] = {}
  /\ Past["E"] = Modes /\ Past["end"] = Stages
  /\ \A m \in Stages :
       /\ NextStage[m] \in Stages \cup {"end"}
       /\ Past[NextStage[m]] = Past[m] \cup {m}
       /\ m \notin Past[m]
       /\ Past[m] \subseteq Modes
<1>1. /\ Modes = {"T", "L", "LM", "TM"}
      /\ Stages = {"T", "L", "LM", "TM", "E"}
  BY DEF Modes, Stages
<1>2. /\ NextStage["setup"] = "T" /\ NextStage["T"] = "L"
      /\ NextStage["L"] = "LM" /\ NextStage["LM"] = "TM"
      /\ NextStage["TM"] = "E" /\ NextStage["E"] = "end"
  BY DEF NextStage
<1>3. /\ Past["rejected"] = {} /\ Past["setup"] = {} /\ Past["T"] = {}
      /\ Past["L"] = {"T"} /\ Past["LM"] = {"T", "L"}
      /\ Past["TM"] = {"T", "L", "LM"} /\ Past["E"] = Modes
      /\ Past["end"] = Stages
  BY DEF Past
<1> QED
  BY <1>1, <1>2, <1>3

LEMMA InitialLog == Init => LogInv
<1> SUFFICES ASSUME Init
             PROVE  LogInv
  OBVIOUS
<1>1. stage \in {"rejected", "setup"} /\ log = Empty
  BY DEF Init
<1>2. DOMAIN log = Stages /\ \A m \in Stages : log[m] = <<>>
  BY <1>1 DEF Empty
<1>3. Past[stage] = {} /\ stage \notin Stages
  BY <1>1, Order
<1> QED
  BY <1>2, <1>3 DEF LogInv

LEMMA RunStays ==
  ASSUME BenchInv, UNCHANGED <<config, array, len, node, bench, built>>,
         NEW m \in Stages, log'[m] = log[m]
  PROVE  /\ HasRun(m) => HasRun(m)'
         /\ IsRunning(m) /\ i' = i => IsRunning(m)'
<1>1. DelayBenchmarks(NextTest)' = DelayBenchmarks(NextTest)
  BY NothingBuilt
<1>2. Ran' = Ran
  BY LoopsStay DEF Ran
<1> QED
  BY <1>1, <1>2 DEF HasRun, IsRunning

\* Before a loop begins its mode has run nothing.
LEMMA BeforeTheLoop ==
  ASSUME NEW b, NEW s
  PROVE  /\ s = [n \in 1..(0 - 1) |-> b[n]] <=> s = <<>>
         /\ s = [n \in 1..(1 - 1) |-> b[n]] <=> s = <<>>
<1>1. 1..(0 - 1) = {} /\ 1..(1 - 1) = {}
  OBVIOUS
<1>2. [n \in {} |-> b[n]] = <<>>
  OBVIOUS
<1> QED
  BY <1>1, <1>2

\* A vector to which one more benchmark is appended.
LEMMA OneMoreRun ==
  ASSUME NEW b, NEW m \in Nat, m > 0
  PROVE  Append([n \in 1..(m - 1) |-> b[n]], b[m]) = [n \in 1..m |-> b[n]]
<1> DEFINE s == [n \in 1..(m - 1) |-> b[n]]
           t == [n \in 1..m |-> b[n]]
           a == Append(s, b[m])
           S == {b[n] : n \in 1..m}
<1>1. s \in Seq(S) /\ Len(s) = m - 1 /\ b[m] \in S
  OBVIOUS
<1>2. a \in Seq(S) /\ Len(a) = m /\ a[m] = b[m]
      /\ \A n \in 1..(m - 1) : a[n] = b[n]
  BY <1>1
<1>3. DOMAIN a = 1..m /\ DOMAIN t = 1..m
  BY <1>2
<1>4. \A n \in 1..m : a[n] = t[n]
  BY <1>2
<1>5. a = [n \in 1..m |-> a[n]]
  BY <1>2
<1> HIDE DEF a
<1> QED
  BY <1>4, <1>5

LEMMA StepOfLog ==
  ASSUME ConfigInv, BenchInv, LogInv, [Next]_vars
  PROVE  LogInv'
<1>1. /\ config' = config /\ Selected' = Selected /\ Ran' = Ran
      /\ config.modes \subseteq Modes
  BY ConfigStays, LoopsStay DEF ConfigInv, Ran
<1>2. /\ Modes \subseteq Stages /\ "E" \in Stages /\ "E" \notin Modes
      /\ Selected \subseteq Stages /\ Ran \subseteq Selected
      /\ "setup" \notin Stages /\ "end" \notin Stages
  BY <1>1, Order DEF Selected, Ran
<1>3. /\ DOMAIN log = Stages
      /\ \A m \in Stages :
           /\ m \in Past[stage] => HasRun(m)
           /\ m = stage => IsRunning(m)
           /\ m \notin Past[stage] \cup {stage} => log[m] = <<>>
  BY DEF LogInv
<1>4. i \in Nat /\ built \in BOOLEAN /\ DOMAIN bench = Stages
  BY DEF BenchInv
\* A step that leaves the benchmarks and the modes as they are.
<1>5. ASSUME UNCHANGED <<array, len, node, bench, built, log, stage, i>>
      PROVE  LogInv'
  <2>1. \A m \in Stages : /\ HasRun(m) => HasRun(m)'
                          /\ IsRunning(m) => IsRunning(m)'
    BY <1>1, <1>5, RunStays
  <2> QED
    BY <1>3, <1>5, <2>1 DEF LogInv
\* A step from one mode to the next.
<1>6. ASSUME UNCHANGED <<array, len, node, bench, built, log>>,
             stage \in Stages, stage' = NextStage[stage], i' = 0,
             HasRun(stage)
      PROVE  LogInv'
  <2>1. Past[stage'] = Past[stage] \cup {stage}
    BY <1>6, Order
  <2>2. \A m \in Stages : m \in Past[stage'] => HasRun(m)'
    BY <1>1, <1>3, <1>6, <2>1, RunStays
  <2>3. \A m \in Stages : m \notin Past[stage'] => log'[m] = <<>>
    BY <1>3, <1>6, <2>1
  <2>4. \A m \in Stages : m \notin Past[stage'] => IsRunning(m)'
    BY <1>6, <2>3, BeforeTheLoop DEF IsRunning
  <2>5. stage' \notin Past[stage'] \/ stage' \notin Stages
    BY <1>6, Order
  <2> QED
    BY <1>3, <1>6, <2>2, <2>3, <2>4, <2>5 DEF LogInv
<1>7. CASE SetUp
  <2>1. stage = "setup" /\ UNCHANGED managerVars
    BY <1>7 DEF SetUp
  <2>2. UNCHANGED <<stage, log>> /\ stage \notin Stages /\ Past[stage] = {}
    BY <1>2, <2>1, Order DEF managerVars
  <2> QED
    BY <1>3, <2>2 DEF LogInv
<1>8. CASE Advance
  <2>1. /\ UNCHANGED <<wsVars, i, built, testIndex, bench, log>>
        /\ stage' = NextStage[stage]
        /\ \/ stage = "setup"
           \/ stage \in Stages /\ stage \notin Selected
    BY <1>8 DEF Advance
  <2>2. UNCHANGED <<array, len, node>>
    BY <2>1 DEF wsVars
  <2>3. i = 0
    BY <1>2, <2>1 DEF BenchInv
  <2>4. CASE stage = "setup"
    <3>1. stage' = "T" /\ Past[stage'] = {} /\ Past[stage] = {}
          /\ stage \notin Stages
      BY <1>2, <2>1, <2>4, Order
    <3>2. \A m \in Stages : log'[m] = <<>>
      BY <1>3, <2>1, <3>1
    <3>3. \A m \in Stages : m = stage' => IsRunning(m)'
      BY <2>1, <2>3, <3>1, <3>2, BeforeTheLoop DEF IsRunning
    <3> QED
      BY <1>3, <2>1, <3>1, <3>2, <3>3 DEF LogInv
  <2>5. CASE stage \in Stages /\ stage \notin Selected
    <3>1. log[stage] = <<>> /\ stage \notin Ran
      BY <1>2, <1>3, <2>3, <2>5, BeforeTheLoop DEF IsRunning
    <3>2. HasRun(stage)
      BY <3>1 DEF HasRun
    <3> QED
      BY <1>6, <2>1, <2>2, <2>3, <2>5, <3>2
  <2> QED
    BY <2>1, <2>4, <2>5
<1>9. CASE BeginMode
  <2>1. /\ stage \in config.modes /\ i = 0 /\ i' = 1
        /\ IF built THEN UNCHANGED <<bench, built>> ELSE BuildBenchmarks
        /\ UNCHANGED <<wsVars, stage, log>>
    BY <1>4, <1>9 DEF BeginMode, SetBuilt
  <2>2. UNCHANGED <<array, len, node>>
    BY <2>1 DEF wsVars
  <2>3. stage \in Stages /\ stage # "E" /\ Past[stage] \subseteq Modes
    BY <1>1, <1>2, <2>1, Order
  <2>4. ASSUME NEW m \in Past[stage]
        PROVE  HasRun(m)'
    <3>1. m \in Stages /\ m # "E" /\ HasRun(m)
      BY <1>2, <1>3, <2>3, <2>4
    <3>2. CASE m \in Ran
      BY <1>1, <2>1, <2>2, <3>1, <3>2, RunStays DEF HasRun
    <3>3. CASE m \notin Ran
      BY <1>1, <2>1, <3>1, <3>3 DEF HasRun
    <3> QED
      BY <3>2, <3>3
  <2>5. IsRunning(stage)'
    <3>1. log[stage] = <<>>
      BY <1>3, <2>1, <2>3, BeforeTheLoop DEF IsRunning
    <3> QED
      BY <2>1, <2>3, <3>1, BeforeTheLoop DEF IsRunning
  <2> QED
    BY <1>3, <2>1, <2>4, <2>5 DEF LogInv
<1>10. CASE BeginExtension
  <2>1. /\ stage = "E" /\ i = 0 /\ i' = 1
        /\ bench' = [bench EXCEPT !.E = DelayBenchmarks(testIndex)]
        /\ UNCHANGED <<wsVars, stage, built, log>>
    BY <1>10 DEF BeginExtension
  <2>2. UNCHANGED <<array, len, node>>
    BY <2>1 DEF wsVars
  <2>3. testIndex = NextTest
    BY <1>2, <2>1 DEF BenchInv, ExtensionBegun
  <2>4. bench'.E = DelayBenchmarks(NextTest)'
    BY <1>1, <1>2, <1>4, <2>1, <2>2, <2>3, BenchmarksStay
  <2>5. \A m \in Modes : bench'[m] = bench[m]
    BY <1>2, <1>4, <2>1
  <2>6. Past[stage] = Modes
    BY <2>1, Order
  <2>7. ASSUME NEW m \in Past[stage]
        PROVE  HasRun(m)'
    BY <1>1, <1>2, <1>3, <2>1, <2>5, <2>6 DEF HasRun
  <2>8. IsRunning("E")'
    <3>1. log["E"] = <<>>
      BY <1>2, <1>3, <2>1, BeforeTheLoop DEF IsRunning
    <3> QED
      BY <2>1, <2>4, <3>1, BeforeTheLoop DEF IsRunning
  <2> QED
    BY <1>3, <2>1, <2>7, <2>8 DEF LogInv
<1>11. CASE RefuseExtension
  <2>1. /\ stage = "E" /\ stage' = NextStage[stage] /\ config.workers < 2
        /\ UNCHANGED <<wsVars, i, built, testIndex, bench, log>>
    BY <1>11 DEF RefuseExtension
  <2>2. UNCHANGED <<array, len, node>>
    BY <2>1 DEF wsVars
  <2>3. config.workers \in Nat
    BY DEF ConfigInv, ConfigOK
  <2>4. i = 0 /\ "E" \notin Ran
    BY <1>1, <1>2, <1>4, <2>1, <2>3 DEF BenchInv, Ran
  <2>5. log["E"] = <<>>
    BY <1>2, <1>3, <2>1, <2>4, BeforeTheLoop DEF IsRunning
  <2>6. HasRun(stage)
    BY <2>1, <2>4, <2>5 DEF HasRun
  <2> QED
    BY <1>2, <1>6, <2>1, <2>2, <2>4, <2>6
<1>12. CASE RunBenchmark
  <2>1. /\ stage \in Selected /\ i \in DOMAIN bench[stage] /\ i' = i + 1
        /\ log' = [log EXCEPT ![stage] = Append(@, bench[stage][i])]
        /\ UNCHANGED <<wsVars, stage, built, bench>>
    BY <1>12 DEF RunBenchmark, AfterFailure
  <2>2. UNCHANGED <<array, len, node>>
    BY <2>1 DEF wsVars
  <2>3. stage \in Stages /\ stage \notin Past[stage]
    BY <1>2, <2>1, Order
  <2>4. /\ DOMAIN log' = Stages
        /\ \A m \in Stages \ {stage} : log'[m] = log[m]
        /\ log'[stage] = Append(log[stage], bench[stage][i])
    BY <1>3, <2>1, <2>3
  <2>5. \A m \in Past[stage] : HasRun(m)'
    <3>1. \A m \in Past[stage] : m \in Stages \ {stage}
      BY <1>2, <2>3, Order
    <3> QED
      BY <1>1, <1>3, <2>1, <2>2, <2>4, <3>1, RunStays
  <2>6. i > 0
    <3>1. PICK N \in Nat : bench[stage] = [n \in 1..N |-> bench[stage][n]]
      BY <2>3, AllAreVectors
    <3>2. DOMAIN bench[stage] = 1..N
      BY <3>1
    <3> QED
      BY <1>4, <2>1, <3>2
  <2>7. log'[stage] = [n \in 1..(i' - 1) |-> bench[stage][n]]
    <3> DEFINE b == bench[stage]
    <3>1. log[stage] = [n \in 1..(i - 1) |-> b[n]]
      BY <1>3, <2>3 DEF IsRunning
    <3> HIDE DEF b
    <3>2. Append([n \in 1..(i - 1) |-> b[n]], b[i]) = [n \in 1..i |-> b[n]]
      BY <1>4, <2>6, OneMoreRun
    <3>3. log'[stage] = Append(log[stage], b[i])
      BY <2>4 DEF b
    <3>4. log'[stage] = [n \in 1..i |-> b[n]]
      BY <3>1, <3>2, <3>3
    <3>5. i' - 1 = i
      BY <1>4, <2>1
    <3> QED
      BY <3>4, <3>5 DEF b
  <2>8. IsRunning(stage)'
    <3>1. stage = "E" => bench.E = DelayBenchmarks(NextTest)
      BY <1>3, <2>3, <2>6 DEF IsRunning
    <3>2. DelayBenchmarks(NextTest)' = DelayBenchmarks(NextTest)
      BY <1>1, <2>1, <2>2, NothingBuilt
    <3> QED
      BY <1>4, <2>1, <2>7, <3>1, <3>2 DEF IsRunning
  <2> QED
    BY <1>3, <2>1, <2>4, <2>5, <2>8 DEF LogInv
<1>13. CASE EndMode
  <2>1. /\ stage \in Selected /\ i > Len(bench[stage]) /\ i > 0
        /\ stage' = NextStage[stage] /\ i' = 0
        /\ UNCHANGED <<wsVars, built, testIndex, bench, log>>
    BY <1>13 DEF EndMode
  <2>2. UNCHANGED <<array, len, node>>
    BY <2>1 DEF wsVars
  <2>3. stage \in Stages
    BY <1>2, <2>1
  <2>4. log[stage] = bench[stage]
    <3>1. PICK N \in Nat : bench[stage] = [n \in 1..N |-> bench[stage][n]]
      BY <2>3, AllAreVectors
    <3>2. Len(bench[stage]) = N /\ DOMAIN bench[stage] = 1..N
      BY <3>1, Vector
    <3>3. i > 1 => i - 1 \in 1..N
      BY <1>3, <2>3, <3>2 DEF IsRunning
    <3>4. i - 1 = N
      BY <1>4, <2>1, <3>2, <3>3
    <3>5. log[stage] = [n \in 1..(i - 1) |-> bench[stage][n]]
      BY <1>3, <2>3 DEF IsRunning
    <3> QED
      BY <3>1, <3>4, <3>5
  <2>5. stage # "E" => built
    BY <1>1, <1>2, <2>1, Order DEF BenchInv
  <2>6. stage \in Ran
    <3>1. stage = "E" => config.workers > 1
      <4>1. config.workers \in Nat
        BY DEF ConfigInv, ConfigOK
      <4> QED
        BY <2>1, <4>1 DEF BenchInv
    <3> QED
      BY <2>1, <3>1 DEF Ran, Selected
  <2>7. stage = "E" => bench.E = DelayBenchmarks(NextTest)
    BY <1>3, <2>1, <2>3 DEF IsRunning
  <2>8. HasRun(stage)
    BY <2>4, <2>5, <2>6, <2>7 DEF HasRun
  <2> QED
    BY <1>6, <2>1, <2>2, <2>3, <2>8
<1>14. CASE Destroy
  <2>1. UNCHANGED managerVars /\ UNCHANGED <<array, len, node>>
    BY <1>14 DEF Destroy, Release, StartRelease, ReleaseRegion, AllReleased
  <2> QED
    BY <1>5, <2>1 DEF managerVars
<1>15. CASE UNCHANGED vars
  BY <1>5, <1>15 DEF vars, wsVars, managerVars
<1>16. Done => UNCHANGED vars
  BY DEF Done
<1> QED
  BY <1>7, <1>8, <1>9, <1>10, <1>11, <1>12, <1>13, <1>14, <1>15, <1>16
     DEF Next

\* The selected modes are run one after the other, each from the first of
\* its benchmarks to the last, whether or not some of them fail.
THEOREM ModesRunInTurn == Spec => []LogInv
BY InitialLog, ConfigurationIsSound, BenchmarksBuiltOnce, StepOfLog, PTL
   DEF Spec


-----------------------------------------------------------------------------
(* Each test is run once.                                                  *)

\* No two benchmarks of a vector are of one place and case.
Distinct(s) ==
  \A j, n \in DOMAIN s :
    /\ PlaceOf(s[j]) = PlaceOf(s[n])
    /\ s[j].region = s[n].region
    /\ s[j].what = s[n].what
    => j = n

LEMMA DistinctIsInjective ==
  ASSUME NEW s, Distinct(s)
  PROVE  IsInjective([n \in DOMAIN s |->
                        <<PlaceOf(s[n]), s[n].region, s[n].what>>])
BY DEF IsInjective, Distinct

LEMMA NothingIsDistinct == Distinct(<<>>)
BY DEF Distinct

LEMMA ThroughputOnce ==
  ASSUME ConfigInv, NEW first \in Nat
  PROVE  LET s == ThroughputBenchmarks(first) IN
         /\ Distinct(s)
         /\ {<<PlaceOf(b), b.what>> : b \in Range(s)} = WantedPlaces \X Wanted
<1> DEFINE s == ThroughputBenchmarks(first)
           l == Nested(PlaceList, Cases)
           W == WantedPlaces \X Wanted
<1>1. /\ Tests \in Nat
      /\ s = [n \in 1..Tests |-> s[n]]
      /\ \A n \in 1..Tests : <<PlaceOf(s[n]), s[n].what>> = l[n]
  BY ThroughputTests
<1>2. DOMAIN s = 1..Tests
  BY <1>1
<1>3. Lists(l, W)
  BY PlacesListed, CasesListed, NestedLists
<1>4. Len(l) = Tests
  <2>1. /\ Len(PlaceList) = Len(Places)
        /\ l = [n \in 1..Tests |-> l[n]]
    BY PlacesListed DEF Nested, Tests
  <2> HIDE DEF l
  <2> QED
    BY <1>1, <2>1, Vector
<1> HIDE DEF s, l, W
<1>5. Distinct(s)
  BY <1>1, <1>2, <1>3, <1>4 DEF Distinct, Lists
<1>6. ASSUME NEW x \in W
      PROVE  \E b \in Range(s) : x = <<PlaceOf(b), b.what>>
  <2>1. PICK n \in 1..Tests : l[n] = x
    BY <1>3, <1>4 DEF Lists
  <2>2. s[n] \in Range(s)
    BY <1>2 DEF Range
  <2> QED
    BY <1>1, <2>1, <2>2
<1>7. ASSUME NEW b \in Range(s)
      PROVE  <<PlaceOf(b), b.what>> \in W
  <2>1. PICK n \in 1..Tests : b = s[n]
    BY <1>2 DEF Range
  <2>2. l[n] \in W
    BY <1>3, <1>4, <2>1 DEF Lists
  <2> QED
    BY <1>1, <2>1, <2>2
<1>8. {<<PlaceOf(b), b.what>> : b \in Range(s)} = W
  BY <1>6, <1>7
<1> QED
  BY <1>5, <1>8 DEF s, W

\* With one worker there is one latency test of each place.
LEMMA LatencyOnce ==
  ASSUME ConfigInv, NEW first \in Nat, ~(config.workers > 1), Wanted # {}
  PROVE  LET s == LatencyBenchmarks(first) IN
         /\ Distinct(s)
         /\ Len(s) = Cardinality(WantedPlaces)
         /\ {PlaceOf(b) : b \in Range(s)} = WantedPlaces
<1> DEFINE s == LatencyBenchmarks(first)
           N == Len(Places)
<1>1. Cases # <<>>
  <2>1. PICK x \in Wanted : TRUE
    OBVIOUS
  <2>2. PICK n \in 1..Len(Cases) : Cases[n] = x
    BY <2>1, CasesListed DEF Lists
  <2> QED
    BY <2>2
<1>2. s = [p \in 1..N |-> At(first, p, 1)]
  BY <1>1 DEF LatencyBenchmarks
<1>3. /\ Lists(PlaceList, WantedPlaces)
      /\ Len(PlaceList) = N /\ N \in Nat
      /\ DOMAIN Places = 1..N
  BY PlacesListed
<1>4. \A p \in 1..N : PlaceOf(s[p]) = PlaceList[p]
  BY <1>2, <1>3 DEF PlaceOf, At, PlaceList
<1>5. DOMAIN s = 1..N /\ Len(s) = N
  <2>1. s = [p \in 1..N |-> s[p]]
    BY <1>2
  <2> HIDE DEF s, N
  <2> QED
    BY <1>3, <2>1, Vector
<1>6. Cardinality(WantedPlaces) = N
  BY <1>3, ListLength
<1> HIDE DEF s, N
<1>7. Distinct(s)
  BY <1>3, <1>4, <1>5 DEF Distinct, Lists
<1>8. ASSUME NEW x \in WantedPlaces
      PROVE  \E b \in Range(s) : x = PlaceOf(b)
  <2>1. PICK n \in 1..N : PlaceList[n] = x
    BY <1>3 DEF Lists
  <2>2. s[n] \in Range(s)
    BY <1>5 DEF Range
  <2> QED
    BY <1>4, <2>1, <2>2
<1>9. ASSUME NEW b \in Range(s)
      PROVE  PlaceOf(b) \in WantedPlaces
  <2>1. PICK n \in 1..N : b = s[n]
    BY <1>5 DEF Range
  <2> QED
    BY <1>3, <1>4, <2>1 DEF Lists
<1>10. {PlaceOf(b) : b \in Range(s)} = WantedPlaces
  BY <1>8, <1>9
<1> QED
  BY <1>5, <1>6, <1>7, <1>10 DEF s

LEMMA MatrixOnce ==
  ASSUME ConfigInv, NEW mode, NEW first \in Nat
  PROVE  LET s == MatrixBenchmarks(mode, first) IN
         /\ Distinct(s)
         /\ {<<b.pu, b.region, b.what.chunk, b.what.stride>> : b \in Range(s)}
              = MatrixSet
<1> DEFINE s == MatrixBenchmarks(mode, first)
           N == Len(MatrixCases)
<1>1. /\ Lists(MatrixList, MatrixSet)
      /\ Len(MatrixList) = N /\ N \in Nat
      /\ DOMAIN MatrixCases = 1..N
  BY MatrixCasesListed
<1>2. DOMAIN s = 1..N
  BY DEF MatrixBenchmarks
<1>3. ASSUME NEW n \in 1..N
      PROVE  <<s[n].pu, s[n].region, s[n].what.chunk, s[n].what.stride>>
               = MatrixList[n]
  <2>1. /\ s[n].pu = MatrixCases[n].pu
        /\ s[n].region = MatrixCases[n].region
        /\ s[n].what = [pattern |-> "SEQUENTIAL", rw |-> "READ",
                        chunk |-> MatrixCases[n].chunk,
                        stride |-> MatrixCases[n].stride]
    BY DEF MatrixBenchmarks
  <2> HIDE DEF s
  <2> QED
    BY <1>1, <2>1 DEF MatrixList
<1> HIDE DEF s, N
<1>4. Distinct(s)
  <2> SUFFICES ASSUME NEW j \in 1..N, NEW n \in 1..N,
                      PlaceOf(s[j]) = PlaceOf(s[n]),
                      s[j].region = s[n].region, s[j].what = s[n].what
               PROVE  j = n
    BY <1>2 DEF Distinct
  <2>1. s[j].pu = s[n].pu
    BY DEF PlaceOf
  <2>2. MatrixList[j] = MatrixList[n]
    BY <1>3, <2>1
  <2> QED
    BY <1>1, <2>2 DEF Lists
<1>5. ASSUME NEW x \in MatrixSet
      PROVE  \E b \in Range(s) :
               x = <<b.pu, b.region, b.what.chunk, b.what.stride>>
  <2>1. PICK n \in 1..N : MatrixList[n] = x
    BY <1>1 DEF Lists
  <2>2. s[n] \in Range(s)
    BY <1>2 DEF Range
  <2> QED
    BY <1>3, <2>1, <2>2
<1>6. ASSUME NEW b \in Range(s)
      PROVE  <<b.pu, b.region, b.what.chunk, b.what.stride>> \in MatrixSet
  <2>1. PICK n \in 1..N : b = s[n]
    BY <1>2 DEF Range
  <2>2. MatrixList[n] \in MatrixSet
    BY <1>1, <2>1 DEF Lists
  <2> QED
    BY <1>3, <2>1, <2>2
<1>7. {<<b.pu, b.region, b.what.chunk, b.what.stride>> : b \in Range(s)}
        = MatrixSet
  BY <1>5, <1>6
<1> QED
  BY <1>4, <1>7 DEF s

LEMMA DelayOnce ==
  ASSUME ConfigInv, NEW first \in Nat
  PROVE  LET s == DelayBenchmarks(first) IN
         /\ Distinct(s)
         /\ {<<b.memNode, b.pu, b.what.chunk, b.what.delay>> : b \in Range(s)}
              = DelaySet
<1> DEFINE s == DelayBenchmarks(first)
           N == Len(DelayCases)
<1>1. /\ Lists(DelayList, DelaySet)
      /\ Len(DelayList) = N /\ N \in Nat
      /\ DOMAIN DelayCases = 1..N
  BY DelayCasesListed
<1>2. DOMAIN s = 1..N
  BY DEF DelayBenchmarks
<1>3. ASSUME NEW n \in 1..N
      PROVE  <<s[n].memNode, s[n].pu, s[n].what.chunk, s[n].what.delay>>
               = DelayList[n]
  <2>1. /\ s[n].pu = DelayCases[n].cpuNode
        /\ s[n].memNode = DelayCases[n].memNode
        /\ s[n].what = [chunk |-> DelayCases[n].chunk,
                        delay |-> DelayCases[n].delay]
    BY DEF DelayBenchmarks
  <2> HIDE DEF s
  <2> QED
    BY <1>1, <2>1 DEF DelayList
<1> HIDE DEF s, N
<1>4. Distinct(s)
  <2> SUFFICES ASSUME NEW j \in 1..N, NEW n \in 1..N,
                      PlaceOf(s[j]) = PlaceOf(s[n]),
                      s[j].region = s[n].region, s[j].what = s[n].what
               PROVE  j = n
    BY <1>2 DEF Distinct
  <2>1. s[j].pu = s[n].pu /\ s[j].memNode = s[n].memNode
    BY DEF PlaceOf
  <2>2. DelayList[j] = DelayList[n]
    BY <1>3, <2>1
  <2> QED
    BY <1>1, <2>2 DEF Lists
<1>5. ASSUME NEW x \in DelaySet
      PROVE  \E b \in Range(s) :
               x = <<b.memNode, b.pu, b.what.chunk, b.what.delay>>
  <2>1. PICK n \in 1..N : DelayList[n] = x
    BY <1>1 DEF Lists
  <2>2. s[n] \in Range(s)
    BY <1>2 DEF Range
  <2> QED
    BY <1>3, <2>1, <2>2
<1>6. ASSUME NEW b \in Range(s)
      PROVE  <<b.memNode, b.pu, b.what.chunk, b.what.delay>> \in DelaySet
  <2>1. PICK n \in 1..N : b = s[n]
    BY <1>2 DEF Range
  <2>2. DelayList[n] \in DelaySet
    BY <1>1, <2>1 DEF Lists
  <2> QED
    BY <1>3, <2>1, <2>2
<1>7. {<<b.memNode, b.pu, b.what.chunk, b.what.delay>> : b \in Range(s)}
        = DelaySet
  BY <1>5, <1>6
<1> QED
  BY <1>4, <1>7 DEF s

LEMMA AllIsRunOnce ==
  ASSUME ConfigInv, BenchInv, LogInv
  PROVE  EachTestRunOnce
<1> SUFFICES ASSUME stage = "end"
             PROVE  EachTestRunOnce
  BY DEF EachTestRunOnce
<1>1. \A m \in Stages : HasRun(m)
  BY Order DEF LogInv
<1>2. /\ config.modes \subseteq Modes /\ config.base \in Nat
      /\ config.workers \in Nat
  BY DEF ConfigInv, ConfigOK
<1>3. /\ Modes \subseteq Stages /\ "E" \notin Modes /\ "E" \in Stages
      /\ Modes = {"T", "L", "LM", "TM"} /\ Selected \subseteq Stages
      /\ \A m \in Stages : m \in Ran => m \in Selected
      /\ \A m \in Selected : m \in config.modes \/ m = "E"
      /\ config.modes \subseteq Ran /\ config.modes \subseteq Selected
      /\ "E" \in Ran <=> "E" \in Selected /\ config.workers > 1
  BY <1>2, Order DEF Selected, Ran
<1>4. /\ config.base + Tests \in Nat
      /\ config.base + Tests + Len(MatrixCases) \in Nat
      /\ NextTest \in Nat
  <2>1. Tests \in Nat /\ Len(MatrixCases) \in Nat
    BY <1>2, Vectors
  <2> QED
    BY <1>2, <2>1 DEF NextTest
\* What each mode has run.
<1>5. ASSUME NEW m \in config.modes
      PROVE  log[m] = bench[m] /\ Built
  BY <1>1, <1>2, <1>3 DEF HasRun, BenchInv
<1>6. "E" \in Ran => log.E = DelayBenchmarks(NextTest)
  BY <1>1, <1>3 DEF HasRun
<1>7. \A m \in Stages : m \notin Ran => log[m] = <<>>
  BY <1>1 DEF HasRun
<1>8. "T" \in config.modes => log.T = ThroughputBenchmarks(config.base)
  BY <1>5 DEF Built
<1>9. "L" \in config.modes => log.L = LatencyBenchmarks(config.base)
  BY <1>5 DEF Built
<1>10. ASSUME NEW m \in config.modes \cap {"LM", "TM"}
       PROVE  \E first \in Nat : log[m] = MatrixBenchmarks(m, first)
  BY <1>4, <1>5 DEF Built
<1>11. config.workers > 1 \/ Wanted = {} =>
         LatencyBenchmarks(config.base) = ThroughputBenchmarks(config.base)
  <2>1. ASSUME Wanted = {}
        PROVE  Cases = <<>>
    <3>1. /\ Len(Cases) \in Nat
          /\ Cases \in [1..Len(Cases) -> {}]
      BY <2>1, CasesListed DEF Lists
    <3>2. Len(Cases) = 0
      BY <3>1
    <3>3. Cases = [n \in 1..0 |-> Cases[n]]
      BY <3>1, <3>2
    <3> QED
      BY <3>3, Vector
  <2> QED
    BY <2>1 DEF LatencyBenchmarks
\* No mode has run two of a kind.
<1>12. ASSUME NEW m \in Selected
       PROVE  Distinct(log[m])
  <2>1. CASE m = "T" /\ m \in config.modes
    BY <1>2, <1>8, <2>1, ThroughputOnce
  <2>2. CASE m = "L" /\ m \in config.modes
    BY <1>2, <1>9, <1>11, <2>2, ThroughputOnce, LatencyOnce
  <2>3. CASE m \in {"LM", "TM"} /\ m \in config.modes
    BY <1>10, <2>3, MatrixOnce
  <2>4. CASE m = "E"
    BY <1>3, <1>4, <1>6, <1>7, <2>4, DelayOnce, NothingIsDistinct
  <2> QED
    BY <1>2, <1>3, <2>1, <2>2, <2>3, <2>4
<1>13. \A m \in Selected : IsInjective([n \in DOMAIN log[m] |->
          <<PlaceOf(log[m][n]), log[m][n].region, log[m][n].what>>])
  BY <1>12, DistinctIsInjective
<1>14. \A m \in Stages \ Selected : log[m] = <<>>
  BY <1>3, <1>7
<1>15. "T" \in config.modes =>
         {<<PlaceOf(b), b.what>> : b \in Range(log.T)} = WantedPlaces \X Wanted
  BY <1>2, <1>8, ThroughputOnce
<1>16. "L" \in config.modes /\ config.workers > 1 =>
         {<<PlaceOf(b), b.what>> : b \in Range(log.L)} = WantedPlaces \X Wanted
  BY <1>2, <1>9, <1>11, ThroughputOnce
<1>17. "L" \in config.modes /\ config.workers = 1 /\ Wanted # {} =>
         /\ Len(log.L) = Cardinality(WantedPlaces)
         /\ {PlaceOf(b) : b \in Range(log.L)} = WantedPlaces
  BY <1>2, <1>9, LatencyOnce
<1>18. \A m \in config.modes \cap {"LM", "TM"} :
         {<<b.pu, b.region, b.what.chunk, b.what.stride>> :
            b \in Range(log[m])}
           = Range(ProcessorUnits) \X RegionIds \X config.chunks
               \X config.strides
  BY <1>10, MatrixOnce DEF MatrixSet
<1>19. "E" \in Selected /\ config.workers > 1 =>
         {<<b.memNode, b.pu, b.what.chunk, b.what.delay>> : b \in Range(log.E)}
           = Range(config.memNodes) \X Range(config.cpuNodes) \X Chunks
               \X {d \in 0..MaxDelay : d = 0 \/ \E e \in 0..d : d = 2 ^ e}
  BY <1>3, <1>4, <1>6, DelayOnce DEF DelaySet, IsDelay
<1> QED
  BY <1>13, <1>14, <1>15, <1>16, <1>17, <1>18, <1>19 DEF EachTestRunOnce

\* Every combination that the command line asks for is run, once, in every
\* mode that is selected, and no other is, whichever benchmarks fail.
THEOREM TestsAreRunOnce == Spec => []EachTestRunOnce
BY AllIsRunOnce, ConfigurationIsSound, BenchmarksBuiltOnce, ModesRunInTurn, PTL

=============================================================================

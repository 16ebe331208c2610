----------------------------- MODULE WorkingSets -----------------------------
(***************************************************************************)
(* The memory under test: BenchmarkManager::setupWorkingSets(), which      *)
(* allocates one region per selected NUMA node and region number, or maps  *)
(* given physical addresses, and aligns it, and the part of                *)
(* ~BenchmarkManager() that gives the regions back.                        *)
(*                                                                         *)
(* Memory is a range of addresses.  The operating system hands out ranges  *)
(* that overlap no other; what the program does with the pointers is its   *)
(* own affair, and that is what the properties are about.                  *)
(***************************************************************************)
EXTENDS Integers, Sequences, FiniteSets

CONSTANTS
  NumNodes,       \* g_num_numa_nodes
  PageSize,       \* g_page_size
  LargePageSize,  \* g_large_page_size
  Bases,          \* bound: addresses an allocation may start at
  Builds          \* which builds of the program are looked at

\* Windows and x86-64 Linux have NUMA and large pages, other Linux builds
\* have neither and use malloc().
AllBuilds == {"windows", "linux", "malloc"}

ASSUME WorkingSetsAssumption ==
  /\ NumNodes \in Nat \ {0}
  /\ PageSize \in Nat \ {0}
  /\ LargePageSize \in Nat \ {0}
  /\ Bases \subseteq Nat
  /\ Builds \subseteq AllBuilds

VARIABLES
  build,   \* which build this is
  config,  \* the configuration
  setup,   \* "allocate", "ready", "exited", "release" or "released"
  k,       \* position in the list of memory nodes, or of physical addresses
  r,       \* mem_region, the region number on that node
  array,   \* mem_arrays_
  len,     \* mem_array_lens_
  node,    \* mem_array_node_
  orig,    \* orig_malloc_addr_
  heap,    \* the ranges the operating system has handed out
  badFree  \* something was freed that had not been handed out

wsVars == <<build, config, setup, k, r, array, len, node, orig, heap, badFree>>

Null == -1
NoNode == -1

Nodes == 0..NumNodes-1

\* An accepted command line leads to a configuration that setupWorkingSets()
\* can work with: each node exists and is listed once, there is at least one
\* region and one worker, and working sets are multiples of the page size.
ConfigOK ==
  /\ config.memNodes \in Seq(Nodes)
  /\ config.memNodes # <<>>
  /\ \A n, m \in DOMAIN config.memNodes :
       n # m => config.memNodes[n] # config.memNodes[m]
  /\ config.regions \in Nat
  /\ ~config.physical => config.regions > 0
  /\ config.workers \in Nat \ {0}
  /\ config.wsSize \in Nat \ {0}
  /\ config.wsSize % PageSize = 0
  /\ config.largePages \in BOOLEAN
  /\ config.physical \in BOOLEAN
  /\ config.phys \in Seq(Nat)

NumRegions ==
  IF config.physical THEN Len(config.phys) ELSE NumNodes * config.regions

RegionIds == 0..NumRegions-1

\* The region at which the loops over nodes and region numbers are.
RegionId == config.memNodes[k] * config.regions + r

WorkingSetSize == config.workers * config.wsSize

-----------------------------------------------------------------------------
(* Sizes and addresses.                                                    *)

\* With large pages: at least one, or the working sets and the remainder
\* that they leave in their last page.
LargeAllocationSize ==
  IF WorkingSetSize < LargePageSize
  THEN LargePageSize
  ELSE WorkingSetSize + (WorkingSetSize % LargePageSize)

\* Mutant: no room for the alignment.
AllocationSizeWithoutSlack ==
  IF config.largePages THEN LargeAllocationSize ELSE WorkingSetSize

\* Otherwise a page more than needed, for the alignment.
AllocationSize ==
  IF config.largePages THEN LargeAllocationSize ELSE WorkingSetSize + PageSize

Alignment == IF config.largePages THEN LargePageSize ELSE PageSize

\* Upwards to the next boundary: (a + mask) & ~mask.
Aligned(a) == (a + (Alignment - 1)) - ((a + (Alignment - 1)) % Alignment)

Disjoint(x, y) == x.base + x.size <= y.base \/ y.base + y.size <= x.base

\* The operating system gives out addresses on page boundaries; malloc()
\* gives out any.
IsFree(base, size) ==
  /\ \A h \in heap : Disjoint(h, [base |-> base, size |-> size])
  /\ (config.physical \/ build # "malloc") => base % PageSize = 0
  /\ config.largePages => base % LargePageSize = 0

\* Which functions allocate and free virtual memory.
Allocator ==
  IF build = "linux" /\ config.largePages THEN "huge pages" ELSE build

-----------------------------------------------------------------------------
(* setupWorkingSets().                                                     *)

WSInit ==
  /\ build \in Builds
  /\ setup = "allocate"
  /\ k = 1
  /\ r = 0
  /\ array = [id \in RegionIds |-> Null]
  /\ len = [id \in RegionIds |-> 0]
  /\ node = [id \in RegionIds |-> 0]
  /\ orig = Null
  /\ heap = {}
  /\ badFree = FALSE

\* On to the next region number, the next node, or out of the loops.
NextRegion ==
  \/ /\ r + 1 < config.regions
     /\ r' = r + 1
     /\ UNCHANGED <<k, setup>>
  \/ /\ r + 1 >= config.regions
     /\ k < Len(config.memNodes)
     /\ r' = 0
     /\ k' = k + 1
     /\ UNCHANGED setup
  \/ /\ r + 1 >= config.regions
     /\ k >= Len(config.memNodes)
     /\ setup' = "ready"
     /\ UNCHANGED <<k, r>>

\* A large page allocation is stored under the number of its node, and the
\* test that follows looks under the number of the region.
AllocateRegion ==
  /\ setup = "allocate"
  /\ ~config.physical
  /\ \E base \in Bases :
       LET n == config.memNodes[k]
           slot == IF config.largePages THEN n ELSE RegionId
           stored == [array EXCEPT ![slot] = base]
       IN
       /\ IsFree(base, AllocationSize)
       /\ heap' = heap \cup
            {[base |-> base, size |-> AllocationSize, by |-> Allocator]}
       /\ node' = [node EXCEPT ![RegionId] = n]
       /\ orig' = IF build = "malloc" THEN stored[n] ELSE orig
       /\ \/ /\ stored[RegionId] # Null
             /\ array' = [stored EXCEPT ![RegionId] = Aligned(@)]
             /\ len' = [len EXCEPT ![RegionId] = WorkingSetSize]
             /\ NextRegion
          \/ /\ stored[RegionId] = Null
             /\ array' = stored
             /\ setup' = "exited"
             /\ UNCHANGED <<k, r, len>>
  /\ UNCHANGED <<build, config, badFree>>

\* The physical address is mapped from the start of its page.  For matrix
\* benchmarks the program asks on which node it lies; the answer may fail.
MapRegion ==
  /\ setup = "allocate"
  /\ config.physical
  /\ k <= Len(config.phys)
  /\ \E base \in Bases, n \in Nodes \cup {NoNode} :
       LET size == (config.phys[k] % PageSize) + config.wsSize IN
       /\ IsFree(base, size)
       /\ heap' = heap \cup
            {[base |-> base, size |-> size, by |-> "mmap"]}
       /\ array' = [array EXCEPT ![k - 1] = base]
       /\ len' = [len EXCEPT ![k - 1] = config.wsSize]
       /\ node' = [node EXCEPT ![k - 1] = n]
  /\ k' = k + 1
  /\ UNCHANGED <<build, config, setup, r, orig, badFree>>

AllMapped ==
  /\ setup = "allocate"
  /\ config.physical
  /\ k > Len(config.phys)
  /\ setup' = "ready"
  /\ UNCHANGED <<build, config, k, r, array, len, node, orig, heap, badFree>>

\* The operating system refuses, and the program exits.
AllocationFails ==
  /\ setup = "allocate"
  /\ config.physical /\ k > 1 => k <= Len(config.phys)
  /\ setup' = "exited"
  /\ UNCHANGED <<build, config, k, r, array, len, node, orig, heap, badFree>>

SetUpWorkingSets ==
  AllocateRegion \/ MapRegion \/ AllMapped \/ AllocationFails

-----------------------------------------------------------------------------
(* ~BenchmarkManager().                                                    *)

StartRelease ==
  /\ setup = "ready"
  /\ setup' = "release"
  /\ k' = 0
  /\ UNCHANGED <<build, config, r, array, len, node, orig, heap, badFree>>

\* Mutant: the pointer is the one to the first region.
PointerToFreeOfFirst(id) == array[0]

\* What is passed to VirtualFreeEx(), free_huge_pages(), numa_free() or
\* munmap(), and what to free().
PointerToFree(id) ==
  IF build = "malloc" /\ ~config.physical THEN orig ELSE array[id]

\* The test for large pages comes before the one for physical addresses.
Deallocator ==
  IF config.physical /\ ~config.largePages THEN "mmap" ELSE Allocator

\* numa_free() and munmap() are told how much to give back, and the program
\* tells them the length of the region: what follows the region in the range
\* that was handed out stays the program's.  The others free a whole range.
FreesByLength == Deallocator \in {"linux", "mmap"}

LeftBehind(h, id) ==
  IF FreesByLength /\ len[id] < h.size
  THEN {[base |-> h.base + len[id], size |-> h.size - len[id], by |-> h.by]}
  ELSE {}

\* One turn of the loop over mem_arrays_.
ReleaseRegion ==
  /\ setup = "release"
  /\ k < NumRegions
  /\ IF array[k] # Null
     THEN LET freed == {h \in heap : /\ h.base = PointerToFree(k)
                                    /\ h.by = Deallocator}
          IN /\ heap' = (heap \ freed)
                          \cup UNION {LeftBehind(h, k) : h \in freed}
             /\ badFree' = (badFree \/ freed = {})
     ELSE UNCHANGED <<heap, badFree>>
  /\ k' = k + 1
  /\ UNCHANGED <<build, config, setup, r, array, len, node, orig>>

AllReleased ==
  /\ setup = "release"
  /\ k >= NumRegions
  /\ setup' = "released"
  /\ UNCHANGED <<build, config, k, r, array, len, node, orig, heap, badFree>>

Release == StartRelease \/ ReleaseRegion \/ AllReleased

WSDone == setup \in {"released", "exited"} /\ UNCHANGED wsVars

WSNext == SetUpWorkingSets \/ Release \/ WSDone

WSSpec == ConfigOK /\ WSInit /\ [][WSNext]_wsVars

-----------------------------------------------------------------------------
(* Properties.                                                             *)

Region(id) == [base |-> array[id], size |-> len[id]]

Within(x, y) == y.base <= x.base /\ x.base + x.size <= y.base + y.size

\* The regions a benchmark may be given: those that were allocated.
Allocated == {id \in RegionIds : array[id] # Null}

\* Once the working sets are set up, every region lies in memory that was
\* handed out, aligned to pages, and no two regions share an address: after
\* the alignment no worker writes to memory that is not the benchmark's.
RegionsAreSound ==
  setup = "ready" =>
    /\ \A id \in Allocated :
         /\ \E h \in heap : Within(Region(id), h)
         /\ array[id] % PageSize = 0 \/ LargePageSize % PageSize # 0
    /\ \A id1, id2 \in Allocated :
         id1 # id2 => Disjoint(Region(id1), Region(id2))

\* The destructor gives back, for every region, memory that was handed out and
\* has not been given back before ("Free memory arrays"), in the builds that do
\* not use malloc().  Then no address of a region is left.  Where the program
\* says how much to free, up to a page behind a region may be; otherwise
\* nothing is.  (With malloc() it frees one pointer for every region.  Large
\* pages are freed before the program looks whether they are physical
\* addresses.)
NumaBuildsFreeRegions ==
  build # "malloc" /\ ~(config.physical /\ config.largePages) =>
    /\ ~badFree
    /\ setup = "released" =>
         /\ \A h \in heap :
              /\ h.size <= PageSize
              /\ \A id \in Allocated : Disjoint(h, Region(id))
         /\ ~FreesByLength => heap = {}

=============================================================================

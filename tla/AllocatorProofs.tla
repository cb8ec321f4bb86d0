-------------------------- MODULE AllocatorProofs --------------------------
(* Proofs about Allocator: while no blob is empty, the inductive invariant   *)
(* Inv holds for any number of threads, blobs and blocks.                    *)
EXTENDS Allocator, FiniteSetTheorems, TLAPS

\* Blobs are never constructed with size 0.
NoEmptyBlobs == 0 \notin Sizes

-----------------------------------------------------------------------------
(* The class of a size, and the holders of a block.                          *)

\* A size is a natural number.
LEMMA SizesAreNumbers == \A size \in Sizes : size \in Nat
BY AllocatorAssumption

\* The power of two that Alloc rounds to is at least the size (allocator.cc:92).
LEMMA ClassFits ==
  ASSUME NEW size \in Sizes
  PROVE  size <= ClassOf(size)
<1>0. size \in Nat /\ size <= 2^30
  BY SMT, AllocatorAssumption, SizesAssumption
<1> DEFINE Good(p) == size <= p /\ (p = 32 \/ p \div 2 < size)
<1>1. \E e \in 5..30 : Good(2^e)
  <2>1. CASE size <= 2^10
    BY SMT, <1>0, <2>1, 2^5 = 32, 2^6 = 64, 2^7 = 128, 2^8 = 256, 2^9 = 512, 2^10 = 1024
  <2>2. CASE 2^10 < size /\ size <= 2^16
    BY SMT, <1>0, <2>2, 2^10 = 1024, 2^11 = 2048, 2^12 = 4096, 2^13 = 8192, 2^14 = 16384,
       2^15 = 32768, 2^16 = 65536
  <2>3. CASE 2^16 < size /\ size <= 2^22
    BY SMT, <1>0, <2>3, 2^16 = 65536, 2^17 = 131072, 2^18 = 262144, 2^19 = 524288,
       2^20 = 1048576, 2^21 = 2097152, 2^22 = 4194304
  <2>4. CASE 2^22 < size
    BY SMT, <1>0, <2>4, 2^22 = 4194304, 2^23 = 8388608, 2^24 = 16777216, 2^25 = 33554432,
       2^26 = 67108864, 2^27 = 134217728, 2^28 = 268435456, 2^29 = 536870912,
       2^30 = 1073741824
  <2> QED
    BY SMT, <1>0, <2>1, <2>2, <2>3, <2>4, 2^10 = 1024, 2^16 = 65536, 2^22 = 4194304
<1>2. \E p \in {2^e : e \in 5..30} : Good(p)
  BY <1>1
<1>3. ClassOf(size) \in {2^e : e \in 5..30} /\ Good(ClassOf(size))
  BY <1>2 DEF ClassOf
<1> QED
  BY <1>3

\* The holders of a block can be counted.
LEMMA HoldersFinite ==
  ASSUME NEW k
  PROVE  IsFiniteSet(Holders(k)) /\ Cardinality(Holders(k)) \in Nat
<1>1. Holders(k) \subseteq Blobs
  BY DEF Holders
<1>2. IsFiniteSet(Holders(k))
  BY <1>1, FS_Subset, AllocatorAssumption
<1> QED
  BY <1>2, FS_CardinalityType

-----------------------------------------------------------------------------
(* What the steps of several actions have in common.                         *)

\* A step that changes neither blobs nor blocks, and leaves the threads that
\* give a block back where they are, preserves what is said of them.
LEMMA QuietStep ==
  ASSUME RefsCounted, BlockInOnePlace, BytesKept,
         UNCHANGED <<blob, ref, room, memory, heap, free>>,
         \A k \in Blocks : Releasing(k)' = Releasing(k)
  PROVE  RefsCounted' /\ BlockInOnePlace' /\ BytesKept'
<1>1. \A k : Holders(k)' = Holders(k)
  BY DEF Holders
<1>2. RefsCounted'
  BY <1>1 DEF RefsCounted
<1>3. BlockInOnePlace'
  BY <1>1 DEF BlockInOnePlace
<1>4. BytesKept'
  BY DEF BytesKept
<1> QED
  BY <1>2, <1>3, <1>4

\* The block that a thread gets for its new blob: it was free or with malloc,
\* and is held by that blob alone afterwards.
LEMMA FilledStep ==
  ASSUME Inv, NEW t \in Threads, NEW k \in Blocks,
         busy[t].at \in Constructing,
         Filled(k, busy[t].of, t), Rest(t),
         k \in free \cup heap,
         heap' = heap \ {k}, free' = free \ {k},
         ref' = [ref EXCEPT ![k] = 1],
         DOMAIN room' = Blocks, \A j \in Blocks \ {k} : room'[j] = room[j],
         busy[t].size <= room'[k],
         UNCHANGED <<type, pools, failed>>, Running
  PROVE  Inv'
<1> DEFINE b == busy[t].of
<1> USE DEF Inv
<1>1. /\ b \in Blobs /\ busy[t].size \in Sizes /\ busy[t].value \in Values
      /\ busy[t].at # "release" /\ blob[b] = NoBlob
  BY DEF TypeOK, Idle, Constructing, OneConstructor
<1>2. busy' = [busy EXCEPT ![t] = Idle] /\ Idle.at = "idle"
  BY DEF Rest, Idle
<1>3. blob' = [blob EXCEPT ![b] = [block |-> k, size |-> busy[t].size,
                                   value |-> busy[t].value, owner |-> t]]
  BY DEF Filled
<1>4. TypeOK'
  <2>1. blob' \in [Blobs -> {NoBlob} \cup
          [block : Blocks, size : Sizes, value : Values, owner : Threads]]
    BY <1>1, <1>3 DEF TypeOK
  <2>2. busy' \in [Threads -> {Idle}
          \cup [at : Constructing, of : Blobs, size : Sizes, value : Values]
          \cup [at : {"release"}, of : Blocks, size : {0}, value : {"none"}]]
    BY <1>2 DEF TypeOK
  <2>3. DOMAIN memory' = Blocks
    BY DEF Filled, TypeOK
  <2> QED
    BY <2>1, <2>2, <2>3 DEF TypeOK
<1>5. OneConstructor'
  BY <1>1, <1>2, <1>3 DEF OneConstructor, TypeOK, Constructing
<1>6. PoolsOK'
  BY <1>2 DEF PoolsOK, TypeOK
<1>7. Holders(k) = {} /\ Releasing(k) = {}
  BY DEF BlockInOnePlace
<1>8. "none" \notin Blocks
  BY AllocatorAssumption
<1>9. Holders(k)' = {b}
  BY <1>1, <1>3, <1>7 DEF Holders, TypeOK
<1>10. \A j \in Blocks \ {k} : Holders(j)' = Holders(j)
  BY <1>1, <1>3, <1>8 DEF Holders, TypeOK, NoBlob
<1>11. \A j \in Blocks : Releasing(j)' = Releasing(j)
  BY <1>1, <1>2 DEF Releasing, TypeOK
<1>12. RefsCounted'
  BY <1>9, <1>10, FS_Singleton, ZenonT(60) DEF RefsCounted, TypeOK
<1>13. BlockInOnePlace'
  BY <1>7, <1>9, <1>10, <1>11 DEF BlockInOnePlace
<1>14. BytesKept'
  <2> SUFFICES ASSUME NEW c \in Blobs, blob'[c] # NoBlob
               PROVE  /\ blob'[c].size <= room'[blob'[c].block]
                      /\ blob'[c].size > 0 => memory'[blob'[c].block] = blob'[c].value
    BY DEF BytesKept
  <2>1. CASE c = b
    <3>1. blob'[c] = [block |-> k, size |-> busy[t].size, value |-> busy[t].value, owner |-> t]
      BY <1>1, <1>3, <2>1 DEF TypeOK
    <3>2. busy[t].size > 0 => memory'[k] = busy[t].value
      BY DEF Filled, TypeOK
    <3> QED
      BY <3>1, <3>2
  <2>2. CASE c # b
    <3>1. blob'[c] = blob[c]
      BY <1>3, <2>2 DEF TypeOK
    <3>2. blob[c].block \in Blocks \ {k}
      BY <1>7, <3>1 DEF TypeOK, Holders
    <3>3. memory'[blob[c].block] = memory[blob[c].block]
      BY <3>2 DEF Filled, TypeOK
    <3> QED
      BY <3>1, <3>2, <3>3 DEF BytesKept
  <2> QED
    BY <2>1, <2>2
<1>15. RaceNeedsTwoSizes'
  BY DEF RaceNeedsTwoSizes, Running
<1> QED
  BY <1>4, <1>5, <1>6, <1>12, <1>13, <1>14, <1>15

-----------------------------------------------------------------------------
(* Each action preserves the invariant.                                      *)

\* The beginning of a construction.
LEMMA ConstructInv ==
  ASSUME Inv, NEW t \in Threads, NEW b \in Blobs, Construct(t, b)
  PROVE  Inv'
<1> USE DEF Inv
<1>1. PICK size \in Sizes, value \in Values, at \in {"pools", "malloc"} :
        busy' = [busy EXCEPT ![t] = [at |-> at, of |-> b, size |-> size, value |-> value]]
  BY DEF Construct, Put
<1> DEFINE v == [at |-> at, of |-> b, size |-> size, value |-> value]
<1>2. /\ busy[t] = Idle /\ blob[b] = NoBlob /\ \A u \in Threads : busy[u].of # b
      /\ UNCHANGED <<type, blob, ref, room, memory, heap, pools, free, failed>>
  BY DEF Construct
<1>3. TypeOK'
  BY <1>1, <1>2 DEF TypeOK, Constructing
<1>4. OneConstructor'
  BY <1>1, <1>2 DEF OneConstructor, TypeOK, Constructing
<1>5. PoolsOK'
  BY <1>1, <1>2 DEF PoolsOK, TypeOK
<1>6. \A k \in Blocks : Releasing(k)' = Releasing(k)
  BY <1>1, <1>2 DEF Releasing, TypeOK, Idle
<1>7. RaceNeedsTwoSizes'
  BY <1>2 DEF Construct, RaceNeedsTwoSizes, Running
<1> QED
  BY <1>2, <1>3, <1>4, <1>5, <1>6, <1>7, QuietStep

\* Allocator::Alloc.
LEMMA AllocInv ==
  ASSUME Inv, NEW t \in Threads, Alloc(t)
  PROVE  Inv'
<1> USE DEF Inv
<1>1. PICK k \in Blocks : Malloc(k, busy[t].size, 1) /\ Filled(k, busy[t].of, t)
  BY DEF Alloc
<1>2. /\ Running /\ Rest(t) /\ UNCHANGED <<type, pools, free, failed>>
      /\ busy[t].at \in Constructing
  BY DEF Alloc, Constructing
<1>3. /\ k \in heap /\ heap' = heap \ {k}
      /\ room' = [room EXCEPT ![k] = busy[t].size] /\ ref' = [ref EXCEPT ![k] = 1]
  BY <1>1 DEF Malloc
<1>4. k \notin free
  BY <1>3 DEF BlockInOnePlace
<1>5. free' = free \ {k}
  BY <1>2, <1>4
<1>6. busy[t].size <= room'[k]
  <2>1. busy[t].size \in Sizes
    BY <1>2 DEF TypeOK, Idle, Constructing
  <2>2. busy[t].size \in Nat
    BY <2>1, SizesAreNumbers
  <2>3. room'[k] = busy[t].size
    BY <1>3 DEF TypeOK
  <2> QED
    BY <2>2, <2>3
<1>7. DOMAIN room' = Blocks /\ \A j \in Blocks \ {k} : room'[j] = room[j]
  BY <1>3 DEF TypeOK
<1> QED
  BY <1>1, <1>2, <1>3, <1>5, <1>6, <1>7, FilledStep

\* The test of the pool, under the lock.
LEMMA TestPoolInv ==
  ASSUME Inv, NEW t \in Threads, TestPool(t)
  PROVE  Inv'
<1> USE DEF Inv
<1> DEFINE at == IF ClassOf(busy[t].size) \in pools THEN "lookup" ELSE "insert"
<1> DEFINE v == [at |-> at, of |-> busy[t].of, size |-> busy[t].size, value |-> busy[t].value]
<1>1. /\ busy' = [busy EXCEPT ![t] = v] /\ busy[t].at = "pools" /\ LockIsFree
      /\ UNCHANGED <<type, blob, ref, room, memory, heap, pools, free, failed>>
  BY DEF TestPool, Put
<1>2. /\ busy[t].of \in Blobs /\ busy[t].size \in Sizes /\ busy[t].value \in Values
      /\ at \in {"lookup", "insert"}
  BY <1>1 DEF TypeOK, Idle
<1>3. TypeOK'
  BY <1>1, <1>2 DEF TypeOK, Constructing
<1>4. OneConstructor'
  BY <1>1, <1>2 DEF OneConstructor, TypeOK, Constructing
<1>5. PoolsOK'
  BY <1>1 DEF PoolsOK, TypeOK, LockIsFree, Inserting
<1>6. \A k \in Blocks : Releasing(k)' = Releasing(k)
  BY <1>1, <1>2 DEF Releasing, TypeOK
<1>7. RaceNeedsTwoSizes'
  BY <1>1 DEF TestPool, RaceNeedsTwoSizes, Running
<1> QED
  BY <1>1, <1>3, <1>4, <1>5, <1>6, <1>7, QuietStep

\* The insertion of a new FreeList, whose first block comes from malloc.
LEMMA InsertPoolInv ==
  ASSUME Inv, NEW t \in Threads, InsertPool(t)
  PROVE  Inv'
<1> USE DEF Inv
<1>1. PICK k \in Blocks : Malloc(k, ClassOf(busy[t].size), 0) /\ free' = free \cup {k}
  BY DEF InsertPool
<1> DEFINE v == [at |-> "lookup", of |-> busy[t].of, size |-> busy[t].size, value |-> busy[t].value]
<1>2. /\ busy[t].at = "insert" /\ busy' = [busy EXCEPT ![t] = v]
      /\ pools' = pools \cup {ClassOf(busy[t].size)}
      /\ UNCHANGED <<type, blob, memory, failed>>
  BY DEF InsertPool, Put
<1>3. /\ k \in heap /\ heap' = heap \ {k}
      /\ room' = [room EXCEPT ![k] = ClassOf(busy[t].size)]
      /\ ref' = [ref EXCEPT ![k] = 0]
  BY <1>1 DEF Malloc
<1>4. busy[t].of \in Blobs /\ busy[t].size \in Sizes /\ busy[t].value \in Values
  BY <1>2 DEF TypeOK, Idle
<1>5. TypeOK'
  BY <1>1, <1>2, <1>3, <1>4 DEF TypeOK, Constructing
<1>6. OneConstructor'
  BY <1>2, <1>4 DEF OneConstructor, TypeOK, Constructing
<1>7. PoolsOK'
  <2>1. \A u \in Threads \ {t} : busy'[u] = busy[u] /\ busy[u].at # "insert"
    BY <1>2 DEF PoolsOK, TypeOK
  <2>2. busy'[t] = v
    BY <1>2 DEF TypeOK
  <2> QED
    BY <1>2, <2>1, <2>2 DEF PoolsOK
<1>8. \A j : Holders(j)' = Holders(j)
  BY <1>2 DEF Holders
<1>9. \A j \in Blocks : Releasing(j)' = Releasing(j)
  BY <1>2 DEF Releasing, TypeOK
<1>10. Holders(k) = {} /\ Releasing(k) = {} /\ k \notin free
  BY <1>3 DEF BlockInOnePlace
<1>11. RefsCounted'
  BY <1>3, <1>8, <1>10, FS_EmptySet DEF RefsCounted, TypeOK
<1>12. BlockInOnePlace'
  BY <1>1, <1>3, <1>8, <1>9, <1>10 DEF BlockInOnePlace
<1>13. BytesKept'
  <2> SUFFICES ASSUME NEW c \in Blobs, blob[c] # NoBlob
               PROVE  room'[blob[c].block] = room[blob[c].block]
    BY <1>2 DEF BytesKept
  <2>1. blob[c].block \in Blocks \ {k}
    BY <1>10 DEF TypeOK, Holders
  <2> QED
    BY <1>3, <2>1 DEF TypeOK
<1>14. RaceNeedsTwoSizes'
  BY <1>2 DEF InsertPool, RaceNeedsTwoSizes, Running
<1> QED
  BY <1>5, <1>6, <1>7, <1>11, <1>12, <1>13, <1>14

\* The unlocked lookup: it goes wrong only next to an insertion.
LEMMA LookUpPoolInv ==
  ASSUME Inv, NEW t \in Threads, LookUpPool(t)
  PROVE  Inv'
<1> USE DEF Inv
<1>0. /\ busy[t].at = "lookup" /\ Running
      /\ UNCHANGED <<type, blob, ref, room, memory, heap, pools, free>>
  BY DEF LookUpPool
<1> DEFINE v == [at |-> "pop", of |-> busy[t].of, size |-> busy[t].size, value |-> busy[t].value]
<1>1. CASE busy' = [busy EXCEPT ![t] = v] /\ UNCHANGED failed
  <2>1. busy[t].of \in Blobs /\ busy[t].size \in Sizes /\ busy[t].value \in Values
    BY <1>0 DEF TypeOK, Idle
  <2>2. TypeOK'
    BY <1>0, <1>1, <2>1 DEF TypeOK, Constructing
  <2>3. OneConstructor'
    BY <1>0, <1>1, <2>1 DEF OneConstructor, TypeOK, Constructing
  <2>4. PoolsOK'
    BY <1>0, <1>1 DEF PoolsOK, TypeOK
  <2>5. \A k \in Blocks : Releasing(k)' = Releasing(k)
    BY <1>0, <1>1 DEF Releasing, TypeOK
  <2>6. RaceNeedsTwoSizes'
    BY <1>0, <1>1 DEF RaceNeedsTwoSizes, Running
  <2> QED
    BY <1>0, <2>2, <2>3, <2>4, <2>5, <2>6, QuietStep
<1>2. CASE Inserting /\ failed' = "race" /\ UNCHANGED busy
  <2>1. TypeOK' /\ OneConstructor' /\ PoolsOK'
    BY <1>0, <1>2 DEF TypeOK, OneConstructor, PoolsOK
  <2>2. \A k \in Blocks : Releasing(k)' = Releasing(k)
    BY <1>2 DEF Releasing
  <2>3. PICK u \in Threads : busy[u].at = "insert"
    BY <1>2 DEF Inserting
  <2>4. ClassOf(busy[t].size) \in pools /\ ClassOf(busy[u].size) \notin pools
    BY <1>0, <2>3 DEF PoolsOK
  <2>5. RaceNeedsTwoSizes'
    BY <1>0, <1>2, <2>3, <2>4 DEF RaceNeedsTwoSizes
  <2> QED
    BY <1>0, <2>1, <2>2, <2>5, QuietStep
<1> QED
  BY <1>1, <1>2 DEF LookUpPool, Put

\* FreeList::Pop, with a block of the list or a new one.
LEMMA PopInv ==
  ASSUME Inv, NEW t \in Threads, Pop(t)
  PROVE  Inv'
<1> USE DEF Inv
<1> DEFINE list == ListFor(busy[t].size)
<1>1. PICK k \in Blocks :
        /\ \/ /\ k \in list /\ free' = free \ {k} /\ ref' = [ref EXCEPT ![k] = @ + 1]
              /\ UNCHANGED <<heap, room>>
           \/ list = {} /\ Malloc(k, ClassOf(busy[t].size), 1) /\ UNCHANGED free
        /\ Filled(k, busy[t].of, t)
  BY DEF Pop
<1>2. /\ Running /\ Rest(t) /\ UNCHANGED <<type, pools, failed>>
      /\ busy[t].at \in Constructing
  BY DEF Pop, Constructing
<1>3. busy[t].size \in Sizes
  BY <1>2 DEF TypeOK, Idle, Constructing
<1>4. busy[t].size <= ClassOf(busy[t].size)
  BY <1>3, ClassFits
<1>5. CASE /\ k \in list /\ free' = free \ {k} /\ ref' = [ref EXCEPT ![k] = @ + 1]
           /\ UNCHANGED <<heap, room>>
  <2>1. k \in free /\ room[k] = ClassOf(busy[t].size)
    BY <1>5 DEF ListFor
  <2>2. k \notin heap /\ Holders(k) = {}
    BY <2>1 DEF BlockInOnePlace
  <2>3. ref[k] = 0
    BY <2>2, FS_EmptySet DEF RefsCounted
  <2>4. ref' = [ref EXCEPT ![k] = 1]
    BY <1>5, <2>3
  <2>5. heap' = heap \ {k}
    BY <1>5, <2>2
  <2>6. DOMAIN room' = Blocks /\ \A j \in Blocks \ {k} : room'[j] = room[j]
    BY <1>5 DEF TypeOK
  <2>7. busy[t].size <= room'[k]
    BY <1>4, <1>5, <2>1
  <2> QED
    BY <1>1, <1>2, <1>5, <2>1, <2>4, <2>5, <2>6, <2>7, FilledStep
<1>6. CASE list = {} /\ Malloc(k, ClassOf(busy[t].size), 1) /\ UNCHANGED free
  <2>1. /\ k \in heap /\ heap' = heap \ {k} /\ ref' = [ref EXCEPT ![k] = 1]
        /\ room' = [room EXCEPT ![k] = ClassOf(busy[t].size)]
    BY <1>6 DEF Malloc
  <2>2. k \notin free
    BY <2>1 DEF BlockInOnePlace
  <2>3. free' = free \ {k}
    BY <1>6, <2>2
  <2>4. DOMAIN room' = Blocks /\ \A j \in Blocks \ {k} : room'[j] = room[j]
    BY <2>1 DEF TypeOK
  <2>5. busy[t].size <= room'[k]
    BY <1>4, <2>1 DEF TypeOK
  <2> QED
    BY <1>1, <1>2, <2>1, <2>3, <2>4, <2>5, FilledStep
<1> QED
  BY <1>1, <1>5, <1>6

\* The process runs out of memory and goes down.
LEMMA OutOfMemoryInv ==
  ASSUME Inv, NEW t \in Threads, OutOfMemory(t)
  PROVE  Inv'
<1> USE DEF Inv
<1>1. failed' = "memory" /\ UNCHANGED <<type, blob, ref, room, memory, heap, pools, free, busy>>
  BY DEF OutOfMemory
<1>2. TypeOK' /\ OneConstructor' /\ PoolsOK' /\ RaceNeedsTwoSizes'
  BY <1>1 DEF TypeOK, OneConstructor, PoolsOK, RaceNeedsTwoSizes
<1>3. \A k \in Blocks : Releasing(k)' = Releasing(k)
  BY <1>1 DEF Releasing
<1> QED
  BY <1>1, <1>2, <1>3, QuietStep

\* The copy of a blob with bytes counts one more reference.
LEMMA CopyInv ==
  ASSUME Inv, NoEmptyBlobs, NEW t \in Threads, NEW b \in Blobs, NEW rhs \in Blobs,
         Copy(t, b, rhs)
  PROVE  Inv'
<1> USE DEF Inv
<1>1. /\ blob[b] = NoBlob /\ blob[rhs].owner = t /\ \A u \in Threads : busy[u].of # b
      /\ blob' = [blob EXCEPT ![b] = blob[rhs]]
      /\ UNCHANGED <<type, room, memory, heap, pools, free, busy, failed>> /\ Running
  BY DEF Copy
<1>2. "none" \notin Threads /\ "none" \notin Blocks
  BY AllocatorAssumption
<1>3. PICK k \in Blocks :
        blob[rhs] # NoBlob /\ blob[rhs].block = k /\ blob[rhs].size \in Sizes /\ rhs # b
  BY <1>1, <1>2 DEF TypeOK, NoBlob
<1>4. ref' = [ref EXCEPT ![k] = @ + 1]
  BY <1>3 DEF Copy, ReferAll, NoEmptyBlobs
<1>5. TypeOK'
  BY <1>1, <1>3, <1>4 DEF TypeOK
<1>6. OneConstructor' /\ PoolsOK' /\ RaceNeedsTwoSizes'
  BY <1>1 DEF OneConstructor, PoolsOK, RaceNeedsTwoSizes, TypeOK, Running
<1>7. \A j : Releasing(j)' = Releasing(j)
  BY <1>1 DEF Releasing
<1>8. Holders(k)' = Holders(k) \cup {b} /\ b \notin Holders(k) /\ rhs \in Holders(k)
  BY <1>1, <1>2, <1>3 DEF Holders, TypeOK, NoBlob
<1>9. \A j \in Blocks \ {k} : Holders(j)' = Holders(j)
  BY <1>1, <1>2, <1>3 DEF Holders, TypeOK, NoBlob
<1>10. Cardinality(Holders(k)') = Cardinality(Holders(k)) + 1
  <2>1. IsFiniteSet(Holders(k))
    BY HoldersFinite
  <2>2. Cardinality(Holders(k) \cup {b}) = Cardinality(Holders(k)) + 1
    BY <1>8, <2>1, FS_AddElement
  <2> QED
    BY <1>8, <2>2
<1>11. RefsCounted'
  BY <1>1, <1>3, <1>4, <1>9, <1>10 DEF RefsCounted, TypeOK
<1>12. BlockInOnePlace'
  BY <1>1, <1>3, <1>7, <1>8, <1>9 DEF BlockInOnePlace
<1>13. BytesKept'
  BY <1>1, <1>3 DEF BytesKept, TypeOK
<1> QED
  BY <1>5, <1>6, <1>11, <1>12, <1>13

\* The destruction of a blob gives one reference back; the thread that gave back
\* the last one has the block to release.
LEMMA DestroyInv ==
  ASSUME Inv, NEW t \in Threads, NEW b \in Blobs, Destroy(t, b)
  PROVE  Inv'
<1> USE DEF Inv
<1>1. /\ busy[t] = Idle /\ blob[b].owner = t /\ Running
      /\ ref' = [ref EXCEPT ![blob[b].block] = @ - 1]
      /\ blob' = [blob EXCEPT ![b] = NoBlob]
      /\ UNCHANGED <<type, room, memory, heap, pools, free, failed>>
  BY DEF Destroy
<1>2. "none" \notin Threads /\ "none" \notin Blocks
  BY AllocatorAssumption
<1>3. PICK k \in Blocks : blob[b] # NoBlob /\ blob[b].block = k
  BY <1>1, <1>2 DEF TypeOK, NoBlob
<1>4. Holders(k)' = Holders(k) \ {b} /\ b \in Holders(k)
  BY <1>1, <1>2, <1>3 DEF Holders, TypeOK, NoBlob
<1>5. \A j \in Blocks \ {k} : Holders(j)' = Holders(j)
  BY <1>1, <1>2, <1>3 DEF Holders, TypeOK, NoBlob
<1>6. Cardinality(Holders(k)') = Cardinality(Holders(k)) - 1 /\ IsFiniteSet(Holders(k)')
  BY <1>4, HoldersFinite, FS_RemoveElement
<1>7. k \notin heap /\ k \notin free /\ Releasing(k) = {}
  BY <1>3, <1>4 DEF BlockInOnePlace
<1>8. ref[k] = Cardinality(Holders(k))
  BY <1>3, <1>7 DEF RefsCounted
<1>9. RefsCounted'
  BY <1>1, <1>3, <1>5, <1>6, <1>8 DEF RefsCounted, TypeOK
<1>10. LastReference(k) <=> Holders(k)' = {}
  BY <1>6, <1>8, HoldersFinite, FS_EmptySet DEF LastReference
<1>11. BytesKept'
  BY <1>1 DEF BytesKept, TypeOK
<1>12. RaceNeedsTwoSizes'
  BY <1>1 DEF RaceNeedsTwoSizes, Running
<1>13. blob' \in [Blobs -> {NoBlob} \cup
         [block : Blocks, size : Sizes, value : Values, owner : Threads]]
  BY <1>1 DEF TypeOK
<1> DEFINE v == [at |-> "release", of |-> k, size |-> 0, value |-> "none"]
<1>14. CASE LastReference(k)
  <2>1. busy' = [busy EXCEPT ![t] = v]
    BY <1>3, <1>14 DEF Destroy, Put
  <2>2. TypeOK'
    BY <1>1, <1>3, <1>13, <2>1 DEF TypeOK
  <2>3. OneConstructor'
    BY <1>1, <2>1 DEF OneConstructor, TypeOK, Constructing
  <2>4. PoolsOK'
    BY <1>1, <2>1 DEF PoolsOK, TypeOK
  <2>5. Releasing(k)' = {t}
    BY <1>1, <1>7, <2>1 DEF Releasing, TypeOK, Idle
  <2>6. \A j \in Blocks \ {k} : Releasing(j)' = Releasing(j)
    BY <1>1, <2>1 DEF Releasing, TypeOK, Idle
  <2>7. BlockInOnePlace'
    BY <1>1, <1>5, <1>7, <1>10, <1>14, <2>5, <2>6 DEF BlockInOnePlace
  <2> QED
    BY <1>9, <1>11, <1>12, <2>2, <2>3, <2>4, <2>7
<1>15. CASE ~LastReference(k)
  <2>1. UNCHANGED busy
    BY <1>3, <1>15 DEF Destroy
  <2>2. TypeOK'
    BY <1>1, <1>3, <1>13, <2>1 DEF TypeOK
  <2>3. OneConstructor' /\ PoolsOK'
    BY <1>1, <2>1 DEF OneConstructor, PoolsOK, TypeOK
  <2>4. \A j : Releasing(j)' = Releasing(j)
    BY <2>1 DEF Releasing
  <2>5. BlockInOnePlace'
    BY <1>1, <1>5, <1>7, <1>10, <1>15, <2>4 DEF BlockInOnePlace
  <2> QED
    BY <1>9, <1>11, <1>12, <2>2, <2>3, <2>5
<1> QED
  BY <1>14, <1>15

\* The block goes back to its list, or to malloc.
LEMMA ReleaseInv ==
  ASSUME Inv, NEW t \in Threads, Release(t)
  PROVE  Inv'
<1> USE DEF Inv
<1>1. /\ busy[t].at = "release" /\ busy' = [busy EXCEPT ![t] = Idle] /\ Running
      /\ UNCHANGED <<type, blob, ref, room, memory, pools, failed>>
  BY DEF Release, Rest
<1>2. PICK k \in Blocks : busy[t].of = k
  BY <1>1 DEF TypeOK, Idle, Constructing
<1>3. \/ free' = free \cup {k} /\ heap' = heap
      \/ heap' = heap \cup {k} /\ free' = free
  BY <1>2 DEF Release
<1>4. TypeOK'
  BY <1>1, <1>2, <1>3 DEF TypeOK
<1>5. OneConstructor'
  BY <1>1 DEF OneConstructor, TypeOK, Constructing, Idle
<1>6. PoolsOK'
  BY <1>1 DEF PoolsOK, TypeOK, Idle
<1>7. \A j : Holders(j)' = Holders(j)
  BY <1>1 DEF Holders
<1>8. Releasing(k) = {t} /\ Holders(k) = {} /\ k \notin free /\ k \notin heap
  BY <1>1, <1>2 DEF Releasing, BlockInOnePlace
<1>9. Releasing(k)' = {}
  BY <1>1, <1>2, <1>8 DEF Releasing, TypeOK, Idle
<1>10. \A j \in Blocks \ {k} : Releasing(j)' = Releasing(j)
  BY <1>1, <1>2 DEF Releasing, TypeOK, Idle
<1>11. RefsCounted'
  BY <1>1, <1>3, <1>7 DEF RefsCounted
<1>12. BlockInOnePlace'
  BY <1>2, <1>3, <1>7, <1>8, <1>9, <1>10 DEF BlockInOnePlace
<1>13. BytesKept' /\ RaceNeedsTwoSizes'
  BY <1>1 DEF BytesKept, RaceNeedsTwoSizes, Running
<1> QED
  BY <1>4, <1>5, <1>6, <1>11, <1>12, <1>13

\* The blob changes hands, its block does not.
LEMMA PassOnInv ==
  ASSUME Inv, NEW t \in Threads, NEW u \in Threads, NEW b \in Blobs, PassOn(t, u, b)
  PROVE  Inv'
<1> USE DEF Inv
<1>1. /\ blob[b].owner = t /\ blob' = [blob EXCEPT ![b].owner = u] /\ Running
      /\ UNCHANGED <<type, ref, room, memory, heap, pools, free, busy, failed>>
  BY DEF PassOn
<1>2. blob[b] # NoBlob
  BY <1>1, AllocatorAssumption DEF NoBlob
<1>3. /\ blob[b] \in [block : Blocks, size : Sizes, value : Values, owner : Threads]
      /\ blob' = [blob EXCEPT ![b] = [blob[b] EXCEPT !.owner = u]]
  BY <1>1, <1>2 DEF TypeOK
<1>4. \A c \in Blobs : /\ blob'[c].block = blob[c].block /\ blob'[c].size = blob[c].size
                       /\ blob'[c].value = blob[c].value
                       /\ blob'[c] # NoBlob <=> blob[c] # NoBlob
  BY <1>3, AllocatorAssumption DEF TypeOK, NoBlob
<1>5. TypeOK'
  BY <1>1, <1>3 DEF TypeOK
<1>6. OneConstructor'
  BY <1>1, <1>3, <1>2 DEF OneConstructor, TypeOK
<1>7. PoolsOK' /\ RaceNeedsTwoSizes'
  BY <1>1 DEF PoolsOK, RaceNeedsTwoSizes, Running
<1>8. \A j : Holders(j)' = Holders(j) /\ Releasing(j)' = Releasing(j)
  BY <1>1, <1>4 DEF Holders, Releasing
<1>9. RefsCounted' /\ BlockInOnePlace'
  BY <1>1, <1>8 DEF RefsCounted, BlockInOnePlace
<1>10. BytesKept'
  BY <1>1, <1>4 DEF BytesKept
<1> QED
  BY <1>5, <1>6, <1>7, <1>9, <1>10

-----------------------------------------------------------------------------
(* The theorems.                                                             *)

\* Before the first blob is constructed all blocks are with malloc.
LEMMA InitInv == Init => Inv
<1> SUFFICES ASSUME Init PROVE Inv
  OBVIOUS
<1> USE DEF Init
<1>1. TypeOK
  BY DEF TypeOK
<1>2. \A k \in Blocks : Holders(k) = {} /\ Releasing(k) = {}
  BY AllocatorAssumption DEF Holders, Releasing, NoBlob, Idle
<1>3. OneConstructor /\ PoolsOK
  BY DEF OneConstructor, PoolsOK, Constructing, Idle
<1>4. RefsCounted
  BY DEF RefsCounted
<1>5. BlockInOnePlace
  BY <1>2 DEF BlockInOnePlace
<1>6. BytesKept /\ RaceNeedsTwoSizes
  BY DEF BytesKept, RaceNeedsTwoSizes
<1> QED
  BY <1>1, <1>3, <1>4, <1>5, <1>6 DEF Inv

\* A step of the program preserves the invariant.
LEMMA NextInv ==
  ASSUME NoEmptyBlobs, Inv, [Next]_vars
  PROVE  Inv'
<1>1. ASSUME NEW t \in Threads, Step(t) PROVE Inv'
  <2> USE <1>1
  <2>1. ASSUME NEW b \in Blobs, Construct(t, b) PROVE Inv'
    BY <2>1, ConstructInv
  <2>2. ASSUME NEW b \in Blobs, Destroy(t, b) PROVE Inv'
    BY <2>2, DestroyInv
  <2>3. ASSUME NEW b \in Blobs, NEW rhs \in Blobs, Copy(t, b, rhs) PROVE Inv'
    BY <2>3, CopyInv
  <2>4. ASSUME NEW u \in Threads, NEW b \in Blobs, PassOn(t, u, b) PROVE Inv'
    BY <2>4, PassOnInv
  <2>5. CASE Alloc(t)
    BY <2>5, AllocInv
  <2>6. CASE TestPool(t)
    BY <2>6, TestPoolInv
  <2>7. CASE InsertPool(t)
    BY <2>7, InsertPoolInv
  <2>8. CASE LookUpPool(t)
    BY <2>8, LookUpPoolInv
  <2>9. CASE Pop(t)
    BY <2>9, PopInv
  <2>10. CASE OutOfMemory(t)
    BY <2>10, OutOfMemoryInv
  <2>11. CASE Release(t)
    BY <2>11, ReleaseInv
  <2> QED
    BY <2>1, <2>2, <2>3, <2>4, <2>5, <2>6, <2>7, <2>8, <2>9, <2>10, <2>11 DEF Step
<1>2. CASE UNCHANGED vars
  BY <1>2 DEF Inv, vars, TypeOK, OneConstructor, PoolsOK, RefsCounted, BlockInOnePlace,
     BytesKept, RaceNeedsTwoSizes, Holders, Releasing
<1> QED
  BY <1>1, <1>2 DEF Next, Down

\* For any threads, blobs and blocks and both allocators, the allocator's
\* invariant holds, as long as no blob is empty (allocator.cc:49-148).
THEOREM AllocatorInvariant ==
  ASSUME NoEmptyBlobs
  PROVE  Spec => []Inv
<1>1. Inv /\ [Next]_vars => Inv'
  BY NextInv
<1> QED
  BY <1>1, InitInv, PTL DEF Spec

\* The reference count of a block is the number of blobs that hold it, whatever
\* copies and destructions other threads make (allocator.cc:71-88, 116-122).
THEOREM ReferencesAreCounted ==
  ASSUME NoEmptyBlobs
  PROVE  Spec => []RefsCounted
<1>1. Inv => RefsCounted
  BY DEF Inv
<1> QED
  BY <1>1, AllocatorInvariant, PTL

\* No block is given out while a blob holds it, or twice, and none is lost
\* (allocator.cc:49-75, 142-148).
THEOREM BlocksAreInOnePlace ==
  ASSUME NoEmptyBlobs
  PROVE  Spec => []BlockInOnePlace
<1>1. Inv => BlockInOnePlace
  BY DEF Inv
<1> QED
  BY <1>1, AllocatorInvariant, PTL

\* A blob keeps its bytes, in a block that is large enough (blob.cc:11-60).
THEOREM BytesAreKept ==
  ASSUME NoEmptyBlobs
  PROVE  Spec => []BytesKept
<1>1. Inv => BytesKept
  BY DEF Inv
<1> QED
  BY <1>1, AllocatorInvariant, PTL

\* No FreeList is replaced by a second insertion for its size, and a thread past
\* the lock has its FreeList (allocator.cc:106-113).
THEOREM PoolsAreInsertedOnce ==
  ASSUME NoEmptyBlobs
  PROVE  Spec => []PoolsOK
<1>1. Inv => PoolsOK
  BY DEF Inv
<1> QED
  BY <1>1, AllocatorInvariant, PTL

\* The lookup without the lock meets an insertion for another size only
\* (allocator.cc:106-113).
THEOREM RacesNeedTwoSizes ==
  ASSUME NoEmptyBlobs
  PROVE  Spec => []RaceNeedsTwoSizes
<1>1. Inv => RaceNeedsTwoSizes
  BY DEF Inv
<1> QED
  BY <1>1, AllocatorInvariant, PTL
=============================================================================

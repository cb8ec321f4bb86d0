----------------------------- MODULE Allocator -----------------------------
(* Blob and the allocators behind it (hpps/common/blob.cc, allocator.cc):    *)
(* blobs share blocks of memory that count their references. SmartAllocator  *)
(* keeps the blocks nobody refers to in a free list for each power of two;   *)
(* Allocator gives them back to malloc. Threads construct, copy and destroy  *)
(* blobs at the same time, and pass them on to each other in messages.       *)
EXTENDS Integers, FiniteSets

CONSTANTS Threads, Blobs, Blocks,
          Sizes,     \* the sizes, in bytes, that blobs are constructed with, up to 2^30
          Values,    \* what their bytes are
          Types      \* the values of the flag allocator_type

ASSUME AllocatorAssumption ==
  /\ Sizes \subseteq Nat /\ Types \subseteq {"smart", "plain"}
  /\ IsFiniteSet(Blobs) /\ "none" \notin Threads \cup Blobs \cup Blocks

ASSUME SizesAssumption == \A size \in Sizes : size <= 2^30

NoBlob == [block |-> "none", size |-> 0, value |-> "none", owner |-> "none"]
Idle == [at |-> "idle", of |-> "none", size |-> 0, value |-> "none"]

VARIABLES
  type,    \* the flag's value
  blob,    \* blob[b]: data_ and size_, the bytes it was given, the thread that has it
  ref,     \* ref[k]: the reference count in the block's header
  room,    \* room[k]: the size it was allocated with, that of its list if it has one
  memory,  \* memory[k]: the bytes in the block
  heap,    \* the blocks that malloc can give out
  pools,   \* the sizes that have a free list
  free,    \* the blocks in the free lists
  busy,    \* busy[t]: what thread t is in the middle of
  failed   \* how the process went down, if it did

vars == <<type, blob, ref, room, memory, heap, pools, free, busy, failed>>

Running == failed = "no"
Put(t, at, of, size, value) ==
  busy' = [busy EXCEPT ![t] = [at |-> at, of |-> of, size |-> size, value |-> value]]
Rest(t) == busy' = [busy EXCEPT ![t] = Idle]

-----------------------------------------------------------------------------
Init ==
  /\ type \in Types
  /\ blob = [b \in Blobs |-> NoBlob]
  /\ ref = [k \in Blocks |-> 0] /\ room = [k \in Blocks |-> 0]
  /\ memory = [k \in Blocks |-> "none"]
  /\ heap = Blocks /\ pools = {} /\ free = {}
  /\ busy = [t \in Threads |-> Idle] /\ failed = "no"

\* Mutant of ClassOf: rounded down.
ClassRoundedDown(size) ==
  CHOOSE p \in {2^e : e \in 5..30} : size < 2 * p /\ (p = 32 \/ p <= size)

\* The size of the pool Alloc takes: a power of two, at least 32.
ClassOf(size) ==
  CHOOSE p \in {2^e : e \in 5..30} : size <= p /\ (p = 32 \/ p \div 2 < size)

\* The Blob's own reference and the bytes copied into the block.
Filled(k, b, t) ==
  /\ blob' = [blob EXCEPT ![b] = [block |-> k, size |-> busy[t].size,
                                  value |-> busy[t].value, owner |-> t]]
  /\ memory' = IF busy[t].size = 0 THEN memory ELSE [memory EXCEPT ![k] = busy[t].value]

\* AlignMalloc for a block of the given size. A new MemoryBlock counts no
\* reference, a block of Allocator one.
Malloc(k, size, refs) ==
  /\ k \in heap /\ heap' = heap \ {k}
  /\ room' = [room EXCEPT ![k] = size]
  /\ ref' = [ref EXCEPT ![k] = refs]

-----------------------------------------------------------------------------
\* Blob(data, size).
Construct(t, b) ==
  /\ Running /\ busy[t] = Idle /\ blob[b] = NoBlob
  /\ \A u \in Threads : busy[u].of # b
  /\ \E size \in Sizes, value \in Values :
       Put(t, IF type = "smart" THEN "pools" ELSE "malloc", b, size, value)
  /\ UNCHANGED <<type, blob, ref, room, memory, heap, pools, free, failed>>

\* Allocator::Alloc.
Alloc(t) ==
  /\ Running /\ busy[t].at = "malloc"
  /\ \E k \in Blocks : Malloc(k, busy[t].size, 1) /\ Filled(k, busy[t].of, t)
  /\ Rest(t)
  /\ UNCHANGED <<type, pools, free, failed>>

Inserting == \E t \in Threads : busy[t].at = "insert"

\* Mutant of LockIsFree: the pools are not locked.
LockAlwaysFree == TRUE

\* SmartAllocator::Alloc holds the lock of the pools for an insertion.
LockIsFree == ~Inserting

\* Mutant of TestPool: the size is not rounded for the test.
TestPoolUnrounded(t) ==
  /\ Running /\ busy[t].at = "pools" /\ LockIsFree
  /\ Put(t, IF busy[t].size \in pools THEN "lookup" ELSE "insert",
         busy[t].of, busy[t].size, busy[t].value)
  /\ UNCHANGED <<type, blob, ref, room, memory, heap, pools, free, failed>>

TestPool(t) ==
  /\ Running /\ busy[t].at = "pools" /\ LockIsFree
  /\ Put(t, IF ClassOf(busy[t].size) \in pools THEN "lookup" ELSE "insert",
         busy[t].of, busy[t].size, busy[t].value)
  /\ UNCHANGED <<type, blob, ref, room, memory, heap, pools, free, failed>>

\* A new FreeList has one block.
InsertPool(t) ==
  /\ Running /\ busy[t].at = "insert"
  /\ \E k \in Blocks : Malloc(k, ClassOf(busy[t].size), 0) /\ free' = free \cup {k}
  /\ pools' = pools \cup {ClassOf(busy[t].size)}
  /\ Put(t, "lookup", busy[t].of, busy[t].size, busy[t].value)
  /\ UNCHANGED <<type, blob, memory, failed>>

\* The table of the pools is read after the lock is released: while another
\* thread inserts, the read may find the list or go wrong.
LookUpPool(t) ==
  /\ Running /\ busy[t].at = "lookup"
  /\ \/ /\ Put(t, "pop", busy[t].of, busy[t].size, busy[t].value) /\ UNCHANGED failed
     \/ Inserting /\ failed' = "race" /\ UNCHANGED busy
  /\ UNCHANGED <<type, blob, ref, room, memory, heap, pools, free>>

ListFor(size) == {k \in free : room[k] = ClassOf(size)}

\* FreeList::Pop, under the lock of the list, and the copy of the bytes. A
\* block that is new has its reference counted by data() as well.
Pop(t) ==
  LET list == ListFor(busy[t].size) IN
  /\ Running /\ busy[t].at = "pop"
  /\ \E k \in Blocks :
       /\ \/ /\ k \in list /\ free' = free \ {k} /\ ref' = [ref EXCEPT ![k] = @ + 1]
             /\ UNCHANGED <<heap, room>>
          \/ list = {} /\ Malloc(k, ClassOf(busy[t].size), 1) /\ UNCHANGED free
       /\ Filled(k, busy[t].of, t)
  /\ Rest(t)
  /\ UNCHANGED <<type, pools, failed>>

\* The CHECK of AlignMalloc, when there is no memory.
OutOfMemory(t) ==
  /\ Running /\ heap = {}
  /\ \/ busy[t].at \in {"malloc", "insert"}
     \/ busy[t].at = "pop" /\ ListFor(busy[t].size) = {}
  /\ failed' = "memory"
  /\ UNCHANGED <<type, blob, ref, room, memory, heap, pools, free, busy>>

\* Mutant of ReferAll: a copy does not count.
ReferNothing(source) == ref

\* Refer, unless the blob has no bytes.
ReferAll(source) == IF source.size = 0 THEN ref ELSE [ref EXCEPT ![source.block] = @ + 1]

\* Blob(rhs): a blob of the same thread is copied.
Copy(t, b, rhs) ==
  /\ Running /\ busy[t] = Idle /\ blob[b] = NoBlob /\ blob[rhs].owner = t
  /\ \A u \in Threads : busy[u].of # b
  /\ ref' = ReferAll(blob[rhs])
  /\ blob' = [blob EXCEPT ![b] = blob[rhs]]
  /\ UNCHANGED <<type, room, memory, heap, pools, free, busy, failed>>

\* Mutant of LastReference: tested without the decrement.
LastReferenceEarly(k) == ref[k] <= 2

LastReference(k) == ref[k] = 1

\* ~Blob: Free gives the reference back and, when it was the last one, goes on
\* to give back the block.
Destroy(t, b) ==
  LET k == blob[b].block IN
  /\ Running /\ busy[t] = Idle /\ blob[b].owner = t
  /\ ref' = [ref EXCEPT ![k] = @ - 1]
  /\ blob' = [blob EXCEPT ![b] = NoBlob]
  /\ IF LastReference(k) THEN Put(t, "release", k, 0, "none") ELSE UNCHANGED busy
  /\ UNCHANGED <<type, room, memory, heap, pools, free, failed>>

\* FreeList::Push under the lock of the list, or AlignFree.
Release(t) ==
  LET k == busy[t].of IN
  /\ Running /\ busy[t].at = "release" /\ Rest(t)
  /\ IF type = "smart" THEN free' = free \cup {k} /\ UNCHANGED heap
                       ELSE heap' = heap \cup {k} /\ UNCHANGED free
  /\ UNCHANGED <<type, blob, ref, room, memory, pools, failed>>

\* The blob goes to another thread in a message (Actor::Receive).
PassOn(t, u, b) ==
  /\ Running /\ busy[t] = Idle /\ blob[b].owner = t /\ u # t
  /\ blob' = [blob EXCEPT ![b].owner = u]
  /\ UNCHANGED <<type, ref, room, memory, heap, pools, free, busy, failed>>

Step(t) ==
  \/ \E b \in Blobs : Construct(t, b) \/ Destroy(t, b)
  \/ \E b, rhs \in Blobs : Copy(t, b, rhs)
  \/ \E u \in Threads, b \in Blobs : PassOn(t, u, b)
  \/ Alloc(t) \/ TestPool(t) \/ InsertPool(t) \/ LookUpPool(t) \/ Pop(t)
  \/ OutOfMemory(t) \/ Release(t)

Down == ~Running /\ UNCHANGED vars
Next == (\E t \in Threads : Step(t)) \/ Down

Spec == Init /\ [][Next]_vars

-----------------------------------------------------------------------------
Holders(k) == {b \in Blobs : blob[b].block = k}
Releasing(k) == {t \in Threads : busy[t].at = "release" /\ busy[t].of = k}

\* A thread that constructs the blob busy[t].of.
Constructing == {"malloc", "pools", "insert", "lookup", "pop"}

TypeOK ==
  /\ type \in Types /\ failed \in {"no", "race", "memory"}
  /\ blob \in [Blobs -> {NoBlob} \cup
       [block : Blocks, size : Sizes, value : Values, owner : Threads]]
  /\ ref \in [Blocks -> Int]
  /\ DOMAIN room = Blocks /\ DOMAIN memory = Blocks
  /\ heap \subseteq Blocks /\ free \subseteq Blocks
  /\ busy \in [Threads -> {Idle}
       \cup [at : Constructing, of : Blobs, size : Sizes, value : Values]
       \cup [at : {"release"}, of : Blocks, size : {0}, value : {"none"}]]

\* A block counts exactly the blobs that hold it, though copies and
\* destructions by several threads are under way (allocator.cc:71-88, 116-122).
RefsCounted == \A k \in Blocks \ heap : ref[k] = Cardinality(Holders(k))

\* Every block is in one place: held by blobs, free for reuse, with malloc, or
\* on its way back with one thread. It is never given out while it is held, or
\* twice, and never lost (allocator.cc:49-75, 142-148).
BlockInOnePlace ==
  \A k \in Blocks :
    /\ k \in free \cup heap => Holders(k) = {} /\ Releasing(k) = {}
    /\ ~(k \in free /\ k \in heap)
    /\ Releasing(k) # {} => Holders(k) = {}
    /\ \A t, u \in Releasing(k) : t = u
    /\ Holders(k) = {} => k \in free \cup heap \/ Releasing(k) # {}

\* The block of a blob is large enough, whichever blob it was used for before,
\* and the bytes in it stay what they were when the blob was constructed, or the
\* one it is a copy of: nobody else is given the block (allocator.cc:91-113,
\* blob.cc:17, "Will copy a new piece").
BytesKept ==
  \A b \in Blobs : blob[b] # NoBlob =>
    /\ blob[b].size <= room[blob[b].block]
    /\ blob[b].size > 0 => memory[blob[b].block] = blob[b].value

\* The unlocked lookup can only meet an insertion for another size: a program
\* whose blobs all have one size never does (allocator.cc:106-113).
RaceNeedsTwoSizes ==
  failed = "race" =>
    \E t, u \in Threads : /\ busy[t].at = "lookup" /\ busy[u].at = "insert"
                          /\ ClassOf(busy[t].size) \in pools
                          /\ ClassOf(busy[u].size) \notin pools

\* A blob is constructed by one thread, and nobody holds it meanwhile.
OneConstructor ==
  \A t \in Threads : busy[t].at \in Constructing =>
    /\ blob[busy[t].of] = NoBlob
    /\ \A u \in Threads : busy[u].at \in Constructing /\ busy[u].of = busy[t].of => u = t

\* The lock and the table of the pools (allocator.cc:106-113): however the calls
\* of Alloc interleave, one thread at a time inserts, a pool that is not there yet,
\* so no FreeList is replaced and leaked with its blocks; and a thread that goes on
\* without the lock has its pool, which nobody takes away.
PoolsOK ==
  \A t \in Threads :
    /\ busy[t].at = "insert" =>
         /\ ClassOf(busy[t].size) \notin pools
         /\ \A u \in Threads : busy[u].at = "insert" => u = t
    /\ busy[t].at \in {"lookup", "pop"} => ClassOf(busy[t].size) \in pools

\* What the steps of the allocators preserve while all blobs have bytes
\* (allocator.cc:49-148, blob.cc:11-60).
Inv ==
  /\ TypeOK /\ OneConstructor /\ PoolsOK
  /\ RefsCounted /\ BlockInOnePlace /\ BytesKept /\ RaceNeedsTwoSizes
=============================================================================

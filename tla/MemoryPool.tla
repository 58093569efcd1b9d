------------------------------ MODULE MemoryPool ------------------------------
(***************************************************************************)
(* The memory pool of play/cpp/try/src/memory_pool.c: a circular buffer of *)
(* pointers to free blocks.  Alloc takes the pointer at alloc_index, Free  *)
(* puts one back at free_index, and the buffer is rearranged when the pool *)
(* grows.  A block is named by its place in the sequence of data buffers,  *)
(* the i-th block of a buffer added at capacity c being block c + i.       *)
(* peak, a statistic of debug builds, is left out.                         *)
(***************************************************************************)
EXTENDS Integers, FiniteSets

CONSTANTS
  InitCapacity,
  MaxCapacity,   \* bound: the pool does not grow beyond this
  EnsureOn       \* unusual calls of MemoryPoolEnsureSpace the user makes:
                 \*   "empty": on a pool with no block in use
                 \*   "same":  with the present capacity, on a full or empty pool

ASSUME MemoryPoolAssumption ==
  /\ InitCapacity \in Nat \ {0} /\ MaxCapacity \in Nat
  /\ EnsureOn \subseteq {"empty", "same"}

VARIABLES
  ptr_buf,       \* memory_pool_ptr_buf
  alloc_index, free_index,
  capacity, used,
  held           \* the blocks the user has and may free

vars == <<ptr_buf, alloc_index, free_index, capacity, used, held>>

Slots == 0 .. (capacity - 1)

\* MemoryPoolInit
Init ==
  /\ capacity = InitCapacity
  /\ ptr_buf = [i \in Slots |-> i]
  /\ alloc_index = 0 /\ free_index = 0 /\ used = 0
  /\ held = {}

Succ(i, n) == IF i + 1 = n THEN 0 ELSE i + 1

\* The number of slots MemoryPoolEnsureSpace takes for slots of blocks in use.
num_free_section ==
  CASE used = capacity          -> capacity
    [] used # capacity /\ alloc_index > free_index -> alloc_index - free_index
    [] OTHER                    -> capacity - free_index + alloc_index

\* The new pointer buffer: in all three cases the sections copied are the old
\* slots from free_index on, around the end; the new blocks come after them.
new_ptr_buf(n) ==
  [i \in 0 .. (n - 1) |->
     IF i >= capacity THEN i
     ELSE ptr_buf[IF free_index + i < capacity THEN free_index + i
                                               ELSE free_index + i - capacity]]

\* Mutant of MemoryPoolEnsureSpace: free_index is left where it was
EnsureKeepsFree(n) ==
  /\ n >= capacity
  /\ used = 0 => "empty" \in EnsureOn
  /\ n = capacity /\ used \in {0, capacity} => "same" \in EnsureOn
  /\ ptr_buf' = new_ptr_buf(n)
  /\ alloc_index' = num_free_section
  /\ capacity' = n
  /\ UNCHANGED <<free_index, used, held>>

\* a smaller capacity returns at once
MemoryPoolEnsureSpace(n) ==
  /\ n >= capacity
  /\ used = 0 => "empty" \in EnsureOn
  /\ n = capacity /\ used \in {0, capacity} => "same" \in EnsureOn
  /\ ptr_buf' = new_ptr_buf(n)
  /\ free_index' = 0 /\ alloc_index' = num_free_section
  /\ capacity' = n
  /\ UNCHANGED <<used, held>>

AllocSpace ==
  /\ used < capacity
  /\ held' = held \cup {ptr_buf[alloc_index]}
  /\ alloc_index' = Succ(alloc_index, capacity)
  /\ used' = used + 1
  /\ UNCHANGED <<ptr_buf, free_index, capacity>>

\* Mutant of AllocFull: the alloc index is not moved on
AllocFullStays ==
  LET n == 2 * capacity IN
  /\ used = capacity /\ n <= MaxCapacity
  /\ ptr_buf' = new_ptr_buf(n)
  /\ held' = held \cup {new_ptr_buf(n)[num_free_section]}
  /\ free_index' = 0 /\ alloc_index' = num_free_section
  /\ capacity' = n
  /\ used' = used + 1

\* a full pool is doubled first
AllocFull ==
  LET n == 2 * capacity IN
  /\ used = capacity /\ n <= MaxCapacity
  /\ ptr_buf' = new_ptr_buf(n)
  /\ held' = held \cup {new_ptr_buf(n)[num_free_section]}
  /\ free_index' = 0 /\ alloc_index' = Succ(num_free_section, n)
  /\ capacity' = n
  /\ used' = used + 1

MemoryPoolAlloc == AllocSpace \/ AllocFull

\* the user frees a block it holds
MemoryPoolFree(b) ==
  /\ b \in held
  /\ ptr_buf' = [ptr_buf EXCEPT ![free_index] = b]
  /\ free_index' = Succ(free_index, capacity)
  /\ used' = used - 1
  /\ held' = held \ {b}
  /\ UNCHANGED <<alloc_index, capacity>>

Next ==
  \/ MemoryPoolAlloc
  \/ \E b \in held : MemoryPoolFree(b)
  \/ \E n \in 1 .. MaxCapacity : MemoryPoolEnsureSpace(n)

Spec == Init /\ [][Next]_vars

-----------------------------------------------------------------------------
\* Both indices are places of the pointer buffer (memory_pool.h on
\* alloc_index: "next time, alloc pointer index in pointer buffer").
IndicesInBuffer == alloc_index \in Slots /\ free_index \in Slots

\* Type invariant.
TypeOK ==
  /\ capacity \in Nat \ {0}
  /\ used \in 0 .. capacity
  /\ IndicesInBuffer
  /\ ptr_buf \in [Slots -> Slots]
  /\ held \subseteq Slots

\* The slots of blocks in use are the used slots from free_index on; the
\* others hold the pointers still to be handed out.
FreeSlots ==
  {s \in Slots : IF free_index + used <= capacity
                   THEN s < free_index \/ s >= free_index + used
                   ELSE s >= free_index + used - capacity /\ s < free_index}

\* No block is lost or duplicated, however the buffer was rearranged: the
\* free slots name every block not in use, each of them once.
NothingLost ==
  /\ {ptr_buf[s] : s \in FreeSlots} = Slots \ held
  /\ \A s, t \in FreeSlots : ptr_buf[s] = ptr_buf[t] => s = t

\* The assertion of MemoryPoolEnsureSpace: the indices of a full pool meet
\* ("assert(pool->alloc_index == pool->free_index)").
FullPoolMeets == used = capacity => alloc_index = free_index

\* The pool keeps the contract of a block pool: it never hands out a block
\* that is in use, and grows by itself only when all are.
P == INSTANCE Pool
ImplementsPool == P!Spec

====

---------------------------- MODULE ListMemoryPool ----------------------------
(***************************************************************************)
(* The list memory pools of play/cpp/try/inc: blocks in one array, a       *)
(* circular buffer naming the free ones, and a doubly linked list of the   *)
(* blocks in use.  ListMemoryPool stores pointers, which EnsureSize moves  *)
(* with the array; ListMemoryPool_UseIndex stores indices.  Both are       *)
(* indices here, the one thing that tells them apart being the number of   *)
(* entries EnsureSize copies.  peak_ and status, of debug builds, are left *)
(* out: status is membership of held.                                      *)
(***************************************************************************)
EXTENDS Integers, Sequences, SequencesExt, FiniteSets

CONSTANTS
  InitSize,
  MaxSize,       \* bound: the pool does not grow beyond this
  CopyRatio,     \* sizeof(uintptr_t) / size of an entry: 1 for pointers, 2
                 \* for the unsigned indices of a 64-bit build
  EnsureNotFull, \* does the user call EnsureSize on a pool that is not full?
  HeadNode, TailNode,    \* working_list_head_, working_list_tail_
  Null

VARIABLES
  ptr_buf,       \* memory_block_ptr_buf_ or memory_block_index_buf_
  alloc_index, free_index,
  size, working_num,
  enable_realloc,
  next, prev,    \* the links of the blocks, the head and the tail
  held,          \* history: the blocks the user has and may free,
  order          \*          and the order it got them in

bufVars == <<ptr_buf, alloc_index, free_index, size>>
vars == <<bufVars, working_num, enable_realloc, next, prev, held, order>>

Ids == 0 .. (size - 1)

\* the constructor
Init ==
  /\ size = InitSize
  /\ ptr_buf = [i \in Ids |-> i]
  /\ alloc_index = 0 /\ free_index = 0 /\ working_num = 0
  /\ enable_realloc \in BOOLEAN
  /\ next = [b \in Ids \cup {HeadNode} |-> IF b = HeadNode THEN TailNode ELSE Null]
  /\ prev = [b \in Ids \cup {TailNode} |-> IF b = TailNode THEN HeadNode ELSE Null]
  /\ held = {} /\ order = << >>

Succ(i, n) == IF i + 1 = n THEN 0 ELSE i + 1

\* The free buffer after EnsureSize(n): with a CopyRatio of 2 the copy runs on
\* over the new entries, with whatever lies behind the old buffer.
NewBufs(n) ==
  {[i \in 0 .. (n - 1) |-> CASE i < size              -> ptr_buf[i]
                             [] i \in DOMAIN garbage   -> garbage[i]
                             [] OTHER                  -> i]
     : garbage \in [size .. (CopyRatio * size - 1) -> 0 .. (n - 1)]}

\* blocks added by EnsureSize are not linked
Extend(f, n) == [b \in 0 .. (n - 1) \cup DOMAIN f |-> IF b \in DOMAIN f THEN f[b] ELSE Null]

\* the user asks for more; size <= size_ returns at once
EnsureSize(n) ==
  /\ enable_realloc
  /\ n > size
  /\ ~EnsureNotFull => working_num = size
  /\ ptr_buf' \in NewBufs(n)
  /\ alloc_index' = size /\ free_index' = 0
  /\ size' = n
  /\ next' = Extend(next, n) /\ prev' = Extend(prev, n)
  /\ UNCHANGED <<working_num, enable_realloc, held, order>>

\* Mutant of LinkToTail: the old last block is not linked to the new one
LinkBackOnly(nx, pv, b) ==
  /\ next' = [nx EXCEPT ![b] = TailNode]
  /\ prev' = [pv EXCEPT ![b] = pv[TailNode], ![TailNode] = b]

LinkToTail(nx, pv, b) ==
  /\ next' = [nx EXCEPT ![pv[TailNode]] = b, ![b] = TailNode]
  /\ prev' = [pv EXCEPT ![b] = pv[TailNode], ![TailNode] = b]

Hand(b) == held' = held \cup {b} /\ order' = Append(order, b)

AllocSpace ==
  /\ working_num < size
  /\ LET b == ptr_buf[alloc_index] IN LinkToTail(next, prev, b) /\ Hand(b)
  /\ alloc_index' = Succ(alloc_index, size)
  /\ working_num' = working_num + 1
  /\ UNCHANGED <<ptr_buf, free_index, size, enable_realloc>>

\* Mutant of AllocFull: goes on at the old alloc index
AllocFullStays ==
  LET n == 2 * size IN
  /\ working_num = size /\ enable_realloc /\ n <= MaxSize
  /\ ptr_buf' \in NewBufs(n)
  /\ LET b == ptr_buf'[alloc_index] IN LinkToTail(Extend(next, n), Extend(prev, n), b) /\ Hand(b)
  /\ alloc_index' = Succ(alloc_index, n) /\ free_index' = 0
  /\ size' = n
  /\ working_num' = working_num + 1
  /\ UNCHANGED enable_realloc

\* a full pool is doubled by EnsureSize first; without enable_realloc_ Alloc
\* returns -1 and changes nothing
AllocFull ==
  LET n == 2 * size IN
  /\ working_num = size /\ enable_realloc /\ n <= MaxSize
  /\ ptr_buf' \in NewBufs(n)
  /\ LET b == ptr_buf'[size] IN LinkToTail(Extend(next, n), Extend(prev, n), b) /\ Hand(b)
  /\ alloc_index' = Succ(size, n) /\ free_index' = 0
  /\ size' = n
  /\ working_num' = working_num + 1
  /\ UNCHANGED enable_realloc

Alloc == AllocSpace \/ AllocFull

\* the block's own links stay
Free(b) ==
  /\ b \in held
  /\ ptr_buf' = [ptr_buf EXCEPT ![free_index] = b]
  /\ free_index' = Succ(free_index, size)
  /\ working_num' = working_num - 1
  /\ next' = [next EXCEPT ![prev[b]] = next[b]]
  /\ prev' = [prev EXCEPT ![next[b]] = prev[b]]
  /\ held' = held \ {b} /\ order' = Remove(order, b)
  /\ UNCHANGED <<alloc_index, size, enable_realloc>>

EnableRealloc(is_enable) ==
  /\ enable_realloc' = is_enable
  /\ UNCHANGED <<bufVars, working_num, next, prev, held, order>>

Next ==
  \/ Alloc
  \/ \E b \in held : Free(b)
  \/ \E n \in 1 .. MaxSize : EnsureSize(n)
  \/ \E e \in BOOLEAN : EnableRealloc(e)

Spec == Init /\ [][Next]_vars

-----------------------------------------------------------------------------
\* Type invariant.
TypeOK ==
  /\ size \in Nat \ {0} /\ working_num \in 0 .. size
  /\ alloc_index \in Ids /\ free_index \in Ids
  /\ ptr_buf \in [Ids -> Ids]
  /\ next \in [Ids \cup {HeadNode} -> Ids \cup {TailNode, Null}]
  /\ prev \in [Ids \cup {TailNode} -> Ids \cup {HeadNode, Null}]
  /\ enable_realloc \in BOOLEAN

\* The working list is, in both directions, the blocks in use in the order
\* they were allocated, through frees in the middle and reallocations.
WorkingList ==
  LET path == <<HeadNode>> \o order \o <<TailNode>> IN
  /\ Len(order) = working_num /\ ToSet(order) = held
  /\ \A i \in 1 .. (Len(path) - 1) :
       next[path[i]] = path[i + 1] /\ prev[path[i + 1]] = path[i]

\* The list pool keeps the contract of a block pool.
P == INSTANCE Pool WITH capacity <- size, InitCapacity <- InitSize, used <- working_num
ImplementsPool == P!Spec

====

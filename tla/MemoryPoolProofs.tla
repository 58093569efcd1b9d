--------------------------- MODULE MemoryPoolProofs ---------------------------
(***************************************************************************)
(* The properties of MemoryPool for every initial capacity and however     *)
(* often the pool grows, provided MemoryPoolEnsureSpace is called neither  *)
(* on a pool without a block in use nor, on a full one, with the present   *)
(* capacity; and, for every call that really grows the pool, that the      *)
(* indices stay in the buffer.                                             *)
(***************************************************************************)
EXTENDS MemoryPool, FiniteSetTheorems, TLAPS

\* The number of blocks the user holds is the number counted, so that a pool
\* with no block in use is one with nothing to free.
Counted == IsFiniteSet(held) /\ Cardinality(held) = used

\* The alloc index is as far from the free index as there are blocks in use.
Apart ==
  alloc_index = IF free_index + used < capacity THEN free_index + used
                                                ELSE free_index + used - capacity

IInv == TypeOK /\ Counted /\ Apart /\ NothingLost

\* The calls of MemoryPoolEnsureSpace that the findings are about are not made.
UsualCalls == EnsureOn = {}

-----------------------------------------------------------------------------
\* What MemoryPoolEnsureSpace takes for slots of blocks in use are the slots
\* of blocks in use (all three cases of its section computation).
LEMMA SectionIsUsed ==
  ASSUME TypeOK, Apart, used > 0
  PROVE  num_free_section = used
  BY DEF TypeOK, IndicesInBuffer, Slots, Apart, num_free_section

\* The rearranged buffer: the free slots come after the used ones, and each
\* block not in use, old or new, is named once.
LEMMA Rearranged ==
  ASSUME IInv, NEW n \in Nat, n >= capacity
  PROVE  LET S == 0 .. (n - 1)
             buf == new_ptr_buf(n)
         IN  /\ buf \in [S -> S]
             /\ {buf[s] : s \in used .. (n - 1)} = S \ held
             /\ \A s, t \in used .. (n - 1) : buf[s] = buf[t] => s = t
PROOF
  <1> DEFINE S == 0 .. (n - 1)
             buf == new_ptr_buf(n)
             Old(i) == IF free_index + i < capacity THEN free_index + i
                                                    ELSE free_index + i - capacity
  <1>1. /\ capacity \in Nat \ {0} /\ used \in 0 .. capacity /\ free_index \in Slots
        /\ ptr_buf \in [Slots -> Slots] /\ held \subseteq Slots
    BY DEF IInv, TypeOK, IndicesInBuffer
  <1>2. \A i \in S : buf[i] = IF i >= capacity THEN i ELSE ptr_buf[Old(i)]
    BY DEF new_ptr_buf
  <1>3. \A i \in 0 .. (capacity - 1) : Old(i) \in Slots
    BY <1>1 DEF Slots
  <1>4. \A i \in S : buf[i] \in S /\ (i < capacity => buf[i] \in Slots)
    <2> SUFFICES ASSUME NEW i \in S
                 PROVE  buf[i] \in S /\ (i < capacity => buf[i] \in Slots)
      OBVIOUS
    <2>1. CASE i < capacity
      <3>1. Old(i) \in Slots /\ buf[i] = ptr_buf[Old(i)]
        BY <2>1, <1>1, <1>2, <1>3
      <3>2. buf[i] \in Slots
        BY <3>1, <1>1
      <3> HIDE DEF buf
      <3> QED BY <3>2, <1>1 DEF Slots
    <2>2. CASE ~(i < capacity)
      BY <2>2, <1>1, <1>2
    <2> QED BY <2>1, <2>2
  <1>5. buf \in [S -> S]
    <2>1. buf = [i \in S |-> buf[i]]
      BY DEF new_ptr_buf
    <2> QED BY <2>1, <1>4
  <1>6. \A i \in used .. (capacity - 1) : Old(i) \in FreeSlots
    BY <1>1 DEF Slots, FreeSlots
  <1>7. \A s \in FreeSlots : \E i \in used .. (capacity - 1) : Old(i) = s
    <2> SUFFICES ASSUME NEW s \in FreeSlots
                 PROVE  \E i \in used .. (capacity - 1) : Old(i) = s
      OBVIOUS
    <2> DEFINE j == IF s >= free_index THEN s - free_index ELSE s - free_index + capacity
    <2>1. j \in used .. (capacity - 1) /\ Old(j) = s
      BY <1>1 DEF Slots, FreeSlots
    <2> QED BY <2>1
  <1>8. \A i, k \in used .. (capacity - 1) : Old(i) = Old(k) => i = k
    BY <1>1 DEF Slots
  <1>9. \A s, t \in used .. (n - 1) : buf[s] = buf[t] => s = t
    <2> SUFFICES ASSUME NEW s \in used .. (n - 1), NEW t \in used .. (n - 1), buf[s] = buf[t]
                 PROVE  s = t
      OBVIOUS
    <2>1. s \in S /\ t \in S
      BY <1>1
    <2>2. CASE s < capacity /\ t < capacity
      <3>1. ptr_buf[Old(s)] = ptr_buf[Old(t)]
        BY <1>1, <1>2, <2>1, <2>2
      <3>2. Old(s) \in FreeSlots /\ Old(t) \in FreeSlots
        BY <1>1, <1>6, <2>2
      <3>3. Old(s) = Old(t)
        BY <3>1, <3>2 DEF IInv, NothingLost
      <3> QED BY <3>3, <1>8, <1>1, <2>2
    <2>3. CASE ~(s < capacity /\ t < capacity)
      BY <2>1, <2>3, <1>1, <1>2, <1>4 DEF Slots
    <2> QED BY <2>2, <2>3
  <1>10. \A s \in used .. (n - 1) : buf[s] \in S \ held
    <2> SUFFICES ASSUME NEW s \in used .. (n - 1)
                 PROVE  buf[s] \in S \ held
      OBVIOUS
    <2>1. s \in S
      BY <1>1
    <2>2. CASE s < capacity
      <3>1. buf[s] = ptr_buf[Old(s)] /\ Old(s) \in FreeSlots
        BY <1>1, <1>2, <1>6, <2>1, <2>2
      <3>2. buf[s] \in Slots \ held
        BY <3>1 DEF IInv, NothingLost
      <3> QED BY <3>2, <1>4, <2>1
    <2>3. CASE ~(s < capacity)
      BY <2>1, <2>3, <1>1, <1>2 DEF Slots
    <2> QED BY <2>2, <2>3
  <1>11. \A b \in S \ held : \E s \in used .. (n - 1) : buf[s] = b
    <2> SUFFICES ASSUME NEW b \in S \ held
                 PROVE  \E s \in used .. (n - 1) : buf[s] = b
      OBVIOUS
    <2>1. CASE b < capacity
      <3>1. PICK f \in FreeSlots : ptr_buf[f] = b
        <4>1. b \in Slots \ held
          BY <2>1, <1>1 DEF Slots
        <4>2. {ptr_buf[f] : f \in FreeSlots} = Slots \ held
          BY Zenon DEF IInv, NothingLost
        <4> QED BY ONLY <4>1, <4>2, Zenon
      <3>2. PICK i \in used .. (capacity - 1) : Old(i) = f
        BY <1>7
      <3>3. i \in used .. (n - 1) /\ i \in S /\ i < capacity
        BY <1>1
      <3> QED BY <3>1, <3>2, <3>3, <1>1, <1>2
    <2>2. CASE ~(b < capacity)
      <3>1. b \in used .. (n - 1) /\ buf[b] = b
        BY <2>2, <1>1, <1>2
      <3> QED BY <3>1
    <2> QED BY <2>1, <2>2
  <1> QED
    <2>1. {buf[s] : s \in used .. (n - 1)} = S \ held
      BY <1>10, <1>11
    <2> QED BY <2>1, <1>5, <1>9

-----------------------------------------------------------------------------
\* The initial pool satisfies the inductive invariant.
LEMMA InitIInv == Init => IInv
PROOF
  <1> SUFFICES ASSUME Init PROVE IInv
    OBVIOUS
  <1>1. TypeOK
    BY MemoryPoolAssumption DEF Init, TypeOK, IndicesInBuffer, Slots
  <1>2. Counted
    BY FS_EmptySet DEF Init, Counted
  <1>3. Apart
    BY MemoryPoolAssumption DEF Init, Apart
  <1>4. FreeSlots = Slots
    BY MemoryPoolAssumption DEF Init, FreeSlots, Slots
  <1>5. NothingLost
    BY <1>4 DEF Init, NothingLost
  <1> QED BY <1>1, <1>2, <1>3, <1>5 DEF IInv

\* MemoryPoolAlloc from a pool that is not full: the block at alloc_index is
\* not in use.
LEMMA AllocSpaceIInv ==
  ASSUME IInv, AllocSpace
  PROVE  IInv' /\ P!Next
PROOF
  <1> DEFINE b == ptr_buf[alloc_index]
  <1>1. /\ capacity \in Nat \ {0} /\ used \in 0 .. capacity /\ used < capacity
        /\ free_index \in Slots /\ alloc_index \in Slots
        /\ ptr_buf \in [Slots -> Slots] /\ held \subseteq Slots
        /\ Slots' = Slots
    BY DEF IInv, TypeOK, IndicesInBuffer, AllocSpace, Slots
  <1>2. alloc_index \in FreeSlots
    BY <1>1 DEF IInv, Apart, FreeSlots, Slots
  <1>3. b \in Slots \ held
    <2>1. b \in {ptr_buf[s] : s \in FreeSlots}
      BY <1>2
    <2> QED BY <2>1 DEF IInv, NothingLost
  <1>4. FreeSlots' = FreeSlots \ {alloc_index}
    <2>1. Apart /\ used' = used + 1 /\ free_index' = free_index /\ capacity' = capacity
      BY DEF IInv, AllocSpace
    <2>2. \A s \in Slots : s \in FreeSlots' <=> s \in FreeSlots /\ s # alloc_index
      BY <1>1, <2>1 DEF Apart, FreeSlots, Slots
    <2> QED BY <2>2, <1>1 DEF FreeSlots
  <1>5. TypeOK'
    <2>1. alloc_index' \in Slots' /\ free_index' \in Slots' /\ used' \in 0 .. capacity'
      BY <1>1 DEF AllocSpace, Slots, Succ
    <2>2. ptr_buf' \in [Slots' -> Slots'] /\ held' \subseteq Slots' /\ capacity' \in Nat \ {0}
      BY <1>1, <1>3 DEF AllocSpace
    <2> QED BY <2>1, <2>2 DEF TypeOK, IndicesInBuffer
  <1>6. Counted'
    <2>1. IsFiniteSet(held) /\ Cardinality(held) = used /\ b \notin held
      BY <1>3 DEF IInv, Counted
    <2>2. IsFiniteSet(held \cup {b}) /\ Cardinality(held \cup {b}) = used + 1
      BY <2>1, FS_AddElement
    <2> QED BY <2>2 DEF Counted, AllocSpace
  <1>7. Apart'
    BY <1>1 DEF IInv, Apart, AllocSpace, Slots, Succ
  <1>8. NothingLost'
    <2>1. \A s, t \in FreeSlots : ptr_buf[s] = ptr_buf[t] => s = t
      BY DEF IInv, NothingLost
    <2>2. {ptr_buf[s] : s \in FreeSlots \ {alloc_index}} = Slots \ (held \cup {b})
      BY <2>1, <1>2 DEF IInv, NothingLost
    <2> QED BY <2>1, <2>2, <1>1, <1>4 DEF NothingLost, AllocSpace
  <1>9. P!Next
    BY <1>1, <1>3 DEF AllocSpace, Slots, P!Next, P!Alloc, P!Blocks
  <1> QED BY <1>5, <1>6, <1>7, <1>8, <1>9 DEF IInv

\* MemoryPoolFree: the block goes to a slot that no free block is named by.
LEMMA FreeIInv ==
  ASSUME IInv, NEW b \in held, MemoryPoolFree(b)
  PROVE  IInv' /\ P!Next
PROOF
  <1>1. /\ capacity \in Nat \ {0} /\ used \in 0 .. capacity
        /\ free_index \in Slots /\ alloc_index \in Slots
        /\ ptr_buf \in [Slots -> Slots] /\ held \subseteq Slots
        /\ Slots' = Slots
    BY DEF IInv, TypeOK, IndicesInBuffer, MemoryPoolFree, Slots
  <1>2. used > 0
    <2>1. IsFiniteSet(held) /\ Cardinality(held) = used
      BY DEF IInv, Counted
    <2>2. Cardinality(held) # 0
      BY <2>1, FS_EmptySet
    <2> QED BY <2>1, <2>2, <1>1
  <1>3. free_index \notin FreeSlots
    BY <1>1, <1>2 DEF FreeSlots, Slots
  <1>a. /\ free_index' = IF free_index + 1 = capacity THEN 0 ELSE free_index + 1
        /\ used' = used - 1 /\ capacity' = capacity /\ alloc_index' = alloc_index
    BY DEF MemoryPoolFree, Succ
  <1>4. FreeSlots' = FreeSlots \cup {free_index}
    <2>1. \A s \in Slots : s \in FreeSlots' <=> s \in FreeSlots \/ s = free_index
      BY <1>1, <1>2, <1>a DEF FreeSlots, Slots
    <2> QED BY <2>1, <1>1 DEF FreeSlots
  <1>5. TypeOK'
    <2>1. alloc_index' \in Slots' /\ free_index' \in Slots' /\ used' \in 0 .. capacity'
      BY <1>1, <1>2 DEF MemoryPoolFree, Slots, Succ
    <2>2. ptr_buf' \in [Slots' -> Slots'] /\ held' \subseteq Slots' /\ capacity' \in Nat \ {0}
      BY <1>1 DEF MemoryPoolFree
    <2> QED BY <2>1, <2>2 DEF TypeOK, IndicesInBuffer
  <1>6. Counted'
    <2>1. IsFiniteSet(held) /\ Cardinality(held) = used /\ b \in held
      BY DEF IInv, Counted
    <2>2. IsFiniteSet(held \ {b}) /\ Cardinality(held \ {b}) = used - 1
      BY <2>1, FS_RemoveElement
    <2> QED BY <2>2 DEF Counted, MemoryPoolFree
  <1>7. Apart'
    <2>1. Apart
      BY DEF IInv
    <2> QED BY <2>1, <1>1, <1>2, <1>a DEF Apart, Slots
  <1>8. NothingLost'
    <2>1. /\ ptr_buf'[free_index] = b
          /\ \A s \in FreeSlots : ptr_buf'[s] = ptr_buf[s] /\ ptr_buf[s] \in Slots \ held
      BY <1>1, <1>3 DEF MemoryPoolFree, IInv, NothingLost, FreeSlots
    <2>2. {ptr_buf'[s] : s \in FreeSlots \cup {free_index}} = (Slots \ held) \cup {b}
      BY <2>1 DEF IInv, NothingLost
    <2>3. (Slots \ held) \cup {b} = Slots \ (held \ {b})
      BY <1>1
    <2>4. \A s, t \in FreeSlots \cup {free_index} : ptr_buf'[s] = ptr_buf'[t] => s = t
      BY <2>1 DEF IInv, NothingLost
    <2>5. held' = held \ {b}
      BY DEF MemoryPoolFree
    <2> QED BY <2>2, <2>3, <2>4, <2>5, <1>1, <1>4 DEF NothingLost
  <1>9. P!Next
    BY DEF MemoryPoolFree, P!Next, P!Free
  <1> QED BY <1>5, <1>6, <1>7, <1>8, <1>9 DEF IInv

\* MemoryPoolEnsureSpace: the free slots become the slots after the used ones.
LEMMA EnsureIInv ==
  ASSUME IInv, UsualCalls, NEW n \in 1 .. MaxCapacity, MemoryPoolEnsureSpace(n)
  PROVE  IInv' /\ [P!Next]_(P!vars)
PROOF
  <1>1. /\ capacity \in Nat \ {0} /\ used \in 0 .. capacity /\ held \subseteq Slots
        /\ n \in Nat /\ n >= capacity /\ MaxCapacity \in Nat
    BY MemoryPoolAssumption DEF IInv, TypeOK, MemoryPoolEnsureSpace
  <1>2. used > 0 /\ (n = capacity => used < capacity)
    BY <1>1 DEF MemoryPoolEnsureSpace, UsualCalls
  <1>3. /\ free_index' = 0 /\ alloc_index' = used /\ capacity' = n
        /\ used' = used /\ held' = held /\ ptr_buf' = new_ptr_buf(n)
    BY <1>2, SectionIsUsed DEF MemoryPoolEnsureSpace, IInv
  <1>4. Slots' = 0 .. (n - 1) /\ Slots \subseteq Slots'
    BY <1>1, <1>3 DEF Slots
  <1>5. /\ new_ptr_buf(n) \in [0 .. (n - 1) -> 0 .. (n - 1)]
        /\ {new_ptr_buf(n)[s] : s \in used .. (n - 1)} = (0 .. (n - 1)) \ held
        /\ \A s, t \in used .. (n - 1) : new_ptr_buf(n)[s] = new_ptr_buf(n)[t] => s = t
    BY <1>1, Rearranged
  <1>6. TypeOK'
    <2>1. alloc_index' \in Slots' /\ free_index' \in Slots' /\ used' \in 0 .. capacity'
      BY <1>1, <1>2, <1>3, <1>4
    <2>2. ptr_buf' \in [Slots' -> Slots'] /\ held' \subseteq Slots' /\ capacity' \in Nat \ {0}
      BY <1>1, <1>3, <1>4, <1>5
    <2> QED BY <2>1, <2>2 DEF TypeOK, IndicesInBuffer
  <1>7. Counted'
    BY <1>3 DEF IInv, Counted
  <1>8. Apart'
    BY <1>1, <1>2, <1>3 DEF Apart
  <1>9. NothingLost'
    <2>1. \A s \in 0 .. (n - 1) : s \in FreeSlots' <=> s >= used
      BY <1>1, <1>3, <1>4 DEF FreeSlots
    <2>2. FreeSlots' \subseteq 0 .. (n - 1)
      BY <1>4 DEF FreeSlots
    <2>3. FreeSlots' = used .. (n - 1)
      <3>1. \A s : s \in FreeSlots' => s \in used .. (n - 1)
        BY <2>1, <2>2, <1>1
      <3>2. \A s \in used .. (n - 1) : s \in FreeSlots'
        BY <2>1, <1>1
      <3> QED BY <3>1, <3>2
    <2> QED BY <2>3, <1>3, <1>4, <1>5 DEF NothingLost
  <1>10. [P!Next]_(P!vars)
    BY <1>1, <1>3 DEF P!Next, P!Ensure, P!Grow, P!vars
  <1> QED BY <1>6, <1>7, <1>8, <1>9, <1>10 DEF IInv

\* MemoryPoolAlloc from a full pool: every block is in use, so the one handed
\* out is the first of the new buffer.
LEMMA AllocFullIInv ==
  ASSUME IInv, AllocFull
  PROVE  IInv' /\ P!Next
PROOF
  <1> DEFINE n == 2 * capacity
  <1>1. /\ capacity \in Nat \ {0} /\ used = capacity /\ held \subseteq Slots
        /\ n \in Nat /\ n > capacity /\ n >= capacity + 1
    BY DEF IInv, TypeOK, AllocFull
  <1>2. held = Slots
    <2>1. \A s \in Slots : s \notin FreeSlots
      BY <1>1 DEF IInv, TypeOK, IndicesInBuffer, FreeSlots, Slots
    <2>2. FreeSlots = {}
      BY <2>1 DEF FreeSlots
    <2> QED BY <2>2, <1>1 DEF IInv, NothingLost
  <1>3. num_free_section = capacity
    BY <1>1 DEF num_free_section
  <1>4. new_ptr_buf(n) \in [0 .. (n - 1) -> 0 .. (n - 1)]
    BY <1>1, Rearranged
  <1>5. \A i \in capacity .. (n - 1) : new_ptr_buf(n)[i] = i
    BY <1>1 DEF new_ptr_buf
  <1>6. /\ ptr_buf' = new_ptr_buf(n) /\ held' = held \cup {capacity}
        /\ free_index' = 0 /\ capacity' = n /\ used' = capacity + 1
        /\ alloc_index' = IF capacity + 1 = n THEN 0 ELSE capacity + 1
    <2>1. new_ptr_buf(n)[num_free_section] = capacity
      BY <1>1, <1>3, <1>5
    <2> QED BY <2>1, <1>1, <1>3 DEF AllocFull, Succ
  <1>7. Slots' = 0 .. (n - 1) /\ Slots = 0 .. (capacity - 1)
    BY <1>6 DEF Slots
  <1>8. held' = 0 .. capacity
    BY <1>1, <1>2, <1>6, <1>7
  <1>9. TypeOK'
    <2>1. alloc_index' \in Slots' /\ free_index' \in Slots' /\ used' \in 0 .. capacity'
      BY <1>1, <1>6, <1>7
    <2>2. ptr_buf' \in [Slots' -> Slots']
      BY <1>4, <1>6, <1>7
    <2>3. held' \subseteq Slots' /\ capacity' \in Nat \ {0}
      BY <1>1, <1>6, <1>7, <1>8
    <2> QED BY <2>1, <2>2, <2>3 DEF TypeOK, IndicesInBuffer
  <1>10. Counted'
    <2>1. IsFiniteSet(held) /\ Cardinality(held) = capacity /\ capacity \notin held
      BY <1>1, <1>2 DEF IInv, Counted, Slots
    <2>2. IsFiniteSet(held \cup {capacity}) /\ Cardinality(held \cup {capacity}) = capacity + 1
      BY <2>1, FS_AddElement
    <2> QED BY <2>2, <1>6 DEF Counted
  <1>11. Apart'
    BY <1>1, <1>6 DEF Apart
  <1>12. NothingLost'
    <2>1. \A s \in 0 .. (n - 1) : s \in FreeSlots' <=> s >= capacity + 1
      BY <1>1, <1>6, <1>7 DEF FreeSlots
    <2>2. FreeSlots' \subseteq 0 .. (n - 1)
      BY <1>7 DEF FreeSlots
    <2>3. FreeSlots' = (capacity + 1) .. (n - 1)
      <3>1. \A s : s \in FreeSlots' => s \in (capacity + 1) .. (n - 1)
        BY <2>1, <2>2, <1>1
      <3>2. \A s \in (capacity + 1) .. (n - 1) : s \in FreeSlots'
        BY <2>1, <1>1
      <3> QED BY <3>1, <3>2
    <2>4. \A s \in FreeSlots' : ptr_buf'[s] = s
      BY <2>3, <1>1, <1>5, <1>6
    <2>5. {ptr_buf'[s] : s \in FreeSlots'} = FreeSlots'
      BY <2>4
    <2>6. FreeSlots' = Slots' \ held'
      BY <2>3, <1>1, <1>7, <1>8
    <2> QED BY <2>4, <2>5, <2>6 DEF NothingLost
  <1>13. P!Next
    <2>1. held = P!Blocks /\ P!Blocks' = 0 .. (n - 1)
      BY <1>2, <1>6, <1>7 DEF P!Blocks
    <2>2. capacity \in P!Blocks' \ held
      BY <2>1, <1>1, <1>2, <1>7
    <2>3. P!Grow
      BY <1>1, <1>6 DEF P!Grow
    <2>4. used' = used + 1
      BY <1>1, <1>6
    <2> QED BY <2>1, <2>2, <2>3, <2>4, <1>6 DEF P!Next, P!Alloc
  <1> QED BY <1>9, <1>10, <1>11, <1>12, <1>13 DEF IInv

-----------------------------------------------------------------------------
\* Every step keeps the inductive invariant and is a step of the abstract
\* pool, or leaves it alone.
LEMMA NextIInv ==
  ASSUME IInv, UsualCalls, [Next]_vars
  PROVE  IInv' /\ [P!Next]_(P!vars)
PROOF
  <1>1. CASE AllocSpace
    BY <1>1, AllocSpaceIInv
  <1>2. CASE AllocFull
    BY <1>2, AllocFullIInv
  <1>3. CASE \E b \in held : MemoryPoolFree(b)
    BY <1>3, FreeIInv
  <1>4. CASE \E n \in 1 .. MaxCapacity : MemoryPoolEnsureSpace(n)
    BY <1>4, EnsureIInv
  <1>5. CASE UNCHANGED vars
    <2>1. Slots' = Slots /\ FreeSlots' = FreeSlots
      BY <1>5 DEF vars, Slots, FreeSlots
    <2>2. TypeOK' /\ NothingLost'
      BY <2>1, <1>5 DEF vars, IInv, TypeOK, IndicesInBuffer, NothingLost
    <2>3. Counted' /\ Apart'
      BY <1>5 DEF vars, IInv, Counted, Apart
    <2> QED BY <2>2, <2>3, <1>5 DEF IInv, vars, P!vars
  <1> QED BY <1>1, <1>2, <1>3, <1>4, <1>5 DEF Next, MemoryPoolAlloc

\* The inductive invariant holds throughout.
THEOREM Invariance == UsualCalls /\ Spec => []IInv
PROOF
  <1>1. IInv /\ UsualCalls /\ [Next]_vars => IInv'
    BY NextIInv
  <1>2. UsualCalls => UsualCalls'
    BY DEF UsualCalls
  <1> QED BY <1>1, <1>2, InitIInv, PTL DEF Spec

\* No block is lost or handed to two owners, however the pointer buffer was
\* rotated and extended (MemoryPoolEnsureSpace).
THEOREM NoBlockLost == UsualCalls /\ Spec => []NothingLost
  BY Invariance, PTL DEF IInv

\* The assertion at the head of the full-pool case never fails.
THEOREM AssertionHolds == UsualCalls /\ Spec => []FullPoolMeets
PROOF
  <1>1. IInv => FullPoolMeets
    BY DEF IInv, TypeOK, IndicesInBuffer, Slots, Apart, FullPoolMeets
  <1> QED BY <1>1, Invariance, PTL

\* The circular buffer implements the abstract block pool: it never hands out
\* a block in use and grows by itself only when all are.
THEOREM BufferImplementsPool == UsualCalls /\ Spec => ImplementsPool
PROOF
  <1>1. Init => P!Init
    BY DEF Init, P!Init
  <1>2. IInv /\ UsualCalls /\ [Next]_vars => [P!Next]_(P!vars)
    BY NextIInv
  <1>3. UsualCalls => UsualCalls'
    BY DEF UsualCalls
  <1> QED BY <1>1, <1>2, <1>3, Invariance, PTL DEF Spec, ImplementsPool, P!Spec

-----------------------------------------------------------------------------
\* Every growth: MemoryPoolEnsureSpace is called with a larger capacity in any
\* state of the pool, one without a block in use (run_test_memory_pool.cpp:132)
\* included.
GrowNext ==
  \/ MemoryPoolAlloc
  \/ \E b \in held : MemoryPoolFree(b)
  \/ \E n \in 1 .. MaxCapacity : n > capacity /\ MemoryPoolEnsureSpace(n)

GrowSpec == Init /\ [][GrowNext]_vars

\* A block may then be handed out twice; the user never holds more blocks than
\* are counted.
GInv == TypeOK /\ IsFiniteSet(held) /\ Cardinality(held) <= used

\* The rearranged buffer has pointers to blocks in all its slots.
LEMMA BufferTyped ==
  ASSUME TypeOK, NEW n \in Nat, n >= capacity
  PROVE  new_ptr_buf(n) \in [0 .. (n - 1) -> 0 .. (n - 1)]
PROOF
  <1> DEFINE S == 0 .. (n - 1)
             Old(i) == IF free_index + i < capacity THEN free_index + i
                                                    ELSE free_index + i - capacity
  <1>1. /\ capacity \in Nat \ {0} /\ free_index \in Slots /\ ptr_buf \in [Slots -> Slots]
    BY DEF TypeOK, IndicesInBuffer
  <1>2. \A i \in S : (IF i >= capacity THEN i ELSE ptr_buf[Old(i)]) \in S
    <2> SUFFICES ASSUME NEW i \in S, i < capacity
                 PROVE  ptr_buf[Old(i)] \in S
      BY <1>1
    <2>1. Old(i) \in Slots
      BY <1>1 DEF Slots
    <2>2. ptr_buf[Old(i)] \in Slots
      BY <2>1, <1>1
    <2> HIDE DEF Old
    <2> QED BY <2>2, <1>1 DEF Slots
  <1> QED BY <1>2 DEF new_ptr_buf

\* One more block may be held, or one that was held already.
LEMMA HoldOneMore ==
  ASSUME GInv, NEW x
  PROVE  IsFiniteSet(held \cup {x}) /\ Cardinality(held \cup {x}) <= used + 1
PROOF
  <1>1. IsFiniteSet(held) /\ Cardinality(held) <= used /\ used \in Nat
    BY DEF GInv, TypeOK
  <1>2. Cardinality(held) \in Nat
    BY <1>1, FS_CardinalityType
  <1>3. /\ IsFiniteSet(held \cup {x})
        /\ Cardinality(held \cup {x}) = Cardinality(held)
             \/ Cardinality(held \cup {x}) = Cardinality(held) + 1
    BY <1>1, FS_AddElement
  <1> QED BY <1>1, <1>2, <1>3

\* Growing puts the alloc index at the number of slots taken for slots of
\* blocks in use, at most the old capacity.
LEMMA SectionFits ==
  ASSUME TypeOK
  PROVE  num_free_section \in 0 .. capacity
  BY DEF TypeOK, IndicesInBuffer, Slots, num_free_section

LEMMA GrowGInv ==
  ASSUME GInv, [GrowNext]_vars
  PROVE  GInv'
PROOF
  <1>1. /\ capacity \in Nat \ {0} /\ used \in 0 .. capacity
        /\ free_index \in Slots /\ alloc_index \in Slots
        /\ ptr_buf \in [Slots -> Slots] /\ held \subseteq Slots
        /\ IsFiniteSet(held) /\ Cardinality(held) <= used /\ Cardinality(held) \in Nat
    BY FS_CardinalityType DEF GInv, TypeOK, IndicesInBuffer
  <1>2. CASE AllocSpace
    <2>1. Slots' = Slots /\ ptr_buf[alloc_index] \in Slots
      BY <1>1, <1>2 DEF AllocSpace, Slots
    <2>2. alloc_index' \in Slots' /\ free_index' \in Slots' /\ used' \in 0 .. capacity'
      BY <1>1, <1>2 DEF AllocSpace, Slots, Succ
    <2>3. ptr_buf' \in [Slots' -> Slots'] /\ held' \subseteq Slots' /\ capacity' \in Nat \ {0}
      BY <1>1, <1>2, <2>1 DEF AllocSpace
    <2>4. IsFiniteSet(held') /\ Cardinality(held') <= used'
      BY <1>2, HoldOneMore DEF AllocSpace
    <2> QED BY <2>2, <2>3, <2>4 DEF GInv, TypeOK, IndicesInBuffer
  <1>3. CASE AllocFull
    <2> DEFINE n == 2 * capacity
    <2>1. n \in Nat /\ n > capacity /\ n >= capacity + 1 /\ used = capacity
      BY <1>1, <1>3 DEF AllocFull
    <2>2. num_free_section = capacity
      BY <2>1 DEF num_free_section
    <2>3. /\ ptr_buf' = new_ptr_buf(n) /\ held' = held \cup {new_ptr_buf(n)[num_free_section]}
          /\ free_index' = 0 /\ alloc_index' = Succ(num_free_section, n)
          /\ capacity' = n /\ used' = used + 1
      BY <1>3 DEF AllocFull
    <2> HIDE DEF n
    <2>4. new_ptr_buf(n) \in [0 .. (n - 1) -> 0 .. (n - 1)]
      <3>1. TypeOK /\ n \in Nat /\ n >= capacity
        BY <1>1, <2>1 DEF GInv
      <3> QED BY <3>1, BufferTyped
    <2>5. capacity \in 0 .. (n - 1)
      BY <1>1, <2>1
    <2>6. new_ptr_buf(n)[num_free_section] \in 0 .. (n - 1)
      BY <2>2, <2>4, <2>5
    <2>7. /\ Slots' = 0 .. (n - 1) /\ capacity' = n /\ used' = used + 1 /\ free_index' = 0
          /\ ptr_buf' = new_ptr_buf(n) /\ held' = held \cup {new_ptr_buf(n)[num_free_section]}
          /\ alloc_index' = IF capacity + 1 = n THEN 0 ELSE capacity + 1
      BY <2>2, <2>3 DEF Slots, Succ
    <2>8. alloc_index' \in Slots' /\ free_index' \in Slots' /\ used' \in 0 .. capacity'
      BY <1>1, <2>1, <2>7
    <2>9. Slots \subseteq 0 .. (n - 1)
      BY <1>1, <2>1 DEF Slots
    <2>10. ptr_buf' \in [Slots' -> Slots'] /\ held' \subseteq Slots' /\ capacity' \in Nat \ {0}
      <3>1. ptr_buf' \in [Slots' -> Slots']
        BY <2>4, <2>7
      <3>2. held' \subseteq Slots'
        BY <1>1, <2>6, <2>7, <2>9
      <3>3. capacity' \in Nat \ {0}
        BY <1>1, <2>1, <2>3
      <3> QED BY <3>1, <3>2, <3>3
    <2>11. IsFiniteSet(held') /\ Cardinality(held') <= used'
      BY <2>7, HoldOneMore
    <2> QED BY <2>8, <2>10, <2>11 DEF GInv, TypeOK, IndicesInBuffer
  <1>4. CASE \E b \in held : MemoryPoolFree(b)
    <2>1. PICK b \in held : MemoryPoolFree(b)
      BY <1>4
    <2>2. IsFiniteSet(held \ {b}) /\ Cardinality(held \ {b}) = Cardinality(held) - 1
      BY <1>1, FS_RemoveElement
    <2>3. Cardinality(held \ {b}) \in Nat
      BY <2>2, FS_CardinalityType
    <2>4. Slots' = Slots /\ capacity' = capacity /\ used' = used - 1 /\ held' = held \ {b}
      BY <2>1 DEF MemoryPoolFree, Slots
    <2>5. alloc_index' \in Slots' /\ free_index' \in Slots'
      BY <1>1, <2>1 DEF MemoryPoolFree, Slots, Succ
    <2>6. used' \in 0 .. capacity' /\ Cardinality(held') <= used'
      BY <1>1, <2>2, <2>3, <2>4
    <2>7. ptr_buf' \in [Slots' -> Slots'] /\ held' \subseteq Slots' /\ capacity' \in Nat \ {0}
      BY <1>1, <2>1, <2>4 DEF MemoryPoolFree
    <2> QED BY <2>2, <2>4, <2>5, <2>6, <2>7 DEF GInv, TypeOK, IndicesInBuffer
  <1>5. CASE \E n \in 1 .. MaxCapacity : n > capacity /\ MemoryPoolEnsureSpace(n)
    <2>1. PICK n \in 1 .. MaxCapacity : n > capacity /\ MemoryPoolEnsureSpace(n)
      BY <1>5
    <2>2. n \in Nat \ {0} /\ n > capacity /\ n >= capacity
      BY <1>1, <2>1, MemoryPoolAssumption
    <2>3. num_free_section \in 0 .. capacity
      BY SectionFits DEF GInv
    <2>4. new_ptr_buf(n) \in [0 .. (n - 1) -> 0 .. (n - 1)]
      BY <2>2, BufferTyped DEF GInv
    <2>5. /\ Slots' = 0 .. (n - 1) /\ capacity' = n /\ used' = used /\ held' = held
          /\ free_index' = 0 /\ alloc_index' = num_free_section /\ ptr_buf' = new_ptr_buf(n)
      BY <2>1 DEF MemoryPoolEnsureSpace, Slots
    <2>6. alloc_index' \in Slots' /\ free_index' \in Slots' /\ used' \in 0 .. capacity'
      BY <1>1, <2>2, <2>3, <2>5
    <2>7. Slots \subseteq 0 .. (n - 1)
      BY <1>1, <2>2 DEF Slots
    <2>8. ptr_buf' \in [Slots' -> Slots'] /\ held' \subseteq Slots' /\ capacity' \in Nat \ {0}
      BY <1>1, <2>2, <2>4, <2>5, <2>7
    <2> QED BY <1>1, <2>5, <2>6, <2>8 DEF GInv, TypeOK, IndicesInBuffer
  <1>6. CASE UNCHANGED vars
    BY <1>6 DEF vars, GInv, TypeOK, IndicesInBuffer, Slots
  <1> QED BY <1>2, <1>3, <1>4, <1>5, <1>6 DEF GrowNext, MemoryPoolAlloc

\* Both indices stay in the pointer buffer, its slots name blocks and the count
\* stays in its range through every growth.  That of an unused pool is
\* included: there the free slots are taken for slots in use and a block can be
\* handed out twice, but no access to the buffer leaves it, also where the
\* assertion of memory_pool.c:107 is compiled out.  Nothing is assumed of
\* EnsureOn; a call with the present capacity is no growth and is left out: on
\* a full or an unused pool it puts the alloc index outside.
THEOREM TypeCorrect == GrowSpec => []TypeOK
PROOF
  <1>1. Init => GInv
    BY InitIInv DEF IInv, GInv, Counted, TypeOK
  <1>2. GInv /\ [GrowNext]_vars => GInv'
    BY GrowGInv
  <1>3. GInv => TypeOK
    BY DEF GInv
  <1> QED BY <1>1, <1>2, <1>3, PTL DEF GrowSpec

====

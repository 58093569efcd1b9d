--------------------------------- MODULE Pool ---------------------------------
(***************************************************************************)
(* What a pool of memory blocks promises its user: a block that is handed  *)
(* out is not in use, and the pool grows only when every block is in use   *)
(* or the user asks for it.  MemoryPool and ListMemoryPool implement it.   *)
(* The count of blocks handed out makes an allocation visible even if the  *)
(* block was in use already, which would leave the set held as it was.     *)
(***************************************************************************)
EXTENDS Integers, FiniteSets

CONSTANT InitCapacity   \* the number of blocks at first

VARIABLES
  capacity,   \* the blocks are 0 .. capacity - 1
  held,       \* the blocks in use
  used        \* allocations not yet freed

vars == <<capacity, held, used>>

Blocks == 0 .. (capacity - 1)

Init == capacity = InitCapacity /\ held = {} /\ used = 0

Grow == capacity' > capacity

Alloc ==
  /\ \/ capacity' = capacity
     \/ held = Blocks /\ Grow
  /\ \E b \in Blocks' \ held : held' = held \cup {b}
  /\ used' = used + 1

Free ==
  /\ \E b \in held : held' = held \ {b}
  /\ capacity' = capacity
  /\ used' = used - 1

Ensure == Grow /\ UNCHANGED <<held, used>>

Next == Alloc \/ Free \/ Ensure

Spec == Init /\ [][Next]_vars

====

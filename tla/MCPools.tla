------------------------------ MODULE MCPools -------------------------------
(***************************************************************************)
(* The block pools, memory_pool and list_memory_pool: a behaviour uses one *)
(* of them while the other rests in its initial state.                     *)
(***************************************************************************)
EXTENDS MemoryPool

CONSTANTS InitSize, MaxSize, CopyRatio, EnsureNotFull, HeadNode, TailNode, Null

VARIABLES pool,   \* the pool in use
          list_ptr_buf, list_alloc_index, list_free_index, size, working_num, enable_realloc,
          next, prev, list_held, order

listVars == <<list_ptr_buf, list_alloc_index, list_free_index, size, working_num, enable_realloc,
              next, prev, list_held, order>>

List == INSTANCE ListMemoryPool WITH
  ptr_buf <- list_ptr_buf, alloc_index <- list_alloc_index, free_index <- list_free_index,
  held <- list_held

PoolsInit == pool \in {"memory_pool", "list"} /\ Init /\ List!Init

PoolsNext == /\ \/ pool = "memory_pool" /\ Next /\ UNCHANGED listVars
                \/ pool = "list" /\ List!Next /\ UNCHANGED vars
             /\ UNCHANGED pool

PoolsSpec == PoolsInit /\ [][PoolsNext]_<<pool, vars, listVars>>

-----------------------------------------------------------------------------
\* memory_pool has every block free or in use and never both, and the working
\* list of list_memory_pool is, in both directions, the blocks in use in the
\* order they were allocated.
BlocksKept == NothingLost /\ List!WorkingList

\* list_memory_pool keeps the contract of a block pool too.
ListImplementsPool == List!ImplementsPool
=============================================================================

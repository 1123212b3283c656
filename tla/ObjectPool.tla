----------------------------- MODULE ObjectPool -----------------------------
(***************************************************************************)
(* The pre-allocated pool of include/object_pool.h.  The objects are the   *)
(* indices 0 .. size-1 and the whole state of the pool is the stack of     *)
(* free indices.  allocate takes the top of the stack; deallocate pushes   *)
(* the index back and checks nothing but that the object lies in the pool: *)
(* that an object is never returned twice, and never used after it was     *)
(* returned, is left to the caller (see PoolSafety in MatchingEngine).     *)
(***************************************************************************)
EXTENDS Integers, Sequences, SequencesExt

\* The null pointer.
NoSlot == -1

Slots(pool_size) == 0 .. pool_size - 1

\* The constructor pushes every index, lowest first.
NewPool(pool_size) == [i \in 1 .. pool_size |-> i - 1]

available(free_indices) == Len(free_indices)

\* allocate: the object handed out (NoSlot when the pool is exhausted) ...
allocated(free_indices) ==
    IF free_indices = << >> THEN NoSlot ELSE Last(free_indices)

\* ... and the stack it leaves.
allocate(free_indices) ==
    IF free_indices = << >> THEN free_indices ELSE Front(free_indices)

deallocate(free_indices, slot) == Append(free_indices, slot)
=============================================================================

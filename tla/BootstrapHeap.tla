--------------------------- MODULE BootstrapHeap ---------------------------
(***************************************************************************)
(* bootstrap.c, semihosting: the malloc the C library of the build itself  *)
(* uses (malloc.s renames it), before and beside jemalloc.  It hands out a *)
(* static buffer from its start and takes nothing back: free does nothing, *)
(* calloc, realloc and a request that does not fit end the program.        *)
(***************************************************************************)
EXTENDS Integers, Sequences

CONSTANTS
  BUFFER,    \* sizeof(bootstrap_buffer)
  Sizes,     \* the sizes asked for
  MaxCalls,  \* bound: calls of malloc
  MaxFrees   \* bound: calls of free

ASSUME BufferAssumption == BUFFER \in Nat
ASSUME RequestsAssumption == Sizes \subseteq Nat
ASSUME BoundsAssumption == MaxCalls \in Nat /\ MaxFrees \in Nat

VARIABLES
  bootstrap_ptr,        \* as an offset in bootstrap_buffer
  bootstrap_remaining,
  blocks,               \* what was handed out: [start, size], in order
  freed,                \* the positions in blocks free was called with
  heap_status           \* "running" or "aborted"

heap_vars == <<bootstrap_ptr, bootstrap_remaining, blocks, freed, heap_status>>

\* A request is served when it fits in what remains.
Fits_Buffer(size) == size <= BUFFER   \* mutant: in the buffer
Fits(size) == size <= bootstrap_remaining

\* bootstrap_ptr after a request.
Advance_Word(size) == bootstrap_ptr + 1   \* mutant: a fixed step
Advance(size) == bootstrap_ptr + size

BootstrapMalloc(size) ==
  /\ heap_status = "running"
  /\ Len(blocks) < MaxCalls
  /\ IF Fits(size)
     THEN /\ blocks' = Append(blocks, [start |-> bootstrap_ptr, size |-> size])
          /\ bootstrap_ptr' = Advance(size)
          /\ bootstrap_remaining' = bootstrap_remaining - size
          /\ UNCHANGED <<freed, heap_status>>
     ELSE /\ heap_status' = "aborted"
          /\ UNCHANGED <<bootstrap_ptr, bootstrap_remaining, blocks, freed>>

BootstrapFree ==
  /\ heap_status = "running"
  /\ Len(freed) < MaxFrees
  /\ \E k \in DOMAIN blocks : freed' = Append(freed, k)
  /\ UNCHANGED <<bootstrap_ptr, bootstrap_remaining, blocks, heap_status>>

\* bootstrap_realloc and bootstrap_calloc.
BootstrapAbort ==
  /\ heap_status = "running"
  /\ heap_status' = "aborted"
  /\ UNCHANGED <<bootstrap_ptr, bootstrap_remaining, blocks, freed>>

HeapInit ==
  /\ bootstrap_ptr = 0
  /\ bootstrap_remaining = BUFFER
  /\ blocks = <<>>
  /\ freed = <<>>
  /\ heap_status = "running"

HeapNext ==
  \/ \E size \in Sizes : BootstrapMalloc(size)
  \/ BootstrapFree
  \/ BootstrapAbort

HeapSpec == HeapInit /\ [][HeapNext]_heap_vars

-----------------------------------------------------------------------------
(* Properties.                                                             *)

(* The shape of the state; bootstrap_remaining, unsigned in the code, does *)
(* not go below zero.                                                      *)
HeapTypeOK ==
  /\ bootstrap_ptr \in Nat
  /\ bootstrap_remaining \in Nat
  /\ blocks \in Seq([start : Nat, size : Nat])
  /\ freed \in Seq(1..Len(blocks))
  /\ heap_status \in {"running", "aborted"}

(* Blocks lie inside the buffer and behind one another, so that no two     *)
(* share a byte, freed or not: what a caller still uses after freeing it   *)
(* is never handed out again.                                              *)
BlocksDisjoint ==
  /\ \A k \in DOMAIN blocks : blocks[k].start + blocks[k].size <= BUFFER
  /\ \A j, k \in DOMAIN blocks :
       j < k => blocks[j].start + blocks[j].size <= blocks[k].start

=============================================================================

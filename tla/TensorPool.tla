----------------------------- MODULE TensorPool -----------------------------
(***************************************************************************)
(* gpubridge_pool.c: the pooled allocator of device memory.  Blocks that a *)
(* tensor gave back wait in a list, newest first; an acquire takes the     *)
(* first one of exactly the size asked for.  Only a drain gives blocks     *)
(* back to the backend.                                                    *)
(***************************************************************************)
EXTENDS Naturals, Sequences, SequencesExt

CONSTANTS
  Ptrs,   (* Device addresses: what malloc_device() returns.            *)
  Sizes   (* Byte sizes the client's tensors have.                      *)

VARIABLES
  free_blocks,  (* g_free_blocks, from the head of the list.            *)
  size_stats    (* g_size_stats: blocks of a size served from the pool. *)

poolVars == <<free_blocks, size_stats>>

Block == [ptr : Ptrs, bytes : Sizes]

PoolTypeOK ==
  /\ free_blocks \in Seq(Block)
  /\ size_stats \in [Sizes -> Nat]

NothingServed == [n \in Sizes |-> 0]

PoolInit ==
  /\ free_blocks = <<>>
  /\ size_stats = NothingServed

\* Mutant of Fits: a larger block will do.
FitsAtLeast(n) == {i \in DOMAIN free_blocks : free_blocks[i].bytes >= n}

\* The list positions whose block has exactly n bytes.
Fits(n) == {i \in DOMAIN free_blocks : free_blocks[i].bytes = n}

Pooled == {free_blocks[i].ptr : i \in DOMAIN free_blocks}

\* Mutant of AcquireHit: the block is not unlinked from the list.
AcquireHitKeepsBlock(n, i) ==
  /\ i \in Fits(n)
  /\ \A j \in Fits(n) : i <= j
  /\ size_stats' = [size_stats EXCEPT ![n] = @ + 1]
  /\ UNCHANGED free_blocks

\* gpuBridgePoolAcquire() finds a block: the first of the list that fits.  The
\* caller is told size_stats'[n] as its reuse count.
AcquireHit(n, i) ==
  /\ i \in Fits(n)
  /\ \A j \in Fits(n) : i <= j
  /\ free_blocks' = RemoveAt(free_blocks, i)
  /\ size_stats' = [size_stats EXCEPT ![n] = @ + 1]

\* gpuBridgePoolAcquire() finds none.  The entry it creates for a size it had
\* not seen counts 0, as a missing entry does here.
AcquireMiss(n) ==
  /\ Fits(n) = {}
  /\ UNCHANGED poolVars

\* gpuBridgePoolRelease()
Release(p, n) ==
  /\ free_blocks' = <<[ptr |-> p, bytes |-> n]>> \o free_blocks
  /\ UNCHANGED size_stats

\* Mutant of Drain: the statistics survive.
DrainBlocksOnly == free_blocks' = <<>> /\ UNCHANGED size_stats

\* gpuBridgePoolDrain(): both lists go.  What happens to the blocks is the
\* backend's affair, and the caller's step says it.
Drain ==
  /\ free_blocks' = <<>>
  /\ size_stats' = NothingServed

\* No block waits in the list twice.
NoDuplicates ==
  \A i, j \in DOMAIN free_blocks : free_blocks[i].ptr = free_blocks[j].ptr => i = j

=============================================================================

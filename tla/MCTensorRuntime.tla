-------------------------- MODULE MCTensorRuntime --------------------------
(***************************************************************************)
(* TensorRuntime on a small instance.  The shapes give two byte sizes, one *)
(* of them by two different shapes, so that a block can come back under    *)
(* another shape; the ignored second dimension of rank 1 is not zero.      *)
(***************************************************************************)
EXTENDS TensorRuntime

CONSTANTS t1, t2, p1, p2, p3, cpu, vulkan

MCTensors == {t1, t2}
MCPtrs == {p1, p2, p3}
MCBackends == {cpu, vulkan}
MCVolatile == {vulkan}
MCShapes == {<<1, 2, 7>>, <<2, 1, 2>>, <<2, 2, 2>>}
MCSizes == {8, 16}
MCRawSizes == {4}
MCCapsOf == [b \in MCBackends |->
  [shared |-> FALSE, device_local |-> b = vulkan, host_pinned |-> FALSE]]

\* For the runs whose client may do anything.
MCTwoPtrs == {p1, p2}
MCTwoShapes == {<<1, 2, 7>>, <<2, 2, 2>>}
MCSmallSymmetry == Permutations(MCTwoPtrs) \cup Permutations(MCTensors)

MCSymmetry == Permutations(MCPtrs) \cup Permutations(MCTensors)

=============================================================================

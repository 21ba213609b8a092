--------------------------- MODULE MCVulkanSubmit ---------------------------
(***************************************************************************)
(* VulkanSubmit with two tensors and two kernels that do not commute:      *)
(* broadcast_add, which works in place, and relu, which does not.          *)
(***************************************************************************)
EXTENDS VulkanSubmit

CONSTANTS t1, t2

MCTensors == {t1, t2}
MCValues == 0 .. 1
MCKernels == {"broadcast_add", "relu"}
MCArity == [k \in MCKernels |-> 2]
MCOutput == [k \in MCKernels |-> IF k = "relu" THEN 2 ELSE 1]
MCCompute(k, s) == IF k = "relu" THEN s[1] ELSE (s[1] + s[2] + 1) % 2

=============================================================================

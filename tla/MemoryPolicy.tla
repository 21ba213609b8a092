---------------------------- MODULE MemoryPolicy ----------------------------
(***************************************************************************)
(* The pure decisions of gpubridge_memory.c: which memory strategy a       *)
(* tensor's block is tagged with, given how often the pool has already     *)
(* served a block of its size and what the backend's memory supports.      *)
(***************************************************************************)

EXTENDS Naturals

\* GpuBridgeBackendCaps, reduced to the three fields the decision reads.
Caps == [shared : BOOLEAN, device_local : BOOLEAN, host_pinned : BOOLEAN]

\* GpuBridgeMemoryStrategy.
Strategies == {"auto", "device_local", "shared", "host_pinned", "host_only"}

\* gpuBridgeChooseMemoryStrategy(): the byte count it also takes is unused.
ChooseMemoryStrategy(reuse_count, latency_sensitive, caps) ==
  IF caps.shared /\ (latency_sensitive \/ reuse_count <= 1) THEN "shared"
  ELSE IF caps.device_local THEN "device_local"
  ELSE IF caps.host_pinned THEN "host_pinned"
  ELSE "host_only"

=============================================================================

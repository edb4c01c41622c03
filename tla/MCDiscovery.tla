---------------------------- MODULE MCDiscovery -----------------------------
(***************************************************************************)
(* The utilization series of two GPUs, the point without attributes that   *)
(* NvidiaCollector returns when NVML cannot count the devices, and the     *)
(* usage of a file system on a long mount point.                           *)
(***************************************************************************)
EXTENDS Discovery, TLC

Utilization(attrs) == [metric |-> "nvidia.gpu.utilization", attributes |-> attrs]
CountFailed == Utilization(<<>>)
LongUsage == [metric |-> "system.filesystem.usage",
              attributes |-> ("mountpoint" :> "long")]
MCKeys == {CountFailed, Utilization("gpu.id" :> "g0"),
           Utilization("gpu.id" :> "g1"), LongUsage}
MCFailureKeys == {CountFailed}
=============================================================================

---------------------------- MODULE MCController ----------------------------
(* Controller on small fleets. *)
EXTENDS Controller, TLC

CONSTANTS a, b

MCVcpuCount == [v \in VMs |-> 2]
MCWideVcpuCount == [v \in VMs |-> 3]
MCSymmetry == Permutations(VMs)

\* max_instances_adjusted_per_poll is "Most VMs resized per poll": the pools a
\* tick changed are no more than that, the ones an actuation failed half-way on
\* included.
CapCoversEveryResize == AdjustCap > 0 => Cardinality(resized) <= AdjustCap
=============================================================================

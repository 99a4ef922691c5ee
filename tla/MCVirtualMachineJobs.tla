------------------------ MODULE MCVirtualMachineJobs ------------------------
(* Instances of VirtualMachineJobs for TLC.                                *)
EXTENDS VirtualMachineJobs, TLC

CONSTANTS p1, p2

Symmetry == Permutations(Proc)
=============================================================================

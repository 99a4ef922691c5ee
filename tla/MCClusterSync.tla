---- MODULE MCClusterSync ----
EXTENDS ClusterSync, TLC

(* Clusters differ (one is read only); nodes and owners do not. *)
NodeSymmetry == Permutations(Node)
=============================================================================

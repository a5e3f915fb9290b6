--------------------------- MODULE MCClusterWatch ---------------------------
(* Instances of ClusterWatch for TLC: one list of two resources, as the      *)
(* workloads are.                                                            *)
EXTENDS ClusterWatch
CONSTANTS r1, r2

Workloads == {{r1, r2}}
=============================================================================

-------------------------- MODULE MCDiscoveryReset --------------------------
(* The data plane of MCClusterNodes, a bootstrapper and a manager, and two *)
(* resets of its discovery service.                                        *)
EXTENDS DiscoveryReset, MCClusterNodes

ResetSymmetry == Permutations(Reset)

=============================================================================

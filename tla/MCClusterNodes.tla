--------------------------- MODULE MCClusterNodes ---------------------------
(* A small data plane for TLC: a bootstrapper and a manager.               *)
EXTENDS ClusterNodes, TLC

CONSTANTS b1, m1

MCInstance == {b1, m1}
MCRoleOf == b1 :> "bootstrapper" @@ m1 :> "cluster_manager"
MCMortal == {m1}
MCMaxSize == [r \in Role |-> IF r = "data" THEN 0 ELSE 1]
=============================================================================

------------------------- MODULE MCClusterBootstrap -------------------------
(* Small clusters for TLC: the instances the groups may launch, their      *)
(* roles and the quotas.                                                   *)
EXTENDS ClusterBootstrap, TLC

CONSTANTS a1, a2, b1, b2, m1, m2, d1

RoleIn == b1 :> "bootstrapper" @@ b2 :> "bootstrapper"
          @@ m1 :> "cluster_manager" @@ m2 :> "cluster_manager" @@ d1 :> "data"

(* One run and a whole cluster, with two managers to wait for.             *)
OneAdmin == {a1}
LaunchInstance == {b1, m1, m2, d1}
LaunchRoleOf == [i \in LaunchInstance |-> RoleIn[i]]
LaunchQuota == [r \in Role |-> IF r = "cluster_manager" THEN 2 ELSE 1]

(* One manager only, where failures are to be explored.                    *)
TrioInstance == {b1, m1, d1}
TrioRoleOf == [i \in TrioInstance |-> RoleIn[i]]
TrioMortal == {m1}

(* Two runs, and a bootstrapper to spare.                                  *)
TwoAdmins == {a1, a2}
RaceInstance == {b1, b2, m1, d1}
RaceRoleOf == [i \in RaceInstance |-> RoleIn[i]]
OneEach == [r \in Role |-> 1]
BootstrapperMortal == {b1}

(* A data group smaller than what the workflow launches.                   *)
DataUndersized == [r \in Role |-> IF r = "data" THEN 0 ELSE LaunchQuota[r]]

AdminSymmetry == Permutations(TwoAdmins)
=============================================================================

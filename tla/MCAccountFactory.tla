-------------------------- MODULE MCAccountFactory --------------------------
(* A few projects for TLC. The names of a tenant and of a project may hold *)
(* dashes, which does no harm in MCOneProject, the name of a project. When *)
(* the tenants of MCDashedTenant have the projects of MCProjectName, two   *)
(* projects get the same address.                                          *)
EXTENDS AccountFactory

MCWord == {"tenant", "aws", "acme", "lab", "logs"}
MCTenant == {<<"acme">>}
MCDashedTenant == {<<"acme">>, <<"acme", "aws", "lab">>}
MCOneProject == {<<"lab", "aws", "logs">>}
MCOneAccount == {Address(t, p) : t \in MCTenant, p \in MCOneProject}
MCProjectName == {<<"logs">>, <<"lab", "aws", "logs">>}
MCDashedAccount == {Address(t, p) : t \in MCDashedTenant, p \in MCProjectName}
=============================================================================

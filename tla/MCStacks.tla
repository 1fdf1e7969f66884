------------------------------ MODULE MCStacks ------------------------------
EXTENDS StackLifecycle

MCStart == [name |-> "n1", value |-> "v1"]
MCChange == {"repo", "policy", "param", "services", "invocation", "delegation"}
MCMaxBusy == [t \in Templates |-> IF t = "cluster" THEN 1 ELSE 2]
MCTemplates == Templates

=============================================================================

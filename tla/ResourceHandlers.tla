-------------------------- MODULE ResourceHandlers --------------------------
(***************************************************************************)
(* What the handlers of auto-os's own CloudFormation resources do: for     *)
(* each kind of resource and each request CloudFormation may send for it,  *)
(* the calls the handler makes, in order. A handler ends at its first call *)
(* that throws. The names of the calls stand for                           *)
(*                                                                         *)
(*   put       write, whatever was there                                   *)
(*   add       write, refused if the name is taken                         *)
(*   remove    delete, refused if there is nothing of that name            *)
(*   schedule  delete a secret, whose name stays taken for a month         *)
(*   verify    the cluster's nodes reach for the bucket of a repository    *)
(*   import    read the root CA, sign a certificate with it and store it   *)
(*   lookup    a read that changes nothing                                 *)
(*   some      write the first of several things                           *)
(*   build     start a build                                               *)
(*   poll      ask again and again how a build is doing, within a limit    *)
(*   await     the same without a limit                                    *)
(*   drain     terminate the instances of a group and wait for them        *)
(*   empty     delete a Cloud Map service, refused while it has instances  *)
(*   retire    delete an SES rule set, refused while it is the active one  *)
(*   enroll    make an account of the organization, one at a time          *)
(*   vacate    delete an organizational unit, refused while it has any     *)
(*   refuse    throw                                                       *)
(***************************************************************************)

Calls == {"put", "add", "remove", "schedule", "verify", "import", "lookup", "some",
          "build", "poll", "await", "drain", "empty", "retire", "enroll", "vacate", "refuse"}

\* CloudFormation's own resources, and those of auto-os that a template never
\* changes once they exist.
Native == [Create |-> <<"add">>, Update |-> <<"put">>, Delete |-> <<"remove">>]
Retained == [Create |-> <<"add">>, Update |-> <<"put">>, Delete |-> << >>]
ScalingGroups == [Create |-> <<"add">>, Update |-> <<"put">>, Delete |-> <<"drain">>]
DiscoveryService == [Create |-> <<"add">>, Update |-> <<"put">>, Delete |-> <<"empty">>]
RuleSet == [Create |-> <<"add">>, Update |-> <<"put">>, Delete |-> <<"retire">>]

\* Organizations makes an account in the background, and CloudFormation keeps it.
OrgAccount == [Create |-> <<"enroll", "lookup">>, Update |-> <<"put">>, Delete |-> << >>]
OrgUnit == [Create |-> <<"add">>, Update |-> <<"put">>, Delete |-> <<"vacate">>]
BucketDeployment == [Create |-> <<"put">>, Update |-> <<"put">>, Delete |-> << >>]

\* Calls that a custom resource makes when it is created and when it is deleted; an
\* update makes none.
Delegation == [Create |-> <<"add">>, Update |-> << >>, Delete |-> <<"remove">>]
PortfolioShare == [Create |-> <<"put">>, Update |-> << >>, Delete |-> <<"remove">>]

\* Makes a rule set the active one. Nothing ever makes it inactive.
RuleSetActivator == [Create |-> <<"put">>, Update |-> <<"put">>, Delete |-> << >>]

\* A snapshot repository in OpenSearch, which registers it and then verifies
\* that the nodes can use it.
SnapshotRepo ==
  [Create |-> <<"put", "verify">>,
   Update |-> <<"remove", "put", "verify">>,
   Delete |-> <<"remove">>]

(* Mutants: an update that does not delete the policy first; a deletion    *)
(* that is only logged; an update that takes an unknown request for done.  *)
SnapshotPolicyPosted ==
  [Create |-> <<"add">>, Update |-> <<"add">>, Delete |-> <<"remove">>]
SnapshotPolicyKept ==
  [Create |-> <<"add">>, Update |-> <<"remove", "add">>, Delete |-> << >>]
ParamLinkerOnce == [Create |-> <<"put">>, Update |-> << >>, Delete |-> << >>]

\* A snapshot policy: POST creates, and refuses a policy that exists.
SnapshotPolicy ==
  [Create |-> <<"add">>, Update |-> <<"remove", "add">>, Delete |-> <<"remove">>]

\* An SSM parameter that holds the id of an image.
ParamLinker == [Create |-> <<"put">>, Update |-> <<"put">>, Delete |-> << >>]

\* A container image that a CodeBuild project copies.
ImageDeployer ==
  [Create |-> <<"build", "poll">>, Update |-> <<"build", "poll">>, Delete |-> << >>]

\* A command of the admin CLI, run by a CodeBuild project.
Invocation ==
  [Create |-> <<"build", "await", "lookup">>, Update |-> <<"refuse">>, Delete |-> << >>]

\* AWS services that may act in the organization, enabled one after the other.
TrustedServices == [Create |-> <<"some", "put">>, Update |-> << >>, Delete |-> << >>]

\* Custom resources that only look something up for other resources.
EndpointLookup == [Create |-> <<"lookup">>, Update |-> <<"lookup">>, Delete |-> << >>]
OrgLookup == [Create |-> <<"lookup">>, Update |-> <<"lookup">>, Delete |-> << >>]
NameLookup == [Create |-> << >>, Update |-> << >>, Delete |-> << >>]
ProductLookup == [Create |-> <<"lookup">>, Update |-> <<"lookup">>, Delete |-> << >>]

\* The root CA, kept in a secret, and the load balancer's certificate.
RootCA ==
  [Create |-> <<"add">>, Update |-> <<"refuse">>, Delete |-> <<"schedule">>]
LoadBalancerCertificate ==
  [Create |-> <<"import">>, Update |-> <<"refuse">>, Delete |-> << >>]

\* auto-os's own resources, by name.
Handler ==
  [repo |-> SnapshotRepo, policy |-> SnapshotPolicy, param |-> ParamLinker,
   image |-> ImageDeployer, invocation |-> Invocation, services |-> TrustedServices,
   endpoint |-> EndpointLookup, forgeOrg |-> OrgLookup, registrarOrg |-> OrgLookup,
   productId |-> ProductLookup, substrateNames |-> NameLookup,
   controlNames |-> NameLookup, activator |-> RuleSetActivator, rootCa |-> RootCA,
   lbCert |-> LoadBalancerCertificate, delegation |-> Delegation, share |-> PortfolioShare]

=============================================================================

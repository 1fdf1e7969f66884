--------------------------- MODULE StackTemplates ---------------------------
(***************************************************************************)
(* The stacks that auto-os has CloudFormation build: which resources each  *)
(* one has, and which of them a resource is created after. A construct is  *)
(* modelled by the pairs <<r, d>> in which its template makes r refer to   *)
(* d. Roles, policies and Lambda functions are taken together with the     *)
(* resource they serve.                                                    *)
(***************************************************************************)
EXTENDS ResourceHandlers

----------------------------------------------------------------------------
(* The product that a tenant provisions for a cluster: three nested stacks. *)

Substrate == {"substrateNames", "vpc", "namespace", "assets", "key", "substrateParam"}

\* Names are written in small letters by a custom resource of each nested stack.
ClusterNames == {"namespace", "assets"} \X {"substrateNames"} \cup {"queue", "bus"} \X {"controlNames"}

SixyVpc == {"namespace"} \X {"vpc"}
SubstrateNestedStack == SixyVpc \cup {"substrateParam"} \X {"namespace"}

ControlPlane ==
  {"controlNames", "productId", "rootCa", "queue", "bus", "eventLogs", "broadcast", "forwarder", "service",
   "adminSecret", "clusterParams", "apiFunc", "apiEndpoint", "cleanup", "controlPlaneParam"}

\* The secret is named after the product, not after what is provisioned of it.
ProductIdentifier(users) == users \X {"productId"}
RootCAConstruct == ProductIdentifier({"rootCa"})
EventNotifications == {"broadcast"} \X {"bus", "eventLogs"}
EventForwarder == {"forwarder"} \X {"bus", "queue"}
ApiFunc ==
  {"apiFunc"} \X {"rootCa", "adminSecret", "clusterParams", "queue", "bus", "service"}
ApiEndpoint == {"apiEndpoint"} \X {"apiFunc"}
RegistrationCleanup == {"cleanup"} \X {"service", "bus"}
ControlPlaneStack ==
  RootCAConstruct \cup EventNotifications \cup EventForwarder \cup ApiFunc
    \cup ApiEndpoint \cup RegistrationCleanup
    \cup {"controlPlaneParam"} \X {"clusterParams", "bus", "eventLogs", "adminSecret",
                                   "rootCa", "service"}

DataPlane ==
  {"amiParams", "nodeAccess", "lbCert", "lb", "launchRule", "asgs", "dataPlaneParam"}

LbCert == {<<"lbCert", "rootCa">>}
ClusterLb == LbCert \cup {"lb"} \X {"lbCert"}
ClusterAsg == {"asgs"} \X {"nodeAccess", "amiParams"}
SearchCluster == ClusterLb \cup ClusterAsg \cup {"asgs"} \X {"lb"} \cup {"launchRule"} \X {"asgs"}
DataPlaneStack == SearchCluster \cup {"dataPlaneParam"} \X {"lb"}

(* Mutant: the data plane does not wait for the control plane.             *)
NestedAtOnce == (ControlPlane \cup DataPlane) \X Substrate

\* A nested stack that takes an output of another one is only begun when all of
\* that one is there.
Nested == ControlPlane \X Substrate \cup DataPlane \X (Substrate \cup ControlPlane)

ClusterProduct ==
  ClusterNames \cup SubstrateNestedStack \cup ControlPlaneStack \cup DataPlaneStack \cup Nested

----------------------------------------------------------------------------
(* The management of a cluster: a command run on it, its snapshots. *)

Management ==
  {"artifacts", "invocationLogs", "project", "invocation", "bucket", "endpoint", "repoAccess",
   "repo", "policy"}

\* All the commands of a stack share one project.
MaestroAdminCodeBuildProject == {"project"} \X {"artifacts", "invocationLogs"}
MaestroAdminSingletonCodeBuildProject(users) ==
  MaestroAdminCodeBuildProject \cup users \X {"project"}
MaestroAdminInvocation == MaestroAdminSingletonCodeBuildProject({"invocation"})

\* Whoever calls the cluster gets its address and credentials from a lookup.
ClusterEndpoint(users) == users \X {"endpoint"}

\* The policy that lets the cluster's nodes use the bucket is attached to their
\* role by the construct, but the repository does not refer to it.
S3SnapshotRepo == ClusterEndpoint({"repo"}) \cup {"repo", "repoAccess"} \X {"bucket"}
SnapshotPolicyConstruct == ClusterEndpoint({"policy"})
ManagementStack ==
  MaestroAdminInvocation \cup S3SnapshotRepo \cup SnapshotPolicyConstruct
    \cup {"policy"} \X {"repo"}

----------------------------------------------------------------------------
(* What an account shares with its organization, which it looks up once in a stack. *)

OrgMembershipLookup(users, lookup) == users \X {lookup}
OrgSharedKmsKey(key, lookup) == OrgMembershipLookup({key}, lookup)

----------------------------------------------------------------------------
(* The images that nodes are launched from. *)

Forge ==
  {"amiKey", "forgeOrg", "maestroComponent", "openSearchComponent", "recipe",
   "infrastructure", "distribution", "pipeline", "bakedImage"}

\* What is installed on the image.
MaestroCliComponent == {"maestroComponent"}
OpenSearchComponent == {"openSearchComponent"}

ImageRecipe(components) == {"recipe"} \X ({"amiKey"} \cup components)
BakedAmi == ImageRecipe(MaestroCliComponent \cup OpenSearchComponent)
ImagePipeline ==
  OrgMembershipLookup({"distribution"}, "forgeOrg") \cup {<<"distribution", "amiKey">>}
    \cup {"pipeline"} \X {"recipe", "infrastructure", "distribution"}

\* The image is built by itself, beside the pipeline and without the pipeline's
\* distribution settings.
AmiBakery == ImagePipeline \cup {"bakedImage"} \X {"recipe", "infrastructure"}
ForgeStack == OrgSharedKmsKey("amiKey", "forgeOrg") \cup BakedAmi \cup AmiBakery

----------------------------------------------------------------------------
(* The stacks of the organization: the mailbox of its accounts, its API, and what *)
(* the accounts of clusters need to have. *)

Mailbox ==
  {"mailDomain", "mailBucket", "mailProcessor", "ruleSet", "activator", "mailLog", "mailRule"}
FleetMailbox ==
  {<<"mailProcessor", "mailBucket">>, <<"ruleSet", "mailProcessor">>, <<"mailRule", "mailLog">>}
Activation == {<<"activator", "ruleSet">>}

Api ==
  {"admiralFunc", "machineFunc", "admiralEndpoint", "admiralCert", "admiralDomain",
   "admiralRecord", "accountMachine"}

\* The function that starts the account machine refers to it by a name, so that
\* neither waits for the other.
AdmiralApi == {<<"admiralEndpoint", "admiralFunc">>, <<"accountMachine", "machineFunc">>}
AdmiralApiEndpoint ==
  {"admiralDomain"} \X {"admiralCert", "admiralEndpoint"} \cup {<<"admiralRecord", "admiralDomain">>}

Registrar ==
  {"registrarOrg", "orgKey", "orgBucket", "rootCaUpload", "lbCertUpload", "providerStacks",
   "eventStacks"}
OrgSharedBucket ==
  OrgSharedKmsKey("orgKey", "registrarOrg") \cup OrgMembershipLookup({"orgBucket"}, "registrarOrg")
    \cup {<<"orgBucket", "orgKey">>}
ResourceProviderUploader == {"rootCaUpload", "lbCertUpload"} \X {"orgBucket"}
CustomProvidersStack == {"providerStacks"} \X {"rootCaUpload", "lbCertUpload"}
RegistrarStack ==
  OrgSharedBucket \cup ResourceProviderUploader \cup CustomProvidersStack

\* The stack that brings the two resource types of auto-os to each account.
Providers ==
  {"rootCaLog", "rootCaRole", "rootCaType", "rootCaDefault",
   "lbCertLog", "lbCertRole", "lbCertType", "lbCertDefault"}
ResourceProviderRegistration ==
  {"rootCaType"} \X {"rootCaLog", "rootCaRole"} \cup {<<"rootCaDefault", "rootCaType">>}
    \cup {"lbCertType"} \X {"lbCertLog", "lbCertRole"} \cup {<<"lbCertDefault", "lbCertType">>}

\* The organization itself, and the accounts that run it. The accounts for logging
\* and for security are taken together.
Accounts == {"delegatedAdmin", "otherAccounts"}
Provisioner ==
  {"organization", "services", "managementOu", "clusterOu", "creationRole", "fleetBus",
   "delegation"} \cup Accounts

FleetTrustedServices == {<<"services", "organization">>} \cup Accounts \X {"services"}
AdmiralFleet ==
  FleetTrustedServices \cup {"managementOu", "clusterOu"} \X {"organization"}
    \cup Accounts \X {"managementOu"} \cup {<<"creationRole", "delegatedAdmin">>}
DelegatedServiceAdmin == {<<"delegation", "delegatedAdmin">>}
ProvisionerStack == AdmiralFleet \cup DelegatedServiceAdmin

\* The products that tenants provision, offered to the accounts of clusters.
Offering ==
  {"versionAssets", "clusterProduct", "funcProduct", "portfolio", "productLinks", "share"}
AutoOsOrgPortfolio ==
  {"productLinks"} \X {"portfolio", "clusterProduct", "funcProduct"} \cup {<<"share", "portfolio">>}

OrganizationStacks ==
  FleetMailbox \cup Activation \cup AdmiralApi \cup AdmiralApiEndpoint \cup RegistrarStack
    \cup ResourceProviderRegistration \cup ProvisionerStack \cup AutoOsOrgPortfolio

----------------------------------------------------------------------------
(* Stacks of which one custom resource matters. *)

DockerImage == {"buildProject"}
DockerImageDeployment == {"image"} \X {"buildProject"}
ParamLink == {"param"}

----------------------------------------------------------------------------
Templates ==
  {"cluster", "management", "forge", "docker", "mailbox", "api", "registrar", "providers",
   "provisioner", "offering", "link"}

ResourcesOf == [t \in Templates |->
  CASE t = "cluster" -> Substrate \cup ControlPlane \cup DataPlane
    [] t = "management" -> Management
    [] t = "forge" -> Forge
    [] t = "docker" -> DockerImage \cup {"image"}
    [] t = "mailbox" -> Mailbox
    [] t = "api" -> Api
    [] t = "registrar" -> Registrar
    [] t = "providers" -> Providers
    [] t = "provisioner" -> Provisioner
    [] t = "offering" -> Offering
    [] t = "link" -> ParamLink]

AllResources == UNION {ResourcesOf[t] : t \in Templates}

Uses ==
  ClusterProduct \cup ManagementStack \cup ForgeStack \cup DockerImageDeployment
    \cup OrganizationStacks

\* What has to be there before a resource is asked for.
Needs == [r \in AllResources |-> {d \in AllResources : <<r, d>> \in Uses}]
Dependents == [d \in AllResources |-> {r \in AllResources : <<r, d>> \in Uses}]

\* Resources whose names say nothing of the stack they are made for. A secret or a
\* parameter of that name may belong to another cluster of the account; a log
\* group, an organization or the address of one of its accounts, to a stack that
\* was there before.
Unprefixed == {"rootCa", "amiParams", "mailLog", "rootCaLog", "lbCertLog", "organization"} \cup Accounts

\* CloudFormation keeps keys, buckets and log groups of which the construct does
\* not say that they are to be destroyed. The image of nodes outlives its build.
Outliving == {"key", "bucket", "amiKey", "bakedImage", "mailBucket", "mailLog",
              "orgKey", "rootCaLog", "lbCertLog"}

\* CloudFormation's own resources are told apart where their deletion is.
HandlerOf ==
  [r \in AllResources |->
     CASE r \in DOMAIN Handler -> Handler[r]
       [] r \in Outliving -> Retained
       [] r \in Accounts -> OrgAccount
       [] r = "managementOu" -> OrgUnit
       [] r = "versionAssets" -> BucketDeployment
       [] r = "asgs" -> ScalingGroups
       [] r = "service" -> DiscoveryService
       [] r = "ruleSet" -> RuleSet
       [] OTHER -> Native]

=============================================================================

----------------------------- MODULE StackProofs -----------------------------
(***************************************************************************)
(* Proofs about StackLifecycle, for any templates, changes, instances,     *)
(* parallel requests and faults.                                           *)
(***************************************************************************)
EXTENDS StackLifecycle, TLAPS

Requests == [for : {"none", "Create", "Update", "Delete"}, todo : Seq(Calls)]
Programs == [Create : Seq(Calls), Update : Seq(Calls), Delete : Seq(Calls)]

----------------------------------------------------------------------------
(* The templates and their handlers *)

LEMMA OwnTyped == \A r \in DOMAIN Handler : Handler[r] \in Programs
<1>1. /\ SnapshotRepo \in Programs /\ SnapshotPolicy \in Programs
      /\ ParamLinker \in Programs /\ ImageDeployer \in Programs
  BY DEF SnapshotRepo, SnapshotPolicy, ParamLinker, ImageDeployer, Programs, Calls
<1>2. /\ Invocation \in Programs /\ TrustedServices \in Programs
      /\ RuleSetActivator \in Programs
  BY DEF Invocation, TrustedServices, RuleSetActivator, Programs, Calls
<1>3. /\ EndpointLookup \in Programs /\ OrgLookup \in Programs
      /\ NameLookup \in Programs /\ ProductLookup \in Programs
  BY DEF EndpointLookup, OrgLookup, NameLookup, ProductLookup, Programs, Calls
<1>4. /\ RootCA \in Programs /\ LoadBalancerCertificate \in Programs
      /\ Delegation \in Programs /\ PortfolioShare \in Programs
  BY DEF RootCA, LoadBalancerCertificate, Delegation, PortfolioShare, Programs, Calls
<1> QED BY <1>1, <1>2, <1>3, <1>4 DEF Handler

LEMMA HandlersTyped == HandlerOf \in [AllResources -> Programs]
<1>1. Native \in Programs /\ Retained \in Programs
  BY DEF Native, Retained, Programs, Calls
<1>2. /\ ScalingGroups \in Programs /\ DiscoveryService \in Programs
      /\ RuleSet \in Programs
  BY DEF ScalingGroups, DiscoveryService, RuleSet, Programs, Calls
<1>3. /\ OrgAccount \in Programs /\ OrgUnit \in Programs
      /\ BucketDeployment \in Programs
  BY DEF OrgAccount, OrgUnit, BucketDeployment, Programs, Calls
<1> QED BY <1>1, <1>2, <1>3, OwnTyped DEF HandlerOf

\* auto-os's own resources have the handlers of those names.
LEMMA OwnHandlers ==
  \A r \in DOMAIN Handler \cap AllResources : HandlerOf[r] = Handler[r]
<1> DEFINE Special == {"managementOu", "versionAssets", "asgs", "service", "ruleSet"}
<1>1. DOMAIN Handler \cap (Outliving \cup Accounts \cup Special) = {}
  BY DEF Handler, Outliving, Accounts
<1> QED BY <1>1 DEF HandlerOf

\* The others have those of CloudFormation.
LEMMA OtherHandlers ==
  ASSUME NEW r \in AllResources, r \notin DOMAIN Handler
  PROVE  HandlerOf[r] = IF r \in Outliving THEN Retained
                        ELSE IF r \in Accounts THEN OrgAccount
                        ELSE IF r = "managementOu" THEN OrgUnit
                        ELSE IF r = "versionAssets" THEN BucketDeployment
                        ELSE IF r = "asgs" THEN ScalingGroups
                        ELSE IF r = "service" THEN DiscoveryService
                        ELSE IF r = "ruleSet" THEN RuleSet ELSE Native
<1> DEFINE Special == {"managementOu", "versionAssets", "asgs", "service", "ruleSet"}
<1>1. Outliving \cap (Accounts \cup Special) = {} /\ Accounts \cap Special = {}
  BY DEF Outliving, Accounts
<1> QED BY <1>1 DEF HandlerOf

LEMMA GroupsDrain ==
  "asgs" \in AllResources => HandlerOf["asgs"].Delete = <<"drain">>
<1>1. "asgs" \notin DOMAIN Handler /\ "asgs" \notin Outliving /\ "asgs" \notin Accounts
  BY DEF Handler, Outliving, Accounts
<1> QED BY <1>1, OtherHandlers DEF ScalingGroups

\* What the templates of different stacks refer to lies in the same stack.
LEMMA ClusterWithin ==
  ClusterProduct \subseteq ResourcesOf["cluster"] \X ResourcesOf["cluster"]
<1> DEFINE C == Substrate \cup ControlPlane \cup DataPlane
<1>1. ResourcesOf["cluster"] = C
  BY DEF ResourcesOf, Templates
<1>2. ClusterNames \subseteq C \X C /\ SubstrateNestedStack \subseteq C \X C
  BY DEF ClusterNames, SubstrateNestedStack, SixyVpc, Substrate, ControlPlane
<1>3. /\ RootCAConstruct \subseteq C \X C /\ EventNotifications \subseteq C \X C
      /\ EventForwarder \subseteq C \X C /\ ApiFunc \subseteq C \X C
  BY DEF RootCAConstruct, ProductIdentifier, EventNotifications, EventForwarder, ApiFunc, ControlPlane
<1>4. /\ ApiEndpoint \subseteq C \X C /\ RegistrationCleanup \subseteq C \X C
      /\ {"controlPlaneParam"} \X {"clusterParams", "bus", "eventLogs", "adminSecret",
                                   "rootCa", "service"} \subseteq C \X C
  BY DEF ApiEndpoint, RegistrationCleanup, ControlPlane
<1>5. DataPlaneStack \subseteq C \X C
  BY DEF DataPlaneStack, SearchCluster, ClusterLb, LbCert, ClusterAsg, DataPlane, ControlPlane
<1>6. Nested \subseteq C \X C
  BY DEF Nested
<1>7. ControlPlaneStack \subseteq C \X C
  BY <1>3, <1>4 DEF ControlPlaneStack
<1> HIDE DEF C
<1> QED BY <1>1, <1>2, <1>5, <1>6, <1>7 DEF ClusterProduct

LEMMA OthersWithin ==
  /\ ManagementStack \subseteq ResourcesOf["management"] \X ResourcesOf["management"]
  /\ ForgeStack \subseteq ResourcesOf["forge"] \X ResourcesOf["forge"]
  /\ DockerImageDeployment \subseteq ResourcesOf["docker"] \X ResourcesOf["docker"]
<1>1. /\ ResourcesOf["management"] = Management
      /\ ResourcesOf["forge"] = Forge
      /\ ResourcesOf["docker"] = DockerImage \cup {"image"}
  BY DEF ResourcesOf, Templates
<1>2. ManagementStack \subseteq Management \X Management
  BY DEF ManagementStack, MaestroAdminInvocation, MaestroAdminSingletonCodeBuildProject,
         MaestroAdminCodeBuildProject, S3SnapshotRepo, SnapshotPolicyConstruct,
         ClusterEndpoint, Management
<1>3. ForgeStack \subseteq Forge \X Forge
  BY DEF ForgeStack, AmiBakery, BakedAmi, ImagePipeline, ImageRecipe, MaestroCliComponent,
         OpenSearchComponent, OrgSharedKmsKey, OrgMembershipLookup, Forge
<1> QED BY <1>1, <1>2, <1>3 DEF DockerImageDeployment, DockerImage

LEMMA OrganizationWithin ==
  ASSUME NEW a, NEW b, <<a, b>> \in OrganizationStacks
  PROVE  \E t \in {"mailbox", "api", "registrar", "providers", "provisioner", "offering"} :
           a \in ResourcesOf[t] /\ b \in ResourcesOf[t]
<1>1. /\ ResourcesOf["mailbox"] = Mailbox /\ ResourcesOf["api"] = Api
      /\ ResourcesOf["registrar"] = Registrar /\ ResourcesOf["providers"] = Providers
      /\ ResourcesOf["provisioner"] = Provisioner /\ ResourcesOf["offering"] = Offering
  BY DEF ResourcesOf, Templates
<1>2. FleetMailbox \cup Activation \subseteq Mailbox \X Mailbox
  BY DEF FleetMailbox, Activation, Mailbox
<1>3. AdmiralApi \cup AdmiralApiEndpoint \subseteq Api \X Api
  BY DEF AdmiralApi, AdmiralApiEndpoint, Api
<1>4. RegistrarStack \subseteq Registrar \X Registrar
  BY DEF RegistrarStack, OrgSharedKmsKey, OrgMembershipLookup, OrgSharedBucket,
         ResourceProviderUploader, CustomProvidersStack, Registrar
<1>5. ResourceProviderRegistration \subseteq Providers \X Providers
  BY DEF ResourceProviderRegistration, Providers
<1>6. ProvisionerStack \subseteq Provisioner \X Provisioner
  BY DEF ProvisionerStack, AdmiralFleet, FleetTrustedServices, DelegatedServiceAdmin,
         Accounts, Provisioner
<1>7. AutoOsOrgPortfolio \subseteq Offering \X Offering
  BY DEF AutoOsOrgPortfolio, Offering
<1> QED BY <1>1, <1>2, <1>3, <1>4, <1>5, <1>6, <1>7 DEF OrganizationStacks

LEMMA Apart ==
  ASSUME NEW t \in Templates, NEW u \in Templates, NEW r \in ResourcesOf[t],
         r \in ResourcesOf[u]
  PROVE  t = u
<1> DEFINE Cluster == Substrate \cup ControlPlane \cup DataPlane
           Docker == DockerImage \cup {"image"}
           Operators == Mailbox \cup Api \cup Registrar \cup Providers \cup Provisioner
                          \cup Offering
<1>1. Cluster \cap (Management \cup Forge \cup Docker \cup ParamLink \cup Operators) = {}
  BY DEF Substrate, ControlPlane, DataPlane, Management, Forge, DockerImage, ParamLink,
         Mailbox, Api, Registrar, Providers, Provisioner, Accounts, Offering
<1>2. Management \cap (Forge \cup Docker \cup ParamLink \cup Operators) = {}
  BY DEF Management, Forge, DockerImage, ParamLink,
         Mailbox, Api, Registrar, Providers, Provisioner, Accounts, Offering
<1>3. Forge \cap (Docker \cup ParamLink \cup Operators) = {}
  BY DEF Forge, DockerImage, ParamLink,
         Mailbox, Api, Registrar, Providers, Provisioner, Accounts, Offering
<1>4. Docker \cap (ParamLink \cup Operators) = {} /\ ParamLink \cap Operators = {}
  BY DEF DockerImage, ParamLink,
         Mailbox, Api, Registrar, Providers, Provisioner, Accounts, Offering
<1>5. /\ Mailbox \cap (Api \cup Registrar \cup Providers \cup Provisioner \cup Offering) = {}
      /\ Api \cap (Registrar \cup Providers \cup Provisioner \cup Offering) = {}
  BY DEF Mailbox, Api, Registrar, Providers, Provisioner, Accounts, Offering
<1>6. /\ Registrar \cap (Providers \cup Provisioner \cup Offering) = {}
      /\ Providers \cap (Provisioner \cup Offering) = {}
      /\ Provisioner \cap Offering = {}
  BY DEF Registrar, Providers, Provisioner, Accounts, Offering
<1>7. /\ ResourcesOf["cluster"] = Cluster /\ ResourcesOf["management"] = Management
      /\ ResourcesOf["forge"] = Forge /\ ResourcesOf["docker"] = Docker
      /\ ResourcesOf["mailbox"] = Mailbox /\ ResourcesOf["api"] = Api
      /\ ResourcesOf["registrar"] = Registrar /\ ResourcesOf["providers"] = Providers
      /\ ResourcesOf["provisioner"] = Provisioner /\ ResourcesOf["offering"] = Offering
      /\ ResourcesOf["link"] = ParamLink
  BY DEF ResourcesOf, Templates
<1> HIDE DEF Cluster, Docker
<1> QED BY <1>1, <1>2, <1>3, <1>4, <1>5, <1>6, <1>7 DEF Templates

\* A resource needs, and is needed by, resources of its own stack.
LEMMA NeedsWithin ==
  ASSUME NEW t \in Templates, NEW r \in ResourcesOf[t]
  PROVE  /\ r \in AllResources
         /\ Needs[r] \subseteq ResourcesOf[t]
         /\ Dependents[r] \subseteq ResourcesOf[t]
         /\ \A d \in Needs[r] : r \in Dependents[d]
         /\ \A u \in Dependents[r] : r \in Needs[u]
<1>1. r \in AllResources
  BY DEF AllResources
<1>2. ASSUME NEW a, NEW b, <<a, b>> \in Uses
      PROVE  \E x \in Templates : a \in ResourcesOf[x] /\ b \in ResourcesOf[x]
  BY <1>2, ClusterWithin, OthersWithin, OrganizationWithin DEF Uses, Templates
<1>3. Needs[r] \subseteq ResourcesOf[t]
  BY <1>1, <1>2, Apart DEF Needs
<1>4. Dependents[r] \subseteq ResourcesOf[t]
  BY <1>1, <1>2, Apart DEF Dependents
<1> QED BY <1>1, <1>3, <1>4 DEF Needs, Dependents

\* Whatever a set-up script relies on is made before the groups are.
LEMMA ServingNeeded == "asgs" \in AllResources => Serving \subseteq Needs["asgs"]
<1>1. {"asgs"} \X ControlPlane \subseteq Uses
  BY DEF Uses, ClusterProduct, Nested, DataPlane
<1>2. Serving \subseteq ControlPlane
  BY DEF Serving, ControlPlane
<1>3. ControlPlane \subseteq AllResources
  BY DEF AllResources, ResourcesOf, Templates
<1> QED BY <1>1, <1>2, <1>3 DEF Needs

----------------------------------------------------------------------------
(* Types *)

LEMMA IdleTyped == Idle \in Requests
BY DEF Idle, Requests

\* The resources of a stack have handlers.
LEMMA MineTyped ==
  ASSUME StackTypeOK, NEW r \in Mine
  PROVE  HandlerOf[r] \in Programs
<1>1. template \in Templates
  BY StackAssumption DEF StackTypeOK
<1>2. r \in AllResources
  BY <1>1, NeedsWithin DEF Mine
<1> QED BY <1>2, HandlersTyped

\* The properties a handler is called with are properties.
LEMMA WantTyped ==
  ASSUME StackTypeOK, NEW r \in Mine
  PROVE  Want(r) \in Props
BY DEF Want, StackTypeOK

\* A call that is not refused leaves a value or a state.
LEMMA EffectTyped ==
  ASSUME StackTypeOK, NEW r \in Mine, ~Refused(r), Effect(r)
  PROVE  /\ world' \in [Mine -> [Name -> Value \cup States]]
         /\ job' \in [Mine -> {"none", "running", "succeeded", "failed", "stopped"}]
<1>1. Want(r).name \in Name /\ Want(r).value \in Value
  BY WantTyped DEF Props
<1>2. world[r] \in [Name -> Value \cup States]
  BY DEF StackTypeOK
<1>3. Left(r) \in Value \cup States
  <2>1. Op(r) = "import" => Root \in Value
    BY DEF Refused, Readable
  <2>2. world[r][Want(r).name] \in Value \cup States
    BY <1>1, <1>2
  <2> QED BY <1>1, <2>1, <2>2 DEF Left, States
<1> DEFINE new == [world[r] EXCEPT ![Want(r).name] = Left(r)]
<1>4. new \in [Name -> Value \cup States]
  BY <1>1, <1>2, <1>3
<1>5. world' = [world EXCEPT ![r] = new]
  BY DEF Effect
<1> HIDE DEF new
<1>6. world' \in [Mine -> [Name -> Value \cup States]]
  BY <1>4, <1>5 DEF StackTypeOK
<1> QED BY <1>6 DEF Effect, StackTypeOK

\* A handler that throws leaves the types as they are.
LEMMA ThrowTyped ==
  ASSUME StackTypeOK, NEW r \in Mine, NEW why \in Mine \cup {"fault"}, NEW wrote,
         Throw(r, why, wrote)
  PROVE  /\ Mine' = Mine /\ template' \in Template
         /\ stack' \in Statuses
         /\ has' \in [Mine -> {"absent", "exists"}]
         /\ request' \in [Mine -> Requests]
         /\ props' \in [Mine -> Props] /\ wanted' \in [Mine -> Props]
         /\ culprit' \in Mine \cup {"none", "fault"}
         /\ strays' \subseteq Mine
<1>1. Mine' = Mine /\ template' = template
  BY DEF Throw, Mine
<1>2. stack' \in Statuses
  BY DEF Throw, Statuses, StackTypeOK
<1>3. (IF stack = "updating"
       THEN [for |-> "Update", todo |-> HandlerOf[r].Update] ELSE Idle) \in Requests
  BY MineTyped, IdleTyped DEF Requests, Programs
<1>4. request' \in [Mine -> Requests]
  BY <1>3 DEF Throw, StackTypeOK, Requests
<1>5. strays' \subseteq Mine
  BY DEF Throw, StackTypeOK
<1> QED BY <1>1, <1>2, <1>4, <1>5 DEF Throw, StackTypeOK

\* Each step of a handler keeps the types.
LEMMA HandlerTyped ==
  ASSUME StackTypeOK, NEW r \in Mine, HandlerProgress(r) \/ Fault(r)
  PROVE  StackTypeOK'
<1> USE StackAssumption
<1>1. CASE Call(r)
  <2>1. Mine' = Mine /\ UNCHANGED nodeVars
    BY <1>1 DEF Call, Mine
  <2>2. request[r] \in Requests /\ Tail(request[r].todo) \in Seq(Calls)
    BY <1>1 DEF StackTypeOK, Requests, Call, Calling
  <2>3. [request[r] EXCEPT !.todo = Tail(request[r].todo)] \in Requests
    BY <2>2 DEF Requests
  <2>4. request' \in [Mine -> Requests]
    <3>1. request \in [Mine -> Requests]
      BY DEF StackTypeOK, Requests
    <3>2. request' = [request EXCEPT ![r] = [request[r] EXCEPT !.todo = Tail(request[r].todo)]]
      BY <1>1 DEF Call
    <3> QED BY <2>3, <3>1, <3>2
  <2>5. /\ world' \in [Mine -> [Name -> Value \cup States]]
        /\ job' \in [Mine -> {"none", "running", "succeeded", "failed", "stopped"}]
    BY <1>1, EffectTyped DEF Call
  <2> QED BY <1>1, <2>1, <2>4, <2>5 DEF Call, StackTypeOK, Requests, nodeVars
<1>2. CASE Answer(r)
  <2>1. Mine' = Mine
    BY <1>2 DEF Answer, Mine
  <2>2. request' \in [Mine -> Requests]
    <3>1. request \in [Mine -> Requests]
      BY DEF StackTypeOK, Requests
    <3> QED BY <1>2, <3>1, IdleTyped DEF Answer
  <2>3. props' \in [Mine -> Props]
    BY <1>2, WantTyped DEF Answer, StackTypeOK
  <2>4. stack' \in Statuses
    BY <1>2 DEF Answer, StackTypeOK, Statuses
  <2>5. has' \in [Mine -> {"absent", "exists"}]
    BY <1>2 DEF Answer, StackTypeOK
  <2> QED BY <1>2, <2>1, <2>2, <2>3, <2>4, <2>5 DEF Answer, StackTypeOK, Requests, nodeVars
<1>3. CASE Refuse(r) \/ TotalTimeout(r)
  <2>1. PICK wrote : Throw(r, r, wrote)
    BY <1>3, Zenon DEF Refuse, TotalTimeout
  <2>2. UNCHANGED <<faults, world, job, nodeVars>>
    BY <1>3 DEF Refuse, TotalTimeout, Throw
  <2> QED BY <2>1, <2>2, ThrowTyped DEF StackTypeOK, Requests, nodeVars
<1>4. CASE Fault(r)
  <2>1. PICK wrote : Throw(r, "fault", wrote)
    BY <1>4, Zenon DEF Fault
  <2>2. faults' \in 0..MaxFaults /\ UNCHANGED nodeVars
    BY <1>4, <2>1 DEF Fault, StackTypeOK, Throw
  <2>3. /\ world' \in [Mine -> [Name -> Value \cup States]]
        /\ job' \in [Mine -> {"none", "running", "succeeded", "failed", "stopped"}]
    BY <1>4, EffectTyped DEF Fault, StackTypeOK
  <2> QED BY <2>1, <2>2, <2>3, ThrowTyped DEF StackTypeOK, Requests, nodeVars
<1> QED BY <1>1, <1>2, <1>3, <1>4 DEF HandlerProgress

\* So does each step of CloudFormation or a build.
LEMMA ManagerTyped ==
  ASSUME StackTypeOK,
         \/ \E r \in Mine : AskCreate(r) \/ AskDelete(r) \/ EndBuild(r)
         \/ \E r \in Mine \cap Change, p \in Props : AskUpdate(r, p)
         \/ Settle \/ DeleteStack
  PROVE  StackTypeOK'
<1> USE StackAssumption
<1>1. ASSUME NEW r \in Mine, AskCreate(r) \/ AskDelete(r)
      PROVE  StackTypeOK'
  <2>1. Mine' = Mine /\ UNCHANGED nodeVars
    BY <1>1 DEF AskCreate, AskDelete, Mine
  <2>2. request' \in [Mine -> Requests]
    <3>1. /\ [for |-> "Create", todo |-> HandlerOf[r].Create] \in Requests
          /\ [for |-> "Delete", todo |-> HandlerOf[r].Delete] \in Requests
      BY MineTyped DEF Requests, Programs
    <3>2. request \in [Mine -> Requests]
      BY DEF StackTypeOK, Requests
    <3> QED BY <1>1, <3>1, <3>2 DEF AskCreate, AskDelete
  <2> QED BY <1>1, <2>1, <2>2 DEF AskCreate, AskDelete, StackTypeOK, Requests, nodeVars
<1>2. ASSUME NEW r \in Mine, EndBuild(r)
      PROVE  StackTypeOK'
  <2>1. Mine' = Mine /\ UNCHANGED nodeVars /\ UNCHANGED stackVars
    BY <1>2 DEF EndBuild, stackVars, Mine
  <2>2. job' \in [Mine -> {"none", "running", "succeeded", "failed", "stopped"}]
    BY <1>2 DEF EndBuild, StackTypeOK
  <2>3. world' \in [Mine -> [Name -> Value \cup States]]
    <3>1. Start.name \in Name /\ Start.value \in Value
      BY DEF Props
    <3>2. [world[r] EXCEPT ![Start.name] = Start.value] \in [Name -> Value \cup States]
      BY <3>1 DEF StackTypeOK
    <3>3. world' = world \/ world' = [world EXCEPT ![r] = [world[r] EXCEPT ![Start.name] = Start.value]]
      BY <1>2 DEF EndBuild
    <3> QED BY <3>2, <3>3 DEF StackTypeOK
  <2> QED BY <2>1, <2>2, <2>3 DEF StackTypeOK, Requests, nodeVars, stackVars
<1>3. ASSUME NEW r \in Mine, NEW p \in Props, AskUpdate(r, p)
      PROVE  StackTypeOK'
  <2>1. Mine' = Mine /\ UNCHANGED nodeVars
    BY <1>3 DEF AskUpdate, Mine
  <2>2. request' \in [Mine -> Requests]
    <3>1. [for |-> "Update", todo |-> HandlerOf[r].Update] \in Requests
      BY MineTyped DEF Requests, Programs
    <3>2. request \in [Mine -> Requests]
      BY DEF StackTypeOK, Requests
    <3> QED BY <1>3, <3>1, <3>2 DEF AskUpdate
  <2>3. wanted' \in [Mine -> Props] /\ stack' \in Statuses
    BY <1>3 DEF AskUpdate, StackTypeOK, Statuses
  <2> QED BY <1>3, <2>1, <2>2, <2>3 DEF AskUpdate, StackTypeOK, Requests, nodeVars
<1>4. CASE Settle \/ DeleteStack
  <2>1. Mine' = Mine /\ UNCHANGED nodeVars
    BY <1>4 DEF Settle, DeleteStack, Mine
  <2>2. stack' \in Statuses
    BY <1>4 DEF Settle, DeleteStack, Statuses
  <2> QED BY <1>4, <2>1, <2>2 DEF Settle, DeleteStack, StackTypeOK, nodeVars
<1> QED BY <1>1, <1>2, <1>3, <1>4

\* And each step of an instance, or of an administrator.
LEMMA InstanceTyped ==
  ASSUME StackTypeOK, Instances \/ GenerateRootCA \/ \E n \in Node : Draining(n)
  PROVE  StackTypeOK'
<1> USE StackAssumption
<1>1. Mine' = Mine /\ UNCHANGED stackVars
  BY DEF Instances, GenerateRootCA, Draining, Launch, DownloadRoot, IssueCert, CallRegister,
         Register, Terminate, Cleanup, stackVars, Mine
<1>2. CASE GenerateRootCA
  <2>1. Start.name \in Name
    BY DEF Props
  <2>2. [world["rootCa"] EXCEPT ![Start.name] = "bare"] \in [Name -> Value \cup States]
    BY <1>2, <2>1 DEF StackTypeOK, States, GenerateRootCA
  <2>3. world' \in [Mine -> [Name -> Value \cup States]]
    BY <1>2, <2>2 DEF StackTypeOK, GenerateRootCA
  <2> QED BY <1>1, <1>2, <2>3 DEF StackTypeOK, GenerateRootCA, stackVars, nodeVars
<1>3. ASSUME NEW n \in Node, Launch(n) \/ CallRegister(n)
      PROVE  StackTypeOK'
  <2>1. node' \in [Node -> {"off", "booting", "rooted", "certified", "up", "stopped", "gone", "forgotten"}]
    <3>1. node \in [Node -> {"off", "booting", "rooted", "certified", "up", "stopped", "gone", "forgotten"}]
      BY DEF StackTypeOK
    <3> QED BY <1>3, <3>1 DEF Launch, CallRegister
  <2>2. entry' \in [Node -> {"none", "calling", "registered"}]
    BY <1>3 DEF StackTypeOK, Launch, CallRegister
  <2>3. UNCHANGED <<world, job, trust, cert>>
    BY <1>3 DEF Launch, CallRegister
  <2> QED BY <1>1, <2>1, <2>2, <2>3 DEF StackTypeOK, stackVars
<1>4. ASSUME NEW n \in Node, DownloadRoot(n) \/ IssueCert(n)
      PROVE  StackTypeOK'
  <2>1. trust' \in [Node -> Value \cup {"none"}] /\ cert' \in [Node -> Value \cup {"none"}]
    <3>1. trust \in [Node -> Value \cup {"none"}] /\ cert \in [Node -> Value \cup {"none"}]
      BY DEF StackTypeOK
    <3>2. DownloadRoot(n) =>
            cert' = cert /\ (trust' = trust \/ (Readable /\ trust' = [trust EXCEPT ![n] = Root]))
      BY DEF DownloadRoot
    <3>3. IssueCert(n) =>
            trust' = trust /\ (cert' = cert \/ (Readable /\ cert' = [cert EXCEPT ![n] = Root]))
      BY DEF IssueCert
    <3> QED BY <1>4, <3>1, <3>2, <3>3 DEF Readable
  <2>2. node' \in [Node -> {"off", "booting", "rooted", "certified", "up", "stopped", "gone", "forgotten"}]
    <3>1. node \in [Node -> {"off", "booting", "rooted", "certified", "up", "stopped", "gone", "forgotten"}]
      BY DEF StackTypeOK
    <3> QED BY <1>4, <3>1 DEF DownloadRoot, IssueCert
  <2>3. UNCHANGED <<world, job, entry>>
    BY <1>4 DEF DownloadRoot, IssueCert
  <2> QED BY <1>1, <2>1, <2>2, <2>3 DEF StackTypeOK, stackVars
<1>5. ASSUME NEW n \in Node, Register(n) \/ Terminate(n) \/ Cleanup(n)
      PROVE  StackTypeOK'
  <2>1. CASE Register(n)
    BY <1>1, <2>1 DEF StackTypeOK, Register, stackVars
  <2>2. CASE Terminate(n)
    BY <1>1, <2>2 DEF StackTypeOK, Terminate, stackVars
  <2>3. CASE Cleanup(n)
    <3>1. entry' \in [Node -> {"none", "calling", "registered"}]
      BY <2>3 DEF StackTypeOK, Cleanup
    <3>2. node' \in [Node -> {"off", "booting", "rooted", "certified", "up", "stopped", "gone", "forgotten"}]
      BY <2>3 DEF StackTypeOK, Cleanup
    <3>3. UNCHANGED <<world, job, trust, cert>>
      BY <2>3 DEF Cleanup
    <3> QED BY <1>1, <3>1, <3>2, <3>3 DEF StackTypeOK, stackVars
  <2> QED BY <1>5, <2>1, <2>2, <2>3
<1> QED BY <1>2, <1>3, <1>4, <1>5 DEF Instances, Draining

\* A step of the specification is one of these.
LEMMA StepCases ==
  ASSUME Next
  PROVE  \/ \E r \in Busy : HandlerProgress(r) \/ Fault(r)
         \/ \E r \in Mine : AskCreate(r) \/ AskDelete(r) \/ EndBuild(r)
         \/ \E r \in Mine \cap Change, p \in Props : AskUpdate(r, p)
         \/ Settle \/ DeleteStack
         \/ Instances \/ GenerateRootCA \/ \E n \in Node : Draining(n)
BY DEF Next, Progress

LEMMA StepTyped ==
  ASSUME StackTypeOK, [Next]_vars
  PROVE  StackTypeOK'
<1>1. CASE Next
  BY <1>1, StepCases, HandlerTyped, ManagerTyped, InstanceTyped DEF Busy
<1>2. CASE UNCHANGED vars
  BY <1>2 DEF vars, StackTypeOK, Mine
<1> QED BY <1>1, <1>2

\* The variables keep their types.
THEOREM StackTypeCorrect == Spec => []StackTypeOK
<1>1. Init => StackTypeOK
  BY StackAssumption DEF Init, StackTypeOK, Mine, Idle, Props, States, Statuses
<1> QED BY <1>1, StepTyped, PTL DEF Spec

----------------------------------------------------------------------------
(* The order of requests *)

\* What a resource needs, and what needs it, is in its stack.
LEMMA MineWithin ==
  ASSUME StackTypeOK, NEW r \in Mine
  PROVE  /\ Needs[r] \subseteq Mine /\ Dependents[r] \subseteq Mine
         /\ \A d \in Needs[r] : r \in Dependents[d]
         /\ \A u \in Dependents[r] : r \in Needs[u]
BY StackAssumption, NeedsWithin DEF StackTypeOK, Mine

\* A call changes neither what is asked for nor what exists.
LEMMA CallOrdered ==
  ASSUME StackTypeOK, StackIInv, NEW r \in Busy, Call(r)
  PROVE  StackIInv'
<1>1. /\ Mine' = Mine /\ UNCHANGED <<stack, has, node>>
  BY DEF Call, Mine, nodeVars
<1>2. \A x \in Mine : request'[x].for = request[x].for
  BY DEF Call, StackTypeOK, Busy
<1>3. Busy' = Busy
  BY <1>1, <1>2 DEF Busy
<1>4. RequestsFit' /\ KeptInOrder' /\ WholeUntilDeleted'
  <2>1. RequestsFit'
    BY <1>1, <1>2, <1>3 DEF StackIInv, RequestsFit, Busy
  <2>2. KeptInOrder'
    BY <1>1, <1>2, MineWithin DEF StackIInv, KeptInOrder
  <2> QED BY <1>1, <1>3, <2>1, <2>2 DEF StackIInv, WholeUntilDeleted
<1>5. DrainFirst'
  <2> SUFFICES ASSUME NEW n \in Node, Live(n)'
               PROVE  /\ "asgs" \in Mine /\ has["asgs"] = "exists"
                      /\ request'["asgs"].for = "Delete" => request'["asgs"].todo = <<"drain">>
    BY <1>1 DEF DrainFirst
  <2>1. Live(n)
    BY <1>1 DEF Live
  <2>2. /\ "asgs" \in Mine /\ has["asgs"] = "exists"
        /\ request["asgs"].for = "Delete" => request["asgs"].todo = <<"drain">>
    BY <2>1 DEF StackIInv, DrainFirst
  <2>3. ASSUME request["asgs"].for = "Delete" PROVE r # "asgs"
    <3>1. request["asgs"].todo = <<"drain">>
      BY <2>2, <2>3
    <3>2. Head(<<"drain">>) = "drain"
      OBVIOUS
    <3>3. Op("asgs") = "drain"
      BY <3>1, <3>2 DEF Op
    <3>4. Waits("asgs")
      BY <2>1, <3>3 DEF Waits
    <3> QED BY <3>4 DEF Call
  <2>4. r # "asgs" => request'["asgs"] = request["asgs"]
    BY <2>2 DEF Call, StackTypeOK
  <2> QED BY <1>2, <2>2, <2>3, <2>4
<1> QED BY <1>4, <1>5 DEF StackIInv

\* A handler that is through makes its resource exist, or not exist.
LEMMA AnswerOrdered ==
  ASSUME StackTypeOK, StackIInv, NEW r \in Busy, Answer(r)
  PROVE  StackIInv'
<1>1. Mine' = Mine /\ node' = node /\ r \in Mine /\ request[r].for # "none"
  BY DEF Answer, Mine, nodeVars, Busy
<1>2. request[r].for \in {"Create", "Update", "Delete"}
  BY <1>1 DEF StackTypeOK
<1>3. \A x \in Mine : request'[x] = IF x = r THEN Idle ELSE request[x]
  BY DEF Answer, StackTypeOK
<1>4. \A x \in Mine : has'[x] = IF x = r
                        THEN IF request[r].for = "Delete" THEN "absent" ELSE "exists"
                        ELSE has[x]
  BY DEF Answer, StackTypeOK
<1>5. Busy' = Busy \ {r} /\ Idle.for = "none"
  BY <1>1, <1>3 DEF Busy, Idle
<1>6. /\ request[r].for = "Update" => stack \in {"updating", "updateRollingBack"} /\ Busy = {r}
      /\ request[r].for # "Update" => stack' = stack /\ stack \notin Whole
  BY <1>1, <1>2 DEF StackIInv, RequestsFit, Busy, Answer, Whole, Complete
<1>7. stack' = stack \/ (request[r].for = "Update" /\ stack' \in Complete)
  BY <1>6 DEF Answer, Complete
<1>8. RequestsFit'
  BY <1>1, <1>3, <1>4, <1>5, <1>6, <1>7 DEF StackIInv, RequestsFit, Busy
<1>9. KeptInOrder'
  <2> SUFFICES ASSUME NEW x \in Mine
               PROVE  /\ has'[x] = "exists" \/ request'[x].for # "none" =>
                           \A d \in Needs[x] : has'[d] = "exists"
                      /\ request'[x].for = "Delete" =>
                           \A u \in Dependents[x] : has'[u] = "absent" /\ request'[u].for = "none"
    BY <1>1 DEF KeptInOrder
  <2>1. ASSUME has'[x] = "exists" \/ request'[x].for # "none", NEW d \in Needs[x]
        PROVE  has'[d] = "exists"
    <3>1. d \in Mine /\ x \in Dependents[d]
      BY MineWithin
    <3>2. has[x] = "exists" \/ request[x].for # "none"
      BY <1>1, <1>3, <1>4, <1>5, <2>1
    <3>3. has[d] = "exists"
      BY <3>2 DEF StackIInv, KeptInOrder
    <3>4. d = r => request[r].for # "Delete"
      BY <1>1, <2>1, <3>1, <3>2, <1>3, <1>4, <1>5 DEF StackIInv, KeptInOrder
    <3> QED BY <1>4, <3>1, <3>3, <3>4
  <2>2. ASSUME request'[x].for = "Delete", NEW u \in Dependents[x]
        PROVE  has'[u] = "absent" /\ request'[u].for = "none"
    <3>1. u \in Mine
      BY MineWithin
    <3>2. request[x].for = "Delete"
      BY <1>3, <1>5, <2>2
    <3>3. has[u] = "absent" /\ request[u].for = "none"
      BY <3>2 DEF StackIInv, KeptInOrder
    <3> QED BY <1>1, <1>3, <1>4, <3>1, <3>3
  <2> QED BY <2>1, <2>2
<1>10. WholeUntilDeleted'
  BY <1>1, <1>4, <1>5, <1>6, <1>7 DEF StackIInv, WholeUntilDeleted, Whole, Complete
<1>11. DrainFirst'
  <2> SUFFICES ASSUME NEW n \in Node, Live(n)'
               PROVE  /\ "asgs" \in Mine /\ has'["asgs"] = "exists"
                      /\ request'["asgs"].for = "Delete" => request'["asgs"].todo = <<"drain">>
    BY <1>1 DEF DrainFirst
  <2>1. /\ "asgs" \in Mine /\ has["asgs"] = "exists"
        /\ request["asgs"].for = "Delete" => request["asgs"].todo = <<"drain">>
    BY <1>1 DEF StackIInv, DrainFirst, Live
  <2>2. r = "asgs" => request["asgs"].for # "Delete"
    BY <2>1 DEF Answer, Calling
  <2> QED BY <1>3, <1>4, <1>5, <2>1, <2>2
<1> QED BY <1>8, <1>9, <1>10, <1>11 DEF StackIInv

\* A handler that throws leaves what exists alone.
LEMMA ThrowOrdered ==
  ASSUME StackTypeOK, StackIInv, NEW r \in Busy, NEW why, NEW wrote, Throw(r, why, wrote)
  PROVE  StackIInv'
<1>1. Mine' = Mine /\ has' = has /\ node' = node /\ r \in Mine /\ request[r].for # "none"
  BY DEF Throw, Mine, nodeVars, Busy
<1>2. request[r].for \in {"Create", "Update", "Delete"}
  BY <1>1 DEF StackTypeOK
<1>3. \A x \in Mine : x # r => request'[x] = request[x]
  BY DEF Throw, StackTypeOK
<1>4. request'[r].for = IF stack = "updating" THEN "Update" ELSE "none"
  BY <1>1 DEF Throw, StackTypeOK, Idle
<1>5. Busy' = IF stack = "updating" THEN Busy ELSE Busy \ {r}
  BY <1>1, <1>3, <1>4 DEF Busy
<1>6. /\ stack = "updating" => request[r].for = "Update" /\ stack' = "updateRollingBack"
      /\ stack = "updateRollingBack" => request[r].for = "Update" /\ stack' = "updateRollbackFailed"
      /\ request[r].for = "Update" => Busy = {r} /\ stack \in {"updating", "updateRollingBack"}
  BY <1>1, <1>2 DEF StackIInv, RequestsFit, Busy, Throw
<1>7. /\ request[r].for = "Create" => stack' = "rollingBack"
      /\ request[r].for = "Delete" => stack' \in {"rollbackFailed", "deleteFailed"}
  BY <1>1 DEF StackIInv, RequestsFit, Throw
<1>8. RequestsFit'
  BY <1>1, <1>2, <1>3, <1>4, <1>5, <1>6, <1>7 DEF StackIInv, RequestsFit, Busy
<1>9. KeptInOrder'
  <2>1. \A x \in Mine : /\ request'[x].for # "none" => request[x].for # "none"
                        /\ request'[x].for = "Delete" => request[x].for = "Delete"
    BY <1>1, <1>3, <1>4
  <2> QED BY <1>1, <2>1, MineWithin DEF StackIInv, KeptInOrder
<1>10. WholeUntilDeleted'
  <2>1. stack \notin Complete
    BY <1>1 DEF StackIInv, WholeUntilDeleted
  <2>2. stack' \notin Complete /\ (stack' \in Whole => stack \in Whole)
    BY <1>2, <1>6, <1>7 DEF Complete, Whole
  <2> QED BY <1>1, <2>2 DEF StackIInv, WholeUntilDeleted
<1>11. DrainFirst'
  <2>1. "asgs" \in Mine => (request'["asgs"].for = "Delete" => request'["asgs"] = request["asgs"])
    BY <1>3, <1>4
  <2> QED BY <1>1, <2>1 DEF StackIInv, DrainFirst, Live
<1> QED BY <1>8, <1>9, <1>10, <1>11 DEF StackIInv

\* CloudFormation asks for a resource once what it needs is there.
LEMMA AskCreateOrdered ==
  ASSUME StackTypeOK, StackIInv, NEW r \in Mine, AskCreate(r)
  PROVE  StackIInv'
<1>1. /\ Mine' = Mine /\ UNCHANGED <<stack, has, node>> /\ stack = "creating"
      /\ has[r] = "absent" /\ \A d \in Needs[r] : has[d] = "exists"
  BY DEF AskCreate, Mine, nodeVars
<1>2. /\ \A x \in Mine : x # r => request'[x] = request[x]
      /\ request'[r].for = "Create"
  BY DEF AskCreate, StackTypeOK
<1>3. Busy' = Busy \cup {r}
  BY <1>1, <1>2 DEF Busy
<1>4. \A u \in Busy : request[u].for = "Create"
  BY <1>1 DEF StackIInv, RequestsFit, Busy, StackTypeOK
<1>5. RequestsFit'
  BY <1>1, <1>2, <1>3, <1>4 DEF StackIInv, RequestsFit, Busy
<1>6. KeptInOrder'
  <2>1. \A x \in Mine : request'[x].for # "Delete"
    BY <1>2, <1>4 DEF Busy
  <2>2. \A x \in Mine : has[x] = "exists" \/ request'[x].for # "none" =>
          \A d \in Needs[x] : has[d] = "exists"
    BY <1>1, <1>2 DEF StackIInv, KeptInOrder
  <2> QED BY <1>1, <2>1, <2>2 DEF KeptInOrder
<1>7. WholeUntilDeleted'
  BY <1>1 DEF StackIInv, WholeUntilDeleted, Whole, Complete
<1>8. DrainFirst'
  BY <1>1, <1>2 DEF StackIInv, DrainFirst, Live
<1> QED BY <1>5, <1>6, <1>7, <1>8 DEF StackIInv

\* It has a resource deleted once nothing needs it.
LEMMA AskDeleteOrdered ==
  ASSUME StackTypeOK, StackIInv, NEW r \in Mine, AskDelete(r)
  PROVE  StackIInv'
<1>1. /\ Mine' = Mine /\ UNCHANGED <<stack, has, node>> /\ stack \in {"rollingBack", "deleting"}
      /\ has[r] = "exists" /\ \A u \in Dependents[r] : has[u] = "absent"
      /\ \A b \in Busy : request[b].for = "Delete"
  BY DEF AskDelete, Mine, nodeVars
<1>2. /\ \A x \in Mine : x # r => request'[x] = request[x]
      /\ request'[r] = [for |-> "Delete", todo |-> HandlerOf[r].Delete]
  BY DEF AskDelete, StackTypeOK
<1>3. Busy' = Busy \cup {r} /\ request'[r].for = "Delete"
  BY <1>1, <1>2 DEF Busy
<1>4. RequestsFit'
  BY <1>1, <1>2, <1>3 DEF StackIInv, RequestsFit, Busy
<1>5. KeptInOrder'
  <2>1. ASSUME NEW x \in Mine, has[x] = "exists" \/ request'[x].for # "none", NEW d \in Needs[x]
        PROVE  has[d] = "exists"
    BY <1>1, <1>2, <2>1 DEF StackIInv, KeptInOrder
  <2>2. ASSUME NEW x \in Mine, request'[x].for = "Delete", NEW u \in Dependents[x]
        PROVE  has[u] = "absent" /\ request'[u].for = "none"
    <3>1. u \in Mine
      BY MineWithin
    <3>2. has[u] = "absent"
      BY <1>1, <1>2, <2>2 DEF StackIInv, KeptInOrder
    <3>3. u # r /\ u \notin Busy
      BY <1>1, <3>1, <3>2 DEF StackIInv, RequestsFit, Busy
    <3> QED BY <1>2, <3>1, <3>2, <3>3 DEF Busy
  <2> QED BY <1>1, <2>1, <2>2 DEF KeptInOrder
<1>6. WholeUntilDeleted'
  BY <1>1 DEF StackIInv, WholeUntilDeleted, Whole, Complete
<1>7. DrainFirst'
  <2>1. "asgs" \in Mine => HandlerOf["asgs"].Delete = <<"drain">>
    BY GroupsDrain, StackAssumption, NeedsWithin DEF Mine, StackTypeOK
  <2> QED BY <1>1, <1>2, <2>1 DEF StackIInv, DrainFirst, Live
<1> QED BY <1>4, <1>5, <1>6, <1>7 DEF StackIInv

\* An update is asked for when nothing else is going on.
LEMMA AskUpdateOrdered ==
  ASSUME StackTypeOK, StackIInv, NEW r \in Mine, NEW p \in Props, AskUpdate(r, p)
  PROVE  StackIInv'
<1>1. /\ Mine' = Mine /\ UNCHANGED <<has, node>> /\ stack = "created" /\ stack' = "updating"
  BY DEF AskUpdate, Mine, nodeVars
<1>2. /\ \A x \in Mine : x # r => request'[x] = request[x]
      /\ request'[r].for = "Update"
  BY DEF AskUpdate, StackTypeOK
<1>3. Busy = {} /\ \A x \in Mine : has[x] = "exists"
  BY <1>1 DEF StackIInv, WholeUntilDeleted, Whole, Complete
<1>4. Busy' = {r} /\ \A x \in Mine : x # r => request'[x].for = "none"
  BY <1>1, <1>2, <1>3 DEF Busy
<1>5. RequestsFit'
  BY <1>1, <1>2, <1>3, <1>4 DEF RequestsFit
<1>6. KeptInOrder'
  BY <1>1, <1>2, <1>3, <1>4, MineWithin DEF KeptInOrder
<1>7. WholeUntilDeleted'
  BY <1>1, <1>3 DEF WholeUntilDeleted, Complete
<1>8. DrainFirst'
  BY <1>1, <1>2, <1>4 DEF StackIInv, DrainFirst, Live
<1> QED BY <1>5, <1>6, <1>7, <1>8 DEF StackIInv

\* The status changes when no handler is at work.
LEMMA StatusOrdered ==
  ASSUME StackTypeOK, StackIInv, Settle \/ DeleteStack
  PROVE  StackIInv'
<1>1. /\ Mine' = Mine /\ UNCHANGED <<has, request, node>> /\ Busy = {} /\ Busy' = {}
      /\ stack' \in Whole => \A x \in Mine : has[x] = "exists"
  BY DEF Settle, DeleteStack, Mine, nodeVars, Busy, Whole, Complete
<1>2. RequestsFit'
  BY <1>1 DEF RequestsFit, Busy
<1>3. KeptInOrder' /\ WholeUntilDeleted' /\ DrainFirst'
  BY <1>1 DEF StackIInv, KeptInOrder, WholeUntilDeleted, DrainFirst, Live
<1> QED BY <1>2, <1>3 DEF StackIInv

\* Instances and builds leave requests alone; an instance is launched by a group
\* that exists and is not being deleted.
LEMMA InstanceOrdered ==
  ASSUME StackTypeOK, StackIInv,
         \/ Instances \/ GenerateRootCA \/ \E n \in Node : Draining(n)
         \/ \E r \in Mine : EndBuild(r)
  PROVE  StackIInv'
<1>1. Mine' = Mine /\ UNCHANGED <<stack, has, request>> /\ Busy' = Busy
  BY DEF Instances, GenerateRootCA, Draining, EndBuild, Launch, DownloadRoot, IssueCert,
         CallRegister, Register, Terminate, Cleanup, stackVars, Mine, Busy
<1>2. RequestsFit' /\ KeptInOrder' /\ WholeUntilDeleted'
  BY <1>1 DEF StackIInv, RequestsFit, KeptInOrder, WholeUntilDeleted
<1>3. DrainFirst'
  <2>1. CASE \E n \in Node : Launch(n)
    BY <1>1, <2>1 DEF StackIInv, DrainFirst, Live, Launch
  <2>2. CASE \A n \in Node : Live(n)' => Live(n)
    BY <1>1, <2>2 DEF StackIInv, DrainFirst
  <2>3. ASSUME NEW n \in Node,
               \/ DownloadRoot(n) \/ IssueCert(n) \/ CallRegister(n)
               \/ Register(n) \/ Terminate(n) \/ Cleanup(n)
        PROVE  \A m \in Node : Live(m)' => Live(m)
    BY <2>3 DEF StackTypeOK, Live, DownloadRoot, IssueCert, CallRegister, Register, Terminate, Cleanup
  <2>4. GenerateRootCA \/ (\E r \in Mine : EndBuild(r)) => node' = node
    BY DEF GenerateRootCA, EndBuild, nodeVars
  <2> QED BY <2>1, <2>2, <2>3, <2>4 DEF Instances, Draining, Live
<1> QED BY <1>2, <1>3 DEF StackIInv

\* The inductive invariant: whatever the order of requests, failures and instances,
\* what a resource needs is there for as long as it is.
THEOREM StackInvariant == Spec => [](StackTypeOK /\ StackIInv)
<1>1. Init => StackIInv
  <2> SUFFICES ASSUME Init PROVE StackIInv
    OBVIOUS
  <2>1. /\ stack = "creating"
        /\ \A x \in Mine : has[x] = "absent" /\ request[x].for = "none"
        /\ \A n \in Node : ~Live(n)
    BY DEF Init, Idle, Live
  <2>2. RequestsFit /\ KeptInOrder
    BY <2>1 DEF RequestsFit, KeptInOrder
  <2>3. WholeUntilDeleted /\ DrainFirst
    BY <2>1 DEF WholeUntilDeleted, DrainFirst, Whole, Complete
  <2> QED BY <2>2, <2>3 DEF StackIInv
<1>2. StackTypeOK /\ StackIInv /\ [Next]_vars => StackIInv'
  <2> SUFFICES ASSUME StackTypeOK, StackIInv, [Next]_vars PROVE StackIInv'
    OBVIOUS
  <2>1. ASSUME NEW r \in Busy, HandlerProgress(r) \/ Fault(r)
        PROVE  StackIInv'
    <3>1. CASE Call(r) \/ Answer(r)
      BY <3>1, CallOrdered, AnswerOrdered
    <3>2. CASE Refuse(r) \/ TotalTimeout(r) \/ Fault(r)
      <4>1. \E why, wrote : Throw(r, why, wrote)
        BY <3>2, Zenon DEF Refuse, TotalTimeout, Fault
      <4> QED BY <4>1, ThrowOrdered
    <3> QED BY <2>1, <3>1, <3>2 DEF HandlerProgress
  <2>2. CASE Next
    BY <2>1, <2>2, StepCases, AskCreateOrdered, AskDeleteOrdered, AskUpdateOrdered,
       StatusOrdered, InstanceOrdered
  <2>3. CASE UNCHANGED vars
    BY <2>3 DEF vars, StackIInv, RequestsFit, KeptInOrder, WholeUntilDeleted, DrainFirst,
       Live, Busy, Mine
  <2> QED BY <2>2, <2>3
<1> QED BY <1>1, <1>2, StackTypeCorrect, PTL DEF Spec

\* While an instance runs, all that its set-up script calls is there.
THEOREM InstancesServed == Spec => []NodesServed
<1>1. StackTypeOK /\ StackIInv => NodesServed
  <2> SUFFICES ASSUME StackTypeOK, StackIInv, NEW n \in Node, Live(n) PROVE Served
    BY DEF NodesServed
  <2>1. "asgs" \in Mine /\ has["asgs"] = "exists"
    BY DEF StackIInv, DrainFirst
  <2>2. \A d \in Needs["asgs"] : has[d] = "exists"
    BY <2>1 DEF StackIInv, KeptInOrder
  <2>3. "asgs" \in AllResources
    BY <2>1, StackAssumption, NeedsWithin DEF Mine, StackTypeOK
  <2> QED BY <2>2, <2>3, ServingNeeded DEF Served
<1> QED BY <1>1, StackInvariant, PTL

----------------------------------------------------------------------------
(* The chain of certificates *)

\* How far the handlers of the root CA and of the load balancer's certificate are.
\* Neither lets itself be updated.
CertificatePrograms ==
  /\ \A r \in {"rootCa", "lbCert"} \cap Mine :
       props[r] = Start /\ (request[r].for = "Update" => request[r].todo = <<"refuse">>)
  /\ "rootCa" \in Mine =>
       /\ request["rootCa"].for = "Create" => request["rootCa"].todo \in {<<"add">>, << >>}
       /\ request["rootCa"].for = "Delete" => request["rootCa"].todo \in {<<"schedule">>, << >>}
  /\ "lbCert" \in Mine =>
       /\ request["lbCert"].for = "Create" => request["lbCert"].todo \in {<<"import">>, << >>}
       /\ request["lbCert"].for = "Delete" => request["lbCert"].todo = << >>

Imported ==
  \/ has["lbCert"] = "exists"
  \/ request["lbCert"].for = "Create" /\ request["lbCert"].todo = << >>

\* A certificate that was issued was issued by the root CA, as long as that can be
\* read; an instance has what its script has got to.
IssuedByRoot ==
  /\ "lbCert" \in Mine /\ Imported /\ Readable => world["lbCert"][Start.name] = Root
  /\ \A n \in Node :
       /\ node[n] \in {"off", "booting", "gone", "forgotten"} => trust[n] = "none" /\ cert[n] = "none"
       /\ node[n] = "rooted" => cert[n] = "none"
       /\ Live(n) /\ trust[n] # "none" /\ Readable => trust[n] = Root

LEMMA CertificateNeeds ==
  /\ "lbCert" \in AllResources => "rootCa" \in Needs["lbCert"]
  /\ "lb" \in AllResources => "lbCert" \in Needs["lb"]
  /\ "asgs" \in AllResources => "lb" \in Needs["asgs"]
<1>1. <<"lbCert", "rootCa">> \in Uses
  BY DEF Uses, ClusterProduct, Nested, DataPlane, ControlPlane
<1>2. <<"lb", "lbCert">> \in Uses /\ <<"asgs", "lb">> \in Uses
  BY DEF Uses, ClusterProduct, DataPlaneStack, SearchCluster, ClusterLb
<1>3. "rootCa" \in AllResources /\ "lbCert" \in AllResources /\ "lb" \in AllResources
  BY DEF AllResources, ResourcesOf, Templates, ControlPlane, DataPlane
<1> QED BY <1>1, <1>2, <1>3 DEF Needs

LEMMA CertificateHandlers ==
  /\ "rootCa" \in AllResources => HandlerOf["rootCa"] = RootCA
  /\ "lbCert" \in AllResources => HandlerOf["lbCert"] = LoadBalancerCertificate
BY OwnHandlers DEF Handler

\* While an instance runs, the root CA and the load balancer's certificate exist and
\* are neither made nor deleted.
LEMMA LiveCertificates ==
  ASSUME StackTypeOK, StackIInv, NEW n \in Node, Live(n)
  PROVE  \A r \in {"rootCa", "lbCert"} :
           r \in Mine /\ has[r] = "exists" /\ request[r].for \in {"none", "Update"}
<1>1. Mine \subseteq AllResources
  BY StackAssumption, NeedsWithin DEF Mine, StackTypeOK
<1>2. "asgs" \in Mine /\ has["asgs"] = "exists"
  BY DEF StackIInv, DrainFirst
<1>3. "lb" \in Mine /\ has["lb"] = "exists" /\ "lb" \in Needs["asgs"]
  BY <1>1, <1>2, CertificateNeeds, MineWithin DEF StackIInv, KeptInOrder
<1>4. "lbCert" \in Mine /\ has["lbCert"] = "exists" /\ "lb" \in Dependents["lbCert"]
  BY <1>1, <1>3, CertificateNeeds, MineWithin DEF StackIInv, KeptInOrder
<1>5. "rootCa" \in Mine /\ has["rootCa"] = "exists" /\ "lbCert" \in Dependents["rootCa"]
  BY <1>1, <1>4, CertificateNeeds, MineWithin DEF StackIInv, KeptInOrder
<1>6. request["lbCert"].for # "Delete" /\ request["rootCa"].for # "Delete"
  BY <1>3, <1>4, <1>5 DEF StackIInv, KeptInOrder
<1>7. request["lbCert"].for # "Create" /\ request["rootCa"].for # "Create"
  BY <1>4, <1>5 DEF StackIInv, RequestsFit
<1> QED BY <1>4, <1>5, <1>6, <1>7 DEF StackTypeOK

\* Each step keeps the handlers of the certificates to their programs.
LEMMA CertificateProgramsKept ==
  ASSUME StackTypeOK, StackIInv, CertificatePrograms, Next
  PROVE  CertificatePrograms'
<1> DEFINE Kept(r) ==
      /\ props'[r] = props[r]
      /\ \/ request'[r].for = "none" \/ request'[r] = request[r]
         \/ request'[r].for # "none" /\ request'[r].todo = HandlerOf[r][request'[r].for]
         \/ request'[r].for = request[r].for /\ request[r].todo # << >>
              /\ Head(request[r].todo) # "refuse" /\ request'[r].todo = Tail(request[r].todo)
<1>1. Mine' = Mine /\ Mine \subseteq AllResources
  <2>1. template' = template
    BY DEF Next, Progress, HandlerProgress, Call, Answer, Refuse, TotalTimeout, Throw, Fault,
       AskCreate, AskDelete, EndBuild, AskUpdate, Settle, DeleteStack, Instances, GenerateRootCA,
       Draining, Launch, DownloadRoot, IssueCert, CallRegister, Register, Terminate, Cleanup, stackVars
  <2> QED BY <2>1, StackAssumption, NeedsWithin DEF Mine, StackTypeOK
<1>2. ASSUME NEW x \in Busy, HandlerProgress(x) \/ Fault(x)
      PROVE  \A r \in {"rootCa", "lbCert"} \cap Mine : Kept(r)
  <2> SUFFICES ASSUME NEW r \in {"rootCa", "lbCert"} \cap Mine PROVE Kept(r)
    OBVIOUS
  <2>0. x \in Mine /\ request[x].for # "none"
    BY DEF Busy
  <2>1. CASE Call(x)
    <3>1. props' = props /\ (x # r => request'[r] = request[r])
      BY <2>1 DEF Call, StackTypeOK
    <3>2. request[x].todo # << >> /\ Head(request[x].todo) # "refuse"
      BY <2>1 DEF Call, Calling, Refused, Op
    <3>3. request'[x].for = request[x].for /\ request'[x].todo = Tail(request[x].todo)
      BY <2>0, <2>1 DEF Call, StackTypeOK
    <3> QED BY <3>1, <3>2, <3>3
  <2>2. CASE Answer(x)
    <3>1. x # r => request'[r] = request[r] /\ props'[r] = props[r]
      BY <2>2 DEF Answer, StackTypeOK
    <3>2. x = r => request'[r].for = "none"
      BY <2>2 DEF Answer, StackTypeOK, Idle
    <3>3. x = r => props'[r] = props[r]
      <4>1. ASSUME x = r PROVE request[r].for # "Update"
        BY <2>2, <4>1 DEF CertificatePrograms, Answer, Calling
      <4>2. ASSUME x = r PROVE stack # "updating"
        BY <2>0, <4>1, <4>2 DEF StackIInv, RequestsFit, StackTypeOK
      <4> QED BY <2>2, <4>2 DEF Answer, Want, StackTypeOK
    <3> QED BY <3>1, <3>2, <3>3
  <2>3. ASSUME NEW why, NEW wrote, Throw(x, why, wrote)
        PROVE  Kept(r)
    <3>1. props' = props /\ (x # r => request'[r] = request[r])
      BY <2>3 DEF Throw, StackTypeOK
    <3>2. x = r => request'[r] \in {[for |-> "Update", todo |-> HandlerOf[r].Update], Idle}
      BY <2>0, <2>3 DEF Throw, StackTypeOK
    <3> QED BY <3>1, <3>2 DEF Idle
  <2>4. Refuse(x) \/ TotalTimeout(x) \/ Fault(x) => \E why, wrote : Throw(x, why, wrote)
    BY Zenon DEF Refuse, TotalTimeout, Fault
  <2> HIDE DEF Kept
  <2> QED BY <1>2, <2>1, <2>2, <2>3, <2>4 DEF HandlerProgress
<1>3. ASSUME NEW x \in Mine, \/ AskCreate(x) \/ AskDelete(x) \/ EndBuild(x)
                             \/ \E p \in Props : AskUpdate(x, p)
      PROVE  \A r \in {"rootCa", "lbCert"} \cap Mine : Kept(r)
  BY <1>3 DEF AskCreate, AskDelete, EndBuild, AskUpdate, stackVars, StackTypeOK
<1>4. ASSUME Settle \/ DeleteStack \/ Instances \/ GenerateRootCA \/ \E n \in Node : Draining(n)
      PROVE  \A r \in {"rootCa", "lbCert"} \cap Mine : Kept(r)
  BY <1>4 DEF Settle, DeleteStack, Instances, GenerateRootCA, Draining, Launch, DownloadRoot,
     IssueCert, CallRegister, Register, Terminate, Cleanup, stackVars
<1>5. \A r \in {"rootCa", "lbCert"} \cap Mine : Kept(r)
  BY <1>2, <1>3, <1>4, StepCases
<1>6. /\ "rootCa" \in Mine => HandlerOf["rootCa"] = RootCA
      /\ "lbCert" \in Mine => HandlerOf["lbCert"] = LoadBalancerCertificate
  BY <1>1, CertificateHandlers
<1>7. /\ Tail(<<"refuse">>) = << >> /\ Head(<<"refuse">>) = "refuse" /\ Tail(<<"add">>) = << >>
      /\ Tail(<<"import">>) = << >> /\ Tail(<<"schedule">>) = << >>
  OBVIOUS
<1>8. ASSUME "rootCa" \in Mine
      PROVE  /\ props'["rootCa"] = Start
             /\ request'["rootCa"].for = "Update" => request'["rootCa"].todo = <<"refuse">>
             /\ request'["rootCa"].for = "Create" => request'["rootCa"].todo \in {<<"add">>, << >>}
             /\ request'["rootCa"].for = "Delete" => request'["rootCa"].todo \in {<<"schedule">>, << >>}
  <2>1. Kept("rootCa") /\ HandlerOf["rootCa"] = RootCA
    BY <1>5, <1>6, <1>8
  <2>2. /\ RootCA.Create = <<"add">> /\ RootCA.Update = <<"refuse">> /\ RootCA.Delete = <<"schedule">>
    BY DEF RootCA
  <2>3. CASE request'["rootCa"].for = "none" \/ request'["rootCa"] = request["rootCa"]
    BY <1>8, <2>1, <2>3 DEF CertificatePrograms
  <2>4. CASE request'["rootCa"].todo = RootCA[request'["rootCa"].for]
    BY <1>8, <2>1, <2>2, <2>4 DEF CertificatePrograms
  <2>5. CASE /\ request'["rootCa"].for = request["rootCa"].for /\ request["rootCa"].todo # << >>
             /\ Head(request["rootCa"].todo) # "refuse"
             /\ request'["rootCa"].todo = Tail(request["rootCa"].todo)
    BY <1>7, <1>8, <2>1, <2>5 DEF CertificatePrograms
  <2> QED BY <2>1, <2>3, <2>4, <2>5
<1>9. ASSUME "lbCert" \in Mine
       PROVE  /\ props'["lbCert"] = Start
              /\ request'["lbCert"].for = "Update" => request'["lbCert"].todo = <<"refuse">>
              /\ request'["lbCert"].for = "Create" => request'["lbCert"].todo \in {<<"import">>, << >>}
              /\ request'["lbCert"].for = "Delete" => request'["lbCert"].todo = << >>
  <2>1. Kept("lbCert") /\ HandlerOf["lbCert"] = LoadBalancerCertificate
    BY <1>5, <1>6, <1>9
  <2>2. /\ LoadBalancerCertificate.Create = <<"import">>
        /\ LoadBalancerCertificate.Update = <<"refuse">>
        /\ LoadBalancerCertificate.Delete = << >>
    BY DEF LoadBalancerCertificate
  <2>3. CASE request'["lbCert"].for = "none" \/ request'["lbCert"] = request["lbCert"]
    BY <1>9, <2>1, <2>3 DEF CertificatePrograms
  <2>4. CASE request'["lbCert"].todo = LoadBalancerCertificate[request'["lbCert"].for]
    BY <1>9, <2>1, <2>2, <2>4 DEF CertificatePrograms
  <2>5. CASE /\ request'["lbCert"].for = request["lbCert"].for /\ request["lbCert"].todo # << >>
             /\ Head(request["lbCert"].todo) # "refuse"
             /\ request'["lbCert"].todo = Tail(request["lbCert"].todo)
    BY <1>7, <1>9, <2>1, <2>5 DEF CertificatePrograms
  <2> QED BY <2>1, <2>3, <2>4, <2>5
<1> HIDE DEF Kept
<1> QED BY <1>1, <1>8, <1>9 DEF CertificatePrograms

\* A certificate is imported by the call that does it.
LEMMA ImportedByCall ==
  ASSUME StackTypeOK, StackIInv, CertificatePrograms, Next, "lbCert" \in Mine, Imported'
  PROVE  Imported \/ ("lbCert" \in Busy /\ Call("lbCert"))
<1>1. "lbCert" \in AllResources
  BY StackAssumption, NeedsWithin DEF Mine, StackTypeOK
<1>2. HandlerOf["lbCert"].Create = <<"import">>
  BY <1>1, CertificateHandlers DEF LoadBalancerCertificate
<1>3. ASSUME NEW x \in Busy, HandlerProgress(x) \/ Fault(x), ~Imported,
               ~("lbCert" \in Busy /\ Call("lbCert"))
      PROVE  FALSE
  <2>1. CASE Call(x)
    <3>1. x # "lbCert"
      BY <1>3, <2>1
    <3>2. has' = has /\ request'["lbCert"] = request["lbCert"]
      BY <2>1, <3>1 DEF Call, StackTypeOK
    <3> QED BY <1>3, <3>2 DEF Imported
  <2>2. CASE Answer(x)
    <3>1. x = "lbCert" => request["lbCert"].for \in {"Update", "Delete"} /\ request["lbCert"].todo = << >>
      BY <1>3, <2>2 DEF Answer, Calling, Imported, StackTypeOK, Busy
    <3>2. x = "lbCert" => request["lbCert"].for = "Delete"
      BY <3>1 DEF CertificatePrograms
    <3> QED BY <1>3, <2>2, <3>2 DEF Answer, Imported, StackTypeOK, Idle
  <2>3. ASSUME NEW why, NEW wrote, Throw(x, why, wrote)
        PROVE  FALSE
    BY <1>3, <2>3 DEF Throw, Imported, StackTypeOK, Idle
  <2>4. Refuse(x) \/ TotalTimeout(x) \/ Fault(x) => \E why, wrote : Throw(x, why, wrote)
    BY Zenon DEF Refuse, TotalTimeout, Fault
  <2> QED BY <1>3, <2>1, <2>2, <2>3, <2>4 DEF HandlerProgress
<1>4. ASSUME NEW x \in Mine, \/ AskCreate(x) \/ AskDelete(x) \/ EndBuild(x)
                             \/ \E p \in Props : AskUpdate(x, p)
      PROVE  Imported
  <2>1. has' = has
    BY <1>4 DEF AskCreate, AskDelete, EndBuild, AskUpdate, stackVars
  <2>2. \/ request'["lbCert"] = request["lbCert"]
        \/ request'["lbCert"].for # "Create"
        \/ request'["lbCert"].todo = <<"import">>
    BY <1>2, <1>4 DEF AskCreate, AskDelete, EndBuild, AskUpdate, stackVars, StackTypeOK
  <2> QED BY <2>1, <2>2 DEF Imported
<1>5. ASSUME Settle \/ DeleteStack \/ Instances \/ GenerateRootCA \/ \E n \in Node : Draining(n)
      PROVE  Imported
  BY <1>5 DEF Settle, DeleteStack, Instances, GenerateRootCA, Draining, Launch, DownloadRoot,
     IssueCert, CallRegister, Register, Terminate, Cleanup, stackVars, Imported
<1> QED BY <1>3, <1>4, <1>5, StepCases

\* What a call does to the root CA and to the load balancer's certificate.
LEMMA CertificateEffects ==
  ASSUME StackTypeOK, StackIInv, CertificatePrograms, NEW x \in Busy,
         Calling(x), ~Refused(x), Effect(x)
  PROVE  /\ x # "rootCa" /\ "rootCa" \in Mine => world'["rootCa"] = world["rootCa"]
         /\ x = "rootCa" => request["rootCa"].for \in {"Create", "Delete"}
         /\ x # "lbCert" /\ "lbCert" \in Mine => world'["lbCert"] = world["lbCert"]
         /\ x = "lbCert" =>
              /\ request["lbCert"].for = "Create"
              /\ Readable
              /\ world'["lbCert"][Start.name] = Root
<1>1. x \in Mine /\ request[x].for \in {"Create", "Update", "Delete"}
  BY DEF Busy, StackTypeOK
<1>2. \A r \in Mine : r # x => world'[r] = world[r]
  BY DEF Effect, StackTypeOK
<1>3. x \in {"rootCa", "lbCert"} => request[x].for # "Update"
  <2>1. Head(<<"refuse">>) = "refuse"
    OBVIOUS
  <2> QED BY <1>1, <2>1 DEF CertificatePrograms, Refused, Op
<1>4. ASSUME x = "lbCert"
      PROVE  /\ request["lbCert"].for = "Create"
             /\ Readable
             /\ world'["lbCert"][Start.name] = Root
  <2>1. request["lbCert"].for = "Create" /\ request["lbCert"].todo = <<"import">>
    BY <1>1, <1>3, <1>4 DEF CertificatePrograms, Calling
  <2>2. Head(<<"import">>) = "import"
    OBVIOUS
  <2>3. Op("lbCert") = "import"
    BY <2>1, <2>2 DEF Op
  <2>4. Readable
    BY <1>4, <2>3 DEF Refused
  <2>5. Left("lbCert") = Root
    BY <2>3 DEF Left
  <2>6. Want("lbCert") = Start
    BY <1>1, <1>4, <2>1 DEF Want, CertificatePrograms, StackIInv, RequestsFit
  <2>7. world["lbCert"] \in [Name -> Value \cup States] /\ Start.name \in Name
    BY <1>1, <1>4, StackAssumption DEF StackTypeOK, Props
  <2>8. world' = [world EXCEPT !["lbCert"] = [world["lbCert"] EXCEPT ![Start.name] = Root]]
    BY <1>4, <2>5, <2>6 DEF Effect
  <2> QED BY <1>1, <1>4, <2>1, <2>4, <2>7, <2>8 DEF StackTypeOK
<1> QED BY <1>1, <1>2, <1>3, <1>4

\* What a step of a handler does to them.
LEMMA CertificateSteps ==
  ASSUME StackTypeOK, StackIInv, CertificatePrograms, NEW x \in Busy,
         HandlerProgress(x) \/ Fault(x)
  PROVE  /\ UNCHANGED nodeVars /\ Mine' = Mine
         /\ "rootCa" \in Mine =>
              \/ world'["rootCa"] = world["rootCa"]
              \/ x = "rootCa" /\ request["rootCa"].for \in {"Create", "Delete"}
         /\ "lbCert" \in Mine =>
              \/ world'["lbCert"] = world["lbCert"]
              \/ /\ x = "lbCert" /\ request["lbCert"].for = "Create"
                 /\ Readable
                 /\ world'["lbCert"][Start.name] = Root
<1>1. UNCHANGED nodeVars /\ Mine' = Mine
  BY DEF HandlerProgress, Call, Answer, Refuse, TotalTimeout, Throw, Fault, Mine
<1>2. \/ Calling(x) /\ ~Refused(x) /\ Effect(x)
      \/ world' = world
  <2>1. CASE Call(x)
    BY <2>1 DEF Call
  <2>2. CASE Fault(x)
    BY <2>2, Zenon DEF Fault
  <2>3. CASE Answer(x) \/ Refuse(x) \/ TotalTimeout(x)
    BY <2>3 DEF Answer, Refuse, TotalTimeout
  <2> QED BY <2>1, <2>2, <2>3 DEF HandlerProgress
<1> QED BY <1>1, <1>2, CertificateEffects

\* An administrator's new root CA cannot be read, and neither instances nor
\* CloudFormation write what the certificates are made of.
LEMMA OtherSteps ==
  ASSUME StackTypeOK, Next, ~\E x \in Busy : HandlerProgress(x) \/ Fault(x)
  PROVE  /\ Mine' = Mine
         /\ "lbCert" \in Mine => world'["lbCert"] = world["lbCert"]
         /\ "rootCa" \in Mine => world'["rootCa"] = world["rootCa"] \/ ~Readable'
         /\ Instances \/ (\E n \in Node : Draining(n)) \/ UNCHANGED nodeVars
<1>1. CASE GenerateRootCA
  <2>1. Start.name \in Name /\ world["rootCa"] \in [Name -> Value \cup States]
    BY <1>1, StackAssumption DEF Props, GenerateRootCA, StackTypeOK
  <2>2. world'["rootCa"][Start.name] = "bare"
    BY <1>1, <2>1 DEF GenerateRootCA, StackTypeOK
  <2>3. "bare" \notin Value
    BY StackAssumption DEF States
  <2> QED BY <1>1, <2>2, <2>3 DEF GenerateRootCA, Readable, Root, StackTypeOK, stackVars, Mine
<1>2. CASE \E x \in Mine : EndBuild(x)
  BY <1>2 DEF EndBuild, StackTypeOK, stackVars, Mine
<1>3. CASE \/ \E x \in Mine : AskCreate(x) \/ AskDelete(x)
           \/ \E x \in Mine \cap Change, p \in Props : AskUpdate(x, p)
           \/ Settle \/ DeleteStack
  BY <1>3 DEF AskCreate, AskDelete, AskUpdate, Settle, DeleteStack, Mine
<1>4. CASE Instances \/ \E n \in Node : Draining(n)
  BY <1>4 DEF Instances, Draining, Launch, DownloadRoot, IssueCert, CallRegister, Register,
     Terminate, Cleanup, stackVars, Mine
<1> QED BY <1>1, <1>2, <1>3, <1>4, StepCases

\* An instance gets the certificates that the root CA has at the time.
LEMMA InstanceCertificates ==
  ASSUME StackTypeOK, StackIInv, IssuedByRoot, ChainHolds,
         Instances \/ \E n \in Node : Draining(n)
  PROVE  IssuedByRoot' /\ ChainHolds'
<1>1. Mine' = Mine /\ UNCHANGED <<has, request, world>>
  BY DEF Instances, Draining, Launch, DownloadRoot, IssueCert, CallRegister, Register,
     Terminate, Cleanup, stackVars, Mine
<1>2. Imported' = Imported /\ Readable' = Readable /\ Root' = Root
  BY <1>1 DEF Imported, Readable, Root
<1> DEFINE Sound(n) ==
      /\ node[n] \in {"off", "booting", "gone", "forgotten"} => trust[n] = "none" /\ cert[n] = "none"
      /\ node[n] = "rooted" => cert[n] = "none"
      /\ Live(n) /\ trust[n] # "none" /\ Readable => trust[n] = Root
      /\ Live(n) /\ trust[n] # "none" =>
           cert[n] \in {"none", trust[n]} /\ world["lbCert"][Start.name] = trust[n]
<1>3. \A n \in Node : Sound(n)
  BY DEF IssuedByRoot, ChainHolds
<1>4. ASSUME NEW m \in Node,
             \/ Launch(m) \/ DownloadRoot(m) \/ IssueCert(m) \/ CallRegister(m)
             \/ Register(m) \/ Terminate(m) \/ Cleanup(m),
             NEW n \in Node
      PROVE  Sound(n)'
  <2>1. n # m => node'[n] = node[n] /\ trust'[n] = trust[n] /\ cert'[n] = cert[n]
    BY <1>4 DEF Launch, DownloadRoot, IssueCert, CallRegister, Register, Terminate, Cleanup,
       StackTypeOK
  <2>2. CASE n # m \/ Register(m)
    <3>1. node'[n] = node[n] /\ trust'[n] = trust[n] /\ cert'[n] = cert[n]
      BY <2>1, <2>2 DEF Register
    <3> QED BY <1>1, <1>2, <1>3, <3>1 DEF Live
  <2>3. CASE n = m /\ (Launch(m) \/ CallRegister(m) \/ Cleanup(m))
    <3>1. trust'[n] = trust[n] /\ cert'[n] = cert[n]
      BY <2>3 DEF Launch, CallRegister, Cleanup
    <3>2. \/ node[n] = "off" /\ node'[n] = "booting"
          \/ node[n] = "certified" /\ node'[n] = "up"
          \/ node[n] = "gone" /\ node'[n] = "forgotten"
      BY <2>3 DEF Launch, CallRegister, Cleanup, StackTypeOK
    <3> QED BY <1>1, <1>2, <1>3, <3>1, <3>2 DEF Live
  <2>4. CASE n = m /\ DownloadRoot(m)
    <3>1. node[n] = "booting" /\ Live(n) /\ trust[n] = "none" /\ cert[n] = "none" /\ cert' = cert
      BY <1>3, <2>4 DEF DownloadRoot, Live
    <3>2. world["lbCert"][Start.name] = Root \/ ~Readable
      BY <3>1, LiveCertificates DEF IssuedByRoot, Imported
    <3>3. /\ node'[n] \in {"rooted", "stopped"}
          /\ trust'[n] = "none" \/ (Readable /\ trust'[n] = Root)
      BY <2>4, <3>1 DEF DownloadRoot, StackTypeOK
    <3> QED BY <1>1, <1>2, <3>1, <3>2, <3>3
  <2>5. CASE n = m /\ IssueCert(m)
    <3>1. node[n] = "rooted" /\ Live(n) /\ cert[n] = "none" /\ trust' = trust
      BY <1>3, <2>5 DEF IssueCert, Live
    <3>2. /\ node'[n] \in {"certified", "stopped"}
          /\ cert'[n] = "none" \/ (Readable /\ cert'[n] = Root)
      BY <2>5, <3>1 DEF IssueCert, StackTypeOK
    <3> QED BY <1>1, <1>2, <1>3, <3>1, <3>2
  <2>6. CASE n = m /\ Terminate(m)
    BY <2>6 DEF Terminate, Live, StackTypeOK
  <2> QED BY <1>4, <2>2, <2>3, <2>4, <2>5, <2>6
<1>5. \A n \in Node : Sound(n)'
  BY <1>4 DEF Instances, Draining
<1>6. "lbCert" \in Mine /\ Imported /\ Readable => world["lbCert"][Start.name] = Root
  BY DEF IssuedByRoot
<1> QED BY <1>1, <1>2, <1>5, <1>6 DEF IssuedByRoot, ChainHolds

\* A handler's step keeps the certificates as they should be: it makes or deletes the
\* root CA only while nothing was issued by it.
LEMMA HandlerCertificates ==
  ASSUME StackTypeOK, StackIInv, CertificatePrograms, IssuedByRoot, ChainHolds, Next,
         NEW x \in Busy, HandlerProgress(x) \/ Fault(x)
  PROVE  IssuedByRoot' /\ ChainHolds'
<1>1. Mine' = Mine /\ UNCHANGED <<node, trust, cert>>
  BY CertificateSteps DEF nodeVars
<1>2. Mine \subseteq AllResources
  BY StackAssumption, NeedsWithin DEF Mine, StackTypeOK
<1>3. ASSUME "lbCert" \in Mine, Imported'
      PROVE  "rootCa" \in Mine /\ world'["rootCa"] = world["rootCa"]
  <2>1. "rootCa" \in Mine /\ "lbCert" \in Dependents["rootCa"] /\ "rootCa" \in Needs["lbCert"]
    BY <1>2, <1>3, CertificateNeeds, MineWithin
  <2>2. has["lbCert"] = "exists" \/ request["lbCert"].for # "none"
    BY <1>3, ImportedByCall DEF Imported, Busy
  <2>3. has["rootCa"] = "exists" /\ request["rootCa"].for # "Delete"
    BY <1>3, <2>1, <2>2 DEF StackIInv, KeptInOrder, StackTypeOK
  <2>4. request["rootCa"].for # "Create"
    BY <2>1, <2>3 DEF StackIInv, RequestsFit
  <2> QED BY <2>1, <2>3, <2>4, CertificateSteps
<1>4. ASSUME "lbCert" \in Mine, Imported', Readable'
      PROVE  world'["lbCert"][Start.name] = Root'
  <2>1. Root' = Root /\ Readable
    BY <1>3, <1>4 DEF Root, Readable
  <2>2. CASE Imported
    <3>1. world["lbCert"][Start.name] = Root
      BY <1>4, <2>1, <2>2 DEF IssuedByRoot
    <3> QED BY <1>4, <2>1, <3>1, CertificateSteps
  <2>3. CASE "lbCert" \in Busy /\ Call("lbCert")
    BY <2>1, <2>3, CertificateEffects DEF Call
  <2> QED BY <1>4, <2>2, <2>3, ImportedByCall
<1>5. ASSUME NEW n \in Node, Live(n)
      PROVE  /\ Root' = Root
             /\ world'["lbCert"] = world["lbCert"]
  <2>1. \A r \in {"rootCa", "lbCert"} :
          r \in Mine /\ has[r] = "exists" /\ request[r].for \in {"none", "Update"}
    BY <1>5, LiveCertificates
  <2> QED BY <2>1, CertificateSteps DEF Root
<1>6. \A n \in Node : Live(n)' = Live(n)
  BY <1>1 DEF Live
<1>7. ASSUME NEW n \in Node
      PROVE  /\ node'[n] \in {"off", "booting", "gone", "forgotten"} =>
                  trust'[n] = "none" /\ cert'[n] = "none"
             /\ node'[n] = "rooted" => cert'[n] = "none"
             /\ Live(n)' /\ trust'[n] # "none" /\ Readable' => trust'[n] = Root'
             /\ Live(n)' /\ trust'[n] # "none" =>
                  cert'[n] \in {"none", trust'[n]} /\ world'["lbCert"][Start.name] = trust'[n]
  BY <1>1, <1>5, <1>6 DEF IssuedByRoot, ChainHolds, Readable
<1>8. IssuedByRoot'
  BY <1>1, <1>4, <1>7 DEF IssuedByRoot
<1>9. ChainHolds'
  BY <1>7 DEF ChainHolds
<1> QED BY <1>8, <1>9

\* A running instance, the root CA it trusts and the load balancer hold one chain,
\* whenever an administrator replaces the root CA.
THEOREM ChainCorrect == Spec => []ChainHolds
<1> DEFINE CInv == StackTypeOK /\ StackIInv /\ CertificatePrograms /\ IssuedByRoot /\ ChainHolds
<1>1. Init => CertificatePrograms /\ IssuedByRoot /\ ChainHolds
  BY DEF Init, Idle, CertificatePrograms, IssuedByRoot, Imported, ChainHolds, Live
<1>2. CInv /\ [Next]_vars /\ StackTypeOK' /\ StackIInv' =>
        CertificatePrograms' /\ IssuedByRoot' /\ ChainHolds'
  <2> SUFFICES ASSUME CInv, [Next]_vars
               PROVE  CertificatePrograms' /\ IssuedByRoot' /\ ChainHolds'
    OBVIOUS
  <2>1. CASE \E x \in Busy : Next /\ (HandlerProgress(x) \/ Fault(x))
    BY <2>1, HandlerCertificates, CertificateProgramsKept
  <2>2. CASE Next /\ (Instances \/ \E n \in Node : Draining(n))
    BY <2>2, InstanceCertificates, CertificateProgramsKept
  <2>3. CASE /\ Next /\ ~\E x \in Busy : HandlerProgress(x) \/ Fault(x)
             /\ ~(Instances \/ \E n \in Node : Draining(n))
    <3>1. /\ Mine' = Mine /\ UNCHANGED <<node, trust, cert>>
          /\ "lbCert" \in Mine => world'["lbCert"] = world["lbCert"]
          /\ "rootCa" \in Mine => world'["rootCa"] = world["rootCa"] \/ ~Readable'
      BY <2>3, OtherSteps DEF nodeVars
    <3>2. "lbCert" \in Mine => "rootCa" \in Mine
      <4>1. Mine \subseteq AllResources
        BY StackAssumption, NeedsWithin DEF Mine, StackTypeOK
      <4> QED BY <4>1, CertificateNeeds, MineWithin
    <3>3. "lbCert" \in Mine /\ Imported' /\ Readable' =>
            Imported /\ Readable /\ world'["lbCert"][Start.name] = Root'
      <4>1. "lbCert" \in Mine /\ Imported' => Imported
        BY <2>3, ImportedByCall DEF HandlerProgress
      <4> QED BY <3>1, <3>2, <4>1 DEF IssuedByRoot, Readable, Root
    <3>4. ASSUME NEW n \in Node, Live(n)
          PROVE  "lbCert" \in Mine /\ "rootCa" \in Mine
      BY <3>4, LiveCertificates
    <3>5. \A n \in Node : Live(n)' = Live(n)
      BY <3>1 DEF Live
    <3>6. IssuedByRoot'
      BY <3>1, <3>3, <3>4, <3>5 DEF IssuedByRoot, Readable, Root
    <3>7. ChainHolds'
      BY <3>1, <3>4, <3>5 DEF ChainHolds
    <3> QED BY <2>3, <3>6, <3>7, CertificateProgramsKept
  <2>4. CASE UNCHANGED vars
    BY <2>4 DEF vars, CertificatePrograms, IssuedByRoot, Imported, ChainHolds, Live, Readable,
       Root, Mine
  <2> QED BY <2>1, <2>2, <2>3, <2>4
<1> QED BY <1>1, <1>2, StackInvariant, PTL DEF Spec

=============================================================================

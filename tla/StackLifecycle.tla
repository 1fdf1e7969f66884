--------------------------- MODULE StackLifecycle ---------------------------
(***************************************************************************)
(* A stack of auto-os from its creation to its deletion: CloudFormation    *)
(* asks for its resources in the order their template gives, the handlers  *)
(* of ResourceHandlers make their calls, and whatever throws makes         *)
(* CloudFormation roll back. In the stack of a cluster, instances run      *)
(* their set-up scripts meanwhile, which ask the Maestro API for           *)
(* certificates, and an administrator may replace the root CA.             *)
(***************************************************************************)
EXTENDS StackTemplates, Naturals, Sequences, FiniteSets, Functions

CONSTANTS Template,    \* the templates stacks are made from
          Change,      \* the resources whose properties an update may change
          Name, Value, \* what a resource may be called and set to
          Start,       \* the properties every resource is created with
          Node,        \* the ids of instances
          MaxBusy,     \* how many handlers may be at work at once, by template
          MaxFaults    \* how many calls may fail in a behaviour

Props == [name : Name, value : Value]
States == {"absent", "other", "pending", "part", "bare"}

\* CloudFormation replaces a resource of its own that gets a new name, and a second
\* build of an image may run beside the first: neither kind of update is modelled.
ASSUME StackAssumption ==
  /\ Template \subseteq Templates
  /\ Change \subseteq DOMAIN Handler \ {"image"}
  /\ Start \in Props
  /\ MaxBusy \in [Templates -> Nat \ {0}]
  /\ MaxFaults \in Nat
  /\ Value \cap (States \cup {"none"}) = {}

VARIABLES
  template, \* the template of the stack
  stack,    \* the status of the stack
  has,      \* what CloudFormation knows of each resource
  request,  \* the request a handler is at work on, and the calls it has yet to make
  props,    \* the properties CloudFormation has on record
  wanted,   \* the properties an update asks for
  culprit,  \* what the last failure is due to: a resource, or a fault
  strays,   \* resources whose creation failed after it had written something
  faults,   \* calls that have failed
  world,    \* what there is under each name of a resource, in the service that keeps it
  job,      \* the build of a resource
  node,     \* how far the set-up script of an instance is
  trust,    \* the root CA an instance has downloaded
  cert,     \* the root CA that issued the certificate of an instance
  entry     \* its registration in Cloud Map

stackVars == <<template, stack, has, request, props, wanted, culprit, strays, faults>>
nodeVars == <<node, trust, cert, entry>>
vars == <<template, stack, has, request, props, wanted, culprit, strays, faults, world, job,
          node, trust, cert, entry>>

Mine == ResourcesOf[template]
Idle == [for |-> "none", todo |-> << >>]
Busy == {r \in Mine : request[r].for # "none"}

\* The properties a handler is called with.
Want(r) == IF stack = "updating" THEN wanted[r] ELSE props[r]

\* A secret holds a root CA its readers understand if the custom resource wrote
\* it: they look for a field that the administrator's command does not write.
Root == world["rootCa"][Start.name]
Readable == Root \in Value

\* SES takes mail by the rule set of the mailbox.
Activated == world["activator"][Start.name] \in Value

\* An account is made one after the other, and stays in its unit when the stack that
\* had it made is gone.
Enrolling(r) ==
  \E a \in Accounts \ {r} : request[a].for = "Create" /\ request[a].todo = <<"lookup">>
Occupied == \E a \in Accounts : world[a][Start.name] \in Value

\* Another stack in the account, or one that was there, may hold the names that
\* do not tell stacks apart.
Init ==
  /\ template \in Template
  /\ stack = "creating"
  /\ has = [r \in Mine |-> "absent"]
  /\ request = [r \in Mine |-> Idle]
  /\ props = [r \in Mine |-> Start]
  /\ wanted = props
  /\ culprit = "none"
  /\ strays = {}
  /\ faults = 0
  /\ \E taken \in SUBSET (Unprefixed \cap Mine) :
       world = [r \in Mine |-> [n \in Name |-> IF r \in taken THEN "other" ELSE "absent"]]
  /\ job = [r \in Mine |-> "none"]
  /\ node = [n \in Node |-> "off"]
  /\ trust = [n \in Node |-> "none"]
  /\ cert = [n \in Node |-> "none"]
  /\ entry = [n \in Node |-> "none"]

----------------------------------------------------------------------------
(* Calls of the handlers *)

Op(r) == Head(request[r].todo)
Calling(r) == request[r].todo # << >>
Live(n) == node[n] \in {"booting", "rooted", "certified", "up", "stopped"}

\* A build that was stopped, or that timed out, is neither succeeded nor failed
\* to the handler that polls: it goes on asking.
Waits(r) ==
  \/ Op(r) \in {"poll", "await"} /\ job[r] = "running"
  \/ Op(r) = "poll" /\ job[r] = "stopped"
  \/ Op(r) = "drain" /\ \E n \in Node : Live(n)

Refused(r) ==
  \/ Op(r) = "refuse"
  \/ Op(r) \in {"add", "enroll"} /\ world[r][Want(r).name] # "absent"
  \/ Op(r) = "enroll" /\ Enrolling(r)
  \/ Op(r) = "vacate" /\ Occupied
  \/ Op(r) \in {"remove", "schedule"} /\ world[r][Want(r).name] = "absent"
  \/ Op(r) = "verify" /\ has["repoAccess"] # "exists"
  \/ Op(r) = "import" /\ ~Readable
  \/ Op(r) = "empty" /\ \E n \in Node : entry[n] = "registered"
  \/ Op(r) = "retire" /\ Activated
  \/ Op(r) = "poll" /\ job[r] = "failed"
  \/ Op(r) = "await" /\ job[r] \in {"failed", "stopped"}

\* What a call leaves under the name it is for.
Left(r) ==
  CASE Op(r) \in {"put", "add", "enroll"} -> Want(r).value
    [] Op(r) \in {"remove", "empty", "drain", "retire", "vacate"} -> "absent"
    [] Op(r) = "schedule" -> "pending"
    [] Op(r) = "import" -> Root
    [] Op(r) = "some" -> "part"
    [] OTHER -> world[r][Want(r).name]

Effect(r) ==
  /\ world' = [world EXCEPT ![r] = [@ EXCEPT ![Want(r).name] = Left(r)]]
  /\ job' = [job EXCEPT ![r] = IF Op(r) = "build" THEN "running" ELSE @]

Call(r) ==
  /\ Calling(r)
  /\ ~Waits(r)
  /\ ~Refused(r)
  /\ Effect(r)
  /\ request' = [request EXCEPT ![r].todo = Tail(@)]
  /\ UNCHANGED <<template, stack, has, props, wanted, culprit, strays, faults, nodeVars>>

\* The handler is through.
Answer(r) ==
  /\ ~Calling(r)
  /\ request' = [request EXCEPT ![r] = Idle]
  /\ has' = [has EXCEPT ![r] = IF request[r].for = "Delete" THEN "absent" ELSE "exists"]
  /\ props' = [props EXCEPT ![r] = Want(r)]
  /\ stack' = CASE stack = "updating" -> "updated"
                [] stack = "updateRollingBack" -> "updateRolledBack"
                [] OTHER -> stack
  /\ UNCHANGED <<template, wanted, culprit, strays, faults, world, job, nodeVars>>

\* The handler throws, or appears to, for a reason. What was not created is not
\* deleted either: the provider framework does not call the handler for it. After
\* an update CloudFormation asks for the old properties again.
Throw(r, why, wrote) ==
  /\ request' = [request EXCEPT ![r] =
                   IF stack = "updating"
                   THEN [for |-> "Update", todo |-> HandlerOf[r].Update] ELSE Idle]
  /\ stack' = CASE stack = "creating" -> "rollingBack"
                [] stack = "updating" -> "updateRollingBack"
                [] stack = "updateRollingBack" -> "updateRollbackFailed"
                [] stack = "rollingBack" /\ request[r].for = "Delete" -> "rollbackFailed"
                [] stack = "deleting" -> "deleteFailed"
                [] OTHER -> stack
  /\ culprit' = why
  /\ strays' = IF request[r].for = "Create" /\ wrote THEN strays \cup {r} ELSE strays
  /\ UNCHANGED <<template, has, props, wanted, nodeVars>>

Begun(r) == Len(request[r].todo) < Len(HandlerOf[r][request[r].for])

Refuse(r) ==
  /\ Calling(r)
  /\ Refused(r)
  /\ Throw(r, r, Begun(r))
  /\ UNCHANGED <<faults, world, job>>

\* A call that fails, or one that is made and whose answer is lost.
Fault(r) ==
  /\ faults < MaxFaults
  /\ Calling(r)
  /\ ~Waits(r)
  /\ ~Refused(r)
  /\ faults' = faults + 1
  /\ \/ Throw(r, "fault", Begun(r)) /\ UNCHANGED <<world, job>>
     \/ r \in DOMAIN Handler /\ Throw(r, "fault", TRUE) /\ Effect(r)

(* Mutant: no limit is set for the time a build may take.                  *)
TotalTimeoutUnset(r) == FALSE

\* The provider framework stops asking before the build has come to its own limit.
TotalTimeout(r) ==
  /\ Calling(r)
  /\ Op(r) = "poll"
  /\ job[r] \in {"running", "stopped"}
  /\ Throw(r, r, TRUE)
  /\ UNCHANGED <<faults, world, job>>

EndBuild(r) ==
  /\ job[r] = "running"
  /\ \E end \in {"succeeded", "failed", "stopped"} :
       /\ job' = [job EXCEPT ![r] = end]
       /\ world' = IF r = "image" /\ end = "succeeded"
                   THEN [world EXCEPT ![r] = [@ EXCEPT ![Start.name] = Start.value]] ELSE world
  /\ UNCHANGED <<stackVars, nodeVars>>

----------------------------------------------------------------------------
(* CloudFormation *)

AskCreate(r) ==
  /\ stack = "creating"
  /\ has[r] = "absent"
  /\ request[r].for = "none"
  /\ \A d \in Needs[r] : has[d] = "exists"
  /\ Cardinality(Busy) < MaxBusy[template]
  /\ request' = [request EXCEPT ![r] = [for |-> "Create", todo |-> HandlerOf[r].Create]]
  /\ UNCHANGED <<template, stack, has, props, wanted, culprit, strays, faults, world, job, nodeVars>>

(* Mutant: a resource is deleted whatever still refers to it.              *)
AskDeleteAnyOrder(r) ==
  /\ stack \in {"rollingBack", "deleting"}
  /\ has[r] = "exists"
  /\ request[r].for = "none"
  /\ \A b \in Busy : request[b].for = "Delete"
  /\ Cardinality(Busy) < MaxBusy[template]
  /\ request' = [request EXCEPT ![r] = [for |-> "Delete", todo |-> HandlerOf[r].Delete]]
  /\ UNCHANGED <<template, stack, has, props, wanted, culprit, strays, faults, world, job, nodeVars>>

\* Deletion begins when nothing is being created any more.
AskDelete(r) ==
  /\ stack \in {"rollingBack", "deleting"}
  /\ has[r] = "exists"
  /\ request[r].for = "none"
  /\ \A b \in Busy : request[b].for = "Delete"
  /\ \A u \in Dependents[r] : has[u] = "absent"
  /\ Cardinality(Busy) < MaxBusy[template]
  /\ request' = [request EXCEPT ![r] = [for |-> "Delete", todo |-> HandlerOf[r].Delete]]
  /\ UNCHANGED <<template, stack, has, props, wanted, culprit, strays, faults, world, job, nodeVars>>

AskUpdate(r, p) ==
  /\ stack = "created"
  /\ p # props[r]
  /\ stack' = "updating"
  /\ wanted' = [wanted EXCEPT ![r] = p]
  /\ request' = [request EXCEPT ![r] = [for |-> "Update", todo |-> HandlerOf[r].Update]]
  /\ UNCHANGED <<template, has, props, culprit, strays, faults, world, job, nodeVars>>

Settle ==
  /\ Busy = {}
  /\ \/ /\ stack = "creating"
        /\ \A r \in Mine : has[r] = "exists"
        /\ stack' = "created"
     \/ /\ stack \in {"rollingBack", "deleting"}
        /\ \A r \in Mine : has[r] = "absent"
        /\ stack' = IF stack = "deleting" THEN "deleted" ELSE "rolledBack"
  /\ UNCHANGED <<template, has, request, props, wanted, culprit, strays, faults, world, job, nodeVars>>

DeleteStack ==
  /\ stack \in {"created", "updated", "updateRolledBack", "updateRollbackFailed",
                "rollbackFailed", "deleteFailed"}
  /\ Busy = {}
  /\ stack' = "deleting"
  /\ UNCHANGED <<template, has, request, props, wanted, culprit, strays, faults, world, job, nodeVars>>

----------------------------------------------------------------------------
(* Instances of a cluster *)

\* What the set-up scripts of instances rely on.
Serving == {"apiEndpoint", "apiFunc", "rootCa", "service", "bus", "queue", "broadcast"}
Served == \A s \in Serving : has[s] = "exists"

Launch(n) ==
  /\ "asgs" \in Mine
  /\ has["asgs"] = "exists"
  /\ request["asgs"].for = "none"
  /\ node[n] = "off"
  /\ node' = [node EXCEPT ![n] = "booting"]
  /\ UNCHANGED <<stackVars, world, job, trust, cert, entry>>

(* Mutant: the client takes whatever the secret holds for a certificate.   *)
DownloadRootUnparsed(n) ==
  /\ node[n] = "booting"
  /\ node' = [node EXCEPT ![n] = "rooted"]
  /\ trust' = [trust EXCEPT ![n] = Root]
  /\ UNCHANGED <<stackVars, world, job, cert, entry>>

\* After a call that failed, bootstrapper-setup.sh stops and node-setup.sh goes on.
DownloadRoot(n) ==
  /\ node[n] = "booting"
  /\ \/ /\ Served /\ Readable
        /\ node' = [node EXCEPT ![n] = "rooted"]
        /\ trust' = [trust EXCEPT ![n] = Root]
     \/ /\ ~(Served /\ Readable)
        /\ \E next \in {"rooted", "stopped"} : node' = [node EXCEPT ![n] = next]
        /\ UNCHANGED trust
  /\ UNCHANGED <<stackVars, world, job, cert, entry>>

IssueCert(n) ==
  /\ node[n] = "rooted"
  /\ \/ /\ Served /\ Readable
        /\ node' = [node EXCEPT ![n] = "certified"]
        /\ cert' = [cert EXCEPT ![n] = Root]
     \/ /\ ~(Served /\ Readable)
        /\ \E next \in {"certified", "stopped"} : node' = [node EXCEPT ![n] = next]
        /\ UNCHANGED cert
  /\ UNCHANGED <<stackVars, world, job, trust, entry>>

CallRegister(n) ==
  /\ node[n] = "certified"
  /\ node' = [node EXCEPT ![n] = "up"]
  /\ entry' = [entry EXCEPT ![n] = "calling"]
  /\ UNCHANGED <<stackVars, world, job, trust, cert>>

\* The registration reaches Cloud Map, whatever has become of the instance.
Register(n) ==
  /\ entry[n] = "calling"
  /\ entry' = [entry EXCEPT ![n] = IF has["service"] = "exists" THEN "registered" ELSE "none"]
  /\ UNCHANGED <<stackVars, world, job, node, trust, cert>>

Terminate(n) ==
  /\ Live(n)
  /\ node' = [node EXCEPT ![n] = "gone"]
  /\ trust' = [trust EXCEPT ![n] = "none"]
  /\ cert' = [cert EXCEPT ![n] = "none"]
  /\ UNCHANGED <<stackVars, world, job, entry>>

\* The clean-up deregisters a terminated instance, or gives up if it is not
\* registered.
Cleanup(n) ==
  /\ node[n] = "gone"
  /\ has["cleanup"] = "exists"
  /\ node' = [node EXCEPT ![n] = "forgotten"]
  /\ entry' = [entry EXCEPT ![n] = IF @ = "registered" THEN "none" ELSE @]
  /\ UNCHANGED <<stackVars, world, job, trust, cert>>

(* Mutant: the new root CA is stored the way its readers expect.           *)
GenerateRootCAReadable ==
  /\ "rootCa" \in Mine
  /\ Readable
  /\ \E v \in Value : world' = [world EXCEPT !["rootCa"] = [@ EXCEPT ![Start.name] = v]]
  /\ UNCHANGED <<stackVars, job, nodeVars>>

\* An administrator has a new root CA made.
GenerateRootCA ==
  /\ "rootCa" \in Mine
  /\ Readable
  /\ world' = [world EXCEPT !["rootCa"] = [@ EXCEPT ![Start.name] = "bare"]]
  /\ UNCHANGED <<stackVars, job, nodeVars>>

----------------------------------------------------------------------------
HandlerProgress(r) == Call(r) \/ Answer(r) \/ Refuse(r) \/ TotalTimeout(r)

Draining(n) == "asgs" \in Mine /\ request["asgs"].for = "Delete" /\ Terminate(n)

Progress ==
  \/ \E r \in Busy : HandlerProgress(r)
  \/ \E r \in Mine : AskCreate(r) \/ AskDelete(r) \/ EndBuild(r)
  \/ Settle
  \/ \E n \in Node : Draining(n)

Instances ==
  \E n \in Node :
    \/ Launch(n) \/ DownloadRoot(n) \/ IssueCert(n) \/ CallRegister(n)
    \/ Register(n) \/ Terminate(n) \/ Cleanup(n)

Next ==
  \/ Progress
  \/ \E r \in Busy : Fault(r)
  \/ \E r \in Mine \cap Change, p \in Props : AskUpdate(r, p)
  \/ DeleteStack
  \/ Instances
  \/ GenerateRootCA

Spec == Init /\ [][Next]_vars
FairSpec == Spec /\ WF_vars(Progress)

----------------------------------------------------------------------------
(* Properties *)

Statuses ==
  {"creating", "created", "rollingBack", "rolledBack", "rollbackFailed",
   "updating", "updated", "updateRollingBack", "updateRolledBack", "updateRollbackFailed",
   "deleting", "deleted", "deleteFailed"}
InProgress == {"creating", "rollingBack", "updating", "updateRollingBack", "deleting"}
Complete == {"created", "updated", "updateRolledBack"}
Whole == Complete \cup {"updating", "updateRollingBack", "updateRollbackFailed"}

\* The values of the variables.
StackTypeOK ==
  /\ template \in Template
  /\ stack \in Statuses
  /\ has \in [Mine -> {"absent", "exists"}]
  /\ request \in [Mine -> [for : {"none", "Create", "Update", "Delete"}, todo : Seq(Calls)]]
  /\ props \in [Mine -> Props] /\ wanted \in [Mine -> Props]
  /\ culprit \in Mine \cup {"none", "fault"}
  /\ strays \subseteq Mine
  /\ faults \in 0..MaxFaults
  /\ world \in [Mine -> [Name -> Value \cup States]]
  /\ job \in [Mine -> {"none", "running", "succeeded", "failed", "stopped"}]
  /\ node \in [Node -> {"off", "booting", "rooted", "certified", "up", "stopped", "gone", "forgotten"}]
  /\ trust \in [Node -> Value \cup {"none"}] /\ cert \in [Node -> Value \cup {"none"}]
  /\ entry \in [Node -> {"none", "calling", "registered"}]

\* Each kind of request belongs to some statuses of the stack, and is made of a
\* resource that does not exist yet, or does. Requests at work together are of one
\* kind, and there is one update at a time.
RequestsFit ==
  \A r \in Mine :
    /\ request[r].for = "Create" => has[r] = "absent" /\ stack \in {"creating", "rollingBack"}
    /\ request[r].for = "Update" =>
         has[r] = "exists" /\ stack \in {"updating", "updateRollingBack"}
    /\ request[r].for = "Delete" =>
         /\ has[r] = "exists"
         /\ stack \in {"rollingBack", "rollbackFailed", "deleting", "deleteFailed"}
    /\ request[r].for # "none" =>
         \A u \in Busy : request[u].for = request[r].for /\ (request[u].for = "Update" => u = r)

\* A resource that exists, or is being made, has all that it needs; one that is
\* being deleted is needed by nothing that exists or is being made.
KeptInOrder ==
  \A r \in Mine :
    /\ has[r] = "exists" \/ request[r].for # "none" => \A d \in Needs[r] : has[d] = "exists"
    /\ request[r].for = "Delete" =>
         \A u \in Dependents[r] : has[u] = "absent" /\ request[u].for = "none"

\* A stack that was created has all its resources until its deletion begins.
WholeUntilDeleted ==
  /\ stack \in Whole => \A r \in Mine : has[r] = "exists"
  /\ stack \in Complete => Busy = {}

\* Instances belong to groups, which are not deleted before them.
DrainFirst ==
  \A n \in Node : Live(n) =>
    /\ "asgs" \in Mine
    /\ has["asgs"] = "exists"
    /\ request["asgs"].for = "Delete" => request["asgs"].todo = <<"drain">>

\* Whatever the order in which a stack's resources are made, rolled back and
\* deleted, none is left without what its template makes it refer to, and no
\* group without its instances.
StackIInv ==
  /\ RequestsFit
  /\ KeptInOrder
  /\ WholeUntilDeleted
  /\ DrainFirst

\* While an instance runs, what its set-up script calls is there: the API with
\* its root CA, the discovery service, the bus and its topic (the user data of
\* SetupUserData.ts, the order of the nested stacks of ClusterCatalogProductStack.ts).
NodesServed == \A n \in Node : Live(n) => Served

\* Once a stack is created, updated or back from an update, what each resource has
\* in its service is what CloudFormation has on record for it. The root CA is
\* replaced behind its back, and three resources do nothing when they are updated:
\* for those the record is wrong (DelegatedServiceAdmin.ts, AutoOsOrgPortfolio.ts,
\* trusted_svc_enabler.py).
Quiet == {"delegation", "share", "services"}
Written ==
  {r \in Mine \ {"rootCa"} : {"put", "add", "enroll", "poll"} \cap Range(HandlerOf[r].Create) # {}}
CompleteMatches ==
  stack \in Complete =>
    \A r \in Written :
      \/ world[r][props[r].name] = props[r].value
      \/ r \in Quiet /\ stack = "updated"

\* A stack that was rolled back or deleted has left nothing behind, except for what
\* its handlers never delete and what a handler wrote before its creation failed.
\* The name of the root CA's secret stays taken.
Leaky ==
  {"param", "services", "lbCert", "image", "bakedImage", "activator", "key", "bucket", "amiKey",
   "orgKey", "mailBucket", "mailLog", "rootCaLog", "lbCertLog", "versionAssets"} \cup Accounts
LeavesNothing ==
  stack \in {"rolledBack", "deleted"} =>
    \A r \in Mine \ (Leaky \cup strays) : \A n \in Name :
      world[r][n] \in {"absent", "other"} \cup (IF r = "rootCa" THEN {"pending"} ELSE {})

\* If no call fails, an operation on a stack fails only for these reasons: a name
\* another stack has, a repository made before its bucket may be used, a build that
\* did not succeed, a load balancer's certificate asked for after the root CA was
\* replaced, two accounts asked for at once; a handler that refuses updates, or a
\* repository or policy that was to be renamed; and an instance still registered
\* when its service is deleted, a rule set that nothing has taken the mailbox's mail
\* from, a unit that accounts are in, or a resource whose update did nothing.
Creatable(r) ==
  /\ r \in Unprefixed => world[r][Start.name] \in {"absent", Start.value}
  /\ r \notin {"repo", "image", "invocation"} \cup Accounts
  /\ r = "lbCert" => Readable
FailureExplained ==
  faults = 0 =>
    /\ stack \in {"rollingBack", "rolledBack"} => ~Creatable(culprit)
    /\ stack \in {"updateRollingBack", "updateRolledBack"} =>
         \/ HandlerOf[culprit].Update = <<"refuse">>
         \/ culprit \in {"repo", "policy"} /\ wanted[culprit].name # props[culprit].name
    /\ stack = "updateRollbackFailed" => HandlerOf[culprit].Update = <<"refuse">>
    /\ stack \in {"rollbackFailed", "deleteFailed"} =>
         \/ culprit = "service" /\ \E n \in Node : entry[n] = "registered"
         \/ culprit = "ruleSet" /\ Activated
         \/ culprit = "managementOu" /\ Occupied
         \/ HandlerOf[culprit].Update = << >> /\ props[culprit] # Start

\* The root CA that a running instance trusts is the one that issued its own
\* certificate and the load balancer's (certs/Utils.go and GenerateRootCA.go: the
\* command that replaces the root CA may run between the two calls).
ChainHolds ==
  \A n \in Node : Live(n) /\ trust[n] # "none" =>
    /\ cert[n] \in {"none", trust[n]}
    /\ world["lbCert"][Start.name] = trust[n]

\* Every operation on a stack comes to an end, even if a build never reports one.
OperationsEnd == stack \in InProgress ~> stack \notin InProgress

\* After a new root CA was made, the cluster that holds it can still read it.
CurrentRootReadable ==
  (stack = "created" /\ "rootCa" \in Mine) => Readable

=============================================================================

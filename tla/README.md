# auto-os, modelled in TLA+

auto-os runs managed OpenSearch clusters on AWS. This directory holds TLA+
models of the parts of it where several actors meet, TLC configurations that
check them on small instances, and proofs that TLAPS checks. Paths below are
relative to the repository (`src/` in `PROJECT.json`).

## The system

| Part | Code | State it keeps | Operations |
|---|---|---|---|
| Bootstrapping workflow | `maestro/bootstrapping-workflow` | where a run is, what its tracker has matched | discover the groups, safety checks, launch a role and wait for its nodes, declare the launch, retire the bootstrapper, refresh |
| Data plane | `infra-constructs/aos-cluster-constructs/src/dataPlane` | desired capacities, instances, their set-up scripts | launch, replace, refresh, run `bootstrapper-setup.sh` or `node-setup.sh` |
| Maestro actions | `maestro/actions`, behind `maestro/lambda` and `maestro/client-cli` | the cluster mode in SSM, Cloud Map, the event bus | `specialize-os-conf`, `register-instance`, `signal-init-fail`, `set-cluster-mode`, `reset` |
| Discovery clean-up | `handlers/disco-cleanup` | Cloud Map | deregister a terminated instance |
| Event bus and forwarder | `controlPlane/EventNotifications.ts`, `handlers/event-forwarder` | queues, log group | copy events to the log group; turn queue messages and EC2 notifications into events |
| Admiral API | `admiral/api/src` | tenants and projects in SSM, accounts in Organizations | create, get, list, delete tenants; create projects with an account each |
| Admiral account machine | `admiral/api/src/machine`, `AdmiralMachine.ts` | the context of an execution | beacon, portfolio, copy of each product, associations |
| Stacks | `infra-constructs`, `admiral/infrastructure` | which resources exist, in CloudFormation | create, update, roll back, delete |
| Custom resources | `providers/*`, `handlers/image-deployer`, Lambdas inside the constructs | what they create (policies, repositories, builds, secrets, parameters) | create, update, delete, poll |
| Certificates | `maestro/actions/certs`, `maestro/certs` | the root CA in Secrets Manager | download the root CA, issue a certificate, replace the root CA |
| Mail processor | `handlers/account-mail-processor` | none | parse an account's address, fan a message out |
| ML clients, Wing plugin, tools | `maestro/common`, `plugins`, `tools`, `docs` | none of their own | encodings, shapes, declarations |

How they meet when a cluster is brought up: `maestro-admin` sets the capacity
of the bootstrapper's Auto Scaling group. The instance runs its user data,
which calls the Maestro API for certificates and for its `opensearch.yml`,
starts OpenSearch and calls `register-instance`; that call puts the instance
into Cloud Map and an event on the bus. A rule copies the bus to a log group
whose live tail the workflow reads. When it has read as many events of the role
as it asked for nodes, it goes on to the managers and then to the data nodes,
whose configuration names the nodes found in Cloud Map. At the end it sets the
cluster mode to `launched`, sets the bootstrapper's capacity to zero and
refreshes the other groups. Terminated instances are taken out of Cloud Map by
the clean-up Lambda.

Another chain brings up the accounts that clusters live in. `CreateProject` of
the Admiral API asks AWS Organizations for an account whose mail address is made
of the tenant's and the project's name, polls until it exists, moves it into an
organisational unit, writes the project into SSM and starts a Step Functions
execution. That one calls the same Lambda for each task, with a context whose
step says what to do: it leaves a beacon in the account, creates a Service
Catalog portfolio, copies product after product into it and at last lets the
administration role use it. Mail for the account arrives at the mail processor,
which takes the address apart again. Few of these calls
are idempotent, every one is retried or abandoned by somebody, and nothing is
ever undone.

Everything above runs in stacks that CloudFormation makes, changes and deletes.
A tenant provisions a cluster as a product of three nested stacks (substrate,
control plane, data plane); other stacks hold its snapshots, bake the images of
its nodes, make the organisation and its accounts, offer the products to them, and
serve them. Many of their resources are auto-os's own: CloudFormation
calls a handler for them, and rolls back when it throws. CloudFormation orders
requests by the references between resources and by nothing else, and what a
handler changed before it threw stays. Instances run their set-up scripts while
their stack is still being made, rolled back or deleted.

What is hard in the first chain: nothing in it knows of the step before it but
through Cloud Map (eventually consistent), an at-least-once event and a live
tail that has no memory. Calls fail half way, answers get lost, instances are
replaced, Lambdas are retried, and two administrators may run the workflow at
once. What should hold all the same is stated per module below; `PROJECT.json`
lists every hazard at the line where it bites, those no property covers yet
included.

## Modules

`ClusterNodes` models the data plane: groups, instances, scripts, the API calls
of the scripts, Cloud Map and the clean-up Lambda.

| TLA+ | Code |
|---|---|
| `mode` | the SSM parameter `maestro/clusterMode`, created as `bootstrapping` by `ControlPlaneStack.ts` |
| `desired`, `refresh` | desired capacity of each group, instances a running refresh has still to replace |
| `stage` | how far the user-data script of an instance is |
| `conf`, `seeds` | what `opensearch.yml` makes OpenSearch do: found a cluster, join one through these hosts, or nothing |
| `cluster` | the cluster OpenSearch on the instance is in, named by the node that founded it |
| `call` | how far the Lambda invocation behind `register-instance` is; it goes on when its caller is gone |
| `disco` | the instance's entry in Cloud Map: submitted (`pending`), then returned by `DiscoverInstances` (`visible`) |
| `attempts` | deliveries of the termination event left to the clean-up Lambda |
| `published` | events EventBridge has accepted |
| `Specialize`, `SpecializeFails` | `SpecializeOpenSearchConf`, with its refusals |
| `Start`, `StartFails` | the script up to and including the restart of OpenSearch |
| `CallRegister`, `RegisterWithCloudMap`, `PublishRegistered`, `RegisterReturns`, `RegisterFails` | `register-instance`, one action for each call it makes and one for every way it fails |
| `SignalInitFailure` | `handle_error` of `bootstrapper-setup.sh` and the action behind it |
| `Cleanup` | one invocation of `cleanup.py` |
| `Operator` | an administrator, in the run of this module by itself |

The two scripts differ in one thing that matters: `bootstrapper-setup.sh` runs
under `set -Eeuo pipefail` with a trap on `ERR`, `node-setup.sh` has neither.
`AfterError` is that difference.

`ClusterBootstrap` extends it with the workflow. `pc` and `phase` say where a run
is, `asgsEmpty` what its one discovery of the groups found, `unread` what its
live tail holds, `successes` and `failures` the lengths of the tracker's two
lists, and `heard` the events in them. `delivered` and `duplicates` belong to
the rule that fills the log group. Each step of `RunBootstrapClusterWorkflow`
that another actor can come between is an action; `ReadOther`, `ReadMatching` and
`ReadLast` are the three things one event can do to the tracker and the waiter.
`Fail` is every error return, `log.Fatalf`, panic and interrupt: they all end the
run and leave what was done.

`LaunchProtocol` is what the workflow promises and nothing of how: nodes of a
role are asked for when every earlier role has its quota of announced nodes, the
launch is declared when every role has, and the bootstrapper goes after that.
`ClusterBootstrap` implements it under the mapping at its end.

`AccountMachine` models an execution of the account machine and the Service
Catalog of the account it works on.

| TLA+ | Code |
|---|---|
| `exec[x].state` | the state of the Step Functions graph that `AdmiralMachine.ts` lays out |
| `exec[x].step`, `account`, `portfolio`, `index`, `token` | the `MachineContext` handed from task to task |
| `exec[x].retries` | retries of the current state (`retryProps`) |
| `beacon` | accounts with the parameter `/auto-os/beacon` |
| `portfolios`, `copies`, `contents`, `granted` | what Service Catalog keeps in each account: portfolios created, product copies, associations of copies and of the role with portfolios |
| `RegisterBeacon` ... `AssociatePrincipal` | the steps of `MachineOrchestrator`, each with the calls of its helper and the answer to Step Functions, which may be lost (`Returns`) |
| `TaskFails`, `AfterThrow` | a task that throws before it changed anything, and what the graph does with one that throws |
| `Following`, `KeepCheckingChoice`, `LastProductChoice` | the edges of the graph |
| `FinishCopy` | Service Catalog, which ends a copy in success or failure |

`AccountFactory` extends it with the requests that create projects and with the
mail processor.

| TLA+ | Code |
|---|---|
| `call` | how far `ProjectManager.addProject` is for each request, between two of its calls |
| `creation` | what `describeCreateAccountStatus` would say of the account a request asked for |
| `org` | the accounts of the organisation by their address: for whom they were made, and whether they were moved |
| `projects` | the project parameters in SSM |
| `archive` | for whom the stored messages were taken to be |
| `RequestFails` | a call that throws, the Lambda's limit of one minute (`AdmiralApiFunc.ts:126`), which always comes before the 180 s of the poll, or its death |
| `FinishCreation` | Organizations, which uses an address once and goes on when the request is gone |
| `Address`, `ExtractTenantAccount` | how the address is made (`OrgAccountHelper.ts:38`) and how it is taken apart (`address.ts`); a name is a sequence of words, between which there are dashes |

`ProductImport` is what the machine promises: one product after the other, none
skipped, none imported again, and the portfolio opened when all are there. A
retried task repeats its calls, and so leaves second portfolios and second
copies behind; `AccountMachine` implements `ProductImport` in spite of that.

`DiscoveryReset` extends `ClusterNodes` with administrators who reset the
discovery service (`ResetDisco.go`) and register nodes again by hand.

| TLA+ | Code |
|---|---|
| `at`, `listed`, `left` | how far a run of `ResetDisco` is, what `ListInstances` gave it, and what its loop has yet to deregister |
| `ListInstances`, `Deregister`, `DeregisterRefused`, `ResetFails`, `ResetReturns` | its calls, and the error returns after them |
| `RegisterAgain` | `maestro-admin discovery register-instance`, for a node that announced itself and was forgotten: the Lambda's work of `ClusterNodes` once more |

Three modules model the stacks. `ResourceHandlers` says which calls each handler
makes for each request, in order: an update of a snapshot policy, for instance, is
`<<"remove", "add">>`. `StackTemplates` says which resources each template has
and which of them refer to which, construct by construct; the nested stacks are
one template in which the resources of one that takes another's outputs come after
all of that other. `StackLifecycle` runs both: a stack of any
template from its creation to its deletion.

The templates are the cluster (`cluster`), its snapshots (`management`), the images
(`forge`), a container image (`docker`), the organisation with its accounts
(`provisioner`), its mailbox, API and shared bucket (`mailbox`, `api`,
`registrar`), the resource types of an account (`providers`), the products and their
portfolio (`offering`), and a parameter linked to an image (`link`). Resources
that behave alike and are referred to alike are taken together: the Auto Scaling groups,
the accounts for logging and security, the parameters of the images.

| TLA+ | Code |
|---|---|
| `stack`, `has`, `props`, `culprit` | what CloudFormation shows of a stack and its resources, the properties it has on record, and what the last failure was due to |
| `request` | the handlers at work, each with the calls it has yet to make |
| `world` | what there is under each name of a resource in the service that keeps it; `"other"` belongs to another stack |
| `strays` | resources whose creation failed after it had written something, which nobody deletes |
| `Call`, `Answer`, `Refuse`, `Fault` | a handler's next call, its return, a call the service refuses, a call that fails or whose answer is lost |
| `Throw` | what CloudFormation does then: a rollback, a rollback that failed, a deletion that failed |
| `TotalTimeout`, `EndBuild` | the provider's limit of 30 minutes, and CodeBuild |
| `AskCreate`, `AskUpdate`, `AskDelete`, `Settle`, `DeleteStack` | CloudFormation, and the operator behind it |
| `node`, `trust`, `cert`, `entry` | an instance of the cluster's stack: how far its script is, the root CA it downloaded, the one that issued its certificate, its registration |
| `DownloadRoot`, `IssueCert`, `CallRegister`, `Register`, `Terminate`, `Cleanup` | what `ClusterNodes` leaves out of the scripts, and of what it models only what a stack may break |
| `GenerateRootCA` | `maestro-admin certs new-root` |

`MCClusterNodes`, `MCClusterBootstrap`, `MCDiscoveryReset`, `MCAccountFactory` and
`MCStacks` give the constants values for TLC. `ClusterNodesProofs`,
`ClusterBootstrapProofs`, `LaunchProtocolProofs`, `DiscoveryResetProofs`,
`AccountMachineProofs`, `AccountFactoryProofs`, `StackProofs` and
`StackOutcomeProofs` hold the theorems.

Definitions commented `Mutant` are plausible bugs. No specification uses them;
each replaces the definition below it to see that a property notices.

## What the runs check

| Run | Instance | Result |
|---|---|---|
| `nodes` | a bootstrapper and a manager that may die, one failing call, three clean-up attempts, an operator who changes everything | an announced live node is in Cloud Map; an announced bootstrapper founded its cluster; nodes meet only through Cloud Map; a terminated instance leaves it; the inductive invariant holds |
| `launch` | one run, one node a role, one failing call, one duplicated event, fairness | order of the launch, launch only when earned, managers only after a founded cluster, bootstrapper kept until the launch; the workflow implements `LaunchProtocol`; the run ends or waits for a node that ended silently, was terminated or whose event it missed; the inductive invariant holds |
| `undersized` | one run, two managers of which one may die, a data group of maximum zero, fairness | the nodes counted are distinct; the refused capacity ends the run |
| `race` | two runs, two bootstrapper ids, one node of each other role | live nodes are in one cluster; none is founded after the launch |
| `discovery` | the data plane of `nodes` with one clean-up attempt, two resets, three operator's commands, one failing call | a live announced node is in Cloud Map unless a reset took it out; a reset that no call fails for stops early only at an instance that was cleaned up or that another reset deregistered; the inductive invariant holds |
| `accounts` | two requests for any two of four projects, two of which have the same address; two executions, an empty shared portfolio, one retry, two failing calls | a recorded project owns its account, which was moved; only such accounts are furnished; an account whose creator died is never taken up again; the inductive invariant holds |
| `furnish` | one request, two executions in one account, two products, one retry, two failing calls or lost answers, fairness | graph and context agree; a granted portfolio is complete; a successful execution granted its portfolio; the machine implements `ProductImport`; executions end; mail reaches its owner; the invariant of the machine holds |
| `stacks` | every template; two names and two values; updates of the resources that can be updated; one instance; one failing call; fairness | requests fit the stack and its order; an instance finds what its script calls; a complete stack is what CloudFormation has on record; what a rolled back or deleted stack leaves behind; what an operation can fail of; an instance trusts the root CA that issued its certificate; every operation ends |
| `announce` | one run, nothing fails | violated: see the first finding |
| `replaced` | as `race` with one run and a bootstrapper that dies | violated: see the second finding |
| `newroot` | the cluster's stack by itself, nothing fails | violated: see the third finding |
| `mail` | one request, names as in `accounts` | violated: see the fourth finding |

Bounds and why they are enough. The workflow asks for 1, 3 and 3 nodes; the
models ask for 1, 1 and 1, or 1, 2 and 1 where several nodes of a role matter
(`undersized`: the tracker compares a count with the quota, and two show everything a third
would: first, middle and last of it). `MaxFaults` bounds failing calls over a
behaviour; one is enough to take every error branch, and the proofs
have no bound. `MaxDuplicates` bounds repeated deliveries; it is 0 where
`StartedNodesDistinct` is checked, which is false of a duplicate.
`CleanupAttempts` is
three, what an asynchronous Lambda invocation gets, where clean-up is the
question and one elsewhere. `Mortal` names the ids that may fail a health check;
a refresh and a lowered capacity terminate any. In `race` the bootstrapper is
not mortal, since `replaced` shows what its death does, and every group counts
as named after bootstrapping so that no refresh starts: both properties are
settled before it. `MaxCommands` bounds what an operator does during two resets: three
commands raise two capacities and lower one, the least for a node to be terminated
under a reset. Only the two resets are symmetric there. The account machine handles one product after the other, and
two show a first, a last and the step between them; none at all, on which it
fails, is the case of `accounts`; a second execution only runs when the call
that starts one is repeated. `MaxAttempts` is five in the code; one retry takes
both branches of `AfterThrow`. Four projects are the least with two names that
hold dashes and two addresses that are equal.

In `stacks` a resource has one of two names and one of two values, enough for it
to be renamed, changed and changed back. `MaxBusy` bounds the
handlers at work at once: two, so that one can throw while another is at work, and one
for the cluster, whose template has some 28 resources and whose orders of
creation are what matters; the proofs have no such bound. One instance
is enough since instances of a stack share nothing but what the stack holds.
Every subset of the names that do not tell stacks apart may be taken at the start.
`Change` names the resources an update may change, of those with a handler of auto-os
(`StackAssumption`): CloudFormation replaces resources of its own instead of
renaming them, which would be two resources here. The container image is not among
them either: an update starts a second build while the first may still be running,
and the model has one build at a time of each resource.

Deadlock is not checked: a run or a stack that has ended leaves a system with nothing to do.

Fairness (`Fairness`): groups launch what is missing, scripts and Lambdas run
on, the bus delivers, a run takes its next step. These are what Auto Scaling,
the shell, Lambda and EventBridge do without anybody's help. Nothing is assumed
of failures, deaths, Cloud Map's visibility or OpenSearch finding a cluster.
`CleanupFairness` is Lambda's retry of an asynchronous invocation.
`FactoryFairness`: Step Functions keeps executions going, and Service Catalog
ends every copy; a request may be left where it is. `FairSpec` of
`StackLifecycle` is weak fairness of `Progress` as a whole: CloudFormation keeps asking,
handlers run on, builds end by CodeBuild's limit and groups that are deleted lose their
instances. Nothing is assumed of scripts, clean-ups, operators or faults.

## Findings

1. *A node announces itself without having joined anything* (`announce`).
   `DetailTypes.go:8` describes the event as sent "after cluster bootstrap or
   join". `node-setup.sh` sends it whatever failed before. Nothing has to break for
   that: the workflow reacts to the bootstrapper's event, and Cloud Map need not
   show the bootstrapper yet when the first manager asks for it, so that its
   configuration is refused. The workflow counts the manager as started.
2. *A cluster founded after the launch* (`replaced`). `SpecializeOpenSearchConf`
   refuses a bootstrapper in launched mode, but by the mode at the time the
   configuration is written. A bootstrapper that replaced a dead one, and was
   configured before the launch, founds a second cluster after it.
3. *A new root CA nobody can read* (`newroot`). `SaveCertToSecret` writes the
   fields of one structure and `getStoredCertificateAuthority` reads those of another:
   after `maestro-admin certs new-root` no instance gets the root CA or a certificate, and
   the load balancer's certificate cannot be made again. `GenerateRootCA` also
   ignores the error of its last call and dereferences a version that is then missing.
4. *Mail of one tenant taken for another's* (`mail`). The pattern of
   `address.ts` ends the tenant's name at the first dash, although a tenant's name
   may hold dashes (`schema/Tenant.ts:4`). Mail for project `logs` of tenant
   `acme-aws-lab` is archived for project `lab-aws-logs` of tenant `acme`, and
   mail for a tenant `acme-lab` is dropped unless it matches further right.
   `MailReachesOwnerOfOneWord` proves that nothing else goes wrong: with
   tenants of one word, whatever the projects are called, mail reaches its owner.

## What is proved

TLAPS checks, for every value of the constants (nodes, administrators, quotas,
requests, names, executions, products, retries, faults and duplicates):

* `NodesInvariant`: `NodesIInv` is an invariant of the data plane under any
  operator, hence `NodesTypeCorrect`, `AnnouncedBootstrappersFormed` and
  `AnnouncedAreDiscoverable`. `FoundersRun` carries the first of the latter two
  (a bootstrapper that is past its configuration has the founding one, and one
  that runs has founded), `EntriesFollowCalls` the second (an entry exists from
  the registration's second step until a termination). `NodesMeetInCloudMap`
  needs to know more than that: `Met` says that the seeds of a node and the cluster it is in
  come from entries of Cloud Map.
* `Invariant`: `IInv` is an invariant of the workflow, hence `TypeCorrect`,
  `LaunchesInOrder`, `LaunchesEarned`, `FoundedBeforeManagers` and
  `BootstrapperIsKept`. The launch order by itself is not inductive: that a
  run asks for managers says nothing unless it is known what the run has
  counted. `RunsInOrder` says so (at each place a run is, which roles it has
  won, and that the role it is waiting for is still short of its quota), and
  `EventsPublished` ties what was counted to what was published, which
  `FoundersRun` ties to a founded cluster.
* `StartedAreDistinct`: if every event is delivered once (`MaxDuplicates = 0`), a run has
  as many successes as nodes it has counted, because an event it has read is never
  unread again (`CountsNodes`).
* `OneRunImplementsProtocol`: one run of the workflow, to which every event is delivered
  once, implements `LaunchProtocol` whatever the nodes do or die of. One lemma for each
  kind of step shows which action of the protocol it is. They need that a
  node which is there was asked for (`OnlyAsked`), that nothing is left to launch after
  the launch (`LaunchedOnce`, which a second run would break) and, for the quotas,
  `CountsNodes`.
* `OneCluster` and `NoLateFounder`: if a run launches one bootstrapper (as `runner.go` does)
  and that one never fails a health check (`OneBootstrapper`), then, however many
  administrators, failures and duplicates there are, all nodes that are in a cluster are in the same one, and
  none is founded once the launch is declared. `Alone` carries both: before the
  launch at most one bootstrapper was ever launched (`FirstBootstrapper`: its group has one place,
  and its instance still fills it), at most one instance was ever configured to found a
  cluster (`OneFounder`: the configuration is served only before the launch), and no refresh
  touches it. `Met` says that a node joins only the cluster that a founder named, and `LaunchEarned` that the
  founder is there when the launch is declared. When a bootstrapper may fail a health
  check `NoFoundingAfterLaunch` is false, as the run `replaced` shows.
* `FactoryInvariant`: `FactoryIInv` is an invariant of the requests and the
  machine together, hence `FactoryTypes`, `ProjectsOwn`,
  `FurnishedOnlyForProjects`, `GraphFollowsContext`, `GrantsOfferAll` and
  `SuccessMeansGranted`. That a granted portfolio is complete is not inductive:
  `ImportedOffered` says of a portfolio still being filled which products it
  offers already, and `ContextInOrder` that the index starts at 0.
  `AccountMachineProofs` first proves what any step does to the context
  (`StepMoves`) and that nothing offered is ever lost (`StepData`), and derives the
  rest from these two. `InOrder` ties how far a request is to what has
  happened to its account.
* `MachineInvariant`, the machine's own invariant, from the same argument.
* `AbandonedStay`, the action property, from the same invariant, and
  `FactoryImports`, the refinement of `ProductImport`, from `StepMoves`.
* `MailReachesOwnerOfOneWord`, from the invariant that an account has the
  address of its owner, and from what the pattern finds in such an address.

* `ResetInvariant`: `ResetIInv` is an invariant of the data plane and any number of
  resets, hence `ResetsForget` and `ResetsFailExplained`. Why a reset failed is not
  inductive by itself: `RemovingPresent` says, while a reset is at work, that whatever it
  has yet to deregister is there or is gone for a reason, and `EntriesFollowResets`
  gives that reason for every entry that disappears.
* `StackInvariant`: `StackIInv` is, together with the types (`StackTypeCorrect`),
  an invariant of a stack of any template of the repository. That no instance
  outlives what it calls follows from four parts: `RequestsFit` (which
  requests a stack of some status may have at work), `KeptInOrder` (what a resource
  refers to is there as long as it is), `WholeUntilDeleted` and `DrainFirst` (a group
  is deleted after its instances). Each part needs the others; that the Auto Scaling groups need
  all of the control plane is computed from the templates. `InstancesServed` is
  the consequence for `NodesServed`.
* `HandlersKnown`, the basis of the next three: `ProgramsFit` (what a handler has still
  to do is the rest of the program of its resource for that request, `Rests`), `StartKept`
  (what CloudFormation has on record is what it began with, unless the resource can be
  changed and an update of it succeeded) and `BuildKnown` (a build that succeeded wrote
  its image). `Fates` and `Moves` say once and for all what a step may do to
  a resource and to a stack.
* `CompleteMatchesCorrect`: after any faults, a stack that is complete is in its services what
  CloudFormation has on record, but for updates of the three resources that ignore them (`Quiet`). The invariant is `Matching`: a resource that
  exists and is not being worked on has its value, and so has one whose handler has
  none of its writing calls left; it needs to know which those are for each program
  (`WrittenPrograms`). An update rolled back writes the old value again, and
  a rename that was refused half way is repaired by it.
* `LeavesNothingCorrect`: a stack that is gone leaves nothing but what is in `Leaky`, what was
  half made (`strays`) and the name of the root CA's secret. The invariant `Cleared` follows each
  resource through its deletion and, for one that may be renamed, says that nothing is
  under the other name.
* `FailureExplainedCorrect`: while no call fails, a creation, update, rollback or deletion fails
  only for a reason that the property lists. Each failure has its reason when it happens
  (`CreationFails`, `UpdateFails`, `DeletionFails`), from `Undisturbed` (a handler that has not begun
  finds its name as it was at the start or free) and `Standing` (what is to be
  deleted is still there). That the reason still holds later is a proof of its own
  (`ReasonStays`): nothing un-taints a name, makes the root CA readable or empties
  an organisational unit after the failure.
* `ChainCorrect`: the secret of the root CA goes from absent to its one value and from
  there to something unreadable, and never back while an instance runs.

The proofs assume only the named assumptions on the constants (`NodesAssumption`,
`BootstrapAssumption`, `MachineAssumption`, `FactoryAssumption`,
`ResetAssumption`, `StackAssumption`), which TLC
evaluates in every run of a module that extends theirs;
`MailReachesOwnerOfOneWord` assumes in addition what its name says, and the two
theorems of `LaunchProtocolProofs` that nothing is delivered twice and, the second, that there
is one run; `OneCluster` and `NoLateFounder` assume `OneBootstrapper`.
A duplicate may be counted twice once a quota is above one, so neither
theorem of `LaunchProtocolProofs` holds without the first; `MCLaunch.cfg` has a duplicate and quotas of one.
In `ClusterBootstrap` nobody but the workflow changes capacities or the mode; an
administrator who sets the mode by hand during a launch is outside these
theorems, and inside those about `ClusterNodes`.

Only model-checked: everything about liveness (`CleanedUp`, `RunEnds`,
`ExecutionsEnd`, `OperationsEnd`), which is out of the prover's reach. Every other
property of the passing runs is the statement of a theorem.

## Not modelled, and simplifications

The contents of configuration files, certificates and passwords; networking; the
load balancer. A node whose configuration failed runs the image's OpenSearch, of
which the model only says that it finds no cluster. A node that joined
stays in its cluster while it lives: elections, partitions and data are OpenSearch's own.
Ingest, ML, search and coordinator groups exist in the code, but the workflow
launches none of them. Of the Admiral API only the creation of a project is
modelled: tenants are records that no project creation reads, so that deleting one
under its projects breaks nothing the code promises. A search in Service Catalog
answers with all products, and `ListInstances` with all instances: the further pages that
`PortfolioHelper.ts` and `ResetDisco.go` do not ask for
are left out. Of the mail processor the archive is modelled, the event beside it
is not. An administrator registers by hand only nodes that had announced themselves.

Of stacks: CloudFormation itself is modelled as its documentation describes it, and
marked external in the map. Nested stacks are taken together. Updates change one resource
at a time, of one of those that have a handler worth it. Permissions and networks are not modelled, except for the
one policy that a resource may come before (`repoAccess`).
The constructs of domains and fiefdoms do not synthesize: each declares two children with the id
`Func` in one scope (`DomainRegistration.ts:77` and `:85`, `FiefdomInternal.ts:62` and `:70`), so that the handlers
`r53purchaser` and `fiefdom` never run. `vpc-importer` is used by no stack. The management stack is modelled
although the product has it commented out. The event forwarder's handler keeps
nothing and loses what `put_events` refuses (`forwarder.py:46`); what fills its queue is
outside the repository, its branch for images always raises (`forwarder.py:190`), and the product gives
it the clean-up's code (`ClusterCatalogProductStack.ts:58`). Generated code and schemas, the ML clients, the Wing
plugin, build pipelines, the shared network and event stacks and the inside of the second product are
declarations without state. `ParamLink` is used by no stack of the repository and is modelled as a stack by itself. Components without a module
are listed with the reason in `PROJECT.json`.

Things seen while modelling that no property is about: the subnet of the image pipeline is dropped unless
security groups are given (`CdkImagePipeline.ts:194`); the image that nodes are launched from is built beside the pipeline and
without its distribution; a provisioner stack whose accounts were made can never be deleted, since they
stay in their unit; the offering does not refer to the assets it uploads, so that a product may be
offered before them; the handler map of the Admiral API routes a project called `tenants` to `ListTenants`, and no path
of it matches a tenant's name with an underscore; `MaestroAdminInvocation.ts` passes the control plane's parameter for the data
plane's too; `bin/infra.ts` calls constructors with properties they no longer have.

## Plan

1. Done: `ClusterNodes`, `ClusterBootstrap`, `LaunchProtocol` and their proofs.
2. Done: `AccountMachine`, `AccountFactory`, `ProductImport` and their proofs.
3. Done: `ResourceHandlers`, `StackTemplates`, `StackLifecycle` and `StackProofs`;
   `DiscoveryReset` and `DiscoveryResetProofs`; `NodesMeetInCloudMap`, `MachineInvariant`.
   `StartedAreDistinct` and `OneRunImplementsProtocol`.
4. Done: `StackOutcomeProofs`, `OneCluster` and `NoLateFounder`.
5. Models: several updates in a row, and the pages of the searches.
6. Proofs: how many clusters there can be at most when bootstrappers are replaced.

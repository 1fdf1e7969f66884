---------------------------- MODULE ClusterNodes ----------------------------
(***************************************************************************)
(* The data plane of one search cluster while it is being brought up: the  *)
(* Auto Scaling groups (one per role), the instances they launch, the      *)
(* set-up script each instance runs from its user data, the Maestro API    *)
(* operations that script calls, the Cloud Map service in which nodes find *)
(* each other and the Lambda that removes terminated instances from it.    *)
(*                                                                         *)
(* An instance id is used once: EC2 never gives a replacement the id of    *)
(* the instance it replaces. RoleOf says which group would launch an id.   *)
(***************************************************************************)
EXTENDS Integers, FiniteSets

CONSTANTS
  Instance,         \* the instance ids the groups may ever launch
  RoleOf,           \* the role of the group that launches an id
  Mortal,           \* the ids that may fail under a health check or a spot reclaim
  MaxSize,          \* the maximum size of each role's group
  MaxFaults,        \* bound: how many Maestro API calls fail, over a behaviour
  CleanupAttempts,  \* deliveries of one termination event to the clean-up Lambda
  None              \* no instance

Role == {"bootstrapper", "cluster_manager", "data"}

ASSUME NodesAssumption ==
  /\ IsFiniteSet(Instance)
  /\ RoleOf \in [Instance -> Role]
  /\ Mortal \subseteq Instance
  /\ MaxSize \in [Role -> Nat]
  /\ MaxFaults \in Nat
  /\ CleanupAttempts \in Nat \ {0}
  /\ None \notin Instance

VARIABLES
  mode,       \* the cluster-mode parameter in SSM
  desired,    \* desired capacity of each role's group
  refresh,    \* instances a running instance refresh still has to replace
  stage,      \* how far each instance is in its set-up script
  conf,       \* what the instance's opensearch.yml tells OpenSearch to do
  seeds,      \* discovery.seed_hosts of that file
  cluster,    \* the cluster the instance is in, named by the node that founded it
  call,       \* progress of the RegisterInstance request made for the instance
  disco,      \* the instance's entry in Cloud Map
  attempts,   \* deliveries of its termination event left to the clean-up Lambda
  published,  \* the events EventBridge has accepted
  faults      \* Maestro API calls that have failed

nodeVars == <<mode, desired, refresh, stage, conf, seeds, cluster, call, disco,
              attempts, published, faults>>

Mode == {"bootstrapping", "launched"}

(***************************************************************************)
(* An instance is unborn until its group launches it. It boots (the script *)
(* starts), is configured (after specialize-os-conf), running (after       *)
(* OpenSearch was started and secured), registering (its register-instance *)
(* call is out) and announced (that call returned). A script under the     *)
(* error trap goes to failing and, once signal-init-fail returned, to      *)
(* failed; a script that ends with neither event sent is silent.           *)
(***************************************************************************)
Stage == {"unborn", "booting", "configured", "running", "registering",
          "announced", "failing", "failed", "silent", "terminated"}

Event == [type : {"registered", "init_failed"}, node : Instance]

Registered(i) == [type |-> "registered", node |-> i]
InitFailed(i) == [type |-> "init_failed", node |-> i]

NodesTypeOK ==
  /\ mode \in Mode
  /\ desired \in [Role -> Nat]
  /\ refresh \in SUBSET Instance
  /\ stage \in [Instance -> Stage]
  /\ conf \in [Instance -> {"none", "found", "join"}]
  /\ seeds \in [Instance -> SUBSET Instance]
  /\ cluster \in [Instance -> Instance \cup {None}]
  /\ call \in [Instance -> {"idle", "looked_up", "registered", "published"}]
  /\ disco \in [Instance -> {"absent", "pending", "visible"}]
  /\ attempts \in [Instance -> 0..CleanupAttempts]
  /\ published \in SUBSET Event
  /\ faults \in 0..MaxFaults

NodesInit ==
  /\ mode = "bootstrapping"
  /\ desired = [r \in Role |-> 0]
  /\ refresh = {}
  /\ stage = [i \in Instance |-> "unborn"]
  /\ conf = [i \in Instance |-> "none"]
  /\ seeds = [i \in Instance |-> {}]
  /\ cluster = [i \in Instance |-> None]
  /\ call = [i \in Instance |-> "idle"]
  /\ disco = [i \in Instance |-> "absent"]
  /\ attempts = [i \in Instance |-> 0]
  /\ published = {}
  /\ faults = 0

Bootstrapper(i) == RoleOf[i] = "bootstrapper"
Live(i) == stage[i] \notin {"unborn", "terminated"}
LiveIn(r) == {i \in Instance : RoleOf[i] = r /\ Live(i)}
(* Mutant: nodes found in the groups, registered or not.                   *)
DiscoverableUnregistered == {i \in Instance : Live(i)}
Discoverable == {i \in Instance : disco[i] = "visible"}

Fault == faults < MaxFaults /\ faults' = faults + 1
NoFault == UNCHANGED faults

-----------------------------------------------------------------------------
(* The Auto Scaling groups.                                                *)

(* Mutant: a capacity above the maximum is taken for the maximum.          *)
SetDesiredCapacityClamped(r, n) ==
  /\ desired' = [desired EXCEPT ![r] = IF n <= MaxSize[r] THEN n ELSE MaxSize[r]]
  /\ UNCHANGED <<mode, refresh, stage, conf, seeds, cluster, call, disco,
                 attempts, published, faults>>

SetDesiredCapacity(r, n) ==
  /\ n <= MaxSize[r]
  /\ desired' = [desired EXCEPT ![r] = n]
  /\ UNCHANGED <<mode, refresh, stage, conf, seeds, cluster, call, disco,
                 attempts, published, faults>>

(* maestro-admin conf set-cluster-mode, and the same write at the end of a *)
(* launch.                                                                 *)
SetClusterMode(m) ==
  /\ mode' = m
  /\ UNCHANGED <<desired, refresh, stage, conf, seeds, cluster, call, disco,
                 attempts, published, faults>>

StartInstanceRefresh(r) ==
  /\ refresh' = refresh \cup LiveIn(r)
  /\ UNCHANGED <<mode, desired, stage, conf, seeds, cluster, call, disco,
                 attempts, published, faults>>

Launch(i) ==
  /\ stage[i] = "unborn"
  /\ Cardinality(LiveIn(RoleOf[i])) < desired[RoleOf[i]]
  /\ stage' = [stage EXCEPT ![i] = "booting"]
  /\ UNCHANGED <<mode, desired, refresh, conf, seeds, cluster, call, disco,
                 attempts, published, faults>>

(* A group terminates an instance it has too many of, one a refresh        *)
(* replaces, or one that failed. EC2 reports the termination, and          *)
(* EventBridge hands the report to the clean-up Lambda.                    *)
Terminate(i) ==
  /\ Live(i)
  /\ \/ Cardinality(LiveIn(RoleOf[i])) > desired[RoleOf[i]]
     \/ i \in refresh
     \/ i \in Mortal
  /\ stage' = [stage EXCEPT ![i] = "terminated"]
  /\ refresh' = refresh \ {i}
  /\ attempts' = [attempts EXCEPT ![i] = CleanupAttempts]
  /\ UNCHANGED <<mode, desired, conf, seeds, cluster, call, disco, published,
                 faults>>

-----------------------------------------------------------------------------
(***************************************************************************)
(* The set-up script. bootstrapper-setup.sh runs under set -e with a trap  *)
(* on ERR, so the first command that fails sends it to handle_error;       *)
(* node-setup.sh has neither and goes on to its next command.              *)
(***************************************************************************)
(* Mutant: the bootstrapper's script without its trap.                     *)
AfterErrorUntrapped(i, next) == next
AfterError(i, next) == IF Bootstrapper(i) THEN "failing" ELSE next

(* Mutant: launched mode services any role.                                *)
CanSpecializeAnyRole(i) ==
  mode = "bootstrapping" =>
    Bootstrapper(i) \/ \E j \in Discoverable : Bootstrapper(j)

(* SpecializeOpenSearchConf gives an instance a configuration: the         *)
(* bootstrapper only in bootstrapping mode, any other node in that mode    *)
(* only if Cloud Map returns a bootstrapper.                               *)
CanSpecialize(i) ==
  IF mode = "bootstrapping"
    THEN Bootstrapper(i) \/ \E j \in Discoverable : Bootstrapper(j)
    ELSE ~Bootstrapper(i)

Specialize(i) ==
  /\ stage[i] = "booting"
  /\ CanSpecialize(i)
  /\ conf' = [conf EXCEPT ![i] = IF Bootstrapper(i) THEN "found" ELSE "join"]
  /\ seeds' = [seeds EXCEPT ![i] = IF Bootstrapper(i) THEN {} ELSE Discoverable]
  /\ stage' = [stage EXCEPT ![i] = "configured"]
  /\ NoFault
  /\ UNCHANGED <<mode, desired, refresh, cluster, call, disco, attempts, published>>

SpecializeFails(i) ==
  /\ stage[i] = "booting"
  /\ \/ ~CanSpecialize(i) /\ NoFault
     \/ Fault
  /\ stage' = [stage EXCEPT ![i] = AfterError(i, "configured")]
  /\ UNCHANGED <<mode, desired, refresh, conf, seeds, cluster, call, disco,
                 attempts, published>>

(* OpenSearch starts. The bootstrapper's file names itself as the only     *)
(* initial cluster manager and has no seed hosts: it founds a cluster.     *)
Start(i) ==
  /\ stage[i] = "configured"
  /\ stage' = [stage EXCEPT ![i] = "running"]
  /\ cluster' = IF conf[i] = "found" THEN [cluster EXCEPT ![i] = i] ELSE cluster
  /\ NoFault
  /\ UNCHANGED <<mode, desired, refresh, conf, seeds, call, disco, attempts, published>>

(* A certificate that was not issued, or a securityadmin run that failed:  *)
(* trapped on the bootstrapper, whose cluster may be founded by then; any  *)
(* other node goes on without a running OpenSearch.                        *)
StartFails(i) ==
  /\ stage[i] = "configured"
  /\ Fault
  /\ stage' = [stage EXCEPT ![i] = AfterError(i, "running")]
  /\ IF Bootstrapper(i)
       THEN conf' = conf /\ cluster' \in {cluster, [cluster EXCEPT ![i] = i]}
       ELSE conf' = [conf EXCEPT ![i] = "none"] /\ cluster' = cluster
  /\ UNCHANGED <<mode, desired, refresh, seeds, call, disco, attempts, published>>

(* OpenSearch on a started node keeps looking for a cluster among its seed *)
(* hosts, whatever the script does meanwhile.                              *)
Join(i) ==
  /\ conf[i] = "join"
  /\ stage[i] \in {"running", "registering", "announced", "silent"}
  /\ cluster[i] = None
  /\ \E s \in seeds[i] :
       /\ Live(s) /\ cluster[s] # None
       /\ cluster' = [cluster EXCEPT ![i] = cluster[s]]
  /\ UNCHANGED <<mode, desired, refresh, stage, conf, seeds, call, disco, attempts,
                 published, faults>>

-----------------------------------------------------------------------------
(***************************************************************************)
(* register-instance and signal-init-fail. The Lambda behind the first     *)
(* looks the instance up, registers it with Cloud Map and publishes the    *)
(* event; it runs on whether or not its caller is still there.             *)
(***************************************************************************)
CallRegister(i) ==
  /\ stage[i] = "running"
  /\ stage' = [stage EXCEPT ![i] = "registering"]
  /\ call' = [call EXCEPT ![i] = "looked_up"]
  /\ UNCHANGED <<mode, desired, refresh, conf, seeds, cluster, disco, attempts,
                 published, faults>>

RegisterWithCloudMap(i) ==
  /\ call[i] = "looked_up"
  /\ call' = [call EXCEPT ![i] = "registered"]
  /\ disco' = [disco EXCEPT ![i] = "pending"]
  /\ UNCHANGED <<mode, desired, refresh, stage, conf, seeds, cluster, attempts,
                 published, faults>>

(* Mutant: the event is published before Cloud Map has the instance.       *)
PublishRegisteredEarly(i) ==
  /\ call[i] \in {"looked_up", "registered"}
  /\ call' = [call EXCEPT ![i] = "published"]
  /\ published' = published \cup {Registered(i)}
  /\ UNCHANGED <<mode, desired, refresh, stage, conf, seeds, cluster, disco,
                 attempts, faults>>

PublishRegistered(i) ==
  /\ call[i] = "registered"
  /\ call' = [call EXCEPT ![i] = "published"]
  /\ published' = published \cup {Registered(i)}
  /\ UNCHANGED <<mode, desired, refresh, stage, conf, seeds, cluster, disco,
                 attempts, faults>>

RegisterReturns(i) ==
  /\ call[i] = "published"
  /\ call' = [call EXCEPT ![i] = "idle"]
  /\ stage' = IF stage[i] = "registering" THEN [stage EXCEPT ![i] = "announced"]
                                          ELSE stage
  /\ UNCHANGED <<mode, desired, refresh, conf, seeds, cluster, disco, attempts,
                 published, faults>>

(* The lookup, the registration or the event fails, or the answer is lost: *)
(* what was done before stays done, and the script sees an error.          *)
RegisterFails(i) ==
  /\ call[i] # "idle"
  /\ Fault
  /\ call' = [call EXCEPT ![i] = "idle"]
  /\ stage' = IF stage[i] = "registering"
                THEN [stage EXCEPT ![i] = AfterError(i, "silent")] ELSE stage
  /\ UNCHANGED <<mode, desired, refresh, conf, seeds, cluster, disco, attempts,
                 published>>

(* Mutant: the failure is not published.                                   *)
SignalInitFailureUnsent(i) ==
  /\ stage[i] = "failing"
  /\ stage' = [stage EXCEPT ![i] = "failed"]
  /\ NoFault
  /\ UNCHANGED <<mode, desired, refresh, conf, seeds, cluster, call, disco,
                 attempts, published>>

SignalInitFailure(i) ==
  /\ stage[i] = "failing"
  /\ \/ /\ stage' = [stage EXCEPT ![i] = "failed"]
        /\ published' = published \cup {InitFailed(i)}
        /\ NoFault
     \/ /\ stage' = [stage EXCEPT ![i] = "silent"]
        /\ UNCHANGED published
        /\ Fault
  /\ UNCHANGED <<mode, desired, refresh, conf, seeds, cluster, call, disco, attempts>>

-----------------------------------------------------------------------------
(* Cloud Map and the clean-up Lambda.                                      *)

(* RegisterInstance only submits an operation: DiscoverInstances returns   *)
(* the instance some time later.                                           *)
BecomeVisible(i) ==
  /\ disco[i] = "pending"
  /\ disco' = [disco EXCEPT ![i] = "visible"]
  /\ UNCHANGED <<mode, desired, refresh, stage, conf, seeds, cluster, call,
                 attempts, published, faults>>

(* Mutants: deliveries without a limit; an entry Cloud Map is still adding *)
(* is left to the next delivery.                                           *)
CleanupUnlimited(i) ==
  /\ stage[i] = "terminated"
  /\ disco' = [disco EXCEPT ![i] = "absent"]
  /\ attempts' = [attempts EXCEPT ![i] = @ - 1]
  /\ UNCHANGED <<mode, desired, refresh, stage, conf, seeds, cluster, call,
                 published, faults>>

CleanupVisibleOnly(i) ==
  /\ attempts[i] > 0
  /\ disco' = [disco EXCEPT ![i] = IF @ = "visible" THEN "absent" ELSE @]
  /\ attempts' = [attempts EXCEPT ![i] = @ - 1]
  /\ UNCHANGED <<mode, desired, refresh, stage, conf, seeds, cluster, call,
                 published, faults>>

(* One delivery of a termination event. Deregistering an unknown instance  *)
(* raises, and so does put_events, which the handler calls on a Cloud Map  *)
(* client: an invocation that raises is delivered again. It ends normally  *)
(* only if describe_instances no longer knows the instance.                *)
Cleanup(i) ==
  /\ attempts[i] > 0
  /\ disco' = [disco EXCEPT ![i] = "absent"]
  /\ \/ attempts' = [attempts EXCEPT ![i] = @ - 1]
     \/ disco[i] # "absent" /\ attempts' = [attempts EXCEPT ![i] = 0]
  /\ UNCHANGED <<mode, desired, refresh, stage, conf, seeds, cluster, call,
                 published, faults>>

-----------------------------------------------------------------------------
Script(i) ==
  \/ Specialize(i) \/ SpecializeFails(i)
  \/ Start(i) \/ StartFails(i)
  \/ CallRegister(i)
  \/ SignalInitFailure(i)

RegisterInstance(i) ==
  \/ RegisterWithCloudMap(i) \/ PublishRegistered(i)
  \/ RegisterReturns(i) \/ RegisterFails(i)

NodeStep(i) ==
  \/ Launch(i) \/ Terminate(i)
  \/ Script(i) \/ RegisterInstance(i) \/ Join(i)
  \/ BecomeVisible(i) \/ Cleanup(i)

-----------------------------------------------------------------------------
(***************************************************************************)
(* What every step of the data plane keeps. The first part says how a      *)
(* bootstrapper gets from its configuration to its announcement, the       *)
(* second how an instance's entry in Cloud Map follows its registration.   *)
(***************************************************************************)
FoundersRun ==
  \A i \in Instance : Bootstrapper(i) =>
    /\ conf[i] # "join"
    /\ stage[i] = "configured" => conf[i] = "found"
    /\ \/ stage[i] \in {"running", "registering", "announced"}
       \/ call[i] # "idle"
       \/ Registered(i) \in published
       => cluster[i] = i

EntriesFollowCalls ==
  \A i \in Instance :
    /\ stage[i] = "unborn" => call[i] = "idle" /\ Registered(i) \notin published
    /\ stage[i] # "terminated" => attempts[i] = 0
    /\ /\ Live(i)
       /\ call[i] \in {"registered", "published"} \/ Registered(i) \in published
       => disco[i] # "absent"

NodesIInv == NodesTypeOK /\ FoundersRun /\ EntriesFollowCalls

-----------------------------------------------------------------------------
(***************************************************************************)
(* The data plane by itself: an operator changes capacities and the mode,  *)
(* and refreshes groups, whenever she likes.                               *)
(***************************************************************************)
Operator ==
  \/ \E r \in Role, n \in 0..1 : n # desired[r] /\ SetDesiredCapacity(r, n)
  \/ \E m \in Mode : m # mode /\ SetClusterMode(m)
  \/ \E r \in Role : LiveIn(r) # {} /\ StartInstanceRefresh(r)

NodesNext == Operator \/ \E i \in Instance : NodeStep(i)

(* Lambda's asynchronous invocation retries a failed delivery until its    *)
(* attempts are used up.                                                   *)
CleanupFairness == \A i \in Instance : WF_nodeVars(Cleanup(i))

NodesSpec == NodesInit /\ [][NodesNext]_nodeVars /\ CleanupFairness

(***************************************************************************)
(* Properties.                                                             *)
(***************************************************************************)

(* A live node whose registration was announced is in Cloud Map: whoever   *)
(* reacts to the event by launching nodes that look it up there will find  *)
(* it once Cloud Map has caught up (RegisterInstance.go registers before   *)
(* it publishes, and only a termination removes the entry).                *)
AnnouncedDiscoverable ==
  \A i \in Instance :
    Registered(i) \in published /\ Live(i) => disco[i] # "absent"

(* A bootstrapper that announced itself has founded its cluster: no        *)
(* failure before the announcement is skipped (bootstrapper-setup.sh runs  *)
(* under set -e and an error trap).                                        *)
AnnouncedBootstrapperFormed ==
  \A i \in Instance :
    Bootstrapper(i) /\ Registered(i) \in published => cluster[i] = i

(* A node is in a cluster founded by a bootstrapper that had called        *)
(* RegisterInstance by then: nodes meet only through Cloud Map.            *)
JoinedThroughCloudMap ==
  \A i \in Instance :
    cluster[i] \notin {None, i} =>
      /\ Bootstrapper(cluster[i])
      /\ cluster[cluster[i]] = cluster[i]
      /\ stage[cluster[i]] \notin {"unborn", "booting", "configured", "running"}

(* An instance that was terminated while no registration was in flight for *)
(* it leaves Cloud Map, although every invocation of the clean-up Lambda   *)
(* that finds the instance in EC2 ends in an exception.                    *)
CleanedUp ==
  \A i \in Instance :
    (stage[i] = "terminated" /\ call[i] = "idle" /\ attempts[i] = CleanupAttempts)
      ~> (disco[i] = "absent")

=============================================================================

-------------------------- MODULE ClusterBootstrap --------------------------
(***************************************************************************)
(* maestro-admin's bootstrapping workflow, run against the data plane of   *)
(* ClusterNodes: it launches the roles one after the other, waiting each   *)
(* time for the nodes' events in a live tail of the event log group, then  *)
(* declares the cluster launched, retires the bootstrapper and refreshes   *)
(* the other groups. Two administrators may run it at once.                *)
(***************************************************************************)
EXTENDS ClusterNodes, Sequences

CONSTANTS
  Admin,          \* the processes that run the workflow
  Quota,          \* how many nodes of each role a run launches
  BootstrapNamed, \* roles whose group's name contains "bootstrap"
  MaxDuplicates   \* bound: how many events the log group receives twice

Phases == <<"bootstrapper", "cluster_manager", "data">>

ASSUME BootstrapAssumption ==
  /\ Quota \in [Role -> Nat \ {0}]
  /\ BootstrapNamed \subseteq Role
  /\ "bootstrapper" \in BootstrapNamed
  /\ MaxDuplicates \in Nat

VARIABLES
  pc,         \* where each run is
  phase,      \* the role, by its place in Phases, a run is launching or refreshing
  asgsEmpty,  \* what the run's discovery of the groups found
  unread,     \* events in the run's live tail
  heard,      \* events its trackers have matched
  successes,  \* length of matchedSuccesses, for each role
  failures,   \* length of matchedFailures, for each role
  delivered,  \* events the log group has received
  duplicates  \* events it has received again

adminVars == <<pc, phase, asgsEmpty, unread, heard, successes, failures,
               delivered, duplicates>>
vars == <<mode, desired, refresh, stage, conf, seeds, cluster, call, disco,
          attempts, published, faults, pc, phase, asgsEmpty, unread, heard,
          successes, failures, delivered, duplicates>>

Step == {"idle", "discovered", "capacity", "opening", "waiting", "mode",
         "retiring", "refreshing", "done", "failed"}

AdminTypeOK ==
  /\ pc \in [Admin -> Step]
  /\ phase \in [Admin -> 1..3]
  /\ asgsEmpty \in [Admin -> BOOLEAN]
  /\ unread \in [Admin -> SUBSET Event]
  /\ heard \in [Admin -> SUBSET Event]
  /\ successes \in [Admin -> [Role -> Nat]]
  /\ failures \in [Admin -> [Role -> Nat]]
  /\ delivered \in SUBSET Event
  /\ duplicates \in 0..MaxDuplicates

TypeOK == NodesTypeOK /\ AdminTypeOK

Init ==
  /\ NodesInit
  /\ pc = [a \in Admin |-> "idle"]
  /\ phase = [a \in Admin |-> 1]
  /\ asgsEmpty = [a \in Admin |-> FALSE]
  /\ unread = [a \in Admin |-> {}]
  /\ heard = [a \in Admin |-> {}]
  /\ successes = [a \in Admin |-> [r \in Role |-> 0]]
  /\ failures = [a \in Admin |-> [r \in Role |-> 0]]
  /\ delivered = {}
  /\ duplicates = 0

CurrentRole(a) == Phases[phase[a]]
(* Mutants: the last role is the one before, or one that is not there.     *)
AtDataRoleSkipped(a) == phase[a] >= Len(Phases) - 1
AtPastEnd(a) == phase[a] > Len(Phases)
AtLastRole(a) == phase[a] = Len(Phases)

Goto(a, step) == pc' = [pc EXCEPT ![a] = step]

-----------------------------------------------------------------------------
(* Discovery and the safety checks. The groups are read once, before the   *)
(* cluster mode is.                                                        *)

Discover(a) ==
  /\ pc[a] = "idle"
  /\ Goto(a, "discovered")
  /\ asgsEmpty' = [asgsEmpty EXCEPT
                     ![a] = \A r \in Role : desired[r] = 0 /\ LiveIn(r) = {}]
  /\ UNCHANGED <<nodeVars, phase, unread, heard, successes, failures, delivered,
                 duplicates>>

RunSafetyChecks(a) ==
  /\ pc[a] = "discovered"
  /\ Goto(a, IF mode = "bootstrapping" /\ asgsEmpty[a] THEN "capacity" ELSE "failed")
  /\ UNCHANGED <<nodeVars, phase, asgsEmpty, unread, heard, successes, failures,
                 delivered, duplicates>>

-----------------------------------------------------------------------------
(* launchNodesWithRole.                                                    *)

SetCapacity(a) ==
  /\ pc[a] = "capacity"
  /\ SetDesiredCapacity(CurrentRole(a), Quota[CurrentRole(a)])
  /\ Goto(a, "opening")
  /\ UNCHANGED <<phase, asgsEmpty, unread, heard, successes, failures, delivered,
                 duplicates>>

(* A group whose maximum is below the number the workflow launches refuses *)
(* the capacity, and the run ends.                                         *)
SetCapacityRefused(a) ==
  /\ pc[a] = "capacity"
  /\ Quota[CurrentRole(a)] > MaxSize[CurrentRole(a)]
  /\ Goto(a, "failed")
  /\ UNCHANGED <<nodeVars, phase, asgsEmpty, unread, heard, successes, failures,
                 delivered, duplicates>>

(* StartLiveTail: the log group's events reach the run from here on.       *)
OpenTail(a) ==
  /\ pc[a] = "opening"
  /\ Goto(a, "waiting")
  /\ UNCHANGED <<nodeVars, phase, asgsEmpty, unread, heard, successes, failures,
                 delivered, duplicates>>

(* Mutant: an event that was read is read again.                           *)
Reread(a, e) == unread
Consumed(a, e) == [unread EXCEPT ![a] = @ \ {e}]

(* An event about a node of another role passes the tracker by.            *)
ReadOther(a, e) ==
  /\ pc[a] = "waiting"
  /\ e \in unread[a]
  /\ RoleOf[e.node] # CurrentRole(a)
  /\ unread' = Consumed(a, e)
  /\ UNCHANGED <<nodeVars, pc, phase, asgsEmpty, heard, successes, failures,
                 delivered, duplicates>>

(* MultiNodeEventTracker.Match appends an event about its own role to the  *)
(* successes or to the failures, whatever node it names.                   *)
Match(a, e) ==
  /\ pc[a] = "waiting"
  /\ e \in unread[a]
  /\ RoleOf[e.node] = CurrentRole(a)
  /\ heard' = [heard EXCEPT ![a] = @ \cup {e}]
  /\ IF e.type = "registered"
       THEN /\ successes' = [successes EXCEPT ![a][CurrentRole(a)] = @ + 1]
            /\ UNCHANGED failures
       ELSE /\ failures' = [failures EXCEPT ![a][CurrentRole(a)] = @ + 1]
            /\ UNCHANGED successes

\* How many events of its role a run has matched.
Matched(a) == successes[a][CurrentRole(a)] + failures[a][CurrentRole(a)]

ReadMatching(a, e) ==
  /\ Match(a, e)
  /\ Matched(a) + 1 < Quota[CurrentRole(a)]
  /\ unread' = Consumed(a, e)
  /\ UNCHANGED <<nodeVars, pc, phase, asgsEmpty, delivered, duplicates>>

(* Mutant: failures do not abort.                                          *)
AbortsNever(a) == FALSE
Aborts(a) == failures'[a][CurrentRole(a)] > 0

(* The tracker has as many events as nodes were asked for: the stream is   *)
(* closed, and one failure among them aborts the run.                      *)
ReadLast(a, e) ==
  /\ Match(a, e)
  /\ Matched(a) + 1 >= Quota[CurrentRole(a)]
  /\ unread' = [unread EXCEPT ![a] = {}]
  /\ \/ Aborts(a) /\ Goto(a, "failed") /\ UNCHANGED phase
     \/ ~Aborts(a) /\ AtLastRole(a) /\ Goto(a, "mode") /\ UNCHANGED phase
     \/ /\ ~Aborts(a) /\ ~AtLastRole(a)
        /\ Goto(a, "capacity")
        /\ phase' = [phase EXCEPT ![a] = @ + 1]
  /\ UNCHANGED <<nodeVars, asgsEmpty, delivered, duplicates>>

-----------------------------------------------------------------------------
(* The end of a launch.                                                    *)

SetClusterModeToLaunched(a) ==
  /\ pc[a] = "mode"
  /\ SetClusterMode("launched")
  /\ Goto(a, "retiring")
  /\ UNCHANGED <<phase, asgsEmpty, unread, heard, successes, failures, delivered,
                 duplicates>>

(* Mutant: the capacity is set to zero before the mode is set.             *)
RetireEarly(a) ==
  /\ pc[a] \in {"mode", "retiring"}
  /\ SetDesiredCapacity("bootstrapper", 0)
  /\ Goto(a, "refreshing")
  /\ phase' = [phase EXCEPT ![a] = 1]
  /\ UNCHANGED <<asgsEmpty, unread, heard, successes, failures, delivered,
                 duplicates>>

Retire(a) ==
  /\ pc[a] = "retiring"
  /\ SetDesiredCapacity("bootstrapper", 0)
  /\ Goto(a, "refreshing")
  /\ phase' = [phase EXCEPT ![a] = 1]
  /\ UNCHANGED <<asgsEmpty, unread, heard, successes, failures, delivered,
                 duplicates>>

(* A refresh that cannot be started is logged, and the next group's turn   *)
(* comes; a group is left out for its name, not its role.                  *)
Refresh(a) ==
  /\ pc[a] = "refreshing"
  /\ \/ CurrentRole(a) \notin BootstrapNamed /\ StartInstanceRefresh(CurrentRole(a))
     \/ UNCHANGED nodeVars
  /\ IF AtLastRole(a)
       THEN Goto(a, "done") /\ UNCHANGED phase
       ELSE phase' = [phase EXCEPT ![a] = @ + 1] /\ UNCHANGED pc
  /\ UNCHANGED <<asgsEmpty, unread, heard, successes, failures, delivered,
                 duplicates>>

(* An AWS call that fails, a stream that closes or errs (log.Fatalf), a    *)
(* missing group (nil) or an interrupt: the run is over, and what it did   *)
(* stays done.                                                             *)
Fail(a) ==
  /\ pc[a] \notin {"idle", "done", "failed"}
  /\ Goto(a, "failed")
  /\ unread' = [unread EXCEPT ![a] = {}]
  /\ UNCHANGED <<nodeVars, phase, asgsEmpty, heard, successes, failures,
                 delivered, duplicates>>

-----------------------------------------------------------------------------
(***************************************************************************)
(* The rule that copies the bus to the log group delivers an event at      *)
(* least once. An open live tail shows it; a run that has none open never  *)
(* sees it.                                                                *)
(***************************************************************************)
Deliver(e) ==
  /\ e \in published
  /\ \/ e \notin delivered /\ UNCHANGED duplicates
     \/ /\ e \in delivered /\ duplicates < MaxDuplicates
        /\ duplicates' = duplicates + 1
  /\ delivered' = delivered \cup {e}
  /\ unread' = [a \in Admin |->
                  IF pc[a] = "waiting" THEN unread[a] \cup {e} ELSE unread[a]]
  /\ UNCHANGED <<nodeVars, pc, phase, asgsEmpty, heard, successes, failures>>

Launching(a) ==
  \/ Discover(a) \/ RunSafetyChecks(a)
  \/ SetCapacity(a) \/ SetCapacityRefused(a) \/ OpenTail(a)
  \/ \E e \in Event : ReadOther(a, e) \/ ReadMatching(a, e) \/ ReadLast(a, e)
  \/ SetClusterModeToLaunched(a) \/ Retire(a) \/ Refresh(a)

Next ==
  \/ \E i \in Instance : NodeStep(i) /\ UNCHANGED adminVars
  \/ \E e \in Event : Deliver(e)
  \/ \E a \in Admin : Launching(a) \/ Fail(a)

(***************************************************************************)
(* Fairness: groups launch what is missing, scripts run on, the bus        *)
(* delivers, and a run takes its next step. Nothing has to fail, and no    *)
(* instance has to die or find a cluster.                                  *)
(***************************************************************************)
Fairness ==
  /\ \A i \in Instance :
       /\ WF_vars(Launch(i) /\ UNCHANGED adminVars)
       /\ WF_vars(Script(i) /\ UNCHANGED adminVars)
       /\ WF_vars(RegisterInstance(i) /\ UNCHANGED adminVars)
  /\ \A e \in Event : WF_vars(Deliver(e))
  /\ \A a \in Admin : WF_vars(Launching(a))

Spec == Init /\ [][Next]_vars
FairSpec == Spec /\ Fairness

-----------------------------------------------------------------------------
(***************************************************************************)
(* Properties.                                                             *)
(***************************************************************************)

(* Run a has seen as many successes of role r as it asked for, no failure. *)
Won(a, r) == successes[a][r] >= Quota[r] /\ failures[a][r] = 0

Counted(a, r) ==
  {i \in Instance : RoleOf[i] = r /\ Registered(i) \in heard[a]}

(* Nodes of a role are asked for only by a run that has won every role     *)
(* before it: no order of the events, no second run and no failure lets a  *)
(* later group start early (runner.go launches in sequence).               *)
LaunchOrder ==
  \A k \in DOMAIN Phases : desired[Phases[k]] > 0 =>
    k = 1 \/ \E a \in Admin : \A j \in 1..(k - 1) : Won(a, Phases[j])

(* The cluster is declared launched only by a run that has won every role. *)
LaunchEarned ==
  mode = "launched" =>
    \E a \in Admin : \A k \in DOMAIN Phases : Won(a, Phases[k])

(* Managers and data nodes are asked for only when a bootstrapper has      *)
(* founded its cluster and announced itself, so that the nodes that look   *)
(* for it have something to join.                                          *)
ManagersAfterFounding ==
  desired["cluster_manager"] > 0 \/ desired["data"] > 0 =>
    \E b \in Instance :
      Bootstrapper(b) /\ cluster[b] = b /\ Registered(b) \in published

(* The bootstrapper is kept until the cluster is launched: as long as its  *)
(* mode has nodes look for a bootstrapper, the group that runs one is up   *)
(* (runner.go sets the mode before it sets the capacity to zero).          *)
BootstrapperKept ==
  mode = "bootstrapping" /\ (\E r \in Role : desired[r] > 0) =>
    desired["bootstrapper"] > 0

(* Each success a run counts towards its quota is a node of its own.       *)
StartedNodesDistinct ==
  \A a \in Admin, r \in Role :
    Won(a, r) => Cardinality(Counted(a, r)) >= Quota[r]

(* All live nodes that are in a cluster are in the same one.               *)
SingleCluster ==
  \A i, j \in Instance :
    /\ Live(i) /\ cluster[i] # None
    /\ Live(j) /\ cluster[j] # None
    => cluster[i] = cluster[j]

(* No cluster is founded once the mode is launched: SpecializeOpenSearch-  *)
(* Conf refuses bootstrappers in that mode.                                *)
NoFoundingAfterLaunch ==
  [][mode = "launched" =>
       \A i \in Instance : cluster'[i] = i => cluster[i] = i]_vars

(* A node that has announced itself has joined a cluster, which is when    *)
(* the event is meant to be sent, or has an OpenSearch that is at least    *)
(* looking for one.                                                        *)
AnnouncedAfterJoin ==
  \A i \in Instance :
    stage[i] = "announced" => cluster[i] # None \/ conf[i] = "join"

(* What keeps a run from an answer: a node of its role that ended without  *)
(* an event or was terminated, or an event that no open tail of it saw.    *)
Unheard(a) ==
  \E i \in Instance :
    /\ RoleOf[i] = CurrentRole(a)
    /\ \/ stage[i] \in {"silent", "terminated"}
       \/ \E e \in delivered \ (heard[a] \cup unread[a]) : e.node = i

(* A run that was started ends, unless it waits for a node that stays      *)
(* silent or whose event it missed: a bootstrapper that fails is heard of, *)
(* and a group that is too small is not waited for.                        *)
RunEnds ==
  \A a \in Admin :
    pc[a] # "idle" ~> \/ pc[a] \in {"done", "failed"}
                      \/ pc[a] = "waiting" /\ Unheard(a)

-----------------------------------------------------------------------------
(***************************************************************************)
(* Why the launch order holds: what a run has counted was published, and   *)
(* where a run is says which roles it has won and what it did about them.  *)
(***************************************************************************)
EventsPublished ==
  /\ delivered \subseteq published
  /\ \A a \in Admin : unread[a] \cup heard[a] \subseteq delivered
  /\ \A a \in Admin, r \in Role : successes[a][r] > 0 => Counted(a, r) # {}

BeforeMode == {"idle", "discovered", "capacity", "opening", "waiting"}
AfterMode == {"retiring", "refreshing", "done"}

WonBefore(a, k) == \A j \in 1..(k - 1) : Won(a, Phases[j])

BootstrapperWanted == mode = "launched" \/ desired["bootstrapper"] > 0

InOrder(a) ==
  /\ pc[a] \in BeforeMode =>
       /\ WonBefore(a, phase[a])
       /\ \A j \in phase[a]..3 : successes[a][Phases[j]] < Quota[Phases[j]]
  /\ pc[a] \in AfterMode \cup {"mode"} => WonBefore(a, 4)
  /\ pc[a] \in {"idle", "discovered"} => phase[a] = 1
  /\ pc[a] \in AfterMode => mode = "launched"
  /\ \/ pc[a] \in {"opening", "waiting", "mode"}
     \/ pc[a] = "capacity" /\ phase[a] > 1
     => BootstrapperWanted

RunsInOrder == \A a \in Admin : InOrder(a)

IInv ==
  /\ TypeOK /\ FoundersRun /\ EventsPublished /\ RunsInOrder
  /\ LaunchOrder /\ LaunchEarned /\ BootstrapperKept

-----------------------------------------------------------------------------
(***************************************************************************)
(* One run implements the launch protocol.                                 *)
(***************************************************************************)
Protocol == INSTANCE LaunchProtocol WITH
  Node <- Instance,
  NodeRole <- RoleOf,
  Order <- Phases,
  Needed <- Quota,
  asked <- {r \in Role : desired[r] > 0 \/ (r = "bootstrapper" /\ mode = "launched")},
  announced <- {i \in Instance : Registered(i) \in published},
  launched <- mode = "launched",
  retired <- mode = "launched" /\ desired["bootstrapper"] = 0

ImplementsProtocol == Protocol!ProtocolSpec

=============================================================================

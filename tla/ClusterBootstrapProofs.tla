----------------------- MODULE ClusterBootstrapProofs -----------------------
(***************************************************************************)
(* Proofs about the bootstrapping workflow, for any number of runs at      *)
(* once, any instances and quotas, and any number of failures and repeated *)
(* events.                                                                 *)
(***************************************************************************)
EXTENDS ClusterBootstrap, ClusterNodesProofs, FiniteSetTheorems

(* The roles in their order.                                               *)
LEMMA PhasesAre ==
  /\ Len(Phases) = 3 /\ DOMAIN Phases = 1..3
  /\ Phases[1] = "bootstrapper" /\ Phases[2] = "cluster_manager" /\ Phases[3] = "data"
  /\ \A k \in 1..3 : Phases[k] \in Role
  /\ \A j, k \in 1..3 : Phases[j] = Phases[k] => j = k
BY DEF Phases, Role

(* An event that says a node is registered is that node's Registered.      *)
LEMMA RegisteredEvent ==
  ASSUME NEW e \in Event
  PROVE  /\ e.node \in Instance
         /\ e.type = "registered" => e = Registered(e.node)
BY DEF Event, Registered

(* A step of an instance leaves mode and capacities alone, and takes no    *)
(* event back.                                                             *)
LEMMA NodeStepFrame ==
  ASSUME NEW i \in Instance, NodeStep(i)
  PROVE  mode' = mode /\ desired' = desired /\ published \subseteq published'
BY DEF NodeStep, Launch, Terminate, Script, Specialize, SpecializeFails, Start,
   StartFails, CallRegister, SignalInitFailure, RegisterInstance,
   RegisterWithCloudMap, PublishRegistered, RegisterReturns, RegisterFails, Join,
   BecomeVisible, Cleanup

-----------------------------------------------------------------------------
(* Every step of a run keeps the types.                                    *)
LEMMA LaunchingType ==
  ASSUME TypeOK, NEW a \in Admin, Launching(a) \/ Fail(a)
  PROVE  TypeOK'
<1> USE BootstrapAssumption, PhasesAre DEF TypeOK, AdminTypeOK, Goto, Step
<1>0. CurrentRole(a) \in Role
  BY DEF CurrentRole
<1>a. ~AtLastRole(a) => phase[a] + 1 \in 1..3
  BY DEF AtLastRole
<1>1. CASE Discover(a)
  BY <1>1 DEF Discover, nodeVars, NodesTypeOK
<1>2. CASE RunSafetyChecks(a) \/ SetCapacityRefused(a) \/ OpenTail(a) \/ Fail(a)
  <2>1. UNCHANGED nodeVars => NodesTypeOK'
    BY DEF nodeVars, NodesTypeOK
  <2>2. UNCHANGED nodeVars /\ pc' \in [Admin -> Step]
    BY <1>2 DEF RunSafetyChecks, SetCapacityRefused, OpenTail, Fail
  <2>3. unread' \in [Admin -> SUBSET Event]
    BY <1>2 DEF RunSafetyChecks, SetCapacityRefused, OpenTail, Fail
  <2> QED BY <1>2, <2>1, <2>2, <2>3 DEF RunSafetyChecks, SetCapacityRefused,
          OpenTail, Fail
<1>3. CASE SetCapacity(a)
  <2>1. NodesTypeOK'
    BY <1>0, <1>3, ControlType DEF SetCapacity
  <2> QED BY <2>1, <1>3 DEF SetCapacity
<1>4. ASSUME NEW e \in Event, ReadOther(a, e)
      PROVE  TypeOK'
  BY <1>4 DEF ReadOther, Consumed, nodeVars, NodesTypeOK
<1>5. ASSUME NEW e \in Event, Match(a, e)
      PROVE  /\ heard' \in [Admin -> SUBSET Event]
             /\ successes' \in [Admin -> [Role -> Nat]]
             /\ failures' \in [Admin -> [Role -> Nat]]
  <2>1. heard' \in [Admin -> SUBSET Event]
    BY <1>5 DEF Match
  <2>2. ASSUME NEW f \in [Admin -> [Role -> Nat]]
        PROVE  [f EXCEPT ![a][CurrentRole(a)] = @ + 1] \in [Admin -> [Role -> Nat]]
    <3>1. f[a] \in [Role -> Nat] /\ f[a][CurrentRole(a)] + 1 \in Nat
      BY <1>0, <2>2
    <3>2. [f[a] EXCEPT ![CurrentRole(a)] = @ + 1] \in [Role -> Nat]
      BY <1>0, <3>1
    <3> QED BY <3>2
  <2>3. successes' \in [Admin -> [Role -> Nat]]
    <3>1. successes \in [Admin -> [Role -> Nat]]
      OBVIOUS
    <3>2. CASE successes' = [successes EXCEPT ![a][CurrentRole(a)] = @ + 1]
      BY <2>2, <3>1, <3>2
    <3>3. CASE successes' = successes
      BY <3>1, <3>3
    <3> QED BY <1>5, <3>2, <3>3 DEF Match
  <2>4. failures' \in [Admin -> [Role -> Nat]]
    <3>1. failures \in [Admin -> [Role -> Nat]]
      OBVIOUS
    <3>2. CASE failures' = [failures EXCEPT ![a][CurrentRole(a)] = @ + 1]
      BY <2>2, <3>1, <3>2
    <3>3. CASE failures' = failures
      BY <3>1, <3>3
    <3> QED BY <1>5, <3>2, <3>3 DEF Match
  <2> QED BY <2>1, <2>3, <2>4
<1>6. ASSUME NEW e \in Event, ReadMatching(a, e)
      PROVE  TypeOK'
  BY <1>5, <1>6 DEF ReadMatching, Consumed, nodeVars, NodesTypeOK
<1>7. ASSUME NEW e \in Event, ReadLast(a, e)
      PROVE  TypeOK'
  <2>1. phase' \in [Admin -> 1..3] /\ pc' \in [Admin -> Step]
    BY <1>7, <1>a DEF ReadLast
  <2> QED BY <1>5, <1>7, <2>1 DEF ReadLast, nodeVars, NodesTypeOK
<1>8. CASE SetClusterModeToLaunched(a)
  <2>1. NodesTypeOK'
    BY <1>8, ControlType DEF SetClusterModeToLaunched, Mode
  <2> QED BY <2>1, <1>8 DEF SetClusterModeToLaunched
<1>9. CASE Retire(a)
  <2>1. NodesTypeOK'
    BY <1>9, ControlType DEF Retire
  <2> QED BY <2>1, <1>9 DEF Retire
<1>10. CASE Refresh(a)
  <2>1. NodesTypeOK'
    BY <1>0, <1>10, ControlType DEF Refresh, nodeVars, NodesTypeOK
  <2>2. phase' \in [Admin -> 1..3] /\ pc' \in [Admin -> Step]
    BY <1>10, <1>a DEF Refresh
  <2> QED BY <2>1, <2>2, <1>10 DEF Refresh
<1> QED BY <1>1, <1>2, <1>3, <1>4, <1>6, <1>7, <1>8, <1>9, <1>10 DEF Launching

(* Every step keeps the types.                                             *)
LEMMA NextType == TypeOK /\ [Next]_vars => TypeOK'
<1> SUFFICES ASSUME TypeOK, [Next]_vars PROVE TypeOK'
  OBVIOUS
<1>1. ASSUME NEW i \in Instance, NodeStep(i), UNCHANGED adminVars
      PROVE  TypeOK'
  BY <1>1, NodeStepType DEF TypeOK, AdminTypeOK, adminVars
<1>2. ASSUME NEW e \in Event, Deliver(e)
      PROVE  TypeOK'
  BY <1>2, BootstrapAssumption DEF TypeOK, AdminTypeOK, Deliver, nodeVars, NodesTypeOK
<1>3. CASE UNCHANGED vars
  BY <1>3 DEF vars, TypeOK, AdminTypeOK, NodesTypeOK
<1> QED BY <1>1, <1>2, <1>3, LaunchingType DEF Next

-----------------------------------------------------------------------------
(* An event that is matched adds one to one count of its run, for the role *)
(* the run is waiting for.                                                 *)
LEMMA MatchCounts ==
  ASSUME TypeOK, NEW a \in Admin, NEW e \in Event, Match(a, e)
  PROVE  /\ successes'[a][CurrentRole(a)] + failures'[a][CurrentRole(a)] = Matched(a) + 1
         /\ \A c \in Admin, r \in Role : c # a \/ r # CurrentRole(a) =>
              successes'[c][r] = successes[c][r] /\ failures'[c][r] = failures[c][r]
         /\ successes'[a][CurrentRole(a)] > successes[a][CurrentRole(a)] =>
              e = Registered(e.node)
         /\ heard' = [heard EXCEPT ![a] = @ \cup {e}]
<1> USE PhasesAre, RegisteredEvent DEF TypeOK, AdminTypeOK
<1>1. CurrentRole(a) \in Role
  BY DEF CurrentRole
<1>2. /\ successes[a] \in [Role -> Nat] /\ failures[a] \in [Role -> Nat]
      /\ successes[a][CurrentRole(a)] \in Nat /\ failures[a][CurrentRole(a)] \in Nat
  BY <1>1
<1>3. ASSUME NEW f \in [Admin -> [Role -> Nat]],
             NEW g, g = [f EXCEPT ![a][CurrentRole(a)] = @ + 1]
      PROVE  /\ g[a][CurrentRole(a)] = f[a][CurrentRole(a)] + 1
             /\ \A c \in Admin, r \in Role :
                  c # a \/ r # CurrentRole(a) => g[c][r] = f[c][r]
  <2>1. g[a] = [f[a] EXCEPT ![CurrentRole(a)] = @ + 1]
    BY <1>3
  <2>2. \A c \in Admin : c # a => g[c] = f[c]
    BY <1>3
  <2> QED BY <1>1, <2>1, <2>2
<1>4. heard' = [heard EXCEPT ![a] = @ \cup {e}]
  BY DEF Match
<1>5. CASE e.type = "registered"
  <2>1. successes' = [successes EXCEPT ![a][CurrentRole(a)] = @ + 1]
        /\ failures' = failures
    BY <1>5 DEF Match
  <2>2. /\ successes'[a][CurrentRole(a)] = successes[a][CurrentRole(a)] + 1
        /\ \A c \in Admin, r \in Role :
             c # a \/ r # CurrentRole(a) => successes'[c][r] = successes[c][r]
    BY <1>3, <2>1
  <2>3. successes'[a][CurrentRole(a)] + failures'[a][CurrentRole(a)] = Matched(a) + 1
    BY <1>2, <2>1, <2>2 DEF Matched
  <2>4. \A c \in Admin, r \in Role : failures'[c][r] = failures[c][r]
    BY <2>1
  <2>5. e = Registered(e.node)
    BY <1>5
  <2> QED BY <1>4, <2>2, <2>3, <2>4, <2>5
<1>6. CASE e.type # "registered"
  <2>1. failures' = [failures EXCEPT ![a][CurrentRole(a)] = @ + 1]
        /\ successes' = successes
    BY <1>6 DEF Match
  <2>2. /\ failures'[a][CurrentRole(a)] = failures[a][CurrentRole(a)] + 1
        /\ \A c \in Admin, r \in Role :
             c # a \/ r # CurrentRole(a) => failures'[c][r] = failures[c][r]
    BY <1>3, <2>1
  <2>3. successes'[a][CurrentRole(a)] + failures'[a][CurrentRole(a)] = Matched(a) + 1
    BY <1>2, <2>1, <2>2 DEF Matched
  <2>4. ~(successes'[a][CurrentRole(a)] > successes[a][CurrentRole(a)])
    BY <1>2, <2>1
  <2>5. \A c \in Admin, r \in Role : successes'[c][r] = successes[c][r]
    BY <2>1
  <2> QED BY <1>4, <2>2, <2>3, <2>4, <2>5
<1> QED BY <1>5, <1>6

(* Only a run that reads a matching event changes counts, and only its     *)
(* own: every other step leaves the counts and the matched events alone.   *)
LEMMA StepKinds ==
  ASSUME [Next]_vars
  PROVE  \/ UNCHANGED <<heard, successes, failures>>
         \/ \E a \in Admin, e \in Event :
              Match(a, e) /\ (ReadMatching(a, e) \/ ReadLast(a, e))
BY DEF Next, vars, adminVars, Deliver, Launching, Fail, Discover, RunSafetyChecks,
   SetCapacity, SetCapacityRefused, OpenTail, ReadOther, ReadMatching, ReadLast,
   SetClusterModeToLaunched, Retire, Refresh

(* A role that a run has won stays won: the run counts nothing for it any  *)
(* more.                                                                   *)
LEMMA WonStays ==
  ASSUME TypeOK, RunsInOrder, [Next]_vars, NEW c \in Admin, NEW r \in Role, Won(c, r)
  PROVE  Won(c, r)'
<1>1. CASE UNCHANGED <<heard, successes, failures>>
  BY <1>1 DEF Won
<1>2. ASSUME NEW a \in Admin, NEW e \in Event, Match(a, e)
      PROVE  Won(c, r)'
  <2>1. pc[a] = "waiting" /\ phase[a] \in 1..3
    BY <1>2 DEF Match, TypeOK, AdminTypeOK
  <2>2. successes[a][CurrentRole(a)] < Quota[CurrentRole(a)]
    BY <2>1 DEF RunsInOrder, InOrder, BeforeMode, CurrentRole
  <2>3. CurrentRole(a) \in Role
    BY <2>1, PhasesAre DEF CurrentRole
  <2>4. ~Won(a, CurrentRole(a))
    BY <2>2, <2>3, BootstrapAssumption DEF Won, TypeOK, AdminTypeOK
  <2>5. c # a \/ r # CurrentRole(a)
    BY <2>4
  <2> QED BY <1>2, <2>5, MatchCounts DEF Won
<1> QED BY <1>1, <1>2, StepKinds

-----------------------------------------------------------------------------
(* What a run has counted was published, after any step.                   *)
LEMMA NextEvents ==
  ASSUME TypeOK, EventsPublished, [Next]_vars
  PROVE  EventsPublished'
<1> USE DEF EventsPublished
<1>1. published \subseteq published'
  BY NodeStepFrame DEF Next, vars, nodeVars, Deliver, Launching, Fail, Discover,
     RunSafetyChecks, SetCapacity, SetCapacityRefused, OpenTail, ReadOther,
     ReadMatching, ReadLast, SetClusterModeToLaunched, Retire, Refresh,
     SetDesiredCapacity, SetClusterMode, StartInstanceRefresh
<1>2. /\ delivered' \subseteq published'
      /\ delivered \subseteq delivered'
  BY <1>1 DEF Next, vars, nodeVars, adminVars, Deliver, Launching, Fail, Discover,
     RunSafetyChecks, SetCapacity, SetCapacityRefused, OpenTail, ReadOther,
     ReadMatching, ReadLast, SetClusterModeToLaunched, Retire, Refresh
<1>3. \A a \in Admin : unread'[a] \subseteq delivered'
  <2>1. \A a \in Admin : unread'[a] \subseteq unread[a] \cup delivered'
    BY DEF TypeOK, AdminTypeOK, Next, vars, nodeVars, adminVars, Deliver, Launching,
       Fail, Discover, RunSafetyChecks, SetCapacity, SetCapacityRefused, OpenTail,
       ReadOther, ReadMatching, ReadLast, SetClusterModeToLaunched, Retire, Refresh,
       Consumed
  <2> QED BY <1>2, <2>1
<1>4. CASE UNCHANGED <<heard, successes, failures>>
  BY <1>2, <1>3, <1>4 DEF Counted
<1>5. ASSUME NEW a \in Admin, NEW e \in Event, Match(a, e)
      PROVE  EventsPublished'
  <2>1. e \in delivered
    BY <1>5 DEF Match
  <2>2. heard' = [heard EXCEPT ![a] = @ \cup {e}]
    BY <1>5 DEF Match
  <2>3. \A c \in Admin : heard[c] \subseteq heard'[c] /\ heard'[c] \subseteq delivered'
    BY <1>2, <2>1, <2>2 DEF TypeOK, AdminTypeOK
  <2>4. ASSUME NEW c \in Admin, NEW r \in Role, successes'[c][r] > 0
        PROVE  Counted(c, r)' # {}
    <3>1. CASE successes[c][r] > 0
      BY <2>3, <3>1 DEF Counted
    <3>2. CASE ~(successes[c][r] > 0)
      <4>1. successes[c][r] \in Nat
        BY DEF TypeOK, AdminTypeOK
      <4>2. successes[c][r] = 0
        BY <3>2, <4>1
      <4>3. c = a /\ r = CurrentRole(a)
        BY <1>5, <2>4, <4>2, MatchCounts
      <4>4. e = Registered(e.node)
        BY <1>5, <2>4, <4>2, <4>3, MatchCounts
      <4>5. e.node \in Instance /\ RoleOf[e.node] = r /\ e \in heard'[c]
        BY <1>5, <2>2, <4>3, RegisteredEvent DEF Match, TypeOK, AdminTypeOK
      <4> QED BY <4>4, <4>5 DEF Counted
    <3> QED BY <3>1, <3>2
  <2> QED BY <1>2, <1>3, <2>3, <2>4
<1> QED BY <1>4, <1>5, StepKinds

-----------------------------------------------------------------------------
(* The mode never goes back, and the bootstrapper's group is not emptied   *)
(* before it: what a run needs of the two, it keeps.                       *)
LEMMA WantedStays ==
  ASSUME TypeOK, RunsInOrder, [Next]_vars, BootstrapperWanted
  PROVE  BootstrapperWanted'
<1>1. CASE mode' = mode /\ desired' = desired
  BY <1>1 DEF BootstrapperWanted
<1>2. ASSUME NEW a \in Admin, SetCapacity(a)
      PROVE  BootstrapperWanted'
  <2>1. CurrentRole(a) \in Role
    BY PhasesAre DEF CurrentRole, TypeOK, AdminTypeOK
  <2>2. Quota[CurrentRole(a)] > 0
    BY <2>1, BootstrapAssumption
  <2> QED BY <1>2, <2>1, <2>2 DEF SetCapacity, SetDesiredCapacity, BootstrapperWanted,
          TypeOK, NodesTypeOK
<1>3. ASSUME NEW a \in Admin, SetClusterModeToLaunched(a)
      PROVE  BootstrapperWanted'
  BY <1>3 DEF SetClusterModeToLaunched, SetClusterMode, BootstrapperWanted
<1>4. ASSUME NEW a \in Admin, Retire(a)
      PROVE  BootstrapperWanted'
  <2>1. mode = "launched"
    BY <1>4 DEF Retire, RunsInOrder, InOrder, AfterMode
  <2> QED BY <1>4, <2>1 DEF Retire, SetDesiredCapacity, BootstrapperWanted
<1>5. \/ mode' = mode /\ desired' = desired
      \/ \E a \in Admin :
           SetCapacity(a) \/ SetClusterModeToLaunched(a) \/ Retire(a)
  BY NodeStepFrame DEF Next, vars, nodeVars, Deliver, Launching, Fail, Discover,
     RunSafetyChecks, SetCapacityRefused, OpenTail, ReadOther, ReadMatching,
     ReadLast, Refresh, StartInstanceRefresh
<1> QED BY <1>1, <1>2, <1>3, <1>4, <1>5

(* A launched cluster stays launched.                                      *)
LEMMA LaunchedStays ==
  ASSUME [Next]_vars, mode = "launched"
  PROVE  mode' = "launched"
BY NodeStepFrame DEF Next, vars, nodeVars, Deliver, Launching, Fail, Discover,
   RunSafetyChecks, SetCapacity, SetCapacityRefused, OpenTail, ReadOther,
   ReadMatching, ReadLast, SetClusterModeToLaunched, Retire, Refresh,
   SetDesiredCapacity, SetClusterMode, StartInstanceRefresh

(* A run that does not move keeps its place while others do.               *)
LEMMA StandingRun ==
  ASSUME TypeOK, RunsInOrder, [Next]_vars, NEW c \in Admin,
         pc'[c] = pc[c], phase'[c] = phase[c], successes'[c] = successes[c]
  PROVE  InOrder(c)'
<1>1. InOrder(c) /\ phase[c] \in 1..3
  BY DEF RunsInOrder, TypeOK, AdminTypeOK
<1>2. ASSUME NEW k \in 1..4, WonBefore(c, k)
      PROVE  WonBefore(c, k)'
  BY <1>2, WonStays, PhasesAre DEF WonBefore
<1> QED BY <1>1, <1>2, WantedStays, LaunchedStays DEF InOrder, WonBefore

(* A run that takes a step gets to where the roles it has won allow.       *)
LEMMA MovingRun ==
  ASSUME TypeOK, RunsInOrder, [Next]_vars, NEW a \in Admin, Launching(a) \/ Fail(a)
  PROVE  InOrder(a)'
<1> USE DEF Goto, BeforeMode, AfterMode
<1>1. InOrder(a) /\ phase[a] \in 1..3 /\ CurrentRole(a) \in Role /\ TypeOK'
  BY NextType, PhasesAre DEF RunsInOrder, TypeOK, AdminTypeOK, CurrentRole
<1>2. ASSUME NEW k \in 1..4, WonBefore(a, k)
      PROVE  WonBefore(a, k)'
  BY <1>2, WonStays, PhasesAre DEF WonBefore
<1>3. pc[a] \in Step /\ pc \in [Admin -> Step] /\ phase \in [Admin -> 1..3]
  BY DEF TypeOK, AdminTypeOK
<1>4. CASE Discover(a) \/ RunSafetyChecks(a) \/ SetCapacityRefused(a) \/ Fail(a)
  BY <1>1, <1>2, <1>3, <1>4 DEF Discover, RunSafetyChecks, SetCapacityRefused, Fail,
     InOrder
<1>5. CASE SetCapacity(a)
  <2>1. desired'["bootstrapper"] > 0 \/ BootstrapperWanted
    <3>1. CASE phase[a] = 1
      <4>1. CurrentRole(a) = "bootstrapper" /\ Quota["bootstrapper"] > 0
        BY <3>1, PhasesAre, BootstrapAssumption DEF CurrentRole, Role
      <4>2. desired' = [desired EXCEPT !["bootstrapper"] = Quota["bootstrapper"]]
        BY <1>5, <4>1 DEF SetCapacity, SetDesiredCapacity
      <4> QED BY <4>1, <4>2 DEF TypeOK, NodesTypeOK, Role
    <3>2. CASE phase[a] > 1
      BY <1>1, <1>5, <3>2 DEF InOrder, SetCapacity
    <3> QED BY <1>1, <3>1, <3>2
  <2>2. BootstrapperWanted'
    BY <2>1, WantedStays DEF BootstrapperWanted
  <2>3. UNCHANGED <<phase, successes>> /\ pc[a] = "capacity" /\ pc'[a] = "opening"
    BY <1>3, <1>5 DEF SetCapacity
  <2> QED BY <1>1, <1>2, <2>2, <2>3 DEF InOrder
<1>6. CASE OpenTail(a)
  BY <1>1, <1>2, <1>3, <1>6, WantedStays DEF OpenTail, InOrder
<1>7. ASSUME NEW e \in Event, ReadOther(a, e)
      PROVE  InOrder(a)'
  BY <1>7, StandingRun DEF ReadOther
<1>8. ASSUME NEW e \in Event, ReadMatching(a, e)
      PROVE  InOrder(a)'
  <2>1. UNCHANGED <<pc, phase>> /\ pc[a] = "waiting" /\ Match(a, e)
    BY <1>8 DEF ReadMatching, Match
  <2>2. successes'[a][CurrentRole(a)] < Quota[CurrentRole(a)]
    <3>1. successes'[a][CurrentRole(a)] + failures'[a][CurrentRole(a)] < Quota[CurrentRole(a)]
      BY <1>8, <2>1, MatchCounts DEF ReadMatching
    <3>2. /\ successes'[a][CurrentRole(a)] \in Nat
          /\ failures'[a][CurrentRole(a)] \in Nat
          /\ Quota[CurrentRole(a)] \in Nat
      BY <1>1, BootstrapAssumption DEF TypeOK, AdminTypeOK
    <3> QED BY <3>1, <3>2
  <2>3. \A j \in phase[a]..3 : successes'[a][Phases[j]] < Quota[Phases[j]]
    BY <1>1, <2>1, <2>2, MatchCounts, PhasesAre DEF InOrder, CurrentRole
  <2> QED BY <1>1, <1>2, <2>1, <2>3, WantedStays DEF InOrder
<1>9. ASSUME NEW e \in Event, ReadLast(a, e)
      PROVE  InOrder(a)'
  <2>1. pc[a] = "waiting" /\ Match(a, e)
    BY <1>9 DEF ReadLast, Match
  <2>2. CASE Aborts(a)
    BY <1>3, <1>9, <2>2 DEF ReadLast, InOrder
  <2>3. CASE ~Aborts(a)
    <3>1. ASSUME NEW r \in Role, r = CurrentRole(a)
          PROVE  Won(a, r)'
      <4>1. /\ successes'[a][CurrentRole(a)] + failures'[a][CurrentRole(a)]
                 >= Quota[CurrentRole(a)]
            /\ ~(failures'[a][CurrentRole(a)] > 0)
        BY <1>9, <2>1, <2>3, MatchCounts DEF ReadLast, Aborts
      <4>2. /\ successes'[a][CurrentRole(a)] \in Nat
            /\ failures'[a][CurrentRole(a)] \in Nat
            /\ Quota[CurrentRole(a)] \in Nat
        BY <1>1, BootstrapAssumption DEF TypeOK, AdminTypeOK
      <4>3. /\ successes'[a][CurrentRole(a)] >= Quota[CurrentRole(a)]
            /\ failures'[a][CurrentRole(a)] = 0
        BY <4>1, <4>2
      <4> QED BY <3>1, <4>3 DEF Won
    <3>2. \A j \in 1..phase[a] : Won(a, Phases[j])'
      <4>1. \A j \in 1..(phase[a] - 1) : Won(a, Phases[j])'
        BY <1>1, <1>2, <2>1 DEF InOrder, WonBefore
      <4>2. ASSUME NEW j \in 1..3, j = phase[a]
            PROVE  Won(a, Phases[j])'
        BY <3>1, <4>2, PhasesAre DEF CurrentRole
      <4> QED BY <1>1, <4>1, <4>2
    <3>3. CASE AtLastRole(a)
      <4>1. phase[a] = 3 /\ pc'[a] = "mode" /\ UNCHANGED phase
        BY <1>3, <1>9, <2>3, <3>3, PhasesAre DEF ReadLast, AtLastRole
      <4> QED BY <1>1, <2>1, <3>2, <4>1, WantedStays DEF InOrder, WonBefore
    <3>4. CASE ~AtLastRole(a)
      <4>1. /\ phase[a] < 3 /\ phase'[a] = phase[a] + 1
            /\ pc'[a] = "capacity"
        BY <1>1, <1>3, <1>9, <2>3, <3>4, PhasesAre DEF ReadLast, AtLastRole
      <4>2. \A j \in (phase[a] + 1)..3 : successes'[a][Phases[j]] = successes[a][Phases[j]]
        BY <1>1, <2>1, MatchCounts, PhasesAre DEF CurrentRole
      <4>3. \A j \in (phase[a] + 1)..3 : successes'[a][Phases[j]] < Quota[Phases[j]]
        BY <1>1, <2>1, <4>2 DEF InOrder
      <4> QED BY <1>1, <2>1, <3>2, <4>1, <4>3, WantedStays DEF InOrder, WonBefore
    <3> QED BY <3>3, <3>4
  <2> QED BY <2>2, <2>3
<1>10. CASE SetClusterModeToLaunched(a)
  BY <1>1, <1>2, <1>3, <1>10 DEF SetClusterModeToLaunched, SetClusterMode, InOrder
<1>11. CASE Retire(a)
  BY <1>1, <1>2, <1>3, <1>11, LaunchedStays DEF Retire, InOrder
<1>12. CASE Refresh(a)
  BY <1>1, <1>2, <1>3, <1>12, LaunchedStays DEF Refresh, InOrder
<1> QED BY <1>4, <1>5, <1>6, <1>7, <1>8, <1>9, <1>10, <1>11, <1>12 DEF Launching

(* So every run stays in order, whoever takes the step.                    *)
LEMMA NextRunsInOrder ==
  ASSUME TypeOK, RunsInOrder, [Next]_vars
  PROVE  RunsInOrder'
<1> SUFFICES ASSUME NEW c \in Admin PROVE InOrder(c)'
  BY DEF RunsInOrder
<1>1. ASSUME NEW a \in Admin, Launching(a) \/ Fail(a), a # c
      PROVE  pc'[c] = pc[c] /\ phase'[c] = phase[c] /\ successes'[c] = successes[c]
  BY <1>1 DEF TypeOK, AdminTypeOK, Goto, Launching, Fail, Discover, RunSafetyChecks,
     SetCapacity, SetCapacityRefused, OpenTail, ReadOther, ReadMatching, ReadLast,
     Match, SetClusterModeToLaunched, Retire, Refresh
<1>2. CASE UNCHANGED <<pc, phase, successes>>
  BY <1>2, StandingRun
<1>3. \/ UNCHANGED <<pc, phase, successes>>
      \/ \E a \in Admin : Launching(a) \/ Fail(a)
  BY DEF Next, vars, adminVars, Deliver
<1> QED BY <1>1, <1>2, <1>3, StandingRun, MovingRun

-----------------------------------------------------------------------------
(* Capacities: a role's group is empty, or was asked to grow by a run that *)
(* had won every role before it.                                           *)
LEMMA NextLaunchOrder ==
  ASSUME TypeOK, RunsInOrder, LaunchOrder, [Next]_vars
  PROVE  LaunchOrder'
<1> SUFFICES ASSUME NEW k \in 1..3, desired'[Phases[k]] > 0, k # 1
             PROVE  \E c \in Admin : \A j \in 1..(k - 1) : Won(c, Phases[j])'
  BY PhasesAre DEF LaunchOrder
<1>1. CASE desired[Phases[k]] > 0
  <2>1. PICK c \in Admin : \A j \in 1..(k - 1) : Won(c, Phases[j])
    BY <1>1, PhasesAre DEF LaunchOrder
  <2> QED BY <2>1, WonStays, PhasesAre
<1>2. CASE ~(desired[Phases[k]] > 0)
  <2>1. PICK a \in Admin : SetCapacity(a) \/ Retire(a)
    BY <1>2, NodeStepFrame DEF Next, vars, nodeVars, Deliver, Launching, Fail,
       Discover, RunSafetyChecks, SetCapacityRefused, OpenTail, ReadOther,
       ReadMatching, ReadLast, SetClusterModeToLaunched, SetClusterMode, Refresh,
       StartInstanceRefresh
  <2>2. CASE SetCapacity(a)
    <3>1. phase[a] \in 1..3 /\ CurrentRole(a) = Phases[k]
      BY <1>2, <2>2, PhasesAre DEF SetCapacity, SetDesiredCapacity, CurrentRole,
         TypeOK, NodesTypeOK, AdminTypeOK
    <3>2. phase[a] = k
      BY <3>1, PhasesAre DEF CurrentRole
    <3>3. WonBefore(a, k)
      BY <2>2, <3>2 DEF SetCapacity, RunsInOrder, InOrder, BeforeMode
    <3> QED BY <3>3, WonStays, PhasesAre DEF WonBefore
  <2>3. CASE Retire(a)
    BY <1>2, <2>3, PhasesAre DEF Retire, SetDesiredCapacity, TypeOK, NodesTypeOK
  <2> QED BY <2>1, <2>2, <2>3
<1> QED BY <1>1, <1>2

(* The mode: it is launched once some run has won every role.              *)
LEMMA NextLaunchEarned ==
  ASSUME TypeOK, RunsInOrder, LaunchEarned, [Next]_vars
  PROVE  LaunchEarned'
<1> SUFFICES ASSUME mode' = "launched"
             PROVE  \E c \in Admin : \A k \in 1..3 : Won(c, Phases[k])'
  BY PhasesAre DEF LaunchEarned
<1>1. \E c \in Admin : \A k \in 1..3 : Won(c, Phases[k])
  <2>1. CASE mode = "launched"
    BY <2>1, PhasesAre DEF LaunchEarned
  <2>2. ASSUME NEW a \in Admin, SetClusterModeToLaunched(a)
        PROVE  WonBefore(a, 4)
    BY <2>2 DEF SetClusterModeToLaunched, RunsInOrder, InOrder
  <2>3. mode = "launched" \/ \E a \in Admin : SetClusterModeToLaunched(a)
    BY NodeStepFrame DEF Next, vars, nodeVars, Deliver, Launching, Fail, Discover,
       RunSafetyChecks, SetCapacity, SetCapacityRefused, OpenTail, ReadOther,
       ReadMatching, ReadLast, Retire, Refresh, SetDesiredCapacity,
       StartInstanceRefresh
  <2> QED BY <2>1, <2>2, <2>3 DEF WonBefore
<1> QED BY <1>1, WonStays, PhasesAre

(* The bootstrapper's group: while the cluster is bootstrapping, nothing   *)
(* else is up without it.                                                  *)
LEMMA NextBootstrapperKept ==
  ASSUME TypeOK, RunsInOrder, BootstrapperKept, [Next]_vars
  PROVE  BootstrapperKept'
<1> SUFFICES ASSUME mode' = "bootstrapping", NEW r \in Role, desired'[r] > 0
             PROVE  desired'["bootstrapper"] > 0
  BY DEF BootstrapperKept
<1>1. CASE desired[r] > 0
  <2>1. mode = "bootstrapping"
    BY LaunchedStays DEF TypeOK, NodesTypeOK, Mode
  <2>2. BootstrapperWanted
    BY <1>1, <2>1 DEF BootstrapperKept, BootstrapperWanted
  <2> QED BY <2>2, WantedStays DEF BootstrapperWanted
<1>2. CASE ~(desired[r] > 0)
  <2>1. PICK a \in Admin : SetCapacity(a) \/ Retire(a)
    BY <1>2, NodeStepFrame DEF Next, vars, nodeVars, Deliver, Launching, Fail,
       Discover, RunSafetyChecks, SetCapacityRefused, OpenTail, ReadOther,
       ReadMatching, ReadLast, SetClusterModeToLaunched, SetClusterMode, Refresh,
       StartInstanceRefresh
  <2>2. SetCapacity(a) /\ r = CurrentRole(a)
    BY <1>2, <2>1 DEF SetCapacity, Retire, SetDesiredCapacity, TypeOK, NodesTypeOK
  <2>3. CASE phase[a] = 1
    BY <2>2, <2>3, PhasesAre DEF CurrentRole
  <2>4. CASE phase[a] > 1
    <3>1. BootstrapperWanted
      BY <2>2, <2>4 DEF SetCapacity, RunsInOrder, InOrder
    <3> QED BY <3>1, WantedStays DEF BootstrapperWanted
  <2> QED BY <2>3, <2>4 DEF TypeOK, AdminTypeOK
<1> QED BY <1>1, <1>2

-----------------------------------------------------------------------------
(* A bootstrapper's set-up is no more disturbed by runs than by nodes.     *)
LEMMA NextFounders ==
  ASSUME TypeOK, FoundersRun, [Next]_vars
  PROVE  FoundersRun'
<1>1. ASSUME NEW i \in Instance, NodeStep(i)
      PROVE  FoundersRun'
  BY <1>1, NodeStepFounders DEF TypeOK
<1>2. CASE \/ \E r \in Role, n \in Nat : SetDesiredCapacity(r, n)
           \/ \E m \in Mode : SetClusterMode(m)
           \/ \E r \in Role : StartInstanceRefresh(r)
  BY <1>2, ControlKeeps
<1>3. CASE UNCHANGED nodeVars
  BY <1>3 DEF nodeVars, FoundersRun, Bootstrapper
<1>4. ASSUME NEW a \in Admin, Launching(a)
      PROVE  \/ \E r \in Role, n \in Nat : SetDesiredCapacity(r, n)
             \/ \E m \in Mode : SetClusterMode(m)
             \/ \E r \in Role : StartInstanceRefresh(r)
             \/ UNCHANGED nodeVars
  <2>1. CurrentRole(a) \in Role /\ Quota[CurrentRole(a)] \in Nat
    BY PhasesAre, BootstrapAssumption DEF CurrentRole, TypeOK, AdminTypeOK
  <2>2. "bootstrapper" \in Role /\ 0 \in Nat /\ "launched" \in Mode
    BY DEF Role, Mode
  <2> QED BY <1>4, <2>1, <2>2 DEF Launching, Discover, RunSafetyChecks, SetCapacity,
          SetCapacityRefused, OpenTail, ReadOther, ReadMatching, ReadLast,
          SetClusterModeToLaunched, Retire, Refresh
<1> QED BY <1>1, <1>2, <1>3, <1>4 DEF Next, vars, nodeVars, Deliver, Fail

(* The initial states satisfy the inductive invariant.                     *)
LEMMA InitIInv == Init => IInv
<1> SUFFICES ASSUME Init PROVE IInv
  OBVIOUS
<1> USE PhasesAre, BootstrapAssumption DEF Init
<1>1. NodesTypeOK /\ FoundersRun
  BY NodesInitIInv DEF NodesIInv
<1>2. AdminTypeOK
  BY DEF AdminTypeOK, Step
<1>3. EventsPublished
  BY DEF EventsPublished
<1>4. RunsInOrder
  BY DEF RunsInOrder, InOrder, WonBefore, BeforeMode, AfterMode
<1>5. LaunchOrder /\ LaunchEarned /\ BootstrapperKept
  BY DEF NodesInit, LaunchOrder, LaunchEarned, BootstrapperKept
<1> QED BY <1>1, <1>2, <1>3, <1>4, <1>5 DEF IInv, TypeOK

(* Every step keeps the inductive invariant.                               *)
LEMMA NextIInv == IInv /\ [Next]_vars => IInv'
BY NextType, NextFounders, NextEvents, NextRunsInOrder, NextLaunchOrder,
   NextLaunchEarned, NextBootstrapperKept DEF IInv

(* The inductive invariant holds of the workflow.                          *)
THEOREM Invariant == Spec => []IInv
BY InitIInv, NextIInv, PTL DEF Spec

-----------------------------------------------------------------------------
(* Every variable keeps its type.                                          *)
THEOREM TypeCorrect == Spec => []TypeOK
<1>1. IInv => TypeOK
  BY DEF IInv
<1> QED BY <1>1, Invariant, PTL

(* Nodes of a role are asked for only by a run that has won every earlier  *)
(* role, however many runs there are and whatever fails.                   *)
THEOREM LaunchesInOrder == Spec => []LaunchOrder
<1>1. IInv => LaunchOrder
  BY DEF IInv
<1> QED BY <1>1, Invariant, PTL

(* The cluster is declared launched only by a run that has won every role. *)
THEOREM LaunchesEarned == Spec => []LaunchEarned
<1>1. IInv => LaunchEarned
  BY DEF IInv
<1> QED BY <1>1, Invariant, PTL

(* Managers and data nodes are asked for only when a bootstrapper has      *)
(* founded a cluster and announced itself: the run that asks has counted a *)
(* success, which was a published event, which no bootstrapper sends       *)
(* before its cluster is founded.                                          *)
THEOREM FoundedBeforeManagers == Spec => []ManagersAfterFounding
<1>1. ASSUME IInv, NEW k \in {2, 3}, desired[Phases[k]] > 0
      PROVE  \E b \in Instance :
               Bootstrapper(b) /\ cluster[b] = b /\ Registered(b) \in published
  <2>1. PICK a \in Admin : \A j \in 1..(k - 1) : Won(a, Phases[j])
    BY <1>1, PhasesAre DEF IInv, LaunchOrder
  <2>2. Won(a, "bootstrapper")
    BY <2>1, PhasesAre
  <2>3. "bootstrapper" \in Role
    BY DEF Role
  <2>4. successes[a]["bootstrapper"] > 0
    BY <2>2, <2>3, <1>1, BootstrapAssumption DEF Won, IInv, TypeOK, AdminTypeOK
  <2>5. PICK b \in Instance : RoleOf[b] = "bootstrapper" /\ Registered(b) \in heard[a]
    BY <1>1, <2>3, <2>4 DEF IInv, EventsPublished, Counted
  <2>6. Registered(b) \in published
    BY <1>1, <2>5 DEF IInv, EventsPublished
  <2> QED BY <1>1, <2>5, <2>6 DEF IInv, FoundersRun, Bootstrapper
<1>2. IInv => ManagersAfterFounding
  BY <1>1, PhasesAre DEF ManagersAfterFounding
<1> QED BY <1>2, Invariant, PTL

(* As long as the cluster is bootstrapping, no group is up without the     *)
(* bootstrapper's.                                                         *)
THEOREM BootstrapperIsKept == Spec => []BootstrapperKept
<1>1. IInv => BootstrapperKept
  BY DEF IInv
<1> QED BY <1>1, Invariant, PTL

-----------------------------------------------------------------------------
(***************************************************************************)
(* One cluster. A run that launches one bootstrapper, which nobody takes   *)
(* for dead, cannot bring up two clusters, whoever else runs the workflow  *)
(* at the same time: the group is full before the launch and serves no     *)
(* bootstrapper after it.                                                  *)
(***************************************************************************)
OneBootstrapper == Quota["bootstrapper"] = 1 /\ \A i \in Mortal : ~Bootstrapper(i)

\* A bootstrapper that was ever launched.
Launched(i) == Bootstrapper(i) /\ stage[i] # "unborn"

\* Before the launch is declared there is one bootstrapper at most, and it is alive.
FirstBootstrapper ==
  mode = "bootstrapping" =>
    /\ desired["bootstrapper"] \in {0, 1}
    /\ \A i \in Instance : Launched(i) => stage[i] # "terminated" /\ desired["bootstrapper"] = 1
    /\ \A i, j \in Instance : Launched(i) /\ Launched(j) => i = j

\* One instance at most is, or ever was, configured to found a cluster.
OneFounder ==
  /\ \A i \in Instance : conf[i] = "found" => Launched(i) /\ stage[i] # "booting"
  /\ \A i, j \in Instance : conf[i] = "found" /\ conf[j] = "found" => i = j
  /\ \A i \in Instance : cluster[i] = i => conf[i] = "found"

\* No refresh replaces a bootstrapper.
NotRefreshed == \A i \in refresh : ~Bootstrapper(i)

Alone == FirstBootstrapper /\ OneFounder /\ NotRefreshed

(* Steps of the workflow and of the bus leave instances alone; one that    *)
(* changes a capacity, the mode or a refresh keeps what Alone says.        *)
LEMMA ControlKeepsAlone ==
  ASSUME IInv, Alone, OneBootstrapper, NEW a \in Admin, Launching(a) \/ Fail(a)
  PROVE  Alone' /\ UNCHANGED <<stage, conf, seeds, cluster, call, disco>>
<1> USE DEF IInv, TypeOK, AdminTypeOK, NodesTypeOK
<1>0. CurrentRole(a) \in Role /\ "bootstrapper" \in Role /\ phase[a] \in 1..3 /\ InOrder(a)
  BY PhasesAre DEF CurrentRole, Role, RunsInOrder
<1>1. CASE SetCapacity(a)
  <2>1. /\ UNCHANGED <<mode, refresh, stage, conf, seeds, cluster, call, disco>>
        /\ desired' = [desired EXCEPT ![CurrentRole(a)] = Quota[CurrentRole(a)]]
    BY <1>1 DEF SetCapacity, SetDesiredCapacity
  <2>2. desired'["bootstrapper"] \in {1, desired["bootstrapper"]}
    BY <1>0, <2>1 DEF OneBootstrapper
  <2>3. FirstBootstrapper'
    BY <2>1, <2>2 DEF Alone, FirstBootstrapper, Launched, Bootstrapper
  <2> QED BY <2>1, <2>3 DEF Alone, OneFounder, NotRefreshed, Launched, Bootstrapper
<1>2. CASE SetClusterModeToLaunched(a)
  <2>1. /\ UNCHANGED <<desired, refresh, stage, conf, seeds, cluster, call, disco>>
        /\ mode' = "launched"
    BY <1>2 DEF SetClusterModeToLaunched, SetClusterMode
  <2> QED BY <2>1 DEF Alone, FirstBootstrapper, OneFounder, NotRefreshed, Launched, Bootstrapper
<1>3. CASE Retire(a)
  <2>1. mode = "launched" /\ UNCHANGED <<mode, refresh, stage, conf, seeds, cluster, call, disco>>
    BY <1>0, <1>3 DEF Retire, SetDesiredCapacity, InOrder, AfterMode
  <2> QED BY <2>1 DEF Alone, FirstBootstrapper, OneFounder, NotRefreshed, Launched, Bootstrapper
<1>4. CASE Refresh(a)
  <2>1. UNCHANGED <<mode, desired, stage, conf, seeds, cluster, call, disco>>
    BY <1>4 DEF Refresh, StartInstanceRefresh, nodeVars
  <2>2. \/ refresh' = refresh
        \/ CurrentRole(a) # "bootstrapper" /\ refresh' = refresh \cup LiveIn(CurrentRole(a))
    BY <1>4, BootstrapAssumption DEF Refresh, StartInstanceRefresh, nodeVars
  <2>3. NotRefreshed'
    BY <2>2 DEF Alone, NotRefreshed, LiveIn, Bootstrapper
  <2> QED BY <2>1, <2>3 DEF Alone, FirstBootstrapper, OneFounder, Launched, Bootstrapper
<1>5. CASE UNCHANGED nodeVars
  BY <1>5 DEF nodeVars, Alone, FirstBootstrapper, OneFounder, NotRefreshed, Launched, Bootstrapper
<1> QED BY <1>1, <1>2, <1>3, <1>4, <1>5
        DEF Launching, Fail, Discover, RunSafetyChecks, SetCapacityRefused, OpenTail, ReadOther,
            ReadMatching, ReadLast

(* Groups launch a second bootstrapper, or terminate the first, only after *)
(* the launch.                                                             *)
LEMMA FirstStays ==
  ASSUME IInv, Alone, OneBootstrapper, NEW i \in Instance, NodeStep(i)
  PROVE  FirstBootstrapper' /\ NotRefreshed'
<1> USE DEF IInv, TypeOK, NodesTypeOK
<1>0. mode' = mode /\ desired' = desired /\ refresh' \subseteq refresh
  BY NodeStepFrame
     DEF NodeStep, Launch, Terminate, Script, Specialize, SpecializeFails, Start, StartFails,
         CallRegister, SignalInitFailure, RegisterInstance, RegisterWithCloudMap,
         PublishRegistered, RegisterReturns, RegisterFails, Join, BecomeVisible, Cleanup
<1>1. NotRefreshed'
  BY <1>0 DEF Alone, NotRefreshed, Bootstrapper
<1> SUFFICES ASSUME mode = "bootstrapping" PROVE FirstBootstrapper'
  BY <1>0, <1>1 DEF FirstBootstrapper
<1>2. CASE \A j \in Instance :
             /\ stage[j] = "unborn" <=> stage'[j] = "unborn"
             /\ stage'[j] = "terminated" => stage[j] = "terminated"
  BY <1>0, <1>2 DEF Alone, FirstBootstrapper, Launched, Bootstrapper
<1>3. CASE Launch(i)
  <2>1. /\ Cardinality(LiveIn(RoleOf[i])) < desired[RoleOf[i]]
        /\ stage' = [stage EXCEPT ![i] = "booting"]
    BY <1>3 DEF Launch
  <2>2. CASE ~Bootstrapper(i)
    BY <1>0, <2>1, <2>2 DEF Alone, FirstBootstrapper, Launched, Bootstrapper
  <2>3. CASE Bootstrapper(i)
    <3>1. IsFiniteSet(LiveIn("bootstrapper")) /\ Cardinality(LiveIn("bootstrapper")) \in Nat
      BY NodesAssumption, FS_Subset, FS_CardinalityType DEF LiveIn
    <3>2. desired["bootstrapper"] = 1 /\ Cardinality(LiveIn("bootstrapper")) = 0
      BY <2>1, <2>3, <3>1 DEF Alone, FirstBootstrapper, Bootstrapper
    <3>3. LiveIn("bootstrapper") = {}
      BY <3>1, <3>2, FS_EmptySet
    <3>4. \A j \in Instance : ~Launched(j)
      BY <3>3 DEF Alone, FirstBootstrapper, Launched, Bootstrapper, LiveIn, Live
    <3>5. \A j \in Instance : Launched(j)' => j = i /\ stage'[j] = "booting"
      BY <2>1, <3>4 DEF Launched, Bootstrapper
    <3> QED BY <1>0, <3>2, <3>5 DEF FirstBootstrapper
  <2> QED BY <2>2, <2>3
<1>4. CASE Terminate(i)
  <2>1. stage' = [stage EXCEPT ![i] = "terminated"] /\ Live(i)
    BY <1>4 DEF Terminate
  <2>2. ~Bootstrapper(i)
    <3> SUFFICES ASSUME Bootstrapper(i) PROVE FALSE
      OBVIOUS
    <3>1. Launched(i) /\ desired["bootstrapper"] = 1
      BY <2>1 DEF Launched, Live, Alone, FirstBootstrapper
    <3>2. LiveIn("bootstrapper") = {i}
      BY <2>1, <3>1 DEF LiveIn, Launched, Live, Alone, FirstBootstrapper, Bootstrapper
    <3>3. Cardinality(LiveIn("bootstrapper")) = 1
      BY <3>2, FS_Singleton
    <3> QED BY <1>4, <3>1, <3>3 DEF Terminate, Alone, NotRefreshed, OneBootstrapper, Bootstrapper
  <2> QED BY <1>0, <2>1, <2>2 DEF Alone, FirstBootstrapper, Launched, Bootstrapper
<1>5. CASE Script(i)
  <2>1. \A j \in Instance : stage'[j] # stage[j] =>
          stage[j] \notin {"unborn", "terminated"} /\ stage'[j] \notin {"unborn", "terminated"}
    BY <1>5 DEF Script, Specialize, SpecializeFails, Start, StartFails, CallRegister,
       SignalInitFailure, AfterError
  <2> QED BY <1>2, <2>1
<1>6. CASE RegisterInstance(i)
  <2>1. \A j \in Instance : stage'[j] # stage[j] =>
          stage[j] \notin {"unborn", "terminated"} /\ stage'[j] \notin {"unborn", "terminated"}
    BY <1>6 DEF RegisterInstance, RegisterWithCloudMap, PublishRegistered, RegisterReturns,
       RegisterFails, AfterError
  <2> QED BY <1>2, <2>1
<1>7. CASE Join(i) \/ BecomeVisible(i) \/ Cleanup(i)
  <2>1. stage' = stage
    BY <1>7 DEF Join, BecomeVisible, Cleanup
  <2> QED BY <1>2, <2>1
<1> QED BY <1>3, <1>4, <1>5, <1>6, <1>7 DEF NodeStep

(* Only the first bootstrapper is configured to found a cluster, and only  *)
(* an instance so configured founds one.                                   *)
LEMMA FounderStays ==
  ASSUME IInv, Met, Alone, NEW i \in Instance, NodeStep(i)
  PROVE  OneFounder'
<1> USE NodesAssumption DEF IInv, TypeOK, NodesTypeOK, Alone, OneFounder, Launched, Bootstrapper
<1>1. CASE Specialize(i)
  <2>1. \A j \in Instance : conf'[j] = "found" /\ conf[j] # "found" =>
          j = i /\ Bootstrapper(i) /\ mode = "bootstrapping"
    BY <1>1 DEF Specialize, CanSpecialize, Mode
  <2>2. /\ cluster' = cluster /\ stage' = [stage EXCEPT ![i] = "configured"]
        /\ stage[i] = "booting"
        /\ \A j \in Instance \ {i} : conf'[j] = conf[j]
    BY <1>1 DEF Specialize
  <2>3. \A j \in Instance : conf'[j] = "found" => Launched(j)' /\ stage'[j] # "booting"
    BY <2>1, <2>2
  <2>4. ASSUME NEW j \in Instance, NEW k \in Instance, conf'[j] = "found", conf'[k] = "found"
        PROVE  j = k
    <3>1. CASE conf[j] = "found" /\ conf[k] = "found"
      BY <3>1
    <3>2. CASE conf[j] # "found" \/ conf[k] # "found"
      BY <2>1, <2>2, <2>4, <3>2 DEF FirstBootstrapper
    <3> QED BY <3>1, <3>2
  <2>5. \A j \in Instance : cluster'[j] = j => conf'[j] = "found"
    BY <2>2
  <2> QED BY <2>3, <2>4, <2>5
<1>2. CASE Start(i)
  BY <1>2 DEF Start
<1>3. CASE StartFails(i)
  <2>1. CASE Bootstrapper(i)
    BY <1>3, <2>1 DEF StartFails, FoundersRun, AfterError
  <2>2. CASE ~Bootstrapper(i)
    BY <1>3, <2>2 DEF StartFails, AfterError
  <2> QED BY <2>1, <2>2
<1>4. CASE SpecializeFails(i) \/ CallRegister(i) \/ SignalInitFailure(i)
  BY <1>4 DEF SpecializeFails, CallRegister, SignalInitFailure, AfterError
<1>5. CASE Launch(i) \/ Terminate(i)
  BY <1>5 DEF Launch, Terminate, Live
<1>6. CASE Join(i)
  <2>1. PICK s \in seeds[i] : cluster[s] # None /\ cluster' = [cluster EXCEPT ![i] = cluster[s]]
    BY <1>6 DEF Join
  <2>2. s \in Instance /\ cluster[i] = None
    BY <1>6 DEF Join
  <2>3. cluster[s] # i
    BY <2>1, <2>2 DEF Met, JoinedThroughCloudMap
  <2>4. \A j \in Instance : cluster'[j] = j => cluster[j] = j
    BY <2>1, <2>3
  <2> QED BY <1>6, <2>4 DEF Join
<1>7. CASE RegisterInstance(i)
  BY <1>7 DEF RegisterInstance, RegisterWithCloudMap, PublishRegistered, RegisterReturns,
     RegisterFails, AfterError
<1>8. CASE BecomeVisible(i) \/ Cleanup(i)
  BY <1>8 DEF BecomeVisible, Cleanup
<1> QED BY <1>1, <1>2, <1>3, <1>4, <1>5, <1>6, <1>7, <1>8 DEF NodeStep, Script

(* Every step of the workflow keeps Alone and Met.                         *)
LEMMA NextAlone ==
  ASSUME OneBootstrapper, IInv, IInv', Met, Alone, [Next]_vars
  PROVE  Met' /\ Alone'
<1>0. NodesTypeOK /\ NodesTypeOK'
  BY DEF IInv, TypeOK
<1>1. UNCHANGED <<stage, conf, seeds, cluster, call, disco>> => Met'
  BY DEF Met, FoundersBootstrap, EntriesCalled, JoinedThroughCloudMap, Called, Bootstrapper
<1>2. ASSUME NEW i \in Instance, NodeStep(i)
      PROVE  Met' /\ Alone'
  BY <1>0, <1>2, FoundersStay, EntriesStay, JoinedStay, FirstStays, FounderStays DEF Met, Alone
<1>3. ASSUME NEW a \in Admin, Launching(a) \/ Fail(a)
      PROVE  Met' /\ Alone'
  BY <1>1, <1>3, ControlKeepsAlone
<1>4. CASE UNCHANGED nodeVars
  <2>1. UNCHANGED <<mode, desired, refresh, stage, conf, seeds, cluster, call, disco>>
    BY <1>4 DEF nodeVars
  <2> QED BY <1>1, <2>1 DEF Alone, FirstBootstrapper, OneFounder, NotRefreshed, Launched, Bootstrapper
<1>5. UNCHANGED vars \/ (\E e \in Event : Deliver(e)) => UNCHANGED nodeVars
  BY DEF vars, nodeVars, Deliver
<1> QED BY <1>2, <1>3, <1>4, <1>5 DEF Next

(* Once the launch is declared some bootstrapper has founded its cluster:  *)
(* the run that declared it counted that bootstrapper's announcement.      *)
LEMMA LaunchedFounded ==
  ASSUME IInv, mode = "launched"
  PROVE  \E b \in Instance : cluster[b] = b
<1>1. PICK a \in Admin : Won(a, "bootstrapper")
  BY PhasesAre DEF IInv, LaunchEarned
<1>2. "bootstrapper" \in Role
  BY DEF Role
<1>3. successes[a]["bootstrapper"] > 0
  BY <1>1, <1>2, BootstrapAssumption DEF Won, IInv, TypeOK, AdminTypeOK
<1>4. PICK b \in Instance : RoleOf[b] = "bootstrapper" /\ Registered(b) \in heard[a]
  BY <1>2, <1>3 DEF IInv, EventsPublished, Counted
<1>5. Registered(b) \in published
  BY <1>4 DEF IInv, EventsPublished
<1> QED BY <1>4, <1>5 DEF IInv, FoundersRun, Bootstrapper

(* A founder stays in its cluster.                                         *)
LEMMA FoundersRemain ==
  ASSUME IInv, Met, [Next]_vars, NEW b \in Instance, cluster[b] = b
  PROVE  cluster'[b] = b
<1>1. ASSUME NEW i \in Instance, NodeStep(i)
      PROVE  cluster'[b] = b
  <2>1. CASE Join(i)
    BY <2>1, NodesAssumption DEF Join, IInv, TypeOK, NodesTypeOK
  <2>2. CASE ~Join(i)
    BY <1>1, <2>2, NodeStepMoves DEF IInv, TypeOK, Met
  <2> QED BY <2>1, <2>2
<1>2. CASE \A i \in Instance : ~NodeStep(i)
  <2>1. cluster' = cluster
    BY <1>2 DEF Next, vars, nodeVars, Deliver, Launching, Fail, Discover, RunSafetyChecks,
       SetCapacity, SetCapacityRefused, OpenTail, ReadOther, ReadMatching, ReadLast,
       SetClusterModeToLaunched, Retire, Refresh, SetDesiredCapacity, SetClusterMode,
       StartInstanceRefresh
  <2> QED BY <2>1
<1> QED BY <1>1, <1>2

(* The two invariants hold of the workflow.                                *)
LEMMA AloneInvariant ==
  ASSUME OneBootstrapper
  PROVE  Spec => [](IInv /\ Met /\ Alone)
<1>1. Init => Met /\ Alone
  BY NodesAssumption
     DEF Init, NodesInit, Met, FoundersBootstrap, EntriesCalled, JoinedThroughCloudMap, Alone,
         FirstBootstrapper, OneFounder, NotRefreshed, Launched, Role
<1>2. IInv /\ IInv' /\ Met /\ Alone /\ [Next]_vars => Met' /\ Alone'
  BY NextAlone
<1> QED BY <1>1, <1>2, Invariant, PTL DEF Spec

(* However many runs there are, and whatever else fails or is replaced,    *)
(* all nodes that are in a cluster are in the same one, if a run launches  *)
(* one bootstrapper (as runner.go does) and that one never fails a health  *)
(* check.                                                                  *)
THEOREM OneCluster ==
  ASSUME OneBootstrapper
  PROVE  Spec => []SingleCluster
<1>1. IInv /\ Met /\ Alone => SingleCluster
  <2> SUFFICES ASSUME IInv, Met, Alone, NEW i \in Instance, NEW j \in Instance,
                      cluster[i] # None, cluster[j] # None
               PROVE  cluster[i] = cluster[j]
    BY DEF SingleCluster
  <2>1. cluster[i] \in Instance /\ cluster[j] \in Instance
    BY DEF IInv, TypeOK, NodesTypeOK
  <2>2. cluster[cluster[i]] = cluster[i] /\ cluster[cluster[j]] = cluster[j]
    BY DEF Met, JoinedThroughCloudMap
  <2> QED BY <2>1, <2>2 DEF Alone, OneFounder
<1> QED BY <1>1, AloneInvariant, PTL

(* No cluster is founded once the launch is declared, under the same       *)
(* conditions: the only founder there can be has founded its own by then.  *)
THEOREM NoLateFounder ==
  ASSUME OneBootstrapper
  PROVE  Spec => NoFoundingAfterLaunch
<1>1. ASSUME IInv, Met, Alone, Alone', [Next]_vars, mode = "launched",
             NEW i \in Instance, cluster'[i] = i
      PROVE  cluster[i] = i
  <2>1. PICK b \in Instance : cluster[b] = b
    BY <1>1, LaunchedFounded
  <2>2. cluster'[b] = b
    BY <1>1, <2>1, FoundersRemain
  <2> QED BY <1>1, <2>1, <2>2 DEF Alone, OneFounder
<1>2. (IInv /\ Met /\ Alone) /\ (IInv /\ Met /\ Alone)' /\ [Next]_vars =>
        (mode = "launched" => \A i \in Instance : cluster'[i] = i => cluster[i] = i)
  BY <1>1
<1> QED BY <1>2, AloneInvariant, PTL DEF Spec, NoFoundingAfterLaunch

=============================================================================

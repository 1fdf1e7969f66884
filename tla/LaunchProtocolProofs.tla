------------------------ MODULE LaunchProtocolProofs ------------------------
(***************************************************************************)
(* Proofs about one run of the workflow when every event is delivered      *)
(* once: the nodes it counts are distinct, and it implements the launch    *)
(* protocol.                                                               *)
(***************************************************************************)
EXTENDS ClusterBootstrapProofs, FiniteSetTheorems

(* A run has an event still to read, or has matched it, but never both;    *)
(* and it has counted as many nodes of a role as successes.                *)
CountsNodes ==
  \A a \in Admin :
    /\ unread[a] \cap heard[a] = {}
    /\ \A r \in Role : Cardinality(Counted(a, r)) = successes[a][r]

(* The nodes a run counts are finitely many.                               *)
LEMMA CountedFinite ==
  ASSUME NEW a \in Admin, NEW r \in Role
  PROVE  IsFiniteSet(Counted(a, r))
BY FS_Subset, NodesAssumption DEF Counted

(* A matched event that the run had not matched before adds one node to    *)
(* those it counts exactly if it adds one success.                         *)
LEMMA MatchCountsNodes ==
  ASSUME TypeOK, CountsNodes, NEW a \in Admin, NEW e \in Event, Match(a, e),
         NEW c \in Admin, NEW r \in Role
  PROVE  Cardinality(Counted(c, r)') = successes'[c][r]
<1>1. /\ heard' = [heard EXCEPT ![a] = @ \cup {e}]
      /\ e \in unread[a] /\ RoleOf[e.node] = CurrentRole(a)
      /\ e.node \in Instance
  BY RegisteredEvent DEF Match
<1>2. e \notin heard[a] /\ CurrentRole(a) \in Role
  BY <1>1, NodesAssumption DEF CountsNodes
<1>3. Cardinality(Counted(c, r)) = successes[c][r] /\ successes[c][r] \in Nat
  BY DEF CountsNodes, TypeOK, AdminTypeOK
<1>4. CASE c = a /\ r = CurrentRole(a) /\ e.type = "registered"
  <2>1. e = Registered(e.node)
    BY <1>4, RegisteredEvent
  <2>2. e.node \notin Counted(a, r)
    BY <1>2, <2>1 DEF Counted
  <2>3. Counted(a, r)' = Counted(a, r) \cup {e.node}
    <3>1. heard'[a] = heard[a] \cup {e}
      BY <1>1 DEF TypeOK, AdminTypeOK
    <3>2. \A i \in Instance : Registered(i) = e <=> i = e.node
      BY <2>1 DEF Registered
    <3> QED BY <1>1, <1>4, <3>1, <3>2 DEF Counted, Registered
  <2>4. Cardinality(Counted(a, r) \cup {e.node}) = Cardinality(Counted(a, r)) + 1
    BY <2>2, CountedFinite, FS_AddElement
  <2>5. successes' = [successes EXCEPT ![a][CurrentRole(a)] = @ + 1]
    BY <1>4 DEF Match
  <2>6. successes'[a][r] = successes[a][r] + 1
    BY <1>4, <2>5 DEF TypeOK, AdminTypeOK
  <2> QED BY <1>3, <1>4, <2>3, <2>4, <2>6
<1>5. CASE ~(c = a /\ r = CurrentRole(a) /\ e.type = "registered")
  <2>1. Counted(c, r)' = Counted(c, r)
    <3>1. CASE c # a
      BY <1>1, <3>1 DEF Counted, TypeOK, AdminTypeOK, Registered
    <3>2. CASE c = a
      <4>1. heard'[c] = heard[c] \cup {e}
        BY <1>1, <3>2 DEF TypeOK, AdminTypeOK
      <4>2. \A i \in Instance : RoleOf[i] = r => Registered(i) # e
        BY <1>1, <1>5, <3>2 DEF Registered
      <4> QED BY <4>1, <4>2 DEF Counted, Registered
    <3> QED BY <3>1, <3>2
  <2>2. successes'[c][r] = successes[c][r]
    <3>1. CASE e.type = "registered"
      BY <1>5, <3>1, MatchCounts
    <3>2. CASE e.type # "registered"
      BY <3>2 DEF Match
    <3> QED BY <3>1, <3>2
  <2> QED BY <1>3, <2>1, <2>2
<1> QED BY <1>4, <1>5

(* If no event is delivered twice, no run matches one twice.               *)
LEMMA NextUnread ==
  ASSUME MaxDuplicates = 0, IInv, CountsNodes, [Next]_vars, NEW c \in Admin
  PROVE  unread'[c] \cap heard'[c] = {}
<1> USE DEF IInv, TypeOK, AdminTypeOK
<1>0. unread[c] \cap heard[c] = {}
  BY DEF CountsNodes
<1>1. ASSUME NEW e \in Event, Deliver(e)
      PROVE  unread'[c] \cap heard'[c] = {}
  <2>1. e \notin delivered
    BY <1>1 DEF Deliver
  <2>2. e \notin heard[c]
    BY <2>1 DEF EventsPublished
  <2>3. unread'[c] \subseteq unread[c] \cup {e} /\ heard' = heard
    BY <1>1 DEF Deliver
  <2> QED BY <1>0, <2>2, <2>3
<1>2. ASSUME NEW a \in Admin, NEW e \in Event, ReadMatching(a, e) \/ ReadLast(a, e)
      PROVE  unread'[c] \cap heard'[c] = {}
  <2>1. heard' = [heard EXCEPT ![a] = @ \cup {e}]
    BY <1>2 DEF ReadMatching, ReadLast, Match
  <2>2. unread' = [unread EXCEPT ![a] = @ \ {e}] \/ unread' = [unread EXCEPT ![a] = {}]
    BY <1>2 DEF ReadMatching, ReadLast, Consumed
  <2> QED BY <1>0, <2>1, <2>2
<1>3. ASSUME NEW a \in Admin, NEW e \in Event, ReadOther(a, e)
      PROVE  unread'[c] \cap heard'[c] = {}
  BY <1>0, <1>3 DEF ReadOther, Consumed
<1>4. ASSUME NEW a \in Admin, Fail(a)
      PROVE  unread'[c] \cap heard'[c] = {}
  BY <1>0, <1>4 DEF Fail
<1>5. CASE UNCHANGED <<unread, heard>>
  BY <1>0, <1>5
<1>6. \/ UNCHANGED <<unread, heard>>
      \/ \E e \in Event : Deliver(e)
      \/ \E a \in Admin : Fail(a) \/ \E e \in Event :
           ReadOther(a, e) \/ ReadMatching(a, e) \/ ReadLast(a, e)
  BY DEF Next, vars, adminVars, Launching, Discover, RunSafetyChecks, SetCapacity,
     SetCapacityRefused, OpenTail, SetClusterModeToLaunched, Retire, Refresh
<1> QED BY <1>1, <1>2, <1>3, <1>4, <1>5, <1>6

(* Every step keeps the counts.                                            *)
LEMMA NextCounts ==
  ASSUME MaxDuplicates = 0, IInv, CountsNodes, [Next]_vars
  PROVE  CountsNodes'
<1>1. \A c \in Admin : unread'[c] \cap heard'[c] = {}
  BY NextUnread
<1>2. CASE UNCHANGED <<heard, successes, failures>>
  BY <1>1, <1>2 DEF CountsNodes, Counted, Registered
<1>3. ASSUME NEW a \in Admin, NEW e \in Event, Match(a, e)
      PROVE  CountsNodes'
  BY <1>1, <1>3, MatchCountsNodes DEF CountsNodes, IInv
<1> QED BY <1>2, <1>3, StepKinds

LEMMA InitCounts == Init => CountsNodes
<1> SUFFICES ASSUME Init PROVE CountsNodes
  OBVIOUS
<1>1. \A a \in Admin, r \in Role : Counted(a, r) = {} /\ successes[a][r] = 0
  BY DEF Init, Counted
<1> QED BY <1>1, FS_EmptySet DEF Init, CountsNodes

(* If every event is delivered once, each success a run counts towards its *)
(* quota is a node of its own.                                             *)
THEOREM StartedAreDistinct ==
  ASSUME MaxDuplicates = 0
  PROVE  Spec => []StartedNodesDistinct
<1>1. IInv /\ CountsNodes /\ [Next]_vars => CountsNodes'
  BY NextCounts
<1>2. CountsNodes => StartedNodesDistinct
  BY DEF CountsNodes, StartedNodesDistinct, Won
<1> QED BY <1>1, <1>2, InitCounts, Invariant, PTL DEF Spec

-----------------------------------------------------------------------------
(* What the protocol sees of the workflow.                                 *)
Asked == {r \in Role : desired[r] > 0 \/ (r = "bootstrapper" /\ mode = "launched")}
Announced == {i \in Instance : Registered(i) \in published}
Retired == mode = "launched" /\ desired["bootstrapper"] = 0

(* Only nodes that were asked for are ever there, and register.            *)
OnlyAsked ==
  \A i \in Instance : stage[i] # "unborn" \/ call[i] # "idle" => RoleOf[i] \in Asked

(* After the launch no run has anything to launch.                         *)
LaunchedOnce ==
  mode = "launched" => \A a \in Admin : pc[a] \in AfterMode \cup {"failed"}

OneRun == \A a, b \in Admin : a = b

(* How a step changes what the protocol sees of the workflow.              *)
LEMMA ControlSteps ==
  ASSUME [Next]_vars
  PROVE  \/ \E i \in Instance : NodeStep(i) /\ UNCHANGED adminVars
         \/ \E a \in Admin :
              SetCapacity(a) \/ SetClusterModeToLaunched(a) \/ Retire(a)
         \/ UNCHANGED <<mode, desired, stage, call, published>>
BY DEF Next, vars, nodeVars, Deliver, Launching, Fail, Discover, RunSafetyChecks,
   SetCapacityRefused, OpenTail, ReadOther, ReadMatching, ReadLast, Refresh,
   StartInstanceRefresh

(* A role that was asked for stays asked for.                              *)
LEMMA AskedStays ==
  ASSUME IInv, [Next]_vars
  PROVE  Asked \subseteq Asked'
<1> USE DEF IInv, TypeOK, NodesTypeOK, AdminTypeOK
<1>1. CASE UNCHANGED <<mode, desired>>
  BY <1>1 DEF Asked
<1>2. ASSUME NEW a \in Admin, SetCapacity(a)
      PROVE  Asked \subseteq Asked'
  <2>1. CurrentRole(a) \in Role
    BY PhasesAre DEF CurrentRole
  <2>2. Quota[CurrentRole(a)] > 0 /\ Quota[CurrentRole(a)] \in Nat
    BY <2>1, BootstrapAssumption
  <2>3. /\ desired' = [desired EXCEPT ![CurrentRole(a)] = Quota[CurrentRole(a)]]
        /\ mode' = mode
    BY <1>2 DEF SetCapacity, SetDesiredCapacity
  <2> QED BY <2>1, <2>2, <2>3 DEF Asked
<1>3. ASSUME NEW a \in Admin, SetClusterModeToLaunched(a)
      PROVE  Asked \subseteq Asked'
  BY <1>3 DEF SetClusterModeToLaunched, SetClusterMode, Asked
<1>4. ASSUME NEW a \in Admin, Retire(a)
      PROVE  Asked \subseteq Asked'
  <2>1. mode = "launched"
    BY <1>4 DEF Retire, RunsInOrder, InOrder, AfterMode
  <2> QED BY <1>4, <2>1 DEF Retire, SetDesiredCapacity, Asked
<1> QED BY <1>1, <1>2, <1>3, <1>4, ControlSteps, NodeStepFrame

(* A group launches an instance only if it wants one.                      *)
LEMMA NextOnlyAsked ==
  ASSUME IInv, OnlyAsked, [Next]_vars
  PROVE  OnlyAsked'
<1> USE DEF IInv, TypeOK, NodesTypeOK
<1>1. ASSUME NEW i \in Instance, NodeStep(i),
             NEW j \in Instance, stage'[j] # "unborn" \/ call'[j] # "idle"
      PROVE  RoleOf[j] \in Asked
  <2>1. CASE stage[j] # "unborn" \/ call[j] # "idle"
    BY <2>1 DEF OnlyAsked
  <2>2. CASE stage[j] = "unborn" /\ call[j] = "idle"
    <3>1. i = j /\ Launch(i)
      BY <1>1, <2>2 DEF NodeStep, Launch, Terminate, Script, Specialize,
         SpecializeFails, Start, StartFails, CallRegister, SignalInitFailure,
         RegisterInstance, RegisterWithCloudMap, PublishRegistered, RegisterReturns,
         RegisterFails, Join, BecomeVisible, Cleanup, Live
    <3>2. IsFiniteSet(LiveIn(RoleOf[i]))
      BY FS_Subset, NodesAssumption DEF LiveIn
    <3>3. Cardinality(LiveIn(RoleOf[i])) \in Nat
      BY <3>2, FS_CardinalityType
    <3>4. Cardinality(LiveIn(RoleOf[i])) < desired[RoleOf[i]]
      BY <3>1 DEF Launch
    <3>5. RoleOf[i] \in Role
      BY NodesAssumption
    <3> QED BY <3>1, <3>3, <3>4, <3>5 DEF Asked
  <2> QED BY <2>1, <2>2
<1>2. CASE UNCHANGED <<stage, call>>
  BY <1>2, AskedStays DEF OnlyAsked
<1>3. \/ UNCHANGED <<stage, call>>
      \/ \E i \in Instance : NodeStep(i)
  BY ControlSteps DEF SetCapacity, SetClusterModeToLaunched, Retire, SetDesiredCapacity,
     SetClusterMode
<1>4. ASSUME NEW i \in Instance, NodeStep(i)
      PROVE  OnlyAsked'
  BY <1>1, <1>4, AskedStays DEF OnlyAsked
<1> QED BY <1>2, <1>3, <1>4

(* The only run there is has done its launching when it declares it.       *)
LEMMA NextLaunchedOnce ==
  ASSUME OneRun, IInv, LaunchedOnce, [Next]_vars
  PROVE  LaunchedOnce'
<1> USE DEF IInv, TypeOK, AdminTypeOK, Goto, AfterMode
<1> SUFFICES ASSUME mode' = "launched", NEW a \in Admin
             PROVE  pc'[a] \in AfterMode \cup {"failed"}
  BY DEF LaunchedOnce
<1>1. CASE \E b \in Admin : SetClusterModeToLaunched(b)
  BY <1>1 DEF SetClusterModeToLaunched, OneRun
<1>2. CASE ~ \E b \in Admin : SetClusterModeToLaunched(b)
  <2>1. mode = "launched"
    BY <1>2, NodeStepFrame, ControlSteps DEF SetCapacity, Retire, SetDesiredCapacity
  <2>2. pc[a] \in AfterMode \cup {"failed"}
    BY <2>1 DEF LaunchedOnce
  <2>3. ASSUME NEW b \in Admin, Launching(b) \/ Fail(b)
        PROVE  pc'[a] \in AfterMode \cup {"failed"}
    <3>1. a = b
      BY DEF OneRun
    <3> QED BY <2>2, <2>3, <3>1 DEF Launching, Fail, Discover, RunSafetyChecks,
            SetCapacity, SetCapacityRefused, OpenTail, ReadOther, ReadMatching,
            ReadLast, Match, SetClusterModeToLaunched, Retire, Refresh
  <2>4. CASE pc' = pc
    BY <2>2, <2>4
  <2> QED BY <2>3, <2>4 DEF Next, vars, adminVars, Deliver
<1> QED BY <1>1, <1>2

(* A role that a run has won has its quota of announced nodes.             *)
LEMMA WonComplete ==
  ASSUME IInv, CountsNodes, NEW a \in Admin, NEW k \in 1..3, Won(a, Phases[k])
  PROVE  Protocol!Complete(k)
<1> DEFINE r == Phases[k]
           there == {i \in Announced : RoleOf[i] = r}
<1>1. r \in Role
  BY PhasesAre
<1>2. Counted(a, r) \subseteq there
  BY DEF Counted, Announced, IInv, EventsPublished
<1>3. IsFiniteSet(there)
  BY FS_Subset, NodesAssumption DEF Announced
<1>4. Cardinality(Counted(a, r)) <= Cardinality(there)
  BY <1>2, <1>3, FS_Subset
<1>5. Cardinality(there) \in Nat
  BY <1>3, FS_CardinalityType
<1>6. /\ Cardinality(Counted(a, r)) = successes[a][r] /\ successes[a][r] >= Quota[r]
      /\ successes[a][r] \in Nat /\ Quota[r] \in Nat
  BY <1>1, BootstrapAssumption DEF CountsNodes, Won, IInv, TypeOK, AdminTypeOK
<1>7. Cardinality(there) >= Quota[r]
  BY <1>4, <1>5, <1>6
<1>8. \A S : Cardinality(S) = Protocol!Cardinality(S)
  BY Zenon DEF Cardinality, Protocol!Cardinality
<1> QED BY <1>7, <1>8 DEF Protocol!Complete, Announced

-----------------------------------------------------------------------------
(* Each kind of step that the protocol sees is one of its actions, or none. *)

LEMMA NodeStepProtocol ==
  ASSUME IInv, OnlyAsked, NEW i \in Instance, NodeStep(i)
  PROVE  [Protocol!ProtocolNext]_(Protocol!protocolVars)
<1>1. /\ mode' = mode /\ desired' = desired
      /\ published' = published \/ PublishRegistered(i) \/ SignalInitFailure(i)
  BY NodeStepFrame DEF NodeStep, Launch, Terminate, Script, Specialize, SpecializeFails,
     Start, StartFails, CallRegister, RegisterInstance, RegisterWithCloudMap,
     RegisterReturns, RegisterFails, Join, BecomeVisible, Cleanup
<1>2. CASE published' = published
  BY <1>1, <1>2 DEF Protocol!protocolVars, Registered
<1>3. CASE SignalInitFailure(i)
  <2>1. \A j \in Instance : Registered(j) \in published' <=> Registered(j) \in published
    BY <1>3 DEF SignalInitFailure, Registered, InitFailed
  <2> QED BY <1>1, <2>1 DEF Protocol!protocolVars, Registered
<1>4. CASE PublishRegistered(i)
  <2>1. published' = published \cup {Registered(i)} /\ RoleOf[i] \in Asked
    BY <1>4 DEF PublishRegistered, OnlyAsked
  <2>2. Announced' = Announced \cup {i}
    BY <2>1 DEF Announced, Registered
  <2>3. Asked' = Asked /\ (mode = "launched")' = (mode = "launched") /\ Retired' = Retired
    BY <1>1 DEF Asked, Retired
  <2>4. CASE i \in Announced
    BY <2>2, <2>3, <2>4 DEF Protocol!protocolVars, Asked, Announced, Retired, Registered
  <2>5. CASE i \notin Announced
    BY <2>1, <2>2, <2>3, <2>5 DEF Protocol!ProtocolNext, Protocol!Announce, Asked,
       Announced, Retired, Registered
  <2> QED BY <2>4, <2>5
<1> QED BY <1>1, <1>2, <1>3, <1>4

LEMMA SetCapacityProtocol ==
  ASSUME IInv, CountsNodes, LaunchedOnce, NEW a \in Admin, SetCapacity(a)
  PROVE  [Protocol!ProtocolNext]_(Protocol!protocolVars)
<1>0. PICK k \in 1..3 : k = phase[a]
  BY DEF IInv, TypeOK, AdminTypeOK
<1>1. CurrentRole(a) = Phases[k] /\ Phases[k] \in Role
  BY <1>0, PhasesAre DEF CurrentRole
<1>2. Quota[Phases[k]] \in Nat /\ Quota[Phases[k]] > 0
  BY <1>1, BootstrapAssumption
<1>3. /\ pc[a] = "capacity" /\ mode' = mode /\ published' = published
      /\ desired' = [desired EXCEPT ![Phases[k]] = Quota[Phases[k]]]
  BY <1>1 DEF SetCapacity, SetDesiredCapacity
<1>4. mode # "launched"
  BY <1>3 DEF LaunchedOnce, AfterMode
<1>5. Asked' = Asked \cup {Phases[k]}
  BY <1>1, <1>2, <1>3, <1>4 DEF Asked, IInv, TypeOK, NodesTypeOK
<1>6. Announced' = Announced /\ ~Retired /\ ~Retired'
  BY <1>3, <1>4 DEF Announced, Retired, Registered
<1>7. \A j \in 1..(k - 1) : Protocol!Complete(j)
  <2>1. \A j \in 1..(k - 1) : j \in 1..3 /\ Won(a, Phases[j])
    BY <1>0, <1>3 DEF IInv, RunsInOrder, InOrder, BeforeMode, WonBefore
  <2> QED BY <2>1, WonComplete
<1>8. CASE Phases[k] \in Asked
  BY <1>3, <1>5, <1>6, <1>8 DEF Protocol!protocolVars, Asked, Announced, Retired
<1>9. CASE Phases[k] \notin Asked
  <2>1. Protocol!Ask(k)
    BY <1>3, <1>5, <1>6, <1>7, <1>9 DEF Protocol!Ask, Asked, Announced, Retired
  <2>2. \E j \in DOMAIN Phases : Protocol!Ask(j)
    BY <2>1, PhasesAre
  <2> QED BY <2>2 DEF Protocol!ProtocolNext
<1> QED BY <1>8, <1>9

LEMMA DeclareProtocol ==
  ASSUME IInv, CountsNodes, NEW a \in Admin, SetClusterModeToLaunched(a)
  PROVE  [Protocol!ProtocolNext]_(Protocol!protocolVars)
<1>1. /\ pc[a] = "mode" /\ mode' = "launched"
      /\ desired' = desired /\ published' = published
  BY DEF SetClusterModeToLaunched, SetClusterMode
<1>2. CASE mode = "launched"
  BY <1>1, <1>2 DEF Protocol!protocolVars, Registered
<1>3. CASE mode # "launched"
  <2>1. desired["bootstrapper"] > 0 /\ desired["bootstrapper"] \in Nat
    BY <1>1, <1>3 DEF IInv, RunsInOrder, InOrder, BootstrapperWanted, TypeOK, NodesTypeOK, Role
  <2>2. Asked' = Asked /\ Announced' = Announced /\ ~Retired /\ ~Retired'
    BY <1>1, <2>1 DEF Asked, Announced, Retired, Registered
  <2>3. \A k \in 1..3 : Protocol!Complete(k)
    <3>1. \A k \in 1..3 : Won(a, Phases[k])
      BY <1>1 DEF IInv, RunsInOrder, InOrder, WonBefore
    <3> QED BY <3>1, WonComplete
  <2>4. Protocol!DeclareLaunched
    BY <1>1, <1>3, <2>2, <2>3, PhasesAre
       DEF Protocol!DeclareLaunched, Asked, Announced, Retired
  <2> QED BY <2>4 DEF Protocol!ProtocolNext
<1> QED BY <1>2, <1>3

LEMMA RetireProtocol ==
  ASSUME IInv, NEW a \in Admin, Retire(a)
  PROVE  [Protocol!ProtocolNext]_(Protocol!protocolVars)
<1>1. /\ mode = "launched" /\ mode' = mode /\ published' = published
      /\ desired' = [desired EXCEPT !["bootstrapper"] = 0]
  BY DEF Retire, SetDesiredCapacity, IInv, RunsInOrder, InOrder, AfterMode
<1>2. Asked' = Asked /\ Announced' = Announced /\ Retired'
  BY <1>1 DEF Asked, Announced, Retired, Registered, IInv, TypeOK, NodesTypeOK, Role
<1>3. CASE Retired
  BY <1>1, <1>2, <1>3 DEF Protocol!protocolVars, Asked, Announced, Retired
<1>4. CASE ~Retired
  BY <1>1, <1>2, <1>4 DEF Protocol!ProtocolNext, Protocol!RetireFirst, Asked, Announced,
     Retired
<1> QED BY <1>3, <1>4

(* One run, to which every event is delivered once, implements the launch  *)
(* protocol, whatever nodes do, die of or fail to do meanwhile.            *)
THEOREM OneRunImplementsProtocol ==
  ASSUME MaxDuplicates = 0, OneRun
  PROVE  Spec => ImplementsProtocol
<1> DEFINE PInv == IInv /\ CountsNodes /\ OnlyAsked /\ LaunchedOnce
<1>1. Init => CountsNodes /\ OnlyAsked /\ LaunchedOnce
  BY InitCounts DEF Init, NodesInit, OnlyAsked, LaunchedOnce
<1>2. IInv /\ CountsNodes /\ OnlyAsked /\ LaunchedOnce /\ [Next]_vars =>
        CountsNodes' /\ OnlyAsked' /\ LaunchedOnce'
  BY NextCounts, NextOnlyAsked, NextLaunchedOnce
<1>3. Init => Protocol!ProtocolInit
  BY DEF Init, NodesInit, Protocol!ProtocolInit
<1>4. IInv /\ CountsNodes /\ OnlyAsked /\ LaunchedOnce /\ [Next]_vars =>
        [Protocol!ProtocolNext]_(Protocol!protocolVars)
  <2> SUFFICES ASSUME IInv, CountsNodes, OnlyAsked, LaunchedOnce, [Next]_vars
               PROVE  [Protocol!ProtocolNext]_(Protocol!protocolVars)
    OBVIOUS
  <2>1. CASE UNCHANGED <<mode, desired, stage, call, published>>
    BY <2>1 DEF Protocol!protocolVars, Registered
  <2> QED BY <2>1, ControlSteps, NodeStepProtocol, SetCapacityProtocol, DeclareProtocol,
          RetireProtocol
<1> QED BY <1>1, <1>2, <1>3, <1>4, Invariant, PTL
        DEF Spec, ImplementsProtocol, Protocol!ProtocolSpec

=============================================================================

------------------------- MODULE ClusterNodesProofs -------------------------
(***************************************************************************)
(* Proofs about the data plane, for any instances, roles and bounds. The   *)
(* lemmas on a single step are stated without its environment, so that     *)
(* they serve for the bootstrapping workflow too.                          *)
(***************************************************************************)
EXTENDS ClusterNodes, TLAPS

(* A step of an instance keeps every variable of the data plane in its     *)
(* type.                                                                   *)
LEMMA NodeStepType ==
  ASSUME NodesTypeOK, NEW i \in Instance, NodeStep(i)
  PROVE  NodesTypeOK'
<1> USE NodesAssumption DEF NodesTypeOK
<1>1. CASE Launch(i) \/ Terminate(i)
  BY <1>1 DEF Launch, Terminate, Stage
<1>2. CASE Specialize(i) \/ SpecializeFails(i)
  BY <1>2 DEF Specialize, SpecializeFails, AfterError, Stage, Discoverable,
     Fault, NoFault
<1>3. CASE Start(i) \/ StartFails(i)
  BY <1>3 DEF Start, StartFails, AfterError, Stage, Fault, NoFault
<1>4. CASE CallRegister(i) \/ SignalInitFailure(i)
  BY <1>4 DEF CallRegister, SignalInitFailure, Stage, InitFailed, Event, Fault,
     NoFault
<1>5. CASE RegisterInstance(i)
  BY <1>5 DEF RegisterInstance, RegisterWithCloudMap, PublishRegistered,
     RegisterReturns, RegisterFails, AfterError, Stage, Registered, Event, Fault
<1>6. CASE Join(i)
  BY <1>6 DEF Join
<1>7. CASE BecomeVisible(i) \/ Cleanup(i)
  BY <1>7 DEF BecomeVisible, Cleanup
<1> QED BY <1>1, <1>2, <1>3, <1>4, <1>5, <1>6, <1>7 DEF NodeStep, Script

(* So do a capacity, a mode and a refresh that somebody sets.              *)
LEMMA ControlType ==
  ASSUME NodesTypeOK,
         \/ \E r \in Role, n \in Nat : SetDesiredCapacity(r, n)
         \/ \E m \in Mode : SetClusterMode(m)
         \/ \E r \in Role : StartInstanceRefresh(r)
  PROVE  NodesTypeOK'
BY DEF NodesTypeOK, SetDesiredCapacity, SetClusterMode, StartInstanceRefresh, LiveIn

-----------------------------------------------------------------------------
(* Registered and init_failed are different events, and each names its     *)
(* node.                                                                   *)
LEMMA EventsDiffer ==
  ASSUME NEW i, NEW j
  PROVE  /\ Registered(i) # InitFailed(j)
         /\ Registered(i) = Registered(j) => i = j
BY DEF Registered, InitFailed

(* A bootstrapper gets to its announcement only through a founded cluster, *)
(* whatever step an instance takes.                                        *)
LEMMA NodeStepFounders ==
  ASSUME NodesTypeOK, FoundersRun, NEW i \in Instance, NodeStep(i)
  PROVE  FoundersRun'
<1> USE NodesAssumption DEF NodesTypeOK, FoundersRun, Bootstrapper
<1>1. CASE Launch(i) \/ Terminate(i)
  BY <1>1 DEF Launch, Terminate, Stage
<1>2. CASE Specialize(i) \/ SpecializeFails(i)
  BY <1>2 DEF Specialize, SpecializeFails, AfterError, Stage
<1>3. CASE Start(i) \/ StartFails(i)
  BY <1>3 DEF Start, StartFails, AfterError, Stage
<1>4. CASE CallRegister(i)
  BY <1>4 DEF CallRegister, Stage
<1>5. CASE SignalInitFailure(i)
  BY <1>5, EventsDiffer DEF SignalInitFailure, Stage
<1>6. CASE RegisterWithCloudMap(i) \/ RegisterReturns(i) \/ RegisterFails(i)
  BY <1>6 DEF RegisterWithCloudMap, RegisterReturns, RegisterFails, AfterError, Stage
<1>7. CASE PublishRegistered(i)
  BY <1>7, EventsDiffer DEF PublishRegistered
<1>8. CASE Join(i)
  BY <1>8 DEF Join
<1>9. CASE BecomeVisible(i) \/ Cleanup(i)
  BY <1>9 DEF BecomeVisible, Cleanup
<1> QED BY <1>1, <1>2, <1>3, <1>4, <1>5, <1>6, <1>7, <1>8, <1>9
        DEF NodeStep, Script, RegisterInstance

(* The entry of a live announced node stays in Cloud Map, whatever step an *)
(* instance takes.                                                         *)
LEMMA NodeStepEntries ==
  ASSUME NodesTypeOK, EntriesFollowCalls, NEW i \in Instance, NodeStep(i)
  PROVE  EntriesFollowCalls'
<1> USE NodesAssumption DEF NodesTypeOK, EntriesFollowCalls, Live
<1>1. CASE Launch(i) \/ Terminate(i)
  BY <1>1 DEF Launch, Terminate, Stage
<1>2. CASE Specialize(i) \/ SpecializeFails(i)
  BY <1>2 DEF Specialize, SpecializeFails, AfterError, Stage
<1>3. CASE Start(i) \/ StartFails(i)
  BY <1>3 DEF Start, StartFails, AfterError, Stage
<1>4. CASE CallRegister(i)
  BY <1>4 DEF CallRegister, Stage
<1>5. CASE SignalInitFailure(i)
  BY <1>5, EventsDiffer DEF SignalInitFailure, Stage
<1>6. CASE RegisterWithCloudMap(i) \/ RegisterReturns(i) \/ RegisterFails(i)
  BY <1>6 DEF RegisterWithCloudMap, RegisterReturns, RegisterFails, AfterError, Stage
<1>7. CASE PublishRegistered(i)
  BY <1>7, EventsDiffer DEF PublishRegistered
<1>8. CASE Join(i)
  BY <1>8 DEF Join
<1>9. CASE BecomeVisible(i) \/ Cleanup(i)
  BY <1>9 DEF BecomeVisible, Cleanup
<1> QED BY <1>1, <1>2, <1>3, <1>4, <1>5, <1>6, <1>7, <1>8, <1>9
        DEF NodeStep, Script, RegisterInstance

(* Nobody's capacity, mode or refresh touches what the two say.            *)
LEMMA ControlKeeps ==
  ASSUME \/ \E r \in Role, n \in Nat : SetDesiredCapacity(r, n)
         \/ \E m \in Mode : SetClusterMode(m)
         \/ \E r \in Role : StartInstanceRefresh(r)
  PROVE  /\ FoundersRun => FoundersRun'
         /\ EntriesFollowCalls => EntriesFollowCalls'
BY DEF FoundersRun, EntriesFollowCalls, Bootstrapper, Live, SetDesiredCapacity,
   SetClusterMode, StartInstanceRefresh

-----------------------------------------------------------------------------
(* The initial states satisfy the inductive invariant.                     *)
LEMMA NodesInitIInv == NodesInit => NodesIInv
BY NodesAssumption DEF NodesInit, NodesIInv, NodesTypeOK, FoundersRun,
   EntriesFollowCalls, Mode, Stage, Live, Registered

(* Every step of the data plane by itself keeps the inductive invariant.   *)
LEMMA NodesNextIInv == NodesIInv /\ [NodesNext]_nodeVars => NodesIInv'
<1> SUFFICES ASSUME NodesIInv, [NodesNext]_nodeVars PROVE NodesIInv'
  OBVIOUS
<1>1. CASE \E i \in Instance : NodeStep(i)
  BY <1>1, NodeStepType, NodeStepFounders, NodeStepEntries DEF NodesIInv
<1>2. CASE Operator
  <2>1. \/ \E r \in Role, n \in Nat : SetDesiredCapacity(r, n)
        \/ \E m \in Mode : SetClusterMode(m)
        \/ \E r \in Role : StartInstanceRefresh(r)
    BY <1>2 DEF Operator
  <2> QED BY <2>1, ControlType, ControlKeeps DEF NodesIInv
<1>3. CASE UNCHANGED nodeVars
  BY <1>3 DEF nodeVars, NodesIInv, NodesTypeOK, FoundersRun, EntriesFollowCalls,
     Bootstrapper, Live
<1> QED BY <1>1, <1>2, <1>3 DEF NodesNext

(* The inductive invariant holds of the data plane by itself.              *)
THEOREM NodesInvariant == NodesSpec => []NodesIInv
BY NodesInitIInv, NodesNextIInv, PTL DEF NodesSpec

(* The data plane's variables keep their types.                            *)
THEOREM NodesTypeCorrect == NodesSpec => []NodesTypeOK
<1>1. NodesIInv => NodesTypeOK
  BY DEF NodesIInv
<1> QED BY <1>1, NodesInvariant, PTL

(* A bootstrapper that announced itself has founded its cluster: no        *)
(* failure of its script or of the API is skipped on the way.              *)
THEOREM AnnouncedBootstrappersFormed == NodesSpec => []AnnouncedBootstrapperFormed
<1>1. NodesIInv => AnnouncedBootstrapperFormed
  BY DEF NodesIInv, FoundersRun, AnnouncedBootstrapperFormed
<1> QED BY <1>1, NodesInvariant, PTL

(* A live node that was announced is in Cloud Map.                         *)
THEOREM AnnouncedAreDiscoverable == NodesSpec => []AnnouncedDiscoverable
<1>1. NodesIInv => AnnouncedDiscoverable
  BY DEF NodesIInv, EntriesFollowCalls, AnnouncedDiscoverable
<1> QED BY <1>1, NodesInvariant, PTL

-----------------------------------------------------------------------------
(***************************************************************************)
(* Nodes meet only through Cloud Map. What keeps it so: only bootstrappers *)
(* found clusters, and whoever has, or had when somebody looked, an entry  *)
(* in Cloud Map has called RegisterInstance.                               *)
(***************************************************************************)
Called(i) == stage[i] \notin {"unborn", "booting", "configured", "running"}

FoundersBootstrap ==
  \A i \in Instance : conf[i] = "found" \/ cluster[i] = i => Bootstrapper(i)

EntriesCalled ==
  \A i \in Instance :
    /\ call[i] # "idle" \/ disco[i] # "absent" => Called(i)
    /\ \A s \in seeds[i] : Called(s)

Met == FoundersBootstrap /\ EntriesCalled /\ JoinedThroughCloudMap

(* Who has called RegisterInstance stays so, and no step but Join puts an  *)
(* instance into a cluster that another one founded.                       *)
LEMMA NodeStepMoves ==
  ASSUME NodesTypeOK, FoundersBootstrap, NEW i \in Instance, NodeStep(i)
  PROVE  /\ \A j \in Instance : Called(j) => Called(j)'
         /\ Join(i) \/ \A j \in Instance :
              cluster'[j] = cluster[j] \/ (cluster'[j] = j /\ Bootstrapper(j) /\ j = i /\ ~Called(j))
<1> USE DEF NodesTypeOK, Called, FoundersBootstrap
<1>1. CASE Launch(i) \/ Terminate(i)
  BY <1>1 DEF Launch, Terminate, Live
<1>2. CASE Specialize(i) \/ SpecializeFails(i)
  BY <1>2 DEF Specialize, SpecializeFails, AfterError
<1>3. CASE Start(i) \/ StartFails(i)
  BY <1>3 DEF Start, StartFails, AfterError
<1>4. CASE CallRegister(i) \/ SignalInitFailure(i)
  BY <1>4 DEF CallRegister, SignalInitFailure
<1>5. CASE RegisterInstance(i)
  BY <1>5 DEF RegisterInstance, RegisterWithCloudMap, PublishRegistered, RegisterReturns,
     RegisterFails, AfterError
<1>6. CASE BecomeVisible(i) \/ Cleanup(i)
  BY <1>6 DEF BecomeVisible, Cleanup
<1>7. CASE Join(i)
  BY <1>7 DEF Join
<1> QED BY <1>1, <1>2, <1>3, <1>4, <1>5, <1>6, <1>7 DEF NodeStep, Script

(* Only bootstrappers found clusters.                                      *)
LEMMA FoundersStay ==
  ASSUME NodesTypeOK, NodesTypeOK', Met, NEW i \in Instance, NodeStep(i)
  PROVE  FoundersBootstrap'
<1> USE NodesAssumption DEF NodesTypeOK, FoundersBootstrap, Bootstrapper
<1>1. CASE Join(i)
  <2>1. PICK s \in seeds[i] : cluster[s] # None /\ cluster' = [cluster EXCEPT ![i] = cluster[s]]
    BY <1>1 DEF Join
  <2>2. s \in Instance /\ cluster[i] = None
    BY <1>1 DEF Join
  <2>3. cluster[s] # i
    BY <2>1, <2>2 DEF Met, JoinedThroughCloudMap
  <2> QED BY <1>1, <2>1, <2>3 DEF Met, Join
<1>2. CASE Specialize(i) \/ SpecializeFails(i) \/ Start(i) \/ StartFails(i)
  BY <1>2 DEF Met, Specialize, SpecializeFails, Start, StartFails
<1>3. CASE Launch(i) \/ Terminate(i) \/ CallRegister(i) \/ SignalInitFailure(i)
  BY <1>3 DEF Met, Launch, Terminate, CallRegister, SignalInitFailure
<1>4. CASE RegisterInstance(i) \/ BecomeVisible(i) \/ Cleanup(i)
  BY <1>4 DEF Met, RegisterInstance, RegisterWithCloudMap, PublishRegistered, RegisterReturns,
     RegisterFails, BecomeVisible, Cleanup
<1> QED BY <1>1, <1>2, <1>3, <1>4 DEF NodeStep, Script

(* Entries and seeds belong to instances that called.                      *)
LEMMA EntriesStay ==
  ASSUME NodesTypeOK, NodesTypeOK', Met, NEW i \in Instance, NodeStep(i)
  PROVE  EntriesCalled'
<1>1. \A j \in Instance : Called(j) => Called(j)'
  BY NodeStepMoves DEF Met
<1> USE DEF NodesTypeOK, EntriesCalled
<1>2. CASE Specialize(i)
  <2>1. \A s \in Discoverable : s \in Instance /\ Called(s)
    BY DEF Discoverable, Met
  <2>2. \A j \in Instance : \A s \in seeds'[j] : s \in seeds[j] \/ s \in Discoverable
    BY <1>2 DEF Specialize
  <2> QED BY <1>1, <1>2, <2>1, <2>2 DEF Met, Specialize
<1>3. CASE SpecializeFails(i) \/ Start(i) \/ StartFails(i) \/ SignalInitFailure(i)
  BY <1>1, <1>3 DEF Met, SpecializeFails, Start, StartFails, SignalInitFailure
<1>4. CASE Launch(i) \/ Terminate(i) \/ Join(i)
  BY <1>1, <1>4 DEF Met, Launch, Terminate, Join
<1>5. CASE CallRegister(i)
  <2>1. Called(i)'
    BY <1>5 DEF CallRegister, Called
  <2> QED BY <1>1, <1>5, <2>1 DEF Met, CallRegister
<1>6. CASE RegisterInstance(i)
  <2>1. call[i] # "idle"
    BY <1>6 DEF RegisterInstance, RegisterWithCloudMap, PublishRegistered, RegisterReturns,
       RegisterFails
  <2> QED BY <1>1, <1>6, <2>1 DEF Met, RegisterInstance, RegisterWithCloudMap, PublishRegistered,
      RegisterReturns, RegisterFails
<1>7. CASE BecomeVisible(i) \/ Cleanup(i)
  BY <1>1, <1>7 DEF Met, BecomeVisible, Cleanup
<1> QED BY <1>2, <1>3, <1>4, <1>5, <1>6, <1>7 DEF NodeStep, Script

(* A node that joins takes the cluster of one that is in it through Cloud  *)
(* Map, or that founded it.                                                *)
LEMMA JoinedStay ==
  ASSUME NodesTypeOK, NodesTypeOK', Met, NEW i \in Instance, NodeStep(i)
  PROVE  JoinedThroughCloudMap'
<1> DEFINE Sound(c) == Bootstrapper(c) /\ cluster[c] = c /\ Called(c)
<1>1. \A j \in Instance : Called(j) => Called(j)'
  BY NodeStepMoves DEF Met
<1>2. JoinedThroughCloudMap <=> \A j \in Instance : cluster[j] \notin {None, j} => Sound(cluster[j])
  BY DEF JoinedThroughCloudMap, Called
<1>3. JoinedThroughCloudMap' <=>
        \A j \in Instance : cluster'[j] \notin {None, j} => Sound(cluster[j])'
  BY DEF JoinedThroughCloudMap, Called
<1>4. CASE Join(i)
  <2>1. PICK s \in seeds[i] : cluster[s] # None /\ cluster' = [cluster EXCEPT ![i] = cluster[s]]
    BY <1>4 DEF Join
  <2>2. s \in Instance /\ cluster[i] = None
    BY <1>4 DEF Join, NodesTypeOK
  <2>3. Sound(cluster[s])
    <3>1. CASE cluster[s] = s
      BY <2>2, <3>1 DEF Met, FoundersBootstrap, EntriesCalled
    <3>2. CASE cluster[s] # s
      BY <1>2, <2>1, <2>2, <3>2 DEF Met
    <3> QED BY <3>1, <3>2
  <2>4. \A c \in Instance : Sound(c) => Sound(c)'
    <3> SUFFICES ASSUME NEW c \in Instance, Sound(c) PROVE Sound(c)'
      OBVIOUS
    <3>1. c # i
      BY <2>2, NodesAssumption
    <3> QED BY <1>1, <2>1, <3>1 DEF NodesTypeOK, Bootstrapper
  <2>5. \A j \in Instance : cluster'[j] \notin {None, j} =>
          cluster'[j] \in Instance /\ Sound(cluster'[j])
    <3> SUFFICES ASSUME NEW j \in Instance, cluster'[j] \notin {None, j}
                 PROVE  cluster'[j] \in Instance /\ Sound(cluster'[j])
      OBVIOUS
    <3>1. CASE j = i
      BY <2>1, <2>2, <2>3, <3>1 DEF NodesTypeOK
    <3>2. CASE j # i
      BY <1>2, <2>1, <3>2 DEF NodesTypeOK, Met
    <3> QED BY <3>1, <3>2
  <2> QED BY <1>3, <2>4, <2>5
<1>5. CASE ~Join(i)
  <2>1. \A j \in Instance : cluster'[j] = cluster[j] \/ cluster'[j] = j
    BY <1>5, NodeStepMoves DEF Met
  <2>2. \A c \in Instance : Sound(c) => Sound(c)'
    BY <1>1, <2>1 DEF Bootstrapper
  <2>3. \A j \in Instance : cluster[j] \notin {None, j} => cluster[j] \in Instance
    BY DEF NodesTypeOK
  <2> HIDE DEF Sound
  <2> QED BY <1>2, <1>3, <2>1, <2>2, <2>3 DEF Met
<1> QED BY <1>4, <1>5

(* A node is in a cluster of a bootstrapper that had called                *)
(* RegisterInstance, whatever fails, is replaced or is refreshed.          *)
THEOREM NodesMeetInCloudMap == NodesSpec => []JoinedThroughCloudMap
<1>1. NodesInit => Met
  BY NodesAssumption DEF NodesInit, Met, FoundersBootstrap, EntriesCalled, JoinedThroughCloudMap
<1>2. NodesIInv /\ NodesIInv' /\ Met /\ [NodesNext]_nodeVars => Met'
  <2> SUFFICES ASSUME NodesTypeOK, NodesTypeOK', Met, [NodesNext]_nodeVars PROVE Met'
    BY DEF NodesIInv
  <2>1. CASE \E i \in Instance : NodeStep(i)
    BY <2>1, FoundersStay, EntriesStay, JoinedStay DEF Met
  <2>2. CASE Operator \/ UNCHANGED nodeVars
    <3>1. UNCHANGED <<stage, conf, seeds, cluster, call, disco>>
      BY <2>2 DEF Operator, SetDesiredCapacity, SetClusterMode, StartInstanceRefresh, nodeVars
    <3> QED BY <3>1 DEF Met, FoundersBootstrap, EntriesCalled, JoinedThroughCloudMap, Called,
        Bootstrapper
  <2> QED BY <2>1, <2>2 DEF NodesNext
<1>3. Met => JoinedThroughCloudMap
  BY DEF Met
<1> QED BY <1>1, <1>2, <1>3, NodesInvariant, PTL DEF NodesSpec

=============================================================================

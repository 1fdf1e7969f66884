------------------------ MODULE DiscoveryResetProofs ------------------------
(***************************************************************************)
(* Proofs about resets of the discovery service, for any number of nodes,  *)
(* resets, commands and failing calls.                                     *)
(***************************************************************************)
EXTENDS DiscoveryReset, ClusterNodesProofs

(* Nothing leaves Cloud Map in a step of an instance, but by the clean-up  *)
(* of one that was terminated, which stays so.                             *)
LEMMA NodeStepForgets ==
  ASSUME NodesTypeOK, NEW i \in Instance, NodeStep(i)
  PROVE  /\ \A j \in Instance : disco[j] # "absent" /\ disco'[j] = "absent" => attempts[j] > 0
         /\ \A j \in Instance : stage[j] = "terminated" => stage'[j] = "terminated"
         /\ faults' \in {faults, faults + 1}
<1> USE DEF NodesTypeOK
<1>1. CASE Launch(i) \/ Terminate(i) \/ Join(i)
  BY <1>1 DEF Launch, Terminate, Join
<1>2. CASE Specialize(i) \/ SpecializeFails(i) \/ Start(i) \/ StartFails(i)
  BY <1>2 DEF Specialize, SpecializeFails, Start, StartFails, Fault, NoFault
<1>3. CASE CallRegister(i) \/ SignalInitFailure(i)
  BY <1>3 DEF CallRegister, SignalInitFailure, Fault, NoFault
<1>4. CASE RegisterInstance(i)
  BY <1>4 DEF RegisterInstance, RegisterWithCloudMap, PublishRegistered, RegisterReturns,
     RegisterFails, Fault
<1>5. CASE BecomeVisible(i) \/ Cleanup(i)
  BY <1>5 DEF BecomeVisible, Cleanup
<1> QED BY <1>1, <1>2, <1>3, <1>4, <1>5 DEF NodeStep, Script

(* The entries of a live announced node follow what a step does to it.     *)
LEMMA NodeStepResets ==
  ASSUME ResetTypeOK, EntriesFollowResets, UNCHANGED resetVars,
         NEW i \in Instance, NodeStep(i)
  PROVE  EntriesFollowResets'
<1> DEFINE Lost(j) == \E a \in Reset : j \in Taken(a)
<1>1. \A j \in Instance : Lost(j)' <=> Lost(j)
  BY DEF Taken, resetVars
<1>2. EntriesFollowResets' <=>
        \A j \in Instance :
          /\ stage'[j] # "terminated" => attempts'[j] = 0
          /\ stage'[j] = "unborn" => call'[j] = "idle" /\ Registered(j) \notin published'
          /\ /\ stage'[j] \notin {"unborn", "terminated"}
             /\ call'[j] \in {"registered", "published"} \/ Registered(j) \in published'
             => disco'[j] # "absent" \/ Lost(j)'
  BY DEF EntriesFollowResets, Live, Registered
<1>3. \A j \in Instance :
        /\ stage[j] # "terminated" => attempts[j] = 0
        /\ stage[j] = "unborn" => call[j] = "idle" /\ Registered(j) \notin published
        /\ /\ stage[j] \notin {"unborn", "terminated"}
           /\ call[j] \in {"registered", "published"} \/ Registered(j) \in published
           => disco[j] # "absent" \/ Lost(j)
  BY DEF EntriesFollowResets, Live
<1> HIDE DEF Lost
<1> SUFFICES ASSUME NEW j \in Instance
             PROVE  /\ stage'[j] # "terminated" => attempts'[j] = 0
                    /\ stage'[j] = "unborn" =>
                         call'[j] = "idle" /\ Registered(j) \notin published'
                    /\ /\ stage'[j] \notin {"unborn", "terminated"}
                       /\ call'[j] \in {"registered", "published"} \/ Registered(j) \in published'
                       => disco'[j] # "absent" \/ Lost(j)
  BY <1>1, <1>2
<1> USE NodesAssumption DEF ResetTypeOK, NodesTypeOK
<1>4. CASE Launch(i) \/ Terminate(i)
  BY <1>3, <1>4 DEF Launch, Terminate, Live
<1>5. CASE Specialize(i) \/ SpecializeFails(i)
  BY <1>3, <1>5 DEF Specialize, SpecializeFails, AfterError
<1>6. CASE Start(i) \/ StartFails(i)
  BY <1>3, <1>6 DEF Start, StartFails, AfterError
<1>7. CASE CallRegister(i)
  BY <1>3, <1>7 DEF CallRegister
<1>8. CASE SignalInitFailure(i)
  BY <1>3, <1>8, EventsDiffer DEF SignalInitFailure
<1>9. CASE RegisterWithCloudMap(i) \/ RegisterReturns(i) \/ RegisterFails(i)
  BY <1>3, <1>9 DEF RegisterWithCloudMap, RegisterReturns, RegisterFails, AfterError
<1>10. CASE PublishRegistered(i)
  BY <1>3, <1>10, EventsDiffer DEF PublishRegistered
<1>11. CASE Join(i)
  BY <1>3, <1>11 DEF Join
<1>12. CASE BecomeVisible(i) \/ Cleanup(i)
  BY <1>3, <1>12 DEF BecomeVisible, Cleanup
<1> QED BY <1>4, <1>5, <1>6, <1>7, <1>8, <1>9, <1>10, <1>11, <1>12
        DEF NodeStep, Script, RegisterInstance

(* A step of an instance keeps the invariant.                              *)
LEMMA NodeStepResetIInv ==
  ASSUME ResetIInv, NEW i \in Instance, NodeStep(i), UNCHANGED <<resetVars, commands>>
  PROVE  ResetIInv'
<1> USE DEF ResetIInv
<1>1. NodesTypeOK'
  BY NodeStepType DEF ResetTypeOK
<1>2. ResetTypeOK'
  BY <1>1 DEF ResetTypeOK, resetVars
<1>3. EntriesFollowResets'
  BY NodeStepResets
<1>4. \A a \in Reset, j \in Instance : Gone(a, j) => Gone(a, j)'
  BY NodeStepForgets DEF Gone, Taken, resetVars, ResetTypeOK
<1>5. RemovingPresent'
  <2>1. \A j \in Instance : disco[j] # "absent" /\ disco'[j] = "absent" => stage[j] = "terminated"
    BY NodeStepForgets DEF EntriesFollowResets, ResetTypeOK, NodesTypeOK
  <2>2. \A a \in Reset, j \in Instance : stage[j] = "terminated" => Gone(a, j)
    BY DEF Gone
  <2> QED BY <1>4, <2>1, <2>2 DEF RemovingPresent, resetVars, ResetTypeOK
<1>7. ListedOnce'
  BY DEF ListedOnce, resetVars
<1>6. ResetExplained'
  <2>1. faults' = 0 => faults = 0
    BY NodeStepForgets DEF ResetTypeOK, NodesTypeOK
  <2> QED BY <1>4, <2>1 DEF ResetExplained, resetVars, ResetTypeOK
<1> QED BY <1>2, <1>3, <1>5, <1>6, <1>7

(* A command of the operator keeps the invariant.                          *)
LEMMA OperatorResetIInv ==
  ASSUME ResetIInv, Operator, commands < MaxCommands, commands' = commands + 1,
         UNCHANGED resetVars
  PROVE  ResetIInv'
<1> USE DEF ResetIInv
<1>1. \/ \E r \in Role, n \in Nat : SetDesiredCapacity(r, n)
      \/ \E m \in Mode : SetClusterMode(m)
      \/ \E r \in Role : StartInstanceRefresh(r)
  BY DEF Operator
<1>2. NodesTypeOK'
  BY <1>1, ControlType DEF ResetTypeOK
<1>3. ResetTypeOK'
  BY <1>2, ResetAssumption DEF ResetTypeOK, resetVars
<1>4. UNCHANGED <<stage, call, disco, attempts, published, faults>>
  BY <1>1 DEF SetDesiredCapacity, SetClusterMode, StartInstanceRefresh
<1>5. EntriesFollowResets' /\ RemovingPresent' /\ ListedOnce' /\ ResetExplained'
  BY <1>4 DEF EntriesFollowResets, RemovingPresent, ListedOnce, ResetExplained, Gone, Taken, Live,
     resetVars, Registered
<1> QED BY <1>3, <1>5

(* What a reset does: it takes out only what it has yet to deregister, and *)
(* ends early only of a call that failed or of what is no longer there.    *)
LEMMA ResetMoves ==
  ASSUME ResetTypeOK, ListedOnce, NEW a \in Reset, ResetStep(a), UNCHANGED commands
  PROVE  /\ ResetTypeOK' /\ ListedOnce'
         /\ UNCHANGED <<stage, call, attempts, published>>
         /\ \A b \in Reset : Taken(b) \subseteq Taken(b)'
         /\ \A b \in Reset \ {a} : UNCHANGED <<at[b], left[b]>>
         /\ \A i \in Instance :
              disco'[i] = disco[i] \/ (disco'[i] = "absent" /\ i \in Taken(a)' /\ i \notin left'[a])
         /\ at'[a] = "removing" => \A i \in left'[a] : disco'[i] = "absent" =>
              at[a] = "removing" /\ i \in left[a] /\ disco[i] = "absent"
         /\ faults' = 0 => faults = 0
         /\ at'[a] = "failed" /\ faults' = 0 =>
              at[a] = "removing" /\ \E i \in left'[a] : i \in left[a] /\ disco[i] = "absent"
<1> USE DEF ResetTypeOK, NodesTypeOK, ListedOnce, Taken
<1>1. CASE ListInstances(a)
  BY <1>1 DEF ListInstances, nodeVars
<1>2. CASE ResetFails(a)
  <2>1. faults < MaxFaults /\ faults' = faults + 1
    BY <1>2 DEF ResetFails, Fault
  <2>2. faults' \in 0..MaxFaults /\ faults' # 0
    BY <2>1, NodesAssumption
  <2>3. /\ UNCHANGED <<mode, desired, refresh, stage, conf, seeds, cluster, call, attempts,
                       published, listed>>
        /\ at' = [at EXCEPT ![a] = "failed"]
    BY <1>2 DEF ResetFails
  <2>4. at' \in [Reset -> {"idle", "removing", "done", "failed"}]
    BY <2>3
  <2>5. CASE UNCHANGED <<disco, left>>
    BY <2>2, <2>3, <2>4, <2>5
  <2>6. CASE \E i \in left[a] : /\ ~Refused(i)
                                /\ disco' = [disco EXCEPT ![i] = "absent"]
                                /\ left' = [left EXCEPT ![a] = @ \ {i}]
    <3>1. PICK i \in left[a] : /\ disco' = [disco EXCEPT ![i] = "absent"]
                               /\ left' = [left EXCEPT ![a] = @ \ {i}]
      BY <2>6
    <3>2. i \in Instance /\ i \in listed[a]
      OBVIOUS
    <3>3. at[a] = "removing"
      BY <1>2, <3>2 DEF ResetFails
    <3>4. left' \in [Reset -> SUBSET Instance] /\ left'[a] = left[a] \ {i}
      BY <3>1
    <3>5. disco' \in [Instance -> {"absent", "pending", "visible"}]
      BY <3>1, <3>2
    <3> QED BY <2>2, <2>3, <2>4, <3>1, <3>2, <3>3, <3>4, <3>5
  <2> QED BY <1>2, <2>5, <2>6 DEF ResetFails
<1>3. CASE ResetReturns(a)
  BY <1>3 DEF ResetReturns, nodeVars
<1>4. CASE \E i \in Instance : Deregister(a, i)
  BY <1>4 DEF Deregister, Refused
<1>5. CASE \E i \in Instance : DeregisterRefused(a, i)
  BY <1>5 DEF DeregisterRefused, Refused, nodeVars
<1> QED BY <1>1, <1>2, <1>3, <1>4, <1>5 DEF ResetStep

(* So a reset keeps the invariant.                                         *)
LEMMA ResetStepIInv ==
  ASSUME ResetIInv, NEW a \in Reset, ResetStep(a), UNCHANGED commands
  PROVE  ResetIInv'
<1> USE DEF ResetIInv
<1>1. \A b \in Reset : Taken(b) \subseteq Taken(b)'
  BY ResetMoves
<1>2. UNCHANGED <<stage, call, attempts, published>>
  BY ResetMoves
<1>3. \A i \in Instance :
        disco'[i] = disco[i] \/ (disco'[i] = "absent" /\ i \in Taken(a)' /\ i \notin left'[a])
  BY ResetMoves
<1>4. \A b \in Reset, i \in Instance : Gone(b, i) => Gone(b, i)'
  BY <1>1, <1>2 DEF Gone
<1>5. EntriesFollowResets'
  BY <1>1, <1>2, <1>3 DEF EntriesFollowResets, Live, Registered
<1>6. RemovingPresent'
  <2> SUFFICES ASSUME NEW b \in Reset, at'[b] = "removing", NEW i \in left'[b],
                      disco'[i] = "absent"
               PROVE  Gone(b, i)'
    BY DEF RemovingPresent
  <2>1. i \in Instance
    BY ResetMoves DEF ResetTypeOK
  <2>2. CASE b = a
    BY <1>4, <2>1, <2>2, ResetMoves DEF RemovingPresent
  <2>3. CASE b # a
    <3>1. at[b] = "removing" /\ i \in left[b]
      BY <2>3, ResetMoves
    <3>2. CASE disco[i] = "absent"
      BY <1>4, <2>1, <3>1, <3>2 DEF RemovingPresent
    <3>3. CASE disco[i] # "absent"
      BY <1>3, <2>1, <2>3, <3>3 DEF Gone
    <3> QED BY <3>2, <3>3
  <2> QED BY <2>2, <2>3
<1>7. ResetExplained'
  <2> SUFFICES ASSUME NEW b \in Reset, at'[b] = "failed", faults' = 0
               PROVE  \E i \in left'[b] : Gone(b, i)'
    BY DEF ResetExplained
  <2>1. left[b] \subseteq Instance
    BY DEF ResetTypeOK
  <2>2. faults = 0
    BY ResetMoves
  <2>3. CASE b = a
    BY <1>4, <2>1, <2>3, ResetMoves DEF RemovingPresent
  <2>4. CASE b # a
    <3>1. at[b] = "failed" /\ left'[b] = left[b]
      BY <2>4, ResetMoves
    <3> QED BY <1>4, <2>1, <2>2, <3>1 DEF ResetExplained
  <2> QED BY <2>3, <2>4
<1>8. ResetTypeOK' /\ ListedOnce'
  BY ResetMoves
<1> QED BY <1>5, <1>6, <1>7, <1>8

(* A node that is registered again keeps the invariant.                    *)
LEMMA AgainIInv ==
  ASSUME ResetIInv, NEW i \in Instance, RegisterAgain(i), UNCHANGED commands
  PROVE  ResetIInv'
<1> USE DEF ResetIInv, RegisterAgain, resetVars
<1>1. ResetTypeOK'
  BY DEF ResetTypeOK, NodesTypeOK
<1>2. \A j \in Instance : call'[j] = call[j] \/ (j = i /\ call'[j] = "looked_up")
  BY DEF ResetTypeOK, NodesTypeOK
<1>3. EntriesFollowResets'
  BY <1>2 DEF EntriesFollowResets, Live, Registered, Taken
<1>4. RemovingPresent' /\ ListedOnce' /\ ResetExplained'
  BY DEF RemovingPresent, ListedOnce, ResetExplained, Gone, Taken
<1> QED BY <1>1, <1>3, <1>4

-----------------------------------------------------------------------------
(* ResetIInv is an inductive invariant of resets beside a data plane that  *)
(* comes and goes.                                                         *)
THEOREM ResetInvariant == ResetSpec => []ResetIInv
<1>1. ResetInit => ResetIInv
  <2> SUFFICES ASSUME ResetInit PROVE ResetIInv
    OBVIOUS
  <2>1. NodesTypeOK
    BY NodesInitIInv DEF ResetInit, NodesIInv
  <2> QED BY <2>1, ResetAssumption DEF ResetInit, NodesInit, ResetIInv, ResetTypeOK,
      EntriesFollowResets, RemovingPresent, ListedOnce, ResetExplained, Live, Registered
<1>2. ResetIInv /\ [ResetNext]_allVars => ResetIInv'
  <2> SUFFICES ASSUME ResetIInv, [ResetNext]_allVars PROVE ResetIInv'
    OBVIOUS
  <2>1. CASE UNCHANGED allVars
    BY <2>1 DEF allVars, ResetIInv, ResetTypeOK, NodesTypeOK, EntriesFollowResets, RemovingPresent,
       ListedOnce, ResetExplained, Gone, Taken, Live, Registered
  <2>2. CASE ResetNext
    BY <2>2, NodeStepResetIInv, OperatorResetIInv, ResetStepIInv, AgainIInv DEF ResetNext
  <2> QED BY <2>1, <2>2
<1> QED BY <1>1, <1>2, PTL DEF ResetSpec

(* Only a reset that listed it makes a live announced node be forgotten.   *)
THEOREM ResetsForget == ResetSpec => []ForgottenByReset
<1>1. ResetIInv => ForgottenByReset
  BY DEF ResetIInv, EntriesFollowResets, ForgottenByReset
<1> QED BY <1>1, ResetInvariant, PTL

(* A reset that no call fails for ends early only for the sake of a        *)
(* clean-up or of another reset.                                           *)
THEOREM ResetsFailExplained == ResetSpec => []ResetExplained
<1>1. ResetIInv => ResetExplained
  BY DEF ResetIInv
<1> QED BY <1>1, ResetInvariant, PTL

=============================================================================

--------------------------- MODULE DiscoveryReset ---------------------------
(***************************************************************************)
(* An administrator's reset of the discovery service, beside the data      *)
(* plane of ClusterNodes: it lists the entries of Cloud Map and            *)
(* deregisters them one by one, while nodes come, register and are cleaned *)
(* up. Nodes that were forgotten may be registered again by hand.          *)
(***************************************************************************)
EXTENDS ClusterNodes

CONSTANTS
  Reset,       \* the runs of maestro-admin discovery reset
  MaxCommands  \* bound: how often the operator changes capacities, mode or groups

ASSUME ResetAssumption == MaxCommands \in Nat

VARIABLES
  at,      \* how far each run is
  listed,  \* the instances it found in Cloud Map
  left,    \* those of them that it has not deregistered
  commands \* the operator's commands so far

resetVars == <<at, listed, left>>
allVars == <<mode, desired, refresh, stage, conf, seeds, cluster, call, disco,
             attempts, published, faults, at, listed, left, commands>>

ResetInit ==
  /\ NodesInit
  /\ at = [a \in Reset |-> "idle"]
  /\ listed = [a \in Reset |-> {}]
  /\ left = [a \in Reset |-> {}]
  /\ commands = 0

(* ListInstances surely returns what DiscoverInstances would, and perhaps  *)
(* an entry whose registration is still under way.                         *)
ListInstances(a) ==
  /\ at[a] = "idle"
  /\ \E found \in SUBSET {i \in Instance : disco[i] # "absent"} :
       /\ Discoverable \subseteq found
       /\ listed' = [listed EXCEPT ![a] = found]
       /\ left' = [left EXCEPT ![a] = found]
  /\ at' = [at EXCEPT ![a] = "removing"]
  /\ UNCHANGED nodeVars

(* Mutant: an entry that is still being added is refused as well.          *)
RefusedPending(i) == disco[i] # "visible"
(* Deregistering an instance that is not registered raises.                *)
Refused(i) == disco[i] = "absent"

(* Mutant: the reset deregisters its instances without having listed them. *)
DeregisterAny(a, i) ==
  /\ at[a] = "removing"
  /\ ~Refused(i)
  /\ disco' = [disco EXCEPT ![i] = "absent"]
  /\ left' = [left EXCEPT ![a] = @ \ {i}]
  /\ UNCHANGED <<mode, desired, refresh, stage, conf, seeds, cluster, call, attempts,
                 published, faults, at, listed>>

Deregister(a, i) ==
  /\ at[a] = "removing"
  /\ i \in left[a]
  /\ ~Refused(i)
  /\ disco' = [disco EXCEPT ![i] = "absent"]
  /\ left' = [left EXCEPT ![a] = @ \ {i}]
  /\ UNCHANGED <<mode, desired, refresh, stage, conf, seeds, cluster, call, attempts,
                 published, faults, at, listed>>

(* The reset ends at the first error, whatever it has yet to deregister.   *)
DeregisterRefused(a, i) ==
  /\ at[a] = "removing"
  /\ i \in left[a]
  /\ Refused(i)
  /\ at' = [at EXCEPT ![a] = "failed"]
  /\ UNCHANGED <<nodeVars, listed, left>>

(* A call that fails, or one whose answer is lost.                         *)
ResetFails(a) ==
  /\ at[a] \in {"idle", "removing"}
  /\ Fault
  /\ at' = [at EXCEPT ![a] = "failed"]
  /\ \/ UNCHANGED <<disco, left>>
     \/ \E i \in left[a] :
          /\ ~Refused(i)
          /\ disco' = [disco EXCEPT ![i] = "absent"]
          /\ left' = [left EXCEPT ![a] = @ \ {i}]
  /\ UNCHANGED <<mode, desired, refresh, stage, conf, seeds, cluster, call, attempts,
                 published, listed>>

ResetReturns(a) ==
  /\ at[a] = "removing"
  /\ left[a] = {}
  /\ at' = [at EXCEPT ![a] = "done"]
  /\ UNCHANGED <<nodeVars, listed, left>>

(* maestro-admin discovery register-instance, for a node that had          *)
(* announced itself: the operation its script called, once more.           *)
RegisterAgain(i) ==
  /\ stage[i] = "announced"
  /\ call[i] = "idle"
  /\ disco[i] = "absent"
  /\ call' = [call EXCEPT ![i] = "looked_up"]
  /\ UNCHANGED <<mode, desired, refresh, stage, conf, seeds, cluster, disco, attempts,
                 published, faults, resetVars>>

ResetStep(a) ==
  \/ ListInstances(a) \/ ResetFails(a) \/ ResetReturns(a)
  \/ \E i \in Instance : Deregister(a, i) \/ DeregisterRefused(a, i)

ResetNext ==
  \/ \E i \in Instance : NodeStep(i) /\ UNCHANGED <<resetVars, commands>>
  \/ /\ commands < MaxCommands
     /\ commands' = commands + 1
     /\ Operator
     /\ UNCHANGED resetVars
  \/ \E a \in Reset : ResetStep(a) /\ UNCHANGED commands
  \/ \E i \in Instance : RegisterAgain(i) /\ UNCHANGED commands

ResetSpec == ResetInit /\ [][ResetNext]_allVars

-----------------------------------------------------------------------------
(* Properties.                                                             *)

ResetTypeOK ==
  /\ NodesTypeOK
  /\ at \in [Reset -> {"idle", "removing", "done", "failed"}]
  /\ listed \in [Reset -> SUBSET Instance]
  /\ left \in [Reset -> SUBSET Instance]
  /\ \A a \in Reset : left[a] \subseteq listed[a]
  /\ commands \in 0..MaxCommands

(* The instances that run a has deregistered.                              *)
Taken(a) == listed[a] \ left[a]

(* A live node that announced itself, or is about to, is in Cloud Map      *)
(* unless a reset has taken it out.                                        *)
EntriesFollowResets ==
  \A i \in Instance :
    /\ stage[i] # "terminated" => attempts[i] = 0
    /\ stage[i] = "unborn" => call[i] = "idle" /\ Registered(i) \notin published
    /\ /\ Live(i)
       /\ call[i] \in {"registered", "published"} \/ Registered(i) \in published
       => disco[i] # "absent" \/ \E a \in Reset : i \in Taken(a)

(* Why an instance that a reset has yet to deregister may be gone: it was  *)
(* terminated and cleaned up, or another reset was there first.            *)
Gone(a, i) == stage[i] = "terminated" \/ \E b \in Reset \ {a} : i \in Taken(b)

RemovingPresent ==
  \A a \in Reset : at[a] = "removing" =>
    \A i \in left[a] : disco[i] = "absent" => Gone(a, i)

(* No node is forgotten but by a reset that listed it: a live node that    *)
(* was announced is in Cloud Map, or was deregistered by a reset           *)
(* (RegisterInstance.go, cleanup.py and ResetDisco.go are all that writes  *)
(* there).                                                                 *)
ForgottenByReset ==
  \A i \in Instance :
    Registered(i) \in published /\ Live(i) /\ disco[i] = "absent" =>
      \E a \in Reset : i \in Taken(a)

(* If no call fails, a reset ends early only because an instance it listed *)
(* was cleaned up meanwhile, or deregistered by another reset: it then     *)
(* leaves the rest registered (ResetDisco.go:32).                          *)
ResetExplained ==
  \A a \in Reset : at[a] = "failed" /\ faults = 0 => \E i \in left[a] : Gone(a, i)

(* A reset lists once, before it deregisters anything.                     *)
ListedOnce == \A a \in Reset : at[a] = "idle" => listed[a] = {}

ResetIInv ==
  /\ ResetTypeOK /\ EntriesFollowResets /\ RemovingPresent /\ ListedOnce
  /\ ResetExplained

=============================================================================

--------------------------- MODULE AccountFactory ---------------------------
(***************************************************************************)
(* How the Admiral API makes the project of a tenant: it looks whether the *)
(* project exists, has AWS Organizations create an account, polls until    *)
(* that is done, moves the account out of the organisation's root, writes  *)
(* the project down and starts the account machine. Several requests run   *)
(* at once, each in a Lambda of its own that may die between any two of    *)
(* these calls; the account it asked for is created all the same. The poll *)
(* would give up after three minutes, but the Lambda's time limit of one   *)
(* minute always comes first: it is one of the ways to die.                *)
(*                                                                         *)
(* Mail for an account is sorted by the address the account was given. A   *)
(* name is the sequence of its words, which dashes separate.               *)
(***************************************************************************)
EXTENDS AccountMachine

CONSTANTS
  Word,         \* what names and addresses are made of
  Request,      \* requests to create a project
  Tenant,       \* names of tenants
  ProjectName   \* names of projects

(* tenant-${tenantName}-aws-${projectName}                                 *)
Address(t, p) == <<"tenant">> \o t \o <<"aws">> \o p

Words == Seq(Word)
Key == Tenant \X ProjectName
OrgAccount == [owner : Key, ou : {"root", "destination"}]

ASSUME FactoryAssumption ==
  /\ {"tenant", "aws"} \subseteq Word
  /\ \A t \in Tenant, p \in ProjectName : Address(t, p) \in Account
  /\ \A t \in Tenant : t \in Words /\ Len(t) > 0
  /\ \A p \in ProjectName : p \in Words /\ Len(p) > 0
  /\ None \notin OrgAccount

VARIABLES
  call,      \* progress of each request, and the names it came with
  creation,  \* what Organizations has to say about the account it asked for
  org,       \* the accounts of the organisation: whose they are, and where
  projects,  \* the project parameters in SSM: the account of each
  archive    \* who each stored message was taken to be for

factoryVars == <<call, creation, org, projects, archive>>
vars == <<machineVars, factoryVars>>

Stage == {"idle", "asked", "checked", "creating", "created", "moved",
          "recorded", "done", "failed"}

FactoryTypeOK ==
  /\ MachineTypeOK
  /\ call \in [Request -> [stage : Stage, key : Key]]
  /\ creation \in [Request -> CopyStatus \cup {"none"}]
  /\ org \in [Account -> OrgAccount \cup {None}]
  /\ projects \in [Key -> Account \cup {None}]
  /\ archive \subseteq [to : Account, tenant : Words, project : Words]

FactoryInit ==
  /\ MachineInit
  /\ call \in [Request -> [stage : {"idle"}, key : Key]]
  /\ creation = [i \in Request |-> "none"]
  /\ org = [a \in Account |-> None]
  /\ projects = [k \in Key |-> None]
  /\ archive = {}

AddressOf(i) == Address(call[i].key[1], call[i].key[2])

(* The request goes from one stage to another.                             *)
Proceeds(i, from, to) ==
  /\ call[i].stage = from
  /\ call' = [call EXCEPT ![i].stage = to]

-----------------------------------------------------------------------------
(* addProject, call by call.                                               *)

Ask(i) ==
  /\ Proceeds(i, "idle", "asked")
  /\ UNCHANGED <<machineVars, creation, org, projects, archive>>

EnsureProjectNotExists(i) ==
  /\ Proceeds(i, "asked", IF projects[call[i].key] = None THEN "checked" ELSE "failed")
  /\ UNCHANGED <<machineVars, creation, org, projects, archive>>

CreateAccount(i) ==
  /\ Proceeds(i, "checked", "creating")
  /\ creation' = [creation EXCEPT ![i] = "IN_PROGRESS"]
  /\ UNCHANGED <<machineVars, org, projects, archive>>

(* Mutant: an account that exists already is taken over.                   *)
ReadStatusAdopting(i) ==
  /\ creation[i] # "IN_PROGRESS"
  /\ Proceeds(i, "creating", IF org[AddressOf(i)] # None THEN "created" ELSE "failed")
  /\ UNCHANGED <<machineVars, creation, org, projects, archive>>

(* The answer of createAccount or of a poll, when it says how it ended.    *)
ReadStatus(i) ==
  /\ creation[i] # "IN_PROGRESS"
  /\ Proceeds(i, "creating", IF creation[i] = "SUCCEEDED" THEN "created" ELSE "failed")
  /\ UNCHANGED <<machineVars, creation, org, projects, archive>>

(* Mutant: the account is left in the root of the organisation.            *)
FinalizeAccountUnmoved(i) ==
  /\ Proceeds(i, "created", "moved")
  /\ UNCHANGED <<machineVars, creation, org, projects, archive>>

FinalizeAccount(i) ==
  /\ Proceeds(i, "created", "moved")
  /\ org' = [org EXCEPT ![AddressOf(i)].ou = "destination"]
  /\ UNCHANGED <<machineVars, creation, projects, archive>>

(* Mutant: the project is written as soon as its account exists.           *)
PutProjectEarly(i) ==
  LET k == call[i].key IN
  /\ IF projects[k] = None
     THEN /\ Proceeds(i, "created", "recorded")
          /\ projects' = [projects EXCEPT ![k] = AddressOf(i)]
     ELSE Proceeds(i, "created", "failed") /\ UNCHANGED projects
  /\ UNCHANGED <<machineVars, creation, org, archive>>

PutProject(i) ==
  LET k == call[i].key IN
  /\ IF projects[k] = None
     THEN /\ Proceeds(i, "moved", "recorded")
          /\ projects' = [projects EXCEPT ![k] = AddressOf(i)]
     ELSE Proceeds(i, "moved", "failed") /\ UNCHANGED projects
  /\ UNCHANGED <<machineVars, creation, org, archive>>

(* Mutant: the machine is started before the project is written.           *)
StartExecutionUnrecorded(i) ==
  /\ \E x \in Execution : Start(x, AddressOf(i))
  /\ \/ Proceeds(i, "moved", "done") /\ NoFault
     \/ call[i].stage = "moved" /\ UNCHANGED call /\ Fault
  /\ UNCHANGED <<beacon, catalogVars, creation, org, projects, archive>>

(* The execution has no name of its own, so that a client that repeats the *)
(* call because its answer was lost starts a second one.                   *)
StartExecution(i) ==
  /\ \E x \in Execution : Start(x, AddressOf(i))
  /\ \/ Proceeds(i, "recorded", "done") /\ NoFault
     \/ call[i].stage = "recorded" /\ UNCHANGED call /\ Fault
  /\ UNCHANGED <<beacon, catalogVars, creation, org, projects, archive>>

(* A call throws, or the Lambda dies. The answer of a call that took       *)
(* effect is lost by a failure at the next stage.                          *)
RequestFails(i) ==
  /\ call[i].stage \notin {"idle", "done", "failed"}
  /\ call' = [call EXCEPT ![i].stage = "failed"]
  /\ Fault
  /\ UNCHANGED <<exec, beacon, catalogVars, creation, org, projects, archive>>

-----------------------------------------------------------------------------
(* AWS Organizations creates the account a request asked for, whatever has *)
(* become of the request, unless another account has the address.          *)
FinishCreation(i) ==
  LET a == AddressOf(i) IN
  /\ creation[i] = "IN_PROGRESS"
  /\ IF org[a] = None
     THEN /\ creation' = [creation EXCEPT ![i] = "SUCCEEDED"]
          /\ org' = [org EXCEPT ![a] = [owner |-> call[i].key, ou |-> "root"]]
     ELSE creation' = [creation EXCEPT ![i] = "FAILED"] /\ UNCHANGED org
  /\ UNCHANGED <<machineVars, call, projects, archive>>

(* Where the address pattern of the mail processor matches. The pattern is *)
(* not anchored at its left.                                               *)
Matches(address) ==
  {n \in 1..(Len(address) - 3) : address[n] = "tenant" /\ address[n + 2] = "aws"}

(* The leftmost match is the one taken.                                    *)
Leftmost(address) ==
  {n \in Matches(address) : \A m \in Matches(address) : n <= m}

(* Mutant: the project, like the tenant, is taken to be one word.          *)
ExtractTenantAccountOneWord(address, n) ==
  [tenant |-> <<address[n + 1]>>, project |-> <<address[n + 3]>>]

(* The tenant is one word, the project is all that follows.                *)
ExtractTenantAccount(address, n) ==
  [tenant |-> <<address[n + 1]>>, project |-> SubSeq(address, n + 3, Len(address))]

(* A message for an account is stored under the names its address gives.   *)
(* One whose address does not match is dropped, one that cannot be stored  *)
(* is not tried again.                                                     *)
ReceiveMail(a) ==
  /\ org[a] # None
  /\ \E n \in Leftmost(a) :
       LET names == ExtractTenantAccount(a, n) IN
       archive' = archive \cup
         {[to |-> a, tenant |-> names.tenant, project |-> names.project]}
  /\ UNCHANGED <<machineVars, call, creation, org, projects>>

-----------------------------------------------------------------------------
RequestStep(i) ==
  \/ Ask(i) \/ EnsureProjectNotExists(i) \/ CreateAccount(i) \/ ReadStatus(i)
  \/ FinalizeAccount(i) \/ PutProject(i) \/ StartExecution(i)
  \/ RequestFails(i) \/ FinishCreation(i)

MachineStep ==
  /\ CatalogStep \/ \E x \in Execution : ExecutionStep(x)
  /\ UNCHANGED factoryVars

FactoryNext ==
  \/ \E i \in Request : RequestStep(i)
  \/ \E a \in Account : ReceiveMail(a)
  \/ MachineStep

(* Step Functions keeps running the tasks of an execution, and Service     *)
(* Catalog ends every copy. A request may be left where it is.             *)
FactoryFairness ==
  /\ \A x \in Execution : WF_vars(ExecutionStep(x) /\ UNCHANGED factoryVars)
  /\ WF_vars(CatalogStep /\ UNCHANGED factoryVars)

FactorySpec == FactoryInit /\ [][FactoryNext]_vars
FairFactorySpec == FactorySpec /\ FactoryFairness

-----------------------------------------------------------------------------
(* Every project that is written down has an account made for it, in the   *)
(* organisational unit whose policies apply to it; no two projects have    *)
(* the same one, though the addresses of two projects may be the same.     *)
ProjectsOwnAccounts ==
  \A k \in Key : projects[k] # None =>
    org[projects[k]] = [owner |-> k, ou |-> "destination"]

(* The account machine never furnishes an account but for a project that   *)
(* is written down, whichever requests race or fail.                       *)
FurnishedForProjects ==
  \A x \in Execution : exec[x].state # "unstarted" =>
    \E k \in Key : projects[k] = exec[x].account

(* An account whose creator has died before it wrote the project.          *)
Abandoned(a) ==
  /\ org[a] # None
  /\ \A k \in Key : projects[k] # a
  /\ \A i \in Request : AddressOf(i) = a /\ creation[i] = "SUCCEEDED" =>
       call[i].stage = "failed"

(* An abandoned account stays so: no later request for the project gets    *)
(* hold of it, because the address is taken. Trying again is no repair.    *)
AbandonedForGood == [][\A a \in Account : Abandoned(a) => Abandoned(a)']_vars

(* Mail is stored under the names of the project whose account it is for.  *)
MailReachesOwner ==
  \A m \in archive : org[m.to].owner = <<m.tenant, m.project>>

(* Every execution ends, however the copies it waits for end.              *)
ExecutionsEnd ==
  \A x \in Execution :
    exec[x].state # "unstarted" ~> exec[x].state \in {"Success", "Failed"}

-----------------------------------------------------------------------------
(* What the proofs need besides: how far a request is tells what has       *)
(* happened to its account, and an account has the address of its owner.   *)
InOrder(i) ==
  /\ creation[i] = "SUCCEEDED" =>
       org[AddressOf(i)] # None /\ org[AddressOf(i)].owner = call[i].key
  /\ call[i].stage \in {"created", "moved", "recorded", "done"} =>
       creation[i] = "SUCCEEDED"
  /\ call[i].stage \in {"moved", "recorded", "done"} =>
       org[AddressOf(i)].ou = "destination"
  /\ call[i].stage \in {"recorded", "done"} =>
       projects[call[i].key] = AddressOf(i)

AccountsAddressed ==
  \A a \in Account : org[a] # None =>
    a = Address(org[a].owner[1], org[a].owner[2])

FactoryIInv ==
  /\ MachineIInv
  /\ FactoryTypeOK
  /\ \A i \in Request : InOrder(i)
  /\ AccountsAddressed
  /\ ProjectsOwnAccounts
  /\ FurnishedForProjects

=============================================================================

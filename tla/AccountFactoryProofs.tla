------------------------ MODULE AccountFactoryProofs ------------------------
(***************************************************************************)
(* Theorems about the Admiral API and the account machine together, for    *)
(* any requests, names of tenants and projects, executions, products and   *)
(* failures.                                                               *)
(***************************************************************************)
EXTENDS AccountFactory, AccountMachineProofs

(* The address of a project is one an account may have, and a sequence of  *)
(* words.                                                                  *)
LEMMA AddressIs ==
  ASSUME NEW t \in Tenant, NEW p \in ProjectName
  PROVE  /\ Address(t, p) \in Account
         /\ Address(t, p) \in Words
         /\ Len(Address(t, p)) = Len(t) + Len(p) + 2
<1>1. /\ t \in Words /\ p \in Words
      /\ <<"tenant">> \in Words /\ <<"aws">> \in Words
  <2>1. t \in Words /\ p \in Words
    BY FactoryAssumption
  <2>2. "tenant" \in Word /\ "aws" \in Word
    BY FactoryAssumption
  <2>3. \A w \in Word : <<w>> \in Seq(Word)
    OBVIOUS
  <2> QED BY <2>1, <2>2, <2>3 DEF Words
<1>2. /\ <<"tenant">> \o t \in Words
      /\ Len(<<"tenant">> \o t) = 1 + Len(t)
  BY <1>1, ConcatProperties DEF Words
<1>3. /\ <<"tenant">> \o t \o <<"aws">> \in Words
      /\ Len(<<"tenant">> \o t \o <<"aws">>) = Len(t) + 2
  BY <1>1, <1>2, ConcatProperties, LenProperties DEF Words
<1> QED BY <1>1, <1>3, ConcatProperties, LenProperties, FactoryAssumption
        DEF Address, Words

(* The address for which a request asks is one an account may have.        *)
LEMMA AddressOfIs ==
  ASSUME FactoryTypeOK, NEW i \in Request
  PROVE  /\ call[i].key \in Key
         /\ AddressOf(i) \in Account
         /\ AddressOf(i) = Address(call[i].key[1], call[i].key[2])
BY AddressIs DEF FactoryTypeOK, AddressOf, Key

(* A request that proceeds keeps its names and disturbs no other.          *)
LEMMA ProceedsIs ==
  ASSUME FactoryTypeOK, NEW i \in Request, NEW from, NEW to \in Stage, Proceeds(i, from, to)
  PROVE  /\ call[i].stage = from
         /\ call' \in [Request -> [stage : Stage, key : Key]]
         /\ call'[i].stage = to
         /\ \A j \in Request : call'[j].key = call[j].key
         /\ \A j \in Request \ {i} : call'[j] = call[j]
BY DEF FactoryTypeOK, Proceeds

-----------------------------------------------------------------------------
(* What a step of a request may do to the accounts and the projects.       *)
OrgGrows ==
  \A a \in Account : org[a] # None =>
    /\ org'[a] # None
    /\ org'[a].owner = org[a].owner
    /\ org[a].ou = "destination" => org'[a].ou = "destination"

ProjectsGrow(i) ==
  \A k \in Key :
    \/ projects'[k] = projects[k]
    \/ /\ projects[k] = None /\ k = call[i].key /\ projects'[k] = AddressOf(i)
       /\ call[i].stage = "moved" /\ org' = org

CallsStay(i) ==
  /\ \A j \in Request : call'[j].key = call[j].key
  /\ \A j \in Request \ {i} : call'[j] = call[j] /\ creation'[j] = creation[j]

FactoryDataOK ==
  /\ call \in [Request -> [stage : Stage, key : Key]]
  /\ creation \in [Request -> CopyStatus \cup {"none"}]
  /\ org \in [Account -> OrgAccount \cup {None}]
  /\ projects \in [Key -> Account \cup {None}]
  /\ archive \subseteq [to : Account, tenant : Words, project : Words]

Effects(i) ==
  /\ FactoryDataOK'
  /\ OrgGrows /\ ProjectsGrow(i) /\ CallsStay(i)
  /\ InOrder(i)'
  /\ AccountsAddressed'

LEMMA RequestEffects ==
  ASSUME FactoryIInv, NEW i \in Request, RequestStep(i)
  PROVE  Effects(i)
<1> DEFINE k == call[i].key
           a == AddressOf(i)
<1>1. /\ FactoryTypeOK /\ FactoryDataOK /\ InOrder(i) /\ AccountsAddressed
      /\ k \in Key /\ a \in Account /\ a = Address(k[1], k[2])
  BY AddressOfIs DEF FactoryIInv, FactoryTypeOK, FactoryDataOK
<1>2. ASSUME UNCHANGED <<creation, org, projects, archive>>,
             NEW from, NEW to \in Stage, Proceeds(i, from, to),
             to \in {"created", "moved", "recorded", "done"} => creation[i] = "SUCCEEDED",
             to \in {"moved", "recorded", "done"} => org[a].ou = "destination",
             to \in {"recorded", "done"} => projects[k] = a
      PROVE  Effects(i)
  <2>1. /\ call' \in [Request -> [stage : Stage, key : Key]]
        /\ call'[i].stage = to
        /\ call'[i].key = k
        /\ CallsStay(i)
    BY <1>1, <1>2, ProceedsIs DEF CallsStay
  <2>2. AddressOf(i)' = a
    BY <2>1 DEF AddressOf
  <2>3. InOrder(i)'
    BY <1>1, <1>2, <2>1, <2>2 DEF InOrder
  <2>4. OrgGrows /\ ProjectsGrow(i) /\ AccountsAddressed'
    BY <1>1, <1>2 DEF OrgGrows, ProjectsGrow, AccountsAddressed
  <2> QED BY <1>1, <1>2, <2>1, <2>3, <2>4 DEF Effects, FactoryDataOK
<1>3. CASE Ask(i)
  BY <1>2, <1>3 DEF Ask, Stage
<1>4. CASE EnsureProjectNotExists(i)
  BY <1>2, <1>4 DEF EnsureProjectNotExists, Stage
<1>5. CASE CreateAccount(i)
  <2>1. /\ Proceeds(i, "checked", "creating")
        /\ creation' = [creation EXCEPT ![i] = "IN_PROGRESS"]
        /\ UNCHANGED <<org, projects, archive>>
    BY <1>5 DEF CreateAccount
  <2>2. /\ call' \in [Request -> [stage : Stage, key : Key]]
        /\ call'[i].stage = "creating"
        /\ \A j \in Request : call'[j].key = call[j].key
        /\ \A j \in Request \ {i} : call'[j] = call[j]
    BY <1>1, <2>1, ProceedsIs DEF Stage
  <2>3. /\ creation' \in [Request -> CopyStatus \cup {"none"}]
        /\ creation'[i] = "IN_PROGRESS"
        /\ \A j \in Request \ {i} : creation'[j] = creation[j]
    BY <1>1, <2>1 DEF FactoryDataOK, CopyStatus
  <2>4. InOrder(i)' /\ CallsStay(i)
    BY <2>2, <2>3 DEF InOrder, CallsStay
  <2>5. OrgGrows /\ ProjectsGrow(i) /\ AccountsAddressed'
    BY <1>1, <2>1 DEF OrgGrows, ProjectsGrow, AccountsAddressed
  <2> QED BY <1>1, <2>1, <2>2, <2>3, <2>4, <2>5 DEF Effects, FactoryDataOK
<1>6. CASE ReadStatus(i)
  BY <1>2, <1>6 DEF ReadStatus, Stage
<1>7. CASE FinalizeAccount(i)
  <2>1. /\ Proceeds(i, "created", "moved")
        /\ org' = [org EXCEPT ![a].ou = "destination"]
        /\ UNCHANGED <<creation, projects, archive>>
    BY <1>7 DEF FinalizeAccount
  <2>2. /\ call[i].stage = "created"
        /\ call' \in [Request -> [stage : Stage, key : Key]]
        /\ call'[i].stage = "moved" /\ call'[i].key = k
        /\ CallsStay(i)
    BY <1>1, <2>1, ProceedsIs DEF Stage, CallsStay
  <2>3. creation[i] = "SUCCEEDED" /\ org[a] # None /\ org[a].owner = k
    BY <1>1, <2>2 DEF InOrder
  <2>4. org[a] \in OrgAccount
    BY <1>1, <2>3 DEF FactoryDataOK
  <2> DEFINE r == [org[a] EXCEPT !.ou = "destination"]
  <2>5. r \in OrgAccount /\ r.ou = "destination" /\ r.owner = org[a].owner
    BY <2>4, SMTT(30) DEF OrgAccount
  <2>6. org' = [org EXCEPT ![a] = r] /\ r # None
    BY <2>1, <2>5, FactoryAssumption
  <2> HIDE DEF a, r
  <2>7. /\ org' \in [Account -> OrgAccount \cup {None}]
        /\ org'[a] = r
        /\ \A b \in Account \ {a} : org'[b] = org[b]
    BY <1>1, <2>5, <2>6 DEF FactoryDataOK
  <2>8. OrgGrows
    BY <2>5, <2>6, <2>7 DEF OrgGrows
  <2>9. AccountsAddressed'
    BY <1>1, <2>3, <2>5, <2>6, <2>7 DEF AccountsAddressed
  <2>10. AddressOf(i)' = a
    BY <2>2 DEF AddressOf, a
  <2>11. InOrder(i)'
    BY <2>1, <2>2, <2>3, <2>5, <2>6, <2>7, <2>10 DEF InOrder
  <2>12. ProjectsGrow(i) /\ FactoryDataOK'
    BY <1>1, <2>1, <2>2, <2>7 DEF FactoryDataOK, ProjectsGrow
  <2> QED BY <2>2, <2>8, <2>9, <2>11, <2>12 DEF Effects
<1>8. CASE PutProject(i)
  <2>1. CASE projects[k] = None
    <3>1. /\ Proceeds(i, "moved", "recorded")
          /\ projects' = [projects EXCEPT ![k] = a]
          /\ UNCHANGED <<creation, org, archive>>
      BY <1>8, <2>1 DEF PutProject
    <3>2. /\ call[i].stage = "moved"
          /\ call' \in [Request -> [stage : Stage, key : Key]]
          /\ call'[i].stage = "recorded" /\ call'[i].key = k
          /\ CallsStay(i)
      BY <1>1, <3>1, ProceedsIs DEF Stage, CallsStay
    <3>3. AddressOf(i)' = a
      BY <3>2 DEF AddressOf
    <3>4. /\ projects' \in [Key -> Account \cup {None}]
          /\ projects'[k] = a
          /\ \A l \in Key \ {k} : projects'[l] = projects[l]
      BY <1>1, <3>1 DEF FactoryDataOK
    <3>5. InOrder(i)'
      BY <1>1, <3>1, <3>2, <3>3, <3>4 DEF InOrder
    <3>6. ProjectsGrow(i)
      BY <2>1, <3>1, <3>2, <3>4 DEF ProjectsGrow
    <3>7. OrgGrows /\ AccountsAddressed'
      BY <1>1, <3>1 DEF OrgGrows, AccountsAddressed
    <3> QED BY <1>1, <3>1, <3>2, <3>4, <3>5, <3>6, <3>7 DEF Effects, FactoryDataOK
  <2>2. CASE projects[k] # None
    BY <1>2, <1>8, <2>2 DEF PutProject, Stage
  <2> QED BY <2>1, <2>2
<1>9. CASE StartExecution(i)
  <2>1. UNCHANGED <<creation, org, projects, archive>>
    BY <1>9 DEF StartExecution
  <2>2. CASE Proceeds(i, "recorded", "done")
    <3>1. call[i].stage = "recorded"
      BY <2>2 DEF Proceeds
    <3>2. creation[i] = "SUCCEEDED" /\ org[a].ou = "destination" /\ projects[k] = a
      BY <1>1, <3>1 DEF InOrder
    <3> QED BY <1>2, <2>1, <2>2, <3>2 DEF Stage
  <2>3. CASE call' = call
    BY <1>1, <2>1, <2>3
       DEF Effects, FactoryDataOK, OrgGrows, ProjectsGrow, CallsStay, InOrder,
           AddressOf, AccountsAddressed
  <2> QED BY <1>9, <2>2, <2>3 DEF StartExecution
<1>10. CASE RequestFails(i)
  <2>1. Proceeds(i, call[i].stage, "failed")
    BY <1>10 DEF RequestFails, Proceeds
  <2> QED BY <1>2, <1>10, <2>1 DEF RequestFails, Stage
<1>11. CASE FinishCreation(i)
  <2>1. /\ call' = call /\ UNCHANGED <<projects, archive>>
        /\ creation[i] = "IN_PROGRESS"
    BY <1>11 DEF FinishCreation
  <2>2. call[i].stage \notin {"created", "moved", "recorded", "done"}
    BY <1>1, <2>1 DEF InOrder
  <2>3. CASE org[a] = None
    <3> DEFINE r == [owner |-> k, ou |-> "root"]
    <3>1. /\ creation' = [creation EXCEPT ![i] = "SUCCEEDED"]
          /\ org' = [org EXCEPT ![a] = r]
      BY <1>11, <2>3 DEF FinishCreation
    <3>2. r \in OrgAccount /\ r # None /\ r.owner = k
      BY <1>1, FactoryAssumption DEF OrgAccount
    <3> HIDE DEF a, r
    <3>3. /\ org' \in [Account -> OrgAccount \cup {None}]
          /\ org'[a] = r
          /\ \A b \in Account \ {a} : org'[b] = org[b]
      BY <1>1, <3>1, <3>2 DEF FactoryDataOK
    <3>4. OrgGrows
      BY <2>3, <3>3 DEF OrgGrows
    <3>5. AccountsAddressed'
      BY <1>1, <3>2, <3>3 DEF AccountsAddressed
    <3>6. /\ creation' \in [Request -> CopyStatus \cup {"none"}]
          /\ \A j \in Request \ {i} : creation'[j] = creation[j]
      BY <1>1, <3>1 DEF FactoryDataOK, CopyStatus
    <3>7. AddressOf(i)' = a
      BY <2>1 DEF AddressOf, a
    <3>8. InOrder(i)'
      BY <2>1, <2>2, <3>2, <3>3, <3>7 DEF InOrder
    <3> QED BY <1>1, <2>1, <3>3, <3>4, <3>5, <3>6, <3>8
            DEF Effects, FactoryDataOK, ProjectsGrow, CallsStay
  <2>4. CASE org[a] # None
    <3>1. creation' = [creation EXCEPT ![i] = "FAILED"] /\ org' = org
      BY <1>11, <2>4 DEF FinishCreation
    <3>2. /\ creation' \in [Request -> CopyStatus \cup {"none"}]
          /\ creation'[i] = "FAILED"
          /\ \A j \in Request \ {i} : creation'[j] = creation[j]
      BY <1>1, <3>1 DEF FactoryDataOK, CopyStatus
    <3>3. InOrder(i)'
      BY <2>1, <2>2, <3>2 DEF InOrder
    <3> QED BY <1>1, <2>1, <3>1, <3>2, <3>3
            DEF Effects, FactoryDataOK, OrgGrows, ProjectsGrow, CallsStay, AccountsAddressed
  <2> QED BY <2>3, <2>4
<1> QED BY <1>3, <1>4, <1>5, <1>6, <1>7, <1>8, <1>9, <1>10, <1>11 DEF RequestStep

LEMMA MailTyped ==
  ASSUME FactoryIInv, NEW a \in Account, ReceiveMail(a)
  PROVE  archive' \subseteq [to : Account, tenant : Words, project : Words]
<1>1. PICK n \in Leftmost(a) :
        archive' = archive \cup {[to |-> a, tenant |-> <<a[n + 1]>>,
                                  project |-> SubSeq(a, n + 3, Len(a))]}
  BY DEF ReceiveMail, ExtractTenantAccount
<1>2. a \in Words
  <2>1. /\ org[a] \in OrgAccount
        /\ a = Address(org[a].owner[1], org[a].owner[2])
    BY DEF FactoryIInv, FactoryTypeOK, AccountsAddressed, ReceiveMail
  <2> QED BY <2>1, AddressIs DEF OrgAccount, Key
<1>3. n \in 1..(Len(a) - 3) /\ Len(a) \in Nat
  BY <1>2, LenProperties DEF Leftmost, Matches, Words
<1>4. \A m \in 1..Len(a) : a[m] \in Word
  BY <1>2, ElementOfSeq DEF Words
<1>5. <<a[n + 1]>> \in Words
  <2>1. a[n + 1] \in Word
    BY <1>3, <1>4
  <2> QED BY <2>1 DEF Words
<1>6. SubSeq(a, n + 3, Len(a)) \in Words
  <2>1. \A m \in (n + 3)..Len(a) : a[m] \in Word
    BY <1>3, <1>4
  <2> QED BY <1>3, <2>1, SubSeqProperties DEF Words
<1> DEFINE t == <<a[n + 1]>>
           p == SubSeq(a, n + 3, Len(a))
<1>7. /\ archive' = archive \cup {[to |-> a, tenant |-> t, project |-> p]}
      /\ t \in Words /\ p \in Words
  BY <1>1, <1>5, <1>6
<1> HIDE DEF t, p
<1> QED BY <1>7 DEF FactoryIInv, FactoryTypeOK

-----------------------------------------------------------------------------
(* The invariant is inductive.                                             *)
LEMMA FactoryInitially ==
  ASSUME FactoryInit
  PROVE  FactoryIInv
<1>1. MachineIInv
  BY MachineInitially DEF FactoryInit
<1>2. /\ call \in [Request -> [stage : Stage, key : Key]]
      /\ \A i \in Request : call[i].stage = "idle"
  BY DEF FactoryInit, Stage
<1>3. /\ \A i \in Request : creation[i] = "none"
      /\ \A a \in Account : org[a] = None
      /\ \A k \in Key : projects[k] = None
      /\ \A x \in Execution : exec[x].state = "unstarted"
  BY DEF FactoryInit, MachineInit, Context
<1>4. FactoryTypeOK
  BY <1>1, <1>2 DEF FactoryInit, FactoryTypeOK, MachineIInv
<1>5. \A i \in Request : InOrder(i)
  BY <1>2, <1>3 DEF InOrder
<1> QED BY <1>1, <1>3, <1>4, <1>5
        DEF FactoryIInv, AccountsAddressed, ProjectsOwnAccounts, FurnishedForProjects

(* What a request or a message does not touch of the machine, it keeps.    *)
LEMMA RequestKeepsMachine ==
  ASSUME FactoryIInv, NEW i \in Request, RequestStep(i)
  PROVE  MachineIInv'
<1>1. MachineIInv /\ AddressOf(i) \in Account
  BY AddressOfIs DEF FactoryIInv
<1>2. ASSUME UNCHANGED machineVars
      PROVE  MachineIInv'
  BY <1>1, <1>2, NothingKeeps DEF machineVars, catalogVars, NoFault
<1>3. CASE StartExecution(i)
  <2>1. PICK x \in Execution : Start(x, AddressOf(i))
    BY <1>3 DEF StartExecution
  <2>2. UNCHANGED <<beacon, catalogVars>> /\ (Fault \/ NoFault)
    BY <1>3 DEF StartExecution
  <2> QED BY <1>1, <2>1, <2>2, StartKeeps
<1>4. CASE RequestFails(i)
  BY <1>1, <1>4, NothingKeeps DEF RequestFails
<1> QED BY <1>2, <1>3, <1>4
        DEF RequestStep, Ask, EnsureProjectNotExists, CreateAccount, ReadStatus,
            FinalizeAccount, PutProject, FinishCreation

(* An execution that a request starts is for the project it has written.   *)
LEMMA RequestStarts ==
  ASSUME FactoryIInv, NEW i \in Request, RequestStep(i), NEW x \in Execution
  PROVE  \/ exec'[x] = exec[x]
         \/ exec'[x].account = projects[call[i].key]
<1>1. CASE StartExecution(i)
  <2>1. PICK y \in Execution : Start(y, AddressOf(i))
    BY <1>1 DEF StartExecution
  <2>2. exec' = [exec EXCEPT ![y] = Context("CreateBeacon", AddressOf(i))]
    BY <2>1 DEF Start
  <2>3. exec \in [Execution -> ExecState]
    BY DEF FactoryIInv, MachineIInv, MachineTypeOK
  <2>4. exec'[x] = exec[x] \/ exec'[x] = Context("CreateBeacon", AddressOf(i))
    BY <2>2, <2>3
  <2>5. projects[call[i].key] = AddressOf(i)
    BY <1>1 DEF FactoryIInv, InOrder, StartExecution, Proceeds
  <2> QED BY <2>4, <2>5 DEF Context
<1>2. CASE exec' = exec
  BY <1>2
<1> QED BY <1>1, <1>2
        DEF RequestStep, Ask, EnsureProjectNotExists, CreateAccount, ReadStatus,
            FinalizeAccount, PutProject, FinishCreation, RequestFails, machineVars

(* A step of a request keeps the invariant.                                *)
LEMMA RequestKeeps ==
  ASSUME FactoryIInv, NEW i \in Request, RequestStep(i)
  PROVE  FactoryIInv'
<1> DEFINE k == call[i].key
           a == AddressOf(i)
<1>1. /\ MachineIInv' /\ Effects(i)
      /\ FactoryTypeOK /\ InOrder(i) /\ ProjectsOwnAccounts
      /\ k \in Key /\ a \in Account
  BY RequestKeepsMachine, RequestEffects, AddressOfIs DEF FactoryIInv
<1>2. FactoryTypeOK'
  BY <1>1 DEF FactoryTypeOK, FactoryDataOK, MachineIInv, Effects
<1>3. ASSUME NEW j \in Request
      PROVE  InOrder(j)'
  <2>1. CASE j = i
    BY <1>1, <2>1 DEF Effects
  <2>2. CASE j # i
    <3>1. /\ call'[j] = call[j] /\ creation'[j] = creation[j]
          /\ call[j].key \in Key /\ AddressOf(j) \in Account
          /\ InOrder(j) /\ OrgGrows /\ ProjectsGrow(i)
      BY <1>1, <2>2, AddressOfIs DEF Effects, CallsStay, FactoryIInv
    <3>2. AddressOf(j)' = AddressOf(j)
      BY <3>1 DEF AddressOf
    <3>3. projects[call[j].key] = AddressOf(j) => projects'[call[j].key] = AddressOf(j)
      BY <3>1, MachineAssumption DEF ProjectsGrow
    <3> QED BY <3>1, <3>2, <3>3 DEF InOrder, OrgGrows
  <2> QED BY <2>1, <2>2
<1>4. ProjectsOwnAccounts'
  <2> SUFFICES ASSUME NEW l \in Key, projects'[l] # None
               PROVE  org'[projects'[l]] = [owner |-> l, ou |-> "destination"]
    BY DEF ProjectsOwnAccounts
  <2>1. CASE projects'[l] = projects[l]
    <3>1. /\ org[projects[l]] = [owner |-> l, ou |-> "destination"]
          /\ projects[l] \in Account
      BY <1>1, <2>1 DEF ProjectsOwnAccounts, FactoryTypeOK
    <3>2. [owner |-> l, ou |-> "destination"] \in OrgAccount
      BY DEF OrgAccount
    <3>3. org[projects[l]] # None
      BY <3>1, <3>2, FactoryAssumption
    <3>4. /\ org'[projects[l]] # None /\ org'[projects[l]].owner = l
          /\ org'[projects[l]].ou = "destination"
      BY <1>1, <3>1, <3>3 DEF Effects, OrgGrows
    <3>5. org'[projects[l]] \in OrgAccount
      BY <1>1, <3>1, <3>4 DEF Effects, FactoryDataOK
    <3>6. \A r \in OrgAccount : r = [owner |-> r.owner, ou |-> r.ou]
      BY DEF OrgAccount
    <3> QED BY <2>1, <3>4, <3>5, <3>6
  <2>2. CASE /\ l = k /\ projects'[l] = a
             /\ call[i].stage = "moved" /\ org' = org
    <3>1. org[a] # None /\ org[a].owner = k /\ org[a].ou = "destination"
      BY <1>1, <2>2 DEF InOrder
    <3>2. org[a] \in OrgAccount
      BY <1>1, <3>1 DEF FactoryTypeOK
    <3>3. \A r \in OrgAccount : r = [owner |-> r.owner, ou |-> r.ou]
      BY DEF OrgAccount
    <3> QED BY <2>2, <3>1, <3>2, <3>3
  <2> QED BY <1>1, <2>1, <2>2 DEF Effects, ProjectsGrow
<1>5. FurnishedForProjects'
  <2> SUFFICES ASSUME NEW x \in Execution, exec'[x].state # "unstarted"
               PROVE  \E l \in Key : projects'[l] = exec'[x].account
    BY DEF FurnishedForProjects
  <2>1. exec'[x].account \in Account
    BY <1>1 DEF MachineIInv, ContextInOrder
  <2>2. \E l \in Key : projects[l] = exec'[x].account
    BY <1>1, RequestStarts DEF FactoryIInv, FurnishedForProjects
  <2>3. \A l \in Key : projects[l] # None => projects'[l] = projects[l]
    BY <1>1 DEF Effects, ProjectsGrow
  <2> QED BY <2>1, <2>2, <2>3, MachineAssumption
<1> QED BY <1>1, <1>2, <1>3, <1>4, <1>5 DEF FactoryIInv, Effects

(* So does a message, and a step of an execution or of Service Catalog.    *)
LEMMA MailKeeps ==
  ASSUME FactoryIInv, NEW a \in Account, ReceiveMail(a)
  PROVE  FactoryIInv'
<1>1. /\ UNCHANGED machineVars /\ UNCHANGED <<call, creation, org, projects>>
      /\ archive' \subseteq [to : Account, tenant : Words, project : Words]
  BY MailTyped DEF ReceiveMail
<1>2. MachineIInv'
  BY <1>1, NothingKeeps DEF FactoryIInv, machineVars, catalogVars, NoFault
<1>3. FactoryTypeOK'
  BY <1>1, <1>2 DEF FactoryIInv, FactoryTypeOK, MachineIInv
<1>4. (\A i \in Request : InOrder(i)') /\ AccountsAddressed'
  BY <1>1 DEF FactoryIInv, InOrder, AddressOf, AccountsAddressed
<1>5. ProjectsOwnAccounts' /\ FurnishedForProjects'
  BY <1>1 DEF FactoryIInv, ProjectsOwnAccounts, FurnishedForProjects, machineVars
<1> QED BY <1>2, <1>3, <1>4, <1>5 DEF FactoryIInv

LEMMA MachineStepKeeps ==
  ASSUME FactoryIInv, MachineStep
  PROVE  FactoryIInv'
<1>1. UNCHANGED <<call, creation, org, projects, archive>>
  BY DEF MachineStep, factoryVars
<1>2. MachineIInv'
  BY CatalogKeeps, ExecutionKeeps DEF MachineStep, FactoryIInv
<1>3. FactoryTypeOK'
  BY <1>1, <1>2 DEF FactoryIInv, FactoryTypeOK, MachineIInv
<1>4. (\A i \in Request : InOrder(i)') /\ AccountsAddressed' /\ ProjectsOwnAccounts'
  BY <1>1 DEF FactoryIInv, InOrder, AddressOf, AccountsAddressed, ProjectsOwnAccounts
<1>5. FurnishedForProjects'
  <2>1. CASE CatalogStep
    BY <1>1, <2>1, CatalogData DEF FactoryIInv, MachineIInv, FurnishedForProjects
  <2>2. ASSUME NEW x \in Execution, ExecutionStep(x)
        PROVE  FurnishedForProjects'
    <3>1. Others(x) /\ Moved(x)
      BY <2>2, StepMoves DEF FactoryIInv, MachineIInv
    <3>2. exec[x].state # "unstarted"
      BY <3>1 DEF Moved, Kept, Went, Task
    <3> QED BY <1>1, <3>1, <3>2 DEF FactoryIInv, FurnishedForProjects, Others
  <2> QED BY <2>1, <2>2 DEF MachineStep
<1> QED BY <1>2, <1>3, <1>4, <1>5 DEF FactoryIInv

LEMMA FactoryKeeps ==
  ASSUME FactoryIInv, [FactoryNext]_vars
  PROVE  FactoryIInv'
<1>1. CASE UNCHANGED vars
  <2>1. MachineIInv'
    BY <1>1, NothingKeeps DEF FactoryIInv, vars, machineVars, catalogVars, NoFault
  <2>2. FactoryTypeOK'
    BY <1>1, <2>1 DEF FactoryIInv, FactoryTypeOK, MachineIInv, vars, factoryVars
  <2>3. (\A i \in Request : InOrder(i)') /\ AccountsAddressed'
    BY <1>1 DEF FactoryIInv, InOrder, AddressOf, AccountsAddressed, vars, factoryVars
  <2>4. ProjectsOwnAccounts' /\ FurnishedForProjects'
    BY <1>1 DEF FactoryIInv, ProjectsOwnAccounts, FurnishedForProjects, vars,
                factoryVars, machineVars
  <2> QED BY <2>1, <2>2, <2>3, <2>4 DEF FactoryIInv
<1> QED BY <1>1, RequestKeeps, MailKeeps, MachineStepKeeps DEF FactoryNext

(* The invariant of the factory and its machine, for every value of the    *)
(* constants: projects.ts, the account machine and the mail processor.     *)
THEOREM FactoryInvariant == FactorySpec => []FactoryIInv
<1>1. FactoryInit => FactoryIInv
  BY FactoryInitially
<1>2. FactoryIInv /\ [FactoryNext]_vars => FactoryIInv'
  BY FactoryKeeps
<1> QED BY <1>1, <1>2, PTL DEF FactorySpec

(* Every variable keeps its type.                                          *)
THEOREM FactoryTypes == FactorySpec => []FactoryTypeOK
<1>1. FactoryIInv => FactoryTypeOK
  BY DEF FactoryIInv
<1> QED BY <1>1, FactoryInvariant, PTL

(* Every project that is written down has an account of its own, in its    *)
(* organisational unit: ProjectManager.addProject, however many run.       *)
THEOREM ProjectsOwn == FactorySpec => []ProjectsOwnAccounts
<1>1. FactoryIInv => ProjectsOwnAccounts
  BY DEF FactoryIInv
<1> QED BY <1>1, FactoryInvariant, PTL

(* Only the account of a project that is written down is furnished:        *)
(* addProject starts the machine after it has written the project.         *)
THEOREM FurnishedOnlyForProjects == FactorySpec => []FurnishedForProjects
<1>1. FactoryIInv => FurnishedForProjects
  BY DEF FactoryIInv
<1> QED BY <1>1, FactoryInvariant, PTL

(* The machine by itself keeps its invariant, whoever starts it.           *)
THEOREM MachineInvariant == FactorySpec => []MachineIInv
<1>1. FactoryIInv => MachineIInv
  BY DEF FactoryIInv
<1> QED BY <1>1, FactoryInvariant, PTL

(* Step Functions and the context of MachineOrchestrator never part.       *)
THEOREM GraphFollowsContext == FactorySpec => []GraphInStep
<1>1. FactoryIInv => GraphInStep
  BY DEF FactoryIInv, MachineIInv
<1> QED BY <1>1, FactoryInvariant, PTL

(* A portfolio that the administration role may use offers every product,  *)
(* whichever tasks of AdmiralMachine were run twice.                       *)
THEOREM GrantsOfferAll == FactorySpec => []GrantedComplete
<1>1. FactoryIInv => GrantedComplete
  BY DEF FactoryIInv, MachineIInv
<1> QED BY <1>1, FactoryInvariant, PTL

(* An execution that succeeded has granted its portfolio and left its      *)
(* beacon.                                                                 *)
THEOREM SuccessMeansGranted == FactorySpec => []SuccessIsGranted
<1>1. FactoryIInv => SuccessIsGranted
  BY SuccessGrants DEF FactoryIInv
<1> QED BY <1>1, FactoryInvariant, PTL

-----------------------------------------------------------------------------
(* An account that lost its creator before the project was written is lost *)
(* to all later requests of ProjectManager.addProject.                     *)
THEOREM AbandonedStay == FactorySpec => AbandonedForGood
<1>1. ASSUME FactoryIInv, [FactoryNext]_vars, NEW a \in Account, Abandoned(a)
      PROVE  Abandoned(a)'
  <2>1. ASSUME NEW i \in Request, RequestStep(i)
        PROVE  Abandoned(a)'
    <3>1. Effects(i) /\ InOrder(i)
      BY <1>1, <2>1, RequestEffects DEF FactoryIInv
    <3>2. org'[a] # None
      BY <1>1, <3>1 DEF Abandoned, Effects, OrgGrows
    <3>3. \A j \in Request : AddressOf(j)' = AddressOf(j)
      BY <3>1 DEF Effects, CallsStay, AddressOf
    <3>4. ASSUME NEW k \in Key
          PROVE  projects'[k] # a
      BY <1>1, <3>1 DEF Effects, ProjectsGrow, Abandoned, InOrder
    <3>5. ASSUME NEW j \in Request, AddressOf(j) = a, creation'[j] = "SUCCEEDED"
          PROVE  call'[j].stage = "failed"
      <4>1. CASE j # i
        BY <1>1, <3>1, <3>5, <4>1 DEF Effects, CallsStay, Abandoned
      <4>2. CASE j = i
        <5>1. creation[i] = "SUCCEEDED"
          BY <1>1, <2>1, <3>5, <4>2
             DEF RequestStep, Ask, EnsureProjectNotExists, CreateAccount, ReadStatus,
                 FinalizeAccount, PutProject, StartExecution, RequestFails,
                 FinishCreation, Abandoned, FactoryIInv, FactoryTypeOK
        <5>2. call[i].stage = "failed"
          BY <1>1, <3>5, <4>2, <5>1 DEF Abandoned
        <5>3. call' = call
          BY <2>1, <5>1, <5>2
             DEF RequestStep, Ask, EnsureProjectNotExists, CreateAccount, ReadStatus,
                 FinalizeAccount, PutProject, StartExecution, RequestFails,
                 FinishCreation, Proceeds
        <5> QED BY <4>2, <5>2, <5>3
      <4> QED BY <4>1, <4>2
    <3> QED BY <3>2, <3>3, <3>4, <3>5 DEF Abandoned
  <2>2. CASE UNCHANGED <<call, creation, org, projects>>
    BY <1>1, <2>2 DEF Abandoned, AddressOf
  <2> QED BY <1>1, <2>1, <2>2
          DEF FactoryNext, ReceiveMail, MachineStep, factoryVars, vars
<1>2. FactoryIInv /\ [FactoryNext]_vars =>
        [\A a \in Account : Abandoned(a) => Abandoned(a)']_vars
  BY <1>1
<1> QED BY <1>2, FactoryInvariant, PTL DEF FactorySpec, AbandonedForGood

-----------------------------------------------------------------------------
(* The machine imports the products in order, each once, and opens the     *)
(* portfolio after the last: the chain of AdmiralMachine.ts with the       *)
(* retries of Step Functions implements ProductImport.                     *)
THEOREM FactoryImports == FactorySpec => ImplementsImport
<1>1. FactoryInit => PI!ImportInit
  BY ImportInitially DEF FactoryInit
<1>2. FactoryIInv /\ [FactoryNext]_vars => [PI!ImportNext]_(PI!importVars)
  <2> SUFFICES ASSUME FactoryIInv, [FactoryNext]_vars
               PROVE  [PI!ImportNext]_(PI!importVars)
    OBVIOUS
  <2>1. ASSUME NEW x \in Execution, ExecutionStep(x)
        PROVE  [PI!ImportNext]_(PI!importVars)
    BY <2>1, ExecutionImports DEF FactoryIInv
  <2>2. CASE exec' = exec
    BY <2>2, ImportKept
  <2>3. ASSUME NEW i \in Request, StartExecution(i)
        PROVE  UNCHANGED PI!importVars
    <3>1. PICK x \in Execution : Start(x, AddressOf(i))
      BY <2>3 DEF StartExecution
    <3>2. /\ exec' = [exec EXCEPT ![x] = Context("CreateBeacon", AddressOf(i))]
          /\ exec[x].step = "RegisterBeacon" /\ exec[x].index = 0
          /\ exec \in [Execution -> ExecState]
      BY <3>1 DEF Start, FactoryIInv, MachineIInv, ContextInOrder, MachineTypeOK
    <3>3. \A y \in Execution : exec'[y].step = exec[y].step /\ exec'[y].index = exec[y].index
      BY <3>2 DEF Context
    <3> QED BY <3>3, ImportKept
  <2>4. CASE CatalogStep
    BY <2>2, <2>4, CatalogData DEF FactoryIInv, MachineIInv
  <2> QED BY <2>1, <2>2, <2>3, <2>4
          DEF FactoryNext, RequestStep, Ask, EnsureProjectNotExists, CreateAccount,
              ReadStatus, FinalizeAccount, PutProject, RequestFails, FinishCreation,
              ReceiveMail, MachineStep, vars, machineVars
<1> QED BY <1>1, <1>2, FactoryInvariant, PTL DEF FactorySpec, ImplementsImport, PI!ImportSpec

-----------------------------------------------------------------------------
(* The address of a project whose tenant's name is one word matches the    *)
(* pattern at its left end, and gives back the two names.                  *)
LEMMA OneWordAddress ==
  ASSUME NEW t \in Tenant, NEW p \in ProjectName, Len(t) = 1
  PROVE  LET a == Address(t, p) IN
         /\ 1 \in Matches(a)
         /\ <<a[2]>> = t
         /\ SubSeq(a, 4, Len(a)) = p
<1> DEFINE l == <<"tenant">> \o t
           m == l \o <<"aws">>
           a == m \o p
<1>1. /\ t \in Words /\ p \in Words
      /\ <<"tenant">> \in Words /\ <<"aws">> \in Words
      /\ Len(p) \in Nat /\ Len(p) > 0
  <2>1. \A w \in Word : <<w>> \in Seq(Word)
    OBVIOUS
  <2> QED BY <2>1, FactoryAssumption, LenProperties DEF Words
<1>2. /\ l \in Words /\ Len(l) = 2
      /\ l[1] = "tenant" /\ l[2] = t[1]
  BY <1>1, ConcatProperties DEF Words
<1> HIDE DEF l
<1>3. /\ m \in Words /\ Len(m) = 3
      /\ m[1] = "tenant" /\ m[2] = t[1] /\ m[3] = "aws"
  BY <1>1, <1>2, ConcatProperties DEF Words
<1> HIDE DEF m
<1>4. /\ a \in Words /\ Len(a) = Len(p) + 3
      /\ a[1] = "tenant" /\ a[2] = t[1] /\ a[3] = "aws"
      /\ \A j \in 1..Len(p) : a[j + 3] = p[j]
  <2>1. /\ a \in Words /\ Len(a) = Len(p) + 3
        /\ \A j \in 1..(3 + Len(p)) : a[j] = IF j <= 3 THEN m[j] ELSE p[j - 3]
    <3>1. m \in Seq(Word) /\ p \in Seq(Word)
      BY <1>1, <1>3 DEF Words
    <3>2. /\ a \in Seq(Word) /\ Len(a) = Len(m) + Len(p)
          /\ \A j \in 1..(Len(m) + Len(p)) :
               a[j] = IF j <= Len(m) THEN m[j] ELSE p[j - Len(m)]
      BY <3>1, ConcatProperties, Zenon
    <3> HIDE DEF a
    <3> QED BY <1>1, <1>3, <3>2 DEF Words
  <2> HIDE DEF a
  <2>2. a[1] = m[1] /\ a[2] = m[2] /\ a[3] = m[3]
    BY <1>1, <2>1
  <2>3. ASSUME NEW j \in 1..Len(p)
        PROVE  a[j + 3] = p[j]
    <3>1. j + 3 \in 1..(3 + Len(p)) /\ ~(j + 3 <= 3) /\ j + 3 - 3 = j
      BY <1>1
    <3> QED BY <2>1, <3>1
  <2> QED BY <1>3, <2>1, <2>2, <2>3
<1>5. Address(t, p) = a
  BY DEF Address, a, m, l
<1> HIDE DEF a
<1>6. 1 \in Matches(a)
  BY <1>1, <1>4 DEF Matches
<1>7. <<a[2]>> = t
  BY <1>1, <1>4 DEF Words
<1>8. SubSeq(a, 4, Len(a)) = p
  <2> DEFINE q == SubSeq(a, 4, Len(a))
  <2>1. \A j \in 4..Len(a) : a[j] \in Word
    BY <1>1, <1>4, ElementOfSeq DEF Words
  <2>2. /\ q \in Words /\ Len(q) = Len(p)
        /\ \A j \in 1..Len(p) : q[j] = a[j + 3]
    BY <1>1, <1>4, <2>1, SubSeqProperties DEF Words
  <2> HIDE DEF q
  <2>3. \A j \in 1..Len(q) : q[j] = p[j]
    BY <1>4, <2>2
  <2>4. q = p
    BY <1>1, <2>2, <2>3, SeqEqual DEF Words
  <2> QED BY <2>4 DEF q
<1> QED BY <1>5, <1>6, <1>7, <1>8

MailFor(m) == org[m.to] # None /\ org[m.to].owner = <<m.tenant, m.project>>

(* Mail reaches its owner as long as the name of every tenant is one word: *)
(* what the dashes of a project's name do, the pattern of address.ts gets  *)
(* right.                                                                  *)
THEOREM MailReachesOwnerOfOneWord ==
  ASSUME \A t \in Tenant : Len(t) = 1
  PROVE  FactorySpec => []MailReachesOwner
<1> DEFINE Mail == \A m \in archive : MailFor(m)
<1>1. FactoryInit => Mail
  BY DEF FactoryInit
<1>2. ASSUME FactoryIInv, Mail, [FactoryNext]_vars
      PROVE  Mail'
  <2>1. ASSUME NEW i \in Request, RequestStep(i)
        PROVE  Mail'
    <3>1. OrgGrows
      BY <1>2, <2>1, RequestEffects DEF Effects
    <3>2. archive' = archive
      BY <2>1 DEF RequestStep, Ask, EnsureProjectNotExists, CreateAccount, ReadStatus,
                  FinalizeAccount, PutProject, StartExecution, RequestFails, FinishCreation
    <3>3. \A m \in archive : m.to \in Account
      BY <1>2 DEF FactoryIInv, FactoryTypeOK
    <3> QED BY <1>2, <3>1, <3>2, <3>3 DEF OrgGrows, MailFor
  <2>2. ASSUME NEW a \in Account, ReceiveMail(a)
        PROVE  Mail'
    <3>1. /\ org[a] \in OrgAccount /\ org[a] # None /\ org' = org
          /\ a = Address(org[a].owner[1], org[a].owner[2])
      BY <1>2, <2>2 DEF FactoryIInv, FactoryTypeOK, AccountsAddressed, ReceiveMail
    <3> DEFINE t == org[a].owner[1]
               p == org[a].owner[2]
    <3>2. t \in Tenant /\ p \in ProjectName /\ org[a].owner = <<t, p>>
      BY <3>1 DEF OrgAccount, Key
    <3>3. PICK n \in Leftmost(a) :
            archive' = archive \cup {[to |-> a, tenant |-> <<a[n + 1]>>,
                                      project |-> SubSeq(a, n + 3, Len(a))]}
      BY <2>2 DEF ReceiveMail, ExtractTenantAccount
    <3> HIDE DEF t, p
    <3>4. 1 \in Matches(a) /\ <<a[2]>> = t /\ SubSeq(a, 4, Len(a)) = p
      <4>1. a = Address(t, p)
        BY <3>1 DEF t, p
      <4> QED BY <3>2, <4>1, OneWordAddress
    <3>5. n = 1
      BY <3>4 DEF Leftmost, Matches
    <3>6. archive' = archive \cup {[to |-> a, tenant |-> t, project |-> p]}
      <4>1. /\ n + 1 = 2 /\ n + 3 = 4
        BY <3>5
      <4> QED BY <3>3, <3>4, <4>1
    <3> QED BY <1>2, <3>1, <3>2, <3>6 DEF MailFor
  <2>3. CASE UNCHANGED <<org, archive>>
    BY <1>2, <2>3 DEF MailFor
  <2> QED BY <1>2, <2>1, <2>2, <2>3 DEF FactoryNext, MachineStep, factoryVars, vars
<1>3. Mail => MailReachesOwner
  BY DEF MailFor, MailReachesOwner
<1> QED BY <1>1, <1>2, <1>3, FactoryInvariant, PTL DEF FactorySpec

=============================================================================

--------------------------- MODULE AccountMachine ---------------------------
(***************************************************************************)
(* The state machine that furnishes the AWS account of a new project: it   *)
(* leaves a beacon there, creates a local Service Catalog portfolio,       *)
(* copies every product of the portfolio shared with the organisation into *)
(* it, one after the other, and at the end lets the administration role    *)
(* use it.                                                                 *)
(*                                                                         *)
(* Two things know where an execution is: Step Functions, which goes from  *)
(* state to state of its graph, and the context handed from task to task,  *)
(* whose step alone decides what the Lambda behind every task does. Each   *)
(* task makes at most one call that changes the account. Its answer may be *)
(* lost after the call took effect, and Step Functions then runs the task  *)
(* again with the context it had before.                                   *)
(***************************************************************************)
EXTENDS Integers, Sequences

CONSTANTS
  Execution,    \* ids of executions
  Account,      \* the accounts they may furnish
  NProducts,    \* products listed of the shared portfolio
  MaxAttempts,  \* how often a failing task is retried (5 in the code)
  MaxFaults,    \* bound: calls that fail or lose their answer, over a behaviour
  None          \* no account

ASSUME MachineAssumption ==
  /\ NProducts \in Nat
  /\ MaxAttempts \in Nat
  /\ MaxFaults \in Nat
  /\ None \notin Account

VARIABLES
  exec,        \* state of each execution, with its context
  beacon,      \* accounts that have the beacon parameter
  portfolios,  \* local portfolios created in each account, numbered from 1
  copies,      \* product copies asked for in each account, a token is an index
  contents,    \* which copy is associated with which local portfolio
  granted,     \* local portfolios the administration role may use
  faults       \* calls that have failed or lost their answer

catalogVars == <<portfolios, copies, contents, granted>>
machineVars == <<exec, beacon, portfolios, copies, contents, granted, faults>>

Product == 1..NProducts
Task == {"CreateBeacon", "CreateLocalPortfolio", "ListProducts", "CopyProduct",
         "GetCopyProductStatus", "AssociateProduct", "AssociatePrincipal"}
Step == {"RegisterBeacon", "CreateLocalPortfolio", "ListProductsToCopy",
         "CopyProduct", "CheckCopyProductStatus",
         "AssociateProductWithPortfolio", "AssociatePrincipal", "Done"}
CopyStatus == {"IN_PROGRESS", "SUCCEEDED", "FAILED"}

(* The state of an execution in the graph, and its context: step, account, *)
(* index and token are those of MachineContext, portfolio its              *)
(* localPortfolioId; retries counts the retries of the current state.      *)
ExecState ==
  [state : Task \cup {"unstarted", "Waiter", "Success", "Failed"}, step : Step,
   account : Account \cup {None}, portfolio : Nat, index : Nat, token : Nat,
   retries : 0..MaxAttempts]

MachineTypeOK ==
  /\ exec \in [Execution -> ExecState]
  /\ beacon \subseteq Account
  /\ portfolios \in [Account -> Nat]
  /\ copies \in [Account -> Seq([product : Product, status : CopyStatus])]
  /\ contents \in [Account -> SUBSET (Nat \X Nat)]
  /\ granted \in [Account -> SUBSET Nat]
  /\ faults \in 0..MaxFaults

Context(state, account) ==
  [state |-> state, step |-> "RegisterBeacon", account |-> account,
   portfolio |-> 0, index |-> 0, token |-> 0, retries |-> 0]

MachineInit ==
  /\ exec = [x \in Execution |-> Context("unstarted", None)]
  /\ beacon = {}
  /\ portfolios = [a \in Account |-> 0]
  /\ copies = [a \in Account |-> <<>>]
  /\ contents = [a \in Account |-> {}]
  /\ granted = [a \in Account |-> {}]
  /\ faults = 0

Fault == faults < MaxFaults /\ faults' = faults + 1
NoFault == UNCHANGED faults

-----------------------------------------------------------------------------
(* The graph.                                                              *)

(* The choice after a poll, which looks at the step and at nothing else.   *)
KeepCheckingChoice(step) ==
  IF step = "CheckCopyProductStatus" THEN "Waiter" ELSE "AssociateProduct"

(* Mutant: every product is taken for the last.                            *)
LastProductChoiceLoopLost(step) == "AssociatePrincipal"

(* Mutant: after the last product the execution is done.                   *)
LastProductChoiceUngranted(step) ==
  IF step = "AssociatePrincipal" THEN "Success" ELSE "CopyProduct"

(* The choice after a product.                                             *)
LastProductChoice(step) ==
  IF step = "AssociatePrincipal" THEN "AssociatePrincipal" ELSE "CopyProduct"

(* The state the graph goes to when a task has answered with this step.    *)
Following(state, step) ==
  CASE state = "CreateBeacon" -> "CreateLocalPortfolio"
    [] state = "CreateLocalPortfolio" -> "ListProducts"
    [] state = "ListProducts" -> "CopyProduct"
    [] state = "CopyProduct" -> "GetCopyProductStatus"
    [] state = "GetCopyProductStatus" -> KeepCheckingChoice(step)
    [] state = "AssociateProduct" -> LastProductChoice(step)
    [] state = "AssociatePrincipal" -> "Success"

(* The Lambda invoked for the execution is to take this step.              *)
Invoked(x, step) == exec[x].state \in Task /\ exec[x].step = step

(* Mutant: the attempt that is to be the last is followed by another.      *)
AfterThrowOnceMore(context) ==
  IF context.retries <= MaxAttempts
  THEN [context EXCEPT !.retries = context.retries + 1]
  ELSE [context EXCEPT !.state = "Failed"]

(* A task that throws is retried with the context it was given, or the     *)
(* execution fails.                                                        *)
AfterThrow(context) ==
  IF context.retries < MaxAttempts
  THEN [context EXCEPT !.retries = context.retries + 1]
  ELSE [context EXCEPT !.state = "Failed"]

Throws(x) == exec' = [exec EXCEPT ![x] = AfterThrow(exec[x])]

Answers(x, context) ==
  exec' = [exec EXCEPT ![x] =
             [context EXCEPT !.state = Following(context.state, context.step),
                             !.retries = 0]]

(* The task has done its work, and its answer arrives or does not.         *)
Returns(x, context) ==
  \/ Answers(x, context) /\ NoFault
  \/ Throws(x) /\ Fault

(* The task throws before it has changed anything.                         *)
TaskFails(x) ==
  /\ exec[x].state \in Task
  /\ Throws(x) /\ Fault
  /\ UNCHANGED <<beacon, catalogVars>>

Wait(x) ==
  /\ exec[x].state = "Waiter"
  /\ exec' = [exec EXCEPT ![x].state = "GetCopyProductStatus"]
  /\ UNCHANGED <<beacon, catalogVars, faults>>

-----------------------------------------------------------------------------
(* The steps of MachineOrchestrator.                                       *)

RegisterBeacon(x) ==
  /\ Invoked(x, "RegisterBeacon")
  /\ beacon' = beacon \cup {exec[x].account}
  /\ Returns(x, [exec[x] EXCEPT !.step = "CreateLocalPortfolio"])
  /\ UNCHANGED catalogVars

(* Nothing makes the second of two calls return the portfolio of the       *)
(* first: a retry after a lost answer creates another one.                 *)
CreateLocalPortfolio(x) ==
  LET a == exec[x].account IN
  /\ Invoked(x, "CreateLocalPortfolio")
  /\ portfolios' = [portfolios EXCEPT ![a] = @ + 1]
  /\ Returns(x, [exec[x] EXCEPT !.step = "ListProductsToCopy",
                                !.portfolio = portfolios[a] + 1])
  /\ UNCHANGED <<beacon, copies, contents, granted>>

ListProductsToCopy(x) ==
  /\ Invoked(x, "ListProductsToCopy")
  /\ Returns(x, [exec[x] EXCEPT !.step = "CopyProduct", !.index = 0])
  /\ UNCHANGED <<beacon, catalogVars>>

(* The product at the context's index, which counts from 0.                *)
Current(x) == exec[x].index + 1

(* Without a product at the index, as when the shared portfolio is empty,  *)
(* the step throws.                                                        *)
CopyProduct(x) ==
  LET a == exec[x].account IN
  /\ Invoked(x, "CopyProduct")
  /\ IF Current(x) \in Product
     THEN /\ copies' = [copies EXCEPT ![a] =
                Append(@, [product |-> Current(x), status |-> "IN_PROGRESS"])]
          /\ Returns(x, [exec[x] EXCEPT !.step = "CheckCopyProductStatus",
                                        !.token = Len(copies[a]) + 1])
     ELSE Throws(x) /\ UNCHANGED <<copies, faults>>
  /\ UNCHANGED <<beacon, portfolios, contents, granted>>

(* Mutant: a copy that failed is polled like one in progress.              *)
CheckCopyProductStatusPatient(x) ==
  LET status == copies[exec[x].account][exec[x].token].status IN
  /\ Invoked(x, "CheckCopyProductStatus")
  /\ Returns(x, IF status = "SUCCEEDED"
                THEN [exec[x] EXCEPT !.step = "AssociateProductWithPortfolio"]
                ELSE exec[x])
  /\ UNCHANGED <<beacon, catalogVars>>

CheckCopyProductStatus(x) ==
  LET status == copies[exec[x].account][exec[x].token].status IN
  /\ Invoked(x, "CheckCopyProductStatus")
  /\ IF status = "FAILED"
     THEN Throws(x) /\ UNCHANGED faults
     ELSE Returns(x, IF status = "SUCCEEDED"
                     THEN [exec[x] EXCEPT !.step = "AssociateProductWithPortfolio"]
                     ELSE exec[x])
  /\ UNCHANGED <<beacon, catalogVars>>

(* The copies that a search for the current product's name may find. Each  *)
(* product of the shared portfolio has a name of its own.                  *)
LocalProducts(x) ==
  LET a == exec[x].account IN
  {c \in DOMAIN copies[a] : /\ copies[a][c].product = Current(x)
                            /\ copies[a][c].status = "SUCCEEDED"}

(* Mutant: the last product but one is taken for the last.                 *)
AfterAssociatingEarly(context) ==
  IF context.index + 2 >= NProducts
  THEN [context EXCEPT !.step = "AssociatePrincipal"]
  ELSE [context EXCEPT !.step = "CopyProduct", !.index = context.index + 1,
                        !.token = 0]

AfterAssociating(context) ==
  IF context.index + 1 = NProducts
  THEN [context EXCEPT !.step = "AssociatePrincipal"]
  ELSE [context EXCEPT !.step = "CopyProduct", !.index = context.index + 1,
                        !.token = 0]

(* The search may find any copy of the product, that of an earlier attempt *)
(* included.                                                               *)
AssociateProductWithPortfolio(x) ==
  LET a == exec[x].account IN
  /\ Invoked(x, "AssociateProductWithPortfolio")
  /\ \/ \E c \in LocalProducts(x) :
          /\ contents' = [contents EXCEPT ![a] = @ \cup {<<exec[x].portfolio, c>>}]
          /\ Returns(x, AfterAssociating(exec[x]))
     \/ LocalProducts(x) = {} /\ Throws(x) /\ UNCHANGED <<contents, faults>>
  /\ UNCHANGED <<beacon, portfolios, copies, granted>>

AssociatePrincipal(x) ==
  LET a == exec[x].account IN
  /\ Invoked(x, "AssociatePrincipal")
  /\ granted' = [granted EXCEPT ![a] = @ \cup {exec[x].portfolio}]
  /\ Returns(x, [exec[x] EXCEPT !.step = "Done"])
  /\ UNCHANGED <<beacon, portfolios, copies, contents>>

(* Service Catalog finishes a copy, one way or the other.                  *)
FinishCopy(a, c, status) ==
  /\ copies[a][c].status = "IN_PROGRESS"
  /\ copies' = [copies EXCEPT ![a][c].status = status]
  /\ UNCHANGED <<exec, beacon, portfolios, contents, granted, faults>>

-----------------------------------------------------------------------------
(* MachineStarter starts an execution for an account.                      *)
Start(x, a) ==
  /\ exec[x].state = "unstarted"
  /\ exec' = [exec EXCEPT ![x] = Context("CreateBeacon", a)]

ExecutionStep(x) ==
  \/ TaskFails(x)
  \/ Wait(x)
  \/ RegisterBeacon(x)
  \/ CreateLocalPortfolio(x)
  \/ ListProductsToCopy(x)
  \/ CopyProduct(x)
  \/ CheckCopyProductStatus(x)
  \/ AssociateProductWithPortfolio(x)
  \/ AssociatePrincipal(x)

CatalogStep ==
  \E a \in Account : \E c \in DOMAIN copies[a] :
    FinishCopy(a, c, "SUCCEEDED") \/ FinishCopy(a, c, "FAILED")

-----------------------------------------------------------------------------
(* Products an execution has brought in: it is at the one its index names, *)
(* or past the last.                                                       *)
Imported(x) ==
  IF exec[x].step \in {"AssociatePrincipal", "Done"} THEN NProducts ELSE exec[x].index

(* The states of the graph at which the context may have each step.        *)
StatesOf(step) ==
  CASE step = "RegisterBeacon" -> {"unstarted", "CreateBeacon"}
    [] step = "CreateLocalPortfolio" -> {"CreateLocalPortfolio"}
    [] step = "ListProductsToCopy" -> {"ListProducts"}
    [] step = "CopyProduct" -> {"CopyProduct"}
    [] step = "CheckCopyProductStatus" -> {"GetCopyProductStatus", "Waiter"}
    [] step = "AssociateProductWithPortfolio" -> {"AssociateProduct"}
    [] step = "AssociatePrincipal" -> {"AssociatePrincipal"}
    [] step = "Done" -> {"Success"}

(* The graph and the context never part: each task runs the step it is     *)
(* named for. AdmiralMachine.ts lays the graph out by hand, and            *)
(* Orchestrator.ts goes by the context alone.                              *)
GraphInStep ==
  \A x \in Execution : exec[x].state \in StatesOf(exec[x].step) \cup {"Failed"}

(* A copy of the product is associated with the account's local portfolio. *)
Offers(a, portfolio, p) ==
  \E c \in DOMAIN copies[a] : /\ copies[a][c].product = p
                              /\ copies[a][c].status = "SUCCEEDED"
                              /\ <<portfolio, c>> \in contents[a]

(* A portfolio the administration role may use offers every product, in    *)
(* spite of retried tasks, portfolios left over by them and copies that    *)
(* finished late or failed. The order of the steps is all that ensures it. *)
GrantedComplete ==
  \A a \in Account : \A f \in granted[a] : \A p \in Product : Offers(a, f, p)

(* An execution that succeeded left a beacon, and a portfolio the role may *)
(* use, in the account it was started for.                                 *)
SuccessIsGranted ==
  \A x \in Execution : exec[x].state = "Success" =>
    /\ exec[x].account \in beacon
    /\ exec[x].portfolio \in granted[exec[x].account]

(* What the proofs need besides. An execution has an account once it is    *)
(* started and counts from 0 until it has listed the products; what it has *)
(* brought in is offered by its portfolio, not by another one; the beacon  *)
(* is there after the first step and the grant after the last.             *)
ContextInOrder ==
  \A x \in Execution :
    /\ IF exec[x].state = "unstarted"
       THEN exec[x].step = "RegisterBeacon"
       ELSE exec[x].account \in Account
    /\ exec[x].step \in {"RegisterBeacon", "CreateLocalPortfolio", "ListProductsToCopy"} =>
         exec[x].index = 0
    /\ exec[x].step # "RegisterBeacon" => exec[x].account \in beacon
    /\ exec[x].step = "Done" => exec[x].portfolio \in granted[exec[x].account]

ImportedOffered ==
  \A x \in Execution : \A p \in 1..Imported(x) :
    p \in Product /\ Offers(exec[x].account, exec[x].portfolio, p)

MachineIInv ==
  /\ MachineTypeOK
  /\ GraphInStep
  /\ ContextInOrder
  /\ ImportedOffered
  /\ GrantedComplete

(* The machine implements ProductImport: a task that is run again repeats  *)
(* its calls, but never makes the execution lose or skip a product.        *)
PI == INSTANCE ProductImport WITH
  imported <- [x \in Execution |-> Imported(x)],
  open <- {x \in Execution : exec[x].step = "Done"}
ImplementsImport == PI!ImportSpec

=============================================================================

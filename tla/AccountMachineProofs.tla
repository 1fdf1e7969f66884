------------------------ MODULE AccountMachineProofs ------------------------
(***************************************************************************)
(* Proofs about the steps of the account machine, for any executions,      *)
(* accounts and bounds, and any number of products. They are stated        *)
(* without the requests that start executions, for AccountFactoryProofs.   *)
(***************************************************************************)
EXTENDS AccountMachine, SequenceTheorems, TLAPS

(* What a context becomes when its task throws.                            *)
LEMMA AfterThrowIs ==
  ASSUME NEW context \in ExecState
  PROVE  /\ AfterThrow(context) \in ExecState
         /\ AfterThrow(context).state \in {context.state, "Failed"}
         /\ AfterThrow(context).step = context.step
         /\ AfterThrow(context).account = context.account
         /\ AfterThrow(context).portfolio = context.portfolio
         /\ AfterThrow(context).index = context.index
BY MachineAssumption, SMTT(30) DEF AfterThrow, ExecState

(* The graph leads from state to state, never back to before the start.    *)
LEMMA FollowingIs ==
  ASSUME NEW state \in Task, NEW step
  PROVE  Following(state, step) \in Task \cup {"unstarted", "Waiter", "Success", "Failed"}
BY DEF Following, KeepCheckingChoice, LastProductChoice, Task

(* An execution whose task answers has the context of the answer, and goes *)
(* on in the graph.                                                        *)
LEMMA AnswersIs ==
  ASSUME exec \in [Execution -> ExecState], NEW x \in Execution,
         NEW context \in ExecState, context.state \in Task, Answers(x, context)
  PROVE  /\ exec' \in [Execution -> ExecState]
         /\ \A y \in Execution \ {x} : exec'[y] = exec[y]
         /\ exec'[x].state = Following(context.state, context.step)
         /\ exec'[x].step = context.step
         /\ exec'[x].account = context.account
         /\ exec'[x].portfolio = context.portfolio
         /\ exec'[x].index = context.index
<1> DEFINE to == Following(context.state, context.step)
<1>1. to \in Task \cup {"unstarted", "Waiter", "Success", "Failed"}
  BY FollowingIs
<1> HIDE DEF to
<1> DEFINE next == [context EXCEPT !.state = to, !.retries = 0]
<1>2. next \in ExecState
  <2>1. [context EXCEPT !.state = to] \in ExecState
    BY <1>1, SMTT(30) DEF ExecState
  <2>2. \A c \in ExecState : [c EXCEPT !.retries = 0] \in ExecState
    BY MachineAssumption, SMTT(30) DEF ExecState
  <2> QED BY <2>1, <2>2
<1>3. /\ next.state = to
      /\ next.step = context.step /\ next.account = context.account
      /\ next.portfolio = context.portfolio /\ next.index = context.index
  BY SMTT(30) DEF ExecState
<1>4. exec' = [exec EXCEPT ![x] = next]
  BY DEF Answers, to
<1> HIDE DEF next
<1> QED BY <1>2, <1>3, <1>4 DEF to

-----------------------------------------------------------------------------
(* The contexts that the tasks answer with: a field changes, others stay.  *)
SameBut(c, d, changed) ==
  /\ d \in ExecState
  /\ d.state = c.state
  /\ d.account = c.account
  /\ "step" \in changed \/ d.step = c.step
  /\ "portfolio" \in changed \/ d.portfolio = c.portfolio
  /\ "index" \in changed \/ d.index = c.index

LEMMA Contexts ==
  ASSUME NEW c \in ExecState, NEW n \in Nat
  PROVE  /\ \A s \in Step : /\ SameBut(c, [c EXCEPT !.step = s], {"step"})
                            /\ [c EXCEPT !.step = s].step = s
         /\ SameBut(c, [c EXCEPT !.portfolio = n], {"portfolio"})
         /\ SameBut(c, [c EXCEPT !.index = n], {"index"})
         /\ [c EXCEPT !.index = n].index = n
         /\ SameBut(c, [c EXCEPT !.token = n], {})
BY SMTT(30) DEF ExecState, SameBut

LEMMA AfterAssociatingIs ==
  ASSUME NEW c \in ExecState
  PROVE  /\ AfterAssociating(c) \in ExecState
         /\ AfterAssociating(c).state = c.state
         /\ AfterAssociating(c).account = c.account
         /\ AfterAssociating(c).portfolio = c.portfolio
         /\ \/ /\ c.index + 1 = NProducts
               /\ AfterAssociating(c).step = "AssociatePrincipal"
            \/ /\ AfterAssociating(c).step = "CopyProduct"
               /\ AfterAssociating(c).index = c.index + 1
<1>1. CASE c.index + 1 = NProducts
  <2>1. AfterAssociating(c) = [c EXCEPT !.step = "AssociatePrincipal"]
    BY <1>1 DEF AfterAssociating
  <2> QED BY <1>1, <2>1, SMTT(30) DEF ExecState, Step
<1>2. CASE c.index + 1 # NProducts
  <2> DEFINE c1 == [c EXCEPT !.step = "CopyProduct"]
             c2 == [c1 EXCEPT !.index = c.index + 1]
             c3 == [c2 EXCEPT !.token = 0]
  <2>1. AfterAssociating(c) = c3
    BY <1>2 DEF AfterAssociating
  <2>2. "CopyProduct" \in Step /\ c.index + 1 \in Nat /\ 0 \in Nat
    BY DEF ExecState, Step
  <2>3. SameBut(c, c1, {"step"}) /\ c1.step = "CopyProduct"
    BY <2>2, Contexts
  <2> HIDE DEF c1
  <2>4. SameBut(c1, c2, {"index"}) /\ c2.index = c.index + 1
    BY <2>2, <2>3, Contexts DEF SameBut
  <2> HIDE DEF c2
  <2>5. SameBut(c2, c3, {})
    BY <2>2, <2>4, Contexts DEF SameBut
  <2> HIDE DEF c3
  <2> QED BY <2>1, <2>3, <2>4, <2>5 DEF SameBut
<1> QED BY <1>1, <1>2

-----------------------------------------------------------------------------
(* The ways an execution can go, by step.                                  *)
Kept(x) ==
  /\ exec[x].state \in Task \cup {"Waiter"}
  /\ exec'[x].state \in StatesOf(exec[x].step) \cup {"Failed"}
  /\ exec'[x].step = exec[x].step
  /\ exec'[x].portfolio = exec[x].portfolio
  /\ exec'[x].index = exec[x].index

Went(x, from, to) ==
  /\ exec[x].state \in Task
  /\ exec[x].step = from
  /\ exec'[x].step = to
  /\ exec'[x].state \in StatesOf(to)

Stayed(x) ==
  /\ exec'[x].portfolio = exec[x].portfolio
  /\ exec'[x].index = exec[x].index

Moved(x) ==
  \/ Kept(x)
  \/ /\ Went(x, "RegisterBeacon", "CreateLocalPortfolio") /\ Stayed(x)
     /\ exec[x].account \in beacon'
  \/ /\ Went(x, "CreateLocalPortfolio", "ListProductsToCopy")
     /\ exec'[x].index = exec[x].index
  \/ /\ Went(x, "ListProductsToCopy", "CopyProduct")
     /\ exec'[x].index = 0
  \/ Went(x, "CopyProduct", "CheckCopyProductStatus") /\ Stayed(x)
  \/ Went(x, "CheckCopyProductStatus", "AssociateProductWithPortfolio") /\ Stayed(x)
  \/ /\ \/ /\ exec[x].index + 1 = NProducts
           /\ Went(x, "AssociateProductWithPortfolio", "AssociatePrincipal")
        \/ /\ Went(x, "AssociateProductWithPortfolio", "CopyProduct")
           /\ exec'[x].index = exec[x].index + 1
     /\ exec'[x].portfolio = exec[x].portfolio
     /\ \E c \in LocalProducts(x) :
          contents' = [contents EXCEPT ![exec[x].account] =
                         contents[exec[x].account] \cup {<<exec[x].portfolio, c>>}]
     /\ copies' = copies
  \/ /\ Went(x, "AssociatePrincipal", "Done") /\ Stayed(x)
     /\ granted' = [granted EXCEPT ![exec[x].account] =
                       granted[exec[x].account] \cup {exec[x].portfolio}]

Others(x) ==
  /\ exec' \in [Execution -> ExecState]
  /\ \A y \in Execution \ {x} : exec'[y] = exec[y]
  /\ exec'[x].account = exec[x].account

(* Every step of an execution is one of these; in the graph and in the     *)
(* context it goes the same way.                                           *)
LEMMA StepMoves ==
  ASSUME MachineTypeOK, GraphInStep, ContextInOrder,
         NEW x \in Execution, ExecutionStep(x)
  PROVE  Others(x) /\ Moved(x)
<1> DEFINE c == exec[x]
<1>1. /\ exec \in [Execution -> ExecState] /\ c \in ExecState
      /\ c.index \in Nat /\ c.portfolio \in Nat /\ c.step \in Step
      /\ c.state \in StatesOf(c.step) \cup {"Failed"}
  BY DEF MachineTypeOK, GraphInStep, ExecState
<1>2. ASSUME c.state \in Task, Throws(x)
      PROVE  Others(x) /\ Kept(x)
  <2>1. exec' = [exec EXCEPT ![x] = AfterThrow(c)]
    BY <1>2 DEF Throws
  <2> HIDE DEF c
  <2> QED BY <1>1, <1>2, <2>1, AfterThrowIs DEF Others, Kept, c
<1>3. ASSUME NEW d \in ExecState, d.state = c.state, c.state \in Task,
             d.account = c.account, Answers(x, d)
      PROVE  /\ Others(x)
             /\ exec'[x].state = Following(c.state, d.step) /\ exec'[x].step = d.step
             /\ exec'[x].portfolio = d.portfolio /\ exec'[x].index = d.index
  <2> HIDE DEF c
  <2> QED BY <1>1, <1>3, AnswersIs DEF Others, c
<1>4. CASE TaskFails(x)
  BY <1>2, <1>4 DEF TaskFails, Moved
<1>5. CASE Wait(x)
  <2>1. exec' = [exec EXCEPT ![x].state = "GetCopyProductStatus"]
    BY <1>5 DEF Wait
  <2>2. c.state = "Waiter" /\ c.step = "CheckCopyProductStatus"
    BY <1>1, <1>5 DEF Wait, StatesOf, Step
  <2> QED BY <1>1, <2>1, <2>2, SMTT(30) DEF Others, Kept, Moved, StatesOf, ExecState, Task
<1>6. CASE RegisterBeacon(x)
  <2> DEFINE d == [c EXCEPT !.step = "CreateLocalPortfolio"]
  <2>1. SameBut(c, d, {"step"}) /\ d.step = "CreateLocalPortfolio"
    BY <1>1, Contexts DEF Step
  <2>2. c.state = "CreateBeacon" /\ c.step = "RegisterBeacon" /\ c.state \in Task
    BY <1>1, <1>6 DEF RegisterBeacon, Invoked, StatesOf, Task
  <2>3. /\ Throws(x) \/ Answers(x, d)
        /\ c.account \in beacon'
    BY <1>6 DEF RegisterBeacon, Returns
  <2> HIDE DEF d
  <2>4. CASE Answers(x, d)
    BY <1>3, <2>1, <2>2, <2>3, <2>4 DEF SameBut, Moved, Went, Stayed, StatesOf, Following
  <2> QED BY <1>2, <2>2, <2>3, <2>4 DEF Moved
<1>7. CASE CreateLocalPortfolio(x)
  <2> DEFINE e == [c EXCEPT !.step = "ListProductsToCopy"]
             d == [e EXCEPT !.portfolio = portfolios[c.account] + 1]
  <2>1. c.state = "CreateLocalPortfolio" /\ c.step = "CreateLocalPortfolio"
    BY <1>1, <1>7 DEF CreateLocalPortfolio, Invoked, StatesOf, Task
  <2>2. SameBut(c, e, {"step"}) /\ e.step = "ListProductsToCopy"
    BY <1>1, Contexts DEF Step
  <2>3. SameBut(e, d, {"portfolio"})
    <3>1. c.account \in Account
      BY <2>1 DEF ContextInOrder
    <3>2. portfolios[c.account] + 1 \in Nat
      BY <3>1 DEF MachineTypeOK
    <3> HIDE DEF c, e
    <3> QED BY <2>2, <3>2, Contexts DEF SameBut
  <2>4. Throws(x) \/ Answers(x, d)
    BY <1>7 DEF CreateLocalPortfolio, Returns
  <2> HIDE DEF d, e
  <2>5. CASE Answers(x, d)
    BY <1>3, <2>1, <2>2, <2>3, <2>5 DEF SameBut, Moved, Went, StatesOf, Following, Task
  <2> QED BY <1>2, <2>1, <2>4, <2>5 DEF Moved, Task
<1>8. CASE ListProductsToCopy(x)
  <2> DEFINE e == [c EXCEPT !.step = "CopyProduct"]
             d == [e EXCEPT !.index = 0]
  <2>1. c.state = "ListProducts" /\ c.step = "ListProductsToCopy"
    BY <1>1, <1>8 DEF ListProductsToCopy, Invoked, StatesOf, Task
  <2>2. SameBut(c, e, {"step"}) /\ e.step = "CopyProduct"
    BY <1>1, Contexts DEF Step
  <2>3. SameBut(e, d, {"index"}) /\ d.index = 0
    <3> HIDE DEF e
    <3> QED BY <2>2, Contexts DEF SameBut
  <2>4. Throws(x) \/ Answers(x, d)
    BY <1>8 DEF ListProductsToCopy, Returns
  <2> HIDE DEF d, e
  <2>5. CASE Answers(x, d)
    BY <1>3, <2>1, <2>2, <2>3, <2>5 DEF SameBut, Moved, Went, StatesOf, Following, Task
  <2> QED BY <1>2, <2>1, <2>4, <2>5 DEF Moved, Task
<1>9. CASE CopyProduct(x)
  <2> DEFINE e == [c EXCEPT !.step = "CheckCopyProductStatus"]
             d == [e EXCEPT !.token = Len(copies[c.account]) + 1]
  <2>1. c.state = "CopyProduct" /\ c.step = "CopyProduct"
    BY <1>1, <1>9 DEF CopyProduct, Invoked, StatesOf, Task
  <2>2. c.account \in Account
    BY <2>1 DEF ContextInOrder
  <2>3. SameBut(c, e, {"step"}) /\ e.step = "CheckCopyProductStatus"
    BY <1>1, Contexts DEF Step
  <2>4. SameBut(e, d, {})
    <3>1. copies[c.account] \in Seq([product : Product, status : CopyStatus])
      BY <2>2 DEF MachineTypeOK
    <3>2. Len(copies[c.account]) + 1 \in Nat
      BY <3>1, LenProperties
    <3> HIDE DEF c, e
    <3> QED BY <2>3, <3>2, Contexts DEF SameBut
  <2>5. Throws(x) \/ Answers(x, d)
    BY <1>9 DEF CopyProduct, Returns
  <2> HIDE DEF d, e
  <2>6. CASE Answers(x, d)
    BY <1>3, <2>1, <2>3, <2>4, <2>6
       DEF SameBut, Moved, Went, Stayed, StatesOf, Following, Task
  <2> QED BY <1>2, <2>1, <2>5, <2>6 DEF Moved, Task
<1>10. CASE CheckCopyProductStatus(x)
  <2> DEFINE d == [c EXCEPT !.step = "AssociateProductWithPortfolio"]
  <2>1. c.state = "GetCopyProductStatus" /\ c.step = "CheckCopyProductStatus"
    BY <1>1, <1>10 DEF CheckCopyProductStatus, Invoked, StatesOf, Task
  <2>2. SameBut(c, d, {"step"}) /\ d.step = "AssociateProductWithPortfolio"
    BY <1>1, Contexts DEF Step
  <2>3. Throws(x) \/ Answers(x, d) \/ Answers(x, c)
    BY <1>10 DEF CheckCopyProductStatus, Returns
  <2> HIDE DEF d
  <2>4. CASE Answers(x, d)
    BY <1>3, <2>1, <2>2, <2>4
       DEF SameBut, Moved, Went, Stayed, StatesOf, Following, KeepCheckingChoice, Task
  <2>5. CASE Answers(x, c)
    BY <1>1, <1>3, <2>1, <2>5
       DEF Moved, Kept, StatesOf, Following, KeepCheckingChoice, Task
  <2> QED BY <1>2, <2>1, <2>3, <2>4, <2>5 DEF Moved, Task
<1>11. CASE AssociateProductWithPortfolio(x)
  <2> DEFINE d == AfterAssociating(c)
  <2>1. c.state = "AssociateProduct" /\ c.step = "AssociateProductWithPortfolio"
    BY <1>1, <1>11 DEF AssociateProductWithPortfolio, Invoked, StatesOf, Task
  <2>2. ASSUME Answers(x, d),
               NEW p \in LocalProducts(x),
               contents' = [contents EXCEPT ![c.account] =
                              contents[c.account] \cup {<<c.portfolio, p>>}],
               copies' = copies
        PROVE  Others(x) /\ Moved(x)
    <3>1. /\ d \in ExecState /\ d.state = c.state /\ d.account = c.account
          /\ d.portfolio = c.portfolio
          /\ \/ c.index + 1 = NProducts /\ d.step = "AssociatePrincipal"
             \/ d.step = "CopyProduct" /\ d.index = c.index + 1
      BY <1>1, AfterAssociatingIs
    <3> HIDE DEF d
    <3>2. /\ Others(x)
          /\ exec'[x].state = LastProductChoice(d.step) /\ exec'[x].step = d.step
          /\ exec'[x].portfolio = d.portfolio /\ exec'[x].index = d.index
      BY <1>3, <2>1, <2>2, <3>1 DEF Following, Task
    <3> QED BY <2>1, <2>2, <3>1, <3>2 DEF Moved, Went, StatesOf, LastProductChoice, Task
  <2>3. \/ Throws(x)
        \/ /\ Answers(x, d) /\ copies' = copies
           /\ \E p \in LocalProducts(x) :
                 contents' = [contents EXCEPT ![c.account] =
                                contents[c.account] \cup {<<c.portfolio, p>>}]
    BY <1>11 DEF AssociateProductWithPortfolio, Returns
  <2> QED BY <1>2, <2>1, <2>2, <2>3 DEF Moved, Task
<1>12. CASE AssociatePrincipal(x)
  <2> DEFINE d == [c EXCEPT !.step = "Done"]
  <2>1. c.state = "AssociatePrincipal" /\ c.step = "AssociatePrincipal"
    BY <1>1, <1>12 DEF AssociatePrincipal, Invoked, StatesOf, Task
  <2>2. SameBut(c, d, {"step"}) /\ d.step = "Done"
    BY <1>1, Contexts DEF Step
  <2>3. /\ Throws(x) \/ Answers(x, d)
        /\ granted' = [granted EXCEPT ![c.account] = granted[c.account] \cup {c.portfolio}]
    BY <1>12 DEF AssociatePrincipal, Returns
  <2> HIDE DEF d
  <2>4. CASE Answers(x, d)
    BY <1>3, <2>1, <2>2, <2>3, <2>4
       DEF SameBut, Moved, Went, Stayed, StatesOf, Following, Task
  <2> QED BY <1>2, <2>1, <2>3, <2>4 DEF Moved, Task
<1> QED BY <1>4, <1>5, <1>6, <1>7, <1>8, <1>9, <1>10, <1>11, <1>12 DEF ExecutionStep

-----------------------------------------------------------------------------
(* What a step does to the accounts. Nothing that is offered is lost.      *)
CopySeq == Seq([product : Product, status : CopyStatus])

DataTypeOK ==
  /\ beacon \subseteq Account
  /\ portfolios \in [Account -> Nat]
  /\ copies \in [Account -> CopySeq]
  /\ contents \in [Account -> SUBSET (Nat \X Nat)]
  /\ granted \in [Account -> SUBSET Nat]
  /\ faults \in 0..MaxFaults

CopiesStay ==
  \A a \in Account : \A c \in DOMAIN copies[a] :
    /\ c \in DOMAIN copies'[a]
    /\ copies'[a][c].product = copies[a][c].product
    /\ copies[a][c].status = "SUCCEEDED" => copies'[a][c].status = "SUCCEEDED"

ContentsStay == \A a \in Account : contents[a] \subseteq contents'[a]

Grants(x) ==
  \/ granted' = granted
  \/ /\ exec[x].step = "AssociatePrincipal"
     /\ granted' = [granted EXCEPT ![exec[x].account] =
                      granted[exec[x].account] \cup {exec[x].portfolio}]

LEMMA FaultsCounted ==
  ASSUME faults \in 0..MaxFaults, Fault \/ NoFault \/ faults' = faults
  PROVE  faults' \in 0..MaxFaults
BY MachineAssumption, SMTT(30) DEF Fault, NoFault

LEMMA StepData ==
  ASSUME MachineTypeOK, ContextInOrder, NEW x \in Execution, ExecutionStep(x)
  PROVE  /\ DataTypeOK'
         /\ CopiesStay /\ ContentsStay
         /\ beacon \subseteq beacon'
         /\ Grants(x)
<1> DEFINE c == exec[x]
<1>1. /\ DataTypeOK
      /\ c.portfolio \in Nat /\ c.index \in Nat
      /\ c.state \in Task => c.account \in Account
  BY DEF MachineTypeOK, ExecState, DataTypeOK, CopySeq, ContextInOrder, Task
<1> HIDE DEF c
<1>2. faults \in 0..MaxFaults
  BY <1>1 DEF DataTypeOK
<1>3. ASSUME Fault \/ NoFault \/ faults' = faults
      PROVE  faults' \in 0..MaxFaults
  BY <1>2, <1>3, FaultsCounted
<1>4. ASSUME copies' = copies
      PROVE  CopiesStay /\ copies' \in [Account -> CopySeq]
  BY <1>1, <1>4 DEF CopiesStay, DataTypeOK
<1>5. ASSUME UNCHANGED <<beacon, catalogVars>>, faults' \in 0..MaxFaults
      PROVE  /\ DataTypeOK' /\ CopiesStay /\ ContentsStay
             /\ beacon \subseteq beacon' /\ Grants(x)
  BY <1>1, <1>4, <1>5 DEF DataTypeOK, catalogVars, ContentsStay, Grants
<1>6. CASE TaskFails(x)
  BY <1>3, <1>5, <1>6 DEF TaskFails
<1>7. CASE Wait(x)
  BY <1>3, <1>5, <1>7 DEF Wait
<1>8. CASE RegisterBeacon(x)
  <2>1. c.account \in Account /\ beacon' = beacon \cup {c.account}
    BY <1>1, <1>8 DEF RegisterBeacon, Invoked, c
  <2>2. faults' \in 0..MaxFaults /\ UNCHANGED catalogVars
    BY <1>3, <1>8 DEF RegisterBeacon, Returns
  <2> QED BY <1>1, <1>4, <2>1, <2>2 DEF DataTypeOK, catalogVars, ContentsStay, Grants
<1>9. CASE CreateLocalPortfolio(x)
  <2>1. c.account \in Account
        /\ portfolios' = [portfolios EXCEPT ![c.account] = portfolios[c.account] + 1]
    BY <1>1, <1>9 DEF CreateLocalPortfolio, Invoked, c
  <2>2. faults' \in 0..MaxFaults /\ UNCHANGED <<beacon, copies, contents, granted>>
    BY <1>3, <1>9 DEF CreateLocalPortfolio, Returns
  <2>3. portfolios' \in [Account -> Nat]
    BY <1>1, <2>1 DEF DataTypeOK
  <2> QED BY <1>1, <1>4, <2>2, <2>3 DEF DataTypeOK, ContentsStay, Grants
<1>10. CASE ListProductsToCopy(x)
  BY <1>3, <1>5, <1>10 DEF ListProductsToCopy, Returns
<1>11. CASE CopyProduct(x)
  <2> DEFINE p == [product |-> Current(x), status |-> "IN_PROGRESS"]
  <2>1. c.account \in Account
    BY <1>1, <1>11 DEF CopyProduct, Invoked, c
  <2>2. faults' \in 0..MaxFaults /\ UNCHANGED <<beacon, portfolios, contents, granted>>
    BY <1>3, <1>11 DEF CopyProduct, Returns
  <2>3. CASE Current(x) \in Product
    <3>1. copies' = [copies EXCEPT ![c.account] = Append(copies[c.account], p)]
      BY <1>11, <2>3 DEF CopyProduct, c
    <3>2. p \in [product : Product, status : CopyStatus]
      BY <2>3 DEF CopyStatus
    <3> HIDE DEF p
    <3>3. copies[c.account] \in CopySeq
      BY <1>1, <2>1 DEF DataTypeOK
    <3>4. /\ Append(copies[c.account], p) \in CopySeq
          /\ \A k \in DOMAIN copies[c.account] :
               /\ k \in DOMAIN Append(copies[c.account], p)
               /\ Append(copies[c.account], p)[k] = copies[c.account][k]
      BY <3>2, <3>3, AppendProperties, LenProperties DEF CopySeq
    <3>5. copies' \in [Account -> CopySeq] /\ CopiesStay
      BY <1>1, <2>1, <3>1, <3>4 DEF DataTypeOK, CopiesStay
    <3> QED BY <1>1, <2>2, <3>5 DEF DataTypeOK, ContentsStay, Grants
  <2>4. CASE Current(x) \notin Product
    BY <1>5, <1>11, <2>2, <2>4 DEF CopyProduct, catalogVars
  <2> QED BY <2>3, <2>4
<1>12. CASE CheckCopyProductStatus(x)
  BY <1>3, <1>5, <1>12 DEF CheckCopyProductStatus, Returns
<1>13. CASE AssociateProductWithPortfolio(x)
  <2>1. c.account \in Account
    BY <1>1, <1>13 DEF AssociateProductWithPortfolio, Invoked, c
  <2>2. faults' \in 0..MaxFaults /\ UNCHANGED <<beacon, portfolios, copies, granted>>
    BY <1>3, <1>13 DEF AssociateProductWithPortfolio, Returns
  <2>3. ASSUME NEW p \in LocalProducts(x),
               contents' = [contents EXCEPT ![c.account] =
                              contents[c.account] \cup {<<c.portfolio, p>>}]
        PROVE  contents' \in [Account -> SUBSET (Nat \X Nat)] /\ ContentsStay
    <3>1. copies[c.account] \in CopySeq
      BY <1>1, <2>1 DEF DataTypeOK
    <3>2. p \in Nat
      BY <3>1, LenProperties DEF LocalProducts, CopySeq, c
    <3>3. contents[c.account] \cup {<<c.portfolio, p>>} \in SUBSET (Nat \X Nat)
      BY <1>1, <2>1, <3>2 DEF DataTypeOK
    <3> QED BY <1>1, <2>1, <2>3, <3>3 DEF DataTypeOK, ContentsStay
  <2>4. \/ contents' = contents
        \/ \E p \in LocalProducts(x) :
             contents' = [contents EXCEPT ![c.account] =
                            contents[c.account] \cup {<<c.portfolio, p>>}]
    BY <1>13 DEF AssociateProductWithPortfolio, c
  <2>5. contents' \in [Account -> SUBSET (Nat \X Nat)] /\ ContentsStay
    BY <1>1, <2>3, <2>4 DEF DataTypeOK, ContentsStay
  <2> QED BY <1>1, <1>4, <2>2, <2>5 DEF DataTypeOK, Grants
<1>14. CASE AssociatePrincipal(x)
  <2>1. /\ c.account \in Account /\ c.step = "AssociatePrincipal"
        /\ granted' = [granted EXCEPT ![c.account] = granted[c.account] \cup {c.portfolio}]
    BY <1>1, <1>14 DEF AssociatePrincipal, Invoked, c
  <2>2. faults' \in 0..MaxFaults /\ UNCHANGED <<beacon, portfolios, copies, contents>>
    BY <1>3, <1>14 DEF AssociatePrincipal, Returns
  <2>3. granted' \in [Account -> SUBSET Nat]
    BY <1>1, <2>1 DEF DataTypeOK
  <2>4. Grants(x)
    BY <2>1 DEF Grants, c
  <2> QED BY <1>1, <1>4, <2>2, <2>3, <2>4 DEF DataTypeOK, ContentsStay
<1> QED BY <1>6, <1>7, <1>8, <1>9, <1>10, <1>11, <1>12, <1>13, <1>14 DEF ExecutionStep

LEMMA CatalogData ==
  ASSUME MachineTypeOK, CatalogStep
  PROVE  /\ DataTypeOK' /\ CopiesStay
         /\ UNCHANGED <<exec, beacon, contents, granted>>
<1>0. PICK a \in Account : \E c \in DOMAIN copies[a] :
        FinishCopy(a, c, "SUCCEEDED") \/ FinishCopy(a, c, "FAILED")
  BY DEF CatalogStep
<1>1. PICK c \in DOMAIN copies[a], status \in {"SUCCEEDED", "FAILED"} :
        FinishCopy(a, c, status)
  BY <1>0
<1>2. /\ copies' = [copies EXCEPT ![a][c].status = status]
      /\ copies[a][c].status = "IN_PROGRESS"
      /\ UNCHANGED <<exec, beacon, portfolios, contents, granted, faults>>
  BY <1>1 DEF FinishCopy
<1>3. copies \in [Account -> CopySeq] /\ copies[a] \in CopySeq
  BY DEF MachineTypeOK, CopySeq
<1> DEFINE R == [product : Product, status : CopyStatus]
           r == [copies[a][c] EXCEPT !.status = status]
           s == [copies[a] EXCEPT ![c] = r]
<1>4. copies[a][c] \in R /\ c \in 1..Len(copies[a])
  BY <1>3, ElementOfSeq, LenProperties DEF CopySeq
<1>5. r \in R /\ r.product = copies[a][c].product
  BY <1>4 DEF CopyStatus
<1>6. copies' = [copies EXCEPT ![a] = s]
  BY <1>2
<1> HIDE DEF r, R
<1>7. /\ s \in CopySeq /\ DOMAIN s = DOMAIN copies[a] /\ s[c] = r
      /\ \A k \in DOMAIN copies[a] \ {c} : s[k] = copies[a][k]
  BY <1>3, <1>4, <1>5, ExceptSeq, LenProperties DEF CopySeq, R
<1> HIDE DEF s
<1>8. copies' \in [Account -> CopySeq] /\ CopiesStay
  BY <1>2, <1>3, <1>5, <1>6, <1>7 DEF CopiesStay
<1> QED BY <1>2, <1>8 DEF MachineTypeOK, DataTypeOK

-----------------------------------------------------------------------------
(* The invariant is inductive.                                             *)
(* Offers, after a step, of what the arguments are before it.              *)
WillOffer(a, portfolio, p) ==
  \E c \in DOMAIN copies'[a] : /\ copies'[a][c].product = p
                               /\ copies'[a][c].status = "SUCCEEDED"
                               /\ <<portfolio, c>> \in contents'[a]

LEMMA OffersStay ==
  ASSUME CopiesStay, ContentsStay, NEW a \in Account, NEW f, NEW p, Offers(a, f, p)
  PROVE  WillOffer(a, f, p)
<1>1. PICK c \in DOMAIN copies[a] :
        /\ copies[a][c].product = p
        /\ copies[a][c].status = "SUCCEEDED"
        /\ <<f, c>> \in contents[a]
  BY DEF Offers
<1>2. /\ c \in DOMAIN copies'[a]
      /\ copies'[a][c].product = p
      /\ copies'[a][c].status = "SUCCEEDED"
      /\ <<f, c>> \in contents'[a]
  BY <1>1 DEF CopiesStay, ContentsStay
<1> QED BY <1>2 DEF WillOffer

(* An execution that does not move keeps what the invariant says of it.    *)
LEMMA KeptImported ==
  ASSUME MachineIInv, CopiesStay, ContentsStay, NEW y \in Execution,
         exec[y].step # "RegisterBeacon",
         exec'[y].step = exec[y].step, exec'[y].account = exec[y].account,
         exec'[y].portfolio = exec[y].portfolio, exec'[y].index = exec[y].index
  PROVE  \A p \in 1..Imported(y)' :
           p \in Product /\ WillOffer(exec[y].account, exec[y].portfolio, p)
<1>1. Imported(y)' = Imported(y)
  BY DEF Imported
<1>2. \A p \in 1..Imported(y) : p \in Product /\ Offers(exec[y].account, exec[y].portfolio, p)
  BY DEF MachineIInv, ImportedOffered
<1>3. exec[y].account \in Account
  BY DEF MachineIInv, ContextInOrder, MachineTypeOK
<1> QED BY <1>1, <1>2, <1>3, OffersStay

LEMMA NothingImported ==
  ASSUME MachineIInv, NEW y \in Execution,
         exec[y].step \in {"RegisterBeacon", "CreateLocalPortfolio", "ListProductsToCopy"}
  PROVE  Imported(y) = 0
BY DEF MachineIInv, ContextInOrder, Imported

(* The grants of a step complete what GrantedComplete says.                *)
LEMMA GrantsComplete ==
  ASSUME MachineIInv, CopiesStay, ContentsStay, NEW x \in Execution, Grants(x)
  PROVE  GrantedComplete' /\ \A a \in Account : granted[a] \subseteq granted'[a]
<1>1. \A a \in Account : \A f \in granted[a] : \A p \in Product : WillOffer(a, f, p)
  BY OffersStay DEF MachineIInv, GrantedComplete
<1>2. CASE granted' = granted
  BY <1>1, <1>2 DEF GrantedComplete, Offers, WillOffer
<1>3. ASSUME exec[x].step = "AssociatePrincipal",
             granted' = [granted EXCEPT ![exec[x].account] =
                           granted[exec[x].account] \cup {exec[x].portfolio}]
      PROVE  GrantedComplete' /\ \A a \in Account : granted[a] \subseteq granted'[a]
  <2> DEFINE b == exec[x].account
             g == exec[x].portfolio
  <2>1. b \in Account
    BY <1>3 DEF MachineIInv, ContextInOrder
  <2>2. \A p \in Product : Offers(b, g, p)
    BY <1>3 DEF MachineIInv, ImportedOffered, Imported, Product
  <2>3. \A p \in Product : WillOffer(b, g, p)
    BY <2>1, <2>2, OffersStay
  <2>4. granted \in [Account -> SUBSET Nat]
    BY DEF MachineIInv, MachineTypeOK
  <2>5. granted' = [granted EXCEPT ![b] = granted[b] \cup {g}]
    BY <1>3
  <2> HIDE DEF b, g
  <2>6. \A a \in Account :
          /\ granted[a] \subseteq granted'[a]
          /\ \A f \in granted'[a] : f \in granted[a] \/ (a = b /\ f = g)
    BY <2>1, <2>4, <2>5
  <2>7. \A a \in Account : \A f \in granted'[a] : \A p \in Product : WillOffer(a, f, p)
    BY <1>1, <2>3, <2>6
  <2>8. GrantedComplete'
    BY <2>7 DEF GrantedComplete, Offers, WillOffer
  <2> QED BY <2>6, <2>8
<1> QED BY <1>2, <1>3 DEF Grants

(* What the execution that takes the step has brought in.                  *)
LEMMA MovedImported ==
  ASSUME MachineIInv, CopiesStay, ContentsStay, NEW x \in Execution, Others(x), Moved(x)
  PROVE  /\ \A p \in 1..Imported(x)' :
              p \in Product /\ WillOffer(exec[x].account, exec'[x].portfolio, p)
         /\ \/ Imported(x)' = Imported(x)
            \/ /\ Imported(x) < NProducts
               /\ Imported(x)' = Imported(x) + 1
               /\ exec'[x].step # "Done" /\ exec[x].step # "Done"
<1> DEFINE a == exec[x].account
           Goal(f) == \A p \in 1..Imported(x)' : p \in Product /\ WillOffer(a, f, p)
<1>1. /\ exec[x].index \in Nat
      /\ copies \in [Account -> CopySeq]
      /\ exec[x].step # "RegisterBeacon" => a \in Account
      /\ \A p \in 1..Imported(x) : p \in Product /\ Offers(a, exec[x].portfolio, p)
      /\ a \in Account => contents \in [Account -> SUBSET (Nat \X Nat)]
  BY DEF MachineIInv, MachineTypeOK, ExecState, ContextInOrder, ImportedOffered, CopySeq
<1>2. ASSUME exec[x].step # "RegisterBeacon", exec'[x].portfolio = exec[x].portfolio,
             NEW p \in 1..Imported(x)
      PROVE  p \in Product /\ WillOffer(a, exec'[x].portfolio, p)
  BY <1>1, <1>2, OffersStay
<1>3. CASE Imported(x)' = Imported(x) /\ exec[x].step # "RegisterBeacon"
             /\ exec'[x].portfolio = exec[x].portfolio
  BY <1>2, <1>3
<1>4. CASE Imported(x) = 0 /\ Imported(x)' = 0
  BY <1>4, SMTT(30)
<1>5. CASE Kept(x)
  <2>1. Imported(x)' = Imported(x)
    BY <1>5 DEF Kept, Imported
  <2> QED BY <1>3, <1>4, <1>5, <2>1, NothingImported DEF Kept
<1>6. CASE Went(x, "RegisterBeacon", "CreateLocalPortfolio") /\ Stayed(x)
  <2>1. Imported(x)' = Imported(x)
    BY <1>6 DEF Went, Stayed, Imported
  <2> QED BY <1>4, <1>6, <2>1, NothingImported DEF Went
<1>7. CASE Went(x, "CreateLocalPortfolio", "ListProductsToCopy")
             /\ exec'[x].index = exec[x].index
  <2>1. Imported(x)' = Imported(x)
    BY <1>7 DEF Went, Imported
  <2> QED BY <1>4, <1>7, <2>1, NothingImported DEF Went
<1>8. CASE Went(x, "ListProductsToCopy", "CopyProduct") /\ exec'[x].index = 0
  <2>1. Imported(x)' = 0
    BY <1>8 DEF Went, Imported
  <2> QED BY <1>4, <1>8, <2>1, NothingImported DEF Went
<1>9. CASE \/ Went(x, "CopyProduct", "CheckCopyProductStatus") /\ Stayed(x)
           \/ Went(x, "CheckCopyProductStatus", "AssociateProductWithPortfolio") /\ Stayed(x)
           \/ Went(x, "AssociatePrincipal", "Done") /\ Stayed(x)
  <2>1. Imported(x)' = Imported(x)
    BY <1>9 DEF Went, Stayed, Imported
  <2> QED BY <1>3, <1>9, <2>1 DEF Went, Stayed
<1>10. ASSUME \/ /\ exec[x].index + 1 = NProducts
                 /\ Went(x, "AssociateProductWithPortfolio", "AssociatePrincipal")
              \/ /\ Went(x, "AssociateProductWithPortfolio", "CopyProduct")
                 /\ exec'[x].index = exec[x].index + 1,
              exec'[x].portfolio = exec[x].portfolio,
              NEW c \in LocalProducts(x),
              contents' = [contents EXCEPT ![a] = contents[a] \cup {<<exec[x].portfolio, c>>}],
              copies' = copies
       PROVE  /\ Goal(exec'[x].portfolio)
              /\ Imported(x) < NProducts
              /\ Imported(x)' = Imported(x) + 1
              /\ exec'[x].step # "Done" /\ exec[x].step # "Done"
  <2>1. /\ Imported(x) = exec[x].index /\ Imported(x)' = Imported(x) + 1
        /\ exec'[x].step # "Done" /\ exec[x].step = "AssociateProductWithPortfolio"
    BY <1>10 DEF Went, Imported
  <2>2. a \in Account /\ copies[a] \in CopySeq
    BY <1>1, <2>1
  <2>3. /\ c \in DOMAIN copies[a] /\ copies[a][c].product = exec[x].index + 1
        /\ copies[a][c].status = "SUCCEEDED"
    BY <1>10 DEF LocalProducts, Current
  <2>4. copies[a][c] \in [product : Product, status : CopyStatus]
    BY <2>2, <2>3, LenProperties, ElementOfSeq DEF CopySeq
  <2>5. exec[x].index + 1 \in Product
    BY <2>3, <2>4
  <2> HIDE DEF a
  <2>6. <<exec[x].portfolio, c>> \in contents'[a]
    BY <1>1, <1>10, <2>2
  <2>7. WillOffer(a, exec'[x].portfolio, exec[x].index + 1)
    BY <1>10, <2>3, <2>6 DEF WillOffer
  <2>8. \A p \in 1..Imported(x)' : p \in 1..Imported(x) \/ p = exec[x].index + 1
    BY <1>1, <2>1
  <2>9. Imported(x) < NProducts
    BY <1>1, <2>1, <2>5, MachineAssumption DEF Product
  <2> QED BY <1>2, <1>10, <2>1, <2>5, <2>7, <2>8, <2>9
<1>11. CASE /\ \/ /\ exec[x].index + 1 = NProducts
                  /\ Went(x, "AssociateProductWithPortfolio", "AssociatePrincipal")
               \/ /\ Went(x, "AssociateProductWithPortfolio", "CopyProduct")
                  /\ exec'[x].index = exec[x].index + 1
            /\ exec'[x].portfolio = exec[x].portfolio
            /\ \E c \in LocalProducts(x) :
                 contents' = [contents EXCEPT ![a] = contents[a] \cup {<<exec[x].portfolio, c>>}]
            /\ copies' = copies
  BY <1>10, <1>11
<1> HIDE DEF Goal
<1> QED BY <1>5, <1>6, <1>7, <1>8, <1>9, <1>11 DEF Moved

LEMMA MachineInitially ==
  ASSUME MachineInit
  PROVE  MachineIInv
<1>1. MachineTypeOK
  <2>1. Context("unstarted", None) \in ExecState
    BY MachineAssumption, SMTT(30) DEF Context, ExecState, Step
  <2>2. \A a \in Account : copies[a] = <<>> /\ contents[a] = {} /\ granted[a] = {}
    BY DEF MachineInit
  <2> QED BY <2>1, <2>2, MachineAssumption DEF MachineInit, MachineTypeOK
<1>2. \A x \in Execution : /\ exec[x].state = "unstarted"
                           /\ exec[x].step = "RegisterBeacon"
                           /\ exec[x].index = 0
  BY DEF MachineInit, Context
<1>3. GraphInStep
  BY <1>2 DEF GraphInStep, StatesOf
<1>4. ContextInOrder
  BY <1>2 DEF ContextInOrder
<1>5. ImportedOffered
  <2>1. \A x \in Execution : Imported(x) = 0
    BY <1>2 DEF Imported
  <2> QED BY <2>1, SMTT(30) DEF ImportedOffered
<1>6. GrantedComplete
  BY DEF MachineInit, GrantedComplete
<1> QED BY <1>1, <1>3, <1>4, <1>5, <1>6 DEF MachineIInv

(* Every step of an execution keeps the invariant.                         *)
LEMMA ExecutionKeeps ==
  ASSUME MachineIInv, NEW x \in Execution, ExecutionStep(x)
  PROVE  MachineIInv'
<1>1. /\ MachineTypeOK /\ GraphInStep /\ ContextInOrder
      /\ Others(x) /\ Moved(x)
      /\ DataTypeOK' /\ CopiesStay /\ ContentsStay /\ beacon \subseteq beacon' /\ Grants(x)
  BY StepMoves, StepData DEF MachineIInv
<1>2. GrantedComplete' /\ \A a \in Account : granted[a] \subseteq granted'[a]
  BY <1>1, GrantsComplete
<1>3. MachineTypeOK'
  BY <1>1 DEF MachineTypeOK, DataTypeOK, CopySeq, Others
<1>4. GraphInStep'
  BY <1>1 DEF GraphInStep, Others, Moved, Kept, Went
<1>5. ContextInOrder'
  <2> DEFINE Ordered(y) ==
        /\ IF exec'[y].state = "unstarted"
           THEN exec'[y].step = "RegisterBeacon"
           ELSE exec'[y].account \in Account
        /\ exec'[y].step \in {"RegisterBeacon", "CreateLocalPortfolio", "ListProductsToCopy"} =>
             exec'[y].index = 0
        /\ exec'[y].step # "RegisterBeacon" => exec'[y].account \in beacon'
        /\ exec'[y].step = "Done" => exec'[y].portfolio \in granted'[exec'[y].account]
  <2>1. \A y \in Execution \ {x} : Ordered(y)
    BY <1>1, <1>2 DEF ContextInOrder, Others, MachineTypeOK
  <2>2. /\ exec[x].state \in Task \cup {"Waiter"} /\ exec[x].account \in Account
        /\ exec[x].step # "Done"
        /\ exec'[x].account = exec[x].account
    <3>1. exec[x].state \in Task \cup {"Waiter"}
      BY <1>1 DEF Moved, Kept, Went
    <3> QED BY <1>1, <3>1 DEF ContextInOrder, Others, GraphInStep, StatesOf, Task
  <2>3. exec'[x].step = "Done" => exec'[x].portfolio \in granted'[exec'[x].account]
    <3>1. CASE Went(x, "AssociatePrincipal", "Done") /\ Stayed(x)
               /\ granted' = [granted EXCEPT ![exec[x].account] =
                                granted[exec[x].account] \cup {exec[x].portfolio}]
      BY <1>1, <2>2, <3>1 DEF MachineTypeOK, Stayed
    <3>2. CASE exec'[x].step # "Done"
      BY <3>2
    <3> QED BY <1>1, <2>2, <3>1, <3>2 DEF Moved, Kept, Went
  <2>4. exec'[x].step # "RegisterBeacon" => exec'[x].account \in beacon'
    BY <1>1, <2>2 DEF Moved, Kept, Went, ContextInOrder
  <2>5. exec'[x].step \in {"RegisterBeacon", "CreateLocalPortfolio", "ListProductsToCopy"} =>
          exec'[x].index = 0
    BY <1>1 DEF Moved, Kept, Went, Stayed, ContextInOrder
  <2>6. exec'[x].state = "unstarted" => exec'[x].step = "RegisterBeacon"
    <3>1. exec'[x].step \in Step /\ exec'[x].state \in StatesOf(exec'[x].step) \cup {"Failed"}
      BY <1>3, <1>4 DEF GraphInStep, MachineTypeOK, ExecState
    <3> QED BY <3>1 DEF StatesOf, Step
  <2>7. Ordered(x)
    BY <2>2, <2>3, <2>4, <2>5, <2>6
  <2> HIDE DEF Ordered
  <2>8. \A y \in Execution : Ordered(y)
    BY <2>1, <2>7
  <2> QED BY <2>8 DEF Ordered, ContextInOrder
<1>6. ImportedOffered'
  <2> DEFINE Brought(y) ==
        \A p \in 1..Imported(y)' : p \in Product /\ WillOffer(exec'[y].account, exec'[y].portfolio, p)
  <2>1. ASSUME NEW y \in Execution \ {x}
        PROVE  Brought(y)
    <3>1. CASE exec[y].step = "RegisterBeacon"
      <4>1. Imported(y)' = 0
        BY <1>1, <3>1, NothingImported DEF Others, Imported
      <4> QED BY <4>1, SMTT(30)
    <3>2. CASE exec[y].step # "RegisterBeacon"
      BY <1>1, <3>2, KeptImported DEF Others
    <3> QED BY <3>1, <3>2
  <2>2. Brought(x)
    BY <1>1, MovedImported DEF Others
  <2> HIDE DEF Brought
  <2>3. \A y \in Execution : Brought(y)
    BY <2>1, <2>2
  <2> QED BY <2>3 DEF Brought, ImportedOffered, Offers, WillOffer
<1> QED BY <1>2, <1>3, <1>4, <1>5, <1>6 DEF MachineIInv

(* So does every step of Service Catalog, and the start of an execution.   *)
LEMMA CatalogKeeps ==
  ASSUME MachineIInv, CatalogStep
  PROVE  MachineIInv'
<1>1. /\ MachineTypeOK /\ DataTypeOK' /\ CopiesStay
      /\ UNCHANGED <<exec, beacon, contents, granted>>
  BY CatalogData DEF MachineIInv
<1>2. ContentsStay
  BY <1>1 DEF ContentsStay
<1>3. MachineTypeOK'
  BY <1>1 DEF MachineTypeOK, DataTypeOK, CopySeq
<1>4. GraphInStep' /\ ContextInOrder'
  BY <1>1 DEF MachineIInv, GraphInStep, ContextInOrder
<1>5. GrantedComplete'
  <2>1. \A a \in Account : \A f \in granted[a] : \A p \in Product : WillOffer(a, f, p)
    BY <1>1, <1>2, OffersStay DEF MachineIInv, GrantedComplete
  <2> QED BY <1>1, <2>1 DEF GrantedComplete, Offers, WillOffer
<1>6. ImportedOffered'
  <2>1. ASSUME NEW y \in Execution
        PROVE  \A p \in 1..Imported(y)' :
                 p \in Product /\ WillOffer(exec[y].account, exec[y].portfolio, p)
    <3>1. CASE exec[y].step = "RegisterBeacon"
      <4>1. Imported(y)' = 0
        BY <1>1, <3>1, NothingImported DEF Imported
      <4> QED BY <4>1, SMTT(30)
    <3>2. CASE exec[y].step # "RegisterBeacon"
      BY <1>1, <1>2, <3>2, KeptImported
    <3> QED BY <3>1, <3>2
  <2> QED BY <1>1, <2>1 DEF ImportedOffered, Offers, WillOffer
<1> QED BY <1>3, <1>4, <1>5, <1>6 DEF MachineIInv

LEMMA StartKeeps ==
  ASSUME MachineIInv, NEW x \in Execution, NEW a \in Account, Start(x, a),
         UNCHANGED <<beacon, catalogVars>>, Fault \/ NoFault
  PROVE  MachineIInv'
<1> DEFINE c == Context("CreateBeacon", a)
<1>1. MachineTypeOK /\ faults' \in 0..MaxFaults
  <2>1. MachineTypeOK /\ faults \in 0..MaxFaults
    BY DEF MachineIInv, MachineTypeOK
  <2> QED BY <2>1, FaultsCounted
<1>2. /\ c \in ExecState
      /\ c.state = "CreateBeacon" /\ c.step = "RegisterBeacon"
      /\ c.account = a /\ c.index = 0
  BY MachineAssumption, SMTT(30) DEF Context, ExecState, Task, Step
<1> HIDE DEF c
<1>3. exec' = [exec EXCEPT ![x] = c]
  BY DEF Start, c
<1>4. /\ exec' \in [Execution -> ExecState]
      /\ \A y \in Execution \ {x} : exec'[y] = exec[y]
      /\ exec'[x] = c
  BY <1>1, <1>2, <1>3 DEF MachineTypeOK
<1>5. MachineTypeOK'
  BY <1>1, <1>4 DEF MachineTypeOK, catalogVars
<1>6. GraphInStep'
  BY <1>2, <1>4 DEF MachineIInv, GraphInStep, StatesOf
<1>7. ContextInOrder'
  <2>1. /\ c.account \in Account /\ c.state # "unstarted" /\ c.step = "RegisterBeacon"
        /\ c.index = 0
    BY <1>2
  <2> QED BY <1>4, <2>1 DEF MachineIInv, ContextInOrder, catalogVars
<1>8. GrantedComplete'
  BY DEF MachineIInv, GrantedComplete, Offers, catalogVars
<1>9. ImportedOffered'
  <2>1. ASSUME NEW y \in Execution \ {x}
        PROVE  Imported(y)' = Imported(y)
    BY <1>4, <2>1 DEF Imported
  <2>2. Imported(x)' = 0
    BY <1>2, <1>4 DEF Imported
  <2>3. \A y \in Execution \ {x} : \A p \in 1..Imported(y)' :
          p \in Product /\ Offers(exec[y].account, exec[y].portfolio, p)
    BY <2>1 DEF MachineIInv, ImportedOffered
  <2>4. \A p \in 1..Imported(x)' : FALSE
    BY <2>2, SMTT(30)
  <2> QED BY <1>4, <2>3, <2>4 DEF ImportedOffered, Offers, catalogVars
<1> QED BY <1>5, <1>6, <1>7, <1>8, <1>9 DEF MachineIInv

LEMMA NothingKeeps ==
  ASSUME MachineIInv, UNCHANGED <<exec, beacon, catalogVars>>, Fault \/ NoFault
  PROVE  MachineIInv'
<1>1. MachineTypeOK /\ faults \in 0..MaxFaults
  BY DEF MachineIInv, MachineTypeOK
<1>2. faults' \in 0..MaxFaults
  BY <1>1, FaultsCounted
<1>3. MachineTypeOK'
  BY <1>1, <1>2 DEF MachineTypeOK, catalogVars
<1>4. GraphInStep' /\ ContextInOrder'
  BY DEF MachineIInv, GraphInStep, ContextInOrder, catalogVars
<1>5. GrantedComplete'
  BY DEF MachineIInv, GrantedComplete, Offers, catalogVars
<1>6. ImportedOffered'
  BY DEF MachineIInv, ImportedOffered, Imported, Offers, catalogVars
<1> QED BY <1>3, <1>4, <1>5, <1>6 DEF MachineIInv

-----------------------------------------------------------------------------
(* What follows from the invariant.                                        *)
LEMMA SuccessGrants ==
  ASSUME MachineIInv
  PROVE  SuccessIsGranted
<1> SUFFICES ASSUME NEW x \in Execution, exec[x].state = "Success"
             PROVE  /\ exec[x].account \in beacon
                    /\ exec[x].portfolio \in granted[exec[x].account]
  BY DEF SuccessIsGranted
<1>1. exec[x].step \in Step /\ exec[x].state \in StatesOf(exec[x].step) \cup {"Failed"}
  BY DEF MachineIInv, GraphInStep, MachineTypeOK, ExecState
<1>2. exec[x].step = "Done"
  BY <1>1 DEF StatesOf, Step
<1> QED BY <1>2 DEF MachineIInv, ContextInOrder

(* The steps of the machine are those of ProductImport, or none of them.   *)
ImportedBy == [x \in Execution |-> Imported(x)]
OpenTo == {x \in Execution : exec[x].step = "Done"}

LEMMA ImportInitially ==
  ASSUME MachineInit
  PROVE  PI!ImportInit
<1>1. \A x \in Execution : exec[x].step = "RegisterBeacon" /\ exec[x].index = 0
  BY DEF MachineInit, Context
<1>2. \A x \in Execution : Imported(x) = 0
  BY <1>1 DEF Imported
<1> QED BY <1>1, <1>2 DEF PI!ImportInit

LEMMA ImportKept ==
  ASSUME \A x \in Execution : /\ exec'[x].step = exec[x].step
                              /\ exec'[x].index = exec[x].index
  PROVE  UNCHANGED PI!importVars
BY DEF PI!importVars, Imported

LEMMA ExecutionImports ==
  ASSUME MachineIInv, NEW x \in Execution, ExecutionStep(x)
  PROVE  [PI!ImportNext]_(PI!importVars)
<1>1. /\ MachineTypeOK /\ GraphInStep /\ ContextInOrder
      /\ Others(x) /\ Moved(x) /\ CopiesStay /\ ContentsStay
  BY StepMoves, StepData DEF MachineIInv
<1>2. \A y \in Execution \ {x} : /\ Imported(y)' = Imported(y)
                                 /\ exec'[y].step = exec[y].step
  BY <1>1 DEF Others, Imported
<1>3. CASE /\ Imported(x) < NProducts /\ Imported(x)' = Imported(x) + 1
           /\ exec'[x].step # "Done" /\ exec[x].step # "Done"
  <2>1. OpenTo' = OpenTo
    BY <1>2, <1>3 DEF OpenTo
  <2>2. ImportedBy' = [ImportedBy EXCEPT ![x] = ImportedBy[x] + 1]
    BY <1>2, <1>3 DEF ImportedBy
  <2>3. ImportedBy[x] < NProducts
    BY <1>3 DEF ImportedBy
  <2>4. PI!Import(x)
    BY <2>1, <2>2, <2>3 DEF PI!Import, ImportedBy, OpenTo
  <2> QED BY <2>4 DEF PI!ImportNext
<1>4. CASE Imported(x)' = Imported(x)
  <2>1. ImportedBy' = ImportedBy
    BY <1>2, <1>4 DEF ImportedBy
  <2>2. CASE exec'[x].step = "Done" /\ exec[x].step # "Done"
    <3>1. Went(x, "AssociatePrincipal", "Done")
      BY <1>1, <2>2 DEF Moved, Kept, Went
    <3>2. ImportedBy[x] = NProducts /\ x \notin OpenTo
      BY <3>1 DEF Went, ImportedBy, Imported, OpenTo
    <3>3. OpenTo' = OpenTo \cup {x}
      BY <1>2, <2>2 DEF OpenTo
    <3>4. PI!Open(x)
      BY <2>1, <3>2, <3>3 DEF PI!Open, ImportedBy, OpenTo
    <3> QED BY <3>4 DEF PI!ImportNext
  <2>3. CASE exec'[x].step # "Done" \/ exec[x].step = "Done"
    <3>1. exec'[x].step # "Done" /\ exec[x].step # "Done"
      BY <1>1, <2>3 DEF Moved, Kept, Went, GraphInStep, StatesOf, Task
    <3>2. OpenTo' = OpenTo
      BY <1>2, <3>1 DEF OpenTo
    <3> QED BY <2>1, <3>2 DEF PI!importVars, ImportedBy, OpenTo
  <2> QED BY <2>2, <2>3
<1> QED BY <1>1, <1>3, <1>4, MovedImported

=============================================================================

-------------------------- MODULE StackOutcomeProofs --------------------------
(***************************************************************************)
(* Proofs about what a stack leaves in the services that keep its          *)
(* resources: once it is complete, once it is gone, and when an operation  *)
(* on it fails.                                                            *)
(***************************************************************************)
EXTENDS StackProofs, SequenceTheorems

----------------------------------------------------------------------------
(* Handlers and their programs *)

\* What is left of a program after some of its calls.
Rests(p) == {SubSeq(p, i, Len(p)) : i \in 1..(Len(p) + 1)}

LEMMA RestsTail ==
  ASSUME NEW p \in Seq(Calls), NEW s \in Rests(p)
  PROVE  /\ s \in Seq(Calls)
         /\ s # << >> => Tail(s) \in Rests(p) /\ Head(s) \in Range(p)
         /\ s = p \/ Len(s) < Len(p)
         /\ p \in Rests(p)
<1>1. PICK i \in 1..(Len(p) + 1) : s = SubSeq(p, i, Len(p))
  BY DEF Rests
<1>2. p = SubSeq(p, 1, Len(p)) /\ Len(p) \in Nat
  BY SubSeqFull
<1>3. i = Len(p) + 1 => s = << >>
  BY <1>1, <1>2, SubSeqEmpty
<1>4. i # Len(p) + 1 => Head(s) = p[i] /\ Tail(s) = SubSeq(p, i + 1, Len(p)) /\ i \in 1..Len(p)
  BY <1>1, <1>2, HeadTailOfSubSeq
<1>5. s # << >> => Tail(s) \in Rests(p) /\ Head(s) \in Range(p)
  <2>1. i # Len(p) + 1 => p[i] \in Range(p)
    BY <1>4 DEF Range
  <2>2. \A j \in 1..(Len(p) + 1) : SubSeq(p, j, Len(p)) \in Rests(p)
    BY DEF Rests
  <2>3. i # Len(p) + 1 => i + 1 \in 1..(Len(p) + 1)
    BY <1>2
  <2> QED BY <1>3, <1>4, <2>1, <2>2, <2>3
<1>6. s \in Seq(Calls) /\ Len(s) = IF i <= Len(p) THEN Len(p) - i + 1 ELSE 0
  <2>1. \A j \in i..Len(p) : p[j] \in Calls
    BY <1>2
  <2> QED BY <1>1, <1>2, <2>1, SubSeqProperties
<1>7. s = p \/ Len(s) < Len(p)
  BY <1>1, <1>2, <1>6
<1>8. p \in Rests(p)
  BY <1>2 DEF Rests
<1> QED BY <1>5, <1>6, <1>7, <1>8

LEMMA RestsShort ==
  /\ Rests(<< >>) = {<< >>}
  /\ \A a \in Calls : Rests(<<a>>) = {<<a>>, << >>}
  /\ \A a, b \in Calls : Rests(<<a, b>>) = {<<a, b>>, <<b>>, << >>}
  /\ \A a, b, c \in Calls : Rests(<<a, b, c>>) = {<<a, b, c>>, <<b, c>>, <<c>>, << >>}
<1>1. Rests(<< >>) = {<< >>}
  <2>1. << >> \in Seq(Calls) /\ Len(<< >>) = 0 /\ 1..(0 + 1) = {1}
    OBVIOUS
  <2>2. SubSeq(<< >>, 1, 0) = << >>
    BY SubSeqEmpty
  <2> QED BY <2>1, <2>2 DEF Rests
<1>2. ASSUME NEW a \in Calls PROVE Rests(<<a>>) = {<<a>>, << >>}
  <2>1. <<a>> \in Seq(Calls) /\ Len(<<a>>) = 1 /\ 1..(1 + 1) = {1, 2}
    OBVIOUS
  <2>2. SubSeq(<<a>>, 1, 1) = <<a>>
    BY <2>1, SubSeqFull
  <2>3. SubSeq(<<a>>, 2, 1) = << >>
    BY SubSeqEmpty
  <2> QED BY <2>1, <2>2, <2>3 DEF Rests
<1>3. ASSUME NEW a \in Calls, NEW b \in Calls PROVE Rests(<<a, b>>) = {<<a, b>>, <<b>>, << >>}
  <2>1. /\ <<a, b>> \in Seq(Calls) /\ Len(<<a, b>>) = 2 /\ 1..(2 + 1) = {1, 2, 3}
        /\ Tail(<<a, b>>) = <<b>> /\ <<a, b>> # << >>
    OBVIOUS
  <2>2. SubSeq(<<a, b>>, 1, 2) = <<a, b>>
    BY <2>1, SubSeqFull
  <2>3. SubSeq(<<a, b>>, 2, 2) = <<b>>
    BY <2>1, TailIsSubSeq
  <2>4. SubSeq(<<a, b>>, 3, 2) = << >>
    BY SubSeqEmpty
  <2> QED BY <2>1, <2>2, <2>3, <2>4 DEF Rests
<1>4. ASSUME NEW a \in Calls, NEW b \in Calls, NEW c \in Calls
      PROVE  Rests(<<a, b, c>>) = {<<a, b, c>>, <<b, c>>, <<c>>, << >>}
  <2>1. /\ <<a, b, c>> \in Seq(Calls) /\ Len(<<a, b, c>>) = 3 /\ 1..(3 + 1) = {1, 2, 3, 4}
        /\ Tail(<<a, b, c>>) = <<b, c>> /\ Tail(<<b, c>>) = <<c>> /\ <<a, b, c>> # << >>
    OBVIOUS
  <2>2. SubSeq(<<a, b, c>>, 1, 3) = <<a, b, c>>
    BY <2>1, SubSeqFull
  <2>3. SubSeq(<<a, b, c>>, 2, 3) = <<b, c>>
    BY <2>1, TailIsSubSeq
  <2>4. SubSeq(<<a, b, c>>, 3, 3) = <<c>>
    <3>1. 2 \in 1..Len(<<a, b, c>>) /\ 3 \in 2..Len(<<a, b, c>>) /\ 2 + 1 = 3
      BY <2>1
    <3>2. Tail(SubSeq(<<a, b, c>>, 2, 3)) = SubSeq(<<a, b, c>>, 3, 3)
      BY <2>1, <3>1, HeadTailOfSubSeq
    <3>3. Tail(SubSeq(<<a, b, c>>, 2, 3)) = <<c>>
      BY <2>1, <2>3
    <3> QED BY <3>2, <3>3
  <2>5. SubSeq(<<a, b, c>>, 4, 3) = << >>
    BY SubSeqEmpty
  <2> QED BY <2>1, <2>2, <2>3, <2>4, <2>5 DEF Rests
<1> QED BY <1>1, <1>2, <1>3, <1>4

----------------------------------------------------------------------------
(* What a step does to one resource *)

\* A step of something else leaves a resource as it is, and the stack as well if the
\* resource is being updated.
Still(r) ==
  /\ has'[r] = has[r] /\ request'[r] = request[r]
  /\ props'[r] = props[r] /\ wanted'[r] = wanted[r]
  /\ world'[r] = world[r] /\ job'[r] = job[r]
  /\ request[r].for = "Update" => stack' = stack

Failing(r) == Refuse(r) \/ TotalTimeout(r) \/ Fault(r)

LEMMA HandlerElsewhere ==
  ASSUME StackTypeOK, StackIInv, NEW x \in Busy, HandlerProgress(x) \/ Fault(x),
         NEW r \in Mine, r # x
  PROVE  Still(r)
<1>1. x \in Mine /\ request[r].for # "Update"
  BY DEF StackIInv, RequestsFit, Busy
<1>2. Call(x) \/ Answer(x) => has'[r] = has[r] /\ request'[r] = request[r] /\ props'[r] = props[r]
  BY DEF Call, Answer, StackTypeOK
<1>3. Failing(x) => has'[r] = has[r] /\ request'[r] = request[r] /\ props'[r] = props[r]
  <2>1. ASSUME NEW why, NEW wrote, Throw(x, why, wrote)
        PROVE  has' = has /\ request'[r] = request[r] /\ props' = props
    BY <2>1 DEF Throw, StackTypeOK
  <2>2. Failing(x) => \E why, wrote : Throw(x, why, wrote)
    BY Zenon DEF Failing, Refuse, TotalTimeout, Fault
  <2> QED BY <2>1, <2>2
<1>4. wanted' = wanted
  BY DEF HandlerProgress, Call, Answer, Refuse, TotalTimeout, Fault, Throw
<1>5. Effect(x) => world'[r] = world[r] /\ job'[r] = job[r]
  BY DEF Effect, StackTypeOK
<1>6. Effect(x) \/ UNCHANGED <<world, job>>
  BY Zenon DEF HandlerProgress, Call, Answer, Refuse, TotalTimeout, Fault
<1> QED BY <1>1, <1>2, <1>3, <1>4, <1>5, <1>6 DEF Still, HandlerProgress, Failing

\* What may happen to a resource in a step.
LEMMA Fates ==
  ASSUME StackTypeOK, StackIInv, Next, NEW r \in Mine
  PROVE  \/ r \in Busy /\ (Call(r) \/ Answer(r) \/ Failing(r))
         \/ AskCreate(r) \/ AskDelete(r)
         \/ r \in Change /\ \E p \in Props : AskUpdate(r, p)
         \/ EndBuild(r)
         \/ r = "rootCa" /\ GenerateRootCA
         \/ Still(r)
<1>1. ASSUME NEW x \in Busy, HandlerProgress(x) \/ Fault(x)
      PROVE  Still(r) \/ (r \in Busy /\ (Call(r) \/ Answer(r) \/ Failing(r)))
  BY <1>1, HandlerElsewhere DEF HandlerProgress, Failing
<1>2. ASSUME NEW x \in Mine, AskCreate(x) \/ AskDelete(x) \/ EndBuild(x), x # r
      PROVE  Still(r)
  <2>1. UNCHANGED <<has, props, wanted, stack>> /\ request'[r] = request[r] /\ job'[r] = job[r]
    BY <1>2 DEF AskCreate, AskDelete, EndBuild, stackVars, StackTypeOK
  <2>2. world'[r] = world[r]
    BY <1>2 DEF AskCreate, AskDelete, EndBuild, StackTypeOK
  <2> QED BY <2>1, <2>2 DEF Still
<1>3. ASSUME NEW x \in Mine, NEW p \in Props, AskUpdate(x, p), x # r
      PROVE  Still(r)
  <2>1. request[r].for # "Update"
    BY <1>3 DEF AskUpdate, StackIInv, RequestsFit
  <2> QED BY <1>3, <2>1 DEF AskUpdate, Still, StackTypeOK
<1>4. CASE Settle \/ DeleteStack
  <2>1. request[r].for # "Update"
    BY <1>4 DEF Settle, DeleteStack, Busy
  <2> QED BY <1>4, <2>1 DEF Settle, DeleteStack, Still
<1>5. CASE Instances \/ \E n \in Node : Draining(n)
  BY <1>5 DEF Instances, Draining, Launch, DownloadRoot, IssueCert, CallRegister, Register,
     Terminate, Cleanup, stackVars, Still
<1>6. ASSUME GenerateRootCA, r # "rootCa"
      PROVE  Still(r)
  BY <1>6 DEF GenerateRootCA, stackVars, Still, StackTypeOK
<1> QED BY <1>1, <1>2, <1>3, <1>4, <1>5, <1>6, StepCases

\* The status of a stack, as it moves.
LEMMA Moves ==
  ASSUME StackTypeOK, StackIInv, Next
  PROVE  /\ Mine' = Mine /\ strays \subseteq strays'
         /\ \/ stack' = stack
            \/ stack = "creating" /\ stack' \in {"created", "rollingBack"}
            \/ stack = "created" /\ stack' \in {"updating", "deleting"}
            \/ stack = "updating" /\ stack' \in {"updated", "updateRollingBack"}
            \/ stack = "updateRollingBack"
                 /\ stack' \in {"updateRolledBack", "updateRollbackFailed"}
            \/ stack = "rollingBack" /\ stack' \in {"rolledBack", "rollbackFailed"}
            \/ stack = "deleting" /\ stack' \in {"deleted", "deleteFailed"}
            \/ /\ stack \in {"updated", "updateRolledBack", "updateRollbackFailed",
                               "rollbackFailed", "deleteFailed"}
               /\ stack' = "deleting"
<1>1. ASSUME NEW x \in Busy, HandlerProgress(x) \/ Fault(x), ~Call(x), ~Answer(x)
      PROVE  \E why, wrote : Throw(x, why, wrote)
  BY <1>1, Zenon DEF HandlerProgress, Refuse, TotalTimeout, Fault
<1>2. ASSUME NEW x \in Busy, NEW why, NEW wrote, Throw(x, why, wrote)
      PROVE  /\ template' = template /\ strays \subseteq strays'
             /\ stack' = CASE stack = "creating" -> "rollingBack"
                [] stack = "updating" -> "updateRollingBack"
                [] stack = "updateRollingBack" -> "updateRollbackFailed"
                [] stack = "rollingBack" /\ request[x].for = "Delete" -> "rollbackFailed"
                [] stack = "deleting" -> "deleteFailed"
                [] OTHER -> stack
  BY <1>2 DEF Throw
<1>3. ASSUME NEW x \in Busy, Call(x) \/ Answer(x)
      PROVE  /\ template' = template /\ strays' = strays
             /\ \/ stack' = stack
                \/ stack = "updating" /\ stack' = "updated"
                \/ stack = "updateRollingBack" /\ stack' = "updateRolledBack"
  BY <1>3 DEF Call, Answer
<1>4. ASSUME NEW x \in Mine, AskCreate(x) \/ AskDelete(x) \/ EndBuild(x)
      PROVE  UNCHANGED <<template, strays, stack>>
  BY <1>4 DEF AskCreate, AskDelete, EndBuild, stackVars
<1>5. ASSUME NEW x \in Mine, NEW p \in Props, AskUpdate(x, p)
      PROVE  UNCHANGED <<template, strays>> /\ stack = "created" /\ stack' = "updating"
  BY <1>5 DEF AskUpdate
<1>6. CASE Settle \/ DeleteStack
  BY <1>6 DEF Settle, DeleteStack, Mine
<1>7. CASE Instances \/ GenerateRootCA \/ \E n \in Node : Draining(n)
  BY <1>7 DEF Instances, Draining, GenerateRootCA, Launch, DownloadRoot, IssueCert,
     CallRegister, Register, Terminate, Cleanup, stackVars, Mine
<1>8. CASE \E x \in Busy : HandlerProgress(x) \/ Fault(x)
  BY <1>1, <1>2, <1>3, <1>8 DEF Mine
<1> QED BY <1>4, <1>5, <1>6, <1>7, <1>8, StepCases DEF Mine

\* A call writes under the name its handler was given, and nowhere else.
Writes(r) ==
  /\ Calling(r) /\ ~Refused(r)
  /\ world'[r][Want(r).name] = Left(r)
  /\ \A n \in Name : n # Want(r).name => world'[r][n] = world[r][n]
  /\ job'[r] = IF Op(r) = "build" THEN "running" ELSE job[r]

LEMMA EffectWrites ==
  ASSUME StackTypeOK, NEW r \in Mine, Calling(r), ~Refused(r), Effect(r)
  PROVE  Writes(r)
<1>1. Want(r).name \in Name /\ world[r] \in [Name -> Value \cup States]
  BY WantTyped DEF Props, StackTypeOK
<1>2. world' = [world EXCEPT ![r] = [world[r] EXCEPT ![Want(r).name] = Left(r)]]
  BY DEF Effect
<1>3. world'[r] = [world[r] EXCEPT ![Want(r).name] = Left(r)]
  BY <1>2 DEF StackTypeOK
<1>4. job'[r] = IF Op(r) = "build" THEN "running" ELSE job[r]
  BY DEF Effect, StackTypeOK
<1> QED BY <1>1, <1>3, <1>4 DEF Writes

LEMMA Called ==
  ASSUME StackTypeOK, NEW r \in Busy, Call(r)
  PROVE  /\ request'[r].for = request[r].for /\ request'[r].todo = Tail(request[r].todo)
         /\ UNCHANGED <<stack, has, props, wanted, culprit, strays, faults, entry, node>>
         /\ Want(r)' = Want(r)
         /\ ~Waits(r) /\ Writes(r)
<1>1. UNCHANGED <<stack, has, props, wanted, culprit, strays, faults, entry, node>>
  BY DEF Call, nodeVars
<1>2. request'[r].for = request[r].for /\ request'[r].todo = Tail(request[r].todo)
  BY DEF Call, StackTypeOK, Busy
<1>3. Writes(r)
  BY EffectWrites DEF Call, Busy
<1>4. Want(r)' = Want(r)
  BY <1>1 DEF Want
<1> QED BY <1>1, <1>2, <1>3, <1>4 DEF Call

LEMMA Answered ==
  ASSUME StackTypeOK, NEW r \in Busy, Answer(r)
  PROVE  /\ request[r].todo = << >> /\ request'[r] = Idle
         /\ has'[r] = IF request[r].for = "Delete" THEN "absent" ELSE "exists"
         /\ props'[r] = Want(r)
         /\ UNCHANGED <<wanted, culprit, strays, faults, world, job, entry, node>>
         /\ stack' = IF stack = "updating" THEN "updated"
                     ELSE IF stack = "updateRollingBack" THEN "updateRolledBack" ELSE stack
BY DEF Answer, Calling, StackTypeOK, Busy, nodeVars

LEMMA Failed ==
  ASSUME StackTypeOK, StackIInv, NEW r \in Busy, Failing(r)
  PROVE  /\ Calling(r)
         /\ UNCHANGED <<has, props, wanted, entry, node>>
         /\ \/ /\ request[r].for = "Create" /\ stack' = "rollingBack" /\ request'[r] = Idle
               /\ r \in strays' \/ (~Begun(r) /\ world'[r] = world[r])
            \/ /\ request[r].for = "Update" /\ stack = "updating" /\ stack' = "updateRollingBack"
               /\ request'[r] = [for |-> "Update", todo |-> HandlerOf[r].Update]
            \/ /\ request[r].for = "Update" /\ stack = "updateRollingBack"
               /\ stack' = "updateRollbackFailed" /\ request'[r] = Idle
            \/ /\ request[r].for = "Delete" /\ request'[r] = Idle
               /\ stack' \in {"rollbackFailed", "deleteFailed"}
         /\ (world'[r] = world[r] /\ job'[r] = job[r]) \/ Writes(r)
         /\ faults' = 0 /\ faults = 0 =>
              culprit' = r /\ UNCHANGED <<world, job>> /\ (Refused(r) \/ Op(r) = "poll")
         /\ faults' = 0 => faults = 0
<1>1. r \in Mine /\ request[r].for \in {"Create", "Update", "Delete"}
  BY DEF Busy, StackTypeOK
<1>2. PICK why, wrote : /\ Throw(r, why, wrote)
                        /\ wrote \/ (wrote = Begun(r) /\ world' = world)
  <2>1. CASE Refuse(r)
    BY <2>1 DEF Refuse
  <2>2. CASE TotalTimeout(r)
    BY <2>2 DEF TotalTimeout
  <2>3. CASE Fault(r)
    BY <2>3 DEF Fault
  <2> QED BY <2>1, <2>2, <2>3 DEF Failing
<1>3. UNCHANGED <<has, props, wanted, entry, node>>
  BY <1>2 DEF Throw, nodeVars
<1>4. Calling(r) /\ (faults' = 0 => faults = 0)
  <2>1. Calling(r)
    BY Zenon DEF Failing, Refuse, TotalTimeout, Fault
  <2>2. faults' = faults + 1 \/ faults' = faults
    BY Zenon DEF Failing, Refuse, TotalTimeout, Fault
  <2>3. faults \in Nat
    BY StackAssumption DEF StackTypeOK
  <2> QED BY <2>1, <2>2, <2>3
<1>5. (world'[r] = world[r] /\ job'[r] = job[r]) \/ Writes(r)
  <2>1. UNCHANGED <<world, job>> \/ (Calling(r) /\ ~Refused(r) /\ Effect(r))
    BY Zenon DEF Failing, Refuse, TotalTimeout, Fault
  <2> QED BY <1>1, <2>1, EffectWrites
<1>6. faults' = 0 /\ faults = 0 =>
         culprit' = r /\ UNCHANGED <<world, job>> /\ (Refused(r) \/ Op(r) = "poll")
  <2>1. Fault(r) => faults' = faults + 1
    BY DEF Fault
  <2>2. Refuse(r) \/ TotalTimeout(r) =>
          culprit' = r /\ UNCHANGED <<world, job>> /\ (Refused(r) \/ Op(r) = "poll")
    BY DEF Refuse, TotalTimeout, Throw
  <2> QED BY <2>1, <2>2 DEF Failing
<1>7. request'[r] = IF stack = "updating"
                    THEN [for |-> "Update", todo |-> HandlerOf[r].Update] ELSE Idle
  BY <1>1, <1>2 DEF Throw, StackTypeOK
<1>8. CASE request[r].for = "Create"
  <2>1. stack \in {"creating", "rollingBack"} /\ stack' = "rollingBack"
    BY <1>1, <1>2, <1>8 DEF StackIInv, RequestsFit, Throw
  <2>2. r \in strays' \/ (~Begun(r) /\ world' = world)
    BY <1>2, <1>8 DEF Throw
  <2> QED BY <1>3, <1>4, <1>5, <1>6, <1>7, <1>8, <2>1, <2>2
<1>9. CASE request[r].for = "Update"
  BY <1>1, <1>2, <1>3, <1>4, <1>5, <1>6, <1>7, <1>9 DEF StackIInv, RequestsFit, Throw
<1>10. CASE request[r].for = "Delete"
  <2>1. stack \in {"rollingBack", "rollbackFailed", "deleting", "deleteFailed"}
    BY <1>1, <1>10 DEF StackIInv, RequestsFit
  <2>2. stack' \in {"rollbackFailed", "deleteFailed"}
    BY <1>2, <1>10, <2>1 DEF Throw
  <2> QED BY <1>3, <1>4, <1>5, <1>6, <1>7, <1>10, <2>1, <2>2
<1> QED BY <1>1, <1>8, <1>9, <1>10

LEMMA Asked ==
  ASSUME StackTypeOK, StackIInv, NEW r \in Mine,
         AskCreate(r) \/ AskDelete(r) \/ \E p \in Props : AskUpdate(r, p)
  PROVE  /\ UNCHANGED <<has, props, culprit, strays, faults, world, job, entry, node>>
         /\ request[r].for = "none"
         /\ \/ /\ request'[r] = [for |-> "Create", todo |-> HandlerOf[r].Create]
               /\ has[r] = "absent" /\ stack = "creating" /\ UNCHANGED <<stack, wanted>>
            \/ /\ request'[r] = [for |-> "Delete", todo |-> HandlerOf[r].Delete]
               /\ has[r] = "exists" /\ stack \in {"rollingBack", "deleting"}
               /\ UNCHANGED <<stack, wanted>>
            \/ /\ request'[r] = [for |-> "Update", todo |-> HandlerOf[r].Update]
               /\ has[r] = "exists" /\ stack = "created" /\ stack' = "updating"
               /\ wanted'[r] # props[r] /\ wanted'[r] \in Props
<1>1. CASE AskCreate(r) \/ AskDelete(r)
  BY <1>1 DEF AskCreate, AskDelete, StackTypeOK, nodeVars
<1>2. ASSUME NEW p \in Props, AskUpdate(r, p)
      PROVE  /\ UNCHANGED <<has, props, culprit, strays, faults, world, job, entry, node>>
             /\ request[r].for = "none"
             /\ request'[r] = [for |-> "Update", todo |-> HandlerOf[r].Update]
             /\ has[r] = "exists" /\ stack = "created" /\ stack' = "updating"
             /\ wanted'[r] # props[r] /\ wanted'[r] \in Props
  <2>1. Busy = {} /\ has[r] = "exists"
    BY <1>2 DEF AskUpdate, StackIInv, WholeUntilDeleted, Whole, Complete
  <2> QED BY <1>2, <2>1 DEF AskUpdate, StackTypeOK, nodeVars, Busy
<1> QED BY <1>1, <1>2

LEMMA Built ==
  ASSUME StackTypeOK, NEW r \in Mine, EndBuild(r)
  PROVE  /\ UNCHANGED <<stack, has, request, props, wanted, culprit, strays, faults, entry, node>>
         /\ job[r] = "running" /\ job'[r] \in {"succeeded", "failed", "stopped"}
         /\ r # "image" => world' = world
         /\ r = "image" =>
              /\ world'[r] = world[r] \/ world'[r] = [world[r] EXCEPT ![Start.name] = Start.value]
              /\ job'[r] = "succeeded" => world'[r][Start.name] = Start.value
<1>1. Start.name \in Name /\ world[r] \in [Name -> Value \cup States]
  BY StackAssumption DEF Props, StackTypeOK
<1>2. PICK end \in {"succeeded", "failed", "stopped"} :
        /\ job' = [job EXCEPT ![r] = end]
        /\ world' = IF r = "image" /\ end = "succeeded"
                    THEN [world EXCEPT ![r] = [world[r] EXCEPT ![Start.name] = Start.value]]
                    ELSE world
  BY DEF EndBuild
<1>3. job'[r] = end /\ job[r] = "running"
  BY <1>2 DEF StackTypeOK, EndBuild
<1>4. r = "image" /\ end = "succeeded" =>
        world'[r] = [world[r] EXCEPT ![Start.name] = Start.value]
  BY <1>2 DEF StackTypeOK
<1> QED BY <1>1, <1>2, <1>3, <1>4 DEF EndBuild, stackVars, nodeVars

----------------------------------------------------------------------------
(* What handlers are called with *)

\* A handler at work has some of its program yet to do; one that refuses updates
\* has done none of it.
ProgramsFit ==
  \A r \in Mine : request[r].for # "none" =>
    /\ request[r].todo \in Rests(HandlerOf[r][request[r].for])
    /\ request[r].for = "Update" /\ HandlerOf[r].Update = <<"refuse">> =>
         request[r].todo = <<"refuse">>

LEMMA ProgramsFitKept ==
  ASSUME StackTypeOK, StackIInv, ProgramsFit, Next
  PROVE  ProgramsFit'
<1> SUFFICES ASSUME NEW r \in Mine, request'[r].for # "none"
             PROVE  /\ request'[r].todo \in Rests(HandlerOf[r][request'[r].for])
                    /\ request'[r].for = "Update" /\ HandlerOf[r].Update = <<"refuse">> =>
                         request'[r].todo = <<"refuse">>
  BY Moves DEF ProgramsFit
<1>1. \A f \in {"Create", "Update", "Delete"} :
        HandlerOf[r][f] \in Seq(Calls) /\ HandlerOf[r][f] \in Rests(HandlerOf[r][f])
  <2>1. HandlerOf[r] \in Programs
    BY MineTyped
  <2>2. \A p \in Seq(Calls) : p \in Rests(p)
    <3>1. ASSUME NEW p \in Seq(Calls) PROVE p = SubSeq(p, 1, Len(p)) /\ 1 \in 1..(Len(p) + 1)
      BY SubSeqFull
    <3> QED BY <3>1 DEF Rests
  <2> QED BY <2>1, <2>2 DEF Programs
<1>2. request[r].for \in {"none", "Create", "Update", "Delete"}
  BY DEF StackTypeOK
<1>3. CASE r \in Busy /\ Call(r)
  <2>1. /\ request'[r].for = request[r].for /\ request'[r].todo = Tail(request[r].todo)
        /\ request[r].todo # << >> /\ Op(r) # "refuse"
    BY <1>3, Called DEF Writes, Calling, Refused
  <2>2. request[r].todo \in Rests(HandlerOf[r][request[r].for])
    BY <1>3 DEF ProgramsFit, Busy
  <2>3. request'[r].todo \in Rests(HandlerOf[r][request'[r].for])
    BY <1>1, <1>2, <1>3, <2>1, <2>2, RestsTail DEF Busy
  <2>4. ~(request[r].for = "Update" /\ HandlerOf[r].Update = <<"refuse">>)
    <3>1. Head(<<"refuse">>) = "refuse"
      OBVIOUS
    <3> QED BY <1>3, <2>1, <3>1 DEF ProgramsFit, Op, Busy
  <2> QED BY <2>1, <2>3, <2>4
<1>4. CASE r \in Busy /\ Answer(r)
  BY <1>4, Answered DEF Idle
<1>5. CASE r \in Busy /\ Failing(r)
  <2>1. request'[r] = Idle \/ request'[r] = [for |-> "Update", todo |-> HandlerOf[r].Update]
    BY <1>5, Failed
  <2> QED BY <1>1, <2>1 DEF Idle
<1>6. CASE AskCreate(r) \/ AskDelete(r) \/ \E p \in Props : AskUpdate(r, p)
  <2>1. \E f \in {"Create", "Update", "Delete"} :
          request'[r] = [for |-> f, todo |-> HandlerOf[r][f]]
    BY <1>6, Asked
  <2>2. PICK f \in {"Create", "Update", "Delete"} :
          request'[r].for = f /\ request'[r].todo = HandlerOf[r][f]
    BY <2>1
  <2> QED BY <1>1, <2>2
<1>7. CASE EndBuild(r) \/ (r = "rootCa" /\ GenerateRootCA) \/ Still(r)
  <2>1. request'[r] = request[r]
    BY <1>7 DEF EndBuild, GenerateRootCA, stackVars, Still
  <2> QED BY <2>1 DEF ProgramsFit
<1> QED BY <1>3, <1>4, <1>5, <1>6, <1>7, Fates

\* Only what an update changed has other properties than those it was created with.
StartKept ==
  /\ \A r \in Mine :
       /\ wanted[r] # Start \/ props[r] # Start \/ request[r].for = "Update" => r \in Change
       /\ request[r].for = "Update" /\ stack = "updating" => wanted[r] # Start
       /\ HandlerOf[r].Update = <<"refuse">> => props[r] = Start
  /\ stack \in {"creating", "rollingBack", "created", "updating", "updateRollingBack"} =>
       \A r \in Mine : props[r] = Start

LEMMA StartKeptKept ==
  ASSUME StackTypeOK, StackIInv, ProgramsFit, StartKept, Next
  PROVE  StartKept'
<1> DEFINE Early == {"creating", "rollingBack", "created", "updating", "updateRollingBack"}
<1>1. ASSUME NEW r \in Mine
      PROVE  /\ wanted'[r] # Start \/ props'[r] # Start \/ request'[r].for = "Update" => r \in Change
             /\ request'[r].for = "Update" /\ stack' = "updating" => wanted'[r] # Start
             /\ HandlerOf[r].Update = <<"refuse">> => props'[r] = Start
             /\ stack' \in Early => props'[r] = Start
  <2>1. stack' \in Early => stack \in Early
    BY Moves
  <2>2. CASE r \in Busy /\ Call(r)
    BY <2>2, Called DEF StartKept
  <2>3. CASE r \in Busy /\ Answer(r)
    <3>1. /\ request[r].todo = << >> /\ request'[r].for = "none"
          /\ props'[r] = Want(r) /\ wanted' = wanted
      BY <2>3, Answered DEF Idle
    <3>2. /\ HandlerOf[r].Update = <<"refuse">> => request[r].for # "Update"
          /\ request[r].for \in {"Create", "Update", "Delete"}
      <4>1. request[r].for \in {"Create", "Update", "Delete"} /\ << >> # <<"refuse">>
        BY <2>3 DEF StackTypeOK, Busy
      <4> QED BY <3>1, <4>1 DEF ProgramsFit
    <3>3. request[r].for # "Update" => Want(r) = props[r]
      BY <3>2 DEF StackIInv, RequestsFit, Want
    <3>4. Want(r) # Start => r \in Change
      BY DEF Want, StartKept
    <3>5. stack = "updating" => stack' = "updated"
      BY <2>3, Answered
    <3> QED BY <2>1, <3>1, <3>2, <3>3, <3>4, <3>5 DEF StartKept, Want
  <2>4. CASE r \in Busy /\ Failing(r)
    <3>1. UNCHANGED <<props, wanted>>
      BY <2>4, Failed
    <3>2. request'[r].for = "Update" => request[r].for = "Update"
      <4>1. request'[r] = Idle \/ request[r].for = "Update"
        BY <2>4, Failed
      <4> QED BY <4>1 DEF Idle
    <3>3. stack' # "updating"
      BY <2>4, Failed
    <3> QED BY <2>1, <3>1, <3>2, <3>3 DEF StartKept
  <2>5. CASE AskCreate(r) \/ AskDelete(r)
    <3>1. UNCHANGED <<props, wanted>> /\ request'[r].for # "Update"
      BY <2>5 DEF AskCreate, AskDelete, StackTypeOK
    <3> QED BY <2>1, <3>1 DEF StartKept
  <2>6. CASE r \in Change /\ \E p \in Props : AskUpdate(r, p)
    BY <2>1, <2>6, Asked DEF StartKept
  <2>7. CASE EndBuild(r) \/ (r = "rootCa" /\ GenerateRootCA)
    <3>1. UNCHANGED <<props, wanted, stack, request>>
      BY <2>7 DEF EndBuild, GenerateRootCA, stackVars
    <3> QED BY <3>1 DEF StartKept
  <2>8. CASE Still(r)
    BY <2>1, <2>8 DEF StartKept, Still
  <2> QED BY <2>2, <2>3, <2>4, <2>5, <2>6, <2>7, <2>8, Fates
<1> QED BY <1>1, Moves DEF StartKept

----------------------------------------------------------------------------
(* Complete stacks *)

\* What a handler has yet to do until it writes what it was asked for, and after.
Writing ==
  {<<"add">>, <<"put">>, <<"put", "verify">>, <<"build", "poll">>, <<"poll">>, <<"some", "put">>,
   <<"enroll", "lookup">>, <<"remove", "put", "verify">>, <<"remove", "add">>}
Done == {<< >>, <<"verify">>, <<"lookup">>}

LEMMA ProgramRests ==
  /\ Rests(<< >>) = {<< >>}
  /\ Rests(<<"add">>) = {<<"add">>, << >>}
  /\ Rests(<<"put">>) = {<<"put">>, << >>}
  /\ Rests(<<"import">>) = {<<"import">>, << >>}
  /\ Rests(<<"lookup">>) = {<<"lookup">>, << >>}
  /\ Rests(<<"refuse">>) = {<<"refuse">>, << >>}
  /\ Rests(<<"put", "verify">>) = {<<"put", "verify">>, <<"verify">>, << >>}
  /\ Rests(<<"build", "poll">>) = {<<"build", "poll">>, <<"poll">>, << >>}
  /\ Rests(<<"some", "put">>) = {<<"some", "put">>, <<"put">>, << >>}
  /\ Rests(<<"enroll", "lookup">>) = {<<"enroll", "lookup">>, <<"lookup">>, << >>}
  /\ Rests(<<"remove", "add">>) = {<<"remove", "add">>, <<"add">>, << >>}
  /\ Rests(<<"remove", "put", "verify">>) =
       {<<"remove", "put", "verify">>, <<"put", "verify">>, <<"verify">>, << >>}
  /\ Rests(<<"build", "await", "lookup">>) =
       {<<"build", "await", "lookup">>, <<"await", "lookup">>, <<"lookup">>, << >>}
<1>1. /\ {"add", "put", "import", "lookup", "refuse", "verify", "build", "poll", "some"} \subseteq Calls
      /\ {"enroll", "remove", "await"} \subseteq Calls
  BY DEF Calls
<1>2. \A a \in {"add", "put", "import", "lookup", "refuse"} : Rests(<<a>>) = {<<a>>, << >>}
  BY <1>1, RestsShort
<1>3. /\ Rests(<<"put", "verify">>) = {<<"put", "verify">>, <<"verify">>, << >>}
      /\ Rests(<<"build", "poll">>) = {<<"build", "poll">>, <<"poll">>, << >>}
      /\ Rests(<<"some", "put">>) = {<<"some", "put">>, <<"put">>, << >>}
  BY <1>1, RestsShort
<1>4. /\ Rests(<<"enroll", "lookup">>) = {<<"enroll", "lookup">>, <<"lookup">>, << >>}
      /\ Rests(<<"remove", "add">>) = {<<"remove", "add">>, <<"add">>, << >>}
  BY <1>1, RestsShort
<1>5. Rests(<<"remove", "put", "verify">>) =
        {<<"remove", "put", "verify">>, <<"put", "verify">>, <<"verify">>, << >>}
  BY <1>1, RestsShort
<1>6. Rests(<<"build", "await", "lookup">>) =
        {<<"build", "await", "lookup">>, <<"await", "lookup">>, <<"lookup">>, << >>}
  BY <1>1, RestsShort
<1> QED BY <1>2, <1>3, <1>4, <1>5, <1>6, RestsShort

\* A deletion makes one call: it is whole, or over.
LEMMA DeleteRests ==
  /\ Rests(<< >>) = {<< >>}
  /\ Rests(<<"remove">>) = {<<"remove">>, << >>}
  /\ Rests(<<"drain">>) = {<<"drain">>, << >>}
  /\ Rests(<<"empty">>) = {<<"empty">>, << >>}
  /\ Rests(<<"retire">>) = {<<"retire">>, << >>}
  /\ Rests(<<"vacate">>) = {<<"vacate">>, << >>}
  /\ Rests(<<"schedule">>) = {<<"schedule">>, << >>}
<1>1. {"remove", "drain", "empty", "retire", "vacate", "schedule"} \subseteq Calls
  BY DEF Calls
<1> QED BY <1>1, RestsShort

\* auto-os's own handlers, resource by resource.
LEMMA OwnProgram ==
  ASSUME NEW r \in AllResources, r \in DOMAIN Handler
  PROVE  \/ r = "repo" /\ HandlerOf[r] = SnapshotRepo
         \/ r = "policy" /\ HandlerOf[r] = SnapshotPolicy
         \/ r = "param" /\ HandlerOf[r] = ParamLinker
         \/ r = "image" /\ HandlerOf[r] = ImageDeployer
         \/ r = "invocation" /\ HandlerOf[r] = Invocation
         \/ r = "services" /\ HandlerOf[r] = TrustedServices
         \/ r = "activator" /\ HandlerOf[r] = RuleSetActivator
         \/ r = "rootCa" /\ HandlerOf[r] = RootCA
         \/ r = "lbCert" /\ HandlerOf[r] = LoadBalancerCertificate
         \/ r = "delegation" /\ HandlerOf[r] = Delegation
         \/ r = "share" /\ HandlerOf[r] = PortfolioShare
         \/ /\ r \in {"endpoint", "forgeOrg", "registrarOrg", "productId"}
            /\ HandlerOf[r] = EndpointLookup
         \/ r \in {"substrateNames", "controlNames"} /\ HandlerOf[r] = NameLookup
<1>1. HandlerOf[r] = Handler[r]
  BY OwnHandlers
<1>2. OrgLookup = EndpointLookup /\ ProductLookup = EndpointLookup
  BY DEF OrgLookup, ProductLookup, EndpointLookup
<1> QED BY <1>1, <1>2 DEF Handler

LEMMA WrittenPrograms ==
  ASSUME StackTypeOK, NEW r \in Written
  PROVE  /\ r \in Mine
         /\ Rests(HandlerOf[r].Create) \subseteq Writing \cup Done
         /\ Rests(HandlerOf[r].Update) \subseteq Writing \cup Done
         /\ HandlerOf[r].Create \in Writing
         /\ HandlerOf[r].Update \in Writing \cup {<< >>}
         /\ <<"poll">> \in Rests(HandlerOf[r].Create) \cup Rests(HandlerOf[r].Update) => r = "image"
         /\ r = "image" => HandlerOf[r] = ImageDeployer
<1>1. r \in Mine /\ r \in AllResources /\ r # "rootCa"
  BY StackAssumption, NeedsWithin DEF Written, Mine, StackTypeOK
<1>2. {"put", "add", "enroll", "poll"} \cap Range(HandlerOf[r].Create) # {}
  BY DEF Written
<1>3. CASE r \in DOMAIN Handler
  <2>1. \/ r = "repo" /\ HandlerOf[r] = SnapshotRepo
        \/ r = "policy" /\ HandlerOf[r] = SnapshotPolicy
        \/ r = "param" /\ HandlerOf[r] = ParamLinker
        \/ r = "image" /\ HandlerOf[r] = ImageDeployer
        \/ r = "services" /\ HandlerOf[r] = TrustedServices
        \/ r = "activator" /\ HandlerOf[r] = RuleSetActivator
        \/ r = "delegation" /\ HandlerOf[r] = Delegation
        \/ r = "share" /\ HandlerOf[r] = PortfolioShare
    <3>1. /\ Range(<< >>) = {} /\ Range(<<"lookup">>) = {"lookup"}
          /\ Range(<<"import">>) = {"import"}
          /\ Range(<<"build", "await", "lookup">>) = {"build", "await", "lookup"}
      BY DEF Range
    <3> QED BY <1>1, <1>2, <1>3, <3>1, OwnProgram
            DEF EndpointLookup, NameLookup, LoadBalancerCertificate, Invocation
  <2>2. r \notin {"repo", "image"} =>
          /\ HandlerOf[r].Create \in {<<"add">>, <<"put">>, <<"some", "put">>}
          /\ HandlerOf[r].Update \in {<<"remove", "add">>, <<"put">>, << >>}
    BY <2>1 DEF SnapshotPolicy, ParamLinker, TrustedServices, RuleSetActivator, Delegation, PortfolioShare
  <2>3. CASE r \notin {"repo", "image"}
    <3>1. Rests(HandlerOf[r].Create) \subseteq
            {<<"add">>, <<"put">>, <<"some", "put">>, << >>}
      BY <2>2, <2>3, ProgramRests
    <3>2. Rests(HandlerOf[r].Update) \subseteq {<<"remove", "add">>, <<"add">>, <<"put">>, << >>}
      BY <2>2, <2>3, ProgramRests
    <3>3. /\ HandlerOf[r].Create \in Writing /\ HandlerOf[r].Update \in Writing \cup {<< >>}
          /\ {<<"add">>, <<"put">>, <<"some", "put">>, <<"remove", "add">>} \subseteq Writing
      BY <2>2, <2>3 DEF Writing
    <3>4. <<"poll">> \notin {<<"add">>, <<"put">>, <<"some", "put">>, <<"remove", "add">>, << >>}
      OBVIOUS
    <3> QED BY <1>1, <2>3, <3>1, <3>2, <3>3, <3>4 DEF Done
  <2>4. CASE r = "repo"
    <3>1. HandlerOf[r].Create = <<"put", "verify">> /\ HandlerOf[r].Update = <<"remove", "put", "verify">>
      BY <2>1, <2>4 DEF SnapshotRepo
    <3> QED BY <1>1, <2>4, <3>1, ProgramRests DEF Writing, Done
  <2>5. CASE r = "image"
    <3>1. /\ HandlerOf[r].Create = <<"build", "poll">> /\ HandlerOf[r].Update = <<"build", "poll">>
          /\ HandlerOf[r] = ImageDeployer
      BY <2>1, <2>5 DEF ImageDeployer
    <3> QED BY <1>1, <2>5, <3>1, ProgramRests DEF Writing, Done
  <2> QED BY <2>3, <2>4, <2>5
<1>4. CASE r \notin DOMAIN Handler
  <2>1. /\ HandlerOf[r].Create \in {<<"add">>, <<"put">>, <<"enroll", "lookup">>}
        /\ HandlerOf[r].Update = <<"put">>
    BY <1>1, <1>4, OtherHandlers DEF Native, Retained, OrgAccount, OrgUnit, BucketDeployment,
       ScalingGroups, DiscoveryService, RuleSet
  <2>2. r # "image"
    BY <1>4 DEF Handler
  <2> QED BY <1>1, <2>1, <2>2, ProgramRests DEF Writing, Done
<1> QED BY <1>3, <1>4

\* Of the resources that a handler writes, only three do nothing when updated.
LEMMA QuietUpdates ==
  ASSUME StackTypeOK, NEW r \in Written, HandlerOf[r].Update = << >>
  PROVE  r \in Quiet
<1>1. r \in AllResources
  BY StackAssumption, NeedsWithin DEF Written, Mine, StackTypeOK
<1>2. {"put", "add", "enroll", "poll"} \cap Range(HandlerOf[r].Create) # {}
  BY DEF Written
<1>3. CASE r \in DOMAIN Handler
  <2>1. \/ r \in Quiet
        \/ HandlerOf[r] = NameLookup
    BY <1>1, <1>3, OwnProgram
       DEF Quiet, SnapshotRepo, SnapshotPolicy, ParamLinker, ImageDeployer, Invocation,
           RuleSetActivator, RootCA, LoadBalancerCertificate, EndpointLookup
  <2>2. Range(<< >>) = {}
    BY DEF Range
  <2> QED BY <1>2, <2>1, <2>2 DEF NameLookup
<1>4. CASE r \notin DOMAIN Handler
  BY <1>1, <1>4, OtherHandlers DEF Native, Retained, OrgAccount, OrgUnit, BucketDeployment,
     ScalingGroups, DiscoveryService, RuleSet
<1> QED BY <1>3, <1>4

\* The build of an image that succeeded has put it there, and is polled once it runs.
BuildKnown ==
  "image" \in Mine =>
    /\ job["image"] = "succeeded" => world["image"][Start.name] = Start.value
    /\ request["image"].todo = <<"poll">> => job["image"] # "none"

LEMMA ImagePolls ==
  ASSUME StackTypeOK, StackIInv, ProgramsFit, StartKept, "image" \in Busy
  PROVE  /\ HandlerOf["image"] = ImageDeployer
         /\ request["image"].todo \in {<<"build", "poll">>, <<"poll">>, << >>}
         /\ Want("image") = Start
<1>1. "image" \in Mine /\ "image" \in AllResources /\ "image" \in DOMAIN Handler
  BY StackAssumption, NeedsWithin DEF Busy, Mine, StackTypeOK, Handler
<1>2. HandlerOf["image"] = ImageDeployer
  BY <1>1, OwnHandlers DEF Handler
<1>3. request["image"].todo \in Rests(<<"build", "poll">>) \cup Rests(<< >>)
  <2>1. request["image"].for \in {"Create", "Update", "Delete"}
    BY <1>1 DEF Busy, StackTypeOK
  <2> QED BY <1>1, <1>2, <2>1 DEF ProgramsFit, ImageDeployer
<1>4. Want("image") = Start
  BY <1>1, StackAssumption DEF Want, StartKept
<1> QED BY <1>2, <1>3, <1>4, ProgramRests

LEMMA BuildKnownKept ==
  ASSUME StackTypeOK, StackIInv, ProgramsFit, StartKept, BuildKnown, Next
  PROVE  BuildKnown'
<1> SUFFICES ASSUME "image" \in Mine
             PROVE  /\ job'["image"] = "succeeded" => world'["image"][Start.name] = Start.value
                    /\ request'["image"].todo = <<"poll">> => job'["image"] # "none"
  BY Moves DEF BuildKnown
<1> DEFINE r == "image"
<1>1. ASSUME r \in Busy, Writes(r)
      PROVE  /\ \A n \in Name : world'[r][n] = world[r][n]
             /\ job'[r] = "running" \/ (job'[r] = job[r] /\ request[r].todo # <<"build", "poll">>)
  <2>1. /\ Head(<<"build", "poll">>) = "build" /\ Head(<<"poll">>) = "poll"
        /\ request[r].todo \in {<<"build", "poll">>, <<"poll">>}
    BY <1>1, ImagePolls DEF Writes, Calling
  <2>2. Op(r) \in {"build", "poll"} /\ (request[r].todo = <<"build", "poll">> => Op(r) = "build")
    BY <2>1 DEF Op
  <2>3. Left(r) = world[r][Want(r).name]
    BY <2>2 DEF Left
  <2> QED BY <1>1, <2>2, <2>3 DEF Writes
<1>2. Start.name \in Name
  BY StackAssumption DEF Props
<1>3. CASE r \in Busy /\ Call(r)
  <2>1. Writes(r) /\ request'[r].todo = Tail(request[r].todo) /\ request[r].todo # << >>
    BY <1>3, Called DEF Writes, Calling
  <2>2. /\ Tail(<<"poll">>) = << >> /\ << >> # <<"poll">>
        /\ request[r].todo \in {<<"build", "poll">>, <<"poll">>}
    BY <1>3, <2>1, ImagePolls
  <2> QED BY <1>1, <1>2, <1>3, <2>1, <2>2 DEF BuildKnown
<1>4. CASE r \in Busy /\ Answer(r)
  <2>1. request'[r].todo = << >> /\ UNCHANGED <<world, job>>
    BY <1>4, Answered DEF Idle
  <2> QED BY <2>1 DEF BuildKnown
<1>5. CASE r \in Busy /\ Failing(r)
  <2>1. request'[r].todo # <<"poll">>
    <3>1. request'[r] = Idle \/ request'[r] = [for |-> "Update", todo |-> HandlerOf[r].Update]
      BY <1>5, Failed
    <3> QED BY <1>5, <3>1, ImagePolls DEF Idle, ImageDeployer
  <2>2. (world'[r] = world[r] /\ job'[r] = job[r]) \/ Writes(r)
    BY <1>5, Failed
  <2> QED BY <1>1, <1>2, <1>5, <2>1, <2>2 DEF BuildKnown
<1>6. CASE AskCreate(r) \/ AskDelete(r) \/ \E p \in Props : AskUpdate(r, p)
  <2>1. UNCHANGED <<world, job>>
    BY <1>6, Asked
  <2>2. HandlerOf[r] = ImageDeployer
    <3>1. r \in AllResources /\ r \in DOMAIN Handler
      BY StackAssumption, NeedsWithin DEF Mine, StackTypeOK, Handler
    <3> QED BY <3>1, OwnHandlers DEF Handler
  <2>3. \E f \in {"Create", "Update", "Delete"} :
          request'[r] = [for |-> f, todo |-> HandlerOf[r][f]]
    BY <1>6, Asked
  <2>4. \A f \in {"Create", "Update", "Delete"} : ImageDeployer[f] # <<"poll">>
    BY DEF ImageDeployer
  <2>5. request'[r].todo # <<"poll">>
    BY <2>2, <2>3, <2>4
  <2> QED BY <2>1, <2>5 DEF BuildKnown
<1>7. CASE EndBuild(r)
  BY <1>7, Built DEF BuildKnown
<1>8. CASE Still(r)
  BY <1>8 DEF Still, BuildKnown
<1> QED BY <1>3, <1>4, <1>5, <1>6, <1>7, <1>8, Fates

\* A handler that is past the call that writes has written what it was called with;
\* what exists has what is on record for it, unless an update of it failed or did
\* nothing.
Serves(r) == world[r][Want(r).name] = Want(r).value
Matching ==
  \A r \in Written :
    /\ request[r].for = "Create" /\ request[r].todo \in Done => Serves(r)
    /\ request[r].for = "Update" /\ request[r].todo \in Done =>
         Serves(r) \/ HandlerOf[r].Update = << >>
    /\ request[r].for = "Update" /\ HandlerOf[r].Update = << >> => stack = "updating"
    /\ has[r] = "exists" /\ request[r].for = "none" =>
         /\ stack \in {"creating", "created", "updating", "updateRollingBack",
                       "updateRolledBack"} => world[r][props[r].name] = props[r].value
         /\ stack = "updated" =>
              world[r][props[r].name] = props[r].value \/ HandlerOf[r].Update = << >>

\* A call that gets a handler past that point writes what it was called with.
LEMMA CallServes ==
  ASSUME StackTypeOK, StackIInv, ProgramsFit, StartKept, BuildKnown, Matching,
         NEW r \in Written, r \in Busy, Call(r), request[r].for \in {"Create", "Update"},
         Tail(request[r].todo) \in Done
  PROVE  Serves(r)' \/ (HandlerOf[r].Update = << >> /\ request[r].for = "Update")
<1>1. /\ r \in Mine /\ Writes(r) /\ ~Waits(r) /\ ~Refused(r) /\ Want(r)' = Want(r)
      /\ request[r].todo # << >>
  BY Called DEF Busy, Writes, Calling
<1>2. request[r].todo \in Writing \cup Done
  BY <1>1, WrittenPrograms DEF ProgramsFit
<1>3. world'[r][Want(r).name] = Left(r)
  BY <1>1 DEF Writes
<1>4. CASE request[r].todo \in {<<"add">>, <<"put">>, <<"put", "verify">>, <<"enroll", "lookup">>}
  <2>1. /\ Head(<<"add">>) = "add" /\ Head(<<"put">>) = "put"
        /\ Head(<<"put", "verify">>) = "put" /\ Head(<<"enroll", "lookup">>) = "enroll"
    OBVIOUS
  <2>2. Op(r) \in {"put", "add", "enroll"}
    BY <1>4, <2>1 DEF Op
  <2>3. Left(r) = Want(r).value
    BY <2>2 DEF Left
  <2> QED BY <1>1, <1>3, <2>3 DEF Serves
<1>5. CASE request[r].todo \in {<<"verify">>, <<"lookup">>}
  <2>1. Head(<<"verify">>) = "verify" /\ Head(<<"lookup">>) = "lookup"
    OBVIOUS
  <2>2. Op(r) \in {"verify", "lookup"}
    BY <1>5, <2>1 DEF Op
  <2>3. Left(r) = world[r][Want(r).name]
    BY <2>2 DEF Left
  <2>4. Serves(r) \/ (HandlerOf[r].Update = << >> /\ request[r].for = "Update")
    BY <1>5 DEF Matching, Done
  <2> QED BY <1>1, <1>3, <2>3, <2>4 DEF Serves
<1>6. CASE request[r].todo = <<"poll">>
  <2>1. r = "image"
    BY <1>1, <1>6, WrittenPrograms DEF ProgramsFit
  <2>2. Head(<<"poll">>) = "poll"
    OBVIOUS
  <2>3. Op(r) = "poll"
    BY <1>6, <2>2 DEF Op
  <2>4. job[r] = "succeeded"
    <3>1. job[r] \in {"none", "running", "succeeded", "failed", "stopped"}
      BY <1>1 DEF StackTypeOK
    <3>2. job[r] \notin {"none", "running", "stopped", "failed"}
      BY <1>1, <1>6, <2>1, <2>3 DEF Waits, Refused, BuildKnown
    <3> QED BY <3>1, <3>2
  <2>5. Want(r) = Start /\ world[r][Start.name] = Start.value
    BY <1>1, <2>1, <2>4, ImagePolls DEF BuildKnown
  <2>6. Left(r) = world[r][Want(r).name]
    BY <2>3 DEF Left
  <2> QED BY <1>1, <1>3, <2>5, <2>6 DEF Serves
<1>7. request[r].todo \notin {<<"build", "poll">>, <<"some", "put">>, <<"remove", "put", "verify">>,
                              <<"remove", "add">>}
  <2>1. /\ Tail(<<"build", "poll">>) = <<"poll">> /\ Tail(<<"some", "put">>) = <<"put">>
        /\ Tail(<<"remove", "put", "verify">>) = <<"put", "verify">>
        /\ Tail(<<"remove", "add">>) = <<"add">>
    OBVIOUS
  <2>2. {<<"poll">>, <<"put">>, <<"put", "verify">>, <<"add">>} \cap Done = {}
    BY DEF Done
  <2> QED BY <2>1, <2>2
<1> QED BY <1>1, <1>2, <1>4, <1>5, <1>6, <1>7 DEF Writing, Done

LEMMA MatchingKept ==
  ASSUME StackTypeOK, StackIInv, ProgramsFit, StartKept, BuildKnown, Matching, Next, StackIInv'
  PROVE  Matching'
<1>0. Written' = Written /\ Written \subseteq Mine
  BY Moves DEF Written
<1> SUFFICES ASSUME NEW r \in Written
             PROVE  /\ request'[r].for = "Create" /\ request'[r].todo \in Done => Serves(r)'
                    /\ request'[r].for = "Update" /\ request'[r].todo \in Done =>
                         Serves(r)' \/ HandlerOf[r].Update = << >>
                    /\ request'[r].for = "Update" /\ HandlerOf[r].Update = << >> =>
                         stack' = "updating"
                    /\ has'[r] = "exists" /\ request'[r].for = "none" =>
                         /\ stack' \in {"creating", "created", "updating", "updateRollingBack",
                                        "updateRolledBack"} =>
                              world'[r][props'[r].name] = props'[r].value
                         /\ stack' = "updated" =>
                              \/ world'[r][props'[r].name] = props'[r].value
                              \/ HandlerOf[r].Update = << >>
  BY <1>0 DEF Matching
<1> DEFINE Sound == {"creating", "created", "updating", "updateRollingBack", "updateRolledBack"}
<1>1. r \in Mine /\ r # "rootCa" /\ HandlerOf[r].Create \in Writing
        /\ HandlerOf[r].Update \in Writing \cup {<< >>}
  BY WrittenPrograms DEF Written
<1>2. Writing \cap Done = {}
  BY DEF Writing, Done
<1>3. /\ stack' \in Sound => stack \in Sound
      /\ stack' = "updated" => stack \in {"updating", "updated"}
      /\ stack' = "updating" => stack \in {"created", "updating"}
  BY Moves
<1>4. CASE r \in Busy /\ Call(r)
  <2>1. /\ request'[r].for = request[r].for /\ request[r].for # "none"
        /\ request'[r].todo = Tail(request[r].todo) /\ stack' = stack
    BY <1>4, Called DEF Busy
  <2> QED BY <1>4, <2>1, CallServes DEF Matching
<1>5. CASE r \in Busy /\ Answer(r)
  <2>1. /\ request[r].todo = << >> /\ request'[r].for = "none" /\ props'[r] = Want(r) /\ world' = world
        /\ has'[r] = IF request[r].for = "Delete" THEN "absent" ELSE "exists"
        /\ request[r].for \in {"Create", "Update", "Delete"}
        /\ stack = "updating" => stack' = "updated"
    BY <1>1, <1>5, Answered DEF Idle, StackTypeOK, Busy
  <2>2. CASE request[r].for = "Create"
    <3>1. Serves(r)
      BY <2>1, <2>2 DEF Matching, Done
    <3> QED BY <2>1, <3>1 DEF Serves
  <2>3. CASE request[r].for = "Update"
    <3>1. Serves(r) \/ (HandlerOf[r].Update = << >> /\ stack' = "updated")
      BY <2>1, <2>3 DEF Matching, Done
    <3> QED BY <2>1, <3>1 DEF Serves
  <2> QED BY <2>1, <2>2, <2>3
<1>6. CASE r \in Busy /\ Failing(r)
  <2>1. has' = has /\ Calling(r)
    BY <1>6, Failed
  <2>2. CASE request[r].for = "Create"
    <3>1. has[r] = "absent"
      BY <1>1, <2>2 DEF StackIInv, RequestsFit
    <3>2. request'[r] = Idle
      BY <1>6, <2>2, Failed
    <3> QED BY <2>1, <3>1, <3>2 DEF Idle
  <2>3. CASE request[r].for = "Update" /\ stack = "updating"
    <3>1. request'[r] = [for |-> "Update", todo |-> HandlerOf[r].Update]
      BY <1>6, <2>3, Failed
    <3>2. HandlerOf[r].Update # << >>
      <4>1. request[r].todo \in Rests(HandlerOf[r].Update) /\ request[r].todo # << >>
        BY <1>1, <2>1, <2>3 DEF ProgramsFit, Calling
      <4> QED BY <4>1, ProgramRests
    <3>3. HandlerOf[r].Update \notin Done
      BY <1>1, <1>2, <3>2
    <3> QED BY <3>1, <3>2, <3>3
  <2>4. CASE request[r].for = "Update" /\ stack = "updateRollingBack"
    <3>1. request'[r] = Idle /\ stack' = "updateRollbackFailed"
      BY <1>6, <2>4, Failed
    <3> QED BY <3>1 DEF Idle
  <2>5. CASE request[r].for = "Delete"
    <3>1. request'[r] = Idle /\ stack' \in {"rollbackFailed", "deleteFailed"}
      BY <1>6, <2>5, Failed
    <3> QED BY <3>1 DEF Idle
  <2>6. \/ request[r].for \in {"Create", "Delete"}
        \/ request[r].for = "Update" /\ stack \in {"updating", "updateRollingBack"}
    BY <1>1, <1>6 DEF StackTypeOK, Busy, StackIInv, RequestsFit
  <2> QED BY <2>2, <2>3, <2>4, <2>5, <2>6
<1>7. CASE AskCreate(r) \/ AskDelete(r) \/ \E p \in Props : AskUpdate(r, p)
  <2>1. \/ request'[r] = [for |-> "Create", todo |-> HandlerOf[r].Create]
        \/ request'[r] = [for |-> "Delete", todo |-> HandlerOf[r].Delete]
        \/ request'[r] = [for |-> "Update", todo |-> HandlerOf[r].Update] /\ stack' = "updating"
    BY <1>1, <1>7, Asked
  <2>2. CASE request'[r] = [for |-> "Create", todo |-> HandlerOf[r].Create]
    BY <1>1, <1>2, <2>2
  <2>3. CASE request'[r] = [for |-> "Update", todo |-> HandlerOf[r].Update] /\ stack' = "updating"
    BY <1>1, <1>2, <2>3
  <2> QED BY <2>1, <2>2, <2>3
<1>8. CASE EndBuild(r) /\ r = "image"
  <2>1. /\ UNCHANGED <<stack, has, request, props, wanted>>
        /\ world'[r] = world[r] \/ world'[r] = [world[r] EXCEPT ![Start.name] = Start.value]
    BY <1>1, <1>8, Built
  <2>2. Want(r) = Start /\ props[r] = Start /\ Want(r)' = Want(r)
    BY <1>1, <1>8, <2>1, StackAssumption DEF StartKept, Want
  <2>3. Start.name \in Name /\ world[r] \in [Name -> Value \cup States]
    BY <1>1, StackAssumption DEF Props, StackTypeOK
  <2>4. /\ Serves(r) => Serves(r)'
        /\ world[r][props[r].name] = props[r].value => world'[r][props'[r].name] = props'[r].value
    BY <2>1, <2>2, <2>3 DEF Serves
  <2> QED BY <2>1, <2>4 DEF Matching
<1>9. CASE Still(r) \/ (EndBuild(r) /\ r # "image")
  <2>1. /\ has'[r] = has[r] /\ request'[r] = request[r] /\ props'[r] = props[r]
        /\ wanted'[r] = wanted[r] /\ world'[r] = world[r]
        /\ request[r].for = "Update" => stack' = stack
    BY <1>1, <1>9, Built DEF Still
  <2>2. request[r].for = "Create" => stack # "updating" /\ stack' # "updating"
    BY <1>1, <1>3 DEF StackIInv, RequestsFit
  <2>3. request[r].for \in {"Create", "Update"} => Want(r)' = Want(r)
    BY <2>1, <2>2 DEF Want
  <2>4. request[r].for \in {"Create", "Update"} => Serves(r)' = Serves(r)
    BY <2>1, <2>3 DEF Serves
  <2> QED BY <1>3, <2>1, <2>4 DEF Matching
<1> QED BY <1>1, <1>4, <1>5, <1>6, <1>7, <1>8, <1>9, Fates

\* The handlers' programs, the properties they are called with and builds, as they
\* are in every state.
THEOREM HandlersKnown ==
  Spec => [](StackTypeOK /\ StackIInv /\ ProgramsFit /\ StartKept /\ BuildKnown)
<1>1. Init => ProgramsFit /\ StartKept /\ BuildKnown
  BY DEF Init, Idle, ProgramsFit, StartKept, BuildKnown
<1>2. /\ StackTypeOK /\ StackIInv /\ ProgramsFit /\ StartKept /\ BuildKnown /\ [Next]_vars
      => ProgramsFit' /\ StartKept' /\ BuildKnown'
  <2>1. CASE UNCHANGED vars
    BY <2>1 DEF vars, ProgramsFit, StartKept, BuildKnown, Mine
  <2> QED BY <2>1, ProgramsFitKept, StartKeptKept, BuildKnownKept
<1> QED BY <1>1, <1>2, StackInvariant, PTL DEF Spec

\* Once a stack is complete, each resource that a handler writes is what CloudFormation
\* has on record for it, unless it is one whose updates do nothing and it was updated.
THEOREM CompleteMatchesCorrect == Spec => []CompleteMatches
<1> DEFINE Known == StackTypeOK /\ StackIInv /\ ProgramsFit /\ StartKept /\ BuildKnown
<1>1. Init => Matching
  BY DEF Init, Idle, Matching, Written
<1>2. Known /\ Matching /\ [Next]_vars /\ Known' => Matching'
  <2>1. CASE UNCHANGED vars
    BY <2>1 DEF vars, Matching, Written, Serves, Want, Mine
  <2> QED BY <2>1, MatchingKept
<1>3. Known /\ Matching => CompleteMatches
  <2> SUFFICES ASSUME Known, Matching, stack \in Complete, NEW r \in Written
               PROVE  \/ world[r][props[r].name] = props[r].value
                      \/ r \in Quiet /\ stack = "updated"
    BY DEF CompleteMatches
  <2>1. r \in Mine /\ has[r] = "exists" /\ request[r].for = "none"
    BY DEF Written, StackIInv, WholeUntilDeleted, Whole, Busy
  <2>2. \/ world[r][props[r].name] = props[r].value
        \/ HandlerOf[r].Update = << >> /\ stack = "updated"
    BY <2>1 DEF Matching, Complete
  <2> QED BY <2>2, QuietUpdates
<1> QED BY <1>1, <1>2, <1>3, HandlersKnown, PTL DEF Spec

----------------------------------------------------------------------------
(* Stacks that are gone *)

\* Resources whose handlers only look something up, or have a build do something.
Silent ==
  {"invocation", "endpoint", "forgeOrg", "registrarOrg", "productId", "substrateNames",
   "controlNames"}

Clear(r) ==
  \A n \in Name :
    world[r][n] \in {"absent", "other"} \cup (IF r = "rootCa" THEN {"pending"} ELSE {})

Tidy == Mine \ (Leaky \cup Silent)

\* Nothing is written under a name that a resource was not created with. What does not
\* exist has nothing under its own name, unless its creation got half-way; what is
\* deleted has nothing there any more.
Cleared ==
  /\ \A r \in Mine \cap Silent : Clear(r)
  /\ \A r \in Mine \cap {"repo", "policy"} :
       /\ props[r].name = Start.name
       /\ request[r].for = "Update" /\ Want(r).name # Start.name =>
            request[r].todo = HandlerOf[r].Update
  /\ \A r \in Tidy :
       /\ \A n \in Name \ {Start.name} :
            world[r][n] = "absent" \/ (r \in Unprefixed /\ world[r][n] = "other")
       /\ /\ r \notin strays
          /\ has[r] = "absent"
          /\ request[r].for = "none" \/ request[r].todo = HandlerOf[r].Create
          => Clear(r)
       /\ request[r].for = "Delete" /\ request[r].todo = << >> => Clear(r)
  /\ stack \in {"rolledBack", "deleted"} =>
       \A r \in Mine : has[r] = "absent" /\ request[r].for = "none"

LEMMA SilentWrites ==
  ASSUME StackTypeOK, ProgramsFit, NEW r \in Mine \cap Silent, r \in Busy, Writes(r)
  PROVE  \A n \in Name : world'[r][n] = world[r][n]
<1>1. /\ r \in AllResources /\ r \in DOMAIN Handler
      /\ request[r].for \in {"Create", "Update", "Delete"}
  BY StackAssumption, NeedsWithin DEF Mine, StackTypeOK, Busy, Silent, Handler
<1>2. HandlerOf[r] \in {Invocation, EndpointLookup, NameLookup}
  BY <1>1, OwnProgram DEF Silent
<1>3. HandlerOf[r][request[r].for] \in
        {<<"build", "await", "lookup">>, <<"refuse">>, <<"lookup">>, << >>}
  BY <1>1, <1>2 DEF Invocation, EndpointLookup, NameLookup
<1>4. request[r].todo \in
        {<<"build", "await", "lookup">>, <<"await", "lookup">>, <<"refuse">>, <<"lookup">>, << >>}
  BY <1>1, <1>3, ProgramRests DEF ProgramsFit
<1>5. /\ Head(<<"build", "await", "lookup">>) = "build" /\ Head(<<"await", "lookup">>) = "await"
      /\ Head(<<"refuse">>) = "refuse" /\ Head(<<"lookup">>) = "lookup"
  OBVIOUS
<1>6. Op(r) \in {"build", "await", "refuse", "lookup"}
  BY <1>4, <1>5 DEF Op, Writes, Calling
<1>7. Left(r) = world[r][Want(r).name]
  BY <1>6 DEF Left
<1> QED BY <1>7 DEF Writes

LEMMA TidyPrograms ==
  ASSUME StackTypeOK, NEW r \in Tidy
  PROVE  /\ r \in Mine /\ r # "image"
         /\ HandlerOf[r].Delete \in
              {<<"remove">>, <<"drain">>, <<"empty">>, <<"retire">>, <<"vacate">>, <<"schedule">>}
         /\ HandlerOf[r].Delete = <<"schedule">> => r = "rootCa"
         /\ r = "rootCa" => HandlerOf[r] = RootCA
         /\ r \in Change => r \in {"repo", "policy", "delegation", "share", "rootCa"}
         /\ r \in {"delegation", "share"} =>
              HandlerOf[r].Update = << >> /\ HandlerOf[r].Delete = <<"remove">>
<1>1. r \in Mine /\ r \in AllResources /\ r \notin Leaky \cup Silent
  BY StackAssumption, NeedsWithin DEF Tidy, Mine, StackTypeOK
<1>2. CASE r \in DOMAIN Handler
  <2>1. r \in {"repo", "policy", "delegation", "share", "rootCa"}
    BY <1>1, <1>2, OwnProgram DEF Leaky, Silent
  <2>2. /\ r = "repo" => HandlerOf[r] = SnapshotRepo
        /\ r = "policy" => HandlerOf[r] = SnapshotPolicy
        /\ r = "delegation" => HandlerOf[r] = Delegation
        /\ r = "share" => HandlerOf[r] = PortfolioShare
        /\ r = "rootCa" => HandlerOf[r] = RootCA
    BY <1>1, <1>2, OwnProgram
  <2> QED BY <1>1, <2>1, <2>2 DEF SnapshotRepo, SnapshotPolicy, Delegation, PortfolioShare, RootCA
<1>3. CASE r \notin DOMAIN Handler
  <2>1. r \notin Change
    BY <1>3, StackAssumption
  <2>2. r \notin Outliving \cup Accounts \cup {"versionAssets"}
    BY <1>1 DEF Leaky, Outliving
  <2>3. HandlerOf[r] \in {Native, OrgUnit, ScalingGroups, DiscoveryService, RuleSet}
    BY <1>1, <1>3, <2>2, OtherHandlers
  <2>4. r \notin {"rootCa", "delegation", "share", "image"}
    BY <1>3 DEF Handler
  <2> QED BY <1>1, <2>1, <2>3, <2>4 DEF Native, OrgUnit, ScalingGroups, DiscoveryService, RuleSet
<1> QED BY <1>2, <1>3

\* A handler writes under the name its resource was created with: where an update or a
\* deletion is to be under another one, its first call is refused.
LEMMA TidyWrites ==
  ASSUME StackTypeOK, StackIInv, ProgramsFit, StartKept, Cleared,
         NEW r \in Tidy, r \in Busy, Writes(r)
  PROVE  Want(r).name = Start.name
<1> SUFFICES ASSUME Want(r).name # Start.name PROVE FALSE
  OBVIOUS
<1>1. /\ r \in Mine /\ Want(r).name \in Name /\ Calling(r) /\ ~Refused(r)
      /\ request[r].for \in {"Create", "Update", "Delete"}
  BY WantTyped, TidyPrograms DEF Props, Writes, StackTypeOK, Busy
<1>2. r \in {"repo", "policy", "delegation", "share", "rootCa"}
  <2>1. r \in Change
    BY <1>1 DEF Want, StartKept
  <2> QED BY <2>1, TidyPrograms
<1>3. r \notin Unprefixed \/ r = "rootCa"
  BY <1>2 DEF Unprefixed, Accounts
<1>4. r # "rootCa" => world[r][Want(r).name] = "absent"
  BY <1>1, <1>3 DEF Cleared
<1>5. Head(<<"remove">>) = "remove" /\ Head(<<"refuse">>) = "refuse" /\ <<"remove">> # << >>
        /\ Head(<<"remove", "put", "verify">>) = "remove" /\ Head(<<"remove", "add">>) = "remove"
  OBVIOUS
<1>6. CASE r = "rootCa"
  <2>1. props[r] = Start /\ (request[r].for = "Update" => request[r].todo = <<"refuse">>)
    BY <1>1, <1>6, TidyPrograms DEF StartKept, ProgramsFit, RootCA
  <2>2. stack = "updating" /\ request[r].for = "Update"
    BY <1>1, <2>1 DEF Want, StackIInv, RequestsFit
  <2> QED BY <1>1, <1>5, <2>1, <2>2 DEF Refused, Op
<1>7. CASE r \in {"delegation", "share"}
  <2>1. HandlerOf[r].Update = << >> /\ HandlerOf[r].Delete = <<"remove">>
    BY <1>7, TidyPrograms
  <2>2. request[r].for # "Update"
    BY <1>1, <2>1, ProgramRests DEF ProgramsFit, Calling
  <2>3. request[r].for # "Create"
    BY <1>1 DEF StackIInv, RequestsFit, StartKept, Want
  <2>4. request[r].todo = <<"remove">>
    BY <1>1, <2>1, <2>2, <2>3, DeleteRests DEF ProgramsFit, Calling
  <2> QED BY <1>1, <1>4, <1>5, <1>7, <2>4 DEF Refused, Op
<1>8. CASE r \in {"repo", "policy"}
  <2>1. request[r].for = "Update" /\ request[r].todo = HandlerOf[r].Update
    BY <1>1, <1>8 DEF Cleared, Want, StackIInv, RequestsFit
  <2>2. /\ r = "repo" => HandlerOf[r] = SnapshotRepo
        /\ r = "policy" => HandlerOf[r] = SnapshotPolicy
    <3>1. r \in AllResources /\ r \in DOMAIN Handler
      BY <1>1, <1>8, StackAssumption, NeedsWithin DEF Mine, StackTypeOK, Handler
    <3> QED BY <3>1, OwnProgram
  <2>3. Op(r) = "remove"
    BY <1>5, <1>8, <2>1, <2>2 DEF Op, SnapshotRepo, SnapshotPolicy
  <2> QED BY <1>1, <1>4, <1>8, <2>3 DEF Refused
<1> QED BY <1>2, <1>6, <1>7, <1>8

LEMMA GoneKept ==
  ASSUME StackTypeOK, StackIInv, Cleared, Next, stack' \in {"rolledBack", "deleted"}
  PROVE  \A r \in Mine : has'[r] = "absent" /\ request'[r].for = "none"
<1>1. CASE stack = stack'
  <2> SUFFICES ASSUME NEW r \in Mine
               PROVE  has'[r] = "absent" /\ request'[r].for = "none"
    OBVIOUS
  <2>1. has[r] = "absent" /\ request[r].for = "none"
    BY <1>1 DEF Cleared
  <2>2. ~(r \in Busy) /\ ~AskCreate(r) /\ ~AskDelete(r) /\ ~\E p \in Props : AskUpdate(r, p)
    BY <1>1, <2>1 DEF Busy, AskCreate, AskDelete, AskUpdate
  <2>3. EndBuild(r) \/ (r = "rootCa" /\ GenerateRootCA) \/ Still(r)
    BY <2>2, Fates
  <2> QED BY <2>1, <2>3 DEF EndBuild, GenerateRootCA, stackVars, Still
<1>2. CASE Settle /\ stack # stack'
  <2>1. Busy = {} /\ \A r \in Mine : has[r] = "absent"
    BY <1>2 DEF Settle
  <2> QED BY <1>2, <2>1 DEF Settle, Busy
<1>3. CASE ~Settle
  <2>1. ASSUME NEW x \in Busy, HandlerProgress(x) \/ Fault(x) PROVE stack' = stack
    <3>1. CASE Call(x) \/ Answer(x)
      BY <3>1, Called, Answered
    <3>2. CASE Failing(x)
      BY <3>2, Failed
    <3> QED BY <2>1, <3>1, <3>2 DEF HandlerProgress, Failing
  <2>2. ASSUME \/ \E x \in Mine : AskCreate(x) \/ AskDelete(x) \/ EndBuild(x)
               \/ \E x \in Mine \cap Change, p \in Props : AskUpdate(x, p)
               \/ DeleteStack
        PROVE  stack' = stack
    BY <2>2 DEF AskCreate, AskDelete, EndBuild, AskUpdate, DeleteStack, stackVars
  <2>3. ASSUME Instances \/ GenerateRootCA \/ \E n \in Node : Draining(n)
        PROVE  stack' = stack
    BY <2>3 DEF Instances, Draining, GenerateRootCA, Launch, DownloadRoot, IssueCert,
       CallRegister, Register, Terminate, Cleanup, stackVars
  <2> QED BY <1>1, <1>3, <2>1, <2>2, <2>3, StepCases
<1> QED BY <1>1, <1>2, <1>3

LEMMA TidyCleared ==
  ASSUME StackTypeOK, StackIInv, ProgramsFit, StartKept, Cleared, Next, strays \subseteq strays',
         NEW r \in Tidy,
         \A n \in Name \ {Start.name} : world'[r][n] \in {"absent", "other"}
  PROVE  /\ /\ r \notin strays'
            /\ has'[r] = "absent"
            /\ request'[r].for = "none" \/ request'[r].todo = HandlerOf[r].Create
            => Clear(r)'
         /\ request'[r].for = "Delete" /\ request'[r].todo = << >> => Clear(r)'
<1>1. /\ r \in Mine /\ r # "image"
      /\ request[r].for \in {"none", "Create", "Update", "Delete"}
  BY TidyPrograms DEF StackTypeOK
<1>2. /\ request[r].for = "Create" => has[r] = "absent"
      /\ request[r].for \in {"Update", "Delete"} => has[r] = "exists"
  BY <1>1 DEF StackIInv, RequestsFit
<1>3. world'[r] = world[r] /\ Clear(r) => Clear(r)'
  BY DEF Clear
<1>4. /\ HandlerOf[r].Create \in Seq(Calls) /\ HandlerOf[r].Delete \in Seq(Calls)
      /\ HandlerOf[r].Delete # << >>
  <2>1. HandlerOf[r].Create \in Seq(Calls) /\ HandlerOf[r].Delete \in Seq(Calls)
    BY <1>1, MineTyped DEF Programs
  <2>2. \A a \in Calls : <<a>> # << >>
    OBVIOUS
  <2> QED BY <2>1, <2>2, TidyPrograms DEF Calls
<1>5. /\ r \notin strays /\ has[r] = "absent" /\ request[r].for = "none" => Clear(r)
      /\ r \notin strays /\ has[r] = "absent" /\ request[r].todo = HandlerOf[r].Create => Clear(r)
      /\ request[r].for = "Delete" /\ request[r].todo = << >> => Clear(r)
  BY DEF Cleared
<1>6. CASE r \in Busy /\ Call(r)
  <2>1. /\ request'[r].for = request[r].for /\ request'[r].todo = Tail(request[r].todo)
        /\ has' = has /\ Writes(r) /\ request[r].todo # << >> /\ request[r].for # "none"
    BY <1>6, Called DEF Writes, Calling, Busy
  <2>2. request[r].for = "Create" => request'[r].todo # HandlerOf[r].Create
    <3> SUFFICES ASSUME request[r].for = "Create"
                 PROVE  request'[r].todo # HandlerOf[r].Create
      OBVIOUS
    <3>1. /\ request[r].todo \in Rests(HandlerOf[r].Create)
      BY <1>1, <2>1 DEF ProgramsFit
    <3>2. /\ request[r].todo \in Seq(Calls)
          /\ Len(request[r].todo) <= Len(HandlerOf[r].Create)
      BY <1>4, <3>1, RestsTail
    <3>3. /\ Len(request[r].todo) \in Nat /\ Len(HandlerOf[r].Create) \in Nat
          /\ Len(Tail(request[r].todo)) = Len(request[r].todo) - 1
      BY <1>4, <2>1, <3>2
    <3>4. Len(request'[r].todo) # Len(HandlerOf[r].Create)
      BY <2>1, <3>2, <3>3
    <3> QED BY <3>4
  <2>3. request[r].for = "Delete" => Clear(r)'
    <3> SUFFICES ASSUME request[r].for = "Delete" PROVE Clear(r)'
      OBVIOUS
    <3>1. request[r].todo = HandlerOf[r].Delete
      <4>1. request[r].todo \in Rests(HandlerOf[r].Delete)
        BY <1>1, <2>1 DEF ProgramsFit
      <4> QED BY <2>1, <4>1, TidyPrograms, DeleteRests
    <3>2. /\ Head(<<"remove">>) = "remove" /\ Head(<<"drain">>) = "drain"
          /\ Head(<<"empty">>) = "empty" /\ Head(<<"retire">>) = "retire"
          /\ Head(<<"vacate">>) = "vacate" /\ Head(<<"schedule">>) = "schedule"
      OBVIOUS
    <3>3. /\ Op(r) \in {"remove", "drain", "empty", "retire", "vacate", "schedule"}
          /\ Op(r) = "schedule" => r = "rootCa"
      BY <3>1, <3>2, TidyPrograms DEF Op
    <3>4. Left(r) = "absent" \/ (r = "rootCa" /\ Left(r) = "pending")
      BY <3>3 DEF Left
    <3>5. world'[r][Start.name] = Left(r)
      BY <1>6, <2>1, TidyWrites DEF Writes
    <3> QED BY <3>4, <3>5 DEF Clear
  <2> QED BY <1>1, <1>2, <2>1, <2>2, <2>3
<1>7. CASE r \in Busy /\ Answer(r)
  <2>1. /\ request[r].todo = << >> /\ request'[r].for = "none" /\ world' = world
        /\ has'[r] = IF request[r].for = "Delete" THEN "absent" ELSE "exists"
    BY <1>7, Answered DEF Idle
  <2> QED BY <1>3, <1>5, <2>1
<1>8. CASE r \in Busy /\ Failing(r)
  <2>1. /\ has' = has
        /\ request'[r].for # "Delete"
        /\ request[r].for = "Create" => r \in strays' \/ (~Begun(r) /\ world'[r] = world[r])
    <3>1. /\ has' = has
          /\ request'[r] = Idle \/ request'[r] = [for |-> "Update", todo |-> HandlerOf[r].Update]
          /\ request[r].for = "Create" => r \in strays' \/ (~Begun(r) /\ world'[r] = world[r])
      BY <1>8, Failed
    <3> QED BY <3>1 DEF Idle
  <2>2. request[r].for = "Create" /\ ~Begun(r) => request[r].todo = HandlerOf[r].Create
    <3> SUFFICES ASSUME request[r].for = "Create", ~Begun(r)
                 PROVE  request[r].todo = HandlerOf[r].Create
      OBVIOUS
    <3>1. request[r].todo \in Rests(HandlerOf[r].Create)
      BY <1>1 DEF ProgramsFit
    <3> QED BY <1>4, <3>1, RestsTail DEF Begun
  <2> QED BY <1>1, <1>2, <1>3, <1>5, <1>8, <2>1, <2>2 DEF Busy
<1>9. CASE AskCreate(r) \/ AskDelete(r) \/ \E p \in Props : AskUpdate(r, p)
  <2>1. UNCHANGED <<has, world>> /\ request[r].for = "none"
    BY <1>1, <1>9, Asked
  <2>2. \/ has[r] = "absent" /\ request'[r] = [for |-> "Create", todo |-> HandlerOf[r].Create]
        \/ has[r] = "exists" /\ request'[r] = [for |-> "Delete", todo |-> HandlerOf[r].Delete]
        \/ has[r] = "exists" /\ request'[r] = [for |-> "Update", todo |-> HandlerOf[r].Update]
    BY <1>1, <1>9, Asked
  <2>3. \/ has[r] = "absent" /\ request'[r].for = "Create"
        \/ has[r] = "exists" /\ request'[r].for = "Delete" /\ request'[r].todo # << >>
        \/ has[r] = "exists" /\ request'[r].for = "Update"
    BY <1>4, <2>2
  <2> QED BY <1>3, <1>5, <2>1, <2>3
<1>10. CASE r = "rootCa" /\ GenerateRootCA
  <2>1. Root \in Value /\ UNCHANGED <<has, request, strays>>
    BY <1>10 DEF GenerateRootCA, Readable, stackVars
  <2>2. ~Clear(r)
    BY <1>10, <2>1, StackAssumption DEF Clear, Root, Props, States
  <2> QED BY <1>5, <2>1, <2>2
<1>11. CASE EndBuild(r) \/ Still(r)
  <2>1. has'[r] = has[r] /\ request'[r] = request[r] /\ world'[r] = world[r]
    BY <1>1, <1>11, Built DEF Still
  <2> QED BY <1>3, <1>5, <2>1
<1> QED BY <1>1, <1>6, <1>7, <1>8, <1>9, <1>10, <1>11, Fates

LEMMA ClearedKept ==
  ASSUME StackTypeOK, StackIInv, ProgramsFit, StartKept, Cleared, Next
  PROVE  Cleared'
<1>1. Mine' = Mine /\ Tidy' = Tidy /\ strays \subseteq strays'
  BY Moves DEF Tidy
<1>2. Start.name \in Name
  BY StackAssumption DEF Props
<1>3. ASSUME NEW r \in Mine \cap Silent
      PROVE  Clear(r)'
  <2>1. r \in Busy /\ Writes(r) => \A n \in Name : world'[r][n] = world[r][n]
    BY SilentWrites
  <2>2. r \in Busy /\ (Call(r) \/ Answer(r) \/ Failing(r)) => \A n \in Name : world'[r][n] = world[r][n]
    BY <2>1, Called, Answered, Failed
  <2>3. AskCreate(r) \/ AskDelete(r) \/ (\E p \in Props : AskUpdate(r, p)) \/ EndBuild(r) \/ Still(r)
          => world'[r] = world[r]
    BY Asked, Built DEF Silent, Still
  <2>4. \A n \in Name : world'[r][n] = world[r][n]
    BY <2>2, <2>3, Fates DEF Silent
  <2> QED BY <2>4 DEF Cleared, Clear
<1>4. ASSUME NEW r \in Mine \cap {"repo", "policy"}
      PROVE  /\ props'[r].name = Start.name
             /\ request'[r].for = "Update" /\ Want(r)'.name # Start.name =>
                  request'[r].todo = HandlerOf[r].Update
  <2>1. r \in Tidy
    BY DEF Tidy, Leaky, Accounts, Silent
  <2>2. CASE r \in Busy /\ Call(r)
    <3>1. Want(r)' = Want(r) /\ props' = props /\ Writes(r)
      BY <2>2, Called
    <3>2. Want(r).name = Start.name
      BY <2>1, <2>2, <3>1, TidyWrites
    <3> QED BY <3>1, <3>2 DEF Cleared
  <2>3. CASE r \in Busy /\ Answer(r)
    <3>1. request[r].todo = << >> /\ request'[r].for = "none" /\ props'[r] = Want(r)
      BY <2>3, Answered DEF Idle
    <3>2. HandlerOf[r].Update # << >>
      <4>1. r \in AllResources /\ r \in DOMAIN Handler
        BY StackAssumption, NeedsWithin DEF Mine, StackTypeOK, Handler
      <4> QED BY <4>1, OwnProgram DEF SnapshotRepo, SnapshotPolicy
    <3>3. request[r].for = "Update" => Want(r).name = Start.name
      BY <3>1, <3>2 DEF Cleared
    <3>4. request[r].for # "Update" => Want(r) = props[r]
      <4>1. request[r].for \in {"Create", "Update", "Delete"}
        BY <2>3 DEF StackTypeOK, Busy
      <4>2. request[r].for # "Update" => stack # "updating"
        BY <4>1 DEF StackIInv, RequestsFit
      <4> QED BY <4>2 DEF Want
    <3> QED BY <3>1, <3>3, <3>4 DEF Cleared
  <2>4. CASE r \in Busy /\ Failing(r)
    <3>1. props' = props
      BY <2>4, Failed
    <3>2. request'[r] = Idle \/ request'[r] = [for |-> "Update", todo |-> HandlerOf[r].Update]
      BY <2>4, Failed
    <3> QED BY <3>1, <3>2 DEF Idle, Cleared
  <2>5. CASE AskCreate(r) \/ AskDelete(r) \/ \E p \in Props : AskUpdate(r, p)
    <3>1. props' = props
      BY <2>5, Asked
    <3>2. \E f \in {"Create", "Update", "Delete"} :
            request'[r] = [for |-> f, todo |-> HandlerOf[r][f]]
      BY <2>5, Asked
    <3>3. PICK f \in {"Create", "Update", "Delete"} :
            request'[r].for = f /\ request'[r].todo = HandlerOf[r][f]
      BY <3>2
    <3> QED BY <3>1, <3>3 DEF Cleared
  <2>6. CASE EndBuild(r) \/ Still(r)
    <3>1. props'[r] = props[r] /\ wanted'[r] = wanted[r] /\ request'[r] = request[r]
            /\ (request[r].for = "Update" => stack' = stack)
      BY <2>6, Built DEF Still
    <3>2. request[r].for = "Update" => Want(r)' = Want(r)
      BY <3>1 DEF Want
    <3> QED BY <3>1, <3>2 DEF Cleared
  <2> QED BY <2>2, <2>3, <2>4, <2>5, <2>6, Fates
<1>5. ASSUME NEW r \in Tidy, NEW n \in Name \ {Start.name}
      PROVE  world'[r][n] = world[r][n]
  <2>1. r \in Busy /\ Writes(r) => world'[r][n] = world[r][n]
    BY TidyWrites DEF Writes
  <2>2. r \in Mine /\ r # "image"
    BY TidyPrograms
  <2>3. r = "rootCa" /\ GenerateRootCA => world'[r][n] = world[r][n]
    BY <2>2 DEF GenerateRootCA, StackTypeOK
  <2> QED BY <2>1, <2>2, <2>3, Fates, Called, Answered, Failed, Asked, Built DEF Still
<1>6. ASSUME NEW r \in Tidy, NEW n \in Name \ {Start.name}
      PROVE  world'[r][n] = "absent" \/ (r \in Unprefixed /\ world'[r][n] = "other")
  BY <1>5, <1>6 DEF Cleared
<1>7. ASSUME NEW r \in Tidy
      PROVE  /\ /\ r \notin strays'
                /\ has'[r] = "absent"
                /\ request'[r].for = "none" \/ request'[r].todo = HandlerOf[r].Create
                => Clear(r)'
             /\ request'[r].for = "Delete" /\ request'[r].todo = << >> => Clear(r)'
  BY <1>1, <1>6, <1>7, TidyCleared
<1> QED BY <1>1, <1>3, <1>4, <1>6, <1>7, GoneKept DEF Cleared

\* A stack that is rolled back or deleted has left nothing in any service, but for what
\* its handlers are known not to delete, what a handler had written before its creation
\* failed, and the name of the root CA's secret.
THEOREM LeavesNothingCorrect == Spec => []LeavesNothing
<1> DEFINE Known == StackTypeOK /\ StackIInv /\ ProgramsFit /\ StartKept /\ BuildKnown
<1>1. Init => Cleared
  <2> SUFFICES ASSUME Init PROVE Cleared
    OBVIOUS
  <2>1. /\ \A r \in Mine : request[r].for = "none" /\ props[r] = Start
        /\ stack = "creating" /\ wanted = props
    BY DEF Init, Idle
  <2>2. ASSUME NEW r \in Mine, NEW n \in Name
        PROVE  world[r][n] = "absent" \/ (r \in Unprefixed /\ world[r][n] = "other")
    BY <2>2 DEF Init
  <2>3. \A r \in Mine : Clear(r)
    BY <2>2 DEF Clear
  <2> QED BY <2>1, <2>2, <2>3 DEF Cleared, Tidy
<1>2. Known /\ Cleared /\ [Next]_vars => Cleared'
  <2>1. CASE UNCHANGED vars
    BY <2>1 DEF vars, Cleared, Clear, Tidy, Want, Mine
  <2> QED BY <2>1, ClearedKept
<1>3. Cleared => LeavesNothing
  <2> SUFFICES ASSUME Cleared, stack \in {"rolledBack", "deleted"},
                      NEW r \in Mine \ (Leaky \cup strays)
               PROVE  Clear(r)
    BY DEF LeavesNothing, Clear
  <2>1. r \in Silent \/ r \in Tidy
    BY DEF Tidy
  <2> QED BY <2>1 DEF Cleared
<1> QED BY <1>1, <1>2, <1>3, HandlersKnown, PTL DEF Spec

----------------------------------------------------------------------------
(* Why operations fail *)

\* Resources of the same stack that a failure depends on.
LEMMA Companions ==
  ASSUME StackTypeOK
  PROVE  /\ "lbCert" \in Mine => "rootCa" \in Needs["lbCert"] /\ "rootCa" \in Mine
         /\ "service" \in Mine => "cleanup" \in Dependents["service"] /\ "cleanup" \in Mine
         /\ "ruleSet" \in Mine => "activator" \in Mine
         /\ "managementOu" \in Mine => Accounts \subseteq Mine
         /\ "repo" \in Mine => "repoAccess" \in Mine
<1>1. Mine \subseteq AllResources
  BY StackAssumption, NeedsWithin DEF Mine, StackTypeOK
<1>2. "lbCert" \in Mine => "rootCa" \in Needs["lbCert"]
  BY <1>1, CertificateNeeds
<1>3. "service" \in Mine => "cleanup" \in Dependents["service"]
  <2>1. <<"cleanup", "service">> \in Uses
    BY DEF Uses, ClusterProduct, ControlPlaneStack, RegistrationCleanup
  <2>2. "cleanup" \in AllResources
    BY DEF AllResources, ResourcesOf, Templates, ControlPlane
  <2> QED BY <1>1, <2>1, <2>2 DEF Dependents
<1>4. "ruleSet" \in Mine => "activator" \in Dependents["ruleSet"]
  <2>1. <<"activator", "ruleSet">> \in Uses
    BY DEF Uses, OrganizationStacks, Activation
  <2>2. "activator" \in AllResources
    BY DEF AllResources, ResourcesOf, Templates, Mailbox
  <2> QED BY <1>1, <2>1, <2>2 DEF Dependents
<1>5. "managementOu" \in Mine => Accounts \subseteq Dependents["managementOu"]
  <2>1. Accounts \X {"managementOu"} \subseteq Uses
    BY DEF Uses, OrganizationStacks, ProvisionerStack, AdmiralFleet
  <2>2. Accounts \subseteq AllResources
    BY DEF AllResources, ResourcesOf, Templates, Provisioner
  <2> QED BY <1>1, <2>1, <2>2 DEF Dependents
<1>6. "repo" \in Mine => "bucket" \in Needs["repo"] /\ "repoAccess" \in Dependents["bucket"]
  <2>1. <<"repo", "bucket">> \in Uses /\ <<"repoAccess", "bucket">> \in Uses
    BY DEF Uses, ManagementStack, S3SnapshotRepo
  <2>2. "bucket" \in AllResources /\ "repoAccess" \in AllResources
    BY DEF AllResources, ResourcesOf, Templates, Management
  <2> QED BY <1>1, <2>1, <2>2 DEF Needs, Dependents
<1> QED BY <1>2, <1>3, <1>4, <1>5, <1>6, MineWithin

\* What is deleted by a call of its own is what the preceding section is about.
LEMMA DeletingTidy ==
  ASSUME StackTypeOK, NEW r \in Mine, HandlerOf[r].Delete # << >>
  PROVE  /\ r \in Tidy
         /\ HandlerOf[r].Delete \in {<<"remove">>, <<"schedule">>} => r \in Written \cup {"rootCa"}
         /\ HandlerOf[r].Delete = <<"empty">> => r = "service"
         /\ HandlerOf[r].Delete = <<"retire">> => r = "ruleSet"
         /\ HandlerOf[r].Delete = <<"vacate">> => r = "managementOu"
<1>1. r \in AllResources
  BY StackAssumption, NeedsWithin DEF Mine, StackTypeOK
<1>2. Range(<<"put", "verify">>) = {"put", "verify"} /\ Range(<<"add">>) = {"add"}
        /\ Range(<<"put">>) = {"put"}
  BY DEF Range
<1>3. CASE r \in DOMAIN Handler
  <2>1. \/ r = "repo" /\ HandlerOf[r] = SnapshotRepo
        \/ r = "policy" /\ HandlerOf[r] = SnapshotPolicy
        \/ r = "rootCa" /\ HandlerOf[r] = RootCA
        \/ r = "delegation" /\ HandlerOf[r] = Delegation
        \/ r = "share" /\ HandlerOf[r] = PortfolioShare
    BY <1>1, <1>3, OwnProgram
       DEF ParamLinker, ImageDeployer, Invocation, TrustedServices, RuleSetActivator,
           LoadBalancerCertificate, EndpointLookup, NameLookup
  <2>2. r \in Tidy
    BY <2>1 DEF Tidy, Leaky, Accounts, Silent
  <2>3. HandlerOf[r].Delete \in {<<"remove">>, <<"schedule">>}
    BY <2>1 DEF SnapshotRepo, SnapshotPolicy, RootCA, Delegation, PortfolioShare
  <2>4. r # "rootCa" => Range(HandlerOf[r].Create) \cap {"put", "add"} # {}
    <3>1. r # "rootCa" => HandlerOf[r].Create \in {<<"put", "verify">>, <<"add">>, <<"put">>}
      BY <2>1 DEF SnapshotRepo, SnapshotPolicy, Delegation, PortfolioShare
    <3>2. \A p \in {<<"put", "verify">>, <<"add">>, <<"put">>} : Range(p) \cap {"put", "add"} # {}
      BY <1>2
    <3> QED BY <3>1, <3>2
  <2> QED BY <2>2, <2>3, <2>4 DEF Written
<1>4. CASE r \notin DOMAIN Handler
  <2>1. r \notin Outliving \cup Accounts \cup {"versionAssets"}
    BY <1>1, <1>4, OtherHandlers DEF Retained, OrgAccount, BucketDeployment, Outliving, Accounts
  <2>2. HandlerOf[r] = IF r = "managementOu" THEN OrgUnit
                       ELSE IF r = "asgs" THEN ScalingGroups
                       ELSE IF r = "service" THEN DiscoveryService
                       ELSE IF r = "ruleSet" THEN RuleSet ELSE Native
    BY <1>1, <1>4, <2>1, OtherHandlers
  <2>3. r \notin {"param", "services", "lbCert", "image", "activator"} \cup Silent
    BY <1>4 DEF Handler, Silent
  <2>4. r \in Tidy
    BY <2>1, <2>3 DEF Tidy, Leaky, Outliving
  <2>5. Range(HandlerOf[r].Create) = {"add"}
    BY <1>2, <2>2 DEF OrgUnit, ScalingGroups, DiscoveryService, RuleSet, Native
  <2>6. r # "rootCa"
    BY <1>4 DEF Handler
  <2> QED BY <2>2, <2>4, <2>5, <2>6 DEF Written, OrgUnit, ScalingGroups, DiscoveryService, RuleSet, Native
<1> QED BY <1>3, <1>4

\* What it takes to create a resource, but for those that something else may fail for.
LEMMA CreatePrograms ==
  ASSUME StackTypeOK, NEW r \in Mine, r \notin {"repo", "image", "invocation"} \cup Accounts
  PROVE  /\ HandlerOf[r].Create \in
               {<<"add">>, <<"put">>, <<"some", "put">>, <<"lookup">>, <<"import">>, << >>}
         /\ HandlerOf[r].Create = <<"import">> => r = "lbCert"
<1>1. r \in AllResources
  BY StackAssumption, NeedsWithin DEF Mine, StackTypeOK
<1>2. CASE r \in DOMAIN Handler
  BY <1>1, <1>2, OwnProgram
     DEF SnapshotPolicy, ParamLinker, TrustedServices, RuleSetActivator, RootCA,
         LoadBalancerCertificate, Delegation, PortfolioShare, EndpointLookup, NameLookup
<1>3. CASE r \notin DOMAIN Handler
  <2>1. HandlerOf[r] \in {Retained, OrgUnit, BucketDeployment, ScalingGroups, DiscoveryService,
                         RuleSet, Native}
    BY <1>1, <1>3, OtherHandlers
  <2> QED BY <2>1 DEF Retained, OrgUnit, BucketDeployment, ScalingGroups, DiscoveryService, RuleSet, Native
<1> QED BY <1>2, <1>3

\* Nothing of a resource is there before its handler begins, but for a name that was
\* taken. A policy is only posted where there is none; the secret of the root CA is
\* there once its handler is through; only instances that came up are registered.
Unstarted(r) ==
  \/ stack = "creating" /\ request[r].for = "none"
  \/ request[r].for = "Create" /\ request[r].todo = HandlerOf[r].Create
Undisturbed ==
  /\ \A r \in Mine \ {"image"} : has[r] = "absent" /\ Unstarted(r) =>
       world[r][Start.name] = "absent" \/ (r \in Unprefixed /\ world[r][Start.name] = "other")
  /\ \A r \in Mine : request[r].for = "Update" /\ request[r].todo = <<"add">> =>
       world[r][Want(r).name] = "absent"
  /\ "rootCa" \in Mine /\ request["rootCa"].for = "Create" /\ request["rootCa"].todo = << >> =>
       world["rootCa"][Start.name] # "absent"
  /\ \A n \in Node : entry[n] # "none" => node[n] \in {"up", "gone", "forgotten"}

\* Unless a call has failed, what exists and can be deleted is there to be deleted,
\* except after an update that did nothing.
Standing ==
  faults = 0 =>
    \A r \in Mine :
      /\ HandlerOf[r].Delete \in {<<"remove">>, <<"schedule">>}
      /\ has[r] = "exists"
      /\ request[r].for = "none" \/ request[r].todo = HandlerOf[r][request[r].for]
      /\ HandlerOf[r].Update # << >> \/ props[r] = Start
      => world[r][props[r].name] # "absent"

\* A creation that was refused.
LEMMA CreationFails ==
  ASSUME StackTypeOK, StackIInv, ProgramsFit, StartKept, Undisturbed,
         NEW r \in Busy, request[r].for = "Create", Calling(r), Refused(r) \/ Op(r) = "poll"
  PROVE  \/ r \in {"repo", "image", "invocation"} \cup Accounts
         \/ r \in Unprefixed /\ world[r][Start.name] = "other"
         \/ r = "lbCert" /\ ~Readable /\ request["rootCa"].for # "Create"
<1> SUFFICES ASSUME r \notin {"repo", "image", "invocation"} \cup Accounts
             PROVE  \/ r \in Unprefixed /\ world[r][Start.name] = "other"
                    \/ r = "lbCert" /\ ~Readable /\ request["rootCa"].for # "Create"
  OBVIOUS
<1>1. r \in Mine /\ has[r] = "absent" /\ stack \in {"creating", "rollingBack"}
  BY DEF Busy, StackIInv, RequestsFit
<1>2. Want(r) = Start
  BY <1>1 DEF StartKept, Want
<1>3. request[r].todo # << >> /\ request[r].todo \in Rests(HandlerOf[r].Create)
  BY <1>1 DEF Calling, ProgramsFit
<1>4. \/ request[r].todo = <<"add">> /\ HandlerOf[r].Create = <<"add">>
      \/ request[r].todo \in {<<"put">>, <<"some", "put">>, <<"lookup">>}
      \/ request[r].todo = <<"import">> /\ r = "lbCert"
  BY <1>1, <1>3, CreatePrograms, ProgramRests
<1>5. /\ Head(<<"add">>) = "add" /\ Head(<<"put">>) = "put" /\ Head(<<"some", "put">>) = "some"
      /\ Head(<<"lookup">>) = "lookup" /\ Head(<<"import">>) = "import"
  OBVIOUS
<1>6. CASE request[r].todo = <<"add">> /\ HandlerOf[r].Create = <<"add">>
  <2>1. Op(r) = "add"
    BY <1>5, <1>6 DEF Op
  <2>2. world[r][Start.name] # "absent"
    BY <1>2, <2>1 DEF Refused
  <2> QED BY <1>1, <1>6, <2>2 DEF Undisturbed, Unstarted
<1>7. CASE request[r].todo \in {<<"put">>, <<"some", "put">>, <<"lookup">>}
  <2>1. Op(r) \in {"put", "some", "lookup"}
    BY <1>5, <1>7 DEF Op
  <2> QED BY <2>1 DEF Refused
<1>8. CASE request[r].todo = <<"import">> /\ r = "lbCert"
  <2>1. Op(r) = "import"
    BY <1>5, <1>8 DEF Op
  <2>2. ~Readable
    BY <2>1 DEF Refused
  <2>3. has["rootCa"] = "exists" /\ "rootCa" \in Mine
    BY <1>1, <1>8, Companions DEF StackIInv, KeptInOrder
  <2>4. request["rootCa"].for # "Create"
    BY <2>3 DEF StackIInv, RequestsFit
  <2> QED BY <1>8, <2>2, <2>4
<1> QED BY <1>4, <1>6, <1>7, <1>8

\* An update that was refused, before it had done anything.
LEMMA UpdateFails ==
  ASSUME StackTypeOK, StackIInv, ProgramsFit, StartKept, Undisturbed, Standing, faults = 0,
         NEW r \in Busy, request[r].for = "Update", Calling(r), Refused(r) \/ Op(r) = "poll"
  PROVE  /\ request[r].todo = HandlerOf[r].Update
         /\ \/ HandlerOf[r].Update = <<"refuse">>
            \/ /\ stack = "updating"
               /\ r \in {"repo", "policy"} /\ wanted[r].name # props[r].name
<1>1. /\ r \in Mine /\ has[r] = "exists" /\ stack \in {"updating", "updateRollingBack"}
      /\ request[r].todo # << >> /\ request[r].todo \in Rests(HandlerOf[r].Update)
  BY DEF Busy, StackIInv, RequestsFit, Calling, ProgramsFit
<1>2. /\ r \in AllResources /\ r \in DOMAIN Handler /\ r # "image"
  BY <1>1, StackAssumption, NeedsWithin DEF StartKept, Mine, StackTypeOK
<1>3. CASE HandlerOf[r].Update = <<"refuse">>
  BY <1>1, <1>3 DEF ProgramsFit
<1>4. /\ Head(<<"remove", "put", "verify">>) = "remove" /\ Head(<<"put", "verify">>) = "put"
      /\ Head(<<"verify">>) = "verify" /\ Head(<<"remove", "add">>) = "remove"
      /\ Head(<<"add">>) = "add" /\ Head(<<"put">>) = "put" /\ Head(<<"lookup">>) = "lookup"
  OBVIOUS
<1>5. ASSUME r \in {"repo", "policy"}, Op(r) = "remove", request[r].todo = HandlerOf[r].Update,
             HandlerOf[r].Delete = <<"remove">>
      PROVE  stack = "updating" /\ wanted[r].name # props[r].name
  <2>1. world[r][Want(r).name] = "absent"
    BY <1>5 DEF Refused
  <2>2. world[r][props[r].name] # "absent"
    BY <1>1, <1>5 DEF Standing
  <2> QED BY <1>1, <2>1, <2>2 DEF Want
<1>6. CASE r = "repo"
  <2>1. HandlerOf[r] = SnapshotRepo
    BY <1>2, <1>6, OwnProgram
  <2>2. request[r].todo \in {<<"remove", "put", "verify">>, <<"put", "verify">>, <<"verify">>}
    BY <1>1, <2>1, ProgramRests DEF SnapshotRepo
  <2>3. request[r].todo # <<"put", "verify">>
    <3>1. request[r].todo = <<"put", "verify">> => Op(r) = "put"
      BY <1>4 DEF Op
    <3> QED BY <3>1 DEF Refused
  <2>4. request[r].todo # <<"verify">>
    <3>1. request[r].todo = <<"verify">> => Op(r) = "verify"
      BY <1>4 DEF Op
    <3>2. has["repoAccess"] = "exists"
      BY <1>1, <1>6, Companions DEF StackIInv, WholeUntilDeleted, Whole
    <3> QED BY <3>1, <3>2 DEF Refused
  <2>5. /\ request[r].todo = HandlerOf[r].Update /\ Op(r) = "remove"
        /\ HandlerOf[r].Delete = <<"remove">>
    BY <1>4, <2>1, <2>2, <2>3, <2>4 DEF SnapshotRepo, Op
  <2> QED BY <1>5, <1>6, <2>5
<1>7. CASE r = "policy"
  <2>1. HandlerOf[r] = SnapshotPolicy
    BY <1>2, <1>7, OwnProgram
  <2>2. request[r].todo \in {<<"remove", "add">>, <<"add">>}
    BY <1>1, <2>1, ProgramRests DEF SnapshotPolicy
  <2>3. request[r].todo # <<"add">>
    <3>1. request[r].todo = <<"add">> => Op(r) = "add" /\ world[r][Want(r).name] = "absent"
      BY <1>1, <1>4 DEF Op, Undisturbed
    <3> QED BY <3>1 DEF Refused
  <2>4. /\ request[r].todo = HandlerOf[r].Update /\ Op(r) = "remove"
        /\ HandlerOf[r].Delete = <<"remove">>
    BY <1>4, <2>1, <2>2, <2>3 DEF SnapshotPolicy, Op
  <2> QED BY <1>5, <1>7, <2>4
<1>8. CASE r \notin {"repo", "policy"} /\ HandlerOf[r].Update # <<"refuse">>
  <2>1. HandlerOf[r].Update \in {<<"put">>, <<"lookup">>, << >>}
    BY <1>2, <1>8, OwnProgram
       DEF ParamLinker, Invocation, TrustedServices, RuleSetActivator, RootCA,
           LoadBalancerCertificate, Delegation, PortfolioShare, EndpointLookup, NameLookup
  <2>2. request[r].todo \in {<<"put">>, <<"lookup">>}
    BY <1>1, <2>1, ProgramRests
  <2>3. Op(r) \in {"put", "lookup"}
    BY <1>4, <2>2 DEF Op
  <2> QED BY <2>3 DEF Refused
<1> QED BY <1>3, <1>6, <1>7, <1>8

\* A deletion that was refused.
LEMMA DeletionFails ==
  ASSUME StackTypeOK, StackIInv, ProgramsFit, StartKept, Standing, faults = 0,
         NEW r \in Busy, request[r].for = "Delete", Calling(r), Refused(r) \/ Op(r) = "poll"
  PROVE  \/ /\ r = "service" /\ has["cleanup"] = "absent" /\ request["cleanup"].for = "none"
            /\ \E n \in Node : entry[n] = "registered"
         \/ r = "ruleSet" /\ Activated
         \/ r = "managementOu" /\ Occupied
         \/ HandlerOf[r].Update = << >> /\ props[r] # Start
<1>1. /\ r \in Mine /\ has[r] = "exists" /\ Want(r) = props[r]
      /\ request[r].todo # << >> /\ request[r].todo \in Rests(HandlerOf[r].Delete)
  BY DEF Busy, StackIInv, RequestsFit, Calling, ProgramsFit, Want
<1>2. HandlerOf[r].Delete # << >>
  BY <1>1, ProgramRests
<1>3. HandlerOf[r].Delete \in
        {<<"remove">>, <<"drain">>, <<"empty">>, <<"retire">>, <<"vacate">>, <<"schedule">>}
  BY <1>1, <1>2, DeletingTidy, TidyPrograms
<1>4. request[r].todo = HandlerOf[r].Delete
  BY <1>1, <1>3, DeleteRests
<1>5. /\ Head(<<"remove">>) = "remove" /\ Head(<<"drain">>) = "drain"
      /\ Head(<<"empty">>) = "empty" /\ Head(<<"retire">>) = "retire"
      /\ Head(<<"vacate">>) = "vacate" /\ Head(<<"schedule">>) = "schedule"
  OBVIOUS
<1>6. CASE HandlerOf[r].Delete \in {<<"remove">>, <<"schedule">>}
  <2>1. Op(r) \in {"remove", "schedule"}
    BY <1>4, <1>5, <1>6 DEF Op
  <2>2. world[r][props[r].name] = "absent"
    BY <1>1, <2>1 DEF Refused
  <2> QED BY <1>1, <1>4, <1>6, <2>2 DEF Standing
<1>7. CASE HandlerOf[r].Delete = <<"drain">>
  <2>1. Op(r) = "drain"
    BY <1>4, <1>5, <1>7 DEF Op
  <2> QED BY <2>1 DEF Refused
<1>8. CASE HandlerOf[r].Delete = <<"empty">>
  <2>1. Op(r) = "empty" /\ r = "service"
    BY <1>1, <1>4, <1>5, <1>8, <1>2, DeletingTidy DEF Op
  <2>2. has["cleanup"] = "absent" /\ request["cleanup"].for = "none"
    BY <1>1, <2>1, Companions DEF StackIInv, KeptInOrder
  <2> QED BY <2>1, <2>2 DEF Refused
<1>9. CASE HandlerOf[r].Delete = <<"retire">>
  <2>1. Op(r) = "retire" /\ r = "ruleSet"
    BY <1>1, <1>4, <1>5, <1>9, <1>2, DeletingTidy DEF Op
  <2> QED BY <2>1 DEF Refused
<1>10. CASE HandlerOf[r].Delete = <<"vacate">>
  <2>1. Op(r) = "vacate" /\ r = "managementOu"
    BY <1>1, <1>4, <1>5, <1>10, <1>2, DeletingTidy DEF Op
  <2> QED BY <2>1 DEF Refused
<1> QED BY <1>3, <1>6, <1>7, <1>8, <1>9, <1>10

\* A handler that has begun has less to do than its program.
LEMMA Shorter ==
  ASSUME StackTypeOK, ProgramsFit, NEW r \in Busy, request[r].todo # << >>
  PROVE  Tail(request[r].todo) # HandlerOf[r][request[r].for]
<1>1. /\ request[r].for \in {"Create", "Update", "Delete"} /\ r \in Mine
      /\ request[r].todo \in Rests(HandlerOf[r][request[r].for])
  BY DEF Busy, StackTypeOK, ProgramsFit
<1>2. HandlerOf[r][request[r].for] \in Seq(Calls)
  BY <1>1, MineTyped DEF Programs
<1>3. /\ request[r].todo \in Seq(Calls)
      /\ request[r].todo = HandlerOf[r][request[r].for]
           \/ Len(request[r].todo) < Len(HandlerOf[r][request[r].for])
  BY <1>1, <1>2, RestsTail
<1>4. /\ Len(request[r].todo) \in Nat /\ Len(HandlerOf[r][request[r].for]) \in Nat
      /\ Len(Tail(request[r].todo)) = Len(request[r].todo) - 1
  BY <1>2, <1>3
<1>5. Len(Tail(request[r].todo)) # Len(HandlerOf[r][request[r].for])
  BY <1>3, <1>4
<1> QED BY <1>5

LEMMA UntouchedKept ==
  ASSUME StackTypeOK, StackIInv, ProgramsFit, Undisturbed, Next,
         NEW r \in Mine, r # "image", has'[r] = "absent",
         \/ stack' = "creating" /\ request'[r].for = "none"
         \/ request'[r].for = "Create" /\ request'[r].todo = HandlerOf[r].Create
  PROVE  world'[r][Start.name] = "absent" \/ (r \in Unprefixed /\ world'[r][Start.name] = "other")
<1>1. stack' = "creating" => stack = "creating"
  BY Moves
<1>2. has[r] = "absent" /\ Unstarted(r) =>
        world[r][Start.name] = "absent" \/ (r \in Unprefixed /\ world[r][Start.name] = "other")
  BY DEF Undisturbed
<1>3. /\ request[r].for = "Delete" => stack # "creating"
      /\ request[r].for \in {"Update", "Delete"} => has[r] = "exists"
  BY DEF StackIInv, RequestsFit
<1>4. ~(r \in Busy /\ Call(r))
  <2> SUFFICES ASSUME r \in Busy, Call(r) PROVE FALSE
    OBVIOUS
  <2>1. /\ request'[r].for = request[r].for /\ request'[r].todo = Tail(request[r].todo)
        /\ request[r].todo # << >> /\ request[r].for # "none"
    BY Called DEF Writes, Calling, Busy
  <2> QED BY <2>1, Shorter
<1>5. ~(r \in Busy /\ Answer(r))
  <2> SUFFICES ASSUME r \in Busy, Answer(r) PROVE FALSE
    OBVIOUS
  <2>1. /\ request'[r].for = "none"
        /\ has'[r] = IF request[r].for = "Delete" THEN "absent" ELSE "exists"
    BY Answered DEF Idle
  <2> QED BY <1>1, <1>3, <2>1
<1>6. ~(r \in Busy /\ Failing(r))
  <2> SUFFICES ASSUME r \in Busy, Failing(r) PROVE FALSE
    OBVIOUS
  <2>1. /\ stack' # "creating"
        /\ request'[r] = Idle \/ request'[r] = [for |-> "Update", todo |-> HandlerOf[r].Update]
    BY Failed
  <2> QED BY <2>1 DEF Idle
<1>7. CASE AskCreate(r) \/ AskDelete(r) \/ \E p \in Props : AskUpdate(r, p)
  <2>1. /\ UNCHANGED <<has, world>> /\ request[r].for = "none"
        /\ has[r] = "absent" => stack = "creating"
    BY <1>7, Asked
  <2> QED BY <1>2, <2>1 DEF Unstarted
<1>8. CASE r = "rootCa" /\ GenerateRootCA
  <2>1. Root \in Value /\ UNCHANGED <<has, request, stack>>
    BY <1>8 DEF GenerateRootCA, Readable, stackVars
  <2>2. world[r][Start.name] \notin {"absent", "other"}
    BY <1>8, <2>1, StackAssumption DEF Root, States
  <2> QED BY <1>2, <2>1, <2>2 DEF Unstarted
<1>9. CASE EndBuild(r) \/ Still(r)
  <2>1. has'[r] = has[r] /\ request'[r] = request[r] /\ world'[r] = world[r]
    BY <1>9, Built DEF Still
  <2> QED BY <1>1, <1>2, <2>1 DEF Unstarted
<1> QED BY <1>4, <1>5, <1>6, <1>7, <1>8, <1>9, Fates

\* A policy that an update posts was deleted by the call before.
LEMMA ReplacingKept ==
  ASSUME StackTypeOK, StackIInv, ProgramsFit, StartKept, Undisturbed, Next,
         NEW r \in Mine, request'[r].for = "Update", request'[r].todo = <<"add">>
  PROVE  world'[r][Want(r)'.name] = "absent"
<1>1. CASE r \in Change
  <2>1. r \in AllResources /\ r \in DOMAIN Handler /\ r # "image"
    BY <1>1, StackAssumption, NeedsWithin DEF Mine, StackTypeOK
  <2>2. /\ HandlerOf[r].Update \in {<<"remove", "put", "verify">>, <<"remove", "add">>, <<"put">>,
                                   <<"refuse">>, << >>, <<"lookup">>}
        /\ HandlerOf[r].Update # <<"add">>
    BY <2>1, OwnProgram
       DEF SnapshotRepo, SnapshotPolicy, ParamLinker, Invocation, TrustedServices,
           RuleSetActivator, RootCA, LoadBalancerCertificate, Delegation, PortfolioShare,
           EndpointLookup, NameLookup
  <2>3. CASE r \in Busy /\ Call(r)
    <3>1. /\ request[r].for = "Update" /\ Tail(request[r].todo) = <<"add">>
          /\ request[r].todo # << >> /\ Writes(r) /\ Want(r)' = Want(r)
      BY <2>3, Called DEF Writes, Calling
    <3>2. request[r].todo \in Rests(HandlerOf[r].Update)
      BY <3>1 DEF ProgramsFit
    <3>3. /\ Tail(<<"remove", "put", "verify">>) = <<"put", "verify">>
          /\ Tail(<<"put", "verify">>) = <<"verify">> /\ Tail(<<"verify">>) = << >>
          /\ Tail(<<"add">>) = << >> /\ Tail(<<"put">>) = << >> /\ Tail(<<"refuse">>) = << >>
          /\ Tail(<<"lookup">>) = << >> /\ Head(<<"remove", "add">>) = "remove"
      OBVIOUS
    <3>4. request[r].todo = <<"remove", "add">>
      <4>1. request[r].todo \in
              {<<"remove", "put", "verify">>, <<"put", "verify">>, <<"verify">>, <<"put">>,
               <<"remove", "add">>, <<"add">>, <<"refuse">>, <<"lookup">>}
        BY <2>2, <3>1, <3>2, ProgramRests
      <4>2. <<"add">> \notin {<<"put", "verify">>, <<"verify">>, << >>}
        OBVIOUS
      <4> QED BY <3>1, <3>3, <4>1, <4>2
    <3>5. Left(r) = "absent"
      BY <3>3, <3>4 DEF Left, Op
    <3> QED BY <3>1, <3>5 DEF Writes
  <2>4. ~(r \in Busy /\ (Answer(r) \/ Failing(r)))
    <3> SUFFICES ASSUME r \in Busy, Answer(r) \/ Failing(r) PROVE FALSE
      OBVIOUS
    <3>1. request'[r] = Idle \/ request'[r] = [for |-> "Update", todo |-> HandlerOf[r].Update]
      BY Answered, Failed
    <3> QED BY <2>2, <3>1 DEF Idle
  <2>5. ~(AskCreate(r) \/ AskDelete(r) \/ \E p \in Props : AskUpdate(r, p))
    <3> SUFFICES ASSUME AskCreate(r) \/ AskDelete(r) \/ \E p \in Props : AskUpdate(r, p)
                 PROVE  FALSE
      OBVIOUS
    <3>1. \E f \in {"Create", "Update", "Delete"} :
            request'[r] = [for |-> f, todo |-> HandlerOf[r][f]]
      BY Asked
    <3>2. PICK f \in {"Create", "Update", "Delete"} :
            request'[r].for = f /\ request'[r].todo = HandlerOf[r][f]
      BY <3>1
    <3> QED BY <2>2, <3>2
  <2>6. CASE EndBuild(r) \/ Still(r)
    <3>1. /\ request'[r] = request[r] /\ world'[r] = world[r] /\ props'[r] = props[r]
          /\ wanted'[r] = wanted[r] /\ (request[r].for = "Update" => stack' = stack)
      BY <2>1, <2>6, Built DEF Still
    <3>2. Want(r)' = Want(r)
      BY <3>1 DEF Want
    <3> QED BY <3>1, <3>2 DEF Undisturbed
  <2>7. ~(r = "rootCa" /\ GenerateRootCA)
    <3> SUFFICES ASSUME r = "rootCa", GenerateRootCA PROVE FALSE
      OBVIOUS
    <3>1. request' = request /\ HandlerOf[r] = RootCA
      BY <2>1, OwnProgram DEF GenerateRootCA, stackVars
    <3>2. request[r].todo = <<"refuse">> /\ <<"refuse">> # <<"add">>
      BY <3>1 DEF RootCA, ProgramsFit
    <3> QED BY <3>1, <3>2
  <2> QED BY <2>3, <2>4, <2>5, <2>6, <2>7, Fates
<1>2. CASE r \notin Change
  <2>1. StartKept'
    BY StartKeptKept
  <2> QED BY <1>2, <2>1, Moves DEF StartKept
<1> QED BY <1>1, <1>2

LEMMA RootMadeKept ==
  ASSUME StackTypeOK, StackIInv, ProgramsFit, StartKept, Undisturbed, Next, "rootCa" \in Mine,
         request'["rootCa"].for = "Create", request'["rootCa"].todo = << >>
  PROVE  world'["rootCa"][Start.name] # "absent"
<1> DEFINE r == "rootCa"
<1>1. HandlerOf[r] = RootCA
  BY StackAssumption, NeedsWithin, CertificateHandlers DEF Mine, StackTypeOK
<1>2. Start.name \in Name /\ Start.value \in Value
  BY StackAssumption DEF Props
<1>3. CASE r \in Busy /\ Call(r)
  <2>1. /\ request[r].for = "Create" /\ Tail(request[r].todo) = << >>
        /\ request[r].todo # << >> /\ Writes(r)
    BY <1>3, Called DEF Writes, Calling
  <2>2. request[r].todo = <<"add">> /\ Head(<<"add">>) = "add"
    <3>1. request[r].todo \in Rests(<<"add">>)
      BY <1>1, <2>1 DEF ProgramsFit, RootCA
    <3> QED BY <2>1, <3>1, ProgramRests
  <2>3. Want(r) = Start
    BY <2>1 DEF StackIInv, RequestsFit, StartKept, Want
  <2>4. Left(r) = Start.value
    BY <2>2, <2>3 DEF Left, Op
  <2> QED BY <1>2, <2>1, <2>3, <2>4, StackAssumption DEF Writes, States
<1>4. ~(r \in Busy /\ (Answer(r) \/ Failing(r)))
  <2> SUFFICES ASSUME r \in Busy, Answer(r) \/ Failing(r) PROVE FALSE
    OBVIOUS
  <2>1. request'[r] = Idle \/ request'[r] = [for |-> "Update", todo |-> HandlerOf[r].Update]
    BY Answered, Failed
  <2> QED BY <2>1 DEF Idle
<1>5. ~(AskCreate(r) \/ AskDelete(r) \/ \E p \in Props : AskUpdate(r, p))
  <2> SUFFICES ASSUME AskCreate(r) \/ AskDelete(r) \/ \E p \in Props : AskUpdate(r, p)
               PROVE  FALSE
    OBVIOUS
  <2>1. \E f \in {"Create", "Update", "Delete"} :
          request'[r] = [for |-> f, todo |-> HandlerOf[r][f]]
    BY Asked
  <2>2. request'[r].todo = <<"add">> /\ <<"add">> # << >>
    BY <1>1, <2>1 DEF RootCA
  <2> QED BY <2>2
<1>6. CASE GenerateRootCA
  <2>1. world' = [world EXCEPT ![r] = [world[r] EXCEPT ![Start.name] = "bare"]]
    BY <1>6 DEF GenerateRootCA
  <2> QED BY <1>2, <2>1 DEF StackTypeOK
<1>7. CASE EndBuild(r) \/ Still(r)
  <2>1. request'[r] = request[r] /\ world'[r] = world[r]
    BY <1>7, Built DEF Still
  <2> QED BY <2>1 DEF Undisturbed
<1> QED BY <1>3, <1>4, <1>5, <1>6, <1>7, Fates

\* Only instances that came up are registered.
LEMMA EntriesKept ==
  ASSUME StackTypeOK, StackIInv, Undisturbed, Next, NEW n \in Node, entry'[n] # "none"
  PROVE  node'[n] \in {"up", "gone", "forgotten"}
<1>1. entry[n] # "none" => node[n] \in {"up", "gone", "forgotten"}
  BY DEF Undisturbed
<1>2. ASSUME NEW x \in Busy, HandlerProgress(x) \/ Fault(x)
      PROVE  UNCHANGED <<node, entry>>
  BY <1>2, Called, Answered, Failed DEF HandlerProgress, Failing
<1>3. ASSUME \/ \E x \in Mine : AskCreate(x) \/ AskDelete(x) \/ EndBuild(x)
             \/ \E x \in Mine \cap Change, p \in Props : AskUpdate(x, p)
             \/ Settle \/ DeleteStack \/ GenerateRootCA
      PROVE  UNCHANGED <<node, entry>>
  BY <1>3 DEF AskCreate, AskDelete, EndBuild, AskUpdate, Settle, DeleteStack, GenerateRootCA, nodeVars
<1>4. ASSUME NEW m \in Node, Launch(m) \/ DownloadRoot(m) \/ IssueCert(m)
      PROVE  entry' = entry /\ (node[n] \in {"up", "gone", "forgotten"} => node'[n] = node[n])
  BY <1>4 DEF Launch, DownloadRoot, IssueCert, StackTypeOK
<1>5. ASSUME NEW m \in Node, CallRegister(m) \/ Register(m) \/ Terminate(m) \/ Cleanup(m)
      PROVE  node'[n] \in {"up", "gone", "forgotten"}
  BY <1>1, <1>5 DEF CallRegister, Register, Terminate, Cleanup, StackTypeOK
<1> QED BY <1>1, <1>2, <1>3, <1>4, <1>5, StepCases DEF Instances, Draining

LEMMA UndisturbedKept ==
  ASSUME StackTypeOK, StackIInv, ProgramsFit, StartKept, Undisturbed, Next
  PROVE  Undisturbed'
BY UntouchedKept, ReplacingKept, RootMadeKept, EntriesKept, Moves DEF Undisturbed, Unstarted

\* Failed calls are counted, and the last failure is remembered.
LEMMA FaultsGrow ==
  ASSUME StackTypeOK, StackIInv, Next
  PROVE  /\ faults' = 0 => faults = 0
         /\ culprit' = culprit \/ \E x \in Busy : Failing(x)
<1>1. ASSUME NEW x \in Busy, HandlerProgress(x) \/ Fault(x)
      PROVE  /\ faults' = 0 => faults = 0
             /\ culprit' = culprit \/ Failing(x)
  BY <1>1, Called, Answered, Failed DEF HandlerProgress, Failing
<1>2. ASSUME \/ \E x \in Mine : AskCreate(x) \/ AskDelete(x) \/ EndBuild(x)
             \/ \E x \in Mine \cap Change, p \in Props : AskUpdate(x, p)
             \/ Settle \/ DeleteStack \/ GenerateRootCA
      PROVE  UNCHANGED <<faults, culprit>>
  BY <1>2 DEF AskCreate, AskDelete, EndBuild, AskUpdate, Settle, DeleteStack, GenerateRootCA, stackVars
<1>3. ASSUME Instances \/ \E n \in Node : Draining(n)
      PROVE  UNCHANGED <<faults, culprit>>
  BY <1>3 DEF Instances, Draining, Launch, DownloadRoot, IssueCert, CallRegister, Register,
     Terminate, Cleanup, stackVars
<1> QED BY <1>1, <1>2, <1>3, StepCases

\* What CloudFormation has made, or changed, is there.
LEMMA StandingKept ==
  ASSUME StackTypeOK, StackIInv, ProgramsFit, StartKept, BuildKnown, Matching, Undisturbed,
         Standing, Next
  PROVE  Standing'
<1> SUFFICES ASSUME faults' = 0, NEW r \in Mine,
                    HandlerOf[r].Delete \in {<<"remove">>, <<"schedule">>},
                    has'[r] = "exists",
                    request'[r].for = "none" \/ request'[r].todo = HandlerOf[r][request'[r].for],
                    HandlerOf[r].Update # << >> \/ props'[r] = Start
             PROVE  world'[r][props'[r].name] # "absent"
  BY Moves DEF Standing
<1>1. /\ r \in Tidy /\ r \in Written \cup {"rootCa"} /\ r # "image"
      /\ HandlerOf[r].Delete # << >>
  <2>1. HandlerOf[r].Delete # << >>
    <3>1. <<"remove">> # << >> /\ <<"schedule">> # << >>
      OBVIOUS
    <3> QED BY <3>1, Zenon
  <2>2. r \in Tidy /\ r \in Written \cup {"rootCa"}
    BY <2>1, DeletingTidy
  <2>3. r # "image"
    BY <2>2, TidyPrograms
  <2> QED BY <2>1, <2>2, <2>3
<1>2. faults = 0
  BY FaultsGrow
<1>3. /\ has[r] = "exists"
      /\ request[r].for = "none" \/ request[r].todo = HandlerOf[r][request[r].for]
      /\ HandlerOf[r].Update # << >> \/ props[r] = Start
      => world[r][props[r].name] # "absent"
  BY <1>2 DEF Standing
<1>4. ~(r \in Busy /\ Call(r))
  <2> SUFFICES ASSUME r \in Busy, Call(r) PROVE FALSE
    OBVIOUS
  <2>1. /\ request'[r].for = request[r].for /\ request'[r].todo = Tail(request[r].todo)
        /\ request[r].todo # << >> /\ request[r].for # "none"
    BY Called DEF Writes, Calling, Busy
  <2> QED BY <2>1, Shorter
<1>5. CASE r \in Busy /\ Answer(r)
  <2>1. /\ request[r].todo = << >> /\ world' = world /\ props'[r] = Want(r)
        /\ has'[r] = IF request[r].for = "Delete" THEN "absent" ELSE "exists"
        /\ request[r].for \in {"Create", "Update", "Delete"}
    BY <1>5, Answered DEF StackTypeOK, Busy
  <2>2. Want(r).value \in Value /\ "absent" \notin Value
    BY WantTyped, StackAssumption DEF Props, States
  <2>3. CASE r = "rootCa"
    <3>1. HandlerOf[r] = RootCA
      BY <1>1, <2>3, TidyPrograms
    <3>2. request[r].for = "Create"
      <4>1. request[r].for # "Update"
        BY <2>1, <3>1 DEF ProgramsFit, RootCA
      <4> QED BY <2>1, <4>1
    <3>3. Want(r) = Start
      BY <3>2 DEF StackIInv, RequestsFit, StartKept, Want
    <3> QED BY <2>1, <2>3, <3>2, <3>3 DEF Undisturbed
  <2>4. CASE r \in Written /\ request[r].for = "Create"
    <3>1. Serves(r)
      BY <2>1, <2>4 DEF Matching, Done
    <3> QED BY <2>1, <2>2, <3>1 DEF Serves
  <2>5. CASE r \in Written /\ request[r].for = "Update"
    <3>1. HandlerOf[r].Update # << >>
      <4>1. HandlerOf[r].Update = << >> => stack = "updating"
        BY <2>5 DEF Matching
      <4>2. stack = "updating" => Want(r) # Start
        BY <2>5 DEF StartKept, Want
      <4> QED BY <2>1, <4>1, <4>2
    <3>2. Serves(r)
      BY <2>1, <2>5, <3>1 DEF Matching, Done
    <3> QED BY <2>1, <2>2, <3>2 DEF Serves
  <2> QED BY <1>1, <2>1, <2>3, <2>4, <2>5
<1>6. CASE r \in Busy /\ Failing(r)
  <2>1. /\ Calling(r) /\ UNCHANGED <<has, props, world>> /\ (Refused(r) \/ Op(r) = "poll")
    BY <1>2, <1>6, Failed
  <2>2. request[r].for \in {"Update", "Delete"}
    BY <1>6, <2>1 DEF Busy, StackTypeOK, StackIInv, RequestsFit
  <2>3. request[r].todo = HandlerOf[r][request[r].for]
    <3>1. request[r].for = "Update" => request[r].todo = HandlerOf[r].Update
      BY <1>2, <1>6, <2>1, UpdateFails
    <3>2. request[r].for = "Delete" => request[r].todo = HandlerOf[r].Delete
      <4>1. request[r].for = "Delete" =>
              request[r].todo # << >> /\ request[r].todo \in Rests(HandlerOf[r].Delete)
        BY <2>1 DEF Calling, ProgramsFit
      <4> QED BY <4>1, DeleteRests
    <3> QED BY <2>2, <3>1, <3>2
  <2> QED BY <1>3, <2>1, <2>3
<1>7. CASE AskCreate(r) \/ AskDelete(r) \/ \E p \in Props : AskUpdate(r, p)
  <2>1. UNCHANGED <<has, props, world>> /\ request[r].for = "none"
    BY <1>7, Asked
  <2> QED BY <1>3, <2>1
<1>8. CASE r = "rootCa" /\ GenerateRootCA
  <2>1. world' = [world EXCEPT ![r] = [world[r] EXCEPT ![Start.name] = "bare"]]
          /\ UNCHANGED <<has, request, props>>
    BY <1>8 DEF GenerateRootCA, stackVars
  <2>2. Start.name \in Name
    BY StackAssumption DEF Props
  <2>3. props[r] = Start
    <3>1. HandlerOf[r].Update = <<"refuse">>
      BY <1>1, <1>8, TidyPrograms DEF RootCA
    <3> QED BY <3>1 DEF StartKept
  <2> QED BY <2>1, <2>2, <2>3 DEF StackTypeOK
<1>9. CASE EndBuild(r) \/ Still(r)
  <2>1. has'[r] = has[r] /\ request'[r] = request[r] /\ world'[r] = world[r] /\ props'[r] = props[r]
    BY <1>1, <1>9, Built DEF Still
  <2> QED BY <1>3, <2>1
<1> QED BY <1>4, <1>5, <1>6, <1>7, <1>8, <1>9, Fates

\* Unless a call has failed, the last failure is due to one of these. What it was due
\* to is still so.
Explained ==
  faults = 0 =>
    /\ stack \in {"rollingBack", "rolledBack"} =>
         /\ culprit \in Mine /\ has[culprit] = "absent" /\ request[culprit].for = "none"
         /\ \/ culprit \in {"repo", "image", "invocation"} \cup Accounts
            \/ culprit \in Unprefixed /\ world[culprit][Start.name] = "other"
            \/ culprit = "lbCert" /\ ~Readable /\ request["rootCa"].for # "Create"
    /\ stack \in {"updateRollingBack", "updateRolledBack"} =>
         /\ culprit \in Mine
         /\ \/ HandlerOf[culprit].Update = <<"refuse">>
            \/ culprit \in {"repo", "policy"} /\ wanted[culprit].name # props[culprit].name
    /\ stack = "updateRollbackFailed" =>
         culprit \in Mine /\ HandlerOf[culprit].Update = <<"refuse">>
    /\ stack \in {"rollbackFailed", "deleteFailed"} =>
         /\ culprit \in Mine
         /\ \/ /\ culprit = "service" /\ has["cleanup"] = "absent" /\ request["cleanup"].for = "none"
               /\ \E n \in Node : entry[n] = "registered"
            \/ culprit = "ruleSet" /\ Activated
            \/ culprit = "managementOu" /\ Occupied
            \/ HandlerOf[culprit].Update = << >> /\ props[culprit] # Start

\* A failure has one of those reasons.
LEMMA FailureHasReason ==
  ASSUME StackTypeOK, StackIInv, ProgramsFit, StartKept, Undisturbed, Standing,
         NEW r \in Busy, Failing(r), faults = 0, faults' = 0, Mine' = Mine
  PROVE  Explained'
<1>1. /\ r \in Mine /\ Calling(r) /\ UNCHANGED <<has, props, wanted, entry, node, world>>
      /\ culprit' = r /\ (Refused(r) \/ Op(r) = "poll")
  BY Failed DEF Busy
<1>2. ASSUME NEW x \in Mine, x # r PROVE request'[x] = request[x]
  <2>1. HandlerProgress(r) \/ Fault(r)
    BY DEF Failing, HandlerProgress
  <2> QED BY <1>2, <2>1, HandlerElsewhere DEF Still
<1>3. Readable' = Readable /\ Activated' = Activated /\ Occupied' = Occupied
  BY <1>1 DEF Readable, Root, Activated, Occupied
<1>4. request[r].for \in {"Create", "Update", "Delete"}
  BY DEF Busy, StackTypeOK
<1>5. CASE request[r].for = "Create"
  <2>1. stack' = "rollingBack" /\ request'[r] = Idle /\ has[r] = "absent"
    BY <1>1, <1>5, Failed DEF StackIInv, RequestsFit
  <2>2. \/ r \in {"repo", "image", "invocation"} \cup Accounts
        \/ r \in Unprefixed /\ world[r][Start.name] = "other"
        \/ r = "lbCert" /\ ~Readable /\ request["rootCa"].for # "Create"
    BY <1>1, <1>5, CreationFails
  <2>3. r = "lbCert" => request'["rootCa"] = request["rootCa"]
    BY <1>1, <1>2, Companions
  <2> QED BY <1>1, <1>3, <2>1, <2>2, <2>3 DEF Explained, Idle
<1>6. CASE request[r].for = "Update"
  <2>1. \/ stack = "updating" /\ stack' = "updateRollingBack"
        \/ stack = "updateRollingBack" /\ stack' = "updateRollbackFailed"
    BY <1>6, Failed
  <2>2. \/ HandlerOf[r].Update = <<"refuse">>
        \/ /\ stack = "updating"
           /\ r \in {"repo", "policy"} /\ wanted[r].name # props[r].name
    BY <1>1, <1>6, UpdateFails
  <2> QED BY <1>1, <2>1, <2>2 DEF Explained
<1>7. CASE request[r].for = "Delete"
  <2>1. stack' \in {"rollbackFailed", "deleteFailed"}
    BY <1>7, Failed
  <2>2. \/ /\ r = "service" /\ has["cleanup"] = "absent" /\ request["cleanup"].for = "none"
           /\ \E n \in Node : entry[n] = "registered"
        \/ r = "ruleSet" /\ Activated
        \/ r = "managementOu" /\ Occupied
        \/ HandlerOf[r].Update = << >> /\ props[r] # Start
    BY <1>1, <1>7, DeletionFails
  <2>3. r = "service" => request'["cleanup"] = request["cleanup"]
    BY <1>1, <1>2, Companions
  <2> QED BY <1>1, <1>3, <2>1, <2>2, <2>3 DEF Explained
<1> QED BY <1>4, <1>5, <1>6, <1>7

\* Only failures get a stack to where it is for failing.
LEMMA Succeeding ==
  ASSUME StackTypeOK, StackIInv, Next, ~\E x \in Busy : Failing(x)
  PROVE  /\ culprit' = culprit
         /\ stack' \in {"rollingBack", "updateRollingBack", "updateRollbackFailed",
                        "rollbackFailed", "deleteFailed"} => stack' = stack
         /\ stack' = "rolledBack" => stack \in {"rollingBack", "rolledBack"}
         /\ stack' = "updateRolledBack" => stack \in {"updateRollingBack", "updateRolledBack"}
<1>1. ASSUME NEW x \in Busy, HandlerProgress(x) \/ Fault(x)
      PROVE  \/ stack' = stack
             \/ stack = "updating" /\ stack' = "updated"
             \/ stack = "updateRollingBack" /\ stack' = "updateRolledBack"
  BY <1>1, Called, Answered DEF HandlerProgress, Failing
<1>2. ASSUME \/ \E x \in Mine : AskCreate(x) \/ AskDelete(x) \/ EndBuild(x)
             \/ \E x \in Mine \cap Change, p \in Props : AskUpdate(x, p)
             \/ Settle \/ DeleteStack \/ GenerateRootCA
      PROVE  stack' = stack \/ stack' \in {"updating", "created", "deleting", "deleted"}
              \/ (stack = "rollingBack" /\ stack' = "rolledBack")
  BY <1>2 DEF AskCreate, AskDelete, EndBuild, AskUpdate, Settle, DeleteStack, GenerateRootCA, stackVars
<1>3. ASSUME Instances \/ \E n \in Node : Draining(n)
      PROVE  stack' = stack
  BY <1>3 DEF Instances, Draining, Launch, DownloadRoot, IssueCert, CallRegister, Register,
     Terminate, Cleanup, stackVars
<1> QED BY <1>1, <1>2, <1>3, FaultsGrow, StepCases

\* What does not exist is not made any more once the stack is no longer being created.
LEMMA AbsentStays ==
  ASSUME StackTypeOK, StackIInv, Next, NEW r \in Mine, has[r] = "absent",
         request[r].for = "none", stack # "creating"
  PROVE  /\ has'[r] = "absent" /\ request'[r].for = "none"
         /\ r # "image" /\ world[r][Start.name] = "other" => world'[r][Start.name] = "other"
<1>1. ~(r \in Busy) /\ ~AskCreate(r) /\ ~AskDelete(r)
  BY DEF Busy, AskCreate, AskDelete
<1>2. ~\E p \in Props : AskUpdate(r, p)
  BY Asked
<1>3. CASE r = "rootCa" /\ GenerateRootCA
  <2>1. Root \in Value /\ "other" \notin Value
    BY <1>3, StackAssumption DEF GenerateRootCA, Readable, States
  <2> QED BY <1>3, <2>1 DEF Root, GenerateRootCA, stackVars
<1>4. CASE EndBuild(r) \/ Still(r)
  BY <1>4, Built DEF Still
<1> QED BY <1>1, <1>2, <1>3, <1>4, Fates

\* A root CA that cannot be read, or is not there, is not made readable by its deletion.
LEMMA UnreadableStays ==
  ASSUME StackTypeOK, StackIInv, ProgramsFit, Next, "rootCa" \in Mine, ~Readable,
         request["rootCa"].for # "Create", stack # "creating"
  PROVE  ~Readable' /\ request'["rootCa"].for # "Create"
<1> DEFINE r == "rootCa"
<1>1. HandlerOf[r] = RootCA
  BY StackAssumption, NeedsWithin, CertificateHandlers DEF Mine, StackTypeOK
<1>2. Start.name \in Name
  BY StackAssumption DEF Props
<1>3. ASSUME r \in Busy, Writes(r) PROVE ~Readable'
  <2>1. request[r].for = "Update" => request[r].todo = <<"refuse">>
    BY <1>1, <1>3 DEF ProgramsFit, RootCA, Busy
  <2>2. request[r].for = "Delete" => request[r].todo \in {<<"schedule">>, << >>}
    <3>1. request[r].for = "Delete" => request[r].todo \in Rests(<<"schedule">>)
      BY <1>1, <1>3 DEF ProgramsFit, RootCA, Busy
    <3> QED BY <3>1, DeleteRests
  <2>3. request[r].todo \in {<<"refuse">>, <<"schedule">>}
    <3>1. request[r].for \in {"Update", "Delete"}
      BY <1>3 DEF Busy, StackTypeOK
    <3>2. request[r].todo # << >>
      BY <1>3 DEF Writes, Calling
    <3> QED BY <2>1, <2>2, <3>1, <3>2
  <2>4. Op(r) \in {"refuse", "schedule"}
    <3>1. Head(<<"refuse">>) = "refuse" /\ Head(<<"schedule">>) = "schedule"
      OBVIOUS
    <3> QED BY <2>3, <3>1 DEF Op
  <2>5. Left(r) = "pending"
    BY <1>3, <2>4 DEF Writes, Refused, Left
  <2>6. "pending" \notin Value
    BY StackAssumption DEF States
  <2>7. world'[r][Start.name] \in {"pending", world[r][Start.name]}
    BY <1>2, <1>3, <2>5 DEF Writes
  <2> QED BY <2>6, <2>7 DEF Readable, Root
<1>4. world'[r] = world[r] => ~Readable'
  BY DEF Readable, Root
<1>5. CASE r \in Busy /\ (Call(r) \/ Answer(r) \/ Failing(r))
  <2>1. ~Readable'
    BY <1>3, <1>4, <1>5, Called, Answered, Failed
  <2>2. request'[r] = Idle \/ request'[r].for = request[r].for
          \/ request'[r] = [for |-> "Update", todo |-> HandlerOf[r].Update]
    BY <1>5, Called, Answered, Failed
  <2> QED BY <2>1, <2>2 DEF Idle
<1>6. CASE AskCreate(r) \/ AskDelete(r) \/ \E p \in Props : AskUpdate(r, p)
  <2>1. world' = world /\ request'[r].for \in {"Delete", "Update"}
    <3>1. /\ world' = world
          /\ \/ request'[r] = [for |-> "Delete", todo |-> HandlerOf[r].Delete]
             \/ request'[r] = [for |-> "Update", todo |-> HandlerOf[r].Update]
      BY <1>6, Asked
    <3> QED BY <3>1
  <2> QED BY <1>4, <2>1
<1>7. ~GenerateRootCA
  BY DEF GenerateRootCA
<1>8. CASE EndBuild(r) \/ Still(r)
  <2>1. world'[r] = world[r] /\ request'[r] = request[r]
    BY <1>8, Built DEF Still
  <2> QED BY <1>4, <2>1
<1> QED BY <1>5, <1>6, <1>7, <1>8, Fates

\* The properties on record, and those an update asked for, change with updates only.
LEMMA PropsStay ==
  ASSUME StackTypeOK, StackIInv, Next, NEW r \in Mine, stack \notin {"created", "updating"}
  PROVE  props'[r] = props[r] /\ wanted'[r] = wanted[r]
<1>1. CASE r \in Busy /\ (Call(r) \/ Answer(r) \/ Failing(r))
  BY <1>1, Called, Answered, Failed DEF Want
<1>2. CASE AskCreate(r) \/ AskDelete(r) \/ \E p \in Props : AskUpdate(r, p)
  BY <1>2, Asked
<1>3. CASE EndBuild(r) \/ (r = "rootCa" /\ GenerateRootCA) \/ Still(r)
  BY <1>3 DEF EndBuild, GenerateRootCA, stackVars, Still
<1> QED BY <1>1, <1>2, <1>3, Fates

\* While a deletion has failed, what is not deleted by any call stays.
LEMMA KeptStays ==
  ASSUME StackTypeOK, StackIInv, ProgramsFit, Next, NEW r \in Mine, r \notin {"image", "rootCa"},
         HandlerOf[r].Delete = << >>, stack \in {"rollbackFailed", "deleteFailed"}
  PROVE  world'[r] = world[r]
<1>1. r \in Busy => ~Calling(r)
  <2> SUFFICES ASSUME r \in Busy PROVE request[r].todo = << >>
    BY DEF Calling
  <2>1. request[r].for = "Delete"
    BY DEF Busy, StackTypeOK, StackIInv, RequestsFit
  <2> QED BY <2>1, ProgramRests DEF ProgramsFit
<1>2. CASE r \in Busy /\ (Call(r) \/ Answer(r) \/ Failing(r))
  BY <1>1, <1>2, Called, Answered, Failed DEF Writes
<1>3. CASE AskCreate(r) \/ AskDelete(r) \/ \E p \in Props : AskUpdate(r, p)
  BY <1>3, Asked
<1>4. CASE EndBuild(r) \/ Still(r)
  BY <1>4, Built DEF Still
<1> QED BY <1>2, <1>3, <1>4, Fates

\* Once the clean-up is gone, nobody deregisters an instance.
LEMMA RegisteredStays ==
  ASSUME StackTypeOK, StackIInv, Undisturbed, Next, NEW n \in Node, entry[n] = "registered",
         has["cleanup"] = "absent"
  PROVE  entry'[n] = "registered"
<1>1. node[n] \in {"up", "gone", "forgotten"}
  BY DEF Undisturbed
<1>2. ASSUME NEW x \in Busy, HandlerProgress(x) \/ Fault(x)
      PROVE  entry' = entry
  BY <1>2, Called, Answered, Failed DEF HandlerProgress, Failing
<1>3. ASSUME \/ \E x \in Mine : AskCreate(x) \/ AskDelete(x) \/ EndBuild(x)
             \/ \E x \in Mine \cap Change, p \in Props : AskUpdate(x, p)
             \/ Settle \/ DeleteStack \/ GenerateRootCA
      PROVE  entry' = entry
  BY <1>3 DEF AskCreate, AskDelete, EndBuild, AskUpdate, Settle, DeleteStack, GenerateRootCA, nodeVars
<1>4. ASSUME NEW m \in Node, Launch(m) \/ DownloadRoot(m) \/ IssueCert(m) \/ Terminate(m)
      PROVE  entry' = entry
  BY <1>4 DEF Launch, DownloadRoot, IssueCert, Terminate
<1>5. ASSUME NEW m \in Node, CallRegister(m) \/ Register(m)
      PROVE  entry'[n] = "registered"
  BY <1>1, <1>5 DEF CallRegister, Register, StackTypeOK
<1>6. \A m \in Node : ~Cleanup(m)
  BY DEF Cleanup
<1> QED BY <1>2, <1>3, <1>4, <1>5, <1>6, StepCases DEF Instances, Draining

\* A reason that there was is still there, as long as nothing else fails.
LEMMA ReasonStays ==
  ASSUME StackTypeOK, StackIInv, ProgramsFit, Undisturbed, Explained, Next,
         ~\E x \in Busy : Failing(x), faults = 0, Mine' = Mine
  PROVE  Explained'
<1> DEFINE c == culprit
<1>1. /\ culprit' = c
      /\ stack' \in {"rollingBack", "rolledBack"} => stack \in {"rollingBack", "rolledBack"}
      /\ stack' \in {"updateRollingBack", "updateRolledBack"} =>
           stack \in {"updateRollingBack", "updateRolledBack"}
      /\ stack' = "updateRollbackFailed" => stack = "updateRollbackFailed"
      /\ stack' \in {"rollbackFailed", "deleteFailed"} => stack \in {"rollbackFailed", "deleteFailed"}
  BY Succeeding
<1>2. ASSUME stack \in {"rollingBack", "rolledBack"}
      PROVE  /\ c \in Mine /\ has'[c] = "absent" /\ request'[c].for = "none"
             /\ \/ c \in {"repo", "image", "invocation"} \cup Accounts
                \/ c \in Unprefixed /\ world'[c][Start.name] = "other"
                \/ c = "lbCert" /\ ~Readable' /\ request'["rootCa"].for # "Create"
  <2>1. /\ c \in Mine /\ has[c] = "absent" /\ request[c].for = "none"
        /\ \/ c \in {"repo", "image", "invocation"} \cup Accounts
           \/ c \in Unprefixed /\ world[c][Start.name] = "other"
           \/ c = "lbCert" /\ ~Readable /\ request["rootCa"].for # "Create"
    BY <1>2 DEF Explained
  <2>2. /\ has'[c] = "absent" /\ request'[c].for = "none"
        /\ c # "image" /\ world[c][Start.name] = "other" => world'[c][Start.name] = "other"
    BY <1>2, <2>1, AbsentStays
  <2>3. c = "lbCert" /\ ~Readable /\ request["rootCa"].for # "Create" =>
          ~Readable' /\ request'["rootCa"].for # "Create"
    BY <1>2, <2>1, Companions, UnreadableStays
  <2> QED BY <2>1, <2>2, <2>3
<1>3. ASSUME stack \in {"updateRollingBack", "updateRolledBack"}
      PROVE  /\ c \in Mine
             /\ \/ HandlerOf[c].Update = <<"refuse">>
                \/ c \in {"repo", "policy"} /\ wanted'[c].name # props'[c].name
  BY <1>3, PropsStay DEF Explained
<1>4. stack = "updateRollbackFailed" => c \in Mine /\ HandlerOf[c].Update = <<"refuse">>
  BY DEF Explained
<1>5. ASSUME stack \in {"rollbackFailed", "deleteFailed"}
      PROVE  /\ c \in Mine
             /\ \/ /\ c = "service" /\ has'["cleanup"] = "absent" /\ request'["cleanup"].for = "none"
                   /\ \E n \in Node : entry'[n] = "registered"
                \/ c = "ruleSet" /\ Activated'
                \/ c = "managementOu" /\ Occupied'
                \/ HandlerOf[c].Update = << >> /\ props'[c] # Start
  <2>1. /\ c \in Mine
        /\ \/ /\ c = "service" /\ has["cleanup"] = "absent" /\ request["cleanup"].for = "none"
              /\ \E n \in Node : entry[n] = "registered"
           \/ c = "ruleSet" /\ Activated
           \/ c = "managementOu" /\ Occupied
           \/ HandlerOf[c].Update = << >> /\ props[c] # Start
    BY <1>5 DEF Explained
  <2>2. Mine \subseteq AllResources
    BY StackAssumption, NeedsWithin DEF Mine, StackTypeOK
  <2>3. CASE /\ c = "service" /\ has["cleanup"] = "absent" /\ request["cleanup"].for = "none"
             /\ \E n \in Node : entry[n] = "registered"
    <3>1. has'["cleanup"] = "absent" /\ request'["cleanup"].for = "none"
      BY <1>5, <2>1, <2>3, Companions, AbsentStays
    <3>2. \E n \in Node : entry'[n] = "registered"
      BY <2>3, RegisteredStays
    <3> QED BY <2>1, <2>3, <3>1, <3>2
  <2>4. CASE c = "ruleSet" /\ Activated
    <3>1. "activator" \in Mine
      BY <2>1, <2>4, Companions
    <3>2. HandlerOf["activator"].Delete = << >>
      BY <2>2, <3>1, OwnHandlers DEF Handler, RuleSetActivator
    <3>3. world'["activator"] = world["activator"]
      BY <1>5, <3>1, <3>2, KeptStays
    <3> QED BY <2>1, <2>4, <3>3 DEF Activated
  <2>5. CASE c = "managementOu" /\ Occupied
    <3>1. PICK a \in Accounts : world[a][Start.name] \in Value
      BY <2>5 DEF Occupied
    <3>2. a \in Mine /\ a \in AllResources
      BY <2>1, <2>2, <2>5, Companions
    <3>3. a \notin DOMAIN Handler /\ a \notin {"image", "rootCa"} /\ a \notin Outliving
      BY DEF Accounts, Handler, Outliving
    <3>4. HandlerOf[a].Delete = << >>
      BY <3>2, <3>3, OtherHandlers DEF OrgAccount
    <3>5. world'[a] = world[a]
      BY <1>5, <3>2, <3>3, <3>4, KeptStays
    <3> QED BY <2>1, <2>5, <3>1, <3>5 DEF Occupied
  <2>6. CASE HandlerOf[c].Update = << >> /\ props[c] # Start
    BY <1>5, <2>1, <2>6, PropsStay
  <2> QED BY <2>1, <2>3, <2>4, <2>5, <2>6
<1> HIDE DEF c
<1> QED BY <1>1, <1>2, <1>3, <1>4, <1>5 DEF Explained

\* Unless a call has failed, an operation on a stack fails for one of the reasons the
\* model names, in any stack and for any update.
THEOREM FailureExplainedCorrect == Spec => []FailureExplained
<1> DEFINE Known == StackTypeOK /\ StackIInv /\ ProgramsFit /\ StartKept /\ BuildKnown
           Sound == Matching /\ Undisturbed /\ Standing /\ Explained
<1>1. Init => Sound
  <2> SUFFICES ASSUME Init PROVE Sound
    OBVIOUS
  <2>1. /\ \A r \in Mine : request[r] = Idle /\ has[r] = "absent"
        /\ stack = "creating" /\ \A n \in Node : entry[n] = "none"
    BY DEF Init
  <2>2. ASSUME NEW r \in Mine
        PROVE  world[r][Start.name] = "absent" \/ (r \in Unprefixed /\ world[r][Start.name] = "other")
    BY StackAssumption DEF Init, Props
  <2>3. Matching
    BY <2>1 DEF Matching, Idle, Written
  <2>4. Undisturbed
    BY <2>1, <2>2 DEF Undisturbed, Idle
  <2> QED BY <2>1, <2>3, <2>4 DEF Standing, Explained
<1>2. Known /\ Sound /\ [Next]_vars /\ Known' => Sound'
  <2> SUFFICES ASSUME Known, Sound, [Next]_vars, Known' PROVE Sound'
    OBVIOUS
  <2>1. CASE UNCHANGED vars
    <3>1. /\ Matching' /\ Undisturbed'
      <4>1. /\ Mine' = Mine /\ Written' = Written
            /\ \A r \in Mine : Want(r)' = Want(r) /\ Unstarted(r)' = Unstarted(r)
        BY <2>1 DEF vars, Mine, Written, Want, Unstarted
      <4>2. Matching'
        BY <2>1, <4>1 DEF vars, Matching, Serves, Want
      <4>3. Undisturbed'
        BY <2>1, <4>1 DEF vars, Undisturbed
      <4> QED BY <4>2, <4>3
    <3>2. Standing' /\ Explained'
      BY <2>1 DEF vars, Standing, Explained, Mine, Readable, Root, Activated, Occupied
    <3> QED BY <3>1, <3>2
  <2>2. CASE Next
    <3>1. Matching' /\ Undisturbed' /\ Standing'
      BY <2>2, MatchingKept, UndisturbedKept, StandingKept
    <3>2. CASE faults' = 0
      <4>1. faults = 0 /\ Mine' = Mine
        BY <2>2, <3>2, FaultsGrow, Moves
      <4> QED BY <2>2, <3>1, <3>2, <4>1, FailureHasReason, ReasonStays
    <3>3. CASE faults' # 0
      BY <3>1, <3>3 DEF Explained
    <3> QED BY <3>2, <3>3
  <2> QED BY <2>1, <2>2
<1>3. Known /\ Sound => FailureExplained
  <2> SUFFICES ASSUME Known, Sound, faults = 0
               PROVE  /\ stack \in {"rollingBack", "rolledBack"} => ~Creatable(culprit)
                      /\ stack \in {"updateRollingBack", "updateRolledBack"} =>
                           \/ HandlerOf[culprit].Update = <<"refuse">>
                           \/ /\ culprit \in {"repo", "policy"}
                              /\ wanted[culprit].name # props[culprit].name
                      /\ stack = "updateRollbackFailed" =>
                           HandlerOf[culprit].Update = <<"refuse">>
                      /\ stack \in {"rollbackFailed", "deleteFailed"} =>
                           \/ culprit = "service" /\ \E n \in Node : entry[n] = "registered"
                           \/ culprit = "ruleSet" /\ Activated
                           \/ culprit = "managementOu" /\ Occupied
                           \/ HandlerOf[culprit].Update = << >> /\ props[culprit] # Start
    BY DEF FailureExplained
  <2>1. "other" # "absent" /\ "other" # Start.value
    BY StackAssumption DEF Props, States
  <2>2. stack \in {"rollingBack", "rolledBack"} => ~Creatable(culprit)
    BY <2>1 DEF Explained, Creatable
  <2> QED BY <2>2 DEF Explained
<1> QED BY <1>1, <1>2, <1>3, HandlersKnown, PTL DEF Spec

=============================================================================

--------------------------- MODULE CaseRunProofs -----------------------------
(***************************************************************************)
(* One test case, proved for every case file: any number of steps and      *)
(* hooks, any choice of actions, optional and empty steps included.        *)
(***************************************************************************)
EXTENDS CaseRun, FiniteSetTheorems, TLAPS

(* The case report, whatever the case. *)
CaseReport == [state : {"", "passed", "failed", "skipped"}, passed : Nat, failed : Nat,
               total : Nat, steps : Seq(StepReport), hooks : Seq(StepReport)]

(* Event e of the log belongs to hook or step n of part p around step i. *)
At(e, p, i, n) == e.part = p /\ e.idx = i /\ e.pos = n

(* The report of the main step waits for its hooks. *)
MainPending == pc \in {"toAfter", "end"} \/ (pc = "action" /\ part = "after")

(* Where the case stands is a step or a hook that the file declares, and   *)
(* the next slot holds an action it declares.  Until the steps are over    *)
(* there is no error, and until the main step is over no error of the      *)
(* step's; a case that has not reached its steps has executed nothing.     *)
PlaceInv ==
    /\ pc \in {"parse", "kube", "namespace", "run"} => log = <<>> /\ ~err /\ idx = 1
    /\ pc \in {"begin", "action", "toAfter", "end"} => idx \in DOMAIN case.steps /\ ~err
    /\ pc = "action" /\ part # "after" => ~result
    /\ MainPending => main \in StepReport
    /\ pc = "action" =>
          /\ part = "before" => pos \in DOMAIN case.before
          /\ part = "main" => pos = 1
          /\ part = "after" => pos \in DOMAIN case.after
          /\ slot <= Len(ActionOrder) => ActionOrder[slot] \in CurrentStep.actions

(* The log is behind the place where the case stands. *)
Behind(e) ==
    /\ e.idx <= idx
    /\ pc = "begin" => e.idx < idx
    /\ pc = "action" /\ e.idx = idx =>
          /\ PartRank(e.part) <= PartRank(part)
          /\ e.part = part => e.pos <= pos
          /\ e.part = part /\ e.pos = pos => Slot(e.action) < slot
    /\ pc = "toAfter" /\ e.idx = idx => e.part # "after"
    /\ pc \notin {"finish", "done"} => e.part # "cleanup"

OrderInv ==
    /\ \A k \in DOMAIN log : Behind(log[k])
    /\ InOrder

(* Where the case may stand once event e has failed. *)
Halted(e) ==
    /\ pc = "action" /\ ~broken => ~At(e, part, idx, pos)
    /\ Fatal(e) =>
          /\ pc # "begin"
          /\ pc = "action" /\ part # "after" => broken /\ At(e, part, idx, pos)
          /\ pc = "action" /\ part = "after" =>
                /\ e.idx = idx
                /\ IF e.part = "after" THEN broken /\ e.pos = pos ELSE result
          /\ pc \in {"toAfter", "end"} => result /\ e.idx = idx
          /\ pc \in {"cleanup", "finish", "done"} => err

ErrorInv ==
    /\ \A k \in DOMAIN log : log[k].state = "failed" => Halted(log[k])
    /\ StopsOnError

(* What of main step i and its hooks has passed. *)
BeforePassed(i) == \A n \in DOMAIN case.before : AllPassed(case.before[n], "before", i, n)
AfterPassed(i) == \A n \in DOMAIN case.after : AllPassed(case.after[n], "after", i, n)
StepPassed(i) == AllPassed(case.steps[i], "main", i, 1) /\ BeforePassed(i) /\ AfterPassed(i)

(* While there is no error everything behind the place where the case      *)
(* stands has passed.                                                      *)
PassInv ==
    /\ pc \in {"begin", "action", "toAfter", "end"} => \A i \in 1 .. idx - 1 : StepPassed(i)
    /\ pc = "action" /\ ~broken =>
          /\ ~CurrentStep.isNil
          /\ \A j \in 1 .. 7 : j < slot /\ ActionOrder[j] \in CurrentStep.actions
                                => Passed(part, idx, pos, ActionOrder[j])
    /\ pc = "action" /\ part = "before" =>
          \A n \in 1 .. pos - 1 : AllPassed(case.before[n], "before", idx, n)
    /\ pc = "action" /\ part = "main" => BeforePassed(idx)
    /\ pc = "action" /\ part = "after" =>
          \A n \in 1 .. pos - 1 : AllPassed(case.after[n], "after", idx, n)
    /\ pc \in {"action", "toAfter", "end"} /\ ~result /\ (pc = "action" => part = "after") =>
          AllPassed(case.steps[idx], "main", idx, 1) /\ BeforePassed(idx)
    /\ pc = "end" /\ ~result => AfterPassed(idx)
    /\ pc \in {"cleanup", "finish"} /\ ~err => \A i \in DOMAIN case.steps : StepPassed(i)
    /\ pc = "done" /\ report.state = "passed" => ~err /\ \A i \in DOMAIN case.steps : StepPassed(i)

(* The file declares an empty step. *)
NilDeclared ==
    \E st \in {case.steps[i] : i \in DOMAIN case.steps}
              \cup {case.before[i] : i \in DOMAIN case.before}
              \cup {case.after[i] : i \in DOMAIN case.after} : st.isNil

(* Something fails the case. *)
Reason == (\E k \in DOMAIN log : Fatal(log[k])) \/ NilDeclared

(* Every error has its reason. *)
FailInv ==
    /\ pc = "action" /\ broken =>
          \/ CurrentStep.isNil
          \/ \E k \in DOMAIN log : log[k].state = "failed" /\ At(log[k], part, idx, pos)
    /\ pc \in {"action", "toAfter", "end"} /\ result => Reason
    /\ pc = "cleanup" /\ err => Reason
    /\ pc = "finish" /\ err /\ log # <<>> => Reason
    /\ pc = "done" /\ report.state = "failed" /\ log # <<>> => Reason

(* The after-each hooks have something to execute. *)
HooksDue == case.after # <<>> /\ case.after[1].actions # {} /\ ~case.after[1].isNil

(* An after-each hook of main step i has executed something. *)
HooksSeen(i) == \E m \in DOMAIN log : log[m].part = "after" /\ log[m].idx = i

(* The after-each hooks follow every step, and the cleanup all of them. *)
TeardownInv ==
    /\ HooksDue => \A k \in DOMAIN log :
          \/ log[k].part \notin {"before", "main"}
          \/ HooksSeen(log[k].idx)
          \/ log[k].idx = idx /\ pc \in {"action", "toAfter"}
    /\ HooksDue /\ pc = "action" /\ part = "after" =>
          HooksSeen(idx) \/ (~broken /\ slot <= Len(ActionOrder))
    /\ pc \in {"finish", "done"} /\ log # <<>> => log[Len(log)].part = "cleanup"
    /\ \A k \in DOMAIN log : log[k].part = "cleanup" => k = Len(log)

(* What the case has executed is in the reports, in the step under way, or *)
(* in the main step that waits for its hooks.                              *)
Executed(a) == {k \in DOMAIN log : log[k].action = a /\ log[k].state = "passed"}
Counted(rs, a) == {j \in 1 .. 7 : j \in DOMAIN rs /\ rs[j] = [action |-> a, state |-> "passed"]}
Pending(a) ==
    (IF pc = "action" THEN Cardinality(Counted(acts, a)) ELSE 0)
    + (IF MainPending THEN Cardinality(Counted(main.acts, a)) ELSE 0)

StatsInv ==
    /\ pc = "action" => Len(acts) < slot
    /\ \A a \in Mutating : Cardinality(Executed(a)) = ObjectStats(report, a) + Pending(a)

Inv ==
    /\ TypeOK /\ PlaceInv /\ OrderInv /\ ErrorInv /\ PassInv
    /\ FailInv /\ TeardownInv /\ StatsInv
-----------------------------------------------------------------------------
(* The operators the model is built from. *)

(* Seven actions, all different. *)
LEMMA Actions ==
    /\ Len(ActionOrder) = 7 /\ DOMAIN ActionOrder = 1 .. 7
    /\ ActionName = {"ensure", "patch", "wait", "assert", "logs", "exec", "delete"}
    /\ \A i \in 1 .. 7 : ActionOrder[i] \in ActionName
    /\ \A a \in ActionName : \E i \in 1 .. 7 : ActionOrder[i] = a
<1>1. Len(ActionOrder) = 7 /\ DOMAIN ActionOrder = 1 .. 7
  BY DEF ActionOrder
<1>2. DOMAIN ActionOrder = {1, 2, 3, 4, 5, 6, 7}
  BY <1>1
<1>3. /\ ActionOrder[1] = "ensure" /\ ActionOrder[2] = "patch" /\ ActionOrder[3] = "wait"
      /\ ActionOrder[4] = "assert" /\ ActionOrder[5] = "logs" /\ ActionOrder[6] = "exec"
      /\ ActionOrder[7] = "delete"
  BY DEF ActionOrder
<1>4. ActionName = {"ensure", "patch", "wait", "assert", "logs", "exec", "delete"}
  BY <1>2, <1>3 DEF ActionName
<1>5. \A i \in 1 .. 7 : ActionOrder[i] \in ActionName
  BY <1>1 DEF ActionName
<1>6. \A a \in ActionName : \E i \in 1 .. 7 : ActionOrder[i] = a
  BY <1>1 DEF ActionName
<1> QED BY <1>1, <1>4, <1>5, <1>6

(* The order in which step.Run calls the actions is the documented one. *)
LEMMA Slots ==
    /\ \A i \in 1 .. 7 : Slot(ActionOrder[i]) = i
    /\ Slot("cleanup") = 8
<1>1. DOMAIN DocumentedOrder = {1, 2, 3, 4, 5, 6, 7, 8}
  <2>1. DOMAIN DocumentedOrder = 1 .. 8
    BY DEF DocumentedOrder
  <2> QED BY <2>1
<1>2. /\ DocumentedOrder[1] = "ensure" /\ DocumentedOrder[2] = "patch" /\ DocumentedOrder[3] = "wait"
      /\ DocumentedOrder[4] = "assert" /\ DocumentedOrder[5] = "logs" /\ DocumentedOrder[6] = "exec"
      /\ DocumentedOrder[7] = "delete" /\ DocumentedOrder[8] = "cleanup"
  BY DEF DocumentedOrder
<1>3. ASSUME NEW i \in 1 .. 8 PROVE Slot(DocumentedOrder[i]) = i
  <2>1. \A j \in 1 .. 8 : DocumentedOrder[j] = DocumentedOrder[i] => j = i
    BY <1>2
  <2> QED BY <1>1, <2>1 DEF Slot
<1>4. \A i \in 1 .. 7 : ActionOrder[i] = DocumentedOrder[i]
  BY <1>2 DEF ActionOrder
<1> QED BY <1>2, <1>3, <1>4

(* A nonempty set of slots has a first one. *)
LEMMA FirstSlot ==
    ASSUME NEW D \in SUBSET (1 .. 7), D # {}
    PROVE  \E j \in D : \A k \in D : j <= k
<1>1. CASE 1 \in D
  BY <1>1
<1>2. CASE 1 \notin D /\ 2 \in D
  BY <1>2
<1>3. CASE 1 \notin D /\ 2 \notin D /\ 3 \in D
  BY <1>3
<1>4. CASE 1 \notin D /\ 2 \notin D /\ 3 \notin D /\ 4 \in D
  BY <1>4
<1>5. CASE 1 \notin D /\ 2 \notin D /\ 3 \notin D /\ 4 \notin D /\ 5 \in D
  BY <1>5
<1>6. CASE 1 \notin D /\ 2 \notin D /\ 3 \notin D /\ 4 \notin D /\ 5 \notin D /\ 6 \in D
  BY <1>6
<1>7. CASE 1 \notin D /\ 2 \notin D /\ 3 \notin D /\ 4 \notin D /\ 5 \notin D /\ 6 \notin D
  <2>1. \A k \in D : k = 7
    BY <1>7
  <2>2. PICK d \in D : TRUE
    OBVIOUS
  <2> QED BY <2>1, <2>2
<1> QED BY <1>1, <1>2, <1>3, <1>4, <1>5, <1>6, <1>7

(* NextSlot is the first declared action from i on, and passes over none.  *)
LEMMA NextSlotIs ==
    ASSUME NEW st, NEW i \in 1 .. 8
    PROVE  /\ NextSlot(st, i) \in i .. 8
           /\ NextSlot(st, i) <= 7 => ActionOrder[NextSlot(st, i)] \in st.actions
           /\ \A j \in i .. 7 : j < NextSlot(st, i) => ActionOrder[j] \notin st.actions
<1> DEFINE D == {j \in i .. 7 : ActionOrder[j] \in st.actions}
           n == NextSlot(st, i)
<1>1. n = IF D = {} THEN 8 ELSE CHOOSE j \in D : \A k \in D : j <= k
  BY Actions DEF NextSlot
<1>2. CASE D = {}
  BY <1>1, <1>2
<1>3. CASE D # {}
  <2>1. \E j \in D : \A k \in D : j <= k
    BY <1>3, FirstSlot
  <2>2. n \in D /\ \A k \in D : n <= k
    BY <1>1, <1>3, <2>1
  <2>3. n \in i .. 7 /\ ActionOrder[n] \in st.actions
    BY <2>2
  <2>4. \A j \in i .. 7 : j < n => ActionOrder[j] \notin st.actions
    BY <2>2, <2>3
  <2> HIDE DEF n
  <2> QED BY <2>3, <2>4 DEF n
<1> QED BY <1>2, <1>3

(* A case file as the parser returns it. *)
LEMMA CaseShape ==
    ASSUME TypeOK
    PROVE  /\ case.steps \in Seq(Step) /\ case.before \in Seq(Step) /\ case.after \in Seq(Step)
           /\ \A i \in DOMAIN case.steps : case.steps[i] \in Step
           /\ \A i \in DOMAIN case.before : case.before[i] \in Step
           /\ \A i \in DOMAIN case.after : case.after[i] \in Step
<1>1. case \in Case
  BY CaseAssumption DEF TypeOK
<1>2. case.steps \in Seq(Step) /\ case.before \in Seq(Step) /\ case.after \in Seq(Step)
  BY <1>1 DEF Case
<1> QED BY <1>2

(* A step has its flags and its actions; an empty one has neither. *)
LEMMA StepShape ==
    ASSUME NEW st \in Step
    PROVE  /\ st.isNil \in BOOLEAN /\ st.optional \in BOOLEAN
           /\ st.actions \subseteq ActionName
           /\ st.isNil => ~st.optional
BY DEF Step

(* runStep is always given a step of the file. *)
LEMMA CurrentStepIs ==
    ASSUME TypeOK, PlaceInv, pc = "action"
    PROVE  CurrentStep \in Step
BY CaseShape DEF CurrentStep, Hooks, PlaceInv, TypeOK

(* What runStep starts from. *)
LEMMA Entered ==
    ASSUME NEW st \in Step, NEW p, NEW n, EnterStep(st, p, n)
    PROVE  /\ pc' = "action" /\ part' = p /\ pos' = n /\ acts' = <<>>
           /\ slot' \in 1 .. 8 /\ broken' \in BOOLEAN /\ broken' = st.isNil
           /\ slot' <= 7 => ActionOrder[slot'] \in st.actions
           /\ \A j \in 1 .. 7 : j < slot' => ActionOrder[j] \notin st.actions
BY NextSlotIs, StepShape DEF EnterStep

(* The report of the step under way. *)
LEMMA ReportShape ==
    ASSUME TypeOK, NEW st
    PROVE  Report(st) \in StepReport /\ Report(st).acts = acts
BY DEF Report, StepState, StepReport, TypeOK
-----------------------------------------------------------------------------
(* The types. *)

(* The case starts at its file. *)
LEMMA InitType == Init => TypeOK
<1> SUFFICES ASSUME Init PROVE TypeOK
  OBVIOUS
<1>1. <<>> \in Seq(ActionReport) /\ <<>> \in Seq(StepReport) /\ <<>> \in Seq(Event)
  OBVIOUS
<1>2. 1 \in 1 .. Len(ActionOrder) + 1
  BY Actions
<1> QED BY <1>1, <1>2 DEF Init, TypeOK, EmptyReport

(* Entering a step keeps the types. *)
LEMMA EnterType ==
    ASSUME TypeOK, UNCHANGED <<case, idx, err, log>>,
           NEW st \in Step, NEW p \in {"before", "main", "after"}, NEW n \in Nat, EnterStep(st, p, n),
           result' \in BOOLEAN, main' \in StepReport \cup {NoReport},
           report' \in CaseReport
    PROVE  TypeOK'
<1>1. /\ pc' = "action" /\ part' = p /\ pos' = n /\ acts' = <<>>
      /\ slot' \in 1 .. 8 /\ broken' \in BOOLEAN
  BY Entered
<1>2. slot' \in 1 .. Len(ActionOrder) + 1
  <2>1. Len(ActionOrder) + 1 = 8
    BY Actions
  <2> QED BY <1>1, <2>1, Zenon
<1>3. acts' \in Seq(ActionReport)
  <2>1. <<>> \in Seq(ActionReport)
    OBVIOUS
  <2> QED BY <1>1, <2>1, Zenon
<1> QED BY <1>1, <1>2, <1>3 DEF TypeOK, CaseReport

(* Setup, the end of a part and the end of the case. *)
LEMMA MoveType ==
    ASSUME TypeOK,
           \/ ParseFails \/ ParseSucceeds \/ SkipByTags \/ NewService \/ EnsureNamespace \/ Run
           \/ FinishReport \/ UNCHANGED vars
    PROVE  TypeOK'
<1> USE DEF stepVars
<1>1. CASE ParseFails \/ NewService \/ EnsureNamespace \/ Run \/ UNCHANGED vars
  BY <1>1 DEF ParseFails, NewService, EnsureNamespace, Run, Finish, Proceed, TypeOK, vars
<1>2. CASE ParseSucceeds
  <2>1. Len(case.steps) \in Nat
    BY CaseShape
  <2> QED BY <1>2, <2>1 DEF ParseSucceeds, TypeOK
<1>3. CASE SkipByTags \/ FinishReport
  BY <1>3 DEF SkipByTags, FinishReport, TypeOK
<1> QED BY <1>1, <1>2, <1>3

(* The events of the log are the actions and the cleanup. *)
LEMMA EventAppended ==
    ASSUME NEW l \in Seq(Event), NEW e \in Event
    PROVE  /\ Append(l, e) \in Seq(Event) /\ Len(l) \in Nat
           /\ DOMAIN l = 1 .. Len(l) /\ DOMAIN Append(l, e) = 1 .. Len(l) + 1
           /\ Len(Append(l, e)) = Len(l) + 1 /\ Append(l, e)[Len(l) + 1] = e
           /\ \A k \in DOMAIN l : Append(l, e)[k] = l[k] /\ k < Len(l) + 1 /\ k \in DOMAIN Append(l, e)
           /\ \A k \in DOMAIN Append(l, e) : k \in DOMAIN l \/ k = Len(l) + 1
<1>1. /\ Append(l, e) \in Seq(Event) /\ Len(l) \in Nat
      /\ DOMAIN l = 1 .. Len(l) /\ DOMAIN Append(l, e) = 1 .. Len(l) + 1
      /\ Len(Append(l, e)) = Len(l) + 1
  OBVIOUS
<1>2. Append(l, e)[Len(l) + 1] = e
  OBVIOUS
<1>3. \A k \in 1 .. Len(l) : Append(l, e)[k] = l[k]
  OBVIOUS
<1> HIDE DEF Event
<1>4. \A k \in 1 .. Len(l) + 1 : k \in 1 .. Len(l) \/ k = Len(l) + 1
  BY <1>1
<1>5. \A k \in 1 .. Len(l) : k < Len(l) + 1 /\ k \in 1 .. Len(l) + 1
  BY <1>1
<1> QED BY <1>1, <1>2, <1>3, <1>4, <1>5

(* What an event of the log says. *)
LEMMA EventShape ==
    ASSUME TypeOK, NEW k \in DOMAIN log
    PROVE  /\ log[k].part \in {"before", "main", "after", "cleanup"}
           /\ log[k].idx \in Nat /\ log[k].pos \in Nat
           /\ log[k].action \in ActionName \cup {"cleanup"} /\ log[k].state \in {"passed", "failed"}
<1>1. log \in Seq(Event)
  BY DEF TypeOK
<1>2. log[k] \in Event
  BY <1>1
<1> QED BY <1>2 DEF Event

(* The counts of the statistics are numbers. *)
LEMMA CountedNat ==
    ASSUME NEW rs, NEW a
    PROVE  IsFiniteSet(Counted(rs, a)) /\ Cardinality(Counted(rs, a)) \in Nat
<1>1. IsFiniteSet(1 .. 7)
  <2>1. 1 \in Int /\ 7 \in Int
    OBVIOUS
  <2> QED BY <2>1, FS_Interval
<1>2. IsFiniteSet(Counted(rs, a))
  BY <1>1, FS_Subset DEF Counted
<1> QED BY <1>2, FS_CardinalityType

(* An action appends its report and its event. *)
LEMMA RunActionType ==
    ASSUME TypeOK, RunAction
    PROVE  /\ TypeOK' /\ slot \in 1 .. 7
           /\ \E state \in {"passed", "failed"} :
                 LET e == [part |-> part, idx |-> idx, pos |-> pos,
                           action |-> ActionOrder[slot], state |-> state]
                 IN  /\ e \in Event /\ log' = Append(log, e)
                     /\ acts' = Append(acts, [action |-> ActionOrder[slot], state |-> state])
                     /\ broken' = (state = "failed")
<1>1. slot \in 1 .. 7 /\ ActionOrder[slot] \in ActionName
  <2>1. slot <= Len(ActionOrder) /\ slot \in 1 .. Len(ActionOrder) + 1
    BY DEF TypeOK, RunAction
  <2>2. slot \in 1 .. 7
    BY <2>1, Actions
  <2> QED BY <2>2, Actions
<1>2. PICK state \in {"passed", "failed"} :
          /\ acts' = Append(acts, [action |-> ActionOrder[slot], state |-> state])
          /\ broken' = (state = "failed")
          /\ log' = Append(log, [part |-> part, idx |-> idx, pos |-> pos,
                                 action |-> ActionOrder[slot], state |-> state])
  BY DEF RunAction
<1> DEFINE e == [part |-> part, idx |-> idx, pos |-> pos,
                 action |-> ActionOrder[slot], state |-> state]
           x == [action |-> ActionOrder[slot], state |-> state]
<1>3. e \in Event
  BY <1>1 DEF Event, TypeOK
<1>4. x \in ActionReport
  BY <1>1 DEF ActionReport
<1>a. log' = Append(log, e) /\ acts' = Append(acts, x)
  BY <1>2
<1> HIDE DEF e, x
<1>5. log' \in Seq(Event)
  <2>1. log \in Seq(Event)
    BY DEF TypeOK
  <2> QED BY <1>a, <1>3, <2>1
<1>6. acts' \in Seq(ActionReport)
  <2>1. acts \in Seq(ActionReport)
    BY DEF TypeOK
  <2> QED BY <1>a, <1>4, <2>1
<1>7. slot' \in 1 .. Len(ActionOrder) + 1
  BY <1>1, NextSlotIs, Actions DEF RunAction
<1>8. broken' \in BOOLEAN
  BY <1>2
<1>9. TypeOK'
  BY <1>5, <1>6, <1>7, <1>8 DEF TypeOK, RunAction
<1> QED BY <1>1, <1>2, <1>3, <1>9 DEF e
-----------------------------------------------------------------------------
(* Steps that execute nothing. *)

(* What is known of the log does not change while nothing is executed. *)
LEMMA Frozen ==
    ASSUME UNCHANGED <<case, log>>
    PROVE  /\ \A st, p, i, n : AllPassed(st, p, i, n)' <=> AllPassed(st, p, i, n)
           /\ \A i : BeforePassed(i)' <=> BeforePassed(i)
           /\ \A i : AfterPassed(i)' <=> AfterPassed(i)
           /\ \A i : StepPassed(i)' <=> StepPassed(i)
           /\ \A e : Fatal(e)' <=> Fatal(e)
           /\ Reason' <=> Reason
           /\ HooksDue' <=> HooksDue
           /\ \A i : HooksSeen(i)' <=> HooksSeen(i)
           /\ \A a : Executed(a)' = Executed(a)
           /\ InOrder' <=> InOrder
           /\ StopsOnError' <=> StopsOnError
<1>1. \A p, i, n, a : Passed(p, i, n, a)' <=> Passed(p, i, n, a)
  BY DEF Passed
<1>2. \A st, p, i, n : AllPassed(st, p, i, n)' <=> AllPassed(st, p, i, n)
  BY <1>1 DEF AllPassed
<1>3. \A i : BeforePassed(i)' <=> BeforePassed(i)
  BY <1>2 DEF BeforePassed
<1>4. \A i : AfterPassed(i)' <=> AfterPassed(i)
  BY <1>2 DEF AfterPassed
<1>5. \A i : StepPassed(i)' <=> StepPassed(i)
  BY <1>2, <1>3, <1>4 DEF StepPassed
<1>6. \A e : Fatal(e)' <=> Fatal(e)
  BY DEF Fatal, StepOf
<1>7. Reason' <=> Reason
  <2>1. NilDeclared' <=> NilDeclared
    BY DEF NilDeclared
  <2> QED BY <1>6, <2>1 DEF Reason
<1>8. /\ HooksDue' <=> HooksDue
      /\ \A i : HooksSeen(i)' <=> HooksSeen(i)
      /\ \A a : Executed(a)' = Executed(a)
  BY DEF HooksDue, HooksSeen, Executed
<1>9. InOrder' <=> InOrder
  BY DEF InOrder
<1>10. StopsOnError' <=> StopsOnError
  BY <1>6 DEF StopsOnError
<1> QED BY <1>2, <1>3, <1>4, <1>5, <1>6, <1>7, <1>8, <1>9, <1>10

(* While the steps are under way there is no error of the case, and the    *)
(* steps behind have passed.                                               *)
LEMMA StepsUnderWay ==
    ASSUME Inv, pc \in {"begin", "action", "toAfter", "end"}
    PROVE  /\ idx \in DOMAIN case.steps /\ ~err
           /\ \A i \in 1 .. idx - 1 : StepPassed(i)
           /\ \A k \in DOMAIN log : log[k].part # "cleanup" /\ log[k].idx <= idx
BY DEF Inv, PlaceInv, PassInv, OrderInv, Behind

(* runStep is entered for a step of the file: what must hold of the log,   *)
(* the step's error and the reports for the invariant to hold inside.      *)
LEMMA EnterInv ==
    ASSUME Inv, TypeOK', UNCHANGED <<case, idx, err, log>>, pc \in {"begin", "action", "toAfter"},
           NEW st \in Step, NEW p \in {"before", "main", "after"}, NEW n \in Nat, EnterStep(st, p, n),
           p = "before" => /\ n \in DOMAIN case.before /\ st = case.before[n]
                           /\ \A m \in 1 .. n - 1 : AllPassed(case.before[m], "before", idx, m),
           p = "main" => /\ n = 1 /\ st = case.steps[idx] /\ BeforePassed(idx),
           p = "after" => /\ n \in DOMAIN case.after /\ st = case.after[n]
                          /\ \A m \in 1 .. n - 1 : AllPassed(case.after[m], "after", idx, m),
           p # "after" => ~result', p = "after" => main' \in StepReport,
           p = "after" /\ ~result' => AllPassed(case.steps[idx], "main", idx, 1) /\ BeforePassed(idx),
           result' => Reason,
           \A k \in DOMAIN log : log[k].idx = idx =>
               PartRank(log[k].part) < PartRank(p) \/ (log[k].part = p /\ log[k].pos < n),
           \A k \in DOMAIN log : Fatal(log[k]) =>
               p = "after" /\ log[k].part # "after" /\ log[k].idx = idx /\ result',
           HooksDue /\ p = "after" => HooksSeen(idx) \/ n = 1,
           \A k \in DOMAIN log : HooksDue /\ log[k].part \in {"before", "main"} =>
               HooksSeen(log[k].idx) \/ log[k].idx = idx,
           \A a \in Mutating : Cardinality(Executed(a)) =
               ObjectStats(report', a) + (IF p = "after" THEN Cardinality(Counted(main'.acts, a)) ELSE 0)
    PROVE  Inv'
<1>0. /\ pc' = "action" /\ part' = p /\ pos' = n /\ acts' = <<>>
      /\ slot' \in 1 .. 8 /\ broken' \in BOOLEAN /\ broken' = st.isNil
      /\ slot' <= 7 => ActionOrder[slot'] \in st.actions
      /\ \A j \in 1 .. 7 : j < slot' => ActionOrder[j] \notin st.actions
  BY Entered
<1>a. /\ idx \in DOMAIN case.steps /\ ~err
      /\ \A i \in 1 .. idx - 1 : StepPassed(i)
      /\ \A k \in DOMAIN log : log[k].part # "cleanup" /\ log[k].idx <= idx
  BY StepsUnderWay
<1>1. CurrentStep' = st
  BY <1>0 DEF CurrentStep, Hooks
<1>2. PlaceInv'
  BY <1>0, <1>a, <1>1, Actions DEF PlaceInv, MainPending
<1>3. OrderInv'
  <2>1. ASSUME NEW k \in DOMAIN log PROVE Behind(log[k])'
    <3>1. log[k].idx <= idx /\ log[k].part # "cleanup"
      BY <1>a
    <3>2. log[k].idx = idx => PartRank(log[k].part) < PartRank(p) \/ (log[k].part = p /\ log[k].pos < n)
      OBVIOUS
    <3>3. log[k].pos \in Nat
      BY EventShape DEF Inv
    <3>4. log[k].idx = idx =>
            /\ PartRank(log[k].part) <= PartRank(p)
            /\ log[k].part = p => log[k].pos < n
      BY <3>2 DEF PartRank
    <3> QED BY <1>0, <3>1, <3>3, <3>4 DEF Behind
  <2> QED BY <2>1, Frozen DEF OrderInv, Inv
<1>4. ErrorInv'
  <2>1. ASSUME NEW k \in DOMAIN log PROVE Halted(log[k])'
    <3>1. ~At(log[k], p, idx, n)
      BY EventShape DEF At, PartRank, Inv
    <3>2. ~At(log[k], part, idx, pos)'
      BY <1>0, <3>1 DEF At
    <3>3. Fatal(log[k]) => p = "after" /\ log[k].part # "after" /\ log[k].idx = idx /\ result'
      OBVIOUS
    <3>4. Fatal(log[k])' <=> Fatal(log[k])
      BY Frozen
    <3> QED BY <1>0, <3>2, <3>3, <3>4 DEF Halted
  <2> QED BY <2>1, Frozen DEF ErrorInv, Inv
<1>5. PassInv'
  <2>1. \A i \in 1 .. idx' - 1 : StepPassed(i)'
    BY <1>a, Frozen
  <2>2. \A j \in 1 .. 7 : ~(j < slot' /\ ActionOrder[j] \in CurrentStep'.actions)
    BY <1>0, <1>1
  <2>3. part' = "before" => \A m \in 1 .. pos' - 1 : AllPassed(case.before[m], "before", idx, m)'
    BY <1>0, Frozen
  <2>4. part' = "main" => BeforePassed(idx)'
    BY <1>0, Frozen
  <2>5. part' = "after" => \A m \in 1 .. pos' - 1 : AllPassed(case.after[m], "after", idx, m)'
    BY <1>0, Frozen
  <2>6. part' = "after" /\ ~result' => AllPassed(case.steps[idx], "main", idx, 1)' /\ BeforePassed(idx)'
    BY <1>0, Frozen
  <2> QED BY <1>0, <1>1, <2>1, <2>2, <2>3, <2>4, <2>5, <2>6 DEF PassInv
<1>6. FailInv'
  BY <1>0, <1>1, Frozen DEF FailInv
<1>7. TeardownInv'
  <2>1. HooksDue /\ p = "after" => HooksSeen(idx) \/ (~broken' /\ slot' <= 7)
    <3> SUFFICES ASSUME HooksDue, p = "after", n = 1 PROVE ~broken' /\ slot' <= 7
      OBVIOUS
    <3>1. st.actions # {} /\ ~st.isNil
      BY DEF HooksDue
    <3>2. PICK a \in st.actions : TRUE
      BY <3>1
    <3>3. \E i \in 1 .. 7 : ActionOrder[i] = a
      BY <3>2, Actions, StepShape
    <3> QED BY <1>0, <3>1, <3>2, <3>3
  <2>2. \A k \in DOMAIN log' : log'[k].part # "cleanup"
    BY <1>a
  <2>3. HooksDue' => \A k \in DOMAIN log' :
          \/ log'[k].part \notin {"before", "main"}
          \/ HooksSeen(log[k].idx)'
          \/ log'[k].idx = idx' /\ pc' \in {"action", "toAfter"}
    BY <1>0, Frozen
  <2> QED BY <1>0, <2>1, <2>2, <2>3, Actions, Frozen DEF TeardownInv
<1>8. StatsInv'
  <2>1. Len(acts') < slot'
    BY <1>0
  <2>2. ASSUME NEW a \in Mutating
        PROVE  Cardinality(Executed(a))' = ObjectStats(report, a)' + Pending(a)'
    <3>1. Counted(acts', a) = {}
      BY <1>0 DEF Counted
    <3>2. Cardinality(Counted(acts', a)) = 0
      BY <3>1, FS_EmptySet
    <3>3. Pending(a)' = 0 + (IF p = "after" THEN Cardinality(Counted(main'.acts, a)) ELSE 0)
      BY <1>0, <3>2, Zenon DEF Pending, MainPending
    <3>4. Pending(a)' = IF p = "after" THEN Cardinality(Counted(main'.acts, a)) ELSE 0
      BY <3>3, CountedNat
    <3>5. Executed(a)' = Executed(a)
      BY Frozen
    <3> QED BY <3>4, <3>5
  <2> QED BY <2>1, <2>2 DEF StatsInv
<1> QED BY <1>2, <1>3, <1>4, <1>5, <1>6, <1>7, <1>8 DEF Inv

(* runStep has returned and the hooks go on, or are over. *)
LEMMA LeaveInv ==
    ASSUME Inv, TypeOK', UNCHANGED <<case, idx, err, log>>, pc \in {"action", "toAfter"},
           pc' \in {"toAfter", "end"}, main' \in StepReport,
           result' => Reason,
           ~result' => /\ AllPassed(case.steps[idx], "main", idx, 1) /\ BeforePassed(idx)
                       /\ pc' = "end" => AfterPassed(idx),
           \A k \in DOMAIN log : Fatal(log[k]) => log[k].idx = idx /\ result',
           pc' = "toAfter" => \A k \in DOMAIN log : log[k].idx = idx => log[k].part # "after",
           \A k \in DOMAIN log : HooksDue /\ log[k].part \in {"before", "main"} =>
               HooksSeen(log[k].idx) \/ (log[k].idx = idx /\ pc' = "toAfter"),
           \A a \in Mutating : Cardinality(Executed(a)) =
               ObjectStats(report', a) + Cardinality(Counted(main'.acts, a))
    PROVE  Inv'
<1>a. /\ idx \in DOMAIN case.steps /\ ~err
      /\ \A i \in 1 .. idx - 1 : StepPassed(i)
      /\ \A k \in DOMAIN log : log[k].part # "cleanup" /\ log[k].idx <= idx
  BY StepsUnderWay
<1>2. PlaceInv'
  BY <1>a DEF PlaceInv, MainPending
<1>3. OrderInv'
  <2>1. ASSUME NEW k \in DOMAIN log PROVE Behind(log[k])'
    BY <1>a DEF Behind
  <2> QED BY <2>1, Frozen DEF OrderInv, Inv
<1>4. ErrorInv'
  <2>1. ASSUME NEW k \in DOMAIN log PROVE Halted(log[k])'
    <3>1. Fatal(log[k])' <=> Fatal(log[k])
      BY Frozen
    <3> QED BY <3>1 DEF Halted
  <2> QED BY <2>1, Frozen DEF ErrorInv, Inv
<1>5. PassInv'
  <2>1. \A i \in 1 .. idx' - 1 : StepPassed(i)'
    BY <1>a, Frozen
  <2>2. ~result' => AllPassed(case.steps[idx], "main", idx, 1)' /\ BeforePassed(idx)'
    BY Frozen
  <2>3. ~result' /\ pc' = "end" => AfterPassed(idx)'
    BY Frozen
  <2> QED BY <2>1, <2>2, <2>3 DEF PassInv
<1>6. FailInv'
  BY Frozen DEF FailInv
<1>7. TeardownInv'
  <2>1. HooksDue' => \A k \in DOMAIN log' :
          \/ log'[k].part \notin {"before", "main"}
          \/ HooksSeen(log[k].idx)'
          \/ log'[k].idx = idx' /\ pc' \in {"action", "toAfter"}
    BY Frozen
  <2> QED BY <1>a, <2>1 DEF TeardownInv
<1>8. StatsInv'
  <2>1. ASSUME NEW a \in Mutating
        PROVE  Cardinality(Executed(a))' = ObjectStats(report, a)' + Pending(a)'
    <3>1. Pending(a)' = 0 + Cardinality(Counted(main'.acts, a))
      BY Zenon DEF Pending, MainPending
    <3>2. Pending(a)' = Cardinality(Counted(main'.acts, a))
      BY <3>1, CountedNat
    <3>3. Executed(a)' = Executed(a)
      BY Frozen
    <3> QED BY <3>2, <3>3
  <2> QED BY <2>1 DEF StatsInv
<1> QED BY <1>2, <1>3, <1>4, <1>5, <1>6, <1>7, <1>8 DEF Inv

(* The step an event at the present place belongs to. *)
LEMMA StepHere ==
    ASSUME TypeOK, NEW e, At(e, part, idx, pos)
    PROVE  StepOf(e) = CurrentStep
BY DEF At, StepOf, CurrentStep, Hooks, TypeOK

(* A step of the file that is under way and empty is declared. *)
LEMMA NilHere ==
    ASSUME TypeOK, PlaceInv, pc = "action", CurrentStep.isNil
    PROVE  NilDeclared
<1>1. CASE part = "before"
  BY <1>1 DEF NilDeclared, CurrentStep, Hooks, PlaceInv
<1>2. CASE part = "main"
  BY <1>2 DEF NilDeclared, CurrentStep, Hooks, PlaceInv
<1>3. CASE part = "after"
  BY <1>3 DEF NilDeclared, CurrentStep, Hooks, PlaceInv
<1> QED BY <1>1, <1>2, <1>3 DEF TypeOK

(* What runStep's error means: without one the step has passed, with one   *)
(* there is a reason, and a fatal failure inside the step is one.          *)
LEMMA StepReturns ==
    ASSUME Inv, StepOver
    PROVE  /\ pc = "action" /\ CurrentStep \in Step
           /\ ~StepError(CurrentStep) => AllPassed(CurrentStep, part, idx, pos)
           /\ StepError(CurrentStep) => Reason
           /\ \A k \in DOMAIN log :
                 Fatal(log[k]) /\ (part # "after" \/ log[k].part = "after") => StepError(CurrentStep)
<1>0. pc = "action" /\ TypeOK /\ PlaceInv
  BY DEF StepOver, Inv
<1>1. CurrentStep \in Step /\ CurrentStep.optional \in BOOLEAN /\ CurrentStep.actions \subseteq ActionName
  BY <1>0, CurrentStepIs, StepShape
<1>2. ASSUME ~StepError(CurrentStep) PROVE AllPassed(CurrentStep, part, idx, pos)
  <2>1. CASE CurrentStep.optional
    BY <2>1 DEF AllPassed
  <2>2. CASE ~CurrentStep.optional
    <3>1. ~broken
      BY <1>2, <2>2 DEF StepError
    <3>2. slot = 8
      <4>1. slot > Len(ActionOrder) /\ slot \in 1 .. Len(ActionOrder) + 1
        BY <1>0, <3>1 DEF StepOver, TypeOK
      <4> QED BY <4>1, Actions
    <3>3. ~CurrentStep.isNil
      BY <1>0, <3>1 DEF Inv, PassInv
    <3>4. ASSUME NEW a \in CurrentStep.actions PROVE Passed(part, idx, pos, a)
      <4>1. PICK j \in 1 .. 7 : ActionOrder[j] = a
        BY <1>1, Actions
      <4> QED BY <1>0, <3>1, <3>2, <4>1 DEF Inv, PassInv
    <3> QED BY <3>3, <3>4 DEF AllPassed
  <2> QED BY <1>1, <2>1, <2>2
<1>3. ASSUME StepError(CurrentStep) PROVE Reason
  <2>1. broken /\ ~CurrentStep.optional
    BY <1>3 DEF StepError
  <2>2. CASE CurrentStep.isNil
    BY <1>0, <2>2, NilHere DEF Reason
  <2>3. CASE \E k \in DOMAIN log : log[k].state = "failed" /\ At(log[k], part, idx, pos)
    <3>1. PICK k \in DOMAIN log : log[k].state = "failed" /\ At(log[k], part, idx, pos)
      BY <2>3
    <3>2. StepOf(log[k]) = CurrentStep
      BY <1>0, <3>1, StepHere
    <3> QED BY <2>1, <3>1, <3>2 DEF Fatal, Reason
  <2> QED BY <1>0, <2>1, <2>2, <2>3 DEF Inv, FailInv
<1>4. ASSUME NEW k \in DOMAIN log, Fatal(log[k]), part # "after" \/ log[k].part = "after"
      PROVE  StepError(CurrentStep)
  <2>1. log[k].state = "failed" /\ (log[k].part = "cleanup" \/ ~StepOf(log[k]).optional)
    BY <1>4 DEF Fatal
  <2>2. Halted(log[k])
    BY <2>1 DEF Inv, ErrorInv
  <2>3. broken /\ At(log[k], part, idx, pos)
    <3>1. CASE part # "after"
      BY <1>0, <1>4, <2>2, <3>1 DEF Halted
    <3>2. CASE part = "after"
      BY <1>0, <1>4, <2>2, <3>2 DEF Halted, At
    <3> QED BY <3>1, <3>2
  <2>4. StepOf(log[k]) = CurrentStep /\ log[k].part # "cleanup"
    BY <1>0, <2>3, StepHere, StepsUnderWay
  <2> QED BY <2>1, <2>3, <2>4 DEF StepError
<1> QED BY <1>0, <1>1, <1>2, <1>3, <1>4
-----------------------------------------------------------------------------
(* The object statistics. *)

(* As many places in report n as actions that passed in it. *)
LEMMA PlacesCounted ==
    ASSUME NEW rs, NEW a, NEW n
    PROVE  LET P == {<<n, j>> : j \in Counted(rs, a)}
           IN  IsFiniteSet(P) /\ Cardinality(P) = Cardinality(Counted(rs, a))
<1> DEFINE C == Counted(rs, a)
           P == {<<n, j>> : j \in C}
           f == [j \in C |-> <<n, j>>]
<1>1. IsFiniteSet(C)
  BY CountedNat
<1> HIDE DEF C
<1>2. f \in [C -> P]
  OBVIOUS
<1>3. \A i, j \in C : f[i] = f[j] => i = j
  OBVIOUS
<1>4. \A t \in P : \E j \in C : f[j] = t
  OBVIOUS
<1> HIDE DEF f, P
<1>5. f \in Bijection(C, P)
  BY <1>2, <1>3, <1>4 DEF Bijection, Injection, Surjection, IsInjective
<1>6. ExistsBijection(C, P)
  BY <1>5 DEF ExistsBijection
<1> QED BY <1>1, <1>6, FS_Bijection DEF C, P

(* stepStats adds up: one more report adds the actions that passed in it. *)
LEMMA StatsAppended ==
    ASSUME NEW rs \in Seq(StepReport), NEW r \in StepReport, NEW a
    PROVE  /\ StepStats(rs, a) \in Nat
           /\ StepStats(Append(rs, r), a) = StepStats(rs, a) + Cardinality(Counted(r.acts, a))
<1> DEFINE P == PassedActions(rs, a)
           n == Len(rs) + 1
           N == {<<n, j>> : j \in Counted(r.acts, a)}
<1>1. /\ Append(rs, r) \in Seq(StepReport) /\ Len(rs) \in Nat /\ DOMAIN rs = 1 .. Len(rs)
      /\ DOMAIN Append(rs, r) = 1 .. n /\ Append(rs, r)[n] = r
      /\ \A i \in 1 .. Len(rs) : Append(rs, r)[i] = rs[i]
  OBVIOUS
<1>2. IsFiniteSet(P)
  <2>1. 1 \in Int /\ 7 \in Int /\ Len(rs) \in Int
    BY <1>1
  <2>2. IsFiniteSet(1 .. Len(rs)) /\ IsFiniteSet(1 .. 7)
    BY <2>1, FS_Interval
  <2>3. IsFiniteSet((1 .. Len(rs)) \X (1 .. 7))
    BY <2>2, FS_Product
  <2>4. P \subseteq (1 .. Len(rs)) \X (1 .. 7)
    BY <1>1, Actions DEF PassedActions
  <2> QED BY <2>3, <2>4, FS_Subset
<1>3. IsFiniteSet(N) /\ Cardinality(N) = Cardinality(Counted(r.acts, a))
  BY PlacesCounted
<1>4. PassedActions(Append(rs, r), a) = P \cup N
  <2>1. ASSUME NEW p \in PassedActions(Append(rs, r), a) PROVE p \in P \cup N
    <3>0. /\ p \in (1 .. n) \X (1 .. 7) /\ p = <<p[1], p[2]>>
          /\ p[2] \in DOMAIN Append(rs, r)[p[1]].acts
          /\ Append(rs, r)[p[1]].acts[p[2]] = [action |-> a, state |-> "passed"]
      BY <1>1, <2>1, Actions DEF PassedActions
    <3>1. CASE p[1] = n
      <4>1. p[2] \in Counted(r.acts, a)
        BY <1>1, <3>0, <3>1 DEF Counted
      <4> QED BY <3>0, <3>1, <4>1
    <3>2. CASE p[1] # n
      <4>1. p[1] \in 1 .. Len(rs)
        BY <1>1, <3>0, <3>2
      <4>2. Append(rs, r)[p[1]] = rs[p[1]]
        BY <1>1, <4>1
      <4> QED BY <1>1, <3>0, <4>1, <4>2, Actions DEF PassedActions
    <3> QED BY <3>1, <3>2
  <2>2. ASSUME NEW p \in P PROVE p \in PassedActions(Append(rs, r), a)
    <3>1. /\ p \in (1 .. Len(rs)) \X (1 .. 7)
          /\ p[2] \in DOMAIN rs[p[1]].acts /\ rs[p[1]].acts[p[2]] = [action |-> a, state |-> "passed"]
      BY <1>1, <2>2, Actions DEF PassedActions
    <3>2. p[1] \in 1 .. Len(rs) /\ p \in (1 .. n) \X (1 .. 7)
      BY <1>1, <3>1
    <3>3. Append(rs, r)[p[1]] = rs[p[1]]
      BY <1>1, <3>2
    <3> QED BY <1>1, <3>1, <3>2, <3>3, Actions DEF PassedActions
  <2>3. ASSUME NEW p \in N PROVE p \in PassedActions(Append(rs, r), a)
    <3>1. PICK j \in Counted(r.acts, a) : p = <<n, j>>
      BY <2>3
    <3>2. /\ j \in 1 .. 7 /\ j \in DOMAIN r.acts /\ r.acts[j] = [action |-> a, state |-> "passed"]
      BY DEF Counted
    <3>3. n \in 1 .. n
      BY <1>1
    <3> QED BY <1>1, <3>1, <3>2, <3>3, Actions DEF PassedActions
  <2> HIDE DEF P, N, n
  <2> QED BY <2>1, <2>2, <2>3
<1>5. P \cap N = {}
  <2>1. ASSUME NEW p \in P, p \in N PROVE FALSE
    <3>1. p[1] \in 1 .. Len(rs)
      BY <1>1, <2>1 DEF PassedActions
    <3>2. p[1] = n
      BY <2>1
    <3> QED BY <1>1, <3>1, <3>2
  <2> QED BY <2>1
<1>6. Cardinality(P) \in Nat
  BY <1>2, FS_CardinalityType
<1>7. Cardinality(P \cup N) = Cardinality(P) + Cardinality(N)
  <2> HIDE DEF P, N
  <2>1. Cardinality(P \cup N) = Cardinality(P) + Cardinality(N) - Cardinality(P \cap N)
    BY <1>2, <1>3, FS_Union
  <2>2. Cardinality(P \cap N) = 0
    BY <1>5, FS_EmptySet
  <2>3. Cardinality(N) \in Nat
    BY <1>3, FS_CardinalityType
  <2> QED BY <1>6, <2>1, <2>2, <2>3
<1> QED BY <1>3, <1>4, <1>6, <1>7 DEF StepStats

(* A hook's report joins the case report, and its actions the statistics. *)
LEMMA HookReported ==
    ASSUME TypeOK, report' = [report EXCEPT !.hooks = Append(@, Report(CurrentStep))]
    PROVE  /\ report' \in CaseReport
           /\ \A a : /\ ObjectStats(report, a) \in Nat
                     /\ ObjectStats(report', a) = ObjectStats(report, a) + Cardinality(Counted(acts, a))
<1> DEFINE r == Report(CurrentStep)
<1>1. r \in StepReport /\ r.acts = acts
  BY ReportShape
<1> HIDE DEF r
<1>2. /\ report.hooks \in Seq(StepReport) /\ report.steps \in Seq(StepReport)
      /\ Append(report.hooks, r) \in Seq(StepReport)
  <2>1. report.hooks \in Seq(StepReport) /\ report.steps \in Seq(StepReport)
    BY DEF TypeOK
  <2> QED BY <1>1, <2>1
<1>3. report' = [report EXCEPT !.hooks = Append(report.hooks, r)]
  BY DEF r
<1>4. report'.hooks = Append(report.hooks, r) /\ report'.steps = report.steps
  BY <1>3 DEF TypeOK
<1>5. ASSUME NEW a
      PROVE  /\ ObjectStats(report, a) \in Nat
             /\ ObjectStats(report', a) = ObjectStats(report, a) + Cardinality(Counted(acts, a))
  <2>1. /\ StepStats(report.hooks, a) \in Nat /\ StepStats(report.steps, a) \in Nat
        /\ StepStats(Append(report.hooks, r), a)
             = StepStats(report.hooks, a) + Cardinality(Counted(r.acts, a))
    BY <1>1, <1>2, StatsAppended
  <2>2. Cardinality(Counted(acts, a)) \in Nat
    BY CountedNat
  <2> QED BY <1>1, <1>4, <2>1, <2>2 DEF ObjectStats
<1>6. report' \in CaseReport
  BY <1>2, <1>3 DEF TypeOK, CaseReport
<1> QED BY <1>5, <1>6

(* What the report and the step under way account for. *)
LEMMA StatsHere ==
    ASSUME Inv, NEW a \in Mutating
    PROVE  /\ ObjectStats(report, a) \in Nat
           /\ pc = "begin" => Cardinality(Executed(a)) = ObjectStats(report, a)
           /\ pc = "action" /\ part # "after" =>
                Cardinality(Executed(a)) = ObjectStats(report, a) + Cardinality(Counted(acts, a))
           /\ pc = "action" /\ part = "after" =>
                Cardinality(Executed(a)) = ObjectStats(report, a) + Cardinality(Counted(acts, a))
                                                                  + Cardinality(Counted(main.acts, a))
           /\ pc \in {"toAfter", "end"} =>
                Cardinality(Executed(a)) = ObjectStats(report, a) + Cardinality(Counted(main.acts, a))
           /\ pc \notin {"action", "toAfter", "end"} => Pending(a) = 0
<1>1. report.hooks \in Seq(StepReport) /\ report.steps \in Seq(StepReport)
  BY DEF Inv, TypeOK
<1>2. ObjectStats(report, a) \in Nat
  <2>1. SkippedReport \in StepReport
    BY DEF SkippedReport, StepReport
  <2> QED BY <1>1, <2>1, StatsAppended DEF ObjectStats
<1>3. Cardinality(Executed(a)) = ObjectStats(report, a) + Pending(a)
  BY DEF Inv, StatsInv
<1>4. Cardinality(Counted(acts, a)) \in Nat /\ Cardinality(Counted(main.acts, a)) \in Nat
  BY CountedNat
<1> QED BY <1>2, <1>3, <1>4 DEF Pending, MainPending

(* runStepWithHooks starts for a main step. *)
LEMMA BeginStepInv == Inv /\ BeginStep => Inv'
<1> SUFFICES ASSUME Inv, BeginStep PROVE Inv'
  OBVIOUS
<1>0. /\ pc = "begin" /\ ~result' /\ result' \in BOOLEAN /\ main' = NoReport
      /\ UNCHANGED <<case, idx, report, err, log>>
  BY DEF BeginStep
<1>1. /\ idx \in DOMAIN case.steps /\ case.steps[idx] \in Step /\ TypeOK
      /\ case.before # <<>> => 1 \in DOMAIN case.before /\ case.before[1] \in Step
      /\ case.before = <<>> => DOMAIN case.before = {}
  BY <1>0, CaseShape DEF Inv, PlaceInv
<1>2. \A k \in DOMAIN log : log[k].idx # idx
  <2> SUFFICES ASSUME NEW k \in DOMAIN log PROVE log[k].idx # idx
    OBVIOUS
  <2>1. Behind(log[k])
    BY DEF Inv, OrderInv
  <2>2. log[k].idx < idx /\ log[k].idx \in Nat /\ idx \in Nat
    BY <1>0, <1>1, <2>1, EventShape DEF Behind, TypeOK
  <2> QED BY <2>2
<1>3. \A k \in DOMAIN log : ~Fatal(log[k])
  BY <1>0 DEF Inv, ErrorInv, Halted, Fatal
<1>4. \A k \in DOMAIN log : HooksDue /\ log[k].part \in {"before", "main"} => HooksSeen(log[k].idx)
  BY <1>0 DEF Inv, TeardownInv
<1>5. \A a \in Mutating : Cardinality(Executed(a)) = ObjectStats(report', a) + 0
  BY <1>0, StatsHere
<1>6. CASE case.before = <<>>
  <2>1. EnterStep(case.steps[idx], "main", 1)
    BY <1>6 DEF BeginStep
  <2>2. BeforePassed(idx)
    BY <1>1, <1>6 DEF BeforePassed
  <2>3. TypeOK'
    BY <1>0, <1>1, <2>1, EnterType DEF TypeOK, CaseReport
  <2> HIDE DEF Inv
  <2> QED BY <1>0, <1>1, <1>2, <1>3, <1>4, <1>5, <2>1, <2>2, <2>3, EnterInv
<1>7. CASE case.before # <<>>
  <2>1. EnterStep(case.before[1], "before", 1)
    BY <1>7 DEF BeginStep
  <2>3. TypeOK'
    BY <1>0, <1>1, <1>7, <2>1, EnterType DEF TypeOK, CaseReport
  <2> QED BY <1>0, <1>1, <1>2, <1>3, <1>4, <1>5, <1>7, <2>1, <2>3, EnterInv
<1> QED BY <1>6, <1>7

(* A before-each hook returns: the next one, the main step, or, after an   *)
(* error, the after-each hooks.                                            *)
LEMMA FinishBeforeHookInv == Inv /\ FinishBeforeHook => Inv'
<1> SUFFICES ASSUME Inv, FinishBeforeHook PROVE Inv'
  OBVIOUS
<1> DEFINE e == StepError(CurrentStep)
<1>0. /\ StepOver /\ part = "before" /\ UNCHANGED <<case, idx, err, log>>
      /\ report' = [report EXCEPT !.hooks = Append(@, Report(CurrentStep))]
  BY DEF FinishBeforeHook
<1>1. /\ pc = "action" /\ TypeOK /\ PlaceInv /\ ~result /\ main \in StepReport \cup {NoReport}
      /\ pos \in DOMAIN case.before /\ CurrentStep = case.before[pos] /\ idx \in DOMAIN case.steps
  BY <1>0 DEF Inv, PlaceInv, StepOver, CurrentStep, Hooks, TypeOK
<1>2. /\ DOMAIN case.before = 1 .. Len(case.before) /\ Len(case.before) \in Nat /\ pos \in Nat
      /\ \A i \in DOMAIN case.before : case.before[i] \in Step
      /\ case.steps[idx] \in Step
  <2>1. pos \in Nat
    BY <1>1 DEF TypeOK
  <2>2. case.before \in Seq(Step)
    BY <1>1, CaseShape
  <2> QED BY <1>1, <2>1, <2>2, CaseShape
<1>3. /\ ~e => AllPassed(case.before[pos], "before", idx, pos)
      /\ e => Reason
      /\ \A k \in DOMAIN log : Fatal(log[k]) => e
  BY <1>0, <1>1, StepReturns
<1>4. \A k \in DOMAIN log : log[k].idx = idx => log[k].part = "before" /\ log[k].pos <= pos
  <2> SUFFICES ASSUME NEW k \in DOMAIN log, log[k].idx = idx
               PROVE  log[k].part = "before" /\ log[k].pos <= pos
    OBVIOUS
  <2>1. Behind(log[k]) /\ log[k].part \in {"before", "main", "after", "cleanup"}
    BY <1>1, EventShape DEF Inv, OrderInv
  <2>2. PartRank(log[k].part) <= 1
    BY <1>0, <1>1, <2>1 DEF Behind, PartRank
  <2>3. log[k].part = "before"
    BY <2>1, <2>2 DEF PartRank
  <2> QED BY <1>0, <1>1, <2>1, <2>3 DEF Behind
<1>5. \A n \in 1 .. pos - 1 : AllPassed(case.before[n], "before", idx, n)
  BY <1>0, <1>1 DEF Inv, PassInv
<1>6. \A k \in DOMAIN log : HooksDue /\ log[k].part \in {"before", "main"} =>
               HooksSeen(log[k].idx) \/ log[k].idx = idx
  BY DEF Inv, TeardownInv
<1>7. /\ report' \in CaseReport
      /\ \A a \in Mutating : /\ ObjectStats(report', a) \in Nat
                             /\ Cardinality(Executed(a)) = ObjectStats(report', a)
  <2>1. \A a \in Mutating : Cardinality(Counted(acts, a)) \in Nat
    BY CountedNat
  <2>2. /\ report' \in CaseReport
        /\ \A a \in Mutating :
             /\ ObjectStats(report, a) \in Nat
             /\ ObjectStats(report', a) = ObjectStats(report, a) + Cardinality(Counted(acts, a))
    BY <1>0, <1>1, HookReported
  <2>3. \A a \in Mutating : Cardinality(Executed(a)) = ObjectStats(report, a) + Cardinality(Counted(acts, a))
    BY <1>0, <1>1, StatsHere
  <2> QED BY <2>1, <2>2, <2>3
<1>8. \/ /\ ~e /\ pos < Len(case.before) /\ UNCHANGED <<main, result>>
         /\ EnterStep(case.before[pos + 1], "before", pos + 1)
      \/ /\ ~e /\ pos = Len(case.before) /\ UNCHANGED <<main, result>>
         /\ EnterStep(case.steps[idx], "main", 1)
      \/ /\ e /\ pc' = "toAfter" /\ main' = SkippedReport /\ result' = TRUE
         /\ UNCHANGED <<part, pos, slot, acts, broken>>
  BY <1>2, <1>1 DEF FinishBeforeHook, AfterBeforeHook
<1>9. CASE /\ ~e /\ pos < Len(case.before) /\ UNCHANGED <<main, result>>
           /\ EnterStep(case.before[pos + 1], "before", pos + 1)
  <2>1. pos + 1 \in DOMAIN case.before /\ pos + 1 \in Nat /\ case.before[pos + 1] \in Step
    BY <1>2, <1>9
  <2>2. TypeOK'
    BY <1>0, <1>1, <1>7, <1>9, <2>1, EnterType DEF TypeOK
  <2>3. \A m \in 1 .. (pos + 1) - 1 : AllPassed(case.before[m], "before", idx, m)
    BY <1>2, <1>3, <1>5, <1>9
  <2>4. \A k \in DOMAIN log : log[k].idx = idx =>
            log[k].part = "before" /\ log[k].pos < pos + 1
    BY <1>1, <1>2, <1>4, EventShape
  <2>5. \A a \in Mutating : Cardinality(Executed(a)) = ObjectStats(report', a) + 0
    BY <1>7
  <2> HIDE DEF e
  <2> QED BY <1>0, <1>1, <1>3, <1>6, <1>9, <2>1, <2>2, <2>3, <2>4, <2>5, EnterInv
<1>10. CASE /\ ~e /\ pos = Len(case.before) /\ UNCHANGED <<main, result>>
            /\ EnterStep(case.steps[idx], "main", 1)
  <2>1. BeforePassed(idx)
    BY <1>2, <1>3, <1>5, <1>10 DEF BeforePassed
  <2>2. TypeOK'
    BY <1>0, <1>1, <1>2, <1>7, <1>10, EnterType DEF TypeOK
  <2>3. \A k \in DOMAIN log : log[k].idx = idx => PartRank(log[k].part) < PartRank("main")
    BY <1>4 DEF PartRank
  <2>4. \A a \in Mutating : Cardinality(Executed(a)) = ObjectStats(report', a) + 0
    BY <1>7
  <2> HIDE DEF e
  <2> QED BY <1>0, <1>1, <1>2, <1>3, <1>6, <1>10, <2>1, <2>2, <2>3, <2>4, EnterInv
<1>11. CASE /\ e /\ pc' = "toAfter" /\ main' = SkippedReport /\ result' = TRUE
            /\ UNCHANGED <<part, pos, slot, acts, broken>>
  <2>1. SkippedReport \in StepReport /\ SkippedReport.acts = <<>>
    BY DEF SkippedReport, StepReport
  <2>2. TypeOK'
    BY <1>0, <1>1, <1>7, <1>11, <2>1 DEF TypeOK, CaseReport
  <2>3. \A k \in DOMAIN log : Fatal(log[k]) => log[k].idx = idx
    BY <1>0, <1>1 DEF Inv, ErrorInv, Halted, Fatal, At
  <2>4. \A a \in Mutating :
            Cardinality(Executed(a)) = ObjectStats(report', a) + Cardinality(Counted(main'.acts, a))
    <3>1. \A a \in Mutating : Counted(main'.acts, a) = {}
      BY <1>11, <2>1 DEF Counted
    <3> QED BY <1>7, <3>1, FS_EmptySet
  <2> HIDE DEF e
  <2> QED BY <1>0, <1>1, <1>3, <1>4, <1>6, <1>11, <2>1, <2>2, <2>3, <2>4, LeaveInv
<1> QED BY <1>8, <1>9, <1>10, <1>11

(* The main step returns. *)
LEMMA FinishMainInv == Inv /\ FinishMain => Inv'
<1> SUFFICES ASSUME Inv, FinishMain PROVE Inv'
  OBVIOUS
<1> DEFINE e == StepError(CurrentStep)
<1>0. /\ StepOver /\ part = "main" /\ pc' = "toAfter" /\ main' = Report(CurrentStep) /\ result' = e
      /\ UNCHANGED <<case, idx, part, pos, slot, acts, broken, report, err, log>>
  BY DEF FinishMain
<1>1. /\ pc = "action" /\ TypeOK /\ PlaceInv /\ pos = 1
      /\ CurrentStep = case.steps[idx]
  BY <1>0 DEF Inv, PlaceInv, StepOver, CurrentStep
<1>2. main' \in StepReport /\ main'.acts = acts
  BY <1>0, <1>1, ReportShape
<1>3. e \in BOOLEAN
  BY DEF StepError
<1>4. TypeOK'
  BY <1>0, <1>1, <1>2, <1>3 DEF TypeOK
<1>5. /\ ~e => AllPassed(case.steps[idx], "main", idx, 1)
      /\ e => Reason
      /\ \A k \in DOMAIN log : Fatal(log[k]) => e
  BY <1>0, <1>1, StepReturns
<1>6. BeforePassed(idx)
  BY <1>0, <1>1 DEF Inv, PassInv
<1>7. \A k \in DOMAIN log : Fatal(log[k]) => log[k].idx = idx
  BY <1>0, <1>1 DEF Inv, ErrorInv, Halted, Fatal, At
<1>8. \A k \in DOMAIN log : log[k].idx = idx => log[k].part # "after"
  BY <1>0, <1>1 DEF Inv, OrderInv, Behind, PartRank
<1>9. \A k \in DOMAIN log : HooksDue /\ log[k].part \in {"before", "main"} =>
               HooksSeen(log[k].idx) \/ log[k].idx = idx
  BY DEF Inv, TeardownInv
<1>10. \A a \in Mutating : Cardinality(Executed(a)) = ObjectStats(report, a) + Cardinality(Counted(acts, a))
  BY <1>0, <1>1, StatsHere
<1> HIDE DEF e
<1> QED BY <1>0, <1>1, <1>2, <1>4, <1>5, <1>6, <1>7, <1>8, <1>9, <1>10, LeaveInv

(* The main step or a failed hook is over: the after-each hooks, if any.   *)
LEMMA StartAfterHooksInv == Inv /\ StartAfterHooks => Inv'
<1> SUFFICES ASSUME Inv, StartAfterHooks PROVE Inv'
  OBVIOUS
<1>0. pc = "toAfter" /\ UNCHANGED <<case, idx, result, main, report, err, log>>
  BY DEF StartAfterHooks
<1>1. TypeOK /\ PlaceInv /\ main \in StepReport /\ result \in BOOLEAN
  BY <1>0 DEF Inv, PlaceInv, MainPending, TypeOK
<1>2. /\ case.after # <<>> => 1 \in DOMAIN case.after /\ case.after[1] \in Step
      /\ case.after = <<>> => DOMAIN case.after = {}
  BY <1>1, CaseShape
<1>3. result => Reason
  BY <1>0 DEF Inv, FailInv
<1>4. ~result => AllPassed(case.steps[idx], "main", idx, 1) /\ BeforePassed(idx)
  BY <1>0 DEF Inv, PassInv
<1>5. \A k \in DOMAIN log : Fatal(log[k]) => log[k].idx = idx /\ result
  BY <1>0 DEF Inv, ErrorInv, Halted, Fatal
<1>6. \A k \in DOMAIN log : log[k].idx = idx => log[k].part \in {"before", "main"}
  <2> SUFFICES ASSUME NEW k \in DOMAIN log, log[k].idx = idx PROVE log[k].part \in {"before", "main"}
    OBVIOUS
  <2>1. Behind(log[k]) /\ log[k].part \in {"before", "main", "after", "cleanup"}
    BY <1>1, EventShape DEF Inv, OrderInv
  <2> QED BY <1>0, <2>1 DEF Behind
<1>7. \A k \in DOMAIN log : HooksDue /\ log[k].part \in {"before", "main"} =>
               HooksSeen(log[k].idx) \/ log[k].idx = idx
  BY DEF Inv, TeardownInv
<1>8. \A a \in Mutating : Cardinality(Executed(a)) = ObjectStats(report, a) + Cardinality(Counted(main.acts, a))
  BY <1>0, StatsHere
<1>9. CASE NoAfterHooks
  <2>1. pc' = "end" /\ UNCHANGED <<part, pos, slot, acts, broken>>
    BY <1>9 DEF StartAfterHooks
  <2>2. TypeOK'
    BY <1>0, <1>1, <2>1 DEF TypeOK
  <2>3. AfterPassed(idx)
    BY <1>2, <1>9 DEF NoAfterHooks, AfterPassed
  <2>4. ~HooksDue
    BY <1>9 DEF NoAfterHooks, HooksDue
  <2> QED BY <1>0, <1>1, <1>3, <1>4, <1>5, <1>8, <2>1, <2>2, <2>3, <2>4, LeaveInv
<1>10. CASE ~NoAfterHooks
  <2>1. EnterStep(case.after[1], "after", 1) /\ case.after[1] \in Step /\ 1 \in DOMAIN case.after
    BY <1>2, <1>10 DEF StartAfterHooks, NoAfterHooks
  <2>2. TypeOK'
    <3>1. report' \in CaseReport /\ result' \in BOOLEAN /\ main' \in StepReport \cup {NoReport}
      BY <1>0, <1>1 DEF TypeOK, CaseReport
    <3> QED BY <1>0, <1>1, <2>1, <3>1, EnterType
  <2>3. \A k \in DOMAIN log : log[k].idx = idx => PartRank(log[k].part) < PartRank("after")
    BY <1>6 DEF PartRank
  <2>4. \A k \in DOMAIN log : Fatal(log[k]) => log[k].part # "after" /\ log[k].idx = idx /\ result
    BY <1>5, <1>6
  <2> QED BY <1>0, <1>1, <1>3, <1>4, <1>7, <1>8, <2>1, <2>2, <2>3, <2>4, EnterInv
<1> QED BY <1>9, <1>10

(* An after-each hook returns: the next one, or the end of the step. *)
LEMMA FinishAfterHookInv == Inv /\ FinishAfterHook => Inv'
<1> SUFFICES ASSUME Inv, FinishAfterHook PROVE Inv'
  OBVIOUS
<1> DEFINE e == StepError(CurrentStep)
<1>0. /\ StepOver /\ part = "after" /\ UNCHANGED <<case, idx, main, err, log>>
      /\ report' = [report EXCEPT !.hooks = Append(@, Report(CurrentStep))]
      /\ result' = (result \/ e)
  BY DEF FinishAfterHook
<1>1. /\ pc = "action" /\ TypeOK /\ PlaceInv /\ main \in StepReport /\ idx \in DOMAIN case.steps
      /\ pos \in DOMAIN case.after /\ CurrentStep = case.after[pos] /\ result \in BOOLEAN /\ e \in BOOLEAN
  <2>1. pc = "action" /\ TypeOK /\ PlaceInv /\ result \in BOOLEAN /\ e \in BOOLEAN
    BY <1>0 DEF Inv, StepOver, TypeOK, StepError
  <2> HIDE DEF e
  <2> QED BY <1>0, <2>1 DEF PlaceInv, CurrentStep, Hooks, MainPending
<1>2. /\ DOMAIN case.after = 1 .. Len(case.after) /\ Len(case.after) \in Nat /\ pos \in Nat
      /\ \A i \in DOMAIN case.after : case.after[i] \in Step
  <2>1. pos \in Nat
    BY <1>1 DEF TypeOK
  <2>2. case.after \in Seq(Step)
    BY <1>1, CaseShape
  <2> QED BY <1>1, <2>1, <2>2, CaseShape
<1>3. /\ ~e => AllPassed(case.after[pos], "after", idx, pos)
      /\ e => Reason
      /\ \A k \in DOMAIN log : Fatal(log[k]) /\ log[k].part = "after" => e
  BY <1>0, <1>1, StepReturns
<1> HIDE DEF e
<1>4. result' => Reason
  BY <1>0, <1>1, <1>3 DEF Inv, FailInv
<1>5. ~result' => AllPassed(case.steps[idx], "main", idx, 1) /\ BeforePassed(idx)
  BY <1>0, <1>1 DEF Inv, PassInv
<1>6. \A n \in 1 .. pos - 1 : AllPassed(case.after[n], "after", idx, n)
  BY <1>0, <1>1 DEF Inv, PassInv
<1>7. \A k \in DOMAIN log : Fatal(log[k]) => log[k].idx = idx /\ (log[k].part # "after" => result)
  BY <1>0, <1>1 DEF Inv, ErrorInv, Halted, Fatal
<1>8. \A k \in DOMAIN log : log[k].idx = idx =>
          PartRank(log[k].part) < PartRank("after") \/ (log[k].part = "after" /\ log[k].pos < pos + 1)
  <2> SUFFICES ASSUME NEW k \in DOMAIN log, log[k].idx = idx
               PROVE  PartRank(log[k].part) < PartRank("after") \/ (log[k].part = "after" /\ log[k].pos < pos + 1)
    OBVIOUS
  <2>1. /\ Behind(log[k]) /\ log[k].part \in {"before", "main", "after", "cleanup"} /\ log[k].pos \in Nat
    BY <1>1, EventShape DEF Inv, OrderInv
  <2>2. log[k].part # "cleanup" /\ (log[k].part = "after" => log[k].pos <= pos)
    BY <1>0, <1>1, <2>1 DEF Behind
  <2> QED BY <1>2, <2>1, <2>2 DEF PartRank
<1>9. HooksDue => HooksSeen(idx)
  <2>1. HooksDue => HooksSeen(idx) \/ (~broken /\ slot <= Len(ActionOrder))
    BY <1>0, <1>1 DEF Inv, TeardownInv
  <2>2. broken \/ slot > Len(ActionOrder)
    BY <1>0 DEF StepOver
  <2>3. slot \in Nat /\ Len(ActionOrder) \in Nat
    <3>1. slot \in 1 .. Len(ActionOrder) + 1
      BY <1>1 DEF TypeOK
    <3> QED BY <3>1, Actions
  <2> QED BY <2>1, <2>2, <2>3
<1>10. \A k \in DOMAIN log : HooksDue /\ log[k].part \in {"before", "main"} => HooksSeen(log[k].idx)
  BY <1>9 DEF Inv, TeardownInv
<1>11. /\ report' \in CaseReport
       /\ \A a \in Mutating :
             Cardinality(Executed(a)) = ObjectStats(report', a) + Cardinality(Counted(main'.acts, a))
  <2>1. \A a \in Mutating : /\ Cardinality(Counted(acts, a)) \in Nat
                            /\ Cardinality(Counted(main.acts, a)) \in Nat
    BY CountedNat
  <2>2. /\ report' \in CaseReport
        /\ \A a \in Mutating :
             /\ ObjectStats(report, a) \in Nat
             /\ ObjectStats(report', a) = ObjectStats(report, a) + Cardinality(Counted(acts, a))
    BY <1>0, <1>1, HookReported
  <2>3. \A a \in Mutating : Cardinality(Executed(a)) =
            ObjectStats(report, a) + Cardinality(Counted(acts, a)) + Cardinality(Counted(main.acts, a))
    BY <1>0, <1>1, StatsHere
  <2> QED BY <1>0, <2>1, <2>2, <2>3
<1>12. CASE ~e /\ pos < Len(case.after)
  <2>1. EnterStep(case.after[pos + 1], "after", pos + 1)
    BY <1>12 DEF FinishAfterHook, e
  <2>2. pos + 1 \in DOMAIN case.after /\ pos + 1 \in Nat /\ case.after[pos + 1] \in Step
    BY <1>2, <1>12
  <2>3. TypeOK'
    <3>1. result' \in BOOLEAN /\ main' \in StepReport \cup {NoReport} /\ UNCHANGED <<case, idx, err, log>>
      BY <1>0, <1>1
    <3> QED BY <1>1, <1>11, <2>1, <2>2, <3>1, EnterType
  <2>4. \A m \in 1 .. (pos + 1) - 1 : AllPassed(case.after[m], "after", idx, m)
    BY <1>2, <1>3, <1>6, <1>12
  <2>5. \A k \in DOMAIN log : Fatal(log[k]) => log[k].part # "after" /\ log[k].idx = idx /\ result'
    BY <1>0, <1>3, <1>7, <1>12
  <2> QED BY <1>0, <1>1, <1>4, <1>5, <1>8, <1>9, <1>10, <1>11, <2>1, <2>2, <2>3, <2>4, <2>5, EnterInv
<1>13. CASE ~(~e /\ pos < Len(case.after))
  <2>1. pc' = "end" /\ UNCHANGED <<part, pos, slot, acts, broken>>
    BY <1>13 DEF FinishAfterHook, e
  <2>2. TypeOK'
    BY <1>0, <1>1, <1>11, <2>1 DEF TypeOK, CaseReport
  <2>3. ~result' => AfterPassed(idx)
    <3> SUFFICES ASSUME ~result', NEW n \in DOMAIN case.after
                 PROVE  AllPassed(case.after[n], "after", idx, n)
      BY DEF AfterPassed
    <3>1. ~e
      BY <1>0
    <3>2. pos = Len(case.after)
      BY <1>1, <1>2, <1>13, <3>1
    <3>3. n \in 1 .. pos - 1 \/ n = pos
      BY <1>2, <3>2
    <3> QED BY <1>3, <1>6, <3>1, <3>3
  <2>4. \A k \in DOMAIN log : Fatal(log[k]) => log[k].idx = idx /\ result'
    BY <1>0, <1>3, <1>7
  <2> QED BY <1>0, <1>1, <1>4, <1>5, <1>10, <1>11, <2>1, <2>2, <2>3, <2>4, LeaveInv
<1> QED BY <1>12, <1>13

(* The step's report joins the case report, and its actions the            *)
(* statistics.                                                             *)
LEMMA StepReported ==
    ASSUME TypeOK, main \in StepReport, EndStep
    PROVE  /\ report' \in CaseReport
           /\ \A a : /\ ObjectStats(report, a) \in Nat
                     /\ ObjectStats(report', a) = ObjectStats(report, a) + Cardinality(Counted(main.acts, a))
<1> DEFINE steps == Append(report.steps, main)
           passed == CountIn(steps, {"passed", "skipped"})
           failed == CountIn(steps, {"failed"})
<1>1. report.hooks \in Seq(StepReport) /\ report.steps \in Seq(StepReport)
  BY DEF TypeOK
<1>2. steps \in Seq(StepReport) /\ DOMAIN steps = 1 .. Len(report.steps) + 1 /\ Len(report.steps) \in Nat
  BY <1>1
<1> HIDE DEF steps
<1>3. passed \in Nat /\ failed \in Nat
  <2>1. 1 \in Int /\ Len(report.steps) + 1 \in Int
    BY <1>2
  <2>2. IsFiniteSet(DOMAIN steps)
    BY <1>2, <2>1, FS_Interval
  <2>3. \A states : IsFiniteSet({i \in DOMAIN steps : steps[i].state \in states})
    BY <2>2, FS_Subset
  <2> QED BY <2>3, FS_CardinalityType DEF CountIn
<1> HIDE DEF passed, failed
<1>4. report' = [report EXCEPT !.steps = steps, !.passed = passed, !.failed = failed]
  BY DEF EndStep, steps, passed, failed
<1>5. report' \in CaseReport
  BY <1>2, <1>3, <1>4 DEF TypeOK, CaseReport
<1>6. report'.steps = steps /\ report'.hooks = report.hooks
  BY <1>4 DEF TypeOK
<1>7. ASSUME NEW a
      PROVE  /\ ObjectStats(report, a) \in Nat
             /\ ObjectStats(report', a) = ObjectStats(report, a) + Cardinality(Counted(main.acts, a))
  <2>1. /\ StepStats(report.hooks, a) \in Nat /\ StepStats(report.steps, a) \in Nat
        /\ StepStats(steps, a) = StepStats(report.steps, a) + Cardinality(Counted(main.acts, a))
    BY <1>1, StatsAppended DEF steps
  <2>2. Cardinality(Counted(main.acts, a)) \in Nat
    BY CountedNat
  <2> QED BY <1>6, <2>1, <2>2 DEF ObjectStats
<1> QED BY <1>5, <1>7

(* The step and its hooks are over: the next one, or the cleanup. *)
LEMMA EndStepInv == Inv /\ EndStep => Inv'
<1> SUFFICES ASSUME Inv, EndStep PROVE Inv'
  OBVIOUS
<1>0. /\ pc = "end" /\ err' = (err \/ result)
      /\ UNCHANGED <<case, part, pos, slot, acts, broken, result, main, log>>
  BY DEF EndStep
<1>1. /\ TypeOK /\ main \in StepReport /\ result \in BOOLEAN
  BY <1>0 DEF Inv, PlaceInv, MainPending, TypeOK
<1>a. /\ idx \in DOMAIN case.steps /\ ~err
      /\ \A i \in 1 .. idx - 1 : StepPassed(i)
      /\ \A k \in DOMAIN log : log[k].part # "cleanup" /\ log[k].idx <= idx
  BY <1>0, StepsUnderWay
<1>b. err' = result /\ err' \in BOOLEAN
  BY <1>0, <1>1, <1>a
<1>2. DOMAIN case.steps = 1 .. Len(case.steps) /\ Len(case.steps) \in Nat /\ idx \in Nat
  <2>1. case.steps \in Seq(Step) /\ idx \in Nat
    BY <1>1, CaseShape DEF TypeOK
  <2> QED BY <2>1
<1>3. \/ pc' = "cleanup" /\ idx' = idx /\ (result \/ idx = Len(case.steps))
      \/ pc' = "begin" /\ idx' = idx + 1 /\ ~result /\ idx # Len(case.steps)
  BY DEF EndStep, StopSteps
<1>4. ~result => StepPassed(idx)
  BY <1>0 DEF Inv, PassInv, StepPassed
<1>5. TypeOK'
  <2>1. idx' \in Nat /\ pc' \in {"cleanup", "begin"}
    BY <1>2, <1>3
  <2> QED BY <1>0, <1>1, <1>b, <2>1, StepReported DEF TypeOK, CaseReport
<1>6. PlaceInv'
  BY <1>0, <1>a, <1>b, <1>2, <1>3 DEF PlaceInv, MainPending
<1>7. OrderInv'
  <2>1. ASSUME NEW k \in DOMAIN log PROVE Behind(log[k])'
    <3>1. log[k].idx <= idx /\ log[k].part # "cleanup" /\ log[k].idx \in Nat
      BY <1>a, <1>1, EventShape
    <3> QED BY <1>0, <1>2, <1>3, <3>1 DEF Behind
  <2> QED BY <1>0, <2>1, Frozen DEF OrderInv, Inv
<1>8. ErrorInv'
  <2>1. ASSUME NEW k \in DOMAIN log, log[k].state = "failed" PROVE Halted(log[k])'
    <3>1. Fatal(log[k])' <=> Fatal(log[k])
      BY <1>0, Frozen
    <3>2. Fatal(log[k]) => result
      BY <1>0, <2>1 DEF Inv, ErrorInv, Halted
    <3> QED BY <1>b, <1>3, <3>1, <3>2 DEF Halted
  <2> QED BY <1>0, <2>1, Frozen DEF ErrorInv, Inv
<1>9. PassInv'
  <2>1. CASE pc' = "begin"
    <3>1. \A i \in 1 .. idx' - 1 : StepPassed(i)
      BY <1>a, <1>2, <1>3, <1>4, <2>1
    <3>2. \A i \in 1 .. idx' - 1 : StepPassed(i)'
      BY <1>0, <3>1, Frozen
    <3> QED BY <2>1, <3>2 DEF PassInv
  <2>2. CASE pc' = "cleanup"
    <3>1. ~err' => \A i \in DOMAIN case.steps : StepPassed(i)
      BY <1>a, <1>b, <1>2, <1>3, <1>4, <2>2
    <3>2. ~err' => \A i \in DOMAIN case'.steps : StepPassed(i)'
      BY <1>0, <3>1, Frozen
    <3> QED BY <2>2, <3>2 DEF PassInv
  <2> QED BY <1>3, <2>1, <2>2
<1>10. FailInv'
  <2>1. err' => Reason'
    BY <1>0, <1>b, Frozen DEF Inv, FailInv
  <2> QED BY <1>3, <2>1 DEF FailInv
<1>11. TeardownInv'
  <2>1. HooksDue' => \A k \in DOMAIN log' :
          log'[k].part \notin {"before", "main"} \/ HooksSeen(log[k].idx)'
    BY <1>0, Frozen DEF Inv, TeardownInv
  <2> QED BY <1>0, <1>a, <1>3, <2>1 DEF TeardownInv
<1>12. StatsInv'
  <2>1. ASSUME NEW a \in Mutating
        PROVE  Cardinality(Executed(a))' = ObjectStats(report, a)' + Pending(a)'
    <3>1. /\ Cardinality(Executed(a)) = ObjectStats(report, a) + Cardinality(Counted(main.acts, a))
      BY <1>0, StatsHere
    <3>2. /\ ObjectStats(report, a) \in Nat
          /\ ObjectStats(report', a) = ObjectStats(report, a) + Cardinality(Counted(main.acts, a))
      BY <1>1, StepReported
    <3>3. Pending(a)' = 0
      <4>1. Pending(a)' = 0 + 0
        BY <1>3, Zenon DEF Pending, MainPending
      <4> QED BY <4>1
    <3>4. Executed(a)' = Executed(a)
      BY <1>0, Frozen
    <3>5. Cardinality(Counted(main.acts, a)) \in Nat
      BY CountedNat
    <3> QED BY <3>1, <3>2, <3>3, <3>4, <3>5
  <2>2. pc' # "action"
    BY <1>3
  <2> QED BY <2>1, <2>2 DEF StatsInv
<1> QED BY <1>5, <1>6, <1>7, <1>8, <1>9, <1>10, <1>11, <1>12 DEF Inv
-----------------------------------------------------------------------------
(* Setup and the end of the case. *)

(* Nothing is counted yet when the case starts. *)
LEMMA InitInv == Init => Inv
<1> SUFFICES ASSUME Init PROVE Inv
  OBVIOUS
<1>0. /\ pc = "parse" /\ log = <<>> /\ err = FALSE /\ idx = 1 /\ DOMAIN log = {}
      /\ report.steps = <<>> /\ report.hooks = <<>>
  <2>1. pc = "parse" /\ log = <<>> /\ err = FALSE /\ idx = 1 /\ report = EmptyReport
    BY DEF Init
  <2>2. EmptyReport.steps = <<>> /\ EmptyReport.hooks = <<>>
    BY DEF EmptyReport
  <2> QED BY <2>1, <2>2
<1>1. TypeOK
  BY InitType
<1>2. PlaceInv /\ OrderInv /\ ErrorInv
  BY <1>0 DEF PlaceInv, MainPending, OrderInv, InOrder, ErrorInv, StopsOnError
<1>3. PassInv /\ FailInv /\ TeardownInv
  BY <1>0 DEF PassInv, FailInv, TeardownInv
<1>4. StatsInv
  <2>1. ASSUME NEW a \in Mutating PROVE Cardinality(Executed(a)) = ObjectStats(report, a) + Pending(a)
    <3>1. Executed(a) = {} /\ PassedActions(<<>>, a) = {}
      BY <1>0 DEF Executed, PassedActions
    <3>2. Cardinality(Executed(a)) = 0 /\ StepStats(<<>>, a) = 0
      BY <3>1, FS_EmptySet DEF StepStats
    <3>3. ObjectStats(report, a) = 0
      BY <1>0, <3>2 DEF ObjectStats
    <3>4. Pending(a) = 0
      BY <1>0 DEF Pending, MainPending
    <3> QED BY <3>2, <3>3, <3>4
  <2> QED BY <1>0, <2>1 DEF StatsInv
<1> QED BY <1>1, <1>2, <1>3, <1>4 DEF Inv

(* The steps of setup touch neither the log nor the reports. *)
LEMMA SetupMoves ==
    ASSUME Inv, ParseFails \/ ParseSucceeds \/ SkipByTags \/ NewService \/ EnsureNamespace \/ Run
    PROVE  /\ pc \in {"parse", "kube", "namespace", "run"} /\ UNCHANGED <<case, idx, log>>
           /\ report'.steps = report.steps /\ report'.hooks = report.hooks
           /\ \/ pc' \in {"kube", "namespace", "run"} /\ err' = err
              \/ pc' = "begin" /\ case.steps # <<>> /\ err' = err
              \/ pc' = "finish" /\ (err' = TRUE \/ case.steps = <<>>)
              \/ pc' = "done" /\ report'.state = "skipped"
<1>1. CASE ParseSucceeds \/ SkipByTags
  BY <1>1 DEF ParseSucceeds, SkipByTags, stepVars, Inv, TypeOK
<1>2. CASE ParseFails \/ NewService \/ EnsureNamespace \/ Run
  BY <1>2 DEF ParseFails, NewService, EnsureNamespace, Run, Finish, Proceed, stepVars
<1> QED BY <1>1, <1>2

(* A case that has not reached its steps keeps the invariant. *)
LEMMA SetupInv ==
    Inv /\ (ParseFails \/ ParseSucceeds \/ SkipByTags \/ NewService \/ EnsureNamespace \/ Run) => Inv'
<1> SUFFICES ASSUME Inv, ParseFails \/ ParseSucceeds \/ SkipByTags \/ NewService \/ EnsureNamespace \/ Run
             PROVE  Inv'
  OBVIOUS
<1>0. /\ pc \in {"parse", "kube", "namespace", "run"} /\ UNCHANGED <<case, idx, log>>
      /\ report'.steps = report.steps /\ report'.hooks = report.hooks
      /\ \/ pc' \in {"kube", "namespace", "run"} /\ err' = err
         \/ pc' = "begin" /\ case.steps # <<>> /\ err' = err
         \/ pc' = "finish" /\ (err' = TRUE \/ case.steps = <<>>)
         \/ pc' = "done" /\ report'.state = "skipped"
  BY SetupMoves
<1>1. log' = <<>> /\ DOMAIN log' = {} /\ ~err /\ idx' = 1 /\ TypeOK
  BY <1>0 DEF Inv, PlaceInv
<1>2. TypeOK'
  BY <1>1, MoveType
<1>3. case.steps # <<>> => 1 \in DOMAIN case.steps
  BY <1>1, CaseShape
<1>4. case.steps = <<>> => DOMAIN case'.steps = {}
  BY <1>0
<1>5. PlaceInv' /\ OrderInv' /\ ErrorInv'
  BY <1>0, <1>1, <1>3 DEF PlaceInv, MainPending, OrderInv, InOrder, ErrorInv, StopsOnError
<1>6. PassInv' /\ FailInv' /\ TeardownInv'
  BY <1>0, <1>1, <1>4 DEF PassInv, FailInv, TeardownInv
<1>7. StatsInv'
  <2>1. ASSUME NEW a \in Mutating
        PROVE  Cardinality(Executed(a))' = ObjectStats(report, a)' + Pending(a)'
    <3>1. Pending(a)' = 0 /\ Pending(a) = 0
      BY <1>0 DEF Pending, MainPending
    <3>2. ObjectStats(report', a) = ObjectStats(report, a) /\ Executed(a)' = Executed(a)
      BY <1>0, Frozen DEF ObjectStats
    <3>3. Cardinality(Executed(a)) = ObjectStats(report, a) + Pending(a)
      BY DEF Inv, StatsInv
    <3> QED BY <3>1, <3>2, <3>3
  <2> QED BY <1>0, <2>1 DEF StatsInv
<1> QED BY <1>2, <1>5, <1>6, <1>7 DEF Inv

(* finishReport gives the case its state. *)
LEMMA FinishReportInv == Inv /\ FinishReport => Inv'
<1> SUFFICES ASSUME Inv, FinishReport PROVE Inv'
  OBVIOUS
<1>0. /\ pc = "finish" /\ pc' = "done" /\ UNCHANGED <<case, idx, err, log>>
      /\ report' = [report EXCEPT !.state = IF err THEN "failed" ELSE "passed"]
  BY DEF FinishReport, stepVars
<1>1. TypeOK /\ TypeOK'
  BY MoveType DEF Inv
<1>2. /\ report'.steps = report.steps /\ report'.hooks = report.hooks
      /\ report'.state = IF err THEN "failed" ELSE "passed"
  BY <1>0, <1>1 DEF TypeOK
<1>3. PlaceInv'
  BY <1>0 DEF PlaceInv, MainPending
<1>4. OrderInv'
  <2>1. ASSUME NEW k \in DOMAIN log PROVE Behind(log[k])'
    BY <1>0 DEF Behind, Inv, OrderInv
  <2> QED BY <1>0, <2>1, Frozen DEF OrderInv, Inv
<1>5. ErrorInv'
  <2>1. ASSUME NEW k \in DOMAIN log, log[k].state = "failed" PROVE Halted(log[k])'
    <3>1. Fatal(log[k])' <=> Fatal(log[k])
      BY <1>0, Frozen
    <3>2. Fatal(log[k]) => err
      BY <1>0, <2>1 DEF Inv, ErrorInv, Halted
    <3> QED BY <1>0, <3>1, <3>2 DEF Halted
  <2> QED BY <1>0, <2>1, Frozen DEF ErrorInv, Inv
<1>6. PassInv'
  <2>1. ~err => \A i \in DOMAIN case'.steps : StepPassed(i)'
    BY <1>0, Frozen DEF Inv, PassInv
  <2> QED BY <1>0, <1>2, <2>1 DEF PassInv
<1>7. FailInv'
  <2>1. err /\ log # <<>> => Reason'
    BY <1>0, Frozen DEF Inv, FailInv
  <2> QED BY <1>0, <1>2, <2>1 DEF FailInv
<1>8. TeardownInv'
  <2>1. HooksDue' => \A k \in DOMAIN log' :
          log'[k].part \notin {"before", "main"} \/ HooksSeen(log[k].idx)'
    BY <1>0, Frozen DEF Inv, TeardownInv
  <2>2. (log' # <<>> => log'[Len(log')].part = "cleanup") /\ \A k \in DOMAIN log' : log'[k].part = "cleanup" => k = Len(log')
    BY <1>0 DEF Inv, TeardownInv
  <2> QED BY <1>0, <2>1, <2>2 DEF TeardownInv
<1>9. StatsInv'
  <2>1. ASSUME NEW a \in Mutating
        PROVE  Cardinality(Executed(a))' = ObjectStats(report, a)' + Pending(a)'
    <3>1. Pending(a)' = 0 /\ Pending(a) = 0
      BY <1>0 DEF Pending, MainPending
    <3>2. ObjectStats(report', a) = ObjectStats(report, a) /\ Executed(a)' = Executed(a)
      BY <1>0, <1>2, Frozen DEF ObjectStats
    <3>3. Cardinality(Executed(a)) = ObjectStats(report, a) + Pending(a)
      BY DEF Inv, StatsInv
    <3> QED BY <3>1, <3>2, <3>3
  <2> QED BY <1>0, <2>1 DEF StatsInv
<1> QED BY <1>1, <1>3, <1>4, <1>5, <1>6, <1>7, <1>8, <1>9 DEF Inv

(* A step that changes nothing keeps everything. *)
LEMMA StutterInv == Inv /\ UNCHANGED vars => Inv'
<1> SUFFICES ASSUME Inv, UNCHANGED vars PROVE Inv'
  OBVIOUS
<1> USE DEF vars
<1>1. TypeOK'
  BY DEF Inv, TypeOK
<1>2. CurrentStep' = CurrentStep /\ MainPending' = MainPending
  BY DEF CurrentStep, Hooks, MainPending
<1>3. PlaceInv'
  BY <1>2 DEF Inv, PlaceInv
<1>4. OrderInv'
  BY Frozen DEF Inv, OrderInv, Behind
<1>5. ErrorInv'
  BY Frozen DEF Inv, ErrorInv, Halted, At
<1>6. PassInv'
  <2>1. \A p, i, n, a : Passed(p, i, n, a)' <=> Passed(p, i, n, a)
    BY DEF Passed
  <2> QED BY <1>2, <2>1, Frozen DEF Inv, PassInv
<1>7. FailInv'
  BY <1>2, Frozen DEF Inv, FailInv, At
<1>8. TeardownInv'
  BY Frozen DEF Inv, TeardownInv
<1>9. StatsInv'
  <2>1. \A a : Pending(a)' = Pending(a)
    BY <1>2 DEF Pending
  <2> QED BY <2>1, Frozen DEF Inv, StatsInv
<1> QED BY <1>1, <1>3, <1>4, <1>5, <1>6, <1>7, <1>8, <1>9 DEF Inv
-----------------------------------------------------------------------------
(* Steps that execute something. *)

(* What passed, failed or was seen stays so when one more event is         *)
(* executed.                                                               *)
LEMMA Grown ==
    ASSUME TypeOK, NEW e \in Event, log' = Append(log, e), case' = case
    PROVE  /\ \A p, i, n, a : Passed(p, i, n, a) => Passed(p, i, n, a)'
           /\ \A st, p, i, n : AllPassed(st, p, i, n) => AllPassed(st, p, i, n)'
           /\ \A i : BeforePassed(i) => BeforePassed(i)'
           /\ \A i : AfterPassed(i) => AfterPassed(i)'
           /\ \A i : StepPassed(i) => StepPassed(i)'
           /\ \A x : Fatal(x)' <=> Fatal(x)
           /\ Reason => Reason'
           /\ Fatal(e) => Reason'
           /\ HooksDue' <=> HooksDue
           /\ \A i : HooksSeen(i) => HooksSeen(i)'
           /\ e.part = "after" => HooksSeen(e.idx)'
<1>0. log \in Seq(Event)
  BY DEF TypeOK
<1>1. /\ \A k \in DOMAIN log : log'[k] = log[k] /\ k \in DOMAIN log'
      /\ Len(log) + 1 \in DOMAIN log' /\ log'[Len(log) + 1] = e
  <2>1. /\ \A k \in DOMAIN log : Append(log, e)[k] = log[k] /\ k \in DOMAIN Append(log, e)
        /\ DOMAIN Append(log, e) = 1 .. Len(log) + 1 /\ Append(log, e)[Len(log) + 1] = e
        /\ Len(log) \in Nat
    BY <1>0, EventAppended
  <2>2. Len(log) + 1 \in 1 .. Len(log) + 1
    BY <2>1
  <2> QED BY <2>1, <2>2, Zenon
<1>2. \A p, i, n, a : Passed(p, i, n, a) => Passed(p, i, n, a)'
  BY <1>1, Zenon DEF Passed
<1>3. \A st, p, i, n : AllPassed(st, p, i, n) => AllPassed(st, p, i, n)'
  BY <1>2 DEF AllPassed
<1>4. \A i : BeforePassed(i) => BeforePassed(i)'
  BY <1>3 DEF BeforePassed
<1>5. \A i : AfterPassed(i) => AfterPassed(i)'
  BY <1>3 DEF AfterPassed
<1>6. \A i : StepPassed(i) => StepPassed(i)'
  BY <1>3, <1>4, <1>5 DEF StepPassed
<1>7. \A x : Fatal(x)' <=> Fatal(x)
  BY DEF Fatal, StepOf
<1>8. NilDeclared' <=> NilDeclared
  BY DEF NilDeclared
<1>9. (\E k \in DOMAIN log : Fatal(log[k])) => \E k \in DOMAIN log' : Fatal(log[k])'
  BY <1>1, <1>7
<1>10. Fatal(e) => \E k \in DOMAIN log' : Fatal(log[k])'
  BY <1>1, <1>7
<1>11. HooksDue' <=> HooksDue
  BY DEF HooksDue
<1>12. \A i : HooksSeen(i) => HooksSeen(i)'
  BY <1>1, Zenon DEF HooksSeen
<1>13. e.part = "after" => HooksSeen(e.idx)'
  BY <1>1, Zenon DEF HooksSeen
<1> QED BY <1>2, <1>3, <1>4, <1>5, <1>6, <1>7, <1>8, <1>9, <1>10, <1>11, <1>12, <1>13 DEF Reason

(* One more event keeps the order, if it comes after all others, and the   *)
(* rule about failures, if it respects those before.                       *)
LEMMA GrownScript ==
    ASSUME TypeOK, NEW e \in Event, log' = Append(log, e), case' = case, InOrder, StopsOnError,
           \A k \in DOMAIN log : Precedes(log[k], e),
           \A j \in DOMAIN log : log[j].state = "failed" =>
              /\ <<e.part, e.idx, e.pos>> # <<log[j].part, log[j].idx, log[j].pos>>
              /\ Fatal(log[j]) => \/ e.part = "cleanup"
                                  \/ e.part = "after" /\ e.idx = log[j].idx /\ log[j].part # "after"
    PROVE  InOrder' /\ StopsOnError'
<1>0. log \in Seq(Event)
  BY DEF TypeOK
<1>1. /\ \A k \in DOMAIN log : log'[k] = log[k]
      /\ log'[Len(log) + 1] = e /\ Len(log) \in Nat /\ DOMAIN log = 1 .. Len(log)
      /\ \A k \in DOMAIN log' : k \in DOMAIN log \/ k = Len(log) + 1
  BY <1>0, EventAppended, Zenon
<1>2. \A j, k \in DOMAIN log' : j < k => j \in DOMAIN log /\ (k \in DOMAIN log \/ k = Len(log) + 1)
  BY <1>1
<1>3. ASSUME NEW j \in DOMAIN log', NEW k \in DOMAIN log', j < k PROVE Precedes(log'[j], log'[k])
  <2>1. CASE k \in DOMAIN log
    BY <1>1, <1>2, <1>3, <2>1, Zenon DEF InOrder
  <2>2. CASE k = Len(log) + 1
    BY <1>1, <1>2, <1>3, <2>2, Zenon
  <2> QED BY <1>2, <1>3, <2>1, <2>2
<1>4. InOrder'
  BY <1>3 DEF InOrder
<1>5. \A x : Fatal(x)' <=> Fatal(x)
  BY DEF Fatal, StepOf
<1> DEFINE Rule(d, f) == d.state = "failed" =>
        /\ <<f.part, f.idx, f.pos>> # <<d.part, d.idx, d.pos>>
        /\ Fatal(d) => \/ f.part = "cleanup"
                       \/ f.part = "after" /\ f.idx = d.idx /\ d.part # "after"
<1>6. /\ \A j, k \in DOMAIN log : j < k => Rule(log[j], log[k])
      /\ \A j \in DOMAIN log : Rule(log[j], e)
  BY DEF StopsOnError
<1> HIDE DEF Rule
<1>7. \A j, k \in DOMAIN log' : j < k => Rule(log'[j], log'[k])
  <2> SUFFICES ASSUME NEW j \in DOMAIN log', NEW k \in DOMAIN log', j < k PROVE Rule(log'[j], log'[k])
    OBVIOUS
  <2>0. j \in DOMAIN log
    BY <1>2
  <2>1. CASE k \in DOMAIN log
    BY <1>1, <1>6, <2>0, <2>1, Zenon
  <2>2. CASE k = Len(log) + 1
    BY <1>1, <1>6, <2>0, <2>2, Zenon
  <2> QED BY <1>2, <2>1, <2>2
<1>8. StopsOnError'
  BY <1>5, <1>7 DEF Rule, StopsOnError
<1> QED BY <1>4, <1>8

(* One more event counts in the statistics when it passed. *)
LEMMA GrownCount ==
    ASSUME TypeOK, NEW e \in Event, log' = Append(log, e), NEW a
    PROVE  /\ Cardinality(Executed(a)) \in Nat
           /\ Cardinality(Executed(a)') = Cardinality(Executed(a))
                + IF e.action = a /\ e.state = "passed" THEN 1 ELSE 0
<1>0. log \in Seq(Event)
  BY DEF TypeOK
<1>1. /\ \A k \in DOMAIN log : log'[k] = log[k] /\ k \in DOMAIN log'
      /\ log'[Len(log) + 1] = e /\ Len(log) \in Nat /\ DOMAIN log = 1 .. Len(log)
      /\ \A k \in DOMAIN log' : k \in DOMAIN log \/ k = Len(log) + 1
      /\ DOMAIN log' = 1 .. Len(log) + 1
  BY <1>0, EventAppended, Zenon
<1>2. IsFiniteSet(Executed(a))
  <2>1. 1 \in Int /\ Len(log) \in Int
    BY <1>1
  <2>2. IsFiniteSet(1 .. Len(log))
    BY <2>1, FS_Interval
  <2> QED BY <1>1, <2>2, FS_Subset DEF Executed
<1>3. Cardinality(Executed(a)) \in Nat
  BY <1>2, FS_CardinalityType
<1>4. Len(log) + 1 \in DOMAIN log' /\ Len(log) + 1 \notin DOMAIN log
  BY <1>1
<1>5. Len(log) + 1 \notin Executed(a)
  BY <1>4 DEF Executed
<1>6. CASE e.action = a /\ e.state = "passed"
  <2>1. Executed(a)' = Executed(a) \cup {Len(log) + 1}
    BY <1>1, <1>4, <1>6 DEF Executed
  <2> QED BY <1>2, <1>3, <1>5, <1>6, <2>1, FS_AddElement
<1>7. CASE ~(e.action = a /\ e.state = "passed")
  <2>1. Executed(a)' = Executed(a)
    BY <1>1, <1>7 DEF Executed
  <2> QED BY <1>3, <1>7, <2>1
<1> QED BY <1>3, <1>6, <1>7

(* One more report in the step under way. *)
LEMMA ActionAppended ==
    ASSUME NEW rs \in Seq(ActionReport), NEW x \in ActionReport
    PROVE  /\ Len(rs) \in Nat /\ DOMAIN rs = 1 .. Len(rs)
           /\ DOMAIN Append(rs, x) = 1 .. Len(rs) + 1 /\ Len(Append(rs, x)) = Len(rs) + 1
           /\ Append(rs, x)[Len(rs) + 1] = x
           /\ \A j \in 1 .. Len(rs) : Append(rs, x)[j] = rs[j]
OBVIOUS

(* One more action of the step counts when it passed. *)
LEMMA CountedAppended ==
    ASSUME NEW rs \in Seq(ActionReport), NEW x \in ActionReport, NEW a,
           NEW n \in 1 .. 7, n = Len(rs) + 1
    PROVE  Cardinality(Counted(Append(rs, x), a)) =
              Cardinality(Counted(rs, a)) + IF x = [action |-> a, state |-> "passed"] THEN 1 ELSE 0
<1> DEFINE y == [action |-> a, state |-> "passed"]
<1> HIDE DEF y
<1>1. /\ Len(rs) \in Nat /\ DOMAIN rs = 1 .. Len(rs) /\ DOMAIN Append(rs, x) = 1 .. n
      /\ Append(rs, x)[n] = x
      /\ \A j \in 1 .. Len(rs) : Append(rs, x)[j] = rs[j]
  BY ActionAppended, Zenon
<1>2. n \in 1 .. n /\ n \notin 1 .. Len(rs)
  BY <1>1
<1>3. \A j \in 1 .. n : j \in 1 .. Len(rs) \/ j = n
  BY <1>1
<1>4. \A j \in 1 .. Len(rs) : j \in 1 .. n
  BY <1>1
<1>5. IsFiniteSet(Counted(rs, a)) /\ Cardinality(Counted(rs, a)) \in Nat
  BY CountedNat
<1>6. n \notin Counted(rs, a)
  BY <1>1, <1>2 DEF Counted
<1>7. /\ Counted(rs, a) = {j \in 1 .. 7 : j \in 1 .. Len(rs) /\ rs[j] = y}
      /\ Counted(Append(rs, x), a) = {j \in 1 .. 7 : j \in 1 .. n /\ Append(rs, x)[j] = y}
  BY <1>1, Zenon DEF Counted, y
<1>8. CASE x = y
  <2>1. Counted(Append(rs, x), a) = Counted(rs, a) \cup {n}
    BY <1>1, <1>2, <1>3, <1>4, <1>7, <1>8
  <2> QED BY <1>5, <1>6, <1>8, <2>1, FS_AddElement DEF y
<1>9. CASE x # y
  <2>1. Counted(Append(rs, x), a) = Counted(rs, a)
    BY <1>1, <1>2, <1>3, <1>4, <1>7, <1>9
  <2> QED BY <1>5, <1>9, <2>1 DEF y
<1> QED BY <1>8, <1>9

(* The deferred cleanup: the last event, and an error if it fails. *)
LEMMA CleanupInv == Inv /\ Cleanup => Inv'
<1> SUFFICES ASSUME Inv, Cleanup PROVE Inv'
  OBVIOUS
<1>0. pc = "cleanup" /\ pc' = "finish" /\ UNCHANGED <<case, stepVars, report>> /\ TypeOK
  BY DEF Cleanup, Inv
<1>1. PICK state \in {"passed", "failed"} :
          /\ err' = (err \/ state = "failed")
          /\ log' = Append(log, [part |-> "cleanup", idx |-> idx, pos |-> 1,
                                 action |-> "cleanup", state |-> state])
  BY DEF Cleanup, JoinError
<1> DEFINE e == [part |-> "cleanup", idx |-> idx, pos |-> 1, action |-> "cleanup", state |-> state]
<1>2. e \in Event
  BY <1>0 DEF Event, TypeOK
<1>3. /\ e.part = "cleanup" /\ e.idx = idx /\ e.action = "cleanup" /\ e.state = state
      /\ log' = Append(log, e)
  BY <1>1
<1> HIDE DEF e
<1>4. /\ log \in Seq(Event) /\ idx \in Nat /\ err \in BOOLEAN
  BY <1>0 DEF TypeOK
<1>5. /\ \A k \in DOMAIN log : log'[k] = log[k] /\ k \in DOMAIN log' /\ k < Len(log) + 1
      /\ log'[Len(log) + 1] = e /\ Len(log') = Len(log) + 1 /\ log' \in Seq(Event)
      /\ \A k \in DOMAIN log' : k \in DOMAIN log \/ k = Len(log) + 1
  BY <1>2, <1>3, <1>4, EventAppended, Zenon
<1>6. \A k \in DOMAIN log : log[k].part # "cleanup" /\ log[k].idx <= idx
  BY <1>0 DEF Inv, OrderInv, Behind
<1>7. TypeOK'
  BY <1>0, <1>1, <1>4, <1>5 DEF TypeOK, stepVars
<1>8. PlaceInv'
  BY <1>0 DEF PlaceInv, MainPending
<1>9. \A k \in DOMAIN log : Precedes(log[k], e)
  <2> SUFFICES ASSUME NEW k \in DOMAIN log PROVE Precedes(log[k], e)
    OBVIOUS
  <2>1. /\ log[k].part \in {"before", "main", "after"} /\ log[k].idx <= idx /\ log[k].idx \in Nat
    BY <1>0, <1>6, EventShape
  <2>2. PartRank(log[k].part) < PartRank(e.part)
    BY <1>3, <2>1 DEF PartRank
  <2>3. log[k].idx < idx \/ log[k].idx = idx
    BY <1>4, <2>1
  <2> QED BY <1>3, <2>2, <2>3 DEF Precedes
<1>10. InOrder' /\ StopsOnError'
  BY <1>0, <1>2, <1>3, <1>6, <1>9, GrownScript DEF Inv, OrderInv, ErrorInv
<1>11. OrderInv'
  <2>1. ASSUME NEW k \in DOMAIN log' PROVE Behind(log[k])'
    <3>1. log'[k].idx <= idx
      BY <1>3, <1>4, <1>5, <1>6
    <3> QED BY <1>0, <3>1 DEF Behind, stepVars
  <2> QED BY <1>10, <2>1 DEF OrderInv
<1>12. ErrorInv'
  <2>1. ASSUME NEW k \in DOMAIN log', log'[k].state = "failed" PROVE Halted(log[k])'
    <3>1. Fatal(log[k])' <=> Fatal(log'[k])
      <4>1. \A x : Fatal(x)' <=> Fatal(x)
        BY <1>0, <1>2, <1>3, Grown
      <4> QED BY <4>1
    <3>2. Fatal(log'[k]) => err'
      <4>1. CASE k \in DOMAIN log
        <5>1. Halted(log[k]) /\ log'[k] = log[k]
          BY <1>5, <2>1, <4>1 DEF Inv, ErrorInv
        <5> QED BY <1>0, <1>1, <5>1 DEF Halted
      <4>2. CASE k = Len(log) + 1
        BY <1>1, <1>3, <1>5, <2>1, <4>2
      <4> QED BY <1>5, <4>1, <4>2
    <3> QED BY <1>0, <3>1, <3>2 DEF Halted
  <2> QED BY <1>10, <2>1 DEF ErrorInv
<1>13. PassInv'
  <2>1. ~err' => \A i \in DOMAIN case.steps : StepPassed(i)
    BY <1>0, <1>1 DEF Inv, PassInv
  <2>2. ~err' => \A i \in DOMAIN case'.steps : StepPassed(i)'
    BY <1>0, <1>2, <1>3, <2>1, Grown
  <2> QED BY <1>0, <2>2 DEF PassInv
<1>14. FailInv'
  <2>1. err => Reason
    BY <1>0 DEF Inv, FailInv
  <2>2. state = "failed" => Fatal(e)
    BY <1>3 DEF Fatal
  <2>3. err' => Reason'
    BY <1>0, <1>1, <1>2, <1>3, <2>1, <2>2, Grown
  <2> QED BY <1>0, <2>3 DEF FailInv
<1>15. TeardownInv'
  <2>1. ASSUME HooksDue', NEW k \in DOMAIN log', log'[k].part \in {"before", "main"}
        PROVE  HooksSeen(log[k].idx)'
    <3>1. k \in DOMAIN log /\ log'[k] = log[k]
      BY <1>3, <1>5, <2>1
    <3>2. HooksDue
      BY <1>0, <1>2, <1>3, <2>1, Grown
    <3>3. HooksSeen(log[k].idx)
      BY <1>0, <2>1, <3>1, <3>2 DEF Inv, TeardownInv
    <3>4. \A i : HooksSeen(i) => HooksSeen(i)'
      BY <1>0, <1>2, <1>3, Grown
    <3> QED BY <3>1, <3>3, <3>4
  <2>2. \A k \in DOMAIN log' : log'[k].part = "cleanup" => k = Len(log')
    BY <1>5, <1>6
  <2>3. log'[Len(log')].part = "cleanup"
    BY <1>3, <1>5
  <2> QED BY <1>0, <2>1, <2>2, <2>3 DEF TeardownInv
<1>16. StatsInv'
  <2>1. ASSUME NEW a \in Mutating
        PROVE  Cardinality(Executed(a))' = ObjectStats(report, a)' + Pending(a)'
    <3>1. Pending(a)' = 0 /\ Pending(a) = 0
      BY <1>0 DEF Pending, MainPending
    <3>2. a # "cleanup"
      BY DEF Mutating
    <3>3. Cardinality(Executed(a)') = Cardinality(Executed(a)) + 0 /\ Cardinality(Executed(a)) \in Nat
      BY <1>0, <1>2, <1>3, <3>2, GrownCount
    <3>4. Cardinality(Executed(a)) = ObjectStats(report, a) + Pending(a)
      BY DEF Inv, StatsInv
    <3> QED BY <1>0, <3>1, <3>3, <3>4
  <2> QED BY <1>0, <2>1 DEF StatsInv
<1> QED BY <1>7, <1>8, <1>11, <1>12, <1>13, <1>14, <1>15, <1>16 DEF Inv

(* The parts of a step have different ranks. *)
LEMMA Ranks ==
    ASSUME NEW p \in {"before", "main", "after", "cleanup"}, NEW q \in {"before", "main", "after", "cleanup"}
    PROVE  PartRank(p) \in Nat /\ (PartRank(p) = PartRank(q) => p = q)
BY DEF PartRank

(* An action runs: it comes after everything executed so far, and nothing  *)
(* that failed forbids it.                                                 *)
LEMMA RunActionScript ==
    ASSUME Inv, RunAction, NEW e \in Event, log' = Append(log, e),
           At(e, part, idx, pos), e.action = ActionOrder[slot]
    PROVE  InOrder' /\ StopsOnError'
<1>0. /\ pc = "action" /\ ~broken /\ case' = case /\ TypeOK /\ slot \in 1 .. 7
      /\ part \in {"before", "main", "after"} /\ pos \in Nat /\ idx \in Nat
  <2>1. TypeOK
    BY DEF Inv
  <2>2. slot \in 1 .. 7
    BY <2>1, RunActionType
  <2> QED BY <2>1, <2>2 DEF RunAction, TypeOK
<1>1. e.part = part /\ e.idx = idx /\ e.pos = pos /\ Slot(e.action) = slot
  BY <1>0, Slots DEF At
<1>2. ASSUME NEW k \in DOMAIN log PROVE Precedes(log[k], e)
  <2>1. Behind(log[k])
    BY DEF Inv, OrderInv
  <2>2. /\ log[k].part \in {"before", "main", "after", "cleanup"} /\ log[k].idx \in Nat /\ log[k].pos \in Nat
    BY <1>0, EventShape
  <2>3. log[k].idx <= idx /\ (log[k].idx = idx =>
          /\ PartRank(log[k].part) <= PartRank(part)
          /\ log[k].part = part => log[k].pos <= pos
          /\ log[k].part = part /\ log[k].pos = pos => Slot(log[k].action) < slot)
    BY <1>0, <2>1 DEF Behind
  <2>4. PartRank(log[k].part) \in Nat /\ PartRank(part) \in Nat
        /\ (PartRank(log[k].part) = PartRank(part) => log[k].part = part)
    BY <1>0, <2>2, Ranks
  <2>5. CASE log[k].idx # idx
    BY <1>0, <1>1, <2>2, <2>3, <2>5 DEF Precedes
  <2>6. CASE log[k].idx = idx /\ log[k].part # part
    <3>1. PartRank(log[k].part) < PartRank(part)
      BY <2>3, <2>4, <2>6
    <3> QED BY <1>1, <2>6, <3>1 DEF Precedes
  <2>7. CASE log[k].idx = idx /\ log[k].part = part
    <3>1. log[k].pos < pos \/ (log[k].pos = pos /\ Slot(log[k].action) < slot)
      BY <1>0, <2>2, <2>3, <2>7
    <3> QED BY <1>1, <2>7, <3>1 DEF Precedes
  <2> QED BY <2>5, <2>6, <2>7
<1>3. ASSUME NEW j \in DOMAIN log, log[j].state = "failed"
      PROVE  /\ <<e.part, e.idx, e.pos>> # <<log[j].part, log[j].idx, log[j].pos>>
             /\ Fatal(log[j]) => \/ e.part = "cleanup"
                                 \/ e.part = "after" /\ e.idx = log[j].idx /\ log[j].part # "after"
  <2>1. Halted(log[j])
    BY <1>3 DEF Inv, ErrorInv
  <2>2. ~At(log[j], part, idx, pos)
    BY <1>0, <2>1 DEF Halted
  <2>3. Fatal(log[j]) => part = "after" /\ log[j].idx = idx /\ log[j].part # "after"
    BY <1>0, <2>1 DEF Halted
  <2> QED BY <1>1, <2>2, <2>3 DEF At
<1> QED BY <1>0, <1>2, <1>3, GrownScript DEF Inv, OrderInv, ErrorInv

(* An action of a step or a hook passes or fails. *)
LEMMA RunActionInv == Inv /\ RunAction => Inv'
<1> SUFFICES ASSUME Inv, RunAction PROVE Inv'
  OBVIOUS
<1>0. /\ pc = "action" /\ ~broken /\ TypeOK /\ PlaceInv /\ slot' = NextSlot(CurrentStep, slot + 1)
      /\ UNCHANGED <<case, pc, idx, part, pos, result, main, report, err>>
  BY DEF RunAction, Inv
<1>1. TypeOK' /\ slot \in 1 .. 7
  BY <1>0, RunActionType
<1>2. PICK state \in {"passed", "failed"} :
          /\ [part |-> part, idx |-> idx, pos |-> pos, action |-> ActionOrder[slot], state |-> state] \in Event
          /\ log' = Append(log, [part |-> part, idx |-> idx, pos |-> pos,
                                 action |-> ActionOrder[slot], state |-> state])
          /\ acts' = Append(acts, [action |-> ActionOrder[slot], state |-> state])
          /\ broken' = (state = "failed")
  BY <1>0, RunActionType
<1>e. PICK e \in Event : /\ log' = Append(log, e)
                         /\ e = [part |-> part, idx |-> idx, pos |-> pos,
                                 action |-> ActionOrder[slot], state |-> state]
  BY <1>2
<1>x. PICK x : acts' = Append(acts, x) /\ x = [action |-> ActionOrder[slot], state |-> state]
  BY <1>2
<1>3. /\ log' = Append(log, e) /\ At(e, part, idx, pos)
      /\ e.action = ActionOrder[slot] /\ e.state = state
  BY <1>e DEF At
<1>4. x \in ActionReport /\ acts' = Append(acts, x) /\ acts \in Seq(ActionReport)
  <2>1. ActionOrder[slot] \in ActionName
    BY <1>1, Actions
  <2>2. x \in ActionReport
    BY <1>x, <2>1 DEF ActionReport
  <2> QED BY <1>0, <1>x, <2>2 DEF TypeOK
<1>5. \A a : x = [action |-> a, state |-> "passed"] <=> (e.action = a /\ e.state = "passed")
  BY <1>3, <1>x
<1>6. /\ \A k \in DOMAIN log : log'[k] = log[k] /\ k \in DOMAIN log'
      /\ log'[Len(log) + 1] = e /\ Len(log) + 1 \in DOMAIN log'
      /\ \A k \in DOMAIN log' : k \in DOMAIN log \/ k = Len(log) + 1
  <2>1. log \in Seq(Event)
    BY <1>0 DEF TypeOK
  <2>2. /\ \A k \in DOMAIN log : log'[k] = log[k] /\ k \in DOMAIN log'
        /\ log'[Len(log) + 1] = e /\ Len(log) \in Nat /\ DOMAIN log' = 1 .. Len(log) + 1
        /\ \A k \in DOMAIN log' : k \in DOMAIN log \/ k = Len(log) + 1
    BY <1>3, <2>1, EventAppended, Zenon
  <2>3. Len(log) + 1 \in 1 .. Len(log) + 1
    BY <2>2
  <2> QED BY <2>2, <2>3, Zenon
<1>7. /\ slot' \in slot + 1 .. 8
      /\ slot' <= 7 => ActionOrder[slot'] \in CurrentStep.actions
      /\ \A j \in slot + 1 .. 7 : j < slot' => ActionOrder[j] \notin CurrentStep.actions
  <2>1. slot + 1 \in 1 .. 8
    BY <1>1
  <2> QED BY <1>0, <2>1, NextSlotIs
<1>8. CurrentStep' = CurrentStep /\ MainPending' = MainPending
  BY <1>0 DEF CurrentStep, Hooks, MainPending
<1>9. \A k \in DOMAIN log : log[k].part # "cleanup" /\ log[k].idx <= idx
  BY <1>0, StepsUnderWay
<1>10. e.part # "cleanup" /\ e.part = part /\ e.idx = idx /\ e.pos = pos
  BY <1>0, <1>3 DEF At, TypeOK
<1>11. PlaceInv'
  <2>1. slot' <= Len(ActionOrder) => ActionOrder[slot'] \in CurrentStep'.actions
    BY <1>7, <1>8, Actions
  <2> QED BY <1>0, <1>8, <2>1 DEF PlaceInv
<1>12. InOrder' /\ StopsOnError'
  BY <1>3, RunActionScript, Zenon
<1>13. OrderInv'
  <2>1. ASSUME NEW k \in DOMAIN log' PROVE Behind(log[k])'
    <3>1. CASE k \in DOMAIN log
      <4>1. Behind(log[k]) /\ log'[k] = log[k]
        BY <1>6, <3>1 DEF Inv, OrderInv
      <4>2. /\ log[k].idx <= idx /\ log[k].part # "cleanup"
            /\ log[k].idx = idx =>
                  /\ PartRank(log[k].part) <= PartRank(part)
                  /\ log[k].part = part => log[k].pos <= pos
                  /\ log[k].part = part /\ log[k].pos = pos => Slot(log[k].action) < slot
        BY <1>0, <4>1 DEF Behind
      <4>3. log[k].action \in ActionName \cup {"cleanup"}
        BY <1>0, <3>1, EventShape
      <4>4. Slot(log[k].action) \in Nat
        BY <4>3, Actions, Slots
      <4>5. Slot(log[k].action) < slot => Slot(log[k].action) < slot'
        BY <1>1, <1>7, <4>4
      <4> QED BY <1>0, <4>1, <4>2, <4>5 DEF Behind
    <3>2. CASE k = Len(log) + 1
      <4>1. log'[k] = e
        BY <1>6, <3>2
      <4>2. Slot(e.action) < slot'
        BY <1>1, <1>3, <1>7, Slots
      <4>3. idx <= idx /\ pos <= pos /\ PartRank(part) <= PartRank(part)
        <5>1. idx \in Nat /\ pos \in Nat /\ part \in {"before", "main", "after", "cleanup"}
          BY <1>0 DEF TypeOK
        <5>2. PartRank(part) \in Nat
          BY <5>1, Ranks
        <5> QED BY <5>1, <5>2
      <4> QED BY <1>0, <1>10, <4>1, <4>2, <4>3 DEF Behind
    <3> QED BY <1>6, <3>1, <3>2
  <2> QED BY <1>12, <2>1 DEF OrderInv
<1>14. ErrorInv'
  <2>1. ASSUME NEW k \in DOMAIN log', log'[k].state = "failed" PROVE Halted(log[k])'
    <3>0. Fatal(log[k])' <=> Fatal(log'[k])
      <4>1. \A z : Fatal(z)' <=> Fatal(z)
        BY <1>0, <1>3, Grown
      <4> QED BY <4>1
    <3>1. CASE k \in DOMAIN log
      <4>1. Halted(log[k]) /\ log'[k] = log[k]
        BY <1>6, <2>1, <3>1 DEF Inv, ErrorInv
      <4>2. ~At(log[k], part, idx, pos)
        BY <1>0, <4>1 DEF Halted
      <4>3. Fatal(log[k]) => part = "after" /\ log[k].idx = idx /\ log[k].part # "after" /\ result
        BY <1>0, <4>1 DEF Halted
      <4>4. ~At(log[k], part, idx, pos)'
        BY <1>0, <4>1, <4>2 DEF At
      <4> QED BY <1>0, <3>0, <4>1, <4>3, <4>4 DEF Halted
    <3>2. CASE k = Len(log) + 1
      <4>1. log'[k] = e /\ broken'
        BY <1>2, <1>3, <1>6, <2>1, <3>2
      <4>2. At(log[k], part, idx, pos)'
        BY <1>0, <1>10, <4>1 DEF At
      <4>3. log'[k].part = part /\ log'[k].idx = idx /\ log'[k].pos = pos
        BY <1>10, <4>1
      <4> QED BY <1>0, <4>1, <4>2, <4>3 DEF Halted
    <3> QED BY <1>6, <3>1, <3>2
  <2> QED BY <1>12, <2>1 DEF ErrorInv
<1>15. PassInv'
  <2>0. /\ \A p, i, n, a : Passed(p, i, n, a) => Passed(p, i, n, a)'
        /\ \A st, p, i, n : AllPassed(st, p, i, n) => AllPassed(st, p, i, n)'
        /\ \A i : BeforePassed(i) => BeforePassed(i)'
        /\ \A i : AfterPassed(i) => AfterPassed(i)'
        /\ \A i : StepPassed(i) => StepPassed(i)'
    BY <1>0, <1>3, Grown
  <2>1. \A i \in 1 .. idx' - 1 : StepPassed(i)'
    BY <1>0, <2>0, StepsUnderWay
  <2>2. ASSUME ~broken'
        PROVE  /\ ~CurrentStep.isNil
               /\ \A j \in 1 .. 7 : j < slot' /\ ActionOrder[j] \in CurrentStep.actions
                                     => Passed(part, idx, pos, ActionOrder[j])'
    <3>1. ~CurrentStep.isNil
      BY <1>0 DEF Inv, PassInv
    <3>2. ASSUME NEW j \in 1 .. 7, j = slot PROVE Passed(part, idx, pos, ActionOrder[j])'
      <4>1. state = "passed"
        BY <1>2, <2>2
      <4>2. log'[Len(log) + 1] = [part |-> part', idx |-> idx', pos |-> pos',
                                  action |-> ActionOrder[j], state |-> "passed"]
        BY <1>0, <1>e, <1>6, <3>2, <4>1
      <4> QED BY <1>6, <4>2, Zenon DEF Passed
    <3>3. ASSUME NEW j \in 1 .. 7, j < slot', ActionOrder[j] \in CurrentStep.actions
          PROVE  Passed(part, idx, pos, ActionOrder[j])'
      <4>1. CASE j < slot
        <5>1. Passed(part, idx, pos, ActionOrder[j])
          BY <1>0, <3>3, <4>1 DEF Inv, PassInv
        <5> QED BY <1>0, <2>0, <5>1
      <4>2. CASE j = slot
        BY <3>2, <4>2
      <4>3. CASE j > slot
        BY <1>1, <1>7, <3>3, <4>3
      <4> QED BY <1>1, <4>1, <4>2, <4>3
    <3> QED BY <3>1, <3>3
  <2>3. /\ part = "before" => \A n \in 1 .. pos - 1 : AllPassed(case.before[n], "before", idx, n)
        /\ part = "main" => BeforePassed(idx)
        /\ part = "after" => \A n \in 1 .. pos - 1 : AllPassed(case.after[n], "after", idx, n)
        /\ ~result /\ part = "after" => AllPassed(case.steps[idx], "main", idx, 1) /\ BeforePassed(idx)
    BY <1>0 DEF Inv, PassInv
  <2>4. /\ part' = "before" => \A n \in 1 .. pos' - 1 : AllPassed(case.before[n], "before", idx, n)'
        /\ part' = "main" => BeforePassed(idx)'
        /\ part' = "after" => \A n \in 1 .. pos' - 1 : AllPassed(case.after[n], "after", idx, n)'
        /\ ~result' /\ part' = "after" => AllPassed(case.steps[idx], "main", idx, 1)' /\ BeforePassed(idx)'
    BY <1>0, <2>0, <2>3
  <2> QED BY <1>0, <1>8, <2>1, <2>2, <2>4 DEF PassInv
<1>16. FailInv'
  <2>1. broken' => \E k \in DOMAIN log' : log'[k].state = "failed" /\ At(log[k], part, idx, pos)'
    <3>1. broken' => e.state = "failed"
      BY <1>2, <1>3
    <3>2. At(log'[Len(log) + 1], part', idx', pos')
      BY <1>0, <1>6, <1>10 DEF At
    <3> QED BY <1>6, <3>1, <3>2 DEF At
  <2>2. result' => Reason'
    BY <1>0, <1>3, Grown DEF Inv, FailInv
  <2> QED BY <1>0, <2>1, <2>2 DEF FailInv
<1>17. TeardownInv'
  <2>0. /\ HooksDue' <=> HooksDue
        /\ \A i : HooksSeen(i) => HooksSeen(i)'
        /\ e.part = "after" => HooksSeen(e.idx)'
    BY <1>0, <1>3, Grown
  <2>1. ASSUME HooksDue', NEW k \in DOMAIN log', log'[k].part \in {"before", "main"}
        PROVE  HooksSeen(log[k].idx)' \/ log'[k].idx = idx'
    <3>1. CASE k \in DOMAIN log
      <4>1. log'[k] = log[k]
        BY <1>6, <3>1
      <4>2. HooksSeen(log[k].idx) \/ log[k].idx = idx
        BY <2>0, <2>1, <3>1, <4>1 DEF Inv, TeardownInv
      <4> QED BY <1>0, <2>0, <4>1, <4>2
    <3>2. CASE k = Len(log) + 1
      BY <1>0, <1>6, <1>10, <3>2
    <3> QED BY <1>6, <3>1, <3>2
  <2>2. part' = "after" => HooksSeen(idx)'
    BY <1>0, <1>10, <2>0
  <2>3. \A k \in DOMAIN log' : log'[k].part # "cleanup"
    BY <1>6, <1>9, <1>10
  <2> QED BY <1>0, <2>1, <2>2, <2>3 DEF TeardownInv
<1>18. StatsInv'
  <2>1. Len(acts) \in Nat /\ Len(acts) < slot /\ Len(acts') = Len(acts) + 1
    <3>1. Len(acts) < slot
      BY <1>0 DEF Inv, StatsInv
    <3> QED BY <1>4, <3>1, ActionAppended
  <2>2. Len(acts') < slot' /\ Len(acts) + 1 \in 1 .. 7
    BY <1>1, <1>7, <2>1
  <2>3. ASSUME NEW a \in Mutating
        PROVE  Cardinality(Executed(a))' = ObjectStats(report, a)' + Pending(a)'
    <3> DEFINE d == IF e.action = a /\ e.state = "passed" THEN 1 ELSE 0
               c == Cardinality(Counted(acts, a))
               m == IF MainPending THEN Cardinality(Counted(main.acts, a)) ELSE 0
    <3>1. Cardinality(Counted(acts', a)) = c + d
      <4>1. Cardinality(Counted(Append(acts, x), a)) =
               c + IF x = [action |-> a, state |-> "passed"] THEN 1 ELSE 0
        BY <1>4, <2>2, CountedAppended, Zenon
      <4>2. (x = [action |-> a, state |-> "passed"]) <=> (e.action = a /\ e.state = "passed")
        BY <1>5
      <4> QED BY <1>4, <4>1, <4>2
    <3>2. Cardinality(Executed(a)') = Cardinality(Executed(a)) + d
      BY <1>0, <1>3, GrownCount
    <3>3. Cardinality(Executed(a)) = ObjectStats(report, a) + Pending(a) /\ ObjectStats(report, a) \in Nat
      BY StatsHere DEF Inv, StatsInv
    <3>4. Pending(a) = c + m
      BY <1>0 DEF Pending
    <3>5. Pending(a)' = Cardinality(Counted(acts', a)) + m
      BY <1>0, <1>8, Zenon DEF Pending
    <3>6. c \in Nat /\ m \in Nat /\ d \in Nat
      BY CountedNat
    <3> HIDE DEF c, m, d
    <3>7. Cardinality(Executed(a)') = ObjectStats(report, a) + Pending(a)'
      BY <3>1, <3>2, <3>3, <3>4, <3>5, <3>6
    <3> QED BY <1>0, <3>7
  <2> QED BY <2>2, <2>3 DEF StatsInv
<1> QED BY <1>1, <1>11, <1>13, <1>14, <1>15, <1>16, <1>17, <1>18 DEF Inv
-----------------------------------------------------------------------------
(* The theorems. *)

(* Every step of suite.Run and of what it calls keeps the invariant. *)
LEMMA NextInv == Inv /\ [Next]_vars => Inv'
BY SetupInv, BeginStepInv, RunActionInv, FinishBeforeHookInv, FinishMainInv, StartAfterHooksInv,
   FinishAfterHookInv, EndStepInv, CleanupInv, FinishReportInv, StutterInv DEF Next, Done

(* The invariant holds throughout, for every case file. *)
THEOREM Invariance == Spec => []Inv
<1>1. Inv /\ [Next]_vars => Inv'
  BY NextInv
<1> QED BY InitInv, <1>1, PTL DEF Spec

(* Every variable of a case keeps its type (internal/engine/suite). *)
THEOREM TypeCorrect == Spec => []TypeOK
<1>1. Inv => TypeOK
  BY DEF Inv
<1> QED BY Invariance, <1>1, PTL

(* finishReport says passed only if every action of every step that is not *)
(* optional, and of the hooks around it, ran and passed, and the cleanup   *)
(* did not fail.                                                           *)
THEOREM PassesAreTrue == Spec => []NoFalsePass
<1>1. Inv => NoFalsePass
  <2> SUFFICES ASSUME Inv, Over, report.state = "passed"
               PROVE  /\ \A i \in DOMAIN case.steps : StepPassed(i)
                      /\ \A k \in DOMAIN log : ~Fatal(log[k])
    BY DEF NoFalsePass, StepPassed, BeforePassed, AfterPassed
  <2>1. ~err /\ \A i \in DOMAIN case.steps : StepPassed(i)
    BY DEF Inv, PassInv, Over
  <2>2. ASSUME NEW k \in DOMAIN log, Fatal(log[k]) PROVE FALSE
    <3>1. Halted(log[k])
      BY <2>2 DEF Inv, ErrorInv, Fatal
    <3> QED BY <2>1, <2>2, <3>1 DEF Halted, Over
  <2> QED BY <2>1, <2>2
<1> QED BY Invariance, <1>1, PTL

(* finishReport says failed, once anything has run, only for a failed      *)
(* action outside the optional steps, a failed cleanup or an empty step in *)
(* the file.                                                               *)
THEOREM FailuresAreTrue == Spec => []NoFalseFail
<1>1. Inv => NoFalseFail
  BY DEF Inv, FailInv, Over, NoFalseFail, Reason, NilDeclared
<1> QED BY Invariance, <1>1, PTL

(* The after-each hooks of runStepWithHooks run for every step that was    *)
(* begun, and the deferred cleanup of service.run once, after everything,  *)
(* on every path out of the steps.                                         *)
THEOREM TeardownIsRun == Spec => []TeardownRuns
<1>1. Inv => TeardownRuns
  <2> SUFFICES ASSUME Inv PROVE AfterHooksRun /\ CleanupLast
    BY DEF TeardownRuns
  <2>1. AfterHooksRun
    <3> SUFFICES ASSUME Over, HooksDue, NEW k \in DOMAIN log, log[k].part \in {"before", "main"}
                 PROVE  HooksSeen(log[k].idx)
      BY DEF AfterHooksRun, HooksDue, HooksSeen
    <3> QED BY DEF Inv, TeardownInv, Over
  <2>2. CleanupLast
    BY DEF Inv, TeardownInv, CleanupLast, Over
  <2> QED BY <2>1, <2>2
<1> QED BY Invariance, <1>1, PTL

(* step.Run and suite.Run execute the actions in the documented order,     *)
(* none twice, and after a failure nothing but the teardown.               *)
THEOREM ScriptIsFollowed == Spec => []ScriptFollowed
<1>1. Inv => ScriptFollowed
  BY DEF Inv, OrderInv, ErrorInv, ScriptFollowed
<1> QED BY Invariance, <1>1, PTL

(* caseStats counts each object the case ensured, patched or deleted       *)
(* exactly once, in steps and hooks, failed ones included.                 *)
THEOREM StatsAreExact == Spec => []StatsMatch
<1>1. Inv => StatsMatch
  <2> SUFFICES ASSUME Inv, Over, NEW a \in Mutating
               PROVE  ObjectStats(report, a) = Cardinality(Executed(a))
    BY DEF StatsMatch, Executed
  <2>1. ObjectStats(report, a) \in Nat /\ Pending(a) = 0
    BY StatsHere DEF Over
  <2>2. Cardinality(Executed(a)) = ObjectStats(report, a) + Pending(a)
    BY DEF Inv, StatsInv
  <2> QED BY <2>1, <2>2
<1> QED BY Invariance, <1>1, PTL
=============================================================================

------------------------------- MODULE CaseRun -------------------------------
(***************************************************************************)
(* One test case from its file to its report: suite.Run with its setup,    *)
(* hooks, steps and deferred cleanup (internal/engine/suite), step.Run     *)
(* with its fixed order of actions (internal/engine/step), and what the    *)
(* action runners report (internal/engine/action).                         *)
(*                                                                         *)
(* What an action does to the cluster is KubeService's subject; here it    *)
(* passes or fails, whether because of rendering, its delay, the cluster   *)
(* or an interrupt.  Names, reasons, times and log lines are left out.     *)
(***************************************************************************)
EXTENDS Naturals, Sequences, FiniteSets

CONSTANTS
    Cases,         \* the case files considered, records of Case
    HasNamespace   \* is conf.Namespace set?

(* The order in which a step runs its actions. *)
ActionOrder == <<"ensure", "patch", "wait", "assert", "logs", "exec", "delete">>
ActionName == {ActionOrder[i] : i \in DOMAIN ActionOrder}

(* The actions counted in the object statistics. *)
Mutating == {"ensure", "patch", "delete"}

(* A step as declared; an empty list item in the YAML is a nil step. *)
Step ==
    [isNil : {FALSE}, optional : BOOLEAN, actions : SUBSET ActionName]
      \cup [isNil : {TRUE}, optional : {FALSE}, actions : {{}}]

Case == [steps : Seq(Step), before : Seq(Step), after : Seq(Step)]

ASSUME CaseAssumption == Cases \subseteq Case /\ HasNamespace \in BOOLEAN

VARIABLES
    case,      \* the parsed case
    pc,        \* where the case stands
    idx,       \* the main step under way
    part,      \* "before", "main" or "after"
    pos,       \* which hook of that part
    slot,      \* the next entry of ActionOrder to look at
    acts,      \* the action reports of the step under way
    broken,    \* the step under way has an error
    result,    \* runStepWithHooks has an error to return
    main,      \* the report of the main step, once there is one
    report,    \* the case report
    err,       \* the error suite.Run will return
    log        \* ghost: the actions executed and the cleanup, in order

vars == <<case, pc, idx, part, pos, slot, acts, broken, result, main, report, err, log>>
stepVars == <<idx, part, pos, slot, acts, broken, result, main>>

ActionReport == [action : ActionName, state : {"passed", "failed"}]
StepReport == [state : {"passed", "failed", "skipped"}, acts : Seq(ActionReport)]
NoReport == [state |-> "none", acts |-> <<>>]
Event == [part : {"before", "main", "after", "cleanup"}, idx : Nat, pos : Nat,
          action : ActionName \cup {"cleanup"}, state : {"passed", "failed"}]

TypeOK ==
    /\ case \in Cases
    /\ pc \in {"parse", "kube", "namespace", "run", "begin", "action", "toAfter", "end",
               "cleanup", "finish", "done"}
    /\ idx \in Nat /\ pos \in Nat
    /\ part \in {"before", "main", "after"}
    /\ slot \in 1 .. Len(ActionOrder) + 1
    /\ acts \in Seq(ActionReport)
    /\ broken \in BOOLEAN /\ result \in BOOLEAN /\ err \in BOOLEAN
    /\ main \in StepReport \cup {NoReport}
    /\ report \in [state : {"", "passed", "failed", "skipped"}, passed : Nat, failed : Nat,
                   total : Nat, steps : Seq(StepReport), hooks : Seq(StepReport)]
    /\ log \in Seq(Event)

EmptyReport == [state |-> "", passed |-> 0, failed |-> 0, total |-> 0,
                steps |-> <<>>, hooks |-> <<>>]

Init ==
    /\ case \in Cases
    /\ pc = "parse"
    /\ idx = 1 /\ part = "before" /\ pos = 1 /\ slot = 1
    /\ acts = <<>> /\ broken = FALSE /\ result = FALSE /\ main = NoReport
    /\ report = EmptyReport
    /\ err = FALSE
    /\ log = <<>>
-----------------------------------------------------------------------------
(* Setup: an error on the way ends the case before any step, uncleaned. *)

Finish(e, r) == pc' = "finish" /\ err' = e /\ report' = r

Proceed(to) == pc' = to /\ UNCHANGED <<err, report>>

(* The file cannot be read or is invalid: the report carries no steps. *)
ParseFails ==
    /\ pc = "parse"
    /\ Finish(TRUE, report)
    /\ UNCHANGED <<case, stepVars, log>>

(* newReport counts the declared steps. *)
ParseSucceeds ==
    /\ pc = "parse"
    /\ pc' = "kube"
    /\ report' = [report EXCEPT !.total = Len(case.steps)]
    /\ UNCHANGED <<case, stepVars, err, log>>

(* Tags were requested and none matches. *)
SkipByTags ==
    /\ pc = "kube"
    /\ pc' = "done"
    /\ report' = [report EXCEPT !.state = "skipped"]
    /\ UNCHANGED <<case, stepVars, err, log>>

NewService ==
    /\ pc = "kube"
    /\ \/ Proceed(IF HasNamespace THEN "namespace" ELSE "run")
       \/ Finish(TRUE, report)
    /\ UNCHANGED <<case, stepVars, log>>

EnsureNamespace ==
    /\ pc = "namespace"
    /\ \/ Proceed("run")
       \/ Finish(TRUE, report)
    /\ UNCHANGED <<case, stepVars, log>>

(* A case without steps passes at once; otherwise cleanup is deferred. *)
Run ==
    /\ pc = "run"
    /\ Proceed(IF case.steps = <<>> THEN "finish" ELSE "begin")
    /\ UNCHANGED <<case, stepVars, log>>
-----------------------------------------------------------------------------
(* The hooks of a part. *)
Hooks(p) == IF p = "before" THEN case.before ELSE case.after

CurrentStep == IF part = "main" THEN case.steps[idx] ELSE Hooks(part)[pos]

(* Mutant: zero stands for "no action left". *)
FirstSlotIsZero(st, i) ==
    LET declared == {j \in i .. Len(ActionOrder) : ActionOrder[j] \in st.actions}
    IN  IF declared = {} THEN 0
        ELSE CHOOSE j \in declared : \A k \in declared : j <= k

(* The first slot from i on whose action the step declares. *)
NextSlot(st, i) ==
    LET declared == {j \in i .. Len(ActionOrder) : ActionOrder[j] \in st.actions}
    IN  IF declared = {} THEN Len(ActionOrder) + 1
        ELSE CHOOSE j \in declared : \A k \in declared : j <= k

(* runStep is entered for step st of part p at position n; a nil step is an *)
(* error at once.                                                           *)
EnterStep(st, p, n) ==
    /\ pc' = "action"
    /\ part' = p
    /\ pos' = n
    /\ slot' = NextSlot(st, 1)
    /\ acts' = <<>>
    /\ broken' = st.isNil

(* runStepWithHooks starts for main step idx with its before-each hooks. *)
BeginStep ==
    /\ pc = "begin"
    /\ result' = FALSE
    /\ main' = NoReport
    /\ IF case.before = <<>>
       THEN EnterStep(case.steps[idx], "main", 1)
       ELSE EnterStep(case.before[1], "before", 1)
    /\ UNCHANGED <<case, idx, report, err, log>>

(* The next declared action of the step runs, unless one has failed. *)
RunAction ==
    /\ pc = "action" /\ ~broken /\ slot <= Len(ActionOrder)
    /\ \E state \in {"passed", "failed"} :
          /\ acts' = Append(acts, [action |-> ActionOrder[slot], state |-> state])
          /\ broken' = (state = "failed")
          /\ log' = Append(log, [part |-> part, idx |-> idx, pos |-> pos,
                                 action |-> ActionOrder[slot], state |-> state])
    /\ slot' = NextSlot(CurrentStep, slot + 1)
    /\ UNCHANGED <<case, pc, idx, part, pos, result, main, report, err>>

(* The step's actions are over. *)
StepOver == pc = "action" /\ (broken \/ slot > Len(ActionOrder))

(* step.Run: the failure of an optional step becomes a skip. *)
StepState(st) ==
    CASE broken /\ st.optional -> "skipped"
      [] broken /\ ~st.optional -> "failed"
      [] OTHER -> "passed"

Report(st) == [state |-> StepState(st), acts |-> acts]

(* Mutant: an optional step's error is returned all the same. *)
StepErrorIgnoresOptional(st) == broken

(* What runStep returns to its caller. *)
StepError(st) == broken /\ ~st.optional

(* The report of a main step that never ran because a hook failed. *)
SkippedReport == [state |-> "skipped", acts |-> <<>>]

(* Mutant: a failing before-each hook does not keep the step from running. *)
HookErrorLeadsToStep(e) == "main"

(* Where a before-each hook that returned error e leads to. *)
AfterBeforeHook(e) == IF e THEN "toAfter" ELSE "main"

FinishBeforeHook ==
    /\ StepOver /\ part = "before"
    /\ report' = [report EXCEPT !.hooks = Append(@, Report(CurrentStep))]
    /\ LET e == StepError(CurrentStep)
       IN  CASE ~e /\ pos < Len(case.before) ->
                  /\ EnterStep(case.before[pos + 1], "before", pos + 1)
                  /\ UNCHANGED <<main, result>>
             [] (e \/ pos = Len(case.before)) /\ AfterBeforeHook(e) = "main" ->
                  /\ EnterStep(case.steps[idx], "main", 1)
                  /\ UNCHANGED <<main, result>>
             [] OTHER ->
                  /\ pc' = "toAfter"
                  /\ main' = SkippedReport
                  /\ result' = TRUE
                  /\ UNCHANGED <<part, pos, slot, acts, broken>>
    /\ UNCHANGED <<case, idx, err, log>>

FinishMain ==
    /\ StepOver /\ part = "main"
    /\ main' = Report(CurrentStep)
    /\ result' = StepError(CurrentStep)
    /\ pc' = "toAfter"
    /\ UNCHANGED <<case, idx, part, pos, slot, acts, broken, report, err, log>>

(* Mutant: the after-each hooks are skipped when there is an error already. *)
SkipHooksOnError == case.after = <<>> \/ result

(* There is no after-each hook to run. *)
NoAfterHooks == case.after = <<>>

(* The after-each hooks run whether or not the step failed. *)
StartAfterHooks ==
    /\ pc = "toAfter"
    /\ IF NoAfterHooks
       THEN pc' = "end" /\ UNCHANGED <<part, pos, slot, acts, broken>>
       ELSE EnterStep(case.after[1], "after", 1)
    /\ UNCHANGED <<case, idx, result, main, report, err, log>>

FinishAfterHook ==
    /\ StepOver /\ part = "after"
    /\ report' = [report EXCEPT !.hooks = Append(@, Report(CurrentStep))]
    /\ result' = (result \/ StepError(CurrentStep))
    /\ IF ~StepError(CurrentStep) /\ pos < Len(case.after)
       THEN EnterStep(case.after[pos + 1], "after", pos + 1)
       ELSE pc' = "end" /\ UNCHANGED <<part, pos, slot, acts, broken>>
    /\ UNCHANGED <<case, idx, main, err, log>>

(* countSteps: a skipped step counts as passed. *)
CountIn(reports, states) == Cardinality({i \in DOMAIN reports : reports[i].state \in states})

(* The places <<i, j>> of the actions a that passed: report i, action j. *)
PassedActions(reports, a) ==
    {p \in (DOMAIN reports) \X (1 .. Len(ActionOrder)) :
        /\ p[2] \in DOMAIN reports[p[1]].acts
        /\ reports[p[1]].acts[p[2]] = [action |-> a, state |-> "passed"]}

(* stepStats: how often action a passed in these steps. *)
StepStats(reports, a) == Cardinality(PassedActions(reports, a))

(* Mutant: the actions of the hooks are not counted. *)
ObjectStatsOfSteps(r, a) == StepStats(r.steps, a)

(* caseStats: the sum over the main steps and the hooks. *)
ObjectStats(r, a) == StepStats(r.steps, a) + StepStats(r.hooks, a)

(* Mutant: the loop over the steps goes on after an error. *)
StopAfterLast == idx = Len(case.steps)

(* The loop over the steps ends with this one. *)
StopSteps == result \/ idx = Len(case.steps)

(* The step's report joins the case report, and the loop stops at an error. *)
EndStep ==
    /\ pc = "end"
    /\ LET steps == Append(report.steps, main)
       IN  report' = [report EXCEPT
                        !.steps = steps,
                        !.passed = CountIn(steps, {"passed", "skipped"}),
                        !.failed = CountIn(steps, {"failed"})]
    /\ err' = (err \/ result)
    /\ IF StopSteps
       THEN pc' = "cleanup" /\ UNCHANGED idx
       ELSE pc' = "begin" /\ idx' = idx + 1
    /\ UNCHANGED <<case, part, pos, slot, acts, broken, result, main, log>>

(* errors.Join of the run's error and the cleanup's. *)
JoinError(e) == err \/ e

(* The deferred cleanup, on a context of its own. *)
Cleanup ==
    /\ pc = "cleanup"
    /\ pc' = "finish"
    /\ \E state \in {"passed", "failed"} :
          /\ err' = JoinError(state = "failed")
          /\ log' = Append(log, [part |-> "cleanup", idx |-> idx, pos |-> 1,
                                 action |-> "cleanup", state |-> state])
    /\ UNCHANGED <<case, stepVars, report>>

(* finishReport *)
FinishReport ==
    /\ pc = "finish"
    /\ pc' = "done"
    /\ report' = [report EXCEPT !.state = IF err THEN "failed" ELSE "passed"]
    /\ UNCHANGED <<case, stepVars, err, log>>

Done == pc = "done" /\ UNCHANGED vars

Next ==
    \/ ParseFails \/ ParseSucceeds \/ SkipByTags \/ NewService \/ EnsureNamespace \/ Run
    \/ BeginStep \/ RunAction \/ FinishBeforeHook \/ FinishMain
    \/ StartAfterHooks \/ FinishAfterHook \/ EndStep
    \/ Cleanup \/ FinishReport \/ Done

Spec == Init /\ [][Next]_vars /\ WF_vars(Next)
-----------------------------------------------------------------------------
Over == pc = "done"

(* The step an event of the log belongs to. *)
StepOf(e) == CASE e.part = "before" -> case.before[e.pos]
               [] e.part = "after" -> case.after[e.pos]
               [] OTHER -> case.steps[e.idx]

(* The event fails the case: it belongs to no optional step. *)
Fatal(e) == e.state = "failed" /\ (e.part = "cleanup" \/ ~StepOf(e).optional)

Passed(p, i, n, a) ==
    \E k \in DOMAIN log : log[k] = [part |-> p, idx |-> i, pos |-> n, action |-> a,
                                    state |-> "passed"]

(* A step is required: every action of it must have passed. *)
AllPassed(st, p, i, n) ==
    st.optional \/ (~st.isNil /\ \A a \in st.actions : Passed(p, i, n, a))

(* A case is reported as passed only if every action of every step that is *)
(* not optional, and of every hook around it, ran and passed, and nothing  *)
(* of the cleanup failed.                                                  *)
NoFalsePass ==
    Over /\ report.state = "passed" =>
        /\ \A i \in DOMAIN case.steps :
              /\ AllPassed(case.steps[i], "main", i, 1)
              /\ \A n \in DOMAIN case.before : AllPassed(case.before[n], "before", i, n)
              /\ \A n \in DOMAIN case.after : AllPassed(case.after[n], "after", i, n)
        /\ \A k \in DOMAIN log : ~Fatal(log[k])

(* A case whose steps ran is reported as failed only for a reason: an      *)
(* action outside the optional steps failed, or the cleanup, or a step of  *)
(* the file is empty.                                                      *)
NoFalseFail ==
    Over /\ report.state = "failed" /\ log # <<>> =>
        \/ \E k \in DOMAIN log : Fatal(log[k])
        \/ \E st \in {case.steps[i] : i \in DOMAIN case.steps}
                     \cup {case.before[i] : i \in DOMAIN case.before}
                     \cup {case.after[i] : i \in DOMAIN case.after} : st.isNil

(* The after-each hooks run for every step that was begun, failed or not. *)
AfterHooksRun ==
    Over /\ case.after # <<>> =>
        \A k \in DOMAIN log :
            /\ log[k].part \in {"before", "main"}
            /\ case.after[1].actions # {} /\ ~case.after[1].isNil
            => \E m \in DOMAIN log : log[m].part = "after" /\ log[m].idx = log[k].idx

(* Whenever an action ran, the cleanup runs once, after all of them: on    *)
(* every exit path of run, failure included.                               *)
CleanupLast ==
    /\ \A k \in DOMAIN log : log[k].part = "cleanup" => k = Len(log)
    /\ Over /\ log # <<>> => log[Len(log)].part = "cleanup"

(* A failing case is torn down like a passing one: its after-each hooks    *)
(* and its cleanup run on every path out of the steps, the cleanup last.   *)
TeardownRuns == AfterHooksRun /\ CleanupLast

PartRank(p) == CASE p = "before" -> 1 [] p = "main" -> 2 [] p = "after" -> 3 [] OTHER -> 4

(* docs/actions.md: "ensure -> patch -> wait -> assert -> logs -> exec -> delete" *)
DocumentedOrder == <<"ensure", "patch", "wait", "assert", "logs", "exec", "delete", "cleanup">>
Slot(a) == CHOOSE i \in DOMAIN DocumentedOrder : DocumentedOrder[i] = a

(* Event d comes before event e: by step, part, hook and place in the      *)
(* fixed order of actions.                                                 *)
Precedes(d, e) ==
    \/ d.idx < e.idx
    \/ d.idx = e.idx /\ PartRank(d.part) < PartRank(e.part)
    \/ d.idx = e.idx /\ d.part = e.part /\ d.pos < e.pos
    \/ d.idx = e.idx /\ d.part = e.part /\ d.pos = e.pos /\ Slot(d.action) < Slot(e.action)

(* Actions run in the documented order, and none runs twice. *)
InOrder ==
    \A j, k \in DOMAIN log : j < k => Precedes(log[j], log[k])

(* After a failing action nothing more of its step runs; unless the step   *)
(* is optional, nothing follows but the after-each hooks of the same step  *)
(* (none, if it was one of them that failed) and the cleanup.              *)
StopsOnError ==
    \A j, k \in DOMAIN log : j < k /\ log[j].state = "failed" =>
        /\ <<log[k].part, log[k].idx, log[k].pos>> # <<log[j].part, log[j].idx, log[j].pos>>
        /\ Fatal(log[j]) =>
              \/ log[k].part = "cleanup"
              \/ log[k].part = "after" /\ log[k].idx = log[j].idx /\ log[j].part # "after"

(* What a case executes follows its script: the documented order, nothing  *)
(* twice, and nothing after an error but the teardown.                     *)
ScriptFollowed == InOrder /\ StopsOnError

(* The statistics of the report count the objects the case's actions       *)
(* really ensured, patched and deleted, in steps and hooks, also in those  *)
(* that failed later on.                                                   *)
StatsMatch ==
    Over => \A a \in Mutating :
        ObjectStats(report, a) =
            Cardinality({k \in DOMAIN log : log[k].action = a /\ log[k].state = "passed"})
=============================================================================

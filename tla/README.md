# TLA+ models of kube2e

kube2e runs declarative end-to-end tests against a Kubernetes cluster: a *suite* is a
directory of case files, a *case* is a list of steps with hooks around them, a *step* a
fixed sequence of *actions* (ensure, patch, wait, assert, logs, exec, delete). Whatever a
case creates must be gone when it is over, whatever it did not create must be left alone,
and the report and the exit status must be true. These modules model the parts of the code
that make this so, TLC checks them on small instances, and TLAPS proves every safety
invariant the passing runs check, and the safety half of the refinement, for every instance. Paths below are relative to the repository, that is to
`src/`.

## Inventory

| Component | State | Operations | Interactions | What is hard | What makes it correct |
|---|---|---|---|---|---|
| Kube service (`internal/kube/service.go`) | the applied cache, dry-run and conflict options | Ensure, Patch, Delete, Wait, Check, Filter, LogsContains, Exec, Cleanup | one per case; requests to the API server; the case runner calls it | probe and apply are two requests; lost replies and retries; interrupts between any two requests and while one is in flight; several services on one cluster | nothing a case created outlives it, nothing else is deleted |
| Retry loops (same file) | tries used in three nested loops | call, retry, return | wrap every request of Ensure, Patch, Delete, Check and Exec | nesting multiplies calls; attempts of zero or less; context errors | bounded, and truthful about success |
| Applied store (`internal/tools/safe/store.go`) | a locked map | Put, Get, Delete, Iter over a snapshot | Ensure puts, Delete removes, Cleanup iterates while Delete removes | iteration over entries that change | a snapshot: no entry is skipped |
| Case runner (`internal/engine/suite`) | report, joined error | parse, tag filter, namespace, hooks, steps, deferred cleanup | calls the step runner and the kube service | combinations of failing hooks, steps and cleanup | the verdict agrees with what happened |
| Step and action runners (`internal/engine/step`, `action`) | action reports | seven actions in a fixed order, optional steps | call the kube service and the templates | which errors an optional step swallows | order, early stop, statistics |
| Suite runner (`internal/engine/test`) | case reports, joined error | loop over the case files | calls the case runner | a context error ends the loop | no false pass |
| Engine and worker pool (`pkg/engine`, `internal/tools/workerpool`) | maps of reports and errors under a mutex | discover, dispatch, collect | one worker per suite | completion order, interrupt, bounded parallelism | complete report, sound exit status, the run ends |
| Remote image (`internal/image/traverse.go`) | a temporary directory | pull, extract, remove | wraps a local run | every error path removes the directory; the tag moves | lives exactly as long as the run, and the report names what was run |
| Image build and publish (`internal/image/build.go`, `pkg/command/tests/publish`) | a temporary layer file, the digest file | find suites, write layer, push, write digest | the registry, which others push to as well | which files belong to a suite; a step that fails half way | the image holds what a run of the directory would execute |
| Validation (`internal/validate`) | none | find suites, check each case file | reads the directory publish and run read | a discovery rule of its own | no case is run that it did not look at |
| Scaffolding, templates, JQ and patch tools, CLI, logger | none that outlives a call | | | | abstracted or not modelled, see below |

The hazards of the code, each at its line and with the properties that watch it, are in
`PROJECT.json`.

## Modules

* `Retry` - the three nested `retry.OnError` loops as one operator, `AfterError`: what a
  failing call leads to. `RetryLoop` runs one operation through it.
* `KubeService` - Ensure, Delete with its wait, and Cleanup of any number of services over
  one cluster. Extends `Retry`.
* `PodLogs` - `LogsContains` under the policies any, all and none.
* `ObjectActions` - the actions patch, wait, assert and exec with Patch, Wait, Check and Exec
  under them, for one action. Extends `Retry`.
* `CaseRun` - suite.Run, step.Run and what the actions report, for one case.
* `TestRun` - what a run promises: each suite at most once, so many at a time, one report of
  all that were run, an exit status that is true, an end; none left out unless the run is
  interrupted. An abstract specification; it models no code.
* `Engine` - a whole run: kubeconfig, image, discovery, worker pool, suites, report, exit
  status. It implements `TestRun` (`Promise == INSTANCE TestRun WITH ...`).
* `TestImage` - validate, publish and run --remote over one directory of suites.
* `MCKubeService`, `MCObjectActions`, `MCCaseRun`, `MCEngine`, `MCTestImage` - the small
  instances TLC runs. `RetryLoop` and `PodLogs` need none.
* `RetryProofs`, `RetryLoopProofs`, `KubeServiceProofs`, `ObjectActionsProofs`,
  `PodLogsProofs`, `CaseRunProofs`, `EngineProofs`, `TestImageProofs` - the theorems, one
  module for each module they are about.

The modules are layers: a case is one step of `Engine`, an action is one step of `CaseRun`,
a cluster request is one step of `KubeService`, `PodLogs` and `ObjectActions`. Each layer lets the one below
end in every way it can end.

### How state and actions correspond to the code

**KubeService.** A step is one request to the API server together with the local work after
its reply. `pc[s]` is the place in the code (`probe` and `apply` in Ensure, `delete` and
`waiting` in Delete, `sweeping` in Cleanup's loop), `created` is Ensure's local variable,
`applied` the cache as the set of its values (no two share an `appliedKey`), `todo` the
snapshot Cleanup iterates over, `retry` the loops. `failed` is the error the case will
return. `EnsureApplyLost` and `DeleteRequestLost` are requests that were performed but came
back as an error: a reply was lost (`LostReplies`), or the context ended while the request was
in flight, which needs no fault and can happen in every run with interrupts. An apply that is
interrupted this way has created an object Ensure never caches; that hole has a cause of its
own, "interrupted apply". A lost request is performed before the client sees its error, never
later. `phase`,
`ServerApply`, `ServerDelete`, finalizers (`ObjectGone`) and outsiders model the cluster, from
the way the code uses it. The ghost `creator` says who created the incarnation of an object
that is there now, `everAbsent` which objects were ever absent, and `holes` records each
occasion on which a service loses track of what it created.

Three things are wider in the model than in the code. After a failed action the model's case
may go on with another one (in the code only the after-each hooks do). The order of cleanup
is any order (Go's map order). And `Graceful` objects may stay terminating for ever.

What client-go's `OnError` does with a context error returned by the function is not visible
in this repository: some versions return it, others treat it like their own exhaustion and
return the last retriable error, which is nil when there is none. The constant
`InterruptedAsTimeout` covers both, and the theorems hold for both.

**PodLogs.** A log is the number of lines written since the last line with the string, capped
at the tail that is fetched (`since`). One step is one request: listing the pods
(`ResolvePods`), reading one log (`ReadLog`, `ReadFails`). `ended` is the context of the poll
(its window or a cancellation), `canceled` the caller's. `resolved` and `matched` are the two
results of `countLogMatches`. `PollUntilContextTimeout` looks at its context before each tick.

**ObjectActions.** A behaviour is one action from its delay to its report; `call` is the
action as its step writes it. A step is one request or one event of the status poller. An
object is its resourceVersion, the set of writes of others it contains, how often the patch
is in it, and the conditions that hold of it; `seen` is the copy the code works on between
its requests. `retry` is the state of `Retry`'s loops: Patch nests a loop for conflicts in
the user's, assert and exec have the user's alone. `UpdateWritten` and `CommandRuns` include
the update that was performed and the command that was executed although the reply was an
error. Others write and delete the object and pods come and go at any moment. RunWait and
RunExec give their call a deadline (`HasDeadline`), RunPatch and RunAssert none. The status
poller is external: it reports some of the changes, may report an error, and closes its
channel when its context has ended. A poller that closed it earlier would let Wait return
nil, as `ctx.Err()` would be nil.

**TestImage.** `tree` is the directory, an entry of it a suite, a hidden directory, a file or
nothing, with its `cases` entry (a directory, a link to one, a file or missing) and the kinds
of files in it, named apart as in any directory. A file `.wh.X` in a layer is a whiteout:
`mutate.Extract`, which extract reads, drops it and with it every `X` that comes later in the
same layer, and WalkDir packs in lexical order, so only an `X` that sorts before `.wh.`
(`EarlyNames`) survives its own whiteout (`Hides`, `Extracted`). `RunSuites`, `SuiteDirs` and `TestDirs` are the three discovery rules,
`CaseFiles` and `IncludeLayerEntry` the two rules for case files. An image is the directory it
holds and its own digest. `layer` and `temp` are the temporary file and directory; they
disappear where the code's deferred removals run. Every step of publish and of run --remote
may fail, and a push that reports an error may have reached the registry.

**CaseRun.** `part`, `idx`, `pos` and `slot` are the loop indices of run, runSteps and
step.run; `acts`, `main` and `report` the reports they build; `result` and `err` the joined
errors. `ObjectStats` is caseStats: `StepStats` over the step reports plus `StepStats` over the
hook reports, each a sum of `PassedActions`. The ghost `log` is the sequence of actions actually executed, with the cleanup; the
properties compare it with the report.

**Engine.** The mapping to `TestRun`: the status of a suite is its worker's state and, once it
has ended, whether test.Run returned an error; `interrupted` is the same in both; the report is `tests` with countTests' sums;
the exit status is there when the command has returned. `next` is the pool's loop, `state[i]` a worker, `reports` the shared maps in order
of completion, `tests` the report in discovery order; `Ascending` puts the places of a set of
entries in the order in which ReadDir lists them. An "aborted" case is one whose error
wraps `context.Canceled` or `context.DeadlineExceeded`.

## Runs

| Run | Instance | What it shows |
|---|---|---|
| `retry` | 4 default steps (client-go's value), 3 attempts, every sequence of errors | the loops end after at most 48 calls; an error means that every attempt was used; success means a successful call |
| `kube_clean` | three cases one after another, one of them a dry run, three objects that may or may not exist before, interrupts at any moment, also of a request in flight, no failing requests, no finalizers and no delete actions | nothing leaks but what an interrupted apply created, only own objects are deleted, the namespace is kept, every case closes |
| `kube_faults` | one case, two objects that clash in the cache key, all error classes, lost replies, outsiders, finalizers, interrupts, cleanup timeout, optional steps | leaks happen only in the named ways; objects that were there all along are spared; cleanup tries every entry and reports failures |
| `case` | a chosen set of case shapes with up to two steps (plain, optional, empty, nil) and up to two hooks before and after (the theorems cover all shapes), every action passing or failing | verdicts, order, hooks, cleanup, statistics |
| `engine` | three suites with two, one and one case, two at a time, remote, interrupted or not; a dot directory and a file beside them | `Engine` implements `TestRun`: parallelism, a report in discovery order that leaves out no suite unless the run was interrupted, true exit status, termination; no suite passes falsely; temporary directory |
| `logs` | two pods, a tail of two lines, every policy, named and selected targets, failing requests, cancellation | what a passing logs action has established; the call returns |
| `object` | one action with up to two attempts and two conditions, four default steps, an object others change up to four times, two pods that flap, lost replies, deadline, interrupt, dry run | a patch never undoes a write of others, a conflict comes out only after four lost races, the patch and the command take effect at most as often as the step allows, a pass is real, conditions are judged together, the action returns |
| `image` | 227 directories of two entries (every mix of five kinds of case files in one, a whiteout of one of the others among them; whiteouts that are links or come too late; all kinds of entries in both), with or without a cases directory of their own, failing steps, another publisher of the same tag | publish and run lose no regular case file that no whiteout hides, and add none; the digest names what was built and run; what validates is what runs; no temporary file stays |

The violation runs each show one disagreement between the code and what its documentation
or comments say of it:

| Run | What the code does |
|---|---|
| `kube_interrupted_delete` | Delete drops the object from the cache before the request. If the request is interrupted or fails for good, cleanup no longer knows the object |
| `kube_race` | two parallel suites both find an object absent and both cache it; the cleanup of one deletes the object the other created |
| `kube_delete_wait` | `delete` with `wait: true` returns at the first status event of the terminating object, because there are no conditions left to hold |
| `engine_interrupt` | the pool's loop does not look at the context and goes on starting suites after an interrupt |

### Disagreements seen on the way

Further places where code and documentation differ. The first two were reproduced in the
models with properties of their own; the others were met while reading.

* The timeout of a single action ends its whole suite: Wait returns the `DeadlineExceeded` of
  its own context, and a case error that wraps it ends the loop over the case files
  (`internal/engine/test/run.go:77`; the comment at `:39`: "Run executes all test cases found
  under conf.TestDir."). In `Engine` this is a `RunCase` with outcome "aborted" in a run that
  nobody interrupted; that such a suite executed all its case files does not hold of the code,
  and no run claims it.
* `match: none` does not look at Failed and Unknown pods, whose log may still hold the
  forbidden string (`internal/kube/service.go:1150`; `docs/actions.md:147`).
* `signal.NotifyContext` goes on catching signals until `run` returns, so a second signal is
  swallowed; the comment at `cmd/kube2e/main.go:26` says it force-quits.
* A patch interrupted before its first conflict is reported as passed when `retry.OnError`
  hides the context error (`internal/kube/service.go:350`). `SuccessIsReal` names the exception.
* `timeout` of ensure, patch and assert ("Optional action deadline.",
  `schemas/case.schema.json`) is read by no runner, and exec's "Hard deadline for one command
  execution" covers all attempts together, because the context is derived outside the loop.
* Publish leaves out case files that are links, cases directories that are links, and names
  that begin with `.wh.`; a local run executes them. A regular `.wh.a.yaml` also takes its
  neighbour `a.yaml` out of the image. A suite whose `cases` is a file fails a
  local run and is an empty, passing suite in the image. `RoundTrip` sets links,
  whiteout names and what they hide aside and covers the rest.
* Run treats every directory as a suite, one without `cases/` as an empty one that passes;
  its help text says only directories with `cases/` count (`pkg/command/run/command.go:52`).
  Validate accepts a suite directory itself; run on it executes nothing.
* The comment of `skippedStepReport` says that the step counts reconcile with `report.Total`;
  steps after a failing one are in no count.

### Bounds and why they are enough

`MaxOps` = 2 lets a case ensure two objects, ensure one twice, and ensure and delete; each
hole needs at most two actions. Two attempts and two default steps exercise every branch of
`AfterError` (`retry` uses the real 4, and the proofs any value). Two objects with the same
key are needed for a clash and suffice. Two services suffice for a race on one object. In
`case` two steps let an error in the first show that the second does not run, and two hooks
that the second of them does not. In `engine` three suites over two slots make one wait while
two run; two cases in one suite make an abort leave one out. In `logs` two pods make all
differ from any, and a tail of two makes a line scroll out. In `object` four changes are what
it takes to lose every try of the conflict loop, so a conflict does come out; two conditions
can hold at different times only; two pods make exec move to another one. In `image` one rich
entry shows each rule for files alone and beside others, and the second each rule for entries.
`TailLines`, `MaxOps`, `MaxAttempts`, `MaxChanges` and the ghost counter of `RetryLoop` are the only
caps.

### Fairness

Requests return (the client's or the context's timeouts end them), Go schedules every
runnable goroutine, and time passes; hence weak fairness of each service's, worker's and
main goroutine's step and of the poll's deadline, and none of the environment: no object need
ever disappear, no outsider or signal need act. `CasesClose` is checked in `kube_clean`, where
requests do not fail and no object lingers; with faults and finalizers it is not among the
runs. The end `KeepsPromise` asks for comes whatever the suites do; the promise is fair to
what the run does (`Progress`), not to interrupts. An exec's stream is one step that ends: a
command that runs for ever has nothing but the deadline, and is not modelled.
`ObjectActions` is fair to the call and to its deadline, and to nothing others do; patch and
assert have no deadline and return because their loops are bounded. `TestImage` states safety
only.

## Proofs

Except for the two theorems about sequential cases, all theorems hold for every value of the
constants that satisfies the `ASSUME`s of the component modules (the types of the constants,
at least one default step and one slot, finitely many pods, conditions and suite names);
nothing else is assumed. Each proof module has one inductive invariant, `Inv`. TLC checked
each on the instance of its run before it was proved. One lemma per action shows that the
action preserves it, and the theorems follow from it.

**`RetryLoopProofs`** proves `TypeOK`, `CallsBounded`, `FailureMeansExhausted` and
`SuccessIsEarned`. `CallsBounded` is not inductive: it says nothing of how far the loops have
come. The strengthening `CallsAccounted` reads the three counters as the digits of a number
in base `DefaultSteps` and says that the calls made so far are at most that number. Each
retry increases it by at least one, a carry included. `RetryProofs` states once what
`AfterError` can lead to, for the three proofs that need it.

**`KubeServiceProofs`** proves `TypeOK`, `LeaksExplained`, `SparesPreexisting`,
`NamespaceKept`, `EveryEntryTried` and `FailedSweepReported`. The invariants speak of closed
cases or of the moment of a delete; their strengthenings say what holds on the way:

* `Tracked`: a live object created by a service is in its cache, or a hole explains it;
* `AbsentOnce` and `CachesEnsured`: what is in the cache, in the snapshot, or about to be
  cached was absent once and belongs to the case's own ensures;
* `Swept`: during cleanup each cached object is still in the snapshot, is being deleted, or
  could not be mapped;
* `SweepRecorded`: a failure of cleanup is on record, is still being retried, or the object
  is gone all the same;
* `Located` and `EmptyCache`: which operation each control point belongs to, and that dry
  runs never have anything to clean.

`QuietInv` covers the actions that touch only control variables.

Two more theorems are about cases that run one at a time, and say exactly what they need:

* `OwnOnly`: with `OneAtATime` (one case at a time, no other client) cleanup deletes only what
  its own case created (`CleanupOnlyOwn`). Faults are not restricted: requests fail, replies
  get lost, objects linger, keys clash, contexts end. `SoloInv` says that at most one case
  runs, that what its probe did not find is still absent when it applies, and that whatever its
  cleanup holds - cached, in the snapshot or being deleted - it created if it is live. The run
  `kube_race` shows that two cases at a time are too many.
* `NothingLeaks`: with `Undisturbed` nothing a case created outlives it, except for what an
  apply created that was interrupted in flight (`NoLeak`). That asks
  also for requests that do not fail unless interrupted, no cleanup timeout, no finalizers, no
  two objects with one key, and no delete action in a run that may be interrupted. `CalmInv`
  says that there are no other holes, because the probe's answer stands until the apply and no
  delete fails; `Tracked` and `Swept` do the rest. The conditions exclude every other `Cause`;
  `kube_interrupted_delete` shows what happens without the last one. `kube_clean` is an
  instance that satisfies them all.

**`ObjectActionsProofs`** proves `TypeOK`, `EffectsBounded`, `SuccessIsReal`,
`ConflictAbsorbed`, `JudgedTogether` and the action property `KeepsOthers`. Optimistic
concurrency rests on `VersionInv`: a resourceVersion names one content, so an update that finds
the version it read finds the object it read. `TryInv` charges every effect to one of the
user's attempts and every conflict to a change by others; `HeldInv` says that what is judged
was the state of the object at some time during the call; `PlaceInv` which place belongs to
which action.

**`PodLogsProofs`** proves `TypeOK`, `MatchSeen` and `AbsenceWatched`. `TickInv` is about the
counts in the middle of a tick: matches and open requests together never exceed the requests
made, and equal them only if every pod read so far had the string, which is what `match: all`
compares at the end. `WatchInv` ties the ghost to the logs, `AbsenceInv` a match seen under
none to the count that is about to be judged.

**`CaseRunProofs`** proves all six invariants of `CaseRun` for every case file, with any
number of steps and hooks. `OrderInv` says that the log lies behind the place where the case
stands, `ErrorInv` where the case may stand after a failed action, `PassInv` that as long as
there is no error everything behind that place has passed, `FailInv` that every error has its
reason, `TeardownInv` that hooks are done or still due. `StatsInv` counts the
actions executed so far as those in the report, plus those of the step under way, plus those
of the main step whose report waits for its hooks. Two lemmas carry the case through
`runStep`: `EnterInv`, entering a step or hook, and `LeaveInv`, leaving it.

**`EngineProofs`** proves `TypeOK`, `NoFalsePass` and `TempDirScoped`, and `PromiseIsKept`:
`Init` of `Engine` maps to `Init` of `TestRun` and every step to a step or a stutter. `PoolInv`
says that suites start in order and that a report is stored exactly for those that have ended,
`ReportInv` that the report is empty until the pool is done and full afterwards. `MappedFull`,
`MappedCount` and `MappedOrder` show that `Ascending` over all stored reports is the discovery
order and that countTests' sums are those `TestRun` asks for; `PromiseStart` to `PromiseExit`
take the steps one by one. `TestRun` would also let an interrupted run leave suites out, as the
release notes say it does; `Engine` never does (`engine_interrupt`).

**`TestImageProofs`** proves `TypeOK`, `RoundTrip`, `DigestPins`, `ValidatedIsRun` and
`ScratchRemoved` for every directory. The core is a set of lemmas about the discovery rules:
packing, extracting and discovering again yields the portable cases, and each of them is among
the files validate looks at; `PackedWhiteouts` says which files the whiteouts of a layer hide. `PublishInv`, `RegistryInv` and `RunInv` carry the image from the
builder through the registry to the run, whoever else pushes; `CheckedInv` says what a verdict
of validate means.

**Only model-checked:** liveness under fairness, which is out of TLAPS's reach: that calls
return (`Returns` of `RetryLoop`, `PodLogs` and `ObjectActions`), that cases close
(`CasesClose`), and the end of the run that `KeepsPromise` asks for beyond `PromiseIsKept`. The
properties of the violation runs are false, so there is nothing to prove.

## Not modelled

* What the JQ filter, the JSON patch, the template and the JSON schema libraries compute: a
  condition holds or not or cannot be evaluated, a patch applies or not, a template renders or
  not (part of an action's failure in `CaseRun`), a case file is valid or not.
* `kube.Service.Filter`: no runner calls it, and it changes nothing.
* Scaffolding: one call that writes a fixed directory; the directories it can leave behind,
  half-written ones included, are among those `TestImage` starts from.
* The guards of extraction on paths and link targets: images made by publish hold neither
  links nor paths outside.
* Templates in an image: they are packed by the rule for case files.
* Flags, registry credentials, logging, durations and the wording of reports.
* The second signal, see above.

## Plan

Done, in this order: the retry loops; the kube service with its cleanup guarantees; the case
runner; the engine; log polling; the proofs about the first two; patch, wait, assert and exec;
the abstract run and its refinement; validate, publish and run of an image.

Then the proofs: cleanup of sequential cases, the actions on one object, log polling, the case
runner, the engine with the safety half of its refinement, the image.

Next:

1. Composition: `CaseRun` driving the kube service, with the case's step order instead of
   arbitrary actions, and an abstract case (created, used, gone) that it implements.
2. Proofs: action properties of the kube service (an entry leaves the cache only through a
   delete or a clash; a closed case makes no further request) and of the case runner (reports
   only grow).

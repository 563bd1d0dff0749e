---------------------------- MODULE ObjectActions ----------------------------
(***************************************************************************)
(* The actions patch, wait, assert and exec (internal/engine/action) with  *)
(* the calls of kube.Service under them: Patch, Wait with conditions,      *)
(* Check and Exec (internal/kube/service.go).  They track nothing, but     *)
(* they work on an object and on pods that others change at the same time, *)
(* in several requests, under retry, with failing requests, lost replies,  *)
(* a deadline and an interrupt.  One behaviour is one action.              *)
(***************************************************************************)
EXTENDS Naturals, Sequences, FiniteSets, Retry

CONSTANTS
    Conditions,   \* the JQ conditions a wait or an assert may name
    Pods,         \* the pods of an exec's target, in the order of a listing
    MaxAttempts,  \* bound on the retry.attempts of the action
    MaxChanges    \* bound on what others do to the object

ASSUME ObjectActionsAssumption ==
    /\ IsFiniteSet(Conditions)
    /\ Pods \in Seq(STRING) /\ Pods # <<>>
    /\ MaxAttempts \in Nat /\ MaxChanges \in Nat

VARIABLES
    call,     \* the action, as its step writes it
    pc,       \* where the call is
    retry,    \* the retry loops
    live,     \* the object in the cluster
    seen,     \* the object as the call last read it
    phase,    \* phase[k] of the k-th pod
    pod,      \* the pod exec has resolved
    ended,    \* the call's context: "no", "deadline" or "canceled"
    result,   \* what the action returns
    changes,  \* what others have done to the object since the call began
    held,     \* the sets of conditions that held since the call began
    effects,  \* how often the patch was written or the command executed
    exited    \* the last command is known to have exited with code zero

vars == <<call, pc, retry, live, seen, phase, pod, ended, result, changes, held, effects, exited>>
cluster == <<live, phase, changes, held>>
ghosts == <<effects, exited>>

(* An object: its resourceVersion, the writes of others and of the call    *)
(* that it contains, and the conditions that hold of it.                   *)
Absent == [version |-> 0, others |-> {}, patched |-> 0, holds |-> {}]

(* RunPatch has a list of patches, RunWait and RunAssert have conditions   *)
(* (an assert at least one), RunExec has a pod or a selector as target.    *)
Calls == [op : {"patch", "wait", "assert", "exec"}, attempts : 0 .. MaxAttempts,
          dryRun : BOOLEAN, delay : BOOLEAN, patches : BOOLEAN, named : BOOLEAN,
          conditions : {<<>>} \cup {<<c>> : c \in Conditions}
                              \cup {<<c, d>> : c, d \in Conditions}]

(* The fields an action does not have have one value. *)
WellFormed(c) ==
    /\ c.op # "patch" => ~c.patches
    /\ c.op # "exec" => ~c.named
    /\ c.op \in {"patch", "exec"} => c.conditions = <<>>
    /\ c.op = "assert" => c.conditions # <<>>
    /\ c.op = "wait" => c.attempts = 0

TypeOK ==
    /\ call \in Calls
    /\ pc \in {"delay", "start", "get", "update", "poll", "judge", "resolve", "stream", "done"}
    /\ retry \in RetryState
    /\ \A o \in {live, seen} :
          /\ o.version \in Nat /\ o.patched \in Nat
          /\ o.others \in SUBSET Nat /\ o.holds \in SUBSET Conditions
    /\ phase \in [DOMAIN Pods -> {"Running", "Failed"}]
    /\ pod \in 0 .. Len(Pods)
    /\ ended \in {"no", "deadline", "canceled"}
    /\ result \in {"none", Nil, "conflict", "context", "other"}
    /\ changes \in 0 .. MaxChanges
    /\ held \in SUBSET SUBSET Conditions
    /\ effects \in Nat /\ exited \in BOOLEAN

Init ==
    /\ call \in {c \in Calls : WellFormed(c)}
    /\ pc = "delay"
    /\ retry = FirstTry
    /\ live \in {Absent} \cup {[Absent EXCEPT !.version = 1, !.holds = h] :
                             h \in SUBSET {call.conditions[k] : k \in DOMAIN call.conditions}}
    /\ seen = Absent
    /\ phase = [k \in DOMAIN Pods |-> "Running"]
    /\ pod = 0
    /\ ended = "no"
    /\ result = "none"
    /\ changes = 0
    /\ held = {}
    /\ effects = 0 /\ exited = FALSE
-----------------------------------------------------------------------------
(* The action returns v. *)
Finish(v) == pc' = "done" /\ result' = v

(* applyDelay: the delay elapses, or the context ends first. *)
ApplyDelay ==
    /\ pc = "delay"
    /\ \/ pc' = "start" /\ UNCHANGED result
       \/ call.delay /\ ended # "no" /\ Finish("context")
    /\ UNCHANGED <<call, retry, seen, pod, ended, cluster, ghosts>>

(* The first request of a call. *)
FirstPlace == [patch |-> "get", wait |-> "poll", assert |-> "get", exec |-> "resolve"]

(* RunPatch without patches and every call of a dry run return nil. *)
NothingToDo == call.dryRun \/ (call.op = "patch" /\ ~call.patches)

(* The call begins.  The REST mapping of the object of a patch or a wait   *)
(* is looked up once, before any loop, and may fail.                       *)
Start ==
    /\ pc = "start"
    /\ \/ NothingToDo /\ Finish(Nil)
       \/ ~NothingToDo /\ pc' = FirstPlace[call.op] /\ UNCHANGED result
       \/ ~NothingToDo /\ call.op \in {"patch", "wait"} /\ Finish("other")
    /\ held' = IF live = Absent THEN {} ELSE {live.holds}
    /\ UNCHANGED <<call, retry, live, seen, phase, pod, ended, changes, ghosts>>

(* Mutants: a conflict is taken for success; a failing try of any kind is  *)
(* repeated by the inner loop.                                             *)
ConflictIgnored(e) == IF e = "conflict" THEN Return(retry, Nil)
                      ELSE AfterError(retry, call.attempts, e)
EverythingIsConflict(e) == AfterError(retry, call.attempts, "unavailable")

(* What an error of a try leads to.  Patch nests one loop of DefaultSteps  *)
(* tries, for conflicts, in the user's; "unavailable" is what Retry calls  *)
(* the error its innermost loop repeats.  Assert and exec have the user's  *)
(* loop alone, which repeats a context error like any other.               *)
AfterTry(e) ==
    IF call.op = "patch"
    THEN AfterError(retry, call.attempts, IF e = "conflict" THEN "unavailable" ELSE e)
    ELSE IF OuterRetries(retry, call.attempts)
         THEN CallAgain([retry EXCEPT !.outer = @ + 1])
         ELSE Return(retry, e)

(* Mutant: a patch is repeated from what it read before its first try. *)
AgainWithoutReading == IF call.op = "patch" THEN "update" ELSE FirstPlace[call.op]

(* Where a try begins. *)
AgainAt == FirstPlace[call.op]

(* A try fails with e. *)
TryFails(e) ==
    LET a == AfterTry(e)
    IN  /\ retry' = a.state
        /\ IF a.again THEN pc' = AgainAt /\ UNCHANGED result
           ELSE Finish(IF a.result = "unavailable" THEN "conflict" ELSE a.result)

(* The error of a request that was not performed. *)
RequestError == IF ended = "no" THEN "other" ELSE "context"
-----------------------------------------------------------------------------
(* Patch and Check read the object; a missing one is an error. *)
Get ==
    /\ pc = "get"
    /\ \/ /\ ended = "no" /\ live # Absent
          /\ seen' = live
          /\ pc' = IF call.op = "patch" THEN "update" ELSE "judge"
          /\ UNCHANGED <<retry, result>>
       \/ TryFails(RequestError) /\ UNCHANGED seen
    /\ UNCHANGED <<call, pod, ended, cluster, ghosts>>

(* The patches do not apply to what was read. *)
ApplyFails ==
    /\ pc = "update"
    /\ TryFails("other")
    /\ UNCHANGED <<call, seen, pod, ended, cluster, ghosts>>

(* Mutant: the update is sent without the version that was read. *)
NoPrecondition == live # Absent

(* The API server accepts an update of the version it holds. *)
VersionMatches == live # Absent /\ seen.version = live.version

(* Versions are never used twice. *)
NextVersion == 2 + changes + effects

(* The update is written: what was read, patched. *)
Written == [seen EXCEPT !.version = NextVersion, !.patched = @ + 1]

(* The reply is success, or it is lost. *)
UpdateWritten ==
    /\ pc = "update" /\ VersionMatches
    /\ live' = Written
    /\ effects' = effects + 1
    /\ \/ ended = "no" /\ Finish(Nil) /\ UNCHANGED retry
       \/ TryFails(RequestError)
    /\ UNCHANGED <<call, seen, phase, pod, ended, changes, held, exited>>

UpdateRefused ==
    /\ pc = "update"
    /\ \/ ended = "no" /\ live # Absent /\ ~VersionMatches /\ TryFails("conflict")
       \/ TryFails(RequestError)
    /\ UNCHANGED <<call, seen, pod, ended, cluster, ghosts>>
-----------------------------------------------------------------------------
(* The poller reports the object when it differs from its last report;     *)
(* nothing happens on the report of a missing one.                         *)
PollEvent ==
    /\ pc = "poll" /\ live # seen
    /\ seen' = live
    /\ pc' = IF live = Absent THEN "poll" ELSE "judge"
    /\ UNCHANGED <<call, retry, result, pod, ended, cluster, ghosts>>

(* The poller reports an error. *)
PollFails ==
    /\ pc = "poll" /\ ended = "no"
    /\ Finish("other")
    /\ UNCHANGED <<call, retry, seen, pod, ended, cluster, ghosts>>

(* The poller's channel closes when the context has ended. *)
PollCloses ==
    /\ pc = "poll" /\ ended # "no"
    /\ Finish("context")
    /\ UNCHANGED <<call, retry, seen, pod, ended, cluster, ghosts>>

(* Mutant: the last condition decides. *)
LastPasses == IF call.conditions = <<>> THEN TRUE
              ELSE call.conditions[Len(call.conditions)] \in seen.holds

(* Every condition holds of the object that was read. *)
AllPass == \A k \in DOMAIN call.conditions : call.conditions[k] \in seen.holds

(* A condition cannot be evaluated, or the context ended meanwhile: an     *)
(* error for a wait, a failed try for an assert, as is a condition that    *)
(* does not hold.                                                          *)
Judge ==
    /\ pc = "judge"
    /\ \/ AllPass /\ Finish(Nil) /\ UNCHANGED retry
       \/ ~AllPass /\ call.op = "wait" /\ pc' = "poll" /\ UNCHANGED <<retry, result>>
       \/ call.conditions # <<>> /\ call.op = "wait" /\ Finish(RequestError) /\ UNCHANGED retry
       \/ ~AllPass /\ call.op = "assert" /\ TryFails("other")
       \/ call.op = "assert" /\ TryFails(RequestError)
    /\ UNCHANGED <<call, seen, pod, ended, cluster, ghosts>>
-----------------------------------------------------------------------------
(* resolvePodForExec: a named pod is used as it is, without a request;     *)
(* otherwise the first Running pod of the listing.                         *)
ResolvePod ==
    /\ pc = "resolve"
    /\ \/ /\ call.named \/ ended = "no"
          /\ pod' \in {k \in DOMAIN Pods :
                          IF call.named THEN k = 1
                          ELSE /\ phase[k] = "Running"
                               /\ \A j \in 1 .. k - 1 : phase[j] # "Running"}
          /\ pc' = "stream"
          /\ UNCHANGED <<retry, result>>
       \/ ~call.named /\ TryFails(RequestError) /\ UNCHANGED pod
    /\ UNCHANGED <<call, seen, ended, cluster, ghosts>>

(* The command runs: it exits with zero, or with another code, or nobody   *)
(* learns how because the stream broke or the context ended.               *)
CommandRuns ==
    /\ pc = "stream" /\ phase[pod] = "Running"
    /\ effects' = effects + 1
    /\ \/ ended = "no" /\ exited' = TRUE /\ Finish(Nil) /\ UNCHANGED retry
       \/ exited' = FALSE /\ TryFails(RequestError)
    /\ UNCHANGED <<call, seen, pod, ended, cluster>>

(* The stream cannot be opened. *)
StreamFails ==
    /\ pc = "stream"
    /\ TryFails(RequestError)
    /\ UNCHANGED <<call, seen, pod, ended, cluster, ghosts>>

CallStep ==
    \/ ApplyDelay \/ Start
    \/ Get \/ ApplyFails \/ UpdateWritten \/ UpdateRefused
    \/ PollEvent \/ PollCloses \/ Judge
    \/ ResolvePod \/ CommandRuns \/ StreamFails
-----------------------------------------------------------------------------
(* The cluster, and the contexts. *)

Called == pc \notin {"delay", "start", "done"}

(* Others write the object, create it or delete it. *)
OthersWrite ==
    /\ call.op # "exec" /\ Called /\ changes < MaxChanges
    /\ \E h \in SUBSET {call.conditions[k] : k \in DOMAIN call.conditions} :
          /\ live' = [live EXCEPT !.version = NextVersion, !.holds = h,
                                  !.others = @ \cup {NextVersion}]
          /\ held' = held \cup {h}
    /\ changes' = changes + 1
    /\ UNCHANGED <<call, pc, retry, seen, phase, pod, ended, result, ghosts>>

OthersDelete ==
    /\ call.op # "exec" /\ Called /\ changes < MaxChanges /\ live # Absent
    /\ live' = Absent
    /\ changes' = changes + 1
    /\ UNCHANGED <<call, pc, retry, seen, phase, pod, ended, result, held, ghosts>>

PodChanges(k) ==
    /\ call.op = "exec" /\ Called
    /\ phase' = [phase EXCEPT ![k] = IF @ = "Running" THEN "Failed" ELSE "Running"]
    /\ UNCHANGED <<call, pc, retry, live, seen, pod, ended, result, changes, held, ghosts>>

(* Mutant: a wait without a deadline of its own. *)
ExecOnly == call.op = "exec"

(* RunWait and RunExec always give their call a deadline, for all its      *)
(* tries together; RunPatch and RunAssert give none.                       *)
HasDeadline == call.op \in {"wait", "exec"}

DeadlinePasses ==
    /\ Called /\ HasDeadline /\ ended = "no"
    /\ ended' = "deadline"
    /\ UNCHANGED <<call, pc, retry, seen, pod, result, cluster, ghosts>>

Interrupt ==
    /\ pc # "done" /\ ended = "no"
    /\ ended' = "canceled"
    /\ UNCHANGED <<call, pc, retry, seen, pod, result, cluster, ghosts>>

Done == pc = "done" /\ UNCHANGED vars

Next ==
    \/ CallStep \/ PollFails \/ DeadlinePasses \/ Interrupt
    \/ OthersWrite \/ OthersDelete \/ (\E k \in DOMAIN Pods : PodChanges(k))
    \/ Done

(* Requests return, Go schedules the goroutine, and time passes. *)
Spec == Init /\ [][Next]_vars /\ WF_vars(CallStep) /\ WF_vars(DeadlinePasses)
-----------------------------------------------------------------------------
(* A patch never undoes what others wrote in the meantime (it "writes the  *)
(* result back with optimistic concurrency", internal/kube/service.go):    *)
(* what was acknowledged to another writer stays in the object until the   *)
(* object is deleted.                                                      *)
KeepsOthers ==
    [][live # Absent /\ live' # Absent => live.others \subseteq live'.others]_vars

(* docs/steps.md: attempts is the number of "total executions (1 = no      *)
(* retry)".  The patch is written, and the command executed, at most that  *)
(* often, although replies get lost and patch has a loop of its own for    *)
(* conflicts; never in a dry run.                                          *)
EffectsBounded ==
    /\ effects <= BackoffSteps(call.attempts)
    /\ call.dryRun => effects = 0

(* An action that passes has done what it is for: the object of a patch    *)
(* carries it, the command of an exec has exited with zero.  The exception *)
(* is a patch interrupted before its first conflict, where                 *)
(* retry.OnError may turn the context error into nil.                      *)
SuccessIsReal ==
    result = Nil /\ ~NothingToDo =>
        /\ call.op = "patch" =>
              live.patched > 0 \/ (InterruptedAsTimeout /\ ended = "canceled")
        /\ call.op = "exec" => exited

(* internal/kube/service.go: "Re-read and re-apply on conflict so a        *)
(* concurrent update does not fail the whole patch."  A conflict comes out *)
(* only if others changed the object during each of DefaultSteps tries.    *)
ConflictAbsorbed ==
    result = "conflict" => changes >= DefaultSteps \/ ended = "canceled"

(* A wait or an assert passes only if its conditions held all at once, of  *)
(* one version of the object that was in the cluster during the call.      *)
JudgedTogether ==
    result = Nil /\ ~NothingToDo /\ call.op \in {"wait", "assert"} =>
        \E h \in held : \A k \in DOMAIN call.conditions : call.conditions[k] \in h

(* The action returns, whatever others, the poller and the requests do. *)
Returns == <>(pc = "done")
=============================================================================

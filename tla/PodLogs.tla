------------------------------- MODULE PodLogs -------------------------------
(***************************************************************************)
(* kube.Service.LogsContains (internal/kube/service.go): polling the logs  *)
(* of a pod, or of the pods behind a selector, for a string under the      *)
(* policies any, all and none, while the pods write, fail, restart and go. *)
(*                                                                         *)
(* A log is abstracted to the number of lines written after the last one   *)
(* that contains the string, capped at the length of the tail that is      *)
(* fetched.  A step is one request to the API server; what the poll does   *)
(* between requests is folded into the step of the request before it.      *)
(***************************************************************************)
EXTENDS Naturals, FiniteSets

CONSTANTS
    Pods,      \* the pods behind the target; a named Pod is one of them
    TailLines, \* defaultLogsTailLines
    Policies,  \* the match policies considered
    Targets,   \* "named" (a Pod by its name) and "selector" (everything else)
    Faults     \* may a request fail while its context lasts?

ASSUME LogsAssumption ==
    /\ IsFiniteSet(Pods) /\ Pods # {}
    /\ TailLines \in Nat \ {0}
    /\ Policies \subseteq {"any", "all", "none"}
    /\ Targets \subseteq {"named", "selector"}
    /\ Faults \in BOOLEAN

VARIABLES
    phase,      \* phase[p]: the pod's phase, or "gone"
    since,      \* since[p]: lines after the last one with the string, at most TailLines
    dryRun, match, target, named,   \* the call: service, policy, target, pod named
    pc,         \* where the call stands
    todo,       \* the log requests left in this tick
    resolved,   \* countLogMatches: the requests made for this tick
    matched,    \* countLogMatches: how many contained the string
    ended,      \* the poll's context: "no", "deadline" or "canceled"
    canceled,   \* the caller's context is done
    result,     \* "pending", "nil" or the error returned
    \* Ghosts, which no guard reads:
    available,  \* the pods that were neither degraded nor gone at this tick's listing
    appeared,   \* the pods whose tail held the string while the call was watching
    found       \* a read of this call has contained the string

call == <<dryRun, match, target, named>>
tick == <<todo, resolved, matched, available>>
vars == <<phase, since, call, pc, tick, ended, canceled, result, appeared, found>>

PodPhase == {"Pending", "Running", "Succeeded", "Failed", "Unknown", "gone"}

TypeOK ==
    /\ phase \in [Pods -> PodPhase]
    /\ since \in [Pods -> 0 .. TailLines]
    /\ dryRun \in BOOLEAN /\ match \in Policies /\ target \in Targets /\ named \in Pods
    /\ pc \in {"call", "poll", "resolve", "read", "decide", "done"}
    /\ todo \subseteq Pods
    /\ resolved \in 0 .. Cardinality(Pods)
    /\ matched \in 0 .. resolved
    /\ ended \in {"no", "deadline", "canceled"}
    /\ canceled \in BOOLEAN
    /\ result \in {"pending", "nil", "ErrLogsNotContain", "ErrLogsContainForbidden", "error"}
    /\ available \subseteq Pods /\ appeared \subseteq Pods
    /\ found \in BOOLEAN

InTail(p) == since[p] < TailLines

Init ==
    /\ phase \in [Pods -> {"Pending", "Running"}]
    /\ since = [p \in Pods |-> TailLines]
    /\ dryRun \in BOOLEAN /\ match \in Policies /\ target \in Targets
    /\ named = CHOOSE p \in Pods : TRUE
    /\ pc = "call"
    /\ todo = {} /\ resolved = 0 /\ matched = 0
    /\ ended = "no" /\ canceled = FALSE
    /\ result = "pending"
    /\ available = {} /\ appeared = {} /\ found = FALSE
-----------------------------------------------------------------------------
ReturnWith(v) == pc' = "done" /\ result' = v

(* A dry run returns at once; otherwise the poll starts, with its deadline. *)
LogsContains ==
    /\ pc = "call"
    /\ IF dryRun
       THEN ReturnWith("nil") /\ UNCHANGED <<ended, appeared>>
       ELSE /\ pc' = "poll"
            /\ ended' = IF canceled THEN "canceled" ELSE "no"
            /\ appeared' = {p \in Pods : InTail(p)}
            /\ UNCHANGED result
    /\ UNCHANGED <<phase, since, call, tick, canceled, found>>

(* The poll's context lasts and the next tick is due (the first at once). *)
StartTick ==
    /\ pc = "poll" /\ ended = "no"
    /\ pc' = "resolve"
    /\ UNCHANGED <<phase, since, call, tick, ended, canceled, result, appeared, found>>

(* resolvePodsForLogs skips degraded pods; a listing has no pod that is gone. *)
Available(p) == phase[p] \notin {"Failed", "Unknown", "gone"}

(* A named Pod is asked for its log whatever its phase. *)
Requests == IF target = "named" THEN {named} ELSE {p \in Pods : Available(p)}

(* Without any request the tick ends with nothing resolved. *)
ResolvePods ==
    /\ pc = "resolve" /\ ended = "no"
    /\ todo' = Requests
    /\ resolved' = Cardinality(Requests)
    /\ matched' = 0
    /\ available' = {p \in Requests : Available(p)}
    /\ pc' = IF Requests = {} THEN "decide" ELSE "read"
    /\ UNCHANGED <<phase, since, call, ended, canceled, result, appeared, found>>

(* Getting the workload or listing its pods fails: nothing resolved. *)
ResolveFails ==
    /\ pc = "resolve" /\ (Faults \/ ended # "no")
    /\ pc' = "decide"
    /\ UNCHANGED <<phase, since, call, tick, ended, canceled, result, appeared, found>>

(* Mutant: the same pod is asked again within the tick. *)
RequestRepeats(p) ==
    /\ todo' = todo
    /\ pc' = IF todo = {p} THEN "decide" ELSE "read"

(* The request for p is done with; the last one completes the tick. *)
RequestDone(p) ==
    /\ todo' = todo \ {p}
    /\ pc' = IF todo = {p} THEN "decide" ELSE "read"

ReadLog(p) ==
    /\ pc = "read" /\ p \in todo /\ ended = "no" /\ phase[p] # "gone"
    /\ RequestDone(p)
    /\ matched' = IF InTail(p) THEN matched + 1 ELSE matched
    /\ found' = (found \/ InTail(p))
    /\ UNCHANGED <<phase, since, call, resolved, available, ended, canceled, result, appeared>>

(* Mutant: a pod that cannot be read leaves the set the policy checks. *)
UnreadShrinks(n) == n - 1

(* A pod that cannot be read still counts as resolved. *)
UnreadCounts(n) == n

ReadFails(p) ==
    /\ pc = "read" /\ p \in todo
    /\ Faults \/ ended # "no" \/ phase[p] \in {"Pending", "gone"}
    /\ RequestDone(p)
    /\ resolved' = UnreadCounts(resolved)
    /\ UNCHANGED <<phase, since, call, matched, available, ended, canceled, result,
                   appeared, found>>
-----------------------------------------------------------------------------
(* Does the poll's condition hold at the end of a tick? *)
Satisfied ==
    CASE match = "none" -> matched > 0
      [] match = "all"  -> resolved > 0 /\ matched = resolved
      [] OTHER          -> resolved > 0 /\ matched > 0

(* The counts of a tick do not outlive it. *)
Decide ==
    /\ pc = "decide"
    /\ IF Satisfied
       THEN /\ ReturnWith(IF match = "none" THEN "ErrLogsContainForbidden" ELSE "nil")
            /\ UNCHANGED tick
       ELSE /\ pc' = "poll"
            /\ resolved' = 0 /\ matched' = 0
            /\ available' = {}
            /\ UNCHANGED <<todo, result>>
    /\ UNCHANGED <<phase, since, call, ended, canceled, appeared, found>>

(* Mutant: any end of the watch proves absence. *)
AnyEndProvesAbsence == IF match = "none" THEN "nil" ELSE "ErrLogsNotContain"

(* What the call returns when the poll ends unsatisfied: the end of the    *)
(* window is what the policy none waits for, unless the caller gave up.    *)
PollError ==
    IF match # "none" THEN "ErrLogsNotContain"
    ELSE IF canceled \/ ended # "deadline" THEN "error"
    ELSE "nil"

PollEnds ==
    /\ pc = "poll" /\ ended # "no"
    /\ ReturnWith(PollError)
    /\ UNCHANGED <<phase, since, call, tick, ended, canceled, appeared, found>>

Polling == pc \in {"poll", "resolve", "read", "decide"}

(* Mutant: the poll is given no deadline. *)
NoDeadline == FALSE /\ UNCHANGED vars

(* The poll's timeout passes. *)
WindowElapses ==
    /\ Polling /\ ended = "no"
    /\ ended' = "deadline"
    /\ UNCHANGED <<phase, since, call, pc, tick, canceled, result, appeared, found>>

(* The caller's context ends, and the poll's with it. *)
Cancel ==
    /\ ~canceled /\ pc # "done"
    /\ canceled' = TRUE
    /\ ended' = IF Polling /\ ended = "no" THEN "canceled" ELSE ended
    /\ UNCHANGED <<phase, since, call, pc, tick, result, appeared, found>>

LogStep ==
    \/ LogsContains \/ StartTick \/ ResolvePods \/ ResolveFails
    \/ (\E p \in Pods : ReadLog(p) \/ ReadFails(p))
    \/ Decide \/ PollEnds
-----------------------------------------------------------------------------
(* The pods, as the cluster runs them. *)

(* p's log changes so that n lines follow the last one with the string. *)
SetLog(p, n) ==
    /\ since' = [since EXCEPT ![p] = n]
    /\ appeared' = IF n < TailLines /\ Polling /\ ended = "no" THEN appeared \cup {p} ELSE appeared
    /\ UNCHANGED <<phase, call, pc, tick, ended, canceled, result, found>>

WritesString(p) == phase[p] = "Running" /\ SetLog(p, 0)

WritesLine(p) == phase[p] = "Running" /\ InTail(p) /\ SetLog(p, since[p] + 1)

(* A restarted container has a new log. *)
Restarts(p) == phase[p] = "Running" /\ InTail(p) /\ SetLog(p, TailLines)

(* The phases a pod may go to from each of its phases. *)
Successors == [Pending   |-> {"Running", "Failed", "gone"},
               Running   |-> {"Succeeded", "Failed", "Unknown", "gone"},
               Unknown   |-> {"Running", "Failed", "gone"},
               Succeeded |-> {"gone"},
               Failed    |-> {"gone"},
               gone      |-> {}]

ChangesPhase(p) ==
    /\ phase[p] # "gone"
    /\ \E q \in Successors[phase[p]] : phase' = [phase EXCEPT ![p] = q]
    /\ UNCHANGED <<since, call, pc, tick, ended, canceled, result, appeared, found>>

PodStep == \E p \in Pods : WritesString(p) \/ WritesLine(p) \/ Restarts(p) \/ ChangesPhase(p)

Done == pc = "done" /\ UNCHANGED vars

Next == LogStep \/ WindowElapses \/ Cancel \/ (pc # "done" /\ PodStep) \/ Done

(* Requests return, Go schedules the goroutine, and time passes. *)
Spec == Init /\ [][Next]_vars /\ WF_vars(LogStep) /\ WF_vars(WindowElapses)
-----------------------------------------------------------------------------
Passes(m) == ~dryRun /\ match = m /\ result = "nil"

(* docs/actions.md: under all, "an unreadable pod can never make the check *)
(* pass".  A pass means that there were pods, and that each one available  *)
(* at the deciding tick's listing has had the string in its tail.          *)
AllSeen == Passes("all") => resolved > 0 /\ available \subseteq appeared

(* Under any a pass means that some pod has had the string in its tail.    *)
AnySeen == Passes("any") => appeared # {}

(* A pass under either policy rests on logs that showed the string to this *)
(* call, however the pods fail, restart and go between the listing of a    *)
(* tick and its reads.                                                     *)
MatchSeen == AllSeen /\ AnySeen

(* docs/actions.md: none "succeeds only once the window has elapsed        *)
(* without a match": no cancellation and no read with the string passes.   *)
AbsenceWatched == Passes("none") => ended = "deadline" /\ ~canceled /\ ~found

(* The call returns, whatever the pods and the requests do. *)
Returns == <>(pc = "done")
=============================================================================

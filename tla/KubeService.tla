----------------------------- MODULE KubeService -----------------------------
(***************************************************************************)
(* The kube.Service of each running test case (internal/kube/service.go),  *)
(* as far as it creates, tracks and deletes cluster objects: Ensure,       *)
(* Delete with its optional wait, Cleanup, and the applied-resource cache  *)
(* (internal/tools/safe/store.go) that links them.  Several services share *)
(* one cluster: cases of a suite run one after another, suites in          *)
(* parallel.  A step is one request to the API server together with the    *)
(* local work that follows its reply, so that services, outsiders,         *)
(* finalizers and signals interleave between requests.                     *)
(*                                                                         *)
(* An object is a record with the fields the code reads, its namespace     *)
(* already set (setNamespace).  Manifests, annotations and field ownership *)
(* are left out; a Server-Side Apply conflict is an "other" error.         *)
(***************************************************************************)
EXTENDS Retry, FiniteSets

CONSTANTS
    Services,      \* one per test case that runs
    Objects,       \* the cluster objects, records [group, kind, namespace, name]
    Namespace,     \* the object of --namespace, or a value outside Objects
    Ensures,       \* Ensures[s]: the objects the steps of case s may ensure
    Deletes,       \* Deletes[s]: the objects the steps of case s may delete
    Graceful,      \* the objects a delete request leaves terminating for a while
    Foreign,       \* the objects that may exist before the first case starts
    DryRun,        \* the services built with WithDryRun
    Parallel,      \* how many cases run at once (-n, one case per suite)
    Attempts,      \* retry.attempts of the ensure and delete actions
    MaxOps,        \* bound: how many actions a case executes
    CallErrors,    \* the error classes a request may fail with
    LostReplies,   \* may a request be performed and still return an error?
                   \* (one in flight when its context ends always may)
    Outsiders,     \* do other clients create and delete objects?
    Interrupts,    \* may the run context be canceled?
    Expiry,        \* may the cleanup context run into cleanupTimeout?
    OptionalSteps  \* may a failing action belong to an optional step?

ASSUME ServiceAssumption ==
    /\ Services \cap {"none", "kept", "outsider"} = {}
    /\ Ensures \in [Services -> SUBSET Objects]
    /\ Deletes \in [Services -> SUBSET Objects]
    /\ Graceful \subseteq Objects
    /\ Foreign \subseteq Objects
    /\ DryRun \subseteq Services
    /\ Parallel \in Nat \ {0}
    /\ Attempts \in Int
    /\ MaxOps \in Nat
    /\ CallErrors \subseteq ErrorClass \ {"context"}
    /\ {LostReplies, Outsiders, Interrupts, Expiry, OptionalSteps} \subseteq BOOLEAN

VARIABLES
    phase,        \* phase[o]: "absent", "live" or "terminating" in the cluster
    interrupted,  \* the run context is done
    pc,           \* pc[s]: where service s stands
    op,           \* op[s]: the operation s is in, or was in last
    target,       \* target[s]: the object of that operation
    created,      \* created[s]: Ensure's local, what its probe concluded
    retry,        \* retry[s]: the nested retry loops of the operation
    applied,      \* applied[s]: the values of Service.applied
    todo,         \* todo[s]: what is left of Cleanup's snapshot of applied
    expired,      \* expired[s]: the cleanup context is done
    failed,       \* failed[s]: the case has an error to return
    ops,          \* ops[s]: actions executed by the case
    \* Ghosts, which no guard reads:
    creator,      \* creator[o]: who created the incarnation now in the cluster
    everAbsent,   \* the objects that were absent at some time
    holes         \* how services lost track of what they created

cluster == <<phase, creator, everAbsent>>
caseVars == <<op, target, created, retry, todo, expired, ops>>
vars == <<cluster, caseVars, interrupted, pc, applied, failed, holes>>

Phase == {"absent", "live", "terminating"}
Operation == {"none", "namespace", "ensure", "delete", "deletewait", "sweep"}
Control == {"new", "idle", "probe", "apply", "delete", "waiting", "sweeping", "closed"}
Cause == {"lost reply", "interrupted apply", "stale probe", "key clash", "failed delete",
          "failed sweep", "unmapped"}

Hole(s, o, c) == [service |-> s, object |-> o, cause |-> c]

TypeOK ==
    /\ phase \in [Objects -> Phase]
    /\ interrupted \in BOOLEAN
    /\ pc \in [Services -> Control]
    /\ op \in [Services -> Operation]
    /\ target \in [Services -> Objects \cup {Namespace}]
    /\ created \in [Services -> BOOLEAN]
    /\ retry \in [Services -> RetryState]
    /\ applied \in [Services -> SUBSET Objects]
    /\ todo \in [Services -> SUBSET Objects]
    /\ expired \in [Services -> BOOLEAN]
    /\ failed \in [Services -> BOOLEAN]
    /\ ops \in [Services -> Nat]
    /\ creator \in [Objects -> Services \cup {"none", "kept", "outsider"}]
    /\ everAbsent \subseteq Objects
    /\ holes \subseteq [service : Services, object : Objects, cause : Cause]
-----------------------------------------------------------------------------
(* The applied cache: a map from appliedKey to the object stored under it, *)
(* kept here as the set of its values, of which no two share a key.        *)

(* The key leaves out the API group. *)
appliedKey(o) == <<o.namespace, o.kind, o.name>>

(* The entries of cache A other than o stored under o's key. *)
Clashing(A, o) == {x \in A : appliedKey(x) = appliedKey(o)} \ {o}

(* Mutant: the object is stored without its API group. *)
PutWithoutGroup(A, o) ==
    {x \in A : appliedKey(x) # appliedKey(o)} \cup {[o EXCEPT !.group = ""]}

Put(A, o) == {x \in A : appliedKey(x) # appliedKey(o)} \cup {o}

Remove(A, o) == {x \in A : appliedKey(x) # appliedKey(o)}
-----------------------------------------------------------------------------
Init ==
    /\ \E existing \in SUBSET Foreign :
          /\ phase = [o \in Objects |-> IF o \in existing THEN "live" ELSE "absent"]
          /\ creator = [o \in Objects |-> IF o \in existing THEN "outsider" ELSE "none"]
          /\ everAbsent = Objects \ existing
    /\ interrupted = FALSE
    /\ pc = [s \in Services |-> "new"]
    /\ op = [s \in Services |-> "none"]
    /\ target = [s \in Services |-> Namespace]
    /\ created = [s \in Services |-> FALSE]
    /\ retry = [s \in Services |-> FirstTry]
    /\ applied = [s \in Services |-> {}]
    /\ todo = [s \in Services |-> {}]
    /\ expired = [s \in Services |-> FALSE]
    /\ failed = [s \in Services |-> FALSE]
    /\ ops = [s \in Services |-> 0]
    /\ holes = {}
-----------------------------------------------------------------------------
(* The API server, modelled from how the service uses it. *)

(* The object o becomes p; its creation is ascribed to c. *)
SetPhase(o, p, c) ==
    /\ phase' = [phase EXCEPT ![o] = p]
    /\ creator' = [creator EXCEPT ![o] = c]
    /\ everAbsent' = IF p = "absent" THEN everAbsent \cup {o} ELSE everAbsent

(* Server-Side Apply creates an absent object and updates any other one; *)
(* an object that is being deleted stays so.                             *)
ServerApply(o, c) ==
    IF phase[o] = "absent"
    THEN SetPhase(o, "live", c)
    ELSE UNCHANGED cluster

(* A delete request removes the object, or marks it for deletion when a   *)
(* finalizer or a grace period holds it.  Asked for an absent object it    *)
(* answers NotFound, which Delete takes for success.                       *)
ServerDelete(o) ==
    IF phase[o] # "live" THEN UNCHANGED cluster
    ELSE IF o \in Graceful THEN SetPhase(o, "terminating", creator[o])
    ELSE SetPhase(o, "absent", "none")

(* Mutant: Cleanup runs on the run context. *)
ContextNotDetached(s) == interrupted

(* Cleanup runs on a context detached from the run context. *)
ContextEnded(s) == IF op[s] = "sweep" THEN expired[s] ELSE interrupted

(* The errors a request of s may return now. *)
Errors(s) == IF ContextEnded(s) THEN {"context"} ELSE CallErrors

(* A request of s may return an error and be performed all the same: its   *)
(* reply is lost, or its context ended while it was in flight.             *)
MayBeLost(s) == LostReplies \/ ContextEnded(s)
-----------------------------------------------------------------------------
(* The attempts given to the outer retry loop: the default for the         *)
(* namespace and for Cleanup's deletes, the user's for the case's actions. *)
UserAttempts(s) == IF op[s] \in {"namespace", "sweep"} THEN 1 ELSE Attempts

(* Service s starts operation p on o at control point at. *)
Begin(s, p, o, at) ==
    /\ op' = [op EXCEPT ![s] = p]
    /\ target' = [target EXCEPT ![s] = o]
    /\ retry' = [retry EXCEPT ![s] = FirstTry]
    /\ pc' = [pc EXCEPT ![s] = at]

(* Where s stands once its operation has returned v. *)
Successor(s, v) ==
    IF op[s] = "sweep" THEN "sweeping"
    ELSE IF op[s] = "namespace" /\ v # Nil THEN "closed"
    ELSE IF op[s] = "deletewait" /\ v = Nil /\ pc[s] # "waiting" THEN "waiting"
    ELSE "idle"

(* Mutant: a cleanup failure inside an optional step is dropped as well. *)
RecordErrorOptionalSweep(s, v) ==
    \E f \in {TRUE} \cup (IF OptionalSteps THEN {failed[s]} ELSE {}) :
        failed' = [failed EXCEPT ![s] = IF v = Nil THEN failed[s] ELSE f]

(* The error of an optional step is dropped; any other fails the case. *)
RecordError(s, v) ==
    \E f \in {TRUE} \cup (IF OptionalSteps /\ op[s] \notin {"namespace", "sweep"}
                          THEN {failed[s]} ELSE {}) :
        failed' = [failed EXCEPT ![s] = IF v = Nil THEN failed[s] ELSE f]

(* The operation of s returns v. *)
Returns(s, v) ==
    /\ pc' = [pc EXCEPT ![s] = Successor(s, v)]
    /\ RecordError(s, v)
    /\ UNCHANGED retry

(* An attempt of s fails with e: the loops start another attempt from its  *)
(* first request, or the operation returns.                                *)
AttemptFails(s, e, first) ==
    LET next == AfterError(retry[s], UserAttempts(s), e)
    IN  IF next.again
        THEN /\ retry' = [retry EXCEPT ![s] = next.state]
             /\ pc' = [pc EXCEPT ![s] = first]
             /\ UNCHANGED failed
        ELSE Returns(s, next.result)
-----------------------------------------------------------------------------
Running == {s \in Services : pc[s] \notin {"new", "closed"}}

(* suite.Run builds the service and ensures the namespace, when there is   *)
(* one and the run is not a dry run.                                       *)
Start(s) ==
    /\ pc[s] = "new"
    /\ Cardinality(Running) < Parallel
    /\ IF s \notin DryRun /\ Namespace \in Objects
       THEN Begin(s, "namespace", Namespace, "probe")
       ELSE /\ pc' = [pc EXCEPT ![s] = "idle"]
            /\ UNCHANGED <<op, target, retry>>
    /\ UNCHANGED <<cluster, interrupted, created, applied, todo, expired, failed, ops, holes>>

(* In a dry run every operation returns at once. *)
DryAction(s) ==
    /\ pc[s] = "idle" /\ s \in DryRun /\ ops[s] < MaxOps
    /\ ops' = [ops EXCEPT ![s] = ops[s] + 1]
    /\ UNCHANGED <<cluster, interrupted, pc, op, target, created, retry, applied, todo,
                   expired, failed, holes>>

BeginAction(s, p, o, at) ==
    /\ pc[s] = "idle" /\ s \notin DryRun /\ ops[s] < MaxOps
    /\ Begin(s, p, o, at)
    /\ ops' = [ops EXCEPT ![s] = ops[s] + 1]
    /\ UNCHANGED <<cluster, interrupted, created, applied, todo, expired, failed, holes>>

BeginEnsure(s) == \E o \in Ensures[s] : BeginAction(s, "ensure", o, "probe")

BeginDelete(s) ==
    \E o \in Deletes[s], p \in {"delete", "deletewait"} : BeginAction(s, p, o, "delete")

(* Ensure probes whether the object exists, to cache only what it creates. *)
EnsureProbe(s) ==
    /\ pc[s] = "probe" /\ ~ContextEnded(s)
    /\ created' = [created EXCEPT ![s] = phase[target[s]] = "absent"]
    /\ pc' = [pc EXCEPT ![s] = "apply"]
    /\ UNCHANGED <<cluster, interrupted, op, target, retry, applied, todo, expired,
                   failed, ops, holes>>

(* Setting the namespace or the probe fails. *)
EnsureProbeFails(s) ==
    /\ pc[s] = "probe"
    /\ \E e \in Errors(s) : AttemptFails(s, e, "probe")
    /\ UNCHANGED <<cluster, interrupted, op, target, created, applied, todo, expired,
                   ops, holes>>

(* An object the namespace call creates is kept on purpose (ToCache FALSE). *)
CreatorOf(s) == IF op[s] = "namespace" THEN "kept" ELSE s

(* Mutants: the probe's answer is ignored; ToCache is ignored; only the    *)
(* first attempt caches.                                                   *)
CacheIgnoringProbe(s) ==
    IF op[s] = "ensure" THEN Put(applied[s], target[s]) ELSE applied[s]
CacheIgnoringOption(s) ==
    IF created[s] THEN Put(applied[s], target[s]) ELSE applied[s]
CacheOnFirstTry(s) ==
    IF created[s] /\ op[s] = "ensure" /\ retry[s] = FirstTry
    THEN Put(applied[s], target[s]) ELSE applied[s]

(* Ensure's cache update: only what the probe did not find, and only when  *)
(* the caller wants it cached.                                             *)
CacheIfCreated(s) ==
    IF created[s] /\ op[s] = "ensure" THEN Put(applied[s], target[s]) ELSE applied[s]

EnsureApply(s) ==
    /\ pc[s] = "apply" /\ ~ContextEnded(s)
    /\ ServerApply(target[s], CreatorOf(s))
    /\ applied' = [applied EXCEPT ![s] = CacheIfCreated(s)]
    /\ holes' = holes
         \cup {Hole(s, x, "key clash") : x \in applied[s] \ CacheIfCreated(s)}
         \cup (IF op[s] = "ensure" /\ ~created[s] /\ phase[target[s]] = "absent"
               THEN {Hole(s, target[s], "stale probe")} ELSE {})
    /\ Returns(s, Nil)
    /\ UNCHANGED <<interrupted, op, target, created, todo, expired, ops>>

EnsureApplyFails(s) ==
    /\ pc[s] = "apply"
    /\ \E e \in Errors(s) : AttemptFails(s, e, "probe")
    /\ UNCHANGED <<cluster, interrupted, op, target, created, applied, todo, expired,
                   ops, holes>>

(* The apply is performed but its reply is an error or never arrives, or   *)
(* the context ended before it did.                                        *)
EnsureApplyLost(s) ==
    /\ MayBeLost(s)
    /\ pc[s] = "apply"
    /\ ServerApply(target[s], CreatorOf(s))
    /\ holes' = holes \cup (IF op[s] = "ensure" /\ phase[target[s]] = "absent"
                            THEN {Hole(s, target[s], IF ContextEnded(s) THEN "interrupted apply"
                                                                        ELSE "lost reply")}
                            ELSE {})
    /\ \E e \in Errors(s) : AttemptFails(s, e, "probe")
    /\ UNCHANGED <<interrupted, op, target, created, applied, todo, expired, ops>>

(* What a delete attempt drops from the cache, before the request is sent. *)
DropFromCache(s) == Remove(applied[s], target[s])

(* The holes left by dropping the entry, when the request fails or not. *)
DropHoles(s, fails) ==
    {Hole(s, x, "key clash") : x \in Clashing(applied[s], target[s])}
      \cup (IF fails /\ target[s] \in applied[s]
            THEN {Hole(s, target[s], IF op[s] = "sweep" THEN "failed sweep"
                                                        ELSE "failed delete")}
            ELSE {})

(* The delete request succeeds; NotFound counts as success. *)
DeleteRequest(s) ==
    /\ pc[s] = "delete" /\ ~ContextEnded(s)
    /\ applied' = [applied EXCEPT ![s] = DropFromCache(s)]
    /\ holes' = holes \cup DropHoles(s, FALSE)
    /\ ServerDelete(target[s])
    /\ Returns(s, Nil)
    /\ UNCHANGED <<interrupted, op, target, created, todo, expired, ops>>

(* The request fails: the entry is gone from the cache all the same. *)
DeleteRequestFails(s) ==
    /\ pc[s] = "delete"
    /\ applied' = [applied EXCEPT ![s] = DropFromCache(s)]
    /\ holes' = holes \cup DropHoles(s, TRUE)
    /\ \E e \in Errors(s) : AttemptFails(s, e, "delete")
    /\ UNCHANGED <<cluster, interrupted, op, target, created, todo, expired, ops>>

(* The delete is performed but its reply is an error or never arrives, or  *)
(* the context ended before it did.                                        *)
DeleteRequestLost(s) ==
    /\ MayBeLost(s)
    /\ pc[s] = "delete"
    /\ applied' = [applied EXCEPT ![s] = DropFromCache(s)]
    /\ holes' = holes \cup DropHoles(s, FALSE)
    /\ ServerDelete(target[s])
    /\ \E e \in Errors(s) : AttemptFails(s, e, "delete")
    /\ UNCHANGED <<interrupted, op, target, created, todo, expired, ops>>

(* setNamespace cannot map the object's kind: the attempt ends before the  *)
(* cache is touched.                                                       *)
DeleteUnmapped(s) ==
    /\ pc[s] = "delete"
    /\ "other" \in CallErrors
    /\ holes' = holes \cup (IF op[s] = "sweep" THEN {Hole(s, target[s], "unmapped")} ELSE {})
    /\ AttemptFails(s, "other", "delete")
    /\ UNCHANGED <<cluster, interrupted, op, target, created, applied, todo, expired, ops>>

(* Delete passes no conditions to Wait. *)
WaitConditions == {}

(* A status event of an object in phase p ends Wait in deletion mode: the  *)
(* object is gone, or there is no condition left to hold.                  *)
EndsWait(p) == p = "absent" \/ WaitConditions = {}

WaitSeesEvent(s) ==
    /\ pc[s] = "waiting" /\ ~ContextEnded(s)
    /\ EndsWait(phase[target[s]])
    /\ Returns(s, Nil)
    /\ UNCHANGED <<cluster, interrupted, op, target, created, applied, todo, expired,
                   ops, holes>>

(* An error event, a failing setNamespace, or the end of the run context   *)
(* or of the wait's own timeout.                                           *)
WaitFails(s) ==
    /\ pc[s] = "waiting"
    /\ \E e \in Errors(s) \cup {"context"} : Returns(s, e)
    /\ UNCHANGED <<cluster, interrupted, op, target, created, applied, todo, expired,
                   ops, holes>>
-----------------------------------------------------------------------------
(* Cleanup iterates over a snapshot of the cache, empty in a dry run. *)
BeginCleanup(s) ==
    /\ pc[s] = "idle"
    /\ pc' = [pc EXCEPT ![s] = "sweeping"]
    /\ todo' = [todo EXCEPT ![s] = IF s \in DryRun THEN {} ELSE applied[s]]
    /\ UNCHANGED <<cluster, interrupted, op, target, created, retry, applied, expired,
                   failed, ops, holes>>

(* Mutant: the iteration does not advance. *)
CleanupNextStuck(s) ==
    /\ pc[s] = "sweeping"
    /\ \E o \in todo[s] : Begin(s, "sweep", o, "delete")
    /\ UNCHANGED <<cluster, interrupted, created, applied, todo, expired, failed, ops, holes>>

(* Cleanup calls Delete on the next object of the snapshot, in map order. *)
CleanupNext(s) ==
    /\ pc[s] = "sweeping"
    /\ \E o \in todo[s] :
          /\ Begin(s, "sweep", o, "delete")
          /\ todo' = [todo EXCEPT ![s] = todo[s] \ {o}]
    /\ UNCHANGED <<cluster, interrupted, created, applied, expired, failed, ops, holes>>

(* Mutant: Cleanup stops at the first failure. *)
SweepStopsOnError(s) == todo[s] = {} \/ failed[s]

(* Nothing of the snapshot is left. *)
SweepDone(s) == todo[s] = {}

FinishCleanup(s) ==
    /\ pc[s] = "sweeping" /\ SweepDone(s)
    /\ pc' = [pc EXCEPT ![s] = "closed"]
    /\ UNCHANGED <<cluster, caseVars, interrupted, applied, failed, holes>>

(* cleanupTimeout passes while Cleanup is under way. *)
CleanupTimeout(s) ==
    /\ Expiry /\ ~expired[s]
    /\ pc[s] = "sweeping" \/ (pc[s] = "delete" /\ op[s] = "sweep")
    /\ expired' = [expired EXCEPT ![s] = TRUE]
    /\ UNCHANGED <<cluster, interrupted, pc, op, target, created, retry, applied, todo,
                   failed, ops, holes>>

CleanupStep(s) == BeginCleanup(s) \/ CleanupNext(s) \/ FinishCleanup(s)

EnsureStep(s) ==
    BeginEnsure(s) \/ EnsureProbe(s) \/ EnsureProbeFails(s)
      \/ EnsureApply(s) \/ EnsureApplyFails(s) \/ EnsureApplyLost(s)

DeleteStep(s) ==
    BeginDelete(s) \/ DeleteRequest(s) \/ DeleteRequestFails(s) \/ DeleteRequestLost(s)
      \/ DeleteUnmapped(s) \/ WaitSeesEvent(s) \/ WaitFails(s)

ServiceStep(s) == Start(s) \/ DryAction(s) \/ EnsureStep(s) \/ DeleteStep(s) \/ CleanupStep(s)
-----------------------------------------------------------------------------
Environment == <<caseVars, pc, applied, failed, holes>>

(* The last finalizer goes, or the grace period ends. *)
ObjectGone(o) ==
    /\ phase[o] = "terminating"
    /\ SetPhase(o, "absent", "none")
    /\ UNCHANGED <<Environment, interrupted>>

OutsiderCreates(o) ==
    /\ Outsiders
    /\ phase[o] = "absent"
    /\ SetPhase(o, "live", "outsider")
    /\ UNCHANGED <<Environment, interrupted>>

OutsiderDeletes(o) ==
    /\ Outsiders
    /\ phase[o] = "live"
    /\ ServerDelete(o)
    /\ UNCHANGED <<Environment, interrupted>>

(* SIGINT or SIGTERM cancels the context every case runs on. *)
Interrupt ==
    /\ Interrupts /\ ~interrupted
    /\ interrupted' = TRUE
    /\ UNCHANGED <<Environment, cluster>>

AllClosed == \A s \in Services : pc[s] = "closed"

Done == AllClosed /\ UNCHANGED vars

Next ==
    \/ \E s \in Services : ServiceStep(s) \/ CleanupTimeout(s)
    \/ \E o \in Objects : ObjectGone(o) \/ OutsiderCreates(o) \/ OutsiderDeletes(o)
    \/ Interrupt
    \/ Done

(* Requests return and Go schedules every goroutine. *)
Spec == Init /\ [][Next]_vars /\ \A s \in Services : WF_vars(ServiceStep(s))
-----------------------------------------------------------------------------
(* Case s is over and an object it created through an ensure is still live. *)
Leaked(s, o) == pc[s] = "closed" /\ phase[o] = "live" /\ creator[o] = s

(* Cleanup of s is about to ask for the deletion of its target. *)
Sweeping(s) == pc[s] = "delete" /\ op[s] = "sweep"

(* docs/README.md: "All resources applied during a case are cleaned up     *)
(* after it finishes."  Nothing a case created outlives it, except for     *)
(* what an apply created that was in flight when the run was interrupted:  *)
(* Ensure never learned that it was performed.                             *)
NoLeak ==
    \A s \in Services, o \in Objects :
        Leaked(s, o) => Hole(s, o, "interrupted apply") \in holes

(* Whatever goes wrong, what a finished case leaves behind was lost in one *)
(* of the named ways: Ensure and Cleanup have no other hole.               *)
LeaksExplained ==
    \A s \in Services, o \in Objects :
        Leaked(s, o) => \E c \in Cause : Hole(s, o, c) \in holes

(* Cleanup never deletes a resource that was there all along: what it asks *)
(* to delete was absent from the cluster at some time (Ensure's probe).    *)
SparesPreexisting == \A s \in Services : Sweeping(s) => target[s] \in everAbsent

(* Cleanup deletes only what the same case created (the comment above      *)
(* Ensure's probe).  It holds while cases run one at a time and nobody     *)
(* else creates objects.                                                   *)
CleanupOnlyOwn ==
    \A s \in Services :
        Sweeping(s) /\ phase[target[s]] = "live" => creator[target[s]] = s

(* The namespace of --namespace is never deleted by Cleanup, unless a step *)
(* ensures that very object itself (docs/server-side-apply.md).            *)
NamespaceKept ==
    \A s \in Services :
        Sweeping(s) /\ (\A t \in Services : Namespace \notin Ensures[t])
            => target[s] # Namespace

(* Cleanup attempts every entry it found, also after failures: whatever is *)
(* still cached when the case is over was tried, and could not be mapped.  *)
EveryEntryTried ==
    \A s \in Services : pc[s] = "closed" =>
        \A o \in applied[s] : Hole(s, o, "unmapped") \in holes

(* A case whose cleanup left an object behind reports an error, unless the *)
(* cleanup budget ran out in a client-go that hides context errors.        *)
FailedSweepReported ==
    \A s \in Services, o \in Objects :
        /\ Leaked(s, o)
        /\ \E c \in {"failed sweep", "unmapped"} : Hole(s, o, c) \in holes
        => failed[s] \/ (InterruptedAsTimeout /\ expired[s])

(* A delete with wait returns successfully only when the object is gone.   *)
DeleteWaitsUntilGone ==
    [][\A s \in Services : WaitSeesEvent(s) => phase[target[s]] = "absent"]_vars

(* Every case comes to its end, its cleanup included. *)
CasesClose == <>AllClosed
=============================================================================

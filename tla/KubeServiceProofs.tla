-------------------------- MODULE KubeServiceProofs --------------------------
(***************************************************************************)
(* Proofs about KubeService, for any number of cases and objects, any      *)
(* retry settings and every combination of faults.  The last two theorems  *)
(* are about cases that run one at a time, and name what they leave out.   *)
(***************************************************************************)
EXTENDS KubeService, RetryProofs, FiniteSetTheorems

(* While s works on an object, the object is one of the cluster and the    *)
(* operation is one its control point belongs to.  A dry run never gets    *)
(* there.                                                                  *)
Located ==
    \A s \in Services :
        /\ pc[s] \in {"probe", "apply", "delete", "waiting"} => target[s] \in Objects
        /\ pc[s] \in {"probe", "apply"} => op[s] \in {"namespace", "ensure"}
        /\ pc[s] = "delete" => op[s] \in {"delete", "deletewait", "sweep"}
        /\ pc[s] = "waiting" => op[s] = "deletewait"
        /\ pc[s] \in {"new", "idle"} => op[s] # "sweep"

(* Until its first ensure, and in a dry run for ever, a service has        *)
(* nothing in its cache.                                                   *)
EmptyCache ==
    \A s \in Services :
        /\ op[s] \in {"none", "namespace"} => applied[s] = {}
        /\ pc[s] = "new" => op[s] = "none"
        /\ s \in DryRun => /\ op[s] = "none" /\ todo[s] = {}
                           /\ pc[s] \in {"new", "idle", "sweeping", "closed"}

(* What is cached, or about to be, was absent at some time. *)
AbsentOnce ==
    /\ \A o \in Objects : phase[o] = "absent" => o \in everAbsent
    /\ \A s \in Services :
          /\ applied[s] \subseteq everAbsent
          /\ todo[s] \subseteq everAbsent
          /\ pc[s] = "apply" /\ created[s] => target[s] \in everAbsent
          /\ Sweeping(s) => target[s] \in everAbsent

(* A service caches only what the steps of its case ensure. *)
CachesEnsured ==
    \A s \in Services :
        /\ applied[s] \subseteq Ensures[s]
        /\ todo[s] \subseteq Ensures[s]
        /\ pc[s] \in {"probe", "apply"} /\ op[s] = "ensure" => target[s] \in Ensures[s]
        /\ Sweeping(s) => target[s] \in Ensures[s]

(* What a case created and still exists is in its cache, or was lost in a  *)
(* named way.                                                              *)
Tracked ==
    \A s \in Services, o \in Objects :
        phase[o] = "live" /\ creator[o] = s =>
            o \in applied[s] \/ \E c \in Cause : Hole(s, o, c) \in holes

(* Service s is in its cleanup or past it. *)
Cleaning(s) == pc[s] \in {"sweeping", "closed"} \/ Sweeping(s)

(* During Cleanup a cached object is still to come, is being deleted, or   *)
(* could not be mapped.                                                    *)
Swept ==
    \A s \in Services : Cleaning(s) =>
        \A o \in applied[s] :
            \/ o \in todo[s] /\ pc[s] # "closed"
            \/ Sweeping(s) /\ o = target[s]
            \/ Hole(s, o, "unmapped") \in holes

SweepHole(s, o) == \E c \in {"failed sweep", "unmapped"} : Hole(s, o, c) \in holes

(* Cleanup's failures are on record, unless the object went or its deletion *)
(* is still being tried.                                                    *)
SweepRecorded ==
    \A s \in Services, o \in Objects :
        SweepHole(s, o) =>
            /\ op[s] = "sweep"
            /\ \/ failed[s]
               \/ InterruptedAsTimeout /\ expired[s]
               \/ Sweeping(s) /\ target[s] = o
               \/ ~(phase[o] = "live" /\ creator[o] = s)

Inv == /\ TypeOK /\ Located /\ EmptyCache /\ AbsentOnce
       /\ CachesEnsured /\ Tracked /\ Swept /\ SweepRecorded
-----------------------------------------------------------------------------
(* What a step of s that ends a request does to its control variables: it  *)
(* goes on to q, and no error on record is forgotten.                      *)
GoesTo(s, q) ==
    /\ pc' = [pc EXCEPT ![s] = q]
    /\ retry' \in [Services -> RetryState]
    /\ failed' \in [Services -> BOOLEAN]
    /\ \A t \in Services : failed[t] => failed'[t]

(* Where s may stand after its operation. *)
After(s) ==
    (IF op[s] = "sweep" THEN {"sweeping"} ELSE {"idle"})
      \cup (IF op[s] = "namespace" THEN {"closed"} ELSE {})
      \cup (IF op[s] = "deletewait" THEN {"waiting"} ELSE {})

(* An operation that returns leads to a control point after it; an error   *)
(* of Cleanup is recorded.                                                 *)
LEMMA ReturnsEffect ==
    ASSUME TypeOK, NEW s \in Services, NEW v, Returns(s, v)
    PROVE  /\ \E q \in After(s) : GoesTo(s, q)
           /\ op[s] = "sweep" /\ v # Nil => failed'[s]
<1>1. pc' = [pc EXCEPT ![s] = Successor(s, v)] /\ retry' = retry
  BY DEF Returns
<1>2. Successor(s, v) \in After(s)
  BY DEF Successor, After
<1>3. PICK f \in {TRUE} \cup (IF OptionalSteps /\ op[s] \notin {"namespace", "sweep"}
                             THEN {failed[s]} ELSE {}) :
        failed' = [failed EXCEPT ![s] = IF v = Nil THEN failed[s] ELSE f]
  BY DEF Returns, RecordError
<1>4. f = TRUE \/ (op[s] # "sweep" /\ f = failed[s])
  BY <1>3
<1>5. failed \in [Services -> BOOLEAN] /\ retry \in [Services -> RetryState]
  BY DEF TypeOK
<1>6. CASE failed' = [failed EXCEPT ![s] = failed[s]]
  <2>1. failed' = failed
    BY <1>5, <1>6
  <2>2. op[s] = "sweep" /\ v # Nil => failed'[s]
    BY <1>3, <1>4, <1>5
  <2> QED BY <1>1, <1>2, <1>5, <2>1, <2>2 DEF GoesTo
<1>7. CASE failed' = [failed EXCEPT ![s] = TRUE]
  <2>1. failed' \in [Services -> BOOLEAN] /\ \A t \in Services : failed[t] => failed'[t]
    BY <1>5, <1>7
  <2>2. failed'[s]
    BY <1>5, <1>7
  <2> QED BY <1>1, <1>2, <1>5, <2>1, <2>2 DEF GoesTo
<1> QED BY <1>3, <1>4, <1>6, <1>7

(* A failing attempt starts over, or the operation returns; a failure of   *)
(* Cleanup's delete is recorded, unless it hides the end of its context.   *)
LEMMA AttemptFailsEffect ==
    ASSUME TypeOK, NEW s \in Services, NEW e \in ErrorClass, NEW first \in Control,
           AttemptFails(s, e, first)
    PROVE  \E q \in {first} \cup After(s) :
              /\ GoesTo(s, q)
              /\ op[s] = "sweep" /\ q # first =>
                    failed'[s] \/ (InterruptedAsTimeout /\ e = "context")
<1> DEFINE next == AfterError(retry[s], UserAttempts(s), e)
<1>1. /\ retry[s] \in RetryState /\ UserAttempts(s) \in Int
      /\ retry \in [Services -> RetryState] /\ failed \in [Services -> BOOLEAN]
  BY ServiceAssumption DEF TypeOK, UserAttempts
<1>2. /\ next.state \in RetryState
      /\ ~next.again /\ next.result = Nil => InterruptedAsTimeout /\ e = "context"
  BY <1>1, AfterErrorType
<1> HIDE DEF next
<1>3. CASE next.again
  <2>1. /\ retry' = [retry EXCEPT ![s] = next.state]
        /\ pc' = [pc EXCEPT ![s] = first]
        /\ failed' = failed
    BY <1>3 DEF AttemptFails, next
  <2>2. GoesTo(s, first)
    BY <2>1, <1>1, <1>2 DEF GoesTo
  <2> QED BY <2>2
<1>4. CASE ~next.again
  <2>1. Returns(s, next.result)
    BY <1>4 DEF AttemptFails, next
  <2>2. /\ \E q \in After(s) : GoesTo(s, q)
        /\ op[s] = "sweep" /\ next.result # Nil => failed'[s]
    BY <2>1, ReturnsEffect
  <2> QED BY <2>2, <1>2, <1>4
<1> QED BY <1>3, <1>4

(* The errors of a request are error classes, a context error only when    *)
(* the context of s is done.                                               *)
LEMMA ErrorsType ==
    ASSUME NEW s \in Services, NEW e \in Errors(s)
    PROVE  e \in ErrorClass /\ (e = "context" => ContextEnded(s))
BY ServiceAssumption DEF Errors, ErrorClass

(* The cluster keeps its types. *)
ClusterOK ==
    /\ phase' \in [Objects -> Phase]
    /\ creator' \in [Objects -> Services \cup {"none", "kept", "outsider"}]
    /\ everAbsent \subseteq everAbsent' /\ everAbsent' \subseteq Objects
    /\ \A x \in Objects : phase'[x] = "absent" => x \in everAbsent'

(* Server-Side Apply brings at most the applied object to life. *)
LEMMA ApplyEffect ==
    ASSUME TypeOK, AbsentOnce, NEW o \in Objects,
           NEW c \in Services \cup {"none", "kept", "outsider"}, ServerApply(o, c)
    PROVE  /\ ClusterOK
           /\ \A x \in Objects : phase'[x] = "live" =>
                 \/ phase[x] = "live" /\ creator'[x] = creator[x]
                 \/ x = o /\ phase[o] = "absent" /\ creator'[x] = c
BY DEF TypeOK, AbsentOnce, ServerApply, SetPhase, ClusterOK, cluster, Phase

(* A delete brings nothing to life, and its object is not live afterwards. *)
LEMMA DeleteEffect ==
    ASSUME TypeOK, AbsentOnce, NEW o \in Objects, ServerDelete(o)
    PROVE  /\ ClusterOK
           /\ \A x \in Objects : phase'[x] = "live" =>
                 x # o /\ phase[x] = "live" /\ creator'[x] = creator[x]
BY DEF TypeOK, AbsentOnce, ServerDelete, SetPhase, ClusterOK, cluster, Phase

(* A hole is of its type. *)
LEMMA HoleType ==
    ASSUME NEW s \in Services, NEW o \in Objects, NEW c \in Cause
    PROVE  Hole(s, o, c) \in [service : Services, object : Objects, cause : Cause]
BY DEF Hole
-----------------------------------------------------------------------------
LEMMA InitInv == Init => Inv
<1> SUFFICES ASSUME Init PROVE Inv
  OBVIOUS
<1>0. PICK existing \in SUBSET Foreign :
          /\ phase = [o \in Objects |-> IF o \in existing THEN "live" ELSE "absent"]
          /\ creator = [o \in Objects |-> IF o \in existing THEN "outsider" ELSE "none"]
          /\ everAbsent = Objects \ existing
  BY DEF Init
<1>1. TypeOK
  <2>1. /\ phase \in [Objects -> Phase]
        /\ creator \in [Objects -> Services \cup {"none", "kept", "outsider"}]
        /\ everAbsent \subseteq Objects
    BY <1>0 DEF Phase
  <2>2. FirstTry \in RetryState
    BY DEF FirstTry, RetryState
  <2> QED BY <2>1, <2>2 DEF Init, TypeOK, Control, Operation
<1>2. Located /\ EmptyCache
  BY DEF Init, Located, EmptyCache
<1>3. AbsentOnce
  BY <1>0 DEF Init, AbsentOnce, Sweeping
<1>4. CachesEnsured /\ Swept /\ SweepRecorded
  BY DEF Init, CachesEnsured, Swept, Cleaning, Sweeping, SweepRecorded, SweepHole
<1>5. Tracked
  BY <1>0, ServiceAssumption DEF Tracked
<1> QED BY <1>1, <1>2, <1>3, <1>4, <1>5 DEF Inv

(* A step that only moves the control point of s within its operation, or  *)
(* out of it, preserves the invariant.                                     *)
LEMMA QuietInv ==
    ASSUME Inv, NEW s \in Services, NEW q,
           \/ q \in After(s) /\ pc[s] \in {"probe", "apply", "waiting"}
           \/ q = "probe" /\ pc[s] \in {"probe", "apply"},
           GoesTo(s, q),
           UNCHANGED <<cluster, interrupted, op, target, created, applied, todo, expired,
                       ops, holes>>
    PROVE  Inv'
<1> USE DEF Inv
<1>0. op[s] # "sweep"
  BY DEF Located
<1>1. TypeOK'
  BY DEF TypeOK, GoesTo, After, Control, cluster
<1>2. Located'
  BY DEF Located, TypeOK, GoesTo, After
<1>3. EmptyCache'
  BY DEF EmptyCache, Located, TypeOK, GoesTo, After
<1>4. AbsentOnce'
  BY <1>0 DEF AbsentOnce, Sweeping, TypeOK, GoesTo, After, cluster
<1>5. CachesEnsured'
  BY <1>0 DEF CachesEnsured, Located, Sweeping, TypeOK, GoesTo, After
<1>6. Tracked'
  BY DEF Tracked, cluster
<1>7. Swept'
  BY <1>0 DEF Swept, Cleaning, Sweeping, EmptyCache, TypeOK, GoesTo, After
<1>8. SweepRecorded'
  BY <1>0 DEF SweepRecorded, SweepHole, Sweeping, TypeOK, GoesTo, cluster
<1> QED BY <1>1, <1>2, <1>3, <1>4, <1>5, <1>6, <1>7, <1>8

LEMMA ProbeFailsInv ==
    ASSUME Inv, NEW s \in Services, EnsureProbeFails(s) PROVE Inv'
<1>1. PICK e \in Errors(s) : AttemptFails(s, e, "probe")
  BY DEF EnsureProbeFails
<1>2. e \in ErrorClass
  BY ErrorsType
<1>3. PICK q \in {"probe"} \cup After(s) : GoesTo(s, q)
  BY <1>1, <1>2, AttemptFailsEffect DEF Inv, Control
<1> QED BY <1>3, QuietInv DEF EnsureProbeFails

LEMMA ApplyFailsInv ==
    ASSUME Inv, NEW s \in Services, EnsureApplyFails(s) PROVE Inv'
<1>1. PICK e \in Errors(s) : AttemptFails(s, e, "probe")
  BY DEF EnsureApplyFails
<1>2. e \in ErrorClass
  BY ErrorsType
<1>3. PICK q \in {"probe"} \cup After(s) : GoesTo(s, q)
  BY <1>1, <1>2, AttemptFailsEffect DEF Inv, Control
<1> QED BY <1>3, QuietInv DEF EnsureApplyFails

LEMMA WaitInv ==
    ASSUME Inv, NEW s \in Services, WaitSeesEvent(s) \/ WaitFails(s) PROVE Inv'
<1>1. PICK v : Returns(s, v)
  BY DEF WaitSeesEvent, WaitFails
<1>2. PICK q \in After(s) : GoesTo(s, q)
  BY <1>1, ReturnsEffect DEF Inv
<1> QED BY <1>2, QuietInv DEF WaitSeesEvent, WaitFails

(* A service starts; its first operation, if any, is on the namespace. *)
LEMMA StartInv ==
    ASSUME Inv, NEW s \in Services, Start(s) PROVE Inv'
<1> USE DEF Inv
<1>0. pc[s] = "new" /\ op[s] = "none" /\ applied[s] = {}
  BY DEF Start, EmptyCache
<1>a. \/ /\ s \notin DryRun /\ Namespace \in Objects
         /\ op' = [op EXCEPT ![s] = "namespace"]
         /\ target' = [target EXCEPT ![s] = Namespace]
         /\ retry' = [retry EXCEPT ![s] = FirstTry]
         /\ pc' = [pc EXCEPT ![s] = "probe"]
      \/ /\ pc' = [pc EXCEPT ![s] = "idle"]
         /\ UNCHANGED <<op, target, retry>>
  BY DEF Start, Begin
<1>b. UNCHANGED <<cluster, interrupted, created, applied, todo, expired, failed, ops, holes>>
  BY DEF Start
<1>1. TypeOK'
  <2>1. FirstTry \in RetryState
    BY DEF FirstTry, RetryState
  <2>2. /\ op' \in [Services -> Operation] /\ pc' \in [Services -> Control]
        /\ target' \in [Services -> Objects \cup {Namespace}]
        /\ retry' \in [Services -> RetryState]
    BY <1>a, <2>1 DEF TypeOK, Control, Operation
  <2> QED BY <1>b, <2>2 DEF TypeOK, cluster
<1>2. Located'
  BY <1>0, <1>a, <1>b DEF Located, TypeOK
<1>3. EmptyCache'
  BY <1>0, <1>a, <1>b DEF EmptyCache, TypeOK
<1>4. AbsentOnce'
  BY <1>0, <1>a, <1>b DEF AbsentOnce, Sweeping, TypeOK, cluster
<1>5. CachesEnsured'
  BY <1>0, <1>a, <1>b DEF CachesEnsured, Sweeping, TypeOK
<1>6. Tracked'
  BY <1>b DEF Tracked, cluster
<1>7. Swept'
  BY <1>0, <1>a, <1>b DEF Swept, Cleaning, Sweeping, TypeOK
<1>8. SweepRecorded'
  <2>1. \A o \in Objects : ~SweepHole(s, o)
    BY <1>0 DEF SweepRecorded
  <2>2. \A t \in Services : t # s => op'[t] = op[t] /\ target'[t] = target[t] /\ pc'[t] = pc[t]
    BY <1>a DEF TypeOK
  <2> QED BY <1>b, <2>1, <2>2 DEF SweepRecorded, SweepHole, Sweeping, cluster
<1> QED BY <1>1, <1>2, <1>3, <1>4, <1>5, <1>6, <1>7, <1>8

(* A step of the case begins an ensure or a delete. *)
LEMMA BeginActionInv ==
    ASSUME Inv, NEW s \in Services, NEW p, NEW o \in Objects, NEW at,
           BeginAction(s, p, o, at),
           \/ p = "ensure" /\ at = "probe" /\ o \in Ensures[s]
           \/ p \in {"delete", "deletewait"} /\ at = "delete"
    PROVE  Inv'
<1> USE DEF Inv
<1>0. pc[s] = "idle" /\ s \notin DryRun /\ op[s] # "sweep"
  BY DEF BeginAction, Located
<1>a. /\ op' = [op EXCEPT ![s] = p]
      /\ target' = [target EXCEPT ![s] = o]
      /\ retry' = [retry EXCEPT ![s] = FirstTry]
      /\ pc' = [pc EXCEPT ![s] = at]
      /\ ops' = [ops EXCEPT ![s] = ops[s] + 1]
  BY DEF BeginAction, Begin
<1>b. UNCHANGED <<cluster, interrupted, created, applied, todo, expired, failed, holes>>
  BY DEF BeginAction
<1>1. TypeOK'
  BY <1>a, <1>b DEF TypeOK, Control, Operation, cluster, FirstTry, RetryState
<1>2. Located'
  BY <1>0, <1>a, <1>b DEF Located, TypeOK
<1>3. EmptyCache'
  BY <1>0, <1>a, <1>b DEF EmptyCache, TypeOK
<1>4. AbsentOnce'
  BY <1>0, <1>a, <1>b DEF AbsentOnce, Sweeping, TypeOK, cluster
<1>5. CachesEnsured'
  BY <1>0, <1>a, <1>b DEF CachesEnsured, Sweeping, TypeOK
<1>6. Tracked'
  BY <1>b DEF Tracked, cluster
<1>7. Swept'
  BY <1>0, <1>a, <1>b DEF Swept, Cleaning, Sweeping, TypeOK
<1>8. SweepRecorded'
  BY <1>0, <1>a, <1>b DEF SweepRecorded, SweepHole, Sweeping, TypeOK, cluster
<1> QED BY <1>1, <1>2, <1>3, <1>4, <1>5, <1>6, <1>7, <1>8

LEMMA BeginInv ==
    ASSUME Inv, NEW s \in Services, BeginEnsure(s) \/ BeginDelete(s) PROVE Inv'
<1>1. Ensures[s] \subseteq Objects /\ Deletes[s] \subseteq Objects
  BY ServiceAssumption
<1> QED BY <1>1, BeginActionInv DEF BeginEnsure, BeginDelete

(* An operation of a dry run, or a step of the environment that touches    *)
(* neither the cluster nor a service.                                      *)
LEMMA IdleInv ==
    ASSUME Inv,
           \/ \E s \in Services : DryAction(s) \/ CleanupTimeout(s)
           \/ Interrupt
           \/ UNCHANGED vars
    PROVE  Inv'
<1> USE DEF Inv
<1>0. /\ UNCHANGED <<cluster, pc, op, target, created, retry, applied, todo, failed, holes>>
      /\ ops' \in [Services -> Nat] /\ interrupted' \in BOOLEAN
      /\ expired' \in [Services -> BOOLEAN]
      /\ \A t \in Services : expired[t] => expired'[t]
  <2>1. CASE \E s \in Services : DryAction(s)
    BY <2>1 DEF DryAction, TypeOK
  <2>2. CASE \E s \in Services : CleanupTimeout(s)
    BY <2>2 DEF CleanupTimeout, TypeOK
  <2>3. CASE Interrupt
    BY <2>3 DEF Interrupt, Environment, caseVars, TypeOK
  <2>4. CASE UNCHANGED vars
    BY <2>4 DEF vars, caseVars, TypeOK
  <2> QED BY <2>1, <2>2, <2>3, <2>4
<1>1. TypeOK'
  BY <1>0 DEF TypeOK, cluster
<1>2. Located' /\ EmptyCache'
  BY <1>0 DEF Located, EmptyCache
<1>3. AbsentOnce' /\ CachesEnsured'
  BY <1>0 DEF AbsentOnce, CachesEnsured, Sweeping, cluster
<1>4. Tracked' /\ Swept'
  BY <1>0 DEF Tracked, Swept, Cleaning, Sweeping, cluster
<1>5. SweepRecorded'
  BY <1>0 DEF SweepRecorded, SweepHole, Sweeping, cluster
<1> QED BY <1>1, <1>2, <1>3, <1>4, <1>5

(* The probe: created becomes TRUE only for an object absent now. *)
LEMMA ProbeInv ==
    ASSUME Inv, NEW s \in Services, EnsureProbe(s) PROVE Inv'
<1> USE DEF Inv
<1>0. /\ pc[s] = "probe" /\ target[s] \in Objects
      /\ created' = [created EXCEPT ![s] = phase[target[s]] = "absent"]
      /\ pc' = [pc EXCEPT ![s] = "apply"]
      /\ UNCHANGED <<cluster, interrupted, op, target, retry, applied, todo, expired,
                      failed, ops, holes>>
  BY DEF EnsureProbe, Located
<1>1. TypeOK'
  BY <1>0 DEF TypeOK, Control, cluster
<1>2. Located' /\ EmptyCache'
  BY <1>0 DEF Located, EmptyCache, TypeOK
<1>4. AbsentOnce'
  BY <1>0 DEF AbsentOnce, Sweeping, TypeOK, cluster
<1>5. CachesEnsured'
  BY <1>0 DEF CachesEnsured, Sweeping, TypeOK
<1>6. Tracked'
  BY <1>0 DEF Tracked, cluster
<1>7. Swept'
  BY <1>0 DEF Swept, Cleaning, Sweeping, TypeOK
<1>8. SweepRecorded'
  BY <1>0 DEF SweepRecorded, SweepHole, Sweeping, TypeOK, cluster
<1> QED BY <1>1, <1>2, <1>4, <1>5, <1>6, <1>7, <1>8

(* An apply that is performed: A is the cache afterwards.  The object is   *)
(* tracked, or the loss has a name.                                        *)
LEMMA ApplyStepInv ==
    ASSUME Inv, NEW s \in Services, NEW q \in {"probe"} \cup After(s), NEW A,
           pc[s] = "apply", GoesTo(s, q),
           ServerApply(target[s], CreatorOf(s)),
           applied' = [applied EXCEPT ![s] = A],
           A \subseteq applied[s]
             \cup (IF created[s] /\ op[s] = "ensure" THEN {target[s]} ELSE {}),
           holes \subseteq holes',
           \A h \in holes' : \/ h \in holes
                            \/ \E x \in Objects, c \in {"key clash", "stale probe", "lost reply", "interrupted apply"} :
                                  h = Hole(s, x, c),
           \A x \in applied[s] \ A : Hole(s, x, "key clash") \in holes',
           op[s] = "ensure" /\ phase[target[s]] = "absent" =>
               target[s] \in A \/ \E c \in Cause : Hole(s, target[s], c) \in holes',
           UNCHANGED <<interrupted, op, target, created, todo, expired, ops>>
    PROVE  Inv'
<1> USE DEF Inv
<1>0. /\ target[s] \in Objects /\ op[s] \in {"namespace", "ensure"} /\ s \notin DryRun
      /\ CreatorOf(s) \in Services \cup {"none", "kept", "outsider"}
      /\ q \in {"probe", "idle", "closed"} /\ (q = "closed" => op[s] = "namespace")
  BY DEF Located, EmptyCache, CreatorOf, After
<1>c. /\ ClusterOK
      /\ \A x \in Objects : phase'[x] = "live" =>
            \/ phase[x] = "live" /\ creator'[x] = creator[x]
            \/ x = target[s] /\ phase[x] = "absent" /\ creator'[x] = CreatorOf(s)
  <2>1. TypeOK /\ AbsentOnce
    OBVIOUS
  <2> HIDE DEF Inv
  <2>2. /\ ClusterOK
        /\ \A x \in Objects : phase'[x] = "live" =>
              \/ phase[x] = "live" /\ creator'[x] = creator[x]
              \/ x = target[s] /\ phase[target[s]] = "absent" /\ creator'[x] = CreatorOf(s)
    BY <1>0, <2>1, ApplyEffect, Zenon
  <2> QED BY <2>2
<1>p. /\ pc' = [pc EXCEPT ![s] = q]
      /\ \A t \in Services : failed[t] => failed'[t]
  BY DEF GoesTo
<1>a. \A t \in Services : t # s => applied'[t] = applied[t] /\ pc'[t] = pc[t]
  BY <1>p DEF TypeOK
<1>s. applied'[s] = A /\ pc'[s] = q
  BY <1>p DEF TypeOK
<1>1. TypeOK'
  <2>1. A \subseteq Objects
    BY <1>0 DEF TypeOK
  <2>2. holes' \subseteq [service : Services, object : Objects, cause : Cause]
    <3>1. {"key clash", "stale probe", "lost reply", "interrupted apply"} \subseteq Cause
      BY DEF Cause
    <3>2. \A x \in Objects, c \in {"key clash", "stale probe", "lost reply", "interrupted apply"} :
            Hole(s, x, c) \in [service : Services, object : Objects, cause : Cause]
      BY <3>1, HoleType
    <3>3. holes \subseteq [service : Services, object : Objects, cause : Cause]
      BY DEF TypeOK
    <3> SUFFICES ASSUME NEW h \in holes'
                 PROVE  h \in [service : Services, object : Objects, cause : Cause]
      OBVIOUS
    <3>4. CASE h \in holes
      BY <3>3, <3>4
    <3>5. CASE \E x \in Objects, c \in {"key clash", "stale probe", "lost reply",
                                        "interrupted apply"} : h = Hole(s, x, c)
      <4>1. PICK x \in Objects, c \in {"key clash", "stale probe", "lost reply",
                                       "interrupted apply"} : h = Hole(s, x, c)
        BY <3>5
      <4> QED BY <4>1, <3>2
    <3> QED BY <3>4, <3>5
  <2> QED BY <1>0, <1>c, <2>1, <2>2 DEF TypeOK, GoesTo, ClusterOK, Control
<1>2. Located'
  BY <1>0, <1>a, <1>s DEF Located
<1>3. EmptyCache'
  BY <1>0, <1>a, <1>s DEF EmptyCache
<1>4. AbsentOnce'
  <2>1. A \subseteq everAbsent'
    BY <1>c DEF AbsentOnce, ClusterOK
  <2> QED BY <1>0, <1>a, <1>s, <1>c, <2>1 DEF AbsentOnce, ClusterOK, Sweeping
<1>5. CachesEnsured'
  <2>1. A \subseteq Ensures[s]
    BY DEF CachesEnsured
  <2> QED BY <1>0, <1>a, <1>s, <2>1 DEF CachesEnsured, Sweeping
<1>6. Tracked'
  <2> SUFFICES ASSUME NEW t \in Services, NEW o \in Objects,
                      phase'[o] = "live", creator'[o] = t
               PROVE  o \in applied'[t] \/ \E c \in Cause : Hole(t, o, c) \in holes'
    BY DEF Tracked
  <2>1. CASE phase[o] = "live" /\ creator[o] = t
    <3>1. o \in applied[t] \/ \E c \in Cause : Hole(t, o, c) \in holes
      BY <2>1 DEF Tracked
    <3>2. CASE t = s /\ o \in applied[s] \ A
      BY <3>2 DEF Cause
    <3> QED BY <3>1, <3>2, <1>a, <1>s
  <2>2. CASE o = target[s] /\ phase[o] = "absent" /\ t = CreatorOf(s)
    <3>1. t = s /\ op[s] = "ensure"
      BY <2>2, <1>0, ServiceAssumption DEF CreatorOf
    <3> QED BY <3>1, <2>2, <1>s
  <2> QED BY <2>1, <2>2, <1>c
<1>7. Swept'
  <2>1. ASSUME NEW t \in Services, t # s, Cleaning(t)', NEW o \in applied'[t]
        PROVE  \/ o \in todo'[t] /\ pc'[t] # "closed"
               \/ Sweeping(t)' /\ o = target'[t]
               \/ Hole(t, o, "unmapped") \in holes'
    BY <2>1, <1>a DEF Swept, Cleaning, Sweeping
  <2>2. Cleaning(s)' => applied'[s] = {}
    BY <1>0, <1>s DEF Cleaning, Sweeping, EmptyCache
  <2> QED BY <2>1, <2>2 DEF Swept
<1>8. SweepRecorded'
  <2> SUFFICES ASSUME NEW t \in Services, NEW o \in Objects, SweepHole(t, o)'
               PROVE  /\ op'[t] = "sweep"
                      /\ \/ failed'[t]
                         \/ InterruptedAsTimeout /\ expired'[t]
                         \/ Sweeping(t)' /\ target'[t] = o
                         \/ ~(phase'[o] = "live" /\ creator'[o] = t)
    BY DEF SweepRecorded
  <2>1. SweepHole(t, o)
    <3>1. PICK c \in {"failed sweep", "unmapped"} : Hole(t, o, c) \in holes'
      BY DEF SweepHole
    <3>2. \A x \in Objects, d \in {"key clash", "stale probe", "lost reply", "interrupted apply"} :
            Hole(t, o, c) # Hole(s, x, d)
      BY DEF Hole
    <3>3. Hole(t, o, c) \in holes
      BY <3>1, <3>2
    <3> QED BY <3>3 DEF SweepHole
  <2>2. op[t] = "sweep" /\ t # s
    BY <2>1, <1>0 DEF SweepRecorded
  <2>3. phase'[o] = "live" /\ creator'[o] = t => phase[o] = "live" /\ creator[o] = t
    BY <2>2, <1>c, ServiceAssumption DEF CreatorOf
  <2> QED BY <2>1, <2>2, <2>3, <1>a, <1>p DEF SweepRecorded, Sweeping
<1> QED BY <1>1, <1>2, <1>3, <1>4, <1>5, <1>6, <1>7, <1>8

LEMMA ApplyInv ==
    ASSUME Inv, NEW s \in Services, EnsureApply(s) PROVE Inv'
<1> DEFINE A == CacheIfCreated(s)
<1>1. PICK q \in After(s) : GoesTo(s, q)
  BY ReturnsEffect DEF Inv, EnsureApply
<1>2. /\ A \subseteq applied[s]
           \cup (IF created[s] /\ op[s] = "ensure" THEN {target[s]} ELSE {})
      /\ created[s] /\ op[s] = "ensure" => target[s] \in A
  BY DEF CacheIfCreated, Put
<1>3. /\ pc[s] = "apply" /\ ServerApply(target[s], CreatorOf(s))
      /\ applied' = [applied EXCEPT ![s] = A]
      /\ holes' = holes
           \cup {Hole(s, x, "key clash") : x \in applied[s] \ A}
           \cup (IF op[s] = "ensure" /\ ~created[s] /\ phase[target[s]] = "absent"
                 THEN {Hole(s, target[s], "stale probe")} ELSE {})
      /\ UNCHANGED <<interrupted, op, target, created, todo, expired, ops>>
  BY DEF EnsureApply
<1>4. target[s] \in Objects /\ applied[s] \subseteq Objects
  BY <1>3 DEF Inv, Located, TypeOK
<1> HIDE DEF A
<1>5. \A h \in holes' : \/ h \in holes
                       \/ \E x \in Objects, c \in {"key clash", "stale probe", "lost reply", "interrupted apply"} :
                             h = Hole(s, x, c)
  BY <1>3, <1>4
<1>6. op[s] = "ensure" /\ phase[target[s]] = "absent" =>
          target[s] \in A \/ \E c \in Cause : Hole(s, target[s], c) \in holes'
  BY <1>2, <1>3 DEF Cause
<1>7. holes \subseteq holes' /\ \A x \in applied[s] \ A : Hole(s, x, "key clash") \in holes'
  BY <1>3
<1> QED BY <1>1, <1>2, <1>3, <1>5, <1>6, <1>7, ApplyStepInv

LEMMA ApplyLostInv ==
    ASSUME Inv, NEW s \in Services, EnsureApplyLost(s) PROVE Inv'
<1>1. PICK e \in Errors(s) : AttemptFails(s, e, "probe")
  BY DEF EnsureApplyLost
<1>2. e \in ErrorClass
  BY ErrorsType
<1>3. PICK q \in {"probe"} \cup After(s) : GoesTo(s, q)
  BY <1>1, <1>2, AttemptFailsEffect DEF Inv, Control
<1>4. /\ pc[s] = "apply" /\ ServerApply(target[s], CreatorOf(s))
      /\ holes' = holes \cup (IF op[s] = "ensure" /\ phase[target[s]] = "absent"
                              THEN {Hole(s, target[s], IF ContextEnded(s) THEN "interrupted apply"
                                                                          ELSE "lost reply")}
                              ELSE {})
      /\ UNCHANGED <<interrupted, op, target, created, todo, expired, ops>>
      /\ applied' = applied
  BY DEF EnsureApplyLost
<1>5. applied' = [applied EXCEPT ![s] = applied[s]]
  BY <1>4 DEF Inv, TypeOK
<1>6. target[s] \in Objects
  BY <1>4 DEF Inv, Located
<1>7. \A h \in holes' : \/ h \in holes
                       \/ \E x \in Objects, c \in {"key clash", "stale probe", "lost reply", "interrupted apply"} :
                             h = Hole(s, x, c)
  BY <1>4, <1>6
<1>8. op[s] = "ensure" /\ phase[target[s]] = "absent" =>
          target[s] \in applied[s] \/ \E c \in Cause : Hole(s, target[s], c) \in holes'
  BY <1>4 DEF Cause
<1>9. holes \subseteq holes'
  BY <1>4
<1> QED BY <1>3, <1>4, <1>5, <1>7, <1>8, <1>9, ApplyStepInv

(* What dropping the target from the cache takes from it, and which holes  *)
(* that leaves.                                                            *)
LEMMA DropEffect ==
    ASSUME TypeOK, NEW s \in Services, NEW fails \in BOOLEAN, target[s] \in Objects
    PROVE  /\ DropFromCache(s) \subseteq applied[s] \ {target[s]}
           /\ \A x \in applied[s] \ DropFromCache(s) :
                 x = target[s] \/ Hole(s, x, "key clash") \in DropHoles(s, fails)
           /\ fails /\ target[s] \in applied[s] =>
                 Hole(s, target[s], IF op[s] = "sweep" THEN "failed sweep" ELSE "failed delete")
                     \in DropHoles(s, fails)
           /\ DropHoles(s, fails) \subseteq [service : Services, object : Objects, cause : Cause]
           /\ \A t \in Services, o \in Objects, c \in {"failed sweep", "unmapped"} :
                 Hole(t, o, c) \in DropHoles(s, fails) =>
                     t = s /\ o = target[s] /\ fails /\ op[s] = "sweep"
<1>1. DropFromCache(s) \subseteq applied[s] \ {target[s]}
  BY DEF DropFromCache, Remove
<1>2. \A x \in applied[s] \ DropFromCache(s) :
          x = target[s] \/ x \in Clashing(applied[s], target[s])
  BY DEF DropFromCache, Remove, Clashing
<1>3. \A x \in Clashing(applied[s], target[s]) :
          Hole(s, x, "key clash") \in DropHoles(s, fails) /\ x \in Objects
  BY DEF DropHoles, Clashing, TypeOK
<1>4. fails /\ target[s] \in applied[s] =>
          Hole(s, target[s], IF op[s] = "sweep" THEN "failed sweep" ELSE "failed delete")
              \in DropHoles(s, fails)
  BY DEF DropHoles
<1>5. ASSUME NEW h \in DropHoles(s, fails)
      PROVE  \/ \E x \in Objects : h = Hole(s, x, "key clash")
             \/ fails /\ op[s] = "sweep" /\ h = Hole(s, target[s], "failed sweep")
             \/ h = Hole(s, target[s], "failed delete")
  BY <1>3, <1>5 DEF DropHoles
<1>6. DropHoles(s, fails) \subseteq [service : Services, object : Objects, cause : Cause]
  <2>1. {"key clash", "failed sweep", "failed delete"} \subseteq Cause
    BY DEF Cause
  <2> SUFFICES ASSUME NEW h \in DropHoles(s, fails)
               PROVE  h \in [service : Services, object : Objects, cause : Cause]
    OBVIOUS
  <2>2. \A x \in Objects, c \in {"key clash", "failed sweep", "failed delete"} :
          Hole(s, x, c) \in [service : Services, object : Objects, cause : Cause]
    BY <2>1, HoleType
  <2> QED BY <1>5, <2>2
<1>7. \A t \in Services, o \in Objects, c \in {"failed sweep", "unmapped"} :
          Hole(t, o, c) \in DropHoles(s, fails) =>
              t = s /\ o = target[s] /\ fails /\ op[s] = "sweep"
  BY <1>5 DEF Hole
<1> QED BY <1>1, <1>2, <1>3, <1>4, <1>6, <1>7

(* A delete attempt whose request was sent: the entry is dropped first, so *)
(* a request that fails leaves a hole.                                     *)
LEMMA DeleteStepInv ==
    ASSUME Inv, NEW s \in Services, NEW q \in {"delete"} \cup After(s),
           NEW fails \in BOOLEAN,
           pc[s] = "delete", GoesTo(s, q),
           applied' = [applied EXCEPT ![s] = DropFromCache(s)],
           holes' = holes \cup DropHoles(s, fails),
           ServerDelete(target[s]) \/ (fails /\ UNCHANGED cluster),
           op[s] = "sweep" /\ q # "delete" /\ fails =>
               failed'[s] \/ (InterruptedAsTimeout /\ expired[s]),
           UNCHANGED <<interrupted, op, target, created, todo, expired, ops>>
    PROVE  Inv'
<1> USE DEF Inv
<1>0. /\ target[s] \in Objects /\ op[s] \in {"delete", "deletewait", "sweep"} /\ s \notin DryRun
      /\ q \in {"delete", "idle", "waiting", "sweeping"}
      /\ (q \in {"idle", "waiting"} => op[s] # "sweep") /\ (q = "sweeping" => op[s] = "sweep")
      /\ (q = "waiting" => op[s] = "deletewait")
  BY DEF Located, EmptyCache, After
<1>k. TypeOK /\ AbsentOnce
  OBVIOUS
<1>c. /\ ClusterOK
      /\ \A x \in Objects : phase'[x] = "live" => phase[x] = "live" /\ creator'[x] = creator[x]
      /\ fails \/ phase'[target[s]] # "live"
  <2>1. CASE ServerDelete(target[s])
    BY <2>1, <1>0, <1>k, DeleteEffect
  <2>2. CASE fails /\ UNCHANGED cluster
    BY <2>2 DEF ClusterOK, cluster, TypeOK, AbsentOnce
  <2> QED BY <2>1, <2>2
<1>d. /\ DropFromCache(s) \subseteq applied[s] \ {target[s]}
      /\ \A x \in applied[s] \ DropFromCache(s) :
            x = target[s] \/ Hole(s, x, "key clash") \in DropHoles(s, fails)
      /\ fails /\ target[s] \in applied[s] =>
            Hole(s, target[s], IF op[s] = "sweep" THEN "failed sweep" ELSE "failed delete")
                \in DropHoles(s, fails)
      /\ DropHoles(s, fails) \subseteq [service : Services, object : Objects, cause : Cause]
      /\ \A t \in Services, o \in Objects, c \in {"failed sweep", "unmapped"} :
            Hole(t, o, c) \in DropHoles(s, fails) =>
                t = s /\ o = target[s] /\ fails /\ op[s] = "sweep"
  BY <1>0, <1>k, DropEffect
<1>p. /\ pc' = [pc EXCEPT ![s] = q]
      /\ \A t \in Services : failed[t] => failed'[t]
  BY DEF GoesTo
<1>a. \A t \in Services : t # s => applied'[t] = applied[t] /\ pc'[t] = pc[t]
  BY <1>p DEF TypeOK
<1>s. applied'[s] = DropFromCache(s) /\ pc'[s] = q
  BY <1>p DEF TypeOK
<1>1. TypeOK'
  <2>1. DropFromCache(s) \subseteq Objects
    BY <1>d DEF TypeOK
  <2> QED BY <1>0, <1>c, <1>d, <2>1 DEF TypeOK, GoesTo, ClusterOK, Control
<1>2. Located'
  BY <1>0, <1>a, <1>s DEF Located
<1>3. EmptyCache'
  BY <1>0, <1>a, <1>s DEF EmptyCache
<1>4. AbsentOnce'
  <2>1. DropFromCache(s) \subseteq everAbsent'
    BY <1>c, <1>d DEF AbsentOnce, ClusterOK
  <2> QED BY <1>0, <1>a, <1>s, <1>c, <2>1 DEF AbsentOnce, ClusterOK, Sweeping
<1>5. CachesEnsured'
  <2>1. DropFromCache(s) \subseteq Ensures[s]
    BY <1>d DEF CachesEnsured
  <2> QED BY <1>0, <1>a, <1>s, <2>1 DEF CachesEnsured, Sweeping
<1>6. Tracked'
  <2> SUFFICES ASSUME NEW t \in Services, NEW o \in Objects,
                      phase'[o] = "live", creator'[o] = t
               PROVE  o \in applied'[t] \/ \E c \in Cause : Hole(t, o, c) \in holes'
    BY DEF Tracked
  <2>1. o \in applied[t] \/ \E c \in Cause : Hole(t, o, c) \in holes
    BY <1>c DEF Tracked
  <2>2. CASE t = s /\ o \in applied[s] \ DropFromCache(s) /\ o # target[s]
    BY <2>2, <1>d DEF Cause
  <2>3. CASE t = s /\ o \in applied[s] /\ o = target[s]
    BY <2>3, <1>c, <1>d DEF Cause
  <2> QED BY <2>1, <2>2, <2>3, <1>a, <1>s
<1>7. Swept'
  <2> SUFFICES ASSUME NEW t \in Services, Cleaning(t)', NEW o \in applied'[t]
               PROVE  \/ o \in todo'[t] /\ pc'[t] # "closed"
                      \/ Sweeping(t)' /\ o = target'[t]
                      \/ Hole(t, o, "unmapped") \in holes'
    BY DEF Swept
  <2>1. CASE t # s
    BY <2>1, <1>a DEF Swept, Cleaning, Sweeping
  <2>2. CASE t = s
    <3>1. Cleaning(s) /\ o \in applied[s] /\ o # target[s]
      BY <2>2, <1>0, <1>d, <1>s DEF Cleaning, Sweeping
    <3>2. pc'[s] # "closed"
      BY <1>0, <1>s
    <3> QED BY <2>2, <3>1, <3>2 DEF Swept
  <2> QED BY <2>1, <2>2
<1>8. SweepRecorded'
  <2> SUFFICES ASSUME NEW t \in Services, NEW o \in Objects, SweepHole(t, o)'
               PROVE  /\ op'[t] = "sweep"
                      /\ \/ failed'[t]
                         \/ InterruptedAsTimeout /\ expired'[t]
                         \/ Sweeping(t)' /\ target'[t] = o
                         \/ ~(phase'[o] = "live" /\ creator'[o] = t)
    BY DEF SweepRecorded
  <2>1. \/ SweepHole(t, o)
        \/ t = s /\ o = target[s] /\ fails /\ op[s] = "sweep"
    BY <1>d DEF SweepHole
  <2>2. CASE t = s /\ o = target[s] /\ op[s] = "sweep"
    BY <2>2, <1>0, <1>c, <1>s DEF Sweeping
  <2>3. CASE SweepHole(t, o) /\ ~(t = s /\ o = target[s])
    BY <2>3, <1>a, <1>c, <1>p DEF SweepRecorded, Sweeping
  <2>4. CASE SweepHole(t, o) /\ t = s /\ o = target[s]
    BY <2>2, <2>4 DEF SweepRecorded
  <2> QED BY <2>1, <2>2, <2>3, <2>4
<1> QED BY <1>1, <1>2, <1>3, <1>4, <1>5, <1>6, <1>7, <1>8

LEMMA DeleteRequestInv ==
    ASSUME Inv, NEW s \in Services, DeleteRequest(s) PROVE Inv'
<1>1. PICK q \in After(s) : GoesTo(s, q)
  BY ReturnsEffect DEF Inv, DeleteRequest
<1> QED BY <1>1, DeleteStepInv DEF DeleteRequest

(* The attempt failed, whether its request was performed or not. *)
LEMMA DeleteFailsInv ==
    ASSUME Inv, NEW s \in Services, DeleteRequestFails(s) \/ DeleteRequestLost(s) PROVE Inv'
<1>1. PICK e \in Errors(s) : AttemptFails(s, e, "delete")
  BY DEF DeleteRequestFails, DeleteRequestLost
<1>2. e \in ErrorClass /\ (e = "context" => ContextEnded(s))
  BY ErrorsType
<1>3. PICK q \in {"delete"} \cup After(s) :
          /\ GoesTo(s, q)
          /\ op[s] = "sweep" /\ q # "delete" =>
                failed'[s] \/ (InterruptedAsTimeout /\ e = "context")
  BY <1>1, <1>2, AttemptFailsEffect DEF Inv, Control
<1>4. op[s] = "sweep" /\ q # "delete" => failed'[s] \/ (InterruptedAsTimeout /\ expired[s])
  BY <1>2, <1>3 DEF ContextEnded
<1>5. CASE DeleteRequestFails(s)
  <2>1. /\ holes' = holes \cup DropHoles(s, TRUE) /\ UNCHANGED cluster
        /\ pc[s] = "delete" /\ applied' = [applied EXCEPT ![s] = DropFromCache(s)]
        /\ UNCHANGED <<interrupted, op, target, created, todo, expired, ops>>
    BY <1>5 DEF DeleteRequestFails
  <2> QED BY <2>1, <1>3, <1>4, DeleteStepInv
<1>6. CASE DeleteRequestLost(s)
  <2>1. /\ holes' = holes \cup DropHoles(s, FALSE) /\ ServerDelete(target[s])
        /\ pc[s] = "delete" /\ applied' = [applied EXCEPT ![s] = DropFromCache(s)]
        /\ UNCHANGED <<interrupted, op, target, created, todo, expired, ops>>
    BY <1>6 DEF DeleteRequestLost
  <2> QED BY <2>1, <1>3, <1>4, DeleteStepInv
<1> QED BY <1>5, <1>6

(* An attempt that cannot map the object leaves the cache as it is; only   *)
(* Cleanup gives up on the object by that.                                 *)
LEMMA UnmappedInv ==
    ASSUME Inv, NEW s \in Services, DeleteUnmapped(s) PROVE Inv'
<1> USE DEF Inv
<1>0. /\ pc[s] = "delete" /\ target[s] \in Objects
      /\ op[s] \in {"delete", "deletewait", "sweep"} /\ s \notin DryRun
      /\ holes' = holes \cup (IF op[s] = "sweep" THEN {Hole(s, target[s], "unmapped")} ELSE {})
      /\ UNCHANGED <<cluster, interrupted, op, target, created, applied, todo, expired, ops>>
  BY DEF DeleteUnmapped, Located, EmptyCache
<1>q. PICK q \in {"delete"} \cup After(s) :
          /\ GoesTo(s, q)
          /\ op[s] = "sweep" /\ q # "delete" => failed'[s]
  <2>1. AttemptFails(s, "other", "delete") /\ "other" \in ErrorClass /\ TypeOK
    BY DEF DeleteUnmapped, ErrorClass
  <2> QED BY <2>1, AttemptFailsEffect DEF Control
<1>p. /\ pc' = [pc EXCEPT ![s] = q]
      /\ \A t \in Services : failed[t] => failed'[t]
      /\ \A t \in Services : t # s => pc'[t] = pc[t]
      /\ pc'[s] = q
  BY <1>q DEF GoesTo, TypeOK
<1>r. /\ q \in {"delete", "idle", "waiting", "sweeping"}
      /\ (q \in {"idle", "waiting"} => op[s] # "sweep") /\ (q = "sweeping" => op[s] = "sweep")
      /\ (q = "waiting" => op[s] = "deletewait")
  BY <1>0 DEF After
<1>1. TypeOK'
  <2>1. Hole(s, target[s], "unmapped") \in [service : Services, object : Objects, cause : Cause]
    BY <1>0, HoleType DEF Cause
  <2> QED BY <1>0, <1>q, <1>r, <2>1 DEF TypeOK, GoesTo, Control, cluster
<1>2. Located'
  BY <1>0, <1>p, <1>r DEF Located
<1>3. EmptyCache'
  BY <1>0, <1>p, <1>r DEF EmptyCache
<1>4. AbsentOnce'
  BY <1>0, <1>p, <1>r DEF AbsentOnce, Sweeping, cluster
<1>5. CachesEnsured'
  BY <1>0, <1>p, <1>r DEF CachesEnsured, Sweeping
<1>6. Tracked'
  BY <1>0 DEF Tracked, cluster
<1>7. Swept'
  BY <1>0, <1>p, <1>r DEF Swept, Cleaning, Sweeping
<1>8. SweepRecorded'
  <2> SUFFICES ASSUME NEW t \in Services, NEW o \in Objects, SweepHole(t, o)'
               PROVE  /\ op'[t] = "sweep"
                      /\ \/ failed'[t]
                         \/ InterruptedAsTimeout /\ expired'[t]
                         \/ Sweeping(t)' /\ target'[t] = o
                         \/ ~(phase'[o] = "live" /\ creator'[o] = t)
    BY DEF SweepRecorded
  <2>1. SweepHole(t, o) \/ (t = s /\ o = target[s] /\ op[s] = "sweep")
    BY <1>0 DEF SweepHole, Hole
  <2>2. CASE t = s /\ o = target[s] /\ op[s] = "sweep"
    BY <2>2, <1>0, <1>p, <1>q DEF Sweeping
  <2>3. CASE SweepHole(t, o) /\ ~(t = s /\ o = target[s])
    BY <2>3, <1>0, <1>p DEF SweepRecorded, Sweeping, cluster
  <2>4. CASE SweepHole(t, o) /\ t = s /\ o = target[s]
    BY <2>2, <2>4 DEF SweepRecorded
  <2> QED BY <2>1, <2>2, <2>3, <2>4
<1> QED BY <1>1, <1>2, <1>3, <1>4, <1>5, <1>6, <1>7, <1>8

(* Cleanup takes its snapshot: everything cached, nothing in a dry run,    *)
(* whose cache is empty.                                                   *)
LEMMA BeginCleanupInv ==
    ASSUME Inv, NEW s \in Services, BeginCleanup(s) PROVE Inv'
<1> USE DEF Inv
<1>0. /\ pc[s] = "idle" /\ op[s] # "sweep"
      /\ pc' = [pc EXCEPT ![s] = "sweeping"]
      /\ todo' = [todo EXCEPT ![s] = applied[s]]
      /\ UNCHANGED <<cluster, interrupted, op, target, created, retry, applied, expired,
                      failed, ops, holes>>
  BY DEF BeginCleanup, Located, EmptyCache
<1>1. TypeOK'
  BY <1>0 DEF TypeOK, Control, cluster
<1>2. Located' /\ EmptyCache'
  BY <1>0 DEF Located, EmptyCache, TypeOK
<1>3. AbsentOnce'
  BY <1>0 DEF AbsentOnce, Sweeping, TypeOK, cluster
<1>4. CachesEnsured'
  BY <1>0 DEF CachesEnsured, Sweeping, TypeOK
<1>5. Tracked'
  BY <1>0 DEF Tracked, cluster
<1>6. Swept'
  BY <1>0 DEF Swept, Cleaning, Sweeping, TypeOK
<1>7. SweepRecorded'
  BY <1>0 DEF SweepRecorded, SweepHole, Sweeping, TypeOK, cluster
<1> QED BY <1>1, <1>2, <1>3, <1>4, <1>5, <1>6, <1>7

LEMMA CleanupNextInv ==
    ASSUME Inv, NEW s \in Services, CleanupNext(s) PROVE Inv'
<1> USE DEF Inv
<1>0. /\ pc[s] = "sweeping"
      /\ UNCHANGED <<cluster, interrupted, created, applied, expired, failed, ops, holes>>
  BY DEF CleanupNext
<1>a. PICK o \in todo[s] :
        /\ op' = [op EXCEPT ![s] = "sweep"]
        /\ target' = [target EXCEPT ![s] = o]
        /\ retry' = [retry EXCEPT ![s] = FirstTry]
        /\ pc' = [pc EXCEPT ![s] = "delete"]
        /\ todo' = [todo EXCEPT ![s] = todo[s] \ {o}]
  BY DEF CleanupNext, Begin
<1>b. o \in Objects
  BY <1>a DEF TypeOK
<1>c. s \notin DryRun
  BY <1>a DEF EmptyCache
<1>1. TypeOK'
  <2>1. FirstTry \in RetryState
    BY DEF FirstTry, RetryState
  <2> QED BY <1>0, <1>a, <1>b, <2>1 DEF TypeOK, Control, Operation, cluster
<1>2. Located' /\ EmptyCache'
  BY <1>0, <1>a, <1>b, <1>c DEF Located, EmptyCache, TypeOK
<1>3. AbsentOnce'
  BY <1>0, <1>a DEF AbsentOnce, Sweeping, TypeOK, cluster
<1>4. CachesEnsured'
  BY <1>0, <1>a DEF CachesEnsured, Sweeping, TypeOK
<1>5. Tracked'
  BY <1>0 DEF Tracked, cluster
<1>6. Swept'
  BY <1>0, <1>a DEF Swept, Cleaning, Sweeping, TypeOK
<1>7. SweepRecorded'
  BY <1>0, <1>a DEF SweepRecorded, SweepHole, Sweeping, TypeOK, cluster
<1> QED BY <1>1, <1>2, <1>3, <1>4, <1>5, <1>6, <1>7

LEMMA FinishCleanupInv ==
    ASSUME Inv, NEW s \in Services, FinishCleanup(s) PROVE Inv'
<1> USE DEF Inv
<1>0. /\ pc[s] = "sweeping" /\ todo[s] = {}
      /\ pc' = [pc EXCEPT ![s] = "closed"]
      /\ UNCHANGED <<cluster, op, target, created, retry, todo, expired, ops, interrupted,
                      applied, failed, holes>>
  BY DEF FinishCleanup, SweepDone, caseVars
<1>1. TypeOK'
  BY <1>0 DEF TypeOK, Control, cluster
<1>2. Located' /\ EmptyCache'
  BY <1>0 DEF Located, EmptyCache, TypeOK
<1>3. AbsentOnce' /\ CachesEnsured'
  BY <1>0 DEF AbsentOnce, CachesEnsured, Sweeping, TypeOK, cluster
<1>4. Tracked' /\ Swept'
  BY <1>0 DEF Tracked, Swept, Cleaning, Sweeping, TypeOK, cluster
<1>5. SweepRecorded'
  BY <1>0 DEF SweepRecorded, SweepHole, Sweeping, TypeOK, cluster
<1> QED BY <1>1, <1>2, <1>3, <1>4, <1>5

(* The cluster changes by itself or by other clients. *)
LEMMA EnvironmentInv ==
    ASSUME Inv, NEW o \in Objects,
           ObjectGone(o) \/ OutsiderCreates(o) \/ OutsiderDeletes(o)
    PROVE  Inv'
<1> USE DEF Inv
<1>0. UNCHANGED <<op, target, created, retry, todo, expired, ops, pc, applied, failed,
                  holes, interrupted>>
  BY DEF ObjectGone, OutsiderCreates, OutsiderDeletes, Environment, caseVars
<1>c. /\ ClusterOK
      /\ \A x \in Objects : phase'[x] = "live" =>
            \/ phase[x] = "live" /\ creator'[x] = creator[x]
            \/ creator'[x] = "outsider"
  <2>k. TypeOK /\ AbsentOnce
    OBVIOUS
  <2>1. CASE ObjectGone(o)
    BY <2>1 DEF ObjectGone, SetPhase, ClusterOK, TypeOK, AbsentOnce, Phase
  <2>2. CASE OutsiderCreates(o)
    BY <2>2 DEF OutsiderCreates, SetPhase, ClusterOK, TypeOK, AbsentOnce, Phase
  <2>3. CASE OutsiderDeletes(o)
    BY <2>3, <2>k, DeleteEffect DEF OutsiderDeletes
  <2> QED BY <2>1, <2>2, <2>3
<1>o. \A t \in Services : t # "outsider"
  BY ServiceAssumption
<1>1. TypeOK'
  BY <1>0, <1>c DEF TypeOK, ClusterOK
<1>2. Located' /\ EmptyCache'
  BY <1>0 DEF Located, EmptyCache
<1>3. AbsentOnce'
  BY <1>0, <1>c DEF AbsentOnce, ClusterOK, Sweeping
<1>4. CachesEnsured' /\ Swept'
  BY <1>0 DEF CachesEnsured, Swept, Cleaning, Sweeping
<1>5. Tracked'
  BY <1>0, <1>c, <1>o DEF Tracked
<1>6. SweepRecorded'
  <2>1. \A t \in Services, x \in Objects :
          phase'[x] = "live" /\ creator'[x] = t => phase[x] = "live" /\ creator[x] = t
    BY <1>c, <1>o
  <2>2. \A t \in Services, x \in Objects : SweepHole(t, x)' => SweepHole(t, x)
    BY <1>0 DEF SweepHole
  <2>3. \A t \in Services : Sweeping(t) => Sweeping(t)'
    BY <1>0 DEF Sweeping
  <2> QED BY <1>0, <2>1, <2>2, <2>3 DEF SweepRecorded
<1> QED BY <1>1, <1>2, <1>3, <1>4, <1>5, <1>6
-----------------------------------------------------------------------------
LEMMA NextInv == Inv /\ [Next]_vars => Inv'
<1> SUFFICES ASSUME Inv, [Next]_vars PROVE Inv'
  OBVIOUS
<1>1. ASSUME NEW s \in Services, EnsureStep(s) PROVE Inv'
  BY <1>1, BeginInv, ProbeInv, ProbeFailsInv, ApplyInv, ApplyFailsInv, ApplyLostInv
  DEF EnsureStep
<1>2. ASSUME NEW s \in Services, DeleteStep(s) PROVE Inv'
  BY <1>2, BeginInv, DeleteRequestInv, DeleteFailsInv, UnmappedInv, WaitInv DEF DeleteStep
<1>3. ASSUME NEW s \in Services, CleanupStep(s) PROVE Inv'
  BY <1>3, BeginCleanupInv, CleanupNextInv, FinishCleanupInv DEF CleanupStep
<1>4. ASSUME NEW s \in Services, Start(s) PROVE Inv'
  BY <1>4, StartInv
<1>5. ASSUME NEW s \in Services, DryAction(s) \/ CleanupTimeout(s) PROVE Inv'
  BY <1>5, IdleInv
<1>6. ASSUME NEW o \in Objects, ObjectGone(o) \/ OutsiderCreates(o) \/ OutsiderDeletes(o)
      PROVE  Inv'
  BY <1>6, EnvironmentInv
<1>7. CASE Interrupt \/ UNCHANGED vars
  BY <1>7, IdleInv
<1> QED BY <1>1, <1>2, <1>3, <1>4, <1>5, <1>6, <1>7 DEF Next, ServiceStep, Done
-----------------------------------------------------------------------------
(* The variables keep their types: in particular Cleanup and the actions   *)
(* only ever work on objects of the cluster.                               *)
THEOREM TypeCorrect == Spec => []TypeOK
BY InitInv, NextInv, PTL DEF Spec, Inv

(* Whatever faults, outsiders, signals and parallel cases do, an object    *)
(* that outlives the case that created it was lost in one of the ways      *)
(* Cause lists.                                                            *)
THEOREM Explained == Spec => []LeaksExplained
<1>1. Inv => LeaksExplained
  <2> SUFFICES ASSUME Inv, NEW s \in Services, NEW o \in Objects, Leaked(s, o)
               PROVE  \E c \in Cause : Hole(s, o, c) \in holes
    BY DEF LeaksExplained
  <2>1. o \in applied[s] \/ \E c \in Cause : Hole(s, o, c) \in holes
    BY DEF Inv, Tracked, Leaked
  <2>2. ASSUME o \in applied[s]
        PROVE  \E c \in Cause : Hole(s, o, c) \in holes
    <3>1. Hole(s, o, "unmapped") \in holes
      BY <2>2 DEF Inv, Swept, Cleaning, Leaked, Sweeping
    <3> QED BY <3>1 DEF Cause
  <2> QED BY <2>1, <2>2
<1> QED BY InitInv, NextInv, <1>1, PTL DEF Spec

(* Cleanup never asks to delete a resource that was in the cluster all     *)
(* along.                                                                  *)
THEOREM Spared == Spec => []SparesPreexisting
<1>1. Inv => SparesPreexisting
  BY DEF Inv, AbsentOnce, SparesPreexisting
<1> QED BY InitInv, NextInv, <1>1, PTL DEF Spec

(* Cleanup never deletes the namespace of --namespace, in any number of    *)
(* parallel cases, unless a step ensures it.                               *)
THEOREM Kept == Spec => []NamespaceKept
<1>1. Inv => NamespaceKept
  BY DEF Inv, CachesEnsured, NamespaceKept
<1> QED BY InitInv, NextInv, <1>1, PTL DEF Spec

(* Cleanup tries every entry of the cache, whatever fails on the way. *)
THEOREM AllTried == Spec => []EveryEntryTried
<1>1. Inv => EveryEntryTried
  BY DEF Inv, Swept, Cleaning, Sweeping, EveryEntryTried
<1> QED BY InitInv, NextInv, <1>1, PTL DEF Spec

(* A case whose cleanup left something behind reports an error, unless the *)
(* retry loops hid the end of the cleanup context.                         *)
THEOREM Reported == Spec => []FailedSweepReported
<1>1. Inv => FailedSweepReported
  BY DEF Inv, SweepRecorded, SweepHole, Sweeping, Leaked, FailedSweepReported
<1> QED BY InitInv, NextInv, <1>1, PTL DEF Spec
-----------------------------------------------------------------------------
(* One case at a time and nobody else at work on the cluster: then whose   *)
(* an object is cannot change behind a service's back, whatever fails.     *)
OneAtATime == Parallel = 1 /\ ~Outsiders

Alone == \A s, t \in Running : s = t

(* What Ensure's probe did not find is still not there when it applies. *)
FreshProbe ==
    \A s \in Services : pc[s] = "apply" /\ created[s] => phase[target[s]] = "absent"

(* Cleanup of s has o before it: it is cached, in the snapshot or being    *)
(* deleted.                                                                *)
Held(s, o) ==
    \/ o \in applied[s]
    \/ (pc[s] = "sweeping" \/ Sweeping(s)) /\ o \in todo[s]
    \/ Sweeping(s) /\ o = target[s]

Owns(s) == \A o \in Objects : phase[o] = "live" /\ Held(s, o) => creator[o] = s

SoloInv == Alone /\ FreshProbe /\ \A s \in Running : Owns(s)

(* What kube_clean leaves out: no failing request, no lost reply other     *)
(* than that of an interrupted request, no cleanup timeout, no finalizers, *)
(* no two objects with one key, and no delete action in a run that may be  *)
(* interrupted.                                                            *)
Undisturbed ==
    /\ OneAtATime
    /\ CallErrors = {} /\ ~LostReplies /\ ~Expiry /\ Graceful = {}
    /\ \A a, b \in Objects : appliedKey(a) = appliedKey(b) => a = b
    /\ Interrupts => \A s \in Services : Deletes[s] = {}

(* The probe's answer, either way, still stands when Ensure applies. *)
ProbeStands ==
    \A s \in Services : pc[s] = "apply" =>
        (created[s] <=> phase[target[s]] = "absent")

(* No other hole than that of an apply interrupted in flight. *)
OnlyInterrupted(H) == \A h \in H : h.cause = "interrupted apply"

(* No context of a delete ends, and no object lingers. *)
CalmInv ==
    /\ OnlyInterrupted(holes)
    /\ ProbeStands
    /\ \A o \in Objects : phase[o] # "terminating"
    /\ \A s \in Services : ~expired[s]
    /\ interrupted => Interrupts
    /\ \A s \in Services : op[s] \in {"delete", "deletewait"} => Deletes[s] # {}
-----------------------------------------------------------------------------
(* A step of s moves the control point of s alone, and s runs or starts. *)
LEMMA OwnStep ==
    ASSUME TypeOK, NEW s \in Services, ServiceStep(s) \/ CleanupTimeout(s)
    PROVE  /\ \A t \in Services : t # s => pc'[t] = pc[t]
           /\ Start(s) \/ s \in Running
<1>1. \A v : Returns(s, v) => \E q : pc' = [pc EXCEPT ![s] = q]
  BY DEF Returns
<1>2. \A e, first : AttemptFails(s, e, first) => \E q : pc' = [pc EXCEPT ![s] = q]
  BY <1>1 DEF AttemptFails
<1>3. \A p, o, at : Begin(s, p, o, at) => \E q : pc' = [pc EXCEPT ![s] = q]
  BY DEF Begin
<1>4. \E q : pc' = [pc EXCEPT ![s] = q]
  <2>0. pc \in [Services -> Control]
    BY DEF TypeOK
  <2>u. pc' = pc => \E q : pc' = [pc EXCEPT ![s] = q]
    <3>1. pc = [pc EXCEPT ![s] = pc[s]]
      BY <2>0
    <3> QED BY <3>1
  <2>1. CASE Start(s)
    BY <2>1, <1>3 DEF Start
  <2>2. CASE DryAction(s) \/ CleanupTimeout(s)
    BY <2>2, <2>u DEF DryAction, CleanupTimeout
  <2>3. CASE EnsureStep(s)
    BY <2>3, <1>1, <1>2, <1>3 DEF EnsureStep, BeginEnsure, BeginAction, EnsureProbe,
       EnsureProbeFails, EnsureApply, EnsureApplyFails, EnsureApplyLost
  <2>4. CASE DeleteStep(s)
    BY <2>4, <1>1, <1>2, <1>3 DEF DeleteStep, BeginDelete, BeginAction, DeleteRequest,
       DeleteRequestFails, DeleteRequestLost, DeleteUnmapped, WaitSeesEvent, WaitFails
  <2>5. CASE CleanupStep(s)
    BY <2>5, <1>3 DEF CleanupStep, BeginCleanup, CleanupNext, FinishCleanup
  <2> QED BY <2>1, <2>2, <2>3, <2>4, <2>5 DEF ServiceStep
<1>5. Start(s) \/ pc[s] \notin {"new", "closed"}
  BY DEF ServiceStep, DryAction, CleanupTimeout, EnsureStep, BeginEnsure, BeginAction,
     EnsureProbe, EnsureProbeFails, EnsureApply, EnsureApplyFails, EnsureApplyLost, DeleteStep,
     BeginDelete, DeleteRequest, DeleteRequestFails, DeleteRequestLost, DeleteUnmapped,
     WaitSeesEvent, WaitFails, CleanupStep, BeginCleanup, CleanupNext, FinishCleanup
<1> QED BY <1>4, <1>5 DEF Running, TypeOK

(* While cases run one at a time, the one that made the last step is the   *)
(* only one that can be running after it.                                  *)
LEMMA OnlyRunner ==
    ASSUME OneAtATime, TypeOK, Alone, NEW s \in Services, ServiceStep(s) \/ CleanupTimeout(s)
    PROVE  \A t \in Services : t # s => pc[t] \in {"new", "closed"} /\ pc'[t] = pc[t]
<1>1. /\ \A t \in Services : t # s => pc'[t] = pc[t]
      /\ Start(s) \/ s \in Running
  BY OwnStep
<1>2. CASE s \in Running
  BY <1>1, <1>2 DEF Alone, Running
<1>3. CASE Start(s)
  <2>1. Cardinality(Running) < 1
    BY <1>3 DEF Start, OneAtATime
  <2>2. \A x \in Running : Running = {x}
    BY DEF Alone
  <2>3. \A x \in Running : FALSE
    <3> SUFFICES ASSUME NEW x \in Running PROVE FALSE
      OBVIOUS
    <3>1. Running = {x}
      BY <2>2
    <3>2. Cardinality({x}) = 1
      BY FS_Singleton
    <3> QED BY <2>1, <3>1, <3>2
  <2> QED BY <1>1, <2>3 DEF Running
<1> QED BY <1>1, <1>2, <1>3

(* Facts about the one that made the step are all there is to show. *)
LEMMA SoloStep ==
    ASSUME OneAtATime, TypeOK, SoloInv, NEW s \in Services,
           ServiceStep(s) \/ CleanupTimeout(s),
           pc'[s] = "apply" /\ created'[s] => phase'[target'[s]] = "absent",
           pc'[s] # "closed" => Owns(s)'
    PROVE  SoloInv'
<1>1. \A t \in Services : t # s => pc'[t] \in {"new", "closed"}
  BY OnlyRunner DEF SoloInv
<1>2. Alone'
  BY <1>1 DEF Alone, Running
<1>3. FreshProbe'
  BY <1>1 DEF FreshProbe
<1>4. \A t \in Running' : t = s /\ pc'[t] # "closed"
  BY <1>1 DEF Running
<1> QED BY <1>2, <1>3, <1>4 DEF SoloInv
(* A step that leaves the cluster and the cache alone, and adds nothing to *)
(* what Cleanup holds, keeps Owns.                                         *)
LEMMA OwnsKept ==
    ASSUME NEW s \in Services, Owns(s),
           UNCHANGED cluster,
           \A o \in Objects : Held(s, o)' => Held(s, o)
    PROVE  Owns(s)'
BY DEF Owns, cluster

(* A service that starts, or an ensure of the case, up to its apply. *)
LEMMA SoloEnsure ==
    ASSUME OneAtATime, Inv, SoloInv, NEW s \in Services,
           \/ Start(s) \/ DryAction(s) \/ BeginEnsure(s) \/ BeginDelete(s)
           \/ EnsureProbe(s) \/ EnsureProbeFails(s) \/ EnsureApplyFails(s)
    PROVE  SoloInv'
<1>s. ServiceStep(s) /\ TypeOK
  BY DEF ServiceStep, EnsureStep, DeleteStep, Inv
<1>0. UNCHANGED <<cluster, applied>>
  BY DEF Start, DryAction, BeginEnsure, BeginDelete, BeginAction, EnsureProbe,
     EnsureProbeFails, EnsureApplyFails
<1>1. CASE Start(s)
  <2>1. applied[s] = {} /\ pc'[s] \in {"probe", "idle"}
    BY <1>1 DEF Start, Begin, Inv, EmptyCache, TypeOK
  <2>2. Owns(s)'
    BY <1>0, <2>1 DEF Owns, Held, Sweeping
  <2> QED BY <1>s, <2>1, <2>2, SoloStep
<1>2. CASE DryAction(s)
  <2>1. UNCHANGED <<pc, op, target, created, todo>> /\ pc[s] = "idle"
    BY <1>2 DEF DryAction
  <2>2. Owns(s)
    BY <2>1 DEF SoloInv, Running
  <2>3. Owns(s)'
    BY <1>0, <2>1, <2>2, OwnsKept DEF Held, Sweeping
  <2> QED BY <1>s, <2>1, <2>3, SoloStep
<1>3. CASE BeginEnsure(s) \/ BeginDelete(s)
  <2>1. /\ pc[s] = "idle" /\ pc'[s] \in {"probe", "delete"}
        /\ op'[s] \in {"ensure", "delete", "deletewait"}
    BY <1>3 DEF BeginEnsure, BeginDelete, BeginAction, Begin, Inv, TypeOK
  <2>2. Owns(s)
    BY <2>1 DEF SoloInv, Running
  <2>3. Owns(s)'
    BY <1>0, <2>1, <2>2, OwnsKept DEF Held, Sweeping
  <2> QED BY <1>s, <2>1, <2>3, SoloStep
<1>4. CASE EnsureProbe(s)
  <2>1. /\ pc[s] = "probe" /\ pc'[s] = "apply" /\ UNCHANGED <<op, target, todo>>
        /\ created'[s] = (phase[target[s]] = "absent")
    BY <1>4 DEF EnsureProbe, Inv, TypeOK
  <2>2. Owns(s)
    BY <2>1 DEF SoloInv, Running
  <2>3. Owns(s)'
    BY <1>0, <2>1, <2>2, OwnsKept DEF Held, Sweeping
  <2>4. created'[s] => phase'[target'[s]] = "absent"
    BY <1>0, <2>1 DEF cluster
  <2> QED BY <1>s, <2>3, <2>4, SoloStep
<1>5. CASE EnsureProbeFails(s) \/ EnsureApplyFails(s)
  <2>1. pc[s] \in {"probe", "apply"} /\ UNCHANGED <<op, target, todo>>
    BY <1>5 DEF EnsureProbeFails, EnsureApplyFails
  <2>2. PICK e \in Errors(s) : AttemptFails(s, e, "probe")
    BY <1>5 DEF EnsureProbeFails, EnsureApplyFails
  <2>3. PICK q \in {"probe"} \cup After(s) : GoesTo(s, q)
    <3>1. e \in ErrorClass /\ "probe" \in Control
      BY ErrorsType DEF Control
    <3> QED BY <3>1, <2>2, <1>s, AttemptFailsEffect
  <2>4. pc'[s] \in {"probe", "idle", "closed"}
    <3>1. op[s] \in {"namespace", "ensure"}
      BY <2>1 DEF Inv, Located
    <3> QED BY <3>1, <2>3, <1>s DEF GoesTo, After, TypeOK
  <2>5. Owns(s)
    BY <2>1 DEF SoloInv, Running
  <2>6. Owns(s)'
    BY <1>0, <2>1, <2>4, <2>5, OwnsKept DEF Held, Sweeping
  <2> QED BY <1>s, <2>4, <2>6, SoloStep
<1> QED BY <1>1, <1>2, <1>3, <1>4, <1>5

(* The apply: what it creates and caches is the case's own.  The object of *)
(* --namespace comes before anything is cached.                            *)
LEMMA SoloApply ==
    ASSUME OneAtATime, Inv, SoloInv, NEW s \in Services,
           EnsureApply(s) \/ EnsureApplyLost(s)
    PROVE  SoloInv'
<1>s. ServiceStep(s) /\ TypeOK
  BY DEF ServiceStep, EnsureStep, Inv
<1>0. /\ pc[s] = "apply" /\ target[s] \in Objects /\ op[s] \in {"namespace", "ensure"}
      /\ ServerApply(target[s], CreatorOf(s))
      /\ UNCHANGED <<op, target, created, todo>>
  BY DEF EnsureApply, EnsureApplyLost, Inv, Located
<1>1. /\ Owns(s)
      /\ created[s] => phase[target[s]] = "absent"
      /\ op[s] = "namespace" => applied[s] = {}
  BY <1>0 DEF SoloInv, Running, FreshProbe, Inv, EmptyCache
<1>2. pc'[s] \in {"probe", "idle", "closed"}
  <2>1. CASE EnsureApply(s)
    <3>1. PICK q \in After(s) : GoesTo(s, q)
      BY <2>1, <1>s, ReturnsEffect DEF EnsureApply
    <3> QED BY <3>1, <1>0, <1>s DEF GoesTo, After, TypeOK
  <2>2. CASE EnsureApplyLost(s)
    <3>1. PICK e \in Errors(s) : AttemptFails(s, e, "probe")
      BY <2>2 DEF EnsureApplyLost
    <3>2. e \in ErrorClass /\ "probe" \in Control /\ TypeOK
      BY <3>1, <1>s, ErrorsType DEF Control
    <3>3. PICK q \in {"probe"} \cup After(s) : GoesTo(s, q)
      BY <3>1, <3>2, AttemptFailsEffect
    <3> QED BY <3>3, <1>0, <1>s DEF GoesTo, After, TypeOK
  <2> QED BY <2>1, <2>2
<1>3. applied'[s] = applied[s]
        \/ (op[s] = "ensure" /\ created[s] /\ applied'[s] \subseteq applied[s] \cup {target[s]})
  <2>1. CASE EnsureApply(s)
    BY <2>1, <1>s DEF EnsureApply, CacheIfCreated, Put, TypeOK
  <2>2. CASE EnsureApplyLost(s)
    BY <2>2 DEF EnsureApplyLost
  <2> QED BY <2>1, <2>2
<1>4. CreatorOf(s) \in Services \cup {"none", "kept", "outsider"}
  BY DEF CreatorOf
<1>5. \A x \in Objects : phase'[x] = "live" =>
          \/ phase[x] = "live" /\ creator'[x] = creator[x]
          \/ x = target[s] /\ phase[x] = "absent" /\ creator'[x] = CreatorOf(s)
  BY <1>0, <1>4, ApplyEffect DEF Inv
<1>6. Owns(s)'
  <2> SUFFICES ASSUME NEW o \in Objects, phase'[o] = "live", Held(s, o)'
               PROVE  creator'[o] = s
    BY DEF Owns
  <2>1. o \in applied'[s]
    BY <1>2 DEF Held, Sweeping
  <2>2. CASE o \in applied[s] /\ phase[o] = "live" /\ creator'[o] = creator[o]
    BY <2>2, <1>1 DEF Owns, Held
  <2>3. CASE o = target[s] /\ phase[o] = "absent" /\ creator'[o] = CreatorOf(s)
    BY <2>1, <2>3, <1>0, <1>1, <1>3 DEF CreatorOf
  <2>4. CASE o \notin applied[s]
    BY <2>1, <2>3, <2>4, <1>1, <1>3, <1>5
  <2> QED BY <2>2, <2>3, <2>4, <1>5
<1> QED BY <1>s, <1>2, <1>6, SoloStep

(* Delete and its wait take objects away, from the cluster and from the    *)
(* cache.                                                                  *)
LEMMA SoloDelete ==
    ASSUME OneAtATime, Inv, SoloInv, NEW s \in Services,
           \/ DeleteRequest(s) \/ DeleteRequestFails(s) \/ DeleteRequestLost(s)
           \/ DeleteUnmapped(s) \/ WaitSeesEvent(s) \/ WaitFails(s)
    PROVE  SoloInv'
<1>s. ServiceStep(s) /\ TypeOK
  BY DEF ServiceStep, DeleteStep, Inv
<1>0. /\ pc[s] \in {"delete", "waiting"} /\ target[s] \in Objects
      /\ op[s] \in {"delete", "deletewait", "sweep"} /\ (pc[s] = "waiting" => op[s] # "sweep")
      /\ UNCHANGED <<op, target, created, todo>>
      /\ ServerDelete(target[s]) \/ UNCHANGED cluster
  <2>1. pc[s] \in {"delete", "waiting"}
    BY DEF DeleteRequest, DeleteRequestFails, DeleteRequestLost, DeleteUnmapped,
       WaitSeesEvent, WaitFails
  <2>2. /\ UNCHANGED <<op, target, created, todo>>
        /\ ServerDelete(target[s]) \/ UNCHANGED cluster
    BY DEF DeleteRequest, DeleteRequestFails, DeleteRequestLost, DeleteUnmapped,
       WaitSeesEvent, WaitFails
  <2> QED BY <2>1, <2>2 DEF Inv, Located
<1>1. Owns(s)
  BY <1>0 DEF SoloInv, Running
<1>2. applied'[s] \subseteq applied[s]
  BY <1>s DEF DeleteRequest, DeleteRequestFails, DeleteRequestLost, DeleteUnmapped,
     WaitSeesEvent, WaitFails, DropFromCache, Remove, TypeOK
<1>3. \A x \in Objects : phase'[x] = "live" => phase[x] = "live" /\ creator'[x] = creator[x]
  <2>1. CASE UNCHANGED cluster
    BY <2>1 DEF cluster
  <2>2. CASE ServerDelete(target[s])
    BY <2>2, <1>0, DeleteEffect DEF Inv
  <2> QED BY <1>0, <2>1, <2>2
<1>4. /\ pc'[s] \in {"delete", "idle", "waiting", "sweeping"}
      /\ pc'[s] = "delete" => pc[s] = "delete"
      /\ pc'[s] = "sweeping" => Sweeping(s)
  <2>1. CASE DeleteRequest(s) \/ WaitSeesEvent(s) \/ WaitFails(s)
    <3>1. PICK v : Returns(s, v)
      BY <2>1 DEF DeleteRequest, WaitSeesEvent, WaitFails
    <3>2. PICK q \in After(s) : GoesTo(s, q)
      BY <3>1, <1>s, ReturnsEffect
    <3> QED BY <3>2, <1>0, <1>s DEF GoesTo, After, TypeOK, Sweeping
  <2>2. CASE DeleteRequestFails(s) \/ DeleteRequestLost(s) \/ DeleteUnmapped(s)
    <3>0. Errors(s) \subseteq ErrorClass /\ "other" \in ErrorClass /\ "delete" \in Control /\ TypeOK
      BY <1>s, ErrorsType DEF ErrorClass, Control
    <3>1. PICK e \in ErrorClass : AttemptFails(s, e, "delete")
      BY <2>2, <3>0 DEF DeleteRequestFails, DeleteRequestLost, DeleteUnmapped
    <3>2. PICK q \in {"delete"} \cup After(s) : GoesTo(s, q)
      BY <3>0, <3>1, AttemptFailsEffect
    <3>3. pc[s] = "delete"
      BY <2>2 DEF DeleteRequestFails, DeleteRequestLost, DeleteUnmapped
    <3> QED BY <3>2, <3>3, <1>0, <1>s DEF GoesTo, After, TypeOK, Sweeping
  <2> QED BY <2>1, <2>2
<1>5. \A o \in Objects : Held(s, o)' => Held(s, o)
  BY <1>0, <1>2, <1>4 DEF Held, Sweeping
<1>6. Owns(s)'
  BY <1>1, <1>3, <1>5 DEF Owns
<1> QED BY <1>s, <1>4, <1>6, SoloStep

(* Cleanup's snapshot is what was cached, its target one of the snapshot. *)
LEMMA SoloCleanup ==
    ASSUME OneAtATime, Inv, SoloInv, NEW s \in Services,
           BeginCleanup(s) \/ CleanupNext(s) \/ FinishCleanup(s) \/ CleanupTimeout(s)
    PROVE  SoloInv'
<1>s. (ServiceStep(s) \/ CleanupTimeout(s)) /\ TypeOK
  BY DEF ServiceStep, CleanupStep, Inv
<1>0. UNCHANGED <<cluster, applied>>
  BY DEF BeginCleanup, CleanupNext, FinishCleanup, CleanupTimeout
<1>1. Owns(s)
  BY DEF BeginCleanup, CleanupNext, FinishCleanup, CleanupTimeout, SoloInv, Running
<1>2. pc'[s] # "apply"
  BY <1>s DEF BeginCleanup, CleanupNext, FinishCleanup, CleanupTimeout, Begin, TypeOK
<1>3. CASE FinishCleanup(s)
  <2>1. pc'[s] = "closed"
    BY <1>3, <1>s DEF FinishCleanup, TypeOK
  <2> QED BY <1>s, <2>1, SoloStep
<1>4. CASE CleanupTimeout(s)
  <2>1. Owns(s)'
    BY <1>0, <1>1, <1>4, OwnsKept DEF CleanupTimeout, Held, Sweeping
  <2> QED BY <1>s, <1>2, <2>1, SoloStep
<1>5. CASE BeginCleanup(s)
  <2>1. /\ pc'[s] = "sweeping" /\ todo'[s] \subseteq applied[s] /\ UNCHANGED <<op, target>>
    BY <1>5, <1>s DEF BeginCleanup, TypeOK
  <2>2. Owns(s)'
    BY <1>0, <1>1, <2>1, OwnsKept DEF Held, Sweeping
  <2> QED BY <1>s, <1>2, <2>2, SoloStep
<1>6. CASE CleanupNext(s)
  <2>1. /\ pc[s] = "sweeping" /\ pc'[s] = "delete"
        /\ todo'[s] \subseteq todo[s] /\ target'[s] \in todo[s]
    BY <1>6, <1>s DEF CleanupNext, Begin, TypeOK
  <2>2. Owns(s)'
    BY <1>0, <1>1, <2>1, OwnsKept DEF Held, Sweeping
  <2> QED BY <1>s, <1>2, <2>2, SoloStep
<1> QED BY <1>3, <1>4, <1>5, <1>6

(* A finalizer that goes brings nothing to life. *)
LEMMA SoloEnvironment ==
    ASSUME OneAtATime, Inv, SoloInv,
           \/ \E o \in Objects : ObjectGone(o) \/ OutsiderCreates(o) \/ OutsiderDeletes(o)
           \/ Interrupt
           \/ UNCHANGED vars
    PROVE  SoloInv'
<1>0. UNCHANGED <<op, target, created, todo, pc, applied>>
  BY DEF ObjectGone, OutsiderCreates, OutsiderDeletes, Interrupt, Environment, caseVars, vars
<1>1. /\ \A x \in Objects : phase'[x] = "live" => phase[x] = "live" /\ creator'[x] = creator[x]
      /\ \A x \in Objects : phase[x] = "absent" => phase'[x] = "absent"
  <2>1. CASE Interrupt \/ UNCHANGED vars
    BY <2>1 DEF Interrupt, vars, cluster
  <2>2. CASE \E o \in Objects : ObjectGone(o)
    BY <2>2 DEF ObjectGone, SetPhase, Inv, TypeOK
  <2> QED BY <2>1, <2>2 DEF OneAtATime, OutsiderCreates, OutsiderDeletes
<1>2. Alone'
  BY <1>0 DEF SoloInv, Alone, Running
<1>3. FreshProbe'
  BY <1>0, <1>1 DEF SoloInv, FreshProbe, Inv, Located
<1>4. \A s \in Running' : Owns(s)'
  BY <1>0, <1>1 DEF SoloInv, Running, Owns, Held, Sweeping
<1> QED BY <1>2, <1>3, <1>4 DEF SoloInv

(* At the start no case runs. *)
LEMMA SoloInit == Init => SoloInv
<1> SUFFICES ASSUME Init PROVE SoloInv
  OBVIOUS
<1>1. Running = {}
  BY DEF Init, Running
<1> QED BY <1>1 DEF Init, SoloInv, Alone, FreshProbe

(* Every step keeps the sequential invariant. *)
LEMMA SoloNext ==
    ASSUME OneAtATime PROVE Inv /\ SoloInv /\ [Next]_vars => SoloInv'
<1> SUFFICES ASSUME Inv, SoloInv, [Next]_vars PROVE SoloInv'
  OBVIOUS
<1>1. ASSUME NEW s \in Services, ServiceStep(s) \/ CleanupTimeout(s) PROVE SoloInv'
  BY <1>1, SoloEnsure, SoloApply, SoloDelete, SoloCleanup
  DEF ServiceStep, EnsureStep, DeleteStep, CleanupStep
<1>2. CASE (\E o \in Objects : ObjectGone(o) \/ OutsiderCreates(o) \/ OutsiderDeletes(o))
             \/ Interrupt \/ UNCHANGED vars
  BY <1>2, SoloEnvironment
<1> QED BY <1>1, <1>2 DEF Next, Done

(* While cases run one at a time and no other client is at work, Cleanup   *)
(* deletes only what its own case created, whatever requests fail, replies *)
(* get lost, keys clash or contexts end.                                   *)
THEOREM OwnOnly ==
    ASSUME OneAtATime PROVE Spec => []CleanupOnlyOwn
<1>1. Inv /\ SoloInv => CleanupOnlyOwn
  BY DEF Inv, Located, SoloInv, Running, Owns, Held, Sweeping, CleanupOnlyOwn
<1>2. Inv /\ SoloInv /\ [Next]_vars => SoloInv'
  BY SoloNext
<1> QED BY InitInv, NextInv, SoloInit, <1>1, <1>2, PTL DEF Spec
-----------------------------------------------------------------------------
(* No delete of an undisturbed run fails: its context has not ended.  The  *)
(* run context may have, but then no step deletes.                         *)
LEMMA DeletesSucceed ==
    ASSUME Undisturbed, Inv, CalmInv, NEW s \in Services, pc[s] = "delete"
    PROVE  Errors(s) = {} /\ "other" \notin CallErrors
<1>1. op[s] \in {"delete", "deletewait", "sweep"}
  BY DEF Inv, Located
<1>2. CASE op[s] = "sweep"
  BY <1>2 DEF Undisturbed, CalmInv, Errors, ContextEnded
<1>3. CASE op[s] \in {"delete", "deletewait"}
  <2>1. ~interrupted
    BY <1>3 DEF Undisturbed, CalmInv
  <2> QED BY <1>3, <2>1 DEF Undisturbed, Errors, ContextEnded
<1> QED BY <1>1, <1>2, <1>3

(* What the contexts and the operations are, after any step. *)
LEMMA CalmContexts ==
    ASSUME Undisturbed, Inv, CalmInv, [Next]_vars
    PROVE  /\ \A t \in Services : ~expired'[t]
           /\ interrupted' => Interrupts
           /\ \A t \in Services : op'[t] \in {"delete", "deletewait"} => Deletes[t] # {}
<1>t. TypeOK /\ ~Expiry
  BY DEF Inv, Undisturbed
<1>c. /\ \A t \in Services : ~expired[t]
      /\ interrupted => Interrupts
      /\ \A t \in Services : op[t] \in {"delete", "deletewait"} => Deletes[t] # {}
  BY DEF CalmInv
<1>1. ASSUME NEW s \in Services, Start(s) \/ DryAction(s)
      PROVE  /\ UNCHANGED <<expired, interrupted>>
             /\ op' = op \/ op' = [op EXCEPT ![s] = "namespace"]
  BY <1>1 DEF Start, DryAction, Begin
<1>2. ASSUME NEW s \in Services, EnsureStep(s)
      PROVE  /\ UNCHANGED <<expired, interrupted>>
             /\ op' = op \/ op' = [op EXCEPT ![s] = "ensure"]
  BY <1>2 DEF EnsureStep, BeginEnsure, BeginAction, Begin, EnsureProbe, EnsureProbeFails,
     EnsureApply, EnsureApplyFails, EnsureApplyLost
<1>3. ASSUME NEW s \in Services, DeleteStep(s)
      PROVE  /\ UNCHANGED <<expired, interrupted>>
             /\ \/ op' = op
                \/ Deletes[s] # {} /\ \E p : op' = [op EXCEPT ![s] = p]
  BY <1>3 DEF DeleteStep, BeginDelete, BeginAction, Begin, DeleteRequest, DeleteRequestFails,
     DeleteRequestLost, DeleteUnmapped, WaitSeesEvent, WaitFails
<1>4. ASSUME NEW s \in Services, CleanupStep(s)
      PROVE  /\ UNCHANGED <<expired, interrupted>>
             /\ op' = op \/ op' = [op EXCEPT ![s] = "sweep"]
  BY <1>4 DEF CleanupStep, BeginCleanup, CleanupNext, Begin, FinishCleanup, caseVars
<1>5. ASSUME NEW s \in Services, CleanupTimeout(s) PROVE FALSE
  BY <1>5, <1>t DEF CleanupTimeout
<1>6. ASSUME NEW o \in Objects, ObjectGone(o) \/ OutsiderCreates(o) \/ OutsiderDeletes(o)
      PROVE  UNCHANGED <<expired, interrupted, op>>
  BY <1>6 DEF ObjectGone, OutsiderCreates, OutsiderDeletes, Environment, caseVars
<1>7. CASE Interrupt
  BY <1>7, <1>c DEF Interrupt, Environment, caseVars
<1>8. CASE UNCHANGED vars
  BY <1>8, <1>c DEF vars, caseVars
<1>9. ASSUME NEW s \in Services, UNCHANGED <<expired, interrupted>>,
             \/ op' = op
             \/ \E p : op' = [op EXCEPT ![s] = p]
                          /\ (p \in {"delete", "deletewait"} => Deletes[s] # {})
      PROVE  /\ \A t \in Services : ~expired'[t]
             /\ interrupted' => Interrupts
             /\ \A t \in Services : op'[t] \in {"delete", "deletewait"} => Deletes[t] # {}
  BY <1>9, <1>c, <1>t DEF TypeOK
<1>10. ASSUME NEW s \in Services, ServiceStep(s)
       PROVE  /\ \A t \in Services : ~expired'[t]
              /\ interrupted' => Interrupts
              /\ \A t \in Services : op'[t] \in {"delete", "deletewait"} => Deletes[t] # {}
  BY <1>10, <1>1, <1>2, <1>3, <1>4, <1>9 DEF ServiceStep
<1> QED BY <1>5, <1>6, <1>7, <1>8, <1>10, <1>c DEF Next, Done

(* Only its probe brings a service to its apply. *)
LEMMA ReachesApply ==
    ASSUME TypeOK, NEW s \in Services, ServiceStep(s), pc'[s] = "apply"
    PROVE  EnsureProbe(s)
<1>0. pc \in [Services -> Control] /\ "apply" \notin After(s)
  BY DEF TypeOK, After
<1>1. \A v : ~Returns(s, v)
  BY <1>0, ReturnsEffect DEF GoesTo
<1>2. \A e \in ErrorClass, first \in {"probe", "delete"} : ~AttemptFails(s, e, first)
  BY <1>0, AttemptFailsEffect DEF GoesTo, Control
<1>3. \A e \in Errors(s) : e \in ErrorClass
  BY ErrorsType
<1>4. "other" \in ErrorClass
  BY DEF ErrorClass
<1>5. ~Start(s) /\ ~DryAction(s) /\ ~BeginEnsure(s) /\ ~BeginDelete(s) /\ ~CleanupStep(s)
  BY <1>0 DEF Start, DryAction, BeginEnsure, BeginDelete, BeginAction, Begin, CleanupStep,
     BeginCleanup, CleanupNext, FinishCleanup
<1>6. ~DeleteStep(s)
  BY <1>1, <1>2, <1>3, <1>4, <1>5 DEF DeleteStep, DeleteRequest, DeleteRequestFails,
     DeleteRequestLost, DeleteUnmapped, WaitSeesEvent, WaitFails
<1>7. EnsureStep(s) => EnsureProbe(s)
  BY <1>1, <1>2, <1>3, <1>5 DEF EnsureStep, EnsureProbeFails, EnsureApply, EnsureApplyFails,
     EnsureApplyLost
<1> QED BY <1>5, <1>6, <1>7 DEF ServiceStep

(* A step of a service opens no hole but that of an interrupted apply, and *)
(* leaves no object lingering.                                             *)
LEMMA CalmService ==
    ASSUME Undisturbed, Inv, SoloInv, CalmInv, NEW s \in Services, ServiceStep(s)
    PROVE  OnlyInterrupted(holes') /\ ProbeStands' /\ \A o \in Objects : phase'[o] # "terminating"
<1>t. TypeOK /\ OneAtATime
  BY DEF Inv, Undisturbed
<1>c. OnlyInterrupted(holes) /\ \A o \in Objects : phase[o] # "terminating"
  BY DEF CalmInv
<1>1. ProbeStands'
  <2>1. \A t \in Services : t # s => pc'[t] \in {"new", "closed"}
    BY <1>t, OnlyRunner DEF SoloInv
  <2>2. ASSUME EnsureProbe(s)
        PROVE  created'[s] <=> phase'[target'[s]] = "absent"
    BY <2>2, <1>t DEF EnsureProbe, TypeOK, cluster
  <2>3. pc'[s] = "apply" => (created'[s] <=> phase'[target'[s]] = "absent")
    BY <2>2, <1>t, ReachesApply
  <2> QED BY <2>1, <2>3 DEF ProbeStands
<1>2. CASE EnsureApply(s)
  <2>0. /\ pc[s] = "apply" /\ target[s] \in Objects /\ applied[s] \subseteq Objects
        /\ (created[s] <=> phase[target[s]] = "absent")
    BY <1>2, <1>t DEF EnsureApply, Inv, Located, CalmInv, ProbeStands, TypeOK
  <2>1. applied[s] \ CacheIfCreated(s) = {}
    <3>1. \A x \in applied[s] : appliedKey(x) = appliedKey(target[s]) => x = target[s]
      BY <2>0 DEF Undisturbed
    <3> QED BY <3>1 DEF CacheIfCreated, Put
  <2>2. holes' = holes
    BY <1>2, <2>0, <2>1 DEF EnsureApply
  <2>3. ServerApply(target[s], CreatorOf(s))
    BY <1>2 DEF EnsureApply
  <2>4. \A o \in Objects : phase'[o] # "terminating"
    BY <1>c, <1>t, <2>0, <2>3 DEF ServerApply, SetPhase, cluster, TypeOK
  <2> QED BY <1>1, <1>c, <2>2, <2>4
<1>3. CASE DeleteRequest(s)
  <2>0. target[s] \in Objects /\ applied[s] \subseteq Objects /\ ServerDelete(target[s])
    BY <1>3, <1>t DEF DeleteRequest, Inv, Located, TypeOK
  <2>1. Clashing(applied[s], target[s]) = {}
    BY <2>0 DEF Clashing, Undisturbed
  <2>2. holes' = holes
    BY <1>3, <2>1 DEF DeleteRequest, DropHoles
  <2>3. \A o \in Objects : phase'[o] # "terminating"
    BY <1>c, <1>t, <2>0 DEF ServerDelete, SetPhase, cluster, TypeOK, Undisturbed
  <2> QED BY <1>1, <1>c, <2>2, <2>3
<1>4. CASE EnsureApplyLost(s)
  <2>0. target[s] \in Objects /\ ServerApply(target[s], CreatorOf(s))
    BY <1>4 DEF EnsureApplyLost, Inv, Located
  <2>1. ContextEnded(s)
    BY <1>4 DEF EnsureApplyLost, MayBeLost, Undisturbed
  <2>2. holes' \subseteq holes \cup {Hole(s, target[s], "interrupted apply")}
    BY <1>4, <2>1 DEF EnsureApplyLost
  <2>3. OnlyInterrupted(holes')
    <3>1. Hole(s, target[s], "interrupted apply").cause = "interrupted apply"
      BY DEF Hole
    <3> QED BY <1>c, <2>2, <3>1 DEF OnlyInterrupted
  <2>4. \A o \in Objects : phase'[o] # "terminating"
    BY <1>c, <1>t, <2>0 DEF ServerApply, SetPhase, cluster, TypeOK
  <2> QED BY <1>1, <2>3, <2>4
<1>5. ~DeleteRequestFails(s) /\ ~DeleteRequestLost(s) /\ ~DeleteUnmapped(s)
  BY DeletesSucceed DEF DeleteRequestFails, DeleteRequestLost, DeleteUnmapped
<1>6. CASE ~EnsureApply(s) /\ ~EnsureApplyLost(s) /\ ~DeleteRequest(s)
  <2>1. UNCHANGED <<cluster, holes>>
    BY <1>5, <1>6 DEF ServiceStep, Start, DryAction, EnsureStep, BeginEnsure,
       BeginAction, EnsureProbe, EnsureProbeFails, EnsureApplyFails, DeleteStep, BeginDelete,
       WaitSeesEvent, WaitFails, CleanupStep, BeginCleanup, CleanupNext, FinishCleanup
  <2> QED BY <1>1, <1>c, <2>1 DEF cluster
<1> QED BY <1>2, <1>3, <1>4, <1>6

(* Every step of an undisturbed run keeps it free of other holes. *)
LEMMA CalmNext ==
    ASSUME Undisturbed PROVE Inv /\ SoloInv /\ CalmInv /\ [Next]_vars => CalmInv'
<1> SUFFICES ASSUME Inv, SoloInv, CalmInv, [Next]_vars PROVE CalmInv'
  OBVIOUS
<1>1. /\ \A t \in Services : ~expired'[t]
      /\ interrupted' => Interrupts
      /\ \A t \in Services : op'[t] \in {"delete", "deletewait"} => Deletes[t] # {}
  BY CalmContexts
<1>2. OnlyInterrupted(holes') /\ ProbeStands' /\ \A o \in Objects : phase'[o] # "terminating"
  <2>1. CASE \E s \in Services : ServiceStep(s)
    BY <2>1, CalmService
  <2>2. CASE (\E s \in Services : CleanupTimeout(s)) \/ Interrupt \/ UNCHANGED vars
    <3>1. UNCHANGED <<phase, pc, created, target, holes>>
      BY <2>2 DEF CleanupTimeout, Interrupt, Environment, caseVars, cluster, vars
    <3> QED BY <3>1 DEF CalmInv, ProbeStands
  <2>3. \A o \in Objects : ~ObjectGone(o) /\ ~OutsiderCreates(o) /\ ~OutsiderDeletes(o)
    BY DEF CalmInv, ObjectGone, OutsiderCreates, OutsiderDeletes, Undisturbed, OneAtATime
  <2> QED BY <2>1, <2>2, <2>3 DEF Next, Done
<1> QED BY <1>1, <1>2 DEF CalmInv, OnlyInterrupted

(* At the start there are no holes and no operations. *)
LEMMA CalmInit == Init => CalmInv
<1> SUFFICES ASSUME Init PROVE CalmInv
  OBVIOUS
<1>1. \A o \in Objects : phase[o] # "terminating"
  BY DEF Init
<1> QED BY <1>1 DEF Init, CalmInv, ProbeStands, OnlyInterrupted

(* In an undisturbed run nothing a case created outlives it, also when the *)
(* run is interrupted at any moment, because the cleanup context is its    *)
(* own; except for what an apply created that was interrupted in flight.   *)
THEOREM NothingLeaks ==
    ASSUME Undisturbed PROVE Spec => []NoLeak
<1>1. Inv /\ CalmInv => NoLeak
  <2> SUFFICES ASSUME Inv, CalmInv, NEW s \in Services, NEW o \in Objects, Leaked(s, o)
               PROVE  Hole(s, o, "interrupted apply") \in holes
    BY DEF NoLeak
  <2>1. \A c \in Cause : Hole(s, o, c) \in holes => c = "interrupted apply"
    BY DEF CalmInv, OnlyInterrupted, Hole
  <2>2. o \notin applied[s]
    <3>1. Hole(s, o, "unmapped") \notin holes
      BY <2>1 DEF Cause
    <3> QED BY <3>1 DEF Inv, Swept, Cleaning, Sweeping, Leaked
  <2>3. PICK c \in Cause : Hole(s, o, c) \in holes
    BY <2>2 DEF Inv, Tracked, Leaked
  <2> QED BY <2>1, <2>3
<1>2. OneAtATime
  BY DEF Undisturbed
<1>3. Inv /\ SoloInv /\ [Next]_vars => SoloInv'
  BY <1>2, SoloNext
<1>4. Inv /\ SoloInv /\ CalmInv /\ [Next]_vars => CalmInv'
  BY CalmNext
<1> QED BY InitInv, NextInv, SoloInit, CalmInit, <1>1, <1>3, <1>4, PTL DEF Spec
=============================================================================

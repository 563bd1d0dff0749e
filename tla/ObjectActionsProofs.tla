------------------------- MODULE ObjectActionsProofs -------------------------
(***************************************************************************)
(* The actions patch, wait, assert and exec, proved for every number of    *)
(* attempts, conditions, pods and changes by others.                       *)
(***************************************************************************)
EXTENDS ObjectActions, RetryProofs

Object == [version : Nat, others : SUBSET Nat, patched : Nat, holds : SUBSET Conditions]

(* Each place belongs to the action that goes there, a call under way has  *)
(* something to do and no result, and only wait and exec run out of time.  *)
PlaceInv ==
    /\ pc = "get" => call.op \in {"patch", "assert"}
    /\ pc = "update" => call.op = "patch"
    /\ pc = "poll" => call.op = "wait"
    /\ pc = "judge" => call.op \in {"wait", "assert"}
    /\ pc \in {"resolve", "stream"} => call.op = "exec"
    /\ Called => ~NothingToDo
    /\ pc # "done" => result = "none"
    /\ ended = "deadline" => HasDeadline

(* A version of the object names one content: this is what makes           *)
(* optimistic concurrency work.                                            *)
VersionInv ==
    /\ live \in Object /\ seen \in Object
    /\ live.version < NextVersion /\ seen.version < NextVersion
    /\ live.version = 0 => live = Absent
    /\ seen.version = 0 => seen = Absent
    /\ live.version = seen.version => live = seen

(* What holds of the object now, and of the object to be judged, is among  *)
(* what held during the call.                                              *)
HeldInv ==
    /\ Called /\ live # Absent => live.holds \in held
    /\ pc = "judge" => seen.holds \in held

(* Every effect has used up one of the user's attempts but the one under   *)
(* way; every conflict in a row is owed to a change by others.             *)
TryInv ==
    /\ pc # "done" => effects <= retry.outer /\ retry.outer < BackoffSteps(call.attempts)
    /\ retry.inn <= changes
    /\ pc = "update" /\ live # seen => retry.inn < changes

Inv ==
    /\ TypeOK /\ PlaceInv /\ VersionInv /\ HeldInv /\ TryInv
    /\ EffectsBounded /\ SuccessIsReal /\ ConflictAbsorbed /\ JudgedTogether
-----------------------------------------------------------------------------
(* The operators the model is built from. *)

(* The bound on attempts, and the retry state's counters, are numbers. *)
LEMMA Numbers ==
    ASSUME TypeOK
    PROVE  /\ call.attempts \in Nat /\ BackoffSteps(call.attempts) \in Nat \ {0}
           /\ retry \in RetryState /\ retry.outer \in Nat /\ retry.mid \in Nat /\ retry.inn \in Nat
           /\ changes \in Nat /\ effects \in Nat /\ NextVersion \in Nat \ {0, 1}
           /\ DefaultSteps \in Nat \ {0}
<1>1. call.attempts \in Nat
  BY ObjectActionsAssumption DEF TypeOK, Calls
<1>2. BackoffSteps(call.attempts) \in Nat \ {0}
  BY <1>1 DEF BackoffSteps
<1>3. retry \in RetryState /\ retry.outer \in Nat /\ retry.mid \in Nat /\ retry.inn \in Nat
  BY DEF TypeOK, RetryState
<1>4. changes \in Nat /\ effects \in Nat /\ NextVersion \in Nat \ {0, 1}
  BY ObjectActionsAssumption DEF TypeOK, NextVersion
<1> QED BY <1>1, <1>2, <1>3, <1>4, RetryAssumption

(* What a failing try of patch leads to: only a conflict is repeated by    *)
(* the inner loop, any other error costs one of the user's attempts; nil   *)
(* and a conflict come out only as said (Patch's two OnError loops).       *)
LEMMA AfterPatchTry ==
    ASSUME NEW r \in RetryState, NEW n \in Int, NEW e \in {"unavailable", "context", "other"}
    PROVE  LET a == AfterError(r, n, e)
           IN  \/ /\ a = CallAgain([r EXCEPT !.inn = r.inn + 1])
                  /\ e = "unavailable" /\ r.inn + 1 < DefaultSteps
               \/ /\ a = CallAgain([outer |-> r.outer + 1, mid |-> 0, inn |-> 0])
                  /\ r.outer + 1 < BackoffSteps(n)
               \/ a = Return(r, Nil) /\ InterruptedAsTimeout /\ e = "context"
               \/ /\ a = Return(r, "unavailable")
                  /\ \/ e = "unavailable" /\ ~(r.inn + 1 < DefaultSteps)
                     \/ e = "context"
               \/ a = Return(r, e) /\ e # "unavailable"
<1>1. CASE InnerRetries(r, e)
  BY <1>1 DEF AfterError, InnerRetries
<1>2. CASE ~InnerRetries(r, e)
  <2> DEFINE up == InnerResult(r, e)
  <2>1. /\ up \in {Nil, "unavailable", "context", "other"} /\ up # "timeout"
        /\ up = Nil => InterruptedAsTimeout /\ e = "context"
        /\ up = "unavailable" => e \in {"unavailable", "context"}
        /\ up \in {"context", "other"} => up = e
    BY DEF InnerResult, Nil
  <2>2. e = "unavailable" => ~(r.inn + 1 < DefaultSteps)
    BY <1>2 DEF InnerRetries
  <2>3. AfterError(r, n, e) =
           IF up = Nil THEN Return(r, Nil)
           ELSE IF OuterRetries(r, n)
                THEN CallAgain([outer |-> r.outer + 1, mid |-> 0, inn |-> 0])
           ELSE Return(r, up)
    BY <1>2, <2>1 DEF AfterError, MidRetries
  <2> HIDE DEF up
  <2>4. CASE up = Nil
    BY <2>1, <2>3, <2>4
  <2>5. CASE up # Nil /\ OuterRetries(r, n)
    BY <2>3, <2>5 DEF OuterRetries
  <2>6. CASE up # Nil /\ ~OuterRetries(r, n) /\ up = "unavailable"
    BY <2>1, <2>2, <2>3, <2>6
  <2>7. CASE up # Nil /\ ~OuterRetries(r, n) /\ up # "unavailable"
    BY <2>1, <2>3, <2>7
  <2> QED BY <2>4, <2>5, <2>6, <2>7
<1> QED BY <1>1, <1>2

(* A failing try, as the rest of the call sees it. *)
LEMMA FailedTry ==
    ASSUME TypeOK, NEW e \in {"conflict", "context", "other"}, TryFails(e),
           e = "conflict" => call.op = "patch"
    PROVE  \/ /\ pc' = FirstPlace[call.op] /\ result' = result
              /\ retry' \in RetryState
              /\ retry'.outer = retry.outer /\ retry'.inn = retry.inn + 1
              /\ e = "conflict" /\ retry.inn + 1 < DefaultSteps
           \/ /\ pc' = FirstPlace[call.op] /\ result' = result
              /\ retry' \in RetryState
              /\ retry'.outer = retry.outer + 1 /\ retry.outer + 1 < BackoffSteps(call.attempts)
              /\ retry'.inn \in {0, retry.inn}
           \/ /\ pc' = "done" /\ retry' = retry
              /\ \/ result' = Nil /\ call.op = "patch" /\ InterruptedAsTimeout /\ e = "context"
                 \/ /\ result' = "conflict" /\ call.op = "patch"
                    /\ \/ e = "conflict" /\ ~(retry.inn + 1 < DefaultSteps)
                       \/ e = "context"
                 \/ result' = e /\ e # "conflict"
<1> DEFINE a == AfterTry(e)
<1>0. /\ call.attempts \in Nat
      /\ retry \in RetryState /\ retry.outer \in Nat /\ retry.mid \in Nat /\ retry.inn \in Nat
  BY Numbers
<1>1. /\ retry' = a.state
      /\ a.again => pc' = FirstPlace[call.op] /\ result' = result
      /\ ~a.again => /\ pc' = "done"
                     /\ result' = IF a.result = "unavailable" THEN "conflict" ELSE a.result
  BY DEF TryFails, AgainAt, Finish
<1>2. CASE call.op = "patch"
  <2> DEFINE f == IF e = "conflict" THEN "unavailable" ELSE e
  <2>1. a = AfterError(retry, call.attempts, f) /\ f \in {"unavailable", "context", "other"}
    BY <1>2 DEF AfterTry
  <2>2. f = "unavailable" <=> e = "conflict"
    OBVIOUS
  <2>3. f # "unavailable" => f = e
    OBVIOUS
  <2> HIDE DEF a, f
  <2>4. \/ /\ a = CallAgain([retry EXCEPT !.inn = retry.inn + 1])
           /\ f = "unavailable" /\ retry.inn + 1 < DefaultSteps
        \/ /\ a = CallAgain([outer |-> retry.outer + 1, mid |-> 0, inn |-> 0])
           /\ retry.outer + 1 < BackoffSteps(call.attempts)
        \/ a = Return(retry, Nil) /\ InterruptedAsTimeout /\ f = "context"
        \/ /\ a = Return(retry, "unavailable")
           /\ \/ f = "unavailable" /\ ~(retry.inn + 1 < DefaultSteps)
              \/ f = "context"
        \/ a = Return(retry, f) /\ f # "unavailable"
    BY <1>0, <2>1, AfterPatchTry
  <2>5. CASE /\ a = CallAgain([retry EXCEPT !.inn = retry.inn + 1])
             /\ f = "unavailable" /\ retry.inn + 1 < DefaultSteps
    <3>1. retry' = [retry EXCEPT !.inn = retry.inn + 1] /\ a.again
      BY <1>1, <2>5 DEF CallAgain
    <3>2. retry' \in RetryState /\ retry'.outer = retry.outer /\ retry'.inn = retry.inn + 1
      BY <1>0, <3>1 DEF RetryState
    <3> QED BY <1>1, <2>2, <2>5, <3>1, <3>2
  <2>6. CASE /\ a = CallAgain([outer |-> retry.outer + 1, mid |-> 0, inn |-> 0])
             /\ retry.outer + 1 < BackoffSteps(call.attempts)
    <3>1. retry' = [outer |-> retry.outer + 1, mid |-> 0, inn |-> 0] /\ a.again
      BY <1>1, <2>6 DEF CallAgain
    <3>2. retry' \in RetryState /\ retry'.outer = retry.outer + 1 /\ retry'.inn = 0
      BY <1>0, <3>1 DEF RetryState
    <3> QED BY <1>1, <2>6, <3>1, <3>2
  <2>7. CASE a = Return(retry, Nil) /\ InterruptedAsTimeout /\ f = "context"
    BY <1>1, <1>2, <2>2, <2>3, <2>7 DEF Return, Nil
  <2>8. CASE /\ a = Return(retry, "unavailable")
             /\ \/ f = "unavailable" /\ ~(retry.inn + 1 < DefaultSteps)
                \/ f = "context"
    BY <1>1, <1>2, <2>2, <2>3, <2>8 DEF Return
  <2>9. CASE a = Return(retry, f) /\ f # "unavailable"
    BY <1>1, <2>2, <2>3, <2>9 DEF Return
  <2> QED BY <2>4, <2>5, <2>6, <2>7, <2>8, <2>9
<1>3. CASE call.op # "patch"
  <2>1. a = IF OuterRetries(retry, call.attempts)
            THEN CallAgain([retry EXCEPT !.outer = retry.outer + 1])
            ELSE Return(retry, e)
    BY <1>3 DEF AfterTry
  <2> HIDE DEF a
  <2>2. CASE OuterRetries(retry, call.attempts)
    <3>1. retry' = [retry EXCEPT !.outer = retry.outer + 1] /\ a.again
      BY <1>1, <2>1, <2>2 DEF CallAgain
    <3>2. retry' \in RetryState /\ retry'.outer = retry.outer + 1 /\ retry'.inn = retry.inn
      BY <1>0, <3>1 DEF RetryState
    <3> QED BY <1>1, <2>2, <3>1, <3>2 DEF OuterRetries
  <2>3. CASE ~OuterRetries(retry, call.attempts)
    BY <1>1, <1>3, <2>1, <2>3 DEF Return
  <2> QED BY <2>2, <2>3
<1> QED BY <1>2, <1>3

(* The conditions a call names are conditions. *)
LEMMA NamedConditions ==
    ASSUME NEW c \in Calls
    PROVE  {c.conditions[k] : k \in DOMAIN c.conditions} \subseteq Conditions
<1>1. c.conditions \in {<<>>} \cup {<<d>> : d \in Conditions} \cup {<<d, f>> : d, f \in Conditions}
  BY DEF Calls
<1>2. CASE c.conditions = <<>>
  BY <1>2
<1>3. ASSUME NEW d \in Conditions, c.conditions = <<d>> PROVE c.conditions \in [1 .. 1 -> Conditions]
  BY <1>3
<1>4. ASSUME NEW d \in Conditions, NEW f \in Conditions, c.conditions = <<d, f>>
      PROVE  c.conditions \in [1 .. 2 -> Conditions]
  BY <1>4
<1> QED BY <1>1, <1>2, <1>3, <1>4
-----------------------------------------------------------------------------
(* The inductive invariant. *)

(* A missing object is one. *)
LEMMA AbsentType == Absent \in Object
BY DEF Absent, Object

(* Before the action starts nothing has been read or done. *)
LEMMA InitInv == Init => Inv
<1> SUFFICES ASSUME Init PROVE Inv
  OBVIOUS
<1>a. /\ pc = "delay" /\ retry = FirstTry /\ seen = Absent /\ pod = 0 /\ ended = "no"
      /\ result = "none" /\ changes = 0 /\ held = {} /\ effects = 0 /\ exited = FALSE
      /\ phase = [k \in DOMAIN Pods |-> "Running"]
  BY DEF Init
<1>b. call \in Calls
  BY DEF Init
<1> DEFINE N == {call.conditions[k] : k \in DOMAIN call.conditions}
<1>c. \/ live = Absent
      \/ \E h \in SUBSET N : live = [Absent EXCEPT !.version = 1, !.holds = h]
  BY Zenon DEF Init
<1>0. call.attempts \in Nat /\ N \subseteq Conditions
  <2>1. call.attempts \in 0 .. MaxAttempts
    BY <1>b DEF Calls
  <2> QED BY <1>b, <2>1, NamedConditions, ObjectActionsAssumption
<1> HIDE DEF N
<1>1. retry \in RetryState /\ retry.outer = 0 /\ retry.mid = 0 /\ retry.inn = 0
  BY <1>a DEF FirstTry, RetryState
<1>2. live \in Object /\ live.version \in {0, 1} /\ (live.version = 0 => live = Absent)
  <2>1. CASE live = Absent
    <3>1. Absent.version = 0
      BY DEF Absent
    <3> QED BY <2>1, <3>1, AbsentType
  <2>2. ASSUME NEW h \in SUBSET N, live = [Absent EXCEPT !.version = 1, !.holds = h]
        PROVE  live \in Object /\ live.version \in {0, 1} /\ (live.version = 0 => live = Absent)
    <3>1. h \in SUBSET Conditions
      BY <1>0
    <3>2. live = [version |-> 1, others |-> {}, patched |-> 0, holds |-> h]
      BY <2>2 DEF Absent
    <3> QED BY <3>1, <3>2 DEF Object
  <2> QED BY <1>c, <2>1, <2>2, Zenon
<1>3. seen \in Object /\ seen.version = 0 /\ seen = Absent
  BY <1>a, AbsentType DEF Absent
<1>4. TypeOK
  <2>1. \A o \in {live, seen} : /\ o.version \in Nat /\ o.patched \in Nat
                                /\ o.others \in SUBSET Nat /\ o.holds \in SUBSET Conditions
    BY <1>2, <1>3 DEF Object
  <2>2. phase \in [DOMAIN Pods -> {"Running", "Failed"}]
    BY <1>a
  <2>3. pod \in 0 .. Len(Pods)
    BY <1>a, ObjectActionsAssumption
  <2>4. changes \in 0 .. MaxChanges
    BY <1>a, ObjectActionsAssumption
  <2> QED BY <1>a, <1>b, <1>1, <2>1, <2>2, <2>3, <2>4 DEF TypeOK
<1>5. PlaceInv /\ HeldInv
  BY <1>a DEF PlaceInv, HeldInv, Called
<1>6. VersionInv
  BY <1>a, <1>2, <1>3 DEF VersionInv, NextVersion
<1>7. TryInv /\ EffectsBounded
  BY <1>a, <1>0, <1>1 DEF TryInv, EffectsBounded, BackoffSteps
<1>8. SuccessIsReal /\ ConflictAbsorbed /\ JudgedTogether
  BY <1>a DEF SuccessIsReal, ConflictAbsorbed, JudgedTogether, Nil
<1> QED BY <1>4, <1>5, <1>6, <1>7, <1>8 DEF Inv

(* A failing try of a request keeps the invariant, whether the request had *)
(* an effect (the update was written, the command ran) or not.             *)
LEMMA FailingTryInv ==
    ASSUME Inv, Called, NEW e \in {"conflict", "context", "other"}, TryFails(e),
           e = "conflict" => call.op = "patch" /\ pc = "update" /\ live # seen,
           e = "context" => ended # "no",
           UNCHANGED <<call, seen, phase, ended, changes, held>>,
           pod' \in 0 .. Len(Pods),
           effects' \in {effects, effects + 1}, effects' # effects => e # "conflict",
           exited' \in BOOLEAN,
           VersionInv', live' # Absent => live'.holds \in held
    PROVE  Inv'
<1> USE DEF Inv
<1>0. /\ BackoffSteps(call.attempts) \in Nat \ {0} /\ changes \in Nat /\ effects \in Nat
      /\ retry.outer \in Nat /\ retry.inn \in Nat /\ DefaultSteps \in Nat \ {0}
      /\ retry \in RetryState
  BY Numbers
<1>1. pc # "done" /\ result = "none" /\ ~NothingToDo
  BY DEF Called, PlaceInv
<1>2. /\ effects <= retry.outer /\ retry.outer < BackoffSteps(call.attempts)
      /\ retry.inn <= changes /\ (e = "conflict" => retry.inn < changes)
  BY <1>1 DEF TryInv
<1>3. /\ retry' \in RetryState /\ retry'.inn <= changes
      /\ \/ /\ pc' = FirstPlace[call.op] /\ result' = "none"
            /\ effects' <= retry'.outer /\ retry'.outer < BackoffSteps(call.attempts)
         \/ /\ pc' = "done"
            /\ \/ result' = Nil /\ call.op = "patch" /\ InterruptedAsTimeout /\ e = "context"
               \/ /\ result' = "conflict" /\ call.op = "patch"
                  /\ e = "context" \/ changes >= DefaultSteps
               \/ result' \in {"context", "other"}
  <2>1. \/ /\ pc' = FirstPlace[call.op] /\ result' = result
           /\ retry' \in RetryState
           /\ retry'.outer = retry.outer /\ retry'.inn = retry.inn + 1
           /\ e = "conflict" /\ retry.inn + 1 < DefaultSteps
        \/ /\ pc' = FirstPlace[call.op] /\ result' = result
           /\ retry' \in RetryState
           /\ retry'.outer = retry.outer + 1 /\ retry.outer + 1 < BackoffSteps(call.attempts)
           /\ retry'.inn \in {0, retry.inn}
        \/ /\ pc' = "done" /\ retry' = retry
           /\ \/ result' = Nil /\ call.op = "patch" /\ InterruptedAsTimeout /\ e = "context"
              \/ /\ result' = "conflict" /\ call.op = "patch"
                 /\ \/ e = "conflict" /\ ~(retry.inn + 1 < DefaultSteps)
                    \/ e = "context"
              \/ result' = e /\ e # "conflict"
    BY FailedTry
  <2> QED BY <1>0, <1>1, <1>2, <2>1
<1>4. FirstPlace[call.op] \in {"get", "poll", "resolve"}
  BY DEF FirstPlace, TypeOK, Calls
<1>5. TypeOK'
  <2>1. pc' \in {"get", "poll", "resolve", "done"}
    BY <1>3, <1>4
  <2>2. result' \in {"none", Nil, "conflict", "context", "other"}
    BY <1>3
  <2>3. \A o \in {live', seen'} : /\ o.version \in Nat /\ o.patched \in Nat
                                  /\ o.others \in SUBSET Nat /\ o.holds \in SUBSET Conditions
    BY DEF VersionInv, Object
  <2>4. effects' \in Nat
    BY <1>0
  <2> QED BY <1>3, <2>1, <2>2, <2>3, <2>4 DEF TypeOK
<1>6. PlaceInv'
  <2>1. \/ pc' = "done"
        \/ result' = "none" /\ pc' = FirstPlace[call.op]
    BY <1>3
  <2>2. NothingToDo' = NothingToDo /\ HasDeadline' = HasDeadline
    BY DEF NothingToDo, HasDeadline
  <2>3. call.op \in {"patch", "wait", "assert", "exec"}
    BY DEF TypeOK, Calls
  <2> QED BY <1>1, <2>1, <2>2, <2>3 DEF PlaceInv, FirstPlace
<1>7. HeldInv'
  BY <1>3, <1>4 DEF HeldInv
<1>8. TryInv'
  BY <1>3, <1>4 DEF TryInv
<1>9. EffectsBounded'
  <2>1. effects' <= BackoffSteps(call.attempts)
    BY <1>0, <1>2
  <2>2. ~call.dryRun
    BY <1>1 DEF NothingToDo
  <2> QED BY <2>1, <2>2 DEF EffectsBounded
<1>10. SuccessIsReal' /\ ConflictAbsorbed' /\ JudgedTogether'
  <2>1. CASE result' = "none"
    BY <2>1 DEF SuccessIsReal, ConflictAbsorbed, JudgedTogether, Nil
  <2>2. CASE result' \in {"context", "other"}
    BY <2>2 DEF SuccessIsReal, ConflictAbsorbed, JudgedTogether, Nil
  <2>3. call.op = "patch" /\ e = "context" => ended' = "canceled"
    BY DEF PlaceInv, HasDeadline, TypeOK
  <2>4. CASE result' = Nil /\ call.op = "patch" /\ InterruptedAsTimeout /\ e = "context"
    BY <2>3, <2>4 DEF SuccessIsReal, ConflictAbsorbed, JudgedTogether, Nil
  <2>5. CASE /\ result' = "conflict" /\ call.op = "patch"
             /\ e = "context" \/ changes >= DefaultSteps
    BY <2>3, <2>5 DEF SuccessIsReal, ConflictAbsorbed, JudgedTogether, Nil
  <2> QED BY <1>3, <2>1, <2>2, <2>4, <2>5
<1> QED BY <1>5, <1>6, <1>7, <1>8, <1>9, <1>10

(* The action returns: with an error, or with nil for a reason. *)
LEMMA ReturnInv ==
    ASSUME Inv, pc # "done", pc' = "done", UNCHANGED <<call, retry, seen, phase, pod, ended, changes>>,
           result' \in {Nil, "context", "other"},
           effects' \in {effects, effects + 1}, call.dryRun => effects' = effects,
           exited' \in BOOLEAN, held' \in SUBSET SUBSET Conditions,
           VersionInv', SuccessIsReal', JudgedTogether'
    PROVE  Inv'
<1> USE DEF Inv
<1>0. /\ BackoffSteps(call.attempts) \in Nat \ {0} /\ changes \in Nat /\ effects \in Nat
      /\ retry.outer \in Nat /\ retry.inn \in Nat
  BY Numbers
<1>1. TypeOK'
  <2>1. \A o \in {live', seen'} : /\ o.version \in Nat /\ o.patched \in Nat
                                  /\ o.others \in SUBSET Nat /\ o.holds \in SUBSET Conditions
    BY DEF VersionInv, Object
  <2>2. effects' \in Nat
    BY <1>0
  <2> QED BY <2>1, <2>2 DEF TypeOK
<1>2. PlaceInv' /\ HeldInv'
  BY DEF PlaceInv, HeldInv, Called, HasDeadline
<1>3. TryInv' /\ EffectsBounded'
  BY <1>0 DEF TryInv, EffectsBounded
<1>4. ConflictAbsorbed'
  BY DEF ConflictAbsorbed, Nil
<1> QED BY <1>1, <1>2, <1>3, <1>4

(* The action goes on, its loops as they were. *)
LEMMA GoOnInv ==
    ASSUME Inv, pc # "done", pc' # "done",
           pc' \in {"start", "get", "update", "poll", "judge", "resolve", "stream"},
           UNCHANGED <<call, retry, live, phase, ended, result, changes, ghosts>>,
           pod' \in 0 .. Len(Pods), held' \in SUBSET SUBSET Conditions,
           pc' = "update" => live = seen',
           PlaceInv', VersionInv', HeldInv'
    PROVE  Inv'
<1> USE DEF Inv, ghosts
<1>1. TypeOK'
  <2>1. \A o \in {live', seen'} : /\ o.version \in Nat /\ o.patched \in Nat
                                  /\ o.others \in SUBSET Nat /\ o.holds \in SUBSET Conditions
    BY DEF VersionInv, Object
  <2> QED BY <2>1 DEF TypeOK
<1>2. TryInv' /\ EffectsBounded'
  BY DEF TryInv, EffectsBounded
<1>3. result' = "none"
  BY DEF PlaceInv
<1>4. SuccessIsReal' /\ ConflictAbsorbed' /\ JudgedTogether'
  BY <1>3 DEF SuccessIsReal, ConflictAbsorbed, JudgedTogether, Nil
<1> QED BY <1>1, <1>2, <1>4

(* An error: nothing is claimed. *)
LEMMA ErrorInv ==
    ASSUME Inv, pc # "done", NEW v \in {"context", "other"}, Finish(v),
           UNCHANGED <<call, retry, live, seen, phase, pod, ended, changes, ghosts>>,
           held' \in SUBSET SUBSET Conditions
    PROVE  Inv'
<1> USE DEF Inv, ghosts
<1>1. VersionInv'
  BY DEF VersionInv, NextVersion
<1>2. SuccessIsReal' /\ JudgedTogether'
  BY DEF Finish, SuccessIsReal, JudgedTogether, Nil
<1>3. exited' \in BOOLEAN
  BY DEF TypeOK
<1> QED BY <1>1, <1>2, <1>3, ReturnInv DEF Finish

(* applyDelay *)
LEMMA ApplyDelayInv == Inv /\ ApplyDelay => Inv'
<1> SUFFICES ASSUME Inv, ApplyDelay PROVE Inv'
  OBVIOUS
<1> USE DEF ApplyDelay, cluster
<1>0. held' \in SUBSET SUBSET Conditions /\ pod' \in 0 .. Len(Pods)
  BY DEF Inv, TypeOK
<1>1. CASE pc' = "start" /\ UNCHANGED result
  <2>1. PlaceInv' /\ VersionInv' /\ HeldInv'
    BY <1>1 DEF Inv, PlaceInv, VersionInv, HeldInv, NextVersion, Called, HasDeadline, ghosts
  <2> QED BY <1>0, <1>1, <2>1, GoOnInv
<1>2. CASE Finish("context")
  BY <1>0, <1>2, ErrorInv
<1> QED BY <1>1, <1>2

(* The call begins; from here on held collects what holds of the object. *)
LEMMA StartInv == Inv /\ Start => Inv'
<1> SUFFICES ASSUME Inv, Start PROVE Inv'
  OBVIOUS
<1> USE DEF Start
<1>0. held' \in SUBSET SUBSET Conditions /\ pod' \in 0 .. Len(Pods) /\ exited' \in BOOLEAN
  BY DEF Inv, TypeOK, ghosts
<1>1. VersionInv'
  BY DEF Inv, VersionInv, NextVersion, ghosts
<1>2. CASE NothingToDo /\ Finish(Nil)
  <2>1. SuccessIsReal' /\ JudgedTogether'
    BY <1>2 DEF SuccessIsReal, JudgedTogether, NothingToDo
  <2> QED BY <1>0, <1>1, <1>2, <2>1, ReturnInv DEF Finish, ghosts
<1>3. CASE ~NothingToDo /\ pc' = FirstPlace[call.op] /\ UNCHANGED result
  <2>1. call.op \in {"patch", "wait", "assert", "exec"}
    BY DEF Inv, TypeOK, Calls
  <2>2. PlaceInv'
    BY <1>3, <2>1 DEF Inv, PlaceInv, FirstPlace, Called, NothingToDo, HasDeadline
  <2>3. HeldInv'
    BY <1>3, <2>1 DEF HeldInv, FirstPlace
  <2>4. pc' \in {"get", "poll", "resolve"}
    BY <1>3, <2>1 DEF FirstPlace
  <2> QED BY <1>0, <1>1, <1>3, <2>2, <2>3, <2>4, GoOnInv
<1>4. CASE Finish("other")
  BY <1>0, <1>4, ErrorInv
<1> QED BY <1>2, <1>3, <1>4

(* The error of a request says whether its context lasts. *)
LEMMA RequestErrorType ==
    RequestError \in {"context", "other"} /\ (RequestError = "context" => ended # "no")
BY DEF RequestError

(* A try fails and leaves the cluster alone. *)
LEMMA QuietFailInv ==
    ASSUME Inv, Called, NEW e \in {"conflict", "context", "other"}, TryFails(e),
           e = "conflict" => call.op = "patch" /\ pc = "update" /\ live # seen,
           e = "context" => ended # "no",
           UNCHANGED <<call, seen, pod, ended, cluster, ghosts>>
    PROVE  Inv'
<1> USE DEF cluster, ghosts
<1>1. VersionInv'
  BY DEF Inv, VersionInv, NextVersion
<1>2. live' # Absent => live'.holds \in held
  BY DEF Inv, HeldInv
<1>3. pod' \in 0 .. Len(Pods) /\ exited' \in BOOLEAN
  BY DEF Inv, TypeOK
<1> QED BY <1>1, <1>2, <1>3, FailingTryInv

(* Patch and Check read the object. *)
LEMMA GetInv == Inv /\ Get => Inv'
<1> SUFFICES ASSUME Inv, Get PROVE Inv'
  OBVIOUS
<1> USE DEF Get
<1>1. CASE /\ ended = "no" /\ live # Absent
           /\ seen' = live
           /\ pc' = IF call.op = "patch" THEN "update" ELSE "judge"
           /\ UNCHANGED <<retry, result>>
  <2> USE <1>1 DEF cluster, ghosts
  <2>1. pod' \in 0 .. Len(Pods) /\ held' \in SUBSET SUBSET Conditions
    BY DEF Inv, TypeOK
  <2>2. PlaceInv'
    BY DEF Inv, PlaceInv, Called, NothingToDo, HasDeadline
  <2>3. VersionInv'
    BY DEF Inv, VersionInv, NextVersion
  <2>4. HeldInv'
    BY DEF Inv, HeldInv, Called
  <2> QED BY <2>1, <2>2, <2>3, <2>4, GoOnInv
<1>2. CASE TryFails(RequestError) /\ UNCHANGED seen
  BY <1>2, RequestErrorType, QuietFailInv DEF Called
<1> QED BY <1>1, <1>2

(* The patches do not apply. *)
LEMMA ApplyFailsInv == Inv /\ ApplyFails => Inv'
BY QuietFailInv DEF ApplyFails, Called

(* The API server refuses the update. *)
LEMMA UpdateRefusedInv == Inv /\ UpdateRefused => Inv'
<1> SUFFICES ASSUME Inv, UpdateRefused PROVE Inv'
  OBVIOUS
<1> USE DEF UpdateRefused, Called
<1>1. CASE ended = "no" /\ live # Absent /\ ~VersionMatches /\ TryFails("conflict")
  <2>1. live # seen /\ call.op = "patch"
    BY <1>1 DEF VersionMatches, Inv, PlaceInv
  <2> QED BY <1>1, <2>1, QuietFailInv
<1>2. CASE TryFails(RequestError)
  BY <1>2, RequestErrorType, QuietFailInv
<1> QED BY <1>1, <1>2

(* The update that is written is the object as it was, patched, under a    *)
(* version nobody has seen.                                                *)
LEMMA WrittenObject ==
    ASSUME Inv, VersionMatches
    PROVE  /\ Written \in Object /\ Written.version = NextVersion
           /\ Written.patched = live.patched + 1 /\ Written.patched > 0
           /\ Written.holds = live.holds /\ Written.others = live.others
<1>1. live = seen /\ live \in Object
  BY DEF Inv, VersionInv, VersionMatches
<1>2. NextVersion \in Nat
  BY Numbers DEF Inv
<1>3. live.patched \in Nat /\ live.patched + 1 \in Nat
  BY <1>1 DEF Object
<1> DEFINE n == live.patched + 1
           v == NextVersion
           w == Written
<1>4. w = [live EXCEPT !.version = v, !.patched = n]
  BY <1>1 DEF Written
<1> HIDE DEF n, v, w
<1>5. v \in Nat /\ n \in Nat
  BY <1>2, <1>3 DEF n, v
<1>6. w \in Object /\ w.version = v /\ w.patched = n /\ w.others = live.others /\ w.holds = live.holds
  BY <1>1, <1>4, <1>5 DEF Object
<1> QED BY <1>3, <1>6 DEF n, v, w

(* The update is written; its reply arrives, or is lost. *)
LEMMA UpdateWrittenInv == Inv /\ UpdateWritten => Inv'
<1> SUFFICES ASSUME Inv, UpdateWritten PROVE Inv'
  OBVIOUS
<1> USE DEF UpdateWritten
<1>0. /\ live' \in Object /\ live'.version = NextVersion /\ live'.patched > 0
      /\ live'.holds = live.holds /\ live # Absent
  BY WrittenObject DEF VersionMatches
<1>1. VersionInv'
  <2>1. NextVersion' = NextVersion + 1 /\ NextVersion \in Nat \ {0, 1}
    BY Numbers DEF Inv, NextVersion
  <2>2. seen \in Object /\ seen.version < NextVersion /\ (seen.version = 0 => seen = Absent)
    BY DEF Inv, VersionInv
  <2>3. seen.version \in Nat
    BY <2>2 DEF Object
  <2> QED BY <1>0, <2>1, <2>2, <2>3 DEF VersionInv
<1>2. /\ call.op = "patch" /\ ~NothingToDo /\ ~call.dryRun /\ live'.holds \in held
      /\ pod' \in 0 .. Len(Pods) /\ held' \in SUBSET SUBSET Conditions /\ exited' \in BOOLEAN
  BY <1>0 DEF Inv, PlaceInv, HeldInv, TypeOK, Called, NothingToDo
<1>3. CASE ended = "no" /\ Finish(Nil) /\ UNCHANGED retry
  <2>1. SuccessIsReal' /\ JudgedTogether'
    BY <1>0, <1>2 DEF SuccessIsReal, JudgedTogether
  <2> QED BY <1>1, <1>2, <1>3, <2>1, ReturnInv DEF Finish
<1>4. CASE TryFails(RequestError)
  BY <1>1, <1>2, <1>4, RequestErrorType, FailingTryInv DEF Called
<1> QED BY <1>3, <1>4

(* The poller reports the object, which joins what is judged. *)
LEMMA PollEventInv == Inv /\ PollEvent => Inv'
<1> SUFFICES ASSUME Inv, PollEvent PROVE Inv'
  OBVIOUS
<1> USE DEF PollEvent, cluster, ghosts
<1>1. pod' \in 0 .. Len(Pods) /\ held' \in SUBSET SUBSET Conditions
  BY DEF Inv, TypeOK
<1>2. PlaceInv'
  BY DEF Inv, PlaceInv, Called, NothingToDo, HasDeadline
<1>3. VersionInv'
  BY DEF Inv, VersionInv, NextVersion
<1>4. HeldInv'
  BY DEF Inv, HeldInv, Called
<1> QED BY <1>1, <1>2, <1>3, <1>4, GoOnInv

(* The poller reports an error, or its context has ended. *)
LEMMA PollErrorInv == Inv /\ (PollFails \/ PollCloses) => Inv'
<1> SUFFICES ASSUME Inv, PollFails \/ PollCloses PROVE Inv'
  OBVIOUS
<1>1. held' \in SUBSET SUBSET Conditions
  BY DEF Inv, TypeOK, PollFails, PollCloses, cluster
<1> QED BY <1>1, ErrorInv DEF PollFails, PollCloses, cluster

(* Every condition is judged of the one object that was read. *)
LEMMA JudgeInv == Inv /\ Judge => Inv'
<1> SUFFICES ASSUME Inv, Judge PROVE Inv'
  OBVIOUS
<1> USE DEF Judge
<1>0. /\ pod' \in 0 .. Len(Pods) /\ held' \in SUBSET SUBSET Conditions /\ exited' \in BOOLEAN
      /\ call.op \in {"wait", "assert"} /\ seen.holds \in held /\ VersionInv'
  BY DEF Inv, TypeOK, PlaceInv, HeldInv, VersionInv, NextVersion, cluster, ghosts
<1>1. CASE AllPass /\ Finish(Nil) /\ UNCHANGED retry
  <2>1. JudgedTogether'
    BY <1>0, <1>1 DEF JudgedTogether, AllPass, cluster
  <2>2. SuccessIsReal'
    BY <1>0 DEF SuccessIsReal
  <2> QED BY <1>0, <1>1, <2>1, <2>2, ReturnInv DEF Finish, cluster, ghosts
<1>2. CASE ~AllPass /\ call.op = "wait" /\ pc' = "poll" /\ UNCHANGED <<retry, result>>
  <2>1. PlaceInv'
    BY <1>2 DEF Inv, PlaceInv, Called, NothingToDo, HasDeadline
  <2>2. HeldInv'
    BY <1>2 DEF Inv, HeldInv, Called, cluster
  <2> QED BY <1>0, <1>2, <2>1, <2>2, GoOnInv DEF cluster
<1>3. CASE Finish(RequestError) /\ UNCHANGED retry
  BY <1>0, <1>3, RequestErrorType, ErrorInv DEF cluster
<1>4. CASE TryFails("other") \/ TryFails(RequestError)
  BY <1>4, RequestErrorType, QuietFailInv DEF Called
<1> QED BY <1>1, <1>2, <1>3, <1>4

(* resolvePodForExec finds a pod or fails. *)
LEMMA ResolvePodInv == Inv /\ ResolvePod => Inv'
<1> SUFFICES ASSUME Inv, ResolvePod PROVE Inv'
  OBVIOUS
<1> USE DEF ResolvePod
<1>0. \/ pod' \in DOMAIN Pods /\ pc' = "stream" /\ UNCHANGED <<retry, result>>
      \/ TryFails(RequestError) /\ UNCHANGED pod
  BY Zenon
<1>1. CASE pod' \in DOMAIN Pods /\ pc' = "stream" /\ UNCHANGED <<retry, result>>
  <2>1. pod' \in 0 .. Len(Pods)
    BY <1>1, ObjectActionsAssumption
  <2>2. held' \in SUBSET SUBSET Conditions
    BY DEF Inv, TypeOK, cluster
  <2>3. PlaceInv'
    BY <1>1 DEF Inv, PlaceInv, Called, NothingToDo, HasDeadline
  <2>4. VersionInv' /\ HeldInv'
    BY <1>1 DEF Inv, VersionInv, NextVersion, HeldInv, Called, cluster, ghosts
  <2> QED BY <1>1, <2>1, <2>2, <2>3, <2>4, GoOnInv DEF cluster
<1>2. CASE TryFails(RequestError) /\ UNCHANGED pod
  BY <1>2, RequestErrorType, QuietFailInv DEF Called
<1> QED BY <1>0, <1>1, <1>2

(* The command runs: only a known exit code zero is a success. *)
LEMMA CommandRunsInv == Inv /\ CommandRuns => Inv'
<1> SUFFICES ASSUME Inv, CommandRuns PROVE Inv'
  OBVIOUS
<1> USE DEF CommandRuns, cluster
<1>0. /\ pod' \in 0 .. Len(Pods) /\ held' \in SUBSET SUBSET Conditions /\ exited' \in BOOLEAN
      /\ call.op = "exec" /\ ~call.dryRun /\ (live # Absent => live.holds \in held)
  BY DEF Inv, TypeOK, PlaceInv, HeldInv, Called, NothingToDo
<1>1. VersionInv'
  <2>1. NextVersion' = NextVersion + 1 /\ NextVersion \in Nat
    BY Numbers DEF Inv, NextVersion
  <2>2. live.version \in Nat /\ seen.version \in Nat
    BY DEF Inv, VersionInv, Object
  <2> QED BY <2>1, <2>2 DEF Inv, VersionInv
<1>2. CASE ended = "no" /\ exited' = TRUE /\ Finish(Nil) /\ UNCHANGED retry
  <2>1. SuccessIsReal' /\ JudgedTogether'
    BY <1>0, <1>2 DEF SuccessIsReal, JudgedTogether
  <2> QED BY <1>0, <1>1, <1>2, <2>1, ReturnInv DEF Finish
<1>3. CASE TryFails(RequestError)
  BY <1>0, <1>1, <1>3, RequestErrorType, FailingTryInv DEF Called
<1> QED BY <1>2, <1>3

(* The stream cannot be opened. *)
LEMMA StreamFailsInv == Inv /\ StreamFails => Inv'
BY RequestErrorType, QuietFailInv DEF StreamFails, Called

(* Others write the object, or delete it, while the call is under way. *)
LEMMA OthersInv == Inv /\ (OthersWrite \/ OthersDelete) => Inv'
<1> SUFFICES ASSUME Inv, OthersWrite \/ OthersDelete PROVE Inv'
  OBVIOUS
<1> USE DEF Inv
<1>0. /\ UNCHANGED <<call, pc, retry, seen, phase, pod, ended, result, ghosts>>
      /\ Called /\ changes < MaxChanges /\ changes' = changes + 1
  BY DEF OthersWrite, OthersDelete
<1>1. /\ changes \in Nat /\ effects \in Nat /\ retry.inn \in Nat /\ changes' \in 0 .. MaxChanges
      /\ NextVersion \in Nat \ {0, 1} /\ NextVersion' = NextVersion + 1
  <2>1. changes \in Nat /\ effects \in Nat /\ retry.inn \in Nat /\ NextVersion \in Nat \ {0, 1}
    BY Numbers
  <2>2. changes' \in 0 .. MaxChanges
    BY <1>0, <2>1, ObjectActionsAssumption
  <2>3. NextVersion' = NextVersion + 1
    BY <1>0, <2>1 DEF NextVersion, ghosts
  <2> QED BY <2>1, <2>2, <2>3
<1>2. /\ live' \in Object
      /\ live' = Absent \/ (live'.version = NextVersion /\ live'.holds \in held')
      /\ held \subseteq held' /\ held' \in SUBSET SUBSET Conditions
  <2>1. CASE OthersDelete
    BY <2>1, AbsentType DEF OthersDelete, TypeOK
  <2>2. CASE OthersWrite
    <3> DEFINE N == {call.conditions[k] : k \in DOMAIN call.conditions}
               v == NextVersion
    <3>1. PICK h \in SUBSET N :
             /\ live' = [live EXCEPT !.version = v, !.holds = h, !.others = live.others \cup {v}]
             /\ held' = held \cup {h}
      BY <2>2 DEF OthersWrite
    <3>2. h \in SUBSET Conditions
      BY NamedConditions DEF TypeOK
    <3>3. v \in Nat
      BY <1>1
    <3> HIDE DEF N, v
    <3>4. live \in Object /\ live.others \cup {v} \in SUBSET Nat
      BY <3>3 DEF VersionInv, Object
    <3>5. live' \in Object /\ live'.version = v /\ live'.holds = h
      BY <3>1, <3>2, <3>3, <3>4 DEF Object
    <3> QED BY <3>1, <3>2, <3>5 DEF TypeOK, v
  <2> QED BY <2>1, <2>2
<1>3. TypeOK'
  <2>1. \A o \in {live', seen'} : /\ o.version \in Nat /\ o.patched \in Nat
                                  /\ o.others \in SUBSET Nat /\ o.holds \in SUBSET Conditions
    BY <1>0, <1>2 DEF VersionInv, Object
  <2> QED BY <1>0, <1>1, <1>2, <2>1 DEF TypeOK, ghosts
<1>4. PlaceInv'
  BY <1>0 DEF PlaceInv, Called, NothingToDo, HasDeadline
<1>5. VersionInv'
  <2>1. seen' = seen /\ seen \in Object /\ seen.version \in Nat /\ seen.version < NextVersion
    BY <1>0 DEF VersionInv, Object
  <2>2. Absent.version = 0
    BY DEF Absent
  <2> QED BY <1>1, <1>2, <2>1, <2>2 DEF VersionInv
<1>6. HeldInv'
  BY <1>0, <1>2 DEF HeldInv, Called
<1>7. TryInv' /\ EffectsBounded'
  BY <1>0, <1>1 DEF TryInv, EffectsBounded, ghosts
<1>8. result' = "none"
  BY <1>0 DEF PlaceInv, Called
<1>9. SuccessIsReal' /\ ConflictAbsorbed' /\ JudgedTogether'
  BY <1>8 DEF SuccessIsReal, ConflictAbsorbed, JudgedTogether, Nil
<1> QED BY <1>3, <1>4, <1>5, <1>6, <1>7, <1>9

(* The pods change, or a context ends, while the call is under way. *)
LEMMA SurroundingsInv ==
    Inv /\ ((\E k \in DOMAIN Pods : PodChanges(k)) \/ DeadlinePasses \/ Interrupt) => Inv'
<1> SUFFICES ASSUME Inv, (\E k \in DOMAIN Pods : PodChanges(k)) \/ DeadlinePasses \/ Interrupt
             PROVE  Inv'
  OBVIOUS
<1> USE DEF Inv
<1>0. /\ UNCHANGED <<call, pc, retry, live, seen, pod, result, changes, held, ghosts>>
      /\ pc # "done"
      /\ phase' \in [DOMAIN Pods -> {"Running", "Failed"}]
      /\ ended' \in {"no", "deadline", "canceled"} /\ (ended' = "deadline" => HasDeadline)
  <2>1. ASSUME NEW k \in DOMAIN Pods, PodChanges(k) PROVE <1>0!:
    BY <2>1 DEF PodChanges, TypeOK, PlaceInv, Called
  <2>2. CASE DeadlinePasses
    BY <2>2 DEF DeadlinePasses, TypeOK, Called, cluster
  <2>3. CASE Interrupt
    BY <2>3 DEF Interrupt, TypeOK, cluster
  <2> QED BY <2>1, <2>2, <2>3
<1>1. TypeOK'
  BY <1>0 DEF TypeOK, ghosts
<1>2. PlaceInv' /\ HeldInv'
  BY <1>0 DEF PlaceInv, HeldInv, Called, NothingToDo, HasDeadline
<1>3. VersionInv' /\ TryInv' /\ EffectsBounded'
  BY <1>0 DEF VersionInv, NextVersion, TryInv, EffectsBounded, ghosts
<1>4. result' = "none"
  BY <1>0 DEF PlaceInv
<1>5. SuccessIsReal' /\ ConflictAbsorbed' /\ JudgedTogether'
  BY <1>4 DEF SuccessIsReal, ConflictAbsorbed, JudgedTogether, Nil
<1> QED BY <1>1, <1>2, <1>3, <1>5

(* Stuttering changes nothing the invariant reads. *)
LEMMA StutterInv == Inv /\ UNCHANGED vars => Inv'
<1> SUFFICES ASSUME Inv, UNCHANGED vars PROVE Inv'
  OBVIOUS
<1> USE DEF Inv, vars
<1>1. TypeOK' /\ PlaceInv' /\ VersionInv' /\ HeldInv' /\ TryInv'
  BY DEF TypeOK, PlaceInv, VersionInv, HeldInv, TryInv, Called, NothingToDo, HasDeadline, NextVersion
<1>2. EffectsBounded' /\ SuccessIsReal' /\ ConflictAbsorbed' /\ JudgedTogether'
  BY DEF EffectsBounded, SuccessIsReal, ConflictAbsorbed, JudgedTogether, NothingToDo
<1> QED BY <1>1, <1>2

(* Every step of the call, of others and of the contexts keeps it. *)
LEMMA NextInv == Inv /\ [Next]_vars => Inv'
BY ApplyDelayInv, StartInv, GetInv, ApplyFailsInv, UpdateWrittenInv, UpdateRefusedInv,
   PollEventInv, PollErrorInv, JudgeInv, ResolvePodInv, CommandRunsInv, StreamFailsInv,
   OthersInv, SurroundingsInv, StutterInv DEF Next, CallStep, Done

(* The invariant holds throughout. *)
THEOREM Invariance == Spec => []Inv
<1>1. Inv /\ [Next]_vars => Inv'
  BY NextInv
<1> QED BY InitInv, <1>1, PTL DEF Spec
-----------------------------------------------------------------------------
(* Every variable of a call, and of the object and pods it works on, keeps *)
(* its type (internal/engine/action, internal/kube/service.go).            *)
THEOREM TypeCorrect == Spec => []TypeOK
<1>1. Inv => TypeOK
  BY DEF Inv
<1> QED BY Invariance, <1>1, PTL

(* A patch is written and a command executed at most as often as the       *)
(* attempts the user gave, for any number of conflicts and lost replies,   *)
(* and never in a dry run.                                                 *)
THEOREM EffectsAreBounded == Spec => []EffectsBounded
<1>1. Inv => EffectsBounded
  BY DEF Inv
<1> QED BY Invariance, <1>1, PTL

(* A patch that passes is in the object and an exec that passes has seen   *)
(* its command exit with zero, but for a patch that is interrupted before  *)
(* its first conflict.                                                     *)
THEOREM SuccessIsEarned == Spec => []SuccessIsReal
<1>1. Inv => SuccessIsReal
  BY DEF Inv
<1> QED BY Invariance, <1>1, PTL

(* A patch fails with a conflict only if others changed the object in each *)
(* of DefaultSteps tries in a row, or the run was interrupted: Patch       *)
(* re-reads before it re-applies.                                          *)
THEOREM ConflictsAreAbsorbed == Spec => []ConflictAbsorbed
<1>1. Inv => ConflictAbsorbed
  BY DEF Inv
<1> QED BY Invariance, <1>1, PTL

(* A wait or an assert passes only on one version of the object of which   *)
(* all its conditions held during the call.                                *)
THEOREM ConditionsHoldTogether == Spec => []JudgedTogether
<1>1. Inv => JudgedTogether
  BY DEF Inv
<1> QED BY Invariance, <1>1, PTL

(* No step of Patch undoes what others wrote: the update that is accepted  *)
(* was made from the object as it is, because versions name contents.      *)
LEMMA StepKeepsOthers ==
    ASSUME Inv, [Next]_vars, live # Absent, live' # Absent
    PROVE  live.others \subseteq live'.others
<1>1. CASE UpdateWritten
  BY <1>1, WrittenObject DEF UpdateWritten
<1>2. CASE OthersWrite
  <2> DEFINE v == NextVersion
  <2>1. live \in Object
    BY DEF Inv, VersionInv
  <2>2. PICK h : live' = [live EXCEPT !.version = v, !.holds = h, !.others = live.others \cup {v}]
    BY <1>2 DEF OthersWrite
  <2> HIDE DEF v
  <2>3. live'.others = live.others \cup {v}
    BY <2>1, <2>2 DEF Object
  <2> QED BY <2>3
<1>3. CASE OthersDelete
  BY <1>3 DEF OthersDelete
<1>4. CASE ~UpdateWritten /\ ~OthersWrite /\ ~OthersDelete
  <2>1. live' = live
    BY <1>4 DEF Next, CallStep, ApplyDelay, Start, Get, ApplyFails, UpdateRefused, PollEvent,
                PollCloses, PollFails, Judge, ResolvePod, CommandRuns, StreamFails, PodChanges,
                DeadlinePasses, Interrupt, Done, cluster, vars
  <2> QED BY <2>1
<1> QED BY <1>1, <1>2, <1>3, <1>4

(* Patch writes back with optimistic concurrency: what was acknowledged to *)
(* another writer stays in the object until somebody deletes it, in every  *)
(* interleaving of reads, updates, conflicts and retries.                  *)
THEOREM OthersAreKept == Spec => KeepsOthers
<1>1. Inv /\ [Next]_vars => [live # Absent /\ live' # Absent => live.others \subseteq live'.others]_vars
  BY StepKeepsOthers
<1> QED BY Invariance, <1>1, PTL DEF Spec, KeepsOthers
=============================================================================

-------------------------------- MODULE Retry --------------------------------
(***************************************************************************)
(* The three nested retry.OnError loops that wrap every cluster call of    *)
(* kube.Service.Ensure and kube.Service.Delete (internal/kube/service.go): *)
(*                                                                         *)
(*   OnError(user attempts, retryAlways,                                   *)
(*     OnError(DefaultBackoff, IsServerTimeout,                            *)
(*       OnError(DefaultBackoff, IsServiceUnavailable, fn)))               *)
(*                                                                         *)
(* A retry state counts the tries that have already failed in each of the  *)
(* loops now active; AfterError says what a failing call of fn leads to:   *)
(* another call, or a value returned by the outermost loop.  Sleeping      *)
(* between tries is left out.                                              *)
(***************************************************************************)
EXTENDS Integers

CONSTANTS
    DefaultSteps,          \* retry.DefaultBackoff.Steps (4 in client-go)
    InterruptedAsTimeout   \* does OnError treat a context error returned by fn
                           \* like its own exhaustion and return the last
                           \* retriable error, nil when there was none?
                           \* (wait.Interrupted in client-go)

ASSUME RetryAssumption ==
    /\ DefaultSteps \in Nat \ {0}
    /\ InterruptedAsTimeout \in BOOLEAN

(* The errors fn can return, as far as the loops tell them apart. *)
ErrorClass == {"timeout", "unavailable", "context", "other"}

(* What an OnError returns: nil, or an error. *)
Nil == "nil"

RetryState == [outer : Nat, mid : Nat, inn : Nat]

(* Mutant: the first try counted from minus one. *)
FirstTryOffByOne == [outer |-> 0, mid |-> 0, inn |-> -1]

(* No try has failed yet. *)
FirstTry == [outer |-> 0, mid |-> 0, inn |-> 0]

(* retryBackoff: Steps is the total number of calls and never below one. *)
BackoffSteps(attempts) == IF attempts < 1 THEN 1 ELSE attempts

(* The inner loop calls fn again after "service unavailable". *)
InnerRetries(r, e) == e = "unavailable" /\ r.inn + 1 < DefaultSteps

(* Mutant: a server timeout is swallowed as well. *)
InnerResultSwallowsTimeout(r, e) ==
    IF e \in {"context", "timeout"} THEN Nil ELSE e

(* Otherwise the inner loop returns this to the middle one. *)
InnerResult(r, e) ==
    IF e = "context" /\ InterruptedAsTimeout
    THEN IF r.inn > 0 THEN "unavailable" ELSE Nil
    ELSE e

(* The middle loop restarts the inner one after "server timeout". *)
MidRetries(r, e) == e = "timeout" /\ r.mid + 1 < DefaultSteps

(* Mutants: one attempt too many; the user's attempts ignored. *)
OuterRetriesOffByOne(r, attempts) == r.outer < BackoffSteps(attempts)
OuterNeverRetries(r, attempts) == FALSE

(* The outer loop retries on every error while the user's attempts last. *)
OuterRetries(r, attempts) == r.outer + 1 < BackoffSteps(attempts)

(* Mutant: the loops forget the tries already made. *)
CallAgainForgets(r) == [again |-> TRUE, state |-> FirstTry, result |-> Nil]

(* fn is called again, with the loops in state r. *)
CallAgain(r) == [again |-> TRUE, state |-> r, result |-> Nil]

(* The outermost OnError returns v. *)
Return(r, v) == [again |-> FALSE, state |-> r, result |-> v]

(* What a call of fn that fails with e leads to. *)
AfterError(r, attempts, e) ==
    LET up == InnerResult(r, e)
    IN  IF InnerRetries(r, e) THEN CallAgain([r EXCEPT !.inn = @ + 1])
        ELSE IF up = Nil THEN Return(r, Nil)
        ELSE IF MidRetries(r, up)
             THEN CallAgain([outer |-> r.outer, mid |-> r.mid + 1, inn |-> 0])
        ELSE IF OuterRetries(r, attempts)
             THEN CallAgain([outer |-> r.outer + 1, mid |-> 0, inn |-> 0])
        ELSE Return(r, up)
=============================================================================

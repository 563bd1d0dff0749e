------------------------------ MODULE RetryLoop ------------------------------
(***************************************************************************)
(* One retried operation on its own: fn is called, succeeds or fails with  *)
(* any error class, and the nested loops of Retry decide what follows.     *)
(***************************************************************************)
EXTENDS Retry

CONSTANT Attempts   \* the user's retry.attempts, any integer

ASSUME AttemptsAssumption == Attempts \in Int

(* The worst case: every user attempt exhausts both default backoffs. *)
MaxCalls == BackoffSteps(Attempts) * (DefaultSteps * DefaultSteps)

VARIABLES
    retry,     \* the state of the nested loops
    calls,     \* ghost: how many times fn has been called, up to MaxCalls + 1
    faced,     \* ghost: the outcome of the last call of fn
    result     \* "pending", or what the operation returned

vars == <<retry, calls, faced, result>>

TypeOK ==
    /\ retry \in RetryState
    /\ calls \in Nat
    /\ faced \in {"none", "ok"} \cup ErrorClass
    /\ result \in {"pending", Nil} \cup ErrorClass

Init ==
    /\ retry = FirstTry
    /\ calls = 0
    /\ faced = "none"
    /\ result = "pending"

(* The ghost counter stops one above the bound: enough to see it exceeded. *)
CountCall == calls' = IF calls > MaxCalls THEN calls ELSE calls + 1

(* fn returns nil and so does every loop around it. *)
CallSucceeds ==
    /\ result = "pending"
    /\ CountCall
    /\ faced' = "ok"
    /\ result' = Nil
    /\ UNCHANGED retry

(* fn returns an error of class e. *)
CallFails(e) ==
    /\ result = "pending"
    /\ CountCall
    /\ faced' = e
    /\ LET next == AfterError(retry, Attempts, e)
       IN  /\ retry' = next.state
           /\ result' = IF next.again THEN "pending" ELSE next.result

Done == result # "pending" /\ UNCHANGED vars

Next == CallSucceeds \/ (\E e \in ErrorClass : CallFails(e)) \/ Done

Spec == Init /\ [][Next]_vars /\ WF_vars(Next)
-----------------------------------------------------------------------------
(* The loops' counters bound the calls made so far: the strengthening that *)
(* makes CallsBounded inductive.                                           *)
CallsAccounted ==
    /\ retry.inn < DefaultSteps
    /\ retry.mid < DefaultSteps
    /\ retry.outer < BackoffSteps(Attempts)
    /\ calls <= retry.outer * (DefaultSteps * DefaultSteps)
                  + retry.mid * DefaultSteps + retry.inn
                  + (IF result = "pending" THEN 0 ELSE 1)

(* An operation calls the cluster at most attempts x 4 x 4 times, whatever *)
(* errors it meets: a retry block in a case file cannot loop for ever.     *)
CallsBounded == calls <= MaxCalls

(* The operation reports an error only when every attempt the user asked   *)
(* for has been used (Retry.attempts, "total number of calls").            *)
FailureMeansExhausted ==
    result \in ErrorClass => retry.outer + 1 = BackoffSteps(Attempts)

(* The operation reports success only after a call that succeeded, or after *)
(* a call whose context ended when OnError takes that for exhaustion.       *)
SuccessIsEarned ==
    result = Nil =>
        \/ faced = "ok"
        \/ InterruptedAsTimeout /\ faced = "context"

(* Every operation returns. *)
Returns == <>(result # "pending")
=============================================================================

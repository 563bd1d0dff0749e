----------------------------- MODULE RetryProofs -----------------------------
(***************************************************************************)
(* Lemmas about the nested retry loops, for RetryLoopProofs and            *)
(* KubeServiceProofs.                                                      *)
(***************************************************************************)
EXTENDS Retry, TLAPS

(* What the nested loops make of a failing call: one of four outcomes.     *)
(* Retry.AfterError translates the three OnError loops of Ensure and       *)
(* Delete.                                                                 *)
LEMMA AfterErrorCases ==
    ASSUME NEW r \in RetryState, NEW n \in Int, NEW e \in ErrorClass
    PROVE  LET next == AfterError(r, n, e)
           IN  \/ /\ r.inn + 1 < DefaultSteps
                  /\ next = CallAgain([r EXCEPT !.inn = r.inn + 1])
               \/ /\ r.mid + 1 < DefaultSteps
                  /\ next = CallAgain([outer |-> r.outer, mid |-> r.mid + 1, inn |-> 0])
               \/ /\ r.outer + 1 < BackoffSteps(n)
                  /\ next = CallAgain([outer |-> r.outer + 1, mid |-> 0, inn |-> 0])
               \/ /\ next = Return(r, Nil)
                  /\ InterruptedAsTimeout /\ e = "context"
               \/ /\ \E v \in ErrorClass : next = Return(r, v)
                  /\ ~(r.outer + 1 < BackoffSteps(n))
<1> DEFINE up == InnerResult(r, e)
<1>1. CASE InnerRetries(r, e)
  BY <1>1 DEF AfterError, InnerRetries
<1>2. CASE ~InnerRetries(r, e) /\ up = Nil
  <2>1. InterruptedAsTimeout /\ e = "context"
    BY <1>2 DEF InnerResult, ErrorClass, Nil
  <2>2. AfterError(r, n, e) = Return(r, Nil)
    BY <1>2 DEF AfterError, MidRetries, Nil
  <2> QED BY <2>1, <2>2
<1>3. CASE ~InnerRetries(r, e) /\ MidRetries(r, up)
  <2>1. up # Nil
    BY <1>3 DEF MidRetries, Nil
  <2>2. AfterError(r, n, e) = CallAgain([outer |-> r.outer, mid |-> r.mid + 1, inn |-> 0])
    BY <1>3, <2>1 DEF AfterError
  <2> QED BY <2>2, <1>3 DEF MidRetries
<1>4. CASE ~InnerRetries(r, e) /\ up # Nil /\ ~MidRetries(r, up) /\ OuterRetries(r, n)
  <2>1. AfterError(r, n, e) = CallAgain([outer |-> r.outer + 1, mid |-> 0, inn |-> 0])
    BY <1>4 DEF AfterError
  <2> QED BY <2>1, <1>4 DEF OuterRetries
<1>5. CASE ~InnerRetries(r, e) /\ up # Nil /\ ~MidRetries(r, up) /\ ~OuterRetries(r, n)
  <2>1. AfterError(r, n, e) = Return(r, up)
    BY <1>5 DEF AfterError
  <2>2. up \in ErrorClass
    BY <1>5 DEF InnerResult, ErrorClass, Nil
  <2> QED BY <2>1, <2>2, <1>5 DEF OuterRetries
<1> QED BY <1>1, <1>2, <1>3, <1>4, <1>5

(* The loops stay in a retry state, and what they return is nil only when  *)
(* they hide a context error.                                              *)
LEMMA AfterErrorType ==
    ASSUME NEW r \in RetryState, NEW n \in Int, NEW e \in ErrorClass
    PROVE  /\ AfterError(r, n, e).again \in BOOLEAN
           /\ AfterError(r, n, e).state \in RetryState
           /\ ~AfterError(r, n, e).again /\ AfterError(r, n, e).result = Nil
                 => InterruptedAsTimeout /\ e = "context"
<1> DEFINE next == AfterError(r, n, e)
<1>0. r.outer \in Nat /\ r.mid \in Nat /\ r.inn \in Nat
  BY DEF RetryState
<1>1. CASE next = CallAgain([r EXCEPT !.inn = r.inn + 1])
  BY <1>1 DEF CallAgain, RetryState
<1>2. CASE next = CallAgain([outer |-> r.outer, mid |-> r.mid + 1, inn |-> 0])
  <2>1. [outer |-> r.outer, mid |-> r.mid + 1, inn |-> 0] \in RetryState
    BY <1>0 DEF RetryState
  <2> QED BY <1>2, <2>1 DEF CallAgain
<1>3. CASE next = CallAgain([outer |-> r.outer + 1, mid |-> 0, inn |-> 0])
  <2>1. [outer |-> r.outer + 1, mid |-> 0, inn |-> 0] \in RetryState
    BY <1>0 DEF RetryState
  <2> QED BY <1>3, <2>1 DEF CallAgain
<1>4. CASE next = Return(r, Nil) /\ InterruptedAsTimeout /\ e = "context"
  BY <1>4 DEF Return
<1>5. CASE \E v \in ErrorClass : next = Return(r, v)
  BY <1>5 DEF Return, ErrorClass, Nil
<1> QED
  <2> HIDE DEF next
  <2>1. \/ next = CallAgain([r EXCEPT !.inn = r.inn + 1])
        \/ next = CallAgain([outer |-> r.outer, mid |-> r.mid + 1, inn |-> 0])
        \/ next = CallAgain([outer |-> r.outer + 1, mid |-> 0, inn |-> 0])
        \/ next = Return(r, Nil) /\ InterruptedAsTimeout /\ e = "context"
        \/ \E v \in ErrorClass : next = Return(r, v)
    BY AfterErrorCases DEF next
  <2> QED BY <2>1, <1>1, <1>2, <1>3, <1>4, <1>5
=============================================================================

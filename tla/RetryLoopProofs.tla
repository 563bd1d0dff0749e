--------------------------- MODULE RetryLoopProofs ---------------------------
(***************************************************************************)
(* Proofs about RetryLoop, for every backoff length and every number of    *)
(* attempts a case file may ask for.                                       *)
(***************************************************************************)
EXTENDS RetryLoop, RetryProofs

(* The inductive invariant: the type invariant, the account of the calls   *)
(* and the two statements about the result.                                *)
Inv == TypeOK /\ CallsAccounted /\ FailureMeansExhausted /\ SuccessIsEarned

(* The loops are entered at least once. *)
LEMMA BackoffPositive == BackoffSteps(Attempts) \in Nat \ {0}
BY AttemptsAssumption DEF BackoffSteps

(* The arithmetic of the account: a loop that starts over uses no more     *)
(* than the calls its outer loop grants it.                                *)
LEMMA MidRoom ==
    ASSUME NEW D \in Nat, NEW m \in Nat, NEW k \in Nat, k < D
    PROVE  m * D + k + 1 <= (m + 1) * D
<1>1. (m + 1) * D = m * D + D
  OBVIOUS
<1>2. m * D \in Nat
  OBVIOUS
<1> QED BY <1>1, <1>2

LEMMA OuterRoom ==
    ASSUME NEW D \in Nat, NEW m \in Nat, NEW k \in Nat, k < D, m < D
    PROVE  m * D + k + 1 <= D * D
<1>1. m * D + k + 1 <= (m + 1) * D
  BY MidRoom
<1>2. PICK d \in Nat : D = (m + 1) + d
  <2>1. D - (m + 1) \in Nat
    OBVIOUS
  <2> QED BY <2>1
<1>3. D * D = (m + 1) * D + d * D
  BY <1>2
<1>4. d * D \in Nat /\ (m + 1) * D \in Nat /\ m * D \in Nat /\ D * D \in Nat
  OBVIOUS
<1> QED BY <1>1, <1>3, <1>4

-----------------------------------------------------------------------------
(* The account bounds the calls, pending or returned. *)
LEMMA AccountBounds == TypeOK /\ CallsAccounted => CallsBounded
<1> SUFFICES ASSUME TypeOK, CallsAccounted PROVE CallsBounded
  OBVIOUS
<1> DEFINE D == DefaultSteps
           S == D * D
           B == BackoffSteps(Attempts)
<1>1. D \in Nat /\ B \in Nat \ {0}
  BY RetryAssumption, BackoffPositive
<1>2. /\ retry.outer \in Nat /\ retry.mid \in Nat /\ retry.inn \in Nat
      /\ calls \in Nat
  BY DEF TypeOK, RetryState
<1>3. retry.mid * D + retry.inn + 1 <= S
  BY <1>1, <1>2, OuterRoom DEF CallsAccounted
<1>4. S \in Nat /\ retry.mid * D \in Nat
  BY <1>1, <1>2
<1>5. calls <= retry.outer * S + S
  <2>1. retry.outer * S \in Nat
    BY <1>2, <1>4
  <2> HIDE DEF S
  <2>2. calls <= retry.outer * S + retry.mid * D + retry.inn + 1
    <3>1. calls <= retry.outer * S + retry.mid * D + retry.inn
                     + (IF result = "pending" THEN 0 ELSE 1)
      BY DEF CallsAccounted, S
    <3> QED BY <3>1, <2>1, <1>4, <1>2
  <2> QED BY <2>1, <2>2, <1>2, <1>3, <1>4
<1>6. retry.outer * S + S <= B * S
  <2> HIDE DEF S, B
  <2>1. retry.outer + 1 <= B
    BY <1>1, <1>2 DEF CallsAccounted, B
  <2>2. PICK d \in Nat : B = (retry.outer + 1) + d
    <3>1. B - (retry.outer + 1) \in Nat
      BY <2>1, <1>1, <1>2
    <3> QED BY <3>1, <1>1, <1>2
  <2>3. B * S = retry.outer * S + S + d * S
    BY <2>2, <1>2, <1>4
  <2>4. d * S \in Nat /\ retry.outer * S \in Nat
    BY <2>2, <1>2, <1>4
  <2> QED BY <2>3, <2>4, <1>4
<1>7. B * S \in Nat /\ retry.outer * S \in Nat
  BY <1>1, <1>2, <1>4
<1> QED
  <2> HIDE DEF S
  <2>1. MaxCalls = B * S
    BY DEF MaxCalls, S
  <2> QED BY <2>1, <1>2, <1>4, <1>5, <1>6, <1>7 DEF CallsBounded

LEMMA InitInv == Init => Inv
<1> SUFFICES ASSUME Init PROVE Inv
  OBVIOUS
<1>1. TypeOK
  BY DEF Init, TypeOK, RetryState, FirstTry
<1>2. CallsAccounted
  <2>1. DefaultSteps \in Nat \ {0} /\ BackoffSteps(Attempts) \in Nat \ {0}
    BY RetryAssumption, BackoffPositive
  <2>2. 0 * (DefaultSteps * DefaultSteps) = 0 /\ 0 * DefaultSteps = 0
    BY <2>1
  <2> QED BY <2>1, <2>2 DEF Init, FirstTry, CallsAccounted
<1>3. FailureMeansExhausted /\ SuccessIsEarned
  BY DEF Init, FailureMeansExhausted, SuccessIsEarned, ErrorClass, Nil
<1> QED BY <1>1, <1>2, <1>3 DEF Inv

(* One call is counted at most once. *)
LEMMA Counted == TypeOK /\ CountCall => calls' \in Nat /\ calls' <= calls + 1
<1> SUFFICES ASSUME TypeOK, CountCall PROVE calls' \in Nat /\ calls' <= calls + 1
  OBVIOUS
<1> QED BY DEF TypeOK, CountCall

(* Every step preserves the invariant; a failing call by the cases of      *)
(* AfterErrorCases.                                                        *)
LEMMA NextInv == Inv /\ [Next]_vars => Inv'
<1> SUFFICES ASSUME Inv, [Next]_vars PROVE Inv'
  OBVIOUS
<1> DEFINE D == DefaultSteps
           S == D * D
           B == BackoffSteps(Attempts)
<1>0. D \in Nat \ {0} /\ B \in Nat \ {0} /\ Attempts \in Int
  BY RetryAssumption, BackoffPositive, AttemptsAssumption
<1>t. /\ retry \in RetryState
      /\ retry.outer \in Nat /\ retry.mid \in Nat /\ retry.inn \in Nat
      /\ calls \in Nat
  BY DEF Inv, TypeOK, RetryState
<1>p. S \in Nat /\ retry.outer * S \in Nat /\ retry.mid * D \in Nat
  BY <1>0, <1>t
<1>1. CASE CallSucceeds
  <2>1. calls' \in Nat /\ calls' <= calls + 1
    BY <1>1, Counted DEF Inv, CallSucceeds
  <2>2. TypeOK'
    BY <1>1, <2>1 DEF Inv, TypeOK, CallSucceeds
  <2>3. CallsAccounted'
    <3> HIDE DEF S
    <3>1. calls <= retry.outer * S + retry.mid * D + retry.inn
      BY <1>1, <1>p, <1>t DEF Inv, CallsAccounted, CallSucceeds, S
    <3>2. calls' <= retry.outer * S + retry.mid * D + retry.inn + 1
      BY <3>1, <2>1, <1>t, <1>p
    <3>3. retry' = retry /\ result' # "pending"
      BY <1>1 DEF CallSucceeds, Nil
    <3> QED BY <3>2, <3>3 DEF Inv, CallsAccounted, S
  <2>4. FailureMeansExhausted' /\ SuccessIsEarned'
    BY <1>1 DEF CallSucceeds, FailureMeansExhausted, SuccessIsEarned, ErrorClass, Nil
  <2> QED BY <2>2, <2>3, <2>4 DEF Inv
<1>2. ASSUME NEW e \in ErrorClass, CallFails(e)
      PROVE  Inv'
  <2> DEFINE next == AfterError(retry, Attempts, e)
  <2>1. /\ result = "pending" /\ faced' = e
        /\ retry' = next.state
        /\ result' = IF next.again THEN "pending" ELSE next.result
    BY <1>2 DEF CallFails
  <2>2. calls' \in Nat /\ calls' <= calls + 1
    BY <1>2, Counted DEF Inv, CallFails
  <2>3. retry.inn < D /\ retry.mid < D /\ retry.outer < B
    BY DEF Inv, CallsAccounted
  <2>4. calls' <= retry.outer * S + retry.mid * D + retry.inn + 1
    <3> HIDE DEF S
    <3>1. calls <= retry.outer * S + retry.mid * D + retry.inn
      BY <2>1, <1>p, <1>t DEF Inv, CallsAccounted, S
    <3> QED BY <3>1, <2>2, <1>t, <1>p
  <2>a. CASE /\ retry.inn + 1 < D
             /\ next = CallAgain([retry EXCEPT !.inn = retry.inn + 1])
    <3>1. /\ retry' = [retry EXCEPT !.inn = retry.inn + 1] /\ result' = "pending"
          /\ retry' \in RetryState
          /\ retry'.inn = retry.inn + 1
          /\ retry'.mid = retry.mid /\ retry'.outer = retry.outer
      BY <2>a, <2>1, <1>t DEF CallAgain, RetryState
    <3>2. CallsAccounted'
      <4> HIDE DEF S, next
      <4>1. calls' <= retry'.outer * S + retry'.mid * D + retry'.inn + 0
        BY <3>1, <2>4, <2>2, <1>t, <1>p
      <4> QED BY <4>1, <3>1, <2>3, <2>a DEF CallsAccounted, S
    <3> QED
      BY <3>1, <3>2, <2>1, <2>2
      DEF Inv, TypeOK, FailureMeansExhausted, SuccessIsEarned, ErrorClass, Nil
  <2>b. CASE /\ retry.mid + 1 < D
             /\ next = CallAgain([outer |-> retry.outer, mid |-> retry.mid + 1, inn |-> 0])
    <3>1. /\ result' = "pending"
          /\ retry' \in RetryState
          /\ retry'.inn = 0
          /\ retry'.mid = retry.mid + 1 /\ retry'.outer = retry.outer
      BY <2>b, <2>1, <1>t DEF CallAgain, RetryState
    <3>2. CallsAccounted'
      <4>1. retry.mid * D + retry.inn + 1 <= (retry.mid + 1) * D
        BY <2>3, <1>0, <1>t, MidRoom
      <4>2. (retry.mid + 1) * D \in Nat
        BY <1>0, <1>t
      <4> HIDE DEF S, next
      <4>3. calls' <= retry'.outer * S + retry'.mid * D + retry'.inn + 0
        BY <4>1, <4>2, <3>1, <2>4, <2>2, <1>t, <1>p
      <4> QED BY <4>3, <3>1, <2>3, <2>b, <1>0 DEF CallsAccounted, S
    <3> QED
      BY <3>1, <3>2, <2>1, <2>2
      DEF Inv, TypeOK, FailureMeansExhausted, SuccessIsEarned, ErrorClass, Nil
  <2>c. CASE /\ retry.outer + 1 < B
             /\ next = CallAgain([outer |-> retry.outer + 1, mid |-> 0, inn |-> 0])
    <3>1. /\ result' = "pending"
          /\ retry' \in RetryState
          /\ retry'.inn = 0
          /\ retry'.mid = 0 /\ retry'.outer = retry.outer + 1
      BY <2>c, <2>1, <1>t DEF CallAgain, RetryState
    <3>2. CallsAccounted'
      <4>1. retry.mid * D + retry.inn + 1 <= S
        BY <2>3, <1>0, <1>t, OuterRoom
      <4>2. 0 * D = 0
        BY <1>0
      <4> HIDE DEF S, next
      <4>3. (retry.outer + 1) * S = retry.outer * S + S
        BY <1>t, <1>p
      <4>4. calls' <= retry'.outer * S + retry'.mid * D + retry'.inn + 0
        BY <4>1, <4>2, <4>3, <3>1, <2>4, <2>2, <1>t, <1>p
      <4> QED BY <4>4, <3>1, <2>3, <2>c, <1>0 DEF CallsAccounted, S
    <3> QED
      BY <3>1, <3>2, <2>1, <2>2
      DEF Inv, TypeOK, FailureMeansExhausted, SuccessIsEarned, ErrorClass, Nil
  <2>r. ASSUME NEW v, next = Return(retry, v), v # "pending"
        PROVE  retry' = retry /\ result' = v /\ CallsAccounted'
    <3>1. retry' = retry /\ result' = v
      BY <2>r, <2>1 DEF Return
    <3> HIDE DEF S, next
    <3> QED BY <3>1, <2>3, <2>4, <2>r DEF CallsAccounted, S
  <2>d. CASE next = Return(retry, Nil) /\ InterruptedAsTimeout /\ e = "context"
    <3>1. retry' = retry /\ result' = Nil /\ CallsAccounted'
      BY <2>d, <2>r DEF Nil
    <3> QED
      BY <3>1, <2>1, <2>2, <2>d
      DEF Inv, TypeOK, FailureMeansExhausted, SuccessIsEarned, ErrorClass, Nil
  <2>e. CASE (\E v \in ErrorClass : next = Return(retry, v)) /\ ~(retry.outer + 1 < B)
    <3>0. PICK v \in ErrorClass : next = Return(retry, v)
      BY <2>e
    <3>1. retry' = retry /\ result' = v /\ CallsAccounted'
      BY <3>0, <2>r DEF ErrorClass
    <3>2. retry.outer + 1 = B
      BY <2>e, <2>3, <1>0, <1>t
    <3>3. FailureMeansExhausted' /\ SuccessIsEarned'
      BY <3>1, <3>2 DEF FailureMeansExhausted, SuccessIsEarned, ErrorClass, Nil
    <3> QED BY <3>1, <3>3, <2>1, <2>2, <1>t DEF Inv, TypeOK, ErrorClass
  <2> QED
    <3> HIDE DEF next
    <3>1. \/ /\ retry.inn + 1 < D
             /\ next = CallAgain([retry EXCEPT !.inn = retry.inn + 1])
          \/ /\ retry.mid + 1 < D
             /\ next = CallAgain([outer |-> retry.outer, mid |-> retry.mid + 1, inn |-> 0])
          \/ /\ retry.outer + 1 < B
             /\ next = CallAgain([outer |-> retry.outer + 1, mid |-> 0, inn |-> 0])
          \/ next = Return(retry, Nil) /\ InterruptedAsTimeout /\ e = "context"
          \/ (\E v \in ErrorClass : next = Return(retry, v)) /\ ~(retry.outer + 1 < B)
      BY <1>t, <1>0, <1>2, AfterErrorCases DEF next
    <3> QED BY <3>1, <2>a, <2>b, <2>c, <2>d, <2>e
<1>3. CASE UNCHANGED vars
  BY <1>3 DEF Inv, vars, TypeOK, CallsAccounted, FailureMeansExhausted, SuccessIsEarned
<1> QED BY <1>1, <1>2, <1>3 DEF Next, Done
-----------------------------------------------------------------------------
(* The variables keep their types whatever errors the cluster returns. *)
THEOREM TypeCorrect == Spec => []TypeOK
BY InitInv, NextInv, PTL DEF Spec, Inv

(* The cluster is called at most attempts x steps x steps times by one     *)
(* Ensure or Delete, for every backoff length and every attempts value.    *)
THEOREM Bounded == Spec => []CallsBounded
<1>1. Inv => CallsBounded
  BY AccountBounds DEF Inv
<1> QED BY InitInv, NextInv, <1>1, PTL DEF Spec

(* An error is returned only once the user's attempts are used up. *)
THEOREM Exhausted == Spec => []FailureMeansExhausted
BY InitInv, NextInv, PTL DEF Spec, Inv

(* Success is returned only after a successful call, or a context error    *)
(* taken for exhaustion.                                                   *)
THEOREM Earned == Spec => []SuccessIsEarned
BY InitInv, NextInv, PTL DEF Spec, Inv
=============================================================================

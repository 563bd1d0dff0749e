---------------------------- MODULE PodLogsProofs ----------------------------
(***************************************************************************)
(* What a verdict of kube.Service.LogsContains rests on, proved for every  *)
(* number of pods and every length of the tail.                            *)
(***************************************************************************)
EXTENDS PodLogs, FiniteSetTheorems, TLAPS

(* The call has a result when it is over; a dry run never polls. *)
CallInv ==
    /\ pc = "done" <=> result # "pending"
    /\ dryRun => pc \in {"call", "done"}

(* While the window is open the call's ghost knows every tail that holds   *)
(* the string.                                                             *)
WatchInv ==
    Polling /\ ended = "no" => \A p \in Pods : InTail(p) => p \in appeared

(* The counts of countLogMatches: every request is answered once, a match  *)
(* comes from a tail that held the string, and matches can only keep up    *)
(* with the requests if every pod asked so far had it.                     *)
TickInv ==
    /\ pc # "read" => todo = {}
    /\ pc \in {"call", "poll", "resolve"} => resolved = 0 /\ matched = 0 /\ available = {}
    /\ matched + Cardinality(todo) <= resolved
    /\ matched + Cardinality(todo) = resolved => available \ todo \subseteq appeared
    /\ matched > 0 => appeared # {}

(* Under none, a read with the string is counted in the tick that is to    *)
(* decide about it.                                                        *)
AbsenceInv == match = "none" /\ found => matched > 0

Inv ==
    /\ TypeOK /\ CallInv /\ WatchInv /\ TickInv /\ AbsenceInv
    /\ MatchSeen /\ AbsenceWatched
-----------------------------------------------------------------------------
(* Counting the requests of a tick. *)

(* The requests of a tick are finitely many. *)
LEMMA Counts ==
    ASSUME NEW S \in SUBSET Pods
    PROVE  IsFiniteSet(S) /\ Cardinality(S) \in 0 .. Cardinality(Pods)
<1>1. IsFiniteSet(S) /\ Cardinality(S) <= Cardinality(Pods)
  BY LogsAssumption, FS_Subset
<1>2. Cardinality(S) \in Nat /\ Cardinality(Pods) \in Nat
  BY <1>1, LogsAssumption, FS_CardinalityType
<1> QED BY <1>1, <1>2

(* A request that is done with is one less to make. *)
LEMMA OneLess ==
    ASSUME NEW S \in SUBSET Pods, NEW p \in S
    PROVE  Cardinality(S \ {p}) = Cardinality(S) - 1
BY Counts, FS_RemoveElement

(* The pods asked in a tick (resolvePodsForLogs) are pods of the target. *)
LEMMA RequestsType == ASSUME TypeOK PROVE Requests \in SUBSET Pods
BY DEF Requests, TypeOK
-----------------------------------------------------------------------------
(* Before the call nothing has been read. *)
LEMMA InitInv == Init => Inv
<1> SUFFICES ASSUME Init PROVE Inv
  OBVIOUS
<1> USE DEF Init
<1>0. Cardinality({}) = 0 /\ Cardinality(Pods) \in Nat /\ TailLines \in Nat
  BY FS_EmptySet, FS_CardinalityType, LogsAssumption
<1>1. TypeOK
  <2>1. named \in Pods
    BY LogsAssumption
  <2>2. phase \in [Pods -> PodPhase] /\ since \in [Pods -> 0 .. TailLines]
    BY <1>0 DEF PodPhase
  <2>3. resolved \in 0 .. Cardinality(Pods) /\ matched \in 0 .. resolved
    BY <1>0
  <2> QED BY <2>1, <2>2, <2>3 DEF TypeOK
<1>2. CallInv /\ WatchInv /\ AbsenceInv /\ MatchSeen /\ AbsenceWatched
  BY DEF CallInv, WatchInv, AbsenceInv, MatchSeen, AllSeen, AnySeen, AbsenceWatched, Passes, Polling
<1>3. TickInv
  BY <1>0 DEF TickInv
<1> QED BY <1>1, <1>2, <1>3 DEF Inv

(* LogsContains returns at once in a dry run, or starts to watch every pod. *)
LEMMA LogsContainsInv == Inv /\ LogsContains => Inv'
<1> SUFFICES ASSUME Inv, LogsContains PROVE Inv'
  OBVIOUS
<1> USE DEF Inv, LogsContains, ReturnWith, call, tick
<1>0. Cardinality({}) = 0 /\ Cardinality(Pods) \in Nat
  BY FS_EmptySet, FS_CardinalityType, LogsAssumption
<1>1. TypeOK'
  BY DEF TypeOK
<1>2. CallInv'
  BY DEF CallInv, TypeOK
<1>3. WatchInv'
  BY DEF WatchInv, Polling, InTail
<1>4. TickInv'
  BY <1>0 DEF TickInv, TypeOK
<1>5. AbsenceInv'
  BY DEF AbsenceInv
<1>6. MatchSeen' /\ AbsenceWatched'
  BY DEF MatchSeen, AllSeen, AnySeen, AbsenceWatched, Passes, CallInv
<1> QED BY <1>1, <1>2, <1>3, <1>4, <1>5, <1>6

(* A tick begins with nothing counted. *)
LEMMA StartTickInv == Inv /\ StartTick => Inv'
<1> SUFFICES ASSUME Inv, StartTick PROVE Inv'
  OBVIOUS
<1> USE DEF Inv, StartTick, call, tick
<1>1. TypeOK'
  BY DEF TypeOK
<1>2. CallInv' /\ WatchInv' /\ TickInv' /\ AbsenceInv'
  BY DEF CallInv, WatchInv, TickInv, AbsenceInv, Polling, InTail
<1>3. MatchSeen' /\ AbsenceWatched'
  BY DEF MatchSeen, AllSeen, AnySeen, AbsenceWatched, Passes
<1> QED BY <1>1, <1>2, <1>3

(* resolvePodsForLogs: as many requests as pods to ask. *)
LEMMA ResolvePodsInv == Inv /\ ResolvePods => Inv'
<1> SUFFICES ASSUME Inv, ResolvePods PROVE Inv'
  OBVIOUS
<1> USE DEF Inv, ResolvePods, call
<1>0. Requests \in SUBSET Pods /\ Cardinality(Requests) \in 0 .. Cardinality(Pods)
  BY RequestsType, Counts
<1>1. TypeOK'
  BY <1>0 DEF TypeOK
<1>2. CallInv' /\ WatchInv'
  BY DEF CallInv, WatchInv, Polling, InTail
<1>3. TickInv'
  <2>1. Cardinality(Pods) \in Nat
    BY FS_CardinalityType, LogsAssumption
  <2> QED BY <1>0, <2>1 DEF TickInv
<1>4. AbsenceInv'
  BY DEF AbsenceInv, TickInv
<1>5. MatchSeen' /\ AbsenceWatched'
  BY DEF MatchSeen, AllSeen, AnySeen, AbsenceWatched, Passes, CallInv
<1> QED BY <1>1, <1>2, <1>3, <1>4, <1>5

(* A listing that fails leaves nothing counted. *)
LEMMA ResolveFailsInv == Inv /\ ResolveFails => Inv'
<1> SUFFICES ASSUME Inv, ResolveFails PROVE Inv'
  OBVIOUS
<1> USE DEF Inv, ResolveFails, call, tick
<1>1. TypeOK'
  BY DEF TypeOK
<1>2. CallInv' /\ WatchInv' /\ TickInv' /\ AbsenceInv'
  BY DEF CallInv, WatchInv, TickInv, AbsenceInv, Polling, InTail
<1>3. MatchSeen' /\ AbsenceWatched'
  BY DEF MatchSeen, AllSeen, AnySeen, AbsenceWatched, Passes
<1> QED BY <1>1, <1>2, <1>3

(* A log that was read counts as a match only if its tail held the string  *)
(* while the window was open.                                              *)
LEMMA ReadLogInv == ASSUME NEW p \in Pods PROVE Inv /\ ReadLog(p) => Inv'
<1> SUFFICES ASSUME Inv, ReadLog(p) PROVE Inv'
  OBVIOUS
<1> USE DEF Inv, ReadLog, RequestDone, call
<1>0. /\ todo \in SUBSET Pods /\ Cardinality(todo) \in Nat /\ Cardinality(todo') \in Nat
      /\ Cardinality(todo') = Cardinality(todo) - 1
      /\ resolved \in Nat /\ matched \in Nat
  BY Counts, OneLess DEF TypeOK
<1>1. InTail(p) => p \in appeared
  BY DEF WatchInv, Polling
<1>2. matched' + Cardinality(todo') <= resolved
  BY <1>0 DEF TickInv
<1>3. TypeOK'
  <2>1. matched' \in 0 .. resolved
    BY <1>0, <1>2
  <2>2. found' \in BOOLEAN
    OBVIOUS
  <2> QED BY <2>1, <2>2 DEF TypeOK
<1>4. CallInv' /\ WatchInv'
  BY DEF CallInv, WatchInv, Polling, InTail
<1>5. TickInv'
  <2>1. matched' + Cardinality(todo') = resolved => available \ todo' \subseteq appeared
    <3> SUFFICES ASSUME matched' + Cardinality(todo') = resolved
                 PROVE  available \ todo' \subseteq appeared
      OBVIOUS
    <3>1. InTail(p) /\ matched + Cardinality(todo) = resolved
      BY <1>0 DEF TickInv
    <3> QED BY <3>1, <1>1 DEF TickInv
  <2>2. matched' > 0 => appeared # {}
    BY <1>0, <1>1 DEF TickInv
  <2>3. pc' # "read" => todo' = {}
    OBVIOUS
  <2> QED BY <1>2, <2>1, <2>2, <2>3 DEF TickInv
<1>6. AbsenceInv'
  <2>1. CASE InTail(p)
    BY <1>0, <2>1 DEF AbsenceInv
  <2>2. CASE ~InTail(p)
    <3>1. found' <=> found
      BY <2>2
    <3> QED BY <2>2, <3>1 DEF AbsenceInv
  <2> QED BY <2>1, <2>2
<1>7. MatchSeen' /\ AbsenceWatched'
  BY DEF MatchSeen, AllSeen, AnySeen, AbsenceWatched, Passes, CallInv
<1> QED BY <1>3, <1>4, <1>5, <1>6, <1>7

(* A pod that cannot be read stays among those resolved. *)
LEMMA ReadFailsInv == ASSUME NEW p \in Pods PROVE Inv /\ ReadFails(p) => Inv'
<1> SUFFICES ASSUME Inv, ReadFails(p) PROVE Inv'
  OBVIOUS
<1> USE DEF Inv, ReadFails, RequestDone, UnreadCounts, call
<1>0. /\ todo \in SUBSET Pods /\ Cardinality(todo) \in Nat /\ Cardinality(todo') \in Nat
      /\ Cardinality(todo') = Cardinality(todo) - 1
      /\ resolved \in Nat /\ matched \in Nat
  BY Counts, OneLess DEF TypeOK
<1>1. TypeOK'
  BY DEF TypeOK
<1>2. CallInv' /\ WatchInv' /\ AbsenceInv'
  BY DEF CallInv, WatchInv, AbsenceInv, Polling, InTail
<1>3. TickInv'
  <2>1. matched' + Cardinality(todo') < resolved'
    BY <1>0 DEF TickInv
  <2> QED BY <1>0, <2>1 DEF TickInv
<1>4. MatchSeen' /\ AbsenceWatched'
  BY DEF MatchSeen, AllSeen, AnySeen, AbsenceWatched, Passes, CallInv
<1> QED BY <1>1, <1>2, <1>3, <1>4

(* The end of a tick: a verdict from its counts, or counting starts over. *)
LEMMA DecideInv == Inv /\ Decide => Inv'
<1> SUFFICES ASSUME Inv, Decide PROVE Inv'
  OBVIOUS
<1> USE DEF Inv, Decide, ReturnWith, call, tick
<1>0. /\ todo = {} /\ Cardinality(todo) = 0 /\ ~dryRun
      /\ resolved \in Nat /\ matched \in Nat /\ Cardinality(Pods) \in Nat
  <2>1. todo = {} /\ ~dryRun
    BY DEF TickInv, CallInv
  <2>2. Cardinality({}) = 0 /\ Cardinality(Pods) \in Nat
    BY FS_EmptySet, FS_CardinalityType, LogsAssumption
  <2>3. resolved \in Nat /\ matched \in Nat
    BY <2>2 DEF TypeOK
  <2> QED BY <2>1, <2>2, <2>3
<1>1. CASE Satisfied
  <2> USE <1>1
  <2>1. TypeOK' /\ CallInv'
    BY DEF TypeOK, CallInv
  <2>2. WatchInv' /\ TickInv' /\ AbsenceInv'
    BY <1>0 DEF WatchInv, TickInv, AbsenceInv, Polling, InTail
  <2>3. AllSeen'
    <3> SUFFICES ASSUME match = "all"
                 PROVE  resolved > 0 /\ available \subseteq appeared
      BY DEF AllSeen, Passes
    <3>1. resolved > 0 /\ matched = resolved
      BY DEF Satisfied
    <3> QED BY <3>1, <1>0 DEF TickInv
  <2>4. AnySeen'
    <3> SUFFICES ASSUME match = "any"
                 PROVE  appeared # {}
      BY DEF AnySeen, Passes
    <3> QED BY DEF Satisfied, TickInv
  <2>5. AbsenceWatched'
    BY DEF AbsenceWatched, Passes
  <2> QED BY <2>1, <2>2, <2>3, <2>4, <2>5 DEF MatchSeen
<1>2. CASE ~Satisfied
  <2> USE <1>2
  <2>1. TypeOK' /\ CallInv'
    BY <1>0 DEF TypeOK, CallInv
  <2>2. WatchInv'
    BY DEF WatchInv, Polling, InTail
  <2>3. TickInv'
    BY <1>0 DEF TickInv
  <2>4. AbsenceInv'
    <3>1. match = "none" => ~found
      BY <1>0 DEF AbsenceInv, Satisfied
    <3> QED BY <3>1 DEF AbsenceInv
  <2>5. MatchSeen' /\ AbsenceWatched'
    BY DEF MatchSeen, AllSeen, AnySeen, AbsenceWatched, Passes, CallInv
  <2> QED BY <2>1, <2>2, <2>3, <2>4, <2>5
<1> QED BY <1>1, <1>2

(* The poll ends unsatisfied: nil is returned only under none, at the end  *)
(* of the window, when no read of the call had the string.                 *)
LEMMA PollEndsInv == Inv /\ PollEnds => Inv'
<1> SUFFICES ASSUME Inv, PollEnds PROVE Inv'
  OBVIOUS
<1> USE DEF Inv, PollEnds, ReturnWith, call, tick
<1>1. PollError \in {"nil", "error", "ErrLogsNotContain"}
  BY DEF PollError
<1>2. TypeOK' /\ CallInv'
  BY <1>1 DEF TypeOK, CallInv
<1>3. WatchInv' /\ TickInv' /\ AbsenceInv'
  BY DEF WatchInv, TickInv, AbsenceInv, Polling, InTail
<1>4. MatchSeen'
  <2>1. match # "none" => PollError # "nil"
    BY DEF PollError
  <2> QED BY <2>1 DEF MatchSeen, AllSeen, AnySeen, Passes
<1>5. AbsenceWatched'
  <2> SUFFICES ASSUME match = "none", PollError = "nil"
               PROVE  ended = "deadline" /\ ~canceled /\ ~found
    BY DEF AbsenceWatched, Passes
  <2>1. ended = "deadline" /\ ~canceled
    BY DEF PollError
  <2>2. ~found
    BY DEF AbsenceInv, TickInv
  <2> QED BY <2>1, <2>2
<1> QED BY <1>2, <1>3, <1>4, <1>5

(* The window closes, or the caller gives up, before there is a verdict. *)
LEMMA ContextInv == Inv /\ (WindowElapses \/ Cancel) => Inv'
<1> SUFFICES ASSUME Inv, WindowElapses \/ Cancel PROVE Inv'
  OBVIOUS
<1> USE DEF Inv, WindowElapses, Cancel, call, tick
<1>0. /\ UNCHANGED <<phase, since, call, pc, tick, result, appeared, found>>
      /\ pc # "done" /\ ended' \in {"no", "deadline", "canceled"} /\ canceled' \in BOOLEAN
  BY DEF TypeOK, Polling
<1>1. TypeOK'
  BY <1>0 DEF TypeOK
<1>2. CallInv' /\ TickInv' /\ AbsenceInv'
  BY <1>0 DEF CallInv, TickInv, AbsenceInv
<1>3. WatchInv'
  BY <1>0 DEF WatchInv, Polling, InTail
<1>4. MatchSeen' /\ AbsenceWatched'
  BY <1>0 DEF MatchSeen, AllSeen, AnySeen, AbsenceWatched, Passes, CallInv
<1> QED BY <1>1, <1>2, <1>3, <1>4

(* A pod's log changes while the call is on. *)
LEMMA SetLogInv ==
    ASSUME NEW p \in Pods, NEW n \in 0 .. TailLines, pc # "done"
    PROVE  Inv /\ SetLog(p, n) => Inv'
<1> SUFFICES ASSUME Inv, SetLog(p, n) PROVE Inv'
  OBVIOUS
<1> USE DEF Inv, SetLog, call, tick
<1>1. appeared \subseteq appeared' /\ appeared' \subseteq Pods
  BY DEF TypeOK
<1>2. TypeOK'
  BY <1>1 DEF TypeOK
<1>3. CallInv' /\ AbsenceInv'
  BY DEF CallInv, AbsenceInv
<1>4. WatchInv'
  BY DEF WatchInv, Polling, InTail, TypeOK
<1>5. TickInv'
  BY <1>1 DEF TickInv
<1>6. MatchSeen' /\ AbsenceWatched'
  BY DEF MatchSeen, AllSeen, AnySeen, AbsenceWatched, Passes, CallInv
<1> QED BY <1>2, <1>3, <1>4, <1>5, <1>6

(* Whatever the pods do while the call is on. *)
LEMMA PodStepInv == Inv /\ pc # "done" /\ PodStep => Inv'
<1> SUFFICES ASSUME Inv, pc # "done", NEW p \in Pods,
                    WritesString(p) \/ WritesLine(p) \/ Restarts(p) \/ ChangesPhase(p)
             PROVE  Inv'
  BY DEF PodStep
<1>0. since \in [Pods -> 0 .. TailLines] /\ TailLines \in Nat
  BY LogsAssumption DEF Inv, TypeOK
<1>1. CASE WritesString(p) \/ WritesLine(p) \/ Restarts(p)
  <2>1. \E n \in 0 .. TailLines : SetLog(p, n)
    BY <1>0, <1>1 DEF WritesString, WritesLine, Restarts, InTail
  <2> QED BY <2>1, SetLogInv
<1>2. CASE ChangesPhase(p)
  <2>0. UNCHANGED <<since, call, pc, tick, ended, canceled, result, appeared, found>>
    BY <1>2 DEF ChangesPhase
  <2>1. phase' \in [Pods -> PodPhase]
    <3>1. phase \in [Pods -> PodPhase] /\ phase[p] \in PodPhase \ {"gone"}
      BY <1>2 DEF Inv, TypeOK, ChangesPhase
    <3>2. Successors[phase[p]] \subseteq PodPhase
      BY <3>1 DEF Successors, PodPhase
    <3> QED BY <1>2, <3>1, <3>2 DEF ChangesPhase
  <2>2. TypeOK'
    BY <2>0, <2>1 DEF Inv, TypeOK, call, tick
  <2> QED
    BY <2>0, <2>2 DEF Inv, CallInv, WatchInv, TickInv, AbsenceInv, MatchSeen, AllSeen, AnySeen,
                      AbsenceWatched, Passes, Polling, InTail, call, tick
<1> QED BY <1>1, <1>2

(* Stuttering changes nothing the invariant reads. *)
LEMMA StutterInv == Inv /\ UNCHANGED vars => Inv'
BY DEF Inv, TypeOK, CallInv, WatchInv, TickInv, AbsenceInv, MatchSeen, AllSeen, AnySeen,
       AbsenceWatched, Passes, Polling, InTail, call, tick, vars

(* Every step of the call, its contexts and the pods keeps the invariant. *)
LEMMA NextInv == Inv /\ [Next]_vars => Inv'
BY LogsContainsInv, StartTickInv, ResolvePodsInv, ResolveFailsInv, ReadLogInv, ReadFailsInv,
   DecideInv, PollEndsInv, ContextInv, PodStepInv, StutterInv DEF Next, LogStep, Done

(* The invariant holds throughout. *)
THEOREM Invariance == Spec => []Inv
<1>1. Inv /\ [Next]_vars => Inv'
  BY NextInv
<1> QED BY InitInv, <1>1, PTL DEF Spec

(* Every variable of the call and of the pods keeps its type; in           *)
(* particular countLogMatches never counts more matches than requests.     *)
THEOREM TypeCorrect == Spec => []TypeOK
<1>1. Inv => TypeOK
  BY DEF Inv
<1> QED BY Invariance, <1>1, PTL

(* A pass of LogsContains under any or all rests on logs that showed the   *)
(* string while the call watched, for any number of pods that fail,        *)
(* restart and go between the listing of a tick and its reads.             *)
THEOREM PassesAreSeen == Spec => []MatchSeen
<1>1. Inv => MatchSeen
  BY DEF Inv
<1> QED BY Invariance, <1>1, PTL

(* A pass of LogsContains under none means that the window has elapsed,    *)
(* the caller did not give up, and no read contained the string.           *)
THEOREM AbsenceIsWatched == Spec => []AbsenceWatched
<1>1. Inv => AbsenceWatched
  BY DEF Inv
<1> QED BY Invariance, <1>1, PTL
=============================================================================

------------------------------- MODULE TestRun -------------------------------
(***************************************************************************)
(* What a run of kube2e promises, whoever executes it and however: every   *)
(* suite runs at most once and never more than Slots of them at a time;    *)
(* the report lists every suite that was run, in order, and only when the  *)
(* last one is over; the exit status is success only if every suite        *)
(* passed; the run ends.  Until the run is interrupted every suite has to  *)
(* be run; afterwards it is free to run the others or to leave them out.   *)
(* A run may fail before its first suite, and after its last.  Engine      *)
(* implements this specification.                                          *)
(***************************************************************************)
EXTENDS Naturals, Sequences, FiniteSets

CONSTANTS
    Count,   \* how many suites the run finds
    Slots    \* how many of them may run at the same time

VARIABLES
    status,       \* status[i] of suite i
    interrupted,  \* somebody asked the run to stop
    report,       \* the suites it lists, and how many of them passed and failed
    exit          \* the exit status

vars == <<status, interrupted, report, exit>>

All == 1 .. Count
In(s) == {i \in All : status[i] = s}

(* The members of a finite set of numbers, in ascending order. *)
InOrder(S) ==
    [k \in 1 .. Cardinality(S) |-> CHOOSE i \in S : Cardinality({j \in S : j < i}) = k - 1]

NoReport == [suites |-> <<>>, passed |-> 0, failed |-> 0]
FullReport == [suites |-> InOrder(In("passed") \cup In("failed")),
               passed |-> Cardinality(In("passed")), failed |-> Cardinality(In("failed"))]

Init ==
    /\ status = [i \in All |-> "waiting"]
    /\ interrupted = FALSE
    /\ report = NoReport
    /\ exit = "none"

Begin(i) ==
    /\ exit = "none" /\ report = NoReport
    /\ status[i] = "waiting"
    /\ Cardinality(In("running")) < Slots
    /\ status' = [status EXCEPT ![i] = "running"]
    /\ UNCHANGED <<interrupted, report, exit>>

End(i) ==
    /\ status[i] = "running"
    /\ \E verdict \in {"passed", "failed"} : status' = [status EXCEPT ![i] = verdict]
    /\ UNCHANGED <<interrupted, report, exit>>

Interrupt ==
    /\ exit = "none"
    /\ interrupted' = TRUE
    /\ UNCHANGED <<status, report, exit>>

(* Nothing runs, and only an interrupted run has left suites out. *)
Over == In("running") = {} /\ (In("waiting") = {} \/ interrupted)

Publish ==
    /\ exit = "none" /\ report = NoReport /\ Over
    /\ report' = FullReport
    /\ UNCHANGED <<status, interrupted, exit>>

(* The run failed before its first suite. *)
Stop ==
    /\ exit = "none" /\ All = In("waiting")
    /\ exit' = "failure"
    /\ UNCHANGED <<status, interrupted, report>>

(* Success is earned by every suite; anything else is a failure. *)
Exit ==
    /\ exit = "none" /\ Over /\ report = FullReport
    /\ \/ exit' = "failure"
       \/ All = In("passed") /\ exit' = "success"
    /\ UNCHANGED <<status, interrupted, report>>

(* What the run itself does; an interrupt comes from outside, or never. *)
Progress == (\E i \in All : Begin(i) \/ End(i)) \/ Publish \/ Stop \/ Exit

Next == Progress \/ Interrupt

Spec == Init /\ [][Next]_vars /\ WF_vars(Progress)
=============================================================================

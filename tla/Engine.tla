------------------------------- MODULE Engine --------------------------------
(***************************************************************************)
(* A run of kube2e from its work directory to its exit status: discovery   *)
(* and the worker pool of pkg/engine, the suites' loops over their case    *)
(* files (internal/engine/test), the image a remote run extracts           *)
(* (internal/image) and the report file (pkg/command/run).                 *)
(*                                                                         *)
(* A case is one step here: it ends passed, skipped, failed, or aborted,   *)
(* which is failed with an error that wraps context.Canceled or            *)
(* context.DeadlineExceeded.  CaseRun says what happens inside.            *)
(***************************************************************************)
EXTENDS Naturals, Integers, Sequences, FiniteSets

CONSTANTS
    Entries,     \* the work directory in os.ReadDir order, a sequence of names
    Kind,        \* Kind[n]: "suite", "hidden" (a dot directory) or "file"
    CaseCount,   \* CaseCount[n]: how many case files suite n has
    Parallel,    \* cfg.Parallel, any integer
    Remote,      \* is cfg.Remote.Ref set?
    Interrupts   \* may the run context be canceled?

ASSUME EngineAssumption ==
    /\ Entries \in Seq(DOMAIN Kind)
    /\ \A n \in DOMAIN Kind : Kind[n] \in {"suite", "hidden", "file"}
    /\ CaseCount \in [DOMAIN Kind -> Nat]
    /\ Parallel \in Int
    /\ Remote \in BOOLEAN /\ Interrupts \in BOOLEAN

CaseOutcome == {"passed", "skipped", "failed", "aborted"}

(* The members of a finite set of numbers, in ascending order. *)
Ascending(S) ==
    [k \in 1 .. Cardinality(S) |-> CHOOSE i \in S : Cardinality({j \in S : j < i}) = k - 1]

(* runLocal: every directory that is not hidden is a suite. *)
IsSuite(n) == Kind[n] = "suite"
dirs ==
    LET places == Ascending({i \in DOMAIN Entries : IsSuite(Entries[i])})
    IN  [k \in DOMAIN places |-> Entries[places[k]]]

Suites == DOMAIN dirs

(* The pool's limit: values below one mean sequential execution. *)
Limit == IF Parallel < 1 THEN 1 ELSE Parallel

VARIABLES
    pc,           \* the main goroutine
    next,         \* the pool's loop: the next suite to start
    state,        \* state[i]: "waiting", "running" or "ended"
    cases,        \* cases[i]: the outcomes of the cases suite i has executed
    testErr,      \* testErr[i]: the error test.Run returned for suite i
    reports,      \* the reports stored so far, in order of completion
    interrupted,  \* the run context is done
    tempDir,      \* the extracted image: "none", "present" or "removed"
    tests,        \* report.Tests: the indices of the suites, in report order
    total,        \* report.Total
    runErr        \* the error RunTests returns

vars == <<pc, next, state, cases, testErr, reports, interrupted, tempDir, tests, total, runErr>>
pool == <<next, state, cases, testErr, reports>>
result == <<tests, total, runErr>>

TypeOK ==
    /\ pc \in {"config", "start", "read", "pool", "collect", "report", "exit"}
    /\ next \in 1 .. Len(dirs) + 1
    /\ state \in [Suites -> {"waiting", "running", "ended"}]
    /\ cases \in [Suites -> Seq(CaseOutcome)]
    /\ testErr \in [Suites -> BOOLEAN]
    /\ reports \in Seq(Suites)
    /\ interrupted \in BOOLEAN /\ runErr \in BOOLEAN
    /\ tempDir \in {"none", "present", "removed"}
    /\ tests \in Seq(Suites)
    /\ total \in Nat

Init ==
    /\ pc = "config"
    /\ next = 1
    /\ state = [i \in Suites |-> "waiting"]
    /\ cases = [i \in Suites |-> <<>>]
    /\ testErr = [i \in Suites |-> FALSE]
    /\ reports = <<>>
    /\ interrupted = FALSE
    /\ tempDir = "none"
    /\ tests = <<>> /\ total = 0 /\ runErr = FALSE
-----------------------------------------------------------------------------
(* The command: unless it is a dry run it loads a kubeconfig, and without  *)
(* one it ends before there is anything to report.                         *)
BuildRestConfig ==
    /\ pc = "config"
    /\ \/ pc' = "start" /\ UNCHANGED runErr
       \/ pc' = "exit" /\ runErr' = TRUE
    /\ UNCHANGED <<pool, interrupted, tempDir, tests, total>>

(* RunTests: a remote run pulls and extracts the image first.  Pulling,    *)
(* extracting or the digest may fail; the directory is removed on return.  *)
StartRun ==
    /\ pc = "start"
    /\ \/ /\ pc' = "read"
          /\ tempDir' = IF Remote THEN "present" ELSE "none"
          /\ UNCHANGED runErr
       \/ /\ Remote
          /\ pc' = "report"
          /\ runErr' = TRUE
          /\ tempDir' \in {"none", "removed"}
    /\ UNCHANGED <<pool, interrupted, tests, total>>

(* runLocal reads the work directory. *)
ReadWorkDir ==
    /\ pc = "read"
    /\ \/ /\ pc' = "pool"
          /\ total' = Len(dirs)
          /\ UNCHANGED runErr
       \/ /\ pc' = "report"
          /\ runErr' = TRUE
          /\ UNCHANGED total
    /\ tempDir' = IF pc' = "report" /\ tempDir = "present" THEN "removed" ELSE tempDir
    /\ UNCHANGED <<pool, interrupted, tests>>
-----------------------------------------------------------------------------
Running == {i \in Suites : state[i] = "running"}

(* Mutant: the loop runs past the last suite. *)
MoreSuitesOffByOne == next <= Len(dirs) + 1

(* The pool's loop is not over. *)
MoreSuites == next <= Len(dirs)

(* The pool's loop starts the next suite as soon as a slot is free. *)
Dispatch ==
    /\ pc = "pool" /\ MoreSuites
    /\ Cardinality(Running) < Limit
    /\ state' = [state EXCEPT ![next] = "running"]
    /\ next' = next + 1
    /\ UNCHANGED <<pc, cases, testErr, reports, interrupted, tempDir, result>>

(* test.Run returns with or without an error and the worker stores both    *)
(* under the mutex.                                                        *)
EndSuite(i, e) ==
    /\ state' = [state EXCEPT ![i] = "ended"]
    /\ testErr' = [testErr EXCEPT ![i] = e]
    /\ reports' = Append(reports, i)

(* The templates or the cases directory cannot be read. *)
SuiteSetupFails(i) ==
    /\ state[i] = "running" /\ cases[i] = <<>>
    /\ EndSuite(i, TRUE)
    /\ UNCHANGED <<pc, next, cases, interrupted, tempDir, result>>

(* The loop over the case files is over. *)
CasesOver(i) == Len(cases[i]) = CaseCount[dirs[i]]

(* A case that ends with a context error ends its suite. *)
RunCase(i, outcome) ==
    /\ state[i] = "running" /\ ~CasesOver(i)
    /\ cases' = [cases EXCEPT ![i] = Append(@, outcome)]
    /\ IF outcome = "aborted"
       THEN EndSuite(i, TRUE)
       ELSE UNCHANGED <<state, testErr, reports>>
    /\ UNCHANGED <<pc, next, interrupted, tempDir, result>>

(* Mutant: only the last case decides. *)
LastCaseFailed(i) == cases[i] # <<>> /\ cases[i][Len(cases[i])] = "failed"

(* The joined errors of the cases are not nil. *)
AnyCaseFailed(i) == \E k \in DOMAIN cases[i] : cases[i][k] = "failed"

FinishSuite(i) ==
    /\ state[i] = "running" /\ CasesOver(i)
    /\ EndSuite(i, AnyCaseFailed(i))
    /\ UNCHANGED <<pc, next, cases, interrupted, tempDir, result>>

(* Mutant: a worker whose suite failed never counts as done. *)
AllPassed == ~MoreSuites /\ Running = {} /\ \A i \in Suites : ~testErr[i]

(* errgroup.Wait: the loop is over and every worker has returned. *)
PoolDone == ~MoreSuites /\ Running = {}

WaitForPool ==
    /\ pc = "pool" /\ PoolDone
    /\ pc' = "collect"
    /\ UNCHANGED <<pool, interrupted, tempDir, result>>

(* The stored reports in discovery order. *)
DiscoveryOrder == Ascending({i \in Suites : \E k \in DOMAIN reports : reports[k] = i})

(* Mutant: the extracted image is left behind. *)
TempDirKept == tempDir

(* Traverse removes the directory when the run returns. *)
TempDirAfterRun == IF tempDir = "present" THEN "removed" ELSE tempDir

(* No worker returns an error, so the pool's own error is nil. *)
Collect ==
    /\ pc = "collect"
    /\ pc' = "report"
    /\ tests' = DiscoveryOrder
    /\ runErr' = (\E i \in Suites : testErr[i])
    /\ tempDir' = TempDirAfterRun
    /\ UNCHANGED <<pool, interrupted, total>>

(* The report file, when asked for, is written or adds its error. *)
WriteReport ==
    /\ pc = "report"
    /\ pc' = "exit"
    /\ runErr' \in {runErr, TRUE}
    /\ UNCHANGED <<pool, interrupted, tempDir, tests, total>>

(* SIGINT or SIGTERM. *)
Interrupt ==
    /\ Interrupts /\ ~interrupted /\ pc # "exit"
    /\ interrupted' = TRUE
    /\ UNCHANGED <<pc, pool, tempDir, result>>

Exited == pc = "exit" /\ UNCHANGED vars

SuiteStep(i) ==
    SuiteSetupFails(i) \/ (\E o \in CaseOutcome : RunCase(i, o)) \/ FinishSuite(i)

MainStep ==
    \/ BuildRestConfig \/ StartRun \/ ReadWorkDir
    \/ Dispatch \/ WaitForPool \/ Collect \/ WriteReport

Next == MainStep \/ (\E i \in Suites : SuiteStep(i)) \/ Interrupt \/ Exited

(* Go schedules the main goroutine and every worker; each case ends. *)
Spec ==
    /\ Init /\ [][Next]_vars
    /\ WF_vars(MainStep)
    /\ \A i \in Suites : WF_vars(SuiteStep(i))
-----------------------------------------------------------------------------
(* The statuses, the report and the exit status of the run, as TestRun     *)
(* names them.                                                             *)
SuiteStatus == [i \in Suites |->
                   IF state[i] # "ended" THEN state[i]
                   ELSE IF testErr[i] THEN "failed" ELSE "passed"]

(* countTests over report.Tests. *)
CountFailed == Cardinality({k \in DOMAIN tests : testErr[tests[k]]})
CountPassed == Len(tests) - CountFailed

ExitStatus == IF pc # "exit" THEN "none" ELSE IF runErr THEN "failure" ELSE "success"

AtMost == IF Parallel < 2 THEN 1 ELSE Parallel

Promise == INSTANCE TestRun WITH
    Count <- Len(dirs), Slots <- AtMost,
    status <- SuiteStatus, exit <- ExitStatus,
    report <- [suites |-> tests, passed |-> CountPassed, failed |-> CountFailed]

(* A run keeps its promises, whatever its suites do, in whatever order the *)
(* workers end, and interrupted or not: at most -n suites at a time, every *)
(* suite that was run in the report once and in discovery order, none left *)
(* out unless the run was interrupted, a successful exit only after every  *)
(* suite has ended and passed, and an exit in the end.                     *)
KeepsPromise == Promise!Spec

(* A suite is reported as passed only when each of its case files was      *)
(* executed and none failed.                                               *)
NoFalsePass ==
    \A i \in Suites : state[i] = "ended" /\ ~testErr[i] =>
        /\ Len(cases[i]) = CaseCount[dirs[i]]
        /\ \A k \in DOMAIN cases[i] : cases[i][k] \in {"passed", "skipped"}

(* The extracted image is there while suites of a remote run execute, and  *)
(* gone when the run is over.                                              *)
TempDirScoped ==
    /\ Remote /\ Running # {} => tempDir = "present"
    /\ pc = "exit" => tempDir # "present"

(* docs/releases/v0.1.1.md, on an interrupt: "Parallel suites (`-n`) stop  *)
(* dispatching new work."  Once the run context is canceled no suite that  *)
(* still waits is started.                                                 *)
StopsDispatching ==
    [][interrupted => \A i \in Suites : state[i] = "waiting" => state'[i] = "waiting"]_vars
=============================================================================

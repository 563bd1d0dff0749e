---------------------------- MODULE EngineProofs -----------------------------
(***************************************************************************)
(* A run of kube2e, proved for every work directory, every number of cases *)
(* and every -n: a suite's verdict, the extracted image, and the safety    *)
(* half of the promise TestRun states.                                     *)
(***************************************************************************)
EXTENDS Engine, FiniteSetTheorems, TLAPS

(* The pool starts the suites in order, and a suite has a report when its  *)
(* worker has returned.                                                    *)
PoolInv ==
    /\ \A i \in Suites : state[i] = "waiting" <=> next <= i
    /\ \A i \in Suites : state[i] = "ended" <=> \E k \in DOMAIN reports : reports[k] = i
    /\ Running # {} => pc = "pool"
    /\ pc \in {"config", "start", "read"} => next = 1
    /\ pc = "collect" => \A i \in Suites : state[i] = "ended"

(* The report is empty until the pool is done, and full afterwards; a run  *)
(* that fails before its pool starts has no suite to report.               *)
ReportInv ==
    /\ pc \in {"config", "start", "read", "pool", "collect"} => tests = <<>>
    /\ pc = "report" =>
          \/ next = 1 /\ tests = <<>> /\ runErr
          \/ /\ \A i \in Suites : state[i] = "ended"
             /\ tests = [i \in 1 .. Len(dirs) |-> i]
             /\ runErr <=> \E i \in Suites : testErr[i]

(* An aborted case ends its suite. *)
CasesInv ==
    \A i \in Suites : state[i] # "ended" => \A k \in DOMAIN cases[i] : cases[i][k] # "aborted"

(* The extracted image lives from the start of a remote run to its end. *)
TempDirInv ==
    /\ pc \in {"read", "pool", "collect"} => tempDir = IF Remote THEN "present" ELSE "none"
    /\ pc \notin {"read", "pool", "collect"} => tempDir # "present"

Inv == TypeOK /\ PoolInv /\ ReportInv /\ CasesInv /\ TempDirInv /\ NoFalsePass
-----------------------------------------------------------------------------
(* The operators the model is built from. *)

(* Discovery finds finitely many suites, in a sequence. *)
LEMMA Discovered ==
    Len(dirs) \in Nat /\ Suites = 1 .. Len(dirs) /\ IsFiniteSet(Suites) /\ Cardinality(Suites) = Len(dirs)
<1> DEFINE S == {i \in DOMAIN Entries : IsSuite(Entries[i])}
           n == Cardinality(S)
           places == Ascending(S)
           e(k) == Entries[places[k]]
<1>1. n \in Nat
  <2>1. DOMAIN Entries = 1 .. Len(Entries) /\ Len(Entries) \in Nat
    BY EngineAssumption
  <2>2. IsFiniteSet(DOMAIN Entries)
    BY <2>1, FS_Interval
  <2>3. IsFiniteSet(S)
    BY <2>2, FS_Subset
  <2> QED BY <2>3, FS_CardinalityType
<1>2. DOMAIN places = 1 .. n
  BY DEF Ascending
<1>3. dirs = [k \in 1 .. n |-> e(k)]
  BY <1>2, Zenon DEF dirs
<1> HIDE DEF n, e
<1>4. Len(dirs) = n /\ DOMAIN dirs = 1 .. n
  BY <1>1, <1>3
<1>5. IsFiniteSet(1 .. n) /\ Cardinality(1 .. n) = n
  BY <1>1, FS_Interval
<1> QED BY <1>1, <1>4, <1>5 DEF Suites

(* The numbers up to n in ascending order: nothing is left out of the      *)
(* report of a run whose suites all ended, and nothing is moved.           *)
LEMMA AscendingAll ==
    ASSUME NEW n \in Nat
    PROVE  Ascending(1 .. n) = [i \in 1 .. n |-> i]
<1> DEFINE below(i) == {j \in 1 .. n : j < i}
<1>1. Cardinality(1 .. n) = n
  BY FS_Interval
<1>2. ASSUME NEW i \in 1 .. n PROVE Cardinality(below(i)) = i - 1
  <2>1. below(i) = 1 .. (i - 1)
    OBVIOUS
  <2>2. 1 \in Int /\ i - 1 \in Int /\ i - 1 >= 0
    OBVIOUS
  <2>3. Cardinality(1 .. (i - 1)) = IF 1 > i - 1 THEN 0 ELSE (i - 1) - 1 + 1
    BY <2>2, FS_Interval
  <2>4. Cardinality(1 .. (i - 1)) = i - 1
    BY <2>2, <2>3
  <2> QED BY <2>1, <2>4
<1>3. ASSUME NEW k \in 1 .. n
      PROVE  (CHOOSE i \in 1 .. n : Cardinality(below(i)) = k - 1) = k
  <2> HIDE DEF below
  <2>1. Cardinality(below(k)) = k - 1
    BY <1>2
  <2>2. ASSUME NEW i \in 1 .. n, Cardinality(below(i)) = k - 1 PROVE i = k
    BY <1>2, <2>2
  <2> QED BY <2>1, <2>2
<1> QED BY <1>1, <1>3 DEF Ascending

(* A suite that is appended to the reports joins those that have one. *)
LEMMA ReportAppended ==
    ASSUME NEW r \in Seq(Suites), NEW i \in Suites
    PROVE  /\ Append(r, i) \in Seq(Suites)
           /\ \A j \in Suites : (\E k \in DOMAIN Append(r, i) : Append(r, i)[k] = j)
                                  <=> ((\E k \in DOMAIN r : r[k] = j) \/ j = i)
<1>1. /\ Append(r, i) \in Seq(Suites) /\ Len(r) \in Nat /\ DOMAIN r = 1 .. Len(r)
      /\ Len(Append(r, i)) = Len(r) + 1
      /\ DOMAIN Append(r, i) = 1 .. Len(r) + 1
  OBVIOUS
<1>2. Append(r, i)[Len(r) + 1] = i
  OBVIOUS
<1>3. \A k \in 1 .. Len(r) : Append(r, i)[k] = r[k]
  OBVIOUS
<1>4. \A k \in 1 .. Len(r) + 1 : k \in 1 .. Len(r) \/ k = Len(r) + 1
  BY <1>1
<1>5. \A k \in 1 .. Len(r) : k \in 1 .. Len(r) + 1
  BY <1>1
<1>6. Len(r) + 1 \in 1 .. Len(r) + 1
  BY <1>1
<1>7. ASSUME NEW j \in Suites, NEW k \in 1 .. Len(r) + 1, Append(r, i)[k] = j
      PROVE  (\E m \in 1 .. Len(r) : r[m] = j) \/ j = i
  BY <1>2, <1>3, <1>4, <1>7
<1>8. ASSUME NEW j \in Suites, (\E m \in 1 .. Len(r) : r[m] = j) \/ j = i
      PROVE  \E k \in 1 .. Len(r) + 1 : Append(r, i)[k] = j
  BY <1>2, <1>3, <1>5, <1>6, <1>8
<1> QED BY <1>1, <1>7, <1>8
-----------------------------------------------------------------------------
(* The inductive invariant. *)

(* Nothing has happened when the command starts. *)
LEMMA InitInv == Init => Inv
<1> SUFFICES ASSUME Init PROVE Inv
  OBVIOUS
<1> USE DEF Init
<1>1. TypeOK
  <2>1. next \in 1 .. Len(dirs) + 1
    BY Discovered
  <2>2. cases \in [Suites -> Seq(CaseOutcome)] /\ reports \in Seq(Suites) /\ tests \in Seq(Suites)
    OBVIOUS
  <2> QED BY <2>1, <2>2 DEF TypeOK
<1>2. PoolInv
  BY Discovered DEF PoolInv, Running
<1>3. ReportInv /\ CasesInv /\ TempDirInv /\ NoFalsePass
  BY DEF ReportInv, CasesInv, TempDirInv, NoFalsePass
<1> QED BY <1>1, <1>2, <1>3 DEF Inv

(* The steps before the pool: configuration, the image, the directory. *)
LEMMA StartInv == Inv /\ (BuildRestConfig \/ StartRun \/ ReadWorkDir) => Inv'
<1> SUFFICES ASSUME Inv, BuildRestConfig \/ StartRun \/ ReadWorkDir PROVE Inv'
  OBVIOUS
<1> USE DEF Inv, BuildRestConfig, StartRun, ReadWorkDir, pool
<1>0. /\ UNCHANGED <<pool, interrupted, tests>>
      /\ pc \in {"config", "start", "read"} /\ pc' \in {"start", "read", "pool", "report", "exit"}
      /\ next = 1 /\ tests = <<>> /\ Running = {}
      /\ pc' \in {"report", "exit"} => runErr'
      /\ tempDir' \in {"none", "present", "removed"} /\ runErr' \in BOOLEAN /\ total' \in Nat
  BY Discovered DEF PoolInv, ReportInv, TypeOK
<1>1. TypeOK'
  BY <1>0 DEF TypeOK
<1>2. PoolInv'
  BY <1>0 DEF PoolInv, Running
<1>3. ReportInv'
  BY <1>0 DEF ReportInv
<1>4. CasesInv' /\ NoFalsePass'
  BY <1>0 DEF CasesInv, NoFalsePass
<1>5. TempDirInv'
  BY EngineAssumption DEF TempDirInv, TypeOK
<1> QED BY <1>1, <1>2, <1>3, <1>4, <1>5

(* The pool's loop starts the next suite. *)
LEMMA DispatchInv == Inv /\ Dispatch => Inv'
<1> SUFFICES ASSUME Inv, Dispatch PROVE Inv'
  OBVIOUS
<1> USE DEF Inv, Dispatch, MoreSuites, result
<1>0. next \in Suites /\ Suites = 1 .. Len(dirs) /\ Len(dirs) \in Nat
  BY Discovered DEF TypeOK
<1>1. TypeOK'
  BY <1>0 DEF TypeOK
<1>2. PoolInv'
  <2>1. \A i \in Suites : state'[i] = "waiting" <=> next' <= i
    BY <1>0 DEF PoolInv, TypeOK
  <2>2. \A i \in Suites : state'[i] = "ended" <=> state[i] = "ended"
    BY <1>0 DEF PoolInv, TypeOK
  <2> QED BY <2>1, <2>2 DEF PoolInv
<1>3. ReportInv' /\ TempDirInv'
  BY DEF ReportInv, TempDirInv
<1>4. CasesInv' /\ NoFalsePass'
  BY <1>0 DEF CasesInv, NoFalsePass, PoolInv, TypeOK
<1> QED BY <1>1, <1>2, <1>3, <1>4

(* A worker returns and stores its report and error, if it has one. *)
LEMMA EndSuiteInv ==
    ASSUME Inv, NEW i \in Suites, NEW e \in BOOLEAN, state[i] = "running", EndSuite(i, e),
           UNCHANGED <<pc, next, interrupted, tempDir, result>>,
           cases' \in [Suites -> Seq(CaseOutcome)], \A j \in Suites \ {i} : cases'[j] = cases[j],
           ~e => /\ Len(cases'[i]) = CaseCount[dirs[i]]
                 /\ \A k \in DOMAIN cases'[i] : cases'[i][k] \in {"passed", "skipped"}
    PROVE  Inv'
<1> USE DEF Inv, EndSuite, result
<1>0. /\ state \in [Suites -> {"waiting", "running", "ended"}] /\ testErr \in [Suites -> BOOLEAN]
      /\ reports \in Seq(Suites) /\ Running # {}
  BY DEF TypeOK, Running
<1>1. reports' \in Seq(Suites)
  BY <1>0, ReportAppended
<1>2. pc = "pool"
  BY <1>0 DEF PoolInv
<1>3. /\ state'[i] = "ended" /\ testErr'[i] = e
      /\ \A j \in Suites \ {i} : state'[j] = state[j] /\ testErr'[j] = testErr[j]
  BY <1>0
<1>4. TypeOK'
  BY <1>0, <1>1 DEF TypeOK
<1>5. PoolInv'
  <2>1. \A j \in Suites : state'[j] = "waiting" <=> next <= j
    BY <1>3 DEF PoolInv
  <2>2. \A j \in Suites : state'[j] = "ended" <=> \E k \in DOMAIN reports' : reports'[k] = j
    <3> SUFFICES ASSUME NEW j \in Suites
                 PROVE  state'[j] = "ended" <=> \E k \in DOMAIN reports' : reports'[k] = j
      OBVIOUS
    <3>a. (\E k \in DOMAIN Append(reports, i) : Append(reports, i)[k] = j)
             <=> ((\E k \in DOMAIN reports : reports[k] = j) \/ j = i)
      BY <1>0, ReportAppended, Zenon
    <3>0. reports' = Append(reports, i)
      OBVIOUS
    <3>1. (\E k \in DOMAIN reports' : reports'[k] = j)
             <=> ((\E k \in DOMAIN reports : reports[k] = j) \/ j = i)
      BY <3>0, <3>a, Zenon
    <3>2. state[j] = "ended" <=> \E k \in DOMAIN reports : reports[k] = j
      BY DEF PoolInv
    <3> QED BY <1>3, <3>1, <3>2
  <2> QED BY <1>2, <2>1, <2>2 DEF PoolInv
<1>6. ReportInv'
  <2>1. pc' = "pool" /\ tests' = <<>>
    BY <1>2 DEF ReportInv
  <2> QED BY <2>1 DEF ReportInv
<1>9. TempDirInv'
  BY DEF TempDirInv
<1>7. CasesInv'
  <2> SUFFICES ASSUME NEW j \in Suites, state'[j] # "ended"
               PROVE  \A k \in DOMAIN cases'[j] : cases'[j][k] # "aborted"
    BY DEF CasesInv
  <2>1. j # i /\ cases'[j] = cases[j] /\ state[j] # "ended"
    BY <1>3
  <2>2. \A k \in DOMAIN cases[j] : cases[j][k] # "aborted"
    BY <2>1 DEF CasesInv
  <2> QED BY <2>1, <2>2
<1>8. NoFalsePass'
  BY <1>3 DEF NoFalsePass
<1> QED BY <1>4, <1>5, <1>6, <1>7, <1>8, <1>9

(* One more outcome in a suite's cases. *)
LEMMA CaseAppended ==
    ASSUME NEW s \in Seq(CaseOutcome), NEW o \in CaseOutcome
    PROVE  /\ Append(s, o) \in Seq(CaseOutcome)
           /\ \A k \in DOMAIN Append(s, o) : k \in DOMAIN s \/ Append(s, o)[k] = o
           /\ \A k \in DOMAIN s : Append(s, o)[k] = s[k]
OBVIOUS

(* A case ends; a context error ends its suite as well. *)
LEMMA RunCaseInv ==
    ASSUME NEW i \in Suites, NEW o \in CaseOutcome
    PROVE  Inv /\ RunCase(i, o) => Inv'
<1> SUFFICES ASSUME Inv, RunCase(i, o) PROVE Inv'
  OBVIOUS
<1> USE DEF Inv
<1>0. /\ state[i] = "running" /\ cases' = [cases EXCEPT ![i] = Append(cases[i], o)]
      /\ UNCHANGED <<pc, next, interrupted, tempDir, result>>
  BY DEF RunCase
<1>1. /\ cases \in [Suites -> Seq(CaseOutcome)] /\ cases[i] \in Seq(CaseOutcome)
      /\ Append(cases[i], o) \in Seq(CaseOutcome)
  BY CaseAppended DEF TypeOK
<1>2. /\ cases' \in [Suites -> Seq(CaseOutcome)] /\ cases'[i] = Append(cases[i], o)
      /\ \A j \in Suites \ {i} : cases'[j] = cases[j]
  BY <1>0, <1>1
<1>3. CASE o = "aborted"
  <2>1. EndSuite(i, TRUE)
    BY <1>3 DEF RunCase
  <2> QED BY <1>0, <1>2, <2>1, EndSuiteInv
<1>4. CASE o # "aborted"
  <2>0. UNCHANGED <<state, testErr, reports>>
    BY <1>4 DEF RunCase
  <2>1. TypeOK'
    BY <1>0, <1>2, <2>0 DEF TypeOK, result
  <2>2. PoolInv'
    BY <1>0, <2>0 DEF PoolInv, Running
  <2>3. ReportInv' /\ TempDirInv'
    BY <1>0, <2>0 DEF ReportInv, TempDirInv, result
  <2>4. CasesInv'
    <3> SUFFICES ASSUME NEW j \in Suites, state[j] # "ended", NEW k \in DOMAIN cases'[j]
                 PROVE  cases'[j][k] # "aborted"
      BY <2>0 DEF CasesInv
    <3>1. \A m \in DOMAIN cases[j] : cases[j][m] # "aborted"
      BY DEF CasesInv
    <3>2. CASE j # i
      BY <1>2, <3>1, <3>2
    <3>3. CASE j = i
      BY <1>1, <1>2, <1>4, <3>1, <3>3, CaseAppended
    <3> QED BY <3>2, <3>3
  <2>5. NoFalsePass'
    <3> SUFFICES ASSUME NEW j \in Suites, state[j] = "ended", ~testErr[j]
                 PROVE  /\ Len(cases'[j]) = CaseCount[dirs[j]]
                        /\ \A k \in DOMAIN cases'[j] : cases'[j][k] \in {"passed", "skipped"}
      BY <2>0 DEF NoFalsePass
    <3>1. cases'[j] = cases[j]
      BY <1>0, <1>2
    <3> QED BY <3>1 DEF NoFalsePass
  <2> QED BY <2>1, <2>2, <2>3, <2>4, <2>5
<1> QED BY <1>3, <1>4

(* A suite ends because it cannot be set up, or because its cases are over *)
(* and their errors are joined.                                            *)
LEMMA SuiteEndsInv ==
    ASSUME NEW i \in Suites
    PROVE  Inv /\ (SuiteSetupFails(i) \/ FinishSuite(i)) => Inv'
<1> SUFFICES ASSUME Inv, SuiteSetupFails(i) \/ FinishSuite(i) PROVE Inv'
  OBVIOUS
<1>0. /\ state[i] = "running" /\ cases' = cases /\ cases \in [Suites -> Seq(CaseOutcome)]
      /\ UNCHANGED <<pc, next, interrupted, tempDir, result>>
  BY DEF SuiteSetupFails, FinishSuite, Inv, TypeOK
<1>1. CASE SuiteSetupFails(i)
  <2>1. EndSuite(i, TRUE)
    BY <1>1 DEF SuiteSetupFails
  <2> QED BY <1>0, <2>1, EndSuiteInv
<1>2. CASE FinishSuite(i)
  <2> DEFINE e == AnyCaseFailed(i)
  <2>1. EndSuite(i, e) /\ Len(cases[i]) = CaseCount[dirs[i]]
    BY <1>2 DEF FinishSuite, CasesOver
  <2>2. e \in BOOLEAN
    BY DEF AnyCaseFailed
  <2>3. ~e => \A k \in DOMAIN cases[i] : cases[i][k] \in {"passed", "skipped"}
    <3> SUFFICES ASSUME ~e, NEW k \in DOMAIN cases[i] PROVE cases[i][k] \in {"passed", "skipped"}
      OBVIOUS
    <3>1. cases[i][k] # "failed"
      BY DEF AnyCaseFailed
    <3>2. cases[i][k] # "aborted"
      BY <1>0 DEF Inv, CasesInv
    <3>3. cases[i][k] \in CaseOutcome
      BY <1>0
    <3> QED BY <3>1, <3>2, <3>3 DEF CaseOutcome
  <2> HIDE DEF e
  <2> QED BY <1>0, <2>1, <2>2, <2>3, EndSuiteInv
<1> QED BY <1>1, <1>2

(* errgroup.Wait returns: every suite has ended. *)
LEMMA WaitForPoolInv == Inv /\ WaitForPool => Inv'
<1> SUFFICES ASSUME Inv, WaitForPool PROVE Inv'
  OBVIOUS
<1> USE DEF Inv, WaitForPool, pool, result
<1>1. ASSUME NEW i \in Suites PROVE state[i] = "ended"
  <2>1. state[i] # "running"
    BY DEF PoolDone, Running
  <2>2. state[i] # "waiting"
    BY Discovered DEF PoolInv, PoolDone, MoreSuites, TypeOK
  <2> QED BY <2>1, <2>2 DEF TypeOK
<1>2. TypeOK' /\ CasesInv' /\ NoFalsePass'
  BY DEF TypeOK, CasesInv, NoFalsePass
<1>3. PoolInv'
  BY <1>1 DEF PoolInv, Running
<1>4. ReportInv' /\ TempDirInv'
  BY DEF ReportInv, TempDirInv
<1> QED BY <1>2, <1>3, <1>4

(* When every suite has ended the report lists them all, in order. *)
LEMMA FullOrder ==
    ASSUME Inv, pc = "collect"
    PROVE  DiscoveryOrder = [i \in 1 .. Len(dirs) |-> i]
<1>1. {i \in Suites : \E k \in DOMAIN reports : reports[k] = i} = 1 .. Len(dirs)
  BY Discovered DEF Inv, PoolInv
<1> QED BY <1>1, Discovered, AscendingAll DEF DiscoveryOrder

(* runLocal collects reports and errors; Traverse removes the image. *)
LEMMA CollectInv == Inv /\ Collect => Inv'
<1> SUFFICES ASSUME Inv, Collect PROVE Inv'
  OBVIOUS
<1> USE DEF Inv, Collect, pool
<1>1. tests' = [i \in 1 .. Len(dirs) |-> i]
  BY FullOrder
<1>2. tests' \in Seq(Suites)
  BY <1>1, Discovered
<1>3. tempDir' \in {"none", "removed"}
  BY DEF TempDirAfterRun, TypeOK
<1>4. TypeOK'
  BY <1>2, <1>3 DEF TypeOK
<1>5. PoolInv'
  BY DEF PoolInv, Running
<1>6. ReportInv'
  BY <1>1 DEF ReportInv, PoolInv
<1>7. CasesInv' /\ NoFalsePass'
  BY DEF CasesInv, NoFalsePass
<1>8. TempDirInv'
  BY <1>3 DEF TempDirInv
<1> QED BY <1>4, <1>5, <1>6, <1>7, <1>8

(* The command writes its report file and exits. *)
LEMMA WriteReportInv == Inv /\ WriteReport => Inv'
<1> SUFFICES ASSUME Inv, WriteReport PROVE Inv'
  OBVIOUS
<1> USE DEF Inv, WriteReport, pool
<1>1. TypeOK' /\ CasesInv' /\ NoFalsePass'
  BY DEF TypeOK, CasesInv, NoFalsePass
<1>2. PoolInv' /\ ReportInv' /\ TempDirInv'
  BY DEF PoolInv, ReportInv, TempDirInv, Running
<1> QED BY <1>1, <1>2

(* A signal, or nothing at all. *)
LEMMA QuietInv == Inv /\ (Interrupt \/ UNCHANGED vars) => Inv'
<1> SUFFICES ASSUME Inv, Interrupt \/ UNCHANGED vars PROVE Inv'
  OBVIOUS
<1> USE DEF Inv
<1>0. /\ UNCHANGED <<pc, next, state, cases, testErr, reports, tempDir, tests, total, runErr>>
      /\ interrupted' \in BOOLEAN
  BY DEF Interrupt, vars, pool, result, TypeOK
<1>1. TypeOK' /\ CasesInv' /\ NoFalsePass'
  BY <1>0 DEF TypeOK, CasesInv, NoFalsePass
<1>2. PoolInv' /\ ReportInv' /\ TempDirInv'
  BY <1>0 DEF PoolInv, ReportInv, TempDirInv, Running
<1> QED BY <1>1, <1>2

(* Every step of the main goroutine, a worker or a signal keeps it. *)
LEMMA NextInv == Inv /\ [Next]_vars => Inv'
BY StartInv, DispatchInv, RunCaseInv, SuiteEndsInv, WaitForPoolInv, CollectInv, WriteReportInv,
   QuietInv DEF Next, MainStep, SuiteStep, Exited

(* The invariant holds throughout. *)
THEOREM Invariance == Spec => []Inv
<1>1. Inv /\ [Next]_vars => Inv'
  BY NextInv
<1> QED BY InitInv, <1>1, PTL DEF Spec

(* Every variable of a run keeps its type (pkg/engine). *)
THEOREM TypeCorrect == Spec => []TypeOK
<1>1. Inv => TypeOK
  BY DEF Inv
<1> QED BY Invariance, <1>1, PTL

(* test.Run returns nil for a suite only if each of its case files was     *)
(* executed and none failed or was aborted, for any number of cases.       *)
THEOREM PassesAreTrue == Spec => []NoFalsePass
<1>1. Inv => NoFalsePass
  BY DEF Inv
<1> QED BY Invariance, <1>1, PTL

(* image.Traverse keeps the extracted directory while suites run from it   *)
(* and removes it before the command exits, on every path.                 *)
THEOREM TempDirIsScoped == Spec => []TempDirScoped
<1>1. Inv => TempDirScoped
  BY DEF Inv, PoolInv, TempDirInv, TempDirScoped
<1> QED BY Invariance, <1>1, PTL
-----------------------------------------------------------------------------
(* A run implements TestRun: under the mapping of Engine every step is a   *)
(* step of the promise, or none.                                           *)

(* The promise counts as Engine does. *)
LEMMA MappedCount ==
    ASSUME NEW S
    PROVE  Promise!Cardinality(S) = Cardinality(S)
BY DEF Promise!Cardinality, Cardinality

(* The promise orders the suites as Engine does. *)
LEMMA MappedOrder ==
    ASSUME NEW S
    PROVE  Promise!InOrder(S) = Ascending(S)
<1> DEFINE f(k) == CHOOSE i \in S : Promise!Cardinality({j \in S : j < i}) = k - 1
           g(k) == CHOOSE i \in S : Cardinality({j \in S : j < i}) = k - 1
<1>1. \A T : Promise!Cardinality(T) = Cardinality(T)
  BY MappedCount
<1>2. \A k : f(k) = g(k)
  BY <1>1, Zenon
<1>3. 1 .. Promise!Cardinality(S) = 1 .. Cardinality(S)
  BY <1>1, Zenon
<1>4. Promise!InOrder(S) = [k \in 1 .. Promise!Cardinality(S) |-> f(k)]
  BY Zenon DEF Promise!InOrder
<1>5. Ascending(S) = [k \in 1 .. Cardinality(S) |-> g(k)]
  BY Zenon DEF Ascending
<1> HIDE DEF f, g
<1> QED BY <1>2, <1>3, <1>4, <1>5, Zenon

(* What the promise calls the suites, their number and those that run. *)
LEMMA MappedNames ==
    /\ Promise!All = Suites
    /\ Promise!In("running") = Running
    /\ AtMost = Limit
<1>1. Promise!All = Suites
  BY Discovered DEF Promise!All
<1>2. \A i \in Suites : SuiteStatus[i] = "running" <=> state[i] = "running"
  BY DEF SuiteStatus
<1> QED BY <1>1, <1>2, EngineAssumption DEF Promise!In, Running, AtMost, Limit

(* A run that has collected nothing has an empty report. *)
LEMMA MappedEmpty ==
    ASSUME tests = <<>>
    PROVE  [suites |-> tests, passed |-> CountPassed, failed |-> CountFailed] = Promise!NoReport
<1>1. {k \in DOMAIN tests : testErr[tests[k]]} = {}
  OBVIOUS
<1>2. CountFailed = 0
  BY <1>1, FS_EmptySet DEF CountFailed
<1>3. CountPassed = 0
  BY <1>2 DEF CountPassed
<1> QED BY <1>2, <1>3 DEF Promise!NoReport

(* When every suite has ended, countTests over a report t that lists them  *)
(* all counts those that passed and those that failed.                     *)
LEMMA MappedFull ==
    ASSUME TypeOK, \A i \in Suites : state[i] = "ended",
           NEW t, t = [i \in 1 .. Len(dirs) |-> i],
           NEW failed, failed = Cardinality({k \in DOMAIN t : testErr[t[k]]})
    PROVE  /\ Promise!Over
           /\ [suites |-> t, passed |-> Len(t) - failed, failed |-> failed] = Promise!FullReport
           /\ Promise!All = Promise!In("passed") <=> \A i \in Suites : ~testErr[i]
<1> DEFINE F == {i \in Suites : testErr[i]}
           P == Suites \ F
<1>0. Promise!All = Suites /\ Suites = 1 .. Len(dirs) /\ Len(dirs) \in Nat /\ testErr \in [Suites -> BOOLEAN]
  BY MappedNames, Discovered DEF TypeOK
<1>1. \A i \in Suites : SuiteStatus[i] = IF testErr[i] THEN "failed" ELSE "passed"
  BY DEF SuiteStatus
<1>2. Promise!In("failed") = F /\ Promise!In("passed") = P
  BY <1>0, <1>1 DEF Promise!In
<1>3. {k \in DOMAIN t : testErr[t[k]]} = F
  BY <1>0
<1>4. failed = Cardinality(F)
  BY <1>3
<1>5. Cardinality(F) \in Nat /\ Cardinality(P) = Len(dirs) - Cardinality(F)
  <2>1. IsFiniteSet(F) /\ IsFiniteSet(P)
    BY Discovered, FS_Subset
  <2>2. Suites \cap F = F
    OBVIOUS
  <2>3. Cardinality(P) = Cardinality(Suites) - Cardinality(Suites \cap F)
    BY Discovered, FS_Difference
  <2> QED BY <2>1, <2>2, <2>3, Discovered, FS_CardinalityType
<1>6. Len(t) = Len(dirs)
  BY <1>0
<1>7. Len(t) - failed = Cardinality(P)
  BY <1>4, <1>5, <1>6
<1>8. Promise!Over
  <2>1. Promise!In("running") = {} /\ Promise!In("waiting") = {}
    BY <1>0, <1>1 DEF Promise!In
  <2> QED BY <2>1 DEF Promise!Over
<1>9. Promise!All = Promise!In("passed") <=> \A i \in Suites : ~testErr[i]
  BY <1>0, <1>2
<1>10. F \cup P = 1 .. Len(dirs)
  BY <1>0
<1>11. Promise!In("passed") \cup Promise!In("failed") = F \cup P
  BY <1>2
<1> HIDE DEF F, P
<1>12. Promise!InOrder(F \cup P) = t
  BY <1>0, <1>10, MappedOrder, AscendingAll
<1>13. Promise!FullReport = [suites |-> t, passed |-> Len(t) - failed, failed |-> failed]
  BY <1>2, <1>4, <1>7, <1>12, <1>11, MappedCount, Zenon DEF Promise!FullReport
<1> QED BY <1>8, <1>9, <1>13

(* A step that touches neither the suites, their reports, the exit nor the *)
(* run context.                                                            *)
LEMMA MappedStutter ==
    ASSUME UNCHANGED <<state, testErr, tests, interrupted>>, ExitStatus' = ExitStatus
    PROVE  UNCHANGED Promise!vars
<1>1. SuiteStatus' = SuiteStatus
  BY DEF SuiteStatus
<1>2. CountFailed' = CountFailed
  BY DEF CountFailed
<1>3. CountPassed' = CountPassed
  BY <1>2 DEF CountPassed
<1> QED BY <1>1, <1>2, <1>3 DEF Promise!vars

(* Nothing is promised yet when the command starts. *)
LEMMA PromiseInit == Init => Promise!Init
<1> SUFFICES ASSUME Init PROVE Promise!Init
  OBVIOUS
<1>0. tests = <<>> /\ pc = "config" /\ interrupted = FALSE /\ state = [i \in Suites |-> "waiting"]
  BY DEF Init
<1>1. SuiteStatus = [i \in Promise!All |-> "waiting"]
  BY <1>0, MappedNames DEF SuiteStatus
<1>2. ExitStatus = "none"
  BY <1>0 DEF ExitStatus
<1> QED BY <1>0, <1>1, <1>2, MappedEmpty DEF Promise!Init

(* A run that fails before its pool starts stops; the other steps before   *)
(* the pool and the end of the pool do not show.                           *)
LEMMA PromiseStart ==
    Inv /\ (BuildRestConfig \/ StartRun \/ ReadWorkDir \/ WaitForPool \/ UNCHANGED vars)
        => [Promise!Next]_(Promise!vars)
<1> SUFFICES ASSUME Inv,
                    BuildRestConfig \/ StartRun \/ ReadWorkDir \/ WaitForPool \/ UNCHANGED vars
             PROVE  Promise!Next \/ UNCHANGED Promise!vars
  OBVIOUS
<1> USE DEF BuildRestConfig, StartRun, ReadWorkDir, WaitForPool, vars, pool, result
<1>0. UNCHANGED <<state, testErr, tests, interrupted>>
  OBVIOUS
<1>1. CASE pc = "config" /\ pc' = "exit"
  <2>1. ExitStatus = "none" /\ ExitStatus' = "failure"
    BY <1>1 DEF ExitStatus
  <2>2. \A i \in Suites : state[i] = "waiting"
    BY <1>1, Discovered DEF Inv, PoolInv, TypeOK
  <2>3. Promise!All = Promise!In("waiting")
    BY <2>2, MappedNames DEF Promise!In, SuiteStatus
  <2>4. /\ SuiteStatus' = SuiteStatus /\ CountFailed' = CountFailed
        /\ CountPassed' = CountPassed /\ tests' = tests
        /\ interrupted' = interrupted
    BY <1>0 DEF SuiteStatus, CountFailed, CountPassed
  <2>5. Promise!Stop
    BY <2>1, <2>3, <2>4 DEF Promise!Stop
  <2> QED BY <2>5 DEF Promise!Next, Promise!Progress
<1>2. CASE ~(pc = "config" /\ pc' = "exit")
  <2>1. ExitStatus' = ExitStatus
    BY <1>2 DEF ExitStatus
  <2> QED BY <1>0, <2>1, MappedStutter
<1> QED BY <1>1, <1>2

(* A signal interrupts the run, and shows as nothing else. *)
LEMMA PromiseInterrupt == Interrupt => Promise!Next
<1> SUFFICES ASSUME Interrupt PROVE Promise!Next
  OBVIOUS
<1>0. /\ UNCHANGED <<state, testErr, tests, pc, runErr>>
      /\ pc # "exit" /\ interrupted' = TRUE
  BY DEF Interrupt, pool, result
<1>1. ExitStatus = "none" /\ ExitStatus' = "none"
  BY <1>0 DEF ExitStatus
<1>2. SuiteStatus' = SuiteStatus /\ CountFailed' = CountFailed /\ CountPassed' = CountPassed
  BY <1>0 DEF SuiteStatus, CountFailed, CountPassed
<1>3. Promise!Interrupt
  BY <1>0, <1>1, <1>2 DEF Promise!Interrupt
<1> QED BY <1>3 DEF Promise!Next

(* The pool begins a suite when a slot is free. *)
LEMMA PromiseDispatch == Inv /\ Dispatch => Promise!Next
<1> SUFFICES ASSUME Inv, Dispatch PROVE Promise!Next
  OBVIOUS
<1>0. next \in Suites /\ state \in [Suites -> {"waiting", "running", "ended"}]
  BY Discovered DEF Inv, TypeOK, Dispatch, MoreSuites
<1>1. pc = "pool" /\ tests = <<>> /\ state[next] = "waiting"
  BY <1>0, Discovered DEF Inv, PoolInv, ReportInv, Dispatch, TypeOK
<1>2. /\ state' = [state EXCEPT ![next] = "running"] /\ UNCHANGED <<pc, testErr, tests, runErr, interrupted>>
      /\ Cardinality(Running) < Limit
  BY DEF Dispatch, result
<1>3. SuiteStatus[next] = "waiting" /\ ExitStatus = "none" /\ ExitStatus' = "none"
  BY <1>0, <1>1, <1>2 DEF SuiteStatus, ExitStatus
<1>4. SuiteStatus' = [SuiteStatus EXCEPT ![next] = "running"]
  BY <1>0, <1>2 DEF SuiteStatus
<1>5. CountFailed' = CountFailed /\ CountPassed' = CountPassed
  BY <1>2 DEF CountFailed, CountPassed
<1>6. Promise!Cardinality(Promise!In("running")) < AtMost
  BY <1>2, MappedNames, MappedCount
<1>7. Promise!Begin(next)
  BY <1>1, <1>2, <1>3, <1>4, <1>5, <1>6, MappedEmpty DEF Promise!Begin
<1> QED BY <1>0, <1>7, MappedNames DEF Promise!Next, Promise!Progress

(* A worker that returns ends its suite, with the verdict its error gives. *)
LEMMA PromiseEnd ==
    ASSUME Inv, NEW i \in Suites, NEW e \in BOOLEAN, state[i] = "running", EndSuite(i, e),
           UNCHANGED <<pc, interrupted, result>>
    PROVE  Promise!Next
<1>0. /\ state \in [Suites -> {"waiting", "running", "ended"}] /\ testErr \in [Suites -> BOOLEAN]
      /\ i \in Running
  BY DEF Inv, TypeOK, Running
<1>1. tests = <<>> /\ tests' = <<>> /\ pc = "pool" /\ pc' = "pool"
  BY <1>0 DEF Inv, PoolInv, ReportInv, result
<1>2. state' = [state EXCEPT ![i] = "ended"] /\ testErr' = [testErr EXCEPT ![i] = e]
  BY DEF EndSuite
<1> DEFINE verdict == IF e THEN "failed" ELSE "passed"
<1>3. SuiteStatus' = [SuiteStatus EXCEPT ![i] = verdict]
  BY <1>0, <1>2 DEF SuiteStatus
<1>4. SuiteStatus[i] = "running" /\ ExitStatus = "none" /\ ExitStatus' = "none"
  BY <1>0, <1>1 DEF SuiteStatus, ExitStatus
<1>5. CountFailed = 0 /\ CountPassed = 0
  BY <1>1, MappedEmpty DEF Promise!NoReport
<1>6. CountFailed' = 0 /\ CountPassed' = 0
  <2>1. {k \in DOMAIN tests' : testErr'[tests'[k]]} = {}
    BY <1>1
  <2>2. CountFailed' = 0
    BY <2>1, FS_EmptySet DEF CountFailed
  <2> QED BY <1>1, <2>2 DEF CountPassed
<1>7. Promise!End(i)
  BY <1>1, <1>3, <1>4, <1>5, <1>6 DEF Promise!End
<1> QED BY <1>7, MappedNames DEF Promise!Next, Promise!Progress

(* A suite ends on one of three paths; a case that ends alone does not     *)
(* show.                                                                   *)
LEMMA PromiseSuite ==
    ASSUME NEW i \in Suites
    PROVE  Inv /\ SuiteStep(i) => [Promise!Next]_(Promise!vars)
<1> SUFFICES ASSUME Inv, SuiteStep(i) PROVE Promise!Next \/ UNCHANGED Promise!vars
  OBVIOUS
<1>1. CASE SuiteSetupFails(i)
  BY <1>1, PromiseEnd DEF SuiteSetupFails
<1>2. CASE FinishSuite(i)
  <2>1. AnyCaseFailed(i) \in BOOLEAN
    BY DEF AnyCaseFailed
  <2> QED BY <1>2, <2>1, PromiseEnd DEF FinishSuite
<1>3. CASE \E o \in CaseOutcome : RunCase(i, o)
  <2> PICK o \in CaseOutcome : RunCase(i, o)
    BY <1>3
  <2>1. CASE o = "aborted"
    BY <2>1, PromiseEnd DEF RunCase
  <2>2. CASE o # "aborted"
    <3>1. UNCHANGED <<state, testErr, tests, interrupted>> /\ UNCHANGED <<pc, runErr>>
      BY <2>2 DEF RunCase, result
    <3>2. ExitStatus' = ExitStatus
      BY <3>1 DEF ExitStatus
    <3> QED BY <3>1, <3>2, MappedStutter
  <2> QED BY <2>1, <2>2
<1> QED BY <1>1, <1>2, <1>3 DEF SuiteStep

(* runLocal's report is published once every suite has ended. *)
LEMMA PromiseCollect == Inv /\ Collect => Promise!Next
<1> SUFFICES ASSUME Inv, Collect PROVE Promise!Next
  OBVIOUS
<1>0. pc = "collect" /\ pc' = "report" /\ UNCHANGED <<pool, interrupted>>
  BY DEF Collect
<1>1. TypeOK /\ (\A i \in Suites : state[i] = "ended") /\ tests' = [i \in 1 .. Len(dirs) |-> i]
  BY <1>0, FullOrder DEF Collect, Inv, PoolInv
<1>2. CountFailed' = Cardinality({k \in DOMAIN tests' : testErr[tests'[k]]}) /\ CountPassed' = Len(tests') - CountFailed'
  BY <1>0 DEF CountFailed, CountPassed, pool
<1>3. SuiteStatus' = SuiteStatus
  BY <1>0 DEF SuiteStatus, pool
<1>4. /\ Promise!Over
      /\ [suites |-> tests', passed |-> CountPassed', failed |-> CountFailed'] = Promise!FullReport
  BY <1>1, <1>2, MappedFull, Zenon
<1>5. ExitStatus = "none" /\ ExitStatus' = "none"
  BY <1>0 DEF ExitStatus
<1>6. tests = <<>>
  BY <1>0 DEF Inv, ReportInv
<1>7. Promise!Publish
  BY <1>0, <1>3, <1>4, <1>5, <1>6, MappedEmpty DEF Promise!Publish
<1> QED BY <1>7 DEF Promise!Next, Promise!Progress

(* The exit status: a success only when every suite passed. *)
LEMMA PromiseExit == Inv /\ WriteReport => Promise!Next
<1> SUFFICES ASSUME Inv, WriteReport PROVE Promise!Next
  OBVIOUS
<1>0. /\ pc = "report" /\ pc' = "exit" /\ runErr' \in {runErr, TRUE}
      /\ UNCHANGED <<state, testErr, tests, interrupted>>
  BY DEF WriteReport, pool
<1>1. /\ SuiteStatus' = SuiteStatus /\ CountFailed' = CountFailed
      /\ CountPassed' = CountPassed /\ tests' = tests /\ interrupted' = interrupted
  BY <1>0 DEF SuiteStatus, CountFailed, CountPassed
<1>2. ExitStatus = "none" /\ ExitStatus' = IF runErr' THEN "failure" ELSE "success"
  BY <1>0 DEF ExitStatus
<1>3. CASE next = 1 /\ tests = <<>> /\ runErr
  <2>1. runErr'
    BY <1>0, <1>3
  <2>2. \A i \in Suites : state[i] = "waiting"
    BY <1>3, Discovered DEF Inv, PoolInv, TypeOK
  <2>3. Promise!All = Promise!In("waiting")
    BY <2>2, MappedNames DEF Promise!In, SuiteStatus
  <2>4. Promise!Stop
    BY <1>1, <1>2, <2>1, <2>3 DEF Promise!Stop
  <2> QED BY <2>4 DEF Promise!Next, Promise!Progress
<1>4. CASE /\ \A i \in Suites : state[i] = "ended"
           /\ tests = [i \in 1 .. Len(dirs) |-> i]
           /\ runErr <=> \E i \in Suites : testErr[i]
  <2>1. /\ Promise!Over
        /\ [suites |-> tests, passed |-> CountPassed, failed |-> CountFailed] = Promise!FullReport
        /\ Promise!All = Promise!In("passed") <=> \A i \in Suites : ~testErr[i]
    BY <1>4, MappedFull, Zenon DEF Inv, CountFailed, CountPassed
  <2>2. ExitStatus' = "failure" \/ (Promise!All = Promise!In("passed") /\ ExitStatus' = "success")
    <3>1. CASE runErr'
      BY <1>2, <3>1
    <3>2. CASE ~runErr'
      BY <1>0, <1>2, <1>4, <2>1, <3>2
    <3> QED BY <3>1, <3>2
  <2>3. Promise!Exit
    BY <1>1, <1>2, <2>1, <2>2 DEF Promise!Exit
  <2> QED BY <2>3 DEF Promise!Next, Promise!Progress
<1> QED BY <1>0, <1>3, <1>4 DEF Inv, ReportInv

(* Every step of a run, in any state it can reach, is one the promise      *)
(* allows.                                                                 *)
LEMMA PromiseNext == Inv /\ [Next]_vars => [Promise!Next]_(Promise!vars)
BY PromiseStart, PromiseDispatch, PromiseSuite, PromiseCollect, PromiseExit, PromiseInterrupt
   DEF Next, MainStep, Exited

(* The safety half of KeepsPromise, for every work directory, number of    *)
(* cases and -n: runTests, the pool and the command start every suite at   *)
(* most once and never more than -n at a time, report those that were run, *)
(* which without an interrupt are all of them, in discovery order with the *)
(* right counts, and exit successfully only after every suite has ended    *)
(* and passed.                                                             *)
THEOREM PromiseIsKept == Spec => Promise!Init /\ [][Promise!Next]_(Promise!vars)
<1>1. Inv /\ [Next]_vars => [Promise!Next]_(Promise!vars)
  BY PromiseNext
<1> QED BY Invariance, PromiseInit, <1>1, PTL DEF Spec
=============================================================================

---------------------------- MODULE ServiceProofs ----------------------------
(***************************************************************************)
(* The service's status tells the truth about its worker and a stop is     *)
(* final, for any number of faults, restarts and commands.                 *)
(***************************************************************************)
EXTENDS Service, TLAPS

\* The statuses that this process has reported.
Reported == {reports[i] : i \in DOMAIN reports}

\* The worker lives only while ServiceMain polls, waits or joins; that STOPPED
\* was reported, or that the SCM holds it, means that ServiceMain is through.
\* The second conjunct is what the SCM's memory of STOPPED needs.
WorkerInv ==
  /\ worker = "running" => main \in {"polling", "waiting", "joining"}
  /\ "Stopped" \in Reported => main \in {"none", "returned"}
  /\ status = "Stopped" => main \in {"none", "returned"}

\* Before it reports RUNNING the service accepts no control, hence nothing has
\* cleared SERVICE_RUNNING by then.
StopInv == main \in {"entered", "starting"} => flag /\ ~accepted

\* What update_service_status leaves behind.
LEMMA ReportEffect ==
  ASSUME TypeOK, NEW s \in Statuses, NEW a \in BOOLEAN, Report(s, a)
  PROVE  /\ reports' \in Seq(Statuses)
         /\ Reported' = Reported \cup {s}
         /\ status' \in {s, status}
         /\ accepted' \in {a, accepted}
         /\ "Stopped" \notin Reported => status' = s /\ accepted' = a
         /\ "Stopped" \in Reported => status' = status /\ accepted' = accepted
<1>1. reports \in Seq(Statuses) /\ reports' = Append(reports, s)
  BY DEF TypeOK, Report
<1>2. /\ reports' \in Seq(Statuses)
      /\ DOMAIN reports' = DOMAIN reports \cup {Len(reports) + 1}
      /\ \A i \in DOMAIN reports : reports'[i] = reports[i]
      /\ reports'[Len(reports) + 1] = s
  BY <1>1
<1>3. Reported' = Reported \cup {s}
  BY <1>2 DEF Reported
<1>. QED
  BY <1>2, <1>3 DEF Report, Reported, TypeOK

\* Type correctness is kept by every step.
LEMMA TypeStep ==
  ASSUME TypeOK, [Next]_vars
  PROVE  TypeOK'
<1>. USE FaultsAssumption DEF scmVars, procVars, Statuses
<1>1. CASE \/ RegisterFails \/ SpawnWorker \/ WaitForWorker \/ HandlerStore
           \/ WorkerTick \/ WorkerPanics
  <2>1. CASE RegisterFails \/ SpawnWorker \/ WaitForWorker \/ HandlerStore
    BY <2>1 DEF TypeOK, RegisterFails, SpawnWorker, WaitForWorker, HandlerStore
  <2>2. CASE WorkerTick
    BY <2>2 DEF TypeOK, WorkerTick
  <2>3. CASE WorkerPanics
    BY <2>3 DEF TypeOK, WorkerPanics
  <2>. QED
    BY <1>1, <2>1, <2>2, <2>3
<1>2. CASE \/ RegisterAndStart \/ ReportRunning \/ ObserveStop \/ JoinWorker
           \/ HandlerReport
  <2>1. PICK s \in Statuses, a \in BOOLEAN : Report(s, a)
    BY <1>2 DEF RegisterAndStart, ReportRunning, ObserveStop, JoinWorker,
       HandlerReport
  <2>2. /\ reports' \in Seq(Statuses)
        /\ status' \in Statuses /\ accepted' \in BOOLEAN
    BY <2>1, ReportEffect DEF TypeOK
  <2>. QED
    BY <1>2, <2>2 DEF TypeOK, RegisterAndStart, ReportRunning, ObserveStop,
       JoinWorker, HandlerReport
<1>3. CASE ProcessExits \/ ProcessCrashes
  <2>1. crashed' \in BOOLEAN /\ recovery' \in BOOLEAN /\ accepted' \in BOOLEAN
    BY <1>3, Zenon DEF TypeOK, ProcessExits, ProcessCrashes, Release
  <2>2. /\ installed' \in {"absent", "installed", "marked"}
        /\ faults' \in 0 .. MaxFaults /\ status' \in Statuses
    BY <1>3 DEF TypeOK, ProcessExits, ProcessCrashes, Release
  <2>. QED
    BY <1>3, <2>1, <2>2 DEF TypeOK, ProcessExits, ProcessCrashes, Release
<1>4. CASE ScmRestarts \/ Start
  <2>1. <<>> \in Seq(Statuses)
    OBVIOUS
  <2>2. /\ accepted' \in BOOLEAN /\ crashed' \in BOOLEAN /\ flag' \in BOOLEAN
        /\ recovery' \in BOOLEAN
    BY <1>4, Zenon DEF TypeOK, ScmRestarts, Start, Launch
  <2>3. /\ tick' \in 0 .. 1 /\ faults' \in 0 .. MaxFaults
        /\ status' \in Statuses
    BY <1>4 DEF TypeOK, ScmRestarts, Start, Launch
  <2>4. reports' \in Seq(Statuses)
    BY <1>4, <2>1, Zenon DEF ScmRestarts, Start, Launch
  <2>. QED
    BY <1>4, <2>2, <2>3, <2>4 DEF TypeOK, ScmRestarts, Start, Launch
<1>5. CASE \/ InstallCreate \/ UninstallDelete \/ UninstallFails
           \/ \E succeeds \in BOOLEAN :
                InstallRecovery(succeeds) \/ UninstallStop(succeeds)
  BY <1>5 DEF TypeOK, InstallCreate, UninstallDelete, UninstallFails,
     InstallRecovery, UninstallStop
<1>6. CASE UNCHANGED vars
  BY <1>6 DEF TypeOK, vars
<1>. QED
  BY <1>1, <1>2, <1>3, <1>4, <1>5, <1>6 DEF Next, ServiceMain, Manager

\* The state of the service keeps its types, whatever interleaving of threads,
\* faults and commands (src/service.rs).
THEOREM ServiceTypes == Spec => []TypeOK
<1>1. Init => TypeOK
  <2>1. <<>> \in Seq(Statuses)
    OBVIOUS
  <2>2. ASSUME Init
        PROVE  /\ accepted \in BOOLEAN /\ crashed \in BOOLEAN
               /\ flag \in BOOLEAN /\ recovery \in BOOLEAN
    BY <2>2, Zenon DEF Init
  <2>3. ASSUME Init
        PROVE  /\ tick \in 0 .. 1 /\ faults \in 0 .. MaxFaults
               /\ status \in Statuses /\ reports \in Seq(Statuses)
    BY <2>1, <2>3, FaultsAssumption DEF Init, Statuses
  <2>. QED
    BY <2>2, <2>3 DEF Init, TypeOK
<1>. QED
  BY <1>1, TypeStep, PTL DEF Spec

-----------------------------------------------------------------------------
LEMMA WorkerStep ==
  ASSUME TypeOK, WorkerInv, [Next]_vars
  PROVE  WorkerInv'
<1>1. CASE \/ RegisterFails \/ SpawnWorker \/ WaitForWorker \/ HandlerStore
           \/ WorkerTick \/ WorkerPanics
  BY <1>1 DEF WorkerInv, Reported, RegisterFails, SpawnWorker, WaitForWorker,
     HandlerStore, WorkerTick, WorkerPanics
<1>2. CASE RegisterAndStart \/ ReportRunning \/ ObserveStop
  <2>1. PICK s \in Statuses \ {"Stopped"}, a \in BOOLEAN : Report(s, a)
    BY <1>2 DEF RegisterAndStart, ReportRunning, ObserveStop, Statuses
  <2>2. "Stopped" \notin Reported
    BY <1>2 DEF WorkerInv, RegisterAndStart, ReportRunning, ObserveStop
  <2>3. Reported' = Reported \cup {s} /\ status' = s
    BY <2>1, <2>2, ReportEffect
  <2>. QED
    BY <1>2, <2>2, <2>3 DEF WorkerInv, RegisterAndStart, ReportRunning,
       ObserveStop
<1>3. CASE JoinWorker
  BY <1>3 DEF WorkerInv, JoinWorker
<1>4. CASE HandlerReport
  <2>1. Report("StopPending", FALSE) /\ UNCHANGED <<main, worker>>
    BY <1>4 DEF HandlerReport
  <2>2. /\ Reported' = Reported \cup {"StopPending"}
        /\ status' \in {"StopPending", status}
    BY <2>1, ReportEffect DEF Statuses
  <2>. QED
    BY <2>1, <2>2 DEF WorkerInv
<1>5. CASE ProcessExits \/ ProcessCrashes
  BY <1>5 DEF WorkerInv, ProcessExits, ProcessCrashes
<1>6. CASE ScmRestarts \/ Start
  BY <1>6 DEF WorkerInv, Reported, ScmRestarts, Start, Launch
<1>7. CASE \/ InstallCreate \/ UninstallDelete \/ UninstallFails
           \/ \E succeeds \in BOOLEAN :
                InstallRecovery(succeeds) \/ UninstallStop(succeeds)
  BY <1>7 DEF WorkerInv, Reported, InstallCreate, UninstallDelete,
     UninstallFails, InstallRecovery, UninstallStop, procVars
<1>8. CASE UNCHANGED vars
  BY <1>8 DEF WorkerInv, Reported, vars, procVars
<1>. QED
  BY <1>1, <1>2, <1>3, <1>4, <1>5, <1>6, <1>7, <1>8
  DEF Next, ServiceMain, Manager

\* STOPPED is never in force over a worker that runs, although the wait of five
\* seconds may give up on it (service_main).
THEOREM StoppedTruthful == Spec => []StoppedMeansNoWorker
<1>1. Init => WorkerInv
  BY DEF Init, WorkerInv, Reported
<1>2. WorkerInv => StoppedMeansNoWorker
  BY DEF WorkerInv, StoppedMeansNoWorker
<1>. QED
  BY <1>1, <1>2, WorkerStep, ServiceTypes, PTL DEF Spec

-----------------------------------------------------------------------------
LEMMA StopStep ==
  ASSUME TypeOK, StopInv, [Next]_vars
  PROVE  StopInv'
<1>1. CASE RegisterAndStart
  <2>1. Report("StartPending", FALSE) /\ UNCHANGED flag /\ ~accepted /\ flag
    BY <1>1 DEF RegisterAndStart, StopInv
  <2>2. accepted' \in {FALSE, accepted}
    BY <2>1, ReportEffect DEF Statuses
  <2>. QED
    BY <2>1, <2>2 DEF StopInv
<1>2. CASE HandlerReport
  <2>1. Report("StopPending", FALSE) /\ UNCHANGED <<flag, main>>
    BY <1>2 DEF HandlerReport
  <2>2. accepted' \in {FALSE, accepted}
    BY <2>1, ReportEffect DEF Statuses
  <2>. QED
    BY <2>1, <2>2 DEF StopInv
<1>3. CASE \/ RegisterFails \/ ReportRunning \/ SpawnWorker \/ ObserveStop
           \/ WaitForWorker \/ JoinWorker \/ ProcessExits \/ ProcessCrashes
  BY <1>3 DEF StopInv, RegisterFails, ReportRunning, SpawnWorker, ObserveStop,
     WaitForWorker, JoinWorker, ProcessExits, ProcessCrashes
<1>4. CASE HandlerStore \/ WorkerTick \/ WorkerPanics
  BY <1>4 DEF StopInv, HandlerStore, WorkerTick, WorkerPanics
<1>5. CASE ScmRestarts \/ Start
  BY <1>5 DEF StopInv, ScmRestarts, Start, Launch
<1>6. CASE \/ InstallCreate \/ UninstallDelete \/ UninstallFails
           \/ \E succeeds \in BOOLEAN :
                InstallRecovery(succeeds) \/ UninstallStop(succeeds)
  BY <1>6 DEF StopInv, InstallCreate, UninstallDelete, UninstallFails,
     InstallRecovery, UninstallStop, procVars
<1>7. CASE UNCHANGED vars
  BY <1>7 DEF StopInv, vars, procVars
<1>. QED
  BY <1>1, <1>2, <1>3, <1>4, <1>5, <1>6, <1>7 DEF Next, ServiceMain, Manager

\* What a step may do to a process that was told to stop.
StaysStopped ==
  (~flag /\ main # "none" /\ main' # "none") =>
    /\ ~flag'
    /\ status' = "Running" => status = "Running"
    /\ accepted' => accepted

LEMMA StaysStoppedStep ==
  ASSUME TypeOK, StopInv, [Next]_vars
  PROVE  StaysStopped
<1>. SUFFICES ASSUME ~flag, main # "none", main' # "none"
              PROVE  /\ ~flag'
                     /\ status' = "Running" => status = "Running"
                     /\ accepted' => accepted
  BY DEF StaysStopped
<1>1. main \notin {"entered", "starting"}
  BY DEF StopInv
<1>2. CASE ObserveStop \/ JoinWorker \/ HandlerReport
  <2>1. PICK s \in Statuses \ {"Running"} : Report(s, FALSE)
    BY <1>2 DEF ObserveStop, JoinWorker, HandlerReport, Statuses
  <2>2. status' \in {s, status} /\ accepted' \in {FALSE, accepted}
    BY <2>1, ReportEffect
  <2>3. ~flag'
    BY <1>2 DEF ObserveStop, JoinWorker, HandlerReport
  <2>4. accepted' => accepted
    BY <2>2, Zenon
  <2>5. status' = "Running" => status = "Running"
    BY <2>2
  <2>. QED
    BY <2>3, <2>4, <2>5
<1>3. CASE \/ RegisterFails \/ RegisterAndStart \/ ReportRunning
           \/ SpawnWorker \/ WaitForWorker
  <2>1. UNCHANGED <<flag, status, accepted>>
    BY <1>1, <1>3 DEF RegisterFails, RegisterAndStart, ReportRunning,
       SpawnWorker, WaitForWorker
  <2>. QED
    BY <2>1
<1>4. CASE \/ HandlerStore \/ WorkerTick \/ WorkerPanics
           \/ ProcessExits \/ ProcessCrashes
  BY <1>4 DEF HandlerStore, WorkerTick, WorkerPanics, ProcessExits,
     ProcessCrashes
<1>5. CASE ScmRestarts \/ Start
  BY <1>5 DEF ScmRestarts, Start, Launch
<1>6. CASE \/ InstallCreate \/ UninstallDelete \/ UninstallFails
           \/ \E succeeds \in BOOLEAN :
                InstallRecovery(succeeds) \/ UninstallStop(succeeds)
  BY <1>6 DEF InstallCreate, UninstallDelete, UninstallFails,
     InstallRecovery, UninstallStop, procVars
<1>7. CASE UNCHANGED vars
  BY <1>7 DEF vars, procVars
<1>. QED
  BY <1>2, <1>3, <1>4, <1>5, <1>6, <1>7 DEF Next, ServiceMain, Manager

\* Once the handler has cleared SERVICE_RUNNING the process neither reports
\* RUNNING nor accepts a control again, wherever ServiceMain was at that moment
\* (service_control_handler, service_main).
THEOREM StopFinal == Spec => StopIsFinal
<1>1. Init => StopInv
  BY DEF Init, StopInv
<1>2. Spec => []StopInv
  BY <1>1, StopStep, ServiceTypes, PTL DEF Spec
<1>3. TypeOK /\ StopInv /\ [Next]_vars => [StaysStopped]_vars
  BY StaysStoppedStep
<1>4. Spec => [][StaysStopped]_vars
  BY <1>2, <1>3, ServiceTypes, PTL DEF Spec
<1>. QED
  BY <1>4 DEF StopIsFinal, StaysStopped
=============================================================================

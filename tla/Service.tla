------------------------------- MODULE Service -------------------------------
(***************************************************************************)
(* The Windows service of Kavach-NPU (src/service.rs).                     *)
(*                                                                         *)
(* Three threads share the service process: ServiceMain, which reports the *)
(* service's status and waits for a stop; the control handler, which the   *)
(* Service Control Manager (SCM) calls; and the worker that runs the       *)
(* sentinel loop (run_live_sentinel_daemon_ext with continuous = true).    *)
(* Beside them the manager commands install, uninstall, start and stop.    *)
(* What the SCM itself does (delivering accepted controls only, deferring  *)
(* a deletion, restarting after a crash) is external.                      *)
(***************************************************************************)
EXTENDS Naturals, Sequences

CONSTANTS
  MaxFaults     \* bound on the worker panics and process crashes considered

ASSUME FaultsAssumption == MaxFaults \in Nat

VARIABLES
  installed,    \* "absent", "installed", or "marked" for deletion
  recovery,     \* the restart-on-failure actions are configured
  cli,          \* the manager command in progress and how far it is
  status,       \* the service state the SCM holds
  accepted,     \* the SCM may deliver STOP and SHUTDOWN
  reports,      \* history: the statuses this process has reported
  crashed,      \* the process ended without reporting STOPPED
  flag,         \* SERVICE_RUNNING
  main,         \* where ServiceMain is; "none" when there is no process
  handler,      \* "idle", or "stored" between its store and its report
  worker,       \* "none", "running", "panicked"
  tick,         \* the parity of the worker's tick counter: its heartbeat
  faults        \* history: faults so far

scmVars == <<installed, recovery, cli>>
procVars == <<status, accepted, reports, crashed, flag, main, handler, worker,
              tick>>
vars == <<scmVars, procVars, faults>>

Statuses == {"Stopped", "StartPending", "Running", "StopPending"}

-----------------------------------------------------------------------------
Init ==
  /\ installed = "absent" /\ recovery = FALSE
  /\ cli = "idle"
  /\ status = "Stopped" /\ accepted = FALSE /\ reports = <<>>
  /\ crashed = FALSE /\ flag = TRUE
  /\ main = "none" /\ handler = "idle" /\ worker = "none" /\ tick = 0
  /\ faults = 0

\* Mutant of Report: a wrong code for the state that is reported on a stop.
ReportPaused(s, accepts) ==
  /\ status' = IF s = "StopPending" THEN "Paused" ELSE s
  /\ accepted' = accepts
  /\ reports' = Append(reports, s)

\* update_service_status.  The SCM takes no status after STOPPED.
Report(s, accepts) ==
  /\ IF "Stopped" \in {reports[i] : i \in DOMAIN reports}
     THEN UNCHANGED <<status, accepted>>
     ELSE status' = s /\ accepted' = accepts
  /\ reports' = Append(reports, s)

\* The SCM launches the process: run_service_dispatcher, then ServiceMain.
Launch ==
  /\ main = "none" /\ installed = "installed"
  /\ status' = "StartPending" /\ accepted' = FALSE /\ reports' = <<>>
  /\ crashed' = FALSE /\ flag' = TRUE
  /\ main' = "entered" /\ handler' = "idle" /\ worker' = "none" /\ tick' = 0

-----------------------------------------------------------------------------
(***************************************************************************)
(* ServiceMain.                                                            *)
(***************************************************************************)

\* RegisterServiceCtrlHandlerExW returns null: return without a report.
RegisterFails ==
  /\ main = "entered"
  /\ main' = "returned"
  /\ UNCHANGED <<scmVars, status, accepted, reports, crashed, flag, handler,
                 worker, tick, faults>>

\* Register the handler and report START_PENDING.
RegisterAndStart ==
  /\ main = "entered"
  /\ Report("StartPending", FALSE)
  /\ main' = "starting"
  /\ UNCHANGED <<scmVars, crashed, flag, handler, worker, tick, faults>>

ReportRunning ==
  /\ main = "starting"
  /\ Report("Running", TRUE)
  /\ main' = "spawning"
  /\ UNCHANGED <<scmVars, crashed, flag, handler, worker, tick, faults>>

\* Mutant of SpawnWorker: RUNNING reported once more when the worker is up.
SpawnThenReport ==
  /\ main = "spawning"
  /\ worker' = "running"
  /\ main' = "polling"
  /\ Report("Running", TRUE)
  /\ UNCHANGED <<scmVars, crashed, flag, handler, tick, faults>>

SpawnWorker ==
  /\ main = "spawning"
  /\ worker' = "running"
  /\ main' = "polling"
  /\ UNCHANGED <<scmVars, status, accepted, reports, crashed, flag, handler,
                 tick, faults>>

\* The poll of SERVICE_RUNNING sees FALSE: report STOP_PENDING.
ObserveStop ==
  /\ main = "polling" /\ ~flag
  /\ Report("StopPending", FALSE)
  /\ main' = "waiting"
  /\ UNCHANGED <<scmVars, crashed, flag, handler, worker, tick, faults>>

\* Mutant of WaitForWorker: wait for the worker's message, without a timeout.
WaitForMessage ==
  /\ main = "waiting" /\ worker = "none"
  /\ main' = "joining"
  /\ UNCHANGED <<scmVars, status, accepted, reports, crashed, flag, handler,
                 worker, tick, faults>>

\* recv_timeout returns: the worker is gone, or five seconds have passed.
WaitForWorker ==
  /\ main = "waiting"
  /\ main' = "joining"
  /\ UNCHANGED <<scmVars, status, accepted, reports, crashed, flag, handler,
                 worker, tick, faults>>

\* Mutant of JoinWorker: only the wait of at most five seconds, no join.
ReportStoppedUnjoined ==
  /\ main = "joining"
  /\ Report("Stopped", FALSE)
  /\ main' = "returned"
  /\ UNCHANGED <<scmVars, crashed, flag, handler, worker, tick, faults>>

\* join returns once the worker is gone: report STOPPED.
JoinWorker ==
  /\ main = "joining" /\ worker # "running"
  /\ Report("Stopped", FALSE)
  /\ main' = "returned"
  /\ UNCHANGED <<scmVars, crashed, flag, handler, worker, tick, faults>>

-----------------------------------------------------------------------------
(***************************************************************************)
(* The control handler and the worker.                                     *)
(***************************************************************************)

\* STOP or SHUTDOWN, delivered only while the service accepts it.
HandlerStore ==
  /\ handler = "idle" /\ accepted
  /\ flag' = FALSE
  /\ handler' = "stored"
  /\ UNCHANGED <<scmVars, status, accepted, reports, crashed, main, worker,
                 tick, faults>>

HandlerReport ==
  /\ handler = "stored"
  /\ Report("StopPending", FALSE)
  /\ handler' = "idle"
  /\ UNCHANGED <<scmVars, crashed, flag, main, worker, tick, faults>>

\* One turn of the sentinel loop.  With continuous = true its only exit test,
\* !continuous && tick > max_ticks, never holds; SERVICE_RUNNING is not read.
WorkerTick ==
  /\ worker = "running"
  /\ tick' = 1 - tick
  /\ UNCHANGED <<scmVars, status, accepted, reports, crashed, flag, main,
                 handler, worker, faults>>

\* An unwrap in the worker fails (a poisoned lock, a clock before 1970).
WorkerPanics ==
  /\ worker = "running" /\ faults < MaxFaults
  /\ worker' = "panicked"
  /\ faults' = faults + 1
  /\ UNCHANGED <<scmVars, status, accepted, reports, crashed, flag, main,
                 handler, tick>>

-----------------------------------------------------------------------------
(***************************************************************************)
(* The end of the process, and the SCM's recovery.                         *)
(***************************************************************************)

\* What a deferred deletion and the recovery settings become.
Release ==
  /\ installed' = IF installed = "marked" THEN "absent" ELSE installed
  /\ recovery' = (recovery /\ installed # "marked")
  /\ UNCHANGED cli

\* The dispatcher returns once STOPPED was reported and the handler is done.
ProcessExits ==
  /\ main = "returned" /\ status = "Stopped" /\ handler = "idle"
  /\ main' = "none" /\ worker' = "none"
  /\ Release
  /\ UNCHANGED <<status, accepted, reports, crashed, flag, handler, tick,
                 faults>>

ProcessCrashes ==
  /\ main # "none" /\ faults < MaxFaults
  /\ faults' = faults + 1
  /\ main' = "none" /\ handler' = "idle" /\ worker' = "none"
  /\ status' = "Stopped" /\ accepted' = FALSE
  /\ crashed' = (status # "Stopped")
  /\ Release
  /\ UNCHANGED <<reports, flag, tick>>

\* actions= restart/5000/restart/10000/restart/60000
ScmRestarts ==
  /\ crashed /\ recovery /\ Launch
  /\ UNCHANGED <<scmVars, faults>>

-----------------------------------------------------------------------------
(***************************************************************************)
(* The manager commands, one sc.exe call at a time.                        *)
(***************************************************************************)

\* install_service: sc create.
InstallCreate ==
  /\ cli = "idle" /\ installed = "absent"
  /\ installed' = "installed"
  /\ cli' = "configuring"
  /\ UNCHANGED <<recovery, procVars, faults>>

\* install_service: sc failure, whose result is ignored, and the answer.
InstallRecovery(succeeds) ==
  /\ cli = "configuring"
  /\ recovery' = (succeeds /\ installed = "installed")
  /\ cli' = "idle"
  /\ UNCHANGED <<installed, procVars, faults>>

\* start_service: sc start.
Start ==
  /\ cli = "idle" /\ Launch
  /\ UNCHANGED <<scmVars, faults>>

\* uninstall_service: stop_service, whose result is ignored.
UninstallStop(succeeds) ==
  /\ cli = "idle" /\ installed = "installed"
  /\ cli' = "deleting"
  /\ IF succeeds /\ handler = "idle" /\ accepted
     THEN flag' = FALSE /\ handler' = "stored"
     ELSE UNCHANGED <<flag, handler>>
  /\ UNCHANGED <<installed, recovery, status, accepted, reports,
                 crashed, main, worker, tick, faults>>

\* uninstall_service: sc delete, deferred by the SCM while the process lives.
UninstallDelete ==
  /\ cli = "deleting"
  /\ installed' = IF main = "none" THEN "absent" ELSE "marked"
  /\ recovery' = (recovery /\ main # "none")
  /\ cli' = "idle"
  /\ UNCHANGED <<procVars, faults>>

\* uninstall_service: sc delete fails and is reported.
UninstallFails ==
  /\ cli = "deleting"
  /\ cli' = "idle"
  /\ UNCHANGED <<installed, recovery, procVars, faults>>

ServiceMain ==
  \/ RegisterFails \/ RegisterAndStart \/ ReportRunning \/ SpawnWorker
  \/ ObserveStop \/ WaitForWorker \/ JoinWorker

Manager ==
  \/ InstallCreate \/ Start \/ UninstallDelete \/ UninstallFails
  \/ \E succeeds \in BOOLEAN :
       InstallRecovery(succeeds) \/ UninstallStop(succeeds)

Next ==
  \/ ServiceMain
  \/ HandlerStore \/ HandlerReport
  \/ WorkerTick \/ WorkerPanics
  \/ ProcessExits \/ ProcessCrashes \/ ScmRestarts
  \/ Manager

\* The threads of the process are scheduled, the process is reaped, and the SCM
\* carries out its restart actions; nobody is obliged to run a command.
Fairness ==
  /\ WF_vars(RegisterAndStart \/ RegisterFails)
  /\ WF_vars(ReportRunning) /\ WF_vars(SpawnWorker)
  /\ WF_vars(ObserveStop) /\ WF_vars(WaitForWorker) /\ WF_vars(JoinWorker)
  /\ WF_vars(HandlerReport)
  /\ WF_vars(WorkerTick)
  /\ WF_vars(ProcessExits) /\ WF_vars(ScmRestarts)

Spec == Init /\ [][Next]_vars /\ Fairness

-----------------------------------------------------------------------------
TypeOK ==
  /\ installed \in {"absent", "installed", "marked"}
  /\ recovery \in BOOLEAN
  /\ cli \in {"idle", "configuring", "deleting"}
  /\ status \in Statuses /\ accepted \in BOOLEAN
  /\ reports \in Seq(Statuses)
  /\ crashed \in BOOLEAN /\ flag \in BOOLEAN
  /\ main \in {"none", "entered", "starting", "spawning", "polling",
               "waiting", "joining", "returned"}
  /\ handler \in {"idle", "stored"}
  /\ worker \in {"none", "running", "panicked"}
  /\ tick \in 0 .. 1
  /\ faults \in 0 .. MaxFaults

\* STOPPED is never reported over a worker that still runs: ServiceMain joins
\* the worker first, although its wait of five seconds may give up on it.
StoppedMeansNoWorker ==
  (status = "Stopped") => worker # "running"

\* A stop is final: once the handler has cleared SERVICE_RUNNING, the process
\* neither reports RUNNING nor accepts controls again, wherever ServiceMain was
\* at that moment (service_control_handler racing service_main).
StopIsFinal ==
  [][(~flag /\ main # "none" /\ main' # "none") =>
       /\ ~flag'
       /\ status' = "Running" => status = "Running"
       /\ accepted' => accepted]_vars

\* A service that was told to stop stops, if its worker is gone: neither the
\* poll, the timed wait nor the join waits for anything else, and the handler
\* cannot hold them up.
StopCompletesWithoutWorker ==
  (~flag /\ worker = "panicked") ~> (status = "Stopped")

\* docs/service-architecture.md: on a stop event the sentinel loop terminates
\* and SERVICE_STOPPED is reported.
StopCompletes == (~flag) ~> (status = "Stopped")
=============================================================================

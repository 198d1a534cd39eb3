# A TLA+ verification of Kavach-NPU

Kavach-NPU is a host security agent for Windows: detectors turn system events
into verdicts, a privileged broker decides which verdicts may touch the host.
This directory holds TLA+ models of its parts, TLC configurations that check
them on small instances, and TLAPS proofs of the safety properties that hold.
Every definition is written from the Rust source; `PROJECT.json` maps each
one to its lines. Where the code differs from what the repository says of it, the
model follows the code and a configuration shows the difference.

    tlc -config Broker.cfg MCBroker   # a run; PROJECT.json lists them all
    tlapm BrokerProofs.tla            # the proofs; also Pipe-, Service-, Clock-,
                                      # Bundle-, Session-, Detector- and
                                      # TripwireProofs

## 1. Inventory

Paths are relative to the repository; `crates/` is left out of crate names.

| Component | State | Operations | Hard part |
|---|---|---|---|
| Enforcement broker, `kavach-firewall/broker.rs` | policy, replay cache | `evaluate_and_enforce`, the purge | an identifier must outlive every way in which its verdict could come back; the clock may step back |
| Dispatch, `kavach-sensors/pipe_broker.rs`, `kavach-core/wire.rs` | the shared broker's mutex; a frame, a reading and an answer per call | `dispatch` (memory, pipe), `handle_frame` | races between callers, readings taken before the lock, broken writes, lost answers |
| Windows service, `src/service.rs` | `SERVICE_RUNNING`, the status held by the SCM, the worker thread | `service_main`, the control handler, install, uninstall, start, stop | three threads around a stop; panics, crashes, restarts |
| Sentinel daemon, `src/main.rs` | turn counter, derived time | `run_live_sentinel_daemon_ext` | its clock drifts from the broker's; identifiers wrap; it waits for answers without a limit |
| Ransomware tripwire, `kavach-tripwire`, `kavach-sensors/etw_kernel_file.rs` | events of the last 50 ms | `record_event`, `evaluate_pid`, `build_tensor_matrix` | events out of order; boundaries of window and buckets |
| WSL clock synchronisation, `kavach-wsl/clock_sync.rs` and the guest's | samples, estimate, failures | `process_response`, `get_valid_estimate`, `respond_to_challenge` | lost, late, duplicated and reordered messages; restarts of the guest; rounding |
| WSL correlation, `kavach-wsl/correlator.rs` | buffered host events and guest records | `record_host_event`, `correlate_guest_record` | two streams in any order, a full buffer, a stale estimate, two guest clocks |
| WFP rules and driver, `kavach-firewall/rule.rs`, `lib.rs`, `kavach-sensors/wfp_driver.rs` | registry of rules, ids that the driver counts as active, process handles | add, remove, clear, `suspend_process` | the registry and the driver may disagree; stale ids; error paths |
| Beacon detector, `kavach-beacon`, `kavach-sensors/etw_tcpip.rs` | a ring of 32 packets per flow | `ingest_packet`, `clear` | packets out of order; statistics at their limits |
| Security events, `kavach-events`, `kavach-sensors/etw_event_log.rs` | the last 16 events | `record_event`, patterns, Head 3 | reordered delivery, floods, two judges of one window |
| Model bundle and session, `kavach-core/manifest.rs`, `npu.rs`, `keys.rs` | three files; an active or degraded session | `verify_bundle_dir`, `from_config`, `evaluate_*_head` | files are read one after the other while they are replaced |
| Configuration, `kavach-core/config.rs` | one file | `load_or_safe_defaults` | a torn file, of which a prefix may parse |
| Bundle packer, `tools/kavach-pack` | key files and the bundle | keygen, stub-onnx, sign, verify, init-dev | a crash between any two writes |
| Inference backend, `kavach-core/npu_backend.rs` | the loaded library, a session and its mutex | `init_ort_runtime`, the provider cascade, inferences | a double-checked lock, poisoned mutexes, calls that never return |
| Guest agent and wire format, `kavach-wsl-guest`, `kavach-wsl/wire.rs` | sequence numbers, a stream of frames | `record_operation`, `to_frame`, `from_frame`, path translation | a stream that ends within a frame; paths with two names |
| Allowlist, `kavach-core/allowlist.rs` | none: immutable and without a caller | verification, matching | |
| Command line, injector, benchmarks | none that outlives a command | | |

How they interact: the tripwire is fed by file events and read by the daemon on
every turn; an alarm becomes a verdict, which `dispatch` carries to the broker
in memory or over a named pipe; the broker evaluates it under its mutex. The
service owns the daemon's thread. The WSL correlator owns the clock
synchronizer, whose estimate decides whether a guest process may be acted on;
its records are framed by the guest agent. Sessions are opened on a bundle that
the packer or the operator writes, and build an engine on a runtime that all of
a process share. The other detectors are fed by the daemon, each behind a mutex
of its own, and read by nobody else.

What makes each correct, and is checked below: a verdict is acted on at most
once and only under the policy; an answer is about the call it answers; a stop
is final and STOPPED means that nothing runs; the daemon's verdicts are told
apart and are alive when they arrive; the window loses nothing that still
counts, and only bursts lead to a suspension; the estimate is as good as it
claims; an attribution is backed by an event nearby; a session scores only over
a release of the holder of the pinned key; nothing waits for ever behind a
thread that died, and only for a call that hangs; alerts are about something
that happened, and what is not alerted was pushed out; a release ends its own
quarantine only; records come out as they went in, or leave a gap.
`PROJECT.json` lists under `hazards` where in the code each of these could go
wrong.

## 2. The modules

`Broker` is extended by `PipeDispatch` and `Sentinel`, which drive its one
action with their own clocks; `Correlator` extends `ClockSync` and `GuestWire`;
`Session` composes `Bundle` and `Engine`, whose threads are the same processes;
`Detectors` composes `Events`, `Beacon`, `Wfp` and `GuestAgent`. `BrokerExecutor`
is the abstract specification that `Broker` implements, and `Broker` is in turn
the specification that `PipeDispatch` implements. `Sums` has the one sum that
`Events` and `Beacon` take, as a recursive function. Modules named `MC...` give
the constants their small values. Modules named `...Proofs` hold the theorems;
`PipeProofs` covers the daemon too, `ClockProofs` the correlator, and
`DetectorProofs` all of `Detectors`.

**Broker.** `policy`, `replay_cache`; `peak` (the largest reading used) and
`log` (what was enforced, and at which reading) are history. One action,
`EvaluateAndEnforce(v, t)`, is the whole call: gates 1 to 3 (`EarlyError`), then
the purge, then gates 4 to 7 on what is left (`LateError`), then the insertion
with its 64-bit sum (`RetainUntil`). A verdict turned away late still purges;
one turned away early does not. The reading is the caller's, so successive ones
may fall, by at most `MaxRegress` below the largest. The entry in the log stands
for the effect on the host. Neither the broker nor the decoder bounds a deadline
by the clock, so the sum may wrap: `% U64` is the release build, a debug build
panics there. `Fits` says of a verdict that it does not; the properties are about
those, beside others that wrap.

**BrokerExecutor.** An executor that remembers everything: acts on a verdict
only if authorised, and never twice, but for those in `Forgettable`, which the
broker instantiates with the verdicts that do not fit.

**PipeDispatch.** One `Call` per use of `dispatch`, with a client and a server
side that go on independently. The in-memory path reads the clock under the
mutex; the pipe path is handed an earlier reading, held up to `MaxHold`.
Opening, writing and reading may each fail; a broken write still leaves a short
frame for the server. `WireError` has the decoder's checks, `AnswerTable` the
bytes that `dispatch` understands. No code in the repository accepts connections
yet: taking a frame and writing the answer follow the signature of
`handle_frame` and the bytes the client expects.

**Service.** `ServiceMain` is split where the other threads can come in between:
register, RUNNING, spawn, poll, timed wait, join. The handler is split between
its store to the flag and its report. The Service Control Manager is external:
it delivers accepted controls only, takes no status after STOPPED, defers a
deletion while the process lives and restarts after a crash if that was
configured. The manager commands are one `sc.exe` call per step, with those
results that the code ignores left open.

**Sentinel.** The daemon's turn: `DaemonNow` is the start plus a heartbeat per
turn, while the wall clock advances by at least that. Only the I/O head leads to
a verdict; score, delay and reachability of the broker are nondeterministic.
Dispatching is sending, waiting in `read_exact` and discarding the answer; the
broker answers now, later or never, and while it does not the daemon does nothing
else. A run with `continuous` is cut off at `MaxTicks`.

**Tripwire.** Operations are stamped, then delivered in any order within
`MaxSkew`. `ProcessEvent` records, purges and evaluates at the stamp of the
delivered operation, as the code does. Entropies are given per block in
hundredths of a bit, and the statistics of `differential_entropy` are rewritten
in exact integers (multiplied out, so that nothing is divided).

**ClockSync.** Challenges and answers are sets of messages that are never
removed: they may arrive late, twice, in another order or never. The guest's
clock counts from `epoch`, which is therefore the true offset. Rounding is the
code's: midpoints, half round trip and half spread are each rounded down (the
integers involved are not negative). Sending challenges and pairing answers with
them is the caller's business in the code and external here.

**Correlator.** A guest write yields an event at once and a record once the agent
has learnt of it, up to `MaxLag` later, if `GuestWire` frames it; a Windows write
an event only. Both arrive in any order. The agent has two clocks: challenges are
answered by the one of `main`, which counts from `epoch`, records are stamped by
the one of the audit source, which counts from `origin`, up to `MaxOrigin` later
(both are `Instant`s taken one after the other in the code; neither distance has
a bound there). The adjusted timestamp is cast to `u64` as in the code (`% U64`).
`WinPath`, which file a path really names on the mount, is external; `Translate`
is the code's. The two agree on `PlainPaths` only, which leave out symbolic links
and mounts other than drives.

**GuestWire, GuestAgent.** A path is the sequence of its components, so that
`IsNormalized` and `Translate` work on what they work on in the code; a frame is
its two lengths and a record. The agent takes a sequence number per operation,
and may panic over a record that it cannot frame (`main` expects one; other
callers need not); the bridge decodes frame by frame. Stream and bridge are
external: a connection ends at any byte, an agent is started again.

**Bundle.** A command of the packer, of the operator or of a session is the
sequence of its steps on the disk (`prog`), the order being the code's. Writing
is truncating and then filling; between any two steps others run, and at each
the process may die. `files` holds contents, `regs` what a process has in
memory. A torn file is not always useless, and what it is taken for is left
open: of a hex key the first 32 digits pass for a raw key, another key than any
that was made, and a prefix of a configuration parses, its minimum missing or
cut (`CutMinima`). A signature is the pair of a key and a manifest, a digest is
injective: cryptography is taken as ideal, everything around it is not.
`Verdict` has the checks of `verify_manifest_and_onnx` in their order.

**Engine.** Builders go through `init_ort_runtime` (first look at the flag, lock,
second look, load, store) and the cascade; callers through the session's mutex
or the baseline arithmetic. Loading, building and running succeed, fail, panic or
hang. A panic ends the thread and poisons the mutex it holds; a thread that hangs
keeps it, since nothing there has a time limit.

**Session.** A reader of the bundle whose verification has ended builds an
engine, whether it is active or degraded; only evaluations of an active one
reach it.

**Events, Beacon, Wfp, Detectors.** Events and packets are stamped and delivered
within `MaxSkew` in any order, or never. The patterns other than the brute force
are decided by a single event. `AuditAlarm` is Head 3 as the baseline computes
it, the mean over the window: a sum of integers in the model, as its quantised
inputs are integers. Variance and mean of the intervals are multiplied out, so
that nothing is divided. In `Wfp` a quarantine is an entry of the registry, as
in the code, which calls nothing of the platform; the caller who releases one
gives the id it was handed, while the history says which quarantine it meant. A
new driver counts from 1 again, so that an id is good for one driver only;
`issued` starts afresh with it. `Detectors` feeds one of them per behaviour:
they share nothing but the clock.

## 3. The runs

| Run | Instance | States | Shows |
|---|---|---|---|
| `broker` | eleven verdicts: one per gate, identifiers shared, one deadline whose retention wraps; readings 0..6, retention 2, regress 2, four enforcements | 101 k | memory, replay exclusion, at most once, the executor |
| `pipe` | three calls, three verdicts on one identifier, readings 0..4 | 1.2 M | answers match effects, the broker's specification is kept, deadlines hold up to `MaxHold` |
| `service` | two faults | 786 | STOPPED means no worker, a stop is final, and completes once the worker is gone |
| `sentinel` | seven turns, three identifiers | 177 k | expired only by lag, replays only after a wrap and only of something recently enforced |
| `tripwire` | three operations, two files, two processes, two windows | 1.9 M | nothing lost, bursts only, buckets partition |
| `clock` | two challenges, two answers, one restart, times 0..5 | 3.1 M | the estimate's accuracy, no revival without an exchange |
| `correlator` | two writes, one exchange and one restart, lag and clock distance 0 or 1, window 1 | 10.3 M | High is near, a record finds its event |
| `session` | a packer, two sessions, two callers of one engine, two commands, two configurations | 554 k | a session alone with the directory judges it exactly, init-dev repairs it, scores need a release, one load, nobody is stuck but behind a hang |
| `detectors` | five inputs, windows of three, seven ticks | 5.4 M | alerts are real and missed only by a flood, even flows are flagged and only regular ones, releases are exact, records arrive in order with gaps for losses |

Three runs end in a violation. Each states what the repository says and shows a
behaviour of the code that differs (`findings` in `PROJECT.json` quotes it):

- `pipe_unreachable`: a detector is told `BrokerUnreachable` although its
  verdict was, or will be, enforced (ADR 003 promises no host-control call).
- `service_stop`: a stop never completes. The daemon's loop does not read
  `SERVICE_RUNNING`, and `service_main` joins it after the five-second wait.
- `broker_overflow`: a verdict whose deadline is within the retention of 2^64 is
  enforced twice, as the sum that says how long its identifier is kept wraps
  (ADR 003 of a duplicate identifier: "no repeated action").

### Further configurations

`Bundle.cfg` (module `MCBundle`) checks the bundle's properties without engines,
over three commands, two releases and an invalid configuration: 1.6 M states, no
error. The others state a claim of the repository each and end in a violation:

| Configuration | Module | Property | The claim, and what the code does |
|---|---|---|---|
| `SentinelTimeout.cfg` | `MCSentinel` | `TelemetryContinues` | `docs/adr/003-privilege-separation.md:28`, of a timeout: "alert-only telemetry continues". `pipe_broker.rs:70` reads the answer without a time limit, in the loop that evaluates the heads |
| `ClockRestart.cfg` | `ClockSync` | `ValidIsAccurate` | `kavach-wsl/src/clock_sync.rs:6` and `:10`: an estimate applies to a "Guest-agent session" and has a "Conservative one-way uncertainty bound". It outlives the agent (`:153`), whose clock then starts anew |
| `CorrelatorMedium.cfg` | `MCCorrelator` | `MediumIsUnique` | `kavach-wsl/src/correlator.rs:16`: "Unique path/time match"; ADR 005: any multi-match is low. Several matches give Medium (`:140`), and as an estimate above the limit is not valid, nothing else does |
| `BundleRollback.cfg` | `MCBundle` | `RollbackPolicyKept` | `docs/config-schema.md:31`: a failure selects "model rollback/keyring policy at the installed baseline". `config.rs:256` takes the default, 0. `InstalledSpec` begins with a release and a valid configuration |
| `SessionHang.cfg` | `MCSession` | `HangsFallBack` | `docs/npu-integration.md:147`: "If the NPU hardware hangs, times out, [...] falls back to the SIMD CPU baseline". `npu_backend.rs:575` runs without a time limit under the session's mutex |
| `EventsHead.cfg` | `MCDetectors` | `BruteForceRaisesHead` | `tests/npu_parity.rs:84`: a brute-force chain scores 0.866 on Head 3. Its rows are none that logons yield (`events.rs:49`): a full window with a recognised brute force stays below 0.85 |
| `BeaconFast.cfg` | `MCDetectors` | `FastTrafficIsFlagged` | `docs/live-containment-runbook.md:125` and `:131`: a beacon of 200 ms is detected. Below 500 ms nothing is rhythmic (`detector.rs:84`) |
| `WfpClosed.cfg` | `MCDetectors` | `ActiveMeansInjected` | `wfp_driver.rs:33`: "Injects an outbound IP/port quarantine rule into WFP". It enters the rule into a map and a set, with the engine open or not, and calls nothing of the platform (`README.md:86` names `FwpmFilterAdd0`) |

### Why the bounds are enough

- *Broker.* Deadlines 1, 2, 4 and 6 with retention 2 let an identifier be
  enforced, retired and used again; a regress equal to the retention is the
  worst case that `RegressAssumption` allows. A verdict that wraps can be
  enforced again and again, hence `MaxEnforced`; four leave room for one before,
  two of it and one after. The theorems remove the bounds.
- *Pipe.* Replaying, purging and enforcing again takes three calls. The regress
  is at least the clock step and the hold, each of which alone can produce it.
  Calls are interchangeable, hence the symmetry.
- *Service.* Two faults reach a panic followed by a crash, and a crash of the
  process that was restarted.
- *Sentinel.* As in the code, a cycle of identifiers is shorter than lifetime
  plus retention; seven turns are more than two cycles.
- *Tripwire.* `FileThreshold` operations plus one, a window that the bucket
  width does not divide, and a skew smaller than the window. Files are
  interchangeable, and so are processes.
- *Clock, correlator.* Odd and even round trips, a full sample buffer, an answer
  from before a restart and to an earlier challenge. The correlator fixes one
  exchange: the estimate it can see is missing, fresh, stale, too vague or of an
  ended session. Of three names of one file one leads up and down again, which
  the agent refuses, and one is a symbolic link, which is not plain. The
  window is the narrowest in which a record must find its event, and the times
  reach beyond what it, the rounding and the skew of a stamp allow.
- *Session.* Two commands: one that dies half way, and an init-dev or a session
  that finds what it left; `Bundle.cfg` has a third. Of two configurations one
  asks for the generation of the release, one for a later. Two threads race for
  the lock of the runtime, two callers for that of the session, one of each
  fails, panics or hangs. The theorems remove the bounds.
- *Detectors.* Limits are scaled down together: two failures of three events
  make a brute force, three packets fill a flow. Five inputs overfill each
  window by two. Users and targets are only compared, hence the symmetry.

Deadlock is not checked where the system may rest: when all calls have returned,
the bounded run has ended or the time bound is reached.

### Fairness

Safety runs assume none. `Service` assumes weak fairness of the threads of the
process, of the reaping of a process that has finished and of the SCM's restart
actions; no command is obliged to be run and no fault to happen. `Sentinel`
assumes that time passes and that the daemon's thread is scheduled, and nothing
of the server. `Session` assumes that threads that have begun are scheduled, but
a call of the runtime may hang: that is a step of its own after which the thread
takes no other. A mutex of the standard library is not fair; as each caller
makes boundedly many calls, weak fairness is enough for `NoThreadStuck`.
`StopCompletes` fails although the worker is scheduled fairly: it is not slow,
it never looks. `TelemetryContinues` and `HangsFallBack` fail for want of a time
limit in the code, under the fairness above.

## 4. The proofs

Each theorem holds for every value of the constants that satisfies the named
assumptions, and so without the bounds of the runs.

| Module | Theorem | Says |
|---|---|---|
| `BrokerProofs` | `TypeCorrect` | `Spec => []TypeOK` |
| | `Remembrance` | an enforced identifier is cached for its retention, or the clock has passed it, if that fits in 64 bits |
| | `ReplayProtection` | two enforcements under one identifier are a retention apart, up to the regress, if the retention of the first fits |
| | `AtMostOnce` | no verdict that fits is enforced twice |
| | `BrokerImplementsExecutor` | `Spec => Executor!Spec` under `executed <- Executed`, with the verdicts that do not fit as `Forgettable` |
| `PipeProofs` | `DispatchImplementsBroker` | `DispatchSpec => Spec` |
| | `DispatchAtMostOnce` | no verdict that fits is enforced twice, however many detectors race |
| | `AnswersAreTrue` | Ok means that this call enforced the verdict; any other answer but `BrokerUnreachable`, that it did not |
| | `DeadlinesKept` | a verdict reaches the host at most `MaxHold` after its deadline |
| | `ReplayNeedsWrap` | the daemon's verdicts are refused as replays only after its identifiers went round |
| | `ExpiryNeedsLag` | they expire on arrival only if the turns were late by more than the lifetime |
| | `ReplayRecent` | what is refused as a replay follows an alarm that was enforced and is still retained |
| `ClockProofs` | `ClockTypeCorrect` | `ClockSpec => []ClockTypeOK` |
| | `EstimateIsAccurate` | the estimate is as good as its uncertainty says, while its session lasts |
| | `RevivedOnlyByAcceptance` | only an accepted exchange makes an invalid estimate valid again |
| | `HighIsNearby` | High confidence rests on an event near the write, but for the skew of its stamp, and for plain paths on its file |
| | `OwnEventIsFound` | a record on a plain path finds its event while that is buffered and the estimate, with the skew of the stamp, is good enough |
| `BundleProofs` | `BundleTypes` | `BundleSpec => []BundleTypeOK` |
| | `SoleReader` | a session alone with the directory is active only on a released bundle, and with an intact configuration exactly on one of a sufficient generation |
| | `InitDevRecovers` | init-dev, run alone to its end, leaves a bundle that verifies, whatever was there before |
| `SessionProofs` | `SessionTypes` | both mutexes are held by the thread in their critical section only |
| | `LoadedOnce` | the runtime is loaded at most once |
| | `OnlyReleasesScored` | a session that has computed anything holds one released bundle |
| `ServiceProofs` | `ServiceTypes` | `Spec => []TypeOK` |
| | `StoppedTruthful` | STOPPED is never in force over a running worker |
| | `StopFinal` | after a stop nothing in the process reports RUNNING or accepts a control |
| `TripwireProofs` | `WindowComplete` | nothing that still counts is purged |
| | `SuspensionOverBurst` | a suspension needs a real burst |
| | `BucketsExact` | every event before the last one is in exactly one bucket |
| `DetectorProofs` | `QuarantineExact` | a target is registered exactly while a quarantine of it was not released by its owner |
| | `RecordsInOrder` | no whole frame is refused, and records keep the order of their operations |
| | `LossesShow` | what was lost shows as a gap in the sequence numbers |
| | `BruteForceReal` | a reported brute force rests on enough failures of the account |
| | `MissedByFlood` | it goes unreported only if the failures were pushed out of the window |
| | `HeadStaysSilent` | a reported brute force stays below the threshold of Head 3 |
| | `FlaggedRegular` | a flagged flow came in the order of its stamps, at MinBeacon on average |
| | `EvenFlagged` | small packets evenly spaced by the minimal interval or more are flagged |

*Broker.* Assumptions: the constants have their types (`ConstantsAssumption`),
and the clock regresses by no more than the retention (`RegressAssumption`,
needed only for `AtMostOnce` and the refinement). Nothing is assumed of
deadlines: that one fits is a condition on the verdict in question, and the
others, whose identifiers may equal its own, come and go beside it.
`EnforcedAtMostOnce` is not inductive: it says nothing of what the cache holds.
`ReplayInv` adds `RememberedUntilRetired`, which ties each entry of the log to
the cache or to `peak`; that enforcements are before their deadline; and that
they are authorised. A purge at reading `t` drops an identifier only if `t`, and
so `peak`, is past its retention (`PurgeRemembers`). If the identifier is then
used again at `t'`, `t' + MaxRegress >= peak`, which is `ReplayExclusion`. A
later verdict that wraps may overwrite its entry, but only once it is retired.
For the same verdict `t'` is not after the deadline either, which contradicts a
regress within the retention: hence at most once. That gives the refinement, as
the executor's only extra demand is novelty.

*Dispatch.* `Broker` constrains its environment: readings may not regress by more
than `MaxRegress`. The proof shows that the dispatchers respect this if
`MaxRegress` is at least the step by which the clock is set back and at least
the time a reading is held (`DispatchAssumption`); the larger of the two is
enough, not their sum. `DispatchInv` says why: the clock is within `ClockStep`
of its largest value, so a fresh reading is recent, and the clock does not move
more than `MaxHold` past a held one. That a handler holds its reading for at most
`MaxHold` is an assumption about scheduling (a guard of `MoveClock`); the code
has no such limit.

For the answers, `AnswersInv` says of each call how its two sides hang together:
no effect before the evaluation, an answer written tells the effect, and a client
that left earlier was told that the broker is unreachable. It rests on one fact
about the code's two tables: the byte that `handle_frame` writes is read as the
answer it stands for. Deadlines need `HeldBriefly` only: the reading that gate 3
compared is at most `MaxHold` old.

*Daemon.* `SentinelInv` makes the drift exact: the wall clock at the beginning of
a turn is the daemon's derived time plus what all turns were late, so that a
verdict arrives expired only by lag. The cache holds identifiers of earlier turns
only, and two turns with one identifier are a cycle apart (`IdentifiersWrap`).
Each entry of the cache is the retention of a verdict in the log, so a replay
points to an enforcement.

*Service.* `StoppedMeansNoWorker` looks at what the SCM holds, which a late
report cannot change after STOPPED. `WorkerInv` therefore speaks of the reports
made, too: the worker lives only between spawn and join, and STOPPED, reported
or held, comes after. `StopInv` says that no control is accepted before RUNNING
was reported, so that a stop cannot be overwritten by the start.

*Clock.* `EstimateAccurate` says nothing about messages and samples. `ClockInv`
adds that everything on its way keeps the order of its exchange, by the clock of
the session that answered (`MessagesTimely`), that every sample is within half
its round trip of its session's offset (`SamplesAccurate`), and the same of the
estimate, whatever session is running now (`EstimateSound`). The step is
`MidpointAccurate`: for an answer received after `t0` and sent before `t3` the
rounded midpoints are at most `rtt div 2 + 1` off, however the delay was split.

*Correlator.* Its steps are steps or stutters of the synchroniser, so `ClockInv`
holds. `CorrelatorInv` adds that the guest's stamp and its session's offset give
the time of the write up to `MaxLag` after it and `MaxOrigin` before, and that
events and records of one number are of one write. With `EstimateIsAccurate` the
adjusted stamp is then that close, up to the estimate's uncertainty; it is not
negative for the writes that `OwnEventFound` is about, and below 2^64
(`CorrelatorAssumption`: clocks are far from it). `PlainAssumption` is what
plain means of the external file system: such a path, without components that
lead elsewhere, names the file it spells; what `Translate` makes of it is then
the path in the event. Both bounds are parameters, not facts: the code has no
limit on the agent's lag.

*Bundle.* Assumptions: packers and readers are different processes, and neither
an absent nor a torn file is a manifest, a model, a configuration, a key or a
signature (`BundleAssumption`). What is judged are registers, filled one step at
a time, so the invariant speaks of what is still ahead: `ShapeInv` (what is left
of a reader's program ends with the judgement, and the manifest is read before
it is parsed), `FreshInv` (while nobody else writes, a register whose read is no
longer ahead equals the file) and `HoldsInv` (a reader judges with the pinned
key, and "Ok" is what its registers give). `SigInv` is the one fact about keys:
a signature by the pinned key, in any file or register, is of a release. It is
preserved by signing because the packer's keys are never the pinned one, which
`Inv`, the type invariant, carries through the key files. For `InitDevRepairs`
the invariant follows the program counter of init-dev: `PackerInv` says of a
packer that nobody disturbed that it runs another command, or has written
exactly the files that the steps behind it write. The manifest that init-dev
writes has major version and generation 1, as in the code
(`DevManifestAssumption`), hence the verification it ends with accepts it.

*Session.* `SessionNext` implies a step or a stutter of the bundle, so all of the
above holds of sessions. `CountInv` adds that an engine that was called belongs
to an active session, and `OpenStays` that an open session never changes.
`LoadInv` ties the lock to the thread that loads: a second load would need a
thread in "loading" while `loads = 1`, but then the flag is set, or the thread
that will set it still holds the lock.

*Tripwire.* `TripwireInv`: an operation in flight is no older than `MaxSkew`, and
what was purged is older than the window of everything delivered since. The
tracker's filter is `AtPlaces`, defined over the sorted set of places that it
keeps (`PlacesKept`), as the provers know nothing of `SelectSeq`. Payloads are
sequences of natural numbers.

*Detectors.* Each component has its own invariant, as the others leave it alone.
`QuarantineInv`: a driver never uses an identifier twice, and the rules in its
registry are the quarantines whose owner has not released them, hence a release
takes its own rule only. `AgentInv`: the sequence number of a record is the
number of writes of its agent up to its operation, in the stream and after
decoding; frames built by `to_frame` pass the checks of `from_frame`
(`WireAgrees`). `EventsInv`: the window is the end of what was delivered. The
mean that Head 3 judges is bounded by giving the failures their weight, the
logon its own, and every other event the largest one; that this stays below the
threshold is arithmetic about the code's two constants (`HeadAssumption`: 1905 *
16 < 11400 + 7600 * 3). `HeadStaysSilent` says so of each window, where
`EventsHead.cfg` shows one. `BeaconInv`: each buffer lists the last packets of its
flow, in order. If one interval were zero, then by the inequality of Cauchy and
Schwarz, over one value less, the variation of up to 33 intervals would exceed
the limit (`RhythmAssumption`: the window has at most 34 packets, 32 in the
code; from 35 on it would be false). So all intervals are positive and their sum
telescopes.

Sums are the one induction over data. The library's induction theorems cannot be
used, so `UpToInduction` is proved from the well-foundedness of the natural
numbers (the least counterexample), about a set rather than a predicate; what the
recursive function of `Sums` computes follows (`TotalsAdd`).

*Only model-checked.* Liveness: `NoThreadStuck` and `StopCompletesWithoutWorker`,
as fairness and ENABLED are out of the prover's reach. Every safety property of a
passing run has a theorem.

## 5. Known disagreements without a run

Found while modelling; the model follows the code.

- `kavach-firewall/src/broker.rs:73` still enforces in the millisecond of the
  deadline, which `kavach-core/src/lib.rs:59` calls exclusive.
- `kavach-core/src/lib.rs:94` speaks of identifiers "already accepted or
  rejected"; the broker remembers accepted ones only.
- `src/service.rs:76`: the handler may report STOP_PENDING after STOPPED,
  against the order in the header of the file.
- `src/service.rs:121`: after a panic of the worker the service stays RUNNING,
  which ADR 008 describes as active monitoring.
- `src/service.rs:203`: a failed `sc failure` is ignored, and "Recovery enabled"
  is printed.
- ADR 005 asks for the full spread of the offsets as uncertainty; the code takes
  half of it (`kavach-wsl/src/clock_sync.rs:138`). The drift that ADR 005 speaks
  of is in neither the code nor the model.
- `kavach-wsl/src/correlator.rs:13` promises for High a match of path, operation
  and time; the operation is not compared. Matched events stay in the buffer, so
  that one event can be attributed with High confidence to two guest processes.
- `docs/schemas/wsl-vsock-record-v1.md:26` has the bridge reject repeated
  sequence numbers, and ADR 005 has gaps lower the confidence; no code does
  either.
- `src/main.rs:532`: the daemon's derived time falls behind the wall clock, so
  that its verdicts can arrive expired; `ExpiredOnlyByLag` states how late it
  must be.
- `src/main.rs:552`: identifiers are `tick & 0xFF`, so that an alarm is refused
  as a replay of another one 25.6 s earlier, against `kavach-core/src/lib.rs:55`
  (`ReplayOnlyAfterWrap`).
- `kavach-core/src/npu.rs`: the engine of an active session runs the reference
  model built into the program, not the model that was verified.
- `kavach-beacon/src/detector.rs`: the coefficient of variation is documented as
  at most 0.35; with the score's threshold the limit is 0.175. One interval of
  zero among 31 equal ones is above it.
- `kavach-events/src/events.rs:74` has failures "followed by" the logon;
  failures stamped after it count too (`BruteForceIsReal` bounds by how much).
- `kavach-tripwire/src/sliding_window.rs:90` builds the matrix at the time of
  the last event, so that an old burst is scored until something else happens.
- `kavach-tripwire/src/sliding_window.rs:137`: the newest event is in no bucket;
  `BucketsPartition` therefore speaks of the earlier ones.
- `src/main.rs:503`: the daemon prints that its pipe is listening; no code
  serves it.

## 6. Not modelled, and why

- *Allowlist.* Verification and matching of an immutable value that nothing in
  the repository calls; its checks are those of the bundle's manifest.
- *Reconnection of the guest agent.* `compute_backoff_ms` has no caller; the loop
  it is for is not written.
- *Data without control.* Bytes of frames and manifests beyond what the checks
  look at, tensors, feature values, byte entropy, model scores and the generator
  of the reference model. Cryptographic primitives are taken as correct.
- *Beacon flows without limit.* Flows are added for every new key and never
  removed but all at once: there is no bound to state. The tensor is that of the
  first full flow in the order of a hash map, any of them; it is left out.
- *Command line, status reports, injector, benchmarks.* No state outlives a
  command.

## 7. Plan

Left to prove: that the daemon with its broker implements `Broker`, as the
dispatchers do, which carries at-most-once over to the daemon's verdicts. It
needs its readings and verdicts to be among the broker's constants, and the wall
clock not to be set back.

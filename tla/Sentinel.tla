------------------------------ MODULE Sentinel ------------------------------
(***************************************************************************)
(* The sentinel daemon (run_live_sentinel_daemon_ext in src/main.rs) and   *)
(* the broker that its verdicts are for.                                   *)
(*                                                                         *)
(* The daemon does not read the wall clock again after its start: it adds  *)
(* a heartbeat per turn to the reading it took then, while a turn lasts at *)
(* least a heartbeat and, with the scheduler's and its own delays, longer. *)
(* The broker judges the verdicts by the wall clock.  The score of the     *)
(* model is external; only the I/O head leads to a verdict, the other two  *)
(* heads print.  Whether the pipe reaches a broker, and whether and when   *)
(* that answers, is external too: dispatch waits for the answer without a  *)
(* limit.  A frame whose connection breaks is dropped here; PipeDispatch   *)
(* has the server that handles it all the same.                            *)
(***************************************************************************)
EXTENDS Broker

CONSTANTS
  Heartbeat,  \* milliseconds of sleep per turn (100 in the code)
  Ttl,        \* lifetime given to a verdict (10_000)
  IdSpace,    \* request identifiers used: tick & 0xFF (256)
  MaxTicks,   \* max_ticks, and the bound on the turns of a continuous run
  MaxLate,    \* bound on the delay of a turn beyond its heartbeat
  Start       \* the wall clock when the daemon starts

ASSUME SentinelAssumption ==
  /\ Heartbeat \in Nat \ {0} /\ Ttl \in Nat /\ IdSpace \in Nat \ {0}
  /\ MaxTicks \in Nat \ {0} /\ MaxLate \in Nat /\ Start \in Nat

VARIABLES
  active,      \* the NpuSession is Active, not DegradedObserver
  continuous,  \* the argument of that name
  wall,        \* the wall clock
  tick,        \* the turn the daemon is in
  since,       \* the wall clock when that turn began
  done,        \* the loop has been left
  call,        \* of dispatch: "none", "sent" (in read_exact) or "answered"
  late,        \* history: the delays of all turns beyond their heartbeats
  answered     \* history: what became of the last verdict, its turn, the wall
               \* clock and what the delays added up to by then

daemonVars == <<active, continuous, wall, tick, since, done, call,
                late, answered>>
sentinelVars == <<vars, daemonVars>>

-----------------------------------------------------------------------------
\* let now_ms = start_ts + tick * 100
DaemonNow(n) == Start + n * Heartbeat

\* Mutant of RequestId: the high instead of the low bits of the turn.
RequestIdHigh(n) == n \div IdSpace

\* req_id[0] = (tick & 0xFF) as u8
RequestId(n) == n % IdSpace

\* Mutant of DaemonVerdict: the lifetime counted from the turn before.
DaemonVerdictShort(n) ==
  [major |-> 1, request_id |-> RequestId(n), issued_at |-> DaemonNow(n),
   expires_at |-> DaemonNow(n - 1) + Ttl, action |-> "SuspendAndAlert",
   model |-> CHOOSE m \in ModelDigests : TRUE, generation |-> 1,
   pid |-> 1337, evidence |-> 3, flags |-> 0]

\* The verdict of turn n: its process, evidence and model are constants.
DaemonVerdict(n) ==
  [major |-> 1, request_id |-> RequestId(n), issued_at |-> DaemonNow(n),
   expires_at |-> DaemonNow(n) + Ttl, action |-> "SuspendAndAlert",
   model |-> CHOOSE m \in ModelDigests : TRUE, generation |-> 1,
   pid |-> 1337, evidence |-> 3, flags |-> 0]

\* The loop is left at its head once turn n is beyond max_ticks.
LoopEnds(n) == ~continuous /\ n > MaxTicks

SentinelInit ==
  /\ Init
  /\ active \in BOOLEAN
  /\ continuous \in BOOLEAN
  /\ wall = Start /\ tick = 1 /\ since = Start
  /\ done = LoopEnds(1)
  /\ call = "none" /\ late = 0
  /\ answered = [outcome |-> "None", tick |-> 0, at |-> Start, late |-> 0]

\* Time passes while the daemon sleeps, waits or is kept from running.
Advance ==
  /\ ~done
  /\ wall < since + Heartbeat + MaxLate
  /\ wall' = wall + 1
  /\ UNCHANGED <<vars, active, continuous, tick, since, done, call, late,
                 answered>>

\* The delays of all turns, up to now.
Lag == late + (wall - since - Heartbeat)

Answer(outcome) ==
  answered' = [outcome |-> outcome, tick |-> tick, at |-> wall, late |-> Lag]

\* The rest of a turn is over: the head of the next one.
NextTurn ==
  /\ late' = Lag
  /\ tick' = tick + 1
  /\ since' = wall
  /\ done' = LoopEnds(tick')
  /\ call' = "none"
  /\ UNCHANGED <<active, continuous, wall>>

\* A turn after its sleep, without an alarm of the I/O head.
Quiet ==
  /\ ~done /\ call = "none" /\ wall >= since + Heartbeat
  /\ tick <= MaxTicks
  /\ NextTurn
  /\ UNCHANGED <<vars, answered>>

\* An alarm: dispatch cannot open the pipe or write to it, or has sent the
\* verdict and reads the answer.
Dispatch ==
  /\ active
  /\ ~done /\ call = "none" /\ wall >= since + Heartbeat
  /\ tick <= MaxTicks
  /\ \/ Answer("BrokerUnreachable") /\ NextTurn
     \/ /\ call' = "sent"
        /\ UNCHANGED <<active, continuous, wall, tick, since, done, late,
                       answered>>
  /\ UNCHANGED vars

\* The broker evaluates the verdict, sooner or later or never.
BrokerAnswers ==
  /\ call = "sent"
  /\ call' = "answered"
  /\ LET v == DaemonVerdict(tick) IN
       /\ EvaluateAndEnforce(v, wall)
       /\ Answer(Outcome(policy, replay_cache, v, wall))
  /\ UNCHANGED <<active, continuous, wall, tick, since, done, late>>

\* read_exact fails: the server is gone before it has handled the frame.
PipeBreaks ==
  /\ call = "sent"
  /\ Answer("BrokerUnreachable")
  /\ NextTurn
  /\ UNCHANGED vars

\* let _ = dispatch(...): whatever the answer, the turn goes on.
Discard ==
  /\ call = "answered"
  /\ NextTurn
  /\ UNCHANGED <<vars, answered>>

SentinelNext ==
  Advance \/ Quiet \/ Dispatch \/ BrokerAnswers \/ PipeBreaks \/ Discard

\* Time passes and the daemon's thread is scheduled.  Nothing is assumed of the
\* server at the other end of the pipe.
SentinelFairness ==
  /\ WF_sentinelVars(Advance)
  /\ WF_sentinelVars(Quiet \/ Dispatch)
  /\ WF_sentinelVars(Discard)

SentinelSpec ==
  SentinelInit /\ [][SentinelNext]_sentinelVars /\ SentinelFairness

-----------------------------------------------------------------------------
\* A verdict of the daemon is mistaken for a replay only once its identifiers
\* have wrapped around: within one cycle each turn has an identifier of its own.
ReplayOnlyAfterWrap ==
  answered.outcome = "ReplayDetected" => answered.tick > IdSpace

\* An alarm is refused as expired only once the delays of all the turns since
\* the start add up to more than a verdict has to live: the clock the daemon
\* derives from its turns loses the delays and nothing else.
ExpiredOnlyByLag ==
  answered.outcome = "Expired" => answered.late > Ttl

\* What the discarded answer of a replay hides is harmless: the daemon's
\* verdicts all ask for the same action on the same process, and the one that
\* carried the identifier before was enforced, with a retention that has not run
\* out (dispatch, gate 4 of evaluate_and_enforce).
ReplayMeansRecentlyEnforced ==
  answered.outcome = "ReplayDetected" =>
    \E i \in DOMAIN log :
      /\ log[i].verdict.request_id = RequestId(answered.tick)
      /\ answered.at <= log[i].verdict.expires_at + Retention

\* ADR 003, "IPC failure states": when the broker does not answer ("timeout"),
\* "alert-only telemetry continues".  Every turn comes to an end.
TelemetryContinues ==
  \A n \in 1 .. MaxTicks : tick = n ~> tick > n
=============================================================================

---------------------------- MODULE PipeDispatch ----------------------------
(***************************************************************************)
(* Detectors that dispatch verdicts to the broker (pipe_broker.rs):        *)
(* PipeVerdictDispatcher on the detector's side, PipeBrokerServer on the   *)
(* broker's, and the EnforcementBroker they share behind a mutex.          *)
(*                                                                         *)
(* Each call of dispatch is a Call with a client side, and, when it goes   *)
(* through the pipe, a server side that outlives a client that has given   *)
(* up.  The in-memory path reads the wall clock under the mutex; the pipe  *)
(* path is handed a reading taken before the mutex is acquired, so that    *)
(* readings reach the broker out of order.  No code in the repository      *)
(* accepts connections yet: taking a frame off the pipe, reading the clock *)
(* and writing the answer back are modelled from the signature of          *)
(* handle_frame and from the answers that dispatch understands.            *)
(***************************************************************************)
EXTENDS Broker

CONSTANTS
  Calls,       \* calls of dispatch, each with a connection of its own
  ClockStep,   \* how far the wall clock may be set back below its maximum
  MaxHold,     \* how long a reading may be held before it is used
  MaxWindow    \* MAX_EXPIRY_WINDOW_MS (30_000 in the code)

ASSUME DispatchAssumption ==
  /\ ClockStep \in Nat
  /\ MaxHold \in Nat
  /\ MaxWindow \in Nat
  /\ MaxRegress >= ClockStep
  /\ MaxRegress >= MaxHold

VARIABLES
  clock,    \* SystemTime::now, Unix milliseconds
  top,      \* history: the largest value clock has had
  client,   \* "idle", "waiting" for the answer, or "done"
  server,   \* "none", "pending" in the pipe, "held" by a handler, "done"
  frame,    \* the verdict sent and whether all 139 bytes were written
  reading,  \* now_unix_ms handed to handle_frame
  answer,   \* the byte written back to the client
  result,   \* what dispatch returned; "None" stands for Ok(())
  acted     \* history: the calls whose evaluation enforced the verdict

callVars == <<client, server, frame, reading, answer, result>>
dispatchVars == <<vars, clock, top, callVars, acted>>

-----------------------------------------------------------------------------
\* Verdict::from_slice and from_wire followed by From<WireError>.
WireError(f) ==
  LET v == f.verdict IN
  IF ~f.whole THEN "MalformedMessage"
  ELSE IF v.major # 1 THEN "VersionMismatch"
  ELSE IF \/ v.issued_at > v.expires_at
          \/ v.expires_at - v.issued_at > MaxWindow
          \/ v.pid = 0 /\ v.action # "Alert"
          \/ v.flags # 0
       THEN "MalformedMessage"
  ELSE "None"

\* The answers dispatch understands; any other byte is BrokerUnreachable.
AnswerTable ==
  << "None", "VersionMismatch", "ReplayDetected", "MalformedMessage",
     "AuthenticationFailed", "Expired", "ActionDenied" >>

DecodeAnswer(b) ==
  IF b + 1 \in DOMAIN AnswerTable THEN AnswerTable[b + 1]
  ELSE "BrokerUnreachable"

\* The byte the server writes for an outcome of handle_frame.
EncodeAnswer(outcome) ==
  CHOOSE b \in 0 .. Len(AnswerTable) - 1 : AnswerTable[b + 1] = outcome

NoFrame == [verdict |-> CHOOSE v \in Verdicts : TRUE, whole |-> FALSE]

-----------------------------------------------------------------------------
DispatchInit ==
  /\ Init
  /\ clock \in Times
  /\ top = clock
  /\ client = [k \in Calls |-> "idle"]
  /\ server = [k \in Calls |-> "none"]
  /\ frame = [k \in Calls |-> NoFrame]
  /\ reading = [k \in Calls |-> 0]
  /\ answer = [k \in Calls |-> 0]
  /\ result = [k \in Calls |-> "BrokerUnreachable"]
  /\ acted = {}

\* The evaluation made on behalf of call k.
Evaluate(k, v, t) ==
  /\ EvaluateAndEnforce(v, t)
  /\ acted' = IF Outcome(policy, replay_cache, v, t) = "None"
              THEN acted \cup {k} ELSE acted

Return(k, r) ==
  /\ client' = [client EXCEPT ![k] = "done"]
  /\ result' = [result EXCEPT ![k] = r]

\* dispatch with an in-memory broker: lock, read the clock, evaluate.
DispatchInMemory(k, v) ==
  /\ client[k] = "idle"
  /\ frame' = [frame EXCEPT ![k] = [verdict |-> v, whole |-> FALSE]]
  /\ Evaluate(k, v, clock)
  /\ Return(k, Outcome(policy, replay_cache, v, clock))
  /\ UNCHANGED <<clock, top, server, reading, answer>>

\* dispatch over the pipe: the pipe cannot be opened.
OpenFails(k, v) ==
  /\ client[k] = "idle"
  /\ frame' = [frame EXCEPT ![k] = [verdict |-> v, whole |-> FALSE]]
  /\ Return(k, "BrokerUnreachable")
  /\ UNCHANGED <<vars, clock, top, server, reading, answer, acted>>

\* dispatch over the pipe: write_all succeeds.
SendFrame(k, v) ==
  /\ client[k] = "idle"
  /\ client' = [client EXCEPT ![k] = "waiting"]
  /\ server' = [server EXCEPT ![k] = "pending"]
  /\ frame' = [frame EXCEPT ![k] = [verdict |-> v, whole |-> TRUE]]
  /\ UNCHANGED <<vars, clock, top, reading, answer, result, acted>>

\* dispatch over the pipe: write_all fails after a part of the frame.
WriteFails(k, v) ==
  /\ client[k] = "idle"
  /\ server' = [server EXCEPT ![k] = "pending"]
  /\ frame' = [frame EXCEPT ![k] = [verdict |-> v, whole |-> FALSE]]
  /\ Return(k, "BrokerUnreachable")
  /\ UNCHANGED <<vars, clock, top, reading, answer, acted>>

\* The server takes the frame off the pipe and reads the clock.
AcceptFrame(k) ==
  /\ server[k] = "pending"
  /\ server' = [server EXCEPT ![k] = "held"]
  /\ reading' = [reading EXCEPT ![k] = clock]
  /\ UNCHANGED <<vars, clock, top, client, frame, answer, result, acted>>

\* Mutant of HandleFrame: the identifier of a refused frame is remembered too.
HandleFrameEager(k) ==
  /\ server[k] = "held"
  /\ server' = [server EXCEPT ![k] = "done"]
  /\ LET v == frame[k].verdict
         refused == WireError(frame[k])
     IN \/ /\ refused # "None"
           /\ answer' = [answer EXCEPT ![k] = EncodeAnswer(refused)]
           /\ replay_cache' = Remember(replay_cache, v)
           /\ UNCHANGED <<policy, peak, log, acted>>
        \/ /\ refused = "None"
           /\ Evaluate(k, v, reading[k])
           /\ answer' = [answer EXCEPT ![k] =
                EncodeAnswer(Outcome(policy, replay_cache, v, reading[k]))]
  /\ UNCHANGED <<clock, top, client, frame, reading, result>>

\* handle_frame: decode; lock and evaluate with the reading it was handed.
HandleFrame(k) ==
  /\ server[k] = "held"
  /\ server' = [server EXCEPT ![k] = "done"]
  /\ LET v == frame[k].verdict
         refused == WireError(frame[k])
     IN \/ /\ refused # "None"
           /\ answer' = [answer EXCEPT ![k] = EncodeAnswer(refused)]
           /\ UNCHANGED <<vars, acted>>
        \/ /\ refused = "None"
           /\ Evaluate(k, v, reading[k])
           /\ answer' = [answer EXCEPT ![k] =
                EncodeAnswer(Outcome(policy, replay_cache, v, reading[k]))]
  /\ UNCHANGED <<clock, top, client, frame, reading, result>>

\* Mutant of ReadAnswer: read instead of read_exact, which may leave the buffer
\* as it was initialised.
ReadAnswerUnfilled(k) ==
  /\ client[k] = "waiting"
  /\ Return(k, DecodeAnswer(answer[k]))
  /\ UNCHANGED <<vars, clock, top, server, frame, reading, answer, acted>>

\* read_exact returns the answer.
ReadAnswer(k) ==
  /\ client[k] = "waiting"
  /\ server[k] = "done"
  /\ Return(k, DecodeAnswer(answer[k]))
  /\ UNCHANGED <<vars, clock, top, server, frame, reading, answer, acted>>

\* read_exact fails, whatever the server has done or will do.
ReadFails(k) ==
  /\ client[k] = "waiting"
  /\ Return(k, "BrokerUnreachable")
  /\ UNCHANGED <<vars, clock, top, server, frame, reading, answer, acted>>

\* The wall clock moves on, or is set back; a handler holds its reading for no
\* longer than MaxHold.
MoveClock(t) ==
  /\ t # clock
  /\ t + ClockStep >= top
  /\ \A k \in Calls : server[k] = "held" => t <= reading[k] + MaxHold
  /\ clock' = t
  /\ top' = IF t > top THEN t ELSE top
  /\ UNCHANGED <<vars, callVars, acted>>

Submit(k) ==
  \E v \in Verdicts :
    \/ DispatchInMemory(k, v)
    \/ OpenFails(k, v)
    \/ SendFrame(k, v)
    \/ WriteFails(k, v)

DispatchNext ==
  \/ \E k \in Calls :
       \/ Submit(k)
       \/ AcceptFrame(k)
       \/ HandleFrame(k)
       \/ ReadAnswer(k)
       \/ ReadFails(k)
  \/ \E t \in Times : MoveClock(t)

DispatchSpec == DispatchInit /\ [][DispatchNext]_dispatchVars

-----------------------------------------------------------------------------
\* The dispatchers keep to what the broker was specified for: every reading
\* they hand it is within MaxRegress of the largest one.  So the broker's
\* guarantees hold for detectors that race each other over the pipe.
BrokerSpec == Spec

\* The answer a detector gets is about its own call: Ok means that this call
\* was the one that enforced the verdict, and a definite rejection that it was
\* not, whichever calls ran in between (dispatch, handle_frame).
AnswersMatchEffects ==
  \A k \in Calls : client[k] = "done" =>
    /\ result[k] = "None" => k \in acted
    /\ k \in acted => result[k] \in {"None", "BrokerUnreachable"}

\* A verdict reaches the host no later than MaxHold after its deadline, by the
\* wall clock at the moment of enforcement: the reading handle_frame is given
\* is stale by at most the time the handler held it.
EnforcedByDeadline ==
  [][Len(log') > Len(log) =>
       clock <= log'[Len(log')].verdict.expires_at + MaxHold]_dispatchVars

\* ADR 003, "IPC failure states": when the detector sees the broker as
\* unreachable or times out, no host-control call has been performed.
UnreachableMeansNotEnforced ==
  \A k \in Calls :
    (client[k] = "done" /\ result[k] = "BrokerUnreachable") => k \notin acted
=============================================================================

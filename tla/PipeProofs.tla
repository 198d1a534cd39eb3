----------------------------- MODULE PipeProofs -----------------------------
(***************************************************************************)
(* Detectors that race each other over the pipe and in memory keep to the  *)
(* broker's specification, for any number of calls, so that everything     *)
(* proved of the broker holds for them.  Then the daemon, whose clock lags *)
(* and whose identifiers wrap, in front of the same broker.                *)
(***************************************************************************)
EXTENDS PipeDispatch, Sentinel, BrokerProofs

\* The readings, and the verdicts that are still to be handled, have their
\* types.  A frame that nobody has sent may hold anything.
ReadingsTyped ==
  /\ clock \in Times /\ top \in Times /\ peak \in Nat
  /\ DOMAIN server = Calls /\ DOMAIN frame = Calls /\ DOMAIN reading = Calls
  /\ \A k \in Calls :
       /\ server[k] \in {"pending", "held"} => frame[k].verdict \in Verdicts
       /\ server[k] = "held" => reading[k] \in Times

\* The clock is at most ClockStep below its largest value.
ClockNearTop == clock <= top /\ clock + ClockStep >= top

\* Nothing the broker was handed lies ahead of the wall clock, and a reading
\* that handle_frame still holds is within MaxRegress of its largest value.
ReadingsRecent ==
  /\ peak <= top
  /\ \A k \in Calls : server[k] = "held" =>
       reading[k] <= top /\ reading[k] + MaxRegress >= top

\* The inductive invariant: a fresh reading is near the largest value of the
\* clock, and MoveClock does not leave a held one behind.
DispatchInv ==
  /\ ReadingsTyped
  /\ ClockNearTop
  /\ ReadingsRecent

\* Constants in the form in which the steps below use them.
LEMMA DispatchConstants ==
  /\ Times \subseteq Nat
  /\ ClockStep \in Nat /\ MaxHold \in Nat /\ MaxRegress \in Nat
  /\ MaxRegress >= ClockStep /\ MaxRegress >= MaxHold
BY ConstantsAssumption, DispatchAssumption

\* A reading t that is not ahead of the clock's largest value keeps peak so.
LEMMA PeakBelowTop ==
  ASSUME DispatchInv, NEW v, NEW t \in Nat, t <= top, EvaluateAndEnforce(v, t)
  PROVE  peak' \in Nat /\ peak' <= top
BY DispatchConstants
DEF DispatchInv, ReadingsTyped, ReadingsRecent, EvaluateAndEnforce

\* Starting, sending and failing to send: the broker is touched only by the
\* in-memory path, with the clock as it is.
LEMMA SubmitPreserves ==
  ASSUME DispatchInv, NEW k \in Calls, Submit(k)
  PROVE  DispatchInv'
<1>1. PICK v \in Verdicts :
        \/ DispatchInMemory(k, v) \/ OpenFails(k, v)
        \/ SendFrame(k, v) \/ WriteFails(k, v)
  BY DEF Submit
<1>2. CASE DispatchInMemory(k, v)
  <2>1. EvaluateAndEnforce(v, clock) /\ clock \in Nat /\ clock <= top
    BY <1>2, DispatchConstants
    DEF DispatchInMemory, Evaluate, DispatchInv, ReadingsTyped, ClockNearTop
  <2>2. peak' \in Nat /\ peak' <= top
    BY <2>1, PeakBelowTop
  <2>3. /\ UNCHANGED <<clock, top, server, reading>>
        /\ frame' = [frame EXCEPT ![k] = [verdict |-> v, whole |-> FALSE]]
    BY <1>2 DEF DispatchInMemory
  <2>4. ReadingsTyped'
    BY <2>2, <2>3 DEF DispatchInv, ReadingsTyped
  <2>. QED
    BY <2>2, <2>3, <2>4 DEF DispatchInv, ClockNearTop, ReadingsRecent
<1>3. CASE OpenFails(k, v)
  <2>1. /\ UNCHANGED <<peak, clock, top, server, reading>>
        /\ frame' = [frame EXCEPT ![k] = [verdict |-> v, whole |-> FALSE]]
    BY <1>3 DEF OpenFails, vars
  <2>. QED
    BY <2>1 DEF DispatchInv, ReadingsTyped, ClockNearTop, ReadingsRecent
<1>4. CASE SendFrame(k, v) \/ WriteFails(k, v)
  <2>1. /\ UNCHANGED <<peak, clock, top, reading>>
        /\ server' = [server EXCEPT ![k] = "pending"]
        /\ \E w \in BOOLEAN :
             frame' = [frame EXCEPT ![k] = [verdict |-> v, whole |-> w]]
    BY <1>4 DEF SendFrame, WriteFails, vars
  <2>2. ReadingsTyped'
    BY <2>1 DEF DispatchInv, ReadingsTyped
  <2>. QED
    BY <2>1, <2>2 DEF DispatchInv, ReadingsTyped, ClockNearTop, ReadingsRecent
<1>. QED
  BY <1>1, <1>2, <1>3, <1>4

\* The server reads the clock, and later hands that reading to the broker.
LEMMA ServerPreserves ==
  ASSUME DispatchInv, NEW k \in Calls, AcceptFrame(k) \/ HandleFrame(k)
  PROVE  DispatchInv'
<1>1. CASE AcceptFrame(k)
  <2>1. /\ UNCHANGED <<peak, clock, top, frame>>
        /\ server[k] = "pending"
        /\ server' = [server EXCEPT ![k] = "held"]
        /\ reading' = [reading EXCEPT ![k] = clock]
    BY <1>1 DEF AcceptFrame, vars
  <2>2. /\ clock \in Nat /\ top \in Nat
        /\ clock <= top /\ clock + MaxRegress >= top
    BY DispatchConstants DEF DispatchInv, ReadingsTyped, ClockNearTop
  <2>3. ReadingsTyped'
    BY <2>1 DEF DispatchInv, ReadingsTyped
  <2>. QED
    BY <2>1, <2>2, <2>3
    DEF DispatchInv, ReadingsTyped, ClockNearTop, ReadingsRecent
<1>2. CASE HandleFrame(k)
  <2>1. /\ server[k] = "held"
        /\ server' = [server EXCEPT ![k] = "done"]
        /\ UNCHANGED <<clock, top, frame, reading>>
        /\ \/ UNCHANGED vars
           \/ EvaluateAndEnforce(frame[k].verdict, reading[k])
    BY <1>2 DEF HandleFrame, Evaluate
  <2>2. reading[k] \in Nat /\ reading[k] <= top
    BY <2>1, DispatchConstants DEF DispatchInv, ReadingsTyped, ReadingsRecent
  <2>3. peak' \in Nat /\ peak' <= top
    <3>1. CASE UNCHANGED vars
      BY <3>1 DEF vars, DispatchInv, ReadingsTyped, ReadingsRecent
    <3>2. CASE EvaluateAndEnforce(frame[k].verdict, reading[k])
      BY <2>2, <3>2, PeakBelowTop
    <3>. QED
      BY <2>1, <3>1, <3>2
  <2>4. ReadingsTyped'
    BY <2>1, <2>3 DEF DispatchInv, ReadingsTyped
  <2>. QED
    BY <2>1, <2>3, <2>4
    DEF DispatchInv, ReadingsTyped, ClockNearTop, ReadingsRecent
<1>. QED
  BY <1>1, <1>2

\* The clock moves no further than a held reading may be left behind.
LEMMA ClockPreserves ==
  ASSUME DispatchInv, NEW t \in Times, MoveClock(t)
  PROVE  DispatchInv'
<1>1. /\ t + ClockStep >= top
      /\ \A k \in Calls : server[k] = "held" => t <= reading[k] + MaxHold
      /\ clock' = t
      /\ top' = IF t > top THEN t ELSE top
      /\ UNCHANGED <<peak, server, frame, reading>>
  BY DEF MoveClock, vars, callVars
<1>2. t \in Nat /\ top \in Nat /\ peak \in Nat
  BY DispatchConstants DEF DispatchInv, ReadingsTyped
<1>3. ReadingsTyped'
  BY <1>1 DEF DispatchInv, ReadingsTyped
<1>4. ClockNearTop'
  BY <1>1, <1>2, DispatchConstants DEF ClockNearTop
<1>5. ReadingsRecent'
  <2>1. peak' <= top'
    BY <1>1, <1>2 DEF DispatchInv, ReadingsRecent
  <2>2. ASSUME NEW k \in Calls, server[k] = "held"
        PROVE  reading[k] <= top' /\ reading[k] + MaxRegress >= top'
    <3>1. /\ reading[k] \in Nat /\ reading[k] <= top
          /\ reading[k] + MaxRegress >= top
      BY <2>2, DispatchConstants DEF DispatchInv, ReadingsTyped, ReadingsRecent
    <3>2. reading[k] + MaxRegress >= t
      BY <1>1, <1>2, <2>2, <3>1, DispatchConstants
    <3>. QED
      BY <1>1, <1>2, <3>1, <3>2
  <2>. QED
    BY <1>1, <2>1, <2>2 DEF ReadingsRecent
<1>. QED
  BY <1>3, <1>4, <1>5 DEF DispatchInv

\* The inductive invariant holds of every behaviour.
LEMMA DispatchInvariant == DispatchSpec => []DispatchInv
<1>1. DispatchInit => DispatchInv
  <2>1. SUFFICES ASSUME DispatchInit PROVE DispatchInv
    OBVIOUS
  <2>2. clock \in Times /\ top = clock /\ peak = 0 /\ clock \in Nat
    BY <2>1, DispatchConstants DEF DispatchInit, Init
  <2>3. /\ server = [k \in Calls |-> "none"]
        /\ DOMAIN frame = Calls /\ DOMAIN reading = Calls
    BY <2>1 DEF DispatchInit
  <2>. QED
    BY <2>2, <2>3, DispatchConstants
    DEF DispatchInv, ReadingsTyped, ClockNearTop, ReadingsRecent
<1>2. ASSUME DispatchInv, [DispatchNext]_dispatchVars
      PROVE  DispatchInv'
  <2>1. CASE UNCHANGED <<peak, clock, top, server, frame, reading>>
    BY <1>2, <2>1 DEF DispatchInv, ReadingsTyped, ClockNearTop, ReadingsRecent
  <2>2. CASE UNCHANGED dispatchVars
    BY <2>1, <2>2 DEF dispatchVars, vars, callVars
  <2>3. CASE \E k \in Calls : ReadAnswer(k) \/ ReadFails(k)
    BY <2>1, <2>3 DEF ReadAnswer, ReadFails, vars
  <2>4. CASE \E k \in Calls : Submit(k)
    BY <1>2, <2>4, SubmitPreserves
  <2>5. CASE \E k \in Calls : AcceptFrame(k) \/ HandleFrame(k)
    BY <1>2, <2>5, ServerPreserves
  <2>6. CASE \E t \in Times : MoveClock(t)
    BY <1>2, <2>6, ClockPreserves
  <2>. QED
    BY <1>2, <2>2, <2>3, <2>4, <2>5, <2>6 DEF DispatchNext
<1>. QED
  BY <1>1, <1>2, PTL DEF DispatchSpec

\* An evaluation with a reading near the clock's largest value is a step the
\* broker was specified for.
LEMMA EvaluationIsBrokerStep ==
  ASSUME DispatchInv, NEW v \in Verdicts, NEW t \in Times,
         t + MaxRegress >= top, EvaluateAndEnforce(v, t)
  PROVE  Next
<1>1. peak \in Nat /\ top \in Nat /\ t \in Nat /\ MaxRegress \in Nat
  BY DispatchConstants DEF DispatchInv, ReadingsTyped
<1>2. peak <= top
  BY DEF DispatchInv, ReadingsRecent
<1>3. t + MaxRegress >= peak
  BY <1>1, <1>2
<1>. QED
  BY <1>3 DEF Next

\* Every behaviour of the dispatchers, seen at the broker, is one of the
\* broker: dispatch and handle_frame implement its specification.
THEOREM DispatchImplementsBroker == DispatchSpec => BrokerSpec
<1>1. DispatchInit => Init
  BY DEF DispatchInit
<1>2. ASSUME DispatchInv, [DispatchNext]_dispatchVars
      PROVE  [Next]_vars
  <2>1. CASE UNCHANGED dispatchVars
    BY <2>1 DEF dispatchVars
  <2>2. ASSUME NEW k \in Calls, NEW v \in Verdicts, DispatchInMemory(k, v)
        PROVE  Next
    <3>1. EvaluateAndEnforce(v, clock) /\ clock \in Times
      BY <1>2, <2>2 DEF DispatchInMemory, Evaluate, DispatchInv, ReadingsTyped
    <3>2. clock + MaxRegress >= top
      BY <1>2, DispatchConstants DEF DispatchInv, ReadingsTyped, ClockNearTop
    <3>. QED
      BY <1>2, <3>1, <3>2, EvaluationIsBrokerStep
  <2>3. ASSUME NEW k \in Calls, HandleFrame(k)
        PROVE  [Next]_vars
    <3>1. CASE UNCHANGED vars
      BY <3>1
    <3>2. CASE EvaluateAndEnforce(frame[k].verdict, reading[k])
      <4>1. server[k] = "held"
        BY <2>3 DEF HandleFrame
      <4>2. /\ frame[k].verdict \in Verdicts /\ reading[k] \in Times
            /\ reading[k] + MaxRegress >= top
        BY <1>2, <4>1 DEF DispatchInv, ReadingsTyped, ReadingsRecent
      <4>. QED
        BY <1>2, <3>2, <4>2, EvaluationIsBrokerStep
    <3>. QED
      BY <2>3, <3>1, <3>2 DEF HandleFrame, Evaluate
  <2>4. CASE \E k \in Calls, v \in Verdicts :
               OpenFails(k, v) \/ SendFrame(k, v) \/ WriteFails(k, v)
    BY <2>4 DEF OpenFails, SendFrame, WriteFails
  <2>5. CASE \E k \in Calls : AcceptFrame(k) \/ ReadAnswer(k) \/ ReadFails(k)
    BY <2>5 DEF AcceptFrame, ReadAnswer, ReadFails
  <2>6. CASE \E t \in Times : MoveClock(t)
    BY <2>6 DEF MoveClock
  <2>. QED
    BY <1>2, <2>1, <2>2, <2>3, <2>4, <2>5, <2>6 DEF DispatchNext, Submit
<1>. QED
  BY <1>1, <1>2, DispatchInvariant, PTL DEF DispatchSpec, BrokerSpec, Spec

\* However many detectors race, over the pipe or in memory, with frames, answers
\* and readings delayed: each verdict whose deadline fits changes the host at
\* most once.
THEOREM DispatchAtMostOnce == DispatchSpec => []EnforcedAtMostOnce
BY DispatchImplementsBroker, AtMostOnce, PTL DEF BrokerSpec

-----------------------------------------------------------------------------
(***************************************************************************)
(* Answers.                                                                *)
(***************************************************************************)

AnswerCodes == {AnswerTable[i] : i \in DOMAIN AnswerTable}

\* How the two sides of a call, its answer and its effect hang together: a call
\* that nobody has evaluated yet has had no effect, an answer that was written
\* tells the effect, and a detector that gave up while its frame was on its way
\* was told that the broker is unreachable.
CallInv(k) ==
  /\ client[k] = "idle" => server[k] = "none" /\ k \notin acted
  /\ client[k] = "waiting" => server[k] \in {"pending", "held", "done"}
  /\ server[k] \in {"pending", "held"} =>
       /\ k \notin acted
       /\ client[k] = "done" => result[k] = "BrokerUnreachable"
  /\ server[k] = "done" =>
       /\ DecodeAnswer(answer[k]) = "None" <=> k \in acted
       /\ client[k] = "done" =>
            result[k] \in {"BrokerUnreachable", DecodeAnswer(answer[k])}
  /\ (client[k] = "done" /\ server[k] # "done") =>
       /\ result[k] = "None" <=> k \in acted

CallsTyped ==
  /\ DOMAIN client = Calls /\ DOMAIN server = Calls
  /\ DOMAIN answer = Calls /\ DOMAIN result = Calls
  /\ \A k \in Calls :
       /\ client[k] \in {"idle", "waiting", "done"}
       /\ server[k] \in {"none", "pending", "held", "done"}

AnswersInv == CallsTyped /\ \A k \in Calls : CallInv(k)

\* The server writes the byte that the dispatcher reads as the same answer.
LEMMA AnswerRoundTrip ==
  ASSUME NEW o \in AnswerCodes
  PROVE  DecodeAnswer(EncodeAnswer(o)) = o
<1>1. Len(AnswerTable) = 7 /\ DOMAIN AnswerTable = 1 .. 7
  BY DEF AnswerTable
<1>2. PICK i \in 1 .. 7 : o = AnswerTable[i]
  BY <1>1 DEF AnswerCodes
<1>3. i - 1 \in 0 .. 6 /\ AnswerTable[(i - 1) + 1] = o
  BY <1>2
<1>4. /\ EncodeAnswer(o) \in 0 .. 6
      /\ AnswerTable[EncodeAnswer(o) + 1] = o
  <2>1. \E b \in 0 .. Len(AnswerTable) - 1 : AnswerTable[b + 1] = o
    BY <1>1, <1>3
  <2>2. /\ EncodeAnswer(o) \in 0 .. Len(AnswerTable) - 1
        /\ AnswerTable[EncodeAnswer(o) + 1] = o
    BY <2>1 DEF EncodeAnswer
  <2>. QED
    BY <1>1, <2>2
<1>5. EncodeAnswer(o) + 1 \in DOMAIN AnswerTable
  BY <1>1, <1>4
<1>. QED
  BY <1>4, <1>5 DEF DecodeAnswer

\* Every outcome of handle_frame has a byte of its own.
LEMMA OutcomesHaveCodes ==
  /\ \A p, c, v, t : Outcome(p, c, v, t) \in AnswerCodes
  /\ \A f : WireError(f) \in AnswerCodes
<1>1. AnswerCodes = {"None", "VersionMismatch", "ReplayDetected",
        "MalformedMessage", "AuthenticationFailed", "Expired", "ActionDenied"}
  <2>1. DOMAIN AnswerTable = 1 .. 7
    BY DEF AnswerTable
  <2>2. \A i \in 1 .. 7 : i = 1 \/ i = 2 \/ i = 3 \/ i = 4 \/ i = 5 \/ i = 6
                            \/ i = 7
    OBVIOUS
  <2>3. AnswerCodes = {AnswerTable[1], AnswerTable[2], AnswerTable[3],
          AnswerTable[4], AnswerTable[5], AnswerTable[6], AnswerTable[7]}
    BY <2>1, <2>2 DEF AnswerCodes
  <2>. QED
    BY <2>3 DEF AnswerTable
<1>2. ASSUME NEW p, NEW c, NEW v, NEW t
      PROVE  Outcome(p, c, v, t) \in AnswerCodes
  BY <1>1 DEF Outcome, EarlyError, LateError, ActionError
<1>3. ASSUME NEW f
      PROVE  WireError(f) \in AnswerCodes
  BY <1>1 DEF WireError
<1>. QED
  BY <1>2, <1>3

\* A step that belongs to call k leaves the other calls alone.
LEMMA OtherCallsKeep ==
  ASSUME AnswersInv, NEW k \in Calls, NEW j \in Calls, j # k,
         UNCHANGED <<client[j], server[j], answer[j], result[j]>>,
         j \in acted' <=> j \in acted
  PROVE  CallInv(j)'
BY DEF AnswersInv, CallInv, DecodeAnswer

LEMMA AnswersStep ==
  ASSUME AnswersInv, [DispatchNext]_dispatchVars
  PROVE  AnswersInv'
<1>1. ASSUME NEW k \in Calls, NEW v \in Verdicts, DispatchInMemory(k, v)
      PROVE  AnswersInv'
  <2>1. /\ client[k] = "idle" /\ server[k] = "none" /\ k \notin acted
        /\ client' = [client EXCEPT ![k] = "done"]
        /\ UNCHANGED <<server, answer>>
    BY <1>1 DEF DispatchInMemory, Return, AnswersInv, CallInv
  <2>2. PICK o : /\ result' = [result EXCEPT ![k] = o]
                 /\ acted' = IF o = "None" THEN acted \cup {k} ELSE acted
    BY <1>1 DEF DispatchInMemory, Return, Evaluate
  <2>3. CallsTyped'
    BY <2>1, <2>2 DEF AnswersInv, CallsTyped
  <2>4. CallInv(k)'
    BY <2>1, <2>2 DEF AnswersInv, CallsTyped, CallInv
  <2>5. ASSUME NEW j \in Calls, j # k
        PROVE  CallInv(j)'
    BY <2>1, <2>2, <2>5, OtherCallsKeep DEF AnswersInv, CallsTyped
  <2>. QED
    BY <2>3, <2>4, <2>5 DEF AnswersInv
<1>2. ASSUME NEW k \in Calls, NEW v \in Verdicts,
             OpenFails(k, v) \/ SendFrame(k, v) \/ WriteFails(k, v)
      PROVE  AnswersInv'
  <2>1. /\ client[k] = "idle" /\ server[k] = "none" /\ k \notin acted
        /\ UNCHANGED <<answer, acted>>
    BY <1>2 DEF OpenFails, SendFrame, WriteFails, AnswersInv, CallInv
  <2>2. \/ /\ client' = [client EXCEPT ![k] = "done"]
           /\ result' = [result EXCEPT ![k] = "BrokerUnreachable"]
           /\ server' \in {server, [server EXCEPT ![k] = "pending"]}
        \/ /\ client' = [client EXCEPT ![k] = "waiting"]
           /\ server' = [server EXCEPT ![k] = "pending"]
           /\ UNCHANGED result
    BY <1>2 DEF OpenFails, SendFrame, WriteFails, Return
  <2>3. CallsTyped'
    BY <2>1, <2>2 DEF AnswersInv, CallsTyped
  <2>4. CallInv(k)'
    BY <2>1, <2>2 DEF AnswersInv, CallsTyped, CallInv
  <2>5. ASSUME NEW j \in Calls, j # k
        PROVE  CallInv(j)'
    BY <2>1, <2>2, <2>5, OtherCallsKeep DEF AnswersInv, CallsTyped
  <2>. QED
    BY <2>3, <2>4, <2>5 DEF AnswersInv
<1>3. ASSUME NEW k \in Calls, AcceptFrame(k)
      PROVE  AnswersInv'
  <2>1. /\ server[k] = "pending" /\ server' = [server EXCEPT ![k] = "held"]
        /\ UNCHANGED <<client, answer, result, acted>>
    BY <1>3 DEF AcceptFrame
  <2>. QED
    BY <2>1, OtherCallsKeep DEF AnswersInv, CallsTyped, CallInv
<1>4. ASSUME NEW k \in Calls, HandleFrame(k)
      PROVE  AnswersInv'
  <2>1. /\ server[k] = "held" /\ k \notin acted
        /\ client[k] = "done" => result[k] = "BrokerUnreachable"
        /\ server' = [server EXCEPT ![k] = "done"]
        /\ UNCHANGED <<client, result>>
    BY <1>4 DEF HandleFrame, AnswersInv, CallInv
  <2>2. PICK o \in AnswerCodes :
          /\ answer' = [answer EXCEPT ![k] = EncodeAnswer(o)]
          /\ acted' = IF o = "None" THEN acted \cup {k} ELSE acted
    BY <1>4, OutcomesHaveCodes DEF HandleFrame, Evaluate
  <2>3. DecodeAnswer(EncodeAnswer(o)) = o
    BY AnswerRoundTrip
  <2>4. CallsTyped'
    BY <2>1, <2>2 DEF AnswersInv, CallsTyped
  <2>5. answer'[k] = EncodeAnswer(o) /\ server'[k] = "done"
    BY <2>1, <2>2 DEF AnswersInv, CallsTyped
  <2>6. DecodeAnswer(answer[k])' = o
    BY <2>3, <2>5 DEF DecodeAnswer
  <2>7. CallInv(k)'
    BY <2>1, <2>2, <2>5, <2>6 DEF AnswersInv, CallsTyped, CallInv
  <2>8. ASSUME NEW j \in Calls, j # k
        PROVE  CallInv(j)'
    BY <2>1, <2>2, <2>8, OtherCallsKeep DEF AnswersInv, CallsTyped
  <2>. QED
    BY <2>4, <2>7, <2>8 DEF AnswersInv
<1>5. ASSUME NEW k \in Calls, ReadAnswer(k) \/ ReadFails(k)
      PROVE  AnswersInv'
  <2>1. /\ client[k] = "waiting" /\ client' = [client EXCEPT ![k] = "done"]
        /\ UNCHANGED <<server, answer, acted>>
    BY <1>5 DEF ReadAnswer, ReadFails, Return
  <2>2. PICK r \in {"BrokerUnreachable", DecodeAnswer(answer[k])} :
          /\ result' = [result EXCEPT ![k] = r]
          /\ server[k] # "done" => r = "BrokerUnreachable"
    BY <1>5 DEF ReadAnswer, ReadFails, Return
  <2>3. CallsTyped'
    BY <2>1, <2>2 DEF AnswersInv, CallsTyped
  <2>4. CallInv(k)'
    BY <2>1, <2>2 DEF AnswersInv, CallsTyped, CallInv, DecodeAnswer
  <2>5. ASSUME NEW j \in Calls, j # k
        PROVE  CallInv(j)'
    BY <2>1, <2>2, <2>5, OtherCallsKeep DEF AnswersInv, CallsTyped
  <2>. QED
    BY <2>3, <2>4, <2>5 DEF AnswersInv
<1>6. CASE UNCHANGED <<client, server, answer, result, acted>>
  BY <1>6 DEF AnswersInv, CallsTyped, CallInv, DecodeAnswer
<1>7. CASE (\E t \in Times : MoveClock(t)) \/ UNCHANGED dispatchVars
  BY <1>6, <1>7 DEF MoveClock, callVars, dispatchVars
<1>. QED
  BY <1>1, <1>2, <1>3, <1>4, <1>5, <1>7 DEF DispatchNext, Submit

\* Ok means that this very call enforced the verdict, and a definite rejection
\* that it did not, for any number of calls in any interleaving, with answers
\* lost and frames cut short (dispatch, handle_frame).
THEOREM AnswersAreTrue == DispatchSpec => []AnswersMatchEffects
<1>1. DispatchInit => AnswersInv
  BY DEF DispatchInit, AnswersInv, CallsTyped, CallInv
<1>2. AnswersInv => AnswersMatchEffects
  BY DEF AnswersInv, CallsTyped, CallInv, AnswersMatchEffects
<1>. QED
  BY <1>1, <1>2, AnswersStep, PTL DEF DispatchSpec

-----------------------------------------------------------------------------
(***************************************************************************)
(* Deadlines.                                                              *)
(***************************************************************************)

\* A reading that is held is not older than MaxHold.
HeldBriefly ==
  \A k \in Calls : server[k] = "held" => clock <= reading[k] + MaxHold

LEMMA HeldStep ==
  ASSUME DispatchInv, HeldBriefly, [DispatchNext]_dispatchVars
  PROVE  HeldBriefly'
<1>1. ASSUME NEW k \in Calls, AcceptFrame(k)
      PROVE  HeldBriefly'
  <2>1. /\ server' = [server EXCEPT ![k] = "held"]
        /\ reading' = [reading EXCEPT ![k] = clock] /\ UNCHANGED clock
    BY <1>1 DEF AcceptFrame
  <2>2. clock <= clock + MaxHold
    BY DispatchConstants DEF DispatchInv, ReadingsTyped
  <2>. QED
    BY <2>1, <2>2 DEF HeldBriefly, DispatchInv, ReadingsTyped
<1>2. ASSUME NEW t \in Times, MoveClock(t)
      PROVE  HeldBriefly'
  BY <1>2 DEF MoveClock, callVars, HeldBriefly
<1>3. ASSUME NEW k \in Calls, UNCHANGED <<clock, reading>>,
             \/ UNCHANGED server
             \/ \E s \in {"pending", "done"} :
                  server' = [server EXCEPT ![k] = s]
      PROVE  HeldBriefly'
  BY <1>3 DEF HeldBriefly, DispatchInv, ReadingsTyped
<1>4. ASSUME NEW k \in Calls, HandleFrame(k) \/ ReadAnswer(k) \/ ReadFails(k)
      PROVE  HeldBriefly'
  BY <1>3, <1>4 DEF HandleFrame, ReadAnswer, ReadFails
<1>5. ASSUME NEW k \in Calls, Submit(k)
      PROVE  HeldBriefly'
  BY <1>3, <1>5 DEF Submit, DispatchInMemory, OpenFails, SendFrame, WriteFails
<1>6. CASE UNCHANGED dispatchVars
  BY <1>6 DEF dispatchVars, callVars, HeldBriefly
<1>. QED
  BY <1>1, <1>2, <1>4, <1>5, <1>6 DEF DispatchNext

\* An evaluation that adds to the log enforced its verdict by its deadline, as
\* far as the reading goes.
LEMMA EvaluatedByDeadline ==
  ASSUME TypeOK, NEW v \in Verdicts, NEW t \in Nat, EvaluateAndEnforce(v, t),
         Len(log') > Len(log)
  PROVE  log'[Len(log')].verdict = v /\ t <= v.expires_at
<1>1. log \in Seq(Entry) /\ v.expires_at \in Nat
  <2>1. log \in Seq(Entry)
    BY DEF TypeOK, Entry
  <2>2. v.expires_at \in Nat
    BY ConstantsAssumption DEF Verdict
  <2>. QED
    BY <2>1, <2>2
<1>2. Outcome(policy, replay_cache, v, t) = "None"
  BY <1>1 DEF EvaluateAndEnforce
<1>3. log' = Append(log, [verdict |-> v, at |-> t])
  BY <1>2 DEF EvaluateAndEnforce
<1>4. log'[Len(log')] = [verdict |-> v, at |-> t]
  BY <1>1, <1>3
<1>5. EarlyError(v, t) = "None"
  BY <1>2 DEF Outcome
<1>6. ~(t > v.expires_at)
  BY <1>5 DEF EarlyError
<1>. QED
  BY <1>1, <1>4, <1>6

\* What a step that enforces a verdict does by the wall clock.
DeadlineKept ==
  Len(log') > Len(log) =>
    clock <= log'[Len(log')].verdict.expires_at + MaxHold

LEMMA DeadlineStep ==
  ASSUME TypeOK, DispatchInv, HeldBriefly, [DispatchNext]_dispatchVars
  PROVE  DeadlineKept
<1>. SUFFICES ASSUME Len(log') > Len(log)
              PROVE  clock <= log'[Len(log')].verdict.expires_at + MaxHold
  BY DEF DeadlineKept
<1>1. Len(log) \in Nat /\ clock \in Nat /\ MaxHold \in Nat
  BY DispatchConstants DEF TypeOK, DispatchInv, ReadingsTyped
<1>2. ASSUME UNCHANGED log
      PROVE  FALSE
  BY <1>1, <1>2
<1>3. ASSUME NEW v \in Verdicts, NEW t \in Nat, EvaluateAndEnforce(v, t),
             clock <= t + MaxHold
      PROVE  clock <= log'[Len(log')].verdict.expires_at + MaxHold
  <2>1. log'[Len(log')].verdict = v /\ t <= v.expires_at
    BY <1>3, EvaluatedByDeadline
  <2>2. v.expires_at \in Nat
    BY ConstantsAssumption DEF Verdict
  <2>. QED
    BY <1>1, <1>3, <2>1, <2>2
<1>4. ASSUME NEW k \in Calls, NEW v \in Verdicts, DispatchInMemory(k, v)
      PROVE  clock <= log'[Len(log')].verdict.expires_at + MaxHold
  BY <1>1, <1>3, <1>4 DEF DispatchInMemory, Evaluate
<1>5. ASSUME NEW k \in Calls, HandleFrame(k)
      PROVE  clock <= log'[Len(log')].verdict.expires_at + MaxHold
  <2>1. server[k] = "held"
    BY <1>5 DEF HandleFrame
  <2>2. /\ frame[k].verdict \in Verdicts /\ reading[k] \in Nat
        /\ clock <= reading[k] + MaxHold
    BY <2>1, DispatchConstants DEF DispatchInv, ReadingsTyped, HeldBriefly
  <2>3. CASE UNCHANGED vars
    BY <1>2, <2>3 DEF vars
  <2>4. CASE EvaluateAndEnforce(frame[k].verdict, reading[k])
    BY <1>3, <2>2, <2>4
  <2>. QED
    BY <1>5, <2>3, <2>4 DEF HandleFrame, Evaluate
<1>6. CASE \E k \in Calls, v \in Verdicts :
             OpenFails(k, v) \/ SendFrame(k, v) \/ WriteFails(k, v)
  BY <1>2, <1>6 DEF OpenFails, SendFrame, WriteFails, vars
<1>7. CASE \E k \in Calls : AcceptFrame(k) \/ ReadAnswer(k) \/ ReadFails(k)
  BY <1>2, <1>7 DEF AcceptFrame, ReadAnswer, ReadFails, vars
<1>8. CASE (\E t \in Times : MoveClock(t)) \/ UNCHANGED dispatchVars
  BY <1>2, <1>8 DEF MoveClock, dispatchVars, vars
<1>. QED
  BY <1>4, <1>5, <1>6, <1>7, <1>8 DEF DispatchNext, Submit

\* By the wall clock a verdict reaches the host no later than MaxHold after its
\* deadline, although handle_frame judges it by a reading taken before the
\* mutex was acquired.
THEOREM DeadlinesKept == DispatchSpec => EnforcedByDeadline
<1>1. DispatchInit => HeldBriefly
  BY DEF DispatchInit, HeldBriefly
<1>2. DispatchSpec => []HeldBriefly
  BY <1>1, HeldStep, DispatchInvariant, PTL DEF DispatchSpec
<1>3. DispatchSpec => []TypeOK
  BY DispatchImplementsBroker, TypeCorrect, PTL DEF BrokerSpec
<1>4. TypeOK /\ DispatchInv /\ HeldBriefly /\ [DispatchNext]_dispatchVars
        => [DeadlineKept]_dispatchVars
  BY DeadlineStep
<1>5. DispatchSpec => [][DeadlineKept]_dispatchVars
  BY <1>2, <1>3, <1>4, DispatchInvariant, PTL DEF DispatchSpec
<1>. QED
  BY <1>5 DEF EnforcedByDeadline, DeadlineKept

-----------------------------------------------------------------------------
(***************************************************************************)
(* The sentinel daemon.                                                    *)
(***************************************************************************)

\* What the daemon sends.
DaemonEntry == [verdict: {DaemonVerdict(n) : n \in Nat}, at: Nat]

\* The identifier id is retained on account of the enforced verdict i.
RetainedFor(id, i) ==
  /\ log[i].verdict.request_id = id
  /\ replay_cache[id] <= log[i].verdict.expires_at + Retention

\* The turn of the newest verdict that the broker has seen.
NewestTurn == IF call = "answered" THEN tick ELSE tick - 1

\* The daemon's turns: what the clock derived from them has lost is what they
\* were late.
TurnsInv ==
  /\ wall \in Nat /\ since \in Nat /\ since <= wall
  /\ tick \in Nat \ {0} /\ late \in Nat
  /\ since = DaemonNow(tick - 1) + late
  /\ call \in {"none", "sent", "answered"}
  /\ call # "none" => wall >= since + Heartbeat

\* What the broker remembers are identifiers of the daemon's turns so far, each
\* on account of a verdict that was enforced.
RetentionInv ==
  /\ DOMAIN replay_cache \subseteq {RequestId(n) : n \in 1 .. NewestTurn}
  /\ log \in Seq(DaemonEntry)
  /\ \A id \in DOMAIN replay_cache :
       /\ replay_cache[id] \in Nat
       /\ \E i \in DOMAIN log : RetainedFor(id, i)

SentinelInv ==
  /\ TurnsInv
  /\ RetentionInv
  /\ ReplayOnlyAfterWrap
  /\ ExpiredOnlyByLag
  /\ ReplayMeansRecentlyEnforced

\* An evaluation adds at most the identifier of the verdict to the cache.
LEMMA CacheAfterGrows ==
  ASSUME NEW p, NEW cache, NEW v, NEW t
  PROVE  DOMAIN CacheAfter(p, cache, v, t) \subseteq
           DOMAIN cache \cup {v.request_id}
<1>1. DOMAIN Purge(cache, t) \subseteq DOMAIN cache
  BY DEF Purge
<1>2. DOMAIN Remember(Purge(cache, t), v) =
        DOMAIN Purge(cache, t) \cup {v.request_id}
  BY RememberInserts
<1>. QED
  BY <1>1, <1>2 DEF CacheAfter

\* Turns with the same identifier are at least a cycle apart.
LEMMA IdentifiersWrap ==
  ASSUME NEW m \in Nat \ {0}, NEW n \in Nat \ {0}, m < n,
         RequestId(m) = RequestId(n)
  PROVE  n > IdSpace
<1>1. IdSpace \in Nat \ {0}
  BY SentinelAssumption
<1>2. \A x \in Nat : x < IdSpace => x % IdSpace = x
  BY <1>1
<1>3. ASSUME n <= IdSpace PROVE FALSE
  <2>1. m % IdSpace = m
    BY <1>1, <1>2, <1>3
  <2>2. n < IdSpace => n % IdSpace = n
    BY <1>2
  <2>3. IdSpace % IdSpace = 0
    BY <1>1
  <2>. QED
    BY <1>1, <1>3, <2>1, <2>2, <2>3 DEF RequestId
<1>. QED
  BY <1>1, <1>3

\* The clock derived from the turns, once the sleep of this turn is over.
LEMMA LagExact ==
  ASSUME TurnsInv, wall >= since + Heartbeat
  PROVE  /\ Lag \in Nat /\ wall = DaemonNow(tick) + Lag
         /\ DaemonNow(tick) \in Nat /\ tick \in Nat \ {0} /\ wall \in Nat
<1>1. /\ wall \in Nat /\ since \in Nat /\ tick \in Nat \ {0} /\ late \in Nat
      /\ since = DaemonNow(tick - 1) + late
  BY DEF TurnsInv
<1>2. Heartbeat \in Nat /\ Start \in Nat
  BY SentinelAssumption
<1>3. /\ DaemonNow(tick) = DaemonNow(tick - 1) + Heartbeat
      /\ DaemonNow(tick) \in Nat /\ DaemonNow(tick - 1) \in Nat
  <2>1. tick * Heartbeat = (tick - 1) * Heartbeat + Heartbeat
        /\ tick * Heartbeat \in Nat /\ (tick - 1) * Heartbeat \in Nat
    BY <1>1, <1>2
  <2>. QED
    BY <1>2, <2>1 DEF DaemonNow
<1>. QED
  BY <1>1, <1>2, <1>3 DEF Lag

\* The end of a turn: the delay is accounted for, and the broker remembers no
\* identifier of the new turn.
LEMMA NextTurnKeeps ==
  ASSUME SentinelInv, wall >= since + Heartbeat, NextTurn, UNCHANGED vars,
         answered' = answered \/ answered'.outcome = "BrokerUnreachable"
  PROVE  SentinelInv'
<1>1. /\ late' = Lag /\ tick' = tick + 1 /\ since' = wall /\ call' = "none"
      /\ wall' = wall /\ log' = log /\ replay_cache' = replay_cache
  BY DEF NextTurn, vars
<1>2. /\ Lag \in Nat /\ wall = DaemonNow(tick) + Lag /\ wall \in Nat
      /\ tick \in Nat \ {0}
  BY LagExact DEF SentinelInv
<1>3. TurnsInv'
  <2>1. tick' \in Nat \ {0} /\ tick' - 1 = tick /\ since' <= wall'
    BY <1>1, <1>2
  <2>2. since' = DaemonNow(tick' - 1) + late'
    BY <1>1, <1>2, <2>1
  <2>. QED
    BY <1>1, <1>2, <2>1, <2>2 DEF TurnsInv
<1>4. RetentionInv'
  <2>1. NewestTurn' = tick
    BY <1>1, <1>2 DEF NewestTurn
  <2>2. \A n \in 1 .. NewestTurn : n \in 1 .. tick
    BY <1>2 DEF NewestTurn
  <2>3. {RequestId(n) : n \in 1 .. NewestTurn}
          \subseteq {RequestId(n) : n \in 1 .. tick}
    BY <2>2
  <2>4. \A id, i : RetainedFor(id, i)' <=> RetainedFor(id, i)
    BY <1>1 DEF RetainedFor
  <2>. QED
    BY <1>1, <2>1, <2>3, <2>4 DEF SentinelInv, RetentionInv
<1>5. ReplayOnlyAfterWrap' /\ ExpiredOnlyByLag'
  BY DEF SentinelInv, ReplayOnlyAfterWrap, ExpiredOnlyByLag
<1>6. ReplayMeansRecentlyEnforced'
  BY <1>1 DEF SentinelInv, ReplayMeansRecentlyEnforced
<1>. QED
  BY <1>3, <1>4, <1>5, <1>6 DEF SentinelInv

\* The verdict of the current turn is evaluated.
LEMMA BrokerAnswersKeeps ==
  ASSUME SentinelInv, BrokerAnswers
  PROVE  SentinelInv'
<1>. DEFINE v == DaemonVerdict(tick)
            outcome == Outcome(policy, replay_cache, v, wall)
            e == [verdict |-> v, at |-> wall]
            purged == Purge(replay_cache, wall)
            seen(n) == {RequestId(i) : i \in 1 .. n}
<1>1. /\ call = "sent" /\ call' = "answered"
      /\ EvaluateAndEnforce(v, wall)
      /\ answered' =
           [outcome |-> outcome, tick |-> tick, at |-> wall, late |-> Lag]
      /\ UNCHANGED <<wall, tick, since, late>>
  BY DEF BrokerAnswers, Answer
<1>2. /\ Lag \in Nat /\ wall = DaemonNow(tick) + Lag /\ wall \in Nat
      /\ DaemonNow(tick) \in Nat /\ tick \in Nat \ {0}
  BY <1>1, LagExact DEF SentinelInv, TurnsInv
<1>3. Ttl \in Nat /\ Retention \in Nat /\ U64 \in Nat \ {0}
  BY SentinelAssumption, ConstantsAssumption
<1>4. /\ v.request_id = RequestId(tick) /\ v.expires_at = DaemonNow(tick) + Ttl
      /\ v.expires_at \in Nat
  BY <1>2, <1>3 DEF DaemonVerdict
<1>5. /\ answered'.outcome = outcome /\ answered'.tick = tick
      /\ answered'.at = wall /\ answered'.late = Lag
  BY <1>1
<1>6. /\ log \in Seq(DaemonEntry) /\ e \in DaemonEntry
      /\ DOMAIN replay_cache \subseteq seen(tick - 1)
      /\ \A id \in DOMAIN replay_cache :
           /\ replay_cache[id] \in Nat
           /\ \E i \in DOMAIN log : RetainedFor(id, i)
  BY <1>1, <1>2 DEF SentinelInv, RetentionInv, NewestTurn, DaemonEntry
<1>7. /\ DOMAIN purged \subseteq DOMAIN replay_cache
      /\ \A id \in DOMAIN purged :
           purged[id] = replay_cache[id] /\ replay_cache[id] >= wall
  BY DEF Purge
<1>8. /\ RetainUntil(v) \in Nat
      /\ RetainUntil(v) <= v.expires_at + Retention
  <2>1. \A x \in Nat, m \in Nat \ {0} : x % m \in Nat /\ x % m <= x
    <3>1. ASSUME NEW x \in Nat, NEW m \in Nat \ {0}
          PROVE  x % m \in Nat /\ x % m <= x
      <4>1. x % m \in Nat /\ x % m < m
        OBVIOUS
      <4>2. x < m => x % m = x
        OBVIOUS
      <4>. QED
        BY <4>1, <4>2
    <3>. QED
      BY <3>1
  <2>. QED
    BY <1>3, <1>4, <2>1 DEF RetainUntil
<1>9. /\ DOMAIN Append(log, e) = DOMAIN log \cup {Len(log) + 1}
      /\ \A i \in DOMAIN log : Append(log, e)[i] = log[i]
      /\ Append(log, e)[Len(log) + 1] = e
      /\ Append(log, e) \in Seq(DaemonEntry)
  BY <1>6
<1>10. /\ log' = log \/ log' = Append(log, e)
       /\ \A i \in DOMAIN log : i \in DOMAIN log' /\ log'[i] = log[i]
       /\ log' \in Seq(DaemonEntry)
  BY <1>1, <1>6, <1>9 DEF EvaluateAndEnforce
<1>11. seen(tick - 1) \cup {RequestId(tick)} \subseteq seen(tick)
  <2>1. tick \in 1 .. tick /\ \A i \in 1 .. tick - 1 : i \in 1 .. tick
    BY <1>2
  <2>. QED
    BY <2>1
<1>12. outcome = "Expired" => Lag > Ttl
  <2>1. ASSUME outcome = "Expired" PROVE Lag > Ttl
    <3>1. wall > v.expires_at
      BY <2>1 DEF Outcome, EarlyError, LateError, ActionError
    <3>. QED
      BY <1>2, <1>3, <1>4, <3>1
  <2>. QED
    BY <2>1
<1>13. ASSUME outcome = "ReplayDetected"
       PROVE  /\ tick > IdSpace
              /\ \E i \in DOMAIN log :
                   /\ log[i].verdict.request_id = RequestId(tick)
                   /\ wall <= log[i].verdict.expires_at + Retention
  <2>1. RequestId(tick) \in DOMAIN purged
    BY <1>4, <1>13 DEF Outcome, EarlyError, LateError, ActionError
  <2>2. PICK n \in 1 .. tick - 1 : RequestId(tick) = RequestId(n)
    BY <1>6, <1>7, <2>1
  <2>3. n \in Nat \ {0} /\ n < tick
    BY <1>2
  <2>4. tick > IdSpace
    BY <1>2, <2>2, <2>3, IdentifiersWrap
  <2>5. PICK i \in DOMAIN log : RetainedFor(RequestId(tick), i)
    BY <1>6, <1>7, <2>1
  <2>6. /\ replay_cache[RequestId(tick)] \in Nat
        /\ replay_cache[RequestId(tick)] >= wall
    BY <1>6, <1>7, <2>1
  <2>7. log[i].verdict.expires_at \in Nat
    <3>1. log[i] \in DaemonEntry
      BY <1>6
    <3>2. PICK k \in Nat : log[i].verdict = DaemonVerdict(k)
      BY <3>1 DEF DaemonEntry
    <3>3. DaemonNow(k) \in Nat
      BY SentinelAssumption DEF DaemonNow
    <3>. QED
      BY <1>3, <3>2, <3>3 DEF DaemonVerdict
  <2>. QED
    BY <1>2, <1>3, <2>4, <2>5, <2>6, <2>7 DEF RetainedFor
<1>. HIDE DEF v, outcome, e, purged, seen
<1>14. TurnsInv'
  BY <1>1 DEF SentinelInv, TurnsInv
<1>15. /\ DOMAIN replay_cache' \subseteq seen(tick)
       /\ \A id \in DOMAIN replay_cache' :
            /\ replay_cache'[id] \in Nat
            /\ \E i \in DOMAIN log' : RetainedFor(id, i)'
  <2>1. ASSUME NEW id \in DOMAIN replay_cache, id \in DOMAIN replay_cache',
               replay_cache'[id] = replay_cache[id]
        PROVE  /\ replay_cache'[id] \in Nat
               /\ \E i \in DOMAIN log' : RetainedFor(id, i)'
    <3>1. PICK i \in DOMAIN log : RetainedFor(id, i)
      BY <1>6
    <3>2. RetainedFor(id, i)' /\ i \in DOMAIN log'
      BY <1>10, <2>1, <3>1 DEF RetainedFor
    <3>. QED
      BY <1>6, <2>1, <3>2
  <2>2. CASE replay_cache' = replay_cache
    BY <1>6, <1>11, <2>1, <2>2
  <2>3. CASE replay_cache' = purged
    BY <1>6, <1>7, <1>11, <2>1, <2>3
  <2>4. CASE replay_cache' = Remember(purged, v) /\ log' = Append(log, e)
    <3>1. /\ DOMAIN replay_cache' = DOMAIN purged \cup {v.request_id}
          /\ replay_cache'[v.request_id] = RetainUntil(v)
          /\ \A id \in DOMAIN purged :
               id # v.request_id => replay_cache'[id] = purged[id]
      BY <2>4, RememberInserts
    <3>2. DOMAIN replay_cache' \subseteq seen(tick)
      BY <1>4, <1>6, <1>7, <1>11, <3>1
    <3>3. ASSUME NEW id, id = v.request_id, NEW l, l = Len(log) + 1
          PROVE  l \in DOMAIN log' /\ RetainedFor(id, l)'
      <4>1. l \in DOMAIN log' /\ log'[l].verdict = v
        BY <1>9, <2>4, <3>3 DEF e
      <4>. QED
        BY <1>8, <3>1, <3>3, <4>1 DEF RetainedFor
    <3>4. ASSUME NEW id \in DOMAIN replay_cache'
          PROVE  /\ replay_cache'[id] \in Nat
                 /\ \E i \in DOMAIN log' : RetainedFor(id, i)'
      <4>1. CASE id = v.request_id
        BY <1>8, <3>1, <3>3, <4>1
      <4>2. CASE id # v.request_id
        BY <1>7, <2>1, <3>1, <3>4, <4>2
      <4>. QED
        BY <4>1, <4>2
    <3>. QED
      BY <3>2, <3>4
  <2>. QED
    BY <1>1, <2>2, <2>3, <2>4
    DEF EvaluateAndEnforce, CacheAfter, Outcome, purged, e
<1>16. RetentionInv'
  <2>1. NewestTurn' = tick
    BY <1>1 DEF NewestTurn
  <2>. QED
    BY <1>10, <1>15, <2>1 DEF RetentionInv, seen
<1>17. ReplayOnlyAfterWrap' /\ ExpiredOnlyByLag'
  BY <1>5, <1>12, <1>13 DEF ReplayOnlyAfterWrap, ExpiredOnlyByLag
<1>18. ReplayMeansRecentlyEnforced'
  <2>1. SUFFICES ASSUME outcome = "ReplayDetected"
                 PROVE  \E i \in DOMAIN log' :
                          /\ log'[i].verdict.request_id = RequestId(tick)
                          /\ wall <= log'[i].verdict.expires_at + Retention
    BY <1>5 DEF ReplayMeansRecentlyEnforced
  <2>2. PICK i \in DOMAIN log :
          /\ log[i].verdict.request_id = RequestId(tick)
          /\ wall <= log[i].verdict.expires_at + Retention
    BY <1>13, <2>1
  <2>. QED
    BY <1>10, <2>2
<1>. QED
  BY <1>14, <1>16, <1>17, <1>18 DEF SentinelInv

LEMMA SentinelInvariant == SentinelSpec => []SentinelInv
<1>1. SentinelInit => SentinelInv
  <2>. SUFFICES ASSUME SentinelInit PROVE SentinelInv
    OBVIOUS
  <2>1. /\ wall = Start /\ tick = 1 /\ since = Start /\ late = 0
        /\ answered.outcome = "None" /\ DOMAIN replay_cache = {}
        /\ call = "none" /\ log = <<>>
    BY DEF SentinelInit, Init
  <2>2. DaemonNow(0) = Start /\ Start \in Nat
    BY SentinelAssumption DEF DaemonNow
  <2>3. TurnsInv /\ RetentionInv
    BY <2>1, <2>2 DEF TurnsInv, RetentionInv
  <2>. QED
    BY <2>1, <2>3 DEF SentinelInv, ReplayOnlyAfterWrap, ExpiredOnlyByLag,
                      ReplayMeansRecentlyEnforced
<1>2. ASSUME SentinelInv, [SentinelNext]_sentinelVars
      PROVE  SentinelInv'
  <2>1. ASSUME UNCHANGED <<since, tick, late, answered, replay_cache, log>>,
               TurnsInv', NewestTurn' = NewestTurn
        PROVE  SentinelInv'
    <3>1. \A id, i : RetainedFor(id, i)' <=> RetainedFor(id, i)
      BY <2>1 DEF RetainedFor
    <3>2. RetentionInv'
      BY <1>2, <2>1, <3>1 DEF SentinelInv, RetentionInv
    <3>. QED
      BY <1>2, <2>1, <3>2
        DEF SentinelInv, ReplayOnlyAfterWrap, ExpiredOnlyByLag,
            ReplayMeansRecentlyEnforced
  <2>2. CASE Advance
    <3>1. /\ wall' = wall + 1
          /\ UNCHANGED <<since, tick, late, answered, replay_cache, log, call>>
      BY <2>2 DEF Advance, vars
    <3>2. TurnsInv'
      <4>1. wall \in Nat /\ since \in Nat /\ since <= wall /\ Heartbeat \in Nat
        BY <1>2, SentinelAssumption DEF SentinelInv, TurnsInv
      <4>2. /\ wall' \in Nat /\ since <= wall'
            /\ wall >= since + Heartbeat => wall' >= since + Heartbeat
        BY <3>1, <4>1
      <4>. QED
        BY <1>2, <3>1, <4>2 DEF SentinelInv, TurnsInv
    <3>. QED
      BY <2>1, <3>1, <3>2 DEF NewestTurn
  <2>3. CASE Quiet
    BY <1>2, <2>3, NextTurnKeeps DEF Quiet
  <2>4. CASE Dispatch
    <3>1. CASE Answer("BrokerUnreachable") /\ NextTurn
      BY <1>2, <2>4, <3>1, NextTurnKeeps DEF Dispatch, Answer
    <3>2. CASE /\ call' = "sent"
               /\ UNCHANGED <<wall, tick, since, late, answered>>
      <4>1. /\ UNCHANGED <<replay_cache, log>> /\ call = "none"
            /\ wall >= since + Heartbeat
        BY <2>4 DEF Dispatch, vars
      <4>2. TurnsInv'
        BY <1>2, <3>2, <4>1 DEF SentinelInv, TurnsInv
      <4>. QED
        BY <2>1, <3>2, <4>1, <4>2 DEF NewestTurn
    <3>. QED
      BY <2>4, <3>1, <3>2 DEF Dispatch
  <2>5. CASE BrokerAnswers
    BY <1>2, <2>5, BrokerAnswersKeeps
  <2>6. CASE PipeBreaks \/ Discard
    <3>1. wall >= since + Heartbeat
      BY <1>2, <2>6 DEF PipeBreaks, Discard, SentinelInv, TurnsInv
    <3>. QED
      BY <1>2, <2>6, <3>1, NextTurnKeeps DEF PipeBreaks, Discard, Answer
  <2>7. CASE UNCHANGED sentinelVars
    <3>1. /\ UNCHANGED <<since, tick, late, answered, replay_cache, log, call>>
          /\ UNCHANGED wall
      BY <2>7 DEF sentinelVars, daemonVars, vars
    <3>. QED
      BY <1>2, <2>1, <3>1 DEF SentinelInv, TurnsInv, NewestTurn
  <2>. QED
    BY <1>2, <2>2, <2>3, <2>4, <2>5, <2>6, <2>7 DEF SentinelNext
<1>. QED
  BY <1>1, <1>2, PTL DEF SentinelSpec

\* The daemon's own verdicts are not taken for replays before its identifiers
\* have gone round once, however many the cache retains
\* (run_live_sentinel_daemon_ext, gate 4 of evaluate_and_enforce).
THEOREM ReplayNeedsWrap == SentinelSpec => []ReplayOnlyAfterWrap
<1>1. SentinelInv => ReplayOnlyAfterWrap
  BY DEF SentinelInv
<1>. QED
  BY <1>1, SentinelInvariant, PTL

\* Over any number of turns the daemon's clock lags by what its turns were late
\* and by nothing else; a verdict expires on arrival only when that exceeds its
\* lifetime (run_live_sentinel_daemon_ext, gate 3 of evaluate_and_enforce).
THEOREM ExpiryNeedsLag == SentinelSpec => []ExpiredOnlyByLag
<1>1. SentinelInv => ExpiredOnlyByLag
  BY DEF SentinelInv
<1>. QED
  BY <1>1, SentinelInvariant, PTL

\* When the broker takes a verdict of the daemon for a replay, and the daemon
\* discards that answer, the verdict that carried the identifier before was
\* enforced and its retention has not run out, however often the identifiers
\* have gone round (dispatch, purge_expired_replay_cache).
THEOREM ReplayRecent == SentinelSpec => []ReplayMeansRecentlyEnforced
<1>1. SentinelInv => ReplayMeansRecentlyEnforced
  BY DEF SentinelInv
<1>. QED
  BY <1>1, SentinelInvariant, PTL
=============================================================================

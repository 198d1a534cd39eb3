------------------------------- MODULE Events -------------------------------
(***************************************************************************)
(* Correlation of Windows security events (kavach-events): the window of   *)
(* the last events delivered, the patterns recognised when an event comes  *)
(* in, and what Head 3 makes of the same window.                           *)
(*                                                                         *)
(* Events are stamped where they happen and delivered later, each within   *)
(* MaxSkew of its stamp: in another order, or never.                       *)
(***************************************************************************)
EXTENDS Integers, Sequences, FiniteSets, FiniteSetsExt, Sums

CONSTANTS
  Users,         \* subject_user
  EventIds,      \* the CriticalEventId considered
  EventWindow,   \* EVENT_SEQUENCE_WINDOW_SIZE (16 in the code)
  FailureSpan,   \* age up to which a failed logon counts (60_000 ms)
  FailureLimit,  \* failed logons that make a brute force (3)
  MaxSkew,       \* bound on the delay of a delivery
  MaxTime,       \* bound on the clock
  MaxInputs      \* bound on the events delivered

CriticalEventId ==
  {"LogonSuccess", "LogonFailure", "ServiceInstall", "ServiceCreated",
   "AuditLogCleared", "PowerShellScriptBlock", "BugCheck"}

ASSUME EventsAssumption ==
  /\ EventIds \subseteq CriticalEventId
  /\ EventWindow \in Nat \ {0} /\ FailureSpan \in Nat
  /\ FailureLimit \in Nat \ {0} /\ MaxSkew \in Nat
  /\ MaxTime \in Nat /\ MaxInputs \in Nat

\* The window is so small, and a brute force takes so many failures, that the
\* mean of its weights stays below the threshold of Head 3 whatever else is in
\* it (16 and 3 in the code: 30480 < 34200).
ASSUME HeadAssumption == 1905 * EventWindow < 11400 + 7600 * FailureLimit

VARIABLES
  now,        \* the clock by which events are stamped and delivered
  inputs,     \* history: the number of inputs so far
  events,     \* the tracker's window
  alert,      \* what record_event returned last: a pattern, or "None"
  delivered   \* history: every event delivered, in the order of delivery

eventVars == <<events, alert, delivered>>

SecurityEventRecord(event_id, ts, user) ==
  [event_id |-> event_id, ts |-> ts, user |-> user]

EventsInit == events = <<>> /\ alert = "None" /\ delivered = <<>>

-----------------------------------------------------------------------------
\* The stamps of what is delivered now.
Stamps == {t \in 0 .. now : now - t <= MaxSkew}

\* record_event: the oldest event makes room.
Push(window, e) ==
  Append(IF Len(window) = EventWindow THEN Tail(window) ELSE window, e)

\* Mutant of RecentFailures: the subtraction is cast instead of saturated, so
\* that only failures stamped before the logon count.
RecentFailuresBefore(window, latest) ==
  Cardinality({i \in DOMAIN window :
    /\ window[i].event_id = "LogonFailure" /\ window[i].user = latest.user
    /\ latest.ts - window[i].ts \in 0 .. FailureSpan})

\* Mutant of RecentFailures: the failures of every user are counted.
RecentFailuresOfAnyone(window, latest) ==
  Cardinality({i \in DOMAIN window :
    /\ window[i].event_id = "LogonFailure"
    /\ latest.ts - window[i].ts <= FailureSpan})

\* The failed logons of the same user in the window.  The age saturates at
\* zero: a failure stamped after the logon counts.
RecentFailures(window, latest) ==
  Cardinality({i \in DOMAIN window :
    /\ window[i].event_id = "LogonFailure" /\ window[i].user = latest.user
    /\ latest.ts - window[i].ts <= FailureSpan})

\* correlate_recent; every pattern recommends an alert and nothing more.
CorrelateRecent(window, latest) ==
  CASE latest.event_id = "AuditLogCleared" -> "AuditLogTampering"
    [] latest.event_id \in {"ServiceInstall", "ServiceCreated"} ->
         "PersistenceServiceInstalled"
    [] latest.event_id = "LogonSuccess" ->
         IF RecentFailures(window, latest) >= FailureLimit
         THEN "BruteForceCompromised" ELSE "None"
    [] latest.event_id = "PowerShellScriptBlock" -> "SuspiciousScriptExecution"
    [] OTHER -> "None"

\* ingest_event, behind the consumer's mutex
IngestEvent(e) ==
  /\ events' = Push(events, e)
  /\ alert' = CorrelateRecent(events', e)
  /\ delivered' = Append(delivered, e)

-----------------------------------------------------------------------------
\* severity_weight as the tensor holds it: the weight times 127, rounded.
SeverityWeight(kind) ==
  CASE kind = "LogonSuccess" -> 13
    [] kind = "LogonFailure" -> 51
    [] kind = "PowerShellScriptBlock" -> 76
    [] kind \in {"ServiceCreated", "ServiceInstall"} -> 102
    [] kind = "BugCheck" -> 114
    [] kind = "AuditLogCleared" -> 127

\* The first feature of the tensor, summed over the events in the window.
SeveritySum(window) ==
  Total([i \in 1 .. Len(window) |-> SeverityWeight(window[i].event_id)],
        Len(window))

\* Head 3 as the baseline computes it (run_audit_inference without a session):
\* the mean of the first feature over all rows, those without an event
\* included, reaches the 0.85 at which the daemon raises its alert.
AuditAlarm(window) == 100 * SeveritySum(window) >= 85 * 127 * EventWindow

-----------------------------------------------------------------------------
Last == delivered[Len(delivered)]

\* The failed logons of the user of the last event among all that happened.
Failures(from, to) ==
  {i \in DOMAIN delivered :
     /\ delivered[i].event_id = "LogonFailure" /\ delivered[i].user = Last.user
     /\ delivered[i].ts \in from .. to}

\* An account is reported as taken by brute force only over enough failures of
\* that very account, from the span before the logon to the skew of the
\* delivery after it; nothing is counted twice (correlate_recent).
BruteForceIsReal ==
  alert = "BruteForceCompromised" =>
    Cardinality(Failures(Last.ts - FailureSpan, Last.ts + MaxSkew))
      >= FailureLimit

\* A logon after enough failures goes unreported only if other events flooded
\* the window: from the failures that were needed on, more events came in than
\* it holds (record_event).
MissedOnlyByFlood ==
  (delivered # <<>> /\ Last.event_id = "LogonSuccess" /\ alert = "None") =>
    \A S \in SUBSET Failures(Last.ts - FailureSpan, Last.ts + MaxSkew) :
      Cardinality(S) = FailureLimit =>
        Len(delivered) - Min(S) >= EventWindow

\* A whole window in which a brute force was recognised raises Head 3 as well,
\* the head that such chains are for (run_audit_inference).
BruteForceRaisesHead ==
  (alert = "BruteForceCompromised" /\ Len(events) = EventWindow)
    => AuditAlarm(events)
=============================================================================

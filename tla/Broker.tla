------------------------------- MODULE Broker -------------------------------
(***************************************************************************)
(* The privileged enforcement broker of kavach-firewall (broker.rs).       *)
(*                                                                         *)
(* EnforcementBroker decides on one verdict at a time, under a mutex, with *)
(* a wall-clock reading supplied by its caller.  A verdict that passes     *)
(* every gate is enforced and its request identifier is kept in a replay   *)
(* cache until Retention milliseconds after the verdict's deadline.        *)
(*                                                                         *)
(* The readings come from SystemTime, which may step back, and from        *)
(* callers that read it before they take the mutex: the reading of one     *)
(* evaluation may lie below that of an earlier one.  MaxRegress bounds how *)
(* far below the largest reading so far a reading may fall.                *)
(***************************************************************************)
EXTENDS Integers, Sequences

CONSTANTS
  RequestIds,    \* 128-bit request identifiers
  ModelDigests,  \* SHA-256 digests of model bundles
  Verdicts,      \* the verdicts callers submit
  Policies,      \* what EnforcementBroker::new may be called with
  Times,         \* wall-clock readings, Unix milliseconds
  Retention,     \* post-expiry retention of an identifier (60_000 in the code)
  MaxRegress,    \* how far a reading may fall below the largest earlier one
  U64            \* 2^64: retain_until is computed in u64

Actions == {"Alert", "SuspendAndAlert", "HardKill"}

\* kavach_core::Verdict, without the fields that no decision reads.
Verdict ==
  [major: Nat, request_id: RequestIds, issued_at: Nat, expires_at: Nat,
   action: Actions, model: ModelDigests, generation: Nat, pid: Nat,
   evidence: Nat, flags: Nat]

Policy ==
  [generation: Nat, hard_kill: BOOLEAN, min_evidence: Nat,
   model: ModelDigests, degraded: BOOLEAN]

ASSUME ConstantsAssumption ==
  /\ Verdicts \subseteq Verdict
  /\ Policies \subseteq Policy
  /\ Times \subseteq Nat
  /\ Retention \in Nat
  /\ MaxRegress \in Nat
  /\ U64 \in Nat \ {0}

\* Clock corrections, and the time a caller holds a reading before the broker
\* uses it, stay within the retention.
ASSUME RegressAssumption == MaxRegress <= Retention

VARIABLES
  policy,        \* the broker's immutable configuration
  replay_cache,  \* request identifier -> retain_until
  peak,          \* history: the largest reading used so far
  log            \* history: the enforced verdicts with the reading used

vars == <<policy, replay_cache, peak, log>>

-----------------------------------------------------------------------------
(***************************************************************************)
(* The gates of evaluate_and_enforce, in the order of its early returns.   *)
(***************************************************************************)

\* Mutant of EarlyError: the deadline is not looked at.
EarlyErrorTimeless(v, t) ==
  IF v.major # 1 THEN "VersionMismatch"
  ELSE IF v.flags # 0 THEN "MalformedMessage"
  ELSE "None"

\* Gates 1 to 3; a verdict they turn away leaves the replay cache alone.
EarlyError(v, t) ==
  IF v.major # 1 THEN "VersionMismatch"
  ELSE IF v.flags # 0 THEN "MalformedMessage"
  ELSE IF t > v.expires_at THEN "Expired"
  ELSE "None"

\* Mutant of Purge: retention compared strictly.
PurgeAtRetention(cache, t) ==
  [id \in {i \in DOMAIN cache : cache[i] > t} |-> cache[id]]

\* Mutant of Purge: identifiers dropped at the deadline of their verdict.
PurgeAtDeadline(cache, t) ==
  [id \in {i \in DOMAIN cache : cache[i] - Retention >= t} |-> cache[id]]

\* Mutant of Purge: nothing is ever forgotten.
PurgeNever(cache, t) == cache

\* purge_expired_replay_cache: what is left of the cache at reading t.
Purge(cache, t) ==
  [id \in {i \in DOMAIN cache : cache[i] >= t} |-> cache[id]]

\* Gate 7: what the administrator's policy p says of the requested action.
ActionError(p, v) ==
  IF v.action = "HardKill" /\ (~p.hard_kill \/ v.evidence < p.min_evidence)
  THEN "ActionDenied"
  ELSE IF v.action # "Alert" /\ v.pid = 0 THEN "MalformedMessage"
  ELSE "None"

\* Mutant of LateError: the model-health gate left out.
LateErrorUngated(p, cache, v) ==
  IF v.request_id \in DOMAIN cache THEN "ReplayDetected"
  ELSE IF v.generation # p.generation THEN "ActionDenied"
  ELSE ActionError(p, v)

\* Gates 4 to 7, on the purged cache.
LateError(p, cache, v) ==
  IF v.request_id \in DOMAIN cache THEN "ReplayDetected"
  ELSE IF v.generation # p.generation THEN "ActionDenied"
  ELSE IF p.degraded \/ v.model # p.model THEN "ActionDenied"
  ELSE ActionError(p, v)

\* What evaluate_and_enforce answers; "None" stands for Ok.
Outcome(p, cache, v, t) ==
  IF EarlyError(v, t) # "None" THEN EarlyError(v, t)
  ELSE LateError(p, Purge(cache, t), v)

\* Mutant of RetainUntil: no retention past the deadline.
RetainToDeadline(v) == v.expires_at

\* Mutant of RetainUntil: the retention counted backwards.
RetainBefore(v) == v.expires_at - Retention

\* let retain_until = verdict.expires_at_unix_ms + 60_000, which nothing bounds:
\* a release build wraps around (a debug build panics, and enforces nothing).
RetainUntil(v) == (v.expires_at + Retention) % U64

\* replay_cache.insert
Remember(cache, v) ==
  [id \in DOMAIN cache \cup {v.request_id} |->
     IF id = v.request_id THEN RetainUntil(v) ELSE cache[id]]

\* The cache after evaluate_and_enforce has returned.
CacheAfter(p, cache, v, t) ==
  IF EarlyError(v, t) # "None" THEN cache
  ELSE IF Outcome(p, cache, v, t) # "None" THEN Purge(cache, t)
  ELSE Remember(Purge(cache, t), v)

-----------------------------------------------------------------------------
Init ==
  /\ policy \in Policies
  /\ replay_cache = [id \in {} |-> 0]
  /\ peak = 0
  /\ log = <<>>

\* One call of evaluate_and_enforce(v, t), atomic under the broker's mutex.
EvaluateAndEnforce(v, t) ==
  /\ replay_cache' = CacheAfter(policy, replay_cache, v, t)
  /\ log' = IF Outcome(policy, replay_cache, v, t) = "None"
            THEN Append(log, [verdict |-> v, at |-> t])
            ELSE log
  /\ peak' = IF t > peak THEN t ELSE peak
  /\ UNCHANGED policy

Next ==
  \E v \in Verdicts, t \in Times :
    /\ t + MaxRegress >= peak
    /\ EvaluateAndEnforce(v, t)

Spec == Init /\ [][Next]_vars

-----------------------------------------------------------------------------
(***************************************************************************)
(* Properties.                                                             *)
(***************************************************************************)

TypeOK ==
  /\ policy \in Policies
  /\ DOMAIN replay_cache \subseteq RequestIds
  /\ \A id \in DOMAIN replay_cache : replay_cache[id] \in Nat
  /\ peak \in Nat
  /\ log \in Seq([verdict: Verdicts, at: Nat])

\* The deadline of v and the retention after it can be told in 64 bits.  The
\* wire decoder bounds the deadline by the sender's own issue time only, and the
\* broker not at all: verdicts that do not fit are evaluated like the others.
Fits(v) == v.expires_at + Retention < U64

\* Replay protection: of two enforced verdicts that carry the same request
\* identifier, the later is enforced only once the retention of the earlier has
\* run out, up to the distance by which the wall clock may regress
\* (broker.rs, gate 4 and the insertion with 60-second retention).  The earlier
\* one's deadline must fit; the later may be any.
ReplayExclusion ==
  \A i, j \in DOMAIN log :
    /\ i < j
    /\ log[i].verdict.request_id = log[j].verdict.request_id
    /\ Fits(log[i].verdict)
    => log[j].at + MaxRegress > log[i].verdict.expires_at + Retention

\* At most once: a verdict whose deadline fits, delivered any number of times,
\* in any order with other verdicts (those that do not fit included) and over a
\* clock that steps back by no more than the retention, changes the host at
\* most once.
EnforcedAtMostOnce ==
  \A i, j \in DOMAIN log :
    log[i].verdict = log[j].verdict /\ Fits(log[i].verdict) => i = j

\* ADR 003, "IPC failure states": a duplicate request identifier is rejected
\* with "no repeated action", whatever the deadline of its verdict.
NoRepeatedAction ==
  \A i, j \in DOMAIN log : log[i].verdict = log[j].verdict => i = j

\* The reason why the first two hold: the identifier of an enforced verdict that
\* fits is still in the cache, for at least its own retention, or the largest
\* reading has passed that retention.
RememberedUntilRetired ==
  \A i \in DOMAIN log :
    LET v == log[i].verdict IN
      \/ ~Fits(v)
      \/ /\ v.request_id \in DOMAIN replay_cache
         /\ replay_cache[v.request_id] >= v.expires_at + Retention
      \/ peak > v.expires_at + Retention

\* What the policy p says of verdict v, whenever it arrives (ADR 002, ADR 003).
Authorised(p, v) ==
  /\ v.major = 1 /\ v.flags = 0
  /\ v.generation = p.generation
  /\ ~p.degraded /\ v.model = p.model
  /\ v.action = "HardKill" => p.hard_kill /\ v.evidence >= p.min_evidence
  /\ v.action # "Alert" => v.pid # 0

Executed == {log[i].verdict : i \in DOMAIN log}

Executor ==
  INSTANCE BrokerExecutor WITH
    executed <- Executed, Forgettable <- {v \in Verdicts : ~Fits(v)}

\* The broker implements the executor its callers rely on: only authorised
\* verdicts are acted on, and none that fits twice, although the broker forgets
\* request identifiers as their retention runs out.
ImplementsExecutor == Executor!Spec
=============================================================================

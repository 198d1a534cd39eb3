---------------------------- MODULE BrokerProofs ----------------------------
(***************************************************************************)
(* Proofs about the enforcement broker, for every set of verdicts,         *)
(* policies and readings, every retention and every clock regression.      *)
(***************************************************************************)
EXTENDS Broker, TLAPS

Entry == [verdict: Verdicts, at: Nat]

-----------------------------------------------------------------------------
(***************************************************************************)
(* What the operators of evaluate_and_enforce compute.                     *)
(***************************************************************************)

\* Inserting an identifier touches no other one.
LEMMA RememberInserts ==
  ASSUME NEW cache, NEW v
  PROVE  /\ DOMAIN Remember(cache, v) = DOMAIN cache \cup {v.request_id}
         /\ Remember(cache, v)[v.request_id] = RetainUntil(v)
         /\ \A i \in DOMAIN cache :
              i # v.request_id => Remember(cache, v)[i] = cache[i]
BY DEF Remember

\* Where the sum fits, the retention is added to the deadline.
LEMMA RetainUntilExact ==
  ASSUME NEW v \in Verdicts
  PROVE  /\ RetainUntil(v) \in Nat
         /\ Fits(v) => RetainUntil(v) = v.expires_at + Retention
<1>1. v.expires_at \in Nat
  BY ConstantsAssumption DEF Verdict
<1>2. v.expires_at + Retention \in Nat
  BY <1>1, ConstantsAssumption
<1>3. \A x \in Nat, m \in Nat \ {0} : x % m \in Nat /\ (x < m => x % m = x)
  OBVIOUS
<1>. QED
  BY <1>1, <1>2, <1>3, ConstantsAssumption DEF RetainUntil, Fits

\* A verdict that is enforced has passed every gate.
LEMMA EnforcedPassedGates ==
  ASSUME NEW p \in Policies, NEW cache, NEW v \in Verdicts,
         NEW t \in Nat, Outcome(p, cache, v, t) = "None"
  PROVE  /\ EarlyError(v, t) = "None"
         /\ ~(t > v.expires_at)
         /\ v.request_id \notin DOMAIN Purge(cache, t)
         /\ Authorised(p, v)
<1>1. EarlyError(v, t) = "None" /\ LateError(p, Purge(cache, t), v) = "None"
  BY DEF Outcome
<1>2. v.major = 1 /\ v.flags = 0 /\ ~(t > v.expires_at)
  BY <1>1 DEF EarlyError
<1>3. /\ v.request_id \notin DOMAIN Purge(cache, t)
      /\ v.generation = p.generation
      /\ ~p.degraded /\ v.model = p.model
      /\ ActionError(p, v) = "None"
  BY <1>1 DEF LateError
<1>4. v.evidence \in Nat /\ p.min_evidence \in Nat
  BY ConstantsAssumption DEF Verdict, Policy
<1>5. /\ v.action = "HardKill" => p.hard_kill /\ ~(v.evidence < p.min_evidence)
      /\ v.action # "Alert" => v.pid # 0
  BY <1>3 DEF ActionError
<1>6. v.action = "HardKill" => p.hard_kill /\ v.evidence >= p.min_evidence
  BY <1>4, <1>5
<1>. QED
  BY <1>1, <1>2, <1>3, <1>5, <1>6 DEF Authorised

\* An evaluation leaves the cache alone, only purges it, or purges it and
\* enforces the verdict.
LEMMA EvaluationCases ==
  ASSUME NEW v \in Verdicts, NEW t \in Nat, EvaluateAndEnforce(v, t)
  PROVE  \/ replay_cache' = replay_cache /\ log' = log
         \/ replay_cache' = Purge(replay_cache, t) /\ log' = log
         \/ /\ Outcome(policy, replay_cache, v, t) = "None"
            /\ replay_cache' = Remember(Purge(replay_cache, t), v)
            /\ log' = Append(log, [verdict |-> v, at |-> t])
<1>1. CASE Outcome(policy, replay_cache, v, t) = "None"
  BY <1>1 DEF EvaluateAndEnforce, CacheAfter, Outcome
<1>2. CASE Outcome(policy, replay_cache, v, t) # "None"
  BY <1>2 DEF EvaluateAndEnforce, CacheAfter
<1>. QED
  BY <1>1, <1>2

\* What Append does to the entries of the history.
LEMMA AppendEntries ==
  ASSUME NEW s \in Seq(Entry), NEW e \in Entry
  PROVE  /\ Append(s, e) \in Seq(Entry)
         /\ DOMAIN Append(s, e) = DOMAIN s \cup {Len(s) + 1}
         /\ \A i \in DOMAIN s : Append(s, e)[i] = s[i]
         /\ Append(s, e)[Len(s) + 1] = e
         /\ DOMAIN s = 1 .. Len(s)
         /\ Len(s) \in Nat
OBVIOUS

-----------------------------------------------------------------------------
(***************************************************************************)
(* Type correctness.                                                       *)
(***************************************************************************)

\* The broker's state keeps its type over every sequence of evaluations.
THEOREM TypeCorrect == Spec => []TypeOK
<1>1. Init => TypeOK
  BY DEF Init, TypeOK
<1>2. ASSUME TypeOK, [Next]_vars
      PROVE  TypeOK'
  <2>1. CASE UNCHANGED vars
    BY <1>2, <2>1 DEF TypeOK, vars
  <2>2. ASSUME NEW v \in Verdicts, NEW t \in Times, EvaluateAndEnforce(v, t)
        PROVE  TypeOK'
    <3>1. t \in Nat /\ v.request_id \in RequestIds
      BY ConstantsAssumption DEF Verdict
    <3>2. policy' \in Policies /\ peak' \in Nat
      BY <1>2, <2>2, <3>1 DEF TypeOK, EvaluateAndEnforce
    <3>3. /\ DOMAIN Purge(replay_cache, t) \subseteq RequestIds
          /\ \A i \in DOMAIN Purge(replay_cache, t) :
               Purge(replay_cache, t)[i] \in Nat
      BY <1>2 DEF TypeOK, Purge
    <3>4. /\ DOMAIN Remember(Purge(replay_cache, t), v) \subseteq RequestIds
          /\ \A i \in DOMAIN Remember(Purge(replay_cache, t), v) :
               Remember(Purge(replay_cache, t), v)[i] \in Nat
      BY <3>1, <3>3, RetainUntilExact DEF Remember
    <3>5. Append(log, [verdict |-> v, at |-> t]) \in Seq(Entry)
      BY <1>2, <3>1 DEF TypeOK, Entry
    <3>6. CASE replay_cache' = replay_cache /\ log' = log
      BY <1>2, <3>2, <3>6 DEF TypeOK
    <3>7. CASE replay_cache' = Purge(replay_cache, t) /\ log' = log
      BY <1>2, <3>2, <3>3, <3>7 DEF TypeOK
    <3>8. CASE /\ replay_cache' = Remember(Purge(replay_cache, t), v)
               /\ log' = Append(log, [verdict |-> v, at |-> t])
      BY <3>2, <3>4, <3>5, <3>8 DEF TypeOK, Entry
    <3>. QED
      BY <2>2, <3>1, <3>6, <3>7, <3>8, EvaluationCases
  <2>. QED
    BY <1>2, <2>1, <2>2 DEF Next
<1>. QED
  BY <1>1, <1>2, PTL DEF Spec

-----------------------------------------------------------------------------
(***************************************************************************)
(* Replay protection.  The inductive invariant says why an identifier that *)
(* is no longer cached cannot come back: the largest reading has passed    *)
(* its retention, and no reading falls MaxRegress below the largest.       *)
(***************************************************************************)

EnforcedInTime ==
  \A i \in DOMAIN log : ~(log[i].at > log[i].verdict.expires_at)

EnforcedAuthorised ==
  \A i \in DOMAIN log : Authorised(policy, log[i].verdict)

ReplayInv ==
  /\ RememberedUntilRetired
  /\ ReplayExclusion
  /\ EnforcedInTime
  /\ EnforcedAuthorised

\* Purging at reading t forgets an identifier only when t has passed what it
\* was kept for.
LEMMA PurgeRemembers ==
  ASSUME TypeOK, RememberedUntilRetired, NEW t \in Nat, NEW i \in DOMAIN log,
         Fits(log[i].verdict), NEW p \in Nat, p >= peak, p >= t
  PROVE  \/ /\ log[i].verdict.request_id \in DOMAIN Purge(replay_cache, t)
            /\ Purge(replay_cache, t)[log[i].verdict.request_id]
                 >= log[i].verdict.expires_at + Retention
         \/ p > log[i].verdict.expires_at + Retention
<1> DEFINE v == log[i].verdict
<1>1. v \in Verdicts /\ v.expires_at \in Nat /\ Retention \in Nat /\ peak \in Nat
  <2>1. log \in Seq(Entry) /\ peak \in Nat
    BY DEF TypeOK, Entry
  <2>2. log[i] \in Entry
    BY <2>1
  <2>3. \A w \in Verdicts : w.expires_at \in Nat
    BY ConstantsAssumption DEF Verdict
  <2>. QED
    BY <2>1, <2>2, <2>3, ConstantsAssumption DEF Entry
<1>2. CASE peak > v.expires_at + Retention
  BY <1>1, <1>2
<1>3. CASE /\ v.request_id \in DOMAIN replay_cache
           /\ replay_cache[v.request_id] >= v.expires_at + Retention
  <2>1. replay_cache[v.request_id] \in Nat
    BY <1>3 DEF TypeOK
  <2>2. CASE replay_cache[v.request_id] >= t
    BY <1>3, <2>2 DEF Purge
  <2>3. CASE ~(replay_cache[v.request_id] >= t)
    BY <1>1, <1>3, <2>1, <2>3
  <2>. QED
    BY <2>2, <2>3
<1>. QED
  BY <1>2, <1>3 DEF RememberedUntilRetired

\* The invariant survives every evaluation.
LEMMA ReplayInvStep ==
  ASSUME TypeOK, ReplayInv, NEW v \in Verdicts, NEW t \in Nat,
         t + MaxRegress >= peak, EvaluateAndEnforce(v, t)
  PROVE  ReplayInv'
<1> DEFINE e == [verdict |-> v, at |-> t]
<1>1. /\ peak' \in Nat /\ peak' >= peak /\ peak' >= t
      /\ policy' = policy
      /\ log \in Seq(Entry) /\ peak \in Nat
  BY DEF EvaluateAndEnforce, TypeOK, Entry
<1>2. \A i \in DOMAIN log :
        /\ log[i].verdict \in Verdicts
        /\ log[i].verdict.expires_at \in Nat
        /\ log[i].at \in Nat
  <2>1. \A i \in DOMAIN log : log[i] \in Entry
    BY <1>1
  <2>2. \A w \in Verdicts : w.expires_at \in Nat
    BY ConstantsAssumption DEF Verdict
  <2>. QED
    BY <2>1, <2>2 DEF Entry
<1>3. CASE replay_cache' = replay_cache /\ log' = log
  <2>1. RememberedUntilRetired'
    BY <1>1, <1>2, <1>3, ConstantsAssumption
    DEF ReplayInv, RememberedUntilRetired
  <2>. QED
    BY <1>1, <1>3, <2>1
    DEF ReplayInv, ReplayExclusion, EnforcedInTime, EnforcedAuthorised
<1>4. CASE replay_cache' = Purge(replay_cache, t) /\ log' = log
  <2>1. RememberedUntilRetired'
    BY <1>1, <1>4, PurgeRemembers DEF ReplayInv, RememberedUntilRetired
  <2>. QED
    BY <1>1, <1>4, <2>1
    DEF ReplayInv, ReplayExclusion, EnforcedInTime, EnforcedAuthorised
<1>5. CASE /\ Outcome(policy, replay_cache, v, t) = "None"
           /\ replay_cache' = Remember(Purge(replay_cache, t), v)
           /\ log' = Append(log, e)
  <2>1. policy \in Policies /\ e \in Entry /\ v.expires_at \in Nat
    BY ConstantsAssumption DEF TypeOK, Entry, Verdict
  <2>2. /\ ~(t > v.expires_at)
        /\ v.request_id \notin DOMAIN Purge(replay_cache, t)
        /\ Authorised(policy, v)
    BY <1>5, <2>1, EnforcedPassedGates
  <2>3. /\ DOMAIN log' = DOMAIN log \cup {Len(log) + 1}
        /\ \A i \in DOMAIN log : log'[i] = log[i]
        /\ log'[Len(log) + 1] = e
        /\ DOMAIN log = 1 .. Len(log) /\ Len(log) \in Nat
    BY <1>1, <1>5, <2>1, AppendEntries
  <2>4. RememberedUntilRetired'
    <3> DEFINE purged == Purge(replay_cache, t)
    <3>0. /\ DOMAIN replay_cache' = DOMAIN purged \cup {v.request_id}
          /\ Fits(v) =>
               replay_cache'[v.request_id] = v.expires_at + Retention
          /\ \A id \in DOMAIN purged :
               id # v.request_id => replay_cache'[id] = purged[id]
      BY <1>5, RememberInserts, RetainUntilExact
    <3>1. ASSUME NEW i \in DOMAIN log
          PROVE  LET w == log'[i].verdict IN
                   \/ ~Fits(w)
                   \/ /\ w.request_id \in DOMAIN replay_cache'
                      /\ replay_cache'[w.request_id] >= w.expires_at + Retention
                   \/ peak' > w.expires_at + Retention
      <4>1. \/ ~Fits(log[i].verdict)
            \/ /\ log[i].verdict.request_id \in DOMAIN purged
               /\ purged[log[i].verdict.request_id]
                    >= log[i].verdict.expires_at + Retention
            \/ peak' > log[i].verdict.expires_at + Retention
        BY <1>1, PurgeRemembers DEF ReplayInv
      <4>. QED
        BY <2>2, <2>3, <3>0, <4>1
    <3>2. /\ v.request_id \in DOMAIN replay_cache'
          /\ Fits(v) =>
               replay_cache'[v.request_id] >= v.expires_at + Retention
      BY <2>1, <3>0, ConstantsAssumption
    <3>. QED
      BY <2>3, <3>1, <3>2 DEF RememberedUntilRetired
  <2>5. ReplayExclusion'
    <3>1. ASSUME NEW i \in DOMAIN log,
                 log[i].verdict.request_id = v.request_id,
                 Fits(log[i].verdict)
          PROVE  t + MaxRegress > log[i].verdict.expires_at + Retention
      <4> DEFINE p == IF t > peak THEN t ELSE peak
      <4>1. p \in Nat /\ p >= peak /\ p >= t /\ t + MaxRegress >= p
        BY <1>1, ConstantsAssumption
      <4>2. p > log[i].verdict.expires_at + Retention
        BY <2>2, <3>1, <4>1, PurgeRemembers DEF ReplayInv
      <4>. QED
        BY <1>2, <4>1, <4>2, ConstantsAssumption
    <3>2. ASSUME NEW i \in DOMAIN log', NEW j \in DOMAIN log', i < j,
                 log'[i].verdict.request_id = log'[j].verdict.request_id,
                 Fits(log'[i].verdict)
          PROVE  log'[j].at + MaxRegress
                   > log'[i].verdict.expires_at + Retention
      <4>1. i \in DOMAIN log
        BY <2>3, <3>2
      <4>2. CASE j \in DOMAIN log
        BY <2>3, <3>2, <4>1, <4>2 DEF ReplayInv, ReplayExclusion
      <4>3. CASE j = Len(log) + 1
        BY <2>3, <3>1, <3>2, <4>1, <4>3
      <4>. QED
        BY <2>3, <4>2, <4>3
    <3>. QED
      BY <3>2 DEF ReplayExclusion
  <2>6. EnforcedInTime' /\ EnforcedAuthorised'
    BY <1>1, <2>2, <2>3 DEF ReplayInv, EnforcedInTime, EnforcedAuthorised
  <2>. QED
    BY <2>4, <2>5, <2>6 DEF ReplayInv
<1>. QED
  BY <1>3, <1>4, <1>5, EvaluationCases

\* The inductive invariant holds of every behaviour of the broker.
LEMMA ReplayInvariant == Spec => []ReplayInv
<1>1. Init => ReplayInv
  BY DEF Init, ReplayInv, RememberedUntilRetired, ReplayExclusion,
         EnforcedInTime, EnforcedAuthorised
<1>2. ASSUME TypeOK, ReplayInv, [Next]_vars
      PROVE  ReplayInv'
  <2>1. CASE UNCHANGED vars
    BY <1>2, <2>1 DEF vars, ReplayInv, RememberedUntilRetired, ReplayExclusion,
                      EnforcedInTime, EnforcedAuthorised
  <2>2. CASE Next
    BY <1>2, <2>2, ReplayInvStep, ConstantsAssumption DEF Next
  <2>. QED
    BY <1>2, <2>1, <2>2
<1>. QED
  BY <1>1, <1>2, TypeCorrect, PTL DEF Spec

\* The replay cache remembers every enforced identifier for its retention, or
\* the clock has passed it, unless the retention wraps around: what
\* evaluate_and_enforce may forget.
THEOREM Remembrance == Spec => []RememberedUntilRetired
<1>1. ReplayInv => RememberedUntilRetired
  BY DEF ReplayInv
<1>. QED
  BY <1>1, ReplayInvariant, PTL

\* Identifiers are not reused before their retention has run out, up to the
\* regression of the clock, for every retention and whatever other verdicts
\* arrive, also some whose retention wraps around.
THEOREM ReplayProtection == Spec => []ReplayExclusion
<1>1. ReplayInv => ReplayExclusion
  BY DEF ReplayInv
<1>. QED
  BY <1>1, ReplayInvariant, PTL

\* While the clock regresses by no more than the retention, the deadline of a
\* verdict passes before its identifier can be forgotten.
LEMMA ReplayInvAtMostOnce ==
  ASSUME TypeOK, ReplayInv
  PROVE  EnforcedAtMostOnce
<1>1. log \in Seq(Entry)
  BY DEF TypeOK, Entry
<1>2. \A i \in DOMAIN log : log[i] \in Entry
  BY <1>1
<1>3. \A w \in Verdicts : w.expires_at \in Nat
  BY ConstantsAssumption DEF Verdict
<1>4. ASSUME NEW i \in DOMAIN log, NEW j \in DOMAIN log, i < j
      PROVE  ~(log[i].verdict = log[j].verdict /\ Fits(log[i].verdict))
  <2>1. SUFFICES ASSUME log[i].verdict = log[j].verdict, Fits(log[i].verdict)
                 PROVE  FALSE
    OBVIOUS
  <2>2. log[j].at + MaxRegress > log[j].verdict.expires_at + Retention
    BY <1>4, <2>1 DEF ReplayInv, ReplayExclusion
  <2>3. ~(log[j].at > log[j].verdict.expires_at)
    BY DEF ReplayInv, EnforcedInTime
  <2>4. log[j].at \in Nat /\ log[j].verdict.expires_at \in Nat
    BY <1>2, <1>3 DEF Entry
  <2>. QED
    BY <2>2, <2>3, <2>4, ConstantsAssumption, RegressAssumption
<1>5. \A i, j \in DOMAIN log : i \in Int /\ j \in Int
  BY <1>1
<1>6. \A i, j \in DOMAIN log : i # j => i < j \/ j < i
  BY <1>5
<1>. QED
  BY <1>4, <1>6 DEF EnforcedAtMostOnce

\* However often and in whatever order verdicts arrive, each whose deadline fits
\* changes the host at most once.
THEOREM AtMostOnce == Spec => []EnforcedAtMostOnce
BY ReplayInvAtMostOnce, TypeCorrect, ReplayInvariant, PTL

-----------------------------------------------------------------------------
(***************************************************************************)
(* The broker implements BrokerExecutor.                                   *)
(***************************************************************************)

\* An evaluation executes an authorised verdict, for the first time if its
\* deadline fits, or changes nothing that a caller can see.
LEMMA ExecutorStep ==
  ASSUME TypeOK, ReplayInv', TypeOK', NEW v \in Verdicts, NEW t \in Nat,
         EvaluateAndEnforce(v, t)
  PROVE  \/ Executor!Execute(v)
         \/ UNCHANGED <<policy, Executed>>
<1> DEFINE e == [verdict |-> v, at |-> t]
<1>1. policy' = policy /\ log \in Seq(Entry) /\ e \in Entry
  BY DEF EvaluateAndEnforce, TypeOK, Entry
<1>2. CASE log' = log
  BY <1>1, <1>2 DEF Executed
<1>3. CASE log' = Append(log, e)
  <2>1. /\ DOMAIN log' = DOMAIN log \cup {Len(log) + 1}
        /\ \A i \in DOMAIN log : log'[i] = log[i]
        /\ log'[Len(log) + 1] = e
        /\ DOMAIN log = 1 .. Len(log) /\ Len(log) \in Nat
    BY <1>1, <1>3, AppendEntries
  <2>2. Executed' = Executed \cup {v}
    BY <2>1 DEF Executed
  <2>3. Authorised(policy, v)
    BY <1>1, <2>1 DEF ReplayInv, EnforcedAuthorised
  <2>4. EnforcedAtMostOnce'
    BY ReplayInvAtMostOnce, PTL
  <2>5. v \notin Executed \/ v \in {w \in Verdicts : ~Fits(w)}
    <3>1. SUFFICES ASSUME Fits(v), NEW i \in DOMAIN log, log[i].verdict = v
                   PROVE  FALSE
      BY DEF Executed
    <3>2. i = Len(log) + 1
      BY <2>1, <2>4, <3>1 DEF EnforcedAtMostOnce
    <3>. QED
      BY <2>1, <3>2
  <2>. QED
    BY <1>1, <2>2, <2>3, <2>5 DEF Executor!Execute
<1>. QED
  BY <1>2, <1>3, EvaluationCases

\* Every behaviour of the broker is one of the executor: only authorised
\* verdicts, and none that fits twice.
THEOREM BrokerImplementsExecutor == Spec => ImplementsExecutor
<1>1. Init => Executor!Init
  BY DEF Init, Executor!Init, Executed
<1>2. ASSUME TypeOK, TypeOK', ReplayInv', [Next]_vars
      PROVE  [Executor!Next]_<<policy, Executed>>
  <2>1. CASE UNCHANGED vars
    BY <2>1 DEF vars, Executed
  <2>2. ASSUME NEW v \in Verdicts, NEW t \in Times, EvaluateAndEnforce(v, t)
        PROVE  [Executor!Next]_<<policy, Executed>>
    <3>1. t \in Nat
      BY ConstantsAssumption
    <3>2. Executor!Execute(v) \/ UNCHANGED <<policy, Executed>>
      BY <1>2, <2>2, <3>1, ExecutorStep
    <3>. QED
      BY <3>2 DEF Executor!Next
  <2>. QED
    BY <1>2, <2>1, <2>2 DEF Next
<1>. QED
  BY <1>1, <1>2, TypeCorrect, ReplayInvariant, PTL
  DEF Spec, ImplementsExecutor, Executor!Spec
=============================================================================

------------------------------ MODULE ClockSync ------------------------------
(***************************************************************************)
(* Clock-offset estimation between the Windows host and a WSL guest agent  *)
(* (kavach-wsl/src/clock_sync.rs, kavach-wsl-guest/src/clock_sync.rs).     *)
(*                                                                         *)
(* The host sends a challenge at t0; the guest stamps its receipt g1 and   *)
(* its answer g2 with its own monotonic clock; the host receives it at t3. *)
(* Messages may be lost, delayed, reordered and delivered twice.  A guest  *)
(* clock counts from the start of the agent, so `epoch', the host time at  *)
(* which the running agent started, is the true host-minus-guest offset,   *)
(* and a restart of the agent changes it.                                  *)
(*                                                                         *)
(* Sending challenges and pairing an answer with the newest challenge is   *)
(* left to the caller by the code and is external here.                    *)
(***************************************************************************)
EXTENDS Integers, Sequences, FiniteSets

CONSTANTS
  MaxRtt,          \* MAX_RTT_NS
  MaxUncertainty,  \* MAX_ACCEPTABLE_UNCERTAINTY_NS
  Validity,        \* CLOCK_SYNC_VALIDITY_NS
  SampleCap,       \* samples kept (5 in the code)
  FailureLimit,    \* consecutive failures that void the estimate (3)
  MaxTime,         \* bound on the host's monotonic clock
  MaxChallenges,   \* bound on the challenges sent
  MaxAnswers,      \* bound on the answers in flight
  MaxRestarts      \* bound on the restarts of the guest agent

ASSUME ClockAssumption ==
  /\ MaxRtt \in Nat /\ MaxUncertainty \in Nat /\ Validity \in Nat
  /\ SampleCap \in Nat \ {0} /\ FailureLimit \in Nat \ {0}
  /\ MaxTime \in Nat /\ MaxChallenges \in Nat
  /\ MaxAnswers \in Nat /\ MaxRestarts \in Nat

VARIABLES
  now,         \* the host's monotonic clock
  epoch,       \* host time at which the running guest agent started
  restarts,    \* history: restarts so far
  challenge,   \* the newest challenge: nonce (0 before the first) and t0
  toGuest,     \* challenges that may still reach the guest
  guest,       \* what the guest is answering: nonce (0 for nothing) and g1
  toHost,      \* answers that may still reach the host
  samples,     \* accepted_samples
  estimate,    \* current_estimate
  failures     \* consecutive_failures, counted up to FailureLimit

hostVars == <<challenge, samples, estimate, failures>>
clockVars == <<now, epoch, restarts, hostVars, toGuest, guest, toHost>>

Challenge == [nonce: Nat, t0: Nat]
Receipt   == [nonce: Nat, g1: Nat]
\* `epoch' is history: the session of the agent that answered.
Response  == [nonce: Nat, g1: Nat, g2: Nat, epoch: Nat]
Sample    == [offset: Int, rtt: Nat, epoch: Nat]
Estimate  == [offset: Int, uncertainty: Nat, valid_until: Int, epoch: Nat]

NoChallenge == [nonce |-> 0, t0 |-> 0]
NotBusy     == [nonce |-> 0, g1 |-> 0]
\* None: an estimate that no time finds valid.
NoEstimate  ==
  [offset |-> 0, uncertainty |-> 0, valid_until |-> -1, epoch |-> 0]

ClockInit ==
  /\ now = 0 /\ epoch = 0 /\ restarts = 0
  /\ challenge = NoChallenge
  /\ toGuest = {} /\ guest = NotBusy /\ toHost = {}
  /\ samples = <<>> /\ estimate = NoEstimate /\ failures = 0

-----------------------------------------------------------------------------
(***************************************************************************)
(* The environment and the guest agent.                                    *)
(***************************************************************************)

Tick ==
  /\ now < MaxTime
  /\ now' = now + 1
  /\ UNCHANGED <<epoch, restarts, hostVars, toGuest, guest, toHost>>

SendChallenge ==
  /\ challenge.nonce < MaxChallenges
  /\ challenge' = [nonce |-> challenge.nonce + 1, t0 |-> now]
  /\ toGuest' = toGuest \cup {challenge'}
  /\ UNCHANGED <<now, epoch, restarts, samples, estimate, failures, guest,
                 toHost>>

\* respond_to_challenge: sample g1.
GuestReceives(c) ==
  /\ guest = NotBusy
  /\ guest' = [nonce |-> c.nonce, g1 |-> now - epoch]
  /\ UNCHANGED <<now, epoch, restarts, hostVars, toGuest, toHost>>

\* respond_to_challenge: sample g2 and answer.
GuestAnswers ==
  /\ guest # NotBusy /\ Cardinality(toHost) < MaxAnswers
  /\ toHost' = toHost \cup
       {[nonce |-> guest.nonce, g1 |-> guest.g1, g2 |-> now - epoch,
         epoch |-> epoch]}
  /\ guest' = NotBusy
  /\ UNCHANGED <<now, epoch, restarts, hostVars, toGuest>>

\* The guest agent dies and is started again; its clock restarts from zero.
GuestRestarts ==
  /\ restarts < MaxRestarts
  /\ restarts' = restarts + 1
  /\ epoch' = now
  /\ guest' = NotBusy
  /\ UNCHANGED <<now, hostVars, toGuest, toHost>>

-----------------------------------------------------------------------------
(***************************************************************************)
(* ClockSynchronizer.                                                      *)
(***************************************************************************)

\* The exchange passes the three checks of process_response at host time t3.
Accepted(c, r, t3) ==
  /\ c.nonce = r.nonce
  /\ t3 > c.t0 /\ r.g2 >= r.g1
  /\ t3 - c.t0 <= MaxRtt

\* host_mid - guest_mid, both rounded towards zero.
Midpoint(c, r, t3) == (c.t0 + t3) \div 2 - (r.g1 + r.g2) \div 2

SampleOf(c, r, t3) ==
  [offset |-> Midpoint(c, r, t3), rtt |-> t3 - c.t0, epoch |-> r.epoch]

\* Mutant of PushSample: room is made only once the buffer is over its capacity.
PushSampleLate(s) ==
  Append(IF Len(samples) > SampleCap THEN Tail(samples) ELSE samples, s)

\* The rolling buffer: the oldest sample makes room.
PushSample(s) ==
  Append(IF Len(samples) = SampleCap THEN Tail(samples) ELSE samples, s)

\* min_by_key: the first of the samples with the lowest round trip.
IsBest(buf, b) ==
  \A i \in DOMAIN buf :
    IF i < b THEN buf[b].rtt < buf[i].rtt ELSE buf[b].rtt <= buf[i].rtt

\* Mutant of Uncertainty: the half round trip forgotten.
SpreadOnly(buf, b, lo, hi) == (buf[hi].offset - buf[lo].offset) \div 2

\* Half the best round trip plus half the spread of the offsets.
Uncertainty(buf, b, lo, hi) ==
  buf[b].rtt \div 2 + (buf[hi].offset - buf[lo].offset) \div 2

\* process_response, accepted: record the sample, renew the estimate.
AcceptResponse(r) ==
  LET buf == PushSample(SampleOf(challenge, r, now)) IN
  /\ samples' = buf
  /\ failures' = 0
  /\ \E b, lo, hi \in DOMAIN buf :
       /\ IsBest(buf, b)
       /\ \A i \in DOMAIN buf :
            buf[lo].offset <= buf[i].offset /\ buf[i].offset <= buf[hi].offset
       /\ estimate' = [offset |-> buf[b].offset,
                       uncertainty |-> Uncertainty(buf, b, lo, hi),
                       valid_until |-> now + Validity,
                       epoch |-> buf[b].epoch]

\* Mutant of RejectResponse: the count of failures wraps at its limit.
RejectAndWrap ==
  /\ failures' = IF failures < FailureLimit THEN failures + 1 ELSE 0
  /\ UNCHANGED <<samples, estimate>>

\* process_response, rejected: nonce, ordering or round trip.
RejectResponse ==
  /\ failures' = IF failures < FailureLimit THEN failures + 1 ELSE failures
  /\ UNCHANGED <<samples, estimate>>

\* process_response(challenge, r, now)
HostReceives(r) ==
  /\ challenge # NoChallenge
  /\ IF Accepted(challenge, r, now) THEN AcceptResponse(r) ELSE RejectResponse
  /\ UNCHANGED <<now, epoch, restarts, challenge, toGuest, guest, toHost>>

\* get_valid_estimate(now) returns an estimate.
ValidAt(e, f, t) ==
  /\ t <= e.valid_until
  /\ e.uncertainty <= MaxUncertainty
  /\ f < FailureLimit

\* Time passes and messages travel.
ExchangeNext ==
  \/ Tick
  \/ SendChallenge
  \/ \E c \in toGuest : GuestReceives(c)
  \/ GuestAnswers
  \/ \E r \in toHost : HostReceives(r)

ClockNext == ExchangeNext \/ GuestRestarts

ClockSpec == ClockInit /\ [][ClockNext]_clockVars

-----------------------------------------------------------------------------
ClockTypeOK ==
  /\ now \in Nat /\ epoch \in Nat /\ restarts \in Nat
  /\ challenge \in Challenge
  /\ toGuest \subseteq Challenge
  /\ guest \in Receipt
  /\ toHost \subseteq Response
  /\ samples \in Seq(Sample) /\ Len(samples) <= SampleCap
  /\ estimate \in Estimate
  /\ failures \in 0 .. FailureLimit

\* The estimate is off by no more than its uncertainty, plus one for rounding
\* to whole nanoseconds, as long as the sample it was taken from was answered
\* by the guest agent that is still running: whatever was lost, delayed,
\* duplicated or reordered, and however the delay was split between the way
\* there and the way back (process_response, steps 4 and 5).
EstimateAccurate ==
  (estimate # NoEstimate /\ estimate.epoch = epoch) =>
    /\ estimate.offset - epoch <= estimate.uncertainty + 1
    /\ epoch - estimate.offset <= estimate.uncertainty + 1

\* An estimate that get_valid_estimate returns is good for the guest that is
\* running, by its own bound: clock_sync.rs calls distribution_id, by which an
\* estimate is kept, the "guest-agent session to which the estimate applies",
\* and uncertainty_ns a "conservative one-way uncertainty bound".
ValidIsAccurate ==
  ValidAt(estimate, failures, now) =>
    /\ estimate.offset - epoch <= estimate.uncertainty + 1
    /\ epoch - estimate.offset <= estimate.uncertainty + 1

\* ADR 005: once the estimate is stale or voided by failures, only a newly
\* accepted exchange makes it valid again.
ValidOnlyByAcceptance ==
  [][(~ValidAt(estimate, failures, now) /\ ValidAt(estimate, failures, now)')
       => estimate'.valid_until = now + Validity]_clockVars
=============================================================================

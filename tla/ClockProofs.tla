---------------------------- MODULE ClockProofs ----------------------------
(***************************************************************************)
(* Proofs about the clock synchronizer and the attribution of writes that  *)
(* rests on it, for every number of challenges, answers, restarts, writes  *)
(* and records and every size of the sample and event buffers.             *)
(***************************************************************************)
EXTENDS Correlator, FiniteSetTheorems, TLAPS

-----------------------------------------------------------------------------
(***************************************************************************)
(* Arithmetic and sequences.                                               *)
(***************************************************************************)

\* Halves of two numbers that are d apart are at most half of d, and one for
\* rounding, apart.
LEMMA HalvesApart ==
  ASSUME NEW x \in Int, NEW y \in Int, NEW d \in Nat, x - y <= d, y - x <= d
  PROVE  /\ x \div 2 - y \div 2 <= d \div 2 + 1
         /\ y \div 2 - x \div 2 <= d \div 2 + 1
OBVIOUS

\* Whole sessions pass through the halving unchanged.
LEMMA HalfOfShifted ==
  ASSUME NEW x \in Int, NEW e \in Int
  PROVE  (x + 2 * e) \div 2 = x \div 2 + e
OBVIOUS

\* The midpoint rule: if the guest received after t0 and answered before t3, the
\* estimate is off by at most half of the round trip, and one for rounding,
\* however the delay was split (process_response, step 4).
LEMMA MidpointAccurate ==
  ASSUME NEW t0 \in Nat, NEW t3 \in Nat, NEW g1 \in Nat, NEW g2 \in Nat,
         NEW e \in Nat, t0 <= e + g1, g1 <= g2, e + g2 <= t3
  PROVE  LET m == (t0 + t3) \div 2 - (g1 + g2) \div 2 IN
         /\ m \in Int
         /\ m - e <= (t3 - t0) \div 2 + 1
         /\ e - m <= (t3 - t0) \div 2 + 1
<1> DEFINE x == t0 + t3
           y == g1 + g2 + 2 * e
           d == t3 - t0
<1>1. x \in Int /\ y \in Int /\ d \in Nat /\ x - y <= d /\ y - x <= d
  OBVIOUS
<1>2. /\ x \div 2 - y \div 2 <= d \div 2 + 1
      /\ y \div 2 - x \div 2 <= d \div 2 + 1
  BY <1>1, HalvesApart
<1>3. y \div 2 = (g1 + g2) \div 2 + e
  BY HalfOfShifted
<1>4. x \div 2 \in Int /\ (g1 + g2) \div 2 \in Int /\ d \div 2 \in Int
  BY <1>1
<1>. QED
  BY <1>2, <1>3, <1>4

\* The rolling buffer keeps what it holds, the new sample included, within its
\* capacity.
LEMMA PushSampleKeeps ==
  ASSUME NEW s \in Sample, samples \in Seq(Sample), Len(samples) <= SampleCap
  PROVE  /\ PushSample(s) \in Seq(Sample)
         /\ Len(PushSample(s)) <= SampleCap
         /\ \A i \in DOMAIN PushSample(s) :
              \/ PushSample(s)[i] = s
              \/ \E j \in DOMAIN samples : PushSample(s)[i] = samples[j]
<1>1. SampleCap \in Nat \ {0}
  BY ClockAssumption
<1>2. CASE Len(samples) = SampleCap
  <2>1. samples # <<>> /\ PushSample(s) = Append(Tail(samples), s)
    BY <1>1, <1>2 DEF PushSample
  <2>2. /\ Tail(samples) \in Seq(Sample)
        /\ Len(Tail(samples)) = Len(samples) - 1
        /\ \A i \in 1 .. Len(samples) - 1 : Tail(samples)[i] = samples[i + 1]
    BY <2>1
  <2>3. DOMAIN samples = 1 .. Len(samples) /\ Len(samples) \in Nat
    OBVIOUS
  <2>4. ASSUME NEW i \in DOMAIN PushSample(s)
        PROVE  \/ PushSample(s)[i] = s
               \/ \E j \in DOMAIN samples : PushSample(s)[i] = samples[j]
    <3>1. i \in 1 .. Len(samples)
      BY <2>1, <2>2, <2>3
    <3>2. CASE i = Len(samples)
      BY <2>1, <2>2, <2>3, <3>2
    <3>3. CASE i \in 1 .. Len(samples) - 1
      <4>1. PushSample(s)[i] = samples[i + 1]
        BY <2>1, <2>2, <2>3, <3>3
      <4>2. i + 1 \in DOMAIN samples
        BY <2>3, <3>3
      <4>. QED
        BY <4>1, <4>2
    <3>. QED
      BY <2>3, <3>1, <3>2, <3>3
  <2>. QED
    BY <1>1, <1>2, <2>1, <2>2, <2>3, <2>4
<1>3. CASE Len(samples) # SampleCap
  <2>1. PushSample(s) = Append(samples, s)
    BY <1>3 DEF PushSample
  <2>. QED
    BY <1>1, <1>3, <2>1
<1>. QED
  BY <1>2, <1>3

-----------------------------------------------------------------------------
(***************************************************************************)
(* The inductive invariant.                                                *)
(***************************************************************************)

\* Whatever is on its way keeps the order of the exchange: the guest received
\* after the challenge was sent and answered before now, by the clock of the
\* session that answered.
MessagesTimely ==
  /\ epoch <= now
  /\ \A c \in toGuest :
       /\ 1 <= c.nonce /\ c.nonce <= challenge.nonce /\ c.t0 <= now
       /\ c.nonce = challenge.nonce => c.t0 = challenge.t0
  /\ guest # NotBusy =>
       /\ guest.nonce <= challenge.nonce /\ epoch + guest.g1 <= now
       /\ guest.nonce = challenge.nonce => challenge.t0 <= epoch + guest.g1
  /\ \A r \in toHost :
       /\ r.nonce <= challenge.nonce
       /\ r.nonce = challenge.nonce => challenge.t0 <= r.epoch + r.g1
       /\ r.g1 <= r.g2 /\ r.epoch + r.g2 <= now

\* Every sample is off by at most half its round trip, and one for rounding.
SamplesAccurate ==
  \A i \in DOMAIN samples :
    /\ samples[i].offset - samples[i].epoch <= samples[i].rtt \div 2 + 1
    /\ samples[i].epoch - samples[i].offset <= samples[i].rtt \div 2 + 1

\* The estimate is off by at most its uncertainty from its own session.
EstimateSound ==
  /\ estimate.offset - estimate.epoch <= estimate.uncertainty + 1
  /\ estimate.epoch - estimate.offset <= estimate.uncertainty + 1

ClockInv ==
  /\ ClockTypeOK
  /\ MessagesTimely
  /\ SamplesAccurate
  /\ EstimateSound

\* An accepted answer yields an accurate sample.
LEMMA SampleAccurate ==
  ASSUME ClockInv, NEW r \in toHost, Accepted(challenge, r, now)
  PROVE  LET s == SampleOf(challenge, r, now) IN
         /\ s \in Sample
         /\ s.offset - s.epoch <= s.rtt \div 2 + 1
         /\ s.epoch - s.offset <= s.rtt \div 2 + 1
<1>1. /\ challenge.t0 \in Nat /\ now \in Nat
      /\ r.g1 \in Nat /\ r.g2 \in Nat /\ r.epoch \in Nat
  BY DEF ClockInv, ClockTypeOK, Challenge, Response
<1>2. /\ challenge.t0 <= r.epoch + r.g1 /\ r.g1 <= r.g2
      /\ r.epoch + r.g2 <= now
  BY DEF Accepted, ClockInv, MessagesTimely
<1>3. /\ Midpoint(challenge, r, now) \in Int
      /\ Midpoint(challenge, r, now) - r.epoch
           <= (now - challenge.t0) \div 2 + 1
      /\ r.epoch - Midpoint(challenge, r, now)
           <= (now - challenge.t0) \div 2 + 1
  BY <1>1, <1>2, MidpointAccurate DEF Midpoint
<1>4. now - challenge.t0 \in Nat
  BY <1>1, <1>2
<1>. QED
  BY <1>1, <1>3, <1>4 DEF SampleOf, Sample

\* An accepted exchange renews the samples and the estimate.
LEMMA AcceptPreserves ==
  ASSUME ClockInv, NEW r \in toHost, Accepted(challenge, r, now),
         AcceptResponse(r)
  PROVE  /\ samples' \in Seq(Sample) /\ Len(samples') <= SampleCap
         /\ estimate' \in Estimate
         /\ SamplesAccurate' /\ EstimateSound'
         /\ estimate'.valid_until = now + Validity
<1> DEFINE s == SampleOf(challenge, r, now)
           buf == PushSample(s)
<1>1. /\ s \in Sample
      /\ s.offset - s.epoch <= s.rtt \div 2 + 1
      /\ s.epoch - s.offset <= s.rtt \div 2 + 1
  BY SampleAccurate
<1>2. /\ buf \in Seq(Sample) /\ Len(buf) <= SampleCap
      /\ \A i \in DOMAIN buf :
           buf[i] = s \/ \E j \in DOMAIN samples : buf[i] = samples[j]
  BY <1>1, PushSampleKeeps DEF ClockInv, ClockTypeOK
<1>3. \A i \in DOMAIN buf :
        /\ buf[i] \in Sample
        /\ buf[i].offset - buf[i].epoch <= buf[i].rtt \div 2 + 1
        /\ buf[i].epoch - buf[i].offset <= buf[i].rtt \div 2 + 1
  <2>1. \A i \in DOMAIN buf : buf[i] \in Sample
    BY <1>2
  <2>. HIDE DEF buf, s
  <2>. QED
    BY <1>1, <1>2, <2>1 DEF ClockInv, SamplesAccurate
<1>4. samples' = buf
  BY DEF AcceptResponse
<1>5. SamplesAccurate'
  <2>. HIDE DEF buf
  <2>. QED
    BY <1>3, <1>4 DEF SamplesAccurate
<1>6. PICK b \in DOMAIN buf, lo \in DOMAIN buf, hi \in DOMAIN buf :
        /\ buf[lo].offset <= buf[hi].offset
        /\ estimate' = [offset |-> buf[b].offset,
                        uncertainty |-> Uncertainty(buf, b, lo, hi),
                        valid_until |-> now + Validity,
                        epoch |-> buf[b].epoch]
  BY DEF AcceptResponse
<1>7. /\ buf[b].rtt \in Nat /\ buf[b].offset \in Int /\ buf[b].epoch \in Nat
      /\ buf[hi].offset \in Int /\ buf[lo].offset \in Int
  <2>. HIDE DEF buf
  <2>. QED
    BY <1>3 DEF Sample
<1>8. /\ Uncertainty(buf, b, lo, hi) \in Nat
      /\ Uncertainty(buf, b, lo, hi) >= buf[b].rtt \div 2
  <2>. HIDE DEF buf
  <2>1. (buf[hi].offset - buf[lo].offset) \div 2 \in Nat
    BY <1>6, <1>7
  <2>2. buf[b].rtt \div 2 \in Nat
    BY <1>7
  <2>. QED
    BY <2>1, <2>2 DEF Uncertainty
<1>9. now + Validity \in Int
  BY ClockAssumption DEF ClockInv, ClockTypeOK
<1>10. estimate' \in Estimate /\ estimate'.valid_until = now + Validity
  <2>. HIDE DEF buf
  <2>. QED
    BY <1>6, <1>7, <1>8, <1>9 DEF Estimate
<1>11. EstimateSound'
  <2>. HIDE DEF buf
  <2>1. buf[b].rtt \div 2 \in Nat
    BY <1>7
  <2>. QED
    BY <1>3, <1>6, <1>7, <1>8, <2>1 DEF EstimateSound
<1>. QED
  BY <1>2, <1>4, <1>5, <1>10, <1>11

-----------------------------------------------------------------------------
\* Every step keeps the inductive invariant.
LEMMA ClockInvStep ==
  ASSUME ClockInv, ClockNext
  PROVE  ClockInv'
<1>1. CASE Tick
  <2>1. /\ now' = now + 1
        /\ UNCHANGED <<epoch, restarts, challenge, samples, estimate, failures,
                       toGuest, guest, toHost>>
    BY <1>1 DEF Tick, hostVars
  <2>2. ClockTypeOK'
    BY <2>1 DEF ClockInv, ClockTypeOK
  <2>3. MessagesTimely'
    <3>1. /\ now \in Nat /\ epoch \in Nat
          /\ \A c \in toGuest : c.t0 \in Nat
          /\ guest.g1 \in Nat
          /\ \A r \in toHost : r.epoch \in Nat /\ r.g2 \in Nat
      BY DEF ClockInv, ClockTypeOK, Challenge, Receipt, Response
    <3>. QED
      BY <2>1, <3>1 DEF ClockInv, MessagesTimely
  <2>. QED
    BY <2>1, <2>2, <2>3 DEF ClockInv, SamplesAccurate, EstimateSound
<1>2. CASE SendChallenge
  <2>1. /\ challenge' = [nonce |-> challenge.nonce + 1, t0 |-> now]
        /\ toGuest' = toGuest \cup {challenge'}
        /\ UNCHANGED <<now, epoch, restarts, samples, estimate, failures,
                       guest, toHost>>
    BY <1>2 DEF SendChallenge
  <2>2. /\ challenge.nonce \in Nat /\ now \in Nat
        /\ \A c \in toGuest : c.nonce \in Nat
        /\ guest.nonce \in Nat
        /\ \A r \in toHost : r.nonce \in Nat
    BY DEF ClockInv, ClockTypeOK, Challenge, Receipt, Response
  <2>3. ClockTypeOK'
    BY <2>1, <2>2 DEF ClockInv, ClockTypeOK, Challenge
  <2>4. MessagesTimely'
    BY <2>1, <2>2 DEF ClockInv, MessagesTimely
  <2>. QED
    BY <2>1, <2>3, <2>4 DEF ClockInv, SamplesAccurate, EstimateSound
<1>3. CASE \E c \in toGuest : GuestReceives(c)
  <2>1. PICK c \in toGuest :
          /\ guest' = [nonce |-> c.nonce, g1 |-> now - epoch]
          /\ UNCHANGED <<now, epoch, restarts, challenge, samples, estimate,
                         failures, toGuest, toHost>>
    BY <1>3 DEF GuestReceives, hostVars
  <2>2. /\ c.nonce \in Nat /\ c.t0 \in Nat /\ now \in Nat /\ epoch \in Nat
        /\ epoch <= now /\ now - epoch \in Nat
    BY DEF ClockInv, ClockTypeOK, Challenge, MessagesTimely
  <2>3. ClockTypeOK'
    BY <2>1, <2>2 DEF ClockInv, ClockTypeOK, Receipt
  <2>4. MessagesTimely'
    BY <2>1, <2>2 DEF ClockInv, MessagesTimely
  <2>. QED
    BY <2>1, <2>3, <2>4 DEF ClockInv, SamplesAccurate, EstimateSound
<1>4. CASE GuestAnswers
  <2> DEFINE r == [nonce |-> guest.nonce, g1 |-> guest.g1, g2 |-> now - epoch,
                   epoch |-> epoch]
  <2>1. /\ guest # NotBusy /\ guest' = NotBusy
        /\ toHost' = toHost \cup {r}
        /\ UNCHANGED <<now, epoch, restarts, challenge, samples, estimate,
                       failures, toGuest>>
    BY <1>4 DEF GuestAnswers, hostVars
  <2>2. /\ guest.nonce \in Nat /\ guest.g1 \in Nat
        /\ now \in Nat /\ epoch \in Nat /\ epoch <= now /\ now - epoch \in Nat
    BY DEF ClockInv, ClockTypeOK, Receipt, MessagesTimely
  <2>3. ClockTypeOK'
    BY <2>1, <2>2 DEF ClockInv, ClockTypeOK, Receipt, Response, NotBusy
  <2>4. /\ r.nonce <= challenge.nonce
        /\ r.nonce = challenge.nonce => challenge.t0 <= r.epoch + r.g1
        /\ r.g1 <= r.g2 /\ r.epoch + r.g2 <= now
    BY <2>1, <2>2 DEF ClockInv, MessagesTimely
  <2>5. MessagesTimely'
    <3>. HIDE DEF r
    <3>. QED
      BY <2>1, <2>4 DEF ClockInv, MessagesTimely
  <2>. QED
    BY <2>1, <2>3, <2>5 DEF ClockInv, SamplesAccurate, EstimateSound
<1>5. CASE \E r \in toHost : HostReceives(r)
  <2>1. PICK r \in toHost : HostReceives(r)
    BY <1>5
  <2>2. UNCHANGED <<now, epoch, restarts, challenge, toGuest, guest, toHost>>
    BY <2>1 DEF HostReceives
  <2>3. MessagesTimely'
    BY <2>2 DEF ClockInv, MessagesTimely
  <2>4. CASE Accepted(challenge, r, now) /\ AcceptResponse(r)
    <3>1. /\ samples' \in Seq(Sample) /\ Len(samples') <= SampleCap
          /\ estimate' \in Estimate
          /\ SamplesAccurate' /\ EstimateSound'
      BY <2>4, AcceptPreserves
    <3>2. failures' \in 0 .. FailureLimit
      BY <2>4, ClockAssumption DEF AcceptResponse
    <3>3. ClockTypeOK'
      BY <2>2, <3>1, <3>2 DEF ClockInv, ClockTypeOK
    <3>. QED
      BY <2>3, <3>1, <3>3 DEF ClockInv
  <2>5. CASE RejectResponse
    <3>1. failures' \in 0 .. FailureLimit /\ UNCHANGED <<samples, estimate>>
      BY <2>5, ClockAssumption DEF RejectResponse, ClockInv, ClockTypeOK
    <3>. QED
      BY <2>2, <2>3, <3>1
      DEF ClockInv, ClockTypeOK, SamplesAccurate, EstimateSound
  <2>. QED
    BY <2>1, <2>4, <2>5 DEF HostReceives
<1>6. CASE GuestRestarts
  <2>1. /\ restarts' = restarts + 1 /\ epoch' = now /\ guest' = NotBusy
        /\ UNCHANGED <<now, challenge, samples, estimate, failures, toGuest,
                       toHost>>
    BY <1>6 DEF GuestRestarts, hostVars
  <2>2. ClockTypeOK'
    BY <2>1 DEF ClockInv, ClockTypeOK, Receipt, NotBusy
  <2>3. MessagesTimely'
    BY <2>1 DEF ClockInv, ClockTypeOK, MessagesTimely
  <2>. QED
    BY <2>1, <2>2, <2>3 DEF ClockInv, SamplesAccurate, EstimateSound
<1>. QED
  BY <1>1, <1>2, <1>3, <1>4, <1>5, <1>6 DEF ClockNext, ExchangeNext

LEMMA ClockInitially == ClockInit => ClockInv
<1>. SUFFICES ASSUME ClockInit PROVE ClockInv
  OBVIOUS
<1>1. ClockTypeOK
  BY ClockAssumption
  DEF ClockInit, ClockTypeOK, NoChallenge, NotBusy, NoEstimate, Challenge,
      Receipt, Estimate
<1>2. MessagesTimely /\ SamplesAccurate /\ EstimateSound
  BY DEF ClockInit, MessagesTimely, SamplesAccurate, EstimateSound, NoEstimate
<1>. QED
  BY <1>1, <1>2 DEF ClockInv

LEMMA ClockUnchanged ==
  ASSUME ClockInv, UNCHANGED clockVars
  PROVE  ClockInv'
BY DEF clockVars, hostVars, ClockInv, ClockTypeOK, MessagesTimely,
       SamplesAccurate, EstimateSound

\* The inductive invariant holds of every behaviour.
LEMMA ClockInvariant == ClockSpec => []ClockInv
BY ClockInitially, ClockUnchanged, ClockInvStep, PTL DEF ClockSpec

\* The synchronizer's state keeps its type; in particular the buffer stays
\* within its capacity and no reading of a guest clock is negative.
THEOREM ClockTypeCorrect == ClockSpec => []ClockTypeOK
<1>1. ClockInv => ClockTypeOK
  BY DEF ClockInv
<1>. QED
  BY <1>1, ClockInvariant, PTL

\* Over a channel that loses, delays, duplicates and reorders, and with guests
\* that restart, the estimate is off by no more than its uncertainty and one for
\* rounding as long as its session lasts.
THEOREM EstimateIsAccurate == ClockSpec => []EstimateAccurate
<1>1. ClockInv => EstimateAccurate
  BY DEF ClockInv, EstimateSound, EstimateAccurate
<1>. QED
  BY <1>1, ClockInvariant, PTL

\* An estimate that is stale, too vague or voided by failures is revived by an
\* accepted exchange only.
THEOREM RevivedOnlyByAcceptance == ClockSpec => ValidOnlyByAcceptance
<1> DEFINE Revived == ~ValidAt(estimate, failures, now)
                        /\ ValidAt(estimate, failures, now)'
<1>1. ASSUME ClockInv, [ClockNext]_clockVars
      PROVE  Revived => estimate'.valid_until = now + Validity
  <2>1. /\ now \in Nat /\ failures \in Int /\ FailureLimit \in Nat
        /\ estimate.valid_until \in Int
    BY <1>1, ClockAssumption DEF ClockInv, ClockTypeOK, Estimate
  <2>2. CASE /\ estimate' = estimate
             /\ now' = now \/ now' = now + 1
             /\ failures' = failures \/ failures' = failures + 1
    BY <2>1, <2>2 DEF ValidAt
  <2>3. CASE \E r \in toHost : HostReceives(r)
    <3>1. PICK r \in toHost : HostReceives(r)
      BY <2>3
    <3>2. CASE Accepted(challenge, r, now) /\ AcceptResponse(r)
      BY <1>1, <3>2, AcceptPreserves
    <3>3. CASE RejectResponse
      BY <2>2, <3>1, <3>3 DEF RejectResponse, HostReceives
    <3>. QED
      BY <3>1, <3>2, <3>3 DEF HostReceives
  <2>4. CASE \/ UNCHANGED clockVars \/ Tick \/ SendChallenge \/ GuestAnswers
             \/ GuestRestarts \/ \E c \in toGuest : GuestReceives(c)
    BY <2>2, <2>4 DEF clockVars, hostVars, Tick, SendChallenge, GuestAnswers,
                      GuestRestarts, GuestReceives
  <2>. QED
    BY <1>1, <2>3, <2>4 DEF ClockNext, ExchangeNext
<1>. QED
  BY <1>1, ClockInvariant, PTL DEF ClockSpec, ValidOnlyByAcceptance

-----------------------------------------------------------------------------
(***************************************************************************)
(* Attribution.                                                            *)
(***************************************************************************)

HostEvents == [id: Nat, ts: Nat, path: WindowsPaths]

GuestWritten == [id: Nat, pid: GuestPids, path: GuestPaths, at: Nat]

GuestRecords ==
  [id: Nat, pid: GuestPids, path: GuestPaths, ts: Nat, at: Nat, epoch: Nat]

\* When r was stamped, by the host clock, if the two clocks of its agent were
\* d apart.
StampedAt(r, d) == r.ts + r.epoch + d

\* A record was stamped by a clock that started at most MaxOrigin after its
\* session, and at most MaxLag after the write.
StampedTimely(r) ==
  \E d \in 0 .. MaxOrigin :
    /\ StampedAt(r, d) \in r.at .. r.at + MaxLag
    /\ StampedAt(r, d) <= MaxTime

\* The event that belongs to a write is of its path and its time; w is a write
\* that the agent does not know of yet, or a record.
SameWrite(e, w) == e.id = w.id => e.ts = w.at /\ e.path = WinPath[w.path]

\* What is known of a write by a guest, audited or not.  Writes are numbered, so
\* that an event with the number of a write is its own.
KnownWrite(w) ==
  /\ w.at <= now /\ w.id <= writes
  /\ \A e \in etw : SameWrite(e, w)
  /\ \A i \in DOMAIN host_events : SameWrite(host_events[i], w)

CorrelatorInv ==
  /\ now <= MaxTime /\ writes \in Nat
  /\ origin \in epoch .. epoch + MaxOrigin
  /\ etw \subseteq HostEvents /\ records \subseteq GuestRecords
  /\ unaudited \subseteq GuestWritten
  /\ host_events \in Seq(HostEvents)
  /\ \A e \in etw : e.ts <= now /\ e.id <= writes
  /\ \A i \in DOMAIN host_events :
       host_events[i].ts <= now /\ host_events[i].id <= writes
  /\ \A w \in unaudited : KnownWrite(w)
  /\ \A r \in records : KnownWrite(r) /\ StampedTimely(r) /\ Framed(r)

\* A new write has a number of its own, so that what is known of the others
\* stays true.
LEMMA FileWrittenKeeps ==
  ASSUME ClockInv, CorrelatorInv, NEW path \in WindowsPaths, FileWritten(path),
         UNCHANGED <<now, host_events>>
  PROVE  LET new == HostEvent(writes + 1, now, path) IN
         /\ writes' = writes + 1 /\ writes' \in Nat /\ writes \in Nat
         /\ etw' = etw \cup {new} /\ etw' \subseteq HostEvents
         /\ \A e \in etw' : e.ts <= now /\ e.id <= writes'
         /\ \A i \in DOMAIN host_events :
              /\ host_events[i].ts <= now /\ host_events[i].id <= writes'
              /\ host_events[i].id # writes'
         /\ \A e \in etw : e.id # writes'
         /\ \A w \in unaudited \cup records : KnownWrite(w)'
         /\ new.id = writes' /\ new.ts = now /\ new.path = path
<1>. DEFINE new == HostEvent(writes + 1, now, path)
<1>1. /\ writes \in Nat /\ now \in Nat /\ etw \subseteq HostEvents
      /\ unaudited \subseteq GuestWritten
      /\ records \subseteq GuestRecords /\ host_events \in Seq(HostEvents)
  BY DEF CorrelatorInv, ClockInv, ClockTypeOK
<1>2. writes' = writes + 1 /\ etw' = etw \cup {new}
  BY DEF FileWritten
<1>3. new \in HostEvents /\ new.id = writes + 1 /\ new.ts = now /\ new.path = path
  BY <1>1 DEF HostEvent, HostEvents
<1>. HIDE DEF new
<1>4. /\ \A e \in HostEvents : e.id \in Nat /\ e.ts \in Nat
      /\ \A r \in GuestRecords : r.id \in Nat
      /\ \A w \in GuestWritten : w.id \in Nat
  BY DEF HostEvents, GuestRecords, GuestWritten
<1>5. ASSUME NEW e \in etw
      PROVE  e.ts <= now /\ e.id <= writes + 1 /\ e.id # writes + 1
  BY <1>1, <1>4 DEF CorrelatorInv
<1>6. ASSUME NEW i \in DOMAIN host_events
      PROVE  /\ host_events[i].ts <= now /\ host_events[i].id <= writes + 1
             /\ host_events[i].id # writes + 1
  <2>1. host_events[i] \in HostEvents
    BY <1>1
  <2>2. host_events[i].ts <= now /\ host_events[i].id <= writes
    BY DEF CorrelatorInv
  <2>. QED
    BY <1>1, <1>4, <2>1, <2>2
<1>7. ASSUME NEW w \in unaudited \cup records
      PROVE  KnownWrite(w)'
  <2>1. w.id \in Nat /\ KnownWrite(w)
    BY <1>1, <1>4 DEF CorrelatorInv
  <2>2. w.id # new.id /\ w.id <= writes + 1
    BY <1>1, <1>3, <2>1 DEF KnownWrite
  <2>3. SameWrite(new, w)
    BY <2>2 DEF SameWrite
  <2>4. \A e : SameWrite(e, w)' <=> SameWrite(e, w)
    BY DEF SameWrite
  <2>5. \A e \in etw' : SameWrite(e, w)
    BY <1>2, <2>1, <2>3 DEF KnownWrite
  <2>. QED
    BY <1>2, <2>1, <2>2, <2>5 DEF KnownWrite, SameWrite
<1>8. writes + 1 \in Nat /\ now <= now
  BY <1>1
<1>9. \A e \in etw' : e.ts <= now /\ e.id <= writes'
  BY <1>1, <1>2, <1>3, <1>5
<1>10. etw' \subseteq HostEvents
  BY <1>1, <1>2, <1>3
<1>. QED
  BY <1>1, <1>2, <1>3, <1>5, <1>6, <1>7, <1>8, <1>9, <1>10 DEF new

\* Time passes or messages of the clock exchange travel.
LEMMA ExchangeKeeps ==
  ASSUME ClockInv, CorrelatorInv, UNCHANGED <<epoch, corrVars>>,
         now' = now \/ (now' = now + 1 /\ now < MaxTime)
  PROVE  CorrelatorInv'
<1>1. UNCHANGED <<epoch, origin, writes, unaudited, etw, records, host_events>>
  BY DEF corrVars
<1>2. /\ now \in Nat /\ etw \subseteq HostEvents
      /\ unaudited \subseteq GuestWritten
      /\ records \subseteq GuestRecords /\ host_events \in Seq(HostEvents)
  BY DEF CorrelatorInv, ClockInv, ClockTypeOK
<1>3. /\ \A e \in HostEvents : e.ts \in Nat
      /\ \A r \in GuestRecords : r.at \in Nat
      /\ \A w \in GuestWritten : w.at \in Nat
  BY DEF HostEvents, GuestRecords, GuestWritten
<1>4. now' <= MaxTime /\ now' \in Nat /\ \A n \in Nat : n <= now => n <= now'
  BY <1>2, ClockAssumption DEF CorrelatorInv
<1>5. \A e \in etw : e.ts <= now'
  BY <1>2, <1>3, <1>4 DEF CorrelatorInv
<1>6. \A i \in DOMAIN host_events : host_events[i].ts <= now'
  <2>1. TAKE i \in DOMAIN host_events
  <2>2. host_events[i] \in HostEvents /\ host_events[i].ts <= now
    BY <1>2 DEF CorrelatorInv
  <2>. QED
    BY <1>3, <1>4, <2>2
<1>7. ASSUME NEW w \in unaudited \cup records
      PROVE  KnownWrite(w)'
  <2>1. w.at \in Nat /\ KnownWrite(w)
    BY <1>2, <1>3 DEF CorrelatorInv
  <2>. QED
    BY <1>1, <1>4, <2>1 DEF KnownWrite, SameWrite
<1>8. \A r \in records : StampedTimely(r)'
  BY <1>1 DEF CorrelatorInv, StampedTimely, StampedAt
<1>9. origin' \in epoch' .. epoch' + MaxOrigin
  BY <1>1 DEF CorrelatorInv
<1>10. \A r \in records : Framed(r)'
  BY DEF CorrelatorInv, Framed
<1>. QED
  BY <1>1, <1>4, <1>5, <1>6, <1>7, <1>8, <1>9, <1>10 DEF CorrelatorInv

\* The agent stamps a write and lets its record pass.
LEMMA RecordOperationKeeps ==
  ASSUME ClockInv, CorrelatorInv, NEW w \in unaudited, RecordOperation(w)
  PROVE  CorrelatorInv'
<1>. DEFINE r == [id |-> w.id, pid |-> w.pid, path |-> w.path,
                  ts |-> now - origin, at |-> w.at, epoch |-> epoch]
            d == origin - epoch
<1>1. /\ now >= origin /\ now <= w.at + MaxLag
      /\ unaudited' = unaudited \ {w}
      /\ records' = IF Framed(r) THEN records \cup {r} ELSE records
      /\ UNCHANGED <<now, epoch, origin, writes, etw, host_events>>
  BY DEF RecordOperation, clockVars
<1>2. /\ now \in Nat /\ epoch \in Nat /\ MaxOrigin \in Nat /\ MaxLag \in Nat
      /\ origin \in epoch .. epoch + MaxOrigin /\ now <= MaxTime
      /\ w \in GuestWritten /\ records \subseteq GuestRecords
      /\ KnownWrite(w) /\ MaxTime \in Nat
  BY CorrelatorAssumption, ClockAssumption
  DEF CorrelatorInv, ClockInv, ClockTypeOK
<1>3. /\ w.id \in Nat /\ w.pid \in GuestPids /\ w.path \in GuestPaths
      /\ w.at \in Nat /\ w.at <= now
  BY <1>2 DEF GuestWritten, KnownWrite
<1>4. r \in GuestRecords
  BY <1>1, <1>2, <1>3 DEF GuestRecords
<1>5. /\ d \in 0 .. MaxOrigin /\ StampedAt(r, d) = now
      /\ StampedAt(r, d) \in r.at .. r.at + MaxLag
  BY <1>1, <1>2, <1>3 DEF StampedAt
<1>6. StampedTimely(r)
  BY <1>2, <1>5 DEF StampedTimely
<1>7. r.id = w.id /\ r.at = w.at /\ r.path = w.path
  OBVIOUS
<1>. HIDE DEF r, d
<1>8. KnownWrite(r)
  BY <1>2, <1>7 DEF KnownWrite, SameWrite
<1>9. ASSUME NEW q \in records'
      PROVE  q \in GuestRecords /\ KnownWrite(q) /\ StampedTimely(q) /\ Framed(q)
  <2>1. CASE q \in records
    BY <1>2, <2>1 DEF CorrelatorInv
  <2>2. CASE q = r /\ Framed(r)
    BY <1>4, <1>6, <1>8, <2>2
  <2>. QED
    BY <1>1, <2>1, <2>2
<1>10. \A q : /\ KnownWrite(q) => KnownWrite(q)'
              /\ StampedTimely(q) => StampedTimely(q)'
              /\ Framed(q) => Framed(q)'
  BY <1>1 DEF KnownWrite, SameWrite, StampedTimely, StampedAt, Framed
<1>11. records' \subseteq GuestRecords
  BY <1>9
<1>12. \A q \in records' : KnownWrite(q)' /\ StampedTimely(q)' /\ Framed(q)'
  BY <1>9, <1>10
<1>13. unaudited' \subseteq GuestWritten /\ \A q \in unaudited' : KnownWrite(q)'
  BY <1>1, <1>10 DEF CorrelatorInv
<1>. QED
  BY <1>1, <1>11, <1>12, <1>13 DEF CorrelatorInv

LEMMA CorrelatorStep ==
  ASSUME ClockInv, CorrelatorInv, [Next]_vars
  PROVE  CorrelatorInv'
<1>1. /\ writes \in Nat /\ now \in Nat /\ epoch \in Nat /\ epoch <= now
      /\ now <= MaxTime /\ etw \subseteq HostEvents
      /\ unaudited \subseteq GuestWritten
      /\ records \subseteq GuestRecords /\ host_events \in Seq(HostEvents)
  BY DEF CorrelatorInv, ClockInv, ClockTypeOK, MessagesTimely
<1>2. \A q : /\ StampedTimely(q) => StampedTimely(q)'
             /\ Framed(q) => Framed(q)'
  BY DEF StampedTimely, StampedAt, Framed
<1>3. ASSUME NEW path \in WindowsPaths, HostWrites(path)
      PROVE  CorrelatorInv'
  <2>1. /\ UNCHANGED <<now, epoch, origin, unaudited, host_events, records>>
        /\ FileWritten(path)
    BY <1>3 DEF HostWrites, clockVars
  <2>2. /\ writes' \in Nat /\ etw' \subseteq HostEvents
        /\ \A e \in etw' : e.ts <= now /\ e.id <= writes'
        /\ \A i \in DOMAIN host_events :
             host_events[i].ts <= now /\ host_events[i].id <= writes'
        /\ \A w \in unaudited \cup records : KnownWrite(w)'
    BY <2>1, FileWrittenKeeps
  <2>. QED
    BY <1>2, <2>1, <2>2 DEF CorrelatorInv
<1>4. ASSUME NEW pid \in GuestPids, NEW path \in GuestPaths,
             GuestWrites(pid, path)
      PROVE  CorrelatorInv'
  <2>. DEFINE w == [id |-> writes', pid |-> pid, path |-> path, at |-> now]
              new == HostEvent(writes + 1, now, WinPath[path])
  <2>1. /\ UNCHANGED <<now, epoch, origin, host_events, records>>
        /\ FileWritten(WinPath[path]) /\ unaudited' = unaudited \cup {w}
    BY <1>4 DEF GuestWrites, clockVars
  <2>2. WinPath[path] \in WindowsPaths
    BY CorrelatorAssumption
  <2>3. /\ writes' \in Nat /\ etw' = etw \cup {new} /\ etw' \subseteq HostEvents
        /\ \A e \in etw' : e.ts <= now /\ e.id <= writes'
        /\ \A i \in DOMAIN host_events :
             /\ host_events[i].ts <= now /\ host_events[i].id <= writes'
             /\ host_events[i].id # writes'
        /\ \A e \in etw : e.id # writes'
        /\ \A q \in unaudited \cup records : KnownWrite(q)'
        /\ new.ts = now /\ new.path = WinPath[path]
    BY <2>1, <2>2, FileWrittenKeeps
  <2>4. /\ w \in GuestWritten /\ w.id = writes' /\ w.at = now /\ w.path = path
    BY <1>1, <2>3 DEF GuestWritten
  <2>. HIDE DEF w, new
  <2>5. ASSUME NEW q, q = w
        PROVE  KnownWrite(q)'
    <3>1. /\ \A e \in etw' : SameWrite(e, q)
          /\ \A i \in DOMAIN host_events : SameWrite(host_events[i], q)
      BY <2>3, <2>4, <2>5 DEF SameWrite
    <3>2. q.at <= now /\ q.id <= writes'
      BY <1>1, <2>3, <2>4, <2>5
    <3>. QED
      BY <2>1, <3>1, <3>2 DEF KnownWrite, SameWrite
  <2>6. unaudited' \subseteq GuestWritten
    BY <1>1, <2>1, <2>4
  <2>7. \A q \in unaudited' : KnownWrite(q)'
    BY <2>1, <2>3, <2>5
  <2>. QED
    BY <1>2, <2>1, <2>3, <2>6, <2>7 DEF CorrelatorInv
<1>5. ASSUME NEW e \in etw, RecordHostEvent(e)
      PROVE  CorrelatorInv'
  <2>. DEFINE pushed == Append(host_events, e)
  <2>1. /\ etw' = etw \ {e}
        /\ UNCHANGED <<now, epoch, origin, writes, unaudited, records>>
        /\ host_events' = IF Len(pushed) > EventCap THEN Tail(pushed) ELSE pushed
    BY <1>5 DEF RecordHostEvent, clockVars
  <2>2. e \in HostEvents
    BY <1>1
  <2>3. /\ pushed \in Seq(HostEvents) /\ pushed # <<>>
        /\ \A i \in DOMAIN pushed :
             \/ pushed[i] = e
             \/ \E j \in DOMAIN host_events : pushed[i] = host_events[j]
    <3>1. /\ Len(host_events) \in Nat /\ pushed \in Seq(HostEvents)
          /\ DOMAIN host_events = 1 .. Len(host_events) /\ pushed # <<>>
          /\ DOMAIN pushed = 1 .. Len(host_events) + 1
          /\ pushed[Len(host_events) + 1] = e
          /\ \A i \in 1 .. Len(host_events) : pushed[i] = host_events[i]
      BY <1>1, <2>2
    <3>. HIDE DEF pushed
    <3>2. ASSUME NEW i \in DOMAIN pushed
          PROVE  i = Len(host_events) + 1 \/ i \in DOMAIN host_events
      BY <3>1
    <3>. QED
      BY <3>1, <3>2
  <2>. HIDE DEF pushed
  <2>4. /\ Tail(pushed) \in Seq(HostEvents)
        /\ \A i \in DOMAIN Tail(pushed) :
             \E j \in DOMAIN pushed : Tail(pushed)[i] = pushed[j]
    <3>1. /\ Tail(pushed) \in Seq(HostEvents) /\ Len(pushed) \in Nat
          /\ DOMAIN pushed = 1 .. Len(pushed)
          /\ DOMAIN Tail(pushed) = 1 .. Len(pushed) - 1
          /\ \A i \in 1 .. Len(pushed) - 1 : Tail(pushed)[i] = pushed[i + 1]
      BY <2>3
    <3>2. \A i \in 1 .. Len(pushed) - 1 : i + 1 \in 1 .. Len(pushed)
      BY <3>1
    <3>. QED
      BY <3>1, <3>2
  <2>5. /\ host_events' \in Seq(HostEvents)
        /\ \A i \in DOMAIN host_events' :
             \/ host_events'[i] = e
             \/ \E j \in DOMAIN host_events : host_events'[i] = host_events[j]
    <3>1. CASE Len(pushed) > EventCap
      BY <2>1, <2>3, <2>4, <3>1
    <3>2. CASE ~(Len(pushed) > EventCap)
      BY <2>1, <2>3, <3>2
    <3>. QED
      BY <3>1, <3>2
  <2>6. \A i \in DOMAIN host_events' :
          host_events'[i].ts <= now /\ host_events'[i].id <= writes
    BY <1>5, <2>5 DEF CorrelatorInv
  <2>7. ASSUME NEW w \in unaudited \cup records
        PROVE  KnownWrite(w)'
    <3>1. KnownWrite(w)
      BY DEF CorrelatorInv
    <3>2. \A i \in DOMAIN host_events' : SameWrite(host_events'[i], w)
      BY <1>5, <2>5, <3>1 DEF KnownWrite
    <3>. QED
      BY <2>1, <3>1, <3>2 DEF KnownWrite, SameWrite
  <2>. QED
    BY <1>2, <2>1, <2>5, <2>6, <2>7 DEF CorrelatorInv
<1>6. ASSUME NEW r \in records, CorrelateGuestRecord(r)
      PROVE  CorrelatorInv'
  <2>1. /\ records' = records \ {r}
        /\ UNCHANGED <<now, epoch, origin, writes, unaudited, etw, host_events>>
    BY <1>6 DEF CorrelateGuestRecord, clockVars
  <2>2. \A q : KnownWrite(q) => KnownWrite(q)'
    BY <2>1 DEF KnownWrite, SameWrite
  <2>. QED
    BY <1>2, <2>1, <2>2 DEF CorrelatorInv
<1>7. ASSUME NEW w \in unaudited, RecordOperation(w)
      PROVE  CorrelatorInv'
  BY <1>7, RecordOperationKeeps
<1>8. CASE ExchangeNext /\ UNCHANGED corrVars
  <2>1. /\ UNCHANGED epoch
        /\ UNCHANGED now \/ (now' = now + 1 /\ now < MaxTime)
    BY <1>8 DEF ExchangeNext, Tick, SendChallenge, GuestReceives, GuestAnswers,
                HostReceives
  <2>. QED
    BY <1>8, <2>1, ExchangeKeeps
<1>9. CASE AgentRestarts
  <2>1. /\ epoch' = now /\ origin' \in now .. now + MaxOrigin
        /\ UNCHANGED <<now, writes, unaudited, etw, records, host_events>>
    BY <1>9 DEF AgentRestarts, GuestRestarts
  <2>2. \A q : KnownWrite(q) => KnownWrite(q)'
    BY <2>1 DEF KnownWrite, SameWrite
  <2>. QED
    BY <1>2, <2>1, <2>2 DEF CorrelatorInv
<1>10. CASE UNCHANGED vars
  <2>1. UNCHANGED <<epoch, corrVars>> /\ now' = now
    BY <1>10 DEF vars, clockVars
  <2>. QED
    BY <2>1, ExchangeKeeps
<1>. QED
  BY <1>3, <1>4, <1>5, <1>6, <1>7, <1>8, <1>9, <1>10 DEF Next

LEMMA CorrelatorInvariant == Spec => [](ClockInv /\ CorrelatorInv)
<1>1. Init => ClockInv /\ CorrelatorInv
  <2>. SUFFICES ASSUME Init PROVE ClockInv /\ CorrelatorInv
    OBVIOUS
  <2>1. ClockInv
    BY ClockInitially DEF Init
  <2>2. /\ now = 0 /\ writes = 0 /\ etw = {} /\ records = {} /\ unaudited = {}
        /\ host_events = <<>> /\ epoch = 0 /\ origin \in 0 .. MaxOrigin
    BY DEF Init, ClockInit
  <2>3. <<>> \in Seq(HostEvents) /\ DOMAIN <<>> = {}
    OBVIOUS
  <2>4. CorrelatorInv
    BY <2>2, <2>3, ClockAssumption, CorrelatorAssumption DEF CorrelatorInv
  <2>. QED
    BY <2>1, <2>4
<1>2. ASSUME ClockInv, [Next]_vars
      PROVE  ClockInv'
  <2>1. ClockNext \/ UNCHANGED clockVars
    BY <1>2 DEF Next, vars, GuestWrites, HostWrites, RecordHostEvent,
                CorrelateGuestRecord, RecordOperation, AgentRestarts, ClockNext
  <2>. QED
    BY <1>2, <2>1, ClockInvStep, ClockUnchanged
<1>. QED
  BY <1>1, <1>2, CorrelatorStep, PTL DEF Spec

\* The host translates the plain path of a framed record to that of the file.
LEMMA TranslationLeadsThere ==
  ASSUME NEW r, r.path \in PlainPaths, Framed(r)
  PROVE  Translate(r.path) = WinPath[r.path]
<1>1. IsNormalized(r.path)
  BY DEF Framed
<1>. QED
  BY <1>1, PlainAssumption DEF IsNormalized, Translate

\* A valid estimate of the record's session moves its timestamp to the time of
\* the write, but for the uncertainty, the rounding and the skew, which the
\* agent's lag and the distance of its two clocks bound; before the cast.
LEMMA MovedToHostClock ==
  ASSUME ClockInv, CorrelatorInv, NEW r \in records,
         ValidAt(estimate, failures, now), r.epoch = estimate.epoch
  PROVE  LET t == r.ts + estimate.offset IN
         /\ r.at \in Nat /\ t \in Int /\ estimate.uncertainty \in Nat
         /\ Skew(r) \in Int /\ Skew(r) <= MaxLag /\ -Skew(r) <= MaxOrigin
         /\ t - r.at - Skew(r) <= estimate.uncertainty + 1
         /\ r.at + Skew(r) - t <= estimate.uncertainty + 1
         /\ t <= MaxTime + estimate.uncertainty + 1
         /\ estimate.uncertainty <= MaxUncertainty
<1>1. /\ estimate.offset \in Int /\ estimate.epoch \in Nat
      /\ estimate.uncertainty \in Nat
  BY DEF ClockInv, ClockTypeOK, Estimate
<1>2. r \in GuestRecords /\ StampedTimely(r)
  BY DEF CorrelatorInv
<1>3. r.ts \in Nat /\ r.epoch \in Nat /\ r.at \in Nat
  BY <1>2 DEF GuestRecords
<1>4. PICK d \in 0 .. MaxOrigin :
        /\ r.ts + r.epoch + d \in r.at .. r.at + MaxLag
        /\ r.ts + r.epoch + d <= MaxTime
  BY <1>2 DEF StampedTimely, StampedAt
<1>5. /\ estimate.offset - estimate.epoch <= estimate.uncertainty + 1
      /\ estimate.epoch - estimate.offset <= estimate.uncertainty + 1
  BY DEF ClockInv, EstimateSound
<1>6. /\ estimate.uncertainty <= MaxUncertainty
      /\ MaxLag \in Nat /\ MaxOrigin \in Nat /\ MaxTime \in Nat
  BY CorrelatorAssumption, ClockAssumption DEF ValidAt
<1>. QED
  BY <1>1, <1>3, <1>4, <1>5, <1>6 DEF Skew

\* The cast: a time below zero comes out beyond every host event's window.
LEMMA CastAdjusted ==
  ASSUME NEW t \in Int, NEW u \in Nat, u <= MaxUncertainty,
         -t <= u + 1 + MaxOrigin, t <= MaxTime + u + 1
  PROVE  /\ t % U64 \in Nat
         /\ t >= 0 => t % U64 = t
         /\ t < 0 => t % U64 > MaxTime + Window
<1>1. /\ U64 \in Nat \ {0} /\ MaxTime \in Nat /\ Window \in Nat
      /\ MaxUncertainty \in Nat /\ MaxOrigin \in Nat
      /\ MaxTime + Window + MaxUncertainty + MaxOrigin + 1 < U64
  BY CorrelatorAssumption, ClockAssumption
<1>2. CASE t >= 0
  BY <1>1, <1>2
<1>3. CASE t < 0
  <2>1. t + U64 \in 0 .. U64 - 1 /\ t + U64 > MaxTime + Window
    BY <1>1, <1>3
  <2>2. t % U64 = t + U64
    BY <1>1, <2>1
  <2>. QED
    BY <1>1, <1>3, <2>1, <2>2
<1>. QED
  BY <1>2, <1>3

\* High confidence rests on events near the write and, on a plain path, on the
\* file that was written, for any interleaving of writes, audits, deliveries,
\* clock exchanges and restarts of the guest, as long as the record and the
\* estimate are of one session (correlate_guest_record).
THEOREM HighIsNearby == Spec => []HighMeansNearby
<1>1. ASSUME ClockInv, CorrelatorInv, NEW r \in records,
             ConfidenceOf(r) = "High", r.epoch = estimate.epoch,
             NEW i \in Matches(r)
      PROVE  /\ r.path \in PlainPaths => host_events[i].path = WinPath[r.path]
             /\ host_events[i].ts - r.at - Skew(r)
                  <= Window + estimate.uncertainty + 1
             /\ r.at + Skew(r) - host_events[i].ts
                  <= Window + estimate.uncertainty + 1
  <2>. DEFINE t == r.ts + estimate.offset
              h == host_events[i].ts
              u == estimate.uncertainty
  <2>1. ValidAt(estimate, failures, now)
    BY <1>1 DEF ConfidenceOf
  <2>2. /\ i \in DOMAIN host_events /\ host_events[i].path = Translate(r.path)
        /\ h - (t % U64) <= Window /\ (t % U64) - h <= Window
    BY DEF Matches, Adjusted
  <2>3. /\ r.at \in Nat /\ t \in Int /\ u \in Nat /\ Skew(r) \in Int
        /\ -Skew(r) <= MaxOrigin
        /\ t - r.at - Skew(r) <= u + 1 /\ r.at + Skew(r) - t <= u + 1
        /\ t <= MaxTime + u + 1 /\ u <= MaxUncertainty
    BY <1>1, <2>1, MovedToHostClock
  <2>4. host_events[i] \in HostEvents /\ h <= now /\ now <= MaxTime
    BY <1>1, <2>2 DEF CorrelatorInv
  <2>5. /\ h \in Nat /\ now \in Nat /\ MaxTime \in Nat /\ Window \in Nat
        /\ MaxOrigin \in Nat
    BY <1>1, <2>4, ClockAssumption, CorrelatorAssumption
    DEF HostEvents, ClockInv, ClockTypeOK
  <2>6. r.path \in PlainPaths => host_events[i].path = WinPath[r.path]
    <3>1. Framed(r)
      BY <1>1 DEF CorrelatorInv
    <3>. QED
      BY <2>2, <3>1, TranslationLeadsThere
  <2>. HIDE DEF t, h, u
  <2>7. /\ t % U64 \in Nat
        /\ t >= 0 => t % U64 = t
        /\ t < 0 => t % U64 > MaxTime + Window
    <3>1. -t <= u + 1 + MaxOrigin
      BY <2>3, <2>5
    <3>. QED
      BY <2>3, <3>1, CastAdjusted
  <2>8. t >= 0
    BY <2>2, <2>3, <2>4, <2>5, <2>7
  <2>9. /\ h - r.at - Skew(r) <= Window + u + 1
        /\ r.at + Skew(r) - h <= Window + u + 1
    <3>1. h - t <= Window /\ t - h <= Window
      BY <2>2, <2>7, <2>8
    <3>. QED
      BY <2>3, <2>5, <3>1
  <2>. QED
    BY <2>6, <2>9 DEF h, u
<1>2. ASSUME ClockInv, CorrelatorInv, NEW r \in records,
             ConfidenceOf(r) = "High", r.epoch = estimate.epoch
      PROVE  Skew(r) <= MaxLag /\ -Skew(r) <= MaxOrigin
  BY <1>2, MovedToHostClock DEF ConfidenceOf
<1>3. ClockInv /\ CorrelatorInv => HighMeansNearby
  BY <1>1, <1>2 DEF HighMeansNearby
<1>. QED
  BY <1>3, CorrelatorInvariant, PTL

\* A record on a plain path finds its own event as long as that is buffered and
\* the estimate's uncertainty and the skew of the stamp together are within the
\* window, for every split of the network delay
\* (correlate_guest_record).
THEOREM OwnEventIsFound == Spec => []OwnEventFound
<1>1. ASSUME ClockInv, CorrelatorInv, NEW r \in records,
             NEW i \in DOMAIN host_events, host_events[i].id = r.id,
             r.path \in PlainPaths,
             ValidAt(estimate, failures, now), r.epoch = estimate.epoch,
             estimate.uncertainty + 1 + Skew(r) <= Window,
             estimate.uncertainty + 1 - Skew(r) <= Window,
             r.at + Skew(r) > estimate.uncertainty
      PROVE  i \in Matches(r) /\ ConfidenceOf(r) # "Low"
  <2>. DEFINE t == r.ts + estimate.offset
              u == estimate.uncertainty
  <2>1. /\ r.at \in Nat /\ t \in Int /\ u \in Nat /\ Skew(r) \in Int
        /\ t - r.at - Skew(r) <= u + 1 /\ r.at + Skew(r) - t <= u + 1
        /\ t <= MaxTime + u + 1 /\ u <= MaxUncertainty
    BY <1>1, MovedToHostClock
  <2>2. host_events[i].ts = r.at /\ host_events[i].path = WinPath[r.path]
    BY <1>1 DEF CorrelatorInv, KnownWrite, SameWrite
  <2>3. Translate(r.path) = WinPath[r.path]
    <3>1. Framed(r)
      BY <1>1 DEF CorrelatorInv
    <3>. QED
      BY <1>1, <3>1, TranslationLeadsThere
  <2>4. /\ r.at + Skew(r) > u /\ u + 1 + Skew(r) <= Window
        /\ u + 1 - Skew(r) <= Window
    BY <1>1
  <2>5. Adjusted(r) = t % U64
    BY DEF Adjusted
  <2>6. MaxOrigin \in Nat /\ Window \in Nat
    BY CorrelatorAssumption
  <2>. HIDE DEF t, u
  <2>7. t >= 0
    BY <2>1, <2>4, <2>6
  <2>8. t % U64 = t
    <3>1. -t <= u + 1 + MaxOrigin
      BY <2>1, <2>6, <2>7
    <3>. QED
      BY <2>1, <2>7, <3>1, CastAdjusted
  <2>9. /\ host_events[i].ts - Adjusted(r) <= Window
        /\ Adjusted(r) - host_events[i].ts <= Window
    BY <2>1, <2>2, <2>4, <2>5, <2>6, <2>8
  <2>10. i \in Matches(r)
    BY <1>1, <2>2, <2>3, <2>9 DEF Matches
  <2>. QED
    BY <1>1, <2>10 DEF ConfidenceOf
<1>2. ClockInv /\ CorrelatorInv => OwnEventFound
  BY <1>1 DEF OwnEventFound
<1>. QED
  BY <1>2, CorrelatorInvariant, PTL
=============================================================================

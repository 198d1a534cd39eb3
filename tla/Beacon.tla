------------------------------- MODULE Beacon -------------------------------
(***************************************************************************)
(* Detection of C2 beacons (kavach-beacon): a ring buffer of packets per   *)
(* flow and the statistics of a full buffer, in exact arithmetic.  Packets *)
(* may be delivered in another order than they were stamped.               *)
(***************************************************************************)
EXTENDS Integers, Sequences, FiniteSets, FiniteSetsExt, Sums

CONSTANTS
  Packets,     \* what packets there are: flow, direction and size
  FlowWindow,  \* FLOW_WINDOW_SIZE (32 in the code)
  MinBeacon    \* MIN_BEACON_INTERVAL_MS (500)

FlowKeys == {p.key : p \in Packets}
Directions == {"Outbound", "Inbound"}

ASSUME BeaconAssumption ==
  /\ \A p \in Packets : p.direction \in Directions /\ p.small \in BOOLEAN
  /\ FlowWindow \in Nat /\ FlowWindow > 1 /\ MinBeacon \in Nat \ {0}

\* In so small a window a single interval of zero spoils the rhythm.
ASSUME RhythmAssumption == FlowWindow <= 34

VARIABLES
  flows,   \* the ring buffer of each flow that was ever seen
  beacon,  \* what ingest_packet returned last: the flow flagged, or none
  seen     \* history: the packets delivered since the flows were cleared

beaconVars == <<flows, beacon, seen>>

NoFlow == {}

BeaconInit ==
  flows = [k \in {} |-> <<>>] /\ beacon = NoFlow /\ seen = <<>>

-----------------------------------------------------------------------------
\* Mutant of RecordPacket: the buffer is emptied once it was full.
RecordPacketRestarting(buffer, p) ==
  Append(IF Len(buffer) = FlowWindow THEN <<>> ELSE buffer, p)

\* record_packet: the oldest packet makes room.
RecordPacket(buffer, p) ==
  Append(IF Len(buffer) = FlowWindow THEN Tail(buffer) ELSE buffer, p)

\* Mutant of Delta: the difference without its sign.
DeltaUnsigned(buffer, i) ==
  IF buffer[i].ts < buffer[i - 1].ts THEN buffer[i - 1].ts - buffer[i].ts
  ELSE buffer[i].ts - buffer[i - 1].ts

\* The interval before packet i; it saturates at zero.
Delta(buffer, i) ==
  IF buffer[i].ts < buffer[i - 1].ts THEN 0
  ELSE buffer[i].ts - buffer[i - 1].ts

Intervals == 2 .. FlowWindow
Count == FlowWindow - 1

SumOfDeltas(buffer) ==
  Total([i \in 1 .. Count |-> Delta(buffer, i + 1)], Count)

SumOfSquaredDeltas(buffer) ==
  Total([i \in 1 .. Count |-> Delta(buffer, i + 1) * Delta(buffer, i + 1)],
        Count)

\* jitter_score >= 0.5: the mean is at least MinBeacon and the coefficient of
\* variation at most half of JITTER_CV_MAX, 0.175; squared, 0.030625.
Rhythmic(buffer) ==
  LET sum == SumOfDeltas(buffer) IN
  /\ sum >= MinBeacon * Count
  /\ 1000000 * (Count * SumOfSquaredDeltas(buffer) - sum * sum)
       <= 30625 * sum * sum

CountOf(buffer, direction) ==
  Cardinality({i \in Intervals : buffer[i].direction = direction})

\* symmetry_score >= 0.4: the mean of the balance of directions, the smaller
\* count by the larger one, and of the share of small packets.  The first
\* packet of the buffer does not count.
Symmetric(buffer) ==
  LET out   == CountOf(buffer, "Outbound")
      in    == CountOf(buffer, "Inbound")
      less  == IF out < in THEN out ELSE in
      more  == IF out < in THEN in ELSE out
      small == Cardinality({i \in Intervals : buffer[i].small})
  IN 10 * (less * Count + small * more) >= 8 * more * Count

\* evaluate_beacon_rhythm of a full buffer
IsC2Beacon(buffer) == Rhythmic(buffer) /\ Symmetric(buffer)

\* ingest_packet, behind the consumer's mutex; flows are never forgotten.
IngestPacket(p) ==
  LET old    == IF p.key \in DOMAIN flows THEN flows[p.key] ELSE <<>>
      buffer == RecordPacket(old, p)
  IN /\ flows' = [k \in DOMAIN flows \cup {p.key} |->
                    IF k = p.key THEN buffer ELSE flows[k]]
     /\ beacon' = IF Len(buffer) = FlowWindow /\ IsC2Beacon(buffer)
                  THEN {p.key} ELSE NoFlow
     /\ seen' = Append(seen, p)

\* clear
ClearFlows ==
  /\ flows' = [k \in {} |-> <<>>]
  /\ beacon' = NoFlow
  /\ seen' = <<>>

-----------------------------------------------------------------------------
\* The positions of the last packets of a flow in the history.
LastOf(k) ==
  LET mine == {i \in DOMAIN seen : seen[i].key = k}
  IN {i \in mine : Cardinality({j \in mine : j > i}) < FlowWindow}

\* A flow that is flagged is a beacon by the packets of that flow alone: its
\* last packets were stamped in the order in which they came, each after the
\* one before, by MinBeacon on average, and a single packet out of order would
\* have cleared the flow (evaluate_beacon_rhythm).
FlaggedIsRegular ==
  \A k \in beacon :
    /\ \A i, j \in LastOf(k) : i < j => seen[i].ts < seen[j].ts
    /\ seen[Max(LastOf(k))].ts - seen[Min(LastOf(k))].ts >= MinBeacon * Count

\* A full window of small packets, each the same step of at least `least' after
\* the one before.
EvenWindow(w, least) ==
  /\ Cardinality(w) = FlowWindow
  /\ \A i \in w : seen[i].small
  /\ \E step \in {seen[i].ts - seen[Min(w)].ts : i \in w} :
       /\ step >= least
       /\ \A i \in w :
            seen[i].ts = seen[Min(w)].ts
                           + step * Cardinality({j \in w : j < i})

\* Small packets that are evenly spaced, by MinBeacon or by any longer step, are
\* flagged from the first full window on and wherever in the stream the window
\* begins (record_packet).
EvenTrafficIsFlagged ==
  seen # <<>> =>
    LET k == seen[Len(seen)].key
    IN EvenWindow(LastOf(k), MinBeacon) => beacon = {k}

\* The same of any pace, also of one faster than MinBeacon, such as that of the
\* simulated beacon of the runbook (evaluate_beacon_rhythm).
FastTrafficIsFlagged ==
  seen # <<>> =>
    LET k == seen[Len(seen)].key
    IN EvenWindow(LastOf(k), 1) => beacon = {k}
=============================================================================

----------------------------- MODULE Correlator -----------------------------
(***************************************************************************)
(* Attribution of guest writes to host file events (correlator.rs), on top *)
(* of the clock synchronizer it owns.                                      *)
(*                                                                         *)
(* A write by a guest process shows up twice: as an ETW event stamped with *)
(* the host clock and, if the guest agent accepts its path and can frame   *)
(* it, as a guest record.  The record is stamped when the agent gets to    *)
(* know of the write, and with a clock that counts from the creation of    *)
(* the audit source; the answers to clock challenges count from a moment   *)
(* before that.  Event and record arrive later, in any order, or never.    *)
(* Windows processes write to the same files, which yields ETW events      *)
(* without a record.  GuestAgent has the stream of records.                *)
(***************************************************************************)
EXTENDS ClockSync, GuestWire

CONSTANTS
  GuestPids,     \* guest process identifiers
  WindowsPaths,  \* paths of host events
  WinPath,       \* the Windows path of the file that each guest path leads to
  PlainPaths,    \* paths without symbolic links, on a drive mounted under /mnt
  MaxOrigin,     \* how long after its own start an agent creates its source
  MaxLag,        \* how long after a write the agent stamps its record at most
  Window,        \* correlation_window_ms, at most 250
  EventCap,      \* events and records buffered (1000 in the code)
  U64,           \* adjusted timestamps are cast to u64
  MaxWrites,     \* bound on the file writes considered
  MaxRecords     \* bound on the guest records in flight

ASSUME CorrelatorAssumption ==
  /\ WinPath \in [GuestPaths -> WindowsPaths] /\ PlainPaths \subseteq GuestPaths
  /\ MaxOrigin \in Nat /\ MaxLag \in Nat
  /\ Window \in Nat /\ EventCap \in Nat \ {0} /\ U64 \in Nat \ {0}
  /\ MaxWrites \in Nat /\ MaxRecords \in Nat
  \* no clock comes near the end of its 64 bits
  /\ MaxTime + Window + MaxUncertainty + MaxOrigin + 1 < U64

\* What makes a path plain, external: without an empty, "." or ".." component it
\* leads where it spells.
ASSUME PlainAssumption ==
  \A p \in PlainPaths :
    (/\ Len(p) > 2 /\ p[1] = "" /\ p[2] = "mnt" /\ p # <<"", "mnt", "">>
     /\ \A i \in 2 .. Len(p) :
          p[i] \notin {"", ".", ".."} \/ (i = Len(p) /\ p[i] = ""))
      => /\ p[3] \in Drives
         /\ WinPath[p] = <<p[3]>> \o (IF Len(p) = 3 THEN <<"">>
                                      ELSE SubSeq(p, 4, Len(p)))

VARIABLES
  origin,        \* start_instant of the audit source, by the host clock
  writes,        \* history: the number of writes so far
  unaudited,     \* guest writes that the agent does not know of yet
  etw,           \* ETW events on their way: path and host timestamp
  records,       \* guest records on their way
  host_events,   \* the correlator's buffer of host events
  record_count   \* the number of guest records retained

corrVars ==
  <<origin, writes, unaudited, etw, records, host_events, record_count>>
vars == <<clockVars, corrVars>>

\* `id' is history: which write.
HostEvent(id, ts, path) == [id |-> id, ts |-> ts, path |-> path]

Init ==
  /\ ClockInit
  /\ origin \in 0 .. MaxOrigin
  /\ writes = 0 /\ unaudited = {} /\ etw = {} /\ records = {}
  /\ host_events = <<>> /\ record_count = 0

-----------------------------------------------------------------------------
\* A file is written, by whomever: an ETW event.
FileWritten(path) ==
  /\ writes < MaxWrites
  /\ writes' = writes + 1
  /\ etw' = etw \cup {HostEvent(writes', now, path)}

\* A guest process writes a file.
GuestWrites(pid, path) ==
  /\ FileWritten(WinPath[path])
  /\ unaudited' = unaudited \cup
       {[id |-> writes', pid |-> pid, path |-> path, at |-> now]}
  /\ UNCHANGED <<clockVars, origin, records, host_events, record_count>>

\* record_operation and to_frame: the agent learns of the write w, stamps it and
\* lets the record pass.  `id', `at' and `epoch' are history: which write, when
\* it happened by the host clock, and under which guest session it was stamped.
RecordOperation(w) ==
  /\ now >= origin /\ now <= w.at + MaxLag
  /\ Cardinality(records) < MaxRecords
  /\ unaudited' = unaudited \ {w}
  /\ LET r == [id |-> w.id, pid |-> w.pid, path |-> w.path,
               ts |-> now - origin, at |-> w.at, epoch |-> epoch]
     IN records' = IF Framed(r) THEN records \cup {r} ELSE records
  /\ UNCHANGED <<clockVars, origin, writes, etw, host_events, record_count>>

\* The agent is started again: start_instant, and then the audit source.
AgentRestarts ==
  /\ GuestRestarts
  /\ origin' \in now .. now + MaxOrigin
  /\ UNCHANGED <<writes, unaudited, etw, records, host_events, record_count>>

\* A Windows process writes a file.
HostWrites(path) ==
  /\ FileWritten(path)
  /\ UNCHANGED <<clockVars, origin, unaudited, records, host_events,
                 record_count>>

\* record_host_event: push_back, then pop_front beyond the capacity.
RecordHostEvent(e) ==
  /\ etw' = etw \ {e}
  /\ LET pushed == Append(host_events, e)
     IN host_events' = IF Len(pushed) > EventCap THEN Tail(pushed) ELSE pushed
  /\ UNCHANGED <<clockVars, origin, writes, unaudited, records, record_count>>

\* The record's timestamp moved to the host clock and cast to u64.
Adjusted(r) == (r.ts + estimate.offset) % U64

\* Mutant of Matches: the window compared on one side only.
MatchesOneSided(r) ==
  {i \in DOMAIN host_events :
     /\ host_events[i].path = Translate(r.path)
     /\ host_events[i].ts - Adjusted(r) <= Window}

\* The buffered host events on the same path within the window.
Matches(r) ==
  {i \in DOMAIN host_events :
     /\ host_events[i].path = Translate(r.path)
     /\ host_events[i].ts - Adjusted(r) <= Window
     /\ Adjusted(r) - host_events[i].ts <= Window}

\* The confidence of the attribution of r; High allows enforcement on its PID.
ConfidenceOf(r) ==
  IF ~ValidAt(estimate, failures, now) THEN "Low"
  ELSE IF Cardinality(Matches(r)) = 1 /\ estimate.uncertainty <= MaxUncertainty
  THEN "High"
  ELSE IF Matches(r) # {} THEN "Medium"
  ELSE "Low"

\* correlate_guest_record(r, now); the host events are not consumed.
CorrelateGuestRecord(r) ==
  /\ records' = records \ {r}
  /\ record_count' = IF record_count = EventCap THEN EventCap
                     ELSE record_count + 1
  /\ UNCHANGED <<clockVars, origin, writes, unaudited, etw, host_events>>

Next ==
  \/ ExchangeNext /\ UNCHANGED corrVars
  \/ AgentRestarts
  \/ \E w \in unaudited : RecordOperation(w)
  \/ \E pid \in GuestPids, path \in GuestPaths : GuestWrites(pid, path)
  \/ \E path \in WindowsPaths : HostWrites(path)
  \/ \E e \in etw : RecordHostEvent(e)
  \/ \E r \in records : CorrelateGuestRecord(r)

Spec == Init /\ [][Next]_vars

-----------------------------------------------------------------------------
\* How far the stamp of r, by the clock that answered the challenges of its
\* session, is from the write: the agent was late, and its two clocks differ.
Skew(r) == r.ts + r.epoch - r.at

\* Whenever a record is correlated while the guest agent that took it is the
\* one the estimate was measured against, a process is only named with High
\* confidence over an event that happened within the window of the moment that
\* process wrote, but for the skew of its stamp, which the agent's lag and the
\* distance of its clocks bound, the clock uncertainty and one unit of rounding;
\* and, if its path is plain, to the very file it wrote; lost, late and
\* reordered events and answers included (correlate_guest_record).
HighMeansNearby ==
  \A r \in records :
    (ConfidenceOf(r) = "High" /\ r.epoch = estimate.epoch) =>
      /\ Skew(r) <= MaxLag /\ -Skew(r) <= MaxOrigin
      /\ \A i \in Matches(r) :
           LET h == host_events[i]
               slack == Window + estimate.uncertainty + 1
           IN /\ r.path \in PlainPaths => h.path = WinPath[r.path]
              /\ h.ts - r.at - Skew(r) <= slack
              /\ r.at + Skew(r) - h.ts <= slack

\* A record on a plain path whose own event is still buffered is attributed, and
\* its own event is among the matches, when the estimate is valid, of the
\* record's session and, with the skew of the stamp, exact enough for the window:
\* neither rounding nor the split of the network delay loses it.  Writes so early
\* that the adjusted timestamp could fall below zero and wrap in the cast to u64
\* are left out.
OwnEventFound ==
  \A r \in records, i \in DOMAIN host_events :
    (/\ host_events[i].id = r.id /\ r.path \in PlainPaths
     /\ ValidAt(estimate, failures, now) /\ r.epoch = estimate.epoch
     /\ estimate.uncertainty + 1 + Skew(r) <= Window
     /\ estimate.uncertainty + 1 - Skew(r) <= Window
     /\ r.at + Skew(r) > estimate.uncertainty)
      => i \in Matches(r) /\ ConfidenceOf(r) # "Low"

\* correlator.rs on AttributionConfidence::Medium: "Unique path/time match
\* without exact file identity", and ADR 005: low is "any multi-match".
MediumIsUnique ==
  \A r \in records :
    ConfidenceOf(r) = "Medium" => Cardinality(Matches(r)) = 1
=============================================================================

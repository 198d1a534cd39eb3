------------------------------ MODULE Tripwire ------------------------------
(***************************************************************************)
(* The ransomware tripwire: KernelFileConsumer, EntropyEngine and the      *)
(* WriteBurstTracker they feed (kavach-tripwire), and the matrix that the  *)
(* sentinel daemon reads from the tracker.                                 *)
(*                                                                         *)
(* File operations are stamped when they happen and delivered later; the   *)
(* buffers they travel through are one per processor, so that two of them  *)
(* may be delivered in either order.  The tracker takes the stamp of the   *)
(* operation that is delivered for the current time.                       *)
(***************************************************************************)
EXTENDS Integers, SequencesExt

CONSTANTS
  Pids,           \* process identifiers
  Files,          \* paths
  Payloads,       \* sequences of block entropies, in hundredths of a bit
  Window,         \* window_duration_ms (50 in the code)
  Slots,          \* NPU_TIME_SLOTS (10)
  FileThreshold,  \* suspension_file_threshold (3)
  MaxSkew,        \* how long the delivery of an operation may take
  MaxTime,        \* bound on the clock
  MaxOps          \* bound on the operations

ASSUME TripwireAssumption ==
  /\ Window \in Nat /\ Slots \in Nat \ {0} /\ FileThreshold \in Nat
  /\ MaxSkew \in Nat /\ MaxTime \in Nat /\ MaxOps \in Nat
  /\ Payloads \subseteq Seq(Nat)

VARIABLES
  clock,      \* the wall clock
  ops,        \* history: the number of operations so far
  inflight,   \* operations that were not delivered yet
  delivered,  \* history: operations that were delivered
  events,     \* WriteBurstTracker.events
  last        \* history: the evaluation of the last delivered operation

vars == <<clock, ops, inflight, delivered, events, last>>

\* `id' is history: it tells two operations apart.
Operation(id, ts, pid, path, blocks, rename) ==
  [id |-> id, ts |-> ts, pid |-> pid, path |-> path, blocks |-> blocks,
   rename |-> rename]

Init ==
  /\ clock = 0 /\ ops = 0 /\ inflight = {} /\ delivered = {}
  /\ events = <<>>
  /\ \E p \in Pids :
       last = [pid |-> p, action |-> "Alert", evidence |-> 0, of |-> {}]

-----------------------------------------------------------------------------
(***************************************************************************)
(* differential_entropy, in exact arithmetic.                              *)
(***************************************************************************)

SumOf(blocks) == FoldLeft(LAMBDA acc, e : acc + e, 0, blocks)

SumOfSquares(blocks) == FoldLeft(LAMBDA acc, e : acc + e * e, 0, blocks)

\* Blocks at or above 7.95 bits per byte.
HighCount(blocks) == Cardinality({i \in DOMAIN blocks : blocks[i] >= 795})

\* Neighbours two bits apart, one of them at or above 7.50.
Transitions(blocks) ==
  Cardinality({i \in 1 .. Len(blocks) - 1 :
                 /\ \/ blocks[i] - blocks[i + 1] >= 200
                    \/ blocks[i + 1] - blocks[i] >= 200
                 /\ blocks[i] >= 750 \/ blocks[i + 1] >= 750})

\* n^2 times the variance, in units of 10^-4.
Scatter(blocks) ==
  Len(blocks) * SumOfSquares(blocks) - SumOf(blocks) * SumOf(blocks)

\* variance >= 1 and 0.5 * transition_ratio + variance / 16 >= 0.35
Intermittent(blocks) ==
  LET n == Len(blocks) IN
  /\ Scatter(blocks) >= 10000 * n * n
  /\ 80000 * n * n * Transitions(blocks) + (n - 1) * Scatter(blocks)
       >= 56000 * n * n * (n - 1)

IsAnomalous(blocks) ==
  /\ blocks # <<>>
  /\ \/ 10 * HighCount(blocks) >= 7 * Len(blocks)
     \/ HighCount(blocks) >= 2 /\ Intermittent(blocks)

-----------------------------------------------------------------------------
(***************************************************************************)
(* WriteBurstTracker.                                                      *)
(***************************************************************************)

\* The elements of es at the places in I, in their order: retain and filter.
AtPlaces(es, I) ==
  [k \in 1 .. Cardinality(I) |->
     es[CHOOSE i \in I : Cardinality({j \in I : j < i}) = k - 1]]

\* Mutant of Purge: the cutoff compared strictly.
PurgeEarly(es, t) == AtPlaces(es, {i \in DOMAIN es : es[i].ts + Window > t})

\* purge_expired; the subtraction saturates at zero.
Purge(es, t) == AtPlaces(es, {i \in DOMAIN es : es[i].ts + Window >= t})

Of(es, pid) == AtPlaces(es, {i \in DOMAIN es : es[i].pid = pid})

FilesOf(es) == {es[i].path : i \in DOMAIN es}

\* The blocks of the first k events, one after the other, for each k.
BlocksUpTo(es) ==
  LET upTo[k \in 0 .. Len(es)] ==
        IF k = 0 THEN <<>> ELSE upTo[k - 1] \o es[k].blocks
  IN upTo

Blocks(es) == BlocksUpTo(es)[Len(es)]

\* corroborating_evidence_count: ciphertext, anomaly, renames, files.
EvidenceCount(es) ==
  Cardinality({k \in 1 .. 4 :
    \/ k = 1 /\ HighCount(Blocks(es)) > 0
    \/ k = 2 /\ IsAnomalous(Blocks(es))
    \/ k = 3 /\ Cardinality({i \in DOMAIN es : es[i].rename}) >= 3
    \/ k = 4 /\ Cardinality(FilesOf(es)) >= FileThreshold})

\* Mutant of RecommendedAction: operations counted instead of distinct files.
ActionByOperations(es) ==
  IF IsAnomalous(Blocks(es)) /\ Len(es) >= FileThreshold
  THEN "SuspendAndAlert" ELSE "Alert"

RecommendedAction(es) ==
  IF IsAnomalous(Blocks(es)) /\ Cardinality(FilesOf(es)) >= FileThreshold
  THEN "SuspendAndAlert" ELSE "Alert"

\* start_ms of an evaluation at t
WindowStart(t) == IF t < Window THEN 0 ELSE t - Window

\* Mutant of BucketStart: the bucket's width rounded to whole milliseconds.
BucketWidthRounded(t, i) == WindowStart(t) + i * (Window \div Slots)

\* Where bucket i begins; where the one before it ends.
BucketStart(t, i) == WindowStart(t) + (i * Window) \div Slots

\* The events of a bucket of the tensor matrix.
Bucket(es, t, i) ==
  {e \in ToSet(es) : BucketStart(t, i) <= e.ts /\ e.ts < BucketStart(t, i + 1)}

\* build_tensor_matrix: the last event recorded names the process and the time.
Matrix ==
  LET l == events[Len(events)] IN
  IF events = <<>> THEN [i \in 0 .. Slots - 1 |-> {}]
  ELSE [i \in 0 .. Slots - 1 |-> Bucket(Of(events, l.pid), l.ts, i)]

-----------------------------------------------------------------------------
\* A process writes or renames a file.
Operate(pid, path, blocks, rename) ==
  /\ ops < MaxOps
  /\ ops' = ops + 1
  /\ inflight' = inflight \cup
       {Operation(ops', clock, pid, path, blocks, rename)}
  /\ UNCHANGED <<clock, delivered, events, last>>

\* process_event: record_event, then evaluate_pid, both at e.ts.
ProcessEvent(e) ==
  /\ inflight' = inflight \ {e}
  /\ delivered' = delivered \cup {e}
  /\ events' = Purge(Append(events, e), e.ts)
  /\ LET mine == Of(events', e.pid) IN
       last' = [pid |-> e.pid, action |-> RecommendedAction(mine),
                evidence |-> EvidenceCount(mine), of |-> ToSet(mine)]
  /\ UNCHANGED <<clock, ops>>

\* Time passes; nothing is in flight for longer than MaxSkew.
Tick ==
  /\ clock < MaxTime
  /\ \A e \in inflight : clock < e.ts + MaxSkew
  /\ clock' = clock + 1
  /\ UNCHANGED <<ops, inflight, delivered, events, last>>

Next ==
  \/ \E pid \in Pids, path \in Files, blocks \in Payloads,
        rename \in BOOLEAN : Operate(pid, path, blocks, rename)
  \/ \E e \in inflight : ProcessEvent(e)
  \/ Tick

Spec == Init /\ [][Next]_vars

-----------------------------------------------------------------------------
\* Nothing that still counts is dropped: every delivered operation that is not
\* older than the window, measured from the newest one delivered, is in the
\* tracker, in whatever order they were delivered (purge_expired at the stamp
\* of a late operation, between two of newer ones).
WindowIsComplete ==
  \A e \in delivered :
    (\A n \in delivered : e.ts + Window >= n.ts) => e \in ToSet(events)

\* A suspension is only recommended over a burst: the process has touched
\* FileThreshold different files within the window, stretched by no more than
\* the skew of the delivery (evaluate_pid does not look at the stamps); and the
\* recommendation carries the three items of evidence that go with it.
SuspensionNeedsBurst ==
  last.action = "SuspendAndAlert" =>
    /\ Cardinality({e.path : e \in last.of}) >= FileThreshold
    /\ \A e, f \in last.of :
         e.pid = last.pid /\ e.ts - f.ts <= Window + MaxSkew
    /\ last.evidence >= 3

\* Every earlier event of the window is in exactly one bucket of the matrix, as
\* seen at the last event recorded.
BucketsPartition ==
  events # <<>> =>
    LET l == events[Len(events)] IN
    \A e \in ToSet(Of(events, l.pid)) :
      (WindowStart(l.ts) <= e.ts /\ e.ts < l.ts) =>
        Cardinality({i \in 0 .. Slots - 1 : e \in Matrix[i]}) = 1
=============================================================================

--------------------------- MODULE DetectorProofs ---------------------------
(***************************************************************************)
(* Proofs about the firewall driver, the guest agent's stream, the         *)
(* correlation of security events and the detection of beacons, for any    *)
(* number of inputs and any targets, paths, users and flows.               *)
(***************************************************************************)
EXTENDS Detectors, FiniteSetTheorems, TLAPS

-----------------------------------------------------------------------------
(***************************************************************************)
(* Quarantine.                                                             *)
(***************************************************************************)

\* A quarantine in the history.
Quarantine == [id: Nat, target: Targets, released: BOOLEAN]

\* Identifiers are never given out twice: those in use and those ever issued
\* are below the counter, and no two quarantines share one, hence a release
\* reaches no other quarantine.  The rules of the registry are the quarantines
\* that were not released.
QuarantineInv ==
  /\ next_filter_id \in Nat \ {0}
  /\ issued \in Seq(Quarantine)
  /\ \A n \in DOMAIN issued : issued[n].id \in 1 .. next_filter_id - 1
  /\ \A m, n \in DOMAIN issued : issued[m].id = issued[n].id => m = n
  /\ \A i \in DOMAIN rules : i \in 1 .. next_filter_id - 1
  /\ \A n \in DOMAIN issued : ~issued[n].released =>
       issued[n].id \in DOMAIN rules /\ rules[issued[n].id] = issued[n].target
  /\ \A i \in DOMAIN rules : \E n \in DOMAIN issued :
       /\ issued[n].id = i /\ ~issued[n].released
       /\ issued[n].target = rules[i]
  /\ filters = DOMAIN rules
  /\ handles = 0

LEMMA AddKeeps ==
  ASSUME QuarantineInv, NEW t \in Targets, AddQuarantine(t)
  PROVE  QuarantineInv'
<1>. DEFINE k == next_filter_id
            last == Len(issued) + 1
            new == [id |-> k, target |-> t, released |-> FALSE]
<1>1. /\ rules' = [i \in DOMAIN rules \cup {k} |->
                     IF i = k THEN t ELSE rules[i]]
      /\ k' = k + 1
      /\ filters' = filters \cup {k}
      /\ issued' = Append(issued, new)
      /\ UNCHANGED handles
  BY DEF AddQuarantine, NextId
<1>2. /\ k \in Nat \ {0} /\ k \notin DOMAIN rules
      /\ issued \in Seq(Quarantine) /\ new \in Quarantine
      /\ new.id = k /\ new.target = t /\ ~new.released
      /\ \A n \in DOMAIN issued : issued[n].id \in 1 .. k - 1
  BY DEF QuarantineInv, Quarantine
<1>3. /\ DOMAIN rules' = DOMAIN rules \cup {k}
      /\ rules'[k] = t
      /\ \A i \in DOMAIN rules : rules'[i] = rules[i]
  BY <1>1, <1>2
<1>. HIDE DEF new
<1>4. /\ issued' \in Seq(Quarantine)
      /\ DOMAIN issued' = DOMAIN issued \cup {last}
      /\ issued'[last] = new /\ last \notin DOMAIN issued
      /\ \A n \in DOMAIN issued : issued'[n] = issued[n]
  BY <1>1, <1>2
<1>. HIDE DEF last
<1>5. /\ \A n \in DOMAIN issued' : issued'[n].id \in 1 .. k' - 1
      /\ k' \in Nat \ {0}
      /\ \A i \in DOMAIN rules' : i \in 1 .. k' - 1
  BY <1>1, <1>2, <1>3, <1>4 DEF QuarantineInv
<1>6. \A m, n \in DOMAIN issued' : issued'[m].id = issued'[n].id => m = n
  <2>1. \A n \in DOMAIN issued : issued[n].id # k
    BY <1>2
  <2>. QED
    BY <1>2, <1>4, <2>1 DEF QuarantineInv
<1>7. \A n \in DOMAIN issued' : ~issued'[n].released =>
        /\ issued'[n].id \in DOMAIN rules'
        /\ rules'[issued'[n].id] = issued'[n].target
  BY <1>2, <1>3, <1>4 DEF QuarantineInv
<1>8. ASSUME NEW i \in DOMAIN rules'
      PROVE  \E n \in DOMAIN issued' :
               /\ issued'[n].id = i /\ ~issued'[n].released
               /\ issued'[n].target = rules'[i]
  <2>1. CASE i = k
    BY <1>2, <1>3, <1>4, <2>1
  <2>2. CASE i \in DOMAIN rules
    BY <1>3, <1>4, <2>2 DEF QuarantineInv
  <2>. QED
    BY <1>3, <2>1, <2>2
<1>9. filters' = DOMAIN rules' /\ handles' = 0
  BY <1>1, <1>3 DEF QuarantineInv
<1>. QED
  BY <1>4, <1>5, <1>6, <1>7, <1>8, <1>9 DEF QuarantineInv

\* The caller was given the identifier, or nobody was.
LEMMA RemoveKeeps ==
  ASSUME QuarantineInv, NEW id, NEW n, RemoveQuarantine(id, n),
         \/ n \in DOMAIN issued /\ issued[n].id = id
         \/ n \notin DOMAIN issued /\ \A m \in DOMAIN issued : issued[m].id # id
  PROVE  QuarantineInv'
<1>1. /\ rules' = [i \in DOMAIN rules \ {id} |-> rules[i]]
      /\ filters' = filters \ (DOMAIN rules \cap {id})
      /\ issued' = [m \in DOMAIN issued |->
                      IF m = n THEN [issued[m] EXCEPT !.released = TRUE]
                      ELSE issued[m]]
      /\ UNCHANGED <<next_filter_id, handles>>
  BY DEF RemoveQuarantine
<1>2. \A m \in DOMAIN issued : issued[m].id = id <=> m = n
  BY DEF QuarantineInv
<1>3. /\ DOMAIN rules' = DOMAIN rules \ {id}
      /\ \A i \in DOMAIN rules' : rules'[i] = rules[i]
  BY <1>1
<1>4. /\ issued \in Seq(Quarantine)
      /\ \A m \in DOMAIN issued : issued[m] \in Quarantine
  BY DEF QuarantineInv
<1>5. ASSUME NEW m \in DOMAIN issued
      PROVE  /\ issued'[m] \in Quarantine
             /\ issued'[m].id = issued[m].id
             /\ issued'[m].target = issued[m].target
             /\ m # n => issued'[m] = issued[m]
             /\ m = n => issued'[m].released
  <2>1. issued[m] \in Quarantine
    BY <1>4
  <2>2. CASE m # n
    BY <1>1, <2>1, <2>2
  <2>3. CASE m = n
    <3>1. issued'[m] = [issued[m] EXCEPT !.released = TRUE]
      BY <1>1, <2>3
    <3>. QED
      BY <2>1, <2>3, <3>1 DEF Quarantine
  <2>. QED
    BY <2>2, <2>3
<1>6. DOMAIN issued' = DOMAIN issued /\ issued' \in Seq(Quarantine)
  <2>1. DOMAIN issued' = 1 .. Len(issued) /\ Len(issued) \in Nat
        /\ DOMAIN issued = 1 .. Len(issued)
    BY <1>1, <1>4
  <2>2. issued' = [m \in 1 .. Len(issued) |-> issued'[m]]
    BY <1>1, <2>1
  <2>3. \A m \in 1 .. Len(issued) : issued'[m] \in Quarantine
    BY <1>5, <2>1
  <2>4. issued' \in [1 .. Len(issued) -> Quarantine]
    BY <2>2, <2>3, Zenon
  <2>. QED
    BY <2>1, <2>4
<1>7. /\ \A m \in DOMAIN issued' : issued'[m].id \in 1 .. next_filter_id - 1
      /\ \A m, j \in DOMAIN issued' : issued'[m].id = issued'[j].id => m = j
      /\ \A i \in DOMAIN rules' : i \in 1 .. next_filter_id - 1
  BY <1>3, <1>5, <1>6 DEF QuarantineInv
<1>8. \A m \in DOMAIN issued' : ~issued'[m].released =>
        /\ issued'[m].id \in DOMAIN rules'
        /\ rules'[issued'[m].id] = issued'[m].target
  BY <1>2, <1>3, <1>5, <1>6 DEF QuarantineInv
<1>9. ASSUME NEW i \in DOMAIN rules'
      PROVE  \E m \in DOMAIN issued' :
               /\ issued'[m].id = i /\ ~issued'[m].released
               /\ issued'[m].target = rules'[i]
  <2>1. PICK m \in DOMAIN issued :
          /\ issued[m].id = i /\ ~issued[m].released
          /\ issued[m].target = rules[i]
    BY <1>3 DEF QuarantineInv
  <2>2. m # n
    BY <1>2, <1>3, <2>1
  <2>. QED
    BY <1>3, <1>5, <1>6, <2>1, <2>2
<1>. QED
  BY <1>1, <1>3, <1>6, <1>7, <1>8, <1>9, ZenonT(60) DEF QuarantineInv

LEMMA QuarantineStep ==
  ASSUME QuarantineInv, [DetectorsNext]_detectorVars
  PROVE  QuarantineInv'
<1>1. CASE UNCHANGED wfpVars
  BY <1>1 DEF wfpVars, QuarantineInv
<1>2. CASE WfpNext
  <2>1. CASE OpenEngine
    BY <2>1 DEF OpenEngine, QuarantineInv
  <2>2. CASE DropDriver
    BY <2>2 DEF DropDriver, QuarantineInv
  <2>3. CASE \E failure \in SuspendFailures : SuspendProcess(failure)
    BY <2>3 DEF SuspendProcess, SuspendFailures, HandlesOpened, HandlesClosed,
       QuarantineInv
  <2>4. CASE \E t \in Targets : AddQuarantine(t)
    BY <2>4, AddKeeps
  <2>5. CASE \E n \in DOMAIN issued : RemoveQuarantine(issued[n].id, n)
    BY <2>5, RemoveKeeps
  <2>6. CASE \E id \in 0 .. MaxInputs :
               /\ \A n \in DOMAIN issued : issued[n].id # id
               /\ RemoveQuarantine(id, 0)
    <3>1. 0 \notin DOMAIN issued
      BY DEF QuarantineInv
    <3>. QED
      BY <2>6, <3>1, RemoveKeeps
  <2>. QED
    BY <1>2, <2>1, <2>2, <2>3, <2>4, <2>5, <2>6 DEF WfpNext
<1>. QED
  BY <1>1, <1>2 DEF DetectorsNext, detectorVars, Tick

\* A target is registered exactly while some quarantine of it was neither
\* released by its owner nor swept away, however often targets are quarantined
\* and identifiers released and released again; the driver's filter ids are
\* those of its rules, and it keeps no handle (WfpDriver).
THEOREM QuarantineExact == DetectorsSpec => []QuarantineIsExact
<1>1. DetectorsInit => QuarantineInv
  BY DEF DetectorsInit, WfpInit, QuarantineInv
<1>2. QuarantineInv => QuarantineIsExact
  BY DEF QuarantineInv, QuarantineIsExact, IsQuarantined
<1>. QED
  BY <1>1, <1>2, QuarantineStep, PTL DEF DetectorsSpec

-----------------------------------------------------------------------------
(***************************************************************************)
(* The guest agent's records.                                              *)
(***************************************************************************)

\* The operations from m to n that took a number in session a.
Writes(ops, a, m, n) ==
  {k \in m .. n : ops[k].agent = a /\ IsNormalized(ops[k].path)}

Operations == [agent: Nat, path: GuestPaths]

Records ==
  [major: Nat, sequence_number: Nat, operation: Nat, flags: Nat,
   path: GuestPaths, id: Nat, agent: Nat]

Frames ==
  [record: Records, declared: Nat, actual: Nat, path_len: Nat, utf8: BOOLEAN]

\* A record is of one operation, and its number is that operation's place among
\* the writes of its session.
RecordInv(ops, r) ==
  /\ r \in Records
  /\ r.id \in 1 .. Len(ops)
  /\ r.path = ops[r.id].path /\ r.agent = ops[r.id].agent
  /\ Framed(r) /\ r.major = 1 /\ r.operation = 1 /\ r.flags = 0
  /\ r.sequence_number = Cardinality(Writes(ops, r.agent, 1, r.id))
  /\ r.sequence_number # 0

\* The agent's counter is the number of writes of its session so far; what was
\* decoded precedes what is on its way, in the order of the operations.
AgentInv ==
  /\ agent \in Nat
  /\ operations \in Seq(Operations)
  /\ \A k \in DOMAIN operations : operations[k].agent <= agent
  /\ sequence_counter =
       Cardinality(Writes(operations, agent, 1, Len(operations))) + 1
  /\ stream \in Seq(Frames) /\ decoded \in Seq(Records)
  /\ \A i \in DOMAIN stream :
       /\ stream[i] = ToFrame(stream[i].record)
       /\ RecordInv(operations, stream[i].record)
  /\ \A i \in DOMAIN decoded : RecordInv(operations, decoded[i])
  /\ \A i, j \in DOMAIN stream :
       i < j => stream[i].record.id < stream[j].record.id
  /\ \A i, j \in DOMAIN decoded : i < j => decoded[i].id < decoded[j].id
  /\ \A i \in DOMAIN decoded, j \in DOMAIN stream :
       decoded[i].id < stream[j].record.id
  /\ turnedAway = 0

LEMMA WritesFinite ==
  ASSUME NEW ops, NEW a, NEW m \in Int, NEW n \in Int
  PROVE  /\ IsFiniteSet(Writes(ops, a, m, n))
         /\ Cardinality(Writes(ops, a, m, n)) \in Nat
<1>1. Writes(ops, a, m, n) \in SUBSET (m .. n)
  BY DEF Writes
<1>2. IsFiniteSet(m .. n)
  BY FS_Interval
<1>3. IsFiniteSet(Writes(ops, a, m, n))
  BY <1>1, <1>2, FS_Subset
<1>. QED
  BY <1>3, FS_CardinalityType

\* Writes up to n are those up to m and those after.
LEMMA WritesSplit ==
  ASSUME NEW ops, NEW a, NEW m \in Nat, NEW n \in Nat, m <= n
  PROVE  Cardinality(Writes(ops, a, 1, n)) =
           Cardinality(Writes(ops, a, 1, m))
             + Cardinality(Writes(ops, a, m + 1, n))
<1>. DEFINE S == Writes(ops, a, 1, m)
            T == Writes(ops, a, m + 1, n)
<1>1. Writes(ops, a, 1, n) = S \cup T /\ S \cap T = {}
  BY DEF Writes
<1>2. /\ IsFiniteSet(S) /\ Cardinality(S) \in Nat
      /\ IsFiniteSet(T) /\ Cardinality(T) \in Nat
  BY WritesFinite
<1>. HIDE DEF S, T
<1>3. Cardinality(S \cup T) =
        Cardinality(S) + Cardinality(T) - Cardinality(S \cap T)
  BY <1>2, FS_Union
<1>4. Cardinality(S \cap T) = 0
  BY <1>1, FS_EmptySet, Zenon
<1>5. Cardinality(S \cup T) = Cardinality(S) + Cardinality(T)
  BY <1>2, <1>3, <1>4
<1>. QED
  BY <1>1, <1>5 DEF S, T

\* One operation more: the earlier ones count as before, the new one by itself.
LEMMA WritesAppend ==
  ASSUME NEW ops \in Seq(Operations), NEW o \in Operations, NEW a
  PROVE  LET more == Append(ops, o)
             n == Len(ops) + 1
         IN /\ \A m \in 0 .. Len(ops) :
                 Writes(more, a, 1, m) = Writes(ops, a, 1, m)
            /\ Cardinality(Writes(more, a, 1, n)) =
                 Cardinality(Writes(ops, a, 1, Len(ops)))
                   + IF o.agent = a /\ IsNormalized(o.path) THEN 1 ELSE 0
<1>. DEFINE more == Append(ops, o)
            n == Len(ops) + 1
<1>1. /\ Len(ops) \in Nat /\ n \in Nat /\ more[n] = o
      /\ \A k \in 1 .. Len(ops) : more[k] = ops[k]
  OBVIOUS
<1>. HIDE DEF more
<1>2. ASSUME NEW m \in 0 .. Len(ops)
      PROVE  Writes(more, a, 1, m) = Writes(ops, a, 1, m)
  BY <1>1 DEF Writes
<1>3. Cardinality(Writes(more, a, 1, n)) =
        Cardinality(Writes(more, a, 1, Len(ops)))
          + Cardinality(Writes(more, a, Len(ops) + 1, n))
  BY <1>1, WritesSplit
<1>4. Writes(more, a, Len(ops) + 1, n) =
        IF o.agent = a /\ IsNormalized(o.path) THEN {n} ELSE {}
  BY <1>1 DEF Writes
<1>5. Cardinality({n}) = 1 /\ Cardinality({}) = 0
  BY FS_Singleton, FS_EmptySet
<1>6. Cardinality(Writes(more, a, n, n)) =
        IF o.agent = a /\ IsNormalized(o.path) THEN 1 ELSE 0
  BY <1>4, <1>5
<1>7. Writes(more, a, 1, Len(ops)) = Writes(ops, a, 1, Len(ops))
  BY <1>1, <1>2
<1>. QED
  BY <1>2, <1>3, <1>6, <1>7 DEF more

\* Records stay in place when an operation follows.
LEMMA RecordKeeps ==
  ASSUME NEW ops \in Seq(Operations), NEW o \in Operations, NEW r,
         RecordInv(ops, r)
  PROVE  RecordInv(Append(ops, o), r)
<1>1. /\ r.id \in 1 .. Len(ops)
      /\ Len(ops) \in Nat /\ Len(Append(ops, o)) = Len(ops) + 1
      /\ Append(ops, o)[r.id] = ops[r.id]
  BY DEF RecordInv
<1>2. Writes(Append(ops, o), r.agent, 1, r.id) = Writes(ops, r.agent, 1, r.id)
  <2>1. \A m \in 0 .. Len(ops) :
          Writes(Append(ops, o), r.agent, 1, m) = Writes(ops, r.agent, 1, m)
    BY WritesAppend
  <2>2. r.id \in 0 .. Len(ops)
    BY <1>1
  <2>. QED
    BY <2>1, <2>2
<1>. QED
  BY <1>1, <1>2 DEF RecordInv

\* What the agent frames the host accepts, whole; and cut short it does not.
LEMMA WireAgrees ==
  ASSUME NEW ops, NEW r, RecordInv(ops, r)
  PROVE  /\ ToFrame(r) \in Frames /\ ToFrame(r).record = r
         /\ FromFrame(ToFrame(r)) = "Ok"
         /\ \A n : n < ToFrame(r).actual =>
              FromFrame([ToFrame(r) EXCEPT !.actual = n]) # "Ok"
<1>. DEFINE b == PathBytes[r.path]
            f == ToFrame(r)
<1>1. /\ b \in 1 .. MaxPathBytes /\ r \in Records
      /\ IsNormalized(r.path)
      /\ r.major = 1 /\ r.operation = 1 /\ r.flags = 0
      /\ r.sequence_number # 0
  BY DEF RecordInv, Framed
<1>2. b \in Nat /\ b <= 4096 /\ b >= 1
  <2>1. b \in 1 .. 4096
    BY <1>1 DEF MaxPathBytes
  <2>. HIDE DEF b
  <2>. QED
    BY <2>1
<1>3. b % 65536 = b
  BY <1>2
<1>4. f = [record |-> r, declared |-> 149 + b, actual |-> 149 + b,
           path_len |-> b, utf8 |-> TRUE]
  <2>. DEFINE size == HeaderSize + b
              rest == b % 65536
  <2>1. f = [record |-> r, declared |-> size, actual |-> size,
             path_len |-> rest, utf8 |-> TRUE]
    BY DEF ToFrame
  <2>2. size = 149 + b /\ rest = b
    BY <1>3 DEF HeaderSize
  <2>. HIDE DEF b, f, size, rest
  <2>. QED
    BY <2>1, <2>2, Zenon
<1>. HIDE DEF b, f
<1>5. f \in Frames /\ f.record = r
  BY <1>1, <1>2, <1>4 DEF Frames
<1>6. FromFrame(f) = "Ok"
  BY <1>1, <1>2, <1>4 DEF FromFrame, FromPayload, MinPayload, MaxPayload,
     HeaderSize, MaxPathBytes
<1>7. ASSUME NEW n, n < f.actual
      PROVE  FromFrame([f EXCEPT !.actual = n]) # "Ok"
  <2>1. /\ [f EXCEPT !.actual = n].actual = n
        /\ [f EXCEPT !.actual = n].declared = 149 + b
        /\ f.actual = 149 + b
    BY <1>4
  <2>2. n # 149 + b
    BY <1>2, <1>7, <2>1
  <2>. QED
    BY <2>1, <2>2 DEF FromFrame
<1>. QED
  BY <1>5, <1>6, <1>7 DEF f

LEMMA OperationKeeps ==
  ASSUME AgentInv, NEW path \in GuestPaths, RecordOperation(path)
  PROVE  AgentInv'
<1>. DEFINE r == GuestWriteRecord(path)
            o == [agent |-> agent, path |-> path]
            n == Len(operations) + 1
<1>1. /\ operations' = Append(operations, o)
      /\ sequence_counter' = IF IsNormalized(path) THEN sequence_counter + 1
                             ELSE sequence_counter
      /\ stream' = IF Framed(r) THEN Append(stream, ToFrame(r)) ELSE stream
      /\ UNCHANGED <<agent, decoded, turnedAway>>
  BY DEF RecordOperation, TakeNumber, GuestWriteRecord
<1>2. /\ agent \in Nat /\ operations \in Seq(Operations) /\ o \in Operations
      /\ o.agent = agent /\ o.path = path
      /\ stream \in Seq(Frames) /\ decoded \in Seq(Records)
      /\ Len(operations) \in Nat
  BY DEF AgentInv, Operations
<1>3. sequence_counter \in Nat \ {0}
  BY <1>2, WritesFinite DEF AgentInv
<1>4. Cardinality(Writes(operations', agent, 1, n)) =
        Cardinality(Writes(operations, agent, 1, Len(operations)))
          + IF IsNormalized(path) THEN 1 ELSE 0
  BY <1>1, <1>2, WritesAppend
<1>5. /\ operations' \in Seq(Operations) /\ Len(operations') = n
      /\ operations'[n] = o
      /\ \A k \in DOMAIN operations : operations'[k] = operations[k]
      /\ DOMAIN operations' = DOMAIN operations \cup {n}
  BY <1>1, <1>2
<1>6. \A s : RecordInv(operations, s) => RecordInv(operations', s) /\ s.id < n
  <2>1. ASSUME NEW s, RecordInv(operations, s)
        PROVE  RecordInv(operations', s)
    BY <1>1, <1>2, <2>1, RecordKeeps
  <2>2. ASSUME NEW s, RecordInv(operations, s)
        PROVE  s.id < n
    BY <1>2, <2>2 DEF RecordInv
  <2>. QED
    BY <2>1, <2>2
<1>7. Framed(r) => RecordInv(operations', r) /\ r.id = n
  <2>1. r \in Records /\ r.id = n /\ r.path = path /\ r.agent = agent
        /\ r.major = 1 /\ r.operation = 1 /\ r.flags = 0
        /\ r.sequence_number = sequence_counter
    BY <1>2, <1>3 DEF Records, GuestWriteRecord
  <2>. HIDE DEF r
  <2>2. Framed(r) => IsNormalized(path)
    BY <2>1 DEF Framed
  <2>3. IsNormalized(path) =>
          sequence_counter = Cardinality(Writes(operations', agent, 1, n))
    BY <1>2, <1>4, WritesFinite DEF AgentInv
  <2>. QED
    BY <1>2, <1>3, <1>5, <2>1, <2>2, <2>3 DEF RecordInv
<1>8. sequence_counter' =
        Cardinality(Writes(operations', agent, 1, n)) + 1
  BY <1>1, <1>2, <1>4, WritesFinite DEF AgentInv
<1>9. \A k \in DOMAIN operations' : operations'[k].agent <= agent
  BY <1>2, <1>5 DEF AgentInv
<1>10. \A i \in DOMAIN decoded :
         RecordInv(operations', decoded[i]) /\ decoded[i].id < n
  BY <1>6 DEF AgentInv
<1>11. \A i \in DOMAIN stream :
         /\ stream[i] = ToFrame(stream[i].record)
         /\ RecordInv(operations', stream[i].record)
         /\ stream[i].record.id < n
  BY <1>6 DEF AgentInv
<1>. HIDE DEF r, o
<1>12. CASE ~Framed(r)
  BY <1>1, <1>2, <1>5, <1>8, <1>9, <1>10, <1>11, <1>12 DEF AgentInv
<1>13. CASE Framed(r)
  <2>1. /\ ToFrame(r) \in Frames /\ ToFrame(r).record = r
        /\ RecordInv(operations', r) /\ r.id = n
    BY <1>7, <1>13, WireAgrees
  <2>2. stream' = Append(stream, ToFrame(r))
    BY <1>1, <1>13
  <2>3. /\ stream' \in Seq(Frames)
        /\ DOMAIN stream' = DOMAIN stream \cup {Len(stream) + 1}
        /\ \A i \in DOMAIN stream : stream'[i] = stream[i] /\ i < Len(stream) + 1
        /\ stream'[Len(stream) + 1] = ToFrame(r)
        /\ Len(stream) \in Nat /\ DOMAIN stream = 1 .. Len(stream)
    BY <1>2, <2>1, <2>2
  <2>4. \A i \in DOMAIN stream' :
          /\ stream'[i] = ToFrame(stream'[i].record)
          /\ RecordInv(operations', stream'[i].record)
    BY <1>11, <2>1, <2>3
  <2>5. \A i, j \in DOMAIN stream' :
          i < j => stream'[i].record.id < stream'[j].record.id
    BY <1>11, <2>1, <2>3 DEF AgentInv
  <2>6. \A i \in DOMAIN decoded, j \in DOMAIN stream' :
          decoded[i].id < stream'[j].record.id
    BY <1>10, <2>1, <2>3 DEF AgentInv
  <2>. QED
    BY <1>1, <1>2, <1>5, <1>8, <1>9, <1>10, <2>3, <2>4, <2>5, <2>6 DEF AgentInv
<1>. QED
  BY <1>12, <1>13

LEMMA RestartKeeps ==
  ASSUME AgentInv, AgentRestarts
  PROVE  AgentInv'
<1>1. /\ agent' = agent + 1 /\ sequence_counter' = 1
      /\ UNCHANGED <<operations, stream, decoded, turnedAway>>
  BY DEF AgentRestarts
<1>2. /\ operations \in Seq(Operations) /\ agent \in Nat
      /\ \A k \in DOMAIN operations :
           operations[k].agent \in Nat /\ operations[k].agent <= agent
  <2>1. /\ operations \in Seq(Operations) /\ agent \in Nat
        /\ \A k \in DOMAIN operations : operations[k].agent <= agent
    BY DEF AgentInv
  <2>2. ASSUME NEW k \in DOMAIN operations
        PROVE  operations[k].agent \in Nat
    <3>1. operations[k] \in Operations
      BY <2>1
    <3>. QED
      BY <3>1 DEF Operations
  <2>. QED
    BY <2>1, <2>2
<1>3. Writes(operations', agent', 1, Len(operations')) = {}
  BY <1>1, <1>2 DEF Writes
<1>4. sequence_counter' =
        Cardinality(Writes(operations', agent', 1, Len(operations'))) + 1
  BY <1>1, <1>3, FS_EmptySet
<1>5. agent' \in Nat /\ \A k \in DOMAIN operations' :
        operations'[k].agent <= agent'
  BY <1>1, <1>2
<1>. QED
  BY <1>1, <1>4, <1>5 DEF AgentInv

LEMMA ReceiveKeeps ==
  ASSUME AgentInv, ReceiveFrame
  PROVE  AgentInv'
<1>. DEFINE r == stream[1].record
<1>1. stream \in Seq(Frames) /\ stream # <<>> /\ decoded \in Seq(Records)
  BY DEF AgentInv, ReceiveFrame
<1>2. /\ 1 \in DOMAIN stream /\ Head(stream) = stream[1]
      /\ Len(stream) \in Nat /\ Len(stream) >= 1
      /\ Tail(stream) \in Seq(Frames)
      /\ DOMAIN Tail(stream) = 1 .. Len(stream) - 1
      /\ \A i \in 1 .. Len(stream) - 1 :
           /\ Tail(stream)[i] = stream[i + 1]
           /\ i + 1 \in DOMAIN stream /\ 1 < i + 1
  BY <1>1
<1>3. /\ RecordInv(operations, r) /\ stream[1] = ToFrame(r)
      /\ r \in Records
  BY <1>2 DEF AgentInv, RecordInv
<1>. HIDE DEF r
<1>4. FromFrame(Head(stream)) = "Ok" /\ Head(stream).record = r
  BY <1>2, <1>3, WireAgrees
<1>5. /\ decoded' = Append(decoded, r) /\ stream' = Tail(stream)
      /\ UNCHANGED <<sequence_counter, agent, operations, turnedAway>>
  BY <1>4 DEF ReceiveFrame
<1>6. /\ decoded' \in Seq(Records)
      /\ DOMAIN decoded' = DOMAIN decoded \cup {Len(decoded) + 1}
      /\ \A i \in DOMAIN decoded :
           decoded'[i] = decoded[i] /\ i < Len(decoded) + 1
      /\ decoded'[Len(decoded) + 1] = r
      /\ Len(decoded) \in Nat /\ DOMAIN decoded = 1 .. Len(decoded)
  BY <1>1, <1>3, <1>5
<1>7. \A i \in DOMAIN decoded : decoded[i].id < r.id
  BY <1>2 DEF AgentInv, r
<1>8. \A j \in 1 .. Len(stream) - 1 : r.id < stream[j + 1].record.id
  BY <1>2 DEF AgentInv, r
<1>9. \A i \in DOMAIN decoded' : RecordInv(operations, decoded'[i])
  BY <1>3, <1>6 DEF AgentInv
<1>10. \A i, j \in DOMAIN decoded' : i < j => decoded'[i].id < decoded'[j].id
  BY <1>6, <1>7 DEF AgentInv
<1>11. \A i \in DOMAIN stream' :
         /\ stream'[i] = ToFrame(stream'[i].record)
         /\ RecordInv(operations, stream'[i].record)
  BY <1>2, <1>5 DEF AgentInv
<1>12. \A i, j \in DOMAIN stream' :
         i < j => stream'[i].record.id < stream'[j].record.id
  <2>1. DOMAIN stream' = 1 .. Len(stream) - 1
    BY <1>2, <1>5
  <2>2. \A i \in 1 .. Len(stream) - 1 :
          stream'[i] = stream[i + 1] /\ i + 1 \in DOMAIN stream
    BY <1>2, <1>5
  <2>3. \A i, j \in 1 .. Len(stream) - 1 : i < j => i + 1 < j + 1
    OBVIOUS
  <2>4. \A i, j \in DOMAIN stream :
          i < j => stream[i].record.id < stream[j].record.id
    BY DEF AgentInv
  <2>. QED
    BY <2>1, <2>2, <2>3, <2>4, Zenon
<1>13. \A i \in DOMAIN decoded', j \in DOMAIN stream' :
         decoded'[i].id < stream'[j].record.id
  <2>1. \A j \in DOMAIN stream' :
          /\ j + 1 \in DOMAIN stream /\ stream'[j] = stream[j + 1]
          /\ r.id < stream'[j].record.id
    BY <1>2, <1>5, <1>8
  <2>2. \A i \in DOMAIN decoded, j \in DOMAIN stream :
          decoded[i].id < stream[j].record.id
    BY DEF AgentInv
  <2>. QED
    BY <1>6, <2>1, <2>2
<1>. QED
  BY <1>2, <1>5, <1>6, <1>9, <1>10, <1>11, <1>12, <1>13 DEF AgentInv

LEMMA EndKeeps ==
  ASSUME AgentInv, NEW n, ConnectionEnds(n)
  PROVE  AgentInv'
<1>1. stream \in Seq(Frames) /\ stream # <<>> /\ n < Head(stream).actual
  BY DEF AgentInv, ConnectionEnds
<1>2. 1 \in DOMAIN stream /\ Head(stream) = stream[1]
  BY <1>1
<1>3. PICK r : RecordInv(operations, r) /\ Head(stream) = ToFrame(r)
  BY <1>2 DEF AgentInv
<1>4. FromFrame([Head(stream) EXCEPT !.actual = n]) # "Ok"
  BY <1>1, <1>3, WireAgrees
<1>5. /\ stream' = <<>>
      /\ UNCHANGED <<decoded, sequence_counter, agent, operations, turnedAway>>
  BY <1>4 DEF ConnectionEnds
<1>6. stream' \in Seq(Frames) /\ DOMAIN stream' = {}
  BY <1>5
<1>. QED
  BY <1>5, <1>6 DEF AgentInv

LEMMA AgentStep ==
  ASSUME AgentInv, [DetectorsNext]_detectorVars
  PROVE  AgentInv'
<1>1. CASE UNCHANGED agentVars
  BY <1>1 DEF agentVars, AgentInv
<1>2. CASE AgentNext
  BY <1>2, OperationKeeps, RestartKeeps, ReceiveKeeps, EndKeeps DEF AgentNext
<1>. QED
  BY <1>1, <1>2 DEF DetectorsNext, detectorVars, Tick

LEMMA AgentInvariant == DetectorsSpec => []AgentInv
<1>1. DetectorsInit => AgentInv
  <2>. SUFFICES ASSUME DetectorsInit PROVE AgentInv
    OBVIOUS
  <2>1. /\ sequence_counter = 1 /\ agent = 0 /\ operations = <<>>
        /\ stream = <<>> /\ decoded = <<>> /\ turnedAway = 0
    BY DEF DetectorsInit, AgentInit
  <2>2. /\ <<>> \in Seq(Operations) /\ <<>> \in Seq(Frames)
        /\ <<>> \in Seq(Records) /\ Len(<<>>) = 0 /\ DOMAIN <<>> = {}
    OBVIOUS
  <2>3. Writes(<<>>, 0, 1, 0) = {}
    BY DEF Writes
  <2>4. Cardinality(Writes(operations, agent, 1, Len(operations))) = 0
    BY <2>1, <2>2, <2>3, FS_EmptySet
  <2>. QED
    BY <2>1, <2>2, <2>4 DEF AgentInv
<1>. QED
  BY <1>1, AgentStep, PTL DEF DetectorsSpec

\* The agent and the host agree about the wire for every path and any number of
\* cut connections and restarts: no whole frame is refused, and each record that
\* is decoded is of one operation, in order (to_frame, from_frame).
THEOREM RecordsInOrder == DetectorsSpec => []DecodedInOrder
<1>1. ASSUME AgentInv PROVE DecodedInOrder
  <2>1. ASSUME NEW i \in DOMAIN decoded
        PROVE  /\ decoded[i].path = operations[decoded[i].id].path
               /\ i > 1 => decoded[i - 1].id < decoded[i].id
    <3>1. decoded \in Seq(Records)
      BY <1>1 DEF AgentInv
    <3>2. i > 1 => i - 1 \in DOMAIN decoded /\ i - 1 < i
      BY <3>1
    <3>. QED
      BY <1>1, <3>2 DEF AgentInv, RecordInv
  <2>. QED
    BY <1>1, <2>1 DEF AgentInv, DecodedInOrder
<1>. QED
  BY <1>1, AgentInvariant, PTL

\* Between two records of one session the numbers advance by the writes under
\* /mnt in between: whatever was cut, lost or too long shows as a gap
\* (record_operation).
THEOREM LossesShow == DetectorsSpec => []LossesShowAsGaps
<1>1. ASSUME AgentInv PROVE LossesShowAsGaps
  <2>1. ASSUME NEW i \in DOMAIN decoded, NEW j \in DOMAIN decoded,
               i < j, decoded[i].agent = decoded[j].agent
        PROVE  decoded[j].sequence_number - decoded[i].sequence_number =
                 Cardinality({k \in decoded[i].id + 1 .. decoded[j].id :
                   /\ operations[k].agent = decoded[j].agent
                   /\ IsNormalized(operations[k].path)})
    <3>. DEFINE a == decoded[j].agent
                m == decoded[i].id
                n == decoded[j].id
    <3>1. m \in Nat /\ n \in Nat /\ m < n
      BY <1>1, <2>1 DEF AgentInv, RecordInv, Records
    <3>2. /\ decoded[i].sequence_number = Cardinality(Writes(operations, a, 1, m))
          /\ decoded[j].sequence_number = Cardinality(Writes(operations, a, 1, n))
      BY <1>1, <2>1 DEF AgentInv, RecordInv
    <3>. HIDE DEF a, m, n
    <3>3. /\ Cardinality(Writes(operations, a, 1, m)) \in Nat
          /\ Cardinality(Writes(operations, a, m + 1, n)) \in Nat
      BY <3>1, WritesFinite
    <3>4. Cardinality(Writes(operations, a, 1, n)) =
            Cardinality(Writes(operations, a, 1, m))
              + Cardinality(Writes(operations, a, m + 1, n))
      BY <3>1, WritesSplit
    <3>5. decoded[j].sequence_number - decoded[i].sequence_number =
            Cardinality(Writes(operations, a, m + 1, n))
      BY <3>2, <3>3, <3>4
    <3>. QED
      BY <3>5 DEF Writes, a, m, n
  <2>. QED
    BY <2>1 DEF LossesShowAsGaps
<1>. QED
  BY <1>1, AgentInvariant, PTL

-----------------------------------------------------------------------------
(***************************************************************************)
(* Security events.                                                        *)
(***************************************************************************)

SecurityEvents == [event_id: EventIds, ts: Nat, user: Users]

\* The events that have left the window.
Dropped == Len(delivered) - Len(events)

\* The window holds the last events delivered, no more and no fewer, in their
\* order; what is delivered was stamped in the past, and no further back than
\* the skew, so nothing is stamped later than that after the last one.
EventsInv ==
  /\ now \in Nat
  /\ delivered \in Seq(SecurityEvents) /\ events \in Seq(SecurityEvents)
  /\ Len(events) =
       IF Len(delivered) < EventWindow THEN Len(delivered) ELSE EventWindow
  /\ \A i \in 1 .. Len(events) : events[i] = delivered[i + Dropped]
  /\ \A i \in DOMAIN delivered : delivered[i].ts <= now
  /\ delivered # <<>> =>
       \A i \in DOMAIN delivered : delivered[i].ts <= Last.ts + MaxSkew
  /\ alert = IF delivered = <<>> THEN "None" ELSE CorrelateRecent(events, Last)

LEMMA IngestKeeps ==
  ASSUME EventsInv, UNCHANGED now,
         NEW kind \in EventIds, NEW user \in Users, NEW t \in Stamps,
         IngestEvent(SecurityEventRecord(kind, t, user))
  PROVE  EventsInv'
<1>. DEFINE e == SecurityEventRecord(kind, t, user)
            n == Len(delivered)
            w == Len(events)
<1>1. now \in Nat /\ t \in Nat /\ t <= now /\ now <= t + MaxSkew
  BY EventsAssumption DEF EventsInv, Stamps
<1>2. e \in SecurityEvents /\ e.ts = t
  BY <1>1 DEF SecurityEvents, SecurityEventRecord
<1>3. /\ events' = Push(events, e)
      /\ alert' = CorrelateRecent(events', e)
      /\ delivered' = Append(delivered, e)
  BY DEF IngestEvent
<1>. HIDE DEF e
<1>4. /\ delivered \in Seq(SecurityEvents) /\ events \in Seq(SecurityEvents)
      /\ n \in Nat /\ w \in Nat
      /\ w = IF n < EventWindow THEN n ELSE EventWindow
      /\ \A i \in 1 .. w : events[i] = delivered[i + (n - w)]
  BY DEF EventsInv, Dropped
<1>5. /\ delivered' \in Seq(SecurityEvents) /\ Len(delivered') = n + 1
      /\ DOMAIN delivered' = 1 .. n + 1 /\ DOMAIN delivered = 1 .. n
      /\ delivered'[n + 1] = e
      /\ \A i \in 1 .. n : delivered'[i] = delivered[i]
      /\ delivered' # <<>>
  BY <1>2, <1>3, <1>4
<1>6. Last' = e
  BY <1>5 DEF Last
<1>7. /\ events' \in Seq(SecurityEvents)
      /\ Len(events') = IF Len(delivered') < EventWindow
                        THEN Len(delivered') ELSE EventWindow
      /\ \A i \in 1 .. Len(events') :
           events'[i] = delivered'[i + (Len(delivered') - Len(events'))]
  <2>1. CASE w = EventWindow
    <3>1. /\ w >= 1 /\ events # <<>>
          /\ Tail(events) \in Seq(SecurityEvents)
          /\ Len(Tail(events)) = w - 1
          /\ \A i \in 1 .. w - 1 : Tail(events)[i] = events[i + 1]
      BY <1>4, <2>1, EventsAssumption
    <3>2. events' = Append(Tail(events), e)
      BY <1>3, <2>1 DEF Push
    <3>3. /\ events' \in Seq(SecurityEvents) /\ Len(events') = w
          /\ events'[w] = e
          /\ \A i \in 1 .. w - 1 : events'[i] = events[i + 1]
      BY <1>2, <1>4, <3>1, <3>2
    <3>4. ASSUME NEW i \in 1 .. w
          PROVE  events'[i] = delivered'[i + (n + 1 - w)]
      <4>1. n \in Nat /\ w \in Nat /\ w <= n
        BY <1>4, EventsAssumption
      <4>2. CASE i = w
        <5>1. i + (n + 1 - w) = n + 1
          BY <4>1, <4>2
        <5>. QED
          BY <1>5, <3>3, <4>2, <5>1
      <4>3. CASE i # w
        <5>1. /\ i \in 1 .. w - 1 /\ i + 1 \in 1 .. w
              /\ (i + 1) + (n - w) = i + (n + 1 - w)
              /\ i + (n + 1 - w) \in 1 .. n
          BY <4>1, <4>3
        <5>. QED
          BY <1>4, <1>5, <3>3, <5>1
      <4>. QED
        BY <4>2, <4>3
    <3>5. Len(events') = EventWindow /\ n + 1 >= EventWindow
      BY <1>4, <2>1, <3>3, EventsAssumption
    <3>6. Len(delivered') - Len(events') = n + 1 - w
      BY <1>5, <3>3
    <3>7. \A i \in 1 .. Len(events') :
            events'[i] = delivered'[i + (Len(delivered') - Len(events'))]
      BY <3>3, <3>4, <3>6
    <3>8. Len(events') = IF Len(delivered') < EventWindow
                         THEN Len(delivered') ELSE EventWindow
      <4>1. EventWindow \in Nat /\ n \in Nat /\ Len(delivered') = n + 1
        BY <1>4, <1>5, EventsAssumption
      <4>2. ~(Len(delivered') < EventWindow)
        BY <3>5, <4>1
      <4>. QED
        BY <3>5, <4>2
    <3>. QED
      BY <3>3, <3>7, <3>8
  <2>2. CASE w # EventWindow
    <3>1. events' = Append(events, e) /\ w = n /\ n < EventWindow
      BY <1>3, <1>4, <2>2 DEF Push
    <3>2. /\ events' \in Seq(SecurityEvents) /\ Len(events') = w + 1
          /\ events'[w + 1] = e
          /\ \A i \in 1 .. w : events'[i] = events[i]
      BY <1>2, <1>4, <3>1
    <3>3. \A i \in 1 .. w + 1 : events'[i] = delivered'[i]
      BY <1>4, <1>5, <3>1, <3>2
    <3>. QED
      BY <1>4, <1>5, <3>1, <3>2, <3>3, EventsAssumption
  <2>. QED
    BY <2>1, <2>2
<1>8. \A i \in DOMAIN delivered' :
        delivered'[i].ts <= now /\ delivered'[i].ts <= e.ts + MaxSkew
  <2>1. TAKE i \in DOMAIN delivered'
  <2>2. CASE i = n + 1
    BY <1>1, <1>2, <1>5, <2>2, EventsAssumption
  <2>3. CASE i \in 1 .. n
    <3>1. delivered[i] \in SecurityEvents /\ delivered[i].ts <= now
      BY <1>4, <1>5, <2>3 DEF EventsInv
    <3>2. delivered[i].ts \in Nat
      BY <3>1 DEF SecurityEvents
    <3>. QED
      BY <1>1, <1>2, <1>5, <2>3, <3>1, <3>2, EventsAssumption
  <2>. QED
    BY <1>4, <1>5, <2>2, <2>3
<1>. QED
  BY <1>1, <1>3, <1>5, <1>6, <1>7, <1>8 DEF EventsInv, Dropped

LEMMA EventsStep ==
  ASSUME EventsInv, [DetectorsNext]_detectorVars
  PROVE  EventsInv'
<1>1. CASE UNCHANGED <<now, eventVars>>
  BY <1>1 DEF eventVars, EventsInv, Last, Dropped
<1>2. CASE EventsNext /\ UNCHANGED now
  BY <1>2, IngestKeeps DEF EventsNext
<1>3. CASE now' = now + 1 /\ UNCHANGED eventVars
  <2>1. UNCHANGED <<events, alert, delivered, Last, Dropped>>
    BY <1>3 DEF eventVars, Last, Dropped
  <2>2. now' \in Nat /\ now \in Nat
    BY <1>3 DEF EventsInv
  <2>3. \A i \in DOMAIN delivered : delivered[i].ts <= now'
    <3>1. TAKE i \in DOMAIN delivered
    <3>2. delivered[i] \in SecurityEvents /\ delivered[i].ts <= now
      BY DEF EventsInv
    <3>3. delivered[i].ts \in Nat
      BY <3>2 DEF SecurityEvents
    <3>. QED
      BY <1>3, <2>2, <3>2, <3>3
  <2>. QED
    BY <2>1, <2>2, <2>3 DEF EventsInv
<1>. QED
  BY <1>1, <1>2, <1>3 DEF DetectorsNext, detectorVars, Tick

LEMMA EventsInvariant == DetectorsSpec => []EventsInv
<1>1. DetectorsInit => EventsInv
  <2>. SUFFICES ASSUME DetectorsInit PROVE EventsInv
    OBVIOUS
  <2>1. now = 0 /\ events = <<>> /\ alert = "None" /\ delivered = <<>>
    BY DEF DetectorsInit, EventsInit
  <2>2. <<>> \in Seq(SecurityEvents) /\ Len(<<>>) = 0 /\ DOMAIN <<>> = {}
    OBVIOUS
  <2>. QED
    BY <2>1, <2>2, EventsAssumption DEF EventsInv
<1>. QED
  BY <1>1, EventsStep, PTL DEF DetectorsSpec

LEMMA IntervalPart ==
  ASSUME NEW n \in Nat, NEW S, S \subseteq 1 .. n
  PROVE  IsFiniteSet(S) /\ Cardinality(S) \in Nat
<1>1. IsFiniteSet(1 .. n)
  BY FS_Interval
<1>2. IsFiniteSet(S)
  BY <1>1, FS_Subset
<1>. QED
  BY <1>2, FS_CardinalityType

LEMMA MinIsLeast ==
  ASSUME NEW S, S \subseteq Nat, S # {}
  PROVE  Min(S) \in S /\ \A y \in S : Min(S) <= y
<1>1. PICK x \in S : \A y \in S : ~(<<y, x>> \in OpToRel(<, Nat))
  BY NatLessThanWellFounded, WFMin, Zenon
<1>2. ASSUME NEW y \in S
      PROVE  ~(y < x)
  <2>1. <<y, x>> \in Nat \X Nat /\ <<y, x>>[1] = y /\ <<y, x>>[2] = x
    OBVIOUS
  <2>. QED
    BY <1>1, <2>1, Zenon DEF OpToRel
<1>3. \A y \in S : x <= y
  BY <1>2, SMTT(30)
<1>. QED
  BY <1>3 DEF Min

\* The failures in the window that count against the logon e.
Counted(e) ==
  {i \in DOMAIN events :
     /\ events[i].event_id = "LogonFailure" /\ events[i].user = e.user
     /\ e.ts - events[i].ts <= FailureSpan}

\* The failures around the last event.
Around == Failures(Last.ts - FailureSpan, Last.ts + MaxSkew)

\* What counts in the window is what counts among all events, but for those
\* that have been dropped.
LEMMA CountedAreAround ==
  ASSUME EventsInv, delivered # <<>>
  PROVE  /\ Around \subseteq 1 .. Len(delivered) /\ Len(delivered) \in Nat
         /\ Dropped \in Nat /\ Dropped + Len(events) = Len(delivered)
         /\ Counted(Last) \subseteq 1 .. Len(events) /\ Len(events) \in Nat
         /\ \A i \in 1 .. Len(events) :
              i \in Counted(Last) <=> i + Dropped \in Around
<1>1. /\ delivered \in Seq(SecurityEvents) /\ events \in Seq(SecurityEvents)
      /\ Len(events) =
           IF Len(delivered) < EventWindow THEN Len(delivered) ELSE EventWindow
      /\ \A i \in 1 .. Len(events) : events[i] = delivered[i + Dropped]
      /\ \A i \in DOMAIN delivered : delivered[i].ts <= Last.ts + MaxSkew
  BY DEF EventsInv
<1>2. /\ Len(delivered) \in Nat /\ Len(events) \in Nat
      /\ DOMAIN delivered = 1 .. Len(delivered)
      /\ DOMAIN events = 1 .. Len(events) /\ Len(delivered) >= 1
  BY <1>1
<1>3. Dropped \in Nat /\ Dropped + Len(events) = Len(delivered)
  BY <1>1, <1>2, EventsAssumption DEF Dropped
<1>4. Around \subseteq 1 .. Len(delivered) /\ Counted(Last) \subseteq 1 .. Len(events)
  BY <1>2 DEF Around, Failures, Counted
<1>5. Last.ts \in Nat
  <2>1. Last \in SecurityEvents
    BY <1>1, <1>2 DEF Last
  <2>. QED
    BY <2>1 DEF SecurityEvents
<1>6. ASSUME NEW i \in 1 .. Len(events)
      PROVE  i \in Counted(Last) <=> i + Dropped \in Around
  <2>1. /\ i + Dropped \in DOMAIN delivered
        /\ events[i] = delivered[i + Dropped]
    <3>1. i + Dropped \in 1 .. Len(delivered)
      BY <1>2, <1>3
    <3>. QED
      BY <1>1, <1>2, <3>1
  <2>2. /\ delivered[i + Dropped] \in SecurityEvents
        /\ delivered[i + Dropped].ts <= Last.ts + MaxSkew
    BY <1>1, <2>1
  <2>3. delivered[i + Dropped].ts \in Nat
    BY <2>2 DEF SecurityEvents
  <2>4. (Last.ts - events[i].ts <= FailureSpan) <=>
          delivered[i + Dropped].ts
            \in (Last.ts - FailureSpan) .. (Last.ts + MaxSkew)
    BY <1>5, <2>1, <2>2, <2>3, EventsAssumption
  <2>. QED
    BY <1>2, <2>1, <2>4 DEF Around, Counted, Failures
<1>. QED
  BY <1>2, <1>3, <1>4, <1>6

\* The report of a brute force rests on as many failures of the account as the
\* limit asks for, none counted twice (correlate_recent).
THEOREM BruteForceReal == DetectorsSpec => []BruteForceIsReal
<1>1. ASSUME EventsInv, alert = "BruteForceCompromised"
      PROVE  Cardinality(Around) >= FailureLimit
  <2>1. delivered # <<>> /\ alert = CorrelateRecent(events, Last)
    BY <1>1 DEF EventsInv
  <2>2. Cardinality(Counted(Last)) >= FailureLimit
    <3>1. Last.event_id = "LogonSuccess"
      BY <1>1, <2>1 DEF CorrelateRecent
    <3>2. RecentFailures(events, Last) >= FailureLimit
      BY <1>1, <2>1, <3>1 DEF CorrelateRecent
    <3>. QED
      BY <3>2 DEF RecentFailures, Counted
  <2>. DEFINE C == Counted(Last)
              f == [i \in C |-> i + Dropped]
  <2>3. /\ Around \subseteq 1 .. Len(delivered) /\ Len(delivered) \in Nat
        /\ Dropped \in Nat /\ C \subseteq 1 .. Len(events) /\ Len(events) \in Nat
        /\ \A i \in C : i + Dropped \in Around
    BY <1>1, <2>1, CountedAreAround
  <2>. HIDE DEF C
  <2>4. f \in Injection(C, Around)
    <3>1. f \in [C -> Around]
      BY <2>3
    <3>2. \A i, j \in C : f[i] = f[j] => i = j
      BY <2>3
    <3>. QED
      BY <3>1, <3>2 DEF Injection, IsInjective
  <2>. HIDE DEF f
  <2>5. IsFiniteSet(Around)
    BY <2>3, IntervalPart
  <2>6. IsFiniteSet(C) /\ Cardinality(C) <= Cardinality(Around)
    BY <2>4, <2>5, FS_Injection
  <2>7. Cardinality(C) \in Nat /\ Cardinality(Around) \in Nat
    BY <2>5, <2>6, FS_CardinalityType
  <2>8. Cardinality(C) >= FailureLimit
    BY <2>2 DEF C
  <2>. QED
    BY <2>6, <2>7, <2>8, EventsAssumption
<1>2. EventsInv => BruteForceIsReal
  BY <1>1 DEF BruteForceIsReal, Around
<1>. QED
  BY <1>2, EventsInvariant, PTL

\* A brute force that is not reported was flooded out of the window: whichever
\* failures would have made it, the window holds fewer events than came in
\* since the first of them (record_event).
THEOREM MissedByFlood == DetectorsSpec => []MissedOnlyByFlood
<1>1. ASSUME EventsInv, delivered # <<>>, Last.event_id = "LogonSuccess",
             alert = "None", NEW S \in SUBSET Around,
             Cardinality(S) = FailureLimit,
             ~(Len(delivered) - Min(S) >= EventWindow)
      PROVE  FALSE
  <2>1. Cardinality(Counted(Last)) < FailureLimit
    <3>1. alert = CorrelateRecent(events, Last)
      BY <1>1 DEF EventsInv
    <3>2. ~(RecentFailures(events, Last) >= FailureLimit)
      BY <1>1, <3>1 DEF CorrelateRecent
    <3>3. Counted(Last) \subseteq 1 .. Len(events) /\ Len(events) \in Nat
      BY <1>1, CountedAreAround
    <3>4. Cardinality(Counted(Last)) \in Nat
      BY <3>3, IntervalPart
    <3>. QED
      BY <3>2, <3>4, EventsAssumption DEF RecentFailures, Counted
  <2>. DEFINE C == Counted(Last)
              f == [i \in S |-> i - Dropped]
  <2>2. /\ Around \subseteq 1 .. Len(delivered) /\ Len(delivered) \in Nat
        /\ Dropped \in Nat /\ Dropped + Len(events) = Len(delivered)
        /\ C \subseteq 1 .. Len(events) /\ Len(events) \in Nat
        /\ \A i \in 1 .. Len(events) : i + Dropped \in Around => i \in C
    BY <1>1, CountedAreAround
  <2>. HIDE DEF C
  <2>3. S \subseteq 1 .. Len(delivered)
    BY <2>2
  <2>4. IsFiniteSet(S) /\ S # {}
    <3>1. IsFiniteSet(S)
      BY <2>2, <2>3, IntervalPart
    <3>2. FailureLimit # 0
      BY EventsAssumption
    <3>. QED
      BY <1>1, <3>1, <3>2, FS_EmptySet
  <2>5. Min(S) \in S /\ \A i \in S : Min(S) <= i
    <3>1. S \subseteq Nat
      BY <2>2, <2>3
    <3>. QED
      BY <2>4, <3>1, MinIsLeast
  <2>6. \A i \in S : i - Dropped \in 1 .. Len(events)
    <3>1. Len(events) = Len(delivered) \/ Len(events) = EventWindow
      BY <1>1 DEF EventsInv
    <3>2. ~(Len(delivered) - Min(S) >= EventWindow) /\ Min(S) \in Nat
      <4>1. Min(S) \in 1 .. Len(delivered)
        BY <2>3, <2>5
      <4>. QED
        BY <1>1, <2>2, <4>1
    <3>3. TAKE i \in S
    <3>4. i \in 1 .. Len(delivered) /\ Min(S) <= i
      BY <2>3, <2>5
    <3>5. Dropped = 0 \/ Dropped < Min(S)
      BY <2>2, <3>1, <3>2, EventsAssumption
    <3>. QED
      BY <2>2, <3>2, <3>4, <3>5
  <2>7. f \in Injection(S, C)
    <3>1. \A i \in S : i - Dropped \in C
      <4>1. TAKE i \in S
      <4>2. (i - Dropped) + Dropped = i
        BY <2>2, <2>3
      <4>. QED
        BY <2>2, <2>6, <4>2
    <3>2. f \in [S -> C]
      BY <3>1
    <3>3. \A i, j \in S : f[i] = f[j] => i = j
      BY <2>2, <2>3
    <3>. QED
      BY <3>2, <3>3 DEF Injection, IsInjective
  <2>. HIDE DEF f
  <2>8. IsFiniteSet(C)
    BY <2>2, IntervalPart
  <2>9. Cardinality(S) <= Cardinality(C)
    BY <2>7, <2>8, FS_Injection
  <2>10. Cardinality(C) \in Nat /\ Cardinality(C) < FailureLimit
    BY <2>1, <2>8, FS_CardinalityType DEF C
  <2>. QED
    BY <1>1, <2>9, <2>10, EventsAssumption
<1>2. EventsInv => MissedOnlyByFlood
  BY <1>1 DEF MissedOnlyByFlood, Around
<1>. QED
  BY <1>2, EventsInvariant, PTL

-----------------------------------------------------------------------------
(***************************************************************************)
(* Sums, by induction over the number of values.                           *)
(***************************************************************************)

LEMMA UpToInduction ==
  ASSUME NEW n \in Nat, NEW S, 0 \in S,
         \A k \in 1 .. n : k - 1 \in S => k \in S
  PROVE  \A k \in 0 .. n : k \in S
<1>. DEFINE T == {k \in 0 .. n : k \notin S}
<1>1. ASSUME T # {} PROVE FALSE
  <2>1. T \subseteq Nat
    OBVIOUS
  <2>2. PICK m \in T : \A y \in T : m <= y
    <3>. HIDE DEF T
    <3>1. Min(T) \in T /\ \A y \in T : Min(T) <= y
      BY <1>1, <2>1, MinIsLeast
    <3>. QED
      BY <3>1
  <2>3. m \in 1 .. n /\ m - 1 \in 0 .. n /\ ~(m <= m - 1) /\ m \notin S
    BY <2>2
  <2>4. m - 1 \in S
    BY <2>2, <2>3
  <2>. QED
    BY <2>3, <2>4
<1>. QED
  BY <1>1

\* g holds the sums of the first values of v.
AreTotals(g, v, n) ==
  g = [k \in 0 .. n |-> IF k = 0 THEN 0 ELSE g[k - 1] + v[k]]

LEMMA TotalsExist ==
  ASSUME NEW v, NEW n \in Nat
  PROVE  \E g : AreTotals(g, v, n)
<1>. DEFINE S == {k \in Nat : \E g : AreTotals(g, v, k)}
<1>1. 0 \in S
  <2>. DEFINE g == [k \in 0 .. 0 |-> 0]
  <2>1. g = [k \in 0 .. 0 |-> IF k = 0 THEN 0 ELSE g[k - 1] + v[k]]
    OBVIOUS
  <2>. QED
    BY <2>1 DEF AreTotals
<1>2. ASSUME NEW m \in 1 .. n, m - 1 \in S PROVE m \in S
  <2>1. PICK g : AreTotals(g, v, m - 1)
    BY <1>2
  <2>. DEFINE h == [k \in 0 .. m |->
                      IF k = m THEN g[m - 1] + v[m] ELSE g[k]]
  <2>2. DOMAIN g = 0 .. m - 1 /\ \A k \in 0 .. m - 1 :
          g[k] = IF k = 0 THEN 0 ELSE g[k - 1] + v[k]
    BY <2>1 DEF AreTotals
  <2>3. ASSUME NEW k \in 0 .. m
        PROVE  h[k] = IF k = 0 THEN 0 ELSE h[k - 1] + v[k]
    <3>1. CASE k = m
      <4>1. k - 1 \in 0 .. m /\ k - 1 # m /\ k # 0
        BY <3>1
      <4>. QED
        BY <3>1, <4>1
    <3>2. CASE k # m
      <4>1. k \in 0 .. m - 1 /\ (k # 0 => k - 1 \in 0 .. m /\ k - 1 # m)
        BY <3>2
      <4>. QED
        BY <2>2, <3>2, <4>1
    <3>. QED
      BY <3>1, <3>2
  <2>4. AreTotals(h, v, m)
    <3>1. h = [k \in 0 .. m |-> h[k]]
      OBVIOUS
    <3>. HIDE DEF h
    <3>. QED
      BY <2>3, <3>1 DEF AreTotals
  <2>. QED
    BY <2>4
<1>. HIDE DEF S
<1>3. n \in S
  BY <1>1, <1>2, UpToInduction
<1>. QED
  BY <1>3 DEF S

LEMMA TotalsAdd ==
  ASSUME NEW v, NEW n \in Nat
  PROVE  /\ Totals(v, n)[0] = 0
         /\ \A k \in 1 .. n : Totals(v, n)[k] = Totals(v, n)[k - 1] + v[k]
<1>. DEFINE u == Totals(v, n)
<1>1. u = CHOOSE g : AreTotals(g, v, n)
  BY DEF Totals, AreTotals
<1>. HIDE DEF u
<1>2. AreTotals(u, v, n)
  BY <1>1, TotalsExist
<1>3. \A k \in 0 .. n : u[k] = IF k = 0 THEN 0 ELSE u[k - 1] + v[k]
  BY <1>2 DEF AreTotals
<1>. QED
  BY <1>3 DEF u

\* Where every value is at most a, and at most b at the places in I.
LEMMA TotalsBound ==
  ASSUME NEW v, NEW n \in Nat, NEW I \in SUBSET (1 .. n),
         NEW a \in Nat, NEW b \in Nat,
         \A k \in 1 .. n : v[k] \in Nat /\ v[k] <= a,
         \A k \in I : v[k] <= b
  PROVE  \A k \in 0 .. n :
           LET c == Cardinality(I \cap (1 .. k)) IN
           /\ Totals(v, n)[k] \in Nat /\ c \in Nat
           /\ Totals(v, n)[k] <= a * k - (a - b) * c
<1>. DEFINE u == Totals(v, n)
            C(k) == Cardinality(I \cap (1 .. k))
            S == {k \in 0 .. n :
                    /\ u[k] \in Nat /\ C(k) \in Nat
                    /\ u[k] <= a * k - (a - b) * C(k)}
<1>1. /\ u[0] = 0
      /\ \A k \in 1 .. n : u[k] = u[k - 1] + v[k]
  BY TotalsAdd
<1>. HIDE DEF u
<1>2. 0 \in S
  <2>1. I \cap (1 .. 0) = {}
    OBVIOUS
  <2>2. C(0) = 0
    BY <2>1, FS_EmptySet
  <2>. HIDE DEF C
  <2>. QED
    BY <1>1, <2>2
<1>3. ASSUME NEW k \in 1 .. n, k - 1 \in S PROVE k \in S
  <2>1. /\ u[k - 1] \in Nat /\ C(k - 1) \in Nat
        /\ u[k - 1] <= a * (k - 1) - (a - b) * C(k - 1)
    BY <1>3
  <2>2. u[k] = u[k - 1] + v[k] /\ v[k] \in Nat /\ v[k] <= a
    BY <1>1
  <2>3. CASE k \in I
    <3>1. I \cap (1 .. k) = (I \cap (1 .. k - 1)) \cup {k}
      BY <2>3
    <3>2. k \notin I \cap (1 .. k - 1)
      OBVIOUS
    <3>3. IsFiniteSet(I \cap (1 .. k - 1))
      BY IntervalPart
    <3>4. C(k) = C(k - 1) + 1
      BY <3>1, <3>2, <3>3, FS_AddElement
    <3>5. v[k] <= b
      BY <2>3
    <3>. HIDE DEF C
    <3>6. (a - b) * (C(k - 1) + 1) = (a - b) * C(k - 1) + (a - b)
      BY <2>1
    <3>7. a * k = a * (k - 1) + a
      OBVIOUS
    <3>8. (a - b) * C(k - 1) \in Int /\ a * (k - 1) \in Int
      BY <2>1
    <3>. QED
      BY <2>1, <2>2, <3>4, <3>5, <3>6, <3>7, <3>8
  <2>4. CASE k \notin I
    <3>1. I \cap (1 .. k) = I \cap (1 .. k - 1)
      BY <2>4
    <3>2. C(k) = C(k - 1)
      BY <3>1
    <3>. HIDE DEF C
    <3>3. a * k = a * (k - 1) + a
      OBVIOUS
    <3>4. (a - b) * C(k - 1) \in Int /\ a * (k - 1) \in Int
      BY <2>1
    <3>. QED
      BY <2>1, <2>2, <3>2, <3>3, <3>4
  <2>. QED
    BY <2>3, <2>4
<1>4. \A k \in 0 .. n : k \in S
  <2>. HIDE DEF S
  <2>. QED
    BY <1>2, <1>3, UpToInduction
<1>. QED
  BY <1>4 DEF u

LEMMA WeightType ==
  \A kind \in EventIds :
    SeverityWeight(kind) \in Nat /\ SeverityWeight(kind) <= 127
  BY EventsAssumption DEF SeverityWeight, CriticalEventId

\* TotalsBound for the weights that occur: 51 for a failed logon, at most 127.
LEMMA WeightsBound ==
  ASSUME NEW v, NEW n \in Nat, NEW I \in SUBSET (1 .. n),
         \A k \in 1 .. n : v[k] \in Nat /\ v[k] <= 127,
         \A k \in I : v[k] <= 51
  PROVE  \A k \in 0 .. n :
           LET c == Cardinality(I \cap (1 .. k)) IN
           /\ Totals(v, n)[k] \in Nat /\ c \in Nat
           /\ Totals(v, n)[k] <= 127 * k - (127 - 51) * c
<1>1. \A a \in Nat, b \in Nat :
        (/\ \A k \in 1 .. n : v[k] \in Nat /\ v[k] <= a
         /\ \A k \in I : v[k] <= b)
        => \A k \in 0 .. n :
             LET c == Cardinality(I \cap (1 .. k)) IN
             /\ Totals(v, n)[k] \in Nat /\ c \in Nat
             /\ Totals(v, n)[k] <= a * k - (a - b) * c
  BY TotalsBound, Zenon
<1>. QED
  BY <1>1

\* A brute force never raises Head 3, in any window and whatever the other
\* events in it are: the logon and the failures before it weigh too little.  So
\* the claim BruteForceRaisesHead does not fail in some corner, it fails for
\* each whole window (correlate_recent, severity_weight).
THEOREM HeadStaysSilent ==
  DetectorsSpec => [](alert = "BruteForceCompromised" => ~AuditAlarm(events))
<1>1. ASSUME EventsInv, alert = "BruteForceCompromised"
      PROVE  ~AuditAlarm(events)
  <2>. DEFINE n == Len(events)
              C == Counted(Last)
              v == [i \in 1 .. n |-> SeverityWeight(events[i].event_id)]
              u == Totals(v, n)
              F == Cardinality(C \cap (1 .. n - 1))
  <2>1. delivered # <<>> /\ alert = CorrelateRecent(events, Last)
    BY <1>1 DEF EventsInv
  <2>2. Last.event_id = "LogonSuccess"
    BY <1>1, <2>1 DEF CorrelateRecent
  <2>3. Cardinality(C) >= FailureLimit
    <3>1. RecentFailures(events, Last) >= FailureLimit
      BY <1>1, <2>1, <2>2 DEF CorrelateRecent
    <3>. QED
      BY <3>1 DEF RecentFailures, Counted
  <2>4. /\ events \in Seq(SecurityEvents) /\ delivered \in Seq(SecurityEvents)
        /\ n = IF Len(delivered) < EventWindow THEN Len(delivered)
               ELSE EventWindow
        /\ \A i \in 1 .. n : events[i] = delivered[i + Dropped]
    BY <1>1 DEF EventsInv
  <2>5. n \in 1 .. EventWindow /\ Len(delivered) \in Nat
    <3>1. Len(delivered) \in Nat /\ Len(delivered) >= 1
      BY <2>1, <2>4
    <3>. QED
      BY <2>4, <3>1, EventsAssumption
  <2>6. events[n] = Last
    <3>1. n + Dropped = Len(delivered)
      BY <2>5 DEF Dropped
    <3>. QED
      BY <2>4, <2>5, <3>1 DEF Last
  <2>7. \A i \in 1 .. n : events[i].event_id \in EventIds
    <3>1. \A i \in 1 .. n : events[i] \in SecurityEvents
      BY <2>4
    <3>. QED
      BY <3>1 DEF SecurityEvents
  <2>8. C \subseteq 1 .. n /\ \A i \in C : events[i].event_id = "LogonFailure"
    BY <1>1, <2>1, CountedAreAround DEF Counted
  <2>9. C \cap (1 .. n - 1) = C
    <3>1. n \notin C
      BY <2>2, <2>6, <2>8
    <3>. QED
      BY <2>5, <2>8, <3>1
  <2>10. F = Cardinality(C)
    BY <2>9
  <2>11. /\ \A i \in 1 .. n : v[i] \in Nat /\ v[i] <= 127
         /\ \A i \in C : v[i] <= 51
         /\ v[n] = 13
    <3>1. \A i \in 1 .. n : v[i] \in Nat /\ v[i] <= 127
      BY <2>7, WeightType
    <3>2. SeverityWeight("LogonFailure") = 51
          /\ SeverityWeight("LogonSuccess") = 13
      BY DEF SeverityWeight
    <3>3. \A i \in C : v[i] = 51
      BY <2>8, <3>2
    <3>4. v[n] = 13
      BY <2>2, <2>5, <2>6, <3>2
    <3>. HIDE DEF v, C
    <3>5. \A i \in C : v[i] <= 51
      BY <3>3
    <3>. QED
      BY <3>1, <3>4, <3>5
  <2>. HIDE DEF v, C
  <2>12. u[n] = u[n - 1] + 13
    <3>1. u[n] = u[n - 1] + v[n]
      BY <2>5, TotalsAdd
    <3>. QED
      BY <2>11, <3>1
  <2>13. /\ u[n - 1] \in Nat /\ F \in Nat
         /\ u[n - 1] <= 127 * (n - 1) - (127 - 51) * F
    <3>1. n - 1 \in 0 .. n /\ n \in Nat
      BY <2>5
    <3>2. C \in SUBSET (1 .. n)
      BY <2>8
    <3>3. \A k \in 0 .. n :
            LET c == Cardinality(C \cap (1 .. k)) IN
            /\ u[k] \in Nat /\ c \in Nat
            /\ u[k] <= 127 * k - (127 - 51) * c
      <4>. HIDE DEF n
      <4>1. /\ \A k \in 1 .. n : v[k] \in Nat /\ v[k] <= 127
            /\ \A k \in C : v[k] <= 51
        BY <2>11
      <4>. QED
        BY <3>1, <3>2, <4>1, WeightsBound, ZenonT(60)
    <3>. HIDE DEF u
    <3>. QED
      BY <3>1, <3>3
  <2>14. SeveritySum(events) = u[n]
    BY DEF SeveritySum, Total, u, v
  <2>. HIDE DEF u, n, F
  <2>15. F >= FailureLimit
    BY <2>3, <2>10
  <2>16. 100 * u[n] < 85 * 127 * EventWindow
    BY <2>5, <2>12, <2>13, <2>15, EventsAssumption, HeadAssumption
  <2>. QED
    BY <2>5, <2>12, <2>13, <2>14, <2>16, EventsAssumption DEF AuditAlarm
<1>2. EventsInv => (alert = "BruteForceCompromised" => ~AuditAlarm(events))
  BY <1>1
<1>. QED
  BY <1>2, EventsInvariant, PTL

-----------------------------------------------------------------------------
(***************************************************************************)
(* Beacons: what the buffers hold.                                         *)
(***************************************************************************)

PacketRecords ==
  [key: FlowKeys, direction: Directions, small: BOOLEAN, ts: Nat]

\* The positions of the packets of flow k in the history.
Mine(k) == {i \in DOMAIN seen : seen[i].key = k}

\* pos lists n of the positions in M, in their order, and buffer what s has
\* there; the others come before, and there are some only if n is the capacity.
ListsOf(pos, n, M, buffer, s) ==
  /\ pos \in [1 .. n -> M]
  /\ \A a, b \in 1 .. n : a < b => pos[a] < pos[b]
  /\ \A a \in 1 .. n : buffer[a] = s[pos[a]]
  /\ \A i \in M :
       (\E a \in 1 .. n : pos[a] = i) \/ (n = FlowWindow /\ i < pos[1])

\* pos lists the last packets of flow k, which are what its buffer holds.
Lists(pos, k) == ListsOf(pos, Len(flows[k]), Mine(k), flows[k], seen)

LatestKey == seen[Len(seen)].key

\* Each buffer holds the last packets of its flow, and the last answer was about
\* the buffer of the last packet.
BeaconInv ==
  /\ now \in Nat /\ seen \in Seq(PacketRecords)
  /\ DOMAIN flows = {seen[i].key : i \in DOMAIN seen}
  /\ \A k \in DOMAIN flows :
       /\ flows[k] \in Seq(PacketRecords)
       /\ Len(flows[k]) \in 1 .. FlowWindow
       /\ \E pos : Lists(pos, k)
  /\ beacon = IF /\ seen # <<>>
                 /\ Len(flows[LatestKey]) = FlowWindow
                 /\ IsC2Beacon(flows[LatestKey])
              THEN {LatestKey} ELSE NoFlow

\* The packet that comes in joins the list of its flow; the oldest one leaves
\* it if it is full.
LEMMA IngestLists ==
  ASSUME BeaconInv, NEW p \in PacketRecords, IngestPacket(p),
         NEW k \in DOMAIN flows'
  PROVE  /\ flows'[k] \in Seq(PacketRecords)
         /\ Len(flows'[k]) \in 1 .. FlowWindow
         /\ \E pos : Lists(pos, k)'
<1>. DEFINE m == Len(seen) + 1
<1>1. /\ seen \in Seq(PacketRecords) /\ Len(seen) \in Nat /\ m \in Nat
      /\ DOMAIN seen = 1 .. Len(seen)
  BY DEF BeaconInv
<1>2. /\ seen' = Append(seen, p) /\ seen' \in Seq(PacketRecords)
      /\ DOMAIN seen' = 1 .. m /\ seen'[m] = p
      /\ \A i \in 1 .. Len(seen) : seen'[i] = seen[i]
  <2>1. seen' = Append(seen, p)
    BY DEF IngestPacket
  <2>. QED
    BY <1>1, <2>1
<1>3. /\ DOMAIN flows' = DOMAIN flows \cup {p.key}
      /\ k # p.key => k \in DOMAIN flows /\ flows'[k] = flows[k]
      /\ flows'[p.key] =
           RecordPacket(
             IF p.key \in DOMAIN flows THEN flows[p.key] ELSE <<>>, p)
  BY DEF IngestPacket
<1>4. Mine(k)' = IF k = p.key THEN Mine(k) \cup {m} ELSE Mine(k)
  <2>1. ASSUME NEW i
        PROVE  i \in Mine(k)' <=> i \in Mine(k) \/ (i = m /\ k = p.key)
    <3>1. CASE i \in 1 .. Len(seen)
      <4>1. i \in 1 .. m /\ i # m /\ seen'[i] = seen[i]
        BY <1>1, <1>2, <3>1
      <4>. QED
        BY <1>1, <1>2, <3>1, <4>1 DEF Mine
    <3>2. CASE i = m
      <4>1. i \in 1 .. m /\ i \notin 1 .. Len(seen)
        BY <1>1, <3>2
      <4>. QED
        BY <1>1, <1>2, <3>2, <4>1 DEF Mine
    <3>3. CASE i \notin 1 .. Len(seen) /\ i # m
      <4>1. i \notin 1 .. m
        BY <1>1, <3>3
      <4>. QED
        BY <1>1, <1>2, <3>3, <4>1 DEF Mine
    <3>. QED
      BY <3>1, <3>2, <3>3
  <2>. QED
    BY <2>1
<1>5. /\ Mine(k) \subseteq 1 .. Len(seen)
      /\ \A i \in Mine(k) : i \in Nat /\ i < m /\ seen'[i] = seen[i]
  BY <1>1, <1>2 DEF Mine
<1>. HIDE DEF m
<1>6. CASE k # p.key
  <2>1. k \in DOMAIN flows /\ flows'[k] = flows[k] /\ Mine(k)' = Mine(k)
    BY <1>3, <1>4, <1>6
  <2>2. PICK pos : Lists(pos, k)
    BY <2>1 DEF BeaconInv
  <2>. DEFINE n == Len(flows[k])
  <2>3. /\ pos \in [1 .. n -> Mine(k)]
        /\ \A a, b \in 1 .. n : a < b => pos[a] < pos[b]
        /\ \A a \in 1 .. n : flows[k][a] = seen[pos[a]]
        /\ \A i \in Mine(k) :
             (\E a \in 1 .. n : pos[a] = i) \/ (n = FlowWindow /\ i < pos[1])
    BY <2>2 DEF Lists, ListsOf
  <2>4. \A a \in 1 .. n : flows'[k][a] = seen'[pos[a]]
    BY <1>5, <2>1, <2>3
  <2>5. Lists(pos, k)'
    <3>1. ListsOf(pos, n, Mine(k), flows[k], seen')
      BY <2>1, <2>3, <2>4 DEF ListsOf
    <3>. QED
      BY <2>1, <3>1 DEF Lists
  <2>6. flows[k] \in Seq(PacketRecords) /\ n \in 1 .. FlowWindow
    BY <2>1 DEF BeaconInv
  <2>. QED
    BY <2>1, <2>5, <2>6
<1>7. CASE k = p.key /\ k \notin DOMAIN flows
  <2>1. Mine(k) = {}
    BY <1>7 DEF BeaconInv, Mine
  <2>2. Mine(k)' = {m}
    BY <1>4, <1>7, <2>1
  <2>3. flows'[k] = <<p>>
    <3>1. flows'[k] = RecordPacket(<<>>, p)
      BY <1>3, <1>7
    <3>2. Len(<<>>) # FlowWindow
      BY BeaconAssumption
    <3>. QED
      BY <3>1, <3>2 DEF RecordPacket
  <2>4. /\ flows'[k] \in Seq(PacketRecords)
        /\ Len(flows'[k]) = 1 /\ flows'[k][1] = p
    BY <2>3
  <2>. DEFINE pos == [a \in 1 .. 1 |-> m]
  <2>5. pos \in [1 .. 1 -> {m}] /\ pos[1] = m /\ \A a \in 1 .. 1 : a = 1
    OBVIOUS
  <2>. HIDE DEF pos
  <2>6. \E q : Lists(q, k)'
    <3>1. \A a, b \in 1 .. 1 : ~(a < b)
      OBVIOUS
    <3>2. \A a \in 1 .. 1 : flows'[k][a] = seen'[pos[a]]
      BY <1>2, <2>4, <2>5
    <3>3. 1 \in 1 .. 1
      OBVIOUS
    <3>4. ListsOf(pos, 1, {m}, flows'[k], seen')
      BY <2>5, <3>1, <3>2, <3>3 DEF ListsOf
    <3>. QED
      <4>1. ListsOf(pos, Len(flows'[k]), Mine(k)', flows'[k], seen')
        BY <2>2, <2>4, <3>4
      <4>. QED
        BY <4>1 DEF Lists
  <2>. QED
    BY <2>4, <2>6, BeaconAssumption
<1>8. CASE k = p.key /\ k \in DOMAIN flows
  <2>. DEFINE n == Len(flows[k])
              x == flows[k]
              y == flows'[k]
  <2>1. PICK pos : Lists(pos, k)
    BY <1>8 DEF BeaconInv
  <2>2. /\ pos \in [1 .. n -> Mine(k)]
        /\ \A a, b \in 1 .. n : a < b => pos[a] < pos[b]
        /\ \A a \in 1 .. n : x[a] = seen[pos[a]]
        /\ \A i \in Mine(k) :
             (\E a \in 1 .. n : pos[a] = i) \/ (n = FlowWindow /\ i < pos[1])
    BY <2>1 DEF Lists, ListsOf
  <2>3. x \in Seq(PacketRecords) /\ n \in 1 .. FlowWindow /\ n \in Nat
    BY <1>8 DEF BeaconInv
  <2>4. Mine(k)' = Mine(k) \cup {m}
    BY <1>4, <1>8
  <2>5. \A a \in 1 .. n : pos[a] \in Nat /\ pos[a] < m
                          /\ x[a] = seen'[pos[a]]
    BY <1>5, <2>2
  <2>6. y = RecordPacket(x, p)
    BY <1>3, <1>8
  <2>7. CASE n # FlowWindow
    <3>1. y = Append(x, p)
      BY <2>6, <2>7 DEF RecordPacket
    <3>. HIDE DEF x, y
    <3>2. /\ y \in Seq(PacketRecords) /\ Len(y) = Len(x) + 1
          /\ y[Len(x) + 1] = p /\ \A a \in 1 .. Len(x) : y[a] = x[a]
      BY <2>3, <3>1
    <3>3. Len(x) = n
      BY DEF x
    <3>. DEFINE q == [a \in 1 .. n + 1 |-> IF a = n + 1 THEN m ELSE pos[a]]
    <3>. HIDE DEF n
    <3>4. /\ \A a \in 1 .. n + 1 : a \in 1 .. n \/ a = n + 1
          /\ \A a \in 1 .. n : a # n + 1 /\ a \in 1 .. n + 1
          /\ n + 1 \in 1 .. n + 1
      BY <2>3
    <3>5. /\ q \in [1 .. n + 1 -> Mine(k)']
          /\ q[n + 1] = m /\ \A a \in 1 .. n : q[a] = pos[a]
      BY <2>2, <2>4, <3>4
    <3>. HIDE DEF q
    <3>6. \A a, b \in 1 .. n + 1 : a < b => q[a] < q[b]
      <4>1. \A a, b \in 1 .. n + 1 :
              a < b => a \in 1 .. n /\ (b \in 1 .. n \/ b = n + 1)
        BY <2>3
      <4>. QED
        BY <2>2, <2>5, <3>5, <4>1
    <3>7. \A a \in 1 .. n + 1 : y[a] = seen'[q[a]]
      BY <1>2, <2>5, <3>2, <3>3, <3>4, <3>5
    <3>8. \A i \in Mine(k)' : \E a \in 1 .. n + 1 : q[a] = i
      BY <2>2, <2>4, <2>7, <3>4, <3>5
    <3>9. \E r : Lists(r, k)'
      <4>1. ListsOf(q, n + 1, Mine(k)', y, seen')
        BY <3>5, <3>6, <3>7, <3>8 DEF ListsOf
      <4>2. ListsOf(q, Len(flows'[k]), Mine(k)', flows'[k], seen')
        BY <3>2, <3>3, <4>1 DEF y
      <4>. QED
        BY <4>2 DEF Lists
    <3>10. n + 1 \in 1 .. FlowWindow
      BY <2>3, <2>7, BeaconAssumption
    <3>. QED
      BY <3>2, <3>3, <3>9, <3>10 DEF y
  <2>8. CASE n = FlowWindow
    <3>1. y = Append(Tail(x), p)
      BY <2>6, <2>8 DEF RecordPacket
    <3>2. n = FlowWindow
      BY <2>8
    <3>3. n > 1
      BY <2>8, BeaconAssumption
    <3>. HIDE DEF x, y
    <3>4. Len(x) = n
      BY DEF x
    <3>. HIDE DEF n
    <3>5. /\ Tail(x) \in Seq(PacketRecords) /\ Len(Tail(x)) = n - 1
          /\ \A a \in 1 .. n - 1 : Tail(x)[a] = x[a + 1]
      <4>1. x # <<>>
        BY <2>3, <3>3, <3>4
      <4>. QED
        BY <2>3, <3>3, <3>4, <4>1
    <3>6. /\ y \in Seq(PacketRecords) /\ Len(y) = n
          /\ y[n] = p /\ \A a \in 1 .. n - 1 : y[a] = x[a + 1]
      <4>. DEFINE t == Tail(x)
      <4>. HIDE DEF t
      <4>1. /\ Append(t, p) \in Seq(PacketRecords)
            /\ Len(Append(t, p)) = Len(t) + 1
            /\ Append(t, p)[Len(t) + 1] = p
            /\ \A a \in 1 .. Len(t) : Append(t, p)[a] = t[a]
        BY <3>5 DEF t
      <4>2. Len(t) = n - 1 /\ Len(t) + 1 = n
        BY <2>3, <3>5 DEF t
      <4>. QED
        BY <3>1, <3>5, <4>1, <4>2 DEF t
    <3>. DEFINE q == [a \in 1 .. n |-> IF a = n THEN m ELSE pos[a + 1]]
    <3>7. /\ \A a \in 1 .. n : (a + 1 \in 1 .. n /\ a \in 1 .. n - 1) \/ a = n
          /\ \A a \in 1 .. n - 1 : a # n /\ a \in 1 .. n /\ a + 1 \in 1 .. n
          /\ n \in 1 .. n /\ 1 \in 1 .. n - 1
      BY <2>3, <3>3
    <3>8. /\ q \in [1 .. n -> Mine(k)']
          /\ q[n] = m /\ \A a \in 1 .. n - 1 : q[a] = pos[a + 1]
      BY <2>2, <2>4, <3>7
    <3>. HIDE DEF q
    <3>9. \A a, b \in 1 .. n : a < b => q[a] < q[b]
      <4>1. \A a, b \in 1 .. n : a < b =>
              /\ a \in 1 .. n - 1 /\ a + 1 \in 1 .. n
              /\ \/ b = n
                 \/ b \in 1 .. n - 1 /\ b + 1 \in 1 .. n /\ a + 1 < b + 1
        BY <2>3
      <4>. QED
        BY <2>2, <2>5, <3>8, <4>1
    <3>10. \A a \in 1 .. n : y[a] = seen'[q[a]]
      <4>1. y[n] = seen'[q[n]]
        BY <1>2, <3>6, <3>8
      <4>2. \A a \in 1 .. n - 1 : y[a] = seen'[q[a]]
        BY <2>5, <3>6, <3>7, <3>8
      <4>. QED
        BY <3>7, <4>1, <4>2
    <3>11. \A i \in Mine(k)' : (\E a \in 1 .. n : q[a] = i) \/ i < q[1]
      <4>1. q[1] = pos[2] /\ pos[1] < pos[2] /\ pos[1] \in Nat /\ pos[2] \in Nat
        <5>1. 1 \in 1 .. n /\ 2 \in 1 .. n /\ 1 < 2
          BY <2>3, <3>3
        <5>. QED
          BY <2>2, <2>5, <3>7, <3>8, <5>1
      <4>2. ASSUME NEW i \in Mine(k)
            PROVE  (\E a \in 1 .. n : q[a] = i) \/ i < q[1]
        <5>1. i \in Nat
          BY <1>5
        <5>2. CASE \E a \in 1 .. n : pos[a] = i
          <6>1. PICK a \in 1 .. n : pos[a] = i
            BY <5>2
          <6>2. CASE a = 1
            BY <4>1, <6>1, <6>2
          <6>3. CASE a # 1
            <7>1. a - 1 \in 1 .. n - 1 /\ a - 1 \in 1 .. n /\ (a - 1) + 1 = a
              BY <2>3, <6>3
            <7>. QED
              BY <3>8, <6>1, <7>1
          <6>. QED
            BY <6>2, <6>3
        <5>3. CASE i < pos[1]
          BY <4>1, <5>1, <5>3
        <5>. QED
          BY <2>2, <5>2, <5>3
      <4>. QED
        BY <2>4, <3>7, <3>8, <4>2
    <3>12. \E r : Lists(r, k)'
      <4>1. ListsOf(q, n, Mine(k)', y, seen')
        BY <3>2, <3>8, <3>9, <3>10, <3>11 DEF ListsOf
      <4>2. ListsOf(q, Len(flows'[k]), Mine(k)', flows'[k], seen')
        BY <3>6, <4>1 DEF y
      <4>. QED
        BY <4>2 DEF Lists
    <3>. QED
      BY <2>3, <3>6, <3>12 DEF y
  <2>. QED
    BY <2>7, <2>8
<1>. QED
  BY <1>6, <1>7, <1>8

LEMMA IngestBeacon ==
  ASSUME BeaconInv, NEW p \in PacketRecords, IngestPacket(p), UNCHANGED now
  PROVE  BeaconInv'
<1>1. seen' = Append(seen, p) /\ seen \in Seq(PacketRecords) /\ now' \in Nat
  BY DEF BeaconInv, IngestPacket
<1>2. /\ seen' \in Seq(PacketRecords) /\ Len(seen) \in Nat
      /\ Len(seen') = Len(seen) + 1 /\ seen'[Len(seen) + 1] = p
      /\ DOMAIN seen = 1 .. Len(seen) /\ DOMAIN seen' = 1 .. Len(seen) + 1
      /\ \A i \in 1 .. Len(seen) : seen'[i] = seen[i]
  BY <1>1
<1>3. seen' # <<>> /\ LatestKey' = p.key
  BY <1>2 DEF LatestKey
<1>4. DOMAIN flows' = {seen'[i].key : i \in DOMAIN seen'}
  <2>1. DOMAIN flows' = {seen[i].key : i \in DOMAIN seen} \cup {p.key}
    BY DEF BeaconInv, IngestPacket
  <2>2. \A i \in DOMAIN seen' : i \in DOMAIN seen \/ i = Len(seen) + 1
    BY <1>2
  <2>3. DOMAIN seen \subseteq DOMAIN seen' /\ Len(seen) + 1 \in DOMAIN seen'
    BY <1>2
  <2>. QED
    BY <1>2, <2>1, <2>2, <2>3
<1>5. ASSUME NEW k \in DOMAIN flows'
      PROVE  /\ flows'[k] \in Seq(PacketRecords)
             /\ Len(flows'[k]) \in 1 .. FlowWindow
             /\ \E pos : Lists(pos, k)'
  BY IngestLists
<1>6. beacon' = IF /\ Len(flows'[p.key]) = FlowWindow
                   /\ IsC2Beacon(flows'[p.key])
                THEN {p.key} ELSE NoFlow
  BY DEF IngestPacket
<1>. QED
  BY <1>1, <1>2, <1>3, <1>4, <1>5, <1>6 DEF BeaconInv

LEMMA NoPackets ==
  ASSUME now \in Nat, BeaconInit
  PROVE  BeaconInv
<1>1. flows = [k \in {} |-> <<>>] /\ beacon = NoFlow /\ seen = <<>>
  BY DEF BeaconInit
<1>2. DOMAIN flows = {}
  BY <1>1
<1>3. <<>> \in Seq(PacketRecords) /\ DOMAIN <<>> = {}
  OBVIOUS
<1>. QED
  BY <1>1, <1>2, <1>3 DEF BeaconInv

LEMMA BeaconStep ==
  ASSUME BeaconInv, [DetectorsNext]_detectorVars
  PROVE  BeaconInv'
<1>1. CASE now' \in Nat /\ UNCHANGED beaconVars
  BY <1>1 DEF beaconVars, BeaconInv, Lists, Mine, LatestKey
<1>2. CASE BeaconNext /\ UNCHANGED now
  <2>1. CASE ClearFlows
    <3>1. BeaconInit' /\ now' \in Nat
      BY <1>2, <2>1 DEF ClearFlows, BeaconInit, BeaconInv
    <3>2. (now \in Nat /\ BeaconInit => BeaconInv)'
      BY NoPackets, PTL
    <3>. QED
      BY <3>1, <3>2
  <2>2. ASSUME NEW p \in Packets, NEW t \in Stamps,
               IngestPacket([key |-> p.key, direction |-> p.direction,
                             small |-> p.small, ts |-> t])
        PROVE  BeaconInv'
    <3>1. /\ p.key \in FlowKeys /\ p.direction \in Directions
          /\ p.small \in BOOLEAN
      BY BeaconAssumption DEF FlowKeys
    <3>2. t \in Nat
      BY DEF BeaconInv, Stamps
    <3>3. [key |-> p.key, direction |-> p.direction, small |-> p.small,
           ts |-> t] \in PacketRecords
      BY <3>1, <3>2 DEF PacketRecords
    <3>. QED
      BY <1>2, <2>2, <3>3, IngestBeacon
  <2>. QED
    BY <1>2, <2>1, <2>2 DEF BeaconNext
<1>3. now \in Nat
  BY DEF BeaconInv
<1>. QED
  BY <1>1, <1>2, <1>3 DEF DetectorsNext, detectorVars, Tick

LEMMA BeaconInvariant == DetectorsSpec => []BeaconInv
<1>1. DetectorsInit => BeaconInv
  BY NoPackets DEF DetectorsInit
<1>. QED
  BY <1>1, BeaconStep, PTL DEF DetectorsSpec

Increasing(pos, n) ==
  /\ \A c \in 1 .. n : pos[c] \in Nat
  /\ \A c, d \in 1 .. n : c < d => pos[c] < pos[d]

\* P are the positions at the places from a to b.
Enumerates(pos, a, b, P) ==
  /\ \A c \in a .. b : pos[c] \in P
  /\ \A i \in P : \E c \in a .. b : i = pos[c]

\* As many positions as places of the list.
LEMMA PlacesCount ==
  ASSUME NEW n \in Nat, NEW pos, NEW a \in Nat, NEW b \in 0 .. n, a > 0,
         Increasing(pos, n), NEW P, Enumerates(pos, a, b, P)
  PROVE  Cardinality(P) = IF a > b THEN 0 ELSE b - a + 1
<1>. DEFINE f == [c \in a .. b |-> pos[c]]
<1>1. a .. b \subseteq 1 .. n
  OBVIOUS
<1>2. f \in [a .. b -> P] /\ \A c \in a .. b : f[c] = pos[c]
  BY DEF Enumerates
<1>3. \A c, d \in a .. b : f[c] = f[d] => c = d
  <2>1. \A c, d \in 1 .. n : c # d => c < d \/ d < c
    OBVIOUS
  <2>2. \A c, d \in 1 .. n : c # d => pos[c] # pos[d]
    BY <2>1 DEF Increasing
  <2>. QED
    BY <1>1, <1>2, <2>2
<1>4. \A i \in P : \E c \in a .. b : f[c] = i
  BY <1>2 DEF Enumerates
<1>. HIDE DEF f
<1>5. f \in Bijection(a .. b, P)
  BY <1>2, <1>3, <1>4 DEF Bijection, Injection, Surjection, IsInjective
<1>6. ExistsBijection(a .. b, P)
  BY <1>5 DEF ExistsBijection
<1>7. /\ IsFiniteSet(a .. b)
      /\ Cardinality(a .. b) = IF a > b THEN 0 ELSE b - a + 1
  BY FS_Interval
<1>8. IsFiniteSet(P) /\ Cardinality(P) = Cardinality(a .. b)
  BY <1>6, <1>7, FS_Bijection
<1>. QED
  BY <1>7, <1>8

\* The last packets of a flow by the history are those that its buffer holds.
LEMMA LastAreListed ==
  ASSUME BeaconInv, NEW k \in DOMAIN flows, NEW pos, Lists(pos, k)
  PROVE  LET n == Len(flows[k]) IN
         /\ n \in 1 .. FlowWindow /\ n \in Nat
         /\ flows[k] \in Seq(PacketRecords)
         /\ \A a \in 1 .. n : flows[k][a] = seen[pos[a]]
         /\ Increasing(pos, n)
         /\ LastOf(k) = {pos[a] : a \in 1 .. n}
<1>. DEFINE n == Len(flows[k])
            M == Mine(k)
            L == {pos[a] : a \in 1 .. n}
<1>1. n \in 1 .. FlowWindow /\ n \in Nat /\ flows[k] \in Seq(PacketRecords)
  BY DEF BeaconInv
<1>2. M \subseteq 1 .. Len(seen) /\ Len(seen) \in Nat
  BY DEF BeaconInv, Mine
<1>3. /\ pos \in [1 .. n -> M]
      /\ \A a, b \in 1 .. n : a < b => pos[a] < pos[b]
      /\ \A a \in 1 .. n : flows[k][a] = seen[pos[a]]
      /\ \A i \in M :
           (\E a \in 1 .. n : pos[a] = i) \/ (n = FlowWindow /\ i < pos[1])
  BY DEF Lists, ListsOf
<1>4. LastOf(k) = {i \in M : Cardinality({j \in M : j > i}) < FlowWindow}
  BY DEF LastOf, Mine
<1>. HIDE DEF M, n
<1>5. \A a \in 1 .. n : pos[a] \in M /\ pos[a] \in Nat
  <2>1. \A i \in M : i \in Nat
    BY <1>2
  <2>. QED
    BY <1>3, <2>1
<1>6. Increasing(pos, n)
  BY <1>3, <1>5 DEF Increasing
<1>7. ASSUME NEW a \in 1 .. n
      PROVE  pos[a] \in LastOf(k)
  <2>. DEFINE J == {j \in M : j > pos[a]}
              P == {pos[c] : c \in a + 1 .. n}
  <2>1. J = P
    <3>1. ASSUME NEW j \in J PROVE j \in P
      <4>1. j \in M /\ j > pos[a] /\ j \in Nat
        BY <1>2
      <4>2. ~(j < pos[1])
        <5>1. a = 1 \/ pos[1] < pos[a]
          BY <1>1, <1>3
        <5>. QED
          BY <1>1, <1>5, <4>1, <5>1
      <4>3. PICK c \in 1 .. n : pos[c] = j
        BY <1>3, <4>1, <4>2
      <4>4. ~(c = a) /\ ~(c < a)
        BY <1>3, <1>5, <4>1, <4>3
      <4>5. c \in a + 1 .. n
        BY <4>4
      <4>. QED
        BY <4>3, <4>5
    <3>2. ASSUME NEW j \in P PROVE j \in J
      <4>1. PICK c \in a + 1 .. n : j = pos[c]
        OBVIOUS
      <4>2. c \in 1 .. n /\ a < c
        BY <1>1, <4>1
      <4>. QED
        BY <1>3, <1>5, <4>1, <4>2
    <3>. QED
      BY <3>1, <3>2
  <2>2. Cardinality(P) < FlowWindow
    <3>1. a + 1 \in Nat /\ a + 1 > 0 /\ n \in 0 .. n
      BY <1>1
    <3>2. Enumerates(pos, a + 1, n, P)
      BY DEF Enumerates
    <3>. HIDE DEF P
    <3>3. Cardinality(P) = IF a + 1 > n THEN 0 ELSE n - (a + 1) + 1
      BY <1>1, <1>6, <3>1, <3>2, PlacesCount
    <3>. QED
      BY <1>1, <3>3, BeaconAssumption
  <2>. QED
    BY <1>4, <1>5, <2>1, <2>2
<1>8. ASSUME NEW i \in LastOf(k)
      PROVE  i \in L
  <2>1. i \in M /\ Cardinality({j \in M : j > i}) < FlowWindow
    BY <1>4
  <2>2. ASSUME n = FlowWindow, i < pos[1] PROVE FALSE
    <3>. DEFINE J == {j \in M : j > i}
                P == {pos[c] : c \in 1 .. n}
    <3>1. i \in Nat
      BY <1>2, <2>1
    <3>2. P \subseteq J
      <4>1. ASSUME NEW c \in 1 .. n PROVE pos[c] \in J
        <5>1. c = 1 \/ pos[1] < pos[c]
          BY <1>1, <1>3
        <5>2. 1 \in 1 .. n
          BY <1>1
        <5>. QED
          BY <1>5, <2>2, <3>1, <5>1, <5>2
      <4>. QED
        BY <4>1
    <3>3. J \subseteq 1 .. Len(seen)
      BY <1>2
    <3>. HIDE DEF J
    <3>4. IsFiniteSet(J) /\ Cardinality(J) \in Nat
      BY <1>2, <3>3, IntervalPart
    <3>5. Cardinality(P) = n
      <4>1. Cardinality(P) = IF 1 > n THEN 0 ELSE n - 1 + 1
        <5>1. 1 \in Nat /\ 1 > 0 /\ n \in 0 .. n
          BY <1>1
        <5>2. Enumerates(pos, 1, n, P)
          BY DEF Enumerates
        <5>. HIDE DEF P
        <5>. QED
          BY <1>1, <1>6, <5>1, <5>2, PlacesCount
      <4>. HIDE DEF P
      <4>. QED
        BY <1>1, <4>1
    <3>. HIDE DEF P
    <3>6. Cardinality(P) <= Cardinality(J)
      BY <3>2, <3>4, FS_Subset
    <3>. QED
      BY <1>1, <2>1, <2>2, <3>4, <3>5, <3>6 DEF J
  <2>. QED
    BY <1>3, <2>1, <2>2
<1>9. LastOf(k) = L
  BY <1>7, <1>8
<1>. QED
  BY <1>1, <1>3, <1>6, <1>9 DEF n

Before(L, i) == {j \in L : j < i}

\* The first, the last, the number and the order of the last packets.
LEMMA LastInOrder ==
  ASSUME NEW n \in Nat, n > 0, NEW pos, Increasing(pos, n),
         NEW L, Enumerates(pos, 1, n, L)
  PROVE  /\ Min(L) = pos[1] /\ Max(L) = pos[n]
         /\ Cardinality(L) = n
         /\ \A a \in 1 .. n : Cardinality(Before(L, pos[a])) = a - 1
<1>1. 1 \in 1 .. n /\ n \in 1 .. n
  OBVIOUS
<1>2. /\ \A a \in 1 .. n : pos[a] \in Nat
      /\ \A a, b \in 1 .. n : a < b => pos[a] < pos[b]
  BY DEF Increasing
<1>3. \A a \in 1 .. n : (a = 1 \/ 1 < a) /\ (a = n \/ a < n)
  OBVIOUS
<1>4. \A a \in 1 .. n : pos[1] <= pos[a] /\ pos[a] <= pos[n]
  <2>1. TAKE a \in 1 .. n
  <2>2. a = 1 \/ pos[1] < pos[a]
    BY <1>1, <1>2, <1>3
  <2>3. a = n \/ pos[a] < pos[n]
    BY <1>1, <1>2, <1>3
  <2>. QED
    BY <1>1, <1>2, <2>2, <2>3
<1>5. pos[1] \in L /\ pos[n] \in L /\ L \subseteq Nat
  BY <1>1, <1>2 DEF Enumerates
<1>6. \A y \in L : pos[1] <= y /\ pos[n] >= y
  BY <1>1, <1>2, <1>4 DEF Enumerates
<1>7. Cardinality(L) = n
  <2>1. Cardinality(L) = IF 1 > n THEN 0 ELSE n - 1 + 1
    <3>1. 1 \in Nat /\ 1 > 0 /\ n \in 0 .. n
      OBVIOUS
    <3>. QED
      BY <3>1, PlacesCount
  <2>. QED
    BY <2>1
<1>8. ASSUME NEW a \in 1 .. n
      PROVE  Cardinality(Before(L, pos[a])) = a - 1
  <2>. DEFINE P == {pos[c] : c \in 1 .. a - 1}
              J == Before(L, pos[a])
  <2>1. \A c \in 1 .. a - 1 : c \in 1 .. n /\ c < a
    OBVIOUS
  <2>2. \A c \in 1 .. n : c \in 1 .. a - 1 \/ c = a \/ a < c
    OBVIOUS
  <2>3. \A c \in 1 .. n : pos[c] < pos[a] => c \in 1 .. a - 1
    BY <1>2, <2>2
  <2>4. J = P
    BY <1>2, <2>1, <2>3 DEF Enumerates, Before
  <2>5. Cardinality(P) = IF 1 > a - 1 THEN 0 ELSE (a - 1) - 1 + 1
    <3>1. 1 \in Nat /\ 1 > 0 /\ a - 1 \in 0 .. n
      OBVIOUS
    <3>2. Enumerates(pos, 1, a - 1, P)
      BY DEF Enumerates
    <3>. HIDE DEF P
    <3>. QED
      BY <3>1, <3>2, PlacesCount
  <2>. HIDE DEF P, J
  <2>6. Cardinality(J) = a - 1
    BY <2>4, <2>5
  <2>. QED
    BY <2>6 DEF J
<1>9. Min(L) = pos[1]
  <2>1. ASSUME NEW x \in L, \A y \in L : x <= y PROVE x = pos[1]
    <3>1. x \in Nat /\ pos[1] \in Nat
      BY <1>5
    <3>2. x <= pos[1] /\ pos[1] <= x
      BY <1>5, <1>6, <2>1
    <3>. QED
      BY <3>1, <3>2
  <2>2. \E x \in L : \A y \in L : x <= y
    BY <1>5, <1>6
  <2>. QED
    BY <2>1, <2>2 DEF Min
<1>10. Max(L) = pos[n]
  <2>1. ASSUME NEW x \in L, \A y \in L : x >= y PROVE x = pos[n]
    <3>1. x \in Nat /\ pos[n] \in Nat
      BY <1>5
    <3>2. x >= pos[n] /\ pos[n] >= x
      BY <1>5, <1>6, <2>1
    <3>. QED
      BY <3>1, <3>2
  <2>2. \E x \in L : \A y \in L : x >= y
    BY <1>5, <1>6
  <2>. QED
    BY <2>1, <2>2 DEF Max
<1>. QED
  BY <1>7, <1>8, <1>9, <1>10

-----------------------------------------------------------------------------
(***************************************************************************)
(* Beacons: what the statistics say of the stamps.                         *)
(***************************************************************************)

\* One more value keeps the inequality between a sum and the sum of squares.
LEMMA SquareStep ==
  ASSUME NEW m \in Nat, NEW U \in Nat, NEW W \in Nat, NEW d \in Nat,
         m * W >= U * U
  PROVE  (m + 1) * (W + d * d) >= (U + d) * (U + d)
<1>. DEFINE E == W + m * (d * d) - 2 * (U * d)
<1>1. (m + 1) * (W + d * d) - (U + d) * (U + d) = (m * W - U * U) + E
  OBVIOUS
<1>2. E >= 0
  <2>1. CASE m = 0
    <3>1. U = 0
      <4>1. m * W = 0
        BY <2>1
      <4>2. U > 0 => U * U > 0
        OBVIOUS
      <4>. QED
        BY <4>1, <4>2
    <3>2. U * d = 0 /\ m * (d * d) = 0
      BY <2>1, <3>1
    <3>. QED
      BY <3>2
  <2>2. CASE m > 0
    <3>1. m * E = (m * W - U * U) + (U - m * d) * (U - m * d)
      OBVIOUS
    <3>2. (U - m * d) * (U - m * d) >= 0
      <4>1. \A x \in Int : x * x >= 0
        OBVIOUS
      <4>2. U - m * d \in Int
        OBVIOUS
      <4>. QED
        BY <4>1, <4>2
    <3>3. E \in Int /\ m * W \in Int /\ U * U \in Int
      OBVIOUS
    <3>. HIDE DEF E
    <3>4. m * E >= 0
      BY <3>1, <3>2, <3>3
    <3>5. \A x \in Int : m * x >= 0 => x >= 0
      BY <2>2
    <3>. QED
      BY <3>3, <3>4, <3>5
  <2>. QED
    BY <2>1, <2>2
<1>3. E \in Int /\ m * W - U * U \in Int /\ m * W - U * U >= 0
  OBVIOUS
<1>4. (m + 1) * (W + d * d) \in Int /\ (U + d) * (U + d) \in Int
  OBVIOUS
<1>. HIDE DEF E
<1>. QED
  BY <1>1, <1>2, <1>3, <1>4

\* If the value at z is zero, the sum of squares of n values bounds the square
\* of their sum as that of n - 1 values would (Cauchy and Schwarz).
LEMMA SquaresWithZero ==
  ASSUME NEW n \in Nat, NEW v, NEW w, NEW z \in 1 .. n, v[z] = 0,
         \A k \in 1 .. n : v[k] \in Nat /\ w[k] = v[k] * v[k]
  PROVE  /\ Total(v, n) \in Nat /\ Total(w, n) \in Nat
         /\ (n - 1) * Total(w, n) >= Total(v, n) * Total(v, n)
<1>. DEFINE u == Totals(v, n)
            q == Totals(w, n)
            c(k) == IF k < z THEN k ELSE k - 1
            S == {k \in 0 .. n : u[k] \in Nat /\ q[k] \in Nat
                                 /\ c(k) * q[k] >= u[k] * u[k]}
<1>1. u[0] = 0 /\ \A k \in 1 .. n : u[k] = u[k - 1] + v[k]
  BY TotalsAdd
<1>2. q[0] = 0 /\ \A k \in 1 .. n : q[k] = q[k - 1] + w[k]
  BY TotalsAdd
<1>. HIDE DEF u, q
<1>3. 0 \in S
  BY <1>1, <1>2
<1>4. ASSUME NEW k \in 1 .. n, k - 1 \in S PROVE k \in S
  <2>1. /\ u[k - 1] \in Nat /\ q[k - 1] \in Nat
        /\ c(k - 1) * q[k - 1] >= u[k - 1] * u[k - 1]
    BY <1>4
  <2>2. v[k] \in Nat /\ v[k] * v[k] \in Nat /\ w[k] = v[k] * v[k]
    OBVIOUS
  <2>3. u[k] = u[k - 1] + v[k] /\ q[k] = q[k - 1] + v[k] * v[k]
    BY <1>1, <1>2, <2>2
  <2>4. u[k] \in Nat /\ q[k] \in Nat
    BY <2>1, <2>2, <2>3
  <2>5. CASE k = z
    <3>1. v[k] = 0 /\ v[k] * v[k] = 0
      BY <2>5
    <3>2. u[k] = u[k - 1] /\ q[k] = q[k - 1]
      <4>1. u[k] = u[k - 1] + 0 /\ q[k] = q[k - 1] + 0
        BY <2>3, <3>1, Zenon
      <4>. QED
        BY <2>1, <4>1
    <3>3. c(k) = c(k - 1)
      BY <2>5
    <3>. HIDE DEF c
    <3>. QED
      BY <2>1, <2>4, <3>2, <3>3
  <2>6. CASE k # z
    <3>1. c(k - 1) \in Nat /\ c(k) = c(k - 1) + 1
      BY <2>6
    <3>. HIDE DEF c
    <3>2. (c(k - 1) + 1) * (q[k - 1] + v[k] * v[k])
            >= (u[k - 1] + v[k]) * (u[k - 1] + v[k])
      BY <2>1, <2>2, <3>1, SquareStep
    <3>. QED
      BY <2>3, <2>4, <3>1, <3>2
  <2>. QED
    BY <2>5, <2>6
<1>5. n \in S
  <2>1. n \in 0 .. n
    OBVIOUS
  <2>. HIDE DEF S
  <2>. QED
    BY <1>3, <1>4, <2>1, UpToInduction
<1>6. c(n) = n - 1
  OBVIOUS
<1>7. Total(v, n) = u[n] /\ Total(w, n) = q[n]
  BY DEF Total, u, q
<1>. QED
  BY <1>5, <1>6, <1>7

\* In a rhythmic buffer every packet is stamped after the one before: a single
\* interval of zero would make the variation too large.
LEMMA RhythmIncreases ==
  ASSUME NEW B \in Seq(PacketRecords), Len(B) = FlowWindow, Rhythmic(B)
  PROVE  /\ \A a \in 1 .. FlowWindow : B[a].ts \in Nat
         /\ \A a, b \in 1 .. FlowWindow : a < b => B[a].ts < B[b].ts
         /\ B[FlowWindow].ts - B[1].ts >= MinBeacon * Count
<1>. DEFINE n == Count
            v == [i \in 1 .. Count |-> Delta(B, i + 1)]
            w == [i \in 1 .. Count |-> Delta(B, i + 1) * Delta(B, i + 1)]
            X == Total(v, n)
            Q == Total(w, n)
<1>1. /\ n \in Nat /\ n > 0 /\ n <= 33 /\ FlowWindow = n + 1
      /\ MinBeacon \in Nat /\ MinBeacon > 0
  BY BeaconAssumption, RhythmAssumption DEF Count
<1>2. \A a \in 1 .. FlowWindow : B[a].ts \in Nat
  <2>1. \A a \in 1 .. Len(B) : B[a] \in PacketRecords
    OBVIOUS
  <2>. QED
    BY <2>1 DEF PacketRecords
<1>3. \A i \in 1 .. n : /\ i \in 1 .. FlowWindow /\ i + 1 \in 1 .. FlowWindow
                        /\ (i + 1) - 1 = i
  BY <1>1
<1>4. ASSUME NEW i \in 1 .. n
      PROVE  /\ v[i] = IF B[i + 1].ts < B[i].ts THEN 0
                       ELSE B[i + 1].ts - B[i].ts
             /\ v[i] \in Nat /\ w[i] = v[i] * v[i]
  <2>1. v[i] = Delta(B, i + 1) /\ w[i] = Delta(B, i + 1) * Delta(B, i + 1)
    OBVIOUS
  <2>. HIDE DEF v, w
  <2>2. v[i] = IF B[i + 1].ts < B[i].ts THEN 0 ELSE B[i + 1].ts - B[i].ts
    BY <1>3, <2>1 DEF Delta
  <2>3. B[i].ts \in Nat /\ B[i + 1].ts \in Nat
    BY <1>2, <1>3
  <2>4. w[i] = v[i] * v[i]
    BY <2>1, Zenon
  <2>. QED
    BY <2>2, <2>3, <2>4
<1>5. /\ X >= MinBeacon * n
      /\ 1000000 * (n * Q - X * X) <= 30625 * X * X
  BY DEF Rhythmic, SumOfDeltas, SumOfSquaredDeltas
<1>. HIDE DEF n, v, w
<1>6. ASSUME NEW z \in 1 .. n
      PROVE  v[z] # 0
  <2>. SUFFICES ASSUME v[z] = 0 PROVE FALSE
    OBVIOUS
  <2>1. X \in Nat /\ Q \in Nat /\ (n - 1) * Q >= X * X
    BY <1>1, <1>4, SquaresWithZero
  <2>. HIDE DEF X, Q
  <2>2. X > 0
    <3>1. MinBeacon * n > 0 /\ MinBeacon * n \in Nat
      BY <1>1
    <3>. QED
      BY <1>5, <2>1, <3>1
  <2>3. X * X > 0 /\ X * X \in Nat
    BY <2>1, <2>2
  <2>4. (n - 1) * Q = n * Q - Q /\ n * Q \in Nat /\ n * Q <= 33 * Q
    BY <1>1, <2>1
  <2>5. 30625 * X * X = 30625 * (X * X)
    BY <2>1
  <2>. QED
    BY <1>5, <2>1, <2>3, <2>4, <2>5
<1>7. \A i \in 1 .. n : B[i].ts < B[i + 1].ts /\ v[i] = B[i + 1].ts - B[i].ts
  <2>1. TAKE i \in 1 .. n
  <2>2. B[i].ts \in Nat /\ B[i + 1].ts \in Nat
    BY <1>2, <1>3
  <2>. QED
    BY <1>4, <1>6, <2>2
<1>8. \A a, b \in 1 .. FlowWindow : a < b => B[a].ts < B[b].ts
  <2>. DEFINE S == {k \in 0 .. n : \A a \in 1 .. k : B[a].ts < B[k + 1].ts}
  <2>1. 0 \in S
    BY <1>1
  <2>2. ASSUME NEW k \in 1 .. n, k - 1 \in S PROVE k \in S
    <3>1. \A a \in 1 .. k - 1 : B[a].ts < B[k].ts
      <4>1. (k - 1) + 1 = k
        OBVIOUS
      <4>. QED
        BY <2>2, <4>1
    <3>2. B[k].ts < B[k + 1].ts /\ B[k].ts \in Nat /\ B[k + 1].ts \in Nat
      BY <1>2, <1>3, <1>7
    <3>3. ASSUME NEW a \in 1 .. k PROVE B[a].ts < B[k + 1].ts
      <4>1. a = k \/ a \in 1 .. k - 1
        OBVIOUS
      <4>2. B[a].ts \in Nat
        <5>1. a \in 1 .. FlowWindow
          BY <1>1
        <5>. QED
          BY <1>2, <5>1
      <4>. QED
        BY <3>1, <3>2, <4>1, <4>2
    <3>4. k \in 0 .. n
      OBVIOUS
    <3>. QED
      BY <3>3, <3>4
  <2>3. \A k \in 0 .. n : k \in S
    <3>. HIDE DEF S
    <3>. QED
      BY <1>1, <2>1, <2>2, UpToInduction
  <2>4. SUFFICES ASSUME NEW a \in 1 .. FlowWindow, NEW b \in 1 .. FlowWindow,
                        a < b
                 PROVE  B[a].ts < B[b].ts
    OBVIOUS
  <2>5. b - 1 \in 0 .. n /\ a \in 1 .. b - 1 /\ (b - 1) + 1 = b
    BY <1>1, <2>4
  <2>6. b - 1 \in S
    BY <2>3, <2>5
  <2>. QED
    BY <2>5, <2>6
<1>9. X = B[FlowWindow].ts - B[1].ts
  <2>. DEFINE u == Totals(v, n)
              S == {k \in 0 .. n : u[k] = B[k + 1].ts - B[1].ts}
  <2>1. u[0] = 0 /\ \A k \in 1 .. n : u[k] = u[k - 1] + v[k]
    BY <1>1, TotalsAdd
  <2>2. X = u[n]
    BY DEF Total
  <2>. HIDE DEF u, X
  <2>3. 0 \in S
    <3>1. B[0 + 1].ts = B[1].ts /\ B[1].ts \in Nat /\ 0 \in 0 .. n
      BY <1>1, <1>2
    <3>. QED
      BY <2>1, <3>1
  <2>4. ASSUME NEW k \in 1 .. n, k - 1 \in S PROVE k \in S
    <3>1. u[k - 1] = B[k].ts - B[1].ts
      <4>1. (k - 1) + 1 = k
        OBVIOUS
      <4>. QED
        BY <2>4, <4>1
    <3>2. u[k] = u[k - 1] + v[k] /\ v[k] = B[k + 1].ts - B[k].ts
      BY <1>7, <2>1
    <3>3. /\ B[k].ts \in Nat /\ B[k + 1].ts \in Nat /\ B[1].ts \in Nat
          /\ k \in 0 .. n
      BY <1>1, <1>2, <1>3
    <3>. QED
      BY <3>1, <3>2, <3>3
  <2>5. n \in S
    <3>1. n \in 0 .. n
      BY <1>1
    <3>. HIDE DEF S
    <3>. QED
      BY <1>1, <2>3, <2>4, <3>1, UpToInduction
  <2>. QED
    BY <1>1, <2>2, <2>5
<1>. QED
  BY <1>2, <1>5, <1>8, <1>9, SMTT(30) DEF n

\* A flagged flow: its last packets were stamped in the order in which they
\* came, by MinBeacon on average (evaluate_beacon_rhythm), however the packets
\* of other flows came between them.
THEOREM FlaggedRegular == DetectorsSpec => []FlaggedIsRegular
<1>1. ASSUME BeaconInv, NEW k \in beacon
      PROVE  /\ \A i, j \in LastOf(k) : i < j => seen[i].ts < seen[j].ts
             /\ seen[Max(LastOf(k))].ts - seen[Min(LastOf(k))].ts
                  >= MinBeacon * Count
  <2>. DEFINE B == flows[k]
  <2>1. /\ seen # <<>> /\ k = LatestKey
        /\ Len(B) = FlowWindow /\ IsC2Beacon(B)
    BY <1>1 DEF BeaconInv, NoFlow
  <2>2. k \in DOMAIN flows
    <3>1. seen \in Seq(PacketRecords)
      BY <1>1 DEF BeaconInv
    <3>2. Len(seen) \in DOMAIN seen
      BY <2>1, <3>1
    <3>. QED
      BY <1>1, <2>1, <3>2 DEF BeaconInv, LatestKey
  <2>3. PICK pos : Lists(pos, k)
    BY <1>1, <2>2 DEF BeaconInv
  <2>. DEFINE n == FlowWindow
              L == {pos[a] : a \in 1 .. n}
  <2>4. /\ n \in Nat /\ n > 0 /\ B \in Seq(PacketRecords)
        /\ \A a \in 1 .. n : B[a] = seen[pos[a]]
        /\ Increasing(pos, n)
        /\ LastOf(k) = L
    BY <1>1, <2>1, <2>2, <2>3, LastAreListed, BeaconAssumption
  <2>5. /\ \A a \in 1 .. n : B[a].ts \in Nat
        /\ \A a, b \in 1 .. n : a < b => B[a].ts < B[b].ts
        /\ B[n].ts - B[1].ts >= MinBeacon * Count
    <3>1. Rhythmic(B)
      BY <2>1 DEF IsC2Beacon
    <3>. HIDE DEF B
    <3>. QED
      BY <2>1, <2>4, <3>1, RhythmIncreases
  <2>6. Min(L) = pos[1] /\ Max(L) = pos[n]
    <3>1. Enumerates(pos, 1, n, L)
      BY DEF Enumerates
    <3>. HIDE DEF L, n
    <3>. QED
      BY <2>4, <3>1, LastInOrder
  <2>. HIDE DEF B, n
  <2>7. ASSUME NEW i \in L, NEW j \in L, i < j
        PROVE  seen[i].ts < seen[j].ts
    <3>1. PICK a \in 1 .. n : i = pos[a]
      OBVIOUS
    <3>2. PICK b \in 1 .. n : j = pos[b]
      OBVIOUS
    <3>3. a < b
      <4>1. ~(a = b) /\ ~(b < a)
        BY <2>4, <2>7, <3>1, <3>2 DEF Increasing
      <4>. QED
        BY <2>4, <4>1
    <3>. QED
      BY <2>4, <2>5, <3>1, <3>2, <3>3
  <2>8. seen[pos[n]].ts - seen[pos[1]].ts >= MinBeacon * Count
    <3>1. 1 \in 1 .. n /\ n \in 1 .. n
      BY <2>4
    <3>. QED
      BY <2>4, <2>5, <3>1
  <2>. HIDE DEF L
  <2>. QED
    BY <2>4, <2>6, <2>7, <2>8
<1>2. BeaconInv => FlaggedIsRegular
  BY <1>1 DEF FlaggedIsRegular
<1>. QED
  BY <1>2, BeaconInvariant, PTL

\* The sums of n equal values.
LEMMA EqualTotals ==
  ASSUME NEW n \in Nat, NEW v, NEW d \in Nat, \A k \in 1 .. n : v[k] = d
  PROVE  Total(v, n) = n * d
<1>. DEFINE u == Totals(v, n)
            S == {k \in 0 .. n : u[k] = k * d}
<1>1. u[0] = 0 /\ \A k \in 1 .. n : u[k] = u[k - 1] + v[k]
  BY TotalsAdd
<1>. HIDE DEF u
<1>2. 0 \in S
  BY <1>1
<1>3. ASSUME NEW k \in 1 .. n, k - 1 \in S PROVE k \in S
  <2>1. u[k - 1] = (k - 1) * d /\ (k - 1) * d \in Nat
    BY <1>3
  <2>2. u[k] = u[k - 1] + d
    BY <1>1
  <2>3. (k - 1) * d + d = k * d
    OBVIOUS
  <2>. QED
    BY <2>1, <2>2, <2>3
<1>4. n \in S
  <2>1. n \in 0 .. n
    OBVIOUS
  <2>. HIDE DEF S
  <2>. QED
    BY <1>2, <1>3, <2>1, UpToInduction
<1>. QED
  BY <1>4 DEF Total, u

\* Small packets at even distances satisfy both criteria.
LEMMA EvenIsBeacon ==
  ASSUME NEW B \in Seq(PacketRecords), Len(B) = FlowWindow,
         NEW step \in Nat, step >= MinBeacon,
         \A a \in 1 .. FlowWindow :
           B[a].small /\ B[a].ts = B[1].ts + step * (a - 1)
  PROVE  IsC2Beacon(B)
<1>. DEFINE n == Count
            v == [i \in 1 .. Count |-> Delta(B, i + 1)]
            w == [i \in 1 .. Count |-> Delta(B, i + 1) * Delta(B, i + 1)]
<1>1. /\ n \in Nat /\ n > 0 /\ FlowWindow = n + 1
      /\ MinBeacon \in Nat /\ MinBeacon > 0
  BY BeaconAssumption DEF Count
<1>2. \A i \in 1 .. n : Delta(B, i + 1) = step
  <2>1. TAKE i \in 1 .. n
  <2>2. i \in 1 .. FlowWindow /\ i + 1 \in 1 .. FlowWindow /\ (i + 1) - 1 = i
        /\ 1 \in 1 .. Len(B)
    BY <1>1
  <2>3. B[1].ts \in Nat
    <3>1. B[1] \in PacketRecords
      BY <2>2
    <3>. QED
      BY <3>1 DEF PacketRecords
  <2>4. /\ B[i].ts = B[1].ts + step * (i - 1)
        /\ B[i + 1].ts = B[1].ts + step * i
    BY <2>2
  <2>5. step * i = step * (i - 1) + step /\ step * (i - 1) \in Nat
    OBVIOUS
  <2>6. ~(B[i + 1].ts < B[i].ts) /\ B[i + 1].ts - B[i].ts = step
    BY <2>3, <2>4, <2>5
  <2>. QED
    BY <2>2, <2>6 DEF Delta
<1>3. \A i \in 1 .. n : v[i] = step /\ w[i] = step * step
  BY <1>2
<1>4. SumOfDeltas(B) = n * step /\ SumOfSquaredDeltas(B) = n * (step * step)
  <2>1. SumOfDeltas(B) = Total(v, n) /\ SumOfSquaredDeltas(B) = Total(w, n)
    BY DEF SumOfDeltas, SumOfSquaredDeltas
  <2>2. step * step \in Nat
    OBVIOUS
  <2>. HIDE DEF v, w, n
  <2>. QED
    BY <1>1, <1>3, <2>1, <2>2, EqualTotals
<1>5. Rhythmic(B)
  <2>1. n * step >= MinBeacon * n /\ n * step \in Nat
    BY <1>1
  <2>2. n * (n * (step * step)) = (n * step) * (n * step)
    BY <1>1
  <2>3. (n * step) * (n * step) \in Nat
    BY <1>1
  <2>4. 30625 * (n * step) * (n * step) >= 0
    BY <1>1, <2>3
  <2>. QED
    BY <1>4, <2>1, <2>2, <2>3, <2>4 DEF Rhythmic
<1>6. Symmetric(B)
  <2>. DEFINE out == CountOf(B, "Outbound")
              in == CountOf(B, "Inbound")
              small == Cardinality({i \in Intervals : B[i].small})
  <2>1. Intervals \subseteq 1 .. FlowWindow /\ FlowWindow \in Nat
    BY <1>1 DEF Intervals
  <2>2. \A D : {i \in Intervals : B[i].direction = D} \subseteq 1 .. FlowWindow
    BY <2>1
  <2>3. out \in Nat /\ in \in Nat
    BY <2>1, <2>2, IntervalPart DEF CountOf
  <2>4. small = n
    <3>1. {i \in Intervals : B[i].small} = Intervals
      BY <2>1
    <3>2. Cardinality(2 .. n + 1) = n
      BY <1>1, FS_Interval
    <3>. QED
      BY <1>1, <3>1, <3>2 DEF Intervals
  <2>. HIDE DEF out, in, small, n
  <2>. DEFINE less == IF out < in THEN out ELSE in
              more == IF out < in THEN in ELSE out
  <2>5. less \in Nat /\ more \in Nat
    BY <2>3
  <2>. HIDE DEF less, more
  <2>6. 10 * (less * n + small * more) >= 8 * more * n
    <3>1. less * n \in Nat /\ more * n \in Nat /\ small * more = more * n
      BY <1>1, <2>4, <2>5
    <3>2. 8 * more * n = 8 * (more * n)
      BY <1>1, <2>5
    <3>. QED
      BY <3>1, <3>2
  <2>. QED
    BY <2>6 DEF Symmetric, less, more, out, in, small, n
<1>. QED
  BY <1>5, <1>6 DEF IsC2Beacon

\* Small packets evenly spaced by MinBeacon or any longer step are flagged with
\* each packet, wherever the window begins and whatever the other flows send
\* (ingest_packet).
THEOREM EvenFlagged == DetectorsSpec => []EvenTrafficIsFlagged
<1>1. ASSUME BeaconInv, seen # <<>>,
             NEW k, k = seen[Len(seen)].key, NEW w, w = LastOf(k),
             EvenWindow(w, MinBeacon)
      PROVE  beacon = {k}
  <2>. DEFINE B == flows[k]
              n == Len(B)
  <2>1. k = LatestKey /\ k \in DOMAIN flows
    <3>1. seen \in Seq(PacketRecords)
      BY <1>1 DEF BeaconInv
    <3>2. Len(seen) \in DOMAIN seen
      BY <1>1, <3>1
    <3>. QED
      BY <1>1, <3>2 DEF BeaconInv, LatestKey
  <2>2. PICK pos : Lists(pos, k)
    BY <1>1, <2>1 DEF BeaconInv
  <2>. DEFINE L == {pos[a] : a \in 1 .. n}
  <2>3. /\ n \in Nat /\ n > 0 /\ B \in Seq(PacketRecords)
        /\ \A a \in 1 .. n : B[a] = seen[pos[a]]
        /\ Increasing(pos, n)
        /\ LastOf(k) = L
    BY <1>1, <2>1, <2>2, LastAreListed
  <2>. HIDE DEF n
  <2>4. /\ Min(L) = pos[1] /\ Cardinality(L) = n
        /\ \A a \in 1 .. n : Cardinality(Before(L, pos[a])) = a - 1
    <3>1. Enumerates(pos, 1, n, L)
      BY DEF Enumerates
    <3>. HIDE DEF L
    <3>. QED
      BY <2>3, <3>1, LastInOrder
  <2>5. n = FlowWindow /\ w = L
    BY <1>1, <2>3, <2>4 DEF EvenWindow
  <2>6. PICK step \in {seen[i].ts - seen[Min(w)].ts : i \in w} :
          /\ step >= MinBeacon
          /\ \A i \in w : seen[i].ts = seen[Min(w)].ts
                                       + step * Cardinality({j \in w : j < i})
    BY <1>1 DEF EvenWindow
  <2>7. step \in Nat
    <3>1. PICK i \in w : step = seen[i].ts - seen[Min(w)].ts
      BY <2>6
    <3>2. PICK a \in 1 .. n : i = pos[a]
      BY <2>5, <3>1
    <3>3. /\ seen[i] = B[a] /\ seen[Min(w)] = B[1]
          /\ B[a] \in PacketRecords /\ B[1] \in PacketRecords
      <4>1. 1 \in 1 .. n
        BY <2>3
      <4>2. seen[i] = B[a] /\ seen[Min(w)] = B[1]
        BY <2>3, <2>4, <2>5, <3>2, <4>1
      <4>3. \A c \in 1 .. n : B[c] \in PacketRecords
        BY <2>3 DEF n
      <4>. QED
        BY <4>1, <4>2, <4>3
    <3>4. B[a].ts \in Nat /\ B[1].ts \in Nat
      BY <3>3 DEF PacketRecords
    <3>. QED
      BY <2>6, <3>1, <3>3, <3>4, BeaconAssumption
  <2>8. ASSUME NEW a \in 1 .. n
        PROVE  B[a].small /\ B[a].ts = B[1].ts + step * (a - 1)
    <3>1. pos[a] \in w /\ 1 \in 1 .. n
      BY <2>3, <2>5
    <3>2. Cardinality({j \in w : j < pos[a]}) = a - 1
      BY <2>4, <2>5 DEF Before
    <3>. HIDE DEF B, L
    <3>3. seen[pos[a]].small
      BY <1>1, <3>1 DEF EvenWindow
    <3>4. seen[pos[a]].ts = seen[pos[1]].ts + step * (a - 1)
      BY <2>4, <2>5, <2>6, <3>1, <3>2
    <3>5. B[a] = seen[pos[a]] /\ B[1] = seen[pos[1]]
      BY <2>3, <3>1
    <3>. QED
      BY <3>3, <3>4, <3>5
  <2>9. IsC2Beacon(B)
    <3>1. step \in Nat /\ step >= MinBeacon
      BY <2>6, <2>7
    <3>2. Len(B) = FlowWindow
      BY <2>5 DEF n
    <3>. HIDE DEF B
    <3>. QED
      BY <2>3, <2>5, <2>8, <3>1, <3>2, EvenIsBeacon
  <2>. QED
    BY <1>1, <2>1, <2>5, <2>9 DEF BeaconInv, n
<1>2. BeaconInv => EvenTrafficIsFlagged
  BY <1>1 DEF EvenTrafficIsFlagged
<1>. QED
  BY <1>2, BeaconInvariant, PTL
=============================================================================

----------------------------- MODULE GuestAgent -----------------------------
(***************************************************************************)
(* The guest agent's audit source (audit_source.rs) and the stream of its  *)
(* frames to the host.  The stream and the bridge that reads it are        *)
(* external: a connection may end at any byte, which cuts one frame short  *)
(* and loses those behind it, and the agent may be started again.          *)
(***************************************************************************)
EXTENDS GuestWire, FiniteSets

VARIABLES
  sequence_counter,  \* the agent's next sequence number
  up,                \* the agent is running
  agent,             \* history: the number of the agent's session
  operations,        \* history: session and path of the operations so far
  stream,            \* the frames on their way, in order
  decoded,           \* history: the records the bridge decoded, in order
  turnedAway         \* history: whole frames that from_frame refused

agentVars ==
  <<sequence_counter, up, agent, operations, stream, decoded, turnedAway>>

\* `id' and `agent' are history: which operation, and of which session.
GuestWriteRecord(path) ==
  [major |-> 1, sequence_number |-> sequence_counter, operation |-> 1,
   flags |-> 0, path |-> path, id |-> Len(operations) + 1, agent |-> agent]

AgentInit ==
  /\ sequence_counter = 1 /\ up = TRUE /\ agent = 0
  /\ operations = <<>> /\ stream = <<>> /\ decoded = <<>> /\ turnedAway = 0

\* Mutant of TakeNumber: only a record that can be framed takes a number.
TakeNumberOfFramed(r) ==
  sequence_counter' = IF Framed(r) THEN sequence_counter + 1
                      ELSE sequence_counter

\* A path that is not normalised takes no number.
TakeNumber(r) ==
  sequence_counter' = IF IsNormalized(r.path) THEN sequence_counter + 1
                      ELSE sequence_counter

\* record_operation and prepare_wire_frame: one that is too long takes a number
\* and yields no frame.  Both return their failures; main ends over one, by
\* exit or expect, where another caller may go on.
RecordOperation(path) ==
  LET r == GuestWriteRecord(path)
  IN /\ up
     /\ up' \in {TRUE, Framed(r)}
     /\ operations' = Append(operations, [agent |-> agent, path |-> path])
     /\ TakeNumber(r)
     /\ stream' = IF Framed(r) THEN Append(stream, ToFrame(r)) ELSE stream
     /\ UNCHANGED <<agent, decoded, turnedAway>>

\* A new agent has a new audit source; the stream may still deliver.
AgentRestarts ==
  /\ up' = TRUE
  /\ agent' = agent + 1
  /\ sequence_counter' = 1
  /\ UNCHANGED <<operations, stream, decoded, turnedAway>>

\* The bridge takes the first frame off the stream.
ReceiveFrame ==
  /\ stream # <<>>
  /\ LET f == Head(stream)
         ok == FromFrame(f) = "Ok"
     IN /\ decoded' = IF ok THEN Append(decoded, f.record) ELSE decoded
        /\ turnedAway' = IF ok THEN turnedAway ELSE turnedAway + 1
  /\ stream' = Tail(stream)
  /\ UNCHANGED <<sequence_counter, up, agent, operations>>

\* The connection ends after n bytes of the first frame's payload.
ConnectionEnds(n) ==
  /\ stream # <<>>
  /\ n < Head(stream).actual
  /\ LET f == [Head(stream) EXCEPT !.actual = n]
     IN decoded' = IF FromFrame(f) = "Ok" THEN Append(decoded, f.record)
                   ELSE decoded
  /\ stream' = <<>>
  /\ UNCHANGED <<sequence_counter, up, agent, operations, turnedAway>>

\* Where a connection may end: at once, past the header, before the last byte.
Cuts ==
  {0, MinPayload} \cup
    {f.actual - 1 : f \in {stream[i] : i \in DOMAIN stream}}

-----------------------------------------------------------------------------
\* The agent and the host agree about the wire: no frame that arrives whole is
\* refused, so that whatever path the agent frames the host accepts, and every
\* record decoded is of one operation, in the order of the operations, never of
\* a frame that was cut (to_frame, from_frame).
DecodedInOrder ==
  /\ turnedAway = 0
  /\ \A i \in DOMAIN decoded :
       /\ decoded[i].path = operations[decoded[i].id].path
       /\ i > 1 => decoded[i - 1].id < decoded[i].id

\* Nothing is lost in the middle without a trace: between two records of one
\* session the sequence numbers advance by the number of writes under /mnt that
\* the agent was told of, those cut, lost with a connection or too long to be
\* framed included (record_operation).
LossesShowAsGaps ==
  \A i, j \in DOMAIN decoded :
    (i < j /\ decoded[i].agent = decoded[j].agent) =>
      decoded[j].sequence_number - decoded[i].sequence_number =
        Cardinality({k \in decoded[i].id + 1 .. decoded[j].id :
          /\ operations[k].agent = decoded[j].agent
          /\ IsNormalized(operations[k].path)})
=============================================================================

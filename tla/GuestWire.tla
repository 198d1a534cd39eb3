----------------------------- MODULE GuestWire ------------------------------
(***************************************************************************)
(* What the guest agent puts on the AF_VSOCK stream and the host takes off *)
(* it (wire.rs, audit_source.rs): normalised paths, the framing of a       *)
(* record and its checks.                                                  *)
(*                                                                         *)
(* A path is the sequence of what stands between its slashes, up to the    *)
(* ASCII case that the host ignores.  A frame is its lengths and the       *)
(* record; fields that are only carried along are left out.                *)
(***************************************************************************)
EXTENDS Naturals, Sequences

CONSTANTS
  GuestPaths,  \* paths that guest processes write to
  Drives,      \* segments of one byte
  PathBytes    \* the length of each path in bytes

MaxPathBytes == 4096
HeaderSize   == 149                        \* FIXED_HEADER_SIZE
MinPayload   == HeaderSize + 1             \* MIN_PAYLOAD_SIZE
MaxPayload   == HeaderSize + MaxPathBytes  \* MAX_PAYLOAD_SIZE

ASSUME GuestWireAssumption == PathBytes \in [GuestPaths -> Nat]

\* Mutant of IsNormalized: components that lead upwards pass.
IsNormalizedLoosely(path) ==
  /\ Len(path) > 2 /\ path[1] = "" /\ path[2] = "mnt"
  /\ path # <<"", "mnt", "">>

\* is_normalized_mnt_path: no component is empty, "." or "..", except that the
\* last may be empty.
IsNormalized(path) ==
  /\ Len(path) > 2 /\ path[1] = "" /\ path[2] = "mnt"
  /\ path # <<"", "mnt", "">>
  /\ \A i \in 2 .. Len(path) :
       \/ path[i] \notin {"", ".", ".."}
       \/ i = Len(path) /\ path[i] = ""

\* translate_mnt_to_windows_path, or else the path as it is.
Translate(path) ==
  IF path[3] \notin Drives THEN path
  ELSE <<path[3]>> \o (IF Len(path) = 3 THEN <<"">>
                       ELSE SubSeq(path, 4, Len(path)))

\* Mutant of Framed: only an empty path is refused.
FramedAnyLength(r) ==
  IsNormalized(r.path) /\ PathBytes[r.path] > 0

\* to_frame succeeds.
Framed(r) ==
  IsNormalized(r.path) /\ PathBytes[r.path] \in 1 .. MaxPathBytes

\* to_frame; `actual' is what arrives of the payload.  A String is UTF-8.
ToFrame(r) ==
  [record |-> r, declared |-> HeaderSize + PathBytes[r.path],
   actual |-> HeaderSize + PathBytes[r.path],
   path_len |-> PathBytes[r.path] % 65536, utf8 |-> TRUE]

\* from_payload
FromPayload(f) ==
  IF f.actual \notin MinPayload .. MaxPayload THEN "PayloadLengthOutOfBounds"
  ELSE IF f.record.major # 1 THEN "UnsupportedMajorVersion"
  ELSE IF f.record.sequence_number = 0 THEN "ZeroSequenceNumber"
  ELSE IF f.record.operation \notin 1 .. 3 THEN "InvalidOperation"
  ELSE IF f.record.flags # 0 THEN "NonzeroFlags"
  ELSE IF f.path_len # f.actual - HeaderSize THEN "PathLengthMismatch"
  ELSE IF ~f.utf8 THEN "InvalidUtf8Path"
  ELSE IF ~IsNormalized(f.record.path) THEN "NonNormalizedPath"
  ELSE "Ok"

\* from_frame
FromFrame(f) ==
  IF f.actual < MinPayload THEN "FrameTooSmall"
  ELSE IF f.declared # f.actual THEN "PayloadLengthMismatch"
  ELSE FromPayload(f)
=============================================================================

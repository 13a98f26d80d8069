--------------------------- MODULE MCFrameBuffer ---------------------------
(***************************************************************************)
(* FrameBuffer on every stream of three records drawn from RecordKinds:    *)
(* the shortest frame, one with a CRC, the longest frame MaxFrame allows,  *)
(* and records for each of the three malformed prefixes.  The third record *)
(* repeats until StreamEnd.                                                *)
(***************************************************************************)
EXTENDS FrameBuffer

RecordKinds ==
  { [protocol |-> 2, declared |-> 2],      \* 8 bytes, the shortest
    [protocol |-> 5, declared |-> 2],      \* 10 bytes with the CRC
    [protocol |-> 6, declared |-> 4],      \* 12 bytes = MaxFrame
    [protocol |-> 9, declared |-> 4],      \* unsupported protocol
    [protocol |-> 2, declared |-> 1],      \* shorter than the record type
    [protocol |-> 5, declared |-> 5],      \* 13 bytes, just over MaxFrame
    [protocol |-> 2, declared |-> 9] }     \* 15 bytes, over any buffer

StreamOf(a, b, c) ==
  [p \in 0..StreamEnd |->
     IF p < FrameLength(a) THEN a
     ELSE IF p < FrameLength(a) + FrameLength(b) THEN b
     ELSE c]

MCStreams == {StreamOf(a, b, c) : a, b, c \in RecordKinds}
=============================================================================

---------------------------- MODULE FrameStream ----------------------------
(***************************************************************************)
(* What cutting a byte stream into Growatt frames promises, whatever the   *)
(* sizes of the chunks it arrives in: frames come out one at a time, each  *)
(* starting where the one before ended and as long as its own prefix says, *)
(* never before its last byte has arrived; nothing is cut behind a         *)
(* malformed prefix, however often it is reported.  How many bytes one     *)
(* recv returned cannot be observed in the frames; only an incomplete rest *)
(* over the buffer's bound can be reported as well.                        *)
(*                                                                         *)
(* A stream is a function from positions to prefixes: stream[p] is what    *)
(* the six bytes from p on say if a frame starts at p.                     *)
(***************************************************************************)
EXTENDS GrowattWire, Sequences

CONSTANTS
  Streams,      \* the byte streams a peer may send
  StreamEnd,    \* the number of bytes in a stream
  MaxFrame,     \* max_frame_size
  MaxBuffer     \* max_buffer_size

VARIABLES
  stream,       \* the stream this peer sends
  received,     \* the number of its bytes that have arrived
  delivered,    \* the frames cut so far, each an interval <<first, next>>
  failed        \* an error has been reported

streamVars == <<stream, received, delivered, failed>>

(* Where the next frame starts: where the last one ended. *)
Boundary(frames) == IF frames = <<>> THEN 0 ELSE frames[Len(frames)][2]

Init ==
  /\ stream \in Streams
  /\ received = 0
  /\ delivered = <<>>
  /\ failed = FALSE

Arrive ==
  /\ \E n \in received..StreamEnd : received' = n
  /\ UNCHANGED <<stream, delivered, failed>>

(* The frame at the boundary has all its bytes. *)
Complete(start) ==
  /\ start + PrefixLength <= received
  /\ ~Malformed(stream[start], MaxFrame)
  /\ start + FrameLength(stream[start]) <= received

Deliver ==
  LET start == Boundary(delivered)
  IN  /\ Complete(start)
      /\ delivered' = Append(delivered,
                             <<start, start + FrameLength(stream[start])>>)
      /\ UNCHANGED <<stream, received, failed>>

Fail ==
  LET start == Boundary(delivered)
  IN  /\ start + PrefixLength <= received
      /\ Malformed(stream[start], MaxFrame)
      /\ failed' = TRUE
      /\ UNCHANGED <<stream, received, delivered>>

Overflow ==
  LET start == Boundary(delivered)
  IN  /\ ~Complete(start)
      /\ received - start > MaxBuffer
      /\ failed' = TRUE
      /\ UNCHANGED <<stream, received, delivered>>

Next == Arrive \/ Deliver \/ Fail \/ Overflow

Spec == Init /\ [][Next]_streamVars
=============================================================================

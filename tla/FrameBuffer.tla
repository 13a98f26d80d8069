---------------------------- MODULE FrameBuffer ----------------------------
(***************************************************************************)
(* grottprotocol.FrameBuffer: one instance per socket, fed every chunk the *)
(* socket receives.                                                        *)
(*                                                                         *)
(* The bytes in self._buffer are the interval [start, received) of the     *)
(* peer's stream: feed() extends the buffer on the right and each complete *)
(* frame is deleted from its left.  One call of feed() is the step Feed    *)
(* followed by the iterations of its while loop, one step each, and by the *)
(* step that returns or raises.  Nothing else runs on the instance in      *)
(* between, so the split shows no interleaving; it lets the loop be read   *)
(* and proved one iteration at a time.                                     *)
(*                                                                         *)
(* Abstracted: the bytes of a record behind its prefix.                    *)
(***************************************************************************)
EXTENDS GrowattWire, Sequences

CONSTANTS
  Streams,      \* the byte streams a peer may send (see FrameStream)
  StreamEnd,    \* the number of bytes in a stream
  MaxChunk,     \* the most bytes one recv returns (buffer_size, 4096)
  MaxFrame,     \* max_frame_size
  MaxBuffer     \* max_buffer_size; max_frame_size unless given

ASSUME FrameBufferAssumption ==
  /\ StreamEnd \in Nat
  /\ MaxChunk \in Nat \ {0}
  /\ MaxFrame \in Nat /\ MaxFrame >= 8      \* the constructor's ValueError
  /\ MaxBuffer \in Nat
  /\ \A s \in Streams : \A p \in 0..StreamEnd : PrefixOK(s[p])

VARIABLES
  stream,       \* the stream this peer sends
  received,     \* bytes of it fed so far
  start,        \* bytes of it deleted from the front of self._buffer
  frames,       \* the local list `frames' of the call of feed() in progress
  delivered,    \* history: the frames all finished calls handed out
  failed,       \* history: a call has ended in a FrameError
  pc            \* "idle": no call in progress; "loop": at the head of the while

framerVars == <<stream, received, start, frames, delivered, failed, pc>>

Buffered == received - start

(* Mutant: the `break' on an incomplete frame is missing. *)
NeedMoreBytes_NoBreak == Buffered < PrefixLength

(* Both conditions under which the while loop is left without an error. *)
NeedMoreBytes ==
  \/ Buffered < PrefixLength
  \/ /\ ~Malformed(stream[start], MaxFrame)
     /\ Buffered < FrameLength(stream[start])

FramerInit ==
  /\ stream \in Streams
  /\ received = 0
  /\ start = 0
  /\ frames = <<>>
  /\ delivered = <<>>
  /\ failed = FALSE
  /\ pc = "idle"

(* feed(chunk): self._buffer.extend(chunk); frames = [].  The proxy closes a
   connection that raised FrameError and never feeds it again; a call after an
   error is allowed here because the class allows it. *)
Feed(n) ==
  /\ pc = "idle"
  /\ received + n <= StreamEnd
  /\ received' = received + n
  /\ frames' = <<>>
  /\ pc' = "loop"
  /\ UNCHANGED <<stream, start, delivered, failed>>

(* One iteration that completes a frame. *)
TakeFrame ==
  /\ pc = "loop"
  /\ Buffered >= PrefixLength
  /\ ~Malformed(stream[start], MaxFrame)
  /\ FrameLength(stream[start]) <= Buffered
  /\ frames' = Append(frames, <<start, start + FrameLength(stream[start])>>)
  /\ start' = start + FrameLength(stream[start])
  /\ UNCHANGED <<stream, received, delivered, failed, pc>>

(* Mutant: the error discards the frames completed before it. *)
RejectPrefix_DropFrames ==
  /\ pc = "loop"
  /\ Buffered >= PrefixLength
  /\ Malformed(stream[start], MaxFrame)
  /\ frames' = <<>>
  /\ failed' = TRUE
  /\ pc' = "idle"
  /\ UNCHANGED <<stream, received, start, delivered>>

(* An iteration that raises: the frames completed before it are still handed
   out, by the generator that raises the error after them. *)
RejectPrefix ==
  /\ pc = "loop"
  /\ Buffered >= PrefixLength
  /\ Malformed(stream[start], MaxFrame)
  /\ delivered' = delivered \o frames
  /\ frames' = <<>>
  /\ failed' = TRUE
  /\ pc' = "idle"
  /\ UNCHANGED <<stream, received, start>>

(* The check behind the loop: the incomplete rest is over max_buffer_size. *)
RejectOverflow ==
  /\ pc = "loop"
  /\ NeedMoreBytes
  /\ Buffered > MaxBuffer
  /\ delivered' = delivered \o frames
  /\ frames' = <<>>
  /\ failed' = TRUE
  /\ pc' = "idle"
  /\ UNCHANGED <<stream, received, start>>

(* Mutants: the while is an if; the final size check is missing. *)
ReturnFrames_AfterOne ==
  /\ pc = "loop"
  /\ NeedMoreBytes \/ frames # <<>>
  /\ Buffered <= MaxBuffer
  /\ delivered' = delivered \o frames
  /\ frames' = <<>>
  /\ pc' = "idle"
  /\ UNCHANGED <<stream, received, start, failed>>

ReturnFrames_Unbounded ==
  /\ pc = "loop"
  /\ NeedMoreBytes
  /\ delivered' = delivered \o frames
  /\ frames' = <<>>
  /\ pc' = "idle"
  /\ UNCHANGED <<stream, received, start, failed>>

(* Behind the loop: hand the completed frames out. *)
ReturnFrames ==
  /\ pc = "loop"
  /\ NeedMoreBytes
  /\ Buffered <= MaxBuffer
  /\ delivered' = delivered \o frames
  /\ frames' = <<>>
  /\ pc' = "idle"
  /\ UNCHANGED <<stream, received, start, failed>>

FeedLoop == TakeFrame \/ RejectPrefix \/ RejectOverflow \/ ReturnFrames

FramerNext == (\E n \in 1..MaxChunk : Feed(n)) \/ FeedLoop

(* A call of feed() runs to its end. *)
FramerSpec ==
  /\ FramerInit
  /\ [][FramerNext]_framerVars
  /\ WF_framerVars(FeedLoop)
-----------------------------------------------------------------------------
(* Every frame cut so far, in order. *)
Cut == delivered \o frames

Interval == (0..StreamEnd) \X (0..StreamEnd)

FramerTypeOK ==
  /\ \A p \in 0..StreamEnd : PrefixOK(stream[p])
  /\ received \in 0..StreamEnd
  /\ start \in 0..StreamEnd
  /\ frames \in Seq(Interval)
  /\ delivered \in Seq(Interval)
  /\ failed \in BOOLEAN
  /\ pc \in {"idle", "loop"}

(* The frames cut tile the deleted bytes: the first starts at byte 0, each
   starts where the one before ended, the last ends at the first byte still
   buffered.  No byte of the stream is lost between two frames, and none is in
   two of them (the del of self._buffer[:frame_length] after the append). *)
FramesTile ==
  /\ start <= received
  /\ Cut = <<>> => start = 0
  /\ Cut # <<>> => Cut[1][1] = 0 /\ Cut[Len(Cut)][2] = start
  /\ \A i \in 1..(Len(Cut) - 1) : Cut[i][2] = Cut[i + 1][1]

(* Each frame is exactly as long as the prefix at its first byte says and is
   one the validator accepts but for its CRC: framer and validate_record agree
   on the length rule, so a record the framer cut is never forwarded raw for
   its length. *)
FramesWellFormed ==
  \A i \in 1..Len(Cut) :
    LET prefix == stream[Cut[i][1]]
        size   == Cut[i][2] - Cut[i][1]
    IN  size <= MaxFrame /\ ValidRecord(prefix, size, TRUE, TRUE)

(* A call that returns normally withholds nothing: what stays buffered is a
   proper part of one frame, so it is bounded by MaxFrame however long the
   peer keeps sending; and it is within max_buffer_size, whatever that is. *)
NothingWithheld ==
  (pc = "idle" /\ ~failed) =>
    NeedMoreBytes /\ Buffered < MaxFrame /\ Buffered <= MaxBuffer

(* With the buffer bound at its default the overflow error behind the loop
   cannot be raised: the loop has already rejected every frame that would not
   fit the buffer. *)
NoOverflow ==
  MaxBuffer >= MaxFrame =>
    ~(pc = "loop" /\ NeedMoreBytes /\ Buffered > MaxBuffer)

(* The frames in the first r bytes of s, read off them in one go: the value at
   p is what a parser that saw all of them at once would cut from p on. *)
FrameAt(s, p) == <<p, p + FrameLength(s[p])>>

CompleteAt(s, p, r) ==
  /\ p + PrefixLength <= r
  /\ ~Malformed(s[p], MaxFrame)
  /\ p + FrameLength(s[p]) <= r

FramesWithin(s, r) ==
  LET parse[p \in 0..StreamEnd] ==
        IF CompleteAt(s, p, r) THEN <<FrameAt(s, p)>> \o parse[FrameAt(s, p)[2]] ELSE <<>>
  IN  parse

FramesReceived == FramesWithin(stream, received)[0]

(* Every complete frame of the bytes that have arrived is cut, and nothing else
   is, however they were chunked and however often feed() was called: a prefix
   of those frames while a call works, all of them between two calls. *)
CutsWhatArrived ==
  /\ Len(Cut) <= Len(FramesReceived)
  /\ Cut = SubSeq(FramesReceived, 1, Len(Cut))
  /\ pc = "idle" => delivered = FramesReceived

(* The parser implements the abstract one: how the stream was chunked does not
   show in the frames, and nothing is cut behind a malformed prefix, even if
   the caller goes on feeding. *)
Abstract == INSTANCE FrameStream WITH delivered <- Cut
FrameBufferImplementsStream == Abstract!Spec

(* Every call of feed() returns or raises: each iteration shortens the buffer. *)
FeedReturns == (pc = "loop") ~> (pc = "idle")
=============================================================================

------------------------- MODULE FrameBufferProofs -------------------------
(***************************************************************************)
(* Proofs about FrameBuffer, for every set of streams, every chunking and  *)
(* every MaxFrame.                                                         *)
(*                                                                         *)
(* FramesTile and FramesWellFormed are inductive together with the types   *)
(* and with the fact that no frames are held between two calls; FramesTile *)
(* says that the buffer begins where the abstract parser stands, which is  *)
(* what the refinement needs.                                              *)
(***************************************************************************)
EXTENDS FrameBuffer, DataInduction

(* Between two calls of feed() the frames are with the caller. *)
IdleHoldsNoFrames == pc = "idle" => frames = <<>>

(* The strengthening of the type invariant the proofs carry along. *)
FramerTyped ==
  /\ FramerTypeOK
  /\ stream \in Streams
  /\ start <= received
  /\ IdleHoldsNoFrames

FramerInv ==
  FramerTyped /\ FramesTile /\ FramesWellFormed /\ NothingWithheld

-----------------------------------------------------------------------------
(* The length of a well-formed frame: at least the eight-byte header, at most
   MaxFrame. *)
LEMMA FrameLengthBounds ==
  ASSUME NEW prefix, PrefixOK(prefix)
  PROVE  /\ FrameLength(prefix) \in Nat
         /\ CrcLength(prefix) \in {0, 2}
         /\ ~Malformed(prefix, MaxFrame) =>
               /\ 8 <= FrameLength(prefix)
               /\ FrameLength(prefix) <= MaxFrame
               /\ ValidRecord(prefix, FrameLength(prefix), TRUE, TRUE)
<1>1. CrcLength(prefix) \in {0, 2}
  BY DEF CrcLength
<1>2. prefix.declared \in Nat
  BY DEF PrefixOK
<1>3. FrameLength(prefix) = 6 + prefix.declared + CrcLength(prefix)
  BY DEF FrameLength, PrefixLength
<1>4. FrameLength(prefix) \in Nat
  BY <1>1, <1>2, <1>3
<1>5. ASSUME ~Malformed(prefix, MaxFrame)
      PROVE  /\ 8 <= FrameLength(prefix)
             /\ FrameLength(prefix) <= MaxFrame
             /\ ValidRecord(prefix, FrameLength(prefix), TRUE, TRUE)
  <2>1. /\ prefix.protocol \in SupportedProtocols
        /\ prefix.declared >= 2
        /\ FrameLength(prefix) <= MaxFrame
    BY <1>2, <1>4, <1>5, FrameBufferAssumption DEF Malformed
  <2>2. FrameLength(prefix) >= 8
    BY <1>1, <1>2, <1>3, <2>1
  <2> QED
    BY <2>1, <2>2 DEF ValidRecord
<1> QED
  BY <1>1, <1>4, <1>5

(* The initial state. *)
LEMMA InitFramerInv == FramerInit => FramerInv
<1> SUFFICES ASSUME FramerInit PROVE FramerInv
  OBVIOUS
<1> USE FrameBufferAssumption DEF FramerInit
<1>1. Cut = <<>>
  BY DEF Cut
<1>2. FramerTyped
  <2>1. \A p \in 0..StreamEnd : PrefixOK(stream[p])
    OBVIOUS
  <2>2. frames \in Seq(Interval) /\ delivered \in Seq(Interval)
    OBVIOUS
  <2>3. received \in 0..StreamEnd /\ start \in 0..StreamEnd /\ start <= received
    OBVIOUS
  <2>4. failed \in BOOLEAN /\ pc \in {"idle", "loop"}
    OBVIOUS
  <2> QED
    BY <2>1, <2>2, <2>3, <2>4 DEF FramerTyped, FramerTypeOK, IdleHoldsNoFrames
<1>3. FramesTile /\ FramesWellFormed
  BY <1>1 DEF FramesTile, FramesWellFormed
<1>4. NothingWithheld
  BY DEF NothingWithheld, NeedMoreBytes, Buffered, PrefixLength
<1> QED
  BY <1>2, <1>3, <1>4 DEF FramerInv

(* What an iteration that completes a frame does to the frames cut. *)
LEMMA TakeFrameCuts ==
  ASSUME FramerTyped, TakeFrame
  PROVE  LET frame == <<start, start + FrameLength(stream[start])>>
         IN  /\ frame \in Interval
             /\ Cut \in Seq(Interval)
             /\ Cut' = Append(Cut, frame)
             /\ start' = frame[2]
             /\ start' <= received'
             /\ ValidRecord(stream[start], frame[2] - frame[1], TRUE, TRUE)
             /\ frame[2] - frame[1] <= MaxFrame
<1> DEFINE frame == <<start, start + FrameLength(stream[start])>>
<1> USE DEF FramerTyped, FramerTypeOK
<1>1. PrefixOK(stream[start])
  OBVIOUS
<1>2. /\ FrameLength(stream[start]) \in Nat
      /\ FrameLength(stream[start]) <= MaxFrame
      /\ ValidRecord(stream[start], FrameLength(stream[start]), TRUE, TRUE)
  BY <1>1, FrameLengthBounds DEF TakeFrame
<1>3. start + FrameLength(stream[start]) <= received
  BY <1>2 DEF TakeFrame, Buffered
<1>4. frame \in Interval
  BY <1>2, <1>3, FrameBufferAssumption DEF Interval
<1>5. Cut \in Seq(Interval) /\ Cut' = Append(Cut, frame)
  BY <1>4, ConcatAppend DEF TakeFrame, Cut
<1>6. frame[2] - frame[1] = FrameLength(stream[start])
  BY <1>2
<1> QED
  BY <1>2, <1>3, <1>4, <1>5, <1>6 DEF TakeFrame

(* The other steps cut nothing. *)
LEMMA OtherStepsCutNothing ==
  ASSUME FramerTyped,
         (\E n \in 1..MaxChunk : Feed(n)) \/ RejectPrefix \/ RejectOverflow
           \/ ReturnFrames \/ UNCHANGED framerVars
  PROVE  Cut' = Cut /\ start' = start /\ stream' = stream
<1> USE DEF FramerTyped, FramerTypeOK, Cut
<1>1. CASE \E n \in 1..MaxChunk : Feed(n)
  BY <1>1 DEF Feed, IdleHoldsNoFrames
<1>2. CASE RejectPrefix \/ RejectOverflow \/ ReturnFrames
  <2>1. delivered \o frames \in Seq(Interval)
    OBVIOUS
  <2>2. (delivered \o frames) \o <<>> = delivered \o frames
    BY <2>1, ConcatEmptySeq
  <2> QED
    BY <1>2, <2>2 DEF RejectPrefix, RejectOverflow, ReturnFrames
<1>3. CASE UNCHANGED framerVars
  BY <1>3 DEF framerVars
<1> QED
  BY <1>1, <1>2, <1>3

(* Types, and no frames between two calls. *)
LEMMA NextTyped == FramerTyped /\ [FramerNext]_framerVars => FramerTyped'
<1> SUFFICES ASSUME FramerTyped, [FramerNext]_framerVars PROVE FramerTyped'
  OBVIOUS
<1> USE FrameBufferAssumption DEF FramerTyped, FramerTypeOK, IdleHoldsNoFrames
<1>1. ASSUME NEW n \in 1..MaxChunk, Feed(n) PROVE FramerTyped'
  BY <1>1 DEF Feed
<1>2. CASE TakeFrame
  <2>1. start + FrameLength(stream[start]) \in 0..StreamEnd
    BY <1>2, TakeFrameCuts DEF Interval
  <2>2. frames' \in Seq(Interval)
    <3> DEFINE frame == <<start, start + FrameLength(stream[start])>>
    <3>1. frame \in Interval
      BY <1>2, TakeFrameCuts
    <3>2. frames' = Append(frames, frame)
      BY <1>2 DEF TakeFrame
    <3> QED
      BY <3>1, <3>2
  <2> QED
    BY <1>2, <2>1, <2>2, TakeFrameCuts DEF TakeFrame
<1>3. CASE RejectPrefix
  BY <1>3 DEF RejectPrefix
<1>4. CASE RejectOverflow
  BY <1>4 DEF RejectOverflow
<1>5. CASE ReturnFrames
  BY <1>5 DEF ReturnFrames
<1>6. CASE UNCHANGED framerVars
  BY <1>6 DEF framerVars
<1> QED
  BY <1>1, <1>2, <1>3, <1>4, <1>5, <1>6 DEF FramerNext, FeedLoop

(* The frames keep tiling the bytes taken. *)
LEMMA NextTile ==
  FramerTyped /\ FramesTile /\ [FramerNext]_framerVars => FramesTile'
<1> SUFFICES ASSUME FramerTyped, FramesTile, [FramerNext]_framerVars
             PROVE  FramesTile'
  OBVIOUS
<1>1. CASE TakeFrame
  <2> DEFINE frame == <<start, start + FrameLength(stream[start])>>
  <2>1. /\ frame \in Interval /\ Cut \in Seq(Interval)
        /\ Cut' = Append(Cut, frame)
        /\ start' = frame[2] /\ start' <= received'
    BY <1>1, TakeFrameCuts
  <2>2. /\ Len(Cut') = Len(Cut) + 1
        /\ Cut'[Len(Cut) + 1] = frame
        /\ \A i \in 1..Len(Cut) : Cut'[i] = Cut[i]
    BY <2>1
  <2>3. Cut'[1][1] = 0
    <3>1. CASE Cut = <<>>
      BY <3>1, <2>1, <2>2 DEF FramesTile
    <3>2. CASE Cut # <<>>
      <4>1. 1 \in 1..Len(Cut)
        BY <3>2, <2>1
      <4> QED
        BY <3>2, <4>1, <2>2 DEF FramesTile
    <3> QED
      BY <3>1, <3>2
  <2>4. ASSUME NEW i \in 1..(Len(Cut') - 1) PROVE Cut'[i][2] = Cut'[i + 1][1]
    <3>1. Len(Cut) \in Nat /\ i \in 1..Len(Cut)
      BY <2>1, <2>2
    <3>2. CASE i = Len(Cut)
      <4>1. Cut # <<>>
        BY <3>1
      <4> QED
        BY <3>1, <3>2, <4>1, <2>2 DEF FramesTile
    <3>3. CASE i # Len(Cut)
      <4>1. i \in 1..(Len(Cut) - 1) /\ i + 1 \in 1..Len(Cut)
        BY <3>1, <3>3
      <4> QED
        BY <4>1, <3>1, <2>2 DEF FramesTile
    <3> QED
      BY <3>2, <3>3
  <2>5. Cut'[Len(Cut')][2] = start' /\ Cut' # <<>>
    BY <2>1, <2>2
  <2> QED
    BY <2>1, <2>3, <2>4, <2>5 DEF FramesTile
<1>2. CASE ~TakeFrame
  <2>1. Cut' = Cut /\ start' = start
    BY <1>2, OtherStepsCutNothing DEF FramerNext, FeedLoop
  <2>2. received <= received'
    BY <1>2 DEF FramerNext, FeedLoop, Feed, RejectPrefix, RejectOverflow,
                ReturnFrames, framerVars, FramerTyped, FramerTypeOK
  <2>3. received' \in Nat /\ start <= received'
    BY <2>2, NextTyped, <2>1 DEF FramerTyped, FramerTypeOK
  <2> QED
    BY <2>1, <2>3 DEF FramesTile
<1> QED
  BY <1>1, <1>2

(* Every frame stays as long as its prefix says. *)
LEMMA NextWellFormed ==
  FramerTyped /\ FramesWellFormed /\ [FramerNext]_framerVars => FramesWellFormed'
<1> SUFFICES ASSUME FramerTyped, FramesWellFormed, [FramerNext]_framerVars
             PROVE  FramesWellFormed'
  OBVIOUS
<1>1. CASE TakeFrame
  <2> DEFINE frame == <<start, start + FrameLength(stream[start])>>
  <2>1. /\ frame \in Interval /\ Cut \in Seq(Interval)
        /\ Cut' = Append(Cut, frame)
        /\ ValidRecord(stream[start], frame[2] - frame[1], TRUE, TRUE)
        /\ frame[2] - frame[1] <= MaxFrame
    BY <1>1, TakeFrameCuts
  <2>2. stream' = stream
    BY <1>1 DEF TakeFrame
  <2>3. /\ Len(Cut') = Len(Cut) + 1
        /\ Cut'[Len(Cut) + 1] = frame
        /\ \A i \in 1..Len(Cut) : Cut'[i] = Cut[i]
    BY <2>1
  <2>4. ASSUME NEW i \in 1..Len(Cut')
        PROVE  /\ Cut'[i][2] - Cut'[i][1] <= MaxFrame
               /\ ValidRecord(stream[Cut'[i][1]], Cut'[i][2] - Cut'[i][1], TRUE, TRUE)
    <3>1. CASE i = Len(Cut) + 1
      <4>1. Cut'[i] = frame /\ frame[1] = start
        BY <3>1, <2>3
      <4> QED
        BY <4>1, <2>1
    <3>2. CASE i # Len(Cut) + 1
      <4>1. i \in 1..Len(Cut)
        BY <3>2, <2>1, <2>3
      <4> QED
        BY <4>1, <2>3 DEF FramesWellFormed
    <3> QED
      BY <3>1, <3>2
  <2> QED
    BY <2>2, <2>4 DEF FramesWellFormed
<1>2. CASE ~TakeFrame
  BY <1>2, OtherStepsCutNothing DEF FramerNext, FeedLoop, FramesWellFormed
<1> QED
  BY <1>1, <1>2

(* A call that returns leaves less than a frame. *)
LEMMA NextNothingWithheld ==
  FramerTyped /\ NothingWithheld /\ [FramerNext]_framerVars => NothingWithheld'
<1> SUFFICES ASSUME FramerTyped, NothingWithheld, [FramerNext]_framerVars
             PROVE  NothingWithheld'
  OBVIOUS
<1>1. CASE ReturnFrames
  <2>1. CASE Buffered < PrefixLength
    <3>1. Buffered' = Buffered /\ Buffered \in Int
      BY <1>1 DEF ReturnFrames, Buffered, FramerTyped, FramerTypeOK
    <3>2. Buffered < MaxFrame
      BY <2>1, <3>1, FrameBufferAssumption DEF PrefixLength
    <3> QED
      BY <1>1, <2>1, <3>1, <3>2
         DEF ReturnFrames, NothingWithheld, NeedMoreBytes, PrefixLength
  <2>2. CASE /\ ~Malformed(stream[start], MaxFrame)
             /\ Buffered < FrameLength(stream[start])
    <3>1. /\ FrameLength(stream[start]) \in Nat
          /\ FrameLength(stream[start]) <= MaxFrame
      BY <2>2, FrameLengthBounds DEF FramerTyped, FramerTypeOK
    <3>2. Buffered' = Buffered /\ Buffered \in Int
      BY <1>1 DEF ReturnFrames, Buffered, FramerTyped, FramerTypeOK
    <3>3. Buffered < MaxFrame
      BY <2>2, <3>1, <3>2, FrameBufferAssumption
    <3> QED
      BY <1>1, <3>2, <3>3 DEF ReturnFrames, NothingWithheld, NeedMoreBytes
  <2> QED
    BY <1>1, <2>1, <2>2 DEF ReturnFrames, NeedMoreBytes
<1>2. CASE UNCHANGED framerVars
  BY <1>2 DEF framerVars, NothingWithheld, NeedMoreBytes, Buffered
<1>3. CASE \E n \in 1..MaxChunk : Feed(n)
  BY <1>3 DEF Feed, NothingWithheld
<1>4. CASE TakeFrame \/ RejectPrefix \/ RejectOverflow
  BY <1>4 DEF TakeFrame, RejectPrefix, RejectOverflow, NothingWithheld
<1> QED
  BY <1>1, <1>2, <1>3, <1>4 DEF FramerNext, FeedLoop

(* The inductive invariant. *)
THEOREM FramerInvariant == FramerSpec => []FramerInv
<1>1. FramerInv /\ [FramerNext]_framerVars => FramerInv'
  BY NextTyped, NextTile, NextWellFormed, NextNothingWithheld DEF FramerInv
<1> QED
  BY <1>1, InitFramerInv, PTL DEF FramerSpec

(* Type correctness of the framer. *)
THEOREM FramerTypes == FramerSpec => []FramerTypeOK
<1>1. FramerInv => FramerTypeOK
  BY DEF FramerInv, FramerTyped
<1> QED
  BY <1>1, FramerInvariant, PTL

(* No byte is lost or repeated: the frames handed out tile the stream. *)
THEOREM FramesAlwaysTile == FramerSpec => []FramesTile
<1>1. FramerInv => FramesTile
  BY DEF FramerInv
<1> QED
  BY <1>1, FramerInvariant, PTL

(* Every frame cut passes the validator's length rule. *)
THEOREM FramesAlwaysWellFormed == FramerSpec => []FramesWellFormed
<1>1. FramerInv => FramesWellFormed
  BY DEF FramerInv
<1> QED
  BY <1>1, FramerInvariant, PTL

(* A normally returning feed() keeps less than one frame, so the memory one
   peer can pin is below MaxFrame, and no more than max_buffer_size, whatever
   bound the caller gives. *)
THEOREM NothingIsWithheld == FramerSpec => []NothingWithheld
<1>1. FramerInv => NothingWithheld
  BY DEF FramerInv
<1> QED
  BY <1>1, FramerInvariant, PTL

(* A full buffer that needs more bytes is below MaxFrame, in any state. *)
LEMMA IncompleteFits ==
  FramerTyped /\ NeedMoreBytes => Buffered < MaxFrame
<1> SUFFICES ASSUME FramerTyped, NeedMoreBytes PROVE Buffered < MaxFrame
  OBVIOUS
<1>1. Buffered \in Int
  BY DEF Buffered, FramerTyped, FramerTypeOK
<1>2. CASE Buffered < PrefixLength
  BY <1>1, <1>2, FrameBufferAssumption DEF PrefixLength
<1>3. CASE /\ ~Malformed(stream[start], MaxFrame)
           /\ Buffered < FrameLength(stream[start])
  <2>1. PrefixOK(stream[start])
    BY DEF FramerTyped, FramerTypeOK
  <2>2. FrameLength(stream[start]) \in Nat /\ FrameLength(stream[start]) <= MaxFrame
    BY <1>3, <2>1, FrameLengthBounds
  <2> QED
    BY <1>1, <1>3, <2>2, FrameBufferAssumption
<1> QED
  BY <1>2, <1>3 DEF NeedMoreBytes

(* With the default bound the overflow error is unreachable. *)
THEOREM OverflowUnreachable == FramerSpec => []NoOverflow
<1>1. FramerInv => NoOverflow
  <2> SUFFICES ASSUME FramerTyped, NeedMoreBytes, MaxBuffer >= MaxFrame
               PROVE  ~(Buffered > MaxBuffer)
    BY DEF FramerInv, NoOverflow
  <2>1. Buffered \in Int
    BY DEF Buffered, FramerTyped, FramerTypeOK
  <2> QED
    BY <2>1, IncompleteFits, FrameBufferAssumption
<1> QED
  BY <1>1, FramerInvariant, PTL
-----------------------------------------------------------------------------
(* Where the abstract parser stands is where the buffer begins. *)
LEMMA BoundaryIsStart ==
  ASSUME FramerTyped, FramesTile PROVE Abstract!Boundary(Cut) = start
BY DEF FramesTile, Abstract!Boundary

(* Each step of the framer is a step of FrameStream or leaves it unchanged. *)
LEMMA StepImplements ==
  FramerTyped /\ FramesTile /\ [FramerNext]_framerVars
    => [Abstract!Next]_(Abstract!streamVars)
<1> SUFFICES ASSUME FramerTyped, FramesTile, [FramerNext]_framerVars
             PROVE  Abstract!Next \/ UNCHANGED Abstract!streamVars
  OBVIOUS
<1>a. Abstract!Boundary(Cut) = start
  BY BoundaryIsStart
<1>b. received - start = Buffered /\ received \in Int /\ start \in Int
      /\ Buffered \in Int
  BY DEF Buffered, FramerTyped, FramerTypeOK
<1>1. ASSUME NEW n \in 1..MaxChunk, Feed(n) PROVE Abstract!Arrive
  <2>1. Cut' = Cut
    BY <1>1, OtherStepsCutNothing
  <2> QED
    BY <1>1, <2>1, FrameBufferAssumption
       DEF Feed, Abstract!Arrive, FramerTyped, FramerTypeOK
<1>2. CASE TakeFrame
  <2>1. Cut' = Append(Cut, <<start, start + FrameLength(stream[start])>>)
    BY <1>2, TakeFrameCuts
  <2>2. FrameLength(stream[start]) \in Nat
    BY FrameLengthBounds DEF FramerTyped, FramerTypeOK
  <2>4. /\ start + PrefixLength <= received
        /\ start + FrameLength(stream[start]) <= received
    BY <1>2, <1>b, <2>2 DEF TakeFrame, PrefixLength
  <2> QED
    BY <1>2, <1>a, <2>1, <2>4
       DEF TakeFrame, Abstract!Next, Abstract!Deliver, Abstract!Complete,
           Abstract!PrefixLength, Abstract!FrameLength, Abstract!CrcLength,
           Abstract!Malformed, Abstract!SupportedProtocols,
           PrefixLength, FrameLength, CrcLength, Malformed, SupportedProtocols
<1>3. CASE RejectPrefix
  <2>1. Cut' = Cut
    BY <1>3, OtherStepsCutNothing
  <2>2. start + PrefixLength <= received
    BY <1>3, <1>b DEF RejectPrefix, PrefixLength
  <2> QED
    BY <1>3, <1>a, <2>1, <2>2
       DEF RejectPrefix, Abstract!Next, Abstract!Fail,
           Abstract!PrefixLength, Abstract!FrameLength, Abstract!CrcLength,
           Abstract!Malformed, Abstract!SupportedProtocols,
           PrefixLength, FrameLength, CrcLength, Malformed, SupportedProtocols
<1>4. CASE ReturnFrames \/ UNCHANGED framerVars
  <2>1. Cut' = Cut
    BY <1>4, OtherStepsCutNothing
  <2> QED
    BY <1>4, <2>1 DEF ReturnFrames, framerVars, Abstract!streamVars
<1>5. CASE RejectOverflow
  <2>1. Cut' = Cut
    BY <1>5, OtherStepsCutNothing
  <2>2. FrameLength(stream[start]) \in Nat
    BY FrameLengthBounds DEF FramerTyped, FramerTypeOK
  <2>3. /\ received - start > MaxBuffer
        /\ \/ ~(start + PrefixLength <= received)
           \/ ~(start + FrameLength(stream[start]) <= received)
    BY <1>5, <1>b, <2>2 DEF RejectOverflow, NeedMoreBytes, PrefixLength
  <2> QED
    BY <1>5, <1>a, <2>1, <2>3
       DEF RejectOverflow, Abstract!Next, Abstract!Overflow, Abstract!Complete,
           Abstract!PrefixLength, Abstract!FrameLength, Abstract!CrcLength,
           Abstract!Malformed, Abstract!SupportedProtocols,
           PrefixLength, FrameLength, CrcLength, Malformed, SupportedProtocols
<1> QED
  BY <1>1, <1>2, <1>3, <1>4, <1>5 DEF FramerNext, FeedLoop, Abstract!Next

(* The framer implements FrameStream: the frames a peer's stream is cut into do
   not depend on how the stream was chunked. *)
THEOREM FramerImplementsStream == FramerSpec => FrameBufferImplementsStream
<1>1. FramerInit => Abstract!Init
  BY DEF FramerInit, Abstract!Init, Cut
<1>2. FramerInv /\ [FramerNext]_framerVars => [Abstract!Next]_(Abstract!streamVars)
  BY StepImplements DEF FramerInv
<1> QED
  BY <1>1, <1>2, FramerInvariant, PTL
     DEF FramerSpec, FrameBufferImplementsStream, Abstract!Spec
-----------------------------------------------------------------------------
(* FramesWithin is a recursion that climbs the stream from frame to frame: it
   is defined, and its value at p is the frame there, if one is complete,
   followed by its value behind that frame. *)
IsParse(f, s, r) ==
  f = [p \in 0..StreamEnd |->
         IF CompleteAt(s, p, r) THEN <<FrameAt(s, p)>> \o f[FrameAt(s, p)[2]] ELSE <<>>]

(* A complete frame ends behind its start, within what arrived. *)
LEMMA FrameWithin ==
  ASSUME NEW s, NEW p \in 0..StreamEnd, NEW r \in 0..StreamEnd,
         PrefixOK(s[p]), CompleteAt(s, p, r)
  PROVE  FrameAt(s, p) \in Interval /\ FrameAt(s, p)[2] \in (p + 8)..r
<1>1. FrameLength(s[p]) \in Nat /\ FrameLength(s[p]) >= 8
  BY FrameLengthBounds DEF CompleteAt
<1>2. p + FrameLength(s[p]) <= r
  BY DEF CompleteAt
<1>3. p + FrameLength(s[p]) \in (p + 8)..r /\ p + FrameLength(s[p]) \in 0..StreamEnd
  BY <1>1, <1>2, FrameBufferAssumption
<1> QED
  BY <1>3 DEF FrameAt, Interval

(* There is such a function, and its values are sequences of frames. *)
LEMMA ParseDefined ==
  ASSUME NEW s, \A p \in 0..StreamEnd : PrefixOK(s[p]), NEW r \in 0..StreamEnd
  PROVE  /\ \E f : IsParse(f, s, r)
         /\ \A f : IsParse(f, s, r) => f \in [0..StreamEnd -> Seq(Interval)]
<1> DEFINE Ends == {p \in 0..StreamEnd : ~CompleteAt(s, p, r)}
           item == [p \in 0..StreamEnd |-> <<FrameAt(s, p)>>]
           next == [p \in 0..StreamEnd |-> FrameAt(s, p)[2]]
<1>1. ASSUME NEW p \in 0..StreamEnd, p \notin Ends
      PROVE  next[p] \in (p + 1)..StreamEnd /\ item[p] \in Seq(Interval)
  <2>1. FrameAt(s, p) \in Interval /\ FrameAt(s, p)[2] \in (p + 8)..r
    BY <1>1, FrameWithin
  <2>2. item[p] = <<FrameAt(s, p)>> /\ next[p] = FrameAt(s, p)[2]
    OBVIOUS
  <2> HIDE DEF item, next
  <2> QED
    BY <2>1, <2>2, FrameBufferAssumption
<1>2. \A f : IsParse(f, s, r) <=> Climbs(f, StreamEnd, Ends, item, next)
  <2> TAKE f
  <2>1. \A p \in 0..StreamEnd :
          (IF CompleteAt(s, p, r) THEN <<FrameAt(s, p)>> \o f[FrameAt(s, p)[2]] ELSE <<>>)
            = (IF p \in Ends THEN <<>> ELSE item[p] \o f[next[p]])
    OBVIOUS
  <2> QED
    BY <2>1 DEF IsParse, Climbs
<1> HIDE DEF Ends, item, next
<1>3. \E f : Climbs(f, StreamEnd, Ends, item, next)
  BY <1>1, ClimbDefined, FrameBufferAssumption
<1>4. \A f : Climbs(f, StreamEnd, Ends, item, next) => f \in [0..StreamEnd -> Seq(Interval)]
  BY <1>1, ClimbTyped, FrameBufferAssumption
<1> QED
  BY <1>2, <1>3, <1>4

(* FramesWithin is one, so it has the value its recursion gives. *)
LEMMA ParseUnfolds ==
  ASSUME NEW s, \A p \in 0..StreamEnd : PrefixOK(s[p]), NEW r \in 0..StreamEnd,
         NEW p \in 0..StreamEnd
  PROVE  /\ FramesWithin(s, r)[p] \in Seq(Interval)
         /\ CompleteAt(s, p, r) =>
              FramesWithin(s, r)[p] = <<FrameAt(s, p)>> \o FramesWithin(s, r)[FrameAt(s, p)[2]]
         /\ ~CompleteAt(s, p, r) => FramesWithin(s, r)[p] = <<>>
<1> DEFINE f == FramesWithin(s, r)
<1>1. \E g : IsParse(g, s, r)
  BY ParseDefined
<1>2. IsParse(f, s, r)
  BY <1>1, Zenon DEF FramesWithin, IsParse
<1> HIDE DEF f
<1>3. f \in [0..StreamEnd -> Seq(Interval)]
  BY <1>2, ParseDefined
<1>4. f[p] = IF CompleteAt(s, p, r) THEN <<FrameAt(s, p)>> \o f[FrameAt(s, p)[2]] ELSE <<>>
  BY <1>2 DEF IsParse
<1>5. f[p] \in Seq(Interval)
  BY <1>3
<1> QED
  BY <1>4, <1>5 DEF f

(* The inductive invariant behind CutsWhatArrived: whatever number of bytes has
   arrived or will, a parser that sees them at once cuts what feed() has cut,
   and then what there is from the first byte still buffered.  Between two
   calls no frame is complete there. *)
CutIsParsed ==
  /\ \A r \in start..StreamEnd :
       FramesWithin(stream, r)[0] = Cut \o FramesWithin(stream, r)[start]
  /\ pc = "idle" => ~CompleteAt(stream, start, received)

(* Nothing is cut at first. *)
LEMMA InitParsed == FramerInit => CutIsParsed
<1> SUFFICES ASSUME FramerInit PROVE CutIsParsed
  OBVIOUS
<1> USE FrameBufferAssumption DEF FramerInit
<1>1. ASSUME NEW r \in start..StreamEnd
      PROVE  FramesWithin(stream, r)[0] = Cut \o FramesWithin(stream, r)[start]
  <2>a. /\ \A p \in 0..StreamEnd : PrefixOK(stream[p])
        /\ r \in 0..StreamEnd /\ 0 \in 0..StreamEnd
    OBVIOUS
  <2>1. FramesWithin(stream, r)[0] \in Seq(Interval)
    BY <2>a, ParseUnfolds
  <2>2. Cut = <<>>
    BY DEF Cut
  <2> QED
    BY <2>1, <2>2, ConcatEmptySeq
<1>2. ~CompleteAt(stream, start, received)
  BY DEF CompleteAt, PrefixLength
<1> QED
  BY <1>1, <1>2 DEF CutIsParsed

(* An iteration cuts the frame the parser at `start' finds. *)
LEMMA TakeFrameParsed == FramerTyped /\ CutIsParsed /\ TakeFrame => CutIsParsed'
<1> SUFFICES ASSUME FramerTyped, CutIsParsed, TakeFrame PROVE CutIsParsed'
  OBVIOUS
<1> DEFINE frame == FrameAt(stream, start)
<1>1. /\ frame \in Interval /\ Cut \in Seq(Interval) /\ Cut' = Append(Cut, frame)
      /\ start' = frame[2] /\ start' <= received'
  BY TakeFrameCuts DEF FrameAt
<1>2. stream' = stream /\ pc' = "loop" /\ received' = received
  BY DEF TakeFrame
<1>3. /\ \A p \in 0..StreamEnd : PrefixOK(stream[p])
      /\ start \in 0..StreamEnd /\ received \in 0..StreamEnd
  BY DEF FramerTyped, FramerTypeOK
<1>4. start + 8 <= start'
  <2>1. PrefixOK(stream[start])
    BY <1>3
  <2>2. FrameLength(stream[start]) \in Nat /\ 8 <= FrameLength(stream[start])
    BY <2>1, FrameLengthBounds DEF TakeFrame
  <2>3. start' = start + FrameLength(stream[start])
    BY DEF TakeFrame
  <2> QED
    BY <1>3, <2>2, <2>3
<1>5. ASSUME NEW r \in start'..StreamEnd
      PROVE  FramesWithin(stream, r)[0] = Cut' \o FramesWithin(stream, r)[start']
  <2>1. start' \in 0..StreamEnd
    BY <1>1 DEF Interval
  <2>2. r \in 0..StreamEnd /\ r \in start..StreamEnd
    BY <1>3, <1>4, <2>1
  <2>3. CompleteAt(stream, start, r)
    BY <1>1, <1>3, <1>4, <2>1 DEF TakeFrame, CompleteAt, FrameAt, PrefixLength
  <2> DEFINE rest == FramesWithin(stream, r)[start']
  <2>4. FramesWithin(stream, r)[start] = <<frame>> \o rest
    BY <1>1, <1>3, <2>2, <2>3, ParseUnfolds
  <2>5. rest \in Seq(Interval)
    BY <1>3, <2>1, <2>2, ParseUnfolds
  <2>6. FramesWithin(stream, r)[0] = Cut \o FramesWithin(stream, r)[start]
    BY <2>2 DEF CutIsParsed
  <2> HIDE DEF rest, frame
  <2>7. Cut \o (<<frame>> \o rest) = Append(Cut, frame) \o rest
    BY <1>1, <2>5
  <2> QED
    BY <1>1, <2>4, <2>6, <2>7 DEF rest
<1> QED
  BY <1>2, <1>5 DEF CutIsParsed

(* The loop is left, in either way, when no frame is complete. *)
LEMMA LoopEndsAtNoFrame ==
  ASSUME FramerTyped, NeedMoreBytes \/ Malformed(stream[start], MaxFrame)
  PROVE  ~CompleteAt(stream, start, received)
<1>1. FrameLength(stream[start]) \in Nat
  BY FrameLengthBounds DEF FramerTyped, FramerTypeOK
<1> QED
  BY <1>1 DEF NeedMoreBytes, Buffered, CompleteAt, PrefixLength, FramerTyped, FramerTypeOK

(* A frame moves from the second part to the first when it is cut; no other
   step changes either. *)
LEMMA NextParsed == FramerTyped /\ CutIsParsed /\ [FramerNext]_framerVars => CutIsParsed'
<1> SUFFICES ASSUME FramerTyped, CutIsParsed, [FramerNext]_framerVars PROVE CutIsParsed'
  OBVIOUS
<1>1. CASE TakeFrame
  BY <1>1, TakeFrameParsed
<1>2. ASSUME ~TakeFrame
      PROVE  Cut' = Cut /\ start' = start /\ stream' = stream
  BY <1>2, OtherStepsCutNothing DEF FramerNext, FeedLoop
<1>3. ASSUME NEW n \in 1..MaxChunk, Feed(n) PROVE CutIsParsed'
  <2>1. ~TakeFrame /\ pc' = "loop"
    BY <1>3 DEF Feed, TakeFrame
  <2> QED
    BY <1>2, <2>1 DEF CutIsParsed
<1>4. CASE RejectPrefix \/ RejectOverflow \/ ReturnFrames
  <2>1. pc' # pc /\ received' = received
    BY <1>4 DEF RejectPrefix, RejectOverflow, ReturnFrames
  <2>2. ~TakeFrame
    BY <2>1 DEF TakeFrame
  <2>3. ~CompleteAt(stream, start, received)
    BY <1>4, LoopEndsAtNoFrame DEF RejectPrefix, RejectOverflow, ReturnFrames
  <2> QED
    BY <1>2, <2>1, <2>2, <2>3 DEF CutIsParsed
<1>5. CASE UNCHANGED framerVars
  <2>1. Cut' = Cut /\ UNCHANGED framerVars
    BY <1>5 DEF framerVars, Cut
  <2> QED
    BY <2>1 DEF CutIsParsed, framerVars
<1> QED
  BY <1>1, <1>3, <1>4, <1>5 DEF FramerNext, FeedLoop

(* What CutIsParsed says of the bytes that have arrived. *)
LEMMA ParsedCuts == FramerTyped /\ CutIsParsed => CutsWhatArrived
<1> SUFFICES ASSUME FramerTyped, CutIsParsed PROVE CutsWhatArrived
  OBVIOUS
<1> DEFINE rest == FramesWithin(stream, received)[start]
           all  == FramesWithin(stream, received)[0]
<1>1. /\ \A p \in 0..StreamEnd : PrefixOK(stream[p])
      /\ start \in 0..StreamEnd /\ received \in 0..StreamEnd /\ received \in start..StreamEnd
      /\ frames \in Seq(Interval) /\ delivered \in Seq(Interval) /\ Cut \in Seq(Interval)
  BY DEF FramerTyped, FramerTypeOK, Cut
<1>2. rest \in Seq(Interval)
  BY <1>1, ParseUnfolds
<1>3. all = Cut \o rest
  BY <1>1 DEF CutIsParsed
<1>4. pc = "idle" => rest = <<>> /\ Cut = delivered
  <2>1. pc = "idle" => rest = <<>>
    BY <1>1, ParseUnfolds DEF CutIsParsed
  <2>2. pc = "idle" => Cut = delivered
    BY <1>1, ConcatEmptySeq DEF Cut, FramerTyped, IdleHoldsNoFrames
  <2> QED
    BY <2>1, <2>2
<1> HIDE DEF rest, all
<1>5. Len(Cut) <= Len(all) /\ Cut = SubSeq(all, 1, Len(Cut))
  BY <1>1, <1>2, <1>3
<1>6. pc = "idle" => delivered = all
  BY <1>1, <1>3, <1>4, ConcatEmptySeq
<1> QED
  BY <1>5, <1>6 DEF CutsWhatArrived, FramesReceived, all

(* The framer is complete: between two calls of feed() the caller has been
   handed every frame of the bytes that arrived, in order, and nothing else. *)
THEOREM CutsAllThatArrived == FramerSpec => []CutsWhatArrived
<1>1. FramerInit => FramerTyped /\ CutIsParsed
  BY InitFramerInv, InitParsed DEF FramerInv
<1>2. FramerTyped /\ CutIsParsed /\ [FramerNext]_framerVars => (FramerTyped /\ CutIsParsed)'
  BY NextTyped, NextParsed
<1> QED
  BY <1>1, <1>2, ParsedCuts, PTL DEF FramerSpec
=============================================================================

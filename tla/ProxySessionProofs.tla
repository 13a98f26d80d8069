------------------------ MODULE ProxySessionProofs ------------------------
(***************************************************************************)
(* Proofs about ProxySession, for any streams, chunks and configurations:  *)
(* what the clock of a partial frame measures, and what the block policy   *)
(* lets through.                                                           *)
(*                                                                         *)
(* The framer's invariant carries over, as every step of a session is one  *)
(* of the framer or leaves it alone.  The clock needs more: while feed()   *)
(* runs, had_pending and the frames cut so far tell whether the rest in    *)
(* the buffer began before this chunk, because what was pending is a       *)
(* proper part of the frame that is cut first.                             *)
(***************************************************************************)
EXTENDS ProxySession, FrameBufferProofs

(* No frame was cut since recv. *)
NothingCut == Len(Cut) = handled

(* Before this chunk the buffer held no complete frame. *)
PartPending ==
  known - start < PrefixLength \/ known - start < FrameLength(stream[start])

(* Outside a feed the clock is right, and runs only while a frame is pending. *)
ClockRight ==
  phase \in {"select", "ready", "frames"} =>
    /\ frame_started_at = restSince
    /\ (restSince = NoTime) <=> (Buffered = 0)

ClockWhileFeeding ==
  phase = "feeding" =>
    /\ frame_started_at = restSince
    /\ had_pending => restSince # NoTime
    /\ NothingCut => (had_pending <=> known > start) /\ PartPending
    /\ ~NothingCut => known <= start

(* Where the pass is, and where feed() is. *)
PhaseAgrees ==
  /\ phase # "feeding" => pc = "idle"
  /\ phase \in {"select", "ready"} => ~failed /\ handled = Len(delivered)
  /\ phase = "feeding" /\ pc = "loop" => handled = Len(delivered)

NothingBlocked == \A i \in 1..Len(forwarded) : ~Drops(forwarded[i])

SessionInv ==
  /\ FramerInv
  /\ SessionTypeOK
  /\ PhaseAgrees
  /\ ClockRight
  /\ ClockWhileFeeding
  /\ NothingBlocked
-----------------------------------------------------------------------------
(* A session drives the framer as the class allows. *)
LEMMA SessionStepsFramer == [SessionNext]_vars => [FramerNext]_framerVars
<1> SUFFICES ASSUME [SessionNext]_vars PROVE [FramerNext]_framerVars
  OBVIOUS
<1>1. ASSUME NEW n \in ChunkSizes, Recv(n) PROVE FramerNext
  BY <1>1, SessionAssumption DEF Recv, FramerNext
<1>2. CASE Feeding
  BY <1>2 DEF Feeding, FramerNext
<1>3. CASE UNCHANGED framerVars
  BY <1>3
<1>4. CASE \/ CheckExpiry \/ NotReadable \/ PeerGone \/ Stamp
           \/ FramesDone \/ Tick
  BY <1>4 DEF CheckExpiry, NotReadable, PeerGone, Stamp, FramesDone, Tick
<1>5. CASE DropFrame \/ ForwardFrame \/ SendFails
  BY <1>5 DEF DropFrame, ForwardFrame, SendFails, HandlingFrame
<1>6. CASE UNCHANGED vars
  BY <1>6 DEF vars
<1> QED
  BY <1>1, <1>2, <1>3, <1>4, <1>5, <1>6 DEF SessionNext

LEMMA FramerInvKept ==
  ASSUME FramerInv, [SessionNext]_vars
  PROVE  FramerInv'
<1>1. [FramerNext]_framerVars
  BY SessionStepsFramer
<1> QED
  BY <1>1, NextTyped, NextTile, NextWellFormed, NextNothingWithheld DEF FramerInv

(* Frames are cut within the bytes received. *)
LEMMA BufferTypes ==
  ASSUME FramerInv
  PROVE  /\ received \in 0..StreamEnd /\ start \in 0..StreamEnd
         /\ start <= received
         /\ Buffered \in Nat
         /\ StreamEnd \in Nat
         /\ delivered \in Seq(Interval) /\ frames \in Seq(Interval)
         /\ Cut \in Seq(Interval)
         /\ Len(Cut) = Len(delivered) + Len(frames)
         /\ FrameLength(stream[start]) \in Nat
<1>1. /\ received \in 0..StreamEnd /\ start \in 0..StreamEnd
      /\ start <= received
      /\ delivered \in Seq(Interval) /\ frames \in Seq(Interval)
      /\ PrefixOK(stream[start])
  BY DEF FramerInv, FramerTyped, FramerTypeOK
<1>2. Cut \in Seq(Interval) /\ Len(Cut) = Len(delivered) + Len(frames)
  BY <1>1 DEF Cut
<1>3. StreamEnd \in Nat
  BY FrameBufferAssumption
<1>4. Buffered \in Nat
  BY <1>1, <1>3 DEF Buffered
<1>5. FrameLength(stream[start]) \in Nat
  BY <1>1, FrameLengthBounds
<1> QED
  BY <1>1, <1>2, <1>3, <1>4, <1>5

(* The frames the session still has to handle. *)
LEMMA BatchFacts ==
  ASSUME delivered \in Seq(Interval), handled \in 0..Len(delivered)
  PROVE  /\ Batch = <<>> <=> handled = Len(delivered)
         /\ Batch # <<>> => /\ handled + 1 \in 0..Len(delivered)
                            /\ Head(Batch) = delivered[handled + 1]
                            /\ Head(Batch) \in Interval
<1>0. Len(delivered) \in Nat /\ handled \in Nat /\ handled + 1 \in 1..Len(delivered) + 1
  OBVIOUS
<1>1. CASE handled = Len(delivered)
  <2>1. Batch = <<>>
    BY <1>0, <1>1, SubSeqEmpty DEF Batch
  <2> QED
    BY <1>1, <2>1
<1>2. CASE handled # Len(delivered)
  <2>1. handled + 1 \in 1..Len(delivered)
    BY <1>0, <1>2
  <2>2. Len(Batch) = Len(delivered) - handled /\ Batch[1] = delivered[handled + 1]
        /\ Batch \in Seq(Interval)
    BY <1>0, <2>1 DEF Batch
  <2>3. Batch # <<>> /\ Head(Batch) = delivered[handled + 1]
    BY <1>0, <2>1, <2>2
  <2>4. delivered[handled + 1] \in Interval
    BY <2>1
  <2> QED
    BY <1>2, <2>1, <2>3, <2>4
<1> QED
  BY <1>1, <1>2
-----------------------------------------------------------------------------
(* What feed() and its iterations do to the frames cut. *)
LEMMA FeedingCuts ==
  ASSUME FramerInv, FeedLoop
  PROVE  /\ pc = "loop"
         /\ received' = received /\ stream' = stream
         /\ Len(delivered') \in Nat /\ Len(delivered) <= Len(delivered')
         /\ pc' = "loop" => delivered' = delivered
         /\ pc' = "idle" => frames' = <<>>
         /\ \/ TakeFrame /\ Len(Cut') = Len(Cut) + 1
                /\ start' = start + FrameLength(stream[start])
            \/ Cut' = Cut /\ start' = start
<1>1. delivered \in Seq(Interval) /\ frames \in Seq(Interval) /\ Cut \in Seq(Interval)
  BY BufferTypes
<1>2. CASE TakeFrame
  <2>1. Cut' = Append(Cut, <<start, start + FrameLength(stream[start])>>)
    BY <1>2, TakeFrameCuts DEF FramerInv
  <2>2. Len(Cut') = Len(Cut) + 1
    BY <1>1, <1>2, <2>1, TakeFrameCuts DEF FramerInv
  <2> QED
    BY <1>1, <1>2, <2>2 DEF TakeFrame
<1>3. CASE RejectPrefix \/ RejectOverflow \/ ReturnFrames
  <2>1. Cut' = Cut /\ start' = start /\ stream' = stream
    BY <1>3, OtherStepsCutNothing DEF FramerInv
  <2>2. /\ pc = "loop" /\ received' = received /\ pc' = "idle" /\ frames' = <<>>
        /\ delivered' = delivered \o frames
    BY <1>3 DEF RejectPrefix, RejectOverflow, ReturnFrames
  <2>3. Len(delivered') \in Nat /\ Len(delivered) <= Len(delivered')
    BY <1>1, <2>2
  <2> QED
    BY <2>1, <2>2, <2>3
<1> QED
  BY <1>2, <1>3 DEF FeedLoop

(* Types.  The step a handler takes with a frame. *)
LEMMA HandlingTyped ==
  ASSUME SessionInv, HandlingFrame, DropFrame \/ ForwardFrame \/ SendFails
  PROVE  /\ handled' \in 0..Len(delivered)
         /\ forwarded' \in Seq(Interval) /\ decoded' \in Seq(Interval)
         /\ UNCHANGED <<framerVars, conf, now, frame_started_at, had_pending, known,
                        restSince>>
         /\ phase' \in {"frames", "closed"} /\ phase = "frames"
         /\ cause' \in {"none", "timeout", "peer", "send", "frame"}
<1>1. /\ delivered \in Seq(Interval) /\ handled \in 0..Len(delivered)
      /\ forwarded \in Seq(Interval) /\ decoded \in Seq(Interval)
      /\ cause \in {"none", "timeout", "peer", "send", "frame"}
  BY DEF SessionInv, SessionTypeOK, FramerTypeOK
<1>2. handled + 1 \in 0..Len(delivered) /\ Head(Batch) \in Interval
  BY <1>1, BatchFacts DEF HandlingFrame
<1>3. Append(forwarded, Head(Batch)) \in Seq(Interval)
      /\ Append(decoded, Head(Batch)) \in Seq(Interval)
  BY <1>1, <1>2
<1> QED
  BY <1>1, <1>2, <1>3 DEF DropFrame, ForwardFrame, SendFails, HandlingFrame, Close

LEMMA TimesTyped ==
  ASSUME FramerInv, SessionTypeOK
  PROVE  RestArrival \in NoTime..MaxTime /\ ClockAfterFeed \in NoTime..MaxTime
<1>1. /\ now \in NoTime..MaxTime /\ NoTime \in NoTime..MaxTime
      /\ restSince \in NoTime..MaxTime /\ frame_started_at \in NoTime..MaxTime
      /\ had_pending \in BOOLEAN
  BY SessionAssumption DEF SessionTypeOK, NoTime
<1>2. Buffered = 0 \/ Buffered > 0
  BY BufferTypes
<1>3. RestArrival \in NoTime..MaxTime
  BY <1>1 DEF RestArrival
<1>4. CASE Buffered = 0
  <2>1. ~(Buffered > 0)
    BY <1>4
  <2>2. ClockAfterFeed = NoTime
    BY <1>4, <2>1 DEF ClockAfterFeed
  <2> QED
    BY <1>1, <1>3, <2>2
<1>5. CASE Buffered > 0 /\ (Batch # <<>> \/ ~had_pending)
  <2>1. ClockAfterFeed = now
    BY <1>5 DEF ClockAfterFeed
  <2> QED
    BY <1>1, <1>3, <2>1
<1>6. CASE Buffered > 0 /\ Batch = <<>> /\ had_pending
  <2>1. ClockAfterFeed = IF frame_started_at = NoTime THEN now ELSE frame_started_at
    BY <1>6 DEF ClockAfterFeed
  <2> QED
    BY <1>1, <1>3, <2>1
<1> QED
  BY <1>1, <1>2, <1>3, <1>4, <1>5, <1>6

LEMMA TypesKept ==
  ASSUME SessionInv, [SessionNext]_vars
  PROVE  SessionTypeOK'
<1>a. FramerTypeOK'
  BY FramerInvKept DEF SessionInv, FramerInv, FramerTyped
<1>b. /\ handled \in 0..Len(delivered) /\ Len(delivered) \in Nat
      /\ known \in 0..received /\ received \in Nat
      /\ now \in 0..MaxTime /\ MaxTime \in Nat
  BY BufferTypes, SessionAssumption DEF SessionInv, SessionTypeOK
<1> USE DEF SessionTypeOK
<1>1. CASE CheckExpiry
  BY <1>1, <1>a DEF CheckExpiry, Close, framerVars, SessionInv
<1>2. CASE NotReadable \/ PeerGone
  BY <1>2, <1>a DEF NotReadable, PeerGone, Close, framerVars, SessionInv
<1>3. ASSUME NEW n \in ChunkSizes, Recv(n) PROVE SessionTypeOK'
  <2>1. received' \in Nat /\ received' >= received /\ delivered' = delivered
    BY <1>3, <1>b, SessionAssumption, FrameBufferAssumption DEF Recv, Feed
  <2>2. had_pending' \in BOOLEAN /\ known' \in 0..received'
    BY <1>3, <1>b, <2>1 DEF Recv
  <2> QED
    BY <1>3, <1>a, <2>1, <2>2 DEF Recv, SessionInv
<1>4. CASE Feeding
  <2>1. /\ received' = received /\ Len(delivered') \in Nat
        /\ Len(delivered) <= Len(delivered')
    BY <1>4, FeedingCuts DEF SessionInv, Feeding
  <2>2. handled' \in 0..Len(delivered') /\ known' \in 0..received'
    BY <1>4, <1>b, <2>1 DEF Feeding, sessionVars
  <2> QED
    BY <1>4, <1>a, <2>2 DEF Feeding, sessionVars, SessionInv
<1>5. CASE Stamp
  <2>1. restSince' \in NoTime..MaxTime /\ frame_started_at' \in NoTime..MaxTime
    BY <1>5, TimesTyped DEF Stamp, SessionInv
  <2>2. phase' \in {"frames", "closed"} /\ cause' \in {cause, "frame"}
    BY <1>5 DEF Stamp, Close
  <2> QED
    BY <1>5, <1>a, <2>1, <2>2 DEF Stamp, framerVars, SessionInv
<1>6. CASE DropFrame \/ ForwardFrame \/ SendFails
  <2>1. HandlingFrame
    BY <1>6 DEF DropFrame, ForwardFrame, SendFails
  <2> QED
    BY <1>6, <1>a, <2>1, HandlingTyped DEF framerVars, SessionInv
<1>7. CASE FramesDone
  BY <1>7, <1>a DEF FramesDone, Close, framerVars, SessionInv
<1>8. CASE Tick
  <2>1. now' \in 0..MaxTime
    BY <1>8, <1>b DEF Tick
  <2> QED
    BY <1>8, <1>a, <2>1 DEF Tick, framerVars, SessionInv
<1>9. CASE UNCHANGED vars
  BY <1>9 DEF vars, framerVars, sessionVars, SessionInv, FramerTypeOK, Interval
<1> QED
  BY <1>1, <1>2, <1>3, <1>4, <1>5, <1>6, <1>7, <1>8, <1>9 DEF SessionNext

(* Where the pass is. *)
LEMMA PhaseKept ==
  ASSUME SessionInv, [SessionNext]_vars
  PROVE  PhaseAgrees'
<1>b. handled \in 0..Len(delivered) /\ delivered \in Seq(Interval)
  BY BufferTypes DEF SessionInv, SessionTypeOK
<1> USE DEF PhaseAgrees
<1>1. CASE CheckExpiry \/ NotReadable \/ PeerGone \/ Tick
  BY <1>1 DEF CheckExpiry, NotReadable, PeerGone, Tick, Close, framerVars, SessionInv
<1>2. ASSUME NEW n \in ChunkSizes, Recv(n) PROVE PhaseAgrees'
  BY <1>2 DEF Recv, Feed, SessionInv
<1>3. CASE Feeding
  BY <1>3, FeedingCuts DEF Feeding, sessionVars, SessionInv
<1>4. CASE Stamp
  BY <1>4 DEF Stamp, Close, framerVars, SessionInv
<1>5. CASE DropFrame \/ ForwardFrame \/ SendFails
  <2>1. HandlingFrame
    BY <1>5 DEF DropFrame, ForwardFrame, SendFails
  <2> QED
    BY <1>5, <2>1, HandlingTyped DEF framerVars, SessionInv
<1>6. CASE FramesDone
  BY <1>6, <1>b, BatchFacts DEF FramesDone, Close, framerVars, SessionInv
<1>7. CASE UNCHANGED vars
  BY <1>7 DEF vars, framerVars, sessionVars, SessionInv
<1> QED
  BY <1>1, <1>2, <1>3, <1>4, <1>5, <1>6, <1>7 DEF SessionNext
-----------------------------------------------------------------------------
(* Between two iterations of feed() and behind it: the frames cut say where the
   rest in the buffer comes from. *)
LEMMA FeedingKeepsClock ==
  ASSUME SessionInv, Feeding
  PROVE  ClockWhileFeeding'
<1>1. /\ received \in Nat /\ start \in Nat /\ known \in Nat
      /\ Len(Cut) \in Nat /\ handled \in Nat
      /\ FrameLength(stream[start]) \in Nat
      /\ handled <= Len(Cut)
  BY BufferTypes DEF SessionInv, SessionTypeOK
<1>2. /\ phase = "feeding" /\ FeedLoop /\ ClockWhileFeeding
      /\ phase' = phase /\ known' = known /\ handled' = handled
      /\ frame_started_at' = frame_started_at /\ restSince' = restSince
      /\ had_pending' = had_pending
  BY DEF Feeding, sessionVars, SessionInv
<1>3. CASE TakeFrame /\ Len(Cut') = Len(Cut) + 1
             /\ start' = start + FrameLength(stream[start])
  <2>1. PrefixOK(stream[start])
    BY DEF SessionInv, FramerInv, FramerTyped, FramerTypeOK
  <2>2. FrameLength(stream[start]) >= 8
    BY <1>3, <2>1, FrameLengthBounds DEF TakeFrame
  <2>3. CASE NothingCut
    <3>1. known - start < FrameLength(stream[start])
      BY <1>1, <1>2, <2>2, <2>3 DEF ClockWhileFeeding, PartPending, PrefixLength
    <3> QED
      BY <1>1, <1>2, <1>3, <3>1 DEF ClockWhileFeeding, NothingCut
  <2>4. CASE ~NothingCut
    <3>1. known <= start
      BY <1>2, <2>4 DEF ClockWhileFeeding
    <3>2. known' <= start' /\ ~NothingCut'
      BY <1>1, <1>2, <1>3, <3>1 DEF NothingCut
    <3> QED
      BY <1>2, <3>2 DEF ClockWhileFeeding
  <2> QED
    BY <2>3, <2>4
<1>4. CASE Cut' = Cut /\ start' = start
  <2>1. stream' = stream
    BY <1>2, FeedingCuts DEF SessionInv
  <2> QED
    BY <1>2, <1>4, <2>1 DEF ClockWhileFeeding, NothingCut, PartPending
<1> QED
  BY <1>2, <1>3, <1>4, FeedingCuts DEF SessionInv

(* The three branches behind feed() are right: the rest began with this chunk
   exactly when a frame was cut or nothing was pending. *)
LEMMA StampsRight ==
  ASSUME SessionInv, phase = "feeding", pc = "idle"
  PROVE  /\ ClockAfterFeed = RestArrival
         /\ RestArrival = NoTime <=> Buffered = 0
<1>1. /\ delivered \in Seq(Interval) /\ handled \in 0..Len(delivered)
      /\ start \in Nat /\ known \in Nat /\ Buffered \in Nat
      /\ had_pending \in BOOLEAN /\ now \in Nat
  BY BufferTypes, SessionAssumption DEF SessionInv, SessionTypeOK
<1>2. NothingCut <=> Batch = <<>>
  <2>1. frames = <<>>
    BY DEF SessionInv, FramerInv, FramerTyped, IdleHoldsNoFrames
  <2>2. Cut = delivered
    BY <1>1, <2>1, ConcatEmptySeq DEF Cut
  <2> QED
    BY <1>1, <2>2, BatchFacts DEF NothingCut
<1>3. ClockWhileFeeding /\ now # NoTime
  BY <1>1 DEF SessionInv, NoTime
<1>4. CASE Buffered = 0
  <2>1. ~(Buffered > 0)
    BY <1>4
  <2> QED
    BY <1>4, <2>1 DEF ClockAfterFeed, RestArrival
<1>5. CASE Buffered > 0 /\ (Batch # <<>> \/ ~had_pending)
  <2>1. start >= known
    BY <1>1, <1>2, <1>3, <1>5 DEF ClockWhileFeeding
  <2>2. Buffered # 0
    BY <1>5
  <2>3. ClockAfterFeed = now /\ RestArrival = now
    BY <1>5, <2>1, <2>2 DEF ClockAfterFeed, RestArrival
  <2> QED
    BY <1>3, <2>2, <2>3
<1>6. CASE Buffered > 0 /\ Batch = <<>> /\ had_pending
  <2>1. known > start /\ frame_started_at = restSince /\ restSince # NoTime
    BY <1>2, <1>3, <1>6 DEF ClockWhileFeeding
  <2>2. Buffered # 0 /\ ~(start >= known)
    BY <1>1, <1>6, <2>1
  <2>3. RestArrival = restSince
    BY <2>2 DEF RestArrival
  <2>4. ClockAfterFeed = IF frame_started_at = NoTime THEN now ELSE frame_started_at
    BY <1>6, <2>2 DEF ClockAfterFeed
  <2> QED
    BY <2>1, <2>2, <2>3, <2>4
<1>7. Buffered = 0 \/ Buffered > 0
  BY <1>1
<1> QED
  BY <1>4, <1>5, <1>6, <1>7

LEMMA ClockKept ==
  ASSUME SessionInv, [SessionNext]_vars
  PROVE  ClockRight' /\ ClockWhileFeeding'
<1> USE DEF ClockRight, ClockWhileFeeding
<1>1. CASE CheckExpiry \/ NotReadable \/ PeerGone \/ FramesDone \/ Tick
  BY <1>1 DEF CheckExpiry, NotReadable, PeerGone, FramesDone, Tick, Close, framerVars,
              Buffered, SessionInv
<1>2. ASSUME NEW n \in ChunkSizes, Recv(n) PROVE ClockRight' /\ ClockWhileFeeding'
  <2>1. /\ phase = "ready" /\ pc = "idle" /\ ~failed /\ handled = Len(delivered)
        /\ frame_started_at = restSince
        /\ (restSince = NoTime) <=> (Buffered = 0)
    BY <1>2 DEF Recv, SessionInv, PhaseAgrees
  <2>2. Cut' = Cut /\ start' = start /\ stream' = stream
    <3>1. \E m \in 1..MaxChunk : Feed(m)
      BY <1>2, SessionAssumption DEF Recv
    <3> QED
      BY <3>1, OtherStepsCutNothing DEF SessionInv, FramerInv
  <2>3. NothingCut'
    <3>1. frames = <<>> /\ delivered \in Seq(Interval)
      BY <2>1, BufferTypes DEF SessionInv, FramerInv, FramerTyped, IdleHoldsNoFrames
    <3>2. Cut = delivered
      BY <3>1, ConcatEmptySeq DEF Cut
    <3> QED
      BY <1>2, <2>1, <2>2, <3>2 DEF NothingCut, Recv
  <2>4. PartPending'
    BY <1>2, <2>1, <2>2 DEF SessionInv, FramerInv, NothingWithheld, NeedMoreBytes,
                            PartPending, Recv, Buffered
  <2>5. had_pending' <=> Buffered > 0
    BY <1>2, Zenon DEF Recv
  <2>6. Buffered > 0 <=> known' > start'
    BY <1>2, <2>2, BufferTypes DEF Recv, Buffered, SessionInv
  <2>7. Buffered > 0 => restSince # NoTime
    BY <2>1
  <2>8. phase' = "feeding" /\ frame_started_at' = frame_started_at /\ restSince' = restSince
    BY <1>2 DEF Recv
  <2>9. ClockRight'
    BY <2>8
  <2>10. (had_pending' <=> known' > start') /\ (had_pending' => restSince' # NoTime)
    <3>1. NoTime' = NoTime
      BY DEF NoTime
    <3> QED
      BY <2>5, <2>6, <2>7, <2>8, <3>1, Zenon
  <2>11. frame_started_at' = restSince'
    BY <2>1, <2>8
  <2>12. ClockWhileFeeding'
    BY <2>3, <2>4, <2>10, <2>11, Zenon
  <2> QED
    BY <2>9, <2>12
<1>3. CASE Feeding
  <2>1. phase' = "feeding"
    BY <1>3 DEF Feeding, sessionVars
  <2> QED
    BY <1>3, <2>1, FeedingKeepsClock
<1>4. CASE Stamp
  BY <1>4, StampsRight DEF Stamp, Close, framerVars, Buffered
<1>5. CASE DropFrame \/ ForwardFrame \/ SendFails
  <2>1. HandlingFrame
    BY <1>5 DEF DropFrame, ForwardFrame, SendFails
  <2> QED
    BY <1>5, <2>1, HandlingTyped DEF framerVars, Buffered, SessionInv
<1>6. CASE UNCHANGED vars
  BY <1>6 DEF vars, framerVars, sessionVars, Buffered, NothingCut, PartPending, Cut, SessionInv
<1> QED
  BY <1>1, <1>2, <1>3, <1>4, <1>5, <1>6 DEF SessionNext
-----------------------------------------------------------------------------
(* The filter reads the stream and the settings, which are fixed. *)
LEMMA PolicyFixed ==
  ASSUME SessionInv, [SessionNext]_vars
  PROVE  stream' = stream /\ conf' = conf
<1>1. CASE CheckExpiry \/ NotReadable \/ PeerGone \/ Stamp \/ FramesDone \/ Tick
  BY <1>1 DEF CheckExpiry, NotReadable, PeerGone, Stamp, FramesDone, Tick, framerVars
<1>2. ASSUME NEW n \in ChunkSizes, Recv(n) PROVE stream' = stream /\ conf' = conf
  BY <1>2 DEF Recv, Feed
<1>3. CASE Feeding
  BY <1>3, FeedingCuts DEF Feeding, sessionVars, SessionInv
<1>4. CASE DropFrame \/ ForwardFrame \/ SendFails
  BY <1>4 DEF DropFrame, ForwardFrame, SendFails, HandlingFrame, framerVars
<1>5. CASE UNCHANGED vars
  BY <1>5 DEF vars, framerVars, sessionVars
<1> QED
  BY <1>1, <1>2, <1>3, <1>4, <1>5 DEF SessionNext

LEMMA ForwardedGrows ==
  ASSUME SessionInv, [SessionNext]_vars
  PROVE  ForwardFrame \/ forwarded' = forwarded
<1>1. CASE CheckExpiry \/ NotReadable \/ PeerGone \/ Stamp \/ FramesDone \/ Tick
  BY <1>1 DEF CheckExpiry, NotReadable, PeerGone, Stamp, FramesDone, Tick
<1>2. CASE (\E n \in ChunkSizes : Recv(n)) \/ Feeding \/ DropFrame \/ SendFails
  BY <1>2 DEF Recv, Feeding, sessionVars, DropFrame, SendFails
<1>3. CASE UNCHANGED vars
  BY <1>3 DEF vars, sessionVars
<1> QED
  BY <1>1, <1>2, <1>3 DEF SessionNext

LEMMA BlockedKept ==
  ASSUME SessionInv, [SessionNext]_vars
  PROVE  NothingBlocked'
<1>1. \A f : Drops(f)' <=> Drops(f)
  BY PolicyFixed DEF Drops, RecordAt, SizeOf
<1>2. forwarded \in Seq(Interval) /\ \A i \in 1..Len(forwarded) : ~Drops(forwarded[i])
  BY DEF SessionInv, SessionTypeOK, NothingBlocked
<1>3. CASE ForwardFrame
  <2>1. /\ forwarded' = Append(forwarded, Head(Batch)) /\ ~Drops(Head(Batch))
        /\ delivered \in Seq(Interval) /\ handled \in 0..Len(delivered) /\ Batch # <<>>
    BY <1>3, BufferTypes DEF ForwardFrame, HandlingFrame, SessionInv, SessionTypeOK
  <2>2. Head(Batch) \in Interval
    BY <2>1, BatchFacts
  <2>3. \A i \in 1..Len(forwarded') :
          \/ i \in 1..Len(forwarded) /\ forwarded'[i] = forwarded[i]
          \/ forwarded'[i] = Head(Batch)
    BY <1>2, <2>1, <2>2
  <2>4. \A i \in 1..Len(forwarded') : ~Drops(forwarded'[i])
    BY <1>2, <2>1, <2>3
  <2> QED
    BY <1>1, <2>4 DEF NothingBlocked
<1>4. CASE forwarded' = forwarded
  BY <1>1, <1>2, <1>4 DEF NothingBlocked
<1> QED
  BY <1>3, <1>4, ForwardedGrows
-----------------------------------------------------------------------------
LEMMA SessionInvInit == SessionInit => SessionInv
<1> SUFFICES ASSUME SessionInit PROVE SessionInv
  OBVIOUS
<1>1. FramerInv
  BY InitFramerInv DEF SessionInit
<1>2. SessionTypeOK
  <2>1. FramerTypeOK
    BY <1>1 DEF FramerInv, FramerTyped
  <2>2. handled \in 0..Len(delivered) /\ known \in 0..received
    BY DEF SessionInit, FramerInit
  <2>3. /\ now \in 0..MaxTime /\ frame_started_at \in NoTime..MaxTime
        /\ restSince \in NoTime..MaxTime
    BY SessionAssumption DEF SessionInit, NoTime
  <2>4. forwarded \in Seq(Interval) /\ decoded \in Seq(Interval)
    BY DEF SessionInit
  <2>5. /\ phase = "select" /\ had_pending = FALSE /\ cause = "none"
    BY DEF SessionInit
  <2> QED
    BY <2>1, <2>2, <2>3, <2>4, <2>5 DEF SessionTypeOK
<1>3. PhaseAgrees /\ NothingBlocked
  BY DEF SessionInit, FramerInit, PhaseAgrees, NothingBlocked
<1>4. ClockRight /\ ClockWhileFeeding
  BY DEF SessionInit, FramerInit, ClockRight, ClockWhileFeeding, Buffered
<1> QED
  BY <1>1, <1>2, <1>3, <1>4 DEF SessionInv

(* Every pass of handle_readable, in any order with the chunks and with time,
   keeps SessionInv: framer, phase, clock and policy agree. *)
THEOREM SessionInvariant == SessionSpec => []SessionInv
<1>1. SessionInv /\ [SessionNext]_vars => SessionInv'
  BY FramerInvKept, TypesKept, PhaseKept, ClockKept, BlockedKept DEF SessionInv
<1> QED
  BY <1>1, SessionInvInit, PTL DEF SessionSpec

(* The state of a session is well typed, for any streams and chunks. *)
THEOREM SessionTypes == SessionSpec => []SessionTypeOK
<1>1. SessionInv => SessionTypeOK
  BY DEF SessionInv
<1> QED
  BY <1>1, SessionInvariant, PTL

(* The clock in frame_started_at is the arrival of the first byte of the frame
   the source is waiting for, whatever chunks it came in. *)
THEOREM ClockMeasuresFrame == SessionSpec => []ClockIsFirstByte
<1>1. SessionInv => ClockIsFirstByte
  BY DEF SessionInv, ClockRight, ClockIsFirstByte
<1> QED
  BY <1>1, SessionInvariant, PTL

(* No chunk is read for a frame that was overdue when the pass began. *)
THEOREM OverdueIsNeverRead == SessionSpec => OverdueNeverRead
<1>1. ASSUME SessionInv, SessionNext, phase = "select", phase' = "ready", Buffered > 0
      PROVE  now - restSince <= FrameTimeout
  <2>1. CheckExpiry
    BY <1>1 DEF SessionNext, CheckExpiry, NotReadable, PeerGone, Recv, Feeding, sessionVars,
                Stamp, DropFrame, ForwardFrame, SendFails, HandlingFrame, FramesDone, Tick, Close
  <2>2. frame_started_at = restSince /\ restSince # NoTime
    BY <1>1, BufferTypes DEF SessionInv, ClockRight
  <2>3. ~(now - frame_started_at > FrameTimeout)
    BY <1>1, <2>1, <2>2 DEF CheckExpiry, Close
  <2>4. now \in Int /\ frame_started_at \in Int /\ FrameTimeout \in Int
    BY <1>1, SessionAssumption DEF SessionInv, SessionTypeOK, NoTime
  <2> QED
    BY <2>2, <2>3, <2>4
<1>2. SessionInv /\ [SessionNext]_vars =>
        [phase = "select" /\ phase' = "ready" /\ Buffered > 0
           => now - restSince <= FrameTimeout]_vars
  BY <1>1
<1> QED
  BY <1>2, SessionInvariant, PTL DEF SessionSpec, OverdueNeverRead

(* With blockcmd no configure command passes without leave. *)
THEOREM ConfigureIsFiltered == SessionSpec => []ConfigureNeedsLeave
<1>1. SessionInv => ConfigureNeedsLeave
  <2> SUFFICES ASSUME SessionInv, NEW i \in 1..Len(forwarded), conf.blockcmd,
                      IsConfigure(RecordAt(forwarded[i])),
                      RecordAt(forwarded[i]).type \notin conf.recwl
               PROVE  LET record == RecordAt(forwarded[i]) IN
                      /\ record.command = "time" \/ (record.command = "ip" /\ conf.noipf)
                      /\ CrcLength(record) > 0 /\ conf.crcChecked => record.crcOk
    BY DEF ConfigureNeedsLeave
  <2>1. ~Drops(forwarded[i])
    BY DEF SessionInv, NothingBlocked
  <2>2. Exempt(conf, RecordAt(forwarded[i]), SizeOf(forwarded[i]))
    BY <2>1 DEF Drops, Blocked
  <2> QED
    BY <2>2 DEF Exempt, CommandIs, Valid, ValidRecord
<1> QED
  BY <1>1, SessionInvariant, PTL
-----------------------------------------------------------------------------
(* The end of the last frame on_recv has finished with. *)
HandledEnd == IF handled = 0 THEN 0 ELSE Cut[handled][2]

(* The partner gets frames the parser cut, each whole, none twice and none
   before an earlier one. *)
ForwardedOrdered ==
  /\ \A i \in 1..Len(forwarded) : \E j \in 1..handled : forwarded[i] = Cut[j]
  /\ \A i \in 1..Len(forwarded) : forwarded[i][2] <= HandledEnd
  /\ \A i \in 1..(Len(forwarded) - 1) : forwarded[i][2] <= forwarded[i + 1][1]

(* The frame in hand begins where the last one ended. *)
LEMMA NextFrame ==
  ASSUME SessionInv, Batch # <<>>
  PROVE  /\ handled + 1 \in 1..Len(Cut)
         /\ Head(Batch) = Cut[handled + 1]
         /\ Cut[handled + 1] \in Interval
         /\ Cut[handled + 1][1] = HandledEnd
         /\ HandledEnd \in Nat /\ HandledEnd <= Cut[handled + 1][2]
<1>1. /\ delivered \in Seq(Interval) /\ frames \in Seq(Interval) /\ Cut \in Seq(Interval)
      /\ handled \in 0..Len(delivered) /\ StreamEnd \in Nat
      /\ Len(Cut) = Len(delivered) + Len(frames)
  BY BufferTypes DEF SessionInv, SessionTypeOK
<1>2. handled + 1 \in 1..Len(delivered) /\ Head(Batch) = delivered[handled + 1]
  BY <1>1, BatchFacts
<1>3. handled + 1 \in 1..Len(Cut) /\ delivered[handled + 1] = Cut[handled + 1]
  BY <1>1, <1>2 DEF Cut
<1>4. Cut[handled + 1] \in Interval
  BY <1>1, <1>3
<1>5. Cut[handled + 1][1] = HandledEnd
  <2>1. FramesTile
    BY DEF SessionInv, FramerInv
  <2>2. CASE handled = 0
    BY <1>1, <1>3, <2>1, <2>2 DEF FramesTile, HandledEnd
  <2>3. CASE handled # 0
    <3>1. handled \in 1..(Len(Cut) - 1)
      BY <1>1, <1>3, <2>3
    <3> QED
      BY <2>1, <2>3, <3>1 DEF FramesTile, HandledEnd
  <2> QED
    BY <2>2, <2>3
<1>6. Cut[handled + 1][2] - Cut[handled + 1][1] >= 8
  BY <1>3 DEF SessionInv, FramerInv, FramesWellFormed, ValidRecord
<1>7. Cut[handled + 1][1] \in 0..StreamEnd /\ Cut[handled + 1][2] \in 0..StreamEnd
  BY <1>4 DEF Interval
<1>8. HandledEnd \in Nat /\ HandledEnd <= Cut[handled + 1][2]
  BY <1>1, <1>5, <1>6, <1>7
<1> QED
  BY <1>2, <1>3, <1>4, <1>5, <1>8

(* The frames handled stay where they are in the frames cut. *)
LEMMA HandledStay ==
  ASSUME SessionInv, [SessionNext]_vars
  PROVE  \A j \in 1..handled : Cut'[j] = Cut[j]
<1>1. Cut \in Seq(Interval) /\ handled \in 0..Len(Cut)
  BY BufferTypes DEF SessionInv, SessionTypeOK
<1>2. [FramerNext]_framerVars
  BY SessionStepsFramer
<1>3. CASE TakeFrame
  <2>1. /\ Cut' = Append(Cut, <<start, start + FrameLength(stream[start])>>)
        /\ <<start, start + FrameLength(stream[start])>> \in Interval
    BY <1>3, TakeFrameCuts DEF SessionInv, FramerInv
  <2> QED
    BY <1>1, <2>1
<1>4. CASE ~TakeFrame
  BY <1>2, <1>4, OtherStepsCutNothing DEF SessionInv, FramerInv, FramerNext, FeedLoop
<1> QED
  BY <1>3, <1>4

(* Only the handler of a frame moves on, sends or decodes. *)
LEMMA HandledSteps ==
  ASSUME SessionInv, [SessionNext]_vars
  PROVE  \/ ForwardFrame
         \/ DropFrame
         \/ UNCHANGED <<handled, forwarded, decoded>>
<1>1. CASE CheckExpiry \/ NotReadable \/ PeerGone \/ Stamp \/ FramesDone \/ Tick
  BY <1>1 DEF CheckExpiry, NotReadable, PeerGone, Stamp, FramesDone, Tick
<1>2. CASE (\E n \in ChunkSizes : Recv(n)) \/ Feeding \/ SendFails
  BY <1>2 DEF Recv, Feeding, sessionVars, SendFails
<1>3. CASE UNCHANGED vars
  BY <1>3 DEF vars, sessionVars
<1> QED
  BY <1>1, <1>2, <1>3 DEF SessionNext

LEMMA OrderKept ==
  ASSUME SessionInv, ForwardedOrdered, [SessionNext]_vars
  PROVE  ForwardedOrdered'
<1>1. forwarded \in Seq(Interval) /\ handled \in Nat
  BY BufferTypes DEF SessionInv, SessionTypeOK
<1>2. \A j \in 1..handled : Cut'[j] = Cut[j]
  BY HandledStay
<1>3. CASE UNCHANGED <<handled, forwarded, decoded>>
  <2>1. HandledEnd' = HandledEnd
    BY <1>1, <1>2, <1>3 DEF HandledEnd
  <2> QED
    BY <1>2, <1>3, <2>1 DEF ForwardedOrdered
<1>4. CASE ForwardFrame \/ DropFrame
  <2> DEFINE frame == Cut[handled + 1]
  <2>1. /\ handled' = handled + 1 /\ Batch # <<>> /\ UNCHANGED framerVars
        /\ forwarded' = forwarded \/ forwarded' = Append(forwarded, Head(Batch))
    BY <1>4 DEF ForwardFrame, DropFrame, HandlingFrame
  <2>2. Cut' = Cut
    BY <2>1 DEF framerVars, Cut
  <2>3. /\ Head(Batch) = frame /\ frame \in Interval
        /\ frame[1] = HandledEnd /\ HandledEnd \in Nat /\ HandledEnd <= frame[2]
    BY <2>1, NextFrame
  <2>4. HandledEnd' = frame[2]
    BY <1>1, <2>1, <2>2 DEF HandledEnd
  <2>5. /\ \A i \in 1..Len(forwarded) : \E j \in 1..handled' : forwarded[i] = Cut[j]
        /\ \E j \in 1..handled' : frame = Cut[j]
    BY <1>1, <2>1 DEF ForwardedOrdered
  <2>6. ASSUME NEW i \in 1..Len(forwarded) PROVE forwarded[i][2] <= frame[2]
    <3>1. forwarded[i] \in Interval /\ forwarded[i][2] <= HandledEnd
      BY <1>1 DEF ForwardedOrdered
    <3>2. forwarded[i][2] \in Int /\ frame[2] \in Int
      BY <2>3, <3>1 DEF Interval
    <3> QED
      BY <2>3, <3>1, <3>2
  <2> HIDE DEF frame
  <2>7. CASE forwarded' = forwarded
    BY <2>2, <2>4, <2>5, <2>6, <2>7 DEF ForwardedOrdered
  <2>8. CASE forwarded' = Append(forwarded, frame)
    <3>1. /\ Len(forwarded') = Len(forwarded) + 1
          /\ forwarded'[Len(forwarded) + 1] = frame
          /\ \A i \in 1..Len(forwarded) : forwarded'[i] = forwarded[i]
          /\ Len(forwarded) \in Nat
      BY <1>1, <2>3, <2>8
    <3>2. ASSUME NEW i \in 1..Len(forwarded')
          PROVE  /\ \E j \in 1..handled' : forwarded'[i] = Cut[j]
                 /\ forwarded'[i][2] <= frame[2]
      <4>1. CASE i \in 1..Len(forwarded)
        BY <2>5, <2>6, <3>1, <4>1
      <4>2. CASE i = Len(forwarded) + 1
        <5>1. frame[2] \in Int
          BY <2>3 DEF Interval
        <5> QED
          BY <2>5, <3>1, <4>2, <5>1
      <4> QED
        BY <3>1, <4>1, <4>2
    <3>3. ASSUME NEW i \in 1..(Len(forwarded') - 1)
          PROVE  forwarded'[i][2] <= forwarded'[i + 1][1]
      <4>1. i \in 1..Len(forwarded)
        BY <3>1
      <4>2. CASE i = Len(forwarded)
        BY <2>3, <3>1, <4>1, <4>2 DEF ForwardedOrdered
      <4>3. CASE i # Len(forwarded)
        <5>1. i \in 1..(Len(forwarded) - 1) /\ i + 1 \in 1..Len(forwarded)
          BY <3>1, <4>1, <4>3
        <5> QED
          BY <3>1, <4>1, <5>1 DEF ForwardedOrdered
      <4> QED
        BY <4>2, <4>3
    <3> QED
      BY <2>2, <2>4, <3>2, <3>3 DEF ForwardedOrdered
  <2> QED
    BY <2>1, <2>3, <2>7, <2>8
<1> QED
  BY <1>3, <1>4, HandledSteps

(* The partner is sent records in the order they came, none twice, and only
   records the parser cut. *)
THEOREM RelayedInOrder == SessionSpec => []ForwardedOrdered
<1>1. SessionInit => ForwardedOrdered
  BY DEF SessionInit, ForwardedOrdered
<1>2. SessionInv /\ ForwardedOrdered /\ [SessionNext]_vars => ForwardedOrdered'
  BY OrderKept
<1> QED
  BY <1>1, <1>2, SessionInvariant, PTL DEF SessionSpec
-----------------------------------------------------------------------------
Passing     == {f \in Interval : ~Drops(f)}
Telemetered == {f \in Interval : Decodes(f)}

(* What the partner has been sent and what procdata has been handed, told from
   the frames cut and from how many of them on_recv has finished with; and a
   pair that a malformed prefix closed has no frame left to handle. *)
HandledIsSent ==
  /\ forwarded = Kept(SubSeq(Cut, 1, handled), Passing)
  /\ decoded = Kept(forwarded, Telemetered)
  /\ cause = "frame" => phase = "closed" /\ handled = Len(delivered)

(* Nothing is handled at first. *)
LEMMA InitSent == SessionInit => HandledIsSent
<1> SUFFICES ASSUME SessionInit PROVE HandledIsSent
  OBVIOUS
<1>1. handled = 0 /\ forwarded = <<>> /\ decoded = <<>> /\ cause = "none" /\ Cut = <<>>
  BY DEF SessionInit, FramerInit, Cut
<1>2. SubSeq(Cut, 1, handled) = <<>>
  BY <1>1, SubSeqEmpty
<1> QED
  BY <1>1, <1>2, KeptEmpty DEF HandledIsSent

LEMMA PolicyStays ==
  ASSUME SessionInv, [SessionNext]_vars
  PROVE  Passing' = Passing /\ Telemetered' = Telemetered
BY PolicyFixed DEF Passing, Telemetered, Drops, Decodes, RecordAt, SizeOf, Interval

(* The handler takes the next frame cut, and decides on it alone. *)
LEMMA SentByHandler ==
  ASSUME SessionInv, HandledIsSent, ForwardFrame \/ DropFrame
  PROVE  /\ forwarded' = Kept(SubSeq(Cut, 1, handled'), Passing)
         /\ decoded' = Kept(forwarded', Telemetered)
<1> DEFINE done == SubSeq(Cut, 1, handled)
           frame == Cut[handled + 1]
<1>1. Batch # <<>> /\ handled' = handled + 1
  BY DEF ForwardFrame, DropFrame, HandlingFrame
<1>2. Cut \in Seq(Interval) /\ forwarded \in Seq(Interval) /\ handled \in Nat
  BY BufferTypes DEF SessionInv, SessionTypeOK
<1>3. /\ handled + 1 \in 1..Len(Cut) /\ frame \in Interval
      /\ Head(Batch) = frame
  BY <1>1, NextFrame
<1>4. done \in Seq(Interval) /\ SubSeq(Cut, 1, handled + 1) = Append(done, frame)
  BY <1>2, <1>3
<1> HIDE DEF done, frame
<1>5. Kept(Append(done, frame), Passing)
        = IF frame \in Passing THEN Append(Kept(done, Passing), frame)
          ELSE Kept(done, Passing)
  BY <1>3, <1>4, KeptAppend, Zenon
<1>6. frame \in Passing <=> ~Drops(frame)
  BY <1>3 DEF Passing
<1>7. forwarded = Kept(done, Passing) /\ decoded = Kept(forwarded, Telemetered)
  BY DEF HandledIsSent, done
<1>8. CASE DropFrame
  <2>1. forwarded' = forwarded /\ decoded' = decoded /\ Drops(frame)
    BY <1>3, <1>8 DEF DropFrame
  <2> QED
    BY <1>1, <1>4, <1>5, <1>6, <1>7, <2>1
<1>9. CASE ForwardFrame
  <2>1. /\ forwarded' = Append(forwarded, frame) /\ ~Drops(frame)
        /\ decoded' = IF Decodes(frame) THEN Append(decoded, frame) ELSE decoded
    BY <1>3, <1>9 DEF ForwardFrame
  <2>2. frame \in Telemetered <=> Decodes(frame)
    BY <1>3 DEF Telemetered
  <2>3. Kept(Append(forwarded, frame), Telemetered)
          = IF frame \in Telemetered THEN Append(Kept(forwarded, Telemetered), frame)
            ELSE Kept(forwarded, Telemetered)
    <3>1. forwarded \in Seq(Interval)
      BY <1>2
    <3>2. frame \in Interval
      BY <1>3
    <3> QED
      BY <3>1, <3>2, KeptAppend, Zenon
  <2> QED
    BY <1>1, <1>4, <1>5, <1>6, <1>7, <2>1, <2>2, <2>3
<1> QED
  BY <1>8, <1>9

(* The generator raises the framer's error behind the last frame only. *)
LEMMA CauseKept ==
  ASSUME SessionInv, HandledIsSent, [SessionNext]_vars
  PROVE  (cause = "frame" => phase = "closed" /\ handled = Len(delivered))'
<1>1. delivered \in Seq(Interval) /\ handled \in 0..Len(delivered)
  BY BufferTypes DEF SessionInv, SessionTypeOK
<1>2. cause = "frame" => phase = "closed" /\ handled = Len(delivered)
  BY DEF HandledIsSent
<1>3. CASE Stamp \/ FramesDone
  <2>1. handled' = handled /\ delivered' = delivered
    BY <1>3 DEF Stamp, FramesDone, framerVars
  <2>2. CASE cause' = "frame" /\ phase' = "closed"
    <3>1. Batch = <<>> \/ cause = "frame"
      BY <1>3, <2>2 DEF Stamp, FramesDone, Close
    <3> QED
      BY <1>1, <1>2, <2>1, <2>2, <3>1, BatchFacts
  <2>3. CASE cause' = cause /\ phase # "closed"
    BY <1>2, <2>3
  <2> QED
    BY <1>3, <2>2, <2>3 DEF Stamp, FramesDone, Close
<1>4. CASE CheckExpiry \/ NotReadable \/ PeerGone \/ Tick
  BY <1>2, <1>4 DEF CheckExpiry, NotReadable, PeerGone, Tick, Close
<1>5. CASE (\E n \in ChunkSizes : Recv(n)) \/ Feeding
  BY <1>2, <1>5 DEF Recv, Feeding, sessionVars
<1>6. CASE DropFrame \/ ForwardFrame \/ SendFails
  BY <1>2, <1>6 DEF DropFrame, ForwardFrame, SendFails, HandlingFrame, Close
<1>7. CASE UNCHANGED vars
  BY <1>2, <1>7 DEF vars, framerVars, sessionVars
<1> QED
  BY <1>3, <1>4, <1>5, <1>6, <1>7 DEF SessionNext

LEMMA SentKept ==
  ASSUME SessionInv, HandledIsSent, [SessionNext]_vars
  PROVE  HandledIsSent'
<1>1. SessionInv'
  BY FramerInvKept, TypesKept, PhaseKept, ClockKept, BlockedKept DEF SessionInv
<1>2. Passing' = Passing /\ Telemetered' = Telemetered
  BY PolicyStays
<1>3. /\ forwarded' = Kept(SubSeq(Cut', 1, handled'), Passing)
      /\ decoded' = Kept(forwarded', Telemetered)
  <2>1. CASE ForwardFrame \/ DropFrame
    <3>1. Cut' = Cut
      BY <2>1 DEF ForwardFrame, DropFrame, HandlingFrame, framerVars, Cut
    <3> QED
      BY <2>1, <3>1, SentByHandler
  <2>2. CASE UNCHANGED <<handled, forwarded, decoded>>
    <3>1. /\ Cut \in Seq(Interval) /\ Cut' \in Seq(Interval)
          /\ handled \in 0..Len(Cut) /\ handled \in 0..Len(Cut')
      <4>1. Cut \in Seq(Interval) /\ handled \in 0..Len(Cut)
        BY BufferTypes DEF SessionInv, SessionTypeOK
      <4>2. Cut' \in Seq(Interval) /\ handled' \in 0..Len(Cut')
        <5>1. /\ delivered' \in Seq(Interval) /\ frames' \in Seq(Interval)
              /\ handled' \in 0..Len(delivered')
          BY <1>1 DEF SessionInv, SessionTypeOK, FramerTypeOK, Interval
        <5> QED
          BY <5>1 DEF Cut
      <4> QED
        BY <2>2, <4>1, <4>2
    <3>2. SubSeq(Cut', 1, handled) = SubSeq(Cut, 1, handled)
      BY <3>1, HandledStay
    <3> QED
      BY <2>2, <3>2 DEF HandledIsSent
  <2> QED
    BY <2>1, <2>2, HandledSteps
<1> QED
  BY <1>2, <1>3, CauseKept DEF HandledIsSent

(* What of the stream has been handled, and what has not. *)
LEMMA SplitReceived ==
  ASSUME SessionInv, CutsWhatArrived
  PROVE  /\ FramesReceived \in Seq(Interval)
         /\ handled \in 0..Len(Cut) /\ Cut \in Seq(Interval)
         /\ SubSeq(Cut, 1, handled) \in Seq(Interval)
         /\ \E rest \in Seq(Interval) : FramesReceived = SubSeq(Cut, 1, handled) \o rest
<1>1. Cut \in Seq(Interval) /\ handled \in 0..Len(Cut)
  BY BufferTypes DEF SessionInv, SessionTypeOK
<1>2. FramesReceived \in Seq(Interval)
  <2>1. /\ \A p \in 0..StreamEnd : PrefixOK(stream[p])
        /\ received \in 0..StreamEnd /\ 0 \in 0..StreamEnd
    BY FrameBufferAssumption DEF SessionInv, FramerInv, FramerTyped, FramerTypeOK
  <2> QED
    BY <2>1, ParseUnfolds DEF FramesReceived
<1> DEFINE all == FramesReceived
<1>3. Len(Cut) <= Len(all) /\ Cut = SubSeq(all, 1, Len(Cut))
  BY DEF CutsWhatArrived
<1> HIDE DEF all
<1>4. handled \in 0..Len(all) /\ SubSeq(Cut, 1, handled) = SubSeq(all, 1, handled)
  BY <1>1, <1>2, <1>3 DEF all
<1>5. /\ SubSeq(all, handled + 1, Len(all)) \in Seq(Interval)
      /\ all = SubSeq(all, 1, handled) \o SubSeq(all, handled + 1, Len(all))
  <2>1. all \in Seq(Interval)
    BY <1>2 DEF all
  <2> QED
    BY <1>4, <2>1, SequenceSplit
<1>6. SubSeq(Cut, 1, handled) \in Seq(Interval)
  BY <1>1
<1> QED
  BY <1>1, <1>2, <1>4, <1>5, <1>6 DEF all

LEMMA SentIsRelayable ==
  ASSUME SessionInv, HandledIsSent, CutsWhatArrived
  PROVE  RelaysEverything /\ RelaysInOrder /\ DecodesForwarded
<1>1. RelaysEverything
  <2> SUFFICES ASSUME phase = "select" \/ cause = "frame" PROVE forwarded = Relayable
    BY DEF RelaysEverything
  <2>1. pc = "idle" /\ handled = Len(delivered)
    BY DEF SessionInv, PhaseAgrees, HandledIsSent
  <2>2. Cut = delivered /\ Cut = FramesReceived
    BY <2>1, BufferTypes, ConcatEmptySeq
       DEF Cut, CutsWhatArrived, SessionInv, FramerInv, FramerTyped, IdleHoldsNoFrames
  <2>3. SubSeq(Cut, 1, handled) = Cut
    BY <2>1, <2>2, SplitReceived
  <2> QED
    BY <2>2, <2>3 DEF HandledIsSent, Relayable, Passing
<1>2. RelaysInOrder
  <2> DEFINE done == SubSeq(Cut, 1, handled)
  <2>1. PICK rest : rest \in Seq(Interval) /\ FramesReceived = done \o rest
    BY SplitReceived
  <2>2. done \in Seq(Interval)
    BY SplitReceived
  <2>3. forwarded = Kept(done, Passing) /\ Relayable = Kept(FramesReceived, Passing)
    BY DEF HandledIsSent, Relayable, Passing
  <2> HIDE DEF done
  <2>4. Kept(done \o rest, Passing) = Kept(done, Passing) \o Kept(rest, Passing)
    <3>1. rest \in Seq(Interval)
      BY <2>1
    <3> QED
      BY ONLY <2>2, <3>1, KeptConcat
  <2>5. Kept(done, Passing) \in Seq(Interval) /\ Kept(rest, Passing) \in Seq(Interval)
    BY <2>1, <2>2, KeptTyped, Zenon
  <2>6. forwarded \in Seq(Interval) /\ Kept(rest, Passing) \in Seq(Interval)
        /\ Relayable = forwarded \o Kept(rest, Passing)
    BY <2>1, <2>3, <2>4, <2>5
  <2> QED
    BY <2>6 DEF RelaysInOrder, IsPrefix
<1>3. DecodesForwarded
  <2>1. decoded = Kept(forwarded, Telemetered) /\ forwarded \in Seq(Interval)
    BY DEF HandledIsSent, SessionInv, SessionTypeOK
  <2>2. \A i \in 1..Len(decoded) : decoded[i] \in Telemetered
    BY <2>1, KeptMembers, Zenon
  <2>3. \A i \in 1..Len(decoded) :
          Valid(conf, RecordAt(decoded[i]), SizeOf(decoded[i]))
    BY <2>2 DEF Telemetered, Decodes, Decoded
  <2> QED
    BY <2>1, <2>3 DEF DecodesForwarded, Telemetered
<1> QED
  BY <1>1, <1>2, <1>3

(* The three facts in every reachable state. *)
LEMMA SentAlways == SessionSpec => [](SessionInv /\ HandledIsSent /\ CutsWhatArrived)
<1>1. SessionInit => FramerTyped /\ CutIsParsed
  BY InitFramerInv, InitParsed DEF SessionInit, FramerInv
<1>2. FramerTyped /\ CutIsParsed /\ [SessionNext]_vars => (FramerTyped /\ CutIsParsed)'
  BY SessionStepsFramer, NextTyped, NextParsed
<1>3. SessionInv /\ HandledIsSent /\ [SessionNext]_vars => HandledIsSent'
  BY SentKept
<1> QED
  BY <1>1, <1>2, <1>3, InitSent, ParsedCuts, SessionInvariant, PTL DEF SessionSpec

(* Whenever a pass is over the partner has been sent exactly what the policy
   lets through of the frames received, for any streams, chunks and settings. *)
THEOREM EverythingIsRelayed == SessionSpec => []RelaysEverything
BY SentAlways, SentIsRelayable, PTL

(* And a prefix of it at any other time, also when the pair was cut off. *)
THEOREM NothingElseIsRelayed == SessionSpec => []RelaysInOrder
BY SentAlways, SentIsRelayable, PTL

(* procdata is handed the valid records over minrecl among the forwarded ones,
   in order, and nothing else. *)
THEOREM OnlyForwardedIsDecoded == SessionSpec => []DecodesForwarded
BY SentAlways, SentIsRelayable, PTL
=============================================================================

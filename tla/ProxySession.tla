---------------------------- MODULE ProxySession ----------------------------
(***************************************************************************)
(* One direction of a relayed pair: Proxy._read_socket on one source, with *)
(* its FrameBuffer, the clock of its partial frame, and on_recv on every   *)
(* frame.  ProxyConnections has the pairs and leaves the bytes out; here   *)
(* is one source, byte for byte and record by record, from the arrival of  *)
(* a chunk to the bytes written to the partner.                            *)
(*                                                                         *)
(* The steps of one pass of main() over this source: CheckExpiry, then, if *)
(* select() reported it, Recv, the loop of feed(), Stamp, one OnRecv step  *)
(* per frame and FramesDone.  Nothing else touches the source meanwhile,   *)
(* but time passes, also in the middle of a pass: the loop writes to slow  *)
(* sockets.                                                                *)
(***************************************************************************)
EXTENDS FrameBuffer, RecordFilter, SequenceFilter, SequencesExt

CONSTANTS
  Confs,         \* the configurations the proxy may run with
  ChunkSizes,    \* bound: the sizes of the chunks recv returns
  FrameTimeout,  \* INCOMPLETE_FRAME_TIMEOUT
  MaxTime        \* bound: the time at which the clock stops

ASSUME SessionAssumption ==
  /\ ChunkSizes \subseteq 1..MaxChunk
  /\ FrameTimeout \in Nat
  /\ MaxTime \in Nat

VARIABLES
  conf,              \* the settings, fixed
  phase,             \* where the pass is; "closed" once the pair is closed
  now,               \* time.monotonic()
  frame_started_at,  \* this source's entry in frame_started_at, or -1
  had_pending,       \* the local had_pending_frame
  handled,           \* how many of the frames fed so far on_recv has finished
  forwarded,         \* history: the frames written to the partner
  decoded,           \* history: the frames handed to procdata
  known,             \* history: bytes received before the current chunk
  restSince,         \* history: when the first buffered byte arrived
  cause              \* history: why the pair was closed

sessionVars == <<conf, phase, now, frame_started_at, had_pending, handled,
                 forwarded, decoded, known, restSince, cause>>
vars == <<framerVars, sessionVars>>

NoTime == -1

SessionInit ==
  /\ FramerInit
  /\ conf \in Confs
  /\ phase = "select"
  /\ now = 0
  /\ frame_started_at = NoTime
  /\ had_pending = FALSE
  /\ handled = 0
  /\ forwarded = <<>>
  /\ decoded = <<>>
  /\ known = 0
  /\ restSince = NoTime
  /\ cause = "none"

Close(why) ==
  /\ phase' = "closed"
  /\ cause' = why
-----------------------------------------------------------------------------
(* _expire_incomplete_frames, for this source. *)
CheckExpiry ==
  /\ phase = "select"
  /\ IF frame_started_at # NoTime /\ now - frame_started_at > FrameTimeout
       THEN Close("timeout")
       ELSE phase' = "ready" /\ UNCHANGED cause
  /\ UNCHANGED <<framerVars, conf, now, frame_started_at, had_pending, handled,
                 forwarded, decoded, known, restSince>>

NotReadable ==
  /\ phase = "ready"
  /\ phase' = "select"
  /\ UNCHANGED <<framerVars, conf, now, frame_started_at, had_pending, handled,
                 forwarded, decoded, known, restSince, cause>>

(* End of file or OSError from recv, or the partner's socket was closed. *)
PeerGone ==
  /\ phase \in {"select", "ready"}
  /\ Close("peer")
  /\ UNCHANGED <<framerVars, conf, now, frame_started_at, had_pending, handled,
                 forwarded, decoded, known, restSince>>

(* chunk = source.recv(buffer_size); framer.feed(chunk) is entered. *)
Recv(n) ==
  /\ phase = "ready"
  /\ Feed(n)
  /\ had_pending' = (Buffered > 0)
  /\ known' = received
  /\ phase' = "feeding"
  /\ UNCHANGED <<conf, now, frame_started_at, handled, forwarded, decoded,
                 restSince, cause>>

Feeding ==
  /\ phase = "feeding"
  /\ FeedLoop
  /\ UNCHANGED sessionVars

(* The frames feed() returned, or its generator will yield. *)
Batch == SubSeq(delivered, handled + 1, Len(delivered))

(* The first buffered byte came with the current chunk, or was there before. *)
RestArrival ==
  IF Buffered = 0 THEN NoTime ELSE IF start >= known THEN now ELSE restSince

(* Mutant: every chunk restarts the clock. *)
ClockAfterFeed_Restart == IF Buffered = 0 THEN NoTime ELSE now

(* What the statements behind feed() leave in frame_started_at. *)
ClockAfterFeed ==
  CASE Buffered = 0 -> NoTime
    [] Buffered > 0 /\ (Batch # <<>> \/ ~had_pending) -> now
    [] Buffered > 0 /\ Batch = <<>> /\ had_pending ->
         IF frame_started_at = NoTime THEN now ELSE frame_started_at

(* feed() has come back.  An error without frames is raised here; one behind
   frames is raised by the generator, when they have been handled. *)
Stamp ==
  /\ phase = "feeding"
  /\ pc = "idle"
  /\ restSince' = RestArrival
  /\ IF failed /\ Batch = <<>>
       THEN Close("frame") /\ UNCHANGED frame_started_at
       ELSE /\ phase' = "frames"
            /\ frame_started_at' = ClockAfterFeed
            /\ UNCHANGED cause
  /\ UNCHANGED <<framerVars, conf, now, had_pending, handled, forwarded, decoded,
                 known>>
-----------------------------------------------------------------------------
RecordAt(frame) == stream[frame[1]]
SizeOf(frame)   == frame[2] - frame[1]

Drops(frame)   == Blocked(conf, RecordAt(frame), SizeOf(frame))
Decodes(frame) == Decoded(conf, RecordAt(frame), SizeOf(frame))

HandlingFrame ==
  /\ phase = "frames"
  /\ Batch # <<>>
  /\ UNCHANGED <<framerVars, conf, now, frame_started_at, had_pending, known,
                 restSince>>

(* Mutant: the block policy stops forwarding, not decoding. *)
DropFrame_Decode ==
  /\ HandlingFrame
  /\ Drops(Head(Batch))
  /\ handled' = handled + 1
  /\ decoded' = IF Decodes(Head(Batch)) THEN Append(decoded, Head(Batch)) ELSE decoded
  /\ UNCHANGED <<phase, forwarded, cause>>

(* on_recv returns before send_all. *)
DropFrame ==
  /\ HandlingFrame
  /\ Drops(Head(Batch))
  /\ handled' = handled + 1
  /\ UNCHANGED <<phase, forwarded, decoded, cause>>

(* Mutant: the loop over the frames is left after the first. *)
ForwardFrame_OnlyFirst ==
  /\ HandlingFrame
  /\ ~Drops(Head(Batch))
  /\ forwarded' = Append(forwarded, Head(Batch))
  /\ decoded' = IF Decodes(Head(Batch)) THEN Append(decoded, Head(Batch)) ELSE decoded
  /\ handled' = Len(delivered)
  /\ UNCHANGED <<phase, cause>>

(* send_all succeeds; procdata is tried on a valid record over minrecl, and
   whatever it raises is caught. *)
ForwardFrame ==
  /\ HandlingFrame
  /\ ~Drops(Head(Batch))
  /\ forwarded' = Append(forwarded, Head(Batch))
  /\ decoded' = IF Decodes(Head(Batch)) THEN Append(decoded, Head(Batch)) ELSE decoded
  /\ handled' = handled + 1
  /\ UNCHANGED <<phase, cause>>

(* send_all raises: the frames behind this one are lost with the pair. *)
SendFails ==
  /\ HandlingFrame
  /\ ~Drops(Head(Batch))
  /\ Close("send")
  /\ UNCHANGED <<handled, forwarded, decoded>>

(* The end of the frames, where the generator raises its error. *)
FramesDone ==
  /\ phase = "frames"
  /\ Batch = <<>>
  /\ IF failed THEN Close("frame") ELSE phase' = "select" /\ UNCHANGED cause
  /\ UNCHANGED <<framerVars, conf, now, frame_started_at, had_pending, handled,
                 forwarded, decoded, known, restSince>>

(* Not between recv and the reading of the clock behind feed(): these take no
   time worth the name. *)
Tick ==
  /\ phase \in {"select", "ready", "frames"}
  /\ now < MaxTime
  /\ now' = now + 1
  /\ UNCHANGED <<framerVars, conf, phase, frame_started_at, had_pending, handled,
                 forwarded, decoded, known, restSince, cause>>

SessionNext ==
  \/ CheckExpiry \/ NotReadable \/ PeerGone
  \/ (\E n \in ChunkSizes : Recv(n)) \/ Feeding \/ Stamp
  \/ DropFrame \/ ForwardFrame \/ SendFails \/ FramesDone
  \/ Tick

SessionSpec == SessionInit /\ [][SessionNext]_vars
-----------------------------------------------------------------------------
SessionTypeOK ==
  /\ FramerTypeOK
  /\ phase \in {"select", "ready", "feeding", "frames", "closed"}
  /\ now \in 0..MaxTime
  /\ frame_started_at \in NoTime..MaxTime
  /\ had_pending \in BOOLEAN
  /\ handled \in 0..Len(delivered)
  /\ forwarded \in Seq(Interval)
  /\ decoded \in Seq(Interval)
  /\ known \in 0..received
  /\ restSince \in NoTime..MaxTime
  /\ cause \in {"none", "timeout", "peer", "send", "frame"}

Relayable == Kept(FramesReceived, {f \in Interval : ~Drops(f)})

(* Whenever the loop is back at select(), the partner has been sent exactly the
   frames received that the policy lets through, once each and in order, however
   they were chunked; also when a malformed prefix behind them ended the pair. *)
RelaysEverything ==
  (phase = "select" \/ cause = "frame") => forwarded = Relayable

(* At any other moment, and if the pair was closed by a peer or a timeout, it
   has been sent a prefix of them: never a blocked, repeated or partial one. *)
RelaysInOrder == IsPrefix(forwarded, Relayable)

(* Local telemetry is decoded from the forwarded records, never from a blocked
   or a corrupt one. *)
DecodesForwarded ==
  /\ decoded = Kept(forwarded, {f \in Interval : Decodes(f)})
  /\ \A i \in 1..Len(decoded) :
        Valid(conf, RecordAt(decoded[i]), SizeOf(decoded[i]))

(* With blockcmd, a configure command reaches the partner only if it is on the
   white list or an intact time (or, with noipf, IP) command; a flipped bit in
   the CRC does not open the filter. *)
ConfigureNeedsLeave ==
  \A i \in 1..Len(forwarded) :
    LET record == RecordAt(forwarded[i])
    IN  conf.blockcmd /\ IsConfigure(record) /\ record.type \notin conf.recwl =>
          /\ record.command = "time" \/ (record.command = "ip" /\ conf.noipf)
          /\ CrcLength(record) > 0 /\ conf.crcChecked => record.crcOk

(* The clock of a source runs from the arrival of the first byte of the frame
   it is waiting for: a peer that drips bytes does not gain time, and a frame
   does not inherit the age of the one before it. *)
ClockIsFirstByte ==
  phase \in {"select", "ready", "frames"} => frame_started_at = restSince

(* A frame that was overdue when the pass began is never completed: no chunk is
   read for it.  (Time within the pass is not counted.) *)
OverdueNeverRead ==
  [][ (phase = "select" /\ phase' = "ready" /\ Buffered > 0)
        => now - restSince <= FrameTimeout ]_vars

(* The comment in on_recv: "do not block if configure time command of configure
   IP (if noipf flag set)": an intact time command is relayed. *)
TimeCommandRelayed ==
  phase = "select" =>
    \A i \in 1..Len(FramesReceived) :
      LET f == FramesReceived[i]
      IN  IsConfigure(RecordAt(f)) /\ RecordAt(f).command = "time"
            /\ Valid(conf, RecordAt(f), SizeOf(f))
          => \E j \in 1..Len(forwarded) : forwarded[j] = f
=============================================================================

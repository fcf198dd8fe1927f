----------------------------- MODULE FrameBuffer -----------------------------
(***************************************************************************)
(* The jitter buffer (modules/video_coding/frame_buffer2.cc) for one       *)
(* spatial layer: which frames have all the frames they refer to, and      *)
(* which one is decoded next.  A FrameBuffer is a record:                  *)
(*                                                                         *)
(*   frames           frames_: picture id -> FrameInfo                     *)
(*   lastDecoded      the key of last_decoded_frame_it_, or None           *)
(*   lastContinuous   the key of last_continuous_frame_it_, or None        *)
(*   next             the key of next_frame_it_, or None                   *)
(*   lastTimestamp    last_decoded_frame_timestamp_                        *)
(*   history          num_frames_history_                                  *)
(*   buffered         num_frames_buffered_                                 *)
(*                                                                         *)
(* A frame is [pid, refs, timestamp, object]; a FrameInfo without a frame  *)
(* stands for one that a later frame refers to, that was decoded, or that  *)
(* can never be decoded.  A frame refers to one frame at most, as the      *)
(* reference finder sets it for one temporal layer.  Render times are not  *)
(* modelled.                                                               *)
(***************************************************************************)
EXTENDS Integers, FiniteSets, SequenceNumber, SequencesExt

CONSTANTS kMaxFramesBuffered,  \* the frames the buffer holds
          kMaxFramesHistory,   \* the decoded frames it remembers
          None                 \* the end of frames_, no frame

ASSUME FrameBufferAssumption ==
  /\ None \notin 0..SeqSpace
  /\ kMaxFramesBuffered \in Nat \ {0} /\ kMaxFramesHistory \in Nat \ {0}

Older(p, q) == AheadOf(q, p, SeqSpace)
NewInfo == [deps |-> {}, missCont |-> 0, missDec |-> 0,
            continuous |-> FALSE, frame |-> None]

NewFrameBuffer ==
  [frames |-> [p \in {} |-> NewInfo], lastDecoded |-> None,
   lastContinuous |-> None, next |-> None, lastTimestamp |-> 0,
   history |-> 0, buffered |-> 0]

ClearFramesAndHistory(b) ==
  [NewFrameBuffer EXCEPT !.lastTimestamp = b.lastTimestamp]

Known(b) == DOMAIN b.frames
Oldest(S) == CHOOSE p \in S : \A q \in S : ~Older(q, p)

(* The buffer with a FrameInfo for each of P. *)
WithInfo(b, P) ==
  [b EXCEPT !.frames = [p \in DOMAIN @ \cup P |->
     IF p \in DOMAIN @ THEN @[p] ELSE NewInfo]]
Without(b, P) == [b EXCEPT !.frames = [p \in DOMAIN @ \ P |-> @[p]]]

(* PropagateContinuity: with start, every frame that lacked nothing but    *)
(* frames of the set becomes continuous as well.                           *)
PropagateContinuity(b, start) ==
  LET found(S, p) == Cardinality({q \in S : p \in b.frames[q].deps})
      Reached == FoldLeft(
        LAMBDA S, i : S \cup {p \in Known(b) : /\ found(S, p) > 0
                                               /\ found(S, p) =
                                                    b.frames[p].missCont},
        {start}, [i \in 1..Cardinality(Known(b)) |-> i])
      last == ({b.lastContinuous} \cup Reached) \ {None}
  IN  [b EXCEPT
         !.frames = [p \in DOMAIN @ |->
            [@[p] EXCEPT !.missCont = @ - found(Reached, p),
                         !.continuous = @ \/ p \in Reached]],
         !.lastContinuous = CHOOSE p \in last : \A q \in last : ~Older(p, q)]

(* UpdateFrameInfoWithIncomingFrame.  A frame that refers to one before    *)
(* the last decoded frame that was not decoded is never decodable.         *)
Passed(b, p) == b.lastDecoded # None /\ ~Older(b.lastDecoded, p)
NeverDecodable(b, f) == \E r \in f.refs : Passed(b, r) /\ r \notin Known(b)

UpdateFrameInfo(b, f) ==
  LET open == {r \in f.refs : ~Passed(b, r)}
      c == WithInfo(b, open)
  IN  [c EXCEPT !.frames = [p \in DOMAIN @ |->
         IF p = f.pid
         THEN [@[p] EXCEPT !.missCont = Cardinality({r \in open :
                                           ~c.frames[r].continuous}),
                           !.missDec = Cardinality(open)]
         ELSE IF p \in open THEN [@[p] EXCEPT !.deps = @ \cup {f.pid}]
         ELSE @[p]]]

(* InsertFrame.  A keyframe that is newer by its timestamp than the last   *)
(* decoded frame and older by its picture id, or a picture id that would   *)
(* make the order ambiguous, clears the buffer.                            *)
TooLate(b, f) == Passed(b, f.pid)
Jumped(b, f) ==
  \/ TooLate(b, f) /\ f.timestamp > b.lastTimestamp /\ f.refs = {}
  \/ /\ Known(b) # {} /\ ~TooLate(b, f)
     /\ Older(f.pid, Oldest(Known(b)))
     /\ \E p \in Known(b) : (\A q \in Known(b) : ~Older(p, q))
                            /\ Older(p, f.pid)
Dropped(b, f) ==
  \/ b.buffered >= kMaxFramesBuffered
  \/ TooLate(b, f) /\ ~Jumped(b, f)

(* The buffer after InsertFrame, the picture id it returns, and whether    *)
(* the frame was refused.                                                  *)
InsertFrame(b, f) ==
  LET c == WithInfo(IF Jumped(b, f) THEN ClearFramesAndHistory(b) ELSE b,
                    {f.pid})
      d == UpdateFrameInfo(c, f)
      e == [d EXCEPT !.frames[f.pid].frame = f, !.buffered = @ + 1]
      g == IF e.frames[f.pid].missCont > 0 THEN e
           ELSE PropagateContinuity(
                  [e EXCEPT !.frames[f.pid].continuous = TRUE], f.pid)
      result(buffer, refused) ==
        [buffer |-> buffer, continuous |-> buffer.lastContinuous,
         refused |-> refused]
  IN  IF Dropped(b, f) THEN result(b, TRUE)
      ELSE IF c.frames[f.pid].frame # None \/ NeverDecodable(c, f)
      THEN result(c, TRUE)
      ELSE result(g, FALSE)

(* The frames in b that are not in c, which InsertFrame made of it: those  *)
(* that frames_.clear() destroys.                                          *)
Buffered(b) == {b.frames[p].frame : p \in Known(b)} \ {None}
InsertDestroys(b, c) == Buffered(b) \ Buffered(c)

(* Fault: a frame may be taken as soon as it is continuous. *)
ContinuousIsEnough(b) ==
  {p \in Known(b) : /\ b.lastDecoded # None => Older(b.lastDecoded, p)
                    /\ b.frames[p].continuous}

(* The frames NextFrame may settle on: the first decodable one, or a later *)
(* one if those before it are due already.                                 *)
Decodable(b) ==
  {p \in Known(b) : /\ b.lastDecoded # None => Older(b.lastDecoded, p)
                    /\ b.lastContinuous # None => ~Older(b.lastContinuous, p)
                    /\ b.frames[p].continuous /\ b.frames[p].missDec = 0}

(* The first critical section of NextFrame. *)
SetNext(b, p) == [b EXCEPT !.next = p]

(* Its second one: next_frame_it_ is decoded (PropagateDecodability), the  *)
(* frames before it are dropped and the oldest of a full history is        *)
(* forgotten (AdvanceLastDecodedFrame).                                    *)
Skipped(b) ==
  {p \in Known(b) : /\ Older(p, b.next)
                    /\ b.lastDecoded # None => Older(b.lastDecoded, p)}
DroppedFrames(b) == {b.frames[p].frame : p \in Skipped(b)} \ {None}

TakeNext(b) ==
  LET c == [b EXCEPT
              !.frames = [p \in DOMAIN @ |->
                IF p \in b.frames[b.next].deps
                THEN [@[p] EXCEPT !.missDec = @ - 1]
                ELSE IF p = b.next THEN [@[p] EXCEPT !.frame = None]
                ELSE @[p]],
              !.lastDecoded = b.next, !.next = None,
              !.lastTimestamp = b.frames[b.next].frame.timestamp,
              !.buffered = @ - 1 - Cardinality(DroppedFrames(b)),
              !.history = @ + 1]
      d == Without(c, Skipped(b))
  IN  IF d.history <= kMaxFramesHistory THEN d
      ELSE [Without(d, {Oldest(Known(d))}) EXCEPT !.history = @ - 1]

FrameBufferTypeOK(b) ==
  /\ Known(b) \subseteq 0..(SeqSpace - 1)
  /\ b.history \in 0..kMaxFramesHistory
  /\ b.buffered = Cardinality({p \in Known(b) : b.frames[p].frame # None})
  /\ b.buffered <= kMaxFramesBuffered
  /\ \A p \in Known(b) : b.frames[p].missCont \in 0..b.frames[p].missDec
  /\ {b.lastDecoded, b.lastContinuous, b.next} \ {None} \subseteq Known(b)
=============================================================================

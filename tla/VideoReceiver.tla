--------------------------- MODULE VideoReceiver ---------------------------
(***************************************************************************)
(* A received video stream, from the network to the decoder:               *)
(* RtpVideoStreamReceiver (video/rtp_video_stream_receiver.cc), the NACK   *)
(* module, the packet buffer, the reference finder for VP8 with picture    *)
(* ids and one temporal layer, the frame buffer, and VideoReceiveStream    *)
(* (video/video_receive_stream.cc).                                        *)
(*                                                                         *)
(* Three threads run in it: the network thread takes a packet through the  *)
(* NACK module and the packet buffer and hands on the frames it completes, *)
(* the decoding thread takes frames out, and the module process thread     *)
(* sends NACKs again.  A section under a lock is one step of a thread.     *)
(*                                                                         *)
(* The sender sends frames of Lens[1], Lens[2], ... packets; packets have  *)
(* absolute indices 0, 1, ..., and their sequence numbers and picture ids  *)
(* start at FirstSeq and FirstPid and wrap.  Packets and NACKs are         *)
(* reordered, duplicated by NACKs that are repeated, and MaxLosses of them *)
(* lost; copies of one that are on the way together are lost together.     *)
(***************************************************************************)
EXTENDS NackModule, PacketBuffer, FrameBuffer

CONSTANTS Lens,             \* the number of packets of each frame
          FirstSeq,         \* the sequence number of the first packet
          kPicIdLength,     \* the number of picture ids
          FirstPid,         \* the picture id of the first frame
          MaxReorder,       \* bound: older packets one may overtake
          MaxLosses,        \* bound: packets and NACKs that are lost
          MaxDecodeErrors   \* bound: frames the decoder refuses

ASSUME StreamAssumption ==
  /\ \A f \in DOMAIN Lens : Lens[f] \in Nat \ {0}
  /\ FirstSeq \in 0..(SeqSpace - 1) /\ FirstPid \in 0..(kPicIdLength - 1)
  /\ kPicIdLength \in Nat \ {0} /\ SeqSpace % kPicIdLength = 0
  /\ MaxReorder \in Nat /\ MaxLosses \in Nat /\ MaxDecodeErrors \in Nat

VARIABLES
  sent,       \* the frames sent so far
  keys,       \* those of them that are keyframes
  keyRequest, \* the sender has been asked for a keyframe
  wire,       \* the packets on the way
  nacks,      \* the packets whose NACK is on the way
  losses,     \* the packets and NACKs lost so far
  nack,       \* nack_module_
  buffer,     \* packet_buffer_
  finder,     \* reference_finder_: last_unwrap_, cleared_to_seq_num_
  fb,         \* frame_buffer_
  seqOfPid,   \* last_seq_num_for_pic_id_
  hasFrame,   \* has_received_frame_
  net,        \* the network thread
  dec,        \* the decoding thread
  errors,     \* the frames the decoder refused so far
  past        \* what happened, for the properties: the packets received,
              \* the first of them (start), the newest when the NACK list
              \* overflowed (gaveUp), the NACKs per missing packet (asked),
              \* those asked for again while a NACK or its answer was on the way
              \* (early), the frames given to the decoder (decoded), whether the packet
              \* buffer was emptied because it was full, and the packets
              \* that it dropped or refused before they were of use (lost)

network == <<sent, keys, wire, nacks, losses>>
vars == <<network, keyRequest, nack, buffer, finder, fb, seqOfPid, hasFrame,
          net, dec, errors, past>>

Frames == 1..Len(Lens)
FirstOf(f) == FoldLeft(LAMBDA n, g : n + Lens[g], 0, [g \in 1..(f - 1) |-> g])
LastOf(f) == FirstOf(f) + Lens[f] - 1
PacketsOf(f) == FirstOf(f)..LastOf(f)
Packets == 0..LastOf(Len(Lens))
FrameOf(i) == CHOOSE f \in Frames : i \in PacketsOf(f)
SeqNum(i) == (FirstSeq + i) % SeqSpace
IndexOf(s) == CHOOSE i \in Packets : SeqNum(i) = s
Packet(i) == [seq |-> SeqNum(i), begin |-> i = FirstOf(FrameOf(i)),
              end |-> i = LastOf(FrameOf(i)), frame |-> FrameOf(i)]

Idle == [step |-> "idle", packet |-> 0, frames |-> <<>>, pid |-> None]
Waiting == [step |-> "wait", frame |-> None]

Init ==
  /\ sent = 0 /\ keys = {} /\ keyRequest = FALSE
  /\ wire = {} /\ nacks = {} /\ losses = 0
  /\ nack = NewNackModule /\ buffer = NewPacketBuffer
  /\ finder = [unwrap |-> None, cleared |-> None]
  /\ fb = NewFrameBuffer /\ seqOfPid = [p \in {} |-> 0]
  /\ hasFrame = FALSE /\ net = Idle /\ dec = Waiting /\ errors = 0
  /\ past = [received |-> {}, start |-> None, gaveUp |-> -1,
             asked |-> [i \in Packets |-> 0], early |-> {}, lost |-> {}, decoded |-> <<>>,
             emptied |-> FALSE]

-----------------------------------------------------------------------------
(* The sender and the network.  The first frame is a keyframe, and so is  *)
(* one that the receiver asked for, unless the request was lost.          *)
SendFrame ==
  /\ sent < Len(Lens)
  /\ sent' = sent + 1
  /\ wire' = wire \cup PacketsOf(sent + 1)
  /\ \E key \in IF sent = 0 THEN {TRUE} ELSE {FALSE, keyRequest} :
       /\ keys' = IF key THEN keys \cup {sent + 1} ELSE keys
       /\ keyRequest' = (keyRequest /\ ~key)
  /\ UNCHANGED <<nacks, losses, nack, buffer, finder, fb, seqOfPid, hasFrame,
                 net, dec, errors, past>>

LosePacket(i) ==
  /\ losses < MaxLosses /\ i \in wire
  /\ losses' = losses + 1 /\ wire' = wire \ {i}
  /\ UNCHANGED <<sent, keys, nacks, keyRequest, nack, buffer, finder, fb,
                 seqOfPid, hasFrame, net, dec, errors, past>>

LoseNack(i) ==
  /\ losses < MaxLosses /\ i \in nacks
  /\ losses' = losses + 1 /\ nacks' = nacks \ {i}
  /\ UNCHANGED <<sent, keys, wire, keyRequest, nack, buffer, finder, fb,
                 seqOfPid, hasFrame, net, dec, errors, past>>

Retransmit(i) ==
  /\ i \in nacks
  /\ nacks' = nacks \ {i} /\ wire' = wire \cup {i}
  /\ UNCHANGED <<sent, keys, losses, keyRequest, nack, buffer, finder, fb,
                 seqOfPid, hasFrame, net, dec, errors, past>>

(* SendNack of a batch of sequence numbers, and the NACKs counted. *)
SendNack(batch) == nacks' = nacks \cup {IndexOf(s) : s \in batch}
CountNacks(asked, batch) ==
  [i \in Packets |-> IF SeqNum(i) \in batch THEN asked[i] + 1 ELSE asked[i]]

-----------------------------------------------------------------------------
(* The network thread.  OnReceivedPayloadData: first the NACK module ... *)
ReceivePacket(i) ==
  LET key == Packet(i).begin /\ FrameOf(i) \in keys
      r == OnReceivedPacket(nack, SeqNum(i), key)
  IN  /\ net.step = "idle" /\ i \in wire
      /\ Cardinality({j \in wire : j < i}) <= MaxReorder
      /\ wire' = wire \ {i}
      /\ nack' = r.nack
      /\ SendNack(r.batch)
      /\ keyRequest' = (keyRequest \/ r.keyframe)
      /\ past' = [past EXCEPT
                    !.received = @ \cup {i},
                    !.start = IF @ = None THEN i ELSE @,
                    !.gaveUp = IF r.keyframe THEN i ELSE @,
                    !.asked = [CountNacks(@, r.batch) EXCEPT ![i] = 0],
                    !.early = @ \ {i}]
      /\ net' = [net EXCEPT !.step = "insert", !.packet = i]
      /\ UNCHANGED <<sent, keys, losses, buffer, finder, fb, seqOfPid,
                     hasFrame, dec, errors>>

(* The packets of unfinished frames that b held and c does not. *)
Wiped(b, c) == {i \in Packets : /\ Holds(b, SeqNum(i))
                                /\ ~Slot(b, SeqNum(i)).created
                                /\ ~Holds(c, SeqNum(i))}

(* ... then the packet buffer.  When it is full it drops what it holds, and *)
(* may then refuse packets that are still needed.                          *)
InsertReceived ==
  LET i == net.packet
      r == InsertPacket(buffer, Packet(i))
      emptied == buffer.firstReceived /\ ~r.buffer.firstReceived
      refused == {i} \ {j \in Packets : Holds(r.buffer, SeqNum(j))}
  IN  /\ net.step = "insert"
      /\ buffer' = r.buffer
      /\ past' = [past EXCEPT
                    !.emptied = @ \/ emptied,
                    !.lost = @ \cup Wiped(buffer, r.buffer) \cup
                      (IF past.emptied THEN refused ELSE {})]
      /\ net' = IF r.frames = <<>> THEN Idle
                ELSE [Idle EXCEPT !.step = "frames", !.frames = r.frames]
      /\ UNCHANGED <<network, keyRequest, nack, finder, fb, seqOfPid,
                     hasFrame, dec, errors>>

(* UnwrapPictureId *)
UnwrapPictureId(last, pid) ==
  LET low == last % kPicIdLength
      diff == MinDiff(low, pid, kPicIdLength)
  IN  IF AheadOf(pid, low, kPicIdLength) THEN (last + diff) % SeqSpace
      ELSE (last - diff) % SeqSpace

(* ManageFrame drops a frame that is older than what was decoded, or whose *)
(* first packet has left the packet buffer since (GetCodecHeader).         *)
Unmanaged(f) ==
  \/ /\ finder.cleared # None
     /\ AheadOf(finder.cleared, f.first, SeqSpace)
  \/ ~Holds(buffer, f.first)

RestOfFrames(pid) ==
  IF pid # None THEN [net EXCEPT !.step = "continuous", !.pid = pid]
  ELSE IF Len(net.frames) = 1 THEN Idle
  ELSE [net EXCEPT !.step = "frames", !.frames = Tail(@), !.pid = None]

(* Frames are destroyed and give their packets back. *)
ReturnFrames(b, S) == FoldLeft(ReturnFrame, b, SetToSeq(S))

(* OnReceivedFrame, ManageFrame, OnCompleteFrame and InsertFrame.  A frame *)
(* that is refused, and those that InsertFrame clears, are destroyed.      *)
OnReceivedFrame ==
  LET f == Head(net.frames)
      key == f.frame \in keys
      raw == (FirstPid + f.frame - 1) % kPicIdLength
      pid == IF finder.unwrap = None THEN raw
             ELSE UnwrapPictureId(finder.unwrap, raw)
      refs == IF key THEN {} ELSE {(pid - 1) % SeqSpace}
      r == InsertFrame(fb, [pid |-> pid, refs |-> refs,
                            timestamp |-> f.frame, object |-> f])
      full == fb.buffered >= kMaxFramesBuffered
      destroyed == {g.object : g \in InsertDestroys(fb, r.buffer)}
  IN  /\ net.step = "frames"
      /\ hasFrame' = TRUE
      /\ keyRequest' = (keyRequest \/ (~hasFrame /\ ~key))
      /\ IF Unmanaged(f)
         THEN /\ buffer' = ReturnFrame(buffer, f)
              /\ net' = RestOfFrames(None)
              /\ past' = [past EXCEPT !.lost =
                   IF Holds(buffer, f.first) THEN @
                   ELSE @ \cup PacketsOf(f.frame)]
              /\ UNCHANGED <<finder, fb, seqOfPid>>
         ELSE /\ finder' = [finder EXCEPT !.unwrap = pid]
              /\ seqOfPid' = [p \in DOMAIN seqOfPid \cup {pid} |->
                                IF p = pid THEN f.last ELSE seqOfPid[p]]
              /\ fb' = r.buffer
              /\ buffer' = ReturnFrames(buffer, destroyed \cup
                              (IF r.refused THEN {f} ELSE {}))
              /\ past' = [past EXCEPT !.lost = @ \cup
                   UNION {PacketsOf(g.frame) :
                            g \in destroyed \cup (IF full THEN {f} ELSE {})}]
              /\ net' = RestOfFrames(r.continuous)
      /\ UNCHANGED <<network, nack, dec, errors>>

(* FrameContinuous: nothing before the last continuous frame is missed. *)
FrameContinuous ==
  /\ net.step = "continuous"
  /\ nack' = IF net.pid \in DOMAIN seqOfPid
             THEN ClearUpTo(nack, seqOfPid[net.pid]) ELSE nack
  /\ net' = RestOfFrames(None)
  /\ UNCHANGED <<network, keyRequest, buffer, finder, fb, seqOfPid, hasFrame,
                 dec, errors, past>>

-----------------------------------------------------------------------------
(* The packets of a batch that, or whose NACKs, are on their way. *)
Underway(batch) == {IndexOf(s) : s \in batch} \cap (nacks \cup wire)

(* Fault: the batch is taken from the list and not sent. *)
ProcessSilently(due) ==
  LET r == GetNackBatch(nack, due)
  IN  /\ due # {} /\ due \subseteq DOMAIN nack.list
      /\ nack' = r.nack
      /\ past' = [past EXCEPT !.asked = CountNacks(@, r.batch),
                              !.early = @ \cup Underway(r.batch)]
      /\ UNCHANGED <<network, keyRequest, buffer, finder, fb, seqOfPid,
                     hasFrame, net, dec, errors>>

(* The process thread.  The entries of due were sent rtt_ms_ ago, which is *)
(* a guess until the first report and an estimate after it: the NACKs or   *)
(* their answers may still be on their way.                                *)
Process(due) ==
  LET r == GetNackBatch(nack, due)
  IN  /\ due # {} /\ due \subseteq DOMAIN nack.list
      /\ nack' = r.nack
      /\ SendNack(r.batch)
      /\ past' = [past EXCEPT !.asked = CountNacks(@, r.batch),
                              !.early = @ \cup Underway(r.batch)]
      /\ UNCHANGED <<sent, keys, wire, losses, keyRequest, buffer, finder, fb,
                     seqOfPid, hasFrame, net, dec, errors>>

-----------------------------------------------------------------------------
(* The decoding thread.  NextFrame settles on a frame, lets the lock go    *)
(* while it waits until the frame is due, and may be woken to choose       *)
(* again ...                                                               *)
ChooseFrame(p) ==
  /\ dec.step \in {"wait", "chosen"} /\ p \in Decodable(fb) \ {fb.next}
  /\ fb' = SetNext(fb, p)
  /\ dec' = [Waiting EXCEPT !.step = "chosen"]
  /\ UNCHANGED <<network, keyRequest, nack, buffer, finder, seqOfPid,
                 hasFrame, net, errors, past>>

(* ... takes what it settled on, if the buffer was not cleared, and has it *)
(* decoded, which may fail.  The frames passed over give their packets     *)
(* back.                                                                   *)
TakeFrame(ok) ==
  LET f == fb.frames[fb.next].frame
  IN  /\ dec.step = "chosen"
      /\ ok \/ errors < MaxDecodeErrors
      /\ IF fb.next = None
         THEN dec' = Waiting /\ UNCHANGED <<errors, fb, buffer, past>>
         ELSE /\ errors' = IF ok THEN errors ELSE errors + 1
              /\ dec' = [step |-> IF ok THEN "decoded" ELSE "return",
                         frame |-> f]
              /\ fb' = TakeNext(fb)
              /\ buffer' = ReturnFrames(buffer,
                              {g.object : g \in DroppedFrames(fb)})
              /\ past' = [past EXCEPT !.decoded = Append(@, f.object.frame)]
      /\ UNCHANGED <<network, keyRequest, nack, finder, seqOfPid, hasFrame,
                     net>>

(* FrameDecoded: the packets of the frame and all before it are not needed *)
(* any more, in the packet buffer ...                                      *)
FrameDecoded ==
  LET pid == dec.frame.pid
      known == pid \in DOMAIN seqOfPid
      b == IF known THEN ClearTo(buffer, seqOfPid[pid]) ELSE buffer
  IN  /\ dec.step = "decoded"
      /\ seqOfPid' = [p \in {q \in DOMAIN seqOfPid :
                               known => AheadOf(q, pid, SeqSpace)}
                      |-> seqOfPid[p]]
      /\ buffer' = b
      /\ dec' = [dec EXCEPT !.step = IF known THEN "finder" ELSE "return"]
      /\ past' = [past EXCEPT !.lost = @ \cup
                    {i \in Wiped(buffer, b) :
                       i > LastOf(dec.frame.object.frame)}]
      /\ UNCHANGED <<network, keyRequest, nack, finder, fb, hasFrame, net,
                     errors>>

(* ... and in the reference finder, and the frame is destroyed.  Only the  *)
(* destructor runs after a frame that was not decoded.                     *)
DestroyFrame ==
  /\ dec.step \in {"finder", "return"}
  /\ finder' = IF dec.step = "finder"
               THEN [finder EXCEPT !.cleared = dec.frame.object.last]
               ELSE finder
  /\ buffer' = ReturnFrame(buffer, dec.frame.object)
  /\ dec' = Waiting
  /\ UNCHANGED <<network, keyRequest, nack, fb, seqOfPid, hasFrame, net,
                 errors, past>>

(* NextFrame found nothing for kMaxWaitForFrameMs although packets came:   *)
(* no packet is on its way for so long.                                    *)
NoFrame ==
  /\ dec.step = "wait" /\ Decodable(fb) = {}
  /\ past.received # {} /\ ~keyRequest
  /\ wire = {} /\ net.step = "idle"
  /\ keyRequest' = TRUE
  /\ UNCHANGED <<network, nack, buffer, finder, fb, seqOfPid, hasFrame, net,
                 dec, errors, past>>

-----------------------------------------------------------------------------
NetworkThread == \/ \E i \in Packets : ReceivePacket(i)
                 \/ InsertReceived
                 \/ OnReceivedFrame
                 \/ FrameContinuous
DecodingThread == \/ \E p \in SeqNums : ChooseFrame(p)
                  \/ \E ok \in BOOLEAN : TakeFrame(ok)
                  \/ FrameDecoded
                  \/ DestroyFrame
ProcessThread == \E due \in SUBSET DOMAIN nack.list : Process(due)
Lose == \E i \in Packets : LosePacket(i) \/ LoseNack(i)
Network == SendFrame \/ Lose \/ \E i \in Packets : Retransmit(i)

Next == \/ NetworkThread \/ DecodingThread \/ NoFrame \/ ProcessThread
        \/ Network
Spec == Init /\ [][Next]_vars

(* Every thread keeps running, the sender sends on, and what is not lost   *)
(* arrives: weak fairness of each, with the condition under which it can   *)
(* run written out.  NextFrame chooses again only for a new frame, so a    *)
(* chosen frame is taken in the end.                                       *)
Fairness ==
  /\ []<>(net = Idle /\ wire = {}) \/ []<><<net' # net>>_vars
  /\ []<>(dec = Waiting /\ Decodable(fb) = {}) \/ []<><<dec' # dec>>_vars
  /\ []<>(DOMAIN nack.list = {})
     \/ []<><<nack' # nack /\ net' = net>>_vars
  /\ []<>(nacks = {}) \/ []<><<nacks' # nacks /\ losses' = losses>>_vars
  /\ []<>(sent = Len(Lens)) \/ []<><<sent' # sent>>_vars
FairSpec == Spec /\ Fairness

-----------------------------------------------------------------------------
(* The NACK list, the packet buffer and the frame buffer keep their limits *)
(* and their bookkeeping: no entry with as many NACKs as are allowed, each *)
(* packet in its slot, the count of buffered frames that of the frames in  *)
(* the map, no more references missing to continuity than to decodability. *)
TypeOK ==
  /\ sent \in 0..Len(Lens) /\ keys \subseteq 1..sent
  /\ keyRequest \in BOOLEAN /\ hasFrame \in BOOLEAN
  /\ wire \subseteq Packets /\ nacks \subseteq Packets
  /\ losses \in 0..MaxLosses /\ errors \in 0..MaxDecodeErrors
  /\ NackModuleTypeOK(nack) /\ PacketBufferTypeOK(buffer)
  /\ FrameBufferTypeOK(fb)
  /\ net.step \in {"idle", "insert", "frames", "continuous"}
  /\ dec.step \in {"wait", "chosen", "decoded", "finder", "return"}

(* The packets of frame f and of those it depends on, from its keyframe. *)
Chain(f) ==
  LET key == CHOOSE k \in keys : k <= f /\ \A j \in keys : j <= f => j <= k
  IN  UNION {PacketsOf(g) : g \in key..f}
Received(f) == Chain(f) \subseteq past.received

(* A gap is noticed when a newer packet comes, after the first one.  The   *)
(* receiver gives up what is too old, what a full list held, and what no   *)
(* frame from a newer keyframe on, or after a complete one, needs.         *)
Newest == CHOOSE i \in past.received : \A j \in past.received : j <= i
Noticed(i) == past.received # {} /\ i > past.start /\ i < Newest
GivenUp(i) ==
  \/ i <= past.gaveUp
  \/ i < Newest - kMaxPacketAge
  \/ \E f \in 1..sent : LastOf(f) > i /\ Received(f)
  \/ \E f \in keys : FirstOf(f) > i /\ FirstOf(f) \in past.received

(* No gap is forgotten: a packet that is missing stays on the NACK list    *)
(* until it has been asked for kMaxNackRetries times or is not needed any  *)
(* more, whatever the order of packets, frames and the wrap of numbers     *)
(* (OnReceivedPacket, AddPacketsToNack, ClearUpTo, GetNackBatch).          *)
MissingIsAskedFor ==
  \A i \in Packets \ past.received :
    Noticed(i) => \/ SeqNum(i) \in DOMAIN nack.list
                  \/ past.asked[i] >= kMaxNackRetries
                  \/ GivenUp(i)

(* A frame that FindFrames hands out passes the checks of RtpFrameObject,  *)
(* and is one frame of the sender, all of it and in order, even where      *)
(* packets of several frames share slots.  A frame of as many packets as   *)
(* the buffer has slots is excepted: GetBitstream copies nothing of it.    *)
FramesWhole ==
  \A k \in DOMAIN net.frames :
    LET f == net.frames[k]
    IN  f.check /\ (Lens[f.frame] < f.size =>
                      /\ f.first = SeqNum(FirstOf(f.frame))
                      /\ f.last = SeqNum(LastOf(f.frame))
                      /\ f.bitstream = [i \in 1..Lens[f.frame] |-> f.frame])

(* The decoder gets every frame once, in order, and right after the frame  *)
(* it refers to, although NextFrame decides under one lock what it takes   *)
(* under another, and frames are inserted in between.                      *)
DecodesInOrder ==
  \A k \in DOMAIN past.decoded :
    /\ past.decoded[k] \notin keys =>
         k > 1 /\ past.decoded[k - 1] = past.decoded[k] - 1
    /\ k > 1 => past.decoded[k - 1] < past.decoded[k]

(* When the threads have nothing to do, every frame that has arrived with  *)
(* all it depends on has been decoded or passed by: neither InsertPacket   *)
(* nor InsertFrame overlooks one.  Excepted are the packets that a full    *)
(* packet buffer dropped, that ClearTo removed because they shared a slot  *)
(* with an older number, and frames whose first packet ClearTo so removed  *)
(* before ManageFrame looked at it, that a full frame buffer refused, or   *)
(* that a jump of the picture id cleared.                                  *)
AtRest == net.step = "idle" /\ dec.step = "wait" /\ Decodable(fb) = {}
PassedBy(f) == fb.lastDecoded # None /\ fb.lastTimestamp >= f
NothingLeftBehind ==
  AtRest => \A f \in 1..sent :
              Received(f) => PassedBy(f) \/ Chain(f) \cap past.lost # {}

(* Loss is repaired: as long as fewer packets and NACKs are lost than are  *)
(* retried, every frame is decoded or passed by in the end, unless a       *)
(* packet it needs was the first or the last one, was given up, or was     *)
(* dropped on the way to the decoder.  Process may use up the retries of a *)
(* packet while a NACK or an answer is on its way, and losing that one is  *)
(* then not repaired; a packet that was never asked for too early is.      *)
RetriesUsedUpEarly(i) ==
  i \in past.early /\ past.asked[i] >= kMaxNackRetries
EveryFrameDecoded ==
  \/ <>(losses >= kMaxNackRetries)
  \/ []<>(\A f \in 1..sent :
            \/ PassedBy(f)
            \/ Chain(f) \cap past.lost # {}
            \/ \E i \in Chain(f) \ past.received :
                 ~Noticed(i) \/ GivenUp(i) \/ RetriesUsedUpEarly(i))
=============================================================================

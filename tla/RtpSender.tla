----------------------------- MODULE RtpSender -----------------------------
(***************************************************************************)
(* The paced send path of one RTP video stream: RTPSender                  *)
(* (modules/rtp_rtcp/source/rtp_sender.cc) with its packet history and the *)
(* PacedSender (modules/pacing/paced_sender.cc) in front of the transport. *)
(*                                                                         *)
(* Three threads run: the encoder thread numbers, stores and enqueues      *)
(* packets; the pacer thread takes them from its queue, releases its lock, *)
(* and calls back TimeToSendPacket or TimeToSendPadding; the network       *)
(* thread handles NACKs.  A step is what happens under one lock            *)
(* (send_critsect_, the history's or the pacer's critsect_).               *)
(***************************************************************************)
EXTENDS RtpPacketHistory, Sequences, SequencesExt

CONSTANTS
  RtxModes,        \* The RTX configurations: sets of kRtx flags, {} is off.
  RtxMappings,     \* Whether the stream's payload type has an RTX one.
  StorageTypes,    \* The storage types the packetizer asks for.
  PaddingRequest,  \* The padding sizes in bytes the pacer asks for.
  HeaderBytes,     \* Bytes of the RTP header; the rest is payload.
  PaddingBytes,    \* Bytes in one padding packet (kMaxPaddingLength, 224).
  MinResendTime,   \* 5 + avg_rtt, in ms.
  FirstSeq,        \* The random first sequence number, not 0.
  MaxNumbers,      \* Bound on the sequence numbers used on the media SSRC.
  MaxNacks,        \* Bound on the NACK messages received.
  MaxNackLength,   \* Bound on the sequence numbers in one NACK.
  MaxCalls         \* Bound on the calls of the application.

ASSUME SenderAssumption ==
  /\ FirstSeq \in SeqNum \ {0}
  /\ MaxNumbers \in Nat /\ MaxNumbers < SeqSpace \div 2
  /\ RtxModes \subseteq SUBSET {"kRtxRetransmitted", "kRtxRedundantPayloads"}
  /\ RtxMappings \subseteq BOOLEAN
  /\ StorageTypes \subseteq StorageType
  /\ {MinResendTime, HeaderBytes, PaddingBytes} \subseteq Nat
  /\ PaddingRequest \subseteq Nat

VARIABLES
  sending_media, sequence_number, rtx,
  rtx_mapped,     \* rtx_payload_type_map_ has the payload type.
  last_packet_marker_bit, media_has_been_sent,
  encoder,        \* The encoder thread: its step and the packet in its hands.
  packet_list,    \* PacketQueue::packet_list_, oldest first.
  paused,
  packet_inserted, \* packet_counter_ > 0.
  pacer,          \* The pacer thread: its step, queue entry, packet, bytes.
  nack,           \* The network thread: the NACKs left and its packet.
  wire,           \* What the transport was given.
  numbered, markers, given_up, marked, nacks, calls
                  \* History of the run, and how much of the bounds is used.

senderVars == <<sending_media, sequence_number, rtx, rtx_mapped,
                last_packet_marker_bit, media_has_been_sent>>
pacerVars == <<packet_list, paused, packet_inserted, pacer>>
ghostVars == <<numbered, markers, given_up, marked, nacks, calls>>
allVars == <<vars, senderVars, encoder, pacerVars, nack, wire, ghostVars>>

NextSeq(s) == (s + 1) % SeqSpace
PrevSeq(s) == (s + SeqSpace - 1) % SeqSpace

(* Sequence numbers left before the bound.                                 *)
NumbersLeft == (sequence_number - FirstSeq) % SeqSpace < MaxNumbers

Idle == [step |-> "idle"]

Entry == [seq : SeqNum, capture_time_ms : Nat, retransmission : BOOLEAN]

(* Sequence numbers in the pacer's duplicate set, dupe_map_: an entry      *)
(* leaves it only in FinalizePop, together with packet_list_.              *)
QueuedSeqs == {packet_list[i].seq : i \in DOMAIN packet_list}

-----------------------------------------------------------------------------
(* PacketQueue.                                                            *)

(* Fault: among equals the entry enqueued last goes first.                 *)
BeforeNewestFirst(i, j) ==
  LET a == packet_list[i]
      b == packet_list[j]
  IN  IF a.retransmission # b.retransmission THEN a.retransmission ELSE i > j

(* Retransmissions are inserted with kNormalPriority and media with        *)
(* kLowPriority; then the older frame goes first, then the older entry.    *)
Before(i, j) ==
  LET a == packet_list[i]
      b == packet_list[j]
  IN  IF a.retransmission # b.retransmission THEN a.retransmission
      ELSE IF a.capture_time_ms # b.capture_time_ms
        THEN a.capture_time_ms < b.capture_time_ms
        ELSE i < j

TopIndex ==
  CHOOSE i \in DOMAIN packet_list :
    \A j \in DOMAIN packet_list \ {i} : Before(i, j)

(* Push refuses a number that is in the queue already.                     *)
Push(e) == IF e.seq \in QueuedSeqs THEN packet_list ELSE Append(packet_list, e)

InsertPacket(packet, retransmission) ==
  /\ packet_inserted' = TRUE
  /\ packet_list' = Push([seq |-> packet.seq,
                          capture_time_ms |-> packet.capture_time_ms,
                          retransmission |-> retransmission])

-----------------------------------------------------------------------------
(* The encoder thread: RTPSenderVideo::SendVideo, one packet at a time.    *)

(* AssignSequenceNumber; the marker ends a frame.  While no media is sent  *)
(* it refuses and the rest of the frame is dropped.                        *)
AssignSequenceNumber(marker, bytes, storage) ==
  /\ encoder.step = "idle"
  /\ sending_media
  /\ NumbersLeft
  /\ encoder' = [step |-> "numbered",
                 packet |-> [seq |-> sequence_number, size |-> bytes,
                             capture_time_ms |-> now],
                 storage |-> storage]
  /\ sequence_number' = NextSeq(sequence_number)
  /\ last_packet_marker_bit' = marker
  /\ numbered' = numbered \cup {sequence_number}
  /\ markers' = IF marker THEN markers \cup {sequence_number} ELSE markers
  /\ UNCHANGED <<vars, sending_media, rtx, rtx_mapped,
                 media_has_been_sent, pacerVars, nack, wire, given_up,
                 marked, nacks, calls>>

(* MediaEncrypt fails and SendVideo returns: the number is used up.        *)
MediaEncryptFails ==
  /\ encoder.step = "numbered"
  /\ encoder' = Idle
  /\ given_up' = given_up \cup {encoder.packet.seq}
  /\ UNCHANGED <<vars, senderVars, pacerVars, nack, wire, numbered, markers,
                 marked, nacks, calls>>

(* SendToNetwork, first half: the packet is stored before it is enqueued.  *)
StorePacket ==
  /\ encoder.step = "numbered"
  /\ PutRtpPacket(encoder.packet, encoder.storage, FALSE)
  /\ encoder' = [encoder EXCEPT !.step = "stored"]
  /\ UNCHANGED <<now, senderVars, pacerVars, nack, wire, ghostVars>>

EnqueuePacket ==
  /\ encoder.step = "stored"
  /\ InsertPacket(encoder.packet, FALSE)
  /\ encoder' = Idle
  /\ UNCHANGED <<vars, senderVars, paused, pacer, nack, wire, ghostVars>>

-----------------------------------------------------------------------------
(* The pacer thread: PacedSender::Process.                                 *)

(* Fault: the entry is removed before the send, not after it.              *)
BeginPopRemoves ==
  /\ pacer.step = "idle"
  /\ ~paused
  /\ packet_list # <<>>
  /\ pacer' = [step |-> "popped", entry |-> packet_list[TopIndex]]
  /\ packet_list' = RemoveAt(packet_list, TopIndex)
  /\ UNCHANGED <<vars, senderVars, encoder, paused, packet_inserted, nack,
                 wire, ghostVars>>

(* BeginPop, when the budget allows; the entry stays in packet_list_.      *)
BeginPop ==
  /\ pacer.step = "idle"
  /\ ~paused
  /\ packet_list # <<>>
  /\ pacer' = [step |-> "popped", entry |-> packet_list[TopIndex]]
  /\ UNCHANGED <<vars, senderVars, encoder, packet_list, paused,
                 packet_inserted, nack, wire, ghostVars>>

(* TimeToSendPacket returns true for a packet it cannot find.  Fault: it   *)
(* returns false.                                                          *)
NotFoundFails == "failed"
NotFoundResult == "done"

(* TimeToSendPacket up to the history lookup.  A packet that is not found, *)
(* or not wanted any more, counts as sent.                                 *)
FetchPacket ==
  /\ pacer.step = "popped"
  /\ LET s == pacer.entry.seq
         again == pacer.entry.retransmission
     IN  IF sending_media
           THEN /\ GetPacketAndSetSendTime(s, 0, again)
                /\ pacer' = IF FetchedPacket(s, 0, again) = NoPacket
                              THEN [pacer EXCEPT !.step = NotFoundResult]
                              ELSE [step |-> "fetched", entry |-> pacer.entry,
                                    packet |-> FetchedPacket(s, 0, again)]
                /\ UNCHANGED given_up
           ELSE /\ pacer' = [pacer EXCEPT !.step = "done"]
                /\ given_up' = given_up \cup {s}
                /\ UNCHANGED historyVars
  /\ UNCHANGED <<now, senderVars, encoder, packet_list, paused,
                 packet_inserted, nack, wire, numbered, markers,
                 marked, nacks, calls>>

(* The packets given to the transport: a media packet, and its copy over   *)
(* RTX, which carries the original sequence number.  The RTX stream's own  *)
(* numbers are left out.                                                   *)
MediaPacket(s) == [ssrc |-> "media", kind |-> "media", seq |-> s]
BuildRtxPacket(s) == [ssrc |-> "rtx", kind |-> "media", seq |-> s]

(* BuildRtxPacket returns null while no media is sent, and always for a    *)
(* payload type without an RTX payload type, as RED's is when the          *)
(* configuration gives no red_rtx_payload_type.                            *)
RtxCanBeBuilt == sending_media /\ rtx_mapped

(* PrepareAndSendPacket of a packet from the pacer's queue.                *)
TransmitPacket(transported) ==
  /\ pacer.step = "fetched"
  /\ LET s == pacer.packet.seq
         over_rtx == /\ pacer.entry.retransmission
                     /\ "kRtxRetransmitted" \in rtx
     IN  /\ over_rtx => RtxCanBeBuilt
         /\ wire' = IF ~transported THEN wire
                    ELSE IF over_rtx THEN wire \cup {BuildRtxPacket(s)}
                    ELSE wire \cup {MediaPacket(s)}
  /\ media_has_been_sent' = (media_has_been_sent \/ transported)
  /\ pacer' = [step |-> IF transported THEN "done" ELSE "failed",
               entry |-> pacer.entry]
  /\ marked' = IF transported THEN marked ELSE marked \cup {pacer.packet.seq}
  /\ UNCHANGED <<vars, sending_media, sequence_number, rtx, rtx_mapped,
                 last_packet_marker_bit, encoder, packet_list, paused,
                 packet_inserted, nack, numbered, markers, given_up,
                 nacks, calls>>

(* BuildRtxPacket returned null: the pop fails and is tried again.         *)
RtxRefused ==
  /\ pacer.step = "fetched"
  /\ pacer.entry.retransmission /\ "kRtxRetransmitted" \in rtx
  /\ ~RtxCanBeBuilt
  /\ pacer' = [step |-> "failed", entry |-> pacer.entry]
  /\ UNCHANGED <<vars, senderVars, encoder, packet_list, paused,
                 packet_inserted, nack, wire, ghostVars>>

(* FinalizePop removes the entry.                                          *)
FinalizePop ==
  /\ pacer.step = "done"
  /\ \E this_it \in DOMAIN packet_list :
       /\ packet_list[this_it] = pacer.entry
       /\ packet_list' = RemoveAt(packet_list, this_it)
  /\ pacer' = Idle
  /\ UNCHANGED <<vars, senderVars, encoder, paused, packet_inserted, nack,
                 wire, ghostVars>>

(* Fault: the entry of a failed send is dropped.                           *)
CancelPopDrops ==
  /\ pacer.step = "failed"
  /\ \E this_it \in DOMAIN packet_list :
       /\ packet_list[this_it] = pacer.entry
       /\ packet_list' = RemoveAt(packet_list, this_it)
  /\ pacer' = Idle
  /\ UNCHANGED <<vars, senderVars, encoder, paused, packet_inserted, nack,
                 wire, ghostVars>>

(* CancelPop puts the entry back into the priority queue.                  *)
CancelPop ==
  /\ pacer.step = "failed"
  /\ pacer' = Idle
  /\ UNCHANGED <<vars, senderVars, encoder, packet_list, paused,
                 packet_inserted, nack, wire, ghostVars>>

(* Padding is asked for when the queue is empty and something was sent.    *)
BeginPadding(bytes) ==
  /\ pacer.step = "idle"
  /\ ~paused
  /\ packet_list = <<>>
  /\ packet_inserted
  /\ pacer' = [step |-> "redundant", bytes_left |-> bytes]
  /\ UNCHANGED <<vars, senderVars, encoder, packet_list, paused,
                 packet_inserted, nack, wire, ghostVars>>

(* TrySendRedundantPayloads, one turn of its loop: resend over RTX the     *)
(* stored packet that fits best.                                           *)
RedundantFits ==
  /\ sending_media
  /\ "kRtxRedundantPayloads" \in rtx
  /\ pacer.bytes_left > 0
  /\ GetBestFittingPacket(pacer.bytes_left) # NoPacket

SendRedundantPayload(transported) ==
  /\ pacer.step = "redundant"
  /\ RedundantFits
  /\ transported => RtxCanBeBuilt
  /\ LET packet == GetBestFittingPacket(pacer.bytes_left)
     IN  IF transported
           THEN /\ wire' = wire \cup {BuildRtxPacket(packet.seq)}
                /\ pacer' = [pacer EXCEPT !.bytes_left =
                                             @ - (packet.size - HeaderBytes)]
                /\ media_has_been_sent' = TRUE
           ELSE /\ pacer' = [pacer EXCEPT !.step = "padding"]
                /\ UNCHANGED <<wire, media_has_been_sent>>
  /\ UNCHANGED <<vars, sending_media, sequence_number, rtx, rtx_mapped,
                 last_packet_marker_bit, encoder, packet_list, paused,
                 packet_inserted, nack, ghostVars>>

RedundantDone ==
  /\ pacer.step = "redundant"
  /\ ~RedundantFits
  /\ pacer' = [pacer EXCEPT !.step = "padding"]
  /\ UNCHANGED <<vars, senderVars, encoder, packet_list, paused,
                 packet_inserted, nack, wire, ghostVars>>

(* Fault: the marker bit is not looked at.                                 *)
MayPadAnywhere ==
  /\ sending_media
  /\ pacer.bytes_left > 0
  /\ rtx # {} => media_has_been_sent

(* SendPadData, one turn of its loop.  Without RTX padding takes media     *)
(* sequence numbers and is only allowed after the last packet of a frame;  *)
(* over RTX it may only follow media (no extension with a send time or a   *)
(* transport-wide number is registered).                                   *)
MayPad ==
  /\ sending_media
  /\ pacer.bytes_left > 0
  /\ IF rtx = {} THEN last_packet_marker_bit ELSE media_has_been_sent

SendPadData(transported) ==
  /\ pacer.step = "padding"
  /\ MayPad
  /\ IF rtx = {}
       THEN /\ NumbersLeft
            /\ sequence_number' = NextSeq(sequence_number)
            /\ wire' = IF transported
                         THEN wire \cup {[ssrc |-> "media", kind |-> "padding",
                                          seq |-> sequence_number]}
                         ELSE wire
       ELSE UNCHANGED <<sequence_number, wire>>
  /\ pacer' = IF transported
                THEN [pacer EXCEPT !.bytes_left = @ - PaddingBytes]
                ELSE Idle
  /\ UNCHANGED <<vars, sending_media, rtx, rtx_mapped, last_packet_marker_bit,
                 media_has_been_sent, encoder, packet_list, paused,
                 packet_inserted, nack, ghostVars>>

PaddingDone ==
  /\ pacer.step = "padding"
  /\ ~MayPad \/ (rtx = {} /\ ~NumbersLeft)
  /\ pacer' = Idle
  /\ UNCHANGED <<vars, senderVars, encoder, packet_list, paused,
                 packet_inserted, nack, wire, ghostVars>>

-----------------------------------------------------------------------------
(* The network thread: OnReceivedNack.                                     *)

(* What a receiver can miss: a number below one it has seen.               *)
Missing(s) ==
  \E w \in wire : w.ssrc = "media" /\ s \in numbered /\ s # w.seq
                  /\ (w.seq - s) % SeqSpace < SeqSpace \div 2

OnReceivedNack(list) ==
  /\ nack.step = "idle"
  /\ nacks < MaxNacks
  /\ store
  /\ \A i \in DOMAIN list : Missing(list[i])
  /\ nack' = [step |-> "next", list |-> list]
  /\ nacks' = nacks + 1
  /\ UNCHANGED <<vars, senderVars, encoder, pacerVars, wire, numbered,
                 markers, given_up, marked, calls>>

(* ReSendPacket up to the retransmission rate limiter.  A refusal by the   *)
(* limiter drops the rest of the NACK.                                     *)
ReSendPacket(limiter_allows) ==
  /\ nack.step = "next"
  /\ nack.list # <<>>
  /\ LET s == Head(nack.list)
         packet == FetchedPacket(s, MinResendTime, TRUE)
     IN  /\ GetPacketAndSetSendTime(s, MinResendTime, TRUE)
         /\ marked' = IF packet # NoPacket /\ Unsent(FindSeqNum(s))
                        THEN marked \cup {s} ELSE marked
         /\ \/ /\ packet = NoPacket
               /\ nack' = [nack EXCEPT !.list = Tail(@)]
            \/ /\ packet # NoPacket
               /\ nack' = IF limiter_allows
                            THEN [step |-> "insert", list |-> Tail(nack.list),
                                  packet |-> packet]
                            ELSE Idle
  /\ UNCHANGED <<now, senderVars, encoder, pacerVars, wire, numbered,
                 markers, given_up, nacks, calls>>

EnqueueRetransmission ==
  /\ nack.step = "insert"
  /\ InsertPacket(nack.packet, TRUE)
  /\ nack' = [step |-> "next", list |-> nack.list]
  /\ UNCHANGED <<vars, senderVars, encoder, paused, pacer, wire, ghostVars>>

NackDone ==
  /\ nack.step = "next"
  /\ nack.list = <<>>
  /\ nack' = Idle
  /\ UNCHANGED <<vars, senderVars, encoder, pacerVars, wire, ghostVars>>

-----------------------------------------------------------------------------
(* Calls from the application.                                             *)

SetSendingMediaStatus(enabled) ==
  /\ calls < MaxCalls
  /\ calls' = calls + 1
  /\ sending_media' = enabled
  /\ UNCHANGED <<vars, sequence_number, rtx, rtx_mapped,
                 last_packet_marker_bit, media_has_been_sent, encoder,
                 pacerVars, nack, wire, numbered, markers, given_up,
                 marked, nacks>>

SetPaused(p) ==
  /\ calls < MaxCalls
  /\ calls' = calls + 1
  /\ paused' = p
  /\ UNCHANGED <<vars, senderVars, encoder, packet_list, packet_inserted,
                 pacer, nack, wire, numbered, markers, given_up,
                 marked, nacks>>

Clock ==
  /\ Tick
  /\ UNCHANGED <<senderVars, encoder, pacerVars, nack, wire, ghostVars>>

(* The stream is set up with storing on; the first numbers are random and  *)
(* not 0.                                                                  *)
Init ==
  /\ store = TRUE
  /\ size \in NumberToStore
  /\ stored_packets = [i \in 0 .. size - 1 |-> EmptySlot]
  /\ prev_index = 0
  /\ now = 1
  /\ sending_media = TRUE
  /\ sequence_number = FirstSeq
  /\ rtx \in RtxModes
  /\ rtx_mapped \in RtxMappings
  /\ last_packet_marker_bit = FALSE
  /\ media_has_been_sent = FALSE
  /\ encoder = Idle
  /\ packet_list = <<>>
  /\ paused = FALSE
  /\ packet_inserted = FALSE
  /\ pacer = Idle
  /\ nack = Idle
  /\ wire = {}
  /\ numbered = {}
  /\ markers = {}
  /\ given_up = {}
  /\ marked = {}
  /\ nacks = 0
  /\ calls = 0

NackLists == UNION {[1 .. n -> SeqNum] : n \in 1 .. MaxNackLength}

EncoderStep ==
  \/ \E marker \in BOOLEAN, bytes \in PacketSize, storage \in StorageTypes :
       AssignSequenceNumber(marker, bytes, storage)
  \/ MediaEncryptFails
  \/ StorePacket
  \/ EnqueuePacket

PacerStep ==
  \/ BeginPop
  \/ FetchPacket
  \/ \E transported \in BOOLEAN : TransmitPacket(transported)
  \/ RtxRefused
  \/ FinalizePop
  \/ CancelPop
  \/ \E bytes \in PaddingRequest : BeginPadding(bytes)
  \/ \E transported \in BOOLEAN : SendRedundantPayload(transported)
  \/ RedundantDone
  \/ \E transported \in BOOLEAN : SendPadData(transported)
  \/ PaddingDone

NetworkStep ==
  \/ \E list \in NackLists : OnReceivedNack(list)
  \/ \E limiter_allows \in BOOLEAN : ReSendPacket(limiter_allows)
  \/ EnqueueRetransmission
  \/ NackDone

Next ==
  \/ EncoderStep
  \/ PacerStep
  \/ NetworkStep
  \/ \E enabled \in BOOLEAN : SetSendingMediaStatus(enabled)
  \/ \E p \in BOOLEAN : SetPaused(p)
  \/ Clock

Spec == Init /\ [][Next]_allVars

(* The process thread keeps calling PacedSender::Process, whose budget is  *)
(* refilled with time, and the transport accepts a packet it is offered    *)
(* again and again.  Nothing is assumed of the encoder, the remote         *)
(* receiver or the application.                                            *)
Fairness ==
  /\ WF_allVars(PacerStep)
  /\ SF_allVars(TransmitPacket(TRUE))

FairSpec == Spec /\ Fairness

-----------------------------------------------------------------------------
(* Properties.                                                             *)

(* The types of the members of RTPSender and of the pacer's queue.         *)
TypeOK ==
  /\ HistoryTypeOK
  /\ sequence_number \in SeqNum
  /\ encoder.step \in {"idle", "numbered", "stored"}
  /\ encoder.step # "idle" => encoder.packet \in Packet
  /\ packet_list \in Seq(Entry)
  /\ pacer.step \in {"idle", "popped", "fetched", "done", "failed",
                     "redundant", "padding"}
  /\ pacer.step \in {"popped", "fetched", "done", "failed"} =>
       pacer.entry \in Range(packet_list)
  /\ nack.step \in {"idle", "next", "insert"}

EncoderSeqs == IF encoder.step = "idle" THEN {} ELSE {encoder.packet.seq}

(* No numbered packet disappears between the encoder and the transport:    *)
(* it is in the encoder's hands, in the pacer's queue or on the wire.      *)
(* TimeToSendPacket reports a packet it cannot find as sent, so this rests *)
(* on the packet being stored before it is enqueued, on the history        *)
(* growing, on the dupe set and on failed pops.  The exceptions are        *)
(* encryption failures, packets the pacer reached while sending was off, a *)
(* history grown to its capacity, and packets marked as sent without       *)
(* having been, by a failed send or a NACK: these may go out as a          *)
(* retransmission only, or be overwritten in the history.                  *)
NoMediaLost ==
  size < kMaxCapacity =>
    \A s \in numbered \ given_up :
      \/ s \in EncoderSeqs \cup QueuedSeqs
      \/ MediaPacket(s) \in wire
      \/ s \in marked /\ (BuildRtxPacket(s) \in wire \/ ~HasRtpPacket(s))

(* The comment in PutRtpPacket: "If index we're about to overwrite         *)
(* contains a packet that has not yet been sent (probably pending in paced *)
(* sender), we need to expand the buffer."  A packet that waits in the     *)
(* pacer's queue for its first transmission, and that no step of the pacer *)
(* is working on, is in the history.                                       *)
PendingPacketsKept ==
  size < kMaxCapacity /\ pacer.step = "idle" =>
    \A e \in Range(packet_list) :
      ~e.retransmission /\ MediaPacket(e.seq) \notin wire
        => HasRtpPacket(e.seq)

(* Padding that takes a media sequence number never comes between two      *)
(* packets of a frame ("we can't send padding in the middle of frames").   *)
PaddingOnlyBetweenFrames ==
  \A w \in wire :
    w.ssrc = "media" /\ w.kind = "padding" /\ PrevSeq(w.seq) \in numbered
      => PrevSeq(w.seq) \in markers

(* Media leaves in sequence number order: when a packet is transmitted for *)
(* the first time, no packet numbered before it still waits in the queue   *)
(* for its first transmission, whatever the failed attempts and            *)
(* retransmissions in between.                                             *)
FirstTransmissionsInOrder ==
  [][\A w \in wire' \ wire :
       w = MediaPacket(w.seq) /\ ~pacer.entry.retransmission =>
         \A e \in Range(packet_list) :
           e.seq # w.seq /\ (w.seq - e.seq) % SeqSpace < SeqSpace \div 2
             => e.retransmission]_allVars

(* A retransmission BuildRtxPacket refuses for good: its payload type has  *)
(* no RTX payload type, and the history still holds the packet.  It goes   *)
(* before all media, fails every time and is put back.                     *)
RefusedForGood(e) ==
  /\ e.retransmission
  /\ "kRtxRetransmitted" \in rtx /\ ~rtx_mapped
  /\ sending_media
  /\ HasRtpPacket(e.seq)

(* The queue is emptied again and again unless the pacer is paused: failed *)
(* sends that put their entry back, retransmissions that overtake media,   *)
(* packets that vanished from the history and sending being switched off   *)
(* in the middle of a send do not leave an entry in it for ever.  The one  *)
(* thing that does is a retransmission without an RTX payload type, until  *)
(* its packet leaves the history or sending stops.                         *)
QueueDrains ==
  []<>(\/ packet_list = <<>>
       \/ paused
       \/ \E e \in Range(packet_list) : RefusedForGood(e))
=============================================================================

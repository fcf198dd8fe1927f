---------------------------- MODULE PacketBuffer ----------------------------
(***************************************************************************)
(* The buffer that assembles packets into frames                           *)
(* (modules/video_coding/packet_buffer.cc), for a codec other than H.264.  *)
(* A packet is [seq, begin, end, frame]: its sequence number,              *)
(* is_first_packet_in_frame, markerBit, and its payload's frame, standing  *)
(* for the data.  A PacketBuffer is a record:                              *)
(*                                                                         *)
(*   size                size_                                             *)
(*   first               first_seq_num_                                    *)
(*   firstReceived       first_packet_received_                            *)
(*   cleared             is_cleared_to_first_seq_num_                      *)
(*   slots               sequence_buffer_ and data_buffer_: index -> slot  *)
(*                                                                         *)
(* A slot keeps its sequence number and flags when it is not used.         *)
(***************************************************************************)
EXTENDS Integers, FiniteSets, SequenceNumber, SequencesExt

CONSTANTS StartSize,    \* kPacketBufferStartSize
          MaxSize       \* kPacketBufferMaxSize

ASSUME SizeAssumption ==
  /\ StartSize \in Nat \ {0} /\ MaxSize \in Nat
  /\ \E k \in 0..SeqSpace : MaxSize = StartSize * 2^k
  /\ SeqSpace % MaxSize = 0

EmptySlot == [used |-> FALSE, seq |-> 0, begin |-> FALSE, end |-> FALSE,
              frame |-> 0, continuous |-> FALSE, created |-> FALSE]

NewPacketBuffer ==
  [size |-> StartSize, first |-> 0, firstReceived |-> FALSE,
   cleared |-> FALSE, slots |-> [i \in 0..(StartSize - 1) |-> EmptySlot]]

After(s) == (s + 1) % SeqSpace
Index(b, s) == s % b.size
Slot(b, s) == b.slots[Index(b, s)]

(* GetPacket: whether the packet is in the buffer. *)
Holds(b, s) == Slot(b, s).used /\ Slot(b, s).seq = s

(* The buffer without the contents of the slots in I. *)
Free(b, I) ==
  [b EXCEPT !.slots = [i \in DOMAIN @ |->
     IF i \in I THEN [@[i] EXCEPT !.used = FALSE] ELSE @[i]]]

ClearBuffer(b) ==
  [Free(b, DOMAIN b.slots) EXCEPT !.firstReceived = FALSE, !.cleared = FALSE]

(* Every number from first_seq_num_ to s frees its slot, whichever packet  *)
(* is in it.                                                               *)
ClearTo(b, s) ==
  LET n == IF AheadOrAt(s, b.first, SeqSpace)
           THEN ForwardDiff(b.first, s, SeqSpace) + 1 ELSE 0
      I == {Index(b, (b.first + i) % SeqSpace) : i \in 0..(n - 1)}
  IN  IF ~b.firstReceived THEN b
      ELSE [Free(b, I) EXCEPT !.cleared = TRUE,
                              !.first = (@ + n) % SeqSpace]

(* One ExpandBufferSize below the maximum: the packets move to their slots *)
(* of a buffer of twice the size.                                          *)
Expanded(b) ==
  LET size == IF 2 * b.size < MaxSize THEN 2 * b.size ELSE MaxSize
      moved(i) == {j \in DOMAIN b.slots :
                     b.slots[j].used /\ b.slots[j].seq % size = i}
  IN  [b EXCEPT !.size = size,
                !.slots = [i \in 0..(size - 1) |->
                   IF moved(i) = {} THEN EmptySlot
                   ELSE b.slots[CHOOSE j \in moved(i) : TRUE]]]

(* ExpandBufferSize until the slot of s is free; a buffer that is already  *)
(* at the maximum is cleared.                                              *)
MakeSlot(b, s) ==
  FoldLeft(LAMBDA c, i : IF ~Slot(c, s).used THEN c
                         ELSE IF c.size = MaxSize THEN ClearBuffer(c)
                         ELSE Expanded(c),
           b, [i \in 1..(MaxSize + 1) |-> i])

(* Fault: the packet before s is enough, whether or not those before it    *)
(* have arrived.                                                           *)
PreviousIsEnough(b, s) ==
  LET slot == Slot(b, s)
      prev == b.slots[(Index(b, s) - 1) % b.size]
  IN  /\ slot.used /\ slot.seq = s /\ ~slot.created
      /\ \/ slot.begin
         \/ prev.used /\ ~prev.created /\ prev.seq = (slot.seq - 1) % SeqSpace

(* Whether every packet of the frame of s up to s has arrived. *)
PotentialNewFrame(b, s) ==
  LET slot == Slot(b, s)
      prev == b.slots[(Index(b, s) - 1) % b.size]
  IN  /\ slot.used /\ slot.seq = s /\ ~slot.created
      /\ \/ slot.begin
         \/ /\ prev.used /\ ~prev.created
            /\ prev.seq = (slot.seq - 1) % SeqSpace
            /\ prev.continuous

(* The packets of the frame that ends at s, counted backwards from s by    *)
(* slot: to the first one that begins a frame, but size_ - 1 at most, and  *)
(* then the frame is said to begin one packet earlier.                     *)
FrameEndingAt(b, s) ==
  LET slotAt(j) == b.slots[(Index(b, s) - j) % b.size]
      begins == {j \in 0..(b.size - 2) : slotAt(j).begin}
      back == IF begins = {} THEN b.size - 1
              ELSE CHOOSE j \in begins : \A k \in begins : j <= k
      visited == IF begins = {} THEN b.size - 2 ELSE back
  IN  [first |-> (s - back) % SeqSpace, last |-> s,
       slots |-> {(Index(b, s) - j) % b.size : j \in 0..visited}]

(* GetBitstream: the payloads copied, none if the frame fills the buffer,  *)
(* and not all if a packet is missing.                                     *)
GetBitstream(b, first, last) ==
  LET n == ForwardDiff(first, After(last), SeqSpace) % b.size
      at(i) == (first + i - 1) % SeqSpace
      missing == {i \in 1..n : ~Holds(b, at(i))}
      copied == IF missing = {} THEN n
                ELSE (CHOOSE i \in missing : \A k \in missing : i <= k) - 1
  IN  [i \in 1..copied |-> Slot(b, at(i)).frame]

(* A frame that is handed out: its packets, the payloads in its bitstream, *)
(* and whether the packets the constructor looks up are there (a failed    *)
(* check ends the program).                                                *)
RtpFrameObject(b, f) ==
  [first |-> f.first, last |-> f.last,
   bitstream |-> GetBitstream(b, f.first, f.last),
   check |-> Holds(b, f.first) /\ Holds(b, f.last) /\ Slot(b, f.last).end,
   frame |-> Slot(b, f.first).frame, size |-> b.size]

(* One turn of the loop of FindFrames.  c is [buffer, seq, frames, more]. *)
FindFramesStep(c) ==
  LET i == Index(c.buffer, c.seq)
      cont == [c.buffer EXCEPT !.slots[i].continuous = TRUE]
      f == FrameEndingAt(cont, c.seq)
      done == [cont EXCEPT !.slots = [j \in DOMAIN @ |->
                 IF j \in f.slots THEN [@[j] EXCEPT !.created = TRUE]
                 ELSE @[j]]]
      ends == cont.slots[i].end
  IN  IF ~c.more \/ ~PotentialNewFrame(c.buffer, c.seq)
      THEN [c EXCEPT !.more = FALSE]
      ELSE [buffer |-> IF ends THEN done ELSE cont, seq |-> After(c.seq),
            frames |-> IF ends THEN Append(c.frames, RtpFrameObject(done, f))
                       ELSE c.frames,
            more |-> TRUE]

(* Fault: the packets after s are not looked at. *)
FindsHereOnly(b, s) ==
  FindFramesStep([buffer |-> b, seq |-> s, frames |-> <<>>, more |-> TRUE])

FindFrames(b, s) ==
  FoldLeft(LAMBDA c, i : FindFramesStep(c),
           [buffer |-> b, seq |-> s, frames |-> <<>>, more |-> TRUE],
           [i \in 1..b.size |-> i])

(* What InsertPacket does under crit_: the buffer after it and the frames  *)
(* found.                                                                  *)
InsertPacket(b, p) ==
  LET old == b.firstReceived /\ AheadOf(b.first, p.seq, SeqSpace)
      b1 == IF ~b.firstReceived \/ old
            THEN [b EXCEPT !.first = p.seq, !.firstReceived = TRUE] ELSE b
      duplicate == Slot(b1, p.seq).used /\ Slot(b1, p.seq).seq = p.seq
      b2 == MakeSlot(b1, p.seq)
      b3 == [b2 EXCEPT !.slots[Index(b2, p.seq)] =
               [used |-> TRUE, seq |-> p.seq, begin |-> p.begin,
                end |-> p.end, frame |-> p.frame, continuous |-> FALSE,
                created |-> FALSE]]
      found == FindFrames(b3, p.seq)
  IN  IF old /\ b.cleared THEN [buffer |-> b, frames |-> <<>>]
      ELSE IF duplicate THEN [buffer |-> b1, frames |-> <<>>]
      ELSE [buffer |-> found.buffer, frames |-> found.frames]

(* The destructor of a frame gives its slots back, where they still hold   *)
(* its packets (ReturnFrame).                                              *)
ReturnFrame(b, f) ==
  LET n == ForwardDiff(f.first, After(f.last), SeqSpace) % b.size
      at(i) == (f.first + i) % SeqSpace
  IN  Free(b, {Index(b, at(i)) : i \in {k \in 0..(n - 1) :
                                          Slot(b, at(k)).seq = at(k)}})

PacketBufferTypeOK(b) ==
  /\ b.first \in 0..(SeqSpace - 1)
  /\ b.firstReceived \in BOOLEAN /\ b.cleared \in BOOLEAN
  /\ \E k \in 0..MaxSize : b.size = StartSize * 2^k
  /\ b.size <= MaxSize /\ DOMAIN b.slots = 0..(b.size - 1)
  /\ \A i \in DOMAIN b.slots : b.slots[i].used => b.slots[i].seq % b.size = i
=============================================================================

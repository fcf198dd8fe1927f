-------------------------- MODULE RtpSenderProofs --------------------------
(***************************************************************************)
(* Proofs about the paced send path, for every history size, sequence      *)
(* number space, packet and RTX configuration, and any number of NACKs and *)
(* calls.  Numbers are ordered by their distance from the first one, which *)
(* is sound because fewer than half of them are used (MaxNumbers).         *)
(***************************************************************************)
EXTENDS RtpSender, RtpPacketHistoryProofs, SequenceTheorems

(* The position of a sequence number in the order of their use.            *)
Pos(s) == (s - FirstSeq) % SeqSpace

Stored(s) ==
  \E i \in Slots : Occupied(i) /\ stored_packets[i].packet.seq = s

-----------------------------------------------------------------------------
(* The inductive invariant.                                                *)

EncoderType ==
  {Idle} \cup [step : {"numbered", "stored"}, packet : Packet,
               storage : StorageType]
PacerType ==
  {Idle} \cup [step : {"popped", "done", "failed"}, entry : Entry]
         \cup [step : {"fetched"}, entry : Entry, packet : Packet]
         \cup [step : {"redundant", "padding"}, bytes_left : Int]
NackType ==
  {Idle} \cup [step : {"next"}, list : Seq(SeqNum)]
         \cup [step : {"insert"}, list : Seq(SeqNum), packet : Packet]

PacerHolds == pacer.step \in {"popped", "fetched", "done", "failed"}

(* The threads and the queue.                                              *)
SenderTypes ==
  /\ sequence_number \in SeqNum /\ numbered \subseteq SeqNum
  /\ encoder \in EncoderType
  /\ packet_list \in Seq(Entry)
  /\ pacer \in PacerType
  /\ nack \in NackType
  /\ PacerHolds => pacer.entry \in Range(packet_list)
  /\ pacer.step = "fetched" => pacer.packet.seq = pacer.entry.seq

(* The history is a proper one, and no number is stored twice.             *)
HistoryOK ==
  /\ HistoryTypeOK /\ RingShape /\ store
  /\ \A i, j \in Slots :
       /\ Occupied(i) /\ Occupied(j)
       /\ stored_packets[i].packet.seq = stored_packets[j].packet.seq
       => i = j

(* Numbers are taken in order, and what is under way has been numbered;    *)
(* before it is stored a new packet is nowhere else.                       *)
PaddingSeqs ==
  {w.seq : w \in {v \in wire : v.ssrc = "media" /\ v.kind = "padding"}}

NumbersOK ==
  /\ Pos(sequence_number) <= MaxNumbers
  /\ \A s \in numbered : Pos(s) < Pos(sequence_number)
  /\ \A s \in PaddingSeqs : s \in SeqNum /\ Pos(s) < Pos(sequence_number)

HeldSeqs ==
  QueuedSeqs \cup (IF nack.step = "insert" THEN {nack.packet.seq} ELSE {})
             \cup {s \in SeqNum : Stored(s)}

HeldAreNumbered ==
  /\ HeldSeqs \subseteq numbered
  /\ EncoderSeqs \subseteq numbered
  /\ encoder.step = "numbered" => encoder.packet.seq \notin HeldSeqs

(* After a packet with the marker bit the number before the next one is    *)
(* that packet's, or padding's.                                            *)
MarkerOK ==
  last_packet_marker_bit /\ PrevSeq(sequence_number) \in numbered
    => PrevSeq(sequence_number) \in markers

(* A transmission of s has been tried, or is under way.                    *)
Tried(s) ==
  s \in marked \/ MediaPacket(s) \in wire
Begun(s) ==
  Tried(s) \/ (pacer.step = "fetched" /\ pacer.entry.seq = s)

(* What is stored as sent is sent, and what is retransmitted was tried and *)
(* may be retransmitted.                                                   *)
MayResend(s) ==
  \A i \in Slots :
    Occupied(i) /\ stored_packets[i].packet.seq = s
      => stored_packets[i].storage_type # "kDontRetransmit"

SentOK ==
  /\ \A i \in Slots :
       Occupied(i) /\ stored_packets[i].send_time # 0
         => Begun(stored_packets[i].packet.seq)
  /\ \A e \in Range(packet_list) :
       e.retransmission => Tried(e.seq) /\ MayResend(e.seq)
  /\ nack.step = "insert" =>
       Begun(nack.packet.seq) /\ MayResend(nack.packet.seq)

(* A packet leaves a history that can still grow only once it was tried.   *)
LeavesWhenTried ==
  size < kMaxCapacity =>
    \A s \in numbered \ given_up :
      \/ encoder.step = "numbered" /\ encoder.packet.seq = s
      \/ Stored(s) \/ Begun(s)

(* An entry that is about to be removed is accounted for.                  *)
Accounted(s) ==
  \/ MediaPacket(s) \in wire
  \/ s \in marked /\ (BuildRtxPacket(s) \in wire \/ ~Stored(s))

DoneIsAccounted ==
  size < kMaxCapacity /\ pacer.step = "done" =>
    pacer.entry.seq \in given_up \/ Accounted(pacer.entry.seq)

NotLost ==
  size < kMaxCapacity =>
    \A s \in numbered \ given_up :
      s \in EncoderSeqs \cup QueuedSeqs \/ Accounted(s)

(* First transmissions are queued in the order of their numbers and of     *)
(* their capture times, and the pacer takes the first.                     *)
QueueOrdered ==
  /\ \A e \in Range(packet_list) : ~e.retransmission => e.capture_time_ms <= now
  /\ encoder.step # "idle" => encoder.packet.capture_time_ms <= now
  /\ encoder.step # "idle" =>
       \A e \in Range(packet_list) : ~e.retransmission =>
         /\ e.capture_time_ms <= encoder.packet.capture_time_ms
         /\ Pos(e.seq) < Pos(encoder.packet.seq)
  /\ \A i, j \in DOMAIN packet_list :
       i < j /\ ~packet_list[i].retransmission /\ ~packet_list[j].retransmission
         => /\ packet_list[i].capture_time_ms <= packet_list[j].capture_time_ms
            /\ Pos(packet_list[i].seq) < Pos(packet_list[j].seq)
  /\ pacer.step \in {"popped", "fetched"} /\ ~pacer.entry.retransmission =>
       \A e \in Range(packet_list) :
         ~e.retransmission => Pos(pacer.entry.seq) <= Pos(e.seq)

SenderInv ==
  /\ SenderTypes
  /\ HistoryOK
  /\ NumbersOK
  /\ HeldAreNumbered
  /\ MarkerOK /\ PaddingOnlyBetweenFrames
  /\ SentOK
  /\ LeavesWhenTried
  /\ DoneIsAccounted
  /\ NotLost
  /\ QueueOrdered

-----------------------------------------------------------------------------
(* Sequence numbers.                                                       *)

(* The remainder of a number that is at most one modulus away.             *)
LEMMA Remainder ==
  ASSUME NEW S \in Nat, S > 0, NEW x \in Int, -S <= x, x < S
  PROVE  x % S = IF x >= 0 THEN x ELSE x + S
<1> DEFINE q == x \div S
           r == x % S
<1>1. q \in Int /\ r \in 0 .. S - 1 /\ x = q * S + r
  BY Z3
<1> HIDE DEF q, r
<1>2. q \in {-1, 0}
  <2>1. ASSUME q >= 1 PROVE FALSE
    <3>1. q * S >= S
      BY <1>1, <2>1
    <3> QED
      BY <1>1, <3>1
  <2>2. ASSUME q <= -2 PROVE FALSE
    <3>1. q * S <= (-2) * S
      BY <1>1, <2>2
    <3> QED
      BY <1>1, <3>1
  <2> QED
    BY <1>1, <2>1, <2>2
<1>3. r = IF x >= 0 THEN x ELSE x + S
  BY <1>1, <1>2
<1> QED
  BY <1>3 DEF r

LEMMA SpaceType ==
  /\ SeqSpace \in Nat /\ SeqSpace > 0
  /\ FirstSeq \in 1 .. SeqSpace - 1
  /\ MaxNumbers \in Nat /\ 2 * MaxNumbers < SeqSpace
BY SeqSpaceAssumption, SenderAssumption DEF SeqNum

LEMMA PosValue ==
  ASSUME NEW s \in SeqNum
  PROVE  /\ Pos(s) = IF s >= FirstSeq THEN s - FirstSeq
                                      ELSE s - FirstSeq + SeqSpace
         /\ Pos(s) \in SeqNum
<1>1. s \in 0 .. SeqSpace - 1 /\ s - FirstSeq \in Int
      /\ -SeqSpace <= s - FirstSeq /\ s - FirstSeq < SeqSpace
  BY SpaceType DEF SeqNum
<1>2. Pos(s) = IF s - FirstSeq >= 0 THEN s - FirstSeq
                                    ELSE s - FirstSeq + SeqSpace
  BY <1>1, SpaceType, Remainder DEF Pos
<1> QED
  BY <1>1, <1>2, SpaceType DEF SeqNum

(* Positions tell numbers apart.                                           *)
LEMMA PosInjective ==
  ASSUME NEW s \in SeqNum, NEW t \in SeqNum, Pos(s) = Pos(t)
  PROVE  s = t
BY PosValue, SpaceType DEF SeqNum

LEMMA NextSeqPos ==
  ASSUME NEW s \in SeqNum, Pos(s) < MaxNumbers
  PROVE  /\ NextSeq(s) \in SeqNum
         /\ Pos(NextSeq(s)) = Pos(s) + 1
         /\ PrevSeq(NextSeq(s)) = s
<1>0. s \in 0 .. SeqSpace - 1
  BY DEF SeqNum
<1>1. NextSeq(s) = IF s + 1 < SeqSpace THEN s + 1 ELSE 0
  <2>1. CASE s + 1 < SeqSpace
    BY <1>0, <2>1, SpaceType, Remainder DEF NextSeq
  <2>2. CASE s + 1 = SeqSpace
    <3>1. SeqSpace % SeqSpace = 0
      BY SpaceType, Z3
    <3> QED
      BY <2>2, <3>1, SpaceType DEF NextSeq
  <2> QED
    BY <1>0, <2>1, <2>2, SpaceType
<1>2. NextSeq(s) \in SeqNum
  BY <1>0, <1>1, SpaceType DEF SeqNum
<1>3. Pos(NextSeq(s)) = Pos(s) + 1
  BY <1>0, <1>1, <1>2, PosValue, SpaceType
<1>4. PrevSeq(NextSeq(s)) = s
  <2>1. CASE s + 1 < SeqSpace
    <3>1. NextSeq(s) + SeqSpace - 1 = SeqSpace + s
      BY <1>0, <1>1, <2>1, SpaceType
    <3>2. (SeqSpace + s) % SeqSpace = s
      BY <1>0, SpaceType, Z3
    <3> QED
      BY <3>1, <3>2 DEF PrevSeq
  <2>2. CASE s + 1 = SeqSpace
    <3>1. NextSeq(s) + SeqSpace - 1 = s
      BY <1>0, <1>1, <2>2, SpaceType
    <3> QED
      BY <1>0, <3>1, SpaceType, Remainder DEF PrevSeq
  <2> QED
    BY <1>0, <2>1, <2>2, SpaceType
<1> QED
  BY <1>2, <1>3, <1>4

(* The number before one in use is in use or at the end of the space.      *)
LEMMA PrevSeqPos ==
  ASSUME NEW s \in SeqNum
  PROVE  /\ PrevSeq(s) \in SeqNum
         /\ Pos(PrevSeq(s)) = IF Pos(s) > 0 THEN Pos(s) - 1 ELSE SeqSpace - 1
<1>0. s \in 0 .. SeqSpace - 1
  BY DEF SeqNum
<1>1. PrevSeq(s) = IF s > 0 THEN s - 1 ELSE SeqSpace - 1
  <2>1. CASE s > 0
    <3>1. \A x \in 0 .. SeqSpace - 1 : (SeqSpace + x) % SeqSpace = x
      BY SpaceType, Z3
    <3>2. s - 1 \in 0 .. SeqSpace - 1 /\ s + SeqSpace - 1 = SeqSpace + (s - 1)
      BY <1>0, <2>1, SpaceType
    <3> QED
      BY <2>1, <3>1, <3>2 DEF PrevSeq
  <2>2. CASE s = 0
    BY <2>2, SpaceType, Remainder DEF PrevSeq
  <2> QED
    BY <1>0, <2>1, <2>2, SpaceType
<1>2. PrevSeq(s) \in SeqNum
  BY <1>0, <1>1, SpaceType DEF SeqNum
<1> QED
  BY <1>0, <1>1, <1>2, PosValue, SpaceType

(* Of two numbers in use the one that wraparound comparison calls older    *)
(* has the lower position.                                                 *)
LEMMA OlderPos ==
  ASSUME NEW s \in SeqNum, NEW t \in SeqNum,
         Pos(s) <= MaxNumbers, Pos(t) <= MaxNumbers,
         (s - t) % SeqSpace < SeqSpace \div 2
  PROVE  Pos(t) <= Pos(s)
<1> SUFFICES ASSUME Pos(s) < Pos(t) PROVE FALSE
  BY PosValue, SpaceType DEF SeqNum
<1>1. s - t \in Int /\ -SeqSpace <= s - t /\ s - t < SeqSpace
  BY SpaceType DEF SeqNum
<1>2. (s - t) % SeqSpace = IF s - t >= 0 THEN s - t ELSE s - t + SeqSpace
  BY <1>1, SpaceType, Remainder
<1>3. (s - t) % SeqSpace = Pos(s) - Pos(t) + SeqSpace
  BY <1>2, PosValue, SpaceType DEF SeqNum
<1>4. /\ Pos(s) \in Nat /\ Pos(t) \in Nat
      /\ MaxNumbers < SeqSpace \div 2 /\ SeqSpace \div 2 <= SeqSpace
      /\ 2 * (SeqSpace \div 2) <= SeqSpace
  BY PosValue, SpaceType, SenderAssumption DEF SeqNum
<1> QED
  BY <1>3, <1>4, SpaceType

-----------------------------------------------------------------------------
(* The queue and the history.                                              *)

LEMMA AppendRange ==
  ASSUME NEW S, NEW q \in Seq(S), NEW e \in S
  PROVE  /\ Append(q, e) \in Seq(S)
         /\ Range(Append(q, e)) = Range(q) \cup {e}
         /\ DOMAIN Append(q, e) = DOMAIN q \cup {Len(q) + 1}
         /\ \A i \in DOMAIN q : Append(q, e)[i] = q[i] /\ i < Len(q) + 1
         /\ Append(q, e)[Len(q) + 1] = e
<1>1. /\ Append(q, e) \in Seq(S) /\ Len(Append(q, e)) = Len(q) + 1
      /\ \A i \in 1 .. Len(q) : Append(q, e)[i] = q[i]
      /\ Append(q, e)[Len(q) + 1] = e
  BY AppendProperties
<1>2. /\ Len(q) \in Nat /\ DOMAIN q = 1 .. Len(q)
      /\ DOMAIN Append(q, e) = 1 .. Len(q) + 1
  BY <1>1, LenProperties
<1>3. /\ DOMAIN Append(q, e) = DOMAIN q \cup {Len(q) + 1}
      /\ \A i \in DOMAIN q : Append(q, e)[i] = q[i] /\ i < Len(q) + 1
  BY <1>1, <1>2
<1>4. Range(Append(q, e)) = Range(q) \cup {e}
  BY <1>1, <1>3, Zenon DEF Range
<1> QED
  BY <1>1, <1>3, <1>4

(* The lookup is exact, so that what is stored is found.                   *)
LEMMA StoredIsFound ==
  ASSUME HistoryOK, NEW s \in SeqNum
  PROVE  /\ HasRtpPacket(s) <=> Stored(s)
         /\ FindSeqNum(s) # NotFound <=> Stored(s)
         /\ Stored(s) => /\ FindSeqNum(s) \in Slots
                         /\ Occupied(FindSeqNum(s))
                         /\ stored_packets[FindSeqNum(s)].packet \in Packet
                         /\ stored_packets[FindSeqNum(s)].packet.seq = s
<1>1. LookupExact
  BY LookupInvariant DEF HistoryOK
<1>2. NotFound \notin Slots
  BY DEF NotFound, Slots
<1>3. \A i \in Slots : Occupied(i) => stored_packets[i].packet \in Packet
  BY DEF HistoryOK, HistoryTypeOK, StoredPacket, Occupied
<1> QED
  BY <1>1, <1>2, <1>3 DEF LookupExact, Stored, HasRtpPacket, HistoryOK

(* PutRtpPacket writes one slot, which held no packet that waits for its   *)
(* first transmission unless the history is full.                          *)
LEMMA PutEffect ==
  ASSUME HistoryOK, now' = now, NEW p \in Packet, NEW type \in StorageType,
         PutRtpPacket(p, type, FALSE)
  PROVE  /\ store' /\ size' >= size /\ size' \in Nat
         /\ HistoryTypeOK' /\ RingShape'
         /\ \E at \in Slots' :
              /\ Occupied(at)' /\ stored_packets'[at].packet.seq = p.seq
              /\ stored_packets'[at].send_time = 0
              /\ stored_packets'[at].storage_type = type
              /\ \A i \in Slots' :
                   Occupied(i)' /\ i # at =>
                     i \in Slots /\ stored_packets'[i] = stored_packets[i]
              /\ \A i \in Slots : i \in Slots'
              /\ \A i \in Slots : i # at => stored_packets'[i] = stored_packets[i]
              /\ at \in Slots /\ Unsent(at) => size = kMaxCapacity
<1> DEFINE n == IF MustExpand THEN ExpandedSize ELSE size
           captured == IF p.capture_time_ms <= 0
                         THEN [p EXCEPT !.capture_time_ms = now]
                         ELSE p
           slot == [sequence_number |-> p.seq, send_time |-> 0,
                    storage_type |-> type, has_been_retransmitted |-> FALSE,
                    packet |-> captured]
<1>0. HistoryTypeOK' /\ RingShape'
  BY PutRing DEF HistoryOK
<1>1. /\ size \in 1 .. kMaxCapacity /\ prev_index \in 0 .. size - 1
      /\ kMaxCapacity \in Nat /\ store /\ now \in Nat
  BY CapacityAssumption DEF HistoryOK, HistoryTypeOK, Slots
<1>2a. n \in size .. kMaxCapacity /\ InsertIndex \in 0 .. n - 1
  BY <1>1, ExpandedSizeBounds DEF MustExpand, InsertIndex
<1>2b. PICK at \in Nat : at = InsertIndex
  BY <1>1, <1>2a
<1>2. n \in size .. kMaxCapacity /\ at \in 0 .. n - 1
  BY <1>2a, <1>2b
<1>3. at \in Slots /\ Unsent(at) => size = kMaxCapacity
  BY <1>1, <1>2b DEF InsertIndex, MustExpand, Slots
<1>4. captured.seq = p.seq /\ captured # NoPacket
  <2>1. captured \in Packet /\ captured.seq = p.seq
    BY <1>1 DEF Packet
  <2> QED
    BY <2>1, NoPacketAssumption
<1>5. /\ size' = n /\ store' = store
      /\ stored_packets' =
           [i \in 0 .. n - 1 |-> IF i = at THEN slot
                                 ELSE IF i < size THEN stored_packets[i]
                                 ELSE EmptySlot]
  BY <1>1, <1>2b, Zenon DEF PutRtpPacket
<1>6. /\ slot.packet # NoPacket /\ slot.packet.seq = p.seq
      /\ slot.send_time = 0 /\ slot.storage_type = type
  BY <1>4
<1> HIDE DEF n, captured, slot
<1>7. Slots' = 0 .. n - 1 /\ Slots = 0 .. size - 1
  BY <1>5 DEF Slots
<1>8. /\ at \in Slots'
      /\ Occupied(at)' /\ stored_packets'[at].packet.seq = p.seq
      /\ stored_packets'[at].send_time = 0
      /\ stored_packets'[at].storage_type = type
  BY <1>2, <1>5, <1>6, <1>7 DEF Occupied
<1>9. \A i \in Slots' : Occupied(i)' /\ i # at =>
        i \in Slots /\ stored_packets'[i] = stored_packets[i]
  BY <1>1, <1>2, <1>5, <1>7 DEF Occupied, EmptySlot
<1>10. \A i \in Slots : i \in Slots' /\ (i # at => stored_packets'[i] = stored_packets[i])
  BY <1>1, <1>2, <1>5, <1>7
<1>11. size' >= size /\ size' \in Nat /\ store'
  BY <1>1, <1>2, <1>5
<1> QED
  BY <1>0, <1>3, <1>8, <1>9, <1>10, <1>11

(* GetPacketAndSetSendTime changes nothing but the send time (and the mark *)
(* of a retransmission) of the packet it returns.                          *)
LEMMA GetEffect ==
  ASSUME HistoryOK, now' = now, NEW s \in SeqNum, NEW t \in Nat,
         NEW retransmit \in BOOLEAN,
         GetPacketAndSetSendTime(s, t, retransmit)
  PROVE  /\ HistoryOK' /\ Slots' = Slots /\ size' = size
         /\ \A i \in Slots :
              /\ stored_packets'[i].packet = stored_packets[i].packet
              /\ stored_packets'[i].storage_type
                   = stored_packets[i].storage_type
              /\ stored_packets'[i].send_time # stored_packets[i].send_time =>
                   /\ Fetchable(s, t, retransmit)
                   /\ i = FindSeqNum(s)
         /\ FetchedPacket(s, t, retransmit) # NoPacket
              <=> Fetchable(s, t, retransmit)
         /\ Fetchable(s, t, retransmit) =>
              /\ FetchedPacket(s, t, retransmit) \in Packet
              /\ FetchedPacket(s, t, retransmit).seq = s
<1>0. HistoryTypeOK' /\ RingShape'
  BY GetRing DEF HistoryOK
<1>1. /\ Fetchable(s, t, retransmit) =>
           /\ FindSeqNum(s) \in Slots /\ Occupied(FindSeqNum(s))
           /\ stored_packets[FindSeqNum(s)].packet \in Packet
           /\ stored_packets[FindSeqNum(s)].packet.seq = s
  BY StoredIsFound DEF Fetchable
<1>2. /\ FetchedPacket(s, t, retransmit) # NoPacket
           <=> Fetchable(s, t, retransmit)
      /\ Fetchable(s, t, retransmit) =>
           /\ FetchedPacket(s, t, retransmit) \in Packet
           /\ FetchedPacket(s, t, retransmit).seq = s
  BY <1>1, NoPacketAssumption DEF FetchedPacket
<1>3. /\ store' = store /\ size' = size /\ Slots' = Slots
      /\ \A i \in Slots :
           /\ stored_packets'[i].packet = stored_packets[i].packet
           /\ stored_packets'[i].storage_type = stored_packets[i].storage_type
           /\ stored_packets'[i].send_time # stored_packets[i].send_time =>
                /\ Fetchable(s, t, retransmit)
                /\ i = FindSeqNum(s)
  <2>1. CASE ~Fetchable(s, t, retransmit)
    BY <2>1 DEF GetPacketAndSetSendTime, historyVars, Slots
  <2>2. CASE Fetchable(s, t, retransmit)
    <3> DEFINE f == FindSeqNum(s)
    <3>1. /\ stored_packets' =
               [stored_packets EXCEPT
                  ![f].has_been_retransmitted = @ \/ retransmit,
                  ![f].send_time = now]
          /\ store' = store /\ size' = size
      BY <2>2 DEF GetPacketAndSetSendTime
    <3>2. f \in Slots
      BY <1>1, <2>2
    <3> HIDE DEF f
    <3>3. \A i \in Slots : stored_packets[i] \in StoredPacket
      BY DEF HistoryOK, HistoryTypeOK
    <3>4. \A i \in Slots :
            /\ stored_packets'[i].packet = stored_packets[i].packet
            /\ stored_packets'[i].storage_type = stored_packets[i].storage_type
            /\ i # f => stored_packets'[i] = stored_packets[i]
      BY <3>1, <3>2, <3>3 DEF StoredPacket, HistoryOK, HistoryTypeOK
    <3>5. Slots' = Slots
      BY <3>1 DEF Slots
    <3> QED
      BY <2>2, <3>1, <3>4, <3>5 DEF f
  <2> QED
    BY <2>1, <2>2
<1>4. HistoryOK'
  BY <1>0, <1>3 DEF HistoryOK, Occupied
<1> QED
  BY <1>2, <1>3, <1>4

(* GetBestFittingPacket returns a stored packet.                           *)
LEMMA BestFits ==
  ASSUME HistoryOK, NEW bytes \in Int, GetBestFittingPacket(bytes) # NoPacket
  PROVE  GetBestFittingPacket(bytes) \in Packet
<1> DEFINE Diff(i) == IF stored_packets[i].packet.size > bytes
                        THEN stored_packets[i].packet.size - bytes
                        ELSE bytes - stored_packets[i].packet.size
           Candidates == {i \in Slots : Occupied(i)}
           Best == {i \in Candidates : \A j \in Candidates : Diff(i) <= Diff(j)}
           f == FindBestFittingPacket(bytes)
<1>1. f = IF bytes < kMinPacketRequestBytes \/ Candidates = {}
            THEN NotFound
            ELSE CHOOSE i \in Best : \A j \in Best : i <= j
  BY DEF FindBestFittingPacket
<1>2. \A i \in Candidates : i \in Nat /\ stored_packets[i].packet \in Packet
  BY DEF HistoryOK, HistoryTypeOK, StoredPacket, Occupied, Slots
<1>3. \A i \in Candidates : Diff(i) \in Nat
  <2>1. \A i \in Candidates : stored_packets[i].packet.size \in Nat
    BY <1>2, PacketSizeAssumption DEF Packet
  <2> HIDE DEF Candidates
  <2> QED
    BY <2>1
<1>4. f # NotFound /\ GetBestFittingPacket(bytes) = stored_packets[f].packet
  BY DEF GetBestFittingPacket
<1>5. Candidates # {} /\ f = CHOOSE i \in Best : \A j \in Best : i <= j
  BY <1>1, <1>4
<1>6. Best # {}
  <2> DEFINE D == {Diff(i) : i \in Candidates}
  <2>1. D \in SUBSET Nat /\ D # {}
    BY <1>3, <1>5
  <2>2. PICK d \in D : \A e \in D : d <= e
    BY <2>1, LeastElement
  <2>3. PICK i \in Candidates : d = Diff(i)
    BY <2>2
  <2>4. i \in Best
    BY <2>2, <2>3
  <2> QED
    BY <2>4
<1>7. \E i \in Best : \A j \in Best : i <= j
  BY <1>2, <1>6, LeastElement
<1>8. f \in Candidates
  BY <1>5, <1>7
<1> QED
  BY <1>2, <1>4, <1>8

-----------------------------------------------------------------------------
(* The states of the three threads.                                        *)

LEMMA EncoderCases ==
  ASSUME encoder \in EncoderType
  PROVE  /\ encoder.step \in {"idle", "numbered", "stored"}
         /\ encoder.step # "idle" =>
              /\ encoder \in [step : {"numbered", "stored"}, packet : Packet,
                              storage : StorageType]
              /\ encoder.packet \in Packet /\ encoder.storage \in StorageType
              /\ encoder.packet.seq \in SeqNum
BY DEF EncoderType, Idle, Packet

LEMMA PacerCases ==
  ASSUME pacer \in PacerType
  PROVE  /\ pacer.step \in {"idle", "popped", "fetched", "done", "failed",
                            "redundant", "padding"}
         /\ pacer.step \in {"popped", "done", "failed"} =>
              /\ pacer \in [step : {"popped", "done", "failed"}, entry : Entry]
              /\ pacer.entry \in Entry /\ pacer.entry.seq \in SeqNum
              /\ pacer.entry.retransmission \in BOOLEAN
         /\ pacer.step = "fetched" =>
              /\ pacer.entry \in Entry /\ pacer.packet \in Packet
              /\ pacer.entry.seq \in SeqNum
              /\ pacer.entry.retransmission \in BOOLEAN
         /\ pacer.step \in {"redundant", "padding"} =>
              /\ pacer \in [step : {"redundant", "padding"}, bytes_left : Int]
              /\ pacer.bytes_left \in Int
<1>1. CASE pacer = Idle
  BY <1>1 DEF Idle
<1>2. CASE pacer \in [step : {"popped", "done", "failed"}, entry : Entry]
  BY <1>2 DEF Entry
<1>3. CASE pacer \in [step : {"fetched"}, entry : Entry, packet : Packet]
  BY <1>3 DEF Entry
<1>4. CASE pacer \in [step : {"redundant", "padding"}, bytes_left : Int]
  BY <1>4
<1> QED
  BY <1>1, <1>2, <1>3, <1>4 DEF PacerType

LEMMA NackCases ==
  ASSUME nack \in NackType
  PROVE  /\ nack.step \in {"idle", "next", "insert"}
         /\ nack.step = "next" =>
              /\ nack \in [step : {"next"}, list : Seq(SeqNum)]
              /\ nack.list \in Seq(SeqNum)
         /\ nack.step = "insert" =>
              /\ nack.list \in Seq(SeqNum) /\ nack.packet \in Packet
              /\ nack.packet.seq \in SeqNum
<1>1. CASE nack = Idle
  BY <1>1 DEF Idle
<1>2. CASE nack \in [step : {"next"}, list : Seq(SeqNum)]
  BY <1>2
<1>3. CASE nack \in [step : {"insert"}, list : Seq(SeqNum), packet : Packet]
  BY <1>3 DEF Packet
<1> QED
  BY <1>1, <1>2, <1>3 DEF NackType

(* InsertPacket adds an entry or, for a number that is queued, nothing.    *)
LEMMA PushEffect ==
  ASSUME packet_list \in Seq(Entry), NEW p \in Packet,
         NEW again \in BOOLEAN, InsertPacket(p, again)
  PROVE  /\ packet_list' \in Seq(Entry)
         /\ Range(packet_list) \subseteq Range(packet_list')
         /\ QueuedSeqs' = QueuedSeqs \cup {p.seq}
         /\ \/ packet_list' = packet_list
            \/ /\ p.seq \notin QueuedSeqs
               /\ packet_list' = Append(packet_list,
                                   [seq |-> p.seq,
                                    capture_time_ms |-> p.capture_time_ms,
                                    retransmission |-> again])
               /\ Range(packet_list') = Range(packet_list) \cup
                    {[seq |-> p.seq, capture_time_ms |-> p.capture_time_ms,
                      retransmission |-> again]}
<1> DEFINE e == [seq |-> p.seq, capture_time_ms |-> p.capture_time_ms,
                 retransmission |-> again]
<1>1. e \in Entry /\ e.seq = p.seq
  BY DEF Entry, Packet
<1>2. packet_list' = IF e.seq \in QueuedSeqs THEN packet_list
                     ELSE Append(packet_list, e)
  BY DEF InsertPacket, Push
<1> HIDE DEF e
<1>3. /\ QueuedSeqs = {x.seq : x \in Range(packet_list)}
      /\ QueuedSeqs' = {x.seq : x \in Range(packet_list')}
  BY DEF QueuedSeqs, Range
<1>4. CASE e.seq \in QueuedSeqs
  <2>1. packet_list' = packet_list
    BY <1>2, <1>4
  <2>2. QueuedSeqs' = QueuedSeqs \cup {p.seq}
    BY <1>1, <1>3, <1>4, <2>1
  <2> QED
    BY <2>1, <2>2
<1>5. CASE e.seq \notin QueuedSeqs
  <2>1. packet_list' = Append(packet_list, e)
    BY <1>2, <1>5
  <2>2. /\ packet_list' \in Seq(Entry)
        /\ Range(packet_list') = Range(packet_list) \cup {e}
    BY <1>1, <2>1, AppendRange
  <2>3. QueuedSeqs' = QueuedSeqs \cup {p.seq}
    BY <1>1, <1>3, <2>2
  <2> QED
    BY <1>1, <1>5, <2>1, <2>2, <2>3 DEF e
<1> QED
  BY <1>4, <1>5

(* FinalizePop removes the entry and nothing else.                         *)
LEMMA FinalizeEffect ==
  ASSUME packet_list \in Seq(Entry), FinalizePop
  PROVE  /\ packet_list' \in Seq(Entry)
         /\ Range(packet_list') \subseteq Range(packet_list)
         /\ QueuedSeqs' \subseteq QueuedSeqs
         /\ QueuedSeqs \subseteq QueuedSeqs' \cup {pacer.entry.seq}
         /\ \E i \in 1 .. Len(packet_list) :
              /\ Len(packet_list') = Len(packet_list) - 1
              /\ \A j \in 1 .. Len(packet_list) - 1 :
                   packet_list'[j] = IF j < i THEN packet_list[j]
                                              ELSE packet_list[j + 1]
<1>0. DOMAIN packet_list = 1 .. Len(packet_list) /\ Len(packet_list) \in Nat
  BY LenProperties
<1>1. PICK i \in 1 .. Len(packet_list) :
        /\ packet_list[i] = pacer.entry
        /\ packet_list' = RemoveAt(packet_list, i)
  BY <1>0 DEF FinalizePop
<1>2. /\ packet_list' \in Seq(Entry)
      /\ Len(packet_list') = Len(packet_list) - 1
      /\ \A j \in 1 .. Len(packet_list) - 1 :
           packet_list'[j] = IF j < i THEN packet_list[j]
                                      ELSE packet_list[j + 1]
  BY <1>1, RemoveAtProperties
<1>3. DOMAIN packet_list' = 1 .. Len(packet_list) - 1
  BY <1>2, LenProperties
<1>4. ASSUME NEW j \in DOMAIN packet_list'
      PROVE  \E k \in DOMAIN packet_list : packet_list'[j] = packet_list[k]
  BY <1>0, <1>2, <1>3
<1>5. ASSUME NEW k \in DOMAIN packet_list, k # i
      PROVE  \E j \in DOMAIN packet_list' : packet_list'[j] = packet_list[k]
  <2>1. CASE k < i
    BY <1>0, <1>2, <1>3, <2>1
  <2>2. CASE k > i
    <3>1. k - 1 \in 1 .. Len(packet_list) - 1 /\ ~(k - 1 < i) /\ k - 1 + 1 = k
      BY <1>0, <2>2
    <3> QED
      BY <1>2, <1>3, <3>1
  <2> QED
    BY <1>0, <1>5, <2>1, <2>2
<1>6. Range(packet_list') \subseteq Range(packet_list)
  BY <1>4 DEF Range
<1>7. QueuedSeqs' \subseteq QueuedSeqs
  BY <1>4 DEF QueuedSeqs
<1>8. QueuedSeqs \subseteq QueuedSeqs' \cup {pacer.entry.seq}
  BY <1>1, <1>5 DEF QueuedSeqs
<1> QED
  BY <1>2, <1>6, <1>7, <1>8


(* The priority queue has a top.                                           *)
LEMMA TopIsFirst ==
  ASSUME packet_list \in Seq(Entry), packet_list # <<>>
  PROVE  /\ TopIndex \in DOMAIN packet_list
         /\ \A j \in DOMAIN packet_list \ {TopIndex} : Before(TopIndex, j)
<1> DEFINE D == DOMAIN packet_list
           R == {i \in D : packet_list[i].retransmission}
           C == IF R # {} THEN R ELSE D
           T == {packet_list[i].capture_time_ms : i \in C}
<1>1. /\ D \subseteq Nat /\ D # {}
      /\ \A i \in D : /\ packet_list[i].retransmission \in BOOLEAN
                      /\ packet_list[i].capture_time_ms \in Nat
  <2>1. D = 1 .. Len(packet_list) /\ Len(packet_list) \in Nat
        /\ \A i \in D : packet_list[i] \in Entry
    BY LenProperties
  <2>2. Len(packet_list) # 0
    BY EmptySeq
  <2>3. D # {} /\ D \subseteq Nat
    BY <2>1, <2>2
  <2> QED
    BY <2>1, <2>3 DEF Entry
<1>2. T # {} /\ T \in SUBSET Nat /\ C \subseteq D
  BY <1>1
<1>3. PICK t \in T : \A u \in T : t <= u
  BY <1>2, LeastElement
<1> DEFINE I == {i \in C : packet_list[i].capture_time_ms = t}
<1>4. I # {} /\ I \in SUBSET Nat
  BY <1>1, <1>2, <1>3
<1>5. PICK i \in I : \A k \in I : i <= k
  BY <1>4, LeastElement
<1>6. i \in D /\ i \in C /\ packet_list[i].capture_time_ms = t
  BY <1>2, <1>5
<1>7. ASSUME NEW j \in D \ {i} PROVE Before(i, j)
  <2>1. CASE j \notin C
    BY <1>1, <1>6, <2>1 DEF Before
  <2>2. CASE j \in C /\ packet_list[j].capture_time_ms # t
    <3>1. /\ packet_list[j].capture_time_ms \in T
          /\ t \in Nat /\ packet_list[j].capture_time_ms \in Nat
      BY <1>1, <1>2, <1>3, <2>2
    <3>2. t < packet_list[j].capture_time_ms
      <4> HIDE DEF T
      <4>1. t <= packet_list[j].capture_time_ms
        BY <1>3, <3>1
      <4> QED
        BY <2>2, <3>1, <4>1
    <3>3. packet_list[i].retransmission = packet_list[j].retransmission
      BY <1>1, <1>6, <2>2
    <3> QED
      BY <1>6, <2>2, <3>2, <3>3 DEF Before
  <2>3. CASE j \in I
    <3>1. i < j
      BY <1>4, <1>5, <1>7, <2>3
    <3>2. packet_list[i].retransmission = packet_list[j].retransmission
      BY <1>1, <1>6, <2>3
    <3> QED
      BY <1>6, <2>3, <3>1, <3>2 DEF Before
  <2> QED
    BY <2>1, <2>2, <2>3
<1>8. \E k \in DOMAIN packet_list :
        \A j \in DOMAIN packet_list \ {k} : Before(k, j)
  BY <1>6, <1>7
<1> QED
  BY <1>8 DEF TopIndex

-----------------------------------------------------------------------------
(* The types: one step per operation.                                      *)

LEMMA EncoderTypes ==
  ASSUME SenderInv, EncoderStep
  PROVE  SenderTypes'
<1>0. encoder \in EncoderType /\ now \in Nat /\ SenderTypes /\ HistoryOK
  BY DEF SenderInv, SenderTypes, HistoryOK, HistoryTypeOK
<1>1. ASSUME NEW marker \in BOOLEAN, NEW bytes \in PacketSize,
             NEW storage \in StorageTypes,
             AssignSequenceNumber(marker, bytes, storage)
      PROVE  SenderTypes'
  <2>1. sequence_number \in SeqNum /\ Pos(sequence_number) < MaxNumbers
    BY <1>0, <1>1 DEF AssignSequenceNumber, NumbersLeft, Pos, SenderTypes
  <2>2. sequence_number' \in SeqNum
    BY <1>1, <2>1, NextSeqPos DEF AssignSequenceNumber
  <2>3. encoder' \in EncoderType
    <3>1. storage \in StorageType
      BY SenderAssumption
    <3> QED
      BY <1>0, <1>1, <2>1, <3>1 DEF AssignSequenceNumber, EncoderType, Packet
  <2>4. numbered' \subseteq SeqNum
    BY <1>0, <1>1, <2>1 DEF AssignSequenceNumber, SenderTypes
  <2>5. UNCHANGED <<packet_list, pacer, nack>>
    BY <1>1 DEF AssignSequenceNumber, pacerVars
  <2> QED
    BY <1>0, <2>2, <2>3, <2>4, <2>5 DEF SenderTypes, PacerHolds
<1>2. CASE MediaEncryptFails
  <2>1. UNCHANGED <<sequence_number, numbered, packet_list, pacer, nack>>
    BY <1>2 DEF MediaEncryptFails, senderVars, pacerVars
  <2>2. encoder' \in EncoderType
    BY <1>2 DEF MediaEncryptFails, EncoderType
  <2> QED
    BY <1>0, <2>1, <2>2 DEF SenderTypes, PacerHolds
<1>3. CASE StorePacket
  <2>1. UNCHANGED <<sequence_number, numbered, packet_list, pacer, nack>>
    BY <1>3 DEF StorePacket, senderVars, pacerVars, ghostVars
  <2>2. encoder' \in EncoderType
    BY <1>0, <1>3, EncoderCases DEF StorePacket, EncoderType
  <2> QED
    BY <1>0, <2>1, <2>2 DEF SenderTypes, PacerHolds
<1>4. CASE EnqueuePacket
  <2>1. UNCHANGED <<sequence_number, numbered, pacer, nack>>
    BY <1>4 DEF EnqueuePacket, senderVars, ghostVars
  <2>2. encoder' \in EncoderType
    BY <1>4 DEF EnqueuePacket, EncoderType
  <2>3. encoder.packet \in Packet /\ InsertPacket(encoder.packet, FALSE)
    BY <1>0, <1>4, EncoderCases DEF EnqueuePacket
  <2>4. /\ packet_list' \in Seq(Entry)
        /\ Range(packet_list) \subseteq Range(packet_list')
    BY <1>0, <2>3, PushEffect DEF SenderTypes
  <2> QED
    BY <1>0, <2>1, <2>2, <2>4 DEF SenderTypes, PacerHolds
<1> QED
  BY <1>1, <1>2, <1>3, <1>4 DEF EncoderStep

LEMMA PacerTypes ==
  ASSUME SenderInv, PacerStep
  PROVE  SenderTypes'
<1>0. /\ pacer \in PacerType /\ SenderTypes /\ HistoryOK
      /\ packet_list \in Seq(Entry)
  BY DEF SenderInv, SenderTypes
<1>1. ASSUME UNCHANGED <<sequence_number, numbered, encoder, packet_list, nack>>,
             pacer' \in PacerType,
             PacerHolds' => pacer'.entry \in Range(packet_list),
             pacer'.step = "fetched" => pacer'.packet.seq = pacer'.entry.seq
      PROVE  SenderTypes'
  BY <1>0, <1>1 DEF SenderTypes
<1>2. CASE BeginPop
  <2>1. TopIndex \in DOMAIN packet_list
    BY <1>0, <1>2, TopIsFirst DEF BeginPop
  <2>2. pacer' = [step |-> "popped", entry |-> packet_list[TopIndex]]
    BY <1>2 DEF BeginPop
  <2>3. packet_list[TopIndex] \in Range(packet_list)
    BY <2>1 DEF Range
  <2>4. Range(packet_list) \subseteq Entry
    BY <1>0, LenProperties DEF Range
  <2>5. pacer' \in PacerType /\ pacer'.entry \in Range(packet_list)
        /\ pacer'.step # "fetched"
    BY <2>2, <2>3, <2>4 DEF PacerType
  <2>6. UNCHANGED <<sequence_number, numbered, encoder, packet_list, nack>>
    BY <1>2 DEF BeginPop, senderVars, ghostVars
  <2> QED
    BY <1>1, <2>5, <2>6
<1>3. CASE FetchPacket
  <2> DEFINE s == pacer.entry.seq
             again == pacer.entry.retransmission
             p == FetchedPacket(s, 0, again)
  <2>1. UNCHANGED <<sequence_number, numbered, encoder, packet_list, nack, now>>
    BY <1>3 DEF FetchPacket, senderVars
  <2>2. /\ pacer.step = "popped" /\ pacer.entry \in Entry /\ s \in SeqNum
        /\ again \in BOOLEAN /\ pacer.entry \in Range(packet_list)
        /\ pacer \in [step : {"popped", "done", "failed"}, entry : Entry]
    BY <1>0, <1>3, PacerCases DEF FetchPacket, SenderTypes, PacerHolds
  <2>3. CASE pacer' = [pacer EXCEPT !.step = "done"]
    BY <1>1, <2>1, <2>2, <2>3 DEF PacerType
  <2>4. CASE /\ pacer' = [step |-> "fetched", entry |-> pacer.entry,
                          packet |-> p]
             /\ p # NoPacket /\ GetPacketAndSetSendTime(s, 0, again)
    <3>1. p \in Packet /\ p.seq = s
      BY <1>0, <2>1, <2>2, <2>4, GetEffect
    <3> HIDE DEF p
    <3> QED
      BY <1>1, <2>1, <2>2, <2>4, <3>1 DEF PacerType
  <2> QED
    BY <1>3, <2>3, <2>4 DEF FetchPacket, NotFoundResult
<1>4. ASSUME NEW transported \in BOOLEAN, TransmitPacket(transported)
      PROVE  SenderTypes'
  <2>1. UNCHANGED <<sequence_number, numbered, encoder, packet_list, nack>>
    BY <1>4 DEF TransmitPacket
  <2>2. /\ pacer' = [step |-> IF transported THEN "done" ELSE "failed",
                     entry |-> pacer.entry]
        /\ pacer.entry \in Entry /\ pacer.entry \in Range(packet_list)
    BY <1>0, <1>4, PacerCases DEF TransmitPacket, SenderTypes, PacerHolds
  <2> QED
    BY <1>1, <2>1, <2>2 DEF PacerType
<1>5. CASE RtxRefused
  <2>1. UNCHANGED <<sequence_number, numbered, encoder, packet_list, nack>>
    BY <1>5 DEF RtxRefused, senderVars, ghostVars
  <2>2. /\ pacer' = [step |-> "failed", entry |-> pacer.entry]
        /\ pacer.entry \in Entry /\ pacer.entry \in Range(packet_list)
    BY <1>0, <1>5, PacerCases DEF RtxRefused, SenderTypes, PacerHolds
  <2> QED
    BY <1>1, <2>1, <2>2 DEF PacerType
<1>6. CASE FinalizePop
  <2>1. packet_list' \in Seq(Entry)
    BY <1>0, <1>6, FinalizeEffect
  <2>2. pacer' = Idle /\ UNCHANGED <<sequence_number, numbered, encoder, nack>>
    BY <1>6 DEF FinalizePop, senderVars, ghostVars
  <2> QED
    BY <1>0, <2>1, <2>2 DEF SenderTypes, PacerType, PacerHolds, Idle
<1>7. CASE CancelPop \/ PaddingDone
  <2>1. /\ UNCHANGED <<sequence_number, numbered, encoder, packet_list, nack>>
        /\ pacer' = Idle
    BY <1>7 DEF CancelPop, PaddingDone, senderVars, ghostVars
  <2> QED
    BY <1>1, <2>1 DEF PacerType, PacerHolds, Idle
<1>8. ASSUME NEW bytes \in PaddingRequest, BeginPadding(bytes)
      PROVE  SenderTypes'
  <2>1. /\ UNCHANGED <<sequence_number, numbered, encoder, packet_list, nack>>
        /\ pacer' = [step |-> "redundant", bytes_left |-> bytes]
        /\ bytes \in Int
    BY <1>8, SenderAssumption DEF BeginPadding, senderVars, ghostVars
  <2> QED
    BY <1>1, <2>1 DEF PacerType, PacerHolds
<1>9. CASE RedundantDone
  <2>1. /\ UNCHANGED <<sequence_number, numbered, encoder, packet_list, nack>>
        /\ pacer' = [pacer EXCEPT !.step = "padding"]
        /\ pacer \in [step : {"redundant", "padding"}, bytes_left : Int]
    BY <1>0, <1>9, PacerCases DEF RedundantDone, senderVars, ghostVars
  <2> QED
    BY <1>1, <2>1 DEF PacerType, PacerHolds
<1>10. ASSUME NEW transported \in BOOLEAN, SendRedundantPayload(transported)
       PROVE  SenderTypes'
  <2> DEFINE p == GetBestFittingPacket(pacer.bytes_left)
  <2>1. /\ UNCHANGED <<sequence_number, numbered, encoder, packet_list, nack>>
        /\ pacer.step = "redundant"
    BY <1>10 DEF SendRedundantPayload, ghostVars
  <2>2. pacer \in [step : {"redundant", "padding"}, bytes_left : Int]
    BY <1>0, <2>1, PacerCases
  <2>3. \/ pacer' = [pacer EXCEPT !.bytes_left = @ - (p.size - HeaderBytes)]
        \/ pacer' = [pacer EXCEPT !.step = "padding"]
    BY <1>10 DEF SendRedundantPayload
  <2>4. p \in Packet
    BY <1>0, <1>10, <2>2, BestFits DEF SendRedundantPayload, RedundantFits
  <2>5. p.size \in Int /\ HeaderBytes \in Int
    <3> HIDE DEF p
    <3>1. p.size \in PacketSize
      BY <2>4 DEF Packet
    <3>2. p.size \in Nat
      BY <3>1, PacketSizeAssumption
    <3>3. HeaderBytes \in Nat
      BY SenderAssumption
    <3> QED
      BY <3>2, <3>3
  <2> HIDE DEF p
  <2> QED
    BY <1>1, <2>1, <2>2, <2>3, <2>5 DEF PacerType, PacerHolds
<1>11. ASSUME NEW transported \in BOOLEAN, SendPadData(transported)
       PROVE  SenderTypes'
  <2>1. UNCHANGED <<numbered, encoder, packet_list, nack>>
    BY <1>11 DEF SendPadData, ghostVars
  <2>2. /\ pacer \in [step : {"redundant", "padding"}, bytes_left : Int]
        /\ PaddingBytes \in Int
    BY <1>0, <1>11, PacerCases, SenderAssumption DEF SendPadData
  <2>3. pacer' = IF transported THEN [pacer EXCEPT !.bytes_left = @ - PaddingBytes]
                 ELSE Idle
    BY <1>11 DEF SendPadData
  <2>4. pacer' \in PacerType /\ ~PacerHolds' /\ pacer'.step # "fetched"
    BY <2>2, <2>3 DEF PacerType, PacerHolds, Idle
  <2>5. sequence_number' \in SeqNum
    <3>1. CASE rtx = {}
      <4>1. /\ sequence_number \in SeqNum /\ Pos(sequence_number) < MaxNumbers
            /\ sequence_number' = NextSeq(sequence_number)
        BY <1>0, <1>11, <3>1 DEF SendPadData, NumbersLeft, Pos, SenderTypes
      <4> QED
        BY <4>1, NextSeqPos
    <3>2. CASE rtx # {}
      BY <1>0, <1>11, <3>2 DEF SendPadData, SenderTypes
    <3> QED
      BY <3>1, <3>2
  <2> QED
    BY <1>0, <2>1, <2>4, <2>5 DEF SenderTypes
<1> QED
  BY <1>2, <1>3, <1>4, <1>5, <1>6, <1>7, <1>8, <1>9, <1>10, <1>11
  DEF PacerStep

LEMMA NetworkTypes ==
  ASSUME SenderInv, NetworkStep
  PROVE  SenderTypes'
<1>0. /\ nack \in NackType /\ SenderTypes /\ HistoryOK
      /\ packet_list \in Seq(Entry)
  BY DEF SenderInv, SenderTypes
<1>1. ASSUME UNCHANGED <<sequence_number, numbered, encoder, packet_list, pacer>>,
             nack' \in NackType
      PROVE  SenderTypes'
  BY <1>0, <1>1 DEF SenderTypes, PacerHolds
<1>2. ASSUME NEW list \in NackLists, OnReceivedNack(list)
      PROVE  SenderTypes'
  <2>1. UNCHANGED <<sequence_number, numbered, encoder, packet_list, pacer>>
    BY <1>2 DEF OnReceivedNack, senderVars, pacerVars
  <2>2. list \in Seq(SeqNum)
    BY DEF NackLists
  <2>3. nack' = [step |-> "next", list |-> list]
    BY <1>2 DEF OnReceivedNack
  <2> QED
    BY <1>1, <2>1, <2>2, <2>3 DEF NackType
<1>3. ASSUME NEW limiter_allows \in BOOLEAN, ReSendPacket(limiter_allows)
      PROVE  SenderTypes'
  <2> DEFINE s == Head(nack.list)
             p == FetchedPacket(s, MinResendTime, TRUE)
  <2>1. UNCHANGED <<sequence_number, numbered, encoder, packet_list, pacer, now>>
    BY <1>3 DEF ReSendPacket, senderVars, pacerVars
  <2>2. /\ nack \in [step : {"next"}, list : Seq(SeqNum)]
        /\ nack.list \in Seq(SeqNum) /\ nack.list # <<>>
        /\ MinResendTime \in Nat
        /\ GetPacketAndSetSendTime(s, MinResendTime, TRUE)
    BY <1>0, <1>3, NackCases, SenderAssumption DEF ReSendPacket
  <2>3. s \in SeqNum /\ Tail(nack.list) \in Seq(SeqNum)
    BY <2>2, HeadTailProperties
  <2>4. p # NoPacket => p \in Packet
    BY <1>0, <2>1, <2>2, <2>3, GetEffect
  <2>5. \/ nack' = [nack EXCEPT !.list = Tail(@)]
        \/ /\ p # NoPacket
           /\ nack' = [step |-> "insert", list |-> Tail(nack.list),
                       packet |-> p]
        \/ nack' = Idle
    BY <1>3 DEF ReSendPacket
  <2> HIDE DEF p, s
  <2>6. nack' \in NackType
    <3>1. CASE nack' = [nack EXCEPT !.list = Tail(nack.list)]
      <4>1. nack' \in [step : {"next"}, list : Seq(SeqNum)]
        BY <2>2, <2>3, <3>1
      <4> QED
        BY <4>1 DEF NackType
    <3>2. CASE p # NoPacket /\ nack' = [step |-> "insert",
                                       list |-> Tail(nack.list), packet |-> p]
      BY <2>3, <2>4, <3>2 DEF NackType
    <3> QED
      BY <2>5, <3>1, <3>2 DEF NackType
  <2> QED
    BY <1>1, <2>1, <2>6
<1>4. CASE EnqueueRetransmission
  <2>1. UNCHANGED <<sequence_number, numbered, encoder, pacer>>
    BY <1>4 DEF EnqueueRetransmission, senderVars, ghostVars
  <2>2. /\ nack.packet \in Packet /\ InsertPacket(nack.packet, TRUE)
        /\ nack.list \in Seq(SeqNum)
    BY <1>0, <1>4, NackCases DEF EnqueueRetransmission
  <2>3. /\ packet_list' \in Seq(Entry)
        /\ Range(packet_list) \subseteq Range(packet_list')
    BY <1>0, <2>2, PushEffect
  <2>4. nack' \in NackType
    BY <1>4, <2>2 DEF EnqueueRetransmission, NackType
  <2> QED
    BY <1>0, <2>1, <2>3, <2>4 DEF SenderTypes, PacerHolds
<1>5. CASE NackDone
  <2>1. /\ UNCHANGED <<sequence_number, numbered, encoder, packet_list, pacer>>
        /\ nack' = Idle
    BY <1>5 DEF NackDone, senderVars, pacerVars, ghostVars
  <2> QED
    BY <1>1, <2>1 DEF NackType
<1> QED
  BY <1>2, <1>3, <1>4, <1>5 DEF NetworkStep


-----------------------------------------------------------------------------
(* The operations that touch a part of the state.                          *)

LEMMA HistorySteps ==
  ASSUME Next
  PROVE  \/ StorePacket \/ FetchPacket
         \/ \E limiter_allows \in BOOLEAN : ReSendPacket(limiter_allows)
         \/ Clock
         \/ UNCHANGED vars
<1>1. EncoderStep => StorePacket \/ UNCHANGED vars
  BY DEF EncoderStep, AssignSequenceNumber, MediaEncryptFails, EnqueuePacket
<1>2. PacerStep => FetchPacket \/ UNCHANGED vars
  BY DEF PacerStep, BeginPop, TransmitPacket, RtxRefused, FinalizePop,
         CancelPop, BeginPadding, SendRedundantPayload, RedundantDone,
         SendPadData, PaddingDone
<1>3. NetworkStep => \/ \E limiter_allows \in BOOLEAN :
                          ReSendPacket(limiter_allows)
                     \/ UNCHANGED vars
  BY DEF NetworkStep, OnReceivedNack, EnqueueRetransmission, NackDone
<1>4. ASSUME NEW b \in BOOLEAN, SetSendingMediaStatus(b) \/ SetPaused(b)
      PROVE  UNCHANGED vars
  BY <1>4 DEF SetSendingMediaStatus, SetPaused
<1> QED
  BY <1>1, <1>2, <1>3, <1>4 DEF Next

LEMMA NumberSteps ==
  ASSUME Next
  PROVE  \/ \E marker \in BOOLEAN, bytes \in PacketSize,
               storage \in StorageTypes :
              AssignSequenceNumber(marker, bytes, storage)
         \/ \E transported \in BOOLEAN : SendPadData(transported) /\ rtx = {}
         \/ /\ UNCHANGED <<sequence_number, numbered, markers,
                           last_packet_marker_bit>>
            /\ PaddingSeqs' = PaddingSeqs
<1>1. UNCHANGED wire => PaddingSeqs' = PaddingSeqs
  BY DEF PaddingSeqs
<1>1a. ASSUME NEW w, w.kind = "media", wire' = wire \cup {w}
      PROVE  PaddingSeqs' = PaddingSeqs
  BY <1>1a DEF PaddingSeqs
<1>2. EncoderStep =>
        \/ \E marker \in BOOLEAN, bytes \in PacketSize,
              storage \in StorageTypes :
             AssignSequenceNumber(marker, bytes, storage)
        \/ UNCHANGED <<sequence_number, numbered, markers,
                       last_packet_marker_bit, wire>>
  BY DEF EncoderStep, MediaEncryptFails, StorePacket, EnqueuePacket,
         senderVars, ghostVars
<1>3. ASSUME NEW transported \in BOOLEAN, TransmitPacket(transported)
      PROVE  /\ UNCHANGED <<sequence_number, numbered, markers,
                            last_packet_marker_bit>>
             /\ PaddingSeqs' = PaddingSeqs
  <2>1. \/ wire' = wire
        \/ wire' = wire \cup {MediaPacket(pacer.packet.seq)}
        \/ wire' = wire \cup {BuildRtxPacket(pacer.packet.seq)}
    BY <1>3 DEF TransmitPacket
  <2>2. PaddingSeqs' = PaddingSeqs
    BY <1>1, <1>1a, <2>1 DEF MediaPacket, BuildRtxPacket
  <2> QED
    BY <1>3, <2>2 DEF TransmitPacket
<1>4. ASSUME NEW transported \in BOOLEAN, SendRedundantPayload(transported)
      PROVE  /\ UNCHANGED <<sequence_number, numbered, markers,
                            last_packet_marker_bit>>
             /\ PaddingSeqs' = PaddingSeqs
  <2> DEFINE s == GetBestFittingPacket(pacer.bytes_left).seq
  <2>1. wire' = wire \/ wire' = wire \cup {BuildRtxPacket(s)}
    BY <1>4 DEF SendRedundantPayload
  <2>2. PaddingSeqs' = PaddingSeqs
    BY <1>1, <1>1a, <2>1 DEF BuildRtxPacket
  <2> QED
    BY <1>4, <2>2 DEF SendRedundantPayload, ghostVars
<1>5. ASSUME NEW transported \in BOOLEAN, SendPadData(transported), rtx # {}
      PROVE  UNCHANGED <<sequence_number, numbered, markers,
                         last_packet_marker_bit, wire>>
  BY <1>5 DEF SendPadData, ghostVars
<1>6. \/ BeginPop \/ FetchPacket \/ RtxRefused \/ FinalizePop \/ CancelPop
      \/ (\E bytes \in PaddingRequest : BeginPadding(bytes))
      \/ RedundantDone \/ PaddingDone
      => UNCHANGED <<sequence_number, numbered, markers,
                     last_packet_marker_bit, wire>>
  BY DEF BeginPop, FetchPacket, RtxRefused, FinalizePop, CancelPop,
         BeginPadding, RedundantDone, PaddingDone, senderVars, ghostVars
<1>7. NetworkStep => UNCHANGED <<sequence_number, numbered, markers,
                                 last_packet_marker_bit, wire>>
  BY DEF NetworkStep, OnReceivedNack, ReSendPacket, EnqueueRetransmission,
         NackDone, senderVars, ghostVars
<1>8. ASSUME NEW b \in BOOLEAN, SetSendingMediaStatus(b) \/ SetPaused(b) \/ Clock
      PROVE  UNCHANGED <<sequence_number, numbered, markers,
                         last_packet_marker_bit, wire>>
  BY <1>8 DEF SetSendingMediaStatus, SetPaused, Clock, senderVars, ghostVars
<1> QED
  BY <1>1, <1>2, <1>3, <1>4, <1>5, <1>6, <1>7, <1>8 DEF Next, PacerStep

-----------------------------------------------------------------------------
(* The history.                                                            *)

LEMMA HistoryStep ==
  ASSUME SenderInv, Next
  PROVE  HistoryOK'
<1>0. HistoryOK /\ SenderTypes
  BY DEF SenderInv
<1>1. CASE StorePacket
  <2> DEFINE p == encoder.packet
  <2>1. /\ p \in Packet /\ p.seq \in SeqNum /\ encoder.storage \in StorageType
        /\ PutRtpPacket(p, encoder.storage, FALSE) /\ now' = now
        /\ ~Stored(p.seq)
    BY <1>0, <1>1, EncoderCases
    DEF StorePacket, SenderTypes, SenderInv, HeldAreNumbered, HeldSeqs
  <2> HIDE DEF p
  <2>2. PICK at \in Slots' :
          /\ stored_packets'[at].packet.seq = p.seq
          /\ \A i \in Slots' : Occupied(i)' /\ i # at =>
               i \in Slots /\ stored_packets'[i] = stored_packets[i]
    BY <1>0, <2>1, PutEffect
  <2>3. HistoryTypeOK' /\ RingShape' /\ store'
    BY <1>0, <2>1, PutEffect
  <2>4. ASSUME NEW i \in Slots', Occupied(i)', i # at
        PROVE  /\ i \in Slots /\ Occupied(i)
               /\ stored_packets'[i] = stored_packets[i]
               /\ stored_packets'[i].packet.seq # p.seq
    BY <2>1, <2>2, <2>4 DEF Occupied, Stored
  <2>5. ASSUME NEW i \in Slots', NEW j \in Slots', Occupied(i)', Occupied(j)',
               stored_packets'[i].packet.seq = stored_packets'[j].packet.seq
        PROVE  i = j
    BY <1>0, <2>2, <2>4, <2>5 DEF HistoryOK
  <2> QED
    BY <2>3, <2>5 DEF HistoryOK
<1>2. CASE FetchPacket
  <2>1. CASE UNCHANGED historyVars
    BY <1>0, <1>2, <2>1
    DEF FetchPacket, HistoryOK, HistoryTypeOK, RingShape, Slots, Occupied,
        historyVars
  <2>2. CASE GetPacketAndSetSendTime(pacer.entry.seq, 0,
                                     pacer.entry.retransmission)
    <3>1. /\ pacer.entry.seq \in SeqNum /\ now' = now
          /\ pacer.entry.retransmission \in BOOLEAN
      BY <1>0, <1>2, PacerCases DEF FetchPacket, SenderTypes
    <3> QED
      BY <1>0, <2>2, <3>1, GetEffect
  <2> QED
    BY <1>2, <2>1, <2>2 DEF FetchPacket
<1>3. ASSUME NEW limiter_allows \in BOOLEAN, ReSendPacket(limiter_allows)
      PROVE  HistoryOK'
  <2>1. /\ Head(nack.list) \in SeqNum /\ MinResendTime \in Nat /\ now' = now
        /\ GetPacketAndSetSendTime(Head(nack.list), MinResendTime, TRUE)
    BY <1>0, <1>3, NackCases, HeadTailProperties, SenderAssumption
    DEF ReSendPacket, SenderTypes
  <2> QED
    BY <1>0, <2>1, GetEffect
<1>4. CASE Clock
  BY <1>0, <1>4
  DEF Clock, Tick, HistoryOK, HistoryTypeOK, RingShape, Slots, Occupied,
      historyVars
<1>5. CASE UNCHANGED vars
  BY <1>0, <1>5
  DEF vars, HistoryOK, HistoryTypeOK, RingShape, Slots, Occupied, historyVars
<1> QED
  BY <1>1, <1>2, <1>3, <1>4, <1>5, HistorySteps

-----------------------------------------------------------------------------
(* Sequence numbers and padding.                                           *)

LEMMA PaddingRestated ==
  PaddingOnlyBetweenFrames <=>
    \A s \in PaddingSeqs : PrevSeq(s) \in numbered => PrevSeq(s) \in markers
BY DEF PaddingOnlyBetweenFrames, PaddingSeqs

LEMMA NumbersStep ==
  ASSUME SenderInv, Next
  PROVE  NumbersOK' /\ MarkerOK' /\ PaddingOnlyBetweenFrames'
<1> DEFINE x == sequence_number
<1>0. /\ x \in SeqNum /\ numbered \subseteq SeqNum
      /\ NumbersOK /\ MarkerOK /\ PaddingOnlyBetweenFrames
      /\ PaddingSeqs \subseteq SeqNum
      /\ \A s \in SeqNum : Pos(s) \in Nat
  BY PosValue DEF SenderInv, SenderTypes, NumbersOK, SeqNum
<1>1. ASSUME NEW y \in SeqNum, y = x, Pos(y) < MaxNumbers,
             sequence_number' = NextSeq(x),
             numbered' \subseteq numbered \cup {y},
             PaddingSeqs' \subseteq PaddingSeqs \cup {y}
      PROVE  /\ NumbersOK' /\ PrevSeq(sequence_number') = y
             /\ \A s \in PaddingSeqs : PrevSeq(s) # y
             /\ PrevSeq(y) # y
  <2>1. /\ Pos(NextSeq(y)) = Pos(y) + 1 /\ PrevSeq(NextSeq(y)) = y
    BY <1>1, NextSeqPos
  <2>2. NumbersOK'
    <3>1. ASSUME NEW s \in numbered \cup PaddingSeqs \cup {y}
          PROVE  s \in SeqNum /\ Pos(s) < Pos(y) + 1
      BY <1>0, <1>1 DEF NumbersOK
    <3>2. Pos(sequence_number)' = Pos(y) + 1 /\ MaxNumbers \in Nat
      BY <1>1, <2>1, SpaceType DEF Pos
    <3> QED
      BY <1>0, <1>1, <3>1, <3>2 DEF NumbersOK, Pos
  <2>3. ASSUME NEW s \in SeqNum, Pos(s) <= Pos(y) PROVE PrevSeq(s) # y
    <3>1. Pos(PrevSeq(s)) = IF Pos(s) > 0 THEN Pos(s) - 1 ELSE SeqSpace - 1
      BY PrevSeqPos
    <3> QED
      BY <1>0, <1>1, <2>3, <3>1, SpaceType
  <2>4. \A s \in PaddingSeqs : PrevSeq(s) # y
    BY <1>0, <1>1, <2>3 DEF NumbersOK
  <2> QED
    BY <1>0, <1>1, <2>1, <2>2, <2>3, <2>4
<1>2. ASSUME NEW marker \in BOOLEAN, NEW bytes \in PacketSize,
             NEW storage \in StorageTypes,
             AssignSequenceNumber(marker, bytes, storage)
      PROVE  NumbersOK' /\ MarkerOK' /\ PaddingOnlyBetweenFrames'
  <2>1. PICK y \in SeqNum : y = x
    BY <1>0
  <2>2. /\ Pos(y) < MaxNumbers /\ sequence_number' = NextSeq(x)
        /\ numbered' = numbered \cup {y}
        /\ markers' = IF marker THEN markers \cup {y} ELSE markers
        /\ last_packet_marker_bit' = marker /\ wire' = wire
    BY <1>2, <2>1 DEF AssignSequenceNumber, NumbersLeft, Pos
  <2>3. PaddingSeqs' = PaddingSeqs
    BY <2>2 DEF PaddingSeqs
  <2>4. /\ NumbersOK' /\ PrevSeq(sequence_number') = y
        /\ \A s \in PaddingSeqs : PrevSeq(s) # y
    BY <1>1, <2>1, <2>2, <2>3
  <2>5. MarkerOK'
    BY <2>2, <2>4 DEF MarkerOK, PrevSeq
  <2>6. PaddingOnlyBetweenFrames'
    <3>1. \A s \in PaddingSeqs' : PrevSeq(s) \in numbered' => PrevSeq(s) \in markers'
      BY <1>0, <2>2, <2>3, <2>4, PaddingRestated
    <3> QED
      BY <3>1 DEF PaddingOnlyBetweenFrames, PaddingSeqs
  <2> QED
    BY <2>4, <2>5, <2>6
<1>3. ASSUME NEW transported \in BOOLEAN, SendPadData(transported), rtx = {}
      PROVE  NumbersOK' /\ MarkerOK' /\ PaddingOnlyBetweenFrames'
  <2>1. PICK y \in SeqNum : y = x
    BY <1>0
  <2>2. /\ Pos(y) < MaxNumbers /\ sequence_number' = NextSeq(x)
        /\ numbered' = numbered /\ markers' = markers
        /\ last_packet_marker_bit' = last_packet_marker_bit
        /\ last_packet_marker_bit
        /\ wire' \in {wire, wire \cup {[ssrc |-> "media", kind |-> "padding",
                                        seq |-> y]}}
    BY <1>3, <2>1 DEF SendPadData, NumbersLeft, Pos, MayPad, ghostVars
  <2>3. PaddingSeqs' \subseteq PaddingSeqs \cup {y}
    BY <2>2 DEF PaddingSeqs
  <2>4. NumbersOK' /\ PrevSeq(sequence_number') = y
    BY <1>1, <2>1, <2>2, <2>3
  <2>5. y \notin numbered
    BY <1>0, <2>1 DEF NumbersOK
  <2>6. MarkerOK'
    BY <2>2, <2>4, <2>5 DEF MarkerOK, PrevSeq
  <2>7. PaddingOnlyBetweenFrames'
    <3>1. PrevSeq(y) \in numbered => PrevSeq(y) \in markers
      BY <1>0, <2>1, <2>2 DEF MarkerOK
    <3>2. \A s \in PaddingSeqs' : PrevSeq(s) \in numbered' => PrevSeq(s) \in markers'
      BY <1>0, <2>2, <2>3, <3>1, PaddingRestated
    <3> QED
      BY <3>2 DEF PaddingOnlyBetweenFrames, PaddingSeqs
  <2> QED
    BY <2>4, <2>6, <2>7
<1>4. CASE /\ UNCHANGED <<sequence_number, numbered, markers,
                          last_packet_marker_bit>>
           /\ PaddingSeqs' = PaddingSeqs
  <2>1. NumbersOK' /\ MarkerOK'
    BY <1>0, <1>4 DEF NumbersOK, MarkerOK, Pos, PrevSeq
  <2>2. \A s \in PaddingSeqs' : PrevSeq(s) \in numbered' => PrevSeq(s) \in markers'
    BY <1>0, <1>4, PaddingRestated
  <2>3. PaddingOnlyBetweenFrames'
    BY <2>2 DEF PaddingOnlyBetweenFrames, PaddingSeqs
  <2> QED
    BY <2>1, <2>3
<1> QED
  BY <1>2, <1>3, <1>4, NumberSteps


-----------------------------------------------------------------------------
(* What is under way.                                                      *)

(* The steps that neither begin nor end a transmission.                    *)
Quiet ==
  /\ UNCHANGED <<numbered, given_up, encoder, packet_list, marked, historyVars>>
  /\ wire \subseteq wire'
  /\ \/ pacer' = pacer
     \/ pacer.step # "fetched" /\ pacer'.step \notin {"fetched", "done"}
  /\ nack' = nack \/ nack'.step # "insert"

LEMMA SenderSteps ==
  ASSUME SenderInv, Next
  PROVE  \/ \E marker \in BOOLEAN, bytes \in PacketSize,
               storage \in StorageTypes :
              AssignSequenceNumber(marker, bytes, storage)
         \/ MediaEncryptFails \/ StorePacket \/ EnqueuePacket
         \/ FetchPacket
         \/ \E transported \in BOOLEAN : TransmitPacket(transported)
         \/ RtxRefused \/ FinalizePop
         \/ \E limiter_allows \in BOOLEAN : ReSendPacket(limiter_allows)
         \/ EnqueueRetransmission
         \/ Quiet
<1>0. pacer \in PacerType
  BY DEF SenderInv, SenderTypes
<1>1. CASE BeginPop
  BY <1>1 DEF BeginPop, Quiet, vars, ghostVars
<1>2. CASE CancelPop \/ PaddingDone
  BY <1>2 DEF CancelPop, PaddingDone, Quiet, vars, ghostVars, Idle
<1>3. ASSUME NEW bytes \in PaddingRequest, BeginPadding(bytes)
      PROVE  Quiet
  BY <1>3 DEF BeginPadding, Quiet, vars, ghostVars
<1>4. ASSUME NEW transported \in BOOLEAN, SendRedundantPayload(transported)
      PROVE  Quiet
  <2>1. pacer \in [step : {"redundant", "padding"}, bytes_left : Int]
    BY <1>0, <1>4, PacerCases DEF SendRedundantPayload
  <2>2. pacer.step # "fetched" /\ pacer'.step \notin {"fetched", "done"}
    BY <1>4, <2>1 DEF SendRedundantPayload
  <2> QED
    BY <1>4, <2>2 DEF SendRedundantPayload, Quiet, vars, ghostVars
<1>5. CASE RedundantDone
  <2>1. pacer \in [step : {"redundant", "padding"}, bytes_left : Int]
    BY <1>0, <1>5, PacerCases DEF RedundantDone
  <2>2. pacer.step # "fetched" /\ pacer'.step \notin {"fetched", "done"}
    BY <1>5, <2>1 DEF RedundantDone
  <2> QED
    BY <1>5, <2>2 DEF RedundantDone, Quiet, vars, ghostVars
<1>6. ASSUME NEW transported \in BOOLEAN, SendPadData(transported)
      PROVE  Quiet
  <2>1. pacer \in [step : {"redundant", "padding"}, bytes_left : Int]
    BY <1>0, <1>6, PacerCases DEF SendPadData
  <2>2. pacer.step # "fetched" /\ pacer'.step \notin {"fetched", "done"}
    BY <1>6, <2>1 DEF SendPadData, Idle
  <2>3. wire \subseteq wire'
    BY <1>6 DEF SendPadData
  <2> QED
    BY <1>6, <2>2, <2>3 DEF SendPadData, Quiet, vars, ghostVars
<1>7. ASSUME NEW list \in NackLists, OnReceivedNack(list)
      PROVE  Quiet
  BY <1>7 DEF OnReceivedNack, Quiet, vars, pacerVars
<1>8. CASE NackDone
  BY <1>8 DEF NackDone, Quiet, vars, pacerVars, ghostVars, Idle
<1>9. ASSUME NEW b \in BOOLEAN, SetSendingMediaStatus(b) \/ SetPaused(b) \/ Clock
      PROVE  Quiet
  BY <1>9 DEF SetSendingMediaStatus, SetPaused, Clock, Tick, Quiet, vars,
              pacerVars, ghostVars
<1> QED
  BY <1>1, <1>2, <1>3, <1>4, <1>5, <1>6, <1>7, <1>8, <1>9
  DEF Next, EncoderStep, PacerStep, NetworkStep

(* Fetching changes neither what is stored nor what may be resent.         *)
LEMMA GetKeeps ==
  ASSUME HistoryOK, now' = now, NEW s \in SeqNum, NEW t \in Nat,
         NEW retransmit \in BOOLEAN,
         GetPacketAndSetSendTime(s, t, retransmit),
         NEW x
  PROVE  (Stored(x)' <=> Stored(x)) /\ (MayResend(x)' <=> MayResend(x))
<1>1. /\ Slots' = Slots
      /\ \A i \in Slots :
           /\ stored_packets'[i].packet = stored_packets[i].packet
           /\ stored_packets'[i].storage_type = stored_packets[i].storage_type
  BY GetEffect
<1> QED
  BY <1>1 DEF Stored, MayResend, Occupied

LEMMA SameHistory ==
  ASSUME UNCHANGED historyVars, NEW x
  PROVE  (Stored(x)' <=> Stored(x)) /\ (MayResend(x)' <=> MayResend(x))
BY DEF historyVars, Stored, MayResend, Occupied, Slots

(* What FetchPacket and ReSendPacket do to the history.                    *)
LEMMA FetchStored ==
  ASSUME SenderInv, FetchPacket, NEW x
  PROVE  (Stored(x)' <=> Stored(x)) /\ (MayResend(x)' <=> MayResend(x))
<1>1. /\ pacer.entry.seq \in SeqNum /\ now' = now /\ HistoryOK
      /\ pacer.entry.retransmission \in BOOLEAN
  BY PacerCases DEF FetchPacket, SenderInv, SenderTypes
<1>2. CASE UNCHANGED historyVars
  BY <1>2, SameHistory
<1>3. CASE GetPacketAndSetSendTime(pacer.entry.seq, 0,
                                   pacer.entry.retransmission)
  BY <1>1, <1>3, GetKeeps
<1> QED
  BY <1>2, <1>3 DEF FetchPacket

LEMMA ReSendTypes ==
  ASSUME SenderInv, NEW limiter_allows \in BOOLEAN, ReSendPacket(limiter_allows)
  PROVE  /\ Head(nack.list) \in SeqNum /\ MinResendTime \in Nat /\ now' = now
         /\ GetPacketAndSetSendTime(Head(nack.list), MinResendTime, TRUE)
         /\ HistoryOK
BY NackCases, HeadTailProperties, SenderAssumption
DEF ReSendPacket, SenderInv, SenderTypes

LEMMA StoreEffect ==
  ASSUME SenderInv, StorePacket
  PROVE  /\ size \in Nat /\ size' \in Nat /\ size' >= size
         /\ \E at \in Slots' :
              /\ Occupied(at)'
              /\ stored_packets'[at].packet.seq = encoder.packet.seq
              /\ stored_packets'[at].send_time = 0
              /\ \A i \in Slots' :
                   Occupied(i)' /\ i # at =>
                     i \in Slots /\ stored_packets'[i] = stored_packets[i]
              /\ \A i \in Slots : i \in Slots'
              /\ \A i \in Slots : i # at => stored_packets'[i] = stored_packets[i]
              /\ at \in Slots /\ Unsent(at) => size = kMaxCapacity
<1>1. /\ encoder.packet \in Packet /\ encoder.storage \in StorageType
      /\ PutRtpPacket(encoder.packet, encoder.storage, FALSE) /\ now' = now
      /\ HistoryOK /\ size \in Nat
  <2>1. HistoryOK /\ encoder \in EncoderType
    BY DEF SenderInv, SenderTypes
  <2>2. size \in Nat
    BY <2>1, CapacityAssumption DEF HistoryOK, HistoryTypeOK
  <2> QED
    BY <2>1, <2>2, EncoderCases DEF StorePacket
<1>2. PICK p \in Packet, type \in StorageType :
        p = encoder.packet /\ type = encoder.storage
  BY <1>1
<1>3. PutRtpPacket(p, type, FALSE)
  BY <1>1, <1>2
<1>4. /\ size' >= size /\ size' \in Nat
      /\ \E at \in Slots' :
           /\ Occupied(at)'
           /\ stored_packets'[at].packet.seq = p.seq
           /\ stored_packets'[at].send_time = 0
           /\ \A i \in Slots' :
                Occupied(i)' /\ i # at =>
                  i \in Slots /\ stored_packets'[i] = stored_packets[i]
           /\ \A i \in Slots : i \in Slots'
           /\ \A i \in Slots : i # at => stored_packets'[i] = stored_packets[i]
           /\ at \in Slots /\ Unsent(at) => size = kMaxCapacity
  BY <1>1, <1>3, PutEffect
<1> QED
  BY <1>1, <1>2, <1>4

LEMMA HeldStep ==
  ASSUME SenderInv, Next
  PROVE  HeldAreNumbered'
<1>0. SenderTypes /\ HistoryOK /\ HeldAreNumbered /\ NumbersOK
  BY DEF SenderInv
<1>1. ASSUME HeldSeqs' \subseteq HeldSeqs, UNCHANGED <<encoder, numbered>>
      PROVE  HeldAreNumbered'
  BY <1>0, <1>1 DEF HeldAreNumbered, EncoderSeqs
<1>2. ASSUME NEW marker \in BOOLEAN, NEW bytes \in PacketSize,
             NEW storage \in StorageTypes,
             AssignSequenceNumber(marker, bytes, storage)
      PROVE  HeldAreNumbered'
  <2>1. /\ UNCHANGED <<packet_list, nack, historyVars>>
        /\ numbered' = numbered \cup {sequence_number}
        /\ encoder'.step = "numbered" /\ encoder'.packet.seq = sequence_number
    BY <1>2 DEF AssignSequenceNumber, vars, pacerVars
  <2>2. \A s : Stored(s)' <=> Stored(s)
    BY <2>1, SameHistory
  <2>3. HeldSeqs' = HeldSeqs
    BY <2>1, <2>2 DEF HeldSeqs, QueuedSeqs
  <2>4. sequence_number \notin numbered
    BY <1>0, PosValue DEF NumbersOK, SenderTypes, SeqNum
  <2> QED
    BY <1>0, <2>1, <2>3, <2>4 DEF HeldAreNumbered, EncoderSeqs
<1>3. CASE MediaEncryptFails
  <2>1. UNCHANGED <<packet_list, nack, historyVars, numbered>> /\ encoder' = Idle
    BY <1>3 DEF MediaEncryptFails, vars, pacerVars
  <2>2. \A s : Stored(s)' <=> Stored(s)
    BY <2>1, SameHistory
  <2>3. HeldSeqs' = HeldSeqs
    BY <2>1, <2>2 DEF HeldSeqs, QueuedSeqs
  <2> QED
    BY <1>0, <2>1, <2>3 DEF HeldAreNumbered, EncoderSeqs, Idle
<1>4. CASE StorePacket
  <2> DEFINE p == encoder.packet
  <2>1. /\ p \in Packet /\ p.seq \in SeqNum /\ encoder.storage \in StorageType
        /\ encoder \in [step : {"numbered", "stored"}, packet : Packet,
                        storage : StorageType]
        /\ encoder' = [encoder EXCEPT !.step = "stored"]
        /\ encoder.step = "numbered"
        /\ PutRtpPacket(p, encoder.storage, FALSE) /\ now' = now
        /\ UNCHANGED <<packet_list, nack, numbered>>
    BY <1>0, <1>4, EncoderCases DEF StorePacket, SenderTypes, pacerVars, ghostVars
  <2>2. encoder'.step = "stored" /\ encoder'.packet = p
    BY <2>1
  <2>3. ASSUME NEW s, Stored(s)' PROVE Stored(s) \/ s = p.seq
    <3>1. PICK at \in Slots' :
            /\ stored_packets'[at].packet.seq = p.seq
            /\ \A i \in Slots' : Occupied(i)' /\ i # at =>
                 i \in Slots /\ stored_packets'[i] = stored_packets[i]
      BY <1>4, StoreEffect
    <3> HIDE DEF p
    <3> QED
      BY <2>3, <3>1 DEF Stored, Occupied
  <2>4. HeldSeqs' \subseteq HeldSeqs \cup {p.seq}
    BY <2>1, <2>3 DEF HeldSeqs, QueuedSeqs
  <2>5. p.seq \in numbered
    BY <1>0, <2>1 DEF HeldAreNumbered, EncoderSeqs
  <2> QED
    BY <1>0, <2>1, <2>2, <2>4, <2>5 DEF HeldAreNumbered, EncoderSeqs
<1>5. CASE EnqueuePacket
  <2>1. /\ UNCHANGED <<nack, historyVars, numbered>> /\ encoder' = Idle
        /\ encoder.step = "stored" /\ encoder.packet \in Packet
        /\ InsertPacket(encoder.packet, FALSE)
    BY <1>0, <1>5, EncoderCases
    DEF EnqueuePacket, SenderTypes, vars, ghostVars
  <2>2. QueuedSeqs' = QueuedSeqs \cup {encoder.packet.seq}
    BY <1>0, <2>1, PushEffect DEF SenderTypes
  <2>3. \A s : Stored(s)' <=> Stored(s)
    BY <2>1, SameHistory
  <2>4. HeldSeqs' \subseteq HeldSeqs \cup EncoderSeqs
    BY <2>1, <2>2, <2>3 DEF HeldSeqs, EncoderSeqs
  <2> QED
    BY <1>0, <2>1, <2>4 DEF HeldAreNumbered, EncoderSeqs, Idle
<1>6. CASE FetchPacket
  <2>1. UNCHANGED <<packet_list, nack, numbered, encoder>>
    BY <1>6 DEF FetchPacket
  <2>2. HeldSeqs' \subseteq HeldSeqs
    BY <1>6, <2>1, FetchStored DEF HeldSeqs, QueuedSeqs
  <2> QED
    BY <1>1, <2>1, <2>2
<1>7. ASSUME \/ \E transported \in BOOLEAN : TransmitPacket(transported)
             \/ RtxRefused
      PROVE  HeldAreNumbered'
  <2>1. UNCHANGED <<packet_list, nack, numbered, encoder, historyVars>>
    BY <1>7 DEF TransmitPacket, RtxRefused, vars, ghostVars
  <2>2. HeldSeqs' \subseteq HeldSeqs
    BY <2>1, SameHistory DEF HeldSeqs, QueuedSeqs
  <2> QED
    BY <1>1, <2>1, <2>2
<1>8. CASE FinalizePop
  <2>1. UNCHANGED <<nack, numbered, encoder, historyVars>>
    BY <1>8 DEF FinalizePop, vars, ghostVars
  <2>2. QueuedSeqs' \subseteq QueuedSeqs
    BY <1>0, <1>8, FinalizeEffect DEF SenderTypes
  <2>3. HeldSeqs' \subseteq HeldSeqs
    BY <2>1, <2>2, SameHistory DEF HeldSeqs
  <2> QED
    BY <1>1, <2>1, <2>3
<1>9. ASSUME NEW limiter_allows \in BOOLEAN, ReSendPacket(limiter_allows)
      PROVE  HeldAreNumbered'
  <2> DEFINE s == Head(nack.list)
             p == FetchedPacket(s, MinResendTime, TRUE)
  <2>1. /\ s \in SeqNum /\ MinResendTime \in Nat /\ now' = now
        /\ GetPacketAndSetSendTime(s, MinResendTime, TRUE)
    BY <1>9, ReSendTypes
  <2>2. \A x : Stored(x)' <=> Stored(x)
    BY <1>0, <2>1, GetKeeps
  <2>3. p # NoPacket => p.seq = s /\ Fetchable(s, MinResendTime, TRUE)
    BY <1>0, <2>1, GetEffect
  <2>4. p # NoPacket => Stored(s)
    BY <1>0, <2>1, <2>3, StoredIsFound DEF Fetchable
  <2>5. \/ nack' = [nack EXCEPT !.list = Tail(@)]
        \/ p # NoPacket /\ nack' = [step |-> "insert",
                                    list |-> Tail(nack.list), packet |-> p]
        \/ nack' = Idle
    BY <1>9 DEF ReSendPacket
  <2>6. nack \in [step : {"next"}, list : Seq(SeqNum)]
    BY <1>0, <1>9, NackCases DEF ReSendPacket, SenderTypes
  <2> HIDE DEF p, s
  <2>7. nack'.step = "insert" => p # NoPacket /\ nack'.packet = p
    BY <2>5, <2>6 DEF Idle
  <2>8. UNCHANGED <<packet_list, numbered, encoder>>
    BY <1>9 DEF ReSendPacket, pacerVars
  <2>9. HeldSeqs' \subseteq HeldSeqs
    BY <2>1, <2>2, <2>3, <2>4, <2>7, <2>8 DEF HeldSeqs, QueuedSeqs
  <2> QED
    BY <1>1, <2>8, <2>9
<1>10. CASE EnqueueRetransmission
  <2>1. /\ UNCHANGED <<numbered, encoder, historyVars>>
        /\ nack.step = "insert" /\ nack'.step = "next"
        /\ nack.packet \in Packet /\ InsertPacket(nack.packet, TRUE)
    BY <1>0, <1>10, NackCases
    DEF EnqueueRetransmission, SenderTypes, vars, ghostVars
  <2>2. QueuedSeqs' = QueuedSeqs \cup {nack.packet.seq}
    BY <1>0, <2>1, PushEffect DEF SenderTypes
  <2>3. HeldSeqs' \subseteq HeldSeqs
    BY <2>1, <2>2, SameHistory DEF HeldSeqs
  <2> QED
    BY <1>1, <2>1, <2>3
<1>11. CASE Quiet
  <2>1. UNCHANGED <<packet_list, numbered, encoder, historyVars>>
    BY <1>11 DEF Quiet
  <2>2. HeldSeqs' \subseteq HeldSeqs
    BY <1>11, <2>1, SameHistory DEF Quiet, HeldSeqs, QueuedSeqs
  <2> QED
    BY <1>1, <2>1, <2>2
<1> QED
  BY <1>2, <1>3, <1>4, <1>5, <1>6, <1>7, <1>8, <1>9, <1>10, <1>11, SenderSteps


-----------------------------------------------------------------------------
(* No packet is lost: one lemma per operation.                             *)

LossOK == SentOK /\ LeavesWhenTried /\ DoneIsAccounted /\ NotLost

(* Nothing that was tried, or accounted for, is forgotten.                 *)
LEMMA KeepsAccount ==
  ASSUME marked \subseteq marked', wire \subseteq wire', NEW s
  PROVE  /\ Tried(s) => Tried(s)'
         /\ Accounted(s) /\ (Stored(s)' => Stored(s)) => Accounted(s)'
BY DEF Tried, Accounted, MediaPacket, BuildRtxPacket

(* Steps that leave the history, the queue and the encoder alone.          *)
LEMMA QuietLoss ==
  ASSUME SenderInv,
         UNCHANGED <<numbered, encoder, packet_list, historyVars>>,
         given_up \subseteq given_up', marked \subseteq marked',
         wire \subseteq wire',
         \A s : Begun(s) => Begun(s)',
         nack' = nack \/ nack'.step # "insert",
         DoneIsAccounted'
  PROVE  LossOK'
<1>1. \A s : /\ Stored(s)' <=> Stored(s)
             /\ MayResend(s)' <=> MayResend(s)
             /\ Tried(s) => Tried(s)'
             /\ Accounted(s) => Accounted(s)'
  BY SameHistory, KeepsAccount
<1>2. size' = size /\ stored_packets' = stored_packets /\ Slots' = Slots
      /\ \A i : Occupied(i)' <=> Occupied(i)
  BY DEF historyVars, Slots, Occupied
<1>3. SentOK'
  <2>1. ASSUME NEW i \in Slots', Occupied(i)', stored_packets'[i].send_time # 0
        PROVE  Begun(stored_packets[i].packet.seq)'
    <3>1. PICK s : s = stored_packets[i].packet.seq
      OBVIOUS
    <3>2. Begun(s)
      BY <1>2, <2>1, <3>1 DEF SenderInv, SentOK
    <3>3. Begun(s)'
      BY <3>2
    <3> QED
      BY <1>2, <3>1, <3>3 DEF Begun, Tried, MediaPacket
  <2>2. ASSUME NEW e \in Range(packet_list)', e.retransmission
        PROVE  Tried(e.seq)' /\ MayResend(e.seq)'
    BY <1>1, <2>2 DEF SenderInv, SentOK, Range
  <2>3. ASSUME (nack.step = "insert")'
        PROVE  Begun(nack.packet.seq)' /\ MayResend(nack.packet.seq)'
    <3>1. PICK s : s = nack.packet.seq
      OBVIOUS
    <3>2. nack' = nack /\ Begun(s) /\ MayResend(s)
      BY <2>3, <3>1 DEF SenderInv, SentOK
    <3>3. Begun(s)' /\ MayResend(s)' /\ s = nack'.packet.seq
      BY <1>1, <3>1, <3>2
    <3> QED
      BY <3>3 DEF Begun, Tried, MediaPacket, MayResend
  <2> QED
    BY <2>1, <2>2, <2>3 DEF SentOK
<1>4. LeavesWhenTried'
  BY <1>1, <1>2 DEF SenderInv, LeavesWhenTried
<1>5. NotLost'
  BY <1>1, <1>2 DEF SenderInv, NotLost, EncoderSeqs, QueuedSeqs
<1> QED
  BY <1>3, <1>4, <1>5 DEF LossOK

LEMMA QuietStepLoss ==
  ASSUME SenderInv, Quiet
  PROVE  LossOK'
<1>1. \A s : Begun(s) => Begun(s)'
  BY DEF Quiet, Begun, Tried, MediaPacket
<1>2. \A s : Accounted(s) => Accounted(s)'
  BY SameHistory, KeepsAccount DEF Quiet
<1>3. DoneIsAccounted'
  <2>1. CASE pacer' = pacer
    <3>1. size' = size /\ given_up' = given_up
      BY DEF Quiet, historyVars
    <3> SUFFICES ASSUME size < kMaxCapacity, pacer.step = "done"
                 PROVE  /\ \/ pacer.entry.seq \in given_up
                           \/ Accounted(pacer.entry.seq)'
      BY <2>1, <3>1 DEF DoneIsAccounted
    <3>2. PICK s : s = pacer.entry.seq
      OBVIOUS
    <3>3. s \in given_up \/ Accounted(s)
      BY <3>2 DEF SenderInv, DoneIsAccounted
    <3>4. s \in given_up \/ Accounted(s)'
      BY <1>2, <3>3
    <3> QED
      BY <2>1, <3>2, <3>4
      DEF Accounted, MediaPacket, BuildRtxPacket, Stored
  <2>2. CASE pacer'.step \notin {"fetched", "done"}
    BY <2>2 DEF DoneIsAccounted
  <2> QED
    BY <2>1, <2>2 DEF Quiet
<1> QED
  BY <1>1, <1>3, QuietLoss DEF Quiet

LEMMA AssignLoss ==
  ASSUME SenderInv, NEW marker \in BOOLEAN, NEW bytes \in PacketSize,
         NEW storage \in StorageTypes,
         AssignSequenceNumber(marker, bytes, storage)
  PROVE  LossOK'
<1>1. /\ UNCHANGED <<historyVars, packet_list, pacer, nack, wire, given_up,
                     marked>>
      /\ numbered' = numbered \cup {sequence_number}
      /\ encoder.step = "idle" /\ encoder'.step = "numbered"
      /\ encoder'.packet.seq = sequence_number
  BY DEF AssignSequenceNumber, vars, pacerVars
<1>2. /\ size' = size /\ stored_packets' = stored_packets /\ Slots' = Slots
  BY <1>1 DEF historyVars, Slots
<1>3. SentOK' /\ DoneIsAccounted'
  BY <1>1, <1>2
  DEF SenderInv, SentOK, DoneIsAccounted, Occupied, Begun, Tried, MayResend,
      MediaPacket, BuildRtxPacket, Accounted, Stored, Range
<1>4. \A s : /\ Stored(s)' <=> Stored(s)
             /\ Begun(s)' <=> Begun(s)
             /\ Accounted(s)' <=> Accounted(s)
  BY <1>1, SameHistory
  DEF Begun, Tried, MediaPacket, BuildRtxPacket, Accounted
<1>5. LeavesWhenTried'
  BY <1>1, <1>2, <1>4 DEF SenderInv, LeavesWhenTried
<1>6. NotLost'
  BY <1>1, <1>2, <1>4 DEF SenderInv, NotLost, EncoderSeqs, QueuedSeqs
<1> QED
  BY <1>3, <1>5, <1>6 DEF LossOK

LEMMA EncryptFailsLoss ==
  ASSUME SenderInv, MediaEncryptFails
  PROVE  LossOK'
<1>1. /\ UNCHANGED <<historyVars, packet_list, pacer, nack, wire, numbered,
                     marked>>
      /\ given_up' = given_up \cup {encoder.packet.seq}
      /\ encoder.step = "numbered" /\ encoder' = Idle
  BY DEF MediaEncryptFails, vars, pacerVars
<1>2. /\ size' = size /\ stored_packets' = stored_packets /\ Slots' = Slots
  BY <1>1 DEF historyVars, Slots
<1>3. SentOK' /\ DoneIsAccounted'
  BY <1>1, <1>2
  DEF SenderInv, SentOK, DoneIsAccounted, Occupied, Begun, Tried, MayResend,
      MediaPacket, BuildRtxPacket, Accounted, Stored, Range
<1>4. \A s : /\ Stored(s)' <=> Stored(s)
             /\ Begun(s)' <=> Begun(s)
             /\ Accounted(s)' <=> Accounted(s)
  BY <1>1, SameHistory
  DEF Begun, Tried, MediaPacket, BuildRtxPacket, Accounted
<1>5. LeavesWhenTried'
  BY <1>1, <1>2, <1>4 DEF SenderInv, LeavesWhenTried
<1>6. NotLost'
  BY <1>1, <1>2, <1>4 DEF SenderInv, NotLost, EncoderSeqs, QueuedSeqs
<1> QED
  BY <1>3, <1>5, <1>6 DEF LossOK

LEMMA StoreLoss ==
  ASSUME SenderInv, StorePacket
  PROVE  LossOK'
<1>0. /\ UNCHANGED <<packet_list, pacer, nack, wire, numbered, given_up, marked>>
      /\ encoder.step = "numbered"
      /\ encoder' = [encoder EXCEPT !.step = "stored"]
  BY DEF StorePacket, pacerVars, ghostVars
<1>1. PICK c \in SeqNum : c = encoder.packet.seq
  BY <1>0, EncoderCases DEF SenderInv, SenderTypes
<1>2. encoder'.step = "stored" /\ encoder'.packet.seq = c
  BY <1>0, <1>1, EncoderCases DEF SenderInv, SenderTypes
<1>3. PICK at \in Slots' :
        /\ Occupied(at)' /\ stored_packets'[at].packet.seq = c
        /\ stored_packets'[at].send_time = 0
        /\ \A i \in Slots' :
             Occupied(i)' /\ i # at =>
               i \in Slots /\ stored_packets'[i] = stored_packets[i]
        /\ \A i \in Slots : i \in Slots'
        /\ \A i \in Slots : i # at => stored_packets'[i] = stored_packets[i]
        /\ at \in Slots /\ Unsent(at) => size = kMaxCapacity
  BY <1>1, StoreEffect
<1>4. c \notin HeldSeqs
  BY <1>0, <1>1 DEF SenderInv, HeldAreNumbered
<1>5. ASSUME NEW i \in Slots', Occupied(i)', i # at
      PROVE  /\ i \in Slots /\ Occupied(i)
             /\ stored_packets'[i] = stored_packets[i]
  BY <1>3, <1>5 DEF Occupied
<1>6. ASSUME NEW s, s # c
      PROVE  /\ Stored(s)' => Stored(s)
             /\ MayResend(s) => MayResend(s)'
             /\ Begun(s)' <=> Begun(s)
             /\ Tried(s)' <=> Tried(s)
             /\ Accounted(s) => Accounted(s)'
  <2>1. Stored(s)' => Stored(s)
    BY <1>3, <1>5, <1>6 DEF Stored
  <2>2. MayResend(s) => MayResend(s)'
    BY <1>3, <1>5, <1>6 DEF MayResend
  <2>3. (Begun(s)' <=> Begun(s)) /\ (Tried(s)' <=> Tried(s))
    BY <1>0 DEF Begun, Tried, MediaPacket
  <2>4. Accounted(s) => Accounted(s)'
    BY <1>0, <2>1, KeepsAccount
  <2> QED
    BY <2>1, <2>2, <2>3, <2>4
<1>7. SentOK'
  <2>1. ASSUME NEW i \in Slots', Occupied(i)', stored_packets'[i].send_time # 0
        PROVE  Begun(stored_packets[i].packet.seq)'
    <3>1. /\ i \in Slots /\ Occupied(i)
          /\ stored_packets'[i] = stored_packets[i]
      BY <1>3, <1>5, <2>1
    <3>2. PICK s : s = stored_packets[i].packet.seq
      OBVIOUS
    <3>3. Begun(s)
      BY <2>1, <3>1, <3>2 DEF SenderInv, SentOK
    <3>4. Begun(s)'
      BY <1>0, <3>3 DEF Begun, Tried, MediaPacket
    <3> QED
      BY <3>1, <3>2, <3>4 DEF Begun, Tried, MediaPacket
  <2>2. ASSUME NEW e \in Range(packet_list)', e.retransmission
        PROVE  Tried(e.seq)' /\ MayResend(e.seq)'
    <3>1. e \in Range(packet_list) /\ Tried(e.seq) /\ MayResend(e.seq)
      BY <1>0, <2>2 DEF SenderInv, SentOK, Range
    <3>2. e.seq # c
      BY <1>4, <3>1 DEF HeldSeqs, QueuedSeqs, Range
    <3> QED
      BY <1>6, <3>1, <3>2
  <2>3. ASSUME (nack.step = "insert")'
        PROVE  Begun(nack.packet.seq)' /\ MayResend(nack.packet.seq)'
    <3>1. PICK s : s = nack.packet.seq
      OBVIOUS
    <3>2. nack' = nack /\ Begun(s) /\ MayResend(s) /\ s # c
      BY <1>0, <1>4, <2>3, <3>1 DEF SenderInv, SentOK, HeldSeqs
    <3>3. Begun(s)' /\ MayResend(s)' /\ s = nack'.packet.seq
      BY <1>6, <3>1, <3>2
    <3> QED
      BY <3>3 DEF Begun, Tried, MediaPacket, MayResend
  <2> QED
    BY <2>1, <2>2, <2>3 DEF SentOK
<1>8. size' < kMaxCapacity => size < kMaxCapacity /\ size # kMaxCapacity
  BY StoreEffect, CapacityAssumption
<1>9. LeavesWhenTried'
  <2> SUFFICES ASSUME size' < kMaxCapacity, NEW s \in numbered \ given_up
               PROVE  Stored(s)' \/ Begun(s)'
    BY <1>0 DEF LeavesWhenTried
  <2>1. CASE s = c
    BY <1>3, <2>1 DEF Stored
  <2>2. CASE s # c
    <3>1. Stored(s) \/ Begun(s)
      BY <1>1, <1>8, <2>2 DEF SenderInv, LeavesWhenTried
    <3>2. CASE Begun(s)
      BY <1>6, <2>2, <3>2
    <3>3. CASE Stored(s)
      <4>1. PICK i \in Slots : Occupied(i) /\ stored_packets[i].packet.seq = s
        BY <3>3 DEF Stored
      <4>2. CASE i = at
        <5>1. stored_packets[i].send_time # 0
          BY <1>3, <1>8, <4>1, <4>2 DEF Unsent
        <5>2. Begun(s)
          BY <4>1, <5>1 DEF SenderInv, SentOK
        <5> QED
          BY <1>6, <2>2, <5>2
      <4>3. CASE i # at
        BY <1>3, <4>1, <4>3 DEF Stored, Occupied
      <4> QED
        BY <4>2, <4>3
    <3> QED
      BY <3>1, <3>2, <3>3
  <2> QED
    BY <2>1, <2>2
<1>10. DoneIsAccounted'
  <2> SUFFICES ASSUME size' < kMaxCapacity, pacer.step = "done"
               PROVE  \/ pacer.entry.seq \in given_up
                      \/ Accounted(pacer.entry.seq)'
    BY <1>0 DEF DoneIsAccounted
  <2>1. PICK s : s = pacer.entry.seq
    OBVIOUS
  <2>2. s \in QueuedSeqs
    BY <2>1 DEF SenderInv, SenderTypes, PacerHolds, QueuedSeqs, Range
  <2>3. s # c /\ (s \in given_up \/ Accounted(s))
    BY <1>4, <1>8, <2>1, <2>2 DEF SenderInv, DoneIsAccounted, HeldSeqs
  <2>4. s \in given_up \/ Accounted(s)'
    BY <1>6, <2>3
  <2> QED
    BY <1>0, <2>1, <2>4 DEF Accounted, MediaPacket, BuildRtxPacket, Stored
<1>11. NotLost'
  <2>1. EncoderSeqs' = {c} /\ EncoderSeqs = {c} /\ QueuedSeqs' = QueuedSeqs
    BY <1>0, <1>1, <1>2 DEF EncoderSeqs, QueuedSeqs
  <2> QED
    BY <1>0, <1>6, <1>8, <2>1 DEF SenderInv, NotLost
<1> QED
  BY <1>7, <1>9, <1>10, <1>11 DEF LossOK


LEMMA EnqueueLoss ==
  ASSUME SenderInv, EnqueuePacket
  PROVE  LossOK'
<1>0. /\ UNCHANGED <<historyVars, pacer, nack, wire, numbered, given_up, marked>>
      /\ encoder.step = "stored" /\ encoder' = Idle
      /\ InsertPacket(encoder.packet, FALSE)
  BY DEF EnqueuePacket, vars, ghostVars
<1>1. encoder.packet \in Packet /\ packet_list \in Seq(Entry)
  BY <1>0, EncoderCases DEF SenderInv, SenderTypes
<1>2. /\ QueuedSeqs' = QueuedSeqs \cup {encoder.packet.seq}
      /\ \A e \in Range(packet_list') :
           e \in Range(packet_list) \/ ~e.retransmission
  <2>1. PICK p \in Packet : p = encoder.packet
    BY <1>1
  <2>2. /\ QueuedSeqs' = QueuedSeqs \cup {p.seq}
        /\ \/ packet_list' = packet_list
           \/ Range(packet_list') = Range(packet_list) \cup
                {[seq |-> p.seq, capture_time_ms |-> p.capture_time_ms,
                  retransmission |-> FALSE]}
    BY <1>0, <1>1, <2>1, PushEffect
  <2> QED
    BY <2>1, <2>2
<1>3. /\ size' = size /\ stored_packets' = stored_packets /\ Slots' = Slots
  BY <1>0 DEF historyVars, Slots
<1>4. \A s : /\ Stored(s)' <=> Stored(s)
             /\ MayResend(s)' <=> MayResend(s)
             /\ Begun(s)' <=> Begun(s)
             /\ Tried(s)' <=> Tried(s)
             /\ Accounted(s)' <=> Accounted(s)
  BY <1>0, SameHistory
  DEF Begun, Tried, MediaPacket, BuildRtxPacket, Accounted
<1>5. SentOK'
  <2>1. ASSUME NEW e \in Range(packet_list'), e.retransmission
        PROVE  Tried(e.seq)' /\ MayResend(e.seq)'
    BY <1>2, <1>4, <2>1 DEF SenderInv, SentOK
  <2>2. \A i \in Slots' : Occupied(i)' /\ stored_packets'[i].send_time # 0
          => Begun(stored_packets[i].packet.seq)'
    BY <1>0, <1>3
    DEF SenderInv, SentOK, Occupied, Begun, Tried, MediaPacket
  <2>3. (nack.step = "insert" =>
          Begun(nack.packet.seq) /\ MayResend(nack.packet.seq))'
    BY <1>0, <1>3
    DEF SenderInv, SentOK, Occupied, Begun, Tried, MediaPacket, MayResend
  <2> QED
    BY <2>1, <2>2, <2>3 DEF SentOK, Range
<1>6. LeavesWhenTried'
  BY <1>0, <1>3, <1>4 DEF SenderInv, LeavesWhenTried
<1>7. DoneIsAccounted'
  BY <1>0, <1>3
  DEF SenderInv, DoneIsAccounted, Accounted, MediaPacket, BuildRtxPacket,
      Stored, Occupied
<1>8. NotLost'
  BY <1>0, <1>2, <1>3, <1>4 DEF SenderInv, NotLost, EncoderSeqs
<1> QED
  BY <1>5, <1>6, <1>7, <1>8 DEF LossOK

(* A packet is fetched, given up, or gone from the history, after it has   *)
(* been tried before.                                                      *)
LEMMA FetchLoss ==
  ASSUME SenderInv, FetchPacket
  PROVE  LossOK'
<1>0. /\ UNCHANGED <<packet_list, encoder, nack, wire, numbered, marked>>
      /\ pacer.step = "popped" /\ now' = now /\ HistoryOK
      /\ now \in Nat \ {0}
  BY DEF FetchPacket, SenderInv, HistoryOK, HistoryTypeOK
<1>1. PICK s \in SeqNum, again \in BOOLEAN :
        s = pacer.entry.seq /\ again = pacer.entry.retransmission
  BY <1>0, PacerCases DEF SenderInv, SenderTypes
<1>2. /\ pacer \in [step : {"popped", "done", "failed"}, entry : Entry]
      /\ pacer.entry \in Range(packet_list) /\ s \in QueuedSeqs
  BY <1>0, <1>1, PacerCases
  DEF SenderInv, SenderTypes, PacerHolds, QueuedSeqs, Range
<1>3. \A x : /\ Stored(x)' <=> Stored(x)
             /\ MayResend(x)' <=> MayResend(x)
             /\ Tried(x)' <=> Tried(x)
             /\ Begun(x) => Begun(x)'
             /\ Accounted(x)' <=> Accounted(x)
  BY <1>0, FetchStored
  DEF Begun, Tried, MediaPacket, BuildRtxPacket, Accounted
<1>4. given_up \subseteq given_up' /\ size' = size
  <2>1. GetPacketAndSetSendTime(s, 0, again) => size' = size
    BY <1>0, GetEffect
  <2> QED
    BY <1>1, <2>1 DEF FetchPacket, historyVars
<1>5. LeavesWhenTried'
  BY <1>0, <1>3, <1>4 DEF SenderInv, LeavesWhenTried
<1>6. NotLost'
  BY <1>0, <1>3, <1>4 DEF SenderInv, NotLost, EncoderSeqs, QueuedSeqs
<1>7. ASSUME \A i \in Slots' :
               Occupied(i)' /\ stored_packets'[i].send_time # 0
                 => Begun(stored_packets[i].packet.seq)'
      PROVE  SentOK'
  <2>1. ASSUME NEW e \in Range(packet_list'), e.retransmission
        PROVE  Tried(e.seq)' /\ MayResend(e.seq)'
    BY <1>0, <1>3, <2>1 DEF SenderInv, SentOK
  <2>2. ASSUME nack.step = "insert"
        PROVE  (Begun(nack.packet.seq) /\ MayResend(nack.packet.seq))'
    <3>1. PICK x : x = nack.packet.seq
      OBVIOUS
    <3>2. Begun(x)' /\ MayResend(x)'
      BY <1>3, <2>2, <3>1 DEF SenderInv, SentOK
    <3> QED
      BY <1>0, <3>1, <3>2 DEF Begun, Tried, MediaPacket, MayResend
  <2> QED
    BY <1>0, <1>7, <2>1, <2>2 DEF SentOK, Range
<1>8. ASSUME UNCHANGED historyVars
      PROVE  \A i \in Slots' : Occupied(i)' /\ stored_packets'[i].send_time # 0
               => Begun(stored_packets[i].packet.seq)'
  <2> SUFFICES ASSUME NEW i \in Slots, Occupied(i),
                      stored_packets[i].send_time # 0
               PROVE  Begun(stored_packets[i].packet.seq)'
    BY <1>8 DEF historyVars, Slots, Occupied
  <2>1. PICK x : x = stored_packets[i].packet.seq
    OBVIOUS
  <2>2. Begun(x)'
    BY <1>3, <2>1 DEF SenderInv, SentOK
  <2> QED
    BY <1>8, <2>1, <2>2 DEF historyVars, Begun, Tried, MediaPacket
<1>9. CASE /\ pacer' = [pacer EXCEPT !.step = "done"]
           /\ given_up' = given_up \cup {s} /\ UNCHANGED historyVars
  <2>1. pacer'.entry = pacer.entry
    BY <1>2, <1>9
  <2>2. DoneIsAccounted'
    BY <1>1, <1>9, <2>1 DEF DoneIsAccounted
  <2> QED
    BY <1>5, <1>6, <1>7, <1>8, <1>9, <2>2 DEF LossOK
<1>10. CASE /\ GetPacketAndSetSendTime(s, 0, again)
            /\ FetchedPacket(s, 0, again) = NoPacket
            /\ pacer' = [pacer EXCEPT !.step = "done"]
            /\ given_up' = given_up
  <2>1. ~Fetchable(s, 0, again)
    BY <1>0, <1>10, GetEffect
  <2>2. UNCHANGED historyVars
    BY <1>10, <2>1 DEF GetPacketAndSetSendTime
  <2>3. ~Stored(s)
    <3> SUFFICES ASSUME Stored(s) PROVE FALSE
      OBVIOUS
    <3>1. /\ FindSeqNum(s) # NotFound /\ FindSeqNum(s) \in Slots
          /\ Occupied(FindSeqNum(s)) /\ store
          /\ stored_packets[FindSeqNum(s)].packet.seq = s
      BY <1>0, StoredIsFound DEF HistoryOK
    <3>2. again /\ stored_packets[FindSeqNum(s)].storage_type = "kDontRetransmit"
      BY <2>1, <3>1 DEF Fetchable, TooEarly
    <3>3. MayResend(s)
      BY <1>1, <1>2, <3>2 DEF SenderInv, SentOK
    <3> QED
      BY <3>1, <3>2, <3>3 DEF MayResend
  <2>4. DoneIsAccounted'
    <3>1. pacer'.entry.seq = s
      BY <1>1, <1>2, <1>10
    <3> SUFFICES ASSUME size < kMaxCapacity, s \notin given_up
                 PROVE  Accounted(s)'
      BY <1>4, <1>10, <3>1
      DEF DoneIsAccounted, Accounted, MediaPacket, BuildRtxPacket, Stored
    <3>2. /\ s \in numbered
          /\ ~(encoder.step = "numbered" /\ encoder.packet.seq = s)
      BY <1>2 DEF SenderInv, HeldAreNumbered, HeldSeqs
    <3>3. Begun(s)
      BY <2>3, <3>2 DEF SenderInv, LeavesWhenTried
    <3>4. Accounted(s)
      BY <1>0, <2>3, <3>3 DEF Begun, Tried, Accounted
    <3> QED
      BY <1>3, <3>4
  <2> QED
    BY <1>5, <1>6, <1>7, <1>8, <2>2, <2>4 DEF LossOK
<1>11. CASE /\ GetPacketAndSetSendTime(s, 0, again)
            /\ FetchedPacket(s, 0, again) # NoPacket
            /\ pacer' = [step |-> "fetched", entry |-> pacer.entry,
                         packet |-> FetchedPacket(s, 0, again)]
  <2>1. /\ Fetchable(s, 0, again) /\ Slots' = Slots
        /\ \A i \in Slots :
             /\ stored_packets'[i].packet = stored_packets[i].packet
             /\ stored_packets'[i].send_time # stored_packets[i].send_time =>
                  i = FindSeqNum(s)
    BY <1>0, <1>11, GetEffect
  <2>2. stored_packets[FindSeqNum(s)].packet.seq = s
    BY <1>0, <2>1, StoredIsFound DEF Fetchable
  <2>3. pacer'.step = "fetched" /\ pacer'.entry.seq = s
    BY <1>1, <1>11
  <2>4. ASSUME NEW i \in Slots', Occupied(i)',
               stored_packets'[i].send_time # 0
        PROVE  Begun(stored_packets[i].packet.seq)'
    <3>1. PICK x : x = stored_packets[i].packet.seq
      OBVIOUS
    <3>2. /\ i \in Slots /\ Occupied(i)
          /\ stored_packets'[i].packet = stored_packets[i].packet
      BY <2>1, <2>4 DEF Occupied
    <3>3. CASE stored_packets[i].send_time # 0
      <4>1. Begun(x)'
        BY <1>3, <3>1, <3>2, <3>3 DEF SenderInv, SentOK
      <4> QED
        BY <3>1, <3>2, <4>1 DEF Begun, Tried, MediaPacket
    <3>4. CASE stored_packets[i].send_time = 0
      <4>1. x = s
        BY <2>1, <2>2, <2>4, <3>1, <3>2, <3>4
      <4> QED
        BY <2>3, <3>1, <3>2, <4>1 DEF Begun
    <3> QED
      BY <3>3, <3>4
  <2>5. DoneIsAccounted'
    BY <2>3 DEF DoneIsAccounted
  <2> QED
    BY <1>5, <1>6, <1>7, <2>4, <2>5 DEF LossOK
<1> QED
  BY <1>1, <1>9, <1>10, <1>11 DEF FetchPacket, NotFoundResult

LEMMA TransmitLoss ==
  ASSUME SenderInv, NEW transported \in BOOLEAN, TransmitPacket(transported)
  PROVE  LossOK'
<1>0. /\ UNCHANGED <<historyVars, packet_list, encoder, nack, numbered, given_up>>
      /\ pacer.step = "fetched"
      /\ pacer'.step = IF transported THEN "done" ELSE "failed"
      /\ pacer'.entry = pacer.entry
  BY DEF TransmitPacket, vars
<1>1. PICK s \in SeqNum :
        s = pacer.entry.seq /\ s = pacer.packet.seq
  BY <1>0, PacerCases DEF SenderInv, SenderTypes
<1>2. PICK over_rtx \in BOOLEAN :
        /\ over_rtx <=> /\ pacer.entry.retransmission
                        /\ "kRtxRetransmitted" \in rtx
        /\ wire' = IF ~transported THEN wire
                   ELSE IF over_rtx THEN wire \cup {BuildRtxPacket(s)}
                   ELSE wire \cup {MediaPacket(s)}
        /\ marked' = IF transported THEN marked ELSE marked \cup {s}
  BY <1>1 DEF TransmitPacket
<1>3. over_rtx => Tried(s)
  BY <1>0, <1>1, <1>2 DEF SenderInv, SenderTypes, PacerHolds, SentOK
<1>4. marked \subseteq marked' /\ wire \subseteq wire'
  BY <1>2
<1>5. Tried(s)'
  BY <1>2, <1>3 DEF Tried, MediaPacket
<1>6. \A x : Begun(x) => Begun(x)'
  BY <1>0, <1>1, <1>4, <1>5, KeepsAccount DEF Begun
<1>7. DoneIsAccounted'
  <2>1. CASE transported
    <3>1. Accounted(s)'
      BY <1>2, <1>3, <2>1 DEF Tried, Accounted, MediaPacket, BuildRtxPacket
    <3> QED
      BY <1>0, <1>1, <3>1
      DEF DoneIsAccounted, Accounted, MediaPacket, BuildRtxPacket, Stored
  <2>2. CASE ~transported
    BY <1>0, <2>2 DEF DoneIsAccounted
  <2> QED
    BY <2>1, <2>2
<1> QED
  BY <1>0, <1>4, <1>6, <1>7, QuietLoss

LEMMA RtxRefusedLoss ==
  ASSUME SenderInv, RtxRefused
  PROVE  LossOK'
<1>0. /\ UNCHANGED <<historyVars, packet_list, encoder, nack, numbered, given_up,
                     wire, marked>>
      /\ pacer.step = "fetched" /\ pacer'.step = "failed"
      /\ pacer.entry.retransmission
  BY DEF RtxRefused, vars, ghostVars
<1>1. Tried(pacer.entry.seq)
  BY <1>0 DEF SenderInv, SenderTypes, PacerHolds, SentOK
<1>2. \A x : Begun(x) => Begun(x)'
  BY <1>0, <1>1 DEF Begun, Tried, MediaPacket
<1>3. DoneIsAccounted'
  BY <1>0 DEF DoneIsAccounted
<1> QED
  BY <1>0, <1>2, <1>3, QuietLoss

LEMMA FinalizeLoss ==
  ASSUME SenderInv, FinalizePop
  PROVE  LossOK'
<1>0. /\ UNCHANGED <<historyVars, encoder, nack, numbered, given_up, wire, marked>>
      /\ pacer.step = "done" /\ pacer' = Idle
  BY DEF FinalizePop, vars, ghostVars
<1>1. /\ Range(packet_list') \subseteq Range(packet_list)
      /\ QueuedSeqs \subseteq QueuedSeqs' \cup {pacer.entry.seq}
  BY FinalizeEffect DEF SenderInv, SenderTypes
<1>2. /\ size' = size /\ stored_packets' = stored_packets /\ Slots' = Slots
  BY <1>0 DEF historyVars, Slots
<1>3. \A s : /\ Stored(s)' <=> Stored(s)
             /\ MayResend(s)' <=> MayResend(s)
             /\ Begun(s)' <=> Begun(s)
             /\ Tried(s)' <=> Tried(s)
             /\ Accounted(s)' <=> Accounted(s)
  BY <1>0, SameHistory
  DEF Begun, Tried, MediaPacket, BuildRtxPacket, Accounted, Idle
<1>4. SentOK'
  <2>1. ASSUME NEW e \in Range(packet_list'), e.retransmission
        PROVE  Tried(e.seq)' /\ MayResend(e.seq)'
    BY <1>1, <1>3, <2>1 DEF SenderInv, SentOK
  <2>2. \A i \in Slots' : Occupied(i)' /\ stored_packets'[i].send_time # 0
          => Begun(stored_packets[i].packet.seq)'
    BY <1>0, <1>2
    DEF SenderInv, SentOK, Occupied, Begun, Tried, MediaPacket, Idle
  <2>3. (nack.step = "insert" =>
          Begun(nack.packet.seq) /\ MayResend(nack.packet.seq))'
    BY <1>0, <1>2
    DEF SenderInv, SentOK, Occupied, Begun, Tried, MediaPacket, MayResend, Idle
  <2> QED
    BY <2>1, <2>2, <2>3 DEF SentOK, Range
<1>5. LeavesWhenTried'
  BY <1>0, <1>2, <1>3 DEF SenderInv, LeavesWhenTried
<1>6. DoneIsAccounted'
  BY <1>0 DEF DoneIsAccounted, Idle
<1>7. NotLost'
  BY <1>0, <1>1, <1>2, <1>3 DEF SenderInv, NotLost, EncoderSeqs, DoneIsAccounted
<1> QED
  BY <1>4, <1>5, <1>6, <1>7 DEF LossOK


(* A NACK marks the packet it fetches as sent.                             *)
LEMMA ReSendLoss ==
  ASSUME SenderInv, NEW limiter_allows \in BOOLEAN, ReSendPacket(limiter_allows)
  PROVE  LossOK'
<1>0. /\ UNCHANGED <<packet_list, encoder, pacer, wire, numbered, given_up>>
      /\ now' = now /\ HistoryOK /\ nack.step = "next"
  BY DEF ReSendPacket, pacerVars, SenderInv
<1>1. PICK s \in SeqNum, t \in Nat :
        s = Head(nack.list) /\ t = MinResendTime
  BY ReSendTypes
<1> DEFINE p == FetchedPacket(s, t, TRUE)
           f == FindSeqNum(s)
<1>2. /\ GetPacketAndSetSendTime(s, t, TRUE)
      /\ marked' = IF p # NoPacket /\ Unsent(f)
                     THEN marked \cup {s} ELSE marked
      /\ \/ nack' = [nack EXCEPT !.list = Tail(@)]
         \/ p # NoPacket /\ nack' = [step |-> "insert",
                                     list |-> Tail(nack.list), packet |-> p]
         \/ nack' = Idle
  BY <1>1 DEF ReSendPacket
<1>3. /\ Slots' = Slots /\ size' = size
      /\ \A i \in Slots :
           /\ stored_packets'[i].packet = stored_packets[i].packet
           /\ stored_packets'[i].send_time # stored_packets[i].send_time =>
                Fetchable(s, t, TRUE) /\ i = f
      /\ p # NoPacket <=> Fetchable(s, t, TRUE)
      /\ Fetchable(s, t, TRUE) => p.seq = s
  BY <1>0, <1>2, GetEffect
<1>4. Fetchable(s, t, TRUE) =>
        /\ f \in Slots /\ Occupied(f) /\ stored_packets[f].packet.seq = s
        /\ stored_packets[f].storage_type # "kDontRetransmit"
  BY <1>0, StoredIsFound DEF Fetchable
<1>5. nack \in [step : {"next"}, list : Seq(SeqNum)]
  BY <1>0, NackCases DEF SenderInv, SenderTypes
<1> HIDE DEF p, f
<1>6. nack'.step = "insert" => p # NoPacket /\ nack'.packet = p
  BY <1>2, <1>5 DEF Idle
<1>7. marked \subseteq marked' /\ wire \subseteq wire'
  BY <1>0, <1>2
<1>8. \A x : /\ Stored(x)' <=> Stored(x)
             /\ MayResend(x)' <=> MayResend(x)
             /\ Tried(x) => Tried(x)'
             /\ Begun(x) => Begun(x)'
             /\ Accounted(x) => Accounted(x)'
  <2>1. \A x : /\ Stored(x)' <=> Stored(x)
               /\ MayResend(x)' <=> MayResend(x)
    BY <1>0, <1>2, GetKeeps
  <2>2. \A x : /\ Tried(x) => Tried(x)'
               /\ Accounted(x) => Accounted(x)'
    BY <1>7, <2>1, KeepsAccount
  <2> QED
    BY <1>0, <2>1, <2>2 DEF Begun
<1>9. Fetchable(s, t, TRUE) => Begun(s)' /\ MayResend(s)'
  <2> SUFFICES ASSUME Fetchable(s, t, TRUE) PROVE Begun(s)' /\ MayResend(s)'
    OBVIOUS
  <2>1. MayResend(s)
    BY <1>0, <1>4 DEF MayResend, HistoryOK
  <2>2. CASE Unsent(f)
    BY <1>2, <1>3, <1>8, <2>1, <2>2 DEF Begun, Tried
  <2>3. CASE ~Unsent(f)
    <3>1. Begun(s)
      BY <1>4, <2>3 DEF Unsent, SenderInv, SentOK
    <3> QED
      BY <1>8, <2>1, <3>1
  <2> QED
    BY <2>2, <2>3
<1>10. SentOK'
  <2>1. ASSUME NEW i \in Slots', Occupied(i)', stored_packets'[i].send_time # 0
        PROVE  Begun(stored_packets[i].packet.seq)'
    <3>1. PICK x : x = stored_packets[i].packet.seq
      OBVIOUS
    <3>2. /\ i \in Slots /\ Occupied(i)
          /\ stored_packets'[i].packet = stored_packets[i].packet
      BY <1>3, <2>1 DEF Occupied
    <3>3. Begun(x)'
      <4>1. CASE stored_packets[i].send_time # 0
        BY <1>8, <3>1, <3>2, <4>1 DEF SenderInv, SentOK
      <4>2. CASE stored_packets[i].send_time = 0
        <5>1. Fetchable(s, t, TRUE) /\ i = f
          BY <1>3, <2>1, <3>2, <4>2
        <5> QED
          BY <1>4, <1>9, <3>1, <5>1
      <4> QED
        BY <4>1, <4>2
    <3> QED
      BY <3>1, <3>2, <3>3 DEF Begun, Tried, MediaPacket
  <2>2. ASSUME NEW e \in Range(packet_list'), e.retransmission
        PROVE  Tried(e.seq)' /\ MayResend(e.seq)'
    BY <1>0, <1>8, <2>2 DEF SenderInv, SentOK
  <2>3. ASSUME nack'.step = "insert"
        PROVE  (Begun(nack.packet.seq) /\ MayResend(nack.packet.seq))'
    <3>1. Begun(s)' /\ MayResend(s)' /\ nack'.packet.seq = s
      BY <1>3, <1>6, <1>9, <2>3
    <3> QED
      BY <3>1 DEF Begun, Tried, MediaPacket, MayResend
  <2> QED
    BY <2>1, <2>2, <2>3 DEF SentOK, Range
<1>11. LeavesWhenTried'
  BY <1>0, <1>3, <1>8 DEF SenderInv, LeavesWhenTried
<1>12. DoneIsAccounted'
  <2> SUFFICES ASSUME size < kMaxCapacity, pacer.step = "done"
               PROVE  \/ pacer.entry.seq \in given_up
                      \/ Accounted(pacer.entry.seq)'
    BY <1>0, <1>3 DEF DoneIsAccounted
  <2>1. PICK x : x = pacer.entry.seq
    OBVIOUS
  <2>2. x \in given_up \/ Accounted(x)'
    BY <1>8, <2>1 DEF SenderInv, DoneIsAccounted
  <2> QED
    BY <1>0, <2>1, <2>2 DEF Accounted, MediaPacket, BuildRtxPacket, Stored
<1>13. NotLost'
  BY <1>0, <1>3, <1>8 DEF SenderInv, NotLost, EncoderSeqs, QueuedSeqs
<1> QED
  BY <1>10, <1>11, <1>12, <1>13 DEF LossOK

(* A retransmission is queued unless its number is; then it has been tried *)
(* before, since what is being tried is still queued.                      *)
LEMMA RetransmissionLoss ==
  ASSUME SenderInv, EnqueueRetransmission
  PROVE  LossOK'
<1>0. /\ UNCHANGED <<historyVars, pacer, encoder, wire, numbered, given_up,
                     marked>>
      /\ nack.step = "insert" /\ nack'.step = "next"
      /\ InsertPacket(nack.packet, TRUE)
  BY DEF EnqueueRetransmission, vars, ghostVars
<1>1. /\ nack.packet \in Packet /\ packet_list \in Seq(Entry)
      /\ Begun(nack.packet.seq) /\ MayResend(nack.packet.seq)
  BY <1>0, NackCases DEF SenderInv, SenderTypes, SentOK
<1>2. PICK p \in Packet : p = nack.packet
  BY <1>1
<1>3. /\ QueuedSeqs' = QueuedSeqs \cup {p.seq}
      /\ \/ packet_list' = packet_list
         \/ /\ p.seq \notin QueuedSeqs
            /\ Range(packet_list') = Range(packet_list) \cup
                 {[seq |-> p.seq, capture_time_ms |-> p.capture_time_ms,
                   retransmission |-> TRUE]}
  BY <1>0, <1>1, <1>2, PushEffect
<1>4. /\ size' = size /\ stored_packets' = stored_packets /\ Slots' = Slots
  BY <1>0 DEF historyVars, Slots
<1>5. \A s : /\ Stored(s)' <=> Stored(s)
             /\ MayResend(s)' <=> MayResend(s)
             /\ Begun(s)' <=> Begun(s)
             /\ Tried(s)' <=> Tried(s)
             /\ Accounted(s)' <=> Accounted(s)
  BY <1>0, SameHistory
  DEF Begun, Tried, MediaPacket, BuildRtxPacket, Accounted
<1>6. p.seq \notin QueuedSeqs => Tried(p.seq) /\ MayResend(p.seq)
  <2>1. pacer.step = "fetched" => pacer.entry.seq \in QueuedSeqs
    BY DEF SenderInv, SenderTypes, PacerHolds, QueuedSeqs, Range
  <2> QED
    BY <1>1, <1>2, <2>1 DEF Begun
<1>7. SentOK'
  <2>1. ASSUME NEW e \in Range(packet_list'), e.retransmission
        PROVE  Tried(e.seq)' /\ MayResend(e.seq)'
    <3>1. CASE e \in Range(packet_list)
      BY <1>5, <2>1, <3>1 DEF SenderInv, SentOK
    <3>2. CASE e \notin Range(packet_list)
      <4>1. e.seq = p.seq /\ p.seq \notin QueuedSeqs
        BY <1>3, <2>1, <3>2
      <4> QED
        BY <1>5, <1>6, <4>1
    <3> QED
      BY <3>1, <3>2
  <2>2. \A i \in Slots' : Occupied(i)' /\ stored_packets'[i].send_time # 0
          => Begun(stored_packets[i].packet.seq)'
    BY <1>0, <1>4
    DEF SenderInv, SentOK, Occupied, Begun, Tried, MediaPacket
  <2> QED
    BY <1>0, <2>1, <2>2 DEF SentOK, Range
<1>8. LeavesWhenTried'
  BY <1>0, <1>4, <1>5 DEF SenderInv, LeavesWhenTried
<1>9. DoneIsAccounted'
  BY <1>0, <1>4
  DEF SenderInv, DoneIsAccounted, Accounted, MediaPacket, BuildRtxPacket,
      Stored, Occupied
<1>10. NotLost'
  BY <1>0, <1>3, <1>4, <1>5 DEF SenderInv, NotLost, EncoderSeqs
<1> QED
  BY <1>7, <1>8, <1>9, <1>10 DEF LossOK

LEMMA LossStep ==
  ASSUME SenderInv, Next
  PROVE  LossOK'
BY SenderSteps, QuietStepLoss, AssignLoss, EncryptFailsLoss, StoreLoss,
   EnqueueLoss, FetchLoss, TransmitLoss, RtxRefusedLoss, FinalizeLoss,
   ReSendLoss, RetransmissionLoss


-----------------------------------------------------------------------------
(* First transmissions in order.                                           *)

Popped == pacer.step \in {"popped", "fetched"}

(* The steps that leave the queue, and what is taken from it, alone.       *)
SameOrder ==
  /\ packet_list' = packet_list
  /\ now' \in Nat /\ now <= now'
  /\ \/ encoder'.step = "idle"
     \/ encoder.step # "idle" /\ encoder'.packet = encoder.packet
  /\ \/ ~Popped'
     \/ Popped /\ pacer'.entry = pacer.entry

LEMMA OrderSteps ==
  ASSUME SenderInv, Next
  PROVE  \/ \E marker \in BOOLEAN, bytes \in PacketSize,
               storage \in StorageTypes :
              AssignSequenceNumber(marker, bytes, storage)
         \/ EnqueuePacket \/ BeginPop \/ FinalizePop \/ EnqueueRetransmission
         \/ SameOrder
<1>0. pacer \in PacerType /\ encoder \in EncoderType /\ now \in Nat
  BY DEF SenderInv, SenderTypes, HistoryOK, HistoryTypeOK
<1>1. CASE MediaEncryptFails
  BY <1>0, <1>1 DEF MediaEncryptFails, Idle, SameOrder, Popped, vars, pacerVars
<1>2. CASE StorePacket
  <2>1. encoder.step # "idle" /\ encoder'.packet = encoder.packet
    BY <1>0, <1>2, EncoderCases DEF StorePacket
  <2> QED
    BY <1>0, <1>2, <2>1 DEF StorePacket, SameOrder, Popped, pacerVars
<1>3. CASE FetchPacket
  <2>1. /\ pacer \in [step : {"popped", "done", "failed"}, entry : Entry]
        /\ pacer.step = "popped"
    BY <1>0, <1>3, PacerCases DEF FetchPacket
  <2>2. pacer'.entry = pacer.entry
    BY <1>3, <2>1 DEF FetchPacket
  <2> QED
    BY <1>0, <1>3, <2>1, <2>2 DEF FetchPacket, SameOrder, Popped
<1>4. ASSUME NEW transported \in BOOLEAN, TransmitPacket(transported)
      PROVE  SameOrder
  BY <1>0, <1>4 DEF TransmitPacket, SameOrder, Popped, vars
<1>5. CASE RtxRefused \/ CancelPop \/ PaddingDone
  BY <1>0, <1>5
  DEF RtxRefused, CancelPop, PaddingDone, Idle, SameOrder, Popped, vars
<1>6. ASSUME NEW bytes \in PaddingRequest, BeginPadding(bytes)
      PROVE  SameOrder
  BY <1>0, <1>6 DEF BeginPadding, SameOrder, Popped, vars
<1>7. ASSUME NEW transported \in BOOLEAN,
             \/ SendRedundantPayload(transported)
             \/ RedundantDone
             \/ SendPadData(transported)
      PROVE  SameOrder
  <2>1. pacer \in [step : {"redundant", "padding"}, bytes_left : Int]
    BY <1>0, <1>7, PacerCases
    DEF SendRedundantPayload, RedundantDone, SendPadData
  <2>2. pacer'.step \notin {"popped", "fetched"}
    BY <1>7, <2>1 DEF SendRedundantPayload, RedundantDone, SendPadData, Idle
  <2> QED
    BY <1>0, <1>7, <2>2
    DEF SendRedundantPayload, RedundantDone, SendPadData, SameOrder, Popped,
        vars
<1>8. ASSUME NEW list \in NackLists, OnReceivedNack(list)
      PROVE  SameOrder
  BY <1>0, <1>8 DEF OnReceivedNack, SameOrder, Popped, vars, pacerVars
<1>9. ASSUME NEW limiter_allows \in BOOLEAN, ReSendPacket(limiter_allows)
      PROVE  SameOrder
  BY <1>0, <1>9 DEF ReSendPacket, SameOrder, Popped, pacerVars
<1>10. CASE NackDone
  BY <1>0, <1>10 DEF NackDone, SameOrder, Popped, vars, pacerVars
<1>11. ASSUME NEW b \in BOOLEAN,
              SetSendingMediaStatus(b) \/ SetPaused(b) \/ Clock
       PROVE  SameOrder
  BY <1>0, <1>11
  DEF SetSendingMediaStatus, SetPaused, Clock, Tick, SameOrder, Popped, vars,
      pacerVars
<1> QED
  BY <1>1, <1>2, <1>3, <1>4, <1>5, <1>6, <1>7, <1>8, <1>9, <1>10, <1>11
  DEF Next, EncoderStep, PacerStep, NetworkStep

(* What the queue, the encoder and the clock hold.                         *)
LEMMA OrderTypes ==
  ASSUME SenderInv
  PROVE  /\ packet_list \in Seq(Entry) /\ now \in Nat
         /\ DOMAIN packet_list = 1 .. Len(packet_list)
         /\ Len(packet_list) \in Nat
         /\ \A i \in DOMAIN packet_list :
              packet_list[i] \in Entry /\ packet_list[i] \in Range(packet_list)
         /\ \A e \in Range(packet_list) :
              /\ e \in Entry /\ e.capture_time_ms \in Nat
              /\ e.seq \in SeqNum /\ Pos(e.seq) \in Nat
              /\ e.retransmission \in BOOLEAN
              /\ e.seq \in numbered
              /\ \E i \in DOMAIN packet_list : packet_list[i] = e
         /\ encoder.step # "idle" =>
              /\ encoder.packet \in Packet
              /\ encoder.packet.capture_time_ms \in Nat
              /\ encoder.packet.seq \in SeqNum
              /\ Pos(encoder.packet.seq) \in Nat
<1>1. /\ packet_list \in Seq(Entry) /\ now \in Nat
      /\ encoder \in EncoderType
  BY DEF SenderInv, SenderTypes, HistoryOK, HistoryTypeOK
<1>2. /\ DOMAIN packet_list = 1 .. Len(packet_list)
      /\ Len(packet_list) \in Nat
      /\ \A i \in DOMAIN packet_list : packet_list[i] \in Entry
  BY <1>1, LenProperties
<1>3. \A s \in SeqNum : Pos(s) \in Nat
  BY PosValue, SpaceType DEF SeqNum
<1>4. \A e \in Range(packet_list) :
        /\ e \in Entry
        /\ \E i \in DOMAIN packet_list : packet_list[i] = e
        /\ e.seq \in numbered
  BY <1>2 DEF Range, SenderInv, HeldAreNumbered, HeldSeqs, QueuedSeqs
<1>5. \A e \in Entry : /\ e.capture_time_ms \in Nat /\ e.seq \in SeqNum
                       /\ e.retransmission \in BOOLEAN
  BY DEF Entry
<1>6. encoder.step # "idle" =>
        /\ encoder.packet \in Packet
        /\ encoder.packet.capture_time_ms \in Nat
        /\ encoder.packet.seq \in SeqNum
  BY <1>1, EncoderCases DEF Packet
<1>7. \A i \in DOMAIN packet_list : packet_list[i] \in Range(packet_list)
  BY DEF Range
<1> QED
  BY <1>1, <1>2, <1>3, <1>4, <1>5, <1>6, <1>7

LEMMA SameOrderKept ==
  ASSUME SenderInv, SameOrder
  PROVE  QueueOrdered'
<1>1. /\ \A e \in Range(packet_list) : e.capture_time_ms \in Nat
      /\ encoder.step # "idle" => encoder.packet.capture_time_ms \in Nat
      /\ now \in Nat
  BY OrderTypes
<1>2. QueueOrdered
  BY DEF SenderInv
<1>3. Range(packet_list)' = Range(packet_list)
  BY DEF SameOrder, Range
<1> QED
  BY <1>1, <1>2, <1>3 DEF SameOrder, QueueOrdered, Popped, Pos


LEMMA AssignOrder ==
  ASSUME SenderInv, NEW marker \in BOOLEAN, NEW bytes \in PacketSize,
         NEW storage \in StorageTypes,
         AssignSequenceNumber(marker, bytes, storage)
  PROVE  QueueOrdered'
<1>1. /\ UNCHANGED <<packet_list, pacer, now>>
      /\ encoder'.packet.capture_time_ms = now
      /\ encoder'.packet.seq = sequence_number
  BY DEF AssignSequenceNumber, vars, pacerVars
<1>2. /\ \A e \in Range(packet_list) :
           Pos(e.seq) < Pos(sequence_number) /\ e.capture_time_ms \in Nat
      /\ now \in Nat
  BY OrderTypes DEF SenderInv, NumbersOK
<1>3. QueueOrdered /\ Range(packet_list)' = Range(packet_list)
  BY <1>1 DEF SenderInv, Range
<1> QED
  BY <1>1, <1>2, <1>3 DEF QueueOrdered, Pos

(* A packet is enqueued behind those numbered before it.                   *)
LEMMA EnqueueOrder ==
  ASSUME SenderInv, EnqueuePacket
  PROVE  QueueOrdered'
<1>1. /\ UNCHANGED <<pacer, now>> /\ encoder' = Idle
      /\ encoder.step # "idle" /\ InsertPacket(encoder.packet, FALSE)
  BY DEF EnqueuePacket, vars
<1>2. PICK p \in Packet : p = encoder.packet
  BY <1>1, OrderTypes
<1> DEFINE e == [seq |-> p.seq, capture_time_ms |-> p.capture_time_ms,
                 retransmission |-> FALSE]
<1>3. /\ e.seq = p.seq /\ e.capture_time_ms = p.capture_time_ms
      /\ ~e.retransmission /\ e \in Entry
  BY DEF Entry, Packet
<1>4. \/ packet_list' = packet_list
      \/ packet_list' = Append(packet_list, e)
  BY <1>1, <1>2, OrderTypes, PushEffect
<1> HIDE DEF e
<1>5. CASE packet_list' = packet_list
  <2>1. SameOrder
    BY <1>1, <1>5, OrderTypes DEF SameOrder, Idle, Popped
  <2> QED
    BY <2>1, SameOrderKept
<1>6. CASE packet_list' = Append(packet_list, e)
  <2>1. /\ Range(packet_list') = Range(packet_list) \cup {e}
        /\ DOMAIN packet_list' = DOMAIN packet_list \cup {Len(packet_list) + 1}
        /\ \A i \in DOMAIN packet_list :
             packet_list'[i] = packet_list[i] /\ i < Len(packet_list) + 1
        /\ packet_list'[Len(packet_list) + 1] = e
    BY <1>3, <1>6, OrderTypes, AppendRange
  <2>2. QueueOrdered
    BY DEF SenderInv
  <2>3. /\ e.capture_time_ms <= now
        /\ \A x \in Range(packet_list) : ~x.retransmission =>
             /\ x.capture_time_ms <= e.capture_time_ms
             /\ Pos(x.seq) < Pos(e.seq)
    BY <1>1, <1>2, <1>3, <2>2 DEF QueueOrdered
  <2>4. \A x \in Range(packet_list') : ~x.retransmission =>
          x.capture_time_ms <= now'
    BY <1>1, <2>1, <2>2, <2>3 DEF QueueOrdered
  <2>5. ASSUME NEW i \in DOMAIN packet_list', NEW j \in DOMAIN packet_list',
               i < j,
               ~packet_list'[i].retransmission, ~packet_list'[j].retransmission
        PROVE  /\ packet_list'[i].capture_time_ms
                    <= packet_list'[j].capture_time_ms
               /\ Pos(packet_list'[i].seq) < Pos(packet_list'[j].seq)
    <3>1. i \in DOMAIN packet_list
      BY <2>1, <2>5, OrderTypes
    <3>2. CASE j \in DOMAIN packet_list
      BY <2>1, <2>2, <2>5, <3>1, <3>2 DEF QueueOrdered
    <3>3. CASE j = Len(packet_list) + 1
      BY <2>1, <2>3, <2>5, <3>1, <3>3, OrderTypes
    <3> QED
      BY <2>1, <3>2, <3>3
  <2>6. ASSUME Popped, ~pacer.entry.retransmission,
               NEW x \in Range(packet_list'), ~x.retransmission
        PROVE  Pos(pacer.entry.seq) <= Pos(x.seq)
    <3>1. CASE x \in Range(packet_list)
      BY <2>2, <2>6, <3>1 DEF QueueOrdered, Popped
    <3>2. CASE x = e
      <4>1. pacer.entry \in Range(packet_list)
        BY <2>6 DEF SenderInv, SenderTypes, PacerHolds, Popped
      <4>2. Pos(pacer.entry.seq) < Pos(e.seq)
        BY <2>3, <2>6, <4>1
      <4>3. Pos(pacer.entry.seq) \in Int /\ Pos(e.seq) \in Int
        BY <1>1, <1>2, <1>3, <4>1, OrderTypes
      <4> QED
        BY <3>2, <4>2, <4>3
    <3> QED
      BY <2>1, <3>1, <3>2
  <2>7. Range(packet_list)' = Range(packet_list')
    BY DEF Range
  <2> QED
    BY <1>1, <2>4, <2>5, <2>6, <2>7 DEF QueueOrdered, Popped, Idle, Pos
<1> QED
  BY <1>4, <1>5, <1>6

(* Retransmissions are in no order with first transmissions.               *)
LEMMA RetransmissionOrder ==
  ASSUME SenderInv, EnqueueRetransmission
  PROVE  QueueOrdered'
<1>1. /\ UNCHANGED <<pacer, now, encoder>>
      /\ nack.step = "insert" /\ InsertPacket(nack.packet, TRUE)
  BY DEF EnqueueRetransmission, vars
<1>2. PICK p \in Packet : p = nack.packet
  BY <1>1, NackCases DEF SenderInv, SenderTypes
<1> DEFINE e == [seq |-> p.seq, capture_time_ms |-> p.capture_time_ms,
                 retransmission |-> TRUE]
<1>3. e.retransmission /\ e \in Entry
  BY DEF Entry, Packet
<1>4. \/ packet_list' = packet_list
      \/ packet_list' = Append(packet_list, e)
  BY <1>1, <1>2, OrderTypes, PushEffect
<1> HIDE DEF e
<1>5. CASE packet_list' = packet_list
  <2>1. SameOrder
    BY <1>1, <1>5, OrderTypes DEF SameOrder, Popped
  <2> QED
    BY <2>1, SameOrderKept
<1>6. CASE packet_list' = Append(packet_list, e)
  <2>1. /\ Range(packet_list') = Range(packet_list) \cup {e}
        /\ DOMAIN packet_list' = DOMAIN packet_list \cup {Len(packet_list) + 1}
        /\ \A i \in DOMAIN packet_list : packet_list'[i] = packet_list[i]
        /\ packet_list'[Len(packet_list) + 1] = e
    BY <1>3, <1>6, OrderTypes, AppendRange
  <2>2. QueueOrdered
    BY DEF SenderInv
  <2>3. \A x \in Range(packet_list') : ~x.retransmission =>
          x \in Range(packet_list)
    BY <1>3, <2>1
  <2>4. \A i \in DOMAIN packet_list' : ~packet_list'[i].retransmission =>
          i \in DOMAIN packet_list /\ packet_list'[i] = packet_list[i]
    BY <1>3, <2>1
  <2>5. Range(packet_list)' = Range(packet_list')
    BY DEF Range
  <2> QED
    BY <1>1, <2>2, <2>3, <2>4, <2>5 DEF QueueOrdered, Pos
<1> QED
  BY <1>4, <1>5, <1>6

LEMMA FinalizeOrder ==
  ASSUME SenderInv, FinalizePop
  PROVE  QueueOrdered'
<1>1. UNCHANGED <<encoder, now>> /\ pacer' = Idle
  BY DEF FinalizePop, vars
<1>2. PICK k \in 1 .. Len(packet_list) :
        /\ packet_list' \in Seq(Entry)
        /\ Range(packet_list') \subseteq Range(packet_list)
        /\ Len(packet_list') = Len(packet_list) - 1
        /\ \A j \in 1 .. Len(packet_list) - 1 :
             packet_list'[j] = IF j < k THEN packet_list[j]
                                        ELSE packet_list[j + 1]
  BY OrderTypes, FinalizeEffect
<1>3. DOMAIN packet_list' = 1 .. Len(packet_list) - 1
  BY <1>2, LenProperties
<1>4. QueueOrdered
  BY DEF SenderInv
<1>5. ASSUME NEW i \in DOMAIN packet_list', NEW j \in DOMAIN packet_list',
             i < j,
             ~packet_list'[i].retransmission, ~packet_list'[j].retransmission
      PROVE  /\ packet_list'[i].capture_time_ms
                  <= packet_list'[j].capture_time_ms
             /\ Pos(packet_list'[i].seq) < Pos(packet_list'[j].seq)
  <2> DEFINE a == IF i < k THEN i ELSE i + 1
             b == IF j < k THEN j ELSE j + 1
  <2>1. a \in DOMAIN packet_list /\ b \in DOMAIN packet_list /\ a < b
    BY <1>2, <1>3, <1>5, OrderTypes
  <2>2. packet_list'[i] = packet_list[a] /\ packet_list'[j] = packet_list[b]
    BY <1>2, <1>3
  <2> HIDE DEF a, b
  <2> QED
    BY <1>4, <1>5, <2>1, <2>2 DEF QueueOrdered
<1>6. Range(packet_list)' = Range(packet_list')
  BY DEF Range
<1> QED
  BY <1>1, <1>2, <1>4, <1>5, <1>6 DEF QueueOrdered, Idle, Pos

(* The pacer takes the first transmission with the lowest number.          *)
LEMMA BeginPopOrder ==
  ASSUME SenderInv, BeginPop
  PROVE  QueueOrdered'
<1>1. /\ UNCHANGED <<packet_list, encoder, now>>
      /\ pacer'.entry = packet_list[TopIndex] /\ packet_list # <<>>
  BY DEF BeginPop, vars
<1>2. PICK top \in DOMAIN packet_list :
        /\ pacer'.entry = packet_list[top]
        /\ \A j \in DOMAIN packet_list \ {top} : Before(top, j)
  BY <1>1, OrderTypes, TopIsFirst
<1>3. QueueOrdered
  BY DEF SenderInv
<1>4. ASSUME ~packet_list[top].retransmission,
             NEW x \in Range(packet_list), ~x.retransmission
      PROVE  Pos(packet_list[top].seq) <= Pos(x.seq)
  <2>1. PICK j \in DOMAIN packet_list : packet_list[j] = x
    BY OrderTypes
  <2>2. /\ Pos(packet_list[top].seq) \in Int /\ Pos(x.seq) \in Int
        /\ packet_list[top].capture_time_ms \in Nat
        /\ packet_list[j].capture_time_ms \in Nat
        /\ top \in Nat /\ j \in Nat
        /\ packet_list[top].retransmission = packet_list[j].retransmission
    BY <1>4, <2>1, OrderTypes
  <2>3. CASE j = top
    BY <2>1, <2>2, <2>3
  <2>4. CASE j # top
    <3>1. Before(top, j)
      BY <1>2, <2>4
    <3>2. ~(j < top)
      <4> SUFFICES ASSUME j < top PROVE FALSE
        OBVIOUS
      <4>1. packet_list[j].capture_time_ms <= packet_list[top].capture_time_ms
        BY <1>3, <1>4, <2>1 DEF QueueOrdered
      <4> QED
        BY <2>2, <3>1, <4>1 DEF Before
    <3>3. Pos(packet_list[top].seq) < Pos(packet_list[j].seq)
      BY <1>3, <1>4, <2>1, <2>2, <2>4, <3>2 DEF QueueOrdered
    <3> QED
      BY <2>1, <2>2, <3>3
  <2> QED
    BY <2>3, <2>4
<1>5. Range(packet_list)' = Range(packet_list)
  BY <1>1 DEF Range
<1> QED
  BY <1>1, <1>2, <1>3, <1>4, <1>5 DEF QueueOrdered, Pos

LEMMA OrderStep ==
  ASSUME SenderInv, Next
  PROVE  QueueOrdered'
BY OrderSteps, SameOrderKept, AssignOrder, EnqueueOrder, RetransmissionOrder,
   FinalizeOrder, BeginPopOrder


-----------------------------------------------------------------------------
(* The theorems.                                                           *)

LEMMA TypesStep ==
  ASSUME SenderInv, Next
  PROVE  SenderTypes'
<1>1. ASSUME NEW b \in BOOLEAN,
             SetSendingMediaStatus(b) \/ SetPaused(b) \/ Clock
      PROVE  SenderTypes'
  <2>1. UNCHANGED <<sequence_number, numbered, encoder, packet_list, pacer,
                    nack>>
    BY <1>1
    DEF SetSendingMediaStatus, SetPaused, Clock, senderVars, pacerVars,
        ghostVars
  <2> QED
    BY <2>1 DEF SenderInv, SenderTypes, PacerHolds
<1> QED
  BY <1>1, EncoderTypes, PacerTypes, NetworkTypes DEF Next

LEMMA InitSender == Init => SenderInv
<1> SUFFICES ASSUME Init PROVE SenderInv
  OBVIOUS
<1>1. /\ size \in 1 .. kMaxCapacity /\ size \in Nat
      /\ stored_packets = [i \in Slots |-> EmptySlot]
      /\ \A i \in Slots : ~Occupied(i)
  BY InputAssumption, CapacityAssumption DEF Init, Slots, Occupied, EmptySlot
<1>2. HistoryOK
  <2>1. EmptySlot \in StoredPacket
    BY SpaceType DEF EmptySlot, StoredPacket, StorageType, SeqNum
  <2>2. HistoryTypeOK
    BY <1>1, <2>1 DEF Init, HistoryTypeOK
  <2>3. RingShape
    BY <1>1 DEF Init, RingShape
  <2> QED
    BY <1>1, <2>2, <2>3 DEF Init, HistoryOK
<1>3. /\ Range(packet_list) = {} /\ QueuedSeqs = {} /\ DOMAIN packet_list = {}
      /\ packet_list \in Seq(Entry)
  BY DEF Init, Range, QueuedSeqs
<1>4. SenderTypes
  BY <1>3, SenderAssumption
  DEF Init, SenderTypes, Idle, EncoderType, PacerType, NackType, PacerHolds
<1>5. NumbersOK
  <2>1. FirstSeq \in SeqNum /\ Pos(FirstSeq) = 0
    BY SpaceType, PosValue DEF SeqNum
  <2> QED
    BY <2>1, SpaceType DEF Init, NumbersOK, PaddingSeqs
<1>6. HeldAreNumbered /\ MarkerOK /\ PaddingOnlyBetweenFrames
  BY <1>1, <1>3
  DEF Init, Idle, HeldAreNumbered, HeldSeqs, EncoderSeqs, MarkerOK,
      PaddingOnlyBetweenFrames, Stored
<1>7. SentOK /\ LeavesWhenTried /\ DoneIsAccounted /\ NotLost
  BY <1>1, <1>3
  DEF Init, Idle, SentOK, LeavesWhenTried, DoneIsAccounted, NotLost
<1>8. QueueOrdered
  BY <1>3 DEF Init, Idle, QueueOrdered
<1> QED
  BY <1>2, <1>4, <1>5, <1>6, <1>7, <1>8 DEF SenderInv

LEMMA StutterSender ==
  ASSUME SenderInv, UNCHANGED allVars
  PROVE  SenderInv'
<1>1. /\ UNCHANGED <<store, stored_packets, size, prev_index, now>>
      /\ UNCHANGED <<sequence_number, last_packet_marker_bit, encoder,
                     packet_list, pacer, nack, wire, numbered, markers,
                     given_up, marked>>
  BY DEF allVars, vars, historyVars, senderVars, pacerVars, ghostVars
<1>2. SenderTypes' /\ HistoryOK' /\ NumbersOK' /\ HeldAreNumbered'
  BY <1>1
  DEF SenderInv, SenderTypes, PacerHolds, Range, HistoryOK, HistoryTypeOK,
      RingShape, Slots, Occupied, NumbersOK, Pos, PaddingSeqs,
      HeldAreNumbered, HeldSeqs, QueuedSeqs, EncoderSeqs, Stored
<1>3. MarkerOK' /\ PaddingOnlyBetweenFrames'
  BY <1>1 DEF SenderInv, MarkerOK, PrevSeq, PaddingOnlyBetweenFrames
<1>4. Quiet /\ SameOrder
  <2>1. now \in Nat
    BY DEF SenderInv, HistoryOK, HistoryTypeOK
  <2>2. encoder.step = "idle" \/ encoder.step # "idle"
    OBVIOUS
  <2> QED
    BY <1>1, <2>1, <2>2 DEF Quiet, historyVars, SameOrder, Popped
<1>5. LossOK' /\ QueueOrdered'
  BY <1>4, QuietStepLoss, SameOrderKept
<1> QED
  BY <1>2, <1>3, <1>5 DEF SenderInv, LossOK

(* The inductive invariant of the paced send path.                         *)
THEOREM SenderInvariant == Spec => []SenderInv
<1>1. ASSUME SenderInv, [Next]_allVars PROVE SenderInv'
  <2>1. CASE Next
    BY <1>1, <2>1, TypesStep, HistoryStep, NumbersStep, HeldStep, LossStep,
       OrderStep
    DEF SenderInv, LossOK
  <2>2. CASE UNCHANGED allVars
    BY <1>1, <2>2, StutterSender
  <2> QED
    BY <1>1, <2>1, <2>2
<1> QED
  BY <1>1, InitSender, PTL DEF Spec

(* The type invariant: an entry that the pacer works on is in its queue.   *)
THEOREM SenderTypesHold == Spec => []TypeOK
<1>1. ASSUME SenderInv PROVE TypeOK
  <2>1. SenderTypes /\ HistoryTypeOK
    BY <1>1 DEF SenderInv, HistoryOK
  <2>2. /\ encoder.step \in {"idle", "numbered", "stored"}
        /\ encoder.step # "idle" => encoder.packet \in Packet
    BY <2>1, EncoderCases DEF SenderTypes
  <2>3. /\ pacer.step \in {"idle", "popped", "fetched", "done", "failed",
                           "redundant", "padding"}
        /\ nack.step \in {"idle", "next", "insert"}
    BY <2>1, PacerCases, NackCases DEF SenderTypes
  <2> QED
    BY <2>1, <2>2, <2>3 DEF TypeOK, SenderTypes, PacerHolds
<1> QED
  BY <1>1, SenderInvariant, PTL

(* No numbered packet disappears between the encoder and the transport,    *)
(* for every history size and capacity, RTX mode and number of NACKs.      *)
THEOREM NoMediaLostHolds == Spec => []NoMediaLost
<1>1. ASSUME SenderInv PROVE NoMediaLost
  <2>1. \A s \in numbered : HasRtpPacket(s) <=> Stored(s)
    BY <1>1, StoredIsFound DEF SenderInv, SenderTypes
  <2> QED
    BY <1>1, <2>1 DEF SenderInv, NotLost, Accounted, NoMediaLost
<1> QED
  BY <1>1, SenderInvariant, PTL

(* Padding with a media sequence number never splits a frame.              *)
THEOREM PaddingHolds == Spec => []PaddingOnlyBetweenFrames
<1>1. SenderInv => PaddingOnlyBetweenFrames
  BY DEF SenderInv
<1> QED
  BY <1>1, SenderInvariant, PTL

(* Only a transmission from the queue puts a media packet on the wire.     *)
LEMMA MediaSent ==
  ASSUME SenderInv, [Next]_allVars,
         NEW w \in wire' \ wire, w = MediaPacket(w.seq),
         ~pacer.entry.retransmission
  PROVE  /\ pacer.step = "fetched" /\ w.seq = pacer.entry.seq
         /\ pacer.entry \in Range(packet_list)
<1>1. w.ssrc = "media" /\ w.kind = "media"
  BY DEF MediaPacket
<1>2. ASSUME NEW transported \in BOOLEAN, TransmitPacket(transported)
      PROVE  /\ pacer.step = "fetched" /\ w.seq = pacer.entry.seq
             /\ pacer.entry \in Range(packet_list)
  <2>1. pacer.step = "fetched" /\ w = MediaPacket(pacer.packet.seq)
    BY <1>2 DEF TransmitPacket
  <2> QED
    BY <2>1 DEF MediaPacket, SenderInv, SenderTypes, PacerHolds
<1>3. ASSUME NEW transported \in BOOLEAN,
             SendRedundantPayload(transported) \/ SendPadData(transported)
      PROVE  FALSE
  BY <1>1, <1>3 DEF SendRedundantPayload, SendPadData, BuildRtxPacket
<1>4. CASE UNCHANGED wire
  BY <1>4
<1> QED
  BY <1>2, <1>3, <1>4
  DEF Next, EncoderStep, PacerStep, NetworkStep, allVars,
      AssignSequenceNumber, MediaEncryptFails, StorePacket, EnqueuePacket,
      BeginPop, FetchPacket, RtxRefused, FinalizePop, CancelPop, BeginPadding,
      RedundantDone, PaddingDone, OnReceivedNack, ReSendPacket,
      EnqueueRetransmission, NackDone, SetSendingMediaStatus, SetPaused, Clock

(* Media leaves in sequence number order: no packet with an older number   *)
(* waits for its first transmission when one is transmitted.               *)
THEOREM InOrderHolds == Spec => FirstTransmissionsInOrder
<1>1. ASSUME SenderInv, [Next]_allVars,
             NEW w \in wire' \ wire, w = MediaPacket(w.seq),
             ~pacer.entry.retransmission,
             NEW e \in Range(packet_list), e.seq # w.seq,
             (w.seq - e.seq) % SeqSpace < SeqSpace \div 2,
             ~e.retransmission
      PROVE  FALSE
  <2>1. /\ Popped /\ w.seq = pacer.entry.seq
        /\ pacer.entry \in Range(packet_list)
    BY <1>1, MediaSent DEF Popped
  <2>2. Pos(w.seq) <= Pos(e.seq)
    BY <1>1, <2>1 DEF SenderInv, QueueOrdered, Popped
  <2>3. /\ w.seq \in SeqNum /\ w.seq \in numbered
        /\ e.seq \in SeqNum /\ e.seq \in numbered
    BY <1>1, <2>1, OrderTypes
  <2>4. \A s \in SeqNum : Pos(s) \in Int
    BY PosValue DEF SeqNum
  <2>5. Pos(w.seq) <= MaxNumbers /\ Pos(e.seq) <= MaxNumbers
    BY <1>1, <2>3, <2>4, SpaceType DEF SenderInv, NumbersOK, SenderTypes
  <2>6. Pos(e.seq) <= Pos(w.seq)
    BY <1>1, <2>3, <2>5, OlderPos
  <2>7. Pos(e.seq) = Pos(w.seq)
    BY <2>2, <2>3, <2>4, <2>6
  <2> QED
    BY <1>1, <2>3, <2>7, PosInjective
<1>2. ASSUME SenderInv, [Next]_allVars
      PROVE  \A w \in wire' \ wire :
               w = MediaPacket(w.seq) /\ ~pacer.entry.retransmission =>
                 \A e \in Range(packet_list) :
                   e.seq # w.seq /\ (w.seq - e.seq) % SeqSpace < SeqSpace \div 2
                     => e.retransmission
  BY <1>1, <1>2
<1> QED
  BY <1>2, SenderInvariant, PTL DEF Spec, FirstTransmissionsInOrder
=============================================================================

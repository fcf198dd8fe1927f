---------------------- MODULE RtpPacketHistoryProofs ----------------------
(***************************************************************************)
(* Proofs about the packet history, for every capacity, sequence number    *)
(* space and set of packets.  The inductive invariant is HistoryTypeOK     *)
(* together with RingShape; the exactness of the lookup follows from it.   *)
(***************************************************************************)
EXTENDS RtpPacketHistory, SequenceLemmas, NaturalsInduction

LEMMA EmptySlotType == EmptySlot \in StoredPacket
BY SeqSpaceAssumption DEF EmptySlot, StoredPacket, SeqNum, StorageType

(* When the vector grows it grows by at least one slot and stays within    *)
(* its capacity.                                                           *)
LEMMA ExpandedSizeBounds ==
  ASSUME size \in 1 .. kMaxCapacity, size < kMaxCapacity
  PROVE  ExpandedSize \in size + 1 .. kMaxCapacity
BY CapacityAssumption DEF ExpandedSize

(* Init and every operation keep the types and the shape of the ring.      *)
LEMMA InitRing == HistoryInit => HistoryTypeOK /\ RingShape
<1> SUFFICES ASSUME HistoryInit PROVE HistoryTypeOK /\ RingShape
  OBVIOUS
<1>1. Slots = {}
  BY DEF HistoryInit, Slots
<1>2. stored_packets \in [Slots -> StoredPacket]
  BY <1>1 DEF HistoryInit
<1>3. HistoryTypeOK
  <2>1. size \in 0 .. kMaxCapacity /\ prev_index \in Nat /\ now \in Nat \ {0}
    BY CapacityAssumption DEF HistoryInit
  <2> QED
    BY <1>2, <2>1 DEF HistoryInit, HistoryTypeOK
<1>4. RingShape
  BY <1>1 DEF RingShape
<1> QED
  BY <1>3, <1>4

LEMMA SetStoreRing ==
  ASSUME HistoryTypeOK, RingShape, now' = now,
         NEW enable \in BOOLEAN, NEW n \in NumberToStore,
         SetStorePacketsStatus(enable, n)
  PROVE  HistoryTypeOK' /\ RingShape'
<1>1. n \in 1 .. kMaxCapacity
  BY InputAssumption
<1>2. size' \in 0 .. kMaxCapacity
  BY <1>1, CapacityAssumption DEF SetStorePacketsStatus
<1>3. stored_packets' = [i \in Slots' |-> EmptySlot]
  BY DEF SetStorePacketsStatus, Slots
<1>4. HistoryTypeOK'
  BY <1>1, <1>2, <1>3, EmptySlotType, CapacityAssumption
  DEF SetStorePacketsStatus, HistoryTypeOK, Slots
<1>5. RingShape'
  <2>1. \A i \in Slots' : stored_packets'[i] = EmptySlot
    BY <1>3
  <2>2. \A i \in Slots' : ~Occupied(i)'
    BY <2>1 DEF Occupied, EmptySlot
  <2>3. prev_index' = 0 /\ \A i \in Slots' : ~(i < prev_index')
    BY <1>2 DEF SetStorePacketsStatus, Slots
  <2> QED
    BY <2>1, <2>2, <2>3 DEF RingShape
<1> QED
  BY <1>4, <1>5

LEMMA PutRing ==
  ASSUME HistoryTypeOK, RingShape, now' = now,
         NEW p \in Packet, NEW type \in StorageType, NEW sent \in BOOLEAN,
         PutRtpPacket(p, type, sent)
  PROVE  HistoryTypeOK' /\ RingShape'
<1>1. CASE ~store
  BY <1>1 DEF PutRtpPacket, historyVars, HistoryTypeOK, RingShape, Slots,
              Occupied
<1>2. CASE store
  <2> DEFINE n == IF MustExpand THEN ExpandedSize ELSE size
             at == IF MustExpand THEN size ELSE prev_index
             captured == IF p.capture_time_ms <= 0
                           THEN [p EXCEPT !.capture_time_ms = now]
                           ELSE p
             slot == [sequence_number |-> p.seq,
                      send_time |-> IF sent THEN now ELSE 0,
                      storage_type |-> type,
                      has_been_retransmitted |-> FALSE,
                      packet |-> captured]
  <2>1. /\ size \in 1 .. kMaxCapacity /\ prev_index \in 0 .. size - 1
        /\ now \in Nat /\ now # 0
    BY <1>2, CapacityAssumption DEF HistoryTypeOK, Slots
  <2>2. n \in size .. kMaxCapacity /\ at \in 0 .. n - 1
    BY <2>1, ExpandedSizeBounds, CapacityAssumption DEF MustExpand
  <2>3. p \in Packet
    OBVIOUS
  <2>4. captured \in Packet /\ captured.seq = p.seq
    BY <2>1, <2>3 DEF Packet
  <2>5. slot \in StoredPacket
    BY <2>1, <2>3, <2>4 DEF StoredPacket, Packet
  <2>6. slot.packet # NoPacket /\ slot.sequence_number = slot.packet.seq
    BY <2>4, NoPacketAssumption
  <2>7. /\ size' = n
        /\ stored_packets' =
             [i \in 0 .. n - 1 |-> IF i = at THEN slot
                                   ELSE IF i < size THEN stored_packets[i]
                                   ELSE EmptySlot]
        /\ prev_index' = IF at + 1 >= n THEN 0 ELSE at + 1
        /\ store' = store
    BY <1>2, Zenon DEF PutRtpPacket, InsertIndex, IndexAfter
  <2> HIDE DEF n, at, captured, slot
  <2>8. Slots' = 0 .. n - 1
    BY <2>7 DEF Slots
  <2>9. HistoryTypeOK'
    <3>1. \A i \in 0 .. n - 1 : stored_packets'[i] \in StoredPacket
      BY <2>2, <2>5, <2>7, EmptySlotType DEF HistoryTypeOK, Slots
    <3>2. stored_packets' \in [Slots' -> StoredPacket]
      BY <2>7, <2>8, <3>1
    <3>3. prev_index' \in 0 .. n - 1
      BY <2>1, <2>2, <2>7
    <3> QED
      BY <1>2, <2>1, <2>2, <2>7, <2>8, <3>2, <3>3, CapacityAssumption
      DEF HistoryTypeOK
  <2>10. \A i \in Slots' :
           IF Occupied(i)'
             THEN stored_packets'[i].sequence_number
                    = stored_packets'[i].packet.seq
             ELSE stored_packets'[i] = EmptySlot
    <3> SUFFICES ASSUME NEW i \in Slots'
                 PROVE  IF stored_packets'[i].packet # NoPacket
                          THEN stored_packets'[i].sequence_number
                                 = stored_packets'[i].packet.seq
                          ELSE stored_packets'[i] = EmptySlot
      BY DEF Occupied
    <3>1. CASE i = at
      BY <2>6, <2>7, <2>8, <3>1
    <3>2. CASE i # at /\ i < size
      <4>1. stored_packets'[i] = stored_packets[i] /\ i \in Slots
        BY <2>1, <2>2, <2>7, <2>8, <3>2 DEF Slots
      <4> QED
        BY <4>1 DEF RingShape, Occupied
    <3>3. CASE i # at /\ ~(i < size)
      BY <2>7, <2>8, <3>3 DEF EmptySlot
    <3> QED
      BY <3>1, <3>2, <3>3
  <2>11. \/ \A i \in Slots' : Occupied(i)'
         \/ \A i \in Slots' : Occupied(i)' <=> i < prev_index'
    <3>1. ASSUME NEW i \in 0 .. n - 1
          PROVE  Occupied(i)' <=> (i = at \/ (i < size /\ Occupied(i)))
      BY <2>6, <2>7, <3>1 DEF Occupied, EmptySlot
    <3>2. CASE \A i \in Slots : Occupied(i)
      <4>1. \A i \in 0 .. n - 1 : Occupied(i)' <=> (i = at \/ i < size)
        BY <2>1, <2>2, <3>1, <3>2 DEF Slots
      <4>2. CASE MustExpand
        BY <2>1, <2>2, <2>7, <2>8, <4>1, <4>2 DEF at
      <4>3. CASE ~MustExpand
        BY <2>1, <2>2, <2>8, <4>1, <4>3 DEF n
      <4> QED
        BY <4>2, <4>3
    <3>3. CASE \A i \in Slots : Occupied(i) <=> i < prev_index
      <4>1. ~MustExpand
        BY <1>2, <2>1, <3>3 DEF MustExpand, Unsent, Slots
      <4>2. n = size /\ at = prev_index
        BY <4>1 DEF n, at
      <4>3. \A i \in Slots' : Occupied(i)' <=> (i < at + 1)
        <5> SUFFICES ASSUME NEW i \in 0 .. n - 1
                     PROVE  Occupied(i)' <=> (i < at + 1)
          BY <2>8
        <5>1. i \in Slots
          BY <4>2 DEF Slots
        <5>2. Occupied(i) <=> i < prev_index
          BY <3>3, <5>1
        <5>3. Occupied(i)' <=> (i = at \/ (i < size /\ Occupied(i)))
          BY <3>1
        <5> QED
          BY <2>1, <4>2, <5>1, <5>2, <5>3 DEF Slots
      <4> QED
        BY <2>1, <2>7, <2>8, <4>2, <4>3
    <3> QED
      BY <3>2, <3>3 DEF RingShape
  <2> QED
    BY <2>9, <2>10, <2>11 DEF RingShape
<1> QED
  BY <1>1, <1>2

LEMMA GetRing ==
  ASSUME HistoryTypeOK, RingShape, now' = now,
         NEW s \in SeqNum, NEW t \in Nat, NEW retransmit \in BOOLEAN,
         GetPacketAndSetSendTime(s, t, retransmit)
  PROVE  HistoryTypeOK' /\ RingShape'
<1>1. CASE ~Fetchable(s, t, retransmit)
  BY <1>1 DEF GetPacketAndSetSendTime, historyVars, HistoryTypeOK, RingShape,
              Slots, Occupied
<1>2. CASE Fetchable(s, t, retransmit)
  <2> DEFINE f == FindSeqNum(s)
  <2>1. f \in Slots
    BY <1>2 DEF Fetchable, FindSeqNum, Matches
  <2>2. /\ stored_packets' =
             [stored_packets EXCEPT ![f].has_been_retransmitted = @ \/ retransmit,
                                    ![f].send_time = now]
        /\ store' = store /\ size' = size /\ prev_index' = prev_index
    BY <1>2 DEF GetPacketAndSetSendTime
  <2> HIDE DEF f
  <2>3. \A i \in Slots : stored_packets[i] \in StoredPacket
    BY DEF HistoryTypeOK
  <2>4. \A i \in Slots :
          /\ stored_packets'[i] \in StoredPacket
          /\ stored_packets'[i].packet = stored_packets[i].packet
          /\ stored_packets'[i].sequence_number
               = stored_packets[i].sequence_number
          /\ i # f => stored_packets'[i] = stored_packets[i]
    BY <2>1, <2>2, <2>3 DEF StoredPacket, HistoryTypeOK
  <2>5. HistoryTypeOK'
    BY <2>2, <2>4 DEF HistoryTypeOK, Slots
  <2>6. Occupied(f)
    BY <1>2 DEF Fetchable, FindSeqNum, f, NotFound, Slots
  <2>7. RingShape'
    <3>1. Slots' = Slots /\ \A i \in Slots : Occupied(i)' <=> Occupied(i)
      BY <2>2, <2>4 DEF Slots, Occupied
    <3>2. \A i \in Slots : ~Occupied(i) => stored_packets'[i] = stored_packets[i]
      BY <2>4, <2>6
    <3>3. \/ \A i \in Slots' : Occupied(i)'
          \/ \A i \in Slots' : Occupied(i)' <=> i < prev_index'
      BY <2>2, <3>1 DEF RingShape
    <3>4. ASSUME NEW i \in Slots
          PROVE  IF Occupied(i)'
                   THEN stored_packets'[i].sequence_number
                          = stored_packets'[i].packet.seq
                   ELSE stored_packets'[i] = EmptySlot
      BY <2>4, <3>1, <3>2 DEF RingShape
    <3> QED
      BY <3>1, <3>3, <3>4 DEF RingShape
  <2> QED
    BY <2>5, <2>7
<1> QED
  BY <1>1, <1>2

(* The type invariant and the shape of the ring, for every history.  They  *)
(* are proved together: PutRtpPacket only grows a full ring because of the *)
(* shape, and the shape is about slots that exist because of the types.    *)
THEOREM RingInvariant == HistorySpec => [](HistoryTypeOK /\ RingShape)
<1>1. HistoryInit => HistoryTypeOK /\ RingShape
  BY InitRing
<1>2. HistoryTypeOK /\ RingShape /\ [HistoryNext]_vars
        => HistoryTypeOK' /\ RingShape'
  <2> SUFFICES ASSUME HistoryTypeOK, RingShape, [HistoryNext]_vars
               PROVE  HistoryTypeOK' /\ RingShape'
    OBVIOUS
  <2>1. ASSUME NEW enable \in BOOLEAN, NEW n \in NumberToStore,
               SetStorePacketsStatus(enable, n), UNCHANGED now
        PROVE  HistoryTypeOK' /\ RingShape'
    BY <2>1, SetStoreRing
  <2>2. ASSUME NEW p \in NewPacket, NEW type \in StorageType,
               NEW sent \in BOOLEAN,
               PutRtpPacket(p, type, sent), UNCHANGED now
        PROVE  HistoryTypeOK' /\ RingShape'
    BY <2>2, PutRing, InputAssumption
  <2>3. ASSUME NEW s \in SeqNum, NEW t \in MinElapsed,
               NEW retransmit \in BOOLEAN,
               GetPacketAndSetSendTime(s, t, retransmit), UNCHANGED now
        PROVE  HistoryTypeOK' /\ RingShape'
    BY <2>3, GetRing, InputAssumption
  <2>4. CASE Tick
    BY <2>4 DEF Tick, historyVars, HistoryTypeOK, RingShape, Slots, Occupied
  <2>5. CASE UNCHANGED vars
    BY <2>5 DEF vars, historyVars, HistoryTypeOK, RingShape, Slots, Occupied
  <2> QED
    BY <2>1, <2>2, <2>3, <2>4, <2>5 DEF HistoryNext
<1> QED
  BY <1>1, <1>2, PTL DEF HistorySpec

(* The type invariant on its own: the ring never holds a slot outside its  *)
(* capacity, and prev_index_ points into it whenever packets are stored.   *)
THEOREM HistoryTypesHold == HistorySpec => []HistoryTypeOK
BY RingInvariant, PTL

(* Every slot up to the latest one holds a packet, if any slot does: the   *)
(* fast path of FindSeqNum for sequence number 0 cannot hit an unused slot.*)
LEMMA GuessOccupied ==
  ASSUME HistoryTypeOK, RingShape, store,
         NEW i \in Slots, Occupied(i),
         NEW g \in Slots, g <= LatestIndex
  PROVE  Occupied(g)
BY DEF HistoryTypeOK, RingShape, LatestIndex, Slots

LEMMA LookupInvariant == HistoryTypeOK /\ RingShape => LookupExact
<1> SUFFICES ASSUME HistoryTypeOK, RingShape, store, NEW s \in SeqNum
             PROVE  IF \E i \in Slots :
                         Occupied(i) /\ stored_packets[i].packet.seq = s
                      THEN /\ FindSeqNum(s) \in Slots
                           /\ Occupied(FindSeqNum(s))
                           /\ stored_packets[FindSeqNum(s)].packet.seq = s
                      ELSE FindSeqNum(s) = NotFound
  BY DEF LookupExact
<1>0. /\ size \in Nat /\ size >= 1 /\ prev_index \in 0 .. size - 1
      /\ NotFound \notin Slots
  BY CapacityAssumption DEF HistoryTypeOK, Slots, NotFound
<1>1. FindSeqNum(s) # NotFound =>
        /\ FindSeqNum(s) \in Matches(s)
        /\ Occupied(FindSeqNum(s))
  BY DEF FindSeqNum
<1>2. \A m \in Matches(s) :
        /\ m \in Slots
        /\ Occupied(m) => stored_packets[m].packet.seq = s
  BY DEF Matches, RingShape
<1>3. ASSUME NEW i \in Slots, Occupied(i), stored_packets[i].packet.seq = s
      PROVE  FindSeqNum(s) # NotFound
  <2>1. i \in Matches(s)
    BY <1>3 DEF Matches, RingShape
  <2>2. LatestIndex \in Slots
    BY <1>0 DEF LatestIndex, Slots
  <2>3. GuessIndex(s) \in Slots
    BY <2>2 DEF GuessIndex
  <2>4. CASE GuessIndex(s) \in Matches(s)
    <3>1. stored_packets[GuessIndex(s)].sequence_number = s
      BY <2>4 DEF Matches
    <3>2. Occupied(GuessIndex(s))
      <4> SUFFICES ASSUME ~Occupied(GuessIndex(s)) PROVE FALSE
        OBVIOUS
      <4>1. s = 0
        BY <2>3, <3>1 DEF RingShape, EmptySlot
      <4>2. stored_packets[LatestIndex].sequence_number \in Nat
        BY <2>2, SeqSpaceAssumption
        DEF HistoryTypeOK, StoredPacket, SeqNum
      <4>3. GuessIndex(s) <= LatestIndex
        BY <2>2, <4>1, <4>2 DEF GuessIndex, Slots
      <4> QED
        BY <1>3, <2>3, <4>3, GuessOccupied
    <3> QED
      BY <1>0, <2>3, <2>4, <3>2 DEF FindSeqNum
  <2>5. CASE GuessIndex(s) \notin Matches(s)
    <3>1. \E m \in Matches(s) : \A k \in Matches(s) : m <= k
      <4>1. Matches(s) \in SUBSET Nat
        BY <1>0 DEF Matches, Slots
      <4> QED
        BY <2>1, <4>1, LeastElement
    <3>2. /\ FirstMatch(s) \in Matches(s)
          /\ FirstMatch(s) <= i
      BY <2>1, <3>1 DEF FirstMatch
    <3>3. Occupied(FirstMatch(s))
      <4>1. FirstMatch(s) \in Slots
        BY <3>2, <1>2
      <4> QED
        BY <1>0, <1>3, <3>2, <4>1 DEF RingShape, Slots
    <3> QED
      BY <1>0, <1>2, <2>1, <2>5, <3>2, <3>3 DEF FindSeqNum
  <2> QED
    BY <2>4, <2>5
<1> QED
  BY <1>1, <1>2, <1>3

(* FindSeqNum is exact in every reachable history.                         *)
THEOREM LookupIsExact == HistorySpec => []LookupExact
BY RingInvariant, LookupInvariant, PTL

(* A packet waiting for the pacer survives every operation but a purge, as *)
(* long as the history can still grow.                                     *)
THEOREM UnsentPacketsAreKept == HistorySpec => UnsentPacketsKept
<1> DEFINE Kept ==
      \/ size = kMaxCapacity
      \/ \E enable \in BOOLEAN, n \in NumberToStore :
            SetStorePacketsStatus(enable, n)
      \/ \A i \in Slots :
            Unsent(i) => /\ i \in 0 .. size' - 1
                         /\ stored_packets'[i].packet = stored_packets[i].packet
<1>1. HistoryTypeOK /\ RingShape /\ [HistoryNext]_vars => [Kept]_vars
  <2> SUFFICES ASSUME HistoryTypeOK, RingShape, HistoryNext,
                      size # kMaxCapacity,
                      ~(\E enable \in BOOLEAN, n \in NumberToStore :
                          SetStorePacketsStatus(enable, n)),
                      NEW i \in Slots, Unsent(i)
               PROVE  /\ i \in 0 .. size' - 1
                      /\ stored_packets'[i].packet = stored_packets[i].packet
    OBVIOUS
  <2>0. /\ size \in 1 .. kMaxCapacity /\ size < kMaxCapacity
        /\ i \in 0 .. size - 1 /\ store
    BY CapacityAssumption DEF HistoryTypeOK, Slots
  <2>1. ASSUME NEW p \in NewPacket, NEW type \in StorageType,
               NEW sent \in BOOLEAN, PutRtpPacket(p, type, sent)
        PROVE  /\ i \in 0 .. size' - 1
               /\ stored_packets'[i] = stored_packets[i]
    <3>1. CASE MustExpand
      <4>1. ExpandedSize \in size + 1 .. kMaxCapacity
        BY <2>0, ExpandedSizeBounds
      <4> QED
        BY <2>0, <2>1, <3>1, <4>1 DEF PutRtpPacket, InsertIndex, IndexAfter
    <3>2. CASE ~MustExpand
      <4>1. prev_index # i
        BY <2>0, <3>2 DEF MustExpand
      <4> QED
        BY <2>0, <2>1, <3>2, <4>1 DEF PutRtpPacket, InsertIndex, IndexAfter
    <3> QED
      BY <3>1, <3>2
  <2>2. ASSUME NEW s \in SeqNum, NEW t \in MinElapsed,
               NEW retransmit \in BOOLEAN,
               GetPacketAndSetSendTime(s, t, retransmit)
        PROVE  /\ i \in 0 .. size' - 1
               /\ stored_packets'[i].packet = stored_packets[i].packet
    <3>1. stored_packets[i] \in StoredPacket
      BY DEF HistoryTypeOK
    <3>2. CASE Fetchable(s, t, retransmit)
      <4>1. FindSeqNum(s) \in Slots
        BY <3>2 DEF Fetchable, FindSeqNum, Matches
      <4> QED
        BY <2>0, <2>2, <3>1, <3>2, <4>1
        DEF GetPacketAndSetSendTime, HistoryTypeOK, StoredPacket
    <3> QED
      BY <2>0, <2>2, <3>2 DEF GetPacketAndSetSendTime, historyVars
  <2>3. CASE Tick
    BY <2>0, <2>3 DEF Tick, historyVars
  <2> QED
    BY <2>1, <2>2, <2>3 DEF HistoryNext
<1> QED
  BY <1>1, RingInvariant, PTL DEF HistorySpec, UnsentPacketsKept
=============================================================================

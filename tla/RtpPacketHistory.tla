------------------------- MODULE RtpPacketHistory -------------------------
(***************************************************************************)
(* The send-side RTP packet history                                        *)
(* (modules/rtp_rtcp/source/rtp_packet_history.cc).                        *)
(*                                                                         *)
(* A vector of slots used as a ring.  prev_index_ is the slot the next     *)
(* packet goes to.  When that slot still holds a packet the pacer has not  *)
(* sent, the vector grows and the new packet goes behind the old end,      *)
(* which breaks the correspondence between slot order and sequence number  *)
(* order that FindSeqNum's fast path relies on.  Every public operation    *)
(* runs under critsect_, so each is one atomic action here.                *)
(***************************************************************************)
EXTENDS Integers

CONSTANTS
  kMaxCapacity,    \* Largest number of slots (9600 in the code).
  SeqSpace,        \* Size of the sequence number space (2^16 in the code).
  PacketSize,      \* The packet sizes in bytes that occur.
  kMinPacketRequestBytes, \* Smallest request of GetBestFittingPacket (50).
  NoPacket,        \* The null packet pointer.
  NewPacket,       \* The packets handed to PutRtpPacket.
  NumberToStore,   \* The sizes handed to SetStorePacketsStatus.
  MinElapsed,      \* The minimum times between two retransmissions, in ms.
  MaxTime          \* Bound on the clock.

SeqNum == 0 .. SeqSpace - 1

Packet == [seq : SeqNum, size : PacketSize, capture_time_ms : Nat]

StorageType == {"kDontRetransmit", "kAllowRetransmission"}

StoredPacket ==
  [sequence_number : SeqNum, send_time : Nat, storage_type : StorageType,
   has_been_retransmitted : BOOLEAN, packet : Packet \cup {NoPacket}]

(* A default-constructed slot: its sequence number is 0, a legal one.      *)
EmptySlot ==
  [sequence_number |-> 0, send_time |-> 0, storage_type |-> "kDontRetransmit",
   has_been_retransmitted |-> FALSE, packet |-> NoPacket]

ASSUME CapacityAssumption == kMaxCapacity \in Nat \ {0}
ASSUME SeqSpaceAssumption == SeqSpace \in Nat \ {0}
ASSUME PacketSizeAssumption == PacketSize \subseteq Nat
ASSUME NoPacketAssumption == NoPacket \notin Packet
ASSUME InputAssumption ==
  /\ NewPacket \subseteq Packet
  /\ NumberToStore \subseteq 1 .. kMaxCapacity
  /\ MinElapsed \subseteq Nat
  /\ MaxTime \in Nat

VARIABLES
  store,           \* store_: packets are being kept.
  stored_packets,  \* stored_packets_: a function on 0 .. size - 1.
  size,            \* stored_packets_.size().
  prev_index,      \* prev_index_: the slot the next packet is written to.
  now              \* clock_: the current time in ms; 0 means "not sent".

historyVars == <<store, stored_packets, size, prev_index>>

Slots == 0 .. size - 1
Occupied(i) == stored_packets[i].packet # NoPacket
Unsent(i) == Occupied(i) /\ stored_packets[i].send_time = 0

-----------------------------------------------------------------------------
(* Lookup.                                                                 *)

NotFound == -1

(* The slot of the packet stored last.                                     *)
LatestIndex == IF prev_index > 0 THEN prev_index - 1 ELSE size - 1

(* The slot the wanted packet is in if sequence numbers are consecutive.   *)
GuessIndex(s) ==
  LET idx == LatestIndex - (stored_packets[LatestIndex].sequence_number - s)
  IN  IF idx \in Slots THEN idx ELSE LatestIndex

Matches(s) == {m \in Slots : stored_packets[m].sequence_number = s}

FirstMatch(s) == CHOOSE m \in Matches(s) : \A k \in Matches(s) : m <= k

(* Fault: an unused slot counts as a match for sequence number 0.          *)
FindSeqNumUnchecked(s) ==
  IF Matches(s) = {} THEN NotFound
  ELSE IF GuessIndex(s) \in Matches(s) THEN GuessIndex(s) ELSE FirstMatch(s)

FindSeqNum(s) ==
  LET index == IF GuessIndex(s) \notin Matches(s) /\ Matches(s) # {}
                 THEN FirstMatch(s)
                 ELSE GuessIndex(s)
  IN  IF index \in Matches(s) /\ Occupied(index) THEN index ELSE NotFound

HasRtpPacket(s) == store /\ FindSeqNum(s) # NotFound

(* The first slot whose packet's size is nearest to the requested one.     *)
FindBestFittingPacket(bytes) ==
  LET Diff(i) == IF stored_packets[i].packet.size > bytes
                   THEN stored_packets[i].packet.size - bytes
                   ELSE bytes - stored_packets[i].packet.size
      Candidates == {i \in Slots : Occupied(i)}
      Best == {i \in Candidates : \A j \in Candidates : Diff(i) <= Diff(j)}
  IN  IF bytes < kMinPacketRequestBytes \/ Candidates = {}
        THEN NotFound
        ELSE CHOOSE i \in Best : \A j \in Best : i <= j

GetBestFittingPacket(bytes) ==
  IF store /\ FindBestFittingPacket(bytes) # NotFound
    THEN stored_packets[FindBestFittingPacket(bytes)].packet
    ELSE NoPacket

-----------------------------------------------------------------------------
(* Operations that change the history.                                     *)

(* Fault: turning storing on again keeps the old packets.                  *)
SetStoreKeepsPackets(enable, number_to_store) ==
  /\ store' = enable
  /\ prev_index' = 0
  /\ size' = IF enable THEN number_to_store ELSE 0
  /\ stored_packets' =
       [i \in 0 .. size' - 1 |-> IF i < size THEN stored_packets[i]
                                             ELSE EmptySlot]

(* Turning storing on while it is on purges the history first.             *)
SetStorePacketsStatus(enable, number_to_store) ==
  /\ store' = enable
  /\ prev_index' = 0
  /\ size' = IF enable THEN number_to_store ELSE 0
  /\ stored_packets' = [i \in 0 .. size' - 1 |-> EmptySlot]

(* Fault: the buffer never grows.                                          *)
MustExpandNever == FALSE

(* The slot the next packet would overwrite waits for the pacer.           *)
MustExpand == Unsent(prev_index) /\ size < kMaxCapacity

ExpandedSize ==
  LET grown == IF (size * 3) \div 2 > size + 1 THEN (size * 3) \div 2
                                               ELSE size + 1
  IN  IF grown < kMaxCapacity THEN grown ELSE kMaxCapacity

(* The slot the next packet is written to.                                 *)
InsertIndex == IF MustExpand THEN size ELSE prev_index

(* Fault: the ring wraps one slot late.                                    *)
IndexAfterLate(at, n) == IF at + 1 > n THEN 0 ELSE at + 1

IndexAfter(at, n) == IF at + 1 >= n THEN 0 ELSE at + 1

PutRtpPacket(packet, type, sent) ==
  IF ~store THEN UNCHANGED historyVars
  ELSE LET n == IF MustExpand THEN ExpandedSize ELSE size
           captured == IF packet.capture_time_ms <= 0
                         THEN [packet EXCEPT !.capture_time_ms = now]
                         ELSE packet
           slot == [sequence_number |-> packet.seq,
                    send_time |-> IF sent THEN now ELSE 0,
                    storage_type |-> type,
                    has_been_retransmitted |-> FALSE,
                    packet |-> captured]
       IN  /\ size' = n
           /\ stored_packets' =
                [i \in 0 .. n - 1 |-> IF i = InsertIndex THEN slot
                                      ELSE IF i < size THEN stored_packets[i]
                                      ELSE EmptySlot]
           /\ prev_index' = IndexAfter(InsertIndex, n)
           /\ UNCHANGED store

(* A retransmission comes too early when the packet has been retransmitted *)
(* before and was last fetched less than min_elapsed_time_ms ago.          *)
TooEarly(i, min_elapsed_time_ms, retransmit) ==
  /\ min_elapsed_time_ms > 0
  /\ retransmit
  /\ stored_packets[i].has_been_retransmitted
  /\ now - stored_packets[i].send_time < min_elapsed_time_ms

Fetchable(s, min_elapsed_time_ms, retransmit) ==
  /\ store
  /\ FindSeqNum(s) # NotFound
  /\ ~TooEarly(FindSeqNum(s), min_elapsed_time_ms, retransmit)
  /\ ~(/\ retransmit
       /\ stored_packets[FindSeqNum(s)].storage_type = "kDontRetransmit")

(* What GetPacketAndSetSendTime returns, and what it does to the history.  *)
FetchedPacket(s, min_elapsed_time_ms, retransmit) ==
  IF Fetchable(s, min_elapsed_time_ms, retransmit)
    THEN stored_packets[FindSeqNum(s)].packet
    ELSE NoPacket

GetPacketAndSetSendTime(s, min_elapsed_time_ms, retransmit) ==
  IF ~Fetchable(s, min_elapsed_time_ms, retransmit)
    THEN UNCHANGED historyVars
    ELSE /\ stored_packets' =
              [stored_packets EXCEPT
                 ![FindSeqNum(s)].has_been_retransmitted = @ \/ retransmit,
                 ![FindSeqNum(s)].send_time = now]
         /\ UNCHANGED <<store, size, prev_index>>

HistoryInit ==
  /\ store = FALSE
  /\ size = 0
  /\ stored_packets = [i \in 0 .. -1 |-> EmptySlot]
  /\ prev_index = 0
  /\ now = 1

Tick == /\ now < MaxTime
        /\ now' = now + 1
        /\ UNCHANGED historyVars

HistoryNext ==
  \/ \E enable \in BOOLEAN, n \in NumberToStore :
       SetStorePacketsStatus(enable, n) /\ UNCHANGED now
  \/ \E p \in NewPacket, type \in StorageType, sent \in BOOLEAN :
       PutRtpPacket(p, type, sent) /\ UNCHANGED now
  \/ \E s \in SeqNum, t \in MinElapsed, retransmit \in BOOLEAN :
       GetPacketAndSetSendTime(s, t, retransmit) /\ UNCHANGED now
  \/ Tick

vars == <<historyVars, now>>

HistorySpec == HistoryInit /\ [][HistoryNext]_vars

-----------------------------------------------------------------------------
(* Properties.                                                             *)

(* The types of the members of RtpPacketHistory; storing is on exactly     *)
(* when the vector has slots.                                              *)
HistoryTypeOK ==
  /\ store \in BOOLEAN
  /\ size \in 0 .. kMaxCapacity
  /\ stored_packets \in [Slots -> StoredPacket]
  /\ prev_index \in Nat
  /\ now \in Nat \ {0}
  /\ IF store THEN prev_index \in Slots ELSE size = 0 /\ prev_index = 0

(* The slots fill up from the front: until the ring has been filled once   *)
(* (since the last resize) exactly the slots before prev_index_ hold a     *)
(* packet, and afterwards all do.  An unused slot is a default slot, and a *)
(* used one carries its packet's sequence number.                          *)
RingShape ==
  /\ \/ \A i \in Slots : Occupied(i)
     \/ \A i \in Slots : Occupied(i) <=> i < prev_index
  /\ \A i \in Slots :
       IF Occupied(i)
         THEN stored_packets[i].sequence_number = stored_packets[i].packet.seq
         ELSE stored_packets[i] = EmptySlot

(* FindSeqNum finds a packet with the wanted sequence number whenever one  *)
(* is stored, and nothing otherwise: neither the fast path's guess after a *)
(* discontinuity nor an unused slot, whose sequence number 0 is also that  *)
(* of a real packet, misleads it (the RTC_DCHECK_EQ in                     *)
(* GetPacketAndSetSendTime, and its null dereference, depend on this).     *)
LookupExact ==
  store =>
    \A s \in SeqNum :
      IF \E i \in Slots : Occupied(i) /\ stored_packets[i].packet.seq = s
        THEN /\ FindSeqNum(s) \in Slots
             /\ Occupied(FindSeqNum(s))
             /\ stored_packets[FindSeqNum(s)].packet.seq = s
        ELSE FindSeqNum(s) = NotFound

(* A packet that still waits for the pacer is only given up when the       *)
(* history is purged or can grow no further.                               *)
UnsentPacketsKept ==
  [][\/ size = kMaxCapacity
     \/ \E enable \in BOOLEAN, n \in NumberToStore :
           SetStorePacketsStatus(enable, n)
     \/ \A i \in Slots :
           Unsent(i) => /\ i \in 0 .. size' - 1
                        /\ stored_packets'[i].packet = stored_packets[i].packet
    ]_vars
=============================================================================

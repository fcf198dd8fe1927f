-------------------------- MODULE MediaPathProofs --------------------------
(***************************************************************************)
(* Proofs about the encrypted path, for every number space, replay window, *)
(* packet size and set of keys, and any number of packets and key changes. *)
(***************************************************************************)
EXTENDS MediaPath, TLAPS

(* The number space has an even size.                                      *)
LEMMA HalfOfSpace == Half \in Nat /\ Half >= 1 /\ SeqSpace = 2 * Half
BY SrtpAssumption DEF Half

(* Quotient and remainder.                                                 *)
LEMMA QuotientRemainder ==
  ASSUME NEW n \in Int
  PROVE  /\ n \div SeqSpace \in Int /\ n % SeqSpace \in 0 .. SeqSpace - 1
         /\ n = (n \div SeqSpace) * SeqSpace + (n % SeqSpace)
<1>1. SeqSpace \in Nat /\ SeqSpace > 0
  BY SrtpAssumption
<1>2. n = (n \div SeqSpace) * SeqSpace + (n % SeqSpace)
  BY <1>1, Z3
<1> QED
  BY <1>1, <1>2

LEMMA EstimateType ==
  ASSUME NEW index \in Int, NEW s \in 0 .. SeqSpace - 1
  PROVE  /\ EstimateIndex(index, s) \in Int
         /\ index = 0 => EstimateIndex(index, s) = s
<1> DEFINE roc == index \div SeqSpace
           l == index % SeqSpace
           guess == IF l < Half THEN (IF s - l > Half THEN roc - 1 ELSE roc)
                                ELSE (IF l - Half > s THEN roc + 1 ELSE roc)
<1>1. guess \in Int
  BY QuotientRemainder
<1>2. EstimateIndex(index, s) = IF index <= Half THEN s
                                ELSE guess * SeqSpace + s
  BY DEF EstimateIndex
<1> HIDE DEF guess
<1>3. SeqSpace \in Int /\ guess * SeqSpace \in Int
  BY <1>1, SrtpAssumption
<1> QED
  BY <1>2, <1>3, HalfOfSpace

(* Two numbers less than half the space apart differ by at most one        *)
(* rollover.                                                               *)
LEMMA NearQuotients ==
  ASSUME NEW S \in Nat, NEW h \in Nat, S = 2 * h, h >= 1,
         NEW roc \in Int, NEW q \in Int,
         NEW l \in 0 .. S - 1, NEW s \in 0 .. S - 1,
         (q * S + s) - (roc * S + l) <= h - 1,
         (roc * S + l) - (q * S + s) <= h - 1
  PROVE  \/ q = roc /\ s - l <= h - 1 /\ l - s <= h - 1
         \/ q = roc + 1 /\ l - s >= h + 1
         \/ q = roc - 1 /\ s - l >= h + 1
<1>1. q \in {roc - 1, roc, roc + 1}
  OBVIOUS
<1>2. CASE q = roc
  BY <1>2
<1>3. CASE q = roc + 1
  <2>1. q * S = roc * S + S
    BY <1>3
  <2> QED
    BY <1>3, <2>1
<1>4. CASE q = roc - 1
  <2>1. q * S = roc * S - S
    BY <1>4
  <2> QED
    BY <1>4, <2>1
<1> QED
  BY <1>1, <1>2, <1>3, <1>4

(* The estimate of the rollover counter is right for every packet less     *)
(* than half the number space away from the highest index.                 *)
LEMMA EstimateNear ==
  ASSUME NEW index \in Int, NEW n \in Nat,
         n \in index - (Half - 1) .. index + (Half - 1)
  PROVE  EstimateIndex(index, n % SeqSpace) = n
<1> DEFINE roc == index \div SeqSpace
           l == index % SeqSpace
           q == n \div SeqSpace
           s == n % SeqSpace
<1>1. /\ roc \in Int /\ l \in 0 .. SeqSpace - 1 /\ index = roc * SeqSpace + l
      /\ q \in Int /\ s \in 0 .. SeqSpace - 1 /\ n = q * SeqSpace + s
  BY QuotientRemainder
<1>2. CASE index <= Half
  <2>1. s = n
    BY <1>2, HalfOfSpace
  <2> QED
    BY <1>2, <2>1 DEF EstimateIndex
<1>3. CASE index > Half
  <2>1. EstimateIndex(index, s) =
          (IF l < Half THEN (IF s - l > Half THEN roc - 1 ELSE roc)
                       ELSE (IF l - Half > s THEN roc + 1 ELSE roc))
            * SeqSpace + s
    BY <1>3, HalfOfSpace DEF EstimateIndex
  <2> HIDE DEF roc, l, q, s
  <2>2. \/ q = roc /\ s - l <= Half - 1 /\ l - s <= Half - 1
        \/ q = roc + 1 /\ l - s >= Half + 1
        \/ q = roc - 1 /\ s - l >= Half + 1
    <3>1. n - index <= Half - 1 /\ index - n <= Half - 1
      BY HalfOfSpace
    <3> QED
      BY <1>1, <3>1, HalfOfSpace, NearQuotients
  <2>3. EstimateIndex(index, s) = q * SeqSpace + s
    BY <1>1, <2>1, <2>2, HalfOfSpace
  <2> QED
    BY <1>1, <2>3 DEF s
<1> QED
  BY <1>2, <1>3, HalfOfSpace

-----------------------------------------------------------------------------
(* The inductive invariant.                                                *)

SessionType == [key : UsableKey \cup {NoKey}, index : Int, seen : SUBSET Int]
CryptoType == [session : SessionType, enabled : BOOLEAN]

(* The record of a session: what it has seen lies in its window and        *)
(* includes the highest index; without a key there is nothing.             *)
SessionOK(s) ==
  /\ s \in SessionType
  /\ \A j \in s.seen : j > s.index - Window /\ j <= s.index
  /\ IF s.seen = {} THEN s.index = 0 ELSE s.index \in s.seen
  /\ s.key = NoKey => s = NoSession

CryptoOK(c) ==
  /\ c \in CryptoType
  /\ SessionOK(c.session)
  /\ c.enabled => c.session.key # NoKey

(* What a session will never accept again.                                 *)
Spent(s, i) == i \in s.seen \/ i <= s.index - Window

Sealed == [key : UsableKey, index : Int, seq : 0 .. SeqSpace - 1]
NetPacket == [number : 1 .. MaxNumber, payload : Sealed \cup {Clear},
              size : Int, keyed : BOOLEAN]

PathTypes ==
  /\ number \in Nat \ {0}
  /\ frame \in [left : Nat, bytes : Int, keyed : BOOLEAN]
  /\ net \subseteq NetPacket
  /\ first \in 1 .. Half - 1
  /\ newest \in Nat
  /\ decrypted \in [0 .. MaxNumber -> 0 .. 2]

(* A number is used for one packet.                                        *)
NumbersUsedOnce ==
  /\ \A p \in net : p.number < number
  /\ \A p, q \in net : p.number = q.number => p = q
  /\ \A p \in net : p.payload # Clear => p.payload.seq = p.number % SeqSpace

(* A packet that was decrypted carries an index that the receiver's        *)
(* session, which it keeps for good, never accepts again.                  *)
DecryptedIsSpent ==
  \A n \in 0 .. MaxNumber :
    /\ decrypted[n] <= 1
    /\ decrypted[n] = 1 =>
         /\ n < number /\ in.session.key # NoKey
         /\ \A p \in net : p.number = n =>
              p.payload # Clear /\ Spent(in.session, p.payload.index)

(* A frame leaves room for the RTX header and, if encryption was enabled   *)
(* when it was packetized, for the overhead.                               *)
FrameFits ==
  frame.left > 0 =>
    /\ frame.bytes + kRtxHeaderSize <= MaxPayload
    /\ frame.keyed =>
         ohb_size + frame.bytes + AuthTag + kRtxHeaderSize <= MaxPayload

PathInv ==
  /\ PathTypes
  /\ CryptoOK(out) /\ CryptoOK(in)
  /\ NumbersUsedOnce
  /\ DecryptedIsSpent
  /\ FrameFits
  /\ PacketsFit
  /\ GapsOnlyWhenKeyed
  /\ StaysInSync
-----------------------------------------------------------------------------
(* The operations of a session.                                            *)

LEMMA NoSessionOK == SessionOK(NoSession)
BY DEF SessionOK, SessionType, NoSession, SessionOf

LEMMA NewSessionOK ==
  ASSUME NEW key \in UsableKey
  PROVE  SessionOK(SessionOf(key)) /\ SessionOf(key).key # NoKey
BY KeyAssumption DEF SessionOK, SessionType, SessionOf

(* Accepting index i spends it, and nothing that was spent becomes         *)
(* acceptable again.                                                       *)
LEMMA AddIndexSpends ==
  ASSUME NEW s, SessionOK(s), s.key # NoKey,
         NEW i \in Int, s.index = 0 => i >= 0
  PROVE  LET t == AddIndex(s, i)
         IN  /\ SessionOK(t)
             /\ t.key = s.key
             /\ Spent(t, i)
             /\ \A j \in Int : Spent(s, j) => Spent(t, j)
<1> DEFINE highest == IF i > s.index THEN i ELSE s.index
           t == AddIndex(s, i)
<1>0. Window \in Nat /\ Window >= 1
  BY SrtpAssumption
<1>1. s \in SessionType /\ s.index \in Int /\ s.seen \subseteq Int
  BY DEF SessionOK, SessionType
<1>2. /\ highest \in Int /\ highest >= s.index /\ highest >= i
      /\ highest = i \/ highest = s.index
  BY <1>1
<1>3. t = [s EXCEPT !.index = highest,
                    !.seen = {j \in s.seen \cup {i} : j > highest - Window}]
  BY <1>1 DEF AddIndex, SessionType
<1> HIDE DEF highest, t
<1>4. /\ t \in SessionType /\ t.key = s.key /\ t.index = highest
      /\ t.seen = {j \in s.seen \cup {i} : j > highest - Window}
  BY <1>1, <1>2, <1>3 DEF SessionType
<1>5. \A j \in t.seen : j > t.index - Window /\ j <= t.index
  BY <1>0, <1>1, <1>2, <1>4 DEF SessionOK
<1>6. t.index \in t.seen
  <2>1. CASE highest = i
    BY <1>0, <1>2, <1>4, <2>1
  <2>2. CASE highest = s.index /\ highest # i
    <3>1. s.seen # {}
      <4> SUFFICES ASSUME s.seen = {} PROVE FALSE
        OBVIOUS
      <4>1. s.index = 0
        BY DEF SessionOK
      <4> QED
        BY <1>1, <1>2, <2>2, <4>1
    <3>2. s.index \in s.seen
      BY <3>1 DEF SessionOK
    <3> QED
      BY <1>0, <1>1, <1>4, <2>2, <3>2
  <2> QED
    BY <1>2, <2>1, <2>2
<1>7. SessionOK(t)
  BY <1>4, <1>5, <1>6 DEF SessionOK
<1>8. Spent(t, i)
  BY <1>0, <1>2, <1>4 DEF Spent
<1>9. ASSUME NEW j \in Int, Spent(s, j) PROVE Spent(t, j)
  BY <1>0, <1>1, <1>2, <1>4, <1>9 DEF Spent
<1> QED
  BY <1>4, <1>7, <1>8, <1>9 DEF t

(* SetMediaCryptoKey gives a session to a context that has none and never  *)
(* replaces one.                                                           *)
LEMMA SetKeyKeepsSession ==
  ASSUME NEW c, CryptoOK(c), NEW key \in Key \cup {NoKey}
  PROVE  LET r == SetMediaCryptoKey(c, key)
         IN  /\ CryptoOK(r)
             /\ c.session.key # NoKey => r.session = c.session
<1>0. NoSession.key = NoKey
  BY DEF NoSession, SessionOf
<1>1. CASE key # NoKey /\ SetKey(c.session, key)
  <2>1. /\ SetMediaCryptoKey(c, key) = [session |-> SessionOf(key),
                                        enabled |-> TRUE]
        /\ key \in UsableKey /\ c.session.key = NoKey
    BY <1>0, <1>1 DEF SetMediaCryptoKey, SetKey
  <2>2. SessionOK(SessionOf(key)) /\ SessionOf(key).key # NoKey
    BY <2>1, NewSessionOK
  <2> QED
    BY <2>1, <2>2 DEF CryptoOK, CryptoType, SessionOK
<1>2. CASE ~(key # NoKey /\ SetKey(c.session, key))
  <2>1. SetMediaCryptoKey(c, key) = [c EXCEPT !.enabled = FALSE]
    BY <1>2 DEF SetMediaCryptoKey
  <2> QED
    BY <2>1 DEF CryptoOK, CryptoType
<1> QED
  BY <1>1, <1>2

-----------------------------------------------------------------------------
(* One lemma per operation.                                                *)

LEMMA NewCryptoOK == CryptoOK(NewCrypto)
BY NoSessionOK DEF CryptoOK, CryptoType, NewCrypto, SessionOK

LEMMA InitPath == Init => PathInv
<1> SUFFICES ASSUME Init PROVE PathInv
  OBVIOUS
<1>1. PathTypes
  BY HalfOfSpace, PathAssumption
  DEF Init, PathTypes, InitialSequenceNumber, NoFrame
<1>2. CryptoOK(out) /\ CryptoOK(in)
  BY NewCryptoOK DEF Init
<1>3. NumbersUsedOnce /\ PacketsFit /\ GapsOnlyWhenKeyed /\ StaysInSync
  BY DEF Init, NumbersUsedOnce, PacketsFit, GapsOnlyWhenKeyed, StaysInSync
<1>4. DecryptedIsSpent
  BY PathAssumption DEF Init, DecryptedIsSpent
<1>5. FrameFits
  BY DEF Init, FrameFits, NoFrame
<1> QED
  BY <1>1, <1>2, <1>3, <1>4, <1>5 DEF PathInv

LEMMA SetOutboundKeyPath ==
  ASSUME PathInv, NEW key \in Key \cup {NoKey}, SetOutboundKey(key)
  PROVE  PathInv'
<1>1. CryptoOK(out')
  BY SetKeyKeepsSession DEF PathInv, SetOutboundKey
<1> QED
  BY <1>1
  DEF SetOutboundKey, PathInv, PathTypes, NumbersUsedOnce, DecryptedIsSpent,
      FrameFits, PacketsFit, GapsOnlyWhenKeyed, StaysInSync

LEMMA SetInboundKeyPath ==
  ASSUME PathInv, NEW key \in Key \cup {NoKey}, SetInboundKey(key)
  PROVE  PathInv'
<1>1. CryptoOK(in') /\ (in.session.key # NoKey => in'.session = in.session)
  BY SetKeyKeepsSession DEF PathInv, SetInboundKey
<1>2. DecryptedIsSpent'
  BY <1>1 DEF SetInboundKey, PathInv, DecryptedIsSpent
<1> QED
  BY <1>1, <1>2
  DEF SetInboundKey, PathInv, PathTypes, NumbersUsedOnce, FrameFits,
      PacketsFit, GapsOnlyWhenKeyed, StaysInSync

LEMMA SendVideoPath ==
  ASSUME PathInv, NEW packets \in FramePackets, NEW spare \in Spare,
         SendVideo(packets, spare)
  PROVE  PathInv'
<1> DEFINE overhead == GetMediaEncryptionOverhead(out)
<1>1. /\ packets \in Nat /\ spare \in Nat
      /\ {MaxPayload, kRtxHeaderSize} \subseteq Nat
      /\ ohb_size \in Nat /\ AuthTag \in Nat
  BY PathAssumption, SrtpAssumption
<1>2. /\ overhead \in Nat /\ out.enabled \in BOOLEAN
      /\ out.enabled => overhead = ohb_size + AuthTag
  BY <1>1 DEF PathInv, CryptoOK, CryptoType, GetMediaEncryptionOverhead
<1>3. frame' = [left |-> packets, keyed |-> out.enabled,
                bytes |-> MaxPayload - kRtxHeaderSize - overhead - spare]
  BY DEF SendVideo
<1> HIDE DEF overhead
<1>4. FrameFits'
  BY <1>1, <1>2, <1>3 DEF FrameFits
<1>5. PathTypes'
  BY <1>1, <1>2, <1>3 DEF PathInv, PathTypes, SendVideo
<1> QED
  BY <1>4, <1>5
  DEF SendVideo, PathInv, NumbersUsedOnce, DecryptedIsSpent, PacketsFit,
      GapsOnlyWhenKeyed, StaysInSync

(* A packet joins the network under a number not used before.              *)
LEMMA NewPacketPath ==
  ASSUME PathInv, NEW p \in NetPacket,
         p.number = number, number' = number + 1, net' = net \cup {p},
         p.payload # Clear => p.payload.seq = p.number % SeqSpace,
         UNCHANGED <<in, decrypted>>
  PROVE  NumbersUsedOnce' /\ DecryptedIsSpent'
<1>1. number \in Nat /\ \A q \in net : q.number \in Nat /\ q.number < number
  BY DEF PathInv, PathTypes, NetPacket, NumbersUsedOnce
<1>2. NumbersUsedOnce'
  BY <1>1 DEF PathInv, NumbersUsedOnce
<1>3. DecryptedIsSpent'
  BY <1>1 DEF PathInv, PathTypes, DecryptedIsSpent
<1> QED
  BY <1>2, <1>3

LEMMA SendPacketPath ==
  ASSUME PathInv, SendPacket
  PROVE  PathInv'
<1> DEFINE bytes == frame.bytes
           s == number % SeqSpace
           i == EstimateIndex(out.session.index, s)
           clear == [number |-> number, payload |-> Clear, size |-> bytes,
                     keyed |-> frame.keyed]
           sealed == [number |-> number,
                      payload |-> [key |-> out.session.key, index |-> i,
                                   seq |-> s],
                      size |-> ohb_size + bytes + AuthTag,
                      keyed |-> frame.keyed]
<1>0. /\ {MaxPayload, kRtxHeaderSize, MaxNumber} \subseteq Nat
      /\ ohb_size \in Nat /\ AuthTag \in Nat
  BY PathAssumption, SrtpAssumption
<1>1. /\ number \in 1 .. MaxNumber /\ number' = number + 1
      /\ frame.left \in Nat /\ frame.left > 0 /\ bytes \in Int
      /\ frame.keyed \in BOOLEAN
      /\ bytes + kRtxHeaderSize <= MaxPayload
      /\ frame.keyed =>
           ohb_size + bytes + AuthTag + kRtxHeaderSize <= MaxPayload
  BY <1>0 DEF SendPacket, PathInv, PathTypes, FrameFits
<1>2. /\ out.session \in SessionType /\ out.enabled \in BOOLEAN
      /\ SessionOK(out.session)
      /\ out.enabled => out.session.key \in UsableKey
      /\ out.session.index \in Int
  BY DEF PathInv, CryptoOK, CryptoType, SessionType, SessionOK
<1>3. s \in 0 .. SeqSpace - 1 /\ i \in Int /\ (out.session.index = 0 => i >= 0)
  <2>1. s \in 0 .. SeqSpace - 1
    BY <1>1, QuotientRemainder
  <2> HIDE DEF s
  <2>2. i \in Int /\ (out.session.index = 0 => i = s)
    BY <1>2, <2>1, EstimateType
  <2> HIDE DEF i
  <2> QED
    BY <2>1, <2>2, SrtpAssumption
<1>4. UNCHANGED <<in, first, newest, decrypted, undecrypted, auth_failed>>
  BY DEF SendPacket
<1>5. CryptoOK(in)' /\ StaysInSync'
  BY <1>4 DEF PathInv, CryptoOK, SessionOK, StaysInSync
<1>6. ASSUME frame' = [frame EXCEPT !.left = @ - 1]
      PROVE  /\ frame' \in [left : Nat, bytes : Int, keyed : BOOLEAN]
             /\ FrameFits'
  BY <1>1, <1>6 DEF PathInv, PathTypes, FrameFits
<1>7. CASE /\ ~out.enabled
           /\ net' = net \cup {clear}
           /\ frame' = [frame EXCEPT !.left = @ - 1]
           /\ UNCHANGED <<out, gaps>>
  <2>1. clear \in NetPacket /\ clear.number = number /\ clear.payload = Clear
    BY <1>1 DEF NetPacket
  <2>2. clear.size = bytes
    OBVIOUS
  <2> HIDE DEF clear
  <2>3. NumbersUsedOnce' /\ DecryptedIsSpent'
    BY <1>1, <1>4, <1>7, <2>1, NewPacketPath
  <2>4. PacketsFit'
    BY <1>0, <1>1, <1>7, <2>1, <2>2 DEF PathInv, PacketsFit
  <2>5. PathTypes'
    BY <1>1, <1>4, <1>6, <1>7, <2>1 DEF PathInv, PathTypes
  <2>6. CryptoOK(out)' /\ GapsOnlyWhenKeyed'
    BY <1>7 DEF PathInv, CryptoOK, SessionOK, GapsOnlyWhenKeyed
  <2> QED
    BY <1>5, <1>6, <1>7, <2>3, <2>4, <2>5, <2>6 DEF PathInv
<1>8. CASE /\ out.enabled /\ EncryptFits(bytes)
           /\ net' = net \cup {sealed}
           /\ out' = [out EXCEPT !.session = AddIndex(@, i)]
           /\ frame' = [frame EXCEPT !.left = @ - 1]
           /\ UNCHANGED gaps
  <2>1. /\ sealed \in NetPacket /\ sealed.number = number
        /\ sealed.payload \in Sealed /\ sealed.payload.seq = number % SeqSpace
        /\ sealed.size = ohb_size + bytes + AuthTag
        /\ sealed.keyed = frame.keyed
    BY <1>0, <1>1, <1>2, <1>3, <1>8 DEF NetPacket, Sealed
  <2>2. sealed.payload # Clear
    BY <1>2, <1>8, KeyAssumption DEF Clear
  <2> HIDE DEF sealed
  <2>3. NumbersUsedOnce' /\ DecryptedIsSpent'
    BY <1>1, <1>4, <1>8, <2>1, NewPacketPath
  <2>4. PacketsFit'
    BY <1>0, <1>1, <1>8, <2>1, <2>2 DEF PathInv, PacketsFit, EncryptFits
  <2>5. PathTypes'
    BY <1>1, <1>4, <1>6, <1>8, <2>1 DEF PathInv, PathTypes
  <2>6. CryptoOK(out)'
    <3>1. SessionOK(AddIndex(out.session, i))
          /\ AddIndex(out.session, i).key = out.session.key
      BY <1>2, <1>3, <1>8, KeyAssumption, AddIndexSpends
    <3>2. /\ out' = [out EXCEPT !.session = AddIndex(out.session, i)]
          /\ out \in CryptoType
      BY <1>8 DEF PathInv, CryptoOK, CryptoType
    <3>3. /\ out'.session = AddIndex(out.session, i)
          /\ out'.enabled = out.enabled /\ out' \in CryptoType
      BY <3>1, <3>2 DEF CryptoType, SessionOK
    <3> QED
      BY <1>2, <3>1, <3>3, KeyAssumption DEF CryptoOK
  <2>7. GapsOnlyWhenKeyed'
    BY <1>8 DEF PathInv, GapsOnlyWhenKeyed
  <2> QED
    BY <1>5, <1>6, <1>8, <2>3, <2>4, <2>5, <2>6, <2>7 DEF PathInv
<1>9. CASE /\ out.enabled /\ ~EncryptFits(bytes)
           /\ frame' = NoFrame
           /\ gaps' = gaps \cup {[number |-> number, keyed |-> frame.keyed]}
           /\ UNCHANGED <<out, net>>
  <2>1. ~frame.keyed
    BY <1>0, <1>1, <1>2, <1>9, KeyAssumption DEF EncryptFits
  <2>2. GapsOnlyWhenKeyed'
    BY <1>9, <2>1 DEF PathInv, GapsOnlyWhenKeyed
  <2>3. PathTypes' /\ FrameFits'
    BY <1>1, <1>4, <1>9 DEF PathInv, PathTypes, FrameFits, NoFrame
  <2>4. NumbersUsedOnce' /\ DecryptedIsSpent'
    BY <1>1, <1>4, <1>9
    DEF PathInv, PathTypes, NetPacket, NumbersUsedOnce, DecryptedIsSpent
  <2>5. CryptoOK(out)' /\ PacketsFit'
    BY <1>9 DEF PathInv, CryptoOK, SessionOK, PacketsFit
  <2> QED
    BY <1>5, <2>2, <2>3, <2>4, <2>5 DEF PathInv
<1> QED
  BY <1>7, <1>8, <1>9 DEF SendPacket

(* The packet is one the receiver's session accepts.                       *)
LEMMA DecryptsPath ==
  ASSUME PathInv, NEW p \in net, in.enabled, DecryptStatus(p) = "ok",
         in' = [in EXCEPT !.session = AddIndex(@, p.payload.index)],
         decrypted' = [decrypted EXCEPT ![p.number] = IF @ < 2 THEN @ + 1
                                                               ELSE 2],
         UNCHANGED <<number, net>>
  PROVE  /\ CryptoOK(in') /\ DecryptedIsSpent'
         /\ decrypted' \in [0 .. MaxNumber -> 0 .. 2]
<1> DEFINE s == in.session
           i == p.payload.index
<1>1. /\ in \in CryptoType /\ SessionOK(s) /\ s.key # NoKey
      /\ s \in SessionType /\ s.index \in Int
      /\ in.enabled \in BOOLEAN
  BY DEF PathInv, CryptoOK, CryptoType, SessionOK, SessionType
<1>2. /\ p \in NetPacket /\ p.number \in 1 .. MaxNumber
      /\ p.payload # Clear
  BY <1>1 DEF PathInv, PathTypes, NetPacket, DecryptStatus
<1>3. /\ p.payload \in Sealed /\ i \in Int
      /\ p.payload.seq \in 0 .. SeqSpace - 1
  BY <1>2 DEF NetPacket, Sealed
<1>4. /\ i = EstimateIndex(s.index, p.payload.seq)
      /\ ~(i <= s.index - Window) /\ i \notin s.seen
  BY <1>1, <1>2 DEF DecryptStatus, Decrypt, srtp_unprotect
<1>5. s.index = 0 => i >= 0
  <2>1. s.index = 0 => i = p.payload.seq
    BY <1>1, <1>3, <1>4, EstimateType
  <2> QED
    BY <1>3, <2>1, SrtpAssumption
<1>6. /\ SessionOK(AddIndex(s, i)) /\ AddIndex(s, i).key = s.key
      /\ Spent(AddIndex(s, i), i)
      /\ \A j \in Int : Spent(s, j) => Spent(AddIndex(s, i), j)
  BY <1>1, <1>3, <1>5, AddIndexSpends
<1>7. /\ in'.session = AddIndex(s, i) /\ in'.enabled = in.enabled
      /\ in' \in CryptoType
  BY <1>1, <1>6 DEF CryptoType, SessionOK
<1>8. CryptoOK(in')
  BY <1>1, <1>6, <1>7 DEF CryptoOK
<1>9. decrypted[p.number] = 0
  <2>1. decrypted[p.number] \in 0 .. 1
    BY <1>2 DEF PathInv, PathTypes, DecryptedIsSpent
  <2>2. decrypted[p.number] = 1 => Spent(s, i)
    BY <1>2 DEF PathInv, DecryptedIsSpent
  <2> QED
    BY <1>4, <2>1, <2>2 DEF Spent
<1>10. /\ decrypted' \in [0 .. MaxNumber -> 0 .. 2]
       /\ decrypted'[p.number] = 1
       /\ \A n \in 0 .. MaxNumber :
            n # p.number => decrypted'[n] = decrypted[n]
  BY <1>2, <1>9 DEF PathInv, PathTypes
<1>11. DecryptedIsSpent'
  <2> SUFFICES ASSUME NEW n \in 0 .. MaxNumber
               PROVE  /\ decrypted'[n] <= 1
                      /\ decrypted'[n] = 1 =>
                           /\ n < number /\ in'.session.key # NoKey
                           /\ \A q \in net : q.number = n =>
                                /\ q.payload # Clear
                                /\ Spent(in'.session, q.payload.index)
    BY DEF DecryptedIsSpent, Spent
  <2>1. CASE n = p.number
    <3>1. n < number /\ \A q \in net : q.number = n => q = p
      BY <2>1 DEF PathInv, NumbersUsedOnce
    <3> QED
      BY <1>1, <1>2, <1>6, <1>7, <1>10, <2>1, <3>1
  <2>2. CASE n # p.number
    <3>1. \A q \in net : q.payload # Clear => q.payload.index \in Int
      BY DEF PathInv, PathTypes, NetPacket, Sealed
    <3>2. decrypted'[n] = decrypted[n]
      BY <1>10, <2>2
    <3> QED
      BY <1>1, <1>6, <1>7, <3>1, <3>2 DEF PathInv, DecryptedIsSpent
  <2> QED
    BY <2>1, <2>2
<1> QED
  BY <1>8, <1>10, <1>11

(* A receiver in sync estimates the index of a packet correctly.           *)
LEMMA InSyncEstimates ==
  ASSUME PathInv, NEW p \in net, InSync(p),
         p.number \in newest - Reach .. newest + Reach
  PROVE  EstimateIndex(in.session.index, p.number % SeqSpace) = p.number
<1>1. /\ p.number \in Nat /\ in.session.index \in Int
      /\ in.session.seen = {} => in.session.index = 0
      /\ first \in 1 .. Half - 1
  BY DEF PathInv, PathTypes, NetPacket, CryptoOK, SessionOK, SessionType
<1>2. Reach \in 0 .. Half - 1
  BY PathAssumption
<1>3. CASE in.session.seen # {}
  <2>1. p.number \in in.session.index - (Half - 1)
                       .. in.session.index + (Half - 1)
    BY <1>1, <1>2, <1>3, HalfOfSpace DEF InSync
  <2> QED
    BY <1>1, <2>1, EstimateNear
<1>4. CASE in.session.seen = {}
  <2>1. p.number < SeqSpace
    BY <1>1, <1>2, <1>4, HalfOfSpace DEF InSync
  <2>2. p.number % SeqSpace = p.number
    BY <1>1, <2>1, HalfOfSpace
  <2>3. p.number \in 0 .. SeqSpace - 1
    BY <1>1, <2>1, HalfOfSpace
  <2> QED
    BY <1>1, <1>4, <2>2, <2>3, EstimateType
<1> QED
  BY <1>3, <1>4

LEMMA ParseRtpPacketPath ==
  ASSUME PathInv, NEW p \in net, ParseRtpPacket(p)
  PROVE  PathInv'
<1>1. /\ UNCHANGED <<out, number, frame, net, first, gaps>>
      /\ p.number \in newest - Reach .. newest + Reach
      /\ newest' = IF p.number > newest THEN p.number ELSE newest
  BY DEF ParseRtpPacket
<1>2. p \in NetPacket /\ p.number \in 1 .. MaxNumber /\ newest' \in Nat
  BY <1>1 DEF PathInv, PathTypes, NetPacket
<1>3. /\ CryptoOK(out)' /\ NumbersUsedOnce' /\ FrameFits' /\ PacketsFit'
      /\ GapsOnlyWhenKeyed'
  BY <1>1
  DEF PathInv, CryptoOK, SessionOK, NumbersUsedOnce, FrameFits, PacketsFit,
      GapsOnlyWhenKeyed
<1>4. ASSUME UNCHANGED <<in, decrypted>>
      PROVE  CryptoOK(in)' /\ DecryptedIsSpent' /\ PathTypes'
  BY <1>1, <1>2, <1>4
  DEF PathInv, PathTypes, CryptoOK, SessionOK, DecryptedIsSpent
<1>5. CASE UNCHANGED <<in, decrypted, auth_failed>>
  <2>1. StaysInSync'
    BY <1>5 DEF PathInv, StaysInSync
  <2> QED
    BY <1>3, <1>4, <1>5, <2>1 DEF PathInv
<1>6. CASE /\ in.enabled /\ DecryptStatus(p) = "ok"
           /\ in' = [in EXCEPT !.session = AddIndex(@, p.payload.index)]
           /\ decrypted' = [decrypted EXCEPT ![p.number] = IF @ < 2 THEN @ + 1
                                                                   ELSE 2]
           /\ UNCHANGED auth_failed
  <2>1. /\ CryptoOK(in') /\ DecryptedIsSpent'
        /\ decrypted' \in [0 .. MaxNumber -> 0 .. 2]
    BY <1>1, <1>6, DecryptsPath
  <2>2. PathTypes' /\ StaysInSync'
    BY <1>1, <1>2, <1>6, <2>1 DEF PathInv, PathTypes, StaysInSync
  <2> QED
    BY <1>3, <2>1, <2>2 DEF PathInv
<1>7. CASE /\ in.enabled
           /\ auth_failed' =
                IF DecryptStatus(p) = "auth_fail" /\ p.payload # Clear
                     /\ p.payload.key = in.session.key
                  THEN auth_failed \cup
                         {[number |-> p.number, sync |-> InSync(p),
                           index |-> p.payload.index]}
                  ELSE auth_failed
           /\ UNCHANGED <<in, decrypted>>
  <2>1. ASSUME DecryptStatus(p) = "auth_fail", p.payload # Clear,
               p.payload.key = in.session.key, InSync(p)
        PROVE  p.payload.index # p.number
    <3>1. p.payload.seq = p.number % SeqSpace
      BY <2>1 DEF PathInv, NumbersUsedOnce
    <3>2. p.payload.index # EstimateIndex(in.session.index, p.payload.seq)
      BY <2>1 DEF DecryptStatus, Decrypt, srtp_unprotect
    <3> QED
      BY <1>1, <2>1, <3>1, <3>2, InSyncEstimates
  <2>2. StaysInSync'
    BY <1>7, <2>1 DEF PathInv, StaysInSync
  <2> QED
    BY <1>3, <1>4, <1>7, <2>2 DEF PathInv
<1> QED
  BY <1>5, <1>6, <1>7 DEF ParseRtpPacket

-----------------------------------------------------------------------------
(* The theorems.                                                           *)

(* The invariant of the encrypted path: no step of the application, the    *)
(* encoder thread or the receiver breaks it, whatever the network loses,   *)
(* reorders or duplicates.                                                 *)
THEOREM PathInvariant == Spec => []PathInv
<1>1. ASSUME PathInv, [Next]_pathVars PROVE PathInv'
  <2>1. CASE UNCHANGED pathVars
    BY <1>1, <2>1
    DEF pathVars, PathInv, PathTypes, CryptoOK, SessionOK, NumbersUsedOnce,
        DecryptedIsSpent, Spent, FrameFits, PacketsFit, GapsOnlyWhenKeyed,
        StaysInSync
  <2> QED
    BY <1>1, <2>1, SetOutboundKeyPath, SetInboundKeyPath, SendVideoPath,
       SendPacketPath, ParseRtpPacketPath DEF Next
<1> QED
  BY <1>1, InitPath, PTL DEF Spec

(* The type invariant: an enabled context has a session, and what a        *)
(* session has seen lies in its window.                                    *)
THEOREM PathTypeHolds == Spec => []PathTypeOK
<1>1. ASSUME PathInv PROVE PathTypeOK
  <2>1. ASSUME NEW c, CryptoOK(c)
        PROVE  /\ c.enabled \in BOOLEAN
               /\ c.session.key \in UsableKey \cup {NoKey}
               /\ c.enabled => c.session # NoSession
               /\ c.session.seen \subseteq c.session.index - Window + 1
                                             .. c.session.index
    <3>1. NoSession.key = NoKey /\ Window \in Nat
      BY SrtpAssumption DEF NoSession, SessionOf
    <3>2. c.session.index \in Int /\ c.session.seen \subseteq Int
      BY <2>1 DEF CryptoOK, SessionOK, SessionType
    <3>3. c.enabled \in BOOLEAN /\ c.session.key \in UsableKey \cup {NoKey}
      BY <2>1 DEF CryptoOK, CryptoType, SessionOK, SessionType
    <3>4. c.session.seen \subseteq c.session.index - Window + 1
                                   .. c.session.index
      BY <2>1, <3>1, <3>2 DEF CryptoOK, SessionOK
    <3> QED
      BY <2>1, <3>1, <3>3, <3>4 DEF CryptoOK
  <2> QED
    BY <1>1, <2>1 DEF PathInv, PathTypes, PathTypeOK
<1> QED
  BY <1>1, PathInvariant, PTL

(* However often a packet arrives, and whatever keys are set in between,   *)
(* it is decrypted at most once.                                           *)
THEOREM DecryptedOnceHolds == Spec => []DecryptedOnce
<1>1. PathInv => DecryptedOnce
  BY DEF PathInv, PathTypes, DecryptedIsSpent, DecryptedOnce
<1> QED
  BY <1>1, PathInvariant, PTL

(* No packet of a receiver in sync is refused over a wrong estimate of the *)
(* rollover counter, for any number space and any number of wraps.         *)
THEOREM StaysInSyncHolds == Spec => []StaysInSync
<1>1. PathInv => StaysInSync
  BY DEF PathInv
<1> QED
  BY <1>1, PathInvariant, PTL

(* Every packet SendVideo produces fits, also when a key is set in the     *)
(* middle of a frame, and so does its RTX copy unless it is one of those.  *)
THEOREM PacketsFitHolds == Spec => []PacketsFit
<1>1. PathInv => PacketsFit
  BY DEF PathInv
<1> QED
  BY <1>1, PathInvariant, PTL

(* Encryption fails, and a sequence number is lost, only in a frame that   *)
(* was packetized before encryption was enabled.                           *)
THEOREM GapsOnlyWhenKeyedHolds == Spec => []GapsOnlyWhenKeyed
<1>1. PathInv => GapsOnlyWhenKeyed
  BY DEF PathInv
<1> QED
  BY <1>1, PathInvariant, PTL
=============================================================================

----------------------------- MODULE MediaPath -----------------------------
(***************************************************************************)
(* The end-to-end encrypted path of one video stream: RTPSenderVideo's     *)
(* SendVideo with RTPSender's MediaEncrypt, a network that loses, reorders *)
(* and duplicates, and RTPReceiverVideo's ParseRtpPacket.                  *)
(*                                                                         *)
(* The encoder thread reads the encryption overhead once per frame and     *)
(* encrypts packet by packet without a lock, while the application may     *)
(* call SetMediaCryptoKey at any time.  Retransmissions and redundant      *)
(* payloads carry the encrypted payload of the original packet unchanged,  *)
(* so to the receiver they are duplicates of it.                           *)
(***************************************************************************)
EXTENDS MediaCrypto

CONSTANTS
  MaxPayload,    \* MaxRtpPacketSize() less the headers of a packet.
  kRtxHeaderSize,
  FramePackets,  \* The numbers of packets in a frame.
  Spare,         \* Bytes a packet is shorter than the largest allowed.
  Reach,         \* How far from the newest packet another one may arrive.
  MaxNumber,     \* Bound on the packets sent, as an extended number.
  MaxCalls       \* Bound on the calls of SetMediaCryptoKey.

ASSUME PathAssumption ==
  /\ Reach \in 0 .. Half - 1
  /\ {MaxPayload, kRtxHeaderSize, MaxNumber, MaxCalls} \subseteq Nat
  /\ FramePackets \subseteq Nat \ {0} /\ Spare \subseteq Nat
  /\ ohb_size + AuthTag + kRtxHeaderSize < MaxPayload

VARIABLES
  out,      \* The sender's crypto context.
  in,       \* The receiver's crypto context.
  number,   \* The next sequence number, extended: seq is number % SeqSpace.
  frame,    \* The frame being sent: packets left, packet size, and
            \* whether encryption was enabled when it was packetized.
  net,      \* Every packet sent; one may arrive any number of times.
  first,    \* The first sequence number.
  newest,   \* The newest packet that arrived; at first the first number.
  decrypted,  \* How often each packet was decrypted, up to 2.
  undecrypted, \* Packets an enabled receiver handed on still encrypted.
  auth_failed, \* Authentication failures although the keys agree.
  gaps,     \* Numbers used up by packets that could not be encrypted.
  calls

pathVars == <<out, in, number, frame, net, first, newest, decrypted,
              undecrypted, auth_failed, gaps, calls>>

NoFrame == [left |-> 0, bytes |-> 0, keyed |-> FALSE]
Clear == [key |-> NoKey]

(* The random first sequence number is in the lower half of the number     *)
(* space (kMaxInitRtpSeqNumber).  Fault: in the whole space.               *)
InitialAnywhere == 1 .. SeqSpace - 1
InitialSequenceNumber == 1 .. Half - 1

Init ==
  /\ out = NewCrypto
  /\ in = NewCrypto
  /\ number \in InitialSequenceNumber
  /\ frame = NoFrame
  /\ net = {}
  /\ first = number
  /\ newest = number
  /\ decrypted = [n \in 0 .. MaxNumber |-> 0]
  /\ undecrypted = {}
  /\ auth_failed = {}
  /\ gaps = {}
  /\ calls = 0

-----------------------------------------------------------------------------
(* The application.                                                        *)

SetOutboundKey(key) ==
  /\ calls < MaxCalls
  /\ calls' = calls + 1
  /\ out' = SetMediaCryptoKey(out, key)
  /\ UNCHANGED <<in, number, frame, net, first, newest, decrypted,
                 undecrypted, auth_failed, gaps>>

SetInboundKey(key) ==
  /\ calls < MaxCalls
  /\ calls' = calls + 1
  /\ in' = SetMediaCryptoKey(in, key)
  /\ UNCHANGED <<out, number, frame, net, first, newest, decrypted,
                 undecrypted, auth_failed, gaps>>

-----------------------------------------------------------------------------
(* The encoder thread.                                                     *)

(* SendVideo up to the packetizer: the overhead is read here, once, and    *)
(* the frame is cut into packets of equal size, of at most                 *)
(* max_data_payload_length bytes.                                          *)
SendVideo(packets, spare) ==
  /\ frame.left = 0
  /\ LET overhead == GetMediaEncryptionOverhead(out)
     IN  frame' = [left |-> packets, keyed |-> out.enabled,
                   bytes |-> MaxPayload - kRtxHeaderSize - overhead - spare]
  /\ UNCHANGED <<out, in, number, net, first, newest, decrypted, undecrypted,
                 auth_failed, gaps, calls>>

(* Fault: the size is not checked again.                                   *)
EncryptAnySize(bytes) == out.session.key # NoKey

(* Encrypt can fail: the payload may have been sized without the overhead. *)
EncryptFits(bytes) ==
  /\ out.session.key # NoKey
  /\ ohb_size + bytes + AuthTag <= MaxPayload

(* One packet of the frame: AssignSequenceNumber, MediaEncrypt, send.  A   *)
(* failed encryption ends the frame; its number is used up.                *)
SendPacket ==
  /\ frame.left > 0
  /\ number <= MaxNumber
  /\ number' = number + 1
  /\ LET bytes == frame.bytes
         s == number % SeqSpace
         i == EstimateIndex(out.session.index, s)
         Packet(payload, n) ==
           [number |-> number, payload |-> payload, size |-> n,
            keyed |-> frame.keyed]
     IN  \/ /\ ~out.enabled
            /\ net' = net \cup {Packet(Clear, bytes)}
            /\ frame' = [frame EXCEPT !.left = @ - 1]
            /\ UNCHANGED <<out, gaps>>
         \/ /\ out.enabled /\ EncryptFits(bytes)
            /\ net' = net \cup
                 {Packet([key |-> out.session.key, index |-> i, seq |-> s],
                         ohb_size + bytes + AuthTag)}
            /\ out' = [out EXCEPT !.session = AddIndex(@, i)]
            /\ frame' = [frame EXCEPT !.left = @ - 1]
            /\ UNCHANGED gaps
         \/ /\ out.enabled /\ ~EncryptFits(bytes)
            /\ frame' = NoFrame
            /\ gaps' = gaps \cup
                 {[number |-> number, keyed |-> frame.keyed]}
            /\ UNCHANGED <<out, net>>
  /\ UNCHANGED <<in, first, newest, decrypted, undecrypted, auth_failed,
                 calls>>

-----------------------------------------------------------------------------
(* The receiver: ParseRtpPacket up to the depacketizer.                    *)

(* A clear payload does not authenticate.                                  *)
DecryptStatus(p) ==
  IF in.session.key # NoKey /\ p.payload = Clear THEN "auth_fail"
  ELSE Decrypt(in, p.payload)

(* Whether the receiver can know p's rollover counter: its session has     *)
(* decrypted a packet not too far from p or, before that, the sequence     *)
(* number has not wrapped yet or nothing has arrived so far.               *)
InSync(p) ==
  IF in.session.seen # {}
    THEN p.number \in in.session.index - Reach .. in.session.index + Reach
    ELSE p.number < SeqSpace \/ newest = first

ParseRtpPacket(p) ==
  /\ p.number \in newest - Reach .. newest + Reach
  /\ newest' = IF p.number > newest THEN p.number ELSE newest
  /\ \/ /\ ~in.enabled
        /\ UNCHANGED <<in, decrypted, undecrypted, auth_failed>>
     \/ /\ in.enabled /\ DecryptStatus(p) = "ok"
        /\ in' = [in EXCEPT !.session = AddIndex(@, p.payload.index)]
        /\ decrypted' = [decrypted EXCEPT ![p.number] = IF @ < 2 THEN @ + 1
                                                                 ELSE 2]
        /\ UNCHANGED <<undecrypted, auth_failed>>
     \/ /\ in.enabled /\ DecryptStatus(p) = "replay_fail"
        /\ undecrypted' = undecrypted \cup {p.number}
        /\ UNCHANGED <<in, decrypted, auth_failed>>
     \/ /\ in.enabled
        /\ DecryptStatus(p) \in {"no_session", "replay_old", "auth_fail"}
        /\ auth_failed' =
             IF DecryptStatus(p) = "auth_fail" /\ p.payload # Clear
                  /\ p.payload.key = in.session.key
               THEN auth_failed \cup {[number |-> p.number, sync |-> InSync(p),
                                       index |-> p.payload.index]}
               ELSE auth_failed
        /\ UNCHANGED <<in, decrypted, undecrypted>>
  /\ UNCHANGED <<out, number, frame, net, first, gaps, calls>>

Next ==
  \/ \E key \in Key \cup {NoKey} : SetOutboundKey(key)
  \/ \E key \in Key \cup {NoKey} : SetInboundKey(key)
  \/ \E packets \in FramePackets, spare \in Spare : SendVideo(packets, spare)
  \/ SendPacket
  \/ \E p \in net : ParseRtpPacket(p)

Spec == Init /\ [][Next]_pathVars

-----------------------------------------------------------------------------
(* Properties.                                                             *)

(* The types of the two crypto contexts and of the path.                   *)
PathTypeOK ==
  /\ out.enabled \in BOOLEAN /\ in.enabled \in BOOLEAN
  /\ \A c \in {out, in} :
       /\ c.session.key \in UsableKey \cup {NoKey}
       /\ c.enabled => c.session # NoSession
       /\ c.session.seen \subseteq c.session.index - Window + 1
                                     .. c.session.index
  /\ number \in Nat \ {0} /\ frame.left \in Nat
  /\ decrypted \in [0 .. MaxNumber -> 0 .. 2]

(* A packet is decrypted at most once, however often it arrives and        *)
(* whatever keys are set in between: SetKey never replaces a session, so   *)
(* its record of the packets seen is never lost.                           *)
DecryptedOnce == \A n \in DOMAIN decrypted : decrypted[n] <= 1

(* A receiver with the sender's key can decrypt every packet, across the   *)
(* wrap of the sequence number and with packets lost and reordered, if it  *)
(* was there before the first wrap and the sender was keyed before it.     *)
(* That the first number is in the lower half is needed for this: the      *)
(* first packet to arrive must not be beyond the wrap.                     *)
StaysInSync == \A f \in auth_failed : f.sync => f.index # f.number

(* Every packet fits, a key set in the middle of a frame included; its RTX *)
(* copy fits too unless the key was set after the frame was packetized.    *)
PacketsFit ==
  \A p \in net :
    /\ p.size <= MaxPayload
    /\ p.payload = Clear \/ p.keyed => p.size + kRtxHeaderSize <= MaxPayload

(* Encryption only fails, and leaves a gap in the sequence numbers, for    *)
(* packets of a frame that was packetized before encryption was enabled.   *)
GapsOnlyWhenKeyed == \A g \in gaps : ~g.keyed

(* What Decrypt hands on is the decrypted payload (media_crypto.cc: "Set   *)
(* decyrpted payload").                                                    *)
HandedOnDecrypted == undecrypted = {}
=============================================================================

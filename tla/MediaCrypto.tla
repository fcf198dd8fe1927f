---------------------------- MODULE MediaCrypto ----------------------------
(***************************************************************************)
(* End-to-end media encryption: MediaCrypto                                *)
(* (modules/rtp_rtcp/source/media_crypto.cc) and the part of libsrtp it    *)
(* uses.  A crypto context is one MediaCrypto with the flag                *)
(* media_crypto_enabled_ of the RTPSender or RTPReceiverStrategy it        *)
(* belongs to.  This module has no state of its own.                       *)
(***************************************************************************)
EXTENDS Integers

CONSTANTS
  Key,        \* The keys that parse (MediaCryptoKey).
  UsableKey,  \* Those that srtp_create accepts.
  NoKey,      \* An unset rtc::Optional<MediaCryptoKey>.
  SeqSpace,   \* Size of the sequence number space (2^16 in the code).
  Window,     \* policy.window_size (1024 in the code).
  ohb_size,   \* Bytes of the inner RTP header that are sent (11).
  AuthTag     \* rtp_auth_tag_len_.

ASSUME KeyAssumption == UsableKey \subseteq Key /\ NoKey \notin Key
ASSUME SrtpAssumption ==
  /\ SeqSpace \in Nat \ {0} /\ SeqSpace % 2 = 0
  /\ Window \in Nat \ {0}
  /\ ohb_size \in Nat /\ AuthTag \in Nat

-----------------------------------------------------------------------------
(* libsrtp.  A session keeps the highest packet index and, for the indices *)
(* in its window, which ones it has seen.  A packet index is the sequence  *)
(* number extended by a rollover counter that is never transmitted: each   *)
(* side estimates it from the highest index so far.                        *)

Half == SeqSpace \div 2

EstimateIndex(index, s) ==
  LET roc == index \div SeqSpace
      l == index % SeqSpace
      guess == IF l < Half THEN (IF s - l > Half THEN roc - 1 ELSE roc)
                           ELSE (IF l - Half > s THEN roc + 1 ELSE roc)
  IN  IF index <= Half THEN s ELSE guess * SeqSpace + s

SessionOf(k) == [key |-> k, index |-> 0, seen |-> {}]
NoSession == SessionOf(NoKey)

(* What srtp_unprotect says of an encrypted payload: the replay check      *)
(* comes before the authentication.                                        *)
srtp_unprotect(session, payload) ==
  LET i == EstimateIndex(session.index, payload.seq)
  IN  IF i <= session.index - Window THEN "replay_old"
      ELSE IF i \in session.seen THEN "replay_fail"
      ELSE IF payload.key = session.key /\ payload.index = i THEN "ok"
      ELSE "auth_fail"

(* The session after a packet with index i has been accepted.              *)
AddIndex(session, i) ==
  LET highest == IF i > session.index THEN i ELSE session.index
  IN  [session EXCEPT !.index = highest,
                      !.seen = {j \in @ \cup {i} : j > highest - Window}]

-----------------------------------------------------------------------------
(* MediaCrypto and its enabled flag.                                       *)

(* A context of a new RTPSender, before any key.                           *)
NewCrypto == [session |-> NoSession, enabled |-> FALSE]

(* Fault: an existing session is replaced.                                 *)
SetKeyReplaces(session, key) == key \in UsableKey

(* SetKey succeeds once: a second session is refused.                      *)
SetKey(session, key) == session = NoSession /\ key \in UsableKey

(* Fault: a refused key leaves encryption as it was.                       *)
SetMediaCryptoKeyKeepsOn(crypto, key) ==
  IF key = NoKey THEN [crypto EXCEPT !.enabled = FALSE]
  ELSE IF SetKey(crypto.session, key)
    THEN [session |-> SessionOf(key), enabled |-> TRUE]
    ELSE crypto

(* Fault: the result of SetKey is not looked at.                           *)
SetMediaCryptoKeyUnchecked(crypto, key) ==
  IF key = NoKey THEN [crypto EXCEPT !.enabled = FALSE]
  ELSE IF SetKey(crypto.session, key)
    THEN [session |-> SessionOf(key), enabled |-> TRUE]
    ELSE [crypto EXCEPT !.enabled = TRUE]

(* SetMediaCryptoKey of RTPSender and of RTPReceiverStrategy; the flag it  *)
(* sets is also its result.                                                *)
SetMediaCryptoKey(crypto, key) ==
  IF key = NoKey THEN [crypto EXCEPT !.enabled = FALSE]
  ELSE IF SetKey(crypto.session, key)
    THEN [session |-> SessionOf(key), enabled |-> TRUE]
    ELSE [crypto EXCEPT !.enabled = FALSE]

(* Fault: the authentication tag is not counted.                           *)
OverheadWithoutTag(crypto) ==
  IF crypto.enabled /\ crypto.session.key # NoKey THEN ohb_size ELSE 0

GetMediaEncryptionOverhead(crypto) ==
  IF crypto.enabled /\ crypto.session.key # NoKey THEN ohb_size + AuthTag
                                                  ELSE 0

(* Decrypt: an error of srtp_unprotect drops the packet, except that of a  *)
(* replay, whose payload is handed on as it is.                            *)
Decrypt(crypto, payload) ==
  IF crypto.session.key = NoKey THEN "no_session"
  ELSE srtp_unprotect(crypto.session, payload)
=============================================================================

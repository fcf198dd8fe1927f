-------------------- MODULE MediaCryptoKeyConfigProofs --------------------
(***************************************************************************)
(* Proofs about the distribution of media keys, for every set of keys and  *)
(* of simulcast layers and any number of calls.  The inductive invariant   *)
(* is KeyInv: the types, and for each stream what the number of keys its   *)
(* contexts were given says about their sessions.                          *)
(***************************************************************************)
EXTENDS MediaCryptoKeyConfig, TLAPS

(* No packet is encrypted here, so a session stays as SetKey created it.   *)
Session == {NoSession} \cup {SessionOf(k) : k \in UsableKey}
Crypto == [session : Session, enabled : BOOLEAN]

ConfigTypeOK ==
  /\ channel_key \in Key \cup {NoKey}
  /\ video_send \in [added : BOOLEAN, key : Key \cup {NoKey},
                     stream : BOOLEAN, rtp : [Layers -> Crypto]]
  /\ video_recv \in [added : BOOLEAN, key : Key \cup {NoKey}, in : Crypto]
  /\ audio \in [Direction -> [added : BOOLEAN, out : Crypto, in : Crypto]]
  /\ told \in [Stream -> Key \cup {NoKey}]
  /\ keyed \in [Stream -> 0 .. 2]

(* A context that was never given a key has no session, so that it will    *)
(* accept the first usable key; one that was given a usable key once works *)
(* with it.                                                                *)
FirstKeyTaken(c, asked, times) ==
  /\ times = 0 => c.session = NoSession
  /\ times = 1 /\ asked \in UsableKey => InForce(c, asked)

OnlyWithKey(c, asked) == c.enabled => InForce(c, asked)

VideoSendInv ==
  LET asked == told["video_send"]
      times == keyed["video_send"]
  IN  \A l \in Layers :
        /\ \A k \in Layers : video_send.rtp[k] = video_send.rtp[l]
        /\ times = 0 => video_send.rtp[l].session = NoSession
        /\ video_send.stream => /\ FirstKeyTaken(video_send.rtp[l], asked, times)
                                /\ OnlyWithKey(video_send.rtp[l], asked)

VideoRecvInv ==
  /\ FirstKeyTaken(video_recv.in, told["video_recv"], keyed["video_recv"])
  /\ OnlyWithKey(video_recv.in, told["video_recv"])

(* The flag of a new audio receiver is anything: OnlyWithKey is not said   *)
(* of it.                                                                  *)
AudioInv(d) ==
  LET asked == told[AudioStream(d)]
      times == keyed[AudioStream(d)]
  IN  /\ FirstKeyTaken(audio[d].out, asked, times)
      /\ FirstKeyTaken(audio[d].in, asked, times)
      /\ OnlyWithKey(audio[d].out, asked)

KeyInv ==
  /\ ConfigTypeOK
  /\ VideoSendInv
  /\ VideoRecvInv
  /\ \A d \in Direction : AudioInv(d)
-----------------------------------------------------------------------------
(* The count after one more key, as Record keeps it.                       *)
Counted(times, key) == IF key = NoKey \/ times = 2 THEN times ELSE times + 1

(* What SetMediaCryptoKey does to a context: whatever it was before, it is *)
(* enabled afterwards only with the key that was asked for, and it takes   *)
(* the first usable key it is given.                                       *)
LEMMA SetMediaCryptoKeyResult ==
  ASSUME NEW c \in Crypto, NEW key \in Key \cup {NoKey}, NEW times \in 0 .. 2,
         times = 0 => c.session = NoSession
  PROVE  LET r == SetMediaCryptoKey(c, key)
         IN  /\ r \in Crypto
             /\ FirstKeyTaken(r, key, Counted(times, key))
             /\ OnlyWithKey(r, key)
             /\ key = NoKey => r.session = c.session
<1>1. NoSession.key = NoKey /\ \A k \in UsableKey : SessionOf(k).key = k
  BY DEF NoSession, SessionOf
<1>2. CASE key = NoKey
  BY <1>2, KeyAssumption
  DEF SetMediaCryptoKey, Crypto, InForce, FirstKeyTaken, OnlyWithKey, Counted
<1>3. CASE key # NoKey /\ SetKey(c.session, key)
  BY <1>1, <1>3, KeyAssumption
  DEF SetMediaCryptoKey, SetKey, Crypto, Session, InForce, FirstKeyTaken,
      OnlyWithKey, Counted
<1>4. CASE key # NoKey /\ ~SetKey(c.session, key)
  <2>1. Counted(times, key) # 0
    BY <1>4 DEF Counted
  <2>2. Counted(times, key) = 1 => key \notin UsableKey
    BY <1>4 DEF Counted, SetKey
  <2> QED
    BY <1>4, <2>1, <2>2 DEF SetMediaCryptoKey, Crypto, FirstKeyTaken, OnlyWithKey
<1> QED
  BY <1>2, <1>3, <1>4

LEMMA SetMediaCryptoKeyType ==
  ASSUME NEW c \in Crypto, NEW key \in Key \cup {NoKey}
  PROVE  SetMediaCryptoKey(c, key) \in Crypto
BY DEF SetMediaCryptoKey, SetKey, Crypto, Session

LEMMA NewCryptoType ==
  /\ NewCrypto \in Crypto
  /\ NewCrypto.session = NoSession /\ ~NewCrypto.enabled
BY DEF NewCrypto, Crypto, Session

(* The bookkeeping of Record: the stream's own entries only.               *)
LEMMA RecordResult ==
  ASSUME ConfigTypeOK, NEW x \in Stream, NEW key \in Key \cup {NoKey},
         NEW fresh \in BOOLEAN, Record(x, key, fresh)
  PROVE  /\ told' \in [Stream -> Key \cup {NoKey}]
         /\ keyed' \in [Stream -> 0 .. 2]
         /\ told'[x] = key
         /\ keyed'[x] = Counted(IF fresh THEN 0 ELSE keyed[x], key)
         /\ \A y \in Stream \ {x} : told'[y] = told[y] /\ keyed'[y] = keyed[y]
BY DEF Record, ConfigTypeOK, Counted
-----------------------------------------------------------------------------
(* The streams that a step does not touch keep their part of KeyInv.       *)
LEMMA VideoSendKept ==
  ASSUME VideoSendInv, video_send' = video_send,
         told'["video_send"] = told["video_send"],
         keyed'["video_send"] = keyed["video_send"]
  PROVE  VideoSendInv'
BY DEF VideoSendInv, FirstKeyTaken, OnlyWithKey, InForce

LEMMA VideoRecvKept ==
  ASSUME VideoRecvInv, video_recv' = video_recv,
         told'["video_recv"] = told["video_recv"],
         keyed'["video_recv"] = keyed["video_recv"]
  PROVE  VideoRecvInv'
BY DEF VideoRecvInv, FirstKeyTaken, OnlyWithKey, InForce

LEMMA AudioKept ==
  ASSUME NEW d, AudioInv(d), audio'[d] = audio[d],
         told'[AudioStream(d)] = told[AudioStream(d)],
         keyed'[AudioStream(d)] = keyed[AudioStream(d)]
  PROVE  AudioInv(d)'
BY DEF AudioInv, FirstKeyTaken, OnlyWithKey, InForce

(* A stream's own step.  SetLayers treats every simulcast layer alike.     *)
LEMMA VideoSendStep ==
  ASSUME KeyInv, NEW key \in Key \cup {NoKey}, NEW fresh \in BOOLEAN,
         Record("video_send", key, fresh),
         NEW before \in [Layers -> Crypto],
         \A k, l \in Layers : before[k] = before[l],
         fresh \/ keyed["video_send"] = 0 =>
           \A l \in Layers : before[l].session = NoSession,
         \/ video_send'.rtp = SetLayers(before, key)
         \/ video_send'.rtp = before /\ ~video_send'.stream
  PROVE  VideoSendInv' /\ video_send'.rtp \in [Layers -> Crypto]
<1> DEFINE times == IF fresh THEN 0 ELSE keyed["video_send"]
<1>1. /\ times \in 0 .. 2
      /\ told'["video_send"] = key
      /\ keyed'["video_send"] = Counted(times, key)
  <2>1. ConfigTypeOK /\ "video_send" \in Stream
    BY DEF KeyInv, Stream
  <2>2. keyed["video_send"] \in 0 .. 2
    BY <2>1 DEF ConfigTypeOK
  <2> QED
    BY <2>1, <2>2, RecordResult
<1>2. times = 0 => \A l \in Layers : before[l].session = NoSession
  OBVIOUS
<1> HIDE DEF times
<1>3. CASE video_send'.rtp = before /\ ~video_send'.stream
  <2>1. Counted(times, key) = 0 => times = 0
    BY <1>1 DEF Counted
  <2> QED
    BY <1>1, <1>2, <1>3, <2>1 DEF VideoSendInv
<1>4. CASE video_send'.rtp = SetLayers(before, key)
  <2>1. ASSUME NEW l \in Layers
        PROVE  /\ video_send'.rtp[l] = SetMediaCryptoKey(before[l], key)
               /\ video_send'.rtp[l] \in Crypto
               /\ FirstKeyTaken(video_send'.rtp[l], key, Counted(times, key))
               /\ OnlyWithKey(video_send'.rtp[l], key)
    <3>1. video_send'.rtp[l] = SetMediaCryptoKey(before[l], key)
      BY <1>4 DEF SetLayers
    <3>2. before[l] \in Crypto
      OBVIOUS
    <3> QED
      BY <1>1, <1>2, <3>1, <3>2, SetMediaCryptoKeyResult
  <2>2. \A k, l \in Layers : video_send'.rtp[k] = video_send'.rtp[l]
    BY <2>1
  <2>3. video_send'.rtp \in [Layers -> Crypto]
    BY <1>4, <2>1 DEF SetLayers
  <2>4. VideoSendInv'
    BY <1>1, <2>1, <2>2 DEF VideoSendInv, FirstKeyTaken, OnlyWithKey, InForce
  <2> QED
    BY <2>3, <2>4
<1> QED
  BY <1>3, <1>4

LEMMA NewLayersKeyless ==
  /\ NewLayers \in [Layers -> Crypto]
  /\ SetLayers(NewLayers, NoKey) \in [Layers -> Crypto]
  /\ \A l \in Layers : /\ NewLayers[l].session = NoSession
                       /\ SetLayers(NewLayers, NoKey)[l].session = NoSession
  /\ \A k, l \in Layers :
       /\ NewLayers[k] = NewLayers[l]
       /\ SetLayers(NewLayers, NoKey)[k] = SetLayers(NewLayers, NoKey)[l]
<1>1. /\ SetMediaCryptoKey(NewCrypto, NoKey) \in Crypto
      /\ SetMediaCryptoKey(NewCrypto, NoKey).session = NoSession
  BY NewCryptoType, SetMediaCryptoKeyResult
<1> QED
  BY <1>1, NewCryptoType DEF NewLayers, SetLayers

LEMMA VideoSendActions ==
  ASSUME KeyInv,
         \/ \E has_codec \in BOOLEAN : AddVideoSendStream(has_codec)
         \/ RecreateWebRtcStream
         \/ \E key \in Key : SetVideoSendParameters(key)
         \/ RemoveVideoSendStream
  PROVE  KeyInv'
<1>1. /\ video_send.added \in BOOLEAN /\ video_send.stream \in BOOLEAN
      /\ video_send.key \in Key \cup {NoKey}
      /\ video_send.rtp \in [Layers -> Crypto]
      /\ channel_key \in Key \cup {NoKey}
  BY DEF KeyInv, ConfigTypeOK
<1>2. ASSUME NEW key \in Key \cup {NoKey}, NEW fresh \in BOOLEAN,
             Record("video_send", key, fresh), VideoSendInv',
             video_send' \in [added : BOOLEAN, key : Key \cup {NoKey},
                              stream : BOOLEAN, rtp : [Layers -> Crypto]],
             UNCHANGED <<channel_key, video_recv, audio>>
      PROVE  KeyInv'
  <2>1. /\ told' \in [Stream -> Key \cup {NoKey}]
        /\ keyed' \in [Stream -> 0 .. 2]
        /\ \A y \in Stream \ {"video_send"} :
             told'[y] = told[y] /\ keyed'[y] = keyed[y]
    BY <1>2, RecordResult DEF KeyInv, Stream
  <2>2. ConfigTypeOK'
    BY <1>2, <2>1 DEF KeyInv, ConfigTypeOK
  <2>3. VideoRecvInv'
    BY <1>2, <2>1, VideoRecvKept DEF KeyInv, Stream
  <2>4. \A d \in Direction : AudioInv(d)'
    BY <1>2, <2>1, AudioKept DEF KeyInv, Stream, Direction, AudioStream
  <2> QED
    BY <1>2, <2>2, <2>3, <2>4 DEF KeyInv
<1>3. ASSUME NEW has_codec \in BOOLEAN, AddVideoSendStream(has_codec)
      PROVE  KeyInv'
  <2> DEFINE before == SetLayers(NewLayers, NoKey)
  <2>1. video_send' =
          [added |-> TRUE, key |-> channel_key, stream |-> has_codec,
           rtp |-> IF has_codec THEN SetLayers(before, channel_key)
                                ELSE before]
    BY <1>3 DEF AddVideoSendStream, WithSendKey, NoVideoSend
  <2>2. Record("video_send", channel_key, TRUE)
    BY <1>3 DEF AddVideoSendStream
  <2>3. /\ before \in [Layers -> Crypto]
        /\ \A l \in Layers : before[l].session = NoSession
        /\ \A k, l \in Layers : before[k] = before[l]
    BY NewLayersKeyless
  <2>4. \/ video_send'.rtp = SetLayers(before, channel_key)
        \/ video_send'.rtp = before /\ ~video_send'.stream
    BY <2>1
  <2> HIDE DEF before
  <2>5. VideoSendInv' /\ video_send'.rtp \in [Layers -> Crypto]
    BY <1>1, <2>2, <2>3, <2>4, VideoSendStep
  <2>6. video_send' \in [added : BOOLEAN, key : Key \cup {NoKey},
                         stream : BOOLEAN, rtp : [Layers -> Crypto]]
    BY <1>1, <2>1, <2>5
  <2> QED
    BY <1>1, <1>2, <1>3, <2>2, <2>5, <2>6 DEF AddVideoSendStream
<1>4. CASE RecreateWebRtcStream
  <2>0. PICK key \in Key \cup {NoKey} : key = video_send.key
    BY <1>1
  <2>1. video_send' = [video_send EXCEPT !.stream = TRUE,
                                         !.rtp = SetLayers(NewLayers, key)]
    BY <1>4, <2>0 DEF RecreateWebRtcStream, Recreated
  <2>2. video_send'.rtp = SetLayers(NewLayers, key)
    BY <2>1 DEF KeyInv, ConfigTypeOK
  <2>3. Record("video_send", key, TRUE)
    BY <1>4, <2>0 DEF RecreateWebRtcStream
  <2>4. VideoSendInv' /\ video_send'.rtp \in [Layers -> Crypto]
    BY <1>1, <2>2, <2>3, NewLayersKeyless, VideoSendStep
  <2>5. video_send' \in [added : BOOLEAN, key : Key \cup {NoKey},
                         stream : BOOLEAN, rtp : [Layers -> Crypto]]
    BY <2>1, <2>2, <2>4 DEF KeyInv, ConfigTypeOK
  <2> QED
    BY <1>1, <1>2, <1>4, <2>3, <2>4, <2>5 DEF RecreateWebRtcStream
<1>5. ASSUME NEW key \in Key, SetVideoSendParameters(key)
      PROVE  KeyInv'
  <2>1. video_send' =
          [video_send EXCEPT !.key = key,
             !.rtp = IF video_send.stream THEN SetLayers(@, key) ELSE @]
    BY <1>5 DEF SetVideoSendParameters, WithSendKey
  <2>2. \/ video_send'.rtp = SetLayers(video_send.rtp, key)
        \/ video_send'.rtp = video_send.rtp /\ ~video_send'.stream
    BY <2>1 DEF KeyInv, ConfigTypeOK
  <2>3. Record("video_send", key, FALSE)
    BY <1>5 DEF SetVideoSendParameters
  <2>4. /\ \A k, l \in Layers : video_send.rtp[k] = video_send.rtp[l]
        /\ keyed["video_send"] = 0 =>
             \A l \in Layers : video_send.rtp[l].session = NoSession
    BY DEF KeyInv, VideoSendInv
  <2>5. VideoSendInv' /\ video_send'.rtp \in [Layers -> Crypto]
    BY <1>1, <2>2, <2>3, <2>4, VideoSendStep
  <2>6. video_send' \in [added : BOOLEAN, key : Key \cup {NoKey},
                         stream : BOOLEAN, rtp : [Layers -> Crypto]]
    BY <2>1, <2>5 DEF KeyInv, ConfigTypeOK
  <2> QED
    BY <1>2, <1>5, <2>3, <2>5, <2>6 DEF SetVideoSendParameters
<1>6. CASE RemoveVideoSendStream
  <2>1. video_send' = NoVideoSend /\ Record("video_send", NoKey, TRUE)
    BY <1>6 DEF RemoveVideoSendStream
  <2>2. video_send'.rtp = NewLayers /\ ~video_send'.stream
    BY <2>1 DEF NoVideoSend
  <2>3. VideoSendInv' /\ video_send'.rtp \in [Layers -> Crypto]
    BY <2>1, <2>2, NewLayersKeyless, VideoSendStep
  <2>4. video_send' \in [added : BOOLEAN, key : Key \cup {NoKey},
                         stream : BOOLEAN, rtp : [Layers -> Crypto]]
    BY <2>1, NewLayersKeyless DEF NoVideoSend
  <2> QED
    BY <1>2, <1>6, <2>1, <2>3, <2>4 DEF RemoveVideoSendStream
<1> QED
  BY <1>3, <1>4, <1>5, <1>6

LEMMA VideoRecvStep ==
  ASSUME KeyInv, NEW key \in Key \cup {NoKey}, NEW fresh \in BOOLEAN,
         Record("video_recv", key, fresh),
         NEW before \in Crypto,
         fresh \/ keyed["video_recv"] = 0 => before.session = NoSession,
         video_recv' \in [added : BOOLEAN, key : Key \cup {NoKey},
                          in : {SetMediaCryptoKey(before, key)}],
         UNCHANGED <<channel_key, video_send, audio>>
  PROVE  KeyInv'
<1> DEFINE times == IF fresh THEN 0 ELSE keyed["video_recv"]
<1>0. ConfigTypeOK /\ "video_recv" \in Stream
  BY DEF KeyInv, Stream
<1>1. times \in 0 .. 2 /\ (times = 0 => before.session = NoSession)
  BY <1>0 DEF ConfigTypeOK
<1>2. /\ told' \in [Stream -> Key \cup {NoKey}]
      /\ keyed' \in [Stream -> 0 .. 2]
      /\ told'["video_recv"] = key
      /\ keyed'["video_recv"] = Counted(times, key)
      /\ \A y \in Stream \ {"video_recv"} :
           told'[y] = told[y] /\ keyed'[y] = keyed[y]
  BY <1>0, RecordResult
<1> HIDE DEF times
<1>3. video_recv'.in = SetMediaCryptoKey(before, key)
  OBVIOUS
<1>4. /\ video_recv'.in \in Crypto
      /\ FirstKeyTaken(video_recv'.in, key, Counted(times, key))
      /\ OnlyWithKey(video_recv'.in, key)
  BY <1>1, <1>3, SetMediaCryptoKeyResult
<1>5. VideoRecvInv'
  BY <1>2, <1>4 DEF VideoRecvInv, FirstKeyTaken, OnlyWithKey, InForce
<1>6. ConfigTypeOK'
  BY <1>0, <1>2, <1>3, <1>4 DEF ConfigTypeOK
<1>7. VideoSendInv'
  BY <1>2, VideoSendKept DEF KeyInv, Stream
<1>8. \A d \in Direction : AudioInv(d)'
  BY <1>2, AudioKept DEF KeyInv, Stream, Direction, AudioStream
<1> QED
  BY <1>5, <1>6, <1>7, <1>8 DEF KeyInv

LEMMA VideoRecvActions ==
  ASSUME KeyInv,
         \/ AddVideoRecvStream
         \/ RecreateWebRtcVideoStream
         \/ \E key \in Key : SetVideoRecvParameters(key)
         \/ RemoveVideoRecvStream
  PROVE  KeyInv'
<1>0. /\ video_recv \in [added : BOOLEAN, key : Key \cup {NoKey}, in : Crypto]
      /\ channel_key \in Key \cup {NoKey}
  BY DEF KeyInv, ConfigTypeOK
<1>1. CASE AddVideoRecvStream
  <2>1. PICK key \in Key \cup {NoKey} : key = channel_key
    BY <1>0
  <2>2. PICK before \in Crypto :
          /\ before = SetMediaCryptoKey(NewCrypto, NoKey)
          /\ before.session = NoSession
    BY NewCryptoType, SetMediaCryptoKeyResult
  <2>3. video_recv' = [added |-> TRUE, key |-> key,
                       in |-> SetMediaCryptoKey(before, key)]
    BY <1>1, <2>1, <2>2 DEF AddVideoRecvStream
  <2>4. video_recv' \in [added : BOOLEAN, key : Key \cup {NoKey},
                         in : {SetMediaCryptoKey(before, key)}]
    BY <2>3
  <2>5. /\ Record("video_recv", key, TRUE)
        /\ UNCHANGED <<channel_key, video_send, audio>>
    BY <1>1, <2>1 DEF AddVideoRecvStream
  <2> QED
    BY <2>2, <2>4, <2>5, VideoRecvStep
<1>2. CASE RecreateWebRtcVideoStream
  <2>1. PICK key \in Key \cup {NoKey} : key = video_recv.key
    BY <1>0
  <2>2. video_recv' = [video_recv EXCEPT
                         !.in = SetMediaCryptoKey(NewCrypto, key)]
    BY <1>2, <2>1 DEF RecreateWebRtcVideoStream
  <2>3. video_recv' \in [added : BOOLEAN, key : Key \cup {NoKey},
                         in : {SetMediaCryptoKey(NewCrypto, key)}]
    BY <1>0, <2>2
  <2>4. /\ Record("video_recv", key, TRUE)
        /\ UNCHANGED <<channel_key, video_send, audio>>
    BY <1>2, <2>1 DEF RecreateWebRtcVideoStream
  <2> QED
    BY <2>3, <2>4, NewCryptoType, VideoRecvStep
<1>3. ASSUME NEW key \in Key, SetVideoRecvParameters(key)
      PROVE  KeyInv'
  <2>1. PICK before \in Crypto : before = video_recv.in
    BY <1>0
  <2>2. video_recv' = [video_recv EXCEPT !.key = key,
                         !.in = SetMediaCryptoKey(before, key)]
    BY <1>0, <1>3, <2>1 DEF SetVideoRecvParameters
  <2>3. video_recv' \in [added : BOOLEAN, key : Key \cup {NoKey},
                         in : {SetMediaCryptoKey(before, key)}]
    BY <1>0, <2>2
  <2>4. keyed["video_recv"] = 0 => before.session = NoSession
    BY <2>1 DEF KeyInv, VideoRecvInv, FirstKeyTaken
  <2>5. /\ Record("video_recv", key, FALSE)
        /\ UNCHANGED <<channel_key, video_send, audio>>
    BY <1>3 DEF SetVideoRecvParameters
  <2> QED
    BY <2>3, <2>4, <2>5, VideoRecvStep
<1>4. CASE RemoveVideoRecvStream
  <2>1. SetMediaCryptoKey(NewCrypto, NoKey) = NewCrypto
    BY DEF SetMediaCryptoKey, NewCrypto
  <2>2. video_recv' \in [added : BOOLEAN, key : Key \cup {NoKey},
                         in : {SetMediaCryptoKey(NewCrypto, NoKey)}]
    BY <1>4, <2>1 DEF RemoveVideoRecvStream, NoVideoRecv
  <2>3. /\ Record("video_recv", NoKey, TRUE)
        /\ UNCHANGED <<channel_key, video_send, audio>>
    BY <1>4 DEF RemoveVideoRecvStream
  <2> QED
    BY <2>2, <2>3, NewCryptoType, VideoRecvStep
<1> QED
  BY <1>1, <1>2, <1>3, <1>4

LEMMA WithChannelKeyResult ==
  ASSUME NEW before \in [added : BOOLEAN, out : Crypto, in : Crypto],
         NEW key \in Key \cup {NoKey}
  PROVE  LET after == WithChannelKey(before, key)
         IN  /\ after \in [added : BOOLEAN, out : Crypto, in : Crypto]
             /\ after.out = SetMediaCryptoKey(before.out, key)
             /\ after.in = IF after.out.enabled
                             THEN SetMediaCryptoKey(before.in, key)
                             ELSE before.in
<1> DEFINE o == SetMediaCryptoKey(before.out, key)
           i == SetMediaCryptoKey(before.in, key)
<1>1. o \in Crypto /\ i \in Crypto
  BY SetMediaCryptoKeyType
<1>2. WithChannelKey(before, key)
        = [before EXCEPT !.out = o, !.in = IF o.enabled THEN i ELSE @]
  BY DEF WithChannelKey
<1> QED
  BY <1>1, <1>2

(* A voice channel hands a key to its receiver only if its sender took it: *)
(* the first usable key reaches both.                                      *)
LEMMA AudioStep ==
  ASSUME KeyInv, NEW d \in Direction,
         NEW key \in Key \cup {NoKey}, NEW fresh \in BOOLEAN,
         Record(AudioStream(d), key, fresh),
         NEW before \in [added : BOOLEAN, out : Crypto, in : Crypto],
         fresh \/ keyed[AudioStream(d)] = 0 =>
           before.out.session = NoSession /\ before.in.session = NoSession,
         NEW after \in [added : BOOLEAN, out : Crypto, in : Crypto],
         after.out = SetMediaCryptoKey(before.out, key),
         after.in = IF after.out.enabled
                      THEN SetMediaCryptoKey(before.in, key) ELSE before.in,
         audio' = [audio EXCEPT ![d] = after],
         UNCHANGED <<channel_key, video_send, video_recv>>
  PROVE  KeyInv'
<1> DEFINE x == AudioStream(d)
           times == IF fresh THEN 0 ELSE keyed[x]
           o == SetMediaCryptoKey(before.out, key)
           i == SetMediaCryptoKey(before.in, key)
<1>0. ConfigTypeOK /\ x \in Stream
  BY DEF KeyInv, Stream, AudioStream
<1>1. /\ times \in 0 .. 2
      /\ times = 0 =>
           before.out.session = NoSession /\ before.in.session = NoSession
  BY <1>0 DEF ConfigTypeOK
<1>2. /\ told' \in [Stream -> Key \cup {NoKey}]
      /\ keyed' \in [Stream -> 0 .. 2]
      /\ told'[x] = key
      /\ keyed'[x] = Counted(times, key)
      /\ \A y \in Stream \ {x} : told'[y] = told[y] /\ keyed'[y] = keyed[y]
  BY <1>0, RecordResult
<1> HIDE DEF times
<1>3. /\ o \in Crypto
      /\ FirstKeyTaken(o, key, Counted(times, key))
      /\ OnlyWithKey(o, key)
  BY <1>1, SetMediaCryptoKeyResult
<1>4. /\ i \in Crypto
      /\ FirstKeyTaken(i, key, Counted(times, key))
  BY <1>1, SetMediaCryptoKeyResult
<1>6. after.out = o /\ after.in = IF o.enabled THEN i ELSE before.in
  OBVIOUS
<1> HIDE DEF o, i
<1>7. FirstKeyTaken(after.in, key, Counted(times, key))
  <2>1. CASE o.enabled
    BY <1>4, <1>6, <2>1
  <2>2. CASE ~o.enabled
    <3>1. Counted(times, key) = 0 => times = 0
      BY <1>1 DEF Counted
    <3>2. ~(Counted(times, key) = 1 /\ key \in UsableKey)
      BY <1>3, <2>2 DEF FirstKeyTaken, InForce
    <3> QED
      BY <1>1, <1>6, <2>2, <3>1, <3>2 DEF FirstKeyTaken
  <2> QED
    BY <2>1, <2>2
<1>8. audio'[d] = after
  BY <1>0 DEF ConfigTypeOK
<1>9. AudioInv(d)'
  BY <1>2, <1>3, <1>6, <1>7, <1>8
  DEF AudioInv, FirstKeyTaken, OnlyWithKey, InForce
<1>10. ASSUME NEW e \in Direction, e # d
       PROVE  AudioInv(e)'
  <2>1. AudioStream(e) \in Stream \ {x}
    BY <1>10 DEF Stream, Direction, AudioStream
  <2>2. audio'[e] = audio[e]
    BY <1>0, <1>10 DEF ConfigTypeOK
  <2>3. AudioInv(e)
    BY DEF KeyInv
  <2> QED
    BY <1>2, <2>1, <2>2, <2>3, AudioKept
<1>11. ConfigTypeOK'
  BY <1>0, <1>2 DEF ConfigTypeOK
<1>12. "video_send" \in Stream \ {x} /\ "video_recv" \in Stream \ {x}
  BY DEF Stream, AudioStream
<1>13. VideoSendInv' /\ VideoRecvInv'
  BY <1>2, <1>12, VideoSendKept, VideoRecvKept DEF KeyInv
<1> QED
  BY <1>9, <1>10, <1>11, <1>13 DEF KeyInv

LEMMA AudioActions ==
  ASSUME KeyInv,
         \/ \E d \in Direction, uninitialized \in BOOLEAN :
              AddAudioStream(d, uninitialized)
         \/ \E d \in Direction, key \in Key : SetAudioParameters(d, key)
         \/ \E d \in Direction : RemoveAudioStream(d)
  PROVE  KeyInv'
<1>0. /\ audio \in [Direction -> [added : BOOLEAN, out : Crypto, in : Crypto]]
      /\ channel_key \in Key \cup {NoKey}
  BY DEF KeyInv, ConfigTypeOK
<1>1. ASSUME NEW d \in Direction, NEW uninitialized \in BOOLEAN,
             AddAudioStream(d, uninitialized)
      PROVE  KeyInv'
  <2> DEFINE created ==
        [added |-> TRUE, out |-> NewCrypto,
         in |-> [session |-> NoSession, enabled |-> uninitialized]]
  <2>1. PICK key \in Key \cup {NoKey} : key = channel_key
    BY <1>0
  <2>2. /\ created \in [added : BOOLEAN, out : Crypto, in : Crypto]
        /\ created.out.session = NoSession /\ created.in.session = NoSession
    BY NewCryptoType DEF Crypto, Session
  <2>3. /\ audio' = [audio EXCEPT ![d] = WithChannelKey(created, key)]
        /\ Record(AudioStream(d), key, TRUE)
        /\ UNCHANGED <<channel_key, video_send, video_recv>>
    BY <1>1, <2>1 DEF AddAudioStream
  <2> HIDE DEF created
  <2> QED
    BY <2>2, <2>3, WithChannelKeyResult, AudioStep
<1>2. ASSUME NEW d \in Direction, NEW key \in Key, SetAudioParameters(d, key)
      PROVE  KeyInv'
  <2>1. PICK before \in [added : BOOLEAN, out : Crypto, in : Crypto] :
          before = audio[d]
    BY <1>0
  <2>2. keyed[AudioStream(d)] = 0 =>
          before.out.session = NoSession /\ before.in.session = NoSession
    BY <2>1 DEF KeyInv, AudioInv, FirstKeyTaken
  <2>3. /\ audio' = [audio EXCEPT ![d] = WithChannelKey(before, key)]
        /\ Record(AudioStream(d), key, FALSE)
        /\ UNCHANGED <<channel_key, video_send, video_recv>>
    BY <1>2, <2>1 DEF SetAudioParameters
  <2>4. PICK after \in [added : BOOLEAN, out : Crypto, in : Crypto] :
          /\ after = WithChannelKey(before, key)
          /\ after.out = SetMediaCryptoKey(before.out, key)
          /\ after.in = IF after.out.enabled
                          THEN SetMediaCryptoKey(before.in, key)
                          ELSE before.in
    BY WithChannelKeyResult
  <2> QED
    BY <2>2, <2>3, <2>4, AudioStep
<1>3. ASSUME NEW d \in Direction, RemoveAudioStream(d)
      PROVE  KeyInv'
  <2>1. /\ NoAudio \in [added : BOOLEAN, out : Crypto, in : Crypto]
        /\ NoAudio.out.session = NoSession /\ NoAudio.in.session = NoSession
    BY NewCryptoType DEF NoAudio
  <2>2. SetMediaCryptoKey(NewCrypto, NoKey) = NewCrypto
    BY DEF SetMediaCryptoKey, NewCrypto
  <2>3. /\ NoAudio.out = SetMediaCryptoKey(NoAudio.out, NoKey)
        /\ NoAudio.in = IF NoAudio.out.enabled
                          THEN SetMediaCryptoKey(NoAudio.in, NoKey)
                          ELSE NoAudio.in
    BY <2>2 DEF NoAudio
  <2>4. /\ audio' = [audio EXCEPT ![d] = NoAudio]
        /\ Record(AudioStream(d), NoKey, TRUE)
        /\ UNCHANGED <<channel_key, video_send, video_recv>>
    BY <1>3 DEF RemoveAudioStream
  <2> QED
    BY <2>1, <2>3, <2>4, AudioStep
<1> QED
  BY <1>1, <1>2, <1>3

LEMMA InitKeyInv == Init => KeyInv
<1> SUFFICES ASSUME Init PROVE KeyInv
  OBVIOUS
<1>1. ConfigTypeOK
  BY NewCryptoType, NewLayersKeyless
  DEF Init, ConfigTypeOK, NoVideoSend, NoVideoRecv, NoAudio
<1>2. VideoSendInv
  BY NewCryptoType, NewLayersKeyless DEF Init, VideoSendInv, NoVideoSend
<1>3. VideoRecvInv
  BY NewCryptoType
  DEF Init, VideoRecvInv, NoVideoRecv, FirstKeyTaken, OnlyWithKey, Stream
<1>4. ASSUME NEW d \in Direction PROVE AudioInv(d)
  BY NewCryptoType
  DEF Init, AudioInv, NoAudio, FirstKeyTaken, OnlyWithKey, Stream, AudioStream
<1> QED
  BY <1>1, <1>2, <1>3, <1>4 DEF KeyInv

(* KeyInv is inductive.                                                    *)
THEOREM KeyInvariant == Spec => []KeyInv
<1>1. KeyInv /\ [Next]_configVars => KeyInv'
  <2> SUFFICES ASSUME KeyInv, [Next]_configVars PROVE KeyInv'
    OBVIOUS
  <2>1. CASE Next
    BY <2>1, VideoSendActions, VideoRecvActions, AudioActions DEF Next
  <2>2. CASE UNCHANGED configVars
    BY <2>2
    DEF configVars, KeyInv, ConfigTypeOK, VideoSendInv, VideoRecvInv,
        AudioInv, FirstKeyTaken, OnlyWithKey, InForce
  <2> QED
    BY <2>1, <2>2
<1> QED
  BY <1>1, InitKeyInv, PTL DEF Spec

(* A stream whose contexts got a usable key exactly once since they were   *)
(* created uses it, on every layer, for any sequence of calls that add,    *)
(* key, recreate and remove streams.                                       *)
THEOREM KeyedOnceHolds == Spec => []KeyedOnceIsInForce
<1>1. KeyInv => KeyedOnceIsInForce
  <2> SUFFICES ASSUME KeyInv, NEW x \in Stream,
                      keyed[x] = 1, told[x] \in UsableKey,
                      NEW c \in Contexts(x)
               PROVE  InForce(c, told[x])
    BY DEF KeyedOnceIsInForce
  <2>1. CASE x = "video_send"
    BY <2>1 DEF KeyInv, VideoSendInv, Contexts, FirstKeyTaken
  <2>2. CASE x = "video_recv"
    BY <2>2 DEF KeyInv, VideoRecvInv, Contexts, FirstKeyTaken
  <2>3. CASE x = "audio_send"
    BY <2>3
    DEF KeyInv, AudioInv, Contexts, FirstKeyTaken, Direction, AudioStream
  <2>4. CASE x = "audio_recv"
    BY <2>4
    DEF KeyInv, AudioInv, Contexts, FirstKeyTaken, Direction, AudioStream
  <2> QED
    BY <2>1, <2>2, <2>3, <2>4 DEF Stream
<1> QED
  BY <1>1, KeyInvariant, PTL

(* No sender and no video receiver ever works with another key than the    *)
(* one it was last asked for.                                              *)
THEOREM NeverAnotherKeyHolds == Spec => []NeverAnotherKey
<1>1. KeyInv => NeverAnotherKey
  <2> SUFFICES ASSUME KeyInv, NEW x \in Stream \ {"audio_recv"},
                      NEW c \in Contexts(x), c.enabled
               PROVE  InForce(c, told[x])
    BY DEF NeverAnotherKey
  <2>1. CASE x = "video_send"
    BY <2>1 DEF KeyInv, VideoSendInv, Contexts, OnlyWithKey
  <2>2. CASE x = "video_recv"
    BY <2>2 DEF KeyInv, VideoRecvInv, Contexts, OnlyWithKey
  <2>3. CASE x = "audio_send"
    BY <2>3
    DEF KeyInv, AudioInv, Contexts, OnlyWithKey, Direction, AudioStream
  <2> QED
    BY <2>1, <2>2, <2>3 DEF Stream
<1> QED
  BY <1>1, KeyInvariant, PTL

(* The simulcast layers of a video send stream always have equal contexts. *)
THEOREM LayersAgreeHolds == Spec => []LayersAgree
<1>1. KeyInv => LayersAgree
  BY DEF KeyInv, VideoSendInv, LayersAgree
<1> QED
  BY <1>1, KeyInvariant, PTL
=============================================================================

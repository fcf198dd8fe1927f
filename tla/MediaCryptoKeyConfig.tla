----------------------- MODULE MediaCryptoKeyConfig -----------------------
(***************************************************************************)
(* How an end-to-end media key reaches the crypto contexts.                *)
(*                                                                         *)
(* The key comes from the session's configuration, through the media       *)
(* channel to every stream that is added, or from SetRtpParameters of one  *)
(* stream.  Video streams (media/engine/webrtcvideoengine.cc) remember it  *)
(* and set it again when they are recreated; a send stream has one RTP     *)
(* module per simulcast layer.  Audio streams                              *)
(* (media/engine/webrtcvoiceengine.cc) pass it to a voice channel that has *)
(* a sender and a receiver.  All of this runs on the worker thread, each   *)
(* call to its end; one stream of each kind is modelled.                   *)
(***************************************************************************)
EXTENDS MediaCrypto

CONSTANTS
  Layers,    \* The RTP modules of a video send stream.
  MaxCalls   \* Bound on the calls that change a stream.

VARIABLES
  channel_key, \* MediaChannel::media_crypto_key_, from the session.
  video_send,  \* WebRtcVideoSendStream: added, key, stream exists, contexts.
  video_recv,  \* WebRtcVideoReceiveStream: added, key, context.
  audio,       \* The voice channel of each audio stream: added, contexts.
  told,        \* The key each stream was last asked for.
  keyed,       \* How often each stream's present contexts got a key, up to 2.
  calls

configVars == <<channel_key, video_send, video_recv, audio, told, keyed,
                calls>>

Direction == {"send", "recv"}
Stream == {"video_send", "video_recv", "audio_send", "audio_recv"}
AudioStream(d) == IF d = "send" THEN "audio_send" ELSE "audio_recv"

Call == calls < MaxCalls /\ calls' = calls + 1

(* The bookkeeping of a key given to stream x; "fresh" when its contexts   *)
(* are new.                                                                *)
Record(x, key, fresh) ==
  LET before == IF fresh THEN 0 ELSE keyed[x]
  IN  /\ told' = [told EXCEPT ![x] = key]
      /\ keyed' = [keyed EXCEPT ![x] = IF key = NoKey \/ before = 2
                                         THEN before ELSE before + 1]

-----------------------------------------------------------------------------
(* Video send stream.                                                      *)

(* Fault: the loop over the modules stops at the first failure.            *)
SetLayersStopAtFailure(rtp, key) ==
  LET Fails(l) == ~SetMediaCryptoKey(rtp[l], key).enabled
  IN  [l \in Layers |->
         IF \E k \in Layers : k < l /\ Fails(k) THEN rtp[l]
         ELSE SetMediaCryptoKey(rtp[l], key)]

(* VideoSendStreamImpl::SetMediaCryptoKey: every module, whatever the      *)
(* others answer.                                                          *)
SetLayers(rtp, key) == [l \in Layers |-> SetMediaCryptoKey(rtp[l], key)]

NewLayers == [l \in Layers |-> NewCrypto]
NoVideoSend ==
  [added |-> FALSE, key |-> NoKey, stream |-> FALSE, rtp |-> NewLayers]

(* WebRtcVideoSendStream::SetMediaCryptoKey.  With no VideoSendStream yet  *)
(* the key is only remembered.                                             *)
WithSendKey(vs, key) ==
  [vs EXCEPT !.key = key,
             !.rtp = IF vs.stream THEN SetLayers(@, key) ELSE @]

(* AddSendStream.  If the send codec is known the constructor creates the  *)
(* VideoSendStream, without a key; the channel's key is set afterwards.    *)
(* No frame can be sent in between: the stream has no source yet.          *)
AddVideoSendStream(has_codec) ==
  /\ ~video_send.added
  /\ Call
  /\ LET created == [NoVideoSend EXCEPT !.added = TRUE, !.stream = has_codec,
                                        !.rtp = SetLayers(@, NoKey)]
     IN  video_send' = WithSendKey(created, channel_key)
  /\ Record("video_send", channel_key, TRUE)
  /\ UNCHANGED <<channel_key, video_recv, audio>>

(* Fault: the key is not set again.                                        *)
RecreatedWithoutKey(vs) == [vs EXCEPT !.stream = TRUE, !.rtp = NewLayers]

(* RecreateWebRtcStream: new modules, and the remembered key.              *)
Recreated(vs) ==
  [vs EXCEPT !.stream = TRUE, !.rtp = SetLayers(NewLayers, vs.key)]

RecreateWebRtcStream ==
  /\ video_send.added
  /\ Call
  /\ video_send' = Recreated(video_send)
  /\ Record("video_send", video_send.key, TRUE)
  /\ UNCHANGED <<channel_key, video_recv, audio>>

(* SetRtpParameters with a key that parses; it returns true whatever       *)
(* becomes of the key.                                                     *)
SetVideoSendParameters(key) ==
  /\ video_send.added
  /\ Call
  /\ video_send' = WithSendKey(video_send, key)
  /\ Record("video_send", key, FALSE)
  /\ UNCHANGED <<channel_key, video_recv, audio>>

RemoveVideoSendStream ==
  /\ video_send.added
  /\ Call
  /\ video_send' = NoVideoSend
  /\ Record("video_send", NoKey, TRUE)
  /\ UNCHANGED <<channel_key, video_recv, audio>>

-----------------------------------------------------------------------------
(* Video receive stream.  Its RTP module is receiver_only and accepts any  *)
(* key, so RtpVideoStreamReceiver::SetMediaCryptoKey always reaches the    *)
(* receiver.  The flag of a new receiver is not initialized, but           *)
(* RecreateWebRtcVideoStream sets it at once.                              *)

NoVideoRecv == [added |-> FALSE, key |-> NoKey, in |-> NewCrypto]

AddVideoRecvStream ==
  /\ ~video_recv.added
  /\ Call
  /\ LET created == SetMediaCryptoKey(NewCrypto, NoKey)
     IN  video_recv' = [added |-> TRUE, key |-> channel_key,
                        in |-> SetMediaCryptoKey(created, channel_key)]
  /\ Record("video_recv", channel_key, TRUE)
  /\ UNCHANGED <<channel_key, video_send, audio>>

RecreateWebRtcVideoStream ==
  /\ video_recv.added
  /\ Call
  /\ video_recv' =
       [video_recv EXCEPT !.in = SetMediaCryptoKey(NewCrypto, video_recv.key)]
  /\ Record("video_recv", video_recv.key, TRUE)
  /\ UNCHANGED <<channel_key, video_send, audio>>

SetVideoRecvParameters(key) ==
  /\ video_recv.added
  /\ Call
  /\ video_recv' = [video_recv EXCEPT !.key = key,
                                      !.in = SetMediaCryptoKey(@, key)]
  /\ Record("video_recv", key, FALSE)
  /\ UNCHANGED <<channel_key, video_send, audio>>

RemoveVideoRecvStream ==
  /\ video_recv.added
  /\ Call
  /\ video_recv' = NoVideoRecv
  /\ Record("video_recv", NoKey, TRUE)
  /\ UNCHANGED <<channel_key, video_send, audio>>

-----------------------------------------------------------------------------
(* Audio streams.                                                          *)

NoAudio == [added |-> FALSE, out |-> NewCrypto, in |-> NewCrypto]

(* ChannelProxy::SetMediaCryptoKey: the receiver is only reached if the    *)
(* sender has accepted the key; it does not accept the absence of one.     *)
WithChannelKey(channel, key) ==
  LET out == SetMediaCryptoKey(channel.out, key)
  IN  [channel EXCEPT !.out = out,
                      !.in = IF out.enabled THEN SetMediaCryptoKey(@, key)
                                            ELSE @]

(* A new voice channel.  media_crypto_enabled_ of its receiver is not      *)
(* initialized: it has either value.                                       *)
AddAudioStream(d, uninitialized) ==
  /\ ~audio[d].added
  /\ Call
  /\ LET created == [added |-> TRUE, out |-> NewCrypto,
                     in |-> [session |-> NoSession, enabled |-> uninitialized]]
     IN  audio' = [audio EXCEPT ![d] = WithChannelKey(created, channel_key)]
  /\ Record(AudioStream(d), channel_key, TRUE)
  /\ UNCHANGED <<channel_key, video_send, video_recv>>

SetAudioParameters(d, key) ==
  /\ audio[d].added
  /\ Call
  /\ audio' = [audio EXCEPT ![d] = WithChannelKey(@, key)]
  /\ Record(AudioStream(d), key, FALSE)
  /\ UNCHANGED <<channel_key, video_send, video_recv>>

RemoveAudioStream(d) ==
  /\ audio[d].added
  /\ Call
  /\ audio' = [audio EXCEPT ![d] = NoAudio]
  /\ Record(AudioStream(d), NoKey, TRUE)
  /\ UNCHANGED <<channel_key, video_send, video_recv>>

-----------------------------------------------------------------------------

(* The session's key, if any, is given to the channel when it is created.  *)
Init ==
  /\ channel_key \in Key \cup {NoKey}
  /\ video_send = NoVideoSend
  /\ video_recv = NoVideoRecv
  /\ audio = [d \in Direction |-> NoAudio]
  /\ told = [x \in Stream |-> NoKey]
  /\ keyed = [x \in Stream |-> 0]
  /\ calls = 0

Next ==
  \/ \E has_codec \in BOOLEAN : AddVideoSendStream(has_codec)
  \/ RecreateWebRtcStream
  \/ \E key \in Key : SetVideoSendParameters(key)
  \/ RemoveVideoSendStream
  \/ AddVideoRecvStream
  \/ RecreateWebRtcVideoStream
  \/ \E key \in Key : SetVideoRecvParameters(key)
  \/ RemoveVideoRecvStream
  \/ \E d \in Direction, uninitialized \in BOOLEAN :
       AddAudioStream(d, uninitialized)
  \/ \E d \in Direction, key \in Key : SetAudioParameters(d, key)
  \/ \E d \in Direction : RemoveAudioStream(d)

Spec == Init /\ [][Next]_configVars

-----------------------------------------------------------------------------
(* Properties.                                                             *)

(* The crypto contexts that carry a stream's media.                        *)
Contexts(x) ==
  CASE x = "video_send" -> IF video_send.stream
                             THEN {video_send.rtp[l] : l \in Layers} ELSE {}
    [] x = "video_recv" -> IF video_recv.added THEN {video_recv.in} ELSE {}
    [] x = "audio_send" -> IF audio["send"].added THEN {audio["send"].out}
                                                  ELSE {}
    [] x = "audio_recv" -> IF audio["recv"].added THEN {audio["recv"].in}
                                                  ELSE {}

InForce(crypto, key) == crypto.enabled /\ crypto.session.key = key

(* A stream whose contexts got a usable key exactly once since they were   *)
(* created uses it, on every simulcast layer: a stream that is added       *)
(* before its codec is known, keyed, recreated, or removed and added again *)
(* in any order never silently goes on without its key.                    *)
KeyedOnceIsInForce ==
  \A x \in Stream :
    keyed[x] = 1 /\ told[x] \in UsableKey =>
      \A c \in Contexts(x) : InForce(c, told[x])

(* A sender or video receiver never works with another key than the one it *)
(* was last asked for: a key that cannot be set disables encryption.       *)
NeverAnotherKey ==
  \A x \in Stream \ {"audio_recv"} :
    \A c \in Contexts(x) : c.enabled => InForce(c, told[x])

(* The simulcast layers of a video send stream are all encrypted with the  *)
(* same key or all not.                                                    *)
LayersAgree ==
  \A k, l \in Layers : video_send.rtp[k] = video_send.rtp[l]

(* After SetRtpParameters with a key ("Enabling End to End Media           *)
(* Encryption with key", webrtcvideoengine.cc) video is sent encrypted     *)
(* with it.                                                                *)
RequestedKeyInForce ==
  told["video_send"] \in UsableKey =>
    \A c \in Contexts("video_send") : InForce(c, told["video_send"])

(* An audio receiver that was never given a key hands on what it receives  *)
(* (as every test that receives audio without a key expects).              *)
UnkeyedAudioIsReceived ==
  audio["recv"].added /\ keyed["audio_recv"] = 0 => ~audio["recv"].in.enabled
=============================================================================

# Formal models of perc-webrtc

This directory holds TLA+ models of the parts of this WebRTC fork that carry
its core logic and are hard to test: the paced RTP send path with its packet
history, the end-to-end media encryption (PERC "double" encryption) that the
fork adds to it, the video receive path from the NACK module to the decoder,
the data channels over SCTP, and the threads and message queues that all of it
runs on. TLC checks the models on small instances. For the packet history, the
paced send path, the encrypted media path, the distribution of media keys, the
threads and the data channels, TLAPS proves the safety invariants for every
instance.

## 1. The system

WebRTC is a library: an application creates a peer connection, which
negotiates a session (SDP), connects the peers (ICE, DTLS), and then moves
media and data. The repository's parts, and what this project does with them
(`PROJECT.json` lists them all):

| part | state | operations | interacts with |
|---|---|---|---|
| packet history (`modules/rtp_rtcp/source/rtp_packet_history.cc`) | ring of stored packets, write index | store, find, fetch and mark as sent, best fitting packet, switch storing on or off | called by the RTP sender from three threads |
| RTP sender (`rtp_sender.cc`, `rtp_sender_video.cc`) | sequence numbers, marker of the last packet, RTX mode, sending flag | number, encrypt, store and enqueue a packet; send on the pacer's call; pad; answer NACKs | encoder thread above, pacer and transport below, RTCP |
| pacer (`modules/pacing/paced_sender.cc`) | packet list, priority queue, duplicate set, budgets, paused flag | insert, process (pop, send, finalize or cancel), pause, resume | calls the RTP sender back with its lock released |
| media crypto (`media_crypto.cc`) | one SRTP session | set a key, encrypt, decrypt, overhead | called by the RTP sender and the RTP receivers |
| RTP receivers (`rtp_receiver_strategy.cc`, `rtp_receiver_video.cc`, `rtp_receiver_audio.cc`) | crypto context and its flag | set a key, parse a packet | network thread |
| media engines (`media/engine/`, `video/`, `voice_engine/`) | streams, and the key of each | add, remove, recreate a stream, set parameters | session above, RTP modules below |
| NACK module (`modules/video_coding/nack_module.cc`) | list of missing packets with retries, keyframes, newest number | packet received, process (ask again), clear up to | network and process threads; asks the sender through RTCP |
| packet buffer (`packet_buffer.cc`, `frame_object.cc`) | slots by sequence number, first number, cleared flag | insert a packet, grow, find frames, clear up to, return a frame | hands frames to the reference finder, called back by the decoding thread |
| reference finder, frame buffer (`rtp_frame_reference_finder.cc`, `frame_buffer2.cc`) | picture ids; frames with what they wait for, last decoded, last continuous and next frame | insert a frame, next frame | network thread inserts, decoding thread takes |
| video receive stream (`video/rtp_video_stream_receiver.cc`, `video_receive_stream.cc`) | last number of each picture id | the path of a packet, frame continuous, frame decoded, no frame for too long | joins the four above |
| data channels (`pc/datachannel.cc`; `peerconnection.cc`, `webrtcsession.cc` in part) | state, handshake, id, queues, observer; used stream ids | create, send, receive, close, register an observer | signaling thread; events posted by the network thread |
| SCTP transport (`media/sctp/sctptransport.cc`) | open streams, queued and sent resets, ready flag | open, reset, send, connect, reset events | network thread; usrsctp below |
| threads (`rtc_base/thread.cc`, `messagequeue.cc`) | posted, delayed and sent messages, stop flag, wake-up event | send, post, clear, quit, the message loop | everything |
| SRTP negotiation, DTLS, STUN (`pc/`, `p2p/`) | state machines of protocols | messages, timers | not modelled |
| signalling, bandwidth estimation, FEC, codecs, NetEq, audio processing, devices, SDKs | | | not modelled: numeric filters, bit-level data, third-party or platform code, or very wide API surface |

### What is hard in it

- **Three threads and three locks.** The encoder thread numbers, stores and
  enqueues a packet in three critical sections. The pacer pops an entry,
  leaves its lock, calls back into the sender, and puts the entry back if the
  send failed. The network thread enqueues retransmissions in between.
- **Silent success.** `TimeToSendPacket` returns true for a packet it cannot
  find. Whether media is lost depends on every step before it.
- **A ring that grows in place.** Growth breaks the relation between slot
  order and number order that the lookup's fast path uses; unused slots look
  like packet number 0.
- **An implicit rollover counter.** SRTP extends the 16-bit number with a
  counter that each side estimates for itself, under loss and reordering.
- **A one-shot key.** `MediaCrypto::SetKey` works once per object, while
  streams are added, keyed, recreated and removed in any order, per simulcast
  layer and per direction; one flag is not initialized.

- **Slots shared by numbers.** The packet buffer keeps packets by number
  modulo its size, grows, is emptied when it is full, and is cleared by the
  decoding thread while the network thread assembles frames in it.
- **A choice under one lock, its use under another.** `NextFrame` settles on a
  frame, lets the lock go while it waits, and takes the frame later.
- **Loss on every leg.** Packets, the NACKs for them and the retransmissions
  are lost and reordered; the list of missing packets has a limit.
- **A handshake and a close that cross.** Both ends of a data channel may
  close, the transport may block any message or refuse it, stream resets
  collide and are retried, and events reach the signaling thread late.
- **Calls that wait for each other.** `Thread::Send` blocks one thread while
  it serves calls of the thread it waits for, keeps a pointer into the
  caller's stack, and eats the caller's wake-ups.

`PROJECT.json` lists each of these hazards at its line, with the properties
aimed at it.

## 2. Modules

| module | models | composed of |
|---|---|---|
| `RtpPacketHistory` | the packet history, one action per operation | |
| `RtpPacketHistoryProofs` | its theorems | `RtpPacketHistory`, `SequenceLemmas` |
| `RtpSender` | encoder, pacer and network threads of one paced video stream | `RtpPacketHistory` |
| `RtpSenderProofs` | its theorems | `RtpSender`, `RtpPacketHistoryProofs` |
| `MediaCrypto` | a crypto context: key, session, overhead, decryption; libsrtp's index estimate and replay window (external) | |
| `MediaPath` | an encrypted video stream over an unreliable network, keys set at any time | `MediaCrypto` |
| `MediaPathProofs` | its theorems | `MediaPath` |
| `MediaCryptoKeyConfig` | how a key reaches the contexts of video and audio streams | `MediaCrypto` |
| `MediaCryptoKeyConfigProofs` | its theorems | `MediaCryptoKeyConfig` |
| `SequenceNumber` | order and distance of wrapping numbers | |
| `NackModule` | the list of missing packets | `SequenceNumber` |
| `PacketBuffer` | assembling packets into frames | `SequenceNumber` |
| `FrameBuffer` | which frame is decoded next | `SequenceNumber` |
| `VideoReceiver` | a received video stream: three threads, a lossy network and a sender that answers NACKs | the four above |
| `SctpTransport` | streams, resets and sending; usrsctp (external) | |
| `DataChannel` | the data channels of two peers | `SctpTransport` |
| `DataChannelProofs` | its theorems | `DataChannel`, `SequenceLemmas` |
| `DataChannelOpenProofs` | the theorem on the opening handshake | `DataChannelProofs` |
| `MessagePipe` | what an application may rely on of a data channel; `DataChannel` is shown to implement it | |
| `Thread` | message loops, `Send`, `Post`, `Clear` and `Quit` of several threads | |
| `ThreadProofs` | its theorems | `Thread`, `SequenceLemmas` |
| `SequenceLemmas` | lemmas on sequences and minima that several proofs share | |
| `MC...` | instances for TLC | the module of the same name |

A definition whose comment begins with "Fault:" is a plausible mistake in the
definition that follows it; `PROJECT.json` pairs each property with the fault
that violates it.

### RtpPacketHistory

`store`, `stored_packets`, `size` and `prev_index` are the members of the
class; `now` is its clock. Each public method takes `critsect_`, so each is
atomic. `FindSeqNum` is the code's two-stage search: `GuessIndex` is the fast
path, `FirstMatch` the linear scan. `PutRtpPacket` grows the ring as the code
does. A packet is its number, size and capture time.

### RtpSender

Each thread is a small state machine whose record holds what the code has in
local variables between two locks:

- encoder: `AssignSequenceNumber`, `MediaEncryptFails`, `StorePacket`,
  `EnqueuePacket` (the loop of `SendVideo` and `SendToNetwork`);
- pacer: `BeginPop`, `FetchPacket`, `TransmitPacket` or `RtxRefused`, then
  `FinalizePop` or `CancelPop`; `BeginPadding`, `SendRedundantPayload`,
  `SendPadData` and their ends when the queue is empty (`Process`,
  `TimeToSendPacket`, `TimeToSendPadding`);
- network: `OnReceivedNack`, `ReSendPacket`, `EnqueueRetransmission`;
- application: `SetSendingMediaStatus`, `SetPaused`.

`packet_list` is `packet_list_`; the priority queue is the same set without
the entry being sent, and the duplicate set is its set of numbers. The budgets
and the prober decide only *when* something is popped or padded: any time is
allowed. The transport may fail at any send, the rate limiter may refuse any
retransmission, and a NACK may name any number below one that was on the wire.
`numbered`, `markers`, `given_up`, `marked`, `wire`, `nacks` and `calls` record
the run for the properties and the bounds; the code has no such variables.

`rtx_mapped` says whether `rtx_payload_type_map_` has the payload type the
stream's packets are sent with. It does not have RED's when the configuration
gives `red_payload_type` and no `red_rtx_payload_type`; `BuildRtxPacket` then
returns null for every packet (`RtxCanBeBuilt`, `RtxRefused`), as it does while
no media is sent.

Left out: the unpaced branch of `SendToNetwork`, FEC and FlexFEC, the other uses
of payload types, header extensions, statistics, the RTX stream's own sequence numbers.

### MediaCrypto, MediaPath and MediaCryptoKeyConfig

A crypto context is a `MediaCrypto` object together with the
`media_crypto_enabled_` flag of its owner. A payload is its key, number and
packet index; it decrypts when key and index agree. The session keeps the
highest index and the window of indices seen, as libsrtp's replay database
does (external: libsrtp is not in the repository, it is modelled from how
`media_crypto.cc` uses it).

`MediaPath` sends frames packet by packet. The overhead is read once per frame
and the key can be set between any two packets. Every packet sent may arrive
any number of times, within `Reach` of the newest arrival; this is also what
RTX and redundant payloads do, which carry the encrypted payload unchanged.

`MediaCryptoKeyConfig` has one stream of each kind. The engine's calls run on
the worker thread to their end, so each is one action. The uninitialized flag
of a new receiver is a nondeterministic choice.

### NackModule, PacketBuffer, FrameBuffer and VideoReceiver

The three components are records with operators, one per method; a method that
holds the component's lock is one operator. `VideoReceiver` is the state
machine that calls them. Each thread is a record with its place in the code:

- network: `ReceivePacket` (`OnReceivedPayloadData` up to the NACK module),
  `InsertReceived` (the packet buffer), then for each frame found
  `OnReceivedFrame` (the reference finder and `InsertFrame`) and
  `FrameContinuous`;
- decoding: `ChooseFrame` and `TakeFrame` (the two critical sections of
  `NextFrame`, and the decoder, which may refuse a frame), `FrameDecoded` and
  `DestroyFrame` (clearing the packet buffer and the finder, and the
  destructor's `ReturnFrame`), or `NoFrame` (nothing for three seconds);
- process: `Process(due)`, where `due` are the entries last asked for
  `rtt_ms_` ago, which may be any of them;
- outside: `SendFrame`, `LosePacket`, `LoseNack`, `Retransmit`. A packet may
  overtake `MaxReorder` older ones.

Frames refer to the frame before them, as the finder sets it for VP8 with
picture ids and one temporal layer. Payloads are the number of their frame, so
that `FramesWhole` can tell what a bitstream is made of. `past` records what
the properties need and the code does not keep. The time after which a NACK is
repeated is 100 ms until the first report and an estimate after it, so an entry
may be due at any time, also while its NACK or the answer is on the way; copies
of a packet that are on the way together are one element of `wire`. Of the
clock only this is left: the three seconds pass only when nothing is on the
wire. Render times only decide which decodable
frame is taken and when: any is allowed. The branches of `InsertFrame` for a
jump of the picture id are modelled, with the packets that the cleared frames
give back (`InsertDestroys`, `ReturnFrames`), but the modelled sender numbers
its frames consecutively and does not reach them. Of `RTC_DCHECK`s the release
build is modelled. The one in `RemovePacketsUntilKeyFrame`
(`nack_module.cc:170`) expects a missing packet after the keyframe that is
found; there is none when the gap that overflows the list is the first one after
that keyframe, since the packets of the gap are not in the list yet.

### SctpTransport, DataChannel and MessagePipe

`peer[p]` holds a peer's transport, its stream ids and its channels. The
channel calls the transport with a synchronous invoke, so a handler of the
signaling thread is one step; since the transport may take, block or refuse
each message, the operators return the set of states a handler can end in
(`Close`, `UpdateState`, `SendQueuedDataMessages`, ...). The loops of the
session over its channels are recursive functions: `after[c]` is the set of
states the peer can be in once the channels up to `c` have had their turn.
`first` is how many messages had been accepted on the label when the channel
object was made, so that a new object on an old label starts its own count. What
the network thread reports is posted (`posted`) and handled later, by `Dispatch`.
`Receive` takes any chunk of the other peer's `wire` that SCTP may deliver
next: unordered messages overtake, nothing passes a reset. The streams of one
reset event are reported in any order, as the code goes through a set. `Close` is called
by the application, a remote reset, a full queue, a failed send and the end of
the transport.

`MessagePipe` has, for each end and label, the state of the channel, how many
messages were accepted, and what the observer got. The refinement mapping
takes these from the channel objects; `lossy` is true for a negotiated channel
(whose end may not exist yet when data comes) and once an end is shut.
`ImplementsMessagePipe` is its specification: states only go forward, each
message is delivered at most once, in order on an ordered channel, without a
gap before a shut.

### Thread

`th[t]` has the three queues, the stop flag and the auto-reset event of the
socket server, and the stack of calls the thread is in: the message loop, a
handler, a `Send` in its wait loop, another handler inside it, and so on. A
section under `crit_`, an access to `stop_` and a wait are one step each. A
handler may make any call to any thread at any time, delayed posts to another
thread included (`AsyncInvoker` makes them), up to `MaxCalls` in all and
`MaxDelayed` delayed messages at a time. Trigger times
of delayed messages are abstracted to their order: a new one goes anywhere
after those that are due (`PostPush`), and they become due from the front
(`Expire`).

## 3. Runs

| run | checks | result |
|---|---|---|
| `history` | `HistoryTypeOK`, `RingShape`, `LookupExact`, `UnsentPacketsKept` | hold |
| `sender` | `TypeOK`, `NoMediaLost`, `PaddingOnlyBetweenFrames`, `FirstTransmissionsInOrder` | hold |
| `sender_live` | `NoMediaLost`, `QueueDrains` with pauses, sending switched off and a payload type without RTX | hold |
| `sender_pending` | `PendingPacketsKept` | violated |
| `media_path` | `PathTypeOK`, `DecryptedOnce`, `StaysInSync`, `PacketsFit`, `GapsOnlyWhenKeyed` | hold |
| `media_path_replay` | `HandedOnDecrypted` | violated |
| `key_config` | `KeyedOnceIsInForce`, `NeverAnotherKey`, `LayersAgree` | hold |
| `key_config_rekey` | `RequestedKeyInForce` | violated |
| `key_config_audio` | `UnkeyedAudioIsReceived` | violated |
| `data_channel` | `TypeOK`, `NoDataBeforeOpen`, `NoStreamLeak`, `CloseFlushes`, `ImplementsMessagePipe`, `ClosesBothEnds`, `ClosingCloses` | hold |
| `threads` | `TypeOK`, `NoDanglingReady`, `NoStrangersDuringSend`, `HandledOnce`, `SendReturns`, `PostedIsHandled` | hold |
| `video_receiver` | `TypeOK`, `MissingIsAskedFor`, `FramesWhole`, `DecodesInOrder`, `NothingLeftBehind`, `EveryFrameDecoded` | hold |

### Bounds, and why they are enough

- `history`: a number space of 4 and a capacity of 3, starting from 1 or 2
  slots: numbers repeat and wrap inside the ring, the ring grows to its limit,
  and there are more numbers than slots. The clock has two values, which is
  enough for a retransmission to come too early or not. Purging is always
  possible, so runs have no end.
- `sender`: three numbers from 6 in a space of 8, so the number wraps; a
  history of two slots that can grow to four; one NACK; RTX off, and RTX with
  redundant payloads, for a payload type with and without an RTX one. Three packets are needed for a slot to be overwritten
  while two wait. The application's calls are in `sender_live`, with two
  numbers and a history of one slot, which overwrites sooner.
- `media_path`: a number space of 6, eight extended numbers (more than one
  wrap), a window of 2 and a reach of 2 (below half the space, as in the code,
  where the window is 1024 of 65536), three key settings on either side, two
  usable keys and one that libsrtp refuses. The payload is large enough for
  the overhead and small enough that a frame cut without it does not fit.
- `key_config`: six calls, two usable keys and one refused, two layers. Six
  calls allow add, key, key again, recreate, remove and add again.

- `data_channel`: one channel, of which the opener sends two messages, with
  queues of one, one blocked and one failed call into usrsctp at each peer,
  and ordered, unordered and negotiated channels. Two messages and a queue of
  one are enough for a full queue on either side; one block is enough for a
  message, a control message or both to wait. Ids are not used again.
- `threads`: three threads, of which one may be told to quit, two delayed
  messages and three calls by handlers. Three calls allow two threads to send
  to each other while a third posts, sends or clears, a ring of three, a
  delayed message that overtakes an earlier one, and one that is posted to a
  thread after it began to wait without a timeout.
- `video_receiver`: three frames of 1, 3 and 1 packets with sequence numbers
  from 14 in a space of 16 and picture ids from 6 in one of 8, so that both
  wrap; a packet buffer of 2 slots that grows to 4, which five packets fill
  and empty; a list of two missing packets and an age of two, so that the
  list overflows and entries get too old; two losses, against three
  retries, which are enough to use up the retries early and then lose the
  answer; one refused frame, a frame buffer of 2, which refuses the third frame,
  and a history of 2.

Deadlock checking is off where the system may come to rest: a sender with an
empty queue and nothing to encode, or a finite number of packets, messages and
calls.
The two usable keys are interchangeable, hence the symmetry.

### Fairness

`QueueDrains` assumes weak fairness of the pacer's steps and strong fairness
of a successful send. The process thread calls `PacedSender::Process`
whenever `TimeUntilNextProcess` has passed, for as long as the call exists,
and the media budget is refilled with elapsed time, so a pop is not put off
for ever; the transport is assumed to accept a packet that is offered to it
again and again. Nothing is assumed of the encoder, the remote receiver or the
application. The number of retransmissions is bounded by the NACK bound; in
the code, by the retransmission rate limiter.

`ClosesBothEnds` and `ClosingCloses` assume weak fairness of the signaling and
network threads, of the arrival of what is on the wire (SCTP repeats what is
lost), of usrsctp's signal that it has room again, and of the session's
negotiation. Nothing is assumed of the applications, and transports need not
be destroyed.

`SendReturns` and `PostedIsHandled` assume that each thread runs unless it waits
for its event, that handlers return, and that time passes until each delayed
message is due: weak fairness of a thread's steps, with its condition written
out (`Asleep`).

`EveryFrameDecoded` assumes that the three threads run while they have
something to do, that a NACK list which is not empty is asked for again, that
the sender sends its frames and answers NACKs, and that what is not lost
arrives. It is weak fairness, with the condition under which
each thread can run written out instead of `ENABLED`. A thread that has
something to do again and again but not for good is assumed nothing of.

### What the properties except

The exceptions are stated in the properties, each for a behaviour of the code
that the run reaches:

- `ClosingCloses` and `ClosesBothEnds`: a channel with data that the transport
  will never take (the other end reset the stream, or a call into usrsctp
  failed) stays in `kClosing`; a reset that usrsctp refused, or one that came
  before the OPEN was handled, is not repeated.
- `SendReturns`, `PostedIsHandled`: a `Send` to a thread that has left its
  loop, and a ring of three or more threads, wait for ever (`Stuck`). A
  message posted between the loop's look at the queue and its test of the stop
  flag is lost when the thread quits.
- `QueueDrains`: a retransmission whose payload type has no RTX payload type
  fails every time, and since it goes before all media, nothing is sent until
  its packet leaves the history or sending stops (`RefusedForGood`).
- `NothingLeftBehind`, `EveryFrameDecoded`: packets that a full packet buffer
  drops or then refuses, newer packets that share a slot with a number that
  `ClearTo` frees, and frames that a full frame buffer refuses (`past.lost`).
- `EveryFrameDecoded`: a packet whose retries were used up while a NACK for it
  or an answer was on the way, which was then lost (`RetriesUsedUpEarly`).
- `FramesWhole`: a frame of exactly as many packets as the buffer has slots;
  its bitstream would be empty, since the copying loop does not run.
- `MissingIsAskedFor`: what is too old, what a full list held, what lies
  before a newer keyframe, and losses before the first and after the last
  packet (`GivenUp`, `Noticed`).

### What the violations show

- `sender_pending`: a first send fails at the transport, and `CancelPop` puts
  the entry back, but `GetPacketAndSetSendTime` has already set the slot's
  send time. New packets then overwrite the slot without growing the ring. The
  pacer later finds nothing and drops the entry as sent. The comment in
  `PutRtpPacket` promises the opposite for pending packets. `NoMediaLost`
  holds with exactly this exception (`marked`).
- `media_path_replay`: `UnprotectRtp` returns true for a replay, so a
  duplicate is passed on as ciphertext with its first bytes cut off.
- `key_config_rekey`: setting a second key on a video send stream switches
  end-to-end encryption off, and the call reports success.
- `key_config_audio`: an audio receiver that never gets a key has an
  uninitialized flag, which nothing sets, because the key's absence is
  reported as failure by the sender of the channel and ends the chain.

## 4. Proofs

Each safety property below is a theorem `Spec => []P` (or `Spec => P` for an
action property) for every value of the constants that satisfies the named
assumptions. The layout is the same everywhere: an inductive invariant, one
lemma per operation and part of the invariant it can disturb, and the property
as a consequence. TLC checked every inductive invariant on the runs' instances
before it was proved. Where a model bounds the number of calls, NACKs or
packets, the bound is a constant that the proofs leave open.

### RtpPacketHistoryProofs

Assumptions: the capacity and the number space are at least 1, sizes are
naturals, `NoPacket` is not a packet, requested sizes are within the capacity.

- `RingInvariant`: `HistoryTypeOK /\ RingShape` is inductive. One lemma per
  operation (`SetStoreRing`, `PutRing`, `GetRing`) shows that it preserves
  both; `PutRing` splits on whether the ring grows. `RingShape` is the
  strengthening the others need: alone, "lookups are exact" is not inductive,
  because it says nothing of the unused slots, whose number 0 could shadow a
  stored packet 0. `HistoryTypesHold` is its first half.
- `LookupIsExact`: from `RingShape`, the slots are filled from the front, so
  the first slot with a wanted number is a used one whenever any used slot has
  that number, and the fast path's guess, if it is an unused slot, is rejected
  (`GuessOccupied`).
- `UnsentPacketsAreKept`: the action property, one step per operation.

### RtpSenderProofs

Assumptions (`SenderAssumption`): the first number is in the number space and
not 0, and fewer than half of the numbers are used (`MaxNumbers`). The second
is what makes "older" an order of numbers: with more of them in use, the
wraparound comparison calls the oldest packet the newest. A stream that uses
half of its 65536 numbers is longer than the proof covers; what it needs is
that fewer than half are *in use at a time*, which the model cannot tell since
it records all numbers of a run.

`SenderInv` says what the three threads, the queue and the history know of
each other between any two critical sections:

- *types*, and the entry the pacer works on is still in the queue;
- *numbers* are given out in order (`Pos`, the distance from the first one);
  what is queued, stored, or in a thread's hands has been numbered, and a
  packet that is numbered but not yet stored is nowhere else
  (`HeldAreNumbered`), so no number is stored twice and the history lookup
  names one packet;
- *padding*: after a packet with the marker bit the number before the next one
  is that packet's or padding's (`MarkerOK`), which is why a look at one flag
  is enough to keep padding out of a frame;
- *losses*: what the history has marked as sent has been tried, or the pacer
  is trying it (`SentOK`); what has left a history that can still grow has
  been tried (`LeavesWhenTried`); an entry that is about to be removed is on
  the wire or accounted for (`DoneIsAccounted`); and so nothing is lost
  (`NotLost`). None of these is inductive without the others: "not found
  counts as sent" is harmless only because a packet that is not found was
  tried before;
- *order*: first transmissions are queued in the order of their numbers and of
  their capture times, and what the encoder holds comes after all of them
  (`QueueOrdered`), so the priority queue's order by capture time is the order
  of the numbers.

`SenderTypesHold`, `NoMediaLostHolds`, `PaddingHolds` and `InOrderHolds` follow
from `SenderInvariant`. `RemoveAtProperties`, `AppendRange`, `PutEffect`,
`GetEffect` and `TopIsFirst` state what the operators on queues and on the
history do, once, for all the steps that use them.

### MediaPathProofs

Assumptions: an even number space, packets reordered by less than half of it
(`Reach`), a payload larger than the overhead (1200 bytes and more against a
few dozen in the code). `PathInv` is the types; that what a session has seen
lies in its window (`CryptoOK`); that a number is used for one packet
(`NumbersUsedOnce`); that what was decrypted has an index which the receiver's
session never accepts again (`DecryptedIsSpent`); that the frame under way
leaves room for the RTX header and, once keyed, for the overhead
(`FrameFits`); and `PacketsFit`, `GapsOnlyWhenKeyed` and `StaysInSync`
themselves. `EstimateNear` is the heart of
`StaysInSyncHolds`: the estimate of the rollover counter is right for every
packet less than half the number space away from the highest index. From
`PathInvariant` follow `PathTypeHolds`, `DecryptedOnceHolds`,
`StaysInSyncHolds`, `PacketsFitHolds` and `GapsOnlyWhenKeyedHolds`.

### MediaCryptoKeyConfigProofs

Assumptions: usable keys are keys, and `NoKey` is not one. `KeyInv` says, for
each stream, what the number of keys its contexts were given tells of their
sessions: none means no session, so that the first usable key will be taken;
one usable key means that it is in force. The properties speak only of streams
that exist and were keyed once, and are not inductive: a stream that is not
created yet, or not keyed yet, must be in a state from which they will hold.
From `KeyInvariant` follow `KeyedOnceHolds`, `NeverAnotherKeyHolds` and
`LayersAgreeHolds`.

### ThreadProofs

Assumptions: finitely many threads, `NoSource` is none of them, and the bounds
are naturals. `ThreadInv` has three parts:

- `StateOK`, for each thread alone: the message loop is the outermost call and
  only that; a `Send` goes to another thread, is not ready before it has queued
  its message, and is interrupted only by a handler for the thread it waits
  for; no message is twice in a queue, in two queues, or in a queue and in the
  hands of a call (`Active`: a handler, or a `Send` or `Post` that has not
  queued its message yet);
- `Accounted`, over all threads: a message is with one of them, done or
  cleared, and has been named already, so that a new name is fresh;
- `Awaited`: for whoever has a message of another thread, in its sendlist or
  in a handler, that thread has a `Send` for it that is not ready.

None of the properties is inductive alone. `NoDanglingReady` needs that a
message is in one place: otherwise the first of two holders would let the
`Send` return under the second. `HandledOnce` does not speak of messages that a
`Send` or `Post` has not queued yet, and these must be known to be
nowhere else. Steps are of three kinds, each with a lemma: a *quiet* step gives up
messages but takes none and keeps every wait (`QuietStep`); a step that *moves*
a message which nobody has (`MovedStep`, with `GivenUp` and `JoinStep`); and one
that *settles* it and tells the sender (`SettleStep`). Every action is shown to
be one of these. From `ThreadInvariant` follow `TypeCorrect`,
`ReadyNeverDangles`, `OnlyTheCalleeInterrupts` and `MessageHandledOnce`.

### DataChannelProofs

Assumptions: there are two peers, of which `Opener` is one; stream ids are a
finite set of naturals; the bounds on channels, queues and messages are naturals; a
configuration says whether the channels are ordered and negotiated. There may
be any number of channels, and a stream id may be used again once it is free.
`Inv` has these parts:

- `Good`, for each peer alone: the *types* and the limits of the queues
  (`ChannelGood`), with the count of what was accepted and neither sent nor
  queued; every open stream belongs to a live channel (`Owned`); the id of a
  live channel is reserved (`Reserved`) and no other live channel has it
  (`Distinct`); what is on the wire has the id of its channel (`WireGood`);
- `Linked`: while there is a transport, every live channel is connected to it,
  and so hears of its streams' end;
- `Flushes`: nothing accepted is lost before the channel is shut, and at most
  one message, the one whose sending failed, after it;
- `Agree`, between the two peers: messages that were received but not handled
  yet have the id of their channel at the sender (`PostedGood`), and a channel
  made for an OPEN has the id of the channel that sent it (`SameSids`).

`NoStreamLeak` alone is not inductive: that a channel leaves its stream to be
reset needs that no other live channel has the id and that the channel is
connected. `CloseFlushes` alone says nothing of a channel that is not closed.
The operators return sets of states, so each has a lemma of the form "every
state it can end in is good and leaves the other channels alone" (`CloseGood`,
`DeliverGood`, `SendControlGood`, `SendQueuedDataGood`, `UpdateStateGood`,
...), and each action one that puts them together. The loops over the channels
have a lemma for one turn (`SidTurnGood`, ...) and one for the whole loop. The
loop lemmas are inductions without the induction rule: if the claim failed
after some channel, it would fail after a least one, and the turn lemma rules
that out.

From `Invariant` follow `TypeCorrect`, `StreamsAreGivenBack`
(`NoStreamLeak`) and `ClosedIsFlushed` (`CloseFlushes`), and two results that
no run states: `SidsAreExclusive` (no two live channels of a peer have the same
stream) and `SidsNeverChange` (a channel keeps the id it was given).

### DataChannelOpenProofs

`OpenComesFirst`: on a channel opened in-band, data never reaches the other
peer's signaling thread ahead of the OPEN of its channel (`NoDataBeforeOpen`),
for any number of channels and messages, ordered or not, as long as no two
channels of the opener have had the same stream (`Unshared`). The hypothesis is
needed, not convenient: with two channels one after the other on one stream, an
OPEN may come while the other side still has the id reserved and is then
refused, and TLC finds data without a channel behind it in some twenty steps.
The code knows it (`peerconnection.cc:2187` releases the id while the reset is
under way, and the test that would use an id at once is disabled). As ids never
change (`SidsNeverChange`), streams that are not shared now never were.

`NoDataBeforeOpen` is about the end of a journey, so the invariant
(`OpeningInv`, on top of `Inv`) follows the journey. Seen from the opener `o`
and the other peer `a`:

- `ChannelHand`, for each channel of the opener: it is open, or has data
  queued, only after its OPEN was sent; once the handshake is `Ready` the other
  peer has a channel; while it waits for the acknowledgement the other peer has
  one, or the OPEN is posted there or, ordered, on the wire;
- `ChunkHand`, for each chunk of data on the wire: if the other peer has no
  channel for it, it is ordered and its OPEN is posted or in front of it;
- `OpenFirst`, the property itself, and `Used`: the other peer reserves an id
  only for a channel that has it.

The argument: data goes out ordered until the handshake is over, an ordered
chunk cannot overtake another of its stream (`NothingOvertakes`), and the OPEN
and the data of a channel have the same stream by `WireGood`; the handshake
ends only when a message of the same stream comes back, which, as no stream is
shared, comes from the channel the OPEN made. An OPEN that is refused since its
id is in use is refused in favour of its own channel. The steps of the opener
are *steady* (they send no data and leave the handshakes alone, `Steady`), send
the OPEN (`SendControlHand`) or send data behind it (`DataGoesBehind`); the
steps of the other peer *hear* at least as much as before (`Hears`).

### Only model-checked

- The refinement of `MessagePipe` by `DataChannel`. It needs the same
  hypothesis on streams and, beyond the invariants above, that what was
  delivered, received, posted, sent and queued is together a part of what was
  accepted, in order: an argument over sequences that are cut, joined and
  rearranged, most of it by induction over the data. The run has one channel,
  where it holds.
- `VideoReceiver`: its properties hold for the run's instance, not for every
  value of the constants. Numbers wrap, and the code orders them by the
  shorter way round: a sender that is further ahead than half the number space
  makes an old packet new. The run's frames stay within half of it, but the
  model has no constant that says so of an arbitrary instance, since
  `MaxReorder` limits how many packets one may overtake and not how old it is
  by then. `FrameBuffer` and `NackModule` also fold over sets and sequences in
  ways that need induction over the data.
- The liveness properties `QueueDrains`, `ClosesBothEnds`, `ClosingCloses`,
  `SendReturns`, `PostedIsHandled` and `EveryFrameDecoded`: liveness under
  fairness is out of the prover's reach.
- The four violations are counterexamples, which are TLC's to find.

## 5. Not modelled

- The SDES negotiation, the DTLS transport, STUN and ICE: protocol state
  machines that would each need a module of their own.
- The pacer's budgets and queue time accounting, the unpaced branch of the
  sender, and the recreation of a sender with its saved RTP state.
- In the receive path: H.264, VP9 and temporal layers, streams without picture
  ids, padding packets, FEC, render times.
- In the data channels: RTP data channels, the encoding of control messages. The
  run has one channel and one stream id; that ids are used again is covered by
  the theorems only.
- Signalling other than for data channels, congestion control, FEC, RTCP
  parsing, NetEq, audio processing, codecs, capture, devices, SDKs: numeric
  filters, bit-level data, third-party or platform code, or a very wide API
  surface.

## 6. Plan

1. Proofs: the refinement of `MessagePipe` for channels that share no stream
   id; a bound on how far the sender of `VideoReceiver` is ahead, and with it
   lemmas on the order of wrapping numbers and `MissingIsAskedFor`.
2. Models: `SrtpFilter`'s offer/answer state machine, STUN retransmission, the
   DTLS transport; two channels that reuse a stream id; the sender of
   `RtpSender` as the sender of `VideoReceiver`.

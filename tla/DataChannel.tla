---------------------------- MODULE DataChannel ----------------------------
(***************************************************************************)
(* SCTP data channels (pc/datachannel.cc) of two peer connections: the     *)
(* in-band opening handshake, sending while the transport is blocked,      *)
(* delivery to the observer, and closing.  peer[p] is the state of a peer: *)
(*                                                                         *)
(*   t        its SctpTransport                                            *)
(*   used     used_sids_ of PeerConnection's SctpSidAllocator              *)
(*   sctp_ready   sctp_ready_to_send_data_ of its WebRtcSession            *)
(*   ch       its DataChannel objects, by label                            *)
(*                                                                         *)
(* A message is the label it was sent on and the number of the Send call.  *)
(* Everything but the transport runs on the signaling thread, so a handler *)
(* is one step; where it sends it has as many outcomes as the transport,   *)
(* and the operators on a peer s below yield the set of states they can    *)
(* end in.  accepted, delivered and shut are the history of a label at its *)
(* end: how many messages Send took, what observers got, and whether a     *)
(* channel of this label was ever closed; first is what accepted was when  *)
(* the channel object was made.                                            *)
(***************************************************************************)
EXTENDS SctpTransport

CONSTANTS Peers,         \* the two peers
          Opener,        \* the one that creates the channels
          MaxChannels,   \* bound: labels of the channels created
          MaxMessages,   \* bound: messages each application sends on a channel
          MaxSendQueue,  \* kMaxQueuedSendDataBytes, counted in messages
          MaxRecvQueue,  \* kMaxQueuedReceivedDataBytes, in messages
          Configs        \* the DataChannelInit values the applications use

ASSUME PeersAssumption ==
  IsFiniteSet(Peers) /\ Cardinality(Peers) = 2 /\ Opener \in Peers
ASSUME BoundsAssumption ==
  /\ {MaxChannels, MaxSendQueue, MaxRecvQueue} \subseteq Nat
  /\ MaxMessages \in [Peers -> Nat]
ASSUME ConfigsAssumption ==
  Configs \subseteq [ordered : BOOLEAN, negotiated : BOOLEAN]

VARIABLES peer,   \* the state of each peer
          config  \* config_: whether channels are ordered, and negotiated
vars == <<peer, config>>

Chans == 1..MaxChannels
Other(p) == CHOOSE q \in Peers : q # p

(* DataChannel's constructor; here also a label not in use. *)
NoChannel ==
  [state |-> "none", role |-> "none", handshake |-> "Init", id |-> -1,
   connected |-> FALSE, writable |-> FALSE, observer |-> FALSE,
   control |-> 0, send |-> <<>>, received |-> <<>>, readymsg |-> FALSE,
   messages_sent |-> 0, first |-> 0, accepted |-> 0, delivered |-> <<>>,
   shut |-> FALSE]

NewPeer ==
  [t |-> NoTransport, used |-> {}, sctp_ready |-> FALSE,
   ch |-> [c \in Chans |-> NoChannel]]

Live(ch) == ch.state \in {"connecting", "open", "closing"}
-----------------------------------------------------------------------------
(***************************************************************************)
(* Closing.  Once nothing is queued UpdateState leaves the provider, which *)
(* resets the stream, and signals that the channel is closed, on which     *)
(* PeerConnection releases its sid.                                        *)
(***************************************************************************)
(* Fault: the stream is not reset. *)
DisconnectKeepsStream(s, c) == {[s EXCEPT !.ch[c].connected = FALSE]}

DisconnectFromProvider(s, c) ==
  IF ~s.ch[c].connected THEN {s}
  ELSE LET s1 == [s EXCEPT !.ch[c].connected = FALSE]
       IN  IF s.ch[c].id < 0 THEN {s1}
           ELSE {[s1 EXCEPT !.t = t] : t \in ResetStream(s.t, s.ch[c].id)}

OnSctpDataChannelClosed(s, c) == [s EXCEPT !.used = @ \ {s.ch[c].id}]

(* Fault: the queues are not looked at. *)
ClosesAtOnce(s, c) ==
  {OnSctpDataChannelClosed([r EXCEPT !.ch[c].state = "closed"], c) :
     r \in DisconnectFromProvider(s, c)}

UpdateStateClosing(s, c) ==
  IF s.ch[c].send # <<>> \/ s.ch[c].control # 0 THEN {s}
  ELSE {OnSctpDataChannelClosed([r EXCEPT !.ch[c].state = "closed"], c) :
          r \in DisconnectFromProvider(s, c)}

Close(s, c) ==
  IF s.ch[c].state = "closed" THEN {s}
  ELSE UpdateStateClosing([s EXCEPT !.ch[c].state = "closing",
                                    !.ch[c].shut = TRUE], c)
-----------------------------------------------------------------------------
(* Fault: what is delivered stays in the queue. *)
DeliversAgain(s, c) ==
  IF ~s.ch[c].observer THEN s
  ELSE [s EXCEPT !.ch[c].delivered = @ \o s.ch[c].received]

(* DeliverQueuedReceivedData, whatever the state of the channel. *)
DeliverQueuedReceivedData(s, c) ==
  IF ~s.ch[c].observer THEN s
  ELSE [s EXCEPT !.ch[c].delivered = @ \o s.ch[c].received,
                 !.ch[c].received = <<>>]

(* The OPEN is ordered; later control messages as the channel is. *)
ControlMessage(s, c, handshake) ==
  [kind |-> IF s.ch[c].role = "opener" THEN "open" ELSE "ack",
   sid |-> s.ch[c].id, label |-> c,
   ordered |-> config.ordered \/ handshake = "ShouldSendOpen"]

AfterControl(handshake) ==
  CASE handshake = "ShouldSendAck" -> "Ready"
    [] handshake = "ShouldSendOpen" -> "WaitingForAck"
    [] OTHER -> handshake

(***************************************************************************)
(* n calls of SendControlMessage: the first that is sent moves the         *)
(* handshake on, those that find the transport blocked are queued, and an  *)
(* error closes the channel.                                               *)
(***************************************************************************)
SendControlMessages(s, c, n) ==
  LET hs == s.ch[c].handshake
      ms == [i \in 1..n |->
               ControlMessage(s, c, IF i = 1 THEN hs ELSE AfterControl(hs))]
  IN  UNION {LET s1 == [s EXCEPT !.t = r.t,
                                 !.ch[c].handshake =
                                    IF r.n > 0 THEN AfterControl(@) ELSE @]
             IN  CASE r.res = "ok" -> {s1}
                   [] r.res = "block" ->
                        {[s1 EXCEPT !.ch[c].control = @ + (n - r.n)]}
                   [] r.res = "error" -> Close(s1, c) :
             r \in SendData(s.t, ms)}

SendQueuedControlMessages(s, c) ==
  SendControlMessages([s EXCEPT !.ch[c].control = 0], c,
                      s.ch[c].control)

(* Fault: the handshake does not matter. *)
DataAsConfigured(s, c, number) ==
  [kind |-> "data", sid |-> s.ch[c].id, label |-> c, number |-> number,
   ordered |-> config.ordered]

(* Ordered until the handshake is over, whatever the channel asks for. *)
DataMessage(s, c, number) ==
  [kind |-> "data", sid |-> s.ch[c].id, label |-> c, number |-> number,
   ordered |-> config.ordered \/ s.ch[c].handshake # "Ready"]

SendQueuedDataMessages(s, c) ==
  LET q == s.ch[c].send
  IN  UNION {LET s1 == [s EXCEPT !.t = r.t,
                                 !.ch[c].messages_sent = @ + r.n,
                                 !.ch[c].send = SubSeq(@, r.n + 1, Len(@))]
             IN  IF r.res = "error" THEN Close(s1, c) ELSE {s1} :
             r \in SendData(s.t, [i \in DOMAIN q |->
                                    DataMessage(s, c, q[i])])}

UpdateState(s, c) ==
  CASE s.ch[c].state = "connecting" /\ s.ch[c].connected ->
         {IF /\ r.ch[c].writable
             /\ r.ch[c].handshake \in {"Ready", "WaitingForAck"}
          THEN DeliverQueuedReceivedData(
                 [r EXCEPT !.ch[c].state = "open"], c)
          ELSE r :
          r \in IF s.ch[c].handshake \in {"ShouldSendOpen", "ShouldSendAck"}
                THEN SendControlMessages(s, c, 1)
                ELSE {s}}
    [] s.ch[c].state = "closing" -> UpdateStateClosing(s, c)
    [] OTHER -> {s}

(* Fault: the state is updated before the queues are flushed. *)
UpdatesBeforeFlush(s, c) ==
  LET s1 == UpdateState([s EXCEPT !.ch[c].writable = TRUE], c)
      s2 == UNION {SendQueuedControlMessages(r, c) : r \in s1}
  IN  UNION {SendQueuedDataMessages(r, c) : r \in s2}

OnChannelReady(s, c) ==
  LET s1 == [s EXCEPT !.ch[c].writable = TRUE]
      s2 == SendQueuedControlMessages(s1, c)
      s3 == UNION {SendQueuedDataMessages(r, c) : r \in s2}
  IN  UNION {UpdateState(r, c) : r \in s3}
-----------------------------------------------------------------------------
(* Connecting a channel to the session, and to the transport once it has   *)
(* an id.                                                                  *)
OnTransportChannelCreated(s, c) ==
  [s EXCEPT !.ch[c].connected = @ \/ TransportExists(s.t),
            !.t = IF TransportExists(s.t) /\ s.ch[c].id >= 0
                  THEN OpenStream(@, s.ch[c].id)
                  ELSE @]

(***************************************************************************)
(* InternalCreateDataChannel and DataChannel::Init once the sid is known   *)
(* (-1: the SSL role is not).                                              *)
(***************************************************************************)
InitChannel(s, c, role, id) ==
  LET ch == [NoChannel EXCEPT !.state = "connecting",
                              !.role = role,
                              !.handshake =
                                 CASE role = "none" -> "Ready"
                                   [] role = "opener" -> "ShouldSendOpen"
                                   [] role = "acker" -> "ShouldSendAck",
                              !.id = id,
                              !.readymsg = s.sctp_ready,
                              !.accepted = s.ch[c].accepted,
                              !.first = s.ch[c].accepted,
                              !.delivered = s.ch[c].delivered,
                              !.shut = s.ch[c].shut]
  IN  OnTransportChannelCreated(
        [s EXCEPT !.ch[c] = ch,
                  !.used = IF id < 0 THEN @ ELSE @ \cup {id}], c)

(* AllocateSid takes the lowest free sid of this peer's role. *)
FreeSids(s) == {i \in Sids : i % 2 = 0} \ s.used

(***************************************************************************)
(* OnDataReceived on the signaling thread.  A control message is a late or *)
(* an expected OPEN_ACK; data also ends the handshake.  Data that cannot   *)
(* be delivered yet is queued, up to a limit that closes the channel.      *)
(***************************************************************************)
OnDataReceived(s, c, m) ==
  LET ch == s.ch[c]
      s1 == [s EXCEPT !.ch[c].handshake =
                         IF @ = "WaitingForAck" THEN "Ready" ELSE @]
      data == <<m.label, m.number>>
  IN  CASE m.kind = "ack" -> {s1}
        [] m.kind = "data" /\ ch.state = "open" /\ ch.observer ->
             {[s1 EXCEPT !.ch[c].delivered = Append(@, data)]}
        [] m.kind = "data" /\ ~(ch.state = "open" /\ ch.observer) ->
             IF Len(ch.received) + 1 > MaxRecvQueue
             THEN Close([s1 EXCEPT !.ch[c].received = <<>>], c)
             ELSE {[s1 EXCEPT !.ch[c].received = Append(@, data)]}

(* The channels a session signal reaches: at most one has a given sid. *)
Connected(s) == {c \in Chans : s.ch[c].connected}
WithSid(s, sid) == {c \in Connected(s) : s.ch[c].id = sid}

(* An OPEN for a sid that is in use is refused by ReserveSid. *)
OnDataChannelOpenMessage(s, m) ==
  IF m.sid \in s.used THEN s
  ELSE InitChannel(s, m.label, "acker", m.sid)

(* Each connected channel in turn: what the first c make of s. *)
OnSctpTransportReadyToSendData(s) ==
  LET after[c \in 0..MaxChannels] ==
        IF c = 0 THEN {[s EXCEPT !.sctp_ready = TRUE]}
        ELSE IF c \notin Connected(s) THEN after[c - 1]
        ELSE UNION {OnChannelReady(r, c) : r \in after[c - 1]}
  IN  after[MaxChannels]

Handle(s, e) ==
  CASE e.ev = "ready" -> OnSctpTransportReadyToSendData(s)
    [] e.ev = "closed" ->
         IF WithSid(s, e.sid) = {} THEN {s}
         ELSE UNION {Close(s, c) : c \in WithSid(s, e.sid)}
    [] e.ev = "message" /\ e.m.kind = "open" ->
         {OnDataChannelOpenMessage(s, e.m)}
    [] e.ev = "message" /\ e.m.kind # "open" ->
         IF WithSid(s, e.m.sid) = {} THEN {s}
         ELSE UNION {OnDataReceived(s, c, e.m) : c \in WithSid(s, e.m.sid)}
-----------------------------------------------------------------------------
Init ==
  /\ peer = [p \in Peers |-> NewPeer]
  /\ config \in Configs

Become(p, states) ==
  /\ \E s \in states : peer' = [peer EXCEPT ![p] = s]
  /\ UNCHANGED config

(* PeerConnection::CreateDataChannel.  A negotiated channel is created by   *)
(* both applications with an id they agreed on.                            *)
CreateDataChannel(p, c) ==
  LET s == peer[p]
      roleKnown == s.t.phase \in {"negotiated", "connected"}
  IN  /\ s.ch[c].state = "none"
      /\ s.t.phase # "destroyed"
      /\ \A d \in 1..(c - 1) : s.ch[d].state # "none"
      /\ \/ /\ config.negotiated
            /\ \E id \in Sids \ s.used :
                  Become(p, {InitChannel(s, c, "none", id)})
         \/ /\ ~config.negotiated /\ p = Opener /\ ~roleKnown
            /\ Become(p, {InitChannel(s, c, "opener", -1)})
         \/ /\ ~config.negotiated /\ p = Opener /\ roleKnown
            /\ FreeSids(s) # {}
            /\ Become(p, {InitChannel(s, c, "opener", Min(FreeSids(s)))})

RegisterObserver(p, c) ==
  /\ peer[p].ch[c].state # "none"
  /\ ~peer[p].ch[c].observer
  /\ LET s1 == [peer[p] EXCEPT !.ch[c].observer = TRUE]
     IN  Become(p, {DeliverQueuedReceivedData(s1, c)})

UnregisterObserver(p, c) ==
  /\ peer[p].ch[c].observer
  /\ Become(p, {[peer[p] EXCEPT !.ch[c].observer = FALSE]})

(* Fault: one message too many. *)
QueuesOneTooMany(s, c, number) ==
  IF Len(s.ch[c].send) > MaxSendQueue THEN Close(s, c)
  ELSE {[s EXCEPT !.ch[c].send = Append(@, number)]}

(* Data goes to the transport, or behind the data that is already queued;   *)
(* a full queue closes the channel.                                        *)
QueueSendDataMessage(s, c, number) ==
  IF Len(s.ch[c].send) >= MaxSendQueue THEN Close(s, c)
  ELSE {[s EXCEPT !.ch[c].send = Append(@, number)]}

Send(p, c) ==
  LET n == peer[p].ch[c].accepted + 1
      s == [peer[p] EXCEPT !.ch[c].accepted = n]
  IN  /\ s.ch[c].state = "open"
      /\ n <= MaxMessages[p]
      /\ Become(p,
           IF s.ch[c].send # <<>> THEN QueueSendDataMessage(s, c, n)
           ELSE UNION {LET s1 == [s EXCEPT !.t = r.t]
                       IN  CASE r.res = "ok" ->
                                  {[s1 EXCEPT !.ch[c].messages_sent = @ + 1]}
                             [] r.res = "block" ->
                                  QueueSendDataMessage(s1, c, n)
                             [] r.res = "error" -> Close(s1, c) :
                       r \in SendData(s.t, <<DataMessage(s, c, n)>>)})

CloseChannel(p, c) ==
  /\ peer[p].ch[c].state \in {"connecting", "open"}
  /\ Become(p, Close(peer[p], c))
-----------------------------------------------------------------------------
(***************************************************************************)
(* The session: the transport appears with the first description, sids are *)
(* given out once both descriptions and so the SSL role are known, and the *)
(* association connects after DTLS.                                        *)
(***************************************************************************)
ConnectChannels(s) ==
  LET after[c \in 0..MaxChannels] ==
        IF c = 0 THEN s
        ELSE IF ~Live(s.ch[c]) THEN after[c - 1]
        ELSE OnTransportChannelCreated(after[c - 1], c)
  IN  after[MaxChannels]

CreateSctpTransport(p) ==
  /\ peer[p].t.phase = "none"
  /\ Become(p, {ConnectChannels([peer[p] EXCEPT !.t.phase = "created"])})

SetSctpSid(s, c) ==
  IF FreeSids(s) = {} THEN s
  ELSE LET sid == Min(FreeSids(s))
       IN  [s EXCEPT !.used = @ \cup {sid},
                     !.ch[c].id = sid,
                     !.t = OpenStream(@, sid)]

GiveSids(s) ==
  LET after[c \in 0..MaxChannels] ==
        IF c = 0 THEN s
        ELSE IF ~Live(s.ch[c]) \/ s.ch[c].id >= 0 THEN after[c - 1]
        ELSE SetSctpSid(after[c - 1], c)
  IN  after[MaxChannels]

AllocateSctpSids(p) ==
  /\ peer[p].t.phase = "created"
  /\ Become(p, {GiveSids([peer[p] EXCEPT !.t.phase = "negotiated"])})

Connect(p) ==
  /\ peer[p].t.phase = "negotiated"
  /\ Become(p, {[peer[p] EXCEPT
                  !.t = SetReadyToSendData([@ EXCEPT !.phase = "connected"])]})

(* A rejected data section: every channel drops its queues and closes, and *)
(* the transport goes with what it had posted and not yet transmitted.     *)
OnTransportChannelDestroyed(s, c) ==
  Close([s EXCEPT !.ch[c].send = <<>>, !.ch[c].control = 0], c)

CloseChannels(s) ==
  LET after[c \in 0..MaxChannels] ==
        IF c = 0 THEN {s}
        ELSE IF ~Live(s.ch[c]) THEN after[c - 1]
        ELSE UNION {OnTransportChannelDestroyed(r, c) : r \in after[c - 1]}
  IN  after[MaxChannels]

DestroySctpTransport(p) ==
  LET s == peer[p]
  IN  /\ TransportExists(s.t)
      /\ Become(p, {[r EXCEPT !.t = [NoTransport EXCEPT
                                       !.phase = "destroyed"],
                              !.used = s.used,
                              !.sctp_ready = FALSE] :
                     r \in CloseChannels(s)})
-----------------------------------------------------------------------------
(* The network thread: a chunk arrives. *)
Receive(p) ==
  LET q == Other(p)
      wire == peer[q].t.wire
      Arrived(i, t) ==
        LET m == wire[i]
        IN  CASE IsMessage(m) -> {Post(t, [ev |-> "message", m |-> m])}
              [] m.kind = "reset" ->
                   OnStreamResetIncoming(UsrsctpResetAnswer(t, m.sids),
                                         m.sids)
              [] m.kind = "answer" -> OnStreamResetIncoming(t, m.sids)
              [] m.kind = "failed" -> OnStreamResetFailed(t)
  IN  /\ peer[p].t.phase = "connected" /\ peer[q].t.phase = "connected"
      /\ \E i \in DOMAIN wire :
           /\ CanArrive(wire, i)
           /\ \E t \in Arrived(i, peer[p].t) :
                peer' = [peer EXCEPT ![p].t = t,
                                     ![q].t.wire = RemoveAt(@, i)]
      /\ UNCHANGED config

(* An unordered control message is sent with no retransmissions. *)
LoseControlMessage(p) ==
  /\ \E i \in DOMAIN peer[p].t.wire :
       LET m == peer[p].t.wire[i]
       IN  /\ m.kind \in {"open", "ack"} /\ ~m.ordered
           /\ Become(p, {[peer[p] EXCEPT !.t.wire = RemoveAt(@, i)]})

(* OnSendThresholdCallback: usrsctp has room again. *)
OnSendThreshold(p) ==
  /\ peer[p].t.phase = "connected" /\ ~peer[p].t.ready
  /\ Become(p, {[peer[p] EXCEPT !.t = SetReadyToSendData(@)]})

(* The signaling thread: an event the session posted to it, ... *)
Dispatch(p) ==
  /\ peer[p].t.posted # <<>>
  /\ Become(p, Handle([peer[p] EXCEPT !.t.posted = Tail(@)],
                      Head(peer[p].t.posted)))

(* ... or the MSG_CHANNELREADY of a channel created on a ready transport. *)
OnMessage(p, c) ==
  /\ peer[p].ch[c].readymsg
  /\ Become(p, OnChannelReady([peer[p] EXCEPT !.ch[c].readymsg = FALSE], c))

Application(p) ==
  \E c \in Chans : \/ CreateDataChannel(p, c)
                   \/ RegisterObserver(p, c)
                   \/ UnregisterObserver(p, c)
                   \/ Send(p, c)
                   \/ CloseChannel(p, c)

Session(p) ==
  \/ CreateSctpTransport(p)
  \/ AllocateSctpSids(p)
  \/ Connect(p)

Threads(p) ==
  \/ Receive(p)
  \/ OnSendThreshold(p)
  \/ Dispatch(p)
  \/ \E c \in Chans : OnMessage(p, c)

Next == \E p \in Peers : \/ Application(p)
                        \/ Session(p)
                        \/ Threads(p)
                        \/ LoseControlMessage(p)
                        \/ DestroySctpTransport(p)

Spec == Init /\ [][Next]_vars

(***************************************************************************)
(* The threads keep running, and the session is negotiated.  Nothing makes *)
(* an application act, a message get lost or a transport go away.          *)
(***************************************************************************)
Fairness ==
  \A p \in Peers :
    /\ WF_vars(Session(p))
    /\ WF_vars(Receive(p))
    /\ WF_vars(OnSendThreshold(p))
    /\ WF_vars(Dispatch(p))
    /\ \A c \in Chans : WF_vars(OnMessage(p, c))

FairSpec == Spec /\ Fairness
-----------------------------------------------------------------------------
States == {"none", "connecting", "open", "closing", "closed"}
Handshakes == {"Init", "ShouldSendOpen", "ShouldSendAck", "WaitingForAck",
               "Ready"}
Phases == {"none", "created", "negotiated", "connected", "destroyed"}

TransportTypeOK(t) ==
  /\ t.phase \in Phases
  /\ {t.open, t.queued, t.sent} \subseteq SUBSET Sids
  /\ t.ready \in BOOLEAN
  /\ t.blocks \in 0..MaxBlocks /\ t.errors \in 0..MaxErrors

ChannelTypeOK(p, ch) ==
  /\ ch.state \in States /\ ch.handshake \in Handshakes
  /\ ch.role \in {"none", "opener", "acker"}
  /\ ch.id \in Sids \cup {-1}
  /\ {ch.connected, ch.writable, ch.observer, ch.readymsg, ch.shut}
       \subseteq BOOLEAN
  /\ ch.control \in Nat
  /\ Len(ch.send) <= MaxSendQueue /\ Len(ch.received) <= MaxRecvQueue
  /\ ch.accepted \in 0..MaxMessages[p]
  /\ ch.first \in 0..ch.accepted
  /\ ch.messages_sent \in 0..(ch.accepted - ch.first)

(***************************************************************************)
(* Type invariant: the fields of the peers have their types, and both      *)
(* packet queues of a channel stay within their limits.                    *)
(***************************************************************************)
TypeOK ==
  /\ config \in Configs
  /\ \A p \in Peers : /\ TransportTypeOK(peer[p].t)
                     /\ peer[p].used \subseteq Sids
                     /\ peer[p].sctp_ready \in BOOLEAN
                     /\ \A c \in Chans : ChannelTypeOK(p, peer[p].ch[c])

(***************************************************************************)
(* "make sure the remote peer will not receive any data before it receives *)
(* the OPEN message" (SendControlMessage): on a channel opened in-band,    *)
(* data that waits for the signaling thread has a channel object already,  *)
(* or the OPEN is ahead of it.  An unordered channel relies on sending as  *)
(* ordered until the handshake is over.                                    *)
(***************************************************************************)
NoDataBeforeOpen ==
  \A p \in Peers : \A i \in DOMAIN peer[p].t.posted :
    LET e == peer[p].t.posted[i]
    IN  e.ev = "message" /\ e.m.kind = "data" /\ ~config.negotiated =>
          \/ peer[p].ch[e.m.label].state # "none"
          \/ \E j \in 1..(i - 1) :
                LET f == peer[p].t.posted[j]
                IN  f.ev = "message" /\ f.m.kind = "open"
                    /\ f.m.label = e.m.label

(***************************************************************************)
(* A stream that is open in the transport belongs to a live channel: the   *)
(* stream of a channel that closed, however it closed, is given back by    *)
(* ResetStream, by the remote reset or with the transport.                 *)
(***************************************************************************)
NoStreamLeak ==
  \A p \in Peers :
    peer[p].t.open \subseteq
      {peer[p].ch[c].id : c \in {d \in Chans : Live(peer[p].ch[d])}}

(***************************************************************************)
(* A channel only reports kClosed once its queue is flushed: every message *)
(* its Send took was handed to the transport, but for the one whose        *)
(* refusal closed the channel (a full queue, a transport error).  A        *)
(* transport that is destroyed takes the queues with it.                   *)
(***************************************************************************)
CloseFlushes ==
  \A p \in Peers : \A c \in Chans :
    LET ch == peer[p].ch[c]
    IN  ch.state = "closed" /\ peer[p].t.phase # "destroyed" =>
          ch.accepted - ch.first - ch.messages_sent <= 1

(* What keeps a closing channel from ever closing: it still has data that  *)
(* SendData refuses, because the other end closed the stream first, or     *)
(* because a call into usrsctp failed and no ready signal will follow.     *)
Unsendable(p, c) ==
  /\ peer[p].ch[c].send # <<>>
  /\ peer[p].ch[c].id \notin peer[p].t.open \/ peer[p].t.errors > 0

(***************************************************************************)
(* Close ends: a channel in kClosing reaches kClosed once the transport is *)
(* ready and its queues are flushed, unless its data has become            *)
(* unsendable, in which case nothing ever takes it out of kClosing.        *)
(***************************************************************************)
ClosingCloses ==
  []<>(\A p \in Peers : \A c \in Chans :
         peer[p].ch[c].state = "closing" => Unsendable(p, c))

(* p asked for the reset of channel c, and the request is still to reach   *)
(* the other end, which has the same stream open.                          *)
ResetPending(p, c) ==
  LET ch == peer[p].ch[c]
      t == peer[p].t
  IN  /\ ch.state = "closed" /\ ch.id >= 0
      /\ \/ ch.id \in t.queued /\ t.sent # {}
         \/ \E i \in DOMAIN t.wire : /\ t.wire[i].kind = "reset"
                                     /\ ch.id \in t.wire[i].sids
      /\ Live(peer[Other(p)].ch[c])
      /\ peer[Other(p)].ch[c].id = ch.id
      /\ ch.id \in peer[Other(p)].t.open

(***************************************************************************)
(* A channel closed at one end is closed at the other: once a stream reset *)
(* is on its way to an end that has the stream open, that end's channel    *)
(* closes too, also when both ends reset at once, the reset fails and is   *)
(* retried, or the sender is blocked.                                      *)
(***************************************************************************)
ClosesBothEnds ==
  \A c \in Chans :
    (\E p \in Peers : ResetPending(p, c)) ~>
    (\A p \in Peers : \/ ~Live(peer[p].ch[c])
                     \/ Unsendable(p, c)
                     \/ peer[p].t.phase = "destroyed"
                     \/ peer[Other(p)].t.phase = "destroyed")

(* The refinement mapping.  Data for a negotiated channel that arrives     *)
(* before the application created its end is dropped.                      *)
Pipe == INSTANCE MessagePipe WITH
  Labels <- Chans,
  state <- [p \in Peers |-> [c \in Chans |-> peer[p].ch[c].state]],
  accepted <- [p \in Peers |-> [c \in Chans |-> peer[p].ch[c].accepted]],
  delivered <- [p \in Peers |-> [c \in Chans |-> peer[p].ch[c].delivered]],
  lossy <- [p \in Peers |-> [c \in Chans |->
              config.negotiated \/ peer[p].ch[c].shut]],
  ordered <- config.ordered

(***************************************************************************)
(* Refinement: the data channels of the two peers behave, as far as their  *)
(* applications can see, like the pipes of MessagePipe, whatever the       *)
(* transport blocks or refuses and in whatever order the threads run.      *)
(***************************************************************************)
ImplementsMessagePipe == Pipe!Spec
=============================================================================

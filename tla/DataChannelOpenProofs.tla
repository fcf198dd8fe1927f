----------------------- MODULE DataChannelOpenProofs -----------------------
(***************************************************************************)
(* The opening handshake of the data channels, for any number of channels: *)
(* as long as no two channels of the opener have had the same stream, data *)
(* never reaches the other peer ahead of the OPEN of its channel.  The     *)
(* invariant relates the state of a channel at the opener to what is on    *)
(* the wire and to what the other peer has posted and made of it.          *)
(***************************************************************************)
EXTENDS DataChannelProofs

(* The other peer a has not made channel c, and may still do so. *)
Fresh(a, c) == a.ch[c].state = "none" /\ a.t.phase # "destroyed"

IsOpen(m, c) == m.kind = "open" /\ m.label = c
OpenEvent(e, c) == e.ev = "message" /\ IsOpen(e.m, c)
OpenPosted(a, c) == \E i \in DOMAIN a.t.posted : OpenEvent(a.t.posted[i], c)
OrderedOpen(m, c) == IsOpen(m, c) /\ m.ordered
OpenOnWire(t, c) == \E i \in DOMAIN t.wire : OrderedOpen(t.wire[i], c)

(* The OPEN of the channel has been sent. *)
Begun(ch) == ch.handshake \in {"WaitingForAck", "Ready"}

(* How far the handshake of a channel of the opener s is, seen from a. *)
ChannelHand(s, a, c) ==
  /\ s.ch[c].state = "open" \/ s.ch[c].send # <<>> => Begun(s.ch[c])
  /\ s.ch[c].handshake # "ShouldSendAck"
  /\ s.ch[c].handshake = "ShouldSendOpen" => s.ch[c].role = "opener"
  /\ s.ch[c].handshake = "Ready" => a.ch[c].state # "none"
  /\ s.ch[c].handshake = "WaitingForAck" /\ Fresh(a, c) =>
       OpenPosted(a, c) \/ OpenOnWire(s.t, c)

(* Data on the wire that a has no channel for is behind its OPEN. *)
ChunkHand(s, a, i) ==
  LET m == s.t.wire[i]
  IN  m.kind = "data" /\ Fresh(a, m.label) =>
        /\ m.ordered
        /\ \/ OpenPosted(a, m.label)
           \/ \E j \in DOMAIN s.t.wire : /\ j < i
                                         /\ OrderedOpen(s.t.wire[j], m.label)

Hand(s, a) ==
  /\ \A c \in Chans : ChannelHand(s, a, c)
  /\ \A i \in DOMAIN s.t.wire : ChunkHand(s, a, i)
-----------------------------------------------------------------------------
(* Steps of the opener that leave the handshakes alone and send no data. *)
NoData == {m \in ChunkType : m.kind # "data"}

SameHand(x, y) ==
  /\ y.handshake = x.handshake /\ y.role = x.role
  /\ y.state = "open" \/ y.send # <<>> =>
       x.state = "open" \/ x.send # <<>> \/ Begun(x)

Steady(s, r) ==
  /\ \A c \in Chans : SameHand(s.ch[c], r.ch[c])
  /\ NewOnWire(s.t, r.t, NoData)

LEMMA NewOnWireReflexive ==
  ASSUME NEW t, NEW u, NEW S, u.wire = t.wire
  PROVE  NewOnWire(t, u, S)
BY DEF NewOnWire

LEMMA NewOnWireTransitive ==
  ASSUME NEW t, NEW u, NEW v, NEW S, NewOnWire(t, u, S), NewOnWire(u, v, S)
  PROVE  NewOnWire(t, v, S)
BY DEF NewOnWire

LEMMA NewOnWireWeaker ==
  ASSUME NEW t, NEW u, NEW S, NEW T, NewOnWire(t, u, S), S \subseteq T
  PROVE  NewOnWire(t, u, T)
BY DEF NewOnWire

LEMMA ResetsAreNoData ==
  ASSUME NEW t, NEW u, NewOnWire(t, u, ResetChunks)
  PROVE  NewOnWire(t, u, NoData)
<1>1. ResetChunks \subseteq NoData
  BY DEF ResetChunks, NoData, IsMessage
<1> QED
  BY <1>1, NewOnWireWeaker

LEMMA SteadyReflexive ==
  ASSUME NEW s
  PROVE  Steady(s, s)
BY NewOnWireReflexive DEF Steady, SameHand

LEMMA SteadyTransitive ==
  ASSUME NEW s, NEW r, NEW u, Steady(s, r), Steady(r, u)
  PROVE  Steady(s, u)
<1>1. NewOnWire(s.t, u.t, NoData)
  BY NewOnWireTransitive DEF Steady
<1>2. \A c \in Chans : SameHand(s.ch[c], u.ch[c])
  BY DEF Steady, SameHand, Begun
<1> QED
  BY <1>1, <1>2 DEF Steady

(* An OPEN that is on the wire, and data behind it, stay so. *)
LEMMA OpenStays ==
  ASSUME NEW t, NEW u, NEW S, NewOnWire(t, u, S), NEW c, OpenOnWire(t, c)
  PROVE  OpenOnWire(u, c)
BY DEF NewOnWire, OpenOnWire

LEMMA OldChunkHand ==
  ASSUME NEW s, NEW r, NEW a, NEW S, NewOnWire(s.t, r.t, S),
         NEW i \in DOMAIN s.t.wire, ChunkHand(s, a, i)
  PROVE  ChunkHand(r, a, i)
BY DEF NewOnWire, ChunkHand

LEMMA SteadyKeepsHand ==
  ASSUME NEW s, NEW r, NEW a, Steady(s, r), Hand(s, a)
  PROVE  Hand(r, a)
<1>1. NewOnWire(s.t, r.t, NoData)
  BY DEF Steady
<1>2. ASSUME NEW c \in Chans
      PROVE  ChannelHand(r, a, c)
  <2>1. ChannelHand(s, a, c) /\ SameHand(s.ch[c], r.ch[c])
    BY DEF Hand, Steady
  <2>2. OpenOnWire(s.t, c) => OpenOnWire(r.t, c)
    BY <1>1, OpenStays
  <2> QED
    BY <2>1, <2>2 DEF ChannelHand, SameHand, Begun
<1>3. ASSUME NEW i \in DOMAIN r.t.wire
      PROVE  ChunkHand(r, a, i)
  <2>1. CASE i \in DOMAIN s.t.wire
    BY <1>1, <2>1, OldChunkHand DEF Hand
  <2>2. CASE i \notin DOMAIN s.t.wire
    BY <1>1, <2>2 DEF NewOnWire, NoData, ChunkHand
  <2> QED
    BY <2>1, <2>2
<1> QED
  BY <1>2, <1>3 DEF Hand

(* A step on one channel that does not reach the wire. *)
LEMMA ChannelSteady ==
  ASSUME NEW s, NEW r, NEW c \in Chans, OnlyChannel(s, r, c),
         SameHand(s.ch[c], r.ch[c]), NewOnWire(s.t, r.t, NoData)
  PROVE  Steady(s, r)
<1>1. ASSUME NEW d \in Chans, d # c
      PROVE  SameHand(s.ch[d], r.ch[d])
  BY <1>1 DEF OnlyChannel, SameHand
<1> QED
  BY <1>1 DEF Steady


-----------------------------------------------------------------------------
(* The operators on the channels of the opener. *)
LEMMA ClosingSteady ==
  ASSUME NEW p, NEW s \in PeerType, NEW c \in Chans,
         WireGood(p, s.ch, s.t.wire), NEW r \in UpdateStateClosing(s, c)
  PROVE  Steady(s, r)
<1>0. s.ch[c] \in ChannelType
  BY PeerTypes
<1>1. CASE s.ch[c].send # <<>> \/ s.ch[c].control # 0
  <2>1. r = s
    BY <1>1 DEF UpdateStateClosing
  <2> QED
    BY <2>1, SteadyReflexive
<1>2. CASE ~(s.ch[c].send # <<>> \/ s.ch[c].control # 0)
  <2>1. PICK d \in DisconnectFromProvider(s, c) :
          r = OnSctpDataChannelClosed([d EXCEPT !.ch[c].state = "closed"], c)
    BY <1>2 DEF UpdateStateClosing
  <2>2. /\ d \in PeerType /\ OnlyChannel(s, d, c)
        /\ d.ch[c] = [s.ch[c] EXCEPT !.connected = FALSE]
        /\ d.used = s.used
        /\ d.t.phase = s.t.phase /\ d.t.posted = s.t.posted
        /\ d.t.open = IF s.ch[c].connected THEN s.t.open \ {s.ch[c].id}
                      ELSE s.t.open
        /\ WireGood(p, s.ch, d.t.wire)
        /\ NewOnWire(s.t, d.t, ResetChunks)
    BY <2>1, DisconnectOutcome
  <2>3. PICK x : x = [d EXCEPT !.ch[c].state = "closed"]
    OBVIOUS
  <2>4. /\ OnlyChannel(d, x, c) /\ x.t = d.t /\ x \in PeerType
        /\ x.ch[c] = [d.ch[c] EXCEPT !.state = "closed"]
    <3>1. d.ch[c] \in ChannelType
      BY <2>2, PeerTypes
    <3> QED
      BY <2>2, <2>3, <3>1 DEF PeerType, ChannelType, States, OnlyChannel
  <2>5. r = [x EXCEPT !.used = x.used \ {x.ch[c].id}]
    BY <2>1, <2>3 DEF OnSctpDataChannelClosed
  <2>6. r.ch = x.ch /\ r.t = d.t
    BY <2>4, <2>5 DEF PeerType
  <2>7. /\ x.ch[c].handshake = s.ch[c].handshake
        /\ x.ch[c].role = s.ch[c].role
        /\ x.ch[c].state = "closed" /\ x.ch[c].send = s.ch[c].send
    BY <1>0, <2>2, <2>4 DEF ChannelType, States
  <2>8. SameHand(s.ch[c], r.ch[c])
    BY <2>6, <2>7 DEF SameHand
  <2>9. OnlyChannel(s, r, c)
    BY <2>2, <2>4, <2>6 DEF OnlyChannel
  <2>10. NewOnWire(s.t, r.t, NoData)
    BY <2>2, <2>6, ResetsAreNoData
  <2> QED
    BY <2>8, <2>9, <2>10, ChannelSteady
<1> QED
  BY <1>1, <1>2

LEMMA CloseSteady ==
  ASSUME NEW p, NEW s \in PeerType, NEW c \in Chans,
         WireGood(p, s.ch, s.t.wire), NEW r \in Close(s, c)
  PROVE  Steady(s, r)
<1>0. s.ch[c] \in ChannelType /\ s.t.wire \in Seq(ChunkType)
  BY PeerTypes, TransportTypes
<1>1. CASE s.ch[c].state = "closed"
  BY <1>1, SteadyReflexive DEF Close
<1>2. CASE s.ch[c].state # "closed"
  <2>1. PICK x : x = [s EXCEPT !.ch[c].state = "closing", !.ch[c].shut = TRUE]
    OBVIOUS
  <2>2. /\ x \in PeerType /\ OnlyChannel(s, x, c)
        /\ x.ch[c] = [s.ch[c] EXCEPT !.state = "closing", !.shut = TRUE]
        /\ x.t = s.t
    BY <1>0, <2>1 DEF PeerType, ChannelType, States, OnlyChannel
  <2>3. /\ x.ch[c].state = "closing" /\ x.ch[c].send = s.ch[c].send
        /\ x.ch[c].id = s.ch[c].id /\ x.ch[c].role = s.ch[c].role
        /\ x.ch[c].handshake = s.ch[c].handshake
    BY <1>0, <2>2 DEF ChannelType
  <2>4. \A d \in Chans : x.ch[d].id = s.ch[d].id
    BY <2>2, <2>3 DEF OnlyChannel
  <2>5. WireGood(p, x.ch, x.t.wire)
    BY <1>0, <2>2, <2>4, WireOfSameIds
  <2>6. r \in UpdateStateClosing(x, c)
    BY <1>2, <2>1 DEF Close
  <2>7. Steady(x, r)
    BY <2>2, <2>5, <2>6, ClosingSteady
  <2>8. SameHand(s.ch[c], x.ch[c])
    BY <2>3 DEF SameHand
  <2>9. NewOnWire(s.t, x.t, NoData)
    BY <2>2, NewOnWireReflexive
  <2>10. Steady(s, x)
    BY <2>2, <2>8, <2>9, ChannelSteady
  <2> QED
    BY <2>7, <2>10, SteadyTransitive
<1> QED
  BY <1>1, <1>2

LEMMA DeliverSteady ==
  ASSUME NEW s \in PeerType, NEW c \in Chans
  PROVE  Steady(s, DeliverQueuedReceivedData(s, c))
<1>0. s.ch[c] \in ChannelType
  BY PeerTypes
<1>1. CASE ~s.ch[c].observer
  BY <1>1, SteadyReflexive DEF DeliverQueuedReceivedData
<1>2. CASE s.ch[c].observer
  <2>1. PICK l, e : l = s.ch[c].delivered \o s.ch[c].received /\ e = <<>>
    OBVIOUS
  <2>2. PICK r : r = [s EXCEPT !.ch[c].delivered = l, !.ch[c].received = e]
    OBVIOUS
  <2>3. DeliverQueuedReceivedData(s, c) = r
    BY <1>2, <2>1, <2>2 DEF DeliverQueuedReceivedData
  <2>4. /\ OnlyChannel(s, r, c) /\ r.t = s.t
        /\ r.ch[c] = [s.ch[c] EXCEPT !.delivered = l, !.received = e]
    BY <1>0, <2>2 DEF PeerType, ChannelType, OnlyChannel
  <2>5. /\ r.ch[c].state = s.ch[c].state /\ r.ch[c].send = s.ch[c].send
        /\ r.ch[c].role = s.ch[c].role
        /\ r.ch[c].handshake = s.ch[c].handshake
    BY <1>0, <2>4 DEF ChannelType
  <2>6. SameHand(s.ch[c], r.ch[c])
    BY <2>5 DEF SameHand
  <2>7. NewOnWire(s.t, r.t, NoData)
    BY <2>4, NewOnWireReflexive
  <2> QED
    BY <2>3, <2>4, <2>6, <2>7, ChannelSteady
<1> QED
  BY <1>1, <1>2

(* The first control message of a channel of the opener is its OPEN. *)
LEMMA HandshakeBegins ==
  ASSUME NEW s, NEW x, NEW c \in Chans, NEW a, Hand(s, a), OnlyChannel(s, x, c),
         NewOnWire(s.t, x.t, NoData), x.ch[c].handshake = "WaitingForAck",
         OpenOnWire(x.t, c)
  PROVE  Hand(x, a)
<1>1. ASSUME NEW d \in Chans
      PROVE  ChannelHand(x, a, d)
  <2>1. CASE d = c
    BY <2>1 DEF ChannelHand, Begun
  <2>2. CASE d # c
    <3>1. x.ch[d] = s.ch[d] /\ ChannelHand(s, a, d)
      BY <2>2 DEF OnlyChannel, Hand
    <3>2. OpenOnWire(s.t, d) => OpenOnWire(x.t, d)
      BY OpenStays
    <3> QED
      BY <3>1, <3>2 DEF ChannelHand
  <2> QED
    BY <2>1, <2>2
<1>2. ASSUME NEW i \in DOMAIN x.t.wire
      PROVE  ChunkHand(x, a, i)
  <2>1. CASE i \in DOMAIN s.t.wire
    BY <2>1, OldChunkHand DEF Hand
  <2>2. CASE i \notin DOMAIN s.t.wire
    BY <2>2 DEF NewOnWire, NoData, ChunkHand
  <2> QED
    BY <2>1, <2>2
<1> QED
  BY <1>1, <1>2 DEF Hand

LEMMA SendControlHand ==
  ASSUME NEW p \in Peers, NEW s, NEW c \in Chans, NEW n \in Nat, Good(p, s),
         config \in Configs, NEW u \in SendControlMessages(s, c, n),
         NEW a, Hand(s, a)
  PROVE  Hand(u, a)
<1>0. s \in PeerType /\ s.ch[c] \in ChannelType /\ s.t \in TransportType
  BY PeerTypes DEF Good
<1> DEFINE hs == s.ch[c].handshake
           H(i) == IF i = 1 THEN hs ELSE AfterControl(hs)
<1>1. PICK ms : ms = [i \in 1..n |-> ControlMessage(s, c, H(i))]
  OBVIOUS
<1>2. /\ ms \in Seq(MessageType) /\ Len(ms) = n /\ DOMAIN ms = 1..n
      /\ \A i \in DOMAIN ms : ms[i].kind # "data"
      /\ \A i \in DOMAIN ms : ms[i].sid \in Sids => MessageGood(p, s.ch, ms[i])
      /\ n # 0 => ms[1] = ControlMessage(s, c, hs)
  <2>0. n # 0 => 1 \in 1..n /\ H(1) = hs
    OBVIOUS
  <2> HIDE DEF H
  <2>1. ms \in [1..n -> MessageType]
    BY <1>0, <1>1, MessageTypes
  <2>2. \A i \in DOMAIN ms : ms[i].sid \in Sids => MessageGood(p, s.ch, ms[i])
    BY <1>1, MessagesGood
  <2>3. \A i \in DOMAIN ms : ms[i].kind # "data"
    BY <1>1 DEF ControlMessage
  <2>4. n # 0 => ms[1] = ControlMessage(s, c, hs)
    BY <1>1, <2>0
  <2> QED
    BY <2>1, <2>2, <2>3, <2>4
<1> DEFINE S1(r) == [s EXCEPT !.t = r.t,
                              !.ch[c].handshake =
                                 IF r.n > 0 THEN AfterControl(@) ELSE @]
           Out(r) == CASE r.res = "ok" -> {S1(r)}
                       [] r.res = "block" ->
                            {[S1(r) EXCEPT !.ch[c].control = @ + (n - r.n)]}
                       [] r.res = "error" -> Close(S1(r), c)
<1>3. PICK r \in SendData(s.t, ms) : u \in Out(r)
  <2>1. SendControlMessages(s, c, n) = UNION {Out(r) : r \in SendData(s.t, ms)}
    BY <1>1 DEF SendControlMessages
  <2> HIDE DEF Out
  <2> QED
    BY <2>1
<1>4. /\ r.n \in 0..n /\ r.res \in {"ok", "block", "error"}
      /\ r.res = "ok" <=> r.n = n
      /\ r.t \in TransportType /\ r.t.phase = s.t.phase
      /\ r.t.posted = s.t.posted /\ r.t.open = s.t.open
      /\ WireGood(p, s.ch, r.t.wire)
  BY <1>2, SentGood
<1>5. PICK h \in Handshakes : h = IF r.n > 0 THEN AfterControl(hs) ELSE hs
  <2>1. hs \in Handshakes /\ AfterControl(hs) \in Handshakes
    BY <1>0, ChannelTypes, AfterControlType
  <2> QED
    BY <2>1
<1>6. PICK x : x = [s EXCEPT !.t = r.t, !.ch[c].handshake = h]
  OBVIOUS
<1>7. S1(r) = x
  BY <1>5, <1>6
<1>8. /\ x \in PeerType /\ OnlyChannel(s, x, c)
      /\ x.ch[c] = [s.ch[c] EXCEPT !.handshake = h] /\ x.t = r.t
  BY <1>0, <1>4, <1>6 DEF PeerType, ChannelType, OnlyChannel
<1>9. /\ x.ch[c].state = s.ch[c].state /\ x.ch[c].send = s.ch[c].send
      /\ x.ch[c].role = s.ch[c].role /\ x.ch[c].handshake = h
      /\ x.ch[c].id = s.ch[c].id
  BY <1>0, <1>8 DEF ChannelType
<1>10. \/ u = x
       \/ u = [x EXCEPT !.ch[c].control = @ + (n - r.n)]
       \/ u \in Close(x, c)
  BY <1>3, <1>4, <1>7
<1> HIDE DEF S1, Out, H
<1>11. SendOutcome(s.t, ms, r)
  BY <1>0, <1>2, SendDataOutcome
<1>12. NewOnWire(s.t, x.t, NoData)
  <2>1. PICK S : S = {m \in MessageType : /\ m.sid \in Sids
                                          /\ \E i \in DOMAIN ms : m = ms[i]}
    OBVIOUS
  <2>2. NewOnWire(s.t, r.t, S)
    BY <1>11, <2>1 DEF SendOutcome
  <2>3. S \subseteq NoData
    BY <1>2, <2>1 DEF NoData, ChunkType
  <2> QED
    BY <1>8, <2>2, <2>3, NewOnWireWeaker
<1>13. Hand(x, a)
  <2>1. CASE h = hs
    <3>1. SameHand(s.ch[c], x.ch[c])
      BY <1>9, <2>1 DEF SameHand
    <3>2. Steady(s, x)
      BY <1>8, <1>12, <3>1, ChannelSteady
    <3> QED
      BY <3>2, SteadyKeepsHand
  <2>2. CASE h # hs
    <3>1. ChannelHand(s, a, c)
      BY DEF Hand
    <3>9. PICK g : g = hs
      OBVIOUS
    <3>10. g # "ShouldSendAck"
      BY <3>1, <3>9 DEF ChannelHand
    <3>11. r.n > 0 /\ h = AfterControl(g) /\ h # g
      BY <1>5, <2>2, <3>9
    <3>12. g = "ShouldSendOpen" /\ h = "WaitingForAck"
      <4>1. g # "ShouldSendOpen" => AfterControl(g) = g
        BY <3>10 DEF AfterControl
      <4>2. AfterControl("ShouldSendOpen") = "WaitingForAck"
        BY DEF AfterControl
      <4> QED
        BY <3>11, <4>1, <4>2
    <3>2. hs = "ShouldSendOpen" /\ h = "WaitingForAck" /\ r.n > 0
      BY <3>9, <3>11, <3>12
    <3>3. s.ch[c].role = "opener"
      BY <3>1, <3>2 DEF ChannelHand
    <3>4. r.n # 0 /\ n # 0
      BY <1>4, <3>2
    <3>5. PICK i \in DOMAIN r.t.wire : r.t.wire[i] = ms[1]
      BY <1>11, <3>4 DEF SendOutcome
    <3>6. ms[1] = ControlMessage(s, c, "ShouldSendOpen")
      BY <1>2, <3>2, <3>4
    <3>7. OrderedOpen(ms[1], c)
      <4>1. PICK o \in BOOLEAN :
              o = (config.ordered \/ "ShouldSendOpen" = "ShouldSendOpen")
        OBVIOUS
      <4>2. ms[1] = [kind |-> "open", sid |-> s.ch[c].id, label |-> c,
                     ordered |-> o]
        BY <3>3, <3>6, <4>1 DEF ControlMessage
      <4>3. ms[1].kind = "open" /\ ms[1].label = c /\ ms[1].ordered = o
        BY <4>2
      <4> QED
        BY <4>1, <4>3 DEF OrderedOpen, IsOpen
    <3>8. OpenOnWire(x.t, c)
      BY <1>8, <3>5, <3>7 DEF OpenOnWire
    <3> QED
      BY <1>8, <1>9, <1>12, <3>2, <3>8, HandshakeBegins
  <2> QED
    BY <2>1, <2>2
<1>14. CASE u = x
  BY <1>13, <1>14
<1>15. CASE u = [x EXCEPT !.ch[c].control = @ + (n - r.n)]
  <2>1. PICK k : k = x.ch[c].control + (n - r.n)
    OBVIOUS
  <2>2. u = [x EXCEPT !.ch[c].control = k]
    BY <1>15, <2>1
  <2>3. x.ch[c] \in ChannelType
    BY <1>8, PeerTypes
  <2>4. /\ OnlyChannel(x, u, c) /\ u.t = x.t
        /\ u.ch[c] = [x.ch[c] EXCEPT !.control = k]
    BY <1>8, <2>2 DEF PeerType, OnlyChannel
  <2>5. SameHand(x.ch[c], u.ch[c])
    BY <2>3, <2>4 DEF ChannelType, SameHand
  <2>6. Steady(x, u)
    BY <2>4, <2>5, ChannelSteady, NewOnWireReflexive
  <2> QED
    BY <1>13, <2>6, SteadyKeepsHand
<1>16. CASE u \in Close(x, c)
  <2>1. \A d \in Chans : x.ch[d].id = s.ch[d].id
    BY <1>8, <1>9 DEF OnlyChannel
  <2>2. x.t.wire \in Seq(ChunkType)
    BY <1>4, <1>8, TransportTypes
  <2>3. WireGood(p, x.ch, x.t.wire)
    BY <1>0, <1>4, <1>8, <2>1, <2>2, WireOfSameIds
  <2>4. Steady(x, u)
    BY <1>8, <1>16, <2>3, CloseSteady
  <2> QED
    BY <1>13, <2>4, SteadyKeepsHand
<1> QED
  BY <1>10, <1>14, <1>15, <1>16

LEMMA SendQueuedControlHand ==
  ASSUME NEW p \in Peers, NEW s, NEW c \in Chans, Good(p, s),
         config \in Configs, NEW u \in SendQueuedControlMessages(s, c),
         NEW a, Hand(s, a)
  PROVE  Hand(u, a)
<1>0. s \in PeerType /\ s.ch[c] \in ChannelType
  BY PeerTypes DEF Good
<1>1. PICK x : x = [s EXCEPT !.ch[c].control = 0]
  OBVIOUS
<1>2. /\ x \in PeerType /\ OnlyChannel(s, x, c)
      /\ x.ch[c] = [s.ch[c] EXCEPT !.control = 0]
      /\ x.used = s.used /\ x.t = s.t
  BY <1>0, <1>1 DEF PeerType, ChannelType, OnlyChannel
<1>3. SameChannel(s.ch[c], x.ch[c]) /\ SameHand(s.ch[c], x.ch[c])
  BY <1>0, <1>2 DEF ChannelType, SameChannel, SameHand, Good, ChannelGood
<1>4. QuietStep(p, s, x, c)
  BY <1>2, <1>3 DEF QuietStep, Good
<1>5. Good(p, x)
  BY <1>4, QuietStepGood
<1>6. Steady(s, x)
  BY <1>2, <1>3, ChannelSteady, NewOnWireReflexive
<1>7. Hand(x, a)
  BY <1>6, SteadyKeepsHand
<1>8. PICK n \in Nat : n = s.ch[c].control
  BY <1>0, ChannelTypes
<1>9. u \in SendControlMessages(x, c, n)
  BY <1>1, <1>8 DEF SendQueuedControlMessages
<1> QED
  BY <1>5, <1>7, <1>9, SendControlHand

(* Data of a channel goes behind its OPEN, ordered until the other peer is *)
(* known to have the channel.                                              *)
Behind(ch, c, m) ==
  /\ m.kind = "data" /\ m.label = c
  /\ m.ordered \/ ch.handshake = "Ready"
  /\ Begun(ch)

LEMMA DataGoesBehind ==
  ASSUME NEW s, NEW x, NEW c \in Chans, NEW a, Hand(s, a), OnlyChannel(s, x, c),
         SameHand(s.ch[c], x.ch[c]), NEW S, NewOnWire(s.t, x.t, S),
         \A m \in S : Behind(s.ch[c], c, m)
  PROVE  Hand(x, a)
<1>1. ASSUME NEW d \in Chans
      PROVE  ChannelHand(x, a, d)
  <2>1. SameHand(s.ch[d], x.ch[d])
    BY DEF OnlyChannel, SameHand
  <2>2. ChannelHand(s, a, d)
    BY DEF Hand
  <2>3. OpenOnWire(s.t, d) => OpenOnWire(x.t, d)
    BY OpenStays
  <2> QED
    BY <2>1, <2>2, <2>3 DEF ChannelHand, SameHand, Begun
<1>2. ASSUME NEW i \in DOMAIN x.t.wire
      PROVE  ChunkHand(x, a, i)
  <2>1. CASE i \in DOMAIN s.t.wire
    BY <2>1, OldChunkHand DEF Hand
  <2>2. CASE i \notin DOMAIN s.t.wire
    <3>1. PICK m : m = x.t.wire[i]
      OBVIOUS
    <3>2. m \in S /\ \A j \in DOMAIN s.t.wire : j < i
      BY <2>2, <3>1 DEF NewOnWire
    <3>3. Behind(s.ch[c], c, m)
      BY <3>2
    <3>4. ChannelHand(s, a, c)
      BY DEF Hand
    <3>5. ASSUME Fresh(a, c)
          PROVE  m.ordered /\ (OpenPosted(a, c) \/ OpenOnWire(s.t, c))
      <4>1. s.ch[c].handshake # "Ready"
        BY <3>4, <3>5 DEF ChannelHand, Fresh
      <4> QED
        BY <3>3, <3>4, <3>5, <4>1 DEF ChannelHand, Behind, Begun
    <3>6. ASSUME OpenOnWire(s.t, c)
          PROVE  \E j \in DOMAIN x.t.wire :
                   j < i /\ OrderedOpen(x.t.wire[j], c)
      <4>1. PICK j \in DOMAIN s.t.wire : OrderedOpen(s.t.wire[j], c)
        BY <3>6 DEF OpenOnWire
      <4>2. j \in DOMAIN x.t.wire /\ x.t.wire[j] = s.t.wire[j]
        BY DEF NewOnWire
      <4> QED
        BY <3>2, <4>1, <4>2
    <3>7. m.label = c
      BY <3>3 DEF Behind
    <3> QED
      BY <3>1, <3>5, <3>6, <3>7 DEF ChunkHand
  <2> QED
    BY <2>1, <2>2
<1> QED
  BY <1>1, <1>2 DEF Hand

LEMMA DataMessageBehind ==
  ASSUME NEW s, NEW c, NEW n, config \in Configs, Begun(s.ch[c])
  PROVE  Behind(s.ch[c], c, DataMessage(s, c, n))
<1>1. PICK o \in BOOLEAN : o = (config.ordered \/ s.ch[c].handshake # "Ready")
  OBVIOUS
<1>2. PICK m : m = DataMessage(s, c, n)
  OBVIOUS
<1>3. m = [kind |-> "data", sid |-> s.ch[c].id, label |-> c, number |-> n,
           ordered |-> o]
  BY <1>1, <1>2 DEF DataMessage
<1>4. m.kind = "data" /\ m.label = c /\ m.ordered = o
  BY <1>3
<1>5. s.ch[c].handshake # "Ready" => o
  BY <1>1
<1>6. Behind(s.ch[c], c, m)
  BY <1>4, <1>5 DEF Behind
<1> QED
  BY <1>2, <1>6

LEMMA SendQueuedDataHand ==
  ASSUME NEW p \in Peers, NEW s, NEW c \in Chans, Good(p, s),
         config \in Configs, NEW u \in SendQueuedDataMessages(s, c),
         NEW a, Hand(s, a)
  PROVE  Hand(u, a)
<1>0. s \in PeerType /\ s.ch[c] \in ChannelType /\ s.t \in TransportType
  BY PeerTypes DEF Good
<1>1. PICK q : q = s.ch[c].send
  OBVIOUS
<1>2. q \in Seq(Nat) /\ Len(q) \in Nat /\ DOMAIN q = 1..Len(q)
  BY <1>0, <1>1, ChannelTypes, LenProperties
<1>3. PICK ms : ms = [i \in DOMAIN q |-> DataMessage(s, c, q[i])]
  OBVIOUS
<1>4. /\ ms \in Seq(MessageType) /\ Len(ms) = Len(q) /\ DOMAIN ms = DOMAIN q
      /\ \A i \in DOMAIN ms : ms[i].sid \in Sids => MessageGood(p, s.ch, ms[i])
  <2>1. \A i \in 1..Len(q) : q[i] \in Nat
    BY <1>2, ElementOfSeq
  <2>2. ms \in [1..Len(q) -> MessageType]
    BY <1>0, <1>2, <1>3, <2>1, MessageTypes
  <2>3. \A i \in DOMAIN ms : ms[i].sid \in Sids => MessageGood(p, s.ch, ms[i])
    BY <1>3, MessagesGood
  <2> QED
    BY <1>2, <2>2, <2>3
<1> DEFINE S1(r) == [s EXCEPT !.t = r.t,
                              !.ch[c].messages_sent = @ + r.n,
                              !.ch[c].send = SubSeq(@, r.n + 1, Len(@))]
           Out(r) == IF r.res = "error" THEN Close(S1(r), c) ELSE {S1(r)}
<1>5. PICK r \in SendData(s.t, ms) : u \in Out(r)
  <2>1. SendQueuedDataMessages(s, c) = UNION {Out(r) : r \in SendData(s.t, ms)}
    BY <1>1, <1>3 DEF SendQueuedDataMessages
  <2> HIDE DEF Out
  <2> QED
    BY <2>1
<1>6. /\ r.n \in 0..Len(q)
      /\ r.t \in TransportType /\ r.t.phase = s.t.phase
      /\ r.t.posted = s.t.posted /\ r.t.open = s.t.open
      /\ WireGood(p, s.ch, r.t.wire)
  BY <1>4, SentGood
<1>7. PICK l : l = SubSeq(q, r.n + 1, Len(q))
  OBVIOUS
<1>8. l \in Seq(Nat) /\ Len(l) = Len(q) - r.n
  <2>1. l \in Seq(Nat) /\ Len(l) = IF r.n + 1 <= Len(q)
                                   THEN Len(q) - (r.n + 1) + 1 ELSE 0
    BY <1>2, <1>6, <1>7, SubSeqProperties
  <2> QED
    BY <1>2, <1>6, <2>1
<1>9. PICK k \in Nat : k = s.ch[c].messages_sent + r.n
  BY <1>0, <1>2, <1>6, ChannelTypes
<1>10. PICK x : x = [s EXCEPT !.t = r.t, !.ch[c].messages_sent = k,
                              !.ch[c].send = l]
  OBVIOUS
<1>11. S1(r) = x
  BY <1>1, <1>7, <1>9, <1>10
<1>12. /\ x \in PeerType /\ OnlyChannel(s, x, c) /\ x.t = r.t
       /\ x.ch[c] = [s.ch[c] EXCEPT !.messages_sent = k, !.send = l]
  BY <1>0, <1>6, <1>8, <1>10 DEF PeerType, ChannelType, OnlyChannel
<1>13. /\ x.ch[c].state = s.ch[c].state /\ x.ch[c].id = s.ch[c].id
       /\ x.ch[c].role = s.ch[c].role /\ x.ch[c].send = l
       /\ x.ch[c].handshake = s.ch[c].handshake
  BY <1>0, <1>12 DEF ChannelType
<1>14. u = x \/ u \in Close(x, c)
  BY <1>5, <1>11
<1> HIDE DEF S1, Out
<1>15. q = <<>> => l = <<>>
  <2> SUFFICES ASSUME q = <<>> PROVE l = <<>>
    OBVIOUS
  <2>1. Len(q) = 0
    BY EmptySeq
  <2>2. Len(l) = 0
    BY <1>6, <1>8, <2>1
  <2> QED
    BY <1>8, <2>2, EmptySeq
<1>16. SameHand(s.ch[c], x.ch[c])
  BY <1>1, <1>13, <1>15 DEF SameHand
<1>17. PICK S : S = {m \in MessageType : /\ m.sid \in Sids
                                         /\ \E i \in DOMAIN ms : m = ms[i]}
  OBVIOUS
<1>18. NewOnWire(s.t, x.t, S)
  <2>1. SendOutcome(s.t, ms, r)
    BY <1>0, <1>4, SendDataOutcome
  <2>2. NewOnWire(s.t, r.t, S)
    BY <1>17, <2>1 DEF SendOutcome
  <2> QED
    BY <1>12, <2>2
<1>19. \A m \in S : Behind(s.ch[c], c, m)
  <2> SUFFICES ASSUME NEW m \in S PROVE Behind(s.ch[c], c, m)
    OBVIOUS
  <2>1. PICK i \in DOMAIN q : m = DataMessage(s, c, q[i])
    BY <1>3, <1>4, <1>17
  <2>2. q # <<>>
    BY <1>2, <2>1
  <2>3. Begun(s.ch[c])
    BY <1>1, <2>2 DEF Hand, ChannelHand
  <2> QED
    BY <2>1, <2>3, DataMessageBehind
<1>20. Hand(x, a)
  BY <1>12, <1>16, <1>18, <1>19, DataGoesBehind
<1>21. CASE u \in Close(x, c)
  <2>1. \A d \in Chans : x.ch[d].id = s.ch[d].id
    BY <1>12, <1>13 DEF OnlyChannel
  <2>2. x.t.wire \in Seq(ChunkType)
    BY <1>6, <1>12, TransportTypes
  <2>3. WireGood(p, x.ch, x.t.wire)
    BY <1>0, <1>6, <1>12, <2>1, <2>2, WireOfSameIds
  <2>4. Steady(x, u)
    BY <1>12, <1>21, <2>3, CloseSteady
  <2> QED
    BY <1>20, <2>4, SteadyKeepsHand
<1> QED
  BY <1>14, <1>20, <1>21

LEMMA UpdateStateHand ==
  ASSUME NEW p \in Peers, NEW s, NEW c \in Chans, Good(p, s),
         config \in Configs, s.ch[c].state # "none",
         NEW u \in UpdateState(s, c), NEW a, Hand(s, a)
  PROVE  Hand(u, a)
<1> DEFINE Unsettled == s.ch[c].handshake \in {"ShouldSendOpen", "ShouldSendAck"}
           Started == IF Unsettled THEN SendControlMessages(s, c, 1) ELSE {s}
           Opens(r) == /\ r.ch[c].writable
                       /\ r.ch[c].handshake \in {"Ready", "WaitingForAck"}
           Opened(r) == [r EXCEPT !.ch[c].state = "open"]
<1>1. CASE s.ch[c].state = "connecting" /\ s.ch[c].connected
  <2>1. PICK r \in Started :
          u = IF Opens(r) THEN DeliverQueuedReceivedData(Opened(r), c) ELSE r
    BY <1>1 DEF UpdateState
  <2>2. r \in PeerType /\ Hand(r, a)
    <3>1. CASE r = s
      BY <3>1 DEF Good
    <3>2. CASE r \in SendControlMessages(s, c, 1)
      <4>1. Good(p, r) /\ Kept(s, r)
        BY <3>2, SendControlGood
      <4>2. Hand(r, a)
        BY <3>2, SendControlHand
      <4> QED
        BY <4>1, <4>2 DEF Good
    <3> QED
      BY <2>1, <3>1, <3>2
  <2> HIDE DEF Started
  <2>3. CASE u = r
    BY <2>2, <2>3
  <2>4. CASE Opens(r) /\ u = DeliverQueuedReceivedData(Opened(r), c)
    <3>1. PICK x : x = [r EXCEPT !.ch[c].state = "open"]
      OBVIOUS
    <3>2. r.ch[c] \in ChannelType
      BY <2>2, PeerTypes
    <3>3. /\ x \in PeerType /\ OnlyChannel(r, x, c) /\ x.t = r.t
          /\ x.ch[c] = [r.ch[c] EXCEPT !.state = "open"]
      BY <2>2, <3>1, <3>2 DEF PeerType, ChannelType, States, OnlyChannel
    <3>4. /\ x.ch[c].handshake = r.ch[c].handshake
          /\ x.ch[c].role = r.ch[c].role
      BY <3>2, <3>3 DEF ChannelType
    <3>5. SameHand(r.ch[c], x.ch[c])
      BY <2>4, <3>4 DEF SameHand, Begun
    <3>6. Steady(r, x)
      BY <3>3, <3>5, ChannelSteady, NewOnWireReflexive
    <3>7. u = DeliverQueuedReceivedData(x, c)
      BY <2>4, <3>1
    <3>8. Steady(x, u)
      BY <3>3, <3>7, DeliverSteady
    <3> QED
      BY <2>2, <3>6, <3>8, SteadyTransitive, SteadyKeepsHand
  <2> QED
    BY <2>1, <2>3, <2>4
<1>2. CASE s.ch[c].state = "closing"
  <2>1. u \in UpdateStateClosing(s, c)
    BY <1>2 DEF UpdateState
  <2>2. s \in PeerType /\ WireGood(p, s.ch, s.t.wire)
    BY DEF Good
  <2>3. Steady(s, u)
    BY <2>1, <2>2, ClosingSteady
  <2> QED
    BY <2>3, SteadyKeepsHand
<1>3. CASE ~(s.ch[c].state = "connecting" /\ s.ch[c].connected)
           /\ s.ch[c].state # "closing"
  BY <1>3 DEF UpdateState
<1> QED
  BY <1>1, <1>2, <1>3

LEMMA OnChannelReadyHand ==
  ASSUME NEW p \in Peers, NEW s, NEW c \in Chans, Good(p, s),
         config \in Configs, s.ch[c].state # "none",
         NEW u \in OnChannelReady(s, c), NEW a, Hand(s, a)
  PROVE  Hand(u, a)
<1>0. s \in PeerType /\ s.ch[c] \in ChannelType
  BY PeerTypes DEF Good
<1>1. PICK x : x = [s EXCEPT !.ch[c].writable = TRUE]
  OBVIOUS
<1>2. /\ x \in PeerType /\ OnlyChannel(s, x, c)
      /\ x.ch[c] = [s.ch[c] EXCEPT !.writable = TRUE]
      /\ x.used = s.used /\ x.t = s.t
  BY <1>0, <1>1 DEF PeerType, ChannelType, OnlyChannel
<1>3. SameChannel(s.ch[c], x.ch[c]) /\ SameHand(s.ch[c], x.ch[c])
  BY <1>0, <1>2 DEF ChannelType, SameChannel, SameHand, Good, ChannelGood
<1>4. QuietStep(p, s, x, c)
  BY <1>2, <1>3 DEF QuietStep, Good
<1>5. Good(p, x)
  BY <1>4, QuietStepGood
<1>6. PICK y, z : /\ y \in SendQueuedControlMessages(x, c)
                  /\ z \in SendQueuedDataMessages(y, c)
                  /\ u \in UpdateState(z, c)
  <2>1. OnChannelReady(s, c)
          = UNION {UpdateState(r, c) :
                     r \in UNION {SendQueuedDataMessages(r, c) :
                                    r \in SendQueuedControlMessages(x, c)}}
    BY <1>1 DEF OnChannelReady
  <2> QED
    BY <2>1
<1>7. x.ch[c].state # "none"
  BY <1>3 DEF SameChannel
<1>8. Good(p, y) /\ Kept(x, y)
  BY <1>5, <1>6, <1>7, SendQueuedControlGood
<1>9. y.ch[c].state # "none"
  BY <1>7, <1>8 DEF Kept, ChannelKept
<1>10. Good(p, z) /\ Kept(y, z)
  BY <1>6, <1>8, <1>9, SendQueuedDataGood
<1>11. z.ch[c].state # "none"
  BY <1>9, <1>10 DEF Kept, ChannelKept
<1>12. Hand(x, a)
  BY <1>2, <1>3, ChannelSteady, NewOnWireReflexive, SteadyKeepsHand
<1>13. Hand(y, a)
  BY <1>5, <1>6, <1>12, SendQueuedControlHand
<1>14. Hand(z, a)
  BY <1>6, <1>8, <1>13, SendQueuedDataHand
<1> QED
  BY <1>6, <1>10, <1>11, <1>14, UpdateStateHand

LEMMA ReadyHand ==
  ASSUME NEW p \in Peers, NEW s, Good(p, s), config \in Configs,
         NEW u \in OnSctpTransportReadyToSendData(s), NEW a, Hand(s, a)
  PROVE  Hand(u, a)
<1>0. s \in PeerType
  BY DEF Good
<1>1. PICK x : x = [s EXCEPT !.sctp_ready = TRUE]
  OBVIOUS
<1>2. /\ x \in PeerType /\ x.t = s.t /\ x.used = s.used /\ x.ch = s.ch
  BY <1>0, <1>1 DEF PeerType
<1>3. Good(p, x) /\ Kept(s, x) /\ Hand(x, a)
  <2>1. Good(p, x) /\ Kept(s, x)
    BY <1>2 DEF Good, Owned, Reserved, Distinct, Kept, ChannelKept
  <2>2. Steady(s, x)
    BY <1>2, NewOnWireReflexive DEF Steady, SameHand
  <2> QED
    BY <2>1, <2>2, SteadyKeepsHand
<1>4. PICK f : /\ Run("ready", s, {[s EXCEPT !.sctp_ready = TRUE]},
                      MaxChannels, f)
               /\ OnSctpTransportReadyToSendData(s) = f[MaxChannels]
  BY ReadyResult
<1> DEFINE Fine(r) == Good(p, r) /\ Kept(s, r) /\ Hand(r, a)
           Bad == {c \in 0..MaxChannels : ~ \A r \in f[c] : Fine(r)}
<1>5. MaxChannels \in Nat /\ Bad \in SUBSET Nat
  BY BoundsAssumption
<1>6. Bad = {}
  <2> SUFFICES ASSUME Bad # {} PROVE FALSE
    OBVIOUS
  <2>1. PICK c \in Bad : \A k \in Bad : c <= k
    BY <1>5, LeastElement
  <2>2. c \in 0..MaxChannels /\ ~ \A r \in f[c] : Fine(r)
    OBVIOUS
  <2>3. PICK r \in f[c] : ~Fine(r)
    BY <2>2
  <2>4. CASE c = 0
    <3>1. f[c] = {x}
      BY <1>1, <1>4, <2>4, RunSteps
    <3> QED
      BY <1>3, <2>3, <3>1
  <2>5. CASE c # 0
    <3>1. c \in Chans /\ c - 1 \in 0..MaxChannels /\ ~(c <= c - 1)
      BY <1>5, <2>2, <2>5 DEF Chans
    <3>2. c - 1 \notin Bad
      BY <2>1, <3>1
    <3>3. \A y \in f[c - 1] : Fine(y)
      BY <3>1, <3>2
    <3>4. f[c] = ReadyTurn(s, c, f[c - 1])
      BY <1>4, <3>1, RunSteps DEF Turn
    <3>5. CASE c \notin Connected(s)
      <4>1. f[c] = f[c - 1]
        BY <3>4, <3>5 DEF ReadyTurn
      <4> QED
        BY <2>3, <3>3, <4>1
    <3>6. CASE c \in Connected(s)
      <4>1. PICK y \in f[c - 1] : r \in OnChannelReady(y, c)
        BY <2>3, <3>4, <3>6 DEF ReadyTurn
      <4>2. Good(p, y) /\ Kept(s, y) /\ Hand(y, a)
        BY <3>3
      <4>3. s.ch[c].state # "none"
        BY <3>1, <3>6 DEF Connected, Good, ChannelGood
      <4>4. y.ch[c].state # "none"
        BY <3>1, <4>2, <4>3 DEF Kept, ChannelKept
      <4>5. Good(p, r) /\ Kept(y, r)
        BY <3>1, <4>1, <4>2, <4>4, OnChannelReadyGood
      <4>6. Kept(s, r)
        BY <4>2, <4>5, KeptTransitive
      <4>7. Hand(r, a)
        BY <3>1, <4>1, <4>2, <4>4, OnChannelReadyHand
      <4> QED
        BY <2>3, <4>5, <4>6, <4>7
    <3> QED
      BY <3>5, <3>6
  <2> QED
    BY <2>4, <2>5
<1>7. \A r \in f[MaxChannels] : Fine(r)
  BY <1>5, <1>6
<1> QED
  BY <1>4, <1>7


-----------------------------------------------------------------------------
(* The session's operations on the channels of the opener. *)
LEMMA JoinSteady ==
  ASSUME NEW s \in PeerType, NEW c \in Chans,
         NEW r, r = OnTransportChannelCreated(s, c)
  PROVE  /\ Steady(s, r) /\ OnlyChannel(s, r, c) /\ r.used = s.used
         /\ r.ch[c].handshake = s.ch[c].handshake
         /\ r.ch[c].role = s.ch[c].role /\ r.ch[c].state = s.ch[c].state
         /\ r.ch[c].send = s.ch[c].send /\ r.t.wire = s.t.wire
<1>0. s.ch[c] \in ChannelType /\ s.t \in TransportType
  BY PeerTypes
<1>1. PICK b \in BOOLEAN : b = (s.ch[c].connected \/ TransportExists(s.t))
  OBVIOUS
<1>2. PICK u : u = IF TransportExists(s.t) /\ s.ch[c].id >= 0
                   THEN OpenStream(s.t, s.ch[c].id) ELSE s.t
  OBVIOUS
<1>3. TransportKept(s.t, u) /\ u.wire = s.t.wire
  <2>1. CASE TransportExists(s.t) /\ s.ch[c].id >= 0
    <3>1. s.ch[c].id \in Sids
      BY <1>0, <2>1, ChannelTypes DEF IdType
    <3> QED
      BY <1>0, <1>2, <2>1, <3>1, OpenStreamOutcome
  <2>2. CASE ~(TransportExists(s.t) /\ s.ch[c].id >= 0)
    BY <1>0, <1>2, <2>2 DEF TransportKept
  <2> QED
    BY <2>1, <2>2
<1>4. PICK y : y = [s EXCEPT !.ch[c].connected = b, !.t = u]
  OBVIOUS
<1>9. r = y
  BY <1>1, <1>2, <1>4 DEF OnTransportChannelCreated
<1>10. /\ y \in PeerType /\ OnlyChannel(s, y, c)
       /\ y.ch[c] = [s.ch[c] EXCEPT !.connected = b]
       /\ y.used = s.used /\ y.t = u
  BY <1>0, <1>3, <1>4 DEF PeerType, ChannelType, OnlyChannel, TransportKept
<1>5. /\ OnlyChannel(s, r, c) /\ r.ch[c] = [s.ch[c] EXCEPT !.connected = b]
      /\ r.used = s.used /\ r.t = u
  BY <1>9, <1>10
<1>6. /\ r.ch[c].handshake = s.ch[c].handshake
      /\ r.ch[c].role = s.ch[c].role /\ r.ch[c].state = s.ch[c].state
      /\ r.ch[c].send = s.ch[c].send /\ r.t.wire = s.t.wire
  BY <1>0, <1>3, <1>5 DEF ChannelType
<1>7. SameHand(s.ch[c], r.ch[c])
  BY <1>6 DEF SameHand
<1>8. Steady(s, r)
  BY <1>5, <1>6, <1>7, ChannelSteady, NewOnWireReflexive
<1> QED
  BY <1>5, <1>6, <1>8

LEMMA ConnectSteady ==
  ASSUME NEW p \in Peers, NEW s, Good(p, s), TransportExists(s.t)
  PROVE  Steady(s, ConnectChannels(s))
<1>1. PICK f : /\ Run("connect", s, s, MaxChannels, f)
               /\ ConnectChannels(s) = f[MaxChannels]
  BY ConnectResult
<1>2. /\ MaxChannels \in Nat /\ f[0] = s
      /\ \A c \in Chans : f[c] = Turn("connect", s, c, f[c - 1])
  BY <1>1, RunSteps
<1> DEFINE Fine(c) == /\ Good(p, f[c]) /\ ConnectedUpTo(s, f[c], c)
                      /\ Steady(s, f[c])
           Bad == {c \in 0..MaxChannels : ~Fine(c)}
<1>0. Bad \in SUBSET Nat
  BY <1>2
<1>3. Bad = {}
  <2> SUFFICES ASSUME Bad # {} PROVE FALSE
    OBVIOUS
  <2>1. PICK c \in Bad : \A k \in Bad : c <= k
    BY <1>0, LeastElement
  <2>2. CASE c = 0
    <3>1. \A d \in Chans : ~(d <= 0)
      BY <1>2 DEF Chans
    <3>2. ConnectedUpTo(s, s, 0)
      BY <3>1 DEF ConnectedUpTo
    <3> QED
      BY <1>2, <2>2, <3>2, SteadyReflexive
  <2>3. CASE c # 0
    <3>1. c \in Chans /\ c - 1 \in 0..MaxChannels /\ ~(c <= c - 1)
      BY <1>2, <2>3 DEF Chans
    <3>2. c - 1 \notin Bad
      BY <2>1, <3>1
    <3>3. /\ Good(p, f[c - 1]) /\ ConnectedUpTo(s, f[c - 1], c - 1)
          /\ Steady(s, f[c - 1])
      BY <3>1, <3>2
    <3>4. f[c] = ConnectTurn(s, c, f[c - 1])
      BY <1>2, <3>1 DEF Turn
    <3>5. Good(p, f[c]) /\ ConnectedUpTo(s, f[c], c)
      BY <3>1, <3>3, <3>4, ConnectTurnGood
    <3>6. f[c - 1] \in PeerType
      BY <3>3 DEF Good
    <3>7. f[c] = f[c - 1] \/ f[c] = OnTransportChannelCreated(f[c - 1], c)
      BY <3>4 DEF ConnectTurn
    <3>8. Steady(f[c - 1], f[c])
      BY <3>1, <3>6, <3>7, JoinSteady, SteadyReflexive
    <3>9. Steady(s, f[c])
      BY <3>3, <3>8, SteadyTransitive
    <3> QED
      BY <3>5, <3>9
  <2> QED
    BY <2>2, <2>3
<1>4. MaxChannels \in 0..MaxChannels
  BY <1>2
<1>5. Fine(MaxChannels)
  BY <1>3, <1>4
<1> QED
  BY <1>1, <1>5

LEMMA SetSidSteady ==
  ASSUME NEW s \in PeerType, NEW c \in Chans
  PROVE  Steady(s, SetSctpSid(s, c))
<1>1. CASE FreeSids(s) = {}
  BY <1>1, SteadyReflexive DEF SetSctpSid
<1>2. CASE FreeSids(s) # {}
  <2>0. s.ch[c] \in ChannelType /\ s.t \in TransportType
    BY PeerTypes
  <2>1. PICK S : S = FreeSids(s)
    OBVIOUS
  <2>2. S \in SUBSET Nat /\ S \subseteq Sids /\ S # {}
    BY <1>2, <2>1, SidsAssumption DEF FreeSids
  <2>3. PICK sid : sid = Min(S)
    OBVIOUS
  <2>4. sid \in Sids
    BY <2>2, <2>3, MinIsLeast
  <2>5. PICK u, v, r : /\ u = OpenStream(s.t, sid)
                       /\ v = s.used \cup {sid}
                       /\ r = [s EXCEPT !.used = v, !.ch[c].id = sid, !.t = u]
    OBVIOUS
  <2>6. SetSctpSid(s, c) = r
    BY <1>2, <2>1, <2>3, <2>5 DEF SetSctpSid
  <2>7. u.wire = s.t.wire
    BY <2>0, <2>4, <2>5, OpenStreamOutcome
  <2>8. /\ OnlyChannel(s, r, c) /\ r.ch[c] = [s.ch[c] EXCEPT !.id = sid]
        /\ r.t = u
    BY <2>0, <2>5 DEF PeerType, ChannelType, OnlyChannel
  <2>9. /\ r.ch[c].handshake = s.ch[c].handshake
        /\ r.ch[c].role = s.ch[c].role /\ r.ch[c].state = s.ch[c].state
        /\ r.ch[c].send = s.ch[c].send
    BY <2>0, <2>8 DEF ChannelType
  <2>10. SameHand(s.ch[c], r.ch[c])
    BY <2>9 DEF SameHand
  <2> QED
    BY <2>6, <2>7, <2>8, <2>10, ChannelSteady, NewOnWireReflexive
<1> QED
  BY <1>1, <1>2

LEMMA GiveSidsSteady ==
  ASSUME NEW p \in Peers, NEW s, Good(p, s), Linked(s), TransportExists(s.t)
  PROVE  Steady(s, GiveSids(s))
<1>1. PICK f : /\ Run("sid", s, s, MaxChannels, f)
               /\ GiveSids(s) = f[MaxChannels]
  BY SidResult
<1>2. /\ MaxChannels \in Nat /\ f[0] = s
      /\ \A c \in Chans : f[c] = Turn("sid", s, c, f[c - 1])
  BY <1>1, RunSteps
<1> DEFINE Fine(c) == /\ Good(p, f[c]) /\ SidsUpTo(s, f[c], c)
                      /\ Steady(s, f[c])
           Bad == {c \in 0..MaxChannels : ~Fine(c)}
<1>3. Bad \in SUBSET Nat
  BY <1>2
<1>4. Bad = {}
  <2> SUFFICES ASSUME Bad # {} PROVE FALSE
    OBVIOUS
  <2>1. PICK c \in Bad : \A k \in Bad : c <= k
    BY <1>3, LeastElement
  <2>2. CASE c = 0
    <3>1. SidsUpTo(s, s, 0)
      BY DEF SidsUpTo
    <3> QED
      BY <1>2, <2>2, <3>1, SteadyReflexive
  <2>3. CASE c # 0
    <3>1. c \in Chans /\ c - 1 \in 0..MaxChannels /\ ~(c <= c - 1)
      BY <1>2, <2>3 DEF Chans
    <3>2. c - 1 \notin Bad
      BY <2>1, <3>1
    <3>3. /\ Good(p, f[c - 1]) /\ SidsUpTo(s, f[c - 1], c - 1)
          /\ Steady(s, f[c - 1])
      BY <3>1, <3>2
    <3>4. f[c] = SidTurn(s, c, f[c - 1])
      BY <1>2, <3>1 DEF Turn
    <3>5. Good(p, f[c]) /\ SidsUpTo(s, f[c], c)
      BY <3>1, <3>3, <3>4, SidTurnGood
    <3>6. f[c - 1] \in PeerType
      BY <3>3 DEF Good
    <3>7. f[c] = f[c - 1] \/ f[c] = SetSctpSid(f[c - 1], c)
      BY <3>4 DEF SidTurn
    <3>8. Steady(f[c - 1], f[c])
      BY <3>1, <3>6, <3>7, SetSidSteady, SteadyReflexive
    <3>9. Steady(s, f[c])
      BY <3>3, <3>8, SteadyTransitive
    <3> QED
      BY <3>5, <3>9
  <2> QED
    BY <2>2, <2>3
<1>5. MaxChannels \in 0..MaxChannels
  BY <1>2
<1>6. Fine(MaxChannels)
  BY <1>4, <1>5
<1> QED
  BY <1>1, <1>6

(* Channels that were opened by the other peer have their sids already. *)
LEMMA GiveSidsIdle ==
  ASSUME NEW s, \A c \in Chans : s.ch[c].state # "none" => s.ch[c].id \in Sids
  PROVE  GiveSids(s) = s
<1>1. PICK f : /\ Run("sid", s, s, MaxChannels, f)
               /\ GiveSids(s) = f[MaxChannels]
  BY SidResult
<1>2. /\ MaxChannels \in Nat /\ f[0] = s
      /\ \A c \in Chans : f[c] = Turn("sid", s, c, f[c - 1])
  BY <1>1, RunSteps
<1> DEFINE Bad == {c \in 0..MaxChannels : f[c] # s}
<1>3. Bad \in SUBSET Nat
  BY <1>2
<1>4. Bad = {}
  <2> SUFFICES ASSUME Bad # {} PROVE FALSE
    OBVIOUS
  <2>1. PICK c \in Bad : \A k \in Bad : c <= k
    BY <1>3, LeastElement
  <2>2. CASE c = 0
    BY <1>2, <2>2
  <2>3. CASE c # 0
    <3>1. c \in Chans /\ c - 1 \in 0..MaxChannels /\ ~(c <= c - 1)
      BY <1>2, <2>3 DEF Chans
    <3>2. c - 1 \notin Bad
      BY <2>1, <3>1
    <3>3. f[c] = SidTurn(s, c, s)
      BY <1>2, <3>1, <3>2 DEF Turn
    <3>4. ~Live(s.ch[c]) \/ s.ch[c].id >= 0
      <4>1. CASE Live(s.ch[c])
        <5>1. s.ch[c].id \in Nat
          BY <3>1, <4>1, SidsAssumption DEF Live
        <5>2. PICK i \in Nat : i = s.ch[c].id
          BY <5>1
        <5>3. i >= 0
          OBVIOUS
        <5> QED
          BY <5>2, <5>3
      <4> QED
        BY <4>1
    <3> QED
      BY <3>3, <3>4 DEF SidTurn
  <2> QED
    BY <2>2, <2>3
<1>5. MaxChannels \in 0..MaxChannels
  BY <1>2
<1> QED
  BY <1>1, <1>4, <1>5


(* A new channel has yet to send its OPEN, and has nothing else to send. *)
Started(s, r, c, role, id) ==
  /\ OnlyChannel(s, r, c) /\ r.t.wire = s.t.wire
  /\ r.ch[c].state = "connecting" /\ r.ch[c].role = role
  /\ r.ch[c].send = <<>>
  /\ role = "opener" => r.ch[c].handshake = "ShouldSendOpen"
  /\ r.used = IF id < 0 THEN s.used ELSE s.used \cup {id}

LEMMA InitStarted ==
  ASSUME NEW p \in Peers, NEW s, NEW c \in Chans, NEW role, NEW id, Good(p, s),
         MayTake(p, s, c, role, id)
  PROVE  Started(s, InitChannel(s, c, role, id), c, role, id)
<1>0. /\ s \in PeerType /\ s.ch[c] \in ChannelType /\ ChannelGood(p, s.ch[c])
      /\ s.sctp_ready \in BOOLEAN
  BY PeerTypes DEF Good
<1>1. PICK h \in Handshakes : h = CASE role = "none" -> "Ready"
                                    [] role = "opener" -> "ShouldSendOpen"
                                    [] role = "acker" -> "ShouldSendAck"
  BY DEF Handshakes, MayTake
<1>2. PICK a, e, b, w, x : /\ a = s.ch[c].accepted /\ e = s.ch[c].delivered
                           /\ b = s.ch[c].shut /\ w = s.sctp_ready
                           /\ x = <<>>
  OBVIOUS
<1>3. /\ a \in Nat /\ e \in Seq(Chans \X Nat) /\ b \in BOOLEAN /\ w \in BOOLEAN
      /\ x \in Seq(Nat) /\ x \in Seq(Chans \X Nat) /\ Len(x) = 0
      /\ a <= MaxMessages[p]
  BY <1>0, <1>2, ChannelTypes, EmptySeq DEF ChannelGood
<1>16. PICK z : z = NoChannel
  OBVIOUS
<1>17. /\ z \in ChannelType
       /\ z.send = x /\ z.received = x /\ z.messages_sent = 0
  BY <1>2, <1>16, NoChannelType DEF NoChannel
<1>4. PICK ch : ch = [z EXCEPT !.state = "connecting", !.role = role,
                               !.handshake = h, !.id = id, !.readymsg = w,
                               !.accepted = a, !.first = a, !.delivered = e,
                               !.shut = b]
  OBVIOUS
<1>5. ch \in ChannelType
  BY <1>3, <1>4, <1>17, ZenonT(60) DEF ChannelType, States, MayTake
<1>6. /\ ch.state = "connecting" /\ ch.id = id /\ ch.role = role
      /\ ch.send = x /\ ch.received = x /\ ch.accepted = a /\ ch.first = a
      /\ ch.messages_sent = 0 /\ ch.handshake = h
  BY <1>4, <1>17 DEF ChannelType
<1>7. Unsent(ch) = 0
  <2>1. Len(ch.send) = 0
    BY <1>3, <1>6
  <2>2. a - a - 0 - 0 = 0
    BY <1>3
  <2> QED
    BY <1>6, <2>1, <2>2 DEF Unsent
<1>8. ChannelGood(p, ch)
  BY <1>3, <1>6, <1>7, BoundsAssumption DEF ChannelGood, MayTake
<1>9. PICK y : y = NewObject(s, c, ch, id)
  OBVIOUS
<1>10. InitChannel(s, c, role, id) = OnTransportChannelCreated(y, c)
  <2> DEFINE new == [NoChannel EXCEPT !.state = "connecting", !.role = role,
                                      !.handshake = h, !.id = id,
                                      !.readymsg = w, !.accepted = a,
                                      !.first = a, !.delivered = e,
                                      !.shut = b]
  <2>1. ch = new
    BY <1>4, <1>16
  <2>2. InitChannel(s, c, role, id)
          = OnTransportChannelCreated(NewObject(s, c, new, id), c)
    BY <1>1, <1>2 DEF InitChannel, NewObject
  <2> QED
    BY <1>9, <2>1, <2>2
<1>11. Good(p, y) /\ OnlyChannel(s, y, c) /\ y.ch[c] = ch /\ y.t = s.t
  BY <1>5, <1>6, <1>8, <1>9, NewObjectGood
<1>12. y \in PeerType
  BY <1>11 DEF Good
<1>18. PICK v : v = IF id < 0 THEN s.used ELSE s.used \cup {id}
  OBVIOUS
<1>19. y.used = v
  <2>1. y = [s EXCEPT !.ch[c] = ch, !.used = v]
    BY <1>9, <1>18 DEF NewObject
  <2> QED
    BY <1>0, <2>1 DEF PeerType
<1>13. PICK r : r = OnTransportChannelCreated(y, c)
  OBVIOUS
<1>14. /\ Steady(y, r) /\ OnlyChannel(y, r, c) /\ r.used = y.used
       /\ r.ch[c].handshake = y.ch[c].handshake
       /\ r.ch[c].role = y.ch[c].role /\ r.ch[c].state = y.ch[c].state
       /\ r.ch[c].send = y.ch[c].send /\ r.t.wire = y.t.wire
  BY <1>12, <1>13, JoinSteady
<1>15. role = "opener" => h = "ShouldSendOpen"
  BY <1>1
<1>20. OnlyChannel(s, r, c)
  BY <1>11, <1>14 DEF OnlyChannel
<1>21. Started(s, r, c, role, id)
  BY <1>2, <1>6, <1>11, <1>14, <1>15, <1>18, <1>19, <1>20 DEF Started
<1> QED
  BY <1>10, <1>13, <1>21

LEMMA InitHand ==
  ASSUME NEW s, NEW r, NEW c \in Chans, NEW id, Started(s, r, c, "opener", id),
         NEW a, Hand(s, a)
  PROVE  Hand(r, a)
<1>1. NewOnWire(s.t, r.t, NoData)
  BY NewOnWireReflexive DEF Started
<1>2. ASSUME NEW d \in Chans
      PROVE  ChannelHand(r, a, d)
  <2>1. CASE d = c
    BY <2>1 DEF Started, ChannelHand
  <2>2. CASE d # c
    <3>1. r.ch[d] = s.ch[d]
      BY <2>2 DEF Started, OnlyChannel
    <3>2. ChannelHand(s, a, d)
      BY DEF Hand
    <3>3. OpenOnWire(s.t, d) => OpenOnWire(r.t, d)
      BY <1>1, OpenStays
    <3> QED
      BY <3>1, <3>2, <3>3 DEF ChannelHand
  <2> QED
    BY <2>1, <2>2
<1>3. ASSUME NEW i \in DOMAIN r.t.wire
      PROVE  ChunkHand(r, a, i)
  <2>1. i \in DOMAIN s.t.wire
    BY DEF Started
  <2> QED
    BY <1>1, <2>1, OldChunkHand DEF Hand
<1> QED
  BY <1>2, <1>3 DEF Hand

(* The first message that comes back ends the handshake. *)
Answered(x, y) ==
  /\ \/ y.handshake = x.handshake
     \/ x.handshake = "WaitingForAck" /\ y.handshake = "Ready"
  /\ y.role = x.role /\ y.state = x.state /\ y.send = x.send

LEMMA AnsweredHand ==
  ASSUME NEW s, NEW r, NEW c \in Chans, OnlyChannel(s, r, c), r.t = s.t,
         Answered(s.ch[c], r.ch[c]), NEW a, a.ch[c].state # "none", Hand(s, a)
  PROVE  Hand(r, a)
<1>1. NewOnWire(s.t, r.t, NoData)
  BY NewOnWireReflexive
<1>2. ASSUME NEW d \in Chans
      PROVE  ChannelHand(r, a, d)
  <2>1. ChannelHand(s, a, d)
    BY DEF Hand
  <2>2. CASE d = c
    BY <2>1, <2>2 DEF Answered, ChannelHand, Begun, Fresh
  <2>3. CASE d # c
    <3>1. r.ch[d] = s.ch[d]
      BY <2>3 DEF OnlyChannel
    <3> QED
      BY <2>1, <3>1 DEF ChannelHand
  <2> QED
    BY <2>2, <2>3
<1>3. ASSUME NEW i \in DOMAIN r.t.wire
      PROVE  ChunkHand(r, a, i)
  BY <1>1, OldChunkHand DEF Hand
<1> QED
  BY <1>2, <1>3 DEF Hand

LEMMA OnDataReceivedHand ==
  ASSUME NEW p \in Peers, NEW s, NEW c \in Chans, Good(p, s),
         s.ch[c].state # "none", NEW m \in MessageType, m.kind # "open",
         NEW u \in OnDataReceived(s, c, m),
         NEW o, o.ch[c].state # "none", Hand(s, o)
  PROVE  Hand(u, o)
<1>0. s \in PeerType /\ s.ch[c] \in ChannelType /\ ChannelGood(p, s.ch[c])
  BY PeerTypes DEF Good
<1>1. PICK h \in Handshakes :
        h = IF s.ch[c].handshake = "WaitingForAck" THEN "Ready"
            ELSE s.ch[c].handshake
  BY <1>0, ChannelTypes DEF Handshakes
<1>2. PICK x : x = [s EXCEPT !.ch[c].handshake = h]
  OBVIOUS
<1>3. /\ x \in PeerType /\ OnlyChannel(s, x, c)
      /\ x.ch[c] = [s.ch[c] EXCEPT !.handshake = h]
      /\ x.used = s.used /\ x.t = s.t
  BY <1>0, <1>2 DEF PeerType, ChannelType, OnlyChannel
<1>4. /\ x.ch[c].handshake = h /\ x.ch[c].state = s.ch[c].state
      /\ x.ch[c].role = s.ch[c].role /\ x.ch[c].send = s.ch[c].send
      /\ x.ch[c].id = s.ch[c].id
  BY <1>0, <1>3 DEF ChannelType
<1>5. Answered(s.ch[c], x.ch[c])
  BY <1>1, <1>4 DEF Answered
<1>6. Hand(x, o)
  BY <1>3, <1>5, AnsweredHand
<1>7. x.ch[c] \in ChannelType
  BY <1>3, PeerTypes
<1>8. x.ch[c].received = s.ch[c].received
      /\ x.ch[c].delivered = s.ch[c].delivered
  BY <1>0, <1>3 DEF ChannelType
<1>9. CASE m.kind = "ack"
  <2>1. u = x
    BY <1>1, <1>2, <1>9 DEF OnDataReceived
  <2> QED
    BY <1>6, <2>1
<1>10. CASE m.kind = "data"
  <2>1. PICK d \in Chans \X Nat : d = <<m.label, m.number>>
    BY <1>10 DEF MessageType
  <2>2. PICK a, b, l, k, e : /\ a = s.ch[c].delivered /\ b = s.ch[c].received
                             /\ l = Append(a, d) /\ k = Append(b, d) /\ e = <<>>
    OBVIOUS
  <2>3. a \in Seq(Chans \X Nat) /\ b \in Seq(Chans \X Nat)
    BY <1>0, <2>2, ChannelTypes
  <2>4. /\ l \in Seq(Chans \X Nat) /\ k \in Seq(Chans \X Nat)
        /\ e \in Seq(Chans \X Nat)
    BY <2>1, <2>2, <2>3, AppendProperties, EmptySeq
  <2> DEFINE X == [s EXCEPT !.ch[c].handshake =
                              IF @ = "WaitingForAck" THEN "Ready" ELSE @]
             D == <<m.label, m.number>>
  <2>7. \/ u = [X EXCEPT !.ch[c].delivered = Append(@, D)]
        \/ u \in Close([X EXCEPT !.ch[c].received = <<>>], c)
        \/ u = [X EXCEPT !.ch[c].received = Append(@, D)]
    BY <1>10 DEF OnDataReceived
  <2>8. X = x /\ D = d
    BY <1>1, <1>2, <2>1
  <2> HIDE DEF X, D
  <2>9. \/ u = [x EXCEPT !.ch[c].delivered = l]
        \/ u \in Close([x EXCEPT !.ch[c].received = e], c)
        \/ u = [x EXCEPT !.ch[c].received = k]
    BY <1>8, <2>2, <2>7, <2>8
  <2>10. ASSUME NEW y, NEW j \in Seq(Chans \X Nat),
                \/ y = [x EXCEPT !.ch[c].received = j]
                \/ y = [x EXCEPT !.ch[c].delivered = j]
         PROVE  /\ y \in PeerType /\ Steady(x, y) /\ y.t = x.t
                /\ \A d1 \in Chans : y.ch[d1].id = s.ch[d1].id
    <3>1. /\ y \in PeerType /\ OnlyChannel(x, y, c) /\ y.t = x.t
          /\ \/ y.ch[c] = [x.ch[c] EXCEPT !.received = j]
             \/ y.ch[c] = [x.ch[c] EXCEPT !.delivered = j]
      <4>1. CASE y = [x EXCEPT !.ch[c].received = j]
        BY <1>3, <1>7, <4>1 DEF PeerType, ChannelType, OnlyChannel
      <4>2. CASE y = [x EXCEPT !.ch[c].delivered = j]
        BY <1>3, <1>7, <4>2 DEF PeerType, ChannelType, OnlyChannel
      <4> QED
        BY <2>10, <4>1, <4>2
    <3>2. PICK g, z : g = x.ch[c] /\ z = y.ch[c]
      OBVIOUS
    <3>3. /\ z.state = g.state /\ z.id = g.id /\ z.role = g.role
          /\ z.send = g.send /\ z.handshake = g.handshake
      <4>1. /\ g \in ChannelType
            /\ \/ z = [g EXCEPT !.received = j]
               \/ z = [g EXCEPT !.delivered = j]
        BY <1>7, <3>1, <3>2
      <4> QED
        BY <4>1 DEF ChannelType
    <3>4. SameHand(x.ch[c], y.ch[c])
      BY <3>2, <3>3 DEF SameHand
    <3>5. Steady(x, y)
      BY <3>1, <3>4, ChannelSteady, NewOnWireReflexive
    <3>6. \A d1 \in Chans : y.ch[d1].id = s.ch[d1].id
      BY <1>3, <1>4, <3>1, <3>2, <3>3, ZenonT(60) DEF OnlyChannel
    <3> QED
      BY <3>1, <3>5, <3>6
  <2>11. CASE \/ u = [x EXCEPT !.ch[c].delivered = l]
              \/ u = [x EXCEPT !.ch[c].received = k]
    <3>1. Steady(x, u)
      BY <2>4, <2>10, <2>11
    <3> QED
      BY <1>6, <3>1, SteadyKeepsHand
  <2>12. CASE u \in Close([x EXCEPT !.ch[c].received = e], c)
    <3>1. PICK y : y = [x EXCEPT !.ch[c].received = e]
      OBVIOUS
    <3>2. /\ y \in PeerType /\ Steady(x, y) /\ y.t = x.t
          /\ \A d1 \in Chans : y.ch[d1].id = s.ch[d1].id
      BY <2>4, <2>10, <3>1
    <3>3. s.t.wire \in Seq(ChunkType) /\ WireGood(p, s.ch, s.t.wire)
      BY <1>0, PeerTypes, TransportTypes DEF Good
    <3>4. WireGood(p, y.ch, y.t.wire)
      BY <1>0, <1>3, <3>2, <3>3, WireOfSameIds
    <3>5. u \in Close(y, c)
      BY <2>12, <3>1
    <3>6. Steady(y, u)
      BY <3>2, <3>4, <3>5, CloseSteady
    <3> QED
      BY <1>6, <3>2, <3>6, SteadyKeepsHand
  <2> QED
    BY <2>9, <2>11, <2>12
<1> QED
  BY <1>9, <1>10 DEF MessageType


(* Send on an open channel, whose OPEN is therefore sent already. *)
LEMMA QueueSteady ==
  ASSUME NEW p, NEW s \in PeerType, NEW c \in Chans, NEW m \in Nat,
         WireGood(p, s.ch, s.t.wire), s.ch[c].state = "open",
         NEW r \in QueueSendDataMessage(s, c, m)
  PROVE  Steady(s, r)
<1>0. s.ch[c] \in ChannelType
  BY PeerTypes
<1>1. CASE r \in Close(s, c)
  BY <1>1, CloseSteady
<1>2. CASE r = [s EXCEPT !.ch[c].send = Append(@, m)]
  <2>1. PICK q, l : q = s.ch[c].send /\ l = Append(q, m)
    OBVIOUS
  <2>2. r = [s EXCEPT !.ch[c].send = l]
    BY <1>2, <2>1
  <2>3. /\ OnlyChannel(s, r, c) /\ r.t = s.t
        /\ r.ch[c] = [s.ch[c] EXCEPT !.send = l]
    BY <1>0, <2>2 DEF PeerType, ChannelType, OnlyChannel
  <2>4. /\ r.ch[c].handshake = s.ch[c].handshake
        /\ r.ch[c].role = s.ch[c].role
    BY <1>0, <2>3 DEF ChannelType
  <2>5. SameHand(s.ch[c], r.ch[c])
    BY <2>4 DEF SameHand
  <2> QED
    BY <2>3, <2>5, ChannelSteady, NewOnWireReflexive
<1> QED
  BY <1>1, <1>2 DEF QueueSendDataMessage

LEMMA SendHand ==
  ASSUME Inv, NEW p \in Peers, NEW c \in Chans, Send(p, c), NEW a,
         Hand(peer[p], a)
  PROVE  Hand(peer'[p], a)
<1>1. PICK s : s = peer[p]
  OBVIOUS
<1>2. /\ Good(p, s) /\ s \in PeerType /\ s.ch[c] \in ChannelType
      /\ s.t \in TransportType /\ s.t.wire \in Seq(ChunkType)
      /\ WireGood(p, s.ch, s.t.wire) /\ config \in Configs /\ DOMAIN peer = Peers
  BY <1>1, InvOf, PeerTypes, TransportTypes DEF Good, Inv
<1>3. PICK k \in Nat : k = s.ch[c].accepted + 1
  BY <1>2, ChannelTypes
<1>4. PICK x : x = [s EXCEPT !.ch[c].accepted = k]
  OBVIOUS
<1>5. /\ x \in PeerType /\ OnlyChannel(s, x, c)
      /\ x.ch[c] = [s.ch[c] EXCEPT !.accepted = k]
      /\ x.used = s.used /\ x.t = s.t
  BY <1>2, <1>4 DEF PeerType, ChannelType, OnlyChannel
<1>6. /\ x.ch[c].handshake = s.ch[c].handshake /\ x.ch[c].role = s.ch[c].role
      /\ x.ch[c].state = s.ch[c].state /\ x.ch[c].send = s.ch[c].send
      /\ x.ch[c].id = s.ch[c].id
  BY <1>2, <1>5 DEF ChannelType
<1>7. Hand(x, a)
  <2>1. SameHand(s.ch[c], x.ch[c])
    BY <1>6 DEF SameHand
  <2>2. Steady(s, x)
    BY <1>5, <2>1, ChannelSteady, NewOnWireReflexive
  <2> QED
    BY <1>1, <2>2, SteadyKeepsHand
<1>8. WireGood(p, x.ch, x.t.wire)
  <2>1. \A d \in Chans : x.ch[d].id = s.ch[d].id
    BY <1>5, <1>6 DEF OnlyChannel
  <2> QED
    BY <1>2, <1>5, <2>1, WireOfSameIds
<1> DEFINE Out(r) == CASE r.res = "ok" ->
                            {[[x EXCEPT !.t = r.t]
                               EXCEPT !.ch[c].messages_sent = @ + 1]}
                       [] r.res = "block" ->
                            QueueSendDataMessage([x EXCEPT !.t = r.t], c, k)
                       [] r.res = "error" -> Close([x EXCEPT !.t = r.t], c)
           Outs == UNION {Out(r) : r \in SendData(x.t, <<DataMessage(x, c, k)>>)}
<1>9. /\ x.ch[c].state = "open"
      /\ Become(p, IF x.ch[c].send # <<>> THEN QueueSendDataMessage(x, c, k)
                   ELSE Outs)
  BY <1>1, <1>3, <1>4 DEF Send
<1> HIDE DEF Outs
<1>10. PICK r : /\ peer' = [peer EXCEPT ![p] = r]
                /\ r \in QueueSendDataMessage(x, c, k) \/ r \in Outs
  BY <1>9 DEF Become
<1>11. peer'[p] = r
  BY <1>2, <1>10
<1>12. CASE r \in QueueSendDataMessage(x, c, k)
  <2>1. Steady(x, r)
    BY <1>5, <1>8, <1>9, <1>12, QueueSteady
  <2> QED
    BY <1>7, <1>11, <2>1, SteadyKeepsHand
<1>13. CASE r \in Outs
  <2>1. PICK ms : ms = <<DataMessage(x, c, k)>>
    OBVIOUS
  <2>2. PICK o \in SendData(x.t, ms) : r \in Out(o)
    BY <1>13, <2>1 DEF Outs
  <2>3. PICK m : m = DataMessage(x, c, k)
    OBVIOUS
  <2>4. m \in MessageType
    BY <1>2, <1>5, <2>3, MessageTypes
  <2>5. ms = <<m>> /\ ms \in Seq(MessageType) /\ \A i \in DOMAIN ms : ms[i] = m
    <3>1. ms = <<m>>
      BY <2>1, <2>3
    <3> QED
      BY <2>4, <3>1
  <2>6. SendOutcome(x.t, ms, o)
    BY <1>2, <1>5, <2>5, SendDataOutcome
  <2>7. PICK S : S = {e \in MessageType : /\ e.sid \in Sids
                                          /\ \E i \in DOMAIN ms : e = ms[i]}
    OBVIOUS
  <2>8. /\ o.res \in {"ok", "block", "error"} /\ o.t \in TransportType
        /\ NewOnWire(x.t, o.t, S)
    BY <2>6, <2>7 DEF SendOutcome, TransportKept
  <2>9. \A e \in S : e = m /\ e.sid \in Sids
    BY <2>5, <2>7
  <2>10. PICK y : y = [x EXCEPT !.t = o.t]
    OBVIOUS
  <2>11. y \in PeerType /\ y.ch = x.ch /\ y.t = o.t
    BY <1>5, <2>8, <2>10 DEF PeerType
  <2>12. Hand(y, a)
    <3>1. ChannelHand(x, a, c)
      BY <1>7 DEF Hand
    <3>2. Begun(x.ch[c])
      BY <1>9, <3>1 DEF ChannelHand
    <3>3. Behind(x.ch[c], c, m)
      BY <1>2, <2>3, <3>2, DataMessageBehind
    <3>4. \A e \in S : Behind(x.ch[c], c, e)
      BY <2>9, <3>3
    <3>5. OnlyChannel(x, y, c) /\ SameHand(x.ch[c], y.ch[c])
      BY <2>11 DEF OnlyChannel, SameHand
    <3>6. NewOnWire(x.t, y.t, S)
      BY <2>8, <2>11
    <3> QED
      BY <1>7, <3>4, <3>5, <3>6, DataGoesBehind
  <2>13. WireGood(p, y.ch, y.t.wire)
    <3>1. ms \in Seq(MessageType) /\ o \in SendData(x.t, ms)
      BY <2>2, <2>5
    <3>2. \A e \in S : IsMessage(e) => MessageGood(p, x.ch, e)
      <4>1. m.sid = x.ch[c].id /\ m.label = c /\ m.kind = "data"
        BY <2>3 DEF DataMessage
      <4> QED
        BY <2>9, <4>1 DEF MessageGood
    <3>3. WireGood(p, x.ch, o.t.wire)
      BY <1>8, <2>8, <3>2, WireGrows
    <3> QED
      BY <2>11, <3>3
  <2>14. y.ch[c].state = "open" /\ y.ch[c] \in ChannelType
    BY <1>9, <2>11, PeerTypes
  <2>15. \/ r = [y EXCEPT !.ch[c].messages_sent = @ + 1]
         \/ r \in QueueSendDataMessage(y, c, k)
         \/ r \in Close(y, c)
    BY <2>2, <2>8, <2>10
  <2> HIDE DEF Out
  <2>16. Steady(y, r)
    <3>1. CASE r = [y EXCEPT !.ch[c].messages_sent = @ + 1]
      <4>1. PICK i : i = y.ch[c].messages_sent + 1
        OBVIOUS
      <4>2. r = [y EXCEPT !.ch[c].messages_sent = i]
        BY <3>1, <4>1
      <4>3. /\ OnlyChannel(y, r, c) /\ r.t = y.t
            /\ r.ch[c] = [y.ch[c] EXCEPT !.messages_sent = i]
        BY <2>11, <2>14, <4>2 DEF PeerType, ChannelType, OnlyChannel
      <4>4. /\ r.ch[c].handshake = y.ch[c].handshake
            /\ r.ch[c].role = y.ch[c].role
        BY <2>14, <4>3 DEF ChannelType
      <4>5. SameHand(y.ch[c], r.ch[c])
        BY <2>14, <4>4 DEF SameHand
      <4> QED
        BY <4>3, <4>5, ChannelSteady, NewOnWireReflexive
    <3>2. CASE r \in QueueSendDataMessage(y, c, k)
      BY <2>11, <2>13, <2>14, <3>2, QueueSteady
    <3>3. CASE r \in Close(y, c)
      BY <2>11, <2>13, <3>3, CloseSteady
    <3> QED
      BY <2>15, <3>1, <3>2, <3>3
  <2> QED
    BY <1>11, <2>12, <2>16, SteadyKeepsHand
<1> QED
  BY <1>10, <1>12, <1>13

-----------------------------------------------------------------------------
(* The other peer.  Its steps keep the channels it made, and what it has   *)
(* posted, but for a message it takes off the front or adds at the end.    *)
OpenFirst(a) ==
  \A i \in DOMAIN a.t.posted :
    LET e == a.t.posted[i]
    IN  e.ev = "message" /\ e.m.kind = "data" =>
          \/ a.ch[e.m.label].state # "none"
          \/ \E j \in DOMAIN a.t.posted :
               j < i /\ OpenEvent(a.t.posted[j], e.m.label)

(* A sid is only reserved for a channel. *)
Used(a) == \A i \in a.used : \E c \in Chans : a.ch[c].id = i

(* What b has heard of the handshakes is at least what a has. *)
Hears(a, b) ==
  \A c \in Chans :
    /\ a.ch[c].state # "none" => b.ch[c].state # "none"
    /\ Fresh(b, c) => Fresh(a, c) /\ (OpenPosted(a, c) => OpenPosted(b, c))

Calm(a, b) ==
  /\ \A c \in Chans : a.ch[c].state # "none" => b.ch[c].state # "none"
  /\ a.t.phase = "destroyed" => b.t.phase = "destroyed"
  /\ PostsNoMessage(a.t, b.t) \/ (b.t.posted = <<>> /\ b.t.phase = "destroyed")

Opening(o, a) ==
  /\ o.t.phase # "destroyed" => Hand(o, a)
  /\ Used(a)
  /\ OpenFirst(a)

LEMMA HearsHand ==
  ASSUME NEW o, NEW a, NEW b, Hears(a, b), Hand(o, a), o.t.wire \in Seq(ChunkType)
  PROVE  Hand(o, b)
<1>1. ASSUME NEW c \in Chans
      PROVE  ChannelHand(o, b, c)
  BY DEF Hears, Hand, ChannelHand
<1>2. ASSUME NEW i \in DOMAIN o.t.wire
      PROVE  ChunkHand(o, b, i)
  <2>1. PICK m : m = o.t.wire[i]
    OBVIOUS
  <2>2. m \in ChunkType
    BY <2>1, ElementOfSeq
  <2>3. m.kind = "data" => m.label \in Chans
    BY <2>2 DEF ChunkType, MessageType, ResetType
  <2>4. ChunkHand(o, a, i)
    BY DEF Hand
  <2> QED
    BY <2>1, <2>3, <2>4 DEF ChunkHand, Hears
<1> QED
  BY <1>1, <1>2 DEF Hand

LEMMA CalmHears ==
  ASSUME NEW a, NEW b, Calm(a, b)
  PROVE  Hears(a, b)
BY DEF Calm, Hears, Fresh, OpenPosted, PostsNoMessage

LEMMA CalmOpenFirst ==
  ASSUME NEW a, NEW b \in PeerType, Calm(a, b), OpenFirst(a)
  PROVE  OpenFirst(b)
<1> SUFFICES ASSUME NEW i \in DOMAIN b.t.posted, NEW e, e = b.t.posted[i],
                    e.ev = "message", e.m.kind = "data"
             PROVE  \/ b.ch[e.m.label].state # "none"
                    \/ \E j \in DOMAIN b.t.posted :
                         j < i /\ OpenEvent(b.t.posted[j], e.m.label)
  BY DEF OpenFirst
<1>1. b.t.posted # <<>>
  OBVIOUS
<1>2. PostsNoMessage(a.t, b.t)
  BY <1>1 DEF Calm
<1>3. i \in DOMAIN a.t.posted /\ a.t.posted[i] = e
  BY <1>2 DEF PostsNoMessage
<1>4. e.m.label \in Chans
  <2>1. e.m \in MessageType
    BY PostedMessageType
  <2> QED
    BY <2>1 DEF MessageType
<1>5. \/ a.ch[e.m.label].state # "none"
      \/ \E j \in DOMAIN a.t.posted :
           j < i /\ OpenEvent(a.t.posted[j], e.m.label)
  BY <1>3 DEF OpenFirst
<1> QED
  BY <1>2, <1>4, <1>5 DEF Calm, PostsNoMessage


-----------------------------------------------------------------------------
(* The peer that answers the OPENs, and the invariant of both. *)
Answerer == Other(Opener)
Handshaken == Opening(peer[Opener], peer[Answerer])

LEMMA AnswererIsOther ==
  /\ Opener \in Peers /\ Answerer \in Peers /\ Answerer # Opener
  /\ Peers = {Opener, Answerer}
BY PeersAssumption, OtherPeer DEF Answerer

LEMMA OpenerOpening ==
  ASSUME Inv, Handshaken, NEW r, peer' = [peer EXCEPT ![Opener] = r],
         r.t.phase # "destroyed" =>
           /\ peer[Opener].t.phase # "destroyed"
           /\ Hand(peer[Opener], peer[Answerer]) => Hand(r, peer[Answerer])
  PROVE  Opening(peer'[Opener], peer'[Answerer])
<1>1. peer'[Opener] = r /\ peer'[Answerer] = peer[Answerer]
  BY AnswererIsOther DEF Inv
<1> QED
  BY <1>1 DEF Handshaken, Opening

LEMMA AnswererOpening ==
  ASSUME Inv, Handshaken, NEW r \in PeerType,
         peer' = [peer EXCEPT ![Answerer] = r],
         Calm(peer[Answerer], r), Used(r)
  PROVE  Opening(peer'[Opener], peer'[Answerer])
<1>1. peer'[Opener] = peer[Opener] /\ peer'[Answerer] = r
  BY AnswererIsOther DEF Inv
<1>2. peer[Opener].t.wire \in Seq(ChunkType)
  BY AnswererIsOther, InvOf, PeerTypes, TransportTypes
<1>3. Hears(peer[Answerer], r)
  BY CalmHears
<1>4. OpenFirst(r)
  BY CalmOpenFirst DEF Handshaken, Opening
<1>5. Hand(peer[Opener], peer[Answerer]) => Hand(peer[Opener], r)
  BY <1>2, <1>3, HearsHand
<1> QED
  BY <1>1, <1>4, <1>5 DEF Handshaken, Opening

LEMMA UsedStays ==
  ASSUME NEW s, NEW r, Used(s), r.used \subseteq s.used,
         \A c \in Chans : r.ch[c].id = s.ch[c].id
  PROVE  Used(r)
BY DEF Used

LEMMA PostsTheSame ==
  ASSUME NEW t, NEW u, u.posted = t.posted
  PROVE  PostsNoMessage(t, u)
BY DEF PostsNoMessage

LEMMA KeptCalm ==
  ASSUME NEW s, NEW r, Kept(s, r)
  PROVE  Calm(s, r) /\ (Used(s) => Used(r))
<1>1. PostsNoMessage(s.t, r.t)
  BY PostsTheSame DEF Kept
<1>2. Calm(s, r)
  BY <1>1 DEF Kept, ChannelKept, Calm
<1>3. Used(s) => Used(r)
  BY UsedStays DEF Kept, ChannelKept
<1> QED
  BY <1>2, <1>3

(* A handler of either peer that keeps Good and Kept. *)
LEMMA KeptOpening ==
  ASSUME Inv, Handshaken, NEW p \in Peers, NEW r,
         peer' = [peer EXCEPT ![p] = r], Good(p, r), Kept(peer[p], r),
         p = Opener /\ Hand(peer[p], peer[Answerer]) => Hand(r, peer[Answerer])
  PROVE  Opening(peer'[Opener], peer'[Answerer])
<1>1. CASE p = Opener
  <2>1. r.t.phase = peer[p].t.phase
    BY DEF Kept
  <2> QED
    BY <1>1, <2>1, OpenerOpening
<1>2. CASE p = Answerer
  <2>1. r \in PeerType
    BY DEF Good
  <2>2. Used(peer[Answerer])
    BY DEF Handshaken, Opening
  <2>3. Calm(peer[p], r) /\ (Used(peer[p]) => Used(r))
    BY KeptCalm
  <2> QED
    BY <1>2, <2>1, <2>2, <2>3, AnswererOpening
<1> QED
  BY <1>1, <1>2, AnswererIsOther

-----------------------------------------------------------------------------
(* The actions. *)
LEMMA CreateDataChannelOpening ==
  ASSUME Inv, Handshaken, ~config.negotiated, NEW p \in Peers, NEW c \in Chans,
         CreateDataChannel(p, c)
  PROVE  Opening(peer'[Opener], peer'[Answerer])
<1>1. PICK s : s = peer[p]
  OBVIOUS
<1>2. Good(p, s)
  BY <1>1, InvOf
<1>3. s.ch[c].state = "none" /\ s.t.phase # "destroyed"
  BY <1>1 DEF CreateDataChannel
<1>4. ~Live(s.ch[c]) /\ s.ch[c].id \notin Sids
  <2>1. s.ch[c].id = -1
    BY <1>2, <1>3 DEF Good, ChannelGood
  <2> QED
    BY <1>3, <2>1, SidsAssumption DEF Live
<1>5. PICK id :
        /\ \/ id = -1
           \/ FreeSids(s) # {} /\ id = Min(FreeSids(s))
        /\ p = Opener
        /\ Become(p, {InitChannel(s, c, "opener", id)})
  BY <1>1 DEF CreateDataChannel
<1>6. id = -1 \/ id \in Sids \ s.used
  <2>1. PICK S : S = FreeSids(s)
    OBVIOUS
  <2>2. S \in SUBSET Nat /\ S \subseteq Sids \ s.used
    BY <2>1, SidsAssumption DEF FreeSids
  <2>3. S # {} => Min(S) \in S
    BY <2>2, MinIsLeast
  <2> QED
    BY <1>5, <2>1, <2>2, <2>3
<1>7. MayTake(p, s, c, "opener", id)
  BY <1>4, <1>5, <1>6, SidsAssumption DEF MayTake, IdType
<1>8. PICK r : r = InitChannel(s, c, "opener", id)
  OBVIOUS
<1>9. peer' = [peer EXCEPT ![Opener] = r]
  BY <1>5, <1>8 DEF Become
<1>10. Started(s, r, c, "opener", id)
  BY <1>2, <1>7, <1>8, InitStarted
<1>11. Hand(s, peer[Answerer]) => Hand(r, peer[Answerer])
  BY <1>10, InitHand
<1> QED
  BY <1>1, <1>3, <1>5, <1>9, <1>11, OpenerOpening

LEMMA RegisterObserverOpening ==
  ASSUME Inv, Handshaken, NEW p \in Peers, NEW c \in Chans,
         RegisterObserver(p, c)
  PROVE  Opening(peer'[Opener], peer'[Answerer])
<1>1. PICK s : s = peer[p]
  OBVIOUS
<1>2. Good(p, s) /\ s \in PeerType /\ s.ch[c] \in ChannelType
      /\ ChannelGood(p, s.ch[c])
  BY <1>1, InvOf, PeerTypes DEF Good
<1>3. PICK x : x = [s EXCEPT !.ch[c].observer = TRUE]
  OBVIOUS
<1>4. /\ x \in PeerType /\ OnlyChannel(s, x, c)
      /\ x.ch[c] = [s.ch[c] EXCEPT !.observer = TRUE]
      /\ x.used = s.used /\ x.t = s.t
  BY <1>2, <1>3 DEF PeerType, ChannelType, OnlyChannel
<1>5. SameChannel(s.ch[c], x.ch[c]) /\ SameHand(s.ch[c], x.ch[c])
  BY <1>2, <1>4 DEF ChannelType, SameChannel, SameHand, ChannelGood
<1>6. QuietStep(p, s, x, c)
  BY <1>2, <1>4, <1>5 DEF QuietStep, Good
<1>7. Good(p, x) /\ Kept(s, x)
  BY <1>2, <1>6, QuietStepGood
<1>8. PICK r : r = DeliverQueuedReceivedData(x, c)
  OBVIOUS
<1>9. Good(p, r) /\ Kept(x, r)
  BY <1>7, <1>8, DeliverGood
<1>10. Kept(s, r)
  BY <1>7, <1>9, KeptTransitive
<1>11. peer' = [peer EXCEPT ![p] = r]
  BY <1>1, <1>3, <1>8 DEF RegisterObserver, Become
<1>12. Steady(s, x)
  BY <1>4, <1>5, ChannelSteady, NewOnWireReflexive
<1>13. Steady(x, r)
  BY <1>4, <1>8, DeliverSteady
<1>14. Hand(s, peer[Answerer]) => Hand(r, peer[Answerer])
  BY <1>12, <1>13, SteadyKeepsHand
<1> QED
  BY <1>1, <1>9, <1>10, <1>11, <1>14, KeptOpening

LEMMA UnregisterObserverOpening ==
  ASSUME Inv, Handshaken, NEW p \in Peers, NEW c \in Chans,
         UnregisterObserver(p, c)
  PROVE  Opening(peer'[Opener], peer'[Answerer])
<1>1. PICK s : s = peer[p]
  OBVIOUS
<1>2. Good(p, s) /\ s \in PeerType /\ s.ch[c] \in ChannelType
      /\ ChannelGood(p, s.ch[c])
  BY <1>1, InvOf, PeerTypes DEF Good
<1>3. PICK x : x = [s EXCEPT !.ch[c].observer = FALSE]
  OBVIOUS
<1>4. /\ x \in PeerType /\ OnlyChannel(s, x, c)
      /\ x.ch[c] = [s.ch[c] EXCEPT !.observer = FALSE]
      /\ x.used = s.used /\ x.t = s.t
  BY <1>2, <1>3 DEF PeerType, ChannelType, OnlyChannel
<1>5. SameChannel(s.ch[c], x.ch[c]) /\ SameHand(s.ch[c], x.ch[c])
  BY <1>2, <1>4 DEF ChannelType, SameChannel, SameHand, ChannelGood
<1>6. QuietStep(p, s, x, c)
  BY <1>2, <1>4, <1>5 DEF QuietStep, Good
<1>7. Good(p, x) /\ Kept(s, x)
  BY <1>2, <1>6, QuietStepGood
<1>8. peer' = [peer EXCEPT ![p] = x]
  BY <1>1, <1>3 DEF UnregisterObserver, Become
<1>9. Steady(s, x)
  BY <1>4, <1>5, ChannelSteady, NewOnWireReflexive
<1>10. Hand(s, peer[Answerer]) => Hand(x, peer[Answerer])
  BY <1>9, SteadyKeepsHand
<1> QED
  BY <1>1, <1>7, <1>8, <1>10, KeptOpening

LEMMA CloseChannelOpening ==
  ASSUME Inv, Handshaken, NEW p \in Peers, NEW c \in Chans, CloseChannel(p, c)
  PROVE  Opening(peer'[Opener], peer'[Answerer])
<1>1. PICK r \in Close(peer[p], c) : peer' = [peer EXCEPT ![p] = r]
  BY DEF CloseChannel, Become
<1>2. peer[p].ch[c].state # "none"
  BY DEF CloseChannel, Become
<1>3. /\ Good(p, peer[p]) /\ peer[p] \in PeerType
      /\ WireGood(p, peer[p].ch, peer[p].t.wire)
  BY InvOf DEF Good
<1>4. Good(p, r) /\ Kept(peer[p], r)
  BY <1>1, <1>2, <1>3, CloseGood
<1>5. Steady(peer[p], r)
  BY <1>1, <1>3, CloseSteady
<1>6. Hand(peer[p], peer[Answerer]) => Hand(r, peer[Answerer])
  BY <1>5, SteadyKeepsHand
<1> QED
  BY <1>1, <1>4, <1>6, KeptOpening


LEMMA OnMessageOpening ==
  ASSUME Inv, Handshaken, NEW p \in Peers, NEW c \in Chans, OnMessage(p, c)
  PROVE  Opening(peer'[Opener], peer'[Answerer])
<1>1. PICK s : s = peer[p]
  OBVIOUS
<1>2. Good(p, s) /\ s \in PeerType /\ s.ch[c] \in ChannelType
      /\ ChannelGood(p, s.ch[c]) /\ config \in Configs
  BY <1>1, InvOf, PeerTypes DEF Good
<1>3. s.ch[c].state # "none"
  BY <1>1, <1>2 DEF OnMessage, ChannelGood
<1>4. PICK x : x = [s EXCEPT !.ch[c].readymsg = FALSE]
  OBVIOUS
<1>5. /\ x \in PeerType /\ OnlyChannel(s, x, c)
      /\ x.ch[c] = [s.ch[c] EXCEPT !.readymsg = FALSE]
      /\ x.used = s.used /\ x.t = s.t
  BY <1>2, <1>4 DEF PeerType, ChannelType, OnlyChannel
<1>6. SameChannel(s.ch[c], x.ch[c]) /\ SameHand(s.ch[c], x.ch[c])
  BY <1>2, <1>5 DEF ChannelType, SameChannel, SameHand, ChannelGood
<1>7. QuietStep(p, s, x, c)
  BY <1>2, <1>5, <1>6 DEF QuietStep, Good
<1>8. Good(p, x) /\ Kept(s, x) /\ x.ch[c].state # "none"
  BY <1>2, <1>3, <1>6, <1>7, QuietStepGood DEF SameChannel
<1>9. PICK r \in OnChannelReady(x, c) : peer' = [peer EXCEPT ![p] = r]
  BY <1>1, <1>4 DEF OnMessage, Become
<1>10. Good(p, r) /\ Kept(x, r)
  BY <1>2, <1>8, <1>9, OnChannelReadyGood
<1>11. Kept(s, r)
  BY <1>8, <1>10, KeptTransitive
<1>12. Steady(s, x)
  BY <1>5, <1>6, ChannelSteady, NewOnWireReflexive
<1>13. Hand(s, peer[Answerer]) => Hand(x, peer[Answerer])
  BY <1>12, SteadyKeepsHand
<1>14. Hand(x, peer[Answerer]) => Hand(r, peer[Answerer])
  BY <1>2, <1>8, <1>9, OnChannelReadyHand
<1> QED
  BY <1>1, <1>9, <1>10, <1>11, <1>13, <1>14, KeptOpening

LEMMA SendOpening ==
  ASSUME Inv, Handshaken, NEW p \in Peers, NEW c \in Chans, Send(p, c)
  PROVE  Opening(peer'[Opener], peer'[Answerer])
<1>1. /\ peer[p].ch[c].state = "open" /\ config' = config
      /\ \E r : peer' = [peer EXCEPT ![p] = r] /\ Taken(p, peer[p], r, c)
  BY SendTaken
<1>2. PICK r : peer' = [peer EXCEPT ![p] = r] /\ Taken(p, peer[p], r, c)
  BY <1>1
<1>3. PICK n, x, y :
        /\ Handed(peer[p], x, c, n + 1)
        /\ Kept(x, y) /\ Good(p, r) /\ SendResult(y, r, c, n)
  BY <1>2 DEF Taken
<1>4. ASSUME NEW s, NEW z, NEW k, Handed(s, z, c, k)
      PROVE  /\ z.t = s.t /\ z.used = s.used
             /\ \A d \in Chans : /\ z.ch[d].state = s.ch[d].state
                                 /\ z.ch[d].id = s.ch[d].id
  BY <1>4 DEF Handed, OnlyChannel, SameBut
<1>5. /\ x.t = peer[p].t /\ x.used = peer[p].used
      /\ \A d \in Chans : /\ x.ch[d].state = peer[p].ch[d].state
                          /\ x.ch[d].id = peer[p].ch[d].id
  BY <1>3, <1>4
<1>6. /\ r.t.phase = y.t.phase /\ r.t.posted = y.t.posted
      /\ r.used \subseteq y.used
      /\ \A d \in Chans : /\ (r.ch[d].state = "none") <=> (y.ch[d].state = "none")
                          /\ r.ch[d].id = y.ch[d].id
  <2>1. CASE Kept(y, r)
    BY <2>1 DEF Kept, ChannelKept
  <2>2. CASE Handed(y, r, c, n)
    BY <1>4, <2>2
  <2> QED
    BY <1>3, <2>1, <2>2 DEF SendResult
<1>7. /\ r.t.phase = peer[p].t.phase /\ r.t.posted = peer[p].t.posted
      /\ r.used \subseteq peer[p].used
      /\ \A d \in Chans :
           /\ (r.ch[d].state = "none") <=> (peer[p].ch[d].state = "none")
           /\ r.ch[d].id = peer[p].ch[d].id
  BY <1>3, <1>5, <1>6 DEF Kept, ChannelKept
<1>8. CASE p = Opener
  <2>1. peer'[p] = r
    BY <1>2 DEF Inv
  <2>2. Hand(peer[p], peer[Answerer]) => Hand(r, peer[Answerer])
    BY <2>1, SendHand
  <2> QED
    BY <1>2, <1>7, <1>8, <2>2, OpenerOpening
<1>9. CASE p = Answerer
  <2>1. PostsNoMessage(peer[p].t, r.t)
    BY <1>7, PostsTheSame
  <2>2. Calm(peer[p], r)
    BY <1>7, <2>1 DEF Calm
  <2>3. Used(peer[p])
    BY <1>9 DEF Handshaken, Opening
  <2>4. Used(r) /\ r \in PeerType
    BY <1>3, <1>7, <2>3, UsedStays DEF Good
  <2> QED
    BY <1>2, <1>9, <2>2, <2>4, AnswererOpening
<1> QED
  BY <1>8, <1>9, AnswererIsOther

LEMMA CreateSctpTransportOpening ==
  ASSUME Inv, Handshaken, NEW p \in Peers, CreateSctpTransport(p)
  PROVE  Opening(peer'[Opener], peer'[Answerer])
<1>1. PICK s, t, x : /\ s = peer[p]
                     /\ t = [s.t EXCEPT !.phase = "created"]
                     /\ x = [s EXCEPT !.t = t]
  OBVIOUS
<1>2. Good(p, s) /\ s \in PeerType /\ s.t \in TransportType
  BY <1>1, InvOf, PeerTypes
<1>3. /\ t \in TransportType /\ t.open = s.t.open /\ t.wire = s.t.wire
      /\ t.posted = s.t.posted /\ t.phase = "created"
  BY <1>1, <1>2 DEF TransportType, Phases
<1>4. x.t = t
  BY <1>1, <1>2 DEF PeerType
<1>5. Good(p, x) /\ x.ch = s.ch /\ x.used = s.used
  <2>1. WireGood(p, s.ch, s.t.wire)
    BY <1>2 DEF Good
  <2>2. x = [s EXCEPT !.t = x.t] /\ x.t \in TransportType
    BY <1>1, <1>3, <1>4
  <2> QED
    BY <1>2, <1>3, <1>4, <2>1, <2>2, TransportStepGood
<1>6. PICK r : r = ConnectChannels(x)
  OBVIOUS
<1>7. peer' = [peer EXCEPT ![p] = r] /\ s.t.phase = "none"
  BY <1>1, <1>6 DEF CreateSctpTransport, Become
<1>8. TransportExists(x.t)
  BY <1>3, <1>4 DEF TransportExists
<1>9. Good(p, r) /\ ConnectedUpTo(x, r, MaxChannels)
  BY <1>5, <1>6, <1>8, ConnectGood
<1>10. /\ r.t.phase = "created" /\ r.t.posted = s.t.posted /\ r.used = s.used
       /\ \A d \in Chans : /\ r.ch[d].state = s.ch[d].state
                           /\ r.ch[d].id = s.ch[d].id
  BY <1>3, <1>4, <1>5, <1>9 DEF ConnectedUpTo
<1>11. CASE p = Opener
  <2>1. Steady(x, r)
    BY <1>5, <1>6, <1>8, ConnectSteady
  <2>2. Steady(s, x)
    BY <1>3, <1>4, <1>5, NewOnWireReflexive DEF Steady, SameHand
  <2>3. Hand(s, peer[Answerer]) => Hand(r, peer[Answerer])
    BY <2>1, <2>2, SteadyKeepsHand
  <2> QED
    BY <1>1, <1>7, <1>11, <2>3, OpenerOpening
<1>12. CASE p = Answerer
  <2>1. PostsNoMessage(s.t, r.t)
    BY <1>10, PostsTheSame
  <2>2. Calm(s, r)
    BY <1>7, <1>10, <2>1 DEF Calm
  <2>3. Used(s)
    BY <1>1, <1>12 DEF Handshaken, Opening
  <2>4. Used(r) /\ r \in PeerType
    BY <1>9, <1>10, <2>3, UsedStays DEF Good
  <2> QED
    BY <1>1, <1>7, <1>12, <2>2, <2>4, AnswererOpening
<1> QED
  BY <1>11, <1>12, AnswererIsOther

LEMMA AllocateSctpSidsOpening ==
  ASSUME Inv, Handshaken, ~config.negotiated, NEW p \in Peers,
         AllocateSctpSids(p)
  PROVE  Opening(peer'[Opener], peer'[Answerer])
<1>1. PICK s, t, x : /\ s = peer[p]
                     /\ t = [s.t EXCEPT !.phase = "negotiated"]
                     /\ x = [s EXCEPT !.t = t]
  OBVIOUS
<1>2. Good(p, s) /\ Linked(s) /\ s \in PeerType /\ s.t \in TransportType
  BY <1>1, InvOf, PeerTypes
<1>3. /\ t \in TransportType /\ t.open = s.t.open /\ t.wire = s.t.wire
      /\ t.posted = s.t.posted /\ t.phase = "negotiated"
  BY <1>1, <1>2 DEF TransportType, Phases
<1>4. PICK r : r = GiveSids(x)
  OBVIOUS
<1>5. peer' = [peer EXCEPT ![p] = r] /\ s.t.phase = "created"
  BY <1>1, <1>4 DEF AllocateSctpSids, Become
<1>6. TransportExists(s.t) /\ TransportExists(t)
  BY <1>3, <1>5 DEF TransportExists
<1>7. TransportStep(p, s, t)
  BY <1>2, <1>3, <1>6 DEF TransportStep, Good
<1>8. Good(p, x) /\ Linked(x) /\ x.ch = s.ch /\ x.t = t
  BY <1>1, <1>2, <1>7, TransportStepKeeps
<1>9. CASE p = Opener
  <2>1. Steady(x, r)
    BY <1>4, <1>6, <1>8, GiveSidsSteady
  <2>2. Steady(s, x)
    BY <1>3, <1>8, NewOnWireReflexive DEF Steady, SameHand
  <2>3. Hand(s, peer[Answerer]) => Hand(r, peer[Answerer])
    BY <2>1, <2>2, SteadyKeepsHand
  <2>4. s.t.phase # "destroyed"
    BY <1>5
  <2> QED
    BY <1>1, <1>5, <1>9, <2>3, <2>4, OpenerOpening
<1>10. CASE p = Answerer
  <2>1. SameSids(s, peer[Opener].ch)
    BY <1>1, <1>10, AnswererIsOther DEF Inv, Agree
  <2>2. r = x
    BY <1>4, <1>8, <2>1, GiveSidsIdle DEF SameSids
  <2>3. x.used = s.used
    BY <1>1, <1>2 DEF PeerType
  <2>4. PostsNoMessage(s.t, r.t)
    BY <1>3, <1>8, <2>2, PostsTheSame
  <2>5. Calm(s, r)
    BY <1>5, <1>8, <2>2, <2>4 DEF Calm
  <2>6. Used(s)
    BY <1>1, <1>10 DEF Handshaken, Opening
  <2>7. Used(r) /\ r \in PeerType
    BY <1>8, <2>2, <2>3, <2>6, UsedStays DEF Good
  <2> QED
    BY <1>1, <1>5, <1>10, <2>5, <2>7, AnswererOpening
<1> QED
  BY <1>9, <1>10, AnswererIsOther

(* A step of the transport alone, after which it may be ready to send. *)
LEMMA ReadyStepOpening ==
  ASSUME Inv, Handshaken, NEW p \in Peers, NEW v \in TransportType, NEW r,
         v.wire = peer[p].t.wire, v.posted = peer[p].t.posted,
         TransportExists(peer[p].t),
         r = [peer[p] EXCEPT !.t = SetReadyToSendData(v)],
         peer' = [peer EXCEPT ![p] = r]
  PROVE  Opening(peer'[Opener], peer'[Answerer])
<1>1. PICK s, t : s = peer[p] /\ t = SetReadyToSendData(v)
  OBVIOUS
<1>2. s \in PeerType
  BY <1>1, InvOf
<1>3. t \in TransportType /\ t.wire = v.wire /\ PostsNoMessage(v, t)
  BY <1>1, ReadyPosted
<1>4. PostsNoMessage(s.t, t)
  BY <1>1, <1>3 DEF PostsNoMessage
<1>5. r = [s EXCEPT !.t = t]
  BY <1>1
<1>6. r \in PeerType /\ r.t = t /\ r.ch = s.ch /\ r.used = s.used
  BY <1>2, <1>3, <1>5 DEF PeerType
<1>7. s.t.phase # "destroyed"
  BY <1>1 DEF TransportExists
<1>8. CASE p = Opener
  <2>1. Steady(s, r)
    BY <1>1, <1>3, <1>6, NewOnWireReflexive DEF Steady, SameHand
  <2>2. Hand(s, peer[Answerer]) => Hand(r, peer[Answerer])
    BY <2>1, SteadyKeepsHand
  <2> QED
    BY <1>1, <1>7, <1>8, <2>2, OpenerOpening
<1>9. CASE p = Answerer
  <2>1. Calm(s, r)
    BY <1>4, <1>6, <1>7 DEF Calm
  <2>2. Used(s)
    BY <1>1, <1>9 DEF Handshaken, Opening
  <2>3. Used(r)
    BY <1>6, <2>2, UsedStays
  <2> QED
    BY <1>1, <1>6, <1>9, <2>1, <2>3, AnswererOpening
<1> QED
  BY <1>8, <1>9, AnswererIsOther

LEMMA ConnectOpening ==
  ASSUME Inv, Handshaken, NEW p \in Peers, Connect(p)
  PROVE  Opening(peer'[Opener], peer'[Answerer])
<1>1. PICK s, v : s = peer[p] /\ v = [s.t EXCEPT !.phase = "connected"]
  OBVIOUS
<1>2. s \in PeerType /\ s.t \in TransportType
  BY <1>1, InvOf, PeerTypes
<1>3. /\ v \in TransportType /\ v.wire = s.t.wire /\ v.posted = s.t.posted
  BY <1>1, <1>2 DEF TransportType, Phases
<1>4. PICK r : r = [s EXCEPT !.t = SetReadyToSendData(v)]
  OBVIOUS
<1>5. peer' = [peer EXCEPT ![p] = r] /\ s.t.phase = "negotiated"
  BY <1>1, <1>4 DEF Connect, Become
<1>6. TransportExists(s.t)
  BY <1>5 DEF TransportExists
<1> QED
  BY <1>1, <1>3, <1>4, <1>5, <1>6, ReadyStepOpening

LEMMA OnSendThresholdOpening ==
  ASSUME Inv, Handshaken, NEW p \in Peers, OnSendThreshold(p)
  PROVE  Opening(peer'[Opener], peer'[Answerer])
<1>1. PICK s, v : s = peer[p] /\ v = s.t
  OBVIOUS
<1>2. v \in TransportType
  BY <1>1, InvOf, PeerTypes
<1>3. PICK r : r = [s EXCEPT !.t = SetReadyToSendData(v)]
  OBVIOUS
<1>4. peer' = [peer EXCEPT ![p] = r] /\ s.t.phase = "connected"
  BY <1>1, <1>3 DEF OnSendThreshold, Become
<1>5. TransportExists(s.t)
  BY <1>4 DEF TransportExists
<1> QED
  BY <1>1, <1>2, <1>3, <1>4, <1>5, ReadyStepOpening


LEMMA DestroySctpTransportOpening ==
  ASSUME Inv, Handshaken, NEW p \in Peers, DestroySctpTransport(p)
  PROVE  Opening(peer'[Opener], peer'[Answerer])
<1>1. PICK s : s = peer[p]
  OBVIOUS
<1>2. PICK y, r :
        /\ y \in CloseChannels(s)
        /\ r = [y EXCEPT !.t = [NoTransport EXCEPT !.phase = "destroyed"],
                         !.used = s.used, !.sctp_ready = FALSE]
        /\ peer' = [peer EXCEPT ![p] = r]
  BY <1>1 DEF DestroySctpTransport, Become
<1>3. Good(p, s)
  BY <1>1, InvOf
<1>4. Good(p, y) /\ Dropped(s, y)
  BY <1>2, <1>3, CloseChannelsGood
<1>5. s \in PeerType /\ y \in PeerType
  BY <1>3, <1>4 DEF Good
<1>6. PICK z : z = NoTransport
  OBVIOUS
<1>7. z \in TransportType /\ z.posted = <<>>
  BY <1>6, NoTransportType
<1>8. PICK t : t = [z EXCEPT !.phase = "destroyed"]
  OBVIOUS
<1>9. t \in TransportType /\ t.posted = <<>> /\ t.phase = "destroyed"
  BY <1>7, <1>8 DEF TransportType, Phases
<1>10. PICK v : v = s.used
  OBVIOUS
<1>11. v \in SUBSET Sids
  BY <1>5, <1>10, PeerTypes
<1>12. r = [y EXCEPT !.t = t, !.used = v, !.sctp_ready = FALSE]
  BY <1>2, <1>6, <1>8, <1>10
<1>13. r \in PeerType /\ r.t = t /\ r.used = v /\ r.ch = y.ch
  BY <1>5, <1>9, <1>11, <1>12 DEF PeerType
<1>14. CASE p = Opener
  BY <1>2, <1>9, <1>13, <1>14, OpenerOpening
<1>15. CASE p = Answerer
  <2>1. Calm(s, r)
    BY <1>4, <1>9, <1>13 DEF Calm, Dropped
  <2>2. Used(s)
    BY <1>1, <1>15 DEF Handshaken, Opening
  <2>3. Used(r)
    BY <1>4, <1>10, <1>13, <2>2, UsedStays DEF Dropped
  <2> QED
    BY <1>1, <1>2, <1>13, <1>15, <2>1, <2>3, AnswererOpening
<1> QED
  BY <1>14, <1>15, AnswererIsOther

(* A chunk leaves the wire; the others stay in order. *)
Place(k, i) == IF k < i THEN k ELSE k - 1

LEMMA RemovalOrder ==
  ASSUME NEW w \in Seq(ChunkType), NEW i \in DOMAIN w, NEW v, v = RemoveAt(w, i)
  PROVE  /\ \A k \in DOMAIN w : k # i => /\ Place(k, i) \in DOMAIN v
                                         /\ v[Place(k, i)] = w[k]
         /\ \A j \in DOMAIN v :
              \E k \in DOMAIN w : k # i /\ j = Place(k, i) /\ v[j] = w[k]
         /\ \A k, l \in DOMAIN w :
              k < l /\ k # i /\ l # i => Place(k, i) < Place(l, i)
<1>1. PICK n \in Nat : n = Len(w)
  BY LenProperties
<1>2. DOMAIN w = 1..n /\ i \in 1..n
  BY <1>1, LenProperties
<1>3. /\ v \in Seq(ChunkType) /\ Len(v) = n - 1
      /\ \A j \in 1..n - 1 : v[j] = IF j < i THEN w[j] ELSE w[j + 1]
  BY <1>1, <1>2, RemoveAtProperties
<1>4. DOMAIN v = 1..(n - 1)
  BY <1>3, LenProperties
<1>5. ASSUME NEW k \in DOMAIN w, k # i
      PROVE  Place(k, i) \in DOMAIN v /\ v[Place(k, i)] = w[k]
  <2>1. CASE k < i
    <3>1. Place(k, i) = k /\ k \in 1..(n - 1)
      BY <1>2, <1>5, <2>1 DEF Place
    <3> QED
      BY <1>3, <1>4, <2>1, <3>1
  <2>2. CASE ~(k < i)
    <3>1. PICK j : j = k - 1
      OBVIOUS
    <3>2. j \in 1..(n - 1) /\ ~(j < i) /\ j + 1 = k
      BY <1>2, <1>5, <2>2, <3>1
    <3>3. Place(k, i) = j
      BY <2>2, <3>1 DEF Place
    <3>4. v[j] = w[j + 1]
      BY <1>3, <3>2
    <3> QED
      BY <1>4, <3>2, <3>3, <3>4
  <2> QED
    BY <2>1, <2>2
<1>6. ASSUME NEW j \in DOMAIN v
      PROVE  \E k \in DOMAIN w : k # i /\ j = Place(k, i) /\ v[j] = w[k]
  <2>1. CASE j < i
    <3>1. j \in DOMAIN w /\ j # i /\ j = Place(j, i)
      BY <1>2, <1>4, <2>1 DEF Place
    <3>2. v[j] = w[j]
      BY <1>3, <1>4, <2>1
    <3> QED
      BY <3>1, <3>2
  <2>2. CASE ~(j < i)
    <3>1. PICK k : k = j + 1
      OBVIOUS
    <3>2. k \in DOMAIN w /\ k # i /\ ~(k < i) /\ j = k - 1
      BY <1>2, <1>4, <2>2, <3>1
    <3>3. j = Place(k, i)
      BY <3>2 DEF Place
    <3>4. v[j] = w[k]
      BY <1>3, <1>4, <2>2, <3>1
    <3> QED
      BY <3>2, <3>3, <3>4
  <2> QED
    BY <2>1, <2>2
<1>7. ASSUME NEW k \in DOMAIN w, NEW l \in DOMAIN w, k < l, k # i, l # i
      PROVE  Place(k, i) < Place(l, i)
  BY <1>2, <1>7 DEF Place
<1> QED
  BY <1>5, <1>6, <1>7

(* The chunk that goes is no OPEN that b still needs. *)
Conveyed(m, b) ==
  \A c \in Chans : OrderedOpen(m, c) /\ Fresh(b, c) => OpenPosted(b, c)

LEMMA RemovalHand ==
  ASSUME NEW o, NEW r, NEW w, w = o.t.wire, w \in Seq(ChunkType),
         NEW i \in DOMAIN w, r.ch = o.ch, r.t.wire = RemoveAt(w, i),
         NEW a, NEW b, Hears(a, b), Hand(o, a), Conveyed(w[i], b)
  PROVE  Hand(r, b)
<1>6. \A c \in Chans : OrderedOpen(w[i], c) /\ Fresh(b, c) => OpenPosted(b, c)
  BY DEF Conveyed
<1>1. PICK v : v = RemoveAt(w, i)
  OBVIOUS
<1>2. /\ \A k \in DOMAIN w : k # i => /\ Place(k, i) \in DOMAIN v
                                      /\ v[Place(k, i)] = w[k]
      /\ \A j \in DOMAIN v :
           \E k \in DOMAIN w : k # i /\ j = Place(k, i) /\ v[j] = w[k]
      /\ \A k, l \in DOMAIN w :
           k < l /\ k # i /\ l # i => Place(k, i) < Place(l, i)
  BY <1>1, RemovalOrder
<1>3. r.t.wire = v
  BY <1>1
<1>4. ASSUME NEW c \in Chans
      PROVE  ChannelHand(r, b, c)
  <2>1. ChannelHand(o, a, c)
    BY DEF Hand
  <2>2. OpenOnWire(o.t, c) /\ Fresh(b, c) => OpenPosted(b, c) \/ OpenOnWire(r.t, c)
    <3> SUFFICES ASSUME NEW k \in DOMAIN w, OrderedOpen(w[k], c), Fresh(b, c)
                 PROVE  OpenPosted(b, c) \/ OpenOnWire(r.t, c)
      BY DEF OpenOnWire
    <3>1. CASE k = i
      BY <1>6, <3>1
    <3>2. CASE k # i
      BY <1>2, <1>3, <3>2 DEF OpenOnWire
    <3> QED
      BY <3>1, <3>2
  <2>3. /\ a.ch[c].state # "none" => b.ch[c].state # "none"
        /\ Fresh(b, c) => Fresh(a, c) /\ (OpenPosted(a, c) => OpenPosted(b, c))
    BY DEF Hears
  <2> QED
    BY <2>1, <2>2, <2>3 DEF ChannelHand
<1>5. ASSUME NEW j \in DOMAIN v
      PROVE  ChunkHand(r, b, j)
  <2>1. PICK k \in DOMAIN w : k # i /\ j = Place(k, i) /\ v[j] = w[k]
    BY <1>2
  <2>2. PICK m : m = w[k]
    OBVIOUS
  <2>3. m \in ChunkType
    BY <2>2, ElementOfSeq
  <2> SUFFICES ASSUME m.kind = "data", Fresh(b, m.label)
               PROVE  /\ m.ordered
                      /\ \/ OpenPosted(b, m.label)
                         \/ \E l \in DOMAIN v : /\ l < j
                                                /\ OrderedOpen(v[l], m.label)
    BY <1>3, <2>1, <2>2 DEF ChunkHand
  <2>4. PICK c \in Chans : c = m.label
    BY <2>3 DEF ChunkType, MessageType, ResetType
  <2>5. Fresh(a, c) /\ (OpenPosted(a, c) => OpenPosted(b, c))
    BY <2>4 DEF Hears
  <2>6. ChunkHand(o, a, k)
    BY DEF Hand
  <2>7. /\ m.ordered
        /\ \/ OpenPosted(a, c)
           \/ \E l \in DOMAIN w : l < k /\ OrderedOpen(w[l], c)
    BY <2>2, <2>4, <2>5, <2>6 DEF ChunkHand
  <2>8. ASSUME NEW l \in DOMAIN w, l < k, OrderedOpen(w[l], c)
        PROVE  \/ OpenPosted(b, c)
               \/ \E l2 \in DOMAIN v : l2 < j /\ OrderedOpen(v[l2], c)
    <3>1. CASE l = i
      BY <1>6, <2>4, <2>8, <3>1
    <3>2. CASE l # i
      <4>1. /\ Place(l, i) \in DOMAIN v /\ v[Place(l, i)] = w[l]
            /\ Place(l, i) < j
        BY <1>2, <2>1, <2>8, <3>2
      <4> QED
        BY <2>8, <4>1
    <3> QED
      BY <3>1, <3>2
  <2> QED
    BY <2>4, <2>5, <2>7, <2>8
<1> QED
  BY <1>3, <1>4, <1>5 DEF Hand

LEMMA LoseControlMessageOpening ==
  ASSUME Inv, Handshaken, NEW p \in Peers, LoseControlMessage(p)
  PROVE  Opening(peer'[Opener], peer'[Answerer])
<1>1. PICK s : s = peer[p]
  OBVIOUS
<1>2. s \in PeerType /\ s.t \in TransportType /\ s.t.wire \in Seq(ChunkType)
      /\ WireGood(p, s.ch, s.t.wire)
  BY <1>1, InvOf, PeerTypes, TransportTypes DEF Good
<1>3. PICK i \in DOMAIN s.t.wire :
        /\ ~s.t.wire[i].ordered
        /\ Become(p, {[s EXCEPT !.t.wire = RemoveAt(@, i)]})
  BY <1>1 DEF LoseControlMessage
<1>4. PICK w : w = RemoveAt(s.t.wire, i)
  OBVIOUS
<1>5. w \in Seq(ChunkType)
  BY <1>2, <1>4, WireShrinks
<1>6. PICK t, r : t = [s.t EXCEPT !.wire = w] /\ r = [s EXCEPT !.t = t]
  OBVIOUS
<1>7. /\ t \in TransportType /\ t.wire = w
      /\ t.posted = s.t.posted /\ t.phase = s.t.phase
  BY <1>2, <1>5, <1>6 DEF TransportType
<1>8. r \in PeerType /\ r.t = t /\ r.ch = s.ch /\ r.used = s.used
  BY <1>2, <1>6, <1>7 DEF PeerType
<1>9. peer' = [peer EXCEPT ![p] = r]
  BY <1>3, <1>4, <1>6 DEF Become
<1>10. CASE p = Opener
  <2>1. Hears(peer[Answerer], peer[Answerer])
    BY DEF Hears
  <2>2. PICK a, l : a = peer[Answerer] /\ l = s.t.wire
    OBVIOUS
  <2>3. l \in Seq(ChunkType) /\ i \in DOMAIN l
    BY <1>2, <1>3, <2>2
  <2>7. r.t.wire = RemoveAt(l, i)
    BY <1>4, <1>7, <1>8, <2>2
  <2>8. Hears(a, a)
    BY <2>1, <2>2
  <2>9. Conveyed(l[i], a)
    BY <1>3, <2>2 DEF Conveyed, OrderedOpen
  <2>6. ASSUME Hand(s, a)
        PROVE  Hand(r, a)
    <3>1. l = s.t.wire
      BY <2>2
    <3>2. r.ch = s.ch
      BY <1>8
    <3> QED
      BY <2>3, <2>6, <2>7, <2>8, <2>9, <3>1, <3>2, RemovalHand
  <2>4. Hand(s, peer[Answerer]) => Hand(r, peer[Answerer])
    BY <2>2, <2>6
  <2>5. r.t.phase = s.t.phase
    BY <1>7, <1>8
  <2> QED
    BY <1>1, <1>9, <1>10, <2>4, <2>5, OpenerOpening
<1>11. CASE p = Answerer
  <2>1. PostsNoMessage(s.t, r.t)
    BY <1>7, <1>8, PostsTheSame
  <2>2. Calm(s, r)
    BY <1>7, <1>8, <2>1 DEF Calm
  <2>3. Used(s)
    BY <1>1, <1>11 DEF Handshaken, Opening
  <2>4. Used(r)
    BY <1>8, <2>3, UsedStays
  <2> QED
    BY <1>1, <1>8, <1>9, <1>11, <2>2, <2>4, AnswererOpening
<1> QED
  BY <1>10, <1>11, AnswererIsOther


-----------------------------------------------------------------------------
(* A chunk arrives. *)
ArrivalOf(x, y, a, b, i) ==
  /\ CanArrive(y.t.wire, i) /\ ReceiveOutcome(x.t, a.t, y.t.wire[i])
  /\ a \in PeerType /\ a.ch = x.ch /\ a.used = x.used
  /\ b \in PeerType /\ b.ch = y.ch /\ b.used = y.used
  /\ b.t.wire = RemoveAt(y.t.wire, i)
  /\ b.t.posted = y.t.posted /\ b.t.phase = y.t.phase

LEMMA ArrivalParts ==
  ASSUME NEW x \in PeerType, NEW y \in PeerType, NEW a, NEW b,
         Arrival(x, y, a, b)
  PROVE  \E i \in DOMAIN y.t.wire : ArrivalOf(x, y, a, b, i)
<1>1. /\ y.t \in TransportType /\ y.t.wire \in Seq(ChunkType)
  BY PeerTypes, TransportTypes
<1>2. PICK i \in DOMAIN y.t.wire :
        /\ CanArrive(y.t.wire, i)
        /\ ReceiveOutcome(x.t, a.t, y.t.wire[i])
        /\ a = [x EXCEPT !.t = a.t]
        /\ b = [y EXCEPT !.t = [y.t EXCEPT !.wire = RemoveAt(y.t.wire, i)]]
  BY DEF Arrival
<1>3. PICK w : w = RemoveAt(y.t.wire, i)
  OBVIOUS
<1>4. w \in Seq(ChunkType)
  BY <1>1, <1>3, LenProperties, RemoveAtProperties
<1>5. PICK v, u : v = [y.t EXCEPT !.wire = w] /\ u = a.t
  OBVIOUS
<1>6. /\ v \in TransportType /\ v.wire = w /\ v.posted = y.t.posted
      /\ v.phase = y.t.phase
  BY <1>1, <1>4, <1>5 DEF TransportType
<1>7. u \in TransportType
  BY <1>2, <1>5 DEF ReceiveOutcome
<1>8. a = [x EXCEPT !.t = u] /\ b = [y EXCEPT !.t = v]
  BY <1>2, <1>3, <1>5
<1>9. a \in PeerType /\ a.ch = x.ch /\ a.used = x.used
  BY <1>7, <1>8 DEF PeerType
<1>10. b \in PeerType /\ b.ch = y.ch /\ b.used = y.used /\ b.t = v
  BY <1>6, <1>8 DEF PeerType
<1>11. ArrivalOf(x, y, a, b, i)
  BY <1>2, <1>3, <1>6, <1>9, <1>10 DEF ArrivalOf
<1> QED
  BY <1>11


(* The steps of the two ends. *)
LEMMA AnswererSends ==
  ASSUME NEW o \in PeerType, NEW a \in PeerType, NEW r, NEW b,
         Opening(o, a), Arrival(o, a, r, b)
  PROVE  Opening(r, b)
<1>1. PICK i \in DOMAIN a.t.wire : ArrivalOf(o, a, r, b, i)
  BY ArrivalParts
<1>2. /\ r \in PeerType /\ r.ch = o.ch /\ NewOnWire(o.t, r.t, ResetChunks)
      /\ r.t.phase = o.t.phase
  BY <1>1 DEF ArrivalOf, ReceiveOutcome
<1>3. /\ b \in PeerType /\ b.ch = a.ch /\ b.used = a.used
      /\ b.t.posted = a.t.posted /\ b.t.phase = a.t.phase
  BY <1>1 DEF ArrivalOf
<1>4. Steady(o, r)
  BY <1>2, ResetsAreNoData DEF Steady, SameHand
<1>5. Hand(o, a) => Hand(r, a)
  BY <1>4, SteadyKeepsHand
<1>6. Calm(a, b)
  <2>1. PostsNoMessage(a.t, b.t)
    BY <1>3, PostsTheSame
  <2> QED
    BY <1>3, <2>1 DEF Calm
<1>7. Hears(a, b)
  BY <1>6, CalmHears
<1>8. r.t.wire \in Seq(ChunkType)
  BY <1>2, PeerTypes, TransportTypes
<1>9. Hand(r, a) => Hand(r, b)
  BY <1>7, <1>8, HearsHand
<1>10. Used(b)
  BY <1>3, UsedStays DEF Opening
<1>11. OpenFirst(b)
  BY <1>3, <1>6, CalmOpenFirst DEF Opening
<1> QED
  BY <1>2, <1>5, <1>9, <1>10, <1>11 DEF Opening

(* Data that may arrive has no OPEN of its channel in front of it. *)
LEMMA NothingOvertakes ==
  ASSUME NEW p, NEW chs, NEW w, WireGood(p, chs, w), NEW i \in DOMAIN w,
         w \in Seq(ChunkType), CanArrive(w, i), NEW c, w[i].kind = "data",
         w[i].label = c, w[i].ordered,
         NEW j \in DOMAIN w, j < i
  PROVE  ~OrderedOpen(w[j], c)
<1> SUFFICES ASSUME OrderedOpen(w[j], c)
             PROVE  FALSE
  OBVIOUS
<1>1. j \in 1..(i - 1)
  BY LenProperties
<1>2. ~w[i].ordered \/ ~w[j].ordered \/ w[i].sid # w[j].sid
  BY <1>1 DEF CanArrive
<1>3. IsMessage(w[i]) /\ IsMessage(w[j])
  BY DEF IsMessage, OrderedOpen, IsOpen
<1>4. w[i].sid = chs[c].id /\ w[j].sid = chs[c].id
  BY <1>3 DEF WireGood, MessageGood, OrderedOpen, IsOpen
<1> QED
  BY <1>2, <1>4 DEF OrderedOpen

LEMMA OpenerSends ==
  ASSUME NEW o, NEW a, NEW b, NEW r, Good(Opener, o), a \in PeerType,
         o.t.phase # "destroyed", a.t.phase # "destroyed",
         Opening(o, a), Arrival(a, o, b, r)
  PROVE  Opening(r, b)
<1>0. o \in PeerType /\ o.t.wire \in Seq(ChunkType)
      /\ WireGood(Opener, o.ch, o.t.wire) /\ a.t.posted \in Seq(EventType)
  BY PeerTypes, TransportTypes DEF Good
<1>1. PICK i \in DOMAIN o.t.wire : ArrivalOf(a, o, b, r, i)
  BY <1>0, ArrivalParts
<1>2. PICK w, m : w = o.t.wire /\ m = w[i]
  OBVIOUS
<1>3. /\ b \in PeerType /\ b.ch = a.ch /\ b.used = a.used
      /\ b.t.phase = a.t.phase /\ Posts(a.t, b.t, m) /\ CanArrive(w, i)
  BY <1>1, <1>2 DEF ArrivalOf, ReceiveOutcome
<1>4. r.ch = o.ch /\ r.t.phase = o.t.phase /\ r.t.wire = RemoveAt(w, i)
  BY <1>1, <1>2 DEF ArrivalOf
<1>5. m \in ChunkType /\ w \in Seq(ChunkType) /\ i \in DOMAIN w
  BY <1>0, <1>2, LenProperties, ElementOfSeq
<1>6. PICK n \in Nat : n = Len(a.t.posted) /\ DOMAIN a.t.posted = 1..n
  BY <1>0, LenProperties
<1>7. ASSUME IsMessage(m)
      PROVE  /\ DOMAIN b.t.posted = 1..(n + 1)
             /\ \A j \in 1..n : b.t.posted[j] = a.t.posted[j]
             /\ b.t.posted[n + 1].ev = "message" /\ b.t.posted[n + 1].m = m
  <2>1. PICK e : e = [ev |-> "message", m |-> m]
    OBVIOUS
  <2>2. m \in MessageType
    BY <1>5, <1>7, ChunkCases
  <2>3. e \in EventType /\ e.ev = "message" /\ e.m = m
    BY <2>1, <2>2 DEF EventType
  <2>4. b.t.posted = Append(a.t.posted, e)
    BY <1>3, <1>7, <2>1 DEF Posts
  <2>5. /\ b.t.posted \in Seq(EventType) /\ Len(b.t.posted) = n + 1
        /\ \A j \in 1..n : b.t.posted[j] = a.t.posted[j]
        /\ b.t.posted[n + 1] = e
    BY <1>0, <1>6, <2>3, <2>4, AppendProperties
  <2>6. DOMAIN b.t.posted = 1..(n + 1)
    BY <2>5, LenProperties
  <2> QED
    BY <2>3, <2>5, <2>6
<1>8. \A j \in DOMAIN a.t.posted :
        j \in DOMAIN b.t.posted /\ b.t.posted[j] = a.t.posted[j]
  <2>1. CASE IsMessage(m)
    BY <1>6, <1>7, <2>1
  <2>2. CASE ~IsMessage(m)
    BY <1>3, <2>2 DEF Posts, PostsNoMessage
  <2> QED
    BY <2>1, <2>2
<1>9. Hears(a, b)
  BY <1>3, <1>8 DEF Hears, Fresh, OpenPosted
<1>10. Conveyed(m, b)
  <2> SUFFICES ASSUME NEW c \in Chans, OrderedOpen(m, c)
               PROVE  OpenPosted(b, c)
    BY DEF Conveyed
  <2>1. IsMessage(m)
    BY DEF OrderedOpen, IsOpen, IsMessage
  <2>2. n + 1 \in DOMAIN b.t.posted /\ OpenEvent(b.t.posted[n + 1], c)
    BY <1>7, <2>1 DEF OrderedOpen, OpenEvent
  <2> QED
    BY <2>2 DEF OpenPosted
<1>11. Hand(o, a)
  BY DEF Opening
<1>12. Hand(r, b)
  <2>1. Conveyed(w[i], b)
    BY <1>2, <1>10
  <2> QED
    BY <1>2, <1>4, <1>5, <1>9, <1>11, <2>1, RemovalHand
<1>13. Used(b)
  BY <1>3, UsedStays DEF Opening
<1>14. CASE ~IsMessage(m)
  <2>1. Calm(a, b)
    BY <1>3, <1>14 DEF Calm, Posts
  <2>2. OpenFirst(b)
    BY <1>3, <2>1, CalmOpenFirst DEF Opening
  <2> QED
    BY <1>12, <1>13, <2>2 DEF Opening
<1>15. CASE IsMessage(m)
  <2>1. ASSUME NEW k \in DOMAIN b.t.posted, NEW c, k <= n,
               b.t.posted[k].ev = "message", b.t.posted[k].m.kind = "data",
               c = b.t.posted[k].m.label
        PROVE  \/ b.ch[c].state # "none"
               \/ \E j \in DOMAIN b.t.posted :
                    j < k /\ OpenEvent(b.t.posted[j], c)
    <3>1. k \in DOMAIN a.t.posted /\ b.t.posted[k] = a.t.posted[k]
      BY <1>6, <1>7, <1>15, <2>1
    <3>2. \/ a.ch[c].state # "none"
          \/ \E j \in DOMAIN a.t.posted :
               j < k /\ OpenEvent(a.t.posted[j], c)
      BY <2>1, <3>1 DEF Opening, OpenFirst
    <3> QED
      BY <1>3, <1>8, <3>2
  <2>2. ASSUME NEW c, m.kind = "data", c = m.label
        PROVE  \/ b.ch[c].state # "none"
               \/ \E j \in DOMAIN b.t.posted :
                    j < n + 1 /\ OpenEvent(b.t.posted[j], c)
    <3> SUFFICES ASSUME b.ch[c].state = "none"
                 PROVE  \E j \in DOMAIN b.t.posted :
                          j < n + 1 /\ OpenEvent(b.t.posted[j], c)
      OBVIOUS
    <3>1. Fresh(a, c)
      BY <1>3 DEF Fresh
    <3>2. ChunkHand(o, a, i)
      BY <1>2, <1>5, <1>11 DEF Hand
    <3>3. /\ m.ordered
          /\ \/ OpenPosted(a, c)
             \/ \E j \in DOMAIN w : j < i /\ OrderedOpen(w[j], c)
      BY <1>2, <2>2, <3>1, <3>2 DEF ChunkHand
    <3>4. WireGood(Opener, o.ch, w)
      BY <1>0, <1>2
    <3>5. /\ w[i].kind = "data" /\ w[i].label = c /\ w[i].ordered
      BY <1>2, <2>2, <3>3
    <3>6. \A j \in DOMAIN w : j < i => ~OrderedOpen(w[j], c)
      BY <1>3, <1>5, <3>4, <3>5, NothingOvertakes
    <3>7. PICK j \in DOMAIN a.t.posted : OpenEvent(a.t.posted[j], c)
      BY <3>3, <3>6 DEF OpenPosted
    <3>8. j \in DOMAIN b.t.posted /\ b.t.posted[j] = a.t.posted[j] /\ j < n + 1
      BY <1>6, <1>8
    <3> QED
      BY <3>7, <3>8
  <2>3. ASSUME NEW k \in DOMAIN b.t.posted, NEW e, e = b.t.posted[k],
               e.ev = "message", e.m.kind = "data"
        PROVE  \/ b.ch[e.m.label].state # "none"
               \/ \E j \in DOMAIN b.t.posted :
                    j < k /\ OpenEvent(b.t.posted[j], e.m.label)
    <3>1. k \in 1..(n + 1)
      BY <1>7, <1>15
    <3>2. CASE k = n + 1
      <4>1. e.m = m
        BY <1>7, <1>15, <2>3, <3>2
      <4> QED
        BY <2>2, <2>3, <3>2, <4>1
    <3>3. CASE k # n + 1
      <4>1. k <= n
        BY <3>1, <3>3
      <4> QED
        BY <2>1, <2>3, <4>1
    <3> QED
      BY <3>2, <3>3
  <2>4. OpenFirst(b)
    BY <2>3 DEF OpenFirst
  <2> QED
    BY <1>12, <1>13, <2>4 DEF Opening
<1> QED
  BY <1>14, <1>15

LEMMA ReceiveOpening ==
  ASSUME Inv, Handshaken, NEW p \in Peers, Receive(p)
  PROVE  Opening(peer'[Opener], peer'[Answerer])
<1>1. PICK q, o, a, r, b : /\ q = Answerer /\ o = peer[Opener] /\ a = peer[q]
                           /\ r = peer'[Opener] /\ b = peer'[q]
  OBVIOUS
<1>2. Opening(o, a)
  BY <1>1 DEF Handshaken
<1>3. o \in PeerType /\ a \in PeerType /\ Good(Opener, o)
  BY <1>1, AnswererIsOther, InvOf
<1>4. Arrival(peer[p], peer[Other(p)], peer'[p], peer'[Other(p)])
  BY ReceiveArrival
<1>5. CASE p = Opener
  <2>1. Arrival(o, a, r, b)
    BY <1>1, <1>4, <1>5 DEF Answerer
  <2> QED
    BY <1>1, <1>2, <1>3, <2>1, AnswererSends
<1>6. CASE p = Answerer
  <2>1. Other(p) = Opener
    BY <1>6, AnswererIsOther, OtherPeer
  <2>2. Arrival(a, o, b, r)
    BY <1>1, <1>4, <1>6, <2>1
  <2>3. o.t.phase # "destroyed" /\ a.t.phase # "destroyed"
    BY <1>1, <1>6, <2>1 DEF Receive
  <2> QED
    BY <1>1, <1>2, <1>3, <2>2, <2>3, OpenerSends
<1> QED
  BY <1>5, <1>6, AnswererIsOther


-----------------------------------------------------------------------------
(* The signaling thread of either end takes the next event.  No two        *)
(* channels have the same stream.                                          *)
Unmixed(s) ==
  \A c, d \in Chans : s.ch[c].id \in Sids /\ s.ch[c].id = s.ch[d].id => c = d

LEMMA OpenerHandles ==
  ASSUME NEW x, NEW a, Good(Opener, x), Good(Answerer, a), config \in Configs,
         NEW e \in EventType,
         e.ev = "message" => MessageGood(Answerer, a.ch, e.m),
         SameSids(a, x.ch), Unmixed(x), NEW u \in Handle(x, e), Hand(x, a)
  PROVE  Good(Opener, u) /\ Kept(x, u) /\ Hand(u, a)
<1>0. ASSUME NEW c \in Chans, c \in Connected(x)
      PROVE  x.ch[c].state # "none"
  BY <1>0 DEF Connected, Good, ChannelGood
<1>1. Opener \in Peers /\ Answerer # Opener /\ x \in PeerType
      /\ WireGood(Opener, x.ch, x.t.wire)
  BY AnswererIsOther DEF Good
<1>2. Good(Opener, x) /\ Kept(x, x) /\ Hand(x, a)
  BY KeptReflexive
<1>3. CASE e.ev = "ready"
  <2>1. u \in OnSctpTransportReadyToSendData(x)
    BY <1>3 DEF Handle
  <2>2. Good(Opener, u) /\ Kept(x, u)
    BY <1>1, <2>1, ReadyGood
  <2>3. Hand(u, a)
    BY <1>1, <2>1, ReadyHand
  <2> QED
    BY <2>2, <2>3
<1>4. CASE e.ev = "closed"
  <2>1. u = x \/ \E c \in WithSid(x, e.sid) : u \in Close(x, c)
    BY <1>4 DEF Handle
  <2>2. ASSUME NEW c \in WithSid(x, e.sid), u \in Close(x, c)
        PROVE  Good(Opener, u) /\ Kept(x, u) /\ Hand(u, a)
    <3>1. c \in Chans /\ x.ch[c].state # "none"
      BY <1>0 DEF WithSid, Connected
    <3>2. Good(Opener, u) /\ Kept(x, u)
      BY <1>1, <2>2, <3>1, CloseGood
    <3>3. Steady(x, u)
      BY <1>1, <2>2, <3>1, CloseSteady
    <3>4. Hand(u, a)
      BY <3>3, SteadyKeepsHand
    <3> QED
      BY <3>2, <3>4
  <2> QED
    BY <1>2, <2>1, <2>2
<1>5. CASE e.ev = "message"
  <2>1. PICK m : m = e.m
    OBVIOUS
  <2>2. m \in MessageType /\ MessageGood(Answerer, a.ch, m)
    BY <1>5, <2>1 DEF EventType
  <2>3. PICK l \in Chans : l = m.label
    BY <2>2 DEF MessageType
  <2>4. m.kind # "open" /\ m.sid \in Sids /\ m.sid = a.ch[l].id
    BY <1>1, <2>2, <2>3 DEF MessageGood
  <2>5. a.ch[l].state # "none"
    <3>1. a.ch[l].state = "none" => a.ch[l].id = -1
      BY DEF Good, ChannelGood
    <3>2. -1 \notin Sids
      BY SidsAssumption
    <3> QED
      BY <2>4, <3>1, <3>2
  <2>6. x.ch[l].id = m.sid
    BY <2>4, <2>5 DEF SameSids
  <2>7. u = x \/ \E c \in WithSid(x, m.sid) : u \in OnDataReceived(x, c, m)
    BY <1>5, <2>1, <2>4 DEF Handle
  <2>8. ASSUME NEW c \in WithSid(x, m.sid), u \in OnDataReceived(x, c, m)
        PROVE  Good(Opener, u) /\ Kept(x, u) /\ Hand(u, a)
    <3>1. c \in Chans /\ x.ch[c].state # "none" /\ x.ch[c].id = m.sid
      BY <1>0 DEF WithSid, Connected
    <3>2. c = l
      BY <2>4, <2>6, <3>1 DEF Unmixed
    <3>3. a.ch[c].state # "none"
      BY <2>5, <3>2
    <3>4. Good(Opener, u) /\ Kept(x, u)
      BY <1>1, <2>2, <2>4, <2>8, <3>1, OnDataReceivedGood
    <3>5. Hand(u, a)
      BY <1>1, <2>2, <2>4, <2>8, <3>1, <3>3, OnDataReceivedHand
    <3> QED
      BY <3>4, <3>5
  <2> QED
    BY <1>2, <2>7, <2>8
<1> QED
  BY <1>3, <1>4, <1>5 DEF EventType

(* The answerer: an OPEN leaves a channel, whether it is new or its sid    *)
(* was in use.                                                             *)
Handled(x, u, e) ==
  /\ u \in PeerType
  /\ u.t.posted = x.t.posted /\ u.t.phase = x.t.phase
  /\ \A c \in Chans : x.ch[c].state # "none" => u.ch[c].state # "none"
  /\ \A c \in Chans : OpenEvent(e, c) => u.ch[c].state # "none"
  /\ Used(u)

LEMMA KeptHandled ==
  ASSUME NEW p, NEW x, NEW u, NEW e, Good(p, u), Kept(x, u), Used(x),
         \A c \in Chans : ~OpenEvent(e, c)
  PROVE  Handled(x, u, e)
<1>1. Calm(x, u) /\ (Used(x) => Used(u))
  BY KeptCalm
<1>2. /\ u.t.posted = x.t.posted /\ u.t.phase = x.t.phase
      /\ \A c \in Chans : x.ch[c].state # "none" => u.ch[c].state # "none"
  BY DEF Kept, ChannelKept
<1> QED
  BY <1>1, <1>2 DEF Handled, Good

LEMMA OpenHandled ==
  ASSUME NEW x, NEW o, Good(Answerer, x), NEW e, e.ev = "message",
         e.m \in MessageType, e.m.kind = "open",
         MessageGood(Opener, o.ch, e.m), SameSids(x, o.ch), Unmixed(o),
         Used(x), NEW u, u = OnDataChannelOpenMessage(x, e.m)
  PROVE  Handled(x, u, e)
<1>1. Answerer \in Peers /\ Answerer # Opener /\ x \in PeerType
  BY AnswererIsOther DEF Good
<1>2. PICK m, c, id : m = e.m /\ c = m.label /\ id = m.sid
  OBVIOUS
<1>3. c \in Chans
  BY <1>2 DEF MessageType
<1>4. id \in Sids /\ id = o.ch[c].id
  BY <1>2 DEF MessageGood
<1>5. \A d \in Chans : OpenEvent(e, d) => d = c
  BY <1>2 DEF OpenEvent, IsOpen
<1>6. \A d \in Chans : x.ch[d].state = "none" => x.ch[d].id = -1
  BY DEF Good, ChannelGood
<1>7. -1 \notin Sids
  BY SidsAssumption
<1>8. CASE id \in x.used
  <2>1. PICK d \in Chans : x.ch[d].id = id
    BY <1>8 DEF Used
  <2>2. x.ch[d].state # "none"
    BY <1>4, <1>6, <1>7, <2>1
  <2>3. o.ch[d].id = id
    BY <2>1, <2>2 DEF SameSids
  <2>4. d = c
    BY <1>3, <1>4, <2>3 DEF Unmixed
  <2>5. u = x
    BY <1>2, <1>8 DEF OnDataChannelOpenMessage
  <2> QED
    BY <1>1, <1>5, <2>2, <2>4, <2>5 DEF Handled
<1>9. CASE id \notin x.used
  <2>1. u = InitChannel(x, c, "acker", id)
    BY <1>2, <1>9 DEF OnDataChannelOpenMessage
  <2>2. x.ch[c].state # "none" => x.ch[c].id = id
    BY <1>3, <1>4 DEF SameSids
  <2>3. ~Live(x.ch[c])
    <3> SUFFICES ASSUME Live(x.ch[c]) PROVE FALSE
      OBVIOUS
    <3>1. x.ch[c].id = id
      BY <2>2 DEF Live
    <3> QED
      BY <1>3, <1>4, <1>9, <3>1 DEF Good, Reserved
  <2>4. x.ch[c].id \in Sids => x.ch[c].id = id
    BY <1>3, <1>6, <1>7, <2>2
  <2>5. MayTake(Answerer, x, c, "acker", id)
    BY <1>4, <1>9, <2>3, <2>4 DEF MayTake, IdType
  <2>6. Good(Answerer, u) /\ Made(x, u, c, id)
    BY <1>1, <1>3, <2>1, <2>5, InitGood
  <2>7. Started(x, u, c, "acker", id)
    BY <1>1, <1>3, <2>1, <2>5, InitStarted
  <2>8. /\ u \in PeerType /\ u.t.posted = x.t.posted
        /\ u.t.phase = x.t.phase /\ u.ch[c].state = "connecting"
        /\ u.ch[c].id = id /\ OnlyChannel(x, u, c)
    BY <2>6 DEF Good, Made
  <2>9. \A d \in Chans : d # c => u.ch[d] = x.ch[d]
    BY <2>8 DEF OnlyChannel
  <2>10. u.used = x.used \cup {id}
    <3>1. ~(id < 0)
      BY <1>4, SidsAssumption
    <3> QED
      BY <2>7, <3>1 DEF Started
  <2>11. Used(u)
    <3> SUFFICES ASSUME NEW i \in u.used
                 PROVE  \E d \in Chans : u.ch[d].id = i
      BY DEF Used
    <3>1. CASE i = id
      BY <1>3, <2>8, <3>1
    <3>2. CASE i \in x.used
      <4>1. PICK d \in Chans : x.ch[d].id = i
        BY <3>2 DEF Used
      <4>2. CASE d = c
        <5>1. x.ch[c].state # "none" \/ x.ch[c].id = -1
          BY <1>3, <1>6
        <5>2. i \in Sids
          BY <1>1, <3>2 DEF PeerType
        <5>3. i = id
          BY <1>7, <2>2, <4>1, <4>2, <5>1, <5>2
        <5> QED
          BY <1>3, <2>8, <5>3
      <4>3. CASE d # c
        BY <2>9, <4>1, <4>3
      <4> QED
        BY <4>2, <4>3
    <3> QED
      BY <2>10, <3>1, <3>2
  <2>12. \A d \in Chans : x.ch[d].state # "none" => u.ch[d].state # "none"
    BY <2>8, <2>9
  <2>13. \A d \in Chans : OpenEvent(e, d) => u.ch[d].state # "none"
    BY <1>5, <2>8
  <2> QED
    BY <2>8, <2>11, <2>12, <2>13 DEF Handled
<1> QED
  BY <1>8, <1>9


LEMMA AnswererHandles ==
  ASSUME NEW x, NEW o, Good(Answerer, x), config \in Configs,
         NEW e \in EventType,
         e.ev = "message" => MessageGood(Opener, o.ch, e.m),
         SameSids(x, o.ch), Unmixed(o), Used(x), NEW u \in Handle(x, e)
  PROVE  Handled(x, u, e)
<1>0. ASSUME NEW c \in Chans, c \in Connected(x)
      PROVE  x.ch[c].state # "none"
  BY <1>0 DEF Connected, Good, ChannelGood
<1>1. Answerer \in Peers
  BY AnswererIsOther
<1>2. Good(Answerer, x) /\ Kept(x, x)
  BY KeptReflexive
<1>3. CASE e.ev = "ready"
  <2>1. u \in OnSctpTransportReadyToSendData(x)
    BY <1>3 DEF Handle
  <2>2. Good(Answerer, u) /\ Kept(x, u)
    BY <1>1, <2>1, ReadyGood
  <2>3. \A c \in Chans : ~OpenEvent(e, c)
    BY <1>3 DEF OpenEvent
  <2> QED
    BY <2>2, <2>3, KeptHandled
<1>4. CASE e.ev = "closed"
  <2>1. u = x \/ \E c \in WithSid(x, e.sid) : u \in Close(x, c)
    BY <1>4 DEF Handle
  <2>2. \A c \in Chans : ~OpenEvent(e, c)
    BY <1>4 DEF OpenEvent
  <2>3. ASSUME NEW c \in WithSid(x, e.sid), u \in Close(x, c)
        PROVE  Good(Answerer, u) /\ Kept(x, u)
    <3>1. c \in Chans /\ x.ch[c].state # "none"
      BY <1>0 DEF WithSid, Connected
    <3> QED
      BY <1>1, <2>3, <3>1, CloseGood
  <2>4. Good(Answerer, u) /\ Kept(x, u)
    BY <1>2, <2>1, <2>3
  <2> QED
    BY <2>2, <2>4, KeptHandled
<1>5. CASE e.ev = "message"
  <2>1. PICK m : m = e.m
    OBVIOUS
  <2>2. m \in MessageType /\ MessageGood(Opener, o.ch, m)
    BY <1>5, <2>1 DEF EventType
  <2>3. CASE m.kind = "open"
    <3>1. u = OnDataChannelOpenMessage(x, e.m)
      BY <1>5, <2>1, <2>3 DEF Handle
    <3>2. e.m \in MessageType /\ e.m.kind = "open" /\ MessageGood(Opener, o.ch, e.m)
      BY <2>1, <2>2, <2>3
    <3> QED
      BY <1>5, <3>1, <3>2, OpenHandled
  <2>4. CASE m.kind # "open"
    <3>1. u = x \/ \E c \in WithSid(x, m.sid) : u \in OnDataReceived(x, c, m)
      BY <1>5, <2>1, <2>4 DEF Handle
    <3>2. \A c \in Chans : ~OpenEvent(e, c)
      BY <2>1, <2>4 DEF OpenEvent, IsOpen
    <3>3. ASSUME NEW c \in WithSid(x, m.sid), u \in OnDataReceived(x, c, m)
          PROVE  Good(Answerer, u) /\ Kept(x, u)
      <4>1. c \in Chans /\ x.ch[c].state # "none"
        BY <1>0 DEF WithSid, Connected
      <4> QED
        BY <1>1, <2>2, <2>4, <3>3, <4>1, OnDataReceivedGood
    <3>4. Good(Answerer, u) /\ Kept(x, u)
      BY <1>2, <3>1, <3>3
    <3> QED
      BY <3>2, <3>4, KeptHandled
  <2> QED
    BY <2>3, <2>4
<1> QED
  BY <1>3, <1>4, <1>5 DEF EventType

LEMMA HandledOpening ==
  ASSUME NEW a \in PeerType, NEW x, NEW u, NEW e, HeadOff(a, x, e),
         Handled(x, u, e), OpenFirst(a)
  PROVE  Hears(a, u) /\ OpenFirst(u)
<1>1. x.ch = a.ch /\ x.t.phase = a.t.phase
  BY DEF HeadOff
<1>2. PICK n \in Nat :
        /\ DOMAIN a.t.posted = 1..(n + 1) /\ DOMAIN x.t.posted = 1..n
        /\ a.t.posted[1] = e
        /\ \A i \in 1..n : x.t.posted[i] = a.t.posted[i + 1]
  BY DEF HeadOff
<1>3. /\ u.t.posted = x.t.posted /\ u.t.phase = x.t.phase /\ u \in PeerType
      /\ \A c \in Chans : x.ch[c].state # "none" => u.ch[c].state # "none"
      /\ \A c \in Chans : OpenEvent(e, c) => u.ch[c].state # "none"
  BY DEF Handled
<1>4. DOMAIN u.t.posted = 1..n /\ \A i \in 1..n : u.t.posted[i] = a.t.posted[i + 1]
  BY <1>2, <1>3
(* An OPEN that a had posted was e, or is one place ahead of where it was. *)
<1>5. ASSUME NEW c \in Chans, NEW j \in DOMAIN a.t.posted,
             OpenEvent(a.t.posted[j], c), u.ch[c].state = "none"
      PROVE  j - 1 \in DOMAIN u.t.posted /\ OpenEvent(u.t.posted[j - 1], c)
  <2>1. j # 1
    BY <1>2, <1>3, <1>5
  <2>2. j - 1 \in 1..n /\ (j - 1) + 1 = j
    BY <1>2, <2>1
  <2> QED
    BY <1>4, <1>5, <2>2
<1>6. Hears(a, u)
  <2> SUFFICES ASSUME NEW c \in Chans
               PROVE  /\ a.ch[c].state # "none" => u.ch[c].state # "none"
                      /\ Fresh(u, c) => /\ Fresh(a, c)
                                        /\ OpenPosted(a, c) => OpenPosted(u, c)
    BY DEF Hears
  <2>1. a.ch[c].state # "none" => u.ch[c].state # "none"
    BY <1>1, <1>3
  <2>2. Fresh(u, c) => Fresh(a, c)
    BY <1>1, <1>3, <2>1 DEF Fresh
  <2>3. Fresh(u, c) /\ OpenPosted(a, c) => OpenPosted(u, c)
    BY <1>5 DEF Fresh, OpenPosted
  <2> QED
    BY <2>1, <2>2, <2>3
<1>7. OpenFirst(u)
  <2> SUFFICES ASSUME NEW i \in DOMAIN u.t.posted, NEW f, f = u.t.posted[i],
                      f.ev = "message", f.m.kind = "data"
               PROVE  \/ u.ch[f.m.label].state # "none"
                      \/ \E j \in DOMAIN u.t.posted :
                           j < i /\ OpenEvent(u.t.posted[j], f.m.label)
    BY DEF OpenFirst
  <2>1. PICK c : c = f.m.label
    OBVIOUS
  <2>2. c \in Chans
    <3>1. f.m \in MessageType
      BY <1>3, PostedMessageType
    <3> QED
      BY <2>1, <3>1 DEF MessageType
  <2>3. i \in 1..n /\ i + 1 \in DOMAIN a.t.posted /\ a.t.posted[i + 1] = f
    BY <1>2, <1>4
  <2>4. \/ a.ch[c].state # "none"
        \/ \E j \in DOMAIN a.t.posted :
             j < i + 1 /\ OpenEvent(a.t.posted[j], c)
    BY <2>1, <2>3 DEF OpenFirst
  <2>5. CASE a.ch[c].state # "none"
    BY <1>1, <1>3, <2>1, <2>2, <2>5
  <2>6. ASSUME NEW j \in DOMAIN a.t.posted, j < i + 1,
               OpenEvent(a.t.posted[j], c), u.ch[c].state = "none"
        PROVE  \E k \in DOMAIN u.t.posted :
                 k < i /\ OpenEvent(u.t.posted[k], c)
    <3>1. j - 1 \in DOMAIN u.t.posted /\ OpenEvent(u.t.posted[j - 1], c)
      BY <1>5, <2>2, <2>6
    <3>2. j - 1 < i
      BY <1>2, <2>3, <2>6
    <3> QED
      BY <3>1, <3>2
  <2> QED
    BY <2>1, <2>4, <2>5, <2>6
<1> QED
  BY <1>6, <1>7

LEMMA DispatchOpening ==
  ASSUME Inv, Handshaken, ~config.negotiated, Unmixed(peer[Opener]),
         NEW p \in Peers, Dispatch(p)
  PROVE  Opening(peer'[Opener], peer'[Answerer])
<1>1. PICK q, o, a : q = Answerer /\ o = peer[Opener] /\ a = peer[q]
  OBVIOUS
<1>2. /\ q \in Peers /\ q # Opener /\ Opener \in Peers /\ Peers = {Opener, q}
      /\ Answerer = q
  BY <1>1, AnswererIsOther
<1>3. /\ Opening(o, a) /\ Unmixed(o) /\ config \in Configs
      /\ Good(Opener, o) /\ Good(Answerer, a)
      /\ o \in PeerType /\ a \in PeerType
  BY <1>1, <1>2, InvOf DEF Handshaken
<1>4. /\ PostedGood(a, Opener, o.ch) /\ PostedGood(o, q, a.ch)
      /\ SameSids(a, o.ch)
  BY <1>1, <1>2 DEF Inv, Agree
<1>5. PICK x, e, r :
        Dispatched(p, peer[p], x, e, r) /\ peer' = [peer EXCEPT ![p] = r]
  BY DispatchHead
<1>6. /\ e \in EventType /\ Good(p, x) /\ r \in Handle(x, e)
      /\ HeadOff(peer[p], x, e) /\ x.ch = peer[p].ch /\ x.used = peer[p].used
      /\ x.t.wire = peer[p].t.wire /\ x.t.phase = peer[p].t.phase
  BY <1>5 DEF Dispatched, HeadOff
<1>7. PICK i \in DOMAIN peer[p].t.posted : peer[p].t.posted[i] = e
  BY <1>6, HeadOffPosts
<1>8. CASE p = Opener
  <2>1. /\ Good(Opener, x) /\ x.ch = o.ch /\ x.t.wire = o.t.wire
        /\ x.t.phase = o.t.phase
    BY <1>1, <1>6, <1>8
  <2>2. e.ev = "message" => MessageGood(Answerer, a.ch, e.m)
    BY <1>1, <1>2, <1>4, <1>7, <1>8 DEF PostedGood
  <2>3. SameSids(a, x.ch) /\ Unmixed(x)
    BY <1>3, <1>4, <2>1 DEF SameSids, Unmixed
  <2>4. Hand(o, a) => Hand(x, a)
    <3>1. Steady(o, x)
      BY <2>1, NewOnWireReflexive DEF Steady, SameHand
    <3> QED
      BY <3>1, SteadyKeepsHand
  <2>5. ASSUME Hand(x, a)
        PROVE  Kept(x, r) /\ Hand(r, a)
    BY <1>3, <1>6, <2>1, <2>2, <2>3, <2>5, OpenerHandles
  <2>6. r.t.phase # "destroyed" => x.t.phase # "destroyed"
    <3>1. PeerStep(p, x, r, a.ch)
      <4>1. Linked(x)
        BY <1>5 DEF Dispatched
      <4>2. p # q /\ e.ev = "message" => MessageGood(q, a.ch, e.m)
        BY <1>2, <2>2
      <4> QED
        BY <1>2, <1>3, <1>6, <1>8, <4>1, <4>2, HandleStep
    <3> QED
      BY <3>1 DEF PeerStep
  <2>7. /\ r.t.phase # "destroyed" => peer[Opener].t.phase # "destroyed"
        /\ Hand(peer[Opener], peer[Answerer]) => Hand(r, peer[Answerer])
    BY <1>1, <2>1, <2>4, <2>5, <2>6
  <2> QED
    BY <1>5, <1>8, <2>7, OpenerOpening
<1>9. CASE p = q
  <2>1. /\ Good(Answerer, x) /\ x.ch = a.ch /\ x.used = a.used
        /\ HeadOff(a, x, e)
    BY <1>1, <1>2, <1>6, <1>9
  <2>2. e.ev = "message" => MessageGood(Opener, o.ch, e.m)
    BY <1>1, <1>4, <1>7, <1>9 DEF PostedGood
  <2>3. SameSids(x, o.ch)
    BY <1>4, <2>1 DEF SameSids
  <2>4. Used(x)
    BY <1>3, <2>1 DEF Opening, Used
  <2>5. Handled(x, r, e)
    BY <1>3, <1>6, <2>1, <2>2, <2>3, <2>4, AnswererHandles
  <2>6. Hears(a, r) /\ OpenFirst(r)
    BY <1>3, <2>1, <2>5, HandledOpening DEF Opening
  <2>7. Used(r)
    BY <2>5 DEF Handled
  <2>8. o.t.wire \in Seq(ChunkType)
    BY <1>3, PeerTypes, TransportTypes
  <2>9. Hand(o, a) => Hand(o, r)
    BY <2>6, <2>8, HearsHand
  <2>10. Opening(o, r)
    BY <1>3, <2>6, <2>7, <2>9 DEF Opening
  <2>11. peer'[Opener] = o /\ peer'[q] = r
    BY <1>1, <1>2, <1>5, <1>9 DEF Inv
  <2> QED
    BY <1>2, <2>10, <2>11
<1> QED
  BY <1>2, <1>8, <1>9


-----------------------------------------------------------------------------
(* The invariant holds, and what follows from it. *)
Unshared == Unmixed(peer[Opener])
OpeningInv == ~config.negotiated /\ Unshared => Handshaken

LEMMA InitOpening ==
  ASSUME Init
  PROVE  Handshaken
<1>1. PICK s : s = NewPeer
  OBVIOUS
<1>2. peer[Opener] = s /\ peer[Answerer] = s
  BY <1>1, AnswererIsOther DEF Init
<1>3. PICK n : n = NoChannel
  OBVIOUS
<1>4. s.t = NoTransport /\ s.used = {} /\ \A c \in Chans : s.ch[c] = n
  BY <1>1, <1>3 DEF NewPeer
<1>5. n.state = "none" /\ n.send = <<>> /\ n.handshake = "Init"
  BY <1>3 DEF NoChannel
<1>6. s.t.wire = <<>> /\ s.t.posted = <<>>
  BY <1>4 DEF NoTransport
<1>7. DOMAIN s.t.wire = {} /\ DOMAIN s.t.posted = {}
  BY <1>6
<1>8. Hand(s, s)
  BY <1>4, <1>5, <1>7 DEF Hand, ChannelHand
<1>9. Used(s) /\ OpenFirst(s)
  BY <1>4, <1>7 DEF Used, OpenFirst
<1> QED
  BY <1>2, <1>8, <1>9 DEF Handshaken, Opening

LEMMA NextOpening ==
  ASSUME Inv, Handshaken, ~config.negotiated, Unshared, [Next]_vars
  PROVE  Opening(peer'[Opener], peer'[Answerer])
<1>1. CASE UNCHANGED vars
  BY <1>1 DEF Handshaken, vars
<1>2. CASE Next
  <2>1. PICK p \in Peers : \/ Application(p)
                           \/ Session(p)
                           \/ Threads(p)
                           \/ LoseControlMessage(p)
                           \/ DestroySctpTransport(p)
    BY <1>2 DEF Next
  <2>2. CASE Application(p)
    <3>1. PICK c \in Chans : \/ CreateDataChannel(p, c)
                             \/ RegisterObserver(p, c)
                             \/ UnregisterObserver(p, c)
                             \/ Send(p, c)
                             \/ CloseChannel(p, c)
      BY <2>2 DEF Application
    <3> QED
      BY <3>1, CreateDataChannelOpening, RegisterObserverOpening,
         UnregisterObserverOpening, SendOpening, CloseChannelOpening
  <2>3. CASE Session(p)
    BY <2>3, CreateSctpTransportOpening, AllocateSctpSidsOpening, ConnectOpening
       DEF Session
  <2>4. CASE Threads(p)
    <3>1. CASE Receive(p)
      BY <3>1, ReceiveOpening
    <3>2. CASE OnSendThreshold(p)
      BY <3>2, OnSendThresholdOpening
    <3>3. CASE Dispatch(p)
      BY <3>3, DispatchOpening DEF Unshared
    <3>4. CASE \E c \in Chans : OnMessage(p, c)
      BY <3>4, OnMessageOpening
    <3> QED
      BY <2>4, <3>1, <3>2, <3>3, <3>4 DEF Threads
  <2>5. CASE LoseControlMessage(p)
    BY <2>5, LoseControlMessageOpening
  <2>6. CASE DestroySctpTransport(p)
    BY <2>6, DestroySctpTransportOpening
  <2> QED
    BY <2>1, <2>2, <2>3, <2>4, <2>5, <2>6
<1> QED
  BY <1>1, <1>2

LEMMA ConfigStays ==
  ASSUME Inv, [Next]_vars
  PROVE  config' = config
<1>1. ASSUME NEW p \in Peers
      PROVE  /\ Receive(p) => config' = config
             /\ Dispatch(p) => config' = config
  BY DEF Receive, Dispatch, Become
<1>2. ASSUME NEW p \in Peers, NEW c \in Chans
      PROVE  (\/ CreateDataChannel(p, c) \/ RegisterObserver(p, c)
              \/ UnregisterObserver(p, c) \/ Send(p, c) \/ CloseChannel(p, c)
              \/ OnMessage(p, c)) => config' = config
  BY ZenonT(60) DEF CreateDataChannel, RegisterObserver, UnregisterObserver, Send,
         CloseChannel, OnMessage, Become
<1>3. ASSUME NEW p \in Peers
      PROVE  (\/ CreateSctpTransport(p) \/ AllocateSctpSids(p) \/ Connect(p)
              \/ OnSendThreshold(p) \/ LoseControlMessage(p)
              \/ DestroySctpTransport(p)) => config' = config
  BY DEF CreateSctpTransport, AllocateSctpSids, Connect, OnSendThreshold,
         LoseControlMessage, DestroySctpTransport, Become
<1>4. CASE UNCHANGED vars
  BY <1>4 DEF vars
<1>5. CASE Next
  BY <1>1, <1>2, <1>3, <1>5 DEF Next, Application, Session, Threads
<1> QED
  BY <1>4, <1>5

(* Streams that are not shared now were not shared before. *)
LEMMA UnsharedBefore ==
  ASSUME SidsStay, Unmixed(peer'[Opener])
  PROVE  Unshared
<1>1. PICK s, r : s = peer[Opener] /\ r = peer'[Opener]
  OBVIOUS
<1>2. SidsKept(s, r)
  BY <1>1, AnswererIsOther DEF SidsStay
<1>3. Unmixed(s)
  BY <1>1, <1>2 DEF SidsKept, Unmixed
<1> QED
  BY <1>1, <1>3 DEF Unshared

(***************************************************************************)
(* The invariant of the opening handshake: a channel of the opener whose   *)
(* OPEN has gone out is known to the other peer, or the OPEN is on the     *)
(* wire or posted, and data the other peer has no channel for is ordered   *)
(* and behind it (SendControlMessage, SendDataMessage).                    *)
(***************************************************************************)
THEOREM OpeningInvariant == Spec => []OpeningInv
<1>1. Init => OpeningInv
  BY InitOpening DEF OpeningInv
<1>2. Inv /\ OpeningInv /\ [Next]_vars => OpeningInv'
  <2> SUFFICES ASSUME Inv, OpeningInv, [Next]_vars, (~config.negotiated)',
                      Unshared'
               PROVE  Handshaken'
    BY DEF OpeningInv
  <2>1. config' = config
    BY ConfigStays
  <2>2. SidsStay
    BY NextInv
  <2>3. Unmixed(peer'[Opener])
    BY DEF Unshared, Unmixed
  <2>4. Unshared
    BY <2>2, <2>3, UnsharedBefore
  <2>5. ~config.negotiated
    BY <2>1
  <2>6. Handshaken
    BY <2>4, <2>5 DEF OpeningInv
  <2>7. Opening(peer'[Opener], peer'[Answerer])
    BY <2>4, <2>5, <2>6, NextOpening
  <2> QED
    BY <2>7 DEF Handshaken
<1> QED
  BY <1>1, <1>2, Invariant, PTL DEF Spec

(***************************************************************************)
(* "make sure the remote peer will not receive any data before it receives *)
(* the OPEN message" (SendControlMessage): NoDataBeforeOpen holds in every *)
(* state that a run reaches without giving a stream to a second channel,   *)
(* for any number of channels and messages, ordered or not, whatever the   *)
(* transport refuses, loses or reorders.                                   *)
(***************************************************************************)
THEOREM OpenComesFirst == Spec => [](Unshared => NoDataBeforeOpen)
<1>1. Inv /\ OpeningInv => (Unshared => NoDataBeforeOpen)
  <2> SUFFICES ASSUME Inv, OpeningInv, Unshared, NEW p \in Peers,
                      NEW i \in DOMAIN peer[p].t.posted, NEW e,
                      e = peer[p].t.posted[i], e.ev = "message",
                      e.m.kind = "data", ~config.negotiated
               PROVE  \/ peer[p].ch[e.m.label].state # "none"
                      \/ \E j \in 1..(i - 1) :
                           OpenEvent(peer[p].t.posted[j], e.m.label)
    BY DEF NoDataBeforeOpen, OpenEvent, IsOpen
  <2>1. PICK q, a, s : q = Answerer /\ a = peer[q] /\ s = peer[p]
    OBVIOUS
  <2>2. q \in Peers /\ q # Opener /\ Peers = {Opener, q} /\ Opener \in Peers
    BY <2>1, AnswererIsOther
  <2>3. s \in PeerType /\ Good(q, a) /\ s.t.posted \in Seq(EventType)
    BY <2>1, <2>2, InvOf, PeerTypes, TransportTypes
  <2>4. PICK c \in Chans : c = e.m.label
    <3>1. e.m \in MessageType
      BY <2>1, <2>3, PostedMessageType
    <3> QED
      BY <3>1 DEF MessageType
  <2>5. CASE p = Opener
    <3>1. PostedGood(s, q, a.ch) /\ SameSids(a, s.ch)
      BY <2>1, <2>2, <2>5 DEF Inv, Agree
    <3>2. e.m.sid \in Sids /\ e.m.sid = a.ch[c].id
      BY <2>1, <2>4, <3>1 DEF PostedGood, MessageGood
    <3>3. a.ch[c].state # "none"
      <4>1. a.ch[c].state = "none" => a.ch[c].id = -1
        BY <2>3 DEF Good, ChannelGood
      <4>2. -1 \notin Sids
        BY SidsAssumption
      <4> QED
        BY <3>2, <4>1, <4>2
    <3>4. s.ch[c].id \in Sids
      BY <3>1, <3>3 DEF SameSids
    <3>5. s.ch[c].state # "none"
      <4>1. Good(p, s)
        BY <2>1, InvOf
      <4>2. s.ch[c].state = "none" => s.ch[c].id = -1
        BY <4>1 DEF Good, ChannelGood
      <4>3. -1 \notin Sids
        BY SidsAssumption
      <4> QED
        BY <3>4, <4>2, <4>3
    <3> QED
      BY <2>1, <2>4, <3>5
  <2>6. CASE p = q
    <3>1. OpenFirst(s)
      BY <2>1, <2>6 DEF OpeningInv, Handshaken, Opening
    <3>2. \/ s.ch[c].state # "none"
          \/ \E j \in DOMAIN s.t.posted :
               j < i /\ OpenEvent(s.t.posted[j], c)
      BY <2>1, <2>4, <3>1 DEF OpenFirst
    <3>3. \A j \in DOMAIN s.t.posted : j < i => j \in 1..(i - 1)
      BY <2>1, <2>3, LenProperties
    <3> QED
      BY <2>1, <2>4, <3>2, <3>3
  <2> QED
    BY <2>2, <2>5, <2>6
<1> QED
  BY <1>1, Invariant, OpeningInvariant, PTL
=============================================================================

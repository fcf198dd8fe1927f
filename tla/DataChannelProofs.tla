------------------------- MODULE DataChannelProofs -------------------------
(***************************************************************************)
(* What is proved about DataChannel for any number of channels, stream     *)
(* ids, messages and refusals: its type invariant, that a stream open in   *)
(* the transport belongs to a live channel, and that a channel that closed *)
(* has flushed its queue.                                                  *)
(***************************************************************************)
EXTENDS DataChannel, SequenceLemmas, FiniteSetTheorems

-----------------------------------------------------------------------------
(* The values of the state. *)
IdType == Sids \cup {-1}

MessageType ==
  [kind : {"open", "ack"}, sid : IdType, label : Chans, ordered : BOOLEAN]
  \cup [kind : {"data"}, sid : IdType, label : Chans, number : Nat,
        ordered : BOOLEAN]

ResetType == [kind : {"reset", "answer"}, sids : SUBSET Sids]
ChunkType == (MessageType \cup ResetType) \cup [kind : {"failed"}]

EventType ==
  ([ev : {"ready"}] \cup [ev : {"closed"}, sid : Sids])
  \cup [ev : {"message"}, m : MessageType]

TransportType ==
  [phase : Phases, open : SUBSET Sids, queued : SUBSET Sids,
   sent : SUBSET Sids, ready : BOOLEAN, posted : Seq(EventType),
   wire : Seq(ChunkType), blocks : 0..MaxBlocks, errors : 0..MaxErrors]

ChannelType ==
  [state : States, role : {"none", "opener", "acker"}, handshake : Handshakes,
   id : IdType, connected : BOOLEAN, writable : BOOLEAN, observer : BOOLEAN,
   control : Nat, send : Seq(Nat), received : Seq(Chans \X Nat),
   readymsg : BOOLEAN, messages_sent : Nat, first : Nat, accepted : Nat,
   delivered : Seq(Chans \X Nat), shut : BOOLEAN]

PeerType ==
  [t : TransportType, used : SUBSET Sids, sctp_ready : BOOLEAN,
   ch : [Chans -> ChannelType]]

-----------------------------------------------------------------------------
(* The invariant.  Unsent is how many of the messages a channel took are   *)
(* neither with the transport nor in its queue.                            *)
Shut(ch) == ch.state \in {"closing", "closed"}
Unsent(ch) == ch.accepted - ch.first - ch.messages_sent - Len(ch.send)

ChannelGood(p, ch) ==
  /\ Len(ch.send) <= MaxSendQueue /\ Len(ch.received) <= MaxRecvQueue
  /\ Unsent(ch) >= 0 /\ ch.accepted <= MaxMessages[p]
  /\ ch.state = "closed" => ch.send = <<>>
  /\ ch.role = "opener" => p = Opener /\ ~config.negotiated
  /\ ch.state = "none" => ~ch.connected /\ ~ch.readymsg /\ ch.id = -1

(* What p sends names its own channel by label and by sid. *)
MessageGood(p, chs, m) ==
  /\ m.sid \in Sids /\ m.sid = chs[m.label].id
  /\ m.kind = "open" => p = Opener /\ ~config.negotiated

WireGood(p, chs, wire) ==
  \A i \in DOMAIN wire : IsMessage(wire[i]) => MessageGood(p, chs, wire[i])

(* A stream has one owner, which is connected and has reserved the sid. *)
Owned(s) ==
  \A i \in s.t.open :
    \E c \in Chans : /\ Live(s.ch[c]) /\ s.ch[c].connected
                     /\ s.ch[c].id = i
Reserved(s) ==
  \A c \in Chans : Live(s.ch[c]) /\ s.ch[c].id \in Sids => s.ch[c].id \in s.used
Distinct(s) ==
  \A c, d \in Chans :
    Live(s.ch[c]) /\ Live(s.ch[d]) /\ s.ch[c].id = s.ch[d].id
    /\ s.ch[c].id \in Sids => c = d

Good(p, s) ==
  /\ s \in PeerType
  /\ \A c \in Chans : ChannelGood(p, s.ch[c])
  /\ Owned(s)
  /\ Reserved(s)
  /\ Distinct(s)
  /\ WireGood(p, s.ch, s.t.wire)

(* A live channel is connected once there is a transport. *)
Linked(s) ==
  \A c \in Chans : Live(s.ch[c]) /\ TransportExists(s.t) => s.ch[c].connected

(* Until it is shut a channel has lost nothing, and after that one message. *)
Flushes(s) ==
  \A c \in Chans : /\ Unsent(s.ch[c]) <= 1
                   /\ ~Shut(s.ch[c]) => Unsent(s.ch[c]) = 0

(* The messages posted at p come from a channel of q, and a channel that   *)
(* q's OPEN made has q's sid.                                              *)
PostedGood(s, q, chs) ==
  \A i \in DOMAIN s.t.posted :
    s.t.posted[i].ev = "message" => MessageGood(q, chs, s.t.posted[i].m)

SameSids(s, chs) ==
  \A c \in Chans : s.ch[c].state # "none" => /\ s.ch[c].id \in Sids
                                             /\ s.ch[c].id = chs[c].id

Agree(p, q) ==
  /\ PostedGood(peer[p], q, peer[q].ch)
  /\ p # Opener /\ ~config.negotiated => SameSids(peer[p], peer[q].ch)

Inv ==
  /\ config \in Configs
  /\ DOMAIN peer = Peers
  /\ \A p \in Peers : Good(p, peer[p]) /\ Linked(peer[p])
  /\ \A p \in Peers : peer[p].t.phase # "destroyed" => Flushes(peer[p])
  /\ \A p, q \in Peers : p # q => Agree(p, q)

-----------------------------------------------------------------------------
(* The transport. *)
LEMMA TransportTypes ==
  ASSUME NEW t \in TransportType
  PROVE  /\ t.phase \in Phases /\ t.open \in SUBSET Sids
         /\ t.queued \in SUBSET Sids /\ t.sent \in SUBSET Sids
         /\ t.ready \in BOOLEAN /\ t.posted \in Seq(EventType)
         /\ t.wire \in Seq(ChunkType)
         /\ t.blocks \in 0..MaxBlocks /\ t.errors \in 0..MaxErrors
BY DEF TransportType

(* What the operators leave alone that the channels depend on, and what    *)
(* they add to the wire.                                                   *)
TransportKept(t, u) ==
  /\ u \in TransportType
  /\ u.phase = t.phase /\ u.posted = t.posted

NewOnWire(t, u, S) ==
  /\ \A i \in DOMAIN t.wire : i \in DOMAIN u.wire /\ u.wire[i] = t.wire[i]
  /\ \A i \in DOMAIN u.wire : \/ i \in DOMAIN t.wire
                              \/ /\ u.wire[i] \in S
                                 /\ \A j \in DOMAIN t.wire : j < i

SendOutcome(t, ms, r) ==
  /\ r.n \in 0..Len(ms) /\ r.res \in {"ok", "block", "error"}
  /\ r.res = "ok" <=> r.n = Len(ms)
  /\ TransportKept(t, r.t) /\ r.t.open = t.open
  /\ NewOnWire(t, r.t, {m \in MessageType : /\ m.sid \in Sids
                                            /\ \E i \in DOMAIN ms : m = ms[i]})
  /\ r.n # 0 => \E i \in DOMAIN r.t.wire : r.t.wire[i] = ms[1]

LEMMA SendDataOutcome ==
  ASSUME NEW t \in TransportType, NEW ms \in Seq(MessageType),
         NEW r \in SendData(t, ms)
  PROVE  SendOutcome(t, ms, r)
<1> DEFINE Sent(n) == [t EXCEPT !.wire = @ \o SubSeq(ms, 1, n)]
           Out(n) == IF n = Len(ms)
                     THEN {[n |-> n, res |-> "ok", t |-> Sent(n)]}
                     ELSE IF ~MaySend(t, ms[n + 1])
                          THEN {[n |-> n, res |-> "error", t |-> Sent(n)]}
                          ELSE {[n |-> n, res |-> x.res, t |-> x.t] :
                                  x \in UsrsctpRefusals(Sent(n))}
           Sendable == {k \in 0..Len(ms) : \A i \in 1..k : MaySend(t, ms[i])}
<1>0. Len(ms) \in Nat
  BY LenProperties
<1>1. PICK n \in Sendable : r \in Out(n)
  <2>1. SendData(t, ms) = UNION {Out(n) : n \in Sendable}
    BY DEF SendData
  <2> HIDE DEF Out, Sendable
  <2> QED
    BY <2>1
<1>2. n \in 0..Len(ms) /\ \A i \in 1..n : ms[i].sid \in Sids
  BY DEF MaySend
<1>3. PICK u : u = Sent(n)
  OBVIOUS
<1>4. /\ u.phase = t.phase /\ u.open = t.open /\ u.queued = t.queued
      /\ u.sent = t.sent /\ u.ready = t.ready /\ u.posted = t.posted
      /\ u.blocks = t.blocks /\ u.errors = t.errors
      /\ u.wire = t.wire \o SubSeq(ms, 1, n)
  BY <1>3, TransportTypes DEF TransportType
<1>5. PICK a : a = SubSeq(ms, 1, n)
  OBVIOUS
<1>6. /\ a \in Seq(MessageType) /\ Len(a) = n
      /\ \A i \in 1..n : a[i] = ms[i]
  BY <1>0, <1>2, <1>5, SubSeqProperties
<1>7. /\ a \in Seq(ChunkType) /\ t.wire \in Seq(ChunkType)
      /\ DOMAIN ms = 1..Len(ms)
  BY <1>6, TransportTypes DEF ChunkType
<1>8. /\ t.wire \o a \in Seq(ChunkType)
      /\ Len(t.wire \o a) = Len(t.wire) + Len(a)
      /\ \A i \in 1..(Len(t.wire) + Len(a)) :
           (t.wire \o a)[i] = IF i <= Len(t.wire) THEN t.wire[i]
                              ELSE a[i - Len(t.wire)]
  BY <1>7, ConcatProperties
<1>9. u \in TransportType
  BY <1>3, <1>5, <1>8, TransportTypes DEF TransportType
<1> DEFINE S == {m \in MessageType : /\ m.sid \in Sids
                                     /\ \E i \in DOMAIN ms : m = ms[i]}
<1>10. NewOnWire(t, u, S)
  <2>1. PICK l \in Nat : l = Len(t.wire) /\ DOMAIN t.wire = 1..l
    BY <1>7, LenProperties
  <2>2. u.wire = t.wire \o a /\ DOMAIN u.wire = 1..(l + n)
    BY <1>4, <1>5, <1>6, <1>8, <2>1, LenProperties
  <2>3. ASSUME NEW i \in 1..(l + n)
        PROVE  \/ i \in DOMAIN t.wire
               \/ u.wire[i] \in S /\ \A j \in DOMAIN t.wire : j < i
    <3>1. CASE i <= l
      BY <2>1, <3>1
    <3>2. CASE i > l
      <4>1. i - l \in 1..n /\ i - l \in 1..Len(ms)
        BY <1>0, <1>2, <3>2
      <4>2. u.wire[i] = ms[i - l]
        BY <1>6, <1>8, <2>1, <2>2, <3>2, <4>1
      <4>3. ms[i - l] \in MessageType /\ ms[i - l].sid \in Sids
        BY <1>2, <1>7, <4>1, ElementOfSeq
      <4>4. \A j \in DOMAIN t.wire : j < i
        BY <2>1, <3>2
      <4> QED
        BY <1>7, <4>1, <4>2, <4>3, <4>4
    <3> QED
      BY <2>1, <3>1, <3>2
  <2>4. ASSUME NEW i \in DOMAIN t.wire
        PROVE  i \in DOMAIN u.wire /\ u.wire[i] = t.wire[i]
    BY <1>6, <1>8, <2>1, <2>2
  <2> QED
    BY <2>2, <2>3, <2>4 DEF NewOnWire
<1>16. n # 0 => \E i \in DOMAIN u.wire : u.wire[i] = ms[1]
  <2>1. PICK l \in Nat : l = Len(t.wire) /\ DOMAIN t.wire = 1..l
    BY <1>7, LenProperties
  <2>2. u.wire = t.wire \o a /\ DOMAIN u.wire = 1..(l + n)
    BY <1>4, <1>5, <1>6, <1>8, <2>1, LenProperties
  <2>3. ASSUME n # 0
        PROVE  l + 1 \in DOMAIN u.wire /\ u.wire[l + 1] = ms[1]
    <3>1. 1 \in 1..n /\ l + 1 \in 1..(l + n) /\ ~(l + 1 <= l) /\ l + 1 - l = 1
      BY <1>2, <2>3
    <3>2. a[1] = ms[1]
      BY <1>6, <3>1
    <3> QED
      BY <1>6, <1>8, <2>1, <2>2, <3>1, <3>2
  <2> QED
    BY <2>3
<1> HIDE DEF S
<1>11. ASSUME NEW x \in UsrsctpRefusals(u)
       PROVE  /\ x.res \in {"block", "error"} /\ TransportKept(t, x.t)
              /\ x.t.open = t.open /\ x.t.wire = u.wire
  <2>1. CASE u.blocks < MaxBlocks /\
             x = [res |-> "block", t |-> [u EXCEPT !.blocks = @ + 1,
                                                   !.ready = FALSE]]
    <3>1. x.t = [u EXCEPT !.blocks = u.blocks + 1, !.ready = FALSE]
          /\ x.res = "block"
      BY <2>1
    <3>2. u.blocks + 1 \in 0..MaxBlocks
      BY <1>9, <2>1, TransportTypes, UsrsctpAssumption
    <3>3. x.t \in TransportType
      BY <1>9, <3>1, <3>2 DEF TransportType
    <3> QED
      BY <1>4, <1>9, <3>1, <3>3 DEF TransportKept, TransportType
  <2>2. CASE u.errors < MaxErrors /\
             x = [res |-> "error", t |-> [u EXCEPT !.errors = @ + 1]]
    <3>1. x.t = [u EXCEPT !.errors = u.errors + 1] /\ x.res = "error"
      BY <2>2
    <3>2. u.errors + 1 \in 0..MaxErrors
      BY <1>9, <2>2, TransportTypes, UsrsctpAssumption
    <3>3. x.t \in TransportType
      BY <1>9, <3>1, <3>2 DEF TransportType
    <3> QED
      BY <1>4, <1>9, <3>1, <3>3 DEF TransportKept, TransportType
  <2> QED
    BY <2>1, <2>2 DEF UsrsctpRefusals
<1>12. \/ r = [n |-> n, res |-> "ok", t |-> u] /\ n = Len(ms)
       \/ r = [n |-> n, res |-> "error", t |-> u] /\ n # Len(ms)
       \/ /\ n # Len(ms)
          /\ \E x \in UsrsctpRefusals(u) :
               r = [n |-> n, res |-> x.res, t |-> x.t]
  BY <1>1, <1>3
<1>13. TransportKept(t, u) /\ u.open = t.open
  BY <1>4, <1>9 DEF TransportKept
<1>14. /\ r.n = n /\ r.res \in {"ok", "block", "error"}
       /\ r.res = "ok" <=> n = Len(ms)
       /\ TransportKept(t, r.t) /\ r.t.open = t.open /\ r.t.wire = u.wire
  <2> HIDE DEF Out, Sendable, Sent
  <2>1. CASE r = [n |-> n, res |-> "ok", t |-> u] /\ n = Len(ms)
    BY <1>13, <2>1
  <2>2. CASE r = [n |-> n, res |-> "error", t |-> u] /\ n # Len(ms)
    BY <1>13, <2>2
  <2>3. ASSUME NEW x \in UsrsctpRefusals(u), n # Len(ms),
               r = [n |-> n, res |-> x.res, t |-> x.t]
        PROVE  /\ r.n = n /\ r.res \in {"ok", "block", "error"}
               /\ r.res = "ok" <=> n = Len(ms)
               /\ TransportKept(t, r.t) /\ r.t.open = t.open
               /\ r.t.wire = u.wire
    BY <1>11, <2>3
  <2> QED
    BY <1>12, <2>1, <2>2, <2>3
<1>15. NewOnWire(t, r.t, S)
  BY <1>10, <1>14 DEF NewOnWire
<1> QED
  BY <1>2, <1>14, <1>15, <1>16 DEF SendOutcome, S

ResetChunks == {m \in ChunkType : ~IsMessage(m)}

LEMMA SendQueuedStreamResetsOutcome ==
  ASSUME NEW t \in TransportType, NEW u \in SendQueuedStreamResets(t)
  PROVE  TransportKept(t, u) /\ u.open = t.open /\ NewOnWire(t, u, ResetChunks)
<1> DEFINE m == [kind |-> "reset", sids |-> t.queued]
<1>1. CASE u = t
  BY <1>1 DEF TransportKept, NewOnWire
<1>2. CASE u = [t EXCEPT !.sent = t.queued, !.queued = {},
                         !.wire = Append(@, m)]
  <2>1. m \in ResetType /\ m.kind = "reset"
    BY TransportTypes DEF ResetType
  <2>2. m \in ResetChunks
    BY <2>1 DEF ResetChunks, ChunkType, IsMessage
  <2>3. PICK x : x = m
    OBVIOUS
  <2>4. x \in ChunkType /\ x \in ResetChunks
    BY <2>2, <2>3 DEF ResetChunks
  <2>5. u = [t EXCEPT !.sent = t.queued, !.queued = {},
                      !.wire = Append(t.wire, x)]
    BY <1>2, <2>3
  <2> HIDE DEF m
  <2>6. /\ Append(t.wire, x) \in Seq(ChunkType)
        /\ Len(Append(t.wire, x)) = Len(t.wire) + 1
        /\ \A i \in 1..Len(t.wire) : Append(t.wire, x)[i] = t.wire[i]
        /\ Append(t.wire, x)[Len(t.wire) + 1] = x
    BY <2>4, TransportTypes, AppendProperties
  <2>7. /\ u.wire = Append(t.wire, x) /\ u.open = t.open
        /\ u.phase = t.phase /\ u.posted = t.posted
    BY <2>5 DEF TransportType
  <2>8. u \in TransportType
    BY <2>5, <2>6, TransportTypes DEF TransportType
  <2>9. NewOnWire(t, u, ResetChunks)
    <3>1. PICK l \in Nat : l = Len(t.wire) /\ DOMAIN t.wire = 1..l
      BY TransportTypes, LenProperties
    <3>2. DOMAIN u.wire = 1..(l + 1)
      BY <2>6, <2>7, <3>1, LenProperties
    <3> QED
      BY <2>4, <2>6, <2>7, <3>1, <3>2 DEF NewOnWire
  <2> QED
    BY <2>7, <2>8, <2>9 DEF TransportKept
<1>3. CASE t.errors < MaxErrors /\ u = [t EXCEPT !.errors = @ + 1]
  <2>1. t.errors + 1 \in 0..MaxErrors
    BY <1>3, TransportTypes, UsrsctpAssumption
  <2>2. u \in TransportType
    BY <1>3, <2>1 DEF TransportType
  <2>3. /\ u.wire = t.wire /\ u.open = t.open
        /\ u.phase = t.phase /\ u.posted = t.posted
    BY <1>3 DEF TransportType
  <2> QED
    BY <2>2, <2>3 DEF TransportKept, NewOnWire
<1> QED
  BY <1>1, <1>2, <1>3 DEF SendQueuedStreamResets

LEMMA ResetStreamOutcome ==
  ASSUME NEW t \in TransportType, NEW sid \in Sids, NEW u \in ResetStream(t, sid)
  PROVE  /\ TransportKept(t, u) /\ u.open = t.open \ {sid}
         /\ NewOnWire(t, u, ResetChunks)
<1>1. CASE sid \notin t.open
  <2>1. u = t
    BY <1>1 DEF ResetStream
  <2> QED
    BY <1>1, <2>1 DEF TransportKept, NewOnWire
<1>2. CASE sid \in t.open
  <2>1. PICK v : v = [t EXCEPT !.open = @ \ {sid}, !.queued = @ \cup {sid}]
    OBVIOUS
  <2>2. /\ v \in TransportType /\ v.open = t.open \ {sid} /\ v.wire = t.wire
        /\ v.phase = t.phase /\ v.posted = t.posted
    BY <2>1 DEF TransportType
  <2>3. u \in SendQueuedStreamResets(v)
    BY <1>2, <2>1 DEF ResetStream
  <2>4. TransportKept(v, u) /\ u.open = v.open /\ NewOnWire(v, u, ResetChunks)
    BY <2>2, <2>3, SendQueuedStreamResetsOutcome
  <2> QED
    BY <2>2, <2>4 DEF TransportKept, NewOnWire
<1> QED
  BY <1>1, <1>2

LEMMA OpenStreamOutcome ==
  ASSUME NEW t \in TransportType, NEW sid \in Sids
  PROVE  /\ TransportKept(t, OpenStream(t, sid))
         /\ OpenStream(t, sid).wire = t.wire
         /\ t.open \subseteq OpenStream(t, sid).open
         /\ OpenStream(t, sid).open \subseteq t.open \cup {sid}
BY DEF OpenStream, TransportKept, TransportType

LEMMA OnStreamResetFailedOutcome ==
  ASSUME NEW t \in TransportType, NEW u \in OnStreamResetFailed(t)
  PROVE  TransportKept(t, u) /\ u.open = t.open /\ NewOnWire(t, u, ResetChunks)
<1>1. PICK v : v = [t EXCEPT !.queued = @ \cup t.sent, !.sent = {}]
  OBVIOUS
<1>2. /\ v \in TransportType /\ v.open = t.open /\ v.wire = t.wire
      /\ v.phase = t.phase /\ v.posted = t.posted
  BY <1>1 DEF TransportType
<1>3. u \in SendQueuedStreamResets(v)
  BY <1>1 DEF OnStreamResetFailed
<1>4. TransportKept(v, u) /\ u.open = v.open /\ NewOnWire(v, u, ResetChunks)
  BY <1>2, <1>3, SendQueuedStreamResetsOutcome
<1> QED
  BY <1>2, <1>4 DEF TransportKept, NewOnWire

(* An incoming reset may close streams, and posts no message. *)
PostsNoMessage(t, u) ==
  /\ \A i \in DOMAIN t.posted : i \in DOMAIN u.posted /\ u.posted[i] = t.posted[i]
  /\ \A i \in DOMAIN u.posted : i \in DOMAIN t.posted \/ u.posted[i].ev # "message"

LEMMA OnStreamResetIncomingOutcome ==
  ASSUME NEW t \in TransportType, NEW sids \in SUBSET Sids,
         NEW u \in OnStreamResetIncoming(t, sids)
  PROVE  /\ u \in TransportType /\ u.phase = t.phase /\ u.open \subseteq t.open
         /\ NewOnWire(t, u, ResetChunks) /\ PostsNoMessage(t, u)
<1>1. PICK S : S = ClosedRemotely(t, sids)
  OBVIOUS
<1>2. S \in SUBSET Sids /\ IsFiniteSet(S)
  BY <1>1, TransportTypes, SidsAssumption, FS_Subset DEF ClosedRemotely
<1>3. PICK n \in Nat : n = Cardinality(S)
  BY <1>2, FS_CardinalityType
<1>4. PICK f \in SetToSeqs(S) :
        u \in SendQueuedStreamResets(
                [t EXCEPT !.sent = @ \ sids, !.open = @ \ S,
                          !.queued = @ \ (sids \ t.sent),
                          !.posted = @ \o [i \in DOMAIN f |->
                                            [ev |-> "closed", sid |-> f[i]]]])
  BY <1>1 DEF OnStreamResetIncoming
<1>5. f \in [1..n -> S]
  BY <1>3, <1>4 DEF SetToSeqs
<1>6. PICK es : es = [i \in DOMAIN f |-> [ev |-> "closed", sid |-> f[i]]]
  OBVIOUS
<1>7. /\ es \in Seq(EventType) /\ Len(es) = n
      /\ \A i \in 1..n : es[i].ev = "closed"
  <2>1. es \in [1..n -> EventType] /\ \A i \in 1..n : es[i].ev = "closed"
    BY <1>2, <1>5, <1>6 DEF EventType
  <2> QED
    BY <2>1
<1>8. PICK v : v = [t EXCEPT !.sent = @ \ sids, !.open = @ \ S,
                             !.queued = @ \ (sids \ t.sent),
                             !.posted = t.posted \o es]
  OBVIOUS
<1>9. u \in SendQueuedStreamResets(v)
  BY <1>4, <1>6, <1>8
<1>10. /\ t.posted \o es \in Seq(EventType)
       /\ Len(t.posted \o es) = Len(t.posted) + Len(es)
       /\ \A i \in 1..(Len(t.posted) + Len(es)) :
            (t.posted \o es)[i] = IF i <= Len(t.posted) THEN t.posted[i]
                                  ELSE es[i - Len(t.posted)]
  BY <1>7, TransportTypes, ConcatProperties
<1>11. /\ v \in TransportType /\ v.open = t.open \ S /\ v.wire = t.wire
       /\ v.phase = t.phase /\ v.posted = t.posted \o es
  BY <1>8, <1>10, TransportTypes DEF TransportType
<1>12. TransportKept(v, u) /\ u.open = v.open /\ NewOnWire(v, u, ResetChunks)
  BY <1>9, <1>11, SendQueuedStreamResetsOutcome
<1>13. PostsNoMessage(t, u)
  <2>1. PICK l \in Nat : l = Len(t.posted) /\ DOMAIN t.posted = 1..l
    BY TransportTypes, LenProperties
  <2>2. u.posted = t.posted \o es /\ DOMAIN u.posted = 1..(l + n)
    BY <1>7, <1>10, <1>11, <1>12, <2>1, LenProperties DEF TransportKept
  <2>4. ASSUME NEW i \in DOMAIN t.posted
        PROVE  i \in DOMAIN u.posted /\ u.posted[i] = t.posted[i]
    BY <1>7, <1>10, <2>1, <2>2
  <2>3. ASSUME NEW i \in 1..(l + n)
        PROVE  i \in DOMAIN t.posted \/ u.posted[i].ev # "message"
    <3>1. CASE i <= l
      BY <2>1, <3>1
    <3>2. CASE i > l
      <4>1. i - l \in 1..n
        BY <3>2
      <4>2. u.posted[i] = es[i - l]
        BY <1>7, <1>10, <2>1, <2>2, <3>2
      <4> QED
        BY <1>7, <4>1, <4>2
    <3> QED
      BY <2>1, <3>1, <3>2
  <2> QED
    BY <2>2, <2>3, <2>4 DEF PostsNoMessage
<1> QED
  BY <1>11, <1>12, <1>13 DEF TransportKept, NewOnWire

-----------------------------------------------------------------------------
(* The channels. *)
LEMMA PeerTypes ==
  ASSUME NEW s \in PeerType
  PROVE  /\ s.t \in TransportType /\ s.used \in SUBSET Sids
         /\ s.sctp_ready \in BOOLEAN /\ s.ch \in [Chans -> ChannelType]
         /\ \A c \in Chans : s.ch[c] \in ChannelType
BY DEF PeerType

LEMMA ChannelTypes ==
  ASSUME NEW ch \in ChannelType
  PROVE  /\ ch.state \in States /\ ch.role \in {"none", "opener", "acker"}
         /\ ch.handshake \in Handshakes /\ ch.id \in IdType
         /\ ch.connected \in BOOLEAN /\ ch.writable \in BOOLEAN
         /\ ch.observer \in BOOLEAN /\ ch.readymsg \in BOOLEAN
         /\ ch.shut \in BOOLEAN /\ ch.control \in Nat
         /\ ch.send \in Seq(Nat) /\ ch.received \in Seq(Chans \X Nat)
         /\ ch.delivered \in Seq(Chans \X Nat)
         /\ ch.messages_sent \in Nat /\ ch.first \in Nat /\ ch.accepted \in Nat
BY DEF ChannelType

LEMMA UnsentInt ==
  ASSUME NEW ch \in ChannelType
  PROVE  Unsent(ch) \in Int /\ Len(ch.send) \in Nat /\ Len(ch.received) \in Nat
<1>1. Len(ch.send) \in Nat /\ Len(ch.received) \in Nat
  BY ChannelTypes, LenProperties
<1> QED
  BY <1>1, ChannelTypes DEF Unsent

(* What a handler leaves of a channel, and of a peer. *)
ChannelKept(x, y) ==
  /\ y.id = x.id
  /\ (y.state = "none") <=> (x.state = "none")
  /\ Unsent(y) = Unsent(x)
  /\ Shut(x) => Shut(y)
  /\ Live(y) => Live(x) /\ y.connected = x.connected

Kept(s, r) ==
  /\ r.t.phase = s.t.phase /\ r.t.posted = s.t.posted
  /\ r.used \subseteq s.used
  /\ \A c \in Chans : ChannelKept(s.ch[c], r.ch[c])

LEMMA KeptReflexive ==
  ASSUME NEW s
  PROVE  Kept(s, s)
BY DEF Kept, ChannelKept

LEMMA KeptTransitive ==
  ASSUME NEW s, NEW r, NEW u, Kept(s, r), Kept(r, u)
  PROVE  Kept(s, u)
BY DEF Kept, ChannelKept

(* A handler's step on a channel c that does not close it. *)
OnlyChannel(s, r, c) ==
  \A d \in Chans : d # c => r.ch[d] = s.ch[d]

OpenStep(p, s, r, c) ==
  /\ r \in PeerType /\ OnlyChannel(s, r, c)
  /\ ChannelGood(p, r.ch[c]) /\ ChannelKept(s.ch[c], r.ch[c])
  /\ r.ch[c].connected = s.ch[c].connected
  /\ Live(r.ch[c]) <=> Live(s.ch[c])
  /\ r.used = s.used
  /\ r.t.phase = s.t.phase /\ r.t.posted = s.t.posted
  /\ r.t.open = s.t.open
  /\ WireGood(p, s.ch, r.t.wire)

(* A channel that has a sid keeps it. *)
SidsKept(s, r) ==
  \A c \in Chans : s.ch[c].id \in Sids => r.ch[c].id = s.ch[c].id

LEMMA WireOfKeptSids ==
  ASSUME NEW p, NEW s \in PeerType, NEW r \in PeerType, NEW wire \in Seq(ChunkType),
         SidsKept(s, r), WireGood(p, s.ch, wire)
  PROVE  WireGood(p, r.ch, wire)
<1>1. ASSUME NEW i \in DOMAIN wire, IsMessage(wire[i])
      PROVE  MessageGood(p, r.ch, wire[i])
  <2>1. wire[i] \in ChunkType
    BY LenProperties, ElementOfSeq
  <2>2. wire[i].label \in Chans
    BY <1>1, <2>1 DEF ChunkType, MessageType, ResetType, IsMessage
  <2> QED
    BY <1>1, <2>2 DEF WireGood, MessageGood, SidsKept
<1> QED
  BY <1>1 DEF WireGood

LEMMA WireOfSameIds ==
  ASSUME NEW p, NEW s \in PeerType, NEW r \in PeerType, NEW wire \in Seq(ChunkType),
         \A c \in Chans : r.ch[c].id = s.ch[c].id,
         WireGood(p, s.ch, wire)
  PROVE  WireGood(p, r.ch, wire)
<1>1. SidsKept(s, r)
  BY DEF SidsKept
<1> QED
  BY <1>1, WireOfKeptSids

LEMMA OpenStepGood ==
  ASSUME NEW p \in Peers, NEW s, NEW r, NEW c \in Chans,
         Good(p, s), OpenStep(p, s, r, c)
  PROVE  Good(p, r) /\ Kept(s, r)
<1>1. s \in PeerType /\ r \in PeerType
  BY DEF Good, OpenStep
<1>2. ASSUME NEW d \in Chans
      PROVE  /\ r.ch[d].id = s.ch[d].id
             /\ r.ch[d].connected = s.ch[d].connected
             /\ Live(r.ch[d]) <=> Live(s.ch[d])
             /\ ChannelKept(s.ch[d], r.ch[d])
             /\ ChannelGood(p, r.ch[d])
  <2>1. CASE d = c
    BY <2>1 DEF OpenStep, ChannelKept
  <2>2. CASE d # c
    <3>1. r.ch[d] = s.ch[d]
      BY <2>2 DEF OpenStep, OnlyChannel
    <3>2. ChannelGood(p, s.ch[d])
      BY DEF Good
    <3> QED
      BY <3>1, <3>2 DEF ChannelKept
  <2> QED
    BY <2>1, <2>2
<1>3. Owned(r)
  BY <1>2 DEF Good, OpenStep, Owned
<1>4. Reserved(r)
  BY <1>2 DEF Good, OpenStep, Reserved
<1>5. Distinct(r)
  BY <1>2 DEF Good, Distinct
<1>6. WireGood(p, r.ch, r.t.wire)
  <2>1. r.t.wire \in Seq(ChunkType)
    BY <1>1, PeerTypes, TransportTypes
  <2>2. WireGood(p, s.ch, r.t.wire)
    BY DEF OpenStep
  <2> QED
    BY <1>1, <1>2, <2>1, <2>2, WireOfSameIds
<1>7. Kept(s, r)
  BY <1>2 DEF OpenStep, Kept
<1> QED
  BY <1>1, <1>2, <1>3, <1>4, <1>5, <1>6, <1>7 DEF Good

(* The wire after messages of channel c, or chunks that are not messages. *)
LEMMA WireGrows ==
  ASSUME NEW p, NEW chs, NEW t, NEW u, NEW S,
         WireGood(p, chs, t.wire), NewOnWire(t, u, S),
         \A m \in S : IsMessage(m) => MessageGood(p, chs, m)
  PROVE  WireGood(p, chs, u.wire)
BY DEF WireGood, NewOnWire

LEMMA DisconnectOutcome ==
  ASSUME NEW p, NEW s \in PeerType, NEW c \in Chans,
         WireGood(p, s.ch, s.t.wire),
         NEW r \in DisconnectFromProvider(s, c)
  PROVE  /\ r \in PeerType /\ OnlyChannel(s, r, c)
         /\ r.ch[c] = [s.ch[c] EXCEPT !.connected = FALSE]
         /\ r.used = s.used
         /\ r.t.phase = s.t.phase /\ r.t.posted = s.t.posted
         /\ r.t.open = IF s.ch[c].connected THEN s.t.open \ {s.ch[c].id}
                       ELSE s.t.open
         /\ WireGood(p, s.ch, r.t.wire)
         /\ NewOnWire(s.t, r.t, ResetChunks)
<1>0. s.ch[c] \in ChannelType /\ s.t \in TransportType
  BY PeerTypes
<1>3. NewOnWire(s.t, s.t, ResetChunks)
  BY DEF NewOnWire
<1>1. CASE ~s.ch[c].connected
  <2>1. r = s
    BY <1>1 DEF DisconnectFromProvider
  <2>2. s.ch[c] = [s.ch[c] EXCEPT !.connected = FALSE]
    BY <1>0, <1>1 DEF ChannelType
  <2> QED
    BY <1>1, <1>3, <2>1, <2>2 DEF OnlyChannel
<1>2. CASE s.ch[c].connected
  <2>1. PICK x : x = [s EXCEPT !.ch[c].connected = FALSE]
    OBVIOUS
  <2>2. /\ x \in PeerType /\ OnlyChannel(s, x, c)
        /\ x.ch[c] = [s.ch[c] EXCEPT !.connected = FALSE]
        /\ x.used = s.used /\ x.t = s.t
    BY <1>0, <2>1 DEF PeerType, ChannelType, OnlyChannel
  <2>3. CASE s.ch[c].id < 0
    <3>1. r = x
      BY <1>2, <2>1, <2>3 DEF DisconnectFromProvider
    <3>2. s.ch[c].id \notin s.t.open
      <4>1. s.ch[c].id \notin Nat
        BY <2>3
      <4>2. s.t.open \subseteq Nat
        BY <1>0, TransportTypes, SidsAssumption
      <4> QED
        BY <4>1, <4>2
    <3> QED
      BY <1>2, <1>3, <2>2, <3>1, <3>2
  <2>4. CASE ~(s.ch[c].id < 0)
    <3>1. s.ch[c].id \in Sids
      BY <1>0, <2>4, ChannelTypes DEF IdType
    <3>2. PICK u \in ResetStream(s.t, s.ch[c].id) : r = [x EXCEPT !.t = u]
      BY <1>2, <2>1, <2>4 DEF DisconnectFromProvider
    <3>3. /\ TransportKept(s.t, u) /\ u.open = s.t.open \ {s.ch[c].id}
          /\ NewOnWire(s.t, u, ResetChunks)
      BY <1>0, <3>1, ResetStreamOutcome
    <3>4. WireGood(p, s.ch, u.wire)
      <4>1. \A m \in ResetChunks : IsMessage(m) => MessageGood(p, s.ch, m)
        BY DEF ResetChunks
      <4> QED
        BY <3>3, <4>1, WireGrows
    <3>5. r \in PeerType /\ r.t = u /\ r.ch = x.ch /\ r.used = x.used
      BY <2>2, <3>2, <3>3 DEF PeerType, TransportKept
    <3> QED
      BY <1>2, <2>2, <3>3, <3>4, <3>5 DEF OnlyChannel, TransportKept
  <2> QED
    BY <2>3, <2>4
<1> QED
  BY <1>1, <1>2

(* Closing keeps the invariant: the owner of a stream resets it. *)
LEMMA ClosingGood ==
  ASSUME NEW p \in Peers, NEW s, NEW c \in Chans, Good(p, s),
         s.ch[c].state = "closing", NEW r \in UpdateStateClosing(s, c)
  PROVE  /\ Good(p, r) /\ Kept(s, r)
         /\ r.ch[c].handshake = s.ch[c].handshake
<1>0. /\ s \in PeerType /\ s.ch[c] \in ChannelType /\ ChannelGood(p, s.ch[c])
      /\ WireGood(p, s.ch, s.t.wire)
  BY PeerTypes DEF Good
<1>1. CASE s.ch[c].send # <<>> \/ s.ch[c].control # 0
  <2>1. r = s
    BY <1>1 DEF UpdateStateClosing
  <2> QED
    BY <2>1, KeptReflexive
<1>2. CASE ~(s.ch[c].send # <<>> \/ s.ch[c].control # 0)
  <2>1. PICK d \in DisconnectFromProvider(s, c) :
          r = OnSctpDataChannelClosed([d EXCEPT !.ch[c].state = "closed"], c)
    BY <1>2 DEF UpdateStateClosing
  <2>2. /\ d \in PeerType /\ OnlyChannel(s, d, c)
        /\ d.ch[c] = [s.ch[c] EXCEPT !.connected = FALSE]
        /\ d.used = s.used
        /\ d.t.phase = s.t.phase /\ d.t.posted = s.t.posted
        /\ d.t.open = IF s.ch[c].connected THEN s.t.open \ {s.ch[c].id}
                      ELSE s.t.open
        /\ WireGood(p, s.ch, d.t.wire)
    BY <1>0, <2>1, DisconnectOutcome
  <2>3. PICK x : x = [d EXCEPT !.ch[c].state = "closed"]
    OBVIOUS
  <2>4. /\ x \in PeerType /\ OnlyChannel(d, x, c)
        /\ x.ch[c] = [d.ch[c] EXCEPT !.state = "closed"]
        /\ x.used = d.used /\ x.t = d.t
    <3>1. d.ch[c] \in ChannelType
      BY <2>2, PeerTypes
    <3> QED
      BY <2>2, <2>3, <3>1 DEF PeerType, ChannelType, States, OnlyChannel
  <2>5. r = [x EXCEPT !.used = x.used \ {x.ch[c].id}]
    BY <2>1, <2>3 DEF OnSctpDataChannelClosed
  <2>6. PICK y : y = r.ch[c]
    OBVIOUS
  <2>7. /\ y \in ChannelType /\ y.state = "closed" /\ y.connected = FALSE
        /\ y.id = s.ch[c].id /\ y.send = s.ch[c].send
        /\ y.received = s.ch[c].received /\ y.role = s.ch[c].role
        /\ y.accepted = s.ch[c].accepted /\ y.first = s.ch[c].first
        /\ y.messages_sent = s.ch[c].messages_sent
        /\ y.handshake = s.ch[c].handshake
    <3>1. y = [d.ch[c] EXCEPT !.state = "closed"]
      BY <2>4, <2>5, <2>6 DEF PeerType
    <3>2. d.ch[c] \in ChannelType
      BY <2>2, PeerTypes
    <3> QED
      BY <1>0, <2>2, <3>1, <3>2 DEF ChannelType, States
  <2>8. /\ r \in PeerType /\ r.t = d.t /\ r.used = s.used \ {s.ch[c].id}
        /\ OnlyChannel(s, r, c)
    <3>1. x.ch[c].id = s.ch[c].id
      BY <2>2, <2>4, <1>0 DEF ChannelType
    <3> QED
      BY <2>2, <2>4, <2>5, <3>1 DEF PeerType, OnlyChannel
  <2>9. ChannelGood(p, y) /\ ChannelKept(s.ch[c], y) /\ ~Live(y)
    BY <1>0, <1>2, <2>7
       DEF ChannelGood, ChannelKept, Unsent, Shut, Live
  <2>10. ASSUME NEW e \in Chans
         PROVE  ChannelKept(s.ch[e], r.ch[e]) /\ ChannelGood(p, r.ch[e])
    <3>1. CASE e = c
      BY <2>6, <2>9, <3>1
    <3>2. CASE e # c
      <4>1. r.ch[e] = s.ch[e]
        BY <2>8, <3>2 DEF OnlyChannel
      <4>2. ChannelGood(p, s.ch[e])
        BY DEF Good
      <4> QED
        BY <4>1, <4>2 DEF ChannelKept
    <3> QED
      BY <3>1, <3>2
  <2>11. Owned(r)
    <3> SUFFICES ASSUME NEW i \in r.t.open
                 PROVE  \E e \in Chans : /\ Live(r.ch[e]) /\ r.ch[e].connected
                                         /\ r.ch[e].id = i
      BY DEF Owned
    <3>1. i \in s.t.open /\ (s.ch[c].connected => i # s.ch[c].id)
      BY <2>2, <2>8
    <3>2. PICK e \in Chans : /\ Live(s.ch[e]) /\ s.ch[e].connected
                             /\ s.ch[e].id = i
      BY <3>1 DEF Good, Owned
    <3>3. e # c
      BY <3>1, <3>2
    <3>4. r.ch[e] = s.ch[e]
      BY <2>8, <3>3 DEF OnlyChannel
    <3> QED
      BY <3>2, <3>4
  <2>12. Reserved(r)
    <3> SUFFICES ASSUME NEW e \in Chans, Live(r.ch[e]), r.ch[e].id \in Sids
                 PROVE  r.ch[e].id \in r.used
      BY DEF Reserved
    <3>1. e # c
      BY <2>6, <2>9
    <3>2. r.ch[e] = s.ch[e]
      BY <2>8, <3>1 DEF OnlyChannel
    <3>3. Live(s.ch[c])
      BY DEF Live
    <3>4. s.ch[e].id # s.ch[c].id
      BY <3>1, <3>2, <3>3 DEF Good, Distinct
    <3>5. s.ch[e].id \in s.used
      BY <3>2 DEF Good, Reserved
    <3> QED
      BY <2>8, <3>2, <3>4, <3>5
  <2>13. Distinct(r)
    <3> SUFFICES ASSUME NEW e \in Chans, NEW f \in Chans, Live(r.ch[e]),
                        Live(r.ch[f]), r.ch[e].id = r.ch[f].id,
                        r.ch[e].id \in Sids
                 PROVE  e = f
      BY DEF Distinct
    <3>1. e # c /\ f # c
      BY <2>6, <2>9
    <3>2. r.ch[e] = s.ch[e] /\ r.ch[f] = s.ch[f]
      BY <2>8, <3>1 DEF OnlyChannel
    <3> QED
      BY <3>2 DEF Good, Distinct
  <2>14. WireGood(p, r.ch, r.t.wire)
    <3>1. r.t.wire \in Seq(ChunkType)
      BY <2>8, PeerTypes, TransportTypes
    <3>2. \A e \in Chans : r.ch[e].id = s.ch[e].id
      BY <2>10 DEF ChannelKept
    <3>3. WireGood(p, s.ch, r.t.wire)
      BY <2>2, <2>8
    <3> QED
      BY <1>0, <2>8, <3>1, <3>2, <3>3, WireOfSameIds
  <2>15. Kept(s, r)
    BY <2>2, <2>8, <2>10 DEF Kept
  <2> QED
    BY <2>6, <2>7, <2>8, <2>10, <2>11, <2>12, <2>13, <2>14, <2>15 DEF Good
<1> QED
  BY <1>1, <1>2

LEMMA CloseGood ==
  ASSUME NEW p \in Peers, NEW s, NEW c \in Chans, Good(p, s),
         s.ch[c].state # "none", NEW r \in Close(s, c)
  PROVE  /\ Good(p, r) /\ Kept(s, r) /\ Shut(r.ch[c])
         /\ r.ch[c].handshake = s.ch[c].handshake
<1>0. s \in PeerType /\ s.ch[c] \in ChannelType /\ ChannelGood(p, s.ch[c])
  BY PeerTypes DEF Good
<1>1. CASE s.ch[c].state = "closed"
  BY <1>1, KeptReflexive DEF Close, Shut
<1>2. CASE s.ch[c].state # "closed"
  <2>1. PICK x : x = [s EXCEPT !.ch[c].state = "closing", !.ch[c].shut = TRUE]
    OBVIOUS
  <2>2. /\ x \in PeerType /\ OnlyChannel(s, x, c)
        /\ x.ch[c] = [s.ch[c] EXCEPT !.state = "closing", !.shut = TRUE]
        /\ x.used = s.used /\ x.t = s.t
    BY <1>0, <2>1 DEF PeerType, ChannelType, States, OnlyChannel
  <2>3. /\ x.ch[c].state = "closing" /\ x.ch[c].connected = s.ch[c].connected
        /\ x.ch[c].id = s.ch[c].id /\ x.ch[c].send = s.ch[c].send
        /\ x.ch[c].received = s.ch[c].received /\ x.ch[c].role = s.ch[c].role
        /\ x.ch[c].accepted = s.ch[c].accepted /\ x.ch[c].first = s.ch[c].first
        /\ x.ch[c].messages_sent = s.ch[c].messages_sent
        /\ x.ch[c].handshake = s.ch[c].handshake
    BY <1>0, <2>2 DEF ChannelType
  <2>4. Live(s.ch[c])
    BY <1>0, <1>2 DEF ChannelType, States, Live
  <2>5. /\ ChannelGood(p, x.ch[c]) /\ ChannelKept(s.ch[c], x.ch[c])
        /\ Live(x.ch[c])
    <3>1. Live(x.ch[c])
      BY <2>3 DEF Live
    <3>2. ChannelGood(p, x.ch[c])
      BY <1>0, <1>2, <2>3 DEF ChannelGood, Unsent
    <3> QED
      BY <1>2, <2>3, <2>4, <3>1, <3>2 DEF ChannelKept, Unsent, Shut
  <2>6. OpenStep(p, s, x, c)
    BY <2>2, <2>3, <2>4, <2>5 DEF OpenStep, Good
  <2>7. Good(p, x) /\ Kept(s, x)
    BY <2>6, OpenStepGood
  <2>8. r \in UpdateStateClosing(x, c)
    BY <1>2, <2>1 DEF Close
  <2>9. /\ Good(p, r) /\ Kept(x, r)
        /\ r.ch[c].handshake = x.ch[c].handshake
    BY <2>3, <2>7, <2>8, ClosingGood
  <2>10. Shut(r.ch[c])
    BY <2>3, <2>9 DEF Kept, ChannelKept, Shut
  <2> QED
    BY <2>3, <2>7, <2>9, <2>10, KeptTransitive
<1> QED
  BY <1>1, <1>2

(* A step on a channel that leaves alone what the invariant depends on. *)
SameChannel(x, y) ==
  /\ y.state = x.state /\ y.id = x.id /\ y.role = x.role
  /\ y.connected = x.connected
  /\ y.readymsg => x.readymsg
  /\ y.send = x.send /\ y.accepted = x.accepted /\ y.first = x.first
  /\ y.messages_sent = x.messages_sent
  /\ Len(y.received) <= MaxRecvQueue

QuietStep(p, s, r, c) ==
  /\ r \in PeerType /\ OnlyChannel(s, r, c)
  /\ SameChannel(s.ch[c], r.ch[c])
  /\ r.used = s.used
  /\ r.t.phase = s.t.phase /\ r.t.posted = s.t.posted
  /\ r.t.open = s.t.open
  /\ WireGood(p, s.ch, r.t.wire)

LEMMA QuietStepGood ==
  ASSUME NEW p \in Peers, NEW s, NEW r, NEW c \in Chans,
         Good(p, s), QuietStep(p, s, r, c)
  PROVE  Good(p, r) /\ Kept(s, r)
<1>1. ChannelGood(p, s.ch[c])
  BY DEF Good
<1>2. SameChannel(s.ch[c], r.ch[c])
  BY DEF QuietStep
<1>3. /\ ChannelGood(p, r.ch[c]) /\ ChannelKept(s.ch[c], r.ch[c])
      /\ r.ch[c].connected = s.ch[c].connected
      /\ Live(r.ch[c]) <=> Live(s.ch[c])
  BY <1>1, <1>2 DEF SameChannel, ChannelGood, ChannelKept, Unsent, Shut, Live
<1>4. OpenStep(p, s, r, c)
  BY <1>3 DEF QuietStep, OpenStep
<1> QED
  BY <1>4, OpenStepGood

LEMMA DeliverGood ==
  ASSUME NEW p \in Peers, NEW s, NEW c \in Chans, Good(p, s)
  PROVE  /\ Good(p, DeliverQueuedReceivedData(s, c))
         /\ Kept(s, DeliverQueuedReceivedData(s, c))
<1>0. s \in PeerType /\ s.ch[c] \in ChannelType
  BY PeerTypes DEF Good
<1>1. CASE ~s.ch[c].observer
  BY <1>1, KeptReflexive DEF DeliverQueuedReceivedData
<1>2. CASE s.ch[c].observer
  <2>1. PICK l : l = s.ch[c].delivered \o s.ch[c].received
    OBVIOUS
  <2>2. l \in Seq(Chans \X Nat)
    BY <1>0, <2>1, ChannelTypes, ConcatProperties
  <2>3. PICK r : r = [s EXCEPT !.ch[c].delivered = l, !.ch[c].received = <<>>]
    OBVIOUS
  <2>4. DeliverQueuedReceivedData(s, c) = r
    BY <1>2, <2>1, <2>3 DEF DeliverQueuedReceivedData
  <2>5. /\ r \in PeerType /\ OnlyChannel(s, r, c)
        /\ r.ch[c] = [s.ch[c] EXCEPT !.delivered = l, !.received = <<>>]
        /\ r.used = s.used /\ r.t = s.t
    <3>1. PICK e \in Seq(Chans \X Nat) : e = <<>>
      BY EmptySeq
    <3>2. r = [s EXCEPT !.ch[c].delivered = l, !.ch[c].received = e]
      BY <2>3, <3>1
    <3>3. /\ r \in PeerType /\ OnlyChannel(s, r, c)
          /\ r.ch[c] = [s.ch[c] EXCEPT !.delivered = l, !.received = e]
          /\ r.used = s.used /\ r.t = s.t
      BY <1>0, <2>2, <3>2 DEF PeerType, ChannelType, OnlyChannel
    <3> QED
      BY <3>1, <3>3
  <2>6. r.ch[c].received = <<>> /\ Len(<<>>) = 0
    BY <1>0, <2>5 DEF ChannelType
  <2>7. SameChannel(s.ch[c], r.ch[c])
    BY <1>0, <2>5, <2>6, BoundsAssumption DEF ChannelType, SameChannel
  <2>8. QuietStep(p, s, r, c)
    BY <2>5, <2>7 DEF QuietStep, Good
  <2> QED
    BY <2>4, <2>8, QuietStepGood
<1> QED
  BY <1>1, <1>2

LEMMA MessageTypes ==
  ASSUME NEW s \in PeerType, NEW c \in Chans, config \in Configs
  PROVE  /\ \A h : ControlMessage(s, c, h) \in MessageType
         /\ \A n \in Nat : DataMessage(s, c, n) \in MessageType
<1>1. config.ordered \in BOOLEAN
  BY ConfigsAssumption
<1>2. s.ch[c].id \in IdType
  BY PeerTypes, ChannelTypes
<1>3. ASSUME NEW h PROVE ControlMessage(s, c, h) \in MessageType
  <2>1. PICK o \in BOOLEAN : o = (config.ordered \/ h = "ShouldSendOpen")
    OBVIOUS
  <2>2. PICK k \in {"open", "ack"} :
          k = IF s.ch[c].role = "opener" THEN "open" ELSE "ack"
    OBVIOUS
  <2>3. ControlMessage(s, c, h)
          = [kind |-> k, sid |-> s.ch[c].id, label |-> c, ordered |-> o]
    BY <2>1, <2>2 DEF ControlMessage
  <2> QED
    BY <1>2, <2>3 DEF MessageType
<1>4. ASSUME NEW n \in Nat PROVE DataMessage(s, c, n) \in MessageType
  <2>1. PICK o \in BOOLEAN : o = (config.ordered \/ s.ch[c].handshake # "Ready")
    OBVIOUS
  <2>2. DataMessage(s, c, n) = [kind |-> "data", sid |-> s.ch[c].id,
                                label |-> c, number |-> n, ordered |-> o]
    BY <2>1 DEF DataMessage
  <2> QED
    BY <1>2, <2>2 DEF MessageType
<1> QED
  BY <1>3, <1>4

(* The messages of a channel name it by label and by sid. *)
LEMMA MessagesGood ==
  ASSUME NEW p \in Peers, NEW s, NEW c \in Chans, Good(p, s)
  PROVE  /\ \A h : ControlMessage(s, c, h).sid \in Sids =>
                     MessageGood(p, s.ch, ControlMessage(s, c, h))
         /\ \A n : DataMessage(s, c, n).sid \in Sids =>
                     MessageGood(p, s.ch, DataMessage(s, c, n))
<1>1. s.ch[c].role = "opener" => p = Opener /\ ~config.negotiated
  BY DEF Good, ChannelGood
<1> QED
  BY <1>1 DEF ControlMessage, DataMessage, MessageGood

(* What sending on a channel makes of its peer, before the result is       *)
(* looked at.                                                              *)
LEMMA SentGood ==
  ASSUME NEW p \in Peers, NEW s, NEW c \in Chans, Good(p, s),
         NEW ms \in Seq(MessageType), NEW r \in SendData(s.t, ms),
         \A i \in DOMAIN ms : ms[i].sid \in Sids => MessageGood(p, s.ch, ms[i])
  PROVE  /\ r.n \in 0..Len(ms) /\ r.res \in {"ok", "block", "error"}
         /\ r.res = "ok" <=> r.n = Len(ms)
         /\ r.t \in TransportType /\ r.t.phase = s.t.phase
         /\ r.t.posted = s.t.posted /\ r.t.open = s.t.open
         /\ WireGood(p, s.ch, r.t.wire)
<1>1. s.t \in TransportType /\ WireGood(p, s.ch, s.t.wire)
  BY PeerTypes DEF Good
<1>2. SendOutcome(s.t, ms, r)
  BY <1>1, SendDataOutcome
<1>3. PICK S : S = {m \in MessageType : /\ m.sid \in Sids
                                        /\ \E i \in DOMAIN ms : m = ms[i]}
  OBVIOUS
<1>4. NewOnWire(s.t, r.t, S)
  BY <1>2, <1>3 DEF SendOutcome
<1>5. \A m \in S : IsMessage(m) => MessageGood(p, s.ch, m)
  BY <1>3
<1>6. WireGood(p, s.ch, r.t.wire)
  BY <1>1, <1>4, <1>5, WireGrows
<1> QED
  BY <1>2, <1>6 DEF SendOutcome, TransportKept

LEMMA AfterControlType ==
  ASSUME NEW h \in Handshakes
  PROVE  AfterControl(h) \in Handshakes
BY DEF Handshakes, AfterControl

LEMMA SendControlGood ==
  ASSUME NEW p \in Peers, NEW s, NEW c \in Chans, NEW n \in Nat, Good(p, s),
         config \in Configs, s.ch[c].state # "none",
         NEW u \in SendControlMessages(s, c, n)
  PROVE  /\ Good(p, u) /\ Kept(s, u)
         /\ n = 1 => \/ u.ch[c].state = s.ch[c].state
                     \/ u.ch[c].handshake = s.ch[c].handshake
<1>0. s \in PeerType /\ s.ch[c] \in ChannelType
  BY PeerTypes DEF Good
<1> DEFINE hs == s.ch[c].handshake
           H(i) == IF i = 1 THEN hs ELSE AfterControl(hs)
<1>1. PICK ms : ms = [i \in 1..n |-> ControlMessage(s, c, H(i))]
  OBVIOUS
<1>2. /\ ms \in Seq(MessageType) /\ Len(ms) = n /\ DOMAIN ms = 1..n
      /\ \A i \in DOMAIN ms : ms[i].sid \in Sids => MessageGood(p, s.ch, ms[i])
  <2> HIDE DEF H
  <2>1. ms \in [1..n -> MessageType]
    BY <1>0, <1>1, MessageTypes
  <2>2. \A i \in DOMAIN ms : ms[i].sid \in Sids => MessageGood(p, s.ch, ms[i])
    BY <1>1, MessagesGood
  <2> QED
    BY <2>1, <2>2
<1> DEFINE S1(r) == [s EXCEPT !.t = r.t,
                              !.ch[c].handshake =
                                 IF r.n > 0 THEN AfterControl(@) ELSE @]
           Out(r) == CASE r.res = "ok" -> {S1(r)}
                       [] r.res = "block" ->
                            {[S1(r) EXCEPT !.ch[c].control = @ + (n - r.n)]}
                       [] r.res = "error" -> Close(S1(r), c)
<1>3. PICK r \in SendData(s.t, ms) : u \in Out(r)
  <2>1. SendControlMessages(s, c, n) = UNION {Out(r) : r \in SendData(s.t, ms)}
    BY <1>1 DEF SendControlMessages
  <2> HIDE DEF Out
  <2> QED
    BY <2>1
<1>4. /\ r.n \in 0..n /\ r.res \in {"ok", "block", "error"}
      /\ r.res = "ok" <=> r.n = n
      /\ r.t \in TransportType /\ r.t.phase = s.t.phase
      /\ r.t.posted = s.t.posted /\ r.t.open = s.t.open
      /\ WireGood(p, s.ch, r.t.wire)
  BY <1>2, SentGood
<1>5. PICK h \in Handshakes : h = IF r.n > 0 THEN AfterControl(hs) ELSE hs
  <2>1. hs \in Handshakes /\ AfterControl(hs) \in Handshakes
    BY <1>0, ChannelTypes, AfterControlType
  <2> QED
    BY <2>1
<1>6. PICK x : x = [s EXCEPT !.t = r.t, !.ch[c].handshake = h]
  OBVIOUS
<1>7. S1(r) = x
  BY <1>5, <1>6
<1>8. /\ x \in PeerType /\ OnlyChannel(s, x, c)
      /\ x.ch[c] = [s.ch[c] EXCEPT !.handshake = h]
      /\ x.used = s.used /\ x.t = r.t
  BY <1>0, <1>4, <1>6 DEF PeerType, ChannelType, OnlyChannel
<1>9. SameChannel(s.ch[c], x.ch[c])
  BY <1>0, <1>8 DEF ChannelType, SameChannel, Good, ChannelGood
<1>10. QuietStep(p, s, x, c)
  BY <1>4, <1>8, <1>9 DEF QuietStep
<1>11. Good(p, x) /\ Kept(s, x)
  BY <1>10, QuietStepGood
<1>12. x.ch[c].state = s.ch[c].state
  BY <1>9 DEF SameChannel
<1>13. \/ u = x
       \/ u = [x EXCEPT !.ch[c].control = @ + (n - r.n)]
       \/ u \in Close(x, c) /\ r.res = "error"
  BY <1>3, <1>4, <1>7
<1> HIDE DEF S1, Out, H
<1>14. CASE u = x
  BY <1>11, <1>12, <1>14
<1>15. CASE u = [x EXCEPT !.ch[c].control = @ + (n - r.n)]
  <2>1. x.ch[c] \in ChannelType
    BY <1>8, PeerTypes
  <2>2. PICK k \in Nat : k = x.ch[c].control + (n - r.n)
    BY <1>4, <2>1, ChannelTypes
  <2>3. u = [x EXCEPT !.ch[c].control = k]
    BY <1>15, <2>2
  <2>4. /\ u \in PeerType /\ OnlyChannel(x, u, c)
        /\ u.ch[c] = [x.ch[c] EXCEPT !.control = k]
        /\ u.used = x.used /\ u.t = x.t
    BY <1>8, <2>1, <2>3 DEF PeerType, ChannelType, OnlyChannel
  <2>5. SameChannel(x.ch[c], u.ch[c])
    BY <1>11, <2>1, <2>4 DEF ChannelType, SameChannel, Good, ChannelGood
  <2>6. QuietStep(p, x, u, c)
    BY <1>11, <2>4, <2>5 DEF QuietStep, Good
  <2>7. Good(p, u) /\ Kept(x, u)
    BY <1>11, <2>6, QuietStepGood
  <2>8. u.ch[c].state = s.ch[c].state
    BY <1>12, <2>5 DEF SameChannel
  <2> QED
    BY <1>11, <2>7, <2>8, KeptTransitive
<1>16. CASE u \in Close(x, c) /\ r.res = "error"
  <2>1. /\ Good(p, u) /\ Kept(x, u)
        /\ u.ch[c].handshake = x.ch[c].handshake
    BY <1>11, <1>12, <1>16, CloseGood
  <2>2. n = 1 => r.n = 0
    BY <1>4, <1>16
  <2>3. n = 1 => x.ch[c].handshake = s.ch[c].handshake
    BY <1>0, <1>5, <1>8, <2>2 DEF ChannelType
  <2> QED
    BY <1>11, <2>1, <2>3, KeptTransitive
<1> QED
  BY <1>13, <1>14, <1>15, <1>16

LEMMA SendQueuedControlGood ==
  ASSUME NEW p \in Peers, NEW s, NEW c \in Chans, Good(p, s),
         config \in Configs, s.ch[c].state # "none",
         NEW u \in SendQueuedControlMessages(s, c)
  PROVE  Good(p, u) /\ Kept(s, u)
<1>0. s \in PeerType /\ s.ch[c] \in ChannelType
  BY PeerTypes DEF Good
<1>1. PICK x : x = [s EXCEPT !.ch[c].control = 0]
  OBVIOUS
<1>2. /\ x \in PeerType /\ OnlyChannel(s, x, c)
      /\ x.ch[c] = [s.ch[c] EXCEPT !.control = 0]
      /\ x.used = s.used /\ x.t = s.t
  BY <1>0, <1>1 DEF PeerType, ChannelType, OnlyChannel
<1>3. SameChannel(s.ch[c], x.ch[c])
  BY <1>0, <1>2 DEF ChannelType, SameChannel, Good, ChannelGood
<1>4. QuietStep(p, s, x, c)
  BY <1>2, <1>3 DEF QuietStep, Good
<1>5. Good(p, x) /\ Kept(s, x)
  BY <1>4, QuietStepGood
<1>6. x.ch[c].state # "none"
  BY <1>3 DEF SameChannel
<1>7. PICK n \in Nat : n = s.ch[c].control
  BY <1>0, ChannelTypes
<1>8. u \in SendControlMessages(x, c, n)
  BY <1>1, <1>7 DEF SendQueuedControlMessages
<1>9. Good(p, u) /\ Kept(x, u)
  BY <1>5, <1>6, <1>8, SendControlGood
<1> QED
  BY <1>5, <1>9, KeptTransitive

LEMMA SendQueuedDataGood ==
  ASSUME NEW p \in Peers, NEW s, NEW c \in Chans, Good(p, s),
         config \in Configs, s.ch[c].state # "none",
         NEW u \in SendQueuedDataMessages(s, c)
  PROVE  Good(p, u) /\ Kept(s, u)
<1>0. s \in PeerType /\ s.ch[c] \in ChannelType /\ ChannelGood(p, s.ch[c])
  BY PeerTypes DEF Good
<1>1. PICK q : q = s.ch[c].send
  OBVIOUS
<1>2. q \in Seq(Nat) /\ Len(q) \in Nat /\ DOMAIN q = 1..Len(q)
  BY <1>0, <1>1, ChannelTypes, LenProperties
<1>3. PICK ms : ms = [i \in DOMAIN q |-> DataMessage(s, c, q[i])]
  OBVIOUS
<1>4. /\ ms \in Seq(MessageType) /\ Len(ms) = Len(q)
      /\ \A i \in DOMAIN ms : ms[i].sid \in Sids => MessageGood(p, s.ch, ms[i])
  <2>1. \A i \in 1..Len(q) : q[i] \in Nat
    BY <1>2, ElementOfSeq
  <2>2. ms \in [1..Len(q) -> MessageType]
    BY <1>0, <1>2, <1>3, <2>1, MessageTypes
  <2>3. \A i \in DOMAIN ms : ms[i].sid \in Sids => MessageGood(p, s.ch, ms[i])
    BY <1>3, MessagesGood
  <2> QED
    BY <1>2, <2>2, <2>3
<1> DEFINE S1(r) == [s EXCEPT !.t = r.t,
                              !.ch[c].messages_sent = @ + r.n,
                              !.ch[c].send = SubSeq(@, r.n + 1, Len(@))]
           Out(r) == IF r.res = "error" THEN Close(S1(r), c) ELSE {S1(r)}
<1>5. PICK r \in SendData(s.t, ms) : u \in Out(r)
  <2>1. SendQueuedDataMessages(s, c) = UNION {Out(r) : r \in SendData(s.t, ms)}
    BY <1>1, <1>3 DEF SendQueuedDataMessages
  <2> HIDE DEF Out
  <2> QED
    BY <2>1
<1>6. /\ r.n \in 0..Len(q)
      /\ r.t \in TransportType /\ r.t.phase = s.t.phase
      /\ r.t.posted = s.t.posted /\ r.t.open = s.t.open
      /\ WireGood(p, s.ch, r.t.wire)
  BY <1>4, SentGood
<1>7. PICK l : l = SubSeq(q, r.n + 1, Len(q))
  OBVIOUS
<1>8. l \in Seq(Nat) /\ Len(l) = Len(q) - r.n
  <2>1. l \in Seq(Nat) /\ Len(l) = IF r.n + 1 <= Len(q)
                                   THEN Len(q) - (r.n + 1) + 1 ELSE 0
    BY <1>2, <1>6, <1>7, SubSeqProperties
  <2> QED
    BY <1>2, <1>6, <2>1
<1>9. PICK k \in Nat : k = s.ch[c].messages_sent + r.n
  BY <1>0, <1>2, <1>6, ChannelTypes
<1>10. PICK x : x = [s EXCEPT !.t = r.t, !.ch[c].messages_sent = k,
                              !.ch[c].send = l]
  OBVIOUS
<1>11. S1(r) = x
  BY <1>1, <1>7, <1>9, <1>10
<1>12. /\ x \in PeerType /\ OnlyChannel(s, x, c)
       /\ x.ch[c] = [s.ch[c] EXCEPT !.messages_sent = k, !.send = l]
       /\ x.used = s.used /\ x.t = r.t
  BY <1>0, <1>6, <1>8, <1>10 DEF PeerType, ChannelType, OnlyChannel
<1>13. PICK y : y = x.ch[c]
  OBVIOUS
<1>14. /\ y.state = s.ch[c].state /\ y.id = s.ch[c].id
       /\ y.role = s.ch[c].role /\ y.connected = s.ch[c].connected
       /\ y.readymsg = s.ch[c].readymsg /\ y.received = s.ch[c].received
       /\ y.accepted = s.ch[c].accepted /\ y.first = s.ch[c].first
       /\ y.send = l /\ y.messages_sent = k
  BY <1>0, <1>12, <1>13 DEF ChannelType
<1>15. Unsent(y) = Unsent(s.ch[c])
  <2>1. PICK m \in Nat : m = Len(q)
    BY <1>2
  <2>2. /\ s.ch[c].accepted \in Nat /\ s.ch[c].first \in Nat
        /\ s.ch[c].messages_sent \in Nat
    BY <1>0, ChannelTypes
  <2>3. Unsent(y) = s.ch[c].accepted - s.ch[c].first
                      - (s.ch[c].messages_sent + r.n) - (m - r.n)
    BY <1>8, <1>9, <1>14, <2>1 DEF Unsent
  <2>4. Unsent(s.ch[c])
          = s.ch[c].accepted - s.ch[c].first - s.ch[c].messages_sent - m
    BY <1>1, <2>1 DEF Unsent
  <2>5. \A a, f, g, n, h \in Int :
          a - f - (g + n) - (h - n) = a - f - g - h
    OBVIOUS
  <2>6. r.n \in Int
    BY <1>2, <1>6
  <2>7. s.ch[c].accepted - s.ch[c].first - (s.ch[c].messages_sent + r.n)
          - (m - r.n)
        = s.ch[c].accepted - s.ch[c].first - s.ch[c].messages_sent - m
    BY ONLY <2>2, <2>5, <2>6, m \in Nat
  <2> QED
    BY <2>3, <2>4, <2>7, Zenon
<1>16. Len(l) <= MaxSendQueue /\ (q = <<>> => l = <<>>)
  <2>1. Len(q) <= MaxSendQueue /\ MaxSendQueue \in Nat
    BY <1>0, <1>1, BoundsAssumption DEF ChannelGood
  <2>2. Len(l) <= MaxSendQueue
    BY <1>2, <1>6, <1>8, <2>1
  <2>3. ASSUME q = <<>> PROVE l = <<>>
    <3>1. Len(q) = 0
      BY <2>3, EmptySeq
    <3>2. Len(l) = 0
      BY <1>6, <1>8, <3>1
    <3> QED
      BY <1>8, <3>2, EmptySeq
  <2> QED
    BY <2>2, <2>3
<1>17. /\ ChannelGood(p, y) /\ ChannelKept(s.ch[c], y)
       /\ Live(y) <=> Live(s.ch[c])
  BY <1>0, <1>1, <1>14, <1>15, <1>16
     DEF ChannelGood, ChannelKept, Shut, Live
<1>18. OpenStep(p, s, x, c)
  BY <1>6, <1>12, <1>13, <1>14, <1>17 DEF OpenStep
<1>19. Good(p, x) /\ Kept(s, x)
  BY <1>18, OpenStepGood
<1>20. u = x \/ u \in Close(x, c)
  BY <1>5, <1>11
<1> HIDE DEF S1, Out
<1>21. CASE u = x
  BY <1>19, <1>21
<1>22. CASE u \in Close(x, c)
  <2>1. x.ch[c].state # "none"
    BY <1>13, <1>14
  <2>2. Good(p, u) /\ Kept(x, u)
    BY <1>19, <1>22, <2>1, CloseGood
  <2> QED
    BY <1>19, <2>2, KeptTransitive
<1> QED
  BY <1>20, <1>21, <1>22

(* Opening a channel that sent its first control message.  One that a      *)
(* failed message closed is not opened: its handshake did not move on.     *)
LEMMA UpdateStateGood ==
  ASSUME NEW p \in Peers, NEW s, NEW c \in Chans, Good(p, s),
         config \in Configs, s.ch[c].state # "none",
         NEW u \in UpdateState(s, c)
  PROVE  Good(p, u) /\ Kept(s, u)
<1> DEFINE Unsettled == s.ch[c].handshake \in {"ShouldSendOpen", "ShouldSendAck"}
           Started == IF Unsettled THEN SendControlMessages(s, c, 1) ELSE {s}
           Opens(r) == /\ r.ch[c].writable
                       /\ r.ch[c].handshake \in {"Ready", "WaitingForAck"}
           Opened(r) == [r EXCEPT !.ch[c].state = "open"]
<1>1. CASE s.ch[c].state = "connecting" /\ s.ch[c].connected
  <2>1. PICK r \in Started :
          u = IF Opens(r) THEN DeliverQueuedReceivedData(Opened(r), c) ELSE r
    BY <1>1 DEF UpdateState
  <2>2. /\ Good(p, r) /\ Kept(s, r)
        /\ Opens(r) => r.ch[c].state = "connecting"
    <3>1. CASE r = s
      BY <1>1, <3>1, KeptReflexive
    <3>2. CASE r \in SendControlMessages(s, c, 1) /\ Unsettled
      <4>1. /\ Good(p, r) /\ Kept(s, r)
            /\ \/ r.ch[c].state = s.ch[c].state
               \/ r.ch[c].handshake = s.ch[c].handshake
        BY <3>2, SendControlGood
      <4> QED
        BY <1>1, <3>2, <4>1
    <3> QED
      BY <2>1, <3>1, <3>2
  <2> HIDE DEF Started
  <2>3. CASE u = r
    BY <2>2, <2>3
  <2>4. CASE Opens(r) /\ u = DeliverQueuedReceivedData(Opened(r), c)
    <3>0. r \in PeerType /\ r.ch[c] \in ChannelType /\ ChannelGood(p, r.ch[c])
      BY <2>2, PeerTypes DEF Good
    <3>1. PICK x : x = [r EXCEPT !.ch[c].state = "open"]
      OBVIOUS
    <3>2. /\ x \in PeerType /\ OnlyChannel(r, x, c)
          /\ x.ch[c] = [r.ch[c] EXCEPT !.state = "open"]
          /\ x.used = r.used /\ x.t = r.t
      BY <3>0, <3>1 DEF PeerType, ChannelType, States, OnlyChannel
    <3>3. /\ x.ch[c].state = "open" /\ x.ch[c].connected = r.ch[c].connected
          /\ x.ch[c].id = r.ch[c].id /\ x.ch[c].send = r.ch[c].send
          /\ x.ch[c].received = r.ch[c].received /\ x.ch[c].role = r.ch[c].role
          /\ x.ch[c].accepted = r.ch[c].accepted
          /\ x.ch[c].first = r.ch[c].first
          /\ x.ch[c].messages_sent = r.ch[c].messages_sent
      BY <3>0, <3>2 DEF ChannelType
    <3>4. /\ ChannelGood(p, x.ch[c]) /\ ChannelKept(r.ch[c], x.ch[c])
          /\ Live(x.ch[c]) /\ Live(r.ch[c])
      BY <2>2, <2>4, <3>0, <3>3
         DEF ChannelGood, ChannelKept, Unsent, Shut, Live
    <3>5. OpenStep(p, r, x, c)
      BY <2>2, <3>2, <3>3, <3>4 DEF OpenStep, Good
    <3>6. Good(p, x) /\ Kept(r, x)
      BY <2>2, <3>5, OpenStepGood
    <3>7. u = DeliverQueuedReceivedData(x, c)
      BY <2>4, <3>1
    <3>8. Good(p, u) /\ Kept(x, u)
      BY <3>6, <3>7, DeliverGood
    <3> QED
      BY <2>2, <3>6, <3>8, KeptTransitive
  <2> QED
    BY <2>1, <2>3, <2>4
<1>2. CASE s.ch[c].state = "closing"
  <2>1. u \in UpdateStateClosing(s, c)
    BY <1>2 DEF UpdateState
  <2> QED
    BY <1>2, <2>1, ClosingGood
<1>3. CASE ~(s.ch[c].state = "connecting" /\ s.ch[c].connected)
           /\ s.ch[c].state # "closing"
  <2>1. u = s
    BY <1>3 DEF UpdateState
  <2> QED
    BY <2>1, KeptReflexive
<1> QED
  BY <1>1, <1>2, <1>3

LEMMA OnChannelReadyGood ==
  ASSUME NEW p \in Peers, NEW s, NEW c \in Chans, Good(p, s),
         config \in Configs, s.ch[c].state # "none",
         NEW u \in OnChannelReady(s, c)
  PROVE  Good(p, u) /\ Kept(s, u)
<1>0. s \in PeerType /\ s.ch[c] \in ChannelType
  BY PeerTypes DEF Good
<1>1. PICK x : x = [s EXCEPT !.ch[c].writable = TRUE]
  OBVIOUS
<1>2. /\ x \in PeerType /\ OnlyChannel(s, x, c)
      /\ x.ch[c] = [s.ch[c] EXCEPT !.writable = TRUE]
      /\ x.used = s.used /\ x.t = s.t
  BY <1>0, <1>1 DEF PeerType, ChannelType, OnlyChannel
<1>3. SameChannel(s.ch[c], x.ch[c])
  BY <1>0, <1>2 DEF ChannelType, SameChannel, Good, ChannelGood
<1>4. QuietStep(p, s, x, c)
  BY <1>2, <1>3 DEF QuietStep, Good
<1>5. Good(p, x) /\ Kept(s, x)
  BY <1>4, QuietStepGood
<1>6. PICK y, z : /\ y \in SendQueuedControlMessages(x, c)
                    /\ z \in SendQueuedDataMessages(y, c)
                    /\ u \in UpdateState(z, c)
  <2>1. OnChannelReady(s, c)
          = UNION {UpdateState(r, c) :
                     r \in UNION {SendQueuedDataMessages(r, c) :
                                    r \in SendQueuedControlMessages(x, c)}}
    BY <1>1 DEF OnChannelReady
  <2> QED
    BY <2>1
<1>7. x.ch[c].state # "none"
  BY <1>3 DEF SameChannel
<1>8. Good(p, y) /\ Kept(x, y)
  BY <1>5, <1>6, <1>7, SendQueuedControlGood
<1>9. y.ch[c].state # "none"
  BY <1>7, <1>8 DEF Kept, ChannelKept
<1>10. Good(p, z) /\ Kept(y, z)
  BY <1>6, <1>8, <1>9, SendQueuedDataGood
<1>11. z.ch[c].state # "none"
  BY <1>9, <1>10 DEF Kept, ChannelKept
<1>12. Good(p, u) /\ Kept(z, u)
  BY <1>6, <1>10, <1>11, UpdateStateGood
<1>13. Kept(s, y)
  BY <1>5, <1>8, KeptTransitive
<1>14. Kept(s, z)
  BY <1>10, <1>13, KeptTransitive
<1> QED
  BY <1>12, <1>14, KeptTransitive

-----------------------------------------------------------------------------
(***************************************************************************)
(* The handlers that call each channel in turn are recursive functions on  *)
(* 0..MaxChannels: First is their value at 0, and Turn what channel c      *)
(* makes of the value before it.  Such a function exists: a least n for    *)
(* which there is none on 0..n would have one on 0..(n - 1), which extends *)
(* to n.                                                                   *)
(***************************************************************************)
ReadyTurn(s, c, x) ==
  IF c \notin Connected(s) THEN x ELSE UNION {OnChannelReady(r, c) : r \in x}
ConnectTurn(s, c, x) ==
  IF ~Live(s.ch[c]) THEN x ELSE OnTransportChannelCreated(x, c)
SidTurn(s, c, x) ==
  IF ~Live(s.ch[c]) \/ s.ch[c].id >= 0 THEN x ELSE SetSctpSid(x, c)
CloseTurn(s, c, x) ==
  IF ~Live(s.ch[c]) THEN x
  ELSE UNION {OnTransportChannelDestroyed(r, c) : r \in x}

Turn(kind, s, c, x) ==
  CASE kind = "ready" -> ReadyTurn(s, c, x)
    [] kind = "connect" -> ConnectTurn(s, c, x)
    [] kind = "sid" -> SidTurn(s, c, x)
    [] kind = "close" -> CloseTurn(s, c, x)

Run(kind, s, x, n, f) ==
  f = [c \in 0..n |-> IF c = 0 THEN x ELSE Turn(kind, s, c, f[c - 1])]

LEMMA RunExists ==
  ASSUME NEW kind, NEW s, NEW x, NEW n \in Nat
  PROVE  \E f : Run(kind, s, x, n, f)
<1> DEFINE Bad == {k \in Nat : ~ \E f : Run(kind, s, x, k, f)}
<1> SUFFICES ASSUME Bad # {} PROVE FALSE
  OBVIOUS
<1>1. PICK m \in Bad : \A k \in Bad : m <= k
  BY LeastElement
<1>2. CASE m = 0
  <2>1. Run(kind, s, x, 0, [c \in 0..0 |-> x])
    BY DEF Run
  <2> QED
    BY <1>2, <2>1
<1>3. CASE m # 0
  <2>1. m \in Nat /\ m - 1 \in Nat /\ ~(m <= m - 1)
    BY <1>3
  <2>2. PICK f : Run(kind, s, x, m - 1, f)
    BY <1>1, <2>1
  <2>3. PICK y : y = Turn(kind, s, m, f[m - 1])
    OBVIOUS
  <2>4. PICK g : g = [c \in 0..m |-> IF c = m THEN y ELSE f[c]]
    OBVIOUS
  <2>5. ASSUME NEW c \in 0..m
        PROVE  g[c] = IF c = 0 THEN x ELSE Turn(kind, s, c, g[c - 1])
    <3>1. CASE c = m
      <4>1. g[c] = y /\ g[c - 1] = f[m - 1] /\ c # 0
        BY <1>3, <2>1, <2>4, <3>1
      <4> QED
        BY <2>3, <3>1, <4>1
    <3>2. CASE c # m
      <4>1. c \in 0..(m - 1) /\ g[c] = f[c]
        BY <2>1, <2>4, <3>2
      <4>2. f[c] = IF c = 0 THEN x ELSE Turn(kind, s, c, f[c - 1])
        BY <2>2, <4>1 DEF Run
      <4>3. c # 0 => g[c - 1] = f[c - 1]
        BY <2>1, <2>4, <3>2
      <4> QED
        BY <4>1, <4>2, <4>3
    <3> QED
      BY <3>1, <3>2
  <2>6. Run(kind, s, x, m, g)
    BY <2>4, <2>5 DEF Run
  <2> QED
    BY <2>6
<1> QED
  BY <1>2, <1>3

LEMMA RunSteps ==
  ASSUME NEW kind, NEW s, NEW x, NEW f, Run(kind, s, x, MaxChannels, f)
  PROVE  /\ MaxChannels \in Nat /\ f[0] = x
         /\ \A c \in Chans : f[c] = Turn(kind, s, c, f[c - 1])
<1>1. MaxChannels \in Nat
  BY BoundsAssumption
<1>2. 0 \in 0..MaxChannels /\ \A c \in Chans : c \in 0..MaxChannels /\ c # 0
  BY <1>1 DEF Chans
<1>3. \A c \in 0..MaxChannels :
        f[c] = IF c = 0 THEN x ELSE Turn(kind, s, c, f[c - 1])
  BY DEF Run
<1> QED
  BY <1>1, <1>2, <1>3

LEMMA ReadyResult ==
  ASSUME NEW s
  PROVE  \E f : /\ Run("ready", s, {[s EXCEPT !.sctp_ready = TRUE]}, MaxChannels, f)
                /\ OnSctpTransportReadyToSendData(s) = f[MaxChannels]
<1> DEFINE P(f) == f = [c \in 0..MaxChannels |->
                          IF c = 0 THEN {[s EXCEPT !.sctp_ready = TRUE]}
                          ELSE ReadyTurn(s, c, f[c - 1])]
<1>1. \A f : P(f) <=> Run("ready", s, {[s EXCEPT !.sctp_ready = TRUE]}, MaxChannels, f)
  BY DEF Run, Turn
<1>2. MaxChannels \in Nat
  BY BoundsAssumption
<1>3. \E f : P(f)
  BY <1>1, <1>2, RunExists
<1>4. OnSctpTransportReadyToSendData(s) = (CHOOSE f : P(f))[MaxChannels]
  BY DEF OnSctpTransportReadyToSendData, ReadyTurn
<1> HIDE DEF P
<1> QED
  BY <1>1, <1>3, <1>4

LEMMA ConnectResult ==
  ASSUME NEW s
  PROVE  \E f : /\ Run("connect", s, s, MaxChannels, f)
                /\ ConnectChannels(s) = f[MaxChannels]
<1> DEFINE P(f) == f = [c \in 0..MaxChannels |->
                          IF c = 0 THEN s
                          ELSE ConnectTurn(s, c, f[c - 1])]
<1>1. \A f : P(f) <=> Run("connect", s, s, MaxChannels, f)
  BY DEF Run, Turn
<1>2. MaxChannels \in Nat
  BY BoundsAssumption
<1>3. \E f : P(f)
  BY <1>1, <1>2, RunExists
<1>4. ConnectChannels(s) = (CHOOSE f : P(f))[MaxChannels]
  BY DEF ConnectChannels, ConnectTurn
<1> HIDE DEF P
<1> QED
  BY <1>1, <1>3, <1>4

LEMMA SidResult ==
  ASSUME NEW s
  PROVE  \E f : /\ Run("sid", s, s, MaxChannels, f)
                /\ GiveSids(s) = f[MaxChannels]
<1> DEFINE P(f) == f = [c \in 0..MaxChannels |->
                          IF c = 0 THEN s
                          ELSE SidTurn(s, c, f[c - 1])]
<1>1. \A f : P(f) <=> Run("sid", s, s, MaxChannels, f)
  BY DEF Run, Turn
<1>2. MaxChannels \in Nat
  BY BoundsAssumption
<1>3. \E f : P(f)
  BY <1>1, <1>2, RunExists
<1>4. GiveSids(s) = (CHOOSE f : P(f))[MaxChannels]
  BY DEF GiveSids, SidTurn
<1> HIDE DEF P
<1> QED
  BY <1>1, <1>3, <1>4

LEMMA CloseResult ==
  ASSUME NEW s
  PROVE  \E f : /\ Run("close", s, {s}, MaxChannels, f)
                /\ CloseChannels(s) = f[MaxChannels]
<1> DEFINE P(f) == f = [c \in 0..MaxChannels |->
                          IF c = 0 THEN {s}
                          ELSE CloseTurn(s, c, f[c - 1])]
<1>1. \A f : P(f) <=> Run("close", s, {s}, MaxChannels, f)
  BY DEF Run, Turn
<1>2. MaxChannels \in Nat
  BY BoundsAssumption
<1>3. \E f : P(f)
  BY <1>1, <1>2, RunExists
<1>4. CloseChannels(s) = (CHOOSE f : P(f))[MaxChannels]
  BY DEF CloseChannels, CloseTurn
<1> HIDE DEF P
<1> QED
  BY <1>1, <1>3, <1>4

LEMMA ReadyGood ==
  ASSUME NEW p \in Peers, NEW s, Good(p, s), config \in Configs,
         NEW u \in OnSctpTransportReadyToSendData(s)
  PROVE  Good(p, u) /\ Kept(s, u)
<1>0. s \in PeerType
  BY DEF Good
<1>1. PICK x : x = [s EXCEPT !.sctp_ready = TRUE]
  OBVIOUS
<1>2. /\ x \in PeerType /\ x.t = s.t /\ x.used = s.used /\ x.ch = s.ch
  BY <1>0, <1>1 DEF PeerType
<1>3. Good(p, x) /\ Kept(s, x)
  BY <1>2 DEF Good, Owned, Reserved, Distinct, Kept, ChannelKept
<1>4. PICK f : /\ Run("ready", s, {[s EXCEPT !.sctp_ready = TRUE]},
                      MaxChannels, f)
               /\ OnSctpTransportReadyToSendData(s) = f[MaxChannels]
  BY ReadyResult
<1> DEFINE Fine(r) == Good(p, r) /\ Kept(s, r)
           Bad == {c \in 0..MaxChannels : ~ \A r \in f[c] : Fine(r)}
<1>5. MaxChannels \in Nat /\ Bad \in SUBSET Nat
  BY BoundsAssumption
<1>6. Bad = {}
  <2> SUFFICES ASSUME Bad # {} PROVE FALSE
    OBVIOUS
  <2>1. PICK c \in Bad : \A k \in Bad : c <= k
    BY <1>5, LeastElement
  <2>2. c \in 0..MaxChannels /\ ~ \A r \in f[c] : Fine(r)
    OBVIOUS
  <2>3. PICK r \in f[c] : ~Fine(r)
    BY <2>2
  <2>4. CASE c = 0
    <3>1. f[c] = {x}
      BY <1>1, <1>4, <2>4, RunSteps
    <3> QED
      BY <1>3, <2>3, <3>1
  <2>5. CASE c # 0
    <3>1. c \in Chans /\ c - 1 \in 0..MaxChannels /\ ~(c <= c - 1)
      BY <1>5, <2>2, <2>5 DEF Chans
    <3>2. c - 1 \notin Bad
      BY <2>1, <3>1
    <3>3. \A y \in f[c - 1] : Fine(y)
      BY <3>1, <3>2
    <3>4. f[c] = ReadyTurn(s, c, f[c - 1])
      BY <1>4, <3>1, RunSteps DEF Turn
    <3>5. CASE c \notin Connected(s)
      <4>1. f[c] = f[c - 1]
        BY <3>4, <3>5 DEF ReadyTurn
      <4> QED
        BY <2>3, <3>3, <4>1
    <3>6. CASE c \in Connected(s)
      <4>1. PICK y \in f[c - 1] : r \in OnChannelReady(y, c)
        BY <2>3, <3>4, <3>6 DEF ReadyTurn
      <4>2. Good(p, y) /\ Kept(s, y)
        BY <3>3
      <4>3. s.ch[c].state # "none"
        BY <3>1, <3>6 DEF Connected, Good, ChannelGood
      <4>4. y.ch[c].state # "none"
        BY <3>1, <4>2, <4>3 DEF Kept, ChannelKept
      <4>5. Good(p, r) /\ Kept(y, r)
        BY <3>1, <4>1, <4>2, <4>4, OnChannelReadyGood
      <4>6. Kept(s, r)
        BY <4>2, <4>5, KeptTransitive
      <4> QED
        BY <2>3, <4>5, <4>6
    <3> QED
      BY <3>5, <3>6
  <2> QED
    BY <2>4, <2>5
<1>7. \A r \in f[MaxChannels] : Fine(r)
  BY <1>5, <1>6
<1> QED
  BY <1>4, <1>7


-----------------------------------------------------------------------------
(***************************************************************************)
(* Steps that are no part of a handler.  Shaped is all that Good asks of a *)
(* step that gives no channel a sid; PeerStep is what a step of p has to   *)
(* show, where chs are the channels of the other peer.                     *)
(***************************************************************************)
Shaped(p, s, r) ==
  /\ r \in PeerType
  /\ \A c \in Chans : /\ ChannelGood(p, r.ch[c])
                      /\ r.ch[c].id = s.ch[c].id
                      /\ r.ch[c].connected = s.ch[c].connected
                      /\ Live(r.ch[c]) <=> Live(s.ch[c])
  /\ r.used = s.used
  /\ r.t.open \subseteq s.t.open
  /\ WireGood(p, s.ch, r.t.wire)

LEMMA ShapedGood ==
  ASSUME NEW p \in Peers, NEW s, NEW r, Good(p, s), Shaped(p, s, r)
  PROVE  Good(p, r)
<1>1. s \in PeerType /\ r \in PeerType
  BY DEF Good, Shaped
<1>2. Owned(r)
  BY DEF Good, Shaped, Owned
<1>3. Reserved(r)
  BY DEF Good, Shaped, Reserved
<1>4. Distinct(r)
  BY DEF Good, Shaped, Distinct
<1>5. WireGood(p, r.ch, r.t.wire)
  <2>1. r.t.wire \in Seq(ChunkType)
    BY <1>1, PeerTypes, TransportTypes
  <2>2. \A c \in Chans : r.ch[c].id = s.ch[c].id
    BY DEF Shaped
  <2>3. WireGood(p, s.ch, r.t.wire)
    BY DEF Shaped
  <2> QED
    BY <1>1, <2>1, <2>2, <2>3, WireOfSameIds
<1> QED
  BY <1>1, <1>2, <1>3, <1>4, <1>5 DEF Good, Shaped

(* A step of the transport alone. *)
LEMMA TransportStepGood ==
  ASSUME NEW p \in Peers, NEW s, NEW r, Good(p, s), r.t \in TransportType,
         r = [s EXCEPT !.t = r.t], r.t.open \subseteq s.t.open,
         WireGood(p, s.ch, r.t.wire)
  PROVE  Good(p, r) /\ r.ch = s.ch /\ r.used = s.used
<1>1. s \in PeerType
  BY DEF Good
<1>2. r \in PeerType /\ r.ch = s.ch /\ r.used = s.used
  BY <1>1 DEF PeerType
<1>3. \A c \in Chans : ChannelGood(p, s.ch[c])
  BY DEF Good
<1>4. Shaped(p, s, r)
  BY <1>2, <1>3 DEF Shaped
<1> QED
  BY <1>2, <1>4, ShapedGood

PostsNone(s, r) ==
  \A i \in DOMAIN r.t.posted :
    r.t.posted[i].ev = "message" =>
      \E j \in DOMAIN s.t.posted : s.t.posted[j] = r.t.posted[i]

PeerStep(p, s, r, chs) ==
  /\ Good(p, r) /\ Linked(r)
  /\ SidsKept(s, r)
  /\ PostsNone(s, r)
  /\ p # Opener /\ ~config.negotiated /\ SameSids(s, chs) => SameSids(r, chs)
  /\ r.t.phase # "destroyed" =>
       s.t.phase # "destroyed" /\ (Flushes(s) => Flushes(r))

LEMMA KeptStep ==
  ASSUME NEW p, NEW s, NEW r, NEW chs, Linked(s), Good(p, r), Kept(s, r)
  PROVE  PeerStep(p, s, r, chs)
<1>1. Linked(r)
  BY DEF Linked, Kept, ChannelKept, TransportExists
<1>2. SidsKept(s, r)
  BY DEF SidsKept, Kept, ChannelKept
<1>3. PostsNone(s, r)
  BY DEF PostsNone, Kept
<1>4. SameSids(s, chs) => SameSids(r, chs)
  BY DEF SameSids, Kept, ChannelKept
<1>5. Flushes(s) => Flushes(r)
  BY DEF Flushes, Kept, ChannelKept
<1>6. r.t.phase = s.t.phase
  BY DEF Kept
<1> QED
  BY <1>1, <1>2, <1>3, <1>4, <1>5, <1>6 DEF PeerStep


-----------------------------------------------------------------------------
(* Connecting a channel opens its own stream. *)
Joined(s, r, c) ==
  /\ OnlyChannel(s, r, c) /\ r.used = s.used
  /\ r.t.phase = s.t.phase /\ r.t.posted = s.t.posted
  /\ r.ch[c].state = s.ch[c].state /\ r.ch[c].id = s.ch[c].id
  /\ Unsent(r.ch[c]) = Unsent(s.ch[c])
  /\ TransportExists(s.t) \/ s.ch[c].connected => r.ch[c].connected

LEMMA JoinGood ==
  ASSUME NEW p \in Peers, NEW s, NEW c \in Chans, Good(p, s), Live(s.ch[c])
  PROVE  /\ Good(p, OnTransportChannelCreated(s, c))
         /\ Joined(s, OnTransportChannelCreated(s, c), c)
<1>0. /\ s \in PeerType /\ s.ch[c] \in ChannelType /\ s.t \in TransportType
      /\ ChannelGood(p, s.ch[c])
  BY PeerTypes DEF Good
<1>1. PICK b \in BOOLEAN : b = (s.ch[c].connected \/ TransportExists(s.t))
  OBVIOUS
<1>2. PICK u : u = IF TransportExists(s.t) /\ s.ch[c].id >= 0
                   THEN OpenStream(s.t, s.ch[c].id) ELSE s.t
  OBVIOUS
<1>3. /\ TransportKept(s.t, u) /\ u.wire = s.t.wire
      /\ \A i \in u.open : \/ i \in s.t.open
                           \/ TransportExists(s.t) /\ i = s.ch[c].id
  <2>1. CASE TransportExists(s.t) /\ s.ch[c].id >= 0
    <3>1. s.ch[c].id \in Sids
      BY <1>0, <2>1, ChannelTypes DEF IdType
    <3> QED
      BY <1>0, <1>2, <2>1, <3>1, OpenStreamOutcome
  <2>2. CASE ~(TransportExists(s.t) /\ s.ch[c].id >= 0)
    BY <1>0, <1>2, <2>2 DEF TransportKept
  <2> QED
    BY <2>1, <2>2
<1>4. PICK r : r = [s EXCEPT !.ch[c].connected = b, !.t = u]
  OBVIOUS
<1>5. OnTransportChannelCreated(s, c) = r
  BY <1>1, <1>2, <1>4 DEF OnTransportChannelCreated
<1>6. /\ r \in PeerType /\ OnlyChannel(s, r, c)
      /\ r.ch[c] = [s.ch[c] EXCEPT !.connected = b]
      /\ r.used = s.used /\ r.t = u
  BY <1>0, <1>3, <1>4 DEF PeerType, ChannelType, OnlyChannel, TransportKept
<1>7. /\ r.ch[c].state = s.ch[c].state /\ r.ch[c].connected = b
      /\ r.ch[c].id = s.ch[c].id /\ r.ch[c].send = s.ch[c].send
      /\ r.ch[c].received = s.ch[c].received /\ r.ch[c].role = s.ch[c].role
      /\ r.ch[c].accepted = s.ch[c].accepted /\ r.ch[c].first = s.ch[c].first
      /\ r.ch[c].messages_sent = s.ch[c].messages_sent
  BY <1>0, <1>6 DEF ChannelType
<1>8. ChannelGood(p, r.ch[c])
  BY <1>0, <1>7 DEF ChannelGood, Unsent, Live
<1>9. Joined(s, r, c)
  BY <1>1, <1>3, <1>6, <1>7 DEF Joined, Unsent, TransportKept
<1>10. ASSUME NEW d \in Chans
       PROVE  /\ r.ch[d].id = s.ch[d].id /\ ChannelGood(p, r.ch[d])
              /\ Live(r.ch[d]) <=> Live(s.ch[d])
              /\ s.ch[d].connected => r.ch[d].connected
  <2>1. CASE d = c
    BY <1>1, <1>7, <1>8, <2>1 DEF Live
  <2>2. CASE d # c
    <3>1. r.ch[d] = s.ch[d]
      BY <1>6, <2>2 DEF OnlyChannel
    <3>2. ChannelGood(p, s.ch[d])
      BY DEF Good
    <3> QED
      BY <3>1, <3>2
  <2> QED
    BY <2>1, <2>2
<1>11. Owned(r)
  <2> SUFFICES ASSUME NEW i \in r.t.open
               PROVE  \E e \in Chans : /\ Live(r.ch[e]) /\ r.ch[e].connected
                                       /\ r.ch[e].id = i
    BY DEF Owned
  <2>1. CASE i \in s.t.open
    <3>1. PICK e \in Chans : /\ Live(s.ch[e]) /\ s.ch[e].connected
                             /\ s.ch[e].id = i
      BY <2>1 DEF Good, Owned
    <3> QED
      BY <1>10, <3>1
  <2>2. CASE TransportExists(s.t) /\ i = s.ch[c].id
    BY <1>1, <1>7, <1>10, <2>2
  <2> QED
    BY <1>3, <1>6, <2>1, <2>2
<1>12. Reserved(r)
  BY <1>6, <1>10 DEF Good, Reserved
<1>13. Distinct(r)
  BY <1>10 DEF Good, Distinct
<1>14. WireGood(p, r.ch, r.t.wire)
  <2>1. r.t.wire \in Seq(ChunkType)
    BY <1>6, PeerTypes, TransportTypes
  <2>2. WireGood(p, s.ch, r.t.wire)
    BY <1>3, <1>6 DEF Good
  <2> QED
    BY <1>0, <1>6, <1>10, <2>1, <2>2, WireOfSameIds
<1> QED
  BY <1>5, <1>6, <1>9, <1>10, <1>11, <1>12, <1>13, <1>14 DEF Good

(* Connecting all of them: those up to n are connected after n turns. *)
ConnectedUpTo(s, r, n) ==
  /\ r.used = s.used /\ r.t.phase = s.t.phase /\ r.t.posted = s.t.posted
  /\ \A d \in Chans : /\ r.ch[d].state = s.ch[d].state
                      /\ r.ch[d].id = s.ch[d].id
                      /\ Unsent(r.ch[d]) = Unsent(s.ch[d])
                      /\ Live(s.ch[d]) /\ d <= n => r.ch[d].connected

LEMMA ConnectTurnGood ==
  ASSUME NEW p \in Peers, NEW s, NEW x, NEW c \in Chans, Good(p, x),
         TransportExists(s.t), ConnectedUpTo(s, x, c - 1)
  PROVE  /\ Good(p, ConnectTurn(s, c, x))
         /\ ConnectedUpTo(s, ConnectTurn(s, c, x), c)
<1>0. c \in Nat /\ \A d \in Chans : d \in Nat /\ (d <= c /\ d # c => d <= c - 1)
  BY BoundsAssumption DEF Chans
<1>1. CASE ~Live(s.ch[c])
  <2>1. ConnectTurn(s, c, x) = x
    BY <1>1 DEF ConnectTurn
  <2>2. ConnectedUpTo(s, x, c)
    BY <1>0, <1>1 DEF ConnectedUpTo
  <2> QED
    BY <2>1, <2>2
<1>2. CASE Live(s.ch[c])
  <2>1. PICK r : r = OnTransportChannelCreated(x, c)
    OBVIOUS
  <2>2. ConnectTurn(s, c, x) = r
    BY <1>2, <2>1 DEF ConnectTurn
  <2>3. Live(x.ch[c]) /\ TransportExists(x.t)
    BY <1>2 DEF ConnectedUpTo, Live, TransportExists
  <2>4. Good(p, r) /\ Joined(x, r, c)
    BY <2>1, <2>3, JoinGood
  <2>5. ASSUME NEW d \in Chans
        PROVE  /\ r.ch[d].state = s.ch[d].state
               /\ r.ch[d].id = s.ch[d].id
               /\ Unsent(r.ch[d]) = Unsent(s.ch[d])
               /\ Live(s.ch[d]) /\ d <= c => r.ch[d].connected
    <3>1. CASE d = c
      BY <2>3, <2>4, <3>1 DEF Joined, ConnectedUpTo
    <3>2. CASE d # c
      <4>1. r.ch[d] = x.ch[d]
        BY <2>4, <3>2 DEF Joined, OnlyChannel
      <4> QED
        BY <1>0, <3>2, <4>1 DEF ConnectedUpTo
    <3> QED
      BY <3>1, <3>2
  <2>6. r.used = s.used /\ r.t.phase = s.t.phase /\ r.t.posted = s.t.posted
    BY <2>4 DEF Joined, ConnectedUpTo
  <2> QED
    BY <2>2, <2>4, <2>5, <2>6 DEF ConnectedUpTo
<1> QED
  BY <1>1, <1>2

LEMMA ConnectGood ==
  ASSUME NEW p \in Peers, NEW s, Good(p, s), TransportExists(s.t)
  PROVE  /\ Good(p, ConnectChannels(s))
         /\ ConnectedUpTo(s, ConnectChannels(s), MaxChannels)
<1>1. PICK f : /\ Run("connect", s, s, MaxChannels, f)
               /\ ConnectChannels(s) = f[MaxChannels]
  BY ConnectResult
<1>2. /\ MaxChannels \in Nat /\ f[0] = s
      /\ \A c \in Chans : f[c] = Turn("connect", s, c, f[c - 1])
  BY <1>1, RunSteps
<1> DEFINE Fine(c) == Good(p, f[c]) /\ ConnectedUpTo(s, f[c], c)
           Bad == {c \in 0..MaxChannels : ~Fine(c)}
<1>0. Bad \in SUBSET Nat
  BY <1>2
<1>3. Bad = {}
  <2> SUFFICES ASSUME Bad # {} PROVE FALSE
    OBVIOUS
  <2>1. PICK c \in Bad : \A k \in Bad : c <= k
    BY <1>0, LeastElement
  <2>2. CASE c = 0
    <3>1. \A d \in Chans : ~(d <= 0)
      BY <1>2 DEF Chans
    <3>2. ConnectedUpTo(s, s, 0)
      BY <3>1 DEF ConnectedUpTo
    <3> QED
      BY <1>2, <2>2, <3>2
  <2>3. CASE c # 0
    <3>1. c \in Chans /\ c - 1 \in 0..MaxChannels /\ ~(c <= c - 1)
      BY <1>2, <2>3 DEF Chans
    <3>2. c - 1 \notin Bad
      BY <2>1, <3>1
    <3>3. Good(p, f[c - 1]) /\ ConnectedUpTo(s, f[c - 1], c - 1)
      BY <3>1, <3>2
    <3>4. f[c] = ConnectTurn(s, c, f[c - 1])
      BY <1>2, <3>1 DEF Turn
    <3>5. Good(p, f[c]) /\ ConnectedUpTo(s, f[c], c)
      BY <3>1, <3>3, <3>4, ConnectTurnGood
    <3> QED
      BY <3>5
  <2> QED
    BY <2>2, <2>3
<1>4. MaxChannels \in 0..MaxChannels
  BY <1>2
<1>5. Fine(MaxChannels)
  BY <1>3, <1>4
<1> QED
  BY <1>1, <1>5


-----------------------------------------------------------------------------
(* A channel that has no sid is given a free one, whose stream it opens. *)
SidsUpTo(s, r, n) ==
  /\ r.t.phase = s.t.phase /\ r.t.posted = s.t.posted
  /\ \A d \in Chans : /\ r.ch[d].state = s.ch[d].state
                      /\ Unsent(r.ch[d]) = Unsent(s.ch[d])
                      /\ r.ch[d].connected = s.ch[d].connected
                      /\ s.ch[d].id \in Sids => r.ch[d].id = s.ch[d].id
                      /\ d > n => r.ch[d] = s.ch[d]

GivenSid(s, r, c) ==
  /\ OnlyChannel(s, r, c)
  /\ r.t.phase = s.t.phase /\ r.t.posted = s.t.posted
  /\ r.ch[c].state = s.ch[c].state /\ r.ch[c].connected
  /\ Unsent(r.ch[c]) = Unsent(s.ch[c])

LEMMA SetSidGood ==
  ASSUME NEW p \in Peers, NEW s, NEW c \in Chans, Good(p, s), Live(s.ch[c]),
         s.ch[c].connected, s.ch[c].id \notin Sids, NEW sid \in Sids,
         sid \notin s.used,
         NEW u, u = OpenStream(s.t, sid),
         NEW v, v = s.used \cup {sid},
         NEW r, r = [s EXCEPT !.used = v, !.ch[c].id = sid, !.t = u]
  PROVE  Good(p, r) /\ GivenSid(s, r, c)
<1>0. /\ s \in PeerType /\ s.ch[c] \in ChannelType /\ s.t \in TransportType
      /\ ChannelGood(p, s.ch[c])
  BY PeerTypes DEF Good
<1>2. /\ TransportKept(s.t, u) /\ u.wire = s.t.wire
      /\ u.open \subseteq s.t.open \cup {sid}
  BY <1>0, OpenStreamOutcome
<1>3. /\ sid \in IdType /\ v \in SUBSET Sids
      /\ u \in TransportType
  BY <1>0, <1>2, PeerTypes DEF IdType, TransportKept
<1>4. /\ r \in PeerType /\ OnlyChannel(s, r, c)
      /\ r.ch[c] = [s.ch[c] EXCEPT !.id = sid]
      /\ r.used = v /\ r.t = u
  BY <1>0, <1>3 DEF PeerType, ChannelType, OnlyChannel
<1>14. s \in PeerType /\ r \in PeerType
  BY <1>0, <1>4
<1>5. /\ r.ch[c].state = s.ch[c].state
      /\ r.ch[c].id = sid /\ r.ch[c].send = s.ch[c].send
      /\ r.ch[c].received = s.ch[c].received /\ r.ch[c].role = s.ch[c].role
      /\ r.ch[c].accepted = s.ch[c].accepted /\ r.ch[c].first = s.ch[c].first
      /\ r.ch[c].messages_sent = s.ch[c].messages_sent
  BY <1>0, <1>4 DEF ChannelType
<1>15. r.ch[c].connected
  BY <1>0, <1>4 DEF ChannelType
<1>6. /\ ChannelGood(p, r.ch[c]) /\ Live(r.ch[c])
      /\ Unsent(r.ch[c]) = Unsent(s.ch[c])
  BY <1>0, <1>5, <1>15 DEF ChannelGood, Unsent, Live
<1>7. \A d \in Chans : d # c => r.ch[d] = s.ch[d]
  BY <1>4 DEF OnlyChannel
<1>8. \A d \in Chans : ChannelGood(p, r.ch[d])
  BY <1>6, <1>7 DEF Good
<1>9. Owned(r)
  <2> SUFFICES ASSUME NEW i \in r.t.open
               PROVE  \E e \in Chans : /\ Live(r.ch[e]) /\ r.ch[e].connected
                                       /\ r.ch[e].id = i
    BY DEF Owned
  <2>1. CASE i \in s.t.open
    <3>1. PICK e \in Chans : /\ Live(s.ch[e]) /\ s.ch[e].connected
                             /\ s.ch[e].id = i
      BY <2>1 DEF Good, Owned
    <3>2. i \in Sids
      BY <1>0, <2>1, TransportTypes
    <3> QED
      BY <1>7, <3>1, <3>2
  <2>2. CASE i = sid
    BY <1>5, <1>6, <1>15, <2>2
  <2> QED
    BY <1>2, <1>4, <2>1, <2>2
<1>10. Reserved(r)
  BY <1>4, <1>5, <1>7 DEF Good, Reserved
<1>11. Distinct(r)
  <2>1. \A d \in Chans : d # c /\ Live(s.ch[d]) => s.ch[d].id # sid
    BY DEF Good, Reserved
  <2> QED
    BY <1>5, <1>7, <2>1 DEF Good, Distinct
<1>12. WireGood(p, r.ch, r.t.wire)
  <2>1. r.t.wire \in Seq(ChunkType)
    BY <1>4, PeerTypes, TransportTypes
  <2>2. SidsKept(s, r)
    BY <1>7 DEF SidsKept
  <2>3. WireGood(p, s.ch, r.t.wire)
    BY <1>2, <1>4 DEF Good
  <2> QED
    BY <1>14, <2>1, <2>2, <2>3, WireOfKeptSids
<1>13. Good(p, r)
  BY <1>4, <1>8, <1>9, <1>10, <1>11, <1>12 DEF Good
<1> QED
  BY <1>2, <1>4, <1>5, <1>6, <1>13, <1>15 DEF TransportKept, GivenSid

LEMMA SidTurnGood ==
  ASSUME NEW p \in Peers, NEW s, NEW x, NEW c \in Chans, Good(p, x),
         Linked(s), TransportExists(s.t), SidsUpTo(s, x, c - 1)
  PROVE  Good(p, SidTurn(s, c, x)) /\ SidsUpTo(s, SidTurn(s, c, x), c)
<1>0. c \in Nat /\ \A d \in Chans : d \in Nat /\ (d > c => d > c - 1)
  BY BoundsAssumption DEF Chans
<1>1. CASE SidTurn(s, c, x) = x
  <2>1. SidsUpTo(s, x, c)
    BY <1>0 DEF SidsUpTo
  <2> QED
    BY <1>1, <2>1
<1>2. CASE /\ Live(s.ch[c]) /\ ~(s.ch[c].id >= 0)
           /\ FreeSids(x) # {}
  <2>1. x.ch[c] = s.ch[c]
    BY <1>0 DEF SidsUpTo
  <2>2. Live(x.ch[c]) /\ x.ch[c].connected
    BY <1>2, <2>1 DEF Linked
  <2>3. x.ch[c].id \notin Sids
    <3>1. PICK i : i = s.ch[c].id
      OBVIOUS
    <3>2. ~(i >= 0)
      BY <1>2, <3>1
    <3>3. i \notin Nat
      BY ONLY <3>2
    <3>4. i \notin Sids
      BY <3>3, SidsAssumption
    <3> QED
      BY <2>1, <3>1, <3>4
  <2>4. PICK S : S = FreeSids(x)
    OBVIOUS
  <2>5. S \in SUBSET Nat /\ S \subseteq Sids \ x.used /\ S # {}
    BY <1>2, <2>4, SidsAssumption DEF FreeSids
  <2>6. PICK sid : sid = Min(S)
    OBVIOUS
  <2>7. sid \in Sids \ x.used
    BY <2>5, <2>6, MinIsLeast
  <2>8. PICK u, v, r : /\ u = OpenStream(x.t, sid)
                       /\ v = x.used \cup {sid}
                       /\ r = [x EXCEPT !.used = v, !.ch[c].id = sid, !.t = u]
    OBVIOUS
  <2>9. SidTurn(s, c, x) = r
    BY <1>2, <2>4, <2>6, <2>8 DEF SidTurn, SetSctpSid
  <2>14. Good(p, r) /\ GivenSid(x, r, c)
    BY <2>2, <2>3, <2>7, <2>8, SetSidGood
  <2>10. /\ Good(p, r) /\ OnlyChannel(x, r, c)
         /\ r.t.phase = x.t.phase /\ r.t.posted = x.t.posted
         /\ r.ch[c].state = x.ch[c].state /\ r.ch[c].connected
         /\ Unsent(r.ch[c]) = Unsent(x.ch[c])
    BY <2>14 DEF GivenSid
  <2>11. r.ch[c].connected = x.ch[c].connected
    <3>1. /\ r.ch[c] \in ChannelType /\ x.ch[c] \in ChannelType
      BY <2>10, PeerTypes DEF Good
    <3>2. r.ch[c].connected \in BOOLEAN /\ x.ch[c].connected \in BOOLEAN
      BY <3>1, ChannelTypes
    <3> QED
      BY <2>2, <2>10, <3>2
  <2>12. ASSUME NEW d \in Chans
         PROVE  /\ r.ch[d].state = s.ch[d].state
                /\ Unsent(r.ch[d]) = Unsent(s.ch[d])
                /\ r.ch[d].connected = s.ch[d].connected
                /\ s.ch[d].id \in Sids => r.ch[d].id = s.ch[d].id
                /\ d > c => r.ch[d] = s.ch[d]
    <3>1. CASE d = c
      BY <1>0, <2>1, <2>3, <2>10, <2>11, <3>1
    <3>2. CASE d # c
      <4>1. r.ch[d] = x.ch[d]
        BY <2>10, <3>2 DEF OnlyChannel
      <4> QED
        BY <1>0, <4>1 DEF SidsUpTo
    <3> QED
      BY <3>1, <3>2
  <2>13. r.t.phase = s.t.phase /\ r.t.posted = s.t.posted
    BY <2>10 DEF SidsUpTo
  <2> QED
    BY <2>9, <2>10, <2>12, <2>13 DEF SidsUpTo
<1> QED
  BY <1>1, <1>2 DEF SidTurn, SetSctpSid

LEMMA GiveSidsGood ==
  ASSUME NEW p \in Peers, NEW s, Good(p, s), Linked(s), TransportExists(s.t)
  PROVE  Good(p, GiveSids(s)) /\ SidsUpTo(s, GiveSids(s), MaxChannels)
<1>1. PICK f : /\ Run("sid", s, s, MaxChannels, f)
               /\ GiveSids(s) = f[MaxChannels]
  BY SidResult
<1>2. /\ MaxChannels \in Nat /\ f[0] = s
      /\ \A c \in Chans : f[c] = Turn("sid", s, c, f[c - 1])
  BY <1>1, RunSteps
<1> DEFINE Fine(c) == Good(p, f[c]) /\ SidsUpTo(s, f[c], c)
           Bad == {c \in 0..MaxChannels : ~Fine(c)}
<1>3. Bad \in SUBSET Nat
  BY <1>2
<1>4. Bad = {}
  <2> SUFFICES ASSUME Bad # {} PROVE FALSE
    OBVIOUS
  <2>1. PICK c \in Bad : \A k \in Bad : c <= k
    BY <1>3, LeastElement
  <2>2. CASE c = 0
    <3>1. SidsUpTo(s, s, 0)
      BY DEF SidsUpTo
    <3> QED
      BY <1>2, <2>2, <3>1
  <2>3. CASE c # 0
    <3>1. c \in Chans /\ c - 1 \in 0..MaxChannels /\ ~(c <= c - 1)
      BY <1>2, <2>3 DEF Chans
    <3>2. c - 1 \notin Bad
      BY <2>1, <3>1
    <3>3. Good(p, f[c - 1]) /\ SidsUpTo(s, f[c - 1], c - 1)
      BY <3>1, <3>2
    <3>4. f[c] = SidTurn(s, c, f[c - 1])
      BY <1>2, <3>1 DEF Turn
    <3>5. Good(p, f[c]) /\ SidsUpTo(s, f[c], c)
      BY <3>1, <3>3, <3>4, SidTurnGood
    <3> QED
      BY <3>5
  <2> QED
    BY <2>2, <2>3
<1>5. MaxChannels \in 0..MaxChannels
  BY <1>2
<1>6. Fine(MaxChannels)
  BY <1>4, <1>5
<1> QED
  BY <1>1, <1>6


-----------------------------------------------------------------------------
(* A new channel object takes the place of one that is closed, or of none. *)
Made(s, r, c, id) ==
  /\ OnlyChannel(s, r, c)
  /\ r.t.phase = s.t.phase /\ r.t.posted = s.t.posted
  /\ r.ch[c].state = "connecting" /\ r.ch[c].id = id
  /\ Unsent(r.ch[c]) = 0
  /\ TransportExists(s.t) => r.ch[c].connected

MayTake(p, s, c, role, id) ==
  /\ ~Live(s.ch[c])
  /\ role \in {"none", "opener", "acker"} /\ id \in IdType
  /\ id \in Sids => id \notin s.used
  /\ s.ch[c].id \in Sids => id = s.ch[c].id
  /\ role = "opener" => p = Opener /\ ~config.negotiated

(* The new object, not yet connected. *)
NewObject(s, c, ch, id) ==
  [s EXCEPT !.ch[c] = ch, !.used = IF id < 0 THEN @ ELSE @ \cup {id}]

LEMMA NewObjectGood ==
  ASSUME NEW p \in Peers, NEW s, NEW c \in Chans, NEW role, NEW id, Good(p, s),
         MayTake(p, s, c, role, id), NEW ch \in ChannelType,
         ChannelGood(p, ch), ch.state = "connecting", ch.id = id,
         NEW r, r = NewObject(s, c, ch, id)
  PROVE  /\ Good(p, r) /\ OnlyChannel(s, r, c) /\ r.ch[c] = ch /\ r.t = s.t
<1>0. s \in PeerType /\ s.t \in TransportType
  BY PeerTypes DEF Good
<1>1. id \in Sids \/ (id = -1 /\ id \notin Sids)
  BY SidsAssumption DEF MayTake, IdType
<1>12. PICK v : v = IF id < 0 THEN s.used ELSE s.used \cup {id}
  OBVIOUS
<1>2. v \in SUBSET Sids /\ s.used \subseteq v /\ (id \in Sids => id \in v)
  <2>1. s.used \in SUBSET Sids
    BY <1>0, PeerTypes
  <2>2. CASE id \in Sids
    <3>1. ~(id < 0)
      BY <2>2, SidsAssumption
    <3> QED
      BY <1>12, <2>1, <2>2, <3>1
  <2>3. CASE id = -1 /\ id \notin Sids
    BY <1>12, <2>1, <2>3
  <2> QED
    BY <1>1, <2>2, <2>3
<1>3. r = [s EXCEPT !.ch[c] = ch, !.used = v]
  BY <1>12 DEF NewObject
<1>13. PICK g : g = [s.ch EXCEPT ![c] = ch]
  OBVIOUS
<1>14. g \in [Chans -> ChannelType] /\ g[c] = ch
       /\ \A d \in Chans : d # c => g[d] = s.ch[d]
  BY <1>0, <1>13, PeerTypes
<1>15. r = [s EXCEPT !.ch = g, !.used = v]
  BY <1>3, <1>13
<1>16. r \in PeerType /\ r.ch = g /\ r.used = v /\ r.t = s.t
  BY <1>0, <1>2, <1>14, <1>15 DEF PeerType
<1>4. /\ r \in PeerType /\ OnlyChannel(s, r, c) /\ r.ch[c] = ch
      /\ r.used = v /\ r.t = s.t
  BY <1>14, <1>16 DEF OnlyChannel
<1>5. s \in PeerType /\ r \in PeerType
  BY <1>0, <1>4
<1>6. \A d \in Chans : d # c => r.ch[d] = s.ch[d]
  BY <1>4 DEF OnlyChannel
<1>7. \A d \in Chans : ChannelGood(p, r.ch[d])
  BY <1>4, <1>6 DEF Good
<1>8. Owned(r)
  <2> SUFFICES ASSUME NEW i \in r.t.open
               PROVE  \E e \in Chans : /\ Live(r.ch[e]) /\ r.ch[e].connected
                                       /\ r.ch[e].id = i
    BY DEF Owned
  <2>1. PICK e \in Chans : /\ Live(s.ch[e]) /\ s.ch[e].connected
                           /\ s.ch[e].id = i
    BY <1>4 DEF Good, Owned
  <2>2. e # c
    BY <2>1 DEF MayTake
  <2> QED
    BY <1>6, <2>1, <2>2
<1>9. Reserved(r)
  BY <1>2, <1>4, <1>6 DEF Good, Reserved
<1>10. Distinct(r)
  <2>1. \A d \in Chans : d # c /\ Live(s.ch[d]) /\ s.ch[d].id \in Sids
                           => s.ch[d].id # id
    BY DEF Good, Reserved, MayTake
  <2> QED
    BY <1>4, <1>6, <2>1 DEF Good, Distinct
<1>11. WireGood(p, r.ch, r.t.wire)
  <2>1. r.t.wire \in Seq(ChunkType)
    BY <1>5, PeerTypes, TransportTypes
  <2>2. SidsKept(s, r)
    BY <1>4, <1>6 DEF SidsKept, MayTake
  <2>3. WireGood(p, s.ch, r.t.wire)
    BY <1>4 DEF Good
  <2> QED
    BY <1>5, <2>1, <2>2, <2>3, WireOfKeptSids
<1> QED
  BY <1>4, <1>5, <1>7, <1>8, <1>9, <1>10, <1>11 DEF Good

LEMMA NoChannelType == NoChannel \in ChannelType
<1>1. PICK x : x = <<>>
  OBVIOUS
<1>2. x \in Seq(Nat) /\ x \in Seq(Chans \X Nat)
  BY <1>1, EmptySeq
<1> QED
  BY <1>1, <1>2
     DEF NoChannel, ChannelType, States, Handshakes, IdType

LEMMA InitGood ==
  ASSUME NEW p \in Peers, NEW s, NEW c \in Chans, NEW role, NEW id, Good(p, s),
         MayTake(p, s, c, role, id)
  PROVE  /\ Good(p, InitChannel(s, c, role, id))
         /\ Made(s, InitChannel(s, c, role, id), c, id)
<1>0. /\ s \in PeerType /\ s.ch[c] \in ChannelType /\ ChannelGood(p, s.ch[c])
      /\ s.sctp_ready \in BOOLEAN
  BY PeerTypes DEF Good
<1>1. PICK h \in Handshakes : h = CASE role = "none" -> "Ready"
                                    [] role = "opener" -> "ShouldSendOpen"
                                    [] role = "acker" -> "ShouldSendAck"
  BY DEF Handshakes, MayTake
<1>2. PICK a, e, b, w, x : /\ a = s.ch[c].accepted /\ e = s.ch[c].delivered
                           /\ b = s.ch[c].shut /\ w = s.sctp_ready
                           /\ x = <<>>
  OBVIOUS
<1>3. /\ a \in Nat /\ e \in Seq(Chans \X Nat) /\ b \in BOOLEAN /\ w \in BOOLEAN
      /\ x \in Seq(Nat) /\ x \in Seq(Chans \X Nat) /\ Len(x) = 0
      /\ a <= MaxMessages[p]
  BY <1>0, <1>2, ChannelTypes, EmptySeq DEF ChannelGood
<1>16. PICK z : z = NoChannel
  OBVIOUS
<1>17. /\ z \in ChannelType
       /\ z.send = x /\ z.received = x /\ z.messages_sent = 0
  BY <1>2, <1>16, NoChannelType DEF NoChannel
<1>4. PICK ch : ch = [z EXCEPT !.state = "connecting", !.role = role,
                               !.handshake = h, !.id = id, !.readymsg = w,
                               !.accepted = a, !.first = a, !.delivered = e,
                               !.shut = b]
  OBVIOUS
<1>5. ch \in ChannelType
  BY <1>3, <1>4, <1>17, ZenonT(60) DEF ChannelType, States, MayTake
<1>6. /\ ch.state = "connecting" /\ ch.id = id /\ ch.role = role
      /\ ch.send = x /\ ch.received = x /\ ch.accepted = a /\ ch.first = a
      /\ ch.messages_sent = 0
  BY <1>4, <1>17 DEF ChannelType
<1>7. Unsent(ch) = 0
  <2>1. Len(ch.send) = 0
    BY <1>3, <1>6
  <2>2. a - a - 0 - 0 = 0
    BY <1>3
  <2> QED
    BY <1>6, <2>1, <2>2 DEF Unsent
<1>8. ChannelGood(p, ch)
  BY <1>3, <1>6, <1>7, BoundsAssumption DEF ChannelGood, MayTake
<1>9. PICK y : y = NewObject(s, c, ch, id)
  OBVIOUS
<1>10. InitChannel(s, c, role, id) = OnTransportChannelCreated(y, c)
  <2> DEFINE new == [NoChannel EXCEPT !.state = "connecting", !.role = role,
                                      !.handshake = h, !.id = id,
                                      !.readymsg = w, !.accepted = a,
                                      !.first = a, !.delivered = e,
                                      !.shut = b]
  <2>1. ch = new
    BY <1>4, <1>16
  <2>2. InitChannel(s, c, role, id)
          = OnTransportChannelCreated(NewObject(s, c, new, id), c)
    BY <1>1, <1>2 DEF InitChannel, NewObject
  <2> QED
    BY <1>9, <2>1, <2>2
<1>11. Good(p, y) /\ OnlyChannel(s, y, c) /\ y.ch[c] = ch /\ y.t = s.t
  BY <1>5, <1>6, <1>8, <1>9, NewObjectGood
<1>12. Live(y.ch[c])
  BY <1>6, <1>11 DEF Live
<1>13. PICK r : r = OnTransportChannelCreated(y, c)
  OBVIOUS
<1>14. Good(p, r) /\ Joined(y, r, c)
  BY <1>11, <1>12, <1>13, JoinGood
<1>15. Made(s, r, c, id)
  BY <1>6, <1>7, <1>11, <1>14 DEF Made, Joined, OnlyChannel
<1> QED
  BY <1>10, <1>13, <1>14, <1>15

LEMMA MadeStep ==
  ASSUME NEW p, NEW s, NEW r, NEW c \in Chans, NEW role, NEW id, NEW chs,
         Linked(s), Good(p, r), Made(s, r, c, id), MayTake(p, s, c, role, id),
         p = Opener \/ config.negotiated \/ (id \in Sids /\ id = chs[c].id)
  PROVE  PeerStep(p, s, r, chs)
<1>1. /\ \A d \in Chans : d # c => r.ch[d] = s.ch[d]
      /\ r.t.phase = s.t.phase /\ r.t.posted = s.t.posted
  BY DEF Made, OnlyChannel
<1>2. Linked(r)
  BY <1>1 DEF Linked, Made, TransportExists
<1>3. SidsKept(s, r)
  BY <1>1 DEF SidsKept, Made, MayTake
<1>4. PostsNone(s, r)
  BY <1>1 DEF PostsNone
<1>5. p # Opener /\ ~config.negotiated /\ SameSids(s, chs) => SameSids(r, chs)
  BY <1>1 DEF SameSids, Made
<1>6. Flushes(s) => Flushes(r)
  BY <1>1 DEF Flushes, Made
<1> QED
  BY <1>1, <1>2, <1>3, <1>4, <1>5, <1>6 DEF PeerStep

LEMMA OnDataReceivedGood ==
  ASSUME NEW p \in Peers, NEW s, NEW c \in Chans, Good(p, s),
         s.ch[c].state # "none", NEW m \in MessageType, m.kind # "open",
         NEW u \in OnDataReceived(s, c, m)
  PROVE  Good(p, u) /\ Kept(s, u)
<1>0. s \in PeerType /\ s.ch[c] \in ChannelType /\ ChannelGood(p, s.ch[c])
  BY PeerTypes DEF Good
<1>1. PICK h \in Handshakes :
        h = IF s.ch[c].handshake = "WaitingForAck" THEN "Ready"
            ELSE s.ch[c].handshake
  BY <1>0, ChannelTypes DEF Handshakes
<1>2. PICK x : x = [s EXCEPT !.ch[c].handshake = h]
  OBVIOUS
<1>3. /\ x \in PeerType /\ OnlyChannel(s, x, c)
      /\ x.ch[c] = [s.ch[c] EXCEPT !.handshake = h]
      /\ x.used = s.used /\ x.t = s.t
  BY <1>0, <1>2 DEF PeerType, ChannelType, OnlyChannel
<1>4. SameChannel(s.ch[c], x.ch[c])
  BY <1>0, <1>3 DEF ChannelType, SameChannel, ChannelGood
<1>5. QuietStep(p, s, x, c)
  BY <1>3, <1>4 DEF QuietStep, Good
<1>6. Good(p, x) /\ Kept(s, x)
  BY <1>5, QuietStepGood
<1>7. x.ch[c] \in ChannelType /\ x.ch[c].state # "none"
  BY <1>3, <1>4, PeerTypes DEF SameChannel
<1>8. x.ch[c].received = s.ch[c].received
      /\ x.ch[c].delivered = s.ch[c].delivered
  BY <1>0, <1>3 DEF ChannelType
<1>9. CASE m.kind = "ack"
  <2>1. u = x
    BY <1>1, <1>2, <1>9 DEF OnDataReceived
  <2> QED
    BY <1>6, <2>1
<1>10. CASE m.kind = "data"
  <2>1. PICK d \in Chans \X Nat : d = <<m.label, m.number>>
    BY <1>10 DEF MessageType
  <2>2. PICK a, b, l, k, e : /\ a = s.ch[c].delivered /\ b = s.ch[c].received
                             /\ l = Append(a, d) /\ k = Append(b, d) /\ e = <<>>
    OBVIOUS
  <2>3. a \in Seq(Chans \X Nat) /\ b \in Seq(Chans \X Nat)
    BY <1>0, <2>2, ChannelTypes
  <2>4. /\ l \in Seq(Chans \X Nat) /\ k \in Seq(Chans \X Nat)
        /\ Len(k) = Len(b) + 1
    BY <2>1, <2>2, <2>3, AppendProperties
  <2>5. e \in Seq(Chans \X Nat) /\ Len(e) = 0
    BY <2>2, EmptySeq
  <2>6. MaxRecvQueue \in Nat /\ Len(b) \in Nat /\ Len(b) <= MaxRecvQueue
    BY <1>0, <2>2, UnsentInt, BoundsAssumption DEF ChannelGood
  <2> DEFINE X == [s EXCEPT !.ch[c].handshake =
                              IF @ = "WaitingForAck" THEN "Ready" ELSE @]
             D == <<m.label, m.number>>
  <2>7. \/ u = [X EXCEPT !.ch[c].delivered = Append(@, D)]
        \/ /\ Len(s.ch[c].received) + 1 > MaxRecvQueue
           /\ u \in Close([X EXCEPT !.ch[c].received = <<>>], c)
        \/ /\ ~(Len(s.ch[c].received) + 1 > MaxRecvQueue)
           /\ u = [X EXCEPT !.ch[c].received = Append(@, D)]
    BY <1>10 DEF OnDataReceived
  <2>8. X = x /\ D = d
    BY <1>1, <1>2, <2>1
  <2> HIDE DEF X, D
  <2>9. \/ u = [x EXCEPT !.ch[c].delivered = l]
        \/ u \in Close([x EXCEPT !.ch[c].received = e], c)
        \/ /\ ~(Len(b) + 1 > MaxRecvQueue)
           /\ u = [x EXCEPT !.ch[c].received = k]
    BY <1>8, <2>2, <2>7, <2>8
  <2>10. ASSUME NEW y, NEW k1 \in Seq(Chans \X Nat), Len(k1) <= MaxRecvQueue,
                y = [x EXCEPT !.ch[c].received = k1]
         PROVE  Good(p, y) /\ Kept(x, y) /\ y.ch[c].state # "none"
    <3>1. /\ y \in PeerType /\ OnlyChannel(x, y, c)
          /\ y.ch[c] = [x.ch[c] EXCEPT !.received = k1]
          /\ y.used = x.used /\ y.t = x.t
      BY <1>3, <1>7, <2>10 DEF PeerType, ChannelType, OnlyChannel
    <3>2. y.ch[c].received = k1
      BY <1>7, <3>1 DEF ChannelType
    <3>6. PICK g : g = x.ch[c]
      OBVIOUS
    <3>7. g \in ChannelType /\ y.ch[c] = [g EXCEPT !.received = k1]
      BY <1>7, <3>1, <3>6
    <3>9. PICK z : z = y.ch[c]
      OBVIOUS
    <3>10. /\ z.state = g.state /\ z.id = g.id /\ z.role = g.role
           /\ z.connected = g.connected /\ z.readymsg = g.readymsg
           /\ z.send = g.send /\ z.accepted = g.accepted /\ z.first = g.first
           /\ z.messages_sent = g.messages_sent
      BY <3>7, <3>9 DEF ChannelType
    <3>11. Len(z.received) <= MaxRecvQueue
      BY <2>10, <3>2, <3>9
    <3>8. SameChannel(g, y.ch[c])
      BY <3>9, <3>10, <3>11 DEF SameChannel
    <3>3. SameChannel(x.ch[c], y.ch[c])
      BY <3>6, <3>8
    <3>4. QuietStep(p, x, y, c)
      BY <1>6, <3>1, <3>3 DEF QuietStep, Good
    <3>5. y.ch[c].state # "none"
      BY <1>7, <3>3 DEF SameChannel
    <3> QED
      BY <1>6, <3>4, <3>5, QuietStepGood
  <2>11. CASE u = [x EXCEPT !.ch[c].delivered = l]
    <3>1. /\ u \in PeerType /\ OnlyChannel(x, u, c)
          /\ u.ch[c] = [x.ch[c] EXCEPT !.delivered = l]
          /\ u.used = x.used /\ u.t = x.t
      BY <1>3, <1>7, <2>4, <2>11 DEF PeerType, ChannelType, OnlyChannel
    <3>2. u.ch[c].received = b
      BY <1>7, <1>8, <2>2, <3>1 DEF ChannelType
    <3>3. SameChannel(x.ch[c], u.ch[c])
      BY <1>7, <2>6, <3>1, <3>2 DEF ChannelType, SameChannel
    <3>4. QuietStep(p, x, u, c)
      BY <1>6, <3>1, <3>3 DEF QuietStep, Good
    <3>5. Good(p, u) /\ Kept(x, u)
      BY <1>6, <3>4, QuietStepGood
    <3> QED
      BY <1>6, <3>5, KeptTransitive
  <2>12. CASE u \in Close([x EXCEPT !.ch[c].received = e], c)
    <3>1. PICK y : y = [x EXCEPT !.ch[c].received = e]
      OBVIOUS
    <3>2. Len(e) <= MaxRecvQueue
      BY <2>5, <2>6
    <3>3. Good(p, y) /\ Kept(x, y) /\ y.ch[c].state # "none"
      BY <2>5, <2>10, <3>1, <3>2
    <3>4. u \in Close(y, c)
      BY <2>12, <3>1
    <3>5. Good(p, u) /\ Kept(y, u)
      BY <3>3, <3>4, CloseGood
    <3>6. Kept(s, y)
      BY <1>6, <3>3, KeptTransitive
    <3> QED
      BY <3>5, <3>6, KeptTransitive
  <2>13. CASE /\ ~(Len(b) + 1 > MaxRecvQueue)
              /\ u = [x EXCEPT !.ch[c].received = k]
    <3>1. Len(k) <= MaxRecvQueue
      BY <2>4, <2>6, <2>13
    <3>2. Good(p, u) /\ Kept(x, u)
      BY <2>4, <2>10, <2>13, <3>1
    <3> QED
      BY <1>6, <3>2, KeptTransitive
  <2> QED
    BY <2>9, <2>11, <2>12, <2>13
<1> QED
  BY <1>9, <1>10 DEF MessageType


-----------------------------------------------------------------------------
(* A transport that goes away takes the queues with it. *)
Dropped(s, r) ==
  /\ r.used \subseteq s.used
  /\ \A c \in Chans : /\ r.ch[c].id = s.ch[c].id
                      /\ (r.ch[c].state = "none") <=> (s.ch[c].state = "none")

LEMMA DroppedTransitive ==
  ASSUME NEW s, NEW r, NEW u, Dropped(s, r), Dropped(r, u)
  PROVE  Dropped(s, u)
BY DEF Dropped

LEMMA OnTransportChannelDestroyedGood ==
  ASSUME NEW p \in Peers, NEW s, NEW c \in Chans, Good(p, s),
         s.ch[c].state # "none", NEW u \in OnTransportChannelDestroyed(s, c)
  PROVE  Good(p, u) /\ Dropped(s, u)
<1>0. s \in PeerType /\ s.ch[c] \in ChannelType /\ ChannelGood(p, s.ch[c])
  BY PeerTypes DEF Good
<1>1. PICK e : e = <<>>
  OBVIOUS
<1>2. e \in Seq(Nat) /\ Len(e) = 0
  BY <1>1, EmptySeq
<1>3. PICK x : x = [s EXCEPT !.ch[c].send = e, !.ch[c].control = 0]
  OBVIOUS
<1>4. /\ x \in PeerType /\ OnlyChannel(s, x, c)
      /\ x.ch[c] = [s.ch[c] EXCEPT !.send = e, !.control = 0]
      /\ x.used = s.used /\ x.t = s.t
  BY <1>0, <1>2, <1>3 DEF PeerType, ChannelType, OnlyChannel
<1>5. PICK y : y = x.ch[c]
  OBVIOUS
<1>6. /\ y.state = s.ch[c].state /\ y.connected = s.ch[c].connected
      /\ y.readymsg = s.ch[c].readymsg
      /\ y.id = s.ch[c].id /\ y.send = e
      /\ y.received = s.ch[c].received /\ y.role = s.ch[c].role
      /\ y.accepted = s.ch[c].accepted /\ y.first = s.ch[c].first
      /\ y.messages_sent = s.ch[c].messages_sent
  BY <1>0, <1>4, <1>5 DEF ChannelType
<1>7. Unsent(y) >= 0
  <2>1. PICK l \in Nat : l = Len(s.ch[c].send)
    BY <1>0, UnsentInt
  <2>2. PICK n \in Int : n = s.ch[c].accepted - s.ch[c].first
                               - s.ch[c].messages_sent
    BY <1>0, ChannelTypes
  <2>3. Unsent(s.ch[c]) = n - l /\ Unsent(y) = n - Len(e)
    BY <1>6, <2>1, <2>2 DEF Unsent
  <2>4. n - l >= 0
    BY <1>0, <2>3 DEF ChannelGood
  <2> QED
    BY <1>2, <2>1, <2>2, <2>3, <2>4
<1>8. ChannelGood(p, y) /\ (Live(y) <=> Live(s.ch[c]))
  BY <1>0, <1>1, <1>2, <1>6, <1>7, BoundsAssumption DEF ChannelGood, Live
<1>9. ASSUME NEW d \in Chans
      PROVE  /\ ChannelGood(p, x.ch[d]) /\ x.ch[d].id = s.ch[d].id
             /\ x.ch[d].connected = s.ch[d].connected
             /\ Live(x.ch[d]) <=> Live(s.ch[d])
             /\ x.ch[d].state = s.ch[d].state
  <2>1. CASE d = c
    BY <1>5, <1>6, <1>8, <2>1
  <2>2. CASE d # c
    <3>1. x.ch[d] = s.ch[d]
      BY <1>4, <2>2 DEF OnlyChannel
    <3>2. ChannelGood(p, s.ch[d])
      BY DEF Good
    <3> QED
      BY <3>1, <3>2
  <2> QED
    BY <2>1, <2>2
<1>10. Shaped(p, s, x)
  BY <1>4, <1>9 DEF Shaped, Good
<1>11. Good(p, x)
  BY <1>10, ShapedGood
<1>12. Dropped(s, x) /\ x.ch[c].state # "none"
  BY <1>4, <1>9 DEF Dropped
<1>13. u \in Close(x, c)
  BY <1>1, <1>3 DEF OnTransportChannelDestroyed
<1>14. Good(p, u) /\ Kept(x, u)
  BY <1>11, <1>12, <1>13, CloseGood
<1>15. Dropped(x, u)
  BY <1>14 DEF Dropped, Kept, ChannelKept
<1> QED
  BY <1>12, <1>14, <1>15, DroppedTransitive

LEMMA CloseChannelsGood ==
  ASSUME NEW p \in Peers, NEW s, Good(p, s), NEW u \in CloseChannels(s)
  PROVE  Good(p, u) /\ Dropped(s, u)
<1>1. PICK f : /\ Run("close", s, {s}, MaxChannels, f)
               /\ CloseChannels(s) = f[MaxChannels]
  BY CloseResult
<1>2. /\ MaxChannels \in Nat /\ f[0] = {s}
      /\ \A c \in Chans : f[c] = Turn("close", s, c, f[c - 1])
  BY <1>1, RunSteps
<1> DEFINE Fine(r) == Good(p, r) /\ Dropped(s, r)
           Bad == {c \in 0..MaxChannels : ~ \A r \in f[c] : Fine(r)}
<1>3. Bad \in SUBSET Nat
  BY <1>2
<1>4. Bad = {}
  <2> SUFFICES ASSUME Bad # {} PROVE FALSE
    OBVIOUS
  <2>1. PICK c \in Bad : \A k \in Bad : c <= k
    BY <1>3, LeastElement
  <2>2. PICK r \in f[c] : ~Fine(r)
    BY <2>1
  <2>3. CASE c = 0
    <3>1. Dropped(s, s)
      BY DEF Dropped
    <3> QED
      BY <1>2, <2>2, <2>3, <3>1
  <2>4. CASE c # 0
    <3>1. c \in Chans /\ c - 1 \in 0..MaxChannels /\ ~(c <= c - 1)
      BY <1>2, <2>4 DEF Chans
    <3>2. c - 1 \notin Bad
      BY <2>1, <3>1
    <3>3. \A y \in f[c - 1] : Fine(y)
      BY <3>1, <3>2
    <3>4. f[c] = CloseTurn(s, c, f[c - 1])
      BY <1>2, <3>1 DEF Turn
    <3>5. CASE ~Live(s.ch[c])
      <4>1. f[c] = f[c - 1]
        BY <3>4, <3>5 DEF CloseTurn
      <4> QED
        BY <2>2, <3>3, <4>1
    <3>6. CASE Live(s.ch[c])
      <4>1. PICK y \in f[c - 1] : r \in OnTransportChannelDestroyed(y, c)
        BY <2>2, <3>4, <3>6 DEF CloseTurn
      <4>2. Good(p, y) /\ Dropped(s, y)
        BY <3>3
      <4>3. s.ch[c].state # "none"
        BY <3>6 DEF Live
      <4>4. y.ch[c].state # "none"
        BY <3>1, <4>2, <4>3 DEF Dropped
      <4>5. Good(p, r) /\ Dropped(y, r)
        BY <3>1, <4>1, <4>2, <4>4, OnTransportChannelDestroyedGood
      <4>6. Dropped(s, r)
        BY <4>2, <4>5, DroppedTransitive
      <4> QED
        BY <2>2, <4>5, <4>6
    <3> QED
      BY <3>5, <3>6
  <2> QED
    BY <2>3, <2>4
<1>5. \A r \in f[MaxChannels] : Fine(r)
  BY <1>2, <1>4
<1> QED
  BY <1>1, <1>5

LEMMA NoTransportType ==
  /\ NoTransport \in TransportType
  /\ NoTransport.open = {} /\ NoTransport.wire = <<>>
  /\ NoTransport.posted = <<>> /\ NoTransport.phase = "none"
<1>1. PICK x : x = <<>>
  OBVIOUS
<1>2. x \in Seq(EventType) /\ x \in Seq(ChunkType)
  BY <1>1, EmptySeq
<1>3. 0 \in 0..MaxBlocks /\ 0 \in 0..MaxErrors
  BY UsrsctpAssumption
<1>4. NoTransport \in TransportType
  BY <1>1, <1>2, <1>3 DEF NoTransport, TransportType, Phases
<1> QED
  BY <1>4 DEF NoTransport

LEMMA DestroyedStep ==
  ASSUME NEW p \in Peers, NEW s, NEW y \in CloseChannels(s), NEW chs, Good(p, s),
         NEW r, r = [y EXCEPT !.t = [NoTransport EXCEPT !.phase = "destroyed"],
                              !.used = s.used, !.sctp_ready = FALSE]
  PROVE  PeerStep(p, s, r, chs)
<1>1. Good(p, y) /\ Dropped(s, y)
  BY CloseChannelsGood
<1>2. s \in PeerType /\ y \in PeerType
  BY <1>1 DEF Good
<1>3. PICK z : z = NoTransport
  OBVIOUS
<1>4. z \in TransportType /\ z.open = {} /\ z.wire = <<>> /\ z.posted = <<>>
  BY <1>3, NoTransportType
<1>5. PICK t : t = [z EXCEPT !.phase = "destroyed"]
  OBVIOUS
<1>6. /\ t \in TransportType /\ t.open = {} /\ t.wire = <<>>
      /\ t.posted = <<>> /\ t.phase = "destroyed"
  BY <1>4, <1>5 DEF TransportType, Phases
<1>7. PICK v : v = s.used
  OBVIOUS
<1>8. v \in SUBSET Sids
  BY <1>2, <1>7, PeerTypes
<1>9. r = [y EXCEPT !.t = t, !.used = v, !.sctp_ready = FALSE]
  BY <1>3, <1>5, <1>7
<1>10. r \in PeerType /\ r.t = t /\ r.used = v /\ r.ch = y.ch
  BY <1>2, <1>6, <1>8, <1>9 DEF PeerType
<1>11. DOMAIN r.t.wire = {} /\ DOMAIN r.t.posted = {}
  BY <1>6, <1>10
<1>12. Good(p, r)
  <2>1. \A c \in Chans : ChannelGood(p, r.ch[c])
    BY <1>1, <1>10 DEF Good
  <2>2. Owned(r)
    BY <1>6, <1>10 DEF Owned
  <2>3. Reserved(r)
    BY <1>1, <1>7, <1>10 DEF Good, Reserved, Dropped
  <2>4. Distinct(r)
    BY <1>1, <1>10 DEF Good, Distinct
  <2>5. WireGood(p, r.ch, r.t.wire)
    BY <1>11 DEF WireGood
  <2> QED
    BY <1>10, <2>1, <2>2, <2>3, <2>4, <2>5 DEF Good
<1>13. Linked(r)
  BY <1>6, <1>10 DEF Linked, TransportExists
<1>14. SidsKept(s, r)
  BY <1>1, <1>10 DEF SidsKept, Dropped
<1>15. PostsNone(s, r)
  BY <1>11 DEF PostsNone
<1>16. SameSids(s, chs) => SameSids(r, chs)
  BY <1>1, <1>10 DEF SameSids, Dropped
<1>17. r.t.phase = "destroyed"
  BY <1>6, <1>10
<1> QED
  BY <1>12, <1>13, <1>14, <1>15, <1>16, <1>17 DEF PeerStep


-----------------------------------------------------------------------------
(* The signaling thread handles a posted event. *)
LEMMA SameStep ==
  ASSUME NEW p, NEW s, NEW chs, Linked(s), Good(p, s)
  PROVE  PeerStep(p, s, s, chs)
BY KeptReflexive, KeptStep

LEMMA OpenMessageStep ==
  ASSUME NEW p \in Peers, NEW s, NEW q, NEW chs, p # q, Linked(s), Good(p, s),
         NEW m \in MessageType, m.kind = "open", MessageGood(q, chs, m),
         p # Opener /\ ~config.negotiated => SameSids(s, chs)
  PROVE  PeerStep(p, s, OnDataChannelOpenMessage(s, m), chs)
<1>1. CASE m.sid \in s.used
  BY <1>1, SameStep DEF OnDataChannelOpenMessage
<1>2. CASE m.sid \notin s.used
  <2>1. PICK c, id : c = m.label /\ id = m.sid
    OBVIOUS
  <2>2. c \in Chans
    BY <2>1 DEF MessageType
  <2>3. /\ id \in Sids /\ id = chs[c].id /\ id \notin s.used
        /\ q = Opener /\ ~config.negotiated
    BY <1>2, <2>1 DEF MessageGood
  <2>4. s.ch[c].state # "none" => s.ch[c].id = id
    BY <2>2, <2>3 DEF SameSids
  <2>5. ~Live(s.ch[c])
    <3> SUFFICES ASSUME Live(s.ch[c]) PROVE FALSE
      OBVIOUS
    <3>1. s.ch[c].id = id
      BY <2>4 DEF Live
    <3> QED
      BY <2>2, <2>3, <3>1 DEF Good, Reserved
  <2>6. s.ch[c].id \in Sids => s.ch[c].id = id
    <3>1. s.ch[c].state = "none" => s.ch[c].id = -1
      BY <2>2 DEF Good, ChannelGood
    <3>2. -1 \notin Sids
      BY SidsAssumption
    <3> QED
      BY <2>4, <3>1, <3>2
  <2>7. MayTake(p, s, c, "acker", id)
    BY <2>3, <2>5, <2>6 DEF MayTake, IdType
  <2>8. PICK r : r = InitChannel(s, c, "acker", id)
    OBVIOUS
  <2>9. OnDataChannelOpenMessage(s, m) = r
    BY <1>2, <2>1, <2>8 DEF OnDataChannelOpenMessage
  <2>10. Good(p, r) /\ Made(s, r, c, id)
    BY <2>2, <2>7, <2>8, InitGood
  <2>11. PeerStep(p, s, r, chs)
    BY <2>2, <2>3, <2>7, <2>10, MadeStep
  <2> QED
    BY <2>9, <2>11
<1> QED
  BY <1>1, <1>2

LEMMA HandleStep ==
  ASSUME NEW p \in Peers, NEW s, NEW q, NEW chs, p # q, Linked(s), Good(p, s),
         config \in Configs, NEW e \in EventType,
         e.ev = "message" => MessageGood(q, chs, e.m),
         p # Opener /\ ~config.negotiated => SameSids(s, chs),
         NEW u \in Handle(s, e)
  PROVE  PeerStep(p, s, u, chs)
<1>0. ASSUME NEW c \in Chans, c \in Connected(s) PROVE s.ch[c].state # "none"
  BY <1>0 DEF Connected, Good, ChannelGood
<1>1. CASE e.ev = "ready"
  <2>1. u \in OnSctpTransportReadyToSendData(s)
    BY <1>1 DEF Handle
  <2>2. Good(p, u) /\ Kept(s, u)
    BY <2>1, ReadyGood
  <2> QED
    BY <2>2, KeptStep
<1>2. CASE e.ev = "closed"
  <2>1. u = s \/ \E c \in WithSid(s, e.sid) : u \in Close(s, c)
    BY <1>2 DEF Handle
  <2>2. CASE u = s
    BY <2>2, SameStep
  <2>3. ASSUME NEW c \in WithSid(s, e.sid), u \in Close(s, c)
        PROVE  PeerStep(p, s, u, chs)
    <3>1. c \in Chans /\ c \in Connected(s)
      BY DEF WithSid, Connected
    <3>2. s.ch[c].state # "none"
      BY <1>0, <3>1
    <3>3. Good(p, u) /\ Kept(s, u)
      BY <2>3, <3>1, <3>2, CloseGood
    <3> QED
      BY <3>3, KeptStep
  <2> QED
    BY <2>1, <2>2, <2>3
<1>3. CASE e.ev = "message"
  <2>1. PICK m : m = e.m
    OBVIOUS
  <2>2. m \in MessageType /\ MessageGood(q, chs, m)
    BY <1>3, <2>1 DEF EventType
  <2>3. CASE m.kind = "open"
    <3>1. u = OnDataChannelOpenMessage(s, m)
      BY <1>3, <2>1, <2>3 DEF Handle
    <3> QED
      BY <2>2, <2>3, <3>1, OpenMessageStep
  <2>4. CASE m.kind # "open"
    <3>1. u = s \/ \E c \in WithSid(s, m.sid) : u \in OnDataReceived(s, c, m)
      BY <1>3, <2>1, <2>4 DEF Handle
    <3>2. CASE u = s
      BY <3>2, SameStep
    <3>3. ASSUME NEW c \in WithSid(s, m.sid), u \in OnDataReceived(s, c, m)
          PROVE  PeerStep(p, s, u, chs)
      <4>1. c \in Chans /\ c \in Connected(s)
        BY DEF WithSid, Connected
      <4>2. s.ch[c].state # "none"
        BY <1>0, <4>1
      <4>3. Good(p, u) /\ Kept(s, u)
        BY <2>2, <2>4, <3>3, <4>1, <4>2, OnDataReceivedGood
      <4> QED
        BY <4>3, KeptStep
    <3> QED
      BY <3>1, <3>2, <3>3
  <2> QED
    BY <2>3, <2>4
<1> QED
  BY <1>1, <1>2, <1>3 DEF EventType

-----------------------------------------------------------------------------
(* Steps of the transport. *)
TransportStep(p, s, t) ==
  /\ t \in TransportType /\ t.open \subseteq s.t.open
  /\ WireGood(p, s.ch, t.wire)
  /\ t.phase = s.t.phase \/ (TransportExists(s.t) /\ TransportExists(t))

LEMMA TransportStepKeeps ==
  ASSUME NEW p \in Peers, NEW s, NEW t, Good(p, s), Linked(s),
         TransportStep(p, s, t), NEW r, r = [s EXCEPT !.t = t]
  PROVE  /\ Good(p, r) /\ Linked(r) /\ r.ch = s.ch /\ r.t = t
         /\ r.t.phase # "destroyed" =>
              s.t.phase # "destroyed" /\ (Flushes(s) => Flushes(r))
<1>1. s \in PeerType
  BY DEF Good
<1>2. /\ r \in PeerType /\ r.ch = s.ch /\ r.used = s.used /\ r.t = t
  BY <1>1 DEF PeerType, TransportStep
<1>3. \A c \in Chans : ChannelGood(p, s.ch[c])
  BY DEF Good
<1>4. Shaped(p, s, r)
  BY <1>2, <1>3 DEF Shaped, TransportStep
<1>5. Good(p, r)
  BY <1>4, ShapedGood
<1>6. Linked(r)
  BY <1>2 DEF Linked, TransportStep, TransportExists
<1>7. Flushes(s) => Flushes(r)
  BY <1>2 DEF Flushes
<1>8. r.t.phase # "destroyed" => s.t.phase # "destroyed"
  BY <1>2 DEF TransportStep, TransportExists
<1> QED
  BY <1>2, <1>5, <1>6, <1>7, <1>8

LEMMA TransportPeerStep ==
  ASSUME NEW p \in Peers, NEW s, NEW t, NEW chs, Good(p, s), Linked(s),
         TransportStep(p, s, t), NEW r, r = [s EXCEPT !.t = t],
         PostsNone(s, r)
  PROVE  PeerStep(p, s, r, chs)
<1>1. /\ Good(p, r) /\ Linked(r) /\ r.ch = s.ch
      /\ r.t.phase # "destroyed" =>
           s.t.phase # "destroyed" /\ (Flushes(s) => Flushes(r))
  BY TransportStepKeeps
<1>2. SidsKept(s, r) /\ (SameSids(s, chs) => SameSids(r, chs))
  BY <1>1 DEF SidsKept, SameSids
<1> QED
  BY <1>1, <1>2 DEF PeerStep

LEMMA WireShrinks ==
  ASSUME NEW p, NEW chs, NEW wire \in Seq(ChunkType), NEW i \in DOMAIN wire,
         WireGood(p, chs, wire)
  PROVE  RemoveAt(wire, i) \in Seq(ChunkType) /\ WireGood(p, chs, RemoveAt(wire, i))
<1>1. Len(wire) \in Nat /\ DOMAIN wire = 1..Len(wire)
  BY LenProperties
<1>2. PICK w : w = RemoveAt(wire, i)
  OBVIOUS
<1>3. /\ w \in Seq(ChunkType) /\ Len(w) = Len(wire) - 1
      /\ \A j \in 1..Len(wire) - 1 :
           w[j] = IF j < i THEN wire[j] ELSE wire[j + 1]
  BY <1>1, <1>2, RemoveAtProperties
<1>4. DOMAIN w = 1..(Len(wire) - 1)
  BY <1>3, LenProperties
<1>5. ASSUME NEW j \in DOMAIN w PROVE \E k \in DOMAIN wire : w[j] = wire[k]
  <2>1. PICK n \in Nat : n = Len(wire)
    BY <1>1
  <2>2. j \in 1..(n - 1) /\ j \in 1..n /\ j + 1 \in 1..n
    BY <1>4, <2>1
  <2>3. w[j] = wire[j] \/ w[j] = wire[j + 1]
    BY <1>3, <2>1, <2>2
  <2> QED
    BY <1>1, <2>1, <2>2, <2>3
<1>6. WireGood(p, chs, w)
  BY <1>5 DEF WireGood
<1> QED
  BY <1>2, <1>3, <1>6

LEMMA ReadyPosted ==
  ASSUME NEW t \in TransportType, NEW u, u = SetReadyToSendData(t)
  PROVE  /\ u \in TransportType /\ u.open = t.open /\ u.wire = t.wire
         /\ u.phase = t.phase /\ PostsNoMessage(t, u)
<1>1. CASE t.ready
  BY <1>1 DEF SetReadyToSendData, PostsNoMessage
<1>2. CASE ~t.ready
  <2>1. PICK e : e = [ev |-> "ready"]
    OBVIOUS
  <2>2. e \in EventType /\ e.ev = "ready"
    BY <2>1 DEF EventType
  <2>3. PICK l : l = Append(t.posted, e)
    OBVIOUS
  <2>4. /\ l \in Seq(EventType) /\ Len(l) = Len(t.posted) + 1
        /\ \A i \in 1..Len(t.posted) : l[i] = t.posted[i]
        /\ l[Len(t.posted) + 1] = e
    BY <2>2, <2>3, TransportTypes, AppendProperties
  <2>5. u = [t EXCEPT !.ready = TRUE, !.posted = l]
    BY <1>2, <2>1, <2>3 DEF SetReadyToSendData, Post
  <2>6. /\ u \in TransportType /\ u.open = t.open /\ u.wire = t.wire
        /\ u.phase = t.phase /\ u.posted = l
    BY <2>4, <2>5 DEF TransportType
  <2>7. PostsNoMessage(t, u)
    <3>1. PICK n \in Nat : n = Len(t.posted) /\ DOMAIN t.posted = 1..n
      BY TransportTypes, LenProperties
    <3>2. DOMAIN u.posted = 1..(n + 1)
      BY <2>4, <2>6, <3>1, LenProperties
    <3> QED
      BY <2>2, <2>4, <2>6, <3>1, <3>2 DEF PostsNoMessage
  <2> QED
    BY <2>6, <2>7
<1> QED
  BY <1>1, <1>2


-----------------------------------------------------------------------------
(* The two peers. *)
LEMMA OtherPeer ==
  ASSUME NEW p \in Peers
  PROVE  Other(p) \in Peers /\ Other(p) # p /\ Peers = {p, Other(p)}
<1>1. IsFiniteSet(Peers \ {p}) /\ Cardinality(Peers \ {p}) = 1
  BY PeersAssumption, FS_RemoveElement
<1>2. PICK q : Peers \ {p} = {q}
  BY <1>1, FS_Singleton
<1>3. q \in Peers /\ q # p /\ Peers = {p, q}
  BY <1>2
<1>4. Other(p) \in Peers /\ Other(p) # p
  BY <1>3 DEF Other
<1> QED
  BY <1>3, <1>4

(* Inv of the next state, from the operators of this one. *)
LEMMA InvPrimed ==
  ASSUME config' = config, config \in Configs, DOMAIN peer' = Peers,
         \A p \in Peers : Good(p, peer'[p]) /\ Linked(peer'[p]),
         \A p \in Peers :
           peer'[p].t.phase # "destroyed" => Flushes(peer'[p]),
         \A p, q \in Peers : p # q =>
           /\ PostedGood(peer'[p], q, peer'[q].ch)
           /\ p # Opener /\ ~config.negotiated =>
                SameSids(peer'[p], peer'[q].ch)
  PROVE  Inv'
<1>1. (config \in Configs)' /\ (DOMAIN peer = Peers)'
  OBVIOUS
<1>2. (\A p \in Peers : Good(p, peer[p]) /\ Linked(peer[p]))'
  BY DEF Good, ChannelGood, WireGood, MessageGood, Owned, Reserved, Distinct,
         Linked
<1>3. (\A p \in Peers : peer[p].t.phase # "destroyed" => Flushes(peer[p]))'
  BY DEF Flushes
<1>4. (\A p, q \in Peers : p # q => Agree(p, q))'
  BY DEF Agree, PostedGood, MessageGood, SameSids
<1> QED
  BY <1>1, <1>2, <1>3, <1>4 DEF Inv


(* What a step of p leaves of the agreement with q. *)
LEMMA MessageKept ==
  ASSUME NEW q, NEW s, NEW r, SidsKept(s, r), NEW m \in MessageType,
         MessageGood(q, s.ch, m)
  PROVE  MessageGood(q, r.ch, m)
<1>1. m.label \in Chans
  BY DEF MessageType
<1> QED
  BY <1>1 DEF MessageGood, SidsKept

LEMMA PostedMessageType ==
  ASSUME NEW s \in PeerType, NEW i \in DOMAIN s.t.posted,
         s.t.posted[i].ev = "message"
  PROVE  s.t.posted[i].m \in MessageType
<1>1. s.t.posted \in Seq(EventType)
  BY PeerTypes, TransportTypes
<1>2. s.t.posted[i] \in EventType
  BY <1>1, LenProperties, ElementOfSeq
<1> QED
  BY <1>2 DEF EventType

LEMMA PostedKept ==
  ASSUME NEW q, NEW x \in PeerType, NEW s, NEW r, SidsKept(s, r),
         PostedGood(x, q, s.ch)
  PROVE  PostedGood(x, q, r.ch)
<1>1. ASSUME NEW i \in DOMAIN x.t.posted, x.t.posted[i].ev = "message"
      PROVE  MessageGood(q, r.ch, x.t.posted[i].m)
  <2>1. MessageGood(q, s.ch, x.t.posted[i].m)
    BY <1>1 DEF PostedGood
  <2>2. x.t.posted[i].m \in MessageType
    BY <1>1, PostedMessageType
  <2> QED
    BY <2>1, <2>2, MessageKept
<1> QED
  BY <1>1 DEF PostedGood

LEMMA SameSidsKept ==
  ASSUME NEW x, NEW s, NEW r, SidsKept(s, r), SameSids(x, s.ch)
  PROVE  SameSids(x, r.ch)
BY DEF SameSids, SidsKept

LEMMA PostsNoneGood ==
  ASSUME NEW q, NEW chs, NEW s, NEW r, PostsNone(s, r), PostedGood(s, q, chs)
  PROVE  PostedGood(r, q, chs)
BY DEF PostsNone, PostedGood

(* SetSctpSid gives a sid to a channel that has none. *)
SidsStay == \A p \in Peers : SidsKept(peer[p], peer'[p])

LEMMA BecomeInv ==
  ASSUME Inv, NEW p \in Peers, NEW r, peer' = [peer EXCEPT ![p] = r],
         config' = config,
         \A q \in Peers : q # p => PeerStep(p, peer[p], r, peer[q].ch)
  PROVE  Inv' /\ SidsStay
<1>1. PICK o \in Peers : o # p
  BY OtherPeer
<1>2. PeerStep(p, peer[p], r, peer[o].ch)
  BY <1>1
<1>3. /\ DOMAIN peer' = Peers /\ peer'[p] = r
      /\ \A q \in Peers : q # p => peer'[q] = peer[q]
  BY DEF Inv
<1>4. config \in Configs
  BY DEF Inv
<1>5. \A q \in Peers : Good(q, peer'[q]) /\ Linked(peer'[q])
  BY <1>2, <1>3 DEF Inv, PeerStep
<1>6. \A q \in Peers : peer'[q].t.phase # "destroyed" => Flushes(peer'[q])
  BY <1>2, <1>3 DEF Inv, PeerStep
<1>7. SidsKept(peer[p], r)
  BY <1>2 DEF PeerStep
<1>8. ASSUME NEW a \in Peers, NEW b \in Peers, a # b
      PROVE  /\ PostedGood(peer'[a], b, peer'[b].ch)
             /\ a # Opener /\ ~config.negotiated =>
                  SameSids(peer'[a], peer'[b].ch)
  <2>1. /\ PostedGood(peer[a], b, peer[b].ch)
        /\ a # Opener /\ ~config.negotiated => SameSids(peer[a], peer[b].ch)
    BY <1>8 DEF Inv, Agree
  <2>2. CASE a = p
    <3>1. PeerStep(p, peer[p], r, peer[b].ch)
      BY <1>8, <2>2
    <3>2. PostsNone(peer[p], r)
      BY <3>1 DEF PeerStep
    <3>3. PostedGood(r, b, peer[b].ch)
      BY <2>1, <2>2, <3>2, PostsNoneGood
    <3>4. a # Opener /\ ~config.negotiated => SameSids(r, peer[b].ch)
      BY <2>1, <2>2, <3>1 DEF PeerStep
    <3> QED
      BY <1>3, <1>8, <2>2, <3>3, <3>4
  <2>3. CASE b = p
    <3>1. peer[a] \in PeerType
      BY DEF Inv, Good
    <3>2. PostedGood(peer[a], p, r.ch)
      BY <1>7, <2>1, <2>3, <3>1, PostedKept
    <3>3. a # Opener /\ ~config.negotiated => SameSids(peer[a], r.ch)
      BY <1>7, <2>1, <2>3, SameSidsKept
    <3> QED
      BY <1>3, <1>8, <2>3, <3>2, <3>3
  <2>4. CASE a # p /\ b # p
    BY <1>3, <2>1, <2>4
  <2> QED
    BY <2>2, <2>3, <2>4
<1>9. SidsStay
  BY <1>3, <1>7 DEF SidsStay, SidsKept
<1> QED
  BY <1>3, <1>4, <1>5, <1>6, <1>8, <1>9, InvPrimed

LEMMA InvOf ==
  ASSUME Inv, NEW p \in Peers
  PROVE  /\ Good(p, peer[p]) /\ Linked(peer[p]) /\ peer[p] \in PeerType
         /\ config \in Configs
BY DEF Inv, Good

(* A handler of p that keeps Good and Kept. *)
LEMMA KeptInv ==
  ASSUME Inv, NEW p \in Peers, NEW r, peer' = [peer EXCEPT ![p] = r],
         config' = config, Good(p, r), Kept(peer[p], r)
  PROVE  Inv' /\ SidsStay
<1>1. Linked(peer[p])
  BY InvOf
<1>2. \A q \in Peers : q # p => PeerStep(p, peer[p], r, peer[q].ch)
  BY <1>1, KeptStep
<1> QED
  BY <1>2, BecomeInv

-----------------------------------------------------------------------------
(* The actions. *)
LEMMA CreateDataChannelInv ==
  ASSUME Inv, NEW p \in Peers, NEW c \in Chans, CreateDataChannel(p, c)
  PROVE  Inv' /\ SidsStay
<1>1. PICK s : s = peer[p]
  OBVIOUS
<1>2. Good(p, s) /\ Linked(s)
  BY <1>1, InvOf
<1>3. s.ch[c].state = "none"
  BY <1>1 DEF CreateDataChannel
<1>4. ~Live(s.ch[c]) /\ s.ch[c].id \notin Sids
  <2>1. s.ch[c].id = -1
    BY <1>2, <1>3 DEF Good, ChannelGood
  <2> QED
    BY <1>3, <2>1, SidsAssumption DEF Live
<1>5. PICK role, id :
        /\ \/ role = "none" /\ config.negotiated /\ id \in Sids \ s.used
           \/ role = "opener" /\ ~config.negotiated /\ p = Opener /\ id = -1
           \/ /\ role = "opener" /\ ~config.negotiated /\ p = Opener
              /\ FreeSids(s) # {} /\ id = Min(FreeSids(s))
        /\ Become(p, {InitChannel(s, c, role, id)})
  BY <1>1 DEF CreateDataChannel
<1>6. id = -1 \/ id \in Sids \ s.used
  <2>1. PICK S : S = FreeSids(s)
    OBVIOUS
  <2>2. S \in SUBSET Nat /\ S \subseteq Sids \ s.used
    BY <2>1, SidsAssumption DEF FreeSids
  <2>3. S # {} => Min(S) \in S
    BY <2>2, MinIsLeast
  <2> QED
    BY <1>5, <2>1, <2>2, <2>3
<1>7. MayTake(p, s, c, role, id)
  BY <1>4, <1>5, <1>6, SidsAssumption DEF MayTake, IdType
<1>8. PICK r : r = InitChannel(s, c, role, id)
  OBVIOUS
<1>9. peer' = [peer EXCEPT ![p] = r] /\ config' = config
  BY <1>5, <1>8 DEF Become
<1>10. Good(p, r) /\ Made(s, r, c, id)
  BY <1>2, <1>7, <1>8, InitGood
<1>11. p = Opener \/ config.negotiated
  BY <1>5
<1>12. \A q \in Peers : q # p => PeerStep(p, peer[p], r, peer[q].ch)
  BY <1>1, <1>2, <1>7, <1>10, <1>11, MadeStep
<1> QED
  BY <1>9, <1>12, BecomeInv

LEMMA RegisterObserverInv ==
  ASSUME Inv, NEW p \in Peers, NEW c \in Chans, RegisterObserver(p, c)
  PROVE  Inv' /\ SidsStay
<1>1. PICK s : s = peer[p]
  OBVIOUS
<1>2. Good(p, s) /\ s \in PeerType /\ s.ch[c] \in ChannelType
      /\ ChannelGood(p, s.ch[c])
  BY <1>1, InvOf, PeerTypes DEF Good
<1>3. PICK x : x = [s EXCEPT !.ch[c].observer = TRUE]
  OBVIOUS
<1>4. /\ x \in PeerType /\ OnlyChannel(s, x, c)
      /\ x.ch[c] = [s.ch[c] EXCEPT !.observer = TRUE]
      /\ x.used = s.used /\ x.t = s.t
  BY <1>2, <1>3 DEF PeerType, ChannelType, OnlyChannel
<1>5. SameChannel(s.ch[c], x.ch[c])
  BY <1>2, <1>4 DEF ChannelType, SameChannel, ChannelGood
<1>6. QuietStep(p, s, x, c)
  BY <1>2, <1>4, <1>5 DEF QuietStep, Good
<1>7. Good(p, x) /\ Kept(s, x)
  BY <1>2, <1>6, QuietStepGood
<1>8. PICK r : r = DeliverQueuedReceivedData(x, c)
  OBVIOUS
<1>9. Good(p, r) /\ Kept(x, r)
  BY <1>7, <1>8, DeliverGood
<1>10. Kept(s, r)
  BY <1>7, <1>9, KeptTransitive
<1>11. peer' = [peer EXCEPT ![p] = r] /\ config' = config
  BY <1>1, <1>3, <1>8 DEF RegisterObserver, Become
<1> QED
  BY <1>1, <1>9, <1>10, <1>11, KeptInv

LEMMA UnregisterObserverInv ==
  ASSUME Inv, NEW p \in Peers, NEW c \in Chans, UnregisterObserver(p, c)
  PROVE  Inv' /\ SidsStay
<1>1. PICK s : s = peer[p]
  OBVIOUS
<1>2. Good(p, s) /\ s \in PeerType /\ s.ch[c] \in ChannelType
      /\ ChannelGood(p, s.ch[c])
  BY <1>1, InvOf, PeerTypes DEF Good
<1>3. PICK x : x = [s EXCEPT !.ch[c].observer = FALSE]
  OBVIOUS
<1>4. /\ x \in PeerType /\ OnlyChannel(s, x, c)
      /\ x.ch[c] = [s.ch[c] EXCEPT !.observer = FALSE]
      /\ x.used = s.used /\ x.t = s.t
  BY <1>2, <1>3 DEF PeerType, ChannelType, OnlyChannel
<1>5. SameChannel(s.ch[c], x.ch[c])
  BY <1>2, <1>4 DEF ChannelType, SameChannel, ChannelGood
<1>6. QuietStep(p, s, x, c)
  BY <1>2, <1>4, <1>5 DEF QuietStep, Good
<1>7. Good(p, x) /\ Kept(s, x)
  BY <1>2, <1>6, QuietStepGood
<1>8. peer' = [peer EXCEPT ![p] = x] /\ config' = config
  BY <1>1, <1>3 DEF UnregisterObserver, Become
<1> QED
  BY <1>1, <1>7, <1>8, KeptInv

LEMMA CloseChannelInv ==
  ASSUME Inv, NEW p \in Peers, NEW c \in Chans, CloseChannel(p, c)
  PROVE  Inv' /\ SidsStay
<1>1. PICK r \in Close(peer[p], c) : peer' = [peer EXCEPT ![p] = r]
  BY DEF CloseChannel, Become
<1>2. config' = config /\ peer[p].ch[c].state # "none"
  BY DEF CloseChannel, Become
<1>3. Good(p, peer[p])
  BY InvOf
<1>4. Good(p, r) /\ Kept(peer[p], r)
  BY <1>1, <1>2, <1>3, CloseGood
<1> QED
  BY <1>1, <1>2, <1>4, KeptInv

LEMMA OnMessageInv ==
  ASSUME Inv, NEW p \in Peers, NEW c \in Chans, OnMessage(p, c)
  PROVE  Inv' /\ SidsStay
<1>1. PICK s : s = peer[p]
  OBVIOUS
<1>2. Good(p, s) /\ s \in PeerType /\ s.ch[c] \in ChannelType
      /\ ChannelGood(p, s.ch[c]) /\ config \in Configs
  BY <1>1, InvOf, PeerTypes DEF Good
<1>3. s.ch[c].state # "none"
  BY <1>1, <1>2 DEF OnMessage, ChannelGood
<1>4. PICK x : x = [s EXCEPT !.ch[c].readymsg = FALSE]
  OBVIOUS
<1>5. /\ x \in PeerType /\ OnlyChannel(s, x, c)
      /\ x.ch[c] = [s.ch[c] EXCEPT !.readymsg = FALSE]
      /\ x.used = s.used /\ x.t = s.t
  BY <1>2, <1>4 DEF PeerType, ChannelType, OnlyChannel
<1>6. SameChannel(s.ch[c], x.ch[c])
  BY <1>2, <1>5 DEF ChannelType, SameChannel, ChannelGood
<1>7. QuietStep(p, s, x, c)
  BY <1>2, <1>5, <1>6 DEF QuietStep, Good
<1>8. Good(p, x) /\ Kept(s, x) /\ x.ch[c].state # "none"
  BY <1>2, <1>3, <1>6, <1>7, QuietStepGood DEF SameChannel
<1>9. PICK r \in OnChannelReady(x, c) : peer' = [peer EXCEPT ![p] = r]
  BY <1>1, <1>4 DEF OnMessage, Become
<1>10. config' = config
  BY DEF OnMessage, Become
<1>11. Good(p, r) /\ Kept(x, r)
  BY <1>2, <1>8, <1>9, OnChannelReadyGood
<1>12. Kept(s, r)
  BY <1>8, <1>11, KeptTransitive
<1> QED
  BY <1>1, <1>9, <1>10, <1>11, <1>12, KeptInv


(* Send: the message it takes is handed on, or closes the channel. *)
SameBut(x, y) ==
  /\ y.state = x.state /\ y.id = x.id /\ y.role = x.role
  /\ y.connected = x.connected /\ y.received = x.received /\ y.first = x.first

Handed(s, r, c, n) ==
  /\ OnlyChannel(s, r, c) /\ SameBut(s.ch[c], r.ch[c])
  /\ r.used = s.used /\ r.t = s.t
  /\ Unsent(r.ch[c]) = n

LEMMA HandedGood ==
  ASSUME NEW p \in Peers, NEW s, NEW r \in PeerType, NEW c \in Chans, NEW n \in Nat,
         Good(p, s), s.ch[c].state = "open", Handed(s, r, c, n),
         Len(r.ch[c].send) <= MaxSendQueue, r.ch[c].accepted <= MaxMessages[p]
  PROVE  Good(p, r)
<1>1. ChannelGood(p, s.ch[c]) /\ SameBut(s.ch[c], r.ch[c])
  BY DEF Good, Handed
<1>2. n >= 0 /\ Unsent(r.ch[c]) = n
  BY DEF Handed
<1>3. ChannelGood(p, r.ch[c]) /\ (Live(r.ch[c]) <=> Live(s.ch[c]))
  BY <1>1, <1>2 DEF ChannelGood, SameBut, Live
<1>4. \A d \in Chans : d # c => r.ch[d] = s.ch[d]
  BY DEF Handed, OnlyChannel
<1>5. \A d \in Chans : ChannelGood(p, s.ch[d])
  BY DEF Good
<1>6. ASSUME NEW d \in Chans
      PROVE  /\ ChannelGood(p, r.ch[d]) /\ r.ch[d].id = s.ch[d].id
             /\ r.ch[d].connected = s.ch[d].connected
             /\ Live(r.ch[d]) <=> Live(s.ch[d])
  BY <1>1, <1>3, <1>4, <1>5 DEF SameBut
<1>7. Shaped(p, s, r)
  BY <1>6 DEF Shaped, Handed, Good
<1> QED
  BY <1>7, ShapedGood

(* s is the peer with the message counted and not handed on. *)
SendResult(s, r, c, n) ==
  \/ Kept(s, r) /\ Shut(r.ch[c])
  \/ Handed(s, r, c, n)

Pending(ch, n) == Unsent(ch) = n + 1

LEMMA HandingOn ==
  ASSUME NEW x \in ChannelType, NEW y \in ChannelType, NEW n \in Nat,
         Pending(x, n), y.accepted = x.accepted, y.first = x.first,
         \/ y.messages_sent = x.messages_sent /\ Len(y.send) = Len(x.send) + 1
         \/ y.messages_sent = x.messages_sent + 1 /\ Len(y.send) = Len(x.send)
  PROVE  Unsent(y) = n
<1>1. /\ x.accepted \in Nat /\ x.first \in Nat /\ x.messages_sent \in Nat
      /\ y.messages_sent \in Nat
  BY ChannelTypes
<1>2. PICK k \in Nat, l \in Nat : k = Len(x.send) /\ l = Len(y.send)
  BY UnsentInt
<1>3. Unsent(x) = x.accepted - x.first - x.messages_sent - k
  BY <1>2 DEF Unsent
<1>4. Unsent(y) = x.accepted - x.first - y.messages_sent - l
  BY <1>2 DEF Unsent
<1>5. Unsent(x) = n + 1
  BY DEF Pending
<1>6. PICK a \in Nat, f \in Nat, i \in Nat, j \in Nat :
        /\ a = x.accepted /\ f = x.first
        /\ i = x.messages_sent /\ j = y.messages_sent
  BY <1>1
<1>7. j + l = i + k + 1
  <2>1. CASE y.messages_sent = x.messages_sent /\ Len(y.send) = Len(x.send) + 1
    <3>1. j = i /\ l = k + 1
      BY <1>2, <1>6, <2>1
    <3> QED
      BY <3>1
  <2>2. CASE y.messages_sent = x.messages_sent + 1 /\ Len(y.send) = Len(x.send)
    <3>1. j = i + 1 /\ l = k
      BY <1>2, <1>6, <2>2
    <3> QED
      BY <3>1
  <2> QED
    BY <2>1, <2>2
<1>8. a - f - i - k = n + 1
  BY <1>3, <1>5, <1>6
<1>9. a - f - j - l = n
  BY <1>7, <1>8
<1> QED
  BY <1>4, <1>6, <1>9

LEMMA QueueGood ==
  ASSUME NEW p \in Peers, NEW s, NEW c \in Chans, NEW n \in Nat, NEW m \in Nat,
         Good(p, s), s.ch[c].state = "open", Pending(s.ch[c], n),
         NEW r \in QueueSendDataMessage(s, c, m)
  PROVE  Good(p, r) /\ SendResult(s, r, c, n)
<1>0. s \in PeerType /\ s.ch[c] \in ChannelType /\ ChannelGood(p, s.ch[c])
  BY PeerTypes DEF Good
<1>1. CASE r \in Close(s, c)
  BY <1>1, CloseGood DEF SendResult
<1>2. CASE /\ ~(Len(s.ch[c].send) >= MaxSendQueue)
           /\ r = [s EXCEPT !.ch[c].send = Append(@, m)]
  <2>1. PICK q : q = s.ch[c].send
    OBVIOUS
  <2>2. q \in Seq(Nat)
    BY <1>0, <2>1, ChannelTypes
  <2>3. PICK l : l = Append(q, m)
    OBVIOUS
  <2>4. l \in Seq(Nat) /\ Len(l) = Len(q) + 1 /\ Len(q) \in Nat
    BY <2>2, <2>3, AppendProperties, LenProperties
  <2>5. r = [s EXCEPT !.ch[c].send = l]
    BY <1>2, <2>1, <2>3
  <2>6. /\ r \in PeerType /\ OnlyChannel(s, r, c)
        /\ r.ch[c] = [s.ch[c] EXCEPT !.send = l]
        /\ r.used = s.used /\ r.t = s.t
    BY <1>0, <2>4, <2>5 DEF PeerType, ChannelType, OnlyChannel
  <2>7. /\ SameBut(s.ch[c], r.ch[c]) /\ r.ch[c].send = l
        /\ r.ch[c].accepted = s.ch[c].accepted
        /\ r.ch[c].first = s.ch[c].first
        /\ r.ch[c].messages_sent = s.ch[c].messages_sent
    BY <1>0, <2>6 DEF ChannelType, SameBut
  <2>8. Unsent(r.ch[c]) = n
    <3>1. r.ch[c] \in ChannelType
      BY <2>6, PeerTypes
    <3>2. Len(r.ch[c].send) = Len(s.ch[c].send) + 1
      BY <2>1, <2>4, <2>7
    <3> QED
      BY <1>0, <2>7, <3>1, <3>2, HandingOn
  <2>9. Handed(s, r, c, n)
    BY <2>6, <2>7, <2>8 DEF Handed
  <2>10. Len(r.ch[c].send) <= MaxSendQueue
    BY <1>2, <2>1, <2>4, <2>7, BoundsAssumption
  <2>11. r.ch[c].accepted <= MaxMessages[p]
    BY <1>0, <2>7 DEF ChannelGood
  <2>12. Good(p, r)
    BY <2>6, <2>9, <2>10, <2>11, HandedGood
  <2> QED
    BY <2>9, <2>12 DEF SendResult
<1> QED
  BY <1>1, <1>2 DEF QueueSendDataMessage

LEMMA SentOkGood ==
  ASSUME NEW p \in Peers, NEW s, NEW c \in Chans, NEW n \in Nat,
         Good(p, s), s.ch[c].state = "open", Pending(s.ch[c], n),
         NEW k, k = s.ch[c].messages_sent + 1,
         NEW r, r = [s EXCEPT !.ch[c].messages_sent = k]
  PROVE  Good(p, r) /\ SendResult(s, r, c, n)
<1>0. s \in PeerType /\ s.ch[c] \in ChannelType /\ ChannelGood(p, s.ch[c])
  BY PeerTypes DEF Good
<1>1. k \in Nat
  BY <1>0, ChannelTypes
<1>3. /\ r \in PeerType /\ OnlyChannel(s, r, c)
      /\ r.ch[c] = [s.ch[c] EXCEPT !.messages_sent = k]
      /\ r.used = s.used /\ r.t = s.t
  BY <1>0, <1>1 DEF PeerType, ChannelType, OnlyChannel
<1>4. /\ SameBut(s.ch[c], r.ch[c]) /\ r.ch[c].send = s.ch[c].send
      /\ r.ch[c].accepted = s.ch[c].accepted
      /\ r.ch[c].first = s.ch[c].first
      /\ r.ch[c].messages_sent = k
  <2>1. PICK g, z : g = s.ch[c] /\ z = r.ch[c]
    OBVIOUS
  <2>2. g \in ChannelType /\ z = [g EXCEPT !.messages_sent = k]
    BY <1>0, <1>3, <2>1
  <2>3. /\ z.state = g.state /\ z.id = g.id /\ z.role = g.role
        /\ z.connected = g.connected /\ z.received = g.received
        /\ z.first = g.first /\ z.send = g.send /\ z.accepted = g.accepted
        /\ z.messages_sent = k
    BY <2>2 DEF ChannelType
  <2> QED
    BY <2>1, <2>3 DEF SameBut
<1>5. Unsent(r.ch[c]) = n
  <2>1. r.ch[c] \in ChannelType
    BY <1>3, PeerTypes
  <2>2. /\ r.ch[c].messages_sent = s.ch[c].messages_sent + 1
        /\ Len(r.ch[c].send) = Len(s.ch[c].send)
    BY <1>4
  <2> QED
    BY <1>0, <1>4, <2>1, <2>2, HandingOn
<1>6. Handed(s, r, c, n)
  BY <1>3, <1>4, <1>5 DEF Handed
<1>7. Len(r.ch[c].send) <= MaxSendQueue /\ r.ch[c].accepted <= MaxMessages[p]
  BY <1>0, <1>4 DEF ChannelGood
<1>8. Good(p, r)
  BY <1>3, <1>6, <1>7, HandedGood
<1> QED
  BY <1>6, <1>8 DEF SendResult

(* The message is counted, by a step from s to x, and then fares as above. *)
LEMMA SendStep ==
  ASSUME NEW p \in Peers, NEW s, NEW x, NEW y, NEW r, NEW c \in Chans, NEW chs,
         NEW n \in Nat, Linked(s), s.ch[c].state = "open",
         Unsent(s.ch[c]) = n, Handed(s, x, c, n + 1),
         Kept(x, y), Good(p, r), SendResult(y, r, c, n)
  PROVE  PeerStep(p, s, r, chs)
<1>1. /\ \A d \in Chans : d # c => x.ch[d] = s.ch[d]
      /\ SameBut(s.ch[c], x.ch[c]) /\ x.used = s.used /\ x.t = s.t
      /\ Unsent(x.ch[c]) = n + 1
  BY DEF Handed, OnlyChannel
<1>2. /\ y.t.phase = s.t.phase /\ y.t.posted = s.t.posted
      /\ \A d \in Chans : ChannelKept(x.ch[d], y.ch[d])
  BY <1>1 DEF Kept
<1>3. /\ r.t.phase = s.t.phase /\ r.t.posted = s.t.posted
  BY <1>2 DEF SendResult, Kept, Handed
<1>4. ASSUME NEW d \in Chans, d # c
      PROVE  ChannelKept(s.ch[d], r.ch[d])
  <2>1. ChannelKept(s.ch[d], y.ch[d])
    BY <1>1, <1>2, <1>4
  <2>2. ChannelKept(y.ch[d], r.ch[d]) \/ r.ch[d] = y.ch[d]
    BY <1>4 DEF SendResult, Kept, Handed, OnlyChannel
  <2> QED
    BY <2>1, <2>2 DEF ChannelKept
<1>5. /\ y.ch[c].id = s.ch[c].id /\ y.ch[c].state # "none"
      /\ Unsent(y.ch[c]) = n + 1
      /\ Live(y.ch[c]) => y.ch[c].connected = s.ch[c].connected
  <2>1. ChannelKept(x.ch[c], y.ch[c])
    BY <1>2
  <2> QED
    BY <1>1, <2>1 DEF ChannelKept, SameBut
<1>6. /\ r.ch[c].id = s.ch[c].id /\ r.ch[c].state # "none"
      /\ Unsent(r.ch[c]) = n \/ (Unsent(r.ch[c]) = n + 1 /\ Shut(r.ch[c]))
      /\ Live(r.ch[c]) => r.ch[c].connected = s.ch[c].connected
  <2>1. CASE Kept(y, r) /\ Shut(r.ch[c])
    <3>1. ChannelKept(y.ch[c], r.ch[c])
      BY <2>1 DEF Kept
    <3> QED
      BY <1>5, <2>1, <3>1 DEF ChannelKept
  <2>2. CASE Handed(y, r, c, n)
    BY <1>5, <2>2 DEF Handed, SameBut, Live
  <2> QED
    BY <2>1, <2>2 DEF SendResult
<1>7. Linked(r)
  <2>1. Live(s.ch[c])
    BY DEF Live
  <2>2. TransportExists(s.t) => s.ch[c].connected
    BY <2>1 DEF Linked
  <2>3. TransportExists(r.t) => TransportExists(s.t)
    BY <1>3 DEF TransportExists
  <2>4. ASSUME NEW d \in Chans, Live(r.ch[d]), TransportExists(r.t)
        PROVE  r.ch[d].connected
    <3>1. CASE d = c
      BY <1>6, <2>2, <2>3, <2>4, <3>1
    <3>2. CASE d # c
      <4>1. ChannelKept(s.ch[d], r.ch[d])
        BY <1>4, <3>2
      <4> QED
        BY <2>3, <2>4, <4>1 DEF ChannelKept, Linked
    <3> QED
      BY <3>1, <3>2
  <2> QED
    BY <2>4 DEF Linked
<1>8. SidsKept(s, r)
  BY <1>4, <1>6 DEF SidsKept, ChannelKept
<1>9. PostsNone(s, r)
  BY <1>3 DEF PostsNone
<1>10. SameSids(s, chs) => SameSids(r, chs)
  BY <1>4, <1>6 DEF SameSids, ChannelKept
<1>11. Flushes(s) => Flushes(r)
  <2> SUFFICES ASSUME Flushes(s), NEW d \in Chans
               PROVE  /\ Unsent(r.ch[d]) <= 1
                      /\ ~Shut(r.ch[d]) => Unsent(r.ch[d]) = 0
    BY DEF Flushes
  <2>1. CASE d = c
    <3>1. ~Shut(s.ch[c])
      BY DEF Shut
    <3>2. n = 0
      BY <3>1 DEF Flushes
    <3> QED
      BY <1>6, <2>1, <3>2
  <2>2. CASE d # c
    <3>1. ChannelKept(s.ch[d], r.ch[d])
      BY <1>4, <2>2
    <3> QED
      BY <3>1 DEF ChannelKept, Flushes
  <2> QED
    BY <2>1, <2>2
<1> QED
  BY <1>3, <1>7, <1>8, <1>9, <1>10, <1>11 DEF PeerStep


Taken(p, s, r, c) ==
  \E n \in Nat : \E x, y :
    /\ Unsent(s.ch[c]) = n /\ Handed(s, x, c, n + 1)
    /\ Kept(x, y) /\ Good(p, r) /\ SendResult(y, r, c, n)

LEMMA SendTaken ==
  ASSUME Inv, NEW p \in Peers, NEW c \in Chans, Send(p, c)
  PROVE  /\ peer[p].ch[c].state = "open" /\ config' = config
         /\ \E r : peer' = [peer EXCEPT ![p] = r] /\ Taken(p, peer[p], r, c)
<1>1. PICK s : s = peer[p]
  OBVIOUS
<1>2. /\ Good(p, s) /\ Linked(s) /\ s \in PeerType /\ s.ch[c] \in ChannelType
      /\ ChannelGood(p, s.ch[c]) /\ config \in Configs
  BY <1>1, InvOf, PeerTypes DEF Good
<1>3. PICK k \in Nat : k = s.ch[c].accepted + 1
  BY <1>2, ChannelTypes
<1>4. PICK x : x = [s EXCEPT !.ch[c].accepted = k]
  OBVIOUS
<1>5. /\ x \in PeerType /\ OnlyChannel(s, x, c)
      /\ x.ch[c] = [s.ch[c] EXCEPT !.accepted = k]
      /\ x.used = s.used /\ x.t = s.t
  BY <1>2, <1>4 DEF PeerType, ChannelType, OnlyChannel
<1>6. /\ SameBut(s.ch[c], x.ch[c]) /\ x.ch[c].send = s.ch[c].send
      /\ x.ch[c].messages_sent = s.ch[c].messages_sent
      /\ x.ch[c].accepted = k
  <2>1. PICK g, z : g = s.ch[c] /\ z = x.ch[c]
    OBVIOUS
  <2>2. g \in ChannelType /\ z = [g EXCEPT !.accepted = k]
    BY <1>2, <1>5, <2>1
  <2>3. /\ z.state = g.state /\ z.id = g.id /\ z.role = g.role
        /\ z.connected = g.connected /\ z.received = g.received
        /\ z.first = g.first /\ z.send = g.send
        /\ z.messages_sent = g.messages_sent /\ z.accepted = k
    BY <2>2 DEF ChannelType
  <2> QED
    BY <2>1, <2>3 DEF SameBut
<1> DEFINE Out(r) == CASE r.res = "ok" ->
                            {[[x EXCEPT !.t = r.t]
                               EXCEPT !.ch[c].messages_sent = @ + 1]}
                       [] r.res = "block" ->
                            QueueSendDataMessage([x EXCEPT !.t = r.t], c, k)
                       [] r.res = "error" -> Close([x EXCEPT !.t = r.t], c)
           Outs == UNION {Out(r) : r \in SendData(x.t, <<DataMessage(x, c, k)>>)}
<1>7. /\ x.ch[c].state = "open" /\ k <= MaxMessages[p]
      /\ Become(p, IF x.ch[c].send # <<>> THEN QueueSendDataMessage(x, c, k)
                   ELSE Outs)
  BY <1>1, <1>3, <1>4 DEF Send
<1> HIDE DEF Outs
<1>8. PICK r : /\ peer' = [peer EXCEPT ![p] = r]
               /\ r \in QueueSendDataMessage(x, c, k) \/ r \in Outs
  BY <1>7 DEF Become
<1>9. config' = config
  BY <1>7 DEF Become
<1>10. s.ch[c].state = "open"
  BY <1>6, <1>7 DEF SameBut
<1>11. PICK n \in Nat : n = Unsent(s.ch[c])
  BY <1>2, UnsentInt DEF ChannelGood
<1>12. Unsent(x.ch[c]) = n + 1
  <2>1. PICK a \in Nat, f \in Nat, i \in Nat, l \in Nat :
          /\ a = s.ch[c].accepted /\ f = s.ch[c].first
          /\ i = s.ch[c].messages_sent /\ l = Len(s.ch[c].send)
    BY <1>2, ChannelTypes, UnsentInt
  <2>2. n = a - f - i - l
    BY <1>11, <2>1 DEF Unsent
  <2>3. Unsent(x.ch[c]) = k - f - i - l
    BY <1>6, <2>1 DEF Unsent, SameBut
  <2>4. k = a + 1
    BY <1>3, <2>1
  <2> QED
    BY <2>2, <2>3, <2>4
<1>13. Handed(s, x, c, n + 1)
  BY <1>5, <1>6, <1>12 DEF Handed
<1>14. Pending(x.ch[c], n)
  BY <1>12 DEF Pending
<1>15. Good(p, x)
  <2>1. PICK j \in Nat : j = n + 1
    OBVIOUS
  <2>2. Handed(s, x, c, j)
    BY <1>13, <2>1
  <2>3. Len(x.ch[c].send) <= MaxSendQueue /\ x.ch[c].accepted <= MaxMessages[p]
    BY <1>2, <1>6, <1>7 DEF ChannelGood
  <2> QED
    BY <1>2, <1>5, <1>10, <2>2, <2>3, HandedGood
<1>16. \E y : Kept(x, y) /\ Good(p, r) /\ SendResult(y, r, c, n)
  <2>1. CASE r \in QueueSendDataMessage(x, c, k)
    <3>1. Good(p, r) /\ SendResult(x, r, c, n)
      BY <1>7, <1>14, <1>15, <2>1, QueueGood
    <3> QED
      BY <3>1, KeptReflexive
  <2>2. CASE r \in Outs
    <3>1. PICK ms : ms = <<DataMessage(x, c, k)>>
      OBVIOUS
    <3>2. PICK o \in SendData(x.t, ms) : r \in Out(o)
      BY <2>2, <3>1 DEF Outs
    <3>3. PICK m : m = DataMessage(x, c, k)
      OBVIOUS
    <3>4. m \in MessageType /\ (m.sid \in Sids => MessageGood(p, x.ch, m))
      BY <1>2, <1>5, <1>15, <3>3, MessageTypes, MessagesGood
    <3>5. /\ ms \in Seq(MessageType)
          /\ \A i \in DOMAIN ms : ms[i].sid \in Sids =>
                                    MessageGood(p, x.ch, ms[i])
      <4>1. ms = <<m>>
        BY <3>1, <3>3
      <4>2. \A i \in DOMAIN ms : ms[i] = m
        BY <4>1
      <4> QED
        BY <3>4, <4>1, <4>2
    <3>6. /\ o.res \in {"ok", "block", "error"}
          /\ o.t \in TransportType /\ o.t.phase = x.t.phase
          /\ o.t.posted = x.t.posted /\ o.t.open = x.t.open
          /\ WireGood(p, x.ch, o.t.wire)
      BY <1>15, <3>5, SentGood
    <3>7. PICK y : y = [x EXCEPT !.t = o.t]
      OBVIOUS
    <3>8. y \in PeerType /\ y.ch = x.ch /\ y.used = x.used /\ y.t = o.t
      BY <1>5, <3>6, <3>7 DEF PeerType
    <3>9. /\ OnlyChannel(x, y, c) /\ SameChannel(x.ch[c], y.ch[c])
      BY <1>15, <3>8 DEF OnlyChannel, SameChannel, Good, ChannelGood
    <3>10. QuietStep(p, x, y, c)
      BY <3>6, <3>8, <3>9 DEF QuietStep
    <3>11. Good(p, y) /\ Kept(x, y)
      BY <1>15, <3>10, QuietStepGood
    <3>12. y.ch[c].state = "open" /\ Pending(y.ch[c], n)
      BY <1>7, <1>14, <3>8
    <3>13. \/ r = [y EXCEPT !.ch[c].messages_sent = @ + 1]
           \/ r \in QueueSendDataMessage(y, c, k)
           \/ r \in Close(y, c)
      BY <3>2, <3>6, <3>7
    <3> HIDE DEF Out
    <3>14. Good(p, r) /\ SendResult(y, r, c, n)
      <4>1. CASE r = [y EXCEPT !.ch[c].messages_sent = @ + 1]
        <5>1. PICK i : i = y.ch[c].messages_sent + 1
          OBVIOUS
        <5>2. r = [y EXCEPT !.ch[c].messages_sent = i]
          BY <4>1, <5>1
        <5> QED
          BY <3>11, <3>12, <5>1, <5>2, SentOkGood
      <4>2. CASE r \in QueueSendDataMessage(y, c, k)
        BY <3>11, <3>12, <4>2, QueueGood
      <4>3. CASE r \in Close(y, c)
        BY <3>11, <3>12, <4>3, CloseGood DEF SendResult
      <4> QED
        BY <3>13, <4>1, <4>2, <4>3
    <3> QED
      BY <3>11, <3>14
  <2> QED
    BY <1>8, <2>1, <2>2
<1>17. PICK y : Kept(x, y) /\ Good(p, r) /\ SendResult(y, r, c, n)
  BY <1>16
<1>18. Taken(p, s, r, c)
  BY <1>11, <1>13, <1>17 DEF Taken
<1> QED
  BY <1>1, <1>8, <1>9, <1>10, <1>18

LEMMA SendInv ==
  ASSUME Inv, NEW p \in Peers, NEW c \in Chans, Send(p, c)
  PROVE  Inv' /\ SidsStay
<1>1. /\ peer[p].ch[c].state = "open" /\ config' = config
      /\ \E r : peer' = [peer EXCEPT ![p] = r] /\ Taken(p, peer[p], r, c)
  BY SendTaken
<1>2. PICK r : peer' = [peer EXCEPT ![p] = r] /\ Taken(p, peer[p], r, c)
  BY <1>1
<1>3. PICK n, x, y :
        /\ n \in Nat /\ Unsent(peer[p].ch[c]) = n /\ Handed(peer[p], x, c, n + 1)
        /\ Kept(x, y) /\ Good(p, r) /\ SendResult(y, r, c, n)
  BY <1>2 DEF Taken
<1>4. Linked(peer[p])
  BY InvOf
<1>5. \A q \in Peers : q # p => PeerStep(p, peer[p], r, peer[q].ch)
  BY <1>1, <1>3, <1>4, SendStep
<1> QED
  BY <1>1, <1>2, <1>5, BecomeInv

LEMMA CreateSctpTransportInv ==
  ASSUME Inv, NEW p \in Peers, CreateSctpTransport(p)
  PROVE  Inv' /\ SidsStay
<1>1. PICK s, t, x : /\ s = peer[p]
                     /\ t = [s.t EXCEPT !.phase = "created"]
                     /\ x = [s EXCEPT !.t = t]
  OBVIOUS
<1>2. Good(p, s) /\ s \in PeerType /\ s.t \in TransportType
  BY <1>1, InvOf, PeerTypes
<1>3. /\ t \in TransportType /\ t.open = s.t.open /\ t.wire = s.t.wire
      /\ t.posted = s.t.posted /\ t.phase = "created"
  BY <1>1, <1>2 DEF TransportType, Phases
<1>4. x.t = t
  BY <1>1, <1>2 DEF PeerType
<1>5. Good(p, x) /\ x.ch = s.ch
  <2>1. WireGood(p, s.ch, s.t.wire)
    BY <1>2 DEF Good
  <2>2. x = [s EXCEPT !.t = x.t] /\ x.t \in TransportType
    BY <1>1, <1>3, <1>4
  <2> QED
    BY <1>2, <1>3, <1>4, <2>1, <2>2, TransportStepGood
<1>6. PICK r : r = ConnectChannels(x)
  OBVIOUS
<1>7. peer' = [peer EXCEPT ![p] = r] /\ config' = config
        /\ s.t.phase = "none"
  BY <1>1, <1>6 DEF CreateSctpTransport, Become
<1>8. TransportExists(x.t)
  BY <1>3, <1>4 DEF TransportExists
<1>9. Good(p, r) /\ ConnectedUpTo(x, r, MaxChannels)
  BY <1>5, <1>6, <1>8, ConnectGood
<1>10. /\ r.t.phase = "created" /\ r.t.posted = s.t.posted
       /\ \A d \in Chans : /\ r.ch[d].state = s.ch[d].state
                           /\ r.ch[d].id = s.ch[d].id
                           /\ Unsent(r.ch[d]) = Unsent(s.ch[d])
                           /\ Live(r.ch[d]) => r.ch[d].connected
  <2>1. \A d \in Chans : d <= MaxChannels
    BY BoundsAssumption DEF Chans
  <2> QED
    BY <1>3, <1>4, <1>5, <1>9, <2>1 DEF ConnectedUpTo, Live
<1>11. Linked(r)
  BY <1>10 DEF Linked
<1>12. SidsKept(s, r) /\ PostsNone(s, r)
  BY <1>10 DEF SidsKept, PostsNone
<1>13. \A chs : SameSids(s, chs) => SameSids(r, chs)
  BY <1>10 DEF SameSids
<1>14. Flushes(s) => Flushes(r)
  BY <1>10 DEF Flushes, Shut
<1>15. \A q \in Peers : q # p => PeerStep(p, peer[p], r, peer[q].ch)
  BY <1>1, <1>7, <1>9, <1>11, <1>12, <1>13, <1>14 DEF PeerStep
<1> QED
  BY <1>7, <1>15, BecomeInv

LEMMA AllocateSctpSidsInv ==
  ASSUME Inv, NEW p \in Peers, AllocateSctpSids(p)
  PROVE  Inv' /\ SidsStay
<1>1. PICK s, t, x : /\ s = peer[p]
                     /\ t = [s.t EXCEPT !.phase = "negotiated"]
                     /\ x = [s EXCEPT !.t = t]
  OBVIOUS
<1>2. Good(p, s) /\ Linked(s) /\ s \in PeerType /\ s.t \in TransportType
  BY <1>1, InvOf, PeerTypes
<1>3. /\ t \in TransportType /\ t.open = s.t.open /\ t.wire = s.t.wire
      /\ t.posted = s.t.posted /\ t.phase = "negotiated"
  BY <1>1, <1>2 DEF TransportType, Phases
<1>4. PICK r : r = GiveSids(x)
  OBVIOUS
<1>5. peer' = [peer EXCEPT ![p] = r] /\ config' = config
        /\ s.t.phase = "created"
  BY <1>1, <1>4 DEF AllocateSctpSids, Become
<1>6. TransportExists(s.t) /\ TransportExists(t)
  BY <1>3, <1>5 DEF TransportExists
<1>7. TransportStep(p, s, t)
  BY <1>2, <1>3, <1>6 DEF TransportStep, Good
<1>8. Good(p, x) /\ Linked(x) /\ x.ch = s.ch /\ x.t = t
  BY <1>1, <1>2, <1>7, TransportStepKeeps
<1>9. Good(p, r) /\ SidsUpTo(x, r, MaxChannels)
  BY <1>4, <1>6, <1>8, GiveSidsGood
<1>10. /\ r.t.phase = "negotiated" /\ r.t.posted = s.t.posted
       /\ \A d \in Chans : /\ r.ch[d].state = s.ch[d].state
                           /\ r.ch[d].connected = s.ch[d].connected
                           /\ Unsent(r.ch[d]) = Unsent(s.ch[d])
                           /\ s.ch[d].id \in Sids => r.ch[d].id = s.ch[d].id
  BY <1>3, <1>8, <1>9 DEF SidsUpTo
<1>11. Linked(r)
  BY <1>2, <1>6, <1>10 DEF Linked, Live
<1>12. SidsKept(s, r) /\ PostsNone(s, r)
  BY <1>10 DEF SidsKept, PostsNone
<1>13. \A chs : SameSids(s, chs) => SameSids(r, chs)
  BY <1>10 DEF SameSids
<1>14. Flushes(s) => Flushes(r)
  BY <1>10 DEF Flushes, Shut
<1>15. \A q \in Peers : q # p => PeerStep(p, peer[p], r, peer[q].ch)
  BY <1>1, <1>5, <1>9, <1>11, <1>12, <1>13, <1>14 DEF PeerStep
<1> QED
  BY <1>5, <1>15, BecomeInv


LEMMA NoMessagePosted ==
  ASSUME NEW s, NEW r, PostsNoMessage(s.t, r.t)
  PROVE  PostsNone(s, r)
BY DEF PostsNoMessage, PostsNone

LEMMA ReadyStepInv ==
  ASSUME Inv, NEW p \in Peers, NEW v \in TransportType, NEW r,
         v.open = peer[p].t.open, v.wire = peer[p].t.wire,
         v.posted = peer[p].t.posted,
         TransportExists(peer[p].t), TransportExists(v),
         r = [peer[p] EXCEPT !.t = SetReadyToSendData(v)],
         peer' = [peer EXCEPT ![p] = r], config' = config
  PROVE  Inv' /\ SidsStay
<1>1. PICK s, t : s = peer[p] /\ t = SetReadyToSendData(v)
  OBVIOUS
<1>2. Good(p, s) /\ Linked(s) /\ s \in PeerType
  BY <1>1, InvOf
<1>3. /\ t \in TransportType /\ t.open = v.open /\ t.wire = v.wire
      /\ t.phase = v.phase /\ PostsNoMessage(v, t)
  BY <1>1, ReadyPosted
<1>4. PostsNoMessage(s.t, t)
  BY <1>1, <1>3 DEF PostsNoMessage
<1>5. TransportExists(s.t) /\ TransportExists(t)
  BY <1>1, <1>3 DEF TransportExists
<1>6. TransportStep(p, s, t)
  BY <1>1, <1>2, <1>3, <1>5 DEF TransportStep, Good
<1>7. r = [s EXCEPT !.t = t]
  BY <1>1
<1>8. r.t = t
  BY <1>2, <1>7 DEF PeerType
<1>9. PostsNone(s, r)
  BY <1>4, <1>8, NoMessagePosted
<1>10. \A q \in Peers : q # p => PeerStep(p, peer[p], r, peer[q].ch)
  BY <1>1, <1>2, <1>6, <1>7, <1>9, TransportPeerStep
<1> QED
  BY <1>10, BecomeInv

LEMMA ConnectInv ==
  ASSUME Inv, NEW p \in Peers, Connect(p)
  PROVE  Inv' /\ SidsStay
<1>1. PICK s, v : s = peer[p] /\ v = [s.t EXCEPT !.phase = "connected"]
  OBVIOUS
<1>2. s \in PeerType /\ s.t \in TransportType
  BY <1>1, InvOf, PeerTypes
<1>3. /\ v \in TransportType /\ v.open = s.t.open /\ v.wire = s.t.wire
      /\ v.posted = s.t.posted /\ v.phase = "connected"
  BY <1>1, <1>2 DEF TransportType, Phases
<1>4. PICK r : r = [s EXCEPT !.t = SetReadyToSendData(v)]
  OBVIOUS
<1>5. /\ peer' = [peer EXCEPT ![p] = r] /\ config' = config
      /\ s.t.phase = "negotiated"
  BY <1>1, <1>4 DEF Connect, Become
<1>6. TransportExists(s.t) /\ TransportExists(v)
  BY <1>3, <1>5 DEF TransportExists
<1> QED
  BY <1>1, <1>3, <1>4, <1>5, <1>6, ReadyStepInv

LEMMA OnSendThresholdInv ==
  ASSUME Inv, NEW p \in Peers, OnSendThreshold(p)
  PROVE  Inv' /\ SidsStay
<1>1. PICK s, v : s = peer[p] /\ v = s.t
  OBVIOUS
<1>2. v \in TransportType
  BY <1>1, InvOf, PeerTypes
<1>3. PICK r : r = [s EXCEPT !.t = SetReadyToSendData(v)]
  OBVIOUS
<1>4. /\ peer' = [peer EXCEPT ![p] = r] /\ config' = config
      /\ s.t.phase = "connected"
  BY <1>1, <1>3 DEF OnSendThreshold, Become
<1>5. TransportExists(v)
  BY <1>1, <1>4 DEF TransportExists
<1> QED
  BY <1>1, <1>2, <1>3, <1>4, <1>5, ReadyStepInv

LEMMA LoseControlMessageInv ==
  ASSUME Inv, NEW p \in Peers, LoseControlMessage(p)
  PROVE  Inv' /\ SidsStay
<1>1. PICK s : s = peer[p]
  OBVIOUS
<1>2. Good(p, s) /\ Linked(s) /\ s \in PeerType /\ s.t \in TransportType
      /\ s.t.wire \in Seq(ChunkType) /\ WireGood(p, s.ch, s.t.wire)
  BY <1>1, InvOf, PeerTypes, TransportTypes DEF Good
<1>3. PICK i \in DOMAIN s.t.wire :
        Become(p, {[s EXCEPT !.t.wire = RemoveAt(@, i)]})
  BY <1>1 DEF LoseControlMessage
<1>4. PICK w : w = RemoveAt(s.t.wire, i)
  OBVIOUS
<1>5. w \in Seq(ChunkType) /\ WireGood(p, s.ch, w)
  BY <1>2, <1>4, WireShrinks
<1>6. PICK t, r : t = [s.t EXCEPT !.wire = w] /\ r = [s EXCEPT !.t = t]
  OBVIOUS
<1>7. /\ t \in TransportType /\ t.open = s.t.open /\ t.wire = w
      /\ t.posted = s.t.posted /\ t.phase = s.t.phase
  BY <1>2, <1>5, <1>6 DEF TransportType
<1>8. TransportStep(p, s, t)
  BY <1>5, <1>7 DEF TransportStep
<1>9. r.t = t
  BY <1>2, <1>6 DEF PeerType
<1>10. PostsNone(s, r)
  BY <1>7, <1>9 DEF PostsNone
<1>11. peer' = [peer EXCEPT ![p] = r] /\ config' = config
  BY <1>3, <1>4, <1>6 DEF Become
<1>12. \A q \in Peers : q # p => PeerStep(p, peer[p], r, peer[q].ch)
  BY <1>1, <1>2, <1>6, <1>8, <1>10, TransportPeerStep
<1> QED
  BY <1>11, <1>12, BecomeInv

LEMMA DestroySctpTransportInv ==
  ASSUME Inv, NEW p \in Peers, DestroySctpTransport(p)
  PROVE  Inv' /\ SidsStay
<1>1. PICK s : s = peer[p]
  OBVIOUS
<1>2. PICK y, r :
        /\ y \in CloseChannels(s)
        /\ r = [y EXCEPT !.t = [NoTransport EXCEPT !.phase = "destroyed"],
                         !.used = s.used, !.sctp_ready = FALSE]
        /\ peer' = [peer EXCEPT ![p] = r]
  BY <1>1 DEF DestroySctpTransport, Become
<1>3. config' = config
  BY DEF DestroySctpTransport, Become
<1>4. Good(p, s)
  BY <1>1, InvOf
<1>5. \A q \in Peers : q # p => PeerStep(p, peer[p], r, peer[q].ch)
  BY <1>1, <1>2, <1>4, DestroyedStep
<1> QED
  BY <1>2, <1>3, <1>5, BecomeInv

LEMMA PeerStepFrom ==
  ASSUME NEW p, NEW s, NEW x, NEW r, NEW chs, x.ch = s.ch,
         x.t.phase = s.t.phase, PostsNone(s, x), PeerStep(p, x, r, chs)
  PROVE  PeerStep(p, s, r, chs)
<1>1. SidsKept(s, r)
  BY DEF SidsKept, PeerStep
<1>2. PostsNone(s, r)
  BY DEF PostsNone, PeerStep
<1>3. p # Opener /\ ~config.negotiated /\ SameSids(s, chs) => SameSids(r, chs)
  BY DEF SameSids, PeerStep
<1>4. Flushes(s) => Flushes(x)
  BY DEF Flushes
<1> QED
  BY <1>1, <1>2, <1>3, <1>4 DEF PeerStep

(* The event e is taken off what was posted to s. *)
HeadOff(s, x, e) ==
  /\ x.ch = s.ch /\ x.used = s.used
  /\ x.t.wire = s.t.wire /\ x.t.phase = s.t.phase
  /\ \E n \in Nat :
       /\ DOMAIN s.t.posted = 1..(n + 1) /\ DOMAIN x.t.posted = 1..n
       /\ s.t.posted[1] = e
       /\ \A i \in 1..n : x.t.posted[i] = s.t.posted[i + 1]

Dispatched(p, s, x, e, r) ==
  /\ e \in EventType /\ Good(p, x) /\ Linked(x) /\ HeadOff(s, x, e)
  /\ r \in Handle(x, e)

LEMMA DispatchHead ==
  ASSUME Inv, NEW p \in Peers, Dispatch(p)
  PROVE  /\ config' = config
         /\ \E x, e, r : /\ Dispatched(p, peer[p], x, e, r)
                        /\ peer' = [peer EXCEPT ![p] = r]
<1>1. PICK s, l : s = peer[p] /\ l = s.t.posted
  OBVIOUS
<1>2. /\ Good(p, s) /\ Linked(s) /\ s \in PeerType /\ s.t \in TransportType
      /\ config \in Configs /\ WireGood(p, s.ch, s.t.wire)
  BY <1>1, InvOf, PeerTypes DEF Good
<1>3. l \in Seq(EventType) /\ l # <<>>
  BY <1>1, <1>2, TransportTypes DEF Dispatch
<1>4. PICK e, k : e = Head(l) /\ k = Tail(l)
  OBVIOUS
<1>5. PICK n \in Nat : n = Len(l) /\ n # 0 /\ DOMAIN l = 1..n
  BY <1>3, LenProperties, EmptySeq
<1>6. /\ e \in EventType /\ e = l[1]
      /\ k \in Seq(EventType) /\ DOMAIN k = 1..(n - 1)
      /\ \A i \in 1..(n - 1) : k[i] = l[i + 1]
  <2>1. e \in EventType /\ k \in Seq(EventType)
    BY <1>3, <1>4, HeadTailProperties
  <2>2. Len(k) = n - 1 /\ \A i \in 1..Len(k) : k[i] = l[i + 1]
    BY <1>3, <1>4, <1>5, HeadTailProperties
  <2>3. e = l[1]
    BY <1>3, <1>4
  <2>4. DOMAIN k = 1..(n - 1)
    BY <2>1, <2>2, LenProperties
  <2> QED
    BY <2>1, <2>2, <2>3, <2>4
<1>7. PICK t, x : t = [s.t EXCEPT !.posted = k] /\ x = [s EXCEPT !.t = t]
  OBVIOUS
<1>8. /\ t \in TransportType /\ t.open = s.t.open /\ t.wire = s.t.wire
      /\ t.posted = k /\ t.phase = s.t.phase
  BY <1>2, <1>6, <1>7 DEF TransportType
<1>9. TransportStep(p, s, t)
  BY <1>2, <1>8 DEF TransportStep
<1>10. Good(p, x) /\ Linked(x) /\ x.ch = s.ch /\ x.t = t
  BY <1>2, <1>7, <1>9, TransportStepKeeps
<1>11. x.used = s.used
  BY <1>2, <1>7 DEF PeerType
<1>12. HeadOff(s, x, e)
  <2>1. PICK i \in Nat : n = i + 1
    BY <1>5
  <2>2. DOMAIN l = 1..(i + 1) /\ DOMAIN k = 1..i
        /\ \A j \in 1..i : k[j] = l[j + 1]
    BY <1>5, <1>6, <2>1
  <2> QED
    BY <1>1, <1>6, <1>8, <1>10, <1>11, <2>2 DEF HeadOff
<1>13. PICK r \in Handle(x, e) : peer' = [peer EXCEPT ![p] = r]
  BY <1>1, <1>4, <1>7 DEF Dispatch, Become
<1>14. config' = config
  BY DEF Dispatch, Become
<1>15. Dispatched(p, s, x, e, r)
  BY <1>6, <1>10, <1>12, <1>13 DEF Dispatched
<1> QED
  BY <1>1, <1>13, <1>14, <1>15

LEMMA HeadOffPosts ==
  ASSUME NEW s, NEW x, NEW e, HeadOff(s, x, e)
  PROVE  /\ PostsNone(s, x)
         /\ \E i \in DOMAIN s.t.posted : s.t.posted[i] = e
<1>1. PICK n \in Nat :
        /\ DOMAIN s.t.posted = 1..(n + 1) /\ DOMAIN x.t.posted = 1..n
        /\ s.t.posted[1] = e
        /\ \A i \in 1..n : x.t.posted[i] = s.t.posted[i + 1]
  BY DEF HeadOff
<1>2. ASSUME NEW i \in DOMAIN x.t.posted
      PROVE  \E j \in DOMAIN s.t.posted : s.t.posted[j] = x.t.posted[i]
  <2>1. i \in 1..n /\ i + 1 \in DOMAIN s.t.posted
    BY <1>1
  <2> QED
    BY <1>1, <2>1
<1>3. 1 \in DOMAIN s.t.posted
  BY <1>1
<1> QED
  BY <1>1, <1>2, <1>3 DEF PostsNone

LEMMA DispatchInv ==
  ASSUME Inv, NEW p \in Peers, Dispatch(p)
  PROVE  Inv' /\ SidsStay
<1>1. PICK s : s = peer[p]
  OBVIOUS
<1>2. config \in Configs
  BY InvOf
<1>3. config' = config
  BY DispatchHead
<1>4. PICK x, e, r : Dispatched(p, s, x, e, r) /\ peer' = [peer EXCEPT ![p] = r]
  BY <1>1, DispatchHead
<1>5. /\ e \in EventType /\ Good(p, x) /\ Linked(x) /\ r \in Handle(x, e)
      /\ HeadOff(s, x, e) /\ x.ch = s.ch /\ x.t.phase = s.t.phase
  BY <1>4 DEF Dispatched, HeadOff
<1>6. PostsNone(s, x) /\ \E i \in DOMAIN s.t.posted : s.t.posted[i] = e
  BY <1>5, HeadOffPosts
<1>7. ASSUME NEW q \in Peers, q # p
      PROVE  PeerStep(p, peer[p], r, peer[q].ch)
  <2>1. PICK chs : chs = peer[q].ch
    OBVIOUS
  <2>2. /\ PostedGood(s, q, chs)
        /\ p # Opener /\ ~config.negotiated => SameSids(s, chs)
    BY <1>1, <1>7, <2>1 DEF Inv, Agree
  <2>3. e.ev = "message" => MessageGood(q, chs, e.m)
    BY <1>6, <2>2 DEF PostedGood
  <2>4. p # Opener /\ ~config.negotiated => SameSids(x, chs)
    BY <1>5, <2>2 DEF SameSids
  <2>5. PeerStep(p, x, r, chs)
    BY <1>2, <1>5, <1>7, <2>3, <2>4, HandleStep
  <2> QED
    BY <1>1, <1>5, <1>6, <2>1, <2>5, PeerStepFrom
<1> QED
  BY <1>3, <1>4, <1>7, BecomeInv


-----------------------------------------------------------------------------
(* A chunk arrives: what it leaves of the receiving transport. *)
PostsOnly(t, u, m) ==
  \A i \in DOMAIN u.posted :
    u.posted[i].ev = "message" =>
      \/ i \in DOMAIN t.posted /\ u.posted[i] = t.posted[i]
      \/ IsMessage(m) /\ u.posted[i].m = m

Posts(t, u, m) ==
  /\ ~IsMessage(m) => PostsNoMessage(t, u)
  /\ IsMessage(m) => u.posted = Append(t.posted, [ev |-> "message", m |-> m])

ReceiveOutcome(t, u, m) ==
  /\ u \in TransportType /\ u.phase = t.phase /\ u.open \subseteq t.open
  /\ NewOnWire(t, u, ResetChunks) /\ PostsOnly(t, u, m) /\ Posts(t, u, m)

LEMMA ChunkCases ==
  ASSUME NEW m \in ChunkType
  PROVE  /\ IsMessage(m) => m \in MessageType
         /\ m.kind \in {"reset", "answer"} => m.sids \in SUBSET Sids
         /\ ~IsMessage(m) => m.kind \in {"reset", "answer", "failed"}
BY DEF ChunkType, MessageType, ResetType, IsMessage

LEMMA MessageArrives ==
  ASSUME NEW t \in TransportType, NEW m \in MessageType, IsMessage(m),
         NEW u, u = Post(t, [ev |-> "message", m |-> m])
  PROVE  ReceiveOutcome(t, u, m)
<1>1. PICK e : e = [ev |-> "message", m |-> m]
  OBVIOUS
<1>2. e \in EventType /\ e.m = m
  BY <1>1 DEF EventType
<1>3. PICK l : l = Append(t.posted, e)
  OBVIOUS
<1>4. /\ l \in Seq(EventType) /\ Len(l) = Len(t.posted) + 1
      /\ \A i \in 1..Len(t.posted) : l[i] = t.posted[i]
      /\ l[Len(t.posted) + 1] = e
  BY <1>2, <1>3, TransportTypes, AppendProperties
<1>5. u = [t EXCEPT !.posted = l]
  BY <1>1, <1>3 DEF Post
<1>6. /\ u \in TransportType /\ u.open = t.open /\ u.wire = t.wire
      /\ u.phase = t.phase /\ u.posted = l
  BY <1>4, <1>5 DEF TransportType
<1>7. PostsOnly(t, u, m)
  <2>1. PICK n \in Nat : n = Len(t.posted) /\ DOMAIN t.posted = 1..n
    BY TransportTypes, LenProperties
  <2>2. DOMAIN u.posted = 1..(n + 1)
    BY <1>4, <1>6, <2>1, LenProperties
  <2> QED
    BY <1>2, <1>4, <1>6, <2>1, <2>2 DEF PostsOnly
<1>8. NewOnWire(t, u, ResetChunks)
  BY <1>6 DEF NewOnWire
<1>9. Posts(t, u, m)
  BY <1>1, <1>3, <1>6 DEF Posts
<1> QED
  BY <1>6, <1>7, <1>8, <1>9 DEF ReceiveOutcome

LEMMA NoMessageIsOnly ==
  ASSUME NEW t, NEW u, NEW m, PostsNoMessage(t, u)
  PROVE  PostsOnly(t, u, m)
BY DEF PostsNoMessage, PostsOnly

LEMMA AnswerArrives ==
  ASSUME NEW t \in TransportType, NEW sids \in SUBSET Sids,
         NEW m, ~IsMessage(m), NEW u \in OnStreamResetIncoming(t, sids)
  PROVE  ReceiveOutcome(t, u, m)
<1>1. /\ u \in TransportType /\ u.phase = t.phase /\ u.open \subseteq t.open
      /\ NewOnWire(t, u, ResetChunks) /\ PostsNoMessage(t, u)
  BY OnStreamResetIncomingOutcome
<1> QED
  BY <1>1, NoMessageIsOnly DEF ReceiveOutcome, Posts

LEMMA ResetAnswered ==
  ASSUME NEW t \in TransportType, NEW sids \in SUBSET Sids,
         NEW v, v = UsrsctpResetAnswer(t, sids)
  PROVE  /\ v \in TransportType /\ v.open = t.open /\ v.phase = t.phase
         /\ v.posted = t.posted /\ NewOnWire(t, v, ResetChunks)
<1>1. PICK a : a = IF t.sent = {} THEN [kind |-> "answer", sids |-> sids]
                   ELSE [kind |-> "failed"]
  OBVIOUS
<1>2. a \in ResetChunks
  <2>1. CASE t.sent = {}
    BY <1>1, <2>1 DEF ResetChunks, ChunkType, ResetType, IsMessage
  <2>2. CASE t.sent # {}
    BY <1>1, <2>2 DEF ResetChunks, ChunkType, IsMessage
  <2> QED
    BY <2>1, <2>2
<1>3. PICK w : w = Append(t.wire, a)
  OBVIOUS
<1>4. a \in ChunkType
  BY <1>2 DEF ResetChunks
<1>5. /\ w \in Seq(ChunkType) /\ Len(w) = Len(t.wire) + 1
      /\ \A i \in 1..Len(t.wire) : w[i] = t.wire[i]
      /\ w[Len(t.wire) + 1] = a
  BY <1>3, <1>4, TransportTypes, AppendProperties
<1>6. v = [t EXCEPT !.wire = w]
  BY <1>1, <1>3 DEF UsrsctpResetAnswer
<1>7. /\ v \in TransportType /\ v.open = t.open /\ v.posted = t.posted
      /\ v.phase = t.phase /\ v.wire = w
  BY <1>5, <1>6 DEF TransportType
<1>8. NewOnWire(t, v, ResetChunks)
  <2>1. PICK n \in Nat : n = Len(t.wire) /\ DOMAIN t.wire = 1..n
    BY TransportTypes, LenProperties
  <2>2. DOMAIN v.wire = 1..(n + 1)
    BY <1>5, <1>7, <2>1, LenProperties
  <2> QED
    BY <1>2, <1>5, <1>7, <2>1, <2>2 DEF NewOnWire
<1> QED
  BY <1>7, <1>8

LEMMA ResetArrives ==
  ASSUME NEW t \in TransportType, NEW sids \in SUBSET Sids,
         NEW m, ~IsMessage(m),
         NEW u \in OnStreamResetIncoming(UsrsctpResetAnswer(t, sids), sids)
  PROVE  ReceiveOutcome(t, u, m)
<1>1. PICK v : v = UsrsctpResetAnswer(t, sids)
  OBVIOUS
<1>2. /\ v \in TransportType /\ v.open = t.open /\ v.phase = t.phase
      /\ v.posted = t.posted /\ NewOnWire(t, v, ResetChunks)
  BY <1>1, ResetAnswered
<1>3. ReceiveOutcome(v, u, m)
  BY <1>1, <1>2, AnswerArrives
<1>4. NewOnWire(t, u, ResetChunks)
  BY <1>2, <1>3 DEF ReceiveOutcome, NewOnWire
<1>5. PostsOnly(t, u, m)
  BY <1>2, <1>3 DEF ReceiveOutcome, PostsOnly
<1>6. Posts(t, u, m)
  BY <1>2, <1>3 DEF ReceiveOutcome, Posts, PostsNoMessage
<1> QED
  BY <1>2, <1>3, <1>4, <1>5, <1>6 DEF ReceiveOutcome

LEMMA FailureArrives ==
  ASSUME NEW t \in TransportType, NEW m, ~IsMessage(m),
         NEW u \in OnStreamResetFailed(t)
  PROVE  ReceiveOutcome(t, u, m)
<1>1. TransportKept(t, u) /\ u.open = t.open /\ NewOnWire(t, u, ResetChunks)
  BY OnStreamResetFailedOutcome
<1> QED
  BY <1>1 DEF ReceiveOutcome, TransportKept, PostsOnly, Posts, PostsNoMessage

(* The step from x and y to a and b: a chunk of y's wire arrives at x. *)
Arrival(x, y, a, b) ==
  \E i \in DOMAIN y.t.wire :
    /\ CanArrive(y.t.wire, i)
    /\ ReceiveOutcome(x.t, a.t, y.t.wire[i])
    /\ a = [x EXCEPT !.t = a.t]
    /\ b = [y EXCEPT !.t = [y.t EXCEPT !.wire = RemoveAt(y.t.wire, i)]]

LEMMA ReceiveArrival ==
  ASSUME Inv, NEW p \in Peers, Receive(p)
  PROVE  /\ config' = config /\ DOMAIN peer' = Peers
         /\ Arrival(peer[p], peer[Other(p)], peer'[p], peer'[Other(p)])
<1>1. PICK q, x, y : q = Other(p) /\ x = peer[p] /\ y = peer[q]
  OBVIOUS
<1>2. q \in Peers /\ q # p /\ Peers = {p, q}
  BY <1>1, OtherPeer
<1>3. /\ Good(p, x) /\ Linked(x) /\ x \in PeerType /\ x.t \in TransportType
      /\ WireGood(p, x.ch, x.t.wire)
  BY <1>1, InvOf, PeerTypes DEF Good
<1>4. /\ Good(q, y) /\ Linked(y) /\ y \in PeerType /\ y.t \in TransportType
      /\ WireGood(q, y.ch, y.t.wire) /\ y.t.wire \in Seq(ChunkType)
  BY <1>1, <1>2, InvOf, PeerTypes, TransportTypes DEF Good
<1>5. PICK i, u :
        /\ i \in DOMAIN y.t.wire /\ CanArrive(y.t.wire, i)
        /\ u \in CASE IsMessage(y.t.wire[i]) ->
                        {Post(x.t, [ev |-> "message", m |-> y.t.wire[i]])}
                   [] y.t.wire[i].kind = "reset" ->
                        OnStreamResetIncoming(
                          UsrsctpResetAnswer(x.t, y.t.wire[i].sids),
                          y.t.wire[i].sids)
                   [] y.t.wire[i].kind = "answer" ->
                        OnStreamResetIncoming(x.t, y.t.wire[i].sids)
                   [] y.t.wire[i].kind = "failed" -> OnStreamResetFailed(x.t)
        /\ peer' = [peer EXCEPT ![p].t = u, ![q].t.wire = RemoveAt(@, i)]
  BY <1>1 DEF Receive
<1>6. config' = config
  BY DEF Receive
<1>7. PICK m : m = y.t.wire[i]
  OBVIOUS
<1>8. m \in ChunkType /\ (IsMessage(m) => MessageGood(q, y.ch, m))
  BY <1>4, <1>5, <1>7, LenProperties, ElementOfSeq DEF WireGood
<1>9. ReceiveOutcome(x.t, u, m)
  <2>1. CASE IsMessage(m)
    <3>1. m \in MessageType
      BY <1>8, <2>1, ChunkCases
    <3>2. m.kind \notin {"reset", "answer", "failed"}
      BY <2>1 DEF IsMessage
    <3>3. u = Post(x.t, [ev |-> "message", m |-> m])
      BY <1>5, <1>7, <2>1, <3>2
    <3> QED
      BY <1>3, <2>1, <3>1, <3>3, MessageArrives
  <2>2. CASE ~IsMessage(m) /\ m.kind = "reset"
    <3>1. /\ m.sids \in SUBSET Sids
          /\ u \in OnStreamResetIncoming(UsrsctpResetAnswer(x.t, m.sids),
                                         m.sids)
      BY <1>5, <1>7, <1>8, <2>2, ChunkCases
    <3> QED
      BY <1>3, <2>2, <3>1, ResetArrives
  <2>3. CASE ~IsMessage(m) /\ m.kind = "answer"
    <3>1. m.sids \in SUBSET Sids /\ u \in OnStreamResetIncoming(x.t, m.sids)
      BY <1>5, <1>7, <1>8, <2>3, ChunkCases
    <3> QED
      BY <1>3, <2>3, <3>1, AnswerArrives
  <2>4. CASE ~IsMessage(m) /\ m.kind = "failed"
    <3>1. u \in OnStreamResetFailed(x.t)
      BY <1>5, <1>7, <2>4
    <3> QED
      BY <1>3, <2>4, <3>1, FailureArrives
  <2> QED
    BY <1>8, <2>1, <2>2, <2>3, <2>4, ChunkCases
<1>10. PICK v, a, b : /\ v = [y.t EXCEPT !.wire = RemoveAt(y.t.wire, i)]
                       /\ a = [x EXCEPT !.t = u] /\ b = [y EXCEPT !.t = v]
  OBVIOUS
<1>11. a.t = u
  BY <1>3, <1>10 DEF PeerType
<1>12. DOMAIN peer = Peers
  BY DEF Inv
<1>13. DOMAIN peer' = Peers /\ peer'[p] = a /\ peer'[q] = b
  BY <1>1, <1>2, <1>5, <1>10, <1>12
<1>14. Arrival(x, y, a, b)
  BY <1>5, <1>7, <1>9, <1>10, <1>11 DEF Arrival
<1> QED
  BY <1>1, <1>6, <1>13, <1>14

LEMMA ReceiveInv ==
  ASSUME Inv, NEW p \in Peers, Receive(p)
  PROVE  Inv' /\ SidsStay
<1>1. PICK q, x, y, a, b : /\ q = Other(p) /\ x = peer[p] /\ y = peer[q]
                           /\ a = peer'[p] /\ b = peer'[q]
  OBVIOUS
<1>2. q \in Peers /\ q # p /\ Peers = {p, q}
  BY <1>1, OtherPeer
<1>3. /\ Good(p, x) /\ Linked(x) /\ x \in PeerType /\ x.t \in TransportType
      /\ WireGood(p, x.ch, x.t.wire)
  BY <1>1, InvOf, PeerTypes DEF Good
<1>4. /\ Good(q, y) /\ Linked(y) /\ y \in PeerType /\ y.t \in TransportType
      /\ WireGood(q, y.ch, y.t.wire) /\ y.t.wire \in Seq(ChunkType)
  BY <1>1, <1>2, InvOf, PeerTypes, TransportTypes DEF Good
<1>5. config' = config /\ DOMAIN peer' = Peers /\ Arrival(x, y, a, b)
  BY <1>1, ReceiveArrival
<1>6. PICK i \in DOMAIN y.t.wire :
        /\ ReceiveOutcome(x.t, a.t, y.t.wire[i])
        /\ a = [x EXCEPT !.t = a.t]
        /\ b = [y EXCEPT !.t = [y.t EXCEPT !.wire = RemoveAt(y.t.wire, i)]]
  BY <1>5 DEF Arrival
<1>7. PICK m, u : m = y.t.wire[i] /\ u = a.t
  OBVIOUS
<1>8. m \in ChunkType /\ (IsMessage(m) => MessageGood(q, y.ch, m))
  BY <1>4, <1>7, LenProperties, ElementOfSeq DEF WireGood
<1>9. ReceiveOutcome(x.t, u, m)
  BY <1>6, <1>7
<1>10. PICK w : w = RemoveAt(y.t.wire, i)
  OBVIOUS
<1>11. w \in Seq(ChunkType) /\ WireGood(q, y.ch, w)
  BY <1>4, <1>10, WireShrinks
<1>12. PICK v : v = [y.t EXCEPT !.wire = w]
  OBVIOUS
<1>13. /\ v \in TransportType /\ v.open = y.t.open /\ v.wire = w
       /\ v.posted = y.t.posted /\ v.phase = y.t.phase
  BY <1>4, <1>11, <1>12 DEF TransportType
<1>14. TransportStep(q, y, v)
  BY <1>11, <1>13 DEF TransportStep
<1>15. TransportStep(p, x, u)
  <2>1. WireGood(p, x.ch, u.wire)
    <3>1. \A n \in ResetChunks : IsMessage(n) => MessageGood(p, x.ch, n)
      BY DEF ResetChunks
    <3>2. NewOnWire(x.t, u, ResetChunks)
      BY <1>9 DEF ReceiveOutcome
    <3> QED
      BY <1>3, <3>1, <3>2, WireGrows
  <2> QED
    BY <1>9, <2>1 DEF ReceiveOutcome, TransportStep
<1>16. a = [x EXCEPT !.t = u] /\ b = [y EXCEPT !.t = v]
  BY <1>6, <1>7, <1>10, <1>12
<1>17. /\ Good(p, a) /\ Linked(a) /\ a.ch = x.ch /\ a.t = u
       /\ a.t.phase # "destroyed" =>
            x.t.phase # "destroyed" /\ (Flushes(x) => Flushes(a))
  BY <1>3, <1>15, <1>16, TransportStepKeeps
<1>18. /\ Good(q, b) /\ Linked(b) /\ b.ch = y.ch /\ b.t = v
       /\ b.t.phase # "destroyed" =>
            y.t.phase # "destroyed" /\ (Flushes(y) => Flushes(b))
  BY <1>2, <1>4, <1>14, <1>16, TransportStepKeeps
<1>19. DOMAIN peer = Peers /\ config \in Configs
  BY DEF Inv
<1>20. DOMAIN peer' = Peers /\ peer'[p] = a /\ peer'[q] = b
  BY <1>1, <1>5
<1>21. PostedGood(a, q, b.ch)
  <2>1. PostedGood(x, q, y.ch)
    BY <1>1, <1>2 DEF Inv, Agree
  <2>2. PostsOnly(x.t, u, m)
    BY <1>9 DEF ReceiveOutcome
  <2> QED
    BY <1>8, <1>17, <1>18, <2>1, <2>2 DEF PostedGood, PostsOnly
<1>22. PostedGood(b, p, a.ch)
  <2>1. PostedGood(y, p, x.ch)
    BY <1>1, <1>2 DEF Inv, Agree
  <2> QED
    BY <1>13, <1>17, <1>18, <2>1 DEF PostedGood
<1>23. /\ p # Opener /\ ~config.negotiated => SameSids(a, b.ch)
       /\ q # Opener /\ ~config.negotiated => SameSids(b, a.ch)
  <2>1. /\ p # Opener /\ ~config.negotiated => SameSids(x, y.ch)
        /\ q # Opener /\ ~config.negotiated => SameSids(y, x.ch)
    BY <1>1, <1>2 DEF Inv, Agree
  <2> QED
    BY <1>17, <1>18, <2>1 DEF SameSids
<1>24. \A o \in Peers : Good(o, peer'[o]) /\ Linked(peer'[o])
  BY <1>2, <1>17, <1>18, <1>20
<1>25. \A o \in Peers : peer'[o].t.phase # "destroyed" => Flushes(peer'[o])
  <2>1. /\ x.t.phase # "destroyed" => Flushes(x)
        /\ y.t.phase # "destroyed" => Flushes(y)
    BY <1>1, <1>2 DEF Inv
  <2> QED
    BY <1>2, <1>17, <1>18, <1>20, <2>1
<1>26. ASSUME NEW o \in Peers, NEW n \in Peers, o # n
       PROVE  /\ PostedGood(peer'[o], n, peer'[n].ch)
              /\ o # Opener /\ ~config.negotiated =>
                   SameSids(peer'[o], peer'[n].ch)
  <2>1. (o = p /\ n = q) \/ (o = q /\ n = p)
    BY <1>2, <1>26
  <2> QED
    BY <1>20, <1>21, <1>22, <1>23, <2>1
<1>27. SidsStay
  BY <1>1, <1>2, <1>17, <1>18, <1>20 DEF SidsStay, SidsKept
<1> QED
  BY <1>5, <1>19, <1>20, <1>24, <1>25, <1>26, <1>27, InvPrimed


-----------------------------------------------------------------------------
(* The invariant holds, and what follows from it. *)
LEMMA NewPeerGood ==
  ASSUME NEW p \in Peers
  PROVE  /\ Good(p, NewPeer) /\ Linked(NewPeer) /\ Flushes(NewPeer)
         /\ NewPeer.t = NoTransport
         /\ \A c \in Chans : NewPeer.ch[c].state = "none"
<1>1. PICK s : s = NewPeer
  OBVIOUS
<1>2. PICK n : n = NoChannel
  OBVIOUS
<1>3. /\ n \in ChannelType /\ n.state = "none" /\ n.role = "none" /\ n.id = -1
      /\ n.connected = FALSE /\ n.readymsg = FALSE
      /\ n.send = <<>> /\ n.received = <<>> /\ n.messages_sent = 0
      /\ n.first = 0 /\ n.accepted = 0
  BY <1>2, NoChannelType DEF NoChannel
<1>4. /\ s.t = NoTransport /\ s.used = {} /\ s.sctp_ready = FALSE
      /\ s.ch = [c \in Chans |-> n]
  BY <1>1, <1>2 DEF NewPeer
<1>5. \A c \in Chans : s.ch[c] = n
  BY <1>4
<1>6. s \in PeerType
  <2>1. PICK t : t = NoTransport
    OBVIOUS
  <2>2. t \in TransportType
    BY <2>1, NoTransportType
  <2>3. [c \in Chans |-> n] \in [Chans -> ChannelType]
    BY <1>3
  <2> QED
    BY <1>1, <1>2, <2>1, <2>2, <2>3 DEF NewPeer, PeerType
<1>7. Len(n.send) = 0 /\ Len(n.received) = 0
  BY <1>3
<1>8. MaxSendQueue \in Nat /\ MaxRecvQueue \in Nat /\ MaxMessages[p] \in Nat
  BY BoundsAssumption
<1>9. Unsent(n) = 0
  <2>1. Unsent(n) = 0 - 0 - 0 - 0
    BY <1>3, <1>7 DEF Unsent
  <2> QED
    BY <2>1
<1>10. ChannelGood(p, n)
  BY <1>3, <1>7, <1>8, <1>9 DEF ChannelGood
<1>11. ~Live(n)
  BY <1>3 DEF Live
<1>12. s.t.open = {} /\ s.t.wire = <<>>
  BY <1>4, NoTransportType
<1>13. Owned(s) /\ Reserved(s) /\ Distinct(s) /\ Linked(s)
  BY <1>5, <1>11, <1>12 DEF Owned, Reserved, Distinct, Linked
<1>14. WireGood(p, s.ch, s.t.wire)
  <2>1. DOMAIN s.t.wire = {}
    BY <1>12
  <2> QED
    BY <2>1 DEF WireGood
<1>15. Good(p, s)
  BY <1>5, <1>6, <1>10, <1>13, <1>14 DEF Good
<1>16. Flushes(s)
  BY <1>5, <1>9 DEF Flushes
<1> QED
  BY <1>1, <1>3, <1>4, <1>5, <1>13, <1>15, <1>16

LEMMA InitInv ==
  ASSUME Init
  PROVE  Inv
<1>1. /\ config \in Configs /\ DOMAIN peer = Peers
      /\ \A p \in Peers : peer[p] = NewPeer
  BY DEF Init
<1>2. \A p \in Peers : /\ Good(p, peer[p]) /\ Linked(peer[p])
                       /\ Flushes(peer[p]) /\ peer[p].t = NoTransport
                       /\ \A c \in Chans : peer[p].ch[c].state = "none"
  BY <1>1, NewPeerGood
<1>3. ASSUME NEW p \in Peers, NEW q \in Peers
      PROVE  Agree(p, q)
  <2>1. DOMAIN peer[p].t.posted = {}
    BY <1>2, NoTransportType
  <2> QED
    BY <1>2, <2>1 DEF Agree, PostedGood, SameSids
<1> QED
  BY <1>1, <1>2, <1>3 DEF Inv

LEMMA NextInv ==
  ASSUME Inv, [Next]_vars
  PROVE  Inv' /\ SidsStay
<1>1. CASE UNCHANGED vars
  <2>1. peer' = peer /\ config' = config
    BY <1>1 DEF vars
  <2>2. config \in Configs /\ DOMAIN peer' = Peers
    BY <2>1 DEF Inv
  <2>3. \A p \in Peers : Good(p, peer'[p]) /\ Linked(peer'[p])
    BY <2>1 DEF Inv
  <2>4. \A p \in Peers : peer'[p].t.phase # "destroyed" => Flushes(peer'[p])
    BY <2>1 DEF Inv
  <2>5. \A p, q \in Peers : p # q =>
          /\ PostedGood(peer'[p], q, peer'[q].ch)
          /\ p # Opener /\ ~config.negotiated =>
               SameSids(peer'[p], peer'[q].ch)
    BY <2>1 DEF Inv, Agree
  <2>6. SidsStay
    BY <2>1 DEF SidsStay, SidsKept
  <2> QED
    BY <2>1, <2>2, <2>3, <2>4, <2>5, <2>6, InvPrimed
<1>2. CASE Next
  <2>1. PICK p \in Peers : \/ Application(p)
                           \/ Session(p)
                           \/ Threads(p)
                           \/ LoseControlMessage(p)
                           \/ DestroySctpTransport(p)
    BY <1>2 DEF Next
  <2>2. CASE Application(p)
    <3>1. PICK c \in Chans : \/ CreateDataChannel(p, c)
                             \/ RegisterObserver(p, c)
                             \/ UnregisterObserver(p, c)
                             \/ Send(p, c)
                             \/ CloseChannel(p, c)
      BY <2>2 DEF Application
    <3> QED
      BY <3>1, CreateDataChannelInv, RegisterObserverInv, UnregisterObserverInv,
         SendInv, CloseChannelInv
  <2>3. CASE Session(p)
    BY <2>3, CreateSctpTransportInv, AllocateSctpSidsInv, ConnectInv
       DEF Session
  <2>4. CASE Threads(p)
    <3>1. CASE Receive(p)
      BY <3>1, ReceiveInv
    <3>2. CASE OnSendThreshold(p)
      BY <3>2, OnSendThresholdInv
    <3>3. CASE Dispatch(p)
      BY <3>3, DispatchInv
    <3>4. CASE \E c \in Chans : OnMessage(p, c)
      BY <3>4, OnMessageInv
    <3> QED
      BY <2>4, <3>1, <3>2, <3>3, <3>4 DEF Threads
  <2>5. CASE LoseControlMessage(p)
    BY <2>5, LoseControlMessageInv
  <2>6. CASE DestroySctpTransport(p)
    BY <2>6, DestroySctpTransportInv
  <2> QED
    BY <2>1, <2>2, <2>3, <2>4, <2>5, <2>6
<1> QED
  BY <1>1, <1>2

(***************************************************************************)
(* The inductive invariant holds in every state: beyond the types, that    *)
(* the streams of the transport, the reserved sids and the live channels   *)
(* of a peer match, that what is on the wire names its sender's channel by *)
(* label and by sid, and that a channel accounts for every message its     *)
(* Send took.                                                              *)
(***************************************************************************)
THEOREM Invariant == Spec => []Inv
<1>1. Init => Inv
  BY InitInv
<1>2. Inv /\ [Next]_vars => Inv'
  BY NextInv
<1> QED
  BY <1>1, <1>2, PTL DEF Spec

LEMMA InvTypeOK ==
  ASSUME Inv
  PROVE  TypeOK
<1>1. ASSUME NEW p \in Peers
      PROVE  /\ TransportTypeOK(peer[p].t) /\ peer[p].used \subseteq Sids
             /\ peer[p].sctp_ready \in BOOLEAN
  <2>1. peer[p] \in PeerType
    BY InvOf
  <2>2. /\ peer[p].t \in TransportType /\ peer[p].used \in SUBSET Sids
        /\ peer[p].sctp_ready \in BOOLEAN
    BY <2>1 DEF PeerType
  <2>3. TransportTypeOK(peer[p].t)
    BY <2>2, TransportTypes DEF TransportTypeOK
  <2> QED
    BY <2>2, <2>3
<1>2. ASSUME NEW p \in Peers, NEW c \in Chans
      PROVE  ChannelTypeOK(p, peer[p].ch[c])
  <2>1. PICK ch : ch = peer[p].ch[c]
    OBVIOUS
  <2>2. peer[p] \in PeerType /\ Good(p, peer[p])
    BY InvOf
  <2>3. ch \in ChannelType
    BY <2>1, <2>2 DEF PeerType
  <2>4. ChannelGood(p, ch)
    BY <2>1, <2>2 DEF Good
  <2>5. PICK n \in Nat : n = Len(ch.send)
    BY <2>3 DEF ChannelType
  <2>6. /\ ch.state \in States /\ ch.handshake \in Handshakes
        /\ ch.role \in {"none", "opener", "acker"} /\ ch.id \in Sids \cup {-1}
    BY <2>3 DEF ChannelType, IdType
  <2>7. /\ ch.connected \in BOOLEAN /\ ch.writable \in BOOLEAN
        /\ ch.observer \in BOOLEAN /\ ch.readymsg \in BOOLEAN
        /\ ch.shut \in BOOLEAN
    BY <2>3 DEF ChannelType
  <2>8. PICK a \in Nat, f \in Nat, m \in Nat :
          a = ch.accepted /\ f = ch.first /\ m = ch.messages_sent
    BY <2>3 DEF ChannelType
  <2>9. PICK l \in Nat : l = MaxMessages[p]
    BY BoundsAssumption
  <2>10. a - f - m - n >= 0 /\ a <= l
    BY <2>4, <2>5, <2>8, <2>9 DEF ChannelGood, Unsent
  <2>11. a \in 0..l /\ f \in 0..a /\ m \in 0..(a - f)
    BY <2>10
  <2>12. ch.control \in Nat
    BY <2>3 DEF ChannelType
  <2>13. Len(ch.send) <= MaxSendQueue /\ Len(ch.received) <= MaxRecvQueue
    BY <2>4 DEF ChannelGood
  <2>14. {ch.connected, ch.writable, ch.observer, ch.readymsg, ch.shut}
           \subseteq BOOLEAN
    BY <2>7
  <2>15. ChannelTypeOK(p, ch)
    BY <2>6, <2>8, <2>9, <2>11, <2>12, <2>13, <2>14 DEF ChannelTypeOK
  <2> QED
    BY <2>1, <2>15
<1>3. config \in Configs
  BY DEF Inv
<1> QED
  BY <1>1, <1>2, <1>3 DEF TypeOK

(***************************************************************************)
(* TypeOK holds in every state: in particular neither packet queue of a    *)
(* channel grows past its limit, however often the transport refuses and   *)
(* however late an observer is registered.                                 *)
(***************************************************************************)
THEOREM TypeCorrect == Spec => []TypeOK
<1>1. Inv => TypeOK
  BY InvTypeOK
<1> QED
  BY <1>1, Invariant, PTL

(***************************************************************************)
(* NoStreamLeak holds in every state: DisconnectFromProvider, a reset of   *)
(* the other peer or the end of the transport takes the stream of every    *)
(* channel that closes.                                                    *)
(***************************************************************************)
THEOREM StreamsAreGivenBack == Spec => []NoStreamLeak
<1>1. ASSUME Inv PROVE NoStreamLeak
  <2>1. ASSUME NEW p \in Peers, NEW i \in peer[p].t.open
        PROVE  i \in {peer[p].ch[c].id :
                        c \in {d \in Chans : Live(peer[p].ch[d])}}
    <3>1. Owned(peer[p])
      BY <1>1, InvOf DEF Good
    <3> QED
      BY <2>1, <3>1 DEF Owned
  <2> QED
    BY <2>1 DEF NoStreamLeak
<1>2. Inv => NoStreamLeak
  BY <1>1
<1> QED
  BY <1>2, Invariant, PTL

(***************************************************************************)
(* CloseFlushes holds in every state: a channel reports kClosed only after *)
(* SendQueuedDataMessages has emptied its queue, and what its Send took    *)
(* beyond that is at most the one message whose refusal closed it.         *)
(***************************************************************************)
THEOREM ClosedIsFlushed == Spec => []CloseFlushes
<1>1. ASSUME Inv PROVE CloseFlushes
  <2>1. ASSUME NEW p \in Peers, NEW c \in Chans,
               peer[p].ch[c].state = "closed", peer[p].t.phase # "destroyed"
        PROVE  peer[p].ch[c].accepted - peer[p].ch[c].first
                 - peer[p].ch[c].messages_sent <= 1
    <3>1. PICK ch : ch = peer[p].ch[c]
      OBVIOUS
    <3>2. Good(p, peer[p]) /\ peer[p] \in PeerType
      BY <1>1, InvOf
    <3>3. Flushes(peer[p])
      BY <1>1, <2>1 DEF Inv
    <3>4. ch \in ChannelType /\ ChannelGood(p, ch) /\ Unsent(ch) <= 1
      BY <3>1, <3>2, <3>3 DEF Good, PeerType, Flushes
    <3>5. Len(ch.send) = 0
      BY <2>1, <3>1, <3>4 DEF ChannelGood
    <3>6. PICK a \in Nat, f \in Nat, m \in Nat :
            a = ch.accepted /\ f = ch.first /\ m = ch.messages_sent
      BY <3>4 DEF ChannelType
    <3>7. a - f - m <= 1
      BY <3>4, <3>5, <3>6 DEF Unsent
    <3> QED
      BY <3>1, <3>6, <3>7
  <2> QED
    BY <2>1 DEF CloseFlushes
<1>2. Inv => CloseFlushes
  BY <1>1
<1> QED
  BY <1>2, Invariant, PTL

(***************************************************************************)
(* Two live channels of a peer never share a stream id, and the allocator  *)
(* knows the id of each, although ids come from the application, from the  *)
(* allocator, from AllocateSctpSids and from the OPEN of the other peer.   *)
(***************************************************************************)
THEOREM SidsAreExclusive ==
  Spec => [](\A p \in Peers : Reserved(peer[p]) /\ Distinct(peer[p]))
<1>1. Inv => \A p \in Peers : Reserved(peer[p]) /\ Distinct(peer[p])
  BY InvOf DEF Good
<1> QED
  BY <1>1, Invariant, PTL

(***************************************************************************)
(* SetSctpSid asserts that the channel has no stream id yet: no step gives *)
(* a channel that has one another, or takes it back, so that a reset, an   *)
(* acknowledgement and the release of the id all concern the same stream.  *)
(***************************************************************************)
THEOREM SidsNeverChange == Spec => [][SidsStay]_vars
<1>1. Inv /\ [Next]_vars => SidsStay
  BY NextInv
<1>2. Spec => []Inv
  BY Invariant
<1> QED
  BY <1>1, <1>2, PTL DEF Spec
=============================================================================

--------------------------- MODULE SctpTransport ---------------------------
(***************************************************************************)
(* The SCTP transport of a peer connection (media/sctp/sctptransport.cc)   *)
(* as operators on its state, a record t:                                  *)
(*                                                                         *)
(*   phase    "none" before it exists, "created", "negotiated" once the    *)
(*            roles are known, "connected" once sock_ is there, and        *)
(*            "destroyed"                                                  *)
(*   open     open_streams_                                                *)
(*   queued   queued_reset_streams_                                        *)
(*   sent     sent_reset_streams_                                          *)
(*   ready    ready_to_send_data_                                          *)
(*   posted   what WebRtcSession has posted to the signaling thread        *)
(*   wire     the chunks sent and not yet received by the other peer       *)
(*   blocks, errors   how often usrsctp refused, for the bounds            *)
(*                                                                         *)
(* The transport runs on the network thread; the data channels call it     *)
(* with a synchronous Invoke, so that a call is a step of the caller.      *)
(* usrsctp itself is outside the repository: it accepts or refuses a       *)
(* message, and answers a stream reset, as sctptransport.cc expects.       *)
(***************************************************************************)
EXTENDS Integers, Sequences, FiniteSets, SequencesExt

CONSTANTS Sids,       \* stream ids kMinSctpSid..kMaxSctpSid of the allocator
          MaxBlocks,  \* bound: how often usrsctp_sendv says EWOULDBLOCK
          MaxErrors   \* bound: how often a usrsctp call fails

ASSUME SidsAssumption == Sids \subseteq Nat /\ IsFiniteSet(Sids)
ASSUME UsrsctpAssumption == MaxBlocks \in Nat /\ MaxErrors \in Nat

NoTransport ==
  [phase |-> "none", open |-> {}, queued |-> {}, sent |-> {},
   ready |-> FALSE, posted |-> <<>>, wire |-> <<>>,
   blocks |-> 0, errors |-> 0]

TransportExists(t) == t.phase \notin {"none", "destroyed"}

Post(t, event) == [t EXCEPT !.posted = Append(@, event)]
-----------------------------------------------------------------------------
(* usrsctp_sendv (external) takes a message, has no room for it, or fails. *)
UsrsctpRefusals(t) ==
  (IF t.blocks < MaxBlocks
   THEN {[res |-> "block", t |-> [t EXCEPT !.blocks = @ + 1,
                                           !.ready = FALSE]]}
   ELSE {})
  \cup
  (IF t.errors < MaxErrors
   THEN {[res |-> "error", t |-> [t EXCEPT !.errors = @ + 1]]}
   ELSE {})

(* Data needs an open stream, a control message only the socket; usrsctp   *)
(* (external) has no stream for a channel that was given no sid.           *)
MaySend(t, m) ==
  /\ t.phase = "connected" /\ m.sid \in Sids
  /\ m.kind = "data" => m.sid \in t.open

(***************************************************************************)
(* Calls of SendData for the messages ms, one after the other, until one   *)
(* is refused: n messages are sent, and res says how the next one fared    *)
(* ("ok" when there is no next one).  Within one handler usrsctp does not  *)
(* take a message after it refused one.                                    *)
(***************************************************************************)
SendData(t, ms) ==
  UNION {LET t1 == [t EXCEPT !.wire = @ \o SubSeq(ms, 1, n)]
         IN  IF n = Len(ms)
             THEN {[n |-> n, res |-> "ok", t |-> t1]}
             ELSE IF ~MaySend(t, ms[n + 1])
                  THEN {[n |-> n, res |-> "error", t |-> t1]}
                  ELSE {[n |-> n, res |-> r.res, t |-> r.t] :
                          r \in UsrsctpRefusals(t1)} :
         n \in {k \in 0..Len(ms) : \A i \in 1..k : MaySend(t, ms[i])}}

SetReadyToSendData(t) ==
  IF t.ready THEN t
  ELSE Post([t EXCEPT !.ready = TRUE], [ev |-> "ready"])
-----------------------------------------------------------------------------
(* A stream that is still being reset cannot be opened again. *)
OpenStream(t, sid) ==
  IF sid \in t.open \cup t.queued \cup t.sent THEN t
  ELSE [t EXCEPT !.open = @ \cup {sid}]

(* One reset is under way at a time; the call into usrsctp can fail. *)
SendQueuedStreamResets(t) ==
  IF t.sent # {} \/ t.queued = {} \/ t.phase # "connected" THEN {t}
  ELSE {[t EXCEPT !.sent = t.queued, !.queued = {},
                  !.wire = Append(@, [kind |-> "reset",
                                      sids |-> t.queued])]}
       \cup
       (IF t.errors < MaxErrors THEN {[t EXCEPT !.errors = @ + 1]} ELSE {})

ResetStream(t, sid) ==
  IF sid \notin t.open THEN {t}
  ELSE SendQueuedStreamResets([t EXCEPT !.open = @ \ {sid},
                                        !.queued = @ \cup {sid}])

(* The streams of a reset that this peer did not ask for and has open. *)
ClosedRemotely(t, sids) == (sids \ t.sent) \cap t.open

(***************************************************************************)
(* OnStreamResetEvent.  A failed reset is queued again; an incoming reset  *)
(* acknowledges the local one, closes an open stream, or makes a queued    *)
(* local reset superfluous, for each stream it names, in the order in      *)
(* which the event lists them.                                             *)
(***************************************************************************)
OnStreamResetFailed(t) ==
  SendQueuedStreamResets([t EXCEPT !.queued = @ \cup t.sent, !.sent = {}])

(* Fault: SignalStreamClosedRemotely is not emitted. *)
ResetIncomingUnsignalled(t, sids) ==
  SendQueuedStreamResets([t EXCEPT !.sent = @ \ sids,
                                   !.open = @ \ ClosedRemotely(t, sids),
                                   !.queued = @ \ (sids \ t.sent)])

OnStreamResetIncoming(t, sids) ==
  UNION {SendQueuedStreamResets(
           [t EXCEPT !.sent = @ \ sids,
                     !.open = @ \ ClosedRemotely(t, sids),
                     !.queued = @ \ (sids \ t.sent),
                     !.posted = @ \o [i \in DOMAIN remote |->
                                       [ev |-> "closed", sid |-> remote[i]]]]) :
         remote \in SetToSeqs(ClosedRemotely(t, sids))}

(***************************************************************************)
(* usrsctp's side of a reset (external).  A request resets the sender's    *)
(* outgoing streams and asks the receiver to reset its own; the receiver   *)
(* answers, unless a request of its own is under way, in which case the    *)
(* asking side sees a failure.                                             *)
(***************************************************************************)
UsrsctpResetAnswer(t, sids) ==
  [t EXCEPT !.wire = Append(@, IF t.sent = {}
                               THEN [kind |-> "answer", sids |-> sids]
                               ELSE [kind |-> "failed"])]

(***************************************************************************)
(* Which chunk on a wire can arrive next (external, SCTP): messages on a   *)
(* stream keep their order except unordered ones, and nothing passes a     *)
(* reset.                                                                  *)
(***************************************************************************)
IsMessage(m) == m.kind \in {"open", "ack", "data"}

CanArrive(wire, i) ==
  /\ ~IsMessage(wire[i]) => i = 1
  /\ \A j \in 1..(i - 1) :
        /\ IsMessage(wire[j])
        /\ ~wire[i].ordered \/ ~wire[j].ordered \/ wire[i].sid # wire[j].sid
=============================================================================

----------------------------- MODULE NackModule -----------------------------
(***************************************************************************)
(* The receiver's list of missing packets                                  *)
(* (modules/video_coding/nack_module.cc).  A NackModule is a record:       *)
(*                                                                         *)
(*   initialized   initialized_                                            *)
(*   newest        newest_seq_num_                                         *)
(*   list          nack_list_: sequence number -> retries                  *)
(*   keyframes     keyframe_list_                                          *)
(*                                                                         *)
(* A packet is sent for as soon as it is missed (WaitNumberOfPackets is 0, *)
(* because the reordering statistics are never updated), so every entry    *)
(* has a sent_at_time when crit_ is released; of the times only their      *)
(* comparison with the round-trip time matters, and Process is told which  *)
(* entries are due.                                                        *)
(***************************************************************************)
EXTENDS Integers, FiniteSets, SequenceNumber, SequencesExt

CONSTANTS kMaxPacketAge,    \* the age at which a missing packet is given up
          kMaxNackPackets,  \* the longest list
          kMaxNackRetries   \* the NACKs sent for a packet

ASSUME NackAssumption ==
  /\ kMaxPacketAge \in 1..(SeqSpace \div 2 - 1)
  /\ kMaxNackPackets \in Nat /\ kMaxNackRetries \in Nat \ {0}

SeqNums == 0..(SeqSpace - 1)

(* Both lists are ordered, the oldest first; lower_bound(s) is the first  *)
(* element that is not older than s.                                       *)
OlderThan(S, s) == {x \in S : AheadOf(s, x, SeqSpace)}
First(S) == CHOOSE x \in S : OlderThan(S, x) = {}

NoNacks == [x \in {} |-> 0]
NewNackModule == [initialized |-> FALSE, newest |-> 0, list |-> NoNacks,
                  keyframes |-> {}]

Keep(list, S) == [x \in DOMAIN list \ S |-> list[x]]
RemoveOlder(list, s) == Keep(list, OlderThan(DOMAIN list, s))

(* Fault: the packets from s on are erased instead of those before it. *)
ClearsTheRest(n, s) ==
  [n EXCEPT !.list = Keep(@, DOMAIN @ \ OlderThan(DOMAIN @, s)),
            !.keyframes = @ \ OlderThan(@, s)]

ClearUpTo(n, s) ==
  [n EXCEPT !.list = RemoveOlder(@, s), !.keyframes = @ \ OlderThan(@, s)]

(* The first keyframe that is newer than a missing packet: the packets    *)
(* before it are not needed any more.  Keyframes older than all of them    *)
(* are forgotten.  A keyframe newer than every missing packet removes them *)
(* all: debug builds stop there, as an RTC_DCHECK expects a packet after   *)
(* it; the release build is modelled, which goes on.                       *)
RemovePacketsUntilKeyFrame(n) ==
  LET useful == {k \in n.keyframes : OlderThan(DOMAIN n.list, k) # {}}
      k == First(useful)
  IN  IF useful = {} THEN [n EXCEPT !.keyframes = {}]
      ELSE [n EXCEPT !.list = RemoveOlder(@, k),
                     !.keyframes = @ \ OlderThan(@, k)]

(* RemovePacketsUntilKeyFrame as long as it removes packets and the list  *)
(* has no room for more.                                                   *)
MakeRoom(n, more) ==
  FoldLeft(LAMBDA m, i : IF Cardinality(DOMAIN m.list) + more > kMaxNackPackets
                         THEN RemovePacketsUntilKeyFrame(m) ELSE m,
           n, [i \in 1..(Cardinality(n.keyframes) + 1) |-> i])

(* Fault: the list grows past its limit. *)
AddsWithoutLimit(n, start, end) ==
  LET new == {(start + i) % SeqSpace :
                i \in 0..(ForwardDiff(start, end, SeqSpace) - 1)}
  IN  [keyframe |-> FALSE,
       nack |-> [n EXCEPT !.list =
         [x \in DOMAIN @ \cup new |-> IF x \in new THEN 0 ELSE @[x]]]]

(* The packets from start up to, not including, end are missing.  keyframe *)
(* says whether a keyframe is requested because the list is full.          *)
AddPacketsToNack(n, start, end) ==
  LET more == ForwardDiff(start, end, SeqSpace)
      aged == [n EXCEPT !.list =
                 RemoveOlder(@, (end - kMaxPacketAge) % SeqSpace)]
      room == MakeRoom(aged, more)
      new == {(start + i) % SeqSpace : i \in 0..(more - 1)}
      full == Cardinality(DOMAIN room.list) + more > kMaxNackPackets
  IN  [keyframe |-> full,
       nack |-> [room EXCEPT !.list =
         IF full THEN NoNacks
         ELSE [x \in DOMAIN @ \cup new |-> IF x \in new THEN 0 ELSE @[x]]]]

(* One more NACK for each packet of due, and the packets that have been    *)
(* asked for often enough leave the list.                                  *)
GetNackBatch(n, due) ==
  LET tried == [x \in DOMAIN n.list |->
                  IF x \in due THEN n.list[x] + 1 ELSE n.list[x]]
  IN  [batch |-> due,
       nack |-> [n EXCEPT !.list =
         Keep(tried, {x \in due : tried[x] >= kMaxNackRetries})]]

(* What OnReceivedPacket does: the module after it, the packets asked for *)
(* (each entry that was not asked for before), and whether a keyframe is   *)
(* requested.                                                              *)
OnReceivedPacket(n, s, isKeyframe) ==
  LET quiet(m) == [nack |-> m, batch |-> {}, keyframe |-> FALSE]
      added == AddPacketsToNack(n, (n.newest + 1) % SeqSpace, s)
      keys == added.nack.keyframes \cup (IF isKeyframe THEN {s} ELSE {})
      m == [added.nack EXCEPT
              !.newest = s,
              !.keyframes =
                 keys \ OlderThan(keys, (s - kMaxPacketAge) % SeqSpace)]
      asked == GetNackBatch(m, {x \in DOMAIN m.list : m.list[x] = 0})
  IN  IF ~n.initialized
      THEN quiet([n EXCEPT !.initialized = TRUE, !.newest = s,
                           !.keyframes = IF isKeyframe THEN {s} ELSE {}])
      ELSE IF s = n.newest THEN quiet(n)
      ELSE IF AheadOf(n.newest, s, SeqSpace)
      THEN quiet([n EXCEPT !.list = Keep(@, {s})])
      ELSE [nack |-> asked.nack, batch |-> asked.batch,
            keyframe |-> added.keyframe]

NackModuleTypeOK(n) ==
  /\ n.initialized \in BOOLEAN /\ n.newest \in SeqNums
  /\ DOMAIN n.list \subseteq SeqNums /\ n.keyframes \subseteq SeqNums
  /\ \A x \in DOMAIN n.list : n.list[x] \in 1..(kMaxNackRetries - 1)
  /\ Cardinality(DOMAIN n.list) <= kMaxNackPackets
=============================================================================

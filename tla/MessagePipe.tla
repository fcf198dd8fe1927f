---------------------------- MODULE MessagePipe ----------------------------
(***************************************************************************)
(* What an application sees of data channels (api/datachannelinterface.h): *)
(* at each end a channel that connects, opens and closes, accepts messages *)
(* while it is open, and delivers to its observer messages that the other  *)
(* end accepted on the channel of the same label: each at most once and,   *)
(* on an ordered channel, in the order they were sent.  Until an end shuts *)
(* its channel an ordered channel opened in-band also loses nothing: what  *)
(* the observer got is what the other end sent first.                      *)
(***************************************************************************)
EXTENDS Integers, Sequences

CONSTANTS Peers, Labels

VARIABLES state,      \* of each end's channel object
          accepted,   \* how many messages each end accepted on a label
          delivered,  \* the messages each end's observers got on a label
          lossy,      \* whether messages to this end may be missing
          ordered     \* the configuration of the channels
vars == <<state, accepted, delivered, lossy, ordered>>

Init ==
  /\ state = [p \in Peers |-> [c \in Labels |-> "none"]]
  /\ accepted = [p \in Peers |-> [c \in Labels |-> 0]]
  /\ delivered = [p \in Peers |-> [c \in Labels |-> <<>>]]
  /\ \E l \in BOOLEAN : lossy = [p \in Peers |-> [c \in Labels |-> l]]
  /\ ordered \in BOOLEAN

(* The life of a channel.  A closed one never comes back, except that an   *)
(* OPEN message sent twice makes a new channel of a closed label.          *)
After(st) == CASE st = "none" -> {"connecting"}
               [] st = "connecting" -> {"open", "closing", "closed"}
               [] st = "open" -> {"closing", "closed"}
               [] st = "closing" -> {"closed"}
               [] st = "closed" -> {"connecting"}

Shut == {"closing", "closed"}

(* The state and the losses of channel c of p, from this step to the next. *)
Lives(p, c) ==
  /\ state'[p][c] \in {state[p][c]} \cup After(state[p][c])
  /\ lossy'[p][c] = (lossy[p][c] \/ state'[p][c] \in Shut)

(* What p's observer may have got: messages the other end accepted on c.   *)
MayHaveGot(p, c, ms, mayMiss) ==
  /\ \A i \in DOMAIN ms :
       \E q \in Peers \ {p} : \E n \in 1..accepted[q][c] : ms[i] = <<c, n>>
  /\ \A i, j \in DOMAIN ms : i # j => ms[i] # ms[j]
  /\ ordered => \A i, j \in DOMAIN ms : i < j => ms[i][2] < ms[j][2]
  /\ ordered /\ ~mayMiss => \A i \in DOMAIN ms : ms[i][2] = i

Gets(p, c) ==
  LET old == delivered[p][c]
      new == delivered'[p][c]
  IN  new = old \/ /\ Len(new) > Len(old)
                   /\ SubSeq(new, 1, Len(old)) = old
                   /\ MayHaveGot(p, c, new, lossy[p][c])

Only(p) == \A q \in Peers \ {p} : /\ state'[q] = state[q]
                                  /\ lossy'[q] = lossy[q]
                                  /\ delivered'[q] = delivered[q]

(* A call of Send, on which the channel may also give up and close. *)
Accept(p, c) ==
  /\ state[p][c] = "open"
  /\ accepted' = [accepted EXCEPT ![p][c] = @ + 1]
  /\ Only(p)
  /\ \A d \in Labels : /\ Lives(p, d)
                       /\ d # c => state'[p][d] = state[p][d]
  /\ UNCHANGED <<delivered, ordered>>

(* Channels of one end move on and messages reach their observers. *)
Progress(p) ==
  /\ Only(p)
  /\ \A c \in Labels : Lives(p, c) /\ Gets(p, c)
  /\ UNCHANGED <<accepted, ordered>>

Next == \E p \in Peers : \/ \E c \in Labels : Accept(p, c)
                        \/ Progress(p)

Spec == Init /\ [][Next]_vars
=============================================================================

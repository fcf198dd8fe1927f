---------------------------- MODULE ThreadProofs ----------------------------
(***************************************************************************)
(* Proofs about threads and their message queues, for any finite set of    *)
(* threads and any number of calls.  What a thread holds is described by   *)
(* operators of its state record, so that a step is a change from th[t] to *)
(* th'[t].                                                                 *)
(***************************************************************************)
EXTENDS Thread, SequenceLemmas, FiniteSetTheorems

LoopFrame == [call : {"ProcessMessages"},
              pc : {"receive", "posted", "quit", "wait"}, timed : BOOLEAN]
HandlerFrame == [call : {"OnMessage"}, pc : {"run"}, id : Ids,
                 from : Threads \cup {NoSource}]
SendingFrame == [call : {"Send"},
                 pc : {"push", "wake", "check", "receive", "wait"},
                 id : Ids, to : Threads, ready : BOOLEAN, waited : BOOLEAN]
PostingFrame == [call : {"Post"}, pc : {"push", "wake"}, id : Ids,
                 to : Threads, delayed : BOOLEAN]
Frame == LoopFrame \cup HandlerFrame \cup SendingFrame \cup PostingFrame

DelayedMsg == [id : Ids, due : BOOLEAN]
SentMsg == [thread : Threads, id : Ids]

ThreadState ==
  [stop : BOOLEAN, event : BOOLEAN, msgq : Seq(Ids), dmsgq : Seq(DelayedMsg),
   sendlist : Seq(SentMsg), stack : Seq(Frame)]

-----------------------------------------------------------------------------
(* The inductive invariant.                                                *)

(* A call that has a message in its hands: its handler, or a Send or Post  *)
(* that has not queued it yet.                                             *)
Active(f) == f.call = "OnMessage" \/ (f.call \in {"Send", "Post"} /\ f.pc = "push")

StackIds(st) == {st[k].id : k \in {j \in DOMAIN st : Active(st[j])}}
PostedIds(q) == {q[i] : i \in DOMAIN q}
IdsOf(q) == {q[i].id : i \in DOMAIN q}

(* The stack of thread t: the loop is the outermost call, a Send is to     *)
(* another thread, is not ready before it began, and is interrupted only   *)
(* by handlers for the thread it waits for; no message is in it twice.     *)
StackOK(t, st) ==
  /\ st \in Seq(Frame)
  /\ \A k \in DOMAIN st : st[k].call = "ProcessMessages" <=> k = 1
  /\ \A k \in DOMAIN st : st[k].call = "Send" =>
       st[k].to # t /\ (st[k].pc = "push" => ~st[k].ready)
  /\ \A k \in DOMAIN st : k - 1 \in DOMAIN st /\ st[k - 1].call = "Send" =>
       st[k].call = "OnMessage" /\ st[k].from = st[k - 1].to
  /\ \A i, j \in DOMAIN st :
       Active(st[i]) /\ Active(st[j]) /\ st[i].id = st[j].id => i = j

(* No message is in a queue twice, and what was sent to a thread comes     *)
(* from another one.                                                       *)
PostedOnce(q) == \A i, j \in DOMAIN q : q[i] = q[j] => i = j
QueuedOnce(q) == \A i, j \in DOMAIN q : q[i].id = q[j].id => i = j
SentByOthers(t, q) == \A i \in DOMAIN q : q[i].thread # t

(* A message is in one place of thread t, whose state is s.                *)
StateOK(t, s) ==
  /\ s \in ThreadState
  /\ StackOK(t, s.stack)
  /\ PostedOnce(s.msgq) /\ QueuedOnce(s.dmsgq) /\ QueuedOnce(s.sendlist)
  /\ SentByOthers(t, s.sendlist)
  /\ PostedIds(s.msgq) \cap IdsOf(s.dmsgq) = {}
  /\ (PostedIds(s.msgq) \cup IdsOf(s.dmsgq)) \cap IdsOf(s.sendlist) = {}
  /\ (PostedIds(s.msgq) \cup IdsOf(s.dmsgq) \cup IdsOf(s.sendlist))
       \cap StackIds(s.stack) = {}

Holds(s) == PostedIds(s.msgq) \cup IdsOf(s.dmsgq) \cup IdsOf(s.sendlist)
            \cup StackIds(s.stack)

(* A message is with one thread, or settled, and has been named.           *)
Accounted(f, d, c, n) ==
  /\ \A t, u \in Threads : t # u => Holds(f[t]) \cap Holds(f[u]) = {}
  /\ d \cap c = {}
  /\ \A t \in Threads : Holds(f[t]) \cap (d \cup c) = {}
  /\ \A t \in Threads : \A id \in Holds(f[t]) : id <= n + 1
  /\ \A id \in d \cup c : id <= n + 1

(* Who has a message that a thread sent, in its sendlist or in a handler,  *)
(* will write to that thread's ready.                                      *)
InList(q, from, id) == \E i \in DOMAIN q : q[i].thread = from /\ q[i].id = id
InHandler(st, from, id) ==
  \E k \in DOMAIN st :
    st[k].call = "OnMessage" /\ st[k].id = id /\ st[k].from = from
Serves(s, from, id) ==
  InList(s.sendlist, from, id) \/ InHandler(s.stack, from, id)
Waits(st, to, id) ==
  \E k \in DOMAIN st : /\ st[k].call = "Send" /\ st[k].id = id
                       /\ st[k].to = to /\ ~st[k].ready

Awaited(f) ==
  \A t, u \in Threads : \A id \in Ids :
    u # t /\ Serves(f[t], u, id) => Waits(f[u].stack, t, id)

(* All of it, for the threads f, the messages done d and cleared c, and the *)
(* number n of calls.                                                      *)
Good(f, d, c, n) ==
  /\ f \in [Threads -> ThreadState]
  /\ n \in 0 .. MaxCalls /\ d \subseteq Ids /\ c \subseteq Ids
  /\ \A t \in Threads : StateOK(t, f[t])
  /\ Accounted(f, d, c, n)
  /\ Awaited(f)

ThreadInv == Good(th, done, cleared, calls)
-----------------------------------------------------------------------------
(* What the operations on a stack do to it.                                *)

LEMMA FrameFields ==
  ASSUME NEW f \in Frame
  PROVE  /\ f.call \in {"ProcessMessages", "OnMessage", "Send", "Post"}
         /\ f.call = "ProcessMessages" => f \in LoopFrame
         /\ f.call = "OnMessage" => f \in HandlerFrame
         /\ f.call = "Send" => f \in SendingFrame
         /\ f.call = "Post" => f \in PostingFrame
BY DEF Frame, LoopFrame, HandlerFrame, SendingFrame, PostingFrame

(* The innermost call goes on: it keeps its message, whom it waits for and *)
(* whether it may return.                                                  *)
GoesOn(f, g) ==
  /\ g \in Frame
  /\ g.call = f.call /\ g.call # "OnMessage" /\ g.pc # "push"
  /\ g.call \in {"Send", "Post"} => g.id = f.id /\ g.to = f.to
  /\ g.call = "Send" => g.ready = f.ready

LEMMA ReplaceTop ==
  ASSUME NEW t, NEW st, StackOK(t, st), st # <<>>, NEW g,
         GoesOn(st[Len(st)], g),
         NEW st2, st2 = [st EXCEPT ![Len(st)] = g]
  PROVE  /\ StackOK(t, st2) /\ st2 # <<>>
         /\ StackIds(st2) \subseteq StackIds(st)
         /\ Active(st[Len(st)]) => st[Len(st)].id \notin StackIds(st2)
         /\ \A from, id : InHandler(st2, from, id) => InHandler(st, from, id)
         /\ \A to, id : Waits(st, to, id) => Waits(st2, to, id)
<1> DEFINE n == Len(st)
<1>1. /\ st \in Seq(Frame) /\ n \in Nat /\ n >= 1 /\ DOMAIN st = 1 .. n
      /\ \A k \in DOMAIN st : st[k] \in Frame
  BY LenProperties, EmptySeq, ElementOfSeq DEF StackOK
<1>2. g \in Frame
  BY DEF GoesOn
<1>3. /\ st2 \in Seq(Frame) /\ DOMAIN st2 = 1 .. n /\ Len(st2) = n
      /\ st2[n] = g /\ \A k \in 1 .. n : k # n => st2[k] = st[k]
  <2>1. n \in 1 .. n
    BY <1>1
  <2>2. st2 \in Seq(Frame) /\ Len(st2) = n /\ DOMAIN st2 = DOMAIN st
    BY <1>1, <1>2, <2>1, ExceptSeq
  <2> QED
    BY <1>1, <2>1, <2>2
<1> HIDE DEF n
<1>4. st2 # <<>>
  BY <1>1, <1>3
<1>5. /\ g.call = st[n].call /\ g.call # "OnMessage" /\ ~Active(g)
      /\ g.call \in {"Send", "Post"} => g.id = st[n].id /\ g.to = st[n].to
      /\ g.call = "Send" => g.ready = st[n].ready
      /\ g.pc # "push"
  BY DEF GoesOn, Active, n
<1>6. \A k \in 1 .. n : st2[k].call = st[k].call
  BY <1>3, <1>5
<1>7. \A k \in 1 .. n : Active(st2[k]) => k # n /\ st2[k] = st[k]
  BY <1>3, <1>5
<1>8. \A k \in 1 .. n : st2[k].call = "Send" => st2[k].id = st[k].id /\ st2[k].to = st[k].to
         /\ st2[k].ready = st[k].ready /\ (st2[k].pc = "push" => st2[k] = st[k])
  BY <1>3, <1>5
<1>9. \A k \in 1 .. n : st2[k].call = "OnMessage" => st2[k] = st[k]
  BY <1>3, <1>5
<1>10. StackOK(t, st2)
  <2>1. \A k \in DOMAIN st2 : st2[k].call = "ProcessMessages" <=> k = 1
    BY <1>1, <1>3, <1>6 DEF StackOK
  <2>2. \A k \in DOMAIN st2 : st2[k].call = "Send" =>
          st2[k].to # t /\ (st2[k].pc = "push" => ~st2[k].ready)
    BY <1>1, <1>3, <1>6, <1>8 DEF StackOK
  <2>3. \A k \in DOMAIN st2 : k - 1 \in DOMAIN st2 /\ st2[k - 1].call = "Send" =>
          st2[k].call = "OnMessage" /\ st2[k].from = st2[k - 1].to
    BY <1>1, <1>3, <1>6, <1>8, <1>9 DEF StackOK
  <2>4. \A i, j \in DOMAIN st2 :
          Active(st2[i]) /\ Active(st2[j]) /\ st2[i].id = st2[j].id => i = j
    BY <1>1, <1>3, <1>7 DEF StackOK
  <2> QED
    BY <1>3, <2>1, <2>2, <2>3, <2>4 DEF StackOK
<1>11. StackIds(st2) \subseteq StackIds(st)
  BY <1>1, <1>3, <1>7 DEF StackIds
<1>12. ASSUME Active(st[n]) PROVE st[n].id \notin StackIds(st2)
  <2> SUFFICES ASSUME NEW k \in DOMAIN st2, Active(st2[k]), st2[k].id = st[n].id
               PROVE  FALSE
    BY DEF StackIds
  <2>1. k \in 1 .. n /\ n \in 1 .. n
    BY <1>1, <1>3
  <2> QED
    BY <1>1, <1>7, <1>12, <2>1 DEF StackOK
<1>13. \A from, id : InHandler(st2, from, id) => InHandler(st, from, id)
  BY <1>1, <1>3, <1>9 DEF InHandler
<1>14. \A to, id : Waits(st, to, id) => Waits(st2, to, id)
  BY <1>1, <1>3, <1>6, <1>8 DEF Waits
<1> QED
  BY <1>4, <1>10, <1>11, <1>12, <1>13, <1>14 DEF n

(* Entering a call with a message that was not on the stack.               *)
CanEnter(t, f, g) ==
  /\ g \in Frame /\ Active(g)
  /\ f.call = "Send" => g.call = "OnMessage" /\ g.from = f.to
  /\ g.call = "Send" => g.to # t /\ ~g.ready

Entered(t, st, g, st2) ==
  /\ StackOK(t, st2)
  /\ StackIds(st2) \subseteq StackIds(st) \cup {g.id}
  /\ g.call = "Send" => Waits(st2, g.to, g.id)
  /\ \A from, id : InHandler(st2, from, id) =>
       \/ InHandler(st, from, id)
       \/ g.call = "OnMessage" /\ g.id = id /\ g.from = from
  /\ \A to, id : Waits(st, to, id) => Waits(st2, to, id)

LEMMA EnterTop ==
  ASSUME NEW t, NEW st, StackOK(t, st), st # <<>>, NEW g,
         CanEnter(t, st[Len(st)], g), g.id \notin StackIds(st),
         NEW st2, st2 = Append(st, g)
  PROVE  Entered(t, st, g, st2)
<1> DEFINE n == Len(st)
<1>0. /\ g \in Frame /\ Active(g)
      /\ st[n].call = "Send" => g.call = "OnMessage" /\ g.from = st[n].to
      /\ g.call = "Send" => g.to # t /\ ~g.ready
  BY DEF CanEnter
<1>1. /\ st \in Seq(Frame) /\ n \in Nat /\ n >= 1 /\ DOMAIN st = 1 .. n
      /\ \A k \in DOMAIN st : st[k] \in Frame
  BY LenProperties, EmptySeq, ElementOfSeq DEF StackOK
<1>2. /\ st2 \in Seq(Frame) /\ Len(st2) = n + 1
      /\ st2[n + 1] = g /\ \A k \in 1 .. n : st2[k] = st[k]
  BY <1>0, <1>1, AppendProperties
<1>3. DOMAIN st2 = 1 .. n + 1
  BY <1>2, LenProperties
<1> HIDE DEF n
<1>4. g.call # "ProcessMessages"
  BY <1>0 DEF Active
<1>5. \A k \in 1 .. n : Active(st[k]) => st[k].id # g.id
  BY <1>1 DEF StackIds
<1>6. \A k \in 1 .. n + 1 : k \in 1 .. n \/ k = n + 1
  BY <1>1
<1>7. \A k \in 1 .. n + 1 : k - 1 \in 1 .. n + 1 => k - 1 \in 1 .. n
  BY <1>1
<1>8. StackOK(t, st2)
  <2>1. \A k \in DOMAIN st2 : st2[k].call = "ProcessMessages" <=> k = 1
    BY <1>1, <1>2, <1>3, <1>4, <1>6 DEF StackOK
  <2>2. \A k \in DOMAIN st2 : st2[k].call = "Send" =>
          st2[k].to # t /\ (st2[k].pc = "push" => ~st2[k].ready)
    BY <1>0, <1>1, <1>2, <1>3, <1>6 DEF StackOK
  <2>3. ASSUME NEW k \in DOMAIN st2, k - 1 \in DOMAIN st2, st2[k - 1].call = "Send"
        PROVE  st2[k].call = "OnMessage" /\ st2[k].from = st2[k - 1].to
    <3>1. CASE k \in 1 .. n
      BY <1>1, <1>2, <1>3, <1>7, <2>3, <3>1 DEF StackOK
    <3>2. CASE k = n + 1
      <4>1. k - 1 = n /\ n \in 1 .. n
        BY <1>1, <3>2
      <4>2. st2[k - 1] = st[n]
        BY <1>2, <4>1
      <4> QED
        BY <1>0, <1>2, <2>3, <3>2, <4>1, <4>2
    <3> QED
      BY <1>3, <1>6, <3>1, <3>2
  <2>4. \A i, j \in DOMAIN st2 :
          Active(st2[i]) /\ Active(st2[j]) /\ st2[i].id = st2[j].id => i = j
    BY <1>1, <1>2, <1>3, <1>5, <1>6 DEF StackOK
  <2> QED
    BY <1>2, <2>1, <2>2, <2>3, <2>4 DEF StackOK
<1>9. StackIds(st2) \subseteq StackIds(st) \cup {g.id}
  BY <1>1, <1>2, <1>3, <1>6 DEF StackIds
<1>10. g.call = "Send" => Waits(st2, g.to, g.id)
  BY <1>0, <1>1, <1>2, <1>3 DEF Waits
<1>11. \A from, id : InHandler(st2, from, id) =>
         \/ InHandler(st, from, id)
         \/ g.call = "OnMessage" /\ g.id = id /\ g.from = from
  BY <1>1, <1>2, <1>3, <1>6 DEF InHandler
<1>12. \A to, id : Waits(st, to, id) => Waits(st2, to, id)
  BY <1>1, <1>2, <1>3 DEF Waits
<1> QED
  BY <1>8, <1>9, <1>10, <1>11, <1>12 DEF Entered

(* Returning from the innermost call; a Send only once it is ready.        *)
LEMMA ReturnTop ==
  ASSUME NEW t, NEW st, StackOK(t, st), st # <<>>,
         NEW st2, st2 = Front(st)
  PROVE  /\ StackOK(t, st2)
         /\ StackIds(st2) \subseteq StackIds(st)
         /\ Active(st[Len(st)]) => st[Len(st)].id \notin StackIds(st2)
         /\ \A from, id : InHandler(st2, from, id) => InHandler(st, from, id)
         /\ (st[Len(st)].call = "Send" => st[Len(st)].ready) =>
              \A to, id : Waits(st, to, id) => Waits(st2, to, id)
<1> DEFINE n == Len(st)
<1>1. /\ st \in Seq(Frame) /\ n \in Nat /\ n >= 1 /\ DOMAIN st = 1 .. n
  BY LenProperties, EmptySeq DEF StackOK
<1>2. /\ st2 \in Seq(Frame) /\ Len(st2) = n - 1
      /\ \A k \in 1 .. n - 1 : st2[k] = st[k]
  BY <1>1, SubSeqProperties DEF Front
<1>3. DOMAIN st2 = 1 .. n - 1
  BY <1>2, LenProperties
<1> HIDE DEF n
<1>4. \A k \in 1 .. n - 1 : k \in 1 .. n /\ k # n
  BY <1>1
<1>5. n \in 1 .. n /\ \A k \in 1 .. n : k # n => k \in 1 .. n - 1
  BY <1>1
<1>6. StackOK(t, st2)
  <2>1. \A k \in DOMAIN st2 : st2[k].call = "ProcessMessages" <=> k = 1
    BY <1>1, <1>2, <1>3, <1>4 DEF StackOK
  <2>2. \A k \in DOMAIN st2 : st2[k].call = "Send" =>
          st2[k].to # t /\ (st2[k].pc = "push" => ~st2[k].ready)
    BY <1>1, <1>2, <1>3, <1>4 DEF StackOK
  <2>3. \A k \in DOMAIN st2 : k - 1 \in DOMAIN st2 /\ st2[k - 1].call = "Send" =>
          st2[k].call = "OnMessage" /\ st2[k].from = st2[k - 1].to
    BY <1>1, <1>2, <1>3, <1>4 DEF StackOK
  <2>4. \A i, j \in DOMAIN st2 :
          Active(st2[i]) /\ Active(st2[j]) /\ st2[i].id = st2[j].id => i = j
    BY <1>1, <1>2, <1>3, <1>4 DEF StackOK
  <2> QED
    BY <1>2, <2>1, <2>2, <2>3, <2>4 DEF StackOK
<1>7. StackIds(st2) \subseteq StackIds(st)
  BY <1>1, <1>2, <1>3, <1>4 DEF StackIds
<1>8. ASSUME Active(st[n]) PROVE st[n].id \notin StackIds(st2)
  <2> SUFFICES ASSUME NEW k \in DOMAIN st2, Active(st2[k]), st2[k].id = st[n].id
               PROVE  FALSE
    BY DEF StackIds
  <2> QED
    BY <1>1, <1>2, <1>3, <1>4, <1>5, <1>8 DEF StackOK
<1>9. \A from, id : InHandler(st2, from, id) => InHandler(st, from, id)
  BY <1>1, <1>2, <1>3, <1>4 DEF InHandler
<1>10. ASSUME st[n].call = "Send" => st[n].ready, NEW to, NEW id, Waits(st, to, id)
       PROVE  Waits(st2, to, id)
  <2>1. PICK k \in 1 .. n : /\ st[k].call = "Send" /\ st[k].id = id
                            /\ st[k].to = to /\ ~st[k].ready
    BY <1>1, <1>10 DEF Waits
  <2>2. k \in 1 .. n - 1
    BY <1>5, <1>10, <2>1
  <2> QED
    BY <1>2, <1>3, <2>1, <2>2 DEF Waits
<1> QED
  BY <1>6, <1>7, <1>8, <1>9, <1>10 DEF n

(* Telling the Sends of message id, which is not on the stack.             *)
LEMMA ReadyTop ==
  ASSUME NEW t, NEW st, StackOK(t, st), NEW id, id \notin StackIds(st),
         NEW st2, st2 = ReadyStack(st, id)
  PROVE  /\ StackOK(t, st2)
         /\ StackIds(st2) \subseteq StackIds(st)
         /\ \A from, j : InHandler(st2, from, j) => InHandler(st, from, j)
         /\ \A to, j : Waits(st, to, j) /\ j # id => Waits(st2, to, j)
<1>1. /\ st \in Seq(Frame) /\ DOMAIN st = 1 .. Len(st) /\ Len(st) \in Nat
      /\ \A k \in DOMAIN st : st[k] \in Frame
  BY LenProperties, ElementOfSeq DEF StackOK
<1>2. /\ DOMAIN st2 = DOMAIN st
      /\ \A k \in DOMAIN st : st2[k] = IF st[k].call = "Send" /\ st[k].id = id
                                       THEN [st[k] EXCEPT !.ready = TRUE]
                                       ELSE st[k]
  BY DEF ReadyStack
<1>3. ASSUME NEW k \in DOMAIN st
      PROVE  /\ st2[k] \in Frame /\ st2[k].call = st[k].call
             /\ st[k].call # "Send" => st2[k] = st[k]
             /\ st[k].call = "Send" => /\ st2[k].id = st[k].id
                                       /\ st2[k].to = st[k].to
                                       /\ st2[k].pc = st[k].pc
             /\ st[k].call = "Send" /\ st[k].id # id => st2[k] = st[k]
  <2>1. CASE st[k].call = "Send" /\ st[k].id = id
    <3>1. st[k] \in SendingFrame /\ st2[k] = [st[k] EXCEPT !.ready = TRUE]
      BY <1>1, <1>2, <1>3, <2>1, FrameFields
    <3>2. /\ st2[k] \in SendingFrame /\ st2[k].call = st[k].call
          /\ st2[k].id = st[k].id /\ st2[k].to = st[k].to
          /\ st2[k].pc = st[k].pc
      BY <3>1 DEF SendingFrame
    <3> QED
      BY <2>1, <3>2 DEF Frame
  <2>2. CASE ~(st[k].call = "Send" /\ st[k].id = id)
    BY <1>1, <1>2, <1>3, <2>2
  <2> QED
    BY <2>1, <2>2
<1>4. st2 \in Seq(Frame)
  <2>1. st2 = [k \in 1 .. Len(st) |-> st2[k]]
    BY <1>1 DEF ReadyStack
  <2> QED
    BY <1>1, <1>2, <1>3, <2>1, IsASeq
<1>5. \A k \in DOMAIN st : Active(st2[k]) => st2[k] = st[k]
  <2> SUFFICES ASSUME NEW k \in DOMAIN st, Active(st2[k]) PROVE st2[k] = st[k]
    OBVIOUS
  <2>1. CASE st[k].call = "Send" /\ st[k].id = id
    <3>1. st[k].pc = "push"
      BY <1>3, <2>1 DEF Active
    <3>2. id \in StackIds(st)
      BY <2>1, <3>1 DEF StackIds, Active
    <3> QED
      BY <3>2
  <2> QED
    BY <1>3, <2>1
<1>6. StackOK(t, st2)
  <2>1. \A k \in DOMAIN st2 : st2[k].call = "ProcessMessages" <=> k = 1
    BY <1>2, <1>3 DEF StackOK
  <2>2. ASSUME NEW k \in DOMAIN st2, st2[k].call = "Send"
        PROVE  st2[k].to # t /\ (st2[k].pc = "push" => ~st2[k].ready)
    <3>1. st2[k].to # t
      BY <1>2, <1>3, <2>2 DEF StackOK
    <3>2. ASSUME st2[k].pc = "push" PROVE ~st2[k].ready
      <4>1. st2[k] = st[k]
        BY <1>2, <1>5, <2>2, <3>2 DEF Active
      <4> QED
        BY <1>2, <2>2, <3>2, <4>1 DEF StackOK
    <3> QED
      BY <3>1, <3>2
  <2>3. \A k \in DOMAIN st2 : k - 1 \in DOMAIN st2 /\ st2[k - 1].call = "Send" =>
          st2[k].call = "OnMessage" /\ st2[k].from = st2[k - 1].to
    BY <1>2, <1>3 DEF StackOK
  <2>4. \A i, j \in DOMAIN st2 :
          Active(st2[i]) /\ Active(st2[j]) /\ st2[i].id = st2[j].id => i = j
    BY <1>2, <1>5 DEF StackOK
  <2> QED
    BY <1>4, <2>1, <2>2, <2>3, <2>4 DEF StackOK
<1>7. StackIds(st2) \subseteq StackIds(st)
  BY <1>2, <1>5 DEF StackIds
<1>8. \A from, j : InHandler(st2, from, j) => InHandler(st, from, j)
  BY <1>2, <1>3 DEF InHandler
<1>9. \A to, j : Waits(st, to, j) /\ j # id => Waits(st2, to, j)
  BY <1>2, <1>3 DEF Waits
<1> QED
  BY <1>6, <1>7, <1>8, <1>9

-----------------------------------------------------------------------------
(* What the operations on a queue do to it.                                *)

(* A queue that has some of the elements of q, each once.                  *)
Part(q2, q) ==
  /\ PostedOnce(q) => PostedOnce(q2)
  /\ QueuedOnce(q) => QueuedOnce(q2)
  /\ PostedIds(q2) \subseteq PostedIds(q) /\ IdsOf(q2) \subseteq IdsOf(q)
  /\ \A t : SentByOthers(t, q) => SentByOthers(t, q2)
  /\ \A from, id : InList(q2, from, id) => InList(q, from, id)

LEMMA PartByIndex ==
  ASSUME NEW q, NEW q2, NEW h \in [DOMAIN q2 -> DOMAIN q],
         \A i, j \in DOMAIN q2 : h[i] = h[j] => i = j,
         \A i \in DOMAIN q2 : q2[i] = q[h[i]]
  PROVE  Part(q2, q)
<1>1. PostedOnce(q) => PostedOnce(q2)
  BY DEF PostedOnce
<1>2. QueuedOnce(q) => QueuedOnce(q2)
  BY DEF QueuedOnce
<1>3. PostedIds(q2) \subseteq PostedIds(q) /\ IdsOf(q2) \subseteq IdsOf(q)
  BY DEF PostedIds, IdsOf
<1>4. \A t : SentByOthers(t, q) => SentByOthers(t, q2)
  BY DEF SentByOthers
<1>5. \A from, id : InList(q2, from, id) => InList(q, from, id)
  BY DEF InList
<1> QED
  BY <1>1, <1>2, <1>3, <1>4, <1>5 DEF Part

LEMMA SamePart ==
  ASSUME NEW q
  PROVE  Part(q, q)
BY DEF Part

LEMMA RemovedPart ==
  ASSUME NEW S, NEW q \in Seq(S), NEW i \in 1 .. Len(q),
         NEW q2, q2 = RemoveAt(q, i)
  PROVE  /\ q2 \in Seq(S) /\ Part(q2, q)
         /\ PostedOnce(q) => q[i] \notin PostedIds(q2)
         /\ QueuedOnce(q) => q[i].id \notin IdsOf(q2)
<1> DEFINE n == Len(q)
           h == [j \in 1 .. n - 1 |-> IF j < i THEN j ELSE j + 1]
<1>1. n \in Nat /\ DOMAIN q = 1 .. n
  BY LenProperties
<1>2. /\ q2 \in Seq(S) /\ Len(q2) = n - 1
      /\ \A j \in 1 .. n - 1 : q2[j] = IF j < i THEN q[j] ELSE q[j + 1]
  BY RemoveAtProperties
<1>3. DOMAIN q2 = 1 .. n - 1
  BY <1>2, LenProperties
<1> HIDE DEF n
<1>4. \A j \in 1 .. n - 1 : h[j] = IF j < i THEN j ELSE j + 1
  OBVIOUS
<1>5. h \in [1 .. n - 1 -> 1 .. n]
  BY <1>1
<1> HIDE DEF h
<1>6. \A j \in 1 .. n - 1 : h[j] # i /\ h[j] \in 1 .. n
  BY <1>1, <1>4, <1>5
<1>7. \A j, k \in 1 .. n - 1 : h[j] = h[k] => j = k
  BY <1>1, <1>4
<1>8. \A j \in 1 .. n - 1 : q2[j] = q[h[j]]
  BY <1>1, <1>2, <1>4
<1>9. Part(q2, q)
  <2>1. h \in [DOMAIN q2 -> DOMAIN q]
    BY <1>1, <1>3, <1>5
  <2>2. \A j, k \in DOMAIN q2 : h[j] = h[k] => j = k
    BY <1>3, <1>7
  <2>3. \A j \in DOMAIN q2 : q2[j] = q[h[j]]
    BY <1>3, <1>8
  <2> QED
    BY <2>1, <2>2, <2>3, PartByIndex
<1>10. i \in 1 .. n
  BY DEF n
<1>11. PostedOnce(q) => q[i] \notin PostedIds(q2)
  BY <1>1, <1>3, <1>6, <1>8, <1>10 DEF PostedOnce, PostedIds
<1>12. QueuedOnce(q) => q[i].id \notin IdsOf(q2)
  BY <1>1, <1>3, <1>6, <1>8, <1>10 DEF QueuedOnce, IdsOf
<1> QED
  BY <1>2, <1>9, <1>11, <1>12

LEMMA SubSeqLater ==
  ASSUME NEW S, NEW q \in Seq(S), NEW m \in 0 .. Len(q)
  PROVE  /\ SubSeq(q, m + 1, Len(q)) \in Seq(S)
         /\ Len(SubSeq(q, m + 1, Len(q))) = Len(q) - m
         /\ \A j \in 1 .. Len(q) - m :
              SubSeq(q, m + 1, Len(q))[j] = q[m + j]
<1>1. PICK n \in Nat : n = Len(q) /\ DOMAIN q = 1 .. n
  BY LenProperties
<1>2. m \in Nat /\ m <= n /\ m + 1 \in Int /\ n \in Int
  BY <1>1
<1>3. \A i \in m + 1 .. n : q[i] \in S
  BY <1>1, <1>2, ElementOfSeq
<1>4. /\ SubSeq(q, m + 1, n) \in Seq(S)
      /\ Len(SubSeq(q, m + 1, n)) = IF m + 1 <= n THEN n - (m + 1) + 1 ELSE 0
      /\ \A j \in 1 .. n - (m + 1) + 1 :
           SubSeq(q, m + 1, n)[j] = q[(m + 1) + j - 1]
  BY <1>2, <1>3, SubSeqProperties
<1>5. /\ (IF m + 1 <= n THEN n - (m + 1) + 1 ELSE 0) = n - m
      /\ n - (m + 1) + 1 = n - m
      /\ \A j \in 1 .. n - m : (m + 1) + j - 1 = m + j
  BY <1>2
<1>6. \A j \in 1 .. n - m : SubSeq(q, m + 1, n)[j] = q[m + j]
  BY <1>4, <1>5, Zenon
<1> QED
  BY <1>1, <1>4, <1>5, <1>6, Zenon

LEMMA LaterPart ==
  ASSUME NEW S, NEW q \in Seq(S), NEW m \in 0 .. Len(q),
         NEW q2 \in Seq(S), Len(q2) = Len(q) - m,
         \A j \in 1 .. Len(q) - m : q2[j] = q[m + j]
  PROVE  /\ q2 \in Seq(S) /\ Part(q2, q)
         /\ QueuedOnce(q) => \A i \in 1 .. m : q[i].id \notin IdsOf(q2)
         /\ PostedOnce(q) => \A i \in 1 .. m : q[i] \notin PostedIds(q2)
<1> DEFINE n == Len(q)
           h == [j \in 1 .. n - m |-> m + j]
<1>1. n \in Nat /\ DOMAIN q = 1 .. n /\ m \in Nat /\ m <= n
  BY LenProperties
<1>2. /\ q2 \in Seq(S) /\ Len(q2) = n - m
      /\ \A j \in 1 .. n - m : q2[j] = q[m + j]
  OBVIOUS
<1>3. DOMAIN q2 = 1 .. n - m
  BY <1>2, LenProperties
<1> HIDE DEF n
<1>4. \A j \in 1 .. n - m : h[j] = m + j
  OBVIOUS
<1>5. h \in [1 .. n - m -> 1 .. n]
  BY <1>1
<1> HIDE DEF h
<1>6. \A j \in 1 .. n - m : h[j] \notin 1 .. m /\ h[j] \in 1 .. n
  BY <1>1, <1>4, <1>5
<1>7. \A j, k \in 1 .. n - m : h[j] = h[k] => j = k
  BY <1>1, <1>4
<1>8. \A j \in 1 .. n - m : q2[j] = q[h[j]]
  BY <1>1, <1>2, <1>4
<1>9. Part(q2, q)
  <2>1. h \in [DOMAIN q2 -> DOMAIN q]
    BY <1>1, <1>3, <1>5
  <2>2. \A j, k \in DOMAIN q2 : h[j] = h[k] => j = k
    BY <1>3, <1>7
  <2>3. \A j \in DOMAIN q2 : q2[j] = q[h[j]]
    BY <1>3, <1>8
  <2> QED
    BY <2>1, <2>2, <2>3, PartByIndex
<1>10. \A i \in 1 .. m : i \in 1 .. n
  BY <1>1
<1>11. ASSUME PostedOnce(q), NEW i \in 1 .. m PROVE q[i] \notin PostedIds(q2)
  <2> SUFFICES ASSUME NEW j \in 1 .. n - m, q2[j] = q[i] PROVE FALSE
    BY <1>3 DEF PostedIds
  <2>1. q[h[j]] = q[i] /\ h[j] \in DOMAIN q /\ i \in DOMAIN q
    BY <1>1, <1>6, <1>8, <1>10
  <2>2. h[j] = i
    BY <1>11, <2>1 DEF PostedOnce
  <2> QED
    BY <1>6, <2>2
<1>12. ASSUME QueuedOnce(q), NEW i \in 1 .. m PROVE q[i].id \notin IdsOf(q2)
  <2> SUFFICES ASSUME NEW j \in 1 .. n - m, q2[j].id = q[i].id PROVE FALSE
    BY <1>3 DEF IdsOf
  <2>1. q[h[j]].id = q[i].id /\ h[j] \in DOMAIN q /\ i \in DOMAIN q
    BY <1>1, <1>6, <1>8, <1>10
  <2>2. h[j] = i
    BY <1>12, <2>1 DEF QueuedOnce
  <2> QED
    BY <1>6, <2>2
<1> QED
  BY <1>2, <1>9, <1>11, <1>12

(* The first element of a queue and the rest of it.                        *)
LEMMA TailPart ==
  ASSUME NEW S, NEW q \in Seq(S), q # <<>>
  PROVE  /\ Head(q) \in S /\ Head(q) \in PostedIds(q)
         /\ Tail(q) \in Seq(S) /\ Part(Tail(q), q)
         /\ PostedOnce(q) => Head(q) \notin PostedIds(Tail(q))
<1>1. Len(q) \in Nat /\ Len(q) >= 1 /\ DOMAIN q = 1 .. Len(q)
  BY LenProperties, EmptySeq
<1>2. Head(q) = q[1] /\ q[1] \in S
  BY <1>1, HeadTailProperties, ElementOfSeq
<1>3. Tail(q) = SubSeq(q, 1 + 1, Len(q))
  BY TailIsSubSeq
<1>4. 1 \in 0 .. Len(q) /\ 1 \in 1 .. 1
  BY <1>1
<1>5. /\ Tail(q) \in Seq(S) /\ Len(Tail(q)) = Len(q) - 1
      /\ \A j \in 1 .. Len(q) - 1 : Tail(q)[j] = q[1 + j]
  BY <1>3, <1>4, SubSeqLater
<1>6. /\ Tail(q) \in Seq(S) /\ Part(Tail(q), q)
      /\ PostedOnce(q) => q[1] \notin PostedIds(Tail(q))
  <2>1. /\ Tail(q) \in Seq(S) /\ Part(Tail(q), q)
        /\ PostedOnce(q) => \A i \in 1 .. 1 : q[i] \notin PostedIds(Tail(q))
    BY <1>4, <1>5, LaterPart
  <2> QED
    BY <1>4, <2>1
<1>7. q[1] \in PostedIds(q)
  BY <1>1 DEF PostedIds
<1> QED
  BY <1>2, <1>6, <1>7

(* Adding a message that was not in the queue.                             *)
LEMMA AppendPosted ==
  ASSUME NEW S, NEW q \in Seq(S), NEW e \in S, e \notin PostedIds(q),
         PostedOnce(q)
  PROVE  /\ Append(q, e) \in Seq(S) /\ PostedOnce(Append(q, e))
         /\ PostedIds(Append(q, e)) \subseteq PostedIds(q) \cup {e}
<1> DEFINE n == Len(q)
           q2 == Append(q, e)
<1>1. /\ n \in Nat /\ DOMAIN q = 1 .. n
      /\ q2 \in Seq(S) /\ Len(q2) = n + 1
      /\ q2[n + 1] = e /\ \A k \in 1 .. n : q2[k] = q[k]
  BY LenProperties, AppendProperties
<1>2. DOMAIN q2 = 1 .. n + 1
  BY <1>1, LenProperties
<1> HIDE DEF n, q2
<1>3. \A k \in 1 .. n + 1 : k \in 1 .. n \/ k = n + 1
  BY <1>1
<1> QED
  <2>1. PostedOnce(q2) /\ PostedIds(q2) \subseteq PostedIds(q) \cup {e}
    BY <1>1, <1>2, <1>3 DEF PostedOnce, PostedIds
  <2> QED
    BY <1>1, <2>1 DEF q2

LEMMA AppendQueued ==
  ASSUME NEW S, NEW q \in Seq(S), NEW e \in S, e.id \notin IdsOf(q),
         QueuedOnce(q)
  PROVE  /\ Append(q, e) \in Seq(S) /\ QueuedOnce(Append(q, e))
         /\ IdsOf(Append(q, e)) \subseteq IdsOf(q) \cup {e.id}
         /\ \A t : SentByOthers(t, q) /\ e.thread # t =>
              SentByOthers(t, Append(q, e))
         /\ \A from, id : InList(Append(q, e), from, id) =>
              InList(q, from, id) \/ (e.thread = from /\ e.id = id)
<1> DEFINE n == Len(q)
           q2 == Append(q, e)
<1>1. /\ n \in Nat /\ DOMAIN q = 1 .. n
      /\ q2 \in Seq(S) /\ Len(q2) = n + 1
      /\ q2[n + 1] = e /\ \A k \in 1 .. n : q2[k] = q[k]
  BY LenProperties, AppendProperties
<1>2. DOMAIN q2 = 1 .. n + 1
  BY <1>1, LenProperties
<1> HIDE DEF n, q2
<1>3. \A k \in 1 .. n + 1 : k \in 1 .. n \/ k = n + 1
  BY <1>1
<1>4. QueuedOnce(q2) /\ IdsOf(q2) \subseteq IdsOf(q) \cup {e.id}
  BY <1>1, <1>2, <1>3 DEF QueuedOnce, IdsOf
<1>5. \A t : SentByOthers(t, q) /\ e.thread # t => SentByOthers(t, q2)
  BY <1>1, <1>2, <1>3 DEF SentByOthers
<1>6. \A from, id : InList(q2, from, id) =>
        InList(q, from, id) \/ (e.thread = from /\ e.id = id)
  BY <1>1, <1>2, <1>3 DEF InList
<1> QED
  BY <1>1, <1>4, <1>5, <1>6 DEF q2

LEMMA InsertQueued ==
  ASSUME NEW S, NEW q \in Seq(S), NEW e \in S, e.id \notin IdsOf(q),
         QueuedOnce(q), NEW i \in 1 .. Len(q) + 1,
         NEW q2, q2 = InsertAt(q, i, e)
  PROVE  /\ q2 \in Seq(S) /\ QueuedOnce(q2)
         /\ IdsOf(q2) \subseteq IdsOf(q) \cup {e.id}
<1> DEFINE n == Len(q)
           h == [j \in 1 .. n + 1 |-> IF j < i THEN j ELSE j - 1]
<1>0. n \in Nat /\ DOMAIN q = 1 .. n
  BY LenProperties
<1>1. /\ q2 \in Seq(S) /\ Len(q2) = n + 1 /\ q2[i] = e
      /\ \A j \in 1 .. n : j < i => q2[j] = q[j]
      /\ \A j \in 1 .. n + 1 : j > i => q2[j] = q[j - 1]
  <2>1. q2 \in Seq(S) /\ Len(q2) = n + 1
    BY InsertAtProperties, Zenon
  <2>2. q2[i] = e
    BY InsertAtProperties, SMT
  <2>3. \A j \in 1 .. n : j < i => q2[j] = q[j]
    BY InsertAtProperties, SMT
  <2>4. \A j \in 1 .. n : j >= i => q2[j + 1] = q[j]
    BY InsertAtProperties, SMT
  <2>5. ASSUME NEW j \in 1 .. n + 1, j > i PROVE q2[j] = q[j - 1]
    <3>1. j - 1 \in 1 .. n /\ j - 1 >= i /\ (j - 1) + 1 = j
      BY <1>0, <2>5
    <3> QED
      BY <2>4, <3>1
  <2> QED
    BY <2>1, <2>2, <2>3, <2>5
<1>2. DOMAIN q2 = 1 .. n + 1
  BY <1>1, LenProperties
<1>3. i \in 1 .. n + 1
  OBVIOUS
<1> HIDE DEF n
<1>4. \A j \in 1 .. n + 1 : h[j] = IF j < i THEN j ELSE j - 1
  OBVIOUS
<1> HIDE DEF h
<1>5. \A j \in 1 .. n + 1 : j # i => h[j] \in 1 .. n
  BY <1>0, <1>1, <1>3, <1>4
<1>6. \A j, k \in 1 .. n + 1 : j # i /\ k # i /\ h[j] = h[k] => j = k
  BY <1>0, <1>1, <1>3, <1>4
<1>7. q2[i] = e /\ \A j \in 1 .. n + 1 : j # i => q2[j] = q[h[j]]
  BY <1>0, <1>1, <1>3, <1>4
<1>8. \A j \in 1 .. n + 1 : j # i => q2[j].id \in IdsOf(q) /\ q2[j].id # e.id
  BY <1>0, <1>5, <1>7 DEF IdsOf
<1>9. ASSUME NEW j \in 1 .. n + 1, NEW k \in 1 .. n + 1, q2[j].id = q2[k].id
      PROVE  j = k
  <2>1. CASE j = i \/ k = i
    BY <1>7, <1>8, <1>9, <2>1
  <2>2. CASE j # i /\ k # i
    <3>1. q[h[j]].id = q[h[k]].id /\ h[j] \in DOMAIN q /\ h[k] \in DOMAIN q
      BY <1>0, <1>5, <1>7, <1>9, <2>2
    <3>2. h[j] = h[k]
      BY <3>1 DEF QueuedOnce
    <3> QED
      BY <1>6, <2>2, <3>2
  <2> QED
    BY <2>1, <2>2
<1>10. IdsOf(q2) \subseteq IdsOf(q) \cup {e.id}
  <2> SUFFICES ASSUME NEW j \in 1 .. n + 1
               PROVE  q2[j].id \in IdsOf(q) \cup {e.id}
    BY <1>2 DEF IdsOf
  <2> QED
    BY <1>7, <1>8
<1> QED
  BY <1>1, <1>2, <1>9, <1>10 DEF QueuedOnce


(* Clear takes a message out of a queue.                                   *)
LEMMA WithoutPosted ==
  ASSUME NEW S, NEW q \in Seq(S), NEW id, PostedOnce(q),
         NEW q2, q2 = RemoveFirst(q, id)
  PROVE  q2 \in Seq(S) /\ Part(q2, q) /\ id \notin PostedIds(q2)
<1> DEFINE I == {i \in 1 .. Len(q) : q[i] = id}
<1>1. Len(q) \in Nat /\ DOMAIN q = 1 .. Len(q)
  BY LenProperties
<1>2. q2 = IF \E i \in 1 .. Len(q) : q[i] = id
           THEN RemoveAt(q, IF I # {} THEN Min(I) ELSE 0) ELSE q
  BY DEF RemoveFirst, SelectInSeq
<1>3. CASE I = {}
  <2>1. q2 = q /\ id \notin PostedIds(q)
    BY <1>1, <1>2, <1>3 DEF PostedIds
  <2> QED
    BY <2>1, SamePart
<1>4. CASE I # {}
  <2>1. I \in SUBSET Nat
    OBVIOUS
  <2>2. Min(I) \in I
    BY <1>4, <2>1, MinIsLeast
  <2>3. Min(I) \in 1 .. Len(q) /\ q[Min(I)] = id /\ q2 = RemoveAt(q, Min(I))
    BY <1>2, <1>4, <2>2
  <2> QED
    BY <2>3, RemovedPart
<1> QED
  BY <1>3, <1>4

LEMMA WithoutQueued ==
  ASSUME NEW S, NEW q \in Seq(S), NEW id, QueuedOnce(q),
         NEW q2, q2 = WithoutId(q, id)
  PROVE  q2 \in Seq(S) /\ Part(q2, q) /\ id \notin IdsOf(q2)
<1> DEFINE I == {i \in 1 .. Len(q) : q[i].id = id}
<1>1. Len(q) \in Nat /\ DOMAIN q = 1 .. Len(q)
  BY LenProperties
<1>2. q2 = IF \E i \in 1 .. Len(q) : q[i].id = id
           THEN RemoveAt(q, IF I # {} THEN Min(I) ELSE 0) ELSE q
  BY DEF WithoutId, RemoveFirstMatch, SelectInSeq
<1>3. CASE I = {}
  <2>1. q2 = q /\ id \notin IdsOf(q)
    BY <1>1, <1>2, <1>3 DEF IdsOf
  <2> QED
    BY <2>1, SamePart
<1>4. CASE I # {}
  <2>1. I \in SUBSET Nat
    OBVIOUS
  <2>2. Min(I) \in I
    BY <1>4, <2>1, MinIsLeast
  <2>3. Min(I) \in 1 .. Len(q) /\ q[Min(I)].id = id /\ q2 = RemoveAt(q, Min(I))
    BY <1>2, <1>4, <2>2
  <2> QED
    BY <2>3, RemovedPart
<1> QED
  BY <1>3, <1>4

LEMMA FirstNotDue ==
  ASSUME NEW q, Len(q) \in Nat,
         NEW i, i = SelectInSeq(q, LAMBDA m : ~m.due)
  PROVE  i \in 0 .. Len(q)
<1> DEFINE I == {j \in 1 .. Len(q) : ~q[j].due}
<1>1. i = IF I # {} THEN Min(I) ELSE 0
  BY DEF SelectInSeq
<1>2. CASE I # {}
  <2>1. I \in SUBSET Nat
    OBVIOUS
  <2>2. i \in I
    BY <1>1, <1>2, <2>1, MinIsLeast
  <2> QED
    BY <2>2
<1> QED
  BY <1>1, <1>2

LEMMA DueCountType ==
  ASSUME NEW q, Len(q) \in Nat
  PROVE  DueCount(q) \in 0 .. Len(q)
<1>1. PICK i : i = SelectInSeq(q, LAMBDA m : ~m.due)
  OBVIOUS
<1>2. i \in 0 .. Len(q)
  BY <1>1, FirstNotDue
<1>3. DueCount(q) = IF i = 0 THEN Len(q) ELSE i - 1
  BY <1>1 DEF DueCount
<1> QED
  BY <1>2, <1>3

(* The delayed messages that are due join the posted ones.                 *)
LEMMA DueJoin ==
  ASSUME NEW p \in Seq(Ids), NEW q \in Seq(DelayedMsg), NEW m \in 0 .. Len(q),
         PostedOnce(p), QueuedOnce(q), PostedIds(p) \cap IdsOf(q) = {},
         NEW p2, p2 = p \o [i \in 1 .. m |-> q[i].id]
  PROVE  /\ p2 \in Seq(Ids) /\ PostedOnce(p2)
         /\ PostedIds(p2) \subseteq PostedIds(p) \cup {q[i].id : i \in 1 .. m}
<1> DEFINE d == [i \in 1 .. m |-> q[i].id]
           a == Len(p)
<1>1. a \in Nat /\ DOMAIN p = 1 .. a /\ Len(q) \in Nat /\ DOMAIN q = 1 .. Len(q)
  BY LenProperties
<1>2. m \in Nat /\ \A i \in 1 .. m : i \in DOMAIN q
  BY <1>1
<1>3. \A i \in 1 .. m : q[i].id \in Ids /\ q[i].id \in IdsOf(q)
  <2> TAKE i \in 1 .. m
  <2>1. q[i] \in DelayedMsg
    BY <1>1, <1>2, ElementOfSeq
  <2> QED
    BY <1>2, <2>1 DEF DelayedMsg, IdsOf
<1>4. d \in Seq(Ids) /\ Len(d) = m /\ \A i \in 1 .. m : d[i] = q[i].id
  BY <1>2, <1>3, IsASeq
<1> HIDE DEF d, a
<1>5. p2 = p \o d
  BY DEF d
<1>6. /\ p2 \in Seq(Ids) /\ Len(p2) = a + m
      /\ \A i \in 1 .. a + m : p2[i] = IF i <= a THEN p[i] ELSE d[i - a]
  BY <1>4, <1>5, ConcatProperties DEF a
<1>7. DOMAIN p2 = 1 .. a + m
  BY <1>6, LenProperties
<1>8. ASSUME NEW i \in 1 .. a + m
      PROVE  \/ i \in 1 .. a /\ p2[i] = p[i] /\ p2[i] \in PostedIds(p)
             \/ /\ i - a \in 1 .. m /\ p2[i] = q[i - a].id
                /\ p2[i] \in IdsOf(q)
  <2>1. CASE i <= a
    BY <1>1, <1>6, <2>1 DEF PostedIds
  <2>2. CASE i > a
    <3>1. i - a \in 1 .. m
      BY <1>1, <1>2, <2>2
    <3>2. p2[i] = d[i - a]
      BY <1>1, <1>6, <2>2
    <3> QED
      BY <1>3, <1>4, <3>1, <3>2
  <2> QED
    BY <1>1, <2>1, <2>2
<1>9. ASSUME NEW i \in 1 .. a + m, NEW j \in 1 .. a + m, p2[i] = p2[j]
      PROVE  i = j
  <2>1. CASE i \in 1 .. a /\ j \in 1 .. a /\ p2[i] = p[i] /\ p2[j] = p[j]
    BY <1>1, <1>9, <2>1 DEF PostedOnce
  <2>2. CASE /\ i - a \in 1 .. m /\ p2[i] = q[i - a].id
             /\ j - a \in 1 .. m /\ p2[j] = q[j - a].id
    <3>1. i - a = j - a
      BY <1>2, <1>9, <2>2 DEF QueuedOnce
    <3> QED
      BY <1>1, <1>2, <3>1
  <2> QED
    BY <1>8, <1>9, <2>1, <2>2
<1>10. PostedIds(p2) \subseteq PostedIds(p) \cup {q[i].id : i \in 1 .. m}
  <2> SUFFICES ASSUME NEW i \in 1 .. a + m
               PROVE  p2[i] \in PostedIds(p) \cup {q[k].id : k \in 1 .. m}
    BY <1>7 DEF PostedIds
  <2> QED
    BY <1>8
<1> QED
  BY <1>6, <1>7, <1>9, <1>10 DEF PostedOnce

-----------------------------------------------------------------------------
(* What a step does to the state of one thread.  Most steps are quiet: the *)
(* thread gets no message it did not have, serves nobody it did not serve, *)
(* and keeps waiting for what it waits for.                                *)

Fewer(s, s2) ==
  /\ Holds(s2) \subseteq Holds(s)
  /\ \A from \in Threads : \A id : Serves(s2, from, id) => Serves(s, from, id)

Quiet(t, s, s2) ==
  /\ StateOK(t, s2) /\ Fewer(s, s2)
  /\ \A to, id : Waits(s.stack, to, id) => Waits(s2.stack, to, id)

LEMMA QuietSame ==
  ASSUME NEW t, NEW s, StateOK(t, s)
  PROVE  Quiet(t, s, s)
BY DEF Quiet, Fewer

LEMMA QuietTwice ==
  ASSUME NEW t, NEW s, NEW s1, NEW s2, Quiet(t, s, s1), Quiet(t, s1, s2)
  PROVE  Quiet(t, s, s2)
BY DEF Quiet, Fewer

LEMMA StateFields ==
  ASSUME NEW t, NEW s, StateOK(t, s)
  PROVE  /\ s \in ThreadState /\ s.stack \in Seq(Frame) /\ s.msgq \in Seq(Ids)
         /\ s.dmsgq \in Seq(DelayedMsg) /\ s.sendlist \in Seq(SentMsg)
         /\ s.stop \in BOOLEAN /\ s.event \in BOOLEAN
         /\ StackOK(t, s.stack)
         /\ s.stack # <<>> => /\ Len(s.stack) \in DOMAIN s.stack
                              /\ s.stack[Len(s.stack)] \in Frame
<1>1. s \in ThreadState /\ StackOK(t, s.stack)
  BY DEF StateOK
<1>2. /\ s.stack \in Seq(Frame) /\ s.msgq \in Seq(Ids)
      /\ s.dmsgq \in Seq(DelayedMsg) /\ s.sendlist \in Seq(SentMsg)
      /\ s.stop \in BOOLEAN /\ s.event \in BOOLEAN
  BY <1>1 DEF ThreadState
<1>3. ASSUME s.stack # <<>>
      PROVE  Len(s.stack) \in DOMAIN s.stack /\ s.stack[Len(s.stack)] \in Frame
  <2>1. Len(s.stack) \in 1 .. Len(s.stack) /\ DOMAIN s.stack = 1 .. Len(s.stack)
    BY <1>2, <1>3, EmptySeq, LenProperties
  <2> QED
    BY <1>2, <2>1, ElementOfSeq
<1> QED
  BY <1>1, <1>2, <1>3

LEMMA HeldAreIds ==
  ASSUME NEW t, NEW s, StateOK(t, s)
  PROVE  Holds(s) \subseteq Ids
<1>1. /\ s.stack \in Seq(Frame) /\ s.msgq \in Seq(Ids)
      /\ s.dmsgq \in Seq(DelayedMsg) /\ s.sendlist \in Seq(SentMsg)
  BY StateFields
<1>2. PostedIds(s.msgq) \subseteq Ids
  BY <1>1, LenProperties, ElementOfSeq DEF PostedIds
<1>3. IdsOf(s.dmsgq) \subseteq Ids
  <2>1. \A i \in DOMAIN s.dmsgq : s.dmsgq[i] \in DelayedMsg
    BY <1>1, LenProperties, ElementOfSeq
  <2> QED
    BY <2>1 DEF IdsOf, DelayedMsg
<1>4. IdsOf(s.sendlist) \subseteq Ids
  <2>1. \A i \in DOMAIN s.sendlist : s.sendlist[i] \in SentMsg
    BY <1>1, LenProperties, ElementOfSeq
  <2> QED
    BY <2>1 DEF IdsOf, SentMsg
<1>5. StackIds(s.stack) \subseteq Ids
  <2> SUFFICES ASSUME NEW k \in DOMAIN s.stack, Active(s.stack[k])
               PROVE  s.stack[k].id \in Ids
    BY DEF StackIds
  <2>1. s.stack[k] \in Frame
    BY <1>1, LenProperties, ElementOfSeq
  <2>2. s.stack[k].call \in {"OnMessage", "Send", "Post"}
    BY DEF Active
  <2> QED
    BY <2>1, <2>2, FrameFields DEF HandlerFrame, SendingFrame, PostingFrame
<1> QED
  BY <1>2, <1>3, <1>4, <1>5 DEF Holds

(* The messages of a thread before and after a change of its stack.        *)
LEMMA StackChange ==
  ASSUME NEW t, NEW s, StateOK(t, s), NEW s2 \in ThreadState,
         s2.msgq = s.msgq, s2.dmsgq = s.dmsgq, s2.sendlist = s.sendlist,
         StackOK(t, s2.stack), NEW X,
         StackIds(s2.stack) \subseteq StackIds(s.stack) \cup X,
         X \cap Holds(s) = {}
  PROVE  StateOK(t, s2) /\ Holds(s2) \subseteq Holds(s) \cup X
<1>1. (PostedIds(s.msgq) \cup IdsOf(s.dmsgq) \cup IdsOf(s.sendlist))
         \cap StackIds(s2.stack) = {}
  BY DEF StateOK, Holds
<1>2. StateOK(t, s2)
  BY <1>1 DEF StateOK
<1> QED
  BY <1>2 DEF Holds

LEMMA QuietStack ==
  ASSUME NEW t, NEW s, StateOK(t, s), NEW s2 \in ThreadState,
         s2.msgq = s.msgq, s2.dmsgq = s.dmsgq, s2.sendlist = s.sendlist,
         StackOK(t, s2.stack),
         StackIds(s2.stack) \subseteq StackIds(s.stack),
         \A from, id : InHandler(s2.stack, from, id) => InHandler(s.stack, from, id)
  PROVE  StateOK(t, s2) /\ Fewer(s, s2)
<1>1. StateOK(t, s2) /\ Holds(s2) \subseteq Holds(s) \cup {}
  BY StackChange
<1>2. \A from \in Threads : \A id : Serves(s2, from, id) => Serves(s, from, id)
  BY DEF Serves
<1> QED
  BY <1>1, <1>2 DEF Fewer

(* Setting the event or stop_.                                             *)
LEMMA QuietFlags ==
  ASSUME NEW t, NEW s, StateOK(t, s), NEW s2 \in ThreadState,
         s2.msgq = s.msgq, s2.dmsgq = s.dmsgq, s2.sendlist = s.sendlist,
         s2.stack = s.stack
  PROVE  Quiet(t, s, s2)
<1>1. StateOK(t, s2)
  BY DEF StateOK
<1>2. Fewer(s, s2)
  BY DEF Fewer, Holds, Serves
<1> QED
  BY <1>1, <1>2 DEF Quiet

LEMMA QuietEvent ==
  ASSUME NEW t, NEW s, StateOK(t, s), NEW e \in BOOLEAN
  PROVE  Quiet(t, s, [s EXCEPT !.event = e])
<1>1. s \in ThreadState
  BY StateFields
<1>2. PICK s2 : s2 = [s EXCEPT !.event = e]
  OBVIOUS
<1>3. /\ s2 \in ThreadState /\ s2.msgq = s.msgq /\ s2.dmsgq = s.dmsgq
      /\ s2.sendlist = s.sendlist /\ s2.stack = s.stack
  BY <1>1, <1>2 DEF ThreadState
<1> QED
  BY <1>2, <1>3, QuietFlags

(* The innermost call goes on; what it had in its hands is gone.           *)
LEMMA QuietTop ==
  ASSUME NEW t, NEW s, StateOK(t, s), s.stack # <<>>, NEW g,
         GoesOn(s.stack[Len(s.stack)], g),
         NEW s2, s2 = [s EXCEPT !.stack[Len(s.stack)] = g]
  PROVE  /\ Quiet(t, s, s2) /\ s2.stack # <<>>
         /\ s2.stack = [s.stack EXCEPT ![Len(s.stack)] = g]
         /\ s2.stack[Len(s2.stack)] = g
         /\ Active(s.stack[Len(s.stack)]) =>
              s.stack[Len(s.stack)].id \notin Holds(s2)
<1>0. PICK top : top = s.stack[Len(s.stack)]
  OBVIOUS
<1>1. PICK st2 : st2 = [s.stack EXCEPT ![Len(s.stack)] = g]
  OBVIOUS
<1>2. /\ s \in ThreadState /\ StackOK(t, s.stack) /\ s.stack \in Seq(Frame)
      /\ Len(s.stack) \in DOMAIN s.stack /\ top \in Frame
  BY <1>0, StateFields
<1>3. /\ StackOK(t, st2) /\ st2 # <<>>
      /\ StackIds(st2) \subseteq StackIds(s.stack)
      /\ Active(top) => top.id \notin StackIds(st2)
      /\ \A from, id : InHandler(st2, from, id) => InHandler(s.stack, from, id)
      /\ \A to, id : Waits(s.stack, to, id) => Waits(st2, to, id)
  <2>1. PICK st : st = s.stack
    OBVIOUS
  <2>2. StackOK(t, st) /\ st # <<>> /\ GoesOn(st[Len(st)], g)
    BY <1>2, <2>1
  <2>3. st2 = [st EXCEPT ![Len(st)] = g]
    BY <1>1, <2>1, Zenon
  <2>4. /\ StackOK(t, st2) /\ st2 # <<>>
        /\ StackIds(st2) \subseteq StackIds(st)
        /\ Active(st[Len(st)]) => st[Len(st)].id \notin StackIds(st2)
        /\ \A from, id : InHandler(st2, from, id) => InHandler(st, from, id)
        /\ \A to, id : Waits(st, to, id) => Waits(st2, to, id)
    BY <2>2, <2>3, ReplaceTop, Zenon
  <2> QED
    BY <1>0, <2>1, <2>4, Zenon
<1>4. st2 \in Seq(Frame)
  BY <1>3 DEF StackOK
<1>5. st2[Len(st2)] = g
  <2>1. g \in Frame
    BY DEF GoesOn
  <2>2. Len(st2) = Len(s.stack)
    BY <1>1, <1>2, <2>1, LenProperties, ExceptSeq
  <2> QED
    BY <1>1, <1>2, <2>2
<1>6. s2 = [s EXCEPT !.stack = st2]
  BY <1>1, <1>2 DEF ThreadState
<1>7. /\ s2 \in ThreadState /\ s2.msgq = s.msgq /\ s2.dmsgq = s.dmsgq
      /\ s2.sendlist = s.sendlist /\ s2.stack = st2
  BY <1>2, <1>4, <1>6 DEF ThreadState
<1>8. StateOK(t, s2) /\ Fewer(s, s2)
  BY <1>3, <1>7, QuietStack
<1>9. ASSUME Active(top) PROVE top.id \notin Holds(s2)
  <2>1. top.id \in StackIds(s.stack)
    BY <1>0, <1>2, <1>9 DEF StackIds
  <2>2. top.id \notin PostedIds(s.msgq) \cup IdsOf(s.dmsgq) \cup IdsOf(s.sendlist)
    BY <2>1 DEF StateOK
  <2> QED
    BY <1>3, <1>7, <1>9, <2>2 DEF Holds
<1>10. Quiet(t, s, s2)
  BY <1>3, <1>7, <1>8 DEF Quiet
<1> QED
  BY <1>0, <1>1, <1>3, <1>5, <1>7, <1>9, <1>10


CanGo(f, pc) ==
  \/ f.call = "ProcessMessages" /\ pc \in {"receive", "posted", "quit", "wait"}
  \/ f.call = "Send" /\ pc \in {"wake", "check", "receive", "wait"}
  \/ f.call = "Post" /\ pc = "wake"

LEMMA GoGoesOn ==
  ASSUME NEW f \in Frame, NEW pc, CanGo(f, pc)
  PROVE  /\ GoesOn(f, [f EXCEPT !.pc = pc])
         /\ [f EXCEPT !.pc = pc].pc = pc
<1>1. CASE f.call = "ProcessMessages" /\ pc \in {"receive", "posted", "quit", "wait"}
  <2>1. f \in LoopFrame
    BY <1>1, FrameFields
  <2>2. /\ [f EXCEPT !.pc = pc] \in LoopFrame
        /\ [f EXCEPT !.pc = pc].pc = pc
    BY <1>1, <2>1 DEF LoopFrame
  <2> QED
    BY <1>1, <2>2 DEF GoesOn, Frame, LoopFrame
<1>2. CASE f.call = "Send" /\ pc \in {"wake", "check", "receive", "wait"}
  <2>1. f \in SendingFrame
    BY <1>2, FrameFields
  <2>2. /\ [f EXCEPT !.pc = pc] \in SendingFrame
        /\ [f EXCEPT !.pc = pc].pc = pc
        /\ [f EXCEPT !.pc = pc].id = f.id /\ [f EXCEPT !.pc = pc].to = f.to
        /\ [f EXCEPT !.pc = pc].ready = f.ready
        /\ [f EXCEPT !.pc = pc].call = "Send"
    BY <1>2, <2>1 DEF SendingFrame
  <2> QED
    BY <1>2, <2>2 DEF GoesOn, Frame
<1>3. CASE f.call = "Post" /\ pc = "wake"
  <2>1. f \in PostingFrame
    BY <1>3, FrameFields
  <2>2. /\ [f EXCEPT !.pc = pc] \in PostingFrame
        /\ [f EXCEPT !.pc = pc].pc = pc
        /\ [f EXCEPT !.pc = pc].id = f.id /\ [f EXCEPT !.pc = pc].to = f.to
        /\ [f EXCEPT !.pc = pc].call = "Post"
    BY <1>3, <2>1 DEF PostingFrame
  <2> QED
    BY <1>3, <2>2 DEF GoesOn, Frame
<1> QED
  BY <1>1, <1>2, <1>3 DEF CanGo

(* Go: the innermost call is at another pc.                                *)
LEMMA QuietGo ==
  ASSUME NEW t, NEW s, StateOK(t, s), s.stack # <<>>, NEW pc,
         NEW top, top = s.stack[Len(s.stack)], CanGo(top, pc),
         NEW s2, s2 = Go(s, pc)
  PROVE  /\ Quiet(t, s, s2) /\ s2.stack # <<>>
         /\ Len(s2.stack) = Len(s.stack)
         /\ s2.stack[Len(s2.stack)] = [top EXCEPT !.pc = pc]
         /\ s2.msgq = s.msgq /\ s2.dmsgq = s.dmsgq
         /\ s2.sendlist = s.sendlist /\ s2.stop = s.stop /\ s2.event = s.event
         /\ Active(top) => top.id \notin Holds(s2)
<1>1. PICK g : g = [top EXCEPT !.pc = pc]
  OBVIOUS
<1>2. s \in ThreadState /\ s.stack \in Seq(Frame) /\ top \in Frame
      /\ Len(s.stack) \in DOMAIN s.stack
  BY StateFields
<1>3. GoesOn(top, g)
  BY <1>1, <1>2, GoGoesOn
<1>4. s2 = [s EXCEPT !.stack[Len(s.stack)] = g]
  BY <1>1, <1>2 DEF Go, ThreadState
<1>5. /\ Quiet(t, s, s2) /\ s2.stack # <<>>
      /\ s2.stack = [s.stack EXCEPT ![Len(s.stack)] = g]
      /\ s2.stack[Len(s2.stack)] = g
      /\ Active(top) => top.id \notin Holds(s2)
  <2>1. GoesOn(s.stack[Len(s.stack)], g)
    BY <1>3
  <2>2. /\ Quiet(t, s, s2) /\ s2.stack # <<>>
        /\ s2.stack = [s.stack EXCEPT ![Len(s.stack)] = g]
        /\ s2.stack[Len(s2.stack)] = g
        /\ Active(s.stack[Len(s.stack)]) =>
             s.stack[Len(s.stack)].id \notin Holds(s2)
    BY <1>4, <2>1, QuietTop, Zenon
  <2> QED
    BY <2>2, Zenon
<1>6. Len(s2.stack) = Len(s.stack)
  <2>1. g \in Frame
    BY <1>3 DEF GoesOn
  <2> QED
    BY <1>2, <1>5, <2>1, LenProperties, ExceptSeq
<1>7. /\ s2.msgq = s.msgq /\ s2.dmsgq = s.dmsgq
      /\ s2.sendlist = s.sendlist /\ s2.stop = s.stop /\ s2.event = s.event
  BY <1>2, <1>4 DEF ThreadState
<1> QED
  BY <1>1, <1>5, <1>6, <1>7

(* Return: the innermost call is over.                                     *)
LEMMA QuietReturn ==
  ASSUME NEW t, NEW s, StateOK(t, s), s.stack # <<>>,
         NEW top, top = s.stack[Len(s.stack)],
         top.call = "Send" => top.ready,
         NEW s2, s2 = Return(s)
  PROVE  /\ Quiet(t, s, s2)
         /\ s2.event = s.event
         /\ Active(top) => top.id \notin Holds(s2)
<1>1. PICK st : st = s.stack
  OBVIOUS
<1>2. PICK st2 : st2 = Front(st)
  OBVIOUS
<1>3. s \in ThreadState /\ StackOK(t, st) /\ st \in Seq(Frame)
      /\ Len(st) \in DOMAIN st /\ st # <<>> /\ top = st[Len(st)]
  BY <1>1, StateFields
<1>4. /\ StackOK(t, st2)
      /\ StackIds(st2) \subseteq StackIds(st)
      /\ Active(top) => top.id \notin StackIds(st2)
      /\ \A from, id : InHandler(st2, from, id) => InHandler(st, from, id)
      /\ \A to, id : Waits(st, to, id) => Waits(st2, to, id)
  <2>1. /\ StackOK(t, st2)
        /\ StackIds(st2) \subseteq StackIds(st)
        /\ Active(st[Len(st)]) => st[Len(st)].id \notin StackIds(st2)
        /\ \A from, id : InHandler(st2, from, id) => InHandler(st, from, id)
        /\ (st[Len(st)].call = "Send" => st[Len(st)].ready) =>
             \A to, id : Waits(st, to, id) => Waits(st2, to, id)
    BY <1>2, <1>3, ReturnTop, Zenon
  <2>2. st[Len(st)].call = "Send" => st[Len(st)].ready
    BY <1>3, Zenon
  <2> QED
    BY <1>3, <2>1, <2>2, Zenon
<1>5. st2 \in Seq(Frame)
  BY <1>4 DEF StackOK
<1>6. /\ s2 \in ThreadState /\ s2.msgq = s.msgq /\ s2.dmsgq = s.dmsgq
      /\ s2.sendlist = s.sendlist /\ s2.stack = st2 /\ s2.event = s.event
  BY <1>1, <1>2, <1>3, <1>5 DEF Return, ThreadState
<1>7. StateOK(t, s2) /\ Fewer(s, s2)
  BY <1>1, <1>4, <1>6, QuietStack
<1>8. ASSUME Active(top) PROVE top.id \notin Holds(s2)
  <2>1. top.id \in StackIds(s.stack)
    BY <1>1, <1>3, <1>8 DEF StackIds
  <2>2. top.id \notin PostedIds(s.msgq) \cup IdsOf(s.dmsgq) \cup IdsOf(s.sendlist)
    BY <2>1 DEF StateOK
  <2> QED
    BY <1>4, <1>6, <1>8, <2>2 DEF Holds
<1>9. Quiet(t, s, s2)
  BY <1>1, <1>4, <1>6, <1>7 DEF Quiet
<1> QED
  BY <1>6, <1>8, <1>9

(* Enter: a call begins, with a message that the thread did not have.      *)
Began(t, s, g, s2) ==
  /\ StateOK(t, s2)
  /\ Holds(s2) \subseteq Holds(s) \cup {g.id}
  /\ g.call = "Send" => Waits(s2.stack, g.to, g.id)
  /\ \A from, id : Serves(s2, from, id) =>
       \/ Serves(s, from, id)
       \/ g.call = "OnMessage" /\ g.id = id /\ g.from = from
  /\ \A to, id : Waits(s.stack, to, id) => Waits(s2.stack, to, id)

LEMMA EnterState ==
  ASSUME NEW t, NEW s, StateOK(t, s), s.stack # <<>>,
         NEW g, CanEnter(t, s.stack[Len(s.stack)], g), g.id \notin Holds(s),
         NEW s2, s2 = Enter(s, g)
  PROVE  Began(t, s, g, s2)
<1>1. PICK st : st = s.stack
  OBVIOUS
<1>2. PICK st2 : st2 = Append(st, g)
  OBVIOUS
<1>3. s \in ThreadState /\ StackOK(t, st) /\ st \in Seq(Frame)
      /\ st # <<>> /\ CanEnter(t, st[Len(st)], g)
  BY <1>1, StateFields
<1>4. g.id \notin StackIds(st)
  BY <1>1 DEF Holds
<1>5. /\ StackOK(t, st2)
      /\ StackIds(st2) \subseteq StackIds(st) \cup {g.id}
      /\ g.call = "Send" => Waits(st2, g.to, g.id)
      /\ \A from, id : InHandler(st2, from, id) =>
           \/ InHandler(st, from, id)
           \/ g.call = "OnMessage" /\ g.id = id /\ g.from = from
      /\ \A to, id : Waits(st, to, id) => Waits(st2, to, id)
  <2>1. Entered(t, st, g, st2)
    BY <1>2, <1>3, <1>4, EnterTop
  <2> QED
    BY <2>1 DEF Entered
<1>6. st2 \in Seq(Frame)
  BY <1>5 DEF StackOK
<1>7. /\ s2 \in ThreadState /\ s2.msgq = s.msgq /\ s2.dmsgq = s.dmsgq
      /\ s2.sendlist = s.sendlist /\ s2.stack = st2
  BY <1>1, <1>2, <1>3, <1>6 DEF Enter, ThreadState
<1>8. {g.id} \cap Holds(s) = {}
  OBVIOUS
<1>9. StateOK(t, s2) /\ Holds(s2) \subseteq Holds(s) \cup {g.id}
  BY <1>1, <1>5, <1>7, <1>8, StackChange
<1>10. \A from, id : Serves(s2, from, id) =>
         \/ Serves(s, from, id)
         \/ g.call = "OnMessage" /\ g.id = id /\ g.from = from
  BY <1>1, <1>5, <1>7 DEF Serves
<1> QED
  BY <1>1, <1>5, <1>7, <1>9, <1>10 DEF Began


(* Messages leave the queues of a thread.                                  *)
LEMMA QuietQueues ==
  ASSUME NEW t, NEW s, StateOK(t, s), NEW s2 \in ThreadState,
         s2.stack = s.stack, Part(s2.msgq, s.msgq), Part(s2.dmsgq, s.dmsgq),
         Part(s2.sendlist, s.sendlist)
  PROVE  Quiet(t, s, s2)
<1>1. /\ PostedOnce(s2.msgq) /\ QueuedOnce(s2.dmsgq) /\ QueuedOnce(s2.sendlist)
      /\ SentByOthers(t, s2.sendlist) /\ StackOK(t, s2.stack)
      /\ PostedIds(s2.msgq) \subseteq PostedIds(s.msgq)
      /\ IdsOf(s2.dmsgq) \subseteq IdsOf(s.dmsgq)
      /\ IdsOf(s2.sendlist) \subseteq IdsOf(s.sendlist)
      /\ \A from, id : InList(s2.sendlist, from, id) => InList(s.sendlist, from, id)
  BY DEF StateOK, Part
<1>2. /\ PostedIds(s2.msgq) \cap IdsOf(s2.dmsgq) = {}
      /\ (PostedIds(s2.msgq) \cup IdsOf(s2.dmsgq)) \cap IdsOf(s2.sendlist) = {}
      /\ (PostedIds(s2.msgq) \cup IdsOf(s2.dmsgq) \cup IdsOf(s2.sendlist))
           \cap StackIds(s2.stack) = {}
  BY <1>1 DEF StateOK
<1>3. StateOK(t, s2)
  BY <1>1, <1>2 DEF StateOK
<1>4. Holds(s2) \subseteq Holds(s)
  BY <1>1 DEF Holds
<1>5. \A from \in Threads : \A id : Serves(s2, from, id) => Serves(s, from, id)
  BY <1>1 DEF Serves
<1> QED
  BY <1>3, <1>4, <1>5 DEF Quiet, Fewer

(* PopSendMessageFromThread.                                               *)
LEMMA PopSent ==
  ASSUME NEW t, NEW s, StateOK(t, s), NEW i \in 1 .. Len(s.sendlist),
         NEW m, m = s.sendlist[i],
         NEW s2, s2 = PopSend(s, i)
  PROVE  /\ Quiet(t, s, s2) /\ s2.stack = s.stack
         /\ m \in SentMsg /\ m.thread # t
         /\ InList(s.sendlist, m.thread, m.id)
         /\ m.id \in Holds(s) /\ m.id \notin Holds(s2)
<1>1. s \in ThreadState /\ s.sendlist \in Seq(SentMsg) /\ QueuedOnce(s.sendlist)
  BY StateFields DEF StateOK
<1>2. i \in DOMAIN s.sendlist
  BY <1>1, LenProperties
<1>3. PICK q2 : q2 = RemoveAt(s.sendlist, i)
  OBVIOUS
<1>4. q2 \in Seq(SentMsg) /\ Part(q2, s.sendlist) /\ m.id \notin IdsOf(q2)
  BY <1>1, <1>3, RemovedPart
<1>5. /\ s2 \in ThreadState /\ s2.msgq = s.msgq /\ s2.dmsgq = s.dmsgq
      /\ s2.sendlist = q2 /\ s2.stack = s.stack
  BY <1>1, <1>3, <1>4 DEF PopSend, ThreadState
<1>6. Quiet(t, s, s2)
  BY <1>4, <1>5, SamePart, QuietQueues
<1>7. /\ m \in SentMsg /\ m.thread # t /\ InList(s.sendlist, m.thread, m.id)
      /\ m.id \in IdsOf(s.sendlist)
  BY <1>1, <1>2, ElementOfSeq DEF StateOK, SentByOthers, InList, IdsOf
<1>8. /\ m.id \notin PostedIds(s.msgq) /\ m.id \notin IdsOf(s.dmsgq)
      /\ m.id \notin StackIds(s.stack)
  BY <1>7 DEF StateOK
<1>9. m.id \in Holds(s) /\ m.id \notin Holds(s2)
  BY <1>4, <1>5, <1>7, <1>8 DEF Holds
<1> QED
  BY <1>5, <1>6, <1>7, <1>9

(* Get takes the first posted message.                                     *)
LEMMA TakePosted ==
  ASSUME NEW t, NEW s, StateOK(t, s), s.msgq # <<>>,
         NEW s2, s2 = [s EXCEPT !.msgq = Tail(s.msgq)]
  PROVE  /\ Quiet(t, s, s2) /\ s2.stack = s.stack
         /\ Head(s.msgq) \in Ids
         /\ Head(s.msgq) \in Holds(s) /\ Head(s.msgq) \notin Holds(s2)
<1>1. s \in ThreadState /\ s.msgq \in Seq(Ids) /\ PostedOnce(s.msgq)
  BY StateFields DEF StateOK
<1>2. /\ Head(s.msgq) \in Ids /\ Head(s.msgq) \in PostedIds(s.msgq)
      /\ Tail(s.msgq) \in Seq(Ids) /\ Part(Tail(s.msgq), s.msgq)
      /\ Head(s.msgq) \notin PostedIds(Tail(s.msgq))
  BY <1>1, TailPart
<1>3. /\ s2 \in ThreadState /\ s2.msgq = Tail(s.msgq) /\ s2.dmsgq = s.dmsgq
      /\ s2.sendlist = s.sendlist /\ s2.stack = s.stack
  BY <1>1, <1>2 DEF ThreadState
<1>4. Quiet(t, s, s2)
  BY <1>2, <1>3, SamePart, QuietQueues
<1>5. /\ Head(s.msgq) \notin IdsOf(s.sendlist) /\ Head(s.msgq) \notin IdsOf(s.dmsgq)
      /\ Head(s.msgq) \notin StackIds(s.stack)
  BY <1>2 DEF StateOK
<1>6. Head(s.msgq) \in Holds(s) /\ Head(s.msgq) \notin Holds(s2)
  BY <1>2, <1>3, <1>5 DEF Holds
<1> QED
  BY <1>2, <1>3, <1>4, <1>6

(* Get lets the delayed messages that are due join the posted ones.        *)
LEMMA JoinDue ==
  ASSUME NEW t, NEW s, StateOK(t, s), NEW s2, s2 = TakeDue(s)
  PROVE  Quiet(t, s, s2) /\ s2.stack = s.stack
<1> DEFINE n == DueCount(s.dmsgq)
           later == SubSeq(s.dmsgq, n + 1, Len(s.dmsgq))
           q == s.msgq \o [i \in 1 .. n |-> s.dmsgq[i].id]
<1>1. /\ s \in ThreadState /\ s.msgq \in Seq(Ids) /\ s.dmsgq \in Seq(DelayedMsg)
      /\ PostedOnce(s.msgq) /\ QueuedOnce(s.dmsgq)
      /\ PostedIds(s.msgq) \cap IdsOf(s.dmsgq) = {}
  BY StateFields DEF StateOK
<1>2. Len(s.dmsgq) \in Nat /\ DOMAIN s.dmsgq = 1 .. Len(s.dmsgq)
  BY <1>1, LenProperties
<1>3. n \in 0 .. Len(s.dmsgq)
  BY <1>2, DueCountType
<1>4. /\ later \in Seq(DelayedMsg) /\ Len(later) = Len(s.dmsgq) - n
      /\ \A j \in 1 .. Len(s.dmsgq) - n : later[j] = s.dmsgq[n + j]
  BY <1>1, <1>3, SubSeqLater
<1>5. /\ Part(later, s.dmsgq)
      /\ \A i \in 1 .. n : s.dmsgq[i].id \notin IdsOf(later)
  BY <1>1, <1>3, <1>4, LaterPart
<1>6. /\ q \in Seq(Ids) /\ PostedOnce(q)
      /\ PostedIds(q) \subseteq PostedIds(s.msgq)
                                \cup {s.dmsgq[i].id : i \in 1 .. n}
  BY <1>1, <1>3, DueJoin
<1>0. s2 = [s EXCEPT !.dmsgq = later, !.msgq = q]
  BY DEF TakeDue
<1> HIDE DEF n, later, q
<1>7. /\ s2 \in ThreadState /\ s2.msgq = q /\ s2.dmsgq = later
      /\ s2.sendlist = s.sendlist /\ s2.stack = s.stack
  BY <1>0, <1>1, <1>4, <1>6 DEF ThreadState
<1>8. {s.dmsgq[i].id : i \in 1 .. n} \subseteq IdsOf(s.dmsgq)
  BY <1>2, <1>3 DEF IdsOf
<1>9. IdsOf(later) \subseteq IdsOf(s.dmsgq) /\ QueuedOnce(later)
  BY <1>1, <1>5 DEF Part
<1>10. /\ PostedIds(q) \cap IdsOf(later) = {}
       /\ PostedIds(q) \cup IdsOf(later)
            \subseteq PostedIds(s.msgq) \cup IdsOf(s.dmsgq)
  <2>1. PICK D : D = {s.dmsgq[i].id : i \in 1 .. n}
    OBVIOUS
  <2>2. D \cap IdsOf(later) = {}
    BY <1>5, <2>1
  <2>3. D \subseteq IdsOf(s.dmsgq) /\ PostedIds(q) \subseteq PostedIds(s.msgq) \cup D
    BY <1>6, <1>8, <2>1
  <2> QED
    BY <1>1, <1>9, <2>2, <2>3
<1>11. /\ (PostedIds(q) \cup IdsOf(later)) \cap IdsOf(s.sendlist) = {}
       /\ (PostedIds(q) \cup IdsOf(later) \cup IdsOf(s.sendlist))
            \cap StackIds(s.stack) = {}
  BY <1>10 DEF StateOK
<1>12. StateOK(t, s2)
  BY <1>6, <1>7, <1>9, <1>10, <1>11 DEF StateOK
<1>13. Fewer(s, s2)
  BY <1>7, <1>10 DEF Fewer, Holds, Serves
<1> QED
  BY <1>7, <1>12, <1>13 DEF Quiet


(* A message that the thread did not have joins one of its queues.         *)
Joined(t, s, s2, id) ==
  /\ StateOK(t, s2) /\ Holds(s2) \subseteq Holds(s) \cup {id}
  /\ s2.stack = s.stack

LEMMA PushPosted ==
  ASSUME NEW t, NEW s, StateOK(t, s), NEW id \in Ids, id \notin Holds(s),
         NEW s2, s2 = [s EXCEPT !.msgq = Append(@, id)]
  PROVE  Joined(t, s, s2, id) /\ s2.sendlist = s.sendlist
<1>1. /\ s \in ThreadState /\ s.msgq \in Seq(Ids) /\ PostedOnce(s.msgq)
      /\ id \notin PostedIds(s.msgq)
  BY StateFields DEF StateOK, Holds
<1>2. PICK q2 : q2 = Append(s.msgq, id)
  OBVIOUS
<1>3. /\ q2 \in Seq(Ids) /\ PostedOnce(q2)
      /\ PostedIds(q2) \subseteq PostedIds(s.msgq) \cup {id}
  BY <1>1, <1>2, AppendPosted, Zenon
<1>4. /\ s2 \in ThreadState /\ s2.msgq = q2 /\ s2.dmsgq = s.dmsgq
      /\ s2.sendlist = s.sendlist /\ s2.stack = s.stack
  BY <1>1, <1>2, <1>3 DEF ThreadState
<1>5. StateOK(t, s2)
  BY <1>3, <1>4 DEF StateOK, Holds
<1> QED
  BY <1>3, <1>4, <1>5 DEF Joined, Holds

LEMMA PushDelayed ==
  ASSUME NEW t, NEW s, StateOK(t, s), NEW id \in Ids, id \notin Holds(s),
         NEW i \in 1 .. Len(s.dmsgq) + 1,
         NEW s2, s2 = [s EXCEPT !.dmsgq =
                                  InsertAt(@, i, [id |-> id, due |-> FALSE])]
  PROVE  Joined(t, s, s2, id) /\ s2.sendlist = s.sendlist
<1>1. PICK m : m = [id |-> id, due |-> FALSE]
  OBVIOUS
<1>2. m \in DelayedMsg /\ m.id = id
  BY <1>1 DEF DelayedMsg
<1>3. /\ s \in ThreadState /\ s.dmsgq \in Seq(DelayedMsg) /\ QueuedOnce(s.dmsgq)
      /\ id \notin IdsOf(s.dmsgq)
  BY StateFields DEF StateOK, Holds
<1>4. PICK q2 : q2 = InsertAt(s.dmsgq, i, m)
  OBVIOUS
<1>5. q2 \in Seq(DelayedMsg)
  BY <1>2, <1>3, <1>4, InsertQueued
<1>6. /\ QueuedOnce(q2) /\ IdsOf(q2) \subseteq IdsOf(s.dmsgq) \cup {id}
  <2>1. QueuedOnce(q2) /\ IdsOf(q2) \subseteq IdsOf(s.dmsgq) \cup {m.id}
    BY <1>2, <1>3, <1>4, InsertQueued
  <2> QED
    BY <1>2, <2>1
<1>7. /\ s2 \in ThreadState /\ s2.msgq = s.msgq /\ s2.dmsgq = q2
      /\ s2.sendlist = s.sendlist /\ s2.stack = s.stack
  BY <1>1, <1>3, <1>4, <1>5 DEF ThreadState
<1>8. StateOK(t, s2)
  BY <1>6, <1>7 DEF StateOK, Holds
<1> QED
  BY <1>6, <1>7, <1>8 DEF Joined, Holds

JoinedSent(t, s, s2, from, id) ==
  /\ Joined(t, s, s2, id)
  /\ \A u, j : InList(s2.sendlist, u, j) =>
       InList(s.sendlist, u, j) \/ (u = from /\ j = id)

LEMMA PushSent ==
  ASSUME NEW t, NEW s, StateOK(t, s), NEW id \in Ids, id \notin Holds(s),
         NEW from \in Threads, from # t,
         NEW s2, s2 = [s EXCEPT !.sendlist =
                                  Append(@, [thread |-> from, id |-> id])]
  PROVE  JoinedSent(t, s, s2, from, id)
<1>1. PICK m : m = [thread |-> from, id |-> id]
  OBVIOUS
<1>2. m \in SentMsg /\ m.id = id /\ m.thread = from
  BY <1>1 DEF SentMsg
<1>3. /\ s \in ThreadState /\ s.sendlist \in Seq(SentMsg)
      /\ QueuedOnce(s.sendlist) /\ SentByOthers(t, s.sendlist)
      /\ m.id \notin IdsOf(s.sendlist)
  BY <1>2, StateFields DEF StateOK, Holds
<1>4. PICK q2 : q2 = Append(s.sendlist, m)
  OBVIOUS
<1>5. /\ q2 \in Seq(SentMsg) /\ QueuedOnce(q2)
      /\ IdsOf(q2) \subseteq IdsOf(s.sendlist) \cup {m.id}
      /\ \A u : SentByOthers(u, s.sendlist) /\ m.thread # u => SentByOthers(u, q2)
      /\ \A u, j : InList(q2, u, j) =>
           InList(s.sendlist, u, j) \/ (m.thread = u /\ m.id = j)
  BY <1>2, <1>3, <1>4, AppendQueued, Zenon
<1>6. /\ s2 \in ThreadState /\ s2.msgq = s.msgq /\ s2.dmsgq = s.dmsgq
      /\ s2.sendlist = q2 /\ s2.stack = s.stack
  BY <1>1, <1>3, <1>4, <1>5 DEF ThreadState
<1>7. SentByOthers(t, q2)
  BY <1>2, <1>3, <1>5
<1>8. StateOK(t, s2)
  BY <1>2, <1>5, <1>6, <1>7 DEF StateOK, Holds
<1>9. Joined(t, s, s2, id)
  BY <1>2, <1>5, <1>6, <1>8 DEF Joined, Holds
<1> QED
  BY <1>2, <1>5, <1>6, <1>9 DEF JoinedSent

(* Clear.                                                                  *)
LEMMA WithoutState ==
  ASSUME NEW t, NEW s, StateOK(t, s), NEW id, id \in Queued(s),
         NEW s2, s2 = Without(s, id)
  PROVE  /\ Quiet(t, s, s2) /\ id \in Holds(s) /\ id \notin Holds(s2)
<1>1. /\ s \in ThreadState /\ s.msgq \in Seq(Ids)
      /\ s.dmsgq \in Seq(DelayedMsg) /\ s.sendlist \in Seq(SentMsg)
      /\ PostedOnce(s.msgq) /\ QueuedOnce(s.dmsgq) /\ QueuedOnce(s.sendlist)
  BY StateFields DEF StateOK
<1>2. PICK p : p = RemoveFirst(s.msgq, id)
  OBVIOUS
<1>3. PICK d : d = WithoutId(s.dmsgq, id)
  OBVIOUS
<1>4. PICK q : q = WithoutId(s.sendlist, id)
  OBVIOUS
<1>5. p \in Seq(Ids) /\ Part(p, s.msgq) /\ id \notin PostedIds(p)
  BY <1>1, <1>2, WithoutPosted
<1>6. d \in Seq(DelayedMsg) /\ Part(d, s.dmsgq) /\ id \notin IdsOf(d)
  BY <1>1, <1>3, WithoutQueued
<1>7. q \in Seq(SentMsg) /\ Part(q, s.sendlist) /\ id \notin IdsOf(q)
  BY <1>1, <1>4, WithoutQueued
<1>8. s2 = [s EXCEPT !.msgq = p, !.dmsgq = d, !.sendlist = q]
  BY <1>2, <1>3, <1>4 DEF Without
<1>9. /\ s2 \in ThreadState /\ s2.msgq = p /\ s2.dmsgq = d
      /\ s2.sendlist = q /\ s2.stack = s.stack
  BY <1>1, <1>5, <1>6, <1>7, <1>8 DEF ThreadState
<1>10. Quiet(t, s, s2)
  BY <1>5, <1>6, <1>7, <1>9, QuietQueues
<1>11. id \in PostedIds(s.msgq) \cup IdsOf(s.dmsgq) \cup IdsOf(s.sendlist)
  BY DEF Queued, ToSet, PostedIds, IdsOf
<1>12. id \notin StackIds(s.stack)
  BY <1>11 DEF StateOK
<1>13. id \in Holds(s) /\ id \notin Holds(s2)
  BY <1>5, <1>6, <1>7, <1>9, <1>11, <1>12 DEF Holds
<1> QED
  BY <1>10, <1>13

(* The Sends of message id are told; the thread does not have it.          *)
LEMMA ReadyState ==
  ASSUME NEW t, NEW s, StateOK(t, s), NEW id, id \notin Holds(s),
         NEW s2, s2 = [s EXCEPT !.event = TRUE, !.stack = ReadyStack(@, id)]
  PROVE  /\ StateOK(t, s2) /\ Fewer(s, s2)
         /\ \A to, j : Waits(s.stack, to, j) /\ j # id => Waits(s2.stack, to, j)
<1>1. s \in ThreadState /\ StackOK(t, s.stack) /\ id \notin StackIds(s.stack)
  BY StateFields DEF Holds
<1>2. PICK st2 : st2 = ReadyStack(s.stack, id)
  OBVIOUS
<1>3. /\ StackOK(t, st2)
      /\ StackIds(st2) \subseteq StackIds(s.stack)
      /\ \A from, j : InHandler(st2, from, j) => InHandler(s.stack, from, j)
      /\ \A to, j : Waits(s.stack, to, j) /\ j # id => Waits(st2, to, j)
  BY <1>1, <1>2, ReadyTop
<1>4. st2 \in Seq(Frame)
  BY <1>3 DEF StackOK
<1>5. /\ s2 \in ThreadState /\ s2.msgq = s.msgq /\ s2.dmsgq = s.dmsgq
      /\ s2.sendlist = s.sendlist /\ s2.stack = st2
  BY <1>1, <1>2, <1>4 DEF ThreadState
<1>6. StateOK(t, s2) /\ Fewer(s, s2)
  BY <1>3, <1>5, QuietStack
<1> QED
  BY <1>3, <1>5, <1>6

(* A delayed message becomes due.                                          *)
LEMMA QuietExpire ==
  ASSUME NEW t, NEW s, StateOK(t, s), NEW i \in 1 .. Len(s.dmsgq),
         NEW s2, s2 = [s EXCEPT !.dmsgq[i].due = TRUE]
  PROVE  Quiet(t, s, s2)
<1>1. s \in ThreadState /\ s.dmsgq \in Seq(DelayedMsg)
  BY StateFields
<1>2. i \in DOMAIN s.dmsgq /\ s.dmsgq[i] \in DelayedMsg
  BY <1>1, LenProperties, ElementOfSeq
<1>3. PICK m : m = [s.dmsgq[i] EXCEPT !.due = TRUE]
  OBVIOUS
<1>4. m \in DelayedMsg /\ m.id = s.dmsgq[i].id
  BY <1>2, <1>3 DEF DelayedMsg
<1>5. PICK q2 : q2 = [s.dmsgq EXCEPT ![i] = m]
  OBVIOUS
<1>6. /\ q2 \in Seq(DelayedMsg) /\ DOMAIN q2 = DOMAIN s.dmsgq
      /\ \A j \in DOMAIN q2 : q2[j].id = s.dmsgq[j].id
  <2>1. q2 \in Seq(DelayedMsg)
    BY <1>1, <1>4, <1>5, ExceptSeq
  <2> QED
    BY <1>4, <1>5, <2>1
<1>7. /\ s2 \in ThreadState /\ s2.msgq = s.msgq /\ s2.dmsgq = q2
      /\ s2.sendlist = s.sendlist /\ s2.stack = s.stack
  BY <1>1, <1>3, <1>5, <1>6 DEF ThreadState
<1>8. IdsOf(q2) = IdsOf(s.dmsgq) /\ (QueuedOnce(s.dmsgq) => QueuedOnce(q2))
  BY <1>6 DEF IdsOf, QueuedOnce
<1>9. StateOK(t, s2)
  BY <1>7, <1>8 DEF StateOK
<1>10. Fewer(s, s2)
  BY <1>7, <1>8 DEF Fewer, Holds, Serves
<1> QED
  BY <1>7, <1>9, <1>10 DEF Quiet

-----------------------------------------------------------------------------
(* What a step does to all threads.                                        *)

(* Every thread is quiet.                                                  *)
LEMMA QuietStep ==
  ASSUME NEW f, NEW d, NEW c, NEW n, Good(f, d, c, n),
         NEW g, g = [v \in Threads |-> g[v]],
         \A v \in Threads : Quiet(v, f[v], g[v]),
         NEW m \in 0 .. MaxCalls, m >= n
  PROVE  Good(g, d, c, m)
<1>1. n \in Nat /\ m \in Nat
  BY DEF Good
<1>2. /\ \A v \in Threads : StateOK(v, g[v]) /\ Holds(g[v]) \subseteq Holds(f[v])
      /\ \A v, u \in Threads : \A id : Serves(g[v], u, id) => Serves(f[v], u, id)
      /\ \A v \in Threads : \A to, id :
           Waits(f[v].stack, to, id) => Waits(g[v].stack, to, id)
  BY DEF Quiet, Fewer
<1>3. \A v \in Threads : g[v] \in ThreadState
  BY <1>2 DEF StateOK
<1>4. g \in [Threads -> ThreadState]
  BY <1>3
<1>5. Awaited(g)
  BY <1>2 DEF Good, Awaited
<1>6. \A v \in Threads : Holds(f[v]) \subseteq Ids
  <2> SUFFICES ASSUME NEW v \in Threads PROVE Holds(f[v]) \subseteq Ids
    OBVIOUS
  <2>1. StateOK(v, f[v])
    BY DEF Good
  <2> QED
    BY <2>1, HeldAreIds
<1>7. Accounted(g, d, c, m)
  <2>1. Accounted(f, d, c, n)
    BY DEF Good
  <2>2. \A v, u \in Threads : v # u => Holds(g[v]) \cap Holds(g[u]) = {}
    BY <1>2, <2>1 DEF Accounted
  <2>3. d \cap c = {} /\ \A v \in Threads : Holds(g[v]) \cap (d \cup c) = {}
    BY <1>2, <2>1 DEF Accounted
  <2>4. \A id \in Ids : id <= n + 1 => id <= m + 1
    BY <1>1, CallsAssumption DEF Ids
  <2>5. \A v \in Threads : \A id \in Holds(g[v]) : id <= m + 1
    BY <1>2, <1>6, <2>1, <2>4 DEF Accounted
  <2>6. \A id \in d \cup c : id <= m + 1
    BY <2>1, <2>4 DEF Accounted, Good
  <2> QED
    BY <2>2, <2>3, <2>5, <2>6 DEF Accounted
<1> QED
  BY <1>2, <1>4, <1>5, <1>7 DEF Good

(* One thread takes a quiet step.                                          *)
LEMMA OneQuiet ==
  ASSUME NEW f, NEW d, NEW c, NEW n, Good(f, d, c, n), NEW t \in Threads,
         NEW s2, Quiet(t, f[t], s2), NEW g, g = [f EXCEPT ![t] = s2]
  PROVE  Good(g, d, c, n)
<1>1. f \in [Threads -> ThreadState] /\ n \in 0 .. MaxCalls /\ n \in Int
  BY DEF Good
<1>2. /\ g = [v \in Threads |-> g[v]] /\ g[t] = s2
      /\ \A v \in Threads : v # t => g[v] = f[v]
  BY <1>1
<1>3. \A v \in Threads : Quiet(v, f[v], g[v])
  <2> SUFFICES ASSUME NEW v \in Threads PROVE Quiet(v, f[v], g[v])
    OBVIOUS
  <2>1. CASE v = t
    BY <1>2, <2>1
  <2>2. CASE v # t
    <3>1. StateOK(v, f[v])
      BY DEF Good
    <3> QED
      BY <1>2, <2>2, <3>1, QuietSame
  <2> QED
    BY <2>1, <2>2
<1>4. n >= n
  BY <1>1
<1> QED
  BY <1>1, <1>2, <1>3, <1>4, QuietStep

(* Nobody serves a Send that is not waiting.                               *)
LEMMA AwaitedStep ==
  ASSUME NEW f, Awaited(f), NEW g,
         \A v, u \in Threads : \A j \in Ids : u # v /\ Serves(g[v], u, j) =>
           \/ Serves(f[v], u, j) /\ (Waits(f[u].stack, v, j) =>
                                       Waits(g[u].stack, v, j))
           \/ Waits(g[u].stack, v, j)
  PROVE  Awaited(g)
BY DEF Awaited

(* Message id comes to another place, and to one only.                     *)
Placed(g, id, d, c) ==
  /\ \A u, v \in Threads : id \in Holds(g[u]) /\ id \in Holds(g[v]) => u = v
  /\ ~(id \in d /\ id \in c)
  /\ \A v \in Threads : id \in Holds(g[v]) => id \notin d /\ id \notin c

(* A step that moves message id, from the threads f to the threads g.       *)
Moved(f, n, g, id, d, c, d2, c2, m) ==
  /\ g = [v \in Threads |-> g[v]] /\ id \in Ids
  /\ \A v \in Threads : StateOK(v, g[v])
  /\ \A v \in Threads : Holds(g[v]) \subseteq Holds(f[v]) \cup {id}
  /\ d2 \subseteq d \cup {id} /\ c2 \subseteq c \cup {id}
  /\ Placed(g, id, d2, c2)
  /\ m \in 0 .. MaxCalls /\ m >= n /\ id <= m + 1
  /\ Awaited(g)

LEMMA MovedStep ==
  ASSUME NEW f, NEW d, NEW c, NEW n, Good(f, d, c, n),
         NEW g, NEW id, NEW d2, NEW c2, NEW m,
         Moved(f, n, g, id, d, c, d2, c2, m)
  PROVE  Good(g, d2, c2, m)
<1>0. /\ g = [v \in Threads |-> g[v]] /\ id \in Ids
      /\ \A v \in Threads : StateOK(v, g[v])
      /\ \A v \in Threads : Holds(g[v]) \subseteq Holds(f[v]) \cup {id}
      /\ d2 \subseteq d \cup {id} /\ c2 \subseteq c \cup {id}
      /\ Placed(g, id, d2, c2)
      /\ m \in 0 .. MaxCalls /\ m >= n /\ id <= m + 1
      /\ Awaited(g)
  BY DEF Moved
<1>1. n \in Nat /\ m \in Nat /\ d \subseteq Ids /\ c \subseteq Ids
  BY <1>0 DEF Good
<1>2. \A v \in Threads : g[v] \in ThreadState
  BY <1>0 DEF StateOK
<1>3. g \in [Threads -> ThreadState]
  BY <1>0, <1>2
<1>4. \A v \in Threads : Holds(g[v]) \subseteq Ids
  BY <1>0, HeldAreIds
<1>5. Accounted(g, d2, c2, m)
  <2>1. Accounted(f, d, c, n)
    BY DEF Good
  <2>2. \A v, u \in Threads : v # u => Holds(g[v]) \cap Holds(g[u]) = {}
    BY <1>0, <2>1 DEF Accounted, Placed
  <2>3. d2 \cap c2 = {}
    BY <1>0, <2>1 DEF Accounted, Placed
  <2>4. \A v \in Threads : Holds(g[v]) \cap (d2 \cup c2) = {}
    BY <1>0, <2>1 DEF Accounted, Placed
  <2>5. \A j \in Ids : j <= n + 1 => j <= m + 1
    BY <1>0, <1>1, CallsAssumption DEF Ids
  <2>6. \A v \in Threads : \A j \in Holds(g[v]) : j <= m + 1
    BY <1>0, <1>4, <2>1, <2>5 DEF Accounted
  <2>7. \A j \in d2 \cup c2 : j <= m + 1
    BY <1>0, <1>1, <2>1, <2>5 DEF Accounted
  <2> QED
    BY <2>2, <2>3, <2>4, <2>6, <2>7 DEF Accounted
<1> QED
  BY <1>0, <1>1, <1>3, <1>5 DEF Good

-----------------------------------------------------------------------------
(* The steps, one by one.                                                  *)

LEMMA ThreadFacts ==
  ASSUME ThreadInv, NEW t \in Threads
  PROVE  /\ StateOK(t, th[t]) /\ th \in [Threads -> ThreadState]
         /\ Running(t) => /\ th[t].stack # <<>>
                          /\ Top(t) = th[t].stack[Len(th[t].stack)]
                          /\ Top(t) \in Frame
<1>1. StateOK(t, th[t]) /\ th \in [Threads -> ThreadState]
  BY DEF ThreadInv, Good
<1>2. Running(t) => /\ th[t].stack # <<>>
                    /\ Top(t) = th[t].stack[Len(th[t].stack)]
  BY DEF Running, Top, Last
<1>3. Running(t) => th[t].stack[Len(th[t].stack)] \in Frame
  BY <1>1, <1>2, StateFields
<1> QED
  BY <1>1, <1>2, <1>3

(* A step that only concerns the state of t.                               *)
LEMMA QuietAction ==
  ASSUME ThreadInv, NEW t \in Threads, NEW s2, Quiet(t, th[t], s2),
         th' = [th EXCEPT ![t] = s2], UNCHANGED <<calls, done, cleared>>
  PROVE  ThreadInv'
<1>1. Good(th, done, cleared, calls)
  BY DEF ThreadInv
<1>2. Good(th', done, cleared, calls)
  BY <1>1, OneQuiet
<1>3. Good(th', done', cleared', calls')
  BY <1>2
<1> QED
  BY <1>3 DEF ThreadInv

LEMMA HandlerEnters ==
  ASSUME NEW t, NEW f, NEW id \in Ids, NEW from \in Threads \cup {NoSource},
         f.call = "Send" => from = f.to
  PROVE  /\ CanEnter(t, f, OnMessage(id, from))
         /\ OnMessage(id, from).id = id /\ OnMessage(id, from).from = from
         /\ OnMessage(id, from).call = "OnMessage"
<1> DEFINE g == OnMessage(id, from)
<1>1. g \in HandlerFrame /\ g.id = id /\ g.from = from /\ g.call = "OnMessage"
  BY DEF OnMessage, HandlerFrame
<1> HIDE DEF g
<1>2. CanEnter(t, f, g)
  BY <1>1 DEF CanEnter, Frame, Active
<1> QED
  BY <1>1, <1>2 DEF g

LEMMA ReceiveSendsStep ==
  ASSUME ThreadInv, NEW t \in Threads, ReceiveSends(t)
  PROVE  ThreadInv'
<1>1. PICK s : s = th[t]
  OBVIOUS
<1>2. PICK top : top = Top(t)
  OBVIOUS
<1>3. /\ StateOK(t, s) /\ s.stack # <<>> /\ top = s.stack[Len(s.stack)]
      /\ top \in Frame /\ top.pc = "receive"
  BY <1>1, <1>2, ThreadFacts DEF ReceiveSends
<1>4. top.call = "ProcessMessages" \/ top.call = "Send"
  BY <1>3, FrameFields DEF HandlerFrame, PostingFrame
<1>5. PICK i : i = FromSource(t, Source(t))
  OBVIOUS
<1>6. UNCHANGED <<calls, done, cleared>>
  BY DEF ReceiveSends
<1>7. CASE i # 0
  <2>1. s \in ThreadState /\ s.sendlist \in Seq(SentMsg) /\ Len(s.sendlist) \in Nat
    BY <1>3, StateFields, LenProperties
  <2>2. /\ i \in 1 .. Len(s.sendlist)
        /\ Source(t) = NoSource \/ s.sendlist[i].thread = Source(t)
    <3>1. PICK I : I = {j \in 1 .. Len(s.sendlist) :
                          \/ Source(t) = NoSource
                          \/ s.sendlist[j].thread = Source(t)}
      OBVIOUS
    <3>2. i = IF I # {} THEN Min(I) ELSE 0
      BY <1>1, <1>5, <3>1 DEF FromSource, SelectInSeq
    <3> QED
      <4>1. I # {} /\ I \in SUBSET Nat
        BY <1>7, <3>1, <3>2
      <4>2. i \in I
        BY <3>2, <4>1, MinIsLeast
      <4> QED
        BY <3>1, <4>2
  <2>3. PICK m : m = s.sendlist[i]
    OBVIOUS
  <2>4. PICK s1 : s1 = PopSend(s, i)
    OBVIOUS
  <2>5. /\ Quiet(t, s, s1) /\ s1.stack = s.stack
        /\ m \in SentMsg /\ m.thread # t
        /\ InList(s.sendlist, m.thread, m.id)
        /\ m.id \in Holds(s) /\ m.id \notin Holds(s1)
    BY <1>3, <2>2, <2>3, <2>4, PopSent
  <2>6. m.id \in Ids /\ m.thread \in Threads
    BY <2>5 DEF SentMsg
  <2>7. top.call = "Send" => m.thread = top.to
    <3> SUFFICES ASSUME top.call = "Send" PROVE m.thread = top.to
      OBVIOUS
    <3>1. top.to \in Threads
      BY <1>3, FrameFields DEF SendingFrame
    <3>2. Source(t) = top.to
      BY <1>2 DEF Source
    <3> QED
      BY <2>2, <2>3, <3>1, <3>2, ThreadsAssumption
  <2>8. PICK g : g = OnMessage(m.id, m.thread)
    OBVIOUS
  <2>9. /\ CanEnter(t, top, g) /\ g.id = m.id /\ g.from = m.thread
    BY <2>6, <2>7, <2>8, HandlerEnters
  <2>10. PICK s2 : s2 = Enter(s1, g)
    OBVIOUS
  <2>11. StateOK(t, s1) /\ s1.stack # <<>> /\ CanEnter(t, s1.stack[Len(s1.stack)], g)
         /\ g.id \notin Holds(s1)
    BY <1>3, <2>5, <2>9 DEF Quiet
  <2>12. Began(t, s1, g, s2)
    BY <2>10, <2>11, EnterState
  <2>13. Quiet(t, s, s2)
    <3>1. StateOK(t, s2) /\ Holds(s2) \subseteq Holds(s)
      BY <2>5, <2>9, <2>12 DEF Began, Quiet, Fewer
    <3>2. \A from \in Threads : \A id : Serves(s1, from, id) => Serves(s, from, id)
      BY <2>5 DEF Quiet, Fewer
    <3>3. \A from \in Threads : \A id : Serves(s2, from, id) => Serves(s, from, id)
      BY <2>5, <2>9, <2>12, <3>2 DEF Began, Serves
    <3>4. \A to, id : Waits(s.stack, to, id) => Waits(s2.stack, to, id)
      BY <2>5, <2>12 DEF Began, Quiet
    <3> QED
      BY <3>1, <3>3, <3>4 DEF Quiet, Fewer
  <2>14. th' = [th EXCEPT ![t] = s2]
    BY <1>1, <1>5, <1>7, <2>3, <2>4, <2>8, <2>10 DEF ReceiveSends
  <2> QED
    BY <1>1, <1>6, <2>13, <2>14, QuietAction
<1>8. CASE i = 0
  <2>1. PICK pc : pc = IF top.call = "Send" THEN "wait" ELSE "posted"
    OBVIOUS
  <2>2. CanGo(top, pc)
    BY <1>4, <2>1 DEF CanGo
  <2>3. Quiet(t, s, Go(s, pc))
    BY <1>3, <2>2, QuietGo
  <2>4. th' = [th EXCEPT ![t] = Go(s, pc)]
    BY <1>1, <1>2, <1>5, <1>8, <2>1 DEF ReceiveSends
  <2> QED
    BY <1>1, <1>6, <2>3, <2>4, QuietAction
<1> QED
  BY <1>7, <1>8


LEMMA GetPostedStep ==
  ASSUME ThreadInv, NEW t \in Threads, GetPosted(t)
  PROVE  ThreadInv'
<1>1. PICK s0 : s0 = th[t]
  OBVIOUS
<1>2. PICK s : s = TakeDue(s0)
  OBVIOUS
<1>3. PICK top : top = s0.stack[Len(s0.stack)]
  OBVIOUS
<1>4. PICK q : q = s.msgq
  OBVIOUS
<1>5. PICK b : b = (s.dmsgq # <<>>)
  OBVIOUS
<1>6. b \in BOOLEAN
  BY <1>5
<1>7. /\ StateOK(t, s0) /\ s0.stack # <<>> /\ top = Top(t)
      /\ top \in Frame /\ top.call = "ProcessMessages"
  BY <1>1, <1>3, ThreadFacts DEF GetPosted, At
<1>8. Quiet(t, s0, s) /\ s.stack = s0.stack
  BY <1>2, <1>7, JoinDue
<1>9. StateOK(t, s) /\ s.stack # <<>> /\ top = s.stack[Len(s.stack)]
  BY <1>3, <1>7, <1>8 DEF Quiet
<1>10. UNCHANGED <<calls, done, cleared>>
  BY DEF GetPosted
<1>11. th' = [th EXCEPT ![t] =
                IF q = <<>>
                THEN [Go(s, "quit") EXCEPT !.stack[Len(s.stack)].timed = b]
                ELSE Enter([Go(s, "receive") EXCEPT !.msgq = Tail(q)],
                           OnMessage(Head(q), NoSource))]
  BY <1>1, <1>2, <1>4, <1>5 DEF GetPosted
<1>12. CASE q = <<>>
  <2>1. PICK s1 : s1 = Go(s, "quit")
    OBVIOUS
  <2>2. CanGo(top, "quit")
    BY <1>7 DEF CanGo
  <2>3. /\ Quiet(t, s, s1) /\ s1.stack # <<>> /\ Len(s1.stack) = Len(s.stack)
        /\ s1.stack[Len(s1.stack)] = [top EXCEPT !.pc = "quit"]
    BY <1>9, <2>1, <2>2, QuietGo
  <2>4. PICK g : g = [s1.stack[Len(s1.stack)] EXCEPT !.timed = b]
    OBVIOUS
  <2>5. GoesOn(s1.stack[Len(s1.stack)], g)
    <3>1. top \in LoopFrame
      BY <1>7, FrameFields
    <3>2. s1.stack[Len(s1.stack)] \in LoopFrame /\ s1.stack[Len(s1.stack)].pc = "quit"
      BY <2>3, <3>1 DEF LoopFrame
    <3>3. g \in LoopFrame /\ g.pc = "quit"
      BY <1>6, <2>4, <3>2 DEF LoopFrame
    <3> QED
      BY <3>2, <3>3 DEF GoesOn, Frame, LoopFrame
  <2>6. PICK s2 : s2 = [s1 EXCEPT !.stack[Len(s1.stack)] = g]
    OBVIOUS
  <2>7. StateOK(t, s1)
    BY <2>3 DEF Quiet
  <2>8. Quiet(t, s1, s2)
    BY <2>3, <2>5, <2>6, <2>7, QuietTop
  <2>9. Quiet(t, s0, s2)
    BY <1>8, <2>3, <2>8, QuietTwice
  <2>10. th' = [th EXCEPT ![t] = s2]
    <3>1. s2 = [s1 EXCEPT !.stack[Len(s.stack)].timed = b]
      BY <2>3, <2>4, <2>6
    <3> QED
      BY <1>11, <1>12, <2>1, <3>1
  <2> QED
    BY <1>1, <1>10, <2>9, <2>10, QuietAction
<1>13. CASE q # <<>>
  <2>1. PICK s1 : s1 = Go(s, "receive")
    OBVIOUS
  <2>2. CanGo(top, "receive")
    BY <1>7 DEF CanGo
  <2>3. /\ Quiet(t, s, s1) /\ s1.stack # <<>> /\ s1.msgq = q
        /\ s1.stack[Len(s1.stack)] = [top EXCEPT !.pc = "receive"]
    BY <1>4, <1>9, <2>1, <2>2, QuietGo
  <2>4. s1.stack[Len(s1.stack)].call = "ProcessMessages"
    <3>1. top \in LoopFrame
      BY <1>7, FrameFields
    <3> QED
      BY <2>3, <3>1 DEF LoopFrame
  <2>5. StateOK(t, s1)
    BY <2>3 DEF Quiet
  <2>6. PICK s2 : s2 = [s1 EXCEPT !.msgq = Tail(s1.msgq)]
    OBVIOUS
  <2>7. /\ Quiet(t, s1, s2) /\ s2.stack = s1.stack
        /\ Head(s1.msgq) \in Ids
        /\ Head(s1.msgq) \in Holds(s1) /\ Head(s1.msgq) \notin Holds(s2)
    BY <1>13, <2>3, <2>5, <2>6, TakePosted
  <2>8. PICK g : g = OnMessage(Head(q), NoSource)
    OBVIOUS
  <2>9. /\ CanEnter(t, s2.stack[Len(s2.stack)], g) /\ g.id = Head(q)
        /\ g.from = NoSource
    <3>1. PICK f : f = s2.stack[Len(s2.stack)]
      OBVIOUS
    <3>2. Head(q) \in Ids /\ f.call # "Send"
      BY <2>3, <2>4, <2>7, <3>1
    <3>3. /\ CanEnter(t, f, OnMessage(Head(q), NoSource))
          /\ OnMessage(Head(q), NoSource).id = Head(q)
          /\ OnMessage(Head(q), NoSource).from = NoSource
      BY <3>2, HandlerEnters
    <3> QED
      BY <2>8, <3>1, <3>3
  <2>10. PICK s3 : s3 = Enter(s2, g)
    OBVIOUS
  <2>11. StateOK(t, s2) /\ s2.stack # <<>> /\ g.id \notin Holds(s2)
    BY <2>3, <2>7, <2>9 DEF Quiet
  <2>12. Began(t, s2, g, s3)
    BY <2>9, <2>10, <2>11, EnterState
  <2>13. Quiet(t, s1, s3)
    <3>1. StateOK(t, s3) /\ Holds(s3) \subseteq Holds(s1)
      BY <2>3, <2>7, <2>9, <2>12 DEF Began, Quiet, Fewer
    <3>2. \A from \in Threads : \A id : Serves(s2, from, id) => Serves(s1, from, id)
      BY <2>7 DEF Quiet, Fewer
    <3>3. \A from \in Threads : \A id : Serves(s3, from, id) => Serves(s1, from, id)
      BY <2>9, <2>12, <3>2, ThreadsAssumption DEF Began
    <3>4. \A to, id : Waits(s1.stack, to, id) => Waits(s3.stack, to, id)
      BY <2>7, <2>12 DEF Began, Quiet
    <3> QED
      BY <3>1, <3>3, <3>4 DEF Quiet, Fewer
  <2>14. Quiet(t, s0, s3)
    BY <1>8, <2>3, <2>13, QuietTwice
  <2>15. th' = [th EXCEPT ![t] = s3]
    BY <1>11, <1>13, <2>1, <2>3, <2>6, <2>8, <2>10
  <2> QED
    BY <1>1, <1>10, <2>14, <2>15, QuietAction
<1> QED
  BY <1>12, <1>13

LEMMA CheckQuittingStep ==
  ASSUME ThreadInv, NEW t \in Threads, CheckQuitting(t)
  PROVE  ThreadInv'
<1>1. PICK s : s = th[t]
  OBVIOUS
<1>2. PICK top : top = s.stack[Len(s.stack)]
  OBVIOUS
<1>3. /\ StateOK(t, s) /\ s.stack # <<>> /\ top.call = "ProcessMessages"
  BY <1>1, <1>2, ThreadFacts DEF CheckQuitting, At
<1>4. UNCHANGED <<calls, done, cleared>>
  BY DEF CheckQuitting
<1>5. CASE s.stop
  <2>1. Quiet(t, s, Return(s))
    BY <1>2, <1>3, QuietReturn
  <2>2. th' = [th EXCEPT ![t] = Return(s)]
    BY <1>1, <1>5 DEF CheckQuitting
  <2> QED
    BY <1>1, <1>4, <2>1, <2>2, QuietAction
<1>6. CASE ~s.stop
  <2>1. Quiet(t, s, Go(s, "wait"))
    BY <1>2, <1>3, QuietGo DEF CanGo
  <2>2. th' = [th EXCEPT ![t] = Go(s, "wait")]
    BY <1>1, <1>6 DEF CheckQuitting
  <2> QED
    BY <1>1, <1>4, <2>1, <2>2, QuietAction
<1> QED
  BY <1>5, <1>6

LEMMA WaitStep ==
  ASSUME ThreadInv, NEW t \in Threads, Wait(t)
  PROVE  ThreadInv'
<1>1. PICK s : s = th[t]
  OBVIOUS
<1>2. PICK s1 : s1 = [s EXCEPT !.event = FALSE]
  OBVIOUS
<1>3. /\ StateOK(t, s) /\ s.stack # <<>> /\ s \in ThreadState
      /\ s.stack[Len(s.stack)].call = "ProcessMessages"
      /\ s.stack[Len(s.stack)] \in LoopFrame
  BY <1>1, ThreadFacts, StateFields, FrameFields DEF Wait, At
<1>4. Quiet(t, s, s1)
  BY <1>2, <1>3, QuietEvent
<1>5. s1.stack = s.stack /\ StateOK(t, s1)
  BY <1>2, <1>3, <1>4 DEF Quiet, ThreadState
<1>6. PICK top : top = s1.stack[Len(s1.stack)]
  OBVIOUS
<1>7. CanGo(top, "receive")
  BY <1>3, <1>5, <1>6 DEF CanGo
<1>8. PICK s2 : s2 = Go(s1, "receive")
  OBVIOUS
<1>9. /\ Quiet(t, s1, s2) /\ s2.stack # <<>> /\ Len(s2.stack) = Len(s1.stack)
      /\ s2.stack[Len(s2.stack)] = [top EXCEPT !.pc = "receive"]
  BY <1>3, <1>5, <1>6, <1>7, <1>8, QuietGo
<1>10. PICK h : h = s2.stack[Len(s2.stack)]
  OBVIOUS
<1>11. h \in LoopFrame /\ h.pc = "receive"
  BY <1>3, <1>5, <1>6, <1>9, <1>10 DEF LoopFrame
<1>12. PICK g : g = [h EXCEPT !.timed = FALSE]
  OBVIOUS
<1>13. GoesOn(h, g)
  <2>1. g \in LoopFrame /\ g.pc = "receive"
    BY <1>11, <1>12 DEF LoopFrame
  <2> QED
    BY <1>11, <2>1 DEF GoesOn, Frame, LoopFrame
<1>14. PICK s3 : s3 = [s2 EXCEPT !.stack[Len(s2.stack)] = g]
  OBVIOUS
<1>15. StateOK(t, s2)
  BY <1>9 DEF Quiet
<1>16. Quiet(t, s2, s3)
  BY <1>9, <1>10, <1>13, <1>14, <1>15, QuietTop
<1>17. Quiet(t, s, s3)
  BY <1>4, <1>9, <1>16, QuietTwice
<1>18. s3 = [s2 EXCEPT !.stack[Len(s.stack)].timed = FALSE]
  BY <1>5, <1>9, <1>10, <1>12, <1>14
<1>19. th' = [th EXCEPT ![t] = s3] /\ UNCHANGED <<calls, done, cleared>>
  BY <1>1, <1>2, <1>8, <1>18 DEF Wait
<1> QED
  BY <1>1, <1>17, <1>19, QuietAction


(* A step of several threads, each of them quiet.                          *)
LEMMA QuietActions ==
  ASSUME ThreadInv, NEW g, g = [v \in Threads |-> g[v]],
         \A v \in Threads : Quiet(v, th[v], g[v]),
         th' = g, calls' \in 0 .. MaxCalls, calls' >= calls,
         UNCHANGED <<done, cleared>>
  PROVE  ThreadInv'
<1>1. Good(th, done, cleared, calls)
  BY DEF ThreadInv
<1>2. Good(g, done, cleared, calls')
  BY <1>1, QuietStep
<1>3. Good(th', done', cleared', calls')
  BY <1>2
<1> QED
  BY <1>3 DEF ThreadInv

(* Threads are woken up in a quiet step.                                   *)
LEMMA QuietWakeUp ==
  ASSUME ThreadInv, NEW t \in Threads, NEW s2, Quiet(t, th[t], s2), NEW S,
         th' = WakeUp([th EXCEPT ![t] = s2], S),
         calls' \in 0 .. MaxCalls, calls' >= calls, UNCHANGED <<done, cleared>>
  PROVE  ThreadInv'
<1>1. PICK f : f = [th EXCEPT ![t] = s2]
  OBVIOUS
<1>2. PICK g : g = WakeUp(f, S)
  OBVIOUS
<1>3. th \in [Threads -> ThreadState]
  BY ThreadFacts
<1>4. g = [v \in Threads |-> g[v]]
  BY <1>2 DEF WakeUp
<1>5. ASSUME NEW v \in Threads PROVE Quiet(v, th[v], g[v])
  <2>1. Quiet(v, th[v], f[v])
    <3>1. CASE v = t
      BY <1>1, <1>3, <3>1
    <3>2. CASE v # t
      <4>1. StateOK(v, th[v]) /\ f[v] = th[v]
        BY <1>1, <1>3, <3>2, ThreadFacts
      <4> QED
        BY <4>1, QuietSame
    <3> QED
      BY <3>1, <3>2
  <2>2. CASE v \in S
    <3>1. g[v] = [f[v] EXCEPT !.event = TRUE]
      BY <1>2, <2>2 DEF WakeUp
    <3>2. StateOK(v, f[v])
      BY <2>1 DEF Quiet
    <3>3. Quiet(v, f[v], g[v])
      <4>1. TRUE \in BOOLEAN
        OBVIOUS
      <4>2. Quiet(v, f[v], [f[v] EXCEPT !.event = TRUE])
        BY <3>2, <4>1, QuietEvent, Zenon
      <4> QED
        BY <3>1, <4>2, Zenon
    <3> QED
      BY <2>1, <3>3, QuietTwice
  <2>3. CASE v \notin S
    <3>1. g[v] = f[v]
      BY <1>2, <2>3 DEF WakeUp
    <3> QED
      BY <2>1, <3>1
  <2> QED
    BY <2>2, <2>3
<1>6. th' = g
  BY <1>1, <1>2
<1> QED
  BY <1>4, <1>5, <1>6, QuietActions

LEMMA SameCalls ==
  ASSUME ThreadInv, calls' = calls
  PROVE  calls' \in 0 .. MaxCalls /\ calls' >= calls
BY DEF ThreadInv, Good

LEMMA SendWakeStep ==
  ASSUME ThreadInv, NEW t \in Threads, SendWake(t)
  PROVE  ThreadInv'
<1>1. PICK s : s = th[t]
  OBVIOUS
<1>2. PICK top : top = s.stack[Len(s.stack)]
  OBVIOUS
<1>3. /\ StateOK(t, s) /\ s.stack # <<>> /\ top.call = "Send"
  BY <1>1, <1>2, ThreadFacts DEF SendWake, At
<1>4. Quiet(t, s, Go(s, "check"))
  BY <1>2, <1>3, QuietGo DEF CanGo
<1>5. /\ th' = WakeUp([th EXCEPT ![t] = Go(s, "check")], {Top(t).to})
      /\ calls' = calls /\ UNCHANGED <<done, cleared>>
  BY <1>1 DEF SendWake
<1> QED
  BY <1>1, <1>4, <1>5, SameCalls, QuietWakeUp

LEMMA SendCheckStep ==
  ASSUME ThreadInv, NEW t \in Threads, SendCheck(t)
  PROVE  ThreadInv'
<1>1. PICK s : s = th[t]
  OBVIOUS
<1>2. PICK top : top = s.stack[Len(s.stack)]
  OBVIOUS
<1>3. /\ StateOK(t, s) /\ s.stack # <<>> /\ top.call = "Send" /\ top = Top(t)
  BY <1>1, <1>2, ThreadFacts DEF SendCheck, At
<1>4. calls' = calls /\ UNCHANGED <<done, cleared>>
  BY DEF SendCheck
<1>5. CASE top.ready
  <2>1. Quiet(t, s, Return(s))
    BY <1>2, <1>3, <1>5, QuietReturn
  <2>2. th' = WakeUp([th EXCEPT ![t] = Return(s)],
                     IF top.waited THEN {t} ELSE {})
    BY <1>1, <1>3, <1>5 DEF SendCheck
  <2> QED
    BY <1>1, <1>4, <2>1, <2>2, SameCalls, QuietWakeUp
<1>6. CASE ~top.ready
  <2>1. Quiet(t, s, Go(s, "receive"))
    BY <1>2, <1>3, QuietGo DEF CanGo
  <2>2. th' = [th EXCEPT ![t] = Go(s, "receive")]
    BY <1>1, <1>3, <1>6 DEF SendCheck
  <2> QED
    BY <1>1, <1>4, <2>1, <2>2, QuietAction
<1> QED
  BY <1>5, <1>6

LEMMA SendWaitStep ==
  ASSUME ThreadInv, NEW t \in Threads, SendWait(t)
  PROVE  ThreadInv'
<1>1. PICK s : s = th[t]
  OBVIOUS
<1>2. PICK s1 : s1 = [s EXCEPT !.event = FALSE]
  OBVIOUS
<1>3. /\ StateOK(t, s) /\ s.stack # <<>> /\ s \in ThreadState
      /\ s.stack[Len(s.stack)].call = "Send"
      /\ s.stack[Len(s.stack)] \in SendingFrame
  BY <1>1, ThreadFacts, StateFields, FrameFields DEF SendWait, At
<1>4. Quiet(t, s, s1)
  BY <1>2, <1>3, QuietEvent
<1>5. s1.stack = s.stack /\ StateOK(t, s1)
  BY <1>2, <1>3, <1>4 DEF Quiet, ThreadState
<1>6. PICK top : top = s1.stack[Len(s1.stack)]
  OBVIOUS
<1>7. CanGo(top, "check")
  BY <1>3, <1>5, <1>6 DEF CanGo
<1>8. PICK s2 : s2 = Go(s1, "check")
  OBVIOUS
<1>9. /\ Quiet(t, s1, s2) /\ s2.stack # <<>> /\ Len(s2.stack) = Len(s1.stack)
      /\ s2.stack[Len(s2.stack)] = [top EXCEPT !.pc = "check"]
  BY <1>3, <1>5, <1>6, <1>7, <1>8, QuietGo
<1>10. PICK h : h = s2.stack[Len(s2.stack)]
  OBVIOUS
<1>11. h \in SendingFrame /\ h.pc = "check"
  BY <1>3, <1>5, <1>6, <1>9, <1>10 DEF SendingFrame
<1>12. PICK g : g = [h EXCEPT !.waited = TRUE]
  OBVIOUS
<1>13. GoesOn(h, g)
  <2>1. /\ g \in SendingFrame /\ g.pc = "check" /\ g.id = h.id /\ g.to = h.to
        /\ g.ready = h.ready /\ g.call = "Send" /\ h.call = "Send"
    BY <1>11, <1>12 DEF SendingFrame
  <2> QED
    BY <2>1 DEF GoesOn, Frame
<1>14. PICK s3 : s3 = [s2 EXCEPT !.stack[Len(s2.stack)] = g]
  OBVIOUS
<1>15. StateOK(t, s2)
  BY <1>9 DEF Quiet
<1>16. Quiet(t, s2, s3)
  BY <1>9, <1>10, <1>13, <1>14, <1>15, QuietTop
<1>17. Quiet(t, s, s3)
  BY <1>4, <1>9, <1>16, QuietTwice
<1>18. s3 = [s2 EXCEPT !.stack[Len(s.stack)].waited = TRUE]
  BY <1>5, <1>9, <1>10, <1>12, <1>14
<1>19. th' = [th EXCEPT ![t] = s3] /\ UNCHANGED <<calls, done, cleared>>
  BY <1>1, <1>2, <1>8, <1>18 DEF SendWait
<1> QED
  BY <1>1, <1>17, <1>19, QuietAction

LEMMA PostWakeStep ==
  ASSUME ThreadInv, NEW t \in Threads, PostWake(t)
  PROVE  ThreadInv'
<1>1. PICK s : s = th[t]
  OBVIOUS
<1>2. PICK top : top = s.stack[Len(s.stack)]
  OBVIOUS
<1>3. /\ StateOK(t, s) /\ s.stack # <<>> /\ top.call = "Post"
  BY <1>1, <1>2, ThreadFacts DEF PostWake, At
<1>4. Quiet(t, s, Return(s))
  BY <1>2, <1>3, QuietReturn
<1>5. /\ th' = WakeUp([th EXCEPT ![t] = Return(s)], {Top(t).to})
      /\ calls' = calls /\ UNCHANGED <<done, cleared>>
  BY <1>1 DEF PostWake
<1> QED
  BY <1>1, <1>4, <1>5, SameCalls, QuietWakeUp

LEMMA ExpireStep ==
  ASSUME ThreadInv, NEW t \in Threads, Expire(t)
  PROVE  ThreadInv'
<1>1. PICK s : s = th[t]
  OBVIOUS
<1>2. StateOK(t, s) /\ Len(s.dmsgq) \in Nat
  BY <1>1, ThreadFacts, StateFields, LenProperties
<1>3. PICK i : i = SelectInSeq(s.dmsgq, LAMBDA m : ~m.due)
  OBVIOUS
<1>4. i \in 0 .. Len(s.dmsgq)
  BY <1>2, <1>3, FirstNotDue
<1>5. /\ i # 0 /\ th' = [th EXCEPT ![t].dmsgq[i].due = TRUE]
      /\ UNCHANGED <<calls, done, cleared>>
  BY <1>1, <1>3 DEF Expire
<1>6. i \in 1 .. Len(s.dmsgq)
  BY <1>2, <1>4, <1>5
<1>7. PICK s2 : s2 = [s EXCEPT !.dmsgq[i].due = TRUE]
  OBVIOUS
<1>8. Quiet(t, s, s2)
  BY <1>2, <1>6, <1>7, QuietExpire
<1>9. th' = [th EXCEPT ![t] = s2]
  BY <1>1, <1>5, <1>7
<1> QED
  BY <1>1, <1>5, <1>8, <1>9, QuietAction

LEMMA CallQuitStep ==
  ASSUME ThreadInv, NEW t \in Threads, NEW u \in Threads, CallQuit(t, u)
  PROVE  ThreadInv'
<1>1. PICK s : s = th[u]
  OBVIOUS
<1>2. StateOK(u, s) /\ s \in ThreadState
  BY <1>1, ThreadFacts, StateFields
<1>3. PICK s2 : s2 = [s EXCEPT !.stop = TRUE]
  OBVIOUS
<1>4. /\ s2 \in ThreadState /\ s2.msgq = s.msgq /\ s2.dmsgq = s.dmsgq
      /\ s2.sendlist = s.sendlist /\ s2.stack = s.stack
  BY <1>2, <1>3 DEF ThreadState
<1>5. Quiet(u, s, s2)
  BY <1>2, <1>4, QuietFlags
<1>6. /\ th' = WakeUp([th EXCEPT ![u] = s2], {u})
      /\ calls' = calls + 1 /\ calls < MaxCalls /\ UNCHANGED <<done, cleared>>
  BY <1>1, <1>3 DEF CallQuit
<1>7. calls' \in 0 .. MaxCalls /\ calls' >= calls
  BY <1>6, CallsAssumption DEF ThreadInv, Good
<1> QED
  BY <1>1, <1>5, <1>6, <1>7, QuietWakeUp


(* A message that is not named yet is nowhere.                             *)
LEMMA FreshId ==
  ASSUME ThreadInv, calls < MaxCalls
  PROVE  /\ calls + 2 \in Ids /\ calls + 1 \in 0 .. MaxCalls /\ calls + 1 >= calls
         /\ calls + 2 <= calls + 1 + 1
         /\ calls + 2 \notin done /\ calls + 2 \notin cleared
         /\ \A v \in Threads : calls + 2 \notin Holds(th[v])
<1>1. calls \in Nat /\ MaxCalls \in Nat /\ calls \in 0 .. MaxCalls
  BY CallsAssumption DEF ThreadInv, Good
<1>2. Accounted(th, done, cleared, calls)
  BY DEF ThreadInv, Good
<1>3. ~(calls + 2 <= calls + 1)
  BY <1>1
<1>4. calls + 2 \in Ids /\ calls + 1 \in 0 .. MaxCalls /\ calls + 1 >= calls
      /\ calls + 2 <= calls + 1 + 1
  BY <1>1 DEF Ids
<1>5. calls + 2 \notin done /\ calls + 2 \notin cleared
  BY <1>2, <1>3 DEF Accounted
<1>6. \A v \in Threads : calls + 2 \notin Holds(th[v])
  BY <1>2, <1>3 DEF Accounted
<1> QED
  BY <1>4, <1>5, <1>6

(* A handler calls Send or Post.                                           *)
LEMMA NewCall ==
  ASSUME ThreadInv, NEW t \in Threads, th[t].stack # <<>>, calls < MaxCalls,
         NEW g, CanEnter(t, th[t].stack[Len(th[t].stack)], g),
         g.id = calls + 2, g.call = "OnMessage" => g.from = t,
         th' = [th EXCEPT ![t] = Enter(th[t], g)],
         calls' = calls + 1, UNCHANGED <<done, cleared>>
  PROVE  ThreadInv'
<1>1. PICK id : id = calls + 2
  OBVIOUS
<1>2. /\ id \in Ids /\ calls' \in 0 .. MaxCalls /\ calls' >= calls
      /\ id <= calls' + 1 /\ id \notin done /\ id \notin cleared
      /\ \A v \in Threads : id \notin Holds(th[v])
  BY <1>1, FreshId
<1>3. Good(th, done, cleared, calls) /\ th \in [Threads -> ThreadState]
  BY DEF ThreadInv, Good
<1>4. PICK s2 : s2 = Enter(th[t], g)
  OBVIOUS
<1>5. Began(t, th[t], g, s2)
  <2>1. StateOK(t, th[t]) /\ g.id \notin Holds(th[t])
    BY <1>1, <1>2, ThreadFacts
  <2> QED
    BY <1>4, <2>1, EnterState
<1>6. PICK f : f = th'
  OBVIOUS
<1>7. /\ f = [v \in Threads |-> f[v]] /\ f[t] = s2
      /\ \A v \in Threads : v # t => f[v] = th[v]
  BY <1>3, <1>4, <1>6
<1>8. \A v \in Threads : StateOK(v, f[v])
  <2> SUFFICES ASSUME NEW v \in Threads PROVE StateOK(v, f[v])
    OBVIOUS
  <2>1. CASE v = t
    BY <1>5, <1>7, <2>1 DEF Began
  <2>2. CASE v # t
    BY <1>7, <2>2, ThreadFacts
  <2> QED
    BY <2>1, <2>2
<1>9. \A v \in Threads : Holds(f[v]) \subseteq Holds(th[v]) \cup {id}
  BY <1>1, <1>5, <1>7 DEF Began
<1>10. Placed(f, id, done, cleared)
  BY <1>2, <1>7 DEF Placed
<1>11. Awaited(f)
  <2>1. Awaited(th)
    BY <1>3 DEF Good
  <2>2. \A v \in Threads : \A to, j : Waits(th[v].stack, to, j) => Waits(f[v].stack, to, j)
    BY <1>5, <1>7 DEF Began
  <2>3. \A v, u \in Threads : \A j : u # v /\ Serves(f[v], u, j) => Serves(th[v], u, j)
    BY <1>5, <1>7 DEF Began
  <2> QED
    BY <2>1, <2>2, <2>3, AwaitedStep
<1>12. Good(f, done, cleared, calls')
  <2>1. done \subseteq done \cup {id} /\ cleared \subseteq cleared \cup {id}
    OBVIOUS
  <2>2. Moved(th, calls, f, id, done, cleared, done, cleared, calls')
    BY <1>2, <1>7, <1>8, <1>9, <1>10, <1>11, <2>1 DEF Moved
  <2> QED
    BY <1>3, <2>2, MovedStep
<1>13. Good(th', done', cleared', calls')
  BY <1>6, <1>12
<1> QED
  BY <1>13 DEF ThreadInv

LEMMA CallSendStep ==
  ASSUME ThreadInv, NEW t \in Threads, NEW u \in Threads, CallSend(t, u)
  PROVE  ThreadInv'
<1>1. /\ th[t].stack # <<>> /\ th[t].stack[Len(th[t].stack)].call = "OnMessage"
  BY ThreadFacts DEF CallSend, At
<1>2. PICK top : top = th[t].stack[Len(th[t].stack)]
  OBVIOUS
<1>3. PICK id : id = calls + 2
  OBVIOUS
<1>4. PICK g : g = IF u = t THEN OnMessage(id, t) ELSE SendFrame(id, u)
  OBVIOUS
<1>5. /\ calls < MaxCalls /\ calls' = calls + 1 /\ UNCHANGED <<done, cleared>>
      /\ th' = [th EXCEPT ![t] = Enter(th[t], g)]
  BY <1>3, <1>4 DEF CallSend
<1>6. id \in Ids
  BY <1>3, <1>5, FreshId
<1>7. /\ CanEnter(t, top, g) /\ g.id = id
      /\ g.call = "OnMessage" => g.from = t
  <2>1. CASE u = t
    <3>1. top.call # "Send"
      BY <1>1, <1>2
    <3>2. CanEnter(t, top, OnMessage(id, t)) /\ OnMessage(id, t).id = id
          /\ OnMessage(id, t).from = t
      BY <1>6, <3>1, HandlerEnters
    <3> QED
      BY <1>4, <2>1, <3>2
  <2>2. CASE u # t
    <3>1. g = SendFrame(id, u)
      BY <1>4, <2>2
    <3>2. /\ g \in SendingFrame /\ g.id = id /\ g.to = u /\ g.ready = FALSE
          /\ g.call = "Send" /\ g.pc = "push"
      BY <1>6, <3>1 DEF SendFrame, SendingFrame
    <3> QED
      BY <1>1, <1>2, <2>2, <3>2 DEF CanEnter, Active, Frame
  <2> QED
    BY <2>1, <2>2
<1> QED
  BY <1>1, <1>2, <1>3, <1>5, <1>7, NewCall

LEMMA CallPostStep ==
  ASSUME ThreadInv, NEW t \in Threads, NEW u \in Threads,
         NEW delayed \in BOOLEAN, CallPost(t, u, delayed)
  PROVE  ThreadInv'
<1>1. /\ th[t].stack # <<>> /\ th[t].stack[Len(th[t].stack)].call = "OnMessage"
  BY ThreadFacts DEF CallPost, At
<1>2. PICK top : top = th[t].stack[Len(th[t].stack)]
  OBVIOUS
<1>3. PICK id : id = calls + 2
  OBVIOUS
<1>4. PICK g : g = PostFrame(id, u, delayed)
  OBVIOUS
<1>5. /\ calls < MaxCalls /\ calls' = calls + 1 /\ UNCHANGED <<done, cleared>>
      /\ th' = [th EXCEPT ![t] = Enter(th[t], g)]
  BY <1>3, <1>4 DEF CallPost
<1>6. id \in Ids
  BY <1>3, <1>5, FreshId
<1>7. g \in PostingFrame /\ g.id = id /\ g.call = "Post" /\ g.pc = "push"
  BY <1>4, <1>6 DEF PostFrame, PostingFrame
<1>8. CanEnter(t, top, g)
  BY <1>1, <1>2, <1>7 DEF CanEnter, Active, Frame
<1> QED
  BY <1>1, <1>2, <1>3, <1>5, <1>7, <1>8, NewCall


(* Who serves a message has it.                                            *)
LEMMA ServedIsHeld ==
  ASSUME NEW s, NEW from, NEW id, Serves(s, from, id)
  PROVE  id \in Holds(s)
<1>1. CASE InList(s.sendlist, from, id)
  BY <1>1 DEF InList, IdsOf, Holds
<1>2. CASE InHandler(s.stack, from, id)
  BY <1>2 DEF InHandler, StackIds, Active, Holds
<1> QED
  BY <1>1, <1>2 DEF Serves

(* A message that its only holder gives up is nowhere.                     *)
Nowhere(f, d, c, n, id) ==
  /\ \A v \in Threads : id \notin Holds(f[v])
  /\ id \notin d /\ id \notin c /\ id <= n + 1

LEMMA GivenUp ==
  ASSUME NEW f, NEW d, NEW c, NEW n, Good(f, d, c, n), NEW t \in Threads,
         NEW s2, Quiet(t, f[t], s2), NEW g, g = [f EXCEPT ![t] = s2],
         NEW id, id \in Holds(f[t]), id \notin Holds(s2)
  PROVE  Good(g, d, c, n) /\ Nowhere(g, d, c, n, id)
<1>1. Good(g, d, c, n)
  BY OneQuiet
<1>2. Accounted(f, d, c, n) /\ f \in [Threads -> ThreadState]
  BY DEF Good
<1>3. ASSUME NEW v \in Threads PROVE id \notin Holds(g[v])
  <2>1. CASE v = t
    BY <1>2, <2>1
  <2>2. CASE v # t
    <3>1. g[v] = f[v]
      BY <1>2, <2>2
    <3> QED
      BY <1>2, <2>2, <3>1 DEF Accounted
  <2> QED
    BY <2>1, <2>2
<1>4. id \notin d /\ id \notin c /\ id <= n + 1
  BY <1>2 DEF Accounted
<1> QED
  BY <1>1, <1>3, <1>4 DEF Nowhere

(* It is put into a queue of thread u.                                     *)
LEMMA JoinStep ==
  ASSUME NEW f, NEW d, NEW c, NEW n, Good(f, d, c, n),
         NEW id \in Ids, Nowhere(f, d, c, n, id), NEW u \in Threads,
         NEW s2, Joined(u, f[u], s2, id), NEW g, g = [f EXCEPT ![u] = s2],
         \A from \in Threads : \A j \in Ids :
           from # u /\ Serves(s2, from, j) /\ ~Serves(f[u], from, j) =>
             Waits(f[from].stack, u, j)
  PROVE  Good(g, d, c, n)
<1>1. f \in [Threads -> ThreadState] /\ n \in 0 .. MaxCalls /\ n \in Int /\ Awaited(f)
  BY DEF Good
<1>2. /\ g = [v \in Threads |-> g[v]] /\ g[u] = s2
      /\ \A v \in Threads : v # u => g[v] = f[v]
  BY <1>1
<1>3. ASSUME NEW v \in Threads PROVE StateOK(v, g[v])
  <2>1. CASE v = u
    BY <1>2, <2>1 DEF Joined
  <2>2. CASE v # u
    <3>1. StateOK(v, f[v])
      BY DEF Good
    <3> QED
      BY <1>2, <2>2, <3>1
  <2> QED
    BY <2>1, <2>2
<1>4. \A v \in Threads : Holds(g[v]) \subseteq Holds(f[v]) \cup {id}
  BY <1>2 DEF Joined
<1>5. Placed(g, id, d, c)
  BY <1>2 DEF Placed, Nowhere
<1>6. Awaited(g)
  <2>1. \A v \in Threads : g[v].stack = f[v].stack
    BY <1>2 DEF Joined
  <2>2. ASSUME NEW v \in Threads, NEW w \in Threads, NEW j \in Ids,
               w # v, Serves(g[v], w, j)
        PROVE  \/ Serves(f[v], w, j) /\ (Waits(f[w].stack, v, j) =>
                                           Waits(g[w].stack, v, j))
               \/ Waits(g[w].stack, v, j)
    <3>1. CASE v = u
      BY <1>2, <2>1, <2>2, <3>1
    <3>2. CASE v # u
      BY <1>2, <2>1, <2>2, <3>2
    <3> QED
      BY <3>1, <3>2
  <2> QED
    BY <1>1, <2>2, AwaitedStep
<1>7. n >= n /\ id <= n + 1 /\ d \subseteq d \cup {id} /\ c \subseteq c \cup {id}
  BY <1>1 DEF Nowhere
<1>8. Moved(f, n, g, id, d, c, d, c, n)
  BY <1>1, <1>2, <1>3, <1>4, <1>5, <1>6, <1>7 DEF Moved
<1> QED
  BY <1>8, MovedStep

(* It is done or cleared, and whoever waits for it is told so.             *)
LEMMA SettleStep ==
  ASSUME NEW f, NEW d, NEW c, NEW n, Good(f, d, c, n),
         NEW id \in Ids, Nowhere(f, d, c, n, id), NEW S,
         NEW g, g = SetReady(f, S, id),
         NEW d2, d2 \subseteq d \cup {id}, NEW c2, c2 \subseteq c \cup {id},
         ~(id \in d2 /\ id \in c2),
         NEW m \in 0 .. MaxCalls, m >= n, id <= m + 1
  PROVE  Good(g, d2, c2, m)
<1>1. f \in [Threads -> ThreadState] /\ Awaited(f)
  BY DEF Good
<1>2. g = [v \in Threads |-> g[v]]
  BY DEF SetReady
<1>3. \A v \in Threads : id \notin Holds(f[v])
  BY DEF Nowhere
<1>4. ASSUME NEW v \in Threads
      PROVE  /\ StateOK(v, g[v]) /\ Fewer(f[v], g[v])
             /\ \A to, j : Waits(f[v].stack, to, j) /\ j # id =>
                             Waits(g[v].stack, to, j)
  <2>1. StateOK(v, f[v])
    BY DEF Good
  <2>2. CASE v \in S
    <3>1. g[v] = [f[v] EXCEPT !.event = TRUE, !.stack = ReadyStack(@, id)]
      BY <2>2 DEF SetReady
    <3> QED
      BY <1>3, <2>1, <3>1, ReadyState
  <2>3. CASE v \notin S
    <3>1. g[v] = f[v]
      BY <2>3 DEF SetReady
    <3> QED
      BY <2>1, <3>1 DEF Fewer
  <2> QED
    BY <2>2, <2>3
<1>5. \A v \in Threads : Holds(g[v]) \subseteq Holds(f[v]) \cup {id}
  BY <1>4 DEF Fewer
<1>6. \A v \in Threads : id \notin Holds(g[v])
  BY <1>3, <1>4 DEF Fewer
<1>7. Placed(g, id, d2, c2)
  BY <1>6 DEF Placed
<1>8. Awaited(g)
  <2>1. ASSUME NEW v \in Threads, NEW w \in Threads, NEW j \in Ids,
               w # v, Serves(g[v], w, j)
        PROVE  \/ Serves(f[v], w, j) /\ (Waits(f[w].stack, v, j) =>
                                           Waits(g[w].stack, v, j))
               \/ Waits(g[w].stack, v, j)
    <3>1. j \in Holds(g[v])
      BY <2>1, ServedIsHeld
    <3>2. j # id
      BY <1>6, <3>1
    <3>3. Serves(f[v], w, j)
      BY <1>4, <2>1 DEF Fewer
    <3> QED
      BY <1>4, <3>2, <3>3
  <2> QED
    BY <1>1, <2>1, AwaitedStep
<1>9. \A v \in Threads : StateOK(v, g[v])
  BY <1>4
<1>10. Moved(f, n, g, id, d, c, d2, c2, m)
  BY <1>2, <1>5, <1>7, <1>8, <1>9 DEF Moved
<1> QED
  BY <1>10, MovedStep


LEMMA ActiveIsHeld ==
  ASSUME NEW t, NEW s, StateOK(t, s), s.stack # <<>>,
         NEW top, top = s.stack[Len(s.stack)], Active(top)
  PROVE  top.id \in Holds(s)
BY StateFields DEF StackIds, Holds

(* The innermost call of t queues its message.                             *)
LEMMA PushGivesUp ==
  ASSUME ThreadInv, NEW t \in Threads, th[t].stack # <<>>,
         NEW top, top = th[t].stack[Len(th[t].stack)],
         top.call \in {"Send", "Post"}, top.pc = "push",
         NEW f, f = [th EXCEPT ![t] = Go(@, "wake")]
  PROVE  /\ Good(f, done, cleared, calls)
         /\ Nowhere(f, done, cleared, calls, top.id)
         /\ top.id \in Ids /\ top.to \in Threads
<1>1. StateOK(t, th[t]) /\ Good(th, done, cleared, calls)
  BY ThreadFacts DEF ThreadInv
<1>2. PICK s2 : s2 = Go(th[t], "wake")
  OBVIOUS
<1>3. Active(top) /\ CanGo(top, "wake")
  BY DEF Active, CanGo
<1>4. Quiet(t, th[t], s2) /\ top.id \notin Holds(s2)
  BY <1>1, <1>2, <1>3, QuietGo
<1>5. top.id \in Holds(th[t])
  BY <1>1, <1>3, ActiveIsHeld
<1>6. f = [th EXCEPT ![t] = s2]
  BY <1>2
<1>7. Good(f, done, cleared, calls) /\ Nowhere(f, done, cleared, calls, top.id)
  BY <1>1, <1>4, <1>5, <1>6, GivenUp
<1>8. top.id \in Ids /\ top.to \in Threads
  BY <1>1, StateFields, FrameFields DEF SendingFrame, PostingFrame
<1> QED
  BY <1>7, <1>8

LEMMA SendPushStep ==
  ASSUME ThreadInv, NEW t \in Threads, SendPush(t)
  PROVE  ThreadInv'
<1>1. PICK top : top = th[t].stack[Len(th[t].stack)]
  OBVIOUS
<1>2. /\ th[t].stack # <<>> /\ StateOK(t, th[t]) /\ th \in [Threads -> ThreadState]
      /\ top = Top(t) /\ top.call = "Send" /\ top.pc = "push"
  BY <1>1, ThreadFacts DEF SendPush, At
<1>3. PICK f : f = [th EXCEPT ![t] = Go(@, "wake")]
  OBVIOUS
<1>4. /\ Good(f, done, cleared, calls)
      /\ Nowhere(f, done, cleared, calls, top.id)
      /\ top.id \in Ids /\ top.to \in Threads
  BY <1>1, <1>2, <1>3, PushGivesUp
<1>5. PICK u : u = top.to
  OBVIOUS
<1>6. PICK id : id = top.id
  OBVIOUS
<1>7. /\ u # t /\ ~top.ready
      /\ Len(th[t].stack) \in DOMAIN th[t].stack
  <2>1. Len(th[t].stack) \in DOMAIN th[t].stack /\ StackOK(t, th[t].stack)
    BY <1>2, StateFields
  <2> QED
    BY <1>1, <1>2, <1>5, <2>1 DEF StackOK
<1>8. PICK s2 : s2 = [f[u] EXCEPT !.sendlist =
                                    Append(@, [thread |-> t, id |-> id])]
  OBVIOUS
<1>9. StateOK(u, f[u]) /\ id \notin Holds(f[u]) /\ id \in Ids /\ u \in Threads
  BY <1>4, <1>5, <1>6 DEF Good, Nowhere
<1>10. /\ Joined(u, f[u], s2, id)
       /\ \A v, j : InList(s2.sendlist, v, j) =>
            InList(f[u].sendlist, v, j) \/ (v = t /\ j = id)
  <2>1. PICK s : s = f[u]
    OBVIOUS
  <2>2. StateOK(u, s) /\ id \notin Holds(s)
    BY <1>9, <2>1
  <2>3. s2 = [s EXCEPT !.sendlist = Append(@, [thread |-> t, id |-> id])]
    BY <1>8, <2>1
  <2>4. t # u
    BY <1>7
  <2>5. JoinedSent(u, s, s2, t, id)
    BY <1>9, <2>2, <2>3, <2>4, PushSent
  <2> QED
    BY <2>1, <2>5 DEF JoinedSent
<1>11. Waits(f[t].stack, u, id)
  <2>1. Waits(th[t].stack, u, id)
    BY <1>1, <1>2, <1>5, <1>6, <1>7 DEF Waits
  <2>2. CanGo(top, "wake")
    BY <1>2 DEF CanGo
  <2>3. Quiet(t, th[t], Go(th[t], "wake"))
    BY <1>1, <1>2, <2>2, QuietGo
  <2>4. f[t] = Go(th[t], "wake")
    BY <1>2, <1>3
  <2> QED
    BY <2>1, <2>3, <2>4 DEF Quiet
<1>12. ASSUME NEW from \in Threads, NEW j \in Ids,
              from # u, Serves(s2, from, j), ~Serves(f[u], from, j)
       PROVE  Waits(f[from].stack, u, j)
  <2>1. from = t /\ j = id
    BY <1>10, <1>12 DEF Serves, Joined
  <2> QED
    BY <1>11, <2>1
<1>13. PICK g : g = [f EXCEPT ![u] = s2]
  OBVIOUS
<1>14. Good(g, done, cleared, calls)
  BY <1>4, <1>5, <1>6, <1>10, <1>12, <1>13, JoinStep
<1>15. th' = g /\ UNCHANGED <<calls, done, cleared>>
  BY <1>2, <1>3, <1>5, <1>6, <1>8, <1>13 DEF SendPush
<1>16. Good(th', done', cleared', calls')
  BY <1>14, <1>15
<1> QED
  BY <1>16 DEF ThreadInv

LEMMA PostPushStep ==
  ASSUME ThreadInv, NEW t \in Threads, PostPush(t)
  PROVE  ThreadInv'
<1>1. PICK top : top = th[t].stack[Len(th[t].stack)]
  OBVIOUS
<1>2. /\ th[t].stack # <<>> /\ StateOK(t, th[t]) /\ th \in [Threads -> ThreadState]
      /\ top = Top(t) /\ top.call = "Post" /\ top.pc = "push"
  BY <1>1, ThreadFacts DEF PostPush, At
<1>3. PICK f : f = [th EXCEPT ![t] = Go(@, "wake")]
  OBVIOUS
<1>4. /\ Good(f, done, cleared, calls)
      /\ Nowhere(f, done, cleared, calls, top.id)
      /\ top.id \in Ids /\ top.to \in Threads
  BY <1>1, <1>2, <1>3, PushGivesUp
<1>5. PICK u : u = top.to
  OBVIOUS
<1>6. PICK id : id = top.id
  OBVIOUS
<1>7. /\ StateOK(u, f[u]) /\ id \notin Holds(f[u])
      /\ f[u] \in ThreadState /\ f \in [Threads -> ThreadState]
  BY <1>4, <1>5, <1>6 DEF Good, Nowhere
<1>8. ASSUME NEW s2, Joined(u, f[u], s2, id), s2.sendlist = f[u].sendlist,
             th' = [f EXCEPT ![u] = s2]
      PROVE  ThreadInv'
  <2>1. PICK g : g = [f EXCEPT ![u] = s2]
    OBVIOUS
  <2>2. \A from \in Threads : \A j \in Ids :
          from # u /\ Serves(s2, from, j) /\ ~Serves(f[u], from, j) =>
            Waits(f[from].stack, u, j)
    BY <1>8 DEF Serves, Joined
  <2>3. /\ Good(f, done, cleared, calls) /\ Joined(u, f[u], s2, id)
        /\ Nowhere(f, done, cleared, calls, id) /\ id \in Ids /\ u \in Threads
    BY <1>4, <1>5, <1>6, <1>8
  <2>6. Good(g, done, cleared, calls)
    BY <2>1, <2>2, <2>3, JoinStep
  <2>4. UNCHANGED <<calls, done, cleared>>
    BY DEF PostPush
  <2>5. Good(th', done', cleared', calls')
    BY <1>8, <2>1, <2>4, <2>6
  <2> QED
    BY <2>5 DEF ThreadInv
<1>9. CASE ~top.delayed
  <2>1. PICK s2 : s2 = [f[u] EXCEPT !.msgq = Append(@, id)]
    OBVIOUS
  <2>2. Joined(u, f[u], s2, id) /\ s2.sendlist = f[u].sendlist
    BY <1>4, <1>6, <1>7, <2>1, PushPosted
  <2>3. th' = [f EXCEPT ![u].msgq = Append(@, id)]
    BY <1>2, <1>3, <1>5, <1>6, <1>9 DEF PostPush
  <2>4. th' = [f EXCEPT ![u] = s2]
    BY <2>1, <2>3
  <2> QED
    BY <1>8, <2>2, <2>4
<1>10. CASE top.delayed
  <2>1. f[u].dmsgq = th[u].dmsgq
    <3>1. CASE u = t
      <4>2. PICK s1 : s1 = Go(th[t], "wake")
        OBVIOUS
      <4>3. PICK s : s = th[t]
        OBVIOUS
      <4>4. s1 = Go(s, "wake") /\ s \in ThreadState
        BY <1>2, <4>2, <4>3
      <4>5. s1.dmsgq = s.dmsgq
        BY <4>4 DEF Go, ThreadState
      <4> QED
        BY <1>2, <1>3, <3>1, <4>2, <4>3, <4>5
    <3>2. CASE u # t
      BY <1>2, <1>3, <1>4, <1>5, <3>2
    <3> QED
      BY <3>1, <3>2
  <2>2. PICK i \in DueCount(th[u].dmsgq) + 1..Len(th[u].dmsgq) + 1 :
          th' = [f EXCEPT ![u].dmsgq =
                             InsertAt(@, i, [id |-> id, due |-> FALSE])]
    BY <1>2, <1>3, <1>5, <1>6, <1>10 DEF PostPush
  <2>3. i \in 1 .. Len(f[u].dmsgq) + 1
    <3>1. Len(f[u].dmsgq) \in Nat
      BY <1>7, StateFields, LenProperties
    <3>2. DueCount(f[u].dmsgq) \in 0 .. Len(f[u].dmsgq)
      BY <3>1, DueCountType
    <3> QED
      BY <2>1, <2>2, <3>1, <3>2
  <2>4. PICK s2 : s2 = [f[u] EXCEPT !.dmsgq =
                                      InsertAt(@, i, [id |-> id, due |-> FALSE])]
    OBVIOUS
  <2>5. Joined(u, f[u], s2, id) /\ s2.sendlist = f[u].sendlist
    BY <1>4, <1>6, <1>7, <2>3, <2>4, PushDelayed
  <2>6. th' = [f EXCEPT ![u] = s2]
    BY <2>2, <2>4
  <2> QED
    BY <1>8, <2>5, <2>6
<1> QED
  BY <1>9, <1>10

LEMMA HandlerReturnsStep ==
  ASSUME ThreadInv, NEW t \in Threads, HandlerReturns(t)
  PROVE  ThreadInv'
<1>1. PICK h : h = th[t].stack[Len(th[t].stack)]
  OBVIOUS
<1>2. /\ th[t].stack # <<>> /\ StateOK(t, th[t]) /\ th \in [Threads -> ThreadState]
      /\ h = Top(t) /\ h.call = "OnMessage" /\ h \in Frame
  BY <1>1, ThreadFacts DEF HandlerReturns, At
<1>3. PICK id : id = h.id
  OBVIOUS
<1>4. PICK s2 : s2 = Return(th[t])
  OBVIOUS
<1>5. Active(h) /\ id \in Ids
  BY <1>2, <1>3, FrameFields DEF Active, HandlerFrame
<1>6. Quiet(t, th[t], s2) /\ id \notin Holds(s2)
  BY <1>1, <1>2, <1>3, <1>4, <1>5, QuietReturn
<1>7. id \in Holds(th[t])
  BY <1>1, <1>2, <1>3, <1>5, ActiveIsHeld
<1>8. Good(th, done, cleared, calls)
  BY DEF ThreadInv
<1>9. PICK f : f = [th EXCEPT ![t] = s2]
  OBVIOUS
<1>10. Good(f, done, cleared, calls) /\ Nowhere(f, done, cleared, calls, id)
  BY <1>6, <1>7, <1>8, <1>9, GivenUp
<1>11. /\ calls \in 0 .. MaxCalls /\ calls >= calls /\ id <= calls + 1
       /\ id \notin cleared
  BY <1>8, <1>10 DEF Good, Nowhere
<1>12. PICK S : S = IF h.from \in Threads \ {t} THEN {h.from} ELSE {}
  OBVIOUS
<1>13. PICK g : g = SetReady(f, S, id)
  OBVIOUS
<1>14. Good(g, done \cup {id}, cleared, calls)
  BY <1>5, <1>10, <1>11, <1>13, SettleStep
<1>15. th' = g
  <2>1. th' = IF h.from \in Threads \ {t} THEN SetReady(f, {h.from}, id) ELSE f
    BY <1>2, <1>3, <1>4, <1>9 DEF HandlerReturns
  <2>2. SetReady(f, {}, id) = f
    BY <1>2, <1>9 DEF SetReady
  <2> QED
    BY <1>12, <1>13, <2>1, <2>2
<1>16. done' = done \cup {id} /\ UNCHANGED <<calls, cleared>>
  BY <1>2, <1>3 DEF HandlerReturns
<1>17. Good(th', done', cleared', calls')
  BY <1>14, <1>15, <1>16
<1> QED
  BY <1>17 DEF ThreadInv

LEMMA CallClearStep ==
  ASSUME ThreadInv, NEW t \in Threads, NEW u \in Threads, NEW id \in Ids,
         CallClear(t, u, id)
  PROVE  ThreadInv'
<1>1. PICK S : S = {m.thread : m \in {n \in ToSet(th[u].sendlist) : n.id = id}}
  OBVIOUS
<1>2. PICK s2 : s2 = Without(th[u], id)
  OBVIOUS
<1>3. PICK f : f = [th EXCEPT ![u] = s2]
  OBVIOUS
<1>4. /\ id \in Queued(th[u]) /\ calls < MaxCalls /\ calls' = calls + 1
      /\ cleared' = cleared \cup {id} /\ done' = done
      /\ th' = SetReady(f, S, id)
  BY <1>1, <1>2, <1>3 DEF CallClear
<1>5. StateOK(u, th[u]) /\ Good(th, done, cleared, calls)
  BY ThreadFacts DEF ThreadInv
<1>6. Quiet(u, th[u], s2) /\ id \in Holds(th[u]) /\ id \notin Holds(s2)
  BY <1>2, <1>4, <1>5, WithoutState
<1>7. Good(f, done, cleared, calls) /\ Nowhere(f, done, cleared, calls, id)
  BY <1>3, <1>5, <1>6, GivenUp
<1>8. /\ calls' \in 0 .. MaxCalls /\ calls' >= calls /\ id <= calls' + 1
      /\ id \notin done
  <2>1. calls \in 0 .. MaxCalls /\ id <= calls + 1 /\ id \notin done
    BY <1>7 DEF Good, Nowhere
  <2> QED
    BY <1>4, <2>1, CallsAssumption DEF Ids
<1>9. PICK g : g = SetReady(f, S, id)
  OBVIOUS
<1>10. PICK c2 : c2 = cleared \cup {id}
  OBVIOUS
<1>11. PICK m : m = calls'
  OBVIOUS
<1>12. Good(g, done, c2, m)
  BY <1>7, <1>8, <1>9, <1>10, <1>11, SettleStep
<1>13. Good(th', done', cleared', calls')
  BY <1>4, <1>9, <1>10, <1>11, <1>12
<1> QED
  BY <1>13 DEF ThreadInv


-----------------------------------------------------------------------------
(* At the start, only the first thread has a message, which is posted.      *)
LEMMA InitialState ==
  ASSUME NEW t, NEW e \in BOOLEAN, NEW q, q = <<>> \/ q = << 1 >>,
         NEW s, s = [stop |-> FALSE, event |-> e, msgq |-> q,
                     dmsgq |-> <<>>, sendlist |-> <<>>,
                     stack |-> <<[ProcessMessages EXCEPT !.pc = "wait"]>>]
  PROVE  /\ StateOK(t, s) /\ Holds(s) \subseteq {1}
         /\ q = <<>> => Holds(s) = {}
         /\ \A from, id : ~Serves(s, from, id)
<1>1. PICK f : f = [ProcessMessages EXCEPT !.pc = "wait"]
  OBVIOUS
<1>2. f \in LoopFrame /\ f.call = "ProcessMessages"
  BY <1>1 DEF ProcessMessages, LoopFrame
<1>3. f \in Frame /\ ~Active(f)
  BY <1>2 DEF Frame, Active
<1>4. PICK st : st = <<f>>
  OBVIOUS
<1>5. st \in Seq(Frame) /\ DOMAIN st = {1} /\ st[1] = f
  BY <1>3, <1>4
<1>6. StackIds(st) = {} /\ \A from, id : ~InHandler(st, from, id)
  BY <1>2, <1>3, <1>5 DEF StackIds, InHandler
<1>7. StackOK(t, st)
  <2>1. 0 \notin DOMAIN st
    BY <1>5
  <2> QED
    BY <1>2, <1>3, <1>5, <2>1 DEF StackOK
<1>8. 1 \in Ids
  BY CallsAssumption DEF Ids
<1>9. /\ q \in Seq(Ids) /\ PostedOnce(q) /\ PostedIds(q) \subseteq {1}
      /\ q = <<>> => PostedIds(q) = {}
  <2>1. CASE q = <<>>
    BY <2>1, EmptySeq DEF PostedOnce, PostedIds
  <2>2. CASE q = << 1 >>
    <3>1. q \in Seq(Ids) /\ DOMAIN q = {1} /\ q[1] = 1
      BY <1>8, <2>2
    <3>2. q # <<>>
      BY <2>2
    <3> QED
      BY <3>1, <3>2 DEF PostedOnce, PostedIds
  <2> QED
    BY <2>1, <2>2
<1>10. PICK z : z = <<>>
  OBVIOUS
<1>11. /\ z \in Seq(DelayedMsg) /\ z \in Seq(SentMsg) /\ QueuedOnce(z)
       /\ SentByOthers(t, z) /\ IdsOf(z) = {}
       /\ \A from, id : ~InList(z, from, id)
  BY <1>10, EmptySeq DEF QueuedOnce, SentByOthers, IdsOf, InList
<1>12. s = [stop |-> FALSE, event |-> e, msgq |-> q, dmsgq |-> z,
            sendlist |-> z, stack |-> st]
  BY <1>1, <1>4, <1>10
<1>13. /\ s \in ThreadState /\ s.msgq = q /\ s.dmsgq = z
       /\ s.sendlist = z /\ s.stack = st
  BY <1>5, <1>9, <1>11, <1>12 DEF ThreadState
<1>14. StateOK(t, s)
  BY <1>6, <1>7, <1>9, <1>11, <1>13 DEF StateOK
<1>15. Holds(s) = PostedIds(q)
  BY <1>6, <1>11, <1>13 DEF Holds
<1>16. \A from, id : ~Serves(s, from, id)
  BY <1>6, <1>11, <1>13 DEF Serves
<1> QED
  BY <1>9, <1>14, <1>15, <1>16

LEMMA InitStep == Init => ThreadInv
<1> SUFFICES ASSUME Init PROVE ThreadInv
  OBVIOUS
<1>1. ASSUME NEW t \in Threads
      PROVE  /\ StateOK(t, th[t]) /\ Holds(th[t]) \subseteq {1}
             /\ t # First => Holds(th[t]) = {}
             /\ \A from, id : ~Serves(th[t], from, id)
  <2>1. PICK e : e = (t = First)
    OBVIOUS
  <2>2. PICK q : q = IF t = First THEN << 1 >> ELSE <<>>
    OBVIOUS
  <2>3. th[t] = [stop |-> FALSE, event |-> e, msgq |-> q,
                 dmsgq |-> <<>>, sendlist |-> <<>>,
                 stack |-> <<[ProcessMessages EXCEPT !.pc = "wait"]>>]
    BY <2>1, <2>2 DEF Init
  <2>4. e \in BOOLEAN
    BY <2>1
  <2>5. (q = <<>> \/ q = << 1 >>) /\ (t # First => q = <<>>)
    BY <2>2
  <2>6. /\ StateOK(t, th[t]) /\ Holds(th[t]) \subseteq {1}
        /\ q = <<>> => Holds(th[t]) = {}
        /\ \A from, id : ~Serves(th[t], from, id)
    BY <2>3, <2>4, <2>5, InitialState
  <2> QED
    BY <2>5, <2>6
<1>2. /\ calls = 0 /\ done = {} /\ cleared = {} /\ calls \in 0 .. MaxCalls
      /\ th = [t \in Threads |-> th[t]]
  BY CallsAssumption DEF Init
<1>3. \A t \in Threads : th[t] \in ThreadState
  BY <1>1 DEF StateOK
<1>4. th \in [Threads -> ThreadState]
  BY <1>2, <1>3
<1>5. Accounted(th, done, cleared, calls)
  <2>1. \A t, u \in Threads : t # u => Holds(th[t]) \cap Holds(th[u]) = {}
    BY <1>1
  <2>2. \A t \in Threads : \A id \in Holds(th[t]) : id = 1
    BY <1>1
  <2>3. 1 <= calls + 1
    BY <1>2
  <2> QED
    BY <1>2, <2>1, <2>2, <2>3 DEF Accounted
<1>6. Awaited(th)
  BY <1>1 DEF Awaited
<1>7. \A t \in Threads : StateOK(t, th[t])
  BY <1>1
<1>8. Good(th, done, cleared, calls)
  BY <1>2, <1>4, <1>5, <1>6, <1>7 DEF Good
<1> QED
  BY <1>8 DEF ThreadInv

LEMMA NextStep == ThreadInv /\ [Next]_vars => ThreadInv'
<1> SUFFICES ASSUME ThreadInv, [Next]_vars PROVE ThreadInv'
  OBVIOUS
<1>1. CASE UNCHANGED vars
  <2>1. Good(th', done', cleared', calls')
    BY <1>1 DEF ThreadInv, vars
  <2> QED
    BY <2>1 DEF ThreadInv
<1>2. ASSUME NEW t \in Threads, Step(t) PROVE ThreadInv'
  <2>1. CASE ReceiveSends(t)
    BY <2>1, ReceiveSendsStep
  <2>2. CASE GetPosted(t)
    BY <2>2, GetPostedStep
  <2>3. CASE CheckQuitting(t)
    BY <2>3, CheckQuittingStep
  <2>4. CASE Wait(t)
    BY <2>4, WaitStep
  <2>5. CASE HandlerReturns(t)
    BY <2>5, HandlerReturnsStep
  <2>6. CASE SendPush(t)
    BY <2>6, SendPushStep
  <2>7. CASE SendWake(t)
    BY <2>7, SendWakeStep
  <2>8. CASE SendCheck(t)
    BY <2>8, SendCheckStep
  <2>9. CASE SendWait(t)
    BY <2>9, SendWaitStep
  <2>10. CASE PostPush(t)
    BY <2>10, PostPushStep
  <2>11. CASE PostWake(t)
    BY <2>11, PostWakeStep
  <2> QED
    BY <1>2, <2>1, <2>2, <2>3, <2>4, <2>5, <2>6, <2>7, <2>8, <2>9, <2>10,
       <2>11 DEF Step
<1>3. ASSUME NEW t \in Threads, HandlerCalls(t) PROVE ThreadInv'
  <2>1. PICK u \in Threads : \/ CallSend(t, u)
                             \/ \E delayed \in BOOLEAN : CallPost(t, u, delayed)
                             \/ \E id \in Ids : CallClear(t, u, id)
                             \/ CallQuit(t, u)
    BY <1>3 DEF HandlerCalls
  <2>2. CASE CallSend(t, u)
    BY <2>2, CallSendStep
  <2>3. ASSUME NEW delayed \in BOOLEAN, CallPost(t, u, delayed) PROVE ThreadInv'
    BY <2>3, CallPostStep
  <2>4. ASSUME NEW id \in Ids, CallClear(t, u, id) PROVE ThreadInv'
    BY <2>4, CallClearStep
  <2>5. CASE CallQuit(t, u)
    BY <2>5, CallQuitStep
  <2> QED
    BY <2>1, <2>2, <2>3, <2>4, <2>5
<1>4. ASSUME NEW t \in Threads, Expire(t) PROVE ThreadInv'
  BY <1>4, ExpireStep
<1> QED
  BY <1>1, <1>2, <1>3, <1>4 DEF Next

(***************************************************************************)
(* The inductive invariant holds: a message that is not done or cleared is *)
(* in one queue of one thread or in the hands of one call, and whoever has *)
(* a message that was sent serves a Send that still waits for it.          *)
(***************************************************************************)
THEOREM ThreadInvariant == Spec => []ThreadInv
BY InitStep, NextStep, PTL DEF Spec


(* The queues, stacks and counters keep their types.                        *)
THEOREM TypeCorrect == Spec => []TypeOK
<1>1. ThreadInv => TypeOK
  <2> SUFFICES ASSUME ThreadInv PROVE TypeOK
    OBVIOUS
  <2>1. calls \in 0 .. MaxCalls /\ done \subseteq Ids /\ cleared \subseteq Ids
    BY DEF ThreadInv, Good
  <2>2. ASSUME NEW t \in Threads
        PROVE  /\ {th[t].stop, th[t].event} \subseteq BOOLEAN
               /\ ToSet(th[t].msgq) \subseteq Ids
               /\ ToSet(th[t].dmsgq) \subseteq [id : Ids, due : BOOLEAN]
               /\ ToSet(th[t].sendlist) \subseteq [thread : Threads \ {t}, id : Ids]
               /\ Running(t) => th[t].stack[1].call = "ProcessMessages"
               /\ \A f \in Frames(t) :
                    f.call \in {"ProcessMessages", "OnMessage", "Send", "Post"}
    <3>1. PICK s : s = th[t]
      OBVIOUS
    <3>2. StateOK(t, s)
      BY <3>1, ThreadFacts
    <3>3. /\ s.msgq \in Seq(Ids) /\ s.dmsgq \in Seq(DelayedMsg)
          /\ s.sendlist \in Seq(SentMsg) /\ s.stack \in Seq(Frame)
          /\ s.stop \in BOOLEAN /\ s.event \in BOOLEAN /\ StackOK(t, s.stack)
          /\ SentByOthers(t, s.sendlist)
      BY <3>2, StateFields DEF StateOK
    <3>4. ToSet(s.msgq) \subseteq Ids
      BY <3>3, ElementOfSeq, LenProperties DEF ToSet
    <3>5. ToSet(s.dmsgq) \subseteq [id : Ids, due : BOOLEAN]
      <4>1. ToSet(s.dmsgq) \subseteq DelayedMsg
        BY <3>3, ElementOfSeq, LenProperties DEF ToSet
      <4> QED
        BY <4>1 DEF DelayedMsg
    <3>6. ToSet(s.sendlist) \subseteq [thread : Threads \ {t}, id : Ids]
      <4> SUFFICES ASSUME NEW i \in DOMAIN s.sendlist
                   PROVE  s.sendlist[i] \in [thread : Threads \ {t}, id : Ids]
        BY DEF ToSet
      <4>1. s.sendlist[i] \in SentMsg
        BY <3>3, ElementOfSeq, LenProperties
      <4>2. s.sendlist[i].thread # t
        BY <3>3 DEF SentByOthers
      <4> QED
        BY <4>1, <4>2 DEF SentMsg
    <3>7. ASSUME s.stack # <<>> PROVE s.stack[1].call = "ProcessMessages"
      <4>1. 1 \in DOMAIN s.stack
        BY <3>3, <3>7, LenProperties, EmptySeq
      <4> QED
        BY <3>3, <4>1 DEF StackOK
    <3>8. \A k \in DOMAIN s.stack : s.stack[k] \in Frame
      BY <3>3, ElementOfSeq, LenProperties
    <3>9. \A k \in DOMAIN s.stack :
            s.stack[k].call \in {"ProcessMessages", "OnMessage", "Send", "Post"}
      BY <3>8, FrameFields
    <3>10. {s.stop, s.event} \subseteq BOOLEAN
      BY <3>3
    <3> QED
      BY <3>1, <3>4, <3>5, <3>6, <3>7, <3>9, <3>10 DEF Running, Frames
  <2> QED
    BY <2>1, <2>2 DEF TypeOK
<1> QED
  BY <1>1, ThreadInvariant, PTL

(***************************************************************************)
(* The pointer to ready in a message that Send put into a sendlist_ is     *)
(* valid as long as a thread has the message: the Send has neither         *)
(* returned nor been told that it may.                                     *)
(***************************************************************************)
THEOREM ReadyNeverDangles == Spec => []NoDanglingReady
<1>1. ThreadInv => NoDanglingReady
  <2> SUFFICES ASSUME ThreadInv, NEW t \in Threads, NEW u \in Threads,
                      NEW id \in Ids,
                      \/ [thread |-> u, id |-> id] \in ToSet(th[t].sendlist)
                      \/ u # t /\ OnMessage(id, u) \in Frames(t)
               PROVE  \E f \in Frames(u) : /\ f.call = "Send" /\ f.id = id
                                           /\ f.to = t /\ ~f.ready
    BY DEF NoDanglingReady
  <2>1. StateOK(t, th[t]) /\ Awaited(th)
    BY ThreadFacts DEF ThreadInv, Good
  <2>2. u # t /\ Serves(th[t], u, id)
    <3>1. CASE [thread |-> u, id |-> id] \in ToSet(th[t].sendlist)
      <4>1. PICK i \in DOMAIN th[t].sendlist :
              th[t].sendlist[i] = [thread |-> u, id |-> id]
        BY <3>1 DEF ToSet
      <4>2. th[t].sendlist[i].thread = u /\ th[t].sendlist[i].id = id
        BY <4>1
      <4>3. InList(th[t].sendlist, u, id)
        BY <4>2 DEF InList
      <4>4. u # t
        BY <2>1, <4>2 DEF StateOK, SentByOthers
      <4> QED
        BY <4>3, <4>4 DEF Serves
    <3>2. CASE u # t /\ OnMessage(id, u) \in Frames(t)
      <4>1. PICK k \in DOMAIN th[t].stack : th[t].stack[k] = OnMessage(id, u)
        BY <3>2 DEF Frames
      <4>2. /\ th[t].stack[k].call = "OnMessage" /\ th[t].stack[k].id = id
            /\ th[t].stack[k].from = u
        BY <4>1 DEF OnMessage
      <4> QED
        BY <3>2, <4>2 DEF Serves, InHandler
    <3> QED
      BY <3>1, <3>2
  <2>3. Waits(th[u].stack, t, id)
    BY <2>1, <2>2 DEF Awaited
  <2> QED
    BY <2>3 DEF Waits, Frames
<1> QED
  BY <1>1, ThreadInvariant, PTL

(***************************************************************************)
(* A handler that interrupts a Send was sent by the thread that the Send   *)
(* waits for.                                                              *)
(***************************************************************************)
THEOREM OnlyTheCalleeInterrupts == Spec => []NoStrangersDuringSend
<1>1. ThreadInv => NoStrangersDuringSend
  <2> SUFFICES ASSUME ThreadInv, NEW t \in Threads,
                      NEW k \in 2 .. Len(th[t].stack),
                      th[t].stack[k - 1].call = "Send"
               PROVE  th[t].stack[k].from = th[t].stack[k - 1].to
    BY DEF NoStrangersDuringSend
  <2>1. /\ StackOK(t, th[t].stack) /\ DOMAIN th[t].stack = 1 .. Len(th[t].stack)
        /\ Len(th[t].stack) \in Nat
    BY ThreadFacts, StateFields, LenProperties
  <2>2. k \in DOMAIN th[t].stack /\ k - 1 \in DOMAIN th[t].stack
    BY <2>1
  <2> QED
    BY <2>1, <2>2 DEF StackOK
<1> QED
  BY <1>1, ThreadInvariant, PTL

(* In a thread a message is in one place at most, and the thread holds it.  *)
LEMMA OnePlaceIn ==
  ASSUME ThreadInv, NEW t \in Threads, NEW id
  PROVE  /\ \A x, y \in PlacesIn(t, id) : x = y
         /\ \A x \in PlacesIn(t, id) : id \in Holds(th[t])
<1>1. PICK s : s = th[t]
  OBVIOUS
<1>2. StateOK(t, s)
  BY <1>1, ThreadFacts
<1> DEFINE A == {j \in DOMAIN s.msgq : s.msgq[j] = id}
           B == {j \in DOMAIN s.dmsgq : s.dmsgq[j].id = id}
           C == {j \in DOMAIN s.sendlist : s.sendlist[j].id = id}
           D == {j \in DOMAIN s.stack : /\ s.stack[j].call = "OnMessage"
                                        /\ s.stack[j].id = id}
<1>3. PlacesIn(t, id) = {<<"posted", t, i>> : i \in A}
                          \cup {<<"delayed", t, i>> : i \in B}
                          \cup {<<"sent", t, i>> : i \in C}
                          \cup {<<"running", t, i>> : i \in D}
  BY <1>1 DEF PlacesIn
<1>4. /\ \A i, j \in A : i = j
      /\ \A i, j \in B : i = j
      /\ \A i, j \in C : i = j
  BY <1>2 DEF StateOK, PostedOnce, QueuedOnce
<1>5. \A i, j \in D : i = j
  BY <1>2 DEF StateOK, StackOK, Active
<1>6. /\ \A i \in A : id \in PostedIds(s.msgq)
      /\ \A i \in B : id \in IdsOf(s.dmsgq)
      /\ \A i \in C : id \in IdsOf(s.sendlist)
      /\ \A i \in D : id \in StackIds(s.stack)
  BY DEF PostedIds, IdsOf, StackIds, Active
<1> HIDE DEF A, B, C, D
<1>7. /\ A # {} => B = {} /\ C = {} /\ D = {}
      /\ B # {} => C = {} /\ D = {}
      /\ C # {} => D = {}
  BY <1>2, <1>6 DEF StateOK
<1>8. \A x, y \in PlacesIn(t, id) : x = y
  BY <1>3, <1>4, <1>5, <1>7
<1>9. \A x \in PlacesIn(t, id) : id \in Holds(th[t])
  BY <1>1, <1>3, <1>6 DEF Holds
<1> QED
  BY <1>8, <1>9

(***************************************************************************)
(* A message is handled at most once, by one thread: it is in one queue or *)
(* handler, or done, or cleared, and never in two of these places.         *)
(***************************************************************************)
THEOREM MessageHandledOnce == Spec => []HandledOnce
<1>1. ThreadInv => HandledOnce
  <2> SUFFICES ASSUME ThreadInv, NEW id \in Ids
               PROVE  Cardinality(Places(id)) <= 1
    BY DEF HandledOnce
  <2>1. Accounted(th, done, cleared, calls)
    BY DEF ThreadInv, Good
  <2>2. PICK P : P = Places(id)
    OBVIOUS
  <2>3. \A x \in P : \/ \E t \in Threads : x \in PlacesIn(t, id)
                     \/ x = <<"done">> /\ id \in done
                     \/ x = <<"cleared">> /\ id \in cleared
    BY <2>2 DEF Places
  <2>4. ASSUME NEW x \in P, NEW y \in P PROVE x = y
    <3>1. CASE \E t \in Threads : x \in PlacesIn(t, id)
      <4>1. PICK t \in Threads : x \in PlacesIn(t, id)
        BY <3>1
      <4>2. id \in Holds(th[t])
        BY <4>1, OnePlaceIn
      <4>3. id \notin done /\ id \notin cleared
        BY <2>1, <4>2 DEF Accounted
      <4>4. PICK u \in Threads : y \in PlacesIn(u, id)
        BY <2>3, <4>3
      <4>5. id \in Holds(th[u])
        BY <4>4, OnePlaceIn
      <4>6. t = u
        BY <2>1, <4>2, <4>5 DEF Accounted
      <4> QED
        BY <4>1, <4>4, <4>6, OnePlaceIn
    <3>2. CASE id \in done /\ x = <<"done">>
      <4>1. id \notin cleared /\ \A u \in Threads : id \notin Holds(th[u])
        BY <2>1, <3>2 DEF Accounted
      <4>2. \A u \in Threads : y \notin PlacesIn(u, id)
        BY <4>1, OnePlaceIn
      <4> QED
        BY <2>3, <3>2, <4>1, <4>2
    <3>3. CASE id \in cleared /\ x = <<"cleared">>
      <4>1. id \notin done /\ \A u \in Threads : id \notin Holds(th[u])
        BY <2>1, <3>3 DEF Accounted
      <4>2. \A u \in Threads : y \notin PlacesIn(u, id)
        BY <4>1, OnePlaceIn
      <4> QED
        BY <2>3, <3>3, <4>1, <4>2
    <3> QED
      BY <2>3, <3>1, <3>2, <3>3
  <2>5. CASE P = {}
    <3>1. Cardinality(P) = 0
      BY <2>5, FS_EmptySet
    <3> QED
      BY <2>2, <3>1
  <2>6. CASE P # {}
    <3>1. PICK x : x \in P
      BY <2>6
    <3>2. P = {x}
      BY <2>4, <3>1
    <3>3. Cardinality(P) = 1
      BY <3>2, FS_Singleton
    <3> QED
      BY <2>2, <3>3
  <2> QED
    BY <2>5, <2>6
<1> QED
  BY <1>1, ThreadInvariant, PTL
=============================================================================

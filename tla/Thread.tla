------------------------------- MODULE Thread -------------------------------
(***************************************************************************)
(* rtc::Thread and its MessageQueue (rtc_base/thread.cc, messagequeue.cc): *)
(* the loop that runs posted messages, the synchronous Send between        *)
(* threads, and quitting.  A message is an id; its handler may Send, Post, *)
(* PostDelayed and Clear as long as MaxCalls allows.  th[t] is:            *)
(*                                                                         *)
(*   stop      stop_                                                       *)
(*   event     the auto-reset event of its socket server                   *)
(*   msgq, dmsgq, sendlist   the queues; a delayed message is due or not   *)
(*   stack     what the thread is doing, the innermost call last:          *)
(*               ProcessMessages  at pc receive, posted, quit or wait      *)
(*               OnMessage        a handler, sent by a thread or posted    *)
(*               Send             at pc push, wake, check, receive, wait   *)
(*               Post             at pc push or wake                       *)
(*             <<>> once the thread has left ProcessMessages               *)
(*                                                                         *)
(* A section under crit_ is one step, and so is each atomic access to      *)
(* stop_ and each wait for or signal of the event.                         *)
(***************************************************************************)
EXTENDS Integers, Sequences, FiniteSets, SequencesExt

CONSTANTS Threads,    \* the threads
          NoSource,   \* nullptr, for a message that no thread waits for
          First,      \* the one that has a message to handle at the start
          Stopped,    \* those that handlers call Quit on
          MaxCalls,   \* bound: calls the handlers make
          MaxDelayed  \* bound: delayed messages at a time

ASSUME ThreadsAssumption ==
  /\ IsFiniteSet(Threads) /\ NoSource \notin Threads
  /\ First \in Threads /\ Stopped \subseteq Threads
ASSUME CallsAssumption == MaxCalls \in Nat /\ MaxDelayed \in Nat

VARIABLES th,       \* the state of each thread
          calls,    \* the calls made, for the bound and to name messages
          done,     \* the messages whose handler has returned
          cleared   \* the messages removed by Clear
vars == <<th, calls, done, cleared>>

ProcessMessages == [call |-> "ProcessMessages", pc |-> "receive",
                    timed |-> FALSE]
OnMessage(id, from) == [call |-> "OnMessage", pc |-> "run", id |-> id,
                        from |-> from]
SendFrame(id, to) == [call |-> "Send", pc |-> "push", id |-> id, to |-> to,
                      ready |-> FALSE, waited |-> FALSE]
PostFrame(id, to, delayed) == [call |-> "Post", pc |-> "push", id |-> id,
                               to |-> to, delayed |-> delayed]

Running(t) == th[t].stack # <<>>
Top(t) == Last(th[t].stack)
At(t, call, pc) == Running(t) /\ Top(t).call = call /\ Top(t).pc = pc

(* Replacing the innermost call, entering one and returning from it. *)
Go(s, pc) == [s EXCEPT !.stack[Len(s.stack)].pc = pc]
Enter(s, frame) == [s EXCEPT !.stack = Append(@, frame)]
Return(s) == [s EXCEPT !.stack = Front(@)]

(* WakeUpSocketServer of the threads in S. *)
WakeUp(f, S) == [t \in Threads |-> IF t \in S THEN [f[t] EXCEPT !.event = TRUE]
                                   ELSE f[t]]

(* Messages are numbered; the first one was posted from outside. *)
Ids == 1..(1 + MaxCalls)

Init ==
  /\ th = [t \in Threads |->
             [stop |-> FALSE, event |-> t = First,
              msgq |-> IF t = First THEN <<1>> ELSE <<>>,
              dmsgq |-> <<>>, sendlist |-> <<>>,
              stack |-> <<[ProcessMessages EXCEPT !.pc = "wait"]>>]]
  /\ calls = 0
  /\ done = {} /\ cleared = {}

(* Setting ready, a variable of the Send that waits for message id, and     *)
(* waking its thread, for the threads in S.                                *)
ReadyStack(stack, id) ==
  [k \in DOMAIN stack |-> IF stack[k].call = "Send" /\ stack[k].id = id
                          THEN [stack[k] EXCEPT !.ready = TRUE]
                          ELSE stack[k]]

SetReady(f, S, id) ==
  [t \in Threads |-> IF t \in S
                     THEN [f[t] EXCEPT !.event = TRUE,
                                       !.stack = ReadyStack(@, id)]
                     ELSE f[t]]
-----------------------------------------------------------------------------
(* The loop: ProcessMessages calls Get again and again. *)

(* PopSendMessageFromThread: the first sent message of that source. *)
FromSource(t, source) ==
  SelectInSeq(th[t].sendlist,
              LAMBDA m : source = NoSource \/ m.thread = source)

PopSend(s, i) == [s EXCEPT !.sendlist = RemoveAt(@, i)]

(* Fault: whoever sent something is served. *)
SourceIgnored(t) == NoSource

(* Send only serves the thread it waits for. *)
Source(t) == IF Top(t).call = "Send" THEN Top(t).to ELSE NoSource

(* Fault: the sender is told before the handler ran. *)
ReadyTooEarly(t) ==
  LET i == FromSource(t, Source(t))
      m == th[t].sendlist[i]
  IN  /\ Running(t) /\ Top(t).pc = "receive"
      /\ \/ /\ i # 0
            /\ th' = SetReady([th EXCEPT ![t] =
                                 Enter(PopSend(@, i),
                                       OnMessage(m.id, m.thread))],
                              {m.thread}, m.id)
         \/ /\ i = 0
            /\ th' = [th EXCEPT ![t] =
                        Go(@, IF Top(t).call = "Send" THEN "wait"
                              ELSE "posted")]
      /\ UNCHANGED <<calls, done, cleared>>

(***************************************************************************)
(* ReceiveSendsFromThread takes the next message and runs its handler, or  *)
(* is finished: Get then looks at the posted messages, Send waits.         *)
(***************************************************************************)

ReceiveSends(t) ==
  LET i == FromSource(t, Source(t))
  IN  /\ Running(t) /\ Top(t).pc = "receive"
      /\ \/ /\ i # 0
            /\ LET m == th[t].sendlist[i]
               IN  th' = [th EXCEPT ![t] =
                            Enter(PopSend(@, i), OnMessage(m.id, m.thread))]
         \/ /\ i = 0
            /\ th' = [th EXCEPT ![t] =
                        Go(@, IF Top(t).call = "Send" THEN "wait"
                              ELSE "posted")]
      /\ UNCHANGED <<calls, done, cleared>>

(* Fault: the message stays in the queue. *)
GetWithoutPop(t) ==
  /\ At(t, "ProcessMessages", "posted")
  /\ th' = [th EXCEPT ![t] =
       IF @.msgq = <<>> THEN Go(@, "quit")
       ELSE Enter(Go(@, "receive"), OnMessage(Head(@.msgq), NoSource))]
  /\ UNCHANGED <<calls, done, cleared>>

(* How many messages at the front of a delayed queue are due. *)
DueCount(q) == LET i == SelectInSeq(q, LAMBDA m : ~m.due)
               IN  IF i = 0 THEN Len(q) ELSE i - 1

(* Get under crit_: due delayed messages join the queue, one is taken. *)
TakeDue(s) ==
  LET n == DueCount(s.dmsgq)
  IN  [s EXCEPT !.dmsgq = SubSeq(s.dmsgq, n + 1, Len(s.dmsgq)),
                !.msgq = s.msgq \o [i \in 1..n |-> s.dmsgq[i].id]]

GetPosted(t) ==
  LET s == TakeDue(th[t])
  IN  /\ At(t, "ProcessMessages", "posted")
      /\ th' = [th EXCEPT ![t] =
           IF s.msgq = <<>>
           THEN [Go(s, "quit") EXCEPT
                   !.stack[Len(s.stack)].timed = s.dmsgq # <<>>]
           ELSE Enter([Go(s, "receive") EXCEPT !.msgq = Tail(s.msgq)],
                      OnMessage(Head(s.msgq), NoSource))]
      /\ UNCHANGED <<calls, done, cleared>>

CheckQuitting(t) ==
  /\ At(t, "ProcessMessages", "quit")
  /\ th' = [th EXCEPT ![t] = IF @.stop THEN Return(@) ELSE Go(@, "wait")]
  /\ UNCHANGED <<calls, done, cleared>>

(* The timeout that Get computed from its delayed messages has passed. *)
TimedOut(t) ==
  Top(t).timed /\ \E i \in DOMAIN th[t].dmsgq : th[t].dmsgq[i].due

(* Wait of the socket server, until the event or the next delayed message. *)
Wait(t) ==
  /\ At(t, "ProcessMessages", "wait")
  /\ th[t].event \/ TimedOut(t)
  /\ th' = [th EXCEPT ![t] =
              [Go([@ EXCEPT !.event = FALSE], "receive")
                 EXCEPT !.stack[Len(th[t].stack)].timed = FALSE]]
  /\ UNCHANGED <<calls, done, cleared>>

(***************************************************************************)
(* A handler returns; the thread that sent the message is told so.         *)
(***************************************************************************)
HandlerReturns(t) ==
  LET h == Top(t)
      f == [th EXCEPT ![t] = Return(@)]
  IN  /\ At(t, "OnMessage", "run")
      /\ th' = IF h.from \in Threads \ {t} THEN SetReady(f, {h.from}, h.id)
               ELSE f
      /\ done' = done \cup {h.id}
      /\ UNCHANGED <<calls, cleared>>
-----------------------------------------------------------------------------
(* Fault: a thread queues a call to itself. *)
SendToSelf(t, u) ==
  /\ At(t, "OnMessage", "run")
  /\ calls < MaxCalls /\ ~th[u].stop
  /\ th' = [th EXCEPT ![t] = Enter(@, SendFrame(calls + 2, u))]
  /\ calls' = calls + 1
  /\ UNCHANGED <<done, cleared>>

(* Send.  On the thread itself the handler is called at once. *)
CallSend(t, u) ==
  LET id == calls + 2
  IN  /\ At(t, "OnMessage", "run")
      /\ calls < MaxCalls /\ ~th[u].stop
      /\ th' = [th EXCEPT ![t] =
                  Enter(@, IF u = t THEN OnMessage(id, t)
                           ELSE SendFrame(id, u))]
      /\ calls' = calls + 1
      /\ UNCHANGED <<done, cleared>>

SendPush(t) ==
  LET s == Top(t)
      f == [th EXCEPT ![t] = Go(@, "wake")]
  IN  /\ At(t, "Send", "push")
      /\ th' = [f EXCEPT ![s.to].sendlist =
                            Append(@, [thread |-> t, id |-> s.id])]
      /\ UNCHANGED <<calls, done, cleared>>

SendWake(t) ==
  /\ At(t, "Send", "wake")
  /\ th' = WakeUp([th EXCEPT ![t] = Go(@, "check")], {Top(t).to})
  /\ UNCHANGED <<calls, done, cleared>>

(* The loop ends when ready; a thread that waited wakes itself again, for  *)
(* what was posted to it in the meantime.                                  *)
SendCheck(t) ==
  LET s == Top(t)
  IN  /\ At(t, "Send", "check")
      /\ th' = IF s.ready
               THEN WakeUp([th EXCEPT ![t] = Return(@)],
                           IF s.waited THEN {t} ELSE {})
               ELSE [th EXCEPT ![t] = Go(@, "receive")]
      /\ UNCHANGED <<calls, done, cleared>>

SendWait(t) ==
  /\ At(t, "Send", "wait")
  /\ th[t].event
  /\ th' = [th EXCEPT ![t] =
              [Go([@ EXCEPT !.event = FALSE], "check")
                 EXCEPT !.stack[Len(th[t].stack)].waited = TRUE]]
  /\ UNCHANGED <<calls, done, cleared>>
-----------------------------------------------------------------------------
(* Post and PostDelayed, to any thread, the caller's own included. *)
Delayed == {id \in Ids : \E t \in Threads :
              \/ \E i \in DOMAIN th[t].dmsgq : th[t].dmsgq[i].id = id
              \/ \E k \in DOMAIN th[t].stack :
                    /\ th[t].stack[k].call = "Post"
                    /\ th[t].stack[k].id = id /\ th[t].stack[k].delayed}

CallPost(t, u, delayed) ==
  LET id == calls + 2
  IN  /\ At(t, "OnMessage", "run")
      /\ calls < MaxCalls /\ ~th[u].stop
      /\ delayed => Cardinality(Delayed) < MaxDelayed
      /\ th' = [th EXCEPT ![t] = Enter(@, PostFrame(id, u, delayed))]
      /\ calls' = calls + 1
      /\ UNCHANGED <<done, cleared>>

PostPush(t) ==
  LET p == Top(t)
      f == [th EXCEPT ![t] = Go(@, "wake")]
      q == th[p.to].dmsgq
  IN  /\ At(t, "Post", "push")
      /\ \/ /\ p.delayed
            /\ \E i \in DueCount(q) + 1..Len(q) + 1 :
                 th' = [f EXCEPT ![p.to].dmsgq =
                           InsertAt(@, i, [id |-> p.id, due |-> FALSE])]
         \/ /\ ~p.delayed
            /\ th' = [f EXCEPT ![p.to].msgq = Append(@, p.id)]
      /\ UNCHANGED <<calls, done, cleared>>

(* Fault: a delayed message wakes nobody up, as it is not due yet. *)
NoWakeUpForDelayed(t) ==
  /\ At(t, "Post", "wake")
  /\ th' = WakeUp([th EXCEPT ![t] = Return(@)],
                 IF Top(t).delayed THEN {} ELSE {Top(t).to})
  /\ UNCHANGED <<calls, done, cleared>>

PostWake(t) ==
  /\ At(t, "Post", "wake")
  /\ th' = WakeUp([th EXCEPT ![t] = Return(@)], {Top(t).to})
  /\ UNCHANGED <<calls, done, cleared>>

(* Time passes: the first delayed message that is not due becomes due. *)
Expire(t) ==
  LET i == SelectInSeq(th[t].dmsgq, LAMBDA m : ~m.due)
  IN  /\ i # 0
      /\ th' = [th EXCEPT ![t].dmsgq[i].due = TRUE]
      /\ UNCHANGED <<calls, done, cleared>>
-----------------------------------------------------------------------------
(* The messages in the queues of a thread, and the queues without one of   *)
(* them; a message is in a queue at most once.                             *)
Queued(s) == ToSet(s.msgq) \cup {m.id : m \in ToSet(s.dmsgq)}
             \cup {m.id : m \in ToSet(s.sendlist)}
WithoutId(q, id) == RemoveFirstMatch(q, LAMBDA m : m.id = id)
Without(s, id) ==
  [s EXCEPT !.msgq = RemoveFirst(@, id),
            !.dmsgq = WithoutId(@, id),
            !.sendlist = WithoutId(@, id)]

(* Fault: the thread that waits for a cleared message is not told. *)
ClearUntold(t, u, id) ==
  /\ At(t, "OnMessage", "run")
  /\ calls < MaxCalls
  /\ id \in Queued(th[u])
  /\ th' = [th EXCEPT ![u] = Without(@, id)]
  /\ cleared' = cleared \cup {id}
  /\ calls' = calls + 1
  /\ UNCHANGED done

(***************************************************************************)
(* Thread::Clear removes a handler's message from every queue of u; a      *)
(* thread that waits for it is told so.                                    *)
(***************************************************************************)
CallClear(t, u, id) ==
  LET senders == {m.thread : m \in {n \in ToSet(th[u].sendlist) : n.id = id}}
  IN  /\ At(t, "OnMessage", "run")
      /\ calls < MaxCalls
      /\ id \in Queued(th[u])
      /\ th' = SetReady([th EXCEPT ![u] = Without(@, id)], senders, id)
      /\ cleared' = cleared \cup {id}
      /\ calls' = calls + 1
      /\ UNCHANGED done

(* Quit, from a handler of the thread that owns u. *)
CallQuit(t, u) ==
  /\ At(t, "OnMessage", "run")
  /\ calls < MaxCalls
  /\ u \in Stopped /\ ~th[u].stop
  /\ th' = WakeUp([th EXCEPT ![u].stop = TRUE], {u})
  /\ calls' = calls + 1
  /\ UNCHANGED <<done, cleared>>
-----------------------------------------------------------------------------
Step(t) ==
  \/ ReceiveSends(t)
  \/ GetPosted(t)
  \/ CheckQuitting(t)
  \/ Wait(t)
  \/ HandlerReturns(t)
  \/ SendPush(t)
  \/ SendWake(t)
  \/ SendCheck(t)
  \/ SendWait(t)
  \/ PostPush(t)
  \/ PostWake(t)

HandlerCalls(t) ==
  \E u \in Threads : \/ CallSend(t, u)
                     \/ \E delayed \in BOOLEAN : CallPost(t, u, delayed)
                     \/ \E id \in Ids : CallClear(t, u, id)
                     \/ CallQuit(t, u)

Next ==
  \E t \in Threads : \/ Step(t)
                     \/ HandlerCalls(t)
                     \/ Expire(t)

Spec == Init /\ [][Next]_vars

(* The operating system runs every thread that is not waiting, handlers    *)
(* return, and time passes until each delayed message is due.  This is     *)
(* weak fairness of Step and of Expire with the condition under which they *)
(* can happen written out; every step of a thread changes its stack, and   *)
(* other threads change it only once for each message.                     *)
Asleep(t) ==
  \/ ~Running(t)
  \/ At(t, "Send", "wait") /\ ~th[t].event
  \/ At(t, "ProcessMessages", "wait") /\ ~th[t].event /\ ~TimedOut(t)

Fairness ==
  \A t \in Threads :
    /\ []<>Asleep(t) \/ []<><<th'[t].stack # th[t].stack>>_vars
    /\ []<>(\A i \in DOMAIN th[t].dmsgq : th[t].dmsgq[i].due)

FairSpec == Spec /\ Fairness
-----------------------------------------------------------------------------
Frames(t) == {th[t].stack[k] : k \in DOMAIN th[t].stack}

(* The queues, stacks and counters have their types; no thread has a       *)
(* message of its own in its sendlist_.                                    *)
TypeOK ==
  /\ calls \in 0..MaxCalls
  /\ done \subseteq Ids /\ cleared \subseteq Ids
  /\ \A t \in Threads :
       /\ {th[t].stop, th[t].event} \subseteq BOOLEAN
       /\ ToSet(th[t].msgq) \subseteq Ids
       /\ ToSet(th[t].dmsgq) \subseteq [id : Ids, due : BOOLEAN]
       /\ ToSet(th[t].sendlist) \subseteq [thread : Threads \ {t}, id : Ids]
       /\ Running(t) => th[t].stack[1].call = "ProcessMessages"
       /\ \A f \in Frames(t) :
            f.call \in {"ProcessMessages", "OnMessage", "Send", "Post"}

(***************************************************************************)
(* _SendMessage holds a pointer to ready, a variable on the stack of the   *)
(* thread that called Send: whoever has such a message, in its sendlist_   *)
(* or in a handler it runs for it, will write through the pointer, so that *)
(* the Send must not have returned, nor been told that it may.             *)
(***************************************************************************)
NoDanglingReady ==
  \A t, u \in Threads : \A id \in Ids :
    (\/ [thread |-> u, id |-> id] \in ToSet(th[t].sendlist)
     \/ u # t /\ OnMessage(id, u) \in Frames(t))
    => \E f \in Frames(u) : /\ f.call = "Send" /\ f.id = id /\ f.to = t
                            /\ ~f.ready

(***************************************************************************)
(* "We need to limit ReceiveSends to |this| thread to avoid an arbitrary   *)
(* thread invoking calls on the current thread" (Send): a handler that     *)
(* interrupts a Send was sent by the thread that the Send waits for.       *)
(***************************************************************************)
NoStrangersDuringSend ==
  \A t \in Threads : \A k \in 2..Len(th[t].stack) :
    LET below == th[t].stack[k - 1]
    IN  below.call = "Send" => th[t].stack[k].from = below.to

(* The places where a message can be, those in thread t, and all of them.   *)
PlacesIn(t, id) ==
  {<<"posted", t, i>> : i \in {j \in DOMAIN th[t].msgq : th[t].msgq[j] = id}}
  \cup {<<"delayed", t, i>> :
          i \in {j \in DOMAIN th[t].dmsgq : th[t].dmsgq[j].id = id}}
  \cup {<<"sent", t, i>> :
          i \in {j \in DOMAIN th[t].sendlist : th[t].sendlist[j].id = id}}
  \cup {<<"running", t, k>> :
          k \in {j \in DOMAIN th[t].stack : /\ th[t].stack[j].call = "OnMessage"
                                            /\ th[t].stack[j].id = id}}

Places(id) ==
  (UNION {PlacesIn(t, id) : t \in Threads})
  \cup {p \in {<<"done">>} : id \in done}
  \cup {p \in {<<"cleared">>} : id \in cleared}

(***************************************************************************)
(* A message is handled at most once, by one thread: it is in one queue,   *)
(* or in one handler, or handled, or cleared, but never in two of these.   *)
(***************************************************************************)
HandledOnce == \A id \in Ids : Cardinality(Places(id)) <= 1

(***************************************************************************)
(* What can keep a thread from going on: it waits for a thread that has    *)
(* left its loop, or for one that waits in turn, and so on, without two of *)
(* them waiting for each other (who serve each other's calls).  Some       *)
(* thread is stuck if there is a set of threads that all wait like this.   *)
(***************************************************************************)
Senders == {t \in Threads : Running(t) /\ Top(t).call = "Send"}

WaitsFor(t, u) == t \in Senders /\ Top(t).to = u

Stuck ==
  \E S \in SUBSET Senders :
    /\ S # {}
    /\ \A t \in S : LET u == Top(t).to
                     IN  ~WaitsFor(u, t) /\ (u \in S \/ ~Running(u))

(***************************************************************************)
(* Send returns, also when two threads Send to each other at the same      *)
(* time, handlers Send in turn, or messages are cleared: a thread that is  *)
(* in Send for good is stuck in a ring of three or more threads or behind  *)
(* a thread that has quit.                                                 *)
(***************************************************************************)
SendReturns ==
  []<>(\/ \A t \in Threads : \A f \in Frames(t) : f.call # "Send"
       \/ Stuck)

(***************************************************************************)
(* No wake-up is lost: what was posted to a thread that keeps running is   *)
(* handled (or cleared), although a Send that waits in between consumes    *)
(* the wake-ups of the thread.  So is a delayed message posted to a thread *)
(* that began to wait, without a timeout, before the message was there.    *)
(***************************************************************************)
PostedIsHandled ==
  []<>(\/ \A t \in Threads :
            ~Running(t) \/ (th[t].msgq = <<>> /\ th[t].dmsgq = <<>>)
       \/ Stuck)
=============================================================================

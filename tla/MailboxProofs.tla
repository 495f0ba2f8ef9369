--------------------------- MODULE MailboxProofs ---------------------------
(***************************************************************************)
(* Theorems about Mailbox, and that it implements MailQueue.               *)
(***************************************************************************)
EXTENDS Mailbox, ListFacts, FiniteSetTheorems

-----------------------------------------------------------------------------
(* The invariant.                                                          *)

\* The threads asleep in a call of this kind.
Sleeping(kind) ==
  {t \in Thread : pc[t] = "wait" /\ op[t] = kind /\ stat[t] = "suspend"}

\* The lists hold the threads that sleep, each of them once.
WaitersListed ==
  /\ NoDup(receivers) /\ ToSet(receivers) = Sleeping("recv")
  /\ NoDup(senders) /\ ToSet(senders) = Sleeping("send")

\* Only a call sleeps, without an error, and its timer runs for a time limit.
SleepersCall ==
  \A t \in Thread :
    /\ stat[t] = "suspend" => pc[t] = "wait" /\ error[t] = "EOK"
    /\ pc[t] = "wait" => op[t] \in {"send", "recv"}
    /\ timer[t] = 1 => stat[t] = "suspend" /\ timeout[t] = "finite"

MailboxInv == TypeOK /\ WaitersListed /\ SleepersCall /\ NoLostWakeup

\* The parts of TypeOK.
RingOK ==
  /\ msg_pool \in [Slot -> Mail \cup {NoMail}]
  /\ in_offset \in Slot /\ out_offset \in Slot
  /\ entry \in 0 .. Size
  /\ in_offset = Wrap(out_offset + entry)

ListsOK == receivers \in Seq(Thread) /\ senders \in Seq(Thread)

TcbOK ==
  /\ stat \in [Thread -> {"ready", "suspend"}]
  /\ error \in [Thread -> Error]
  /\ timer \in [Thread -> {0, 1}]

FrameOK ==
  /\ pc \in [Thread -> {"idle", "call", "wait", "return"}]
  /\ op \in [Thread -> {"none", "send", "recv"}]
  /\ mail \in [Thread -> Mail \cup {NoMail}]
  /\ timeout \in [Thread -> Timeout]
  /\ ret \in [Thread -> {"none", "EOK", "EFULL", "ETIMEOUT", "ERROR"}]

LEMMA TypeParts == TypeOK <=> RingOK /\ ListsOK /\ TcbOK /\ FrameOK /\ life \in Life
BY DEF TypeOK, RingOK, ListsOK, TcbOK, FrameOK

\* One step of the lists and the threads: h leaves its list and is ready.
Wakes(h, kind) ==
  /\ h \in Sleeping(kind)
  /\ stat' = [stat EXCEPT ![h] = "ready"]
  /\ timer' = [timer EXCEPT ![h] = 0]
  /\ receivers' \in Seq(Thread) /\ NoDup(receivers')
  /\ ToSet(receivers') = ToSet(receivers) \ {h}
  /\ senders' \in Seq(Thread) /\ NoDup(senders')
  /\ ToSet(senders') = ToSet(senders) \ {h}

LEMMA WakeReceiverFacts ==
  ASSUME MailboxInv, WakeReceiver
  PROVE  \/ receivers = <<>> /\ UNCHANGED <<lists, stat, timer>>
         \/ receivers # <<>> /\ \E h \in Thread : Wakes(h, "recv")
<1> USE DEF MailboxInv, WaitersListed
<1>1. CASE receivers = <<>>
  BY <1>1 DEF WakeReceiver
<1>2. CASE receivers # <<>>
  <2> DEFINE h == Head(receivers)
  <2>1. /\ receivers \in Seq(Thread) /\ senders \in Seq(Thread)
        /\ NoDup(receivers) /\ NoDup(senders)
    BY DEF TypeOK
  <2>2. /\ h \in ToSet(receivers)
        /\ Tail(receivers) \in Seq(Thread)
        /\ ToSet(Tail(receivers)) = ToSet(receivers) \ {h}
        /\ NoDup(Tail(receivers))
    BY <1>2, <2>1, TailFacts
  <2>3. h \in Sleeping("recv") /\ h \in Thread
    BY <2>2 DEF Sleeping
  <2>4. h \notin ToSet(senders)
    BY <2>3 DEF Sleeping
  <2>5. /\ receivers' = Tail(receivers) /\ senders' = senders
        /\ stat' = [stat EXCEPT ![h] = "ready"]
        /\ timer' = [timer EXCEPT ![h] = 0]
    BY <1>2 DEF WakeReceiver, Resume
  <2> HIDE DEF h
  <2>6. Wakes(h, "recv")
    BY <2>1, <2>2, <2>3, <2>4, <2>5 DEF Wakes
  <2> QED BY <1>2, <2>3, <2>6
<1> QED BY <1>1, <1>2

LEMMA WakeSenderFacts ==
  ASSUME MailboxInv, WakeSender
  PROVE  \/ senders = <<>> /\ UNCHANGED <<lists, stat, timer>>
         \/ senders # <<>> /\ \E h \in Thread : Wakes(h, "send")
<1> USE DEF MailboxInv, WaitersListed
<1>1. CASE senders = <<>>
  BY <1>1 DEF WakeSender
<1>2. CASE senders # <<>>
  <2> DEFINE h == Head(senders)
  <2>1. /\ receivers \in Seq(Thread) /\ senders \in Seq(Thread)
        /\ NoDup(receivers) /\ NoDup(senders)
    BY DEF TypeOK
  <2>2. /\ h \in ToSet(senders)
        /\ Tail(senders) \in Seq(Thread)
        /\ ToSet(Tail(senders)) = ToSet(senders) \ {h}
        /\ NoDup(Tail(senders))
    BY <1>2, <2>1, TailFacts
  <2>3. h \in Sleeping("send") /\ h \in Thread
    BY <2>2 DEF Sleeping
  <2>4. h \notin ToSet(receivers)
    BY <2>3 DEF Sleeping
  <2>5. /\ senders' = Tail(senders) /\ receivers' = receivers
        /\ stat' = [stat EXCEPT ![h] = "ready"]
        /\ timer' = [timer EXCEPT ![h] = 0]
    BY <1>2 DEF WakeSender, Resume
  <2> HIDE DEF h
  <2>6. Wakes(h, "send")
    BY <2>1, <2>2, <2>3, <2>4, <2>5 DEF Wakes
  <2> QED BY <1>2, <2>3, <2>6
<1> QED BY <1>1, <1>2

\* What TimeOut and DetachResume do to the lists.
LEMMA TimeOutFacts ==
  ASSUME MailboxInv, NEW t \in Thread, TimeOut(t)
  PROVE  \E kind \in {"send", "recv"} : Wakes(t, kind)
<1> USE DEF MailboxInv, WaitersListed
<1>1. /\ receivers \in Seq(Thread) /\ senders \in Seq(Thread)
      /\ NoDup(receivers) /\ NoDup(senders)
  BY DEF TypeOK
<1>2. /\ stat' = [stat EXCEPT ![t] = "ready"]
      /\ timer' = [timer EXCEPT ![t] = 0]
  BY DEF TimeOut
<1>3. CASE \E i \in 1 .. Len(receivers) :
             /\ receivers[i] = t /\ receivers' = RemoveAt(receivers, i)
             /\ UNCHANGED senders
  <2>1. PICK i \in 1 .. Len(receivers) :
             /\ receivers[i] = t /\ receivers' = RemoveAt(receivers, i)
             /\ UNCHANGED senders
    BY <1>3
  <2>2. /\ receivers' \in Seq(Thread) /\ NoDup(receivers')
        /\ ToSet(receivers') = ToSet(receivers) \ {t}
    BY <1>1, <2>1, RemoveFacts
  <2>3. t \in ToSet(receivers)
    BY <1>1, <2>1 DEF ToSet
  <2>4. t \in Sleeping("recv") /\ t \notin ToSet(senders)
    BY <2>3 DEF Sleeping
  <2>5. Wakes(t, "recv")
    BY <1>1, <1>2, <2>1, <2>2, <2>4 DEF Wakes
  <2> QED BY <2>5
<1>4. CASE \E i \in 1 .. Len(senders) :
             /\ senders[i] = t /\ senders' = RemoveAt(senders, i)
             /\ UNCHANGED receivers
  <2>1. PICK i \in 1 .. Len(senders) :
             /\ senders[i] = t /\ senders' = RemoveAt(senders, i)
             /\ UNCHANGED receivers
    BY <1>4
  <2>2. /\ senders' \in Seq(Thread) /\ NoDup(senders')
        /\ ToSet(senders') = ToSet(senders) \ {t}
    BY <1>1, <2>1, RemoveFacts
  <2>3. t \in ToSet(senders)
    BY <1>1, <2>1 DEF ToSet
  <2>4. t \in Sleeping("send") /\ t \notin ToSet(receivers)
    BY <2>3 DEF Sleeping
  <2>5. Wakes(t, "send")
    BY <1>1, <1>2, <2>1, <2>2, <2>4 DEF Wakes
  <2> QED BY <2>5
<1> QED BY <1>3, <1>4 DEF TimeOut, Unlink

LEMMA DetachResumeFacts ==
  ASSUME MailboxInv, DetachResume
  PROVE  /\ UNCHANGED <<ring, frame>> /\ life' \in {"receivers", "senders"}
         /\ \E h \in Thread, kind \in {"send", "recv"} :
              Wakes(h, kind) /\ error' = [error EXCEPT ![h] = "ERROR"]
<1>1. CASE life = "receiver"
  <2> DEFINE h == Head(receivers)
  <2>1. /\ receivers # <<>> /\ WakeReceiver /\ life' = "receivers"
        /\ error' = [error EXCEPT ![h] = "ERROR"]
        /\ stat' = [stat EXCEPT ![h] = "ready"]
        /\ UNCHANGED <<ring, frame>>
    BY <1>1 DEF DetachResume, WakeReceiver, Abort, Resume
  <2>2. PICK g \in Thread : Wakes(g, "recv")
    BY <2>1, WakeReceiverFacts
  <2>3. g = h
    <3>1. h \in ToSet(receivers) /\ h \notin ToSet(receivers')
      <4>1. receivers' = Tail(receivers)
        BY <2>1 DEF WakeReceiver
      <4> QED BY <2>1, <4>1, TailFacts DEF MailboxInv, TypeOK, WaitersListed
    <3> QED BY <2>2, <3>1 DEF Wakes
  <2> QED BY <2>1, <2>2, <2>3
<1>2. CASE life = "sender"
  <2> DEFINE h == Head(senders)
  <2>1. /\ senders # <<>> /\ WakeSender /\ life' = "senders"
        /\ error' = [error EXCEPT ![h] = "ERROR"]
        /\ stat' = [stat EXCEPT ![h] = "ready"]
        /\ UNCHANGED <<ring, frame>>
    BY <1>2 DEF DetachResume, WakeSender, Abort, Resume
  <2>2. PICK g \in Thread : Wakes(g, "send")
    BY <2>1, WakeSenderFacts
  <2>3. g = h
    <3>1. h \in ToSet(senders) /\ h \notin ToSet(senders')
      <4>1. senders' = Tail(senders)
        BY <2>1 DEF WakeSender
      <4> QED BY <2>1, <4>1, TailFacts DEF MailboxInv, TypeOK, WaitersListed
    <3> QED BY <2>2, <3>1 DEF Wakes
  <2> QED BY <2>1, <2>2, <2>3
<1> QED BY <1>1, <1>2 DEF DetachResume

\* What the wait of t does to the lists.
LEMMA SendWaitFacts ==
  ASSUME MailboxInv, NEW t \in Thread, SendWait(t)
  PROVE  /\ senders' \in Seq(Thread) /\ NoDup(senders')
         /\ ToSet(senders') = ToSet(senders) \cup {t}
         /\ UNCHANGED receivers
<1>1. PICK i \in 1 .. Len(senders) + 1 : senders' = InsertAt(senders, i, t)
  BY DEF SendWait
<1>2. senders \in Seq(Thread) /\ NoDup(senders)
  BY DEF MailboxInv, TypeOK, WaitersListed
<1>3. t \notin ToSet(senders)
  BY DEF MailboxInv, WaitersListed, Sleeping, SendWait, Tries
<1> QED BY <1>1, <1>2, <1>3, InsertFacts DEF SendWait

LEMMA RecvWaitFacts ==
  ASSUME MailboxInv, NEW t \in Thread, RecvWait(t)
  PROVE  /\ receivers' \in Seq(Thread) /\ NoDup(receivers')
         /\ ToSet(receivers') = ToSet(receivers) \cup {t}
         /\ UNCHANGED senders
<1>1. PICK i \in 1 .. Len(receivers) + 1 : receivers' = InsertAt(receivers, i, t)
  BY DEF RecvWait
<1>2. receivers \in Seq(Thread) /\ NoDup(receivers)
  BY DEF MailboxInv, TypeOK, WaitersListed
<1>3. t \notin ToSet(receivers)
  BY DEF MailboxInv, WaitersListed, Sleeping, RecvWait, Tries
<1> QED BY <1>1, <1>2, <1>3, InsertFacts DEF RecvWait
-----------------------------------------------------------------------------
(* The steps, one lemma per part of the invariant.                         *)

\* A step of the specification is one of these.
LEMMA StepCases ==
  ASSUME [Next]_vars
  PROVE  \/ \E t \in Thread :
              \/ Call(t) \/ SendMail(t) \/ SendFull(t) \/ SendWait(t)
              \/ RecvMail(t) \/ RecvEmpty(t) \/ RecvWait(t)
              \/ WakeWithError(t) \/ Return(t) \/ TimeOut(t)
         \/ Reset \/ DetachBegin \/ DetachLook \/ DetachResume \/ DetachHalt
         \/ UNCHANGED vars
BY DEF Next, Advance, Send, Recv, Detach

\* The ring: the offsets stay inside it and apart by the number of mails.
LEMMA RingStep ==
  ASSUME MailboxInv, [Next]_vars
  PROVE  RingOK'
<1>1. RingOK /\ Size \in Nat \ {0} /\ mail \in [Thread -> Mail \cup {NoMail}]
  BY MailboxAssumption, TypeParts DEF MailboxInv, FrameOK
<1>2. ASSUME UNCHANGED ring PROVE RingOK'
  BY <1>1, <1>2 DEF RingOK, ring, Slot, Wrap
<1>3. ASSUME NEW t \in Thread, SendMail(t) PROVE RingOK'
  <2>1. /\ entry # Size /\ entry' = entry + 1
        /\ in_offset' = Wrap(in_offset + 1) /\ out_offset' = out_offset
        /\ msg_pool' = [msg_pool EXCEPT ![in_offset] = mail[t]]
    BY <1>3 DEF SendMail
  <2>2. msg_pool' \in [Slot -> Mail \cup {NoMail}]
    BY <1>1, <2>1 DEF RingOK
  <2>3. /\ in_offset' \in Slot /\ out_offset' \in Slot
        /\ entry' \in 0 .. Size
        /\ in_offset' = Wrap(out_offset' + entry')
    BY <1>1, <2>1 DEF RingOK, Slot, Wrap
  <2> QED BY <2>2, <2>3 DEF RingOK, Wrap, Slot
<1>4. ASSUME NEW t \in Thread, RecvMail(t) PROVE RingOK'
  <2>1. /\ entry # 0 /\ entry' = entry - 1
        /\ out_offset' = Wrap(out_offset + 1) /\ in_offset' = in_offset
        /\ msg_pool' = msg_pool
    BY <1>4 DEF RecvMail
  <2>2. /\ in_offset' \in Slot /\ out_offset' \in Slot
        /\ entry' \in 0 .. Size
        /\ in_offset' = Wrap(out_offset' + entry')
    BY <1>1, <2>1 DEF RingOK, Slot, Wrap
  <2> QED BY <1>1, <2>1, <2>2 DEF RingOK, Wrap, Slot
<1>5. CASE Reset
  BY <1>1, <1>5 DEF Reset, RingOK, Slot, Wrap
<1>6. CASE DetachResume
  BY <1>2, <1>6 DEF DetachResume
<1> QED
  BY <1>2, <1>3, <1>4, <1>5, <1>6, StepCases
     DEF Call, SendFull, SendWait, RecvEmpty, RecvWait, WakeWithError, Return,
         TimeOut, DetachBegin, DetachLook, DetachHalt, vars

\* The calls and what the kernel keeps of each thread.
LEMMA FrameStep ==
  ASSUME MailboxInv, [Next]_vars
  PROVE  FrameOK' /\ TcbOK' /\ life' \in Life
<1>1. /\ FrameOK /\ TcbOK /\ RingOK /\ life \in Life
      /\ Size \in Nat \ {0}
  BY MailboxAssumption, TypeParts DEF MailboxInv
<1> USE DEF FrameOK, TcbOK, Error, Timeout, Life
<1>2. ASSUME UNCHANGED <<frame, tcb>>, life' \in Life PROVE FrameOK' /\ TcbOK' /\ life' \in Life
  BY <1>1, <1>2 DEF frame, tcb
<1>3. ASSUME NEW t \in Thread, Call(t) PROVE FrameOK' /\ TcbOK' /\ life' \in Life
  <2>1. FrameOK'
    BY <1>1, <1>3 DEF Call
  <2> QED BY <2>1, <1>1, <1>3 DEF Call, tcb
<1>4. ASSUME NEW h \in Thread, NEW kind, Wakes(h, kind)
      PROVE  stat' \in [Thread -> {"ready", "suspend"}] /\ timer' \in [Thread -> {0, 1}]
  BY <1>1, <1>4 DEF Wakes
<1>5. ASSUME NEW t \in Thread, NEW r \in {"EOK", "EFULL", "ETIMEOUT", "ERROR"},
             NEW m \in Mail \cup {NoMail}, Finish(t, r, m)
      PROVE  FrameOK'
  BY <1>1, <1>5 DEF Finish
<1>6. ASSUME NEW t \in Thread, NEW left \in Timeout, Suspend(t, left)
      PROVE  FrameOK' /\ TcbOK'
  BY <1>1, <1>6 DEF Suspend
<1>7. ASSUME NEW t \in Thread PROVE Left(t) \subseteq Timeout
  BY <1>1 DEF Left
<1>8. ASSUME NEW t \in Thread, SendMail(t) PROVE FrameOK' /\ TcbOK' /\ life' \in Life
  <2>1. FrameOK' /\ error' = error /\ life' = life
    BY <1>5, <1>8 DEF SendMail, Tries
  <2>2. stat' \in [Thread -> {"ready", "suspend"}] /\ timer' \in [Thread -> {0, 1}]
    BY <1>1, <1>4, <1>8, WakeReceiverFacts DEF SendMail
  <2> QED BY <2>1, <2>2, <1>1
<1>9. ASSUME NEW t \in Thread, SendFull(t) PROVE FrameOK' /\ TcbOK' /\ life' \in Life
  BY <1>1, <1>5, <1>9 DEF SendFull, Tries, tcb
<1>10. ASSUME NEW t \in Thread, SendWait(t) PROVE FrameOK' /\ TcbOK' /\ life' \in Life
  BY <1>1, <1>6, <1>7, <1>10 DEF SendWait, Tries
<1>11. ASSUME NEW t \in Thread, RecvMail(t) PROVE FrameOK' /\ TcbOK' /\ life' \in Life
  <2>1. msg_pool[out_offset] \in Mail \cup {NoMail}
    BY <1>1 DEF RingOK
  <2>2. FrameOK' /\ error' = error /\ life' = life
    BY <1>5, <1>11, <2>1 DEF RecvMail, Tries
  <2>3. stat' \in [Thread -> {"ready", "suspend"}] /\ timer' \in [Thread -> {0, 1}]
    BY <1>1, <1>4, <1>11, WakeSenderFacts DEF RecvMail
  <2> QED BY <2>2, <2>3, <1>1
<1>12. ASSUME NEW t \in Thread, RecvEmpty(t) PROVE FrameOK' /\ TcbOK' /\ life' \in Life
  <2>1. FrameOK'
    BY <1>5, <1>12 DEF RecvEmpty
  <2> QED BY <2>1, <1>1, <1>12 DEF RecvEmpty, Tries
<1>13. ASSUME NEW t \in Thread, RecvWait(t) PROVE FrameOK' /\ TcbOK' /\ life' \in Life
  BY <1>1, <1>6, <1>7, <1>13 DEF RecvWait, Tries
<1>14. ASSUME NEW t \in Thread, WakeWithError(t) PROVE FrameOK' /\ TcbOK' /\ life' \in Life
  BY <1>1, <1>5, <1>14 DEF WakeWithError, tcb
<1>15. ASSUME NEW t \in Thread, Return(t) PROVE FrameOK' /\ TcbOK' /\ life' \in Life
  BY <1>1, <1>15 DEF Return, tcb
<1>16. ASSUME NEW t \in Thread, TimeOut(t) PROVE FrameOK' /\ TcbOK' /\ life' \in Life
  BY <1>1, <1>16 DEF TimeOut, frame
<1>17. CASE Reset
  BY <1>1, <1>17 DEF Reset, frame
<1>18. CASE DetachResume
  <2>1. PICK h \in Thread, kind \in {"send", "recv"} :
          Wakes(h, kind) /\ error' = [error EXCEPT ![h] = "ERROR"]
    BY <1>18, DetachResumeFacts
  <2>2. UNCHANGED frame /\ life' \in {"receivers", "senders"}
    BY <1>18, DetachResumeFacts
  <2> QED BY <1>1, <1>4, <2>1, <2>2 DEF frame
<1>19. CASE DetachBegin \/ DetachLook \/ DetachHalt
  BY <1>1, <1>2, <1>19 DEF DetachBegin, DetachLook, DetachHalt
<1>20. CASE UNCHANGED vars
  BY <1>1, <1>2, <1>20 DEF vars
<1> QED
  BY <1>3, <1>8, <1>9, <1>10, <1>11, <1>12, <1>13, <1>14, <1>15, <1>16, <1>17,
     <1>18, <1>19, <1>20, StepCases
\* A step that leaves the lists, and does not start or end a sleep.
LEMMA SameSleepers ==
  ASSUME MailboxInv, UNCHANGED lists,
         Sleeping("recv")' = Sleeping("recv"), Sleeping("send")' = Sleeping("send")
  PROVE  ListsOK' /\ WaitersListed'
BY DEF MailboxInv, TypeOK, ListsOK, WaitersListed, lists, NoDup, ToSet

\* A step that ends one sleep.
LEMMA OneSleeperLess ==
  ASSUME MailboxInv, NEW h \in Thread, NEW kind \in {"send", "recv"}, Wakes(h, kind),
         UNCHANGED <<pc, op>> \/
           \E t \in Thread : /\ t \notin Sleeping("send") \cup Sleeping("recv")
                             /\ pc' = [pc EXCEPT ![t] = "return"] /\ UNCHANGED op
  PROVE  ListsOK' /\ WaitersListed'
<1>1. FrameOK /\ TcbOK
  BY TypeParts DEF MailboxInv
<1>2. ASSUME NEW k \in {"send", "recv"} PROVE Sleeping(k)' = Sleeping(k) \ {h}
  BY <1>1 DEF Sleeping, FrameOK, TcbOK, Wakes
<1>3. Sleeping("send")' = Sleeping("send") \ {h} /\ Sleeping("recv")' = Sleeping("recv") \ {h}
  BY <1>2
<1> QED BY <1>3 DEF Wakes, ListsOK, WaitersListed, MailboxInv

LEMMA ListStep ==
  ASSUME MailboxInv, [Next]_vars
  PROVE  ListsOK' /\ WaitersListed'
<1>1. FrameOK /\ TcbOK /\ ListsOK /\ WaitersListed /\ SleepersCall
  BY TypeParts DEF MailboxInv
<1> USE DEF FrameOK, TcbOK
<1>2. ASSUME UNCHANGED lists,
             \A t \in Thread :
               /\ (pc'[t] = "wait" /\ stat'[t] = "suspend")
                    <=> (pc[t] = "wait" /\ stat[t] = "suspend")
               /\ pc[t] = "wait" /\ stat[t] = "suspend" => op'[t] = op[t]
      PROVE  ListsOK' /\ WaitersListed'
  <2>1. Sleeping("recv")' = Sleeping("recv") /\ Sleeping("send")' = Sleeping("send")
    BY <1>2 DEF Sleeping
  <2> QED BY <1>2, <2>1, SameSleepers
<1>3. ASSUME NEW t \in Thread, Call(t) PROVE ListsOK' /\ WaitersListed'
  <2>1. UNCHANGED lists /\ UNCHANGED stat
    BY <1>3 DEF Call, tcb
  <2>2. /\ pc[t] = "idle" /\ pc' = [pc EXCEPT ![t] = "call"]
        /\ \A u \in Thread : u # t => op'[u] = op[u]
    BY <1>1, <1>3 DEF Call
  <2> QED BY <1>1, <1>2, <2>1, <2>2
<1>4. ASSUME NEW t \in Thread, NEW r, NEW m, Finish(t, r, m),
             ~(pc[t] = "wait" /\ stat[t] = "suspend"), UNCHANGED <<lists, stat>>
      PROVE  ListsOK' /\ WaitersListed'
  BY <1>1, <1>2, <1>4 DEF Finish
<1>5. ASSUME NEW t \in Thread, NEW kind, Tries(t, kind)
      PROVE  /\ t \notin Sleeping("send") \cup Sleeping("recv")
             /\ ~(pc[t] = "wait" /\ stat[t] = "suspend")
  BY <1>1, <1>5 DEF Tries, Sleeping
<1>6. ASSUME NEW t \in Thread, SendMail(t) PROVE ListsOK' /\ WaitersListed'
  <2>1. CASE receivers = <<>>
    <3>1. UNCHANGED <<lists, stat>>
      BY <1>6, <2>1, WakeReceiverFacts DEF SendMail
    <3> QED BY <1>4, <1>5, <1>6, <3>1 DEF SendMail
  <2>2. CASE receivers # <<>>
    <3>1. PICK h \in Thread : Wakes(h, "recv")
      BY <1>6, <2>2, WakeReceiverFacts DEF SendMail
    <3>2. pc' = [pc EXCEPT ![t] = "return"] /\ UNCHANGED op
      BY <1>6 DEF SendMail, Finish
    <3> QED BY <1>5, <1>6, <3>1, <3>2, OneSleeperLess DEF SendMail
  <2> QED BY <2>1, <2>2
<1>7. ASSUME NEW t \in Thread, RecvMail(t) PROVE ListsOK' /\ WaitersListed'
  <2>1. CASE senders = <<>>
    <3>1. UNCHANGED <<lists, stat>>
      BY <1>7, <2>1, WakeSenderFacts DEF RecvMail
    <3> QED BY <1>4, <1>5, <1>7, <3>1 DEF RecvMail
  <2>2. CASE senders # <<>>
    <3>1. PICK h \in Thread : Wakes(h, "send")
      BY <1>7, <2>2, WakeSenderFacts DEF RecvMail
    <3>2. pc' = [pc EXCEPT ![t] = "return"] /\ UNCHANGED op
      BY <1>7 DEF RecvMail, Finish
    <3> QED BY <1>5, <1>7, <3>1, <3>2, OneSleeperLess DEF RecvMail
  <2> QED BY <2>1, <2>2
<1>8. ASSUME NEW t \in Thread, SendFull(t) PROVE ListsOK' /\ WaitersListed'
  BY <1>4, <1>5, <1>8 DEF SendFull, tcb
<1>9. ASSUME NEW t \in Thread, RecvEmpty(t) PROVE ListsOK' /\ WaitersListed'
  BY <1>4, <1>5, <1>9 DEF RecvEmpty
<1>10. ASSUME NEW t \in Thread, SendWait(t) PROVE ListsOK' /\ WaitersListed'
  <2>1. /\ op[t] = "send" /\ UNCHANGED op
        /\ stat' = [stat EXCEPT ![t] = "suspend"] /\ pc' = [pc EXCEPT ![t] = "wait"]
    BY <1>10 DEF SendWait, Suspend, Tries
  <2>2. Sleeping("send")' = Sleeping("send") \cup {t} /\ Sleeping("recv")' = Sleeping("recv")
    BY <1>1, <2>1 DEF Sleeping
  <2>3. /\ senders' \in Seq(Thread) /\ NoDup(senders')
        /\ ToSet(senders') = ToSet(senders) \cup {t}
        /\ UNCHANGED receivers
    BY <1>10, SendWaitFacts
  <2> QED BY <1>1, <2>2, <2>3 DEF ListsOK, WaitersListed
<1>11. ASSUME NEW t \in Thread, RecvWait(t) PROVE ListsOK' /\ WaitersListed'
  <2>1. /\ op[t] = "recv" /\ UNCHANGED op
        /\ stat' = [stat EXCEPT ![t] = "suspend"] /\ pc' = [pc EXCEPT ![t] = "wait"]
    BY <1>11 DEF RecvWait, Suspend, Tries
  <2>2. Sleeping("recv")' = Sleeping("recv") \cup {t} /\ Sleeping("send")' = Sleeping("send")
    BY <1>1, <2>1 DEF Sleeping
  <2>3. /\ receivers' \in Seq(Thread) /\ NoDup(receivers')
        /\ ToSet(receivers') = ToSet(receivers) \cup {t}
        /\ UNCHANGED senders
    BY <1>11, RecvWaitFacts
  <2> QED BY <1>1, <2>2, <2>3 DEF ListsOK, WaitersListed
<1>12. ASSUME NEW t \in Thread, WakeWithError(t) PROVE ListsOK' /\ WaitersListed'
  BY <1>1, <1>4, <1>12 DEF WakeWithError, tcb
<1>13. ASSUME NEW t \in Thread, Return(t) PROVE ListsOK' /\ WaitersListed'
  <2>1. /\ pc[t] = "return" /\ pc' = [pc EXCEPT ![t] = "idle"]
        /\ op' = [op EXCEPT ![t] = "none"] /\ UNCHANGED <<lists, stat>>
    BY <1>13 DEF Return, tcb
  <2> QED BY <1>1, <1>2, <2>1
<1>14. ASSUME NEW t \in Thread, TimeOut(t) PROVE ListsOK' /\ WaitersListed'
  BY <1>14, TimeOutFacts, OneSleeperLess DEF TimeOut, frame
<1>15. CASE Reset
  <2>1. /\ receivers' = <<>> /\ senders' = <<>> /\ UNCHANGED <<pc, op>>
        /\ \A t \in Waiting \cap Thread : stat'[t] = "ready"
        /\ \A t \in Thread \ Waiting : stat'[t] = stat[t]
    BY <1>15 DEF Reset, frame
  <2>2. Waiting = Sleeping("recv") \cup Sleeping("send")
    BY <1>1 DEF Waiting, WaitersListed
  <2>3. Sleeping("recv")' = {} /\ Sleeping("send")' = {}
    BY <2>1, <2>2 DEF Sleeping
  <2>4. ToSet(<<>>) = {} /\ NoDup(<<>>) /\ <<>> \in Seq(Thread)
    BY DEF ToSet, NoDup
  <2> QED BY <2>1, <2>3, <2>4 DEF ListsOK, WaitersListed
<1>16. CASE DetachResume
  BY <1>16, DetachResumeFacts, OneSleeperLess DEF frame
<1>17. CASE DetachBegin \/ DetachLook \/ DetachHalt \/ UNCHANGED vars
  <2>1. UNCHANGED <<lists, stat, pc, op>>
    BY <1>17 DEF DetachBegin, DetachLook, DetachHalt, vars, tcb, frame
  <2> QED BY <1>2, <2>1
<1> QED
  BY <1>3, <1>6, <1>7, <1>8, <1>9, <1>10, <1>11, <1>12, <1>13, <1>14, <1>15,
     <1>16, <1>17, StepCases
\* No timer outlives its wait, no error is set on a sleeping thread.
LEMMA SleeperStep ==
  ASSUME MailboxInv, [Next]_vars
  PROVE  SleepersCall'
<1>1. FrameOK /\ TcbOK /\ WaitersListed /\ SleepersCall
  BY TypeParts DEF MailboxInv
<1> USE DEF FrameOK, TcbOK
<1>2. ASSUME NEW h \in Thread, NEW kind \in {"send", "recv"}, Wakes(h, kind)
      PROVE  /\ stat[h] = "suspend" /\ pc[h] = "wait" /\ stat'[h] = "ready" /\ timer'[h] = 0
             /\ \A u \in Thread \ {h} : stat'[u] = stat[u] /\ timer'[u] = timer[u]
  BY <1>1, <1>2 DEF Wakes, Sleeping
<1>3. ASSUME NEW t \in Thread, NEW r, NEW m, Finish(t, r, m),
             ~(pc[t] = "wait" /\ stat[t] = "suspend")
      PROVE  /\ stat[t] # "suspend" /\ timer[t] # 1
             /\ pc'[t] = "return" /\ UNCHANGED op
             /\ \A u \in Thread \ {t} : pc'[u] = pc[u] /\ timeout'[u] = timeout[u]
  BY <1>1, <1>3 DEF Finish, SleepersCall
<1>4. ASSUME NEW t \in Thread, NEW kind, Tries(t, kind)
      PROVE  ~(pc[t] = "wait" /\ stat[t] = "suspend")
  BY <1>1, <1>4 DEF Tries
<1>5. ASSUME NEW t \in Thread, Call(t) PROVE SleepersCall'
  <2>1. /\ pc[t] = "idle" /\ pc'[t] = "call" /\ UNCHANGED <<stat, error, timer>>
        /\ \A u \in Thread \ {t} : pc'[u] = pc[u] /\ op'[u] = op[u] /\ timeout'[u] = timeout[u]
    BY <1>1, <1>5 DEF Call, tcb
  <2> QED BY <1>1, <2>1 DEF SleepersCall
<1>6. ASSUME NEW t \in Thread, SendMail(t) PROVE SleepersCall'
  <2>1. UNCHANGED error /\ ~(pc[t] = "wait" /\ stat[t] = "suspend")
    BY <1>4, <1>6 DEF SendMail
  <2>2. /\ stat[t] # "suspend" /\ timer[t] # 1
        /\ pc'[t] = "return" /\ UNCHANGED op
        /\ \A u \in Thread \ {t} : pc'[u] = pc[u] /\ timeout'[u] = timeout[u]
    BY <1>3, <1>6, <2>1 DEF SendMail
  <2>3. CASE UNCHANGED <<stat, timer>>
    BY <1>1, <2>1, <2>2, <2>3 DEF SleepersCall
  <2>4. CASE \E h \in Thread : Wakes(h, "recv")
    <3>1. PICK h \in Thread : Wakes(h, "recv")
      BY <2>4
    <3> QED BY <1>1, <1>2, <2>1, <2>2, <3>1 DEF SleepersCall
  <2> QED BY <1>6, <2>3, <2>4, WakeReceiverFacts DEF SendMail
<1>7. ASSUME NEW t \in Thread, RecvMail(t) PROVE SleepersCall'
  <2>1. UNCHANGED error /\ ~(pc[t] = "wait" /\ stat[t] = "suspend")
    BY <1>4, <1>7 DEF RecvMail
  <2>2. /\ stat[t] # "suspend" /\ timer[t] # 1
        /\ pc'[t] = "return" /\ UNCHANGED op
        /\ \A u \in Thread \ {t} : pc'[u] = pc[u] /\ timeout'[u] = timeout[u]
    BY <1>3, <1>7, <2>1 DEF RecvMail
  <2>3. CASE UNCHANGED <<stat, timer>>
    BY <1>1, <2>1, <2>2, <2>3 DEF SleepersCall
  <2>4. CASE \E h \in Thread : Wakes(h, "send")
    <3>1. PICK h \in Thread : Wakes(h, "send")
      BY <2>4
    <3> QED BY <1>1, <1>2, <2>1, <2>2, <3>1 DEF SleepersCall
  <2> QED BY <1>7, <2>3, <2>4, WakeSenderFacts DEF RecvMail
<1>8. ASSUME NEW t \in Thread, NEW r, NEW m, Finish(t, r, m),
             ~(pc[t] = "wait" /\ stat[t] = "suspend"),
             UNCHANGED <<stat, timer>>, \A u \in Thread \ {t} : error'[u] = error[u]
      PROVE  SleepersCall'
  BY <1>1, <1>3, <1>8 DEF SleepersCall
<1>9. ASSUME NEW t \in Thread, SendFull(t) PROVE SleepersCall'
  BY <1>4, <1>8, <1>9 DEF SendFull, tcb
<1>10. ASSUME NEW t \in Thread, RecvEmpty(t) PROVE SleepersCall'
  <2>1. \A u \in Thread \ {t} : error'[u] = error[u]
    BY <1>1, <1>10 DEF RecvEmpty
  <2> QED BY <1>4, <1>8, <1>10, <2>1 DEF RecvEmpty
<1>11. ASSUME NEW t \in Thread, NEW left \in Timeout, Suspend(t, left), op[t] \in {"send", "recv"}
       PROVE  SleepersCall'
  BY <1>1, <1>11 DEF SleepersCall, Suspend
<1>12. ASSUME NEW t \in Thread PROVE Left(t) \subseteq Timeout
  BY <1>1 DEF Left, Timeout
<1>13. ASSUME NEW t \in Thread, SendWait(t) \/ RecvWait(t) PROVE SleepersCall'
  BY <1>11, <1>12, <1>13 DEF SendWait, RecvWait, Tries
<1>14. ASSUME NEW t \in Thread, WakeWithError(t) PROVE SleepersCall'
  BY <1>1, <1>8, <1>14 DEF WakeWithError, tcb
<1>15. ASSUME NEW t \in Thread, Return(t) PROVE SleepersCall'
  <2>1. /\ pc[t] = "return" /\ pc'[t] = "idle" /\ UNCHANGED <<stat, error, timer, timeout>>
        /\ \A u \in Thread \ {t} : pc'[u] = pc[u] /\ op'[u] = op[u]
    BY <1>1, <1>15 DEF Return, tcb
  <2> QED BY <1>1, <2>1 DEF SleepersCall
<1>16. ASSUME NEW h \in Thread, NEW kind \in {"send", "recv"}, Wakes(h, kind),
              UNCHANGED frame, \A u \in Thread \ {h} : error'[u] = error[u]
       PROVE  SleepersCall'
  BY <1>1, <1>2, <1>16 DEF SleepersCall, frame
<1>17. ASSUME NEW t \in Thread, TimeOut(t) PROVE SleepersCall'
  <2>1. UNCHANGED frame /\ \A u \in Thread \ {t} : error'[u] = error[u]
    BY <1>1, <1>17 DEF TimeOut
  <2> QED BY <1>16, <1>17, <2>1, TimeOutFacts
<1>18. CASE Reset
  <2>1. Waiting = Sleeping("recv") \cup Sleeping("send")
    BY <1>1 DEF Waiting, WaitersListed
  <2>2. \A t \in Thread : stat[t] = "suspend" => t \in Waiting
    BY <1>1, <2>1 DEF SleepersCall, Sleeping
  <2>3. /\ UNCHANGED frame
        /\ \A t \in Thread : stat'[t] = "ready" /\ timer'[t] # 1
    BY <1>1, <1>18, <2>2 DEF Reset, SleepersCall
  <2> QED BY <1>1, <2>3 DEF SleepersCall, frame
<1>19. CASE DetachResume
  <2>1. PICK h \in Thread, kind \in {"send", "recv"} :
          Wakes(h, kind) /\ error' = [error EXCEPT ![h] = "ERROR"]
    BY <1>19, DetachResumeFacts
  <2>2. UNCHANGED frame /\ \A u \in Thread \ {h} : error'[u] = error[u]
    BY <1>1, <1>19, <2>1, DetachResumeFacts
  <2> QED BY <1>16, <2>1, <2>2
<1>20. CASE DetachBegin \/ DetachLook \/ DetachHalt \/ UNCHANGED vars
  BY <1>1, <1>20 DEF DetachBegin, DetachLook, DetachHalt, vars, tcb, frame, SleepersCall
<1> QED
  BY <1>5, <1>6, <1>7, <1>9, <1>10, <1>13, <1>14, <1>15, <1>17, <1>18, <1>19,
     <1>20, StepCases

\* The threads woken without error are finitely many.
LEMMA WokenFinite ==
  ASSUME NEW kind
  PROVE  IsFiniteSet(Woken(kind)) /\ Cardinality(Woken(kind)) \in Nat
<1>1. IsFiniteSet(Woken(kind))
  BY MailboxAssumption, FS_Subset DEF Woken
<1> QED BY <1>1, FS_CardinalityType

\* A mail or a slot given out wakes one more, one taken leaves one less.
LEMMA WakeupStep ==
  ASSUME MailboxInv, [Next]_vars
  PROVE  NoLostWakeup'
<1>1. /\ FrameOK /\ TcbOK /\ WaitersListed /\ SleepersCall /\ NoLostWakeup
      /\ entry \in 0 .. Size /\ Size \in Nat \ {0}
  BY MailboxAssumption, TypeParts DEF MailboxInv, RingOK
<1> USE DEF FrameOK, TcbOK
<1> DEFINE R == Woken("recv")
           W == Woken("send")
<1>2. /\ IsFiniteSet(R) /\ Cardinality(R) \in Nat
      /\ IsFiniteSet(W) /\ Cardinality(W) \in Nat
  BY WokenFinite
<1>3. ASSUME NEW S, IsFiniteSet(S), NEW x
      PROVE  /\ x \notin S => Cardinality(S \cup {x}) = Cardinality(S) + 1
             /\ Cardinality(S \ {x}) >= Cardinality(S) - 1
             /\ Cardinality(S \ {x}) \in Nat
  <2>1. Cardinality(S) \in Nat
    BY <1>3, FS_CardinalityType
  <2>2. Cardinality(S \cup {x}) = IF x \in S THEN Cardinality(S) ELSE Cardinality(S) + 1
    BY <1>3, FS_AddElement
  <2>3. Cardinality(S \ {x}) = IF x \in S THEN Cardinality(S) - 1 ELSE Cardinality(S)
    BY <1>3, FS_RemoveElement
  <2>4. x \in S => Cardinality(S) # 0
    BY <1>3, FS_EmptySet
  <2> QED BY <2>1, <2>2, <2>3, <2>4
<1>4. ASSUME NEW h \in Thread, NEW kind \in {"send", "recv"}, Wakes(h, kind)
      PROVE  /\ h \notin R /\ h \notin W
             /\ pc[h] = "wait" /\ op[h] = kind /\ error[h] = "EOK" /\ stat'[h] = "ready"
             /\ \A u \in Thread \ {h} : stat'[u] = stat[u]
  BY <1>1, <1>4 DEF Wakes, Sleeping, Woken, SleepersCall
<1>5. ASSUME NEW t \in Thread, NEW r, NEW m, Finish(t, r, m)
      PROVE  /\ pc'[t] = "return" /\ UNCHANGED op
             /\ \A u \in Thread \ {t} : pc'[u] = pc[u]
  BY <1>1, <1>5 DEF Finish
<1>6. ASSUME NEW t \in Thread, NEW kind \in {"send", "recv"}, Tries(t, kind)
      PROVE  op[t] = kind /\ ~(pc[t] = "wait" /\ stat[t] = "suspend")
  BY <1>1, <1>6 DEF Tries
<1>7. ASSUME NEW t \in Thread, SendMail(t) PROVE NoLostWakeup'
  <2>1. /\ op[t] = "send" /\ ~(pc[t] = "wait" /\ stat[t] = "suspend")
        /\ entry' = entry + 1 /\ UNCHANGED error
        /\ pc'[t] = "return" /\ UNCHANGED op
        /\ \A u \in Thread \ {t} : pc'[u] = pc[u]
    BY <1>5, <1>6, <1>7 DEF SendMail
  <2>2. CASE receivers = <<>>
    <3>1. UNCHANGED <<lists, stat>>
      BY <1>7, <2>2, WakeReceiverFacts DEF SendMail
    <3>2. W' = W \ {t}
      BY <2>1, <3>1 DEF Woken
    <3>3. Cardinality(W') >= Cardinality(W) - 1 /\ Cardinality(W') \in Nat
      BY <1>2, <1>3, <3>2
    <3> QED BY <1>1, <1>2, <2>1, <2>2, <3>1, <3>3 DEF NoLostWakeup, lists
  <2>3. CASE receivers # <<>>
    <3>1. PICK h \in Thread : Wakes(h, "recv")
      BY <1>7, <2>3, WakeReceiverFacts DEF SendMail
    <3>2. /\ h \notin R /\ h \notin W /\ h # t
          /\ pc[h] = "wait" /\ op[h] = "recv" /\ error[h] = "EOK" /\ stat'[h] = "ready"
          /\ \A u \in Thread \ {h} : stat'[u] = stat[u]
      BY <1>4, <2>1, <3>1
    <3>3. R' = R \cup {h}
      BY <2>1, <3>2 DEF Woken
    <3>4. W' = W \ {t}
      BY <2>1, <3>2 DEF Woken
    <3>5. /\ Cardinality(R') = Cardinality(R) + 1
          /\ Cardinality(W') >= Cardinality(W) - 1 /\ Cardinality(W') \in Nat
      BY <1>2, <1>3, <3>2, <3>3, <3>4
    <3>6. senders' = senders
      BY <1>7, <2>3 DEF SendMail, WakeReceiver
    <3> QED BY <1>1, <1>2, <2>1, <2>3, <3>5, <3>6 DEF NoLostWakeup
  <2> QED BY <2>2, <2>3
<1>8. ASSUME NEW t \in Thread, RecvMail(t) PROVE NoLostWakeup'
  <2>1. /\ op[t] = "recv" /\ ~(pc[t] = "wait" /\ stat[t] = "suspend")
        /\ entry' = entry - 1 /\ UNCHANGED error
        /\ pc'[t] = "return" /\ UNCHANGED op
        /\ \A u \in Thread \ {t} : pc'[u] = pc[u]
    BY <1>5, <1>6, <1>8 DEF RecvMail
  <2>2. CASE senders = <<>>
    <3>1. UNCHANGED <<lists, stat>>
      BY <1>8, <2>2, WakeSenderFacts DEF RecvMail
    <3>2. R' = R \ {t}
      BY <2>1, <3>1 DEF Woken
    <3>3. Cardinality(R') >= Cardinality(R) - 1 /\ Cardinality(R') \in Nat
      BY <1>2, <1>3, <3>2
    <3> QED BY <1>1, <1>2, <2>1, <2>2, <3>1, <3>3 DEF NoLostWakeup, lists
  <2>3. CASE senders # <<>>
    <3>1. PICK h \in Thread : Wakes(h, "send")
      BY <1>8, <2>3, WakeSenderFacts DEF RecvMail
    <3>2. /\ h \notin R /\ h \notin W /\ h # t
          /\ pc[h] = "wait" /\ op[h] = "send" /\ error[h] = "EOK" /\ stat'[h] = "ready"
          /\ \A u \in Thread \ {h} : stat'[u] = stat[u]
      BY <1>4, <2>1, <3>1
    <3>3. W' = W \cup {h}
      BY <2>1, <3>2 DEF Woken
    <3>4. R' = R \ {t}
      BY <2>1, <3>2 DEF Woken
    <3>5. /\ Cardinality(W') = Cardinality(W) + 1
          /\ Cardinality(R') >= Cardinality(R) - 1 /\ Cardinality(R') \in Nat
      BY <1>2, <1>3, <3>2, <3>3, <3>4
    <3>6. receivers' = receivers
      BY <1>8, <2>3 DEF RecvMail, WakeSender
    <3> QED BY <1>1, <1>2, <2>1, <2>3, <3>5, <3>6 DEF NoLostWakeup
  <2> QED BY <2>2, <2>3
<1>9. ASSUME NEW t \in Thread, SendFull(t) \/ SendWait(t) PROVE NoLostWakeup'
  <2>1. /\ op[t] = "send" /\ entry = Size /\ entry' = entry
        /\ op' = op /\ receivers' = receivers
        /\ \A u \in Thread \ {t} :
             pc'[u] = pc[u] /\ stat'[u] = stat[u] /\ error'[u] = error[u]
    BY <1>1, <1>9 DEF SendFull, SendWait, Tries, Finish, Suspend, ring, lists, tcb
  <2>2. R' = R
    BY <2>1 DEF Woken
  <2>3. Cardinality(W') \in Nat
    <3>1. W' \subseteq Thread
      BY DEF Woken
    <3> QED BY <3>1, MailboxAssumption, FS_Subset, FS_CardinalityType
  <2> QED BY <1>1, <2>1, <2>2, <2>3 DEF NoLostWakeup
<1>10. ASSUME NEW t \in Thread, RecvEmpty(t) \/ RecvWait(t) PROVE NoLostWakeup'
  <2>1. /\ op[t] = "recv" /\ entry = 0 /\ entry' = entry
        /\ op' = op /\ senders' = senders
        /\ \A u \in Thread \ {t} :
             pc'[u] = pc[u] /\ stat'[u] = stat[u] /\ error'[u] = error[u]
    BY <1>1, <1>10 DEF RecvEmpty, RecvWait, Tries, Finish, Suspend, ring, lists
  <2>2. W' = W
    BY <2>1 DEF Woken
  <2>3. Cardinality(R') \in Nat
    <3>1. R' \subseteq Thread
      BY DEF Woken
    <3> QED BY <3>1, MailboxAssumption, FS_Subset, FS_CardinalityType
  <2> QED BY <1>1, <2>1, <2>2, <2>3 DEF NoLostWakeup
<1>11. ASSUME R' = R, W' = W, entry' = entry,
              receivers' # <<>> => receivers # <<>>, senders' # <<>> => senders # <<>>
       PROVE  NoLostWakeup'
  BY <1>1, <1>11 DEF NoLostWakeup
<1>12. ASSUME NEW t \in Thread, Call(t) \/ WakeWithError(t) \/ Return(t)
       PROVE  NoLostWakeup'
  <2>1. /\ UNCHANGED <<entry, receivers, senders, stat, error>>
        /\ pc'[t] # "wait" /\ (pc[t] # "wait" \/ error[t] # "EOK")
        /\ \A u \in Thread \ {t} : pc'[u] = pc[u] /\ op'[u] = op[u]
    BY <1>1, <1>12 DEF Call, WakeWithError, Return, Finish, ring, lists, tcb
  <2>2. R' = R /\ W' = W
    BY <2>1 DEF Woken
  <2> QED BY <1>11, <2>1, <2>2
<1>13. ASSUME NEW h \in Thread, NEW kind \in {"send", "recv"}, Wakes(h, kind),
              UNCHANGED frame, error'[h] # "EOK", entry' = entry,
              \A u \in Thread \ {h} : error'[u] = error[u]
       PROVE  NoLostWakeup'
  <2>1. R' = R /\ W' = W
    BY <1>4, <1>13 DEF Woken, frame
  <2>2. /\ receivers = <<>> => receivers' = <<>>
        /\ senders = <<>> => senders' = <<>>
    <3>1. /\ receivers' \in Seq(Thread) /\ ToSet(receivers') \subseteq ToSet(receivers)
          /\ senders' \in Seq(Thread) /\ ToSet(senders') \subseteq ToSet(senders)
      BY <1>13 DEF Wakes
    <3>2. ASSUME NEW s \in Seq(Thread), ToSet(s) = {} PROVE s = <<>>
      BY <3>2, EmptySeq DEF ToSet
    <3>3. ToSet(<<>>) = {}
      BY DEF ToSet
    <3> QED BY <3>1, <3>2, <3>3
  <2> QED BY <1>11, <1>13, <2>1, <2>2
<1>14. ASSUME NEW t \in Thread, TimeOut(t) PROVE NoLostWakeup'
  <2>1. /\ UNCHANGED frame /\ entry' = entry /\ error'[t] # "EOK"
        /\ \A u \in Thread \ {t} : error'[u] = error[u]
    BY <1>1, <1>14 DEF TimeOut, ring
  <2> QED BY <1>13, <1>14, <2>1, TimeOutFacts
<1>15. CASE Reset
  BY <1>15 DEF Reset, NoLostWakeup
<1>16. CASE DetachResume
  <2>1. PICK h \in Thread, kind \in {"send", "recv"} :
          Wakes(h, kind) /\ error' = [error EXCEPT ![h] = "ERROR"]
    BY <1>16, DetachResumeFacts
  <2>2. /\ UNCHANGED frame /\ entry' = entry /\ error'[h] # "EOK"
        /\ \A u \in Thread \ {h} : error'[u] = error[u]
    BY <1>1, <1>16, <2>1, DetachResumeFacts DEF ring
  <2> QED BY <1>13, <2>1, <2>2
<1>17. CASE DetachBegin \/ DetachLook \/ DetachHalt \/ UNCHANGED vars
  <2>1. UNCHANGED <<ring, lists, tcb, frame>>
    BY <1>17 DEF DetachBegin, DetachLook, DetachHalt, vars
  <2>2. R' = R /\ W' = W
    BY <2>1 DEF Woken, tcb, frame
  <2> QED BY <1>11, <2>1, <2>2 DEF ring, lists
<1> QED
  BY <1>7, <1>8, <1>9, <1>10, <1>12, <1>14, <1>15, <1>16, <1>17, StepCases

-----------------------------------------------------------------------------
(* The theorems.                                                           *)

LEMMA InitInv == Init => MailboxInv
<1> SUFFICES ASSUME Init PROVE MailboxInv
  OBVIOUS
<1>1. TypeOK
  BY MailboxAssumption DEF Init, TypeOK, Slot, Wrap, Error, Timeout, Life
<1>2. WaitersListed
  BY DEF Init, WaitersListed, Sleeping, NoDup, ToSet
<1>3. SleepersCall
  BY DEF Init, SleepersCall
<1>4. NoLostWakeup
  BY DEF Init, NoLostWakeup
<1> QED BY <1>1, <1>2, <1>3, <1>4 DEF MailboxInv

LEMMA StepInv == MailboxInv /\ [Next]_vars => MailboxInv'
<1> SUFFICES ASSUME MailboxInv, [Next]_vars PROVE MailboxInv'
  OBVIOUS
<1>1. TypeOK'
  BY RingStep, FrameStep, ListStep
     DEF TypeOK, RingOK, ListsOK, TcbOK, FrameOK
<1> QED BY <1>1, ListStep, SleeperStep, WakeupStep DEF MailboxInv

\* The invariant holds: the lists hold exactly the sleeping threads, timers
\* belong to waits, and the wake-ups under way cover the mails and the slots.
THEOREM MailboxInvariance == Spec => []MailboxInv
BY InitInv, StepInv, PTL DEF Spec

\* Every variable keeps its type, and the offsets of the ring agree with the
\* number of mails for every size of the pool.
THEOREM MailboxType == Spec => []TypeOK
<1>1. MailboxInv => TypeOK
  BY DEF MailboxInv
<1> QED BY <1>1, MailboxInvariance, PTL

\* rt_mb_send_wait and rt_mb_recv lose no wake-up, for any number of callers,
\* any size and either order of the lists.
THEOREM MailboxWakeups == Spec => []NoLostWakeup
<1>1. MailboxInv => NoLostWakeup
  BY DEF MailboxInv
<1> QED BY <1>1, MailboxInvariance, PTL

\* rt_thread_timeout is only ever called for a thread that is suspended in a
\* call with a time limit, and finds it in a list.
THEOREM MailboxTimers == Spec => []TimerHasWaiter
<1>1. MailboxInv => TimerHasWaiter
  BY DEF MailboxInv, WaitersListed, SleepersCall, TimerHasWaiter, Waiting, Sleeping
<1> QED BY <1>1, MailboxInvariance, PTL

-----------------------------------------------------------------------------
(* Mailbox implements MailQueue.                                           *)

\* A call that is over does not wait any more.
ReturnsTidy == \A t \in Thread : pc[t] = "return" => timeout[t] = "none"

LEMMA TidyStep ==
  ASSUME MailboxInv, ReturnsTidy, [Next]_vars
  PROVE  ReturnsTidy'
<1>1. FrameOK
  BY TypeParts DEF MailboxInv
<1> USE DEF FrameOK, ReturnsTidy
<1>2. ASSUME NEW t \in Thread, Call(t) PROVE ReturnsTidy'
  BY <1>1, <1>2 DEF Call
<1>3. ASSUME NEW t \in Thread, NEW r, NEW m, Finish(t, r, m) PROVE ReturnsTidy'
  BY <1>1, <1>3 DEF Finish
<1>4. ASSUME NEW t \in Thread, NEW left \in Timeout, Suspend(t, left) PROVE ReturnsTidy'
  BY <1>1, <1>4 DEF Suspend
<1>5. ASSUME NEW t \in Thread PROVE Left(t) \subseteq Timeout
  BY <1>1 DEF Left, Timeout
<1>6. ASSUME NEW t \in Thread, Return(t) PROVE ReturnsTidy'
  BY <1>1, <1>6 DEF Return
<1>7. ASSUME UNCHANGED frame PROVE ReturnsTidy'
  BY <1>7 DEF frame
<1>8. ASSUME NEW t \in Thread,
             SendMail(t) \/ SendFull(t) \/ RecvMail(t) \/ RecvEmpty(t) \/ WakeWithError(t)
      PROVE  ReturnsTidy'
  BY <1>3, <1>8 DEF SendMail, SendFull, RecvMail, RecvEmpty, WakeWithError
<1>9. ASSUME NEW t \in Thread, SendWait(t) \/ RecvWait(t) PROVE ReturnsTidy'
  BY <1>4, <1>5, <1>9 DEF SendWait, RecvWait
<1>10. ASSUME NEW t \in Thread, TimeOut(t) PROVE ReturnsTidy'
  BY <1>7, <1>10 DEF TimeOut
<1>11. CASE Reset \/ DetachBegin \/ DetachLook \/ DetachResume \/ DetachHalt \/ UNCHANGED vars
  BY <1>7, <1>11 DEF Reset, DetachBegin, DetachLook, DetachResume, DetachHalt, vars
<1> QED BY <1>2, <1>6, <1>8, <1>9, <1>10, <1>11, StepCases

-----------------------------------------------------------------------------
(* The ring as a queue.                                                    *)

LEMMA MailsType ==
  ASSUME MailboxInv
  PROVE  Mails \in Seq(Mail \cup {NoMail}) /\ Len(Mails) = entry /\ entry \in 0 .. Size
<1>1. RingOK /\ Size \in Nat \ {0}
  BY MailboxAssumption, TypeParts DEF MailboxInv
<1>2. \A i \in 1 .. entry : msg_pool[Wrap(out_offset + i - 1)] \in Mail \cup {NoMail}
  BY <1>1 DEF RingOK, Slot, Wrap
<1> QED BY <1>1, <1>2 DEF Mails, RingOK

LEMMA MailsAppend ==
  ASSUME MailboxInv, NEW t \in Thread, SendMail(t)
  PROVE  Len(Mails) < Size /\ Mails' = Append(Mails, mail[t])
<1>1. /\ RingOK /\ Size \in Nat \ {0} /\ mail[t] \in Mail \cup {NoMail}
      /\ entry # Size /\ entry' = entry + 1 /\ out_offset' = out_offset
      /\ msg_pool' = [msg_pool EXCEPT ![in_offset] = mail[t]]
  BY MailboxAssumption, TypeParts DEF MailboxInv, FrameOK, SendMail
<1>2. Mails \in Seq(Mail \cup {NoMail}) /\ Len(Mails) = entry
  BY MailsType
<1>3. ASSUME NEW i \in 1 .. entry
      PROVE  msg_pool'[Wrap(out_offset + i - 1)] = Mails[i]
  <2>1. Wrap(out_offset + i - 1) \in Slot /\ Wrap(out_offset + i - 1) # in_offset
    BY <1>1, <1>3 DEF RingOK, Slot, Wrap
  <2> QED BY <1>1, <1>3, <2>1 DEF Mails, RingOK
<1>4. msg_pool'[Wrap(out_offset + entry)] = mail[t]
  BY <1>1 DEF RingOK
<1>5. Mails' = [i \in 1 .. entry + 1 |-> msg_pool'[Wrap(out_offset + i - 1)]]
  BY <1>1 DEF Mails, Wrap
<1>6. /\ entry \in Nat /\ entry + 1 \in 1 .. entry + 1 /\ out_offset + (entry + 1) - 1 = out_offset + entry
  BY <1>1 DEF RingOK, Slot
<1> DEFINE q == Append(Mails, mail[t])
<1>7. /\ q \in Seq(Mail \cup {NoMail}) /\ Len(q) = entry + 1
      /\ \A i \in 1 .. entry : q[i] = Mails[i]
      /\ q[entry + 1] = mail[t]
  BY <1>1, <1>2, AppendProperties
<1> HIDE DEF q
<1>8. q = [i \in 1 .. entry + 1 |-> q[i]]
  BY <1>7
<1>9. \A i \in 1 .. entry + 1 : q[i] = msg_pool'[Wrap(out_offset + i - 1)]
  <2> TAKE i \in 1 .. entry + 1
  <2>1. CASE i \in 1 .. entry
    BY <2>1, <1>3, <1>7
  <2>2. CASE i = entry + 1
    BY <2>2, <1>4, <1>6, <1>7
  <2> QED BY <2>1, <2>2, <1>6
<1>10. Mails' = q
  BY <1>5, <1>8, <1>9
<1>11. Len(Mails) < Size
  BY <1>1, <1>2 DEF RingOK
<1> QED BY <1>10, <1>11 DEF q

LEMMA MailsTail ==
  ASSUME MailboxInv, NEW t \in Thread, RecvMail(t)
  PROVE  Mails # <<>> /\ Head(Mails) = msg_pool[out_offset] /\ Mails' = Tail(Mails)
<1>1. /\ RingOK /\ Size \in Nat \ {0}
      /\ entry # 0 /\ entry' = entry - 1 /\ out_offset' = Wrap(out_offset + 1)
      /\ msg_pool' = msg_pool
  BY MailboxAssumption, TypeParts DEF MailboxInv, RecvMail
<1>2. Mails \in Seq(Mail \cup {NoMail}) /\ Len(Mails) = entry
  BY MailsType
<1>3. Mails # <<>> /\ Head(Mails) = Mails[1]
  BY <1>1, <1>2
<1>4. Mails[1] = msg_pool[out_offset]
  BY <1>1 DEF Mails, RingOK, Wrap, Slot
<1>5. ASSUME NEW i \in 1 .. entry - 1
      PROVE  /\ i + 1 \in 1 .. entry
             /\ Wrap(Wrap(out_offset + 1) + i - 1) = Wrap(out_offset + (i + 1) - 1)
  BY <1>1, <1>5 DEF RingOK, Slot, Wrap
<1>6. Mails' = [i \in 1 .. entry - 1 |-> msg_pool[Wrap(Wrap(out_offset + 1) + i - 1)]]
  BY <1>1 DEF Mails, Wrap
<1>7. \A i \in 1 .. entry - 1 :
        msg_pool[Wrap(Wrap(out_offset + 1) + i - 1)] = Mails[i + 1]
  BY <1>5 DEF Mails
<1> DEFINE q == Tail(Mails)
<1>8. /\ q \in Seq(Mail \cup {NoMail}) /\ Len(q) = entry - 1
      /\ \A i \in 1 .. entry - 1 : q[i] = Mails[i + 1]
  BY <1>2, <1>3, HeadTailProperties
<1> HIDE DEF q
<1>9. q = [i \in 1 .. entry - 1 |-> q[i]]
  BY <1>8
<1>10. Mails' = q
  BY <1>6, <1>7, <1>8, <1>9
<1> QED BY <1>3, <1>4, <1>10 DEF q

LEMMA MailsSame ==
  ASSUME UNCHANGED ring
  PROVE  Mails' = Mails
BY DEF ring, Mails, Wrap
-----------------------------------------------------------------------------
(* The steps.                                                              *)

\* A call that ends, seen from outside.
LEMMA FinishIsDone ==
  ASSUME MailboxInv, NEW t \in Thread, NEW r, NEW m, Finish(t, r, m),
         \A u \in Thread \ {t} : error'[u] = error[u]
  PROVE  /\ Calls' = [Calls EXCEPT ![t] = "done"]
         /\ Results' = [Results EXCEPT ![t] = r]
         /\ Words' = [Words EXCEPT ![t] = m]
         /\ Limits' = [Limits EXCEPT ![t] = "none"]
<1>1. FrameOK /\ TcbOK
  BY TypeParts DEF MailboxInv
<1>2. /\ pc' = [pc EXCEPT ![t] = "return"] /\ ret' = [ret EXCEPT ![t] = r]
      /\ mail' = [mail EXCEPT ![t] = m] /\ timeout' = [timeout EXCEPT ![t] = "none"]
      /\ op' = op
  BY DEF Finish
<1>3. /\ pc'[t] = "return" /\ ret'[t] = r /\ mail'[t] = m /\ timeout'[t] = "none"
      /\ \A u \in Thread \ {t} : /\ pc'[u] = pc[u] /\ ret'[u] = ret[u] /\ mail'[u] = mail[u]
                                 /\ timeout'[u] = timeout[u] /\ error'[u] = error[u]
  BY <1>1, <1>2 DEF FrameOK
<1>4. Over(t)' /\ \A u \in Thread \ {t} : Over(u)' <=> Over(u)
  BY <1>3 DEF Over
<1>5. Calls' = [Calls EXCEPT ![t] = "done"]
  BY <1>2, <1>3, <1>4 DEF Calls
<1>6. Results' = [Results EXCEPT ![t] = r]
  BY <1>3, <1>4 DEF Results
<1>7. Words' = [Words EXCEPT ![t] = m]
  BY <1>3, <1>4 DEF Words
<1>8. Limits' = [Limits EXCEPT ![t] = "none"]
  BY <1>3, <1>4 DEF Limits
<1> QED BY <1>5, <1>6, <1>7, <1>8

\* A call that tries, seen from outside.
LEMMA TriesIsPending ==
  ASSUME MailboxInv, NEW t \in Thread, NEW kind \in {"send", "recv"}, Tries(t, kind)
  PROVE  /\ Calls[t] = kind /\ Words[t] = mail[t] /\ Limits[t] = timeout[t]
         /\ "none" \in Left(t) => Limits[t] # "forever"
         /\ \A l \in Left(t) \ {"none"} : l = timeout[t]
         /\ Up' = Up
<1>1. ~Over(t) /\ pc[t] # "idle" /\ op[t] = kind /\ life' = life
  BY DEF Tries, Over
<1>2. Calls[t] = kind /\ Words[t] = mail[t] /\ Limits[t] = timeout[t]
  BY <1>1 DEF Calls, Words, Limits
<1> QED BY <1>1, <1>2 DEF Left, Up

\* A step that leaves the callers' view alone.
LEMMA SameView ==
  ASSUME UNCHANGED frame,
         \A u \in Thread : pc[u] = "wait" => error'[u] = error[u]
  PROVE  UNCHANGED <<Calls, Words, Limits, Results>>
<1>1. \A u \in Thread : Over(u)' <=> Over(u)
  BY DEF Over, frame
<1>2. pc' = pc /\ op' = op /\ mail' = mail /\ timeout' = timeout /\ ret' = ret
  BY DEF frame
<1>3. Calls' = Calls
  BY <1>1, <1>2 DEF Calls
<1>4. Words' = Words
  BY <1>1, <1>2 DEF Words
<1>5. Limits' = Limits
  BY <1>1, <1>2 DEF Limits
<1>6. Results' = Results
  BY <1>1, <1>2 DEF Results
<1> QED BY <1>3, <1>4, <1>5, <1>6

\* The wait of a thread ends with an error, before the thread runs.
LEMMA ErrorIsDone ==
  ASSUME MailboxInv, NEW t \in Thread, NEW e \in {"ETIMEOUT", "ERROR"},
         t \in Sleeping("send") \cup Sleeping("recv"),
         UNCHANGED frame, error' = [error EXCEPT ![t] = e]
  PROVE  /\ Calls[t] \in {"send", "recv"} /\ Limits[t] = timeout[t]
         /\ Calls' = [Calls EXCEPT ![t] = "done"]
         /\ Results' = [Results EXCEPT ![t] = e]
         /\ Words' = [Words EXCEPT ![t] = NoMail]
         /\ Limits' = [Limits EXCEPT ![t] = "none"]
<1>1. FrameOK /\ TcbOK /\ SleepersCall
  BY TypeParts DEF MailboxInv
<1>2. /\ pc[t] = "wait" /\ error[t] = "EOK" /\ op[t] \in {"send", "recv"}
      /\ error'[t] = e /\ \A u \in Thread \ {t} : error'[u] = error[u]
  BY <1>1 DEF Sleeping, SleepersCall, TcbOK
<1>3. pc' = pc /\ op' = op /\ mail' = mail /\ timeout' = timeout /\ ret' = ret
  BY DEF frame
<1>4. ~Over(t) /\ Over(t)' /\ \A u \in Thread \ {t} : Over(u)' <=> Over(u)
  BY <1>2, <1>3 DEF Over
<1>5. Calls[t] \in {"send", "recv"} /\ Limits[t] = timeout[t]
  BY <1>2, <1>4 DEF Calls, Limits
<1>6. Calls' = [Calls EXCEPT ![t] = "done"]
  BY <1>2, <1>3, <1>4 DEF Calls
<1>7. Results' = [Results EXCEPT ![t] = e]
  BY <1>2, <1>3, <1>4 DEF Results
<1>8. Words' = [Words EXCEPT ![t] = NoMail]
  BY <1>2, <1>3, <1>4 DEF Words
<1>9. Limits' = [Limits EXCEPT ![t] = "none"]
  BY <1>2, <1>3, <1>4 DEF Limits
<1> QED BY <1>5, <1>6, <1>7, <1>8, <1>9

\* A call that goes to sleep is still pending.
LEMMA SuspendIsSame ==
  ASSUME MailboxInv, NEW t \in Thread, NEW kind \in {"send", "recv"}, Tries(t, kind),
         NEW left \in Left(t) \ {"none"}, Suspend(t, left)
  PROVE  UNCHANGED <<Calls, Words, Limits, Results>>
<1>1. FrameOK /\ TcbOK
  BY TypeParts DEF MailboxInv
<1>2. /\ pc[t] # "idle" /\ ~Over(t) /\ left = timeout[t]
      /\ left \in Timeout
  BY <1>1, TriesIsPending DEF Tries, Over, FrameOK
<1>3. /\ pc'[t] = "wait" /\ error'[t] = "EOK" /\ timeout' = timeout
      /\ op' = op /\ mail' = mail /\ ret' = ret
      /\ \A u \in Thread \ {t} : pc'[u] = pc[u] /\ error'[u] = error[u]
  BY <1>1, <1>2 DEF Suspend, FrameOK, TcbOK
<1>4. \A u \in Thread : Over(u)' <=> Over(u)
  BY <1>2, <1>3 DEF Over
<1>5. Calls' = Calls
  BY <1>2, <1>3, <1>4 DEF Calls
<1>6. Words' = Words
  BY <1>2, <1>3, <1>4 DEF Words
<1>7. Limits' = Limits
  BY <1>2, <1>3, <1>4 DEF Limits
<1>8. Results' = Results
  BY <1>2, <1>3, <1>4 DEF Results
<1> QED BY <1>5, <1>6, <1>7, <1>8
LEMMA InitImplements == Init => Promise!Init
<1> SUFFICES ASSUME Init PROVE Promise!Init
  OBVIOUS
<1>1. \A t \in Thread : ~Over(t) /\ pc[t] = "idle"
  BY DEF Init, Over
<1>2. Mails = <<>>
  BY DEF Init, Mails
<1>3. Calls = [t \in Thread |-> "none"]
  BY <1>1 DEF Calls
<1>4. Words = [t \in Thread |-> NoMail]
  BY <1>1 DEF Words, Init
<1>5. Limits = [t \in Thread |-> "none"]
  BY <1>1 DEF Limits, Init
<1>6. Results = [t \in Thread |-> "none"]
  BY <1>1 DEF Results, Init
<1>7. Up = TRUE
  BY DEF Up, Init
<1> QED BY <1>2, <1>3, <1>4, <1>5, <1>6, <1>7 DEF Promise!Init

LEMMA StepImplements ==
  ASSUME MailboxInv, ReturnsTidy, [Next]_vars
  PROVE  [Promise!Next]_(Promise!vars)
<1>1. FrameOK /\ TcbOK /\ WaitersListed /\ SleepersCall
  BY TypeParts DEF MailboxInv
<1>2. ASSUME UNCHANGED <<Mails, Calls, Words, Limits, Results, Up>>
      PROVE  [Promise!Next]_(Promise!vars)
  BY <1>2 DEF Promise!vars
<1>3. ASSUME NEW t \in Thread,
             Promise!Begin(t) \/ Promise!Put(t) \/ Promise!Take(t) \/ Promise!Refuse(t)
               \/ Promise!Expire(t) \/ Promise!Fail(t) \/ Promise!End(t)
      PROVE  [Promise!Next]_(Promise!vars)
  BY <1>3 DEF Promise!Next
<1>4. ASSUME NEW t \in Thread, Call(t) PROVE [Promise!Next]_(Promise!vars)
  <2>1. /\ pc[t] = "idle" /\ Up /\ Up' = Up /\ Mails' = Mails
        /\ pc' = [pc EXCEPT ![t] = "call"]
        /\ UNCHANGED <<error, ret>>
    BY <1>4, MailsSame DEF Call, Up, tcb
  <2>2. PICK l \in Timeout : timeout' = [timeout EXCEPT ![t] = l]
    BY <1>4 DEF Call
  <2>3. /\ pc'[t] = "call" /\ \A u \in Thread \ {t} : pc'[u] = pc[u]
        /\ \A u \in Thread : Over(u)' <=> Over(u)
        /\ ~Over(t)
    BY <1>1, <2>1 DEF FrameOK, Over
  <2>4. Calls[t] = "none"
    BY <2>1 DEF Calls
  <2>5. Limits' = [Limits EXCEPT ![t] = l]
    BY <1>1, <2>2, <2>3 DEF Limits, FrameOK
  <2>6. Results' = Results
    BY <2>1, <2>3 DEF Results, Over
  <2>7. \/ /\ Calls' = [Calls EXCEPT ![t] = "send"]
           /\ \E m \in Mail : Words' = [Words EXCEPT ![t] = m]
        \/ /\ Calls' = [Calls EXCEPT ![t] = "recv"]
           /\ Words' = Words
    <3>1. CASE /\ op' = [op EXCEPT ![t] = "send"]
               /\ \E m \in Mail : mail' = [mail EXCEPT ![t] = m]
      <4>1. PICK m \in Mail : mail' = [mail EXCEPT ![t] = m]
        BY <3>1
      <4>2. Calls' = [Calls EXCEPT ![t] = "send"]
        BY <1>1, <2>3, <3>1 DEF Calls, FrameOK
      <4>3. Words' = [Words EXCEPT ![t] = m]
        BY <1>1, <2>1, <2>3, <4>1 DEF Words, FrameOK
      <4> QED BY <4>2, <4>3
    <3>2. CASE op' = [op EXCEPT ![t] = "recv"] /\ mail' = mail
      <4>1. Calls' = [Calls EXCEPT ![t] = "recv"]
        BY <1>1, <2>3, <3>2 DEF Calls, FrameOK
      <4>2. Words' = Words
        BY <1>1, <2>1, <2>3, <3>2 DEF Words, FrameOK
      <4> QED BY <4>1, <4>2
    <3> QED BY <1>4, <3>1, <3>2 DEF Call
  <2>8. Promise!Begin(t)
    BY <2>1, <2>4, <2>5, <2>6, <2>7 DEF Promise!Begin, Timeout
  <2> QED BY <1>3, <2>8
<1>5. ASSUME NEW t \in Thread, SendMail(t) PROVE [Promise!Next]_(Promise!vars)
  <2>1. Tries(t, "send") /\ Finish(t, "EOK", NoMail) /\ error' = error
    BY <1>5 DEF SendMail
  <2>2. Calls[t] = "send" /\ Words[t] = mail[t] /\ Up' = Up
    BY <2>1, TriesIsPending
  <2>3. /\ Calls' = [Calls EXCEPT ![t] = "done"]
        /\ Results' = [Results EXCEPT ![t] = "EOK"]
        /\ Words' = [Words EXCEPT ![t] = NoMail]
        /\ Limits' = [Limits EXCEPT ![t] = "none"]
    BY <2>1, FinishIsDone
  <2>4. Len(Mails) < Size /\ Mails' = Append(Mails, mail[t])
    BY <1>5, MailsAppend
  <2>5. Promise!Put(t)
    BY <2>2, <2>3, <2>4 DEF Promise!Put, Promise!Done
  <2> QED BY <1>3, <2>5
<1>6. ASSUME NEW t \in Thread, RecvMail(t) PROVE [Promise!Next]_(Promise!vars)
  <2>1. Tries(t, "recv") /\ Finish(t, "EOK", msg_pool[out_offset]) /\ error' = error
    BY <1>6 DEF RecvMail
  <2>2. Calls[t] = "recv" /\ Up' = Up
    BY <2>1, TriesIsPending
  <2>3. /\ Calls' = [Calls EXCEPT ![t] = "done"]
        /\ Results' = [Results EXCEPT ![t] = "EOK"]
        /\ Words' = [Words EXCEPT ![t] = msg_pool[out_offset]]
        /\ Limits' = [Limits EXCEPT ![t] = "none"]
    BY <2>1, FinishIsDone
  <2>4. Mails # <<>> /\ Head(Mails) = msg_pool[out_offset] /\ Mails' = Tail(Mails)
    BY <1>6, MailsTail
  <2>5. Promise!Take(t)
    BY <2>2, <2>3, <2>4 DEF Promise!Take, Promise!Done
  <2> QED BY <1>3, <2>5
<1>7. ASSUME NEW t \in Thread, SendFull(t) PROVE [Promise!Next]_(Promise!vars)
  <2>1. /\ Tries(t, "send") /\ Finish(t, "EFULL", NoMail) /\ error' = error
        /\ "none" \in Left(t) /\ Mails' = Mails /\ entry = Size
    BY <1>7, MailsSame DEF SendFull, tcb
  <2>2. Calls[t] = "send" /\ Up' = Up /\ Limits[t] # "forever"
    BY <2>1, TriesIsPending
  <2>3. /\ Calls' = [Calls EXCEPT ![t] = "done"]
        /\ Results' = [Results EXCEPT ![t] = "EFULL"]
        /\ Words' = [Words EXCEPT ![t] = NoMail]
        /\ Limits' = [Limits EXCEPT ![t] = "none"]
    BY <2>1, FinishIsDone
  <2>4. Len(Mails) = Size
    BY <2>1, MailsType
  <2>5. Promise!Refuse(t)
    BY <2>1, <2>2, <2>3, <2>4 DEF Promise!Refuse, Promise!Done
  <2> QED BY <1>3, <2>5
<1>8. ASSUME NEW t \in Thread, RecvEmpty(t) PROVE [Promise!Next]_(Promise!vars)
  <2>1. /\ Tries(t, "recv") /\ Finish(t, "ETIMEOUT", NoMail)
        /\ \A u \in Thread \ {t} : error'[u] = error[u]
        /\ "none" \in Left(t) /\ Mails' = Mails /\ entry = 0
    BY <1>1, <1>8, MailsSame DEF RecvEmpty, TcbOK
  <2>2. Calls[t] = "recv" /\ Up' = Up /\ Limits[t] # "forever"
    BY <2>1, TriesIsPending
  <2>3. /\ Calls' = [Calls EXCEPT ![t] = "done"]
        /\ Results' = [Results EXCEPT ![t] = "ETIMEOUT"]
        /\ Words' = [Words EXCEPT ![t] = NoMail]
        /\ Limits' = [Limits EXCEPT ![t] = "none"]
    BY <2>1, FinishIsDone
  <2>4. Mails = <<>>
    BY <2>1, MailsType, EmptySeq
  <2>5. Promise!Refuse(t)
    BY <2>1, <2>2, <2>3, <2>4 DEF Promise!Refuse, Promise!Done
  <2> QED BY <1>3, <2>5
<1>9. ASSUME NEW t \in Thread, SendWait(t) PROVE [Promise!Next]_(Promise!vars)
  <2>1. PICK left \in Left(t) \ {"none"} : Suspend(t, left)
    BY <1>9 DEF SendWait
  <2>2. Tries(t, "send") /\ Mails' = Mails
    BY <1>9, MailsSame DEF SendWait
  <2>3. UNCHANGED <<Calls, Words, Limits, Results>> /\ Up' = Up
    BY <2>1, <2>2, SuspendIsSame, TriesIsPending
  <2> QED BY <1>2, <2>2, <2>3
<1>10. ASSUME NEW t \in Thread, RecvWait(t) PROVE [Promise!Next]_(Promise!vars)
  <2>1. PICK left \in Left(t) \ {"none"} : Suspend(t, left)
    BY <1>10 DEF RecvWait
  <2>2. Tries(t, "recv") /\ Mails' = Mails
    BY <1>10, MailsSame DEF RecvWait
  <2>3. UNCHANGED <<Calls, Words, Limits, Results>> /\ Up' = Up
    BY <2>1, <2>2, SuspendIsSame, TriesIsPending
  <2> QED BY <1>2, <2>2, <2>3
<1>11. ASSUME NEW t \in Thread, WakeWithError(t) PROVE [Promise!Next]_(Promise!vars)
  <2>1. /\ Over(t) /\ pc[t] = "wait" /\ Finish(t, error[t], NoMail)
        /\ error' = error /\ Mails' = Mails /\ Up' = Up
    BY <1>11, MailsSame DEF WakeWithError, Over, tcb, Up
  <2>2. /\ Calls' = [Calls EXCEPT ![t] = "done"]
        /\ Results' = [Results EXCEPT ![t] = error[t]]
        /\ Words' = [Words EXCEPT ![t] = NoMail]
        /\ Limits' = [Limits EXCEPT ![t] = "none"]
    BY <2>1, FinishIsDone
  <2>3. Calls[t] = "done" /\ Results[t] = error[t] /\ Words[t] = NoMail /\ Limits[t] = "none"
    BY <2>1 DEF Calls, Results, Words, Limits
  <2>4. Calls' = Calls
    BY <2>2, <2>3 DEF Calls
  <2>5. Results' = Results
    BY <2>2, <2>3 DEF Results
  <2>6. Words' = Words
    BY <2>2, <2>3 DEF Words
  <2>7. Limits' = Limits
    BY <2>2, <2>3 DEF Limits
  <2> QED BY <1>2, <2>1, <2>4, <2>5, <2>6, <2>7
<1>12. ASSUME NEW t \in Thread, Return(t) PROVE [Promise!Next]_(Promise!vars)
  <2>1. /\ pc[t] = "return" /\ pc'[t] = "idle" /\ timeout[t] = "none"
        /\ mail'[t] = NoMail /\ ret'[t] = "none"
        /\ \A u \in Thread \ {t} : /\ pc'[u] = pc[u] /\ op'[u] = op[u]
                                   /\ mail'[u] = mail[u] /\ ret'[u] = ret[u]
        /\ error' = error /\ timeout' = timeout /\ Mails' = Mails /\ Up' = Up
    BY <1>1, <1>12, MailsSame DEF Return, tcb, Up, FrameOK, ReturnsTidy
  <2>2. Over(t) /\ ~Over(t)' /\ \A u \in Thread \ {t} : Over(u)' <=> Over(u)
    BY <2>1 DEF Over
  <2>3. Calls[t] = "done"
    BY <2>1, <2>2 DEF Calls
  <2>4. Calls' = [Calls EXCEPT ![t] = "none"]
    BY <2>1, <2>2 DEF Calls
  <2>5. Words' = [Words EXCEPT ![t] = NoMail]
    BY <2>1, <2>2 DEF Words
  <2>6. Results' = [Results EXCEPT ![t] = "none"]
    BY <2>1, <2>2 DEF Results
  <2>7. Limits' = Limits
    BY <2>1, <2>2 DEF Limits
  <2>8. Promise!End(t)
    BY <2>1, <2>3, <2>4, <2>5, <2>6, <2>7 DEF Promise!End
  <2> QED BY <1>3, <2>8
<1>13. ASSUME NEW t \in Thread, TimeOut(t) PROVE [Promise!Next]_(Promise!vars)
  <2>1. /\ UNCHANGED frame /\ Mails' = Mails /\ Up' = Up
        /\ error' = [error EXCEPT ![t] = "ETIMEOUT"]
        /\ timeout[t] = "finite"
    BY <1>1, <1>13, MailsSame DEF TimeOut, Up, SleepersCall
  <2>2. t \in Sleeping("send") \cup Sleeping("recv")
    BY <1>13, TimeOutFacts DEF Wakes
  <2>3. /\ Calls[t] \in {"send", "recv"} /\ Limits[t] = timeout[t]
        /\ Calls' = [Calls EXCEPT ![t] = "done"]
        /\ Results' = [Results EXCEPT ![t] = "ETIMEOUT"]
        /\ Words' = [Words EXCEPT ![t] = NoMail]
        /\ Limits' = [Limits EXCEPT ![t] = "none"]
    BY <2>1, <2>2, ErrorIsDone
  <2>4. Promise!Expire(t)
    BY <2>1, <2>3 DEF Promise!Expire, Promise!Pending, Promise!Done
  <2> QED BY <1>3, <2>4
<1>14. CASE Reset
  <2> DEFINE F == Sleeping("send") \cup Sleeping("recv")
  <2>1. /\ UNCHANGED frame /\ Up /\ Up' = Up /\ entry' = 0
        /\ error' = [t \in Thread |-> IF t \in F THEN "ERROR" ELSE error[t]]
    BY <1>1, <1>14 DEF Reset, Up, Waiting, WaitersListed
  <2>2. /\ F \subseteq Thread
        /\ \A t \in F : pc[t] = "wait" /\ op[t] \in {"send", "recv"} /\ error[t] = "EOK"
    BY <1>1 DEF Sleeping, SleepersCall
  <2>3. pc' = pc /\ op' = op /\ mail' = mail /\ timeout' = timeout /\ ret' = ret
    BY <2>1 DEF frame
  <2>4. /\ \A t \in F : ~Over(t) /\ Over(t)' /\ error'[t] = "ERROR"
        /\ \A t \in Thread \ F : (Over(t)' <=> Over(t)) /\ error'[t] = error[t]
    BY <2>1, <2>2, <2>3 DEF Over
  <2> HIDE DEF F
  <2>5. Mails' = <<>>
    BY <2>1 DEF Mails
  <2>6. F \in SUBSET {t \in Thread : Promise!Pending(t)}
    BY <2>2, <2>4 DEF Promise!Pending, Calls
  <2>7. Calls' = [t \in Thread |-> IF t \in F THEN "done" ELSE Calls[t]]
    BY <2>2, <2>3, <2>4 DEF Calls
  <2>8. Results' = [t \in Thread |-> IF t \in F THEN "ERROR" ELSE Results[t]]
    BY <2>2, <2>3, <2>4 DEF Results
  <2>9. Words' = [t \in Thread |-> IF t \in F THEN NoMail ELSE Words[t]]
    BY <2>2, <2>3, <2>4 DEF Words
  <2>10. Limits' = [t \in Thread |-> IF t \in F THEN "none" ELSE Limits[t]]
    BY <2>2, <2>3, <2>4 DEF Limits
  <2>11. Promise!Clear
    BY <2>1, <2>5, <2>6, <2>7, <2>8, <2>9, <2>10 DEF Promise!Clear
  <2> QED BY <2>11 DEF Promise!Next
<1>15. CASE DetachBegin
  <2>1. UNCHANGED <<Mails, Calls, Words, Limits, Results>> /\ ~Up'
    BY <1>15, MailsSame, SameView DEF DetachBegin, Up, tcb
  <2>2. Promise!TakeDown
    BY <2>1 DEF Promise!TakeDown
  <2> QED BY <2>2 DEF Promise!Next
<1>16. CASE DetachLook \/ DetachHalt
  <2>1. UNCHANGED <<Mails, Calls, Words, Limits, Results>>
    BY <1>16, MailsSame, SameView DEF DetachLook, DetachHalt, tcb
  <2>2. Up' = Up
    BY <1>16 DEF DetachLook, DetachHalt, Up
  <2> QED BY <1>2, <2>1, <2>2
<1>17. CASE DetachResume
  <2>1. PICK h \in Thread, kind \in {"send", "recv"} :
          Wakes(h, kind) /\ error' = [error EXCEPT ![h] = "ERROR"]
    BY <1>17, DetachResumeFacts
  <2>2. UNCHANGED frame /\ Mails' = Mails /\ ~Up /\ ~Up'
    BY <1>17, DetachResumeFacts, MailsSame DEF DetachResume, Up
  <2>3. h \in Sleeping("send") \cup Sleeping("recv")
    BY <2>1 DEF Wakes
  <2>4. /\ Calls[h] \in {"send", "recv"}
        /\ Calls' = [Calls EXCEPT ![h] = "done"]
        /\ Results' = [Results EXCEPT ![h] = "ERROR"]
        /\ Words' = [Words EXCEPT ![h] = NoMail]
        /\ Limits' = [Limits EXCEPT ![h] = "none"]
    BY <2>1, <2>2, <2>3, ErrorIsDone
  <2>5. Up' = Up
    BY <2>2 DEF Up
  <2>6. Promise!Fail(h)
    BY <2>2, <2>4, <2>5 DEF Promise!Fail, Promise!Pending, Promise!Done
  <2> QED BY <1>3, <2>6
<1>18. CASE UNCHANGED vars
  <2>1. UNCHANGED <<Mails, Calls, Words, Limits, Results>>
    BY <1>18, MailsSame, SameView DEF vars, tcb
  <2>2. Up' = Up
    BY <1>18 DEF vars, Up
  <2> QED BY <1>2, <2>1, <2>2
<1> QED
  BY <1>4, <1>5, <1>6, <1>7, <1>8, <1>9, <1>10, <1>11, <1>12, <1>13, <1>14,
     <1>15, <1>16, <1>17, <1>18, StepCases

\* Every behaviour of the mailbox is one of the bounded queue it promises, for
\* any callers, mails, size and order of the waiting lists.
THEOREM MailboxImplementsMailQueue == Spec => ImplementsMailQueue
<1>1. Init => ReturnsTidy
  BY DEF Init, ReturnsTidy
<1>2. MailboxInv /\ ReturnsTidy /\ [Next]_vars => ReturnsTidy'
  BY TidyStep
<1>3. MailboxInv /\ ReturnsTidy /\ [Next]_vars => [Promise!Next]_(Promise!vars)
  BY StepImplements
<1>4. Spec => [](MailboxInv /\ ReturnsTidy)
  BY <1>1, <1>2, InitInv, StepInv, PTL DEF Spec
<1>5. Spec => Promise!Init /\ [][Promise!Next]_(Promise!vars)
  BY <1>3, <1>4, InitImplements, PTL DEF Spec
<1> QED BY <1>5 DEF ImplementsMailQueue, Promise!Spec
=============================================================================

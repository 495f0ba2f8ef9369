---------------------------- MODULE MessageQueue ----------------------------
(***************************************************************************)
(* The message queue of ipc.c: message buffers linked by their next fields *)
(* into a free list and a queue.  A sender takes a buffer from the free    *)
(* list, fills it with interrupts enabled and links it into the queue; a   *)
(* receiver unlinks one, copies it with interrupts enabled and frees it.   *)
(* Between its two sections a buffer belongs to the thread.                *)
(***************************************************************************)
EXTENDS IpcObject

CONSTANTS
  MaxMsgs,    \* mq->max_msgs
  Msg,        \* what is sent
  NoMsg       \* what a buffer holds before

ASSUME MessageQueueAssumption == MaxMsgs \in Nat \ {0} /\ NoMsg \notin Msg

Buffer == 1 .. MaxMsgs
Null   == 0

VARIABLES
  head, tail, free,   \* mq->msg_queue_head, msg_queue_tail, msg_queue_free
  entry,              \* mq->entry
  next,               \* of a buffer
  data,               \* the contents of a buffer
  hand,               \* the buffer a thread holds between its two sections
  word                \* what a thread sends, or has received

mqVars == <<head, tail, free, entry, next, data, hand, word>>

\* rt_mq_init and rt_mq_create put buffer after buffer in front of the free list.
MqInit ==
  /\ head = Null /\ tail = Null /\ entry = 0
  /\ free = MaxMsgs
  /\ next = [b \in Buffer |-> b - 1]
  /\ data = [b \in Buffer |-> NoMsg]
  /\ hand = [t \in Thread |-> Null]
  /\ word = [t \in Thread |-> NoMsg]

MqTypeOK ==
  /\ {head, tail, free} \subseteq Buffer \cup {Null}
  /\ entry \in 0 .. MaxMsgs
  /\ next \in [Buffer -> Buffer \cup {Null}]
  /\ data \in [Buffer -> Msg \cup {NoMsg}]
  /\ hand \in [Thread -> Buffer \cup {Null}]
  /\ word \in [Thread -> Msg \cup {NoMsg}]

-----------------------------------------------------------------------------
(* The sender.                                                             *)

SendKinds == {"mq_send", "mq_urgent"}

\* The message is larger than mq->msg_size.
MqTooLong(t) ==
  /\ \E kind \in SendKinds : Enters(t, kind, "mq") /\ Finish(t, kind, "ERROR")
  /\ UNCHANGED <<mqVars, suspend_thread, tcb, life, scene>>

MqFull(t) ==
  /\ free = Null
  /\ \E kind \in SendKinds : Enters(t, kind, "mq") /\ Finish(t, kind, "EFULL")
  /\ UNCHANGED <<mqVars, suspend_thread, tcb, life, scene>>

\* A sender has the first free buffer in its hand.
Reserve(t) ==
  /\ free # Null
  /\ \E kind \in SendKinds :
       Enters(t, kind, "mq") /\ op' = [op EXCEPT ![t] = kind]
  /\ \E m \in Msg : word' = [word EXCEPT ![t] = m]
  /\ hand' = [hand EXCEPT ![t] = free]
  /\ pc' = [pc EXCEPT ![t] = "fill"]
  /\ UNCHANGED <<head, tail, entry, next, data, suspend_thread, tcb,
                 timeout, ret, life, scene>>

\* Wrong variant: the buffer stays in the free list until it is linked.
MqTakeFree_KeepListed(t) == Reserve(t) /\ UNCHANGED free

\* The first section of rt_mq_send and rt_mq_urgent.
MqTakeFree(t) == Reserve(t) /\ free' = next[free]

\* The buffer b becomes the last of the queue.
LinkLast(b) ==
  /\ next' = IF tail = Null THEN [next EXCEPT ![b] = Null]
                            ELSE [next EXCEPT ![b] = Null, ![tail] = b]
  /\ tail' = b
  /\ head' = IF head = Null THEN b ELSE head

\* The buffer b becomes the first of the queue.
LinkFirst(b) ==
  /\ next' = [next EXCEPT ![b] = head]
  /\ head' = b
  /\ tail' = IF tail = Null THEN b ELSE tail

\* Filling the buffer, which nobody else holds, and linking it.
Deliver(t) ==
  /\ pc[t] = "fill"
  /\ data' = [data EXCEPT ![hand[t]] = word[t]]
  /\ \/ op[t] = "mq_send" /\ LinkLast(hand[t])
     \/ op[t] = "mq_urgent" /\ LinkFirst(hand[t])
  /\ entry' = entry + 1
  /\ hand' = [hand EXCEPT ![t] = Null]
  /\ word' = [word EXCEPT ![t] = NoMsg]
  /\ Finish(t, op[t], "EOK")
  /\ UNCHANGED <<free, error, life, scene>>

\* Wrong variant: a receiver is resumed only when the queue was empty.
MqLink_WakeIfEmpty(t) ==
  /\ Deliver(t)
  /\ IF entry = 0 THEN ResumeFirst("mq") ELSE UNCHANGED <<suspend_thread, stat, timer>>

\* The second section of rt_mq_send and rt_mq_urgent.
MqLink(t) == Deliver(t) /\ ResumeFirst("mq")

-----------------------------------------------------------------------------
(* The receiver.                                                           *)

\* The thread looks at the queue: at once, or woken without error.
Looks(t) == Enters(t, "mq_recv", "mq") \/ Woken(t, "mq_recv")

\* The receiver has the first buffer of the queue in its hand.
Unlink(t) ==
  /\ Looks(t) /\ entry # 0
  /\ hand' = [hand EXCEPT ![t] = head]
  /\ head' = next[head]
  /\ entry' = entry - 1
  /\ pc' = [pc EXCEPT ![t] = "drain"]
  /\ op' = [op EXCEPT ![t] = "mq_recv"]
  /\ timeout' = [timeout EXCEPT ![t] = "none"]
  /\ UNCHANGED <<free, next, data, word, suspend_thread, tcb, ret, life, scene>>

\* Wrong variant: the tail stays when the last message is taken.
MqTake_KeepTail(t) == Unlink(t) /\ UNCHANGED tail

MqTake(t) == Unlink(t) /\ tail' = IF tail = head THEN Null ELSE tail

\* Copying the message out, and the section that frees the buffer.
MqFree(t) ==
  /\ pc[t] = "drain"
  /\ word' = [word EXCEPT ![t] = data[hand[t]]]
  /\ next' = [next EXCEPT ![hand[t]] = free]
  /\ free' = hand[t]
  /\ hand' = [hand EXCEPT ![t] = Null]
  /\ Finish(t, "mq_recv", "EOK")
  /\ UNCHANGED <<head, tail, entry, data, suspend_thread, tcb, life, scene>>

\* The loop, unlike the first check, also sets thread->error.
MqEmpty(t) ==
  /\ Looks(t) /\ entry = 0 /\ "none" \in TimeLeft(t)
  /\ error' = [error EXCEPT ![t] = IF pc[t] = "wait" THEN "ETIMEOUT" ELSE @]
  /\ Finish(t, "mq_recv", "ETIMEOUT")
  /\ UNCHANGED <<mqVars, suspend_thread, stat, timer, life, scene>>

MqWait(t) ==
  /\ Looks(t) /\ entry = 0
  /\ \E left \in TimeLeft(t) \ {"none"} : Suspend(t, "mq", "mq_recv", left)
  /\ UNCHANGED <<mqVars, life, scene>>

\* The word a call has brought back is gone with the call.
MqForget(t) ==
  /\ word' = [word EXCEPT ![t] = NoMsg]
  /\ UNCHANGED <<head, tail, free, entry, next, data, hand>>

-----------------------------------------------------------------------------

\* The n buffers linked from b on.
Chain(b, n) ==
  LET nth[k \in 1 .. n] ==
        IF k = 1 THEN b ELSE IF nth[k - 1] = Null THEN Null ELSE next[nth[k - 1]]
  IN  nth

Queue == Chain(head, entry)

\* rt_mq_control(RT_IPC_CMD_RESET): the buffers of the queue go, the first one
\* first, to the front of the free list.
MqReset ==
  /\ ResetList("mq")
  /\ next' = [b \in Buffer |->
                IF b \notin ToSet(Queue) THEN next[b]
                ELSE IF b = head THEN free
                ELSE CHOOSE p \in ToSet(Queue) : next[p] = b]
  /\ free' = IF head = Null THEN free ELSE tail
  /\ head' = Null /\ tail' = Null /\ entry' = 0
  /\ UNCHANGED <<data, hand, word>>

MqThread(t) ==
  \/ MqTooLong(t) \/ MqFull(t) \/ MqTakeFree(t) \/ MqLink(t)
  \/ MqTake(t) \/ MqFree(t) \/ MqEmpty(t) \/ MqWait(t)

MqStep == MqReset \/ \E t \in Thread : MqThread(t)

-----------------------------------------------------------------------------

Holders == {t \in Thread : hand[t] # Null}

\* The n buffers from b on are linked, each once, and no other after them.
IsList(b, n) ==
  IF n = 0 THEN b = Null
  ELSE IsInjective(Chain(b, n)) /\ Chain(b, n)[n] # Null /\ next[Chain(b, n)[n]] = Null

\* rt_mq_send, rt_mq_urgent, rt_mq_recv and the reset move buffers in sections
\* that others may come between: every buffer is in the queue, in the free list
\* or in the hand of one thread, and msg_queue_tail and entry agree with the
\* queue.
BuffersInOnePlace ==
  LET unused == MaxMsgs - entry - Cardinality(Holders)
  IN  /\ unused >= 0
      /\ IsList(head, entry) /\ IsList(free, unused)
      /\ tail = IF entry = 0 THEN Null ELSE Queue[entry]
      /\ ToSet(Queue) \cup ToSet(Chain(free, unused)) \cup {hand[t] : t \in Holders} = Buffer

\* rt_mq_recv loops because another thread may take the message it was woken
\* for: nobody sleeps on a message that no woken thread is about to take.
NoMessageIsMissed ==
  suspend_thread["mq"] # <<>> =>
    entry <= Cardinality({t \in Thread : Woken(t, "mq_recv")})

\* The calls as their callers see them: a receiver is served when it takes its
\* buffer out of the queue, a sender when it links it.
Over(t) == pc[t] \in {"drain", "return"} \/ (pc[t] = "wait" /\ error[t] # "EOK")

MqCalls == SendKinds \cup {"mq_recv"}

CallOf   == [t \in Thread |-> IF op[t] \notin MqCalls THEN "none"
                               ELSE IF Over(t) THEN "done" ELSE op[t]]
WordOf   == [t \in Thread |-> IF pc[t] = "drain" THEN data[hand[t]] ELSE word[t]]
LimitOf  == [t \in Thread |-> IF CallOf[t] = "mq_recv" THEN timeout[t] ELSE "none"]
ResultOf == [t \in Thread |-> IF CallOf[t] # "done" THEN "none"
                               ELSE CASE pc[t] = "drain" -> "EOK"
                                      [] pc[t] = "wait" -> error[t]
                                      [] OTHER -> ret[t]]

Promise == INSTANCE MsgQueue WITH
  queue <- [i \in 1 .. entry |-> data[Queue[i]]],
  call <- CallOf, word <- WordOf, limit <- LimitOf, result <- ResultOf,
  up <- life["mq"] = "live", Size <- MaxMsgs

\* rt_mq_send, rt_mq_urgent and rt_mq_recv keep the promise of a bounded queue
\* with urgent messages, although a message is copied outside of the sections:
\* none is lost, doubled, mixed up or overtaken by a later plain one.
ImplementsMsgQueue == Promise!Spec
=============================================================================

------------------------------ MODULE MsgQueue ------------------------------
(***************************************************************************)
(* What a message queue promises its callers: a bounded queue of messages, *)
(* first in, first out but for the urgent ones, which go to the front.  A  *)
(* call takes effect at one moment between its start and its end.          *)
(***************************************************************************)
EXTENDS Integers, FiniteSets, Sequences

CONSTANTS Thread, Msg, NoMsg, Size

VARIABLES
  queue,     \* the messages held
  call,      \* "none", the kind of the call, or "done", by thread
  word,      \* the message to send, or the one received
  limit,     \* of a waiting receiver: "finite" or "forever"
  result,    \* of a call that is done
  up         \* FALSE once the queue is being taken down

vars == <<queue, call, word, limit, result, up>>

Init ==
  /\ queue = <<>>
  /\ call = [t \in Thread |-> "none"]
  /\ word = [t \in Thread |-> NoMsg]
  /\ limit = [t \in Thread |-> "none"]
  /\ result = [t \in Thread |-> "none"]
  /\ up = TRUE

Done(t, r, m) ==
  /\ call' = [call EXCEPT ![t] = "done"]
  /\ result' = [result EXCEPT ![t] = r]
  /\ word' = [word EXCEPT ![t] = m]
  /\ limit' = [limit EXCEPT ![t] = "none"]

\* A sender has room reserved for its message.
StartSend(t) ==
  /\ call[t] = "none"
  /\ \E kind \in {"mq_send", "mq_urgent"} : call' = [call EXCEPT ![t] = kind]
  /\ \E m \in Msg : word' = [word EXCEPT ![t] = m]
  /\ UNCHANGED <<queue, limit, result, up>>

\* The room is taken by messages held, sent and received.
NoRoom ==
  Len(queue) + Cardinality({t \in Thread : word[t] # NoMsg}) >= Size

RefuseSend(t) ==
  /\ call[t] = "none"
  /\ \/ NoRoom /\ Done(t, "EFULL", NoMsg)
     \/ Done(t, "ERROR", NoMsg)    \* too long a message
  /\ UNCHANGED <<queue, up>>

Put(t) ==
  /\ Len(queue) < Size
  /\ \/ call[t] = "mq_send" /\ queue' = Append(queue, word[t])
     \/ call[t] = "mq_urgent" /\ queue' = <<word[t]>> \o queue
  /\ Done(t, "EOK", NoMsg)
  /\ UNCHANGED up

StartRecv(t) ==
  /\ call[t] = "none" /\ queue = <<>>
  /\ call' = [call EXCEPT ![t] = "mq_recv"]
  /\ \E l \in {"finite", "forever"} : limit' = [limit EXCEPT ![t] = l]
  /\ UNCHANGED <<queue, word, result, up>>

Take(t) ==
  /\ call[t] \in {"none", "mq_recv"} /\ queue # <<>>
  /\ queue' = Tail(queue)
  /\ Done(t, "EOK", Head(queue))
  /\ UNCHANGED up

RefuseRecv(t) ==
  /\ \/ call[t] = "none" /\ queue = <<>>
     \/ call[t] = "mq_recv" /\ limit[t] = "finite"
  /\ Done(t, "ETIMEOUT", NoMsg)
  /\ UNCHANGED <<queue, up>>

Fail(t) ==
  /\ call[t] = "mq_recv" /\ ~up
  /\ Done(t, "ERROR", NoMsg)
  /\ UNCHANGED <<queue, up>>

End(t) ==
  /\ call[t] = "done"
  /\ call' = [call EXCEPT ![t] = "none"]
  /\ word' = [word EXCEPT ![t] = NoMsg]
  /\ result' = [result EXCEPT ![t] = "none"]
  /\ UNCHANGED <<queue, limit, up>>

\* The messages held are lost, and some of the waiting receivers fail.
Clear ==
  /\ queue' = <<>>
  /\ \E F \in SUBSET {t \in Thread : call[t] = "mq_recv"} :
       /\ call' = [t \in Thread |-> IF t \in F THEN "done" ELSE call[t]]
       /\ result' = [t \in Thread |-> IF t \in F THEN "ERROR" ELSE result[t]]
       /\ limit' = [t \in Thread |-> IF t \in F THEN "none" ELSE limit[t]]
  /\ UNCHANGED <<word, up>>

TakeDown ==
  /\ up' = FALSE
  /\ UNCHANGED <<queue, call, word, limit, result>>

Next ==
  \/ \E t \in Thread :
       \/ StartSend(t) \/ RefuseSend(t) \/ Put(t) \/ End(t)
       \/ StartRecv(t) \/ Take(t) \/ RefuseRecv(t) \/ Fail(t)
  \/ Clear
  \/ TakeDown

Spec == Init /\ [][Next]_vars
=============================================================================

----------------------------- MODULE MailQueue -----------------------------
(***************************************************************************)
(* What a mailbox promises its callers: a bounded queue, first in, first   *)
(* out, that hands every mail to one receiver.  A call takes effect at one *)
(* moment between its start and its end.  It may fail only                 *)
(*   - with EFULL (to send) or ETIMEOUT (to receive) while the queue is    *)
(*     full or empty, when it does not wait forever;                       *)
(*   - with ETIMEOUT when it has a time limit;                             *)
(*   - with ERROR when the queue is reset or taken down during the call.   *)
(***************************************************************************)
EXTENDS Integers, Sequences

CONSTANTS Thread, Mail, NoMail, Size

VARIABLES
  queue,     \* the mails held
  call,      \* "none", "send", "recv" or "done", by thread
  word,      \* the mail to send, or the mail received
  limit,     \* "none", "finite", "forever": how long the call may wait
  result,    \* of a call that is done
  up         \* FALSE once the queue is being taken down

vars == <<queue, call, word, limit, result, up>>

Init ==
  /\ queue = <<>>
  /\ call = [t \in Thread |-> "none"]
  /\ word = [t \in Thread |-> NoMail]
  /\ limit = [t \in Thread |-> "none"]
  /\ result = [t \in Thread |-> "none"]
  /\ up = TRUE

Pending(t) == call[t] \in {"send", "recv"}

Begin(t) ==
  /\ call[t] = "none" /\ up
  /\ \/ /\ call' = [call EXCEPT ![t] = "send"]
        /\ \E m \in Mail : word' = [word EXCEPT ![t] = m]
     \/ /\ call' = [call EXCEPT ![t] = "recv"]
        /\ UNCHANGED word
  /\ \E l \in {"none", "finite", "forever"} : limit' = [limit EXCEPT ![t] = l]
  /\ UNCHANGED <<queue, result, up>>

Done(t, r, m) ==
  /\ call' = [call EXCEPT ![t] = "done"]
  /\ result' = [result EXCEPT ![t] = r]
  /\ word' = [word EXCEPT ![t] = m]
  /\ limit' = [limit EXCEPT ![t] = "none"]
  /\ UNCHANGED up

Put(t) ==
  /\ call[t] = "send" /\ Len(queue) < Size
  /\ queue' = Append(queue, word[t])
  /\ Done(t, "EOK", NoMail)

Take(t) ==
  /\ call[t] = "recv" /\ queue # <<>>
  /\ queue' = Tail(queue)
  /\ Done(t, "EOK", Head(queue))

Refuse(t) ==
  /\ limit[t] # "forever"
  /\ \/ call[t] = "send" /\ Len(queue) = Size /\ Done(t, "EFULL", NoMail)
     \/ call[t] = "recv" /\ queue = <<>> /\ Done(t, "ETIMEOUT", NoMail)
  /\ UNCHANGED queue

Expire(t) ==
  /\ Pending(t) /\ limit[t] = "finite"
  /\ Done(t, "ETIMEOUT", NoMail)
  /\ UNCHANGED queue

Fail(t) ==
  /\ Pending(t) /\ ~up
  /\ Done(t, "ERROR", NoMail)
  /\ UNCHANGED queue

End(t) ==
  /\ call[t] = "done"
  /\ call' = [call EXCEPT ![t] = "none"]
  /\ word' = [word EXCEPT ![t] = NoMail]
  /\ result' = [result EXCEPT ![t] = "none"]
  /\ UNCHANGED <<queue, limit, up>>

\* The mails are lost, and some of the pending calls fail.
Clear ==
  /\ up
  /\ queue' = <<>>
  /\ \E F \in SUBSET {t \in Thread : Pending(t)} :
       /\ call' = [t \in Thread |-> IF t \in F THEN "done" ELSE call[t]]
       /\ result' = [t \in Thread |-> IF t \in F THEN "ERROR" ELSE result[t]]
       /\ word' = [t \in Thread |-> IF t \in F THEN NoMail ELSE word[t]]
       /\ limit' = [t \in Thread |-> IF t \in F THEN "none" ELSE limit[t]]
  /\ UNCHANGED up

TakeDown ==
  /\ up' = FALSE
  /\ UNCHANGED <<queue, call, word, limit, result>>

Next ==
  \/ \E t \in Thread :
       Begin(t) \/ Put(t) \/ Take(t) \/ Refuse(t) \/ Expire(t) \/ Fail(t) \/ End(t)
  \/ Clear
  \/ TakeDown

Spec == Init /\ [][Next]_vars
=============================================================================

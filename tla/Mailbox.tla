------------------------------ MODULE Mailbox ------------------------------
(***************************************************************************)
(* The mailbox of the RT-Thread kernel (ipc.c), a ring of machine words    *)
(* with two lists of waiting threads.                                      *)
(*                                                                         *)
(* A step is one section of code that runs with interrupts disabled, for   *)
(* nothing else touches the shared state.  Between two steps any interrupt *)
(* and any ready thread may run: the priorities of the scheduler choose    *)
(* some of these interleavings, the model has them all.  A thread stands   *)
(* also for an interrupt handler, which calls with timeout 0.              *)
(*                                                                         *)
(* Ticks are not counted.  A thread timer may run out whenever it is       *)
(* armed, and the time that is left after a wake-up may be none.           *)
(***************************************************************************)
EXTENDS Integers, FiniteSets, SequencesExt

CONSTANTS
  Thread,      \* the callers
  Mail,        \* the words sent
  NoMail,      \* what a slot holds before its first mail
  Size,        \* mb->size
  Flag,        \* RT_IPC_FLAG_FIFO or RT_IPC_FLAG_PRIO: "FIFO" or "PRIO"
  Prio,        \* the priority of every thread, 0 the highest
  Sends,       \* the threads that send
  Receives     \* the threads that receive

ASSUME MailboxAssumption ==
  /\ Size \in Nat \ {0}
  /\ NoMail \notin Mail
  /\ Flag \in {"FIFO", "PRIO"}
  /\ Prio \in [Thread -> Nat]
  /\ IsFiniteSet(Thread)

VARIABLES
  msg_pool, in_offset, out_offset, entry,   \* the ring
  receivers,   \* mb->parent.suspend_thread
  senders,     \* mb->suspend_sender_thread
  stat,        \* thread->stat: "ready" (or running), "suspend"
  error,       \* thread->error
  timer,       \* 1 when thread->thread_timer is started
  pc,          \* where the thread is in its call
  op, mail, timeout,   \* the call: its kind, *value, the time left
  ret,         \* what the call returns
  life         \* of the mailbox: "live", then where rt_mb_detach is

ring  == <<msg_pool, in_offset, out_offset, entry>>
lists == <<receivers, senders>>
tcb   == <<stat, error, timer>>
frame == <<pc, op, mail, timeout, ret>>
vars  == <<ring, lists, tcb, frame, life>>

Slot    == 0 .. Size - 1
Timeout == {"none", "finite", "forever"}
Error   == {"EOK", "ETIMEOUT", "ERROR"}
Life    == {"live", "receivers", "receiver", "senders", "sender", "gone", "halt"}

\* rt_mb_init and rt_mb_create.
Init ==
  /\ msg_pool = [i \in Slot |-> NoMail]
  /\ in_offset = 0 /\ out_offset = 0 /\ entry = 0
  /\ receivers = <<>> /\ senders = <<>>
  /\ stat = [t \in Thread |-> "ready"]
  /\ error = [t \in Thread |-> "EOK"]
  /\ timer = [t \in Thread |-> 0]
  /\ pc = [t \in Thread |-> "idle"]
  /\ op = [t \in Thread |-> "none"]
  /\ mail = [t \in Thread |-> NoMail]
  /\ timeout = [t \in Thread |-> "none"]
  /\ ret = [t \in Thread |-> "none"]
  /\ life = "live"

-----------------------------------------------------------------------------
(* The lists of waiting threads.                                           *)

Overtakes(t, u) == Flag = "PRIO" /\ Prio[t] < Prio[u]

\* Where rt_ipc_list_suspend puts t: in front of the first it overtakes.
IsPlace(list, t, i) ==
  /\ i \in 1 .. Len(list) + 1
  /\ \A j \in 1 .. i - 1 : ~Overtakes(t, list[j])
  /\ i <= Len(list) => Overtakes(t, list[i])

\* rt_ipc_list_suspend, and the thread timer of a call with a time limit.
Suspend(t, left) ==
  /\ stat' = [stat EXCEPT ![t] = "suspend"]
  /\ error' = [error EXCEPT ![t] = "EOK"]
  /\ timer' = [timer EXCEPT ![t] = IF left = "finite" THEN 1 ELSE 0]
  /\ pc' = [pc EXCEPT ![t] = "wait"]
  /\ timeout' = [timeout EXCEPT ![t] = left]
  /\ UNCHANGED <<op, mail, ret>>

\* Wrong variant: the timer of the thread keeps running.
Resume_KeepTimer(t) ==
  /\ stat' = [stat EXCEPT ![t] = "ready"]
  /\ UNCHANGED timer

\* rt_thread_resume.
Resume(t) ==
  /\ stat' = [stat EXCEPT ![t] = "ready"]
  /\ timer' = [timer EXCEPT ![t] = 0]

\* Wrong variant: nobody is resumed.
WakeReceiver_Nobody == UNCHANGED <<lists, stat, timer>>

\* A mail has come in: the first receiver, if one waits, is resumed.
WakeReceiver ==
  \/ receivers = <<>> /\ UNCHANGED <<lists, stat, timer>>
  \/ /\ receivers # <<>>
     /\ Resume(Head(receivers))
     /\ receivers' = Tail(receivers)
     /\ UNCHANGED senders

\* Wrong variant: nobody is resumed.
WakeSender_Nobody == UNCHANGED <<lists, stat, timer>>

\* A slot has become free: the first sender, if one waits, is resumed.
WakeSender ==
  \/ senders = <<>> /\ UNCHANGED <<lists, stat, timer>>
  \/ /\ senders # <<>>
     /\ Resume(Head(senders))
     /\ senders' = Tail(senders)
     /\ UNCHANGED receivers

-----------------------------------------------------------------------------
(* The calls.  A thread calls, tries, may wait, and returns.               *)

\* A detached mailbox fails the assertion on its type at the entry.
Call(t) ==
  /\ pc[t] = "idle" /\ life = "live"
  /\ \E limit \in Timeout :
       /\ timeout' = [timeout EXCEPT ![t] = limit]
       /\ \/ /\ t \in Sends
             /\ op' = [op EXCEPT ![t] = "send"]
             /\ \E m \in Mail : mail' = [mail EXCEPT ![t] = m]
          \/ /\ t \in Receives
             /\ op' = [op EXCEPT ![t] = "recv"]
             /\ UNCHANGED mail
  /\ pc' = [pc EXCEPT ![t] = "call"]
  /\ UNCHANGED <<ring, lists, tcb, ret, life>>

\* The thread enters a section of its call: at once, or woken without error.
Tries(t, kind) ==
  /\ op[t] = kind
  /\ pc[t] = "call" \/ (pc[t] = "wait" /\ stat[t] = "ready" /\ error[t] = "EOK")
  /\ UNCHANGED life

\* The time left: after a wake-up it is computed anew and may be used up.
Left(t) ==
  IF pc[t] = "wait" /\ timeout[t] = "finite" THEN {"finite", "none"} ELSE {timeout[t]}

Finish(t, result, m) ==
  /\ pc' = [pc EXCEPT ![t] = "return"]
  /\ ret' = [ret EXCEPT ![t] = result]
  /\ mail' = [mail EXCEPT ![t] = m]
  /\ timeout' = [timeout EXCEPT ![t] = "none"]
  /\ UNCHANGED op

\* An offset at the end of the pool starts again at its begin.
Wrap(offset) == IF offset >= Size THEN offset - Size ELSE offset

\* Wrong variant: takes a full ring.
SendMail_NoCheck(t) ==
  /\ Tries(t, "send")
  /\ msg_pool' = [msg_pool EXCEPT ![in_offset] = mail[t]]
  /\ in_offset' = Wrap(in_offset + 1)
  /\ entry' = entry + 1
  /\ WakeReceiver
  /\ Finish(t, "EOK", NoMail)
  /\ UNCHANGED <<out_offset, error>>

SendMail(t) ==
  /\ Tries(t, "send") /\ entry # Size
  /\ msg_pool' = [msg_pool EXCEPT ![in_offset] = mail[t]]
  /\ in_offset' = Wrap(in_offset + 1)
  /\ entry' = entry + 1
  /\ WakeReceiver
  /\ Finish(t, "EOK", NoMail)
  /\ UNCHANGED <<out_offset, error>>

SendFull(t) ==
  /\ Tries(t, "send") /\ entry = Size
  /\ "none" \in Left(t)
  /\ Finish(t, "EFULL", NoMail)
  /\ UNCHANGED <<ring, lists, tcb>>

SendWait(t) ==
  /\ Tries(t, "send") /\ entry = Size
  /\ \E left \in Left(t) \ {"none"} : Suspend(t, left)
  /\ \E i \in 1 .. Len(senders) + 1 :
       IsPlace(senders, t, i) /\ senders' = InsertAt(senders, i, t)
  /\ UNCHANGED <<ring, receivers>>

\* Wrong variant: reads the slot the next mail goes to.
RecvMail_InOffset(t) ==
  /\ Tries(t, "recv") /\ entry # 0
  /\ Finish(t, "EOK", msg_pool[in_offset])
  /\ out_offset' = Wrap(out_offset + 1)
  /\ entry' = entry - 1
  /\ WakeSender
  /\ UNCHANGED <<msg_pool, in_offset, error>>

RecvMail(t) ==
  /\ Tries(t, "recv") /\ entry # 0
  /\ Finish(t, "EOK", msg_pool[out_offset])
  /\ out_offset' = Wrap(out_offset + 1)
  /\ entry' = entry - 1
  /\ WakeSender
  /\ UNCHANGED <<msg_pool, in_offset, error>>

\* The loop, unlike the first check, also sets thread->error.
RecvEmpty(t) ==
  /\ Tries(t, "recv") /\ entry = 0
  /\ "none" \in Left(t)
  /\ Finish(t, "ETIMEOUT", NoMail)
  /\ error' = [error EXCEPT ![t] = IF pc[t] = "wait" THEN "ETIMEOUT" ELSE @]
  /\ UNCHANGED <<ring, lists, stat, timer>>

RecvWait(t) ==
  /\ Tries(t, "recv") /\ entry = 0
  /\ \E left \in Left(t) \ {"none"} : Suspend(t, left)
  /\ \E i \in 1 .. Len(receivers) + 1 :
       IsPlace(receivers, t, i) /\ receivers' = InsertAt(receivers, i, t)
  /\ UNCHANGED <<ring, senders>>

\* Woken with an error: the call returns it.
WakeWithError(t) ==
  /\ pc[t] = "wait" /\ stat[t] = "ready" /\ error[t] # "EOK"
  /\ Finish(t, error[t], NoMail)
  /\ UNCHANGED <<ring, lists, tcb, life>>

Return(t) ==
  /\ pc[t] = "return"
  /\ pc' = [pc EXCEPT ![t] = "idle"]
  /\ op' = [op EXCEPT ![t] = "none"]
  /\ mail' = [mail EXCEPT ![t] = NoMail]
  /\ ret' = [ret EXCEPT ![t] = "none"]
  /\ UNCHANGED <<ring, lists, tcb, timeout, life>>

-----------------------------------------------------------------------------
(* The tick interrupt, the reset and the detachment.                       *)

\* t is taken out of the list it waits in.
Unlink(t) ==
  \/ /\ \E i \in 1 .. Len(receivers) :
          receivers[i] = t /\ receivers' = RemoveAt(receivers, i)
     /\ UNCHANGED senders
  \/ /\ \E i \in 1 .. Len(senders) :
          senders[i] = t /\ senders' = RemoveAt(senders, i)
     /\ UNCHANGED receivers

\* rt_timer_check and rt_thread_timeout.
TimeOut(t) ==
  /\ timer[t] = 1
  /\ timer' = [timer EXCEPT ![t] = 0]
  /\ error' = [error EXCEPT ![t] = "ETIMEOUT"]
  /\ stat' = [stat EXCEPT ![t] = "ready"]
  /\ Unlink(t)
  /\ UNCHANGED <<ring, frame, life>>

\* The threads in a list.
Waiting == ToSet(receivers) \cup ToSet(senders)

\* rt_mb_control(RT_IPC_CMD_RESET), interrupts disabled throughout.
Reset ==
  /\ life = "live"
  /\ stat' = [t \in Thread |-> IF t \in Waiting THEN "ready" ELSE stat[t]]
  /\ timer' = [t \in Thread |-> IF t \in Waiting THEN 0 ELSE timer[t]]
  /\ error' = [t \in Thread |-> IF t \in Waiting THEN "ERROR" ELSE error[t]]
  /\ receivers' = <<>> /\ senders' = <<>>
  /\ entry' = 0 /\ in_offset' = 0 /\ out_offset' = 0
  /\ UNCHANGED <<msg_pool, frame, life>>

\* rt_mb_detach and rt_mb_delete.  rt_ipc_list_resume_all looks at the list
\* with interrupts enabled, then resumes its first thread with them disabled.
DetachBegin ==
  /\ life = "live" /\ life' = "receivers"
  /\ UNCHANGED <<ring, lists, tcb, frame>>

DetachLook ==
  /\ \/ life = "receivers" /\ life' = IF receivers = <<>> THEN "senders" ELSE "receiver"
     \/ life = "senders" /\ life' = IF senders = <<>> THEN "gone" ELSE "sender"
  /\ UNCHANGED <<ring, lists, tcb, frame>>

Abort(t) ==
  /\ Resume(t)
  /\ error' = [error EXCEPT ![t] = "ERROR"]

DetachResume ==
  /\ \/ /\ life = "receiver" /\ life' = "receivers"
        /\ receivers # <<>>
        /\ Abort(Head(receivers))
        /\ receivers' = Tail(receivers)
        /\ UNCHANGED senders
     \/ /\ life = "sender" /\ life' = "senders"
        /\ senders # <<>>
        /\ Abort(Head(senders))
        /\ senders' = Tail(senders)
        /\ UNCHANGED receivers
  /\ UNCHANGED <<ring, frame>>

\* The list has become empty meanwhile: its head is taken for a thread, and
\* the assertion on the thread's type stops the system.
DetachHalt ==
  /\ \/ life = "receiver" /\ receivers = <<>>
     \/ life = "sender" /\ senders = <<>>
  /\ life' = "halt"
  /\ UNCHANGED <<ring, lists, tcb, frame>>

Detach == DetachBegin \/ DetachLook \/ DetachResume \/ DetachHalt

-----------------------------------------------------------------------------

Send(t) == SendMail(t) \/ SendFull(t) \/ SendWait(t)
Recv(t) == RecvMail(t) \/ RecvEmpty(t) \/ RecvWait(t)

\* The steps of a thread once it has called.
Advance(t) == Send(t) \/ Recv(t) \/ WakeWithError(t) \/ Return(t)

Next ==
  /\ life # "halt"
  /\ \/ \E t \in Thread : Call(t) \/ Advance(t) \/ TimeOut(t)
     \/ Reset
     \/ Detach

Spec == Init /\ [][Next]_vars

\* A ready thread runs.  This is so where all threads of the mailbox have one
\* priority: the tick then gives each its time slice.  Under two priorities a
\* low thread may wait for a high one that polls, so instances with different
\* Prio use Spec only.  Nobody has to call.
Fairness == \A t \in Thread : WF_vars(life # "halt" /\ Advance(t))

FairSpec == Spec /\ Fairness

-----------------------------------------------------------------------------
(* Properties.                                                             *)

\* Every variable has its type, and the ring's offsets agree with its count.
TypeOK ==
  /\ msg_pool \in [Slot -> Mail \cup {NoMail}]
  /\ in_offset \in Slot /\ out_offset \in Slot
  /\ entry \in 0 .. Size
  /\ in_offset = Wrap(out_offset + entry)
  /\ receivers \in Seq(Thread) /\ senders \in Seq(Thread)
  /\ stat \in [Thread -> {"ready", "suspend"}]
  /\ error \in [Thread -> Error]
  /\ timer \in [Thread -> {0, 1}]
  /\ pc \in [Thread -> {"idle", "call", "wait", "return"}]
  /\ op \in [Thread -> {"none", "send", "recv"}]
  /\ mail \in [Thread -> Mail \cup {NoMail}]
  /\ timeout \in [Thread -> Timeout]
  /\ ret \in [Thread -> {"none", "EOK", "EFULL", "ETIMEOUT", "ERROR"}]
  /\ life \in Life

\* Resumed without error and not yet run: it will try again.
Woken(kind) ==
  {t \in Thread : pc[t] = "wait" /\ op[t] = kind /\ stat[t] = "ready" /\ error[t] = "EOK"}

\* rt_mb_send_wait and rt_mb_recv resume one thread for one mail or slot and
\* others may take it first.  No receiver sleeps on a mail nobody is about to
\* take, no sender on a free slot nobody is about to fill.
NoLostWakeup ==
  /\ receivers # <<>> => entry <= Cardinality(Woken("recv"))
  /\ senders # <<>> => Size - entry <= Cardinality(Woken("send"))

\* rt_thread_timeout asserts that its thread is suspended: a thread timer
\* never outlives the wait it was started for, whoever ends the wait.
TimerHasWaiter ==
  \A t \in Thread : timer[t] = 1 =>
    /\ stat[t] = "suspend"
    /\ timeout[t] = "finite"
    /\ t \in Waiting

\* rt_ipc_list_resume_all resumes threads: rt_thread_resume asserts that what
\* it is given is one.
DetachResumesThreads == life # "halt"

\* As long as the mailbox lives, a mail does not stay beside a receiver that
\* waits for one, nor a free slot beside a sender that waits for one.
WaitersAreServed ==
  \A t \in Thread :
    /\ (t \in ToSet(receivers) /\ entry > 0)
         ~> (t \notin ToSet(receivers) \/ entry = 0 \/ life # "live")
    /\ (t \in ToSet(senders) /\ entry < Size)
         ~> (t \notin ToSet(senders) \/ entry = Size \/ life # "live")
\* The call of t is over, whether or not it has run since.
Over(t) == pc[t] = "return" \/ (pc[t] = "wait" /\ error[t] # "EOK")

\* The mails in the ring, the oldest first.
Mails == [i \in 1 .. entry |-> msg_pool[Wrap(out_offset + i - 1)]]

\* The calls as their callers see them.
Calls   == [t \in Thread |-> IF pc[t] = "idle" THEN "none"
                             ELSE IF Over(t) THEN "done" ELSE op[t]]
Words   == [t \in Thread |-> IF pc[t] = "wait" /\ Over(t) THEN NoMail ELSE mail[t]]
Limits  == [t \in Thread |-> IF Over(t) THEN "none" ELSE timeout[t]]
Results == [t \in Thread |-> IF pc[t] = "wait" /\ Over(t) THEN error[t] ELSE ret[t]]
Up      == life = "live"

Promise == INSTANCE MailQueue WITH
  queue <- Mails, call <- Calls, word <- Words, limit <- Limits,
  result <- Results, up <- Up

\* rt_mb_send_wait and rt_mb_recv keep the promise of a bounded queue, whatever
\* resumes, time-outs, resets and other callers come in between: no mail is
\* lost, doubled or overtaken, and a call fails only for the reasons promised.
ImplementsMailQueue == Promise!Spec
=============================================================================

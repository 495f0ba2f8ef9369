------------------------------- MODULE Event -------------------------------
(***************************************************************************)
(* The event object of ipc.c: a set of bits.  A thread waits for all or    *)
(* for one of some bits and may clear what it gets.  A send looks at the   *)
(* waiters in the order of their list, and each may clear bits before the  *)
(* next one is looked at.                                                  *)
(***************************************************************************)
EXTENDS IpcObject

CONSTANTS
  Bits,      \* the bits of the set
  Options    \* the options the receivers use, of AllOptions

\* RT_EVENT_FLAG_AND or RT_EVENT_FLAG_OR, and RT_EVENT_FLAG_CLEAR.
AllOptions == SUBSET {"AND", "OR", "CLEAR"} \ {{}, {"CLEAR"}}

ASSUME EventAssumption == Options \subseteq AllOptions

VARIABLES
  set,          \* event->set
  event_set,    \* thread->event_set
  event_info,   \* thread->event_info
  recved        \* *recved of a call that returns, {} otherwise

eventVars == <<set, event_set, event_info, recved>>

EventInit ==
  /\ set = {}
  /\ event_set = [t \in Thread |-> {}]
  /\ event_info = [t \in Thread |-> {}]
  /\ recved = [t \in Thread |-> {}]

EventTypeOK ==
  /\ set \subseteq Bits
  /\ event_set \in [Thread -> SUBSET Bits]
  /\ event_info \in [Thread -> AllOptions \cup {{}}]
  /\ recved \in [Thread -> SUBSET Bits]

-----------------------------------------------------------------------------
(* The receiver.                                                           *)

\* Whether s satisfies a wait for the bits of wanted; AND is tested first.
Satisfies(s, wanted, option) ==
  IF "AND" \in option THEN wanted \subseteq s ELSE wanted \cap s # {}

\* A receiver asks for no bit.
EventRecvNothing(t) ==
  /\ Enters(t, "event_recv", "event")
  /\ Finish(t, "event_recv", "ERROR")
  /\ UNCHANGED <<eventVars, suspend_thread, tcb, life, scene>>

EventRecvNow(t) ==
  /\ Enters(t, "event_recv", "event")
  /\ \E wanted \in SUBSET Bits \ {{}}, option \in Options :
       /\ Satisfies(set, wanted, option)
       /\ recved' = [recved EXCEPT ![t] = set \cap wanted]
       /\ set' = IF "CLEAR" \in option THEN set \ wanted ELSE set
  /\ error' = [error EXCEPT ![t] = "EOK"]
  /\ Finish(t, "event_recv", "EOK")
  /\ UNCHANGED <<event_set, event_info, suspend_thread, stat, timer, life, scene>>

EventRecvRefused(t) ==
  /\ Enters(t, "event_recv", "event") /\ "none" \in Limits
  /\ \E wanted \in SUBSET Bits \ {{}}, option \in Options : ~Satisfies(set, wanted, option)
  /\ error' = [error EXCEPT ![t] = "ETIMEOUT"]
  /\ Finish(t, "event_recv", "ETIMEOUT")
  /\ UNCHANGED <<eventVars, suspend_thread, stat, timer, life, scene>>

EventRecvWait(t) ==
  /\ Enters(t, "event_recv", "event")
  /\ \E wanted \in SUBSET Bits \ {{}}, option \in Options :
       /\ ~Satisfies(set, wanted, option)
       /\ event_set' = [event_set EXCEPT ![t] = wanted]
       /\ event_info' = [event_info EXCEPT ![t] = option]
  /\ \E limit \in Limits \ {"none"} : Suspend(t, "event", "event_recv", limit)
  /\ UNCHANGED <<set, recved, life, scene>>

\* A send has left the bits in thread->event_set.
EventRecvWoken(t) ==
  /\ Woken(t, "event_recv")
  /\ recved' = [recved EXCEPT ![t] = event_set[t]]
  /\ Finish(t, "event_recv", "EOK")
  /\ UNCHANGED <<set, event_set, event_info, suspend_thread, tcb, life, scene>>

\* What is left in the fields of a thread that does not wait is never read.
EventForget(t) ==
  /\ event_set' = [event_set EXCEPT ![t] = {}]
  /\ event_info' = [event_info EXCEPT ![t] = {}]
  /\ recved' = [recved EXCEPT ![t] = {}]
  /\ UNCHANGED set

-----------------------------------------------------------------------------
(* The sender.                                                             *)

\* Wrong variant: the bits are cleared when all the waiters have been looked at.
Left_ClearLate(s, list) ==
  [k \in 0 .. Len(list) |->
     IF k < Len(list) THEN s
     ELSE s \ UNION {event_set[u] : u \in {v \in ToSet(list) :
            Satisfies(s, event_set[v], event_info[v]) /\ "CLEAR" \in event_info[v]}}]

\* The bits left after each of the waiters in turn, of the bits s.
Left(s, list) ==
  LET left[k \in 0 .. Len(list)] ==
        IF k = 0 THEN s
        ELSE IF /\ Satisfies(left[k - 1], event_set[list[k]], event_info[list[k]])
                /\ "CLEAR" \in event_info[list[k]]
             THEN left[k - 1] \ event_set[list[k]]
             ELSE left[k - 1]
  IN  left

EventSendNothing(t) ==
  /\ Enters(t, "event_send", "event")
  /\ Finish(t, "event_send", "ERROR")
  /\ UNCHANGED <<eventVars, suspend_thread, tcb, life, scene>>

\* A send that looks at the waiters of list.
SendTo(t, list) ==
  /\ Enters(t, "event_send", "event")
  /\ \E bits \in SUBSET Bits \ {{}} :
       LET left == Left(set \cup bits, list)
           At   == {k \in 1 .. Len(list) :
                      Satisfies(left[k - 1], event_set[list[k]], event_info[list[k]])}
       IN  /\ set' = left[Len(list)]
           /\ event_set' = [u \in Thread |->
                IF \E k \in At : list[k] = u
                THEN event_set[u] \cap left[(CHOOSE k \in At : list[k] = u) - 1]
                ELSE event_set[u]]
           /\ ResumeAll("event", {list[k] : k \in At})
  /\ UNCHANGED <<event_info, recved, error, frame, life, scene>>

\* Wrong variant: only the first waiter is looked at.
EventSend_FirstOnly(t) == 
  SendTo(t, SelectSeq(suspend_thread["event"],
                      LAMBDA u : u = Head(suspend_thread["event"])))

EventSend(t) == SendTo(t, suspend_thread["event"])

\* rt_event_control(RT_IPC_CMD_RESET).
EventReset ==
  /\ ResetList("event")
  /\ set' = {}
  /\ UNCHANGED <<event_set, event_info, recved>>

EventThread(t) ==
  \/ EventRecvNothing(t) \/ EventRecvNow(t) \/ EventRecvRefused(t)
  \/ EventRecvWait(t) \/ EventRecvWoken(t)
  \/ EventSendNothing(t) \/ EventSend(t)

EventStep == EventReset \/ \E t \in Thread : EventThread(t)

-----------------------------------------------------------------------------

\* Those whom a step of a send wakes.
WokenBy == {t \in Waiting : pc[t] = "wait" /\ stat'[t] = "ready" /\ error'[t] = "EOK"}

\* rt_event_send looks at every waiter once, at the bits the ones before have
\* left: nobody stays asleep whom the bits that are left would satisfy.
NoWaiterIsSatisfied ==
  \A t \in ToSet(suspend_thread["event"]) : ~Satisfies(set, event_set[t], event_info[t])

\* t waits in front of u.
InFrontOf(t, u) ==
  \E i, j \in DOMAIN suspend_thread["event"] :
    i < j /\ suspend_thread["event"][i] = t /\ suspend_thread["event"][j] = u

\* rt_event_send: who wakes gets what it asked for, and a bit that a waiter
\* clears is gone for the waiters behind it in the list and for later calls.
ClearedBitsGoToOne ==
  [][\A t \in WokenBy : op[t] = "event_recv" =>
       /\ Satisfies(event_set'[t], event_set[t], event_info[t])
       /\ "CLEAR" \in event_info[t] =>
            /\ event_set'[t] \cap set' = {}
            /\ \A u \in WokenBy : InFrontOf(t, u) => event_set'[t] \cap event_set'[u] = {}
    ]_<<eventVars, ipcVars>>
=============================================================================

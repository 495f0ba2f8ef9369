-------------------------------- MODULE Ipc --------------------------------
(***************************************************************************)
(* A semaphore, an event, a message queue and a memory pool and the        *)
(* threads that call them, one object at a time: the composition of the    *)
(* four modules.                                                           *)
(***************************************************************************)
EXTENDS Semaphore, Event, MessageQueue, MemPool

vars == <<ipcVars, semVars, eventVars, mqVars, mpVars>>

Init == IpcInit /\ SemInit /\ EventInit /\ MqInit /\ MpInit

\* A return clears what the call brought back; a time-out, a failed wait and
\* a detachment change nothing but the threads.
Common ==
  /\ \/ \E t \in Thread : Return(t) /\ UNCHANGED semVars /\ EventForget(t) /\ MqForget(t)
     \/ /\ \/ \E t \in Thread : WakeWithError(t) \/ TimeOut(t)
           \/ \E o \in Object \ {"mempool"} : Detach(o)
        /\ UNCHANGED <<semVars, eventVars, mqVars>>
  /\ UNCHANGED mpVars

Next ==
  /\ \A o \in Object : life[o] # "halt"
  /\ \/ Common
     \/ SemStep /\ UNCHANGED <<eventVars, mqVars, mpVars>>
     \/ EventStep /\ UNCHANGED <<semVars, mqVars, mpVars>>
     \/ MqStep /\ UNCHANGED <<semVars, eventVars, mpVars>>
     \/ MpStep /\ UNCHANGED <<semVars, eventVars, mqVars>>

Spec == Init /\ [][Next]_vars

\* Every variable has its type.
TypeOK == IpcTypeOK /\ SemTypeOK /\ EventTypeOK /\ MqTypeOK /\ MpTypeOK

\* rt_mq_send, rt_mq_recv, rt_mp_alloc and rt_mp_free: every buffer of the
\* message queue and every block of the pool is in exactly one place, and the
\* counters agree with the lists.
StoreIsWhole == BuffersInOnePlace /\ BlocksInOnePlace

\* rt_mq_recv and rt_mp_alloc: nobody sleeps beside a message or a free block
\* that no woken thread is about to take.
NothingIsMissed == NoMessageIsMissed /\ NoBlockIsMissed
=============================================================================

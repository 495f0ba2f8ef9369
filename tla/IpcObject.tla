----------------------------- MODULE IpcObject -----------------------------
(***************************************************************************)
(* What the semaphore, the event and the message queue of ipc.c and the    *)
(* memory pool of mempool.c share: an object with one list of waiting      *)
(* threads, and the fields of the threads that wait.  Every thread has one *)
(* list node, one error number and one timer, whichever object it calls.   *)
(*                                                                         *)
(* A step is one section of code that runs with interrupts disabled; the   *)
(* steps of the threads and of the tick interrupt come in any order.       *)
(***************************************************************************)
EXTENDS Integers, FiniteSets, SequencesExt

CONSTANTS
  Thread,    \* the callers
  Flag,      \* RT_IPC_FLAG_FIFO, RT_IPC_FLAG_PRIO, or last in first out
  Prio,      \* the priority of every thread, 0 the highest
  Limits,    \* the waiting times the callers use, of AllLimits
  Scenes     \* the programs of the threads: see scene

Object    == {"sem", "event", "mq", "mempool"}
AllLimits == {"none", "finite", "forever"}
Calls     == {"take", "release", "event_recv", "event_send",
              "mq_send", "mq_urgent", "mq_recv", "mp_alloc", "mp_free"}

Scene == [does : [Thread -> SUBSET Calls],
          resets : SUBSET Object, detaches : SUBSET Object]

ASSUME IpcAssumption ==
  /\ Flag \in [Object -> {"FIFO", "PRIO", "LIFO"}]
  /\ Prio \in [Thread -> Nat]
  /\ Limits \subseteq AllLimits
  /\ Scenes \subseteq Scene
  /\ IsFiniteSet(Thread)

VARIABLES
  suspend_thread,   \* the waiting threads, by object
  stat, error, timer,   \* thread->stat, thread->error, 1: thread_timer started
  pc, op, timeout,  \* where the thread is in its call, which, the time left
  ret,              \* what the call returns
  life,             \* of an object: "live", then where its detachment is
  scene             \* what the threads do, which objects are reset, detached

tcb     == <<stat, error, timer>>
frame   == <<pc, op, timeout, ret>>
ipcVars == <<suspend_thread, tcb, frame, life, scene>>

Error  == {"EOK", "ETIMEOUT", "ERROR"}
Result == Error \cup {"none", "EFULL"}

IpcInit ==
  /\ suspend_thread = [o \in Object |-> <<>>]
  /\ stat = [t \in Thread |-> "ready"]
  /\ error = [t \in Thread |-> "EOK"]
  /\ timer = [t \in Thread |-> 0]
  /\ pc = [t \in Thread |-> "idle"]
  /\ op = [t \in Thread |-> "none"]
  /\ timeout = [t \in Thread |-> "none"]
  /\ ret = [t \in Thread |-> "none"]
  /\ life = [o \in Object |-> "live"]
  /\ scene \in Scenes

IpcTypeOK ==
  /\ suspend_thread \in [Object -> Seq(Thread)]
  /\ stat \in [Thread -> {"ready", "suspend"}]
  /\ error \in [Thread -> Error]
  /\ timer \in [Thread -> {0, 1}]
  /\ pc \in [Thread -> {"idle", "fill", "wait", "drain", "return"}]
  /\ op \in [Thread -> Calls \cup {"none"}]
  /\ timeout \in [Thread -> AllLimits]
  /\ ret \in [Thread -> Result]
  /\ life \in [Object -> {"live", "look", "resume", "gone", "halt"}]
  /\ scene \in Scene

-----------------------------------------------------------------------------
(* The list of an object.                                                  *)

Waiting == UNION {ToSet(suspend_thread[o]) : o \in Object}

\* rt_ipc_list_suspend puts t in front of the first thread it overtakes,
\* rt_mp_alloc in front of all.
Overtakes(t, u, o) == Flag[o] = "LIFO" \/ (Flag[o] = "PRIO" /\ Prio[t] < Prio[u])

IsPlace(t, o, i) ==
  /\ i \in 1 .. Len(suspend_thread[o]) + 1
  /\ \A j \in 1 .. i - 1 : ~Overtakes(t, suspend_thread[o][j], o)
  /\ i <= Len(suspend_thread[o]) => Overtakes(t, suspend_thread[o][i], o)

\* t suspends itself and gets its place, rt_ipc_list_suspend; the thread timer
\* is started when the call has a time limit.
Enlist(t, o, call, limit) ==
  /\ \E i \in 1 .. Len(suspend_thread[o]) + 1 :
       /\ IsPlace(t, o, i)
       /\ suspend_thread' = [suspend_thread EXCEPT ![o] = InsertAt(@, i, t)]
  /\ stat' = [stat EXCEPT ![t] = "suspend"]
  /\ timer' = [timer EXCEPT ![t] = IF limit = "finite" THEN 1 ELSE 0]
  /\ pc' = [pc EXCEPT ![t] = "wait"]
  /\ op' = [op EXCEPT ![t] = call]
  /\ timeout' = [timeout EXCEPT ![t] = limit]
  /\ UNCHANGED ret

\* Wrong variant: the error number of an earlier wait stays.
Suspend_StaleError(t, o, call, limit) ==
  Enlist(t, o, call, limit) /\ UNCHANGED error

\* t waits for o, its error number reset.
Suspend(t, o, call, limit) ==
  Enlist(t, o, call, limit) /\ error' = [error EXCEPT ![t] = "EOK"]

\* The list s without the threads of W, the others in their order.
Rest(s, W) ==
  LET kept   == {i \in DOMAIN s : s[i] \notin W}
      Nth(k) == CHOOSE i \in kept : Cardinality({j \in kept : j <= i}) = k
  IN  [k \in 1 .. Cardinality(kept) |-> s[Nth(k)]]

\* rt_thread_resume of the threads of W, which wait for o.
ResumeAll(o, W) ==
  /\ suspend_thread' = [suspend_thread EXCEPT ![o] = Rest(@, W)]
  /\ stat' = [t \in Thread |-> IF t \in W THEN "ready" ELSE stat[t]]
  /\ timer' = [t \in Thread |-> IF t \in W THEN 0 ELSE timer[t]]

\* rt_ipc_list_resume: the first thread that waits for o, if there is one.
ResumeFirst(o) ==
  \/ /\ suspend_thread[o] = <<>>
     /\ UNCHANGED <<suspend_thread, stat, timer>>
  \/ /\ suspend_thread[o] # <<>>
     /\ suspend_thread' = [suspend_thread EXCEPT ![o] = Tail(@)]
     /\ stat' = [stat EXCEPT ![Head(suspend_thread[o])] = "ready"]
     /\ timer' = [timer EXCEPT ![Head(suspend_thread[o])] = 0]

\* rt_ipc_list_resume_all within a section, as every reset calls it.
ResetList(o) ==
  /\ life[o] # "gone" /\ o \in scene.resets
  /\ ResumeAll(o, ToSet(suspend_thread[o]))
  /\ error' = [t \in Thread |->
                 IF t \in ToSet(suspend_thread[o]) THEN "ERROR" ELSE error[t]]
  /\ UNCHANGED <<frame, life, scene>>

-----------------------------------------------------------------------------
(* The calls.                                                              *)

\* The assertion on the type of the object holds until it is detached.
Enters(t, call, o) == pc[t] = "idle" /\ call \in scene.does[t] /\ life[o] # "gone"

\* t runs again after its wait, without an error.
Woken(t, call) == pc[t] = "wait" /\ op[t] = call /\ stat[t] = "ready" /\ error[t] = "EOK"

\* The time left: after a wake-up it is computed anew and may be used up.
TimeLeft(t) ==
  IF pc[t] = "idle" THEN Limits
  ELSE IF timeout[t] = "finite" THEN {"finite", "none"} ELSE {timeout[t]}

Finish(t, call, result) ==
  /\ pc' = [pc EXCEPT ![t] = "return"]
  /\ op' = [op EXCEPT ![t] = call]
  /\ ret' = [ret EXCEPT ![t] = result]
  /\ timeout' = [timeout EXCEPT ![t] = "none"]

\* Woken with an error: every call returns it.
WakeWithError(t) ==
  /\ pc[t] = "wait" /\ stat[t] = "ready" /\ error[t] # "EOK"
  /\ Finish(t, op[t], error[t])
  /\ UNCHANGED <<suspend_thread, tcb, life, scene>>

Return(t) ==
  /\ pc[t] = "return"
  /\ pc' = [pc EXCEPT ![t] = "idle"]
  /\ op' = [op EXCEPT ![t] = "none"]
  /\ ret' = [ret EXCEPT ![t] = "none"]
  /\ UNCHANGED <<suspend_thread, tcb, timeout, life, scene>>

\* rt_timer_check and rt_thread_timeout: the thread is ready with an error.
Expire(t) ==
  /\ timer[t] = 1
  /\ timer' = [timer EXCEPT ![t] = 0]
  /\ error' = [error EXCEPT ![t] = "ETIMEOUT"]
  /\ stat' = [stat EXCEPT ![t] = "ready"]
  /\ UNCHANGED <<frame, life, scene>>

\* Wrong variant: the thread stays in the list.
TimeOut_KeepListed(t) == Expire(t) /\ UNCHANGED suspend_thread

\* The thread leaves whatever list it is in.
TimeOut(t) ==
  /\ Expire(t)
  /\ suspend_thread' = [o \in Object |-> Rest(suspend_thread[o], {t})]

-----------------------------------------------------------------------------
(* rt_sem_detach, rt_event_detach, rt_mq_detach and the deletions.         *)
(* rt_ipc_list_resume_all looks at the list with interrupts enabled, then  *)
(* resumes its first thread with them disabled.                            *)

DetachBegin(o) ==
  /\ life[o] = "live" /\ o \in scene.detaches
  /\ life' = [life EXCEPT ![o] = "look"]
  /\ UNCHANGED <<suspend_thread, tcb, frame, scene>>

DetachLook(o) ==
  /\ life[o] = "look"
  /\ life' = [life EXCEPT ![o] = IF suspend_thread[o] = <<>> THEN "gone" ELSE "resume"]
  /\ UNCHANGED <<suspend_thread, tcb, frame, scene>>

DetachResume(o) ==
  /\ life[o] = "resume" /\ suspend_thread[o] # <<>>
  /\ life' = [life EXCEPT ![o] = "look"]
  /\ ResumeFirst(o)
  /\ error' = [error EXCEPT ![Head(suspend_thread[o])] = "ERROR"]
  /\ UNCHANGED <<frame, scene>>

\* The list has become empty meanwhile: its head is taken for a thread.
DetachHalt(o) ==
  /\ life[o] = "resume" /\ suspend_thread[o] = <<>>
  /\ life' = [life EXCEPT ![o] = "halt"]
  /\ UNCHANGED <<suspend_thread, tcb, frame, scene>>

Detach(o) == DetachBegin(o) \/ DetachLook(o) \/ DetachResume(o) \/ DetachHalt(o)

-----------------------------------------------------------------------------

\* The object a suspended thread waits for.
Awaits(t) ==
  CASE op[t] = "take"       -> "sem"
    [] op[t] = "event_recv" -> "event"
    [] op[t] = "mq_recv"    -> "mq"
    [] op[t] = "mp_alloc"   -> "mempool"

\* rt_ipc_list_suspend, rt_thread_resume and rt_thread_timeout: a thread is
\* suspended exactly while it is, once, in the list of the object it called;
\* its timer, which would take it out of whatever list it is in, runs no longer.
SuspendedInOneList ==
  /\ \A o \in Object : IsInjective(suspend_thread[o])
  /\ \A t \in Thread :
       /\ stat[t] = "suspend" => pc[t] = "wait" /\ t \in ToSet(suspend_thread[Awaits(t)])
       /\ \A o \in Object : t \in ToSet(suspend_thread[o]) => stat[t] = "suspend" /\ o = Awaits(t)
       /\ timer[t] = 1 => stat[t] = "suspend" /\ timeout[t] = "finite"
=============================================================================

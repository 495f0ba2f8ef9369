------------------------------- MODULE Mutex -------------------------------
(***************************************************************************)
(* The mutexes of the RT-Thread kernel (ipc.c): recursive, owned, and with *)
(* priority inheritance.  A waiter lends its priority to the owner, and a  *)
(* release hands the mutex over to the first waiter.                       *)
(*                                                                         *)
(* A step is one section that runs with interrupts disabled.  Whether a    *)
(* ready thread has the processor is not modelled: it may act between any  *)
(* two steps of the others, which includes what the scheduler does when    *)
(* they sleep elsewhere.  A thread timer may run out whenever it is armed. *)
(***************************************************************************)
EXTENDS Integers, FiniteSets, SequencesExt

CONSTANTS
  Thread,      \* the callers
  Mutexes,     \* the mutexes
  Nobody,      \* RT_NULL, the owner of a free mutex
  InitPrio,    \* thread->init_priority, 0 the highest
  Flag,        \* RT_IPC_FLAG_FIFO or RT_IPC_FLAG_PRIO: "FIFO" or "PRIO"
  HoldWidth,   \* the values of mutex->hold, an rt_uint8_t: 256
  Depth        \* bound: takes of one mutex that its owner nests

ASSUME MutexAssumption ==
  /\ Nobody \notin Thread
  /\ InitPrio \in [Thread -> 0 .. 254]
  /\ Flag \in {"FIFO", "PRIO"}
  /\ HoldWidth \in Nat
  /\ Depth \in 1 .. HoldWidth - 1

VARIABLES
  value, owner, original_priority, hold,   \* of every mutex
  suspend_thread,      \* its list of waiting threads
  current_priority,    \* of every thread
  stat,                \* "ready" (or running), "suspend"
  error,               \* thread->error
  timer,               \* 1 when thread->thread_timer is started
  pc,                  \* "program", or "wait" inside rt_mutex_take
  want,                \* the mutex it waits for there, or waited for last
  taken                \* history: takes that returned RT_EOK less releases

mutexes == <<value, owner, original_priority, hold, suspend_thread>>
tcb     == <<current_priority, stat, error, timer>>
frame   == <<pc, want, taken>>
vars    == <<mutexes, tcb, frame>>

Error == {"EOK", "ETIMEOUT", "ERROR"}
NoPriority == 255

\* rt_mutex_init and rt_mutex_create.
Init ==
  /\ value = [m \in Mutexes |-> 1]
  /\ owner = [m \in Mutexes |-> Nobody]
  /\ original_priority = [m \in Mutexes |-> NoPriority]
  /\ hold = [m \in Mutexes |-> 0]
  /\ suspend_thread = [m \in Mutexes |-> <<>>]
  /\ current_priority = InitPrio
  /\ stat = [t \in Thread |-> "ready"]
  /\ error = [t \in Thread |-> "EOK"]
  /\ timer = [t \in Thread |-> 0]
  /\ pc = [t \in Thread |-> "program"]
  /\ want \in [Thread -> Mutexes]
  /\ taken = [t \in Thread |-> [m \in Mutexes |-> 0]]

-----------------------------------------------------------------------------
(* rt_mutex_take.                                                          *)

Plus(m, k) == hold' = [hold EXCEPT ![m] = (@ + k) % HoldWidth]

Calls(t) == pc[t] = "program" /\ stat[t] = "ready"

Returns(t, m, result) ==
  /\ error' = [error EXCEPT ![t] = result]
  /\ taken' = [taken EXCEPT ![t][m] = IF result = "EOK" THEN @ + 1 ELSE @]

\* The owner takes it again.
TakeAgain(t, m) ==
  /\ Calls(t) /\ owner[m] = t
  /\ taken[t][m] < Depth
  /\ Plus(m, 1)
  /\ Returns(t, m, "EOK")
  /\ UNCHANGED <<value, owner, original_priority, suspend_thread,
                 current_priority, stat, timer, pc, want>>

\* Wrong variant: value is not looked at.
TakeFree_Always(t, m) ==
  /\ Calls(t) /\ owner[m] # t
  /\ value' = [value EXCEPT ![m] = @ - 1]
  /\ owner' = [owner EXCEPT ![m] = t]
  /\ original_priority' = [original_priority EXCEPT ![m] = current_priority[t]]
  /\ Plus(m, 1)
  /\ Returns(t, m, "EOK")
  /\ UNCHANGED <<suspend_thread, current_priority, stat, timer, pc, want>>

TakeFree(t, m) ==
  /\ Calls(t) /\ owner[m] # t
  /\ value[m] > 0
  /\ value' = [value EXCEPT ![m] = @ - 1]
  /\ owner' = [owner EXCEPT ![m] = t]
  /\ original_priority' = [original_priority EXCEPT ![m] = current_priority[t]]
  /\ Plus(m, 1)
  /\ Returns(t, m, "EOK")
  /\ UNCHANGED <<suspend_thread, current_priority, stat, timer, pc, want>>

\* Called with time 0.
TakeRefused(t, m) ==
  /\ Calls(t) /\ owner[m] # t /\ value[m] = 0
  /\ Returns(t, m, "ETIMEOUT")
  /\ UNCHANGED <<mutexes, current_priority, stat, timer, pc, want>>

Overtakes(t, u) == Flag = "PRIO" /\ current_priority[t] < current_priority[u]

\* Where rt_ipc_list_suspend puts t: in front of the first it overtakes.
IsPlace(list, t, i) ==
  /\ i \in 1 .. Len(list) + 1
  /\ \A j \in 1 .. i - 1 : ~Overtakes(t, list[j])
  /\ i <= Len(list) => Overtakes(t, list[i])

\* Wrong variant: the owner keeps its priority.
Lend_Nothing(t, o) == UNCHANGED current_priority

\* The owner runs at the priority of the thread it makes wait, if higher.
Lend(t, o) ==
  current_priority' = [current_priority EXCEPT ![o] =
    IF current_priority[t] < @ THEN current_priority[t] ELSE @]

TakeWait(t, m) ==
  /\ Calls(t) /\ owner[m] # t /\ value[m] = 0
  /\ Lend(t, owner[m])
  /\ \E i \in 1 .. Len(suspend_thread[m]) + 1 :
       /\ IsPlace(suspend_thread[m], t, i)
       /\ suspend_thread' = [suspend_thread EXCEPT ![m] = InsertAt(@, i, t)]
  /\ stat' = [stat EXCEPT ![t] = "suspend"]
  /\ error' = [error EXCEPT ![t] = "EOK"]
  /\ \E on \in {0, 1} : timer' = [timer EXCEPT ![t] = on]
  /\ pc' = [pc EXCEPT ![t] = "wait"]
  /\ want' = [want EXCEPT ![t] = m]
  /\ UNCHANGED <<value, owner, original_priority, hold, taken>>

\* The thread runs again: the result is what its waker left in error.
TakeReturn(t) ==
  /\ pc[t] = "wait" /\ stat[t] = "ready"
  /\ pc' = [pc EXCEPT ![t] = "program"]
  /\ Returns(t, want[t], error[t])
  /\ UNCHANGED <<mutexes, current_priority, stat, timer, want>>

-----------------------------------------------------------------------------
(* rt_mutex_release.                                                       *)

\* rt_thread_resume.
Resume(t) ==
  /\ stat' = [stat EXCEPT ![t] = "ready"]
  /\ timer' = [timer EXCEPT ![t] = 0]

ReleaseRefused(t, m) ==
  /\ Calls(t) /\ owner[m] # t
  /\ error' = [error EXCEPT ![t] = "ERROR"]
  /\ UNCHANGED <<mutexes, current_priority, stat, timer, frame>>

ReleaseNested(t, m) ==
  /\ Calls(t) /\ owner[m] = t /\ hold[m] # 1
  /\ Plus(m, -1)
  /\ taken' = [taken EXCEPT ![t][m] = @ - 1]
  /\ UNCHANGED <<value, owner, original_priority, suspend_thread, tcb, pc, want>>

\* Wrong variant: a waiter gets the mutex with the hold of a free one.
HandOver_NoHold(m, next) ==
  /\ owner' = [owner EXCEPT ![m] = next]
  /\ original_priority' = [original_priority EXCEPT ![m] = current_priority[next]]
  /\ Plus(m, -1)
  /\ Resume(next)
  /\ suspend_thread' = [suspend_thread EXCEPT ![m] = Tail(@)]
  /\ UNCHANGED value

\* The first waiter becomes the owner: one hold goes, its own comes.
HandOver(m, next) ==
  /\ owner' = [owner EXCEPT ![m] = next]
  /\ original_priority' = [original_priority EXCEPT ![m] = current_priority[next]]
  /\ UNCHANGED hold
  /\ Resume(next)
  /\ suspend_thread' = [suspend_thread EXCEPT ![m] = Tail(@)]
  /\ UNCHANGED value

\* Wrong variant: those who wait are left waiting.
Free_Any(m) ==
  /\ value' = [value EXCEPT ![m] = @ + 1]
  /\ owner' = [owner EXCEPT ![m] = Nobody]
  /\ original_priority' = [original_priority EXCEPT ![m] = NoPriority]
  /\ Plus(m, -1)
  /\ UNCHANGED <<suspend_thread, stat, timer>>

Free(m) ==
  /\ suspend_thread[m] = <<>>
  /\ value' = [value EXCEPT ![m] = @ + 1]
  /\ owner' = [owner EXCEPT ![m] = Nobody]
  /\ original_priority' = [original_priority EXCEPT ![m] = NoPriority]
  /\ Plus(m, -1)
  /\ UNCHANGED <<suspend_thread, stat, timer>>

\* Wrong variant: the owner keeps the priority it was lent.
GiveBack_Nothing(t, m) == UNCHANGED current_priority

GiveBack(t, m) ==
  current_priority' = [current_priority EXCEPT ![t] = original_priority[m]]

\* The last release: the priority goes back, the mutex goes on.
ReleaseLast(t, m) ==
  /\ Calls(t) /\ owner[m] = t /\ hold[m] = 1
  /\ GiveBack(t, m)
  /\ \/ Free(m)
     \/ suspend_thread[m] # <<>> /\ HandOver(m, Head(suspend_thread[m]))
  /\ taken' = [taken EXCEPT ![t][m] = @ - 1]
  /\ UNCHANGED <<error, pc, want>>

-----------------------------------------------------------------------------
(* The tick.                                                               *)

Unlink(t, m) ==
  \E i \in 1 .. Len(suspend_thread[m]) :
    /\ suspend_thread[m][i] = t
    /\ suspend_thread' = [suspend_thread EXCEPT ![m] = RemoveAt(@, i)]

\* rt_thread_timeout.
TimeOut(t) ==
  /\ timer[t] = 1
  /\ timer' = [timer EXCEPT ![t] = 0]
  /\ error' = [error EXCEPT ![t] = "ETIMEOUT"]
  /\ Unlink(t, want[t])
  /\ stat' = [stat EXCEPT ![t] = "ready"]
  /\ UNCHANGED <<value, owner, original_priority, hold, current_priority, frame>>

Take(t, m) ==
  TakeAgain(t, m) \/ TakeFree(t, m) \/ TakeRefused(t, m) \/ TakeWait(t, m)
Release(t, m) ==
  ReleaseRefused(t, m) \/ ReleaseNested(t, m) \/ ReleaseLast(t, m)

Next ==
  \E t \in Thread :
    \/ \E m \in Mutexes : Take(t, m) \/ Release(t, m)
    \/ TakeReturn(t)
    \/ TimeOut(t)

Spec == Init /\ [][Next]_vars

-----------------------------------------------------------------------------
(* Properties.                                                             *)

\* Every variable has its type.
TypeOK ==
  /\ value \in [Mutexes -> {0, 1}]
  /\ owner \in [Mutexes -> Thread \cup {Nobody}]
  /\ original_priority \in [Mutexes -> 0 .. NoPriority]
  /\ hold \in [Mutexes -> 0 .. HoldWidth - 1]
  /\ suspend_thread \in [Mutexes -> Seq(Thread)]
  /\ current_priority \in [Thread -> 0 .. 254]
  /\ stat \in [Thread -> {"ready", "suspend"}]
  /\ error \in [Thread -> Error]
  /\ timer \in [Thread -> {0, 1}]
  /\ pc \in [Thread -> {"program", "wait"}]
  /\ want \in [Thread -> Mutexes]
  /\ taken \in [Thread -> [Mutexes -> 0 .. Depth]]

\* The takes of t that the program knows of, and the one that was handed
\* over to it while it has not yet run again.
Holds(t, m) ==
  taken[t][m] +
    IF pc[t] = "wait" /\ stat[t] = "ready" /\ error[t] = "EOK" /\ want[t] = m
    THEN 1 ELSE 0

\* A thread has taken a mutex exactly when it is the owner, and hold counts its
\* takes: no take succeeds beside another owner's, no mutex is handed to a
\* thread that is told of a time-out, and no hand-over is forgotten
\* (rt_mutex_take, rt_mutex_release, rt_thread_timeout).
TakenMeansOwned ==
  \A t \in Thread, m \in Mutexes :
    IF owner[m] = t THEN hold[m] = Holds(t, m) /\ Holds(t, m) > 0
                    ELSE Holds(t, m) = 0

\* Nobody waits for a free mutex, and the owner it waits for does not itself
\* wait for the same mutex (rt_mutex_release hands over or frees).
WaitersHaveOwner ==
  \A m \in Mutexes :
    suspend_thread[m] # <<>> =>
      /\ owner[m] # Nobody /\ value[m] = 0
      /\ owner[m] \notin ToSet(suspend_thread[m])

\* The owner of the mutex runs at least at the priority of every waiter: no
\* thread between the two keeps the mutex from the waiter (the boost of
\* rt_mutex_take, the order of rt_ipc_list_suspend).
PriorityInherited ==
  \A m \in Mutexes : \A i \in 1 .. Len(suspend_thread[m]) :
    current_priority[owner[m]] <= current_priority[suspend_thread[m][i]]

\* A thread that owns nothing runs at its own priority again: rt_mutex_release
\* "change[s] the owner thread to original priority" (ipc.c:832).
PriorityRestored ==
  \A t \in Thread :
    (\A m \in Mutexes : owner[m] # t) => current_priority[t] = InitPrio[t]

=============================================================================

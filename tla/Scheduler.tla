----------------------------- MODULE Scheduler -----------------------------
(***************************************************************************)
(* The scheduler and the threads of the RT-Thread kernel (scheduler.c,     *)
(* thread.c, the tick of clock.c, the reaper of idle.c) on one processor.  *)
(*                                                                         *)
(* A step is one section that runs with interrupts disabled.  Only the     *)
(* current thread takes thread steps; between any two of them an interrupt *)
(* may come.  A thread that is switched away keeps its place in its call   *)
(* until it is the current thread again.                                   *)
(*                                                                         *)
(* Ticks are not counted: a time slice and an armed thread timer may end   *)
(* at any tick.  The lists of the IPC objects are the set of threads that  *)
(* are in one of them.                                                     *)
(***************************************************************************)
EXTENDS Integers, FiniteSets, SequencesExt

CONSTANTS
  Thread,      \* the threads, the idle thread among them
  idle,        \* the idle thread
  Garbage,     \* what the head of an empty list is taken for
  Lowest,      \* RT_THREAD_PRIORITY_MAX - 1, the priority of the idle thread
  InitPrio,    \* thread->init_priority, 0 the highest
  Static,      \* the threads of rt_thread_init; the others are created
  Timed,       \* the threads that sleep or wait with a time limit
  Waits,       \* the threads that wait for an IPC object
  Exits,       \* the threads whose entry returns
  Deletes,     \* <<c, u>>: c calls rt_thread_delete or _detach on u
  Manages,     \* <<c, u>>: c calls rt_thread_suspend and _resume on u
  Boosts,      \* <<c, u>>: c changes the priority of u
  MaxNest      \* bound: nested rt_enter_critical

Prios == 0 .. Lowest

ASSUME SchedulerAssumption ==
  /\ Lowest \in Nat /\ MaxNest \in Nat
  /\ idle \in Thread /\ Garbage \notin Thread
  /\ InitPrio \in [Thread -> Prios]
  /\ \A t \in Thread : InitPrio[t] = Lowest <=> t = idle
  /\ {Static, Timed, Waits, Exits} \subseteq SUBSET (Thread \ {idle})
  /\ {Deletes, Manages, Boosts} \subseteq SUBSET (Thread \X (Thread \ {idle}))

VARIABLES
  sched,       \* the scheduler and what is in its lists, see SchedType
  timer,       \* the threads whose thread_timer is started
  lock,        \* rt_scheduler_lock_nest
  pc, arg,     \* of every thread: where it is in its call, and on whom
  stale        \* history: a priority has changed since the last rt_schedule

vars == <<sched, timer, lock, pc, arg, stale>>

Stat == {"none", "init", "ready", "running", "suspend", "close"}

\* rt_current_thread, rt_thread_priority_table, rt_thread_ready_priority_group,
\* stat and current_priority of the threads, the lists of the IPC objects and
\* rt_thread_defunct.
SchedType ==
  [current : Thread,
   table : [Prios -> Seq(Thread)], group : SUBSET Prios,
   stat : [Thread -> Stat], prio : [Thread -> Prios],
   waiting : SUBSET Thread, defunct : SUBSET Thread]

-----------------------------------------------------------------------------
(* Lists, and the operations of scheduler.c.                               *)

Without(list, t) ==
  IF t \notin ToSet(list) THEN list
  ELSE RemoveAt(list, CHOOSE i \in 1 .. Len(list) : list[i] = t)

\* rt_list_remove(&thread->tlist): out of whatever list it is in.
Unlink(s, t) ==
  [s EXCEPT !.table = [p \in Prios |-> Without(@[p], t)],
            !.waiting = @ \ {t}, !.defunct = @ \ {t}]

\* Wrong variant: the bit of an empty queue stays set.
rt_schedule_remove_thread_KeepBit(s, t) == Unlink(s, t)

rt_schedule_remove_thread(s, t) ==
  LET u == Unlink(s, t)
  IN  [u EXCEPT !.group = IF u.table[u.prio[t]] = <<>> THEN @ \ {u.prio[t]} ELSE @]

rt_schedule_insert_thread(s, t) ==
  IF t = s.current THEN [s EXCEPT !.stat[t] = "running"]
  ELSE [s EXCEPT !.stat[t] = "ready",
                 !.table[s.prio[t]] = Append(@, t),
                 !.group = @ \cup {s.prio[t]}]

\* __rt_ffs: the highest priority whose bit is set.
Highest(s) == CHOOSE p \in s.group : \A q \in s.group : p <= q

First(s) ==
  IF s.table[Highest(s)] = <<>> THEN Garbage ELSE Head(s.table[Highest(s)])

SwitchTo(s, to) ==
  LET from == s.current
      on == [s EXCEPT !.current = to]
      back == IF s.stat[from] = "running" THEN rt_schedule_insert_thread(on, from) ELSE on
  IN  IF to = Garbage THEN on
      ELSE [rt_schedule_remove_thread(back, to) EXCEPT !.stat[to] = "running"]

\* Wrong variant: the current thread stays before its equals.
rt_schedule_Stays(s) ==
  IF lock > 0 \/ s.group = {} THEN s
  ELSE IF s.stat[s.current] = "running" /\ s.prio[s.current] <= Highest(s)
       THEN rt_schedule_remove_thread(s, s.current)
       ELSE SwitchTo(s, First(s))

\* The current thread stays only if it is above all others: its equals pass.
rt_schedule(s) ==
  IF lock > 0 \/ s.group = {} THEN s
  ELSE IF s.stat[s.current] = "running" /\ s.prio[s.current] < Highest(s)
       THEN rt_schedule_remove_thread(s, s.current)
       ELSE SwitchTo(s, First(s))

Schedules(s) ==
  /\ sched' = rt_schedule(s)
  /\ stale' = IF lock > 0 THEN stale ELSE FALSE

\* rtthread_startup: the system's threads are ready, rt_system_scheduler_start
\* has switched to the first of the highest priority.
Init ==
  /\ \E first \in Thread \ {idle} :
       sched = [current |-> first,
                table |-> [p \in Prios |-> IF p = Lowest THEN <<idle>> ELSE <<>>],
                group |-> {Lowest},
                stat |-> [t \in Thread |-> CASE t = first -> "running"
                                             [] t = idle -> "ready"
                                             [] OTHER -> "none"],
                prio |-> InitPrio,
                waiting |-> {}, defunct |-> {}]
  /\ timer = {} /\ lock = 0
  /\ pc = [t \in Thread |-> "run"]
  /\ arg = [t \in Thread |-> t]
  /\ stale = FALSE

-----------------------------------------------------------------------------
(* The current thread.                                                     *)

At(c, where) == sched.current = c /\ pc[c] = where

Goes(c, where) == pc' = [pc EXCEPT ![c] = where] /\ UNCHANGED arg
GoesOn(c, where, u) == pc' = [pc EXCEPT ![c] = where] /\ arg' = [arg EXCEPT ![c] = u]

\* The rt_schedule at the end of a call.
Reschedule(c) ==
  /\ At(c, "schedule")
  /\ Schedules(sched)
  /\ Goes(c, "run")
  /\ UNCHANGED <<timer, lock>>

rt_thread_yield(c) ==
  /\ At(c, "run")
  /\ Schedules(sched)
  /\ UNCHANGED <<timer, lock, pc, arg>>

\* rt_thread_suspend, with interrupts disabled.
Suspended(s, t) == [rt_schedule_remove_thread(s, t) EXCEPT !.stat[t] = "suspend"]

\* Wrong variant: the timer is started before rt_thread_suspend stops it.
rt_thread_sleep_TimerFirst(c) ==
  /\ At(c, "run") /\ lock = 0 /\ c \in Timed
  /\ sched' = Suspended(sched, c)
  /\ timer' = timer \ {c}
  /\ Goes(c, "schedule")
  /\ UNCHANGED <<lock, stale>>

rt_thread_sleep(c) ==
  /\ At(c, "run") /\ lock = 0 /\ c \in Timed
  /\ sched' = Suspended(sched, c)
  /\ timer' = timer \cup {c}
  /\ Goes(c, "schedule")
  /\ UNCHANGED <<lock, stale>>

\* rt_ipc_list_suspend and the timer of a call that has a time limit.
Wait(c) ==
  /\ At(c, "run") /\ lock = 0 /\ c \in Waits
  /\ sched' = [Suspended(sched, c) EXCEPT !.waiting = @ \cup {c}]
  /\ \/ timer' = timer \ {c}
     \/ c \in Timed /\ timer' = timer \cup {c}
  /\ Goes(c, "schedule")
  /\ UNCHANGED <<lock, stale>>

Resumed(s, u) == rt_schedule_insert_thread(Unlink(s, u), u)

\* rt_ipc_list_resume: rt_thread_resume with interrupts disabled.
Wake(c, u) ==
  /\ At(c, "run") /\ u \in sched.waiting
  /\ sched' = Resumed(sched, u)
  /\ timer' = timer \ {u}
  /\ Goes(c, "schedule")
  /\ UNCHANGED <<lock, stale>>

\* Wrong variant: the critical section ends without a scheduling.
rt_exit_critical_Quiet(c) ==
  /\ At(c, "run") /\ lock > 0
  /\ lock' = lock - 1
  /\ UNCHANGED <<sched, timer, pc, arg, stale>>

rt_exit_critical(c) ==
  /\ At(c, "run") /\ lock > 0
  /\ lock' = lock - 1
  /\ IF lock' = 0 THEN Goes(c, "schedule") ELSE UNCHANGED <<pc, arg>>
  /\ UNCHANGED <<sched, timer, stale>>

rt_enter_critical(c) ==
  /\ At(c, "run") /\ c # idle /\ lock < MaxNest
  /\ lock' = lock + 1
  /\ UNCHANGED <<sched, timer, pc, arg, stale>>

-----------------------------------------------------------------------------
(* The current thread and another one.                                     *)

rt_thread_create(c, u) ==
  /\ At(c, "run") /\ c # idle /\ sched.stat[u] = "none"
  /\ sched' = [sched EXCEPT !.stat[u] = "init", !.prio[u] = InitPrio[u]]
  /\ pc' = [pc EXCEPT ![u] = "run"]
  /\ UNCHANGED <<timer, lock, arg, stale>>

\* The callers' contract: a thread is started or deleted by one call at a time.
LifeCall(u) ==
  \E d \in Thread : pc[d] \in {"start", "delete", "close"} /\ arg[d] = u

\* The first part of rt_thread_startup, and of its rt_thread_resume.
rt_thread_startup(c, u) ==
  /\ At(c, "run") /\ c # idle /\ sched.stat[u] = "init" /\ ~LifeCall(u)
  /\ sched' = [Unlink(sched, u) EXCEPT !.stat[u] = "suspend", !.prio[u] = InitPrio[u]]
  /\ timer' = timer \ {u}
  /\ GoesOn(c, "start", u)
  /\ UNCHANGED <<lock, stale>>

\* rt_thread_resume outside of a section, and the rt_schedule its callers add.
rt_thread_resume(c, u) ==
  /\ At(c, "run") /\ <<c, u>> \in Manages
  /\ sched.stat[u] = "suspend"
  /\ GoesOn(c, "unlink", u)
  /\ UNCHANGED <<sched, timer, lock, stale>>

ResumeUnlinks(c) ==
  /\ At(c, "unlink")
  /\ sched' = Unlink(sched, arg[c])
  /\ timer' = timer \ {arg[c]}
  /\ Goes(c, "insert")
  /\ UNCHANGED <<lock, stale>>

\* The second part of both.
ResumeInserts(c) ==
  /\ At(c, "start") \/ At(c, "insert")
  /\ sched' = rt_schedule_insert_thread(sched, arg[c])
  /\ Goes(c, "schedule")
  /\ UNCHANGED <<timer, lock, stale>>

\* rt_thread_suspend of another thread: its status is read beforehand.
rt_thread_suspend(c, u) ==
  /\ At(c, "run") /\ <<c, u>> \in Manages
  /\ sched.stat[u] = "ready"
  /\ GoesOn(c, "suspend", u)
  /\ UNCHANGED <<sched, timer, lock, stale>>

SuspendRemoves(c) ==
  /\ At(c, "suspend")
  /\ sched' = Suspended(sched, arg[c])
  /\ timer' = timer \ {arg[c]}
  /\ Goes(c, "run")
  /\ UNCHANGED <<lock, stale>>

\* Wrong variant: the priority is set before the thread leaves its queue.
Reprio_First(s, u, p) ==
  LET n == [s EXCEPT !.prio[u] = p]
  IN  IF s.stat[u] = "ready"
      THEN rt_schedule_insert_thread(rt_schedule_remove_thread(n, u), u) ELSE n

Reprio(s, u, p) ==
  IF s.stat[u] = "ready"
  THEN rt_schedule_insert_thread(
         [rt_schedule_remove_thread(s, u) EXCEPT !.prio[u] = p], u)
  ELSE [s EXCEPT !.prio[u] = p]

\* rt_thread_control(RT_THREAD_CTRL_CHANGE_PRIORITY); it does not schedule.
rt_thread_control(c, u) ==
  /\ At(c, "run") /\ <<c, u>> \in Boosts /\ sched.stat[u] # "none"
  /\ \E p \in Prios \ {Lowest} : sched' = Reprio(sched, u, p)
  /\ stale' = TRUE
  /\ UNCHANGED <<timer, lock, pc, arg>>

-----------------------------------------------------------------------------
(* The end of a thread.                                                    *)

\* A static thread without cleanup is detached, another one left to the idle
\* thread: its node goes into rt_thread_defunct.
Buried(s, u) ==
  IF u \in Static THEN [s EXCEPT !.stat[u] = "none"]
  ELSE [s EXCEPT !.stat[u] = "close", !.defunct = @ \cup {u}]

rt_thread_exit(c) ==
  /\ At(c, "run") /\ lock = 0 /\ c \in Exits
  /\ sched' = Buried(rt_schedule_remove_thread(sched, c), c)
  /\ timer' = timer \ {c}
  /\ Goes(c, "schedule")
  /\ UNCHANGED <<lock, stale>>

\* Wrong variant: the test for a thread that is not started is inverted.
DeleteRemoves_Init(c, u) ==
  /\ At(c, "run") /\ <<c, u>> \in Deletes
  /\ sched.stat[u] \notin {"none", "close"} /\ ~LifeCall(u)
  /\ sched' = IF sched.stat[u] # "init" THEN sched ELSE rt_schedule_remove_thread(sched, u)
  /\ GoesOn(c, "delete", u)
  /\ UNCHANGED <<timer, lock, stale>>

\* rt_thread_delete and rt_thread_detach: three sections, and the new status
\* is written between the last two.
DeleteRemoves(c, u) ==
  /\ At(c, "run") /\ <<c, u>> \in Deletes
  /\ sched.stat[u] \notin {"none", "close"} /\ ~LifeCall(u)
  /\ sched' = IF sched.stat[u] = "init" THEN sched ELSE rt_schedule_remove_thread(sched, u)
  /\ GoesOn(c, "delete", u)
  /\ UNCHANGED <<timer, lock, stale>>

DeleteStopsTimer(c) ==
  /\ At(c, "delete")
  /\ timer' = timer \ {arg[c]}
  /\ Goes(c, "close")
  /\ UNCHANGED <<sched, lock, stale>>

DeleteCloses(c) ==
  /\ At(c, "close")
  /\ sched' = Buried(sched, arg[c])
  /\ Goes(c, "run")
  /\ UNCHANGED <<timer, lock, stale>>

\* rt_thread_idle_excute.
Reap(c) ==
  /\ At(c, "run") /\ c = idle
  /\ \E u \in sched.defunct :
       sched' = [Unlink(sched, u) EXCEPT !.stat[u] = "none"]
  /\ UNCHANGED <<timer, lock, pc, arg, stale>>

-----------------------------------------------------------------------------
(* Interrupts.                                                             *)

\* rt_tick_increase, when remaining_tick of the current thread is used up.
SliceEnds ==
  /\ Schedules(sched)
  /\ UNCHANGED <<timer, lock, pc, arg>>

\* rt_thread_timeout, from rt_timer_check.
TimeOut(t) ==
  /\ t \in timer
  /\ timer' = timer \ {t}
  /\ Schedules(Resumed(sched, t))
  /\ UNCHANGED <<lock, pc, arg>>

\* A handler that wakes a thread through an IPC object.
InterruptWakes(t) ==
  /\ t \in sched.waiting
  /\ timer' = timer \ {t}
  /\ Schedules(Resumed(sched, t))
  /\ UNCHANGED <<lock, pc, arg>>

-----------------------------------------------------------------------------
Alone(c) ==
  \/ Reschedule(c) \/ rt_thread_yield(c) \/ rt_thread_sleep(c) \/ Wait(c)
  \/ rt_enter_critical(c) \/ rt_exit_critical(c)
  \/ ResumeUnlinks(c) \/ ResumeInserts(c) \/ SuspendRemoves(c)
  \/ rt_thread_exit(c) \/ DeleteStopsTimer(c) \/ DeleteCloses(c) \/ Reap(c)

On(c, u) ==
  \/ Wake(c, u) \/ rt_thread_create(c, u) \/ rt_thread_startup(c, u)
  \/ rt_thread_resume(c, u) \/ rt_thread_suspend(c, u)
  \/ rt_thread_control(c, u) \/ DeleteRemoves(c, u)

Interrupt == SliceEnds \/ \E t \in Thread : TimeOut(t) \/ InterruptWakes(t)

Next ==
  /\ sched.current \in Thread
  /\ \/ \E c \in Thread : Alone(c) \/ \E u \in Thread \ {c} : On(c, u)
     \/ Interrupt

Spec == Init /\ [][Next]_vars

\* A call that has begun goes on while its thread has the processor and a
\* critical section ends, the outermost too. A slice also ends outside of the
\* critical sections: the yield of rt_tick_increase is lost within one and remaining_tick starts anew,
\* so that a thread that is locked at each end of its slice keeps the processor.
Fairness ==
  /\ SF_vars(sched.current \in Thread /\ lock = 0 /\ SliceEnds)
  /\ SF_vars(\E c \in Thread : rt_exit_critical(c))
  /\ SF_vars(lock = 1 /\ \E c \in Thread : rt_exit_critical(c))
  /\ WF_vars(\E c \in Thread :
               \/ Reschedule(c)
               \/ ResumeUnlinks(c) \/ ResumeInserts(c) \/ SuspendRemoves(c)
               \/ DeleteStopsTimer(c) \/ DeleteCloses(c))

FairSpec == Spec /\ Fairness

-----------------------------------------------------------------------------
(* Properties.                                                             *)

\* Every variable has its type; the current thread is a thread.
TypeOK ==
  /\ sched \in SchedType
  /\ timer \subseteq Thread
  /\ lock \in 0 .. MaxNest
  /\ pc \in [Thread -> {"run", "schedule", "unlink", "insert", "start",
                      "suspend", "delete", "close"}]
  /\ arg \in [Thread -> Thread]
  /\ stale \in BOOLEAN

Queued(t) == {p \in Prios : t \in ToSet(sched.table[p])}

\* Somebody is deleting t and has taken it out of the lists.
BeingDeleted(t) == \E c \in Thread : pc[c] \in {"delete", "close"} /\ arg[c] = t

\* A bit of the group is set exactly when its queue has a thread, no thread is
\* queued twice, a queued thread is ready and in the queue of its priority, and
\* a ready thread is queued: rt_schedule never finds the head of an empty list
\* and never misses a thread (scheduler.c, rt_thread_control).
ReadyTableExact ==
  /\ \A p \in Prios :
       /\ p \in sched.group <=> sched.table[p] # <<>>
       /\ IsInjective(sched.table[p])
  /\ \A t \in Thread :
       /\ Queued(t) \subseteq {sched.prio[t]}
       /\ Queued(t) # {} => sched.stat[t] = "ready"
       /\ sched.stat[t] = "ready" => Queued(t) # {} \/ BeingDeleted(t)
       /\ sched.stat[t] = "running" => t = sched.current

\* Outside of calls and critical sections no ready thread is above the one that
\* runs, unless rt_thread_control has changed a priority: no wake-up, no end of
\* a critical section and no time-out forgets to schedule.
RunningIsHighest ==
  lock = 0 /\ ~stale /\ pc[sched.current] = "run" =>
    /\ sched.stat[sched.current] = "running"
    /\ \A t \in Thread :
         Queued(t) # {} => sched.prio[sched.current] <= sched.prio[t]

\* A suspended thread is in a list to be woken from, or its timer runs, or a
\* thread that manages it or is about to insert it will: none is forgotten.
SuspendedCanWake ==
  \A t \in Thread :
    sched.stat[t] = "suspend" =>
      \/ t \in sched.waiting \/ t \in timer \/ BeingDeleted(t)
      \/ \E c \in Thread : <<c, t>> \in Manages
      \/ \E c \in Thread : pc[c] \in {"start", "insert"} /\ arg[c] = t

\* A thread that is closed or deleted is in no queue, waits for nothing, its
\* timer is stopped and it does not run, so that the idle thread may free it:
\* "The thread object will be removed from thread queue" (thread.c:422).
ClosedThreadsAreOut ==
  \A t \in Thread :
    sched.stat[t] \in {"close", "none"} =>
      /\ Queued(t) = {} /\ t \notin sched.waiting \cup timer
      /\ t = sched.current => pc[t] = "schedule"

\* Above t nobody is ready or runs.
NobodyAbove(t) ==
  \A u \in Thread :
    sched.stat[u] \in {"ready", "running"} => sched.prio[u] >= sched.prio[t]

\* Threads of equal priority take turns: none stays ready while nobody is above
\* it and never runs (rt_tick_increase, rt_schedule_insert_thread).
EqualsTakeTurns ==
  \A t \in Thread : (\A c \in Thread : <<c, t>> \notin Boosts) =>
    []<>(sched.stat[t] # "ready" \/ BeingDeleted(t) \/ ~NobodyAbove(t))

=============================================================================

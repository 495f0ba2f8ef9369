------------------------------- MODULE Timer -------------------------------
(***************************************************************************)
(* The hard timers of the kernel (timer.c), kept in one list in the order  *)
(* of their time-outs, and the tick interrupt (clock.c) that runs them.    *)
(*                                                                         *)
(* Ticks are counted modulo Width; times are compared by the half of the   *)
(* range that their difference lies in.  The history variable left says    *)
(* without any wrap how many ticks a timer has left.                       *)
(*                                                                         *)
(* A step is one section that runs with interrupts disabled, or one access *)
(* to a field outside of them.  The tick interrupt runs with interrupts    *)
(* disabled: no thread runs while a callback does.                         *)
(*                                                                         *)
(* A timer is used by one thread and its own callback, or only by          *)
(* callbacks: rt_timer_start is not meant for two callers at a time.       *)
(***************************************************************************)
EXTENDS Integers, FiniteSets, SequencesExt

CONSTANTS
  Timer, NoTimer,
  Thread,
  Uses,       \* the timers a thread uses
  Touches,    \* the timers that the callback of a timer uses
  Controlled, \* the timers that rt_timer_control is used on
  InitTime, InitFlag,   \* what a timer is created with
  Width,      \* ticks count modulo Width, 2^32 in the code: RT_TICK_MAX + 1
  Times,      \* the times set, in ticks
  MaxTime,    \* a bound on them
  Delay       \* how late, in ticks, a preempted thread may insert a timer

Half == (Width - 1) \div 2    \* RT_TICK_MAX / 2

\* Periodic timers of time 0 would keep rt_timer_check in its loop for ever.
ASSUME TimerAssumption ==
  /\ Width \in Nat /\ MaxTime \in Nat /\ Delay \in Nat
  /\ Times \subseteq 1 .. MaxTime /\ Times # {}
  /\ MaxTime + Delay < Half
  /\ NoTimer \notin Timer
  /\ InitTime \in [Timer -> Times] /\ InitFlag \in [Timer -> SUBSET {"PERIODIC"}]
  /\ Uses \in [Thread -> SUBSET Timer] /\ Touches \in [Timer -> SUBSET Timer]
  /\ \A p, q \in Thread : p # q => Uses[p] \cap Uses[q] = {}
  /\ \A u \in Timer, p \in Thread : Touches[u] \cap Uses[p] \subseteq {u}

VARIABLES
  rt_tick,
  rt_timer_list,   \* the timers in the list
  timeout_tick,    \* of a timer whose time-out is computed, 0 otherwise
  init_tick,
  flag,            \* ACTIVATED, PERIODIC
  live,            \* FALSE when detached or deleted
  pc, cur, reg,    \* where a thread is in its call, with which timer; what it loaded
  isr, firing,     \* where the tick interrupt is, whose callback it runs
  left,            \* history: the ticks left, as timeout_tick
  quiet            \* history: stopped, and not started since

queue  == <<rt_timer_list, timeout_tick, left>>
attr   == <<init_tick, flag, live, quiet>>
thread == <<pc, cur, reg>>
intr   == <<isr, firing>>
vars   == <<rt_tick, queue, attr, thread, intr>>

Tick  == 0 .. Width - 1
Flags == SUBSET {"ACTIVATED", "PERIODIC"}

\* rt_timer_init and rt_timer_create.
Init ==
  /\ rt_tick = 0
  /\ rt_timer_list = <<>>
  /\ timeout_tick = [u \in Timer |-> 0]
  /\ init_tick = InitTime
  /\ flag = InitFlag
  /\ live = [u \in Timer |-> TRUE]
  /\ pc = [p \in Thread |-> "idle"]
  /\ cur = [p \in Thread |-> NoTimer]
  /\ reg = [p \in Thread |-> {}]
  /\ isr = "idle" /\ firing = NoTimer
  /\ left = [u \in Timer |-> 0]
  /\ quiet = [u \in Timer |-> FALSE]

-----------------------------------------------------------------------------
(* The list.                                                               *)

\* The difference of two ticks, as rt_tick_t has it.
Minus(x, y) == (x - y) % Width

\* Wrong variant: the ticks are compared as numbers.
Later_Plain(due, u, v) == due[u] > due[v]

\* By the time-outs of due, u times out after v.
Later(due, u, v) == LET d == Minus(due[u], due[v]) IN d # 0 /\ d < Half

\* Wrong variant: u goes in front of those that time out with it.
IsPlace_BeforeEquals(list, due, u, i) ==
  /\ i \in 1 .. Len(list) + 1
  /\ \A j \in 1 .. i - 1 : ~Later(due, list[j], u) /\ due[list[j]] # due[u]
  /\ i <= Len(list) => Later(due, list[i], u) \/ due[list[i]] = due[u]

\* u goes in front of the first timer of the list that times out after it.
IsPlace(list, due, u, i) ==
  /\ i \in 1 .. Len(list) + 1
  /\ \A j \in 1 .. i - 1 : ~Later(due, list[j], u)
  /\ i <= Len(list) => Later(due, list[i], u)

Insert(list, due, u) ==
  \E i \in 1 .. Len(list) + 1 :
    IsPlace(list, due, u, i) /\ rt_timer_list' = InsertAt(list, i, u)

\* Taking a timer that is not in the list out of it changes nothing.
Without(u) ==
  IF u \notin ToSet(rt_timer_list) THEN rt_timer_list
  ELSE RemoveAt(rt_timer_list, CHOOSE i \in DOMAIN rt_timer_list : rt_timer_list[i] = u)

\* _rt_timer_remove.
Unlist(u) ==
  /\ rt_timer_list' = Without(u)
  /\ timeout_tick' = [timeout_tick EXCEPT ![u] = 0]
  /\ left' = [left EXCEPT ![u] = 0]

\* Wrong variant: the sum is not cut to its width.
TimeOutOf_Wide(u) == rt_tick + init_tick[u]

\* When u times out if it is started now.
TimeOutOf(u) == (rt_tick + init_tick[u]) % Width

Compute(u) ==
  /\ timeout_tick' = [timeout_tick EXCEPT ![u] = TimeOutOf(u)]
  /\ left' = [left EXCEPT ![u] = init_tick[u]]

Activated(u)   == [flag EXCEPT ![u] = @ \cup {"ACTIVATED"}]
Deactivated(u) == [flag EXCEPT ![u] = @ \ {"ACTIVATED"}]

-----------------------------------------------------------------------------
(* The calls of a thread, which the tick interrupt may come between.       *)

Calls(p, u) == isr = "idle" /\ pc[p] = "idle" /\ u \in Uses[p] /\ live[u]

\* The next section of the call of p.
At(p, place) == isr = "idle" /\ pc[p] = place

Goes(p, u, place) ==
  /\ pc' = [pc EXCEPT ![p] = place]
  /\ cur' = [cur EXCEPT ![p] = IF place = "idle" THEN NoTimer ELSE u]

\* rt_timer_start: the timer leaves the list,
StartRemove(p, u) ==
  /\ Calls(p, u)
  /\ Unlist(u)
  /\ flag' = Deactivated(u)
  /\ quiet' = [quiet EXCEPT ![u] = FALSE]
  /\ Goes(p, u, "compute")
  /\ UNCHANGED <<rt_tick, init_tick, live, reg, intr>>

\* computes its time-out with interrupts enabled,
StartCompute(p) ==
  /\ At(p, "compute")
  /\ Compute(cur[p])
  /\ Goes(p, cur[p], "insert")
  /\ UNCHANGED <<rt_tick, rt_timer_list, attr, reg, intr>>

\* and gets its place.
StartInsert(p) ==
  /\ At(p, "insert")
  /\ Insert(rt_timer_list, timeout_tick, cur[p])
  /\ flag' = Activated(cur[p])
  /\ Goes(p, cur[p], "idle")
  /\ UNCHANGED <<rt_tick, timeout_tick, left, init_tick, live, quiet, reg, intr>>

\* Wrong variant: the flag is cleared before the timer leaves the list.
StopTest_ClearsFirst(p, u) ==
  /\ Calls(p, u)
  /\ "ACTIVATED" \in flag[u]
  /\ flag' = Deactivated(u)
  /\ Goes(p, u, "remove")
  /\ UNCHANGED <<rt_tick, queue, init_tick, live, quiet, reg, intr>>

\* rt_timer_stop refuses a timer that is not active; otherwise the timer
\* leaves the list, and then its flag is cleared with interrupts enabled.
StopTest(p, u) ==
  /\ Calls(p, u)
  /\ "ACTIVATED" \in flag[u]
  /\ Goes(p, u, "remove")
  /\ UNCHANGED <<rt_tick, queue, attr, reg, intr>>

StopRemove(p) ==
  /\ At(p, "remove")
  /\ Unlist(cur[p])
  /\ Goes(p, cur[p], "clear")
  /\ UNCHANGED <<rt_tick, attr, reg, intr>>

StopClear(p) ==
  /\ At(p, "clear")
  /\ flag' = Deactivated(cur[p])
  /\ quiet' = [quiet EXCEPT ![cur[p]] = TRUE]
  /\ Goes(p, cur[p], "idle")
  /\ UNCHANGED <<rt_tick, queue, init_tick, live, reg, intr>>

\* rt_timer_control(RT_TIMER_CTRL_SET_TIME).
SetTime(p, u) ==
  /\ Calls(p, u) /\ u \in Controlled
  /\ \E time \in Times : init_tick' = [init_tick EXCEPT ![u] = time]
  /\ UNCHANGED <<rt_tick, queue, flag, live, quiet, thread, intr>>

\* RT_TIMER_CTRL_SET_ONESHOT and SET_PERIODIC load the flag and store it.
SetKindLoad(p, u) ==
  /\ Calls(p, u) /\ u \in Controlled
  /\ \/ reg' = [reg EXCEPT ![p] = flag[u] \ {"PERIODIC"}]
     \/ reg' = [reg EXCEPT ![p] = flag[u] \cup {"PERIODIC"}]
  /\ Goes(p, u, "store")
  /\ UNCHANGED <<rt_tick, queue, attr, intr>>

SetKindStore(p) ==
  /\ At(p, "store")
  /\ flag' = [flag EXCEPT ![cur[p]] = reg[p]]
  /\ reg' = [reg EXCEPT ![p] = {}]
  /\ Goes(p, cur[p], "idle")
  /\ UNCHANGED <<rt_tick, queue, init_tick, live, quiet, intr>>

\* rt_timer_detach and rt_timer_delete.
Detach(p, u) ==
  /\ Calls(p, u)
  /\ Unlist(u)
  /\ live' = [live EXCEPT ![u] = FALSE]
  /\ UNCHANGED <<rt_tick, init_tick, flag, quiet, thread, intr>>

ThreadStep(p) ==
  \/ \E u \in Uses[p] :
       StartRemove(p, u) \/ StopTest(p, u) \/ SetTime(p, u) \/ SetKindLoad(p, u) \/ Detach(p, u)
  \/ StartCompute(p) \/ StartInsert(p) \/ StopRemove(p) \/ StopClear(p) \/ SetKindStore(p)

-----------------------------------------------------------------------------
(* The tick interrupt.                                                     *)

\* The time-out of u is computed.
Counts(u) == u \in ToSet(rt_timer_list) \/ \E p \in Thread : pc[p] = "insert" /\ cur[p] = u

\* rt_tick_increase.
TickIncrease ==
  /\ isr = "idle" /\ isr' = "check"
  /\ \A p \in Thread : pc[p] = "insert" => left[cur[p]] > -Delay
  /\ rt_tick' = (rt_tick + 1) % Width
  /\ left' = [u \in Timer |-> IF Counts(u) THEN left[u] - 1 ELSE left[u]]
  /\ UNCHANGED <<rt_timer_list, timeout_tick, attr, thread, firing>>

\* Wrong variant: the ticks are compared as numbers.
IsDue_Plain(u) == rt_tick >= timeout_tick[u]

\* rt_timer_check: u has timed out.
IsDue(u) == Minus(rt_tick, timeout_tick[u]) < Half

\* The first timer has timed out: its callback is called.
CallFirst ==
  /\ isr = "check" /\ isr' = "callback"
  /\ rt_timer_list # <<>> /\ IsDue(Head(rt_timer_list))
  /\ firing' = Head(rt_timer_list)
  /\ UNCHANGED <<rt_tick, attr, thread>>

\* Wrong variant: the timer stays in the list, to be removed when it is started.
Fire_KeepListed == CallFirst /\ UNCHANGED queue

\* It leaves the list before.
Fire == CallFirst /\ Unlist(Head(rt_timer_list))

\* rt_timer_start within the tick interrupt is not interrupted.
Restart(u) ==
  /\ Compute(u)
  /\ Insert(Without(u), timeout_tick', u)

Callback(u) ==
  /\ isr = "callback" /\ u \in Touches[firing] /\ live[u]
  /\ UNCHANGED <<rt_tick, live, thread, intr>>

CallbackStart(u) ==
  /\ Callback(u)
  /\ Restart(u)
  /\ flag' = Activated(u)
  /\ quiet' = [quiet EXCEPT ![u] = FALSE]
  /\ UNCHANGED init_tick

CallbackStop(u) ==
  /\ Callback(u) /\ "ACTIVATED" \in flag[u]
  /\ Unlist(u)
  /\ flag' = Deactivated(u)
  /\ quiet' = [quiet EXCEPT ![u] = TRUE]
  /\ UNCHANGED init_tick

CallbackControl(u) ==
  /\ Callback(u) /\ u \in Controlled
  /\ \/ /\ \E time \in Times : init_tick' = [init_tick EXCEPT ![u] = time]
        /\ UNCHANGED flag
     \/ /\ \E kind \in {{}, {"PERIODIC"}} :
             flag' = [flag EXCEPT ![u] = (@ \ {"PERIODIC"}) \cup kind]
        /\ UNCHANGED init_tick
  /\ UNCHANGED <<queue, quiet>>

\* Wrong variant: restarts a periodic timer that its callback has stopped.
Again_Always(u) == "PERIODIC" \in flag[u]

\* A periodic timer that is still active is started again.
Again(u) == "PERIODIC" \in flag[u] /\ "ACTIVATED" \in flag[u]

\* The callback has returned.
Fired ==
  /\ isr = "callback" /\ isr' = "check"
  /\ \/ Again(firing) /\ Restart(firing) /\ flag' = Activated(firing)
     \/ ~Again(firing) /\ flag' = Deactivated(firing) /\ UNCHANGED queue
  /\ firing' = NoTimer
  /\ UNCHANGED <<rt_tick, init_tick, live, quiet, thread>>

CheckLeave ==
  /\ isr = "check" /\ isr' = "idle"
  /\ rt_timer_list # <<>> => ~IsDue(Head(rt_timer_list))
  /\ UNCHANGED <<rt_tick, queue, attr, thread, firing>>

IsrStep ==
  \/ TickIncrease \/ Fire \/ Fired \/ CheckLeave
  \/ \E u \in Timer : CallbackStart(u) \/ CallbackStop(u) \/ CallbackControl(u)

Next == IsrStep \/ \E p \in Thread : ThreadStep(p)

Spec == Init /\ [][Next]_vars

\* The handler of the clock interrupt goes on when a callback has returned, and
\* every callback returns.
Fairness == WF_vars(Fire \/ Fired \/ CheckLeave)

FairSpec == Spec /\ Fairness

-----------------------------------------------------------------------------
(* Properties.                                                             *)

\* Every variable has its type.
TypeOK ==
  /\ rt_tick \in Tick
  /\ rt_timer_list \in Seq(Timer)
  /\ timeout_tick \in [Timer -> Tick]
  /\ init_tick \in [Timer -> Times]
  /\ flag \in [Timer -> Flags]
  /\ live \in [Timer -> BOOLEAN]
  /\ pc \in [Thread -> {"idle", "compute", "insert", "remove", "clear", "store"}]
  /\ cur \in [Thread -> Timer \cup {NoTimer}]
  /\ reg \in [Thread -> Flags]
  /\ isr \in {"idle", "check", "callback"}
  /\ firing \in Timer \cup {NoTimer}
  /\ left \in [Timer -> -Delay - 1 .. MaxTime]
  /\ quiet \in [Timer -> BOOLEAN]

\* rt_timer_start sorts by differences modulo 2^32 and rt_timer_check looks at
\* the first timer only: across the wrap of the ticks, and with timers that were
\* inserted late, each is in the list once, none behind one that has more time.
ListSorted ==
  /\ IsInjective(rt_timer_list)
  /\ \A i, j \in DOMAIN rt_timer_list :
       i < j => left[rt_timer_list[i]] <= left[rt_timer_list[j]]

\* rt_timer_check runs no callback early, and leaves no timer that is due.
FiresOnTime ==
  [][ /\ isr' = "callback" /\ isr = "check" => left[firing'] <= 0
      /\ isr' = "idle" /\ isr = "check" =>
           \A u \in ToSet(rt_timer_list) : left[u] > 0
    ]_vars

\* The comment in rt_timer_start: of two timers that time out at the same time
\* the one inserted early is called early.
EqualsInOrderOfStart ==
  [][\A u, v \in Timer :
       /\ u # v /\ u \in ToSet(rt_timer_list) /\ v \notin ToSet(rt_timer_list)
       /\ {u, v} \subseteq ToSet(rt_timer_list') /\ left'[u] = left'[v]
       => \E i, j \in DOMAIN rt_timer_list' :
            i < j /\ rt_timer_list'[i] = u /\ rt_timer_list'[j] = v]_vars

\* After rt_timer_stop has returned RT_EOK the callback does not run until the
\* timer is started again, although rt_timer_check restarts periodic timers
\* after their callbacks and rt_timer_stop looks at the flag outside of a lock.
StoppedStaysQuiet == \A u \in Timer : quiet[u] => u \notin ToSet(rt_timer_list)

\* rt_timer_stop refuses a timer without ACTIVATED.  A timer in the list has the
\* flag, but for two cases: a one-shot timer that its own callback has started
\* again loses it when rt_timer_check goes on after the callback, and one whose
\* thread is in rt_timer_control when the flag loaded before that is stored.
PendingKeepsFlag ==
  [][\A u \in Timer :
       u \in ToSet(rt_timer_list') /\ "ACTIVATED" \notin flag'[u] =>
         \/ u \in ToSet(rt_timer_list) /\ "ACTIVATED" \notin flag[u]
         \/ u = firing /\ "PERIODIC" \notin flag[u]
         \/ \E p \in Thread : u = cur[p] /\ "ACTIVATED" \notin reg[p] /\ pc[p] = "store"]_vars

\* rt_timer_check looks at the first timer again and again, and callbacks and
\* periodic timers put new ones into the list: the interrupt ends all the same.
CheckEnds == isr = "check" ~> isr = "idle"
=============================================================================

---------------------------- MODULE TimerProofs ----------------------------
(***************************************************************************)
(* Theorems about Timer, for every number of timers and threads, every     *)
(* width of the tick counter and all times that stay below its half.       *)
(***************************************************************************)
EXTENDS Timer, ListFacts

Listed == ToSet(rt_timer_list)

Sorted(list, time) ==
  \A i, j \in 1 .. Len(list) : i < j => time[list[i]] <= time[list[j]]

\* u is in front of v.
InFront(list, u, v) == \E i, j \in DOMAIN list : i < j /\ list[i] = u /\ list[j] = v

\* A thread that is in a call knows its timer, and so does a running callback.
Places ==
  /\ \A p \in Thread : pc[p] # "idle" => cur[p] \in Uses[p]
  /\ isr = "callback" <=> firing \in Timer

\* What a thread has taken out of the list nobody else puts back: its callback
\* is not called, and no other callback uses it.
Held ==
  \A p \in Thread : pc[p] \in {"compute", "insert", "clear"} =>
    cur[p] \notin Listed /\ cur[p] # firing

\* The time-out of a timer is its ticks left from now on, cut to the width.
Dues == \A u \in Timer : Counts(u) => timeout_tick[u] = (rt_tick + left[u]) % Width

\* A timer is at most Delay late in the list or on its way to it, but in the tick
\* interrupt, which has counted one tick more.
Bounds ==
  /\ isr = "idle" => \A u \in Listed : left[u] >= -Delay
  /\ \A p \in Thread : pc[p] = "insert" => left[cur[p]] >= -Delay

\* A timer that was stopped is in no list and on no way to it; rt_timer_check
\* will not start it again after its callback.
Quiet ==
  /\ \A u \in Listed : ~quiet[u]
  /\ \A p \in Thread : pc[p] \in {"compute", "insert"} => ~quiet[cur[p]]
  /\ isr = "callback" /\ quiet[firing] => "ACTIVATED" \notin flag[firing]

TimerInv ==
  /\ TypeOK /\ Places /\ Held /\ Dues
  /\ NoDup(rt_timer_list) /\ Sorted(rt_timer_list, left)
  /\ Bounds /\ Quiet

-----------------------------------------------------------------------------
(* Ticks modulo the width.                                                 *)

LEMMA HalfFacts ==
  /\ Width \in Nat \ {0} /\ Half \in Nat /\ MaxTime \in Nat /\ Delay \in Nat
  /\ 2 * Half <= Width - 1 /\ Width - 1 <= 2 * Half + 1
  /\ MaxTime >= 1 /\ MaxTime + Delay < Half
<1>1. /\ Width \in Nat /\ MaxTime \in Nat /\ Delay \in Nat
      /\ MaxTime >= 1 /\ MaxTime + Delay < Half
  <2>1. PICK time \in Times : TRUE
    BY TimerAssumption
  <2>2. time \in 1 .. MaxTime
    BY TimerAssumption
  <2> QED BY <2>2, TimerAssumption
<1>2. /\ (Width - 1) \div 2 \in Int
      /\ 2 * ((Width - 1) \div 2) <= Width - 1
      /\ Width - 1 <= 2 * ((Width - 1) \div 2) + 1
  BY <1>1
<1>3. Half \in Int /\ 2 * Half <= Width - 1 /\ Width - 1 <= 2 * Half + 1
  BY <1>2 DEF Half
<1> QED BY <1>1, <1>3

LEMMA NearWidth ==
  ASSUME NEW x \in Int, -Width <= x, x < Width
  PROVE  x % Width = IF x < 0 THEN x + Width ELSE x
<1> DEFINE w == Width
<1>1. w \in Nat \ {0} /\ -w <= x /\ x < 2 * w
  BY HalfFacts
<1> HIDE DEF w
<1>2. x % w = IF x < 0 THEN x + w ELSE IF x < w THEN x ELSE x - w
  BY <1>1, NearRemainder
<1> QED BY <1>2 DEF w

\* The difference of two ticks of one counter is that of what they count.
LEMMA MinusFacts ==
  ASSUME NEW t \in Int, NEW x \in Int, NEW y \in Int
  PROVE  Minus((t + x) % Width, (t + y) % Width) = (x - y) % Width
<1> DEFINE w == Width
           r == (t + y) % w
           d == (t + y) \div w
           z == x - y
<1>1. w \in Nat \ {0}
  BY HalfFacts
<1>2. t + x \in Int /\ t + y \in Int /\ z \in Int
  OBVIOUS
<1>3. r \in 0 .. w - 1 /\ d \in Int /\ t + y = w * d + r
  BY <1>1, <1>2, DivFacts
<1>4. z % w \in 0 .. w - 1 /\ z \div w \in Int /\ z = w * (z \div w) + (z % w)
  BY <1>1, <1>2, DivFacts
<1> HIDE DEF r, d, w
<1>5. (((t + x) % w) + (-r)) % w = ((t + x) + (-r)) % w
  <2>1. -r \in Int
    BY <1>1, <1>3
  <2> QED BY <1>1, <1>2, <2>1, CutEarly
<1>6. ((t + x) + (-r)) % w = z % w
  <2> DEFINE s == z % w
             e == z \div w
             q == d + e
  <2> HIDE DEF s, e, q, z
  <2>1. s \in 0 .. w - 1 /\ e \in Int /\ z = w * e + s
    BY <1>4 DEF s, e
  <2>2. q \in Int /\ w * q = w * d + w * e /\ w * d \in Int /\ w * e \in Int
    BY <1>1, <1>3, <2>1 DEF q
  <2>3. (t + x) + (-r) = z + w * d
    BY <1>1, <1>3, <2>2 DEF z
  <2>4. (t + x) + (-r) = w * q + s
    BY <1>1, <2>1, <2>2, <2>3
  <2>5. (w * q + s) % w = s
    BY <1>1, <2>1, <2>2, RemainderUnique
  <2> QED BY <2>4, <2>5 DEF s
<1>7. (t + x) % w \in Int /\ r \in Int
  BY <1>1, <1>2, <1>3, DivFacts
<1>8. ((t + x) % w) - r = ((t + x) % w) + (-r)
  BY <1>7
<1> QED BY <1>5, <1>6, <1>8 DEF Minus, r, w, z

\* rt_timer_start compares as the ticks left do.
LEMMA LaterFacts ==
  ASSUME NEW t \in Int, NEW due, NEW time, NEW u, NEW v,
         time[u] \in Int, time[v] \in Int,
         due[u] = (t + time[u]) % Width, due[v] = (t + time[v]) % Width,
         time[u] - time[v] < Half, time[v] - time[u] <= Half
  PROVE  Later(due, u, v) <=> time[u] > time[v]
<1> DEFINE x == time[u]
           y == time[v]
           d == Minus(due[u], due[v])
<1>0. x \in Int /\ y \in Int /\ d = Minus((t + x) % Width, (t + y) % Width)
  OBVIOUS
<1> HIDE DEF x, y, d
<1>1. d = (x - y) % Width
  <2>1. Minus((t + x) % Width, (t + y) % Width) = (x - y) % Width
    BY <1>0, MinusFacts
  <2> QED BY <1>0, <2>1
<1>2. x - y \in Int /\ x - y < Half /\ y - x <= Half /\ x \in Int /\ y \in Int
  BY DEF x, y
<1>3. (x - y) % Width = IF x - y < 0 THEN x - y + Width ELSE x - y
  <2>1. -Width <= x - y /\ x - y < Width
    BY <1>2, HalfFacts
  <2> QED BY <1>2, <2>1, NearWidth
<1>4. d # 0 /\ d < Half <=> x > y
  BY <1>1, <1>2, <1>3, HalfFacts
<1> QED BY <1>4 DEF Later, d, x, y

\* rt_timer_check runs what has no ticks left.
LEMMA DueFacts ==
  ASSUME NEW u, rt_tick \in Tick, left[u] \in -Delay - 1 .. MaxTime,
         timeout_tick[u] = (rt_tick + left[u]) % Width
  PROVE  IsDue(u) <=> left[u] <= 0
<1> DEFINE x == left[u]
           d == Minus(rt_tick, timeout_tick[u])
<1>1. rt_tick \in Int /\ rt_tick = (rt_tick + 0) % Width
  <2>1. rt_tick \in Int /\ -Width <= rt_tick /\ rt_tick < Width /\ rt_tick >= 0
    BY HalfFacts DEF Tick
  <2>2. rt_tick % Width = rt_tick
    BY <2>1, NearWidth
  <2> QED BY <2>1, <2>2
<1>2. Minus((rt_tick + 0) % Width, (rt_tick + x) % Width) = (0 - x) % Width
  <2>1. x \in Int
    BY HalfFacts
  <2>2. PICK o \in Int : o = 0
    OBVIOUS
  <2> HIDE DEF x
  <2>3. Minus((rt_tick + o) % Width, (rt_tick + x) % Width) = (o - x) % Width
    BY <1>1, <2>1, MinusFacts
  <2> QED BY <2>2, <2>3
<1>3. d = (0 - x) % Width
  BY <1>1, <1>2
<1>4. (0 - x) % Width = IF 0 - x < 0 THEN 0 - x + Width ELSE 0 - x
  <2>1. 0 - x \in Int /\ -Width <= 0 - x /\ 0 - x < Width
    BY HalfFacts
  <2> QED BY <2>1, NearWidth
<1> HIDE DEF d
<1>5. d < Half <=> x <= 0
  BY <1>3, <1>4, HalfFacts
<1> QED BY <1>5 DEF IsDue, d

-----------------------------------------------------------------------------
(* The list.                                                               *)

\* Taking a timer out leaves the order of the others.
LEMMA WithoutFacts ==
  ASSUME NEW u \in Timer, rt_timer_list \in Seq(Timer), NoDup(rt_timer_list),
         NEW time, Sorted(rt_timer_list, time),
         \A v \in Listed : time[v] \in Int
  PROVE  /\ Without(u) \in Seq(Timer)
         /\ ToSet(Without(u)) = Listed \ {u}
         /\ NoDup(Without(u)) /\ Sorted(Without(u), time)
<1> DEFINE s == rt_timer_list
<1>1. CASE u \notin Listed
  BY <1>1 DEF Without, Listed
<1>2. CASE u \in Listed
  <2>0. DOMAIN s = 1 .. Len(s)
    OBVIOUS
  <2>1. \E i \in DOMAIN s : s[i] = u
    BY <1>2 DEF ToSet, Listed
  <2>2. PICK i \in 1 .. Len(s) : s[i] = u /\ Without(u) = RemoveAt(s, i)
    BY <1>2, <2>0, <2>1 DEF Without, Listed
  <2>3. /\ Without(u) \in Seq(Timer) /\ NoDup(Without(u))
        /\ ToSet(Without(u)) = Listed \ {u}
    BY <2>2, RemoveFacts DEF Listed
  <2>4. /\ Len(Without(u)) = Len(s) - 1
        /\ \A k \in 1 .. Len(s) - 1 : Without(u)[k] = IF k < i THEN s[k] ELSE s[k + 1]
    BY <2>2, RemoveElements
  <2>5. \A k \in 1 .. Len(s) : time[s[k]] \in Int
    BY DEF Listed, ToSet
  <2>6. ASSUME NEW j \in 1 .. Len(s) - 1, NEW k \in 1 .. Len(s) - 1, j < k
        PROVE  time[Without(u)[j]] <= time[Without(u)[k]]
    <3>1. PICK m \in 1 .. Len(s) : m = (IF j < i THEN j ELSE j + 1)
      BY <2>6
    <3>2. PICK n \in 1 .. Len(s) : n = (IF k < i THEN k ELSE k + 1)
      BY <2>6
    <3>3. Without(u)[j] = s[m] /\ Without(u)[k] = s[n] /\ m < n
      BY <2>4, <2>6, <3>1, <3>2
    <3> QED BY <3>3 DEF Sorted
  <2> QED BY <2>3, <2>4, <2>6 DEF Sorted
<1> QED BY <1>1, <1>2

\* The place that rt_timer_start finds keeps the list sorted, and is behind
\* every timer that has as many ticks left.
LEMMA PlaceFacts ==
  ASSUME NEW list \in Seq(Timer), NoDup(list), NEW u \in Timer, u \notin ToSet(list),
         NEW due, NEW time, Sorted(list, time), time[u] \in Int,
         \A v \in ToSet(list) :
           time[v] \in Int /\ (Later(due, v, u) <=> time[v] > time[u]),
         NEW i, IsPlace(list, due, u, i), NEW new, new = InsertAt(list, i, u)
  PROVE  /\ new \in Seq(Timer) /\ ToSet(new) = ToSet(list) \cup {u}
         /\ NoDup(new) /\ Sorted(new, time)
         /\ \A v \in ToSet(list) : time[v] = time[u] => InFront(new, v, u)
<1>1. i \in 1 .. Len(list) + 1
  BY DEF IsPlace
<1>2. new \in Seq(Timer) /\ ToSet(new) = ToSet(list) \cup {u} /\ NoDup(new)
  BY <1>1, InsertFacts
<1>3. /\ Len(new) = Len(list) + 1
      /\ \A k \in 1 .. Len(list) + 1 :
           new[k] = IF k < i THEN list[k] ELSE IF k = i THEN u ELSE list[k - 1]
  <2> DEFINE r == InsertAt(list, i, u)
  <2>1. /\ Len(r) = Len(list) + 1
        /\ \A k \in 1 .. Len(list) + 1 :
             r[k] = IF k < i THEN list[k] ELSE IF k = i THEN u ELSE list[k - 1]
    BY <1>1, InsertElements, SMTT(60)
  <2> QED BY <2>1
<1>4. \A k \in 1 .. Len(list) : /\ time[list[k]] \in Int
                                /\ Later(due, list[k], u) <=> time[list[k]] > time[u]
  BY DEF ToSet
<1>5. \A k \in 1 .. Len(list) : k < i => time[list[k]] <= time[u]
  BY <1>1, <1>4 DEF IsPlace
<1>6. \A k \in 1 .. Len(list) : k >= i => time[list[k]] > time[u]
  <2> TAKE k \in 1 .. Len(list)
  <2> HAVE k >= i
  <2>1. i \in 1 .. Len(list) /\ time[list[i]] > time[u] /\ time[list[i]] \in Int
    BY <1>1, <1>4 DEF IsPlace
  <2>2. time[list[i]] <= time[list[k]]
    BY <1>1, <1>4, <2>1 DEF Sorted
  <2> QED BY <2>1, <2>2, <1>4
<1>7. ASSUME NEW j \in 1 .. Len(new), NEW k \in 1 .. Len(new), j < k
      PROVE  time[new[j]] <= time[new[k]]
  <2>0. /\ j < i => j \in 1 .. Len(list)
        /\ j > i => j - 1 \in 1 .. Len(list)
        /\ k < i => k \in 1 .. Len(list)
        /\ k > i => k - 1 \in 1 .. Len(list)
    BY <1>1, <1>3
  <2>1. /\ new[j] = IF j < i THEN list[j] ELSE IF j = i THEN u ELSE list[j - 1]
        /\ new[k] = IF k < i THEN list[k] ELSE IF k = i THEN u ELSE list[k - 1]
    BY <1>3
  <2>2. CASE j = i
    BY <1>1, <1>6, <1>4, <2>0, <2>1, <2>2, <1>7
  <2>3. CASE k = i
    BY <1>1, <1>5, <1>4, <2>0, <2>1, <2>3, <1>7
  <2>4. CASE k < i
    BY <1>1, <2>0, <2>1, <2>4, <1>7 DEF Sorted
  <2>5. CASE j < i /\ k > i
    <3>1. time[list[j]] <= time[u] /\ time[list[k - 1]] > time[u]
      BY <1>1, <1>5, <1>6, <2>0, <2>5
    <3> QED BY <3>1, <2>0, <2>1, <2>5, <1>4, <1>1
  <2>6. CASE j > i
    <3>1. j - 1 < k - 1 /\ k > i
      BY <1>1, <1>7, <2>6
    <3> QED BY <3>1, <1>1, <2>0, <2>1, <2>6 DEF Sorted
  <2> QED BY <1>1, <1>7, <2>2, <2>3, <2>4, <2>5, <2>6
<1>8. Sorted(new, time)
  BY <1>7 DEF Sorted
<1>9. ASSUME NEW v \in ToSet(list), time[v] = time[u]
      PROVE  InFront(new, v, u)
  <2>1. PICK j \in 1 .. Len(list) : list[j] = v
    BY DEF ToSet
  <2>2. j < i
    BY <1>1, <1>4, <1>6, <1>9, <2>1
  <2>3. j \in DOMAIN new /\ i \in DOMAIN new /\ new[j] = v /\ new[i] = u
    BY <1>1, <1>2, <1>3, <2>1, <2>2
  <2> QED BY <2>2, <2>3 DEF InFront
<1> QED BY <1>2, <1>8, <1>9

-----------------------------------------------------------------------------
(* The steps on the list.                                                  *)

LEMMA ListedType ==
  ASSUME TypeOK
  PROVE  /\ Listed \subseteq Timer
         /\ \A u \in Timer : left[u] \in Int /\ left[u] >= -Delay - 1 /\ left[u] <= MaxTime
         /\ \A u \in Timer : init_tick[u] \in 1 .. MaxTime
         /\ rt_tick \in Int
<1>1. Listed \subseteq Timer
  BY DEF TypeOK, Listed, ToSet
<1>2. \A u \in Timer : left[u] \in Int /\ left[u] >= -Delay - 1 /\ left[u] <= MaxTime
  BY HalfFacts DEF TypeOK
<1>3. \A u \in Timer : init_tick[u] \in 1 .. MaxTime
  BY TimerAssumption DEF TypeOK
<1>4. rt_tick \in Int
  BY HalfFacts DEF TypeOK, Tick
<1> QED BY <1>1, <1>2, <1>3, <1>4

LEMMA UnlistFacts ==
  ASSUME TimerInv, NEW u \in Timer, Unlist(u)
  PROVE  /\ rt_timer_list' \in Seq(Timer) /\ Listed' = Listed \ {u}
         /\ NoDup(rt_timer_list') /\ Sorted(rt_timer_list', left')
         /\ timeout_tick' \in [Timer -> Tick]
         /\ left' \in [Timer -> -Delay - 1 .. MaxTime]
         /\ \A v \in Timer : v # u => left'[v] = left[v] /\ timeout_tick'[v] = timeout_tick[v]
<1>0. rt_timer_list \in Seq(Timer) /\ \A v \in Listed : left[v] \in Int
  BY ListedType DEF TimerInv, TypeOK
<1>1. /\ Without(u) \in Seq(Timer) /\ ToSet(Without(u)) = Listed \ {u}
      /\ NoDup(Without(u)) /\ Sorted(Without(u), left)
  BY <1>0, WithoutFacts DEF TimerInv
<1>2. \A v \in Timer : v # u => left'[v] = left[v] /\ timeout_tick'[v] = timeout_tick[v]
  BY DEF Unlist, TimerInv, TypeOK
<1>3. rt_timer_list' = Without(u)
  BY DEF Unlist
<1>4. Sorted(rt_timer_list', left')
  <2> DEFINE new == Without(u)
  <2>1. new \in Seq(Timer) /\ u \notin ToSet(new) /\ Sorted(new, left)
    BY <1>1
  <2> HIDE DEF new
  <2>2. \A i \in 1 .. Len(new) : new[i] \in Timer /\ new[i] # u
    BY <2>1 DEF ToSet
  <2>3. Sorted(new, left')
    BY <2>1, <2>2, <1>2 DEF Sorted
  <2> QED BY <2>3, <1>3 DEF new
<1>5. timeout_tick' \in [Timer -> Tick] /\ left' \in [Timer -> -Delay - 1 .. MaxTime]
  <2>1. 0 \in Tick /\ 0 \in -Delay - 1 .. MaxTime
    BY HalfFacts DEF Tick
  <2> QED BY <2>1 DEF Unlist, TimerInv, TypeOK
<1> QED BY <1>1, <1>2, <1>3, <1>4, <1>5 DEF Listed

\* What is put into the list: by a thread, whose timer may be late as those in
\* the list may be,
LEMMA InsertedFacts ==
  ASSUME TimerInv, NEW p \in Thread, StartInsert(p)
  PROVE  /\ cur[p] \in Timer /\ cur[p] \notin Listed
         /\ rt_timer_list' \in Seq(Timer) /\ Listed' = Listed \cup {cur[p]}
         /\ NoDup(rt_timer_list') /\ Sorted(rt_timer_list', left)
         /\ \A v \in Listed : left[v] = left[cur[p]] => InFront(rt_timer_list', v, cur[p])
<1> DEFINE u == cur[p]
<1>1. /\ isr = "idle" /\ pc[p] = "insert"
      /\ Insert(rt_timer_list, timeout_tick, u)
  BY DEF StartInsert, At
<1>2. u \in Timer /\ u \notin Listed /\ Counts(u)
  BY <1>1, TimerAssumption DEF TimerInv, Places, Held, Counts
<1>3. ASSUME NEW v \in Listed
      PROVE  left[v] \in Int /\ (Later(timeout_tick, v, u) <=> left[v] > left[u])
  <2>1. v \in Timer /\ Counts(v)
    BY <1>3, ListedType DEF TimerInv, Counts, Listed
  <2>2. /\ timeout_tick[u] = (rt_tick + left[u]) % Width
        /\ timeout_tick[v] = (rt_tick + left[v]) % Width
    BY <1>2, <2>1 DEF TimerInv, Dues
  <2>3. /\ left[u] \in Int /\ left[v] \in Int /\ rt_tick \in Int
        /\ left[u] <= MaxTime /\ left[v] <= MaxTime
    BY <1>2, <2>1, ListedType DEF TimerInv
  <2>4. left[u] >= -Delay /\ left[v] >= -Delay
    BY <1>1, <1>3 DEF TimerInv, Bounds
  <2>5. left[v] - left[u] < Half /\ left[u] - left[v] <= Half
    BY <2>3, <2>4, HalfFacts
  <2>6. Later(timeout_tick, v, u) <=> left[v] > left[u]
    BY <2>2, <2>3, <2>5, LaterFacts
  <2> QED BY <2>3, <2>6
<1>4. left[u] \in Int
  BY <1>2, ListedType DEF TimerInv
<1>5. PICK i \in 1 .. Len(rt_timer_list) + 1 :
        /\ IsPlace(rt_timer_list, timeout_tick, u, i)
        /\ rt_timer_list' = InsertAt(rt_timer_list, i, u)
  BY <1>1 DEF Insert
<1>6. rt_timer_list \in Seq(Timer) /\ NoDup(rt_timer_list) /\ Sorted(rt_timer_list, left)
  BY DEF TimerInv, TypeOK
<1> HIDE DEF u
<1>7. PICK new : new = InsertAt(rt_timer_list, i, u)
  OBVIOUS
<1>8. /\ new \in Seq(Timer) /\ ToSet(new) = ToSet(rt_timer_list) \cup {u}
      /\ NoDup(new) /\ Sorted(new, left)
      /\ \A v \in ToSet(rt_timer_list) : left[v] = left[u] => InFront(new, v, u)
  <2>1. u \in Timer /\ u \notin ToSet(rt_timer_list)
    BY <1>2 DEF Listed
  <2>2. \A v \in ToSet(rt_timer_list) :
          left[v] \in Int /\ (Later(timeout_tick, v, u) <=> left[v] > left[u])
    BY <1>3 DEF Listed
  <2>3. IsPlace(rt_timer_list, timeout_tick, u, i)
    BY <1>5
  <2>4. rt_timer_list \in Seq(Timer)
    BY <1>6
  <2>5. NoDup(rt_timer_list)
    BY <1>6
  <2>6. Sorted(rt_timer_list, left)
    BY <1>6
  <2> QED BY <2>1, <2>2, <2>3, <2>4, <2>5, <2>6, <1>4, <1>7, PlaceFacts
<1> QED BY <1>2, <1>5, <1>7, <1>8 DEF Listed, u

LEMMA ComputeFacts ==
  ASSUME TypeOK, NEW u \in Timer, Compute(u)
  PROVE  /\ timeout_tick' \in [Timer -> Tick]
         /\ left' \in [Timer -> -Delay - 1 .. MaxTime]
         /\ left'[u] = init_tick[u] /\ left'[u] \in 1 .. MaxTime
         /\ timeout_tick'[u] = (rt_tick + left'[u]) % Width
         /\ \A v \in Timer : v # u => left'[v] = left[v] /\ timeout_tick'[v] = timeout_tick[v]
<1>1. init_tick[u] \in 1 .. MaxTime /\ init_tick[u] \in -Delay - 1 .. MaxTime
  BY ListedType, HalfFacts
<1>2. rt_tick + init_tick[u] \in Int
  BY <1>1, ListedType
<1>3. TimeOutOf(u) \in Tick
  BY <1>2, HalfFacts, DivFacts DEF TimeOutOf, Tick
<1>4. timeout_tick' \in [Timer -> Tick] /\ timeout_tick'[u] = TimeOutOf(u)
  BY <1>3 DEF Compute, TypeOK
<1>5. left' \in [Timer -> -Delay - 1 .. MaxTime] /\ left'[u] = init_tick[u]
  BY <1>1 DEF Compute, TypeOK
<1>6. \A v \in Timer : v # u => left'[v] = left[v] /\ timeout_tick'[v] = timeout_tick[v]
  BY DEF Compute, TypeOK
<1> QED BY <1>1, <1>4, <1>5, <1>6 DEF TimeOutOf

\* and in the tick interrupt, where the new timer has time left.
LEMMA RestartFacts ==
  ASSUME TimerInv, NEW u \in Timer, Restart(u)
  PROVE  /\ rt_timer_list' \in Seq(Timer) /\ Listed' = Listed \cup {u}
         /\ NoDup(rt_timer_list') /\ Sorted(rt_timer_list', left')
         /\ timeout_tick' \in [Timer -> Tick]
         /\ left' \in [Timer -> -Delay - 1 .. MaxTime]
         /\ timeout_tick'[u] = (rt_tick + left'[u]) % Width
         /\ \A v \in Timer : v # u => left'[v] = left[v] /\ timeout_tick'[v] = timeout_tick[v]
         /\ \A v \in Listed : v # u /\ left'[v] = left'[u] => InFront(rt_timer_list', v, u)
<1> DEFINE list == Without(u)
<1>1. Compute(u) /\ Insert(list, timeout_tick', u)
  BY DEF Restart
<1>2. /\ timeout_tick' \in [Timer -> Tick]
      /\ left' \in [Timer -> -Delay - 1 .. MaxTime]
      /\ left'[u] \in 1 .. MaxTime
      /\ timeout_tick'[u] = (rt_tick + left'[u]) % Width
      /\ \A v \in Timer : v # u => left'[v] = left[v] /\ timeout_tick'[v] = timeout_tick[v]
  BY <1>1, ComputeFacts DEF TimerInv
<1>3. list \in Seq(Timer) /\ ToSet(list) = Listed \ {u} /\ NoDup(list) /\ Sorted(list, left)
  <2>1. rt_timer_list \in Seq(Timer) /\ \A v \in Listed : left[v] \in Int
    BY ListedType DEF TimerInv, TypeOK
  <2> QED BY <2>1, WithoutFacts DEF TimerInv
<1>4. Listed \subseteq Timer
  BY ListedType DEF TimerInv
<1> HIDE DEF list
<1>5. Sorted(list, left')
  <2>0. list \in Seq(Timer) /\ u \notin ToSet(list)
    BY <1>3
  <2>1. \A i \in 1 .. Len(list) : list[i] \in Timer /\ list[i] # u
    BY <2>0 DEF ToSet
  <2> QED BY <1>2, <1>3, <2>1 DEF Sorted
<1>6. ASSUME NEW v \in ToSet(list)
      PROVE  left'[v] \in Int /\ (Later(timeout_tick', v, u) <=> left'[v] > left'[u])
  <2>1. v \in Timer /\ v # u /\ Counts(v)
    BY <1>3, <1>4, <1>6 DEF Counts, Listed
  <2>2. timeout_tick'[v] = (rt_tick + left'[v]) % Width
    BY <1>2, <2>1 DEF TimerInv, Dues
  <2>3. left'[v] \in Int /\ left'[v] >= -Delay - 1 /\ left'[v] <= MaxTime /\ rt_tick \in Int
    BY <1>2, <2>1, ListedType DEF TimerInv
  <2>4. /\ left'[v] - left'[u] < Half /\ left'[u] - left'[v] <= Half /\ left'[u] \in Int
    BY <1>2, <2>3, HalfFacts
  <2>5. Later(timeout_tick', v, u) <=> left'[v] > left'[u]
    BY <1>2, <2>2, <2>3, <2>4, LaterFacts
  <2> QED BY <2>3, <2>5
<1>7. left'[u] \in Int /\ u \notin ToSet(list)
  BY <1>2, <1>3, HalfFacts
<1>8. PICK i \in 1 .. Len(list) + 1 :
        IsPlace(list, timeout_tick', u, i) /\ rt_timer_list' = InsertAt(list, i, u)
  BY <1>1 DEF Insert
<1>9. PICK new : new = InsertAt(list, i, u)
  OBVIOUS
<1>10. /\ new \in Seq(Timer) /\ ToSet(new) = ToSet(list) \cup {u}
       /\ NoDup(new) /\ Sorted(new, left')
       /\ \A v \in ToSet(list) : left'[v] = left'[u] => InFront(new, v, u)
  <2> DEFINE due == timeout_tick'
             time == left'
  <2>1. \A v \in ToSet(list) : time[v] \in Int /\ (Later(due, v, u) <=> time[v] > time[u])
    BY <1>6
  <2>2. IsPlace(list, due, u, i)
    BY <1>8
  <2>3. list \in Seq(Timer)
    BY <1>3
  <2>4. NoDup(list)
    BY <1>3
  <2>5. Sorted(list, time)
    BY <1>5
  <2>6. time[u] \in Int
    BY <1>7
  <2>7. u \notin ToSet(list)
    BY <1>7
  <2> HIDE DEF due, time
  <2>8. /\ new \in Seq(Timer) /\ ToSet(new) = ToSet(list) \cup {u}
        /\ NoDup(new) /\ Sorted(new, time)
        /\ \A v \in ToSet(list) : time[v] = time[u] => InFront(new, v, u)
    BY <2>1, <2>2, <2>3, <2>4, <2>5, <2>6, <2>7, <1>9, PlaceFacts
  <2> QED BY <2>8 DEF due, time
<1>11. rt_timer_list' = new
  BY <1>8, <1>9
<1>12. \A v \in Listed : v # u /\ left'[v] = left'[u] => InFront(rt_timer_list', v, u)
  BY <1>3, <1>10, <1>11
<1> QED BY <1>2, <1>3, <1>10, <1>11, <1>12 DEF Listed

-----------------------------------------------------------------------------
(* The invariant, a step at a time.                                        *)

LEMMA Holders ==
  ASSUME TimerInv
  PROVE  /\ \A p \in Thread : Uses[p] \subseteq Timer
         /\ \A p \in Thread : pc[p] # "idle" => cur[p] \in Timer
         /\ \A p, q \in Thread : \A u \in Uses[p] : p # q /\ pc[q] # "idle" => cur[q] # u
         /\ isr # "callback" => firing \notin Timer
         /\ \A u \in Timer : Touches[u] \subseteq Timer
         /\ isr = "callback" => \A u \in Touches[firing], p \in Thread :
              pc[p] \in {"compute", "insert", "clear"} => cur[p] # u
<1>1. /\ \A p \in Thread : Uses[p] \subseteq Timer
      /\ \A u \in Timer : Touches[u] \subseteq Timer
  BY TimerAssumption
<1>2. \A p \in Thread : pc[p] # "idle" => cur[p] \in Uses[p]
  BY DEF TimerInv, Places
<1>3. \A p, q \in Thread : \A u \in Uses[p] : p # q /\ pc[q] # "idle" => cur[q] # u
  BY <1>2, TimerAssumption
<1>4. isr = "callback" <=> firing \in Timer
  BY DEF TimerInv, Places
<1>5. ASSUME isr = "callback", NEW u \in Touches[firing], NEW p \in Thread,
             pc[p] \in {"compute", "insert", "clear"}
      PROVE  cur[p] # u
  <2>1. cur[p] \in Uses[p] /\ cur[p] # firing
    BY <1>2, <1>5 DEF TimerInv, Held
  <2>2. Touches[firing] \cap Uses[p] \subseteq {firing}
    BY <1>4, <1>5, TimerAssumption
  <2> QED BY <2>1, <2>2
<1> QED BY <1>1, <1>2, <1>3, <1>4, <1>5

LEMMA GoesFacts ==
  ASSUME TimerInv, NEW p \in Thread, NEW u \in Timer, NEW place,
         place \in {"idle", "compute", "insert", "remove", "clear", "store"},
         Goes(p, u, place)
  PROVE  /\ pc' \in [Thread -> {"idle", "compute", "insert", "remove", "clear", "store"}]
         /\ cur' \in [Thread -> Timer \cup {NoTimer}]
         /\ pc'[p] = place /\ (place # "idle" => cur'[p] = u)
         /\ \A q \in Thread : q # p => pc'[q] = pc[q] /\ cur'[q] = cur[q]
BY DEF Goes, TimerInv, TypeOK

\* A step that leaves the queue and the clock alone.
LEMMA SameQueue ==
  ASSUME TimerInv, UNCHANGED <<rt_tick, queue>>
  PROVE  /\ rt_tick' \in Tick /\ rt_timer_list' \in Seq(Timer)
         /\ timeout_tick' \in [Timer -> Tick] /\ left' \in [Timer -> -Delay - 1 .. MaxTime]
         /\ Listed' = Listed /\ NoDup(rt_timer_list') /\ Sorted(rt_timer_list', left')
         /\ rt_tick' = rt_tick /\ left' = left /\ timeout_tick' = timeout_tick
BY DEF queue, TimerInv, TypeOK, Listed

LEMMA StartRemoveStep ==
  ASSUME TimerInv, NEW p \in Thread, NEW u \in Uses[p], StartRemove(p, u)
  PROVE  TimerInv'
<1>1. /\ isr = "idle" /\ pc[p] = "idle" /\ Unlist(u)
      /\ flag' = Deactivated(u) /\ quiet' = [quiet EXCEPT ![u] = FALSE]
      /\ Goes(p, u, "compute")
      /\ rt_tick' = rt_tick /\ init_tick' = init_tick /\ live' = live /\ reg' = reg
      /\ isr' = isr /\ firing' = firing
  BY DEF StartRemove, Calls, intr
<1>2. u \in Timer
  BY Holders
<1>3. /\ rt_timer_list' \in Seq(Timer) /\ Listed' = Listed \ {u}
      /\ NoDup(rt_timer_list') /\ Sorted(rt_timer_list', left')
      /\ timeout_tick' \in [Timer -> Tick]
      /\ left' \in [Timer -> -Delay - 1 .. MaxTime]
      /\ \A v \in Timer : v # u => left'[v] = left[v] /\ timeout_tick'[v] = timeout_tick[v]
  BY <1>1, <1>2, UnlistFacts
<1>4. /\ pc' \in [Thread -> {"idle", "compute", "insert", "remove", "clear", "store"}]
      /\ cur' \in [Thread -> Timer \cup {NoTimer}]
      /\ pc'[p] = "compute" /\ cur'[p] = u
      /\ \A q \in Thread : q # p => pc'[q] = pc[q] /\ cur'[q] = cur[q]
  BY <1>1, <1>2, GoesFacts
<1>5. \A q \in Thread : q # p /\ pc[q] # "idle" => cur[q] # u
  BY Holders
<1>6. Listed \subseteq Timer /\ firing \notin Timer /\ \A q \in Thread : pc[q] # "idle" => cur[q] \in Timer
  BY <1>1, ListedType, Holders DEF TimerInv
<1>7. TypeOK'
  <2>1. flag' \in [Timer -> Flags] /\ quiet' \in [Timer -> BOOLEAN]
    BY <1>1, <1>2 DEF TimerInv, TypeOK, Deactivated, Flags
  <2> QED BY <1>1, <1>3, <1>4, <2>1 DEF TimerInv, TypeOK
<1>8. Places'
  BY <1>1, <1>4 DEF TimerInv, Places
<1>9. Held'
  BY <1>1, <1>2, <1>3, <1>4, <1>6 DEF TimerInv, Held
<1>10. Dues'
  <2>1. ASSUME NEW v \in Timer, Counts(v)' PROVE Counts(v) /\ v # u
    <3>1. CASE v \in Listed'
      BY <3>1, <1>3 DEF Counts, Listed
    <3>2. CASE \E q \in Thread : pc'[q] = "insert" /\ cur'[q] = v
      BY <3>2, <1>4, <1>5 DEF Counts
    <3> QED BY <2>1, <3>1, <3>2 DEF Counts, Listed
  <2> QED BY <2>1, <1>1, <1>3 DEF TimerInv, Dues
<1>11. Bounds'
  <2>1. \A v \in Listed' : left'[v] >= -Delay
    BY <1>1, <1>3, <1>6 DEF TimerInv, Bounds
  <2>2. \A q \in Thread : pc'[q] = "insert" => left'[cur'[q]] >= -Delay
    <3> TAKE q \in Thread
    <3> HAVE pc'[q] = "insert"
    <3>1. q # p /\ pc[q] = "insert" /\ cur'[q] = cur[q]
      BY <1>4
    <3>2. cur[q] \in Timer /\ cur[q] # u
      BY <1>5, <1>6, <3>1
    <3> QED BY <1>3, <3>1, <3>2 DEF TimerInv, Bounds
  <2> QED BY <2>1, <2>2 DEF Bounds
<1>12. Quiet'
  <2>1. quiet'[u] = FALSE /\ \A v \in Timer : v # u => quiet'[v] = quiet[v]
    BY <1>1, <1>2 DEF TimerInv, TypeOK
  <2> QED BY <2>1, <1>1, <1>3, <1>4, <1>5, <1>6 DEF TimerInv, Quiet
<1> QED BY <1>3, <1>7, <1>8, <1>9, <1>10, <1>11, <1>12 DEF TimerInv

LEMMA StartComputeStep ==
  ASSUME TimerInv, NEW p \in Thread, StartCompute(p)
  PROVE  TimerInv'
<1> DEFINE u == cur[p]
<1>1. /\ isr = "idle" /\ pc[p] = "compute" /\ Compute(u)
      /\ Goes(p, u, "insert")
      /\ rt_tick' = rt_tick /\ init_tick' = init_tick /\ live' = live /\ reg' = reg
      /\ isr' = isr /\ firing' = firing /\ flag' = flag /\ quiet' = quiet
      /\ rt_timer_list' = rt_timer_list
  BY DEF StartCompute, At, intr, attr
<1>2. u \in Timer /\ u \in Uses[p] /\ u \notin Listed /\ ~quiet[u]
  BY <1>1, Holders DEF TimerInv, Held, Places, Quiet
<1> HIDE DEF u
<1>3. /\ timeout_tick' \in [Timer -> Tick]
      /\ left' \in [Timer -> -Delay - 1 .. MaxTime]
      /\ left'[u] \in 1 .. MaxTime
      /\ timeout_tick'[u] = (rt_tick + left'[u]) % Width
      /\ \A v \in Timer : v # u => left'[v] = left[v] /\ timeout_tick'[v] = timeout_tick[v]
  BY <1>1, <1>2, ComputeFacts DEF TimerInv
<1>4. /\ pc' \in [Thread -> {"idle", "compute", "insert", "remove", "clear", "store"}]
      /\ cur' \in [Thread -> Timer \cup {NoTimer}]
      /\ pc'[p] = "insert" /\ cur'[p] = u
      /\ \A q \in Thread : q # p => pc'[q] = pc[q] /\ cur'[q] = cur[q]
  BY <1>1, <1>2, GoesFacts
<1>5. \A q \in Thread : q # p /\ pc[q] # "idle" => cur[q] # u
  BY <1>2, Holders
<1>6. Listed \subseteq Timer /\ firing \notin Timer /\ \A q \in Thread : pc[q] # "idle" => cur[q] \in Timer
  BY <1>1, ListedType, Holders DEF TimerInv
<1>7. TypeOK'
  BY <1>1, <1>3, <1>4 DEF TimerInv, TypeOK
<1>8. Places'
  BY <1>1, <1>2, <1>4 DEF TimerInv, Places
<1>9. Listed' = Listed /\ NoDup(rt_timer_list')
  BY <1>1 DEF Listed, TimerInv
<1>10. Held'
  BY <1>1, <1>2, <1>4, <1>6, <1>9 DEF TimerInv, Held
<1>11. Dues'
  BY <1>1, <1>2, <1>3, <1>4, <1>5, <1>6, <1>9 DEF TimerInv, Dues, Counts, Listed
<1>12. Sorted(rt_timer_list', left')
  <2>1. \A i \in 1 .. Len(rt_timer_list) : rt_timer_list[i] \in Timer /\ rt_timer_list[i] # u
    BY <1>2, <1>6 DEF Listed, ToSet
  <2> QED BY <1>1, <1>3, <2>1 DEF TimerInv, Sorted
<1>13. Bounds'
  <2>1. left'[u] >= -Delay
    BY <1>3, HalfFacts
  <2> QED BY <2>1, <1>1, <1>2, <1>3, <1>4, <1>5, <1>6, <1>9 DEF TimerInv, Bounds
<1>14. Quiet'
  BY <1>1, <1>2, <1>4, <1>5, <1>9 DEF TimerInv, Quiet
<1> QED BY <1>7, <1>8, <1>9, <1>10, <1>11, <1>12, <1>13, <1>14 DEF TimerInv

LEMMA StartInsertStep ==
  ASSUME TimerInv, NEW p \in Thread, StartInsert(p)
  PROVE  TimerInv'
<1> DEFINE u == cur[p]
<1>1. /\ isr = "idle" /\ pc[p] = "insert"
      /\ flag' = Activated(u) /\ Goes(p, u, "idle")
      /\ rt_tick' = rt_tick /\ init_tick' = init_tick /\ live' = live /\ reg' = reg
      /\ isr' = isr /\ firing' = firing /\ quiet' = quiet
      /\ timeout_tick' = timeout_tick /\ left' = left
  BY DEF StartInsert, At, intr
<1>2. u \in Timer /\ u \in Uses[p] /\ ~quiet[u] /\ left[u] >= -Delay /\ Counts(u)
  BY <1>1, Holders DEF TimerInv, Places, Quiet, Bounds, Counts
<1>3. /\ rt_timer_list' \in Seq(Timer) /\ Listed' = Listed \cup {u}
      /\ NoDup(rt_timer_list') /\ Sorted(rt_timer_list', left)
  BY InsertedFacts
<1> HIDE DEF u
<1>4. /\ pc' \in [Thread -> {"idle", "compute", "insert", "remove", "clear", "store"}]
      /\ cur' \in [Thread -> Timer \cup {NoTimer}]
      /\ pc'[p] = "idle"
      /\ \A q \in Thread : q # p => pc'[q] = pc[q] /\ cur'[q] = cur[q]
  BY <1>1, <1>2, GoesFacts
<1>5. \A q \in Thread : q # p /\ pc[q] # "idle" => cur[q] # u
  BY <1>2, Holders
<1>6. TypeOK'
  <2>1. flag' \in [Timer -> Flags]
    BY <1>1, <1>2 DEF TimerInv, TypeOK, Activated, Flags
  <2> QED BY <1>1, <1>3, <1>4, <2>1 DEF TimerInv, TypeOK
<1>7. Places'
  BY <1>1, <1>4 DEF TimerInv, Places
<1>8. Held'
  BY <1>1, <1>3, <1>4, <1>5 DEF TimerInv, Held
<1>9. Dues'
  BY <1>1, <1>2, <1>3, <1>4 DEF TimerInv, Dues, Counts, Listed
<1>10. Bounds'
  BY <1>1, <1>2, <1>3, <1>4 DEF TimerInv, Bounds
<1>11. Quiet'
  BY <1>1, <1>2, <1>3, <1>4 DEF TimerInv, Quiet
<1> QED BY <1>1, <1>3, <1>6, <1>7, <1>8, <1>9, <1>10, <1>11 DEF TimerInv

LEMMA StopTestStep ==
  ASSUME TimerInv, NEW p \in Thread, NEW u \in Uses[p],
         StopTest(p, u) \/ SetKindLoad(p, u)
  PROVE  TimerInv'
<1>1. /\ isr = "idle" /\ pc[p] = "idle"
      /\ Goes(p, u, "remove") \/ Goes(p, u, "store")
      /\ rt_tick' = rt_tick /\ init_tick' = init_tick /\ live' = live
      /\ isr' = isr /\ firing' = firing /\ flag' = flag /\ quiet' = quiet
      /\ UNCHANGED <<rt_tick, queue>>
  BY DEF StopTest, SetKindLoad, Calls, intr, attr
<1>2. u \in Timer
  BY Holders
<1>3. PICK place \in {"remove", "store"} : Goes(p, u, place)
  BY <1>1
<1>4. /\ pc' \in [Thread -> {"idle", "compute", "insert", "remove", "clear", "store"}]
      /\ cur' \in [Thread -> Timer \cup {NoTimer}]
      /\ pc'[p] = place /\ cur'[p] = u
      /\ \A q \in Thread : q # p => pc'[q] = pc[q] /\ cur'[q] = cur[q]
  BY <1>2, <1>3, GoesFacts
<1>5. /\ rt_tick' \in Tick /\ rt_timer_list' \in Seq(Timer)
      /\ timeout_tick' \in [Timer -> Tick] /\ left' \in [Timer -> -Delay - 1 .. MaxTime]
      /\ Listed' = Listed /\ NoDup(rt_timer_list') /\ Sorted(rt_timer_list', left')
      /\ left' = left /\ timeout_tick' = timeout_tick
  BY <1>1, SameQueue
<1>6. TypeOK'
  <2>1. reg' \in [Thread -> Flags]
    <3>1. flag[u] \in Flags
      BY <1>2 DEF TimerInv, TypeOK
    <3>2. flag[u] \ {"PERIODIC"} \in Flags /\ flag[u] \cup {"PERIODIC"} \in Flags
      BY <3>1 DEF Flags
    <3> QED BY <3>2 DEF TimerInv, TypeOK, StopTest, SetKindLoad
  <2> QED BY <2>1, <1>1, <1>4, <1>5 DEF TimerInv, TypeOK
<1>7. Places'
  BY <1>1, <1>4 DEF TimerInv, Places
<1>8. Held'
  BY <1>1, <1>3, <1>4, <1>5 DEF TimerInv, Held
<1>9. Dues'
  BY <1>1, <1>3, <1>4, <1>5 DEF TimerInv, Dues, Counts, Listed
<1>10. Bounds'
  BY <1>1, <1>3, <1>4, <1>5 DEF TimerInv, Bounds
<1>11. Quiet'
  BY <1>1, <1>3, <1>4, <1>5 DEF TimerInv, Quiet
<1> QED BY <1>5, <1>6, <1>7, <1>8, <1>9, <1>10, <1>11 DEF TimerInv

LEMMA StopRemoveStep ==
  ASSUME TimerInv, NEW p \in Thread, StopRemove(p)
  PROVE  TimerInv'
<1> DEFINE u == cur[p]
<1>1. /\ isr = "idle" /\ pc[p] = "remove" /\ Unlist(u) /\ Goes(p, u, "clear")
      /\ rt_tick' = rt_tick /\ init_tick' = init_tick /\ live' = live /\ reg' = reg
      /\ isr' = isr /\ firing' = firing /\ flag' = flag /\ quiet' = quiet
  BY DEF StopRemove, At, intr, attr
<1>2. u \in Timer /\ u \in Uses[p]
  BY <1>1, Holders DEF TimerInv, Places
<1> HIDE DEF u
<1>3. /\ rt_timer_list' \in Seq(Timer) /\ Listed' = Listed \ {u}
      /\ NoDup(rt_timer_list') /\ Sorted(rt_timer_list', left')
      /\ timeout_tick' \in [Timer -> Tick]
      /\ left' \in [Timer -> -Delay - 1 .. MaxTime]
      /\ \A v \in Timer : v # u => left'[v] = left[v] /\ timeout_tick'[v] = timeout_tick[v]
  BY <1>1, <1>2, UnlistFacts
<1>4. /\ pc' \in [Thread -> {"idle", "compute", "insert", "remove", "clear", "store"}]
      /\ cur' \in [Thread -> Timer \cup {NoTimer}]
      /\ pc'[p] = "clear" /\ cur'[p] = u
      /\ \A q \in Thread : q # p => pc'[q] = pc[q] /\ cur'[q] = cur[q]
  BY <1>1, <1>2, GoesFacts
<1>5. \A q \in Thread : q # p /\ pc[q] # "idle" => cur[q] # u
  BY <1>2, Holders
<1>6. Listed \subseteq Timer /\ firing \notin Timer /\ \A q \in Thread : pc[q] # "idle" => cur[q] \in Timer
  BY <1>1, ListedType, Holders DEF TimerInv
<1>7. TypeOK'
  BY <1>1, <1>3, <1>4 DEF TimerInv, TypeOK
<1>8. Places'
  BY <1>1, <1>2, <1>4 DEF TimerInv, Places
<1>9. Held'
  BY <1>1, <1>2, <1>3, <1>4, <1>6 DEF TimerInv, Held
<1>10. Dues'
  <2>1. ASSUME NEW v \in Timer, Counts(v)' PROVE Counts(v) /\ v # u
    <3>1. CASE v \in Listed'
      BY <3>1, <1>3 DEF Counts, Listed
    <3>2. CASE \E q \in Thread : pc'[q] = "insert" /\ cur'[q] = v
      BY <3>2, <1>4, <1>5 DEF Counts
    <3> QED BY <2>1, <3>1, <3>2 DEF Counts, Listed
  <2> QED BY <2>1, <1>1, <1>3 DEF TimerInv, Dues
<1>11. Bounds'
  BY <1>1, <1>3, <1>4, <1>5, <1>6 DEF TimerInv, Bounds
<1>12. Quiet'
  BY <1>1, <1>3, <1>4, <1>5, <1>6 DEF TimerInv, Quiet
<1> QED BY <1>3, <1>7, <1>8, <1>9, <1>10, <1>11, <1>12 DEF TimerInv

LEMMA StopClearStep ==
  ASSUME TimerInv, NEW p \in Thread, StopClear(p) \/ SetKindStore(p)
  PROVE  TimerInv'
<1> DEFINE u == cur[p]
<1>1. /\ isr = "idle" /\ pc[p] \in {"clear", "store"} /\ Goes(p, u, "idle")
      /\ rt_tick' = rt_tick /\ init_tick' = init_tick /\ live' = live
      /\ isr' = isr /\ firing' = firing
      /\ UNCHANGED <<rt_tick, queue>>
  BY DEF StopClear, SetKindStore, At, intr
<1>2. u \in Timer /\ u \in Uses[p]
  BY <1>1, Holders DEF TimerInv, Places
<1>3. /\ flag' = Deactivated(u) \/ flag' = [flag EXCEPT ![u] = reg[p]]
      /\ \/ quiet' = quiet
         \/ pc[p] = "clear" /\ quiet' = [quiet EXCEPT ![u] = TRUE]
      /\ reg' = reg \/ reg' = [reg EXCEPT ![p] = {}]
  BY DEF StopClear, SetKindStore, At
<1>4. pc[p] = "clear" => u \notin Listed
  BY DEF TimerInv, Held
<1> HIDE DEF u
<1>5. /\ pc' \in [Thread -> {"idle", "compute", "insert", "remove", "clear", "store"}]
      /\ cur' \in [Thread -> Timer \cup {NoTimer}]
      /\ pc'[p] = "idle"
      /\ \A q \in Thread : q # p => pc'[q] = pc[q] /\ cur'[q] = cur[q]
  BY <1>1, <1>2, GoesFacts
<1>6. /\ rt_tick' \in Tick /\ rt_timer_list' \in Seq(Timer)
      /\ timeout_tick' \in [Timer -> Tick] /\ left' \in [Timer -> -Delay - 1 .. MaxTime]
      /\ Listed' = Listed /\ NoDup(rt_timer_list') /\ Sorted(rt_timer_list', left')
      /\ left' = left /\ timeout_tick' = timeout_tick
  BY <1>1, SameQueue
<1>7. \A q \in Thread : q # p /\ pc[q] # "idle" => cur[q] # u
  BY <1>2, Holders
<1>8. \A v \in Timer : v # u => quiet'[v] = quiet[v]
  BY <1>2, <1>3 DEF TimerInv, TypeOK
<1>9. Listed \subseteq Timer /\ \A q \in Thread : pc[q] # "idle" => cur[q] \in Timer
  BY ListedType, Holders DEF TimerInv
<1>10. TypeOK'
  <2>1. flag' \in [Timer -> Flags]
    <3>1. reg[p] \in Flags /\ flag[u] \in Flags /\ flag \in [Timer -> Flags]
      BY <1>2 DEF TimerInv, TypeOK
    <3>2. flag[u] \ {"ACTIVATED"} \in Flags
      BY <3>1 DEF Flags
    <3> QED BY <1>2, <1>3, <3>1, <3>2 DEF Deactivated
  <2>2. quiet' \in [Timer -> BOOLEAN]
    BY <1>2, <1>3 DEF TimerInv, TypeOK
  <2>3. reg' \in [Thread -> Flags]
    BY <1>3 DEF TimerInv, TypeOK, Flags
  <2> QED BY <2>1, <2>2, <2>3, <1>1, <1>5, <1>6 DEF TimerInv, TypeOK
<1>11. Places'
  BY <1>1, <1>5 DEF TimerInv, Places
<1>12. Held'
  BY <1>1, <1>5, <1>6 DEF TimerInv, Held
<1>13. Dues'
  BY <1>1, <1>5, <1>6 DEF TimerInv, Dues, Counts, Listed
<1>14. Bounds'
  BY <1>1, <1>5, <1>6 DEF TimerInv, Bounds
<1>15. Quiet'
  <2>1. \A v \in Listed : ~quiet'[v]
    BY <1>3, <1>4, <1>8, <1>9 DEF TimerInv, Quiet
  <2>2. \A q \in Thread : pc'[q] \in {"compute", "insert"} => ~quiet'[cur'[q]]
    BY <1>5, <1>7, <1>8, <1>9 DEF TimerInv, Quiet
  <2> QED BY <2>1, <2>2, <1>1, <1>6 DEF Quiet
<1> QED BY <1>6, <1>10, <1>11, <1>12, <1>13, <1>14, <1>15 DEF TimerInv

LEMMA SetTimeStep ==
  ASSUME TimerInv, NEW p \in Thread, NEW u \in Uses[p], SetTime(p, u)
  PROVE  TimerInv'
<1>1. /\ UNCHANGED <<rt_tick, queue>> /\ UNCHANGED <<flag, live, quiet, pc, cur, reg, isr, firing>>
      /\ \E time \in Times : init_tick' = [init_tick EXCEPT ![u] = time]
  BY DEF SetTime, thread, intr
<1>2. /\ rt_tick' \in Tick /\ rt_timer_list' \in Seq(Timer)
      /\ timeout_tick' \in [Timer -> Tick] /\ left' \in [Timer -> -Delay - 1 .. MaxTime]
      /\ Listed' = Listed /\ NoDup(rt_timer_list') /\ Sorted(rt_timer_list', left')
      /\ rt_tick' = rt_tick /\ left' = left /\ timeout_tick' = timeout_tick
  BY <1>1, SameQueue
<1>3. TypeOK'
  <2>1. init_tick' \in [Timer -> Times]
    BY <1>1 DEF TimerInv, TypeOK
  <2> QED BY <2>1, <1>1, <1>2 DEF TimerInv, TypeOK
<1>4. Places' /\ Held' /\ Bounds' /\ Quiet'
  BY <1>1, <1>2 DEF TimerInv, Places, Held, Bounds, Quiet
<1>5. Dues'
  BY <1>1, <1>2 DEF TimerInv, Dues, Counts, Listed
<1> QED BY <1>2, <1>3, <1>4, <1>5 DEF TimerInv

LEMMA DetachStep ==
  ASSUME TimerInv, NEW p \in Thread, NEW u \in Uses[p], Detach(p, u)
  PROVE  TimerInv'
<1>1. /\ isr = "idle" /\ pc[p] = "idle" /\ Unlist(u)
      /\ live' = [live EXCEPT ![u] = FALSE]
      /\ UNCHANGED <<rt_tick, init_tick, flag, quiet, pc, cur, reg, isr, firing>>
  BY DEF Detach, Calls, thread, intr
<1>2. u \in Timer
  BY Holders
<1>3. /\ rt_timer_list' \in Seq(Timer) /\ Listed' = Listed \ {u}
      /\ NoDup(rt_timer_list') /\ Sorted(rt_timer_list', left')
      /\ timeout_tick' \in [Timer -> Tick]
      /\ left' \in [Timer -> -Delay - 1 .. MaxTime]
      /\ \A v \in Timer : v # u => left'[v] = left[v] /\ timeout_tick'[v] = timeout_tick[v]
  BY <1>1, <1>2, UnlistFacts
<1>4. \A q \in Thread : pc[q] # "idle" => cur[q] # u
  BY <1>1, Holders
<1>5. Listed \subseteq Timer /\ \A q \in Thread : pc[q] # "idle" => cur[q] \in Timer
  BY ListedType, Holders DEF TimerInv
<1>6. TypeOK'
  BY <1>1, <1>3 DEF TimerInv, TypeOK
<1>7. Places' /\ Held' /\ Quiet'
  BY <1>1, <1>3 DEF TimerInv, Places, Held, Quiet
<1>8. Dues'
  <2>1. ASSUME NEW v \in Timer, Counts(v)' PROVE Counts(v) /\ v # u
    <3>1. CASE v \in Listed'
      BY <3>1, <1>3 DEF Counts, Listed
    <3>2. CASE \E q \in Thread : pc[q] = "insert" /\ cur[q] = v
      BY <3>2, <1>4 DEF Counts
    <3> QED BY <1>1, <2>1, <3>1, <3>2 DEF Counts, Listed
  <2> QED BY <2>1, <1>1, <1>3 DEF TimerInv, Dues
<1>9. Bounds'
  BY <1>1, <1>3, <1>4, <1>5 DEF TimerInv, Bounds
<1> QED BY <1>3, <1>6, <1>7, <1>8, <1>9 DEF TimerInv

-----------------------------------------------------------------------------
(* The tick interrupt.                                                     *)

LEMMA TickIncreaseStep ==
  ASSUME TimerInv, TickIncrease
  PROVE  TimerInv'
<1>1. /\ isr = "idle" /\ isr' = "check" /\ firing' = firing
      /\ \A p \in Thread : pc[p] = "insert" => left[cur[p]] > -Delay
      /\ rt_tick' = (rt_tick + 1) % Width
      /\ left' = [u \in Timer |-> IF Counts(u) THEN left[u] - 1 ELSE left[u]]
      /\ UNCHANGED <<rt_timer_list, timeout_tick, init_tick, flag, live, quiet, pc, cur, reg>>
  BY DEF TickIncrease, attr, thread
<1>2. /\ \A u \in Timer : left[u] \in Int /\ left[u] >= -Delay - 1 /\ left[u] <= MaxTime
      /\ rt_tick \in Int /\ Listed \subseteq Timer
      /\ \A p \in Thread : pc[p] # "idle" => cur[p] \in Timer
  BY ListedType, Holders DEF TimerInv
<1>3. ASSUME NEW u \in Timer, Counts(u) PROVE left[u] >= -Delay /\ left'[u] = left[u] - 1
  <2>1. left'[u] = left[u] - 1
    BY <1>1, <1>3
  <2>2. CASE u \in Listed
    BY <1>1, <2>1, <2>2 DEF TimerInv, Bounds
  <2>3. CASE \E p \in Thread : pc[p] = "insert" /\ cur[p] = u
    BY <1>1, <1>2, <2>1, <2>3 DEF TimerInv, Bounds
  <2> QED BY <1>3, <2>2, <2>3 DEF Counts, Listed
<1>4. \A u \in Timer : ~Counts(u) => left'[u] = left[u]
  BY <1>1
<1>5. \A u \in Timer : Counts(u)' <=> Counts(u)
  BY <1>1 DEF Counts
<1>6. Listed' = Listed /\ NoDup(rt_timer_list') /\ \A u \in Listed : Counts(u)
  BY <1>1 DEF Listed, TimerInv, Counts
<1>7. TypeOK'
  <2>1. left' \in [Timer -> -Delay - 1 .. MaxTime]
    <3>1. ASSUME NEW u \in Timer
          PROVE  (IF Counts(u) THEN left[u] - 1 ELSE left[u]) \in -Delay - 1 .. MaxTime
      BY <1>2, <1>3, HalfFacts
    <3> QED BY <1>1, <3>1
  <2>2. rt_tick' \in Tick
    <3>1. rt_tick + 1 \in Int
      BY <1>2
    <3> QED BY <1>1, <3>1, HalfFacts, DivFacts DEF Tick
  <2> QED BY <1>1, <2>1, <2>2 DEF TimerInv, TypeOK
<1>8. Places'
  BY <1>1 DEF TimerInv, Places
<1>9. Held'
  BY <1>1, <1>6 DEF TimerInv, Held
<1>10. Dues'
  <2>1. ASSUME NEW u \in Timer, Counts(u) PROVE timeout_tick[u] = (rt_tick' + left'[u]) % Width
    <3> DEFINE x == rt_tick + 1
               n == left[u] - 1
    <3>1. x \in Int /\ n \in Int /\ x + n = rt_tick + left[u]
      BY <1>2
    <3>2. timeout_tick[u] = (x + n) % Width
      BY <2>1, <3>1 DEF TimerInv, Dues
    <3>3. rt_tick' = x % Width /\ left'[u] = n
      BY <1>1, <1>3, <2>1
    <3> HIDE DEF x, n
    <3>4. ((x % Width) + n) % Width = (x + n) % Width
      BY <3>1, HalfFacts, CutEarly
    <3> QED BY <3>2, <3>3, <3>4
  <2> QED BY <1>1, <1>5, <2>1 DEF Dues
<1>11. Sorted(rt_timer_list', left')
  <2>1. ASSUME NEW i \in 1 .. Len(rt_timer_list)
        PROVE  /\ left[rt_timer_list[i]] \in Int
               /\ left'[rt_timer_list[i]] = left[rt_timer_list[i]] - 1
    BY <1>2, <1>3, <1>6 DEF Listed, ToSet
  <2> QED BY <1>1, <2>1 DEF TimerInv, Sorted
<1>12. Bounds'
  <2>1. ASSUME NEW p \in Thread, pc[p] = "insert" PROVE left'[cur[p]] >= -Delay
    <3>1. cur[p] \in Timer /\ Counts(cur[p])
      BY <1>2, <2>1 DEF Counts
    <3>2. left'[cur[p]] = left[cur[p]] - 1 /\ left[cur[p]] > -Delay /\ left[cur[p]] \in Int
      BY <1>1, <1>2, <1>3, <2>1, <3>1
    <3> QED BY <3>2, HalfFacts
  <2> QED BY <1>1, <2>1 DEF Bounds
<1>13. Quiet'
  BY <1>1, <1>6 DEF TimerInv, Quiet
<1> QED BY <1>6, <1>7, <1>8, <1>9, <1>10, <1>11, <1>12, <1>13 DEF TimerInv

\* No timer of the list has less time than the first.
LEMMA HeadFacts ==
  ASSUME TimerInv, rt_timer_list # <<>>
  PROVE  /\ Head(rt_timer_list) \in Listed /\ Head(rt_timer_list) \in Timer
         /\ IsDue(Head(rt_timer_list)) <=> left[Head(rt_timer_list)] <= 0
         /\ \A u \in Listed : left[Head(rt_timer_list)] <= left[u]
<1> DEFINE u == Head(rt_timer_list)
<1>1. rt_timer_list \in Seq(Timer) /\ Listed \subseteq Timer
  BY ListedType DEF TimerInv, TypeOK
<1>2. Len(rt_timer_list) \in Nat \ {0} /\ u = rt_timer_list[1]
  BY <1>1
<1>3. u \in Listed /\ u \in Timer
  BY <1>1, <1>2 DEF Listed, ToSet
<1>4. timeout_tick[u] = (rt_tick + left[u]) % Width
  BY <1>3 DEF TimerInv, Dues, Counts, Listed
<1>5. rt_tick \in Tick /\ left[u] \in -Delay - 1 .. MaxTime
  BY <1>3 DEF TimerInv, TypeOK
<1>6. IsDue(u) <=> left[u] <= 0
  BY <1>4, <1>5, DueFacts
<1>7. \A v \in Listed : left[u] <= left[v]
  <2> TAKE v \in Listed
  <2>1. PICK i \in 1 .. Len(rt_timer_list) : rt_timer_list[i] = v
    BY DEF Listed, ToSet
  <2>2. left[u] \in Int
    BY <1>3, ListedType DEF TimerInv
  <2>3. CASE i = 1
    BY <1>2, <2>1, <2>2, <2>3
  <2>4. CASE i > 1
    BY <1>2, <2>1, <2>4 DEF TimerInv, Sorted
  <2> QED BY <2>1, <2>3, <2>4
<1> QED BY <1>3, <1>6, <1>7

LEMMA FireStep ==
  ASSUME TimerInv, Fire
  PROVE  TimerInv'
<1> DEFINE u == Head(rt_timer_list)
<1>1. /\ isr = "check" /\ isr' = "callback" /\ rt_timer_list # <<>>
      /\ firing' = u /\ Unlist(u)
      /\ UNCHANGED <<rt_tick, init_tick, flag, live, quiet, pc, cur, reg>>
  BY DEF Fire, CallFirst, attr, thread
<1>2. u \in Timer /\ u \in Listed
  BY <1>1, HeadFacts
<1> HIDE DEF u
<1>3. /\ rt_timer_list' \in Seq(Timer) /\ Listed' = Listed \ {u}
      /\ NoDup(rt_timer_list') /\ Sorted(rt_timer_list', left')
      /\ timeout_tick' \in [Timer -> Tick]
      /\ left' \in [Timer -> -Delay - 1 .. MaxTime]
      /\ \A v \in Timer : v # u => left'[v] = left[v] /\ timeout_tick'[v] = timeout_tick[v]
  BY <1>1, <1>2, UnlistFacts
<1>4. Listed \subseteq Timer /\ \A q \in Thread : pc[q] # "idle" => cur[q] \in Timer
  BY ListedType, Holders DEF TimerInv
<1>5. \A q \in Thread : pc[q] \in {"compute", "insert", "clear"} => cur[q] # u
  BY <1>2 DEF TimerInv, Held
<1>6. TypeOK'
  BY <1>1, <1>2, <1>3 DEF TimerInv, TypeOK
<1>7. Places' /\ Quiet'
  BY <1>1, <1>2, <1>3 DEF TimerInv, Places, Quiet
<1>8. Held'
  BY <1>1, <1>3, <1>5 DEF TimerInv, Held
<1>9. Dues'
  <2>1. ASSUME NEW v \in Timer, Counts(v)' PROVE Counts(v) /\ v # u
    <3>1. CASE v \in Listed'
      BY <3>1, <1>3 DEF Counts, Listed
    <3>2. CASE \E q \in Thread : pc[q] = "insert" /\ cur[q] = v
      BY <3>2, <1>5 DEF Counts
    <3> QED BY <1>1, <2>1, <3>1, <3>2 DEF Counts, Listed
  <2> QED BY <2>1, <1>1, <1>3 DEF TimerInv, Dues
<1>10. Bounds'
  BY <1>1, <1>3, <1>4, <1>5 DEF TimerInv, Bounds
<1> QED BY <1>3, <1>6, <1>7, <1>8, <1>9, <1>10 DEF TimerInv

LEMMA CallbackStartStep ==
  ASSUME TimerInv, NEW u \in Timer, CallbackStart(u)
  PROVE  TimerInv'
<1>1. /\ isr = "callback" /\ u \in Touches[firing] /\ Restart(u)
      /\ flag' = Activated(u) /\ quiet' = [quiet EXCEPT ![u] = FALSE]
      /\ UNCHANGED <<rt_tick, init_tick, live, pc, cur, reg, isr, firing>>
  BY DEF CallbackStart, Callback, thread, intr
<1>2. /\ rt_timer_list' \in Seq(Timer) /\ Listed' = Listed \cup {u}
      /\ NoDup(rt_timer_list') /\ Sorted(rt_timer_list', left')
      /\ timeout_tick' \in [Timer -> Tick]
      /\ left' \in [Timer -> -Delay - 1 .. MaxTime]
      /\ timeout_tick'[u] = (rt_tick + left'[u]) % Width
      /\ \A v \in Timer : v # u => left'[v] = left[v] /\ timeout_tick'[v] = timeout_tick[v]
  BY <1>1, RestartFacts
<1>3. /\ Listed \subseteq Timer /\ firing \in Timer
      /\ \A q \in Thread : pc[q] # "idle" => cur[q] \in Timer
  BY <1>1, ListedType, Holders DEF TimerInv, Places
<1>4. \A q \in Thread : pc[q] \in {"compute", "insert", "clear"} => cur[q] # u
  BY <1>1, Holders
<1>5. /\ flag' \in [Timer -> Flags] /\ quiet' \in [Timer -> BOOLEAN]
      /\ quiet'[u] = FALSE
      /\ \A v \in Timer : v # u => flag'[v] = flag[v] /\ quiet'[v] = quiet[v]
  <2>1. flag[u] \cup {"ACTIVATED"} \in Flags
    BY DEF TimerInv, TypeOK, Flags
  <2> QED BY <1>1, <2>1 DEF TimerInv, TypeOK, Activated
<1>6. TypeOK'
  BY <1>1, <1>2, <1>5 DEF TimerInv, TypeOK
<1>7. Places'
  BY <1>1 DEF TimerInv, Places
<1>8. Held'
  BY <1>1, <1>2, <1>4 DEF TimerInv, Held
<1>9. Dues'
  <2>1. ASSUME NEW v \in Timer, Counts(v)' PROVE v = u \/ Counts(v)
    BY <1>1, <1>2, <2>1 DEF Counts, Listed
  <2> QED BY <2>1, <1>1, <1>2 DEF TimerInv, Dues
<1>10. Bounds'
  BY <1>1, <1>2, <1>3, <1>4 DEF TimerInv, Bounds
<1>11. Quiet'
  BY <1>1, <1>2, <1>3, <1>4, <1>5 DEF TimerInv, Quiet
<1> QED BY <1>2, <1>6, <1>7, <1>8, <1>9, <1>10, <1>11 DEF TimerInv

LEMMA CallbackStopStep ==
  ASSUME TimerInv, NEW u \in Timer, CallbackStop(u)
  PROVE  TimerInv'
<1>1. /\ isr = "callback" /\ u \in Touches[firing] /\ Unlist(u)
      /\ flag' = Deactivated(u) /\ quiet' = [quiet EXCEPT ![u] = TRUE]
      /\ UNCHANGED <<rt_tick, init_tick, live, pc, cur, reg, isr, firing>>
  BY DEF CallbackStop, Callback, thread, intr
<1>2. /\ rt_timer_list' \in Seq(Timer) /\ Listed' = Listed \ {u}
      /\ NoDup(rt_timer_list') /\ Sorted(rt_timer_list', left')
      /\ timeout_tick' \in [Timer -> Tick]
      /\ left' \in [Timer -> -Delay - 1 .. MaxTime]
      /\ \A v \in Timer : v # u => left'[v] = left[v] /\ timeout_tick'[v] = timeout_tick[v]
  BY <1>1, UnlistFacts
<1>3. /\ Listed \subseteq Timer /\ firing \in Timer
      /\ \A q \in Thread : pc[q] # "idle" => cur[q] \in Timer
  BY <1>1, ListedType, Holders DEF TimerInv, Places
<1>4. \A q \in Thread : pc[q] \in {"compute", "insert", "clear"} => cur[q] # u
  BY <1>1, Holders
<1>5. /\ flag' \in [Timer -> Flags] /\ quiet' \in [Timer -> BOOLEAN]
      /\ "ACTIVATED" \notin flag'[u]
      /\ \A v \in Timer : v # u => flag'[v] = flag[v] /\ quiet'[v] = quiet[v]
  <2>1. flag[u] \ {"ACTIVATED"} \in Flags
    BY DEF TimerInv, TypeOK, Flags
  <2> QED BY <1>1, <2>1 DEF TimerInv, TypeOK, Deactivated
<1>6. TypeOK'
  BY <1>1, <1>2, <1>5 DEF TimerInv, TypeOK
<1>7. Places'
  BY <1>1 DEF TimerInv, Places
<1>8. Held'
  BY <1>1, <1>2 DEF TimerInv, Held
<1>9. Dues'
  <2>1. ASSUME NEW v \in Timer, Counts(v)' PROVE Counts(v) /\ v # u
    <3>1. CASE v \in Listed'
      BY <3>1, <1>2 DEF Counts, Listed
    <3>2. CASE \E q \in Thread : pc[q] = "insert" /\ cur[q] = v
      BY <3>2, <1>4 DEF Counts
    <3> QED BY <1>1, <2>1, <3>1, <3>2 DEF Counts, Listed
  <2> QED BY <2>1, <1>1, <1>2 DEF TimerInv, Dues
<1>10. Bounds'
  BY <1>1, <1>2, <1>3, <1>4 DEF TimerInv, Bounds
<1>11. Quiet'
  BY <1>1, <1>2, <1>3, <1>4, <1>5 DEF TimerInv, Quiet
<1> QED BY <1>2, <1>6, <1>7, <1>8, <1>9, <1>10, <1>11 DEF TimerInv

LEMMA CallbackControlStep ==
  ASSUME TimerInv, NEW u \in Timer, CallbackControl(u)
  PROVE  TimerInv'
<1>1. /\ isr = "callback" /\ u \in Touches[firing]
      /\ UNCHANGED <<rt_tick, queue>> /\ UNCHANGED <<live, quiet, pc, cur, reg, isr, firing>>
  BY DEF CallbackControl, Callback, thread, intr
<1>2. /\ rt_tick' \in Tick /\ rt_timer_list' \in Seq(Timer)
      /\ timeout_tick' \in [Timer -> Tick] /\ left' \in [Timer -> -Delay - 1 .. MaxTime]
      /\ Listed' = Listed /\ NoDup(rt_timer_list') /\ Sorted(rt_timer_list', left')
      /\ rt_tick' = rt_tick /\ left' = left /\ timeout_tick' = timeout_tick
  BY <1>1, SameQueue
<1>3. /\ init_tick' \in [Timer -> Times] /\ flag' \in [Timer -> Flags]
      /\ \A v \in Timer : "ACTIVATED" \in flag'[v] => "ACTIVATED" \in flag[v]
  <2>1. CASE flag' = flag
    BY <2>1 DEF CallbackControl, TimerInv, TypeOK
  <2>2. CASE \E kind \in {{}, {"PERIODIC"}} :
               flag' = [flag EXCEPT ![u] = (@ \ {"PERIODIC"}) \cup kind]
    <3>1. PICK kind \in {{}, {"PERIODIC"}} :
            flag' = [flag EXCEPT ![u] = (@ \ {"PERIODIC"}) \cup kind]
      BY <2>2
    <3> DEFINE f == (flag[u] \ {"PERIODIC"}) \cup kind
    <3>2. f \in Flags /\ ("ACTIVATED" \in f => "ACTIVATED" \in flag[u])
      BY DEF TimerInv, TypeOK, Flags
    <3>3. flag' = [flag EXCEPT ![u] = f]
      BY <3>1
    <3> HIDE DEF f
    <3>4. init_tick' \in [Timer -> Times]
      BY DEF CallbackControl, TimerInv, TypeOK
    <3> QED BY <3>2, <3>3, <3>4 DEF TimerInv, TypeOK
  <2> QED BY <2>1, <2>2 DEF CallbackControl
<1>4. TypeOK'
  BY <1>1, <1>2, <1>3 DEF TimerInv, TypeOK
<1>5. Places' /\ Held' /\ Bounds'
  BY <1>1, <1>2 DEF TimerInv, Places, Held, Bounds
<1>6. Dues'
  BY <1>1, <1>2 DEF TimerInv, Dues, Counts, Listed
<1>7. Quiet'
  BY <1>1, <1>2, <1>3 DEF TimerInv, Quiet, Places
<1> QED BY <1>2, <1>4, <1>5, <1>6, <1>7 DEF TimerInv

LEMMA FiredStep ==
  ASSUME TimerInv, Fired
  PROVE  TimerInv'
<1> DEFINE u == firing
<1>1. /\ isr = "callback" /\ isr' = "check" /\ firing' = NoTimer
      /\ \/ Again(u) /\ Restart(u) /\ flag' = Activated(u)
         \/ flag' = Deactivated(u) /\ UNCHANGED queue
      /\ UNCHANGED <<rt_tick, init_tick, live, quiet, pc, cur, reg>>
  BY DEF Fired, thread
<1>2. /\ Listed \subseteq Timer /\ u \in Timer
      /\ \A q \in Thread : pc[q] # "idle" => cur[q] \in Timer
      /\ \A q \in Thread : pc[q] \in {"compute", "insert", "clear"} => cur[q] # u
      /\ NoTimer \notin Timer
  BY <1>1, ListedType, Holders, TimerAssumption DEF TimerInv, Places, Held
<1>3. quiet[u] => "ACTIVATED" \notin flag[u]
  BY <1>1 DEF TimerInv, Quiet
<1> HIDE DEF u
<1>4. flag' \in [Timer -> Flags]
  <2>1. flag[u] \cup {"ACTIVATED"} \in Flags /\ flag[u] \ {"ACTIVATED"} \in Flags
    BY <1>2 DEF TimerInv, TypeOK, Flags
  <2> QED BY <1>1, <1>2, <2>1 DEF TimerInv, TypeOK, Activated, Deactivated
<1>5. CASE Again(u) /\ Restart(u)
  <2>1. /\ rt_timer_list' \in Seq(Timer) /\ Listed' = Listed \cup {u}
        /\ NoDup(rt_timer_list') /\ Sorted(rt_timer_list', left')
        /\ timeout_tick' \in [Timer -> Tick]
        /\ left' \in [Timer -> -Delay - 1 .. MaxTime]
        /\ timeout_tick'[u] = (rt_tick + left'[u]) % Width
        /\ \A v \in Timer : v # u => left'[v] = left[v] /\ timeout_tick'[v] = timeout_tick[v]
    BY <1>2, <1>5, RestartFacts
  <2>2. ~quiet[u]
    BY <1>3, <1>5 DEF Again
  <2>3. TypeOK'
    BY <1>1, <1>4, <2>1 DEF TimerInv, TypeOK
  <2>4. Places'
    BY <1>1, <1>2 DEF TimerInv, Places
  <2>5. Held'
    BY <1>1, <1>2, <2>1 DEF TimerInv, Held
  <2>6. Dues'
    <3>1. ASSUME NEW v \in Timer, Counts(v)' PROVE v = u \/ Counts(v)
      BY <1>1, <2>1, <3>1 DEF Counts, Listed
    <3> QED BY <1>1, <2>1, <3>1 DEF TimerInv, Dues
  <2>7. Bounds'
    BY <1>1, <1>2, <2>1 DEF TimerInv, Bounds
  <2>8. Quiet'
    BY <1>1, <2>1, <2>2 DEF TimerInv, Quiet
  <2> QED BY <2>1, <2>3, <2>4, <2>5, <2>6, <2>7, <2>8 DEF TimerInv
<1>6. CASE UNCHANGED queue
  <2>1. UNCHANGED <<rt_tick, queue>>
    BY <1>1, <1>6
  <2>2. /\ rt_tick' \in Tick /\ rt_timer_list' \in Seq(Timer)
        /\ timeout_tick' \in [Timer -> Tick] /\ left' \in [Timer -> -Delay - 1 .. MaxTime]
        /\ Listed' = Listed /\ NoDup(rt_timer_list') /\ Sorted(rt_timer_list', left')
        /\ rt_tick' = rt_tick /\ left' = left /\ timeout_tick' = timeout_tick
    BY <2>1, SameQueue
  <2>3. TypeOK'
    BY <1>1, <1>4, <2>2 DEF TimerInv, TypeOK
  <2>4. Places' /\ Held' /\ Bounds'
    BY <1>1, <1>2, <2>2 DEF TimerInv, Places, Held, Bounds
  <2>5. Dues'
    BY <1>1, <2>2 DEF TimerInv, Dues, Counts, Listed
  <2>6. Quiet'
    BY <1>1, <2>2 DEF TimerInv, Quiet
  <2> QED BY <2>2, <2>3, <2>4, <2>5, <2>6 DEF TimerInv
<1> QED BY <1>1, <1>5, <1>6

LEMMA CheckLeaveStep ==
  ASSUME TimerInv, CheckLeave
  PROVE  TimerInv' /\ \A u \in Listed : left[u] > 0
<1>1. /\ isr = "check" /\ isr' = "idle"
      /\ rt_timer_list # <<>> => ~IsDue(Head(rt_timer_list))
      /\ UNCHANGED <<rt_tick, queue>>
      /\ UNCHANGED <<init_tick, flag, live, quiet, pc, cur, reg, firing>>
  BY DEF CheckLeave, attr, thread
<1>2. /\ rt_tick' \in Tick /\ rt_timer_list' \in Seq(Timer)
      /\ timeout_tick' \in [Timer -> Tick] /\ left' \in [Timer -> -Delay - 1 .. MaxTime]
      /\ Listed' = Listed /\ NoDup(rt_timer_list') /\ Sorted(rt_timer_list', left')
      /\ rt_tick' = rt_tick /\ left' = left /\ timeout_tick' = timeout_tick
  BY <1>1, SameQueue
<1>3. ASSUME NEW u \in Listed PROVE left[u] > 0
  <2> DEFINE h == Head(rt_timer_list)
  <2>1. rt_timer_list # <<>>
    BY DEF Listed, ToSet
  <2>2. ~(left[h] <= 0) /\ left[h] <= left[u] /\ h \in Timer
    BY <1>1, <2>1, HeadFacts
  <2> HIDE DEF h
  <2>3. left[h] \in Int /\ left[u] \in Int
    BY <2>2, ListedType DEF TimerInv
  <2> QED BY <2>2, <2>3
<1>4. TypeOK'
  BY <1>1, <1>2 DEF TimerInv, TypeOK
<1>5. Places' /\ Held' /\ Quiet'
  BY <1>1, <1>2 DEF TimerInv, Places, Held, Quiet
<1>6. Dues'
  BY <1>1, <1>2 DEF TimerInv, Dues, Counts, Listed
<1>7. Bounds'
  <2>1. \A u \in Listed : left[u] >= -Delay
    <3> TAKE u \in Listed
    <3>1. left[u] > 0 /\ left[u] \in Int
      BY <1>3, ListedType DEF TimerInv
    <3> QED BY <3>1, HalfFacts
  <2> QED BY <2>1, <1>1, <1>2 DEF TimerInv, Bounds
<1> QED BY <1>2, <1>3, <1>4, <1>5, <1>6, <1>7 DEF TimerInv

LEMMA InitStep == Init => TimerInv
<1> SUFFICES ASSUME Init PROVE TimerInv
  OBVIOUS
<1>1. TypeOK
  <2>1. 0 \in Tick /\ 0 \in -Delay - 1 .. MaxTime
    BY HalfFacts DEF Tick
  <2>2. init_tick \in [Timer -> Times] /\ flag \in [Timer -> Flags]
    BY TimerAssumption DEF Init, Flags
  <2>3. {} \in Flags
    BY DEF Flags
  <2> QED BY <2>1, <2>2, <2>3 DEF Init, TypeOK
<1>2. Listed = {} /\ Len(rt_timer_list) = 0
  BY DEF Init, Listed, ToSet
<1>3. Places
  BY TimerAssumption DEF Init, Places
<1>4. Held /\ Quiet /\ Bounds
  BY <1>2 DEF Init, Held, Quiet, Bounds
<1>5. Dues
  BY <1>2 DEF Init, Dues, Counts, Listed
<1>6. NoDup(rt_timer_list) /\ Sorted(rt_timer_list, left)
  BY <1>2 DEF NoDup, Sorted
<1> QED BY <1>1, <1>3, <1>4, <1>5, <1>6 DEF TimerInv

LEMMA TimerStep == TimerInv /\ [Next]_vars => TimerInv'
<1> SUFFICES ASSUME TimerInv, [Next]_vars PROVE TimerInv'
  OBVIOUS
<1>1. CASE TickIncrease
  BY <1>1, TickIncreaseStep
<1>2. CASE Fire
  BY <1>2, FireStep
<1>3. CASE Fired
  BY <1>3, FiredStep
<1>4. CASE CheckLeave
  BY <1>4, CheckLeaveStep
<1>5. CASE \E u \in Timer : CallbackStart(u) \/ CallbackStop(u) \/ CallbackControl(u)
  BY <1>5, CallbackStartStep, CallbackStopStep, CallbackControlStep
<1>6. CASE \E p \in Thread : ThreadStep(p)
  <2>1. PICK p \in Thread : ThreadStep(p)
    BY <1>6
  <2>2. CASE \E u \in Uses[p] : StartRemove(p, u) \/ StopTest(p, u) \/ SetTime(p, u)
                                  \/ SetKindLoad(p, u) \/ Detach(p, u)
    BY <2>2, StartRemoveStep, StopTestStep, SetTimeStep, DetachStep
  <2>3. CASE StartCompute(p) \/ StartInsert(p) \/ StopRemove(p) \/ StopClear(p) \/ SetKindStore(p)
    BY <2>3, StartComputeStep, StartInsertStep, StopRemoveStep, StopClearStep
  <2> QED BY <2>1, <2>2, <2>3 DEF ThreadStep
<1>7. CASE UNCHANGED vars
  <2>1. /\ UNCHANGED <<rt_tick, queue>>
        /\ UNCHANGED <<init_tick, flag, live, quiet, pc, cur, reg, isr, firing>>
    BY <1>7 DEF vars, attr, thread, intr
  <2>2. /\ rt_tick' \in Tick /\ rt_timer_list' \in Seq(Timer)
        /\ timeout_tick' \in [Timer -> Tick] /\ left' \in [Timer -> -Delay - 1 .. MaxTime]
        /\ Listed' = Listed /\ NoDup(rt_timer_list') /\ Sorted(rt_timer_list', left')
        /\ rt_tick' = rt_tick /\ left' = left /\ timeout_tick' = timeout_tick
    BY <2>1, SameQueue
  <2>3. TypeOK' /\ Places' /\ Held' /\ Bounds' /\ Quiet'
    BY <2>1, <2>2 DEF TimerInv, TypeOK, Places, Held, Bounds, Quiet
  <2>4. Dues'
    BY <2>1, <2>2 DEF TimerInv, Dues, Counts, Listed
  <2> QED BY <2>2, <2>3, <2>4 DEF TimerInv
<1> QED BY <1>1, <1>2, <1>3, <1>4, <1>5, <1>6, <1>7 DEF Next, IsrStep

-----------------------------------------------------------------------------
(* The theorems.                                                           *)

\* The timers keep their invariant: the list is sorted across the wrap of the
\* ticks, and what a thread has in hand nobody else puts into the list.
THEOREM TimerInvariance == Spec => []TimerInv
<1>1. Init => TimerInv
  BY InitStep
<1>2. TimerInv /\ [Next]_vars => TimerInv'
  BY TimerStep
<1> QED BY <1>1, <1>2, PTL DEF Spec

\* Every variable has its type; no timer is later than a thread may be with its
\* insertion and the tick interrupt adds to it.
THEOREM TimerType == Spec => []TypeOK
<1>1. TimerInv => TypeOK
  BY DEF TimerInv
<1> QED BY <1>1, TimerInvariance, PTL

\* rt_timer_start keeps the list sorted by what is left, whatever the tick
\* counter wraps to, with each timer in it once.
THEOREM TimerSorted == Spec => []ListSorted
<1>1. TimerInv => ListSorted
  <2> SUFFICES ASSUME TimerInv PROVE ListSorted
    OBVIOUS
  <2>1. DOMAIN rt_timer_list = 1 .. Len(rt_timer_list)
    BY DEF TimerInv, TypeOK
  <2> QED BY <2>1 DEF TimerInv, NoDup, Sorted, ListSorted, IsInjective
<1> QED BY <1>1, TimerInvariance, PTL

\* A timer that rt_timer_stop has stopped is in no list before it is started again.
THEOREM TimerQuiet == Spec => []StoppedStaysQuiet
<1>1. TimerInv => StoppedStaysQuiet
  BY DEF TimerInv, Quiet, StoppedStaysQuiet, Listed
<1> QED BY <1>1, TimerInvariance, PTL

\* rt_timer_check runs no callback early and returns when no timer is due.
THEOREM TimerOnTime == Spec => FiresOnTime
<1> DEFINE Fires == isr' = "callback" /\ isr = "check" => left[firing'] <= 0
           Ends  == isr' = "idle" /\ isr = "check" => \A u \in ToSet(rt_timer_list) : left[u] > 0
<1>1. TimerInv /\ [Next]_vars => [Fires /\ Ends]_vars
  <2> SUFFICES ASSUME TimerInv, [Next]_vars PROVE (Fires /\ Ends) \/ UNCHANGED vars
    OBVIOUS
  <2>1. CASE Fire
    <3>1. /\ isr' = "callback" /\ rt_timer_list # <<>> /\ IsDue(Head(rt_timer_list))
          /\ firing' = Head(rt_timer_list)
      BY <2>1 DEF Fire, CallFirst
    <3> QED BY <3>1, HeadFacts
  <2>2. CASE CheckLeave
    <3>1. isr' = "idle" /\ \A u \in Listed : left[u] > 0
      BY <2>2, CheckLeaveStep DEF CheckLeave
    <3> QED BY <3>1 DEF Listed
  <2>3. CASE TickIncrease \/ Fired
    BY <2>3 DEF TickIncrease, Fired
  <2>4. CASE \E u \in Timer : CallbackStart(u) \/ CallbackStop(u) \/ CallbackControl(u)
    BY <2>4 DEF CallbackStart, CallbackStop, CallbackControl, Callback, intr
  <2>5. CASE \E p \in Thread : ThreadStep(p)
    BY <2>5 DEF ThreadStep, StartRemove, StopTest, SetTime, SetKindLoad, Detach, Calls,
                StartCompute, StartInsert, StopRemove, StopClear, SetKindStore, At
  <2>6. CASE UNCHANGED vars
    BY <2>6
  <2> QED BY <2>1, <2>2, <2>3, <2>4, <2>5, <2>6 DEF Next, IsrStep
<1>2. [Fires /\ Ends]_vars <=> [/\ isr' = "callback" /\ isr = "check" => left[firing'] <= 0
                                /\ isr' = "idle" /\ isr = "check" =>
                                     \A u \in ToSet(rt_timer_list) : left[u] > 0]_vars
  OBVIOUS
<1> QED BY <1>1, <1>2, TimerInvariance, PTL DEF Spec, FiresOnTime

\* What a step does to the list: it puts one timer into it, behind those that
\* have as much time left, or it puts none.
LEMMA ListChange ==
  ASSUME TimerInv, Next
  PROVE  \/ Listed' \subseteq Listed
         \/ \E v \in Timer : /\ Listed' = Listed \cup {v}
                             /\ \A u \in Listed : u # v /\ left'[u] = left'[v] =>
                                  InFront(rt_timer_list', u, v)
<1>1. CASE TickIncrease
  BY <1>1 DEF TickIncrease, Listed
<1>2. CASE Fire
  <2>1. /\ rt_timer_list # <<>> /\ Unlist(Head(rt_timer_list))
    BY <1>2 DEF Fire, CallFirst
  <2>2. Listed' = Listed \ {Head(rt_timer_list)}
    BY <2>1, HeadFacts, UnlistFacts
  <2> QED BY <2>2
<1>3. CASE Fired
  <2>1. firing \in Timer
    BY <1>3 DEF Fired, TimerInv, Places
  <2>2. Restart(firing) \/ UNCHANGED queue
    BY <1>3 DEF Fired
  <2>3. CASE Restart(firing)
    BY <2>1, <2>3, RestartFacts
  <2>4. CASE UNCHANGED queue
    BY <2>4 DEF queue, Listed
  <2> QED BY <2>2, <2>3, <2>4
<1>4. CASE CheckLeave
  BY <1>4 DEF CheckLeave, queue, Listed
<1>5. CASE \E u \in Timer : CallbackStart(u) \/ CallbackStop(u) \/ CallbackControl(u)
  <2>1. PICK u \in Timer : CallbackStart(u) \/ CallbackStop(u) \/ CallbackControl(u)
    BY <1>5
  <2>2. CASE CallbackStart(u)
    BY <2>2, RestartFacts DEF CallbackStart
  <2>3. CASE CallbackStop(u)
    BY <2>3, UnlistFacts DEF CallbackStop
  <2>4. CASE CallbackControl(u)
    BY <2>4 DEF CallbackControl, queue, Listed
  <2> QED BY <2>1, <2>2, <2>3, <2>4
<1>6. CASE \E p \in Thread : ThreadStep(p)
  <2>1. PICK p \in Thread : ThreadStep(p)
    BY <1>6
  <2>2. CASE \E u \in Uses[p] : StartRemove(p, u) \/ Detach(p, u)
    <3>1. PICK u \in Uses[p] : Unlist(u)
      BY <2>2 DEF StartRemove, Detach
    <3>2. Listed' = Listed \ {u}
      BY <3>1, Holders, UnlistFacts
    <3> QED BY <3>2
  <2>3. CASE \E u \in Uses[p] : StopTest(p, u) \/ SetTime(p, u) \/ SetKindLoad(p, u)
    BY <2>3 DEF StopTest, SetTime, SetKindLoad, queue, Listed
  <2>4. CASE StopRemove(p)
    <3>1. Unlist(cur[p]) /\ cur[p] \in Timer
      BY <2>4, Holders DEF StopRemove, At
    <3>2. Listed' = Listed \ {cur[p]}
      BY <3>1, UnlistFacts
    <3> QED BY <3>2
  <2>5. CASE StartInsert(p)
    <3>1. left' = left
      BY <2>5 DEF StartInsert
    <3>2. /\ cur[p] \in Timer /\ Listed' = Listed \cup {cur[p]}
          /\ \A v \in Listed : left[v] = left[cur[p]] => InFront(rt_timer_list', v, cur[p])
      BY <2>5, InsertedFacts
    <3> QED BY <3>1, <3>2
  <2>6. CASE StartCompute(p) \/ StopClear(p) \/ SetKindStore(p)
    BY <2>6 DEF StartCompute, StopClear, SetKindStore, queue, Listed
  <2> QED BY <2>1, <2>2, <2>3, <2>4, <2>5, <2>6 DEF ThreadStep
<1> QED BY <1>1, <1>2, <1>3, <1>4, <1>5, <1>6 DEF Next, IsrStep

\* rt_timer_start: of two timers with the same time-out the one inserted early is
\* in front.
THEOREM TimerEquals == Spec => EqualsInOrderOfStart
<1> DEFINE A == \A u, v \in Timer :
                  /\ u # v /\ u \in ToSet(rt_timer_list) /\ v \notin ToSet(rt_timer_list)
                  /\ {u, v} \subseteq ToSet(rt_timer_list') /\ left'[u] = left'[v]
                  => \E i, j \in DOMAIN rt_timer_list' :
                       i < j /\ rt_timer_list'[i] = u /\ rt_timer_list'[j] = v
<1>1. TimerInv /\ [Next]_vars => [A]_vars
  <2> SUFFICES ASSUME TimerInv, Next PROVE A
    OBVIOUS
  <2> TAKE u, v \in Timer
  <2> HAVE /\ u # v /\ u \in ToSet(rt_timer_list) /\ v \notin ToSet(rt_timer_list)
           /\ {u, v} \subseteq ToSet(rt_timer_list') /\ left'[u] = left'[v]
  <2>1. u \in Listed /\ v \notin Listed /\ v \in Listed'
    BY DEF Listed
  <2>2. PICK w \in Timer : /\ Listed' = Listed \cup {w}
                           /\ \A x \in Listed : x # w /\ left'[x] = left'[w] =>
                                InFront(rt_timer_list', x, w)
    BY <2>1, ListChange
  <2>3. w = v
    BY <2>1, <2>2
  <2>4. InFront(rt_timer_list', u, v)
    BY <2>1, <2>2, <2>3
  <2> QED BY <2>4 DEF InFront
<1> QED BY <1>1, TimerInvariance, PTL DEF Spec, EqualsInOrderOfStart

\* rt_timer_stop refuses no timer that is in the list, but for the two cases that
\* the property names.
THEOREM TimerFlag == Spec => PendingKeepsFlag
<1> DEFINE A == \A u \in Timer :
                  u \in ToSet(rt_timer_list') /\ "ACTIVATED" \notin flag'[u] =>
                    \/ u \in ToSet(rt_timer_list) /\ "ACTIVATED" \notin flag[u]
                    \/ u = firing /\ "PERIODIC" \notin flag[u]
                    \/ \E p \in Thread : u = cur[p] /\ "ACTIVATED" \notin reg[p] /\ pc[p] = "store"
<1>1. TimerInv /\ [Next]_vars => [A]_vars
  <2> SUFFICES ASSUME TimerInv, Next, NEW u \in Timer,
                      u \in Listed', "ACTIVATED" \notin flag'[u]
               PROVE  \/ u \in Listed /\ "ACTIVATED" \notin flag[u]
                      \/ u = firing /\ "PERIODIC" \notin flag[u]
                      \/ \E p \in Thread : u = cur[p] /\ "ACTIVATED" \notin reg[p] /\ pc[p] = "store"
    BY DEF Listed
  <2>0. flag \in [Timer -> Flags]
    BY DEF TimerInv, TypeOK
  <2>1. CASE TickIncrease \/ CheckLeave
    BY <2>1 DEF TickIncrease, CheckLeave, attr, queue, Listed
  <2>2. CASE Fire
    <3>1. /\ rt_timer_list # <<>> /\ Unlist(Head(rt_timer_list)) /\ flag' = flag
      BY <2>2 DEF Fire, CallFirst, attr
    <3>2. Listed' = Listed \ {Head(rt_timer_list)}
      BY <3>1, HeadFacts, UnlistFacts
    <3> QED BY <3>1, <3>2
  <2>3. CASE Fired
    <3>1. firing \in Timer
      BY <2>3 DEF Fired, TimerInv, Places
    <3>2. CASE Restart(firing) /\ flag' = Activated(firing)
      <4>1. Listed' = Listed \cup {firing}
        BY <3>1, <3>2, RestartFacts
      <4>2. u # firing /\ flag'[u] = flag[u]
        BY <2>0, <3>1, <3>2 DEF Activated
      <4> QED BY <4>1, <4>2
    <3>3. CASE ~Again(firing) /\ flag' = Deactivated(firing) /\ UNCHANGED queue
      <4>1. u \in Listed
        BY <3>3 DEF queue, Listed
      <4>2. CASE u = firing
        BY <3>3, <4>1, <4>2 DEF Again
      <4>3. CASE u # firing
        BY <2>0, <3>1, <3>3, <4>1, <4>3 DEF Deactivated
      <4> QED BY <4>2, <4>3
    <3> QED BY <2>3, <3>2, <3>3 DEF Fired
  <2>4. CASE \E v \in Timer : CallbackStart(v) \/ CallbackStop(v) \/ CallbackControl(v)
    <3>1. PICK v \in Timer : CallbackStart(v) \/ CallbackStop(v) \/ CallbackControl(v)
      BY <2>4
    <3>2. CASE CallbackStart(v)
      <4>1. Listed' = Listed \cup {v} /\ flag' = Activated(v)
        BY <3>2, RestartFacts DEF CallbackStart
      <4>2. u # v /\ flag'[u] = flag[u]
        BY <2>0, <4>1 DEF Activated
      <4> QED BY <4>1, <4>2
    <3>3. CASE CallbackStop(v)
      <4>1. Listed' = Listed \ {v} /\ flag' = Deactivated(v)
        BY <3>3, UnlistFacts DEF CallbackStop
      <4>2. u # v /\ flag'[u] = flag[u]
        BY <2>0, <4>1 DEF Deactivated
      <4> QED BY <4>1, <4>2
    <3>4. CASE CallbackControl(v)
      <4>1. Listed' = Listed
        BY <3>4 DEF CallbackControl, queue, Listed
      <4>2. "ACTIVATED" \in flag[u] => "ACTIVATED" \in flag'[u]
        <5>1. CASE flag' = flag
          BY <5>1
        <5>2. CASE \E kind \in {{}, {"PERIODIC"}} :
                     flag' = [flag EXCEPT ![v] = (@ \ {"PERIODIC"}) \cup kind]
          BY <5>2, <2>0
        <5> QED BY <3>4, <5>1, <5>2 DEF CallbackControl
      <4> QED BY <4>1, <4>2
    <3> QED BY <3>1, <3>2, <3>3, <3>4
  <2>5. CASE \E p \in Thread : ThreadStep(p)
    <3>1. PICK p \in Thread : ThreadStep(p)
      BY <2>5
    <3>2. CASE \E v \in Uses[p] : StartRemove(p, v)
      <4>1. PICK v \in Uses[p] : StartRemove(p, v)
        BY <3>2
      <4>2. Listed' = Listed \ {v} /\ flag' = Deactivated(v) /\ v \in Timer
        BY <4>1, Holders, UnlistFacts DEF StartRemove
      <4>3. u # v /\ flag'[u] = flag[u]
        BY <2>0, <4>2 DEF Deactivated
      <4> QED BY <4>2, <4>3
    <3>3. CASE \E v \in Uses[p] : Detach(p, v)
      <4>1. PICK v \in Uses[p] : Detach(p, v)
        BY <3>3
      <4>2. Listed' = Listed \ {v} /\ flag' = flag
        BY <4>1, Holders, UnlistFacts DEF Detach
      <4> QED BY <4>2
    <3>4. CASE \E v \in Uses[p] : StopTest(p, v) \/ SetTime(p, v) \/ SetKindLoad(p, v)
      BY <3>4 DEF StopTest, SetTime, SetKindLoad, queue, attr, Listed
    <3>5. CASE StopRemove(p)
      <4>1. Unlist(cur[p]) /\ cur[p] \in Timer /\ flag' = flag
        BY <3>5, Holders DEF StopRemove, At, attr
      <4>2. Listed' = Listed \ {cur[p]}
        BY <4>1, UnlistFacts
      <4> QED BY <4>1, <4>2
    <3>6. CASE StartCompute(p)
      BY <3>6 DEF StartCompute, attr, Listed
    <3>7. CASE StartInsert(p)
      <4>1. cur[p] \in Timer /\ Listed' = Listed \cup {cur[p]} /\ flag' = Activated(cur[p])
        BY <3>7, InsertedFacts DEF StartInsert
      <4>2. u # cur[p] /\ flag'[u] = flag[u]
        BY <2>0, <4>1 DEF Activated
      <4> QED BY <4>1, <4>2
    <3>8. CASE StopClear(p)
      <4>1. pc[p] = "clear" /\ flag' = Deactivated(cur[p]) /\ Listed' = Listed
        BY <3>8 DEF StopClear, At, queue, Listed
      <4>2. cur[p] \in Timer /\ cur[p] \notin Listed
        BY <4>1, Holders DEF TimerInv, Held
      <4>3. flag'[u] = flag[u]
        BY <2>0, <4>1, <4>2 DEF Deactivated
      <4> QED BY <4>1, <4>3
    <3>9. CASE SetKindStore(p)
      <4>1. /\ pc[p] = "store" /\ flag' = [flag EXCEPT ![cur[p]] = reg[p]]
            /\ Listed' = Listed
        BY <3>9 DEF SetKindStore, At, queue, Listed
      <4>2. CASE u = cur[p]
        BY <2>0, <4>1, <4>2
      <4>3. CASE u # cur[p]
        BY <2>0, <4>1, <4>3
      <4> QED BY <4>2, <4>3
    <3> QED BY <3>1, <3>2, <3>3, <3>4, <3>5, <3>6, <3>7, <3>8, <3>9 DEF ThreadStep
  <2> QED BY <2>1, <2>2, <2>3, <2>4, <2>5 DEF Next, IsrStep
<1> QED BY <1>1, TimerInvariance, PTL DEF Spec, PendingKeepsFlag
=============================================================================

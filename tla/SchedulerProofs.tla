-------------------------- MODULE SchedulerProofs --------------------------
(***************************************************************************)
(* Proofs about Scheduler.                                                 *)
(***************************************************************************)
EXTENDS Scheduler, ListFacts

-----------------------------------------------------------------------------
(* The operations of scheduler.c on the lists.                             *)

\* The ready table agrees with its group, with the priorities and with the
\* statuses.
TableOK(s) ==
  /\ s \in SchedType
  /\ \A p \in Prios : (p \in s.group <=> s.table[p] # <<>>) /\ NoDup(s.table[p])
  /\ \A p \in Prios : \A t \in ToSet(s.table[p]) :
       s.prio[t] = p /\ s.stat[t] = "ready"

\* The threads in the ready table.
InTable(s) == {t \in Thread : t \in ToSet(s.table[s.prio[t]])}

LEMMA Fields ==
  ASSUME NEW s \in SchedType
  PROVE  /\ s.current \in Thread
         /\ s.table \in [Prios -> Seq(Thread)] /\ s.group \in SUBSET Prios
         /\ s.stat \in [Thread -> Stat] /\ s.prio \in [Thread -> Prios]
         /\ s.waiting \in SUBSET Thread /\ s.defunct \in SUBSET Thread
BY DEF SchedType

LEMMA WithoutFacts ==
  ASSUME NEW list \in Seq(Thread), NoDup(list), NEW t
  PROVE  /\ Without(list, t) \in Seq(Thread)
         /\ ToSet(Without(list, t)) = ToSet(list) \ {t}
         /\ NoDup(Without(list, t))
<1>1. CASE t \notin ToSet(list)
  BY <1>1 DEF Without
<1>2. CASE t \in ToSet(list)
  <2>1. \E i \in 1 .. Len(list) : list[i] = t
    BY <1>2 DEF ToSet
  <2>2. PICK i \in 1 .. Len(list) :
          list[i] = t /\ Without(list, t) = RemoveAt(list, i)
    BY <1>2, <2>1 DEF Without
  <2> QED BY <2>2, RemoveFacts
<1> QED BY <1>1, <1>2

LEMMA EmptyList ==
  ASSUME NEW list \in Seq(Thread)
  PROVE  list = <<>> <=> ToSet(list) = {}
<1>1. list = <<>> => ToSet(list) = {}
  BY DEF ToSet
<1>2. list # <<>> => list[1] \in ToSet(list)
  BY DEF ToSet
<1> QED BY <1>1, <1>2

\* A thread that is in the table is in the queue of its priority.
LEMMA TableFacts ==
  ASSUME NEW s, TableOK(s)
  PROVE  /\ \A p \in Prios : ToSet(s.table[p]) = {t \in InTable(s) : s.prio[t] = p}
         /\ \A t \in InTable(s) : s.stat[t] = "ready"
<1>1. \A p \in Prios : ToSet(s.table[p]) \subseteq Thread
  BY Fields DEF TableOK, ToSet
<1> QED BY <1>1, Fields DEF TableOK, InTable

LEMMA UnlinkFields ==
  ASSUME NEW s \in SchedType, NEW t \in Thread,
         \A p \in Prios : NoDup(s.table[p])
  PROVE  LET u == Unlink(s, t)
         IN  /\ u \in SchedType
             /\ \A p \in Prios : NoDup(u.table[p]) /\ ToSet(u.table[p]) = ToSet(s.table[p]) \ {t}
             /\ u.current = s.current /\ u.group = s.group
             /\ u.stat = s.stat /\ u.prio = s.prio
             /\ u.waiting = s.waiting \ {t} /\ u.defunct = s.defunct \ {t}
<1> DEFINE u == Unlink(s, t)
           new == [p \in Prios |-> Without(s.table[p], t)]
           w   == s.waiting \ {t}
           d   == s.defunct \ {t}
<1>1. \A p \in Prios : /\ Without(s.table[p], t) \in Seq(Thread)
                       /\ NoDup(Without(s.table[p], t))
                       /\ ToSet(Without(s.table[p], t)) = ToSet(s.table[p]) \ {t}
  BY Fields, WithoutFacts
<1>2. new \in [Prios -> Seq(Thread)]
  BY <1>1
<1>3. w \subseteq Thread /\ d \subseteq Thread
  BY Fields
<1>4. u = [s EXCEPT !.table = new, !.waiting = w, !.defunct = d]
  BY DEF Unlink
<1> HIDE DEF u, new, w, d
<1>5. /\ u.current = s.current /\ u.group = s.group
      /\ u.stat = s.stat /\ u.prio = s.prio
      /\ u.table = new /\ u.waiting = w /\ u.defunct = d
      /\ u \in SchedType
  BY <1>2, <1>3, <1>4 DEF SchedType
<1>6. \A p \in Prios : NoDup(u.table[p]) /\ ToSet(u.table[p]) = ToSet(s.table[p]) \ {t}
  BY <1>1, <1>5 DEF new
<1> QED BY <1>5, <1>6 DEF u, w, d

\* A thread that is in no queue leaves the other lists.
LEMMA UnlinkOutside ==
  ASSUME NEW s, TableOK(s), NEW t \in Thread, t \notin InTable(s)
  PROVE  LET u == Unlink(s, t)
         IN  /\ TableOK(u) /\ InTable(u) = InTable(s)
             /\ u.current = s.current /\ u.stat = s.stat /\ u.prio = s.prio
             /\ u.waiting = s.waiting \ {t} /\ u.defunct = s.defunct \ {t}
<1> DEFINE u == Unlink(s, t)
<1>1. /\ u \in SchedType
      /\ \A p \in Prios : NoDup(u.table[p]) /\ ToSet(u.table[p]) = ToSet(s.table[p]) \ {t}
      /\ u.current = s.current /\ u.group = s.group
      /\ u.stat = s.stat /\ u.prio = s.prio
      /\ u.waiting = s.waiting \ {t} /\ u.defunct = s.defunct \ {t}
  BY UnlinkFields DEF TableOK
<1> HIDE DEF u
<1>2. ASSUME NEW p \in Prios PROVE ToSet(u.table[p]) = ToSet(s.table[p])
  <2>1. t \notin ToSet(s.table[p])
    BY TableFacts
  <2>2. ToSet(u.table[p]) = ToSet(s.table[p]) \ {t}
    BY <1>1
  <2> QED BY <2>1, <2>2
<1>3. \A p \in Prios : u.table[p] \in Seq(Thread) /\ s.table[p] \in Seq(Thread)
  BY <1>1, Fields DEF TableOK
<1>4. \A p \in Prios : u.table[p] # <<>> <=> s.table[p] # <<>>
  BY <1>2, <1>3, EmptyList
<1>5. TableOK(u)
  BY <1>1, <1>2, <1>4 DEF TableOK
<1>6. \A v \in Thread : s.prio[v] \in Prios
  BY Fields DEF TableOK
<1>7. InTable(u) = InTable(s)
  BY <1>1, <1>2, <1>6 DEF InTable
<1> QED BY <1>1, <1>5, <1>7 DEF u

\* rt_schedule_remove_thread of any thread.
LEMMA RemoveThread ==
  ASSUME NEW s, TableOK(s), NEW t \in Thread
  PROVE  LET r == rt_schedule_remove_thread(s, t)
         IN  /\ TableOK(r) /\ InTable(r) = InTable(s) \ {t}
             /\ r.current = s.current /\ r.stat = s.stat /\ r.prio = s.prio
             /\ r.waiting = s.waiting \ {t} /\ r.defunct = s.defunct \ {t}
<1> DEFINE r == rt_schedule_remove_thread(s, t)
           u == Unlink(s, t)
           q == s.prio[t]
           g == IF u.table[q] = <<>> THEN u.group \ {q} ELSE u.group
<1>1. /\ u \in SchedType
      /\ \A p \in Prios : NoDup(u.table[p]) /\ ToSet(u.table[p]) = ToSet(s.table[p]) \ {t}
      /\ u.current = s.current /\ u.group = s.group
      /\ u.stat = s.stat /\ u.prio = s.prio
      /\ u.waiting = s.waiting \ {t} /\ u.defunct = s.defunct \ {t}
  BY UnlinkFields DEF TableOK
<1>2. r = [u EXCEPT !.group = g]
  BY <1>1 DEF rt_schedule_remove_thread
<1>3. g \in SUBSET Prios
  BY <1>1, Fields
<1> HIDE DEF r, u, g
<1>4. /\ r \in SchedType
      /\ r.current = u.current /\ r.table = u.table /\ r.group = g
      /\ r.stat = u.stat /\ r.prio = u.prio
      /\ r.waiting = u.waiting /\ r.defunct = u.defunct
  BY <1>1, <1>2, <1>3 DEF SchedType
<1>5. q \in Prios
  BY Fields DEF TableOK
<1>6. ASSUME NEW p \in Prios \ {q} PROVE ToSet(u.table[p]) = ToSet(s.table[p])
  <2>1. t \notin ToSet(s.table[p])
    BY DEF TableOK
  <2>2. ToSet(u.table[p]) = ToSet(s.table[p]) \ {t}
    BY <1>1
  <2> QED BY <2>1, <2>2
<1>7. \A p \in Prios : u.table[p] \in Seq(Thread) /\ s.table[p] \in Seq(Thread)
  BY <1>1, Fields DEF TableOK
<1>8. \A p \in Prios \ {q} : u.table[p] # <<>> <=> s.table[p] # <<>>
  BY <1>6, <1>7, EmptyList
<1>9. s.table[q] = <<>> => u.table[q] = <<>>
  <2>1. ToSet(u.table[q]) = ToSet(s.table[q]) \ {t}
    BY <1>1, <1>5
  <2>2. s.table[q] = <<>> => ToSet(s.table[q]) = {}
    BY <1>5, <1>7, EmptyList
  <2>3. ToSet(u.table[q]) = {} => u.table[q] = <<>>
    BY <1>5, <1>7, EmptyList
  <2> QED BY <2>1, <2>2, <2>3
<1>10. \A p \in Prios : p \in g <=> u.table[p] # <<>>
  BY <1>1, <1>8, <1>9 DEF TableOK, g
<1>11. TableOK(r)
  BY <1>1, <1>4, <1>10 DEF TableOK
<1>12. \A v \in Thread : s.prio[v] \in Prios
  BY Fields DEF TableOK
<1>13. InTable(r) = InTable(s) \ {t}
  BY <1>1, <1>4, <1>12 DEF InTable
<1> QED BY <1>1, <1>4, <1>11, <1>13 DEF r

LEMMA AppendFacts ==
  ASSUME NEW list \in Seq(Thread), NoDup(list), NEW t \in Thread, t \notin ToSet(list)
  PROVE  /\ Append(list, t) \in Seq(Thread)
         /\ ToSet(Append(list, t)) = ToSet(list) \cup {t}
         /\ NoDup(Append(list, t))
<1> DEFINE r == Append(list, t)
<1>1. /\ r \in Seq(Thread) /\ Len(r) = Len(list) + 1 /\ Len(list) \in Nat
      /\ \A k \in 1 .. Len(list) : r[k] = list[k]
      /\ r[Len(list) + 1] = t
  OBVIOUS
<1> HIDE DEF r
<1>2. ToSet(r) = ToSet(list) \cup {t}
  <2>1. DOMAIN r = 1 .. Len(list) + 1 /\ DOMAIN list = 1 .. Len(list)
    BY <1>1
  <2>2. \A x \in ToSet(r) : x \in ToSet(list) \cup {t}
    BY <1>1, <2>1 DEF ToSet
  <2>3. \A x \in ToSet(list) \cup {t} : x \in ToSet(r)
    BY <1>1, <2>1 DEF ToSet
  <2> QED BY <2>2, <2>3
<1>3. NoDup(r)
  BY <1>1 DEF NoDup, ToSet
<1> QED BY <1>1, <1>2, <1>3 DEF r

\* rt_schedule_insert_thread: the current thread is running again, another one
\* joins its queue.
LEMMA InsertThread ==
  ASSUME NEW s, TableOK(s), NEW t \in Thread, t \notin InTable(s)
  PROVE  LET r == rt_schedule_insert_thread(s, t)
         IN  /\ TableOK(r)
             /\ InTable(r) = IF t = s.current THEN InTable(s) ELSE InTable(s) \cup {t}
             /\ r.stat = [s.stat EXCEPT ![t] = IF t = s.current THEN "running" ELSE "ready"]
             /\ r.current = s.current /\ r.prio = s.prio
             /\ r.waiting = s.waiting /\ r.defunct = s.defunct
<1> DEFINE r == rt_schedule_insert_thread(s, t)
           n == [s.stat EXCEPT ![t] = IF t = s.current THEN "running" ELSE "ready"]
           q == s.prio[t]
<1>0. s \in SchedType /\ q \in Prios
  BY Fields DEF TableOK
<1>1. n \in [Thread -> Stat]
  BY <1>0, Fields DEF Stat
<1>2. \A v \in Thread \ {t} : n[v] = s.stat[v]
  BY <1>0, Fields
<1>3. CASE t = s.current
  <2>1. r = [s EXCEPT !.stat = n]
    BY <1>3 DEF rt_schedule_insert_thread
  <2> HIDE DEF r, n
  <2>2. /\ r \in SchedType
        /\ r.current = s.current /\ r.table = s.table /\ r.group = s.group
        /\ r.stat = n /\ r.prio = s.prio
        /\ r.waiting = s.waiting /\ r.defunct = s.defunct
    BY <1>0, <1>1, <2>1 DEF SchedType
  <2>3. ASSUME NEW p \in Prios, NEW v \in ToSet(s.table[p])
        PROVE  n[v] = s.stat[v]
    <3>1. v \in InTable(s)
      BY TableFacts
    <3>2. v \in Thread /\ v # t
      BY <3>1 DEF InTable
    <3> QED BY <1>2, <3>2
  <2>4. TableOK(r)
    BY <2>2, <2>3 DEF TableOK
  <2>5. InTable(r) = InTable(s)
    BY <2>2 DEF InTable
  <2> QED BY <1>3, <2>2, <2>4, <2>5 DEF r, n
<1>4. CASE t # s.current
  <2> DEFINE list == Append(s.table[q], t)
             tb   == [s.table EXCEPT ![q] = list]
             g    == s.group \cup {q}
  <2>1. r = [s EXCEPT !.stat = n, !.table = tb, !.group = g]
    BY <1>0, <1>4 DEF rt_schedule_insert_thread, SchedType
  <2>2. /\ s.table[q] \in Seq(Thread) /\ NoDup(s.table[q]) /\ t \notin ToSet(s.table[q])
    BY <1>0, TableFacts, Fields DEF TableOK
  <2>3. list \in Seq(Thread) /\ ToSet(list) = ToSet(s.table[q]) \cup {t} /\ NoDup(list)
    BY <2>2, AppendFacts
  <2>4. list # <<>>
    BY <2>3, EmptyList
  <2> HIDE DEF list
  <2>5. /\ tb \in [Prios -> Seq(Thread)] /\ tb[q] = list
        /\ \A p \in Prios \ {q} : tb[p] = s.table[p]
    BY <1>0, <2>3, Fields
  <2>6. g \in SUBSET Prios
    BY <1>0, Fields
  <2>g. \A p \in Prios : p \in g <=> p = q \/ p \in s.group
    OBVIOUS
  <2> HIDE DEF r, n, tb, g
  <2>7. /\ r \in SchedType
        /\ r.current = s.current /\ r.table = tb /\ r.group = g
        /\ r.stat = n /\ r.prio = s.prio
        /\ r.waiting = s.waiting /\ r.defunct = s.defunct
    BY <1>0, <1>1, <2>1, <2>5, <2>6 DEF SchedType
  <2>8. n[t] = "ready"
    BY <1>0, <1>4, Fields DEF n
  <2>9. \A p \in Prios : \A v \in ToSet(tb[p]) :
          s.prio[v] = p /\ n[v] = "ready"
    <3>1. ASSUME NEW p \in Prios, NEW v \in ToSet(s.table[p])
          PROVE  s.prio[v] = p /\ n[v] = "ready"
      <4>1. v \in InTable(s)
        BY TableFacts
      <4>2. v \in Thread /\ v # t
        BY <4>1 DEF InTable
      <4>3. n[v] = s.stat[v]
        BY <1>2, <4>2
      <4> QED BY <4>3 DEF TableOK
    <3>2. s.prio[t] = q
      OBVIOUS
    <3> HIDE DEF q
    <3>3. ASSUME NEW p \in Prios, NEW v \in ToSet(tb[p])
          PROVE  s.prio[v] = p /\ n[v] = "ready"
      <4>1. CASE p # q
        BY <2>5, <3>1, <4>1
      <4>2. CASE p = q /\ v = t
        BY <1>4, <2>8, <3>2, <4>2
      <4>3. CASE p = q /\ v # t
        <5>1. v \in ToSet(s.table[q])
          BY <2>3, <2>5, <4>3
        <5> QED BY <1>0, <3>1, <4>3, <5>1
      <4> QED BY <4>1, <4>2, <4>3
    <3> QED BY <3>3
  <2>10. \A p \in Prios : (p \in g <=> tb[p] # <<>>) /\ NoDup(tb[p])
    BY <2>3, <2>4, <2>5, <2>g DEF TableOK
  <2>11. TableOK(r)
    BY <2>7, <2>9, <2>10 DEF TableOK
  <2>12. InTable(r) = InTable(s) \cup {t}
    <3>1. \A p \in Prios : ToSet(tb[p]) = IF p = q THEN ToSet(s.table[p]) \cup {t}
                                                 ELSE ToSet(s.table[p])
      BY <2>3, <2>5
    <3>2. \A v \in Thread : s.prio[v] \in Prios
      BY <1>0, Fields
    <3>3. \A v \in Thread : v \in InTable(r) <=> v \in ToSet(tb[s.prio[v]])
      BY <2>7 DEF InTable
    <3>4. \A v \in Thread : v \in InTable(r) <=> v \in InTable(s) \/ v = t
      BY <3>1, <3>2, <3>3 DEF InTable
    <3>5. InTable(r) \subseteq Thread /\ InTable(s) \subseteq Thread
      BY DEF InTable
    <3> QED BY <3>4, <3>5
  <2> QED BY <1>4, <2>7, <2>11, <2>12 DEF r, n
<1> QED BY <1>3, <1>4

-----------------------------------------------------------------------------
(* rt_schedule.                                                            *)

\* Between two calls of the scheduler: nobody but the current thread is
\* running, those who wait are suspended, those to be freed are closed.
SchedOK(s) ==
  /\ TableOK(s)
  /\ s.stat[s.current] # "ready"
  /\ \A t \in Thread : s.stat[t] = "running" => t = s.current
  /\ \A t \in s.waiting : s.stat[t] = "suspend"
  /\ \A t \in s.defunct : s.stat[t] = "close"

\* The thread that is switched to: the first of the highest priority.
LEMMA FirstFacts ==
  ASSUME NEW s, SchedOK(s), s.group # {}
  PROVE  /\ First(s) \in InTable(s) /\ First(s) # s.current /\ First(s) # Garbage
         /\ s.prio[First(s)] = Highest(s)
         /\ \A t \in InTable(s) : Highest(s) <= s.prio[t]
<1>0. s \in SchedType /\ Prios \subseteq Nat
  BY SchedulerAssumption DEF SchedOK, TableOK, Prios
<1>1. s.group \in SUBSET Nat
  BY <1>0, Fields
<1>2. Highest(s) \in s.group /\ \A q \in s.group : Highest(s) <= q
  BY <1>1, Least DEF Highest
<1> DEFINE h == Highest(s)
<1>3. h \in Prios /\ s.table[h] # <<>> /\ s.table[h] \in Seq(Thread) /\ NoDup(s.table[h])
  <2> HIDE DEF h
  <2>1. h \in s.group
    BY <1>2 DEF h
  <2>2. h \in Prios /\ s.table[h] \in Seq(Thread)
    BY <1>0, <2>1, Fields
  <2> QED BY <2>1, <2>2 DEF SchedOK, TableOK
<1>4. First(s) = Head(s.table[h])
  BY <1>3 DEF First
<1>5. First(s) \in ToSet(s.table[h])
  BY <1>3, <1>4, TailFacts
<1>6. First(s) \in InTable(s) /\ s.prio[First(s)] = h
  BY <1>3, <1>5, TableFacts DEF SchedOK
<1>7. First(s) # s.current
  BY <1>6, TableFacts DEF SchedOK
<1>8. First(s) # Garbage
  BY <1>6, SchedulerAssumption DEF InTable
<1>9. ASSUME NEW t \in InTable(s) PROVE h <= s.prio[t]
  <2>1. t \in ToSet(s.table[s.prio[t]]) /\ t \in Thread
    BY DEF InTable
  <2>2. s.prio[t] \in Prios /\ s.table[s.prio[t]] \in Seq(Thread)
    BY <1>0, <2>1, Fields
  <2>3. s.table[s.prio[t]] # <<>>
    BY <2>1, <2>2, EmptyList
  <2>4. s.prio[t] \in s.group
    BY <2>2, <2>3 DEF SchedOK, TableOK
  <2> QED BY <1>2, <2>4
<1> QED BY <1>6, <1>7, <1>8, <1>9

LEMMA EmptyGroup ==
  ASSUME NEW s, SchedOK(s), s.group = {}
  PROVE  InTable(s) = {}
<1>1. ASSUME NEW t \in InTable(s) PROVE FALSE
  <2>1. t \in ToSet(s.table[s.prio[t]]) /\ t \in Thread
    BY DEF InTable
  <2>2. s.prio[t] \in Prios /\ s.table[s.prio[t]] \in Seq(Thread)
    BY <2>1, Fields DEF SchedOK, TableOK
  <2>3. s.table[s.prio[t]] # <<>>
    BY <2>1, <2>2, EmptyList
  <2> QED BY <2>2, <2>3 DEF SchedOK, TableOK
<1> QED BY <1>1

\* The processor goes from one thread to another.
Switched(s, r) ==
  /\ r.current \in InTable(s) /\ r.current # s.current
  /\ r.stat = [t \in Thread |-> IF t = r.current THEN "running"
                                ELSE IF t = s.current /\ s.stat[t] = "running" THEN "ready"
                                ELSE s.stat[t]]
  /\ InTable(r) =
       (InTable(s) \cup {t \in {s.current} : s.stat[t] = "running"}) \ {r.current}

\* Outside of the lists and the fields of the scheduler nothing changes.
SameLists(s, r) == r.prio = s.prio /\ r.waiting = s.waiting /\ r.defunct = s.defunct

LEMMA SwitchFacts ==
  ASSUME NEW s, SchedOK(s), s.group # {}
  PROVE  LET r == SwitchTo(s, First(s))
         IN  /\ SchedOK(r) /\ SameLists(s, r) /\ Switched(s, r)
             /\ r.current = First(s)
<1> DEFINE to   == First(s)
           from == s.current
           on   == [s EXCEPT !.current = to]
           back == IF s.stat[from] = "running" THEN rt_schedule_insert_thread(on, from) ELSE on
           off  == rt_schedule_remove_thread(back, to)
           n    == [off.stat EXCEPT ![to] = "running"]
           r    == [off EXCEPT !.stat = n]
<1>0. SwitchTo(s, to) = r
  <2>1. to # Garbage
    BY FirstFacts
  <2>2. SwitchTo(s, to) = [off EXCEPT !.stat[to] = "running"]
    BY <2>1 DEF SwitchTo
  <2>3. [off EXCEPT !.stat[to] = "running"] = r
    OBVIOUS
  <2> QED BY <2>2, <2>3
<1>1. /\ s \in SchedType /\ TableOK(s)
      /\ to \in InTable(s) /\ to \in Thread /\ to # from /\ s.stat[to] = "ready"
      /\ from \in Thread /\ from \notin InTable(s)
  BY FirstFacts, TableFacts, Fields DEF SchedOK, TableOK, InTable
<1> HIDE DEF to
<1>2. /\ on \in SchedType
      /\ on.current = to /\ on.table = s.table /\ on.group = s.group
      /\ on.stat = s.stat /\ on.prio = s.prio
      /\ on.waiting = s.waiting /\ on.defunct = s.defunct
  BY <1>1 DEF SchedType
<1> HIDE DEF on
<1>3. TableOK(on) /\ InTable(on) = InTable(s)
  BY <1>1, <1>2 DEF TableOK, InTable
<1>4. /\ TableOK(back)
      /\ InTable(back) = InTable(s) \cup {t \in {from} : s.stat[t] = "running"}
      /\ back.stat = [t \in Thread |-> IF t = from /\ s.stat[t] = "running" THEN "ready"
                                       ELSE s.stat[t]]
      /\ back.current = to /\ SameLists(s, back)
  <2>1. CASE s.stat[from] = "running"
    <3>1. /\ TableOK(back)
          /\ InTable(back) = InTable(on) \cup {from}
          /\ back.stat = [on.stat EXCEPT ![from] = "ready"]
          /\ back.current = on.current /\ back.prio = on.prio
          /\ back.waiting = on.waiting /\ back.defunct = on.defunct
      BY <1>1, <1>2, <1>3, <2>1, InsertThread
    <3> HIDE DEF back
    <3>2. back.stat = [t \in Thread |-> IF t = from /\ s.stat[t] = "running" THEN "ready"
                                        ELSE s.stat[t]]
      BY <1>1, <1>2, <2>1, <3>1, Fields
    <3> QED BY <1>2, <1>3, <2>1, <3>1, <3>2 DEF SameLists
  <2>2. CASE s.stat[from] # "running"
    <3>1. back = on
      BY <2>2
    <3>2. s.stat = [t \in Thread |-> IF t = from /\ s.stat[t] = "running" THEN "ready"
                                     ELSE s.stat[t]]
      BY <1>1, <2>2, Fields
    <3> HIDE DEF back
    <3> QED BY <1>2, <1>3, <2>2, <3>1, <3>2 DEF SameLists
  <2> QED BY <2>1, <2>2
<1> HIDE DEF back
<1>5. /\ TableOK(off) /\ InTable(off) = InTable(back) \ {to}
      /\ off.current = to /\ off.stat = back.stat /\ off.prio = s.prio
      /\ off.waiting = s.waiting \ {to} /\ off.defunct = s.defunct \ {to}
  BY <1>1, <1>4, RemoveThread DEF SameLists
<1>6. to \notin s.waiting /\ to \notin s.defunct
  BY <1>1 DEF SchedOK
<1>7. off.waiting = s.waiting /\ off.defunct = s.defunct
  BY <1>5, <1>6
<1> HIDE DEF off
<1>8. off \in SchedType /\ n \in [Thread -> Stat]
  BY <1>5, Fields DEF TableOK, Stat
<1>n. n = [t \in Thread |-> IF t = to THEN "running"
                            ELSE IF t = from /\ s.stat[t] = "running" THEN "ready"
                            ELSE s.stat[t]]
  BY <1>1, <1>4, <1>5
<1> HIDE DEF n
<1>9. /\ r \in SchedType
      /\ r.current = off.current /\ r.table = off.table /\ r.group = off.group
      /\ r.stat = n /\ r.prio = off.prio
      /\ r.waiting = off.waiting /\ r.defunct = off.defunct
  BY <1>8 DEF SchedType
<1> HIDE DEF r
<1>10. InTable(r) = InTable(off)
  BY <1>9 DEF InTable
<1>11. TableOK(r)
  <2>1. ASSUME NEW p \in Prios, NEW v \in ToSet(off.table[p])
        PROVE  off.prio[v] = p /\ n[v] = "ready"
    <3>1. v \in InTable(off) /\ off.prio[v] = p /\ off.stat[v] = "ready"
      BY <1>5, TableFacts
    <3>2. v \in Thread /\ v # to
      BY <1>5, <3>1 DEF InTable
    <3>3. n[v] = "ready"
      BY <1>4, <1>5, <1>n, <3>1, <3>2
    <3> QED BY <3>1, <3>3
  <2> QED BY <1>5, <1>9, <2>1 DEF TableOK
<1>12. Switched(s, r)
  BY <1>1, <1>4, <1>5, <1>9, <1>10, <1>n DEF Switched
<1>13. SameLists(s, r)
  BY <1>5, <1>7, <1>9 DEF SameLists
<1>14. SchedOK(r)
  <2>1. r.current = to /\ r.stat[r.current] # "ready"
    BY <1>1, <1>5, <1>9, <1>n
  <2>2. \A t \in Thread : r.stat[t] = "running" => t = r.current
    BY <1>9, <1>n, <2>1 DEF SchedOK
  <2>3. \A t \in Thread : s.stat[t] \in {"suspend", "close"} => r.stat[t] = s.stat[t]
    BY <1>1, <1>9, <1>n
  <2>4. s.waiting \subseteq Thread /\ s.defunct \subseteq Thread
    BY <1>1, Fields
  <2> QED BY <1>11, <1>13, <2>1, <2>2, <2>3, <2>4 DEF SchedOK, SameLists
<1> QED BY <1>0, <1>5, <1>9, <1>12, <1>13, <1>14 DEF to

\* The current thread gives way to a thread it is not above.
Highmost(s) ==
  s.stat[s.current] = "running" /\ \A t \in InTable(s) : s.prio[s.current] <= s.prio[t]

LEMMA ScheduleFacts ==
  ASSUME NEW s, SchedOK(s), s.group = {} => s.stat[s.current] = "running", lock \in Nat
  PROVE  LET r == rt_schedule(s)
         IN  /\ SchedOK(r) /\ SameLists(s, r)
             /\ \/ r.current = s.current /\ r.stat = s.stat /\ InTable(r) = InTable(s)
                \/ lock = 0 /\ Switched(s, r)
             /\ lock = 0 => Highmost(r)
<1> DEFINE r == rt_schedule(s)
           c == s.current
<1>0. s \in SchedType /\ TableOK(s) /\ c \in Thread
  BY Fields DEF SchedOK, TableOK
<1>p. \A t \in Thread : s.prio[t] \in Int
  BY <1>0, Fields, SchedulerAssumption DEF Prios
<1>1. CASE lock > 0
  BY <1>1 DEF rt_schedule, SameLists
<1>2. CASE lock = 0 /\ s.group = {}
  <2>1. r = s
    BY <1>2 DEF rt_schedule
  <2>2. InTable(s) = {}
    BY <1>2, EmptyGroup
  <2> HIDE DEF r
  <2> QED BY <1>2, <2>1, <2>2 DEF SameLists, Highmost, r
<1>3. CASE lock = 0 /\ s.group # {} /\ s.stat[c] = "running" /\ s.prio[c] < Highest(s)
  <2>1. r = rt_schedule_remove_thread(s, c)
    BY <1>3 DEF rt_schedule
  <2>2. /\ TableOK(r) /\ InTable(r) = InTable(s) \ {c}
        /\ r.current = s.current /\ r.stat = s.stat /\ r.prio = s.prio
        /\ r.waiting = s.waiting \ {c} /\ r.defunct = s.defunct \ {c}
    BY <1>0, <2>1, RemoveThread
  <2> HIDE DEF r
  <2>3. c \notin s.waiting /\ c \notin s.defunct /\ c \notin InTable(s)
    BY <1>0, <1>3, TableFacts DEF SchedOK
  <2>4. r.waiting = s.waiting /\ r.defunct = s.defunct /\ InTable(r) = InTable(s)
    BY <2>2, <2>3
  <2>5. SchedOK(r)
    BY <2>2, <2>4 DEF SchedOK
  <2>6. \A t \in InTable(s) : Highest(s) <= s.prio[t] /\ s.prio[t] \in Int
    BY <1>3, <1>p, FirstFacts DEF InTable
  <2>7. Highest(s) \in Int
    BY <1>3, <1>p, FirstFacts DEF InTable
  <2>8. \A t \in InTable(s) : s.prio[c] <= s.prio[t]
    BY <1>0, <1>3, <1>p, <2>6, <2>7
  <2>9. Highmost(r)
    BY <1>3, <2>2, <2>4, <2>8 DEF Highmost
  <2> QED BY <2>2, <2>4, <2>5, <2>9 DEF SameLists, r
<1>4. CASE lock = 0 /\ s.group # {} /\ ~(s.stat[c] = "running" /\ s.prio[c] < Highest(s))
  <2>1. r = SwitchTo(s, First(s))
    BY <1>4 DEF rt_schedule
  <2>2. SchedOK(r) /\ SameLists(s, r) /\ Switched(s, r) /\ r.current = First(s)
    BY <1>4, <2>1, SwitchFacts
  <2> HIDE DEF r
  <2>3. /\ First(s) \in InTable(s) /\ s.prio[First(s)] = Highest(s)
        /\ \A t \in InTable(s) : Highest(s) <= s.prio[t]
    BY <1>4, FirstFacts
  <2>4. Highest(s) \in Int
    BY <1>p, <2>3 DEF InTable
  <2>5. r.stat[r.current] = "running"
    BY <2>2, <2>3 DEF Switched, InTable
  <2>6. ASSUME NEW t \in InTable(r) PROVE Highest(s) <= s.prio[t]
    <3>1. CASE t \in InTable(s)
      BY <2>3, <3>1
    <3>2. CASE t \notin InTable(s)
      <4>1. t = c /\ s.stat[c] = "running"
        BY <2>2, <3>2 DEF Switched
      <4> QED BY <1>0, <1>4, <1>p, <2>4, <4>1
    <3> QED BY <3>1, <3>2
  <2>7. Highmost(r)
    BY <2>2, <2>3, <2>5, <2>6 DEF Highmost, SameLists
  <2> QED BY <1>4, <2>2, <2>7 DEF r
<1> QED BY <1>1, <1>2, <1>3, <1>4

-----------------------------------------------------------------------------
(* What the callers keep to, and the inductive invariant.                  *)

\* A thread that is deleted does not sleep or wait with a time limit, which
\* scheduler_delete shows to be needed; one that others suspend and resume does
\* not wait or exit by itself and has one manager; neither is both, and no
\* priority of a thread that is deleted is changed.
Contract ==
  /\ \A c, d, u \in Thread : <<c, u>> \in Deletes =>
       u \notin Timed /\ <<d, u>> \notin Boosts /\ <<d, u>> \notin Manages
  /\ \A c, d, u \in Thread : <<c, u>> \in Manages =>
       u \notin Timed \cup Waits \cup Exits /\ (<<d, u>> \in Manages => d = c)

\* The thread is in a call on another one.
Busy     == {"start", "unlink", "insert", "suspend", "delete", "close"}
LifePc   == {"start", "delete", "close"}
DeletePc == {"delete", "close"}

\* Nobody deletes a thread that is in the middle of a call on another one, or
\* resumes one that somebody is starting or deleting.
Considerate ==
  \A c, u \in Thread :
    /\ DeleteRemoves(c, u) => pc[u] \notin Busy
    /\ rt_thread_resume(c, u) => ~LifeCall(u)

\* Somebody, whose place and argument p and a say, is deleting t.
Deleting(t, p, a) == \E c \in Thread : p[c] \in DeletePc /\ a[c] = t

\* The argument of a call on another thread is as the call needs it.
CallOK(c, s, tm, p, a) ==
  /\ a[c] # c /\ a[c] # idle
  /\ s.stat[c] \in {"ready", "running", "suspend"} /\ ~Deleting(c, p, a)
  /\ p[c] = "start" => s.stat[a[c]] = "suspend" /\ a[c] \notin s.waiting /\ a[c] \notin tm
  /\ p[c] \in DeletePc =>
       /\ s.stat[a[c]] \in {"init", "ready", "suspend"}
       /\ a[c] \notin InTable(s) /\ a[c] \notin s.waiting
       /\ <<c, a[c]>> \in Deletes
  /\ p[c] \in {"unlink", "insert"} =>
       /\ <<c, a[c]>> \in Manages /\ s.stat[a[c]] = "suspend"
       /\ \A d \in Thread : p[d] = "start" => a[d] # a[c]
  /\ p[c] = "suspend" => <<c, a[c]>> \in Manages /\ s.stat[a[c]] \in {"ready", "running"}

\* Whom a suspended thread may be woken by.
CanWake(t, s, tm, p, a) ==
  \/ t \in s.waiting \/ t \in tm \/ Deleting(t, p, a)
  \/ \E c \in Thread : <<c, t>> \in Manages
  \/ \E c \in Thread : p[c] \in {"start", "insert"} /\ a[c] = t

\* The threads, their lists and their calls.
ThreadsOK(s, tm, p, a) ==
  /\ SchedOK(s)
  /\ s.stat[idle] \in {"ready", "running"}
  /\ s.waiting \subseteq Waits
  /\ \A t \in tm : t \in Timed /\ s.stat[t] = "suspend"
  /\ \A t \in Thread : s.stat[t] = "ready" => t \in InTable(s) \/ Deleting(t, p, a)
  /\ \A t \in Thread : s.stat[t] = "suspend" => CanWake(t, s, tm, p, a)
  /\ \A c \in Thread : p[c] \in Busy => CallOK(c, s, tm, p, a)
  /\ \A c, d \in Thread : p[c] \in LifePc /\ p[d] \in LifePc /\ a[c] = a[d] => c = d

Types ==
  /\ timer \in SUBSET Thread /\ lock \in 0 .. MaxNest
  /\ pc \in [Thread -> Busy \cup {"run", "schedule"}]
  /\ arg \in [Thread -> Thread]
  /\ stale \in BOOLEAN

\* Only a thread that is about to schedule, outside of every critical section,
\* has the processor without running.
CurrentOK ==
  sched.stat[sched.current] # "running" => pc[sched.current] = "schedule" /\ lock = 0

\* Who is not about to schedule has nobody above.
HighOK == lock = 0 /\ ~stale /\ pc[sched.current] # "schedule" => Highmost(sched)

SchedulerInv == Types /\ ThreadsOK(sched, timer, pc, arg) /\ CurrentOK /\ HighOK

-----------------------------------------------------------------------------
(* The operations that the calls are made of.                              *)

\* A thread outside of the table gets a status and a priority.
LEMMA MarkFacts ==
  ASSUME NEW s, TableOK(s), NEW u \in Thread, u \notin InTable(s),
         NEW r \in SchedType, r.table = s.table, r.group = s.group,
         \A t \in Thread \ {u} : r.stat[t] = s.stat[t] /\ r.prio[t] = s.prio[t]
  PROVE  TableOK(r) /\ InTable(r) = InTable(s)
<1>1. ASSUME NEW p \in Prios, NEW v \in ToSet(s.table[p])
      PROVE  v \in Thread \ {u} /\ r.prio[v] = p /\ r.stat[v] = "ready"
  <2>1. v \in InTable(s) /\ s.prio[v] = p /\ s.stat[v] = "ready"
    BY TableFacts
  <2>2. v \in Thread \ {u}
    BY <2>1 DEF InTable
  <2> QED BY <2>1, <2>2
<1>2. TableOK(r)
  BY <1>1 DEF TableOK
<1>3. ASSUME NEW t \in Thread PROVE t \in InTable(r) <=> t \in InTable(s)
  <2>1. s.prio[t] \in Prios /\ r.prio[t] \in Prios
    BY Fields DEF TableOK
  <2>2. CASE t = u
    <3>1. t \notin ToSet(s.table[r.prio[t]])
      BY <1>1, <2>1, <2>2
    <3> QED BY <2>2, <3>1 DEF InTable
  <2>3. CASE t # u
    BY <2>3 DEF InTable
  <2> QED BY <2>2, <2>3
<1> QED BY <1>2, <1>3 DEF InTable

LEMMA SuspendedFacts ==
  ASSUME NEW s, SchedOK(s), NEW u \in Thread
  PROVE  LET r == Suspended(s, u)
         IN  /\ SchedOK(r) /\ InTable(r) = InTable(s) \ {u}
             /\ r.current = s.current /\ r.prio = s.prio
             /\ r.stat = [s.stat EXCEPT ![u] = "suspend"]
             /\ r.waiting = s.waiting \ {u} /\ r.defunct = s.defunct \ {u}
<1> DEFINE m == rt_schedule_remove_thread(s, u)
           n == [s.stat EXCEPT ![u] = "suspend"]
           r == [m EXCEPT !.stat = n]
<1>0. s \in SchedType
  BY DEF SchedOK, TableOK
<1>1. /\ TableOK(m) /\ InTable(m) = InTable(s) \ {u}
      /\ m.current = s.current /\ m.stat = s.stat /\ m.prio = s.prio
      /\ m.waiting = s.waiting \ {u} /\ m.defunct = s.defunct \ {u}
  BY RemoveThread DEF SchedOK
<1>2. n \in [Thread -> Stat] /\ m \in SchedType
  BY <1>0, <1>1, Fields DEF Stat, TableOK
<1>3. Suspended(s, u) = r
  BY <1>1, <1>2 DEF Suspended, SchedType
<1> HIDE DEF m, n
<1>4. /\ r \in SchedType
      /\ r.current = m.current /\ r.table = m.table /\ r.group = m.group
      /\ r.stat = n /\ r.prio = m.prio
      /\ r.waiting = m.waiting /\ r.defunct = m.defunct
  BY <1>2 DEF SchedType
<1> HIDE DEF r
<1>5. \A t \in Thread : r.stat[t] = IF t = u THEN "suspend" ELSE s.stat[t]
  BY <1>0, <1>4, Fields DEF n
<1>6. TableOK(r) /\ InTable(r) = InTable(m)
  <2>1. \A t \in Thread \ {u} : r.stat[t] = m.stat[t] /\ r.prio[t] = m.prio[t]
    BY <1>1, <1>4, <1>5
  <2>2. u \notin InTable(m)
    BY <1>1
  <2>3. r.table = m.table /\ r.group = m.group /\ r \in SchedType
    BY <1>4
  <2> QED BY <1>1, <2>1, <2>2, <2>3, MarkFacts
<1>7. s.current \in Thread /\ s.waiting \subseteq Thread /\ s.defunct \subseteq Thread
  BY <1>0, Fields
<1>8. SchedOK(r)
  BY <1>1, <1>4, <1>5, <1>6, <1>7 DEF SchedOK
<1> QED BY <1>1, <1>3, <1>4, <1>6, <1>8 DEF n

LEMMA ResumedFacts ==
  ASSUME NEW s, SchedOK(s), NEW u \in Thread, s.stat[u] = "suspend"
  PROVE  LET r == Resumed(s, u)
         IN  /\ SchedOK(r)
             /\ InTable(r) = IF u = s.current THEN InTable(s) ELSE InTable(s) \cup {u}
             /\ r.current = s.current /\ r.prio = s.prio
             /\ r.stat = [s.stat EXCEPT ![u] = IF u = s.current THEN "running" ELSE "ready"]
             /\ r.waiting = s.waiting \ {u} /\ r.defunct = s.defunct
<1> DEFINE m == Unlink(s, u)
           r == Resumed(s, u)
<1>0. s \in SchedType /\ TableOK(s) /\ u \notin InTable(s)
  BY TableFacts DEF SchedOK, TableOK
<1>1. /\ TableOK(m) /\ InTable(m) = InTable(s)
      /\ m.current = s.current /\ m.stat = s.stat /\ m.prio = s.prio
      /\ m.waiting = s.waiting \ {u} /\ m.defunct = s.defunct \ {u}
  BY <1>0, UnlinkOutside
<1>2. s.defunct \ {u} = s.defunct
  BY DEF SchedOK
<1>3. r = rt_schedule_insert_thread(m, u)
  BY DEF Resumed
<1> HIDE DEF m, r
<1>4. /\ TableOK(r)
      /\ InTable(r) = IF u = m.current THEN InTable(m) ELSE InTable(m) \cup {u}
      /\ r.stat = [m.stat EXCEPT ![u] = IF u = m.current THEN "running" ELSE "ready"]
      /\ r.current = m.current /\ r.prio = m.prio
      /\ r.waiting = m.waiting /\ r.defunct = m.defunct
  BY <1>0, <1>1, <1>3, InsertThread
<1>5. \A t \in Thread :
        r.stat[t] = IF t = u THEN (IF u = s.current THEN "running" ELSE "ready") ELSE s.stat[t]
  BY <1>0, <1>1, <1>4, Fields
<1>6. s.current \in Thread /\ s.waiting \subseteq Thread /\ s.defunct \subseteq Thread
  BY <1>0, Fields
<1>7. SchedOK(r)
  BY <1>1, <1>2, <1>4, <1>5, <1>6 DEF SchedOK
<1> QED BY <1>1, <1>2, <1>4, <1>7 DEF r

\* A thread that is out of the table, and of the other lists, gets a status, a
\* priority and perhaps one of these lists.
LEMMA Marked ==
  ASSUME NEW s, SchedOK(s), NEW u \in Thread,
         NEW m, TableOK(m), u \notin InTable(m),
         m.current = s.current, m.stat = s.stat, m.prio = s.prio,
         m.waiting = s.waiting \ {u}, m.defunct = s.defunct \ {u},
         NEW x \in Stat \ {"ready", "running"}, NEW q \in Prios,
         NEW r, r \in SchedType, r.table = m.table, r.group = m.group,
         r.current = m.current,
         r.stat = [m.stat EXCEPT ![u] = x], r.prio = [m.prio EXCEPT ![u] = q],
         r.waiting \subseteq m.waiting \cup {u}, u \in r.waiting => x = "suspend",
         r.defunct \subseteq m.defunct \cup {u}, u \in r.defunct => x = "close"
  PROVE  SchedOK(r) /\ InTable(r) = InTable(m)
<1>0. m \in SchedType /\ s \in SchedType /\ s.current \in Thread
  BY Fields DEF SchedOK, TableOK
<1>1. r.stat[u] = x /\ \A t \in Thread \ {u} : r.stat[t] = m.stat[t]
  BY <1>0, Fields
<1>2. \A t \in Thread \ {u} : r.prio[t] = m.prio[t]
  BY <1>0, Fields
<1>3. TableOK(r) /\ InTable(r) = InTable(m)
  <2>1. \A t \in Thread \ {u} : r.stat[t] = m.stat[t] /\ r.prio[t] = m.prio[t]
    BY <1>1, <1>2
  <2> QED BY <2>1, MarkFacts
<1>4. s.waiting \subseteq Thread /\ s.defunct \subseteq Thread
  BY <1>0, Fields
<1>5. r.stat[r.current] # "ready"
  BY <1>0, <1>1 DEF SchedOK
<1>6. \A t \in Thread : r.stat[t] = "running" => t = r.current
  BY <1>0, <1>1 DEF SchedOK
<1>7. \A t \in r.waiting : r.stat[t] = "suspend"
  BY <1>1, <1>4 DEF SchedOK
<1>8. \A t \in r.defunct : r.stat[t] = "close"
  BY <1>1, <1>4 DEF SchedOK
<1> QED BY <1>3, <1>5, <1>6, <1>7, <1>8 DEF SchedOK

\* rt_ipc_list_suspend.
Enlisted(s, u) == [Suspended(s, u) EXCEPT !.waiting = @ \cup {u}]

LEMMA WaitFacts ==
  ASSUME NEW s, SchedOK(s), NEW u \in Thread
  PROVE  LET r == Enlisted(s, u)
         IN  /\ SchedOK(r) /\ InTable(r) = InTable(s) \ {u}
             /\ r.current = s.current /\ r.prio = s.prio
             /\ r.stat = [s.stat EXCEPT ![u] = "suspend"]
             /\ r.waiting = s.waiting \cup {u} /\ r.defunct = s.defunct \ {u}
<1> DEFINE m == Suspended(s, u)
           w == m.waiting \cup {u}
           r == [m EXCEPT !.waiting = w]
<1>1. /\ SchedOK(m) /\ InTable(m) = InTable(s) \ {u}
      /\ m.current = s.current /\ m.prio = s.prio
      /\ m.stat = [s.stat EXCEPT ![u] = "suspend"]
      /\ m.waiting = s.waiting \ {u} /\ m.defunct = s.defunct \ {u}
  BY SuspendedFacts
<1>2. m \in SchedType /\ TableOK(m)
  BY <1>1 DEF SchedOK, TableOK
<1> HIDE DEF m
<1>3. w \in SUBSET Thread
  BY <1>2, Fields
<1>w. w = s.waiting \cup {u}
  BY <1>1
<1> HIDE DEF w
<1>4. /\ r \in SchedType
      /\ r.current = m.current /\ r.table = m.table /\ r.group = m.group
      /\ r.stat = m.stat /\ r.prio = m.prio
      /\ r.waiting = w /\ r.defunct = m.defunct
  BY <1>2, <1>3 DEF SchedType
<1>5. Enlisted(s, u) = r
  BY <1>1, <1>2 DEF Enlisted, m, w
<1> HIDE DEF r
<1>6. TableOK(r) /\ InTable(r) = InTable(m)
  BY <1>2, <1>4 DEF TableOK, InTable
<1>7. m.stat[u] = "suspend"
  BY <1>1, Fields DEF SchedOK, TableOK
<1>8. SchedOK(r)
  BY <1>1, <1>4, <1>6, <1>7, <1>w DEF SchedOK
<1> QED BY <1>1, <1>4, <1>5, <1>6, <1>8, <1>w

\* The first part of rt_thread_startup.
Started(s, u) == [Unlink(s, u) EXCEPT !.stat[u] = "suspend", !.prio[u] = InitPrio[u]]

LEMMA StartedFacts ==
  ASSUME NEW s, SchedOK(s), NEW u \in Thread, s.stat[u] = "init"
  PROVE  LET r == Started(s, u)
         IN  /\ SchedOK(r) /\ InTable(r) = InTable(s)
             /\ r.current = s.current /\ r.prio = [s.prio EXCEPT ![u] = InitPrio[u]]
             /\ r.stat = [s.stat EXCEPT ![u] = "suspend"]
             /\ r.waiting = s.waiting /\ r.defunct = s.defunct
<1> DEFINE m == Unlink(s, u)
           n == [m.stat EXCEPT ![u] = "suspend"]
           q == [m.prio EXCEPT ![u] = InitPrio[u]]
           r == [m EXCEPT !.stat = n, !.prio = q]
<1>0. s \in SchedType /\ TableOK(s) /\ u \notin InTable(s)
  BY TableFacts DEF SchedOK, TableOK
<1>1. /\ TableOK(m) /\ InTable(m) = InTable(s)
      /\ m.current = s.current /\ m.stat = s.stat /\ m.prio = s.prio
      /\ m.waiting = s.waiting \ {u} /\ m.defunct = s.defunct \ {u}
  BY <1>0, UnlinkOutside
<1>2. m \in SchedType /\ InitPrio[u] \in Prios
  BY <1>1, SchedulerAssumption DEF TableOK
<1>3. n \in [Thread -> Stat] /\ q \in [Thread -> Prios]
  BY <1>2, Fields DEF Stat
<1>4. Started(s, u) = r
  BY <1>2 DEF Started, SchedType
<1> HIDE DEF m, n, q
<1>5. /\ r \in SchedType
      /\ r.current = m.current /\ r.table = m.table /\ r.group = m.group
      /\ r.stat = n /\ r.prio = q
      /\ r.waiting = m.waiting /\ r.defunct = m.defunct
  BY <1>2, <1>3 DEF SchedType
<1> HIDE DEF r
<1>6. s.waiting \ {u} = s.waiting /\ s.defunct \ {u} = s.defunct
  BY DEF SchedOK
<1>7. SchedOK(r) /\ InTable(r) = InTable(m)
  <2>1. "suspend" \in Stat \ {"ready", "running"}
    BY DEF Stat
  <2>2. /\ r.stat = [m.stat EXCEPT ![u] = "suspend"]
        /\ r.prio = [m.prio EXCEPT ![u] = InitPrio[u]]
        /\ r.waiting \subseteq m.waiting \cup {u} /\ r.defunct \subseteq m.defunct \cup {u}
        /\ u \notin r.defunct
    BY <1>1, <1>5 DEF n, q
  <2>3. u \notin InTable(m)
    BY <1>0, <1>1
  <2> QED BY <1>1, <1>2, <1>5, <2>1, <2>2, <2>3, Marked
<1> QED BY <1>1, <1>4, <1>5, <1>6, <1>7 DEF n, q

\* rt_thread_create.
Created(s, u) == [s EXCEPT !.stat[u] = "init", !.prio[u] = InitPrio[u]]

LEMMA CreatedFacts ==
  ASSUME NEW s, SchedOK(s), NEW u \in Thread, s.stat[u] = "none"
  PROVE  LET r == Created(s, u)
         IN  /\ SchedOK(r) /\ InTable(r) = InTable(s)
             /\ r.current = s.current /\ r.prio = [s.prio EXCEPT ![u] = InitPrio[u]]
             /\ r.stat = [s.stat EXCEPT ![u] = "init"]
             /\ r.waiting = s.waiting /\ r.defunct = s.defunct
<1> DEFINE n == [s.stat EXCEPT ![u] = "init"]
           q == [s.prio EXCEPT ![u] = InitPrio[u]]
           r == [s EXCEPT !.stat = n, !.prio = q]
<1>0. s \in SchedType /\ TableOK(s) /\ u \notin InTable(s)
  BY TableFacts DEF SchedOK, TableOK
<1>2. InitPrio[u] \in Prios
  BY SchedulerAssumption
<1>3. n \in [Thread -> Stat] /\ q \in [Thread -> Prios]
  BY <1>0, <1>2, Fields DEF Stat
<1>4. Created(s, u) = r
  BY <1>0 DEF Created, SchedType
<1> HIDE DEF n, q
<1>5. /\ r \in SchedType
      /\ r.current = s.current /\ r.table = s.table /\ r.group = s.group
      /\ r.stat = n /\ r.prio = q
      /\ r.waiting = s.waiting /\ r.defunct = s.defunct
  BY <1>0, <1>3 DEF SchedType
<1> HIDE DEF r
<1>6. s.waiting = s.waiting \ {u} /\ s.defunct = s.defunct \ {u}
  BY DEF SchedOK
<1>7. SchedOK(r) /\ InTable(r) = InTable(s)
  <2>1. "init" \in Stat \ {"ready", "running"}
    BY DEF Stat
  <2>2. /\ r.stat = [s.stat EXCEPT ![u] = "init"]
        /\ r.prio = [s.prio EXCEPT ![u] = InitPrio[u]]
        /\ r.waiting \subseteq s.waiting \cup {u} /\ r.defunct \subseteq s.defunct \cup {u}
        /\ u \notin r.defunct /\ u \notin r.waiting
    BY <1>5, <1>6 DEF n, q
  <2> QED BY <1>0, <1>2, <1>5, <1>6, <2>1, <2>2, Marked
<1> QED BY <1>4, <1>5, <1>7 DEF n, q

\* The last part of rt_thread_delete and rt_thread_exit.
LEMMA BuriedFacts ==
  ASSUME NEW s, SchedOK(s), NEW u \in Thread,
         NEW m, TableOK(m), u \notin InTable(m),
         m.current = s.current, m.stat = s.stat, m.prio = s.prio,
         m.waiting = s.waiting \ {u}, m.defunct = s.defunct \ {u}
  PROVE  LET r == Buried(m, u)
         IN  /\ SchedOK(r) /\ InTable(r) = InTable(m)
             /\ r.current = s.current /\ r.prio = s.prio
             /\ r.stat[u] \in {"none", "close"}
             /\ \A t \in Thread \ {u} : r.stat[t] = s.stat[t]
             /\ r.waiting = s.waiting \ {u}
<1> DEFINE x == IF u \in Static THEN "none" ELSE "close"
           d == IF u \in Static THEN m.defunct ELSE m.defunct \cup {u}
           n == [m.stat EXCEPT ![u] = x]
           r == [m EXCEPT !.stat = n, !.defunct = d]
<1>1. m \in SchedType /\ m.prio[u] \in Prios
  BY Fields DEF TableOK
<1>2. x \in Stat \ {"ready", "running"}
  BY DEF Stat
<1>x. x \in {"none", "close"}
  OBVIOUS
<1>3. d \in SUBSET Thread /\ n \in [Thread -> Stat]
  BY <1>1, <1>2, Fields
<1>4. Buried(m, u) = r
  BY <1>1 DEF Buried, SchedType
<1>d. d \subseteq m.defunct \cup {u} /\ (u \in d => x = "close")
  OBVIOUS
<1> HIDE DEF n, d, x
<1>5. /\ r \in SchedType
      /\ r.current = m.current /\ r.table = m.table /\ r.group = m.group
      /\ r.stat = n /\ r.prio = m.prio
      /\ r.waiting = m.waiting /\ r.defunct = d
  BY <1>1, <1>3 DEF SchedType
<1> HIDE DEF r
<1>6. r.prio = [m.prio EXCEPT ![u] = m.prio[u]]
  BY <1>1, <1>5, Fields
<1>7. SchedOK(r) /\ InTable(r) = InTable(m)
  <2>1. /\ r.stat = [m.stat EXCEPT ![u] = x]
        /\ r.waiting \subseteq m.waiting \cup {u} /\ r.defunct \subseteq m.defunct \cup {u}
        /\ u \notin r.waiting /\ (u \in r.defunct => x = "close")
    BY <1>5, <1>d DEF n
  <2>2. PICK q \in Prios : q = m.prio[u]
    BY <1>1
  <2>3. r.prio = [m.prio EXCEPT ![u] = q]
    BY <1>6, <2>2
  <2>4. r \in SchedType /\ r.table = m.table /\ r.group = m.group /\ r.current = m.current
    BY <1>5
  <2>5. u \in r.waiting => x = "suspend"
    BY <2>1
  <2> QED BY <1>2, <2>1, <2>3, <2>4, <2>5, Marked
<1>8. r.stat[u] = x /\ \A t \in Thread \ {u} : r.stat[t] = s.stat[t]
  BY <1>1, <1>5, Fields DEF n
<1> QED BY <1>4, <1>5, <1>7, <1>8, <1>x

LEMMA ReapFacts ==
  ASSUME NEW s, SchedOK(s), NEW u \in s.defunct
  PROVE  LET r == [Unlink(s, u) EXCEPT !.stat[u] = "none"]
         IN  /\ SchedOK(r) /\ InTable(r) = InTable(s)
             /\ r.current = s.current /\ r.prio = s.prio
             /\ r.stat = [s.stat EXCEPT ![u] = "none"]
             /\ r.waiting = s.waiting
<1> DEFINE m == Unlink(s, u)
           n == [m.stat EXCEPT ![u] = "none"]
           r == [m EXCEPT !.stat = n]
<1>0. s \in SchedType /\ TableOK(s) /\ u \in Thread /\ s.stat[u] = "close" /\ u \notin InTable(s)
  BY TableFacts, Fields DEF SchedOK, TableOK
<1>1. /\ TableOK(m) /\ InTable(m) = InTable(s)
      /\ m.current = s.current /\ m.stat = s.stat /\ m.prio = s.prio
      /\ m.waiting = s.waiting \ {u} /\ m.defunct = s.defunct \ {u}
  BY <1>0, UnlinkOutside
<1>2. m \in SchedType /\ m.prio[u] \in Prios
  BY <1>0, <1>1, Fields DEF TableOK
<1>3. n \in [Thread -> Stat]
  BY <1>2, Fields DEF Stat
<1>4. [Unlink(s, u) EXCEPT !.stat[u] = "none"] = r
  BY <1>2 DEF SchedType
<1> HIDE DEF m, n
<1>5. /\ r \in SchedType
      /\ r.current = m.current /\ r.table = m.table /\ r.group = m.group
      /\ r.stat = n /\ r.prio = m.prio
      /\ r.waiting = m.waiting /\ r.defunct = m.defunct
  BY <1>2, <1>3 DEF SchedType
<1> HIDE DEF r
<1>6. s.waiting \ {u} = s.waiting
  BY <1>0 DEF SchedOK
<1>7. SchedOK(r) /\ InTable(r) = InTable(m)
  <2>1. PICK q \in Prios : q = m.prio[u]
    BY <1>2
  <2>2. r.prio = [m.prio EXCEPT ![u] = q]
    BY <1>2, <1>5, <2>1, Fields
  <2>3. "none" \in Stat \ {"ready", "running"}
    BY DEF Stat
  <2>4. /\ r.stat = [m.stat EXCEPT ![u] = "none"]
        /\ r.waiting \subseteq m.waiting \cup {u} /\ r.defunct \subseteq m.defunct \cup {u}
        /\ u \notin r.waiting /\ u \notin r.defunct
    BY <1>1, <1>5 DEF n
  <2>5. r \in SchedType /\ r.table = m.table /\ r.group = m.group /\ r.current = m.current
    BY <1>5
  <2>6. u \notin InTable(m)
    BY <1>0, <1>1
  <2> QED BY <1>0, <1>1, <2>2, <2>3, <2>4, <2>5, <2>6, Marked
<1> QED BY <1>1, <1>4, <1>5, <1>6, <1>7 DEF n

LEMMA ReprioFacts ==
  ASSUME NEW s, SchedOK(s), NEW u \in Thread, NEW p \in Prios,
         s.stat[u] = "ready" => u \in InTable(s)
  PROVE  LET r == Reprio(s, u, p)
         IN  /\ SchedOK(r) /\ InTable(r) = InTable(s)
             /\ r.current = s.current /\ r.stat = s.stat /\ r.waiting = s.waiting
<1>0. s \in SchedType /\ TableOK(s) /\ s.current \in Thread
  BY Fields DEF SchedOK, TableOK
<1>1. CASE s.stat[u] = "ready"
  <2> DEFINE m == rt_schedule_remove_thread(s, u)
             q == [m.prio EXCEPT ![u] = p]
             n == [m EXCEPT !.prio = q]
             r == rt_schedule_insert_thread(n, u)
  <2>1. /\ TableOK(m) /\ InTable(m) = InTable(s) \ {u}
        /\ m.current = s.current /\ m.stat = s.stat /\ m.prio = s.prio
        /\ m.waiting = s.waiting \ {u} /\ m.defunct = s.defunct \ {u}
    BY <1>0, RemoveThread
  <2>2. u # s.current /\ u \in InTable(s) /\ u \notin s.waiting /\ u \notin s.defunct
    BY <1>1 DEF SchedOK
  <2>3. m \in SchedType /\ q \in [Thread -> Prios]
    BY <1>0, <2>1, Fields DEF TableOK
  <2>4. Reprio(s, u, p) = r
    BY <1>1, <2>3 DEF Reprio, SchedType
  <2>q. \A t \in Thread \ {u} : q[t] = m.prio[t]
    BY <2>3, Fields
  <2> HIDE DEF m, q
  <2>5. /\ n \in SchedType
        /\ n.current = m.current /\ n.table = m.table /\ n.group = m.group
        /\ n.stat = m.stat /\ n.prio = q
        /\ n.waiting = m.waiting /\ n.defunct = m.defunct
    BY <2>3 DEF SchedType
  <2> HIDE DEF n
  <2>6. TableOK(n) /\ InTable(n) = InTable(m)
    <3>1. \A t \in Thread \ {u} : n.stat[t] = m.stat[t] /\ n.prio[t] = m.prio[t]
      BY <2>5, <2>q
    <3>2. u \notin InTable(m)
      BY <2>1
    <3>3. n.table = m.table /\ n.group = m.group /\ n \in SchedType
      BY <2>5
    <3> QED BY <2>1, <3>1, <3>2, <3>3, MarkFacts
  <2> HIDE DEF r
  <2>7. /\ TableOK(r) /\ InTable(r) = InTable(n) \cup {u}
        /\ r.stat = [n.stat EXCEPT ![u] = "ready"]
        /\ r.current = n.current
        /\ r.waiting = n.waiting /\ r.defunct = n.defunct
    BY <2>1, <2>2, <2>5, <2>6, InsertThread DEF r
  <2>8. r.stat = s.stat
    BY <1>0, <1>1, <2>1, <2>5, <2>7, Fields
  <2>9. InTable(r) = InTable(s) /\ r.waiting = s.waiting /\ r.defunct = s.defunct
        /\ r.current = s.current
    BY <2>1, <2>2, <2>5, <2>6, <2>7
  <2>10. SchedOK(r)
    BY <2>7, <2>8, <2>9 DEF SchedOK
  <2> QED BY <2>4, <2>8, <2>9, <2>10
<1>2. CASE s.stat[u] # "ready"
  <2> DEFINE q == [s.prio EXCEPT ![u] = p]
             r == [s EXCEPT !.prio = q]
  <2>1. q \in [Thread -> Prios] /\ \A t \in Thread \ {u} : q[t] = s.prio[t]
    BY <1>0, Fields
  <2>2. Reprio(s, u, p) = r
    BY <1>2 DEF Reprio
  <2> HIDE DEF q
  <2>3. /\ r \in SchedType
        /\ r.current = s.current /\ r.table = s.table /\ r.group = s.group
        /\ r.stat = s.stat /\ r.prio = q
        /\ r.waiting = s.waiting /\ r.defunct = s.defunct
    BY <1>0, <2>1 DEF SchedType
  <2> HIDE DEF r
  <2>4. u \notin InTable(s)
    BY <1>0, <1>2, TableFacts
  <2>5. TableOK(r) /\ InTable(r) = InTable(s)
    <3>1. \A t \in Thread \ {u} : r.stat[t] = s.stat[t] /\ r.prio[t] = s.prio[t]
      BY <2>1, <2>3
    <3> QED BY <1>0, <2>3, <2>4, <3>1, MarkFacts
  <2>6. SchedOK(r)
    BY <2>3, <2>5 DEF SchedOK
  <2> QED BY <2>2, <2>3, <2>5, <2>6
<1> QED BY <1>1, <1>2

-----------------------------------------------------------------------------
(* The calls on other threads.                                             *)

\* A step within a thread's own calls says nothing about another thread.
LEMMA OwnStep ==
  ASSUME NEW s, NEW tm, NEW p, NEW a, NEW b, NEW e, ThreadsOK(s, tm, p, a),
         \A d \in Thread : p[d] \in Busy \/ b[d] \in Busy => b[d] = p[d] /\ e[d] = a[d]
  PROVE  ThreadsOK(s, tm, b, e)
<1>0. LifePc \subseteq Busy /\ DeletePc \subseteq Busy /\ {"start", "insert"} \subseteq Busy
  BY DEF LifePc, DeletePc, Busy
<1>1. \A t \in Thread : Deleting(t, p, a) <=> Deleting(t, b, e)
  BY <1>0 DEF Deleting
<1>2. \A t \in Thread : CanWake(t, s, tm, p, a) => CanWake(t, s, tm, b, e)
  <2> SUFFICES ASSUME NEW t \in Thread, CanWake(t, s, tm, p, a) PROVE CanWake(t, s, tm, b, e)
    OBVIOUS
  <2>1. CASE \E c \in Thread : p[c] \in {"start", "insert"} /\ a[c] = t
    BY <1>0, <2>1 DEF CanWake
  <2>2. CASE ~(\E c \in Thread : p[c] \in {"start", "insert"} /\ a[c] = t)
    BY <1>1, <2>2 DEF CanWake
  <2> QED BY <2>1, <2>2
<1>3. ASSUME NEW c \in Thread, b[c] \in Busy PROVE CallOK(c, s, tm, b, e)
  <2>1. b[c] = p[c] /\ e[c] = a[c] /\ CallOK(c, s, tm, p, a)
    BY <1>3 DEF ThreadsOK
  <2>2. \A d \in Thread : b[d] = "start" => p[d] = "start" /\ e[d] = a[d]
    BY DEF Busy
  <2> QED BY <1>1, <2>1, <2>2 DEF CallOK
<1>4. \A c, d \in Thread : b[c] \in LifePc /\ b[d] \in LifePc /\ e[c] = e[d] => c = d
  BY <1>0 DEF ThreadsOK
<1> QED BY <1>1, <1>2, <1>3, <1>4 DEF ThreadsOK

\* Nobody deletes the idle thread: when no thread is ready, the one that has
\* the processor is running.
LEMMA SomebodyRuns ==
  ASSUME NEW s, NEW tm, NEW p, NEW a, ThreadsOK(s, tm, p, a), s.group = {}
  PROVE  s.stat[s.current] = "running"
<1>1. InTable(s) = {} /\ idle \in Thread
  BY EmptyGroup, SchedulerAssumption DEF ThreadsOK
<1>2. ~Deleting(idle, p, a)
  BY DEF Deleting, ThreadsOK, CallOK, DeletePc, Busy
<1>3. s.stat[idle] = "running"
  BY <1>1, <1>2 DEF ThreadsOK
<1> QED BY <1>1, <1>3 DEF ThreadsOK, SchedOK

\* rt_schedule.
LEMMA ScheduleKeeps ==
  ASSUME NEW s, NEW tm, NEW p, NEW a \in [Thread -> Thread],
         ThreadsOK(s, tm, p, a), lock \in Nat
  PROVE  LET r == rt_schedule(s)
         IN  /\ ThreadsOK(r, tm, p, a)
             /\ \/ r.current = s.current /\ r.stat = s.stat
                \/ lock = 0 /\ r.stat[r.current] = "running"
             /\ lock = 0 => Highmost(r)
<1> DEFINE r == rt_schedule(s)
<1>0. /\ s \in SchedType /\ TableOK(s) /\ SchedOK(s) /\ s.current \in Thread
      /\ idle \in Thread /\ \A t \in InTable(s) : s.stat[t] = "ready"
  BY Fields, TableFacts, SchedulerAssumption DEF ThreadsOK, SchedOK, TableOK
<1>1. /\ SchedOK(r) /\ SameLists(s, r)
      /\ \/ r.current = s.current /\ r.stat = s.stat /\ InTable(r) = InTable(s)
         \/ lock = 0 /\ Switched(s, r)
      /\ lock = 0 => Highmost(r)
  BY SomebodyRuns, ScheduleFacts DEF ThreadsOK
<1> HIDE DEF r
<1>2. CASE r.current = s.current /\ r.stat = s.stat /\ InTable(r) = InTable(s)
  <2>1. \A c \in Thread : CallOK(c, s, tm, p, a) => CallOK(c, r, tm, p, a)
    BY <1>1, <1>2 DEF CallOK, SameLists
  <2>2. \A t \in Thread : CanWake(t, s, tm, p, a) => CanWake(t, r, tm, p, a)
    BY <1>1 DEF CanWake, SameLists
  <2>3. ThreadsOK(r, tm, p, a)
    BY <1>1, <1>2, <2>1, <2>2 DEF ThreadsOK, SameLists
  <2> QED BY <1>1, <1>2, <2>3 DEF r
<1>3. CASE lock = 0 /\ Switched(s, r)
  <2>1. \A t \in Thread : r.stat[t] = IF t = r.current THEN "running"
                                      ELSE IF t = s.current /\ s.stat[t] = "running" THEN "ready"
                                      ELSE s.stat[t]
    BY <1>3 DEF Switched
  <2>2. r.current \in InTable(s) /\ r.current \in Thread /\ r.current # s.current
        /\ s.stat[r.current] = "ready"
    BY <1>0, <1>3 DEF Switched, InTable
  <2>3. \A t \in Thread : /\ s.stat[t] \in {"ready", "running"} <=> r.stat[t] \in {"ready", "running"}
                          /\ s.stat[t] \notin {"ready", "running"} => r.stat[t] = s.stat[t]
    BY <2>1, <2>2
  <2>4. ASSUME NEW t \in Thread
        PROVE  t \in InTable(r) <=>
                 t # r.current /\ (t \in InTable(s) \/ (t = s.current /\ s.stat[t] = "running"))
    <3>1. InTable(r) = (InTable(s) \cup {v \in {s.current} : s.stat[v] = "running"}) \ {r.current}
      BY <1>3 DEF Switched
    <3> QED BY <3>1
  <2>5. ASSUME NEW c \in Thread, CallOK(c, s, tm, p, a) PROVE CallOK(c, r, tm, p, a)
    <3>1. p[c] \in DeletePc =>
            r.stat[a[c]] = s.stat[a[c]] /\ a[c] \notin InTable(r)
      BY <2>1, <2>2, <2>4, <2>5 DEF CallOK
    <3>2. r.waiting = s.waiting
      BY <1>1 DEF SameLists
    <3>3. /\ r.stat[c] \in {"ready", "running", "suspend"}
          /\ s.stat[a[c]] = "suspend" => r.stat[a[c]] = "suspend"
          /\ s.stat[a[c]] \in {"ready", "running"} => r.stat[a[c]] \in {"ready", "running"}
      BY <2>3, <2>5 DEF CallOK
    <3> QED BY <2>5, <3>1, <3>2, <3>3 DEF CallOK
  <2>6. \A t \in Thread : CanWake(t, s, tm, p, a) => CanWake(t, r, tm, p, a)
    BY <1>1 DEF CanWake, SameLists
  <2>7. ASSUME NEW t \in Thread, r.stat[t] = "ready"
        PROVE  t \in InTable(r) \/ Deleting(t, p, a)
    <3>1. t # r.current /\ (s.stat[t] = "ready" \/ (t = s.current /\ s.stat[t] = "running"))
      BY <2>1, <2>7
    <3>2. s.stat[t] = "ready" => t \in InTable(s) \/ Deleting(t, p, a)
      BY DEF ThreadsOK
    <3> QED BY <2>4, <3>1, <3>2
  <2>8. r.prio = s.prio /\ r.waiting = s.waiting
    BY <1>1 DEF SameLists
  <2>9. s.stat[idle] \in {"ready", "running"} /\ \A t \in tm : t \in Timed /\ s.stat[t] = "suspend"
    BY DEF ThreadsOK
  <2>10. Timed \subseteq Thread
    BY SchedulerAssumption
  <2>11. r.stat[idle] \in {"ready", "running"} /\ \A t \in tm : t \in Timed /\ r.stat[t] = "suspend"
    BY <1>0, <2>3, <2>9, <2>10
  <2>12. \A t \in Thread : r.stat[t] = "suspend" => CanWake(t, r, tm, p, a)
    BY <2>3, <2>1, <2>6 DEF ThreadsOK
  <2>13. ThreadsOK(r, tm, p, a)
    BY <1>1, <2>5, <2>7, <2>8, <2>11, <2>12 DEF ThreadsOK
  <2>14. r.stat[r.current] = "running"
    BY <2>1, <2>2
  <2> QED BY <1>1, <1>3, <2>13, <2>14 DEF r
<1> QED BY <1>1, <1>2, <1>3

\* rt_thread_sleep and the waiting for an IPC object.
LEMMA SuspendsItself ==
  ASSUME Contract,
         NEW s, NEW tm, NEW p, NEW a \in [Thread -> Thread], ThreadsOK(s, tm, p, a),
         NEW c \in Timed \cup Waits, s.stat[c] = "running", p[c] \notin Busy,
         NEW r, SchedOK(r), InTable(r) = InTable(s) \ {c},
         r.stat = [s.stat EXCEPT ![c] = "suspend"],
         r.waiting \ {c} = s.waiting \ {c}, c \in r.waiting => c \in Waits,
         NEW tn, tn \ {c} = tm \ {c}, c \in tn => c \in Timed,
         c \in r.waiting \/ c \in tn
  PROVE  ThreadsOK(r, tn, p, a)
<1>1. c \in Thread /\ c # idle
  BY SchedulerAssumption
<1>2. r.stat[c] = "suspend" /\ \A t \in Thread \ {c} : r.stat[t] = s.stat[t]
  BY <1>1, Fields DEF ThreadsOK, SchedOK, TableOK
<1>3. \A t : t # c => (t \in r.waiting <=> t \in s.waiting) /\ (t \in tn <=> t \in tm)
  OBVIOUS
<1>4. r.stat[idle] \in {"ready", "running"}
  BY <1>1, <1>2, SchedulerAssumption DEF ThreadsOK
<1>5. r.waiting \subseteq Waits
  BY <1>3 DEF ThreadsOK
<1>6. \A t \in tn : t \in Timed /\ r.stat[t] = "suspend"
  BY <1>2, <1>3, SchedulerAssumption DEF ThreadsOK
<1>7. \A t \in Thread : r.stat[t] = "ready" => t \in InTable(r) \/ Deleting(t, p, a)
  BY <1>2 DEF ThreadsOK
<1>8. ASSUME NEW t \in Thread, r.stat[t] = "suspend" PROVE CanWake(t, r, tn, p, a)
  <2>1. CASE t = c
    BY <2>1 DEF CanWake
  <2>2. CASE t # c
    <3>1. CanWake(t, s, tm, p, a)
      BY <1>2, <1>8, <2>2 DEF ThreadsOK
    <3> QED BY <1>3, <2>2, <3>1 DEF CanWake
  <2> QED BY <2>1, <2>2
<1>9. ASSUME NEW d \in Thread, p[d] \in Busy PROVE CallOK(d, r, tn, p, a)
  <2>1. CallOK(d, s, tm, p, a) /\ d # c /\ a[d] \in Thread
    BY <1>9 DEF ThreadsOK
  <2>2. a[d] = c => p[d] = "suspend" \/ p[d] \notin Busy
    BY <2>1 DEF CallOK, DeletePc, Busy
  <2>3. a[d] = c => p[d] # "suspend"
    BY <1>1, <2>1 DEF CallOK, Contract
  <2>4. a[d] # c
    BY <1>9, <2>2, <2>3
  <2>5. /\ r.stat[d] = s.stat[d] /\ r.stat[a[d]] = s.stat[a[d]]
        /\ (a[d] \in r.waiting <=> a[d] \in s.waiting) /\ (a[d] \in tn <=> a[d] \in tm)
        /\ (a[d] \in InTable(r) <=> a[d] \in InTable(s))
    BY <1>2, <1>3, <2>1, <2>4
  <2> QED BY <2>1, <2>5 DEF CallOK
<1> QED BY <1>4, <1>5, <1>6, <1>7, <1>8, <1>9 DEF ThreadsOK

\* rt_thread_resume with interrupts disabled: by the owner of an IPC object, by
\* an interrupt, by the thread's timer.
LEMMA IsWoken ==
  ASSUME Contract,
         NEW s, NEW tm, NEW p, NEW a \in [Thread -> Thread], ThreadsOK(s, tm, p, a),
         NEW u \in s.waiting \cup tm
  PROVE  /\ u \in Thread /\ s.stat[u] = "suspend"
         /\ ThreadsOK(Resumed(s, u), tm \ {u}, p, a)
<1> DEFINE r  == Resumed(s, u)
           tn == tm \ {u}
<1>1. u \in Thread /\ s.stat[u] = "suspend" /\ u \in Timed \cup Waits
  BY SchedulerAssumption DEF ThreadsOK, SchedOK
<1>2. /\ SchedOK(r)
      /\ InTable(r) = IF u = s.current THEN InTable(s) ELSE InTable(s) \cup {u}
      /\ r.current = s.current /\ r.prio = s.prio
      /\ r.stat = [s.stat EXCEPT ![u] = IF u = s.current THEN "running" ELSE "ready"]
      /\ r.waiting = s.waiting \ {u}
  BY <1>1, ResumedFacts DEF ThreadsOK
<1> HIDE DEF r
<1>3. /\ r.stat[u] \in {"ready", "running"} /\ \A t \in Thread \ {u} : r.stat[t] = s.stat[t]
      /\ r.stat[u] = "ready" => u \in InTable(r)
  BY <1>1, <1>2, Fields DEF ThreadsOK, SchedOK, TableOK
<1>4. \A t : t # u => (t \in r.waiting <=> t \in s.waiting) /\ (t \in tn <=> t \in tm)
                      /\ (t \in InTable(r) <=> t \in InTable(s))
  BY <1>2
<1>5. r.stat[idle] \in {"ready", "running"}
  BY <1>3, SchedulerAssumption DEF ThreadsOK
<1>6. r.waiting \subseteq Waits
  BY <1>2 DEF ThreadsOK
<1>7. \A t \in tn : t \in Timed /\ r.stat[t] = "suspend"
  BY <1>3, SchedulerAssumption DEF ThreadsOK
<1>8. \A t \in Thread : r.stat[t] = "ready" => t \in InTable(r) \/ Deleting(t, p, a)
  BY <1>3, <1>4 DEF ThreadsOK
<1>9. ASSUME NEW t \in Thread, r.stat[t] = "suspend" PROVE CanWake(t, r, tn, p, a)
  <2>1. t # u
    BY <1>3, <1>9
  <2>2. CanWake(t, s, tm, p, a)
    BY <1>3, <1>9, <2>1 DEF ThreadsOK
  <2> HIDE DEF tn
  <2> QED BY <1>4, <2>1, <2>2 DEF CanWake
<1>10. ASSUME NEW d \in Thread, p[d] \in Busy PROVE CallOK(d, r, tn, p, a)
  <2>1. CallOK(d, s, tm, p, a) /\ a[d] \in Thread
    BY <1>10 DEF ThreadsOK
  <2>2. a[d] # u
    <3>1. p[d] \in DeletePc => a[d] # u
      BY <1>1, <2>1 DEF CallOK, Contract, ThreadsOK
    <3>2. p[d] \in {"unlink", "insert", "suspend"} => a[d] # u
      BY <1>1, <2>1 DEF CallOK, Contract
    <3>3. p[d] = "start" => a[d] # u
      BY <2>1 DEF CallOK
    <3> QED BY <1>10, <3>1, <3>2, <3>3 DEF DeletePc, Busy
  <2>3. /\ r.stat[d] \in {"ready", "running", "suspend"} /\ r.stat[a[d]] = s.stat[a[d]]
        /\ (a[d] \in r.waiting <=> a[d] \in s.waiting) /\ (a[d] \in tn <=> a[d] \in tm)
        /\ (a[d] \in InTable(r) <=> a[d] \in InTable(s))
    BY <1>3, <1>4, <2>1, <2>2 DEF CallOK
  <2> HIDE DEF tn
  <2> QED BY <2>1, <2>3 DEF CallOK
<1> HIDE DEF tn
<1>11. ThreadsOK(r, tn, p, a)
  BY <1>2, <1>5, <1>6, <1>7, <1>8, <1>9, <1>10 DEF ThreadsOK
<1> QED BY <1>1, <1>11 DEF r, tn

\* A step of thread c of a call on thread u, or with c = u a step of its own:
\* the other threads are as before, and so are the calls on other threads.
LEMMA StepOn ==
  ASSUME NEW s, NEW tm, NEW p, NEW a \in [Thread -> Thread], ThreadsOK(s, tm, p, a),
         NEW c \in Thread, NEW u \in Thread \ {idle},
         NEW r, SchedOK(r), NEW tn, NEW b, NEW e,
         \A t \in Thread \ {u} : r.stat[t] = s.stat[t],
         InTable(r) \ {u} = InTable(s) \ {u},
         r.waiting \ {u} = s.waiting \ {u}, u \in r.waiting => u \in Waits,
         tn \ {u} = tm \ {u}, u \in tn => u \in Timed /\ r.stat[u] = "suspend",
         \A d \in Thread \ {c} : b[d] = p[d] /\ e[d] = a[d],
         p[c] \in Busy => a[c] = u, b[c] \in Busy => e[c] = u,
         r.stat[u] = "ready" => u \in InTable(r) \/ Deleting(u, b, e),
         r.stat[u] = "suspend" => CanWake(u, r, tn, b, e),
         b[c] \in LifePc => \A d \in Thread \ {c} : p[d] \in LifePc => a[d] # u,
         b[c] \in Busy => CallOK(c, r, tn, b, e),
         u # c /\ p[u] \in Busy =>
           r.stat[u] \in {"ready", "running", "suspend"} /\ ~Deleting(u, b, e),
         \A d \in Thread \ {c} : p[d] \in Busy /\ a[d] = u => CallOK(d, r, tn, b, e)
  PROVE  ThreadsOK(r, tn, b, e)
<1>0. LifePc \subseteq Busy /\ DeletePc \subseteq Busy /\ {"start", "insert"} \subseteq Busy
  BY DEF LifePc, DeletePc, Busy
<1>1. \A t : t # u => /\ t \in InTable(r) <=> t \in InTable(s)
                      /\ t \in r.waiting <=> t \in s.waiting
                      /\ t \in tn <=> t \in tm
  OBVIOUS
<1>2. \A t \in Thread \ {u} : Deleting(t, b, e) <=> Deleting(t, p, a)
  BY <1>0 DEF Deleting
<1>3. r.stat[idle] \in {"ready", "running"}
  BY SchedulerAssumption DEF ThreadsOK
<1>4. r.waiting \subseteq Waits
  BY <1>1 DEF ThreadsOK
<1>5. \A t \in tn : t \in Timed /\ r.stat[t] = "suspend"
  BY <1>1, SchedulerAssumption DEF ThreadsOK
<1>6. \A t \in Thread : r.stat[t] = "ready" => t \in InTable(r) \/ Deleting(t, b, e)
  BY <1>1, <1>2 DEF ThreadsOK
<1>7. ASSUME NEW t \in Thread, r.stat[t] = "suspend" PROVE CanWake(t, r, tn, b, e)
  <2>1. CASE t = u
    BY <1>7, <2>1
  <2>2. CASE t # u
    <3>1. CanWake(t, s, tm, p, a)
      BY <1>7, <2>2 DEF ThreadsOK
    <3>2. ASSUME NEW d \in Thread, p[d] \in {"start", "insert"}, a[d] = t
          PROVE  b[d] \in {"start", "insert"} /\ e[d] = t
      BY <1>0, <2>2, <3>2
    <3> QED BY <1>1, <1>2, <2>2, <3>1, <3>2 DEF CanWake
  <2> QED BY <2>1, <2>2
<1>8. ASSUME NEW d \in Thread, b[d] \in Busy PROVE CallOK(d, r, tn, b, e)
  <2>1. CASE d = c
    BY <1>8, <2>1
  <2>2. CASE d # c
    <3>1. b[d] = p[d] /\ e[d] = a[d] /\ CallOK(d, s, tm, p, a) /\ a[d] \in Thread
      BY <1>8, <2>2 DEF ThreadsOK
    <3>2. CASE a[d] = u
      BY <1>8, <2>2, <3>1, <3>2
    <3>3. CASE a[d] # u
      <4>1. /\ r.stat[a[d]] = s.stat[a[d]]
            /\ a[d] \in InTable(r) <=> a[d] \in InTable(s)
            /\ a[d] \in r.waiting <=> a[d] \in s.waiting
            /\ a[d] \in tn <=> a[d] \in tm
        BY <1>1, <3>1, <3>3
      <4>2. r.stat[d] \in {"ready", "running", "suspend"} /\ ~Deleting(d, b, e)
        <5>1. CASE d = u
          BY <1>8, <2>2, <3>1, <5>1
        <5>2. CASE d # u
          BY <1>2, <3>1, <5>2 DEF CallOK
        <5> QED BY <5>1, <5>2
      <4>3. ASSUME NEW x \in Thread, b[x] = "start"
            PROVE  (x = c /\ e[x] # a[d]) \/ (p[x] = "start" /\ e[x] = a[x])
        <5>1. b[x] \in Busy
          BY <4>3 DEF Busy
        <5> QED BY <3>3, <4>3, <5>1
      <4> QED BY <3>1, <4>1, <4>2, <4>3 DEF CallOK
    <3> QED BY <3>2, <3>3
  <2> QED BY <2>1, <2>2
<1>9. \A x, y \in Thread : b[x] \in LifePc /\ b[y] \in LifePc /\ e[x] = e[y] => x = y
  <2>1. ASSUME NEW x \in Thread, NEW y \in Thread,
               b[x] \in LifePc, b[y] \in LifePc, e[x] = e[y]
        PROVE  x = y
    <3>1. CASE x # c /\ y # c
      BY <2>1, <3>1 DEF ThreadsOK
    <3>2. CASE x = c \/ y = c
      BY <1>0, <2>1, <3>2
    <3> QED BY <3>1, <3>2
  <2> QED BY <2>1
<1> QED BY <1>3, <1>4, <1>5, <1>6, <1>7, <1>8, <1>9 DEF ThreadsOK

-----------------------------------------------------------------------------
(* The actions.                                                            *)

LEMMA GoesFacts ==
  ASSUME Types, NEW c \in Thread, NEW x \in Busy \cup {"run", "schedule"}, Goes(c, x)
  PROVE  /\ pc' \in [Thread -> Busy \cup {"run", "schedule"}] /\ arg' \in [Thread -> Thread]
         /\ pc'[c] = x /\ arg' = arg
         /\ \A d \in Thread \ {c} : pc'[d] = pc[d] /\ arg'[d] = arg[d]
<1> DEFINE b == [pc EXCEPT ![c] = x]
<1>1. pc' = b /\ arg' = arg
  BY DEF Goes
<1>2. pc \in [Thread -> Busy \cup {"run", "schedule"}] /\ arg \in [Thread -> Thread]
  BY DEF Types
<1>3. b \in [Thread -> Busy \cup {"run", "schedule"}]
  BY <1>2
<1>4. b[c] = x /\ \A d \in Thread \ {c} : b[d] = pc[d]
  BY <1>2
<1> HIDE DEF b
<1> QED BY <1>1, <1>2, <1>3, <1>4

LEMMA GoesOnFacts ==
  ASSUME Types, NEW c \in Thread, NEW u \in Thread,
         NEW x \in Busy \cup {"run", "schedule"}, GoesOn(c, x, u)
  PROVE  /\ pc' \in [Thread -> Busy \cup {"run", "schedule"}] /\ arg' \in [Thread -> Thread]
         /\ pc'[c] = x /\ arg'[c] = u
         /\ \A d \in Thread \ {c} : pc'[d] = pc[d] /\ arg'[d] = arg[d]
<1> DEFINE b == [pc EXCEPT ![c] = x]
           e == [arg EXCEPT ![c] = u]
<1>1. pc' = b /\ arg' = e
  BY DEF GoesOn
<1>2. pc \in [Thread -> Busy \cup {"run", "schedule"}] /\ arg \in [Thread -> Thread]
  BY DEF Types
<1>3. b \in [Thread -> Busy \cup {"run", "schedule"}] /\ e \in [Thread -> Thread]
  BY <1>2
<1>4. b[c] = x /\ e[c] = u /\ \A d \in Thread \ {c} : b[d] = pc[d] /\ e[d] = arg[d]
  BY <1>2
<1> HIDE DEF b, e
<1> QED BY <1>1, <1>3, <1>4

\* What the current thread knows of itself at a place other than "schedule".
LEMMA CurrentFacts ==
  ASSUME SchedulerInv, NEW c \in Thread, NEW x, At(c, x), x # "schedule"
  PROVE  /\ sched.current = c /\ sched.stat[c] = "running" /\ pc[c] = x
         /\ sched \in SchedType /\ SchedOK(sched) /\ TableOK(sched)
         /\ c \notin InTable(sched) /\ c \notin sched.waiting /\ c \notin timer
         /\ ~Deleting(c, pc, arg)
         /\ lock = 0 /\ ~stale => Highmost(sched)
<1>1. sched.current = c /\ pc[c] = x /\ sched.stat[c] = "running"
  BY DEF At, SchedulerInv, CurrentOK
<1>2. sched \in SchedType /\ SchedOK(sched) /\ TableOK(sched)
  BY DEF SchedulerInv, ThreadsOK, SchedOK, TableOK
<1>3. c \notin InTable(sched) /\ c \notin sched.waiting /\ c \notin timer
  BY <1>1, <1>2, TableFacts DEF SchedulerInv, ThreadsOK, SchedOK
<1>4. ~Deleting(c, pc, arg)
  BY <1>1 DEF SchedulerInv, ThreadsOK, CallOK, Deleting, DeletePc, Busy
<1>5. lock = 0 /\ ~stale => Highmost(sched)
  BY <1>1 DEF SchedulerInv, HighOK
<1> QED BY <1>1, <1>2, <1>3, <1>4, <1>5

\* The thread keeps the processor, and the table loses threads at most.
LEMMA StillHigh ==
  ASSUME SchedulerInv, NEW c \in Thread, NEW x, At(c, x), x # "schedule",
         sched'.current = c, sched'.stat[c] = sched.stat[c], sched'.prio[c] = sched.prio[c],
         InTable(sched') \subseteq InTable(sched),
         \A t \in InTable(sched') : sched'.prio[t] = sched.prio[t],
         lock' = lock, stale' = stale
  PROVE  CurrentOK' /\ HighOK'
<1>1. sched.current = c /\ sched.stat[c] = "running" /\ (lock = 0 /\ ~stale => Highmost(sched))
  BY CurrentFacts
<1>2. CurrentOK'
  BY <1>1 DEF CurrentOK
<1>3. lock = 0 /\ ~stale => Highmost(sched')
  BY <1>1 DEF Highmost
<1>4. HighOK'
  BY <1>3 DEF HighOK
<1> QED BY <1>2, <1>4

\* The thread is about to schedule.
LEMMA AboutToSchedule ==
  ASSUME SchedulerInv, NEW c \in Thread, NEW x, At(c, x), x # "schedule",
         sched'.current = c, pc'[c] = "schedule",
         sched'.stat[c] = sched.stat[c] \/ lock' = 0
  PROVE  CurrentOK' /\ HighOK'
<1>1. sched.current = c /\ sched.stat[c] = "running"
  BY CurrentFacts
<1> QED BY <1>1 DEF CurrentOK, HighOK

LEMMA AfterSchedule ==
  ASSUME Types, NEW s, NEW tm, ThreadsOK(s, tm, pc, arg), Schedules(s),
         lock > 0 => s.stat[s.current] = "running", lock' = lock
  PROVE  ThreadsOK(sched', tm, pc, arg) /\ CurrentOK' /\ HighOK' /\ stale' \in BOOLEAN
<1>0. lock \in Nat /\ arg \in [Thread -> Thread] /\ stale \in BOOLEAN
  BY SchedulerAssumption DEF Types
<1> DEFINE r == rt_schedule(s)
<1>1. /\ ThreadsOK(r, tm, pc, arg)
      /\ \/ r.current = s.current /\ r.stat = s.stat
         \/ lock = 0 /\ r.stat[r.current] = "running"
      /\ lock = 0 => Highmost(r)
  BY <1>0, ScheduleKeeps
<1>2. sched' = r /\ stale' = IF lock > 0 THEN stale ELSE FALSE
  BY DEF Schedules
<1> HIDE DEF r
<1>3. r.stat[r.current] = "running"
  BY <1>0, <1>1 DEF Highmost
<1>4. CurrentOK'
  BY <1>2, <1>3 DEF CurrentOK
<1>5. HighOK'
  BY <1>1, <1>2 DEF HighOK
<1> QED BY <1>0, <1>1, <1>2, <1>4, <1>5

LEMMA DoesReschedule ==
  ASSUME SchedulerInv, NEW c \in Thread, Reschedule(c)
  PROVE  SchedulerInv'
<1>0. Types /\ ThreadsOK(sched, timer, pc, arg)
  BY DEF SchedulerInv
<1>1. /\ sched.current = c /\ pc[c] = "schedule" /\ Schedules(sched) /\ Goes(c, "run")
      /\ timer' = timer /\ lock' = lock
  BY DEF Reschedule, At
<1>2. lock > 0 => sched.stat[sched.current] = "running"
  BY <1>0, SchedulerAssumption DEF SchedulerInv, CurrentOK, Types
<1>3. ThreadsOK(sched', timer, pc, arg) /\ CurrentOK' /\ HighOK' /\ stale' \in BOOLEAN
  BY <1>0, <1>1, <1>2, AfterSchedule
<1>4. /\ pc' \in [Thread -> Busy \cup {"run", "schedule"}] /\ arg' \in [Thread -> Thread]
      /\ pc'[c] = "run"
      /\ \A d \in Thread \ {c} : pc'[d] = pc[d] /\ arg'[d] = arg[d]
  BY <1>0, <1>1, GoesFacts
<1>5. ThreadsOK(sched', timer', pc', arg')
  <2>1. \A d \in Thread : pc[d] \in Busy \/ pc'[d] \in Busy => pc'[d] = pc[d] /\ arg'[d] = arg[d]
    BY <1>1, <1>4 DEF Busy
  <2> QED BY <1>1, <1>3, <2>1, OwnStep
<1>6. Types'
  BY <1>0, <1>1, <1>3, <1>4 DEF Types
<1> QED BY <1>3, <1>5, <1>6 DEF SchedulerInv

LEMMA DoesYield ==
  ASSUME SchedulerInv, Schedules(sched), UNCHANGED <<timer, lock, pc, arg>>
  PROVE  SchedulerInv'
<1>0. Types /\ ThreadsOK(sched, timer, pc, arg)
  BY DEF SchedulerInv
<1>1. lock > 0 => sched.stat[sched.current] = "running"
  BY <1>0, SchedulerAssumption DEF SchedulerInv, CurrentOK, Types
<1>2. ThreadsOK(sched', timer, pc, arg) /\ CurrentOK' /\ HighOK' /\ stale' \in BOOLEAN
  BY <1>0, <1>1, AfterSchedule
<1>3. Types'
  BY <1>0, <1>2 DEF Types
<1> QED BY <1>2, <1>3 DEF SchedulerInv

\* A time-out or an interrupt handler wakes t and schedules.
LEMMA DoesWakeAndSchedule ==
  ASSUME SchedulerInv, Contract, NEW t \in sched.waiting \cup timer,
         timer' = timer \ {t}, Schedules(Resumed(sched, t)), UNCHANGED <<lock, pc, arg>>
  PROVE  SchedulerInv'
<1> DEFINE s == Resumed(sched, t)
<1>0. Types /\ ThreadsOK(sched, timer, pc, arg) /\ arg \in [Thread -> Thread]
  BY DEF SchedulerInv, Types
<1>1. t \in Thread /\ sched.stat[t] = "suspend" /\ ThreadsOK(s, timer', pc, arg)
  BY <1>0, IsWoken
<1>2. /\ s.current = sched.current
      /\ s.stat = [sched.stat EXCEPT ![t] = IF t = sched.current THEN "running" ELSE "ready"]
  BY <1>0, <1>1, ResumedFacts DEF ThreadsOK
<1>3. lock > 0 => sched.stat[sched.current] = "running"
  BY <1>0, SchedulerAssumption DEF SchedulerInv, CurrentOK, Types
<1> HIDE DEF s
<1>4. lock > 0 => s.stat[s.current] = "running"
  BY <1>0, <1>1, <1>2, <1>3, Fields DEF ThreadsOK, SchedOK, TableOK
<1>5. ThreadsOK(sched', timer', pc, arg) /\ CurrentOK' /\ HighOK' /\ stale' \in BOOLEAN
  BY <1>0, <1>1, <1>4, AfterSchedule DEF s
<1>6. Types'
  BY <1>0, <1>5 DEF Types
<1> QED BY <1>5, <1>6 DEF SchedulerInv

LEMMA DoesSuspendItself ==
  ASSUME SchedulerInv, Contract, NEW c \in Thread, rt_thread_sleep(c) \/ Wait(c)
  PROVE  SchedulerInv'
<1>0. Types /\ ThreadsOK(sched, timer, pc, arg) /\ arg \in [Thread -> Thread]
  BY DEF SchedulerInv, Types
<1>1. /\ At(c, "run") /\ lock = 0 /\ c \in Timed \cup Waits /\ Goes(c, "schedule")
      /\ lock' = lock /\ stale' = stale
  BY DEF rt_thread_sleep, Wait
<1>2. /\ sched.current = c /\ sched.stat[c] = "running" /\ pc[c] = "run"
      /\ SchedOK(sched) /\ c \notin timer
  BY <1>1, CurrentFacts
<1>3. /\ SchedOK(sched') /\ InTable(sched') = InTable(sched) \ {c}
      /\ sched'.stat = [sched.stat EXCEPT ![c] = "suspend"] /\ sched'.current = c
      /\ sched'.waiting \ {c} = sched.waiting \ {c} /\ (c \in sched'.waiting => c \in Waits)
      /\ timer' \ {c} = timer \ {c} /\ (c \in timer' => c \in Timed)
      /\ c \in sched'.waiting \/ c \in timer'
      /\ timer' \subseteq Thread
  <2>1. CASE rt_thread_sleep(c)
    <3>1. sched' = Suspended(sched, c) /\ timer' = timer \cup {c} /\ c \in Timed
      BY <2>1 DEF rt_thread_sleep
    <3>2. /\ SchedOK(sched') /\ InTable(sched') = InTable(sched) \ {c}
          /\ sched'.stat = [sched.stat EXCEPT ![c] = "suspend"] /\ sched'.current = c
          /\ sched'.waiting = sched.waiting \ {c}
      BY <1>2, <3>1, SuspendedFacts
    <3>3. timer \subseteq Thread
      BY <1>0 DEF Types
    <3> QED BY <3>1, <3>2, <3>3
  <2>2. CASE Wait(c)
    <3>1. timer' = timer \ {c} \/ (c \in Timed /\ timer' = timer \cup {c})
      BY <2>2 DEF Wait
    <3>2. c \in Waits /\ sched' = Enlisted(sched, c)
      BY <2>2 DEF Wait, Enlisted
    <3>3. /\ SchedOK(sched') /\ InTable(sched') = InTable(sched) \ {c}
          /\ sched'.stat = [sched.stat EXCEPT ![c] = "suspend"] /\ sched'.current = c
          /\ sched'.waiting = sched.waiting \cup {c}
      BY <1>2, <3>2, WaitFacts
    <3>4. timer \subseteq Thread
      BY <1>0 DEF Types
    <3> QED BY <3>1, <3>2, <3>3, <3>4
  <2> QED BY <1>1, <2>1, <2>2
<1>4. ThreadsOK(sched', timer', pc, arg)
  <2>1. pc[c] \notin Busy
    BY <1>2 DEF Busy
  <2> QED BY <1>0, <1>1, <1>2, <1>3, <2>1, SuspendsItself
<1>5. /\ pc' \in [Thread -> Busy \cup {"run", "schedule"}] /\ arg' \in [Thread -> Thread]
      /\ pc'[c] = "schedule"
      /\ \A d \in Thread \ {c} : pc'[d] = pc[d] /\ arg'[d] = arg[d]
  BY <1>0, <1>1, GoesFacts
<1>6. ThreadsOK(sched', timer', pc', arg')
  <2>1. \A d \in Thread : pc[d] \in Busy \/ pc'[d] \in Busy => pc'[d] = pc[d] /\ arg'[d] = arg[d]
    BY <1>2, <1>5 DEF Busy
  <2> QED BY <1>4, <2>1, OwnStep
<1>7. CurrentOK' /\ HighOK'
  <2>1. sched'.current = c /\ pc'[c] = "schedule" /\ lock' = 0
    BY <1>1, <1>3, <1>5
  <2> QED BY <2>1 DEF CurrentOK, HighOK
<1>8. Types'
  BY <1>0, <1>1, <1>3, <1>5 DEF Types
<1> QED BY <1>6, <1>7, <1>8 DEF SchedulerInv

LEMMA DoesWake ==
  ASSUME SchedulerInv, Contract, NEW c \in Thread, NEW u \in Thread, Wake(c, u)
  PROVE  SchedulerInv'
<1>0. Types /\ ThreadsOK(sched, timer, pc, arg) /\ arg \in [Thread -> Thread]
  BY DEF SchedulerInv, Types
<1>1. /\ At(c, "run") /\ u \in sched.waiting /\ sched' = Resumed(sched, u)
      /\ timer' = timer \ {u} /\ Goes(c, "schedule") /\ lock' = lock /\ stale' = stale
  BY DEF Wake
<1>2. /\ sched.current = c /\ sched.stat[c] = "running" /\ pc[c] = "run"
      /\ SchedOK(sched) /\ c \notin sched.waiting /\ sched \in SchedType
  BY <1>1, CurrentFacts
<1>3. ThreadsOK(sched', timer', pc, arg) /\ sched.stat[u] = "suspend"
  BY <1>0, <1>1, IsWoken
<1>4. /\ sched'.current = c
      /\ sched'.stat = [sched.stat EXCEPT ![u] = IF u = sched.current THEN "running" ELSE "ready"]
  BY <1>1, <1>2, <1>3, ResumedFacts
<1>5. sched'.stat[c] = sched.stat[c]
  BY <1>1, <1>2, <1>4, Fields
<1>6. /\ pc' \in [Thread -> Busy \cup {"run", "schedule"}] /\ arg' \in [Thread -> Thread]
      /\ pc'[c] = "schedule"
      /\ \A d \in Thread \ {c} : pc'[d] = pc[d] /\ arg'[d] = arg[d]
  BY <1>0, <1>1, GoesFacts
<1>7. ThreadsOK(sched', timer', pc', arg')
  <2>1. \A d \in Thread : pc[d] \in Busy \/ pc'[d] \in Busy => pc'[d] = pc[d] /\ arg'[d] = arg[d]
    BY <1>2, <1>6 DEF Busy
  <2> QED BY <1>3, <2>1, OwnStep
<1>8. CurrentOK' /\ HighOK'
  BY <1>1, <1>4, <1>5, <1>6, AboutToSchedule
<1>9. Types'
  BY <1>0, <1>1, <1>6 DEF Types
<1> QED BY <1>7, <1>8, <1>9 DEF SchedulerInv

LEMMA DoesCritical ==
  ASSUME SchedulerInv, NEW c \in Thread, rt_enter_critical(c) \/ rt_exit_critical(c)
  PROVE  SchedulerInv'
<1>0. Types /\ ThreadsOK(sched, timer, pc, arg) /\ lock \in Nat /\ MaxNest \in Nat /\ lock <= MaxNest
  BY SchedulerAssumption DEF SchedulerInv, Types
<1>1. At(c, "run") /\ sched' = sched /\ timer' = timer /\ stale' = stale
  BY DEF rt_enter_critical, rt_exit_critical
<1>2. sched.current = c /\ sched.stat[c] = "running" /\ pc[c] = "run"
  BY <1>1, CurrentFacts
<1>3. CASE pc' = pc /\ arg' = arg /\ lock' \in 1 .. MaxNest
  <2>1. CurrentOK' /\ HighOK'
    BY <1>1, <1>2, <1>3 DEF CurrentOK, HighOK
  <2>2. Types'
    BY <1>0, <1>1, <1>3 DEF Types
  <2> QED BY <1>0, <1>1, <1>3, <2>1, <2>2 DEF SchedulerInv
<1>4. CASE Goes(c, "schedule") /\ lock' = 0
  <2>1. /\ pc' \in [Thread -> Busy \cup {"run", "schedule"}] /\ arg' \in [Thread -> Thread]
        /\ pc'[c] = "schedule"
        /\ \A d \in Thread \ {c} : pc'[d] = pc[d] /\ arg'[d] = arg[d]
    BY <1>0, <1>4, GoesFacts
  <2>2. ThreadsOK(sched', timer', pc', arg')
    <3>1. \A d \in Thread : pc[d] \in Busy \/ pc'[d] \in Busy => pc'[d] = pc[d] /\ arg'[d] = arg[d]
      BY <1>2, <2>1 DEF Busy
    <3> QED BY <1>0, <1>1, <3>1, OwnStep
  <2>3. CurrentOK' /\ HighOK'
    BY <1>1, <1>2, <2>1 DEF CurrentOK, HighOK
  <2>4. Types'
    BY <1>0, <1>1, <1>4, <2>1 DEF Types
  <2> QED BY <2>2, <2>3, <2>4 DEF SchedulerInv
<1>5. CASE rt_enter_critical(c)
  <2>1. pc' = pc /\ arg' = arg /\ lock' \in 1 .. MaxNest
    BY <1>0, <1>5 DEF rt_enter_critical
  <2> QED BY <1>3, <2>1
<1>6. CASE rt_exit_critical(c)
  <2>1. lock > 0 /\ lock' = lock - 1 /\ IF lock' = 0 THEN Goes(c, "schedule") ELSE pc' = pc /\ arg' = arg
    BY <1>6 DEF rt_exit_critical
  <2>2. lock' # 0 => lock' \in 1 .. MaxNest
    BY <1>0, <2>1
  <2> QED BY <1>3, <1>4, <2>1, <2>2
<1> QED BY <1>5, <1>6

LEMMA DoesExit ==
  ASSUME SchedulerInv, Contract, NEW c \in Thread, rt_thread_exit(c)
  PROVE  SchedulerInv'
<1>0. Types /\ ThreadsOK(sched, timer, pc, arg) /\ arg \in [Thread -> Thread] /\ timer \subseteq Thread
  BY DEF SchedulerInv, Types
<1>1. /\ At(c, "run") /\ lock = 0 /\ c \in Exits /\ c \in Thread \ {idle}
      /\ sched' = Buried(rt_schedule_remove_thread(sched, c), c)
      /\ timer' = timer \ {c} /\ Goes(c, "schedule") /\ lock' = lock /\ stale' = stale
  BY SchedulerAssumption DEF rt_thread_exit
<1>2. /\ sched.current = c /\ sched.stat[c] = "running" /\ pc[c] = "run"
      /\ SchedOK(sched) /\ TableOK(sched)
  BY <1>1, CurrentFacts
<1> DEFINE m == rt_schedule_remove_thread(sched, c)
<1>3. /\ TableOK(m) /\ InTable(m) = InTable(sched) \ {c}
      /\ m.current = sched.current /\ m.stat = sched.stat /\ m.prio = sched.prio
      /\ m.waiting = sched.waiting \ {c} /\ m.defunct = sched.defunct \ {c}
  BY <1>2, RemoveThread
<1> HIDE DEF m
<1>4. /\ SchedOK(sched') /\ InTable(sched') = InTable(m)
      /\ sched'.current = sched.current
      /\ sched'.stat[c] \in {"none", "close"}
      /\ \A t \in Thread \ {c} : sched'.stat[t] = sched.stat[t]
      /\ sched'.waiting = sched.waiting \ {c}
  <2>1. c \notin InTable(m)
    BY <1>3
  <2> QED BY <1>1, <1>2, <1>3, <2>1, BuriedFacts DEF m
<1>5. /\ pc' \in [Thread -> Busy \cup {"run", "schedule"}] /\ arg' \in [Thread -> Thread]
      /\ pc'[c] = "schedule"
      /\ \A d \in Thread \ {c} : pc'[d] = pc[d] /\ arg'[d] = arg[d]
  BY <1>0, <1>1, GoesFacts
<1>6. ThreadsOK(sched', timer', pc', arg')
  <2>1. pc[c] \notin Busy /\ pc'[c] \notin Busy /\ pc'[c] \notin LifePc
    BY <1>2, <1>5 DEF Busy, LifePc
  <2>2. sched'.stat[c] # "ready" /\ sched'.stat[c] # "suspend"
    BY <1>4
  <2>3. /\ InTable(sched') \ {c} = InTable(sched) \ {c}
        /\ sched'.waiting \ {c} = sched.waiting \ {c} /\ c \notin sched'.waiting
        /\ timer' \ {c} = timer \ {c} /\ c \notin timer'
    BY <1>1, <1>3, <1>4
  <2>4. ASSUME NEW d \in Thread \ {c}, pc[d] \in Busy, arg[d] = c PROVE FALSE
    <3>1. CallOK(d, sched, timer, pc, arg)
      BY <1>0, <2>4 DEF ThreadsOK
    <3>2. pc[d] = "suspend"
      BY <1>2, <2>4, <3>1 DEF CallOK, DeletePc, Busy
    <3> QED BY <1>1, <2>4, <3>1, <3>2 DEF CallOK, Contract
  <2>5. SchedOK(sched') /\ \A t \in Thread \ {c} : sched'.stat[t] = sched.stat[t]
    BY <1>4
  <2>6. \A d \in Thread \ {c} : pc'[d] = pc[d] /\ arg'[d] = arg[d]
    BY <1>5
  <2>7. c \in Thread \ {idle}
    BY <1>1
  <2> QED BY <1>0, <2>1, <2>2, <2>3, <2>4, <2>5, <2>6, <2>7, StepOn
<1>7. CurrentOK' /\ HighOK'
  BY <1>1, <1>2, <1>4, <1>5 DEF CurrentOK, HighOK
<1>8. Types'
  BY <1>0, <1>1, <1>5 DEF Types
<1> QED BY <1>6, <1>7, <1>8 DEF SchedulerInv

LEMMA DoesCreate ==
  ASSUME SchedulerInv, NEW c \in Thread, NEW u \in Thread \ {c}, rt_thread_create(c, u)
  PROVE  SchedulerInv'
<1>0. Types /\ ThreadsOK(sched, timer, pc, arg) /\ arg \in [Thread -> Thread]
  BY DEF SchedulerInv, Types
<1>1. /\ At(c, "run") /\ sched.stat[u] = "none"
      /\ sched' = Created(sched, u) /\ Goes(u, "run")
      /\ timer' = timer /\ lock' = lock /\ stale' = stale
  BY DEF rt_thread_create, Created, Goes
<1>2. /\ sched.current = c /\ sched.stat[c] = "running" /\ pc[c] = "run"
      /\ SchedOK(sched) /\ TableOK(sched) /\ sched \in SchedType
      /\ u # idle
  BY <1>0, <1>1, CurrentFacts DEF ThreadsOK
<1>3. /\ SchedOK(sched') /\ InTable(sched') = InTable(sched)
      /\ sched'.current = sched.current /\ sched'.prio = [sched.prio EXCEPT ![u] = InitPrio[u]]
      /\ sched'.stat = [sched.stat EXCEPT ![u] = "init"]
      /\ sched'.waiting = sched.waiting
  BY <1>1, <1>2, CreatedFacts
<1>4. /\ sched'.stat[u] = "init"
      /\ \A t \in Thread \ {u} : sched'.stat[t] = sched.stat[t] /\ sched'.prio[t] = sched.prio[t]
  BY <1>2, <1>3, Fields
<1>5. u \notin sched.waiting /\ u \notin timer /\ u \notin InTable(sched)
  BY <1>0, <1>1, <1>2, TableFacts DEF ThreadsOK, SchedOK
<1>6. /\ pc' \in [Thread -> Busy \cup {"run", "schedule"}] /\ arg' \in [Thread -> Thread]
      /\ pc'[u] = "run"
      /\ \A d \in Thread \ {u} : pc'[d] = pc[d] /\ arg'[d] = arg[d]
  BY <1>0, <1>1, GoesFacts
<1>7. ThreadsOK(sched', timer', pc', arg')
  <2>1. pc[u] \notin Busy
    BY <1>0, <1>1 DEF ThreadsOK, CallOK
  <2>2. pc'[u] \notin Busy /\ pc'[u] \notin LifePc
    BY <1>6 DEF Busy, LifePc
  <2>3. ASSUME NEW d \in Thread \ {u}, pc[d] \in Busy, arg[d] = u PROVE FALSE
    <3>1. CallOK(d, sched, timer, pc, arg)
      BY <1>0, <2>3 DEF ThreadsOK
    <3> QED BY <1>1, <2>3, <3>1 DEF CallOK, DeletePc, Busy
  <2>4. sched'.stat[u] # "ready" /\ sched'.stat[u] # "suspend"
    BY <1>4
  <2>5. /\ InTable(sched') \ {u} = InTable(sched) \ {u}
        /\ sched'.waiting \ {u} = sched.waiting \ {u} /\ u \notin sched'.waiting
        /\ timer' \ {u} = timer \ {u} /\ u \notin timer'
    BY <1>1, <1>3, <1>5
  <2>6. u \in Thread \ {idle} /\ SchedOK(sched')
    BY <1>2, <1>3
  <2>7. \A t \in Thread \ {u} : sched'.stat[t] = sched.stat[t]
    BY <1>4
  <2>8. \A d \in Thread \ {u} : pc'[d] = pc[d] /\ arg'[d] = arg[d]
    BY <1>6
  <2> QED BY <1>0, <2>1, <2>2, <2>3, <2>4, <2>5, <2>6, <2>7, <2>8, StepOn
<1>8. CurrentOK' /\ HighOK'
  <2>1. \A t \in InTable(sched') : sched'.prio[t] = sched.prio[t]
    BY <1>3, <1>4, <1>5 DEF InTable
  <2> QED BY <1>1, <1>2, <1>3, <1>4, <2>1, StillHigh
<1>9. Types'
  BY <1>0, <1>1, <1>6 DEF Types
<1> QED BY <1>7, <1>8, <1>9 DEF SchedulerInv

LEMMA DoesStartup ==
  ASSUME SchedulerInv, NEW c \in Thread, NEW u \in Thread \ {c}, rt_thread_startup(c, u)
  PROVE  SchedulerInv'
<1>0. Types /\ ThreadsOK(sched, timer, pc, arg) /\ arg \in [Thread -> Thread]
  BY DEF SchedulerInv, Types
<1>1. /\ At(c, "run") /\ sched.stat[u] = "init" /\ ~LifeCall(u)
      /\ sched' = Started(sched, u) /\ timer' = timer \ {u} /\ GoesOn(c, "start", u)
      /\ lock' = lock /\ stale' = stale
  BY DEF rt_thread_startup, Started
<1>2. /\ sched.current = c /\ sched.stat[c] = "running" /\ pc[c] = "run"
      /\ SchedOK(sched) /\ TableOK(sched) /\ sched \in SchedType
      /\ ~Deleting(c, pc, arg)
  BY <1>0, <1>1, CurrentFacts
<1>3. /\ SchedOK(sched') /\ InTable(sched') = InTable(sched)
      /\ sched'.current = sched.current /\ sched'.prio = [sched.prio EXCEPT ![u] = InitPrio[u]]
      /\ sched'.stat = [sched.stat EXCEPT ![u] = "suspend"]
      /\ sched'.waiting = sched.waiting
  BY <1>1, <1>2, StartedFacts
<1>4. /\ sched'.stat[u] = "suspend"
      /\ \A t \in Thread \ {u} : sched'.stat[t] = sched.stat[t] /\ sched'.prio[t] = sched.prio[t]
  BY <1>2, <1>3, Fields
<1>5. u \notin sched.waiting /\ u \notin InTable(sched) /\ u \in Thread \ {idle}
  BY <1>0, <1>1, <1>2, TableFacts DEF ThreadsOK, SchedOK
<1>6. /\ pc' \in [Thread -> Busy \cup {"run", "schedule"}] /\ arg' \in [Thread -> Thread]
      /\ pc'[c] = "start" /\ arg'[c] = u
      /\ \A d \in Thread \ {c} : pc'[d] = pc[d] /\ arg'[d] = arg[d]
  BY <1>0, <1>1, GoesOnFacts DEF Busy
<1>7. ThreadsOK(sched', timer', pc', arg')
  <2>1. pc[c] \notin Busy /\ pc'[c] \notin DeletePc /\ pc'[c] \in Busy
    BY <1>2, <1>6 DEF Busy, DeletePc
  <2>2. \A d \in Thread \ {c} : pc[d] \in LifePc => arg[d] # u
    BY <1>1 DEF LifeCall, LifePc
  <2>3. ASSUME NEW d \in Thread \ {c}, pc[d] \in Busy, arg[d] = u PROVE FALSE
    <3>1. CallOK(d, sched, timer, pc, arg)
      BY <1>0, <2>3 DEF ThreadsOK
    <3>2. pc[d] \notin LifePc
      BY <2>2, <2>3
    <3> QED BY <1>1, <2>3, <3>1, <3>2 DEF CallOK, LifePc, Busy
  <2>4. pc[u] \notin Busy
    BY <1>0, <1>1 DEF ThreadsOK, CallOK
  <2>5. /\ InTable(sched') \ {u} = InTable(sched) \ {u}
        /\ sched'.waiting \ {u} = sched.waiting \ {u} /\ u \notin sched'.waiting
        /\ timer' \ {u} = timer \ {u} /\ u \notin timer'
    BY <1>1, <1>3, <1>5
  <2>6. CanWake(u, sched', timer', pc', arg')
    BY <1>6 DEF CanWake
  <2>7. ~Deleting(c, pc', arg')
    BY <1>2, <1>6, <2>1 DEF Deleting
  <2>8. CallOK(c, sched', timer', pc', arg')
    BY <1>2, <1>4, <1>5, <1>6, <2>5, <2>7 DEF CallOK, DeletePc
  <2>9. \A t \in Thread \ {u} : sched'.stat[t] = sched.stat[t]
    BY <1>4
  <2>10. \A d \in Thread \ {c} : pc'[d] = pc[d] /\ arg'[d] = arg[d]
    BY <1>6
  <2>11. u \in Thread \ {idle} /\ SchedOK(sched') /\ sched'.stat[u] # "ready" /\ arg'[c] = u
    BY <1>3, <1>4, <1>5, <1>6
  <2> QED BY <1>0, <2>1, <2>2, <2>3, <2>4, <2>5, <2>6, <2>8, <2>9, <2>10, <2>11, StepOn
<1>8. CurrentOK' /\ HighOK'
  <2>1. \A t \in InTable(sched') : sched'.prio[t] = sched.prio[t]
    BY <1>3, <1>4, <1>5 DEF InTable
  <2> QED BY <1>1, <1>2, <1>3, <1>4, <2>1, StillHigh
<1>9. Types'
  BY <1>0, <1>1, <1>6 DEF Types
<1> QED BY <1>7, <1>8, <1>9 DEF SchedulerInv

\* The thread of c's call has one manager, nobody deletes it, and it is in no
\* list of an IPC object and has no timer.
LEMMA ManagedFacts ==
  ASSUME Contract, Types, ThreadsOK(sched, timer, pc, arg),
         NEW c \in Thread, NEW u \in Thread, <<c, u>> \in Manages
  PROVE  /\ u # idle /\ u \notin sched.waiting /\ u \notin timer
         /\ ~Deleting(u, pc, arg)
         /\ \A d \in Thread \ {c} : pc[d] \in Busy /\ arg[d] = u => pc[d] = "start"
<1>1. u # idle
  BY SchedulerAssumption
<1>2. u \notin Timed /\ u \notin Waits /\ \A d \in Thread : <<d, u>> \notin Deletes
  BY DEF Contract
<1>3. u \notin sched.waiting /\ u \notin timer
  BY <1>2 DEF ThreadsOK
<1>4. ~Deleting(u, pc, arg)
  BY <1>2 DEF Deleting, ThreadsOK, CallOK, DeletePc, Busy
<1>5. ASSUME NEW d \in Thread \ {c}, pc[d] \in Busy, arg[d] = u PROVE pc[d] = "start"
  <2>1. CallOK(d, sched, timer, pc, arg)
    BY <1>5 DEF ThreadsOK
  <2>2. <<d, u>> \notin Manages
    BY DEF Contract
  <2> QED BY <1>2, <1>5, <2>1, <2>2 DEF CallOK, DeletePc, Busy
<1> QED BY <1>1, <1>3, <1>4, <1>5

\* rt_thread_resume and rt_thread_suspend look at the status first.
LEMMA DoesLook ==
  ASSUME SchedulerInv, Contract, Considerate, NEW c \in Thread, NEW u \in Thread \ {c},
         rt_thread_resume(c, u) \/ rt_thread_suspend(c, u)
  PROVE  SchedulerInv'
<1>0. Types /\ ThreadsOK(sched, timer, pc, arg) /\ arg \in [Thread -> Thread]
  BY DEF SchedulerInv, Types
<1> DEFINE x == IF sched.stat[u] = "suspend" THEN "unlink" ELSE "suspend"
<1>1. /\ At(c, "run") /\ <<c, u>> \in Manages /\ sched.stat[u] \in {"suspend", "ready"}
      /\ GoesOn(c, x, u)
      /\ sched' = sched /\ timer' = timer /\ lock' = lock /\ stale' = stale
  BY DEF rt_thread_resume, rt_thread_suspend
<1>x. /\ (x = "unlink" /\ sched.stat[u] = "suspend") \/ (x = "suspend" /\ sched.stat[u] = "ready")
      /\ x = "unlink" => ~LifeCall(u)
  BY <1>1 DEF rt_thread_resume, rt_thread_suspend, Considerate
<1> HIDE DEF x
<1>2. /\ sched.current = c /\ sched.stat[c] = "running" /\ pc[c] = "run"
      /\ SchedOK(sched) /\ ~Deleting(c, pc, arg)
  BY <1>0, <1>1, CurrentFacts
<1>3. /\ pc' \in [Thread -> Busy \cup {"run", "schedule"}] /\ arg' \in [Thread -> Thread]
      /\ pc'[c] = x /\ arg'[c] = u
      /\ \A d \in Thread \ {c} : pc'[d] = pc[d] /\ arg'[d] = arg[d]
  <2>1. x \in Busy
    BY <1>x DEF Busy
  <2> QED BY <1>0, <1>1, <2>1, GoesOnFacts
<1>4. /\ u # idle /\ u \notin sched.waiting /\ u \notin timer /\ ~Deleting(u, pc, arg)
      /\ \A d \in Thread \ {c} : pc[d] \in Busy /\ arg[d] = u => pc[d] = "start"
  BY <1>0, <1>1, ManagedFacts
<1>5. ThreadsOK(sched', timer', pc', arg')
  <2>1. /\ pc[c] \notin Busy /\ pc'[c] \in Busy /\ pc'[c] \notin LifePc
        /\ pc[c] \notin DeletePc /\ pc'[c] \notin DeletePc
        /\ pc'[c] \in {"unlink", "suspend"}
    BY <1>2, <1>3, <1>x DEF Busy, LifePc, DeletePc
  <2>2. ~Deleting(c, pc', arg') /\ ~Deleting(u, pc', arg')
    BY <1>2, <1>3, <1>4, <2>1 DEF Deleting
  <2>3. CallOK(c, sched', timer', pc', arg')
    <3>1. \A d \in Thread : x = "unlink" /\ pc'[d] = "start" => arg'[d] # u
      BY <1>x, <1>3 DEF LifeCall
    <3> QED BY <1>1, <1>2, <1>3, <1>4, <1>x, <2>1, <2>2, <3>1 DEF CallOK
  <2>4. CanWake(u, sched', timer', pc', arg')
    BY <1>1 DEF CanWake
  <2>5. sched.stat[u] = "ready" => u \in InTable(sched)
    BY <1>0, <1>4 DEF ThreadsOK
  <2>6. ASSUME NEW d \in Thread \ {c}, pc[d] \in Busy, arg[d] = u
        PROVE  CallOK(d, sched', timer', pc', arg')
    <3>1. CallOK(d, sched, timer, pc, arg) /\ pc[d] = "start"
      BY <1>0, <1>4, <2>6 DEF ThreadsOK
    <3>2. Deleting(d, pc', arg') => Deleting(d, pc, arg)
      BY <1>3, <2>1 DEF Deleting
    <3>3. pc'[d] = "start" /\ arg'[d] = arg[d]
      BY <1>3, <3>1
    <3> QED BY <1>1, <3>1, <3>2, <3>3 DEF CallOK, DeletePc
  <2>7. \A d \in Thread \ {c} : pc'[d] = pc[d] /\ arg'[d] = arg[d]
    BY <1>3
  <2>8. sched.stat[u] \in {"ready", "running", "suspend"} /\ u \in Thread \ {idle} /\ arg'[c] = u
    BY <1>1, <1>3, <1>4
  <2> QED BY <1>0, <1>1, <1>2, <1>4, <2>1, <2>2, <2>3, <2>4, <2>5, <2>6, <2>7, <2>8, StepOn
<1>6. CurrentOK' /\ HighOK'
  BY <1>1, <1>2, StillHigh
<1>7. Types'
  BY <1>0, <1>1, <1>3 DEF Types
<1> QED BY <1>5, <1>6, <1>7 DEF SchedulerInv

LEMMA DoesResumeUnlinks ==
  ASSUME SchedulerInv, Contract, NEW c \in Thread, ResumeUnlinks(c)
  PROVE  SchedulerInv'
<1>0. Types /\ ThreadsOK(sched, timer, pc, arg) /\ arg \in [Thread -> Thread]
  BY DEF SchedulerInv, Types
<1>1. PICK u \in Thread : u = arg[c]
  BY <1>0
<1>2. /\ At(c, "unlink") /\ sched' = Unlink(sched, u) /\ timer' = timer \ {u}
      /\ Goes(c, "insert") /\ lock' = lock /\ stale' = stale
  BY <1>1 DEF ResumeUnlinks
<1>3. /\ sched.current = c /\ sched.stat[c] = "running" /\ pc[c] = "unlink"
      /\ SchedOK(sched) /\ TableOK(sched) /\ ~Deleting(c, pc, arg)
  BY <1>2, CurrentFacts
<1>4. /\ <<c, u>> \in Manages /\ sched.stat[u] = "suspend" /\ u # c
      /\ \A d \in Thread : pc[d] = "start" => arg[d] # u
  BY <1>0, <1>1, <1>3 DEF ThreadsOK, CallOK, Busy
<1>5. /\ u # idle /\ u \notin sched.waiting /\ u \notin timer /\ ~Deleting(u, pc, arg)
      /\ \A d \in Thread \ {c} : pc[d] \in Busy => arg[d] # u
  BY <1>0, <1>4, ManagedFacts
<1>6. /\ SchedOK(sched') /\ InTable(sched') = InTable(sched)
      /\ sched'.current = sched.current /\ sched'.stat = sched.stat /\ sched'.prio = sched.prio
      /\ sched'.waiting = sched.waiting
  <2>1. u \notin InTable(sched)
    BY <1>3, <1>4, TableFacts
  <2>2. /\ TableOK(sched') /\ InTable(sched') = InTable(sched)
        /\ sched'.current = sched.current /\ sched'.stat = sched.stat /\ sched'.prio = sched.prio
        /\ sched'.waiting = sched.waiting \ {u} /\ sched'.defunct = sched.defunct \ {u}
    BY <1>2, <1>3, <2>1, UnlinkOutside
  <2> QED BY <1>3, <1>5, <2>2 DEF SchedOK
<1>7. /\ pc' \in [Thread -> Busy \cup {"run", "schedule"}] /\ arg' \in [Thread -> Thread]
      /\ pc'[c] = "insert" /\ arg'[c] = u
      /\ \A d \in Thread \ {c} : pc'[d] = pc[d] /\ arg'[d] = arg[d]
  BY <1>0, <1>1, <1>2, GoesFacts DEF Busy
<1>8. ThreadsOK(sched', timer', pc', arg')
  <2>1. pc[c] \notin LifePc /\ pc'[c] \notin LifePc /\ pc[c] \notin DeletePc /\ pc'[c] \notin DeletePc
    BY <1>3, <1>7 DEF LifePc, DeletePc
  <2>2. ~Deleting(c, pc', arg') /\ ~Deleting(u, pc', arg')
    BY <1>3, <1>5, <1>7, <2>1 DEF Deleting
  <2>3. CallOK(c, sched', timer', pc', arg')
    <3>1. \A d \in Thread : pc'[d] = "start" => arg'[d] # u
      BY <1>4, <1>7
    <3> QED BY <1>3, <1>4, <1>5, <1>6, <1>7, <2>1, <2>2, <3>1 DEF CallOK
  <2>4. CanWake(u, sched', timer', pc', arg')
    BY <1>4 DEF CanWake
  <2>5. timer' = timer
    BY <1>2, <1>5
  <2>6. sched'.stat[u] = "suspend" /\ u \in Thread \ {idle} /\ arg[c] = u /\ arg'[c] = u
    BY <1>1, <1>4, <1>5, <1>6, <1>7
  <2>7. \A d \in Thread \ {c} : pc'[d] = pc[d] /\ arg'[d] = arg[d]
    BY <1>7
  <2> QED BY <1>0, <1>5, <1>6, <2>1, <2>2, <2>3, <2>4, <2>5, <2>6, <2>7, StepOn
<1>9. CurrentOK' /\ HighOK'
  BY <1>2, <1>3, <1>6, StillHigh
<1>10. Types'
  BY <1>0, <1>2, <1>7 DEF Types
<1> QED BY <1>8, <1>9, <1>10 DEF SchedulerInv

LEMMA DoesResumeInserts ==
  ASSUME SchedulerInv, Contract, NEW c \in Thread, ResumeInserts(c)
  PROVE  SchedulerInv'
<1>0. Types /\ ThreadsOK(sched, timer, pc, arg) /\ arg \in [Thread -> Thread]
  BY DEF SchedulerInv, Types
<1>1. PICK u \in Thread : u = arg[c]
  BY <1>0
<1>2. /\ At(c, pc[c]) /\ pc[c] \in {"start", "insert"}
      /\ sched' = rt_schedule_insert_thread(sched, u)
      /\ Goes(c, "schedule") /\ timer' = timer /\ lock' = lock /\ stale' = stale
  BY <1>1 DEF ResumeInserts, At
<1>3. /\ sched.current = c /\ sched.stat[c] = "running" /\ sched \in SchedType
      /\ SchedOK(sched) /\ TableOK(sched)
  BY <1>2, CurrentFacts
<1>4. CallOK(c, sched, timer, pc, arg)
  BY <1>0, <1>2 DEF ThreadsOK, Busy
<1>5. /\ sched.stat[u] = "suspend" /\ u # c /\ u # idle
      /\ u \notin sched.waiting /\ u \notin timer
      /\ \A d \in Thread \ {c} : pc[d] \in Busy => arg[d] # u
  <2>1. u # c /\ u # idle /\ sched.stat[u] = "suspend"
    BY <1>1, <1>2, <1>4 DEF CallOK
  <2>2. CASE pc[c] = "start"
    <3>1. u \notin sched.waiting /\ u \notin timer
      BY <1>1, <1>4, <2>2 DEF CallOK
    <3>2. ASSUME NEW d \in Thread \ {c}, pc[d] \in Busy, arg[d] = u PROVE FALSE
      <4>1. CallOK(d, sched, timer, pc, arg)
        BY <1>0, <3>2 DEF ThreadsOK
      <4>2. pc[d] \notin LifePc
        BY <1>0, <1>1, <2>2, <3>2 DEF ThreadsOK, LifePc
      <4>3. pc[d] \notin {"unlink", "insert"}
        BY <1>1, <2>2, <3>2, <4>1 DEF CallOK
      <4>4. pc[d] # "suspend"
        BY <2>1, <3>2, <4>1 DEF CallOK
      <4> QED BY <3>2, <4>2, <4>3, <4>4 DEF LifePc, Busy
    <3> QED BY <2>1, <3>1, <3>2
  <2>3. CASE pc[c] = "insert"
    <3>1. <<c, u>> \in Manages /\ \A d \in Thread : pc[d] = "start" => arg[d] # u
      BY <1>1, <1>4, <2>3 DEF CallOK
    <3> QED BY <1>0, <2>1, <3>1, ManagedFacts
  <2> QED BY <1>2, <2>2, <2>3
<1>6. /\ SchedOK(sched') /\ InTable(sched') = InTable(sched) \cup {u}
      /\ sched'.current = sched.current /\ sched'.waiting = sched.waiting
      /\ sched'.stat[u] = "ready" /\ \A t \in Thread \ {u} : sched'.stat[t] = sched.stat[t]
  <2>1. u \notin InTable(sched)
    BY <1>3, <1>5, TableFacts
  <2>2. /\ TableOK(sched') /\ InTable(sched') = InTable(sched) \cup {u}
        /\ sched'.stat = [sched.stat EXCEPT ![u] = "ready"]
        /\ sched'.current = sched.current
        /\ sched'.waiting = sched.waiting /\ sched'.defunct = sched.defunct
    BY <1>2, <1>3, <1>5, <2>1, InsertThread
  <2>3. sched'.stat[u] = "ready" /\ \A t \in Thread \ {u} : sched'.stat[t] = sched.stat[t]
    BY <1>3, <2>2, Fields
  <2>4. sched.waiting \subseteq Thread /\ sched.defunct \subseteq Thread /\ u \notin sched.defunct
    BY <1>3, <1>5, Fields DEF SchedOK
  <2> QED BY <1>3, <1>5, <2>2, <2>3, <2>4 DEF SchedOK
<1>7. /\ pc' \in [Thread -> Busy \cup {"run", "schedule"}] /\ arg' \in [Thread -> Thread]
      /\ pc'[c] = "schedule"
      /\ \A d \in Thread \ {c} : pc'[d] = pc[d] /\ arg'[d] = arg[d]
  BY <1>0, <1>2, GoesFacts
<1>8. ThreadsOK(sched', timer', pc', arg')
  <2>1. /\ pc[c] \notin DeletePc /\ pc'[c] \notin LifePc /\ pc'[c] \notin DeletePc
        /\ pc'[c] \notin Busy
    BY <1>2, <1>7 DEF LifePc, DeletePc, Busy
  <2>2. ~Deleting(u, pc', arg')
    BY <1>5, <1>7, <2>1 DEF Deleting, DeletePc, Busy
  <2>3. InTable(sched') \ {u} = InTable(sched) \ {u} /\ u \in InTable(sched')
    BY <1>6
  <2>4. sched'.stat[u] = "ready" /\ u \in Thread \ {idle} /\ arg[c] = u
    BY <1>1, <1>5, <1>6
  <2>5. \A d \in Thread \ {c} : pc'[d] = pc[d] /\ arg'[d] = arg[d]
    BY <1>7
  <2>6. sched'.waiting = sched.waiting /\ timer' = timer /\ SchedOK(sched')
        /\ \A t \in Thread \ {u} : sched'.stat[t] = sched.stat[t]
    BY <1>2, <1>6
  <2> QED BY <1>0, <1>5, <2>1, <2>2, <2>3, <2>4, <2>5, <2>6, StepOn
<1>9. CurrentOK' /\ HighOK'
  <2>1. sched'.current = c /\ pc'[c] = "schedule" /\ sched'.stat[c] = sched.stat[c]
    BY <1>3, <1>5, <1>6, <1>7
  <2> QED BY <1>2, <2>1, AboutToSchedule
<1>10. Types'
  BY <1>0, <1>2, <1>7 DEF Types
<1> QED BY <1>8, <1>9, <1>10 DEF SchedulerInv

LEMMA DoesSuspendRemoves ==
  ASSUME SchedulerInv, Contract, NEW c \in Thread, SuspendRemoves(c)
  PROVE  SchedulerInv'
<1>0. Types /\ ThreadsOK(sched, timer, pc, arg) /\ arg \in [Thread -> Thread]
  BY DEF SchedulerInv, Types
<1>1. PICK u \in Thread : u = arg[c]
  BY <1>0
<1>2. /\ At(c, "suspend") /\ sched' = Suspended(sched, u) /\ timer' = timer \ {u}
      /\ Goes(c, "run") /\ lock' = lock /\ stale' = stale
  BY <1>1 DEF SuspendRemoves
<1>3. /\ sched.current = c /\ sched.stat[c] = "running" /\ pc[c] = "suspend"
      /\ SchedOK(sched) /\ sched \in SchedType
  BY <1>2, CurrentFacts
<1>4. <<c, u>> \in Manages /\ sched.stat[u] \in {"ready", "running"} /\ u # c
  BY <1>0, <1>1, <1>3 DEF ThreadsOK, CallOK, Busy
<1>5. /\ u # idle /\ u \notin sched.waiting /\ u \notin timer /\ ~Deleting(u, pc, arg)
      /\ \A d \in Thread \ {c} : pc[d] \in Busy => arg[d] # u
  <2>1. /\ u # idle /\ u \notin sched.waiting /\ u \notin timer /\ ~Deleting(u, pc, arg)
        /\ \A d \in Thread \ {c} : pc[d] \in Busy /\ arg[d] = u => pc[d] = "start"
    BY <1>0, <1>4, ManagedFacts
  <2>2. \A d \in Thread : pc[d] = "start" => arg[d] # u
    BY <1>0, <1>4 DEF ThreadsOK, CallOK, Busy
  <2> QED BY <2>1, <2>2
<1>6. /\ SchedOK(sched') /\ InTable(sched') = InTable(sched) \ {u}
      /\ sched'.current = sched.current /\ sched'.prio = sched.prio
      /\ sched'.stat = [sched.stat EXCEPT ![u] = "suspend"]
      /\ sched'.waiting = sched.waiting \ {u}
  BY <1>2, <1>3, SuspendedFacts
<1>7. sched'.stat[u] = "suspend" /\ \A t \in Thread \ {u} : sched'.stat[t] = sched.stat[t]
  BY <1>3, <1>6, Fields
<1>8. /\ pc' \in [Thread -> Busy \cup {"run", "schedule"}] /\ arg' \in [Thread -> Thread]
      /\ pc'[c] = "run"
      /\ \A d \in Thread \ {c} : pc'[d] = pc[d] /\ arg'[d] = arg[d]
  BY <1>0, <1>2, GoesFacts
<1>9. ThreadsOK(sched', timer', pc', arg')
  <2>1. /\ pc[c] \notin DeletePc /\ pc'[c] \notin LifePc /\ pc'[c] \notin DeletePc
        /\ pc'[c] \notin Busy
    BY <1>3, <1>8 DEF LifePc, DeletePc, Busy
  <2>2. ~Deleting(u, pc', arg')
    BY <1>5, <1>8, <2>1 DEF Deleting, DeletePc, Busy
  <2>3. CanWake(u, sched', timer', pc', arg')
    BY <1>4 DEF CanWake
  <2>4. /\ InTable(sched') \ {u} = InTable(sched) \ {u}
        /\ sched'.waiting = sched.waiting /\ timer' = timer
    BY <1>2, <1>5, <1>6
  <2>5. sched'.stat[u] = "suspend" /\ u \in Thread \ {idle} /\ arg[c] = u
    BY <1>1, <1>5, <1>7
  <2>6. \A d \in Thread \ {c} : pc'[d] = pc[d] /\ arg'[d] = arg[d]
    BY <1>8
  <2>7. SchedOK(sched') /\ \A t \in Thread \ {u} : sched'.stat[t] = sched.stat[t]
    BY <1>6, <1>7
  <2> QED BY <1>0, <1>5, <2>1, <2>2, <2>3, <2>4, <2>5, <2>6, <2>7, StepOn
<1>10. CurrentOK' /\ HighOK'
  BY <1>2, <1>3, <1>4, <1>6, <1>7, StillHigh
<1>11. Types'
  BY <1>0, <1>2, <1>8 DEF Types
<1> QED BY <1>9, <1>10, <1>11 DEF SchedulerInv

LEMMA DoesControl ==
  ASSUME SchedulerInv, Contract, NEW c \in Thread, NEW u \in Thread \ {c},
         rt_thread_control(c, u)
  PROVE  SchedulerInv'
<1>0. Types /\ ThreadsOK(sched, timer, pc, arg) /\ arg \in [Thread -> Thread]
  BY DEF SchedulerInv, Types
<1>1. /\ At(c, "run") /\ <<c, u>> \in Boosts
      /\ timer' = timer /\ lock' = lock /\ pc' = pc /\ arg' = arg /\ stale' = TRUE
  BY DEF rt_thread_control
<1>2. PICK p \in Prios : sched' = Reprio(sched, u, p)
  BY DEF rt_thread_control
<1>3. sched.current = c /\ sched.stat[c] = "running" /\ SchedOK(sched)
  BY <1>1, CurrentFacts
<1>4. sched.stat[u] = "ready" => u \in InTable(sched)
  <2>1. ~Deleting(u, pc, arg)
    BY <1>0, <1>1 DEF Deleting, ThreadsOK, CallOK, Contract, DeletePc, Busy
  <2> QED BY <1>0, <2>1 DEF ThreadsOK
<1>5. /\ SchedOK(sched') /\ InTable(sched') = InTable(sched)
      /\ sched'.current = sched.current /\ sched'.stat = sched.stat
      /\ sched'.waiting = sched.waiting
  BY <1>2, <1>3, <1>4, ReprioFacts
<1>6. ThreadsOK(sched', timer', pc', arg')
  <2>1. \A d \in Thread : CallOK(d, sched, timer, pc, arg) => CallOK(d, sched', timer, pc, arg)
    BY <1>5 DEF CallOK
  <2>2. \A t \in Thread : CanWake(t, sched, timer, pc, arg) => CanWake(t, sched', timer, pc, arg)
    BY <1>5 DEF CanWake
  <2> QED BY <1>0, <1>1, <1>5, <2>1, <2>2 DEF ThreadsOK
<1>7. CurrentOK' /\ HighOK'
  BY <1>1, <1>3, <1>5 DEF CurrentOK, HighOK
<1>8. Types'
  BY <1>0, <1>1 DEF Types
<1> QED BY <1>6, <1>7, <1>8 DEF SchedulerInv

\* A thread that is deleted is not managed and has no timer, and nobody is in a
\* call on it but its deleter.
LEMMA DeletedFacts ==
  ASSUME Contract, Types, ThreadsOK(sched, timer, pc, arg),
         NEW c \in Thread, NEW u \in Thread, <<c, u>> \in Deletes,
         \A d \in Thread \ {c} : pc[d] \in LifePc => arg[d] # u
  PROVE  /\ u # idle /\ u \notin timer
         /\ \A d \in Thread \ {c} : pc[d] \in Busy => arg[d] # u
<1>1. u # idle
  BY SchedulerAssumption
<1>2. u \notin timer
  BY DEF Contract, ThreadsOK
<1>3. ASSUME NEW d \in Thread \ {c}, pc[d] \in Busy, arg[d] = u PROVE FALSE
  <2>1. CallOK(d, sched, timer, pc, arg)
    BY <1>3 DEF ThreadsOK
  <2>2. <<d, u>> \notin Manages
    BY DEF Contract
  <2> QED BY <1>3, <2>1, <2>2 DEF CallOK, LifePc, Busy
<1> QED BY <1>1, <1>2, <1>3

LEMMA DoesDeleteRemoves ==
  ASSUME SchedulerInv, Contract, Considerate, NEW c \in Thread, NEW u \in Thread \ {c},
         DeleteRemoves(c, u)
  PROVE  SchedulerInv'
<1>0. Types /\ ThreadsOK(sched, timer, pc, arg) /\ arg \in [Thread -> Thread]
  BY DEF SchedulerInv, Types
<1>1. /\ At(c, "run") /\ <<c, u>> \in Deletes
      /\ sched.stat[u] \notin {"none", "close"} /\ ~LifeCall(u)
      /\ sched' = IF sched.stat[u] = "init" THEN sched ELSE rt_schedule_remove_thread(sched, u)
      /\ GoesOn(c, "delete", u)
      /\ timer' = timer /\ lock' = lock /\ stale' = stale
      /\ pc[u] \notin Busy
  BY DEF DeleteRemoves, Considerate
<1>2. /\ sched.current = c /\ sched.stat[c] = "running" /\ pc[c] = "run"
      /\ SchedOK(sched) /\ TableOK(sched) /\ sched \in SchedType
      /\ ~Deleting(c, pc, arg)
  BY <1>0, <1>1, CurrentFacts
<1>3. sched.stat[u] \in {"init", "ready", "suspend"}
  BY <1>1, <1>2, Fields DEF SchedOK, Stat
<1>4. /\ u # idle /\ u \notin timer
      /\ \A d \in Thread \ {c} : pc[d] \in LifePc => arg[d] # u
      /\ \A d \in Thread \ {c} : pc[d] \in Busy => arg[d] # u
  <2>1. \A d \in Thread \ {c} : pc[d] \in LifePc => arg[d] # u
    BY <1>1 DEF LifeCall, LifePc
  <2> QED BY <1>0, <1>1, <2>1, DeletedFacts
<1>5. /\ SchedOK(sched') /\ InTable(sched') = InTable(sched) \ {u}
      /\ sched'.current = sched.current /\ sched'.stat = sched.stat /\ sched'.prio = sched.prio
      /\ sched'.waiting = sched.waiting \ {u}
  <2>1. CASE sched.stat[u] = "init"
    <3>1. u \notin InTable(sched) /\ u \notin sched.waiting
      BY <1>2, <2>1, TableFacts DEF SchedOK
    <3> QED BY <1>1, <1>2, <2>1, <3>1
  <2>2. CASE sched.stat[u] # "init"
    <3>1. sched' = rt_schedule_remove_thread(sched, u)
      BY <1>1, <2>2
    <3>2. /\ TableOK(sched') /\ InTable(sched') = InTable(sched) \ {u}
          /\ sched'.current = sched.current /\ sched'.stat = sched.stat
          /\ sched'.prio = sched.prio
          /\ sched'.waiting = sched.waiting \ {u} /\ sched'.defunct = sched.defunct \ {u}
      BY <1>2, <3>1, RemoveThread
    <3> QED BY <1>2, <3>2 DEF SchedOK
  <2> QED BY <2>1, <2>2
<1>6. /\ pc' \in [Thread -> Busy \cup {"run", "schedule"}] /\ arg' \in [Thread -> Thread]
      /\ pc'[c] = "delete" /\ arg'[c] = u
      /\ \A d \in Thread \ {c} : pc'[d] = pc[d] /\ arg'[d] = arg[d]
  BY <1>0, <1>1, GoesOnFacts DEF Busy
<1>7. ThreadsOK(sched', timer', pc', arg')
  <2>1. pc[c] \notin Busy /\ pc'[c] \in Busy /\ pc'[c] \in DeletePc /\ pc[c] \notin DeletePc
    BY <1>2, <1>6 DEF Busy, DeletePc
  <2>2. Deleting(u, pc', arg') /\ ~Deleting(c, pc', arg')
    BY <1>2, <1>6, <2>1 DEF Deleting
  <2>3. CanWake(u, sched', timer', pc', arg')
    BY <2>2 DEF CanWake
  <2>4. CallOK(c, sched', timer', pc', arg')
    <3>1. u \notin InTable(sched') /\ u \notin sched'.waiting
      BY <1>5
    <3>2. pc'[c] \notin {"start", "unlink", "insert", "suspend"}
      BY <1>6
    <3> QED BY <1>1, <1>2, <1>3, <1>4, <1>5, <1>6, <2>2, <3>1, <3>2 DEF CallOK
  <2>5. /\ InTable(sched') \ {u} = InTable(sched) \ {u}
        /\ sched'.waiting \ {u} = sched.waiting \ {u} /\ u \notin sched'.waiting
        /\ timer' = timer /\ SchedOK(sched') /\ sched'.stat = sched.stat
    BY <1>1, <1>5
  <2>6. u \in Thread \ {idle} /\ arg'[c] = u /\ pc[u] \notin Busy
    BY <1>1, <1>4, <1>6
  <2>7. \A d \in Thread \ {c} : pc'[d] = pc[d] /\ arg'[d] = arg[d]
    BY <1>6
  <2> QED BY <1>0, <1>4, <2>1, <2>2, <2>3, <2>4, <2>5, <2>6, <2>7, StepOn
<1>8. CurrentOK' /\ HighOK'
  BY <1>1, <1>2, <1>5, StillHigh
<1>9. Types'
  BY <1>0, <1>1, <1>6 DEF Types
<1> QED BY <1>7, <1>8, <1>9 DEF SchedulerInv

LEMMA DoesDeleteStopsTimer ==
  ASSUME SchedulerInv, Contract, NEW c \in Thread, DeleteStopsTimer(c)
  PROVE  SchedulerInv'
<1>0. Types /\ ThreadsOK(sched, timer, pc, arg) /\ arg \in [Thread -> Thread]
  BY DEF SchedulerInv, Types
<1>1. PICK u \in Thread : u = arg[c]
  BY <1>0
<1>2. /\ At(c, "delete") /\ timer' = timer \ {u} /\ Goes(c, "close")
      /\ sched' = sched /\ lock' = lock /\ stale' = stale
  BY <1>1 DEF DeleteStopsTimer
<1>3. sched.current = c /\ sched.stat[c] = "running" /\ pc[c] = "delete" /\ ~Deleting(c, pc, arg)
  BY <1>2, CurrentFacts
<1>4. CallOK(c, sched, timer, pc, arg) /\ <<c, u>> \in Deletes /\ u # c
  BY <1>0, <1>1, <1>3 DEF ThreadsOK, CallOK, DeletePc, Busy
<1>5. \A d \in Thread \ {c} : pc[d] \in LifePc => arg[d] # u
  BY <1>0, <1>1, <1>3 DEF ThreadsOK, LifePc
<1>6. u # idle /\ u \notin timer /\ \A d \in Thread \ {c} : pc[d] \in Busy => arg[d] # u
  BY <1>0, <1>4, <1>5, DeletedFacts
<1>7. timer' = timer
  BY <1>2, <1>6
<1>8. /\ pc' \in [Thread -> Busy \cup {"run", "schedule"}] /\ arg' \in [Thread -> Thread]
      /\ pc'[c] = "close" /\ arg'[c] = u
      /\ \A d \in Thread \ {c} : pc'[d] = pc[d] /\ arg'[d] = arg[d]
  BY <1>0, <1>1, <1>2, GoesFacts DEF Busy
<1>9. ThreadsOK(sched', timer', pc', arg')
  <2>1. pc[c] \in DeletePc /\ pc'[c] \in DeletePc
    BY <1>3, <1>8 DEF DeletePc
  <2>2. Deleting(u, pc', arg') /\ ~Deleting(c, pc', arg')
    BY <1>3, <1>4, <1>8, <2>1 DEF Deleting
  <2>3. CanWake(u, sched', timer', pc', arg')
    BY <2>2 DEF CanWake
  <2>4. CallOK(c, sched', timer', pc', arg')
    <3>1. pc'[c] \notin {"start", "unlink", "insert", "suspend"}
      BY <1>8
    <3> QED BY <1>1, <1>2, <1>4, <1>8, <2>1, <2>2, <3>1 DEF CallOK
  <2>5. u \notin sched.waiting /\ pc[u] \notin Busy
    <3>1. u \notin sched.waiting
      BY <1>1, <1>4, <2>1 DEF CallOK
    <3>2. Deleting(u, pc, arg)
      BY <1>1, <2>1 DEF Deleting
    <3> QED BY <1>0, <3>1, <3>2 DEF ThreadsOK, CallOK
  <2>6. \A d \in Thread \ {c} : pc'[d] = pc[d] /\ arg'[d] = arg[d]
    BY <1>8
  <2>7. u \in Thread \ {idle} /\ arg[c] = u /\ arg'[c] = u /\ SchedOK(sched')
    BY <1>0, <1>1, <1>2, <1>6, <1>8 DEF ThreadsOK
  <2> QED BY <1>0, <1>2, <1>5, <1>6, <1>7, <2>2, <2>3, <2>4, <2>5, <2>6, <2>7, StepOn
<1>10. CurrentOK' /\ HighOK'
  BY <1>2, <1>3, StillHigh
<1>11. Types'
  BY <1>0, <1>2, <1>7, <1>8 DEF Types
<1> QED BY <1>9, <1>10, <1>11 DEF SchedulerInv

LEMMA DoesDeleteCloses ==
  ASSUME SchedulerInv, Contract, NEW c \in Thread, DeleteCloses(c)
  PROVE  SchedulerInv'
<1>0. Types /\ ThreadsOK(sched, timer, pc, arg) /\ arg \in [Thread -> Thread]
  BY DEF SchedulerInv, Types
<1>1. PICK u \in Thread : u = arg[c]
  BY <1>0
<1>2. /\ At(c, "close") /\ sched' = Buried(sched, u) /\ Goes(c, "run")
      /\ timer' = timer /\ lock' = lock /\ stale' = stale
  BY <1>1 DEF DeleteCloses
<1>3. /\ sched.current = c /\ sched.stat[c] = "running" /\ pc[c] = "close"
      /\ SchedOK(sched) /\ TableOK(sched)
  BY <1>2, CurrentFacts
<1>4. /\ CallOK(c, sched, timer, pc, arg) /\ <<c, u>> \in Deletes /\ u # c
      /\ sched.stat[u] \in {"init", "ready", "suspend"}
      /\ u \notin InTable(sched) /\ u \notin sched.waiting
  BY <1>0, <1>1, <1>3 DEF ThreadsOK, CallOK, DeletePc, Busy
<1>5. \A d \in Thread \ {c} : pc[d] \in LifePc => arg[d] # u
  BY <1>0, <1>1, <1>3 DEF ThreadsOK, LifePc
<1>6. u # idle /\ u \notin timer /\ \A d \in Thread \ {c} : pc[d] \in Busy => arg[d] # u
  BY <1>0, <1>4, <1>5, DeletedFacts
<1>7. /\ SchedOK(sched') /\ InTable(sched') = InTable(sched)
      /\ sched'.current = sched.current /\ sched'.prio = sched.prio
      /\ sched'.stat[u] \in {"none", "close"}
      /\ \A t \in Thread \ {u} : sched'.stat[t] = sched.stat[t]
      /\ sched'.waiting = sched.waiting
  <2>1. sched.waiting = sched.waiting \ {u} /\ sched.defunct = sched.defunct \ {u}
    BY <1>3, <1>4 DEF SchedOK
  <2>2. PICK r : r = Buried(sched, u)
    OBVIOUS
  <2>3. /\ SchedOK(r) /\ InTable(r) = InTable(sched)
        /\ r.current = sched.current /\ r.prio = sched.prio
        /\ r.stat[u] \in {"none", "close"}
        /\ \A t \in Thread \ {u} : r.stat[t] = sched.stat[t]
        /\ r.waiting = sched.waiting \ {u}
    BY <1>3, <1>4, <2>1, <2>2, BuriedFacts
  <2> QED BY <1>2, <2>1, <2>2, <2>3
<1>8. /\ pc' \in [Thread -> Busy \cup {"run", "schedule"}] /\ arg' \in [Thread -> Thread]
      /\ pc'[c] = "run"
      /\ \A d \in Thread \ {c} : pc'[d] = pc[d] /\ arg'[d] = arg[d]
  BY <1>0, <1>2, GoesFacts
<1>9. ThreadsOK(sched', timer', pc', arg')
  <2>1. pc[c] \in DeletePc /\ pc'[c] \notin Busy /\ pc'[c] \notin LifePc
    BY <1>3, <1>8 DEF DeletePc, LifePc, Busy
  <2>2. pc[u] \notin Busy
    <3>1. Deleting(u, pc, arg)
      BY <1>1, <2>1 DEF Deleting
    <3> QED BY <1>0, <3>1 DEF ThreadsOK, CallOK
  <2>3. sched'.stat[u] # "ready" /\ sched'.stat[u] # "suspend"
    BY <1>7
  <2>4. InTable(sched') \ {u} = InTable(sched) \ {u} /\ u \notin sched'.waiting
    BY <1>4, <1>7
  <2>5. \A d \in Thread \ {c} : pc'[d] = pc[d] /\ arg'[d] = arg[d]
    BY <1>8
  <2>6. u \in Thread \ {idle} /\ arg[c] = u /\ SchedOK(sched') /\ sched'.waiting = sched.waiting
    BY <1>1, <1>6, <1>7
  <2>7. \A t \in Thread \ {u} : sched'.stat[t] = sched.stat[t]
    BY <1>7
  <2> QED BY <1>0, <1>2, <1>5, <1>6, <2>1, <2>2, <2>3, <2>4, <2>5, <2>6, <2>7, StepOn
<1>10. CurrentOK' /\ HighOK'
  BY <1>2, <1>3, <1>4, <1>7, StillHigh
<1>11. Types'
  BY <1>0, <1>2, <1>8 DEF Types
<1> QED BY <1>9, <1>10, <1>11 DEF SchedulerInv

LEMMA DoesReap ==
  ASSUME SchedulerInv, NEW c \in Thread, Reap(c)
  PROVE  SchedulerInv'
<1>0. Types /\ ThreadsOK(sched, timer, pc, arg) /\ arg \in [Thread -> Thread]
  BY DEF SchedulerInv, Types
<1>1. /\ At(c, "run") /\ c = idle
      /\ timer' = timer /\ lock' = lock /\ pc' = pc /\ arg' = arg /\ stale' = stale
  BY DEF Reap
<1>2. PICK u \in sched.defunct : sched' = [Unlink(sched, u) EXCEPT !.stat[u] = "none"]
  BY DEF Reap
<1>3. sched.current = c /\ sched.stat[c] = "running" /\ pc[c] = "run"
      /\ SchedOK(sched) /\ sched \in SchedType
  BY <1>1, CurrentFacts
<1>4. u \in Thread /\ sched.stat[u] = "close" /\ u # c
  BY <1>3, Fields DEF SchedOK
<1>5. /\ SchedOK(sched') /\ InTable(sched') = InTable(sched)
      /\ sched'.current = sched.current /\ sched'.prio = sched.prio
      /\ sched'.stat = [sched.stat EXCEPT ![u] = "none"]
      /\ sched'.waiting = sched.waiting
  BY <1>2, <1>3, ReapFacts
<1>6. sched'.stat[u] = "none" /\ \A t \in Thread \ {u} : sched'.stat[t] = sched.stat[t]
  BY <1>3, <1>4, <1>5, Fields
<1>7. ThreadsOK(sched', timer', pc', arg')
  <2>1. pc[u] \notin Busy
    BY <1>0, <1>4 DEF ThreadsOK, CallOK
  <2>2. ASSUME NEW d \in Thread, pc[d] \in Busy, arg[d] = u PROVE FALSE
    <3>1. CallOK(d, sched, timer, pc, arg)
      BY <1>0, <2>2 DEF ThreadsOK
    <3> QED BY <1>4, <2>2, <3>1 DEF CallOK, DeletePc, Busy
  <2>3. u \notin timer /\ u \notin sched'.waiting
    BY <1>0, <1>3, <1>4, <1>5 DEF ThreadsOK, SchedOK
  <2>4. u \in Thread \ {idle} /\ SchedOK(sched') /\ sched'.waiting = sched.waiting
        /\ InTable(sched') = InTable(sched)
    BY <1>1, <1>4, <1>5
  <2>5. sched'.stat[u] # "ready" /\ sched'.stat[u] # "suspend"
    BY <1>6
  <2>6. \A t \in Thread \ {u} : sched'.stat[t] = sched.stat[t]
    BY <1>6
  <2>7. pc[u] \notin LifePc
    BY <2>1 DEF LifePc, Busy
  <2> QED BY <1>0, <1>1, <2>1, <2>2, <2>3, <2>4, <2>5, <2>6, <2>7, StepOn
<1>8. CurrentOK' /\ HighOK'
  BY <1>1, <1>3, <1>4, <1>5, <1>6, StillHigh
<1>9. Types'
  BY <1>0, <1>1 DEF Types
<1> QED BY <1>7, <1>8, <1>9 DEF SchedulerInv

-----------------------------------------------------------------------------
(* The invariant and the theorems.                                         *)

LEMMA InitOK == Init => SchedulerInv
<1> SUFFICES ASSUME Init PROVE SchedulerInv
  OBVIOUS
<1>1. PICK first \in Thread \ {idle} :
        sched = [current |-> first,
                 table |-> [p \in Prios |-> IF p = Lowest THEN <<idle>> ELSE <<>>],
                 group |-> {Lowest},
                 stat |-> [t \in Thread |-> CASE t = first -> "running"
                                              [] t = idle -> "ready"
                                              [] OTHER -> "none"],
                 prio |-> InitPrio,
                 waiting |-> {}, defunct |-> {}]
  BY DEF Init
<1>2. /\ timer = {} /\ lock = 0 /\ stale = FALSE
      /\ pc = [t \in Thread |-> "run"] /\ arg = [t \in Thread |-> t]
  BY DEF Init
<1>3. /\ idle \in Thread /\ Lowest \in Prios /\ InitPrio \in [Thread -> Prios]
      /\ \A t \in Thread : InitPrio[t] = Lowest <=> t = idle
      /\ MaxNest \in Nat /\ \A p \in Prios : p \in Int /\ p <= Lowest
  BY SchedulerAssumption DEF Prios
<1>4. /\ sched.current = first /\ sched.group = {Lowest} /\ sched.prio = InitPrio
      /\ sched.waiting = {} /\ sched.defunct = {}
      /\ \A p \in Prios : sched.table[p] = IF p = Lowest THEN <<idle>> ELSE <<>>
      /\ \A t \in Thread : sched.stat[t] = IF t = first THEN "running"
                                           ELSE IF t = idle THEN "ready" ELSE "none"
  BY <1>1
<1>5. sched \in SchedType
  <2>1. <<idle>> \in Seq(Thread) /\ <<>> \in Seq(Thread)
    BY <1>3
  <2>2. [p \in Prios |-> IF p = Lowest THEN <<idle>> ELSE <<>>] \in [Prios -> Seq(Thread)]
    BY <2>1
  <2>3. [t \in Thread |-> CASE t = first -> "running" [] t = idle -> "ready" [] OTHER -> "none"]
          \in [Thread -> Stat]
    BY DEF Stat
  <2>4. {Lowest} \in SUBSET Prios
    BY <1>3
  <2> QED BY <1>1, <1>3, <2>2, <2>3, <2>4 DEF SchedType
<1>6. NoDup(<<idle>>) /\ ToSet(<<idle>>) = {idle} /\ <<idle>> # <<>>
      /\ NoDup(<<>>) /\ ToSet(<<>>) = {}
  BY DEF NoDup, ToSet
<1>7. TableOK(sched)
  BY <1>3, <1>4, <1>5, <1>6 DEF TableOK
<1>8. InTable(sched) = {idle}
  <2>1. \A t \in Thread : t \in InTable(sched) <=> t = idle
    BY <1>3, <1>4, <1>6 DEF InTable
  <2> QED BY <1>3, <2>1 DEF InTable
<1>9. SchedOK(sched)
  BY <1>3, <1>4, <1>7 DEF SchedOK
<1>10. ThreadsOK(sched, timer, pc, arg)
  <2>1. \A c \in Thread : pc[c] \notin Busy /\ pc[c] \notin LifePc
    BY <1>2 DEF Busy, LifePc
  <2>2. sched.stat[idle] \in {"ready", "running"}
    BY <1>3, <1>4
  <2>3. \A t \in Thread : sched.stat[t] = "ready" => t \in InTable(sched)
    BY <1>4, <1>8
  <2>4. \A t \in Thread : sched.stat[t] # "suspend"
    BY <1>4
  <2>5. sched.waiting \subseteq Waits
    BY <1>4
  <2> QED BY <1>2, <1>9, <2>1, <2>2, <2>3, <2>4, <2>5 DEF ThreadsOK
<1>11. Highmost(sched)
  BY <1>3, <1>4, <1>8 DEF Highmost
<1>12. Types
  <2>1. pc \in [Thread -> Busy \cup {"run", "schedule"}]
    BY <1>2
  <2>2. arg \in [Thread -> Thread] /\ timer \in SUBSET Thread /\ stale \in BOOLEAN
    BY <1>2
  <2>3. lock \in 0 .. MaxNest
    BY <1>2, <1>3
  <2> QED BY <2>1, <2>2, <2>3 DEF Types
<1>13. CurrentOK /\ HighOK
  BY <1>4, <1>11 DEF CurrentOK, HighOK
<1> QED BY <1>10, <1>12, <1>13 DEF SchedulerInv

LEMMA NextOK ==
  ASSUME SchedulerInv, Contract, Next, Considerate
  PROVE  SchedulerInv'
<1>1. CASE \E c \in Thread : Alone(c)
  <2>1. PICK c \in Thread : Alone(c)
    BY <1>1
  <2>2. CASE Reschedule(c)
    BY <2>2, DoesReschedule
  <2>3. CASE rt_thread_yield(c)
    BY <2>3, DoesYield DEF rt_thread_yield
  <2>4. CASE rt_thread_sleep(c) \/ Wait(c)
    BY <2>4, DoesSuspendItself
  <2>5. CASE rt_enter_critical(c) \/ rt_exit_critical(c)
    BY <2>5, DoesCritical
  <2>6. CASE ResumeUnlinks(c)
    BY <2>6, DoesResumeUnlinks
  <2>7. CASE ResumeInserts(c)
    BY <2>7, DoesResumeInserts
  <2>8. CASE SuspendRemoves(c)
    BY <2>8, DoesSuspendRemoves
  <2>9. CASE rt_thread_exit(c)
    BY <2>9, DoesExit
  <2>10. CASE DeleteStopsTimer(c)
    BY <2>10, DoesDeleteStopsTimer
  <2>11. CASE DeleteCloses(c)
    BY <2>11, DoesDeleteCloses
  <2>12. CASE Reap(c)
    BY <2>12, DoesReap
  <2> QED BY <2>1, <2>2, <2>3, <2>4, <2>5, <2>6, <2>7, <2>8, <2>9, <2>10, <2>11, <2>12 DEF Alone
<1>2. CASE \E c \in Thread : \E u \in Thread \ {c} : On(c, u)
  <2>0. PICK c \in Thread : \E u \in Thread \ {c} : On(c, u)
    BY <1>2
  <2>1. PICK u \in Thread \ {c} : On(c, u)
    BY <2>0
  <2>2. CASE Wake(c, u)
    BY <2>2, DoesWake
  <2>3. CASE rt_thread_create(c, u)
    BY <2>3, DoesCreate
  <2>4. CASE rt_thread_startup(c, u)
    BY <2>4, DoesStartup
  <2>5. CASE rt_thread_resume(c, u) \/ rt_thread_suspend(c, u)
    BY <2>5, DoesLook
  <2>6. CASE rt_thread_control(c, u)
    BY <2>6, DoesControl
  <2>7. CASE DeleteRemoves(c, u)
    BY <2>7, DoesDeleteRemoves
  <2> QED BY <2>1, <2>2, <2>3, <2>4, <2>5, <2>6, <2>7 DEF On
<1>3. CASE Interrupt
  <2>1. CASE SliceEnds
    BY <2>1, DoesYield DEF SliceEnds
  <2>2. ASSUME NEW t \in Thread, TimeOut(t) \/ InterruptWakes(t) PROVE SchedulerInv'
    BY <2>2, DoesWakeAndSchedule DEF TimeOut, InterruptWakes
  <2> QED BY <1>3, <2>1, <2>2 DEF Interrupt
<1> QED BY <1>1, <1>2, <1>3 DEF Next

LEMMA StutterOK == SchedulerInv /\ UNCHANGED vars => SchedulerInv'
<1> SUFFICES ASSUME SchedulerInv, UNCHANGED vars PROVE SchedulerInv'
  OBVIOUS
<1>1. /\ sched' = sched /\ timer' = timer /\ lock' = lock
      /\ pc' = pc /\ arg' = arg /\ stale' = stale
  BY DEF vars
<1>2. Types'
  BY <1>1 DEF SchedulerInv, Types
<1>3. CurrentOK' /\ HighOK'
  BY <1>1 DEF SchedulerInv, CurrentOK, HighOK
<1> QED BY <1>1, <1>2, <1>3 DEF SchedulerInv

\* The invariant that the properties follow from holds as long as the callers
\* keep to Contract and Considerate (scheduler.c, thread.c).
THEOREM SchedulerInvariance ==
  ASSUME Contract
  PROVE  Spec /\ [][Considerate]_vars => []SchedulerInv
<1>1. Init => SchedulerInv
  BY InitOK
<1>2. SchedulerInv /\ [Next]_vars /\ [Considerate]_vars => SchedulerInv'
  BY NextOK, StutterOK
<1> QED BY <1>1, <1>2, PTL DEF Spec

\* The lists, statuses, timers and calls of any number of threads keep their
\* types, and the current thread is a thread: rt_schedule never takes the head
\* of an empty list for one.
THEOREM SchedulerTypes ==
  ASSUME Contract
  PROVE  Spec /\ [][Considerate]_vars => []TypeOK
<1>1. SchedulerInv => TypeOK
  BY DEF SchedulerInv, ThreadsOK, SchedOK, TableOK, Types, TypeOK, Busy
<1> QED BY <1>1, SchedulerInvariance, PTL

\* rt_schedule_insert_thread and rt_schedule_remove_thread keep the ready table,
\* its group, the statuses and the priorities in agreement.
THEOREM SchedulerTable ==
  ASSUME Contract
  PROVE  Spec /\ [][Considerate]_vars => []ReadyTableExact
<1>1. SchedulerInv => ReadyTableExact
  <2> SUFFICES ASSUME SchedulerInv PROVE ReadyTableExact
    OBVIOUS
  <2>1. SchedOK(sched) /\ TableOK(sched) /\ sched \in SchedType
    BY DEF SchedulerInv, ThreadsOK, SchedOK, TableOK
  <2>2. ASSUME NEW p \in Prios
        PROVE  (p \in sched.group <=> sched.table[p] # <<>>) /\ IsInjective(sched.table[p])
    <3>1. sched.table[p] \in Seq(Thread) /\ NoDup(sched.table[p])
      BY <2>1, Fields DEF TableOK
    <3>2. DOMAIN sched.table[p] = 1 .. Len(sched.table[p])
      BY <3>1
    <3>3. IsInjective(sched.table[p])
      BY <3>1, <3>2 DEF NoDup, IsInjective
    <3> QED BY <2>1, <3>3 DEF TableOK
  <2>3. ASSUME NEW t \in Thread
        PROVE  /\ Queued(t) \subseteq {sched.prio[t]}
               /\ Queued(t) # {} => sched.stat[t] = "ready"
               /\ sched.stat[t] = "ready" => Queued(t) # {} \/ BeingDeleted(t)
               /\ sched.stat[t] = "running" => t = sched.current
    <3>1. \A p \in Queued(t) : p = sched.prio[t] /\ sched.stat[t] = "ready"
      BY <2>1 DEF Queued, TableOK
    <3>2. t \in InTable(sched) => sched.prio[t] \in Queued(t)
      BY <2>1, Fields DEF InTable, Queued
    <3>3. Deleting(t, pc, arg) => BeingDeleted(t)
      BY DEF Deleting, BeingDeleted, DeletePc
    <3>4. sched.stat[t] = "ready" => t \in InTable(sched) \/ Deleting(t, pc, arg)
      BY DEF SchedulerInv, ThreadsOK
    <3> QED BY <2>1, <3>1, <3>2, <3>3, <3>4 DEF SchedOK
  <2> QED BY <2>2, <2>3 DEF ReadyTableExact
<1> QED BY <1>1, SchedulerInvariance, PTL

\* Outside of calls and critical sections the processor has a thread of the
\* highest ready priority, whatever woke, started, ended or timed out before.
THEOREM SchedulerRunsHighest ==
  ASSUME Contract
  PROVE  Spec /\ [][Considerate]_vars => []RunningIsHighest
<1>1. SchedulerInv => RunningIsHighest
  <2> SUFFICES ASSUME SchedulerInv, lock = 0, ~stale, pc[sched.current] = "run"
               PROVE  /\ sched.stat[sched.current] = "running"
                      /\ \A t \in Thread :
                           Queued(t) # {} => sched.prio[sched.current] <= sched.prio[t]
    BY DEF RunningIsHighest
  <2>1. Highmost(sched) /\ TableOK(sched)
    BY DEF SchedulerInv, HighOK, ThreadsOK, SchedOK
  <2>2. \A t \in Thread : Queued(t) # {} => t \in InTable(sched)
    BY <2>1 DEF Queued, InTable, TableOK
  <2> QED BY <2>1, <2>2 DEF Highmost
<1> QED BY <1>1, SchedulerInvariance, PTL

\* No call of rt_thread_suspend, rt_thread_sleep, rt_thread_startup or of an IPC
\* object leaves a thread suspended that nothing will wake.
THEOREM SchedulerForgetsNobody ==
  ASSUME Contract
  PROVE  Spec /\ [][Considerate]_vars => []SuspendedCanWake
<1>1. SchedulerInv => SuspendedCanWake
  BY DEF SchedulerInv, ThreadsOK, CanWake, Deleting, DeletePc, SuspendedCanWake, BeingDeleted
<1> QED BY <1>1, SchedulerInvariance, PTL

\* rt_thread_exit, rt_thread_delete and rt_thread_detach leave a thread that is
\* in no list, has no timer and does not run, so that it can be freed.
THEOREM SchedulerBuriesWhole ==
  ASSUME Contract
  PROVE  Spec /\ [][Considerate]_vars => []ClosedThreadsAreOut
<1>1. SchedulerInv => ClosedThreadsAreOut
  <2> SUFFICES ASSUME SchedulerInv, NEW t \in Thread, sched.stat[t] \in {"close", "none"}
               PROVE  /\ Queued(t) = {} /\ t \notin sched.waiting \cup timer
                      /\ t = sched.current => pc[t] = "schedule"
    BY DEF ClosedThreadsAreOut
  <2>1. ThreadsOK(sched, timer, pc, arg) /\ SchedOK(sched) /\ TableOK(sched) /\ CurrentOK
    BY DEF SchedulerInv, ThreadsOK, SchedOK
  <2>2. Queued(t) = {}
    BY <2>1 DEF Queued, TableOK
  <2>3. t \notin sched.waiting /\ t \notin timer
    BY <2>1 DEF ThreadsOK, SchedOK
  <2>4. t = sched.current => pc[t] = "schedule"
    BY <2>1 DEF CurrentOK
  <2> QED BY <2>2, <2>3, <2>4
<1> QED BY <1>1, SchedulerInvariance, PTL
=============================================================================

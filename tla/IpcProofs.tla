------------------------------ MODULE IpcProofs ------------------------------
(***************************************************************************)
(* Proofs about Ipc.                                                       *)
(***************************************************************************)
EXTENDS Ipc, ListFacts, FiniteSetTheorems

-----------------------------------------------------------------------------
(* The list of an object when threads leave it.                            *)

\* The places of s that stay, numbered in their order, are numbered without gap.
LEMMA RankFacts ==
  ASSUME NEW n \in Nat, NEW kept \in SUBSET (1 .. n)
  PROVE  /\ Cardinality(kept) \in Nat
         /\ \A k \in 1 .. Cardinality(kept) :
              \E i \in kept : Cardinality({j \in kept : j <= i}) = k
         /\ \A h, i \in kept :
              Cardinality({j \in kept : j <= h}) = Cardinality({j \in kept : j <= i}) => h = i
         /\ \A i \in kept : Cardinality({j \in kept : j <= i}) \in 1 .. Cardinality(kept)
<1> DEFINE Upto(i) == {j \in kept : j <= i}
           N       == Cardinality(kept)
           rank    == [i \in kept |-> Cardinality(Upto(i))]
<1>1. IsFiniteSet(kept) /\ N \in Nat
  <2>1. IsFiniteSet(1 .. n)
    BY FS_Interval
  <2> QED BY <2>1, FS_Subset, FS_CardinalityType
<1>2. ASSUME NEW i \in kept
      PROVE  IsFiniteSet(Upto(i)) /\ Cardinality(Upto(i)) \in 1 .. N
  <2>1. Upto(i) \in SUBSET kept /\ i \in Upto(i)
    OBVIOUS
  <2>2. IsFiniteSet(Upto(i)) /\ Cardinality(Upto(i)) <= N
    BY <2>1, <1>1, FS_Subset
  <2>3. Cardinality(Upto(i)) \in Nat
    BY <2>2, FS_CardinalityType
  <2>4. Cardinality(Upto(i)) # 0
    BY <2>1, <2>2, FS_EmptySet
  <2> QED BY <1>1, <2>2, <2>3, <2>4
<1>3. ASSUME NEW h \in kept, NEW i \in kept, h < i
      PROVE  Cardinality(Upto(h)) < Cardinality(Upto(i))
  <2>1. Upto(h) \cup {i} \in SUBSET Upto(i) /\ i \notin Upto(h)
    <3>1. h \in Nat /\ i \in Nat /\ \A j \in kept : j \in Nat
      OBVIOUS
    <3>2. \A j \in Upto(h) : j \in kept /\ j <= i
      BY <1>3, <3>1
    <3>3. i \in Upto(i) /\ i \notin Upto(h)
      BY <1>3, <3>1
    <3>4. Upto(h) \in SUBSET Upto(i)
      BY <3>2
    <3> HIDE DEF Upto
    <3> QED BY <3>3, <3>4
  <2>2. Cardinality(Upto(h) \cup {i}) = Cardinality(Upto(h)) + 1
    BY <2>1, <1>2, FS_AddElement
  <2>3. Cardinality(Upto(h) \cup {i}) <= Cardinality(Upto(i))
    BY <2>1, <1>2, FS_Subset
  <2>4. Cardinality(Upto(h)) \in Nat /\ Cardinality(Upto(i)) \in Nat
    BY <1>2
  <2> HIDE DEF Upto
  <2> QED BY <2>2, <2>3, <2>4
<1>4. ASSUME NEW h \in kept, NEW i \in kept, Cardinality(Upto(h)) = Cardinality(Upto(i))
      PROVE  h = i
  <2>1. h \in Nat /\ i \in Nat
    OBVIOUS
  <2>2. Cardinality(Upto(h)) \in Nat /\ Cardinality(Upto(i)) \in Nat
    BY <1>2
  <2>3. ~(h < i) /\ ~(i < h)
    BY <1>3, <1>4, <2>2
  <2> QED BY <2>1, <2>3
<1>5. rank \in Injection(kept, 1 .. N)
  <2>1. rank \in [kept -> 1 .. N]
    BY <1>2
  <2>2. \A h, i \in kept : rank[h] = rank[i] => h = i
    BY <1>4
  <2> HIDE DEF rank
  <2> QED BY <2>1, <2>2 DEF Injection, IsInjective
<1>6. IsFiniteSet(1 .. N) /\ Cardinality(1 .. N) = N
  BY <1>1, FS_Interval
<1>7. rank \in Surjection(kept, 1 .. N)
  <2> HIDE DEF rank
  <2> QED BY <1>1, <1>5, <1>6, FS_Injection
<1>8. \A k \in 1 .. N : \E i \in kept : rank[i] = k
  <2> HIDE DEF rank
  <2> QED BY <1>7 DEF Surjection
<1> QED BY <1>1, <1>2, <1>4, <1>8

\* What is left of a list without duplicates: the threads that stay, once each.
LEMMA RestFacts ==
  ASSUME NEW S, NEW s \in Seq(S), NoDup(s), NEW W
  PROVE  /\ Rest(s, W) \in Seq(S)
         /\ NoDup(Rest(s, W))
         /\ ToSet(Rest(s, W)) = ToSet(s) \ W
<1> DEFINE kept   == {i \in DOMAIN s : s[i] \notin W}
           Upto(i) == {j \in kept : j <= i}
           Nth(k) == CHOOSE i \in kept : Cardinality(Upto(i)) = k
           N      == Cardinality(kept)
           r      == Rest(s, W)
<1>1. kept \in SUBSET (1 .. Len(s)) /\ Len(s) \in Nat
  OBVIOUS
<1>2. /\ N \in Nat
      /\ \A k \in 1 .. N : \E i \in kept : Cardinality(Upto(i)) = k
      /\ \A h, i \in kept : Cardinality(Upto(h)) = Cardinality(Upto(i)) => h = i
      /\ \A i \in kept : Cardinality(Upto(i)) \in 1 .. N
  <2> HIDE DEF kept
  <2> QED BY <1>1, RankFacts
<1>3. r = [k \in 1 .. N |-> s[Nth(k)]]
  BY DEF Rest
<1> HIDE DEF r, N
<1>4. ASSUME NEW k \in 1 .. N
      PROVE  Nth(k) \in kept /\ Cardinality(Upto(Nth(k))) = k
  <2> HIDE DEF kept, Upto
  <2> QED BY <1>2
<1>5. ASSUME NEW i \in kept
      PROVE  Cardinality(Upto(i)) \in 1 .. N /\ Nth(Cardinality(Upto(i))) = i
  <2> DEFINE k == Cardinality(Upto(i))
  <2>1. k \in 1 .. N
    BY <1>2
  <2>2. Nth(k) \in kept /\ Cardinality(Upto(Nth(k))) = k
    BY <2>1, <1>4
  <2> HIDE DEF kept, Upto, Nth
  <2> QED BY <2>1, <2>2, <1>2
<1> HIDE DEF Nth, Upto
<1>6. /\ r \in Seq(S) /\ Len(r) = N
      /\ \A k \in 1 .. N : r[k] = s[Nth(k)]
  <2>1. \A k \in 1 .. N : s[Nth(k)] \in S
    BY <1>4, <1>1
  <2>2. r \in [1 .. N -> S]
    BY <2>1, <1>3
  <2>3. r \in Seq(S)
    BY <2>2, <1>2, SeqDef
  <2>4. Len(r) = N
    BY <1>2, <1>3, <2>3, LenProperties
  <2> QED BY <2>3, <2>4, <1>3
<1>7. NoDup(r)
  <2>1. ASSUME NEW h \in 1 .. N, NEW k \in 1 .. N, r[h] = r[k]
        PROVE  h = k
    <3>1. Nth(h) \in 1 .. Len(s) /\ Nth(k) \in 1 .. Len(s)
      BY <1>4, <1>1
    <3>2. s[Nth(h)] = s[Nth(k)]
      BY <2>1, <1>6
    <3>3. Nth(h) = Nth(k)
      BY <3>1, <3>2 DEF NoDup
    <3> QED BY <3>3, <1>4
  <2> QED BY <2>1, <1>6 DEF NoDup
<1>8. ToSet(r) = ToSet(s) \ W
  <2>1. ASSUME NEW k \in 1 .. N PROVE r[k] \in ToSet(s) \ W
    BY <1>4, <1>6 DEF ToSet
  <2>2. ASSUME NEW i \in 1 .. Len(s), s[i] \notin W PROVE s[i] \in ToSet(r)
    <3>1. i \in kept
      BY <2>2
    <3>2. Cardinality(Upto(i)) \in 1 .. N /\ r[Cardinality(Upto(i))] = s[i]
      BY <3>1, <1>5, <1>6
    <3> QED BY <3>2, <1>6 DEF ToSet
  <2>3. DOMAIN r = 1 .. N /\ DOMAIN s = 1 .. Len(s)
    BY <1>6
  <2> QED BY <2>1, <2>2, <2>3 DEF ToSet
<1> QED BY <1>6, <1>7, <1>8 DEF r

-----------------------------------------------------------------------------
(* The threads that wait.                                                  *)

WaitCalls == {"take", "event_recv", "mq_recv", "mp_alloc"}

Listed(o) == ToSet(suspend_thread[o])

\* The threads that have been woken for this call and have not run since.
WokenFor(call) == {t \in Thread : Woken(t, call)}

\* A thread is suspended exactly while it is, once, in the list of the object
\* it called, without an error; its timer does not run longer.
WaitersKnown ==
  /\ \A o \in Object : NoDup(suspend_thread[o])
  /\ \A t \in Thread : stat[t] = "suspend" =>
       /\ pc[t] = "wait" /\ op[t] \in WaitCalls /\ error[t] = "EOK"
       /\ t \in Listed(Awaits(t))
  /\ \A o \in Object : \A t \in Listed(o) : stat[t] = "suspend" /\ o = Awaits(t)
  /\ \A t \in Thread : timer[t] = 1 => stat[t] = "suspend" /\ timeout[t] = "finite"

\* The parts of IpcTypeOK.
ListsOK ==
  /\ suspend_thread \in [Object -> Seq(Thread)]
  /\ stat \in [Thread -> {"ready", "suspend"}]
  /\ timer \in [Thread -> {0, 1}]

FramesOK ==
  /\ error \in [Thread -> Error]
  /\ pc \in [Thread -> {"idle", "fill", "wait", "drain", "return"}]
  /\ op \in [Thread -> Calls \cup {"none"}]
  /\ timeout \in [Thread -> AllLimits]
  /\ ret \in [Thread -> Result]
  /\ life \in [Object -> {"live", "look", "resume", "gone", "halt"}]
  /\ scene \in Scene

LEMMA IpcTypeParts == IpcTypeOK <=> ListsOK /\ FramesOK
BY DEF IpcTypeOK, ListsOK, FramesOK

IpcInv == ListsOK /\ FramesOK /\ WaitersKnown

\* The threads of W leave their lists and are ready.
Leave(W) ==
  /\ \A u \in W : u \in Thread /\ stat[u] = "suspend"
  /\ suspend_thread' \in [Object -> Seq(Thread)]
  /\ \A o \in Object :
       NoDup(suspend_thread'[o]) /\ ToSet(suspend_thread'[o]) = Listed(o) \ W
  /\ stat' = [u \in Thread |-> IF u \in W THEN "ready" ELSE stat[u]]
  /\ timer' = [u \in Thread |-> IF u \in W THEN 0 ELSE timer[u]]

\* One step in which nobody begins to wait: the threads of R run, those of W
\* leave their lists, those of E among them with an error.
Moves(R, W, E) ==
  /\ Leave(W)
  /\ \A u \in R : u \in Thread /\ stat[u] = "ready" /\ pc'[u] # "wait"
  /\ \A u \in Thread \ R : pc'[u] = pc[u] /\ op'[u] = op[u] /\ timeout'[u] = timeout[u]
  /\ E \subseteq W
  /\ \A u \in Thread \ (R \cup E) : error'[u] = error[u]
  /\ \A u \in E : error'[u] # "EOK"
  /\ FramesOK'

LEMMA MovesKeep ==
  ASSUME IpcInv, NEW R, NEW W, NEW E, Moves(R, W, E)
  PROVE  /\ IpcInv'
         /\ \A call : WokenFor(call)' =
              (WokenFor(call) \ R) \cup {u \in W \ E : op[u] = call}
<1> USE DEF IpcInv
<1>1. ListsOK' /\ FramesOK'
  BY DEF Moves, Leave, ListsOK
<1>2. ASSUME NEW t \in Thread
      PROVE  /\ t \in W => stat[t] = "suspend" /\ t \notin R /\ stat'[t] = "ready" /\ timer'[t] = 0
             /\ t \notin W => stat'[t] = stat[t] /\ timer'[t] = timer[t]
             /\ stat'[t] = "suspend" => t \notin W /\ t \notin R /\ t \notin E /\ stat[t] = "suspend"
             /\ t \notin R => pc'[t] = pc[t] /\ op'[t] = op[t] /\ timeout'[t] = timeout[t]
             /\ t \in R => pc'[t] # "wait"
             /\ t \in E => error'[t] # "EOK"
             /\ t \notin R /\ t \notin E => error'[t] = error[t]
  BY DEF Moves, Leave, ListsOK
<1>3. WaitersKnown'
  <2>1. \A o \in Object : NoDup(suspend_thread'[o]) /\ Listed(o)' = Listed(o) \ W
    BY DEF Moves, Leave, Listed
  <2>2. ASSUME NEW t \in Thread, stat'[t] = "suspend"
        PROVE  /\ pc'[t] = "wait" /\ op'[t] \in WaitCalls /\ error'[t] = "EOK"
               /\ t \in Listed(Awaits(t))'
    <3>1. /\ pc[t] = "wait" /\ op[t] \in WaitCalls /\ error[t] = "EOK"
          /\ t \in Listed(Awaits(t))
      BY <1>2, <2>2 DEF WaitersKnown
    <3>2. pc'[t] = pc[t] /\ op'[t] = op[t] /\ error'[t] = error[t] /\ t \notin W
      BY <1>2, <2>2
    <3>3. Awaits(t)' = Awaits(t) /\ Awaits(t) \in Object
      BY <3>1, <3>2 DEF Awaits, WaitCalls, Object
    <3> QED BY <2>1, <3>1, <3>2, <3>3
  <2>3. ASSUME NEW o \in Object, NEW t \in Listed(o)'
        PROVE  stat'[t] = "suspend" /\ o = Awaits(t)'
    <3>1. t \in Listed(o) /\ t \notin W
      BY <2>1
    <3>2. stat[t] = "suspend" /\ o = Awaits(t) /\ t \in Thread
      BY <3>1 DEF WaitersKnown, Listed, ToSet, ListsOK
    <3>3. stat'[t] = "suspend"
      BY <3>1, <3>2, <1>2
    <3>4. op'[t] = op[t]
      BY <3>2, <3>3, <1>2
    <3> QED BY <3>2, <3>3, <3>4 DEF Awaits
  <2>4. ASSUME NEW t \in Thread, timer'[t] = 1
        PROVE  stat'[t] = "suspend" /\ timeout'[t] = "finite"
    BY <1>2, <2>4 DEF WaitersKnown
  <2> QED BY <2>1, <2>2, <2>3, <2>4 DEF WaitersKnown
<1>4. ASSUME NEW call
      PROVE  WokenFor(call)' = (WokenFor(call) \ R) \cup {u \in W \ E : op[u] = call}
  <2>1. ASSUME NEW t \in Thread
        PROVE  Woken(t, call)' <=>
                 (Woken(t, call) /\ t \notin R) \/ (t \in W /\ t \notin E /\ op[t] = call)
    <3>1. CASE t \in R
      BY <3>1, <1>2 DEF Woken
    <3>2. CASE t \notin R /\ t \in W
      BY <3>2, <1>2 DEF Woken, WaitersKnown
    <3>3. CASE t \notin R /\ t \notin W
      <4>1. t \notin E
        BY <3>3 DEF Moves
      <4> QED BY <3>3, <4>1, <1>2 DEF Woken
    <3> QED BY <3>1, <3>2, <3>3
  <2>2. \A u \in W : u \in Thread
    BY DEF Moves, Leave
  <2> QED BY <2>1, <2>2 DEF WokenFor
<1> QED BY <1>1, <1>3, <1>4

\* Which object a waiting call waits for.
ObjectOf(call) ==
  CASE call = "take"       -> "sem"
    [] call = "event_recv" -> "event"
    [] call = "mq_recv"    -> "mq"
    [] call = "mp_alloc"   -> "mempool"

\* A thread begins to wait for the object it calls.
LEMMA SuspendKeeps ==
  ASSUME IpcInv, NEW t \in Thread, stat[t] = "ready",
         NEW call \in WaitCalls, NEW o \in Object, o = ObjectOf(call),
         NEW limit \in AllLimits, Suspend(t, o, call, limit), UNCHANGED <<life, scene>>
  PROVE  /\ IpcInv'
         /\ \A c : WokenFor(c)' = WokenFor(c) \ {t}
         /\ Listed(o)' = Listed(o) \cup {t} /\ t \notin Listed(o)
         /\ \A p \in Object \ {o} : suspend_thread'[p] = suspend_thread[p]
<1> USE DEF IpcInv
<1>1. PICK i \in 1 .. Len(suspend_thread[o]) + 1 :
        suspend_thread' = [suspend_thread EXCEPT ![o] = InsertAt(@, i, t)]
  BY DEF Suspend, Enlist
<1>2. t \notin Listed(o)
  BY DEF WaitersKnown
<1>3. suspend_thread[o] \in Seq(Thread) /\ NoDup(suspend_thread[o])
  BY DEF ListsOK, WaitersKnown
<1>4. /\ InsertAt(suspend_thread[o], i, t) \in Seq(Thread)
      /\ ToSet(InsertAt(suspend_thread[o], i, t)) = Listed(o) \cup {t}
      /\ NoDup(InsertAt(suspend_thread[o], i, t))
  BY <1>2, <1>3, InsertFacts DEF Listed
<1>5. /\ suspend_thread' \in [Object -> Seq(Thread)]
      /\ suspend_thread'[o] = InsertAt(suspend_thread[o], i, t)
      /\ \A p \in Object \ {o} : suspend_thread'[p] = suspend_thread[p]
  BY <1>1, <1>4 DEF ListsOK
<1>6. /\ Listed(o)' = Listed(o) \cup {t}
      /\ \A p \in Object \ {o} : Listed(p)' = Listed(p)
      /\ \A p \in Object : NoDup(suspend_thread'[p])
  <2>1. \A p \in Object : NoDup(suspend_thread[p])
    BY DEF WaitersKnown
  <2>2. NoDup(suspend_thread'[o])
    BY <1>4, <1>5
  <2>3. \A p \in Object \ {o} : NoDup(suspend_thread'[p])
    BY <1>5, <2>1
  <2>4. \A p \in Object : NoDup(suspend_thread'[p])
    BY <2>2, <2>3
  <2> QED BY <1>4, <1>5, <2>4 DEF Listed
<1>7. ListsOK' /\ FramesOK'
  <2>1. /\ stat' = [stat EXCEPT ![t] = "suspend"]
        /\ timer' = [timer EXCEPT ![t] = IF limit = "finite" THEN 1 ELSE 0]
        /\ pc' = [pc EXCEPT ![t] = "wait"]
        /\ op' = [op EXCEPT ![t] = call]
        /\ timeout' = [timeout EXCEPT ![t] = limit]
        /\ ret' = ret
        /\ error' = [error EXCEPT ![t] = "EOK"]
    BY DEF Suspend, Enlist
  <2>2. ListsOK'
    BY <1>5, <2>1 DEF ListsOK
  <2>3. call \in Calls /\ "EOK" \in Error
    BY DEF WaitCalls, Calls, Error
  <2>4. FramesOK'
    BY <2>1, <2>3 DEF FramesOK
  <2> QED BY <2>2, <2>4
<1>8. /\ stat'[t] = "suspend" /\ pc'[t] = "wait" /\ op'[t] = call /\ error'[t] = "EOK"
      /\ timeout'[t] = limit /\ (timer'[t] = 1 => limit = "finite")
      /\ Awaits(t)' = o
      /\ \A u \in Thread \ {t} :
           /\ stat'[u] = stat[u] /\ pc'[u] = pc[u] /\ op'[u] = op[u] /\ error'[u] = error[u]
           /\ timeout'[u] = timeout[u] /\ timer'[u] = timer[u]
  BY DEF ListsOK, FramesOK, Suspend, Enlist, Awaits, ObjectOf, WaitCalls
<1>9. WaitersKnown'
  <2>1. ASSUME NEW u \in Thread, stat'[u] = "suspend"
        PROVE  /\ pc'[u] = "wait" /\ op'[u] \in WaitCalls /\ error'[u] = "EOK"
               /\ u \in Listed(Awaits(u))'
    <3>1. CASE u = t
      BY <3>1, <1>6, <1>8
    <3>2. CASE u # t
      <4>1. /\ pc[u] = "wait" /\ op[u] \in WaitCalls /\ error[u] = "EOK"
            /\ u \in Listed(Awaits(u))
        BY <3>2, <2>1, <1>8 DEF WaitersKnown
      <4>2. Awaits(u)' = Awaits(u) /\ Awaits(u) \in Object
        BY <3>2, <1>8, <4>1 DEF Awaits, WaitCalls, Object
      <4> QED BY <3>2, <1>6, <1>8, <4>1, <4>2
    <3> QED BY <3>1, <3>2
  <2>2. ASSUME NEW p \in Object, NEW u \in Listed(p)'
        PROVE  stat'[u] = "suspend" /\ p = Awaits(u)'
    <3>1. CASE u \in Listed(p)
      <4>1. stat[u] = "suspend" /\ p = Awaits(u) /\ u \in Thread
        BY <3>1 DEF WaitersKnown, Listed, ToSet, ListsOK
      <4>2. u # t
        BY <4>1
      <4> QED BY <4>1, <4>2, <1>8 DEF Awaits
    <3>2. CASE u \notin Listed(p)
      <4>1. p = o /\ u = t
        BY <3>2, <2>2, <1>6
      <4> QED BY <4>1, <1>8
    <3> QED BY <3>1, <3>2
  <2>3. ASSUME NEW u \in Thread, timer'[u] = 1
        PROVE  stat'[u] = "suspend" /\ timeout'[u] = "finite"
    BY <2>3, <1>8 DEF WaitersKnown
  <2> QED BY <1>6, <2>1, <2>2, <2>3 DEF WaitersKnown
<1>10. ASSUME NEW c PROVE WokenFor(c)' = WokenFor(c) \ {t}
  BY <1>8 DEF WokenFor, Woken
<1> QED BY <1>2, <1>5, <1>6, <1>7, <1>9, <1>10

-----------------------------------------------------------------------------
(* How threads leave the lists.                                            *)

LEMMA LeaveNone ==
  ASSUME IpcInv, UNCHANGED <<suspend_thread, stat, timer>>
  PROVE  Leave({})
BY DEF IpcInv, ListsOK, WaitersKnown, Leave, Listed

\* The threads in one list are in no other.
LEMMA ListedOnce ==
  ASSUME IpcInv, NEW o \in Object, NEW W \in SUBSET Listed(o)
  PROVE  /\ \A u \in W : u \in Thread /\ stat[u] = "suspend"
         /\ \A p \in Object \ {o} : Listed(p) \ W = Listed(p)
<1>1. ASSUME NEW u \in W PROVE u \in Thread /\ stat[u] = "suspend" /\ o = Awaits(u)
  BY DEF IpcInv, ListsOK, WaitersKnown, Listed, ToSet
<1>2. \A p \in Object : \A u \in Listed(p) : p = Awaits(u)
  BY DEF IpcInv, WaitersKnown
<1> QED BY <1>1, <1>2

LEMMA LeaveFirst ==
  ASSUME IpcInv, NEW o \in Object, suspend_thread[o] # <<>>, ResumeFirst(o)
  PROVE  Leave({Head(suspend_thread[o])}) /\ Head(suspend_thread[o]) \in Listed(o)
<1> DEFINE h == Head(suspend_thread[o])
<1>1. suspend_thread[o] \in Seq(Thread) /\ NoDup(suspend_thread[o])
  BY DEF IpcInv, ListsOK, WaitersKnown
<1>2. /\ h \in Listed(o)
      /\ Tail(suspend_thread[o]) \in Seq(Thread)
      /\ ToSet(Tail(suspend_thread[o])) = Listed(o) \ {h}
      /\ NoDup(Tail(suspend_thread[o]))
  BY <1>1, TailFacts DEF Listed
<1>3. /\ \A u \in {h} : u \in Thread /\ stat[u] = "suspend"
      /\ \A p \in Object \ {o} : Listed(p) \ {h} = Listed(p)
  BY <1>2, ListedOnce
<1>4. /\ suspend_thread' = [suspend_thread EXCEPT ![o] = Tail(suspend_thread[o])]
      /\ stat' = [stat EXCEPT ![h] = "ready"]
      /\ timer' = [timer EXCEPT ![h] = 0]
  BY DEF ResumeFirst
<1> HIDE DEF h
<1>5. /\ suspend_thread' \in [Object -> Seq(Thread)]
      /\ suspend_thread'[o] = Tail(suspend_thread[o])
      /\ \A p \in Object \ {o} : suspend_thread'[p] = suspend_thread[p]
  BY <1>2, <1>4 DEF IpcInv, ListsOK
<1>6. \A p \in Object :
        NoDup(suspend_thread'[p]) /\ ToSet(suspend_thread'[p]) = Listed(p) \ {h}
  <2>1. ASSUME NEW p \in Object \ {o}
        PROVE  NoDup(suspend_thread'[p]) /\ ToSet(suspend_thread'[p]) = Listed(p) \ {h}
    BY <1>3, <1>5 DEF IpcInv, WaitersKnown, Listed
  <2> QED BY <1>2, <1>5, <2>1
<1>7. /\ stat' = [u \in Thread |-> IF u \in {h} THEN "ready" ELSE stat[u]]
      /\ timer' = [u \in Thread |-> IF u \in {h} THEN 0 ELSE timer[u]]
  BY <1>3, <1>4 DEF IpcInv, ListsOK
<1>8. Leave({h})
  BY <1>3, <1>5, <1>6, <1>7 DEF Leave
<1> QED BY <1>2, <1>8 DEF h

\* Either nobody waits for o and nothing changes, or its first waiter leaves.
LEMMA LeaveOne ==
  ASSUME IpcInv, NEW o \in Object, ResumeFirst(o)
  PROVE  \/ Listed(o) = {} /\ Leave({})
         \/ \E h \in Listed(o) : Leave({h})
<1>1. CASE suspend_thread[o] = <<>>
  <2>1. UNCHANGED <<suspend_thread, stat, timer>>
    BY <1>1 DEF ResumeFirst
  <2>2. Listed(o) = {}
    BY <1>1 DEF Listed, ToSet
  <2> QED BY <2>1, <2>2, LeaveNone
<1>2. CASE suspend_thread[o] # <<>>
  BY <1>2, LeaveFirst
<1> QED BY <1>1, <1>2

LEMMA LeaveAll ==
  ASSUME IpcInv, NEW o \in Object, NEW W \in SUBSET Listed(o), ResumeAll(o, W)
  PROVE  Leave(W)
<1>1. /\ \A u \in W : u \in Thread /\ stat[u] = "suspend"
      /\ \A p \in Object \ {o} : Listed(p) \ W = Listed(p)
  BY ListedOnce
<1>2. suspend_thread[o] \in Seq(Thread) /\ NoDup(suspend_thread[o])
  BY DEF IpcInv, ListsOK, WaitersKnown
<1>3. /\ Rest(suspend_thread[o], W) \in Seq(Thread)
      /\ NoDup(Rest(suspend_thread[o], W))
      /\ ToSet(Rest(suspend_thread[o], W)) = Listed(o) \ W
  BY <1>2, RestFacts DEF Listed
<1>4. suspend_thread' = [suspend_thread EXCEPT ![o] = Rest(suspend_thread[o], W)]
  BY DEF ResumeAll
<1>5. /\ suspend_thread' \in [Object -> Seq(Thread)]
      /\ suspend_thread'[o] = Rest(suspend_thread[o], W)
      /\ \A p \in Object \ {o} : suspend_thread'[p] = suspend_thread[p]
  BY <1>3, <1>4 DEF IpcInv, ListsOK
<1>6. \A p \in Object :
        NoDup(suspend_thread'[p]) /\ ToSet(suspend_thread'[p]) = Listed(p) \ W
  <2>1. ASSUME NEW p \in Object \ {o}
        PROVE  NoDup(suspend_thread'[p]) /\ ToSet(suspend_thread'[p]) = Listed(p) \ W
    BY <1>1, <1>5 DEF IpcInv, WaitersKnown, Listed
  <2> QED BY <1>3, <1>5, <2>1
<1> QED BY <1>1, <1>5, <1>6 DEF Leave, ResumeAll

LEMMA LeaveTimeOut ==
  ASSUME IpcInv, NEW t \in Thread, TimeOut(t)
  PROVE  Leave({t})
<1>1. stat[t] = "suspend"
  BY DEF TimeOut, Expire, IpcInv, WaitersKnown
<1>2. ASSUME NEW p \in Object
      PROVE  /\ suspend_thread'[p] \in Seq(Thread)
             /\ NoDup(suspend_thread'[p])
             /\ ToSet(suspend_thread'[p]) = Listed(p) \ {t}
  <2>1. suspend_thread[p] \in Seq(Thread) /\ NoDup(suspend_thread[p])
    BY DEF IpcInv, ListsOK, WaitersKnown
  <2>2. suspend_thread'[p] = Rest(suspend_thread[p], {t})
    BY DEF TimeOut
  <2> QED BY <2>1, <2>2, RestFacts DEF Listed
<1>3. suspend_thread' \in [Object -> Seq(Thread)]
  <2>1. DOMAIN suspend_thread' = Object
        /\ suspend_thread' = [p \in Object |-> suspend_thread'[p]]
    BY DEF TimeOut
  <2> QED BY <1>2, <2>1
<1>4. /\ stat' = [stat EXCEPT ![t] = "ready"]
      /\ timer' = [timer EXCEPT ![t] = 0]
  BY DEF TimeOut, Expire
<1>5. /\ stat' = [u \in Thread |-> IF u \in {t} THEN "ready" ELSE stat[u]]
      /\ timer' = [u \in Thread |-> IF u \in {t} THEN 0 ELSE timer[u]]
  BY <1>4 DEF IpcInv, ListsOK
<1> QED BY <1>1, <1>2, <1>3, <1>5 DEF Leave

-----------------------------------------------------------------------------
(* The forms of a step.                                                    *)

\* The step of a thread that does not begin to wait.
Runs(t) ==
  /\ stat[t] = "ready" /\ pc'[t] # "wait"
  /\ \A u \in Thread \ {t} :
       /\ pc'[u] = pc[u] /\ op'[u] = op[u] /\ timeout'[u] = timeout[u]
       /\ error'[u] = error[u]
  /\ FramesOK'

\* Beside the object o the step leaves every list and every woken thread alone.
Others(o) ==
  \A c \in WaitCalls : ObjectOf(c) # o =>
    WokenFor(c)' = WokenFor(c) /\ Listed(ObjectOf(c))' = Listed(ObjectOf(c))

\* Nobody is woken, runs after it was, or begins to wait.
Calm ==
  /\ \A c \in WaitCalls : WokenFor(c)' = WokenFor(c)
  /\ \A o \in Object : Listed(o)' \subseteq Listed(o)

\* t does not act on behalf of a wake-up by an object other than o.
IsAt(t, o) == \A c \in WaitCalls : t \in WokenFor(c) => ObjectOf(c) = o

LEMMA ReadyUnlessWaiting ==
  ASSUME IpcInv, NEW t \in Thread, pc[t] # "wait"
  PROVE  stat[t] = "ready" /\ \A c : t \notin WokenFor(c)
BY DEF IpcInv, ListsOK, WaitersKnown, WokenFor, Woken

LEMMA WokenIsAt ==
  ASSUME NEW t \in Thread, NEW c \in WaitCalls, Woken(t, c)
  PROVE  stat[t] = "ready" /\ IsAt(t, ObjectOf(c)) /\ t \in WokenFor(c)
BY DEF Woken, IsAt, WokenFor, ObjectOf

LEMMA FinishRuns ==
  ASSUME IpcInv, NEW t \in Thread, stat[t] = "ready",
         NEW call \in Calls \cup {"none"}, NEW result \in Result,
         Finish(t, call, result),
         error' = error \/ \E e \in Error : error' = [error EXCEPT ![t] = e],
         UNCHANGED <<life, scene>>
  PROVE  Runs(t)
<1>1. /\ pc' = [pc EXCEPT ![t] = "return"]
      /\ op' = [op EXCEPT ![t] = call]
      /\ ret' = [ret EXCEPT ![t] = result]
      /\ timeout' = [timeout EXCEPT ![t] = "none"]
  BY DEF Finish
<1>2. "none" \in AllLimits
  BY DEF AllLimits
<1>3. FramesOK'
  BY <1>1, <1>2 DEF IpcInv, FramesOK
<1> QED BY <1>1, <1>3 DEF Runs, IpcInv, FramesOK

LEMMA MovesOthers ==
  ASSUME IpcInv, NEW o \in Object, NEW R, NEW W, NEW E,
         Moves(R, W, E), W \subseteq Listed(o), \A u \in R : IsAt(u, o)
  PROVE  /\ IpcInv' /\ Others(o)
         /\ Listed(o)' = Listed(o) \ W
         /\ \A c \in WaitCalls : ObjectOf(c) = o =>
              WokenFor(c)' = (WokenFor(c) \ R) \cup (W \ E)
<1>1. /\ IpcInv'
      /\ \A c : WokenFor(c)' = (WokenFor(c) \ R) \cup {u \in W \ E : op[u] = c}
  BY MovesKeep
<1>2. \A p \in Object : Listed(p)' = Listed(p) \ W
  BY DEF Moves, Leave, Listed
<1>3. \A p \in Object \ {o} : Listed(p) \ W = Listed(p)
  BY ListedOnce
<1>4. ASSUME NEW u \in W, NEW c \in WaitCalls
      PROVE  op[u] = c <=> ObjectOf(c) = o
  <2>1. o = Awaits(u) /\ op[u] \in WaitCalls
    BY DEF IpcInv, WaitersKnown, Listed, ToSet, ListsOK
  <2> QED BY <2>1 DEF Awaits, ObjectOf, WaitCalls
<1>5. \A c \in WaitCalls : ObjectOf(c) \in Object
  BY DEF WaitCalls, ObjectOf, Object
<1>6. Others(o)
  BY <1>1, <1>2, <1>3, <1>4, <1>5 DEF Others, IsAt
<1> QED BY <1>1, <1>2, <1>4, <1>6

\* A thread runs and nobody leaves a list.
LEMMA RunsMoves ==
  ASSUME IpcInv, NEW t \in Thread, Runs(t), UNCHANGED <<suspend_thread, stat, timer>>,
         NEW o \in Object, IsAt(t, o)
  PROVE  /\ IpcInv' /\ Others(o)
         /\ Listed(o)' = Listed(o)
         /\ \A c \in WaitCalls : ObjectOf(c) = o => WokenFor(c)' = WokenFor(c) \ {t}
<1>1. PICK W : W = {} /\ Leave(W)
  BY LeaveNone
<1>2. Moves({t}, W, W)
  BY <1>1 DEF Moves, Runs
<1>3. /\ IpcInv' /\ Others(o)
      /\ Listed(o)' = Listed(o) \ W
      /\ \A c \in WaitCalls : ObjectOf(c) = o =>
           WokenFor(c)' = (WokenFor(c) \ {t}) \cup (W \ W)
  <2>1. W \subseteq Listed(o) /\ \A u \in {t} : IsAt(u, o)
    BY <1>1
  <2> QED BY <1>2, <2>1, MovesOthers
<1> QED BY <1>1, <1>3

LEMMA SuspendMoves ==
  ASSUME IpcInv, NEW t \in Thread, stat[t] = "ready",
         NEW call \in WaitCalls, NEW o \in Object, o = ObjectOf(call), IsAt(t, o),
         NEW limit \in AllLimits, Suspend(t, o, call, limit), UNCHANGED <<life, scene>>
  PROVE  /\ IpcInv' /\ Others(o)
         /\ Listed(o)' = Listed(o) \cup {t} /\ t \notin Listed(o)
         /\ \A c \in WaitCalls : WokenFor(c)' = WokenFor(c) \ {t}
<1>1. /\ IpcInv'
      /\ \A c : WokenFor(c)' = WokenFor(c) \ {t}
      /\ Listed(o)' = Listed(o) \cup {t} /\ t \notin Listed(o)
      /\ \A p \in Object \ {o} : suspend_thread'[p] = suspend_thread[p]
  BY SuspendKeeps
<1>2. \A c \in WaitCalls : ObjectOf(c) \in Object
  BY DEF WaitCalls, ObjectOf, Object
<1>3. Others(o)
  BY <1>1, <1>2 DEF Others, IsAt, Listed
<1> QED BY <1>1, <1>3

\* The waiters of o are resumed with an error, by a reset.
LEMMA ResetMoves ==
  ASSUME IpcInv, NEW o \in Object, ResetList(o)
  PROVE  /\ IpcInv' /\ Others(o)
         /\ Listed(o)' = {}
         /\ \A c \in WaitCalls : ObjectOf(c) = o => WokenFor(c)' = WokenFor(c)
<1> DEFINE W == Listed(o)
<1>1. Leave(W)
  BY LeaveAll DEF ResetList, Listed
<1>2. /\ error' = [t \in Thread |-> IF t \in W THEN "ERROR" ELSE error[t]]
      /\ UNCHANGED <<frame, life, scene>>
  BY DEF ResetList, Listed
<1>3. FramesOK'
  BY <1>2 DEF IpcInv, FramesOK, frame, Error
<1>4. \A u \in W : u \in Thread
  BY <1>1 DEF Leave
<1> HIDE DEF W
<1>5. Moves({}, W, W)
  BY <1>1, <1>2, <1>3, <1>4 DEF Moves, frame
<1>6. W \subseteq Listed(o)
  BY DEF W
<1> QED BY <1>5, <1>6, MovesOthers DEF W

\* The first waiter of o is resumed by a thread t that goes on, or by nobody.
LEMMA ResumeMoves ==
  ASSUME IpcInv, NEW o \in Object, ResumeFirst(o), NEW R \in SUBSET Thread,
         \A t \in R : stat[t] = "ready" /\ pc'[t] # "wait" /\ IsAt(t, o),
         \A u \in Thread \ R :
           pc'[u] = pc[u] /\ op'[u] = op[u] /\ timeout'[u] = timeout[u],
         \A u \in Thread \ R : error'[u] = error[u],
         FramesOK'
  PROVE  /\ IpcInv' /\ Others(o)
         /\ \/ /\ Listed(o) = {} /\ Listed(o)' = {}
               /\ \A c \in WaitCalls : ObjectOf(c) = o => WokenFor(c)' = WokenFor(c) \ R
            \/ \E h \in Listed(o) :
                 /\ h \in Thread /\ stat[h] = "suspend"
                 /\ Listed(o)' = Listed(o) \ {h}
                 /\ \A c \in WaitCalls : ObjectOf(c) = o =>
                      WokenFor(c)' = (WokenFor(c) \ R) \cup {h}
<1>1. CASE Listed(o) = {} /\ Leave({})
  <2>1. PICK W : W = {} /\ Leave(W)
    BY <1>1
  <2>2. Moves(R, W, W)
    BY <2>1 DEF Moves
  <2>3. W \subseteq Listed(o)
    BY <2>1
  <2>4. /\ IpcInv' /\ Others(o)
        /\ Listed(o)' = Listed(o) \ W
        /\ \A c \in WaitCalls : ObjectOf(c) = o =>
             WokenFor(c)' = (WokenFor(c) \ R) \cup (W \ W)
    BY <2>2, <2>3, MovesOthers
  <2> QED BY <1>1, <2>1, <2>4
<1>2. CASE \E h \in Listed(o) : Leave({h})
  <2>1. PICK h \in Listed(o) : Leave({h})
    BY <1>2
  <2>2. Moves(R, {h}, {})
    BY <2>1 DEF Moves
  <2>3. h \in Thread /\ stat[h] = "suspend"
    BY <2>1 DEF Leave
  <2>4. {h} \subseteq Listed(o)
    OBVIOUS
  <2>5. /\ IpcInv' /\ Others(o)
        /\ Listed(o)' = Listed(o) \ {h}
        /\ \A c \in WaitCalls : ObjectOf(c) = o =>
             WokenFor(c)' = (WokenFor(c) \ R) \cup ({h} \ {})
    BY <2>2, <2>4, MovesOthers
  <2> QED BY <2>3, <2>5
<1> QED BY <1>1, <1>2, LeaveOne

\* Who begins a call was woken by nobody; who goes on after its wait was woken
\* by the object it waited for.
LEMMA CallerFacts ==
  ASSUME IpcInv, NEW t \in Thread
  PROVE  /\ pc[t] # "wait" =>
              stat[t] = "ready" /\ (\A o : IsAt(t, o)) /\ \A c : t \notin WokenFor(c)
         /\ \A c \in WaitCalls : Woken(t, c) =>
              stat[t] = "ready" /\ IsAt(t, ObjectOf(c)) /\ t \in WokenFor(c)
<1>1. pc[t] # "wait" => stat[t] = "ready" /\ \A c : t \notin WokenFor(c)
  BY ReadyUnlessWaiting
<1>2. pc[t] # "wait" => \A o : IsAt(t, o)
  BY <1>1 DEF IsAt
<1>3. ASSUME NEW c \in WaitCalls, Woken(t, c)
      PROVE  stat[t] = "ready" /\ IsAt(t, ObjectOf(c)) /\ t \in WokenFor(c)
  BY <1>3, WokenIsAt
<1> QED BY <1>1, <1>2, <1>3

\* A call that ends.
LEMMA FinishMoves ==
  ASSUME IpcInv, NEW t \in Thread, stat[t] = "ready", NEW o \in Object, IsAt(t, o),
         NEW call \in Calls \cup {"none"}, NEW result \in Result,
         Finish(t, call, result),
         error' = error \/ \E e \in Error : error' = [error EXCEPT ![t] = e],
         UNCHANGED <<suspend_thread, stat, timer, life, scene>>
  PROVE  /\ IpcInv' /\ Others(o)
         /\ suspend_thread' = suspend_thread
         /\ Listed(o)' = Listed(o)
         /\ \A c \in WaitCalls : ObjectOf(c) = o => WokenFor(c)' = WokenFor(c) \ {t}
<1>1. Runs(t)
  BY FinishRuns
<1> QED BY <1>1, RunsMoves

\* Nothing happens to the threads but for the state of an object.
LEMMA IdleMoves ==
  ASSUME IpcInv, UNCHANGED <<suspend_thread, tcb, frame, scene>>,
         life' \in [Object -> {"live", "look", "resume", "gone", "halt"}]
  PROVE  /\ IpcInv' /\ suspend_thread' = suspend_thread
         /\ \A o : Listed(o)' = Listed(o)
         /\ \A c : WokenFor(c)' = WokenFor(c)
<1>1. UNCHANGED <<suspend_thread, stat, error, timer, pc, op, timeout, ret, scene>>
  BY DEF tcb, frame
<1>2. ListsOK' /\ FramesOK'
  BY <1>1 DEF IpcInv, ListsOK, FramesOK
<1>3. WaitersKnown'
  <2>1. /\ \A t : Awaits(t)' = Awaits(t)
        /\ \A o : Listed(o)' = Listed(o)
    BY <1>1 DEF Awaits, Listed
  <2> QED BY <1>1, <2>1 DEF IpcInv, WaitersKnown
<1>4. \A c : WokenFor(c)' = WokenFor(c)
  BY <1>1 DEF WokenFor, Woken
<1>5. \A o : Listed(o)' = Listed(o)
  BY <1>1 DEF Listed
<1> QED BY <1>1, <1>2, <1>3, <1>4, <1>5 DEF IpcInv

-----------------------------------------------------------------------------
(* Counting.                                                               *)

\* Sets of threads grow and shrink by one.
LEMMA CountFacts ==
  ASSUME NEW A \in SUBSET Thread, NEW t \in Thread
  PROVE  /\ Cardinality(A) \in Nat
         /\ t \notin A => Cardinality(A \cup {t}) = Cardinality(A) + 1 /\ A \ {t} = A
         /\ t \in A => Cardinality(A \ {t}) = Cardinality(A) - 1
<1>1. IsFiniteSet(A) /\ Cardinality(A) \in Nat
  BY IpcAssumption, FS_Subset, FS_CardinalityType
<1>2. Cardinality(A \cup {t}) = IF t \in A THEN Cardinality(A) ELSE Cardinality(A) + 1
  BY <1>1, FS_AddElement
<1>3. Cardinality(A \ {t}) = IF t \in A THEN Cardinality(A) - 1 ELSE Cardinality(A)
  BY <1>1, FS_RemoveElement
<1>4. t \notin A => A \ {t} = A
  OBVIOUS
<1> QED BY <1>1, <1>2, <1>3, <1>4

LEMMA WokenCount ==
  ASSUME NEW c
  PROVE  WokenFor(c) \in SUBSET Thread /\ Cardinality(WokenFor(c)) \in Nat
<1>1. WokenFor(c) \in SUBSET Thread
  BY DEF WokenFor
<1> QED BY <1>1, IpcAssumption, FS_Subset, FS_CardinalityType

-----------------------------------------------------------------------------
(* The semaphore.                                                          *)

SemInv == SemTypeOK /\ CountMeansNoWaiter /\ PermitsConserved

LEMMA NobodyListed ==
  ASSUME NEW s \in Seq(Thread)
  PROVE  s = <<>> <=> ToSet(s) = {}
<1>1. s = <<>> => ToSet(s) = {}
  BY DEF ToSet
<1>2. s # <<>> => s[1] \in ToSet(s)
  BY DEF ToSet
<1> QED BY <1>1, <1>2

\* What the account says after n permits more.
LEMMA OweFacts ==
  ASSUME NEW v \in Int, NEW n \in Int, balance = v % Width
  PROVE  Owe(n) = (v + n) % Width
<1>1. Width \in Nat \ {0}
  BY SemaphoreAssumption
<1>2. balance \in Int
  BY <1>1, DivFacts
<1>3. (balance + n + Width) % Width = (balance + n) % Width
  <2> DEFINE x == balance + n
  <2>1. x \in Int
    BY <1>2
  <2> HIDE DEF x
  <2>2. (x + Width) % Width = x % Width
    BY <1>1, <2>1, AddWidth
  <2> QED BY <2>2 DEF x
<1>4. ((v % Width) + n) % Width = (v + n) % Width
  BY <1>1, CutEarly
<1> QED BY <1>3, <1>4 DEF Owe

\* The account goes on as the sum of the count and the permits on their way does.
LEMMA AccountKept ==
  ASSUME SemInv, NEW n \in Int, balance' = Owe(n),
         value' \in Int, Cardinality(Granted') \in Int,
         (value' + Cardinality(Granted')) % Width
           = (value + Cardinality(Granted) + n) % Width
  PROVE  PermitsConserved' /\ balance' \in 0 .. Width - 1
<1> DEFINE v == value + Cardinality(Granted)
<1>1. v \in Int
  <2>1. Granted = WokenFor("take")
    BY DEF Granted, WokenFor
  <2> QED BY <2>1, WokenCount DEF SemInv, SemTypeOK
<1>2. balance = v % Width
  BY DEF SemInv, PermitsConserved
<1> HIDE DEF v
<1>3. balance' = (v + n) % Width
  BY <1>1, <1>2, OweFacts
<1>4. v + n \in Int /\ Width \in Nat \ {0}
  BY <1>1, SemaphoreAssumption
<1>5. balance' \in 0 .. Width - 1
  <2> DEFINE x == v + n
  <2> HIDE DEF x
  <2>1. x % Width \in 0 .. Width - 1
    BY <1>4, DivFacts DEF x
  <2> QED BY <1>3, <2>1 DEF x
<1>6. (value' + Cardinality(Granted')) % Width = balance'
  BY <1>3 DEF v
<1> QED BY <1>5, <1>6 DEF PermitsConserved, Granted

LEMMA SemThreadKeeps ==
  ASSUME IpcInv, SemInv, NEW t \in Thread, SemThread(t)
  PROVE  IpcInv' /\ Others("sem") /\ SemInv'
<1> DEFINE C == Cardinality(Granted)
<1>0. /\ "sem" \in Object /\ "take" \in WaitCalls /\ ObjectOf("take") = "sem"
      /\ {"EOK", "ETIMEOUT"} \subseteq Result /\ "take" \in Calls \cup {"none"}
      /\ Granted = WokenFor("take") /\ Granted' = WokenFor("take")'
      /\ Granted \in SUBSET Thread /\ C \in Nat
      /\ value \in 0 .. Width - 1 /\ Width \in Nat \ {0, 1}
  BY SemaphoreAssumption, WokenCount
     DEF Object, WaitCalls, ObjectOf, Result, Error, Calls, Granted, WokenFor, SemInv, SemTypeOK
<1>1. CASE TakeNow(t)
  <2>1. stat[t] = "ready" /\ IsAt(t, "sem") /\ t \notin Granted
    BY <1>0, <1>1, CallerFacts DEF TakeNow, Enters
  <2>2. /\ IpcInv' /\ Others("sem")
        /\ suspend_thread'["sem"] = suspend_thread["sem"]
        /\ Granted' = Granted \ {t}
    BY <1>0, <1>1, <2>1, FinishMoves DEF TakeNow, tcb
  <2>3. Cardinality(Granted') = C
    BY <2>1, <2>2, <1>0, CountFacts
  <2>4. value > 0 /\ value' = value - 1 /\ balance' = Owe(-1)
    BY <1>1 DEF TakeNow
  <2>5. (value' + Cardinality(Granted')) % Width = (value + C + (-1)) % Width
    <3>1. value' + Cardinality(Granted') = value + C + (-1)
      BY <1>0, <2>3, <2>4
    <3> QED BY <3>1
  <2>6. PermitsConserved' /\ balance' \in 0 .. Width - 1
    <3>1. value' \in Int /\ Cardinality(Granted') \in Int /\ -1 \in Int
      BY <1>0, <2>3, <2>4
    <3> QED BY <2>4, <2>5, <3>1, AccountKept
  <2>7. CountMeansNoWaiter'
    BY <2>2, <2>4 DEF SemInv, CountMeansNoWaiter
  <2> QED BY <1>0, <2>2, <2>4, <2>6, <2>7 DEF SemInv, SemTypeOK
<1>2. CASE TakeRefused(t)
  <2>1. stat[t] = "ready" /\ IsAt(t, "sem") /\ t \notin Granted
    BY <1>0, <1>2, CallerFacts DEF TakeRefused, Enters
  <2>2. /\ IpcInv' /\ Others("sem")
        /\ suspend_thread'["sem"] = suspend_thread["sem"]
        /\ Granted' = Granted \ {t}
    BY <1>0, <1>2, <2>1, FinishMoves DEF TakeRefused, tcb
  <2>3. Granted' = Granted
    BY <2>1, <2>2
  <2>4. UNCHANGED semVars
    BY <1>2 DEF TakeRefused
  <2> QED BY <2>2, <2>3, <2>4
          DEF SemInv, SemTypeOK, CountMeansNoWaiter, PermitsConserved, semVars, Granted
<1>3. CASE TakeWait(t)
  <2>1. stat[t] = "ready" /\ IsAt(t, "sem") /\ t \notin Granted
    BY <1>0, <1>3, CallerFacts DEF TakeWait, Enters
  <2>2. PICK limit \in Limits \ {"none"} : Suspend(t, "sem", "take", limit)
    BY <1>3 DEF TakeWait
  <2>3. limit \in AllLimits /\ UNCHANGED <<life, scene>>
    BY <1>3, IpcAssumption DEF TakeWait
  <2>4. /\ IpcInv' /\ Others("sem")
        /\ \A c \in WaitCalls : WokenFor(c)' = WokenFor(c) \ {t}
    BY <1>0, <2>1, <2>2, <2>3, SuspendMoves
  <2>5. Granted' = Granted
    BY <1>0, <2>1, <2>4
  <2>6. value = 0 /\ UNCHANGED semVars
    BY <1>3 DEF TakeWait
  <2>7. SemTypeOK' /\ CountMeansNoWaiter'
    BY <2>6 DEF SemInv, SemTypeOK, CountMeansNoWaiter, semVars
  <2>8. PermitsConserved'
    BY <2>5, <2>6 DEF SemInv, PermitsConserved, semVars
  <2> QED BY <2>4, <2>7, <2>8 DEF SemInv
<1>4. CASE TakeGranted(t)
  <2>1. stat[t] = "ready" /\ IsAt(t, "sem") /\ t \in Granted
    BY <1>0, <1>4, CallerFacts DEF TakeGranted
  <2>2. /\ IpcInv' /\ Others("sem")
        /\ suspend_thread'["sem"] = suspend_thread["sem"]
        /\ Granted' = Granted \ {t}
    BY <1>0, <1>4, <2>1, FinishMoves DEF TakeGranted, tcb
  <2>3. Cardinality(Granted') = C - 1
    BY <2>1, <2>2, <1>0, CountFacts
  <2>4. value' = value /\ balance' = Owe(-1)
    BY <1>4 DEF TakeGranted
  <2>5. (value' + Cardinality(Granted')) % Width = (value + C + (-1)) % Width
    <3>1. value' + Cardinality(Granted') = value + C + (-1)
      BY <1>0, <2>3, <2>4
    <3> QED BY <3>1
  <2>6. PermitsConserved' /\ balance' \in 0 .. Width - 1
    <3>1. value' \in Int /\ Cardinality(Granted') \in Int /\ -1 \in Int
      BY <1>0, <2>3, <2>4
    <3> QED BY <2>4, <2>5, <3>1, AccountKept
  <2>7. CountMeansNoWaiter'
    BY <2>2, <2>4 DEF SemInv, CountMeansNoWaiter
  <2> QED BY <1>0, <2>2, <2>4, <2>6, <2>7 DEF SemInv, SemTypeOK
<1>5. CASE Release(t)
  <2>1. /\ IpcInv' /\ Others("sem")
        /\ \/ /\ Listed("sem") = {} /\ Listed("sem")' = {}
              /\ \A c \in WaitCalls : ObjectOf(c) = "sem" => WokenFor(c)' = WokenFor(c) \ {}
           \/ \E h \in Listed("sem") :
                /\ h \in Thread /\ stat[h] = "suspend"
                /\ Listed("sem")' = Listed("sem") \ {h}
                /\ \A c \in WaitCalls : ObjectOf(c) = "sem" =>
                     WokenFor(c)' = (WokenFor(c) \ {}) \cup {h}
    <3>1. /\ ResumeFirst("sem") /\ error' = error /\ UNCHANGED <<frame, life, scene>>
      BY <1>5 DEF Release
    <3>2. FramesOK' /\ {} \in SUBSET Thread
      BY <3>1 DEF IpcInv, FramesOK, frame
    <3> DEFINE R == {}
    <3>3. R \in SUBSET Thread
      OBVIOUS
    <3>6. R = {}
      OBVIOUS
    <3> HIDE DEF R
    <3>4. /\ \A u \in R : stat[u] = "ready" /\ pc'[u] # "wait" /\ IsAt(u, "sem")
          /\ \A u \in Thread \ R :
               pc'[u] = pc[u] /\ op'[u] = op[u] /\ timeout'[u] = timeout[u]
          /\ \A u \in Thread \ R : error'[u] = error[u]
      BY <3>1, <3>6 DEF frame
    <3>5. /\ IpcInv' /\ Others("sem")
          /\ \/ /\ Listed("sem") = {} /\ Listed("sem")' = {}
                /\ \A c \in WaitCalls : ObjectOf(c) = "sem" => WokenFor(c)' = WokenFor(c) \ R
             \/ \E h \in Listed("sem") :
                  /\ h \in Thread /\ stat[h] = "suspend"
                  /\ Listed("sem")' = Listed("sem") \ {h}
                  /\ \A c \in WaitCalls : ObjectOf(c) = "sem" =>
                       WokenFor(c)' = (WokenFor(c) \ R) \cup {h}
      <4>1. "sem" \in Object
        BY <1>0
      <4> QED BY <3>1, <3>2, <3>3, <3>4, <4>1, ResumeMoves
    <3> QED BY <3>6, <3>5
  <2>2. /\ suspend_thread["sem"] \in Seq(Thread) /\ suspend_thread'["sem"] \in Seq(Thread)
    BY <1>0, <2>1 DEF IpcInv, ListsOK
  <2>3. /\ suspend_thread["sem"] = <<>> <=> Listed("sem") = {}
        /\ suspend_thread'["sem"] = <<>> <=> Listed("sem")' = {}
    BY <2>2, NobodyListed DEF Listed
  <2>4. balance' = Owe(1)
        /\ value' = IF Listed("sem") = {} THEN (value + 1) % Width ELSE value
    BY <1>5, <2>3 DEF Release
  <2>5. CASE Listed("sem") = {}
    <3>1. Granted' = Granted /\ Listed("sem")' = {}
      BY <1>0, <2>1, <2>5
    <3>2. value' = (value + 1) % Width /\ value' \in 0 .. Width - 1
      <4>1. value + 1 \in Int /\ Width \in Nat \ {0}
        BY <1>0
      <4>2. (value + 1) % Width \in 0 .. Width - 1
        BY <4>1, DivFacts
      <4> QED BY <2>4, <2>5, <4>2
    <3>3. (value' + Cardinality(Granted')) % Width = (value + C + 1) % Width
      <4>1. (((value + 1) % Width) + C) % Width = (value + 1 + C) % Width
        <5> DEFINE x == value + 1
        <5>1. x \in Int /\ Width \in Nat \ {0}
          BY <1>0
        <5>2. C \in Int
          BY <1>0
        <5> HIDE DEF x, C
        <5>3. ((x % Width) + C) % Width = (x + C) % Width
          BY <5>1, <5>2, CutEarly
        <5> QED BY <5>3 DEF x
      <4>2. value + 1 + C = value + C + 1
        BY <1>0
      <4> QED BY <3>1, <3>2, <4>1, <4>2
    <3>4. PermitsConserved' /\ balance' \in 0 .. Width - 1
      <4>1. value' \in Int /\ Cardinality(Granted') \in Int /\ 1 \in Int
        BY <1>0, <3>1, <3>2
      <4> QED BY <2>4, <3>3, <4>1, AccountKept
    <3>5. CountMeansNoWaiter'
      BY <2>3, <3>1 DEF CountMeansNoWaiter
    <3> QED BY <2>1, <3>2, <3>4, <3>5 DEF SemInv, SemTypeOK
  <2>6. CASE Listed("sem") # {}
    <3>1. PICK h \in Listed("sem") :
            h \in Thread /\ stat[h] = "suspend" /\ Granted' = Granted \cup {h}
      BY <1>0, <2>1, <2>6
    <3>2. h \notin Granted
      BY <3>1 DEF Granted, Woken
    <3>3. Cardinality(Granted') = C + 1
      BY <1>0, <3>1, <3>2, CountFacts
    <3>4. value' = value
      BY <2>4, <2>6
    <3>5. (value' + Cardinality(Granted')) % Width = (value + C + 1) % Width
      <4>1. value' + Cardinality(Granted') = value + C + 1
        BY <1>0, <3>3, <3>4
      <4> QED BY <4>1
    <3>6. PermitsConserved' /\ balance' \in 0 .. Width - 1
      <4>1. value' \in Int /\ Cardinality(Granted') \in Int /\ 1 \in Int
        BY <1>0, <3>3, <3>4
      <4> QED BY <2>4, <3>5, <4>1, AccountKept
    <3>7. CountMeansNoWaiter'
      BY <1>0, <2>3, <2>6, <3>4 DEF SemInv, CountMeansNoWaiter
    <3> QED BY <1>0, <2>1, <3>4, <3>6, <3>7 DEF SemInv, SemTypeOK
  <2> QED BY <2>5, <2>6
<1> QED BY <1>1, <1>2, <1>3, <1>4, <1>5 DEF SemThread

LEMMA SemStepKeeps ==
  ASSUME IpcInv, SemInv, SemStep
  PROVE  IpcInv' /\ Others("sem") /\ SemInv'
<1>1. CASE SemReset
  <2>0. "sem" \in Object /\ "take" \in WaitCalls /\ ObjectOf("take") = "sem"
    BY DEF Object, WaitCalls, ObjectOf
  <2>1. /\ IpcInv' /\ Others("sem")
        /\ Listed("sem")' = {}
        /\ WokenFor("take")' = WokenFor("take")
    BY <1>1, <2>0, ResetMoves DEF SemReset
  <2>2. Granted' = Granted /\ Cardinality(Granted) \in Nat
    BY <2>1, WokenCount DEF Granted, WokenFor
  <2>3. PICK v \in 0 .. Width - 1 :
          value' = v /\ balance' = (v + Cardinality(Granted)) % Width
    BY <1>1 DEF SemReset, SetValue
  <2>4. SemTypeOK'
    <3> DEFINE x == v + Cardinality(Granted)
    <3>1. x \in Int /\ Width \in Nat \ {0}
      BY <2>2, SemaphoreAssumption
    <3> HIDE DEF x
    <3>2. x % Width \in 0 .. Width - 1
      BY <3>1, DivFacts
    <3> QED BY <2>3, <3>2 DEF SemTypeOK, x
  <2>5. CountMeansNoWaiter'
    <3>1. suspend_thread'["sem"] \in Seq(Thread)
      BY <2>0, <2>1 DEF IpcInv, ListsOK
    <3>2. suspend_thread'["sem"] = <<>>
      BY <2>1, <3>1, NobodyListed DEF Listed
    <3> QED BY <3>2 DEF CountMeansNoWaiter
  <2>6. PermitsConserved'
    BY <2>2, <2>3 DEF PermitsConserved, Granted
  <2> QED BY <2>1, <2>4, <2>5, <2>6 DEF SemInv
<1>2. CASE \E t \in Thread : SemThread(t)
  BY <1>2, SemThreadKeeps
<1> QED BY <1>1, <1>2 DEF SemStep

-----------------------------------------------------------------------------
(* The event.                                                              *)

LEMMA EventThreadKeeps ==
  ASSUME IpcInv, NEW t \in Thread, EventThread(t)
  PROVE  IpcInv' /\ Others("event")
<1>0. /\ "event" \in Object /\ "event_recv" \in WaitCalls /\ ObjectOf("event_recv") = "event"
      /\ {"event_recv", "event_send"} \subseteq Calls \cup {"none"}
      /\ {"EOK", "ERROR", "ETIMEOUT"} \subseteq Result
      /\ {"EOK", "ETIMEOUT"} \subseteq Error
  BY DEF Object, WaitCalls, ObjectOf, Calls, Result, Error
<1>1. ASSUME NEW call, Enters(t, call, "event")
      PROVE  stat[t] = "ready" /\ IsAt(t, "event")
  BY <1>1, CallerFacts DEF Enters
<1>2. CASE EventRecvNothing(t)
  BY <1>0, <1>1, <1>2, FinishMoves DEF EventRecvNothing, tcb
<1>3. CASE EventRecvNow(t)
  <2>1. /\ Enters(t, "event_recv", "event") /\ Finish(t, "event_recv", "EOK")
        /\ error' = [error EXCEPT ![t] = "EOK"]
        /\ UNCHANGED <<suspend_thread, stat, timer, life, scene>>
    BY <1>3 DEF EventRecvNow
  <2> QED BY <1>0, <1>1, <2>1, FinishMoves
<1>4. CASE EventRecvRefused(t)
  <2>1. /\ Enters(t, "event_recv", "event") /\ Finish(t, "event_recv", "ETIMEOUT")
        /\ error' = [error EXCEPT ![t] = "ETIMEOUT"]
        /\ UNCHANGED <<suspend_thread, stat, timer, life, scene>>
    BY <1>4 DEF EventRecvRefused
  <2> QED BY <1>0, <1>1, <2>1, FinishMoves
<1>5. CASE EventRecvWait(t)
  <2>1. PICK limit \in Limits \ {"none"} : Suspend(t, "event", "event_recv", limit)
    BY <1>5 DEF EventRecvWait
  <2>2. /\ limit \in AllLimits /\ UNCHANGED <<life, scene>>
        /\ stat[t] = "ready" /\ IsAt(t, "event")
    BY <1>1, <1>5, IpcAssumption DEF EventRecvWait
  <2> QED BY <1>0, <2>1, <2>2, SuspendMoves
<1>6. CASE EventRecvWoken(t)
  <2>1. stat[t] = "ready" /\ IsAt(t, "event")
    BY <1>0, <1>6, CallerFacts DEF EventRecvWoken
  <2> QED BY <1>0, <1>6, <2>1, FinishMoves DEF EventRecvWoken, tcb
<1>7. CASE EventSendNothing(t)
  BY <1>0, <1>1, <1>7, FinishMoves DEF EventSendNothing, tcb
<1>8. CASE EventSend(t)
  <2>1. PICK W : ResumeAll("event", W) /\ W \subseteq Listed("event")
    <3> DEFINE list == suspend_thread["event"]
    <3>1. PICK bits \in SUBSET Bits \ {{}} :
            LET left == Left(set \cup bits, list)
                At   == {k \in 1 .. Len(list) :
                           Satisfies(left[k - 1], event_set[list[k]], event_info[list[k]])}
            IN  ResumeAll("event", {list[k] : k \in At})
      BY <1>8 DEF EventSend, SendTo
    <3> DEFINE left == Left(set \cup bits, list)
               At   == {k \in 1 .. Len(list) :
                          Satisfies(left[k - 1], event_set[list[k]], event_info[list[k]])}
    <3>2. ResumeAll("event", {list[k] : k \in At})
      BY <3>1
    <3>3. list \in Seq(Thread)
      BY <1>0 DEF IpcInv, ListsOK
    <3>4. At \subseteq 1 .. Len(list)
      OBVIOUS
    <3> HIDE DEF list, At
    <3>5. \A k \in At : list[k] \in ToSet(list)
      BY <3>3, <3>4 DEF ToSet
    <3> QED BY <3>2, <3>5 DEF Listed, list
  <2>2. Leave(W)
    BY <1>0, <2>1, LeaveAll
  <2>3. UNCHANGED <<error, frame, life, scene>>
    BY <1>8 DEF EventSend, SendTo
  <2>4. FramesOK'
    BY <2>3 DEF IpcInv, FramesOK, frame
  <2>5. PICK E : E = {}
    OBVIOUS
  <2>6. Moves(E, W, E)
    BY <2>2, <2>3, <2>4, <2>5 DEF Moves, frame
  <2>7. \A u \in E : IsAt(u, "event")
    BY <2>5
  <2> QED BY <1>0, <2>1, <2>6, <2>7, MovesOthers
<1> QED BY <1>2, <1>3, <1>4, <1>5, <1>6, <1>7, <1>8 DEF EventThread

LEMMA EventStepKeeps ==
  ASSUME IpcInv, EventStep
  PROVE  IpcInv' /\ Others("event")
<1>1. CASE EventReset
  <2>1. "event" \in Object
    BY DEF Object
  <2> QED BY <1>1, <2>1, ResetMoves DEF EventReset
<1>2. CASE \E t \in Thread : EventThread(t)
  BY <1>2, EventThreadKeeps
<1> QED BY <1>1, <1>2 DEF EventStep

-----------------------------------------------------------------------------
(* The message queue.                                                      *)

MqInv == entry \in Nat /\ NoMessageIsMissed

\* NoMessageIsMissed by the sets.
LEMMA MissedMessage ==
  ASSUME IpcInv
  PROVE  NoMessageIsMissed <=>
           (Listed("mq") # {} => entry <= Cardinality(WokenFor("mq_recv")))
<1>1. "mq" \in Object
  BY DEF Object
<1>2. suspend_thread["mq"] \in Seq(Thread)
  BY <1>1 DEF IpcInv, ListsOK
<1>3. suspend_thread["mq"] = <<>> <=> Listed("mq") = {}
  BY <1>2, NobodyListed DEF Listed
<1> QED BY <1>3 DEF NoMessageIsMissed, WokenFor

LEMMA MissedMessageNext ==
  ASSUME IpcInv'
  PROVE  NoMessageIsMissed' <=>
           (Listed("mq")' # {} => entry' <= Cardinality(WokenFor("mq_recv")'))
<1>1. "mq" \in Object
  BY DEF Object
<1>2. suspend_thread'["mq"] \in Seq(Thread)
  BY <1>1 DEF IpcInv, ListsOK
<1>3. suspend_thread'["mq"] = <<>> <=> Listed("mq")' = {}
  BY <1>2, NobodyListed DEF Listed
<1> QED BY <1>3 DEF NoMessageIsMissed, WokenFor

\* The time left is one of the limits.
LEMMA TimeLeftFacts ==
  ASSUME IpcInv, NEW t \in Thread
  PROVE  TimeLeft(t) \subseteq AllLimits
BY IpcAssumption DEF TimeLeft, IpcInv, FramesOK, AllLimits

LEMMA MqThreadKeeps ==
  ASSUME IpcInv, MqInv, NEW t \in Thread, MqThread(t)
  PROVE  IpcInv' /\ Others("mq") /\ MqInv'
<1> DEFINE N == Cardinality(WokenFor("mq_recv"))
           L == Listed("mq")
<1>0. /\ "mq" \in Object /\ "mq_recv" \in WaitCalls /\ ObjectOf("mq_recv") = "mq"
      /\ SendKinds \cup {"mq_recv"} \subseteq Calls \cup {"none"}
      /\ {"EOK", "ERROR", "EFULL", "ETIMEOUT"} \subseteq Result
      /\ "ETIMEOUT" \in Error
  BY DEF Object, WaitCalls, ObjectOf, Calls, Result, Error, SendKinds
<1>a. entry \in Nat /\ N \in Nat /\ (L # {} => entry <= N)
  BY WokenCount, MissedMessage DEF MqInv
<1>b. WokenFor("mq_recv") \in SUBSET Thread
  BY WokenCount
<1>c. pc[t] # "wait" => stat[t] = "ready" /\ IsAt(t, "mq") /\ t \notin WokenFor("mq_recv")
  BY CallerFacts
<1>d. ASSUME Looks(t)
      PROVE  /\ stat[t] = "ready" /\ IsAt(t, "mq")
             /\ pc[t] = "wait" <=> t \in WokenFor("mq_recv")
  <2>1. CASE pc[t] # "wait"
    BY <2>1, <1>c
  <2>2. CASE pc[t] = "wait"
    <3>1. Woken(t, "mq_recv")
      BY <1>d, <2>2 DEF Looks, Enters
    <3> QED BY <3>1, <2>2, <1>0, CallerFacts
  <2> QED BY <2>1, <2>2
<1>e. \A kind, o : Enters(t, kind, o) => pc[t] = "idle"
  BY DEF Enters
\* The step leaves the queue, and the threads woken for it, alone.
<1>f. ASSUME IpcInv', Others("mq"), L' = L, entry' = entry,
             WokenFor("mq_recv")' = WokenFor("mq_recv") \ {t}, pc[t] # "wait"
      PROVE  MqInv'
  <2>1. WokenFor("mq_recv")' = WokenFor("mq_recv")
    BY <1>f, <1>c
  <2>2. L' # {} => entry' <= Cardinality(WokenFor("mq_recv")')
    BY <1>a, <1>f, <2>1
  <2> QED BY <1>a, <1>f, <2>2, MissedMessageNext DEF MqInv
\* The queue is empty.
<1>g. ASSUME IpcInv', entry' = 0
      PROVE  MqInv'
  <2>1. WokenFor("mq_recv")' \in SUBSET Thread
    BY DEF WokenFor
  <2>2. Cardinality(WokenFor("mq_recv")') \in Nat
    BY <2>1, IpcAssumption, FS_Subset, FS_CardinalityType
  <2> QED BY <1>g, <2>2, MissedMessageNext DEF MqInv
<1>1. CASE MqTooLong(t)
  <2>1. PICK kind \in SendKinds : Enters(t, kind, "mq") /\ Finish(t, kind, "ERROR")
    BY <1>1 DEF MqTooLong
  <2>2. UNCHANGED <<suspend_thread, stat, timer, error, life, scene, entry>>
    BY <1>1 DEF MqTooLong, tcb, mqVars
  <2>3. pc[t] # "wait" /\ kind \in Calls \cup {"none"}
    BY <1>0, <1>e, <2>1
  <2>4. /\ IpcInv' /\ Others("mq") /\ L' = L
        /\ WokenFor("mq_recv")' = WokenFor("mq_recv") \ {t}
    BY <1>0, <1>c, <2>1, <2>2, <2>3, FinishMoves
  <2> QED BY <1>f, <2>2, <2>3, <2>4
<1>2. CASE MqFull(t)
  <2>1. PICK kind \in SendKinds : Enters(t, kind, "mq") /\ Finish(t, kind, "EFULL")
    BY <1>2 DEF MqFull
  <2>2. UNCHANGED <<suspend_thread, stat, timer, error, life, scene, entry>>
    BY <1>2 DEF MqFull, tcb, mqVars
  <2>3. pc[t] # "wait" /\ kind \in Calls \cup {"none"}
    BY <1>0, <1>e, <2>1
  <2>4. /\ IpcInv' /\ Others("mq") /\ L' = L
        /\ WokenFor("mq_recv")' = WokenFor("mq_recv") \ {t}
    BY <1>0, <1>c, <2>1, <2>2, <2>3, FinishMoves
  <2> QED BY <1>f, <2>2, <2>3, <2>4
<1>3. CASE MqTakeFree(t)
  <2>1. PICK kind \in SendKinds : Enters(t, kind, "mq") /\ op' = [op EXCEPT ![t] = kind]
    BY <1>3 DEF MqTakeFree, Reserve
  <2>2. /\ pc' = [pc EXCEPT ![t] = "fill"]
        /\ UNCHANGED <<entry, suspend_thread, stat, timer, error, timeout, ret, life, scene>>
    BY <1>3 DEF MqTakeFree, Reserve, tcb
  <2>3. pc[t] # "wait" /\ kind \in Calls \cup {"none"}
    BY <1>0, <1>e, <2>1
  <2>4. Runs(t)
    <3>1. FramesOK'
      BY <2>1, <2>2, <2>3 DEF IpcInv, FramesOK
    <3> QED BY <1>c, <2>1, <2>2, <2>3, <3>1 DEF Runs, IpcInv, FramesOK
  <2>5. /\ IpcInv' /\ Others("mq") /\ L' = L
        /\ WokenFor("mq_recv")' = WokenFor("mq_recv") \ {t}
    BY <1>0, <1>c, <2>2, <2>3, <2>4, RunsMoves
  <2> QED BY <1>f, <2>2, <2>3, <2>5
<1>4. CASE MqLink(t)
  <2>1. /\ pc[t] = "fill" /\ entry' = entry + 1
        /\ Finish(t, op[t], "EOK") /\ UNCHANGED <<error, life, scene>>
        /\ ResumeFirst("mq")
    BY <1>4 DEF MqLink, Deliver
  <2>2. stat[t] = "ready" /\ IsAt(t, "mq") /\ t \notin WokenFor("mq_recv")
    BY <1>c, <2>1
  <2>3. op[t] \in Calls \cup {"none"} /\ "EOK" \in Result
    BY <1>0 DEF IpcInv, FramesOK
  <2>4. Runs(t)
    BY <2>1, <2>2, <2>3, FinishRuns
  <2>5. PICK R \in SUBSET Thread : R = {t}
    OBVIOUS
  <2>6. /\ \A u \in R : stat[u] = "ready" /\ pc'[u] # "wait" /\ IsAt(u, "mq")
        /\ \A u \in Thread \ R :
             pc'[u] = pc[u] /\ op'[u] = op[u] /\ timeout'[u] = timeout[u]
        /\ \A u \in Thread \ R : error'[u] = error[u]
        /\ FramesOK'
    BY <2>2, <2>4, <2>5 DEF Runs
  <2>7. /\ IpcInv' /\ Others("mq")
        /\ \/ L = {} /\ L' = {}
           \/ \E h \in L :
                /\ h \in Thread /\ stat[h] = "suspend"
                /\ WokenFor("mq_recv")' = (WokenFor("mq_recv") \ R) \cup {h}
    BY <1>0, <2>1, <2>6, ResumeMoves
  <2>8. CASE L' = {}
    BY <1>a, <2>1, <2>7, <2>8, MissedMessageNext DEF MqInv
  <2>9. CASE L' # {}
    <3>1. PICK h \in Thread :
            /\ stat[h] = "suspend"
            /\ WokenFor("mq_recv")' = (WokenFor("mq_recv") \ R) \cup {h}
            /\ L # {}
      BY <2>7, <2>9
    <3>2. h \notin WokenFor("mq_recv") /\ WokenFor("mq_recv") \ R = WokenFor("mq_recv")
      BY <2>2, <2>5, <3>1 DEF WokenFor, Woken
    <3>3. Cardinality(WokenFor("mq_recv")') = N + 1
      BY <1>b, <3>1, <3>2, CountFacts
    <3> QED BY <1>a, <2>1, <2>7, <3>1, <3>3, MissedMessageNext DEF MqInv
  <2> QED BY <2>7, <2>8, <2>9
<1>5. CASE MqTake(t)
  <2>1. /\ Looks(t) /\ entry # 0 /\ entry' = entry - 1
        /\ pc' = [pc EXCEPT ![t] = "drain"]
        /\ op' = [op EXCEPT ![t] = "mq_recv"]
        /\ timeout' = [timeout EXCEPT ![t] = "none"]
        /\ UNCHANGED <<suspend_thread, stat, timer, error, ret, life, scene>>
    BY <1>5 DEF MqTake, Unlink, tcb
  <2>2. stat[t] = "ready" /\ IsAt(t, "mq")
    BY <1>d, <2>1
  <2>3. Runs(t)
    <3>1. "none" \in AllLimits
      BY DEF AllLimits
    <3>2. FramesOK'
      BY <1>0, <2>1, <3>1 DEF IpcInv, FramesOK
    <3> QED BY <2>1, <2>2, <3>2 DEF Runs, IpcInv, FramesOK
  <2>4. /\ IpcInv' /\ Others("mq") /\ L' = L
        /\ WokenFor("mq_recv")' = WokenFor("mq_recv") \ {t}
    BY <1>0, <2>1, <2>2, <2>3, RunsMoves
  <2>5. Cardinality(WokenFor("mq_recv")') >= N - 1 /\ Cardinality(WokenFor("mq_recv")') \in Nat
    <3>1. CASE t \in WokenFor("mq_recv")
      <4>1. Cardinality(WokenFor("mq_recv") \ {t}) = N - 1 /\ N # 0
        <5>1. WokenFor("mq_recv") # {} /\ IsFiniteSet(WokenFor("mq_recv"))
          BY <1>b, <3>1, IpcAssumption, FS_Subset
        <5> QED BY <1>b, <3>1, <5>1, CountFacts, FS_EmptySet
      <4> QED BY <1>a, <2>4, <4>1
    <3>2. CASE t \notin WokenFor("mq_recv")
      BY <1>a, <1>b, <2>4, <3>2, CountFacts
    <3> QED BY <3>1, <3>2
  <2> QED BY <1>a, <2>1, <2>4, <2>5, MissedMessageNext DEF MqInv
<1>6. CASE MqFree(t)
  <2>1. /\ pc[t] = "drain" /\ Finish(t, "mq_recv", "EOK")
        /\ UNCHANGED <<entry, suspend_thread, stat, timer, error, life, scene>>
    BY <1>6 DEF MqFree, tcb
  <2>2. pc[t] # "wait"
    BY <2>1
  <2>3. /\ IpcInv' /\ Others("mq") /\ L' = L
        /\ WokenFor("mq_recv")' = WokenFor("mq_recv") \ {t}
    BY <1>0, <1>c, <2>1, <2>2, FinishMoves
  <2> QED BY <1>f, <2>1, <2>2, <2>3
<1>7. CASE MqEmpty(t)
  <2>1. /\ Looks(t) /\ entry = 0 /\ entry' = entry /\ Finish(t, "mq_recv", "ETIMEOUT")
        /\ error' = [error EXCEPT ![t] = IF pc[t] = "wait" THEN "ETIMEOUT" ELSE @]
        /\ UNCHANGED <<suspend_thread, stat, timer, life, scene>>
    BY <1>7 DEF MqEmpty, mqVars
  <2>2. error' = error \/ \E e \in Error : error' = [error EXCEPT ![t] = e]
    BY <1>0, <2>1 DEF IpcInv, FramesOK
  <2>3. IpcInv' /\ Others("mq")
    BY <1>0, <1>d, <2>1, <2>2, FinishMoves
  <2> QED BY <1>g, <2>1, <2>3
<1>8. CASE MqWait(t)
  <2>1. PICK left \in TimeLeft(t) \ {"none"} : Suspend(t, "mq", "mq_recv", left)
    BY <1>8 DEF MqWait
  <2>2. Looks(t) /\ entry = 0 /\ entry' = entry /\ UNCHANGED <<life, scene>>
    BY <1>8 DEF MqWait, mqVars
  <2>3. left \in AllLimits
    BY TimeLeftFacts
  <2>4. IpcInv' /\ Others("mq")
    BY <1>0, <1>d, <2>1, <2>2, <2>3, SuspendMoves
  <2> QED BY <1>g, <2>2, <2>4
<1> QED BY <1>1, <1>2, <1>3, <1>4, <1>5, <1>6, <1>7, <1>8 DEF MqThread

LEMMA MqStepKeeps ==
  ASSUME IpcInv, MqInv, MqStep
  PROVE  IpcInv' /\ Others("mq") /\ MqInv'
<1>1. CASE MqReset
  <2>1. "mq" \in Object
    BY DEF Object
  <2>2. IpcInv' /\ Others("mq") /\ Listed("mq")' = {}
    BY <1>1, <2>1, ResetMoves DEF MqReset
  <2>3. entry' = 0
    BY <1>1 DEF MqReset
  <2> QED BY <2>2, <2>3, MissedMessageNext DEF MqInv
<1>2. CASE \E t \in Thread : MqThread(t)
  BY <1>2, MqThreadKeeps
<1> QED BY <1>1, <1>2 DEF MqStep

-----------------------------------------------------------------------------
(* The memory pool.                                                        *)

\* Nobody is missed, for the counter counts at least those who wait.
MpInv ==
  /\ block_free_count \in Nat /\ suspend_thread_count \in Nat
  /\ Cardinality(Listed("mempool")) <= suspend_thread_count
  /\ NoBlockIsMissed

LEMMA MissedBlock ==
  ASSUME IpcInv
  PROVE  /\ suspend_thread["mempool"] = <<>> <=> Listed("mempool") = {}
         /\ NoBlockIsMissed <=>
              (Listed("mempool") # {} => block_free_count <= Cardinality(WokenFor("mp_alloc")))
<1>1. "mempool" \in Object
  BY DEF Object
<1>2. suspend_thread["mempool"] \in Seq(Thread)
  BY <1>1 DEF IpcInv, ListsOK
<1>3. suspend_thread["mempool"] = <<>> <=> Listed("mempool") = {}
  BY <1>2, NobodyListed DEF Listed
<1> QED BY <1>3 DEF NoBlockIsMissed, WokenFor

LEMMA MissedBlockNext ==
  ASSUME IpcInv'
  PROVE  NoBlockIsMissed' <=>
           (Listed("mempool")' # {} =>
              block_free_count' <= Cardinality(WokenFor("mp_alloc")'))
<1>1. "mempool" \in Object
  BY DEF Object
<1>2. suspend_thread'["mempool"] \in Seq(Thread)
  BY <1>1 DEF IpcInv, ListsOK
<1>3. suspend_thread'["mempool"] = <<>> <=> Listed("mempool")' = {}
  BY <1>2, NobodyListed DEF Listed
<1> QED BY <1>3 DEF NoBlockIsMissed, WokenFor

LEMMA ListedCount ==
  ASSUME IpcInv, NEW o \in Object
  PROVE  Listed(o) \in SUBSET Thread /\ Cardinality(Listed(o)) \in Nat
<1>1. Listed(o) \in SUBSET Thread
  BY DEF Listed, ToSet, IpcInv, ListsOK
<1> QED BY <1>1, IpcAssumption, FS_Subset, FS_CardinalityType

\* A waiter that is resumed has no error.
LEMMA HeadUnharmed ==
  ASSUME IpcInv, NEW o \in Object, suspend_thread[o] # <<>>,
         error' = [error EXCEPT ![Head(suspend_thread[o])] = "EOK"]
  PROVE  error' = error
<1> DEFINE h == Head(suspend_thread[o])
<1>1. suspend_thread[o] \in Seq(Thread) /\ NoDup(suspend_thread[o])
  BY DEF IpcInv, ListsOK, WaitersKnown
<1>2. h \in Listed(o)
  BY <1>1, TailFacts DEF Listed
<1>3. h \in Thread
  BY <1>1, <1>2 DEF Listed, ToSet
<1>4. error[h] = "EOK"
  BY <1>2, <1>3 DEF IpcInv, WaitersKnown
<1> QED BY <1>3, <1>4 DEF IpcInv, FramesOK

LEMMA MpThreadKeeps ==
  ASSUME IpcInv, MpInv, NEW t \in Thread, MpThread(t)
  PROVE  IpcInv' /\ Others("mempool") /\ MpInv'
<1> DEFINE N == Cardinality(WokenFor("mp_alloc"))
           L == Listed("mempool")
<1>0. /\ "mempool" \in Object /\ "mp_alloc" \in WaitCalls /\ ObjectOf("mp_alloc") = "mempool"
      /\ "mp_alloc" \in Calls \cup {"none"}
      /\ {"EOK", "ETIMEOUT"} \subseteq Result
  BY DEF Object, WaitCalls, ObjectOf, Calls, Result, Error
<1>a. /\ block_free_count \in Nat /\ suspend_thread_count \in Nat /\ N \in Nat
      /\ L \in SUBSET Thread /\ Cardinality(L) \in Nat /\ Cardinality(L) <= suspend_thread_count
      /\ L # {} => block_free_count <= N
  BY <1>0, WokenCount, ListedCount, MissedBlock DEF MpInv
<1>b. WokenFor("mp_alloc") \in SUBSET Thread
  BY WokenCount
<1>c. pc[t] # "wait" =>
        stat[t] = "ready" /\ IsAt(t, "mempool") /\ t \notin WokenFor("mp_alloc")
  BY CallerFacts
<1>d. MpLooks(t) => stat[t] = "ready" /\ IsAt(t, "mempool")
  BY <1>0, <1>c, CallerFacts DEF MpLooks, Enters
<1>e. \A call : Enters(t, call, "mempool") => pc[t] = "idle"
  BY DEF Enters
\* The pool is empty.
<1>f. ASSUME IpcInv', block_free_count' = 0, suspend_thread_count' \in Nat,
             Cardinality(L') <= suspend_thread_count'
      PROVE  MpInv'
  <2>1. WokenFor("mp_alloc")' \in SUBSET Thread
    BY DEF WokenFor
  <2>2. Cardinality(WokenFor("mp_alloc")') \in Nat
    BY <2>1, IpcAssumption, FS_Subset, FS_CardinalityType
  <2> QED BY <1>f, <2>2, MissedBlockNext DEF MpInv
<1>1. CASE MpAlloc(t)
  <2>1. /\ MpLooks(t) /\ block_free_count # 0 /\ block_free_count' = block_free_count - 1
        /\ Finish(t, "mp_alloc", "EOK")
        /\ UNCHANGED <<suspend_thread_count, suspend_thread, stat, timer, error, life, scene>>
    BY <1>1 DEF MpAlloc, Lend, tcb
  <2>2. /\ IpcInv' /\ Others("mempool") /\ L' = L
        /\ WokenFor("mp_alloc")' = WokenFor("mp_alloc") \ {t}
    BY <1>0, <1>d, <2>1, FinishMoves
  <2>3. Cardinality(WokenFor("mp_alloc")') >= N - 1 /\ Cardinality(WokenFor("mp_alloc")') \in Nat
    <3>1. CASE t \in WokenFor("mp_alloc")
      <4>1. Cardinality(WokenFor("mp_alloc") \ {t}) = N - 1 /\ N # 0
        <5>1. WokenFor("mp_alloc") # {} /\ IsFiniteSet(WokenFor("mp_alloc"))
          BY <1>b, <3>1, IpcAssumption, FS_Subset
        <5> QED BY <1>b, <3>1, <5>1, CountFacts, FS_EmptySet
      <4> QED BY <1>a, <2>2, <4>1
    <3>2. CASE t \notin WokenFor("mp_alloc")
      <4>1. WokenFor("mp_alloc")' = WokenFor("mp_alloc")
        BY <2>2, <3>2
      <4> QED BY <1>a, <4>1
    <3> QED BY <3>1, <3>2
  <2> QED BY <1>a, <2>1, <2>2, <2>3, MissedBlockNext DEF MpInv
<1>2. CASE MpRefused(t)
  <2>1. /\ MpLooks(t) /\ block_free_count = 0 /\ Finish(t, "mp_alloc", "ETIMEOUT")
        /\ UNCHANGED <<block_free_count, suspend_thread_count,
                       suspend_thread, stat, timer, error, life, scene>>
    BY <1>2 DEF MpRefused, mpVars, tcb
  <2>2. IpcInv' /\ Others("mempool") /\ L' = L
    BY <1>0, <1>d, <2>1, FinishMoves
  <2> QED BY <1>a, <1>f, <2>1, <2>2
<1>3. CASE MpWait(t)
  <2>1. PICK left \in TimeLeft(t) \ {"none"} : Suspend(t, "mempool", "mp_alloc", left)
    BY <1>3 DEF MpWait
  <2>2. /\ MpLooks(t) /\ block_free_count = 0 /\ block_free_count' = block_free_count
        /\ suspend_thread_count' = suspend_thread_count + 1
        /\ UNCHANGED <<life, scene>>
    BY <1>3 DEF MpWait
  <2>3. left \in AllLimits
    BY TimeLeftFacts
  <2>4. IpcInv' /\ Others("mempool") /\ L' = L \cup {t} /\ t \notin L
    BY <1>0, <1>d, <2>1, <2>2, <2>3, SuspendMoves
  <2>5. Cardinality(L') = Cardinality(L) + 1
    BY <1>a, <2>4, CountFacts
  <2> QED BY <1>a, <1>f, <2>2, <2>4, <2>5
<1>4. CASE MpFreeQuiet(t)
  <2>1. /\ suspend_thread_count = 0 /\ suspend_thread_count' = suspend_thread_count
        /\ block_free_count' = block_free_count + 1
        /\ UNCHANGED ipcVars
    BY <1>4 DEF MpFreeQuiet, Regain
  <2>2. L = {}
    <3>1. IsFiniteSet(L) /\ Cardinality(L) = 0
      BY <1>a, <2>1, IpcAssumption, FS_Subset
    <3> QED BY <3>1, FS_EmptySet
  <2>3. /\ IpcInv' /\ L' = L
        /\ Others("mempool")
    <3>1. life' \in [Object -> {"live", "look", "resume", "gone", "halt"}]
      BY <2>1 DEF ipcVars, IpcInv, FramesOK
    <3>2. UNCHANGED <<suspend_thread, tcb, frame, scene>>
      BY <2>1 DEF ipcVars
    <3> QED BY <3>1, <3>2, IdleMoves DEF Others
  <2>4. NoBlockIsMissed'
    BY <2>2, <2>3, MissedBlockNext
  <2> QED BY <1>a, <2>1, <2>3, <2>4 DEF MpInv
<1>5. CASE MpFreeWakes(t)
  <2>1. /\ suspend_thread_count > 0 /\ suspend_thread_count' = suspend_thread_count - 1
        /\ block_free_count' = block_free_count + 1
    BY <1>5 DEF MpFreeWakes, Regain
  <2>2. CASE suspend_thread["mempool"] # <<>>
    <3>1. /\ error' = [error EXCEPT ![Head(suspend_thread["mempool"])] = "EOK"]
          /\ ResumeFirst("mempool")
          /\ UNCHANGED <<frame, life, scene>>
      BY <1>5, <2>2 DEF MpFreeWakes
    <3>2. error' = error
      BY <1>0, <2>2, <3>1, HeadUnharmed
    <3>3. FramesOK'
      BY <3>1, <3>2 DEF IpcInv, FramesOK, frame
    <3>4. PICK R \in SUBSET Thread : R = {}
      OBVIOUS
    <3>5. /\ \A u \in R : stat[u] = "ready" /\ pc'[u] # "wait" /\ IsAt(u, "mempool")
          /\ \A u \in Thread \ R :
               pc'[u] = pc[u] /\ op'[u] = op[u] /\ timeout'[u] = timeout[u]
          /\ \A u \in Thread \ R : error'[u] = error[u]
      BY <3>1, <3>2, <3>4 DEF frame
    <3>6. L # {}
      BY <2>2, MissedBlock
    <3>7. /\ IpcInv' /\ Others("mempool")
          /\ \E h \in L :
               /\ h \in Thread /\ stat[h] = "suspend"
               /\ L' = L \ {h}
               /\ WokenFor("mp_alloc")' = (WokenFor("mp_alloc") \ R) \cup {h}
      <4>1. /\ IpcInv' /\ Others("mempool")
            /\ \/ Listed("mempool") = {}
               \/ \E h \in Listed("mempool") :
                    /\ h \in Thread /\ stat[h] = "suspend"
                    /\ Listed("mempool")' = Listed("mempool") \ {h}
                    /\ \A c \in WaitCalls : ObjectOf(c) = "mempool" =>
                         WokenFor(c)' = (WokenFor(c) \ R) \cup {h}
        BY <1>0, <3>1, <3>3, <3>5, ResumeMoves
      <4> QED BY <1>0, <3>6, <4>1
    <3>8. PICK h \in Thread :
            /\ h \in L /\ stat[h] = "suspend" /\ L' = L \ {h}
            /\ WokenFor("mp_alloc")' = (WokenFor("mp_alloc") \ R) \cup {h}
      BY <3>7
    <3>9. h \notin WokenFor("mp_alloc") /\ WokenFor("mp_alloc") \ R = WokenFor("mp_alloc")
      BY <3>4, <3>8 DEF WokenFor, Woken
    <3>10. Cardinality(WokenFor("mp_alloc")') = N + 1
      BY <1>b, <3>8, <3>9, CountFacts
    <3>11. Cardinality(L') = Cardinality(L) - 1
      BY <1>a, <3>8, CountFacts
    <3>12. NoBlockIsMissed'
      BY <1>a, <2>1, <3>6, <3>7, <3>10, MissedBlockNext
    <3> QED BY <1>a, <2>1, <3>7, <3>11, <3>12 DEF MpInv
  <2>3. CASE suspend_thread["mempool"] = <<>>
    <3>1. /\ life' = [life EXCEPT !["mempool"] = "halt"]
          /\ UNCHANGED <<suspend_thread, tcb, frame, scene>>
      BY <1>5, <2>3 DEF MpFreeWakes
    <3>2. life' \in [Object -> {"live", "look", "resume", "gone", "halt"}]
      BY <3>1 DEF IpcInv, FramesOK
    <3>3. IpcInv' /\ L' = L /\ Others("mempool")
      BY <3>1, <3>2, IdleMoves DEF Others
    <3>4. L = {} /\ Cardinality(L) = 0
      BY <2>3, MissedBlock, FS_EmptySet
    <3>5. NoBlockIsMissed'
      BY <3>3, <3>4, MissedBlockNext
    <3> QED BY <1>a, <2>1, <3>3, <3>4, <3>5 DEF MpInv
  <2> QED BY <2>2, <2>3
<1> QED BY <1>1, <1>2, <1>3, <1>4, <1>5 DEF MpThread, MpFree

LEMMA MpDetachKeeps ==
  ASSUME IpcInv, MpInv, MpDetach
  PROVE  IpcInv' /\ Others("mempool") /\ MpInv'
<1> DEFINE s == suspend_thread["mempool"]
           L == Listed("mempool")
<1>0. /\ "mempool" \in Object /\ "mp_alloc" \in WaitCalls /\ ObjectOf("mp_alloc") = "mempool"
  BY DEF Object, WaitCalls, ObjectOf
<1>a. /\ suspend_thread_count \in Nat
      /\ L \in SUBSET Thread /\ Cardinality(L) \in Nat /\ Cardinality(L) <= suspend_thread_count
      /\ block_free_count \in Nat /\ block_free_count' = block_free_count
      /\ L # {} => block_free_count <= Cardinality(WokenFor("mp_alloc"))
      /\ suspend_thread_count' = suspend_thread_count - Len(s) + Len(s')
  BY <1>0, ListedCount, MissedBlock DEF MpInv, MpDetach
<1>b. s \in Seq(Thread) /\ Len(s) \in Nat
  BY <1>0 DEF IpcInv, ListsOK
<1>1. CASE DetachBegin("mempool") \/ DetachLook("mempool") \/ DetachHalt("mempool")
  <2>1. UNCHANGED <<suspend_thread, tcb, frame, scene>>
    BY <1>1 DEF DetachBegin, DetachLook, DetachHalt
  <2>2. life' \in [Object -> {"live", "look", "resume", "gone", "halt"}]
    BY <1>1 DEF DetachBegin, DetachLook, DetachHalt, IpcInv, FramesOK
  <2>3. /\ IpcInv' /\ s' = s /\ L' = L /\ Others("mempool")
        /\ WokenFor("mp_alloc")' = WokenFor("mp_alloc")
    BY <2>1, <2>2, IdleMoves DEF Others
  <2>4. suspend_thread_count' = suspend_thread_count
    BY <1>a, <1>b, <2>3
  <2> QED BY <1>a, <2>3, <2>4, MissedBlockNext DEF MpInv
<1>2. CASE DetachResume("mempool")
  <2>1. /\ s # <<>> /\ ResumeFirst("mempool")
        /\ life' = [life EXCEPT !["mempool"] = "look"]
        /\ error' = [error EXCEPT ![Head(s)] = "ERROR"]
        /\ UNCHANGED <<frame, scene>>
    BY <1>2 DEF DetachResume
  <2>2. PICK h \in L : h = Head(s) /\ Leave({h})
    BY <1>0, <2>1, LeaveFirst
  <2>3. /\ h \in Thread
        /\ \A u \in Thread \ {h} : error'[u] = error[u]
        /\ error'[h] # "EOK"
        /\ FramesOK'
    BY <1>a, <2>1, <2>2 DEF IpcInv, FramesOK, frame, Error
  <2>4. PICK R : R = {}
    OBVIOUS
  <2>5. Moves(R, {h}, {h})
    BY <2>1, <2>2, <2>3, <2>4 DEF Moves, frame
  <2>6. {h} \subseteq L /\ \A u \in R : IsAt(u, "mempool")
    BY <2>4
  <2>7. /\ IpcInv' /\ Others("mempool") /\ L' = L \ {h}
        /\ WokenFor("mp_alloc")' = (WokenFor("mp_alloc") \ R) \cup ({h} \ {h})
    BY <1>0, <2>5, <2>6, MovesOthers
  <2>8. WokenFor("mp_alloc")' = WokenFor("mp_alloc")
    BY <2>4, <2>7
  <2>9. Cardinality(L') = Cardinality(L) - 1
    BY <1>a, <2>7, CountFacts
  <2>10. s' = Tail(s)
    BY <1>0, <2>1 DEF ResumeFirst, IpcInv, ListsOK
  <2>11. Len(s') = Len(s) - 1
    BY <1>b, <2>1, <2>10
  <2>12. suspend_thread_count' = suspend_thread_count - 1
    BY <1>a, <1>b, <2>11
  <2>13. Cardinality(L') \in Nat
    <3>1. L' \in SUBSET Thread
      BY <1>a, <2>7
    <3> QED BY <3>1, IpcAssumption, FS_Subset, FS_CardinalityType
  <2>14. NoBlockIsMissed'
    BY <1>a, <2>7, <2>8, MissedBlockNext
  <2>15. suspend_thread_count' \in Nat /\ Cardinality(L') <= suspend_thread_count'
    <3> DEFINE n  == Cardinality(L)
               n2 == Cardinality(L')
    <3>1. /\ n \in Nat /\ n <= suspend_thread_count /\ suspend_thread_count \in Nat
          /\ n2 = n - 1 /\ n2 \in Nat /\ suspend_thread_count' = suspend_thread_count - 1
      BY <1>a, <2>9, <2>12, <2>13
    <3> HIDE DEF n, n2
    <3>2. suspend_thread_count' \in Nat /\ n2 <= suspend_thread_count'
      BY <3>1
    <3> QED BY <3>2 DEF n2
  <2>16. block_free_count' \in Nat
    BY <1>a
  <2> QED BY <2>7, <2>14, <2>15, <2>16 DEF MpInv
<1> QED BY <1>1, <1>2 DEF MpDetach, Detach

LEMMA MpStepKeeps ==
  ASSUME IpcInv, MpInv, MpStep
  PROVE  IpcInv' /\ Others("mempool") /\ MpInv'
BY MpThreadKeeps, MpDetachKeeps DEF MpStep

-----------------------------------------------------------------------------
(* What every call shares, and the objects a step does not touch.          *)

LEMMA DetachCalm ==
  ASSUME IpcInv, NEW o \in Object, Detach(o)
  PROVE  IpcInv' /\ Calm
<1>1. CASE DetachBegin(o) \/ DetachLook(o) \/ DetachHalt(o)
  <2>1. UNCHANGED <<suspend_thread, tcb, frame, scene>>
    BY <1>1 DEF DetachBegin, DetachLook, DetachHalt
  <2>2. life' \in [Object -> {"live", "look", "resume", "gone", "halt"}]
    BY <1>1 DEF DetachBegin, DetachLook, DetachHalt, IpcInv, FramesOK
  <2> QED BY <2>1, <2>2, IdleMoves DEF Calm
<1>2. CASE DetachResume(o)
  <2> DEFINE s == suspend_thread[o]
  <2>1. /\ s # <<>> /\ ResumeFirst(o)
        /\ life' = [life EXCEPT ![o] = "look"]
        /\ error' = [error EXCEPT ![Head(s)] = "ERROR"]
        /\ UNCHANGED <<frame, scene>>
    BY <1>2 DEF DetachResume
  <2>2. PICK h \in Listed(o) : h = Head(s) /\ Leave({h})
    BY <2>1, LeaveFirst
  <2>3. /\ h \in Thread
        /\ \A u \in Thread \ {h} : error'[u] = error[u]
        /\ error'[h] # "EOK"
        /\ FramesOK'
    BY <2>1, <2>2 DEF Leave, IpcInv, FramesOK, frame, Error
  <2>4. PICK R : R = {}
    OBVIOUS
  <2>5. Moves(R, {h}, {h})
    BY <2>1, <2>2, <2>3, <2>4 DEF Moves, frame
  <2>6. /\ IpcInv'
        /\ \A c : WokenFor(c)' = (WokenFor(c) \ R) \cup {u \in {h} \ {h} : op[u] = c}
    BY <2>5, MovesKeep
  <2>7. \A p \in Object : Listed(p)' \subseteq Listed(p)
    BY <2>2 DEF Leave, Listed
  <2> QED BY <2>4, <2>6, <2>7 DEF Calm
<1> QED BY <1>1, <1>2 DEF Detach

LEMMA ReturnCalm ==
  ASSUME IpcInv, NEW t \in Thread, Return(t)
  PROVE  IpcInv' /\ Calm
<1>1. /\ pc[t] = "return"
      /\ pc' = [pc EXCEPT ![t] = "idle"]
      /\ op' = [op EXCEPT ![t] = "none"]
      /\ ret' = [ret EXCEPT ![t] = "none"]
      /\ UNCHANGED <<suspend_thread, stat, error, timer, timeout, life, scene>>
  BY DEF Return, tcb
<1>2. stat[t] = "ready" /\ \A c : t \notin WokenFor(c)
  BY <1>1, ReadyUnlessWaiting
<1>3. FramesOK'
  BY <1>1 DEF IpcInv, FramesOK, Result
<1>4. PICK W : W = {} /\ Leave(W)
  BY <1>1, LeaveNone
<1>5. Moves({t}, W, W)
  BY <1>1, <1>2, <1>3, <1>4 DEF Moves, IpcInv, FramesOK
<1>6. /\ IpcInv'
      /\ \A c : WokenFor(c)' = (WokenFor(c) \ {t}) \cup {u \in W \ W : op[u] = c}
  BY <1>5, MovesKeep
<1>7. \A c : WokenFor(c)' = WokenFor(c)
  BY <1>2, <1>6
<1> QED BY <1>1, <1>6, <1>7 DEF Calm, Listed

LEMMA WakeWithErrorCalm ==
  ASSUME IpcInv, NEW t \in Thread, WakeWithError(t)
  PROVE  IpcInv' /\ Calm
<1>1. /\ pc[t] = "wait" /\ stat[t] = "ready" /\ error[t] # "EOK"
      /\ Finish(t, op[t], error[t])
      /\ UNCHANGED <<suspend_thread, stat, error, timer, life, scene>>
  BY DEF WakeWithError, tcb
<1>2. op[t] \in Calls \cup {"none"} /\ error[t] \in Result
  BY DEF IpcInv, FramesOK, Result
<1>3. Runs(t)
  BY <1>1, <1>2, FinishRuns
<1>4. \A c : t \notin WokenFor(c)
  BY <1>1 DEF WokenFor, Woken
<1>5. PICK W : W = {} /\ Leave(W)
  BY <1>1, LeaveNone
<1>6. Moves({t}, W, W)
  BY <1>1, <1>3, <1>5 DEF Moves, Runs
<1>7. /\ IpcInv'
      /\ \A c : WokenFor(c)' = (WokenFor(c) \ {t}) \cup {u \in W \ W : op[u] = c}
  BY <1>6, MovesKeep
<1>8. \A c : WokenFor(c)' = WokenFor(c)
  BY <1>4, <1>7
<1> QED BY <1>1, <1>7, <1>8 DEF Calm, Listed

LEMMA TimeOutCalm ==
  ASSUME IpcInv, NEW t \in Thread, TimeOut(t)
  PROVE  IpcInv' /\ Calm
<1>1. Leave({t})
  BY LeaveTimeOut
<1>2. error' = [error EXCEPT ![t] = "ETIMEOUT"] /\ UNCHANGED <<frame, life, scene>>
  BY DEF TimeOut, Expire
<1>3. FramesOK' /\ error'[t] # "EOK" /\ \A u \in Thread \ {t} : error'[u] = error[u]
  BY <1>2 DEF IpcInv, FramesOK, frame, Error
<1>4. PICK R : R = {}
  OBVIOUS
<1>5. Moves(R, {t}, {t})
  BY <1>1, <1>2, <1>3, <1>4 DEF Moves, frame
<1>6. /\ IpcInv'
      /\ \A c : WokenFor(c)' = (WokenFor(c) \ R) \cup {u \in {t} \ {t} : op[u] = c}
  BY <1>5, MovesKeep
<1>7. \A p \in Object : Listed(p)' \subseteq Listed(p)
  BY <1>1 DEF Leave, Listed
<1> QED BY <1>4, <1>6, <1>7 DEF Calm

\* The step leaves the waiters of one call alone, but for those who give up.
Spares(call) ==
  WokenFor(call)' = WokenFor(call) /\ Listed(ObjectOf(call))' \subseteq Listed(ObjectOf(call))

LEMMA OthersSpared ==
  ASSUME NEW call \in WaitCalls, NEW o, ObjectOf(call) # o, Others(o)
  PROVE  Spares(call)
BY DEF Others, Spares

LEMMA CalmSpares ==
  ASSUME NEW call \in WaitCalls, Calm
  PROVE  Spares(call)
<1>1. ObjectOf(call) \in Object
  BY DEF WaitCalls, ObjectOf, Object
<1> QED BY <1>1 DEF Calm, Spares

LEMMA SemSpared ==
  ASSUME IpcInv, IpcInv', SemInv, UNCHANGED semVars, Spares("take")
  PROVE  SemInv'
<1>1. /\ WokenFor("take")' = WokenFor("take") /\ Listed("sem")' \subseteq Listed("sem")
      /\ "sem" \in Object /\ value' = value /\ balance' = balance
  BY DEF Spares, ObjectOf, Object, semVars
<1>2. Granted' = Granted
  BY <1>1 DEF Granted, WokenFor
<1>3. CountMeansNoWaiter'
  <2>1. suspend_thread["sem"] \in Seq(Thread) /\ suspend_thread'["sem"] \in Seq(Thread)
    BY <1>1 DEF IpcInv, ListsOK
  <2>2. suspend_thread["sem"] = <<>> => suspend_thread'["sem"] = <<>>
    <3>1. suspend_thread["sem"] = <<>> => Listed("sem")' = {}
      BY <1>1, <2>1, NobodyListed DEF Listed
    <3> QED BY <2>1, <3>1, NobodyListed DEF Listed
  <2> QED BY <1>1, <2>2 DEF SemInv, CountMeansNoWaiter
<1> QED BY <1>1, <1>2, <1>3 DEF SemInv, SemTypeOK, PermitsConserved

LEMMA MqSpared ==
  ASSUME IpcInv, IpcInv', MqInv, entry' = entry, Spares("mq_recv")
  PROVE  MqInv'
<1>1. WokenFor("mq_recv")' = WokenFor("mq_recv") /\ Listed("mq")' \subseteq Listed("mq")
  BY DEF Spares, ObjectOf
<1> QED BY <1>1, MissedMessage, MissedMessageNext DEF MqInv

LEMMA MpSpared ==
  ASSUME IpcInv, IpcInv', MpInv, UNCHANGED mpVars, Spares("mp_alloc")
  PROVE  MpInv'
<1>1. /\ WokenFor("mp_alloc")' = WokenFor("mp_alloc")
      /\ Listed("mempool")' \subseteq Listed("mempool")
      /\ block_free_count' = block_free_count /\ suspend_thread_count' = suspend_thread_count
  BY DEF Spares, ObjectOf, mpVars
<1>2. NoBlockIsMissed'
  BY <1>1, MissedBlock, MissedBlockNext DEF MpInv
<1>3. Cardinality(Listed("mempool")') <= suspend_thread_count'
  <2> DEFINE A == Listed("mempool")
             B == Listed("mempool")'
  <2>1. A \in SUBSET Thread /\ Cardinality(A) \in Nat
    <3>1. "mempool" \in Object
      BY DEF Object
    <3> QED BY <3>1, ListedCount
  <2>2. B \subseteq A /\ IsFiniteSet(A)
    BY <1>1, <2>1, IpcAssumption, FS_Subset
  <2> HIDE DEF A, B
  <2>3. Cardinality(B) \in Nat /\ Cardinality(B) <= Cardinality(A)
    BY <2>2, FS_Subset, FS_CardinalityType
  <2>4. Cardinality(A) <= suspend_thread_count /\ suspend_thread_count \in Nat
    BY DEF MpInv, A
  <2> QED BY <1>1, <2>1, <2>3, <2>4 DEF B
<1> QED BY <1>1, <1>2, <1>3 DEF MpInv

-----------------------------------------------------------------------------
(* The composition.                                                        *)

IInv == IpcInv /\ SemInv /\ MqInv /\ MpInv

LEMMA InitInv ==
  ASSUME Init
  PROVE  IInv
<1> USE DEF Init
<1>1. IpcInv
  <2>1. ListsOK /\ FramesOK
    BY IpcAssumption DEF IpcInit, ListsOK, FramesOK, Error, Result, AllLimits
  <2>2. \A o \in Object : Listed(o) = {} /\ NoDup(suspend_thread[o])
    BY DEF IpcInit, Listed, ToSet, NoDup
  <2>3. WaitersKnown
    BY <2>2 DEF IpcInit, WaitersKnown
  <2> QED BY <2>1, <2>3 DEF IpcInv
<1>2. \A c : WokenFor(c) = {}
  BY DEF IpcInit, WokenFor, Woken
<1>3. \A o \in Object : suspend_thread[o] = <<>> /\ Cardinality(Listed(o)) = 0
  <2>1. \A o \in Object : suspend_thread[o] = <<>> /\ Listed(o) = {}
    BY DEF IpcInit, Listed, ToSet
  <2> QED BY <2>1, FS_EmptySet
<1>4. {"sem", "mq", "mempool"} \subseteq Object
  BY DEF Object
<1>5. SemInv
  <2>1. Granted = {}
    BY <1>2 DEF Granted, WokenFor
  <2>2. Cardinality(Granted) = 0
    BY <2>1, FS_EmptySet
  <2>3. value \in 0 .. Width - 1 /\ balance = value /\ Width \in Nat \ {0}
    BY SemaphoreAssumption DEF SemInit
  <2>4. (value + 0) % Width = value
    <3>1. (Width * 0 + value) % Width = value
      BY <2>3, RemainderUnique
    <3>2. Width * 0 + value = value /\ value + 0 = value
      BY <2>3
    <3> QED BY <3>1, <3>2
  <2>5. PermitsConserved
    BY <2>2, <2>3, <2>4 DEF PermitsConserved
  <2> QED BY <1>3, <1>4, <2>3, <2>5 DEF SemInv, SemTypeOK, CountMeansNoWaiter
<1>6. MqInv
  BY <1>3, <1>4 DEF MqInit, MqInv, NoMessageIsMissed
<1>7. MpInv
  BY <1>3, <1>4, MemPoolAssumption DEF MpInit, MpInv, NoBlockIsMissed
<1> QED BY <1>1, <1>5, <1>6, <1>7 DEF IInv

LEMMA CommonKeeps ==
  ASSUME IInv, Common
  PROVE  IInv'
<1>1. IpcInv' /\ Calm /\ UNCHANGED semVars /\ entry' = entry
  <2>1. CASE \E t \in Thread : Return(t) /\ UNCHANGED semVars /\ EventForget(t) /\ MqForget(t)
    BY <2>1, ReturnCalm DEF MqForget, IInv
  <2>2. CASE /\ \/ \E t \in Thread : WakeWithError(t) \/ TimeOut(t)
                \/ \E o \in Object \ {"mempool"} : Detach(o)
             /\ UNCHANGED <<semVars, eventVars, mqVars>>
    <3>1. entry' = entry /\ UNCHANGED semVars
      BY <2>2 DEF mqVars
    <3>2. IpcInv' /\ Calm
      BY <2>2, WakeWithErrorCalm, TimeOutCalm, DetachCalm DEF IInv
    <3> QED BY <3>1, <3>2
  <2> QED BY <2>1, <2>2 DEF Common
<1>2. Spares("take") /\ Spares("mq_recv") /\ Spares("mp_alloc")
  BY <1>1, CalmSpares DEF WaitCalls
<1>3. UNCHANGED mpVars
  BY DEF Common
<1> QED BY <1>1, <1>2, <1>3, SemSpared, MqSpared, MpSpared DEF IInv

LEMMA NextKeeps ==
  ASSUME IInv, Next
  PROVE  IInv'
<1>0. /\ {"take", "mq_recv", "mp_alloc"} \subseteq WaitCalls
      /\ ObjectOf("take") = "sem" /\ ObjectOf("mq_recv") = "mq"
      /\ ObjectOf("mp_alloc") = "mempool"
  BY DEF WaitCalls, ObjectOf
<1>1. CASE Common
  BY <1>1, CommonKeeps
<1>2. CASE SemStep /\ UNCHANGED <<eventVars, mqVars, mpVars>>
  <2>1. IpcInv' /\ Others("sem") /\ SemInv'
    BY <1>2, SemStepKeeps DEF IInv
  <2>2. Spares("mq_recv") /\ Spares("mp_alloc") /\ entry' = entry /\ UNCHANGED mpVars
    BY <1>0, <1>2, <2>1, OthersSpared DEF mqVars
  <2> QED BY <2>1, <2>2, MqSpared, MpSpared DEF IInv
<1>3. CASE EventStep /\ UNCHANGED <<semVars, mqVars, mpVars>>
  <2>1. IpcInv' /\ Others("event")
    BY <1>3, EventStepKeeps DEF IInv
  <2>2. /\ Spares("take") /\ Spares("mq_recv") /\ Spares("mp_alloc")
        /\ entry' = entry /\ UNCHANGED semVars /\ UNCHANGED mpVars
    BY <1>0, <1>3, <2>1, OthersSpared DEF mqVars
  <2> QED BY <2>1, <2>2, SemSpared, MqSpared, MpSpared DEF IInv
<1>4. CASE MqStep /\ UNCHANGED <<semVars, eventVars, mpVars>>
  <2>1. IpcInv' /\ Others("mq") /\ MqInv'
    BY <1>4, MqStepKeeps DEF IInv
  <2>2. Spares("take") /\ Spares("mp_alloc") /\ UNCHANGED semVars /\ UNCHANGED mpVars
    BY <1>0, <1>4, <2>1, OthersSpared
  <2> QED BY <2>1, <2>2, SemSpared, MpSpared DEF IInv
<1>5. CASE MpStep /\ UNCHANGED <<semVars, eventVars, mqVars>>
  <2>1. IpcInv' /\ Others("mempool") /\ MpInv'
    BY <1>5, MpStepKeeps DEF IInv
  <2>2. Spares("take") /\ Spares("mq_recv") /\ UNCHANGED semVars /\ entry' = entry
    BY <1>0, <1>5, <2>1, OthersSpared DEF mqVars
  <2> QED BY <2>1, <2>2, SemSpared, MqSpared DEF IInv
<1> QED BY <1>1, <1>2, <1>3, <1>4, <1>5 DEF Next

LEMMA StutterKeeps ==
  ASSUME IInv, UNCHANGED vars
  PROVE  IInv'
<1>1. UNCHANGED <<suspend_thread, tcb, frame, scene>> /\ life' = life
  BY DEF vars, ipcVars
<1>2. life' \in [Object -> {"live", "look", "resume", "gone", "halt"}]
  BY <1>1 DEF IInv, IpcInv, FramesOK
<1>3. IpcInv' /\ Calm
  BY <1>1, <1>2, IdleMoves DEF IInv, Calm
<1>4. Spares("take") /\ Spares("mq_recv") /\ Spares("mp_alloc")
  BY <1>3, CalmSpares DEF WaitCalls
<1>5. UNCHANGED semVars /\ entry' = entry /\ UNCHANGED mpVars
  BY DEF vars, mqVars
<1> QED BY <1>3, <1>4, <1>5, SemSpared, MqSpared, MpSpared DEF IInv

\* rt_sem_take, rt_event_recv, rt_mq_recv, rt_mp_alloc and all that wakes their
\* callers: every thread waits in at most one list, its counts and records
\* agree with where it is, and each object's own account with its list.
THEOREM IpcInvariance == Spec => []IInv
<1>1. Init => IInv
  BY InitInv
<1>2. IInv /\ [Next]_vars => IInv'
  BY NextKeeps, StutterKeeps
<1> QED BY <1>1, <1>2, PTL DEF Spec

\* rt_ipc_list_suspend, rt_thread_resume and rt_thread_timeout: a thread is
\* suspended exactly while it is, once, in the list of the object it called,
\* and its timer does not outlive its wait, for any number of threads.
THEOREM IpcWaiters == Spec => []SuspendedInOneList
<1>1. IInv => SuspendedInOneList
  <2> SUFFICES ASSUME IInv PROVE SuspendedInOneList
    OBVIOUS
  <2>1. WaitersKnown /\ ListsOK
    BY DEF IInv, IpcInv
  <2>2. ASSUME NEW o \in Object PROVE IsInjective(suspend_thread[o])
    <3>1. suspend_thread[o] \in Seq(Thread) /\ NoDup(suspend_thread[o])
      BY <2>1 DEF WaitersKnown, ListsOK
    <3>2. DOMAIN suspend_thread[o] = 1 .. Len(suspend_thread[o])
      BY <3>1
    <3> QED BY <3>1, <3>2 DEF NoDup, IsInjective
  <2>3. \A t \in Thread : stat[t] = "suspend" =>
          pc[t] = "wait" /\ t \in ToSet(suspend_thread[Awaits(t)])
    BY <2>1 DEF WaitersKnown, Listed
  <2>4. \A o \in Object : \A t \in ToSet(suspend_thread[o]) :
          stat[t] = "suspend" /\ o = Awaits(t)
    BY <2>1 DEF WaitersKnown, Listed
  <2>5. \A t \in Thread : timer[t] = 1 => stat[t] = "suspend" /\ timeout[t] = "finite"
    BY <2>1 DEF WaitersKnown
  <2> QED BY <2>2, <2>3, <2>4, <2>5 DEF SuspendedInOneList
<1> QED BY <1>1, IpcInvariance, PTL

\* rt_sem_take and rt_sem_release: nobody sleeps beside a count above 0.
THEOREM SemaphoreWaiters == Spec => []CountMeansNoWaiter
<1>1. IInv => CountMeansNoWaiter
  BY DEF IInv, SemInv
<1> QED BY <1>1, IpcInvariance, PTL

\* rt_sem_take and rt_sem_release keep the account of the permits, modulo the
\* width of the count, whatever time-outs, resets and detachments come between.
THEOREM SemaphoreAccount == Spec => []PermitsConserved
<1>1. IInv => PermitsConserved
  BY DEF IInv, SemInv
<1> QED BY <1>1, IpcInvariance, PTL

\* rt_mq_recv and rt_mp_alloc: nobody sleeps beside a message or a free block
\* that no woken thread is about to take.
THEOREM IpcNothingMissed == Spec => []NothingIsMissed
<1>1. IInv => NothingIsMissed
  BY DEF IInv, MqInv, MpInv, NothingIsMissed
<1> QED BY <1>1, IpcInvariance, PTL

-----------------------------------------------------------------------------
(* The bits of an event.                                                   *)

\* The bits that the waiter u leaves of x.
After(x, u) ==
  IF Satisfies(x, event_set[u], event_info[u]) /\ "CLEAR" \in event_info[u]
  THEN x \ event_set[u] ELSE x

\* The recursive function of a send exists, and a bit that is gone stays gone.
LEMMA LeftFacts ==
  ASSUME NEW s \in SUBSET Bits, NEW list \in Seq(Thread)
  PROVE  /\ Left(s, list) \in [0 .. Len(list) -> SUBSET Bits]
         /\ Left(s, list)[0] = s
         /\ \A k \in 1 .. Len(list) : Left(s, list)[k] = After(Left(s, list)[k - 1], list[k])
         /\ \A i, j \in 0 .. Len(list) : i <= j => Left(s, list)[j] \subseteq Left(s, list)[i]
<1> DEFINE n == Len(list)
           D == SUBSET Bits
           step == [k \in 1 .. n |-> [x \in D |-> After(x, list[k])]]
           F(f) == [k \in 0 .. n |->
                      IF k = 0 THEN s
                      ELSE IF /\ Satisfies(f[k - 1], event_set[list[k]], event_info[list[k]])
                              /\ "CLEAR" \in event_info[list[k]]
                           THEN f[k - 1] \ event_set[list[k]]
                           ELSE f[k - 1]]
           left == Left(s, list)
<1>0. n \in Nat
  OBVIOUS
<1>1. left = CHOOSE f : f = F(f)
  BY DEF Left
<1>2. \A x \in D : \A u : After(x, u) \in D
  BY DEF After
<1>3. step \in [1 .. n -> [D -> D]]
  BY <1>2
<1>4. \A k \in 1 .. n : \A x \in D : step[k][x] = After(x, list[k])
  OBVIOUS
<1> HIDE DEF n, step, D
<1>5. s \in D
  BY DEF D
<1>6. PICK f \in [0 .. n -> D] : Unrolls(f, s, n, step)
  BY <1>0, <1>3, <1>5, Recursion
<1>7. f = F(f)
  <2>1. ASSUME NEW k \in 0 .. n
        PROVE  f[k] = IF k = 0 THEN s
                      ELSE IF /\ Satisfies(f[k - 1], event_set[list[k]], event_info[list[k]])
                              /\ "CLEAR" \in event_info[list[k]]
                           THEN f[k - 1] \ event_set[list[k]]
                           ELSE f[k - 1]
    <3>1. CASE k = 0
      BY <1>6, <3>1 DEF Unrolls
    <3>2. CASE k # 0
      <4>1. k \in 1 .. n /\ k - 1 \in 0 .. n
        BY <1>0, <3>2
      <4>2. f[k] = After(f[k - 1], list[k])
        BY <1>4, <1>6, <4>1 DEF Unrolls
      <4> QED BY <3>2, <4>2 DEF After
    <3> QED BY <3>1, <3>2
  <2>2. f = [k \in 0 .. n |-> f[k]]
    OBVIOUS
  <2> QED BY <2>1, <2>2
<1>8. left = F(left)
  <2> HIDE DEF F, left
  <2> QED BY <1>1, <1>7
<1> HIDE DEF left
<1>9. left[0] = s
  BY <1>0, <1>8
<1>10. \A k \in 1 .. n : left[k] = After(left[k - 1], list[k])
  <2> SUFFICES ASSUME NEW k \in 1 .. n PROVE left[k] = After(left[k - 1], list[k])
    OBVIOUS
  <2>1. k \in 0 .. n /\ k # 0
    BY <1>0
  <2> QED BY <1>8, <2>1 DEF After
<1>11. left \in [0 .. n -> D]
  <2> DEFINE S == {k \in Nat : k <= n => left[k] \in D}
  <2>1. 0 \in S
    BY <1>5, <1>9
  <2>2. ASSUME NEW k \in Nat, k \in S PROVE k + 1 \in S
    <3>1. SUFFICES ASSUME k + 1 <= n PROVE left[k + 1] \in D
      OBVIOUS
    <3>2. k + 1 \in 1 .. n /\ (k + 1) - 1 = k /\ left[k] \in D
      BY <1>0, <2>2, <3>1
    <3>3. left[k + 1] = After(left[k], list[k + 1])
      BY <1>10, <3>2
    <3> QED BY <1>2, <3>2, <3>3
  <2>3. \A k \in Nat : k \in S
    <3> HIDE DEF S
    <3> QED BY <2>1, <2>2, Induct
  <2>4. \A k \in 0 .. n : left[k] \in D
    BY <1>0, <2>3
  <2>5. left = [k \in 0 .. n |-> left[k]]
    BY <1>8
  <2> QED BY <2>4, <2>5
<1>12. ASSUME NEW i \in 0 .. n, NEW j \in 0 .. n, i <= j PROVE left[j] \subseteq left[i]
  <2> DEFINE S == {m \in Nat : i + m <= n => left[i + m] \subseteq left[i]}
  <2>1. 0 \in S
    BY <1>0
  <2>2. ASSUME NEW m \in Nat, m \in S PROVE m + 1 \in S
    <3>1. SUFFICES ASSUME i + (m + 1) <= n PROVE left[i + (m + 1)] \subseteq left[i]
      OBVIOUS
    <3>2. /\ i + (m + 1) \in 1 .. n /\ (i + (m + 1)) - 1 = i + m
          /\ left[i + m] \subseteq left[i]
      BY <1>0, <2>2, <3>1
    <3>3. left[i + (m + 1)] = After(left[i + m], list[i + (m + 1)])
      BY <1>10, <3>2
    <3> QED BY <3>2, <3>3 DEF After
  <2>3. \A m \in Nat : m \in S
    <3> HIDE DEF S
    <3> QED BY <2>1, <2>2, Induct
  <2>4. j - i \in S /\ i + (j - i) = j /\ j <= n
    BY <1>0, <1>12, <2>3
  <2> QED BY <2>4
<1> QED BY <1>9, <1>10, <1>11, <1>12 DEF n, D, left

\* What a send makes of the bits and of the waiters: left are the bits after
\* each of them, At the places of those who wake.
Sends(left, At) ==
  LET list == suspend_thread["event"]
      n    == Len(list)
  IN  /\ left \in [0 .. n -> SUBSET Bits]
      /\ \A i, j \in 0 .. n : i <= j => left[j] \subseteq left[i]
      /\ \A k \in 1 .. n :
           k \in At <=> Satisfies(left[k - 1], event_set[list[k]], event_info[list[k]])
      /\ At \subseteq 1 .. n
      /\ \A k \in At : /\ event_set'[list[k]] = event_set[list[k]] \cap left[k - 1]
                       /\ "CLEAR" \in event_info[list[k]] =>
                            left[k] \cap event_set[list[k]] = {}
      /\ \A u \in Thread : (\A k \in At : list[k] # u) => event_set'[u] = event_set[u]
      /\ event_set' \in [Thread -> SUBSET Bits]
      /\ set' = left[n]
      /\ Leave({list[k] : k \in At})

LEMMA SendFacts ==
  ASSUME IpcInv, EventTypeOK, NEW t \in Thread, EventSend(t)
  PROVE  (\E left, At : Sends(left, At)) /\ UNCHANGED <<event_info, recved, error, frame, life, scene>>
<1> DEFINE list == suspend_thread["event"]
           n    == Len(list)
<1>1. PICK bits \in SUBSET Bits \ {{}} :
        LET left == Left(set \cup bits, list)
            At   == {k \in 1 .. Len(list) :
                       Satisfies(left[k - 1], event_set[list[k]], event_info[list[k]])}
        IN  /\ set' = left[Len(list)]
            /\ event_set' = [u \in Thread |->
                 IF \E k \in At : list[k] = u
                 THEN event_set[u] \cap left[(CHOOSE k \in At : list[k] = u) - 1]
                 ELSE event_set[u]]
            /\ ResumeAll("event", {list[k] : k \in At})
  BY DEF EventSend, SendTo
<1> DEFINE left == Left(set \cup bits, list)
           At   == {k \in 1 .. n :
                      Satisfies(left[k - 1], event_set[list[k]], event_info[list[k]])}
<1>2. /\ set' = left[n]
      /\ event_set' = [u \in Thread |->
           IF \E k \in At : list[k] = u
           THEN event_set[u] \cap left[(CHOOSE k \in At : list[k] = u) - 1]
           ELSE event_set[u]]
      /\ ResumeAll("event", {list[k] : k \in At})
  BY <1>1
<1>3. /\ "event" \in Object
      /\ list \in Seq(Thread) /\ NoDup(list)
  BY DEF Object, IpcInv, ListsOK, WaitersKnown
<1>4. n \in Nat /\ \A k \in 1 .. n : list[k] \in Thread
  BY <1>3
<1>5. set \cup bits \in SUBSET Bits
  BY DEF EventTypeOK
<1>6. /\ left \in [0 .. n -> SUBSET Bits]
      /\ \A k \in 1 .. n : left[k] = After(left[k - 1], list[k])
      /\ \A i, j \in 0 .. n : i <= j => left[j] \subseteq left[i]
  <2> DEFINE s == set \cup bits
  <2> HIDE DEF list, s
  <2> QED BY <1>3, <1>5, LeftFacts DEF s
<1>7. At \subseteq 1 .. n /\ \A k \in 1 .. n :
        k \in At <=> Satisfies(left[k - 1], event_set[list[k]], event_info[list[k]])
  OBVIOUS
<1> HIDE DEF left, At, list
<1>8. Leave({list[k] : k \in At})
  <2>1. {list[k] : k \in At} \in SUBSET Listed("event")
    BY <1>3, <1>7 DEF Listed, ToSet, list
  <2> QED BY <1>2, <1>3, <2>1, LeaveAll
<1>9. ASSUME NEW k \in At
      PROVE  /\ event_set'[list[k]] = event_set[list[k]] \cap left[k - 1]
             /\ "CLEAR" \in event_info[list[k]] => left[k] \cap event_set[list[k]] = {}
  <2>1. k \in 1 .. n /\ list[k] \in Thread
    BY <1>4, <1>7
  <2>2. ASSUME NEW j \in At, list[j] = list[k] PROVE j = k
    BY <1>3, <1>7, <2>2 DEF NoDup
  <2>3. (CHOOSE j \in At : list[j] = list[k]) = k
    BY <2>2
  <2>4. event_set'[list[k]] = event_set[list[k]] \cap left[k - 1]
    BY <1>2, <2>1, <2>3
  <2>5. left[k] = After(left[k - 1], list[k])
        /\ Satisfies(left[k - 1], event_set[list[k]], event_info[list[k]])
    BY <1>6, <1>7, <2>1
  <2> QED BY <2>4, <2>5 DEF After
<1>10. \A u \in Thread : (\A k \in At : list[k] # u) => event_set'[u] = event_set[u]
  BY <1>2
<1>11. event_set' \in [Thread -> SUBSET Bits]
  <2>1. ASSUME NEW u \in Thread PROVE event_set'[u] \in SUBSET Bits
    <3>1. event_set[u] \in SUBSET Bits
      BY DEF EventTypeOK
    <3> QED BY <1>2, <3>1
  <2>2. event_set' = [u \in Thread |-> event_set'[u]]
    BY <1>2
  <2> QED BY <2>1, <2>2
<1>12. Sends(left, At)
  BY <1>2, <1>6, <1>7, <1>8, <1>9, <1>10, <1>11 DEF Sends, list
<1>13. UNCHANGED <<event_info, recved, error, frame, life, scene>>
  BY DEF EventSend, SendTo
<1> QED BY <1>12, <1>13

EventInv == EventTypeOK /\ NoWaiterIsSatisfied

\* Fewer bits satisfy nobody whom more did not.
LEMMA FewerSatisfy ==
  ASSUME NEW x, NEW y, y \subseteq x, NEW wanted, NEW option, Satisfies(y, wanted, option)
  PROVE  Satisfies(x, wanted, option)
BY DEF Satisfies

\* Those who still wait ask for what they asked for, and no bit is new.
LEMMA EventKept ==
  ASSUME EventInv, EventTypeOK', set' \subseteq set, Listed("event")' \subseteq Listed("event"),
         \A u \in Listed("event")' : event_set'[u] = event_set[u] /\ event_info'[u] = event_info[u]
  PROVE  EventInv'
<1>1. ASSUME NEW u \in Listed("event")'
      PROVE  ~Satisfies(set', event_set'[u], event_info'[u])
  <2>1. ~Satisfies(set, event_set[u], event_info[u])
    BY DEF EventInv, NoWaiterIsSatisfied, Listed
  <2> QED BY <2>1, FewerSatisfy
<1> QED BY <1>1 DEF EventInv, NoWaiterIsSatisfied, Listed

LEMMA EventThreadInv ==
  ASSUME IpcInv, EventInv, NEW t \in Thread, EventThread(t)
  PROVE  EventInv'
<1>0. "event" \in Object /\ EventTypeOK
  BY DEF Object, EventInv
<1>1. CASE EventRecvNothing(t) \/ EventRecvRefused(t) \/ EventRecvWoken(t) \/ EventSendNothing(t)
  <2>1. UNCHANGED <<set, event_set, event_info, suspend_thread>>
        /\ recved' \in [Thread -> SUBSET Bits]
    BY <1>0, <1>1 DEF EventRecvNothing, EventRecvRefused, EventRecvWoken, EventSendNothing,
                      eventVars, EventTypeOK
  <2> QED BY <1>0, <2>1, EventKept DEF EventTypeOK, Listed
<1>2. CASE EventRecvNow(t)
  <2>1. /\ set' \subseteq set /\ UNCHANGED <<event_set, event_info, suspend_thread>>
        /\ recved' \in [Thread -> SUBSET Bits]
    BY <1>0, <1>2 DEF EventRecvNow, EventTypeOK
  <2> QED BY <1>0, <2>1, EventKept DEF EventTypeOK, Listed
<1>3. CASE EventRecvWait(t)
  <2>1. PICK wanted \in SUBSET Bits \ {{}}, option \in Options :
          /\ ~Satisfies(set, wanted, option)
          /\ event_set' = [event_set EXCEPT ![t] = wanted]
          /\ event_info' = [event_info EXCEPT ![t] = option]
    BY <1>3 DEF EventRecvWait
  <2>2. PICK limit \in Limits \ {"none"} : Suspend(t, "event", "event_recv", limit)
    BY <1>3 DEF EventRecvWait
  <2>3. UNCHANGED <<set, recved, life, scene>> /\ limit \in AllLimits
    BY <1>3, IpcAssumption DEF EventRecvWait
  <2>4. stat[t] = "ready"
    BY <1>3, CallerFacts DEF EventRecvWait, Enters
  <2>5. Listed("event")' = Listed("event") \cup {t}
    <3>1. "event_recv" \in WaitCalls /\ "event" = ObjectOf("event_recv")
      BY DEF WaitCalls, ObjectOf
    <3> QED BY <1>0, <2>2, <2>3, <2>4, <3>1, SuspendKeeps
  <2>6. ASSUME NEW u \in Listed("event")'
        PROVE  ~Satisfies(set', event_set'[u], event_info'[u])
    <3>1. CASE u = t
      BY <1>0, <2>1, <2>3, <3>1 DEF EventTypeOK
    <3>2. CASE u # t
      <4>1. u \in Listed("event") /\ event_set'[u] = event_set[u] /\ event_info'[u] = event_info[u]
        BY <1>0, <2>1, <2>5, <3>2 DEF EventTypeOK
      <4> QED BY <2>3, <4>1 DEF EventInv, NoWaiterIsSatisfied, Listed
    <3> QED BY <3>1, <3>2
  <2>7. EventTypeOK'
    BY <1>0, <2>1, <2>3, EventAssumption DEF EventTypeOK
  <2> QED BY <2>6, <2>7 DEF EventInv, NoWaiterIsSatisfied, Listed
<1>4. CASE EventSend(t)
  <2> DEFINE list == suspend_thread["event"]
             n    == Len(list)
  <2>1. PICK left, At : Sends(left, At)
    BY <1>0, <1>4, SendFacts
  <2>2. UNCHANGED <<event_info, recved>>
    BY <1>0, <1>4, SendFacts
  <2>3. list \in Seq(Thread) /\ n \in Nat
    BY <1>0 DEF IpcInv, ListsOK
  <2>4. Listed("event")' = Listed("event") \ {list[k] : k \in At}
    BY <1>0, <2>1 DEF Sends, Leave, Listed
  <2>5. ASSUME NEW u \in Listed("event")'
        PROVE  ~Satisfies(set', event_set'[u], event_info'[u])
    <3>1. PICK k \in 1 .. n : list[k] = u
      <4>1. u \in {list[k] : k \in DOMAIN list}
        BY <2>4 DEF Listed, ToSet
      <4>2. DOMAIN list = 1 .. n
        BY <2>3
      <4> QED BY <4>1, <4>2
    <3>2. u \in Thread /\ \A j \in At : list[j] # u
      BY <2>3, <2>4, <3>1
    <3>3. event_set'[u] = event_set[u] /\ event_info'[u] = event_info[u]
      BY <2>1, <2>2, <3>2 DEF Sends
    <3>4. ~Satisfies(left[k - 1], event_set[u], event_info[u])
      BY <2>1, <3>1, <3>2 DEF Sends
    <3>5. set' = left[n] /\ left[n] \subseteq left[k - 1]
      <4>1. k - 1 \in 0 .. n /\ n \in 0 .. n /\ k - 1 <= n
        BY <2>3
      <4> QED BY <2>1, <4>1 DEF Sends
    <3> QED BY <3>3, <3>4, <3>5, FewerSatisfy
  <2>6. EventTypeOK'
    <3>1. set' \subseteq Bits
      <4>1. n \in 0 .. n
        BY <2>3
      <4> QED BY <2>1, <4>1 DEF Sends
    <3> QED BY <1>0, <2>1, <2>2, <3>1 DEF Sends, EventTypeOK
  <2> QED BY <2>5, <2>6 DEF EventInv, NoWaiterIsSatisfied, Listed
<1> QED BY <1>1, <1>2, <1>3, <1>4 DEF EventThread

LEMMA EventStepInv ==
  ASSUME IpcInv, EventInv, EventStep
  PROVE  EventInv'
<1>1. CASE EventReset
  <2>1. "event" \in Object
    BY DEF Object
  <2>2. Listed("event")' = {} /\ set' = {} /\ UNCHANGED <<event_set, event_info, recved>>
    BY <1>1, <2>1, ResetMoves DEF EventReset
  <2> QED BY <2>2, EventKept DEF EventTypeOK, EventInv
<1>2. CASE \E t \in Thread : EventThread(t)
  BY <1>2, EventThreadInv
<1> QED BY <1>1, <1>2 DEF EventStep

\* A return forgets what was asked for by a thread that waits no longer.
LEMMA EventForgotten ==
  ASSUME IpcInv, EventInv, NEW t \in Thread, Return(t), EventForget(t)
  PROVE  EventInv'
<1>1. stat[t] = "ready" /\ suspend_thread' = suspend_thread
  BY ReadyUnlessWaiting DEF Return
<1>2. t \notin Listed("event")
  <2>1. "event" \in Object
    BY DEF Object
  <2> QED BY <1>1, <2>1 DEF IpcInv, WaitersKnown
<1>3. /\ set' = set
      /\ event_set' = [event_set EXCEPT ![t] = {}]
      /\ event_info' = [event_info EXCEPT ![t] = {}]
      /\ recved' = [recved EXCEPT ![t] = {}]
  BY DEF EventForget
<1>4. EventTypeOK /\ EventTypeOK'
  BY <1>3 DEF EventInv, EventTypeOK
<1>5. Listed("event")' = Listed("event")
  BY <1>1 DEF Listed
<1>6. \A u \in Listed("event")' : event_set'[u] = event_set[u] /\ event_info'[u] = event_info[u]
  BY <1>2, <1>3, <1>4, <1>5 DEF EventTypeOK
<1> QED BY <1>3, <1>4, <1>5, <1>6, EventKept

LEMMA EventSpared ==
  ASSUME EventInv, UNCHANGED eventVars, Spares("event_recv")
  PROVE  EventInv'
<1>1. Listed("event")' \subseteq Listed("event") /\ UNCHANGED <<set, event_set, event_info, recved>>
  BY DEF Spares, ObjectOf, eventVars
<1> QED BY <1>1, EventKept DEF EventInv, EventTypeOK

LEMMA EventNext ==
  ASSUME IInv, EventInv, [Next]_vars
  PROVE  EventInv'
<1>0. /\ "event_recv" \in WaitCalls /\ ObjectOf("event_recv") = "event"
      /\ IpcInv
  BY DEF WaitCalls, ObjectOf, IInv
<1>1. CASE Common
  <2>1. CASE \E t \in Thread : Return(t) /\ UNCHANGED semVars /\ EventForget(t) /\ MqForget(t)
    BY <1>0, <2>1, EventForgotten
  <2>2. CASE /\ \/ \E t \in Thread : WakeWithError(t) \/ TimeOut(t)
                \/ \E o \in Object \ {"mempool"} : Detach(o)
             /\ UNCHANGED <<semVars, eventVars, mqVars>>
    <3>1. Calm
      BY <1>0, <2>2, WakeWithErrorCalm, TimeOutCalm, DetachCalm
    <3> QED BY <1>0, <2>2, <3>1, CalmSpares, EventSpared
  <2> QED BY <1>1, <2>1, <2>2 DEF Common
<1>2. CASE SemStep /\ UNCHANGED <<eventVars, mqVars, mpVars>>
  BY <1>0, <1>2, SemStepKeeps, OthersSpared, EventSpared DEF IInv
<1>3. CASE EventStep
  BY <1>0, <1>3, EventStepInv
<1>4. CASE MqStep /\ UNCHANGED <<semVars, eventVars, mpVars>>
  BY <1>0, <1>4, MqStepKeeps, OthersSpared, EventSpared DEF IInv
<1>5. CASE MpStep /\ UNCHANGED <<semVars, eventVars, mqVars>>
  BY <1>0, <1>5, MpStepKeeps, OthersSpared, EventSpared DEF IInv
<1>6. CASE UNCHANGED vars
  <2>1. UNCHANGED <<suspend_thread, tcb, frame, scene>> /\ life' = life /\ UNCHANGED eventVars
    BY <1>6 DEF vars, ipcVars
  <2>2. life' \in [Object -> {"live", "look", "resume", "gone", "halt"}]
    BY <1>0, <2>1 DEF IpcInv, FramesOK
  <2>3. Calm
    BY <1>0, <2>1, <2>2, IdleMoves DEF Calm
  <2> QED BY <1>0, <2>1, <2>3, CalmSpares, EventSpared
<1> QED BY <1>1, <1>2, <1>3, <1>4, <1>5, <1>6 DEF Next

LEMMA EventInvariance == Spec => []EventInv
<1>1. Init => EventInv
  <2> SUFFICES ASSUME Init PROVE EventInv
    OBVIOUS
  <2>1. "event" \in Object /\ suspend_thread["event"] = <<>>
    BY DEF Init, IpcInit, Object
  <2> QED BY <2>1 DEF Init, EventInit, EventInv, EventTypeOK, NoWaiterIsSatisfied, ToSet
<1>2. IInv /\ EventInv /\ [Next]_vars => EventInv'
  BY EventNext
<1> QED BY <1>1, <1>2, IpcInvariance, PTL DEF Spec

\* rt_event_send, rt_event_recv, woken, timed out, reset or detached in between:
\* no thread sleeps whose wait the bits of the event would satisfy.
THEOREM EventWaiters == Spec => []NoWaiterIsSatisfied
<1>1. EventInv => NoWaiterIsSatisfied
  BY DEF EventInv
<1> QED BY <1>1, EventInvariance, PTL

\* The step wakes no receiver of the event.
NobodyWoken == \A t \in WokenBy : op[t] # "event_recv"

\* A waiter for the event, whom the step wakes.
LEMMA WokenFacts ==
  ASSUME IpcInv, NEW t \in WokenBy, op[t] = "event_recv"
  PROVE  /\ t \in Thread /\ t \in Listed("event") /\ stat[t] = "suspend"
         /\ stat'[t] = "ready" /\ error'[t] = "EOK"
<1>1. t \in Waiting /\ stat'[t] = "ready" /\ error'[t] = "EOK"
  BY DEF WokenBy
<1>2. PICK o \in Object : t \in Listed(o)
  BY <1>1 DEF Waiting, Listed
<1>3. t \in Thread /\ stat[t] = "suspend"
  BY <1>2, ListedCount DEF IpcInv, WaitersKnown
<1>4. t \in Listed(Awaits(t)) /\ Awaits(t) = "event"
  BY <1>3 DEF IpcInv, WaitersKnown, Awaits
<1> QED BY <1>1, <1>3, <1>4

LEMMA WokenBySend ==
  ASSUME IpcInv, EventInv, NEW s \in Thread, EventSend(s), NEW t \in WokenBy, op[t] = "event_recv"
  PROVE  /\ Satisfies(event_set'[t], event_set[t], event_info[t])
         /\ "CLEAR" \in event_info[t] =>
              /\ event_set'[t] \cap set' = {}
              /\ \A u \in WokenBy : op[u] = "event_recv" /\ InFrontOf(t, u) =>
                   event_set'[t] \cap event_set'[u] = {}
<1> DEFINE list == suspend_thread["event"]
           n    == Len(list)
<1>1. PICK left, At : Sends(left, At)
  BY SendFacts DEF EventInv
<1>2. list \in Seq(Thread) /\ n \in Nat /\ NoDup(list) /\ DOMAIN list = 1 .. n
  <2>1. "event" \in Object
    BY DEF Object
  <2> QED BY <2>1 DEF IpcInv, ListsOK, WaitersKnown
<1> HIDE DEF list
<1>3. ASSUME NEW u \in WokenBy, op[u] = "event_recv"
      PROVE  \E k \in At : list[k] = u
  <2>1. u \in Thread /\ stat[u] = "suspend" /\ stat'[u] = "ready"
    BY <1>3, WokenFacts
  <2>2. stat' = [v \in Thread |-> IF v \in {list[k] : k \in At} THEN "ready" ELSE stat[v]]
    BY <1>1 DEF Sends, Leave, list
  <2> QED BY <2>1, <2>2
<1>4. PICK k \in At : list[k] = t
  BY <1>3
<1>5. /\ k \in 1 .. n /\ k - 1 \in 0 .. n /\ k \in 0 .. n /\ n \in 0 .. n /\ k <= n
      /\ event_set'[t] = event_set[t] \cap left[k - 1]
      /\ "CLEAR" \in event_info[t] => left[k] \cap event_set[t] = {}
      /\ Satisfies(left[k - 1], event_set[t], event_info[t])
      /\ set' = left[n] /\ left[n] \subseteq left[k]
  <2>1. At \subseteq 1 .. n
    BY <1>1 DEF Sends, list
  <2>2. k \in 1 .. n /\ k - 1 \in 0 .. n /\ k \in 0 .. n /\ n \in 0 .. n /\ k <= n
    BY <1>2, <2>1
  <2> QED BY <1>1, <1>4, <2>2 DEF Sends, list
<1>6. Satisfies(event_set'[t], event_set[t], event_info[t])
  BY <1>5 DEF Satisfies
<1>7. ASSUME "CLEAR" \in event_info[t],
             NEW u \in WokenBy, op[u] = "event_recv", InFrontOf(t, u)
      PROVE  event_set'[t] \cap event_set'[u] = {}
  <2>1. PICK i \in 1 .. n, j \in 1 .. n : i < j /\ list[i] = t /\ list[j] = u
    BY <1>2, <1>7 DEF InFrontOf, list
  <2>2. i = k
    BY <1>2, <1>4, <1>5, <2>1 DEF NoDup
  <2>3. j \in At
    <3>1. PICK m \in At : list[m] = u
      BY <1>3, <1>7
    <3>2. m \in 1 .. n
      BY <1>1 DEF Sends, list
    <3> QED BY <1>2, <2>1, <3>1, <3>2 DEF NoDup
  <2>4. event_set'[u] = event_set[u] \cap left[j - 1]
    BY <1>1, <2>1, <2>3 DEF Sends, list
  <2>5. left[j - 1] \subseteq left[k]
    <3>1. j - 1 \in 0 .. n /\ k <= j - 1
      BY <1>2, <1>5, <2>1, <2>2
    <3> QED BY <1>1, <1>5, <3>1 DEF Sends, list
  <2> QED BY <1>5, <1>7, <2>4, <2>5
<1> QED BY <1>5, <1>6, <1>7

\* Who stays in the list is not woken, nor who leaves it with an error.
LEMMA StillListed ==
  ASSUME IpcInv, IpcInv', Listed("event") \subseteq Listed("event")'
  PROVE  NobodyWoken
<1>1. "event" \in Object
  BY DEF Object
<1>2. \A t \in Listed("event")' : stat'[t] = "suspend"
  BY <1>1 DEF IpcInv, WaitersKnown
<1> QED BY <1>2, WokenFacts DEF NobodyWoken

LEMMA WokenInError ==
  ASSUME IpcInv,
         \A u \in Thread : stat[u] = "suspend" => stat'[u] = "suspend" \/ error'[u] # "EOK"
  PROVE  NobodyWoken
BY WokenFacts DEF NobodyWoken

LEMMA OnlySendsWake ==
  ASSUME IInv, Next, \A s \in Thread : ~EventSend(s)
  PROVE  NobodyWoken
<1>0. /\ IpcInv /\ IInv' /\ IpcInv'
      /\ "event_recv" \in WaitCalls /\ ObjectOf("event_recv") = "event" /\ "event" \in Object
  BY NextKeeps DEF IInv, WaitCalls, ObjectOf, Object
<1>1. CASE SemStep \/ MqStep \/ MpStep
  <2>1. Others("sem") \/ Others("mq") \/ Others("mempool")
    BY <1>1, SemStepKeeps, MqStepKeeps, MpStepKeeps DEF IInv
  <2>2. Listed("event")' = Listed("event")
    BY <1>0, <2>1 DEF Others
  <2> QED BY <1>0, <2>2, StillListed
<1>2. CASE \E t \in Thread : EventThread(t)
  <2>1. PICK t \in Thread : EventThread(t) /\ ~EventSend(t)
    BY <1>2
  <2>2. CASE EventRecvWait(t)
    <3>1. stat' = [stat EXCEPT ![t] = "suspend"]
      BY <2>2 DEF EventRecvWait, Suspend, Enlist
    <3> QED BY <1>0, <3>1, WokenInError DEF IpcInv, ListsOK
  <2>3. CASE ~EventRecvWait(t)
    <3>1. stat' = stat
      BY <2>1, <2>3 DEF EventThread, EventRecvNothing, EventRecvNow, EventRecvRefused,
                        EventRecvWoken, EventSendNothing, tcb
    <3> QED BY <1>0, <3>1, WokenInError
  <2> QED BY <2>2, <2>3
<1>3. CASE EventReset
  <2>1. /\ stat' = [u \in Thread |->
              IF u \in ToSet(suspend_thread["event"]) THEN "ready" ELSE stat[u]]
        /\ error' = [u \in Thread |->
              IF u \in ToSet(suspend_thread["event"]) THEN "ERROR" ELSE error[u]]
    BY <1>3 DEF EventReset, ResetList, ResumeAll
  <2> QED BY <1>0, <2>1, WokenInError
<1>4. CASE Common
  <2>1. CASE \E t \in Thread : Return(t) \/ WakeWithError(t)
    BY <1>0, <2>1, WokenInError DEF Return, WakeWithError, tcb
  <2>2. CASE \E t \in Thread : TimeOut(t)
    <3>1. PICK t \in Thread : /\ stat' = [stat EXCEPT ![t] = "ready"]
                              /\ error' = [error EXCEPT ![t] = "ETIMEOUT"]
      BY <2>2 DEF TimeOut, Expire
    <3>2. /\ stat \in [Thread -> {"ready", "suspend"}]
          /\ error \in [Thread -> Error]
      BY <1>0 DEF IpcInv, ListsOK, FramesOK
    <3>3. ASSUME NEW u \in Thread, stat[u] = "suspend"
          PROVE  stat'[u] = "suspend" \/ error'[u] # "EOK"
      BY <3>1, <3>2, <3>3
    <3> QED BY <1>0, <3>3, WokenInError
  <2>3. CASE \E o \in Object : Detach(o)
    <3>1. PICK o \in Object : Detach(o)
      BY <2>3
    <3>2. CASE DetachBegin(o) \/ DetachLook(o) \/ DetachHalt(o)
      BY <1>0, <3>2, WokenInError DEF DetachBegin, DetachLook, DetachHalt, tcb
    <3>3. CASE DetachResume(o)
      <4> DEFINE h == Head(suspend_thread[o])
      <4>1. /\ stat' = [stat EXCEPT ![h] = "ready"]
            /\ error' = [error EXCEPT ![h] = "ERROR"]
        BY <3>3 DEF DetachResume, ResumeFirst
      <4>2. /\ stat \in [Thread -> {"ready", "suspend"}]
            /\ error \in [Thread -> Error]
        BY <1>0 DEF IpcInv, ListsOK, FramesOK
      <4> HIDE DEF h
      <4>3. ASSUME NEW u \in Thread, stat[u] = "suspend"
            PROVE  stat'[u] = "suspend" \/ error'[u] # "EOK"
        BY <4>1, <4>2, <4>3
      <4> QED BY <1>0, <4>3, WokenInError
    <3> QED BY <3>1, <3>2, <3>3 DEF Detach
  <2> QED BY <1>4, <2>1, <2>2, <2>3 DEF Common
<1> QED BY <1>1, <1>2, <1>3, <1>4 DEF Next, EventStep

\* rt_event_send: who wakes has the bits it asked for, and a bit that a waiter
\* clears is neither left in the event nor given to a waiter behind it.
THEOREM EventClears == Spec => ClearedBitsGoToOne
<1> DEFINE Clears ==
      \A t \in WokenBy : op[t] = "event_recv" =>
        /\ Satisfies(event_set'[t], event_set[t], event_info[t])
        /\ "CLEAR" \in event_info[t] =>
             /\ event_set'[t] \cap set' = {}
             /\ \A u \in WokenBy : InFrontOf(t, u) => event_set'[t] \cap event_set'[u] = {}
<1>1. ASSUME IInv, EventInv, Next PROVE Clears
  <2>1. IpcInv
    BY <1>1 DEF IInv
  <2>2. CASE \A s \in Thread : ~EventSend(s)
    BY <1>1, <2>2, OnlySendsWake DEF NobodyWoken
  <2>3. CASE \E s \in Thread : EventSend(s)
    <3>1. PICK s \in Thread : EventSend(s)
      BY <2>3
    <3> SUFFICES ASSUME NEW t \in WokenBy, op[t] = "event_recv"
                 PROVE  /\ Satisfies(event_set'[t], event_set[t], event_info[t])
                        /\ "CLEAR" \in event_info[t] =>
                             /\ event_set'[t] \cap set' = {}
                             /\ \A u \in WokenBy : InFrontOf(t, u) =>
                                  event_set'[t] \cap event_set'[u] = {}
      OBVIOUS
    <3>2. ASSUME NEW u \in WokenBy, InFrontOf(t, u) PROVE op[u] = "event_recv"
      <4>1. "event" \in Object /\ u \in Listed("event")
        BY <3>2 DEF InFrontOf, Listed, ToSet, Object
      <4>2. stat[u] = "suspend" /\ Awaits(u) = "event" /\ u \in Thread
        BY <2>1, <4>1, ListedCount DEF IpcInv, WaitersKnown
      <4>3. op[u] \in WaitCalls
        BY <2>1, <4>2 DEF IpcInv, WaitersKnown
      <4> QED BY <4>2, <4>3 DEF Awaits, WaitCalls
    <3> QED BY <1>1, <2>1, <3>1, <3>2, WokenBySend
  <2> QED BY <2>2, <2>3
<1>2. IInv /\ EventInv /\ [Next]_vars => [Clears]_<<eventVars, ipcVars>>
  BY <1>1 DEF vars
<1>3. ClearedBitsGoToOne <=> [][Clears]_<<eventVars, ipcVars>>
  BY DEF ClearedBitsGoToOne
<1> QED BY <1>2, <1>3, IpcInvariance, EventInvariance, PTL DEF Spec

-----------------------------------------------------------------------------
(* Lists linked through a field, of buffers and of blocks: f are the       *)
(* elements from b on, nxt the field of an element, 0 the end.             *)

Linked(f, b, nxt, S) ==
  /\ f \in Seq(S) /\ NoDup(f)
  /\ b = IF f = <<>> THEN 0 ELSE f[1]
  /\ \A k \in 1 .. Len(f) : nxt[f[k]] = IF k = Len(f) THEN 0 ELSE f[k + 1]

LEMMA LinkedStart ==
  ASSUME NEW S, 0 \notin S, NEW f, NEW b, NEW nxt, Linked(f, b, nxt, S)
  PROVE  /\ b = 0 <=> f = <<>>
         /\ f = <<>> <=> Len(f) = 0
         /\ f # <<>> => b \in ToSet(f) /\ b \in S /\ b = f[1] /\ b = Head(f)
         /\ ToSet(f) \subseteq S /\ Len(f) \in Nat
<1>1. /\ f \in Seq(S) /\ Len(f) \in Nat /\ DOMAIN f = 1 .. Len(f)
      /\ \A k \in 1 .. Len(f) : f[k] \in S
  BY DEF Linked
<1>2. f = <<>> <=> Len(f) = 0
  BY <1>1
<1>3. ToSet(f) \subseteq S
  BY <1>1 DEF ToSet
<1>4. ASSUME f # <<>> PROVE b \in ToSet(f) /\ b \in S /\ b = f[1] /\ b = Head(f)
  <2>1. 1 \in 1 .. Len(f)
    BY <1>1, <1>2, <1>4
  <2>3. b = f[1]
    BY <1>4 DEF Linked
  <2>2. Head(f) = f[1]
    BY <1>1, <1>4
  <2> QED BY <1>1, <2>1, <2>2, <2>3 DEF ToSet
<1>5. b = 0 <=> f = <<>>
  BY <1>4 DEF Linked
<1> QED BY <1>1, <1>2, <1>3, <1>4, <1>5

LEMMA LinkedKept ==
  ASSUME NEW S, NEW f, NEW b, NEW nxt, Linked(f, b, nxt, S),
         NEW g, \A x \in ToSet(f) : g[x] = nxt[x]
  PROVE  Linked(f, b, g, S)
<1>1. f \in Seq(S) /\ DOMAIN f = 1 .. Len(f)
  BY DEF Linked
<1>2. \A k \in 1 .. Len(f) : f[k] \in ToSet(f)
  BY <1>1 DEF ToSet
<1> QED BY <1>2 DEF Linked

LEMMA LinkedTail ==
  ASSUME NEW S, 0 \notin S, NEW f, NEW b, NEW nxt, Linked(f, b, nxt, S), f # <<>>,
         NEW g, \A x \in ToSet(f) \ {b} : g[x] = nxt[x]
  PROVE  /\ Linked(Tail(f), nxt[b], g, S)
         /\ ToSet(Tail(f)) = ToSet(f) \ {b} /\ Len(Tail(f)) = Len(f) - 1
<1> DEFINE r == Tail(f)
<1>1. f \in Seq(S) /\ NoDup(f) /\ b = f[1] /\ b = Head(f)
  BY LinkedStart DEF Linked
<1>2. /\ r \in Seq(S) /\ NoDup(r) /\ ToSet(r) = ToSet(f) \ {b}
  BY <1>1, TailFacts
<1>3. /\ Len(f) \in Nat \ {0} /\ Len(r) = Len(f) - 1
      /\ \A k \in 1 .. Len(f) - 1 : r[k] = f[k + 1]
  BY <1>1, HeadTailProperties
<1>4. DOMAIN r = 1 .. Len(r)
  BY <1>2
<1> HIDE DEF r
<1>5. nxt[b] = IF r = <<>> THEN 0 ELSE r[1]
  <2>1. nxt[b] = IF 1 = Len(f) THEN 0 ELSE f[2]
    BY <1>1, <1>3 DEF Linked
  <2>2. r = <<>> <=> Len(r) = 0
    BY <1>2
  <2>3. CASE Len(f) = 1
    BY <1>3, <2>1, <2>2, <2>3
  <2>4. CASE Len(f) # 1
    <3>1. 1 \in 1 .. Len(f) - 1 /\ Len(r) # 0
      BY <1>3, <2>4
    <3>2. r[1] = f[1 + 1] /\ 1 + 1 = 2
      BY <1>3, <3>1
    <3> QED BY <2>1, <2>2, <2>4, <3>1, <3>2
  <2> QED BY <2>3, <2>4
<1>6. ASSUME NEW k \in 1 .. Len(r)
      PROVE  g[r[k]] = IF k = Len(r) THEN 0 ELSE r[k + 1]
  <2>1. k \in 1 .. Len(f) - 1 /\ k + 1 \in 1 .. Len(f) /\ r[k] = f[k + 1]
    BY <1>3
  <2>2. r[k] \in ToSet(r)
    BY <1>4 DEF ToSet
  <2>3. g[r[k]] = nxt[f[k + 1]]
    BY <1>2, <2>1, <2>2
  <2>4. nxt[f[k + 1]] = IF k + 1 = Len(f) THEN 0 ELSE f[(k + 1) + 1]
    BY <2>1 DEF Linked
  <2>5. CASE k = Len(r)
    BY <1>3, <2>3, <2>4, <2>5
  <2>6. CASE k # Len(r)
    <3>1. k + 1 \in 1 .. Len(f) - 1 /\ k + 1 # Len(f)
      BY <1>3, <2>6
    <3> QED BY <1>3, <2>3, <2>4, <2>6, <3>1
  <2> QED BY <2>5, <2>6
<1>7. Linked(r, nxt[b], g, S)
  BY <1>2, <1>5, <1>6 DEF Linked
<1> QED BY <1>2, <1>3, <1>7 DEF r

LEMMA LinkedFront ==
  ASSUME NEW S, NEW f, NEW b, NEW nxt, Linked(f, b, nxt, S),
         NEW e \in S, e \notin ToSet(f),
         NEW g, g[e] = b, \A x \in ToSet(f) : g[x] = nxt[x]
  PROVE  /\ Linked(<<e>> \o f, e, g, S)
         /\ ToSet(<<e>> \o f) = ToSet(f) \cup {e} /\ Len(<<e>> \o f) = Len(f) + 1
<1> DEFINE r == <<e>> \o f
           n == Len(f)
<1>1. f \in Seq(S) /\ NoDup(f) /\ n \in Nat /\ DOMAIN f = 1 .. n
  BY DEF Linked
<1>2. /\ r \in Seq(S) /\ Len(r) = n + 1 /\ DOMAIN r = 1 .. n + 1
      /\ r[1] = e /\ \A k \in 2 .. n + 1 : r[k] = f[k - 1]
  BY <1>1
<1>3. \A k \in 1 .. n : f[k] \in ToSet(f)
  BY <1>1 DEF ToSet
<1> HIDE DEF r
<1>4. \A k \in 1 .. n : k + 1 \in 2 .. n + 1 /\ r[k + 1] = f[k]
  BY <1>1, <1>2
<1>5. ToSet(r) = ToSet(f) \cup {e}
  <2> ToSet(r) = {r[i] : i \in 1 .. n + 1}
    BY <1>2 DEF ToSet
  <2>0. \A k \in 1 .. n : f[k] \in ToSet(r)
    BY <1>1, <1>4
  <2>1. \A x \in ToSet(f) : x \in ToSet(r)
    BY <1>1, <2>0 DEF ToSet
  <2>2. e \in ToSet(r)
    BY <1>1, <1>2
  <2>3. ASSUME NEW k \in 1 .. n + 1 PROVE r[k] = e \/ r[k] \in ToSet(f)
    <3>1. CASE k = 1
      BY <1>2, <3>1
    <3>2. CASE k # 1
      <4>1. k \in 2 .. n + 1 /\ k - 1 \in 1 .. n
        BY <1>1, <3>2
      <4>2. r[k] = f[k - 1] /\ f[k - 1] \in ToSet(f)
        BY <1>2, <1>3, <4>1
      <4> QED BY <4>2
    <3> QED BY <3>1, <3>2
  <2>4. \A x \in ToSet(r) : x = e \/ x \in ToSet(f)
    BY <1>2, <2>3 DEF ToSet
  <2> QED BY <2>1, <2>2, <2>4
<1>6. NoDup(r)
  <2> SUFFICES ASSUME NEW i \in 1 .. n + 1, NEW j \in 1 .. n + 1, r[i] = r[j] PROVE i = j
    BY <1>2 DEF NoDup
  <2>1. \A k \in 1 .. n + 1 : k = 1 \/ (k \in 2 .. n + 1 /\ k - 1 \in 1 .. n)
    BY <1>1
  <2>2. CASE i = 1 \/ j = 1
    BY <1>2, <1>3, <2>1, <2>2
  <2>3. CASE i # 1 /\ j # 1
    <3>1. i - 1 \in 1 .. n /\ j - 1 \in 1 .. n /\ f[i - 1] = f[j - 1]
      BY <1>2, <2>1, <2>3
    <3>2. i - 1 = j - 1
      BY <1>1, <3>1 DEF NoDup
    <3> QED BY <3>2
  <2> QED BY <2>2, <2>3
<1>7. ASSUME NEW k \in 1 .. n + 1
      PROVE  g[r[k]] = IF k = n + 1 THEN 0 ELSE r[k + 1]
  <2>1. CASE k = 1
    <3>1. b = IF f = <<>> THEN 0 ELSE f[1]
      BY DEF Linked
    <3>2. f = <<>> <=> n = 0
      BY <1>1
    <3>3. n # 0 => r[1 + 1] = f[1]
      BY <1>1, <1>4
    <3> QED BY <1>1, <1>2, <2>1, <3>1, <3>2, <3>3
  <2>2. CASE k # 1
    <3>1. k \in 2 .. n + 1 /\ k - 1 \in 1 .. n /\ r[k] = f[k - 1]
      BY <1>1, <1>2, <2>2
    <3>2. g[r[k]] = IF k - 1 = n THEN 0 ELSE f[(k - 1) + 1]
      BY <1>3, <3>1 DEF Linked
    <3>3. k - 1 # n => k \in 1 .. n /\ r[k + 1] = f[k] /\ (k - 1) + 1 = k
      BY <1>1, <1>4, <3>1
    <3>4. k - 1 = n <=> k = n + 1
      BY <1>1
    <3> QED BY <3>2, <3>3, <3>4
  <2> QED BY <2>1, <2>2
<1>8. r # <<>>
  BY <1>1, <1>2
<1>9. Linked(r, e, g, S)
  BY <1>2, <1>6, <1>7, <1>8 DEF Linked
<1> QED BY <1>2, <1>5, <1>9 DEF r

LEMMA LinkedBack ==
  ASSUME NEW S, NEW f, NEW b, NEW nxt, Linked(f, b, nxt, S),
         NEW e \in S, e \notin ToSet(f),
         NEW g, g[e] = 0, f # <<>> => g[f[Len(f)]] = e,
         \A x \in ToSet(f) : f = <<>> \/ x = f[Len(f)] \/ g[x] = nxt[x]
  PROVE  /\ Linked(Append(f, e), IF f = <<>> THEN e ELSE b, g, S)
         /\ ToSet(Append(f, e)) = ToSet(f) \cup {e} /\ Len(Append(f, e)) = Len(f) + 1
         /\ Append(f, e)[Len(f) + 1] = e
<1> DEFINE r == Append(f, e)
           n == Len(f)
<1>1. f \in Seq(S) /\ NoDup(f) /\ n \in Nat /\ DOMAIN f = 1 .. n
  BY DEF Linked
<1>2. /\ r \in Seq(S) /\ Len(r) = n + 1 /\ DOMAIN r = 1 .. n + 1
      /\ r[n + 1] = e /\ \A k \in 1 .. n : r[k] = f[k]
  BY <1>1
<1>3. \A k \in 1 .. n : f[k] \in ToSet(f)
  BY <1>1 DEF ToSet
<1> HIDE DEF r
<1>4. \A k \in 1 .. n + 1 : k = n + 1 \/ k \in 1 .. n
  BY <1>1
<1>5. ToSet(r) = ToSet(f) \cup {e}
  <2>1. n + 1 \in 1 .. n + 1 /\ \A k \in 1 .. n : k \in 1 .. n + 1
    BY <1>1
  <2> QED BY <1>1, <1>2, <1>3, <1>4, <2>1 DEF ToSet
<1>6. NoDup(r)
  BY <1>1, <1>2, <1>3, <1>4 DEF NoDup
<1>7. ASSUME NEW k \in 1 .. n + 1
      PROVE  g[r[k]] = IF k = n + 1 THEN 0 ELSE r[k + 1]
  <2>1. CASE k = n + 1
    BY <1>2, <2>1
  <2>2. CASE k = n /\ k # n + 1
    <3>1. k \in 1 .. n
      BY <1>4, <2>2
    <3>2. f # <<>>
      BY <1>1, <3>1
    <3>3. r[k] = f[n] /\ r[k + 1] = e
      BY <1>2, <2>2, <3>1
    <3> QED BY <2>2, <3>2, <3>3
  <2>3. CASE k # n /\ k # n + 1
    <3>1. k \in 1 .. n /\ k + 1 \in 1 .. n /\ n \in 1 .. n
      <4>1. k \in 1 .. n /\ n \in Nat
        BY <1>1, <1>4, <2>3
      <4> HIDE DEF n
      <4> QED BY <2>3, <4>1
    <3>2. f[k] # f[n] /\ f # <<>>
      <4>1. f # <<>>
        BY <1>1, <3>1
      <4> QED BY <1>1, <2>3, <3>1, <4>1 DEF NoDup
    <3>3. g[f[k]] = nxt[f[k]]
      BY <1>3, <3>1, <3>2
    <3>4. nxt[f[k]] = f[k + 1]
      BY <2>3, <3>1 DEF Linked
    <3> QED BY <1>2, <2>3, <3>1, <3>3, <3>4
  <2> QED BY <2>1, <2>2, <2>3
<1>8. r # <<>> /\ r[1] = IF f = <<>> THEN e ELSE f[1]
  <2>1. f = <<>> <=> n = 0
    BY <1>1
  <2>2. r # <<>>
    BY <1>1, <1>2
  <2>3. CASE n = 0
    BY <1>2, <2>1, <2>2, <2>3
  <2>4. CASE n # 0
    <3>1. 1 \in 1 .. n
      BY <1>1, <2>4
    <3> QED BY <1>2, <2>1, <2>2, <2>4, <3>1
  <2> QED BY <2>3, <2>4
<1>9. Linked(r, IF f = <<>> THEN e ELSE b, g, S)
  BY <1>2, <1>6, <1>7, <1>8 DEF Linked
<1> QED BY <1>2, <1>5, <1>9 DEF r

\* A list holds as many elements as it is long.
LEMMA Counted ==
  ASSUME NEW S, NEW f \in Seq(S), NoDup(f)
  PROVE  IsFiniteSet(ToSet(f)) /\ Cardinality(ToSet(f)) = Len(f)
<1> DEFINE T == ToSet(f)
<1>1. Len(f) \in Nat /\ DOMAIN f = 1 .. Len(f)
  OBVIOUS
<1>2. f \in Bijection(1 .. Len(f), T)
  <2>1. f \in [1 .. Len(f) -> T]
    <3>1. f = [k \in 1 .. Len(f) |-> f[k]]
      OBVIOUS
    <3>2. \A k \in 1 .. Len(f) : f[k] \in T
      BY <1>1 DEF ToSet
    <3> QED BY <3>1, <3>2
  <2>2. \A x \in T : \E k \in 1 .. Len(f) : f[k] = x
    BY <1>1 DEF ToSet
  <2>3. \A i, j \in 1 .. Len(f) : f[i] = f[j] => i = j
    BY DEF NoDup
  <2> HIDE DEF T
  <2>4. f \in Injection(1 .. Len(f), T)
    BY <2>1, <2>3 DEF Injection, IsInjective
  <2>5. f \in Surjection(1 .. Len(f), T)
    BY <2>1, <2>2 DEF Surjection
  <2> QED BY <2>4, <2>5 DEF Bijection
<1>3. ExistsBijection(1 .. Len(f), T)
  BY <1>2 DEF ExistsBijection
<1> HIDE DEF T
<1>4. Cardinality(T) = Len(f)
  BY <1>1, <1>3, FS_CountingElements
<1>5. IsFiniteSet(T)
  BY <1>1, <1>3, FS_NatBijection
<1> QED BY <1>4, <1>5 DEF T

\* A function that follows the field from b on gives the list.
LEMMA Follows ==
  ASSUME NEW S, NEW f, NEW b, NEW nxt, Linked(f, b, nxt, S),
         NEW g, Len(f) > 0 => g[1] = b,
         \A k \in 2 .. Len(f) : g[k - 1] \in S => g[k] = nxt[g[k - 1]]
  PROVE  \A k \in 1 .. Len(f) : g[k] = f[k]
<1> DEFINE n == Len(f)
           T == {k \in Nat : k + 1 \in 1 .. n => g[k + 1] = f[k + 1]}
<1>1. f \in Seq(S) /\ n \in Nat /\ \A k \in 1 .. n : f[k] \in S
  BY DEF Linked
<1>2. 0 \in T
  <2>1. n > 0 => f # <<>>
    BY <1>1
  <2>2. f # <<>> => b = f[1]
    BY DEF Linked
  <2> QED BY <1>1, <2>1, <2>2
<1>3. ASSUME NEW k \in Nat, k \in T PROVE k + 1 \in T
  <2>1. SUFFICES ASSUME (k + 1) + 1 \in 1 .. n PROVE g[(k + 1) + 1] = f[(k + 1) + 1]
    OBVIOUS
  <2>2. /\ k + 1 \in 1 .. n /\ k + 1 # n /\ (k + 1) + 1 \in 2 .. n
        /\ ((k + 1) + 1) - 1 = k + 1
    BY <1>1, <2>1
  <2>3. g[k + 1] = f[k + 1] /\ f[k + 1] \in S
    BY <1>1, <1>3, <2>2
  <2>4. g[(k + 1) + 1] = nxt[f[k + 1]]
    BY <2>2, <2>3
  <2>5. nxt[f[k + 1]] = f[(k + 1) + 1]
    BY <2>2 DEF Linked
  <2> QED BY <2>4, <2>5
<1>4. \A k \in Nat : k \in T
  <2> HIDE DEF T
  <2> QED BY <1>2, <1>3, Induct
<1>5. ASSUME NEW k \in 1 .. n PROVE g[k] = f[k]
  <2>1. k - 1 \in Nat /\ (k - 1) + 1 = k
    BY <1>1
  <2>2. k - 1 \in T
    BY <1>4, <2>1
  <2> QED BY <2>1, <2>2
<1> QED BY <1>5

-----------------------------------------------------------------------------
(* The blocks of a pool.                                                   *)

LEMMA FreeBlocksAre ==
  ASSUME NEW f, Linked(f, block_list, link, Block), Len(f) = block_free_count
  PROVE  FreeBlocks = f
<1> DEFINE n == Len(f)
           g == FreeBlocks
           F(h) == [k \in 1 .. n |->
                      IF k = 1 THEN block_list
                      ELSE IF h[k - 1] \in Block THEN link[h[k - 1]] ELSE NoBlock]
<1>1. g = CHOOSE h : h = F(h)
  BY DEF FreeBlocks
<1>2. f \in Seq(Block) /\ n \in Nat /\ \A k \in 1 .. n : f[k] \in Block
  BY DEF Linked
<1>3. f = F(f)
  <2>1. ASSUME NEW k \in 1 .. n
        PROVE  f[k] = IF k = 1 THEN block_list
                      ELSE IF f[k - 1] \in Block THEN link[f[k - 1]] ELSE NoBlock
    <3>1. CASE k = 1
      <4>1. f # <<>>
        BY <1>2
      <4> QED BY <3>1, <4>1 DEF Linked
    <3>2. CASE k # 1
      <4>1. k - 1 \in 1 .. n /\ k - 1 # n /\ (k - 1) + 1 = k
        BY <1>2, <3>2
      <4>2. link[f[k - 1]] = f[k]
        BY <4>1 DEF Linked
      <4> QED BY <1>2, <3>2, <4>1, <4>2
    <3> QED BY <3>1, <3>2
  <2>2. f = [k \in 1 .. n |-> f[k]]
    BY <1>2
  <2> QED BY <2>1, <2>2
<1>4. g = F(g)
  <2> HIDE DEF F, g
  <2> QED BY <1>1, <1>3
<1> HIDE DEF g
<1>5. g = [k \in 1 .. n |-> g[k]]
  BY <1>4
<1>6. n > 0 => g[1] = block_list
  <2>1. n > 0 => 1 \in 1 .. n
    BY <1>2
  <2> QED BY <1>4, <2>1
<1>7. \A k \in 2 .. n : g[k - 1] \in Block => g[k] = link[g[k - 1]]
  <2> SUFFICES ASSUME NEW k \in 2 .. n, g[k - 1] \in Block PROVE g[k] = link[g[k - 1]]
    OBVIOUS
  <2>1. k \in 1 .. n /\ k # 1
    BY <1>2
  <2> QED BY <1>4, <2>1
<1> HIDE DEF F
<1>8. \A k \in 1 .. n : g[k] = f[k]
  BY <1>6, <1>7, Follows
<1>9. f = [k \in 1 .. n |-> f[k]]
  BY <1>2
<1> QED BY <1>5, <1>8, <1>9 DEF g

\* The free list has the blocks that are not lent, and its count is its length.
FreeList(f) ==
  /\ Linked(f, block_list, link, Block)
  /\ Len(f) = block_free_count
  /\ ToSet(f) = Block \ lent

PoolInv ==
  /\ \E f : FreeList(f)
  /\ lent \subseteq Block /\ \A b \in lent : link[b] = Pool
  /\ link \in [Block -> Block \cup {NoBlock, Pool}]
  /\ suspend_thread_count \in 0 .. MaxCount

LEMMA BlockFacts ==
  /\ MaxBlocks \in Nat \ {0} /\ 0 \notin Block /\ NoBlock = 0 /\ Pool \notin Block
  /\ IsFiniteSet(Block) /\ Cardinality(Block) = MaxBlocks
<1>1. MaxBlocks \in Nat \ {0}
  BY MemPoolAssumption
<1>2. IsFiniteSet(1 .. MaxBlocks) /\ Cardinality(1 .. MaxBlocks) = MaxBlocks
  BY <1>1, FS_Interval
<1> QED BY <1>1, <1>2 DEF Block, NoBlock, Pool

LEMMA PoolHolds ==
  ASSUME PoolInv
  PROVE  BlocksInOnePlace /\ MpTypeOK
<1>1. PICK f : FreeList(f)
  BY DEF PoolInv
<1>2. /\ FreeBlocks = f /\ f \in Seq(Block) /\ NoDup(f) /\ Len(f) = block_free_count
      /\ Linked(f, block_list, link, Block) /\ ToSet(f) = Block \ lent
  BY <1>1, FreeBlocksAre DEF FreeList, Linked
<1>3. /\ block_list = 0 <=> f = <<>>
      /\ f = <<>> <=> Len(f) = 0
      /\ f # <<>> => block_list \in Block
      /\ Len(f) \in Nat
  BY <1>2, BlockFacts, LinkedStart
<1>4. IsInjective(f)
  <2>1. DOMAIN f = 1 .. Len(f)
    BY <1>2
  <2> QED BY <1>2, <2>1 DEF NoDup, IsInjective
<1>5. Len(f) > 0 => link[f[Len(f)]] = NoBlock
  <2>1. Len(f) > 0 => Len(f) \in 1 .. Len(f)
    BY <1>3
  <2> QED BY <1>2, <2>1, BlockFacts DEF Linked
<1>6. BlocksInOnePlace
  BY <1>2, <1>3, <1>4, <1>5, BlockFacts DEF BlocksInOnePlace, PoolInv
<1>7. Len(f) <= MaxBlocks
  <2>1. Cardinality(ToSet(f)) = Len(f)
    BY <1>2, Counted
  <2>2. ToSet(f) \in SUBSET Block
    BY <1>2
  <2> QED BY <2>1, <2>2, BlockFacts, FS_Subset
<1>8. block_free_count \in 0 .. MaxBlocks /\ block_list \in Block \cup {NoBlock}
  BY <1>2, <1>3, <1>7, BlockFacts
<1> QED BY <1>6, <1>8 DEF MpTypeOK, PoolInv

LEMMA PoolInit ==
  ASSUME MpInit
  PROVE  PoolInv
<1> DEFINE f == [k \in 1 .. MaxBlocks |-> k]
           n == MaxBlocks
<1>1. n \in Nat \ {0}
  BY BlockFacts
<1>2. f \in Seq(Block) /\ Len(f) = n /\ f # <<>>
  BY <1>1 DEF Block
<1>3. \A k \in 1 .. n : f[k] = k
  OBVIOUS
<1> HIDE DEF f
<1>4. NoDup(f) /\ ToSet(f) = Block
  <2>1. DOMAIN f = 1 .. n
    BY <1>2
  <2> QED BY <1>2, <1>3, <2>1 DEF NoDup, ToSet, Block
<1>5. \A k \in 1 .. n : link[f[k]] = IF k = n THEN 0 ELSE f[k + 1]
  <2> SUFFICES ASSUME NEW k \in 1 .. n PROVE link[f[k]] = IF k = n THEN 0 ELSE f[k + 1]
    OBVIOUS
  <2>1. k # n => k + 1 \in 1 .. n
    BY <1>1
  <2> QED BY <1>3, <2>1 DEF MpInit, Block, NoBlock
<1>6. 1 \in 1 .. n /\ f[1] = 1
  BY <1>1, <1>3
<1>7. Linked(f, block_list, link, Block)
  BY <1>2, <1>4, <1>5, <1>6 DEF Linked, MpInit
<1>8. FreeList(f)
  BY <1>2, <1>4, <1>7 DEF FreeList, MpInit
<1>9. link \in [Block -> Block \cup {NoBlock, Pool}]
  BY <1>1 DEF MpInit, Block, NoBlock
<1>10. 0 \in 0 .. MaxCount
  BY MemPoolAssumption
<1> QED BY <1>8, <1>9, <1>10 DEF PoolInv, MpInit

LEMMA PoolKept ==
  ASSUME PoolInv, UNCHANGED <<block_list, block_free_count, link, lent>>,
         suspend_thread_count' \in 0 .. MaxCount
  PROVE  PoolInv'
<1>1. PICK f : FreeList(f)
  BY DEF PoolInv
<1>2. FreeList(f)'
  BY <1>1 DEF FreeList
<1> QED BY <1>2 DEF PoolInv

LEMMA PoolLends ==
  ASSUME PoolInv, block_free_count # 0,
         block_free_count' = block_free_count - 1,
         link' = [link EXCEPT ![block_list] = Pool],
         lent' = lent \cup {block_list},
         block_list' = link[block_list],
         suspend_thread_count' = suspend_thread_count
  PROVE  PoolInv'
<1>1. PICK f : FreeList(f)
  BY DEF PoolInv
<1>2. /\ Linked(f, block_list, link, Block)
      /\ Len(f) = block_free_count /\ ToSet(f) = Block \ lent
  BY <1>1 DEF FreeList
<1>3. f # <<>> /\ block_list \in ToSet(f) /\ block_list \in Block
  BY <1>2, BlockFacts, LinkedStart
<1>4. link \in [Block -> Block \cup {NoBlock, Pool}] /\ lent \subseteq Block
  BY DEF PoolInv
<1>5. \A b \in Block : link'[b] = IF b = block_list THEN Pool ELSE link[b]
  BY <1>4
<1>6. \A x \in ToSet(f) \ {block_list} : link'[x] = link[x]
  BY <1>2, <1>5
<1>7. /\ Linked(Tail(f), link[block_list], link', Block)
      /\ ToSet(Tail(f)) = ToSet(f) \ {block_list} /\ Len(Tail(f)) = Len(f) - 1
  BY <1>2, <1>3, <1>6, BlockFacts, LinkedTail
<1>8. FreeList(Tail(f))'
  BY <1>2, <1>7 DEF FreeList, Block
<1>9. \A b \in lent' : link'[b] = Pool
  BY <1>3, <1>4, <1>5 DEF PoolInv
<1>10. link' \in [Block -> Block \cup {NoBlock, Pool}] /\ lent' \subseteq Block
  BY <1>3, <1>4
<1> QED BY <1>8, <1>9, <1>10 DEF PoolInv, Block, Pool

LEMMA PoolRegains ==
  ASSUME PoolInv, NEW b \in lent,
         link' = [link EXCEPT ![b] = block_list],
         block_list' = b,
         lent' = lent \ {b},
         block_free_count' = block_free_count + 1,
         suspend_thread_count' \in 0 .. MaxCount
  PROVE  PoolInv'
<1>1. PICK f : FreeList(f)
  BY DEF PoolInv
<1>2. /\ Linked(f, block_list, link, Block)
      /\ Len(f) = block_free_count /\ ToSet(f) = Block \ lent
  BY <1>1 DEF FreeList
<1>3. link \in [Block -> Block \cup {NoBlock, Pool}] /\ lent \subseteq Block /\ b \in Block
  BY DEF PoolInv
<1>4. \A c \in Block : link'[c] = IF c = b THEN block_list ELSE link[c]
  BY <1>3
<1>5. b \notin ToSet(f) /\ link'[b] = block_list /\ \A x \in ToSet(f) : link'[x] = link[x]
  BY <1>2, <1>3, <1>4
<1>6. /\ Linked(<<b>> \o f, b, link', Block)
      /\ ToSet(<<b>> \o f) = ToSet(f) \cup {b} /\ Len(<<b>> \o f) = Len(f) + 1
  <2> DEFINE B == Block
  <2>1. b \in B
    BY <1>3
  <2>2. Linked(f, block_list, link, B)
    BY <1>2
  <2> HIDE DEF B
  <2>4. b \notin ToSet(f)
    BY <1>5
  <2>5. link'[b] = block_list
    BY <1>5
  <2>6. \A x \in ToSet(f) : link'[x] = link[x]
    BY <1>5
  <2>3. /\ Linked(<<b>> \o f, b, link', B)
        /\ ToSet(<<b>> \o f) = ToSet(f) \cup {b} /\ Len(<<b>> \o f) = Len(f) + 1
    BY ONLY <2>1, <2>2, <2>4, <2>5, <2>6, LinkedFront
  <2> QED BY <2>3 DEF B
<1>7. FreeList(<<b>> \o f)'
  BY <1>2, <1>3, <1>6 DEF FreeList, Block
<1>8. block_list \in Block \cup {NoBlock}
  BY PoolHolds DEF MpTypeOK
<1>9. \A c \in lent' : link'[c] = Pool
  BY <1>3, <1>4 DEF PoolInv
<1>10. link' \in [Block -> Block \cup {NoBlock, Pool}] /\ lent' \subseteq Block
  BY <1>3, <1>8
<1> QED BY <1>7, <1>9, <1>10 DEF PoolInv, Block, Pool

LEMMA PoolStep ==
  ASSUME IpcInv, MpInv, PoolInv, MpStep
  PROVE  PoolInv'
<1>0. suspend_thread_count \in 0 .. MaxCount /\ MaxCount \in Nat
  BY MemPoolAssumption DEF PoolInv
<1>1. ASSUME NEW t \in Thread, MpAlloc(t) PROVE PoolInv'
  BY <1>1, PoolLends DEF MpAlloc, Lend
<1>2. ASSUME NEW t \in Thread, MpRefused(t) PROVE PoolInv'
  BY <1>0, <1>2, PoolKept DEF MpRefused, mpVars
<1>3. ASSUME NEW t \in Thread, MpWait(t) PROVE PoolInv'
  <2>1. suspend_thread_count' \in 0 .. MaxCount
    BY <1>0, <1>3 DEF MpWait
  <2> QED BY <1>3, <2>1, PoolKept DEF MpWait
<1>4. ASSUME NEW t \in Thread, MpFree(t) PROVE PoolInv'
  <2>1. Regain(t)
    BY <1>4 DEF MpFree, MpFreeQuiet, MpFreeWakes
  <2>2. suspend_thread_count' \in 0 .. MaxCount
    BY <1>0, <1>4 DEF MpFree, MpFreeQuiet, MpFreeWakes
  <2>3. PICK b \in lent : /\ link' = [link EXCEPT ![b] = block_list]
                          /\ block_list' = b
                          /\ lent' = lent \ {b}
    BY <2>1 DEF Regain
  <2>4. block_free_count' = block_free_count + 1
    BY <2>1 DEF Regain
  <2> QED BY <2>2, <2>3, <2>4, PoolRegains
<1>5. ASSUME MpDetach PROVE PoolInv'
  <2> DEFINE s == suspend_thread["mempool"]
  <2>1. s \in Seq(Thread) /\ "mempool" \in Object
    BY DEF Object, IpcInv, ListsOK
  <2>2. Len(s') <= Len(s) /\ Len(s') \in Nat /\ Len(s) \in Nat
    <3>1. CASE DetachResume("mempool")
      <4>1. s # <<>> /\ s' = Tail(s)
        BY <2>1, <3>1 DEF DetachResume, ResumeFirst, IpcInv, ListsOK
      <4> QED BY <2>1, <4>1
    <3>2. CASE ~DetachResume("mempool")
      <4>1. s' = s
        BY <1>5, <3>2 DEF MpDetach, Detach, DetachBegin, DetachLook, DetachHalt
      <4> QED BY <2>1, <4>1
    <3> QED BY <3>1, <3>2
  <2>3. suspend_thread_count' = suspend_thread_count - Len(s) + Len(s')
    BY <1>5 DEF MpDetach
  <2>4. suspend_thread_count' \in Nat
    BY <1>5, MpDetachKeeps DEF MpInv
  <2>5. suspend_thread_count' \in 0 .. MaxCount
    <3> DEFINE m == Len(s)
               m2 == Len(s')
    <3> HIDE DEF m, m2
    <3>1. m2 <= m /\ m \in Nat /\ m2 \in Nat
          /\ suspend_thread_count' = suspend_thread_count - m + m2
      BY <2>2, <2>3 DEF m, m2
    <3> QED BY <1>0, <2>4, <3>1
  <2> QED BY <1>5, <2>5, PoolKept DEF MpDetach
<1> QED BY <1>1, <1>2, <1>3, <1>4, <1>5 DEF MpStep, MpThread

LEMMA PoolInvariance == Spec => []PoolInv
<1>1. Init => PoolInv
  BY PoolInit DEF Init
<1>2. ASSUME IInv, PoolInv, [Next]_vars PROVE PoolInv'
  <2>1. CASE MpStep
    BY <1>2, <2>1, PoolStep DEF IInv
  <2>2. CASE UNCHANGED mpVars
    <3>1. suspend_thread_count' \in 0 .. MaxCount
      BY <1>2, <2>2 DEF mpVars, PoolInv
    <3> QED BY <1>2, <2>2, <3>1, PoolKept DEF mpVars
  <2> QED BY <1>2, <2>1, <2>2 DEF Next, Common, vars
<1>3. IInv /\ PoolInv /\ [Next]_vars => PoolInv'
  BY <1>2
<1> QED BY <1>1, <1>3, IpcInvariance, PTL DEF Spec

\* rt_mp_alloc and rt_mp_free: every block is in the free list, once, or lent,
\* and block_free_count is the length of that list, for any number of blocks.
THEOREM PoolBlocks == Spec => []BlocksInOnePlace
<1>1. PoolInv => BlocksInOnePlace
  BY PoolHolds
<1> QED BY <1>1, PoolInvariance, PTL

LEMMA LinkedReverse ==
  ASSUME NEW S, NEW q, NEW r, NEW h, NEW b, NEW nxt,
         Linked(q, h, nxt, S), Linked(r, b, nxt, S), ToSet(q) \cap ToSet(r) = {}, q # <<>>,
         NEW g, g[q[1]] = b, \A k \in 2 .. Len(q) : g[q[k]] = q[k - 1],
         \A x \in ToSet(r) : g[x] = nxt[x]
  PROVE  \E f : /\ Linked(f, q[Len(q)], g, S)
                /\ ToSet(f) = ToSet(q) \cup ToSet(r)
<1> DEFINE n == Len(q)
           m == Len(r)
           f == [k \in 1 .. n + m |-> IF k <= n THEN q[(n + 1) - k] ELSE r[k - n]]
<1>1. /\ q \in Seq(S) /\ NoDup(q) /\ DOMAIN q = 1 .. n
      /\ r \in Seq(S) /\ NoDup(r) /\ DOMAIN r = 1 .. m
  BY DEF Linked
<1>2. n \in Nat \ {0} /\ m \in Nat
  BY <1>1
<1>3. /\ \A k \in 1 .. n : q[k] \in ToSet(q) /\ q[k] \in S
      /\ \A k \in 1 .. m : r[k] \in ToSet(r) /\ r[k] \in S
      /\ \A i \in 1 .. n, j \in 1 .. m : q[i] # r[j]
  <2>1. \A k \in 1 .. n : q[k] \in ToSet(q) /\ q[k] \in S
    BY <1>1 DEF ToSet
  <2>2. \A k \in 1 .. m : r[k] \in ToSet(r) /\ r[k] \in S
    BY <1>1 DEF ToSet
  <2> QED BY <2>1, <2>2
<1>4. /\ \A i, j \in 1 .. n : q[i] = q[j] => i = j
      /\ \A i, j \in 1 .. m : r[i] = r[j] => i = j
  BY <1>1 DEF NoDup
<1>5. /\ b = IF m = 0 THEN 0 ELSE r[1]
      /\ \A k \in 1 .. m : nxt[r[k]] = IF k = m THEN 0 ELSE r[k + 1]
  <2>1. r = <<>> <=> m = 0
    BY <1>1
  <2> QED BY <2>1 DEF Linked
<1>6. ToSet(q) = {q[k] : k \in 1 .. n} /\ ToSet(r) = {r[k] : k \in 1 .. m}
  BY <1>1 DEF ToSet
<1>7. ASSUME NEW k \in 1 .. n + m
      PROVE  \/ k <= n /\ (n + 1) - k \in 1 .. n /\ f[k] = q[(n + 1) - k]
             \/ k > n /\ k - n \in 1 .. m /\ f[k] = r[k - n]
  <2> HIDE DEF n, m
  <2>1. f[k] = IF k <= n THEN q[(n + 1) - k] ELSE r[k - n]
    OBVIOUS
  <2> HIDE DEF f
  <2>2. CASE k <= n
    BY <1>2, <2>1, <2>2
  <2>3. CASE ~(k <= n)
    BY <1>2, <2>1, <2>3
  <2> QED BY <2>2, <2>3
<1>8. f \in Seq(S) /\ Len(f) = n + m /\ DOMAIN f = 1 .. n + m
  <2>1. \A k \in 1 .. n + m : f[k] \in S
    BY <1>3, <1>7
  <2>2. f = [k \in 1 .. n + m |-> f[k]]
    OBVIOUS
  <2>3. n + m \in Nat
    BY <1>2
  <2> HIDE DEF f, n, m
  <2>4. f \in [1 .. n + m -> S]
    BY <2>1, <2>2
  <2> QED BY <2>3, <2>4
<1> HIDE DEF f, n, m
<1>9. ToSet(f) = ToSet(q) \cup ToSet(r)
  <2>1. \A x \in ToSet(f) : x \in ToSet(q) \cup ToSet(r)
    <3>1. \A k \in 1 .. n + m : f[k] \in ToSet(q) \cup ToSet(r)
      BY <1>3, <1>7
    <3> QED BY <1>8, <3>1 DEF ToSet
  <2>2. ASSUME NEW k \in 1 .. n PROVE q[k] \in ToSet(f)
    <3> DEFINE j == (n + 1) - k
    <3>1. j \in 1 .. n + m /\ j <= n /\ (n + 1) - j = k
      BY <1>2
    <3> HIDE DEF j
    <3>2. f[j] = q[k]
      BY <1>2, <1>7, <3>1
    <3> QED BY <1>8, <3>1, <3>2 DEF ToSet
  <2>3. ASSUME NEW k \in 1 .. m PROVE r[k] \in ToSet(f)
    <3> DEFINE j == n + k
    <3>1. j \in 1 .. n + m /\ j > n /\ ~(j <= n) /\ j - n = k
      BY <1>2
    <3> HIDE DEF j
    <3>2. f[j] = r[k]
      BY <1>2, <1>7, <3>1
    <3> QED BY <1>8, <3>1, <3>2 DEF ToSet
  <2> QED BY <1>6, <2>1, <2>2, <2>3
<1>10. NoDup(f)
  <2> SUFFICES ASSUME NEW i \in 1 .. n + m, NEW j \in 1 .. n + m, f[i] = f[j] PROVE i = j
    BY <1>8 DEF NoDup
  <2>1. CASE i <= n /\ j <= n
    <3>1. (n + 1) - i = (n + 1) - j
      BY <1>2, <1>4, <1>7, <2>1
    <3> QED BY <1>2, <3>1
  <2>2. CASE i > n /\ j > n
    <3>1. i - n = j - n
      BY <1>2, <1>4, <1>7, <2>2
    <3> QED BY <1>2, <3>1
  <2>3. CASE (i <= n /\ j > n) \/ (i > n /\ j <= n)
    BY <1>2, <1>3, <1>7, <2>3
  <2> QED BY <1>2, <2>1, <2>2, <2>3
<1>11. 1 \in 1 .. n + m /\ f # <<>> /\ f[1] = q[n]
  <2>1. 1 \in 1 .. n + m /\ 1 <= n /\ (n + 1) - 1 = n
    BY <1>2
  <2>2. f[1] = q[(n + 1) - 1]
    <3>1. ~(1 > n)
      BY <1>2
    <3> QED BY <1>7, <2>1, <3>1
  <2> QED BY <1>2, <1>8, <2>1, <2>2
<1>12. ASSUME NEW k \in 1 .. n + m
       PROVE  g[f[k]] = IF k = n + m THEN 0 ELSE f[k + 1]
  <2>1. CASE k < n
    <3>1. /\ (n + 1) - k \in 2 .. n /\ k <= n /\ k # n + m
          /\ k + 1 \in 1 .. n + m /\ k + 1 <= n /\ (n + 1) - (k + 1) = ((n + 1) - k) - 1
      BY <1>2, <2>1
    <3>2. f[k] = q[(n + 1) - k] /\ f[k + 1] = q[((n + 1) - k) - 1]
      BY <1>2, <1>7, <3>1
    <3>3. g[q[(n + 1) - k]] = q[((n + 1) - k) - 1]
      BY <3>1 DEF n
    <3> QED BY <3>1, <3>2, <3>3
  <2>2. CASE k = n
    <3>1. (n + 1) - n = 1 /\ n <= n /\ n \in 1 .. n + m
      BY <1>2
    <3>2. f[n] = q[1]
      BY <1>2, <1>7, <3>1
    <3>3. g[f[n]] = b
      BY <3>2
    <3>4. m # 0 => f[n + 1] = r[1]
      <4>1. SUFFICES ASSUME m # 0 PROVE f[n + 1] = r[1]
        OBVIOUS
      <4>2. n + 1 \in 1 .. n + m /\ n + 1 > n /\ ~(n + 1 <= n) /\ (n + 1) - n = 1
        BY <1>2, <4>1
      <4> QED BY <1>7, <4>2
    <3>5. m = 0 <=> n = n + m
      BY <1>2
    <3> QED BY <1>5, <2>2, <3>3, <3>4, <3>5
  <2>3. CASE k > n
    <3>1. k - n \in 1 .. m /\ ~(k <= n)
      BY <1>2, <2>3
    <3>2. f[k] = r[k - n]
      BY <1>7, <3>1
    <3>3. g[f[k]] = IF k - n = m THEN 0 ELSE r[(k - n) + 1]
      BY <1>3, <1>5, <3>1, <3>2
    <3>4. k # n + m => f[k + 1] = r[(k - n) + 1]
      <4>1. SUFFICES ASSUME k # n + m PROVE f[k + 1] = r[(k - n) + 1]
        OBVIOUS
      <4>2. k + 1 \in 1 .. n + m /\ ~(k + 1 <= n) /\ (k + 1) - n = (k - n) + 1
        BY <1>2, <2>3, <4>1
      <4> QED BY <1>7, <4>2
    <3>5. k - n = m <=> k = n + m
      BY <1>2
    <3> QED BY <3>3, <3>4, <3>5
  <2> QED BY <1>2, <2>1, <2>2, <2>3
<1>13. Linked(f, q[n], g, S)
  BY <1>8, <1>10, <1>11, <1>12 DEF Linked
<1> QED BY <1>9, <1>13 DEF n

-----------------------------------------------------------------------------
(* The buffers of a message queue.                                         *)

\* The n buffers linked by nxt from b on, as Chain finds them.
Walk(b, n, nxt) ==
  LET nth[k \in 1 .. n] ==
        IF k = 1 THEN b ELSE IF nth[k - 1] = Null THEN Null ELSE nxt[nth[k - 1]]
  IN  nth

LEMMA WalkIs ==
  ASSUME NEW f, NEW b, NEW nxt, Linked(f, b, nxt, Buffer)
  PROVE  Walk(b, Len(f), nxt) = f
<1> DEFINE n == Len(f)
           g == Walk(b, n, nxt)
           F(h) == [k \in 1 .. n |->
                      IF k = 1 THEN b ELSE IF h[k - 1] = Null THEN Null ELSE nxt[h[k - 1]]]
<1>1. g = CHOOSE h : h = F(h)
  BY DEF Walk
<1>2. f \in Seq(Buffer) /\ n \in Nat /\ \A k \in 1 .. n : f[k] \in Buffer
  BY DEF Linked
<1>3. Null \notin Buffer
  BY MessageQueueAssumption DEF Buffer, Null
<1>4. f = F(f)
  <2>1. ASSUME NEW k \in 1 .. n
        PROVE  f[k] = IF k = 1 THEN b ELSE IF f[k - 1] = Null THEN Null ELSE nxt[f[k - 1]]
    <3>1. CASE k = 1
      <4>1. f # <<>>
        BY <1>2
      <4> QED BY <3>1, <4>1 DEF Linked
    <3>2. CASE k # 1
      <4>1. k - 1 \in 1 .. n /\ k - 1 # n /\ (k - 1) + 1 = k
        BY <1>2, <3>2
      <4>2. nxt[f[k - 1]] = f[k]
        BY <4>1 DEF Linked
      <4> QED BY <1>2, <1>3, <3>2, <4>1, <4>2
    <3> QED BY <3>1, <3>2
  <2>2. f = [k \in 1 .. n |-> f[k]]
    BY <1>2
  <2> QED BY <2>1, <2>2
<1>5. g = F(g)
  <2> HIDE DEF F, g
  <2> QED BY <1>1, <1>4
<1> HIDE DEF g
<1>6. g = [k \in 1 .. n |-> g[k]]
  BY <1>5
<1>7. n > 0 => g[1] = b
  <2>1. n > 0 => 1 \in 1 .. n
    BY <1>2
  <2> QED BY <1>5, <2>1
<1>8. \A k \in 2 .. n : g[k - 1] \in Buffer => g[k] = nxt[g[k - 1]]
  <2> SUFFICES ASSUME NEW k \in 2 .. n, g[k - 1] \in Buffer PROVE g[k] = nxt[g[k - 1]]
    OBVIOUS
  <2>1. k \in 1 .. n /\ k # 1
    BY <1>2
  <2> QED BY <1>3, <1>5, <2>1
<1> HIDE DEF F
<1>9. \A k \in 1 .. n : g[k] = f[k]
  BY <1>7, <1>8, Follows
<1>10. f = [k \in 1 .. n |-> f[k]]
  BY <1>2
<1> QED BY <1>6, <1>9, <1>10 DEF g

LEMMA ChainIs ==
  ASSUME NEW f, NEW b, Linked(f, b, next, Buffer)
  PROVE  Chain(b, Len(f)) = f
BY WalkIs DEF Chain, Walk

\* The queue before a step and after it.
LEMMA QueueIs ==
  ASSUME NEW f
  PROVE  /\ Linked(f, head, next, Buffer) /\ Len(f) = entry => Queue = f
         /\ Linked(f, head', next', Buffer) /\ Len(f) = entry' => Queue' = f
<1>1. Queue = Walk(head, entry, next) /\ Queue' = Walk(head', entry', next')
  BY DEF Queue, Chain, Walk
<1> QED BY <1>1, WalkIs

\* q are the buffers of the queue, r the unused ones; the others are in the
\* hands of threads, each in one, which fill or drain it.
Shelf(q, r) ==
  /\ Linked(q, head, next, Buffer) /\ Len(q) = entry
  /\ tail = IF q = <<>> THEN Null ELSE q[Len(q)]
  /\ Linked(r, free, next, Buffer)
  /\ ToSet(q) \cap ToSet(r) = {}
  /\ \A b \in Buffer : b \in ToSet(q) \/ b \in ToSet(r) \/ \E t \in Thread : hand[t] = b
  /\ \A t \in Thread : hand[t] \notin ToSet(q) /\ hand[t] \notin ToSet(r)

Busy == {"fill", "drain"}

HandsKnown ==
  /\ hand \in [Thread -> Buffer \cup {Null}]
  /\ \A t, u \in Thread : hand[t] # Null /\ hand[t] = hand[u] => t = u
  /\ \A t \in Thread : hand[t] # Null <=> pc[t] \in Busy

CellsOK ==
  /\ next \in [Buffer -> Buffer \cup {Null}]
  /\ data \in [Buffer -> Msg \cup {NoMsg}]
  /\ word \in [Thread -> Msg \cup {NoMsg}]

StoreInv == (\E q, r : Shelf(q, r)) /\ HandsKnown /\ CellsOK

LEMMA BufferFacts ==
  /\ MaxMsgs \in Nat \ {0} /\ 0 \notin Buffer /\ Null = 0
  /\ IsFiniteSet(Buffer) /\ Cardinality(Buffer) = MaxMsgs
<1>1. MaxMsgs \in Nat \ {0}
  BY MessageQueueAssumption
<1>2. IsFiniteSet(1 .. MaxMsgs) /\ Cardinality(1 .. MaxMsgs) = MaxMsgs
  BY <1>1, FS_Interval
<1> QED BY <1>1, <1>2 DEF Buffer, Null

\* The buffers that are not unused are in the queue or in hands, and counted.
LEMMA ShelfCount ==
  ASSUME HandsKnown, NEW q, NEW r, Shelf(q, r)
  PROVE  /\ {hand[t] : t \in Holders} = Buffer \ (ToSet(q) \cup ToSet(r))
         /\ Len(q) + Len(r) + Cardinality(Holders) = MaxMsgs
         /\ Cardinality(Holders) \in Nat
<1> DEFINE H == {hand[t] : t \in Holders}
           Q == ToSet(q)
           R == ToSet(r)
<1>1. /\ q \in Seq(Buffer) /\ NoDup(q) /\ r \in Seq(Buffer) /\ NoDup(r)
      /\ Q \subseteq Buffer /\ R \subseteq Buffer /\ Q \cap R = {}
  <2>1. Linked(q, head, next, Buffer) /\ Linked(r, free, next, Buffer) /\ Q \cap R = {}
    BY DEF Shelf
  <2>2. Q \subseteq Buffer /\ R \subseteq Buffer
    BY <2>1, LinkedStart, BufferFacts
  <2> QED BY <2>1, <2>2 DEF Linked
<1>2. /\ IsFiniteSet(Q) /\ Cardinality(Q) = Len(q)
      /\ IsFiniteSet(R) /\ Cardinality(R) = Len(r)
  BY <1>1, Counted
<1>3. Holders \in SUBSET Thread /\ IsFiniteSet(Holders) /\ Cardinality(Holders) \in Nat
  BY IpcAssumption, FS_Subset, FS_CardinalityType DEF Holders
<1>4. H = Buffer \ (Q \cup R)
  <2>1. \A t \in Holders : hand[t] \in Buffer \ (Q \cup R)
    BY DEF Holders, HandsKnown, Shelf
  <2>2. ASSUME NEW b \in Buffer, b \notin Q, b \notin R PROVE b \in H
    <3>1. PICK t \in Thread : hand[t] = b
      BY <2>2 DEF Shelf
    <3>2. t \in Holders
      BY <3>1, BufferFacts DEF Holders
    <3> QED BY <3>1, <3>2
  <2> QED BY <2>1, <2>2
<1>5. IsFiniteSet(H) /\ Cardinality(H) = Cardinality(Holders)
  <2> DEFINE f == [t \in Holders |-> hand[t]]
  <2>1. f \in Bijection(Holders, H)
    <3>1. f \in [Holders -> H] /\ \A x \in H : \E t \in Holders : f[t] = x
      OBVIOUS
    <3>2. \A t, u \in Holders : f[t] = f[u] => t = u
      BY DEF Holders, HandsKnown
    <3> HIDE DEF f, H
    <3>3. f \in Injection(Holders, H)
      BY <3>1, <3>2 DEF Injection, IsInjective
    <3>4. f \in Surjection(Holders, H)
      BY <3>1 DEF Surjection
    <3> QED BY <3>3, <3>4 DEF Bijection
  <2>2. ExistsBijection(Holders, H)
    BY <2>1 DEF ExistsBijection
  <2> HIDE DEF H
  <2> QED BY <1>3, <2>2, FS_Bijection
<1> HIDE DEF H, Q, R
<1>6. IsFiniteSet(Q \cup R) /\ Cardinality(Q \cup R) = Len(q) + Len(r)
  <2>1. /\ IsFiniteSet(Q \cup R)
        /\ Cardinality(Q \cup R) = Cardinality(Q) + Cardinality(R) - Cardinality(Q \cap R)
    BY <1>2, FS_Union
  <2>2. Cardinality(Q \cap R) = 0
    BY <1>1, FS_EmptySet
  <2>3. Len(q) \in Nat /\ Len(r) \in Nat
    BY <1>1
  <2> QED BY <1>2, <2>1, <2>2, <2>3
<1>7. Cardinality(H) = Cardinality(Buffer) - Cardinality(Buffer \cap (Q \cup R))
  BY <1>4, BufferFacts, FS_Difference
<1>8. Buffer \cap (Q \cup R) = Q \cup R
  BY <1>1
<1>9. Len(q) \in Nat /\ Len(r) \in Nat
  BY <1>1
<1>10. Len(q) + Len(r) + Cardinality(Holders) = MaxMsgs
  <2>1. Cardinality(Holders) = MaxMsgs - (Len(q) + Len(r))
    BY <1>5, <1>6, <1>7, <1>8, BufferFacts
  <2>2. MaxMsgs \in Nat
    BY BufferFacts
  <2> QED BY <1>3, <1>9, <2>1, <2>2
<1> QED BY <1>3, <1>4, <1>10 DEF H, Q, R

\* A linked list of buffers is a list as the code sees it.
LEMMA LinkedIsList ==
  ASSUME NEW f, NEW b, Linked(f, b, next, Buffer)
  PROVE  IsList(b, Len(f)) /\ Chain(b, Len(f)) = f
<1>1. Chain(b, Len(f)) = f
  BY ChainIs
<1>2. f \in Seq(Buffer) /\ NoDup(f) /\ Len(f) \in Nat /\ DOMAIN f = 1 .. Len(f)
  BY DEF Linked
<1>3. IsInjective(f)
  BY <1>2 DEF NoDup, IsInjective
<1>4. CASE Len(f) = 0
  <2>1. b = 0
    BY <1>2, <1>4 DEF Linked
  <2> QED BY <1>1, <1>4, <2>1, BufferFacts DEF IsList
<1>5. CASE Len(f) # 0
  <2>1. Len(f) \in 1 .. Len(f)
    BY <1>2, <1>5
  <2>2. f[Len(f)] \in Buffer /\ next[f[Len(f)]] = 0
    <3>1. f[Len(f)] \in Buffer
      BY <1>2, <2>1
    <3>2. next[f[Len(f)]] = 0
      BY <2>1 DEF Linked
    <3> QED BY <3>1, <3>2
  <2> QED BY <1>1, <1>3, <1>5, <2>2, BufferFacts DEF IsList
<1> QED BY <1>4, <1>5

LEMMA StoreHolds ==
  ASSUME StoreInv
  PROVE  BuffersInOnePlace /\ MqTypeOK
<1>1. PICK q, r : Shelf(q, r)
  BY DEF StoreInv
<1>2. /\ Linked(q, head, next, Buffer) /\ Len(q) = entry
      /\ Linked(r, free, next, Buffer)
      /\ tail = IF q = <<>> THEN Null ELSE q[Len(q)]
  BY <1>1 DEF Shelf
<1>3. /\ {hand[t] : t \in Holders} = Buffer \ (ToSet(q) \cup ToSet(r))
      /\ Len(q) + Len(r) + Cardinality(Holders) = MaxMsgs
      /\ Cardinality(Holders) \in Nat
  BY <1>1, ShelfCount DEF StoreInv
<1>4. /\ head = 0 <=> q = <<>>
      /\ q = <<>> <=> Len(q) = 0
      /\ q # <<>> => head \in Buffer
      /\ ToSet(q) \subseteq Buffer /\ Len(q) \in Nat
  BY <1>2, BufferFacts, LinkedStart
<1>5. /\ free = 0 <=> r = <<>>
      /\ r # <<>> => free \in Buffer
      /\ ToSet(r) \subseteq Buffer /\ Len(r) \in Nat
  BY <1>2, BufferFacts, LinkedStart
<1>6. Len(r) = MaxMsgs - entry - Cardinality(Holders) /\ entry \in 0 .. MaxMsgs
  <2>1. MaxMsgs \in Nat
    BY BufferFacts
  <2> DEFINE a == Len(q)
             d == Len(r)
             c == Cardinality(Holders)
  <2>2. /\ a = entry /\ a + d + c = MaxMsgs
        /\ a \in Nat /\ d \in Nat /\ c \in Nat
    BY <1>2, <1>3, <1>4, <1>5
  <2> HIDE DEF a, d, c
  <2>3. d = MaxMsgs - entry - c /\ entry \in 0 .. MaxMsgs
    BY <2>1, <2>2
  <2> QED BY <2>3 DEF d, c
<1>7. /\ IsList(head, Len(q)) /\ Chain(head, Len(q)) = q
      /\ IsList(free, Len(r)) /\ Chain(free, Len(r)) = r
  BY <1>2, LinkedIsList
<1>8. Queue = q
  BY <1>2, <1>7 DEF Queue
<1>9. BuffersInOnePlace
  <2>1. tail = IF entry = 0 THEN Null ELSE Queue[entry]
    BY <1>2, <1>4, <1>8
  <2>2. ToSet(q) \cup ToSet(r) \cup {hand[t] : t \in Holders} = Buffer
    BY <1>3, <1>4, <1>5
  <2> DEFINE n == MaxMsgs - entry - Cardinality(Holders)
  <2>3. n = Len(r)
    BY <1>6
  <2> HIDE DEF n
  <2>4. n >= 0 /\ IsList(head, entry) /\ IsList(free, n)
        /\ ToSet(Queue) \cup ToSet(Chain(free, n)) \cup {hand[t] : t \in Holders} = Buffer
    BY <1>2, <1>5, <1>7, <1>8, <2>2, <2>3
  <2> QED BY <2>1, <2>4 DEF BuffersInOnePlace, n
<1>10. tail \in Buffer \cup {Null}
  <2>1. q # <<>> => Len(q) \in 1 .. Len(q)
    BY <1>4
  <2> QED BY <1>2, <2>1 DEF Linked
<1>11. MqTypeOK
  BY <1>4, <1>5, <1>6, <1>10, BufferFacts DEF MqTypeOK, StoreInv, HandsKnown, CellsOK
<1> QED BY <1>9, <1>11

LEMMA StoreInit ==
  ASSUME MqInit, IpcInit
  PROVE  StoreInv
<1> DEFINE n == MaxMsgs
           q == <<>>
           r == [k \in 1 .. n |-> (n + 1) - k]
<1>1. n \in Nat \ {0}
  BY BufferFacts
<1>2. \A k \in 1 .. n : r[k] = (n + 1) - k
  OBVIOUS
<1>3. r \in Seq(Buffer) /\ Len(r) = n /\ r # <<>> /\ DOMAIN r = 1 .. n
  <2>1. \A k \in 1 .. n : (n + 1) - k \in 1 .. n
    BY <1>1
  <2> QED BY <1>1, <2>1 DEF Buffer
<1> HIDE DEF r
<1>4. NoDup(r)
  BY <1>1, <1>2, <1>3 DEF NoDup
<1>5. ToSet(r) = Buffer
  <2>1. ASSUME NEW b \in 1 .. n PROVE \E k \in 1 .. n : r[k] = b
    <3>1. (n + 1) - b \in 1 .. n /\ (n + 1) - ((n + 1) - b) = b
      BY <1>1
    <3> QED BY <1>2, <3>1
  <2>2. \A k \in 1 .. n : r[k] \in 1 .. n
    BY <1>1, <1>2
  <2> QED BY <1>3, <2>1, <2>2 DEF ToSet, Buffer
<1>6. next = [b \in 1 .. n |-> b - 1]
  BY DEF MqInit, Buffer
<1>7. ASSUME NEW k \in 1 .. n PROVE next[r[k]] = IF k = n THEN 0 ELSE r[k + 1]
  <2>1. (n + 1) - k \in 1 .. n /\ k # n => k + 1 \in 1 .. n
    BY <1>1
  <2>2. next[r[k]] = ((n + 1) - k) - 1
    BY <1>1, <1>2, <1>6
  <2>3. CASE k = n
    BY <1>1, <2>2, <2>3
  <2>4. CASE k # n
    <3>1. k + 1 \in 1 .. n /\ (n + 1) - (k + 1) = ((n + 1) - k) - 1
      BY <1>1, <2>4
    <3> QED BY <1>2, <2>2, <2>4, <3>1
  <2> QED BY <2>3, <2>4
<1>8. Linked(r, free, next, Buffer)
  <2>1. 1 \in 1 .. n /\ (n + 1) - 1 = n
    BY <1>1
  <2>2. free = r[1]
    BY <1>2, <2>1 DEF MqInit
  <2> QED BY <1>3, <1>4, <1>7, <2>2 DEF Linked
<1>9. Linked(q, head, next, Buffer) /\ Len(q) = 0 /\ ToSet(q) = {}
  BY DEF MqInit, Null, Linked, NoDup, ToSet
<1>10. Shelf(q, r)
  BY <1>5, <1>8, <1>9, BufferFacts DEF Shelf, MqInit
<1>11. HandsKnown
  BY DEF HandsKnown, MqInit, IpcInit, Busy
<1>12. CellsOK
  <2>1. \A b \in 1 .. n : b - 1 \in 1 .. n \cup {0}
    BY <1>1
  <2> QED BY <2>1 DEF CellsOK, MqInit, Buffer, Null
<1> QED BY <1>10, <1>11, <1>12 DEF StoreInv

\* A thread puts a buffer that was in nobody's hand into its own, or puts it down.
LEMMA HandTakes ==
  ASSUME IpcInv, HandsKnown, NEW t \in Thread, pc[t] \notin Busy,
         NEW b \in Buffer, \A u \in Thread : hand[u] # b,
         hand' = [hand EXCEPT ![t] = b], NEW s \in Busy, pc' = [pc EXCEPT ![t] = s]
  PROVE  /\ HandsKnown' /\ hand'[t] = b
         /\ \A u \in Thread \ {t} : hand'[u] = hand[u]
         /\ hand[t] = Null
<1>1. DOMAIN pc = Thread /\ hand \in [Thread -> Buffer \cup {Null}]
  BY DEF IpcInv, FramesOK, HandsKnown
<1>2. /\ hand'[t] = b /\ pc'[t] \in Busy
      /\ \A u \in Thread \ {t} : hand'[u] = hand[u] /\ pc'[u] = pc[u]
  BY <1>1
<1>3. b # Null
  BY BufferFacts
<1>4. hand' \in [Thread -> Buffer \cup {Null}]
  BY <1>1
<1>5. \A u \in Thread : hand'[u] # Null <=> pc'[u] \in Busy
  <2>1. ASSUME NEW u \in Thread \ {t} PROVE hand'[u] # Null <=> pc'[u] \in Busy
    BY <1>2 DEF HandsKnown
  <2> QED BY <1>2, <1>3, <2>1
<1>6. \A u, v \in Thread : hand'[u] # Null /\ hand'[u] = hand'[v] => u = v
  <2> SUFFICES ASSUME NEW u \in Thread, NEW v \in Thread, hand'[u] # Null, hand'[u] = hand'[v]
               PROVE  u = v
    OBVIOUS
  <2>1. CASE u = t \/ v = t
    BY <1>2, <2>1
  <2>2. CASE u # t /\ v # t
    BY <1>2, <2>2 DEF HandsKnown
  <2> QED BY <2>1, <2>2
<1>7. hand[t] = Null
  BY DEF HandsKnown
<1> QED BY <1>2, <1>4, <1>5, <1>6, <1>7 DEF HandsKnown

LEMMA HandPuts ==
  ASSUME IpcInv, HandsKnown, NEW t \in Thread, pc[t] \in Busy,
         hand' = [hand EXCEPT ![t] = Null], NEW s, s \notin Busy, pc' = [pc EXCEPT ![t] = s]
  PROVE  /\ HandsKnown' /\ hand'[t] = Null /\ hand[t] \in Buffer
         /\ \A u \in Thread \ {t} : hand'[u] = hand[u] /\ hand[u] # hand[t]
<1>1. DOMAIN pc = Thread /\ hand \in [Thread -> Buffer \cup {Null}]
  BY DEF IpcInv, FramesOK, HandsKnown
<1>2. /\ hand'[t] = Null /\ pc'[t] \notin Busy
      /\ \A u \in Thread \ {t} : hand'[u] = hand[u] /\ pc'[u] = pc[u]
  BY <1>1
<1>3. hand[t] # Null /\ hand[t] \in Buffer
  BY <1>1 DEF HandsKnown
<1>4. hand' \in [Thread -> Buffer \cup {Null}]
  BY <1>1
<1>5. \A u \in Thread : hand'[u] # Null <=> pc'[u] \in Busy
  <2>1. ASSUME NEW u \in Thread \ {t} PROVE hand'[u] # Null <=> pc'[u] \in Busy
    BY <1>2 DEF HandsKnown
  <2> QED BY <1>2, <2>1
<1>6. \A u, v \in Thread : hand'[u] # Null /\ hand'[u] = hand'[v] => u = v
  <2> SUFFICES ASSUME NEW u \in Thread, NEW v \in Thread, hand'[u] # Null, hand'[u] = hand'[v]
               PROVE  u = v
    OBVIOUS
  <2> QED BY <1>2 DEF HandsKnown
<1>7. \A u \in Thread \ {t} : hand[u] # hand[t]
  BY <1>3 DEF HandsKnown
<1> QED BY <1>2, <1>3, <1>4, <1>5, <1>6, <1>7 DEF HandsKnown

LEMMA StoreKept ==
  ASSUME StoreInv, UNCHANGED <<head, tail, free, entry, next, data, hand>>,
         word' \in [Thread -> Msg \cup {NoMsg}],
         \A u \in Thread : pc'[u] \in Busy <=> pc[u] \in Busy
  PROVE  StoreInv'
<1>1. PICK q, r : Shelf(q, r)
  BY DEF StoreInv
<1>2. Shelf(q, r)'
  BY <1>1 DEF Shelf
<1>3. HandsKnown'
  BY DEF StoreInv, HandsKnown
<1>4. CellsOK'
  BY DEF StoreInv, CellsOK
<1> QED BY <1>2, <1>3, <1>4 DEF StoreInv

\* The two ends of the shelf.
LEMMA ShelfFacts ==
  ASSUME NEW q, NEW r, Shelf(q, r)
  PROVE  /\ q \in Seq(Buffer) /\ Len(q) \in Nat /\ NoDup(q)
         /\ ToSet(q) \subseteq Buffer /\ ToSet(r) \subseteq Buffer
         /\ ToSet(q) \cap ToSet(r) = {}
         /\ head = Null <=> q = <<>>
         /\ q = <<>> <=> Len(q) = 0
         /\ q # <<>> => head \in ToSet(q) /\ head = q[1]
         /\ free = Null <=> r = <<>>
         /\ r # <<>> => free \in ToSet(r)
         /\ q # <<>> => tail \in ToSet(q) /\ tail = q[Len(q)]
         /\ tail = Null <=> q = <<>>
<1>1. /\ Linked(q, head, next, Buffer) /\ Linked(r, free, next, Buffer)
      /\ ToSet(q) \cap ToSet(r) = {}
      /\ tail = IF q = <<>> THEN Null ELSE q[Len(q)]
  BY DEF Shelf
<1>2. /\ head = 0 <=> q = <<>>
      /\ q = <<>> <=> Len(q) = 0
      /\ q # <<>> => head \in ToSet(q) /\ head = q[1]
      /\ ToSet(q) \subseteq Buffer /\ Len(q) \in Nat
  BY <1>1, LinkedStart, BufferFacts
<1>3. /\ free = 0 <=> r = <<>>
      /\ r # <<>> => free \in ToSet(r)
      /\ ToSet(r) \subseteq Buffer
  BY <1>1, LinkedStart, BufferFacts
<1>4. q \in Seq(Buffer) /\ NoDup(q) /\ DOMAIN q = 1 .. Len(q)
  BY <1>1 DEF Linked
<1>5. q # <<>> => q[Len(q)] \in ToSet(q)
  <2>1. q # <<>> => Len(q) \in 1 .. Len(q)
    BY <1>2
  <2> QED BY <1>4, <2>1 DEF ToSet
<1>6. tail = Null <=> q = <<>>
  BY <1>1, <1>2, <1>5, BufferFacts
<1> QED BY <1>1, <1>2, <1>3, <1>4, <1>5, <1>6, BufferFacts

\* rt_mq_send takes a buffer from the free list.
LEMMA StoreReserves ==
  ASSUME IpcInv, StoreInv, NEW t \in Thread, MqTakeFree(t)
  PROVE  StoreInv'
<1>1. PICK q, r : Shelf(q, r)
  BY DEF StoreInv
<1>2. HandsKnown /\ CellsOK
  BY DEF StoreInv
<1>3. /\ free # Null /\ pc[t] = "idle"
      /\ hand' = [hand EXCEPT ![t] = free]
      /\ free' = next[free]
      /\ pc' = [pc EXCEPT ![t] = "fill"]
      /\ UNCHANGED <<head, tail, entry, next, data>>
  BY DEF MqTakeFree, Reserve, Enters
<1>4. PICK m \in Msg : word' = [word EXCEPT ![t] = m]
  BY DEF MqTakeFree, Reserve
<1>5. /\ r # <<>> /\ free \in ToSet(r) /\ free \in Buffer /\ free \notin ToSet(q)
      /\ ToSet(r) \subseteq Buffer
  BY <1>1, <1>3, ShelfFacts
<1>6. \A u \in Thread : hand[u] # free
  BY <1>1, <1>5 DEF Shelf
<1>7. /\ HandsKnown' /\ hand'[t] = free
      /\ \A u \in Thread \ {t} : hand'[u] = hand[u]
      /\ hand[t] = Null
  <2>1. "fill" \in Busy /\ pc[t] \notin Busy
    BY <1>3 DEF Busy
  <2> QED BY <1>2, <1>3, <1>5, <1>6, <2>1, HandTakes
<1> DEFINE r2 == Tail(r)
<1>8. /\ Linked(r2, next[free], next, Buffer)
      /\ ToSet(r2) = ToSet(r) \ {free}
  <2>1. Linked(r, free, next, Buffer) /\ \A x \in ToSet(r) \ {free} : next[x] = next[x]
    BY <1>1 DEF Shelf
  <2> QED BY <1>5, <2>1, LinkedTail, BufferFacts
<1> HIDE DEF r2
<1>9. Linked(r2, free', next', Buffer) /\ Linked(q, head', next', Buffer)
  BY <1>1, <1>3, <1>8 DEF Shelf
<1>10. \A b \in Buffer : b \in ToSet(q) \/ b \in ToSet(r2) \/ \E u \in Thread : hand'[u] = b
  <2> SUFFICES ASSUME NEW b \in Buffer, b \notin ToSet(q), b \notin ToSet(r2)
               PROVE  \E u \in Thread : hand'[u] = b
    OBVIOUS
  <2>1. CASE b = free
    BY <1>7, <2>1
  <2>2. CASE b # free
    <3>1. PICK u \in Thread : hand[u] = b
      BY <1>1, <1>8, <2>2 DEF Shelf
    <3>2. u # t
      BY <1>7, <3>1, BufferFacts
    <3> QED BY <1>7, <3>1, <3>2
  <2> QED BY <2>1, <2>2
<1>11. \A u \in Thread : hand'[u] \notin ToSet(q) /\ hand'[u] \notin ToSet(r2)
  <2>1. ASSUME NEW u \in Thread, u # t
        PROVE  hand'[u] \notin ToSet(q) /\ hand'[u] \notin ToSet(r2)
    <3>1. hand'[u] = hand[u]
      BY <1>7, <2>1
    <3> QED BY <1>1, <1>8, <3>1 DEF Shelf
  <2>2. hand'[t] \notin ToSet(q) /\ hand'[t] \notin ToSet(r2)
    BY <1>5, <1>7, <1>8
  <2> QED BY <2>1, <2>2
<1>12. Shelf(q, r2)'
  BY <1>1, <1>3, <1>8, <1>9, <1>10, <1>11 DEF Shelf, Buffer, Null
<1>13. CellsOK'
  BY <1>2, <1>3, <1>4 DEF CellsOK
<1> QED BY <1>7, <1>12, <1>13 DEF StoreInv

\* rt_mq_recv takes the first buffer of the queue.
LEMMA StoreTakes ==
  ASSUME IpcInv, StoreInv, NEW t \in Thread, MqTake(t)
  PROVE  StoreInv'
<1>1. PICK q, r : Shelf(q, r)
  BY DEF StoreInv
<1>2. HandsKnown /\ CellsOK
  BY DEF StoreInv
<1>3. /\ entry # 0 /\ pc[t] \in {"idle", "wait"}
      /\ hand' = [hand EXCEPT ![t] = head]
      /\ head' = next[head]
      /\ entry' = entry - 1
      /\ pc' = [pc EXCEPT ![t] = "drain"]
      /\ UNCHANGED <<free, next, data, word>>
      /\ tail' = IF tail = head THEN Null ELSE tail
  BY DEF MqTake, Unlink, Looks, Enters, Woken
<1>4. /\ q \in Seq(Buffer) /\ Len(q) \in Nat /\ NoDup(q) /\ Len(q) = entry
      /\ q # <<>> /\ head \in ToSet(q) /\ head = q[1] /\ tail = q[Len(q)]
      /\ head \in Buffer /\ head \notin ToSet(r)
      /\ tail # Null
  BY <1>1, <1>3, ShelfFacts DEF Shelf
<1>5. \A u \in Thread : hand[u] # head
  BY <1>1, <1>4 DEF Shelf
<1>6. /\ HandsKnown' /\ hand'[t] = head
      /\ \A u \in Thread \ {t} : hand'[u] = hand[u]
      /\ hand[t] = Null
  <2>1. "drain" \in Busy /\ pc[t] \notin Busy
    BY <1>3 DEF Busy
  <2> QED BY <1>2, <1>3, <1>4, <1>5, <2>1, HandTakes
<1> DEFINE q2 == Tail(q)
<1>7. /\ Linked(q2, next[head], next, Buffer)
      /\ ToSet(q2) = ToSet(q) \ {head} /\ Len(q2) = Len(q) - 1
  <2>1. Linked(q, head, next, Buffer) /\ \A x \in ToSet(q) \ {head} : next[x] = next[x]
    BY <1>1 DEF Shelf
  <2> QED BY <1>4, <2>1, LinkedTail, BufferFacts
<1>8. tail' = IF q2 = <<>> THEN Null ELSE q2[Len(q2)]
  <2>1. q2 = <<>> <=> Len(q) = 1
    BY <1>4
  <2>2. CASE Len(q) = 1
    BY <1>3, <1>4, <2>1, <2>2
  <2>3. CASE Len(q) # 1
    <3>1. Len(q) \in 1 .. Len(q) /\ 1 \in 1 .. Len(q) /\ Len(q) - 1 \in 1 .. Len(q) - 1
          /\ (Len(q) - 1) + 1 = Len(q)
      BY <1>3, <1>4, <2>3
    <3>2. tail # head
      BY <1>4, <2>3, <3>1 DEF NoDup
    <3>3. q2[Len(q) - 1] = q[Len(q)]
      BY <1>4, <3>1, HeadTailProperties
    <3> QED BY <1>3, <1>4, <1>7, <2>1, <2>3, <3>2, <3>3
  <2> QED BY <2>2, <2>3
<1> HIDE DEF q2
<1>9. Linked(q2, head', next', Buffer) /\ Linked(r, free', next', Buffer)
  BY <1>1, <1>3, <1>7 DEF Shelf
<1>10. \A b \in Buffer : b \in ToSet(q2) \/ b \in ToSet(r) \/ \E u \in Thread : hand'[u] = b
  <2> SUFFICES ASSUME NEW b \in Buffer, b \notin ToSet(q2), b \notin ToSet(r)
               PROVE  \E u \in Thread : hand'[u] = b
    OBVIOUS
  <2>1. CASE b = head
    BY <1>6, <2>1
  <2>2. CASE b # head
    <3>1. PICK u \in Thread : hand[u] = b
      BY <1>1, <1>7, <2>2 DEF Shelf
    <3>2. u # t
      BY <1>6, <3>1, BufferFacts
    <3> QED BY <1>6, <3>1, <3>2
  <2> QED BY <2>1, <2>2
<1>11. \A u \in Thread : hand'[u] \notin ToSet(q2) /\ hand'[u] \notin ToSet(r)
  <2>1. ASSUME NEW u \in Thread, u # t
        PROVE  hand'[u] \notin ToSet(q2) /\ hand'[u] \notin ToSet(r)
    <3>1. hand'[u] = hand[u]
      BY <1>6, <2>1
    <3> QED BY <1>1, <1>7, <3>1 DEF Shelf
  <2>2. hand'[t] \notin ToSet(q2) /\ hand'[t] \notin ToSet(r)
    BY <1>4, <1>6, <1>7
  <2> QED BY <2>1, <2>2
<1>12. Len(q2) = entry'
  BY <1>3, <1>4, <1>7
<1>13. Shelf(q2, r)'
  BY <1>1, <1>7, <1>8, <1>9, <1>10, <1>11, <1>12 DEF Shelf, Buffer, Null
<1>14. CellsOK'
  BY <1>2, <1>3 DEF CellsOK
<1> QED BY <1>6, <1>13, <1>14 DEF StoreInv

\* rt_mq_recv puts its buffer into the free list.
LEMMA StoreFrees ==
  ASSUME IpcInv, StoreInv, NEW t \in Thread, MqFree(t)
  PROVE  StoreInv'
<1>1. PICK q, r : Shelf(q, r)
  BY DEF StoreInv
<1>2. HandsKnown /\ CellsOK
  BY DEF StoreInv
<1> DEFINE e == hand[t]
<1>3. /\ pc[t] = "drain"
      /\ word' = [word EXCEPT ![t] = data[e]]
      /\ next' = [next EXCEPT ![e] = free]
      /\ free' = e
      /\ hand' = [hand EXCEPT ![t] = Null]
      /\ pc' = [pc EXCEPT ![t] = "return"]
      /\ UNCHANGED <<head, tail, entry, data>>
  BY DEF MqFree, Finish
<1>4. /\ HandsKnown' /\ hand'[t] = Null /\ e \in Buffer
      /\ \A u \in Thread \ {t} : hand'[u] = hand[u] /\ hand[u] # e
  <2>1. "return" \notin Busy /\ pc[t] \in Busy
    BY <1>3 DEF Busy
  <2> QED BY <1>2, <1>3, <2>1, HandPuts
<1> HIDE DEF e
<1>5. e \notin ToSet(q) /\ e \notin ToSet(r)
  BY <1>1 DEF Shelf, e
<1>6. /\ ToSet(q) \subseteq Buffer /\ ToSet(r) \subseteq Buffer /\ ToSet(q) \cap ToSet(r) = {}
      /\ free \in Buffer \cup {Null}
  BY <1>1, ShelfFacts
<1>7. next'[e] = free /\ \A x \in Buffer : x # e => next'[x] = next[x]
  BY <1>2, <1>3, <1>4 DEF CellsOK
<1>8. PICK r2 : Linked(r2, e, next', Buffer) /\ ToSet(r2) = ToSet(r) \cup {e}
  <2>1. Linked(r, free, next, Buffer)
    BY <1>1 DEF Shelf
  <2>2. \A x \in ToSet(r) : next'[x] = next[x]
    BY <1>5, <1>6, <1>7
  <2>3. next'[e] = free
    BY <1>7
  <2>4. e \in Buffer
    BY <1>4
  <2>5. e \notin ToSet(r)
    BY <1>5
  <2>6. Linked(<<e>> \o r, e, next', Buffer) /\ ToSet(<<e>> \o r) = ToSet(r) \cup {e}
    BY ONLY <2>1, <2>2, <2>3, <2>4, <2>5, LinkedFront
  <2> QED BY <2>6
<1>9. Linked(q, head', next', Buffer)
  <2>1. Linked(q, head, next, Buffer)
    BY <1>1 DEF Shelf
  <2>2. \A x \in ToSet(q) : next'[x] = next[x]
    BY <1>5, <1>6, <1>7
  <2>3. Linked(q, head, next', Buffer)
    BY <2>1, <2>2, LinkedKept
  <2> QED BY <1>3, <2>3
<1>10. \A b \in Buffer : b \in ToSet(q) \/ b \in ToSet(r2) \/ \E u \in Thread : hand'[u] = b
  <2> SUFFICES ASSUME NEW b \in Buffer, b \notin ToSet(q), b \notin ToSet(r2)
               PROVE  \E u \in Thread : hand'[u] = b
    OBVIOUS
  <2>1. PICK u \in Thread : hand[u] = b
    BY <1>1, <1>8 DEF Shelf
  <2>2. u # t
    BY <1>8, <2>1 DEF e
  <2> QED BY <1>4, <2>1, <2>2
<1>11. \A u \in Thread : hand'[u] \notin ToSet(q) /\ hand'[u] \notin ToSet(r2)
  <2>1. ASSUME NEW u \in Thread, u # t
        PROVE  hand'[u] \notin ToSet(q) /\ hand'[u] \notin ToSet(r2)
    <3>1. hand'[u] = hand[u] /\ hand[u] # e
      BY <1>4, <2>1
    <3> QED BY <1>1, <1>8, <3>1 DEF Shelf
  <2>2. hand'[t] \notin ToSet(q) /\ hand'[t] \notin ToSet(r2)
    BY <1>4, <1>6, <1>8, BufferFacts
  <2> QED BY <2>1, <2>2
<1>12. ToSet(q) \cap ToSet(r2) = {}
  BY <1>5, <1>6, <1>8
<1>13. Linked(r2, free', next', Buffer)
  BY <1>3, <1>8
<1>14. Shelf(q, r2)'
  <2>1. Len(q) = entry' /\ tail' = IF q = <<>> THEN Null ELSE q[Len(q)]
    BY <1>1, <1>3 DEF Shelf
  <2> QED BY <1>9, <1>10, <1>11, <1>12, <1>13, <2>1 DEF Shelf, Buffer, Null
<1>15. CellsOK'
  BY <1>2, <1>3, <1>4, <1>6 DEF CellsOK
<1> QED BY <1>4, <1>14, <1>15 DEF StoreInv

\* rt_mq_send and rt_mq_urgent link their buffer into the queue.
LEMMA LinkedLast ==
  ASSUME CellsOK, NEW q, NEW r, Shelf(q, r), NEW e \in Buffer,
         e \notin ToSet(q), e \notin ToSet(r), LinkLast(e), UNCHANGED free
  PROVE  \E q2 : /\ Linked(q2, head', next', Buffer) /\ Linked(r, free', next', Buffer)
                 /\ ToSet(q2) = ToSet(q) \cup {e} /\ Len(q2) = Len(q) + 1
                 /\ tail' = q2[Len(q2)] /\ q2 = Append(q, e)
<1>1. /\ next' = IF tail = Null THEN [next EXCEPT ![e] = Null]
                               ELSE [next EXCEPT ![e] = Null, ![tail] = e]
      /\ tail' = e
      /\ head' = IF head = Null THEN e ELSE head
      /\ next \in [Buffer -> Buffer \cup {Null}]
  BY DEF LinkLast, CellsOK
<1>2. /\ Linked(q, head, next, Buffer) /\ Linked(r, free, next, Buffer)
      /\ ToSet(q) \subseteq Buffer /\ ToSet(r) \subseteq Buffer /\ ToSet(q) \cap ToSet(r) = {}
      /\ head = Null <=> q = <<>>
      /\ tail = Null <=> q = <<>>
      /\ q # <<>> => tail \in ToSet(q) /\ tail = q[Len(q)]
      /\ Len(q) \in Nat
  BY ShelfFacts DEF Shelf
<1>3. \A x \in Buffer : x # e /\ (q = <<>> \/ x # tail) => next'[x] = next[x]
  BY <1>1, <1>2
<1>4. next'[e] = 0
  <2>1. CASE q = <<>>
    BY <1>1, <1>2, <2>1, BufferFacts
  <2>2. CASE q # <<>>
    <3>1. tail # Null /\ tail # e
      BY <1>2, <2>2
    <3> QED BY <1>1, <3>1, BufferFacts
  <2> QED BY <2>1, <2>2
<1>5. q # <<>> => next'[q[Len(q)]] = e
  <2> SUFFICES ASSUME q # <<>> PROVE next'[q[Len(q)]] = e
    OBVIOUS
  <2>1. tail # Null /\ tail \in Buffer /\ tail = q[Len(q)]
    BY <1>2
  <2> QED BY <1>1, <2>1
<1>6. \A x \in ToSet(q) : q = <<>> \/ x = q[Len(q)] \/ next'[x] = next[x]
  BY <1>2, <1>3
<1>7. \A x \in ToSet(r) : next'[x] = next[x]
  BY <1>2, <1>3
<1>8. Linked(r, free, next', Buffer)
  BY <1>2, <1>7, LinkedKept
<1> DEFINE q2 == Append(q, e)
           h2 == IF q = <<>> THEN e ELSE head
<1>9. /\ Linked(q2, h2, next', Buffer)
      /\ ToSet(q2) = ToSet(q) \cup {e} /\ Len(q2) = Len(q) + 1
      /\ q2[Len(q) + 1] = e
  <2>1. Linked(q, head, next, Buffer)
    BY <1>2
  <2> QED BY <2>1, <1>4, <1>5, <1>6, LinkedBack
<1>10. h2 = head' /\ tail' = e
  BY <1>1, <1>2
<1>11. q2 = Append(q, e)
  OBVIOUS
<1> HIDE DEF q2, h2
<1> QED BY <1>8, <1>9, <1>10, <1>11

LEMMA LinkedFirst ==
  ASSUME CellsOK, NEW q, NEW r, Shelf(q, r), NEW e \in Buffer,
         e \notin ToSet(q), e \notin ToSet(r), LinkFirst(e), UNCHANGED free
  PROVE  \E q2 : /\ Linked(q2, head', next', Buffer) /\ Linked(r, free', next', Buffer)
                 /\ ToSet(q2) = ToSet(q) \cup {e} /\ Len(q2) = Len(q) + 1
                 /\ tail' = q2[Len(q2)] /\ q2 = <<e>> \o q
<1>1. /\ next' = [next EXCEPT ![e] = head]
      /\ head' = e
      /\ tail' = IF tail = Null THEN e ELSE tail
      /\ next \in [Buffer -> Buffer \cup {Null}]
  BY DEF LinkFirst, CellsOK
<1>2. /\ Linked(q, head, next, Buffer) /\ Linked(r, free, next, Buffer)
      /\ ToSet(q) \subseteq Buffer /\ ToSet(r) \subseteq Buffer
      /\ tail = Null <=> q = <<>>
      /\ q = <<>> <=> Len(q) = 0
      /\ q # <<>> => tail = q[Len(q)]
      /\ q \in Seq(Buffer) /\ Len(q) \in Nat
  BY ShelfFacts DEF Shelf
<1>3. next'[e] = head /\ \A x \in Buffer : x # e => next'[x] = next[x]
  BY <1>1
<1>4. (\A x \in ToSet(q) : next'[x] = next[x]) /\ \A x \in ToSet(r) : next'[x] = next[x]
  BY <1>2, <1>3
<1>5. Linked(r, free, next', Buffer)
  BY <1>2, <1>4, LinkedKept
<1> DEFINE q2 == <<e>> \o q
<1>6. Linked(q2, e, next', Buffer) /\ ToSet(q2) = ToSet(q) \cup {e} /\ Len(q2) = Len(q) + 1
  <2>1. Linked(q, head, next, Buffer)
    BY <1>2
  <2>2. \A x \in ToSet(q) : next'[x] = next[x]
    BY <1>4
  <2>3. next'[e] = head
    BY <1>3
  <2> QED BY <2>1, <2>2, <2>3, LinkedFront
<1>7. tail' = q2[Len(q) + 1]
  <2>1. CASE q = <<>>
    BY <1>1, <1>2, <2>1
  <2>2. CASE q # <<>>
    <3>1. q2[Len(q) + 1] = q[Len(q)]
      BY <1>2, <2>2
    <3> QED BY <1>1, <1>2, <2>2, <3>1
  <2> QED BY <2>1, <2>2
<1>8. q2 = <<e>> \o q
  OBVIOUS
<1> HIDE DEF q2
<1> QED BY <1>1, <1>5, <1>6, <1>7, <1>8

LEMMA StoreDelivers ==
  ASSUME IpcInv, StoreInv, NEW t \in Thread, MqLink(t)
  PROVE  StoreInv'
<1>1. PICK q, r : Shelf(q, r)
  BY DEF StoreInv
<1>2. HandsKnown /\ CellsOK
  BY DEF StoreInv
<1> DEFINE e == hand[t]
<1>3. /\ pc[t] = "fill"
      /\ data' = [data EXCEPT ![e] = word[t]]
      /\ LinkLast(e) \/ LinkFirst(e)
      /\ entry' = entry + 1
      /\ hand' = [hand EXCEPT ![t] = Null]
      /\ word' = [word EXCEPT ![t] = NoMsg]
      /\ pc' = [pc EXCEPT ![t] = "return"]
      /\ UNCHANGED free
  BY DEF MqLink, Deliver, Finish
<1>4. /\ HandsKnown' /\ hand'[t] = Null /\ e \in Buffer
      /\ \A u \in Thread \ {t} : hand'[u] = hand[u] /\ hand[u] # e
  <2>1. "return" \notin Busy /\ pc[t] \in Busy
    BY <1>3 DEF Busy
  <2> QED BY <1>2, <1>3, <2>1, HandPuts
<1> HIDE DEF e
<1>5. e \notin ToSet(q) /\ e \notin ToSet(r)
  BY <1>1 DEF Shelf, e
<1>6. PICK q2 : /\ Linked(q2, head', next', Buffer) /\ Linked(r, free', next', Buffer)
                /\ ToSet(q2) = ToSet(q) \cup {e} /\ Len(q2) = Len(q) + 1
                /\ tail' = q2[Len(q2)]
  <2>1. e \in Buffer
    BY <1>4
  <2>2. CASE LinkLast(e)
    <3>1. \E q2 : /\ Linked(q2, head', next', Buffer) /\ Linked(r, free', next', Buffer)
                  /\ ToSet(q2) = ToSet(q) \cup {e} /\ Len(q2) = Len(q) + 1
                  /\ tail' = q2[Len(q2)] /\ q2 = Append(q, e)
      BY <1>1, <1>2, <1>3, <1>5, <2>1, <2>2, LinkedLast
    <3> QED BY <3>1
  <2>3. CASE LinkFirst(e)
    <3>1. \E q2 : /\ Linked(q2, head', next', Buffer) /\ Linked(r, free', next', Buffer)
                  /\ ToSet(q2) = ToSet(q) \cup {e} /\ Len(q2) = Len(q) + 1
                  /\ tail' = q2[Len(q2)] /\ q2 = <<e>> \o q
      BY <1>1, <1>2, <1>3, <1>5, <2>1, <2>3, LinkedFirst
    <3> QED BY <3>1
  <2> QED BY <1>3, <2>2, <2>3
<1>7. /\ ToSet(q) \subseteq Buffer /\ ToSet(r) \subseteq Buffer /\ ToSet(q) \cap ToSet(r) = {}
      /\ head \in Buffer \cup {Null} /\ tail \in Buffer \cup {Null} /\ Len(q) \in Nat
  BY <1>1, ShelfFacts
<1>8. \A b \in Buffer : b \in ToSet(q2) \/ b \in ToSet(r) \/ \E u \in Thread : hand'[u] = b
  <2> SUFFICES ASSUME NEW b \in Buffer, b \notin ToSet(q2), b \notin ToSet(r)
               PROVE  \E u \in Thread : hand'[u] = b
    OBVIOUS
  <2>1. PICK u \in Thread : hand[u] = b
    BY <1>1, <1>6 DEF Shelf
  <2>2. u # t
    BY <1>6, <2>1 DEF e
  <2> QED BY <1>4, <2>1, <2>2
<1>9. \A u \in Thread : hand'[u] \notin ToSet(q2) /\ hand'[u] \notin ToSet(r)
  <2>1. ASSUME NEW u \in Thread, u # t
        PROVE  hand'[u] \notin ToSet(q2) /\ hand'[u] \notin ToSet(r)
    <3>1. hand'[u] = hand[u] /\ hand[u] # e
      BY <1>4, <2>1
    <3> QED BY <1>1, <1>6, <3>1 DEF Shelf
  <2>2. hand'[t] \notin ToSet(q2) /\ hand'[t] \notin ToSet(r)
    BY <1>4, <1>6, <1>7, BufferFacts
  <2> QED BY <2>1, <2>2
<1>10. ToSet(q2) \cap ToSet(r) = {}
  BY <1>5, <1>6, <1>7
<1>11. Len(q2) = entry' /\ q2 # <<>>
  <2>1. Len(q2) = Len(q) + 1 /\ Len(q) = entry
    BY <1>1, <1>6 DEF Shelf
  <2>2. Len(q2) # 0
    BY <1>7, <2>1
  <2> QED BY <1>3, <2>1, <2>2
<1>12. Shelf(q2, r)'
  BY <1>6, <1>8, <1>9, <1>10, <1>11 DEF Shelf, Buffer, Null
<1>13. CellsOK'
  <2>1. next' \in [Buffer -> Buffer \cup {Null}]
    BY <1>2, <1>3, <1>4, <1>7 DEF LinkLast, LinkFirst, CellsOK
  <2>2. data' \in [Buffer -> Msg \cup {NoMsg}] /\ word' \in [Thread -> Msg \cup {NoMsg}]
    BY <1>2, <1>3, <1>4 DEF CellsOK
  <2> QED BY <2>1, <2>2 DEF CellsOK, Buffer, Null
<1> QED BY <1>4, <1>12, <1>13 DEF StoreInv

\* A reset puts the buffers of the queue, in reverse, in front of the free list.
LEMMA StoreResets ==
  ASSUME IpcInv, StoreInv, MqReset
  PROVE  StoreInv'
<1>1. PICK q, r : Shelf(q, r)
  BY DEF StoreInv
<1>2. HandsKnown /\ CellsOK
  BY DEF StoreInv
<1>3. /\ Linked(q, head, next, Buffer) /\ Linked(r, free, next, Buffer)
      /\ Len(q) = entry
  BY <1>1 DEF Shelf
<1>4. Queue = q
  BY <1>3, ChainIs DEF Queue
<1>5. /\ next' = [b \in Buffer |->
                    IF b \notin ToSet(q) THEN next[b]
                    ELSE IF b = head THEN free
                    ELSE CHOOSE p \in ToSet(q) : next[p] = b]
      /\ free' = IF head = Null THEN free ELSE tail
      /\ head' = Null /\ tail' = Null /\ entry' = 0
      /\ UNCHANGED <<data, hand, word>>
      /\ pc' = pc
  BY <1>4 DEF MqReset, ResetList, frame
<1>6. /\ q \in Seq(Buffer) /\ Len(q) \in Nat /\ NoDup(q) /\ DOMAIN q = 1 .. Len(q)
      /\ ToSet(q) \subseteq Buffer /\ ToSet(r) \subseteq Buffer /\ ToSet(q) \cap ToSet(r) = {}
      /\ head = Null <=> q = <<>>
      /\ q # <<>> => head = q[1] /\ tail = q[Len(q)]
      /\ free \in Buffer \cup {Null}
  BY <1>1, ShelfFacts
<1>7. \A k \in 1 .. Len(q) : q[k] \in ToSet(q) /\ q[k] \in Buffer
  BY <1>6 DEF ToSet
<1>8. \A x \in ToSet(r) : next'[x] = next[x]
  BY <1>5, <1>6
<1>9. \A k \in 2 .. Len(q) : next'[q[k]] = q[k - 1]
  <2> SUFFICES ASSUME NEW k \in 2 .. Len(q) PROVE next'[q[k]] = q[k - 1]
    OBVIOUS
  <2>1. /\ k \in 1 .. Len(q) /\ k - 1 \in 1 .. Len(q) /\ 1 \in 1 .. Len(q)
        /\ k # 1 /\ k - 1 # Len(q) /\ (k - 1) + 1 = k /\ q # <<>>
    BY <1>6
  <2>2. q[k] # head
    BY <1>6, <2>1 DEF NoDup
  <2>3. next'[q[k]] = CHOOSE p \in ToSet(q) : next[p] = q[k]
    BY <1>5, <1>7, <2>1, <2>2
  <2>4. next[q[k - 1]] = q[k]
    BY <1>3, <2>1 DEF Linked
  <2>5. ASSUME NEW p \in ToSet(q), next[p] = q[k] PROVE p = q[k - 1]
    <3>1. PICK j \in 1 .. Len(q) : q[j] = p
      BY <1>6 DEF ToSet
    <3>2. j # Len(q)
      <4>1. q[k] # 0
        BY <1>7, <2>1, BufferFacts
      <4> QED BY <1>3, <2>5, <3>1, <4>1 DEF Linked
    <3>3. q[j + 1] = q[k] /\ j + 1 \in 1 .. Len(q)
      BY <1>3, <1>6, <2>5, <3>1, <3>2 DEF Linked
    <3>4. j + 1 = k
      BY <1>6, <2>1, <3>3 DEF NoDup
    <3>5. j = k - 1
      BY <3>4
    <3> QED BY <3>1, <3>5
  <2> QED BY <1>7, <2>1, <2>3, <2>4, <2>5
<1>10. PICK f : Linked(f, free', next', Buffer) /\ ToSet(f) = ToSet(q) \cup ToSet(r)
  <2>1. CASE q = <<>>
    <3>1. Linked(r, free, next', Buffer)
      BY <1>3, <1>8, LinkedKept
    <3>2. ToSet(q) = {} /\ free' = free
      BY <1>5, <1>6, <2>1 DEF ToSet
    <3> QED BY <3>1, <3>2
  <2>2. CASE q # <<>>
    <3>1. 1 \in 1 .. Len(q)
      BY <1>6, <2>2
    <3>2. next'[q[1]] = free
      BY <1>5, <1>6, <1>7, <2>2, <3>1
    <3>3. free' = q[Len(q)]
      BY <1>5, <1>6, <2>2
    <3>4. ToSet(q) \cap ToSet(r) = {}
      BY <1>6
    <3>5. Linked(q, head, next, Buffer)
      BY <1>3
    <3>6. Linked(r, free, next, Buffer)
      BY <1>3
    <3>7. \E f : Linked(f, q[Len(q)], next', Buffer) /\ ToSet(f) = ToSet(q) \cup ToSet(r)
      BY ONLY <1>8, <1>9, <2>2, <3>2, <3>4, <3>5, <3>6, LinkedReverse
    <3> QED BY <3>3, <3>7
  <2> QED BY <2>1, <2>2
<1>11. Linked(<<>>, head', next', Buffer) /\ Len(<<>>) = entry' /\ ToSet(<<>>) = {}
  BY <1>5, BufferFacts DEF Linked, NoDup, ToSet
<1>12. \A b \in Buffer : b \in ToSet(f) \/ \E t \in Thread : hand'[t] = b
  BY <1>1, <1>5, <1>10 DEF Shelf
<1>13. \A t \in Thread : hand'[t] \notin ToSet(f)
  BY <1>1, <1>5, <1>10 DEF Shelf
<1>14. Shelf(<<>>, f)'
  BY <1>5, <1>10, <1>11, <1>12, <1>13 DEF Shelf, Buffer, Null
<1>15. HandsKnown'
  BY <1>2, <1>5 DEF HandsKnown
<1>16. CellsOK'
  <2>1. \A b \in Buffer : next'[b] \in Buffer \cup {Null}
    <3> SUFFICES ASSUME NEW b \in Buffer PROVE next'[b] \in Buffer \cup {Null}
      OBVIOUS
    <3>1. CASE b \notin ToSet(q)
      BY <1>2, <1>5, <3>1 DEF CellsOK
    <3>2. CASE b = head
      BY <1>2, <1>5, <1>6, <3>2 DEF CellsOK
    <3>3. CASE b \in ToSet(q) /\ b # head
      <4>1. PICK k \in 1 .. Len(q) : q[k] = b
        BY <1>6, <3>3 DEF ToSet
      <4>2. q # <<>> /\ k # 1
        BY <1>6, <3>3, <4>1
      <4>3. k \in 2 .. Len(q) /\ k - 1 \in 1 .. Len(q)
        BY <1>6, <4>2
      <4> QED BY <1>7, <1>9, <4>1, <4>3
    <3> QED BY <3>1, <3>2, <3>3
  <2>2. next' = [b \in Buffer |-> next'[b]]
    BY <1>5
  <2> QED BY <1>2, <1>5, <2>1, <2>2 DEF CellsOK
<1> QED BY <1>14, <1>15, <1>16 DEF StoreInv

\* No thread begins or ends to hold a buffer.
Unburdened ==
  \/ pc' = pc
  \/ \E t \in Thread : \E s \in {"idle", "wait", "return"} :
       pc[t] \notin Busy /\ pc' = [pc EXCEPT ![t] = s]

LEMMA UnburdenedKeeps ==
  ASSUME IpcInv, Unburdened
  PROVE  \A u \in Thread : pc'[u] \in Busy <=> pc[u] \in Busy
<1>1. pc \in [Thread -> {"idle", "fill", "wait", "drain", "return"}]
  BY DEF IpcInv, FramesOK
<1>2. CASE pc' = pc
  BY <1>2
<1>3. CASE \E t \in Thread : \E s \in {"idle", "wait", "return"} :
             pc[t] \notin Busy /\ pc' = [pc EXCEPT ![t] = s]
  BY <1>1, <1>3 DEF Busy
<1> QED BY <1>2, <1>3 DEF Unburdened

\* How a call goes on that is not in the middle of copying.
LEMMA CallUnburdened ==
  ASSUME NEW t \in Thread, pc[t] \notin Busy
  PROVE  /\ \A call, result : Finish(t, call, result) => Unburdened
         /\ \A o, call, limit : Suspend(t, o, call, limit) => Unburdened
<1>1. ASSUME NEW s \in {"idle", "wait", "return"}, pc' = [pc EXCEPT ![t] = s] PROVE Unburdened
  BY <1>1 DEF Unburdened
<1>2. ASSUME NEW call, NEW result, Finish(t, call, result) PROVE Unburdened
  BY <1>1, <1>2 DEF Finish
<1>3. ASSUME NEW o, NEW call, NEW limit, Suspend(t, o, call, limit) PROVE Unburdened
  BY <1>1, <1>3 DEF Suspend, Enlist
<1> QED BY <1>2, <1>3

LEMMA CallerFree ==
  ASSUME NEW t \in Thread
  PROVE  /\ \A call, o : Enters(t, call, o) => pc[t] \notin Busy
         /\ \A call : Woken(t, call) => pc[t] \notin Busy
BY DEF Enters, Woken, Busy

LEMMA SemUnburdened ==
  ASSUME SemStep
  PROVE  Unburdened
<1>1. CASE SemReset
  BY <1>1 DEF SemReset, ResetList, frame, Unburdened
<1>2. ASSUME NEW t \in Thread, SemThread(t) PROVE Unburdened
  <2>1. CASE Release(t)
    BY <2>1 DEF Release, frame, Unburdened
  <2>2. CASE TakeNow(t) \/ TakeRefused(t) \/ TakeGranted(t)
    BY <2>2, CallerFree, CallUnburdened DEF TakeNow, TakeRefused, TakeGranted
  <2>3. CASE TakeWait(t)
    BY <2>3, CallerFree, CallUnburdened DEF TakeWait
  <2> QED BY <1>2, <2>1, <2>2, <2>3 DEF SemThread
<1> QED BY <1>1, <1>2 DEF SemStep

LEMMA EventUnburdened ==
  ASSUME EventStep
  PROVE  Unburdened
<1>1. CASE EventReset
  BY <1>1 DEF EventReset, ResetList, frame, Unburdened
<1>2. ASSUME NEW t \in Thread, EventThread(t) PROVE Unburdened
  <2>1. CASE EventSend(t)
    BY <2>1 DEF EventSend, SendTo, frame, Unburdened
  <2>2. CASE EventRecvNothing(t) \/ EventRecvNow(t) \/ EventRecvRefused(t) \/ EventRecvWoken(t)
             \/ EventSendNothing(t)
    BY <2>2, CallerFree, CallUnburdened
       DEF EventRecvNothing, EventRecvNow, EventRecvRefused, EventRecvWoken, EventSendNothing
  <2>3. CASE EventRecvWait(t)
    BY <2>3, CallerFree, CallUnburdened DEF EventRecvWait
  <2> QED BY <1>2, <2>1, <2>2, <2>3 DEF EventThread
<1> QED BY <1>1, <1>2 DEF EventStep

LEMMA MpUnburdened ==
  ASSUME MpStep
  PROVE  Unburdened
<1>1. CASE MpDetach
  BY <1>1 DEF MpDetach, Detach, DetachBegin, DetachLook, DetachResume, DetachHalt, frame, Unburdened
<1>2. ASSUME NEW t \in Thread, MpThread(t) PROVE Unburdened
  <2>1. CASE MpFree(t)
    BY <2>1 DEF MpFree, MpFreeQuiet, MpFreeWakes, ipcVars, frame, Unburdened
  <2>2. CASE MpAlloc(t) \/ MpRefused(t)
    BY <2>2, CallerFree, CallUnburdened DEF MpAlloc, Lend, MpRefused, MpLooks
  <2>3. CASE MpWait(t)
    BY <2>3, CallerFree, CallUnburdened DEF MpWait, MpLooks
  <2> QED BY <1>2, <2>1, <2>2, <2>3 DEF MpThread
<1> QED BY <1>1, <1>2 DEF MpStep

LEMMA CommonUnburdened ==
  ASSUME Common
  PROVE  Unburdened
<1>1. ASSUME NEW t \in Thread, Return(t) PROVE Unburdened
  BY <1>1 DEF Return, Busy, Unburdened
<1>2. ASSUME NEW t \in Thread, WakeWithError(t) PROVE Unburdened
  <2>1. pc[t] \notin Busy
    BY <1>2 DEF WakeWithError, Busy
  <2> QED BY <1>2, <2>1, CallUnburdened DEF WakeWithError
<1>3. ASSUME NEW t \in Thread, TimeOut(t) PROVE Unburdened
  BY <1>3 DEF TimeOut, Expire, frame, Unburdened
<1>4. ASSUME NEW o \in Object, Detach(o) PROVE Unburdened
  BY <1>4 DEF Detach, DetachBegin, DetachLook, DetachResume, DetachHalt, frame, Unburdened
<1> QED BY <1>1, <1>2, <1>3, <1>4 DEF Common

LEMMA StoreUntouched ==
  ASSUME IpcInv, StoreInv, Unburdened, UNCHANGED mqVars
  PROVE  StoreInv'
<1>1. \A u \in Thread : pc'[u] \in Busy <=> pc[u] \in Busy
  BY UnburdenedKeeps
<1>2. word' \in [Thread -> Msg \cup {NoMsg}]
  BY DEF StoreInv, CellsOK, mqVars
<1> QED BY <1>1, <1>2, StoreKept DEF mqVars

LEMMA StoreThread ==
  ASSUME IpcInv, StoreInv, NEW t \in Thread, MqThread(t)
  PROVE  StoreInv'
<1>1. CASE MqTooLong(t) \/ MqFull(t) \/ MqEmpty(t)
  <2>1. Unburdened /\ UNCHANGED mqVars
    BY <1>1, CallerFree, CallUnburdened DEF MqTooLong, MqFull, MqEmpty, Looks
  <2> QED BY <2>1, StoreUntouched
<1>2. CASE MqWait(t)
  <2>1. Unburdened /\ UNCHANGED mqVars
    BY <1>2, CallerFree, CallUnburdened DEF MqWait, Looks
  <2> QED BY <2>1, StoreUntouched
<1> QED BY <1>1, <1>2, StoreReserves, StoreDelivers, StoreTakes, StoreFrees DEF MqThread

LEMMA StoreNext ==
  ASSUME IInv, StoreInv, [Next]_vars
  PROVE  StoreInv'
<1>0. IpcInv
  BY DEF IInv
<1>1. CASE MqStep
  BY <1>0, <1>1, StoreThread, StoreResets DEF MqStep
<1>2. CASE (SemStep \/ EventStep \/ MpStep) /\ UNCHANGED mqVars
  BY <1>0, <1>2, SemUnburdened, EventUnburdened, MpUnburdened, StoreUntouched
<1>3. CASE Common
  <2>1. Unburdened
    BY <1>3, CommonUnburdened
  <2>2. CASE \E t \in Thread : MqForget(t)
    <3>1. \A u \in Thread : pc'[u] \in Busy <=> pc[u] \in Busy
      BY <1>0, <2>1, UnburdenedKeeps
    <3>2. word' \in [Thread -> Msg \cup {NoMsg}]
      BY <2>2 DEF MqForget, StoreInv, CellsOK
    <3> QED BY <2>2, <3>1, <3>2, StoreKept DEF MqForget
  <2>3. CASE UNCHANGED mqVars
    BY <1>0, <2>1, <2>3, StoreUntouched
  <2> QED BY <1>3, <2>2, <2>3 DEF Common
<1>4. CASE UNCHANGED vars
  <2>1. Unburdened /\ UNCHANGED mqVars
    BY <1>4 DEF vars, ipcVars, frame, Unburdened
  <2> QED BY <1>0, <2>1, StoreUntouched
<1> QED BY <1>1, <1>2, <1>3, <1>4 DEF Next

LEMMA StoreInvariance == Spec => []StoreInv
<1>1. Init => StoreInv
  BY StoreInit DEF Init
<1>2. IInv /\ StoreInv /\ [Next]_vars => StoreInv'
  BY StoreNext
<1> QED BY <1>1, <1>2, IpcInvariance, PTL DEF Spec

\* rt_mq_send, rt_mq_urgent, rt_mq_recv, the reset, rt_mp_alloc and rt_mp_free:
\* every buffer is in the queue, in the free list or in one hand, every block in
\* the free list or lent, whatever comes between the two sections of a call.
THEOREM IpcStores == Spec => []StoreIsWhole
<1>1. StoreInv /\ PoolInv => StoreIsWhole
  BY StoreHolds, PoolHolds DEF StoreIsWhole
<1> QED BY <1>1, StoreInvariance, PoolInvariance, PTL

\* Every variable of the semaphore, the event, the queue, the pool and their
\* callers has its type; the counters stay within the stores.
THEOREM IpcType == Spec => []TypeOK
<1>1. IInv /\ EventInv /\ StoreInv /\ PoolInv => TypeOK
  <2> SUFFICES ASSUME IInv, EventInv, StoreInv, PoolInv PROVE TypeOK
    OBVIOUS
  <2>1. IpcTypeOK /\ SemTypeOK
    BY IpcTypeParts DEF IInv, IpcInv, SemInv
  <2> QED BY <2>1, StoreHolds, PoolHolds DEF TypeOK, EventInv
<1> QED BY <1>1, IpcInvariance, EventInvariance, StoreInvariance, PoolInvariance, PTL

-----------------------------------------------------------------------------
(* What a message queue promises.                                          *)

\* What the callers see of one call.
Seen(u) == <<CallOf[u], WordOf[u], LimitOf[u], ResultOf[u]>>

\* What a call leaves in the fields of its thread: the word it sends or brings
\* back is its own, and a thread that waits has time left.
Known(u) ==
  /\ pc[u] = "idle" => op[u] = "none" /\ ret[u] = "none"
  /\ pc[u] = "fill" => op[u] \in SendKinds /\ word[u] \in Msg
  /\ pc[u] = "drain" => op[u] = "mq_recv" /\ data[hand[u]] \in Msg
  /\ pc[u] \in {"wait", "drain"} => word[u] = NoMsg
  /\ pc[u] = "wait" /\ op[u] = "mq_recv" => timeout[u] \in {"finite", "forever"}
  /\ word[u] # NoMsg => op[u] \in MqCalls

CallersKnown == (\A u \in Thread : Known(u)) /\ \A b \in ToSet(Queue) : data[b] \in Msg

\* The thread is where it was.
Stays(u) ==
  /\ pc'[u] = pc[u] /\ op'[u] = op[u] /\ timeout'[u] = timeout[u] /\ ret'[u] = ret[u]
  /\ word'[u] = word[u]
  /\ pc[u] = "drain" => data'[hand'[u]] = data[hand[u]]

\* The thread goes on in a call of another object.
Away(u) ==
  /\ op[u] \notin MqCalls /\ op'[u] \notin MqCalls
  /\ pc[u] \notin Busy /\ pc'[u] \notin Busy
  /\ pc'[u] = "idle" => op'[u] = "none" /\ ret'[u] = "none"
  /\ word'[u] = word[u]

LEMMA SeenPoints ==
  ASSUME NEW u \in Thread
  PROVE  /\ CallOf[u] = IF op[u] \notin MqCalls THEN "none"
                        ELSE IF Over(u) THEN "done" ELSE op[u]
         /\ WordOf[u] = IF pc[u] = "drain" THEN data[hand[u]] ELSE word[u]
         /\ LimitOf[u] = IF CallOf[u] = "mq_recv" THEN timeout[u] ELSE "none"
         /\ CallOf[u] # "done" => ResultOf[u] = "none"
         /\ CallOf[u] = "done" /\ pc[u] = "drain" => ResultOf[u] = "EOK"
         /\ CallOf[u] = "done" /\ pc[u] = "wait" => ResultOf[u] = error[u]
         /\ CallOf[u] = "done" /\ pc[u] = "return" => ResultOf[u] = ret[u]
BY DEF CallOf, WordOf, LimitOf, ResultOf

LEMMA SeenPointsNext ==
  ASSUME NEW u \in Thread
  PROVE  /\ CallOf'[u] = IF op'[u] \notin MqCalls THEN "none"
                         ELSE IF Over(u)' THEN "done" ELSE op'[u]
         /\ WordOf'[u] = IF pc'[u] = "drain" THEN data'[hand'[u]] ELSE word'[u]
         /\ LimitOf'[u] = IF CallOf'[u] = "mq_recv" THEN timeout'[u] ELSE "none"
         /\ CallOf'[u] # "done" => ResultOf'[u] = "none"
         /\ CallOf'[u] = "done" /\ pc'[u] = "drain" => ResultOf'[u] = "EOK"
         /\ CallOf'[u] = "done" /\ pc'[u] = "wait" => ResultOf'[u] = error'[u]
         /\ CallOf'[u] = "done" /\ pc'[u] = "return" => ResultOf'[u] = ret'[u]
BY DEF CallOf, WordOf, LimitOf, ResultOf

\* Only a call that takes the place of "mq_send" by its name could be "done".
LEMMA OverOnly ==
  ASSUME NEW u \in Thread
  PROVE  /\ CallOf[u] = "done" <=> op[u] \in MqCalls /\ Over(u)
         /\ CallOf'[u] = "done" <=> op'[u] \in MqCalls /\ Over(u)'
BY SeenPoints, SeenPointsNext DEF MqCalls, SendKinds

LEMMA StaysSeen ==
  ASSUME NEW u \in Thread, Stays(u), error'[u] = error[u] \/ op[u] \notin MqCalls
  PROVE  Seen(u)' = Seen(u)
<1>1. WordOf'[u] = WordOf[u]
  BY SeenPoints, SeenPointsNext DEF Stays
<1>2. CASE op[u] \notin MqCalls
  <2>1. CallOf[u] = "none" /\ CallOf'[u] = "none"
    BY <1>2, SeenPoints, SeenPointsNext DEF Stays
  <2>2. LimitOf[u] = "none" /\ LimitOf'[u] = "none" /\ ResultOf[u] = "none" /\ ResultOf'[u] = "none"
    BY <2>1, SeenPoints, SeenPointsNext
  <2> QED BY <1>1, <2>1, <2>2 DEF Seen
<1>3. CASE error'[u] = error[u] /\ op[u] \in MqCalls
  <2>1. Over(u)' <=> Over(u)
    BY <1>3 DEF Over, Stays
  <2>2. CallOf'[u] = CallOf[u]
    BY <2>1, SeenPoints, SeenPointsNext DEF Stays
  <2>3. LimitOf'[u] = LimitOf[u]
    BY <2>2, SeenPoints, SeenPointsNext DEF Stays
  <2>4. ResultOf'[u] = ResultOf[u]
    <3>1. CallOf[u] = "done" => pc[u] \in {"drain", "wait", "return"}
      BY OverOnly DEF Over
    <3> QED BY <1>3, <2>2, <3>1, SeenPoints, SeenPointsNext DEF Stays
  <2> QED BY <1>1, <2>2, <2>3, <2>4 DEF Seen
<1> QED BY <1>2, <1>3

LEMMA StaysKnown ==
  ASSUME NEW u \in Thread, Stays(u), Known(u)
  PROVE  Known(u)'
BY DEF Stays, Known

LEMMA AwaySeen ==
  ASSUME NEW u \in Thread, Away(u), Known(u)
  PROVE  Seen(u)' = Seen(u) /\ Known(u)'
<1>1. CallOf[u] = "none" /\ CallOf'[u] = "none"
  BY SeenPoints, SeenPointsNext DEF Away
<1>2. LimitOf[u] = "none" /\ LimitOf'[u] = "none" /\ ResultOf[u] = "none" /\ ResultOf'[u] = "none"
  BY <1>1, SeenPoints, SeenPointsNext
<1>3. WordOf'[u] = WordOf[u]
  BY SeenPoints, SeenPointsNext DEF Away, Busy
<1>4. Known(u)'
  BY DEF Known, Away, Busy, MqCalls
<1> QED BY <1>1, <1>2, <1>3, <1>4 DEF Seen

LEMMA AllSeen ==
  ASSUME \A u \in Thread : Seen(u)' = Seen(u)
  PROVE  UNCHANGED <<CallOf, WordOf, LimitOf, ResultOf>>
<1>1. \A u \in Thread : CallOf'[u] = CallOf[u] /\ WordOf'[u] = WordOf[u]
                        /\ LimitOf'[u] = LimitOf[u] /\ ResultOf'[u] = ResultOf[u]
  BY DEF Seen
<1>2. CallOf' = CallOf
  BY <1>1 DEF CallOf
<1>3. WordOf' = WordOf
  BY <1>1 DEF WordOf
<1>4. LimitOf' = LimitOf
  BY <1>1 DEF LimitOf
<1>5. ResultOf' = ResultOf
  <2>1. ResultOf = [u \in Thread |-> ResultOf[u]] /\ ResultOf' = [u \in Thread |-> ResultOf'[u]]
    BY DEF ResultOf
  <2> QED BY <1>1, <2>1
<1> QED BY <1>2, <1>3, <1>4, <1>5

LEMMA OneSeen ==
  ASSUME NEW t \in Thread, \A u \in Thread \ {t} : Seen(u)' = Seen(u),
         NEW c, NEW w, NEW l, NEW r, Seen(t)' = <<c, w, l, r>>
  PROVE  /\ CallOf' = [CallOf EXCEPT ![t] = c]
         /\ WordOf' = [WordOf EXCEPT ![t] = w]
         /\ LimitOf' = [LimitOf EXCEPT ![t] = l]
         /\ ResultOf' = [ResultOf EXCEPT ![t] = r]
<1>1. \A u \in Thread \ {t} : CallOf'[u] = CallOf[u] /\ WordOf'[u] = WordOf[u]
                        /\ LimitOf'[u] = LimitOf[u] /\ ResultOf'[u] = ResultOf[u]
  BY DEF Seen
<1>2. CallOf'[t] = c /\ WordOf'[t] = w /\ LimitOf'[t] = l /\ ResultOf'[t] = r
  BY DEF Seen
<1>3. CallOf' = [CallOf EXCEPT ![t] = c]
  BY <1>1, <1>2 DEF CallOf
<1>4. WordOf' = [WordOf EXCEPT ![t] = w]
  BY <1>1, <1>2 DEF WordOf
<1>5. LimitOf' = [LimitOf EXCEPT ![t] = l]
  BY <1>1, <1>2 DEF LimitOf
<1>6. ResultOf' = [ResultOf EXCEPT ![t] = r]
  <2>1. ResultOf = [u \in Thread |-> ResultOf[u]] /\ ResultOf' = [u \in Thread |-> ResultOf'[u]]
    BY DEF ResultOf
  <2> QED BY <1>1, <1>2, <2>1
<1> QED BY <1>3, <1>4, <1>5, <1>6

\* A call that begins, that has been woken, and that ends.
LEMMA IdleSeen ==
  ASSUME NEW t \in Thread, pc[t] = "idle", Known(t)
  PROVE  Seen(t) = <<"none", NoMsg, "none", "none">> /\ op[t] = "none"
<1>1. op[t] \notin MqCalls /\ op[t] = "none" /\ word[t] = NoMsg
  BY DEF Known, MqCalls, SendKinds
<1>2. CallOf[t] = "none"
  BY <1>1, SeenPoints
<1>3. LimitOf[t] = "none" /\ ResultOf[t] = "none" /\ WordOf[t] = NoMsg
  BY <1>1, <1>2, SeenPoints
<1> QED BY <1>1, <1>2, <1>3 DEF Seen

LEMMA WaiterSeen ==
  ASSUME NEW t \in Thread, pc[t] = "wait", op[t] = "mq_recv", error[t] = "EOK", Known(t)
  PROVE  Seen(t) = <<"mq_recv", NoMsg, timeout[t], "none">> /\ timeout[t] \in {"finite", "forever"}
<1>1. op[t] \in MqCalls /\ ~Over(t) /\ word[t] = NoMsg /\ timeout[t] \in {"finite", "forever"}
  BY DEF Known, MqCalls, Over
<1>2. CallOf[t] = "mq_recv"
  BY <1>1, SeenPoints
<1>3. LimitOf[t] = timeout[t] /\ ResultOf[t] = "none" /\ WordOf[t] = NoMsg
  BY <1>1, <1>2, SeenPoints
<1> QED BY <1>1, <1>2, <1>3 DEF Seen

LEMMA WaiterSeenNext ==
  ASSUME NEW t \in Thread, pc'[t] = "wait", op'[t] = "mq_recv", error'[t] = "EOK",
         word'[t] = NoMsg
  PROVE  Seen(t)' = <<"mq_recv", NoMsg, timeout'[t], "none">>
<1>1. op'[t] \in MqCalls /\ ~Over(t)'
  BY DEF MqCalls, Over
<1>2. CallOf'[t] = "mq_recv"
  BY <1>1, SeenPointsNext
<1>3. LimitOf'[t] = timeout'[t] /\ ResultOf'[t] = "none" /\ WordOf'[t] = NoMsg
  BY <1>1, <1>2, SeenPointsNext
<1> QED BY <1>1, <1>2, <1>3 DEF Seen

\* A waiter that is resumed with an error.
LEMMA FailedSeen ==
  ASSUME NEW t \in Thread, pc'[t] = "wait", op'[t] = "mq_recv", error'[t] # "EOK",
         word'[t] = NoMsg
  PROVE  Seen(t)' = <<"done", NoMsg, "none", error'[t]>>
<1>1. op'[t] \in MqCalls /\ Over(t)'
  BY DEF MqCalls, Over
<1>2. CallOf'[t] = "done"
  BY <1>1, SeenPointsNext
<1>3. LimitOf'[t] = "none" /\ ResultOf'[t] = error'[t] /\ WordOf'[t] = NoMsg
  BY <1>1, <1>2, SeenPointsNext
<1> QED BY <1>1, <1>2, <1>3 DEF Seen

LEMMA FinishSeen ==
  ASSUME IpcInv, NEW t \in Thread, NEW call \in MqCalls, NEW result, Finish(t, call, result)
  PROVE  /\ Seen(t)' = <<"done", word'[t], "none", result>>
         /\ pc'[t] = "return" /\ op'[t] = call
         /\ \A u \in Thread \ {t} :
              pc'[u] = pc[u] /\ op'[u] = op[u] /\ timeout'[u] = timeout[u] /\ ret'[u] = ret[u]
<1>1. /\ pc'[t] = "return" /\ op'[t] = call /\ ret'[t] = result
      /\ \A u \in Thread \ {t} :
           pc'[u] = pc[u] /\ op'[u] = op[u] /\ timeout'[u] = timeout[u] /\ ret'[u] = ret[u]
  BY DEF Finish, IpcInv, FramesOK
<1>2. CallOf'[t] = "done"
  BY <1>1, OverOnly DEF Over
<1>3. LimitOf'[t] = "none" /\ ResultOf'[t] = result /\ WordOf'[t] = word'[t]
  BY <1>1, <1>2, SeenPointsNext
<1> QED BY <1>1, <1>2, <1>3 DEF Seen

\* The messages of the queue, in their order.
Msgs == [i \in 1 .. entry |-> data[Queue[i]]]

LEMMA QueueKnown ==
  ASSUME StoreInv
  PROVE  \E r : /\ Shelf(Queue, r) /\ Queue \in Seq(Buffer) /\ Len(Queue) = entry
                /\ entry \in Nat /\ NoDup(Queue)
                /\ Linked(Queue, head, next, Buffer)
                /\ \A k \in 1 .. entry : Queue[k] \in ToSet(Queue) /\ Queue[k] \in Buffer
<1>1. PICK q, r : Shelf(q, r)
  BY DEF StoreInv
<1>2. Linked(q, head, next, Buffer) /\ Len(q) = entry
  BY <1>1 DEF Shelf
<1>3. Queue = q
  BY <1>2, QueueIs
<1>4. q \in Seq(Buffer) /\ Len(q) \in Nat /\ NoDup(q) /\ DOMAIN q = 1 .. Len(q)
  BY <1>1, ShelfFacts
<1>5. \A k \in 1 .. entry : q[k] \in ToSet(q) /\ q[k] \in Buffer
  BY <1>2, <1>4 DEF ToSet
<1> QED BY <1>1, <1>2, <1>3, <1>4, <1>5

\* The queue is left alone when its links and their contents are.
LEMMA MsgsKept ==
  ASSUME UNCHANGED <<head, entry, next, data>>
  PROVE  Queue' = Queue /\ Msgs' = Msgs
<1>1. Queue' = Queue
  BY DEF Queue, Chain
<1> QED BY <1>1 DEF Msgs

\* The step keeps to the promise, and the callers' fields go on to be known.
Promised == CallersKnown' /\ [Promise!Next]_(Promise!vars)

Live == life["mq"] = "live"

LEMMA NothingSeen ==
  ASSUME CallersKnown, \A u \in Thread : Seen(u)' = Seen(u) /\ Known(u)',
         Queue' = Queue, Msgs' = Msgs, data' = data, Live' <=> Live
  PROVE  Promised
<1>1. CallersKnown'
  BY DEF CallersKnown
<1>2. UNCHANGED <<CallOf, WordOf, LimitOf, ResultOf>>
  BY AllSeen
<1>3. (life["mq"] = "live")' = (life["mq"] = "live")
  BY DEF Live
<1>4. UNCHANGED Promise!vars
  BY <1>2, <1>3 DEF Promise!vars, Msgs
<1> QED BY <1>1, <1>4 DEF Promised

LEMMA CallSeen ==
  ASSUME CallersKnown', NEW t \in Thread,
         \/ Promise!StartSend(t) \/ Promise!RefuseSend(t) \/ Promise!Put(t) \/ Promise!End(t)
         \/ Promise!StartRecv(t) \/ Promise!Take(t) \/ Promise!RefuseRecv(t) \/ Promise!Fail(t)
  PROVE  Promised
BY DEF Promised, Promise!Next

\* No thread in a call of the queue moves.
Abroad ==
  \A u \in Thread : Away(u) \/ (Stays(u) /\ (error'[u] = error[u] \/ op[u] \notin MqCalls))

\* A step of another object.
LEMMA Elsewhere ==
  ASSUME CallersKnown, UNCHANGED mqVars, Live' <=> Live, Abroad
  PROVE  Promised
<1>1. Queue' = Queue /\ Msgs' = Msgs /\ data' = data
  BY MsgsKept DEF mqVars
<1>2. \A u \in Thread : Seen(u)' = Seen(u) /\ Known(u)'
  <2> SUFFICES ASSUME NEW u \in Thread PROVE Seen(u)' = Seen(u) /\ Known(u)'
    OBVIOUS
  <2>1. Known(u)
    BY DEF CallersKnown
  <2>2. CASE Away(u)
    BY <2>1, <2>2, AwaySeen
  <2>3. CASE Stays(u) /\ (error'[u] = error[u] \/ op[u] \notin MqCalls)
    BY <2>1, <2>3, StaysSeen, StaysKnown
  <2> QED BY <2>2, <2>3 DEF Abroad
<1> QED BY <1>1, <1>2, NothingSeen

\* A call of the queue ends with its result.
LEMMA CallEnds ==
  ASSUME IpcInv, CallersKnown, NEW t \in Thread, NEW call \in MqCalls, NEW result,
         Finish(t, call, result),
         \A u \in Thread \ {t} : /\ error'[u] = error[u] /\ word'[u] = word[u]
                                 /\ pc[u] = "drain" => data'[hand'[u]] = data[hand[u]]
  PROVE  /\ Promise!Done(t, result, word'[t])
         /\ \A u \in Thread : Known(u)'
         /\ \A u \in Thread \ {t} : Seen(u)' = Seen(u)
         /\ Seen(t)' = <<"done", word'[t], "none", result>>
<1>1. /\ Seen(t)' = <<"done", word'[t], "none", result>>
      /\ pc'[t] = "return" /\ op'[t] = call
      /\ \A u \in Thread \ {t} :
           pc'[u] = pc[u] /\ op'[u] = op[u] /\ timeout'[u] = timeout[u] /\ ret'[u] = ret[u]
  BY FinishSeen
<1>2. ASSUME NEW u \in Thread \ {t} PROVE Seen(u)' = Seen(u) /\ Known(u)'
  <2>1. Stays(u) /\ error'[u] = error[u] /\ Known(u)
    BY <1>1 DEF Stays, CallersKnown
  <2> QED BY <2>1, StaysSeen, StaysKnown
<1>3. Known(t)'
  BY <1>1 DEF Known
<1>4. /\ CallOf' = [CallOf EXCEPT ![t] = "done"]
      /\ WordOf' = [WordOf EXCEPT ![t] = word'[t]]
      /\ LimitOf' = [LimitOf EXCEPT ![t] = "none"]
      /\ ResultOf' = [ResultOf EXCEPT ![t] = result]
  BY <1>1, <1>2, OneSeen
<1>5. Promise!Done(t, result, word'[t])
  BY <1>4 DEF Promise!Done
<1> QED BY <1>1, <1>2, <1>3, <1>5

\* While the free list is empty, and while a sender has a buffer in its hand.
LEMMA Room ==
  ASSUME IpcInv, StoreInv, CallersKnown
  PROVE  /\ entry \in Nat /\ Len(Msgs) = entry /\ MaxMsgs \in Nat
         /\ free = Null => Promise!NoRoom
         /\ \A t \in Thread : hand[t] # Null => entry < MaxMsgs
<1>1. PICK r : /\ Shelf(Queue, r) /\ Len(Queue) = entry /\ entry \in Nat
  BY QueueKnown
<1>2. Len(Queue) + Len(r) + Cardinality(Holders) = MaxMsgs /\ Cardinality(Holders) \in Nat
  BY <1>1, ShelfCount DEF StoreInv
<1>3. Len(r) \in Nat /\ (r = <<>> => Len(r) = 0) /\ MaxMsgs \in Nat
  BY <1>1, BufferFacts DEF Shelf, Linked
<1>4. Len(Msgs) = entry
  BY <1>1 DEF Msgs
<1> DEFINE W == {t \in Thread : WordOf[t] # NoMsg}
<1>5. Cardinality(Holders) <= Cardinality(W) /\ Cardinality(W) \in Nat
  <2>1. ASSUME NEW t \in Holders PROVE t \in W
    <3>1. t \in Thread /\ pc[t] \in Busy /\ Known(t)
      BY DEF Holders, StoreInv, HandsKnown, CallersKnown
    <3>2. CASE pc[t] = "fill"
      BY <3>1, <3>2, SeenPoints, MessageQueueAssumption DEF Known
    <3>3. CASE pc[t] = "drain"
      BY <3>1, <3>3, SeenPoints, MessageQueueAssumption DEF Known
    <3> QED BY <3>1, <3>2, <3>3 DEF Busy
  <2>2. IsFiniteSet(W) /\ Cardinality(W) \in Nat
    <3>1. W \in SUBSET Thread
      OBVIOUS
    <3> HIDE DEF W
    <3> QED BY <3>1, IpcAssumption, FS_Subset, FS_CardinalityType
  <2>3. Holders \subseteq W
    BY <2>1
  <2> HIDE DEF W
  <2> QED BY <2>2, <2>3, FS_Subset
<1>6. ASSUME free = Null PROVE Promise!NoRoom
  <2>1. r = <<>>
    BY <1>1, <1>6, ShelfFacts
  <2> DEFINE w == Cardinality(W)
             h == Cardinality(Holders)
  <2> HIDE DEF w, h
  <2>2. entry + w >= MaxMsgs
    <3>1. entry + h = MaxMsgs
      <4>1. entry + 0 + h = MaxMsgs
        BY <1>1, <1>2, <1>3, <2>1 DEF h
      <4> QED BY <1>1, <1>2, <1>3, <4>1 DEF h
    <3>2. h <= w /\ w \in Nat /\ h \in Nat
      BY <1>2, <1>5 DEF w, h
    <3> QED BY <1>1, <1>3, <3>1, <3>2
  <2>3. Promise!NoRoom <=> Len(Msgs) + Cardinality(W) >= MaxMsgs
    <3>1. \A S : Promise!Cardinality(S) = Cardinality(S)
      BY DEF Promise!Cardinality, Cardinality
    <3> QED BY <3>1 DEF Promise!NoRoom, Msgs
  <2>4. Len(Msgs) + w >= MaxMsgs
    BY <1>4, <2>2
  <2> QED BY <2>3, <2>4 DEF w
<1>7. ASSUME NEW t \in Thread, hand[t] # Null PROVE entry < MaxMsgs
  <2>1. t \in Holders
    BY <1>7 DEF Holders
  <2>2. Cardinality(Holders) # 0
    <3>1. IsFiniteSet(Holders) 
      <4>1. Holders \in SUBSET Thread
        BY DEF Holders
      <4> QED BY <4>1, IpcAssumption, FS_Subset
    <3> QED BY <2>1, <3>1, FS_EmptySet
  <2> DEFINE h == Cardinality(Holders)
             n == Len(r)
  <2> HIDE DEF h, n
  <2>3. entry + n + h = MaxMsgs /\ n \in Nat /\ h \in Nat /\ h # 0
    BY <1>1, <1>2, <1>3, <2>2 DEF h, n
  <2> QED BY <1>1, <1>3, <2>3
<1> QED BY <1>1, <1>3, <1>4, <1>6, <1>7

\* A thread that looks at the queue, at once or woken, has not been served.
LEMMA LooksSeen ==
  ASSUME CallersKnown, NEW t \in Thread, Looks(t)
  PROVE  /\ CallOf[t] \in {"none", "mq_recv"} /\ word[t] = NoMsg
         /\ pc[t] = "idle" => CallOf[t] = "none"
         /\ pc[t] # "idle" =>
              /\ Woken(t, "mq_recv") /\ CallOf[t] = "mq_recv" /\ LimitOf[t] = timeout[t]
              /\ timeout[t] \in {"finite", "forever"}
<1>1. Known(t)
  BY DEF CallersKnown
<1>2. CASE pc[t] = "idle"
  <2>1. Seen(t) = <<"none", NoMsg, "none", "none">> /\ word[t] = NoMsg
    <3>1. op[t] = "none" /\ Seen(t) = <<"none", NoMsg, "none", "none">>
      BY <1>1, <1>2, IdleSeen
    <3> QED BY <1>1, <3>1 DEF Known, MqCalls, SendKinds
  <2>2. CallOf[t] = "none"
    BY <2>1 DEF Seen
  <2> QED BY <1>2, <2>1, <2>2
<1>3. CASE pc[t] # "idle"
  <2>1. Woken(t, "mq_recv")
    BY <1>3 DEF Looks, Enters
  <2>2. Seen(t) = <<"mq_recv", NoMsg, timeout[t], "none">> /\ timeout[t] \in {"finite", "forever"}
    BY <1>1, <2>1, WaiterSeen DEF Woken
  <2>3. word[t] = NoMsg
    BY <1>1, <2>1 DEF Known, Woken
  <2> QED BY <1>3, <2>1, <2>2, <2>3 DEF Seen
<1> QED BY <1>2, <1>3

LEMMA RefusesSend ==
  ASSUME IpcInv, StoreInv, CallersKnown, NEW t \in Thread, MqTooLong(t) \/ MqFull(t)
  PROVE  Promised
<1>1. PICK call \in SendKinds, result \in {"ERROR", "EFULL"} :
        /\ Enters(t, call, "mq") /\ Finish(t, call, result)
        /\ result = "EFULL" => free = Null
  BY DEF MqTooLong, MqFull
<1>2. UNCHANGED <<mqVars, tcb, life>>
  BY DEF MqTooLong, MqFull
<1>3. Known(t) /\ pc[t] = "idle"
  BY <1>1 DEF CallersKnown, Enters
<1>4. Seen(t) = <<"none", NoMsg, "none", "none">> /\ word[t] = NoMsg
  <2>1. word[t] = NoMsg
    BY <1>3 DEF Known, MqCalls, SendKinds
  <2> QED BY <1>3, <2>1, IdleSeen
<1>5. call \in MqCalls /\ \A u \in Thread \ {t} :
        /\ error'[u] = error[u] /\ word'[u] = word[u]
        /\ pc[u] = "drain" => data'[hand'[u]] = data[hand[u]]
  BY <1>2 DEF MqCalls, mqVars, tcb
<1>6. Promise!Done(t, result, word'[t]) /\ \A u \in Thread : Known(u)'
  BY <1>1, <1>5, CallEnds
<1>7. Queue' = Queue /\ Msgs' = Msgs /\ data' = data /\ word'[t] = NoMsg
  BY <1>2, <1>4, MsgsKept DEF mqVars
<1>8. CallersKnown'
  BY <1>6, <1>7 DEF CallersKnown
<1>9. CallOf[t] = "none" /\ life' = life
  BY <1>2, <1>4 DEF Seen
<1>10. result = "EFULL" => Promise!NoRoom
  BY <1>1, Room
<1>11. Promise!Done(t, result, NoMsg)
  BY <1>6, <1>7
<1>12. Promise!RefuseSend(t)
  BY <1>7, <1>9, <1>10, <1>11 DEF Promise!RefuseSend, Msgs
<1> QED BY <1>8, <1>12, CallSeen

LEMMA BeginsSend ==
  ASSUME IpcInv, StoreInv, CallersKnown, NEW t \in Thread, MqTakeFree(t)
  PROVE  Promised
<1>1. PICK call \in SendKinds :
        Enters(t, call, "mq") /\ op' = [op EXCEPT ![t] = call]
  BY DEF MqTakeFree, Reserve
<1>2. PICK m \in Msg : word' = [word EXCEPT ![t] = m]
  BY DEF MqTakeFree, Reserve
<1>3. /\ hand' = [hand EXCEPT ![t] = free]
      /\ pc' = [pc EXCEPT ![t] = "fill"]
      /\ UNCHANGED <<head, tail, entry, next, data, error, timeout, ret, life>>
  BY DEF MqTakeFree, Reserve, tcb
<1>4. Known(t) /\ pc[t] = "idle"
  BY <1>1 DEF CallersKnown, Enters
<1>5. Seen(t) = <<"none", NoMsg, "none", "none">>
  BY <1>4, IdleSeen
<1>6. /\ pc'[t] = "fill" /\ op'[t] = call /\ word'[t] = m
      /\ \A u \in Thread \ {t} : pc'[u] = pc[u] /\ op'[u] = op[u] /\ word'[u] = word[u]
                                 /\ hand'[u] = hand[u]
  BY <1>1, <1>2, <1>3 DEF IpcInv, FramesOK, StoreInv, CellsOK, HandsKnown
<1>7. ASSUME NEW u \in Thread \ {t} PROVE Seen(u)' = Seen(u) /\ Known(u)'
  <2>1. Stays(u) /\ error'[u] = error[u] /\ Known(u)
    BY <1>3, <1>6 DEF Stays, CallersKnown
  <2> QED BY <2>1, StaysSeen, StaysKnown
<1>8. Seen(t)' = <<call, m, "none", "none">>
  <2>1. op'[t] \in MqCalls /\ ~Over(t)' /\ op'[t] # "done" /\ op'[t] # "mq_recv"
    BY <1>6 DEF MqCalls, Over, SendKinds
  <2>2. CallOf'[t] = call
    BY <1>6, <2>1, SeenPointsNext
  <2>3. WordOf'[t] = m /\ LimitOf'[t] = "none" /\ ResultOf'[t] = "none"
    BY <1>6, <2>1, <2>2, SeenPointsNext
  <2> QED BY <2>2, <2>3 DEF Seen
<1>9. Known(t)'
  BY <1>6 DEF Known, SendKinds, MqCalls
<1>10. Queue' = Queue /\ Msgs' = Msgs /\ data' = data
  BY <1>3, MsgsKept
<1>11. CallersKnown'
  BY <1>7, <1>9, <1>10 DEF CallersKnown
<1>12. /\ CallOf' = [CallOf EXCEPT ![t] = call]
       /\ WordOf' = [WordOf EXCEPT ![t] = m]
       /\ LimitOf' = [LimitOf EXCEPT ![t] = "none"]
       /\ ResultOf' = [ResultOf EXCEPT ![t] = "none"]
  BY <1>7, <1>8, OneSeen
<1>13. LimitOf' = LimitOf /\ ResultOf' = ResultOf /\ CallOf[t] = "none"
  <2>1. LimitOf[t] = "none" /\ ResultOf[t] = "none" /\ CallOf[t] = "none"
    BY <1>5 DEF Seen
  <2>2. LimitOf' = LimitOf
    BY <1>12, <2>1 DEF LimitOf
  <2>3. ResultOf = [u \in Thread |-> ResultOf[u]]
    BY DEF ResultOf
  <2>4. ResultOf' = ResultOf
    BY <1>12, <2>1, <2>3
  <2> QED BY <2>1, <2>2, <2>4
<1>14. Promise!StartSend(t)
  BY <1>3, <1>10, <1>12, <1>13 DEF Promise!StartSend, Msgs, SendKinds
<1> QED BY <1>11, <1>14, CallSeen

LEMMA WaitsSeen ==
  ASSUME IpcInv, StoreInv, CallersKnown, NEW t \in Thread, MqWait(t)
  PROVE  Promised
<1>1. PICK left \in TimeLeft(t) \ {"none"} : Suspend(t, "mq", "mq_recv", left)
  BY DEF MqWait
<1>2. Looks(t) /\ entry = 0 /\ UNCHANGED <<mqVars, life>>
  BY DEF MqWait
<1>3. left \in {"finite", "forever"} /\ (pc[t] # "idle" => left = timeout[t])
  BY <1>1, <1>2, TimeLeftFacts, LooksSeen DEF AllLimits, TimeLeft
<1>4. /\ pc'[t] = "wait" /\ op'[t] = "mq_recv" /\ error'[t] = "EOK" /\ timeout'[t] = left
      /\ \A u \in Thread \ {t} : pc'[u] = pc[u] /\ op'[u] = op[u] /\ timeout'[u] = timeout[u]
                                 /\ error'[u] = error[u]
      /\ ret' = ret
  BY <1>1 DEF Suspend, Enlist, IpcInv, FramesOK
<1>5. word'[t] = NoMsg
  BY <1>2, LooksSeen DEF mqVars
<1>6. Seen(t)' = <<"mq_recv", NoMsg, left, "none">>
  BY <1>4, <1>5, WaiterSeenNext
<1>7. ASSUME NEW u \in Thread \ {t} PROVE Seen(u)' = Seen(u) /\ Known(u)'
  <2>1. Stays(u) /\ error'[u] = error[u] /\ Known(u)
    BY <1>2, <1>4 DEF Stays, CallersKnown, mqVars
  <2> QED BY <2>1, StaysSeen, StaysKnown
<1>8. Known(t)'
  BY <1>3, <1>4, <1>5 DEF Known, MqCalls
<1>9. Queue' = Queue /\ Msgs' = Msgs /\ data' = data
  BY <1>2, MsgsKept DEF mqVars
<1>10. CallersKnown'
  BY <1>7, <1>8, <1>9 DEF CallersKnown
<1>11. CASE pc[t] = "idle"
  <2>1. Seen(t) = <<"none", NoMsg, "none", "none">>
    BY <1>11, IdleSeen DEF CallersKnown
  <2>2. /\ CallOf' = [CallOf EXCEPT ![t] = "mq_recv"]
        /\ WordOf' = [WordOf EXCEPT ![t] = NoMsg]
        /\ LimitOf' = [LimitOf EXCEPT ![t] = left]
        /\ ResultOf' = [ResultOf EXCEPT ![t] = "none"]
    BY <1>6, <1>7, OneSeen
  <2>3. WordOf[t] = NoMsg /\ ResultOf[t] = "none" /\ CallOf[t] = "none"
    BY <2>1 DEF Seen
  <2>4. WordOf' = WordOf
    BY <2>2, <2>3 DEF WordOf
  <2>5. ResultOf' = ResultOf
    <3>1. ResultOf = [u \in Thread |-> ResultOf[u]]
      BY DEF ResultOf
    <3> QED BY <2>2, <2>3, <3>1
  <2>6. Msgs = <<>>
    BY <1>2 DEF Msgs
  <2>7. Promise!StartRecv(t)
    BY <1>2, <1>3, <1>9, <2>2, <2>3, <2>4, <2>5, <2>6 DEF Promise!StartRecv, Msgs
  <2> QED BY <1>10, <2>7, CallSeen
<1>12. CASE pc[t] # "idle"
  <2>1. Woken(t, "mq_recv") /\ left = timeout[t] /\ Known(t)
    BY <1>2, <1>3, <1>12, LooksSeen DEF CallersKnown
  <2>2. Seen(t) = <<"mq_recv", NoMsg, timeout[t], "none">>
    BY <2>1, WaiterSeen DEF Woken
  <2>3. Seen(t)' = Seen(t)
    BY <1>6, <2>1, <2>2
  <2>4. Live' <=> Live
    BY <1>2 DEF Live
  <2> QED BY <1>7, <1>8, <1>9, <2>3, <2>4, NothingSeen
<1> QED BY <1>11, <1>12

LEMMA TakesSeen ==
  ASSUME IpcInv, StoreInv, CallersKnown, NEW t \in Thread, MqTake(t)
  PROVE  Promised
<1>1. PICK r : /\ Shelf(Queue, r) /\ Queue \in Seq(Buffer) /\ Len(Queue) = entry
               /\ entry \in Nat /\ Linked(Queue, head, next, Buffer)
               /\ \A k \in 1 .. entry : Queue[k] \in ToSet(Queue) /\ Queue[k] \in Buffer
  BY QueueKnown
<1>2. /\ Looks(t) /\ entry # 0
      /\ hand' = [hand EXCEPT ![t] = head]
      /\ head' = next[head]
      /\ entry' = entry - 1
      /\ pc' = [pc EXCEPT ![t] = "drain"]
      /\ op' = [op EXCEPT ![t] = "mq_recv"]
      /\ timeout' = [timeout EXCEPT ![t] = "none"]
      /\ UNCHANGED <<next, data, word, error, ret, life>>
  BY DEF MqTake, Unlink, tcb
<1>3. /\ pc'[t] = "drain" /\ op'[t] = "mq_recv" /\ hand'[t] = head
      /\ \A u \in Thread \ {t} : pc'[u] = pc[u] /\ op'[u] = op[u] /\ timeout'[u] = timeout[u]
                                 /\ hand'[u] = hand[u]
  BY <1>2 DEF IpcInv, FramesOK, StoreInv, HandsKnown
<1>4. Queue # <<>> /\ head = Queue[1] /\ head \in ToSet(Queue) /\ head \in Buffer
  BY <1>1, <1>2, ShelfFacts
<1>5. Queue' = Tail(Queue) /\ ToSet(Tail(Queue)) = ToSet(Queue) \ {head}
  <2>1. /\ Linked(Tail(Queue), next[head], next, Buffer)
        /\ ToSet(Tail(Queue)) = ToSet(Queue) \ {head} /\ Len(Tail(Queue)) = Len(Queue) - 1
    <3>1. \A x \in ToSet(Queue) \ {head} : next[x] = next[x]
      OBVIOUS
    <3> QED BY <1>1, <1>4, <3>1, LinkedTail, BufferFacts
  <2>2. Linked(Tail(Queue), head', next', Buffer) /\ Len(Tail(Queue)) = entry'
    BY <1>1, <1>2, <2>1
  <2> QED BY <2>1, <2>2, QueueIs
<1>6. Msgs' = Tail(Msgs) /\ Msgs # <<>> /\ Head(Msgs) = data[head]
  <2>1. Msgs' = [i \in 1 .. entry - 1 |-> data[Tail(Queue)[i]]]
    BY <1>2, <1>5 DEF Msgs
  <2>2. \A i \in 1 .. entry - 1 : Tail(Queue)[i] = Queue[i + 1]
    BY <1>1, <1>4
  <2>3. Msgs' = [i \in 1 .. entry - 1 |-> data[Queue[i + 1]]]
    BY <2>1, <2>2
  <2>4. Len(Msgs) = entry /\ Msgs # <<>> /\ 1 \in 1 .. entry
    BY <1>1, <1>2 DEF Msgs
  <2>8. Msgs \in Seq(Msg \cup {NoMsg})
    <3>1. \A k \in 1 .. entry : data[Queue[k]] \in Msg \cup {NoMsg}
      BY <1>1 DEF StoreInv, CellsOK
    <3> QED BY <1>1, <3>1 DEF Msgs
  <2>5. Tail(Msgs) = [i \in 1 .. entry - 1 |-> Msgs[i + 1]]
    <3> DEFINE m == Msgs
    <3> HIDE DEF Msgs, m
    <3>1. m \in Seq(Msg \cup {NoMsg}) /\ m # <<>> /\ Len(m) = entry
      BY <2>4, <2>8 DEF m
    <3>2. /\ Tail(m) \in Seq(Msg \cup {NoMsg}) /\ Len(Tail(m)) = entry - 1
          /\ \A i \in 1 .. entry - 1 : Tail(m)[i] = m[i + 1]
      BY <3>1, HeadTailProperties
    <3>3. Tail(m) = [i \in 1 .. entry - 1 |-> Tail(m)[i]]
      <4>1. \A s \in Seq(Msg \cup {NoMsg}) : s = [i \in 1 .. Len(s) |-> s[i]]
        OBVIOUS
      <4> QED BY <3>2, <4>1
    <3>4. Tail(m) = [i \in 1 .. entry - 1 |-> m[i + 1]]
      BY <3>2, <3>3
    <3> QED BY <3>4 DEF m
  <2>6. \A i \in 1 .. entry - 1 : Msgs[i + 1] = data[Queue[i + 1]]
    <3>1. \A i \in 1 .. entry - 1 : i + 1 \in 1 .. entry
      BY <1>1
    <3> QED BY <3>1 DEF Msgs
  <2>7. Head(Msgs) = data[head]
    <3>1. Msgs[1] = data[Queue[1]]
      BY <2>4 DEF Msgs
    <3>2. Head(Msgs) = Msgs[1]
      <4> HIDE DEF Msgs
      <4> QED BY <2>4, <2>8
    <3> QED BY <1>4, <3>1, <3>2
  <2> HIDE DEF Msgs
  <2> QED BY <2>3, <2>4, <2>5, <2>6, <2>7
<1>7. data[head] \in Msg
  BY <1>4 DEF CallersKnown
<1>8. ASSUME NEW u \in Thread \ {t} PROVE Seen(u)' = Seen(u) /\ Known(u)'
  <2>1. Stays(u) /\ error'[u] = error[u] /\ Known(u)
    BY <1>2, <1>3 DEF Stays, CallersKnown
  <2> QED BY <2>1, StaysSeen, StaysKnown
<1>9. word'[t] = NoMsg
  BY <1>2, LooksSeen
<1>10. Seen(t)' = <<"done", data[head], "none", "EOK">>
  <2>1. op'[t] \in MqCalls /\ Over(t)'
    BY <1>3 DEF MqCalls, Over
  <2>2. CallOf'[t] = "done"
    BY <2>1, SeenPointsNext
  <2>3. WordOf'[t] = data[head] /\ LimitOf'[t] = "none" /\ ResultOf'[t] = "EOK"
    BY <1>2, <1>3, <2>2, SeenPointsNext
  <2> QED BY <2>2, <2>3 DEF Seen
<1>11. Known(t)'
  BY <1>2, <1>3, <1>7, <1>9 DEF Known
<1>12. CallersKnown'
  BY <1>2, <1>5, <1>8, <1>11 DEF CallersKnown
<1>13. Promise!Done(t, "EOK", data[head])
  <2>1. /\ CallOf' = [CallOf EXCEPT ![t] = "done"]
        /\ WordOf' = [WordOf EXCEPT ![t] = data[head]]
        /\ LimitOf' = [LimitOf EXCEPT ![t] = "none"]
        /\ ResultOf' = [ResultOf EXCEPT ![t] = "EOK"]
    BY <1>8, <1>10, OneSeen
  <2> QED BY <2>1 DEF Promise!Done
<1>14. CallOf[t] \in {"none", "mq_recv"} /\ life' = life
  BY <1>2, LooksSeen
<1>15. Promise!Take(t)
  BY <1>6, <1>13, <1>14 DEF Promise!Take, Msgs
<1> QED BY <1>12, <1>15, CallSeen

LEMMA FreesSeen ==
  ASSUME IpcInv, StoreInv, CallersKnown, NEW t \in Thread, MqFree(t)
  PROVE  Promised
<1>1. PICK r : /\ Shelf(Queue, r) /\ Len(Queue) = entry
               /\ Linked(Queue, head, next, Buffer)
  BY QueueKnown
<1> DEFINE e == hand[t]
<1>2. /\ pc[t] = "drain"
      /\ word' = [word EXCEPT ![t] = data[e]]
      /\ next' = [next EXCEPT ![e] = free]
      /\ hand' = [hand EXCEPT ![t] = Null]
      /\ Finish(t, "mq_recv", "EOK")
      /\ UNCHANGED <<head, entry, data, error, life>>
  BY DEF MqFree, tcb
<1>3. /\ Known(t) /\ word'[t] = data[e] /\ e \notin ToSet(Queue)
      /\ \A u \in Thread \ {t} : word'[u] = word[u] /\ hand'[u] = hand[u]
  BY <1>1, <1>2 DEF StoreInv, CellsOK, HandsKnown, CallersKnown, Shelf
<1> HIDE DEF e
<1>4. "mq_recv" \in MqCalls
  BY DEF MqCalls
<1>5. \A u \in Thread \ {t} : /\ error'[u] = error[u] /\ word'[u] = word[u]
                              /\ pc[u] = "drain" => data'[hand'[u]] = data[hand[u]]
  BY <1>2, <1>3
<1>6. /\ \A u \in Thread : Known(u)'
      /\ \A u \in Thread \ {t} : Seen(u)' = Seen(u)
      /\ Seen(t)' = <<"done", word'[t], "none", "EOK">>
  BY <1>2, <1>4, <1>5, CallEnds
<1>7. Seen(t) = <<"done", data[e], "none", "EOK">>
  <2>1. op[t] \in MqCalls /\ Over(t)
    BY <1>2, <1>3 DEF Known, MqCalls, Over
  <2>2. CallOf[t] = "done"
    BY <2>1, SeenPoints
  <2>3. WordOf[t] = data[e] /\ LimitOf[t] = "none" /\ ResultOf[t] = "EOK"
    BY <1>2, <2>2, SeenPoints DEF e
  <2> QED BY <2>2, <2>3 DEF Seen
<1>8. Queue' = Queue /\ Msgs' = Msgs
  <2>1. \A x \in ToSet(Queue) : next'[x] = next[x]
    <3>1. \A x \in Buffer : x # e => next'[x] = next[x]
      BY <1>2 DEF StoreInv, CellsOK
    <3>2. ToSet(Queue) \subseteq Buffer
      BY <1>1, ShelfFacts
    <3> QED BY <1>3, <3>1, <3>2
  <2>2. Linked(Queue, head, next', Buffer)
    BY <1>1, <2>1, LinkedKept
  <2>3. Queue' = Queue
    BY <1>1, <1>2, <2>2, QueueIs
  <2> QED BY <1>2, <2>3 DEF Msgs
<1>9. \A u \in Thread : Seen(u)' = Seen(u) /\ Known(u)'
  BY <1>3, <1>6, <1>7
<1>10. data' = data /\ (Live' <=> Live)
  BY <1>2 DEF Live
<1> QED BY <1>8, <1>9, <1>10, NothingSeen

LEMMA RefusesRecv ==
  ASSUME IpcInv, StoreInv, CallersKnown, NEW t \in Thread, MqEmpty(t)
  PROVE  Promised
<1>1. /\ Looks(t) /\ entry = 0 /\ "none" \in TimeLeft(t)
      /\ error' = [error EXCEPT ![t] = IF pc[t] = "wait" THEN "ETIMEOUT" ELSE @]
      /\ Finish(t, "mq_recv", "ETIMEOUT")
      /\ UNCHANGED <<mqVars, life>>
  BY DEF MqEmpty
<1>2. "mq_recv" \in MqCalls /\ \A u \in Thread \ {t} :
        /\ error'[u] = error[u] /\ word'[u] = word[u]
        /\ pc[u] = "drain" => data'[hand'[u]] = data[hand[u]]
  BY <1>1 DEF MqCalls, mqVars, IpcInv, FramesOK
<1>3. Promise!Done(t, "ETIMEOUT", word'[t]) /\ \A u \in Thread : Known(u)'
  BY <1>1, <1>2, CallEnds
<1>4. Queue' = Queue /\ Msgs' = Msgs /\ data' = data /\ word' = word
  BY <1>1, MsgsKept DEF mqVars
<1>5. CallersKnown'
  BY <1>3, <1>4 DEF CallersKnown
<1>6. /\ word[t] = NoMsg
      /\ CallOf[t] = "none" \/ (CallOf[t] = "mq_recv" /\ LimitOf[t] = "finite")
  <2>1. CASE pc[t] = "idle"
    BY <1>1, <2>1, LooksSeen
  <2>2. CASE pc[t] # "idle"
    <3>1. CallOf[t] = "mq_recv" /\ LimitOf[t] = timeout[t] /\ timeout[t] \in {"finite", "forever"}
          /\ word[t] = NoMsg
      BY <1>1, <2>2, LooksSeen
    <3>2. timeout[t] = "finite"
      BY <1>1, <2>2, <3>1 DEF TimeLeft
    <3> QED BY <3>1, <3>2
  <2> QED BY <2>1, <2>2
<1>7. Msgs = <<>> /\ life' = life
  BY <1>1 DEF Msgs
<1>8. Promise!Done(t, "ETIMEOUT", NoMsg)
  BY <1>3, <1>4, <1>6
<1>9. Promise!RefuseRecv(t)
  BY <1>4, <1>6, <1>7, <1>8 DEF Promise!RefuseRecv, Msgs
<1> QED BY <1>5, <1>9, CallSeen

\* A message is added at the end or at the front.
LEMMA MsgsLonger ==
  ASSUME StoreInv, NEW e \in Buffer, e \notin ToSet(Queue), NEW m \in Msg,
         data' = [data EXCEPT ![e] = m], entry' = entry + 1
  PROVE  /\ Queue' = Append(Queue, e) => Msgs' = Append(Msgs, m)
         /\ Queue' = <<e>> \o Queue => Msgs' = <<m>> \o Msgs
<1> DEFINE V == Msg \cup {NoMsg}
<1>1. /\ Queue \in Seq(Buffer) /\ Len(Queue) = entry /\ entry \in Nat
      /\ \A k \in 1 .. entry : Queue[k] \in ToSet(Queue) /\ Queue[k] \in Buffer
  BY QueueKnown
<1>2. data \in [Buffer -> V] /\ m \in V
  BY DEF StoreInv, CellsOK
<1>3. data'[e] = m /\ \A k \in 1 .. entry : data'[Queue[k]] = data[Queue[k]]
  BY <1>1, <1>2
<1>4. /\ Msgs \in Seq(V) /\ Len(Msgs) = entry
      /\ \A k \in 1 .. entry : Msgs[k] = data'[Queue[k]]
  <2>1. \A k \in 1 .. entry : data[Queue[k]] \in V
    BY <1>1, <1>2
  <2> QED BY <1>1, <1>3, <2>1 DEF Msgs
<1> HIDE DEF V
<1>5. Msgs' = [i \in 1 .. entry + 1 |-> data'[Queue'[i]]]
  BY DEF Msgs
<1> DEFINE s == Msgs
<1> HIDE DEF s
<1>6. ASSUME Queue' = Append(Queue, e) PROVE Msgs' = Append(Msgs, m)
  <2>1. \A i \in 1 .. entry + 1 : Queue'[i] = IF i = entry + 1 THEN e ELSE Queue[i]
    BY <1>1, <1>6
  <2>2. \A i \in 1 .. entry + 1 : i = entry + 1 \/ i \in 1 .. entry
    BY <1>1
  <2>3. \A i \in 1 .. entry + 1 : data'[Queue'[i]] = IF i = entry + 1 THEN m ELSE s[i]
    BY <1>3, <1>4, <2>1, <2>2 DEF s
  <2>4. Append(s, m) = [i \in 1 .. entry + 1 |-> IF i = entry + 1 THEN m ELSE s[i]]
    <3>1. /\ Append(s, m) \in Seq(V) /\ Len(Append(s, m)) = entry + 1
          /\ \A i \in 1 .. entry + 1 : Append(s, m)[i] = IF i = entry + 1 THEN m ELSE s[i]
      BY <1>1, <1>2, <1>4 DEF s
    <3>2. Append(s, m) = [i \in 1 .. entry + 1 |-> Append(s, m)[i]]
      <4>1. \A x \in Seq(V) : x = [i \in 1 .. Len(x) |-> x[i]]
        OBVIOUS
      <4> QED BY <3>1, <4>1
    <3> QED BY <3>1, <3>2
  <2> QED BY <1>5, <2>3, <2>4 DEF s
<1>7. ASSUME Queue' = <<e>> \o Queue PROVE Msgs' = <<m>> \o Msgs
  <2>1. \A i \in 1 .. entry + 1 : Queue'[i] = IF i = 1 THEN e ELSE Queue[i - 1]
    BY <1>1, <1>7
  <2>2. \A i \in 1 .. entry + 1 : i = 1 \/ i - 1 \in 1 .. entry
    BY <1>1
  <2>3. \A i \in 1 .. entry + 1 : data'[Queue'[i]] = IF i = 1 THEN m ELSE s[i - 1]
    BY <1>3, <1>4, <2>1, <2>2 DEF s
  <2>4. <<m>> \o s = [i \in 1 .. entry + 1 |-> IF i = 1 THEN m ELSE s[i - 1]]
    <3>1. /\ <<m>> \o s \in Seq(V) /\ Len(<<m>> \o s) = entry + 1
          /\ \A i \in 1 .. entry + 1 : (<<m>> \o s)[i] = IF i = 1 THEN m ELSE s[i - 1]
      BY <1>1, <1>2, <1>4 DEF s
    <3>2. <<m>> \o s = [i \in 1 .. entry + 1 |-> (<<m>> \o s)[i]]
      <4>1. \A x \in Seq(V) : x = [i \in 1 .. Len(x) |-> x[i]]
        OBVIOUS
      <4> QED BY <3>1, <4>1
    <3> QED BY <3>1, <3>2
  <2> QED BY <1>5, <2>3, <2>4 DEF s
<1> QED BY <1>6, <1>7

LEMMA DeliversSeen ==
  ASSUME IpcInv, StoreInv, CallersKnown, NEW t \in Thread, MqLink(t)
  PROVE  Promised
<1> DEFINE e == hand[t]
           m == word[t]
<1>1. PICK r : /\ Shelf(Queue, r) /\ Len(Queue) = entry /\ entry \in Nat
               /\ Linked(Queue, head, next, Buffer)
  BY QueueKnown
<1>2. /\ pc[t] = "fill"
      /\ data' = [data EXCEPT ![e] = m]
      /\ (op[t] = "mq_send" /\ LinkLast(e)) \/ (op[t] = "mq_urgent" /\ LinkFirst(e))
      /\ entry' = entry + 1
      /\ hand' = [hand EXCEPT ![t] = Null]
      /\ word' = [word EXCEPT ![t] = NoMsg]
      /\ Finish(t, op[t], "EOK")
      /\ UNCHANGED <<free, error, life>>
  BY DEF MqLink, Deliver
<1>3. /\ Known(t) /\ m \in Msg /\ word'[t] = NoMsg /\ e # Null /\ e \in Buffer
      /\ e \notin ToSet(Queue) /\ e \notin ToSet(r)
      /\ \A u \in Thread \ {t} : word'[u] = word[u] /\ hand'[u] = hand[u] /\ hand[u] # e
  <2>1. Known(t) /\ m \in Msg
    BY <1>2 DEF CallersKnown, Known
  <2>2. e # Null /\ e \in Buffer /\ \A u \in Thread \ {t} : hand[u] # e
    BY <1>2 DEF StoreInv, HandsKnown, Busy
  <2>3. word'[t] = NoMsg /\ \A u \in Thread \ {t} : word'[u] = word[u] /\ hand'[u] = hand[u]
    BY <1>2 DEF StoreInv, CellsOK, HandsKnown
  <2> QED BY <1>1, <2>1, <2>2, <2>3 DEF Shelf
<1> HIDE DEF e
<1>4. op[t] \in MqCalls /\ Seen(t) = <<op[t], m, "none", "none">>
  <2>1. op[t] \in SendKinds /\ op[t] \in MqCalls /\ ~Over(t) /\ op[t] # "done" /\ op[t] # "mq_recv"
    BY <1>2, <1>3 DEF Known, SendKinds, MqCalls, Over
  <2>2. CallOf[t] = op[t]
    BY <2>1, SeenPoints
  <2>3. WordOf[t] = m /\ LimitOf[t] = "none" /\ ResultOf[t] = "none"
    BY <1>2, <2>1, <2>2, SeenPoints
  <2> QED BY <2>1, <2>2, <2>3 DEF Seen
<1> HIDE DEF m
<1>5. \A u \in Thread \ {t} : /\ error'[u] = error[u] /\ word'[u] = word[u]
                              /\ pc[u] = "drain" => data'[hand'[u]] = data[hand[u]]
  <2>1. \A b \in Buffer : b # e => data'[b] = data[b]
    BY <1>2 DEF StoreInv, CellsOK
  <2>2. \A u \in Thread : pc[u] = "drain" => hand[u] \in Buffer
    BY DEF StoreInv, HandsKnown, Busy
  <2> QED BY <1>2, <1>3, <2>1, <2>2
<1>6. Promise!Done(t, "EOK", word'[t]) /\ \A u \in Thread : Known(u)'
  BY <1>2, <1>4, <1>5, CallEnds
<1>7. /\ \/ op[t] = "mq_send" /\ Queue' = Append(Queue, e)
         \/ op[t] = "mq_urgent" /\ Queue' = <<e>> \o Queue
      /\ ToSet(Queue') = ToSet(Queue) \cup {e}
  <2>1. CellsOK
    BY DEF StoreInv
  <2>2. ASSUME op[t] = "mq_send", LinkLast(e)
        PROVE  Queue' = Append(Queue, e) /\ ToSet(Queue') = ToSet(Queue) \cup {e}
    <3>1. PICK q2 : /\ Linked(q2, head', next', Buffer) /\ Len(q2) = Len(Queue) + 1
                    /\ q2 = Append(Queue, e) /\ ToSet(q2) = ToSet(Queue) \cup {e}
      BY <1>1, <1>2, <1>3, <2>1, <2>2, LinkedLast
    <3> QED BY <1>1, <1>2, <3>1, QueueIs
  <2>3. ASSUME op[t] = "mq_urgent", LinkFirst(e)
        PROVE  Queue' = <<e>> \o Queue /\ ToSet(Queue') = ToSet(Queue) \cup {e}
    <3>1. PICK q2 : /\ Linked(q2, head', next', Buffer) /\ Len(q2) = Len(Queue) + 1
                    /\ q2 = <<e>> \o Queue /\ ToSet(q2) = ToSet(Queue) \cup {e}
      BY <1>1, <1>2, <1>3, <2>1, <2>3, LinkedFirst
    <3> QED BY <1>1, <1>2, <3>1, QueueIs
  <2> QED BY <1>2, <2>2, <2>3
<1>8. \/ op[t] = "mq_send" /\ Msgs' = Append(Msgs, m)
      \/ op[t] = "mq_urgent" /\ Msgs' = <<m>> \o Msgs
  BY <1>2, <1>3, <1>7, MsgsLonger
<1>9. ASSUME NEW b \in ToSet(Queue)' PROVE data'[b] \in Msg
  <2>1. b = e \/ b \in ToSet(Queue)
    <3>1. ToSet(Queue)' = ToSet(Queue')
      BY DEF ToSet
    <3> QED BY <1>7, <3>1
  <2>2. data'[e] = m /\ \A x \in ToSet(Queue) : data'[x] = data[x]
    <3>1. ToSet(Queue) \subseteq Buffer
      BY <1>1, ShelfFacts
    <3> QED BY <1>2, <1>3, <3>1 DEF StoreInv, CellsOK
  <2> QED BY <1>3, <2>1, <2>2 DEF CallersKnown
<1>10. CallersKnown'
  BY <1>6, <1>9 DEF CallersKnown
<1>11. Len(Msgs) < MaxMsgs
  <2>1. hand[t] # Null
    BY <1>3 DEF e
  <2> QED BY <2>1, Room
<1>12. CallOf[t] = op[t] /\ WordOf[t] = m /\ life' = life /\ Promise!Done(t, "EOK", NoMsg)
  BY <1>2, <1>3, <1>4, <1>6 DEF Seen
<1>13. Promise!Put(t)
  BY <1>8, <1>11, <1>12 DEF Promise!Put, Msgs
<1> QED BY <1>10, <1>13, CallSeen

\* The receivers of W are resumed with the error r.
LEMMA WaitersFail ==
  ASSUME CallersKnown, UNCHANGED <<frame, word, data, hand>>,
         NEW W \in SUBSET Thread, NEW r, r # "EOK",
         \A u \in W : pc[u] = "wait" /\ op[u] = "mq_recv" /\ error[u] = "EOK" /\ error'[u] = r,
         \A u \in Thread \ W : error'[u] = error[u] \/ op[u] \notin MqCalls
  PROVE  /\ \A u \in Thread : Known(u)'
         /\ \A u \in Thread \ W : Seen(u)' = Seen(u)
         /\ \A u \in W : /\ Seen(u) = <<"mq_recv", NoMsg, timeout[u], "none">>
                         /\ Seen(u)' = <<"done", NoMsg, "none", r>>
<1>1. \A u \in Thread : Stays(u) /\ Known(u)
  BY DEF Stays, CallersKnown, frame
<1>2. \A u \in Thread : Known(u)'
  BY <1>1, StaysKnown
<1>3. \A u \in Thread \ W : Seen(u)' = Seen(u)
  BY <1>1, StaysSeen
<1>4. ASSUME NEW u \in W
      PROVE  /\ Seen(u) = <<"mq_recv", NoMsg, timeout[u], "none">>
             /\ Seen(u)' = <<"done", NoMsg, "none", r>>
  <2>1. Seen(u) = <<"mq_recv", NoMsg, timeout[u], "none">>
    BY <1>1, WaiterSeen
  <2>2. pc'[u] = "wait" /\ op'[u] = "mq_recv" /\ error'[u] # "EOK" /\ word'[u] = NoMsg
    BY <1>1 DEF frame, Known
  <2>3. Seen(u)' = <<"done", NoMsg, "none", error'[u]>>
    BY <2>2, FailedSeen
  <2> QED BY <2>1, <2>3
<1> QED BY <1>2, <1>3, <1>4

\* Who waits in a list waits for its object.
LEMMA ListedWaits ==
  ASSUME IpcInv, NEW o \in Object, NEW u \in Listed(o)
  PROVE  /\ u \in Thread /\ pc[u] = "wait" /\ error[u] = "EOK"
         /\ o = "mq" => op[u] = "mq_recv"
         /\ o # "mq" => op[u] \notin MqCalls
<1>1. u \in Thread /\ stat[u] = "suspend" /\ o = Awaits(u)
  BY DEF IpcInv, ListsOK, WaitersKnown, Listed, ToSet
<1>2. pc[u] = "wait" /\ op[u] \in WaitCalls /\ error[u] = "EOK"
  BY <1>1 DEF IpcInv, WaitersKnown
<1> QED BY <1>1, <1>2 DEF Awaits, WaitCalls, MqCalls, SendKinds

LEMMA ResetsSeen ==
  ASSUME IpcInv, StoreInv, CallersKnown, MqReset
  PROVE  Promised
<1> DEFINE W == Listed("mq")
<1>1. /\ error' = [t \in Thread |-> IF t \in W THEN "ERROR" ELSE error[t]]
      /\ UNCHANGED <<frame, data, hand, word, life>>
      /\ head' = 0 /\ entry' = 0
  BY DEF MqReset, ResetList, Listed, Null
<1>2. \A u \in W : u \in Thread /\ pc[u] = "wait" /\ error[u] = "EOK" /\ op[u] = "mq_recv"
  BY ListedWaits DEF Object
<1> HIDE DEF W
<1>3. W \in SUBSET Thread /\ \A u \in W : error'[u] = "ERROR"
  BY <1>1, <1>2
<1>4. \A u \in Thread \ W : error'[u] = error[u]
  BY <1>1
<1>5. /\ \A u \in Thread : Known(u)'
      /\ \A u \in Thread \ W : Seen(u)' = Seen(u)
      /\ \A u \in W : /\ Seen(u) = <<"mq_recv", NoMsg, timeout[u], "none">>
                      /\ Seen(u)' = <<"done", NoMsg, "none", "ERROR">>
  <2>1. UNCHANGED <<frame, word, data, hand>>
    BY <1>1
  <2>2. \A u \in W : /\ pc[u] = "wait" /\ op[u] = "mq_recv" /\ error[u] = "EOK"
                    /\ error'[u] = "ERROR"
    BY <1>2, <1>3
  <2>3. \A u \in Thread \ W : error'[u] = error[u] \/ op[u] \notin MqCalls
    BY <1>4
  <2>4. W \in SUBSET Thread /\ "ERROR" # "EOK"
    BY <1>3
  <2> QED BY <2>1, <2>2, <2>3, <2>4, WaitersFail
<1>6. Queue' = <<>>
  <2>1. Linked(<<>>, head', next', Buffer) /\ Len(<<>>) = entry'
    BY <1>1 DEF Linked, NoDup
  <2> QED BY <2>1, QueueIs
<1>7. Msgs' = <<>> /\ ToSet(Queue)' = {}
  BY <1>1, <1>6 DEF Msgs, ToSet
<1>8. CallersKnown'
  BY <1>5, <1>7 DEF CallersKnown
<1>9. /\ \A u \in W : /\ CallOf[u] = "mq_recv" /\ CallOf'[u] = "done"
                      /\ WordOf'[u] = WordOf[u] /\ LimitOf'[u] = "none" /\ ResultOf'[u] = "ERROR"
      /\ \A u \in Thread \ W : /\ CallOf'[u] = CallOf[u] /\ WordOf'[u] = WordOf[u]
                               /\ LimitOf'[u] = LimitOf[u] /\ ResultOf'[u] = ResultOf[u]
  BY <1>5 DEF Seen
<1>10. W \in SUBSET {u \in Thread : CallOf[u] = "mq_recv"}
  BY <1>3, <1>9
<1>11. CallOf' = [u \in Thread |-> IF u \in W THEN "done" ELSE CallOf[u]]
  BY <1>9 DEF CallOf
<1>12. ResultOf' = [u \in Thread |-> IF u \in W THEN "ERROR" ELSE ResultOf[u]]
  <2>1. ResultOf' = [u \in Thread |-> ResultOf'[u]]
    BY DEF ResultOf
  <2> QED BY <1>9, <2>1
<1>13. LimitOf' = [u \in Thread |-> IF u \in W THEN "none" ELSE LimitOf[u]]
  BY <1>9 DEF LimitOf
<1>14. WordOf' = WordOf
  BY <1>9 DEF WordOf
<1>15. Promise!Clear
  BY <1>1, <1>7, <1>10, <1>11, <1>12, <1>13, <1>14 DEF Promise!Clear, Msgs
<1> QED BY <1>8, <1>15 DEF Promised, Promise!Next

LEMMA TimesOutSeen ==
  ASSUME IpcInv, CallersKnown, NEW t \in Thread, TimeOut(t), UNCHANGED mqVars
  PROVE  Promised
<1>1. /\ error' = [error EXCEPT ![t] = "ETIMEOUT"] /\ timer[t] = 1
      /\ UNCHANGED <<frame, life>>
  BY DEF TimeOut, Expire
<1>2. /\ error'[t] = "ETIMEOUT" /\ \A u \in Thread \ {t} : error'[u] = error[u]
  BY <1>1 DEF IpcInv, FramesOK
<1>3. /\ pc[t] = "wait" /\ op[t] \in WaitCalls /\ error[t] = "EOK" /\ timeout[t] = "finite"
  BY <1>1 DEF IpcInv, WaitersKnown
<1>4. Queue' = Queue /\ Msgs' = Msgs /\ data' = data /\ (Live' <=> Live)
  BY <1>1, MsgsKept DEF mqVars, Live
<1>5. CASE op[t] = "mq_recv"
  <2>1. /\ \A u \in Thread : Known(u)'
        /\ \A u \in Thread \ {t} : Seen(u)' = Seen(u)
        /\ \A u \in {t} : /\ Seen(u) = <<"mq_recv", NoMsg, timeout[u], "none">>
                          /\ Seen(u)' = <<"done", NoMsg, "none", "ETIMEOUT">>
    <3>1. UNCHANGED <<frame, word, data, hand>>
      BY <1>1 DEF mqVars
    <3>2. \A u \in {t} : pc[u] = "wait" /\ op[u] = "mq_recv" /\ error[u] = "EOK" /\ error'[u] = "ETIMEOUT"
      BY <1>2, <1>3, <1>5
    <3>3. \A u \in Thread \ {t} : error'[u] = error[u] \/ op[u] \notin MqCalls
      BY <1>2
    <3>4. {t} \in SUBSET Thread /\ "ETIMEOUT" # "EOK"
      OBVIOUS
    <3> QED BY <3>1, <3>2, <3>3, <3>4, WaitersFail
  <2>2. CallersKnown'
    BY <1>4, <2>1 DEF CallersKnown
  <2>3. /\ CallOf' = [CallOf EXCEPT ![t] = "done"]
        /\ WordOf' = [WordOf EXCEPT ![t] = NoMsg]
        /\ LimitOf' = [LimitOf EXCEPT ![t] = "none"]
        /\ ResultOf' = [ResultOf EXCEPT ![t] = "ETIMEOUT"]
    <3>1. Seen(t)' = <<"done", NoMsg, "none", "ETIMEOUT">>
      BY <2>1
    <3> QED BY <2>1, <3>1, OneSeen
  <2>4. CallOf[t] = "mq_recv" /\ LimitOf[t] = "finite" /\ life' = life
    BY <1>1, <1>3, <2>1 DEF Seen
  <2>5. Promise!RefuseRecv(t)
    BY <1>4, <2>3, <2>4 DEF Promise!RefuseRecv, Promise!Done, Msgs
  <2> QED BY <2>2, <2>5, CallSeen
<1>6. CASE op[t] # "mq_recv"
  <2>1. op[t] \notin MqCalls
    BY <1>3, <1>6 DEF WaitCalls, MqCalls, SendKinds
  <2>2. Abroad
    BY <1>1, <1>2, <2>1 DEF Abroad, Stays, frame, mqVars
  <2> QED BY <1>4, <2>2, Elsewhere
<1> QED BY <1>5, <1>6

LEMMA DetachesSeen ==
  ASSUME IpcInv, CallersKnown, NEW o \in Object, Detach(o), UNCHANGED mqVars
  PROVE  Promised
<1>1. Queue' = Queue /\ Msgs' = Msgs /\ data' = data
  BY MsgsKept DEF mqVars
<1>2. UNCHANGED <<frame, word, data, hand>>
  BY DEF mqVars, Detach, DetachBegin, DetachLook, DetachResume, DetachHalt
<1>3. /\ o # "mq" => (Live' <=> Live)
      /\ o = "mq" => ~Live'
      /\ o = "mq" /\ ~DetachBegin(o) => ~Live
  <2>1. life \in [Object -> {"live", "look", "resume", "gone", "halt"}] /\ "mq" \in Object
    BY DEF IpcInv, FramesOK, Object
  <2> QED BY <2>1 DEF Live, Detach, DetachBegin, DetachLook, DetachResume, DetachHalt
<1>4. ASSUME tcb' = tcb
      PROVE  /\ Abroad
             /\ \A u \in Thread : Seen(u)' = Seen(u) /\ Known(u)'
  <2>1. \A u \in Thread : Stays(u) /\ error'[u] = error[u] /\ Known(u)
    BY <1>2, <1>4 DEF Stays, frame, tcb, CallersKnown
  <2>2. \A u \in Thread : Seen(u)' = Seen(u) /\ Known(u)'
    BY <2>1, StaysSeen, StaysKnown
  <2> QED BY <2>1, <2>2 DEF Abroad
<1>5. CASE DetachBegin(o) \/ DetachLook(o) \/ DetachHalt(o)
  <2>1. tcb' = tcb
    BY <1>5 DEF DetachBegin, DetachLook, DetachHalt
  <2>2. CASE Live' <=> Live
    BY <1>1, <1>4, <2>1, <2>2, NothingSeen
  <2>3. CASE ~(Live' <=> Live)
    <3>1. (life["mq"] = "live")' = FALSE
      BY <1>3, <2>3 DEF Live
    <3>2. CallersKnown'
      BY <1>1, <1>4, <2>1 DEF CallersKnown
    <3>3. UNCHANGED <<CallOf, WordOf, LimitOf, ResultOf>>
      BY <1>4, <2>1, AllSeen
    <3>4. Promise!TakeDown
      BY <1>1, <3>1, <3>3 DEF Promise!TakeDown, Msgs
    <3> QED BY <3>2, <3>4 DEF Promised, Promise!Next
  <2> QED BY <2>2, <2>3
<1>6. CASE DetachResume(o)
  <2> DEFINE s == suspend_thread[o]
  <2>1. s # <<>> /\ error' = [error EXCEPT ![Head(s)] = "ERROR"]
    BY <1>6 DEF DetachResume
  <2>2. PICK h \in Listed(o) : h = Head(s)
    BY <1>6, LeaveFirst DEF DetachResume
  <2>3. /\ h \in Thread /\ pc[h] = "wait" /\ error[h] = "EOK"
        /\ o = "mq" => op[h] = "mq_recv"
        /\ o # "mq" => op[h] \notin MqCalls
    BY ListedWaits
  <2>4. error'[h] = "ERROR" /\ \A u \in Thread \ {h} : error'[u] = error[u]
    BY <2>1, <2>2, <2>3 DEF IpcInv, FramesOK
  <2>5. CASE o # "mq"
    <3>1. Abroad
      BY <1>2, <2>3, <2>4, <2>5 DEF Abroad, Stays, frame
    <3> QED BY <1>3, <2>5, <3>1, Elsewhere
  <2>6. CASE o = "mq"
    <3>1. /\ \A u \in Thread : Known(u)'
          /\ \A u \in Thread \ {h} : Seen(u)' = Seen(u)
          /\ \A u \in {h} : /\ Seen(u) = <<"mq_recv", NoMsg, timeout[u], "none">>
                            /\ Seen(u)' = <<"done", NoMsg, "none", "ERROR">>
      <4>1. \A u \in {h} : pc[u] = "wait" /\ op[u] = "mq_recv" /\ error[u] = "EOK" /\ error'[u] = "ERROR"
        BY <2>3, <2>4, <2>6
      <4>2. \A u \in Thread \ {h} : error'[u] = error[u] \/ op[u] \notin MqCalls
        BY <2>4
      <4>3. {h} \in SUBSET Thread /\ "ERROR" # "EOK"
        BY <2>3
      <4> QED BY <1>2, <4>1, <4>2, <4>3, WaitersFail
    <3>2. CallersKnown'
      BY <1>1, <3>1 DEF CallersKnown
    <3>3. /\ CallOf' = [CallOf EXCEPT ![h] = "done"]
          /\ WordOf' = [WordOf EXCEPT ![h] = NoMsg]
          /\ LimitOf' = [LimitOf EXCEPT ![h] = "none"]
          /\ ResultOf' = [ResultOf EXCEPT ![h] = "ERROR"]
      <4>1. Seen(h)' = <<"done", NoMsg, "none", "ERROR">>
        BY <3>1
      <4> QED BY <2>3, <3>1, <4>1, OneSeen
    <3>4. CallOf[h] = "mq_recv"
      BY <3>1 DEF Seen
    <3>5. ~DetachBegin(o)
      BY <1>6 DEF DetachBegin, DetachResume
    <3>6. (life["mq"] = "live")' = FALSE /\ (life["mq"] = "live") = FALSE
      BY <1>3, <2>6, <3>5 DEF Live
    <3>7. Promise!Fail(h)
      BY <1>1, <3>3, <3>4, <3>6 DEF Promise!Fail, Promise!Done, Msgs
    <3> QED BY <2>3, <3>2, <3>7, CallSeen
  <2> QED BY <2>5, <2>6
<1> QED BY <1>5, <1>6 DEF Detach

\* A thread that calls another object goes on in its call.
LEMMA CallsElsewhere ==
  ASSUME IpcInv, CallersKnown, NEW t \in Thread, pc[t] \notin Busy, op[t] \notin MqCalls,
         NEW call \in Calls \ MqCalls,
         \/ \E result : Finish(t, call, result)
         \/ \E o, limit : Suspend(t, o, call, limit),
         error' = error \/ \E e : error' = [error EXCEPT ![t] = e],
         UNCHANGED <<mqVars, life>>
  PROVE  Promised
<1>1. /\ pc'[t] \in {"wait", "return"} /\ op'[t] = call
      /\ \A u \in Thread \ {t} :
           pc'[u] = pc[u] /\ op'[u] = op[u] /\ timeout'[u] = timeout[u] /\ ret'[u] = ret[u]
  BY DEF Finish, Suspend, Enlist, IpcInv, FramesOK
<1>2. \A u \in Thread \ {t} : error'[u] = error[u]
  BY DEF IpcInv, FramesOK
<1>3. UNCHANGED <<word, data, hand>> /\ (Live' <=> Live)
  BY DEF mqVars, Live
<1>4. Away(t)
  BY <1>1, <1>3 DEF Away, Busy
<1>5. \A u \in Thread \ {t} : Stays(u) /\ error'[u] = error[u]
  BY <1>1, <1>2, <1>3 DEF Stays
<1>6. Abroad
  BY <1>4, <1>5 DEF Abroad
<1> QED BY <1>3, <1>6, Elsewhere

\* A thread that enters a call, or goes on in one of another object.
LEMMA CallerElsewhere ==
  ASSUME CallersKnown, NEW t \in Thread
  PROVE  /\ \A call, o : Enters(t, call, o) => pc[t] \notin Busy /\ op[t] \notin MqCalls
         /\ \A call : Woken(t, call) /\ call \notin MqCalls => pc[t] \notin Busy /\ op[t] \notin MqCalls
BY DEF Enters, Woken, Busy, CallersKnown, Known, MqCalls, SendKinds

\* The threads keep their places, and only those that wait for another object
\* get an error.
LEMMA WaitersElsewhere ==
  ASSUME IpcInv, CallersKnown, NEW o \in Object \ {"mq"},
         UNCHANGED <<frame, mqVars>>, Live' <=> Live,
         \A u \in Thread \ Listed(o) : error'[u] = error[u]
  PROVE  Promised
<1>1. \A u \in Thread : Stays(u)
  BY DEF Stays, frame, mqVars
<1>2. \A u \in Thread : error'[u] = error[u] \/ op[u] \notin MqCalls
  BY ListedWaits
<1>3. Abroad
  BY <1>1, <1>2 DEF Abroad
<1> QED BY <1>3, Elsewhere

LEMMA SemElsewhere ==
  ASSUME IpcInv, CallersKnown, SemStep, UNCHANGED mqVars
  PROVE  Promised
<1>1. {"take", "release"} \subseteq Calls \ MqCalls /\ "sem" \in Object \ {"mq"}
  BY DEF Calls, MqCalls, SendKinds, Object
<1>2. CASE SemReset
  <2>1. UNCHANGED <<frame, life>> /\ \A u \in Thread \ Listed("sem") : error'[u] = error[u]
    BY <1>2 DEF SemReset, ResetList, Listed
  <2>2. Live' <=> Live
    BY <2>1 DEF Live
  <2> QED BY <1>1, <2>1, <2>2, WaitersElsewhere
<1>3. ASSUME NEW t \in Thread, SemThread(t) PROVE Promised
  <2>1. CASE Release(t)
    <3>1. UNCHANGED <<frame, life, error>>
      BY <2>1 DEF Release
    <3>2. Live' <=> Live
      BY <3>1 DEF Live
    <3> QED BY <1>1, <3>1, <3>2, WaitersElsewhere
  <2>2. CASE TakeNow(t) \/ TakeRefused(t) \/ TakeGranted(t)
    <3>1. (\E result : Finish(t, "take", result)) /\ error' = error /\ life' = life
      BY <2>2 DEF TakeNow, TakeRefused, TakeGranted, tcb
    <3>2. pc[t] \notin Busy /\ op[t] \notin MqCalls
      BY <1>1, <2>2, CallerElsewhere DEF TakeNow, TakeRefused, TakeGranted
    <3> QED BY <1>1, <3>1, <3>2, CallsElsewhere
  <2>3. CASE TakeWait(t)
    <3>1. PICK limit : Suspend(t, "sem", "take", limit) /\ life' = life
      BY <2>3 DEF TakeWait
    <3>2. error' = [error EXCEPT ![t] = "EOK"]
      BY <3>1 DEF Suspend
    <3>3. pc[t] \notin Busy /\ op[t] \notin MqCalls
      BY <2>3, CallerElsewhere DEF TakeWait
    <3> QED BY <1>1, <3>1, <3>2, <3>3, CallsElsewhere
  <2> QED BY <1>3, <2>1, <2>2, <2>3 DEF SemThread
<1> QED BY <1>2, <1>3 DEF SemStep

LEMMA EventElsewhere ==
  ASSUME IpcInv, CallersKnown, EventStep, UNCHANGED mqVars
  PROVE  Promised
<1>1. {"event_recv", "event_send"} \subseteq Calls \ MqCalls /\ "event" \in Object \ {"mq"}
  BY DEF Calls, MqCalls, SendKinds, Object
<1>2. CASE EventReset
  <2>1. UNCHANGED <<frame, life>> /\ \A u \in Thread \ Listed("event") : error'[u] = error[u]
    BY <1>2 DEF EventReset, ResetList, Listed
  <2>2. Live' <=> Live
    BY <2>1 DEF Live
  <2> QED BY <1>1, <2>1, <2>2, WaitersElsewhere
<1>3. ASSUME NEW t \in Thread, EventThread(t) PROVE Promised
  <2>1. CASE EventSend(t)
    <3>1. UNCHANGED <<frame, life, error>>
      BY <2>1 DEF EventSend, SendTo
    <3>2. Live' <=> Live
      BY <3>1 DEF Live
    <3> QED BY <1>1, <3>1, <3>2, WaitersElsewhere
  <2>2. CASE EventRecvNothing(t) \/ EventRecvNow(t) \/ EventRecvRefused(t) \/ EventRecvWoken(t)
             \/ EventSendNothing(t)
    <3>1. \E call \in {"event_recv", "event_send"} : \E result : Finish(t, call, result)
      BY <2>2 DEF EventRecvNothing, EventRecvNow, EventRecvRefused, EventRecvWoken,
                  EventSendNothing
    <3>2. life' = life /\ (error' = error \/ \E e : error' = [error EXCEPT ![t] = e])
      BY <2>2 DEF EventRecvNothing, EventRecvNow, EventRecvRefused, EventRecvWoken,
                  EventSendNothing, tcb
    <3>3. pc[t] \notin Busy /\ op[t] \notin MqCalls
      BY <1>1, <2>2, CallerElsewhere
         DEF EventRecvNothing, EventRecvNow, EventRecvRefused, EventRecvWoken, EventSendNothing
    <3> QED BY <1>1, <3>1, <3>2, <3>3, CallsElsewhere
  <2>3. CASE EventRecvWait(t)
    <3>1. PICK limit : Suspend(t, "event", "event_recv", limit) /\ life' = life
      BY <2>3 DEF EventRecvWait
    <3>2. error' = [error EXCEPT ![t] = "EOK"]
      BY <3>1 DEF Suspend
    <3>3. pc[t] \notin Busy /\ op[t] \notin MqCalls
      BY <2>3, CallerElsewhere DEF EventRecvWait
    <3> QED BY <1>1, <3>1, <3>2, <3>3, CallsElsewhere
  <2> QED BY <1>3, <2>1, <2>2, <2>3 DEF EventThread
<1> QED BY <1>2, <1>3 DEF EventStep

LEMMA MpElsewhere ==
  ASSUME IpcInv, CallersKnown, MpStep, UNCHANGED mqVars
  PROVE  Promised
<1>1. "mp_alloc" \in Calls \ MqCalls /\ "mempool" \in Object \ {"mq"}
  BY DEF Calls, MqCalls, SendKinds, Object
<1>2. CASE MpDetach
  BY <1>1, <1>2, DetachesSeen DEF MpDetach
<1>3. ASSUME NEW t \in Thread, MpThread(t) PROVE Promised
  <2>1. CASE MpFree(t)
    <3>1. frame' = frame
      BY <2>1 DEF MpFree, MpFreeQuiet, MpFreeWakes, ipcVars
    <3>2. Live' <=> Live
      <4>1. life' = life \/ life' = [life EXCEPT !["mempool"] = "halt"]
        BY <2>1 DEF MpFree, MpFreeQuiet, MpFreeWakes, ipcVars
      <4> QED BY <4>1 DEF Live, IpcInv, FramesOK, Object
    <3>3. error' = error
      <4>1. \/ error' = error
            \/ /\ suspend_thread["mempool"] # <<>>
               /\ error' = [error EXCEPT ![Head(suspend_thread["mempool"])] = "EOK"]
        BY <2>1 DEF MpFree, MpFreeQuiet, MpFreeWakes, ipcVars, tcb
      <4> QED BY <1>1, <4>1, HeadUnharmed
    <3> QED BY <1>1, <3>1, <3>2, <3>3, WaitersElsewhere
  <2>2. CASE MpAlloc(t) \/ MpRefused(t)
    <3>1. (\E result : Finish(t, "mp_alloc", result)) /\ error' = error /\ life' = life
      BY <2>2 DEF MpAlloc, Lend, MpRefused, tcb
    <3>2. pc[t] \notin Busy /\ op[t] \notin MqCalls
      BY <1>1, <2>2, CallerElsewhere DEF MpAlloc, Lend, MpRefused, MpLooks
    <3> QED BY <1>1, <3>1, <3>2, CallsElsewhere
  <2>3. CASE MpWait(t)
    <3>1. PICK left : Suspend(t, "mempool", "mp_alloc", left) /\ life' = life
      BY <2>3 DEF MpWait
    <3>2. error' = [error EXCEPT ![t] = "EOK"]
      BY <3>1 DEF Suspend
    <3>3. pc[t] \notin Busy /\ op[t] \notin MqCalls
      BY <1>1, <2>3, CallerElsewhere DEF MpWait, MpLooks
    <3> QED BY <1>1, <3>1, <3>2, <3>3, CallsElsewhere
  <2> QED BY <1>3, <2>1, <2>2, <2>3 DEF MpThread
<1> QED BY <1>2, <1>3 DEF MpStep

\* A waiter that runs again with an error: the promise has been kept before.
LEMMA ErrorSeen ==
  ASSUME IpcInv, CallersKnown, NEW t \in Thread, WakeWithError(t), UNCHANGED mqVars
  PROVE  Promised
<1>1. /\ pc[t] = "wait" /\ error[t] # "EOK" /\ Finish(t, op[t], error[t])
      /\ UNCHANGED <<error, life>>
  BY DEF WakeWithError, tcb
<1>2. Known(t) /\ word[t] = NoMsg
  BY <1>1 DEF CallersKnown, Known
<1>3. UNCHANGED <<word, data, hand>> /\ (Live' <=> Live)
  BY <1>1 DEF mqVars, Live
<1>4. CASE op[t] \in MqCalls
  <2>1. /\ \A u \in Thread : Known(u)'
        /\ \A u \in Thread \ {t} : Seen(u)' = Seen(u)
        /\ Seen(t)' = <<"done", word'[t], "none", error[t]>>
    BY <1>1, <1>3, <1>4, CallEnds
  <2>2. Seen(t) = <<"done", word[t], "none", error[t]>>
    <3>1. CallOf[t] = "done"
      BY <1>1, <1>4, OverOnly DEF Over
    <3>2. WordOf[t] = word[t] /\ LimitOf[t] = "none" /\ ResultOf[t] = error[t]
      BY <1>1, <3>1, SeenPoints
    <3> QED BY <3>1, <3>2 DEF Seen
  <2>3. \A u \in Thread : Seen(u)' = Seen(u) /\ Known(u)'
    BY <1>3, <2>1, <2>2
  <2>4. Queue' = Queue /\ Msgs' = Msgs
    BY MsgsKept DEF mqVars
  <2> QED BY <1>3, <2>3, <2>4, NothingSeen
<1>5. CASE op[t] \notin MqCalls
  <2>1. /\ pc'[t] = "return" /\ op'[t] = op[t]
        /\ \A u \in Thread \ {t} :
             pc'[u] = pc[u] /\ op'[u] = op[u] /\ timeout'[u] = timeout[u] /\ ret'[u] = ret[u]
    BY <1>1 DEF Finish, IpcInv, FramesOK
  <2>2. Away(t)
    BY <1>1, <1>3, <1>5, <2>1 DEF Away, Busy
  <2>3. \A u \in Thread \ {t} : Stays(u) /\ error'[u] = error[u]
    BY <1>1, <1>3, <2>1 DEF Stays
  <2>4. Abroad
    BY <2>2, <2>3 DEF Abroad
  <2> QED BY <1>3, <2>4, Elsewhere
<1> QED BY <1>4, <1>5

\* A return.
LEMMA ReturnSeen ==
  ASSUME IpcInv, StoreInv, CallersKnown, NEW t \in Thread, Return(t), MqForget(t)
  PROVE  Promised
<1>1. /\ pc[t] = "return" /\ pc'[t] = "idle" /\ op'[t] = "none" /\ ret'[t] = "none"
      /\ UNCHANGED <<error, life>>
      /\ \A u \in Thread : timeout'[u] = timeout[u]
      /\ \A u \in Thread \ {t} : pc'[u] = pc[u] /\ op'[u] = op[u] /\ ret'[u] = ret[u]
  BY DEF Return, tcb, IpcInv, FramesOK
<1>2. /\ word'[t] = NoMsg /\ \A u \in Thread \ {t} : word'[u] = word[u]
      /\ UNCHANGED <<head, tail, free, entry, next, data, hand>>
  BY DEF MqForget, StoreInv, CellsOK
<1>3. \A u \in Thread \ {t} : Stays(u) /\ error'[u] = error[u] /\ Known(u)
  BY <1>1, <1>2 DEF Stays, CallersKnown
<1>4. \A u \in Thread \ {t} : Seen(u)' = Seen(u) /\ Known(u)'
  BY <1>3, StaysSeen, StaysKnown
<1>5. Queue' = Queue /\ Msgs' = Msgs /\ data' = data /\ (Live' <=> Live)
  BY <1>1, <1>2, MsgsKept DEF Live
<1>6. Known(t)'
  BY <1>1, <1>2 DEF Known
<1>7. CallersKnown'
  BY <1>4, <1>5, <1>6 DEF CallersKnown
<1>8. Seen(t)' = <<"none", NoMsg, "none", "none">>
  <2>1. CallOf'[t] = "none"
    BY <1>1, SeenPointsNext DEF MqCalls, SendKinds
  <2>2. LimitOf'[t] = "none" /\ ResultOf'[t] = "none" /\ WordOf'[t] = NoMsg
    BY <1>1, <1>2, <2>1, SeenPointsNext
  <2> QED BY <2>1, <2>2 DEF Seen
<1>9. CASE op[t] \in MqCalls
  <2>1. CallOf[t] = "done"
    BY <1>1, <1>9, OverOnly DEF Over
  <2>2. LimitOf[t] = "none"
    BY <2>1, SeenPoints
  <2>3. /\ CallOf' = [CallOf EXCEPT ![t] = "none"]
        /\ WordOf' = [WordOf EXCEPT ![t] = NoMsg]
        /\ LimitOf' = [LimitOf EXCEPT ![t] = "none"]
        /\ ResultOf' = [ResultOf EXCEPT ![t] = "none"]
    BY <1>4, <1>8, OneSeen
  <2>4. LimitOf' = LimitOf
    BY <2>2, <2>3 DEF LimitOf
  <2>5. (life["mq"] = "live")' = (life["mq"] = "live")
    BY <1>1
  <2>6. Promise!End(t)
    BY <1>5, <2>1, <2>3, <2>4, <2>5 DEF Promise!End, Msgs
  <2> QED BY <1>7, <2>6, CallSeen
<1>10. CASE op[t] \notin MqCalls
  <2>1. word[t] = NoMsg
    BY <1>10 DEF CallersKnown, Known
  <2>2. Away(t)
    BY <1>1, <1>2, <1>10, <2>1 DEF Away, Busy, MqCalls, SendKinds
  <2>3. Seen(t)' = Seen(t)
    BY <2>2, AwaySeen DEF CallersKnown
  <2>4. \A u \in Thread : Seen(u)' = Seen(u) /\ Known(u)'
    BY <1>4, <1>6, <2>3
  <2> QED BY <1>5, <2>4, NothingSeen
<1> QED BY <1>9, <1>10

LEMMA CommonSeen ==
  ASSUME IpcInv, StoreInv, CallersKnown, Common
  PROVE  Promised
<1>1. CASE \E t \in Thread : Return(t) /\ MqForget(t)
  BY <1>1, ReturnSeen
<1>2. CASE (\E t \in Thread : WakeWithError(t) \/ TimeOut(t)) /\ UNCHANGED mqVars
  BY <1>2, ErrorSeen, TimesOutSeen
<1>3. CASE (\E o \in Object : Detach(o)) /\ UNCHANGED mqVars
  BY <1>3, DetachesSeen
<1> QED BY <1>1, <1>2, <1>3 DEF Common

LEMMA MqSeen ==
  ASSUME IpcInv, StoreInv, CallersKnown, MqStep
  PROVE  Promised
BY ResetsSeen, RefusesSend, BeginsSend, WaitsSeen, TakesSeen, FreesSeen, RefusesRecv, DeliversSeen
   DEF MqStep, MqThread

LEMMA StepPromised ==
  ASSUME IInv, StoreInv, CallersKnown, [Next]_vars
  PROVE  Promised
<1>0. IpcInv
  BY DEF IInv
<1>1. CASE UNCHANGED vars
  <2>1. UNCHANGED <<frame, mqVars, error, life>> /\ "sem" \in Object \ {"mq"}
    BY <1>1 DEF vars, ipcVars, tcb, Object
  <2>2. Live' <=> Live
    BY <2>1 DEF Live
  <2> QED BY <1>0, <2>1, <2>2, WaitersElsewhere
<1>2. CASE Next
  BY <1>0, <1>2, CommonSeen, MqSeen, SemElsewhere, EventElsewhere, MpElsewhere DEF Next
<1> QED BY <1>1, <1>2

LEMMA InitPromised ==
  ASSUME Init
  PROVE  CallersKnown /\ Promise!Init
<1>1. /\ entry = 0 /\ life = [o \in Object |-> "live"]
      /\ pc = [t \in Thread |-> "idle"] /\ op = [t \in Thread |-> "none"]
      /\ ret = [t \in Thread |-> "none"] /\ word = [t \in Thread |-> NoMsg]
  BY DEF Init, IpcInit, MqInit
<1>2. \A u \in Thread : Known(u) /\ pc[u] = "idle"
  BY <1>1 DEF Known
<1>3. \A u \in Thread : Seen(u) = <<"none", NoMsg, "none", "none">>
  BY <1>2, IdleSeen
<1>4. Queue = <<>> /\ ToSet(Queue) = {} /\ Msgs = <<>>
  <2>1. Linked(<<>>, head, next, Buffer) /\ Len(<<>>) = entry
    BY <1>1 DEF Linked, NoDup, Init, MqInit, Null
  <2>2. Queue = <<>>
    BY <2>1, QueueIs
  <2> QED BY <1>1, <2>2 DEF ToSet, Msgs
<1>5. CallersKnown
  BY <1>2, <1>4 DEF CallersKnown
<1>6. \A u \in Thread : CallOf[u] = "none" /\ WordOf[u] = NoMsg /\ LimitOf[u] = "none"
                        /\ ResultOf[u] = "none"
  BY <1>3 DEF Seen
<1>7. /\ CallOf = [t \in Thread |-> "none"] /\ WordOf = [t \in Thread |-> NoMsg]
      /\ LimitOf = [t \in Thread |-> "none"]
  BY <1>6 DEF CallOf, WordOf, LimitOf
<1>8. ResultOf = [t \in Thread |-> "none"]
  <2>1. ResultOf = [t \in Thread |-> ResultOf[t]]
    BY DEF ResultOf
  <2> QED BY <1>6, <2>1
<1>9. (life["mq"] = "live") = TRUE
  BY <1>1 DEF Object
<1> QED BY <1>4, <1>5, <1>7, <1>8, <1>9 DEF Promise!Init, Msgs

\* rt_mq_send, rt_mq_urgent, rt_mq_recv, the reset and the detachment keep the
\* promise of a bounded queue with urgent messages, although a message is copied
\* between two sections: no message is lost, doubled or mixed up, and each call
\* takes effect at one moment.
THEOREM IpcImplementsMsgQueue == Spec => ImplementsMsgQueue
<1>1. Init => CallersKnown /\ Promise!Init
  BY InitPromised
<1>2. IInv /\ StoreInv /\ CallersKnown /\ [Next]_vars => Promised
  BY StepPromised
<1>3. IInv /\ StoreInv /\ CallersKnown /\ [Next]_vars => CallersKnown' /\ [Promise!Next]_(Promise!vars)
  BY <1>2 DEF Promised
<1>4. Spec => Promise!Init /\ [][Promise!Next]_(Promise!vars)
  BY <1>1, <1>3, IpcInvariance, StoreInvariance, PTL DEF Spec
<1> QED BY <1>4 DEF ImplementsMsgQueue, Promise!Spec
=============================================================================

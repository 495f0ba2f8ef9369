---------------------------- MODULE MutexProofs ----------------------------
(***************************************************************************)
(* Proofs about Mutex.                                                     *)
(***************************************************************************)
EXTENDS Mutex, ListFacts

\* The threads asleep in a take of m.
Sleeping(m) ==
  {t \in Thread : pc[t] = "wait" /\ stat[t] = "suspend" /\ want[t] = m}

\* The list of a mutex holds the threads that sleep for it, each of them once.
WaitersListed ==
  \A m \in Mutexes :
    NoDup(suspend_thread[m]) /\ ToSet(suspend_thread[m]) = Sleeping(m)

\* Only a take sleeps, without an error, of a mutex the thread has not.
SleepersTake ==
  \A t \in Thread :
    /\ stat[t] = "suspend" => pc[t] = "wait" /\ error[t] = "EOK"
    /\ timer[t] = 1 => stat[t] = "suspend"
    /\ pc[t] = "wait" => taken[t][want[t]] = 0

\* A mutex is free or owned, and nobody waits for a free one.
FreeOrOwned ==
  \A m \in Mutexes :
    \/ value[m] = 1 /\ owner[m] = Nobody /\ hold[m] = 0 /\ suspend_thread[m] = <<>>
    \/ value[m] = 0 /\ owner[m] \in Thread /\ original_priority[m] \in 0 .. 254

MutexInv ==
  TypeOK /\ WaitersListed /\ SleepersTake /\ FreeOrOwned /\ TakenMeansOwned

\* The result of a wake-up that counts as a take, as a number.
Pending(t, m) ==
  IF pc[t] = "wait" /\ stat[t] = "ready" /\ error[t] = "EOK" /\ want[t] = m
  THEN 1 ELSE 0

LEMMA MutexInit == Init => MutexInv
<1> SUFFICES ASSUME Init PROVE MutexInv
  OBVIOUS
<1> USE MutexAssumption DEF Init
<1>1. TypeOK
  <2>1. \A m \in Mutexes : <<>> \in Seq(Thread)
    OBVIOUS
  <2>2. suspend_thread \in [Mutexes -> Seq(Thread)]
    BY <2>1
  <2>3. current_priority \in [Thread -> 0 .. 254]
    OBVIOUS
  <2>4. hold \in [Mutexes -> 0 .. HoldWidth - 1]
    BY 0 \in 0 .. HoldWidth - 1
  <2>5. taken \in [Thread -> [Mutexes -> 0 .. Depth]]
    OBVIOUS
  <2> QED BY <2>2, <2>3, <2>4, <2>5 DEF TypeOK, Error, NoPriority
<1>2. WaitersListed
  BY DEF WaitersListed, Sleeping, NoDup, ToSet
<1>3. SleepersTake
  BY DEF SleepersTake
<1>4. FreeOrOwned
  BY DEF FreeOrOwned
<1>5. TakenMeansOwned
  BY DEF TakenMeansOwned, Holds
<1> QED BY <1>1, <1>2, <1>3, <1>4, <1>5 DEF MutexInv

\* What the steps that leave the lists and the sleepers alone keep.
LEMMA ListsKept ==
  ASSUME MutexInv, NEW t \in Thread,
         UNCHANGED <<suspend_thread, stat, timer, pc, want>>
  PROVE  WaitersListed'
BY DEF MutexInv, WaitersListed, Sleeping

-----------------------------------------------------------------------------
(* rt_mutex_take.                                                          *)

LEMMA TakeAgainKeeps ==
  ASSUME MutexInv, NEW t \in Thread, NEW m \in Mutexes, TakeAgain(t, m)
  PROVE  MutexInv'
<1> USE DEF MutexInv
<1>a. /\ Calls(t) /\ owner[m] = t /\ taken[t][m] < Depth
      /\ UNCHANGED <<value, owner, original_priority, suspend_thread,
                     current_priority, stat, timer, pc, want>>
  BY DEF TakeAgain
<1>b. pc[t] = "program" /\ stat[t] = "ready"
  BY <1>a DEF Calls
<1>0. /\ taken[t][m] \in 0 .. Depth - 1 /\ hold[m] = taken[t][m]
      /\ hold[m] + 1 \in 0 .. HoldWidth - 1
      /\ (hold[m] + 1) % HoldWidth = hold[m] + 1
  <2>1. taken[t][m] \in 0 .. Depth
    BY DEF TypeOK
  <2>2. hold[m] = Holds(t, m)
    BY <1>a DEF TakenMeansOwned
  <2>3. hold[m] = taken[t][m]
    BY <1>b, <2>1, <2>2 DEF Holds
  <2> QED BY <1>a, <2>1, <2>3, MutexAssumption
<1>1. /\ hold' = [hold EXCEPT ![m] = hold[m] + 1]
      /\ taken' = [taken EXCEPT ![t][m] = taken[t][m] + 1]
      /\ error' = [error EXCEPT ![t] = "EOK"]
  BY <1>0 DEF TakeAgain, Plus, Returns
<1>2. TypeOK'
  <2>1. taken' \in [Thread -> [Mutexes -> 0 .. Depth]]
    BY <1>0, <1>1, MutexAssumption DEF TypeOK
  <2>2. error' \in [Thread -> Error]
    BY <1>1 DEF TypeOK, Error
  <2>3. hold' \in [Mutexes -> 0 .. HoldWidth - 1]
    BY <1>0, <1>1 DEF TypeOK
  <2> QED BY <1>a, <2>1, <2>2, <2>3 DEF TypeOK
<1>3. WaitersListed'
  BY <1>a, ListsKept
<1>4. SleepersTake'
  BY <1>a, <1>b, <1>1 DEF SleepersTake, TypeOK
<1>5. FreeOrOwned'
  BY <1>a, <1>1, MutexAssumption DEF FreeOrOwned, TypeOK
<1>6. TakenMeansOwned'
  <2> SUFFICES ASSUME NEW u \in Thread, NEW n \in Mutexes
               PROVE  IF owner'[n] = u THEN hold'[n] = Holds(u, n)' /\ Holds(u, n)' > 0
                                       ELSE Holds(u, n)' = 0
    BY DEF TakenMeansOwned
  <2>1. /\ hold[n] \in Nat /\ taken[u][n] \in Nat
        /\ IF owner[n] = u THEN hold[n] = Holds(u, n) /\ Holds(u, n) > 0
                           ELSE Holds(u, n) = 0
    BY DEF TypeOK, TakenMeansOwned
  <2>2. CASE u = t /\ n = m
    <3>1. hold'[n] = hold[m] + 1 /\ taken'[u][n] = taken[t][m] + 1
      BY <2>2, <1>1 DEF TypeOK
    <3>2. Holds(u, n)' = taken[t][m] + 1
      BY <1>a, <1>b, <2>2, <1>0, <3>1 DEF Holds
    <3> QED BY <1>a, <2>2, <3>1, <3>2, <1>0
  <2>3. CASE ~(u = t /\ n = m)
    <3>1. taken'[u][n] = taken[u][n] /\ (owner[n] = u => hold'[n] = hold[n])
      BY <2>3, <1>a, <1>1 DEF TypeOK
    <3>2. Holds(u, n)' = Holds(u, n)
      BY <1>a, <1>b, <3>1, <1>1 DEF Holds, TypeOK
    <3> QED BY <1>a, <3>1, <3>2, <2>1
  <2> QED BY <2>2, <2>3
<1> QED BY <1>2, <1>3, <1>4, <1>5, <1>6

LEMMA TakeFreeKeeps ==
  ASSUME MutexInv, NEW t \in Thread, NEW m \in Mutexes, TakeFree(t, m)
  PROVE  MutexInv'
<1> USE DEF MutexInv
<1>a. /\ Calls(t) /\ owner[m] # t /\ value[m] > 0
      /\ UNCHANGED <<suspend_thread, current_priority, stat, timer, pc, want>>
  BY DEF TakeFree
<1>b. pc[t] = "program" /\ stat[t] = "ready"
  BY <1>a DEF Calls
<1>0. /\ value[m] = 1 /\ owner[m] = Nobody /\ hold[m] = 0 /\ suspend_thread[m] = <<>>
      /\ taken[t][m] = 0 /\ \A u \in Thread : Holds(u, m) = 0
  <2>1. value[m] = 1 /\ owner[m] = Nobody /\ hold[m] = 0 /\ suspend_thread[m] = <<>>
    BY <1>a DEF FreeOrOwned, TypeOK
  <2>2. \A u \in Thread : Holds(u, m) = 0
    BY <2>1, MutexAssumption DEF TakenMeansOwned
  <2>3. taken[t][m] \in Nat /\ Holds(t, m) = taken[t][m]
    BY <1>b DEF Holds, TypeOK
  <2> QED BY <2>1, <2>2, <2>3
<1>1. /\ hold' = [hold EXCEPT ![m] = 1]
      /\ taken' = [taken EXCEPT ![t][m] = 1]
      /\ error' = [error EXCEPT ![t] = "EOK"]
      /\ value' = [value EXCEPT ![m] = 0]
      /\ owner' = [owner EXCEPT ![m] = t]
      /\ original_priority' = [original_priority EXCEPT ![m] = current_priority[t]]
  <2>1. 1 % HoldWidth = 1
    BY MutexAssumption
  <2>2. hold[m] + 1 = 1 /\ value[m] - 1 = 0 /\ taken[t][m] + 1 = 1
    BY <1>0
  <2>3. hold' = [hold EXCEPT ![m] = 1]
    BY <2>1, <2>2 DEF TakeFree, Plus
  <2>4. taken' = [taken EXCEPT ![t][m] = 1] /\ error' = [error EXCEPT ![t] = "EOK"]
    BY <2>2 DEF TakeFree, Returns
  <2>5. value' = [value EXCEPT ![m] = 0]
    BY <2>2 DEF TakeFree
  <2> QED BY <2>3, <2>4, <2>5 DEF TakeFree
<1>2. TypeOK'
  <2>1. current_priority[t] \in 0 .. NoPriority
    BY DEF TypeOK, NoPriority
  <2>2. 1 \in 0 .. Depth /\ 1 \in 0 .. HoldWidth - 1
    BY MutexAssumption
  <2>3. taken' \in [Thread -> [Mutexes -> 0 .. Depth]]
    BY <1>1, <2>2 DEF TypeOK
  <2>4. error' \in [Thread -> Error]
    BY <1>1 DEF TypeOK, Error
  <2> QED BY <1>a, <1>1, <2>1, <2>2, <2>3, <2>4 DEF TypeOK
<1>3. WaitersListed'
  BY <1>a, ListsKept
<1>4. SleepersTake'
  BY <1>a, <1>b, <1>1 DEF SleepersTake, TypeOK
<1>5. FreeOrOwned'
  BY <1>a, <1>1 DEF FreeOrOwned, TypeOK
<1>6. TakenMeansOwned'
  <2> SUFFICES ASSUME NEW u \in Thread, NEW n \in Mutexes
               PROVE  IF owner'[n] = u THEN hold'[n] = Holds(u, n)' /\ Holds(u, n)' > 0
                                       ELSE Holds(u, n)' = 0
    BY DEF TakenMeansOwned
  <2>1. /\ hold[n] \in Nat /\ taken[u][n] \in Nat
        /\ IF owner[n] = u THEN hold[n] = Holds(u, n) /\ Holds(u, n) > 0
                           ELSE Holds(u, n) = 0
    BY DEF TypeOK, TakenMeansOwned
  <2>2. CASE u = t /\ n = m
    <3>1. hold'[n] = 1 /\ taken'[u][n] = 1 /\ owner'[n] = u
      <4>1. hold \in [Mutexes -> 0 .. HoldWidth - 1] /\ owner \in [Mutexes -> Thread \cup {Nobody}]
            /\ taken \in [Thread -> [Mutexes -> 0 .. Depth]]
        BY DEF TypeOK
      <4> QED BY <4>1, <2>2, <1>1
    <3>2. Holds(u, n)' = 1
      BY <1>a, <1>b, <2>2, <3>1 DEF Holds
    <3> QED BY <3>1, <3>2
  <2>3. CASE ~(u = t /\ n = m)
    <3>1. /\ taken'[u][n] = taken[u][n]
          /\ n # m => hold'[n] = hold[n] /\ owner'[n] = owner[n]
          /\ n = m => owner'[n] = t /\ u # t
      BY <2>3, <1>1 DEF TypeOK
    <3>2. Holds(u, n)' = Holds(u, n)
      BY <1>a, <1>b, <3>1, <1>1 DEF Holds, TypeOK
    <3> QED BY <3>1, <3>2, <2>1, <1>0
  <2> QED BY <2>2, <2>3
<1> QED BY <1>2, <1>3, <1>4, <1>5, <1>6

\* A refused call changes the error of a running thread, which says nothing.
LEMMA RefusedKeeps ==
  ASSUME MutexInv, NEW t \in Thread, NEW m \in Mutexes,
         TakeRefused(t, m) \/ ReleaseRefused(t, m)
  PROVE  MutexInv'
<1> USE DEF MutexInv, TakeRefused, ReleaseRefused, Calls, Returns, frame, mutexes
<1>1. /\ \E e \in Error : error' = [error EXCEPT ![t] = e]
      /\ UNCHANGED <<mutexes, current_priority, stat, timer, frame>>
      /\ pc[t] = "program" /\ stat[t] = "ready"
  BY DEF Error, TypeOK
<1>2. TypeOK'
  <2>1. error' \in [Thread -> Error]
    BY <1>1 DEF TypeOK
  <2> QED BY <1>1, <2>1 DEF TypeOK
<1>3. WaitersListed'
  BY <1>1, ListsKept
<1>4. SleepersTake'
  BY <1>1 DEF SleepersTake, TypeOK
<1>5. FreeOrOwned'
  BY <1>1 DEF FreeOrOwned
<1>6. \A u \in Thread, n \in Mutexes : Holds(u, n)' = Holds(u, n)
  BY <1>1 DEF Holds, TypeOK
<1>7. TakenMeansOwned'
  BY <1>1, <1>6 DEF TakenMeansOwned
<1> QED BY <1>2, <1>3, <1>4, <1>5, <1>7

LEMMA TakeWaitKeeps ==
  ASSUME MutexInv, NEW t \in Thread, NEW m \in Mutexes, TakeWait(t, m)
  PROVE  MutexInv'
<1> USE DEF MutexInv
<1>a. /\ Calls(t) /\ owner[m] # t /\ value[m] = 0
      /\ stat' = [stat EXCEPT ![t] = "suspend"]
      /\ error' = [error EXCEPT ![t] = "EOK"]
      /\ \E on \in {0, 1} : timer' = [timer EXCEPT ![t] = on]
      /\ pc' = [pc EXCEPT ![t] = "wait"]
      /\ want' = [want EXCEPT ![t] = m]
      /\ UNCHANGED <<value, owner, original_priority, hold, taken>>
  BY DEF TakeWait
<1>b. pc[t] = "program" /\ stat[t] = "ready"
  BY <1>a DEF Calls
<1>1. taken[t][m] = 0
  <2>1. Holds(t, m) = 0 /\ taken[t][m] \in Nat
    BY <1>a DEF TakenMeansOwned, TypeOK
  <2> QED BY <1>b, <2>1 DEF Holds
<1>2. owner[m] \in Thread
  BY <1>a DEF FreeOrOwned
<1>3. current_priority' \in [Thread -> 0 .. 254]
  <2>1. current_priority \in [Thread -> 0 .. 254]
    BY DEF TypeOK
  <2> DEFINE p == IF current_priority[t] < current_priority[owner[m]]
                  THEN current_priority[t] ELSE current_priority[owner[m]]
  <2>2. current_priority' = [current_priority EXCEPT ![owner[m]] = p]
    BY <1>2, <2>1 DEF TakeWait, Lend
  <2>3. p \in 0 .. 254
    BY <1>2, <2>1
  <2> HIDE DEF p
  <2> QED BY <2>1, <2>2, <2>3
<1>4. PICK i \in 1 .. Len(suspend_thread[m]) + 1 :
        suspend_thread' = [suspend_thread EXCEPT ![m] = InsertAt(suspend_thread[m], i, t)]
  BY DEF TakeWait
<1>5. \A n \in Mutexes : t \notin ToSet(suspend_thread[n])
  BY <1>b DEF WaitersListed, Sleeping
<1>6. /\ InsertAt(suspend_thread[m], i, t) \in Seq(Thread)
      /\ ToSet(InsertAt(suspend_thread[m], i, t)) = ToSet(suspend_thread[m]) \cup {t}
      /\ NoDup(InsertAt(suspend_thread[m], i, t))
  <2>1. suspend_thread[m] \in Seq(Thread) /\ NoDup(suspend_thread[m])
    BY DEF TypeOK, WaitersListed
  <2> QED BY <2>1, <1>5, InsertFacts
<1>7. TypeOK'
  <2>1. suspend_thread' \in [Mutexes -> Seq(Thread)]
    BY <1>4, <1>6 DEF TypeOK
  <2>2. error' \in [Thread -> Error]
    BY <1>a DEF TypeOK, Error
  <2>3. /\ stat' \in [Thread -> {"ready", "suspend"}]
        /\ pc' \in [Thread -> {"program", "wait"}]
        /\ want' \in [Thread -> Mutexes]
    BY <1>a DEF TypeOK
  <2>4. timer' \in [Thread -> {0, 1}]
    BY <1>a DEF TypeOK
  <2> QED BY <1>a, <1>3, <2>1, <2>2, <2>3, <2>4 DEF TypeOK
<1>8. WaitersListed'
  <2> SUFFICES ASSUME NEW n \in Mutexes
               PROVE  NoDup(suspend_thread'[n]) /\ ToSet(suspend_thread'[n]) = Sleeping(n)'
    BY DEF WaitersListed
  <2>1. /\ pc' = [pc EXCEPT ![t] = "wait"] /\ want' = [want EXCEPT ![t] = m]
        /\ stat' = [stat EXCEPT ![t] = "suspend"]
        /\ pc \in [Thread -> {"program", "wait"}] /\ want \in [Thread -> Mutexes]
        /\ stat \in [Thread -> {"ready", "suspend"}]
    BY <1>a DEF TypeOK
  <2>2. NoDup(suspend_thread[n]) /\ ToSet(suspend_thread[n]) = Sleeping(n)
    BY DEF WaitersListed
  <2>3. CASE n = m
    <3>1. Sleeping(n)' = Sleeping(n) \cup {t}
      BY <2>1, <2>3 DEF Sleeping
    <3>2. suspend_thread'[n] = InsertAt(suspend_thread[m], i, t)
      BY <2>3, <1>4 DEF TypeOK
    <3> QED BY <3>1, <3>2, <2>2, <2>3, <1>6
  <2>4. CASE n # m
    <3>1. Sleeping(n)' = Sleeping(n)
      BY <2>1, <2>4, <1>b DEF Sleeping
    <3>2. suspend_thread'[n] = suspend_thread[n]
      BY <2>4, <1>4 DEF TypeOK
    <3> QED BY <3>1, <3>2, <2>2
  <2> QED BY <2>3, <2>4
<1>9. SleepersTake'
  BY <1>a, <1>b, <1>1 DEF SleepersTake, TypeOK
<1>10. FreeOrOwned'
  <2>1. \A n \in Mutexes : value[n] = 1 => suspend_thread'[n] = suspend_thread[n]
    BY <1>a, <1>4 DEF TypeOK
  <2> QED BY <1>a, <2>1, MutexAssumption DEF FreeOrOwned
<1>11. TakenMeansOwned'
  <2>1. \A u \in Thread, n \in Mutexes : Holds(u, n)' = Holds(u, n)
    BY <1>a, <1>b DEF Holds, TypeOK
  <2> QED BY <1>a, <2>1 DEF TakenMeansOwned
<1> QED BY <1>7, <1>8, <1>9, <1>10, <1>11

LEMMA TakeReturnKeeps ==
  ASSUME MutexInv, NEW t \in Thread, TakeReturn(t)
  PROVE  MutexInv'
<1> USE DEF MutexInv
<1> DEFINE m == want[t]
<1>a. /\ pc[t] = "wait" /\ stat[t] = "ready" /\ m \in Mutexes
      /\ pc' = [pc EXCEPT ![t] = "program"]
      /\ UNCHANGED <<value, owner, original_priority, hold, suspend_thread,
                     current_priority, stat, timer, want>>
  BY DEF TakeReturn, TypeOK, mutexes
<1>1. taken[t][m] = 0
  BY <1>a DEF SleepersTake
<1>2. /\ error' = error
      /\ taken' = [taken EXCEPT ![t][m] = IF error[t] = "EOK" THEN 1 ELSE 0]
  BY <1>1 DEF TakeReturn, Returns, TypeOK
<1>3. TypeOK'
  <2>1. 0 \in 0 .. Depth /\ 1 \in 0 .. Depth
    BY MutexAssumption
  <2>2. taken' \in [Thread -> [Mutexes -> 0 .. Depth]]
    BY <1>2, <2>1 DEF TypeOK
  <2> QED BY <1>a, <1>2, <2>2 DEF TypeOK
<1>4. WaitersListed'
  BY <1>a DEF WaitersListed, Sleeping, TypeOK
<1>5. SleepersTake'
  BY <1>a, <1>2 DEF SleepersTake, TypeOK
<1>6. FreeOrOwned'
  BY <1>a DEF FreeOrOwned
<1>7. TakenMeansOwned'
  <2>1. \A u \in Thread, n \in Mutexes : Holds(u, n)' = Holds(u, n)
    <3> TAKE u \in Thread, n \in Mutexes
    <3>1. CASE u = t /\ n = m
      <4>1. taken'[t][m] = IF error[t] = "EOK" THEN 1 ELSE 0
        BY <1>2, <1>a DEF TypeOK
      <4>2. pc'[t] = "program"
        BY <1>a DEF TypeOK
      <4> QED BY <3>1, <4>1, <4>2, <1>a, <1>1 DEF Holds
    <3>2. CASE ~(u = t /\ n = m)
      <4>1. taken'[u][n] = taken[u][n]
        BY <3>2, <1>2 DEF TypeOK
      <4> QED BY <3>2, <4>1, <1>a, <1>2 DEF Holds, TypeOK
    <3> QED BY <3>1, <3>2
  <2> QED BY <1>a, <2>1 DEF TakenMeansOwned
<1> QED BY <1>3, <1>4, <1>5, <1>6, <1>7

LEMMA TimeOutKeeps ==
  ASSUME MutexInv, NEW t \in Thread, TimeOut(t)
  PROVE  MutexInv'
<1> USE DEF MutexInv
<1> DEFINE m == want[t]
<1>a. /\ timer[t] = 1 /\ m \in Mutexes
      /\ timer' = [timer EXCEPT ![t] = 0]
      /\ error' = [error EXCEPT ![t] = "ETIMEOUT"]
      /\ stat' = [stat EXCEPT ![t] = "ready"]
      /\ UNCHANGED <<value, owner, original_priority, hold, current_priority,
                     pc, want, taken>>
  BY DEF TimeOut, TypeOK, frame
<1>b. stat[t] = "suspend" /\ pc[t] = "wait" /\ taken[t][m] = 0
  BY <1>a DEF SleepersTake
<1>1. PICK i \in 1 .. Len(suspend_thread[m]) :
        /\ suspend_thread[m][i] = t
        /\ suspend_thread' = [suspend_thread EXCEPT ![m] = RemoveAt(suspend_thread[m], i)]
  BY DEF TimeOut, Unlink
<1>2. /\ RemoveAt(suspend_thread[m], i) \in Seq(Thread)
      /\ ToSet(RemoveAt(suspend_thread[m], i)) = ToSet(suspend_thread[m]) \ {t}
      /\ NoDup(RemoveAt(suspend_thread[m], i))
  <2>1. suspend_thread[m] \in Seq(Thread) /\ NoDup(suspend_thread[m])
    BY <1>a DEF TypeOK, WaitersListed
  <2> QED BY <2>1, <1>1, RemoveFacts
<1>3. TypeOK'
  <2>1. suspend_thread' \in [Mutexes -> Seq(Thread)]
    BY <1>a, <1>1, <1>2 DEF TypeOK
  <2>2. error' \in [Thread -> Error]
    BY <1>a DEF TypeOK, Error
  <2> QED BY <1>a, <2>1, <2>2 DEF TypeOK
<1>4. WaitersListed'
  <2> SUFFICES ASSUME NEW n \in Mutexes
               PROVE  NoDup(suspend_thread'[n]) /\ ToSet(suspend_thread'[n]) = Sleeping(n)'
    BY DEF WaitersListed
  <2>1. /\ stat' = [stat EXCEPT ![t] = "ready"] /\ pc' = pc /\ want' = want
        /\ stat \in [Thread -> {"ready", "suspend"}]
    BY <1>a DEF TypeOK
  <2>2. NoDup(suspend_thread[n]) /\ ToSet(suspend_thread[n]) = Sleeping(n)
    BY DEF WaitersListed
  <2>3. Sleeping(n)' = Sleeping(n) \ {t}
    BY <2>1 DEF Sleeping
  <2>4. CASE n = m
    <3>1. suspend_thread'[n] = RemoveAt(suspend_thread[m], i)
      BY <2>4, <1>1 DEF TypeOK
    <3> QED BY <3>1, <2>2, <2>3, <2>4, <1>2
  <2>5. CASE n # m
    <3>1. suspend_thread'[n] = suspend_thread[n]
      BY <2>5, <1>1 DEF TypeOK
    <3>2. t \notin Sleeping(n)
      BY <2>5 DEF Sleeping
    <3> QED BY <3>1, <3>2, <2>2, <2>3
  <2> QED BY <2>4, <2>5
<1>5. SleepersTake'
  BY <1>a DEF SleepersTake, TypeOK
<1>6. FreeOrOwned'
  <2>1. t \in ToSet(suspend_thread[m])
    BY <1>1 DEF ToSet
  <2>2. suspend_thread[m] # <<>>
    BY <1>1
  <2>3. \A n \in Mutexes : value[n] = 1 => suspend_thread'[n] = suspend_thread[n]
    BY <1>a, <1>1, <2>2 DEF FreeOrOwned, TypeOK
  <2> QED BY <1>a, <2>3 DEF FreeOrOwned
<1>7. TakenMeansOwned'
  <2>1. \A u \in Thread, n \in Mutexes : Holds(u, n)' = Holds(u, n)
    BY <1>a, <1>b DEF Holds, TypeOK
  <2> QED BY <1>a, <2>1 DEF TakenMeansOwned
<1> QED BY <1>3, <1>4, <1>5, <1>6, <1>7

-----------------------------------------------------------------------------
(* rt_mutex_release.                                                       *)

LEMMA ReleaseNestedKeeps ==
  ASSUME MutexInv, NEW t \in Thread, NEW m \in Mutexes, ReleaseNested(t, m)
  PROVE  MutexInv'
<1> USE DEF MutexInv
<1>a. /\ Calls(t) /\ owner[m] = t /\ hold[m] # 1
      /\ UNCHANGED <<value, owner, original_priority, suspend_thread,
                     current_priority, stat, error, timer, pc, want>>
  BY DEF ReleaseNested, tcb
<1>b. pc[t] = "program" /\ stat[t] = "ready"
  BY <1>a DEF Calls
<1>0. /\ taken[t][m] \in 2 .. Depth /\ hold[m] = taken[t][m]
      /\ hold[m] - 1 \in 1 .. HoldWidth - 1
      /\ (hold[m] + -1) % HoldWidth = hold[m] - 1
  <2>1. taken[t][m] \in 0 .. Depth
    BY DEF TypeOK
  <2>2. hold[m] = Holds(t, m) /\ Holds(t, m) > 0
    BY <1>a DEF TakenMeansOwned
  <2>3. hold[m] = taken[t][m]
    BY <1>b, <2>1, <2>2 DEF Holds
  <2> QED BY <1>a, <2>1, <2>2, <2>3, MutexAssumption
<1>1. /\ hold' = [hold EXCEPT ![m] = hold[m] - 1]
      /\ taken' = [taken EXCEPT ![t][m] = taken[t][m] - 1]
  BY <1>0 DEF ReleaseNested, Plus
<1>2. TypeOK'
  <2>1. taken' \in [Thread -> [Mutexes -> 0 .. Depth]]
    <3>1. taken \in [Thread -> [Mutexes -> 0 .. Depth]]
      BY DEF TypeOK
    <3>2. taken[t][m] - 1 \in 0 .. Depth
      BY <1>0, MutexAssumption
    <3> QED BY <1>1, <3>1, <3>2
  <2>2. hold' \in [Mutexes -> 0 .. HoldWidth - 1]
    <3>1. hold \in [Mutexes -> 0 .. HoldWidth - 1]
      BY DEF TypeOK
    <3>2. hold[m] - 1 \in 0 .. HoldWidth - 1
      BY <1>0, MutexAssumption
    <3> QED BY <1>1, <3>1, <3>2
  <2> QED BY <1>a, <2>1, <2>2 DEF TypeOK
<1>3. WaitersListed'
  BY <1>a, ListsKept
<1>4. SleepersTake'
  <2> SUFFICES ASSUME NEW u \in Thread
               PROVE  /\ stat'[u] = "suspend" => pc'[u] = "wait" /\ error'[u] = "EOK"
                      /\ timer'[u] = 1 => stat'[u] = "suspend"
                      /\ pc'[u] = "wait" => taken'[u][want'[u]] = 0
    BY DEF SleepersTake
  <2>1. u # t => taken'[u] = taken[u]
    BY <1>1 DEF TypeOK
  <2> QED BY <1>a, <1>b, <2>1 DEF SleepersTake
<1>5. FreeOrOwned'
  <2> SUFFICES ASSUME NEW n \in Mutexes
               PROVE  \/ /\ value'[n] = 1 /\ owner'[n] = Nobody
                         /\ hold'[n] = 0 /\ suspend_thread'[n] = <<>>
                      \/ /\ value'[n] = 0 /\ owner'[n] \in Thread
                         /\ original_priority'[n] \in 0 .. 254
    BY DEF FreeOrOwned
  <2>1. n # m => hold'[n] = hold[n]
    BY <1>1 DEF TypeOK
  <2>2. owner[m] # Nobody
    BY <1>a, MutexAssumption
  <2> QED BY <1>a, <2>1, <2>2 DEF FreeOrOwned
<1>6. TakenMeansOwned'
  <2> SUFFICES ASSUME NEW u \in Thread, NEW n \in Mutexes
               PROVE  IF owner'[n] = u THEN hold'[n] = Holds(u, n)' /\ Holds(u, n)' > 0
                                       ELSE Holds(u, n)' = 0
    BY DEF TakenMeansOwned
  <2>1. /\ hold[n] \in Nat /\ taken[u][n] \in Nat
        /\ IF owner[n] = u THEN hold[n] = Holds(u, n) /\ Holds(u, n) > 0
                           ELSE Holds(u, n) = 0
    BY DEF TypeOK, TakenMeansOwned
  <2>2. CASE u = t /\ n = m
    <3>1. hold'[n] = hold[m] - 1 /\ taken'[u][n] = taken[t][m] - 1
      BY <2>2, <1>1 DEF TypeOK
    <3>2. Holds(u, n)' = taken[t][m] - 1
      BY <1>a, <1>b, <2>2, <1>0, <3>1 DEF Holds
    <3> QED BY <1>a, <2>2, <3>1, <3>2, <1>0
  <2>3. CASE ~(u = t /\ n = m)
    <3>1. taken'[u][n] = taken[u][n] /\ (owner[n] = u => hold'[n] = hold[n])
      BY <2>3, <1>a, <1>1 DEF TypeOK
    <3>2. Holds(u, n)' = Holds(u, n)
      BY <1>a, <1>b, <3>1, <1>1 DEF Holds, TypeOK
    <3> QED BY <1>a, <3>1, <3>2, <2>1
  <2> QED BY <2>2, <2>3
<1> QED BY <1>2, <1>3, <1>4, <1>5, <1>6

\* What the last release finds.
LEMMA LastHold ==
  ASSUME MutexInv, NEW t \in Thread, NEW m \in Mutexes, ReleaseLast(t, m)
  PROVE  /\ pc[t] = "program" /\ stat[t] = "ready"
         /\ owner[m] = t /\ value[m] = 0 /\ hold[m] = 1 /\ taken[t][m] = 1
         /\ \A u \in Thread : u # t => Holds(u, m) = 0
         /\ current_priority' \in [Thread -> 0 .. 254]
         /\ taken' = [taken EXCEPT ![t][m] = 0]
         /\ UNCHANGED <<error, pc, want>>
<1> USE DEF MutexInv
<1>1. /\ Calls(t) /\ owner[m] = t /\ hold[m] = 1 /\ UNCHANGED <<error, pc, want>>
  BY DEF ReleaseLast
<1>2. pc[t] = "program" /\ stat[t] = "ready"
  BY <1>1 DEF Calls
<1>3. taken[t][m] = 1
  <2>1. taken[t][m] \in Nat /\ hold[m] = Holds(t, m)
    BY <1>1 DEF TypeOK, TakenMeansOwned
  <2> QED BY <1>1, <1>2, <2>1 DEF Holds
<1>4. value[m] = 0
  BY <1>1, MutexAssumption DEF FreeOrOwned
<1>5. \A u \in Thread : u # t => Holds(u, m) = 0
  BY <1>1 DEF TakenMeansOwned
<1>6. taken' = [taken EXCEPT ![t][m] = 0]
  <2>1. taken[t][m] - 1 = 0
    BY <1>3
  <2> QED BY <2>1 DEF ReleaseLast
<1>7. current_priority' \in [Thread -> 0 .. 254]
  <2>1. original_priority[m] \in 0 .. 254
    BY <1>1, MutexAssumption DEF FreeOrOwned
  <2> QED BY <2>1 DEF TypeOK, ReleaseLast, GiveBack
<1> QED BY <1>1, <1>2, <1>3, <1>4, <1>5, <1>6, <1>7

LEMMA FreeKeeps ==
  ASSUME MutexInv, NEW t \in Thread, NEW m \in Mutexes, ReleaseLast(t, m), Free(m)
  PROVE  MutexInv'
<1> USE DEF MutexInv
<1>a. /\ pc[t] = "program" /\ stat[t] = "ready"
      /\ owner[m] = t /\ value[m] = 0 /\ hold[m] = 1 /\ taken[t][m] = 1
      /\ \A u \in Thread : u # t => Holds(u, m) = 0
      /\ current_priority' \in [Thread -> 0 .. 254]
      /\ taken' = [taken EXCEPT ![t][m] = 0]
      /\ UNCHANGED <<error, pc, want>>
  BY LastHold
<1>b. /\ suspend_thread[m] = <<>>
      /\ value' = [value EXCEPT ![m] = 1]
      /\ owner' = [owner EXCEPT ![m] = Nobody]
      /\ original_priority' = [original_priority EXCEPT ![m] = NoPriority]
      /\ hold' = [hold EXCEPT ![m] = 0]
      /\ UNCHANGED <<suspend_thread, stat, timer>>
  <2>1. value[m] + 1 = 1 /\ (hold[m] + -1) % HoldWidth = 0
    BY <1>a, MutexAssumption
  <2> QED BY <2>1 DEF Free, Plus
<1>1. TypeOK'
  <2>1. taken' \in [Thread -> [Mutexes -> 0 .. Depth]]
    BY <1>a, MutexAssumption DEF TypeOK
  <2>2. hold' \in [Mutexes -> 0 .. HoldWidth - 1]
    BY <1>b, MutexAssumption DEF TypeOK
  <2>3. original_priority' \in [Mutexes -> 0 .. NoPriority]
    BY <1>b DEF TypeOK, NoPriority
  <2> QED BY <1>a, <1>b, <2>1, <2>2, <2>3 DEF TypeOK
<1>2. WaitersListed'
  BY <1>a, <1>b, ListsKept
<1>3. SleepersTake'
  BY <1>a, <1>b DEF SleepersTake, TypeOK
<1>4. FreeOrOwned'
  BY <1>a, <1>b DEF FreeOrOwned, TypeOK
<1>5. TakenMeansOwned'
  <2> SUFFICES ASSUME NEW u \in Thread, NEW n \in Mutexes
               PROVE  IF owner'[n] = u THEN hold'[n] = Holds(u, n)' /\ Holds(u, n)' > 0
                                       ELSE Holds(u, n)' = 0
    BY DEF TakenMeansOwned
  <2>1. IF owner[n] = u THEN hold[n] = Holds(u, n) /\ Holds(u, n) > 0
                        ELSE Holds(u, n) = 0
    BY DEF TakenMeansOwned
  <2>2. CASE n = m
    <3>1. owner'[n] = Nobody
      BY <2>2, <1>b DEF TypeOK
    <3>2. Holds(u, n)' = 0
      <4>1. CASE u = t
        <5>1. taken'[u][n] = 0
          BY <4>1, <2>2, <1>a DEF TypeOK
        <5> QED BY <5>1, <4>1, <1>a DEF Holds
      <4>2. CASE u # t
        <5>1. taken'[u][n] = taken[u][n]
          BY <4>2, <1>a DEF TypeOK
        <5>2. Holds(u, n)' = Holds(u, n)
          BY <5>1, <1>a, <1>b DEF Holds
        <5> QED BY <5>2, <4>2, <2>2, <1>a
      <4> QED BY <4>1, <4>2
    <3> QED BY <3>1, <3>2, MutexAssumption
  <2>3. CASE n # m
    <3>1. taken'[u][n] = taken[u][n] /\ hold'[n] = hold[n] /\ owner'[n] = owner[n]
      BY <2>3, <1>a, <1>b DEF TypeOK
    <3>2. Holds(u, n)' = Holds(u, n)
      BY <3>1, <1>a, <1>b DEF Holds
    <3> QED BY <3>1, <3>2, <2>1
  <2> QED BY <2>2, <2>3
<1> QED BY <1>1, <1>2, <1>3, <1>4, <1>5

LEMMA HandOverKeeps ==
  ASSUME MutexInv, NEW t \in Thread, NEW m \in Mutexes, ReleaseLast(t, m),
         suspend_thread[m] # <<>>, HandOver(m, Head(suspend_thread[m]))
  PROVE  MutexInv'
<1> USE DEF MutexInv
<1> DEFINE next == Head(suspend_thread[m])
<1>a. /\ pc[t] = "program" /\ stat[t] = "ready"
      /\ owner[m] = t /\ value[m] = 0 /\ hold[m] = 1 /\ taken[t][m] = 1
      /\ \A u \in Thread : u # t => Holds(u, m) = 0
      /\ current_priority' \in [Thread -> 0 .. 254]
      /\ taken' = [taken EXCEPT ![t][m] = 0]
      /\ UNCHANGED <<error, pc, want>>
  BY LastHold
<1>b. /\ owner' = [owner EXCEPT ![m] = next]
      /\ original_priority' = [original_priority EXCEPT ![m] = current_priority[next]]
      /\ stat' = [stat EXCEPT ![next] = "ready"]
      /\ timer' = [timer EXCEPT ![next] = 0]
      /\ suspend_thread' = [suspend_thread EXCEPT ![m] = Tail(suspend_thread[m])]
      /\ UNCHANGED <<value, hold>>
  BY DEF HandOver, Resume
<1>1. /\ suspend_thread[m] \in Seq(Thread) /\ NoDup(suspend_thread[m])
      /\ ToSet(suspend_thread[m]) = Sleeping(m)
  BY DEF TypeOK, WaitersListed
<1>2. /\ next \in ToSet(suspend_thread[m])
      /\ Tail(suspend_thread[m]) \in Seq(Thread)
      /\ ToSet(Tail(suspend_thread[m])) = ToSet(suspend_thread[m]) \ {next}
      /\ NoDup(Tail(suspend_thread[m]))
  BY <1>1, TailFacts
<1> HIDE DEF next
<1>3. /\ next \in Thread /\ next # t
      /\ pc[next] = "wait" /\ stat[next] = "suspend" /\ want[next] = m
      /\ error[next] = "EOK" /\ taken[next][m] = 0
  BY <1>1, <1>2, <1>a DEF Sleeping, SleepersTake
<1>4. TypeOK'
  <2>1. taken' \in [Thread -> [Mutexes -> 0 .. Depth]]
    <3>1. 0 \in 0 .. Depth /\ taken \in [Thread -> [Mutexes -> 0 .. Depth]]
      BY MutexAssumption DEF TypeOK
    <3> QED BY <3>1, <1>a
  <2>2. current_priority[next] \in 0 .. NoPriority
    <3>1. next \in Thread /\ current_priority \in [Thread -> 0 .. 254]
      BY <1>3 DEF TypeOK
    <3> QED BY <3>1 DEF NoPriority
  <2>3. original_priority' \in [Mutexes -> 0 .. NoPriority]
    BY <1>b, <2>2 DEF TypeOK
  <2>4. suspend_thread' \in [Mutexes -> Seq(Thread)]
    BY <1>b, <1>2 DEF TypeOK
  <2> QED BY <1>a, <1>b, <1>3, <2>1, <2>3, <2>4 DEF TypeOK
<1>5. WaitersListed'
  <2> SUFFICES ASSUME NEW n \in Mutexes
               PROVE  NoDup(suspend_thread'[n]) /\ ToSet(suspend_thread'[n]) = Sleeping(n)'
    BY DEF WaitersListed
  <2>1. NoDup(suspend_thread[n]) /\ ToSet(suspend_thread[n]) = Sleeping(n)
    BY DEF WaitersListed
  <2>2. Sleeping(n)' = Sleeping(n) \ {next}
    BY <1>a, <1>b, <1>3 DEF Sleeping, TypeOK
  <2>3. CASE n = m
    <3>1. suspend_thread'[n] = Tail(suspend_thread[m])
      BY <2>3, <1>b DEF TypeOK
    <3> QED BY <3>1, <2>1, <2>2, <2>3, <1>2
  <2>4. CASE n # m
    <3>1. suspend_thread'[n] = suspend_thread[n]
      BY <2>4, <1>b DEF TypeOK
    <3>2. next \notin Sleeping(n)
      BY <2>4, <1>3 DEF Sleeping
    <3> QED BY <3>1, <3>2, <2>1, <2>2
  <2> QED BY <2>3, <2>4
<1>6. SleepersTake'
  BY <1>a, <1>b, <1>3 DEF SleepersTake, TypeOK
<1>7. FreeOrOwned'
  <2> SUFFICES ASSUME NEW n \in Mutexes
               PROVE  \/ /\ value'[n] = 1 /\ owner'[n] = Nobody
                         /\ hold'[n] = 0 /\ suspend_thread'[n] = <<>>
                      \/ /\ value'[n] = 0 /\ owner'[n] \in Thread
                         /\ original_priority'[n] \in 0 .. 254
    BY DEF FreeOrOwned
  <2>1. value'[n] = value[n] /\ hold'[n] = hold[n]
    BY <1>b
  <2>2. CASE n = m
    <3>1. owner'[n] = next /\ original_priority'[n] = current_priority[next]
      BY <2>2, <1>b DEF TypeOK
    <3>2. current_priority[next] \in 0 .. 254
      BY <1>3 DEF TypeOK
    <3> QED BY <3>1, <3>2, <2>1, <2>2, <1>a, <1>3
  <2>3. CASE n # m
    <3>1. /\ suspend_thread'[n] = suspend_thread[n] /\ owner'[n] = owner[n]
          /\ original_priority'[n] = original_priority[n]
      BY <2>3, <1>b DEF TypeOK
    <3> QED BY <3>1, <2>1 DEF FreeOrOwned
  <2> QED BY <2>2, <2>3
<1>8. TakenMeansOwned'
  <2> SUFFICES ASSUME NEW u \in Thread, NEW n \in Mutexes
               PROVE  IF owner'[n] = u THEN hold'[n] = Holds(u, n)' /\ Holds(u, n)' > 0
                                       ELSE Holds(u, n)' = 0
    BY DEF TakenMeansOwned
  <2>1. IF owner[n] = u THEN hold[n] = Holds(u, n) /\ Holds(u, n) > 0
                        ELSE Holds(u, n) = 0
    BY DEF TakenMeansOwned
  <2>2. stat'[u] = IF u = next THEN "ready" ELSE stat[u]
    BY <1>b DEF TypeOK
  <2>3. CASE n = m
    <3>1. owner'[n] = next
      BY <2>3, <1>b DEF TypeOK
    <3>2. CASE u = t
      <4>1. taken'[u][n] = 0
        BY <3>2, <2>3, <1>a DEF TypeOK
      <4> QED BY <3>1, <3>2, <4>1, <1>a, <1>3 DEF Holds
    <3>3. CASE u = next
      <4>1. taken'[u][n] = 0
        BY <3>3, <2>3, <1>a, <1>3 DEF TypeOK
      <4>2. Holds(u, n)' = 1
        BY <4>1, <3>3, <2>2, <2>3, <1>a, <1>3 DEF Holds
      <4> QED BY <3>1, <3>3, <4>2, <2>3, <1>a, <1>b
    <3>4. CASE u # t /\ u # next
      <4>1. taken'[u][n] = taken[u][n]
        BY <3>4, <1>a DEF TypeOK
      <4>2. Holds(u, n)' = Holds(u, n)
        BY <4>1, <3>4, <2>2, <1>a DEF Holds
      <4> QED BY <3>1, <3>4, <4>2, <2>3, <1>a
    <3> QED BY <3>2, <3>3, <3>4
  <2>4. CASE n # m
    <3>1. taken'[u][n] = taken[u][n] /\ owner'[n] = owner[n]
      BY <2>4, <1>a, <1>b DEF TypeOK
    <3>2. Holds(u, n)' = Holds(u, n)
      BY <3>1, <2>2, <2>4, <1>a, <1>3 DEF Holds
    <3> QED BY <3>1, <3>2, <2>1, <1>b
  <2> QED BY <2>3, <2>4
<1> QED BY <1>4, <1>5, <1>6, <1>7, <1>8

-----------------------------------------------------------------------------
(* The theorems.                                                           *)

LEMMA MutexStep == MutexInv /\ [Next]_vars => MutexInv'
<1> SUFFICES ASSUME MutexInv, [Next]_vars PROVE MutexInv'
  OBVIOUS
<1>1. ASSUME NEW t \in Thread, NEW m \in Mutexes, Take(t, m)
      PROVE  MutexInv'
  BY <1>1, TakeAgainKeeps, TakeFreeKeeps, RefusedKeeps, TakeWaitKeeps DEF Take
<1>2. ASSUME NEW t \in Thread, NEW m \in Mutexes, Release(t, m)
      PROVE  MutexInv'
  <2>1. CASE ReleaseRefused(t, m)
    BY <2>1, RefusedKeeps
  <2>2. CASE ReleaseNested(t, m)
    BY <2>2, ReleaseNestedKeeps
  <2>3. CASE ReleaseLast(t, m)
    <3>1. \/ Free(m)
          \/ suspend_thread[m] # <<>> /\ HandOver(m, Head(suspend_thread[m]))
      BY <2>3 DEF ReleaseLast
    <3> QED BY <2>3, <3>1, FreeKeeps, HandOverKeeps
  <2> QED BY <1>2, <2>1, <2>2, <2>3 DEF Release
<1>3. CASE \E t \in Thread : TakeReturn(t)
  BY <1>3, TakeReturnKeeps
<1>4. CASE \E t \in Thread : TimeOut(t)
  BY <1>4, TimeOutKeeps
<1>5. CASE UNCHANGED vars
  <2>1. \A u \in Thread, n \in Mutexes : Holds(u, n)' = Holds(u, n)
    BY <1>5 DEF Holds, vars, mutexes, tcb, frame
  <2>2. TakenMeansOwned'
    BY <1>5, <2>1 DEF MutexInv, TakenMeansOwned, vars, mutexes
  <2>3. WaitersListed'
    BY <1>5 DEF MutexInv, WaitersListed, Sleeping, vars, mutexes, tcb, frame
  <2>4. TypeOK' /\ SleepersTake' /\ FreeOrOwned'
    BY <1>5 DEF MutexInv, TypeOK, SleepersTake, FreeOrOwned, vars, mutexes, tcb, frame
  <2> QED BY <2>2, <2>3, <2>4 DEF MutexInv
<1> QED BY <1>1, <1>2, <1>3, <1>4, <1>5 DEF Next

\* The inductive invariant.
THEOREM MutexInvariance == Spec => []MutexInv
BY MutexInit, MutexStep, PTL DEF Spec

\* Every variable of every reachable state has its type.
THEOREM MutexType == Spec => []TypeOK
<1>1. MutexInv => TypeOK
  BY DEF MutexInv
<1> QED BY <1>1, MutexInvariance, PTL

\* To have taken a mutex is to own it, with as many holds, whatever the
\* threads, the mutexes, the priorities and the kind of the lists.
THEOREM MutexOwnership == Spec => []TakenMeansOwned
<1>1. MutexInv => TakenMeansOwned
  BY DEF MutexInv
<1> QED BY <1>1, MutexInvariance, PTL

\* Those who wait, wait for another thread that owns the mutex.
THEOREM MutexWaiters == Spec => []WaitersHaveOwner
<1>1. MutexInv => WaitersHaveOwner
  <2> SUFFICES ASSUME MutexInv, NEW m \in Mutexes, suspend_thread[m] # <<>>
               PROVE  /\ owner[m] # Nobody /\ value[m] = 0
                      /\ owner[m] \notin ToSet(suspend_thread[m])
    BY DEF WaitersHaveOwner
  <2>1. value[m] = 0 /\ owner[m] \in Thread
    BY DEF MutexInv, FreeOrOwned
  <2>2. Holds(owner[m], m) > 0
    BY <2>1 DEF MutexInv, TakenMeansOwned
  <2>3. ASSUME owner[m] \in Sleeping(m) PROVE FALSE
    BY <2>1, <2>2, <2>3 DEF Sleeping, Holds, MutexInv, SleepersTake, TypeOK
  <2> QED BY <2>1, <2>3, MutexAssumption DEF MutexInv, WaitersListed
<1> QED BY <1>1, MutexInvariance, PTL

-----------------------------------------------------------------------------
(* Priorities, when no thread uses a second mutex.                         *)

OneMutex == Flag = "PRIO" /\ \A m, n \in Mutexes : m = n

Sorted(s) == \A i, j \in 1 .. Len(s) : i <= j => InitPrio[s[i]] <= InitPrio[s[j]]

\* A release finds the owner's own priority, and the waiters in order.
PriorityInv ==
  /\ MutexInv /\ PriorityRestored
  /\ \A m \in Mutexes :
       /\ owner[m] \in Thread => original_priority[m] = InitPrio[owner[m]]
       /\ Sorted(suspend_thread[m])
       /\ \A u \in ToSet(suspend_thread[m]) :
            current_priority[owner[m]] <= current_priority[u]

LEMMA WaiterIsNotOwner ==
  ASSUME PriorityInv, OneMutex, NEW m \in Mutexes, NEW u \in ToSet(suspend_thread[m])
  PROVE  u \in Thread /\ owner[m] # u /\ current_priority[u] = InitPrio[u]
<1> USE DEF PriorityInv, MutexInv
<1>1. u \in Sleeping(m)
  BY DEF WaitersListed
<1>2. u \in Thread /\ Holds(u, m) = 0
  BY <1>1 DEF Sleeping, Holds, SleepersTake
<1>3. owner[m] # u
  BY <1>2 DEF TakenMeansOwned
<1>4. \A n \in Mutexes : owner[n] # u
  BY <1>3 DEF OneMutex
<1> QED BY <1>2, <1>3, <1>4 DEF PriorityRestored

LEMMA PrioritiesAreInts ==
  /\ \A t \in Thread : InitPrio[t] \in Int
  /\ TypeOK => \A t \in Thread : current_priority[t] \in Int
<1>1. ASSUME NEW t \in Thread PROVE InitPrio[t] \in Int
  <2>1. InitPrio[t] \in 0 .. 254
    BY MutexAssumption
  <2> QED BY <2>1
<1>2. ASSUME TypeOK, NEW t \in Thread PROVE current_priority[t] \in Int
  <2>1. current_priority[t] \in 0 .. 254
    BY <1>2 DEF TypeOK
  <2> QED BY <2>1
<1> QED BY <1>1, <1>2

LEMMA TakeWaitOrders ==
  ASSUME PriorityInv, OneMutex, NEW t \in Thread, NEW m \in Mutexes, TakeWait(t, m)
  PROVE  PriorityInv'
<1> USE DEF PriorityInv
<1> DEFINE s == suspend_thread[m]
<1>a. /\ owner[m] # t /\ value[m] = 0 /\ Lend(t, owner[m])
      /\ UNCHANGED <<owner, original_priority>>
  BY DEF TakeWait
<1>1. PICK i \in 1 .. Len(s) + 1 :
        /\ IsPlace(s, t, i)
        /\ suspend_thread' = [suspend_thread EXCEPT ![m] = InsertAt(s, i, t)]
  BY DEF TakeWait
<1>2. /\ owner[m] \in Thread /\ s \in Seq(Thread)
      /\ current_priority \in [Thread -> 0 .. 254]
      /\ suspend_thread \in [Mutexes -> Seq(Thread)]
  BY <1>a DEF MutexInv, FreeOrOwned, TypeOK
<1>3. current_priority[t] = InitPrio[t]
  BY <1>a DEF PriorityRestored, OneMutex
<1>4. /\ current_priority'[owner[m]] <= current_priority[t]
      /\ current_priority'[owner[m]] <= current_priority[owner[m]]
      /\ current_priority'[owner[m]] \in Int
      /\ \A u \in Thread : u # owner[m] => current_priority'[u] = current_priority[u]
  <2> DEFINE o == owner[m]
             p == IF current_priority[t] < current_priority[o]
                  THEN current_priority[t] ELSE current_priority[o]
  <2>1. current_priority' = [current_priority EXCEPT ![o] = p]
    BY <1>a DEF Lend
  <2>2. current_priority[t] \in Int /\ current_priority[o] \in Int
    BY <1>2, PrioritiesAreInts DEF MutexInv
  <2>3. current_priority'[o] = p
    BY <2>1, <1>2
  <2>4. p <= current_priority[t] /\ p <= current_priority[o] /\ p \in Int
    BY <2>2
  <2>5. \A u \in Thread : u # o => current_priority'[u] = current_priority[u]
    BY <2>1, <1>2
  <2> QED BY <2>3, <2>4, <2>5
<1>5. \A u \in ToSet(s) :
        u \in Thread /\ owner[m] # u /\ current_priority[u] = InitPrio[u]
  BY WaiterIsNotOwner
<1>6. suspend_thread'[m] = InsertAt(s, i, t)
  BY <1>1, <1>2
<1>7. PriorityRestored'
  BY <1>a, <1>4 DEF PriorityRestored
<1>8. \A n \in Mutexes : owner'[n] \in Thread => original_priority'[n] = InitPrio[owner'[n]]
  BY <1>a
<1>9. \A u \in ToSet(suspend_thread'[m]) :
        current_priority'[owner'[m]] <= current_priority'[u]
  <2>1. \A u \in ToSet(s) : current_priority'[owner[m]] <= current_priority'[u]
    <3> TAKE u \in ToSet(s)
    <3>1. current_priority[owner[m]] <= current_priority[u]
      OBVIOUS
    <3>2. current_priority'[u] = current_priority[u] /\ u \in Thread
      BY <1>4, <1>5
    <3>3. current_priority[u] \in Int /\ current_priority[owner[m]] \in Int
      BY <3>2, <1>2, PrioritiesAreInts DEF MutexInv
    <3> HIDE DEF PriorityInv
    <3> QED BY <3>1, <3>2, <3>3, <1>4
  <2>2. current_priority'[owner[m]] <= current_priority'[t]
    BY <1>4, <1>a
  <2>3. ToSet(suspend_thread'[m]) = ToSet(s) \cup {t}
    BY <1>6, <1>2, InsertFacts
  <2> QED BY <2>1, <2>2, <2>3, <1>a
<1>10. Sorted(suspend_thread'[m])
  <2> DEFINE r == InsertAt(s, i, t)
  <2>1. /\ Len(r) = Len(s) + 1
        /\ \A k \in 1 .. Len(s) + 1 :
             r[k] = IF k < i THEN s[k] ELSE IF k = i THEN t ELSE s[k - 1]
    BY <1>2, InsertElements
  <2> HIDE DEF r
  <2>2. \A k \in 1 .. Len(s) : current_priority[s[k]] = InitPrio[s[k]] /\ InitPrio[s[k]] \in Int
    <3> TAKE k \in 1 .. Len(s)
    <3>1. s[k] \in ToSet(s) /\ s[k] \in Thread
      BY <1>2 DEF ToSet
    <3> QED BY <3>1, <1>5, PrioritiesAreInts
  <2>3. InitPrio[t] \in Int
    BY PrioritiesAreInts
  <2>4. \A k \in 1 .. Len(s) : k < i => InitPrio[s[k]] <= InitPrio[t]
    <3> SUFFICES ASSUME NEW k \in 1 .. Len(s), k < i PROVE InitPrio[s[k]] <= InitPrio[t]
      OBVIOUS
    <3>1. ~Overtakes(t, s[k])
      BY <1>1 DEF IsPlace
    <3> QED BY <3>1, <2>2, <2>3, <1>3 DEF Overtakes, OneMutex
  <2>5. \A k \in 1 .. Len(s) : k >= i => InitPrio[t] <= InitPrio[s[k]]
    <3> SUFFICES ASSUME NEW k \in 1 .. Len(s), k >= i PROVE InitPrio[t] <= InitPrio[s[k]]
      OBVIOUS
    <3>1. i \in 1 .. Len(s) /\ Overtakes(t, s[i])
      BY <1>1 DEF IsPlace
    <3>2. InitPrio[t] < InitPrio[s[i]] /\ InitPrio[s[i]] \in Int
      BY <3>1, <2>2, <1>3 DEF Overtakes
    <3>3. InitPrio[s[i]] <= InitPrio[s[k]] /\ InitPrio[s[k]] \in Int
      BY <3>1, <2>2 DEF Sorted
    <3> QED BY <3>2, <3>3, <2>3
  <2>6. \A k, l \in 1 .. Len(s) : k <= l => InitPrio[s[k]] <= InitPrio[s[l]]
    BY DEF Sorted
  <2>7. ASSUME NEW k \in 1 .. Len(s) + 1, NEW l \in 1 .. Len(s) + 1, k <= l
        PROVE  InitPrio[r[k]] <= InitPrio[r[l]]
    <3>0. /\ k < i => k \in 1 .. Len(s)
          /\ k > i => k - 1 \in 1 .. Len(s)
          /\ l < i => l \in 1 .. Len(s)
          /\ l > i => l - 1 \in 1 .. Len(s)
      OBVIOUS
    <3>1. CASE l < i
      <4>1. r[k] = s[k] /\ r[l] = s[l]
        BY <3>1, <2>1, <2>7
      <4> QED BY <4>1, <3>0, <3>1, <2>6, <2>7
    <3>2. CASE l = i
      <4>1. r[l] = t
        BY <3>2, <2>1
      <4>2. CASE k < i
        BY <4>1, <4>2, <3>0, <2>1, <2>4
      <4>3. CASE k = i
        BY <4>1, <4>3, <2>1, <2>3
      <4> QED BY <4>2, <4>3, <3>2, <2>7
    <3>3. CASE l > i
      <4>1. r[l] = s[l - 1] /\ l - 1 >= i /\ l - 1 \in 1 .. Len(s)
        BY <3>3, <3>0, <2>1
      <4>2. CASE k < i
        <5>1. r[k] = s[k] /\ k <= l - 1
          BY <4>2, <3>3, <2>1
        <5> QED BY <5>1, <4>1, <4>2, <3>0, <2>6
      <4>3. CASE k = i
        <5>1. r[k] = t
          BY <4>3, <2>1
        <5> QED BY <5>1, <4>1, <2>5
      <4>4. CASE k > i
        <5>1. r[k] = s[k - 1] /\ k - 1 <= l - 1
          BY <4>4, <2>1, <2>7
        <5> QED BY <5>1, <4>1, <4>4, <3>0, <2>6
      <4> QED BY <4>2, <4>3, <4>4
    <3> QED BY <3>1, <3>2, <3>3
  <2> QED BY <2>1, <2>7, <1>6 DEF Sorted, r
<1>11. MutexInv'
  BY TakeWaitKeeps
<1> QED BY <1>7, <1>8, <1>9, <1>10, <1>11 DEF OneMutex

\* What changes no owner, no priority and no list changes nothing here.
LEMMA PrioritiesKept ==
  ASSUME PriorityInv, MutexInv',
         UNCHANGED <<owner, original_priority, suspend_thread, current_priority>>
  PROVE  PriorityInv'
BY DEF PriorityInv, PriorityRestored, Sorted

LEMMA TakeFreeOrders ==
  ASSUME PriorityInv, OneMutex, NEW t \in Thread, NEW m \in Mutexes, TakeFree(t, m)
  PROVE  PriorityInv'
<1>a. /\ owner[m] # t /\ value[m] > 0
      /\ owner' = [owner EXCEPT ![m] = t]
      /\ original_priority' = [original_priority EXCEPT ![m] = current_priority[t]]
      /\ UNCHANGED <<suspend_thread, current_priority>>
  BY DEF TakeFree
<1>1. owner'[m] = t /\ original_priority'[m] = current_priority[t] /\ suspend_thread[m] = <<>>
  BY <1>a DEF PriorityInv, MutexInv, TypeOK, FreeOrOwned
<1>2. \A u \in Thread : current_priority[u] = InitPrio[u]
  <2>1. owner[m] = Nobody
    BY <1>a DEF PriorityInv, MutexInv, TypeOK, FreeOrOwned
  <2> QED BY <2>1, MutexAssumption DEF PriorityInv, PriorityRestored, OneMutex
<1>3. MutexInv'
  BY TakeFreeKeeps DEF PriorityInv
<1>4. PriorityRestored'
  BY <1>a, <1>2 DEF PriorityRestored
<1>5. Sorted(suspend_thread'[m]) /\ ToSet(suspend_thread'[m]) = {}
  BY <1>a, <1>1 DEF Sorted, ToSet
<1> QED BY <1>1, <1>2, <1>3, <1>4, <1>5 DEF PriorityInv, OneMutex

LEMMA TimeOutOrders ==
  ASSUME PriorityInv, OneMutex, NEW t \in Thread, TimeOut(t)
  PROVE  PriorityInv'
<1> DEFINE m == want[t]
           s == suspend_thread[m]
<1>a. /\ m \in Mutexes
      /\ UNCHANGED <<owner, original_priority, current_priority>>
  BY DEF TimeOut, PriorityInv, MutexInv, TypeOK
<1>1. PICK i \in 1 .. Len(s) :
        s[i] = t /\ suspend_thread' = [suspend_thread EXCEPT ![m] = RemoveAt(s, i)]
  BY DEF TimeOut, Unlink
<1>2. s \in Seq(Thread) /\ suspend_thread'[m] = RemoveAt(s, i) /\ NoDup(s)
  BY <1>a, <1>1 DEF PriorityInv, MutexInv, TypeOK, WaitersListed
<1>3. Sorted(suspend_thread'[m])
  <2> DEFINE r == RemoveAt(s, i)
  <2>1. /\ Len(r) = Len(s) - 1
        /\ \A k \in 1 .. Len(s) - 1 : r[k] = IF k < i THEN s[k] ELSE s[k + 1]
    BY <1>2, RemoveElements
  <2> HIDE DEF r
  <2>2. \A k, l \in 1 .. Len(s) : k <= l => InitPrio[s[k]] <= InitPrio[s[l]]
    BY <1>a DEF PriorityInv, Sorted
  <2>3. ASSUME NEW k \in 1 .. Len(s) - 1, NEW l \in 1 .. Len(s) - 1, k <= l
        PROVE  InitPrio[r[k]] <= InitPrio[r[l]]
    <3> DEFINE kk == IF k < i THEN k ELSE k + 1
               ll == IF l < i THEN l ELSE l + 1
    <3>1. kk \in 1 .. Len(s) /\ ll \in 1 .. Len(s) /\ kk <= ll
      BY <2>3, <1>2
    <3>2. r[k] = s[kk] /\ r[l] = s[ll]
      BY <2>1
    <3> HIDE DEF kk, ll
    <3> QED BY <3>1, <3>2, <2>2
  <2> QED BY <2>1, <2>3, <1>2 DEF Sorted, r
<1>4. ToSet(suspend_thread'[m]) \subseteq ToSet(s)
  BY <1>2, RemoveFacts
<1>5. MutexInv'
  BY TimeOutKeeps DEF PriorityInv
<1>6. PriorityRestored'
  BY <1>a DEF PriorityInv, PriorityRestored
<1> QED BY <1>a, <1>3, <1>4, <1>5, <1>6 DEF PriorityInv, OneMutex

\* After the last release every thread is back at its own priority.
LEMMA ReleaseLastOrders ==
  ASSUME PriorityInv, OneMutex, NEW t \in Thread, NEW m \in Mutexes, ReleaseLast(t, m)
  PROVE  PriorityInv'
<1> DEFINE s == suspend_thread[m]
<1>a. owner[m] = t /\ current_priority' = [current_priority EXCEPT ![t] = original_priority[m]]
  BY DEF ReleaseLast, GiveBack
<1>1. original_priority[m] = InitPrio[t]
  BY <1>a DEF PriorityInv
<1>2. \A u \in Thread : current_priority'[u] = InitPrio[u]
  <2> TAKE u \in Thread
  <2>1. CASE u = t
    BY <2>1, <1>a, <1>1 DEF PriorityInv, MutexInv, TypeOK
  <2>2. CASE u # t
    <3>1. current_priority[u] = InitPrio[u]
      BY <2>2, <1>a DEF PriorityInv, PriorityRestored, OneMutex
    <3> QED BY <3>1, <2>2, <1>a
  <2> QED BY <2>1, <2>2
<1>3. PriorityRestored'
  BY <1>2 DEF PriorityRestored
<1>4. CASE Free(m)
  <2>1. MutexInv'
    BY <1>4, FreeKeeps DEF PriorityInv
  <2>2. owner'[m] = Nobody /\ suspend_thread'[m] = <<>>
    BY <1>4 DEF Free, PriorityInv, MutexInv, TypeOK
  <2>3. Sorted(suspend_thread'[m]) /\ ToSet(suspend_thread'[m]) = {}
    BY <2>2 DEF Sorted, ToSet
  <2> QED BY <2>1, <2>2, <2>3, <1>3, MutexAssumption DEF PriorityInv, OneMutex
<1>5. CASE s # <<>> /\ HandOver(m, Head(s))
  <2> DEFINE next == Head(s)
  <2>1. MutexInv'
    BY <1>5, HandOverKeeps DEF PriorityInv
  <2>2. s \in Seq(Thread) /\ NoDup(s)
    BY DEF PriorityInv, MutexInv, TypeOK, WaitersListed
  <2>3. next \in ToSet(s) /\ next = s[1]
    BY <1>5, <2>2, TailFacts
  <2>4. /\ owner'[m] = next /\ original_priority'[m] = current_priority[next]
        /\ suspend_thread'[m] = Tail(s)
    BY <1>5 DEF HandOver, PriorityInv, MutexInv, TypeOK
  <2>5. next \in Thread /\ current_priority[next] = InitPrio[next]
    BY <2>3, WaiterIsNotOwner
  <2>6. /\ Tail(s) \in Seq(Thread) /\ Len(Tail(s)) = Len(s) - 1
        /\ \A k \in 1 .. Len(s) - 1 : Tail(s)[k] = s[k + 1]
    BY <1>5, <2>2, HeadTailProperties
  <2>7. \A k, l \in 1 .. Len(s) : k <= l => InitPrio[s[k]] <= InitPrio[s[l]]
    BY DEF PriorityInv, Sorted
  <2>8. Len(s) \in Nat
    BY <2>2
  <2>9. Sorted(Tail(s))
    <3>1. ASSUME NEW k \in 1 .. Len(s) - 1, NEW l \in 1 .. Len(s) - 1, k <= l
          PROVE  InitPrio[Tail(s)[k]] <= InitPrio[Tail(s)[l]]
      <4>1. k + 1 \in 1 .. Len(s) /\ l + 1 \in 1 .. Len(s) /\ k + 1 <= l + 1
        BY <3>1, <2>8
      <4> QED BY <4>1, <2>6, <2>7
    <3> QED BY <3>1, <2>6 DEF Sorted
  <2>10. \A u \in ToSet(Tail(s)) : u \in Thread /\ InitPrio[next] <= InitPrio[u]
    <3> TAKE u \in ToSet(Tail(s))
    <3>1. PICK k \in 1 .. Len(s) - 1 : u = s[k + 1]
      BY <2>6 DEF ToSet
    <3>2. 1 \in 1 .. Len(s) /\ k + 1 \in 1 .. Len(s) /\ 1 <= k + 1
      BY <2>8
    <3> QED BY <3>1, <3>2, <2>2, <2>3, <2>7
  <2> QED BY <2>1, <2>4, <2>5, <2>9, <2>10, <1>2, <1>3 DEF PriorityInv, OneMutex
<1> QED BY <1>4, <1>5 DEF ReleaseLast

LEMMA PriorityInit == OneMutex /\ Init => PriorityInv
<1> SUFFICES ASSUME OneMutex, Init PROVE PriorityInv
  OBVIOUS
<1>1. MutexInv
  BY MutexInit
<1>2. \A m \in Mutexes : owner[m] = Nobody /\ suspend_thread[m] = <<>>
  BY DEF Init
<1>3. PriorityRestored
  BY DEF Init, PriorityRestored
<1>4. \A m \in Mutexes : Sorted(suspend_thread[m]) /\ ToSet(suspend_thread[m]) = {}
  BY <1>2 DEF Sorted, ToSet
<1> QED BY <1>1, <1>2, <1>3, <1>4, MutexAssumption DEF PriorityInv

LEMMA PriorityStep == OneMutex /\ PriorityInv /\ [Next]_vars => PriorityInv'
<1> SUFFICES ASSUME OneMutex, PriorityInv, [Next]_vars PROVE PriorityInv'
  OBVIOUS
<1>1. MutexInv'
  BY MutexStep DEF PriorityInv
<1>2. ASSUME NEW t \in Thread, NEW m \in Mutexes,
             TakeAgain(t, m) \/ TakeRefused(t, m) \/ ReleaseRefused(t, m) \/ ReleaseNested(t, m)
      PROVE  PriorityInv'
  BY <1>1, <1>2, PrioritiesKept
     DEF TakeAgain, TakeRefused, ReleaseRefused, ReleaseNested, mutexes, tcb
<1>3. ASSUME NEW t \in Thread, NEW m \in Mutexes, Take(t, m) \/ Release(t, m)
      PROVE  PriorityInv'
  BY <1>2, <1>3, TakeFreeOrders, TakeWaitOrders, ReleaseLastOrders DEF Take, Release
<1>4. CASE \E t \in Thread : TakeReturn(t)
  BY <1>1, <1>4, PrioritiesKept DEF TakeReturn, mutexes
<1>5. CASE \E t \in Thread : TimeOut(t)
  BY <1>5, TimeOutOrders
<1>6. CASE UNCHANGED vars
  BY <1>1, <1>6, PrioritiesKept DEF vars, mutexes, tcb
<1> QED BY <1>3, <1>4, <1>5, <1>6 DEF Next

\* With one mutex and RT_IPC_FLAG_PRIO no waiter waits behind a thread between
\* its priority and the owner's.
THEOREM MutexInheritance ==
  ASSUME OneMutex PROVE Spec => []PriorityInherited
<1>1. PriorityInv => PriorityInherited
  BY DEF PriorityInv, PriorityInherited, ToSet
<1>2. Init => PriorityInv
  BY PriorityInit
<1>3. PriorityInv /\ [Next]_vars => PriorityInv'
  BY PriorityStep
<1> QED BY <1>1, <1>2, <1>3, PTL DEF Spec

\* With one mutex and RT_IPC_FLAG_PRIO the priority lent is given back.
THEOREM MutexRestoration ==
  ASSUME OneMutex PROVE Spec => []PriorityRestored
<1>1. PriorityInv => PriorityRestored
  BY DEF PriorityInv
<1>2. Init => PriorityInv
  BY PriorityInit
<1>3. PriorityInv /\ [Next]_vars => PriorityInv'
  BY PriorityStep
<1> QED BY <1>1, <1>2, <1>3, PTL DEF Spec

=============================================================================

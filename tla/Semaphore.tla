----------------------------- MODULE Semaphore -----------------------------
(***************************************************************************)
(* The semaphore of ipc.c.  A release gives its permit to the first waiter *)
(* or, when nobody waits, to the count; the waiter does not look at the    *)
(* count again.                                                            *)
(***************************************************************************)
EXTENDS IpcObject

CONSTANTS
  InitValue,    \* the value the semaphore is created with
  Width        \* sem->value counts modulo Width, 2^16 in the code

ASSUME SemaphoreAssumption ==
  /\ Width \in Nat \ {0, 1}
  /\ InitValue \in 0 .. Width - 1

VARIABLES
  value,       \* sem->value
  balance      \* history: permits given and not yet reported as taken

semVars == <<value, balance>>

SemInit == value = InitValue /\ balance = InitValue

SemTypeOK == value \in 0 .. Width - 1 /\ balance \in 0 .. Width - 1

\* The permits owed, modulo Width: a history of the returns.
Owe(n) == (balance + n + Width) % Width

-----------------------------------------------------------------------------

TakeNow(t) ==
  /\ Enters(t, "take", "sem") /\ value > 0
  /\ value' = value - 1
  /\ balance' = Owe(-1)
  /\ Finish(t, "take", "EOK")
  /\ UNCHANGED <<suspend_thread, tcb, life, scene>>

\* rt_sem_trytake, or a take with time 0.
TakeRefused(t) ==
  /\ Enters(t, "take", "sem") /\ value = 0 /\ "none" \in Limits
  /\ Finish(t, "take", "ETIMEOUT")
  /\ UNCHANGED <<semVars, suspend_thread, tcb, life, scene>>

TakeWait(t) ==
  /\ Enters(t, "take", "sem") /\ value = 0
  /\ \E limit \in Limits \ {"none"} : Suspend(t, "sem", "take", limit)
  /\ UNCHANGED <<semVars, life, scene>>

\* The permit was handed over by the release.
TakeGranted(t) ==
  /\ Woken(t, "take")
  /\ balance' = Owe(-1)
  /\ Finish(t, "take", "EOK")
  /\ UNCHANGED <<value, suspend_thread, tcb, life, scene>>

\* Wrong variant: the count is not cut to its width.
Release_Unbounded(t) ==
  /\ Enters(t, "release", "sem")
  /\ ResumeFirst("sem")
  /\ value' = IF suspend_thread["sem"] = <<>> THEN value + 1 ELSE value
  /\ balance' = Owe(1)
  /\ UNCHANGED <<error, frame, life, scene>>

Release(t) ==
  /\ Enters(t, "release", "sem")
  /\ ResumeFirst("sem")
  /\ value' = IF suspend_thread["sem"] = <<>> THEN (value + 1) % Width ELSE value
  /\ balance' = Owe(1)
  /\ UNCHANGED <<error, frame, life, scene>>

\* Those who have been handed a permit and have not run since.
Granted == {t \in Thread : Woken(t, "take")}

\* The count starts anew with any value.
SetValue ==
  \E v \in 0 .. Width - 1 :
    value' = v /\ balance' = (v + Cardinality(Granted)) % Width

\* Wrong variant: the waiters stay in the list.
SemReset_KeepWaiters ==
  /\ life["sem"] # "gone" /\ "sem" \in scene.resets
  /\ SetValue
  /\ UNCHANGED ipcVars

\* rt_sem_control(RT_IPC_CMD_RESET): the waiters fail.
SemReset == ResetList("sem") /\ SetValue

SemThread(t) == TakeNow(t) \/ TakeRefused(t) \/ TakeWait(t) \/ TakeGranted(t) \/ Release(t)

SemStep == SemReset \/ \E t \in Thread : SemThread(t)

-----------------------------------------------------------------------------

\* rt_sem_take looks at the count only when it is called, rt_sem_release only
\* at the list: a thread that waits beside a count above 0 would wait for a
\* release nobody owes it.
CountMeansNoWaiter == value > 0 => suspend_thread["sem"] = <<>>

\* rt_sem_release and rt_sem_take keep the account: what the count holds and
\* what is handed over but not yet reported is what was given and not taken,
\* whatever time-outs, resets and detachments come in between.
PermitsConserved == (value + Cardinality(Granted)) % Width = balance
=============================================================================

------------------------------ MODULE MemPool ------------------------------
(***************************************************************************)
(* The memory pool of mempool.c: blocks of one size linked into a free     *)
(* list, the first word of a block the link or, while the block is lent,   *)
(* the pool.  The last thread to wait is resumed first and looks again; a  *)
(* counter stands for the length of the list of waiters.                   *)
(***************************************************************************)
EXTENDS IpcObject

CONSTANTS
  MaxBlocks,   \* mp->block_total_count
  MaxCount     \* bound on suspend_thread_count

ASSUME MemPoolAssumption ==
  /\ MaxBlocks \in Nat \ {0}
  /\ MaxCount \in Nat \ {0}
  /\ Flag["mempool"] = "LIFO"

Block   == 1 .. MaxBlocks
NoBlock == 0
Pool    == MaxBlocks + 1    \* the address of the pool in a lent block

VARIABLES
  block_list,             \* mp->block_list
  block_free_count,       \* mp->block_free_count
  suspend_thread_count,   \* mp->suspend_thread_count
  link,                   \* the first word of a block
  lent                    \* the blocks the callers have

mpVars == <<block_list, block_free_count, suspend_thread_count, link, lent>>

MpInit ==
  /\ block_list = 1
  /\ block_free_count = MaxBlocks
  /\ suspend_thread_count = 0
  /\ link = [b \in Block |-> IF b = MaxBlocks THEN NoBlock ELSE b + 1]
  /\ lent = {}

MpTypeOK ==
  /\ block_list \in Block \cup {NoBlock}
  /\ block_free_count \in 0 .. MaxBlocks
  /\ suspend_thread_count \in 0 .. MaxCount
  /\ link \in [Block -> Block \cup {NoBlock, Pool}]
  /\ lent \subseteq Block

-----------------------------------------------------------------------------

\* The thread looks at the free list: at once, or woken without error.
MpLooks(t) == Enters(t, "mp_alloc", "mempool") \/ Woken(t, "mp_alloc")

\* The first free block becomes the caller's.
Lend(t) ==
  /\ MpLooks(t) /\ block_free_count # 0
  /\ block_free_count' = block_free_count - 1
  /\ link' = [link EXCEPT ![block_list] = Pool]
  /\ lent' = lent \cup {block_list}
  /\ Finish(t, "mp_alloc", "EOK")
  /\ UNCHANGED <<suspend_thread_count, suspend_thread, tcb, life, scene>>

\* Wrong variant: the block stays at the head of the list.
MpAlloc_KeepListed(t) == Lend(t) /\ UNCHANGED block_list

MpAlloc(t) == Lend(t) /\ block_list' = link[block_list]

MpRefused(t) ==
  /\ MpLooks(t) /\ block_free_count = 0 /\ "none" \in TimeLeft(t)
  /\ Finish(t, "mp_alloc", "ETIMEOUT")
  /\ UNCHANGED <<mpVars, suspend_thread, tcb, life, scene>>

MpWait(t) ==
  /\ MpLooks(t) /\ block_free_count = 0
  /\ suspend_thread_count < MaxCount
  /\ \E left \in TimeLeft(t) \ {"none"} : Suspend(t, "mempool", "mp_alloc", left)
  /\ suspend_thread_count' = suspend_thread_count + 1
  /\ UNCHANGED <<block_list, block_free_count, link, lent, life, scene>>

\* A lent block goes to the front of the free list, whoever returns it.
Regain(t) ==
  /\ Enters(t, "mp_free", "mempool")
  /\ \E b \in lent :
       /\ link' = [link EXCEPT ![b] = block_list]
       /\ block_list' = b
       /\ lent' = lent \ {b}
  /\ block_free_count' = block_free_count + 1

\* Nobody waits, says the counter.
MpFreeQuiet(t) ==
  /\ Regain(t) /\ suspend_thread_count = 0
  /\ UNCHANGED <<suspend_thread_count, ipcVars>>

\* One waiter is resumed.  The counter also counts those whose time is up: the
\* list may be empty, and its head is then taken for a thread.
MpFreeWakes(t) ==
  /\ Regain(t) /\ suspend_thread_count > 0
  /\ suspend_thread_count' = suspend_thread_count - 1
  /\ \/ /\ suspend_thread["mempool"] # <<>>
        /\ error' = [error EXCEPT ![Head(suspend_thread["mempool"])] = "EOK"]
        /\ ResumeFirst("mempool")
        /\ UNCHANGED <<frame, life, scene>>
     \/ /\ suspend_thread["mempool"] = <<>>
        /\ life' = [life EXCEPT !["mempool"] = "halt"]
        /\ UNCHANGED <<suspend_thread, tcb, frame, scene>>

\* Wrong variant: a waiter is resumed only when the pool was empty.
MpFree_WakeIfEmpty(t) ==
  \/ MpFreeQuiet(t)
  \/ MpFreeWakes(t) /\ block_free_count = 0
  \/ Regain(t) /\ block_free_count > 0 /\ UNCHANGED <<suspend_thread_count, ipcVars>>

MpFree(t) == MpFreeQuiet(t) \/ MpFreeWakes(t)

\* rt_mp_detach and rt_mp_delete count down the waiters they resume.
MpDetach ==
  /\ Detach("mempool")
  /\ suspend_thread_count' =
       suspend_thread_count - Len(suspend_thread["mempool"]) + Len(suspend_thread'["mempool"])
  /\ UNCHANGED <<block_list, block_free_count, link, lent>>

MpThread(t) == MpAlloc(t) \/ MpRefused(t) \/ MpWait(t) \/ MpFree(t)

MpStep == MpDetach \/ \E t \in Thread : MpThread(t)

-----------------------------------------------------------------------------

\* The n blocks linked from block_list on.
FreeBlocks ==
  LET nth[k \in 1 .. block_free_count] ==
        IF k = 1 THEN block_list
        ELSE IF nth[k - 1] \in Block THEN link[nth[k - 1]] ELSE NoBlock
  IN  nth

\* rt_mp_alloc and rt_mp_free, woken, timed out or detached in between: every
\* block is in the free list, once, or lent, and block_free_count is the length
\* of that list.
BlocksInOnePlace ==
  /\ IsInjective(FreeBlocks)
  /\ ToSet(FreeBlocks) = Block \ lent
  /\ \A b \in lent : link[b] = Pool
  /\ Len(FreeBlocks) = 0 => block_list = NoBlock
  /\ Len(FreeBlocks) > 0 => link[FreeBlocks[block_free_count]] = NoBlock

\* rt_mp_alloc loops because another thread may take the block it was woken
\* for: nobody sleeps beside a free block that no woken thread is about to take.
NoBlockIsMissed ==
  suspend_thread["mempool"] # <<>> =>
    block_free_count <= Cardinality({t \in Thread : Woken(t, "mp_alloc")})
=============================================================================

# A verification project for tp79-rtthread

The repository holds two programs for the TP79 radio (STM32F103):

- `TP79_BOOT`, a boot loader of its own that upgrades the firmware over a PoC
  modem, one loop and two interrupts, and
- `TP79_APP`, the RT-Thread 4.0.2 kernel with its device frameworks, ported to
  the board; its own application (`applications/main.c`) blinks an LED.

What can go wrong and is hard to test is in the upgrade of the boot loader and
in the kernel: the scheduler, its threads, the objects threads wait for, the
timers, and the serial lines whose interrupts run between any two steps of
their readers. The modules here model these, TLC checks them on small
instances, and TLAPS proves the safety properties and the refinements of all of
them for every value of their constants (section 4 names the hypotheses where
the callers must keep to a rule).

Paths below are relative to the repository; `ipc.c`, `thread.c`, ... are those
of `TP79_APP/rt-thread/src`, `serial.c` and `completion.c` those of
`TP79_APP/rt-thread/components/drivers`.

## 1. Inventory

### Boot loader

| part | state | operations | hard behaviour | correct when |
|---|---|---|---|---|
| firmware upgrade (`drv/poc.c`, `usr/main.c`, `drv/flash.c`, `app/device.c`) | `poc_device` (status, pack counters), boot flag, configuration page and application area in flash | `poc_task`, `poc_uart_msg_deal`, `download_code_bin` | lost, late, repeated, garbled replies, with three fields nothing protects; flash faults; power cuts at any step; five-minute give-up | what is counted is in flash; success means installed; the flag covers a torn application; the board gets back to an application |
| UART2 ring and line parser (`usr/stm32f10x_it.c`, `poc.c:352-390`) | `recv_buf`, `read_p`, `write_p`, `cmp_cnt` | `USART2_IRQHandler`, the drain loop | the interrupt against the loop, a full ring, a line across the end | bytes delivered once and in order; a full ring loses bytes, from where it is full on |
| display, keys, ADC, GPS, RTC, fonts | registers, pixels | drawing | none | - |

The parts share memory: the interrupt writes the ring, the loop reads it;
`download_code_bin` reads the status `poc_task` leaves. The modem and the
server are outside.

### Kernel

| part | state | operations | hard behaviour | correct when |
|---|---|---|---|---|
| scheduler (`scheduler.c`) | `rt_thread_priority_table`, `rt_thread_ready_priority_group`, `rt_current_thread`, `rt_scheduler_lock_nest` | `rt_schedule`, insert, remove, enter and exit critical | called from threads and interrupts | the bitmap and the queues agree; the highest ready thread runs; equals take turns |
| threads (`thread.c`, `idle.c`) | `stat`, `current_priority`, `tlist`, `thread_timer`, `rt_thread_defunct` | create, startup, yield, sleep, suspend, resume, control, exit, detach, delete, time-out, reaping | calls of several sections, with ticks in between | no thread is forgotten, none is freed while in a list |
| clock and timers (`clock.c`, `timer.c`) | `rt_tick`, sorted timer lists | start, stop, check | wrap of the tick, restart in a callback | a timer fires once, in order |
| semaphore, mutex, event, mailbox, message queue (`ipc.c`) | counters, owner, ring, list of waiters | take and release, send and receive, control, detach, delete | several waiters, time-outs against resumes, priority inheritance | no lost wake-up, nothing taken twice, the owner runs at its waiters' priority |
| memory pool (`mempool.c`) | free blocks, waiters and their count | alloc, free | waiters that time out | a block has one owner |
| heaps (`mem.c`, `memheap.c`, `slab.c`) | lists of blocks | malloc, free, realloc | splitting and merging | blocks are disjoint and cover the heap |
| objects, devices (`object.c`, `device.c`) | registries | init, find, open, close | - | - |
| console and serial output (`serial/serial.c`, `finsh/shell.c`, `src/completion.c`) | the receive ring and its indices, the shell's semaphore, the completion's flag and waiter | `rt_hw_serial_isr`, `_serial_int_rx`, `_serial_int_tx`, `finsh_getchar`, `rt_completion_wait` and `_done` | the interrupt between any two sections of the reader; a full ring; a completion signalled before it is waited for | bytes in their order, only the oldest lost; no reader asleep beside a byte, no writer beside a free transmitter |
| wait queue, data queue, work queue (`components/drivers/src`) | flag or ring, list of waiters | push and pop, submit | wrapping indices | nothing lost |
| other drivers, line editing of finsh, dfs, net, libc, HAL, ports | - | - | hardware or third-party code | - |

The objects call into threads (`rt_thread_suspend`, `rt_thread_resume`),
threads into the scheduler and the timers; the tick calls the scheduler and,
through `rt_timer_check`, `rt_thread_timeout`, which takes a thread out of the
list of the object it waits for. All share the node `thread->tlist`: a thread
is in one list at a time, and whoever takes it out must know which.

`PROJECT.json` lists every part with what is modelled of it, and every hazard
with its line and the properties that are about it.

## 2. Modules

| module | about | built on |
|---|---|---|
| `Upgrade` | the boot loader's upgrade | - |
| `UpgradeProofs` | its theorems | `Upgrade` |
| `Mailbox` | the mailbox, its lists of waiters and thread timers | `MailQueue` (refinement) |
| `MailQueue` | the promise of a mailbox: a bounded queue | - |
| `ListFacts` | lemmas on lists of waiters, remainders and induction | - |
| `MailboxProofs` | its theorems, and that it implements `MailQueue` | `Mailbox`, `ListFacts` |
| `Mutex` | recursive mutexes with priority inheritance | - |
| `MutexProofs` | its theorems | `Mutex`, `ListFacts` |
| `Scheduler` | scheduler, threads, tick and reaper | - |
| `SchedulerProofs` | its theorems | `Scheduler`, `ListFacts` |
| `IpcObject` | one object with a list of waiters, and the waiting threads' fields: what the next four share | - |
| `Semaphore`, `Event`, `MessageQueue`, `MemPool` | one kind of object each | `IpcObject`, `MsgQueue` (refinement) |
| `MsgQueue` | the promise of a message queue | - |
| `Ipc` | threads that call all four: the composition | the four |
| `IpcProofs` | its theorems, and that it implements `MsgQueue` | `Ipc`, `ListFacts` |
| `Timer` | the hard timers and the tick interrupt that runs them | - |
| `TimerProofs` | its theorems | `Timer`, `ListFacts` |
| `ConsoleInput`, `SerialWrite`, `UartLine` | the shell's input, the interrupt-driven output, the boot loader's line reader | - |
| `ByteQueue` | the promise of a receive ring, of both kinds | - |
| `Uart` | the three ends of a serial line, one behaviour each | the three, `ByteQueue` (refinement) |
| `UartProofs` | its theorems, and that both rings implement `ByteQueue` | `Uart`, `ListFacts` |
| `MCMailbox`, `MCMutex`, `MCScheduler`, `MCIpc`, `MCTimer` | instances for TLC | the above |

`Upgrade` and `Uart` need no MC module: their cfgs give numbers and model
values only. Operators whose comment begins with "Wrong variant" are not used
by any specification; each is the definition after it with one plausible
mistake, and shows that a property notices it (`PROJECT.json`, "mutants").

### Upgrade

One step is one switch of `poc_task`, one message, one flash operation or one
check of `download_code_bin`; a power cut may come between any two of them and
may tear the one under way (`Torn`). `pc` is the place in the loop. A request
adds to `asked` or raises `askedPack`; whatever was asked for since power-on
may arrive at any later time, any number of times, so loss, delay, repetition
and reordering need no channel.

Garbled replies are of two kinds. Garbled data, a garbled command or a garbled
product name make the code drop the message, which is as good as lost
(`crc_ok`; the CRC is taken to find every error in the 256 data bytes). But
nothing protects the version of `+POC:42`, the count of `+POC:4302` and the
pack number of `+POC:4303`, which the CRC does not cover. There `Believe` lets
anything arrive, as far as the constant `Garbles` says, and the history
`garbled` keeps in which of the three something wrong was believed: another
version is recorded or found the same, fewer packs make a success too early,
more make the code ask for ever for one the server does not have, and the sound
data of an earlier pack are programmed and counted at the next place (`other`).
The properties say for each which fields it depends on. The id of the image in
the version message (`server_soft_id`) and the requests are taken to arrive as
they are sent.

A place of flash is `old`, `erased`, `new`, `other` or `junk`; places past the
image's last are there for wrong numbers. The configuration page is
a version and the byte order it is read in, because `Flash_Write` and
`Flash_Read` disagree about it. `SysTick_Cnt` is early or late (300 000 ms).

### Mailbox and MailQueue

One step is one section of `ipc.c` that runs with interrupts disabled; any
thread, interrupt or tick may come between two steps, so every order the
scheduler could produce is included. A call with a time limit arms the thread
timer, which may run out at any time while it is armed; after a wake-up the
time left is computed anew and may be none (`Left`). `TimeOut` is
`rt_thread_timeout`, `Reset` is `rt_mb_control`, and `rt_mb_detach` is split
where the code looks at a list with interrupts enabled (`DetachLook`).

`MailQueue` is what callers rely on: a call takes effect at one moment between
its start and its end and fails only for the reasons listed there. The
refinement maps the ring to its mails in order, and a waiter that was woken
with an error to a call that is already done.

### Mutex

The same grain: `rt_mutex_take` is one section when it succeeds or refuses, two
when it waits. `hold` wraps at `HoldWidth` (256). `taken` is a history of what
the program was told. `Lend` and `GiveBack` are the calls of
`rt_thread_control` within take and release.

### Scheduler

`sched` is the record of what `scheduler.c` and the lists hold, so that its
operations are operators from one state to the next, composed as the code
composes them. `pc` and `arg` are per thread: a call of several sections
(startup, resume, suspend, delete) may be interrupted or switched away between
them. The head of an empty queue is `Garbage`. The lists of the IPC objects
are one set, `waiting`; which object it is plays no role here. Ticks are not
counted: a slice ends, or an armed timer fires, at any tick. `stale` records
that a priority was changed, which the code does without rescheduling.

The callers' contract is in the guards: a thread is started or deleted by one
call at a time (`LifeCall`), and nobody blocks or exits within a critical
section. `Deletes`, `Manages` and `Boosts` say who does what to whom, `Timed`,
`Waits`, `Exits` and `Static` what a thread is.

### IpcObject, Semaphore, Event, MessageQueue, MemPool, Ipc

The same grain as `Mailbox`, for the other objects with waiters. `IpcObject`
holds what every call does to its thread: `Suspend` and `Enlist` are
`rt_ipc_list_suspend` with the start of the thread timer, `ResumeFirst` and
`ResumeAll` are `rt_ipc_list_resume` and what a send, a reset or a detachment
does to the list, `TimeOut` is `rt_thread_timeout`, `Detach` the loop of
`rt_ipc_list_resume_all` that looks at the list with interrupts enabled. A
thread has one list node, one error number and one timer, whatever it waits
for, so the composition `Ipc` is one set of threads over four objects. What the
threads do is a `scene`, chosen in `Init` among the constant `Scenes`: the run
exercises the four objects in programs of their own and, in one more scene, a
thread that goes from one object to the next.

- `Semaphore`: `value` counts modulo `Width`; a release gives to the first
  waiter or to the count. `balance` is a history: permits given and not yet
  reported as taken.
- `Event`: `SendTo` goes through the waiters in the order of the list, `Left`
  is what each leaves for the next.
- `MessageQueue`: a send and a receive are two sections each (`MqTakeFree`,
  `MqLink`; `MqTake`, `MqFree`); between them the buffer is in the thread's
  `hand` and is copied with interrupts enabled. `MsgQueue` is the bounded
  queue with urgent messages that callers see; the refinement reads the queue
  off the links.
- `MemPool`: `link` is the first word of a block. `suspend_thread_count` is
  the code's counter, which a time-out does not count down: a free that finds
  it above zero and the list empty takes the list's head for a thread, where
  the model stops (`life` "halt").

### Timer

A step is one section with interrupts disabled, or one access to a field
outside of them: `rt_timer_start` computes its time-out between two sections,
`rt_timer_stop` tests the flag before and clears it after the section that
takes the timer out, `rt_timer_control` loads and stores it. The tick interrupt
runs at any such point and is not interrupted; its callbacks start, stop and
change timers. Ticks count modulo `Width` and are compared by the half of the
range their difference lies in; the history `left` counts without any wrap, and
is what the properties compare with. `Delay` bounds how late a preempted thread
inserts a timer whose time-out it has computed.

### ByteQueue, ConsoleInput, SerialWrite, UartLine, Uart

`ConsoleInput` is the ring between `rt_hw_serial_isr` and `finsh_getchar`: one
turn of the interrupt's loop is a step, because a byte may come to the receiver
while the handler runs, and so is each section of the reader. `SerialWrite` is
`_serial_int_tx` with the completion it waits for, and the transmitter. It is
the framework against any driver: the board's own `stm32_putc` polls and never
refuses a byte (`drv_usart.c:184-199`), so `PutRefused` and the wait after it
are more than this board shows.
`UartLine` is the boot loader's ring: nothing ever disables its interrupt, so
each read and write of `read_p` and `write_p` in `poc_task` is a step of its
own, down to the two halves of its `while` condition and the two assignments of
the reset. Bytes are numbered as they come; those in `seps` are line ends.

`ByteQueue` promises what both readers rely on: bytes or lines are handed over
whole, in order and once; only a full ring loses something, the console the
oldest byte and the boot loader the newest, and only text without an end that
fills `buf_temp_deal` is thrown away. The refinement reads the queue off the
ring; while the reset has moved one of the two pointers, off the moved one.

## 3. What the runs show

| run | instance | shows |
|---|---|---|
| `upgrade` | 2 packs, 2 restarts, 1 flash fault, any of the three unprotected fields garbled, counts and numbers up to 3 | `TypeOK`, `CountedPacksAreInFlash`, `SuccessMeansInstalled`, `FlagCoversTornApp`, `HandsOver` hold |
| `upgrade_version` | 2 packs, 2 restarts, nothing garbled | `SameVersionIsRecognised` is violated |
| `mailbox` | 1 sender, 2 receivers, 2 slots, priority order | `TypeOK`, `NoLostWakeup`, `TimerHasWaiter`, `ImplementsMailQueue` hold |
| `mailbox_live` | 2 senders, 2 receivers, one of the 3 threads being both, 1 slot, one priority | `WaitersAreServed` holds |
| `mailbox_detach` | 1 sender, 2 receivers | `DetachResumesThreads` is violated |
| `mutex` | 4 threads, 3 priorities, 1 mutex, nesting 2 | `TypeOK`, `TakenMeansOwned`, `WaitersHaveOwner`, `PriorityInherited`, `PriorityRestored` hold, and no deadlock |
| `mutex_nested` | 2 threads, 2 mutexes | `PriorityRestored` is violated |
| `scheduler` | 3 threads and idle, 3 priorities, nesting 2 | `TypeOK`, `ReadyTableExact`, `RunningIsHighest`, `SuspendedCanWake`, `ClosedThreadsAreOut`, `EqualsTakeTurns` hold |
| `scheduler_delete` | a thread with a time limit is deleted | `ClosedThreadsAreOut` is violated |
| `ipc` | 3 threads, 4 objects, 6 scenes | `TypeOK`, `SuspendedInOneList`, `CountMeansNoWaiter`, `PermitsConserved`, `NoWaiterIsSatisfied`, `StoreIsWhole`, `NothingIsMissed`, `ClearedBitsGoToOne`, `ImplementsMsgQueue` hold |
| `timer` | 3 timers, 2 threads, ticks modulo 12 | `TypeOK`, `ListSorted`, `StoppedStaysQuiet`, `FiresOnTime`, `EqualsInOrderOfStart`, `PendingKeepsFlag`, `CheckEnds` hold, and no deadlock |
| `uart` | rings of 3 and 5, 8 and 9 bytes, writes of 3 | `TypeOK`, `ImplementsByteQueue`, `NothingIsStuck` hold |

### The disagreements

- **A finished upgrade is not recognised** (`drv/poc.c:184`: the same version
  ends the upgrade). The version is written to flash in memory order and read
  back with the bytes of each word reversed, so the next offer of the same
  version is ignored and only the five minutes end the session.
- **Detaching a mailbox against a time-out** (`ipc.c:162`). The list is found
  non-empty with interrupts enabled; a tick empties it; its head is resumed as
  a thread and the assertion of `rt_thread_resume` (`thread.c:712`) stops the
  system. The same loop serves every object of `ipc.c`.
- **Two mutexes leave a thread boosted** (`ipc.c:832`: "change the owner
  thread to original priority"). A mutex taken while boosted records the
  boosted priority as the original one.
- **Deleting a waiting thread against its time-out** (`thread.c:423`). Between
  the removal from the scheduler and the detachment of the timer a tick makes
  the thread ready again; it is then closed and left to the idle thread while
  it is in the list of another object.

In all passing runs these four are out of the instance (one mutex; no deleted
thread with a time limit) or not what the property is about.

### Known behaviours the models keep

No text of the repository says otherwise of these, so they are not runs that
expect a violation; the properties are stated around them.

- A one-shot timer that its own callback has started again loses
  `RT_TIMER_FLAG_ACTIVATED` when `rt_timer_check` goes on (`timer.c:540`), and
  `rt_timer_control` loads and stores the flag without a lock. Such a timer is
  in the list but `rt_timer_stop` refuses it: `PendingKeepsFlag` names these
  two cases and says that there is no third.
- `rt_mp_alloc` counts a waiter that `rt_thread_timeout` takes away for ever;
  a later `rt_mp_free` resumes the head of the empty list (`mempool.c:420`).
  `Ipc` stops there, and its properties hold up to that moment.
- `rt_ipc_list_resume_all` and `rt_mp_detach` resume a head that a time-out
  took away in between (`mailbox_detach` shows it for the mailbox).
- The version, the count and the pack number of the modem's replies are
  believed as they arrive (`poc.c:184`, `poc.c:210`, `poc.c:220`). What a garbled
  one does is in the model, and the properties of `Upgrade` name it.
- A line of `DealLen` bytes or more that ends is not copied faithfully by
  `poc_task` (the lengths are reduced modulo the buffer's): `DealTooLong`.
- `_serial_dma_tx` tests the state of the channel after it has pushed the
  data, and the data queue it pushes to has no other caller; no port of the
  board has a DMA channel, so this path is not modelled.

### Bounds and why they are enough

- `N = 2`: a first pack (with the erase) and a last one, and one that comes
  again under the number of the other. `MaxSum = 3`: a count of 3 asks for a
  pack the server does not have, and the number 3 is past the image; 0 and 1
  are the counts that are too small. `MaxBoot = 2`: a cut within an upgrade and
  one within the next, or an upgrade asked for by the application. `MaxFault =
  1`: one fault already keeps a page bad. The safety theorems hold for all
  values.
- `Size = 2` lets the ring wrap with one slot free; `Size = 1` makes every mail
  fill it. In `mailbox` two receivers of different priority give a woken
  thread, one that takes its mail first, and one that overtakes in the list; the
  one sender is never overtaken. In `mailbox_live` the thread that is both may
  fill the slot for which a sender was woken. The theorems hold for all values.
- A low owner, a high waiter and two equal ones between them: the case of
  inversion, and the order among equals. `Depth = 2` nests. The theorems hold
  for all values.
- Two threads of equal priority under a high one, and the idle thread, each
  operation given to at least one thread: two take turns, one preempts.
  `MaxNest = 2` tells the outermost exit from an inner one. `scheduler` gives
  the deleted thread no time limit, which is the case `scheduler_delete` shows.

- `ipc`: three threads let one overtake another in the list and a third act in
  between; two buffers and two blocks make full, empty and one in hand. A
  semaphore of `Width` 3 wraps, `MaxCount` 4 lets `suspend_thread_count`
  outgrow the number of waiters, two bits tell AND from OR and let one waiter
  clear what the next one wants.
- `timer`: `Width` 12 is just above what `MaxTime + Delay < Half` allows, so
  that the ticks wrap in every order of three timers. `Times` 1 and 3 make
  equal and different time-outs, `Delay` 1 a timer that is due when inserted.
- `uart`: a console ring of 3 holds 2 bytes and wraps twice within 8; a line
  ring of 5 with lines of up to 2 bytes wraps within 9, drops a byte when
  full, and 3 bytes without an end fill `DealLen`. `SemWidth` above `MaxBytes`
  says that fewer than 2^16 interrupts come between a read that finds nothing
  and the take that follows it.

### Fairness and why the code justifies it

- `Upgrade`: the loop runs on (`WF` of `Boot` and `Loop`) and the clock ticks.
  A pack asked for again and again arrives some time as it was sent (`SF` of
  `RecvPack` with a number that is right: no garbled message has to come), for
  the resend timer runs out again and again (`SF` of the request). Messages do
  not keep the loop from ever finding an empty ring after success
  (`SF` of `DrainDone`), since a line at 115200 baud is slower than a pass.
  `HandsOver` is stated for a sound flash and a count as it was sent: the
  pack that cannot be programmed, or that the server does not have, is asked
  for for ever. Garbled versions and pack numbers do not keep the board from
  handing over.
- `Mailbox`: a thread that is ready runs (`WF` per thread): in
  `mailbox_live` the threads have one priority (`MCEqual`) and take turns,
  which is `EqualsTakeTurns` of `Scheduler`. The runs with two priorities claim
  no liveness: a low thread may starve beside a high one that polls. No
  thread has to call, and no timer has to fire.
- `Scheduler`: a call that has begun goes on while its thread has the
  processor; critical sections end; some time slice ends outside of them
  (`SF`). The last is an assumption the code needs: `rt_tick_increase` loses
  the yield of a slice that ends within one.
- `Timer`: the handler of the clock interrupt goes on when a callback has
  returned, and every callback returns (`WF`). That its loop ends is then a
  matter of the time-outs: none is 0.
- `Uart`: a pending interrupt is served, the transmitter sends what it has, a
  ready thread runs, `poc_task` is called again and again (`WF` of each).
  Nobody has to type, to write or to answer.

## 4. What is proved

All theorems are about the specifications TLC runs, from the named assumptions
on the constants alone (`UpgradeAssumption`, `SchedulerAssumption`,
`MailboxAssumption`, `MutexAssumption`, `TimerAssumption`, for `Ipc` those of
`IpcObject`, `Semaphore`, `Event`, `MessageQueue` and `MemPool`, and for `Uart`
`ConsoleAssumption`, `WriteAssumption` and `UartAssumption`), unless said
otherwise.

`ListFacts` has what several proofs need: what inserting into and taking from a
list without repetition does, remainders (`RemainderUnique`, `CutEarly`,
`NearRemainder`), and induction. An induction is stated about the set of the
numbers that have a property (`Induct`, from `Least`, which is the
well-foundedness of the naturals), and a recursive function about its own values
(`Recursion`), so that `Left`, `Chain` and `FreeBlocks` can be reasoned about.

- `UpgradeProofs`. `UpgradeInv` strengthens the properties by where the code
  is: the erase comes before the first count (`EraseComesFirst`), the server's
  version before the image (`VersionComesFirst`), a status implies the counters
  it was entered with (`StatusMatchesCount`), and with the server's version on
  record no image is ever asked for (`RecordKeepsImage`). The last is what makes
  a late reply harmless; without it `SuccessMeansInstalled` is not inductive.
  Nothing is assumed about what the line garbles: each part, like each property,
  names the unprotected fields it depends on and holds whatever happens to the
  others. `EraseComesFirst` says how far a wrong number reaches: the data in
  hand are those of the next pack of the image, unless a number was garbled.
  Theorems: `UpgradeType`,
  `CountedInFlash`, `SuccessIsInstalled`, and the action property
  `FlagCovers`.
- `SchedulerProofs`. The operations of `scheduler.c` come first, as lemmas
  from one state of the lists to the next: removal and insertion keep the
  ready table in agreement with its group (`TableOK`), and `rt_schedule`
  switches to a thread of the table, or to none (`SwitchFacts`,
  `ScheduleFacts`). `SchedulerInv` adds where each thread is in its calls: what
  a call on another thread needs of that thread (`CallOK`), that a ready
  thread is queued or being deleted, that a suspended one can be woken, that
  only a thread about to schedule has the processor without running
  (`CurrentOK`), and that nobody is above a thread that is not about to
  schedule (`HighOK`). One lemma, `StepOn`, says what a step of one thread on
  another leaves alone, so that each action has only that one thread left to
  account for. Theorems: `SchedulerTypes`, `SchedulerTable`,
  `SchedulerRunsHighest`, `SchedulerForgetsNobody`, `SchedulerBuriesWhole`.
  They are about callers that keep to two rules, which are hypotheses and are
  not in the code. `Contract`, on the constants: a thread that is deleted has
  no time limit (`scheduler_delete` shows why), is not managed and keeps its
  priority; a managed thread has one manager and does not wait or exit by
  itself. `Considerate`, on the steps: nobody deletes a thread in the middle
  of its call on another one (the thread it was starting would stay suspended
  for ever), or resumes one that is being started or deleted (its node would
  be inserted twice). The instance of `scheduler` keeps to `Contract`.
- `MailboxProofs`. `MailboxInv` adds that the lists hold exactly the sleeping
  threads, each once (`WaitersListed`), and that only calls sleep
  (`SleepersCall`). From these every wake-up is a thread of the set
  `Woken`, and the inequality of `NoLostWakeup` is kept by counting: a mail in
  adds one to both sides, a thread that tries again takes from both. Theorems:
  `MailboxType`, `MailboxWakeups`, `MailboxTimers`. For the refinement each
  action maps to a step of `MailQueue` or to none; the ring's lemmas say that
  writing at `in_offset` appends and reading at `out_offset` takes the head, and
  `ReturnsTidy` that a call that is over has no waiting time left over.
  Theorem: `MailboxImplementsMailQueue`.
- `MutexProofs`. `MutexInv` says that the lists hold exactly the sleeping
  threads, that a mutex is free or owned, and that ownership agrees with what
  the program was told. Theorems: `MutexType`, `MutexOwnership`,
  `MutexWaiters`. `MutexInheritance` and `MutexRestoration` assume one mutex
  and waiters in priority order (`OneMutex`): `mutex_nested` shows that two
  break the second, and a FIFO list breaks the first. Their invariant adds
  that the list is sorted by the threads' own priorities.
- `IpcProofs`. `IInv` is four parts that the actions of the four objects keep
  together, because all work on the same threads: `IpcInv`, that the lists
  hold exactly the suspended threads, each once and in the list of the object
  its call is about; `SemInv`, that a positive count leaves nobody waiting and
  that the permits add up modulo the width; `MqInv` and `MpInv`, that while
  somebody waits there are no more messages or free blocks than threads woken
  for them and not yet back in their calls. The last is kept by counting, as
  for the mailbox: what comes in wakes one, who tries again takes one or finds
  none. Theorems: `IpcWaiters`, `SemaphoreWaiters`, `SemaphoreAccount`,
  `IpcNothingMissed`.

  On top of `IInv` each object has an invariant of its own:
  - `EventInv` is inductive as the property stands, once it is known what a send
    does: `LeftFacts` and `SendFacts` say, by induction along the list, that the
    bits only become fewer, that who is passed over is not satisfied by what the
    ones before left (nor by anything less, `FewerSatisfy`), and that what one
    clears is not there for the ones behind. Theorems: `EventWaiters`,
    `EventClears`; for the second, `OnlySendsWake` says that no other step wakes
    a receiver without an error.
  - `PoolInv` names the free list: a sequence without repetition, linked from
    `block_list` to the end (`Linked`), of `block_free_count` blocks, which are
    those not lent. `FreeBlocksAre` says that following the links gives this
    sequence. Theorem: `PoolBlocks`.
  - `StoreInv` does the same for the queue and the free list of the message
    buffers (`Shelf`), and adds who holds a buffer: exactly the threads between
    their two sections (`HandsKnown`), no two the same. That the counts add up
    follows by counting (`ShelfCount`); that a reset leaves one list follows
    because turning the queue's links round gives its reverse (`LinkedReverse`).
    Theorem: `IpcStores`, with `PoolBlocks`; and `IpcType` from all four.
  - `CallersKnown` is what the refinement needs of the callers: a thread's `word`
    belongs to its own call, and is there from the reservation to the link and
    from the copy to the return; the buffer a receiver is reading has not been
    freed; a waiter has time left. Each step of `Ipc` then is a step of
    `MsgQueue` or none: a send takes effect when it links its buffer, a receive
    when it takes one out, a refusal or an error when it is decided. A refusal
    with `EFULL` is right for the callers because the buffers not in the queue
    and not free are held by threads that have begun to send or to receive
    (`Room`). The steps of the other objects leave the callers of the queue
    alone (`Elsewhere`).
    Theorem: `IpcImplementsMsgQueue`.
- `TimerProofs`. The properties compare time-outs by `left`, the code by ticks
  modulo `Width`. `TimerInv` ties the two: a timer's `timeout_tick` is the tick
  plus what is left, modulo the width (`Dues`), and what is left lies between
  `-Delay` and `MaxTime` (`Bounds`), that is within half of the range, where the
  comparison of the code agrees with the one of the integers. The rest is about
  who may touch a timer between two sections: what a thread has taken out of the
  list nobody else puts back (`Held`), and a stopped timer is on no way to it
  (`Quiet`). Theorems: `TimerType`, `TimerSorted`, `TimerQuiet`, and the action
  properties `TimerOnTime`, `TimerEquals`, `TimerFlag`.
- `UartProofs`. The content of a ring is a sequence; `ContentPut` and
  `ContentTake` say what advancing one index does to it. `ConsoleInv` says that a
  full ring is not an empty one and that what is unread are bytes that came.
  `LineInv` says where `poc_task` is: no byte before `cmp_cnt` ends a line, what
  it has looked at since is what it read, and during the reset, whose two
  assignments an interrupt may separate, where the pointers can be. Theorems:
  `UartType`, `UartImplementsByteQueue`.

Only model-checked is liveness, which is beyond the proof system:
`HandsOver`, `WaitersAreServed`, `EqualsTakeTurns`, `CheckEnds` and
`NothingIsStuck`.

## 5. Not modelled, and the plan

Not modelled:

- drivers, processor ports, HAL and board files: register accesses;
- line editing and commands of the shell, file systems, network, libc and lwp:
  third-party, optional, or not configured for the board;
- signals, SMP and soft timers: not configured (`rtconfig.h`), the code is not
  compiled;
- object and device registries, start-up, `kservice.c`: straight-line code
  called in thread context;
- heaps (`mem.c`, `memheap.c`, `slab.c`): a list of blocks by address, used
  under one lock; a test reaches what a model would;
- wait queue, data queue, work queue, ring buffers and pipe: no caller in the
  configured build but the DMA output, and no port has a DMA channel;
- `rt_completion_wait` with a time limit (nobody gives one), `rt_tick_set` (no
  caller), detaching a mutex (the loop is that of `IpcObject`'s `Detach`), and
  periodic timers of time 0, for which `rt_timer_check` does not end.

Left to do: detaching and deleting a mutex, with what they do to a boosted
owner.

---------------------------- MODULE SerialWrite ----------------------------
(***************************************************************************)
(* Interrupt-driven output of a serial device: _serial_int_tx offers byte  *)
(* after byte to the transmitter and, when it is busy, waits for the       *)
(* completion that the interrupt of the transmitter signals.  One thread   *)
(* writes.                                                                 *)
(*                                                                         *)
(* This is the framework's contract with a driver.  The driver of this     *)
(* board keeps less of it busy: stm32_putc polls until the byte is out,    *)
(* never refuses one and never signals an end (drv_usart.c:184-199), so on *)
(* this board PutRefused and all that follows it do not happen.            *)
(***************************************************************************)
EXTENDS Integers

CONSTANT MaxLength   \* bound on the length of a write

ASSUME WriteAssumption == MaxLength \in Nat

VARIABLES
  length,           \* the bytes of the write that are left
  writer,           \* where the writing thread is
  flag,             \* completion->flag: RT_COMPLETED
  asleep,           \* the thread is in completion->suspended_list
  busy,             \* the transmitter has a byte
  done              \* its interrupt is pending

writeVars == <<length, writer, flag, asleep, busy, done>>

\* rt_completion_init by rt_serial_open.
WriteInit ==
  /\ length = 0 /\ writer = "idle"
  /\ flag = FALSE /\ asleep = FALSE
  /\ busy = FALSE /\ done = FALSE

WriteTypeOK ==
  /\ length \in 0 .. MaxLength
  /\ writer \in {"idle", "put", "wait", "asleep"}
  /\ {flag, asleep, busy, done} \subseteq BOOLEAN

-----------------------------------------------------------------------------
(* The writer.                                                             *)

WriteBegin ==
  /\ writer = "idle"
  /\ \E n \in 1 .. MaxLength : length' = n
  /\ writer' = "put"
  /\ UNCHANGED <<flag, asleep, busy, done>>

\* putc accepts the byte.
PutByte ==
  /\ writer = "put" /\ length > 0 /\ ~busy
  /\ busy' = TRUE
  /\ length' = length - 1
  /\ UNCHANGED <<writer, flag, asleep, done>>

\* putc returns -1, as a driver may that does not poll.
PutRefused ==
  /\ writer = "put" /\ length > 0 /\ busy
  /\ writer' = "wait"
  /\ UNCHANGED <<length, flag, asleep, busy, done>>

WriteEnd ==
  /\ writer = "put" /\ length = 0
  /\ writer' = "idle"
  /\ UNCHANGED <<length, flag, asleep, busy, done>>

\* rt_completion_wait: the flag is up, perhaps from a byte sent long ago.
WaitNot ==
  /\ writer = "wait" /\ flag
  /\ flag' = FALSE
  /\ writer' = "put"
  /\ UNCHANGED <<length, asleep, busy, done>>

WaitSuspend ==
  /\ writer = "wait" /\ ~flag
  /\ asleep' = TRUE
  /\ writer' = "asleep"
  /\ UNCHANGED <<length, flag, busy, done>>

\* Wrong variant: the flag goes down before the wait, not after it.
Wait_ClearFirst ==
  /\ writer = "wait"
  /\ flag' = FALSE
  /\ asleep' = TRUE
  /\ writer' = "asleep"
  /\ UNCHANGED <<length, busy, done>>

\* rt_completion_wait up to the schedule.
Wait == WaitNot \/ WaitSuspend

\* Resumed: the flag goes down in a section of its own.
Resumed ==
  /\ writer = "asleep" /\ ~asleep
  /\ flag' = FALSE
  /\ writer' = "put"
  /\ UNCHANGED <<length, asleep, busy, done>>

-----------------------------------------------------------------------------
(* The transmitter and its interrupt.                                      *)

Sent ==
  /\ busy
  /\ busy' = FALSE
  /\ done' = TRUE
  /\ UNCHANGED <<length, writer, flag, asleep>>

\* RT_SERIAL_EVENT_TX_DONE: rt_completion_done, which does nothing when the
\* flag is up.
TxDone ==
  /\ done
  /\ done' = FALSE
  /\ flag' = TRUE
  /\ asleep' = (asleep /\ flag)
  /\ UNCHANGED <<length, writer, busy>>

Writer    == PutByte \/ PutRefused \/ WriteEnd \/ Wait \/ Resumed
WriteStep == WriteBegin \/ Writer \/ Sent \/ TxDone
=============================================================================

---------------------------- MODULE ConsoleInput ----------------------------
(***************************************************************************)
(* The console of the application: rt_hw_serial_isr puts what the receiver *)
(* holds into a ring and releases the semaphore of the shell;              *)
(* finsh_getchar reads the ring and waits for the semaphore when it finds  *)
(* nothing.  The interrupt comes between any two sections of the shell.    *)
(***************************************************************************)
EXTENDS Integers, SequencesExt

CONSTANTS
  BufSize,     \* serial->config.bufsz
  SemWidth,    \* rx_sem counts modulo SemWidth, 2^16 in the code
  MaxBytes     \* bound on the bytes that come

ASSUME ConsoleAssumption ==
  /\ BufSize \in Nat \ {0, 1}
  /\ MaxBytes \in Nat
  /\ SemWidth \in Nat /\ SemWidth > MaxBytes

VARIABLES
  put_index, get_index, is_full, buffer,   \* the struct rt_serial_rx_fifo
  came,      \* how many bytes have come; they are numbered from 1
  rdr,       \* the byte in the receiver, 0: none
  isr,       \* the interrupt handler runs
  rx_sem,    \* the count of shell->rx_sem
  shell,     \* where finsh_getchar is
  typed      \* what it has returned

fifo        == <<put_index, get_index, is_full, buffer>>
consoleVars == <<fifo, came, rdr, isr, rx_sem, shell, typed>>

Slot == 0 .. BufSize - 1

ConsoleInit ==
  /\ put_index = 0 /\ get_index = 0 /\ is_full = FALSE
  /\ buffer = [i \in Slot |-> 0]
  /\ came = 0 /\ rdr = 0 /\ isr = FALSE
  /\ rx_sem = 0 /\ shell = "read" /\ typed = <<>>

ConsoleTypeOK ==
  /\ put_index \in Slot /\ get_index \in Slot /\ is_full \in BOOLEAN
  /\ buffer \in [Slot -> 0 .. MaxBytes]
  /\ came \in 0 .. MaxBytes /\ rdr \in 0 .. came /\ isr \in BOOLEAN
  /\ rx_sem \in 0 .. SemWidth - 1
  /\ shell \in {"read", "take", "wait"}
  /\ typed \in Seq(1 .. came)

After(i) == (i + 1) % BufSize

-----------------------------------------------------------------------------
(* The receiver and the interrupt.                                         *)

\* A byte that comes while the receiver holds one is lost by the hardware.
Receive ==
  /\ came < MaxBytes /\ rdr = 0
  /\ came' = came + 1 /\ rdr' = came + 1
  /\ UNCHANGED <<fifo, isr, rx_sem, shell, typed>>

IsrEnter ==
  /\ rdr # 0 /\ ~isr
  /\ isr' = TRUE
  /\ UNCHANGED <<fifo, came, rdr, rx_sem, shell, typed>>

\* One turn of the loop: the byte is stored.
StoreByte ==
  /\ isr /\ rdr # 0
  /\ buffer' = [buffer EXCEPT ![put_index] = rdr]
  /\ put_index' = After(put_index)
  /\ rdr' = 0
  /\ UNCHANGED <<came, isr, rx_sem, shell, typed>>

\* Wrong variant: the oldest byte is not given up.
IsrStore_Overrun == StoreByte /\ UNCHANGED <<get_index, is_full>>

\* The byte is stored, and the oldest given up when the indices meet.
IsrStore ==
  /\ StoreByte
  /\ IF After(put_index) = get_index
     THEN get_index' = After(get_index) /\ is_full' = TRUE
     ELSE UNCHANGED <<get_index, is_full>>

\* Wrong variant: finsh_rx_ind wakes the shell only if it waits already.
Release_IfWaiting ==
  shell' = (IF shell = "wait" THEN "read" ELSE shell) /\ UNCHANGED rx_sem

\* rt_sem_release by finsh_rx_ind: the shell is resumed or the count goes up.
Release ==
  IF shell = "wait"
  THEN shell' = "read" /\ UNCHANGED rx_sem
  ELSE rx_sem' = (rx_sem + 1) % SemWidth /\ UNCHANGED shell

\* rx_length: 0 when the indices are equal.
RxLength ==
  IF put_index >= get_index THEN put_index - get_index
                            ELSE BufSize - (get_index - put_index)

\* The receiver is empty: rx_indicate, and the end of the handler.
IsrIndicate ==
  /\ isr /\ rdr = 0
  /\ isr' = FALSE
  /\ IF RxLength # 0 THEN Release ELSE UNCHANGED <<rx_sem, shell>>
  /\ UNCHANGED <<fifo, came, rdr, typed>>

-----------------------------------------------------------------------------
(* The shell.                                                              *)

Empty == get_index = put_index /\ ~is_full

\* rt_device_read of one byte, _serial_int_rx.
ReadByte ==
  /\ ~isr /\ shell = "read" /\ ~Empty
  /\ typed' = Append(typed, buffer[get_index])
  /\ get_index' = After(get_index)
  /\ is_full' = FALSE
  /\ UNCHANGED <<put_index, buffer, came, rdr, isr, rx_sem, shell>>

ReadNothing ==
  /\ ~isr /\ shell = "read" /\ Empty
  /\ shell' = "take"
  /\ UNCHANGED <<fifo, came, rdr, isr, rx_sem, typed>>

\* rt_sem_take(&shell->rx_sem, RT_WAITING_FOREVER).
TakeSem ==
  /\ ~isr /\ shell = "take"
  /\ IF rx_sem > 0 THEN rx_sem' = rx_sem - 1 /\ shell' = "read"
                   ELSE shell' = "wait" /\ UNCHANGED rx_sem
  /\ UNCHANGED <<fifo, came, rdr, isr, typed>>

Interrupt   == IsrEnter \/ IsrStore \/ IsrIndicate
Shell       == ReadByte \/ ReadNothing \/ TakeSem
ConsoleStep == Receive \/ Interrupt \/ Shell

-----------------------------------------------------------------------------

\* The unread bytes, the oldest first.
Unread == [i \in 1 .. RxLength |-> buffer[(get_index + i - 1) % BufSize]]
=============================================================================

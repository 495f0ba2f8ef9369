------------------------------ MODULE UartLine ------------------------------
(***************************************************************************)
(* The boot loader's reader of the modem's answers: USART2_IRQHandler puts *)
(* bytes into a ring, poc_task looks for the end of a line in it, copies   *)
(* the line out and hands it to poc_uart_msg_deal.  No interrupt is ever   *)
(* disabled: the handler runs between any two accesses of poc_task.        *)
(***************************************************************************)
EXTENDS Integers, SequencesExt

CONSTANTS
  RxLen,      \* UART_RXBUF_LEN_MAX
  DealLen,    \* the length of buf_temp_deal
  MaxChars    \* bound on the bytes that come

ASSUME UartAssumption ==
  /\ DealLen \in Nat \ {0}
  /\ RxLen \in Nat /\ RxLen > DealLen
  /\ MaxChars \in Nat

VARIABLES
  recv_buf, write_p, read_p,   \* device_uart2
  cmp_cnt,                     \* how far poc_task has looked
  task,                        \* where poc_task is
  deal,                        \* the line in buf_temp_deal
  handled,                     \* the bytes of all lines handed over
  chars,                       \* how many bytes have come, numbered from 1
  seps                         \* which of them are '\r' or '\n'

lineVars == <<recv_buf, write_p, read_p, cmp_cnt, task, deal, handled, chars, seps>>

\* uart2_config.
LineInit ==
  /\ recv_buf = [i \in 0 .. RxLen - 1 |-> 0]
  /\ write_p = 0 /\ read_p = 0 /\ cmp_cnt = 0
  /\ task = "while" /\ deal = <<>> /\ handled = <<>>
  /\ chars = 0 /\ seps = {}

Steps == {"while", "look", "ahead", "room", "wrapped", "room_wrapped",
          "end", "advance", "reset", "halt"}

LineTypeOK ==
  /\ recv_buf \in [0 .. RxLen - 1 -> 0 .. chars]
  /\ write_p \in 0 .. RxLen - 1 /\ read_p \in 0 .. RxLen - 1
  /\ cmp_cnt \in 0 .. RxLen - 1
  /\ task \in Steps
  /\ deal \in Seq(1 .. chars) /\ handled \in Seq(1 .. chars)
  /\ chars \in 0 .. MaxChars /\ seps \subseteq 1 .. chars

-----------------------------------------------------------------------------
(* The interrupt.                                                          *)

Arrive ==
  /\ task # "halt" /\ chars < MaxChars
  /\ chars' = chars + 1
  /\ \/ UNCHANGED seps
     \/ seps' = seps \cup {chars + 1}
  /\ UNCHANGED <<read_p, cmp_cnt, task, deal, handled>>

StoreChar ==
  /\ recv_buf' = [recv_buf EXCEPT ![write_p] = chars + 1]
  /\ write_p' = (write_p + 1) % RxLen

\* Wrong variant: a full ring takes another byte.
Usart2_Unguarded == Arrive /\ StoreChar

\* USART2_IRQHandler: a byte for which there is no room is dropped.
Usart2 ==
  /\ Arrive
  /\ IF (write_p + 1) % RxLen # read_p
     THEN StoreChar
     ELSE UNCHANGED <<recv_buf, write_p>>

-----------------------------------------------------------------------------
(* poc_task, one access to the ring's pointers a step.                     *)

At(step)   == task = step
Goto(step) == task' = step

Ring == <<recv_buf, write_p, chars, seps>>

\* The loop goes on as long as there are unread bytes.
Loop ==
  /\ At("while") /\ read_p # write_p /\ Goto("look")
  /\ UNCHANGED <<Ring, read_p, cmp_cnt, deal, handled>>

IsEnd == recv_buf[(read_p + cmp_cnt) % RxLen] \in seps

\* n bytes of recv_buf from place p on.
Bytes(p, n) == [i \in 1 .. n |-> recv_buf[p + i - 1]]

\* What the one or two memcpy put into buf_temp_deal.
Copied ==
  LET first == (RxLen - read_p) % DealLen
  IN  IF read_p + cmp_cnt < RxLen THEN Bytes(read_p, cmp_cnt)
      ELSE Bytes(read_p, first)
             \o Bytes(0, ((read_p + cmp_cnt) % RxLen) % (DealLen - first))

\* The end of a line that buf_temp_deal holds: poc_uart_msg_deal gets it,
\* unless it is shorter than two bytes.
Deal ==
  /\ At("look") /\ IsEnd /\ cmp_cnt < DealLen
  /\ deal' = IF cmp_cnt >= 2 THEN Copied ELSE <<>>
  /\ Goto("advance")
  /\ UNCHANGED <<Ring, read_p, cmp_cnt, handled>>

\* A longer line is not copied faithfully: the model ends here.
DealTooLong ==
  /\ At("look") /\ IsEnd /\ cmp_cnt >= DealLen
  /\ Goto("halt")
  /\ UNCHANGED <<Ring, read_p, cmp_cnt, deal, handled>>

LineOver ==
  /\ At("advance")
  /\ cmp_cnt' = 0
  /\ handled' = handled \o deal
  /\ deal' = <<>>
  /\ Goto("while")
  /\ UNCHANGED Ring

\* Wrong variant: read_p does not wrap.
Advance_NoWrap == LineOver /\ read_p' = read_p + cmp_cnt + 1

\* The line is over, with its end.
Advance == LineOver /\ read_p' = (read_p + cmp_cnt + 1) % RxLen

LookOn ==
  /\ At("look") /\ ~IsEnd /\ Goto("ahead")
  /\ UNCHANGED <<Ring, read_p, cmp_cnt, deal, handled>>

\* The two halves of the condition, each read of write_p on its own.
Ahead ==
  /\ At("ahead")
  /\ Goto(IF read_p < write_p THEN "room" ELSE "wrapped")
  /\ UNCHANGED <<Ring, read_p, cmp_cnt, deal, handled>>

Room ==
  /\ At("room")
  /\ IF cmp_cnt + 1 < write_p - read_p
     THEN cmp_cnt' = cmp_cnt + 1 /\ Goto("while")
     ELSE Goto("wrapped") /\ UNCHANGED cmp_cnt
  /\ UNCHANGED <<Ring, read_p, deal, handled>>

Wrapped ==
  /\ At("wrapped")
  /\ Goto(IF read_p > write_p THEN "room_wrapped" ELSE "end")
  /\ UNCHANGED <<Ring, read_p, cmp_cnt, deal, handled>>

RoomWrapped ==
  /\ At("room_wrapped")
  /\ IF cmp_cnt + 1 < RxLen - read_p + write_p
     THEN cmp_cnt' = cmp_cnt + 1 /\ Goto("while")
     ELSE Goto("end") /\ UNCHANGED cmp_cnt
  /\ UNCHANGED <<Ring, read_p, deal, handled>>

\* All bytes are looked at: poc_task returns and comes back later.
GiveUp ==
  /\ At("end") /\ cmp_cnt < DealLen /\ Goto("while")
  /\ UNCHANGED <<Ring, read_p, cmp_cnt, deal, handled>>

\* They fill buf_temp_deal: they are thrown away, write_p first.
Reset ==
  /\ At("end") /\ cmp_cnt >= DealLen /\ Goto("reset")
  /\ write_p' = 0
  /\ UNCHANGED <<recv_buf, chars, seps, read_p, cmp_cnt, deal, handled>>

ResetEnd ==
  /\ At("reset") /\ Goto("while")
  /\ read_p' = 0 /\ cmp_cnt' = 0
  /\ UNCHANGED <<Ring, deal, handled>>

PocTask ==
  \/ Loop \/ Deal \/ DealTooLong \/ Advance \/ LookOn
  \/ Ahead \/ Room \/ Wrapped \/ RoomWrapped
  \/ GiveUp \/ Reset \/ ResetEnd

LineStep == Usart2 \/ PocTask

-----------------------------------------------------------------------------

\* Where the unread bytes begin: read_p is not yet reset when write_p is.
First == IF At("reset") THEN 0 ELSE read_p

\* The unread bytes, the oldest first.
Unhandled ==
  [i \in 1 .. (write_p - First + RxLen) % RxLen |-> recv_buf[(First + i - 1) % RxLen]]
=============================================================================

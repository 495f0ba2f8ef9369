-------------------------------- MODULE Uart --------------------------------
(***************************************************************************)
(* The three ends of serial lines the two programs of the board have: the  *)
(* console of the application and its interrupt-driven output, and the     *)
(* line reader of the boot loader.  A behaviour is about one of them.      *)
(***************************************************************************)
EXTENDS ConsoleInput, SerialWrite, UartLine

VARIABLE scene    \* the end at work: "console", "write" or "line"

vars == <<consoleVars, writeVars, lineVars, scene>>

Init ==
  /\ ConsoleInit /\ WriteInit /\ LineInit
  /\ scene \in {"console", "write", "line"}

\* A step of one end, which is at work.
Console(A) == scene = "console" /\ A /\ UNCHANGED <<writeVars, lineVars, scene>>
Write(A)   == scene = "write" /\ A /\ UNCHANGED <<consoleVars, lineVars, scene>>
LineIn(A)  == scene = "line" /\ A /\ UNCHANGED <<consoleVars, writeVars, scene>>

Next == Console(ConsoleStep) \/ Write(WriteStep) \/ LineIn(LineStep)

\* The handlers run when their interrupts are pending, the transmitter sends
\* what it has, the threads run when they are ready, poc_task is called again
\* and again.  Nobody has to type, to write or to answer.
Fairness ==
  /\ WF_vars(Console(Interrupt)) /\ WF_vars(Console(Shell))
  /\ WF_vars(Write(Writer)) /\ WF_vars(Write(Sent)) /\ WF_vars(Write(TxDone))
  /\ WF_vars(LineIn(PocTask))

FairSpec == Init /\ [][Next]_vars /\ Fairness

\* Every variable has its type.
TypeOK == ConsoleTypeOK /\ WriteTypeOK /\ LineTypeOK

-----------------------------------------------------------------------------

Line == scene = "line"

\* The byte in the receiver has not come to the queue yet.
Stored == IF rdr = 0 THEN came ELSE came - 1

Promise == INSTANCE ByteQueue WITH
  Size <- [k \in {"console", "line"} |-> IF k = "line" THEN RxLen - 1 ELSE BufSize - 1],
  LineMax <- DealLen,
  kind <- IF Line THEN "line" ELSE "console",
  queue <- IF Line THEN Unhandled ELSE Unread,
  last <- IF Line THEN chars ELSE Stored,
  ends <- seps,
  out <- IF Line THEN handled ELSE typed,
  flushing <- At("reset")

\* _serial_int_rx against rt_hw_serial_isr, poc_task against USART2_IRQHandler:
\* bytes and lines are handed over whole and in their order, and only a full
\* ring, or a text too long to be a line, loses anything.
ImplementsByteQueue == Promise!Spec

\* finsh_rx_ind, rt_completion_done and poc_task: nothing stays unread or unsent.
NothingIsStuck ==
  /\ Unread # <<>> ~> Unread = <<>>
  /\ length > 0 ~> length = 0
  /\ ToSet(Unhandled) \cap seps # {} ~> ToSet(Unhandled) \cap seps = {} \/ At("halt")
=============================================================================

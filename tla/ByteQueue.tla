----------------------------- MODULE ByteQueue -----------------------------
(***************************************************************************)
(* What the reader of a serial line is promised: bytes that come one by    *)
(* one are handed over in their order, once.  A full queue loses either    *)
(* the oldest byte, as the console of the application does, or the newest  *)
(* one, as the line reader of the boot loader does.  Bytes are numbered in *)
(* the order they come; those of the set ends separate lines.              *)
(***************************************************************************)
EXTENDS Integers, SequencesExt

CONSTANTS
  Size,      \* the bytes each kind of queue holds
  LineMax    \* text of more bytes without an end may be thrown away

VARIABLES
  kind,      \* "console" or "line"
  queue,     \* the bytes not read yet
  last,      \* how many bytes have come
  ends,      \* which of them end a line
  out,       \* the bytes handed over
  flushing   \* a text without an end is being thrown away

vars == <<kind, queue, last, ends, out, flushing>>

Init ==
  /\ kind \in {"console", "line"}
  /\ queue = <<>> /\ last = 0 /\ ends = {} /\ out = <<>> /\ flushing = FALSE

Full == Len(queue) = Size[kind]

\* A byte comes, perhaps the end of a line.
Come ==
  /\ last' = last + 1
  /\ \/ UNCHANGED ends
     \/ kind = "line" /\ ends' = ends \cup {last + 1}
  /\ UNCHANGED <<kind, out, flushing>>

Put == Come /\ ~Full /\ queue' = Append(queue, last + 1)

LoseOldest == Come /\ Full /\ kind = "console" /\ queue' = Append(Tail(queue), last + 1)

LoseNewest == Come /\ kind = "line" /\ (Full \/ flushing) /\ UNCHANGED queue

TakeByte ==
  /\ kind = "console" /\ queue # <<>>
  /\ out' = Append(out, Head(queue))
  /\ queue' = Tail(queue)
  /\ UNCHANGED <<kind, last, ends, flushing>>

\* The text before the first end is handed over, unless it is shorter than two
\* bytes.
TakeLine ==
  /\ kind = "line"
  /\ \E n \in 1 .. Len(queue) :
       /\ queue[n] \in ends
       /\ \A i \in 1 .. n - 1 : queue[i] \notin ends
       /\ out' = IF n > 2 THEN out \o SubSeq(queue, 1, n - 1) ELSE out
       /\ queue' = SubSeq(queue, n + 1, Len(queue))
  /\ UNCHANGED <<kind, last, ends, flushing>>

Flush ==
  /\ kind = "line" /\ Len(queue) > LineMax
  /\ \A i \in 1 .. LineMax + 1 : queue[i] \notin ends
  /\ queue' = <<>> /\ flushing' = TRUE
  /\ UNCHANGED <<kind, last, ends, out>>

Flushed == flushing /\ flushing' = FALSE /\ UNCHANGED <<kind, queue, last, ends, out>>

Next == Put \/ LoseOldest \/ LoseNewest \/ TakeByte \/ TakeLine \/ Flush \/ Flushed

Spec == Init /\ [][Next]_vars
=============================================================================

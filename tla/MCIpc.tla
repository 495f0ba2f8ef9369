------------------------------- MODULE MCIpc -------------------------------
(***************************************************************************)
(* Small instances of Ipc for TLC.                                         *)
(***************************************************************************)
EXTENDS Ipc

CONSTANTS a, b, c

\* b overtakes the others where the list is in the order of priority.
MCPrio == [t \in Thread |-> IF t = b THEN 1 ELSE 2]
MCFlag == [o \in Object |-> CASE o = "event" -> "FIFO"
                              [] o = "mempool" -> "LIFO"
                              [] OTHER -> "PRIO"]

Does(A, B, C) == [t \in Thread |-> IF t = a THEN A ELSE IF t = b THEN B ELSE C]

\* Each scene exercises one object, the last one three.
MCScenes == {
  [does |-> Does({"take", "release"}, {"take", "release"}, {"take", "release"}),
   resets |-> {"sem"}, detaches |-> {"sem"}],
  [does |-> Does({"event_recv"}, {"event_recv"}, {"event_send"}),
   resets |-> {"event"}, detaches |-> {"event"}],
  [does |-> Does({"mq_send", "mq_urgent"}, {"mq_send"}, {"mq_recv"}),
   resets |-> {"mq"}, detaches |-> {}],
  [does |-> Does({"mq_send"}, {"mq_recv"}, {"mq_recv"}),
   resets |-> {"mq"}, detaches |-> {"mq"}],
  [does |-> Does({"mp_alloc", "mp_free"}, {"mp_alloc", "mp_free"}, {"mp_alloc"}),
   resets |-> {}, detaches |-> {"mempool"}],
  [does |-> Does({"take", "event_recv", "mq_recv"}, {}, {"release", "event_send", "mq_send"}),
   resets |-> {}, detaches |-> {}] }
MCOptions == {{"AND"}, {"OR", "CLEAR"}, {"AND", "CLEAR"}}
=============================================================================

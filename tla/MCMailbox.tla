----------------------------- MODULE MCMailbox -----------------------------
(***************************************************************************)
(* Small instances of Mailbox for TLC.                                     *)
(***************************************************************************)
EXTENDS Mailbox

CONSTANTS a, b, c

\* Under RT_IPC_FLAG_PRIO b overtakes c.
MCPrio == [t \in Thread |-> IF t = b THEN 1 ELSE 2]

\* One priority for all, for the run that relies on threads taking turns.
MCEqual == [t \in Thread |-> 1]

\* The mails are only copied and compared.
MailSymmetry == Permutations(Mail)

\* One sender and two receivers, one of them of higher priority.
MCSends    == {a}
MCReceives == {b, c}

\* Two of each, b one of both: a woken sender may find that b has filled the
\* slot, a woken receiver that b has taken the mail.
MCSendsToo == {a, b}
=============================================================================

---------------------------- MODULE MCScheduler ----------------------------
(***************************************************************************)
(* Small instances of Scheduler for TLC.                                   *)
(***************************************************************************)
EXTENDS Scheduler

CONSTANTS a, b, c

\* a and b take turns, c is above them.
MCInitPrio == [t \in Thread |-> CASE t = idle -> 2 [] t = c -> 0 [] OTHER -> 1]

\* a deletes and boosts, b is managed.
MCDeletes == {<<a, c>>}
MCManages == {<<a, b>>}
MCBoosts  == {<<b, a>>}
None      == {}
=============================================================================

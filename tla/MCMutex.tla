------------------------------ MODULE MCMutex ------------------------------
(***************************************************************************)
(* Small instances of Mutex for TLC.                                       *)
(***************************************************************************)
EXTENDS Mutex

CONSTANTS a, b, c, d

\* A low thread, a high one and two of equal priority between them.
MCInitPrio == [t \in Thread |-> CASE t = a -> 3 [] t = b -> 1 [] OTHER -> 2]

\* c and d differ in nothing.
MutexSymmetry == Permutations({c, d})
=============================================================================

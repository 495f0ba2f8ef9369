------------------------------ MODULE MCTimer ------------------------------
(***************************************************************************)
(* Small instances of Timer for TLC.                                       *)
(***************************************************************************)
EXTENDS Timer

CONSTANTS x, y, z, a, b

\* a uses x, which restarts or stops itself; b uses y, which does it with z.
MCUses    == [p \in Thread |-> IF p = a THEN {x} ELSE {y}]
MCTouches == [u \in Timer |-> IF u = x THEN {x} ELSE IF u = y THEN {z} ELSE {}]
MCTime    == [u \in Timer |-> IF u = y THEN 1 ELSE 3]
MCFlag    == [u \in Timer |-> IF u = y THEN {"PERIODIC"} ELSE {}]
=============================================================================

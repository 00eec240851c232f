---------------------------- MODULE MCTimekeeper ----------------------------
(* Two clock sources, one of which counts while the system is suspended.   *)
EXTENDS Timekeeper

CONSTANTS tsc, hpet

Sources == {tsc, hpet}
JustTsc == {tsc}
Skews == [s \in Sources |-> IF s = tsc THEN 0 ELSE 5]
Either == BOOLEAN
BackAndForth == {-3, 5}
InsertOrDrop == {-1, 1}
OneTai == {2}

=============================================================================

---------------------------- MODULE MCProcClock ----------------------------
(* Small instances of ProcClock.  TDF 3000 makes most divisions inexact,   *)
(* 500 makes the clock run fast, 1000 takes the undivided branch.          *)
EXTENDS ProcClock

FastAndSlow == {-1, 0, 500, 3000}

=============================================================================

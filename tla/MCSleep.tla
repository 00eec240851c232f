------------------------------ MODULE MCSleep ------------------------------
(* Two CPUs; a task in virtual time and one outside it.                    *)
EXTENDS Sleep, TLC

CONSTANTS c1, c2, slow, real

TwoCPUs == {c1, c2}
TwoTasks == {slow, real}
Tdfs == (slow :> 2000) @@ (real :> 0)
Calls == (slow :> {"nanosleep"}) @@ (real :> {"until", "timeout"})
Slacks == (slow :> 1) @@ (real :> 0)
BackAndForth == {-1, 3}

=============================================================================

------------------------------- MODULE MCHtb -------------------------------
(* A root class with two leaves of different rates; a third level, when    *)
(* class 4 is added below leaf 3.  host stands for the processes of a      *)
(* container, idle for the kernel's own threads.                           *)
EXTENDS Htb

CONSTANTS host, idle

Tree == << [parent |-> 0, prio |-> 0, rate |-> 4, ceil |-> 4, buffer |-> 1, cbuffer |-> 1, quantum |-> 2],
           [parent |-> 1, prio |-> 0, rate |-> 2, ceil |-> 4, buffer |-> 1, cbuffer |-> 1, quantum |-> 1],
           [parent |-> 1, prio |-> 0, rate |-> 2, ceil |-> 2, buffer |-> 1, cbuffer |-> 1, quantum |-> 1],
           [parent |-> 3, prio |-> 0, rate |-> 4, ceil |-> 4, buffer |-> 1, cbuffer |-> 1, quantum |-> 1] >>
Four == 1 .. 4
Three == 1 .. 3
Senders == {host, idle}
JustHost == {host}
Parents == (host :> host) @@ (idle :> idle)
Factors == {0, 2000}

=============================================================================

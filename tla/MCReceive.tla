----------------------------- MODULE MCReceive -----------------------------
(* Two CPUs receive a flow; the map of the queue names the first.          *)
EXTENDS Receive

CONSTANTS cpu0, cpu1

TwoCpus == {cpu0, cpu1}
AllSteerings == {"none", "rps", "rfs"}

=============================================================================

---------------------------- MODULE MCTransmit -----------------------------
(* Two CPUs send through a device with two bands of a pfifo_fast, with an  *)
(* HTB of two leaves, or without a queue.                                  *)
EXTENDS Transmit

CONSTANTS cpu0, cpu1

TwoCpus == {cpu0, cpu1}

\* HTB has less to do: each of its leaves may be served next, and its watchdog
\* adds wakeups.
Load == [sends |-> 3, refusals |-> 2, delays |-> 0, closes |-> 1]
SmallBounds == [k \in {"fifo", "htb", "none"} |->
                  IF k = "htb" THEN [Load EXCEPT !.sends = 2, !.refusals = 1, !.delays = 1]
                                 ELSE Load]
ShortQueues == [k \in {"fifo", "htb", "none"} |-> IF k = "htb" THEN 1 ELSE 2]

=============================================================================

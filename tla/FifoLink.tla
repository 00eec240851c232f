------------------------------ MODULE FifoLink ------------------------------
(***************************************************************************)
(* What a device with a queue promises to those who send through it: the   *)
(* packets it has accepted, numbered in that order, reach the driver in    *)
(* the order of acceptance within each band, each once, and none is lost   *)
(* but at the moment the device is taken down.  One packet may survive     *)
(* even that, the first of its band, if the driver has it in hand.         *)
(***************************************************************************)
EXTENDS Naturals, Sequences

CONSTANT Band

VARIABLES
  accepted,  \* the number of packets accepted
  pipe,      \* those of each band that are on their way
  taken,     \* the packet the driver took last; 0 at first
  open       \* whether the device is up

vars == <<accepted, pipe, taken, open>>

Init == accepted = 0 /\ pipe = [b \in Band |-> <<>>] /\ taken = 0 /\ open = TRUE

Accept(b) == /\ open
             /\ accepted' = accepted + 1
             /\ pipe' = [pipe EXCEPT ![b] = Append(@, accepted')]
             /\ UNCHANGED <<taken, open>>

Take(b) == /\ pipe[b] # <<>>
           /\ taken' = Head(pipe[b])
           /\ pipe' = [pipe EXCEPT ![b] = Tail(@)]
           /\ UNCHANGED <<accepted, open>>

\* What is left of each band when all but the driver's packet is dropped.
Survives(b) == [a \in Band |-> IF a = b THEN <<Head(pipe[b])>> ELSE <<>>]

Close == /\ open /\ open' = FALSE
         /\ \/ pipe' = [b \in Band |-> <<>>]
            \/ \E b \in Band : pipe[b] # <<>> /\ pipe' = Survives(b)
         /\ UNCHANGED <<accepted, taken>>

Open == ~open /\ open' = TRUE /\ UNCHANGED <<accepted, pipe, taken>>

Next == (\E b \in Band : Accept(b) \/ Take(b)) \/ Close \/ Open

Spec == Init /\ [][Next]_vars

=============================================================================

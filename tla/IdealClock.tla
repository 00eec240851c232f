----------------------------- MODULE IdealClock -----------------------------
(***************************************************************************)
(* What virtual time promises one process, with none of the kernel's       *)
(* bookkeeping.  Between entering and leaving virtual time the process has *)
(* a clock of its own.  It starts at the moment of entry, advances 1000    *)
(* nanoseconds for every tdf nanoseconds the process is not frozen, and    *)
(* never goes backwards; a reading may lag behind it by less than one      *)
(* nanosecond for the reading itself and for each earlier one.             *)
(***************************************************************************)
EXTENDS Integers

VARIABLES
  tdf,     \* the factor, times 1000; 0 outside virtual time
  frozen,  \* the process and its clock are stopped
  start,   \* where the virtual clock started
  ran,     \* nanoseconds spent in virtual time and not frozen
  reads,   \* readings taken since entry
  seen     \* the last reading, 0 before the first entry

vars == <<tdf, frozen, start, ran, reads, seen>>

Init == /\ tdf = 0 /\ frozen = FALSE /\ start = 0
        /\ ran = 0 /\ reads = 0 /\ seen = 0

\* v is an acceptable reading.
Faithful(v) == /\ tdf * (v - start) <= 1000 * ran
               /\ 1000 * ran < tdf * (v - start + reads + 1)

\* A nanosecond passes.
Pass == /\ ran' = IF tdf # 0 /\ ~frozen THEN ran + 1 ELSE ran
        /\ UNCHANGED <<tdf, frozen, start, reads, seen>>

\* A new clock starts, no earlier than what the process has read so far: a
\* process may also start a new clock from within virtual time.
Enter == /\ ~frozen
         /\ tdf' \in Int /\ tdf' > 0
         /\ start' \in Int /\ start' >= seen
         /\ ran' = 0 /\ reads' = 0 /\ seen' = start'
         /\ UNCHANGED frozen

Leave == /\ tdf # 0 /\ ~frozen
         /\ tdf' = 0 /\ start' = 0 /\ ran' = 0 /\ reads' = 0 /\ seen' = 0
         /\ UNCHANGED frozen

Freeze == frozen' = TRUE /\ UNCHANGED <<tdf, start, ran, reads, seen>>

Unfreeze == frozen' = FALSE /\ UNCHANGED <<tdf, start, ran, reads, seen>>

Read == /\ tdf # 0 /\ ~frozen
        /\ seen' \in Int /\ seen' >= seen /\ Faithful(seen')
        /\ reads' = reads + 1
        /\ UNCHANGED <<tdf, frozen, start, ran>>

Next == Pass \/ Enter \/ Leave \/ Freeze \/ Unfreeze \/ Read

Spec == Init /\ [][Next]_vars

=============================================================================

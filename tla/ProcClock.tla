----------------------------- MODULE ProcClock -----------------------------
(***************************************************************************)
(* The virtual clock of one process: a container's first process, leader   *)
(* of its own process group, while tools outside virtual time write its    *)
(* /proc/$pid/dilation and /proc/$pid/freeze.  Every system call and every *)
(* write is one step here; ClockRace interleaves them, VirtualTime adds    *)
(* the process tree.                                                       *)
(*                                                                         *)
(* The wall clock runs from Epoch to Epoch + Span, a clock is read at most *)
(* MaxReads times after each start, and MaxChanges times one non-zero TDF  *)
(* is written over another: all three bound the state space.  MaxChanges   *)
(* = 0 also stands for the use of one TDF per stay in virtual time.        *)
(***************************************************************************)
EXTENDS TaskClock, FiniteSets

CONSTANTS
  Tdfs,      \* the values written to /proc/$pid/dilation
  Crosses,   \* virtual time may be entered or left while stopped
  Epoch, Span, MaxReads, MaxChanges

ASSUME TdfsAssumption == IsFiniteSet(Tdfs) /\ Tdfs \subseteq Int
ASSUME UseAssumption == Crosses \in BOOLEAN
ASSUME EpochAssumption == Epoch \in Nat \ {0}
ASSUME BoundAssumption == {Span, MaxReads, MaxChanges} \subseteq Nat

VARIABLES
  now,      \* the undilated wall clock
  t,        \* the task's virtual-time fields
  stopped,  \* SIGSTOP has been sent to the group and SIGCONT has not
  ran,      \* history: unfrozen nanoseconds since physical_start_nsec
  kept,     \* history: frozen nanoseconds as of physical_start_nsec
  carried,  \* history: virtual_past_nsec as of physical_start_nsec
  reads,    \* history: readings since physical_start_nsec
  seen,     \* history: the last reading
  changes   \* history: non-zero factors written over another

vars == <<now, t, stopped, ran, kept, carried, reads, seen, changes>>

Init == /\ now = Epoch /\ t = Blank /\ stopped = FALSE
        /\ ran = 0 /\ kept = 0 /\ carried = 0 /\ reads = 0 /\ seen = 0
        /\ changes = 0

----------------------------------------------------------------------------
Tick == /\ now < Epoch + Span
        /\ now' = now + 1
        /\ ran' = IF t.dilation # 0 /\ ~stopped THEN ran + 1 ELSE ran
        /\ UNCHANGED <<t, stopped, kept, carried, reads, seen, changes>>

\* Nanoseconds of the freeze that task c records as in progress.
InFreeze(c) == IF c.fsn = 0 THEN 0 ELSE now - c.fsn

\* The history of a clock that (re)starts, last read at v.
Restart(v) == /\ ran' = 0 /\ reads' = 0 /\ seen' = v
              /\ kept' = t'.fpn + InFreeze(t') /\ carried' = t'.vpn

\* Writing tdf changes the factor of a task that already has one.
Changes(tdf) == t.dilation \notin {0, tdf} /\ tdf > 0

\* echo $tdf > /proc/$pid/dilation
WriteDilation(tdf) ==
  /\ Changes(tdf) => changes < MaxChanges
  /\ stopped /\ (t.dilation = 0) # (tdf = 0) => Crosses
  /\ t' = SetDilation(t, now, now, tdf)
  /\ changes' = IF Changes(tdf) THEN changes + 1 ELSE changes
  /\ IF t' = t THEN UNCHANGED <<ran, kept, carried, reads, seen>>
     ELSE Restart(CASE t.dilation = 0  -> now
                    [] t'.dilation = 0 -> 0
                    [] OTHER           -> seen)
  /\ UNCHANGED <<now, stopped>>

\* unshare(CLONE_NEWTIME) by the process itself.
Unshare == /\ ~stopped
           /\ LET v == Reading(t, now)
              IN  t' = InitVirtualStart(Timekeep(t, now), now, v, 1000) /\ Restart(v)
           /\ UNCHANGED <<now, stopped, changes>>

\* echo 1 > /proc/$pid/freeze: kill_pgrp(SIGSTOP) reaches the group this
\* process leads, itself included.
Freeze == /\ t' = FreezeTime(t, now)
          /\ stopped' = (t.fsn > 0 => stopped)
          /\ UNCHANGED <<now, ran, kept, carried, reads, seen, changes>>

\* echo 0 > /proc/$pid/freeze
Unfreeze == /\ t' = UnfreezeTime(t, now)
            /\ stopped' = (stopped /\ t.fsn = 0)
            /\ UNCHANGED <<now, ran, kept, carried, reads, seen, changes>>

\* gettimeofday and the other callers of getnstimeofday.
Read == /\ ~stopped /\ Virtual(t) /\ reads < MaxReads
        /\ t' = Timekeep(t, now)
        /\ seen' = Reading(t, now)
        /\ reads' = reads + 1
        /\ UNCHANGED <<now, stopped, ran, kept, carried, changes>>

Next == \/ Tick
        \/ \E tdf \in Tdfs : WriteDilation(tdf)
        \/ Unshare
        \/ Freeze
        \/ Unfreeze
        \/ Read

Spec == Init /\ [][Next]_vars

----------------------------------------------------------------------------
\* Types, and no negative TDF is ever stored, whatever is written.
TypeOK == /\ now \in Nat /\ t \in Task /\ stopped \in BOOLEAN
          /\ t.dilation >= 0
          /\ ran \in Nat /\ kept \in Int /\ carried \in Int
          /\ reads \in Nat /\ seen \in Int /\ changes \in Nat

\* A freeze is recorded in freeze_start_nsec exactly while the group is
\* stopped, so that an unfreeze always finds what it has to undo
\* (freeze_time and unfreeze_time return early on that field) and a stopped
\* process can always be resumed.
FreezeInForce == stopped <=> t.fsn # 0

\* The physical time the kernel will account to the clock is the time the
\* process ran, whatever the freezes in between, minus what had already
\* been frozen when the clock last (re)started (update_physical_past_nsec
\* subtracts all of freeze_past_nsec).
AccountsFrozenTime ==
  Virtual(t) => now - t.psn - t.fpn - InFreeze(t) = ran - kept

\* What a process reads: virtual_start_nsec, plus the virtual time carried
\* over a change of factor, plus the accounted time divided by the factor,
\* with less than a nanosecond lost per reading however the readings cut
\* the time into pieces.
KeepsTime ==
  Virtual(t) /\ ~stopped /\ t.dilation <= MaxTdf =>
    LET v == Reading(t, now) - t.vsn - carried
        err == 1000 * (ran - kept) - t.dilation * v
    IN  /\ -t.dilation * (reads + 1) < err
        /\ err < t.dilation * (reads + 1)
        /\ kept = 0 => err >= 0

\* As long as it stays in virtual time a process never reads a time before
\* one it has read.
Forward == [][t.dilation # 0 /\ t'.dilation # 0 => seen' >= seen]_vars

\* With one TDF per stay in virtual time the kernel's bookkeeping implements
\* the ideal clock.
Ideal == INSTANCE IdealClock WITH tdf <- t.dilation, frozen <- stopped,
                                  start <- t.vsn
IdealSpec == Ideal!Spec

----------------------------------------------------------------------------
(* What the documentation says and the code does not do.                   *)

\* doc/vt_doc.tex, Alg-SetTDF: changing the TDF moves what the clock shows
\* into virtual_past_ns and leaves virtual_start_ns alone, so that the clock
\* shows the same time before and after.
TdfChangeKeepsTime ==
  [][t.dilation # 0 /\ t'.dilation # 0 /\ t'.dilation # t.dilation /\ ~stopped
     => Reading(t', now) = Reading(t, now)]_vars

=============================================================================

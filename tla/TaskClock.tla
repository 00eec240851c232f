----------------------------- MODULE TaskClock -----------------------------
(***************************************************************************)
(* The virtual-time fields the patch adds to task_struct and the pure part *)
(* of every kernel function that reads or writes them.  The field names    *)
(* are the ones printk_virtual_clock prints:                               *)
(*   dilation   time dilation factor (TDF) times 1000; 0 outside virtual   *)
(*              time                                                       *)
(*   vsn, vpn   virtual_start_nsec,  virtual_past_nsec                     *)
(*   psn, ppn   physical_start_nsec, physical_past_nsec                    *)
(*   fsn, fpn   freeze_start_nsec,   freeze_past_nsec                      *)
(* In every operator "now" is the undilated wall clock in nanoseconds, the *)
(* value __getnstimeofday returns.                                         *)
(***************************************************************************)
EXTENDS Integers

Task == [dilation : Int, vsn : Int, vpn : Int, psn : Int, ppn : Int,
         fsn : Int, fpn : Int]

\* INIT_TASK: outside virtual time, never frozen.  Leaving virtual time
\* gives a task these values back.
Blank == [dilation |-> 0, vsn |-> 0, vpn |-> 0, psn |-> 0, ppn |-> 0,
          fsn |-> 0, fpn |-> 0]

\* The largest stored TDF (a factor of 100) that still moves a clock.
MaxTdf == 100000

\* div_s64: C division, which rounds towards zero.  The divisor is positive.
DivS64(n, d) == IF n >= 0 THEN n \div d ELSE -((-n) \div d)

----------------------------------------------------------------------------
(* Reading the clock.                                                      *)

\* The test that opens real_virtual_timekeeping.
Virtual(t) == t.dilation # 0 /\ t.vsn # 0

\* Physical nanoseconds since the last read, frozen ones taken out.
DeltaPpn(t, now) == now - t.ppn - t.psn - t.fpn

\* Mutant: divides before it multiplies.
DeltaVpn_DivideFirst(delta, tdf) ==
  IF tdf > MaxTdf THEN 0
  ELSE IF tdf = 1000 THEN delta ELSE DivS64(delta, tdf) * 1000

\* What delta physical nanoseconds add to virtual_past_nsec.
DeltaVpn(delta, tdf) ==
  IF tdf > MaxTdf THEN 0
  ELSE IF tdf = 1000 THEN delta ELSE DivS64(delta * 1000, tdf)

\* Mutant: assigns physical_past_nsec instead of adding to it.
Timekeep_Assigns(t, now) ==
  IF ~Virtual(t) THEN t
  ELSE LET delta == DeltaPpn(t, now)
       IN  [t EXCEPT !.ppn = delta, !.vpn = @ + DeltaVpn(delta, t.dilation)]

\* The task as real_virtual_timekeeping leaves it...
Timekeep(t, now) ==
  IF ~Virtual(t) THEN t
  ELSE LET delta == DeltaPpn(t, now)
       IN  [t EXCEPT !.ppn = @ + delta,
                     !.vpn = @ + DeltaVpn(delta, t.dilation)]

\* ...and the time of day it hands back.
Reading(t, now) ==
  IF ~Virtual(t) THEN now
  ELSE t.vsn + t.vpn + DeltaVpn(DeltaPpn(t, now), t.dilation)

----------------------------------------------------------------------------
(* Entering, leaving and changing virtual time.                            *)

\* Mutant: freeze_past_nsec is not reset.
InitVirtualStart_KeepsFrozen(t, now, vnow, tdf) ==
  IF tdf > 0
  THEN [t EXCEPT !.dilation = tdf, !.vsn = vnow, !.vpn = 0, !.psn = now,
                 !.ppn = 0, !.fsn = 0]
  ELSE t

\* init_virtual_start_time: vnow is what the calling process reads.
InitVirtualStart(t, now, vnow, tdf) ==
  IF tdf > 0
  THEN [dilation |-> tdf, vsn |-> vnow, vpn |-> 0, psn |-> now, ppn |-> 0,
        fsn |-> 0, fpn |-> 0]
  ELSE t

\* The branch of set_dilation for a task that already has a TDF: the time
\* since the last read is accounted at the old factor, then both starts
\* become the present moment.
Redilate(t, now, tdf) ==
  [t EXCEPT !.vpn = @ + DivS64(DeltaPpn(t, now) * 1000, t.dilation),
            !.vsn = now, !.psn = now, !.ppn = 0, !.dilation = tdf]

\* set_dilation returns -EINVAL, before it looks at the children.
DilationRejected(t, tdf) == t.dilation # 0 /\ tdf < 0

\* Mutant: the last branch does not test that the new TDF is positive.
SetDilation_AnyTdf(t, now, vnow, tdf) ==
  CASE t.dilation = tdf                   -> t
    [] t.dilation = 0 /\ tdf # 0          -> InitVirtualStart(t, now, vnow, tdf)
    [] t.dilation # 0 /\ tdf = 0          -> Blank
    [] t.dilation \notin {0, tdf} /\ tdf # 0 -> Redilate(t, now, tdf)

\* set_dilation on one task, written by a process whose clock is vnow.
SetDilation(t, now, vnow, tdf) ==
  CASE t.dilation = tdf                   -> t
    [] t.dilation = 0 /\ tdf # 0          -> InitVirtualStart(t, now, vnow, tdf)
    [] t.dilation # 0 /\ tdf = 0          -> Blank
    [] t.dilation \notin {0, tdf} /\ tdf > 0 -> Redilate(t, now, tdf)
    [] OTHER                              -> t

----------------------------------------------------------------------------
(* Freezing.                                                               *)

\* Mutant: a second freeze starts the freeze anew.
FreezeTime_Restamps(t, now) == [t EXCEPT !.fsn = now]

\* freeze_time returns at once when a freeze is already recorded.
FreezeTime(t, now) == IF t.fsn > 0 THEN t ELSE [t EXCEPT !.fsn = now]

\* Mutants: freeze_start_nsec is not reset; only the last freeze is kept.
UnfreezeTime_NoReset(t, now) ==
  IF t.fsn = 0 THEN t ELSE [t EXCEPT !.fpn = @ + (now - t.fsn)]
UnfreezeTime_Assigns(t, now) ==
  IF t.fsn = 0 THEN t ELSE [t EXCEPT !.fpn = now - t.fsn, !.fsn = 0]

\* unfreeze_time returns at once when no freeze is recorded.
UnfreezeTime(t, now) ==
  IF t.fsn = 0 THEN t ELSE [t EXCEPT !.fpn = @ + (now - t.fsn), !.fsn = 0]

\* populate_frozen_time for one child c of task t.
PopulateFrozen(c, t) == [c EXCEPT !.fpn = t.fpn, !.fsn = t.fsn]

=============================================================================

----------------------------- MODULE Timekeeper -----------------------------
(***************************************************************************)
(* The clock under the virtual clock: kernel/time/timekeeping.c.  One      *)
(* timekeeper holds the wall time and the offsets of every other clock.    *)
(* Writers take timekeeper_lock and change it field by field inside a      *)
(* write section of timekeeper_seq; readers take no lock, read field by    *)
(* field, and start over when the sequence number has moved.  The tick     *)
(* accumulates into a shadow copy and then copies it over.                 *)
(*                                                                         *)
(* A unit is one cycle of every clock source and one nanosecond; SEC units *)
(* make a second and Interval a tick.  The sequence number is kept as what *)
(* its users learn from it: a write section is open (it is odd), or has    *)
(* been opened since the reader looked (it differs).                       *)
(*                                                                         *)
(* Bounds: MaxAge units of physical time, and MaxEvents changes of the     *)
(* clock, suspends and freezes (of the one process in virtual time, whose  *)
(* factor is Tdf from the beginning) taken together; that process reads    *)
(* its clock MaxReads times.                                               *)
(***************************************************************************)
EXTENDS TaskClock, Sequences, FiniteSets, Functions

CONSTANTS SEC, Interval, Epoch, Source, First, Nonstop, Skew, Persistent,
          Steps, Leaps, Tais, Tdf, MaxAge, MaxEvents, MaxReads

ASSUME UnitAssumption == SEC \in Nat \ {0} /\ Interval \in Nat \ {0}
ASSUME EpochAssumption == Epoch \in Nat \ {0} /\ Epoch % SEC = 0
ASSUME SourceAssumption == /\ First \in Source /\ Nonstop \subseteq Source
                           /\ Skew \in [Source -> Nat]
ASSUME ChoiceAssumption == /\ Persistent \subseteq BOOLEAN /\ Steps \subseteq Int
                           /\ Leaps \subseteq {-1, 1} /\ Tais \subseteq Int
ASSUME BoundAssumption == /\ {MaxAge, MaxEvents, MaxReads} \subseteq Nat
                          /\ Tdf \in 1 .. MaxTdf

VARIABLES
  age,      \* physical time since the system came up
  slept,    \* the part of it that was spent suspended
  asleep,   \* timekeeping_suspended
  tk,       \* timekeeper
  shadow,   \* shadow_timekeeper
  last,     \* cycle_last of each clock source
  odd,      \* a write section of timekeeper_seq is open
  w,        \* the holder of timekeeper_lock: what it has still to do
  rtc,      \* timekeeping_suspend_time and old_delta
  r,        \* a reader
  task,     \* the clock fields of the process in virtual time
  truth,    \* history: what the clocks should say beyond the running time
  missed,   \* history: real time that went by while the process was frozen
  used      \* how many events there were, how many set the clock, and reads

clockvars == <<tk, shadow, last, odd, rtc>>
procvars == <<task, missed>>
vars == <<age, slept, asleep, clockvars, w, r, procvars, truth, used>>

Keeper == [clock : Source, sec : Nat, nsec : Nat, last : Nat, wtm : Int,
           offsReal : Int, tai : Int, offsTai : Int, sleep : Int, offsBoot : Int]

\* The clock CLOCK_MONOTONIC should be, and the counter of a clock source.
Running == age - slept
Cycles(s) == Skew[s] + (IF s \in Nonstop THEN age ELSE Running)

\* read_persistent_clock: whole seconds, or zero where there is none.
RtcTime == IF rtc.exists THEN ((Epoch + age) \div SEC) * SEC ELSE 0

Max2(a, b) == IF a > b THEN a ELSE b
Abs(n) == Max2(n, -n)

----------------------------------------------------------------------------
(* Operations on a timekeeper t.                                           *)

Xtime(t) == t.sec * SEC + t.nsec

SetXtime(t, v) == [t EXCEPT !.sec = v \div SEC, !.nsec = v % SEC]

\* timekeeping_get_ns
GetNs(t) == Cycles(t.clock) - last[t.clock] + t.nsec

\* tk_set_wall_to_mono
SetWallToMono(t, v) ==
  [t EXCEPT !.wtm = v, !.offsReal = -v, !.offsTai = -v + t.tai * SEC]

\* tk_set_sleep_time
SetSleepTime(t, v) == [t EXCEPT !.sleep = v, !.offsBoot = v]

\* __timekeeping_set_tai_offset
SetTai(t, v) == [t EXCEPT !.tai = v, !.offsTai = t.offsReal + v * SEC]

\* timekeeping_forward_now; the caller moves cycle_last of the source too.
ForwardNow(t) == [SetXtime(t, t.sec * SEC + GetNs(t)) EXCEPT
                    !.last = Cycles(t.clock)]

\* __timekeeping_inject_sleeptime, which refuses a negative interval.
InjectSleeptime(t, d) ==
  IF d < 0 THEN t
  ELSE SetSleepTime(SetWallToMono(SetXtime(t, Xtime(t) + d), t.wtm - d), t.sleep + d)

\* logarithmic_accumulation and accumulate_nsecs_to_secs: n cycles go by, and
\* with the second they complete second_overflow may insert or drop one.
Accumulate(t, n, leap) ==
  LET s == SetXtime(t, Xtime(t) + n)
  IN  IF leap = 0 THEN [s EXCEPT !.last = @ + n]
      ELSE SetTai(SetWallToMono([s EXCEPT !.sec = @ + leap, !.last = @ + n],
                                t.wtm - leap * SEC), t.tai - leap)

----------------------------------------------------------------------------
\* timekeeping_init, on a machine whose clock said Epoch; where there is none
\* an earlier settimeofday has set it.  The process enters virtual time now.
Boot == [clock |-> First, sec |-> Epoch \div SEC, nsec |-> 0, last |-> Skew[First],
         wtm |-> -Epoch, offsReal |-> Epoch, tai |-> 0, offsTai |-> Epoch,
         sleep |-> 0, offsBoot |-> 0]

NoRead == [pc |-> "idle", retry |-> FALSE, sec |-> 0, tai |-> 0, ns |-> 0,
           began |-> 0, mine |-> FALSE]

Unlocked == [todo |-> <<>>, arg |-> 0, truth |-> [wall |-> 0, tai |-> 0, sleep |-> 0]]

Init == /\ age = 0 /\ slept = 0 /\ asleep = FALSE
        /\ tk = Boot /\ shadow = Boot
        /\ last = [s \in Source |-> Skew[s]]
        /\ odd = FALSE
        /\ w = Unlocked
        /\ \E exists \in Persistent :
             rtc = [exists |-> exists, at |-> 0, old |-> 0, owed |-> 0]
        /\ r = NoRead
        /\ task = InitVirtualStart(Blank, Epoch, Epoch, Tdf)
        /\ truth = [wall |-> Epoch, tai |-> 0, sleep |-> 0]
        /\ missed = 0
        /\ used = [events |-> 0, writes |-> 0, reads |-> 0]

Frozen == task.fsn # 0

\* Real time goes by for a frozen process too: the clock runs, or is set.
Missing(n) == missed' = IF Frozen THEN missed + n ELSE missed

Pass == /\ age < MaxAge
        /\ age' = age + 1
        /\ slept' = IF asleep THEN slept + 1 ELSE slept
        /\ Missing(IF asleep THEN 0 ELSE 1)
        /\ UNCHANGED <<asleep, clockvars, w, r, task, truth, used>>

----------------------------------------------------------------------------
(* Writers.  w.todo lists the assignments the holder of timekeeper_lock    *)
(* has still to make, w.truth what the clocks say once it has made them.   *)

\* write_seqcount_begin, as a reader notices it.
Open == /\ odd' = TRUE
        /\ r' = [r EXCEPT !.retry = (r.pc # "idle")]

Lock(program, arg, new) ==
  /\ ~asleep /\ w.todo = <<>> /\ used.events < MaxEvents
  /\ used' = [used EXCEPT !.events = @ + 1, !.writes = @ + 1]
  /\ w' = [todo |-> program, arg |-> arg, truth |-> new]
  /\ Open
  /\ UNCHANGED <<age, slept, asleep, tk, shadow, last, procvars, truth>>

\* do_settimeofday(tv), which refuses a time before 1970.
Settimeofday ==
  /\ \E j \in Steps : LET tv == Running + truth.wall + j
                      IN  tv >= 0 /\ Lock(<<"forward", "offset", "set", "end">>, tv, truth)
  /\ UNCHANGED rtc

\* timekeeping_inject_offset: an offset that leads before 1970 is refused
\* when the clock has been forwarded.
InjectOffset ==
  /\ \E j \in Steps : Lock(<<"forward", "check", "add", "sub", "end">>, j,
                           [truth EXCEPT !.wall = @ + j])
  /\ UNCHANGED rtc

\* timekeeping_inject_sleeptime, once after a resume, with the whole seconds
\* the driver of the RTC device counted; not where the kernel reads the RTC.
RtcResume ==
  /\ ~rtc.exists /\ rtc.owed > 0 /\ ~asleep
  /\ Lock(<<"forward", "add", "sub", "slept", "end">>, rtc.owed,
          [truth EXCEPT !.wall = @ + rtc.owed, !.sleep = @ + rtc.owed])
  /\ rtc' = [rtc EXCEPT !.owed = 0]

\* timekeeping_set_tai_offset
SetTaiOffset ==
  /\ \E n \in Tais : Lock(<<"tai", "end">>, n, [truth EXCEPT !.tai = n])
  /\ UNCHANGED rtc

\* The holder of the lock makes its next assignment.
Step(s) == /\ w.todo # <<>> /\ Head(w.todo) = s
           /\ UNCHANGED <<age, slept, asleep, rtc, task, used>>

\* The steps between write_seqcount_begin and timekeeping_update.
Write(s, new) ==
  /\ Step(s)
  /\ tk' = new
  /\ w' = [w EXCEPT !.todo = Tail(@)]
  /\ UNCHANGED <<shadow, last, odd, r, missed, truth>>

\* timekeeping_forward_now.  From here on a set clock runs at its new time.
Forward ==
  /\ Step("forward")
  /\ tk' = ForwardNow(tk)
  /\ last' = [last EXCEPT ![tk.clock] = Cycles(tk.clock)]
  /\ w' = [w EXCEPT !.todo = Tail(@),
                    !.truth.wall = IF "set" \in Range(w.todo) THEN w.arg - Running ELSE @]
  /\ UNCHANGED <<shadow, odd, r, missed, truth>>

\* timekeeping_inject_offset: goto error.
Check == /\ Step("check")
         /\ w' = IF Xtime(tk) + w.arg >= 0 THEN [w EXCEPT !.todo = Tail(@)]
                 ELSE [w EXCEPT !.todo = <<"end">>, !.truth = truth]
         /\ UNCHANGED <<tk, shadow, last, odd, r, missed, truth>>

Offset == Write("offset", SetWallToMono(tk, tk.wtm - (w.arg - Xtime(tk))))
Set == Write("set", SetXtime(tk, w.arg))
Add == Write("add", SetXtime(tk, Xtime(tk) + w.arg))
Sub == Write("sub", SetWallToMono(tk, tk.wtm - w.arg))
Slept == Write("slept", SetSleepTime(tk, tk.sleep + w.arg))
Tai == Write("tai", SetTai(tk, w.arg))

\* The section closes and the clocks say what they should.
Close == /\ odd' = FALSE
         /\ truth' = w.truth
         /\ Missing(w.truth.wall - truth.wall)
         /\ w' = Unlocked

\* timekeeping_update(TK_MIRROR), write_seqcount_end and the unlock.
End == Step("end") /\ Close /\ shadow' = tk /\ UNCHANGED <<tk, last, r>>

\* update_wall_time up to its write section: whole ticks go into the shadow,
\* and NTP may order a leap second when a second is complete.
TickStart ==
  /\ ~asleep /\ w.todo = <<>>
  /\ LET offset == Cycles(tk.clock) - last[tk.clock]
         n == (offset \div Interval) * Interval
         second == shadow.nsec + n >= SEC
     IN  /\ n > 0
         /\ \E leap \in {0} \cup IF second /\ used.events < MaxEvents THEN Leaps ELSE {} :
              /\ shadow' = Accumulate(shadow, n, leap)
              /\ used' = IF leap = 0 THEN used ELSE [used EXCEPT !.events = @ + 1, !.writes = @ + 1]
              /\ w' = [todo |-> <<"copy", "copied">>, arg |-> 0,
                       truth |-> [truth EXCEPT !.wall = @ + leap * SEC, !.tai = @ - leap]]
  /\ UNCHANGED <<age, slept, asleep, tk, last, odd, rtc, r, procvars, truth>>

\* The write section: cycle_last of the source and the time are copied...
Copy == /\ Step("copy")
        /\ w' = [w EXCEPT !.todo = Tail(@)]
        /\ Open
        /\ last' = [last EXCEPT ![tk.clock] = shadow.last]
        /\ tk' = [tk EXCEPT !.sec = shadow.sec, !.nsec = shadow.nsec, !.last = shadow.last]
        /\ UNCHANGED <<shadow, missed, truth>>

\* ...then the offsets.
Copied == Step("copied") /\ Close /\ tk' = shadow /\ UNCHANGED <<shadow, last, r>>

----------------------------------------------------------------------------
(* Writers that nothing else runs beside: in stop_machine, or on the last  *)
(* processor with interrupts off.  A reader they interrupt finds out.      *)

Alone == ~asleep /\ w.todo = <<>> /\ UNCHANGED <<age, odd, w, task>>
Noticed == r' = [r EXCEPT !.retry = (r.pc # "idle")]

\* tk_setup_internals
SetupInternals(t, s) == [t EXCEPT !.clock = s, !.last = Cycles(s)]

\* change_clocksource.  Without the new source (its
\* module is gone, or it cannot be enabled) the clock is just forwarded.
ChangeClocksource ==
  /\ Alone /\ used.events < MaxEvents
  /\ LET f == ForwardNow(tk)
         moved == [last EXCEPT ![tk.clock] = Cycles(tk.clock)]
     IN  \E s \in Source \ {tk.clock} :
           \/ tk' = f /\ last' = moved
           \/ /\ tk' = SetupInternals(f, s)
              /\ last' = [moved EXCEPT ![s] = Cycles(s)]
  /\ shadow' = tk'
  /\ used' = [used EXCEPT !.events = @ + 1, !.writes = @ + 1]
  /\ Noticed
  /\ UNCHANGED <<slept, asleep, rtc, missed, truth>>

\* Mutant: what the persistent clock truncates is not made up for.
SuspendTime_Raw(p, delta) == [rtc EXCEPT !.at = p]

\* The persistent clock reads p and is delta behind.  A change of delta below
\* two seconds is taken to be what reading it in seconds costs.
SuspendTime(p, delta) ==
  IF Abs((delta - rtc.old) \div SEC) >= 2
  THEN [rtc EXCEPT !.at = p, !.old = delta]
  ELSE [rtc EXCEPT !.at = p + (delta - rtc.old)]

\* The whole seconds of the RTC device, which its driver reads by itself.
Device == ((Epoch + age) \div SEC) * SEC

\* timekeeping_suspend
Suspend ==
  /\ Alone /\ used.events < MaxEvents
  /\ LET f == ForwardNow(tk)
     IN  /\ tk' = f /\ shadow' = f
         /\ last' = [last EXCEPT ![tk.clock] = f.last]
         /\ rtc' = [SuspendTime(RtcTime, Xtime(f) - RtcTime) EXCEPT !.owed = IF rtc.exists THEN 0 ELSE -Device]
  /\ asleep' = TRUE
  /\ used' = [used EXCEPT !.events = @ + 1]
  /\ Noticed
  /\ UNCHANGED <<slept, missed, truth>>

\* timekeeping_resume: the time asleep comes from a source that went on
\* counting, or else from the persistent clock.
Resume ==
  /\ asleep
  /\ LET counted == Cycles(tk.clock) - last[tk.clock]
         d == IF tk.clock \in Nonstop /\ counted > 0 THEN counted
              ELSE Max2(RtcTime - rtc.at, 0)
         new == [InjectSleeptime(tk, d) EXCEPT !.last = Cycles(tk.clock)]
     IN  /\ tk' = new /\ shadow' = new
         /\ last' = [last EXCEPT ![tk.clock] = new.last]
         /\ truth' = [truth EXCEPT !.wall = @ + d, !.sleep = @ + d]
         /\ Missing(d)
  /\ asleep' = FALSE
  /\ rtc' = [rtc EXCEPT !.at = 0, !.owed = IF rtc.exists THEN 0 ELSE @ + Device]
  /\ Noticed
  /\ UNCHANGED <<age, slept, odd, w, task, used>>

----------------------------------------------------------------------------
(* Readers.  Every clock is read by the same loop: the sequence number and *)
(* the seconds, the counter, what the clock adds, the sequence number.     *)

\* read_seqcount_begin waits for an open section to close.  A process that is
\* frozen makes no call.
Begin == /\ r.pc \in {"idle", "again"} /\ ~asleep /\ ~odd
         /\ \E mine \in IF r.pc = "again" THEN {r.mine} ELSE BOOLEAN :
              /\ mine => ~Frozen /\ used.reads < MaxReads
              /\ r' = [pc |-> "ns", retry |-> FALSE, sec |-> tk.sec, tai |-> tk.tai,
                       ns |-> 0, began |-> Running, mine |-> mine]
         /\ UNCHANGED <<age, slept, asleep, clockvars, w, procvars, truth, used>>

ReadNs == /\ r.pc = "ns" /\ ~asleep
          /\ r' = [r EXCEPT !.pc = "rest", !.ns = GetNs(tk)]
          /\ UNCHANGED <<age, slept, asleep, clockvars, w, procvars, truth, used>>

\* The time of day of a read that ends.
Real == r.sec * SEC + r.ns

\* The process in virtual time makes its clocks of it: real_virtual_timekeeping,
\* in gettimeofday and (after a reading of its own) in clock_gettime.
Deliver ==
  /\ r' = NoRead
  /\ IF r.mine
     THEN /\ task' = Timekeep(task, Real)
          /\ used' = [used EXCEPT !.reads = @ + 1]
     ELSE UNCHANGED <<task, used>>

\* Mutant: the sequence number is not looked at again.
Finish_Trusts ==
  /\ r.pc = "rest" /\ ~asleep
  /\ Deliver
  /\ UNCHANGED <<age, slept, asleep, clockvars, w, missed, truth>>

\* read_seqcount_retry sends the reader back.
Finish ==
  /\ r.pc = "rest" /\ ~asleep
  /\ IF r.retry
     THEN r' = [NoRead EXCEPT !.pc = "again", !.mine = r.mine] /\ UNCHANGED <<task, used>>
     ELSE Deliver
  /\ UNCHANGED <<age, slept, asleep, clockvars, w, missed, truth>>

\* freeze_time and unfreeze_time by a tool outside virtual time, which
\* __getnstimeofday serves whole.  How they race with a read of the process
\* is the matter of ClockRace.
Freeze == /\ ~asleep /\ ~odd /\ ~Frozen /\ used.events < MaxEvents
          /\ ~r.mine
          /\ task' = FreezeTime(task, tk.sec * SEC + GetNs(tk))
          /\ used' = [used EXCEPT !.events = @ + 1]
          /\ UNCHANGED <<age, slept, asleep, clockvars, w, r, missed, truth>>

Unfreeze == /\ ~asleep /\ ~odd /\ Frozen
            /\ task' = UnfreezeTime(task, tk.sec * SEC + GetNs(tk))
            /\ UNCHANGED <<age, slept, asleep, clockvars, w, r, missed, truth, used>>

----------------------------------------------------------------------------
Next == \/ Pass \/ Settimeofday \/ InjectOffset \/ RtcResume \/ SetTaiOffset
        \/ Forward \/ Check \/ Offset \/ Set \/ Add \/ Sub \/ Slept \/ Tai \/ End
        \/ TickStart \/ Copy \/ Copied
        \/ ChangeClocksource \/ Suspend \/ Resume
        \/ Begin \/ ReadNs \/ Finish
        \/ Freeze \/ Unfreeze

Spec == Init /\ [][Next]_vars

----------------------------------------------------------------------------
(* What a read that ends now returns and, from the history, what each of   *)
(* the clocks says.                                                        *)

\* ktime_get_ts, get_monotonic_boottime and timekeeping_clocktai
Mono == Real + tk.wtm
Boottime == Mono + tk.sleep
ClockTai == Real + r.tai * SEC

SystemResult == [real |-> Real, mono |-> Mono, tai |-> ClockTai, boot |-> Boottime]

\* ktime_get_update_offsets
BaseResult ==
  [real |-> Real, mono |-> Real - tk.offsReal, tai |-> Real - tk.offsReal + tk.offsTai,
   boot |-> Real - tk.offsReal + tk.offsBoot]

\* Mutant: the virtual clock is given the time clock_gettime has read.
VirtualResult_OnMono == [real |-> Reading(task, Real),
                         mono |-> Reading(task, Real + tk.wtm) + tk.wtm]

VirtualResult == [real |-> Reading(task, Real), mono |-> Reading(task, Real) + tk.wtm]

SystemTruth ==
  [real |-> Running + truth.wall, mono |-> Running,
   tai |-> Running + truth.wall + truth.tai * SEC, boot |-> Running + truth.sleep]

\* The process has been in virtual time since Epoch: what its clocks said then,
\* with CLOCK_MONOTONIC as far behind as it is now, and the real time since in
\* which it was not frozen.
VirtualStart == [real |-> Epoch, mono |-> Epoch - truth.wall]
Elapsed == Running + truth.wall - Epoch - missed

Returns == r.pc = "rest" /\ r'.pc = "idle"

\* The error is no more than what went by during the read.
Within(err) == -(Running - r.began) <= err /\ err <= 0

\* Types, and no clock has gone below zero.
TypeOK == /\ {age, slept} \subseteq Nat /\ {asleep, odd} \subseteq BOOLEAN
          /\ {tk, shadow} \subseteq Keeper /\ last \in [Source -> Nat]
          /\ task \in Task /\ missed \in Int
          /\ w.arg \in Int /\ w.truth \in [wall : Int, tai : Int, sleep : Nat]
          /\ truth \in [wall : Int, tai : Int, sleep : Nat]
          /\ rtc \in [exists : Persistent, at : Int, old : Int, owed : Int]

\* Every system clock is read whole: however a read meets ticks, leap
\* seconds, settimeofday, a new clock source or a suspend, what it returns is
\* what that clock said at some moment of the last turn of its loop.  So
\* CLOCK_MONOTONIC moves with the running time and nothing else, and a tick
\* never takes a set clock back.  The bases hrtimers expire by, whose offsets
\* are kept a second time, say the same: tk_set_wall_to_mono "verifies
\* consistency of offset_real = -wall_to_monotonic".
SystemReads ==
  [][Returns => \A c \in DOMAIN SystemTruth :
                   /\ Within(SystemResult[c] - SystemTruth[c])
                   /\ Within(BaseResult[c] - SystemTruth[c])]_vars

\* The virtual clocks are whole too, and this is all they are: the wall clock
\* less the wall-clock length of the freezes, at the factor; and for
\* CLOCK_MONOTONIC the same, less the undilated distance of the two clocks.
\* The error, times the factor, is what went by during the read, and less than
\* a virtual nanosecond for this and for each earlier read of the process.
VirtualReads ==
  [][(Returns /\ r.mine) =>
       \A c \in DOMAIN VirtualStart :
         LET err  == Tdf * (VirtualResult[c] - VirtualStart[c]) - 1000 * Elapsed
             lost == Tdf * (1 + used.reads)
         IN  -1000 * (Running - r.began) - lost < err /\ err < lost]_vars

\* However often the system is suspended, the boot clock is less than a second
\* from physical time for the persistent clock it went by ("to avoid drift
\* caused by repeated suspend/resumes").  Each time the clock was set may cost
\* three seconds more: a step of less than that is taken for drift, and what
\* was set is made up for in the time asleep.
BootClockKept ==
  TypeOK /\ ((~asleep /\ rtc.exists) =>
                Abs(truth.sleep - slept) < SEC * (1 + 3 * used.writes))

=============================================================================

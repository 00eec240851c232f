-------------------------- MODULE TimekeeperProofs --------------------------
(***************************************************************************)
(* What Timekeeper promises, for every set of clock sources and every      *)
(* length of a second, of a tick and of the steps the clock is set by.     *)
(*                                                                         *)
(* WriterInv says what the timekeeper holds at every assignment of whoever *)
(* holds timekeeper_lock; ReaderInv that a reader who has noticed nothing  *)
(* has missed nothing; TaskInv how the fields of the process in virtual    *)
(* time account for the real time it ran and was frozen in; and BootInv    *)
(* how far the sleep times that were injected can be from the truth.       *)
(***************************************************************************)
EXTENDS Timekeeper, TLAPS

Todos == {<<>>, <<"forward", "offset", "set", "end">>, <<"offset", "set", "end">>,
          <<"set", "end">>, <<"end">>,
          <<"forward", "check", "add", "sub", "end">>, <<"check", "add", "sub", "end">>,
          <<"add", "sub", "end">>, <<"sub", "end">>,
          <<"forward", "add", "sub", "slept", "end">>, <<"add", "sub", "slept", "end">>,
          <<"sub", "slept", "end">>, <<"slept", "end">>,
          <<"tai", "end">>, <<"copy", "copied">>, <<"copied">>}

Reader == [pc : {"idle", "again", "ns", "rest"}, retry : BOOLEAN, sec : Int, tai : Int,
           ns : Int, began : Int, mine : BOOLEAN]

Typed == /\ TypeOK
         /\ slept <= age
         /\ w \in [todo : Todos, arg : Int, truth : [wall : Int, tai : Int, sleep : Nat]]
         /\ r \in Reader
         /\ used \in [events : Nat, writes : Nat, reads : Nat]
         /\ rtc \in [exists : BOOLEAN, at : Int, old : Int, owed : Int]

\* The offsets of t belong to clocks that say tr.
Consistent(t, tr) ==
  /\ t.wtm = -tr.wall /\ t.offsReal = tr.wall
  /\ t.tai = tr.tai /\ t.offsTai = tr.wall + tr.tai * SEC
  /\ t.sleep = tr.sleep /\ t.offsBoot = tr.sleep

\* The cycles that are not yet in the timekeeper.
Count == Cycles(tk.clock) - last[tk.clock]

\* The time of day is wall ahead of the running time.
OnTime(wall) == Xtime(tk) + (IF asleep THEN 0 ELSE Count) = Running + wall

\* What the tick copies over.
ShadowDue == /\ Consistent(shadow, w.truth)
             /\ Xtime(shadow) + (Cycles(tk.clock) - shadow.last) = Running + w.truth.wall
             /\ shadow.last <= Cycles(tk.clock)

\* The clock is set: to w.arg, by w.arg, or by w.arg seconds of sleep.
ToArg == w.truth = [truth EXCEPT !.wall = w.arg - Xtime(tk) + truth.wall] /\ w.arg >= 0
ByArg == w.truth = [truth EXCEPT !.wall = @ + w.arg]
BySleep == w.truth = [truth EXCEPT !.wall = @ + w.arg, !.sleep = @ + w.arg] /\ w.arg >= 0

\* Nobody writes, or nobody is seen to.
Settled == ~odd /\ Consistent(tk, truth) /\ OnTime(truth.wall)

Before == odd /\ Consistent(tk, truth) /\ OnTime(truth.wall)
Midway == odd /\ Consistent(tk, truth) /\ OnTime(w.truth.wall)

Phase ==
  \/ w.todo = <<>> /\ w = Unlocked /\ shadow = tk /\ Settled
  \/ w.todo = <<"copy", "copied">> /\ Settled /\ ShadowDue
  \/ w.todo = <<"copied">> /\ odd /\ ShadowDue /\ shadow.last = tk.last
  \/ w.todo = <<"forward", "offset", "set", "end">> /\ Before /\ w.truth = truth /\ w.arg >= 0
  \/ w.todo = <<"offset", "set", "end">> /\ Before /\ ToArg
  \/ w.todo = <<"set", "end">> /\ odd /\ Consistent(tk, w.truth) /\ OnTime(truth.wall) /\ ToArg
  \/ /\ w.todo \in {<<"forward", "check", "add", "sub", "end">>, <<"check", "add", "sub", "end">>}
     /\ Before /\ ByArg
  \/ w.todo = <<"add", "sub", "end">> /\ Before /\ ByArg /\ Xtime(tk) + w.arg >= 0
  \/ w.todo = <<"sub", "end">> /\ Midway /\ ByArg
  \/ /\ w.todo \in {<<"forward", "add", "sub", "slept", "end">>, <<"add", "sub", "slept", "end">>}
     /\ Before /\ BySleep
  \/ w.todo = <<"sub", "slept", "end">> /\ Midway /\ BySleep
  \/ /\ w.todo = <<"slept", "end">> /\ odd /\ Consistent(tk, [truth EXCEPT !.wall = w.truth.wall])
     /\ OnTime(w.truth.wall) /\ BySleep
  \/ w.todo = <<"tai", "end">> /\ Before /\ w.truth = [truth EXCEPT !.tai = w.arg]
  \/ w.todo = <<"end">> /\ odd /\ Consistent(tk, w.truth) /\ OnTime(w.truth.wall)

WriterInv == /\ shadow.clock = tk.clock /\ tk.last = last[tk.clock] /\ Count >= 0
             /\ asleep => w.todo = <<>>
             /\ Phase

ReaderInv ==
  /\ (r.pc \in {"ns", "rest"} /\ ~r.retry) =>
       /\ ~odd /\ ~asleep /\ r.sec = tk.sec /\ r.tai = tk.tai /\ r.began <= Running
       /\ r.pc = "rest" => r.began <= Real - truth.wall /\ Real - truth.wall <= Running
  /\ r.mine => ~Frozen

TaskInv ==
  /\ task.dilation = Tdf /\ task.vsn = Epoch /\ task.psn = Epoch
  /\ missed = task.fpn + (IF Frozen THEN Running + truth.wall - task.fsn ELSE 0)
  /\ LET err == 1000 * task.ppn - Tdf * task.vpn
     IN  -(Tdf * used.reads) <= err /\ err <= Tdf * used.reads

----------------------------------------------------------------------------
(* The boot clock: drift is how far it is from physical time, aim how far  *)
(* the sleep times it is going to be given would take it.                  *)

Room == SEC * (3 * used.writes)

\* old_delta, less what it would have been had no time been lost.
Aim == rtc.old - (truth.wall - truth.sleep - Epoch)

\* Since the last step of the clock a sleep time has been made good.
Calm(e, u, room) == /\ u - SEC < e /\ e <= u
                    /\ 1 - SEC - room <= u - (SEC - 1) /\ u <= room
\* The clock was set, and the error is still what it was before.
Stepped(e, room) == 1 + 2 * SEC - room <= e /\ e <= room - 3 * SEC
\* A sleep was too short to make good what was set.
Falling(e, u, room) == u < e /\ e <= room - 3 * SEC /\ 2 - room <= u

Bounded(e, u, room) == /\ 1 - SEC - room <= e /\ e <= room
                       /\ Calm(e, u, room) \/ Stepped(e, room) \/ Falling(e, u, room)

Seconds(a) == ((Epoch + a) \div SEC) * SEC
Fraction(a) == Epoch + a - Seconds(a)

\* The system has been asleep since a.
AsleepSince(a) ==
  LET e == truth.sleep - slept + (age - a)
      d == e - Aim + Fraction(a)
  IN  /\ Bounded(e, Aim, Room)
      /\ -SEC <= d /\ d < 2 * SEC
      /\ rtc.at = Seconds(a) + d
      /\ tk.clock \in Nonstop => last[tk.clock] = Skew[tk.clock] + a

BootInv ==
  rtc.exists =>
    IF asleep THEN \E a \in 0 .. age : AsleepSince(a)
    ELSE /\ Bounded(truth.sleep - slept, Aim, Room)
         /\ w.todo # <<>> => w.truth.sleep = truth.sleep
         /\ \/ Stepped(truth.sleep - slept, Room)
            \/ w.todo = <<>>
            \/ w.todo \in {<<"copy", "copied">>, <<"copied">>} /\ w.truth = truth

IInv == Typed /\ WriterInv /\ ReaderInv /\ TaskInv /\ BootInv

----------------------------------------------------------------------------
(* What the operators of TaskClock do to the fields.                       *)

\* C division loses less than the divisor, and towards zero.
LEMMA DivS64Bound ==
  ASSUME NEW n \in Int, NEW d \in Int, d > 0
  PROVE  /\ DivS64(n, d) \in Int
         /\ -d < n - d * DivS64(n, d) /\ n - d * DivS64(n, d) < d
         /\ n >= 0 => DivS64(n, d) >= 0 /\ n - d * DivS64(n, d) >= 0
<1>1. CASE n >= 0
  <2>1. /\ n \div d \in Int /\ n \div d >= 0
        /\ d * (n \div d) <= n /\ n < d * (n \div d) + d
    BY <1>1, SMTT(30)
  <2>2. DivS64(n, d) = n \div d
    BY <1>1 DEF DivS64
  <2> QED
    BY <2>1, <2>2
<1>2. CASE n < 0
  <2> DEFINE m == -n
             q == m \div d
  <2>1. m \in Int /\ m > 0
    BY <1>2
  <2> HIDE DEF m
  <2>2. q \in Int /\ q >= 0 /\ d * q <= m /\ m < d * q + d
    BY <2>1, SMTT(30)
  <2>3. DivS64(n, d) = -q
    BY <1>2 DEF DivS64, m
  <2> HIDE DEF q
  <2>4. d * (-q) = -(d * q)
    BY <2>2
  <2> QED
    BY <1>2, <2>2, <2>3, <2>4 DEF m
<1> QED
  BY <1>1, <1>2

\* update_virtual_past_nsec loses less than one virtual nanosecond, and
\* never turns the clock back when physical time went forward.
LEMMA DeltaVpnBound ==
  ASSUME NEW delta \in Int, NEW tdf \in Int, tdf > 0
  PROVE  /\ DeltaVpn(delta, tdf) \in Int
         /\ delta >= 0 => DeltaVpn(delta, tdf) >= 0
         /\ tdf <= MaxTdf =>
              LET e == 1000 * delta - tdf * DeltaVpn(delta, tdf)
              IN  -tdf < e /\ e < tdf /\ (delta >= 0 => e >= 0)
<1> DEFINE n == delta * 1000
<1>1. n \in Int /\ n = 1000 * delta /\ (delta >= 0 => n >= 0)
  OBVIOUS
<1> HIDE DEF n
<1>2. /\ DivS64(n, tdf) \in Int
      /\ -tdf < n - tdf * DivS64(n, tdf) /\ n - tdf * DivS64(n, tdf) < tdf
      /\ n >= 0 => DivS64(n, tdf) >= 0 /\ n - tdf * DivS64(n, tdf) >= 0
  BY <1>1, DivS64Bound
<1>3. CASE tdf > MaxTdf
  BY <1>3 DEF DeltaVpn, MaxTdf
<1>4. CASE tdf = 1000
  BY <1>4 DEF DeltaVpn, MaxTdf
<1>5. CASE tdf <= MaxTdf /\ tdf # 1000
  <2>1. DeltaVpn(delta, tdf) = DivS64(n, tdf)
    BY <1>5 DEF DeltaVpn, MaxTdf, n
  <2> QED
    BY <2>1, <1>1, <1>2
<1> QED
  BY <1>3, <1>4, <1>5 DEF MaxTdf

\* What a read leaves in the task: only the two "past" fields move.
LEMMA TimekeepFields ==
  ASSUME NEW t \in Task, NEW now \in Int, t.dilation > 0, Virtual(t)
  PROVE  LET u == Timekeep(t, now)
             delta == DeltaPpn(t, now)
         IN  /\ u \in Task /\ u.dilation = t.dilation
             /\ u.vsn = t.vsn /\ u.vpn = t.vpn + DeltaVpn(delta, t.dilation)
             /\ u.psn = t.psn /\ u.ppn = t.ppn + delta
             /\ u.fsn = t.fsn /\ u.fpn = t.fpn
<1> DEFINE delta == DeltaPpn(t, now)
           dv == DeltaVpn(delta, t.dilation)
           x == [t EXCEPT !.ppn = t.ppn + delta]
           u == [x EXCEPT !.vpn = t.vpn + dv]
<1>1. delta \in Int
  BY DEF DeltaPpn, Task
<1>2. dv \in Int
  BY <1>1, DeltaVpnBound DEF Task
<1>3. Timekeep(t, now) = u
  BY Zenon DEF Timekeep
<1> HIDE DEF delta, dv
<1>4. /\ x \in Task /\ x.dilation = t.dilation /\ x.vsn = t.vsn /\ x.vpn = t.vpn
      /\ x.psn = t.psn /\ x.ppn = t.ppn + delta /\ x.fsn = t.fsn /\ x.fpn = t.fpn
  BY <1>1 DEF Task
<1> HIDE DEF x
<1>5. /\ u \in Task /\ u.dilation = t.dilation /\ u.vsn = t.vsn
      /\ u.vpn = t.vpn + dv /\ u.psn = t.psn /\ u.ppn = t.ppn + delta
      /\ u.fsn = t.fsn /\ u.fpn = t.fpn
  BY <1>2, <1>4 DEF Task
<1> QED
  BY <1>3, <1>5 DEF delta, dv

----------------------------------------------------------------------------
(* The operations on a timekeeper.                                         *)

LEMMA Divide ==
  ASSUME NEW v \in Nat
  PROVE  v \div SEC \in Nat /\ v % SEC \in Nat /\ (v \div SEC) * SEC + (v % SEC) = v
<1>1. SEC \in Nat /\ SEC > 0
  BY UnitAssumption
<1> QED
  BY <1>1

LEMMA XtimeType ==
  ASSUME NEW t \in Keeper
  PROVE  Xtime(t) \in Nat
<1>1. SEC \in Nat /\ t.sec \in Nat /\ t.nsec \in Nat
  BY UnitAssumption DEF Keeper
<1> QED
  BY <1>1 DEF Xtime

LEMMA SetXtimeFields ==
  ASSUME NEW t \in Keeper, NEW v \in Nat
  PROVE  LET u == SetXtime(t, v)
         IN  /\ u \in Keeper /\ Xtime(u) = v
             /\ u.clock = t.clock /\ u.last = t.last /\ u.wtm = t.wtm
             /\ u.offsReal = t.offsReal /\ u.tai = t.tai /\ u.offsTai = t.offsTai
             /\ u.sleep = t.sleep /\ u.offsBoot = t.offsBoot
<1> DEFINE a == v \div SEC
           b == v % SEC
           u == [t EXCEPT !.sec = a, !.nsec = b]
<1>1. a \in Nat /\ b \in Nat /\ a * SEC + b = v
  BY Divide
<1>2. SetXtime(t, v) = u
  BY DEF SetXtime
<1> HIDE DEF a, b
<1>3. /\ u \in Keeper /\ u.sec = a /\ u.nsec = b
      /\ u.clock = t.clock /\ u.last = t.last /\ u.wtm = t.wtm
      /\ u.offsReal = t.offsReal /\ u.tai = t.tai /\ u.offsTai = t.offsTai
      /\ u.sleep = t.sleep /\ u.offsBoot = t.offsBoot
  BY <1>1 DEF Keeper
<1> HIDE DEF u
<1> QED
  BY <1>1, <1>2, <1>3 DEF Xtime

LEMMA SetWallToMonoFields ==
  ASSUME NEW t \in Keeper, NEW v \in Int
  PROVE  LET u == SetWallToMono(t, v)
         IN  /\ u \in Keeper /\ u.sec = t.sec /\ u.nsec = t.nsec
             /\ u.clock = t.clock /\ u.last = t.last /\ u.wtm = v
             /\ u.offsReal = -v /\ u.tai = t.tai /\ u.offsTai = -v + t.tai * SEC
             /\ u.sleep = t.sleep /\ u.offsBoot = t.offsBoot
<1>1. SEC \in Int /\ t.tai \in Int
  BY UnitAssumption DEF Keeper
<1> DEFINE x == -v + t.tai * SEC
           z == -v
           u == [t EXCEPT !.wtm = v, !.offsReal = z, !.offsTai = x]
<1>2. x \in Int /\ z \in Int
  BY <1>1
<1> HIDE DEF x, z
<1>3. /\ u \in Keeper /\ u.sec = t.sec /\ u.nsec = t.nsec
      /\ u.clock = t.clock /\ u.last = t.last /\ u.wtm = v
      /\ u.offsReal = z /\ u.tai = t.tai /\ u.offsTai = x
      /\ u.sleep = t.sleep /\ u.offsBoot = t.offsBoot
  BY <1>2 DEF Keeper
<1> QED
  BY <1>3 DEF SetWallToMono, x, z

LEMMA SetSleepTimeFields ==
  ASSUME NEW t \in Keeper, NEW v \in Int
  PROVE  LET u == SetSleepTime(t, v)
         IN  /\ u \in Keeper /\ u.sec = t.sec /\ u.nsec = t.nsec
             /\ u.clock = t.clock /\ u.last = t.last /\ u.wtm = t.wtm
             /\ u.offsReal = t.offsReal /\ u.tai = t.tai /\ u.offsTai = t.offsTai
             /\ u.sleep = v /\ u.offsBoot = v
BY DEF SetSleepTime, Keeper

LEMMA SetTaiFields ==
  ASSUME NEW t \in Keeper, NEW v \in Int
  PROVE  LET u == SetTai(t, v)
         IN  /\ u \in Keeper /\ u.sec = t.sec /\ u.nsec = t.nsec
             /\ u.clock = t.clock /\ u.last = t.last /\ u.wtm = t.wtm
             /\ u.offsReal = t.offsReal /\ u.tai = v /\ u.offsTai = t.offsReal + v * SEC
             /\ u.sleep = t.sleep /\ u.offsBoot = t.offsBoot
<1>1. SEC \in Int /\ t.offsReal \in Int
  BY UnitAssumption DEF Keeper
<1> DEFINE x == t.offsReal + v * SEC
           u == [t EXCEPT !.tai = v, !.offsTai = x]
<1>2. x \in Int
  BY <1>1
<1> HIDE DEF x
<1>3. /\ u \in Keeper /\ u.sec = t.sec /\ u.nsec = t.nsec
      /\ u.clock = t.clock /\ u.last = t.last /\ u.wtm = t.wtm
      /\ u.offsReal = t.offsReal /\ u.tai = v /\ u.offsTai = x
      /\ u.sleep = t.sleep /\ u.offsBoot = t.offsBoot
  BY <1>2 DEF Keeper
<1> QED
  BY <1>3 DEF SetTai, x

\* The counters of the clock sources never run out of the naturals.
LEMMA CyclesType ==
  ASSUME Typed, NEW s \in Source
  PROVE  Cycles(s) \in Nat /\ Running \in Nat
BY SourceAssumption DEF Cycles, Running, Typed, TypeOK

LEMMA ForwardNowFields ==
  ASSUME Typed, Count >= 0
  PROVE  LET u == ForwardNow(tk)
         IN  /\ u \in Keeper /\ Xtime(u) = Xtime(tk) + Count
             /\ u.clock = tk.clock /\ u.last = Cycles(tk.clock) /\ u.wtm = tk.wtm
             /\ u.offsReal = tk.offsReal /\ u.tai = tk.tai /\ u.offsTai = tk.offsTai
             /\ u.sleep = tk.sleep /\ u.offsBoot = tk.offsBoot
<1> DEFINE x == tk.sec * SEC + GetNs(tk)
           y == SetXtime(tk, x)
           c == Cycles(tk.clock)
<1>1. tk \in Keeper /\ tk.clock \in Source /\ c \in Nat /\ last[tk.clock] \in Nat
  BY CyclesType DEF Typed, TypeOK, Keeper
<1>2. x = Xtime(tk) + Count /\ x \in Nat
  <2>1. Xtime(tk) \in Nat /\ SEC \in Nat /\ tk.sec \in Nat /\ tk.nsec \in Nat
    BY <1>1, XtimeType, UnitAssumption DEF Keeper
  <2> QED
    BY <1>1, <2>1 DEF GetNs, Xtime, Count
<1> HIDE DEF x
<1>3. /\ y \in Keeper /\ Xtime(y) = x
      /\ y.clock = tk.clock /\ y.last = tk.last /\ y.wtm = tk.wtm
      /\ y.offsReal = tk.offsReal /\ y.tai = tk.tai /\ y.offsTai = tk.offsTai
      /\ y.sleep = tk.sleep /\ y.offsBoot = tk.offsBoot
  BY <1>1, <1>2, SetXtimeFields
<1>4. ForwardNow(tk) = [y EXCEPT !.last = c]
  BY Zenon DEF ForwardNow, x
<1> HIDE DEF y, c
<1> DEFINE u == [y EXCEPT !.last = c]
<1>5. /\ u \in Keeper /\ u.sec = y.sec /\ u.nsec = y.nsec
      /\ u.clock = y.clock /\ u.last = c /\ u.wtm = y.wtm
      /\ u.offsReal = y.offsReal /\ u.tai = y.tai /\ u.offsTai = y.offsTai
      /\ u.sleep = y.sleep /\ u.offsBoot = y.offsBoot
  BY <1>1, <1>3 DEF Keeper
<1> HIDE DEF u
<1> QED
  BY <1>2, <1>3, <1>4, <1>5 DEF Xtime, u, c

----------------------------------------------------------------------------
(* The programs of the writers.                                            *)

LEMMA Programs ==
  ASSUME NEW todo \in Todos, todo # <<>>
  PROVE  /\ Tail(todo) \in Todos
         /\ Head(todo) = "forward" =>
              todo \in {<<"forward", "offset", "set", "end">>,
                        <<"forward", "check", "add", "sub", "end">>,
                        <<"forward", "add", "sub", "slept", "end">>}
         /\ Head(todo) = "check" => todo = <<"check", "add", "sub", "end">>
         /\ Head(todo) = "offset" => todo = <<"offset", "set", "end">>
         /\ Head(todo) = "set" => todo = <<"set", "end">>
         /\ Head(todo) = "add" =>
              todo \in {<<"add", "sub", "end">>, <<"add", "sub", "slept", "end">>}
         /\ Head(todo) = "sub" => todo \in {<<"sub", "end">>, <<"sub", "slept", "end">>}
         /\ Head(todo) = "slept" => todo = <<"slept", "end">>
         /\ Head(todo) = "tai" => todo = <<"tai", "end">>
         /\ Head(todo) = "end" => todo = <<"end">>
         /\ Head(todo) = "copy" => todo = <<"copy", "copied">>
         /\ Head(todo) = "copied" => todo = <<"copied">>
<1>1. CASE todo = <<"forward", "offset", "set", "end">>
  <2>1. Head(todo) = "forward" /\ Tail(todo) = <<"offset", "set", "end">>
    BY <1>1
  <2>2. <<"offset", "set", "end">> \in Todos
    BY DEF Todos
  <2> QED
    BY <1>1, <2>1, <2>2
<1>2. CASE todo = <<"offset", "set", "end">>
  <2>1. Head(todo) = "offset" /\ Tail(todo) = <<"set", "end">>
    BY <1>2
  <2>2. <<"set", "end">> \in Todos
    BY DEF Todos
  <2> QED
    BY <1>2, <2>1, <2>2
<1>3. CASE todo = <<"set", "end">>
  <2>1. Head(todo) = "set" /\ Tail(todo) = <<"end">>
    BY <1>3
  <2>2. <<"end">> \in Todos
    BY DEF Todos
  <2> QED
    BY <1>3, <2>1, <2>2
<1>4. CASE todo = <<"end">>
  <2>1. Head(todo) = "end" /\ Tail(todo) = <<>>
    BY <1>4
  <2>2. <<>> \in Todos
    BY DEF Todos
  <2> QED
    BY <1>4, <2>1, <2>2
<1>5. CASE todo = <<"forward", "check", "add", "sub", "end">>
  <2>1. Head(todo) = "forward" /\ Tail(todo) = <<"check", "add", "sub", "end">>
    BY <1>5
  <2>2. <<"check", "add", "sub", "end">> \in Todos
    BY DEF Todos
  <2> QED
    BY <1>5, <2>1, <2>2
<1>6. CASE todo = <<"check", "add", "sub", "end">>
  <2>1. Head(todo) = "check" /\ Tail(todo) = <<"add", "sub", "end">>
    BY <1>6
  <2>2. <<"add", "sub", "end">> \in Todos
    BY DEF Todos
  <2> QED
    BY <1>6, <2>1, <2>2
<1>7. CASE todo = <<"add", "sub", "end">>
  <2>1. Head(todo) = "add" /\ Tail(todo) = <<"sub", "end">>
    BY <1>7
  <2>2. <<"sub", "end">> \in Todos
    BY DEF Todos
  <2> QED
    BY <1>7, <2>1, <2>2
<1>8. CASE todo = <<"sub", "end">>
  <2>1. Head(todo) = "sub" /\ Tail(todo) = <<"end">>
    BY <1>8
  <2>2. <<"end">> \in Todos
    BY DEF Todos
  <2> QED
    BY <1>8, <2>1, <2>2
<1>9. CASE todo = <<"forward", "add", "sub", "slept", "end">>
  <2>1. Head(todo) = "forward" /\ Tail(todo) = <<"add", "sub", "slept", "end">>
    BY <1>9
  <2>2. <<"add", "sub", "slept", "end">> \in Todos
    BY DEF Todos
  <2> QED
    BY <1>9, <2>1, <2>2
<1>10. CASE todo = <<"add", "sub", "slept", "end">>
  <2>1. Head(todo) = "add" /\ Tail(todo) = <<"sub", "slept", "end">>
    BY <1>10
  <2>2. <<"sub", "slept", "end">> \in Todos
    BY DEF Todos
  <2> QED
    BY <1>10, <2>1, <2>2
<1>11. CASE todo = <<"sub", "slept", "end">>
  <2>1. Head(todo) = "sub" /\ Tail(todo) = <<"slept", "end">>
    BY <1>11
  <2>2. <<"slept", "end">> \in Todos
    BY DEF Todos
  <2> QED
    BY <1>11, <2>1, <2>2
<1>12. CASE todo = <<"slept", "end">>
  <2>1. Head(todo) = "slept" /\ Tail(todo) = <<"end">>
    BY <1>12
  <2>2. <<"end">> \in Todos
    BY DEF Todos
  <2> QED
    BY <1>12, <2>1, <2>2
<1>13. CASE todo = <<"tai", "end">>
  <2>1. Head(todo) = "tai" /\ Tail(todo) = <<"end">>
    BY <1>13
  <2>2. <<"end">> \in Todos
    BY DEF Todos
  <2> QED
    BY <1>13, <2>1, <2>2
<1>14. CASE todo = <<"copy", "copied">>
  <2>1. Head(todo) = "copy" /\ Tail(todo) = <<"copied">>
    BY <1>14
  <2>2. <<"copied">> \in Todos
    BY DEF Todos
  <2> QED
    BY <1>14, <2>1, <2>2
<1>15. CASE todo = <<"copied">>
  <2>1. Head(todo) = "copied" /\ Tail(todo) = <<>>
    BY <1>15
  <2>2. <<>> \in Todos
    BY DEF Todos
  <2> QED
    BY <1>15, <2>1, <2>2
<1> QED
  BY <1>1, <1>2, <1>3, <1>4, <1>5, <1>6, <1>7, <1>8, <1>9, <1>10, <1>11, <1>12, <1>13, <1>14, <1>15 DEF Todos

LEMMA PhaseAt ==
  ASSUME Phase
  PROVE  /\ w.todo = <<>> => w = Unlocked /\ shadow = tk /\ Settled
         /\ w.todo = <<"copy", "copied">> => Settled /\ ShadowDue
         /\ w.todo = <<"copied">> => odd /\ ShadowDue /\ shadow.last = tk.last
         /\ w.todo = <<"forward", "offset", "set", "end">> =>
              Before /\ w.truth = truth /\ w.arg >= 0
         /\ w.todo = <<"offset", "set", "end">> => Before /\ ToArg
         /\ w.todo = <<"set", "end">> =>
              odd /\ Consistent(tk, w.truth) /\ OnTime(truth.wall) /\ ToArg
         /\ w.todo = <<"forward", "check", "add", "sub", "end">> => Before /\ ByArg
         /\ w.todo = <<"check", "add", "sub", "end">> => Before /\ ByArg
         /\ w.todo = <<"add", "sub", "end">> => Before /\ ByArg /\ Xtime(tk) + w.arg >= 0
         /\ w.todo = <<"sub", "end">> => Midway /\ ByArg
         /\ w.todo = <<"forward", "add", "sub", "slept", "end">> => Before /\ BySleep
         /\ w.todo = <<"add", "sub", "slept", "end">> => Before /\ BySleep
         /\ w.todo = <<"sub", "slept", "end">> => Midway /\ BySleep
         /\ w.todo = <<"slept", "end">> =>
              /\ odd /\ Consistent(tk, [truth EXCEPT !.wall = w.truth.wall])
              /\ OnTime(w.truth.wall) /\ BySleep
         /\ w.todo = <<"tai", "end">> => Before /\ w.truth = [truth EXCEPT !.tai = w.arg]
         /\ w.todo = <<"end">> => odd /\ Consistent(tk, w.truth) /\ OnTime(w.truth.wall)
<1>1. ASSUME w.todo = <<>>
      PROVE  w = Unlocked /\ shadow = tk /\ Settled
  BY <1>1 DEF Phase
<1>2. ASSUME w.todo = <<"copy", "copied">>
      PROVE  Settled /\ ShadowDue
  BY <1>2 DEF Phase
<1>3. ASSUME w.todo = <<"copied">>
      PROVE  odd /\ ShadowDue /\ shadow.last = tk.last
  BY <1>3 DEF Phase
<1>4. ASSUME w.todo = <<"forward", "offset", "set", "end">>
      PROVE  Before /\ w.truth = truth /\ w.arg >= 0
  BY <1>4 DEF Phase
<1>5. ASSUME w.todo = <<"offset", "set", "end">>
      PROVE  Before /\ ToArg
  BY <1>5 DEF Phase
<1>6. ASSUME w.todo = <<"set", "end">>
      PROVE  odd /\ Consistent(tk, w.truth) /\ OnTime(truth.wall) /\ ToArg
  BY <1>6 DEF Phase
<1>7. ASSUME w.todo = <<"forward", "check", "add", "sub", "end">>
      PROVE  Before /\ ByArg
  BY <1>7 DEF Phase
<1>8. ASSUME w.todo = <<"check", "add", "sub", "end">>
      PROVE  Before /\ ByArg
  BY <1>8 DEF Phase
<1>9. ASSUME w.todo = <<"add", "sub", "end">>
      PROVE  Before /\ ByArg /\ Xtime(tk) + w.arg >= 0
  BY <1>9 DEF Phase
<1>10. ASSUME w.todo = <<"sub", "end">>
      PROVE  Midway /\ ByArg
  BY <1>10 DEF Phase
<1>11. ASSUME w.todo = <<"forward", "add", "sub", "slept", "end">>
      PROVE  Before /\ BySleep
  BY <1>11 DEF Phase
<1>12. ASSUME w.todo = <<"add", "sub", "slept", "end">>
      PROVE  Before /\ BySleep
  BY <1>12 DEF Phase
<1>13. ASSUME w.todo = <<"sub", "slept", "end">>
      PROVE  Midway /\ BySleep
  BY <1>13 DEF Phase
<1>14. ASSUME w.todo = <<"slept", "end">>
      PROVE  /\ odd /\ Consistent(tk, [truth EXCEPT !.wall = w.truth.wall])
               /\ OnTime(w.truth.wall) /\ BySleep
  BY <1>14 DEF Phase
<1>15. ASSUME w.todo = <<"tai", "end">>
      PROVE  Before /\ w.truth = [truth EXCEPT !.tai = w.arg]
  BY <1>15 DEF Phase
<1>16. ASSUME w.todo = <<"end">>
      PROVE  odd /\ Consistent(tk, w.truth) /\ OnTime(w.truth.wall)
  BY <1>16 DEF Phase
<1> QED
  BY <1>1, <1>2, <1>3, <1>4, <1>5, <1>6, <1>7, <1>8, <1>9, <1>10, <1>11, <1>12, <1>13, <1>14, <1>15, <1>16

LEMMA PhaseEven ==
  ASSUME Phase, ~odd
  PROVE  Settled
BY Zenon DEF Phase, Before, Midway, Settled

LEMMA PhaseOdd ==
  ASSUME Phase, odd
  PROVE  w.todo # <<>> /\ w.todo # <<"copy", "copied">>
<1>1. ~Settled
  BY Zenon DEF Settled
<1> QED
  BY <1>1, PhaseAt

----------------------------------------------------------------------------
(* What an assignment leaves alone.                                        *)

LEMMA StepFacts ==
  ASSUME IInv, NEW s, Step(s)
  PROVE  /\ ~asleep /\ w.todo \in Todos /\ w.todo # <<>> /\ Head(w.todo) = s
         /\ UNCHANGED <<age, slept, asleep, rtc, task, used>>
<1>1. w.todo # <<>> /\ Head(w.todo) = s /\ UNCHANGED <<age, slept, asleep, rtc, task, used>>
  BY DEF Step
<1>2. ~asleep
  BY <1>1 DEF IInv, WriterInv
<1>3. w.todo \in Todos
  BY DEF IInv, Typed
<1> QED
  BY <1>1, <1>2, <1>3

\* In an open write section no reader has noticed nothing.
LEMMA OpenFrame ==
  ASSUME IInv, odd, UNCHANGED <<age, slept, asleep, task, used, r, missed, truth>>
  PROVE  ReaderInv' /\ TaskInv'
<1>1. r.pc \in {"ns", "rest"} => r.retry
  BY DEF IInv, ReaderInv
<1>2. ReaderInv'
  BY <1>1 DEF IInv, ReaderInv, Frozen
<1>3. TaskInv'
  BY DEF IInv, TaskInv, Frozen, Running
<1> QED
  BY <1>2, <1>3

LEMMA OpenBoot ==
  ASSUME IInv, ~asleep, w.todo # <<>>, w'.truth.sleep = w.truth.sleep,
         w.todo \in {<<"copy", "copied">>, <<"copied">>} =>
           w'.todo \in {<<>>, <<"copied">>} /\ w'.truth = w.truth,
         UNCHANGED <<age, slept, asleep, rtc, truth, used>>
  PROVE  BootInv'
<1>1. SUFFICES ASSUME rtc.exists
               PROVE  BootInv'
  BY DEF BootInv
<1>2. Aim' = Aim /\ Room' = Room
  BY DEF Aim, Room
<1>3. /\ Bounded(truth.sleep - slept, Aim, Room)
      /\ w.truth.sleep = truth.sleep
      /\ \/ Stepped(truth.sleep - slept, Room)
         \/ w.todo \in {<<"copy", "copied">>, <<"copied">>} /\ w.truth = truth
  BY <1>1 DEF IInv, BootInv
<1>4. Bounded(truth.sleep - slept, Aim, Room)'
  BY <1>2, <1>3 DEF Bounded, Calm, Stepped, Falling
<1>5. CASE Stepped(truth.sleep - slept, Room)
  <2>1. Stepped(truth.sleep - slept, Room)'
    BY <1>2, <1>5 DEF Stepped
  <2> QED
    BY <1>3, <1>4, <2>1 DEF BootInv
<1>6. CASE w.todo \in {<<"copy", "copied">>, <<"copied">>} /\ w.truth = truth
  BY <1>3, <1>4, <1>6 DEF BootInv
<1> QED
  BY <1>3, <1>5, <1>6

LEMMA WriteFrame ==
  ASSUME IInv, NEW s \in {"offset", "set", "add", "sub", "slept", "tai"},
         NEW new \in Keeper, Write(s, new),
         new.clock = tk.clock, new.last = tk.last, Phase'
  PROVE  IInv'
<1>1. /\ ~asleep /\ w.todo \in Todos /\ w.todo # <<>> /\ Head(w.todo) = s
      /\ UNCHANGED <<age, slept, asleep, rtc, task, used>>
  BY StepFacts DEF Write
<1>2. /\ tk' = new /\ w' = [w EXCEPT !.todo = Tail(@)]
      /\ UNCHANGED <<shadow, last, odd, r, missed, truth>>
  BY DEF Write
<1>3. w.todo \notin {<<"copy", "copied">>, <<"copied">>}
  BY <1>1
<1>4. odd
  BY <1>1, <1>3, PhaseEven, PhaseAt DEF IInv, WriterInv, Phase, Before, Midway
<1>5. /\ w'.todo = Tail(w.todo) /\ w'.arg = w.arg /\ w'.truth = w.truth
      /\ w'.todo \in Todos
  BY <1>1, <1>2, Programs DEF IInv, Typed
<1>6. Typed'
  BY <1>1, <1>2, <1>5 DEF IInv, Typed, TypeOK
<1>7. WriterInv'
  <2>1. Count' = Count
    BY <1>1, <1>2 DEF Count, Cycles, Running
  <2> QED
    BY <1>1, <1>2, <2>1 DEF IInv, WriterInv
<1>8. ReaderInv' /\ TaskInv'
  BY <1>1, <1>2, <1>4, OpenFrame
<1>9. BootInv'
  BY <1>1, <1>2, <1>3, <1>5, OpenBoot
<1> QED
  BY <1>6, <1>7, <1>8, <1>9 DEF IInv

----------------------------------------------------------------------------
(* One assignment after another.                                           *)

LEMMA TypeFacts ==
  ASSUME Typed
  PROVE  /\ tk \in Keeper /\ shadow \in Keeper
         /\ truth.wall \in Int /\ truth.tai \in Int /\ truth.sleep \in Nat
         /\ w.truth.wall \in Int /\ w.truth.tai \in Int /\ w.truth.sleep \in Nat
         /\ w.arg \in Int /\ SEC \in Nat /\ SEC > 0
         /\ Xtime(tk) \in Nat /\ Xtime(shadow) \in Nat
         /\ tk.clock \in Source /\ tk.last \in Nat /\ tk.wtm \in Int /\ tk.offsReal \in Int
         /\ tk.tai \in Int /\ tk.offsTai \in Int /\ tk.sleep \in Int /\ tk.offsBoot \in Int
         /\ Running \in Nat /\ Cycles(tk.clock) \in Nat /\ last[tk.clock] \in Nat
         /\ Count \in Int
         /\ age \in Nat /\ slept \in Nat
<1>1. tk \in Keeper /\ shadow \in Keeper
  BY DEF Typed, TypeOK
<1>2. /\ truth.wall \in Int /\ truth.tai \in Int /\ truth.sleep \in Nat
      /\ w.truth.wall \in Int /\ w.truth.tai \in Int /\ w.truth.sleep \in Nat
      /\ w.arg \in Int /\ age \in Nat /\ slept \in Nat
  BY DEF Typed, TypeOK
<1>3. /\ tk.clock \in Source /\ tk.last \in Nat /\ tk.wtm \in Int /\ tk.offsReal \in Int
      /\ tk.tai \in Int /\ tk.offsTai \in Int /\ tk.sleep \in Int /\ tk.offsBoot \in Int
  BY <1>1 DEF Keeper
<1>4. Running \in Nat /\ Cycles(tk.clock) \in Nat /\ last[tk.clock] \in Nat
  BY <1>3, CyclesType DEF Typed, TypeOK
<1>5. Xtime(tk) \in Nat /\ Xtime(shadow) \in Nat
  BY <1>1, XtimeType
<1> QED
  BY <1>1, <1>2, <1>3, <1>4, <1>5, UnitAssumption DEF Count

\* Time and the shadow do not move while an assignment is made.
LEMMA StillTime ==
  ASSUME UNCHANGED <<age, slept>>
  PROVE  Running' = Running /\ \A s \in Source : Cycles(s)' = Cycles(s)
BY DEF Running, Cycles

LEMMA OffsetStep ==
  ASSUME IInv, Offset
  PROVE  IInv'
<1> DEFINE v == tk.wtm - (w.arg - Xtime(tk))
           new == SetWallToMono(tk, v)
<1>1. Write("offset", new)
  BY DEF Offset
<1>2. w.todo = <<"offset", "set", "end">> /\ Before /\ ToArg
  BY <1>1, StepFacts, Programs, PhaseAt DEF Write, IInv, WriterInv
<1>3. v \in Int
  BY TypeFacts DEF IInv
<1> HIDE DEF v
<1>4. /\ new \in Keeper /\ new.sec = tk.sec /\ new.nsec = tk.nsec
      /\ new.clock = tk.clock /\ new.last = tk.last /\ new.wtm = v
      /\ new.offsReal = -v /\ new.tai = tk.tai /\ new.offsTai = -v + tk.tai * SEC
      /\ new.sleep = tk.sleep /\ new.offsBoot = tk.offsBoot
  BY <1>3, TypeFacts, SetWallToMonoFields DEF IInv
<1> HIDE DEF new
<1>5. /\ tk' = new /\ w'.todo = <<"set", "end">> /\ w'.arg = w.arg /\ w'.truth = w.truth
      /\ odd' = odd /\ last' = last /\ truth' = truth /\ asleep' = asleep
      /\ UNCHANGED <<age, slept>>
  BY <1>1, <1>2 DEF Write, Step, IInv, Typed
<1>6. Xtime(new) = Xtime(tk)
  BY <1>4 DEF Xtime
<1>7. v = -w.truth.wall
  BY <1>2, TypeFacts DEF v, ToArg, Before, Consistent, IInv, Typed, TypeOK
<1>8. Consistent(new, w.truth)
  BY <1>2, <1>4, <1>7, TypeFacts DEF Before, ToArg, Consistent, IInv, Typed, TypeOK
<1>9. Phase'
  <2>1. Count' = Count /\ Running' = Running
    BY <1>4, <1>5, StillTime, TypeFacts DEF Count, IInv
  <2>2. Consistent(tk, w.truth)'
    BY <1>5, <1>8 DEF Consistent
  <2>3. OnTime(truth.wall)'
    BY <1>2, <1>5, <1>6, <2>1 DEF OnTime, Before
  <2>4. ToArg'
    BY <1>2, <1>5, <1>6 DEF ToArg
  <2>5. odd'
    BY <1>2, <1>5 DEF Before
  <2> QED
    BY <1>5, <2>2, <2>3, <2>4, <2>5 DEF Phase
<1> QED
  BY <1>1, <1>4, <1>9, WriteFrame

LEMMA SetStep ==
  ASSUME IInv, Set
  PROVE  IInv'
<1> DEFINE new == SetXtime(tk, w.arg)
<1>1. Write("set", new)
  BY DEF Set
<1>2. /\ w.todo = <<"set", "end">>
      /\ odd /\ Consistent(tk, w.truth) /\ OnTime(truth.wall) /\ ToArg
  BY <1>1, StepFacts, Programs, PhaseAt DEF Write, IInv, WriterInv
<1>3. w.arg \in Nat
  BY <1>2, TypeFacts DEF IInv, ToArg
<1>4. /\ new \in Keeper /\ Xtime(new) = w.arg
      /\ new.clock = tk.clock /\ new.last = tk.last /\ new.wtm = tk.wtm
      /\ new.offsReal = tk.offsReal /\ new.tai = tk.tai /\ new.offsTai = tk.offsTai
      /\ new.sleep = tk.sleep /\ new.offsBoot = tk.offsBoot
  BY <1>3, TypeFacts, SetXtimeFields DEF IInv
<1> HIDE DEF new
<1>5. /\ tk' = new /\ w'.todo = <<"end">> /\ w'.truth = w.truth
      /\ odd' = odd /\ last' = last /\ asleep' = asleep
      /\ UNCHANGED <<age, slept>>
  BY <1>1, <1>2 DEF Write, Step, IInv, Typed
<1>6. Phase'
  <2>1. Count' = Count /\ Running' = Running
    BY <1>4, <1>5, StillTime, TypeFacts DEF Count, IInv
  <2>2. Consistent(tk, w.truth)'
    BY <1>2, <1>4, <1>5 DEF Consistent
  <2>3. w.truth.wall = w.arg - Xtime(tk) + truth.wall
    BY <1>2, TypeFacts DEF ToArg, IInv, Typed, TypeOK
  <2>4. ~asleep
    BY <1>1, StepFacts DEF Write
  <2>5. OnTime(w.truth.wall)'
    BY <1>2, <1>4, <1>5, <2>1, <2>3, <2>4, TypeFacts DEF OnTime, IInv
  <2> QED
    BY <1>2, <1>5, <2>2, <2>5 DEF Phase
<1> QED
  BY <1>1, <1>4, <1>6, WriteFrame

LEMMA AddStep ==
  ASSUME IInv, Add
  PROVE  IInv'
<1> DEFINE v == Xtime(tk) + w.arg
           new == SetXtime(tk, v)
<1>1. Write("add", new)
  BY DEF Add
<1>2. /\ w.todo \in {<<"add", "sub", "end">>, <<"add", "sub", "slept", "end">>}
      /\ Before
      /\ w.todo = <<"add", "sub", "end">> => ByArg /\ v >= 0
      /\ w.todo = <<"add", "sub", "slept", "end">> => BySleep
  BY <1>1, StepFacts, Programs, PhaseAt DEF Write, IInv, WriterInv
<1>3. v \in Nat
  BY <1>2, TypeFacts DEF IInv, BySleep
<1> HIDE DEF v
<1>4. /\ new \in Keeper /\ Xtime(new) = v
      /\ new.clock = tk.clock /\ new.last = tk.last /\ new.wtm = tk.wtm
      /\ new.offsReal = tk.offsReal /\ new.tai = tk.tai /\ new.offsTai = tk.offsTai
      /\ new.sleep = tk.sleep /\ new.offsBoot = tk.offsBoot
  BY <1>3, TypeFacts, SetXtimeFields DEF IInv
<1> HIDE DEF new
<1>5. /\ tk' = new /\ w'.todo = Tail(w.todo) /\ w'.arg = w.arg /\ w'.truth = w.truth
      /\ odd' = odd /\ last' = last /\ truth' = truth /\ asleep' = asleep
      /\ UNCHANGED <<age, slept>>
  BY <1>1, <1>2 DEF Write, Step, IInv, Typed
<1>6. Phase'
  <2>1. Count' = Count /\ Running' = Running
    BY <1>4, <1>5, StillTime, TypeFacts DEF Count, IInv
  <2>2. Consistent(tk, truth)'
    BY <1>2, <1>4, <1>5 DEF Consistent, Before
  <2>3. w.truth.wall = truth.wall + w.arg
    BY <1>2, TypeFacts DEF ByArg, BySleep, IInv, Typed, TypeOK
  <2>4. ~asleep
    BY <1>1, StepFacts DEF Write
  <2>5. OnTime(w.truth.wall)'
    BY <1>2, <1>4, <1>5, <2>1, <2>3, <2>4, TypeFacts DEF OnTime, IInv, Before, v
  <2>6. odd'
    BY <1>2, <1>5 DEF Before
  <2>7. Midway'
    BY <2>2, <2>5, <2>6 DEF Midway
  <2>8. CASE w.todo = <<"add", "sub", "end">>
    <3>1. w'.todo = <<"sub", "end">> /\ ByArg'
      BY <1>2, <1>5, <2>8 DEF ByArg
    <3> QED
      BY <2>7, <3>1 DEF Phase
  <2>9. CASE w.todo = <<"add", "sub", "slept", "end">>
    <3>1. w'.todo = <<"sub", "slept", "end">> /\ BySleep'
      BY <1>2, <1>5, <2>9 DEF BySleep
    <3> QED
      BY <2>7, <3>1 DEF Phase
  <2> QED
    BY <1>2, <2>8, <2>9
<1> QED
  BY <1>1, <1>4, <1>6, WriteFrame

LEMMA SubStep ==
  ASSUME IInv, Sub
  PROVE  IInv'
<1> DEFINE v == tk.wtm - w.arg
           new == SetWallToMono(tk, v)
<1>1. Write("sub", new)
  BY DEF Sub
<1>2. /\ w.todo \in {<<"sub", "end">>, <<"sub", "slept", "end">>}
      /\ Midway
      /\ w.todo = <<"sub", "end">> => ByArg
      /\ w.todo = <<"sub", "slept", "end">> => BySleep
  BY <1>1, StepFacts, Programs, PhaseAt DEF Write, IInv, WriterInv
<1>3. v \in Int
  BY TypeFacts DEF IInv
<1> HIDE DEF v
<1>4. /\ new \in Keeper /\ new.sec = tk.sec /\ new.nsec = tk.nsec
      /\ new.clock = tk.clock /\ new.last = tk.last /\ new.wtm = v
      /\ new.offsReal = -v /\ new.tai = tk.tai /\ new.offsTai = -v + tk.tai * SEC
      /\ new.sleep = tk.sleep /\ new.offsBoot = tk.offsBoot
  BY <1>3, TypeFacts, SetWallToMonoFields DEF IInv
<1> HIDE DEF new
<1>5. /\ tk' = new /\ w'.todo = Tail(w.todo) /\ w'.arg = w.arg /\ w'.truth = w.truth
      /\ odd' = odd /\ last' = last /\ truth' = truth /\ asleep' = asleep
      /\ UNCHANGED <<age, slept>>
  BY <1>1, <1>2 DEF Write, Step, IInv, Typed
<1>6. Xtime(new) = Xtime(tk)
  BY <1>4 DEF Xtime
<1>7. v = -w.truth.wall /\ -v = w.truth.wall
  <2>1. w.truth.wall = truth.wall + w.arg
    BY <1>2 DEF ByArg, BySleep, IInv, Typed, TypeOK
  <2>2. tk.wtm = -truth.wall
    BY <1>2 DEF Midway, Consistent
  <2> QED
    BY <2>1, <2>2, TypeFacts DEF v, IInv
<1>8. Phase'
  <2>1. Count' = Count /\ Running' = Running
    BY <1>4, <1>5, StillTime, TypeFacts DEF Count, IInv
  <2>2. OnTime(w.truth.wall)'
    BY <1>2, <1>5, <1>6, <2>1 DEF OnTime, Midway
  <2>3. odd'
    BY <1>2, <1>5 DEF Midway
  <2>4. CASE w.todo = <<"sub", "end">>
    <3>1. w'.todo = <<"end">>
      BY <1>5, <2>4
    <3>2. w.truth.tai = truth.tai /\ w.truth.sleep = truth.sleep
      BY <1>2, <2>4 DEF ByArg, IInv, Typed, TypeOK
    <3>3. Consistent(tk, w.truth)'
      BY <1>2, <1>4, <1>5, <1>7, <3>2 DEF Consistent, Midway
    <3> QED
      BY <2>2, <2>3, <3>1, <3>3 DEF Phase
  <2>5. CASE w.todo = <<"sub", "slept", "end">>
    <3>1. w'.todo = <<"slept", "end">> /\ BySleep'
      BY <1>2, <1>5, <2>5 DEF BySleep
    <3> DEFINE mid == [truth EXCEPT !.wall = w.truth.wall]
    <3>2. mid.wall = w.truth.wall /\ mid.tai = truth.tai /\ mid.sleep = truth.sleep
      BY DEF IInv, Typed, TypeOK
    <3> HIDE DEF mid
    <3>3. Consistent(new, mid)
      BY <1>2, <1>4, <1>7, <3>2 DEF Consistent, Midway
    <3>4. Consistent(tk, [truth EXCEPT !.wall = w.truth.wall])'
      BY <1>5, <3>3 DEF mid, Consistent
    <3> QED
      BY <2>2, <2>3, <3>1, <3>4 DEF Phase
  <2> QED
    BY <1>2, <2>4, <2>5
<1> QED
  BY <1>1, <1>4, <1>8, WriteFrame

LEMMA SleptStep ==
  ASSUME IInv, Slept
  PROVE  IInv'
<1> DEFINE v == tk.sleep + w.arg
           new == SetSleepTime(tk, v)
<1>1. Write("slept", new)
  BY DEF Slept
<1>2. /\ w.todo = <<"slept", "end">> /\ odd
      /\ Consistent(tk, [truth EXCEPT !.wall = w.truth.wall])
      /\ OnTime(w.truth.wall) /\ BySleep
  BY <1>1, StepFacts, Programs, PhaseAt DEF Write, IInv, WriterInv
<1>3. v \in Int
  BY TypeFacts DEF IInv
<1> HIDE DEF v
<1>4. /\ new \in Keeper /\ new.sec = tk.sec /\ new.nsec = tk.nsec
      /\ new.clock = tk.clock /\ new.last = tk.last /\ new.wtm = tk.wtm
      /\ new.offsReal = tk.offsReal /\ new.tai = tk.tai /\ new.offsTai = tk.offsTai
      /\ new.sleep = v /\ new.offsBoot = v
  BY <1>3, TypeFacts, SetSleepTimeFields DEF IInv
<1> HIDE DEF new
<1>5. /\ tk' = new /\ w'.todo = <<"end">> /\ w'.truth = w.truth
      /\ odd' = odd /\ last' = last /\ asleep' = asleep
      /\ UNCHANGED <<age, slept>>
  BY <1>1, <1>2 DEF Write, Step, IInv, Typed
<1>6. Xtime(new) = Xtime(tk)
  BY <1>4 DEF Xtime
<1> DEFINE mid == [truth EXCEPT !.wall = w.truth.wall]
<1>7. mid.wall = w.truth.wall /\ mid.tai = truth.tai /\ mid.sleep = truth.sleep
  BY DEF IInv, Typed, TypeOK
<1>8. w.truth.tai = truth.tai /\ w.truth.sleep = truth.sleep + w.arg
  BY <1>2 DEF BySleep, IInv, Typed, TypeOK
<1>9. Consistent(tk, mid)
  BY <1>2
<1> HIDE DEF mid
<1>10. Consistent(new, w.truth)
  BY <1>4, <1>7, <1>8, <1>9 DEF Consistent, v
<1>11. Phase'
  <2>1. Count' = Count /\ Running' = Running
    BY <1>4, <1>5, StillTime, TypeFacts DEF Count, IInv
  <2>2. OnTime(w.truth.wall)'
    BY <1>2, <1>5, <1>6, <2>1 DEF OnTime
  <2>3. Consistent(tk, w.truth)'
    BY <1>5, <1>10 DEF Consistent
  <2> QED
    BY <1>2, <1>5, <2>2, <2>3 DEF Phase
<1> QED
  BY <1>1, <1>4, <1>11, WriteFrame

LEMMA TaiStep ==
  ASSUME IInv, Tai
  PROVE  IInv'
<1> DEFINE new == SetTai(tk, w.arg)
<1>1. Write("tai", new)
  BY DEF Tai
<1>2. w.todo = <<"tai", "end">> /\ Before /\ w.truth = [truth EXCEPT !.tai = w.arg]
  BY <1>1, StepFacts, Programs, PhaseAt, SMTT(30) DEF Write, IInv, WriterInv
<1>3. /\ new \in Keeper /\ new.sec = tk.sec /\ new.nsec = tk.nsec
      /\ new.clock = tk.clock /\ new.last = tk.last /\ new.wtm = tk.wtm
      /\ new.offsReal = tk.offsReal /\ new.tai = w.arg
      /\ new.offsTai = tk.offsReal + w.arg * SEC
      /\ new.sleep = tk.sleep /\ new.offsBoot = tk.offsBoot
  BY TypeFacts, SetTaiFields, ZenonT(60) DEF IInv
<1> HIDE DEF new
<1>4. /\ tk' = new /\ w'.todo = <<"end">> /\ w'.truth = w.truth
      /\ odd' = odd /\ last' = last /\ asleep' = asleep
      /\ UNCHANGED <<age, slept>>
  BY <1>1, <1>2 DEF Write, Step, IInv, Typed
<1>5. Xtime(new) = Xtime(tk)
  BY <1>3 DEF Xtime
<1>6. /\ w.truth.wall = truth.wall /\ w.truth.tai = w.arg /\ w.truth.sleep = truth.sleep
  BY <1>2 DEF IInv, Typed, TypeOK
<1>7. Consistent(new, w.truth)
  BY <1>2, <1>3, <1>6 DEF Consistent, Before
<1>8. Phase'
  <2>1. Count' = Count /\ Running' = Running
    BY <1>3, <1>4, StillTime, TypeFacts DEF Count, IInv
  <2>2. OnTime(w.truth.wall)'
    BY <1>2, <1>4, <1>5, <1>6, <2>1 DEF OnTime, Before
  <2>3. Consistent(tk, w.truth)'
    BY <1>4, <1>7 DEF Consistent
  <2>4. odd'
    BY <1>2, <1>4 DEF Before
  <2> QED
    BY <1>4, <2>2, <2>3, <2>4 DEF Phase
<1> QED
  BY <1>1, <1>3, <1>8, WriteFrame

\* timekeeping_forward_now.
LEMMA ForwardStep ==
  ASSUME IInv, Forward
  PROVE  IInv'
<1> DEFINE new == ForwardNow(tk)
           c == Cycles(tk.clock)
<1>1. Step("forward") /\ tk' = new /\ UNCHANGED <<shadow, odd, r, missed, truth>>
  BY DEF Forward
<1>2. /\ w.todo \in {<<"forward", "offset", "set", "end">>,
                     <<"forward", "check", "add", "sub", "end">>,
                     <<"forward", "add", "sub", "slept", "end">>}
      /\ Before
      /\ w.todo = <<"forward", "offset", "set", "end">> => w.truth = truth /\ w.arg >= 0
      /\ w.todo = <<"forward", "check", "add", "sub", "end">> => ByArg
      /\ w.todo = <<"forward", "add", "sub", "slept", "end">> => BySleep
      /\ ~asleep /\ UNCHANGED <<age, slept, asleep, rtc, task, used>>
  BY <1>1, StepFacts, Programs, PhaseAt DEF IInv, WriterInv
<1>3. Count >= 0 /\ Count \in Int /\ c \in Nat
  BY TypeFacts DEF IInv, WriterInv
<1>4. /\ new \in Keeper /\ Xtime(new) = Xtime(tk) + Count
      /\ new.clock = tk.clock /\ new.last = c /\ new.wtm = tk.wtm
      /\ new.offsReal = tk.offsReal /\ new.tai = tk.tai /\ new.offsTai = tk.offsTai
      /\ new.sleep = tk.sleep /\ new.offsBoot = tk.offsBoot
  BY <1>3, ForwardNowFields DEF IInv
<1>5. /\ last' \in [Source -> Nat] /\ last'[tk.clock] = c
  <2>1. last' = [last EXCEPT ![tk.clock] = c]
    BY DEF Forward
  <2>2. last \in [Source -> Nat] /\ tk.clock \in Source
    BY TypeFacts DEF IInv, Typed, TypeOK
  <2> QED
    BY <1>3, <2>1, <2>2
<1> HIDE DEF new, c
<1>6. Count' = 0 /\ Running' = Running /\ c' = c
  <2>1. c' = c /\ Running' = Running
    BY <1>1, <1>2, <1>4, StillTime, TypeFacts DEF c, IInv
  <2> QED
    BY <1>1, <1>3, <1>4, <1>5, <2>1 DEF Count, c
<1>7. /\ w'.todo = Tail(w.todo) /\ w'.arg = w.arg
      /\ w'.truth = IF w.todo = <<"forward", "offset", "set", "end">>
                    THEN [w.truth EXCEPT !.wall = w.arg - Running] ELSE w.truth
  <2> DEFINE set == "set" \in Range(w.todo)
             wall == IF set THEN w.arg - Running ELSE w.truth.wall
  <2>1. w' = [w EXCEPT !.todo = Tail(@), !.truth.wall = wall]
    BY DEF Forward
  <2>2. set <=> w.todo = <<"forward", "offset", "set", "end">>
    <3>1. CASE w.todo = <<"forward", "offset", "set", "end">>
      <4>1. 3 \in DOMAIN w.todo /\ w.todo[3] = "set"
        BY <3>1
      <4> QED
        BY <3>1, <4>1 DEF Range
    <3>2. CASE w.todo = <<"forward", "check", "add", "sub", "end">>
      <4>1. \A i \in DOMAIN w.todo : w.todo[i] # "set"
        BY <3>2
      <4> QED
        BY <3>2, <4>1 DEF Range
    <3>3. CASE w.todo = <<"forward", "add", "sub", "slept", "end">>
      <4>1. \A i \in DOMAIN w.todo : w.todo[i] # "set"
        BY <3>3
      <4> QED
        BY <3>3, <4>1 DEF Range
    <3> QED
      BY <1>2, <3>1, <3>2, <3>3
  <2> HIDE DEF set
  <2>3. w'.todo = Tail(w.todo) /\ w'.arg = w.arg /\ w'.truth = [w.truth EXCEPT !.wall = wall]
    BY <2>1 DEF IInv, Typed
  <2>4. [w.truth EXCEPT !.wall = w.truth.wall] = w.truth
    BY DEF IInv, Typed
  <2> QED
    BY <2>2, <2>3, <2>4
<1>8. /\ w'.truth \in [wall : Int, tai : Int, sleep : Nat]
      /\ w'.truth.sleep = w.truth.sleep
  <2> DEFINE v == w.arg - Running
  <2>1. v \in Int
    BY TypeFacts DEF IInv
  <2>2. w'.truth = [w.truth EXCEPT !.wall = v] \/ w'.truth = w.truth
    BY <1>7
  <2> HIDE DEF v
  <2> QED
    BY <2>1, <2>2 DEF IInv, Typed
<1>9. w'.todo \in Todos /\ w' \in [todo : Todos, arg : Int,
                                   truth : [wall : Int, tai : Int, sleep : Nat]]
  <2>1. w'.todo \in Todos
    BY <1>2, <1>7, Programs DEF IInv, Typed
  <2>2. w' = [todo |-> w'.todo, arg |-> w'.arg, truth |-> w'.truth]
    BY DEF Forward, IInv, Typed
  <2> QED
    BY <1>7, <1>8, <2>1, <2>2, TypeFacts DEF IInv
<1>10. Typed'
  BY <1>1, <1>2, <1>4, <1>5, <1>8, <1>9 DEF IInv, Typed, TypeOK
<1>11. odd
  BY <1>2 DEF Before
<1>12. Before'
  <2>1. Consistent(tk, truth)'
    BY <1>1, <1>2, <1>4 DEF Consistent, Before
  <2>2. OnTime(truth.wall)'
    BY <1>1, <1>2, <1>4, <1>6, TypeFacts DEF OnTime, Before, IInv
  <2> QED
    BY <1>1, <1>11, <2>1, <2>2 DEF Before
<1>13. Phase'
  <2>1. CASE w.todo = <<"forward", "offset", "set", "end">>
    <3>1. w'.todo = <<"offset", "set", "end">>
      BY <1>7, <2>1
    <3>2. w'.truth = [truth EXCEPT !.wall = w.arg - Running]
      BY <1>2, <1>7, <2>1
    <3>3. Running = Xtime(new) - truth.wall
      BY <1>2, <1>4, TypeFacts DEF OnTime, Before, IInv
    <3>4. w.arg - Running = w'.arg - Xtime(new) + truth.wall
      BY <1>4, <1>7, <3>3, TypeFacts, XtimeType DEF IInv
    <3>5. ToArg'
      BY <1>1, <1>2, <1>7, <2>1, <3>2, <3>4 DEF ToArg
    <3> QED
      BY <1>12, <3>1, <3>5 DEF Phase
  <2>2. CASE w.todo = <<"forward", "check", "add", "sub", "end">>
    <3>1. w'.todo = <<"check", "add", "sub", "end">> /\ w'.truth = w.truth
      BY <1>7, <2>2
    <3>2. ByArg'
      BY <1>1, <1>2, <1>7, <2>2, <3>1 DEF ByArg
    <3> QED
      BY <1>12, <3>1, <3>2 DEF Phase
  <2>3. CASE w.todo = <<"forward", "add", "sub", "slept", "end">>
    <3>1. w'.todo = <<"add", "sub", "slept", "end">> /\ w'.truth = w.truth
      BY <1>7, <2>3
    <3>2. BySleep'
      BY <1>1, <1>2, <1>7, <2>3, <3>1 DEF BySleep
    <3> QED
      BY <1>12, <3>1, <3>2 DEF Phase
  <2> QED
    BY <1>2, <2>1, <2>2, <2>3
<1>14. WriterInv'
  BY <1>1, <1>2, <1>4, <1>5, <1>6, <1>13 DEF IInv, WriterInv
<1>15. ReaderInv' /\ TaskInv'
  BY <1>1, <1>2, <1>11, OpenFrame
<1>16. BootInv'
  <2>1. w.todo # <<>> /\ w.todo \notin {<<"copy", "copied">>, <<"copied">>}
    <3>1. w.todo # <<>> /\ Head(w.todo) = "forward"
      BY <1>1 DEF Step
    <3> QED
      BY <3>1
  <2>2. UNCHANGED <<age, slept, asleep, rtc, truth, used>> /\ ~asleep
    BY <1>1, <1>2
  <2>3. w'.truth.sleep = w.truth.sleep
    BY <1>8
  <2> QED
    BY <2>1, <2>2, <2>3, OpenBoot
<1> QED
  BY <1>10, <1>14, <1>15, <1>16 DEF IInv

\* timekeeping_inject_offset looks whether it may.
LEMMA CheckStep ==
  ASSUME IInv, Check
  PROVE  IInv'
<1>1. Step("check") /\ UNCHANGED <<tk, shadow, last, odd, r, missed, truth>>
  BY DEF Check
<1>2. /\ w.todo = <<"check", "add", "sub", "end">> /\ Before /\ ByArg
      /\ ~asleep /\ UNCHANGED <<age, slept, asleep, rtc, task, used>>
  BY <1>1, StepFacts, Programs, PhaseAt DEF IInv, WriterInv
<1>3. /\ Count' = Count /\ Running' = Running /\ Xtime(tk)' = Xtime(tk)
      /\ Before'
  <2>1. Count' = Count /\ Running' = Running /\ Xtime(tk)' = Xtime(tk)
    BY <1>1, <1>2 DEF Count, Running, Cycles, Xtime
  <2> QED
    BY <1>1, <1>2, <2>1 DEF Before, Consistent, OnTime
<1>4. CASE Xtime(tk) + w.arg >= 0
  <2>1. w' = [w EXCEPT !.todo = Tail(@)]
    BY <1>4 DEF Check
  <2>2. w'.todo = <<"add", "sub", "end">> /\ w'.arg = w.arg /\ w'.truth = w.truth
    BY <1>2, <2>1 DEF IInv, Typed
  <2>3. Phase'
    BY <1>1, <1>2, <1>3, <1>4, <2>2 DEF Phase, ByArg
  <2>4. Typed'
    <3>1. w'.todo \in Todos
      BY <2>2 DEF Todos
    <3> QED
      BY <1>1, <1>2, <2>1, <2>2, <3>1 DEF IInv, Typed, TypeOK
  <2>5. WriterInv'
    BY <1>1, <1>2, <1>3, <2>3 DEF IInv, WriterInv
  <2>6. ReaderInv' /\ TaskInv'
    BY <1>1, <1>2, OpenFrame DEF Before
  <2>7. BootInv'
    BY <1>1, <1>2, <2>2, OpenBoot
  <2> QED
    BY <2>4, <2>5, <2>6, <2>7 DEF IInv
<1>5. CASE ~(Xtime(tk) + w.arg >= 0)
  <2>1. w' = [w EXCEPT !.todo = <<"end">>, !.truth = truth]
    BY <1>5 DEF Check
  <2>2. w'.todo = <<"end">> /\ w'.arg = w.arg /\ w'.truth = truth
    BY <2>1 DEF IInv, Typed
  <2>3. Phase'
    <3>1. Consistent(tk, w.truth)' /\ OnTime(w.truth.wall)' /\ odd'
      BY <1>1, <1>3, <2>2 DEF Before, Consistent, OnTime
    <3> QED
      BY <2>2, <3>1 DEF Phase
  <2>4. Typed'
    <3>1. w'.todo \in Todos
      BY <2>2 DEF Todos
    <3> QED
      BY <1>1, <1>2, <2>1, <2>2, <3>1 DEF IInv, Typed, TypeOK
  <2>5. WriterInv'
    BY <1>1, <1>2, <1>3, <2>3 DEF IInv, WriterInv
  <2>6. ReaderInv' /\ TaskInv'
    BY <1>1, <1>2, OpenFrame DEF Before
  <2>7. truth.sleep = w.truth.sleep
    BY <1>2 DEF ByArg, IInv, Typed, TypeOK
  <2>8. BootInv'
    BY <1>1, <1>2, <2>2, <2>7, OpenBoot
  <2> QED
    BY <2>4, <2>5, <2>6, <2>8 DEF IInv
<1> QED
  BY <1>4, <1>5

----------------------------------------------------------------------------
(* The lock is taken, and given up.                                        *)

LEMMA IdleFacts ==
  ASSUME IInv, w.todo = <<>>
  PROVE  w = Unlocked /\ shadow = tk /\ Settled /\ ~odd
BY PhaseAt DEF IInv, WriterInv, Settled

\* The counters of events.
LEMMA UsedFields ==
  ASSUME NEW u \in [events : Nat, writes : Nat, reads : Nat]
  PROVE  /\ LET v == [u EXCEPT !.events = @ + 1, !.writes = @ + 1]
            IN  /\ v \in [events : Nat, writes : Nat, reads : Nat]
                /\ v.writes = u.writes + 1 /\ v.reads = u.reads
         /\ LET v == [u EXCEPT !.events = @ + 1]
            IN  /\ v \in [events : Nat, writes : Nat, reads : Nat]
                /\ v.writes = u.writes /\ v.reads = u.reads
         /\ LET v == [u EXCEPT !.reads = @ + 1]
            IN  /\ v \in [events : Nat, writes : Nat, reads : Nat]
                /\ v.writes = u.writes /\ v.reads = u.reads + 1
<1> DEFINE ev == u.events + 1
           wr == u.writes + 1
           rd == u.reads + 1
<1>1. ev \in Nat /\ wr \in Nat /\ rd \in Nat
  OBVIOUS
<1> HIDE DEF ev, wr, rd
<1>2. /\ [u EXCEPT !.events = ev, !.writes = wr] \in [events : Nat, writes : Nat, reads : Nat]
      /\ [u EXCEPT !.events = ev, !.writes = wr].writes = wr
      /\ [u EXCEPT !.events = ev, !.writes = wr].reads = u.reads
  BY <1>1
<1>3. /\ [u EXCEPT !.events = ev] \in [events : Nat, writes : Nat, reads : Nat]
      /\ [u EXCEPT !.events = ev].writes = u.writes
      /\ [u EXCEPT !.events = ev].reads = u.reads
  BY <1>1
<1>4. /\ [u EXCEPT !.reads = rd] \in [events : Nat, writes : Nat, reads : Nat]
      /\ [u EXCEPT !.reads = rd].writes = u.writes
      /\ [u EXCEPT !.reads = rd].reads = rd
  BY <1>1
<1> QED
  BY <1>2, <1>3, <1>4 DEF ev, wr, rd

\* With each change of the clock the drift may have three seconds more.
LEMMA SetOnceMore ==
  ASSUME Typed, Bounded(truth.sleep - slept, Aim, Room), used'.writes = used.writes + 1
  PROVE  \A u : /\ Stepped(truth.sleep - slept, Room')
                /\ Bounded(truth.sleep - slept, u, Room')
<1> DEFINE e == truth.sleep - slept
<1>1. \A a, b \in Nat : a * (3 * b) \in Int /\ a * (3 * (b + 1)) = a * (3 * b) + 3 * a
  OBVIOUS
<1>2. Room \in Int /\ Room' = Room + 3 * SEC /\ SEC \in Nat
  BY <1>1, UnitAssumption DEF Room, Typed
<1>3. e \in Int
  BY TypeFacts
<1>4. 1 - SEC - Room <= e /\ e <= Room
  BY DEF Bounded
<1> HIDE DEF e
<1>5. Stepped(e, Room') /\ 1 - SEC - Room' <= e /\ e <= Room'
  BY <1>2, <1>3, <1>4 DEF Stepped
<1> QED
  BY <1>5 DEF Bounded, e

LEMMA LockFrame ==
  ASSUME IInv, NEW program \in Todos, program # <<>>, NEW arg \in Int,
         NEW new \in [wall : Int, tai : Int, sleep : Nat],
         Lock(program, arg, new),
         rtc'.exists = rtc.exists /\ rtc'.old = rtc.old,
         rtc' \in [exists : BOOLEAN, at : Int, old : Int, owed : Int],
         rtc'.exists \in Persistent,
         rtc.exists => new.sleep = truth.sleep
  PROVE  /\ Before' /\ truth' = truth
         /\ w'.todo = program /\ w'.arg = arg /\ w'.truth = new
         /\ Phase' => IInv'
<1>1. /\ ~asleep /\ w.todo = <<>>
      /\ used' = [used EXCEPT !.events = @ + 1, !.writes = @ + 1]
      /\ w' = [todo |-> program, arg |-> arg, truth |-> new]
      /\ odd' = TRUE /\ r' = [r EXCEPT !.retry = (r.pc # "idle")]
      /\ UNCHANGED <<age, slept, asleep, tk, shadow, last, task, missed, truth>>
  BY DEF Lock, Open, procvars
<1>2. Settled
  BY <1>1, IdleFacts
<1>3. Count' = Count /\ Running' = Running /\ Xtime(tk)' = Xtime(tk)
  BY <1>1 DEF Count, Running, Cycles, Xtime
<1>4. Before'
  BY <1>1, <1>2, <1>3 DEF Before, Settled, Consistent, OnTime
<1>5. ASSUME Phase'
      PROVE  IInv'
  <2>1. Typed'
    <3>1. used' \in [events : Nat, writes : Nat, reads : Nat]
      BY <1>1, UsedFields DEF IInv, Typed
    <3>2. r' \in Reader
      BY <1>1 DEF IInv, Typed, Reader
    <3>3. w' \in [todo : Todos, arg : Int, truth : [wall : Int, tai : Int, sleep : Nat]]
      BY <1>1
    <3> QED
      BY <1>1, <3>1, <3>2, <3>3 DEF IInv, Typed, TypeOK
  <2>2. WriterInv'
    BY <1>1, <1>3, <1>5 DEF IInv, WriterInv
  <2>3. ReaderInv'
    BY <1>1 DEF IInv, Typed, ReaderInv, Reader, Frozen
  <2>4. TaskInv'
    BY <1>1, <1>3 DEF IInv, Typed, TaskInv, Frozen
  <2>5. BootInv'
    <3>1. SUFFICES ASSUME rtc'.exists
                   PROVE  BootInv'
      BY DEF BootInv
    <3> DEFINE e == truth.sleep - slept
    <3>2. e' = e /\ Bounded(e, Aim, Room)
      BY <1>1, <3>1 DEF IInv, BootInv
    <3>3. used'.writes = used.writes + 1
      BY <1>1, UsedFields DEF IInv, Typed
    <3>4. Stepped(e', Room') /\ Bounded(e', Aim', Room')
      BY <3>2, <3>3, SetOnceMore DEF IInv
    <3>7. w'.truth.sleep = truth'.sleep
      BY <1>1, <3>1
    <3> QED
      BY <1>1, <3>4, <3>7 DEF BootInv
  <2> QED
    BY <2>1, <2>2, <2>3, <2>4, <2>5 DEF IInv
<1> QED
  BY <1>1, <1>4, <1>5

LEMMA SettimeofdayStep ==
  ASSUME IInv, Settimeofday
  PROVE  IInv'
<1> DEFINE program == <<"forward", "offset", "set", "end">>
<1>1. PICK j \in Steps : /\ Running + truth.wall + j >= 0
                         /\ Lock(program, Running + truth.wall + j, truth)
  BY DEF Settimeofday
<1> DEFINE tv == Running + truth.wall + j
<1>2. tv \in Int /\ truth \in [wall : Int, tai : Int, sleep : Nat]
  BY TypeFacts, ChoiceAssumption DEF IInv, Typed, TypeOK
<1>3. program \in Todos /\ program # <<>>
  BY DEF Todos
<1>4. rtc' = rtc
  BY DEF Settimeofday
<1>5. /\ rtc.exists \in Persistent
      /\ rtc \in [exists : BOOLEAN, at : Int, old : Int, owed : Int]
  BY DEF IInv, Typed, TypeOK
<1>6. tv >= 0 /\ Lock(program, tv, truth)
  BY <1>1
<1> HIDE DEF tv, program
<1>7. /\ Before' /\ truth' = truth
      /\ w'.todo = program /\ w'.arg = tv /\ w'.truth = truth
      /\ Phase' => IInv'
  BY <1>2, <1>3, <1>4, <1>5, <1>6, LockFrame
<1>8. Phase'
  BY <1>6, <1>7 DEF Phase, program
<1> QED
  BY <1>7, <1>8

LEMMA InjectOffsetStep ==
  ASSUME IInv, InjectOffset
  PROVE  IInv'
<1> DEFINE program == <<"forward", "check", "add", "sub", "end">>
<1>1. PICK j \in Steps : Lock(program, j, [truth EXCEPT !.wall = @ + j])
  BY DEF InjectOffset
<1> DEFINE new == [truth EXCEPT !.wall = @ + j]
<1>2. /\ j \in Int /\ new \in [wall : Int, tai : Int, sleep : Nat]
      /\ new.sleep = truth.sleep
  BY ChoiceAssumption DEF IInv, Typed, TypeOK
<1>3. program \in Todos /\ program # <<>>
  BY DEF Todos
<1>4. rtc' = rtc
  BY DEF InjectOffset
<1>5. /\ rtc.exists \in Persistent
      /\ rtc \in [exists : BOOLEAN, at : Int, old : Int, owed : Int]
  BY DEF IInv, Typed, TypeOK
<1>6. Lock(program, j, new)
  BY <1>1
<1> HIDE DEF new, program
<1>7. /\ Before' /\ truth' = truth
      /\ w'.todo = program /\ w'.arg = j /\ w'.truth = new
      /\ Phase' => IInv'
  BY <1>2, <1>3, <1>4, <1>5, <1>6, LockFrame
<1>8. ByArg'
  BY <1>7 DEF ByArg, new
<1>9. Phase'
  BY <1>7, <1>8 DEF Phase, program
<1> QED
  BY <1>7, <1>9

LEMMA RtcResumeStep ==
  ASSUME IInv, RtcResume
  PROVE  IInv'
<1> DEFINE program == <<"forward", "add", "sub", "slept", "end">>
           new == [truth EXCEPT !.wall = @ + rtc.owed, !.sleep = @ + rtc.owed]
<1>1. /\ ~rtc.exists /\ rtc.owed > 0 /\ rtc' = [rtc EXCEPT !.owed = 0]
      /\ Lock(program, rtc.owed, new)
  BY DEF RtcResume
<1>2. /\ rtc.exists \in Persistent /\ rtc.owed \in Int
      /\ rtc \in [exists : BOOLEAN, at : Int, old : Int, owed : Int]
  BY DEF IInv, Typed, TypeOK
<1>3. new \in [wall : Int, tai : Int, sleep : Nat]
  <2> DEFINE wall == truth.wall + rtc.owed
             sleep == truth.sleep + rtc.owed
  <2>1. wall \in Int /\ sleep \in Nat
    BY <1>1, <1>2, TypeFacts DEF IInv
  <2>2. new = [truth EXCEPT !.wall = wall, !.sleep = sleep]
    OBVIOUS
  <2> HIDE DEF wall, sleep, new
  <2> QED
    BY <2>1, <2>2 DEF IInv, Typed, TypeOK
<1>4. program \in Todos /\ program # <<>>
  BY DEF Todos
<1>5. /\ rtc'.exists = rtc.exists /\ rtc'.old = rtc.old
      /\ rtc' \in [exists : BOOLEAN, at : Int, old : Int, owed : Int]
      /\ rtc'.exists \in Persistent
  BY <1>1, <1>2
<1> HIDE DEF new, program
<1>6. /\ Before' /\ truth' = truth
      /\ w'.todo = program /\ w'.arg = rtc.owed /\ w'.truth = new
      /\ Phase' => IInv'
  BY <1>1, <1>2, <1>3, <1>4, <1>5, LockFrame
<1>7. BySleep'
  BY <1>1, <1>2, <1>6 DEF BySleep, new
<1>8. Phase'
  BY <1>6, <1>7 DEF Phase, program
<1> QED
  BY <1>6, <1>8

LEMMA SetTaiOffsetStep ==
  ASSUME IInv, SetTaiOffset
  PROVE  IInv'
<1> DEFINE program == <<"tai", "end">>
<1>1. PICK n \in Tais : Lock(program, n, [truth EXCEPT !.tai = n])
  BY DEF SetTaiOffset
<1> DEFINE new == [truth EXCEPT !.tai = n]
<1>2. /\ n \in Int /\ new \in [wall : Int, tai : Int, sleep : Nat]
      /\ new.sleep = truth.sleep
  BY ChoiceAssumption DEF IInv, Typed, TypeOK
<1>3. program \in Todos /\ program # <<>>
  BY DEF Todos
<1>4. rtc' = rtc
  BY DEF SetTaiOffset
<1>5. /\ rtc.exists \in Persistent
      /\ rtc \in [exists : BOOLEAN, at : Int, old : Int, owed : Int]
  BY DEF IInv, Typed, TypeOK
<1>6. Lock(program, n, new)
  BY <1>1
<1> HIDE DEF new, program
<1>7. /\ Before' /\ truth' = truth
      /\ w'.todo = program /\ w'.arg = n /\ w'.truth = new
      /\ Phase' => IInv'
  BY <1>2, <1>3, <1>4, <1>5, <1>6, LockFrame
<1>8. Phase'
  BY <1>7 DEF Phase, program, new
<1> QED
  BY <1>7, <1>8

\* What a section that closes leaves: truth' = w.truth, and missed with it.
LEMMA CloseFrame ==
  ASSUME IInv, NEW s, Step(s), Close, odd, r' = r
  PROVE  /\ ReaderInv' /\ TaskInv' /\ BootInv' /\ w'.todo = <<>> /\ w' = Unlocked
         /\ truth' = w.truth /\ ~odd' /\ missed' \in Int
<1>1. /\ ~asleep /\ w.todo # <<>>
      /\ UNCHANGED <<age, slept, asleep, rtc, task, used>>
  BY StepFacts
<1>2. /\ odd' = FALSE /\ truth' = w.truth /\ w' = Unlocked /\ w'.todo = <<>>
      /\ missed' = IF Frozen THEN missed + (w.truth.wall - truth.wall) ELSE missed
  BY DEF Close, Missing, Unlocked
<1>3. missed \in Int /\ w.truth.wall \in Int /\ truth.wall \in Int /\ Running \in Int
  BY TypeFacts DEF IInv, Typed, TypeOK
<1>4. ReaderInv'
  <2>1. r.pc \in {"ns", "rest"} => r.retry
    BY DEF IInv, ReaderInv
  <2> QED
    BY <1>1, <2>1 DEF IInv, ReaderInv, Frozen
<1>5. TaskInv'
  <2>1. task.fpn \in Int /\ task.fsn \in Int
    BY DEF IInv, Typed, TypeOK, Task
  <2>2. Running' = Running /\ Frozen' = Frozen
    BY <1>1 DEF Running, Frozen
  <2>3. missed = task.fpn + (IF Frozen THEN Running + truth.wall - task.fsn ELSE 0)
    BY DEF IInv, TaskInv
  <2>4. missed' = task.fpn + (IF Frozen THEN Running + w.truth.wall - task.fsn ELSE 0)
    BY <1>2, <1>3, <2>1, <2>3, SMTT(60)
  <2> QED
    BY <1>1, <1>2, <2>2, <2>4 DEF IInv, TaskInv
<1>6. BootInv'
  <2>1. SUFFICES ASSUME rtc.exists
                 PROVE  BootInv'
    BY <1>1 DEF BootInv
  <2>2. /\ w.truth.sleep = truth.sleep
        /\ \/ Stepped(truth.sleep - slept, Room)
           \/ w.truth = truth
        /\ Bounded(truth.sleep - slept, Aim, Room)
    BY <1>1, <2>1 DEF IInv, BootInv
  <2>3. Room' = Room /\ (truth.sleep - slept)' = truth.sleep - slept
    BY <1>1, <1>2, <2>2 DEF Room
  <2>4. Bounded((truth.sleep - slept)', Aim', Room')
    <3>1. CASE Stepped(truth.sleep - slept, Room)
      BY <2>2, <2>3, <3>1 DEF Bounded
    <3>2. CASE w.truth = truth
      <4>1. Aim' = Aim
        BY <1>1, <1>2, <3>2 DEF Aim
      <4> QED
        BY <2>2, <2>3, <4>1
    <3> QED
      BY <2>2, <3>1, <3>2
  <2> QED
    BY <1>1, <1>2, <2>4 DEF BootInv
<1> QED
  BY <1>2, <1>3, <1>4, <1>5, <1>6

\* timekeeping_update(TK_MIRROR) and the end of the section.
LEMMA EndStep ==
  ASSUME IInv, End
  PROVE  IInv'
<1>1. Step("end") /\ Close /\ shadow' = tk /\ UNCHANGED <<tk, last, r>>
  BY DEF End
<1>2. /\ w.todo = <<"end">> /\ odd /\ Consistent(tk, w.truth) /\ OnTime(w.truth.wall)
      /\ ~asleep /\ UNCHANGED <<age, slept, asleep, rtc, task, used>>
  BY <1>1, StepFacts, Programs, PhaseAt DEF IInv, WriterInv
<1>3. /\ ReaderInv' /\ TaskInv' /\ BootInv' /\ w'.todo = <<>> /\ w' = Unlocked
      /\ truth' = w.truth /\ ~odd' /\ missed' \in Int
  BY <1>1, <1>2, CloseFrame
<1>4. odd' = FALSE
  BY <1>1 DEF Close
<1>5. Count' = Count /\ Running' = Running /\ Xtime(tk)' = Xtime(tk)
  BY <1>1, <1>2 DEF Count, Running, Cycles, Xtime
<1>6. Phase'
  <2>1. Consistent(tk, truth)' /\ OnTime(truth.wall)'
    BY <1>1, <1>2, <1>3, <1>5 DEF Consistent, OnTime
  <2> QED
    BY <1>1, <1>3, <2>1 DEF Phase, Settled
<1>7. WriterInv'
  BY <1>1, <1>2, <1>3, <1>5, <1>6 DEF IInv, WriterInv
<1>8. Typed'
  <2>1. w' \in [todo : Todos, arg : Int, truth : [wall : Int, tai : Int, sleep : Nat]]
    BY <1>3 DEF Unlocked, Todos
  <2> QED
    BY <1>1, <1>2, <1>3, <1>4, <2>1 DEF IInv, Typed, TypeOK
<1> QED
  BY <1>3, <1>7, <1>8 DEF IInv

LEMMA AccumulateFields ==
  ASSUME NEW t \in Keeper, NEW n \in Nat, NEW leap \in {-1, 0, 1}, NEW tr,
         tr \in [wall : Int, tai : Int, sleep : Nat], Consistent(t, tr),
         leap # 0 => t.nsec + n >= SEC
  PROVE  LET u == Accumulate(t, n, leap)
             now == [tr EXCEPT !.wall = @ + leap * SEC, !.tai = @ - leap]
         IN  /\ u \in Keeper /\ Xtime(u) = Xtime(t) + n + leap * SEC
             /\ u.clock = t.clock /\ u.last = t.last + n
             /\ now \in [wall : Int, tai : Int, sleep : Nat]
             /\ now.wall = tr.wall + leap * SEC /\ now.sleep = tr.sleep
             /\ Consistent(u, now)
<1> DEFINE v == Xtime(t) + n
           s == SetXtime(t, v)
           wall == tr.wall + leap * SEC
           tai == tr.tai - leap
           now == [tr EXCEPT !.wall = wall, !.tai = tai]
           ls == t.last + n
<1>1. /\ v \in Nat /\ wall \in Int /\ tai \in Int /\ ls \in Nat /\ Xtime(t) \in Nat
      /\ SEC \in Nat /\ SEC > 0
      /\ t.sec \in Nat /\ t.nsec \in Nat /\ t.last \in Nat
  BY XtimeType, UnitAssumption DEF Keeper
<1>2. /\ s \in Keeper /\ Xtime(s) = v
      /\ s.clock = t.clock /\ s.last = t.last /\ s.wtm = t.wtm
      /\ s.offsReal = t.offsReal /\ s.tai = t.tai /\ s.offsTai = t.offsTai
      /\ s.sleep = t.sleep /\ s.offsBoot = t.offsBoot
  BY <1>1, SetXtimeFields
<1>3. /\ now \in [wall : Int, tai : Int, sleep : Nat]
      /\ now.wall = wall /\ now.tai = tai /\ now.sleep = tr.sleep
  <2> HIDE DEF wall, tai
  <2> QED
    BY <1>1
<1>4. s.sec = v \div SEC
  BY <1>1 DEF SetXtime, Keeper
<1>5. CASE leap = 0
  <2> DEFINE u == [s EXCEPT !.last = ls]
  <2>1. Accumulate(t, n, leap) = u
    BY <1>2, <1>5 DEF Accumulate
  <2> HIDE DEF s, ls
  <2>2. /\ u \in Keeper /\ u.sec = s.sec /\ u.nsec = s.nsec
        /\ u.clock = s.clock /\ u.last = ls /\ u.wtm = s.wtm
        /\ u.offsReal = s.offsReal /\ u.tai = s.tai /\ u.offsTai = s.offsTai
        /\ u.sleep = s.sleep /\ u.offsBoot = s.offsBoot
    BY <1>1, <1>2 DEF Keeper
  <2> HIDE DEF u
  <2>3. Xtime(u) = v
    BY <1>2, <2>2 DEF Xtime
  <2>4. wall = tr.wall /\ tai = tr.tai
    BY <1>1, <1>5
  <2>5. Consistent(u, now)
    BY <1>2, <1>3, <2>2, <2>4 DEF Consistent
  <2>6. v + leap * SEC = v
    BY <1>1, <1>5
  <2> QED
    BY <1>2, <1>3, <2>1, <2>2, <2>3, <2>5, <2>6 DEF ls
<1>6. CASE leap # 0
  <2> DEFINE sec == s.sec + leap
             x == [s EXCEPT !.sec = sec, !.last = ls]
             wtm == t.wtm - leap * SEC
             y == SetWallToMono(x, wtm)
             u == SetTai(y, tai)
  <2>1. sec \in Nat
    <3>1. t.nsec + n >= SEC
      BY <1>6
    <3>2. v >= SEC
      BY <1>1, <3>1 DEF Xtime
    <3>3. v \div SEC >= 1
      BY <1>1, <3>2
    <3> QED
      BY <1>4, <1>1, <3>3
  <2>2. wtm \in Int /\ t.tai = tr.tai /\ t.wtm = -tr.wall
    BY <1>1 DEF Consistent, Keeper
  <2>3. Accumulate(t, n, leap) = u
    <3>1. tai = t.tai - leap
      BY <2>2
    <3> QED
      BY <1>2, <1>6, <3>1 DEF Accumulate
  <2> HIDE DEF s, ls, sec, wtm
  <2>4. /\ x \in Keeper /\ x.sec = sec /\ x.nsec = s.nsec
        /\ x.clock = s.clock /\ x.last = ls /\ x.wtm = s.wtm
        /\ x.offsReal = s.offsReal /\ x.tai = s.tai /\ x.offsTai = s.offsTai
        /\ x.sleep = s.sleep /\ x.offsBoot = s.offsBoot
    BY <1>1, <1>2, <2>1 DEF Keeper
  <2> HIDE DEF x
  <2>5. /\ y \in Keeper /\ y.sec = x.sec /\ y.nsec = x.nsec
        /\ y.clock = x.clock /\ y.last = x.last /\ y.wtm = wtm
        /\ y.offsReal = -wtm /\ y.tai = x.tai /\ y.offsTai = -wtm + x.tai * SEC
        /\ y.sleep = x.sleep /\ y.offsBoot = x.offsBoot
    BY <2>2, <2>4, SetWallToMonoFields
  <2> HIDE DEF y
  <2>6. /\ u \in Keeper /\ u.sec = y.sec /\ u.nsec = y.nsec
        /\ u.clock = y.clock /\ u.last = y.last /\ u.wtm = y.wtm
        /\ u.offsReal = y.offsReal /\ u.tai = tai /\ u.offsTai = y.offsReal + tai * SEC
        /\ u.sleep = y.sleep /\ u.offsBoot = y.offsBoot
    BY <1>1, <2>5, SetTaiFields
  <2> HIDE DEF u
  <2>7. -wtm = wall /\ wtm = -wall
    BY <1>1, <2>2 DEF wtm
  <2>8. Xtime(u) = v + leap * SEC
    <3>1. u.sec = s.sec + leap /\ u.nsec = s.nsec /\ s.sec \in Int /\ s.nsec \in Int
      BY <1>2, <2>4, <2>5, <2>6 DEF sec, Keeper
    <3>2. \A a, b, c \in Int : (a + b) * c = a * c + b * c
      OBVIOUS
    <3>3. u.sec * SEC = s.sec * SEC + leap * SEC
      BY <1>1, <3>1, <3>2
    <3>4. s.sec * SEC + s.nsec = v
      BY <1>2 DEF Xtime
    <3>5. s.sec * SEC \in Int /\ leap * SEC \in Int
      BY <1>1, <3>1
    <3> QED
      BY <1>1, <3>1, <3>3, <3>4, <3>5 DEF Xtime
  <2>9. Consistent(u, now)
    BY <1>2, <1>3, <2>4, <2>5, <2>6, <2>7 DEF Consistent
  <2> QED
    BY <1>2, <1>3, <2>3, <2>4, <2>5, <2>6, <2>8, <2>9 DEF ls
<1> QED
  BY <1>5, <1>6

----------------------------------------------------------------------------
(* The tick.                                                               *)

LEMMA WholeTicks ==
  ASSUME NEW c \in Nat
  PROVE  LET n == (c \div Interval) * Interval
         IN  n \in Nat /\ n <= c
<1> DEFINE q == c \div Interval
<1>1. Interval \in Nat /\ Interval > 0
  BY UnitAssumption
<1>2. q \in Nat /\ q * Interval <= c /\ q * Interval \in Nat
  BY <1>1
<1> QED
  BY <1>2

LEMMA TickStartStep ==
  ASSUME IInv, TickStart
  PROVE  IInv'
<1> DEFINE n == (Count \div Interval) * Interval
           new(leap) == [truth EXCEPT !.wall = @ + leap * SEC, !.tai = @ - leap]
<1>1. PICK leap \in {-1, 0, 1} :
        /\ ~asleep /\ w.todo = <<>> /\ n > 0
        /\ leap # 0 => shadow.nsec + n >= SEC
        /\ shadow' = Accumulate(shadow, n, leap)
        /\ used' = IF leap = 0 THEN used ELSE [used EXCEPT !.events = @ + 1, !.writes = @ + 1]
        /\ w' = [todo |-> <<"copy", "copied">>, arg |-> 0, truth |-> new(leap)]
        /\ UNCHANGED <<age, slept, asleep, tk, last, odd, rtc, r, task, missed, truth>>
  BY ChoiceAssumption DEF TickStart, Count, procvars
<1>2. w = Unlocked /\ shadow = tk /\ Settled /\ ~odd
  BY <1>1, IdleFacts
<1>3. Count \in Nat /\ n \in Nat /\ n <= Count
  <2>1. Count \in Nat
    BY TypeFacts DEF IInv, WriterInv
  <2> QED
    BY <2>1, WholeTicks
<1> HIDE DEF n
<1> DEFINE tr == new(leap)
<1>4. /\ shadow' \in Keeper /\ Xtime(shadow') = Xtime(tk) + n + leap * SEC
      /\ shadow'.clock = tk.clock /\ shadow'.last = tk.last + n
      /\ tr \in [wall : Int, tai : Int, sleep : Nat]
      /\ tr.wall = truth.wall + leap * SEC /\ tr.sleep = truth.sleep
      /\ Consistent(shadow', tr)
  <2>1. truth \in [wall : Int, tai : Int, sleep : Nat] /\ tk \in Keeper
    BY DEF IInv, Typed, TypeOK
  <2>2. Consistent(tk, truth)
    BY <1>2 DEF Settled
  <2> HIDE DEF new
  <2>3. tr = [truth EXCEPT !.wall = @ + leap * SEC, !.tai = @ - leap]
    BY DEF new
  <2> HIDE DEF tr
  <2>4. leap # 0 => tk.nsec + n >= SEC
    BY <1>1, <1>2
  <2>5. shadow' = Accumulate(tk, n, leap)
    BY <1>1, <1>2
  <2>6. LET u == Accumulate(tk, n, leap)
            now == [truth EXCEPT !.wall = @ + leap * SEC, !.tai = @ - leap]
        IN  /\ u \in Keeper /\ Xtime(u) = Xtime(tk) + n + leap * SEC
            /\ u.clock = tk.clock /\ u.last = tk.last + n
            /\ now \in [wall : Int, tai : Int, sleep : Nat]
            /\ now.wall = truth.wall + leap * SEC /\ now.sleep = truth.sleep
            /\ Consistent(u, now)
    BY <1>3, <2>1, <2>2, <2>4, AccumulateFields, ZenonT(30)
  <2> QED
    BY <2>3, <2>5, <2>6
<1>5. tr = truth \/ leap # 0
  <2>1. ASSUME leap = 0
        PROVE  tr = truth
    <3> DEFINE a == truth.wall + leap * SEC
               b == truth.tai - leap
    <3>1. a = truth.wall /\ b = truth.tai
      BY <2>1, TypeFacts DEF IInv
    <3>2. tr = [truth EXCEPT !.wall = a, !.tai = b]
      OBVIOUS
    <3> HIDE DEF a, b, tr
    <3> QED
      BY <3>1, <3>2 DEF IInv, Typed, TypeOK
  <2> QED
    BY <2>1
<1>6. w'.todo = <<"copy", "copied">> /\ w'.truth = tr /\ w'.arg = 0
  BY <1>1
<1> HIDE DEF tr, new
<1>7. /\ used' \in [events : Nat, writes : Nat, reads : Nat]
      /\ used'.reads = used.reads
      /\ used'.writes = IF leap = 0 THEN used.writes ELSE used.writes + 1
  BY <1>1, UsedFields DEF IInv, Typed
<1>8. Typed'
  <2>1. w' \in [todo : Todos, arg : Int, truth : [wall : Int, tai : Int, sleep : Nat]]
    BY <1>1, <1>4, <1>6 DEF Todos, tr
  <2> QED
    BY <1>1, <1>4, <1>7, <2>1 DEF IInv, Typed, TypeOK
<1>9. Count' = Count /\ Running' = Running /\ Xtime(tk)' = Xtime(tk)
      /\ Cycles(tk.clock)' = Cycles(tk.clock)
  BY <1>1 DEF Count, Running, Cycles, Xtime
<1>10. WriterInv'
  <2>1. Settled'
    BY <1>1, <1>2, <1>9 DEF Settled, Consistent, OnTime
  <2>2. ShadowDue'
    <3>1. Xtime(tk) + Count = Running + truth.wall /\ tk.last = last[tk.clock]
      BY <1>1, <1>2 DEF Settled, OnTime, IInv, WriterInv
    <3>2. Count = Cycles(tk.clock) - tk.last
      BY <3>1 DEF Count
    <3>3. leap * SEC \in Int
      BY UnitAssumption
    <3>4. Xtime(shadow') + (Cycles(tk.clock) - shadow'.last) = Running + w'.truth.wall
      <4> DEFINE k == leap * SEC
      <4>1. k \in Int
        BY <3>3
      <4>2. Xtime(shadow') = Xtime(tk) + n + k /\ w'.truth.wall = truth.wall + k
        BY <1>4, <1>6
      <4> HIDE DEF k
      <4> QED
        BY <1>3, <1>4, <3>1, <3>2, <4>1, <4>2, TypeFacts DEF IInv
    <3>5. shadow'.last <= Cycles(tk.clock)
      BY <1>3, <1>4, <3>2, TypeFacts DEF IInv
    <3>6. Consistent(shadow', w'.truth)
      BY <1>4, <1>6
    <3>7. Xtime(shadow)' = Xtime(shadow')
      BY DEF Xtime
    <3> QED
      BY <1>1, <1>9, <3>4, <3>5, <3>6, <3>7 DEF ShadowDue, Consistent
  <2>3. Phase'
    BY <1>6, <2>1, <2>2 DEF Phase
  <2>4. /\ shadow'.clock = tk'.clock /\ tk'.last = last'[tk'.clock] /\ Count' >= 0
        /\ ~asleep'
    BY <1>1, <1>4, <1>9 DEF IInv, WriterInv
  <2> QED
    BY <2>3, <2>4 DEF WriterInv
<1>11. ReaderInv' /\ TaskInv'
  BY <1>1, <1>7, <1>9 DEF IInv, ReaderInv, TaskInv, Frozen, Real
<1>12. BootInv'
  <2>1. SUFFICES ASSUME rtc.exists
                 PROVE  BootInv'
    BY <1>1 DEF BootInv
  <2> DEFINE e == truth.sleep - slept
  <2>2. Bounded(e, Aim, Room)
    BY <1>1, <2>1 DEF IInv, BootInv
  <2>3. e' = e /\ Aim' = Aim
    BY <1>1 DEF Aim
  <2>4. w'.truth.sleep = truth'.sleep
    BY <1>1, <1>4, <1>6
  <2>5. CASE leap = 0
    <3>1. Room' = Room
      BY <1>7, <2>5 DEF Room
    <3>2. w'.truth = truth'
      BY <1>1, <1>5, <1>6, <2>5
    <3>3. Bounded(e', Aim', Room')
      BY <2>2, <2>3, <3>1
    <3> QED
      BY <1>1, <1>6, <2>4, <3>2, <3>3 DEF BootInv
  <2>6. CASE leap # 0
    <3>1. Stepped(e', Room') /\ Bounded(e', Aim', Room')
      <4>1. used'.writes = used.writes + 1
        BY <1>7, <2>6
      <4> QED
        BY <2>2, <2>3, <4>1, SetOnceMore DEF IInv
    <3> QED
      BY <1>1, <1>6, <2>4, <3>1 DEF BootInv
  <2> QED
    BY <2>5, <2>6
<1> QED
  BY <1>8, <1>10, <1>11, <1>12 DEF IInv

\* The time is copied: the section opens.
LEMMA CopyStep ==
  ASSUME IInv, Copy
  PROVE  IInv'
<1>1. /\ Step("copy") /\ w' = [w EXCEPT !.todo = Tail(@)]
      /\ odd' = TRUE /\ r' = [r EXCEPT !.retry = (r.pc # "idle")]
      /\ last' = [last EXCEPT ![tk.clock] = shadow.last]
      /\ tk' = [tk EXCEPT !.sec = shadow.sec, !.nsec = shadow.nsec, !.last = shadow.last]
      /\ UNCHANGED <<shadow, missed, truth>>
  BY DEF Copy, Open
<1>2. /\ w.todo = <<"copy", "copied">> /\ ShadowDue
      /\ ~asleep /\ UNCHANGED <<age, slept, asleep, rtc, task, used>>
  BY <1>1, StepFacts, Programs, PhaseAt DEF IInv, WriterInv
<1>3. w'.todo = <<"copied">> /\ w'.truth = w.truth /\ w'.arg = w.arg
  BY <1>1, <1>2 DEF IInv, Typed
<1>4. /\ shadow.sec \in Nat /\ shadow.nsec \in Nat /\ shadow.last \in Nat
      /\ tk \in Keeper /\ tk.clock \in Source /\ last \in [Source -> Nat]
  BY DEF IInv, Typed, TypeOK, Keeper
<1>5. /\ tk' \in Keeper /\ tk'.clock = tk.clock /\ tk'.last = shadow.last
      /\ last' \in [Source -> Nat] /\ last'[tk.clock] = shadow.last
  BY <1>1, <1>4 DEF Keeper
<1>6. Cycles(tk.clock)' = Cycles(tk.clock) /\ Running' = Running
      /\ Xtime(shadow)' = Xtime(shadow)
  BY <1>1, <1>2, <1>5 DEF Cycles, Running, Xtime
<1>7. Typed'
  <2>1. w' \in [todo : Todos, arg : Int, truth : [wall : Int, tai : Int, sleep : Nat]]
    <3>1. w'.todo \in Todos
      BY <1>3 DEF Todos
    <3> QED
      BY <1>1, <3>1, <1>3 DEF IInv, Typed
  <2>2. r' \in Reader
    BY <1>1 DEF IInv, Typed, Reader
  <2> QED
    BY <1>1, <1>2, <1>3, <1>5, <2>1, <2>2 DEF IInv, Typed, TypeOK
<1>8. WriterInv'
  <2>1. ShadowDue'
    BY <1>1, <1>2, <1>3, <1>5, <1>6 DEF ShadowDue, Consistent
  <2>2. Phase'
    BY <1>1, <1>3, <1>5, <2>1 DEF Phase
  <2>3. Count' >= 0
    BY <1>2, <1>4, <1>5, <1>6, TypeFacts DEF Count, ShadowDue, IInv
  <2>4. shadow'.clock = tk'.clock
    BY <1>1, <1>5 DEF IInv, WriterInv
  <2> QED
    BY <1>2, <1>5, <2>2, <2>3, <2>4 DEF WriterInv
<1>9. ReaderInv'
  BY <1>1, <1>2 DEF IInv, Typed, ReaderInv, Reader, Frozen
<1>10. TaskInv'
  BY <1>1, <1>2, <1>6 DEF IInv, TaskInv, Frozen
<1>11. BootInv'
  BY <1>1, <1>2, <1>3, OpenBoot
<1> QED
  BY <1>7, <1>8, <1>9, <1>10, <1>11 DEF IInv

\* The offsets are copied: the section closes.
LEMMA CopiedStep ==
  ASSUME IInv, Copied
  PROVE  IInv'
<1>1. Step("copied") /\ Close /\ tk' = shadow /\ UNCHANGED <<shadow, last, r>>
  BY DEF Copied
<1>2. /\ w.todo = <<"copied">> /\ odd /\ ShadowDue /\ shadow.last = tk.last
      /\ ~asleep /\ UNCHANGED <<age, slept, asleep, rtc, task, used>>
  BY <1>1, StepFacts, Programs, PhaseAt DEF IInv, WriterInv
<1>3. /\ ReaderInv' /\ TaskInv' /\ BootInv' /\ w'.todo = <<>> /\ w' = Unlocked
      /\ truth' = w.truth /\ ~odd' /\ missed' \in Int
  BY <1>1, <1>2, CloseFrame
<1>4. odd' = FALSE
  BY <1>1 DEF Close
<1>5. /\ tk'.clock = tk.clock /\ tk'.last = last'[tk'.clock] /\ shadow.last = last[tk.clock]
      /\ shadow'.clock = tk'.clock
  BY <1>1, <1>2 DEF IInv, WriterInv
<1>6. /\ Count' = Count /\ Running' = Running /\ Xtime(tk)' = Xtime(shadow)
      /\ Count = Cycles(tk.clock) - shadow.last
  BY <1>1, <1>2, <1>5 DEF Count, Running, Cycles, Xtime
<1>7. Phase'
  <2>1. Consistent(tk, truth)' /\ OnTime(truth.wall)'
    BY <1>1, <1>2, <1>3, <1>6 DEF Consistent, OnTime, ShadowDue
  <2> QED
    BY <1>1, <1>3, <2>1 DEF Phase, Settled
<1>8. WriterInv'
  BY <1>2, <1>5, <1>6, <1>7 DEF IInv, WriterInv
<1>9. Typed'
  <2>1. w' \in [todo : Todos, arg : Int, truth : [wall : Int, tai : Int, sleep : Nat]]
    BY <1>3 DEF Unlocked, Todos
  <2> QED
    BY <1>1, <1>2, <1>3, <1>4, <2>1 DEF IInv, Typed, TypeOK
<1> QED
  BY <1>3, <1>8, <1>9 DEF IInv

----------------------------------------------------------------------------
(* The writers that nothing else runs beside.                              *)

\* __timekeeping_inject_sleeptime.
LEMMA InjectSleeptimeFields ==
  ASSUME NEW t \in Keeper, NEW d \in Nat, NEW tr,
         tr \in [wall : Int, tai : Int, sleep : Nat], Consistent(t, tr)
  PROVE  LET u == InjectSleeptime(t, d)
             now == [tr EXCEPT !.wall = @ + d, !.sleep = @ + d]
         IN  /\ u \in Keeper /\ Xtime(u) = Xtime(t) + d
             /\ u.clock = t.clock /\ u.last = t.last
             /\ now \in [wall : Int, tai : Int, sleep : Nat]
             /\ now.wall = tr.wall + d /\ now.sleep = tr.sleep + d /\ now.tai = tr.tai
             /\ Consistent(u, now)
<1> DEFINE v == Xtime(t) + d
           wtm == t.wtm - d
           sl == t.sleep + d
           wall == tr.wall + d
           sleep == tr.sleep + d
           now == [tr EXCEPT !.wall = wall, !.sleep = sleep]
           s == SetXtime(t, v)
           x == SetWallToMono(s, wtm)
           u == SetSleepTime(x, sl)
<1>1. /\ v \in Nat /\ wtm \in Int /\ sl \in Int /\ wall \in Int /\ sleep \in Nat
      /\ t.wtm = -tr.wall /\ t.sleep = tr.sleep
  BY XtimeType DEF Keeper, Consistent
<1>2. wtm = -wall /\ -wtm = wall /\ sl = sleep
  BY <1>1
<1>3. InjectSleeptime(t, d) = u
  BY DEF InjectSleeptime
<1> HIDE DEF wtm, sl, wall, sleep, v
<1>4. /\ now \in [wall : Int, tai : Int, sleep : Nat]
      /\ now.wall = wall /\ now.sleep = sleep /\ now.tai = tr.tai
  BY <1>1
<1>5. /\ s \in Keeper /\ Xtime(s) = v
      /\ s.clock = t.clock /\ s.last = t.last /\ s.wtm = t.wtm
      /\ s.offsReal = t.offsReal /\ s.tai = t.tai /\ s.offsTai = t.offsTai
      /\ s.sleep = t.sleep /\ s.offsBoot = t.offsBoot
  BY <1>1, SetXtimeFields
<1> HIDE DEF s
<1>6. /\ x \in Keeper /\ x.sec = s.sec /\ x.nsec = s.nsec
      /\ x.clock = s.clock /\ x.last = s.last /\ x.wtm = wtm
      /\ x.offsReal = -wtm /\ x.tai = s.tai /\ x.offsTai = -wtm + s.tai * SEC
      /\ x.sleep = s.sleep /\ x.offsBoot = s.offsBoot
  BY <1>1, <1>5, SetWallToMonoFields
<1> HIDE DEF x
<1>7. /\ u \in Keeper /\ u.sec = x.sec /\ u.nsec = x.nsec
      /\ u.clock = x.clock /\ u.last = x.last /\ u.wtm = x.wtm
      /\ u.offsReal = x.offsReal /\ u.tai = x.tai /\ u.offsTai = x.offsTai
      /\ u.sleep = sl /\ u.offsBoot = sl
  BY <1>1, <1>6, SetSleepTimeFields
<1> HIDE DEF u
<1>8. Xtime(u) = v
  BY <1>5, <1>6, <1>7 DEF Xtime
<1>9. Consistent(u, now)
  BY <1>2, <1>4, <1>5, <1>6, <1>7 DEF Consistent
<1> QED
  BY <1>3, <1>4, <1>5, <1>6, <1>7, <1>8, <1>9 DEF v, wall, sleep

\* In a turn of its loop that was interrupted a reader has noticed.
LEMMA NoticedReader ==
  ASSUME IInv, Noticed, task' = task
  PROVE  ReaderInv' /\ r' \in Reader
BY DEF IInv, Typed, ReaderInv, Reader, Frozen, Noticed

\* change_clocksource.
LEMMA ChangeClocksourceStep ==
  ASSUME IInv, ChangeClocksource
  PROVE  IInv'
<1> DEFINE f == ForwardNow(tk)
           moved == [last EXCEPT ![tk.clock] = Cycles(tk.clock)]
<1>1. /\ ~asleep /\ w.todo = <<>> /\ shadow' = tk' /\ Noticed
      /\ used' = [used EXCEPT !.events = @ + 1, !.writes = @ + 1]
      /\ UNCHANGED <<age, slept, asleep, odd, rtc, w, task, missed, truth>>
  BY DEF ChangeClocksource, Alone
<1>2. PICK s \in Source \ {tk.clock} :
        \/ tk' = f /\ last' = moved
        \/ tk' = SetupInternals(f, s) /\ last' = [moved EXCEPT ![s] = Cycles(s)]
  BY DEF ChangeClocksource
<1>3. w = Unlocked /\ Settled /\ ~odd
  BY <1>1, IdleFacts
<1>4. Count >= 0 /\ Count \in Int /\ Cycles(tk.clock) \in Nat /\ Cycles(s) \in Nat
  BY TypeFacts, CyclesType DEF IInv, WriterInv
<1>5. /\ f \in Keeper /\ Xtime(f) = Xtime(tk) + Count
      /\ f.clock = tk.clock /\ f.last = Cycles(tk.clock) /\ f.wtm = tk.wtm
      /\ f.offsReal = tk.offsReal /\ f.tai = tk.tai /\ f.offsTai = tk.offsTai
      /\ f.sleep = tk.sleep /\ f.offsBoot = tk.offsBoot
  BY <1>4, ForwardNowFields DEF IInv
<1> HIDE DEF f
<1>6. Running' = Running /\ \A a \in Source : Cycles(a)' = Cycles(a)
  BY <1>1, StillTime
<1>7. PICK c \in Source :
        /\ tk' \in Keeper /\ tk'.clock = c /\ tk'.last = Cycles(c)
        /\ last' \in [Source -> Nat] /\ last'[c] = Cycles(c)
        /\ Xtime(tk') = Xtime(tk) + Count /\ Consistent(tk', truth)
  <2>1. Consistent(f, truth)
    BY <1>3, <1>5 DEF Consistent, Settled
  <2>2. tk.clock \in Source /\ last \in [Source -> Nat]
    BY TypeFacts DEF IInv, Typed, TypeOK
  <2>3. moved \in [Source -> Nat] /\ moved[tk.clock] = Cycles(tk.clock)
    BY <1>4, <2>2
  <2> HIDE DEF moved
  <2>4. CASE tk' = f /\ last' = moved
    BY <1>5, <2>1, <2>2, <2>3, <2>4
  <2>5. CASE tk' = SetupInternals(f, s) /\ last' = [moved EXCEPT ![s] = Cycles(s)]
    <3> DEFINE n == Cycles(s)
               g == [f EXCEPT !.clock = s, !.last = n]
    <3>1. n \in Nat /\ s \in Source
      BY <1>4
    <3>2. tk' = g
      BY <2>5 DEF SetupInternals
    <3> HIDE DEF n
    <3>3. /\ g \in Keeper /\ g.sec = f.sec /\ g.nsec = f.nsec
          /\ g.clock = s /\ g.last = n /\ g.wtm = f.wtm
          /\ g.offsReal = f.offsReal /\ g.tai = f.tai /\ g.offsTai = f.offsTai
          /\ g.sleep = f.sleep /\ g.offsBoot = f.offsBoot
      BY <1>5, <3>1 DEF Keeper
    <3> HIDE DEF g
    <3>4. Xtime(g) = Xtime(f) /\ Consistent(g, truth)
      BY <2>1, <3>3 DEF Xtime, Consistent
    <3>5. last' \in [Source -> Nat] /\ last'[s] = n
      BY <2>3, <2>5, <3>1 DEF n
    <3> QED
      BY <1>5, <3>1, <3>2, <3>3, <3>4, <3>5 DEF n
  <2> QED
    BY <1>2, <2>4, <2>5
<1>8. Count' = 0
  <2>1. Count' = Cycles(c)' - last'[c]
    BY <1>7 DEF Count, Cycles
  <2>2. Cycles(c) \in Nat
    BY CyclesType DEF IInv
  <2> QED
    BY <1>6, <1>7, <2>1, <2>2
<1>9. WriterInv'
  <2>1. OnTime(truth.wall)'
    <3>1. Xtime(tk) + Count = Running + truth.wall
      BY <1>1, <1>3 DEF Settled, OnTime
    <3>2. Xtime(tk') + 0 = Running + truth.wall
      BY <1>4, <1>7, <3>1, TypeFacts DEF IInv
    <3>3. Xtime(tk)' = Xtime(tk')
      BY DEF Xtime
    <3> QED
      BY <1>1, <1>6, <1>8, <3>2, <3>3 DEF OnTime
  <2>2. Consistent(tk, truth)'
    BY <1>1, <1>7 DEF Consistent
  <2>3. Phase'
    BY <1>1, <1>3, <2>1, <2>2 DEF Phase, Settled, Unlocked
  <2>4. shadow'.clock = tk'.clock /\ tk'.last = last'[tk'.clock] /\ Count' >= 0
    BY <1>1, <1>7, <1>8
  <2> QED
    BY <1>1, <2>3, <2>4 DEF WriterInv
<1>10. /\ used' \in [events : Nat, writes : Nat, reads : Nat]
       /\ used'.writes = used.writes + 1 /\ used'.reads = used.reads
  BY <1>1, UsedFields DEF IInv, Typed
<1>11. ReaderInv' /\ r' \in Reader
  BY <1>1, NoticedReader
<1>12. Typed'
  BY <1>1, <1>7, <1>10, <1>11 DEF IInv, Typed, TypeOK
<1>13. TaskInv'
  BY <1>1, <1>6, <1>10 DEF IInv, TaskInv, Frozen
<1>14. BootInv'
  <2>1. SUFFICES ASSUME rtc.exists
                 PROVE  BootInv'
    BY <1>1 DEF BootInv
  <2>2. Bounded(truth.sleep - slept, Aim, Room)
    BY <1>1, <2>1 DEF IInv, BootInv
  <2>3. /\ Stepped(truth.sleep - slept, Room')
        /\ Bounded(truth.sleep - slept, Aim', Room')
    BY <1>10, <2>2, SetOnceMore DEF IInv
  <2>4. Stepped(truth.sleep - slept, Room)' /\ Bounded(truth.sleep - slept, Aim, Room)'
    BY <1>1, <2>3
  <2> QED
    BY <1>1, <2>4 DEF BootInv
<1> QED
  BY <1>9, <1>11, <1>12, <1>13, <1>14 DEF IInv

----------------------------------------------------------------------------
(* Suspending.                                                             *)

LEMMA FractionBound ==
  ASSUME NEW a \in Nat
  PROVE  /\ Seconds(a) \in Nat /\ Fraction(a) \in Nat
         /\ Seconds(a) + Fraction(a) = Epoch + a
         /\ 0 <= Fraction(a) /\ Fraction(a) < SEC
<1> DEFINE v == Epoch + a
           q == v \div SEC
<1>1. v \in Nat /\ SEC \in Nat /\ SEC > 0
  BY EpochAssumption, UnitAssumption
<1> HIDE DEF v
<1>2. q \in Nat /\ q * SEC \in Nat /\ q * SEC <= v /\ v < q * SEC + SEC
  BY <1>1
<1>3. Seconds(a) = q * SEC
  BY DEF Seconds, v
<1>4. Fraction(a) = v - Seconds(a)
  BY <1>1, <1>2, <1>3, EpochAssumption DEF Fraction, v
<1> HIDE DEF q
<1>5. v = Epoch + a
  BY DEF v
<1> QED
  BY <1>1, <1>2, <1>3, <1>4, <1>5

\* The persistent clock is taken as it is: what was set is not made good.
LEMMA RebasedBound ==
  ASSUME NEW e \in Int, NEW u \in Int, NEW room \in Int, NEW f \in Int,
         0 <= f, f < SEC, Bounded(e, u, room),
         ~(-SEC <= e - u + f /\ e - u + f < 2 * SEC)
  PROVE  Bounded(e, e + f, room)
<1>1. SEC \in Nat /\ SEC > 0
  BY UnitAssumption
<1>2. 1 - SEC - room <= e /\ e <= room
  BY DEF Bounded
<1>3. CASE Calm(e, u, room)
  BY <1>1, <1>3 DEF Calm
<1>4. CASE Stepped(e, room)
  BY <1>2, <1>4 DEF Bounded
<1>5. CASE Falling(e, u, room)
  <2>1. Calm(e, e + f, room)
    BY <1>1, <1>2, <1>5 DEF Falling, Calm
  <2> QED
    BY <1>2, <2>1 DEF Bounded
<1> QED
  BY <1>3, <1>4, <1>5 DEF Bounded

\* The persistent clock has moved on by x more than was to be made good; or
\* by less, and no time asleep is injected.
LEMMA WokenBound ==
  ASSUME NEW e \in Int, NEW u \in Int, NEW room \in Int, NEW f \in Int, NEW g \in Int,
         NEW t \in Nat, NEW x \in Int, Bounded(e, u, room),
         0 <= f, f < SEC, 0 <= g, g < SEC,
         -SEC <= e - u + f, e - u + f < 2 * SEC,
         x = t + f - g - (e - u + f)
  PROVE  /\ x >= 0 => Bounded(e - t + x, u, room)
         /\ x < 0 => Bounded(e - t, u, room)
<1>1. SEC \in Nat /\ SEC > 0
  BY UnitAssumption
<1>2. 1 - SEC - room <= e /\ e <= room
  BY DEF Bounded
<1>3. 1 - room - 1 <= u /\ u <= room
  <2>1. CASE Calm(e, u, room)
    BY <1>1, <2>1 DEF Calm
  <2>2. CASE Stepped(e, room)
    BY <1>1, <2>2 DEF Stepped
  <2>3. CASE Falling(e, u, room)
    BY <1>1, <2>3 DEF Falling
  <2> QED
    BY <2>1, <2>2, <2>3 DEF Bounded
<1>4. ASSUME x >= 0
      PROVE  Bounded(e - t + x, u, room)
  <2>1. e - t + x = u - g
    OBVIOUS
  <2>2. Calm(u - g, u, room) /\ 1 - SEC - room <= u - g /\ u - g <= room
    BY <1>1, <1>3 DEF Calm
  <2> QED
    BY <2>1, <2>2 DEF Bounded
<1>5. ASSUME x < 0
      PROVE  Bounded(e - t, u, room)
  <2>1. e - t = u - x - g /\ e - t <= e /\ u - SEC < e - t
    BY <1>1, <1>5
  <2>2. 1 - SEC - room <= e - t /\ e - t <= room
    BY <1>1, <1>2, <1>3, <2>1
  <2>3. CASE Calm(e, u, room)
    <3>1. Calm(e - t, u, room)
      BY <1>1, <2>1, <2>3 DEF Calm
    <3> QED
      BY <2>2, <3>1 DEF Bounded
  <2>4. CASE Stepped(e, room) \/ Falling(e, u, room)
    <3>1. e <= room - 3 * SEC /\ 2 - room <= u
      BY <1>1, <2>4 DEF Stepped, Falling
    <3>2. CASE u < e - t
      <4>1. Falling(e - t, u, room)
        BY <1>1, <2>1, <3>1, <3>2 DEF Falling
      <4> QED
        BY <2>2, <4>1 DEF Bounded
    <3>3. CASE e - t <= u
      <4>1. Calm(e - t, u, room)
        BY <1>1, <1>3, <2>1, <3>1, <3>3 DEF Calm
      <4> QED
        BY <2>2, <4>1 DEF Bounded
    <3> QED
      BY <3>2, <3>3
  <2> QED
    BY <2>3, <2>4 DEF Bounded
<1> QED
  BY <1>4, <1>5

LEMMA RoomType ==
  ASSUME Typed
  PROVE  Room \in Int /\ Aim \in Int
<1>1. SEC \in Nat /\ used.writes \in Nat
  BY UnitAssumption DEF Typed
<1>2. \A a, b \in Nat : a * (3 * b) \in Int
  OBVIOUS
<1>3. rtc.old \in Int /\ truth.wall \in Int /\ truth.sleep \in Int /\ Epoch \in Int
  BY TypeFacts, EpochAssumption DEF Typed
<1> QED
  BY <1>1, <1>2, <1>3 DEF Room, Aim

LEMMA SuspendTimeFields ==
  ASSUME NEW p \in Int, NEW delta \in Int, Typed
  PROVE  LET d == delta - rtc.old
             s == SuspendTime(p, delta)
         IN  /\ s \in [exists : BOOLEAN, at : Int, old : Int, owed : Int]
             /\ s.exists = rtc.exists
             /\ IF -SEC <= d /\ d < 2 * SEC THEN s.at = p + d /\ s.old = rtc.old
                ELSE s.at = p /\ s.old = delta
<1> DEFINE d == delta - rtc.old
           q == d \div SEC
<1>1. SEC \in Nat /\ SEC > 0 /\ rtc.old \in Int /\ d \in Int
  BY UnitAssumption DEF Typed
<1>2. rtc \in [exists : BOOLEAN, at : Int, old : Int, owed : Int]
  BY DEF Typed
<1>3. SuspendTime(p, delta) = IF Abs(q) >= 2
                              THEN [rtc EXCEPT !.at = p, !.old = delta]
                              ELSE [rtc EXCEPT !.at = p + d]
  BY DEF SuspendTime
<1> HIDE DEF d
<1>4. q \in Int /\ q * SEC <= d /\ d < q * SEC + SEC
  BY <1>1
<1> HIDE DEF q
<1>5. Abs(q) >= 2 <=> ~(-SEC <= d /\ d < 2 * SEC)
  <2>1. Abs(q) >= 2 <=> (q >= 2 \/ q <= -2)
    BY <1>4 DEF Abs, Max2
  <2>2. ASSUME q >= 2
        PROVE  d >= 2 * SEC
    <3>1. q * SEC >= 2 * SEC
      BY <1>1, <1>4, <2>2
    <3> QED
      BY <1>1, <1>4, <3>1
  <2>3. ASSUME q <= -2
        PROVE  d < -SEC
    <3>1. q * SEC <= (-2) * SEC
      BY <1>1, <1>4, <2>3
    <3> QED
      BY <1>1, <1>4, <3>1
  <2>4. ASSUME q \in {-1, 0, 1}
        PROVE  -SEC <= d /\ d < 2 * SEC
    BY <1>1, <1>4, <2>4
  <2>5. ASSUME q >= 2 \/ q <= -2
        PROVE  ~(-SEC <= d /\ d < 2 * SEC)
    BY <1>1, <2>2, <2>3, <2>5
  <2> QED
    BY <1>4, <2>1, <2>4, <2>5
<1>6. p + d \in Int
  BY <1>1
<1>7. CASE Abs(q) >= 2
  BY <1>2, <1>3, <1>5, <1>7 DEF d
<1>8. CASE ~(Abs(q) >= 2)
  <2> DEFINE pd == p + d
  <2>1. pd \in Int /\ SuspendTime(p, delta) = [rtc EXCEPT !.at = pd]
    BY <1>3, <1>6, <1>8
  <2> HIDE DEF pd
  <2>2. /\ SuspendTime(p, delta) \in [exists : BOOLEAN, at : Int, old : Int, owed : Int]
        /\ SuspendTime(p, delta).exists = rtc.exists
        /\ SuspendTime(p, delta).at = pd /\ SuspendTime(p, delta).old = rtc.old
    BY <1>2, <2>1
  <2> QED
    BY <1>5, <1>8, <2>2 DEF pd, d
<1> QED
  BY <1>7, <1>8

LEMMA SuspendStep ==
  ASSUME IInv, Suspend
  PROVE  IInv'
<1> DEFINE f == ForwardNow(tk)
           delta == Xtime(f) - RtcTime
           s == SuspendTime(RtcTime, delta)
           owed == IF rtc.exists THEN 0 ELSE -Device
<1>1. /\ ~asleep /\ w.todo = <<>> /\ asleep' = TRUE /\ Noticed
      /\ tk' = f /\ shadow' = f
      /\ last' = [last EXCEPT ![tk.clock] = f.last]
      /\ rtc' = [s EXCEPT !.owed = owed]
      /\ used' = [used EXCEPT !.events = @ + 1]
      /\ UNCHANGED <<age, slept, odd, w, task, missed, truth>>
  BY DEF Suspend, Alone
<1>2. w = Unlocked /\ Settled /\ ~odd
  BY <1>1, IdleFacts
<1>3. Count >= 0 /\ Count \in Int /\ Cycles(tk.clock) \in Nat /\ age \in Nat /\ slept \in Nat
  BY TypeFacts, CyclesType DEF IInv, WriterInv
<1>4. /\ f \in Keeper /\ Xtime(f) = Xtime(tk) + Count
      /\ f.clock = tk.clock /\ f.last = Cycles(tk.clock) /\ f.wtm = tk.wtm
      /\ f.offsReal = tk.offsReal /\ f.tai = tk.tai /\ f.offsTai = tk.offsTai
      /\ f.sleep = tk.sleep /\ f.offsBoot = tk.offsBoot
  BY <1>3, ForwardNowFields DEF IInv
<1> HIDE DEF f
<1>5. Xtime(tk) + Count = Running + truth.wall
  BY <1>1, <1>2 DEF Settled, OnTime
<1>6. /\ Seconds(age) \in Nat /\ Fraction(age) \in Nat
      /\ Seconds(age) + Fraction(age) = Epoch + age
      /\ 0 <= Fraction(age) /\ Fraction(age) < SEC
  BY <1>3, FractionBound
<1>7. Device = Seconds(age) /\ RtcTime = IF rtc.exists THEN Seconds(age) ELSE 0
  BY DEF Device, RtcTime, Seconds
<1>8. RtcTime \in Int /\ delta \in Int /\ owed \in Int
  BY <1>4, <1>6, <1>7, TypeFacts, XtimeType
<1>9. delta = Running + truth.wall - RtcTime
  BY <1>4, <1>5, <1>8, TypeFacts DEF IInv
<1> HIDE DEF delta
<1>10. /\ s \in [exists : BOOLEAN, at : Int, old : Int, owed : Int]
       /\ s.exists = rtc.exists
       /\ IF -SEC <= delta - rtc.old /\ delta - rtc.old < 2 * SEC
          THEN s.at = RtcTime + (delta - rtc.old) /\ s.old = rtc.old
          ELSE s.at = RtcTime /\ s.old = delta
  BY <1>8, SuspendTimeFields DEF IInv
<1> HIDE DEF s, owed
<1>11. /\ rtc' \in [exists : BOOLEAN, at : Int, old : Int, owed : Int]
       /\ rtc'.exists = rtc.exists /\ rtc'.at = s.at /\ rtc'.old = s.old
  BY <1>1, <1>8, <1>10
<1>12. /\ last' \in [Source -> Nat] /\ last'[tk.clock] = Cycles(tk.clock)
       /\ tk.clock \in Source
  <2>1. last \in [Source -> Nat] /\ tk.clock \in Source
    BY TypeFacts DEF IInv, Typed, TypeOK
  <2> QED
    BY <1>1, <1>3, <1>4, <2>1
<1>13. Running' = Running /\ Cycles(tk.clock)' = Cycles(tk.clock)
  BY <1>1, <1>4 DEF Running, Cycles
<1>14. Count' = 0
  BY <1>1, <1>3, <1>4, <1>12, <1>13 DEF Count
<1>15. WriterInv'
  <2>1. OnTime(truth.wall)'
    <3>1. Xtime(tk)' = Xtime(f)
      BY <1>1 DEF Xtime
    <3>2. Xtime(f) + 0 = Running + truth.wall
      BY <1>3, <1>4, <1>5, TypeFacts DEF IInv
    <3> QED
      BY <1>1, <1>13, <3>1, <3>2 DEF OnTime
  <2>2. Consistent(tk, truth)'
    BY <1>1, <1>2, <1>4 DEF Consistent, Settled
  <2>3. Phase'
    BY <1>1, <1>2, <2>1, <2>2 DEF Phase, Settled, Unlocked
  <2>4. shadow'.clock = tk'.clock /\ tk'.last = last'[tk'.clock] /\ Count' >= 0
    BY <1>1, <1>4, <1>12, <1>14
  <2> QED
    BY <1>1, <2>3, <2>4 DEF WriterInv
<1>16. /\ used' \in [events : Nat, writes : Nat, reads : Nat]
       /\ used'.writes = used.writes /\ used'.reads = used.reads
  BY <1>1, UsedFields DEF IInv, Typed
<1>17. ReaderInv' /\ r' \in Reader
  BY <1>1, NoticedReader
<1>18. Typed'
  <2>1. rtc' \in [exists : Persistent, at : Int, old : Int, owed : Int]
    <3>1. rtc.exists \in Persistent
      BY DEF IInv, Typed, TypeOK
    <3> QED
      BY <1>11, <3>1
  <2> QED
    BY <1>1, <1>4, <1>11, <1>12, <1>16, <1>17, <2>1 DEF IInv, Typed, TypeOK
<1>19. TaskInv'
  BY <1>1, <1>13, <1>16 DEF IInv, TaskInv, Frozen
<1>20. BootInv'
  <2>1. SUFFICES ASSUME rtc.exists
                 PROVE  \E a \in 0 .. age' : AsleepSince(a)'
    BY <1>1, <1>11 DEF BootInv
  <2> DEFINE e == truth.sleep - slept
             d == e - Aim + Fraction(age)
  <2>2. Bounded(e, Aim, Room)
    BY <1>1, <2>1 DEF IInv, BootInv
  <2>3. /\ e \in Int /\ Aim \in Int /\ Room \in Int /\ SEC \in Nat /\ SEC > 0
        /\ rtc.old \in Int /\ Epoch \in Int
    BY TypeFacts, RoomType, EpochAssumption DEF IInv, Typed
  <2>4. d = delta - rtc.old
    <3>1. delta = age - slept + truth.wall - Seconds(age)
      BY <1>7, <1>9, <2>1 DEF Running
    <3>2. Aim = rtc.old - (truth.wall - truth.sleep - Epoch)
      BY DEF Aim
    <3>3. truth.wall \in Int /\ truth.sleep \in Int
      BY TypeFacts DEF IInv
    <3> QED
      BY <1>3, <1>6, <2>3, <3>1, <3>2, <3>3
  <2> DEFINE e1 == truth'.sleep - slept' + (age' - age)
             d1 == e1 - Aim' + Fraction(age)
  <2>5. e1 = e /\ Room' = Room
    BY <1>1, <1>3, <1>16, <2>3, SMTT(60) DEF Room
  <2>6. Bounded(e1, Aim', Room') /\ -SEC <= d1 /\ d1 < 2 * SEC /\ rtc'.at = Seconds(age) + d1
    <3>1. CASE -SEC <= d /\ d < 2 * SEC
      <4>1. rtc'.old = rtc.old /\ rtc'.at = Seconds(age) + d
        BY <1>7, <1>10, <1>11, <2>1, <2>4, <3>1
      <4>2. Aim' = Aim
        BY <1>1, <4>1 DEF Aim
      <4> QED
        BY <2>2, <2>5, <3>1, <4>1, <4>2
    <3>2. CASE ~(-SEC <= d /\ d < 2 * SEC)
      <4>1. rtc'.old = delta /\ rtc'.at = Seconds(age)
        BY <1>7, <1>10, <1>11, <2>1, <2>4, <3>2
      <4>2. Aim' = delta - (truth.wall - truth.sleep - Epoch)
        BY <1>1, <4>1 DEF Aim
      <4>3. Aim' = e + Fraction(age)
        <5>1. truth.wall \in Int /\ truth.sleep \in Int
          BY TypeFacts DEF IInv
        <5>2. Aim = rtc.old - (truth.wall - truth.sleep - Epoch)
          BY DEF Aim
        <5>3. delta - rtc.old = e - Aim + Fraction(age)
          BY <2>4
        <5> HIDE DEF e
        <5>4. e \in Int
          BY <2>3
        <5> DEFINE k == truth.wall - truth.sleep - Epoch
        <5>5. k \in Int
          BY <2>3, <5>1
        <5> HIDE DEF k
        <5>6. Aim = rtc.old - k /\ Aim' = delta - k
          BY <4>2, <5>2 DEF k
        <5> QED
          BY <1>6, <1>8, <2>3, <5>3, <5>4, <5>5, <5>6
      <4>4. Bounded(e, e + Fraction(age), Room)
        BY <1>6, <2>2, <2>3, <3>2, RebasedBound
      <4>5. d1 = 0
        BY <1>6, <2>3, <2>5, <4>3
      <4> HIDE DEF d1, e1, e
      <4>6. Bounded(e1, Aim', Room')
        BY <2>5, <4>3, <4>4
      <4>7. rtc'.at = Seconds(age) + d1
        BY <1>6, <4>1, <4>5
      <4> QED
        BY <2>3, <4>5, <4>6, <4>7
    <3> QED
      BY <3>1, <3>2
  <2>7. tk'.clock \in Nonstop => last'[tk'.clock] = Skew[tk'.clock] + age
    BY <1>1, <1>4, <1>12 DEF Cycles
  <2>8. AsleepSince(age)'
    BY <1>1, <2>6, <2>7 DEF AsleepSince, Fraction, Seconds
  <2>9. age' = age /\ age \in 0 .. age'
    BY <1>1, <1>3
  <2> QED
    BY <2>8, <2>9
<1> QED
  BY <1>15, <1>17, <1>18, <1>19, <1>20 DEF IInv

LEMMA ResumeStep ==
  ASSUME IInv, Resume
  PROVE  IInv'
<1> DEFINE d == IF tk.clock \in Nonstop /\ Count > 0 THEN Count
                ELSE Max2(RtcTime - rtc.at, 0)
           inj == InjectSleeptime(tk, d)
           c == Cycles(tk.clock)
           new == [inj EXCEPT !.last = c]
           said == [truth EXCEPT !.wall = @ + d, !.sleep = @ + d]
           owed == IF rtc.exists THEN 0 ELSE rtc.owed + Device
<1>1. /\ asleep /\ asleep' = FALSE /\ Noticed
      /\ tk' = new /\ shadow' = new
      /\ last' = [last EXCEPT ![tk.clock] = new.last]
      /\ truth' = said
      /\ missed' = IF Frozen THEN missed + d ELSE missed
      /\ rtc' = [rtc EXCEPT !.at = 0, !.owed = owed]
      /\ UNCHANGED <<age, slept, odd, w, task, used>>
  BY DEF Resume, Count, Missing
<1>2. w.todo = <<>> /\ w = Unlocked /\ Settled /\ ~odd
  <2>1. w.todo = <<>>
    BY <1>1 DEF IInv, WriterInv
  <2> QED
    BY <2>1, IdleFacts
<1>3. Count \in Int /\ c \in Nat /\ age \in Nat /\ slept \in Nat /\ tk \in Keeper
      /\ tk.clock \in Source
  BY TypeFacts DEF IInv
<1>4. /\ Seconds(age) \in Nat /\ Fraction(age) \in Nat
      /\ Seconds(age) + Fraction(age) = Epoch + age
      /\ 0 <= Fraction(age) /\ Fraction(age) < SEC
  BY <1>3, FractionBound
<1>5. Device = Seconds(age) /\ RtcTime = IF rtc.exists THEN Seconds(age) ELSE 0
  BY DEF Device, RtcTime, Seconds
<1>6. /\ rtc \in [exists : BOOLEAN, at : Int, old : Int, owed : Int]
      /\ rtc.exists \in Persistent
  BY DEF IInv, Typed, TypeOK
<1>7. d \in Nat /\ owed \in Int
  <2>1. RtcTime - rtc.at \in Int
    BY <1>4, <1>5, <1>6
  <2>2. Max2(RtcTime - rtc.at, 0) \in Nat
    BY <2>1 DEF Max2
  <2> QED
    BY <1>3, <1>4, <1>5, <1>6, <2>2
<1> DEFINE x == RtcTime - rtc.at
<1>8. /\ \/ tk.clock \in Nonstop /\ d = Count
         \/ d = IF x > 0 THEN x ELSE 0
      /\ x \in Int
  BY <1>4, <1>5, <1>6 DEF Max2
<1> HIDE DEF d, c, owed, x
<1>9. /\ inj \in Keeper /\ Xtime(inj) = Xtime(tk) + d
      /\ inj.clock = tk.clock /\ inj.last = tk.last
      /\ said \in [wall : Int, tai : Int, sleep : Nat]
      /\ said.wall = truth.wall + d /\ said.sleep = truth.sleep + d /\ said.tai = truth.tai
      /\ Consistent(inj, said)
  <2>1. truth \in [wall : Int, tai : Int, sleep : Nat] /\ Consistent(tk, truth)
    BY <1>2 DEF Settled, IInv, Typed, TypeOK
  <2> QED
    BY <1>3, <1>7, <2>1, InjectSleeptimeFields
<1> HIDE DEF inj, said
<1>10. /\ new \in Keeper /\ new.sec = inj.sec /\ new.nsec = inj.nsec
       /\ new.clock = inj.clock /\ new.last = c /\ new.wtm = inj.wtm
       /\ new.offsReal = inj.offsReal /\ new.tai = inj.tai /\ new.offsTai = inj.offsTai
       /\ new.sleep = inj.sleep /\ new.offsBoot = inj.offsBoot
  BY <1>3, <1>9 DEF Keeper
<1> HIDE DEF new
<1>11. Xtime(new) = Xtime(tk) + d /\ Consistent(new, said)
  BY <1>9, <1>10 DEF Xtime, Consistent
<1>12. /\ last' \in [Source -> Nat] /\ last'[tk.clock] = c
  <2>1. last \in [Source -> Nat]
    BY DEF IInv, Typed, TypeOK
  <2> QED
    BY <1>1, <1>3, <1>10, <2>1
<1>13. Running' = Running /\ c' = c /\ Count' = 0
  <2>1. Running' = Running /\ c' = c
    BY <1>1, <1>9, <1>10 DEF Running, Cycles, c
  <2> QED
    BY <1>1, <1>3, <1>9, <1>10, <1>12, <2>1 DEF Count, c
<1>14. WriterInv'
  <2>1. OnTime(truth.wall)'
    <3>1. Xtime(tk)' = Xtime(new)
      BY <1>1 DEF Xtime
    <3>2. Xtime(tk) = Running + truth.wall
      <4>1. Xtime(tk) + 0 = Running + truth.wall
        BY <1>1, <1>2 DEF Settled, OnTime
      <4> QED
        BY <4>1, TypeFacts DEF IInv
    <3>3. Xtime(new) + 0 = Running + said.wall
      BY <1>7, <1>9, <1>11, <3>2, TypeFacts DEF IInv
    <3> QED
      BY <1>1, <1>13, <3>1, <3>3 DEF OnTime
  <2>2. Consistent(tk, truth)'
    BY <1>1, <1>11 DEF Consistent
  <2>3. Phase'
    BY <1>1, <1>2, <2>1, <2>2 DEF Phase, Settled, Unlocked
  <2>4. shadow'.clock = tk'.clock /\ tk'.last = last'[tk'.clock] /\ Count' >= 0
    BY <1>1, <1>9, <1>10, <1>12, <1>13
  <2> QED
    BY <1>1, <2>3, <2>4 DEF WriterInv
<1>15. ReaderInv' /\ r' \in Reader
  BY <1>1, NoticedReader
<1>16. /\ rtc' \in [exists : BOOLEAN, at : Int, old : Int, owed : Int]
       /\ rtc' \in [exists : Persistent, at : Int, old : Int, owed : Int]
       /\ rtc'.exists = rtc.exists /\ rtc'.old = rtc.old
  <2>1. rtc \in [exists : Persistent, at : Int, old : Int, owed : Int]
    BY DEF IInv, Typed, TypeOK
  <2>2. rtc' = [rtc EXCEPT !.at = 0, !.owed = owed] /\ owed \in Int
    BY <1>1, <1>7
  <2>3. rtc' = [exists |-> rtc.exists, at |-> 0, old |-> rtc.old, owed |-> owed]
    BY <2>1, <2>2
  <2>4. rtc.exists \in BOOLEAN /\ rtc.old \in Int
    BY <1>6
  <2> QED
    BY <1>6, <2>2, <2>3, <2>4
<1>17. missed' \in Int
  BY <1>1, <1>7 DEF IInv, Typed, TypeOK
<1>18. Typed'
  BY <1>1, <1>9, <1>10, <1>12, <1>15, <1>16, <1>17 DEF IInv, Typed, TypeOK
<1>19. TaskInv'
  <2>1. task.fpn \in Int /\ task.fsn \in Int /\ missed \in Int
    BY DEF IInv, Typed, TypeOK, Task
  <2>2. missed = task.fpn + (IF Frozen THEN Running + truth.wall - task.fsn ELSE 0)
    BY DEF IInv, TaskInv
  <2>3. missed' = task.fpn + (IF Frozen THEN Running + said.wall - task.fsn ELSE 0)
    <3>1. CASE Frozen
      <4>1. /\ missed = task.fpn + (Running + truth.wall - task.fsn)
            /\ missed' = missed + d
        BY <1>1, <2>2, <3>1
      <4>2. missed' = task.fpn + (Running + said.wall - task.fsn)
        BY <1>7, <1>9, <2>1, <4>1, TypeFacts DEF IInv
      <4> QED
        BY <3>1, <4>2
    <3>2. CASE ~Frozen
      BY <1>1, <2>2, <3>2
    <3> QED
      BY <3>1, <3>2
  <2>4. Frozen' = Frozen
    BY <1>1 DEF Frozen
  <2> QED
    BY <1>1, <1>13, <2>3, <2>4 DEF IInv, TaskInv
<1>20. BootInv'
  <2>1. SUFFICES ASSUME rtc.exists
                 PROVE  Bounded(truth'.sleep - slept', Aim', Room')
    BY <1>1, <1>2, <1>16 DEF BootInv
  <2>2. PICK a \in 0 .. age : AsleepSince(a)
    BY <1>1, <2>1 DEF IInv, BootInv
  <2> DEFINE e == truth.sleep - slept + (age - a)
             f == Fraction(a)
             g == Fraction(age)
             t == age - a
             was == e - Aim + f
  <2>3. /\ Bounded(e, Aim, Room) /\ -SEC <= was /\ was < 2 * SEC
        /\ rtc.at = Seconds(a) + was
        /\ tk.clock \in Nonstop => last[tk.clock] = Skew[tk.clock] + a
    BY <2>2 DEF AsleepSince
  <2>4. a \in Nat /\ t \in Nat /\ e \in Int
    BY <1>3, <2>2, TypeFacts DEF IInv
  <2>5. /\ Seconds(a) \in Nat /\ f \in Nat /\ Seconds(a) + f = Epoch + a
        /\ 0 <= f /\ f < SEC
    BY <2>4, FractionBound
  <2>6. Aim \in Int /\ Room \in Int /\ SEC \in Nat /\ SEC > 0 /\ Epoch \in Int
    BY TypeFacts, RoomType, EpochAssumption DEF IInv
  <2>7. Aim' = Aim /\ Room' = Room
    <3>1. said.wall - said.sleep = truth.wall - truth.sleep
      BY <1>7, <1>9, TypeFacts DEF IInv
    <3> QED
      BY <1>1, <1>16, <3>1 DEF Aim, Room
  <2>8. truth'.sleep - slept' = e - t + d
    BY <1>1, <1>3, <1>7, <1>9, <2>4, TypeFacts DEF IInv
  <2>9. x = t + f - g - was
    <3>1. x = Seconds(age) - (Seconds(a) + was)
      BY <1>5, <2>1, <2>3 DEF x
    <3>2. was \in Int
      BY <2>4, <2>5, <2>6
    <3> HIDE DEF was, f, g
    <3>3. g \in Nat /\ Seconds(age) + g = Epoch + age
      BY <1>4 DEF g
    <3> HIDE DEF e
    <3> QED
      BY <1>3, <1>4, <2>4, <2>5, <2>6, <3>1, <3>2, <3>3
  <2> HIDE DEF t
  <2>10. CASE tk.clock \in Nonstop /\ d = Count
    <3>1. c = Skew[tk.clock] + age /\ Skew[tk.clock] \in Nat
      BY <1>3, <2>10, SourceAssumption DEF c, Cycles
    <3>2. Count = t
      BY <1>3, <2>3, <2>4, <2>10, <3>1 DEF Count, c, t
    <3> HIDE DEF e
    <3>3. e - t + d = e
      BY <2>4, <2>10, <3>2
    <3> QED
      BY <2>3, <2>7, <2>8, <3>3
  <2>11. CASE d = IF x > 0 THEN x ELSE 0
    <3> HIDE DEF e, f, g
    <3>1. /\ x >= 0 => Bounded(e - t + x, Aim, Room)
          /\ x < 0 => Bounded(e - t, Aim, Room)
      <4>1. g \in Int /\ f \in Int /\ 0 <= g /\ g < SEC
        BY <1>4, <2>5 DEF g
      <4> QED
        BY <1>8, <2>3, <2>4, <2>5, <2>6, <2>9, <4>1, WokenBound
    <3>2. CASE x >= 0
      <4>1. d = x
        BY <1>8, <2>11, <3>2
      <4> QED
        BY <2>7, <2>8, <3>1, <3>2, <4>1
    <3>3. CASE x < 0
      <4>1. d = 0 /\ e - t + d = e - t
        BY <1>8, <2>4, <2>11, <3>3
      <4> QED
        BY <2>7, <2>8, <3>1, <3>3, <4>1
    <3> QED
      BY <1>8, <3>2, <3>3
  <2> QED
    BY <1>8, <2>10, <2>11
<1> QED
  BY <1>14, <1>15, <1>18, <1>19, <1>20 DEF IInv

----------------------------------------------------------------------------
(* Time goes by.                                                           *)

LEMMA PassTime ==
  ASSUME Typed, Pass
  PROVE  LET k == IF asleep THEN 0 ELSE 1
         IN  /\ Running' = Running + k
             /\ Cycles(tk.clock)' >= Cycles(tk.clock)
             /\ ~asleep => Cycles(tk.clock)' = Cycles(tk.clock) + 1
             /\ Cycles(tk.clock) \in Nat /\ Cycles(tk.clock)' \in Nat
             /\ Count' = Cycles(tk.clock)' - last[tk.clock]
<1> DEFINE s == tk.clock
<1>1. /\ age' = age + 1 /\ slept' = IF asleep THEN slept + 1 ELSE slept
      /\ UNCHANGED <<asleep, tk, last>>
  BY DEF Pass, clockvars
<1>2. age \in Nat /\ slept \in Nat /\ slept <= age /\ s \in Source /\ Skew[s] \in Nat
  BY TypeFacts, SourceAssumption DEF Typed
<1>3. Running' = Running + (IF asleep THEN 0 ELSE 1)
  BY <1>1, <1>2 DEF Running
<1>4. /\ Cycles(s) = Skew[s] + (IF s \in Nonstop THEN age ELSE Running)
      /\ Cycles(s)' = Skew[s] + (IF s \in Nonstop THEN age' ELSE Running')
      /\ Count' = Cycles(s)' - last[s]
  BY <1>1 DEF Cycles, Count
<1>5. Running \in Nat
  BY TypeFacts
<1> QED
  BY <1>1, <1>2, <1>3, <1>4, <1>5

LEMMA PassStep ==
  ASSUME IInv, Pass
  PROVE  IInv'
<1>1. /\ age' = age + 1 /\ slept' = IF asleep THEN slept + 1 ELSE slept
      /\ missed' = IF Frozen THEN missed + (IF asleep THEN 0 ELSE 1) ELSE missed
      /\ UNCHANGED <<asleep, tk, shadow, last, odd, rtc, w, r, task, truth, used>>
  BY DEF Pass, clockvars, Missing
<1> DEFINE k == IF asleep THEN 0 ELSE 1
<1>2. /\ Running' = Running + k
      /\ Cycles(tk.clock)' >= Cycles(tk.clock)
      /\ ~asleep => Cycles(tk.clock)' = Cycles(tk.clock) + 1
      /\ Cycles(tk.clock) \in Nat /\ Cycles(tk.clock)' \in Nat
      /\ Count' = Cycles(tk.clock)' - last[tk.clock]
  BY PassTime DEF IInv
<1>3. /\ Running \in Nat /\ last[tk.clock] \in Nat /\ Xtime(tk) \in Nat /\ Xtime(shadow) \in Nat
      /\ truth.wall \in Int /\ w.truth.wall \in Int /\ Count \in Int
      /\ age \in Nat /\ slept \in Nat /\ Count = Cycles(tk.clock) - last[tk.clock]
  BY TypeFacts DEF IInv, Count
<1>4. Typed'
  <2>1. missed' \in Int
    BY <1>1 DEF IInv, Typed, TypeOK
  <2>2. slept' <= age' /\ slept' \in Nat /\ age' \in Nat
    BY <1>1 DEF IInv, Typed, TypeOK
  <2> QED
    BY <1>1, <2>1, <2>2 DEF IInv, Typed, TypeOK
<1>5. \A wall \in Int : OnTime(wall) => OnTime(wall)'
  <2> SUFFICES ASSUME NEW wall \in Int, OnTime(wall)
               PROVE  OnTime(wall)'
    OBVIOUS
  <2>1. Xtime(tk)' = Xtime(tk)
    BY <1>1 DEF Xtime
  <2>2. CASE asleep
    BY <1>1, <1>2, <1>3, <2>1, <2>2 DEF OnTime
  <2>3. CASE ~asleep
    <3>1. Xtime(tk) + Count = Running + wall
      BY <2>3 DEF OnTime
    <3>2. Xtime(tk) + Count' = Running' + wall
      BY <1>2, <1>3, <2>3, <3>1
    <3> QED
      BY <1>1, <2>1, <2>3, <3>2 DEF OnTime
  <2> QED
    BY <2>2, <2>3
<1>6. WriterInv'
  <2>1. shadow'.clock = tk'.clock /\ tk'.last = last'[tk'.clock] /\ Count' >= 0
        /\ (asleep' => w'.todo = <<>>)
    BY <1>1, <1>2, <1>3, SMTT(60) DEF IInv, WriterInv
  <2>2. Consistent(tk, truth)' = Consistent(tk, truth)
        /\ Consistent(tk, w.truth)' = Consistent(tk, w.truth)
        /\ Consistent(shadow, w.truth)' = Consistent(shadow, w.truth)
    BY <1>1 DEF Consistent
  <2>3. (OnTime(truth.wall) => OnTime(truth.wall)') /\ (OnTime(w.truth.wall) => OnTime(w.truth.wall)')
    BY <1>1, <1>3, <1>5 DEF OnTime
  <2>4. Settled => Settled'
    BY <1>1, <2>2, <2>3 DEF Settled
  <2>5. CASE asleep
    <3>1. w.todo = <<>> /\ Phase
      BY <2>5 DEF IInv, WriterInv
    <3>2. w = Unlocked /\ shadow = tk /\ Settled
      BY <3>1, PhaseAt
    <3>3. Phase'
      BY <1>1, <2>4, <3>1, <3>2 DEF Phase, Unlocked
    <3> QED
      BY <2>1, <3>3 DEF WriterInv
  <2>6. CASE ~asleep
    <3>1. ShadowDue => ShadowDue'
      <4>1. ASSUME ShadowDue
            PROVE  ShadowDue'
        <5>1. Xtime(shadow) + (Cycles(tk.clock) - shadow.last) = Running + w.truth.wall
              /\ shadow.last <= Cycles(tk.clock) /\ Consistent(shadow, w.truth)
          BY <4>1 DEF ShadowDue
        <5>2. shadow.last \in Nat
          BY DEF IInv, Typed, TypeOK, Keeper
        <5>3. Xtime(shadow) + (Cycles(tk.clock)' - shadow.last) = Running' + w.truth.wall
              /\ shadow.last <= Cycles(tk.clock)'
          BY <1>2, <1>3, <2>6, <5>1, <5>2
        <5>4. Xtime(shadow)' = Xtime(shadow)
          BY <1>1 DEF Xtime
        <5>5. Consistent(shadow, w.truth)'
          BY <2>2, <5>1
        <5> QED
          BY <1>1, <5>3, <5>4, <5>5 DEF ShadowDue
      <4> QED
        BY <4>1
    <3>2. (Before => Before') /\ (Midway => Midway')
      BY <1>1, <2>2, <2>3 DEF Before, Midway
    <3>3. (ToArg => ToArg') /\ (ByArg => ByArg') /\ (BySleep => BySleep')
      BY <1>1 DEF ToArg, ByArg, BySleep, Xtime
    <3>4. Consistent(tk, [truth EXCEPT !.wall = w.truth.wall]) =>
            Consistent(tk, [truth EXCEPT !.wall = w.truth.wall])'
      BY <1>1 DEF Consistent
    <3>5. Phase
      BY DEF IInv, WriterInv
    <3>6. Phase'
      <4>1. w' = w /\ shadow' = shadow /\ tk' = tk /\ odd' = odd /\ truth' = truth
        BY <1>1
      <4>2. w = Unlocked => w' = Unlocked
        BY <4>1 DEF Unlocked
      <4> QED
        BY <2>2, <2>3, <2>4, <3>1, <3>2, <3>3, <3>4, <3>5, <4>1, <4>2 DEF Phase
    <3> QED
      BY <2>1, <3>6 DEF WriterInv
  <2> QED
    BY <2>5, <2>6
<1>7. ReaderInv'
  <2>1. Running <= Running'
    BY <1>2, <1>3
  <2>2. r \in Reader /\ Real' = Real /\ Frozen' = Frozen
    BY <1>1 DEF IInv, Typed, Real, Frozen
  <2>3. r.pc \in {"ns", "rest"} /\ ~r.retry =>
          /\ ~odd /\ ~asleep /\ r.sec = tk.sec /\ r.tai = tk.tai /\ r.began <= Running'
    BY <1>2, <1>3, <2>1, <2>2 DEF IInv, ReaderInv, Reader
  <2>4. Real - truth.wall \in Int
    BY <1>3, <2>2, UnitAssumption DEF Real, Reader
  <2>5. r.pc = "rest" /\ ~r.retry => r.began <= Real - truth.wall /\ Real - truth.wall <= Running'
    BY <1>2, <1>3, <2>1, <2>4 DEF IInv, ReaderInv
  <2> QED
    BY <1>1, <2>2, <2>3, <2>5 DEF IInv, ReaderInv
<1>8. TaskInv'
  <2>1. task.fpn \in Int /\ task.fsn \in Int /\ missed \in Int
    BY DEF IInv, Typed, TypeOK, Task
  <2>2. missed = task.fpn + (IF Frozen THEN Running + truth.wall - task.fsn ELSE 0)
    BY DEF IInv, TaskInv
  <2>3. missed' = task.fpn + (IF Frozen THEN Running' + truth.wall - task.fsn ELSE 0)
    BY <1>1, <1>2, <1>3, <2>1, <2>2
  <2> QED
    BY <1>1, <2>3 DEF IInv, TaskInv, Frozen
<1>9. BootInv'
  <2>1. SUFFICES ASSUME rtc.exists
                 PROVE  BootInv'
    BY <1>1 DEF BootInv
  <2>2. Aim' = Aim /\ Room' = Room
    BY <1>1 DEF Aim, Room
  <2>3. CASE ~asleep
    <3>1. slept' = slept /\ truth' = truth /\ w' = w /\ asleep' = asleep
      BY <1>1, <2>3
    <3>2. /\ Bounded(truth'.sleep - slept', Aim', Room') = Bounded(truth.sleep - slept, Aim, Room)
          /\ Stepped(truth'.sleep - slept', Room') = Stepped(truth.sleep - slept, Room)
      BY <2>2, <3>1
    <3> QED
      BY <1>1, <2>1, <2>3, <3>1, <3>2 DEF IInv, BootInv
  <2>4. CASE asleep
    <3>1. PICK a \in 0 .. age : AsleepSince(a)
      BY <2>1, <2>4 DEF IInv, BootInv
    <3>2. truth'.sleep - slept' + (age' - a) = truth.sleep - slept + (age - a)
      <4>1. truth.sleep \in Nat
        BY TypeFacts DEF IInv
      <4> QED
        BY <1>1, <1>3, <2>4, <4>1
    <3>3. AsleepSince(a)'
      BY <1>1, <2>2, <3>1, <3>2 DEF AsleepSince, Seconds, Fraction
    <3>4. a \in 0 .. age'
      BY <1>1, <1>3
    <3> QED
      BY <1>1, <2>4, <3>3, <3>4 DEF BootInv
  <2> QED
    BY <2>3, <2>4
<1> QED
  BY <1>4, <1>6, <1>7, <1>8, <1>9 DEF IInv

----------------------------------------------------------------------------
(* Readers, and the process in virtual time.                               *)

\* A reader leaves the writers and the boot clock alone.
LEMMA ReadFrame ==
  ASSUME IInv, UNCHANGED <<age, slept, asleep, tk, shadow, last, odd, rtc, w, missed, truth>>,
         used'.writes = used.writes
  PROVE  /\ WriterInv' /\ BootInv' /\ Running' = Running /\ Count' = Count
<1>1. Count' = Count /\ Running' = Running /\ Xtime(tk)' = Xtime(tk)
      /\ Xtime(shadow)' = Xtime(shadow) /\ Cycles(tk.clock)' = Cycles(tk.clock)
  BY DEF Count, Running, Cycles, Xtime
<1>2. Phase' = Phase
  BY <1>1 DEF Phase, Settled, Before, Midway, ShadowDue, Consistent, OnTime, ToArg, ByArg,
              BySleep, Unlocked
<1>3. WriterInv'
  BY <1>1, <1>2 DEF IInv, WriterInv
<1>4. Aim' = Aim /\ Room' = Room
  BY DEF Aim, Room
<1>5. BootInv'
  <2>1. CASE ~rtc.exists
    BY <2>1 DEF BootInv
  <2>2. CASE rtc.exists /\ asleep
    <3>1. PICK a \in 0 .. age : AsleepSince(a)
      BY <2>2 DEF IInv, BootInv
    <3>2. AsleepSince(a)'
      BY <1>4, <3>1 DEF AsleepSince, Seconds, Fraction
    <3> QED
      BY <2>2, <3>2 DEF BootInv
  <2>3. CASE rtc.exists /\ ~asleep
    <3>1. /\ Bounded(truth'.sleep - slept', Aim', Room') = Bounded(truth.sleep - slept, Aim, Room)
          /\ Stepped(truth'.sleep - slept', Room') = Stepped(truth.sleep - slept, Room)
      BY <1>4
    <3> QED
      BY <2>3, <3>1 DEF IInv, BootInv
  <2> QED
    BY <2>1, <2>2, <2>3
<1> QED
  BY <1>1, <1>3, <1>5

\* What the clock reads outside a write section.
LEMMA ReadsRight ==
  ASSUME IInv, ~odd, ~asleep
  PROVE  /\ tk.sec * SEC + GetNs(tk) = Running + truth.wall
         /\ tk.sec \in Nat /\ GetNs(tk) \in Int
<1>1. OnTime(truth.wall)
  BY PhaseEven DEF IInv, WriterInv, Settled
<1>2. /\ tk.sec \in Nat /\ tk.nsec \in Nat /\ SEC \in Nat /\ Cycles(tk.clock) \in Nat
      /\ last[tk.clock] \in Nat /\ Running \in Nat /\ truth.wall \in Int
  BY TypeFacts DEF IInv, Keeper
<1>3. tk.sec * SEC + tk.nsec + (Cycles(tk.clock) - last[tk.clock]) = Running + truth.wall
  BY <1>1 DEF OnTime, Xtime, Count
<1> DEFINE m == tk.sec * SEC
<1>4. m \in Int
  BY <1>2
<1> HIDE DEF m
<1>5. m + tk.nsec + (Cycles(tk.clock) - last[tk.clock]) = Running + truth.wall
  BY <1>3 DEF m
<1>6. m + (Cycles(tk.clock) - last[tk.clock] + tk.nsec) = Running + truth.wall
  BY <1>2, <1>4, <1>5
<1> QED
  BY <1>2, <1>6 DEF m, GetNs

\* read_seqcount_begin, and what is read first.
LEMMA BeginStep ==
  ASSUME IInv, Begin
  PROVE  IInv'
<1>1. /\ r.pc \in {"idle", "again"} /\ ~asleep /\ ~odd
      /\ UNCHANGED <<age, slept, asleep, tk, shadow, last, odd, rtc, w, task, missed, truth, used>>
  BY DEF Begin, clockvars, procvars
<1>2. PICK mine \in BOOLEAN :
        /\ mine => ~Frozen
        /\ r' = [pc |-> "ns", retry |-> FALSE, sec |-> tk.sec, tai |-> tk.tai,
                 ns |-> 0, began |-> Running, mine |-> mine]
  <2>1. r.mine \in BOOLEAN
    BY DEF IInv, Typed, Reader
  <2> QED
    BY <2>1 DEF Begin
<1>3. WriterInv' /\ BootInv' /\ Running' = Running
  BY <1>1, ReadFrame
<1>4. tk.sec \in Nat /\ tk.tai \in Int /\ Running \in Nat
  BY TypeFacts DEF IInv, Keeper
<1>5. r' \in Reader
  BY <1>2, <1>4 DEF Reader
<1>6. Typed'
  BY <1>1, <1>5 DEF IInv, Typed, TypeOK
<1>7. ReaderInv'
  <2>1. /\ r'.pc = "ns" /\ r'.sec = tk.sec /\ r'.tai = tk.tai /\ r'.began = Running
        /\ r'.mine => ~Frozen
    BY <1>2
  <2> QED
    BY <1>1, <1>3, <1>4, <2>1 DEF ReaderInv, Frozen
<1>8. TaskInv'
  BY <1>1, <1>3 DEF IInv, TaskInv, Frozen
<1> QED
  BY <1>3, <1>6, <1>7, <1>8 DEF IInv

\* The counter is read.
LEMMA ReadNsStep ==
  ASSUME IInv, ReadNs
  PROVE  IInv'
<1>1. /\ r.pc = "ns" /\ ~asleep /\ r' = [r EXCEPT !.pc = "rest", !.ns = GetNs(tk)]
      /\ UNCHANGED <<age, slept, asleep, tk, shadow, last, odd, rtc, w, task, missed, truth, used>>
  BY DEF ReadNs, clockvars, procvars
<1>2. WriterInv' /\ BootInv' /\ Running' = Running
  BY <1>1, ReadFrame
<1>3. GetNs(tk) \in Int
  BY TypeFacts DEF IInv, GetNs, Keeper
<1>4. /\ r' \in Reader /\ r'.pc = "rest" /\ r'.ns = GetNs(tk) /\ r'.retry = r.retry
      /\ r'.sec = r.sec /\ r'.tai = r.tai /\ r'.began = r.began /\ r'.mine = r.mine
  <2> DEFINE ns == GetNs(tk)
  <2>1. r' = [r EXCEPT !.pc = "rest", !.ns = ns] /\ ns \in Int
    BY <1>1, <1>3
  <2> HIDE DEF ns
  <2>2. r \in Reader
    BY DEF IInv, Typed
  <2>3. /\ r' \in Reader /\ r'.pc = "rest" /\ r'.ns = ns /\ r'.retry = r.retry
        /\ r'.sec = r.sec /\ r'.tai = r.tai /\ r'.began = r.began /\ r'.mine = r.mine
    BY <2>1, <2>2 DEF Reader
  <2> QED
    BY <2>3 DEF ns
<1>5. Typed'
  BY <1>1, <1>4 DEF IInv, Typed, TypeOK
<1>6. ReaderInv'
  <2>1. ASSUME ~r.retry
        PROVE  /\ ~odd /\ ~asleep /\ r.sec = tk.sec /\ r.tai = tk.tai /\ r.began <= Running
               /\ Real' - truth.wall = Running
    <3>1. ~odd /\ ~asleep /\ r.sec = tk.sec /\ r.tai = tk.tai /\ r.began <= Running
      BY <1>1, <2>1 DEF IInv, ReaderInv
    <3>2. tk.sec * SEC + GetNs(tk) = Running + truth.wall
      BY <3>1, ReadsRight
    <3>3. Real' = Running + truth.wall
      BY <1>4, <3>1, <3>2 DEF Real
    <3> QED
      BY <3>1, <3>3, TypeFacts DEF IInv
  <2>2. r.began \in Int /\ Running \in Int
    BY TypeFacts DEF IInv, Typed, Reader
  <2>3. r.mine => ~Frozen
    BY DEF IInv, ReaderInv
  <2> QED
    BY <1>1, <1>2, <1>4, <2>1, <2>2, <2>3 DEF ReaderInv, Frozen
<1>7. TaskInv'
  BY <1>1, <1>2 DEF IInv, TaskInv, Frozen
<1> QED
  BY <1>2, <1>5, <1>6, <1>7 DEF IInv

LEMMA TdfFact == Tdf \in Int /\ Tdf > 0 /\ Tdf <= MaxTdf /\ MaxTdf \in Int
<1>1. Tdf \in 1 .. MaxTdf
  BY BoundAssumption
<1>2. MaxTdf \in Int
  BY DEF MaxTdf
<1> QED
  BY <1>1, <1>2

\* A read loses less than a nanosecond, on either side.
LEMMA DeltaLoses ==
  ASSUME NEW delta \in Int
  PROVE  LET dv == DeltaVpn(delta, Tdf)
         IN  dv \in Int /\ -Tdf < 1000 * delta - Tdf * dv /\ 1000 * delta - Tdf * dv < Tdf
<1> DEFINE dv == DeltaVpn(delta, Tdf)
           e == 1000 * delta - Tdf * dv
<1>1. dv \in Int /\ -Tdf < e /\ e < Tdf
  BY TdfFact, DeltaVpnBound
<1> QED
  BY <1>1

\* What a read adds to the two clocks of the process.
LEMMA DeliverTask ==
  ASSUME IInv, NEW now \in Int
  PROVE  LET new == Timekeep(task, now)
             err == 1000 * new.ppn - Tdf * new.vpn
             n == used.reads + 1
         IN  /\ new \in Task /\ new.dilation = Tdf /\ new.vsn = Epoch /\ new.psn = Epoch
             /\ new.fsn = task.fsn /\ new.fpn = task.fpn
             /\ new.vpn = task.vpn + DeltaVpn(DeltaPpn(task, now), Tdf)
             /\ new.ppn = task.ppn + DeltaPpn(task, now)
             /\ -(Tdf * n) < err /\ err < Tdf * n
             /\ Reading(task, now) = Epoch + new.vpn
<1> DEFINE new == Timekeep(task, now)
           delta == DeltaPpn(task, now)
           dv == DeltaVpn(delta, Tdf)
<1>1. /\ task \in Task /\ task.dilation = Tdf /\ task.vsn = Epoch /\ task.psn = Epoch
      /\ Tdf \in Nat /\ Tdf > 0 /\ Tdf <= MaxTdf /\ Epoch \in Nat /\ Epoch > 0
      /\ used.reads \in Nat
  <2>1. task \in Task
    BY DEF IInv, Typed, TypeOK
  <2>2. used.reads \in Nat
    BY DEF IInv, Typed
  <2>3. task.dilation = Tdf /\ task.vsn = Epoch /\ task.psn = Epoch
    BY DEF IInv, TaskInv
  <2>4. Epoch \in Nat /\ Epoch > 0
    BY EpochAssumption
  <2> QED
    BY <2>1, <2>2, <2>3, <2>4, TdfFact
<1>2. Virtual(task)
  BY <1>1 DEF Virtual
<1>3. delta \in Int /\ task.vpn \in Int /\ task.ppn \in Int
  BY <1>1 DEF DeltaPpn, Task
<1> HIDE DEF delta
<1>4. /\ dv \in Int /\ -Tdf < 1000 * delta - Tdf * dv /\ 1000 * delta - Tdf * dv < Tdf
  BY <1>3, DeltaLoses
<1>5. /\ new \in Task /\ new.dilation = Tdf /\ new.vsn = Epoch /\ new.psn = Epoch
      /\ new.fsn = task.fsn /\ new.fpn = task.fpn
      /\ new.vpn = task.vpn + dv /\ new.ppn = task.ppn + delta
  BY <1>1, <1>2, TimekeepFields DEF delta
<1>6. Reading(task, now) = Epoch + new.vpn
  <2>1. Reading(task, now) = Epoch + task.vpn + dv
    BY <1>1, <1>2 DEF Reading, delta
  <2> HIDE DEF dv, new
  <2> QED
    BY <1>1, <1>3, <1>4, <1>5, <2>1
<1> HIDE DEF new, dv
<1>7. -(Tdf * (used.reads + 1)) < 1000 * new.ppn - Tdf * new.vpn
      /\ 1000 * new.ppn - Tdf * new.vpn < Tdf * (used.reads + 1)
  <2>1. LET err == 1000 * task.ppn - Tdf * task.vpn
        IN  -(Tdf * used.reads) <= err /\ err <= Tdf * used.reads
    BY DEF IInv, TaskInv
  <2>2. \A a, b, c \in Int : a * (b + c) = a * b + a * c
    OBVIOUS
  <2>3. /\ 1000 * new.ppn = 1000 * task.ppn + 1000 * delta
        /\ Tdf * new.vpn = Tdf * task.vpn + Tdf * dv
        /\ Tdf * (used.reads + 1) = Tdf * used.reads + Tdf
    <3>1. Tdf * (used.reads + 1) = Tdf * used.reads + Tdf * 1
      BY <1>1, <2>2
    <3> QED
      BY <1>1, <1>3, <1>4, <1>5, <2>2, <3>1
  <2> DEFINE p == Tdf * task.vpn
             q == Tdf * dv
             z == Tdf * used.reads
  <2>4. p \in Int /\ q \in Int /\ z \in Int
    BY <1>1, <1>3, <1>4
  <2>5. /\ -Tdf < 1000 * delta - q /\ 1000 * delta - q < Tdf
        /\ -z <= 1000 * task.ppn - p /\ 1000 * task.ppn - p <= z
        /\ Tdf * new.vpn = p + q /\ Tdf * (used.reads + 1) = z + Tdf
    BY <1>4, <2>1, <2>3
  <2> HIDE DEF p, q, z
  <2> QED
    BY <1>1, <1>3, <2>3, <2>4, <2>5
<1> QED
  BY <1>5, <1>6, <1>7 DEF new, delta, dv

LEMMA FinishStep ==
  ASSUME IInv, Finish
  PROVE  IInv'
<1>1. /\ r.pc = "rest" /\ ~asleep
      /\ UNCHANGED <<age, slept, asleep, tk, shadow, last, odd, rtc, w, missed, truth>>
      /\ \/ /\ r' = [NoRead EXCEPT !.pc = "again", !.mine = r.mine]
            /\ UNCHANGED <<task, used>>
         \/ r' = NoRead /\ UNCHANGED <<task, used>>
         \/ /\ r' = NoRead /\ r.mine
            /\ task' = Timekeep(task, Real) /\ used' = [used EXCEPT !.reads = @ + 1]
  BY DEF Finish, Deliver, clockvars
<1>2. Real \in Int /\ r \in Reader
  BY UnitAssumption DEF IInv, Typed, Reader, Real
<1>3. /\ r' \in Reader /\ r'.pc \in {"idle", "again"} /\ (r'.mine => r.mine)
  <2>1. NoRead \in Reader /\ NoRead.pc = "idle" /\ ~NoRead.mine
    BY DEF Reader, NoRead
  <2>2. CASE r' = NoRead
    BY <2>1, <2>2
  <2>3. CASE r' = [NoRead EXCEPT !.pc = "again", !.mine = r.mine]
    <3>1. r.mine \in BOOLEAN
      BY <1>2 DEF Reader
    <3>2. r' = [pc |-> "again", retry |-> FALSE, sec |-> 0, tai |-> 0, ns |-> 0,
                began |-> 0, mine |-> r.mine]
      BY <2>3 DEF NoRead
    <3> QED
      BY <3>1, <3>2 DEF Reader
  <2> QED
    BY <1>1, <2>2, <2>3
<1>4. /\ used' \in [events : Nat, writes : Nat, reads : Nat]
      /\ used'.writes = used.writes
  BY <1>1, UsedFields DEF IInv, Typed
<1>5. WriterInv' /\ BootInv' /\ Running' = Running
  BY <1>1, <1>4, ReadFrame
<1>6. task' \in Task /\ task'.fsn = task.fsn /\ TaskInv'
  <2>1. CASE UNCHANGED <<task, used>>
    BY <1>1, <1>5, <2>1 DEF IInv, Typed, TypeOK, TaskInv, Frozen
  <2>2. CASE task' = Timekeep(task, Real) /\ used' = [used EXCEPT !.reads = @ + 1]
    <3>1. used'.reads = used.reads + 1 /\ used.reads \in Nat
      BY <2>2, UsedFields DEF IInv, Typed
    <3>2. /\ task' \in Task /\ task'.dilation = Tdf /\ task'.vsn = Epoch /\ task'.psn = Epoch
          /\ task'.fsn = task.fsn /\ task'.fpn = task.fpn
          /\ -(Tdf * used'.reads) < 1000 * task'.ppn - Tdf * task'.vpn
          /\ 1000 * task'.ppn - Tdf * task'.vpn < Tdf * used'.reads
      BY <1>2, <2>2, <3>1, DeliverTask
    <3>3. LET err == 1000 * task'.ppn - Tdf * task'.vpn
          IN  -(Tdf * used'.reads) <= err /\ err <= Tdf * used'.reads
      <4>1. /\ 1000 * task'.ppn - Tdf * task'.vpn \in Int /\ Tdf * used'.reads \in Int
        BY <3>1, <3>2, TdfFact DEF Task
      <4> DEFINE err == 1000 * task'.ppn - Tdf * task'.vpn
                 z == Tdf * used'.reads
      <4>2. err \in Int /\ z \in Int /\ -z < err /\ err < z
        BY <3>2, <4>1
      <4> HIDE DEF err, z
      <4>3. -z <= err /\ err <= z
        BY <4>2
      <4> QED
        BY <4>3 DEF err, z
    <3>4. missed' = task'.fpn + (IF Frozen' THEN Running' + truth'.wall - task'.fsn ELSE 0)
      BY <1>1, <1>5, <3>2 DEF IInv, TaskInv, Frozen
    <3> QED
      BY <3>2, <3>3, <3>4 DEF TaskInv
  <2> QED
    BY <1>1, <2>1, <2>2
<1>7. ReaderInv'
  BY <1>3, <1>6 DEF IInv, ReaderInv, Frozen
<1>8. Typed'
  BY <1>1, <1>3, <1>4, <1>6 DEF IInv, Typed, TypeOK
<1> QED
  BY <1>5, <1>6, <1>7, <1>8 DEF IInv

LEMMA FreezeStep ==
  ASSUME IInv, Freeze
  PROVE  IInv'
<1> DEFINE now == tk.sec * SEC + GetNs(tk)
<1>1. /\ ~asleep /\ ~odd /\ ~Frozen /\ ~r.mine
      /\ task' = FreezeTime(task, now) /\ used' = [used EXCEPT !.events = @ + 1]
      /\ UNCHANGED <<age, slept, asleep, tk, shadow, last, odd, rtc, w, r, missed, truth>>
  BY DEF Freeze, clockvars
<1>2. now = Running + truth.wall /\ now \in Int
  BY <1>1, ReadsRight, TypeFacts DEF IInv
<1> HIDE DEF now
<1>3. task.fsn = 0 /\ task \in Task
  BY <1>1 DEF Frozen, IInv, Typed, TypeOK
<1>4. task' = [task EXCEPT !.fsn = now]
  BY <1>1, <1>3 DEF FreezeTime
<1>5. /\ task' \in Task /\ task'.fsn = now /\ task'.fpn = task.fpn
      /\ task'.dilation = task.dilation /\ task'.vsn = task.vsn /\ task'.psn = task.psn
      /\ task'.ppn = task.ppn /\ task'.vpn = task.vpn /\ task.fpn \in Int
  BY <1>2, <1>3, <1>4 DEF Task
<1>6. /\ used' \in [events : Nat, writes : Nat, reads : Nat]
      /\ used'.writes = used.writes /\ used'.reads = used.reads
  BY <1>1, UsedFields DEF IInv, Typed
<1>7. WriterInv' /\ BootInv' /\ Running' = Running
  BY <1>1, <1>6, ReadFrame
<1>8. TaskInv'
  <2>1. missed = task.fpn
    BY <1>1, <1>5 DEF IInv, TaskInv
  <2>2. Running + truth.wall - now = 0
    BY <1>2, TypeFacts DEF IInv
  <2>3. missed' = task'.fpn + (IF Frozen' THEN Running' + truth'.wall - task'.fsn ELSE 0)
    BY <1>1, <1>5, <1>7, <2>1, <2>2
  <2> QED
    BY <1>5, <1>6, <2>3 DEF IInv, TaskInv
<1>9. ReaderInv'
  BY <1>1, <1>7 DEF IInv, ReaderInv, Real
<1>10. Typed'
  BY <1>1, <1>5, <1>6 DEF IInv, Typed, TypeOK
<1> QED
  BY <1>7, <1>8, <1>9, <1>10 DEF IInv

LEMMA UnfreezeStep ==
  ASSUME IInv, Unfreeze
  PROVE  IInv'
<1> DEFINE now == tk.sec * SEC + GetNs(tk)
           fpn == task.fpn + (now - task.fsn)
<1>1. /\ ~asleep /\ ~odd /\ Frozen
      /\ task' = UnfreezeTime(task, now)
      /\ UNCHANGED <<age, slept, asleep, tk, shadow, last, odd, rtc, w, r, missed, truth, used>>
  BY DEF Unfreeze, clockvars
<1>2. now = Running + truth.wall /\ now \in Int
  BY <1>1, ReadsRight, TypeFacts DEF IInv
<1> HIDE DEF now
<1>3. task.fsn # 0 /\ task \in Task /\ task.fsn \in Int /\ task.fpn \in Int /\ fpn \in Int
  BY <1>1, <1>2 DEF Frozen, IInv, Typed, TypeOK, Task
<1>4. task' = [task EXCEPT !.fpn = fpn, !.fsn = 0]
  BY <1>1, <1>3 DEF UnfreezeTime
<1> HIDE DEF fpn
<1>5. /\ task' \in Task /\ task'.fsn = 0 /\ task'.fpn = fpn
      /\ task'.dilation = task.dilation /\ task'.vsn = task.vsn /\ task'.psn = task.psn
      /\ task'.ppn = task.ppn /\ task'.vpn = task.vpn
  <2> DEFINE x == [task EXCEPT !.fpn = fpn]
  <2>1. /\ x \in Task /\ x.fpn = fpn
        /\ x.dilation = task.dilation /\ x.vsn = task.vsn /\ x.psn = task.psn
        /\ x.ppn = task.ppn /\ x.vpn = task.vpn
    BY <1>3 DEF Task
  <2>2. task' = [x EXCEPT !.fsn = 0]
    BY <1>4
  <2> HIDE DEF x
  <2> QED
    BY <2>1, <2>2 DEF Task
<1>6. WriterInv' /\ BootInv' /\ Running' = Running
  BY <1>1, ReadFrame
<1>7. TaskInv'
  <2>1. missed = task.fpn + (Running + truth.wall - task.fsn)
    BY <1>1 DEF IInv, TaskInv
  <2>2. missed = fpn + 0
    BY <1>2, <1>3, <2>1, TypeFacts DEF IInv, fpn
  <2> QED
    BY <1>1, <1>5, <2>2 DEF IInv, TaskInv, Frozen
<1>8. ReaderInv'
  BY <1>1, <1>5, <1>6 DEF IInv, ReaderInv, Real, Frozen
<1>9. Typed'
  BY <1>1, <1>5 DEF IInv, Typed, TypeOK
<1> QED
  BY <1>6, <1>7, <1>8, <1>9 DEF IInv

----------------------------------------------------------------------------
(* The theorems.                                                           *)

LEMMA InitInv == Init => IInv
<1> SUFFICES ASSUME Init PROVE IInv
  OBVIOUS
<1>1. /\ age = 0 /\ slept = 0 /\ asleep = FALSE /\ odd = FALSE /\ tk = Boot /\ shadow = Boot
      /\ last = [s \in Source |-> Skew[s]] /\ w = Unlocked /\ r = NoRead /\ missed = 0
      /\ task = InitVirtualStart(Blank, Epoch, Epoch, Tdf)
      /\ truth = [wall |-> Epoch, tai |-> 0, sleep |-> 0]
      /\ used = [events |-> 0, writes |-> 0, reads |-> 0]
  BY DEF Init
<1>2. PICK exists \in Persistent : rtc = [exists |-> exists, at |-> 0, old |-> 0, owed |-> 0]
  BY DEF Init
<1>3. /\ SEC \in Nat /\ SEC > 0 /\ Epoch \in Nat /\ Epoch > 0 /\ First \in Source
      /\ Skew \in [Source -> Nat] /\ Skew[First] \in Nat
  BY UnitAssumption, EpochAssumption, SourceAssumption
<1>4. Epoch \div SEC \in Nat /\ (Epoch \div SEC) * SEC = Epoch
  <2>1. (Epoch \div SEC) * SEC + (Epoch % SEC) = Epoch /\ Epoch \div SEC \in Nat
    BY <1>3, Divide
  <2>2. (Epoch \div SEC) * SEC \in Int
    BY <1>3, <2>1
  <2> QED
    BY <1>3, <2>1, <2>2, EpochAssumption
<1>5. /\ tk \in Keeper /\ tk.clock = First /\ tk.last = Skew[First] /\ Xtime(tk) = Epoch
      /\ Consistent(tk, truth)
  <2> DEFINE sec == Epoch \div SEC
             sk == Skew[First]
  <2>1. sec \in Nat /\ sk \in Nat /\ sec * SEC = Epoch
    BY <1>3, <1>4
  <2>2. tk = [clock |-> First, sec |-> sec, nsec |-> 0, last |-> sk,
              wtm |-> -Epoch, offsReal |-> Epoch, tai |-> 0, offsTai |-> Epoch,
              sleep |-> 0, offsBoot |-> 0]
    BY <1>1 DEF Boot
  <2> HIDE DEF sec, sk
  <2>3. tk \in Keeper
    BY <1>3, <2>1, <2>2 DEF Keeper
  <2>4. Xtime(tk) = Epoch
    BY <1>3, <2>1, <2>2 DEF Xtime
  <2>5. Consistent(tk, truth)
    BY <1>1, <1>3, <2>2 DEF Consistent
  <2> QED
    BY <2>2, <2>3, <2>4, <2>5 DEF sk
<1>6. Running = 0 /\ Cycles(First) = Skew[First] /\ Count = 0 /\ last[First] = Skew[First]
  BY <1>1, <1>3, <1>5 DEF Running, Cycles, Count
<1>7. task = [dilation |-> Tdf, vsn |-> Epoch, vpn |-> 0, psn |-> Epoch, ppn |-> 0,
              fsn |-> 0, fpn |-> 0]
  BY <1>1, TdfFact DEF InitVirtualStart
<1>8. Typed
  <2>1. task \in Task
    BY <1>3, <1>7, TdfFact DEF Task
  <2>2. w \in [todo : Todos, arg : Int, truth : [wall : Int, tai : Int, sleep : Nat]]
    BY <1>1 DEF Unlocked, Todos
  <2>3. r \in Reader
    BY <1>1 DEF NoRead, Reader
  <2>4. /\ rtc \in [exists : BOOLEAN, at : Int, old : Int, owed : Int]
        /\ rtc \in [exists : Persistent, at : Int, old : Int, owed : Int]
    BY <1>2, ChoiceAssumption
  <2>5. truth \in [wall : Int, tai : Int, sleep : Nat]
    BY <1>1, <1>3
  <2>6. used \in [events : Nat, writes : Nat, reads : Nat]
    BY <1>1
  <2>7. last \in [Source -> Nat]
    BY <1>1, <1>3
  <2> QED
    <3>1. TypeOK
      <4>1. w.arg \in Int /\ w.truth \in [wall : Int, tai : Int, sleep : Nat]
        BY <2>2
      <4>2. missed \in Int /\ {age, slept} \subseteq Nat
        BY <1>1
      <4>3. {asleep, odd} \subseteq BOOLEAN
        BY <1>1
      <4>4. shadow = tk
        BY <1>1
      <4>5. {tk, shadow} \subseteq Keeper
        BY <1>5, <4>4
      <4> QED
        BY <2>1, <2>4, <2>5, <2>7, <4>1, <4>2, <4>3, <4>5 DEF TypeOK
    <3>2. slept <= age
      BY <1>1
    <3> QED
      BY <2>2, <2>3, <2>4, <2>6, <3>1, <3>2 DEF Typed
<1>9. WriterInv
  <2>1. OnTime(truth.wall)
    BY <1>1, <1>3, <1>5, <1>6 DEF OnTime
  <2>2. Settled
    BY <1>1, <1>5, <2>1 DEF Settled
  <2>3. Phase
    BY <1>1, <2>2 DEF Phase, Unlocked
  <2> QED
    BY <1>1, <1>5, <1>6, <2>3 DEF WriterInv
<1>10. ReaderInv
  BY <1>1, <1>7 DEF ReaderInv, NoRead
<1>11. TaskInv
  BY <1>1, <1>7, TdfFact DEF TaskInv, Frozen
<1>12. BootInv
  <2>1. truth.sleep - slept = 0
    BY <1>1
  <2>2. Aim = 0
    BY <1>1, <1>2, <1>3 DEF Aim
  <2>3. Room = 0
    BY <1>1, <1>3 DEF Room
  <2>4. Bounded(0, 0, 0)
    BY <1>3 DEF Bounded, Calm
  <2> QED
    BY <1>1, <2>1, <2>2, <2>3, <2>4 DEF BootInv, Unlocked
<1> QED
  BY <1>8, <1>9, <1>10, <1>11, <1>12 DEF IInv

LEMMA StillInv == IInv /\ UNCHANGED vars => IInv'
<1> SUFFICES ASSUME IInv, UNCHANGED vars PROVE IInv'
  OBVIOUS
<1>1. UNCHANGED <<age, slept, asleep, tk, shadow, last, odd, rtc, w, r, task, missed, truth, used>>
  BY DEF vars, clockvars, procvars
<1>2. WriterInv' /\ BootInv' /\ Running' = Running
  BY <1>1, ReadFrame
<1>3. Typed'
  BY <1>1 DEF IInv, Typed, TypeOK
<1>4. ReaderInv' /\ TaskInv'
  BY <1>1, <1>2 DEF IInv, ReaderInv, TaskInv, Frozen, Real
<1> QED
  BY <1>2, <1>3, <1>4 DEF IInv

LEMMA NextInv == IInv /\ [Next]_vars => IInv'
<1> SUFFICES ASSUME IInv, [Next]_vars PROVE IInv'
  OBVIOUS
<1>1. CASE UNCHANGED vars
  BY <1>1, StillInv
<1>2. CASE Pass \/ Settimeofday \/ InjectOffset \/ RtcResume \/ SetTaiOffset
  BY <1>2, PassStep, SettimeofdayStep, InjectOffsetStep, RtcResumeStep, SetTaiOffsetStep
<1>3. CASE Forward \/ Check \/ Offset \/ Set \/ Add \/ Sub \/ Slept \/ Tai \/ End
  BY <1>3, ForwardStep, CheckStep, OffsetStep, SetStep, AddStep, SubStep, SleptStep, TaiStep,
     EndStep
<1>4. CASE TickStart \/ Copy \/ Copied \/ ChangeClocksource \/ Suspend \/ Resume
  BY <1>4, TickStartStep, CopyStep, CopiedStep, ChangeClocksourceStep, SuspendStep, ResumeStep
<1>5. CASE Begin \/ ReadNs \/ Finish \/ Freeze \/ Unfreeze
  BY <1>5, BeginStep, ReadNsStep, FinishStep, FreezeStep, UnfreezeStep
<1> QED
  BY <1>1, <1>2, <1>3, <1>4, <1>5 DEF Next

LEMMA Inductive == Spec => []IInv
<1> QED
  BY InitInv, NextInv, PTL DEF Spec

\* However often the system is suspended and its clock set, the boot clock
\* stays near physical time: __timekeeping_inject_sleeptime, and old_delta in
\* timekeeping_suspend.
THEOREM AlwaysBootClockKept == Spec => []BootClockKept
<1>1. IInv => BootClockKept
  <2> SUFFICES ASSUME IInv PROVE BootClockKept
    OBVIOUS
  <2>1. TypeOK
    BY DEF IInv, Typed
  <2>2. ASSUME ~asleep, rtc.exists
        PROVE  Abs(truth.sleep - slept) < SEC * (1 + 3 * used.writes)
    <3> DEFINE e == truth.sleep - slept
    <3>1. 1 - SEC - Room <= e /\ e <= Room
      BY <2>2 DEF IInv, BootInv, Bounded
    <3>2. e \in Int /\ Room \in Int /\ SEC \in Nat /\ SEC > 0 /\ used.writes \in Nat
      BY TypeFacts, RoomType DEF IInv, Typed
    <3>3. \A a, b \in Nat : a * (1 + 3 * b) = a + a * (3 * b)
      OBVIOUS
    <3>4. SEC * (1 + 3 * used.writes) = SEC + Room
      BY <3>2, <3>3 DEF Room
    <3> HIDE DEF e
    <3>5. Abs(e) < SEC + Room
      BY <3>1, <3>2 DEF Abs, Max2
    <3> QED
      BY <3>4, <3>5 DEF e
  <2> QED
    BY <2>1, <2>2 DEF BootClockKept
<1> QED
  BY <1>1, Inductive, PTL

\* Only read_seqcount_retry lets a reader go, and only one that missed nothing.
LEMMA ReturnsFacts ==
  ASSUME IInv, [Next]_vars, Returns
  PROVE  /\ r.pc = "rest" /\ r.sec = tk.sec /\ r.tai = tk.tai
         /\ Consistent(tk, truth)
         /\ r.began \in Int /\ Real \in Int /\ Running \in Int
         /\ r.began <= Real - truth.wall /\ Real - truth.wall <= Running
         /\ r.mine => ~Frozen
<1>1. r \in Reader /\ r.pc = "rest" /\ r'.pc = "idle"
  BY DEF Returns, IInv, Typed
<1>2. ~(\E retry \in BOOLEAN : r' = [r EXCEPT !.retry = retry])
  BY <1>1 DEF Reader
<1>3. r' # r
  BY <1>1
<1>4. ~Open /\ ~Noticed
  BY <1>2 DEF Open, Noticed
<1>5. ~(UNCHANGED vars) /\ ~Pass
  BY <1>3 DEF vars, Pass
<1>6. ~Settimeofday /\ ~InjectOffset /\ ~RtcResume /\ ~SetTaiOffset
  BY <1>4 DEF Settimeofday, InjectOffset, RtcResume, SetTaiOffset, Lock
<1>7. ~Forward /\ ~Check /\ ~Offset /\ ~Set /\ ~Add /\ ~Sub /\ ~Slept /\ ~Tai /\ ~End
  BY <1>3 DEF Forward, Check, Offset, Set, Add, Sub, Slept, Tai, Write, End
<1>8. ~TickStart /\ ~Copy /\ ~Copied
  BY <1>3, <1>4 DEF TickStart, Copy, Copied
<1>9. ~ChangeClocksource /\ ~Suspend /\ ~Resume
  BY <1>4 DEF ChangeClocksource, Suspend, Resume
<1>10. ~Begin /\ ~ReadNs
  BY <1>1 DEF Begin, ReadNs
<1>11. ~Freeze /\ ~Unfreeze
  BY <1>3 DEF Freeze, Unfreeze
<1>12. Finish
  BY <1>5, <1>6, <1>7, <1>8, <1>9, <1>10, <1>11 DEF Next
<1>13. ~r.retry
  <2>1. ASSUME r.retry
        PROVE  FALSE
    <3>1. r' = [NoRead EXCEPT !.pc = "again", !.mine = r.mine]
      BY <1>12, <2>1 DEF Finish
    <3>2. r'.pc = "again"
      BY <3>1 DEF NoRead
    <3> QED
      BY <1>1, <3>2
  <2> QED
    BY <2>1
<1>14. /\ ~odd /\ r.sec = tk.sec /\ r.tai = tk.tai
       /\ r.began <= Real - truth.wall /\ Real - truth.wall <= Running
       /\ r.mine => ~Frozen
  BY <1>1, <1>13 DEF IInv, ReaderInv
<1>15. Consistent(tk, truth)
  BY <1>14, PhaseEven DEF IInv, WriterInv, Settled
<1>16. r.began \in Int /\ Real \in Int /\ Running \in Int
  BY <1>1, TypeFacts DEF IInv, Reader, Real
<1> QED
  BY <1>1, <1>14, <1>15, <1>16

\* Whatever it meets, a read of a system clock and of an hrtimer base returns
\* what that clock said during the last turn of its loop: timekeeper_seq.
THEOREM AlwaysSystemReads == Spec => SystemReads
<1>1. ASSUME IInv, [Next]_vars, Returns
      PROVE  \A c \in DOMAIN SystemTruth :
               /\ Within(SystemResult[c] - SystemTruth[c])
               /\ Within(BaseResult[c] - SystemTruth[c])
  <2>1. /\ Consistent(tk, truth) /\ r.tai = tk.tai
        /\ r.began \in Int /\ Real \in Int /\ Running \in Int
        /\ r.began <= Real - truth.wall /\ Real - truth.wall <= Running
    BY <1>1, ReturnsFacts
  <2>2. truth.wall \in Int /\ truth.tai \in Int /\ truth.sleep \in Int /\ SEC \in Int
    BY <1>1, TypeFacts DEF IInv
  <2> DEFINE ahead == truth.tai * SEC
             err == Real - truth.wall - Running
  <2>3. ahead \in Int /\ err \in Int
    BY <2>1, <2>2
  <2>4. Within(err)
    BY <2>1, <2>2 DEF Within
  <2>5. /\ tk.wtm = -truth.wall /\ tk.sleep = truth.sleep /\ r.tai = truth.tai
        /\ tk.offsReal = truth.wall /\ tk.offsTai = truth.wall + ahead
        /\ tk.offsBoot = truth.sleep
    BY <2>1 DEF Consistent
  <2>6. SystemTruth = [real |-> Running + truth.wall, mono |-> Running,
                       tai |-> Running + truth.wall + ahead, boot |-> Running + truth.sleep]
    BY DEF SystemTruth
  <2>7. SystemResult = [real |-> Real, mono |-> Real + tk.wtm, tai |-> Real + ahead,
                        boot |-> Real + tk.wtm + tk.sleep]
    BY <2>5 DEF SystemResult, Mono, Boottime, ClockTai
  <2>8. BaseResult = [real |-> Real, mono |-> Real - tk.offsReal,
                      tai |-> Real - tk.offsReal + tk.offsTai,
                      boot |-> Real - tk.offsReal + tk.offsBoot]
    BY DEF BaseResult
  <2> HIDE DEF ahead
  <2> SUFFICES ASSUME NEW c \in {"real", "mono", "tai", "boot"}
               PROVE  SystemResult[c] - SystemTruth[c] = err /\ BaseResult[c] - SystemTruth[c] = err
    BY <2>4, <2>6
  <2>9. CASE c = "real"
    BY <2>1, <2>2, <2>3, <2>6, <2>7, <2>8, <2>9
  <2>10. CASE c = "mono"
    BY <2>1, <2>2, <2>3, <2>5, <2>6, <2>7, <2>8, <2>10
  <2>11. CASE c = "tai"
    BY <2>1, <2>2, <2>3, <2>5, <2>6, <2>7, <2>8, <2>11
  <2>12. CASE c = "boot"
    BY <2>1, <2>2, <2>3, <2>5, <2>6, <2>7, <2>8, <2>12
  <2> QED
    BY <2>9, <2>10, <2>11, <2>12
<1>2. IInv /\ [Next]_vars =>
        [Returns => \A c \in DOMAIN SystemTruth :
                      /\ Within(SystemResult[c] - SystemTruth[c])
                      /\ Within(BaseResult[c] - SystemTruth[c])]_vars
  BY <1>1
<1> QED
  BY <1>2, Inductive, PTL DEF Spec, SystemReads

\* The virtual clocks are the real time the process was not frozen in, at its
\* factor, and no freeze, tick or set of the clock makes them anything else:
\* real_virtual_timekeeping over the same sequence number.
THEOREM AlwaysVirtualReads == Spec => VirtualReads
<1>1. ASSUME IInv, [Next]_vars, Returns, r.mine, NEW c \in DOMAIN VirtualStart
      PROVE  LET err  == Tdf * (VirtualResult[c] - VirtualStart[c]) - 1000 * Elapsed
                 lost == Tdf * (1 + used.reads)
             IN  -1000 * (Running - r.began) - lost < err /\ err < lost
  <2>1. /\ tk.wtm = -truth.wall /\ ~Frozen
        /\ r.began \in Int /\ Real \in Int /\ Running \in Int /\ truth.wall \in Int
        /\ r.began <= Real - truth.wall /\ Real - truth.wall <= Running
    BY <1>1, ReturnsFacts, TypeFacts DEF IInv, Consistent
  <2>2. /\ task \in Task /\ task.psn = Epoch /\ missed = task.fpn /\ missed \in Int
        /\ Epoch \in Int /\ used.reads \in Nat
    <3>1. task \in Task /\ missed \in Int /\ used.reads \in Nat
      BY <1>1 DEF IInv, Typed, TypeOK
    <3>2. task.psn = Epoch /\ missed = task.fpn + 0
      BY <1>1, <2>1 DEF IInv, TaskInv
    <3>3. task.fpn \in Int
      BY <3>1 DEF Task
    <3> QED
      BY <3>1, <3>2, <3>3, EpochAssumption
  <2> DEFINE new == Timekeep(task, Real)
             n == used.reads + 1
             lost == Tdf * n
             run == Tdf * new.vpn
             late == Real - truth.wall - Running
  <2>3. /\ new \in Task /\ new.ppn = task.ppn + DeltaPpn(task, Real)
        /\ -lost < 1000 * new.ppn - run /\ 1000 * new.ppn - run < lost
        /\ Reading(task, Real) = Epoch + new.vpn
    BY <1>1, <2>1, DeliverTask
  <2>4. new.vpn \in Int /\ new.ppn \in Int /\ run \in Int /\ lost \in Int /\ late \in Int
    BY <2>1, <2>2, <2>3, TdfFact DEF Task
  <2> HIDE DEF new
  <2>5. VirtualResult[c] - VirtualStart[c] = new.vpn
    <3>1. VirtualResult = [real |-> Epoch + new.vpn, mono |-> Epoch + new.vpn + tk.wtm]
      BY <2>3 DEF VirtualResult
    <3>2. VirtualStart = [real |-> Epoch, mono |-> Epoch - truth.wall]
      BY DEF VirtualStart
    <3>3. CASE c = "real"
      BY <2>2, <2>4, <3>1, <3>2, <3>3
    <3>4. CASE c = "mono"
      BY <2>1, <2>2, <2>4, <3>1, <3>2, <3>4
    <3> QED
      BY <1>1, <3>2, <3>3, <3>4
  <2>6. new.ppn = Elapsed + late
    <3>1. new.ppn = Real - Epoch - task.fpn
      BY <2>1, <2>2, <2>3 DEF DeltaPpn, Task
    <3> QED
      BY <2>1, <2>2, <3>1 DEF Elapsed
  <2>7. Elapsed \in Int
    BY <2>1, <2>2 DEF Elapsed
  <2>8. -(Running - r.began) <= late /\ late <= 0
    BY <2>1
  <2>9. lost = Tdf * (1 + used.reads)
    BY <2>2
  <2> HIDE DEF lost, run, late
  <2>10. -1000 * (Running - r.began) - lost < run - 1000 * Elapsed /\ run - 1000 * Elapsed < lost
    BY <2>1, <2>3, <2>4, <2>6, <2>7, <2>8
  <2> QED
    BY <2>5, <2>9, <2>10 DEF run
<1>2. IInv /\ [Next]_vars =>
        [(Returns /\ r.mine) =>
           \A c \in DOMAIN VirtualStart :
             LET err  == Tdf * (VirtualResult[c] - VirtualStart[c]) - 1000 * Elapsed
                 lost == Tdf * (1 + used.reads)
             IN  -1000 * (Running - r.began) - lost < err /\ err < lost]_vars
  BY <1>1
<1> QED
  BY <1>2, Inductive, PTL DEF Spec, VirtualReads

=============================================================================

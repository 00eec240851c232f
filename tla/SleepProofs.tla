---------------------------- MODULE SleepProofs ----------------------------
(***************************************************************************)
(* Theorems about Sleep, for any number of CPUs and tasks, all requests,   *)
(* dilations and bounds.  The inductive invariant says what a task, its    *)
(* timer and its call owe each other (Sounds) and what a CPU knows of its  *)
(* queues (Readies): in the timer interrupt, the first timer of the clocks *)
(* it has been through; outside of it, the first of all, for which its     *)
(* event device is armed.  Earliest is never computed: EarliestIs says     *)
(* that it is a time to wake by, and the last one.                         *)
(***************************************************************************)
EXTENDS Sleep, WellFoundedInduction, TLAPS

----------------------------------------------------------------------------
(* The first of several times.                                             *)

LEMMA NatMinimum ==
  ASSUME NEW S, S \subseteq Nat, S # {}
  PROVE  \E x \in S : \A y \in S : x <= y
<1> DEFINE R == OpToRel(<, Nat)
<1>1. IsWellFoundedOn(R, Nat)
  BY NatLessThanWellFounded
<1>2. \A x, y \in Nat : x < y => <<x, y>> \in R
  BY DEF OpToRel
<1> HIDE DEF R
<1>3. PICK x \in S : \A y \in S : ~(<<y, x>> \in R)
  BY <1>1, WFMin
<1>4. ASSUME NEW y \in S PROVE x <= y
  <2>1. x \in Nat /\ y \in Nat
    OBVIOUS
  <2>2. ~(y < x)
    BY <1>2, <1>3, <2>1, Zenon
  <2> QED
    BY <2>1, <2>2
<1> QED
  BY <1>4

LEMMA MinIs ==
  ASSUME NEW S, S \subseteq Nat, S # {}
  PROVE  Min(S) \in S /\ \A y \in S : Min(S) <= y
BY NatMinimum DEF Min

LEMMA MinOfTwo ==
  ASSUME NEW a \in Int, NEW b \in Int
  PROVE  Min({a, b}) = IF a <= b THEN a ELSE b
<1>1. \E x \in {a, b} : \A y \in {a, b} : x <= y
  OBVIOUS
<1>2. Min({a, b}) \in {a, b} /\ \A y \in {a, b} : Min({a, b}) <= y
  BY <1>1 DEF Min
<1> QED
  BY <1>2

LEMMA MaxOfTwo ==
  ASSUME NEW a \in Int, NEW b \in Int
  PROVE  Max({a, b}) = IF a >= b THEN a ELSE b
<1>1. \E x \in {a, b} : \A y \in {a, b} : x >= y
  OBVIOUS
<1>2. Max({a, b}) \in {a, b} /\ \A y \in {a, b} : Max({a, b}) >= y
  BY <1>1 DEF Max
<1> QED
  BY <1>2

LEMMA ForeverFact == Forever \in Nat
BY DEF Forever

\* When, on CPU s, timer x expires by the monotonic clock.
At(s, x) == x.exp - (IF x.clock = Real THEN s.off ELSE 0)

\* The same, no earlier than zero.
Falls(s, x) == Max({0, At(s, x)})

LEMMA FallsIs ==
  ASSUME NEW s, s.off \in Int, NEW x \in TimerState
  PROVE  /\ At(s, x) \in Int /\ Falls(s, x) \in Nat
         /\ Falls(s, x) = IF At(s, x) <= 0 THEN 0 ELSE At(s, x)
<1>1. At(s, x) \in Int
  BY DEF At, TimerState
<1>2. Max({0, At(s, x)}) = IF 0 >= At(s, x) THEN 0 ELSE At(s, x)
  BY <1>1, MaxOfTwo
<1> QED
  BY <1>1, <1>2 DEF Falls

\* Earliest is a time to wake by, and the last one.
LEMMA EarliestIs ==
  ASSUME timer \in [Task -> TimerState], NEW s, s.off \in Int, NEW T, T \subseteq Task
  PROVE  LET e == Earliest(s, T) IN
         /\ e \in 0 .. Forever
         /\ \A t \in T : e <= 0 \/ e <= At(s, timer[t])
         /\ \A n \in Int : n <= Forever /\ (\A t \in T : n <= 0 \/ n <= At(s, timer[t]))
                             => n <= e
<1> DEFINE S == {Forever} \cup {Falls(s, timer[t]) : t \in T}
           e == Earliest(s, T)
<1>1. e = Min(S)
  BY DEF Earliest, At, Falls
<1>2. ASSUME NEW t \in T
      PROVE  /\ At(s, timer[t]) \in Int /\ Falls(s, timer[t]) \in Nat
             /\ Falls(s, timer[t]) = IF At(s, timer[t]) <= 0 THEN 0 ELSE At(s, timer[t])
  <2>1. timer[t] \in TimerState
    OBVIOUS
  <2> QED
    BY <2>1, FallsIs
<1>3. Forever \in Nat
  BY ForeverFact
<1>4. S \subseteq Nat /\ S # {}
  BY <1>2, <1>3, Zenon
<1>5. Forever \in S /\ (\A t \in T : Falls(s, timer[t]) \in S)
      /\ \A y \in S : y = Forever \/ \E t \in T : y = Falls(s, timer[t])
  BY Zenon
<1> HIDE DEF S
<1>6. e \in S /\ \A y \in S : e <= y
  BY <1>1, <1>4, MinIs, ZenonT(60)
<1> HIDE DEF e
<1>7. e \in Nat /\ e <= Forever
  BY <1>4, <1>5, <1>6
<1>8. ASSUME NEW t \in T PROVE e <= 0 \/ e <= At(s, timer[t])
  <2>1. e <= Falls(s, timer[t])
    BY <1>5, <1>6
  <2> QED
    BY <1>2, <1>7, <2>1
<1>9. ASSUME NEW n \in Int, n <= Forever,
             \A t \in T : n <= 0 \/ n <= At(s, timer[t])
      PROVE  n <= e
  <2>1. CASE e = Forever
    BY <1>9, <2>1
  <2>2. CASE e # Forever
    <3>1. PICK t \in T : e = Falls(s, timer[t])
      BY <1>5, <1>6, <2>2
    <3>2. n <= 0 \/ n <= At(s, timer[t])
      BY <1>9
    <3> QED
      BY <1>2, <1>7, <3>1, <3>2
  <2> QED
    BY <2>1, <2>2
<1>10. e \in 0 .. Forever
  BY <1>7, <1>3
<1> QED
  BY <1>8, <1>9, <1>10 DEF e

----------------------------------------------------------------------------
(* The event device.                                                       *)

\* All that programming an event device leaves alone.
SameBut(s, u) == /\ u \in CpuState
                 /\ u.online = s.online /\ u.off = s.off /\ u.hang = s.hang
                 /\ u.ipi = s.ipi /\ u.irq = s.irq

LEMMA ProgramIs ==
  ASSUME now \in Nat, NEW s \in CpuState, NEW e \in 0 .. Forever
  PROVE  LET u == Program([s EXCEPT !.next = e], e) IN
         /\ SameBut(s, u) /\ u.softirq = s.softirq /\ u.next = e
         /\ u.dev = IF now >= e THEN now ELSE e
<1> DEFINE d == Max({now, e})
           u == Program([s EXCEPT !.next = e], e)
<1>1. d = (IF now >= e THEN now ELSE e) /\ d \in Nat
  BY MaxOfTwo
<1>2. u = [[s EXCEPT !.next = e] EXCEPT !.dev = d]
  BY DEF Program
<1> HIDE DEF d, u
<1>3. u = [online |-> s.online, off |-> s.off, next |-> e, dev |-> d, hang |-> s.hang,
           softirq |-> s.softirq, ipi |-> s.ipi, irq |-> s.irq]
  BY <1>2 DEF CpuState
<1>4. /\ SameBut(s, u) /\ u.softirq = s.softirq /\ u.next = e /\ u.dev = d
  BY <1>1, <1>3 DEF CpuState, SameBut
<1> QED
  BY <1>1, <1>4 DEF u

\* What a CPU may be after it.
Forced(s, u, e) == /\ SameBut(s, u) /\ u.softirq = s.softirq /\ u.next = e
                   /\ s.hang \/ e = Forever \/ u.dev = IF now >= e THEN now ELSE e

LEMMA ForceReprogramIs ==
  ASSUME now \in Nat, NEW s \in CpuState, NEW e \in 0 .. Forever
  PROVE  /\ Forced(s, ForceReprogram(s, e, FALSE), e)
         /\ Forced(s, ForceReprogram(s, e, TRUE), e)
            \/ (ForceReprogram(s, e, TRUE) = s /\ e = s.next)
<1> DEFINE u == IF s.hang \/ e = Forever THEN [s EXCEPT !.next = e]
                ELSE Program([s EXCEPT !.next = e], e)
<1>1. Forced(s, u, e)
  <2>1. CASE s.hang \/ e = Forever
    <3>1. u = [s EXCEPT !.next = e]
      BY <2>1
    <3> HIDE DEF u
    <3>2. SameBut(s, u) /\ u.softirq = s.softirq /\ u.next = e
      BY <3>1 DEF SameBut, CpuState
    <3> QED
      BY <2>1, <3>2 DEF Forced
  <2>2. CASE ~(s.hang \/ e = Forever)
    <3>1. u = Program([s EXCEPT !.next = e], e)
      BY <2>2
    <3> HIDE DEF u
    <3>2. /\ SameBut(s, u) /\ u.softirq = s.softirq /\ u.next = e
          /\ u.dev = IF now >= e THEN now ELSE e
      BY <3>1, ProgramIs
    <3> QED
      BY <3>2 DEF Forced
  <2> QED
    BY <2>1, <2>2
<1>2. ForceReprogram(s, e, FALSE) = u
  BY DEF ForceReprogram
<1>3. ForceReprogram(s, e, TRUE) = IF e = s.next THEN s ELSE u
  BY DEF ForceReprogram
<1> HIDE DEF u
<1> QED
  BY <1>1, <1>2, <1>3

\* A timer that expires at e has been put on the CPU's own queue.
LEMMA ReprogramIs ==
  ASSUME now \in Nat, NEW s \in CpuState, NEW e \in Int
  PROVE  LET u == Reprogram(s, e) IN
         /\ SameBut(s, u)
         /\ \/ u = s /\ (s.hang \/ s.next <= e)
            \/ u.softirq /\ u.next = s.next /\ u.dev = s.dev
            \/ /\ e >= 0 /\ e < s.next /\ u.softirq = s.softirq /\ u.next = e
               /\ u.dev = e
<1> DEFINE u == Reprogram(s, e)
<1>0. s.next \in 0 .. Forever
  BY DEF CpuState
<1>1. CASE e < 0 \/ (~(e >= s.next \/ s.hang) /\ Late(e))
  <2>1. u = [s EXCEPT !.softirq = TRUE]
    BY <1>1 DEF Reprogram
  <2> HIDE DEF u
  <2>2. SameBut(s, u) /\ u.softirq /\ u.next = s.next /\ u.dev = s.dev
    BY <2>1 DEF SameBut, CpuState
  <2> QED
    BY <2>2 DEF u
<1>2. CASE ~(e < 0) /\ (e >= s.next \/ s.hang)
  <2>1. u = s
    BY <1>2 DEF Reprogram
  <2> QED
    BY <1>0, <1>2, <2>1 DEF SameBut
<1>3. CASE ~(e < 0) /\ ~(e >= s.next \/ s.hang) /\ ~Late(e)
  <2>1. u = Program([s EXCEPT !.next = e], e)
    BY <1>3 DEF Reprogram
  <2>2. e \in 0 .. Forever /\ e < s.next /\ ~(e <= now)
    BY <1>0, <1>3, ForeverFact DEF Late
  <2>3. /\ SameBut(s, u) /\ u.softirq = s.softirq /\ u.next = e
        /\ u.dev = IF now >= e THEN now ELSE e
    BY <2>1, <2>2, ProgramIs
  <2> HIDE DEF u
  <2> QED
    BY <2>2, <2>3 DEF u
<1> QED
  BY <1>1, <1>2, <1>3


----------------------------------------------------------------------------
(* The inductive invariant.                                                *)

Types == /\ now \in 0 .. Span /\ offset \in Int /\ {calls, events} \subseteq Nat
         /\ cpu \in [CPU -> CpuState] /\ timer \in [Task -> TimerState]
         /\ task \in [Task -> TaskState] /\ begun \in [Task -> [at : Nat, req : Nat]]

\* When the nanosleep that b records may end.
End(t, b) == b.at + Dilated(b.req, Dilation[t])

\* Of a task a, its timer x and its call b: the timer is only in use while the
\* task is in the sleep, and a nanosleep's timer does not run before the end.
Sound(t, a, x, b, clk, online) ==
  /\ x.soft <= x.exp
  /\ a.pc # "user" => a.cpu \in online
  /\ x.queued \/ x.running => a.pc \in {"started", "cancel"}
  /\ a.pc # "user" /\ a.call = "nanosleep" =>
       x.clock = Mono /\ End(t, b) <= x.soft /\ (a.set \/ End(t, b) <= clk)

\* No timer of tm that waits on CPU c for one of the clocks expires before n.
Ahead(c, s, tm, n, clocks) ==
  \A u \in Task : tm[u].queued /\ tm[u].cpu = c /\ tm[u].clock \in clocks
                    => n <= 0 \/ n <= At(s, tm[u])

\* The interrupt knows the first timer of the clocks it has been through.
Handling(c, s, tm, clk) ==
  s.irq # Idle => /\ s.irq.now <= clk /\ s.irq.entry <= clk /\ s.next = Forever
                  /\ Ahead(c, s, tm, s.irq.next, 0 .. s.irq.k - 1)

\* Outside of it the CPU knows the first timer of all, and has armed the event
\* device for it.
Armed(c, s, tm, clk) ==
  s.online /\ s.irq = Idle /\ ~s.softirq /\ ~s.ipi /\ ~s.hang =>
    Ahead(c, s, tm, s.next, Clocks) /\ (s.next = Forever \/ s.dev <= clk \/ s.dev <= s.next)

InStep(s, off) == s.online /\ ~s.ipi => s.off = off

Ready(c, s, tm, clk, off) == Handling(c, s, tm, clk) /\ Armed(c, s, tm, clk) /\ InStep(s, off)

Sounds == \A t \in Task : Sound(t, task[t], timer[t], begun[t], now, Online)
Readies == \A c \in CPU : Ready(c, cpu[c], timer, now, offset)

IInv == Types /\ Sounds /\ Readies

\* What a queue gives up, and time that passes, disturb neither.
LEMMA ReadyKept ==
  ASSUME NEW c \in CPU, NEW s \in CpuState, NEW tm \in [Task -> TimerState],
         NEW um \in [Task -> TimerState], NEW clk \in Int, NEW new \in Int, clk <= new,
         NEW off \in Int, Ready(c, s, tm, clk, off),
         \A u \in Task : um[u].queued /\ um[u].cpu = c =>
            /\ tm[u].queued /\ tm[u].cpu = c
            /\ um[u].clock = tm[u].clock /\ um[u].exp = tm[u].exp
  PROVE  Ready(c, s, um, new, off)
<1>1. ASSUME NEW n, NEW clocks, Ahead(c, s, tm, n, clocks)
      PROVE  Ahead(c, s, um, n, clocks)
  BY <1>1 DEF Ahead, At
<1>2. Handling(c, s, um, new)
  <2>1. SUFFICES ASSUME s.irq # Idle
                 PROVE  /\ s.irq.now <= new /\ s.irq.entry <= new /\ s.next = Forever
                        /\ Ahead(c, s, um, s.irq.next, 0 .. s.irq.k - 1)
    BY DEF Handling
  <2>2. /\ s.irq.now <= clk /\ s.irq.entry <= clk /\ s.next = Forever
        /\ Ahead(c, s, tm, s.irq.next, 0 .. s.irq.k - 1)
    BY <2>1 DEF Ready, Handling
  <2>3. s.irq.now \in Int /\ s.irq.entry \in Int
    BY <2>1 DEF CpuState, IrqState
  <2> QED
    BY <1>1, <2>2, <2>3
<1>3. Armed(c, s, um, new)
  <2>1. SUFFICES ASSUME s.online /\ s.irq = Idle /\ ~s.softirq /\ ~s.ipi /\ ~s.hang
                 PROVE  /\ Ahead(c, s, um, s.next, Clocks)
                        /\ s.next = Forever \/ s.dev <= new \/ s.dev <= s.next
    BY DEF Armed
  <2>2. /\ Ahead(c, s, tm, s.next, Clocks)
        /\ s.next = Forever \/ s.dev <= clk \/ s.dev <= s.next
    BY <2>1 DEF Ready, Armed
  <2>3. s.dev \in Int
    BY DEF CpuState
  <2> QED
    BY <1>1, <2>2, <2>3
<1> QED
  BY <1>2, <1>3 DEF Ready

LEMMA DilatedIs ==
  ASSUME NEW req \in Nat, NEW tdf \in Nat
  PROVE  /\ Dilated(req, tdf) \in Nat
         /\ LET d == IF tdf > 0 THEN tdf ELSE 1000
            IN  1000 * Dilated(req, tdf) > d * req - 1000
<1>1. CASE tdf > 0
  <2> DEFINE p == req * tdf
  <2>1. p \in Nat /\ tdf * req = p
    OBVIOUS
  <2>2. Dilated(req, tdf) = p \div 1000
    BY <1>1 DEF Dilated
  <2> HIDE DEF p
  <2>3. p \div 1000 \in Nat /\ 1000 * (p \div 1000) > p - 1000
    BY <2>1
  <2> QED
    BY <1>1, <2>1, <2>2, <2>3
<1>2. CASE ~(tdf > 0)
  BY <1>2 DEF Dilated
<1> QED
  BY <1>1, <1>2

LEMMA EndIs ==
  ASSUME SleepAssumption, NEW t \in Task, NEW b \in [at : Nat, req : Nat]
  PROVE  End(t, b) \in Nat
<1>1. b.at \in Nat /\ b.req \in Nat /\ Dilation[t] \in Nat
  BY DEF SleepAssumption
<1>2. Dilated(b.req, Dilation[t]) \in Nat
  BY <1>1, DilatedIs
<1> QED
  BY <1>1, <1>2 DEF End

\* A task that a step leaves alone stays as it was.
LEMMA SoundKept ==
  ASSUME SleepAssumption, NEW t \in Task, NEW a \in TaskState, NEW x \in TimerState,
         NEW b \in [at : Nat, req : Nat], NEW clk \in Int, NEW new \in Int, clk <= new,
         NEW o, NEW n, o \subseteq n, Sound(t, a, x, b, clk, o)
  PROVE  Sound(t, a, x, b, new, n)
<1>1. End(t, b) \in Nat
  BY EndIs
<1> QED
  BY <1>1 DEF Sound

----------------------------------------------------------------------------
(* Starting a timer.                                                       *)

\* The timer x is put at the end of what CPU c has.
LEMMA ArmedBehind ==
  ASSUME NEW c \in CPU, NEW s \in CpuState, NEW tm \in [Task -> TimerState],
         NEW um \in [Task -> TimerState], NEW clk \in Int, NEW off \in Int, NEW t \in Task,
         Ready(c, s, tm, clk, off), s.hang \/ s.next <= 0 \/ s.next <= At(s, um[t]),
         \A u \in Task \ {t} : um[u] = tm[u]
  PROVE  Armed(c, s, um, clk)
<1>1. SUFFICES ASSUME s.online /\ s.irq = Idle /\ ~s.softirq /\ ~s.ipi /\ ~s.hang
               PROVE  /\ Ahead(c, s, um, s.next, Clocks)
                      /\ s.next = Forever \/ s.dev <= clk \/ s.dev <= s.next
  BY DEF Armed
<1>2. /\ Ahead(c, s, tm, s.next, Clocks)
      /\ s.next = Forever \/ s.dev <= clk \/ s.dev <= s.next
  BY <1>1 DEF Ready, Armed
<1>3. ASSUME NEW u \in Task, um[u].queued, um[u].cpu = c, um[u].clock \in Clocks
      PROVE  s.next <= 0 \/ s.next <= At(s, um[u])
  <2>1. CASE u = t
    BY <1>1, <2>1
  <2>2. CASE u # t
    BY <1>2, <1>3, <2>2 DEF Ahead
  <2> QED
    BY <2>1, <2>2
<1> QED
  BY <1>2, <1>3 DEF Ahead

\* A CPU in the interrupt has no timer put on its queues by others that
\* expires before those it has seen.
LEMMA HandlingBehind ==
  ASSUME NEW c \in CPU, NEW s \in CpuState, NEW tm \in [Task -> TimerState],
         NEW um \in [Task -> TimerState], NEW clk \in Int, NEW off \in Int, NEW t \in Task,
         Ready(c, s, tm, clk, off), s.irq = Idle \/ s.next <= At(s, um[t]),
         \A u \in Task \ {t} : um[u] = tm[u]
  PROVE  Handling(c, s, um, clk)
<1>1. SUFFICES ASSUME s.irq # Idle
               PROVE  /\ s.irq.now <= clk /\ s.irq.entry <= clk /\ s.next = Forever
                      /\ Ahead(c, s, um, s.irq.next, 0 .. s.irq.k - 1)
  BY DEF Handling
<1>2. /\ s.irq.now <= clk /\ s.irq.entry <= clk /\ s.next = Forever
      /\ Ahead(c, s, tm, s.irq.next, 0 .. s.irq.k - 1)
  BY <1>1 DEF Ready, Handling
<1>3. s.irq.next \in 0 .. Forever /\ s.off \in Int /\ um[t] \in TimerState
  BY <1>1 DEF CpuState, IrqState
<1>4. At(s, um[t]) \in Int
  BY <1>3, FallsIs
<1>5. ASSUME NEW u \in Task, um[u].queued, um[u].cpu = c, um[u].clock \in 0 .. s.irq.k - 1
      PROVE  s.irq.next <= 0 \/ s.irq.next <= At(s, um[u])
  <2>1. CASE u = t
    <3>1. s.next = Forever /\ s.next <= At(s, um[u])
      BY <1>1, <1>2, <2>1
    <3>2. s.irq.next \in Int /\ s.irq.next <= Forever /\ Forever \in Int
      <4>1. s.irq.next \in 0 .. Forever /\ Forever \in Int
        BY <1>3, ForeverFact
      <4> QED
        BY <4>1
    <3> QED
      BY <1>4, <2>1, <3>1, <3>2
  <2>2. CASE u # t
    BY <1>2, <1>5, <2>2 DEF Ahead
  <2> QED
    BY <2>1, <2>2
<1> QED
  BY <1>2, <1>5 DEF Ahead

LEMMA Starts ==
  ASSUME SleepAssumption, IInv, NEW t \in Task, NEW c \in Online, NEW to \in Online,
         cpu[c].irq = Idle, ~timer[t].queued, NEW clock \in Clocks,
         NEW soft \in Int, NEW exp \in Int, Start(t, c, to, clock, soft, exp)
  PROVE  /\ cpu' \in [CPU -> CpuState] /\ timer' \in [Task -> TimerState]
         /\ Online \subseteq {d \in CPU : cpu'[d].online}
         /\ \A u \in Task \ {t} : timer'[u] = timer[u]
         /\ timer'[t].clock = clock /\ timer'[t].soft = soft /\ timer'[t].exp = exp
         /\ \A d \in CPU : Ready(d, cpu'[d], timer', now, offset)
<1> DEFINE place == Target(c, to, clock, exp)
           leftmost == \A u \in Queue(place, clock) : exp < timer[u].exp
           e == exp - Off(c, clock)
           x == [cpu |-> place, clock |-> clock, soft |-> soft, exp |-> exp,
                 queued |-> TRUE, running |-> timer[t].running]
<1>1. /\ now \in Nat /\ offset \in Int /\ cpu \in [CPU -> CpuState]
      /\ timer \in [Task -> TimerState]
  BY DEF IInv, Types
<1>2. place \in Online /\ c \in CPU /\ to \in CPU /\ Online \subseteq CPU /\ place \in CPU
  BY DEF Target, Online
<1>3. timer' = [timer EXCEPT ![t] = x]
      /\ cpu' = IF leftmost /\ place = c THEN [cpu EXCEPT ![c] = Reprogram(@, e)] ELSE cpu
  BY DEF Start
<1>5. place = c \/ (place # c /\ cpu[place].next < exp - Off(place, clock))
  <2>1. cpu[place] \in CpuState
    BY <1>1, <1>2
  <2>2. cpu[place].next \in Int /\ cpu[place].off \in Int
    BY <2>1, ForeverFact DEF CpuState
  <2>3. Off(place, clock) \in Int
    BY <2>2 DEF Off
  <2>4. CASE place = c
    BY <2>4
  <2>5. CASE place # c
    <3>1. place = to /\ ~(exp - Off(to, clock) <= cpu[to].next)
      BY <2>5 DEF Target
    <3> QED
      BY <2>2, <2>3, <2>5, <3>1
  <2> QED
    BY <2>4, <2>5
<1>6. timer' = [timer EXCEPT ![t] = x] /\ x \in TimerState /\ At(cpu[c], x) = e
      /\ At(cpu[place], x) = exp - Off(place, clock)
  <2>1. x \in TimerState
    BY <1>1, <1>2 DEF TimerState
  <2>2. timer' = [timer EXCEPT ![t] = x]
    BY <1>3
  <2> QED
    BY <2>1, <2>2 DEF At, Off
<1>7. cpu[c] \in CpuState /\ cpu[c].off \in Int /\ e \in Int
  <2>1. cpu[c] \in CpuState
    BY <1>1, <1>2
  <2>2. cpu[c].off \in Int
    BY <2>1 DEF CpuState
  <2> QED
    BY <2>1, <2>2 DEF Off
<1> DEFINE s == Reprogram(cpu[c], e)
<1>8. /\ SameBut(cpu[c], s)
      /\ \/ s = cpu[c] /\ (cpu[c].hang \/ cpu[c].next <= e)
         \/ s.softirq /\ s.next = cpu[c].next /\ s.dev = cpu[c].dev
         \/ /\ e >= 0 /\ e < cpu[c].next /\ s.softirq = cpu[c].softirq
            /\ s.next = e /\ s.dev = e
  BY <1>1, <1>7, ReprogramIs
<1>9. cpu' = IF leftmost /\ place = c THEN [cpu EXCEPT ![c] = s] ELSE cpu
  BY <1>3
<1>10. \A u \in Queue(place, clock) : u \in Task /\ u # t /\ timer[u].queued
                                        /\ timer[u].cpu = place /\ timer[u].clock = clock
  BY DEF Queue
<1>11. ~leftmost => \E u \in Queue(place, clock) : timer[u].exp <= exp
  <2>1. \A u \in Queue(place, clock) : timer[u].exp \in Int
    BY <1>1, <1>10 DEF TimerState
  <2> QED
    BY <2>1
<1> HIDE DEF place, leftmost, e, x, s
<1>12. timer' \in [Task -> TimerState] /\ timer'[t] = x
       /\ \A u \in Task \ {t} : timer'[u] = timer[u]
  BY <1>1, <1>6
<1>13. cpu' \in [CPU -> CpuState]
  <2>1. s \in CpuState
    BY <1>8 DEF SameBut
  <2> QED
    BY <1>1, <1>2, <1>9, <2>1
<1>14. \A d \in CPU : cpu'[d].online = cpu[d].online
  BY <1>1, <1>2, <1>8, <1>9 DEF SameBut
<1>15. x.clock = clock /\ x.soft = soft /\ x.exp = exp /\ x.cpu = place
  BY DEF x
<1>16. ASSUME NEW d \in CPU PROVE Ready(d, cpu'[d], timer', now, offset)
  <2>1. cpu[d] \in CpuState /\ Ready(d, cpu[d], timer, now, offset) /\ now \in Int
    BY <1>1 DEF IInv, Readies
  <2>2. CASE d # place
    <3>1. cpu'[d] = cpu[d]
      BY <1>1, <1>2, <1>9, <2>2
    <3>2. \A u \in Task : timer'[u].queued /\ timer'[u].cpu = d =>
            /\ timer[u].queued /\ timer[u].cpu = d
            /\ timer'[u].clock = timer[u].clock /\ timer'[u].exp = timer[u].exp
      BY <1>12, <1>15, <2>2
    <3>3. Ready(d, cpu[d], timer', now, offset)
      <4>1. now <= now /\ timer' \in [Task -> TimerState]
        BY <1>1, <1>12
      <4> QED
        BY <1>1, <2>1, <3>2, <4>1, ReadyKept
    <3> QED
      BY <3>1, <3>3
  <2>3. CASE d = place /\ ~(leftmost /\ place = c)
    <3>1. cpu'[d] = cpu[d]
      BY <1>9, <2>3
    <3>2. cpu[d].next \in Int /\ cpu[d].off \in Int
      BY <2>1, ForeverFact DEF CpuState
    <3>3. At(cpu[d], x) \in Int
      BY <1>6, <3>2, FallsIs
    <3>4. \/ cpu[d].hang
          \/ cpu[d].next <= 0
          \/ cpu[d].next <= At(cpu[d], timer'[t])
          \/ cpu[d].irq # Idle \/ ~(cpu[d].online /\ ~cpu[d].softirq /\ ~cpu[d].ipi)
      <4>1. CASE place # c
        BY <1>5, <1>6, <1>12, <2>3, <3>2, <3>3, <4>1
      <4>2. CASE place = c
        <5>1. PICK u \in Queue(place, clock) : timer[u].exp <= exp
          BY <1>11, <2>3, <4>2
        <5>2. u \in Task /\ timer[u] \in TimerState /\ timer[u].queued /\ timer[u].cpu = d
              /\ timer[u].clock = clock
          BY <1>1, <1>10, <2>3
        <5>3. At(cpu[d], timer[u]) <= At(cpu[d], x) /\ At(cpu[d], timer[u]) \in Int
          BY <1>15, <3>2, <5>1, <5>2, FallsIs DEF At, TimerState
        <5>4. SUFFICES ASSUME cpu[d].online /\ cpu[d].irq = Idle /\ ~cpu[d].softirq
                              /\ ~cpu[d].ipi /\ ~cpu[d].hang
                       PROVE  cpu[d].next <= 0 \/ cpu[d].next <= At(cpu[d], timer'[t])
          OBVIOUS
        <5>5. Ahead(d, cpu[d], timer, cpu[d].next, Clocks)
          BY <2>1, <5>4 DEF Ready, Armed
        <5>6. cpu[d].next <= 0 \/ cpu[d].next <= At(cpu[d], timer[u])
          BY <5>2, <5>5 DEF Ahead
        <5> QED
          BY <1>12, <3>2, <3>3, <5>3, <5>6
      <4> QED
        BY <4>1, <4>2
    <3>5. cpu[d].irq = Idle \/ cpu[d].next <= At(cpu[d], timer'[t])
      BY <1>5, <1>6, <1>12, <2>3, <3>2, <3>3
    <3>6. Handling(d, cpu[d], timer', now)
      BY <1>1, <1>12, <2>1, <3>5, HandlingBehind
    <3>7. Armed(d, cpu[d], timer', now)
      <4>1. CASE cpu[d].hang \/ cpu[d].next <= 0 \/ cpu[d].next <= At(cpu[d], timer'[t])
        BY <1>1, <1>12, <2>1, <4>1, ArmedBehind
      <4>2. CASE ~(cpu[d].hang \/ cpu[d].next <= 0 \/ cpu[d].next <= At(cpu[d], timer'[t]))
        BY <3>4, <4>2 DEF Armed
      <4> QED
        BY <4>1, <4>2
    <3> QED
      BY <2>1, <3>1, <3>6, <3>7 DEF Ready
  <2>4. CASE d = place /\ leftmost /\ place = c
    <3>1. cpu'[d] = s /\ d = c
      BY <1>1, <1>2, <1>9, <2>4
    <3>2. InStep(s, offset)
      BY <1>8, <2>1, <3>1 DEF Ready, InStep, SameBut
    <3>3. Handling(d, s, timer', now)
      BY <1>8, <3>1 DEF Handling, SameBut
    <3>4. Armed(d, s, timer', now)
      <4>1. CASE s = cpu[c] /\ (cpu[c].hang \/ cpu[c].next <= e)
        <5>1. cpu[d].hang \/ cpu[d].next <= 0 \/ cpu[d].next <= At(cpu[d], timer'[t])
          BY <1>6, <1>12, <3>1, <4>1
        <5> QED
          BY <1>1, <1>12, <2>1, <3>1, <4>1, <5>1, ArmedBehind
      <4>2. CASE s.softirq
        BY <4>2 DEF Armed
      <4>3. CASE /\ e >= 0 /\ e < cpu[c].next /\ s.softirq = cpu[c].softirq
                 /\ s.next = e /\ s.dev = e
        <5>1. SUFFICES ASSUME s.online /\ s.irq = Idle /\ ~s.softirq /\ ~s.ipi /\ ~s.hang
                       PROVE  Ahead(d, s, timer', s.next, Clocks)
          BY <1>7, <4>3 DEF Armed
        <5>2. Ahead(d, cpu[d], timer, cpu[d].next, Clocks)
          BY <1>8, <2>1, <3>1, <4>3, <5>1 DEF Ready, Armed, SameBut
        <5>3. ASSUME NEW u \in Task, timer'[u].queued, timer'[u].cpu = d,
                     timer'[u].clock \in Clocks
              PROVE  s.next <= 0 \/ s.next <= At(s, timer'[u])
          <6>1. At(s, timer'[u]) = At(cpu[c], timer'[u])
            BY <1>8 DEF At, SameBut
          <6>2. timer'[u] \in TimerState
            BY <1>12
          <6>3. At(cpu[c], timer'[u]) \in Int
            BY <1>7, <6>2, FallsIs
          <6>4. CASE u = t
            BY <1>6, <1>7, <1>12, <4>3, <6>1, <6>4
          <6>5. CASE u # t
            <7>1. cpu[d].next <= 0 \/ cpu[d].next <= At(cpu[d], timer'[u])
              BY <1>12, <5>2, <5>3, <6>5 DEF Ahead
            <7>2. cpu[c].next \in Int
              BY <1>7, ForeverFact DEF CpuState
            <7> QED
              BY <1>7, <3>1, <4>3, <6>1, <6>3, <7>1, <7>2
          <6> QED
            BY <6>4, <6>5
        <5> QED
          BY <5>3 DEF Ahead
      <4> QED
        BY <1>8, <4>1, <4>2, <4>3
    <3> QED
      BY <3>1, <3>2, <3>3, <3>4 DEF Ready
  <2> QED
    BY <2>2, <2>3, <2>4
<1>17. Online \subseteq {d \in CPU : cpu'[d].online}
  BY <1>14 DEF Online
<1> QED
  BY <1>12, <1>13, <1>15, <1>16, <1>17

----------------------------------------------------------------------------
(* Each step.                                                              *)

LEMMA SoundsNext ==
  ASSUME SleepAssumption, IInv, Types', NEW t \in Task, now <= now', Online \subseteq Online',
         \A u \in Task \ {t} : /\ task'[u] = task[u] /\ timer'[u] = timer[u]
                               /\ begun'[u] = begun[u],
         Sound(t, task'[t], timer'[t], begun'[t], now', Online')
  PROVE  Sounds'
<1>1. SUFFICES ASSUME NEW u \in Task, u # t
               PROVE  Sound(u, task[u], timer[u], begun[u], now', Online')
  BY DEF Sounds
<1>2. Sound(u, task[u], timer[u], begun[u], now, Online)
  BY DEF IInv, Sounds
<1>3. /\ task[u] \in TaskState /\ timer[u] \in TimerState
      /\ begun[u] \in [at : Nat, req : Nat] /\ now \in Int
  BY DEF IInv, Types
<1>4. now' \in Int
  BY DEF Types
<1> QED
  BY <1>2, <1>3, <1>4, SoundKept

LEMMA ReadiesNext ==
  ASSUME IInv, Types', offset' = offset, now <= now', NEW c,
         \A d \in CPU \ {c} : cpu'[d] = cpu[d],
         c \in CPU => Ready(c, cpu'[c], timer', now', offset'),
         \A u \in Task : timer'[u].queued =>
            /\ timer[u].queued /\ timer'[u].cpu = timer[u].cpu
            /\ timer'[u].clock = timer[u].clock /\ timer'[u].exp = timer[u].exp
  PROVE  Readies'
<1>1. SUFFICES ASSUME NEW d \in CPU, d # c
               PROVE  Ready(d, cpu[d], timer', now', offset')
  BY DEF Readies
<1>2. Ready(d, cpu[d], timer, now, offset)
  BY DEF IInv, Readies
<1>3. /\ cpu[d] \in CpuState /\ timer \in [Task -> TimerState]
      /\ now \in Int /\ offset \in Int
  BY DEF IInv, Types
<1>4. now' \in Int /\ timer' \in [Task -> TimerState]
  BY DEF Types
<1>5. \A u \in Task : timer'[u].queued /\ timer'[u].cpu = d =>
        /\ timer[u].queued /\ timer[u].cpu = d
        /\ timer'[u].clock = timer[u].clock /\ timer'[u].exp = timer[u].exp
  BY Zenon
<1>6. Ready(d, cpu[d], timer', now', offset)
  BY <1>2, <1>3, <1>4, <1>5, ReadyKept
<1> QED
  BY <1>6

LEMMA OnlineIs == Online \subseteq CPU /\ Online = {c \in CPU : cpu[c].online}
                  /\ Online' = {c \in CPU : cpu'[c].online}
BY DEF Online

Kinds == {NoOne, "nanosleep", "until", "timeout"}

\* In s task t has gone to sleep on CPU c.
Asleep(s, t, c, call) ==
  /\ s \in [Task -> TaskState] /\ \A u \in Task \ {t} : s[u] = task[u]
  /\ s[t].pc = "started" /\ s[t].cpu = c /\ s[t].call = call

LEMMA SleepingIs ==
  ASSUME task \in [Task -> TaskState], NEW t \in Task, NEW c \in CPU,
         NEW call \in Kinds
  PROVE  Asleep(Sleeping(t, c, call), t, c, call) /\ Sleeping(t, c, call)[t].set
<1> DEFINE x == [InUser EXCEPT !.pc = "started", !.cpu = c, !.call = call, !.waits = TRUE,
                               !.set = TRUE]
<1>1. Sleeping(t, c, call) = [task EXCEPT ![t] = x]
  BY DEF Sleeping
<1>2. InUser \in TaskState /\ InUser.signal = NoOne
  BY DEF InUser, TaskState
<1>3. x = [InUser EXCEPT !.pc = "started", !.cpu = c, !.call = call, !.waits = TRUE,
                         !.set = TRUE]
  OBVIOUS
<1> HIDE DEF x
<1>4. x = [pc |-> "started", cpu |-> c, call |-> call, waits |-> TRUE, set |-> TRUE,
           signal |-> NoOne]
  BY <1>2, <1>3 DEF TaskState
<1>5. x \in TaskState
  BY <1>4 DEF TaskState, Kinds
<1> QED
  BY <1>1, <1>4, <1>5 DEF Asleep

\* A task goes to sleep on CPU c.
LEMMA CallKeeps ==
  ASSUME SleepAssumption, IInv, NEW t \in Task, NEW c \in Online, NEW to \in Online,
         cpu[c].irq = Idle, ~timer[t].queued, NEW clock \in Clocks,
         NEW soft \in Int, NEW exp \in Int, soft <= exp,
         Start(t, c, to, clock, soft, exp),
         NEW call \in Kinds, Asleep(task', t, c, call),
         UNCHANGED <<now, offset>>, {calls', events'} \subseteq Nat,
         begun' \in [Task -> [at : Nat, req : Nat]],
         \A u \in Task \ {t} : begun'[u] = begun[u],
         call = "nanosleep" => /\ clock = Mono /\ End(t, begun'[t]) <= soft
                               /\ task'[t].set \/ End(t, begun'[t]) <= now
  PROVE  IInv'
<1>1. task \in [Task -> TaskState]
  BY DEF IInv, Types
<1>2. c \in CPU
  BY DEF Online
<1>3. /\ task' \in [Task -> TaskState] /\ \A u \in Task \ {t} : task'[u] = task[u]
      /\ task'[t].pc = "started" /\ task'[t].cpu = c /\ task'[t].call = call
  BY <1>1, <1>2 DEF Asleep
<1>4. /\ cpu' \in [CPU -> CpuState] /\ timer' \in [Task -> TimerState]
      /\ Online \subseteq Online' /\ c \in CPU
      /\ \A u \in Task \ {t} : timer'[u] = timer[u]
      /\ timer'[t].clock = clock /\ timer'[t].soft = soft /\ timer'[t].exp = exp
      /\ \A d \in CPU : Ready(d, cpu'[d], timer', now, offset)
  BY Starts, OnlineIs
<1>5. Types'
  BY <1>4, <1>3 DEF IInv, Types
<1>6. Readies'
  BY <1>4 DEF Readies
<1>7. Sounds'
  <2>1. Sound(t, task'[t], timer'[t], begun'[t], now', Online')
    BY <1>4, <1>3 DEF Sound
  <2>2. now <= now'
    BY DEF IInv, Types
  <2> QED
    BY <1>4, <1>3, <1>5, <2>1, <2>2, SoundsNext
<1> QED
  BY <1>5, <1>6, <1>7 DEF IInv

LEMMA NanosleepStep ==
  ASSUME SleepAssumption, IInv, NEW t \in Task, NEW req \in Requests, NEW c \in Online,
         NEW to \in Online, Nanosleep(t, req, c, to)
  PROVE  IInv'
<1> DEFINE soft == now + Dilated(req, Dilation[t])
<1>1. /\ now \in Nat /\ calls \in Nat /\ events \in Nat /\ req \in Nat
      /\ Dilation[t] \in Nat /\ Slack[t] \in Nat /\ begun \in [Task -> [at : Nat, req : Nat]]
  <2>1. now \in Nat /\ calls \in Nat /\ events \in Nat
    BY DEF IInv, Types
  <2>2. req \in Nat /\ Dilation[t] \in Nat /\ Slack[t] \in Nat
    BY DEF SleepAssumption
  <2> QED
    BY <2>1, <2>2 DEF IInv, Types
<1>2. soft \in Nat
  <2>1. Dilated(req, Dilation[t]) \in Nat
    BY <1>1, DilatedIs
  <2> QED
    BY <1>1, <2>1
<1>3. /\ Call(t, c, "nanosleep") /\ begun' = [begun EXCEPT ![t] = [at |-> now, req |-> req]]
      /\ Start(t, c, to, Mono, soft, soft + Slack[t])
  BY DEF Nanosleep
<1>4. /\ task[t].pc = "user" /\ cpu[c].irq = Idle /\ task' = Sleeping(t, c, "nanosleep")
      /\ UNCHANGED <<now, offset>> /\ calls' = calls + 1 /\ events' = events
  BY <1>3 DEF Call
<1>5. ~timer[t].queued
  BY <1>4 DEF IInv, Sounds, Sound
<1>6. /\ begun' \in [Task -> [at : Nat, req : Nat]]
      /\ \A u \in Task \ {t} : begun'[u] = begun[u]
      /\ begun'[t].at = now /\ begun'[t].req = req
  BY <1>1, <1>3
<1>7. End(t, begun'[t]) = soft
  BY <1>6 DEF End
<1> HIDE DEF soft
<1>8. /\ soft \in Int /\ soft + Slack[t] \in Int /\ soft <= soft + Slack[t]
      /\ {calls', events'} \subseteq Nat /\ Mono \in Clocks /\ End(t, begun'[t]) <= soft
      /\ "nanosleep" \in Kinds
  BY <1>1, <1>2, <1>4, <1>7 DEF Clocks, Kinds
<1>9. Asleep(task', t, c, "nanosleep") /\ task'[t].set
  <2>1. task \in [Task -> TaskState] /\ c \in CPU
    BY DEF IInv, Types, Online
  <2>2. /\ Asleep(Sleeping(t, c, "nanosleep"), t, c, "nanosleep")
        /\ Sleeping(t, c, "nanosleep")[t].set
    BY <1>8, <2>1, SleepingIs
  <2> QED
    BY <1>4, <2>2
<1> QED
  BY <1>3, <1>4, <1>5, <1>6, <1>8, <1>9, CallKeeps

\* The other two calls.
LEMMA OtherCallStep ==
  ASSUME SleepAssumption, IInv, NEW t \in Task, NEW req \in Requests, NEW c \in Online,
         NEW to \in Online,
         NanosleepUntil(t, req, c, to) \/ Timeout(t, req, c, to)
  PROVE  IInv'
<1>1. PICK call \in {"until", "timeout"}, clock \in Clocks, soft \in Int :
        Call(t, c, call) /\ begun' = begun /\ Start(t, c, to, clock, soft, soft + Slack[t])
  <2>1. now \in Int /\ req \in Int /\ now + req \in Int /\ Mono \in Clocks /\ Real \in Clocks
    <3>1. now \in Int
      BY DEF IInv, Types
    <3>2. req \in Int
      BY DEF SleepAssumption
    <3> QED
      BY <3>1, <3>2 DEF Clocks
  <2>2. CASE NanosleepUntil(t, req, c, to)
    BY <2>1, <2>2 DEF NanosleepUntil
  <2>3. CASE Timeout(t, req, c, to)
    BY <2>1, <2>3 DEF Timeout
  <2> QED
    BY <2>2, <2>3
<1>2. /\ task[t].pc = "user" /\ cpu[c].irq = Idle /\ task' = Sleeping(t, c, call)
      /\ UNCHANGED <<now, offset>> /\ calls' = calls + 1 /\ events' = events
  BY <1>1 DEF Call
<1>3. ~timer[t].queued
  BY <1>2 DEF IInv, Sounds, Sound
<1>4. begun' \in [Task -> [at : Nat, req : Nat]] /\ {calls', events'} \subseteq Nat
  BY <1>1, <1>2 DEF IInv, Types
<1>5. call \in Kinds /\ call # "nanosleep"
  BY DEF Kinds
<1>6. soft + Slack[t] \in Int /\ soft <= soft + Slack[t]
  <2>1. Slack[t] \in Nat
    BY DEF SleepAssumption
  <2> QED
    BY <2>1
<1>7. Asleep(task', t, c, call)
  <2>1. task \in [Task -> TaskState] /\ c \in CPU
    BY DEF IInv, Types, Online
  <2>2. Asleep(Sleeping(t, c, call), t, c, call)
    BY <1>5, <2>1, SleepingIs
  <2> QED
    BY <1>2, <2>2
<1>8. /\ \A u \in Task \ {t} : begun'[u] = begun[u]
      /\ Start(t, c, to, clock, soft, soft + Slack[t])
  BY <1>1
<1> QED
  BY <1>2, <1>3, <1>4, <1>5, <1>6, <1>7, <1>8, CallKeeps

\* A task in a system call runs on a CPU that is there.
LEMMA RunsIs ==
  ASSUME IInv, NEW t \in Task, NEW pc, pc # "user", Runs(t, pc)
  PROVE  /\ task[t].pc = pc /\ task[t].cpu \in Online /\ cpu[task[t].cpu].irq = Idle
         /\ pc \notin {"started", "cancel"} => ~timer[t].queued /\ ~timer[t].running
         /\ Sound(t, task[t], timer[t], begun[t], now, Online)
         /\ task[t] \in TaskState /\ timer[t] \in TimerState
         /\ begun[t] \in [at : Nat, req : Nat]
<1>1. task[t].pc = pc /\ cpu[task[t].cpu].irq = Idle
  BY DEF Runs
<1>2. Sound(t, task[t], timer[t], begun[t], now, Online)
  BY DEF IInv, Sounds
<1>3. /\ task[t] \in TaskState /\ timer[t] \in TimerState
      /\ begun[t] \in [at : Nat, req : Nat]
  BY DEF IInv, Types
<1>4. timer[t].queued \in BOOLEAN /\ timer[t].running \in BOOLEAN
  BY <1>3 DEF TimerState
<1> QED
  BY <1>1, <1>2, <1>3, <1>4 DEF Sound

LEMMA AgainStep ==
  ASSUME SleepAssumption, IInv, NEW t \in Task, NEW to \in Online, Again(t, to)
  PROVE  IInv'
<1> DEFINE a == task[t]
           x == timer[t]
           y == task'[t]
<1>1. /\ a.pc = "again" /\ a.cpu \in Online /\ cpu[a.cpu].irq = Idle
      /\ ~x.queued /\ Sound(t, a, x, begun[t], now, Online)
      /\ a \in TaskState /\ x \in TimerState
  BY RunsIs DEF Again
<1>2. /\ task' = [task EXCEPT ![t].pc = "started", ![t].waits = TRUE]
      /\ Start(t, a.cpu, to, x.clock, x.soft, x.exp)
      /\ UNCHANGED <<now, offset, calls, events, begun>>
  BY DEF Again
<1>3. task \in [Task -> TaskState] /\ begun \in [Task -> [at : Nat, req : Nat]]
      /\ {calls, events} \subseteq Nat
  BY DEF IInv, Types
<1>4. y = [a EXCEPT !.pc = "started", !.waits = TRUE]
      /\ task' = [task EXCEPT ![t] = y]
  BY <1>2, <1>3
<1> HIDE DEF a, x, y
<1>5. y = [pc |-> "started", cpu |-> a.cpu, call |-> a.call, waits |-> TRUE,
           set |-> a.set, signal |-> a.signal]
  BY <1>1, <1>4 DEF TaskState
<1>6. y \in TaskState
  BY <1>1, <1>5 DEF TaskState
<1>7. Asleep(task', t, a.cpu, a.call)
  BY <1>3, <1>4, <1>5, <1>6 DEF Asleep
<1>8. task'[t].set = a.set
  BY <1>5 DEF y
<1>9. /\ x.clock \in Clocks /\ x.soft \in Int /\ x.exp \in Int /\ x.soft <= x.exp
      /\ a.call \in Kinds
  BY <1>1 DEF TimerState, TaskState, Kinds, Sound
<1>10. a.call = "nanosleep" => /\ x.clock = Mono /\ End(t, begun'[t]) <= x.soft
                               /\ task'[t].set \/ End(t, begun'[t]) <= now
  BY <1>1, <1>2, <1>8 DEF Sound
<1>11. /\ UNCHANGED <<now, offset>> /\ {calls', events'} \subseteq Nat
       /\ begun' \in [Task -> [at : Nat, req : Nat]]
       /\ \A u \in Task \ {t} : begun'[u] = begun[u]
  BY <1>2, <1>3
<1>12. ~timer[t].queued
  BY <1>1 DEF x
<1> QED
  BY <1>1, <1>2, <1>7, <1>9, <1>10, <1>11, <1>12, CallKeeps

LEMMA RestartStep ==
  ASSUME SleepAssumption, IInv, NEW t \in Task, NEW to \in Online, Restart(t, to)
  PROVE  IInv'
<1> DEFINE a == task[t]
           x == timer[t]
           soft == IF a.call = "nanosleep" THEN x.exp ELSE x.soft
<1>1. /\ a.pc = "stopped" /\ a.cpu \in Online /\ cpu[a.cpu].irq = Idle
      /\ ~x.queued /\ Sound(t, a, x, begun[t], now, Online)
      /\ a \in TaskState /\ x \in TimerState /\ begun[t] \in [at : Nat, req : Nat]
  BY RunsIs DEF Restart
<1>2. /\ task' = Sleeping(t, a.cpu, a.call)
      /\ Start(t, a.cpu, to, x.clock, soft, x.exp)
      /\ UNCHANGED <<now, offset, calls, events, begun>>
  BY DEF Restart
<1>3. task \in [Task -> TaskState] /\ begun \in [Task -> [at : Nat, req : Nat]]
      /\ {calls, events} \subseteq Nat
  BY DEF IInv, Types
<1>4. End(t, begun[t]) \in Nat
  BY <1>1, EndIs
<1>5. ~timer[t].queued
  BY <1>1
<1> HIDE DEF a, x
<1>6. /\ x.clock \in Clocks /\ soft \in Int /\ x.exp \in Int /\ soft <= x.exp
      /\ a.call \in Kinds
  BY <1>1 DEF TimerState, TaskState, Kinds, Sound
<1>7. a.call = "nanosleep" => x.clock = Mono /\ End(t, begun[t]) <= soft
  BY <1>1, <1>4 DEF Sound, TimerState
<1> HIDE DEF soft
<1>8. Asleep(task', t, a.cpu, a.call) /\ task'[t].set
  <2>1. a.cpu \in CPU
    BY <1>1, OnlineIs
  <2>2. Asleep(Sleeping(t, a.cpu, a.call), t, a.cpu, a.call) /\ Sleeping(t, a.cpu, a.call)[t].set
    BY <1>3, <1>6, <2>1, SleepingIs
  <2> QED
    BY <1>2, <2>2
<1>9. a.call = "nanosleep" => /\ x.clock = Mono /\ End(t, begun'[t]) <= soft
                              /\ task'[t].set \/ End(t, begun'[t]) <= now
  BY <1>2, <1>7, <1>8
<1>10. /\ UNCHANGED <<now, offset>> /\ {calls', events'} \subseteq Nat
       /\ begun' \in [Task -> [at : Nat, req : Nat]]
       /\ \A u \in Task \ {t} : begun'[u] = begun[u]
  BY <1>2, <1>3
<1> QED
  BY <1>1, <1>2, <1>5, <1>6, <1>8, <1>9, <1>10, CallKeeps

\* Steps of a task that start no timer.
LEMMA TickStep ==
  ASSUME SleepAssumption, IInv, Tick
  PROVE  IInv'
<1>1. /\ now' = now + 1 /\ now < Span
      /\ UNCHANGED <<offset, cpu, timer, task, calls, events, begun>>
  BY DEF Tick
<1>2. Types'
  <2>1. now' \in 0 .. Span
    BY <1>1 DEF IInv, Types, SleepAssumption
  <2> QED
    BY <1>1, <2>1 DEF IInv, Types
<1>3. now <= now'
  BY <1>1 DEF IInv, Types
<1>4. Readies'
  BY <1>1, <1>2, <1>3, ReadiesNext
<1>5. Sounds'
  <2>1. SUFFICES ASSUME NEW t \in Task
                 PROVE  Sound(t, task[t], timer[t], begun[t], now', Online)
    BY <1>1 DEF Sounds, Online
  <2>2. /\ Sound(t, task[t], timer[t], begun[t], now, Online)
        /\ task[t] \in TaskState /\ timer[t] \in TimerState
        /\ begun[t] \in [at : Nat, req : Nat] /\ now \in Int
    BY DEF IInv, Sounds, Types
  <2>3. now' \in Int
    BY <1>2 DEF Types
  <2> QED
    BY <1>3, <2>2, <2>3, SoundKept
<1> QED
  BY <1>2, <1>4, <1>5 DEF IInv

LEMMA WakeStep ==
  ASSUME SleepAssumption, IInv, NEW t \in Task, Wake(t)
  PROVE  IInv'
<1> DEFINE a == task[t]
           y == task'[t]
<1>1. /\ a.pc = "started" /\ a \in TaskState /\ Sound(t, a, timer[t], begun[t], now, Online)
  BY RunsIs DEF Wake
<1>2. /\ task' = [task EXCEPT ![t].pc = "cancel"]
      /\ UNCHANGED <<now, offset, cpu, timer, calls, events, begun>>
  BY DEF Wake
<1>3. task \in [Task -> TaskState]
  BY DEF IInv, Types
<1>4. y = [a EXCEPT !.pc = "cancel"] /\ task' = [task EXCEPT ![t] = y]
  BY <1>2, <1>3
<1> HIDE DEF a, y
<1>5. y \in TaskState /\ y.pc = "cancel" /\ y.cpu = a.cpu /\ y.call = a.call /\ y.set = a.set
  BY <1>1, <1>4 DEF TaskState
<1>6. Types'
  BY <1>2, <1>3, <1>4, <1>5, ZenonT(60) DEF IInv, Types
<1>7. now <= now' /\ Online' = Online
  BY <1>2 DEF IInv, Types, Online
<1>8. Readies'
  BY <1>2, <1>6, <1>7, ReadiesNext
<1>9. Sound(t, y, timer'[t], begun'[t], now', Online')
  BY <1>1, <1>2, <1>5, <1>7 DEF Sound
<1>10. \A u \in Task \ {t} : task'[u] = task[u] /\ timer'[u] = timer[u] /\ begun'[u] = begun[u]
  BY <1>2, <1>3, <1>4
<1>11. Sounds'
  BY <1>6, <1>7, <1>9, <1>10, SoundsNext DEF y
<1> QED
  BY <1>6, <1>8, <1>11 DEF IInv

LEMMA RouseStep ==
  ASSUME SleepAssumption, IInv, NEW t \in Task, NEW signal \in {NoOne, "stop", "alarm"},
         Rouse(t, signal)
  PROVE  IInv'
<1> DEFINE a == task[t]
           y == task'[t]
<1>1. /\ a \in TaskState /\ Sound(t, a, timer[t], begun[t], now, Online)
  BY DEF IInv, Types, Sounds
<1>2. /\ task' = [task EXCEPT ![t] = [@ EXCEPT !.signal = signal, !.waits = FALSE]]
      /\ UNCHANGED <<now, offset, cpu, timer, calls, begun>> /\ events' = events + 1
  BY DEF Rouse, Event
<1>3. task \in [Task -> TaskState] /\ events \in Nat
  BY DEF IInv, Types
<1>4. y = [a EXCEPT !.signal = signal, !.waits = FALSE] /\ task' = [task EXCEPT ![t] = y]
  BY <1>2, <1>3
<1> HIDE DEF a, y
<1>5. y \in TaskState /\ y.pc = a.pc /\ y.cpu = a.cpu /\ y.call = a.call /\ y.set = a.set
  BY <1>1, <1>4 DEF TaskState
<1>6. Types'
  BY <1>2, <1>3, <1>4, <1>5 DEF IInv, Types
<1>7. now <= now' /\ Online' = Online
  BY <1>2 DEF IInv, Types, Online
<1>8. Readies'
  BY <1>2, <1>6, <1>7, ReadiesNext
<1>9. Sound(t, y, timer'[t], begun'[t], now', Online')
  BY <1>1, <1>2, <1>5, <1>7 DEF Sound
<1>10. \A u \in Task \ {t} : task'[u] = task[u] /\ timer'[u] = timer[u] /\ begun'[u] = begun[u]
  BY <1>2, <1>3, <1>4
<1>11. Sounds'
  BY <1>6, <1>7, <1>9, <1>10, SoundsNext DEF y
<1> QED
  BY <1>6, <1>8, <1>11 DEF IInv

LEMMA InUserIs == InUser \in TaskState /\ InUser.pc = "user"
BY DEF InUser, TaskState

LEMMA NoTimerIs ==
  /\ NoTimer \in TimerState /\ ~NoTimer.queued /\ ~NoTimer.running
  /\ NoTimer.soft = NoTimer.exp /\ NoTimer.soft \in Int
BY DEF NoTimer, TimerState, Clocks

LEMMA HandleStep ==
  ASSUME SleepAssumption, IInv, NEW t \in Task, Handle(t)
  PROVE  IInv'
<1> DEFINE a == task[t]
           y == task'[t]
           fails == task[t].signal = "alarm"
<1>1. /\ a.pc = "interrupted" /\ a \in TaskState /\ ~timer[t].queued /\ ~timer[t].running
      /\ Sound(t, a, timer[t], begun[t], now, Online)
  BY RunsIs DEF Handle
<1>2. /\ task' = [task EXCEPT ![t] = IF fails THEN InUser
                                     ELSE [@ EXCEPT !.pc = "stopped", !.signal = NoOne]]
      /\ timer' = [timer EXCEPT ![t] = IF fails THEN NoTimer ELSE @]
      /\ begun' = [begun EXCEPT ![t] = IF fails THEN NotBegun ELSE @]
      /\ UNCHANGED <<now, offset, cpu, calls, events>>
  BY DEF Handle
<1>3. /\ task \in [Task -> TaskState] /\ timer \in [Task -> TimerState]
      /\ begun \in [Task -> [at : Nat, req : Nat]]
  BY DEF IInv, Types
<1>4. /\ y = IF fails THEN InUser ELSE [a EXCEPT !.pc = "stopped", !.signal = NoOne]
      /\ task' = [task EXCEPT ![t] = y]
  BY <1>2, <1>3
<1> HIDE DEF a, y, fails
<1>5. /\ y \in TaskState
      /\ fails => y.pc = "user"
      /\ ~fails => y.pc = "stopped" /\ y.cpu = a.cpu /\ y.call = a.call /\ y.set = a.set
  <2>1. CASE fails
    BY <1>4, <2>1, InUserIs
  <2>2. CASE ~fails
    <3>1. y = [a EXCEPT !.pc = "stopped", !.signal = NoOne]
      BY <1>4, <2>2
    <3>2. /\ y \in TaskState
          /\ y.pc = "stopped" /\ y.cpu = a.cpu /\ y.call = a.call /\ y.set = a.set
      BY <1>1, <3>1 DEF TaskState
    <3> QED
      BY <2>2, <3>2
  <2> QED
    BY <2>1, <2>2
<1>6. /\ timer' \in [Task -> TimerState] /\ timer'[t] = IF fails THEN NoTimer ELSE timer[t]
      /\ \A u \in Task \ {t} : timer'[u] = timer[u]
  BY <1>2, <1>3, NoTimerIs
<1>7. /\ begun' \in [Task -> [at : Nat, req : Nat]]
      /\ ~fails => begun'[t] = begun[t]
      /\ \A u \in Task \ {t} : begun'[u] = begun[u]
  BY <1>2, <1>3 DEF NotBegun
<1>8. Types'
  <2>1. task' \in [Task -> TaskState]
    BY <1>3, <1>4, <1>5
  <2> QED
    BY <1>2, <1>6, <1>7, <2>1 DEF IInv, Types
<1>9. now <= now' /\ Online' = Online
  BY <1>2 DEF IInv, Types, Online
<1>10. Readies'
  <2>1. \A u \in Task : timer'[u].queued =>
          /\ timer[u].queued /\ timer'[u].cpu = timer[u].cpu
          /\ timer'[u].clock = timer[u].clock /\ timer'[u].exp = timer[u].exp
    BY <1>1, <1>6, NoTimerIs
  <2> QED
    BY <1>2, <1>8, <1>9, <2>1, ReadiesNext
<1>11. Sound(t, y, timer'[t], begun'[t], now', Online')
  <2>1. CASE fails
    <3>1. y.pc = "user" /\ timer'[t] = NoTimer /\ NoTimer.soft <= NoTimer.exp
      BY <1>5, <1>6, <2>1, NoTimerIs
    <3> QED
      BY <3>1, NoTimerIs DEF Sound
  <2>2. CASE ~fails
    BY <1>1, <1>2, <1>5, <1>6, <1>7, <1>9, <2>2 DEF Sound
  <2> QED
    BY <2>1, <2>2
<1>12. \A u \in Task \ {t} : task'[u] = task[u] /\ timer'[u] = timer[u] /\ begun'[u] = begun[u]
  BY <1>3, <1>4, <1>6, <1>7
<1>13. Sounds'
  BY <1>8, <1>9, <1>11, <1>12, SoundsNext DEF y
<1> QED
  BY <1>8, <1>10, <1>13 DEF IInv

\* The timers of tm that wait on CPU c are among T.
Left(c, T, tm) ==
  \A u \in Task : tm[u].queued /\ tm[u].cpu = c =>
    u \in T /\ tm[u].clock = timer[u].clock /\ tm[u].exp = timer[u].exp

\* What hrtimer_force_reprogram does for all the timers that CPU c has left.
LEMMA ArmedByForce ==
  ASSUME now \in Nat, timer \in [Task -> TimerState], NEW c \in CPU, NEW s \in CpuState,
         NEW T, T \subseteq Task,
         Left(c, T, timer'),
         NEW u, \/ u = ForceReprogram(s, Earliest(s, T), FALSE)
                \/ u = ForceReprogram(s, Earliest(s, T), TRUE) /\ Armed(c, s, timer, now)
  PROVE  Armed(c, u, timer', now) /\ SameBut(s, u)
<1> DEFINE e == Earliest(s, T)
<1>1. s.off \in Int
  BY DEF CpuState
<1>2. e \in 0 .. Forever /\ \A v \in T : e <= 0 \/ e <= At(s, timer[v])
  BY <1>1, EarliestIs
<1> HIDE DEF e
<1>3. Forced(s, u, e) \/ (Armed(c, s, timer, now) /\ e = s.next /\ u = s)
  BY <1>2, ForceReprogramIs DEF e
<1>4. Ahead(c, u, timer', u.next, Clocks)
  <2>1. SUFFICES ASSUME NEW v \in Task, timer'[v].queued, timer'[v].cpu = c
                 PROVE  e <= 0 \/ e <= At(u, timer'[v])
    BY <1>3 DEF Ahead, Forced
  <2>2. At(u, timer'[v]) = At(s, timer[v]) /\ v \in T
    BY <1>3, <2>1 DEF At, Forced, SameBut, Left
  <2> QED
    BY <1>2, <2>2
<1>5. Armed(c, u, timer', now)
  <2>1. SUFFICES ASSUME u.online /\ u.irq = Idle /\ ~u.softirq /\ ~u.ipi /\ ~u.hang
                 PROVE  u.next = Forever \/ u.dev <= now \/ u.dev <= u.next
    BY <1>4 DEF Armed
  <2>2. CASE Armed(c, s, timer, now) /\ e = s.next /\ u = s
    BY <2>1, <2>2 DEF Armed
  <2>3. CASE Forced(s, u, e) /\ (s.hang \/ e = Forever)
    BY <2>1, <2>3 DEF Forced, SameBut
  <2>4. CASE Forced(s, u, e) /\ u.dev = IF now >= e THEN now ELSE e
    BY <1>2, <2>4 DEF Forced, Forever
  <2> QED
    BY <1>3, <2>2, <2>3, <2>4 DEF Forced
<1> QED
  BY <1>3, <1>5 DEF Forced, SameBut

LEMMA CancelStep ==
  ASSUME SleepAssumption, IInv, NEW t \in Task, Cancel(t)
  PROVE  IInv'
<1> DEFINE a == task[t]
           y == task'[t]
           x == timer[t]
           z == timer'[t]
           c == task[t].cpu
           reset == /\ x.queued /\ x.cpu = c /\ t \in First(c, x.clock)
                    /\ cpu[c].next = x.exp - Off(c, x.clock)
           over == \/ ~task[t].set \/ task[t].call = "timeout"
                   \/ task[t].signal # NoOne /\ task[t].call = "nanosleep" /\ Remaining(t) <= 0
           pc == IF task[t].signal # NoOne THEN "interrupted" ELSE "again"
           T == Queued(c, Clocks) \ {t}
           s == ForceReprogram(cpu[c], Earliest(cpu[c], T), TRUE)
<1>1. /\ a.pc = "cancel" /\ c \in Online /\ cpu[c].irq = Idle
      /\ a \in TaskState /\ x \in TimerState
      /\ Sound(t, a, x, begun[t], now, Online)
  BY RunsIs DEF Cancel, Cancelled
<1>2. ~x.running
  BY DEF Cancel
<1>3. /\ timer' = [timer EXCEPT ![t] = IF over THEN [NoTimer EXCEPT !.running = x.running]
                                       ELSE [x EXCEPT !.queued = FALSE]]
      /\ cpu' = IF reset THEN [cpu EXCEPT ![c] = s] ELSE cpu
      /\ task' = [task EXCEPT ![t] = IF over THEN InUser ELSE [@ EXCEPT !.pc = pc]]
      /\ begun' = [begun EXCEPT ![t] = IF over THEN NotBegun ELSE @]
      /\ UNCHANGED <<now, offset, calls, events>>
  BY DEF Cancel, Cancelled
<1>4. /\ task \in [Task -> TaskState] /\ timer \in [Task -> TimerState]
      /\ begun \in [Task -> [at : Nat, req : Nat]] /\ cpu \in [CPU -> CpuState]
      /\ now \in Nat /\ offset \in Int /\ c \in CPU
  BY <1>1, OnlineIs DEF IInv, Types
<1>5. T \subseteq Task /\ \A u \in Task \ {t} :
        timer[u].queued /\ timer[u].cpu = c => u \in T
  <2>1. \A u \in Task \ {t} : timer[u].clock \in Clocks
    BY <1>4 DEF TimerState
  <2> QED
    BY <2>1 DEF Queued, Queue
<1>6. pc \in {"interrupted", "again"}
  OBVIOUS
<1>7. /\ y = IF over THEN InUser ELSE [a EXCEPT !.pc = pc]
      /\ task' = [task EXCEPT ![t] = y]
      /\ z = IF over THEN [NoTimer EXCEPT !.running = x.running] ELSE [x EXCEPT !.queued = FALSE]
      /\ timer' = [timer EXCEPT ![t] = z]
  BY <1>3, <1>4
<1> HIDE DEF a, y, x, z, c, over, reset, pc, T, s
<1>8. /\ y \in TaskState /\ y.pc # "started" /\ y.pc # "cancel"
      /\ over => y.pc = "user"
      /\ ~over => y.cpu = a.cpu /\ y.call = a.call /\ y.set = a.set
  <2>1. CASE over
    BY <1>7, <2>1, InUserIs
  <2>2. CASE ~over
    <3>1. y = [a EXCEPT !.pc = pc]
      BY <1>7, <2>2
    <3>2. y \in TaskState /\ y.pc = pc /\ y.cpu = a.cpu /\ y.call = a.call /\ y.set = a.set
      BY <1>1, <1>6, <3>1 DEF TaskState
    <3> QED
      BY <1>6, <2>2, <3>2
  <2> QED
    BY <2>1, <2>2
<1>9. /\ z \in TimerState /\ ~z.queued /\ ~z.running /\ z.soft <= z.exp
      /\ ~over => z.clock = x.clock /\ z.soft = x.soft
  <2>1. CASE over
    <3>1. z = [NoTimer EXCEPT !.running = x.running]
      BY <1>7, <2>1
    <3>2. z \in TimerState /\ z.running = x.running /\ z.queued = NoTimer.queued
          /\ z.soft = NoTimer.soft /\ z.exp = NoTimer.exp
      BY <1>1, <3>1, NoTimerIs DEF TimerState
    <3>3. z.soft <= z.exp
      BY <3>2, NoTimerIs
    <3> QED
      BY <1>2, <2>1, <3>2, <3>3, NoTimerIs
  <2>2. CASE ~over
    <3>1. z = [x EXCEPT !.queued = FALSE]
      BY <1>7, <2>2
    <3>2. z \in TimerState /\ z.running = x.running /\ ~z.queued
          /\ z.clock = x.clock /\ z.soft = x.soft /\ z.exp = x.exp
      BY <1>1, <3>1 DEF TimerState
    <3> QED
      BY <1>1, <1>2, <3>2 DEF Sound
  <2> QED
    BY <2>1, <2>2
<1>10. /\ task' \in [Task -> TaskState] /\ timer' \in [Task -> TimerState]
       /\ \A u \in Task \ {t} : task'[u] = task[u] /\ timer'[u] = timer[u]
       /\ timer'[t] = z /\ task'[t] = y
  BY <1>4, <1>7, <1>8, <1>9
<1>11. /\ begun' \in [Task -> [at : Nat, req : Nat]]
       /\ ~over => begun'[t] = begun[t]
       /\ \A u \in Task \ {t} : begun'[u] = begun[u]
  BY <1>3, <1>4 DEF NotBegun
<1>12. ASSUME NEW d \in CPU PROVE Ready(d, cpu[d], timer', now, offset)
  <2>1. cpu[d] \in CpuState /\ Ready(d, cpu[d], timer, now, offset)
    BY <1>4 DEF IInv, Readies
  <2>2. \A u \in Task : timer'[u].queued /\ timer'[u].cpu = d =>
          /\ timer[u].queued /\ timer[u].cpu = d
          /\ timer'[u].clock = timer[u].clock /\ timer'[u].exp = timer[u].exp
    BY <1>9, <1>10
  <2>3. /\ now \in Int /\ now <= now /\ offset \in Int
        /\ timer \in [Task -> TimerState] /\ timer' \in [Task -> TimerState]
    BY <1>4, <1>10
  <2> QED
    BY <2>1, <2>2, <2>3, ReadyKept, Zenon
<1>13. Armed(c, s, timer', now) /\ SameBut(cpu[c], s)
  <2>1. cpu[c] \in CpuState /\ Armed(c, cpu[c], timer, now)
    BY <1>4 DEF IInv, Readies, Ready
  <2>2. Left(c, T, timer')
    BY <1>5, <1>9, <1>10 DEF Left
  <2>3. /\ now \in Nat /\ timer \in [Task -> TimerState] /\ c \in CPU /\ T \subseteq Task
        /\ s = ForceReprogram(cpu[c], Earliest(cpu[c], T), TRUE)
    BY <1>4, <1>5 DEF s
  <2> QED
    BY <2>1, <2>2, <2>3, ArmedByForce
<1>14. Ready(c, s, timer', now, offset)
  <2>1. Ready(c, cpu[c], timer', now, offset)
    BY <1>4, <1>12
  <2> QED
    BY <1>1, <1>13, <2>1 DEF Ready, Handling, InStep, SameBut
<1>15. /\ cpu' \in [CPU -> CpuState] /\ Online' = Online
       /\ \A d \in CPU : cpu'[d] = IF reset /\ d = c THEN s ELSE cpu[d]
  <2>1. /\ cpu' \in [CPU -> CpuState]
        /\ \A d \in CPU : cpu'[d] = IF reset /\ d = c THEN s ELSE cpu[d]
    BY <1>3, <1>4, <1>13 DEF SameBut
  <2>2. \A d \in CPU : cpu'[d].online = cpu[d].online
    BY <1>13, <2>1 DEF SameBut
  <2> QED
    BY <2>1, <2>2, OnlineIs
<1>16. Types'
  BY <1>3, <1>10, <1>11, <1>15 DEF IInv, Types
<1>17. Readies'
  <2>1. ASSUME NEW d \in CPU PROVE Ready(d, cpu'[d], timer', now, offset)
    BY <1>12, <1>14, <1>15
  <2> QED
    BY <1>3, <2>1 DEF Readies
<1>18. Sounds'
  <2>1. Sound(t, y, z, begun'[t], now', Online')
    <3>1. CASE over
      BY <1>8, <1>9, <3>1 DEF Sound
    <3>2. CASE ~over
      BY <1>1, <1>3, <1>8, <1>9, <1>11, <1>15, <3>2 DEF Sound
    <3> QED
      BY <3>1, <3>2
  <2>2. now <= now' /\ Online \subseteq Online'
    BY <1>3, <1>4, <1>15
  <2>3. Sound(t, task'[t], timer'[t], begun'[t], now', Online')
    BY <1>10, <2>1
  <2> QED
    BY <1>10, <1>11, <1>16, <2>2, <2>3, SoundsNext
<1> QED
  BY <1>16, <1>17, <1>18 DEF IInv

----------------------------------------------------------------------------
(* Steps of one CPU.                                                       *)

\* A step that changes one CPU only, and leaves it ready.
LEMMA OneCpu ==
  ASSUME SleepAssumption, IInv, NEW c \in CPU, NEW u \in CpuState,
         cpu' = [cpu EXCEPT ![c] = u], u.online = cpu[c].online,
         Ready(c, u, timer, now, offset), calls' = calls, events' = events,
         UNCHANGED <<now, offset, timer, task, begun>>
  PROVE  IInv'
<1>1. cpu \in [CPU -> CpuState]
  BY DEF IInv, Types
<1>2. /\ cpu' \in [CPU -> CpuState] /\ cpu'[c] = u
      /\ \A d \in CPU \ {c} : cpu'[d] = cpu[d]
  BY <1>1
<1>3. Types'
  BY <1>2 DEF IInv, Types
<1>4. \A d \in CPU : cpu'[d].online = cpu[d].online
  BY <1>2
<1>5. Online' = Online
  BY <1>4, OnlineIs
<1>6. Sounds'
  BY <1>5 DEF IInv, Sounds
<1>7. Readies'
  <2>1. ASSUME NEW d \in CPU PROVE Ready(d, cpu'[d], timer, now, offset)
    <3>1. CASE d = c
      BY <1>2, <3>1
    <3>2. CASE d # c
      BY <1>2, <3>2 DEF IInv, Readies
    <3> QED
      BY <3>1, <3>2
  <2> QED
    BY <2>1 DEF Readies
<1> QED
  BY <1>3, <1>6, <1>7 DEF IInv

\* The interrupt has not been through any clock yet.
Begins(s, u) == /\ u \in CpuState /\ u.online = s.online /\ u.off = offset
                /\ u.next = Forever /\ u.irq # Idle /\ u.irq.now = now
                /\ u.irq.entry <= now /\ u.irq.k = Mono /\ u.irq.next = Forever

LEMMA BeginsReady ==
  ASSUME NEW c, NEW s, NEW u, Begins(s, u), now \in Nat, NEW tm
  PROVE  Ready(c, u, tm, now, offset)
<1>1. Ahead(c, u, tm, u.irq.next, 0 .. u.irq.k - 1)
  <2>1. 0 .. u.irq.k - 1 = {}
    BY DEF Begins, Mono
  <2> QED
    BY <2>1 DEF Ahead
<1> QED
  BY <1>1 DEF Ready, Handling, Armed, InStep, Begins

LEMMA IrqIs ==
  ASSUME NEW s \in CpuState, s.irq # Idle
  PROVE  /\ s.irq \in [pc : {"run"} \cup Task, k : Clocks, now : Nat, entry : Nat,
                       next : 0 .. Forever, retries : Nat]
BY DEF CpuState, IrqState

LEMMA RunIs ==
  ASSUME SleepAssumption, NEW p \in {"run"} \cup Task, NEW i, i.pc = p
  PROVE  i # Idle
<1>1. p # "none"
  BY DEF SleepAssumption
<1> QED
  BY <1>1 DEF Idle

LEMMA EnteredIs ==
  ASSUME SleepAssumption, now \in Nat, offset \in Int, NEW s \in CpuState
  PROVE  Begins(s, Entered(s))
<1> DEFINE i == [pc |-> "run", k |-> Mono, now |-> now, entry |-> now,
                 next |-> Forever, retries |-> 0]
           u == Entered(s)
<1>1. u = [s EXCEPT !.off = offset, !.next = Forever, !.irq = i]
  BY DEF Entered
<1>2. i.pc = "run" /\ i.now = now /\ i.entry = now /\ i.k = Mono /\ i.next = Forever
      /\ i \in IrqState
  BY ForeverFact DEF IrqState, Clocks
<1>3. i # Idle
  BY <1>2, RunIs
<1> HIDE DEF i, u
<1>4. u = [online |-> s.online, off |-> offset, next |-> Forever, dev |-> s.dev,
           hang |-> s.hang, softirq |-> s.softirq, ipi |-> s.ipi, irq |-> i]
  BY <1>1 DEF CpuState
<1>5. u \in CpuState /\ u.online = s.online /\ u.off = offset /\ u.next = Forever
      /\ u.irq = i
  BY <1>2, <1>4, ForeverFact DEF CpuState
<1>6. Begins(s, u)
  BY <1>2, <1>3, <1>5 DEF Begins
<1> QED
  BY <1>6 DEF u

LEMMA EnterStep ==
  ASSUME SleepAssumption, IInv, NEW c \in CPU, Enter(c)
  PROVE  IInv'
<1>1. /\ cpu \in [CPU -> CpuState] /\ cpu[c] \in CpuState /\ now \in Nat /\ offset \in Int
  BY DEF IInv, Types
<1>2. PICK s \in CpuState : s.online = cpu[c].online /\ cpu' = [cpu EXCEPT ![c] = Entered(s)]
  <2>1. CASE cpu' = [cpu EXCEPT ![c] = Entered([@ EXCEPT !.dev = Forever])]
    <3> DEFINE s == [cpu[c] EXCEPT !.dev = Forever]
    <3>1. s \in CpuState /\ s.online = cpu[c].online
      BY <1>1, ForeverFact DEF CpuState
    <3>2. cpu' = [cpu EXCEPT ![c] = Entered(s)]
      BY <2>1
    <3> QED
      BY <3>1, <3>2
  <2>2. CASE cpu' = [cpu EXCEPT ![c] = Entered([@ EXCEPT !.softirq = FALSE])]
    <3> DEFINE s == [cpu[c] EXCEPT !.softirq = FALSE]
    <3>1. s \in CpuState /\ s.online = cpu[c].online
      BY <1>1 DEF CpuState
    <3>2. cpu' = [cpu EXCEPT ![c] = Entered(s)]
      BY <2>2
    <3> QED
      BY <3>1, <3>2
  <2> QED
    BY <2>1, <2>2 DEF Enter
<1> DEFINE u == Entered(s)
<1>3. Begins(s, u)
  BY <1>1, EnteredIs
<1> HIDE DEF u
<1>4. Ready(c, u, timer, now, offset)
  BY <1>1, <1>3, BeginsReady
<1>5. u \in CpuState /\ u.online = cpu[c].online
  BY <1>2, <1>3 DEF Begins
<1>6. cpu' = [cpu EXCEPT ![c] = u] /\ calls' = calls /\ events' = events
      /\ UNCHANGED <<now, offset, timer, task, begun>>
  BY <1>2 DEF u, Enter
<1> QED
  BY <1>4, <1>5, <1>6, OneCpu

LEMMA RetriggerStep ==
  ASSUME SleepAssumption, IInv, NEW c \in CPU, Retrigger(c)
  PROVE  IInv'
<1> DEFINE s == [cpu[c] EXCEPT !.ipi = FALSE, !.off = offset]
           T == Queued(c, Clocks)
           u == ForceReprogram(s, Earliest(s, T), FALSE)
<1>1. /\ cpu \in [CPU -> CpuState] /\ cpu[c] \in CpuState /\ now \in Nat /\ offset \in Int
      /\ timer \in [Task -> TimerState]
  BY DEF IInv, Types
<1>2. /\ cpu[c].irq = Idle /\ cpu' = [cpu EXCEPT ![c] = u]
      /\ UNCHANGED <<now, offset, timer, task, calls, events, begun>>
  BY DEF Retrigger
<1>3. s \in CpuState /\ s.online = cpu[c].online /\ s.irq = Idle /\ s.off = offset
  <2>1. s = [cpu[c] EXCEPT !.ipi = FALSE, !.off = offset]
    OBVIOUS
  <2> HIDE DEF s
  <2> QED
    BY <1>1, <1>2, <2>1 DEF CpuState
<1>4. T \subseteq Task /\ Left(c, T, timer')
  <2>1. \A v \in Task : timer[v].clock \in Clocks
    BY <1>1 DEF TimerState
  <2>2. \A v \in Task : timer[v].queued /\ timer[v].cpu = c => v \in T
    BY <2>1 DEF Queued, Queue
  <2> QED
    BY <1>2, <2>2 DEF Left, Queued, Queue
<1> HIDE DEF s, T
<1>5. Armed(c, u, timer', now) /\ SameBut(s, u)
  BY <1>1, <1>3, <1>4, ArmedByForce
<1> HIDE DEF u
<1>6. Ready(c, u, timer, now, offset)
  BY <1>2, <1>3, <1>5 DEF Ready, Handling, InStep, SameBut
<1>7. u \in CpuState /\ u.online = cpu[c].online
  BY <1>3, <1>5 DEF SameBut
<1> QED
  BY <1>2, <1>6, <1>7, OneCpu

\* What the interrupt has seen and what it finds when it goes on to the
\* queues of the clocks up to hi.
LEMMA FirstOf ==
  ASSUME IInv, NEW c \in CPU, cpu[c].irq # Idle, NEW hi \in Int
  PROVE  LET irq == cpu[c].irq
             n == Min({irq.next, Earliest(cpu[c], Queued(c, irq.k .. hi))})
         IN  n \in 0 .. Forever /\ Ahead(c, cpu[c], timer, n, 0 .. hi)
<1> DEFINE irq == cpu[c].irq
           T == Queued(c, irq.k .. hi)
           e == Earliest(cpu[c], T)
           n == Min({irq.next, e})
<1>1. cpu[c] \in CpuState /\ timer \in [Task -> TimerState]
  BY DEF IInv, Types
<1>2. cpu[c].off \in Int
  BY <1>1 DEF CpuState
<1>3. irq \in [pc : {"run"} \cup Task, k : Clocks, now : Nat, entry : Nat,
               next : 0 .. Forever, retries : Nat]
  BY <1>1, IrqIs
<1>4. Ahead(c, cpu[c], timer, irq.next, 0 .. irq.k - 1)
  BY DEF IInv, Readies, Ready, Handling
<1>5. T \subseteq Task
  BY DEF Queued, Queue
<1>6. \A v \in Task : timer[v].queued /\ timer[v].cpu = c /\ timer[v].clock \in irq.k .. hi
                        => v \in T
  BY DEF Queued, Queue
<1> HIDE DEF T
<1>7. e \in 0 .. Forever /\ \A v \in T : e <= 0 \/ e <= At(cpu[c], timer[v])
  BY <1>1, <1>2, <1>5, EarliestIs
<1> HIDE DEF e
<1> HIDE DEF irq
<1>8. irq.next \in Int /\ irq.next \in 0 .. Forever /\ irq.k \in 0 .. 1
      /\ e \in Int
  <2>1. irq.next \in 0 .. Forever /\ irq.k \in Clocks /\ Forever \in Int
    BY <1>3, ForeverFact
  <2>2. irq.k \in 0 .. 1
    BY <2>1 DEF Clocks, Mono, Real
  <2> QED
    BY <1>7, <2>1, <2>2
<1>9. n = IF irq.next <= e THEN irq.next ELSE e
  BY <1>8, MinOfTwo
<1> HIDE DEF n
<1>10. n \in 0 .. Forever /\ n <= irq.next /\ n <= e
  BY <1>7, <1>8, <1>9
<1>11. ASSUME NEW v \in Task, timer[v].queued, timer[v].cpu = c, timer[v].clock \in 0 .. hi
       PROVE  n <= 0 \/ n <= At(cpu[c], timer[v])
  <2>1. At(cpu[c], timer[v]) \in Int
    BY <1>1, <1>2, FallsIs
  <2>2. CASE timer[v].clock \in 0 .. irq.k - 1
    <3>1. irq.next <= 0 \/ irq.next <= At(cpu[c], timer[v])
      BY <1>4, <1>11, <2>2 DEF Ahead
    <3> QED
      BY <1>8, <1>9, <1>10, <2>1, <3>1
  <2>3. CASE ~(timer[v].clock \in 0 .. irq.k - 1)
    <3>1. timer[v].clock \in irq.k .. hi
      BY <1>8, <1>11, <2>3
    <3>2. e <= 0 \/ e <= At(cpu[c], timer[v])
      BY <1>6, <1>7, <1>11, <3>1
    <3> QED
      BY <1>8, <1>9, <1>10, <2>1, <3>2
  <2> QED
    BY <2>2, <2>3
<1>12. Ahead(c, cpu[c], timer, n, 0 .. hi)
  BY <1>11 DEF Ahead
<1> QED
  BY <1>10, <1>12 DEF n, e, T, irq

LEMMA ProgramDoes ==
  ASSUME now \in Nat, NEW s \in CpuState, NEW e \in 0 .. Forever
  PROVE  LET u == Program(s, e) IN
         /\ SameBut(s, u) /\ u.softirq = s.softirq /\ u.next = s.next
         /\ u.dev = IF now >= e THEN now ELSE e
<1> DEFINE d == Max({now, e})
           u == Program(s, e)
<1>1. d = (IF now >= e THEN now ELSE e) /\ d \in Nat
  BY MaxOfTwo
<1>2. u = [s EXCEPT !.dev = d]
  BY DEF Program
<1> HIDE DEF d, u
<1>3. u = [online |-> s.online, off |-> s.off, next |-> s.next, dev |-> d, hang |-> s.hang,
           softirq |-> s.softirq, ipi |-> s.ipi, irq |-> s.irq]
  BY <1>2 DEF CpuState
<1>4. /\ SameBut(s, u) /\ u.softirq = s.softirq /\ u.next = s.next /\ u.dev = d
  BY <1>1, <1>3 DEF CpuState, SameBut
<1> QED
  BY <1>1, <1>4 DEF u

LEMMA LeaveStep ==
  ASSUME SleepAssumption, IInv, NEW c \in CPU, Leave(c)
  PROVE  IInv'
<1> DEFINE s == cpu[c]
           irq == cpu[c].irq
           n == Min({irq.next, Earliest(cpu[c], Queued(c, irq.k .. Real))})
           done == [cpu[c] EXCEPT !.next = n, !.hang = FALSE, !.irq = Idle]
           again == [cpu[c] EXCEPT !.next = Forever, !.off = offset,
                          !.irq = [irq EXCEPT !.k = Mono, !.now = now, !.next = Forever,
                                              !.retries = irq.retries + 1]]
           pause == [cpu[c] EXCEPT !.next = n, !.off = offset, !.hang = TRUE, !.irq = Idle,
                                   !.dev = now + Min({now - irq.entry, MaxHang})]
           u == IF n = Forever THEN done
                ELSE IF ~Late(n) THEN Program(done, n)
                ELSE IF irq.retries + 1 < Retries THEN again ELSE pause
<1>1. /\ cpu \in [CPU -> CpuState] /\ s \in CpuState /\ now \in Nat /\ offset \in Int
  BY DEF IInv, Types
<1>2. irq.pc = "run" /\ cpu' = [cpu EXCEPT ![c] = u]
      /\ UNCHANGED <<now, offset, timer, task, calls, events, begun>>
  BY DEF Leave
<1>3. irq # Idle
  BY <1>2, RunIs
<1>4. irq \in [pc : {"run"} \cup Task, k : Clocks, now : Nat, entry : Nat,
               next : 0 .. Forever, retries : Nat]
  BY <1>1, <1>3, IrqIs
<1>5. Real \in Int /\ 0 .. Real = Clocks
  BY DEF Real, Mono, Clocks
<1>6. n \in 0 .. Forever /\ Ahead(c, s, timer, n, Clocks)
  BY <1>3, <1>5, FirstOf
<1>7. irq.entry <= now /\ (s.online /\ ~s.ipi => s.off = offset)
  BY <1>3 DEF IInv, Readies, Ready, Handling, InStep
<1> HIDE DEF s, irq, n
<1>8. /\ done \in CpuState /\ done.next = n /\ done.irq = Idle /\ done.off = s.off
      /\ done.online = s.online /\ done.ipi = s.ipi
  <2>1. done = [s EXCEPT !.next = n, !.hang = FALSE, !.irq = Idle]
    BY DEF s
  <2> HIDE DEF done
  <2>2. done = [online |-> s.online, off |-> s.off, next |-> n, dev |-> s.dev,
                hang |-> FALSE, softirq |-> s.softirq, ipi |-> s.ipi, irq |-> Idle]
    BY <1>1, <2>1 DEF CpuState
  <2> QED
    BY <1>1, <1>6, <2>2 DEF CpuState, IrqState
<1> HIDE DEF done, again, pause
<1>9. CASE n = Forever \/ ~Late(n)
  <2>1. /\ SameBut(done, u) /\ u.next = n
        /\ u.next = Forever \/ u.dev = IF now >= n THEN now ELSE n
    <3>1. CASE n = Forever
      BY <1>8, <3>1 DEF SameBut
    <3>2. CASE n # Forever
      <4>1. u = Program(done, n)
        BY <1>9, <3>2
      <4> HIDE DEF u
      <4> QED
        BY <1>1, <1>6, <1>8, <4>1, ProgramDoes
    <3> QED
      BY <3>1, <3>2
  <2> HIDE DEF u
  <2>2. /\ u \in CpuState /\ u.irq = Idle /\ u.online = s.online /\ u.off = s.off
        /\ u.ipi = s.ipi
    BY <1>8, <2>1 DEF SameBut
  <2>3. Ahead(c, u, timer, u.next, Clocks)
    BY <1>6, <2>1, <2>2 DEF Ahead, At
  <2>4. u.next = Forever \/ u.dev <= now \/ u.dev <= u.next
    BY <1>1, <1>6, <2>1, ForeverFact
  <2>5. Ready(c, u, timer, now, offset)
    BY <1>7, <2>2, <2>3, <2>4 DEF Ready, Handling, Armed, InStep
  <2>6. u.online = cpu[c].online
    BY <2>2 DEF s
  <2> QED
    BY <1>2, <2>2, <2>5, <2>6, OneCpu
<1>10. CASE ~(n = Forever \/ ~Late(n)) /\ irq.retries + 1 < Retries
  <2> DEFINE j == [irq EXCEPT !.k = Mono, !.now = now, !.next = Forever, !.retries = irq.retries + 1]
  <2>1. u = again
    BY <1>10
  <2>2. j = [pc |-> irq.pc, k |-> Mono, now |-> now, entry |-> irq.entry,
             next |-> Forever, retries |-> irq.retries + 1]
    <3>1. j = [irq EXCEPT !.k = Mono, !.now = now, !.next = Forever, !.retries = irq.retries + 1]
      OBVIOUS
    <3> HIDE DEF j
    <3> QED
      BY <1>4, <3>1
  <2> HIDE DEF j
  <2>3. /\ j \in IrqState /\ j.pc = "run" /\ j.now = now /\ j.entry = irq.entry
        /\ j.k = Mono /\ j.next = Forever
    BY <1>1, <1>2, <1>4, <2>2, ForeverFact DEF IrqState, Clocks
  <2>4. j # Idle
    BY <2>3, RunIs
  <2> HIDE DEF u
  <2>5. u = [s EXCEPT !.next = Forever, !.off = offset, !.irq = j]
    BY <2>1 DEF again, s, j
  <2>6. u = [online |-> s.online, off |-> offset, next |-> Forever, dev |-> s.dev,
             hang |-> s.hang, softirq |-> s.softirq, ipi |-> s.ipi, irq |-> j]
    BY <1>1, <2>5 DEF CpuState
  <2>7. u \in CpuState /\ u.online = s.online /\ u.off = offset /\ u.next = Forever
        /\ u.irq = j
    BY <1>1, <2>3, <2>6, ForeverFact DEF CpuState
  <2>8. Begins(s, u)
    BY <1>7, <2>3, <2>4, <2>7 DEF Begins
  <2>9. Ready(c, u, timer, now, offset)
    BY <1>1, <2>8, BeginsReady
  <2>10. u.online = cpu[c].online
    BY <2>7 DEF s
  <2> QED
    BY <1>2, <2>7, <2>9, <2>10, OneCpu
<1>11. CASE ~(n = Forever \/ ~Late(n)) /\ ~(irq.retries + 1 < Retries)
  <2> DEFINE d == now + Min({now - irq.entry, MaxHang})
  <2>1. u = pause
    BY <1>11
  <2>2. irq.entry \in Nat /\ MaxHang \in Nat
    BY <1>4 DEF SleepAssumption
  <2>3. d \in Nat
    <3>1. now - irq.entry \in Nat
      BY <1>1, <1>7, <2>2
    <3>2. Min({now - irq.entry, MaxHang}) \in Nat
      BY <2>2, <3>1, MinOfTwo
    <3> QED
      BY <1>1, <3>2
  <2> HIDE DEF u
  <2>4. u = [s EXCEPT !.next = n, !.off = offset, !.hang = TRUE, !.irq = Idle, !.dev = d]
    BY <2>1 DEF pause, s
  <2> HIDE DEF d
  <2>5. u = [online |-> s.online, off |-> offset, next |-> n, dev |-> d,
             hang |-> TRUE, softirq |-> s.softirq, ipi |-> s.ipi, irq |-> Idle]
    BY <1>1, <2>4 DEF CpuState
  <2>6. u \in CpuState /\ u.online = s.online /\ u.off = offset /\ u.hang /\ u.irq = Idle
    BY <1>1, <1>6, <2>3, <2>5 DEF CpuState, IrqState
  <2>7. Ready(c, u, timer, now, offset)
    BY <2>6 DEF Ready, Handling, Armed, InStep
  <2>8. u.online = cpu[c].online
    BY <2>6 DEF s
  <2> QED
    BY <1>2, <2>6, <2>7, <2>8, OneCpu
<1> QED
  BY <1>9, <1>10, <1>11

LEMMA ExpireStep ==
  ASSUME SleepAssumption, IInv, NEW c \in CPU, NEW clock \in Clocks, NEW t \in Task,
         Expire(c, clock, t)
  PROVE  IInv'
<1> DEFINE s == cpu[c]
           irq == cpu[c].irq
           n == Min({irq.next, Earliest(cpu[c], Queued(c, irq.k .. clock - 1))})
           j == [irq EXCEPT !.pc = t, !.k = clock, !.next = n]
           u == [s EXCEPT !.irq = j]
           a == task[t]
           y == task'[t]
           x == timer[t]
           z == timer'[t]
<1>1. /\ cpu \in [CPU -> CpuState] /\ s \in CpuState /\ now \in Nat /\ offset \in Int
      /\ timer \in [Task -> TimerState] /\ task \in [Task -> TaskState]
      /\ a \in TaskState /\ x \in TimerState /\ begun[t] \in [at : Nat, req : Nat]
  BY DEF IInv, Types
<1>2. /\ irq.pc = "run" /\ t \in Due(c, clock) /\ cpu' = [cpu EXCEPT ![c] = u]
      /\ timer' = [timer EXCEPT ![t].queued = FALSE, ![t].running = TRUE]
      /\ task' = [task EXCEPT ![t].set = FALSE]
      /\ UNCHANGED <<now, offset, calls, events, begun>>
  <2>1. /\ irq.pc = "run" /\ t \in Due(c, clock)
        /\ timer' = [timer EXCEPT ![t].queued = FALSE, ![t].running = TRUE]
        /\ task' = [task EXCEPT ![t].set = FALSE]
        /\ UNCHANGED <<now, offset, calls, events, begun>>
    BY DEF Expire
  <2>2. cpu' = [cpu EXCEPT ![c].irq = j]
    BY Zenon DEF Expire, Before
  <2> HIDE DEF j
  <2>3. cpu' = [cpu EXCEPT ![c] = u]
    BY <1>1, <2>2
  <2> QED
    BY <2>1, <2>3
<1>3. irq # Idle
  BY <1>2, RunIs
<1>4. irq \in [pc : {"run"} \cup Task, k : Clocks, now : Nat, entry : Nat,
               next : 0 .. Forever, retries : Nat]
  BY <1>1, <1>3, IrqIs
<1>5. clock \in Int /\ clock - 1 \in Int
  BY DEF Clocks, Mono, Real
<1>6. n \in 0 .. Forever /\ Ahead(c, s, timer, n, 0 .. clock - 1)
  BY <1>3, <1>5, FirstOf
<1>7. /\ irq.entry <= now /\ irq.now <= now /\ s.next = Forever
      /\ s.online /\ ~s.ipi => s.off = offset
  BY <1>3 DEF IInv, Readies, Ready, Handling, InStep
<1>8. /\ x.queued /\ x.cpu = c /\ x.clock = clock
      /\ x.soft <= irq.now + (IF clock = Real THEN s.off ELSE 0)
  BY <1>2 DEF Due, First, Queue, Off
<1>9. /\ y = [a EXCEPT !.set = FALSE] /\ task' = [task EXCEPT ![t] = y]
      /\ z = [x EXCEPT !.queued = FALSE, !.running = TRUE]
      /\ timer' = [timer EXCEPT ![t] = z]
  BY <1>1, <1>2
<1>10. j = [pc |-> t, k |-> clock, now |-> irq.now, entry |-> irq.entry,
            next |-> n, retries |-> irq.retries]
  <2>1. j = [irq EXCEPT !.pc = t, !.k = clock, !.next = n]
    OBVIOUS
  <2> HIDE DEF j, n, irq
  <2> QED
    BY <1>4, <2>1
<1> HIDE DEF n, j, y, z, a, x
<1>11. /\ j \in IrqState /\ j.pc = t /\ j.now = irq.now /\ j.entry = irq.entry
       /\ j.k = clock /\ j.next = n
  <2> HIDE DEF irq
  <2> QED
    BY <1>4, <1>6, <1>10 DEF IrqState
<1>12. j # Idle
  <2>1. t \in {"run"} \cup Task
    OBVIOUS
  <2> QED
    BY <1>11, <2>1, RunIs
<1> HIDE DEF u
<1>13. /\ u \in CpuState /\ u.online = s.online /\ u.off = s.off /\ u.next = Forever
       /\ u.ipi = s.ipi /\ u.irq = j
  <2>1. u = [s EXCEPT !.irq = j]
    BY DEF u
  <2> HIDE DEF s, irq
  <2>2. u = [online |-> s.online, off |-> s.off, next |-> s.next, dev |-> s.dev,
             hang |-> s.hang, softirq |-> s.softirq, ipi |-> s.ipi, irq |-> j]
    BY <1>1, <2>1 DEF CpuState
  <2> QED
    BY <1>1, <1>7, <1>11, <2>2 DEF CpuState
<1> HIDE DEF s, irq
<1>14. /\ y \in TaskState /\ y.pc = a.pc /\ y.cpu = a.cpu /\ y.call = a.call
  BY <1>1, <1>9 DEF TaskState
<1>15. /\ z \in TimerState /\ ~z.queued /\ z.clock = x.clock /\ z.soft = x.soft
       /\ z.exp = x.exp
  BY <1>1, <1>9 DEF TimerState
<1>16. /\ task' \in [Task -> TaskState] /\ timer' \in [Task -> TimerState]
       /\ \A v \in Task \ {t} : task'[v] = task[v] /\ timer'[v] = timer[v]
       /\ timer'[t] = z /\ task'[t] = y
  BY <1>1, <1>9, <1>14, <1>15
<1>17. /\ cpu' \in [CPU -> CpuState] /\ cpu'[c] = u /\ Online' = Online
       /\ \A d \in CPU \ {c} : cpu'[d] = cpu[d]
  <2>1. /\ cpu' \in [CPU -> CpuState] /\ cpu'[c] = u
        /\ \A d \in CPU \ {c} : cpu'[d] = cpu[d]
    BY <1>1, <1>2, <1>13
  <2>2. \A d \in CPU : cpu'[d].online = cpu[d].online
    BY <1>13, <2>1 DEF s
  <2> QED
    BY <2>1, <2>2, OnlineIs
<1>18. Types'
  BY <1>2, <1>16, <1>17 DEF IInv, Types
<1>19. Ready(c, u, timer', now, offset)
  <2>1. Ahead(c, u, timer', u.irq.next, 0 .. u.irq.k - 1)
    <3>1. SUFFICES ASSUME NEW v \in Task, timer'[v].queued, timer'[v].cpu = c,
                          timer'[v].clock \in 0 .. clock - 1
                   PROVE  n <= 0 \/ n <= At(u, timer'[v])
      BY <1>11, <1>13 DEF Ahead
    <3>2. v # t /\ timer'[v] = timer[v]
      BY <1>15, <1>16, <3>1
    <3>3. At(u, timer'[v]) = At(s, timer[v])
      BY <1>13, <3>2 DEF At
    <3> QED
      BY <1>6, <3>1, <3>2, <3>3 DEF Ahead
  <2>2. u.irq.now <= now /\ u.irq.entry <= now
    BY <1>7, <1>11, <1>13
  <2> QED
    BY <1>7, <1>12, <1>13, <2>1, <2>2 DEF Ready, Handling, Armed, InStep
<1>20. now <= now'
  BY <1>1, <1>2
<1>21. Readies'
  <2>1. \A v \in Task : timer'[v].queued =>
          /\ timer[v].queued /\ timer'[v].cpu = timer[v].cpu
          /\ timer'[v].clock = timer[v].clock /\ timer'[v].exp = timer[v].exp
    BY <1>15, <1>16
  <2>2. Ready(c, cpu'[c], timer', now', offset') /\ offset' = offset
    BY <1>2, <1>17, <1>19
  <2> QED
    BY <1>17, <1>18, <1>20, <2>1, <2>2, ReadiesNext
<1>22. Sound(t, task'[t], timer'[t], begun'[t], now', Online')
  <2>1. Sound(t, a, x, begun[t], now, Online)
    BY DEF IInv, Sounds, a, x
  <2>2. End(t, begun[t]) \in Nat /\ x.soft \in Int /\ irq.now \in Nat
    BY <1>1, <1>4, EndIs DEF TimerState
  <2>3. a.pc # "user" /\ a.call = "nanosleep" =>
          z.clock = Mono /\ End(t, begun[t]) <= z.soft /\ End(t, begun[t]) <= now
    <3>1. SUFFICES ASSUME a.pc # "user", a.call = "nanosleep"
                   PROVE  /\ z.clock = Mono /\ End(t, begun[t]) <= z.soft
                          /\ End(t, begun[t]) <= now
      OBVIOUS
    <3>2. x.clock = Mono /\ End(t, begun[t]) <= x.soft
      BY <2>1, <3>1 DEF Sound
    <3>3. x.soft <= irq.now + 0
      BY <1>8, <3>2 DEF Mono, Real
    <3> QED
      BY <1>1, <1>7, <1>15, <2>2, <3>2, <3>3
  <2>4. /\ z.soft <= z.exp /\ a.pc \in {"started", "cancel"}
        /\ a.pc # "user" => a.cpu \in Online
    BY <1>8, <1>15, <2>1 DEF Sound
  <2>5. Sound(t, y, z, begun[t], now, Online)
    BY <1>14, <2>3, <2>4 DEF Sound
  <2> QED
    BY <1>2, <1>16, <1>17, <2>5
<1>23. Sounds'
  <2>1. Online \subseteq Online' /\ \A v \in Task \ {t} : begun'[v] = begun[v]
    BY <1>2, <1>17
  <2> QED
    BY <1>16, <1>18, <1>20, <1>22, <2>1, SoundsNext
<1> QED
  BY <1>18, <1>21, <1>23 DEF IInv

LEMMA ExpiredStep ==
  ASSUME SleepAssumption, IInv, NEW c \in CPU, NEW t \in Task, NEW to \in Online,
         Expired(c, t, to)
  PROVE  IInv'
<1> DEFINE s == cpu[c]
           irq == cpu[c].irq
           j == [irq EXCEPT !.pc = "run"]
           u == [s EXCEPT !.irq = j]
           a == task[t]
           y == task'[t]
           x == timer[t]
           z == timer'[t]
           p == IF task[t].waits THEN to ELSE task[t].cpu
<1>1. /\ cpu \in [CPU -> CpuState] /\ s \in CpuState /\ now \in Nat /\ offset \in Int
      /\ timer \in [Task -> TimerState] /\ task \in [Task -> TaskState]
      /\ a \in TaskState /\ x \in TimerState
  BY DEF IInv, Types
<1>2. /\ irq.pc = t
      /\ timer' = [timer EXCEPT ![t].running = FALSE]
      /\ task' = [task EXCEPT ![t].waits = FALSE, ![t].cpu = IF task[t].waits THEN to ELSE @]
      /\ cpu' = [cpu EXCEPT ![c].irq.pc = "run"]
      /\ UNCHANGED <<now, offset, calls, events, begun>>
  BY DEF Expired
<1>3. irq # Idle
  <2>1. t \in {"run"} \cup Task
    OBVIOUS
  <2> QED
    BY <1>2, <2>1, RunIs
<1>4. irq \in [pc : {"run"} \cup Task, k : Clocks, now : Nat, entry : Nat,
               next : 0 .. Forever, retries : Nat]
  BY <1>1, <1>3, IrqIs
<1>5. /\ irq.entry <= now /\ irq.now <= now /\ s.next = Forever
      /\ Ahead(c, s, timer, irq.next, 0 .. irq.k - 1)
      /\ s.online /\ ~s.ipi => s.off = offset
  BY <1>3 DEF IInv, Readies, Ready, Handling, InStep
<1>6. cpu' = [cpu EXCEPT ![c] = u]
  BY <1>1, <1>2
<1>7. /\ y = [a EXCEPT !.waits = FALSE, !.cpu = p] /\ task' = [task EXCEPT ![t] = y]
      /\ z = [x EXCEPT !.running = FALSE] /\ timer' = [timer EXCEPT ![t] = z]
  BY <1>1, <1>2
<1>8. p \in CPU \cup {NoOne} /\ (p = a.cpu \/ p \in Online)
  BY <1>1, OnlineIs DEF TaskState
<1>9. j = [pc |-> "run", k |-> irq.k, now |-> irq.now, entry |-> irq.entry,
           next |-> irq.next, retries |-> irq.retries]
  <2>1. j = [irq EXCEPT !.pc = "run"]
    OBVIOUS
  <2> HIDE DEF j, irq
  <2> QED
    BY <1>4, <2>1
<1> HIDE DEF j, y, z, a, x, p
<1>10. /\ j \in IrqState /\ j.pc = "run" /\ j.now = irq.now /\ j.entry = irq.entry
       /\ j.k = irq.k /\ j.next = irq.next
  <2> HIDE DEF irq
  <2> QED
    BY <1>4, <1>9 DEF IrqState
<1>11. j # Idle
  BY <1>10, RunIs
<1> HIDE DEF u
<1>12. /\ u \in CpuState /\ u.online = s.online /\ u.off = s.off /\ u.next = Forever
       /\ u.ipi = s.ipi /\ u.irq = j
  <2>1. u = [s EXCEPT !.irq = j]
    BY DEF u
  <2> HIDE DEF s, irq
  <2>2. u = [online |-> s.online, off |-> s.off, next |-> s.next, dev |-> s.dev,
             hang |-> s.hang, softirq |-> s.softirq, ipi |-> s.ipi, irq |-> j]
    BY <1>1, <2>1 DEF CpuState
  <2> QED
    BY <1>1, <1>5, <1>10, <2>2 DEF CpuState
<1>13. /\ y \in TaskState /\ y.pc = a.pc /\ y.cpu = p /\ y.call = a.call /\ y.set = a.set
  BY <1>1, <1>7, <1>8 DEF TaskState
<1>14. /\ z \in TimerState /\ z.queued = x.queued /\ ~z.running /\ z.cpu = x.cpu
       /\ z.clock = x.clock /\ z.soft = x.soft /\ z.exp = x.exp
  BY <1>1, <1>7 DEF TimerState
<1>15. /\ task' \in [Task -> TaskState] /\ timer' \in [Task -> TimerState]
       /\ \A v \in Task \ {t} : task'[v] = task[v] /\ timer'[v] = timer[v]
       /\ timer'[t] = z /\ task'[t] = y
  BY <1>1, <1>7, <1>13, <1>14
<1> HIDE DEF s, irq
<1>16. /\ cpu' \in [CPU -> CpuState] /\ cpu'[c] = u /\ Online' = Online
       /\ \A d \in CPU \ {c} : cpu'[d] = cpu[d]
  <2>1. /\ cpu' \in [CPU -> CpuState] /\ cpu'[c] = u
        /\ \A d \in CPU \ {c} : cpu'[d] = cpu[d]
    BY <1>1, <1>6, <1>12
  <2>2. \A d \in CPU : cpu'[d].online = cpu[d].online
    BY <1>12, <2>1 DEF s
  <2> QED
    BY <2>1, <2>2, OnlineIs
<1>17. Types'
  BY <1>2, <1>15, <1>16 DEF IInv, Types
<1>18. \A v \in Task : timer'[v].queued =>
         /\ timer[v].queued /\ timer'[v].cpu = timer[v].cpu
         /\ timer'[v].clock = timer[v].clock /\ timer'[v].exp = timer[v].exp
  BY <1>14, <1>15 DEF x
<1>19. Ready(c, u, timer', now, offset)
  <2>1. Ahead(c, u, timer', u.irq.next, 0 .. u.irq.k - 1)
    <3>1. SUFFICES ASSUME NEW v \in Task, timer'[v].queued, timer'[v].cpu = c,
                          timer'[v].clock \in 0 .. irq.k - 1
                   PROVE  irq.next <= 0 \/ irq.next <= At(u, timer'[v])
      BY <1>10, <1>12 DEF Ahead
    <3>2. At(u, timer'[v]) = At(s, timer[v])
      BY <1>12, <1>18, <3>1 DEF At
    <3> QED
      BY <1>5, <1>18, <3>1, <3>2 DEF Ahead
  <2>2. u.irq.now <= now /\ u.irq.entry <= now
    BY <1>5, <1>10, <1>12
  <2> QED
    BY <1>5, <1>11, <1>12, <2>1, <2>2 DEF Ready, Handling, Armed, InStep
<1>20. now <= now'
  BY <1>1, <1>2
<1>21. Readies'
  <2>1. Ready(c, cpu'[c], timer', now', offset') /\ offset' = offset
    BY <1>2, <1>16, <1>19
  <2> QED
    BY <1>16, <1>17, <1>18, <1>20, <2>1, ReadiesNext
<1>22. Sound(t, task'[t], timer'[t], begun'[t], now', Online')
  <2>1. Sound(t, a, x, begun[t], now, Online)
    BY DEF IInv, Sounds, a, x
  <2>2. Sound(t, y, z, begun[t], now, Online)
    BY <1>8, <1>13, <1>14, <2>1 DEF Sound
  <2> QED
    BY <1>2, <1>15, <1>16, <2>2
<1>23. Sounds'
  <2>1. Online \subseteq Online' /\ \A v \in Task \ {t} : begun'[v] = begun[v]
    BY <1>2, <1>16
  <2> QED
    BY <1>15, <1>17, <1>20, <1>22, <2>1, SoundsNext
<1> QED
  BY <1>17, <1>21, <1>23 DEF IInv

----------------------------------------------------------------------------
(* Steps of all CPUs.                                                      *)

LEMMA SetClockStep ==
  ASSUME SleepAssumption, IInv, NEW step \in Steps, SetClock(step)
  PROVE  IInv'
<1>1. /\ cpu \in [CPU -> CpuState] /\ now \in Nat /\ offset \in Int /\ events \in Nat
      /\ step \in Int
  <2>1. step \in Int
    BY DEF SleepAssumption
  <2> QED
    BY <2>1 DEF IInv, Types
<1>2. /\ offset' = offset + step /\ events' = events + 1
      /\ cpu' = [c \in CPU |-> [cpu[c] EXCEPT !.ipi = cpu[c].online]]
      /\ UNCHANGED <<now, timer, task, calls, begun>>
  BY DEF SetClock, Event
<1>3. ASSUME NEW c \in CPU
      PROVE  /\ cpu'[c] \in CpuState /\ cpu'[c].online = cpu[c].online
             /\ Ready(c, cpu'[c], timer, now, offset')
  <2> DEFINE s == cpu[c]
             u == cpu'[c]
  <2>1. s \in CpuState /\ u = [s EXCEPT !.ipi = s.online]
    BY <1>1, <1>2
  <2>2. Handling(c, s, timer, now)
    BY DEF IInv, Readies, Ready
  <2> HIDE DEF s, u
  <2>3. /\ u \in CpuState /\ u.online = s.online /\ u.ipi = s.online /\ u.irq = s.irq
        /\ u.next = s.next /\ u.off = s.off
    BY <2>1 DEF CpuState
  <2>4. Handling(c, u, timer, now)
    BY <2>2, <2>3 DEF Handling, Ahead, At
  <2>5. Armed(c, u, timer, now) /\ InStep(u, offset')
    BY <2>3 DEF Armed, InStep
  <2> QED
    BY <2>3, <2>4, <2>5 DEF Ready, s, u
<1>4. Types'
  <2>1. cpu' \in [CPU -> CpuState]
    BY <1>2, <1>3
  <2> QED
    BY <1>1, <1>2, <2>1 DEF IInv, Types
<1>5. Online' = Online
  BY <1>3, OnlineIs
<1>6. Sounds'
  BY <1>2, <1>5 DEF IInv, Sounds
<1>7. Readies'
  BY <1>2, <1>3 DEF Readies
<1> QED
  BY <1>4, <1>6, <1>7 DEF IInv

LEMMA OfflineStep ==
  ASSUME SleepAssumption, IInv, NEW c \in CPU, NEW to \in Online, Offline(c, to)
  PROVE  IInv'
<1> DEFINE s == cpu[c]
           u == cpu'[c]
<1>1. /\ cpu \in [CPU -> CpuState] /\ s \in CpuState /\ now \in Nat /\ offset \in Int
      /\ events \in Nat /\ task \in [Task -> TaskState] /\ to \in CPU
  BY OnlineIs DEF IInv, Types
<1>2. /\ to \in Online \ {c} /\ s.irq = Idle /\ events' = events + 1
      /\ cpu' = [cpu EXCEPT ![c].online = FALSE, ![c].dev = Forever]
      /\ task' = [t \in Task |-> [task[t] EXCEPT !.cpu = IF @ = c THEN to ELSE @]]
      /\ UNCHANGED <<now, offset, timer, calls, begun>>
  BY DEF Offline, Event
<1>3. u = [s EXCEPT !.online = FALSE, !.dev = Forever] /\ cpu' = [cpu EXCEPT ![c] = u]
  BY <1>1, <1>2
<1> HIDE DEF s, u
<1>4. u \in CpuState /\ ~u.online /\ u.irq = Idle
  <2>1. u = [online |-> FALSE, off |-> s.off, next |-> s.next, dev |-> Forever,
             hang |-> s.hang, softirq |-> s.softirq, ipi |-> s.ipi, irq |-> s.irq]
    BY <1>1, <1>3 DEF CpuState
  <2>2. Forever \in Nat
    BY ForeverFact
  <2> QED
    BY <1>1, <1>2, <2>1, <2>2 DEF CpuState
<1>5. /\ cpu' \in [CPU -> CpuState] /\ cpu'[c] = u
      /\ \A d \in CPU \ {c} : cpu'[d] = cpu[d]
  BY <1>1, <1>3, <1>4
<1>6. Online' = Online \ {c}
  BY <1>4, <1>5, OnlineIs
<1>7. ASSUME NEW t \in Task
      PROVE  /\ task'[t] \in TaskState /\ task'[t].pc = task[t].pc
             /\ task'[t].call = task[t].call /\ task'[t].set = task[t].set
             /\ task'[t].cpu = IF task[t].cpu = c THEN to ELSE task[t].cpu
  <2> DEFINE a == task[t]
             y == task'[t]
             p == IF a.cpu = c THEN to ELSE a.cpu
  <2>1. a \in TaskState /\ y = [a EXCEPT !.cpu = p]
    BY <1>1, <1>2
  <2>2. p \in CPU \cup {NoOne}
    BY <1>1, <2>1 DEF TaskState
  <2> HIDE DEF a, y, p
  <2>3. y \in TaskState /\ y.pc = a.pc /\ y.call = a.call /\ y.set = a.set /\ y.cpu = p
    BY <2>1, <2>2 DEF TaskState
  <2> QED
    BY <2>3 DEF a, y, p
<1>8. Types'
  <2>1. task' \in [Task -> TaskState]
    BY <1>2, <1>7
  <2> QED
    BY <1>1, <1>2, <1>5, <2>1 DEF IInv, Types
<1>9. Ready(c, u, timer, now, offset)
  BY <1>4 DEF Ready, Handling, Armed, InStep
<1>10. Readies'
  <2>1. now <= now' /\ Ready(c, cpu'[c], timer', now', offset') /\ offset' = offset
    BY <1>1, <1>2, <1>5, <1>9
  <2>2. \A v \in Task : timer'[v].queued =>
          /\ timer[v].queued /\ timer'[v].cpu = timer[v].cpu
          /\ timer'[v].clock = timer[v].clock /\ timer'[v].exp = timer[v].exp
    BY <1>2
  <2> QED
    BY <1>5, <1>8, <2>1, <2>2, ReadiesNext
<1>11. Sounds'
  <2>1. SUFFICES ASSUME NEW t \in Task
                 PROVE  Sound(t, task'[t], timer[t], begun[t], now, Online')
    BY <1>2 DEF Sounds
  <2>2. Sound(t, task[t], timer[t], begun[t], now, Online)
    BY DEF IInv, Sounds
  <2>3. task[t].cpu \in Online => task'[t].cpu \in Online'
    BY <1>2, <1>6, <1>7
  <2> QED
    BY <1>7, <2>2, <2>3 DEF Sound
<1> QED
  BY <1>8, <1>10, <1>11 DEF IInv

LEMMA MigrateStep ==
  ASSUME SleepAssumption, IInv, NEW c \in CPU, NEW to \in Online, Migrate(c, to)
  PROVE  IInv'
<1> DEFINE u == Entered(cpu[to])
<1>1. /\ cpu \in [CPU -> CpuState] /\ now \in Nat /\ offset \in Int
      /\ timer \in [Task -> TimerState] /\ to \in CPU /\ cpu[to] \in CpuState
  BY OnlineIs DEF IInv, Types
<1>2. /\ cpu' = [cpu EXCEPT ![to] = u]
      /\ timer' = [t \in Task |-> IF timer[t].queued /\ timer[t].cpu = c
                                  THEN [timer[t] EXCEPT !.cpu = to] ELSE timer[t]]
      /\ UNCHANGED <<now, offset, task, calls, events, begun>>
  BY DEF Migrate
<1>3. Begins(cpu[to], u)
  BY <1>1, EnteredIs
<1> HIDE DEF u
<1>4. /\ cpu' \in [CPU -> CpuState] /\ cpu'[to] = u
      /\ \A d \in CPU \ {to} : cpu'[d] = cpu[d]
  BY <1>1, <1>2, <1>3 DEF Begins
<1>5. Online' = Online
  <2>1. \A d \in CPU : cpu'[d].online = cpu[d].online
    BY <1>3, <1>4 DEF Begins
  <2> QED
    BY <2>1, OnlineIs
<1>6. ASSUME NEW t \in Task
      PROVE  /\ timer'[t] \in TimerState /\ timer'[t].queued = timer[t].queued
             /\ timer'[t].running = timer[t].running
             /\ timer'[t].clock = timer[t].clock /\ timer'[t].soft = timer[t].soft
             /\ timer'[t].exp = timer[t].exp
             /\ timer'[t].cpu = timer[t].cpu \/ timer'[t].cpu = to
  <2> DEFINE x == timer[t]
             z == timer'[t]
  <2>1. x \in TimerState /\ z = IF x.queued /\ x.cpu = c THEN [x EXCEPT !.cpu = to] ELSE x
    BY <1>1, <1>2
  <2> HIDE DEF x, z
  <2>2. CASE x.queued /\ x.cpu = c
    <3>1. z = [x EXCEPT !.cpu = to]
      BY <2>1, <2>2
    <3>2. /\ z \in TimerState /\ z.queued = x.queued /\ z.running = x.running
          /\ z.clock = x.clock /\ z.soft = x.soft /\ z.exp = x.exp /\ z.cpu = to
      BY <1>1, <2>1, <3>1 DEF TimerState
    <3> QED
      BY <3>2 DEF x, z
  <2>3. CASE ~(x.queued /\ x.cpu = c)
    BY <2>1, <2>3 DEF x, z
  <2> QED
    BY <2>2, <2>3
<1>7. Types'
  <2>1. timer' \in [Task -> TimerState]
    BY <1>2, <1>6
  <2> QED
    BY <1>2, <1>4, <2>1 DEF IInv, Types
<1>8. Readies'
  <2>1. ASSUME NEW d \in CPU PROVE Ready(d, cpu'[d], timer', now, offset)
    <3>1. CASE d = to
      BY <1>1, <1>3, <1>4, <3>1, BeginsReady
    <3>2. CASE d # to
      <4>1. /\ cpu'[d] = cpu[d] /\ cpu[d] \in CpuState
            /\ Ready(d, cpu[d], timer, now, offset)
        BY <1>1, <1>4, <3>2 DEF IInv, Readies
      <4>2. \A v \in Task : timer'[v].queued /\ timer'[v].cpu = d =>
              /\ timer[v].queued /\ timer[v].cpu = d
              /\ timer'[v].clock = timer[v].clock /\ timer'[v].exp = timer[v].exp
        BY <1>6, <3>2
      <4>3. /\ now \in Int /\ now <= now /\ timer' \in [Task -> TimerState]
        BY <1>1, <1>7 DEF Types
      <4>4. Ready(d, cpu[d], timer', now, offset)
        BY <1>1, <4>1, <4>2, <4>3, ReadyKept, ZenonT(60)
      <4> QED
        BY <4>1, <4>4
    <3> QED
      BY <3>1, <3>2
  <2> QED
    BY <1>2, <2>1 DEF Readies
<1>9. Sounds'
  <2>1. SUFFICES ASSUME NEW t \in Task
                 PROVE  Sound(t, task[t], timer'[t], begun[t], now, Online)
    BY <1>2, <1>5 DEF Sounds
  <2>2. Sound(t, task[t], timer[t], begun[t], now, Online)
    BY DEF IInv, Sounds
  <2> QED
    BY <1>6, <2>2 DEF Sound
<1> QED
  BY <1>7, <1>8, <1>9 DEF IInv

----------------------------------------------------------------------------
(* The theorems.                                                           *)

LEMMA InitIInv == SleepAssumption /\ Init => IInv
<1> SUFFICES ASSUME SleepAssumption, Init PROVE IInv
  OBVIOUS
<1> DEFINE s == [online |-> TRUE, off |-> 0, next |-> Forever, dev |-> Forever,
                 hang |-> FALSE, softirq |-> FALSE, ipi |-> FALSE, irq |-> Idle]
<1>1. /\ now = 0 /\ offset = 0 /\ calls = 0 /\ events = 0 /\ cpu = [c \in CPU |-> s]
      /\ task = [t \in Task |-> InUser] /\ timer = [t \in Task |-> NoTimer]
      /\ begun = [t \in Task |-> NotBegun]
  BY DEF Init
<1>2. s \in CpuState /\ s.online /\ s.off = 0 /\ s.next = Forever /\ s.irq = Idle
  BY DEF CpuState, IrqState, Forever
<1> HIDE DEF s
<1>3. now \in 0 .. Span
  BY <1>1 DEF SleepAssumption
<1>4. Types
  <2>1. begun \in [Task -> [at : Nat, req : Nat]]
    BY <1>1 DEF NotBegun
  <2>2. task \in [Task -> TaskState] /\ timer \in [Task -> TimerState]
        /\ cpu \in [CPU -> CpuState]
    BY <1>1, <1>2, InUserIs, NoTimerIs
  <2> QED
    BY <1>1, <1>3, <2>1, <2>2 DEF Types
<1>5. Sounds
  <2>1. NoTimer.soft <= NoTimer.exp
    BY NoTimerIs
  <2> QED
    BY <1>1, <2>1, InUserIs, NoTimerIs DEF Sounds, Sound
<1>6. ASSUME NEW c \in CPU PROVE Ready(c, cpu[c], timer, now, offset)
  <2>1. cpu[c] = s /\ \A t \in Task : ~timer[t].queued
    BY <1>1, NoTimerIs
  <2> QED
    BY <1>1, <1>2, <2>1 DEF Ready, Handling, Armed, InStep, Ahead
<1> QED
  BY <1>4, <1>5, <1>6 DEF IInv, Readies

LEMMA NextIInv == SleepAssumption /\ IInv /\ [Next]_vars => IInv'
<1> SUFFICES ASSUME SleepAssumption, IInv, [Next]_vars PROVE IInv'
  OBVIOUS
<1>1. CASE UNCHANGED vars
  <2>1. UNCHANGED <<now, offset, cpu, timer, task, calls, events, begun>>
    BY <1>1 DEF vars
  <2> QED
    BY <2>1 DEF IInv, Types, Sounds, Readies, Online
<1>2. CASE Tick
  BY <1>2, TickStep
<1>3. ASSUME NEW t \in Task, NEW c \in Online, NEW to \in Online, NEW req \in Requests,
             \/ Nanosleep(t, req, c, to) \/ Timeout(t, req, c, to)
             \/ NanosleepUntil(t, req, c, to)
      PROVE  IInv'
  BY <1>3, NanosleepStep, OtherCallStep
<1>4. ASSUME NEW t \in Task, NEW signal \in {NoOne, "stop", "alarm"}, Rouse(t, signal)
      PROVE  IInv'
  BY <1>4, RouseStep
<1>5. ASSUME NEW t \in Task, Proceed(t)
      PROVE  IInv'
  <2>1. ASSUME NEW to \in Online, Again(t, to) \/ Restart(t, to) PROVE IInv'
    BY <2>1, AgainStep, RestartStep
  <2> QED
    BY <1>5, <2>1, WakeStep, CancelStep, HandleStep DEF Proceed
<1>6. ASSUME NEW c \in CPU, Interrupt(c)
      PROVE  IInv'
  <2>1. ASSUME NEW t \in Task, NEW clock \in {Mono, Real}, Expire(c, clock, t) PROVE IInv'
    BY <2>1, ExpireStep DEF Clocks
  <2>2. ASSUME NEW t \in Task, NEW to \in Online, Expired(c, t, to) PROVE IInv'
    BY <2>2, ExpiredStep
  <2> QED
    BY <1>6, <2>1, <2>2, EnterStep, LeaveStep, RetriggerStep DEF Interrupt
<1>7. ASSUME NEW c \in CPU, NEW to \in Online, Offline(c, to) \/ Migrate(c, to)
      PROVE  IInv'
  BY <1>7, OfflineStep, MigrateStep
<1>8. ASSUME NEW step \in Steps, SetClock(step)
      PROVE  IInv'
  BY <1>8, SetClockStep
<1> QED
  BY <1>1, <1>2, <1>3, <1>4, <1>5, <1>6, <1>7, <1>8 DEF Next

\* The invariant of every behaviour: what each task, its timer and its call
\* owe each other (Sounds), and what each CPU knows of its queues (Readies).
THEOREM AlwaysIInv == Spec => []IInv
<1>1. Init => IInv
  BY InitIInv, SleepAssumption
<1>2. IInv /\ [Next]_vars => IInv'
  BY NextIInv, SleepAssumption
<1> QED
  BY <1>1, <1>2, PTL DEF Spec

LEMMA IInvTypes == IInv => TypeOK
<1> SUFFICES ASSUME IInv PROVE TypeOK
  OBVIOUS
<1>1. \A t \in Task : timer[t].soft <= timer[t].exp
                      /\ (task[t].pc # "user" => task[t].cpu \in Online)
  BY DEF IInv, Sounds, Sound
<1> QED
  BY <1>1 DEF IInv, Types, TypeOK

\* In every state clocks, event devices, interrupts and timers are of their types,
\* no timer's soft expiry is after its hard one, and a task in a system call is on
\* a CPU that is online, though CPUs die and tasks migrate.
THEOREM AlwaysTypeOK == Spec => []TypeOK
BY IInvTypes, AlwaysIInv, PTL

\* In every behaviour a timer is on a queue or in a callback only while its
\* task is in the sleep whose stack holds it, with any number of CPUs, tasks,
\* signals and stray wakeups.
THEOREM AlwaysTimerOffStack == Spec => []TimerOffStack
<1>1. IInv => TimerOffStack
  <2> SUFFICES ASSUME IInv, NEW t \in Task, task[t].pc \in {"user", "interrupted", "stopped"}
               PROVE  ~timer[t].queued /\ ~timer[t].running
    BY DEF TimerOffStack
  <2>1. timer[t].queued \/ timer[t].running => task[t].pc \in {"started", "cancel"}
    BY DEF IInv, Sounds, Sound
  <2> QED
    BY <2>1
<1> QED
  BY <1>1, AlwaysIInv, PTL

\* In every behaviour a CPU that has nothing to do for its timers has its event
\* device armed for the first of them, however timers come to its queues, the
\* clock is set and CPUs die.
THEOREM AlwaysNoTimerForgotten == Spec => []NoTimerForgotten
<1>1. IInv => NoTimerForgotten
  <2> SUFFICES ASSUME IInv, NEW c \in Online,
                      cpu[c].irq = Idle, ~cpu[c].softirq, ~cpu[c].ipi, ~cpu[c].hang
               PROVE  LET e == Earliest([cpu[c] EXCEPT !.off = offset], Queued(c, Clocks))
                      IN  cpu[c].dev <= Max({now, e}) \/ e = Forever
    BY IInvTypes DEF NoTimerForgotten
  <2> DEFINE s == [cpu[c] EXCEPT !.off = offset]
             T == Queued(c, Clocks)
             e == Earliest(s, T)
             n == cpu[c].next
  <2>1. /\ c \in CPU /\ cpu[c].online /\ cpu[c] \in CpuState /\ now \in Nat /\ offset \in Int
        /\ timer \in [Task -> TimerState]
    BY OnlineIs DEF IInv, Types
  <2>2. Ready(c, cpu[c], timer, now, offset)
    BY <2>1 DEF IInv, Readies
  <2>3. /\ Ahead(c, cpu[c], timer, n, Clocks) /\ cpu[c].off = offset
        /\ n = Forever \/ cpu[c].dev <= now \/ cpu[c].dev <= n
    BY <2>1, <2>2 DEF Ready, Armed, InStep
  <2>4. s.off = offset
    BY <2>1 DEF CpuState
  <2>5. T \subseteq Task /\ \A v \in T :
          timer[v].queued /\ timer[v].cpu = c /\ timer[v].clock \in Clocks
    BY DEF Queued, Queue
  <2>6. n \in Int /\ n <= Forever /\ cpu[c].dev \in Int
    BY <2>1, ForeverFact DEF CpuState
  <2> HIDE DEF s, T, n
  <2>7. \A v \in T : n <= 0 \/ n <= At(s, timer[v])
    BY <2>3, <2>4, <2>5 DEF Ahead, At
  <2>8. e \in 0 .. Forever /\ n <= e
    BY <2>1, <2>4, <2>5, <2>6, <2>7, EarliestIs
  <2> HIDE DEF e
  <2>9. e \in Int /\ e <= Forever
    BY <2>8, ForeverFact
  <2>10. Max({now, e}) = IF now >= e THEN now ELSE e
    BY <2>1, <2>9, MaxOfTwo
  <2>11. cpu[c].dev <= Max({now, e}) \/ e = Forever
    BY <2>1, <2>3, <2>6, <2>8, <2>9, <2>10, ForeverFact
  <2> QED
    BY <2>11 DEF s, T, e
<1> QED
  BY <1>1, AlwaysIInv, PTL

\* Only the end of a cancelled sleep takes a task from there to user space.
LEMMA OnlyCancel ==
  ASSUME IInv, Next, NEW t \in Task, task[t].pc = "cancel", task'[t].pc = "user"
  PROVE  Cancel(t)
<1>1. task \in [Task -> TaskState]
  BY DEF IInv, Types
<1>2. task' # task
  OBVIOUS
<1>3. ASSUME NEW u \in Task, Wake(u) \/ Handle(u)
      PROVE  FALSE
  <2>1. u # t
    BY <1>3 DEF Wake, Handle, Runs
  <2> QED
    BY <1>1, <1>3, <2>1 DEF Wake, Handle
<1>4. ASSUME NEW u \in Task, NEW to \in Online, Again(u, to) \/ Restart(u, to)
      PROVE  FALSE
  <2>1. u # t
    BY <1>4 DEF Again, Restart, Runs
  <2> QED
    BY <1>1, <1>4, <2>1 DEF Again, Restart, Sleeping
<1>5. ASSUME NEW u \in Task, NEW c \in Online, NEW call, Call(u, c, call)
      PROVE  FALSE
  <2>1. u # t
    BY <1>5 DEF Call
  <2> QED
    BY <1>1, <1>5, <2>1 DEF Call, Sleeping
<1>6. ASSUME NEW u \in Task, NEW signal, Rouse(u, signal)
      PROVE  FALSE
  <2>1. task' = [task EXCEPT ![u] = [@ EXCEPT !.signal = signal, !.waits = FALSE]]
    BY <1>6 DEF Rouse
  <2>2. task'[u] = [task[u] EXCEPT !.signal = signal, !.waits = FALSE]
    BY <1>1, <2>1
  <2>3. task'[u].pc = task[u].pc
    BY <1>1, <2>2 DEF TaskState
  <2> QED
    BY <1>1, <2>1, <2>3
<1>7. ASSUME NEW c, NEW k, NEW u \in Task, Expire(c, k, u)
      PROVE  FALSE
  <2>1. task' = [task EXCEPT ![u].set = FALSE]
    BY <1>7 DEF Expire
  <2>2. task'[u] = [task[u] EXCEPT !.set = FALSE]
    BY <1>1, <2>1
  <2>3. task'[u].pc = task[u].pc
    BY <1>1, <2>2 DEF TaskState
  <2> QED
    BY <1>1, <2>1, <2>3
<1>8. ASSUME NEW c, NEW u \in Task, NEW to, Expired(c, u, to)
      PROVE  FALSE
  <2> DEFINE p == IF task[u].waits THEN to ELSE task[u].cpu
  <2>1. task' = [task EXCEPT ![u].waits = FALSE, ![u].cpu = IF task[u].waits THEN to ELSE @]
    BY <1>8 DEF Expired
  <2>2. task'[u] = [task[u] EXCEPT !.waits = FALSE, !.cpu = p]
    BY <1>1, <2>1
  <2> HIDE DEF p
  <2>3. task'[u].pc = task[u].pc
    BY <1>1, <2>2 DEF TaskState
  <2> QED
    BY <1>1, <2>1, <2>3
<1>9. ASSUME NEW c, NEW to, Offline(c, to)
      PROVE  FALSE
  <2> DEFINE p == IF task[t].cpu = c THEN to ELSE task[t].cpu
  <2>1. task' = [v \in Task |-> [task[v] EXCEPT !.cpu = IF @ = c THEN to ELSE @]]
    BY <1>9 DEF Offline
  <2>2. task'[t] = [task[t] EXCEPT !.cpu = p]
    BY <1>1, <2>1
  <2> HIDE DEF p
  <2>3. task'[t].pc = task[t].pc
    BY <1>1, <2>2 DEF TaskState
  <2> QED
    BY <2>3
<1>10. ASSUME NEW u \in Task, Cancel(u)
       PROVE  u = t
  BY <1>1, <1>10 DEF Cancel, Cancelled
<1>11. ~Tick /\ (\A step \in Steps : ~SetClock(step))
       /\ \A c \in CPU : ~Enter(c) /\ ~Leave(c) /\ ~Retrigger(c)
                         /\ \A to \in Online : ~Migrate(c, to)
  BY <1>2, Zenon DEF Tick, SetClock, Enter, Leave, Retrigger, Migrate
<1>12. \A u \in Task, c \in Online, to \in Online, req \in Requests :
         ~(Nanosleep(u, req, c, to) \/ Timeout(u, req, c, to) \/ NanosleepUntil(u, req, c, to))
  BY <1>5 DEF Nanosleep, Timeout, NanosleepUntil
<1>13. \A c \in CPU : ~Interrupt(c) /\ \A to \in Online : ~Offline(c, to)
  BY <1>7, <1>8, <1>9, <1>11 DEF Interrupt
<1>14. \E u \in Task : Proceed(u)
  BY <1>6, <1>11, <1>12, <1>13 DEF Next
<1> QED
  BY <1>3, <1>4, <1>10, <1>14 DEF Proceed

\* A sleep that ends with success has lasted long enough.
LEMMA CancelEnds ==
  ASSUME SleepAssumption, IInv, NEW t \in Task, Cancel(t), task'[t].pc = "user",
         task[t].call = "nanosleep"
  PROVE  begun[t].at + Dilated(begun[t].req, Dilation[t]) <= now
<1> DEFINE over == \/ ~task[t].set \/ task[t].call = "timeout"
                   \/ task[t].signal # NoOne /\ task[t].call = "nanosleep" /\ Remaining(t) <= 0
           pc == IF task[t].signal # NoOne THEN "interrupted" ELSE "again"
           a == task[t]
           y == task'[t]
           x == timer[t]
<1>1. /\ a.pc = "cancel" /\ a \in TaskState /\ x \in TimerState
      /\ begun[t] \in [at : Nat, req : Nat] /\ Sound(t, a, x, begun[t], now, Online)
  BY RunsIs DEF Cancel, Cancelled
<1>2. now \in Nat /\ task \in [Task -> TaskState]
  BY DEF IInv, Types
<1>3. task' = [task EXCEPT ![t] = IF over THEN InUser ELSE [@ EXCEPT !.pc = pc]]
  BY DEF Cancel, Cancelled
<1>4. pc # "user"
  OBVIOUS
<1>5. over
  <2>1. SUFFICES ASSUME ~over PROVE FALSE
    OBVIOUS
  <2>2. y = [a EXCEPT !.pc = pc]
    BY <1>2, <1>3, <2>1
  <2> HIDE DEF a, y, pc
  <2>3. y.pc = pc
    BY <1>1, <2>2 DEF TaskState
  <2> QED
    BY <1>4, <2>3 DEF y
<1>6. /\ x.clock = Mono /\ End(t, begun[t]) <= x.soft /\ x.soft <= x.exp
      /\ a.set \/ End(t, begun[t]) <= now
  BY <1>1 DEF Sound
<1>7. End(t, begun[t]) \in Nat /\ x.soft \in Int /\ x.exp \in Int
  BY <1>1, EndIs DEF TimerState
<1>8. ~a.set \/ Remaining(t) <= 0
  BY <1>5
<1>9. Remaining(t) = x.exp - now
  BY <1>6 DEF Remaining, Mono, Real
<1>10. End(t, begun[t]) <= now
  BY <1>2, <1>6, <1>7, <1>8, <1>9
<1> QED
  BY <1>10 DEF End

\* A clock that has run past the dilated request has run, up to rounding,
\* past the request times the factor.
LEMMA LongEnough ==
  ASSUME NEW req \in Nat, NEW tdf \in Nat, NEW from \in Nat, NEW clk \in Nat,
         from + Dilated(req, tdf) <= clk
  PROVE  1000 * (clk - from) > (IF tdf > 0 THEN tdf ELSE 1000) * req - 1000
<1> DEFINE d == Dilated(req, tdf)
           w == (IF tdf > 0 THEN tdf ELSE 1000) * req
<1>1. d \in Nat /\ 1000 * d > w - 1000
  BY DilatedIs
<1>2. w \in Int
  OBVIOUS
<1>3. from + d <= clk
  OBVIOUS
<1> HIDE DEF d, w
<1>4. 1000 * (clk - from) > w - 1000
  BY <1>1, <1>2, <1>3
<1> QED
  BY <1>4 DEF w

\* In every behaviour nanosleep reports success only after the time it asked
\* for on the caller's own clock, whatever its TDF is.
THEOREM AlwaysNeverEarly == Spec => NeverEarly
<1> DEFINE Slept(t) == LET tdf == IF Dilation[t] > 0 THEN Dilation[t] ELSE 1000
                       IN  1000 * (now - begun[t].at) > tdf * begun[t].req - 1000
           InTime == \A t \in Task :
             task[t].pc = "cancel" /\ task'[t].pc = "user" /\ task[t].call = "nanosleep" => Slept(t)
<1>1. IInv /\ [Next]_vars => [InTime]_vars
  <2>1. SUFFICES ASSUME IInv, Next, NEW t \in Task, task[t].pc = "cancel",
                        task'[t].pc = "user", task[t].call = "nanosleep"
                 PROVE  Slept(t)
    OBVIOUS
  <2>2. Cancel(t)
    BY <2>1, OnlyCancel
  <2>3. begun[t].at + Dilated(begun[t].req, Dilation[t]) <= now
    BY <2>1, <2>2, SleepAssumption, CancelEnds
  <2>4. now \in Nat /\ begun[t].at \in Nat /\ begun[t].req \in Nat
    BY <2>1 DEF IInv, Types
  <2>5. Dilation[t] \in Nat
    BY SleepAssumption DEF SleepAssumption
  <2> QED
    BY <2>3, <2>4, <2>5, LongEnough, SMTT(60)
<1> QED
  BY <1>1, AlwaysIInv, PTL DEF Spec, NeverEarly

=============================================================================

------------------------------- MODULE Sleep -------------------------------
(***************************************************************************)
(* Sleeping in virtual time (kernel/hrtimer.c): nanosleep stretches what   *)
(* it is asked for by the caller's TDF and waits for a high-resolution     *)
(* timer on the undilated clock; clock_nanosleep(TIMER_ABSTIME) and the    *)
(* timeouts of poll and epoll wait for such timers undilated.              *)
(*                                                                         *)
(* Each CPU keeps two queues of timers, for the monotonic clock and for    *)
(* the real-time clock, which settimeofday moves, and programs one event   *)
(* device.  A step is what runs under the lock of a queue; a callback runs *)
(* with it dropped.  Every task sleeps on a timer on its own stack.        *)
(*                                                                         *)
(* Bounds: the clock stops at Span, there are MaxCalls calls and MaxEvents *)
(* signals, stray wakeups, settings of the clock and CPUs going offline.   *)
(* All CPUs run in high-resolution mode.                                   *)
(***************************************************************************)
EXTENDS Integers, FiniteSets, FiniteSetsExt

CONSTANTS CPU, Task,
          Dilation,      \* the TDF of each task
          Uses,          \* the calls each task makes
          Requests,      \* what nanosleep and poll are asked for
          Slack,         \* the timer slack of each
          Retries, MaxHang,
          Steps,         \* how far settimeofday moves the real-time clock
          Span, MaxCalls, MaxEvents

ASSUME SleepAssumption == /\ IsFiniteSet(CPU) /\ Dilation \in [Task -> Nat]
                          /\ Slack \in [Task -> Nat] /\ Requests \subseteq Nat
                          /\ {Retries, MaxHang, Span} \subseteq Nat /\ Steps \subseteq Int
                          /\ {"run", "none"} \cap (CPU \cup Task) = {}

VARIABLES
  now,     \* ktime_get()
  offset,  \* the real-time clock's distance from it
  cpu,     \* hrtimer_bases and the event device of each CPU
  timer,   \* the timer of each task
  task,
  calls, events,
  begun    \* history: when a task called nanosleep, and for how long

vars == <<now, offset, cpu, timer, task, calls, events, begun>>

Forever == 1000       \* KTIME_MAX
Mono == 0
Real == 1
NoOne == "none"

\* Mutant: nanosleep forgets the TDF.
Dilated_Not(req, tdf) == req

\* nanosleep scales what it is asked for.
Dilated(req, tdf) == IF tdf > 0 THEN (req * tdf) \div 1000 ELSE req

Idle == [pc |-> "none"]
InUser == [pc |-> "user", cpu |-> NoOne, call |-> NoOne, waits |-> FALSE, set |-> FALSE,
           signal |-> NoOne]
NoTimer == [cpu |-> NoOne, clock |-> Mono, soft |-> 0, exp |-> 0,
            queued |-> FALSE, running |-> FALSE]
NotBegun == [at |-> 0, req |-> 0]

Init ==
  /\ now = 0 /\ offset = 0 /\ calls = 0 /\ events = 0
  /\ cpu = [c \in CPU |-> [online |-> TRUE, off |-> 0, next |-> Forever, dev |-> Forever,
                           hang |-> FALSE, softirq |-> FALSE, ipi |-> FALSE, irq |-> Idle]]
  /\ task = [t \in Task |-> InUser]
  /\ timer = [t \in Task |-> NoTimer]
  /\ begun = [t \in Task |-> NotBegun]

----------------------------------------------------------------------------
Off(c, clock) == IF clock = Real THEN cpu[c].off ELSE 0
Queue(c, clock) == {t \in Task : timer[t].queued /\ timer[t].cpu = c /\ timer[t].clock = clock}
First(c, clock) == {t \in Queue(c, clock) : \A u \in Queue(c, clock) :
                      timer[t].exp <= timer[u].exp}

Queued(c, clocks) == UNION {Queue(c, k) : k \in clocks}
Clocks == {Mono, Real}

\* When, in monotonic time on CPU s, the first of the timers T expires.
Earliest(s, T) ==
  Min({Forever} \cup {Max({0, timer[t].exp - (IF timer[t].clock = Real THEN s.off ELSE 0)}) :
                        t \in T})

\* tick_program_event: whether the device takes expires, and what it then is.
Late(expires) == expires <= now
Program(s, expires) == [s EXCEPT !.dev = Max({now, expires})]

\* hrtimer_force_reprogram, with what expires next.
ForceReprogram(s, next, skip) ==
  IF skip /\ next = s.next THEN s
  ELSE IF s.hang \/ next = Forever THEN [s EXCEPT !.next = next]
  ELSE Program([s EXCEPT !.next = next], next)

\* Mutant: a timer in the past is left to the interrupt, which nobody raises.
Reprogram_Past(s, expires) ==
  IF expires < 0 \/ expires >= s.next \/ s.hang \/ Late(expires) THEN s
  ELSE Program([s EXCEPT !.next = expires], expires)

\* hrtimer_reprogram: the softirq is raised for a timer in the past.
Reprogram(s, expires) ==
  IF expires < 0 THEN [s EXCEPT !.softirq = TRUE]
  ELSE IF expires >= s.next \/ s.hang THEN s
  ELSE IF Late(expires) THEN [s EXCEPT !.softirq = TRUE]
  ELSE Program([s EXCEPT !.next = expires], expires)

\* Mutant: any timer may go to another CPU.
Target_Any(c, to, clock, exp) == to

\* switch_hrtimer_base: another CPU that get_nohz_timer_target prefers cannot
\* be told to wake earlier.
Target(c, to, clock, exp) ==
  IF to # c /\ exp - Off(to, clock) <= cpu[to].next THEN c ELSE to

\* hrtimer_start_expires by t on CPU c, with the timer placed on CPU to.
Start(t, c, to, clock, soft, exp) ==
  LET place == Target(c, to, clock, exp)
      leftmost == \A u \in Queue(place, clock) : exp < timer[u].exp
  IN  /\ timer' = [timer EXCEPT ![t] = [cpu |-> place, clock |-> clock, soft |-> soft, exp |-> exp,
                                       queued |-> TRUE, running |-> @.running]]
      /\ cpu' = IF leftmost /\ place = c
                THEN [cpu EXCEPT ![c] = Reprogram(@, exp - Off(c, clock))] ELSE cpu

\* A task runs while its CPU is not in the timer interrupt.
Runs(t, pc) == task[t].pc = pc /\ cpu[task[t].cpu].irq = Idle
Online == {c \in CPU : cpu[c].online}

\* The first turn of do_nanosleep on CPU c: the task is about to sleep, with
\* a sleeper that points to it.
Sleeping(t, c, call) == [task EXCEPT ![t] = [InUser EXCEPT !.pc = "started", !.cpu = c,
                                               !.call = call, !.waits = TRUE, !.set = TRUE]]

----------------------------------------------------------------------------
Tick == /\ now < Span
        /\ now' = now + 1
        /\ UNCHANGED <<offset, cpu, timer, task, calls, events, begun>>

Call(t, c, call) == /\ calls < MaxCalls /\ calls' = calls + 1
                    /\ call \in Uses[t] /\ task[t].pc = "user" /\ cpu[c].irq = Idle
                    /\ task' = Sleeping(t, c, call)
                    /\ UNCHANGED <<now, offset, events>>

\* nanosleep(2), called on CPU c
Nanosleep(t, req, c, to) ==
  LET soft == now + Dilated(req, Dilation[t])
  IN  /\ Call(t, c, "nanosleep")
      /\ begun' = [begun EXCEPT ![t] = [at |-> now, req |-> req]]
      /\ Start(t, c, to, Mono, soft, soft + Slack[t])

\* clock_nanosleep(CLOCK_REALTIME, TIMER_ABSTIME)
NanosleepUntil(t, abs, c, to) ==
  /\ Call(t, c, "until")
  /\ Start(t, c, to, Real, abs, abs + Slack[t])
  /\ UNCHANGED begun

\* schedule_hrtimeout_range, for poll and epoll_wait
Timeout(t, len, c, to) ==
  /\ Call(t, c, "timeout")
  /\ Start(t, c, to, Mono, now + len, now + len + Slack[t])
  /\ UNCHANGED begun

\* schedule returns: the timer ran, or something else woke the task.
Wake(t) ==
  /\ Runs(t, "started")
  /\ ~task[t].waits \/ ~task[t].set \/ task[t].signal # NoOne
  /\ task' = [task EXCEPT ![t].pc = "cancel"]
  /\ UNCHANGED <<now, offset, cpu, timer, calls, events, begun>>

\* What time is left to t's timer (update_rmtp).
Remaining(t) == timer[t].exp - (IF timer[t].clock = Real THEN now + offset ELSE now)

\* t's timer is taken off its queue, and the caller goes on: a task that only
\* a stray wakeup roused goes round again.
Cancelled(t) ==
  LET c == task[t].cpu
      x == timer[t]
      reset == /\ x.queued /\ x.cpu = c /\ t \in First(c, x.clock)
               /\ cpu[c].next = x.exp - Off(c, x.clock)
      over == \/ ~task[t].set \/ task[t].call = "timeout"
              \/ task[t].signal # NoOne /\ task[t].call = "nanosleep" /\ Remaining(t) <= 0
  IN  /\ Runs(t, "cancel")
      /\ timer' = [timer EXCEPT ![t] = IF over THEN [NoTimer EXCEPT !.running = x.running]
                                       ELSE [x EXCEPT !.queued = FALSE]]
      /\ cpu' = IF reset THEN [cpu EXCEPT ![c] = ForceReprogram(@, Earliest(@, Queued(c, Clocks) \ {t}), TRUE)]
                ELSE cpu
      /\ task' = [task EXCEPT ![t] =
           IF over THEN InUser
           ELSE [@ EXCEPT !.pc = IF task[t].signal # NoOne THEN "interrupted" ELSE "again"]]
      /\ begun' = [begun EXCEPT ![t] = IF over THEN NotBegun ELSE @]
      /\ UNCHANGED <<now, offset, calls, events>>

\* Mutant: hrtimer_try_to_cancel does not wait for a callback that runs.
Cancel_NoWait(t) == Cancelled(t)

\* hrtimer_cancel
Cancel(t) == ~timer[t].running /\ Cancelled(t)

Again(t, to) ==
  /\ Runs(t, "again")
  /\ task' = [task EXCEPT ![t].pc = "started", ![t].waits = TRUE]
  /\ Start(t, task[t].cpu, to, timer[t].clock, timer[t].soft, timer[t].exp)
  /\ UNCHANGED <<now, offset, calls, events, begun>>

\* The signal is handled: a handler runs and the call fails, or the task
\* stops, as it does when it is frozen ...
Handle(t) ==
  /\ Runs(t, "interrupted")
  /\ LET fails == task[t].signal = "alarm"
     IN  /\ task' = [task EXCEPT ![t] = IF fails THEN InUser
                                        ELSE [@ EXCEPT !.pc = "stopped", !.signal = NoOne]]
         /\ timer' = [timer EXCEPT ![t] = IF fails THEN NoTimer ELSE @]
         /\ begun' = [begun EXCEPT ![t] = IF fails THEN NotBegun ELSE @]
  /\ UNCHANGED <<now, offset, cpu, calls, events>>

\* ... and when it is unfrozen it sleeps to the end that was set at the
\* call, without slack (hrtimer_nanosleep_restart) or from the beginning.
Restart(t, to) ==
  LET soft == IF task[t].call = "nanosleep" THEN timer[t].exp ELSE timer[t].soft
  IN  /\ Runs(t, "stopped")
      /\ task' = Sleeping(t, task[t].cpu, task[t].call)
      /\ Start(t, task[t].cpu, to, timer[t].clock, soft, timer[t].exp)
      /\ UNCHANGED <<now, offset, calls, events, begun>>

Event == events < MaxEvents /\ events' = events + 1

\* A signal, or a stray wakeup.
Rouse(t, signal) ==
  /\ Event
  /\ task[t].pc = "started" /\ task[t].waits /\ task[t].signal = NoOne
  /\ task' = [task EXCEPT ![t] = [@ EXCEPT !.signal = signal, !.waits = FALSE]]
  /\ UNCHANGED <<now, offset, cpu, timer, calls, begun>>

----------------------------------------------------------------------------
(* hrtimer_interrupt, from the device or the softirq.                      *)

Entered(s) == [s EXCEPT !.off = offset, !.next = Forever,
                        !.irq = [pc |-> "run", k |-> Mono, now |-> now, entry |-> now,
                                 next |-> Forever, retries |-> 0]]

Enter(c) ==
  /\ cpu[c].online /\ cpu[c].irq = Idle
  /\ \/ cpu[c].dev <= now /\ cpu' = [cpu EXCEPT ![c] = Entered([@ EXCEPT !.dev = Forever])]
     \/ cpu[c].softirq /\ cpu' = [cpu EXCEPT ![c] = Entered([@ EXCEPT !.softirq = FALSE])]
  /\ UNCHANGED <<now, offset, timer, task, calls, events, begun>>

\* The timers of c's clock that may run, of those that are first.
Due(c, clock) == {t \in First(c, clock) : timer[t].soft <= cpu[c].irq.now + Off(c, clock)}
Before(c, clock) == cpu[c].irq.k .. clock - 1

\* A timer is taken off its queue and its callback clears the sleeper.
Expire(c, clock, t) ==
  /\ cpu[c].irq.pc = "run" /\ clock >= cpu[c].irq.k
  /\ \A k \in Before(c, clock) : Due(c, k) = {}
  /\ t \in Due(c, clock)
  /\ timer' = [timer EXCEPT ![t].queued = FALSE, ![t].running = TRUE]
  /\ task' = [task EXCEPT ![t].set = FALSE]
  /\ cpu' = [cpu EXCEPT ![c].irq = [@ EXCEPT !.pc = t, !.k = clock,
                !.next = Min({cpu[c].irq.next, Earliest(cpu[c], Queued(c, Before(c, clock)))})]]
  /\ UNCHANGED <<now, offset, calls, events, begun>>

\* The callback wakes the task and ends.
Expired(c, t, to) ==
  /\ cpu[c].irq.pc = t
  /\ timer' = [timer EXCEPT ![t].running = FALSE]
  /\ task' = [task EXCEPT ![t].waits = FALSE, ![t].cpu = IF task[t].waits THEN to ELSE @]
  /\ cpu' = [cpu EXCEPT ![c].irq.pc = "run"]
  /\ UNCHANGED <<now, offset, calls, events, begun>>

\* No timer is due any more.  If the next one is in the past by now the
\* interrupt tries again, and in the end gives up for as long as it took.
Leave(c) ==
  LET irq  == cpu[c].irq
      next == Min({irq.next, Earliest(cpu[c], Queued(c, irq.k .. Real))})
      done == [cpu[c] EXCEPT !.next = next, !.hang = FALSE, !.irq = Idle]
  IN  /\ irq.pc = "run"
      /\ \A k \in irq.k .. Real : Due(c, k) = {}
      /\ cpu' = [cpu EXCEPT ![c] =
           IF next = Forever THEN done
           ELSE IF ~Late(next) THEN Program(done, next)
           ELSE IF irq.retries + 1 < Retries
           THEN [@ EXCEPT !.next = Forever, !.off = offset,
                          !.irq = [irq EXCEPT !.k = Mono, !.now = now, !.next = Forever,
                                              !.retries = irq.retries + 1]]
           ELSE [@ EXCEPT !.next = next, !.off = offset, !.hang = TRUE, !.irq = Idle,
                          !.dev = now + Min({now - irq.entry, MaxHang})]]
      /\ UNCHANGED <<now, offset, timer, task, calls, events, begun>>

----------------------------------------------------------------------------
\* settimeofday; clock_was_set then asks all CPUs ...
SetClock(step) ==
  /\ Event
  /\ \A c \in CPU : ~cpu[c].ipi
  /\ now + offset + step >= 0 /\ offset' = offset + step
  /\ cpu' = [c \in CPU |-> [cpu[c] EXCEPT !.ipi = cpu[c].online]]
  /\ UNCHANGED <<now, timer, task, calls, begun>>

\* ... to reprogram their event devices.
Retrigger(c) ==
  /\ cpu[c].ipi /\ cpu[c].irq = Idle
  /\ LET s == [cpu[c] EXCEPT !.ipi = FALSE, !.off = offset]
     IN  cpu' = [cpu EXCEPT ![c] = ForceReprogram(s, Earliest(s, Queued(c, Clocks)), FALSE)]
  /\ UNCHANGED <<now, offset, timer, task, calls, events, begun>>

\* A CPU goes offline; what ran on it goes to another.
Offline(c, to) ==
  /\ Event
  /\ c \in Online /\ to \in Online \ {c}
  /\ cpu[c].irq = Idle /\ ~cpu[c].ipi /\ ~cpu[c].softirq
  /\ cpu' = [cpu EXCEPT ![c].online = FALSE, ![c].dev = Forever]
  /\ task' = [t \in Task |-> [task[t] EXCEPT !.cpu = IF @ = c THEN to ELSE @]]
  /\ UNCHANGED <<now, offset, timer, calls, begun>>

\* migrate_hrtimers on CPU to, which then looks for timers that are due.
Migrate(c, to) ==
  /\ ~cpu[c].online /\ \E t \in Task : timer[t].queued /\ timer[t].cpu = c
  /\ to \in Online /\ cpu[to].irq = Idle
  /\ timer' = [t \in Task |-> IF timer[t].queued /\ timer[t].cpu = c
                              THEN [timer[t] EXCEPT !.cpu = to] ELSE timer[t]]
  /\ cpu' = [cpu EXCEPT ![to] = Entered(@)]
  /\ UNCHANGED <<now, offset, task, calls, events, begun>>

Interrupt(c) == \/ Enter(c) \/ Leave(c) \/ Retrigger(c)
                \/ \E t \in Task : \/ \E clock \in {Mono, Real} : Expire(c, clock, t)
                                   \/ \E to \in Online : Expired(c, t, to)

Proceed(t) == \/ Wake(t) \/ Cancel(t) \/ Handle(t)
              \/ \E to \in Online : Again(t, to) \/ Restart(t, to)

Next == \/ Tick
        \/ \E t \in Task, c \in Online, to \in Online, req \in Requests :
             Nanosleep(t, req, c, to) \/ Timeout(t, req, c, to) \/ NanosleepUntil(t, req, c, to)
        \/ \E t \in Task, signal \in {NoOne, "stop", "alarm"} : Rouse(t, signal)
        \/ \E t \in Task : Proceed(t)
        \/ \E c \in CPU : Interrupt(c) \/ \E to \in Online : Offline(c, to) \/ Migrate(c, to)
        \/ \E step \in Steps : SetClock(step)

Spec == Init /\ [][Next]_vars

\* Time passes, interrupts are taken, tasks that can run do, stopped ones
\* are resumed and a dead CPU's timers are moved.
Fairness == /\ WF_vars(Tick)
            /\ \A c \in CPU : /\ WF_vars(Interrupt(c))
                              /\ WF_vars(\E to \in Online : Migrate(c, to))
            /\ \A t \in Task : WF_vars(Proceed(t))

FairSpec == Spec /\ Fairness

----------------------------------------------------------------------------
IrqState == {Idle} \cup [pc : {"run"} \cup Task, k : Clocks, now : Nat, entry : Nat,
                          next : 0 .. Forever, retries : Nat]
CpuState == [online : BOOLEAN, off : Int, next : 0 .. Forever, dev : Nat,
             hang : BOOLEAN, softirq : BOOLEAN, ipi : BOOLEAN, irq : IrqState]
TaskState == [pc : {"user", "started", "cancel", "again", "interrupted", "stopped"},
              cpu : CPU \cup {NoOne}, call : {NoOne, "nanosleep", "until", "timeout"},
              waits : BOOLEAN, set : BOOLEAN, signal : {NoOne, "stop", "alarm"}]
TimerState == [cpu : CPU \cup {NoOne}, clock : Clocks, soft : Int, exp : Int,
               queued : BOOLEAN, running : BOOLEAN]

\* Types, and whoever is in a system call is on a CPU that is there.
TypeOK ==
  /\ now \in 0 .. Span /\ offset \in Int /\ {calls, events} \subseteq Nat
  /\ cpu \in [CPU -> CpuState]
  /\ timer \in [Task -> TimerState] /\ \A t \in Task : timer[t].soft <= timer[t].exp
  /\ task \in [Task -> TaskState]
  /\ \A t \in Task : task[t].pc # "user" => task[t].cpu \in Online
  /\ begun \in [Task -> [at : Nat, req : Nat]]

\* While a CPU has nothing to do for its timers its event device is armed for
\* the first of them: though other CPUs put timers on its queues without
\* telling it, timers arrive in the past, the clock is set and CPUs die.
\* Only the pause after an interrupt that could not keep up comes first.
NoTimerForgotten ==
  TypeOK /\ \A c \in Online : cpu[c].irq = Idle /\ ~cpu[c].softirq /\ ~cpu[c].ipi /\ ~cpu[c].hang =>
    LET first == Earliest([cpu[c] EXCEPT !.off = offset], Queued(c, Clocks))
    IN  cpu[c].dev <= Max({now, first}) \/ first = Forever

\* A timer is a local variable of the task's system call: once the call is
\* over no queue holds the timer and no callback is still using it.
TimerOffStack ==
  \A t \in Task : task[t].pc \in {"user", "interrupted", "stopped"} =>
    ~timer[t].queued /\ ~timer[t].running

\* nanosleep reports success only when, on the caller's own virtual clock,
\* the time it asked for has passed, through every stray wakeup, freeze and
\* restart.  (Frozen time counts: the sleep ends when it would have ended.)
NeverEarly ==
  [][\A t \in Task :
       task[t].pc = "cancel" /\ task'[t].pc = "user" /\ task[t].call = "nanosleep" =>
         LET tdf == IF Dilation[t] > 0 THEN Dilation[t] ELSE 1000
         IN  1000 * (now - begun[t].at) > tdf * begun[t].req - 1000]_vars

\* A task that sleeps to a time that comes is woken, unless time is up while
\* its CPU pauses after an interrupt that could not keep up.
Woken == \A t \in Task :
  task[t].pc = "started" /\ timer[t].clock = Mono /\ timer[t].exp < Span
    ~> task[t].pc # "started" \/ (now = Span /\ cpu[timer[t].cpu].hang)

=============================================================================

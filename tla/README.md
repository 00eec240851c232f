# Virtual time in the Linux kernel: a TLA+ project

VirtualTimeKernel patches Linux 3.16.3 so that a process has a clock of its own.
A *time dilation factor* (TDF, stored times 1000) makes the clock run slower or
faster than the wall clock; *freezing* stops the process and its clock.  Mininet
uses both for its emulated hosts.  This project models the clock, the operations
on it and the process tree they act on; what runs on that clock, which is sleeping,
futexes, the timekeeper and HTB; the way of packets through the patched device
core; and the tools and the part of Mininet that drive it.  It checks the models with TLC and proves theorems about most of them with TLAPS.

## The system

| component | state | operations | where |
|---|---|---|---|
| task clock | seven fields of `task_struct`: `dilation`, `virtual_start_nsec`, `virtual_past_nsec`, `physical_start_nsec`, `physical_past_nsec`, `freeze_start_nsec`, `freeze_past_nsec` | a read of the clock moves both pasts | `kernel/time/timekeeping.c` |
| dilation | the same fields of a whole subtree | `set_dilation`: enter, leave, change | `kernel/time.c` |
| freezing | the two freeze fields; who is stopped | `freeze_time`, `unfreeze_time`, `populate_frozen_time` | `kernel/time.c` |
| process tree | `children`, `real_parent`, `group_leader`, process groups | `do_fork`, `unshare`; exit, `setsid` | `kernel/fork.c` |
| /proc interface | none | `dilation_write`, `freeze_write`; shows | `fs/proc/base.c` |
| timekeeper | `timekeeper`, its shadow copy, the sequence lock, `timekeeping_suspend_time` | tick, settimeofday, leap seconds, suspend, `clock_gettime` | `kernel/time/timekeeping.c` |
| timeouts | per CPU two queues of timers and an event device; a timer per sleeper | `nanosleep`, `clock_nanosleep`, `poll`, settimeofday | `kernel/hrtimer.c` |
| futexes | hash buckets with chain, lock and counter; a `futex_q` per waiter | wait, wake, requeue, wake_op | `kernel/futex.c` |
| packet rates | HTB's `q->now`, rows, feeds, buckets, watchdog; class rates | `htb_dequeue`, `psched_ratecfg_dilate` | `net_*/sched` |
| sending | a qdisc with its state bits and locks, per CPU an `output_queue` | `dev_queue_xmit`, `net_tx_action`, `dev_open`, `dev_close` | `net_dilation/core/dev.c`, `net_*/sched/sch_generic.c` |
| receiving | per CPU a backlog, a poll list and a list of IPIs to send; flow tables; time stamps | `netif_rx`, `net_rx_action`, unregistering, CPU unplug | `net_dilation/core/dev.c` |
| tools | threads, file descriptors, a fifo | freeze/dilate many, `freeze_listen` | `vt_userspace`, `mininet/vt` |
| Mininet | nodes, each with a shell, its pipe, `waiting`, `lastPid` | `dilateEmulation`, `freezeEmulation`, `Node.cmd`, `terminate` | `mininet/mininet/net.py`, `node.py`, `mnexec.c` |

How they interact.  A process reads its clock through `getnstimeofday`, which calls
`real_virtual_timekeeping` on `current`; the vDSO is patched to make every read a
system call.  A tool writes `/proc/$pid/dilation` and `/proc/$pid/freeze` and so
runs `set_dilation` and `freeze_time` on *another* task, with no lock.  Freezing
stops the process *group* that the task leads, by a signal; unfreezing charges the
task's *children*, recursively, before it resumes the group.  Forking copies the
fields and restarts the child's clock at what the parent reads.  The other
components read the same fields: sleepers and HTB take `dilation` and
`freeze_past_nsec` of `current` when they run, and an arriving packet is stamped
by the clock of `current`.  Hosts are joined by pairs of devices: what one queues by
`dev_queue_xmit`, with HTB to hold it back, its peer puts on the backlog of a CPU.

What is hard: the fields are shared between the process, its tools and its
relatives without locks; the group that is stopped and the tree that is charged
are different sets that drift apart; a signal stops a process only when it leaves
the kernel; all bookkeeping is relative to starts and pasts that several
operations reset; division rounds on every read.

What makes each component correct:
the clock: it advances by unfrozen time divided by the TDF, never goes back, loses
no more than rounding; dilation: one TDF in a subtree, and a change moves no clock;
freezing: what is stopped is charged, exactly once, and can be resumed; the tree: a
new process starts at its parent's time; timekeeper: a reader sees every clock of one
moment; timeouts: a sleep takes the requested virtual time and no timer is
forgotten; futexes: no wake is lost, and no queue holds what is off the stack; HTB: a
class queues where its mode says, keeps to its ceiling and no packet is forgotten;
devices: the packets of a band or flow leave and arrive in order, none waits with nobody to run its queue,
and nothing is left of a device that is closed or freed; tools: each process on the command line is written; Mininet: what `cmd` returns
answers that command.

## Modules

| module | models | built on |
|---|---|---|
| `TaskClock` | the fields and, as pure operators, every kernel function that reads or writes them | |
| `IdealClock` | what virtual time promises one process; the abstract specification | |
| `ProcClock` | one process that leads its group, and the tools that write its /proc files | `TaskClock`, implements `IdealClock` |
| `VirtualTime` | a container: process tree, groups, threads, all operations | `TaskClock` |
| `ClockRace` | reads, freezes and unfreezes of one group, a step per shared access; time stamps taken in interrupts | `TaskClock` |
| `Timekeeper` | the wall clock and its relatives under the virtual clock, a step per field written or read | `TaskClock` |
| `Sleep` | high-resolution timers on several CPUs and the system calls that sleep on them | |
| `Futex` | futexes without priority inheritance, a step per shared access | |
| `Htb` | the packet scheduler, a step per call under the qdisc's lock | |
| `FifoLink` | what a device promises for each band of its queue; the second abstract specification | |
| `Softnet` | the CPUs that share the work of `dev.c`, and which are online | |
| `Transmit` | `dev_queue_xmit` and the queueing of `sch_generic.c`, a step per lock taken | `Softnet`, implements `FifoLink` |
| `Receive` | the backlogs, packet and flow steering, `net_rx_action` | `Softnet` |
| `Emulation` | the tools, their threads, `freeze_listen` and Mininet's side of the shells | |
| `MC...` | small instances of each | |
| `...Proofs` | lemmas and theorems about `ProcClock`, `VirtualTime`, `ClockRace`, `Timekeeper`, `Sleep`, `Futex`, `Emulation` and, in `SoftnetProofs`, `Transmit` and `Receive` | the modules they are about |

The names are the code's, shortened: `vsn` is `virtual_start_nsec`, `ppn`
`physical_past_nsec`, `fsn` `freeze_start_nsec` and so on, as
`printk_virtual_clock` prints them; `t` or `task[p]` is the `task_struct`.
Operators with an underscore, `UnfreezeTime_NoReset` for instance, are mutants:
the definition they precede with a plausible bug put in.  Each property is there
because one of them breaks it.

**TaskClock.**  `Timekeep` and `Reading` are the two results of
`real_virtual_timekeeping`: the fields it leaves and the time it returns.
`DivS64` rounds towards zero, as C does.  `SetDilation` has the code's branches
in the code's order.  Integers are unbounded (see "not modelled").

**ProcClock.**  A system call or a write to /proc is one step.  `Tick` is a
nanosecond of the wall clock (`__getnstimeofday`, never dilated).
`stopped` is the pending or effective SIGSTOP: freezing a group leader stops the
process itself, so nothing it does is enabled while `stopped`.
`WriteDilation`, `Freeze` and `Unfreeze` are the writes, by tools outside virtual
time; `Unshare` and `Read` are system calls of the process.  `ran`, `kept`,
`carried`, `reads`, `seen`, `changes` are history: no action of the code reads
them; `reads` and `changes` also carry the bounds.

**VirtualTime.**  `alive`, `parent`, `leader`, `pgrp` are the tree.  A thread is no
one's child on the kernel's list, `Children` says so; `Visited` is the recursion
of `set_dilation`, which stops below a task that already has the new TDF or
refuses it; `Subtree` is that of `populate_frozen_time`, which does not stop.
`Group` is what `kill_pgrp` reaches.  `Fork` ends with `init_virtual_start_time`
on the child, and moves the parent's pasts too, because the parent's clock is
read.  `Exit` and `Setsid` are the kernel's, not the patch's, and are modelled as
far as they change the tree and the groups.  `uses` switches on what a workload
does.  Programs that lead a group and have processes in no other group are the
plain case; `uses` names the others.  What a workload does, and its bounds, is a
record of `Workloads`, of which `load` is chosen at the start.

**ClockRace.**  Every access to a field that another thread of execution also
accesses is a step: a reader enters the kernel, takes the time, subtracts, adds, sums; a tool checks,
signals, takes the time, records, accounts, clears, populates child by child,
signals.  A process in the kernel is not stopped by the signal: a read that has been
entered (`Enter`) may take its time inside a freeze.  `settled` is history: how long the
group stood stopped with no tool at work.  The group's tree
is the flat one, a leader with its children.  A record of `Scenes`, one of which is
chosen at the start, says who takes part: with `serial`, tools take turns;
`stamps` lets a softirq stamp a packet in the middle of a read, on the clock of the
interrupted process (`net_dilation/core/dev.c:1637`).

**Timekeeper.**  `tk` is the timekeeper, `shadow` its copy, `w` what the holder of
`timekeeper_lock` has still to do, `r` a reader between two fields.  A writer is a
list of small steps (`Forward`, `Offset`, `Set`, `Add`, `Sub`, `Slept`, `Tai`, `End`)
so that a reader can meet it anywhere; `odd` and "has moved" are what `seqcount`
tells its readers.  The tick works on the shadow (`TickStart`, `TickCopy`,
`TickCopied`) and applies leap seconds there.  `BaseResult` is
`ktime_get_update_offsets_now`, which hrtimers use.  On top sits one process in
virtual time, with the operators of `TaskClock`: `VirtualResult` is what
`clock_gettime` gives it.  `truth` is history: what each clock should say beyond
the running time.

**Sleep.**  A CPU has two queues (monotonic, real time), an `offset` it was last
told, an event device, and `Interrupt` is `hrtimer_interrupt` with its retries and
its pause (`hang`).  `Migrate` is a CPU going offline.  `Expire` and `Expired` are a callback,
which runs with the lock dropped.  A task starts its timer on the CPU it runs on or, by
`switch_hrtimer_base`, on another.  `Dilated` is the scaling that the patch adds to
`hrtimer_nanosleep`; `begun` is history.

**Futex.**  A waiter (`w`) and a waker (`k`) go through the functions one shared
access at a time: the counter before the lock, the value under the lock, `lock_ptr`
without it; `wake_futex` is three steps.  A loop over a chain goes from one `First`
waiter that matches to the next and counts in `found` and, for the second loop of
FUTEX_WAKE_OP, in `also`: `Wakes`, `WakesToo` and `Moves` say which branch of which
loop is next.  The word in user space changes before a waker calls, as condition
variables do.  `given` and `owed` are history: whom a call of `futex_wake` must find
is settled by `Owed` when it begins, and a waiter that leaves or is moved elsewhere is
no longer owed anything.  `DilateRequest` is what the patch adds to `sys_futex`.

**Htb.**  `q` is the qdisc.  Every place where a class can queue is a `Place`, the
row of a level or the feed of an inner class, with a set and a `ptr` of the round.
`Dequeue` is the whole of `htb_dequeue` with its events, its rounds by level and
priority, charging, and the watchdog; the other actions are enqueue, drop, reset,
change and deletion of classes, the work queue.  Who dequeues is any `Sender`: its
frozen time is subtracted from queue time, its parent's TDF scales the rates of
the leaf, and its own `dilation` may be written on the way.

**Transmit.**  A CPU (`cpu`) goes through `__dev_xmit_skb`, `__qdisc_run` and
`net_tx_action`; it has a step for each lock it takes and each call of the driver.
What happens under one lock is one step, but the lock stays held while the driver's
is not needed, so that `spin_trylock` can fail.  `running`, `sched`, `deact`,
`stopped` and `frozen` are the state bits; `outq` and `pending` the softirq's work.
The driver may refuse a packet, stop the queue and wake it; HTB is seen only as a
queue that may hold back, with its watchdog (`throttled`).  Closing is
`Deactivate`, `Synchronized`, `Stop`; a device that is dismantled skips the wait.
A packet has a number, in the order in which the qdisc accepted them, and a band:
a band of pfifo_fast, which dequeues the first that has a packet (`Heads`), or a leaf
of HTB, which may dequeue any.  `FifoLink` promises the order of each band; between
bands the code promises none.  Its `Close` is the only step that loses packets.

**Receive.**  `arrival` is a packet between `get_rps_cpu` and `enqueue_to_backlog`;
`input`, `process`, `head`, `tail` are a backlog's queues and counters, `rflow` and
`reader` the two flow tables.  A backlog that is `scheduled` is on a poll list, on a
list of IPIs to send, or has an IPI `flying` to it.  `Poll`, `Dequeue`, `Deliver` and
`Complete` are `process_backlog`, with interrupts off from one packet to the next.
`FlushBacklog` interrupts it anywhere else.  `DevCpuCallback` and `Refeed` are
`dev_cpu_callback`.  `astray` and `lost` are history: where order, or a wakeup, is not
promised.

**Emulation.**  A tool is a main program and its threads; `Thread` is one
`write_proc_field`, which opens and never closes.  `fds` runs out at `MaxFds`; a
thread that cannot be created ends the tool when it is joined.  `freeze_listen`
reads a byte a command from a fifo.  Mininet's thread (`py`) sends a command to a
shell and reads what comes back, in pieces of any size, until the prompt
(`Monitor`); frozen shells write nothing.  A write to /proc is one step here.

## Runs

Passing runs, each with the bounds of its `.cfg`:

| run | shows | bounds |
|---|---|---|
| `ProcClock` | with one TDF per stay, the process has the ideal clock (`IdealSpec`), which never goes back (`Forward`); freezes stay recorded (`FreezeInForce`), physical time is exact (`AccountsFrozenTime`), virtual time within a nanosecond per read (`KeepsTime`); no negative TDF is stored | TDFs -1, 0, 500, 3000; 7 ns; 3 reads; the theorems add changes of TDF |
| `VirtualTime` | threads, orphans and `setsid`; or entering, leaving, changing the TDF and failing forks: one TDF in the subtree; a member is charged what it stood since its clock was started and, on top, the freezes from before that start (`MembersAccountFreeze`), or as yet nothing; whatever is stopped can be resumed, and only time and a new TDF move a member's clock | 3 tasks; 3 ns, or 2 ns and 1 change of TDF |
| `ClockRace` | tools that take turns, interleaved with readers: frozen time is tight between the time the group was stopped with and without tools at work, and no read contains a freeze that was over when it entered the kernel.  Two tools at once and interrupts that stamp packets: still resumable, pasts in proportion, an unfreeze resumes | leader and child, 1 tool, 2 ns; or a leader, 2 tools, 1 ns; 2 reads |
| `Timekeeper` | a reader that meets ticks, leap seconds, settimeofday, a new clock source or suspends gets every clock of one moment (`SystemReads`, `VirtualReads`); sleep times truncated to the second do not add up (`BootClockKept`) | 4 units of time, seconds of 2, ticks of 1; 2 events; 1 virtual read; two clock sources, one of which counts in suspend |
| `Sleep` | no timer is forgotten by its CPU, none outlives its stack frame, no sleep is short on the virtual clock, sleepers are woken | 2 CPUs, 2 tasks, 4 units, 2 calls, 1 signal, clock step or CPU loss |
| `Futex` | queues, keys and counters agree; no waiter is missed, no wake lost or slept through, no timeout before TDF times the request on the monotonic clock, no circular wait | 2 waiters, 2 wakers, 3 futexes in 2 buckets, 2 waits, 2 posts, 1 signal or page fault |
| `Htb` | classes queue where their modes say, keep to their ceilings, and HTB looks again in time | 4 classes on 3 levels, 2 priorities, 3 packets, 3 units, 1 change of a class |
| `Transmit` | the packets of each band of pfifo_fast, or leaf of HTB, reach the driver in the order in which they were accepted, each once, and only closing loses any (`IsFifo`); a scheduled qdisc is where a softirq will find it; a closed device is quiet; packets leave and `dev_close` returns | 2 CPUs; pfifo_fast or no queue: 2 bands, 3 sends, a queue of 2, 2 refusals; HTB: 2 leaves of 1, 2 sends, 1 refusal, 1 delay; 1 close, 1 unplug |
| `Receive` | a steered flow is delivered in order however its reader moves; a backlog is on one list while it is scheduled, and served; a freed device has nothing queued | 2 CPUs, no steering, RPS, RFS; 3 packets, 2 moves, backlogs of 2, weight 2, 1 unplug |
| `Emulation` | a tool that has returned has done what it was told; `cmd` gets its own reply; `freeze_listen` reads every command and carries it out while a descriptor is left, and `cmd` returns unless the node is frozen again and again | 2 hosts, 5 descriptors, 2 commands, 1 thread that fails, 3 events in all |

Each module has a type invariant.  But for that of `ProcClock` it is a conjunct of
another: of `LeftResumable` in `ClockRace`, of `RepliesInStep` in `Emulation`, and
elsewhere of the invariant that the run lists first.

The nanosecond is the unit in which the code rounds, so a few of them reach every
case of rounding: 3000 makes two divisions in three inexact, 500 makes the clock
run fast, 1000 takes the branch without a division.  `Epoch` is 20, more than any
`Span`: the code tells zero from a time, and no time may be zero.  Three tasks are
the least with a grandchild, a sibling and an orphan; more of them would only
repeat the recursion.  In `ProcClock`, `Tick` stops at `Epoch + Span` and the
other actions go on, so there is no deadlock to exclude.

Two CPUs are the least between which a timer migrates, two tasks let a clock step
meet a timer of each clock.  Two futexes in one bucket and a third in another
make a requeue go within a bucket and across; two wakers make the double lock
meet itself in the other direction, and one of them requeue what the other wakes.
Time passes in `Futex` only while somebody waits for it, and a signal comes only
while its target sleeps: the code looks for signals nowhere else.  A unit in
`Timekeeper` is a cycle, a nanosecond and half a second, so that a suspend can be
truncated and a tick can come late.  Three levels are the least with a
class that both borrows and lends.  Five descriptors are enough for two commands to
two hosts and not for a third.  With two CPUs one runs the queue and the other
defers to it; three packets are one with the driver, one requeued or queued, and one
that could overtake them, in its band or from the other; two refusals let one come
while another's packet is scheduled.  Two bands show all that the three of pfifo_fast
do to each other: one is served first.  HTB has
less to do, because each leaf may be served next and the watchdog adds wakeups.  Three packets of a flow and two moves of its reader let it come back to a
CPU that still holds an older packet.  `Sleep`, `Futex`, `Htb`, `Emulation`,
`Transmit`, `Receive` and `Timekeeper` stop where their bounds are spent, and only for that reason their runs
do not check deadlock; where waiting for ever is the hazard, a property of its
own (`Woken`, `NobodyStuck`, `NoStall`, `NobodyWaits`, `BacklogServed`,
`EverybodyServed`) excludes it.

Symmetry: in `VirtualTime` all tasks but the root and the reaper are
interchangeable.  That run has no liveness property.

Fairness.  `ClockRace`: `WF_vars(Writer(w))`, a tool that has entered the kernel is
scheduled until it returns; nothing in `freeze_time` or `unfreeze_time` blocks.
`Sleep`: time passes, interrupts that are due come, a dying CPU's timers are
migrated, and a task in a system call goes on when it is runnable; none for the
start of calls, signals or clock steps.  `Emulation`: threads, tools, `freeze_listen`
and running shells are scheduled, and Mininet reads what is there; none for
commands, bytes in the fifo or faults, and a frozen shell owes nothing.
`Transmit`: a CPU goes on with what it has begun and runs its softirqs (weak
fairness, for spinlocks are held for a few steps only and nobody holds one while
he waits for another CPU to run); a driver wakes a queue that it has stopped, HTB's
watchdog fires, `dev_watchdog` thaws what it froze, `dev_close` goes on.  `Receive`:
softirqs, IPIs, `flush_backlog` and whoever is handing a packet over.  In both
nothing obliges anybody to send, to close or to move.
Processes have no fairness in the start of writes: a tool may never unfreeze.
`Futex`, `Htb` and `Timekeeper` have safety properties only; `NoStall` and
`NobodyStuck` say as invariants what must not be left undone.

### What the code does not do

These runs check what a comment or a document says, and TLC finds it violated.

| run | the code |
|---|---|
| `ProcClockTdfChange` | changing the TDF jumps the clock: `virtual_start_nsec` becomes now and `virtual_past_nsec` is kept (`kernel/time.c:170-172`; `doc/vt_doc.tex:276-279` keeps the start) |
| `ClockRaceLateRead` | a read that a freeze meets in the kernel takes its time before the freeze and subtracts the freeze once that is accounted: it goes back.  (Or it takes its time inside the freeze, and the next one goes back.)  `kernel/time/timekeeping.c:309`; the comment at line 426 has a "MONOTONIC clock in virtual time", and `monotonic_virtual_timekeeping` takes the same steps |

Other differences we met have no run of their own; the constants of the modules
reach most of them, and the properties above are stated so that they exclude them.
Of the clock and the container:

* Leaving or entering virtual time while frozen forgets the freeze
  (`kernel/time.c:148`, `kernel/fork.c:1597`): `FreezeInForce` fails with
  `Crosses = TRUE`.
* A change of TDF restarts `physical_start_nsec` at now, not at now minus
  `freeze_past_nsec` (`kernel/time.c:178`, `doc/vt_doc.tex:252`); the terms `kept`
  in `AccountsFrozenTime` and `KeepsTime` are the price.
* `virtual_past_nsec` is not `physical_past_nsec` over the TDF
  (`kernel/time/timekeeping.c:316`), only within a nanosecond per read.
* A TDF above 100 is stored and halts the clock; a negative one reports success
  outside virtual time (`kernel/time.c:120`).
* A thread is stopped with its group and never charged the frozen time, though
  `doc/vt_doc.tex:303` wants every process charged; an orphan fares the same
  (`kernel/time.c:204`).
* A process forked after a freeze is charged nothing until the next unfreeze, though
  `doc/vt_doc.tex:303` wants every member to have the same frozen duration; then it is
  charged that freeze too, from before its birth (`kernel/time.c:206`).  `debt` in
  `MembersAccountFreeze` is what it is charged too much.
* A failing fork in virtual time dereferences an error pointer
  (`kernel/fork.c:1640`).
* A child that called `setsid` is charged a freeze it ran through; unfreezing an
  ancestor erases a descendant's own freeze, so that it can never be resumed
  (`kernel/time.c:207`): `Resumable` fails when every task is in `Targets`.
* A task that has the new TDF already hides its descendants from `set_dilation`
  (`kernel/time.c:134`): `MembersShareFactor` fails when every task is in `Targets`.
* Two overlapping unfreezes account a freeze twice, or since the epoch
  (`kernel/time.c:248-254`); a freeze that overlaps an unfreeze leaves a running
  process recorded as frozen.
* A packet stamped during a read applies the same delta twice; the reading is ahead
  and the next one makes it good.

Of the clocks, timers and futexes:

* For a process in virtual time, setting the wall clock by J moves
  `CLOCK_MONOTONIC` by J/TDF - J, and a step during a freeze by -J
  (`kernel/time/timekeeping.c:443`).  `VirtualReads` states what that clock is.
* `get_time` of the real-time timer base is the virtual clock of whichever process
  runs (`kernel/hrtimer.c:81`).
* With a clock source that counts in suspend and no persistent clock, the RTC's
  resume counts the sleep a second time, and the compensation of suspend times goes
  by a clock that does not exist.  `BootClockKept` asks for a persistent clock.
* `timekeeping_suspend` takes a difference of at least -1 s and less than 2 s for
  drift, and injects the next sleep time accordingly (`timekeeping.c:1201-1208`).  A
  settimeofday by less than three seconds can look like that; the boot clock, which
  it should not move, then moves by what was set.  `BootClockKept` allows three
  seconds for each time the clock was set.
* Frozen time counts in a sleep or a futex timeout.
* A futex timeout under a second is not dilated, so that one of 0.9 s outlasts one
  of 1 s when the TDF is below 900; absolute timeouts (`FUTEX_WAIT_BITSET`) are not
  dilated (`kernel/futex.c:3007`).
* A waiter that was requeued and is then frozen goes back to the futex it first
  waited on.

Of the devices:

* A packet that the driver refuses after `dev_deactivate` has reset the qdisc stays in
  `gso_skb` (`sch_generic.c:51`): it survives the close, and after the next open waits
  until something else is sent.  `NobodyWaits` is about packets accepted since the
  device was opened.
* A device without queue that is dismantled may have a sender in its driver when
  `ndo_stop` runs: `dev_deactivate_many` leaves the wait to its caller, which closes
  first and waits afterwards (`dev.c:5707-5721`).
* `dev_cpu_callback` does not move the dead CPU's `rps_ipi_list`, and
  `net_rps_action_and_irq_enable` does not send to an offline CPU (`dev.c:4213`): the
  backlog stays scheduled and is never polled again (`lost`).
* The packets of an unplugged CPU are handed over again behind newer ones, and if a
  device is being freed at that moment they miss `flush_backlog` (`dev.c:6840`).
* A packet that comes while the flow's reader is unset is not counted in
  `last_qtail`, so that the next may overtake it on another CPU.
* `netdev_run_todo` flushes the backlogs and waits for references, not for the packet
  that a CPU is delivering, which holds none (`dev.c:6337`).

Of HTB, the tools and Mininet:

* HTB's time goes back when tasks with different frozen times take turns
  (`net_both/sched/sch_htb.c:922`); `CeilRespected` excludes that by `q.skewed`.
* A new leaf's buckets are stamped with the wall clock, and the watchdog is armed
  with queue time (`sch_htb.c:957`, `1249`).
* `kickoff_pthreads_dilate` hands all threads the same variable: only the last host
  is sure to be dilated, and `CommandTookEffect` claims no more, though
  `dilateEmulation` is to dilate all (`mininet/net.py:505`).  The copy in `mininet/vt` gives each its own, in an
  array of half the size it needs.
* `freeze_listen` runs out of descriptors and then obeys in part, or not at all, and
  says so to nobody: `DaemonServes` and `CommandTookEffect` are about the commands before.
  A write for a node that has exited fails as quietly, and the model counts it as a
  success.  It does not create its fifo; `freeze_me` falls through a `switch`.
* A command of several lines leaves a prompt behind and shifts all later replies;
  `RepliesInStep` is about commands of one line.

The passing runs say what remains true in spite of them: their properties are the
strongest we found, so that `MembersAccountFreeze`, for instance, says of a member's
`freeze_past_nsec` by which freezes (`debt`) it is more than the time the member stood.

## Theorems

TLC shows a property on the instances above.  These theorems state it for every
value of the constants: any tasks, CPUs, nodes and command lines, any TDF, any bound.
What else a theorem assumes is in the last column.

| module | theorem | says | also assumes |
|---|---|---|---|
| `ProcClockProofs` | `TypeCorrect` | `TypeOK` | no crossing |
| | `FreezeAlwaysInForce` | `FreezeInForce` | no crossing |
| | `FrozenTimeIsAccounted` | `AccountsFrozenTime` | no crossing |
| | `ClockKeepsTime` | `KeepsTime` | no crossing |
| | `ClockNeverGoesBack` | `Forward` | no crossing, `MaxChanges = 0` |
| | `RefinesIdealClock` | `Spec => IdealSpec` | no crossing, `MaxChanges = 0`, TDFs up to `MaxTdf` |
| `VirtualTimeProofs` | `AlwaysTypeOK` | `TypeOK` | |
| | `AlwaysMembersShareFactor` | `MembersShareFactor` | `OnlyRoot` |
| | `AlwaysMembersAccountFreeze` | `MembersAccountFreeze` | `OnlyRoot`, no crossing |
| | `AlwaysResumable` | `Resumable` | `OnlyRoot`, no crossing |
| | `AlwaysMemberClockContinuous` | `MemberClockContinuous` | `OnlyRoot`, no crossing |
| `ClockRaceProofs` | `AlwaysLeftResumable` | `LeftResumable` | |
| | `AlwaysPastsInStep` | `PastsInStep` | |
| | `AlwaysFrozenDurationTight` | `FrozenDurationTight` | |
| | `AlwaysReadExcludesFreezes` | `ReadExcludesFreezes` | |
| `SleepProofs` | `AlwaysTypeOK` | `TypeOK` | |
| | `AlwaysTimerOffStack` | `TimerOffStack` | |
| | `AlwaysNoTimerForgotten` | `NoTimerForgotten` | |
| | `AlwaysNeverEarly` | `NeverEarly` | |
| `FutexProofs` | `AlwaysQueuesAgree` | `QueuesAgree`, with the type invariant | |
| | `AlwaysNoWakeLost` | `NoWakeLost` | |
| | `AlwaysNotEarly` | `NotEarly` | |
| | `AlwaysNobodyStuck` | `NobodyStuck` | |
| `TimekeeperProofs` | `AlwaysBootClockKept` | `BootClockKept`, with `TypeOK` | |
| | `AlwaysSystemReads` | `SystemReads` | |
| | `AlwaysVirtualReads` | `VirtualReads` | |
| `SoftnetProofs` | `AlwaysScheduledOnce` | `ScheduledOnce` | |
| | `AlwaysQuietWhenDown` | `QuietWhenDown` | |
| | `AlwaysFifo` | `Spec => IsFifo`: `Transmit` implements `FifoLink` | |
| | `AlwaysRxInv` | the inductive invariant of `Receive`, with `RxTypeOK` | |
| | `AlwaysOnOneList` | `BacklogOnOneList` | |
| | `AlwaysNothingLeft` | `NothingLeft` | |
| | `AlwaysFlowInOrder` | `FlowInOrder` | |
| `EmulationProofs` | `AlwaysCommandTookEffect` | `CommandTookEffect` | |
| | `AlwaysRepliesInStep` | `RepliesInStep` | |

*No crossing*: virtual time is not entered or left while the process is stopped
(`Crosses = FALSE` in `ProcClock`, no workload that uses `"cross"` in
`VirtualTime`).  Otherwise the code forgets the freeze, and the properties are false.
`OnlyRoot`: tools write to the first process of the container alone, as Mininet
does; `Resumable` and `MembersShareFactor` are false without it.  The run of
`VirtualTime` has both.

None of these invariants is inductive.  Each module has an `IInv` (`RxInv` for
`Receive`) that is and that implies them (in `VirtualTimeProofs` under the two hypotheses); TLC checked each before it was proved.

**ProcClock.**  That a freeze is accounted
needs the freeze to be recorded, in the past, exactly while the process is stopped
(`FreezeInForce`, `FreezeStartPast`); that a reading is close needs a bound on what
earlier readings have rounded away (`RoundingBounded`: each adds less than
`dilation` thousandths) and, for the side on which it errs, that the physical past
never runs ahead of the time run (`PastBehind`).
`RoundingBounded` rests on `DivS64Bound` and `DeltaVpnBound`, which say what the
division loses and on which side.  (These lemmas about `TaskClock` open
each of the four modules that need them.)  With one TDF per stay
`OneFactorInv` adds that nothing is kept or carried over and that the last reading
is what the fields say; monotonicity and the refinement follow, one step per action.

**VirtualTime.**  `Subtree` is defined as the least set that holds its root and is
closed under children, so that facts about trees of any depth need no induction: to
show that a step adds nobody to the subtree, exhibit a closed set.
`Tree` is what fork and exit keep true of parents and leaders, `Together` that the
threads of a process are stopped together, `Shared` that a TDF reaches the whole
subtree, for which the tasks that `set_dilation` visits and those it hides must add
up to a closed set; `Frozen`, that exactly Root's group is stopped
while a freeze of Root is recorded.  The attempt to prove `MemberClockContinuous` failed
for a good reason: a change of TDF can set a parent's clock back to zero, its child
then starts with `virtual_start_nsec = 0`, and the kernel takes that for "not in virtual
time" when it reads the child's clock.  TLC found the behaviour in a larger instance than
that of the run, and the property now leaves such a child out.
What a process reads is idempotent (`ReadIdempotent`): a second reading at the same
moment is the same and changes nothing.

**ClockRace.**  The invariant has a part that holds however tools race (a group that
is stopped has a freeze recorded or a tool on its way to record one or to resume
it; each past is bounded by the other), one that serial tools add (at most one is at
work; what each of its steps knows of the charge, before and after it passes it on;
and nobody is charged twice), and one for reads that no packet interrupts (`PlainRead`: a read that has entered the
kernel is charged at least for what was settled by then, and adds no more than what
is left of the time it took).  A read may count a freeze that began after it
entered; the next then goes back, and only there does rounding put the virtual past ahead,
by less than a nanosecond a read, which is the room that `ReadExcludesFreezes` leaves.  A packet
stamped in the midst of a read counts a delta twice until the next read, so that
`ReadExcludesFreezes` is about scenes without.

**Timekeeper.**  `Phase` lists where a writer can be, an alternative for each rest of
its steps, and what the timekeeper holds there: offsets and time of day agree with what
the clocks said before (`Before`), or will say when it is done, or one has been
assigned and the other not yet.  The reader's part follows: as long as the
sequence number has not moved and is even, nobody is between two assignments
(`PhaseEven`), so what it has read and what it will read are of one moment.  The
tick needs `ShadowDue`, that the copy is what the timekeeper should be by now.
`TaskInv` is the account of the process: real time less what was missed, and at most a
nanosecond lost for each read.
For the boot clock, compare its error with the difference of wall and persistent clock
that the kernel remembers (`Aim`): a suspend compensates when the two, with the
truncated fraction of a second, are at least -SEC and less than 2 SEC apart, and otherwise
takes the present error for the new aim.  While nobody sets the clock the error stays within
a second below the aim (`Calm`).  Setting it moves the aim and not the error
(`Stepped`); compensating then brings the error to the aim, at once or, when
the sleep is shorter than what there is to compensate, over several sleeps (`Falling`).
In each case the aim is at most 3 SEC further out than before the set (`Bounded`).
`BootInv` says this also of a system asleep, whose error is the one it will have if it
wakes now.
Proving changed two properties.  `BootClockKept` granted one second per set of the clock;
the attempt to prove it led to the behaviour above, which needs more events than the run
has.  `VirtualReads` had no room for rounding and held only for factors that divide 1000.

**Sleep.**  `Sounds` says of each task what it, its timer and its call owe each other:
the timer is used only inside the sleep whose stack holds it, and does not expire
before the call may end.  `Readies` says what each CPU knows of its queues: in the
interrupt, the first timer of the clocks it has been through; outside of it, the first
of all, for which its event device is armed, unless a softirq, an IPI or the pause is
pending that will see to it.  `Earliest` is a minimum; the proofs use only that it is
a time to wake by and the last such time (`EarliestIs`).  The proof needed
`NoTimerForgotten` to be measured with the offset of the real-time clock as it
stands, not as the CPU last heard of it: that is stronger than what was checked before.

**Futex.**  `Places` says where a waiter is: on one chain, once; in the hands of the
one waker that has taken it off and still holds the bucket; or woken, its `lock_ptr`
cleared.  `Locks` says who holds which bucket, `Counted` whom `hb->waiters` counts,
`Owes` that whoever is owed a wakeup is where the wake will find him: queued for the
futex, about to be, or among those that a requeue is moving there (`Coming`).  That
last case is the hard one: while a requeue moves waiters one by one, each must be
shown to stay within the number that it may still move, which is a fact about the
cardinality of those ahead of him on the chain (`ComingOn`).  Steps that nobody else
can tell (`Steady`) are done once for all; the others share lemmas about a chain that
loses or gains a waiter (`OffIs`, `AppendIs`, `TakesPlaces`).  That no two calls wait
for each other is the order of `double_lock_hb`: whoever waits holds the lower
bucket of its two, so a circle would need each to be lower than the other.
The proof corrected `NotEarly`: `div_s64` drops what is left of a nanosecond, so that
a timeout may end that much early, which the instance was too small to show.

**Transmit.**  `Running` says who holds which lock and that at most one CPU runs the
qdisc, `Scheduled` where the qdisc is when it is scheduled, `Closing` how far the
device has been closed and who may still be in its driver, `Packets` where a packet can be.
For the refinement the packets on their way form a pipe: the one with the driver,
the requeued one, the queue, those of each band in a line of their own.  The invariant makes
at most one of the first two exist (`PipeShape`), and each action is then an `Accept` or
a `Take` in one band, the `Close`, the `Open` or a stutter of `FifoLink`.  `LineKept`
says that the lines change by the queues alone while the packet outside them stays the
same, `BypassAccepts` that a packet which bypasses the queue finds every line empty.

**Receive.**  `Listed` says that a backlog which is scheduled, and whose IPI was not lost, is on
exactly one of the poll lists, the lists of IPIs to send and the IPIs on their way, and that
a CPU which polls has the backlog at the head of its own list, so that no two CPUs
poll one backlog.  What each step does to the lists is a lemma about sets (`Listing...`),
to a queue a lemma about sequences (`Ascending...`, `Backlog...`).  `Tallied` is the
arithmetic of `input_queue_tail` and `input_queue_head`, on which steering rests: `get_rps_cpu` moves a
flow once the old CPU's head has reached the `last_qtail` of the flow, and with `Tallied` that
means that nothing of the flow is queued there and nobody delivers any (`SwitchedFact`).
`Lined` then says that the flow is on one CPU at a time, that its packets ascend
there, and that none of them is below the one that was delivered last.  `Leaving` says
which backlogs are empty already while a device or a CPU goes away.

**Emulation.**  Of a tool: `Threaded` (threads run below the loop and are joined
before it returns), `Budgeted` (a command takes at most a descriptor for each
process on the command line, so `cmds * Len(PidList)` bounds what is
spent), `Effective` (while the descriptors suffice, whoever has written has
had its effect, unless the other tool has written the node since).  Of a shell, `Talk`:
what Mininet has read, followed by what it will read, carries so much of the reply to
the last command as the shell has written, with nothing but background output in
between.  `Carries` says that without `SelectSeq`, of which the prover knows nothing.
The proofs assume that the command line is not empty and that the hosts on it are not
more than the nodes.

What only TLC shows: liveness (`UnfreezeResumes`, `Woken`, `NobodyWaits`,
`BacklogServed`, `EverybodyServed`), since it rests on fairness and ENABLED; and the
safety of `Htb`, whose loops over levels are RECURSIVE operators, out of the prover's reach.

## Not modelled

* Overflow: `delta * 1000` leaves 64 bits after 104 days without a read, as the
  comment in `update_virtual_past_nsec` computes.
* Parsing in `dilation_write` and `freeze_write`, the `_show` functions.
* Writers that are in virtual time themselves.
* Stopped orphans (the kernel may signal them), `CLONE_PARENT`, ptrace.
* `set_dilation` and `fork` at the grain of `ClockRace`.
* Of timekeeping: NTP's adjustment of the rate, `raw_time`, the coarse clocks.
* Of timers: the fallback without high resolution, POSIX interval timers, the tick
  and the clock events under the event device.
* Of futexes: priority inheritance, robust lists, faults other than one that is
  retried, a requeue of a futex to itself; a chain is in the order of arrival (tasks
  of one priority).
* `fs/eventpoll.c`: the patch changes nothing in it; the timeout that it waits for is
  a call of `Sleep`.
* Of the devices: registration, addresses and features, notifiers, GSO and GRO, taps,
  several transmit queues, ingress, netpoll, NAPI devices other than the backlogs, the
  flow limit.  They are the kernel's own, and the packets between emulated hosts pass
  none of their state.
* Mininet's building of networks, links and controllers; `mnexec` is
  `Unshare` of `VirtualTime`.
* The vDSO: patched to fall back to the system call always
  (`arch/x86/vdso/vclock_gettime.c:292-347`).
* `iputils`: third-party programs; `freeze_me`, `freeze_other`, `accu_dilation`:
  they measure, by calls that `ProcClock` and `Emulation` model.
* `virtual_time_module`, `syscall_wrapper`: earlier interfaces, superseded.

Most of the repository's lines are files of the kernel, of Mininet and of iputils
that are there because the patch touches a line or two of them, or none: whole
headers, most of `dev.c`, `eventpoll.c`, `fs/proc/base.c`, the tick.  A model of them
would say nothing about virtual time, and that is why the mapped share of all lines
stays small while the share of the patch's own lines is large.

## Plan

Done: all models above and the theorems of the clock, the container, the races of
freezing, the timekeeper, sleeping, waiting for futexes, sending and receiving, and the
tools with Mininet.

1. `Htb` with folds instead of RECURSIVE operators, so that `CeilRespected` can be proved.
2. `ClockRace` with `set_dilation` against readers, and with fork during a walk.
3. An abstract futex, a set of waiters for each word, that `Futex` implements.

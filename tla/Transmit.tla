------------------------------ MODULE Transmit ------------------------------
(***************************************************************************)
(* How packets leave a host: dev_queue_xmit of net_dilation/core/dev.c and *)
(* the queueing of sch_generic.c, on the CPUs of Cpu, for a device with    *)
(* one transmit queue.  The device has a pfifo_fast ("fifo"), an HTB that  *)
(* may hold packets back ("htb"), or no queue ("none").  Band is the bands *)
(* of pfifo_fast, lower ones first, or the leaves of HTB (and its          *)
(* direct_queue), each a pfifo: which of them is served next is HTB's      *)
(* choice, any here (Htb has it in detail).  A packet's band, chosen by    *)
(* its priority or a filter, is any of Band.                               *)
(*                                                                         *)
(* A CPU is in one dev_queue_xmit or one net_tx_action at a time: both run *)
(* with softirqs off.  Interrupts, in which the driver wakes the queue and *)
(* HTB's watchdog fires, come at any step of any CPU.  There is a step for *)
(* each lock taken and each visit to the driver; what happens under one    *)
(* lock is one step, but the lock is seen held, for spin_trylock.          *)
(*                                                                         *)
(* Bounds gives for each kind of qdisc: the calls of dev_queue_xmit        *)
(* (sends), how often the driver returns NETDEV_TX_BUSY or dev_watchdog    *)
(* freezes the queue, though it is not stopped (refusals), how often HTB   *)
(* holds packets back (delays) and how often the device is closed          *)
(* (closes).  A pfifo_fast, or a leaf of HTB, takes QueueLen packets, and  *)
(* one CPU goes offline if Unplug.                                         *)
(***************************************************************************)
EXTENDS Naturals, Sequences, FiniteSets, Softnet

CONSTANTS Kinds, Band, Bounds, QueueLen, None

ASSUME NoneAssumption == None \notin Cpu
ASSUME KindsAssumption == Kinds \subseteq {"fifo", "htb", "none"}
ASSUME BandAssumption == IsFiniteSet(Band) /\ Band \subseteq Nat
ASSUME BoundAssumption ==
  /\ Bounds \in [Kinds -> [sends : Nat, refusals : Nat, delays : Nat, closes : Nat]]
  /\ QueueLen \in [Kinds -> Nat]

VARIABLES
  kind,      \* of qdisc, out of Kinds; it never changes
  queue,     \* the packets in each band of the qdisc, by number
  gso,       \* gso_skb: the packet that was requeued, or NoSkb
  running,   \* __QDISC___STATE_RUNNING
  sched,     \* __QDISC_STATE_SCHED
  deact,     \* __QDISC_STATE_DEACTIVATED
  throttled, \* HTB's watchdog is armed
  root,      \* who holds qdisc_lock
  busylock,  \* who holds busylock
  attached,  \* txq->qdisc is the qdisc, not noop_qdisc
  stopped,   \* __QUEUE_STATE_DRV_XOFF
  frozen,    \* __QUEUE_STATE_FROZEN: dev_watchdog holds netif_tx_lock
  xlock,     \* who holds _xmit_lock
  cpu,       \* what each CPU is doing, and with which packet
  outq,      \* CPUs with the qdisc on softnet_data.output_queue
  pending,   \* CPUs with NET_TX_SOFTIRQ raised
  dev,       \* where dev_open and dev_close are, and for whom they wait
  left,      \* what is left of the bounds
  accepted,  \* history: packets the qdisc accepted
  taken,     \* history: the packet the driver took last
  opened     \* history: accepted when the device was last opened

qdisc == <<queue, gso, running, sched, deact, throttled>>
txq == <<attached, stopped, frozen, xlock>>
softnet == <<outq, pending, online>>
hist == <<accepted, taken, opened>>
vars == <<kind, qdisc, root, busylock, txq, cpu, softnet, dev, left, hist>>

\* A packet is its number, in the order of acceptance, and its band.
NoSkb == [n |-> 0, band |-> 0]
Skb == [n : Nat \ {0}, band : Band] \cup {NoSkb}

Idle == [pc |-> "idle", via |-> "none", skb |-> NoSkb, sent |-> FALSE]

Init == /\ kind \in Kinds
        /\ queue = [b \in Band |-> <<>>] /\ gso = NoSkb
        /\ running = FALSE /\ sched = FALSE /\ deact = FALSE /\ throttled = FALSE
        /\ root = None /\ busylock = None /\ xlock = None
        /\ attached = TRUE /\ stopped = FALSE /\ frozen = FALSE
        /\ cpu = [c \in Cpu |-> Idle]
        /\ outq = {} /\ pending = {} /\ online = Cpu
        /\ dev = [pc |-> "up", readers |-> {}, dismantle |-> FALSE]
        /\ left = Bounds[kind]
        /\ accepted = 0 /\ taken = 0 /\ opened = 0

----------------------------------------------------------------------------
\* qlen is 0.
Empty == gso = NoSkb /\ \A b \in Band : queue[b] = <<>>

QLen == Cardinality(UNION {{b} \X DOMAIN queue[b] : b \in Band})
          + (IF gso = NoSkb THEN 0 ELSE 1)

\* pfifo_fast counts all its packets, and HTB those of the leaf.
Full(b) == (IF kind = "fifo" THEN QLen ELSE Len(queue[b])) >= QueueLen[kind]

FrozenOrStopped == stopped \/ frozen

Spend(what) == left[what] > 0 /\ left' = [left EXCEPT ![what] = @ - 1]

At(c, pc) == c \in online /\ cpu[c].pc = pc

Goto(c, pc) == cpu' = [cpu EXCEPT ![c].pc = pc]

Finish(c) == /\ cpu' = [cpu EXCEPT ![c] = Idle]
             /\ root' = None
             /\ busylock' = IF busylock = c THEN None ELSE busylock

\* __netif_reschedule
Reschedule(c) == outq' = outq \cup {c} /\ pending' = pending \cup {c}

\* __netif_schedule
Schedule(c) == IF sched THEN UNCHANGED <<sched, outq, pending>>
               ELSE sched' = TRUE /\ Reschedule(c)

----------------------------------------------------------------------------
(* dev_queue_xmit.                                                         *)

\* __dev_queue_xmit reads txq->qdisc under rcu_read_lock_bh: noop_qdisc drops
\* the packet, and a qdisc that is running makes the CPU queue for busylock
\* before it asks for qdisc_lock.
Send(c) ==
  /\ At(c, "idle") /\ Spend("sends")
  /\ \/ ~attached /\ UNCHANGED cpu
     \/ /\ attached /\ kind = "none"
        /\ cpu' = [cpu EXCEPT ![c].pc = "direct", ![c].via = "direct"]
     \/ /\ attached /\ kind # "none"
        /\ cpu' = [cpu EXCEPT ![c].via = "send",
                              ![c].pc = IF running THEN "contend" ELSE "lock"]
  /\ UNCHANGED <<kind, qdisc, root, busylock, txq, softnet, dev, hist>>

\* __dev_queue_xmit for a device without queue: it must be up.
Direct(c) == /\ At(c, "direct")
             /\ IF dev.pc # "down" THEN Goto(c, "hard")
                ELSE cpu' = [cpu EXCEPT ![c] = Idle]
             /\ UNCHANGED <<kind, qdisc, root, busylock, txq, softnet, dev, left, hist>>

BusyLock(c) == /\ At(c, "contend") /\ busylock = None
               /\ busylock' = c
               /\ Goto(c, "lock")
               /\ UNCHANGED <<kind, qdisc, root, txq, softnet, dev, left, hist>>

RootLock(c) == /\ root = None
               /\ \/ At(c, "lock") /\ Goto(c, "enqueue")
                  \/ At(c, "relock") /\ Goto(c, "result")
               /\ root' = c
               /\ UNCHANGED <<kind, qdisc, busylock, txq, softnet, dev, left, hist>>

CanBypass == kind = "fifo" /\ Empty /\ ~running

\* __dev_xmit_skb with TCQ_F_CAN_BYPASS and an empty queue.
Bypass(c) ==
  /\ At(c, "enqueue") /\ ~deact /\ CanBypass
  /\ accepted' = accepted + 1
  /\ running' = TRUE
  /\ \E b \in Band :
       cpu' = [cpu EXCEPT ![c].pc = "hard", ![c].via = "bypass",
                          ![c].skb = [n |-> accepted', band |-> b]]
  /\ root' = None
  /\ UNCHANGED <<kind, queue, gso, sched, deact, throttled, busylock, txq, softnet,
                 dev, left, taken, opened>>

\* __dev_xmit_skb otherwise: a qdisc that has been deactivated or is full drops
\* the packet, or queues it in its band, and who enqueues runs the qdisc unless
\* somebody does already.
Enqueue(c) ==
  /\ At(c, "enqueue") /\ (deact \/ ~CanBypass)
  /\ \E b \in Band :
       IF deact \/ Full(b)
       THEN UNCHANGED <<queue, accepted>>
       ELSE /\ accepted' = accepted + 1
            /\ queue' = [queue EXCEPT ![b] = Append(@, accepted')]
  /\ IF deact \/ running
     THEN Finish(c) /\ UNCHANGED running
     ELSE /\ running' = TRUE
          /\ busylock' = IF busylock = c THEN None ELSE busylock
          /\ Goto(c, "restart")
          /\ UNCHANGED root
  /\ UNCHANGED <<kind, gso, sched, deact, throttled, txq, softnet, dev, left,
                 taken, opened>>

----------------------------------------------------------------------------
(* __qdisc_run, which holds the RUNNING bit and, but for the visit to the  *)
(* driver, qdisc_lock.                                                     *)

\* What the qdisc's dequeue may return: pfifo_fast serves the first band that
\* has a packet, HTB the leaf whose turn it is.
Heads == LET ready == {b \in Band : queue[b] # <<>>}
         IN  {[n |-> Head(queue[b]), band |-> b] :
                b \in {x \in ready : kind = "fifo" => \A y \in ready : x <= y}}

\* dequeue_skb, with TCQ_F_ONETXQUEUE: the packets it may return.
Dequeued == IF FrozenOrStopped THEN {} ELSE IF gso # NoSkb THEN {gso} ELSE Heads

\* qdisc_restart has nothing to send, or not yet: htb_dequeue arms its watchdog.
NothingToSend(c) ==
  /\ At(c, "restart")
  /\ \/ Dequeued = {} /\ UNCHANGED <<throttled, left>>
     \/ /\ kind = "htb" /\ Dequeued # {} /\ gso = NoSkb
        /\ Spend("delays")
        /\ throttled' = TRUE
  /\ Goto(c, "end")
  /\ UNCHANGED <<kind, queue, gso, running, sched, deact, root, busylock, txq, softnet,
                 dev, hist>>

\* Mutant: the requeued packet waits behind the queue.
Restart_NewestFirst(c) ==
  /\ At(c, "restart")
  /\ \E skb \in IF Dequeued # {} /\ Heads # {} THEN Heads ELSE Dequeued :
       /\ cpu' = [cpu EXCEPT ![c].pc = "hard", ![c].skb = skb]
       /\ IF Heads = {} THEN gso' = NoSkb /\ UNCHANGED queue
          ELSE queue' = [queue EXCEPT ![skb.band] = Tail(@)] /\ UNCHANGED gso
  /\ root' = None
  /\ UNCHANGED <<kind, running, sched, deact, throttled, busylock, txq, softnet, dev,
                 left, hist>>

\* qdisc_restart, and sch_direct_xmit up to the driver's lock.
Restart(c) ==
  /\ At(c, "restart")
  /\ \E skb \in Dequeued :
       /\ cpu' = [cpu EXCEPT ![c].pc = "hard", ![c].skb = skb]
       /\ IF gso # NoSkb THEN gso' = NoSkb /\ UNCHANGED queue
          ELSE queue' = [queue EXCEPT ![skb.band] = Tail(@)] /\ UNCHANGED gso
  /\ root' = None
  /\ UNCHANGED <<kind, running, sched, deact, throttled, busylock, txq, softnet, dev,
                 left, hist>>

\* sch_direct_xmit takes the driver's lock; so does __dev_queue_xmit for a
\* device without queue, which drops what a stopped driver does not take.
Hard(c) ==
  /\ At(c, "hard") /\ xlock = None
  /\ IF ~FrozenOrStopped THEN xlock' = c /\ Goto(c, "driver")
     ELSE /\ UNCHANGED xlock
          /\ IF cpu[c].via = "direct" THEN cpu' = [cpu EXCEPT ![c] = Idle]
             ELSE cpu' = [cpu EXCEPT ![c].pc = "relock", ![c].sent = FALSE]
  /\ UNCHANGED <<kind, qdisc, root, busylock, attached, stopped, frozen, softnet, dev,
                 left, hist>>

\* dev_hard_start_xmit: the driver takes the packet, and perhaps stops the
\* queue behind it, or returns NETDEV_TX_BUSY (or NETDEV_TX_LOCKED, which on
\* another CPU's account comes to the same).
Driver(c) ==
  /\ At(c, "driver")
  /\ xlock' = None
  /\ \E sent \in BOOLEAN :
       /\ IF sent THEN stopped' \in BOOLEAN /\ UNCHANGED left
          ELSE Spend("refusals") /\ UNCHANGED stopped
       /\ IF cpu[c].via = "direct"
          THEN cpu' = [cpu EXCEPT ![c] = Idle] /\ UNCHANGED taken
          ELSE /\ cpu' = [cpu EXCEPT ![c].pc = "relock", ![c].sent = sent]
               /\ taken' = IF sent THEN cpu[c].skb.n ELSE taken
  /\ UNCHANGED <<kind, qdisc, root, busylock, attached, frozen, softnet, dev,
                 accepted, opened>>

\* Mutant: a packet that the driver did not take is freed.
Refused_Drops(c) ==
  /\ At(c, "result") /\ ~cpu[c].sent
  /\ Schedule(c)
  /\ cpu' = [cpu EXCEPT ![c].pc = "end", ![c].skb = NoSkb]
  /\ UNCHANGED <<kind, queue, gso, running, deact, throttled, root, busylock, txq,
                 online, dev, left, hist>>

\* sch_direct_xmit when the driver did not take the packet: dev_requeue_skb.
Refused(c) ==
  /\ At(c, "result") /\ ~cpu[c].sent
  /\ gso' = cpu[c].skb
  /\ Schedule(c)
  /\ cpu' = [cpu EXCEPT ![c].pc = "end", ![c].skb = NoSkb]
  /\ UNCHANGED <<kind, queue, running, deact, throttled, root, busylock, txq, online,
                 dev, left, hist>>

\* sch_direct_xmit when it did.  __qdisc_run ends when the queue is empty or
\* the driver has stopped it, and when its quota is used up or another task
\* needs the CPU, which may be at any packet but the one that bypassed the
\* queue; then the softirq goes on.
Sent(c) ==
  /\ At(c, "result") /\ cpu[c].sent
  /\ \/ /\ Empty \/ FrozenOrStopped
        /\ Goto(c, "end")
        /\ UNCHANGED <<sched, outq, pending, busylock>>
     \/ /\ ~Empty /\ ~FrozenOrStopped /\ cpu[c].via # "bypass"
        /\ Schedule(c)
        /\ Goto(c, "end")
        /\ UNCHANGED busylock
     \/ /\ ~Empty /\ ~FrozenOrStopped
        /\ cpu' = [cpu EXCEPT ![c] = [pc |-> "restart", skb |-> NoSkb, sent |-> FALSE,
                                     via |-> IF @.via = "softirq" THEN "softirq" ELSE "send"]]
        /\ busylock' = IF busylock = c THEN None ELSE busylock
        /\ UNCHANGED <<sched, outq, pending>>
  /\ UNCHANGED <<kind, queue, gso, running, deact, throttled, root, txq, online, dev,
                 left, hist>>

\* qdisc_run_end, and the locks.
RunEnd(c) == /\ At(c, "end")
             /\ running' = FALSE
             /\ Finish(c)
             /\ UNCHANGED <<kind, queue, gso, sched, deact, throttled, txq, softnet, dev,
                            left, hist>>

Xmit(c) == \/ Direct(c) \/ BusyLock(c) \/ RootLock(c) \/ Bypass(c) \/ Enqueue(c)
           \/ NothingToSend(c) \/ Restart(c) \/ Hard(c) \/ Driver(c)
           \/ Refused(c) \/ Sent(c) \/ RunEnd(c)

----------------------------------------------------------------------------
(* The softirq and the interrupts.                                         *)

\* net_tx_action takes the list.
TxAction(c) ==
  /\ At(c, "idle") /\ c \in pending
  /\ pending' = pending \ {c}
  /\ outq' = outq \ {c}
  /\ cpu' = IF c \in outq THEN [cpu EXCEPT ![c].pc = "try", ![c].via = "softirq"] ELSE cpu
  /\ UNCHANGED <<kind, qdisc, root, busylock, txq, online, dev, left, hist>>

\* Mutant: a busy lock is taken for somebody who will see to the queue.
TryLock_GivesUp(c) ==
  /\ At(c, "try")
  /\ sched' = FALSE
  /\ IF root = None
     THEN /\ root' = c
          /\ Goto(c, "run")
          /\ UNCHANGED softnet
     ELSE /\ cpu' = [cpu EXCEPT ![c] = Idle]
          /\ UNCHANGED <<root, softnet>>
  /\ UNCHANGED <<kind, queue, gso, running, deact, throttled, busylock, txq, dev, left, hist>>

\* spin_trylock, and what to do without the lock.
TryLock(c) ==
  /\ At(c, "try")
  /\ IF root = None
     THEN /\ root' = c /\ sched' = FALSE
          /\ Goto(c, "run")
          /\ UNCHANGED <<outq, pending>>
     ELSE /\ cpu' = [cpu EXCEPT ![c] = Idle]
          /\ IF deact THEN sched' = FALSE /\ UNCHANGED <<outq, pending>>
             ELSE Reschedule(c) /\ UNCHANGED sched
          /\ UNCHANGED root
  /\ UNCHANGED <<kind, queue, gso, running, deact, throttled, busylock, txq, online,
                 dev, left, hist>>

\* qdisc_run
QdiscRun(c) ==
  /\ At(c, "run")
  /\ IF running THEN Finish(c) /\ UNCHANGED running
     ELSE running' = TRUE /\ Goto(c, "restart") /\ UNCHANGED <<root, busylock>>
  /\ UNCHANGED <<kind, queue, gso, sched, deact, throttled, txq, softnet, dev, left, hist>>

\* netif_wake_queue, from the driver's interrupt: schedules txq->qdisc, which
\* is noop_qdisc when the device is being closed.
WakeQueue(c) ==
  /\ c \in online /\ stopped /\ dev.pc # "down"
  /\ stopped' = FALSE
  /\ IF attached THEN Schedule(c) ELSE UNCHANGED <<sched, outq, pending>>
  /\ UNCHANGED <<kind, queue, gso, running, deact, throttled, root, busylock, attached,
                 frozen, xlock, cpu, online, dev, left, hist>>

\* The watchdog of HTB (Htb has it in detail): __netif_schedule of the root.
HtbWatchdog(c) ==
  /\ c \in online /\ throttled
  /\ throttled' = FALSE
  /\ Schedule(c)
  /\ UNCHANGED <<kind, queue, gso, running, deact, root, busylock, txq, cpu, online,
                 dev, left, hist>>

\* dev_watchdog, which dev_activate starts for a device with a queue, freezes
\* the queue to see whether it has been stopped for too long.
Watchdog == /\ kind # "none" /\ attached /\ ~frozen /\ xlock = None
            /\ frozen' = TRUE
            /\ \/ stopped /\ UNCHANGED left
               \/ ~stopped /\ Spend("refusals")
            /\ UNCHANGED <<kind, qdisc, root, busylock, attached, stopped, xlock, cpu,
                           softnet, dev, hist>>

\* netif_tx_unlock thaws the queue and schedules it if it is not stopped.
WatchdogDone(c) ==
  /\ c \in online /\ frozen
  /\ frozen' = FALSE
  /\ IF attached /\ ~stopped THEN Schedule(c) ELSE UNCHANGED <<sched, outq, pending>>
  /\ UNCHANGED <<kind, queue, gso, running, deact, throttled, root, busylock, attached,
                 stopped, xlock, cpu, online, dev, left, hist>>

Softirq(c) == TxAction(c) \/ TryLock(c) \/ QdiscRun(c)
Interrupt(c) == WakeQueue(c) \/ HtbWatchdog(c) \/ WatchdogDone(c)

----------------------------------------------------------------------------
(* dev_open, dev_close, and a CPU that goes away.                          *)

InXmit == {c \in Cpu : cpu[c].via \in {"send", "bypass", "direct"}}

\* dev_deactivate_queue.  A device that is being dismantled does not wait for
\* those who are in dev_queue_xmit, and is not opened again.
Deactivate ==
  /\ dev.pc = "up" /\ root = None /\ Spend("closes")
  /\ attached' = FALSE
  /\ deact' = (kind # "none")
  /\ queue' = [b \in Band |-> <<>>] /\ gso' = NoSkb /\ throttled' = FALSE
  /\ \E dismantle \in BOOLEAN :
       dev' = [pc |-> "sync", dismantle |-> dismantle,
               readers |-> IF dismantle THEN {} ELSE InXmit]
  /\ UNCHANGED <<kind, running, sched, root, busylock, stopped, frozen, xlock, cpu,
                 softnet, hist>>

\* dev_watchdog_down waits for the watchdog, and synchronize_net for every
\* reader to leave rcu_read_lock_bh.
Synchronized ==
  /\ dev.pc = "sync" /\ ~frozen
  /\ dev.readers \cap InXmit = {}
  /\ dev' = [dev EXCEPT !.pc = "busy", !.readers = {}]
  /\ UNCHANGED <<kind, qdisc, root, busylock, txq, cpu, softnet, left, hist>>

\* Mutant: a qdisc that is scheduled does not count as busy.
Stop_IgnoresScheduled ==
  /\ dev.pc = "busy" /\ root = None /\ ~running
  /\ dev' = [dev EXCEPT !.pc = "down"]
  /\ stopped' \in {stopped, TRUE}
  /\ UNCHANGED <<kind, qdisc, root, busylock, attached, frozen, xlock, cpu, softnet,
                 left, hist>>

\* some_qdisc_is_busy no more; then ndo_stop, which may stop the queue.
Stop ==
  /\ dev.pc = "busy" /\ root = None /\ ~running /\ ~sched
  /\ dev' = [dev EXCEPT !.pc = "down"]
  /\ stopped' \in {stopped, TRUE}
  /\ UNCHANGED <<kind, qdisc, root, busylock, attached, frozen, xlock, cpu, softnet,
                 left, hist>>

\* ndo_open, which may start the queue, and dev_activate.
Open ==
  /\ dev.pc = "down" /\ ~dev.dismantle
  /\ dev' = [dev EXCEPT !.pc = "up"]
  /\ stopped' \in {stopped, FALSE}
  /\ deact' = FALSE /\ attached' = TRUE
  /\ opened' = accepted
  /\ UNCHANGED <<kind, queue, gso, running, sched, throttled, root, busylock, frozen,
                 xlock, cpu, softnet, left, accepted, taken>>

\* Mutant: the list of the dead CPU is forgotten.
Offline_Forgets(c, d) ==
  /\ Unplug /\ online = Cpu /\ c # d /\ {c, d} \subseteq online /\ cpu[c].pc = "idle"
  /\ online' = online \ {c}
  /\ outq' = outq \ {c}
  /\ pending' = (pending \ {c}) \cup {d}
  /\ UNCHANGED <<kind, qdisc, root, busylock, txq, cpu, dev, left, hist>>

\* dev_cpu_callback on d for c, which is dead.
Offline(c, d) ==
  /\ Unplug /\ online = Cpu /\ c # d /\ {c, d} \subseteq online /\ cpu[c].pc = "idle"
  /\ online' = online \ {c}
  /\ outq' = IF c \in outq THEN (outq \ {c}) \cup {d} ELSE outq
  /\ pending' = (pending \ {c}) \cup {d}
  /\ UNCHANGED <<kind, qdisc, root, busylock, txq, cpu, dev, left, hist>>

Next == \/ \E c \in Cpu : Send(c) \/ Xmit(c) \/ Softirq(c) \/ Interrupt(c)
        \/ \E c, d \in Cpu : Offline(c, d)
        \/ Watchdog \/ Deactivate \/ Synchronized \/ Stop \/ Open

\* A CPU goes on with what it has begun and runs its softirqs; a driver that
\* has stopped the queue wakes it, and timers fire; dev_close goes on.
Fairness == /\ \A c \in Cpu : WF_vars(Xmit(c) \/ Softirq(c))
            /\ WF_vars(\E c \in Cpu : WakeQueue(c))
            /\ WF_vars(\E c \in Cpu : HtbWatchdog(c))
            /\ WF_vars(\E c \in Cpu : WatchdogDone(c))
            /\ WF_vars(Synchronized) /\ WF_vars(Stop)

Spec == Init /\ [][Next]_vars /\ Fairness

----------------------------------------------------------------------------
CpuState == [pc : {"idle", "direct", "contend", "lock", "enqueue", "restart", "hard",
                   "driver", "relock", "result", "end", "try", "run"},
             via : {"none", "send", "bypass", "direct", "softirq"},
             skb : Skb, sent : BOOLEAN]

Queues == [Band -> Seq(Nat \ {0})]

DevState == [pc : {"up", "sync", "busy", "down"}, readers : SUBSET Cpu,
             dismantle : BOOLEAN]

TypeOK ==
  /\ kind \in Kinds /\ queue \in Queues /\ gso \in Skb
  /\ {running, sched, deact, throttled, attached, stopped, frozen} \subseteq BOOLEAN
  /\ {root, busylock, xlock} \subseteq Cpu \cup {None}
  /\ cpu \in [Cpu -> CpuState]
  /\ {outq, pending, online} \subseteq SUBSET Cpu
  /\ dev \in DevState
  /\ {accepted, taken, opened} \subseteq Nat

\* The qdisc is on one output queue, or in the hands of one net_tx_action, if it
\* is scheduled, and on none if it is not: whoever sees the bit set may count on
\* a softirq, which is raised where the queue is, on a CPU that is there.
ScheduledOnce ==
  LET trying == {c \in Cpu : cpu[c].pc = "try"}
  IN  /\ TypeOK
      /\ Cardinality(outq) + Cardinality(trying) = IF sched THEN 1 ELSE 0
      /\ outq \subseteq pending \cap online

\* Once the device is down nobody runs the qdisc, will run it, or is in the
\* driver, so that ndo_stop may take the device apart; but a device without
\* queue that is dismantled still has its senders to wait for.
QuietWhenDown ==
  dev.pc = "down" =>
    /\ ~running /\ ~sched
    /\ \A c \in Cpu : cpu[c].pc \in {"hard", "driver"} =>
                        cpu[c].via = "direct" /\ dev.dismantle

\* The packets on their way in each band: the one with the driver, the one that
\* was requeued, the queue.
InHand == {c \in Cpu : cpu[c].skb # NoSkb /\ ~cpu[c].sent}
With == IF InHand = {} THEN NoSkb ELSE cpu[CHOOSE c \in InHand : TRUE].skb
Only(skb, b) == IF skb # NoSkb /\ skb.band = b THEN <<skb.n>> ELSE <<>>
Pipe == [b \in Band |-> Only(With, b) \o Only(gso, b) \o queue[b]]

\* Requeued, run by whichever CPU, sent past the queue or flushed: packets of one
\* band reach the driver in the order in which they were accepted, each once,
\* and of those that were accepted none is lost at any other moment than when
\* the device is closed.
Fifo == INSTANCE FifoLink WITH pipe <- Pipe, open <- (dev.pc = "up")
IsFifo == Fifo!Spec

\* Packets accepted since the device was opened.  (One that the driver refused
\* while the device was closed waits for the next to be sent.)
Waiting == /\ attached
           /\ \E b \in Band : \E i \in DOMAIN Pipe[b] : Pipe[b][i] > opened

\* Nobody waits for ever: a packet leaves unless the device is closed, whatever
\* races with its sender to run the queue, and dev_close returns.
PacketsLeave == Waiting ~> ~Waiting
CloseReturns == dev.pc = "sync" ~> dev.pc = "down"
NobodyWaits == PacketsLeave /\ CloseReturns

=============================================================================

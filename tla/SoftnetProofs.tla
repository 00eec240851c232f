--------------------------- MODULE SoftnetProofs ---------------------------
(***************************************************************************)
(* Theorems about Transmit and Receive, the two halves of                  *)
(* net_dilation/core/dev.c, for any number of CPUs, every kind of device   *)
(* and every bound.                                                        *)
(***************************************************************************)
EXTENDS Transmit, Receive, FiniteSetTheorems, SequenceTheorems, TLAPS

USE DEF qdisc, txq, softnet, hist, queues, napi, rxHist

----------------------------------------------------------------------------
(* Transmit.  The inductive invariant says who holds which lock and who    *)
(* runs the qdisc (Running), where the qdisc is when it is scheduled       *)
(* (Scheduled), how far a device has been closed (Closing), and where the  *)
(* packets are (Packets).                                                  *)

\* Under which locks, and on whose behalf, a CPU is where it is.
RootHeld == {"enqueue", "restart", "result", "end", "run"}

RunsAt(pc, via) ==
  pc \in {"restart", "hard", "driver", "relock", "result", "end"} /\ via # "direct"

ErrandAt(pc, via) ==
  /\ pc = "idle" => via = "none"
  /\ pc = "direct" => via = "direct"
  /\ pc \in {"contend", "lock", "enqueue"} => via = "send"
  /\ pc \in {"try", "run"} => via = "softirq"
  /\ pc \in {"restart", "relock", "result", "end"} => via # "direct"
  /\ pc # "idle" => via # "none"

Runs(c) == RunsAt(cpu[c].pc, cpu[c].via)

Running ==
  /\ \A c \in Cpu : ErrandAt(cpu[c].pc, cpu[c].via)
  /\ \A c \in Cpu : root = c <=> cpu[c].pc \in RootHeld
  /\ \A c \in Cpu : Runs(c) => running
  /\ running => \E c \in Cpu : Runs(c)
  /\ \A c, d \in Cpu : Runs(c) /\ Runs(d) => c = d

\* The qdisc is on one CPU's list, or one CPU has taken it off.
Trying == {c \in Cpu : cpu[c].pc = "try"}

Scheduled ==
  /\ outq \subseteq pending /\ outq \subseteq online
  /\ \A c, d \in outq \cup Trying : c = d
  /\ outq \cap Trying = {}
  /\ sched <=> outq \cup Trying # {}

Drained == [b \in Band |-> <<>>]

Closing ==
  /\ attached <=> dev.pc = "up"
  /\ deact <=> dev.pc # "up" /\ kind # "none"
  /\ deact => queue = Drained
  /\ throttled => kind = "htb" /\ ~deact
  /\ kind = "none" => \A c \in Cpu : cpu[c].via \notin {"send", "bypass"}
  /\ dev.pc = "up" => ~dev.dismantle
  /\ dev.pc = "sync" /\ ~dev.dismantle => InXmit \subseteq dev.readers
  /\ dev.pc \in {"busy", "down"} /\ ~dev.dismantle => InXmit = {}
  /\ dev.pc = "down" => ~running /\ ~sched /\ \A c \in Cpu : cpu[c].pc # "run"

\* A CPU has the packet it took from the qdisc until the driver has it.
CarriesAt(pc, via, sent) == \/ pc \in {"hard", "driver"} /\ via # "direct"
                            \/ pc \in {"relock", "result"} /\ ~sent

Laden(pc, via, skb, sent) ==
  /\ CarriesAt(pc, via, sent) => skb # NoSkb /\ ~sent
  /\ ~CarriesAt(pc, via, sent) => skb = NoSkb \/ sent
  /\ pc \notin {"relock", "result", "end"} => ~sent

Carries(c) == CarriesAt(cpu[c].pc, cpu[c].via, cpu[c].sent)

Packets ==
  /\ \A c \in Cpu : Laden(cpu[c].pc, cpu[c].via, cpu[c].skb, cpu[c].sent)
  /\ \A c \in Cpu : Carries(c) => gso = NoSkb

IInv == TypeOK /\ Running /\ Scheduled /\ Closing /\ Packets

----------------------------------------------------------------------------
(* What the steps of a CPU do to its own state.                            *)

Pcs == {"idle", "direct", "contend", "lock", "enqueue", "restart", "hard", "driver",
        "relock", "result", "end", "try", "run"}

Becomes(c, pc, via, skb, sent) ==
  /\ cpu' \in [Cpu -> CpuState]
  /\ cpu'[c].pc = pc /\ cpu'[c].via = via /\ cpu'[c].skb = skb
  /\ cpu'[c].sent <=> sent
  /\ \A d \in Cpu : d # c => cpu'[d] = cpu[d]

LEMMA SkbFact ==
  /\ NoSkb \in Skb /\ \A skb \in Skb : skb.n \in Nat
  /\ \A skb \in Skb : skb # NoSkb => skb.n \in Nat \ {0} /\ skb.band \in Band
  /\ \A n \in Nat \ {0}, b \in Band :
       LET skb == [n |-> n, band |-> b]
       IN  skb \in Skb /\ skb # NoSkb /\ skb.n = n /\ skb.band = b
<1>1. \A n \in Nat \ {0}, b \in Band : [n |-> n, band |-> b] # NoSkb
  <2> SUFFICES ASSUME NEW n \in Nat \ {0}, NEW b \in Band, [n |-> n, band |-> b] = NoSkb
               PROVE  FALSE
    OBVIOUS
  <2>1. [n |-> n, band |-> b].n = NoSkb.n
    OBVIOUS
  <2> QED
    BY <2>1 DEF NoSkb
<1>2. NoSkb.n \in Nat
  BY DEF NoSkb
<1> QED
  BY <1>1, <1>2 DEF Skb

\* A queue of packets stays one.
LEMMA QueueFact ==
  ASSUME NEW q \in Seq(Nat \ {0})
  PROVE  /\ \A n \in Nat \ {0} : Append(q, n) \in Seq(Nat \ {0})
         /\ q # <<>> => Head(q) \in Nat \ {0} /\ Tail(q) \in Seq(Nat \ {0})
<1> DEFINE P == Nat \ {0}
<1>1. q \in Seq(P)
  OBVIOUS
<1> HIDE DEF P
<1>2. \A n \in P : Append(q, n) \in Seq(P)
  BY <1>1, AppendProperties
<1>3. q # <<>> => Head(q) \in P /\ Tail(q) \in Seq(P)
  BY <1>1, HeadTailProperties
<1> QED
  BY <1>2, <1>3 DEF P

LEMMA QueuesFact ==
  ASSUME queue \in Queues, NEW b \in Band
  PROVE  /\ queue[b] \in Seq(Nat \ {0})
         /\ \A n \in Nat \ {0} : [queue EXCEPT ![b] = Append(@, n)] \in Queues
         /\ queue[b] # <<>> => [queue EXCEPT ![b] = Tail(@)] \in Queues
<1>1. queue[b] \in Seq(Nat \ {0})
  BY DEF Queues
<1>2. \A q \in Seq(Nat \ {0}) : [queue EXCEPT ![b] = q] \in Queues
  BY DEF Queues
<1> QED
  BY <1>1, <1>2, QueueFact

LEMMA CpuSet ==
  ASSUME TypeOK, NEW c \in Cpu, NEW new \in CpuState, cpu' = [cpu EXCEPT ![c] = new]
  PROVE  Becomes(c, new.pc, new.via, new.skb, new.sent)
<1> QED
  BY DEF TypeOK, Becomes

LEMMA GotoDoes ==
  ASSUME TypeOK, NEW c \in Cpu, NEW to \in Pcs, Goto(c, to)
  PROVE  Becomes(c, to, cpu[c].via, cpu[c].skb, cpu[c].sent)
<1> DEFINE new == [cpu[c] EXCEPT !.pc = to]
<1>1. cpu[c] \in CpuState
  BY DEF TypeOK
<1>2. /\ new \in CpuState /\ new.pc = to /\ new.via = cpu[c].via /\ new.skb = cpu[c].skb
      /\ new.sent = cpu[c].sent
  BY <1>1 DEF CpuState, Pcs
<1>3. cpu' = [cpu EXCEPT ![c] = new]
  BY DEF Goto
<1> HIDE DEF new
<1> QED
  BY <1>2, <1>3, CpuSet

LEMMA IdleDoes ==
  ASSUME TypeOK, NEW c \in Cpu, cpu' = [cpu EXCEPT ![c] = Idle]
  PROVE  Becomes(c, "idle", "none", NoSkb, FALSE)
<1>1. Idle \in CpuState
  BY SkbFact DEF Idle, CpuState
<1>2. Becomes(c, Idle.pc, Idle.via, Idle.skb, Idle.sent)
  BY <1>1, CpuSet
<1> QED
  BY <1>2 DEF Idle

\* A packet is taken along, or the errand is another.
LEMMA EntersDoes ==
  ASSUME TypeOK, NEW c \in Cpu, NEW to \in Pcs,
         NEW via \in {"none", "send", "bypass", "direct", "softirq"},
         cpu' = [cpu EXCEPT ![c].pc = to, ![c].via = via]
  PROVE  Becomes(c, to, via, cpu[c].skb, cpu[c].sent)
<1> DEFINE one == [cpu[c] EXCEPT !.pc = to]
           new == [one EXCEPT !.via = via]
<1>1. cpu[c] \in CpuState
  BY DEF TypeOK
<1>2. /\ one \in CpuState /\ one.pc = to /\ one.skb = cpu[c].skb
      /\ one.sent = cpu[c].sent
  BY <1>1 DEF CpuState, Pcs
<1>3. cpu' = [cpu EXCEPT ![c] = new]
  BY Zenon
<1> HIDE DEF one
<1>4. /\ new \in CpuState /\ new.pc = to /\ new.via = via /\ new.skb = cpu[c].skb
      /\ new.sent = cpu[c].sent
  BY <1>2 DEF CpuState
<1> HIDE DEF new
<1> QED
  BY <1>3, <1>4, CpuSet

LEMMA LoadsDoes ==
  ASSUME TypeOK, NEW c \in Cpu, NEW to \in Pcs, NEW skb \in Skb,
         cpu' = [cpu EXCEPT ![c].pc = to, ![c].skb = skb]
  PROVE  Becomes(c, to, cpu[c].via, skb, cpu[c].sent)
<1> DEFINE one == [cpu[c] EXCEPT !.pc = to]
           new == [one EXCEPT !.skb = skb]
<1>1. cpu[c] \in CpuState
  BY DEF TypeOK
<1>2. /\ one \in CpuState /\ one.pc = to /\ one.via = cpu[c].via
      /\ one.sent = cpu[c].sent
  BY <1>1 DEF CpuState, Pcs
<1>3. cpu' = [cpu EXCEPT ![c] = new]
  BY Zenon
<1> HIDE DEF one
<1>4. /\ new \in CpuState /\ new.pc = to /\ new.via = cpu[c].via /\ new.skb = skb
      /\ new.sent = cpu[c].sent
  BY <1>2 DEF CpuState
<1> HIDE DEF new
<1> QED
  BY <1>3, <1>4, CpuSet

LEMMA HandedDoes ==
  ASSUME TypeOK, NEW c \in Cpu, NEW to \in Pcs, NEW sent \in BOOLEAN,
         cpu' = [cpu EXCEPT ![c].pc = to, ![c].sent = sent]
  PROVE  Becomes(c, to, cpu[c].via, cpu[c].skb, sent)
<1> DEFINE one == [cpu[c] EXCEPT !.pc = to]
           new == [one EXCEPT !.sent = sent]
<1>1. cpu[c] \in CpuState
  BY DEF TypeOK
<1>2. /\ one \in CpuState /\ one.pc = to /\ one.via = cpu[c].via
      /\ one.skb = cpu[c].skb
  BY <1>1 DEF CpuState, Pcs
<1>3. cpu' = [cpu EXCEPT ![c] = new]
  BY Zenon
<1> HIDE DEF one
<1>4. /\ new \in CpuState /\ new.pc = to /\ new.via = cpu[c].via
      /\ new.skb = cpu[c].skb /\ new.sent = sent
  BY <1>2 DEF CpuState
<1> HIDE DEF new
<1> QED
  BY <1>3, <1>4, CpuSet

----------------------------------------------------------------------------
(* What each action does, field by field.                                  *)

\* CPU c goes on with what it has.
Goes(c, from, to) ==
  cpu[c].pc = from /\ Becomes(c, to, cpu[c].via, cpu[c].skb, cpu[c].sent)

\* __netif_schedule marks the qdisc and puts it on the list of c, or finds it marked.
Schedules(c) ==
  \/ sched /\ UNCHANGED <<sched, outq, pending>>
  \/ /\ ~sched /\ sched' = TRUE
     /\ outq' = outq \cup {c} /\ pending' = pending \cup {c}

LEMMA MoveDoes ==
  ASSUME TypeOK, NEW c \in Cpu, NEW from, NEW to \in Pcs, At(c, from), Goto(c, to)
  PROVE  Goes(c, from, to)
<1> QED
  BY GotoDoes DEF At, Goes

LEMMA ScheduleDoes == \A c \in Cpu : TypeOK /\ Schedule(c) => Schedules(c)
<1> QED
  BY DEF TypeOK, Schedule, Reschedule, Schedules

LEMMA SendDoes ==
  ASSUME TypeOK, NEW c \in Cpu, Send(c)
  PROVE  /\ cpu[c].pc = "idle"
         /\ \/ UNCHANGED cpu
            \/ /\ attached /\ kind = "none"
               /\ Becomes(c, "direct", "direct", cpu[c].skb, cpu[c].sent)
            \/ /\ attached /\ kind # "none"
               /\ \E to \in {"contend", "lock"} : Becomes(c, to, "send", cpu[c].skb, cpu[c].sent)
         /\ UNCHANGED <<kind, qdisc, root, busylock, txq, softnet, dev, hist>>
<1>1. CASE ~attached
  BY <1>1 DEF Send, At
<1>2. CASE attached /\ kind = "none"
  <2>1. Becomes(c, "direct", "direct", cpu[c].skb, cpu[c].sent)
    BY <1>2, EntersDoes, Zenon DEF Send, Pcs
  <2> QED
    BY <1>2, <2>1 DEF Send, At
<1>3. CASE attached /\ kind # "none"
  <2> DEFINE to == IF running THEN "contend" ELSE "lock"
  <2>1. cpu' = [cpu EXCEPT ![c].pc = to, ![c].via = "send"]
    <3>1. cpu' = [cpu EXCEPT ![c].via = "send", ![c].pc = to]
      BY <1>3 DEF Send
    <3> QED
      BY <3>1
  <2>2. to \in {"contend", "lock"}
    OBVIOUS
  <2> HIDE DEF to
  <2>3. Becomes(c, to, "send", cpu[c].skb, cpu[c].sent)
    BY <2>1, <2>2, EntersDoes, Zenon DEF Pcs
  <2> QED
    BY <1>3, <2>2, <2>3 DEF Send, At
<1> QED
  BY <1>1, <1>2, <1>3 DEF Send

LEMMA DirectDoes ==
  ASSUME TypeOK, NEW c \in Cpu, Direct(c)
  PROVE  /\ \/ dev.pc # "down" /\ Goes(c, "direct", "hard")
            \/ cpu[c].pc = "direct" /\ Becomes(c, "idle", "none", NoSkb, FALSE)
         /\ UNCHANGED <<kind, qdisc, root, busylock, txq, softnet, dev, hist>>
<1>1. CASE dev.pc # "down"
  BY <1>1, MoveDoes DEF Direct, Pcs
<1>2. CASE dev.pc = "down"
  BY <1>2, IdleDoes DEF Direct, At
<1> QED
  BY <1>1, <1>2

LEMMA BusyLockDoes ==
  ASSUME TypeOK, NEW c \in Cpu, BusyLock(c)
  PROVE  /\ Goes(c, "contend", "lock") /\ busylock' = c
         /\ UNCHANGED <<kind, qdisc, root, txq, softnet, dev, hist>>
<1> QED
  BY MoveDoes DEF BusyLock, Pcs

LEMMA RootLockDoes ==
  ASSUME TypeOK, NEW c \in Cpu, RootLock(c)
  PROVE  /\ root = None /\ root' = c
         /\ Goes(c, "lock", "enqueue") \/ Goes(c, "relock", "result")
         /\ UNCHANGED <<kind, qdisc, busylock, txq, softnet, dev, hist>>
<1> QED
  BY MoveDoes DEF RootLock, Pcs

LEMMA BypassDoes ==
  ASSUME TypeOK, NEW c \in Cpu, Bypass(c)
  PROVE  /\ cpu[c].pc = "enqueue" /\ ~deact /\ kind = "fifo" /\ Empty /\ ~running
         /\ accepted' = accepted + 1 /\ running' = TRUE /\ root' = None
         /\ \E skb \in Skb : /\ skb # NoSkb /\ skb.n = accepted + 1
                            /\ Becomes(c, "hard", "bypass", skb, cpu[c].sent)
         /\ UNCHANGED <<kind, queue, gso, sched, deact, throttled, busylock, txq, softnet, dev,
                        taken, opened>>
<1>1. PICK b \in Band :
        cpu' = [cpu EXCEPT ![c].pc = "hard", ![c].via = "bypass",
                           ![c].skb = [n |-> accepted', band |-> b]]
  BY DEF Bypass
<1> DEFINE skb == [n |-> accepted', band |-> b]
           one == [cpu[c] EXCEPT !.pc = "hard"]
           two == [one EXCEPT !.via = "bypass"]
           new == [two EXCEPT !.skb = skb]
<1>2. cpu[c] \in CpuState
  BY DEF TypeOK
<1>3. skb \in Skb /\ skb # NoSkb /\ skb.n = accepted + 1
  <2>1. accepted' \in Nat \ {0} /\ accepted' = accepted + 1
    BY DEF TypeOK, Bypass
  <2> QED
    BY <2>1, SkbFact
<1>4. cpu' = [cpu EXCEPT ![c] = new]
  BY <1>1, Zenon
<1> HIDE DEF skb
<1>5. one \in CpuState /\ one.pc = "hard" /\ one.sent = cpu[c].sent
  BY <1>2 DEF CpuState
<1> HIDE DEF one
<1>6. two \in CpuState /\ two.pc = "hard" /\ two.via = "bypass" /\ two.sent = cpu[c].sent
  BY <1>5 DEF CpuState
<1> HIDE DEF two
<1>7. /\ new \in CpuState /\ new.pc = "hard" /\ new.via = "bypass" /\ new.skb = skb
      /\ new.sent = cpu[c].sent
  BY <1>3, <1>6 DEF CpuState
<1> HIDE DEF new
<1>8. Becomes(c, "hard", "bypass", skb, cpu[c].sent)
  BY <1>4, <1>7, CpuSet
<1> QED
  BY <1>3, <1>8 DEF Bypass, CanBypass, At

LEMMA EnqueueDoes ==
  ASSUME TypeOK, NEW c \in Cpu, Enqueue(c)
  PROVE  /\ cpu[c].pc = "enqueue"
         /\ \/ UNCHANGED <<queue, accepted>>
            \/ /\ ~deact /\ accepted' = accepted + 1
               /\ \E b \in Band : queue' = [queue EXCEPT ![b] = Append(@, accepted + 1)]
         /\ \/ /\ deact \/ running
               /\ Becomes(c, "idle", "none", NoSkb, FALSE) /\ root' = None
               /\ UNCHANGED running
            \/ /\ ~deact /\ ~running /\ running' = TRUE
               /\ Goes(c, "enqueue", "restart")
               /\ UNCHANGED root
         /\ busylock' \in {busylock, None}
         /\ UNCHANGED <<kind, gso, sched, deact, throttled, txq, softnet, dev, taken, opened>>
<1>1. CASE deact \/ running
  BY <1>1, IdleDoes DEF Enqueue, Finish, At
<1>2. CASE ~(deact \/ running)
  BY <1>2, MoveDoes DEF Enqueue, Pcs, At
<1> QED
  BY <1>1, <1>2

LEMMA NothingToSendDoes ==
  ASSUME TypeOK, NEW c \in Cpu, NothingToSend(c)
  PROVE  /\ Goes(c, "restart", "end")
         /\ \/ UNCHANGED throttled
            \/ kind = "htb" /\ Dequeued # {} /\ gso = NoSkb /\ throttled' = TRUE
         /\ UNCHANGED <<kind, queue, gso, running, sched, deact, root, busylock, txq, softnet,
                        dev, hist>>
<1> QED
  BY MoveDoes DEF NothingToSend, Pcs

\* The packet is the one that was requeued, or the first of its band.
TakesOut(skb) ==
  \/ gso # NoSkb /\ skb = gso /\ gso' = NoSkb /\ UNCHANGED queue
  \/ /\ gso = NoSkb /\ UNCHANGED gso
     /\ queue[skb.band] # <<>> /\ skb.n = Head(queue[skb.band])
     /\ queue' = [queue EXCEPT ![skb.band] = Tail(@)]

LEMMA RestartDoes ==
  ASSUME TypeOK, NEW c \in Cpu, Restart(c)
  PROVE  /\ cpu[c].pc = "restart"
         /\ \E skb \in Skb : /\ skb # NoSkb /\ TakesOut(skb)
                            /\ Becomes(c, "hard", cpu[c].via, skb, cpu[c].sent)
         /\ root' = None
         /\ UNCHANGED <<kind, running, sched, deact, throttled, busylock, txq, softnet, dev,
                        hist>>
<1>1. PICK skb \in Dequeued :
        /\ cpu' = [cpu EXCEPT ![c].pc = "hard", ![c].skb = skb]
        /\ IF gso # NoSkb THEN gso' = NoSkb /\ UNCHANGED queue
           ELSE queue' = [queue EXCEPT ![skb.band] = Tail(@)] /\ UNCHANGED gso
  BY DEF Restart
<1>2. skb \in Skb /\ skb # NoSkb /\ TakesOut(skb)
  <2>1. CASE gso # NoSkb
    BY <1>1, <2>1 DEF Dequeued, TakesOut, TypeOK
  <2>2. CASE gso = NoSkb
    <3>1. skb \in Heads
      BY <1>1, <2>2 DEF Dequeued
    <3>2. PICK b \in Band : queue[b] # <<>> /\ skb = [n |-> Head(queue[b]), band |-> b]
      BY <3>1 DEF Heads
    <3>3. Head(queue[b]) \in Nat \ {0}
      <4>1. queue[b] \in Seq(Nat \ {0})
        BY QueuesFact DEF TypeOK
      <4> QED
        BY <3>2, <4>1, QueueFact
    <3> QED
      BY <1>1, <2>2, <3>2, <3>3, SkbFact DEF TakesOut
  <2> QED
    BY <2>1, <2>2
<1>3. Becomes(c, "hard", cpu[c].via, skb, cpu[c].sent)
  BY <1>1, <1>2, LoadsDoes DEF Pcs
<1> QED
  BY <1>2, <1>3 DEF Restart, At

LEMMA HardDoes ==
  ASSUME TypeOK, NEW c \in Cpu, Hard(c)
  PROVE  /\ cpu[c].pc = "hard"
         /\ \/ Goes(c, "hard", "driver") /\ xlock' = c
            \/ cpu[c].via = "direct" /\ Becomes(c, "idle", "none", NoSkb, FALSE) /\ UNCHANGED xlock
            \/ /\ cpu[c].via # "direct" /\ UNCHANGED xlock
               /\ Becomes(c, "relock", cpu[c].via, cpu[c].skb, FALSE)
         /\ UNCHANGED <<kind, qdisc, root, busylock, attached, stopped, frozen, softnet, dev,
                        hist>>
<1>1. CASE ~FrozenOrStopped
  BY <1>1, MoveDoes DEF Hard, Pcs, At
<1>2. CASE FrozenOrStopped /\ cpu[c].via = "direct"
  BY <1>2, IdleDoes DEF Hard, At
<1>3. CASE FrozenOrStopped /\ cpu[c].via # "direct"
  <2>1. cpu' = [cpu EXCEPT ![c].pc = "relock", ![c].sent = FALSE]
    BY <1>3 DEF Hard
  <2>2. Becomes(c, "relock", cpu[c].via, cpu[c].skb, FALSE)
    BY <2>1, HandedDoes DEF Pcs
  <2> QED
    BY <1>3, <2>2 DEF Hard, At
<1> QED
  BY <1>1, <1>2, <1>3

LEMMA DriverDoes ==
  ASSUME TypeOK, NEW c \in Cpu, Driver(c)
  PROVE  /\ cpu[c].pc = "driver" /\ xlock' = None /\ stopped' \in {stopped, TRUE, FALSE}
         /\ \/ /\ cpu[c].via = "direct" /\ Becomes(c, "idle", "none", NoSkb, FALSE)
               /\ UNCHANGED taken
            \/ /\ cpu[c].via # "direct"
               /\ \/ Becomes(c, "relock", cpu[c].via, cpu[c].skb, TRUE) /\ taken' = cpu[c].skb.n
                  \/ Becomes(c, "relock", cpu[c].via, cpu[c].skb, FALSE) /\ UNCHANGED taken
         /\ UNCHANGED <<kind, qdisc, root, busylock, attached, frozen, softnet, dev, accepted,
                        opened>>
<1>1. PICK sent \in BOOLEAN :
        /\ stopped' \in {stopped, TRUE, FALSE}
        /\ IF cpu[c].via = "direct"
           THEN cpu' = [cpu EXCEPT ![c] = Idle] /\ UNCHANGED taken
           ELSE /\ cpu' = [cpu EXCEPT ![c].pc = "relock", ![c].sent = sent]
                /\ taken' = IF sent THEN cpu[c].skb.n ELSE taken
  BY DEF Driver
<1>2. CASE cpu[c].via = "direct"
  BY <1>1, <1>2, IdleDoes DEF Driver, At
<1>3. CASE cpu[c].via # "direct"
  <2>1. Becomes(c, "relock", cpu[c].via, cpu[c].skb, sent)
    BY <1>1, <1>3, HandedDoes DEF Pcs
  <2>2. CASE sent = TRUE
    BY <1>1, <1>3, <2>1, <2>2 DEF Driver, At
  <2>3. CASE sent = FALSE
    BY <1>1, <1>3, <2>1, <2>3 DEF Driver, At
  <2> QED
    BY <2>2, <2>3
<1> QED
  BY <1>2, <1>3

LEMMA RefusedDoes ==
  ASSUME TypeOK, NEW c \in Cpu, Refused(c)
  PROVE  /\ cpu[c].pc = "result" /\ ~cpu[c].sent /\ gso' = cpu[c].skb /\ Schedules(c)
         /\ Becomes(c, "end", cpu[c].via, NoSkb, cpu[c].sent)
         /\ UNCHANGED <<kind, queue, running, deact, throttled, root, busylock, txq, online,
                        dev, hist>>
<1>1. Becomes(c, "end", cpu[c].via, NoSkb, cpu[c].sent)
  BY LoadsDoes, SkbFact DEF Refused, Pcs
<1> QED
  BY <1>1, ScheduleDoes DEF Refused, At

LEMMA SentDoes ==
  ASSUME TypeOK, NEW c \in Cpu, Sent(c)
  PROVE  /\ cpu[c].pc = "result" /\ cpu[c].sent /\ busylock' \in {busylock, None}
         /\ \/ Goes(c, "result", "end") /\ UNCHANGED <<sched, outq, pending>>
            \/ Goes(c, "result", "end") /\ Schedules(c)
            \/ /\ \E via \in {"softirq", "send"} : Becomes(c, "restart", via, NoSkb, FALSE)
                                                /\ (via = "softirq" <=> cpu[c].via = "softirq")
               /\ UNCHANGED <<sched, outq, pending>>
         /\ UNCHANGED <<kind, queue, gso, running, deact, throttled, root, txq, online, dev,
                        hist>>
<1>1. CASE Goto(c, "end") /\ UNCHANGED <<sched, outq, pending>> /\ UNCHANGED busylock
  BY <1>1, MoveDoes DEF Sent, Pcs, At
<1>2. CASE Goto(c, "end") /\ Schedule(c) /\ UNCHANGED busylock
  BY <1>2, MoveDoes, ScheduleDoes DEF Sent, Pcs, At
<1>3. CASE /\ cpu' = [cpu EXCEPT ![c] = [pc |-> "restart", skb |-> NoSkb, sent |-> FALSE,
                        via |-> IF @.via = "softirq" THEN "softirq" ELSE "send"]]
           /\ busylock' = IF busylock = c THEN None ELSE busylock
           /\ UNCHANGED <<sched, outq, pending>>
  <2> DEFINE via == IF cpu[c].via = "softirq" THEN "softirq" ELSE "send"
             new == [pc |-> "restart", skb |-> NoSkb, sent |-> FALSE, via |-> via]
  <2>1. cpu' = [cpu EXCEPT ![c] = new]
    BY <1>3, Zenon
  <2>2. via \in {"softirq", "send"} /\ (via = "softirq" <=> cpu[c].via = "softirq")
    OBVIOUS
  <2> HIDE DEF via
  <2>3. /\ new \in CpuState /\ new.pc = "restart" /\ new.via = via /\ new.skb = NoSkb
        /\ new.sent = FALSE
    BY <2>2, SkbFact DEF CpuState
  <2> HIDE DEF new
  <2>4. Becomes(c, "restart", via, NoSkb, FALSE)
    BY <2>1, <2>3, CpuSet
  <2> QED
    BY <1>3, <2>2, <2>4 DEF Sent, At
<1> QED
  BY <1>1, <1>2, <1>3 DEF Sent

LEMMA RunEndDoes ==
  ASSUME TypeOK, NEW c \in Cpu, RunEnd(c)
  PROVE  /\ cpu[c].pc = "end" /\ running' = FALSE /\ root' = None
         /\ Becomes(c, "idle", "none", NoSkb, FALSE) /\ busylock' \in {busylock, None}
         /\ UNCHANGED <<kind, queue, gso, sched, deact, throttled, txq, softnet, dev, hist>>
<1> QED
  BY IdleDoes DEF RunEnd, Finish, At

LEMMA TxActionDoes ==
  ASSUME TypeOK, NEW c \in Cpu, TxAction(c)
  PROVE  /\ cpu[c].pc = "idle" /\ c \in online
         /\ pending' = pending \ {c} /\ outq' = outq \ {c}
         /\ \/ c \in outq /\ Becomes(c, "try", "softirq", cpu[c].skb, cpu[c].sent)
            \/ c \notin outq /\ UNCHANGED cpu
         /\ UNCHANGED <<kind, qdisc, root, busylock, txq, online, dev, hist>>
<1>1. CASE c \in outq
  <2>1. Becomes(c, "try", "softirq", cpu[c].skb, cpu[c].sent)
    BY <1>1, EntersDoes, Zenon DEF TxAction, Pcs
  <2> QED
    BY <1>1, <2>1 DEF TxAction, At
<1>2. CASE c \notin outq
  BY <1>2 DEF TxAction, At
<1> QED
  BY <1>1, <1>2

LEMMA TryLockDoes ==
  ASSUME TypeOK, NEW c \in Cpu, TryLock(c)
  PROVE  /\ cpu[c].pc = "try" /\ c \in online
         /\ \/ /\ root = None /\ root' = c /\ sched' = FALSE /\ Goes(c, "try", "run")
               /\ UNCHANGED <<outq, pending>>
            \/ /\ root # None /\ Becomes(c, "idle", "none", NoSkb, FALSE) /\ UNCHANGED root
               /\ \/ deact /\ sched' = FALSE /\ UNCHANGED <<outq, pending>>
                  \/ /\ outq' = outq \cup {c} /\ pending' = pending \cup {c}
                     /\ UNCHANGED sched
         /\ UNCHANGED <<kind, queue, gso, running, deact, throttled, busylock, txq, online,
                        dev, hist>>
<1>1. CASE root = None
  BY <1>1, MoveDoes DEF TryLock, Pcs, At
<1>2. CASE root # None
  BY <1>2, IdleDoes DEF TryLock, Reschedule, At
<1> QED
  BY <1>1, <1>2

LEMMA QdiscRunDoes ==
  ASSUME TypeOK, NEW c \in Cpu, QdiscRun(c)
  PROVE  /\ cpu[c].pc = "run" /\ busylock' \in {busylock, None}
         /\ \/ running /\ Becomes(c, "idle", "none", NoSkb, FALSE) /\ root' = None /\ UNCHANGED running
            \/ /\ ~running /\ running' = TRUE /\ Goes(c, "run", "restart")
               /\ UNCHANGED <<root, busylock>>
         /\ UNCHANGED <<kind, queue, gso, sched, deact, throttled, txq, softnet, dev, hist>>
<1>1. CASE running
  BY <1>1, IdleDoes DEF QdiscRun, Finish, At
<1>2. CASE ~running
  BY <1>2, MoveDoes DEF QdiscRun, Pcs, At
<1> QED
  BY <1>1, <1>2

----------------------------------------------------------------------------
(* What is left to show of a step of CPU c, part by part.                  *)

LEMMA StaysPut ==
  ASSUME TypeOK, NEW c \in Cpu, UNCHANGED cpu
  PROVE  Becomes(c, cpu[c].pc, cpu[c].via, cpu[c].skb, cpu[c].sent)
<1> QED
  BY DEF TypeOK, Becomes

LEMMA BoolFact ==
  TypeOK => /\ running \in BOOLEAN /\ sched \in BOOLEAN /\ deact \in BOOLEAN
            /\ throttled \in BOOLEAN /\ attached \in BOOLEAN /\ stopped \in BOOLEAN
            /\ frozen \in BOOLEAN
<1> QED
  BY Zenon DEF TypeOK

LEMMA TypeFrame ==
  ASSUME kind' \in Kinds, queue' \in Queues, gso' \in Skb,
         running' \in BOOLEAN, sched' \in BOOLEAN, deact' \in BOOLEAN, throttled' \in BOOLEAN,
         attached' \in BOOLEAN, stopped' \in BOOLEAN, frozen' \in BOOLEAN,
         {root', busylock', xlock'} \subseteq Cpu \cup {None},
         cpu' \in [Cpu -> CpuState],
         outq' \subseteq Cpu, pending' \subseteq Cpu, online' \subseteq Cpu,
         dev' \in DevState,
         {accepted', taken', opened'} \subseteq Nat
  PROVE  TypeOK'
<1>1. {running', sched', deact', throttled', attached', stopped', frozen'} \subseteq BOOLEAN
  BY Zenon
<1>2. /\ kind' \in Kinds /\ queue' \in Queues /\ gso' \in Skb
      /\ {root', busylock', xlock'} \subseteq Cpu \cup {None}
      /\ {accepted', taken', opened'} \subseteq Nat
  OBVIOUS
<1>3. /\ cpu' \in [Cpu -> CpuState]
      /\ {outq', pending', online'} \subseteq SUBSET Cpu
      /\ dev' \in DevState
  OBVIOUS
<1> QED
  BY <1>1, <1>2, <1>3, Zenon DEF TypeOK

\* qdisc_lock is taken or released, or CPU c has it, or does not have it, as before.
RootPassed(c, pc) ==
  \/ UNCHANGED root /\ (cpu[c].pc \in RootHeld <=> pc \in RootHeld)
  \/ root = None /\ root' = c /\ pc \in RootHeld
  \/ cpu[c].pc \in RootHeld /\ root' = None /\ pc \notin RootHeld

\* So with the right to run the qdisc.
RunPassed(c, pc, via) ==
  \/ UNCHANGED running /\ (Runs(c) <=> RunsAt(pc, via))
  \/ ~running /\ running' = TRUE /\ RunsAt(pc, via)
  \/ Runs(c) /\ running' = FALSE /\ ~RunsAt(pc, via)

LEMMA RunningFrame ==
  ASSUME Running, NEW c \in Cpu, NEW pc, NEW via, NEW skb, NEW sent,
         Becomes(c, pc, via, skb, sent),
         ErrandAt(pc, via), RootPassed(c, pc), RunPassed(c, pc, via)
  PROVE  Running'
<1>1. \A d \in Cpu : d # c => cpu'[d] = cpu[d] /\ (Runs(d)' <=> Runs(d))
  BY DEF Becomes, Runs
<1>2. cpu'[c].pc = pc /\ cpu'[c].via = via /\ (Runs(c)' <=> RunsAt(pc, via))
  BY DEF Becomes, Runs
<1>3. \A d \in Cpu : ErrandAt(cpu[d].pc, cpu[d].via)'
  BY <1>1, <1>2 DEF Running
<1>4. \A d \in Cpu : root' = d <=> cpu'[d].pc \in RootHeld
  BY <1>1, <1>2, NoneAssumption DEF Running, RootPassed
<1>5. /\ \A d \in Cpu : Runs(d)' => running'
      /\ running' => \E d \in Cpu : Runs(d)'
      /\ \A d, e \in Cpu : Runs(d)' /\ Runs(e)' => d = e
  <2>1. /\ \A d \in Cpu : Runs(d) => running
        /\ running => \E d \in Cpu : Runs(d)
        /\ \A d, e \in Cpu : Runs(d) /\ Runs(e) => d = e
    BY DEF Running
  <2>2. CASE UNCHANGED running /\ (Runs(c) <=> RunsAt(pc, via))
    <3>1. \A d \in Cpu : Runs(d)' <=> Runs(d)
      BY <1>1, <1>2, <2>2
    <3> QED
      BY <2>1, <2>2, <3>1
  <2>3. CASE ~running /\ running' = TRUE /\ RunsAt(pc, via)
    <3>1. \A d \in Cpu : Runs(d)' <=> d = c
      BY <1>1, <1>2, <2>1, <2>3
    <3> QED
      BY <2>3, <3>1
  <2>4. CASE Runs(c) /\ running' = FALSE /\ ~RunsAt(pc, via)
    <3>1. \A d \in Cpu : ~Runs(d)'
      BY <1>1, <1>2, <2>1, <2>4
    <3> QED
      BY <2>4, <3>1
  <2> QED
    BY <2>2, <2>3, <2>4 DEF RunPassed
<1> QED
  BY <1>3, <1>4, <1>5, Zenon DEF Running

\* The qdisc is scheduled as before, or on c from now on.
LEMMA ScheduledFrame ==
  ASSUME TypeOK, Scheduled, NEW c \in online, Trying' = Trying, UNCHANGED online,
         UNCHANGED <<sched, outq, pending>> \/ Schedules(c)
  PROVE  Scheduled'
<1>1. c \in Cpu
  BY DEF TypeOK
<1>2. CASE UNCHANGED <<sched, outq, pending>>
  BY <1>2 DEF Scheduled
<1>3. CASE /\ ~sched /\ sched' = TRUE
           /\ outq' = outq \cup {c} /\ pending' = pending \cup {c}
  <2>1. outq = {} /\ Trying = {}
    BY <1>3 DEF Scheduled
  <2> QED
    BY <1>3, <2>1 DEF Scheduled
<1> QED
  BY <1>2, <1>3 DEF Schedules

LEMMA TryingKept ==
  ASSUME NEW c \in Cpu, NEW pc, NEW via, NEW skb, NEW sent,
         Becomes(c, pc, via, skb, sent), cpu[c].pc = "try" <=> pc = "try"
  PROVE  Trying' = Trying
<1> QED
  BY DEF Becomes, Trying

\* Who is in dev_queue_xmit entered it while the device was up.
XmitVias == {"send", "bypass", "direct"}

LEMMA ClosingFrame ==
  ASSUME Closing, NEW c \in Cpu, NEW pc, NEW via, NEW skb, NEW sent,
         Becomes(c, pc, via, skb, sent),
         UNCHANGED <<kind, attached, deact, dev>>,
         deact => queue' = Drained,
         throttled' => kind = "htb" /\ ~deact,
         kind = "none" => via \notin {"send", "bypass"},
         via \in XmitVias => cpu[c].via \in XmitVias \/ dev.pc = "up",
         dev.pc = "down" => ~running' /\ ~sched' /\ pc # "run"
  PROVE  Closing'
<1>1. \A d \in Cpu : d # c => cpu'[d] = cpu[d]
  BY DEF Becomes
<1>2. cpu'[c].pc = pc /\ cpu'[c].via = via
  BY DEF Becomes
<1>3. dev.pc # "up" => InXmit' \subseteq InXmit
  BY <1>1, <1>2 DEF InXmit, XmitVias
<1>4. kind = "none" => \A d \in Cpu : cpu'[d].via \notin {"send", "bypass"}
  BY <1>1, <1>2 DEF Closing
<1>5. dev.pc = "down" => ~running' /\ ~sched' /\ \A d \in Cpu : cpu'[d].pc # "run"
  BY <1>1, <1>2 DEF Closing
<1>6. /\ dev.pc = "sync" /\ ~dev.dismantle => InXmit' \subseteq dev.readers
      /\ dev.pc \in {"busy", "down"} /\ ~dev.dismantle => InXmit' = {}
  BY <1>3 DEF Closing
<1> QED
  BY <1>4, <1>5, <1>6 DEF Closing

\* Only who runs the qdisc requeues a packet, so that nobody else carries one then.
LEMMA PacketsFrame ==
  ASSUME Running, Packets, NEW c \in Cpu, NEW pc, NEW via, NEW skb, NEW sent \in BOOLEAN,
         Becomes(c, pc, via, skb, sent),
         Laden(pc, via, skb, sent),
         CarriesAt(pc, via, sent) => gso' = NoSkb,
         gso' \in {gso, NoSkb} \/ Runs(c)
  PROVE  Packets'
<1>1. \A d \in Cpu : d # c => cpu'[d] = cpu[d] /\ (Carries(d)' <=> Carries(d))
  BY DEF Becomes, Carries
<1>2. /\ cpu'[c].pc = pc /\ cpu'[c].via = via /\ cpu'[c].skb = skb
      /\ cpu'[c].sent <=> sent
  BY DEF Becomes
<1>3. Carries(c)' <=> CarriesAt(pc, via, sent)
  BY <1>2 DEF Carries, CarriesAt
<1>4. Laden(cpu[c].pc, cpu[c].via, cpu[c].skb, cpu[c].sent)'
  BY <1>2 DEF Laden, CarriesAt
<1>5. \A d \in Cpu : Laden(cpu[d].pc, cpu[d].via, cpu[d].skb, cpu[d].sent)'
  BY <1>1, <1>4 DEF Packets
<1>6. \A d \in Cpu : Carries(d) => Runs(d)
  BY DEF Running, Carries, CarriesAt, Runs, RunsAt, ErrandAt
<1>7. \A d \in Cpu : Carries(d)' => gso' = NoSkb
  <2>1. \A d \in Cpu : d # c /\ Runs(c) => ~Runs(d)
    BY DEF Running
  <2> QED
    BY <1>1, <1>3, <1>6, <2>1 DEF Packets
<1> QED
  BY <1>5, <1>7 DEF Packets

----------------------------------------------------------------------------
(* Every step of a CPU keeps the invariant.                                *)

LEMMA HereFact ==
  ASSUME IInv, NEW c \in Cpu
  PROVE  /\ TypeOK /\ Running /\ Scheduled /\ Closing /\ Packets
         /\ ErrandAt(cpu[c].pc, cpu[c].via)
         /\ root = c <=> cpu[c].pc \in RootHeld
         /\ Runs(c) => running
         /\ Laden(cpu[c].pc, cpu[c].via, cpu[c].skb, cpu[c].sent)
         /\ Carries(c) => gso = NoSkb
         /\ queue \in Queues /\ cpu[c].skb \in Skb /\ cpu[c].sent \in BOOLEAN
         /\ cpu[c].via \in {"none", "send", "bypass", "direct", "softirq"}
<1>1. cpu[c] \in CpuState
  BY DEF IInv, TypeOK
<1>2. /\ cpu[c].skb \in Skb /\ cpu[c].sent \in BOOLEAN
      /\ cpu[c].via \in {"none", "send", "bypass", "direct", "softirq"}
  BY <1>1 DEF CpuState
<1> QED
  BY <1>2 DEF IInv, TypeOK, Running, Packets

LEMMA SendKeeps ==
  ASSUME IInv, NEW c \in Cpu, Send(c)
  PROVE  IInv'
<1>1. /\ cpu[c].pc = "idle"
      /\ \/ UNCHANGED cpu
         \/ /\ attached /\ kind = "none"
            /\ Becomes(c, "direct", "direct", cpu[c].skb, cpu[c].sent)
         \/ /\ attached /\ kind # "none"
            /\ \E to \in {"contend", "lock"} : Becomes(c, to, "send", cpu[c].skb, cpu[c].sent)
      /\ UNCHANGED <<kind, qdisc, root, busylock, txq, softnet, dev, hist>>
  BY SendDoes DEF IInv
<1>2. c \in online /\ c # None
  BY NoneAssumption DEF Send, At
<1>3. CASE UNCHANGED cpu
  <2>1. Becomes(c, cpu[c].pc, cpu[c].via, cpu[c].skb, cpu[c].sent)
    BY <1>1, <1>2, <1>3, HereFact, StaysPut
  <2>2. TypeOK'
    BY <1>1, <1>2, <1>3, <2>1, HereFact, BoolFact, TypeFrame DEF Becomes, TypeOK, Schedules
  <2>3. /\ ErrandAt(cpu[c].pc, cpu[c].via)
        /\ RootPassed(c, cpu[c].pc) /\ RunPassed(c, cpu[c].pc, cpu[c].via)
    BY <1>1, <1>2, <1>3, <2>1, HereFact
       DEF Goes, RootHeld, RunsAt, Runs, ErrandAt, RootPassed, RunPassed
  <2>4. Running'
    BY <2>1, <2>3, HereFact, RunningFrame
  <2>5. Scheduled'
    BY <1>1, <1>2, <1>3, <2>1, HereFact, TryingKept, ScheduledFrame DEF Goes
  <2>6. Closing'
    BY <1>1, <1>2, <1>3, <2>1, HereFact, ClosingFrame
       DEF Goes, Closing, XmitVias, ErrandAt, Runs, RunsAt, Schedules
  <2>7. /\ Laden(cpu[c].pc, cpu[c].via, cpu[c].skb, cpu[c].sent)
        /\ CarriesAt(cpu[c].pc, cpu[c].via, cpu[c].sent) => gso' = NoSkb
        /\ gso' \in {gso, NoSkb} \/ Runs(c)
    BY <1>1, <1>2, <1>3, HereFact 
       DEF Goes, Laden, CarriesAt, Carries, Runs, RunsAt, ErrandAt
  <2>8. Packets'
    BY <2>1, <2>7, HereFact, PacketsFrame
  <2> QED
    BY <2>2, <2>4, <2>5, <2>6, <2>8 DEF IInv
<1>4. CASE /\ attached /\ kind = "none"
           /\ Becomes(c, "direct", "direct", cpu[c].skb, cpu[c].sent)
  <2>1. Becomes(c, "direct", "direct", cpu[c].skb, cpu[c].sent)
    BY <1>1, <1>2, <1>4 DEF Goes
  <2>2. TypeOK'
    BY <1>1, <1>2, <1>4, <2>1, HereFact, BoolFact, TypeFrame DEF Becomes, TypeOK, Schedules
  <2>3. /\ ErrandAt("direct", "direct")
        /\ RootPassed(c, "direct") /\ RunPassed(c, "direct", "direct")
    BY <1>1, <1>2, <1>4, <2>1, HereFact
       DEF Goes, RootHeld, RunsAt, Runs, ErrandAt, RootPassed, RunPassed
  <2>4. Running'
    BY <2>1, <2>3, HereFact, RunningFrame
  <2>5. Scheduled'
    BY <1>1, <1>2, <1>4, <2>1, HereFact, TryingKept, ScheduledFrame DEF Goes
  <2>6. Closing'
    BY <1>1, <1>2, <1>4, <2>1, HereFact, ClosingFrame
       DEF Goes, Closing, XmitVias, ErrandAt, Runs, RunsAt, Schedules
  <2>7. /\ Laden("direct", "direct", cpu[c].skb, cpu[c].sent)
        /\ CarriesAt("direct", "direct", cpu[c].sent) => gso' = NoSkb
        /\ gso' \in {gso, NoSkb} \/ Runs(c)
    BY <1>1, <1>2, <1>4, HereFact 
       DEF Goes, Laden, CarriesAt, Carries, Runs, RunsAt, ErrandAt
  <2>8. Packets'
    BY <2>1, <2>7, HereFact, PacketsFrame
  <2> QED
    BY <2>2, <2>4, <2>5, <2>6, <2>8 DEF IInv
<1>5. CASE /\ attached /\ kind # "none"
           /\ Becomes(c, "contend", "send", cpu[c].skb, cpu[c].sent)
  <2>1. Becomes(c, "contend", "send", cpu[c].skb, cpu[c].sent)
    BY <1>1, <1>2, <1>5 DEF Goes
  <2>2. TypeOK'
    BY <1>1, <1>2, <1>5, <2>1, HereFact, BoolFact, TypeFrame DEF Becomes, TypeOK, Schedules
  <2>3. /\ ErrandAt("contend", "send")
        /\ RootPassed(c, "contend") /\ RunPassed(c, "contend", "send")
    BY <1>1, <1>2, <1>5, <2>1, HereFact
       DEF Goes, RootHeld, RunsAt, Runs, ErrandAt, RootPassed, RunPassed
  <2>4. Running'
    BY <2>1, <2>3, HereFact, RunningFrame
  <2>5. Scheduled'
    BY <1>1, <1>2, <1>5, <2>1, HereFact, TryingKept, ScheduledFrame DEF Goes
  <2>6. Closing'
    BY <1>1, <1>2, <1>5, <2>1, HereFact, ClosingFrame
       DEF Goes, Closing, XmitVias, ErrandAt, Runs, RunsAt, Schedules
  <2>7. /\ Laden("contend", "send", cpu[c].skb, cpu[c].sent)
        /\ CarriesAt("contend", "send", cpu[c].sent) => gso' = NoSkb
        /\ gso' \in {gso, NoSkb} \/ Runs(c)
    BY <1>1, <1>2, <1>5, HereFact 
       DEF Goes, Laden, CarriesAt, Carries, Runs, RunsAt, ErrandAt
  <2>8. Packets'
    BY <2>1, <2>7, HereFact, PacketsFrame
  <2> QED
    BY <2>2, <2>4, <2>5, <2>6, <2>8 DEF IInv
<1>6. CASE /\ attached /\ kind # "none"
           /\ Becomes(c, "lock", "send", cpu[c].skb, cpu[c].sent)
  <2>1. Becomes(c, "lock", "send", cpu[c].skb, cpu[c].sent)
    BY <1>1, <1>2, <1>6 DEF Goes
  <2>2. TypeOK'
    BY <1>1, <1>2, <1>6, <2>1, HereFact, BoolFact, TypeFrame DEF Becomes, TypeOK, Schedules
  <2>3. /\ ErrandAt("lock", "send")
        /\ RootPassed(c, "lock") /\ RunPassed(c, "lock", "send")
    BY <1>1, <1>2, <1>6, <2>1, HereFact
       DEF Goes, RootHeld, RunsAt, Runs, ErrandAt, RootPassed, RunPassed
  <2>4. Running'
    BY <2>1, <2>3, HereFact, RunningFrame
  <2>5. Scheduled'
    BY <1>1, <1>2, <1>6, <2>1, HereFact, TryingKept, ScheduledFrame DEF Goes
  <2>6. Closing'
    BY <1>1, <1>2, <1>6, <2>1, HereFact, ClosingFrame
       DEF Goes, Closing, XmitVias, ErrandAt, Runs, RunsAt, Schedules
  <2>7. /\ Laden("lock", "send", cpu[c].skb, cpu[c].sent)
        /\ CarriesAt("lock", "send", cpu[c].sent) => gso' = NoSkb
        /\ gso' \in {gso, NoSkb} \/ Runs(c)
    BY <1>1, <1>2, <1>6, HereFact 
       DEF Goes, Laden, CarriesAt, Carries, Runs, RunsAt, ErrandAt
  <2>8. Packets'
    BY <2>1, <2>7, HereFact, PacketsFrame
  <2> QED
    BY <2>2, <2>4, <2>5, <2>6, <2>8 DEF IInv
<1> QED
  BY <1>1, <1>3, <1>4, <1>5, <1>6

LEMMA DirectKeeps ==
  ASSUME IInv, NEW c \in Cpu, Direct(c)
  PROVE  IInv'
<1>1. /\ \/ dev.pc # "down" /\ Goes(c, "direct", "hard")
         \/ cpu[c].pc = "direct" /\ Becomes(c, "idle", "none", NoSkb, FALSE)
      /\ UNCHANGED <<kind, qdisc, root, busylock, txq, softnet, dev, hist>>
  BY DirectDoes DEF IInv
<1>2. c \in online /\ c # None
  BY NoneAssumption DEF Direct, At
<1>3. CASE dev.pc # "down" /\ Goes(c, "direct", "hard")
  <2>1. Becomes(c, "hard", cpu[c].via, cpu[c].skb, cpu[c].sent)
    BY <1>1, <1>2, <1>3 DEF Goes
  <2>2. TypeOK'
    BY <1>1, <1>2, <1>3, <2>1, HereFact, BoolFact, TypeFrame DEF Becomes, TypeOK, Schedules
  <2>3. /\ ErrandAt("hard", cpu[c].via)
        /\ RootPassed(c, "hard") /\ RunPassed(c, "hard", cpu[c].via)
    BY <1>1, <1>2, <1>3, <2>1, HereFact
       DEF Goes, RootHeld, RunsAt, Runs, ErrandAt, RootPassed, RunPassed
  <2>4. Running'
    BY <2>1, <2>3, HereFact, RunningFrame
  <2>5. Scheduled'
    BY <1>1, <1>2, <1>3, <2>1, HereFact, TryingKept, ScheduledFrame DEF Goes
  <2>6. Closing'
    BY <1>1, <1>2, <1>3, <2>1, HereFact, ClosingFrame
       DEF Goes, Closing, XmitVias, ErrandAt, Runs, RunsAt, Schedules
  <2>7. /\ Laden("hard", cpu[c].via, cpu[c].skb, cpu[c].sent)
        /\ CarriesAt("hard", cpu[c].via, cpu[c].sent) => gso' = NoSkb
        /\ gso' \in {gso, NoSkb} \/ Runs(c)
    BY <1>1, <1>2, <1>3, HereFact 
       DEF Goes, Laden, CarriesAt, Carries, Runs, RunsAt, ErrandAt
  <2>8. Packets'
    BY <2>1, <2>7, HereFact, PacketsFrame
  <2> QED
    BY <2>2, <2>4, <2>5, <2>6, <2>8 DEF IInv
<1>4. CASE cpu[c].pc = "direct" /\ Becomes(c, "idle", "none", NoSkb, FALSE)
  <2>1. Becomes(c, "idle", "none", NoSkb, FALSE)
    BY <1>1, <1>2, <1>4 DEF Goes
  <2>2. TypeOK'
    BY <1>1, <1>2, <1>4, <2>1, HereFact, BoolFact, TypeFrame DEF Becomes, TypeOK, Schedules
  <2>3. /\ ErrandAt("idle", "none")
        /\ RootPassed(c, "idle") /\ RunPassed(c, "idle", "none")
    BY <1>1, <1>2, <1>4, <2>1, HereFact
       DEF Goes, RootHeld, RunsAt, Runs, ErrandAt, RootPassed, RunPassed
  <2>4. Running'
    BY <2>1, <2>3, HereFact, RunningFrame
  <2>5. Scheduled'
    BY <1>1, <1>2, <1>4, <2>1, HereFact, TryingKept, ScheduledFrame DEF Goes
  <2>6. Closing'
    BY <1>1, <1>2, <1>4, <2>1, HereFact, ClosingFrame
       DEF Goes, Closing, XmitVias, ErrandAt, Runs, RunsAt, Schedules
  <2>7. /\ Laden("idle", "none", NoSkb, FALSE)
        /\ CarriesAt("idle", "none", FALSE) => gso' = NoSkb
        /\ gso' \in {gso, NoSkb} \/ Runs(c)
    BY <1>1, <1>2, <1>4, HereFact 
       DEF Goes, Laden, CarriesAt, Carries, Runs, RunsAt, ErrandAt
  <2>8. Packets'
    BY <2>1, <2>7, HereFact, PacketsFrame
  <2> QED
    BY <2>2, <2>4, <2>5, <2>6, <2>8 DEF IInv
<1> QED
  BY <1>1, <1>3, <1>4

LEMMA BusyLockKeeps ==
  ASSUME IInv, NEW c \in Cpu, BusyLock(c)
  PROVE  IInv'
<1>1. /\ Goes(c, "contend", "lock") /\ busylock' = c
      /\ UNCHANGED <<kind, qdisc, root, txq, softnet, dev, hist>>
  BY BusyLockDoes DEF IInv
<1>2. c \in online /\ c # None
  BY NoneAssumption DEF BusyLock, At
<1>3. Becomes(c, "lock", cpu[c].via, cpu[c].skb, cpu[c].sent)
  BY <1>1, <1>2 DEF Goes
<1>4. TypeOK'
  BY <1>1, <1>2, <1>3, HereFact, BoolFact, TypeFrame DEF Becomes, TypeOK, Schedules
<1>5. /\ ErrandAt("lock", cpu[c].via)
      /\ RootPassed(c, "lock") /\ RunPassed(c, "lock", cpu[c].via)
  BY <1>1, <1>2, <1>3, HereFact
     DEF Goes, RootHeld, RunsAt, Runs, ErrandAt, RootPassed, RunPassed
<1>6. Running'
  BY <1>3, <1>5, HereFact, RunningFrame
<1>7. Scheduled'
  BY <1>1, <1>2, <1>3, HereFact, TryingKept, ScheduledFrame DEF Goes
<1>8. Closing'
  BY <1>1, <1>2, <1>3, HereFact, ClosingFrame
     DEF Goes, Closing, XmitVias, ErrandAt, Runs, RunsAt, Schedules
<1>9. /\ Laden("lock", cpu[c].via, cpu[c].skb, cpu[c].sent)
      /\ CarriesAt("lock", cpu[c].via, cpu[c].sent) => gso' = NoSkb
      /\ gso' \in {gso, NoSkb} \/ Runs(c)
  BY <1>1, <1>2, HereFact 
     DEF Goes, Laden, CarriesAt, Carries, Runs, RunsAt, ErrandAt
<1>10. Packets'
  BY <1>3, <1>9, HereFact, PacketsFrame
<1> QED
  BY <1>4, <1>6, <1>7, <1>8, <1>10 DEF IInv

LEMMA RootLockKeeps ==
  ASSUME IInv, NEW c \in Cpu, RootLock(c)
  PROVE  IInv'
<1>1. /\ root = None /\ root' = c
      /\ Goes(c, "lock", "enqueue") \/ Goes(c, "relock", "result")
      /\ UNCHANGED <<kind, qdisc, busylock, txq, softnet, dev, hist>>
  BY RootLockDoes DEF IInv
<1>2. c \in online /\ c # None
  BY NoneAssumption DEF RootLock, At
<1>3. CASE Goes(c, "lock", "enqueue")
  <2>1. Becomes(c, "enqueue", cpu[c].via, cpu[c].skb, cpu[c].sent)
    BY <1>1, <1>2, <1>3 DEF Goes
  <2>2. TypeOK'
    BY <1>1, <1>2, <1>3, <2>1, HereFact, BoolFact, TypeFrame DEF Becomes, TypeOK, Schedules
  <2>3. /\ ErrandAt("enqueue", cpu[c].via)
        /\ RootPassed(c, "enqueue") /\ RunPassed(c, "enqueue", cpu[c].via)
    BY <1>1, <1>2, <1>3, <2>1, HereFact
       DEF Goes, RootHeld, RunsAt, Runs, ErrandAt, RootPassed, RunPassed
  <2>4. Running'
    BY <2>1, <2>3, HereFact, RunningFrame
  <2>5. Scheduled'
    BY <1>1, <1>2, <1>3, <2>1, HereFact, TryingKept, ScheduledFrame DEF Goes
  <2>6. Closing'
    BY <1>1, <1>2, <1>3, <2>1, HereFact, ClosingFrame
       DEF Goes, Closing, XmitVias, ErrandAt, Runs, RunsAt, Schedules
  <2>7. /\ Laden("enqueue", cpu[c].via, cpu[c].skb, cpu[c].sent)
        /\ CarriesAt("enqueue", cpu[c].via, cpu[c].sent) => gso' = NoSkb
        /\ gso' \in {gso, NoSkb} \/ Runs(c)
    BY <1>1, <1>2, <1>3, HereFact 
       DEF Goes, Laden, CarriesAt, Carries, Runs, RunsAt, ErrandAt
  <2>8. Packets'
    BY <2>1, <2>7, HereFact, PacketsFrame
  <2> QED
    BY <2>2, <2>4, <2>5, <2>6, <2>8 DEF IInv
<1>4. CASE Goes(c, "relock", "result")
  <2>1. Becomes(c, "result", cpu[c].via, cpu[c].skb, cpu[c].sent)
    BY <1>1, <1>2, <1>4 DEF Goes
  <2>2. TypeOK'
    BY <1>1, <1>2, <1>4, <2>1, HereFact, BoolFact, TypeFrame DEF Becomes, TypeOK, Schedules
  <2>3. /\ ErrandAt("result", cpu[c].via)
        /\ RootPassed(c, "result") /\ RunPassed(c, "result", cpu[c].via)
    BY <1>1, <1>2, <1>4, <2>1, HereFact
       DEF Goes, RootHeld, RunsAt, Runs, ErrandAt, RootPassed, RunPassed
  <2>4. Running'
    BY <2>1, <2>3, HereFact, RunningFrame
  <2>5. Scheduled'
    BY <1>1, <1>2, <1>4, <2>1, HereFact, TryingKept, ScheduledFrame DEF Goes
  <2>6. Closing'
    BY <1>1, <1>2, <1>4, <2>1, HereFact, ClosingFrame
       DEF Goes, Closing, XmitVias, ErrandAt, Runs, RunsAt, Schedules
  <2>7. /\ Laden("result", cpu[c].via, cpu[c].skb, cpu[c].sent)
        /\ CarriesAt("result", cpu[c].via, cpu[c].sent) => gso' = NoSkb
        /\ gso' \in {gso, NoSkb} \/ Runs(c)
    BY <1>1, <1>2, <1>4, HereFact 
       DEF Goes, Laden, CarriesAt, Carries, Runs, RunsAt, ErrandAt
  <2>8. Packets'
    BY <2>1, <2>7, HereFact, PacketsFrame
  <2> QED
    BY <2>2, <2>4, <2>5, <2>6, <2>8 DEF IInv
<1> QED
  BY <1>1, <1>3, <1>4

LEMMA BypassKeeps ==
  ASSUME IInv, NEW c \in Cpu, Bypass(c)
  PROVE  IInv'
<1>1. /\ cpu[c].pc = "enqueue" /\ ~deact /\ kind = "fifo" /\ Empty /\ ~running
      /\ accepted' = accepted + 1 /\ running' = TRUE /\ root' = None
      /\ UNCHANGED <<kind, queue, gso, sched, deact, throttled, busylock, txq, softnet, dev,
                     taken, opened>>
  BY BypassDoes DEF IInv
<1>2. c \in online /\ c # None
  BY NoneAssumption DEF Bypass, At
<1>3. gso = NoSkb /\ accepted + 1 \in Nat
  BY <1>1, HereFact DEF Empty, TypeOK
<1>4. PICK skb \in Skb : /\ skb # NoSkb /\ skb.n = accepted + 1
                        /\ Becomes(c, "hard", "bypass", skb, cpu[c].sent)
  BY BypassDoes DEF IInv
<1>5. TypeOK'
  BY <1>1, <1>2, <1>3, <1>4, HereFact, BoolFact, TypeFrame DEF Becomes, TypeOK, Schedules
<1>6. /\ ErrandAt("hard", "bypass")
      /\ RootPassed(c, "hard") /\ RunPassed(c, "hard", "bypass")
  BY <1>1, <1>2, <1>3, <1>4, HereFact
     DEF Goes, RootHeld, RunsAt, Runs, ErrandAt, RootPassed, RunPassed
<1>7. Running'
  BY <1>4, <1>6, HereFact, RunningFrame
<1>8. Scheduled'
  BY <1>1, <1>2, <1>3, <1>4, HereFact, TryingKept, ScheduledFrame DEF Goes
<1>9. Closing'
  BY <1>1, <1>2, <1>3, <1>4, HereFact, ClosingFrame
     DEF Goes, Closing, XmitVias, ErrandAt, Runs, RunsAt, Schedules
<1>10. /\ Laden("hard", "bypass", skb, cpu[c].sent)
       /\ CarriesAt("hard", "bypass", cpu[c].sent) => gso' = NoSkb
       /\ gso' \in {gso, NoSkb} \/ Runs(c)
  BY <1>1, <1>2, <1>3, <1>4, HereFact
     DEF Goes, Laden, CarriesAt, Carries, Runs, RunsAt, ErrandAt
<1>11. Packets'
  BY <1>4, <1>10, HereFact, PacketsFrame
<1> QED
  BY <1>5, <1>7, <1>8, <1>9, <1>11 DEF IInv

LEMMA EnqueueKeeps ==
  ASSUME IInv, NEW c \in Cpu, Enqueue(c)
  PROVE  IInv'
<1>1. /\ cpu[c].pc = "enqueue"
      /\ \/ UNCHANGED <<queue, accepted>>
         \/ /\ ~deact /\ accepted' = accepted + 1
            /\ \E b \in Band : queue' = [queue EXCEPT ![b] = Append(@, accepted + 1)]
      /\ \/ /\ deact \/ running
            /\ Becomes(c, "idle", "none", NoSkb, FALSE) /\ root' = None
            /\ UNCHANGED running
         \/ /\ ~deact /\ ~running /\ running' = TRUE
            /\ Goes(c, "enqueue", "restart")
            /\ UNCHANGED root
      /\ busylock' \in {busylock, None}
      /\ UNCHANGED <<kind, gso, sched, deact, throttled, txq, softnet, dev, taken, opened>>
  BY EnqueueDoes DEF IInv
<1>2. c \in online /\ c # None
  BY NoneAssumption DEF Enqueue, At
<1>3. accepted + 1 \in Nat \ {0} /\ accepted' \in Nat
  BY <1>1, <1>2, HereFact DEF TypeOK
<1>4. deact => UNCHANGED queue
  BY <1>1
<1>5. queue' \in Queues
  BY <1>1, <1>3, HereFact, QueuesFact
<1>6. CASE /\ deact \/ running
           /\ Becomes(c, "idle", "none", NoSkb, FALSE) /\ root' = None
           /\ UNCHANGED running
  <2>1. Becomes(c, "idle", "none", NoSkb, FALSE)
    BY <1>1, <1>2, <1>3, <1>4, <1>5, <1>6 DEF Goes
  <2>2. TypeOK'
    BY <1>1, <1>2, <1>3, <1>4, <1>5, <1>6, <2>1, HereFact, BoolFact, TypeFrame DEF Becomes, TypeOK, Schedules
  <2>3. /\ ErrandAt("idle", "none")
        /\ RootPassed(c, "idle") /\ RunPassed(c, "idle", "none")
    BY <1>1, <1>2, <1>3, <1>4, <1>5, <1>6, <2>1, HereFact
       DEF Goes, RootHeld, RunsAt, Runs, ErrandAt, RootPassed, RunPassed
  <2>4. Running'
    BY <2>1, <2>3, HereFact, RunningFrame
  <2>5. Scheduled'
    BY <1>1, <1>2, <1>3, <1>4, <1>5, <1>6, <2>1, HereFact, TryingKept, ScheduledFrame DEF Goes
  <2>6. Closing'
    BY <1>1, <1>2, <1>3, <1>4, <1>5, <1>6, <2>1, HereFact, ClosingFrame
       DEF Goes, Closing, XmitVias, ErrandAt, Runs, RunsAt, Schedules
  <2>7. /\ Laden("idle", "none", NoSkb, FALSE)
        /\ CarriesAt("idle", "none", FALSE) => gso' = NoSkb
        /\ gso' \in {gso, NoSkb} \/ Runs(c)
    BY <1>1, <1>2, <1>3, <1>4, <1>5, <1>6, HereFact 
       DEF Goes, Laden, CarriesAt, Carries, Runs, RunsAt, ErrandAt
  <2>8. Packets'
    BY <2>1, <2>7, HereFact, PacketsFrame
  <2> QED
    BY <2>2, <2>4, <2>5, <2>6, <2>8 DEF IInv
<1>7. CASE /\ ~deact /\ ~running /\ running' = TRUE
           /\ Goes(c, "enqueue", "restart")
           /\ UNCHANGED root
  <2>1. Becomes(c, "restart", cpu[c].via, cpu[c].skb, cpu[c].sent)
    BY <1>1, <1>2, <1>3, <1>4, <1>5, <1>7 DEF Goes
  <2>2. TypeOK'
    BY <1>1, <1>2, <1>3, <1>4, <1>5, <1>7, <2>1, HereFact, BoolFact, TypeFrame DEF Becomes, TypeOK, Schedules
  <2>3. /\ ErrandAt("restart", cpu[c].via)
        /\ RootPassed(c, "restart") /\ RunPassed(c, "restart", cpu[c].via)
    BY <1>1, <1>2, <1>3, <1>4, <1>5, <1>7, <2>1, HereFact
       DEF Goes, RootHeld, RunsAt, Runs, ErrandAt, RootPassed, RunPassed
  <2>4. Running'
    BY <2>1, <2>3, HereFact, RunningFrame
  <2>5. Scheduled'
    BY <1>1, <1>2, <1>3, <1>4, <1>5, <1>7, <2>1, HereFact, TryingKept, ScheduledFrame DEF Goes
  <2>6. Closing'
    BY <1>1, <1>2, <1>3, <1>4, <1>5, <1>7, <2>1, HereFact, ClosingFrame
       DEF Goes, Closing, XmitVias, ErrandAt, Runs, RunsAt, Schedules
  <2>7. /\ Laden("restart", cpu[c].via, cpu[c].skb, cpu[c].sent)
        /\ CarriesAt("restart", cpu[c].via, cpu[c].sent) => gso' = NoSkb
        /\ gso' \in {gso, NoSkb} \/ Runs(c)
    BY <1>1, <1>2, <1>3, <1>4, <1>5, <1>7, HereFact 
       DEF Goes, Laden, CarriesAt, Carries, Runs, RunsAt, ErrandAt
  <2>8. Packets'
    BY <2>1, <2>7, HereFact, PacketsFrame
  <2> QED
    BY <2>2, <2>4, <2>5, <2>6, <2>8 DEF IInv
<1> QED
  BY <1>1, <1>6, <1>7

LEMMA NothingToSendKeeps ==
  ASSUME IInv, NEW c \in Cpu, NothingToSend(c)
  PROVE  IInv'
<1>1. /\ Goes(c, "restart", "end")
      /\ \/ UNCHANGED throttled
         \/ kind = "htb" /\ Dequeued # {} /\ gso = NoSkb /\ throttled' = TRUE
      /\ UNCHANGED <<kind, queue, gso, running, sched, deact, root, busylock, txq, softnet,
                     dev, hist>>
  BY NothingToSendDoes DEF IInv
<1>2. c \in online /\ c # None
  BY NoneAssumption DEF NothingToSend, At
<1>3. throttled' => kind = "htb" /\ ~deact
  <2>1. CASE UNCHANGED throttled
    BY <1>1, <2>1, HereFact DEF Closing
  <2>2. CASE kind = "htb" /\ Dequeued # {} /\ gso = NoSkb
    <3>1. PICK b \in Band : queue[b] # <<>>
      BY <2>2 DEF Dequeued, Heads
    <3> QED
      BY <2>2, <3>1, HereFact DEF Closing, Drained
  <2> QED
    BY <1>1, <2>1, <2>2
<1>4. Becomes(c, "end", cpu[c].via, cpu[c].skb, cpu[c].sent)
  BY <1>1, <1>2, <1>3 DEF Goes
<1>5. TypeOK'
  BY <1>1, <1>2, <1>3, <1>4, HereFact, BoolFact, TypeFrame DEF Becomes, TypeOK, Schedules
<1>6. /\ ErrandAt("end", cpu[c].via)
      /\ RootPassed(c, "end") /\ RunPassed(c, "end", cpu[c].via)
  BY <1>1, <1>2, <1>3, <1>4, HereFact
     DEF Goes, RootHeld, RunsAt, Runs, ErrandAt, RootPassed, RunPassed
<1>7. Running'
  BY <1>4, <1>6, HereFact, RunningFrame
<1>8. Scheduled'
  BY <1>1, <1>2, <1>3, <1>4, HereFact, TryingKept, ScheduledFrame DEF Goes
<1>9. Closing'
  BY <1>1, <1>2, <1>3, <1>4, HereFact, ClosingFrame
     DEF Goes, Closing, XmitVias, ErrandAt, Runs, RunsAt, Schedules
<1>10. /\ Laden("end", cpu[c].via, cpu[c].skb, cpu[c].sent)
       /\ CarriesAt("end", cpu[c].via, cpu[c].sent) => gso' = NoSkb
       /\ gso' \in {gso, NoSkb} \/ Runs(c)
  BY <1>1, <1>2, <1>3, HereFact 
     DEF Goes, Laden, CarriesAt, Carries, Runs, RunsAt, ErrandAt
<1>11. Packets'
  BY <1>4, <1>10, HereFact, PacketsFrame
<1> QED
  BY <1>5, <1>7, <1>8, <1>9, <1>11 DEF IInv

LEMMA RestartKeeps ==
  ASSUME IInv, NEW c \in Cpu, Restart(c)
  PROVE  IInv'
<1>1. /\ cpu[c].pc = "restart" /\ root' = None
      /\ UNCHANGED <<kind, running, sched, deact, throttled, busylock, txq, softnet, dev,
                     hist>>
  BY RestartDoes DEF IInv
<1>2. c \in online /\ c # None
  BY NoneAssumption DEF Restart, At
<1>3. PICK skb \in Skb : /\ skb # NoSkb /\ TakesOut(skb)
                        /\ Becomes(c, "hard", cpu[c].via, skb, cpu[c].sent)
  BY RestartDoes DEF IInv
<1>4. /\ queue' \in Queues /\ gso' = NoSkb /\ (deact => UNCHANGED queue)
      /\ CarriesAt("hard", cpu[c].via, FALSE) /\ ~cpu[c].sent
  <2>1. queue' \in Queues /\ gso' = NoSkb
    <3>1. queue \in Queues /\ skb.band \in Band
      BY <1>3, HereFact, SkbFact
    <3> DEFINE a == skb.band
    <3>2. queue[a] # <<>> => [queue EXCEPT ![a] = Tail(@)] \in Queues
      BY <3>1, QueuesFact
    <3>3. UNCHANGED queue \/ (queue[a] # <<>> /\ queue' = [queue EXCEPT ![a] = Tail(@)])
      BY <1>3, Zenon DEF TakesOut
    <3> HIDE DEF a
    <3> QED
      BY <1>3, <3>1, <3>2, <3>3 DEF TakesOut
  <2>2. deact => UNCHANGED queue
    BY <1>3, HereFact, SkbFact DEF TakesOut, Closing, Drained
  <2> QED
    BY <1>1, <2>1, <2>2, HereFact DEF Laden, CarriesAt, ErrandAt
<1>5. Becomes(c, "hard", cpu[c].via, skb, cpu[c].sent)
  BY <1>3
<1>6. TypeOK'
  BY <1>1, <1>2, <1>4, <1>5, HereFact, SkbFact, BoolFact, TypeFrame DEF Becomes, TypeOK, Schedules
<1>7. /\ ErrandAt("hard", cpu[c].via)
      /\ RootPassed(c, "hard") /\ RunPassed(c, "hard", cpu[c].via)
  BY <1>1, <1>2, <1>4, <1>5, HereFact
     DEF Goes, RootHeld, RunsAt, Runs, ErrandAt, RootPassed, RunPassed
<1>8. Running'
  BY <1>5, <1>7, HereFact, RunningFrame
<1>9. Scheduled'
  BY <1>1, <1>2, <1>4, <1>5, HereFact, TryingKept, ScheduledFrame DEF Goes
<1>10. Closing'
  BY <1>1, <1>2, <1>4, <1>5, HereFact, ClosingFrame
     DEF Goes, Closing, XmitVias, ErrandAt, Runs, RunsAt, Schedules
<1>11. /\ Laden("hard", cpu[c].via, skb, cpu[c].sent)
       /\ CarriesAt("hard", cpu[c].via, cpu[c].sent) => gso' = NoSkb
       /\ gso' \in {gso, NoSkb} \/ Runs(c)
  BY <1>1, <1>2, <1>3, <1>4, HereFact 
     DEF Goes, Laden, CarriesAt, Carries, Runs, RunsAt, ErrandAt
<1>12. Packets'
  BY <1>5, <1>11, HereFact, PacketsFrame
<1> QED
  BY <1>6, <1>8, <1>9, <1>10, <1>12 DEF IInv

LEMMA HardKeeps ==
  ASSUME IInv, NEW c \in Cpu, Hard(c)
  PROVE  IInv'
<1>1. /\ cpu[c].pc = "hard"
      /\ \/ Goes(c, "hard", "driver") /\ xlock' = c
         \/ cpu[c].via = "direct" /\ Becomes(c, "idle", "none", NoSkb, FALSE) /\ UNCHANGED xlock
         \/ /\ cpu[c].via # "direct" /\ UNCHANGED xlock
            /\ Becomes(c, "relock", cpu[c].via, cpu[c].skb, FALSE)
      /\ UNCHANGED <<kind, qdisc, root, busylock, attached, stopped, frozen, softnet, dev,
                     hist>>
  BY HardDoes DEF IInv
<1>2. c \in online /\ c # None
  BY NoneAssumption DEF Hard, At
<1>3. CASE Goes(c, "hard", "driver") /\ xlock' = c
  <2>1. Becomes(c, "driver", cpu[c].via, cpu[c].skb, cpu[c].sent)
    BY <1>1, <1>2, <1>3 DEF Goes
  <2>2. TypeOK'
    BY <1>1, <1>2, <1>3, <2>1, HereFact, BoolFact, TypeFrame DEF Becomes, TypeOK, Schedules
  <2>3. /\ ErrandAt("driver", cpu[c].via)
        /\ RootPassed(c, "driver") /\ RunPassed(c, "driver", cpu[c].via)
    BY <1>1, <1>2, <1>3, <2>1, HereFact
       DEF Goes, RootHeld, RunsAt, Runs, ErrandAt, RootPassed, RunPassed
  <2>4. Running'
    BY <2>1, <2>3, HereFact, RunningFrame
  <2>5. Scheduled'
    BY <1>1, <1>2, <1>3, <2>1, HereFact, TryingKept, ScheduledFrame DEF Goes
  <2>6. Closing'
    BY <1>1, <1>2, <1>3, <2>1, HereFact, ClosingFrame
       DEF Goes, Closing, XmitVias, ErrandAt, Runs, RunsAt, Schedules
  <2>7. /\ Laden("driver", cpu[c].via, cpu[c].skb, cpu[c].sent)
        /\ CarriesAt("driver", cpu[c].via, cpu[c].sent) => gso' = NoSkb
        /\ gso' \in {gso, NoSkb} \/ Runs(c)
    BY <1>1, <1>2, <1>3, HereFact 
       DEF Goes, Laden, CarriesAt, Carries, Runs, RunsAt, ErrandAt
  <2>8. Packets'
    BY <2>1, <2>7, HereFact, PacketsFrame
  <2> QED
    BY <2>2, <2>4, <2>5, <2>6, <2>8 DEF IInv
<1>4. CASE cpu[c].via = "direct" /\ Becomes(c, "idle", "none", NoSkb, FALSE) /\ UNCHANGED xlock
  <2>1. Becomes(c, "idle", "none", NoSkb, FALSE)
    BY <1>1, <1>2, <1>4 DEF Goes
  <2>2. TypeOK'
    BY <1>1, <1>2, <1>4, <2>1, HereFact, BoolFact, TypeFrame DEF Becomes, TypeOK, Schedules
  <2>3. /\ ErrandAt("idle", "none")
        /\ RootPassed(c, "idle") /\ RunPassed(c, "idle", "none")
    BY <1>1, <1>2, <1>4, <2>1, HereFact
       DEF Goes, RootHeld, RunsAt, Runs, ErrandAt, RootPassed, RunPassed
  <2>4. Running'
    BY <2>1, <2>3, HereFact, RunningFrame
  <2>5. Scheduled'
    BY <1>1, <1>2, <1>4, <2>1, HereFact, TryingKept, ScheduledFrame DEF Goes
  <2>6. Closing'
    BY <1>1, <1>2, <1>4, <2>1, HereFact, ClosingFrame
       DEF Goes, Closing, XmitVias, ErrandAt, Runs, RunsAt, Schedules
  <2>7. /\ Laden("idle", "none", NoSkb, FALSE)
        /\ CarriesAt("idle", "none", FALSE) => gso' = NoSkb
        /\ gso' \in {gso, NoSkb} \/ Runs(c)
    BY <1>1, <1>2, <1>4, HereFact 
       DEF Goes, Laden, CarriesAt, Carries, Runs, RunsAt, ErrandAt
  <2>8. Packets'
    BY <2>1, <2>7, HereFact, PacketsFrame
  <2> QED
    BY <2>2, <2>4, <2>5, <2>6, <2>8 DEF IInv
<1>5. CASE /\ cpu[c].via # "direct" /\ UNCHANGED xlock
           /\ Becomes(c, "relock", cpu[c].via, cpu[c].skb, FALSE)
  <2>1. Becomes(c, "relock", cpu[c].via, cpu[c].skb, FALSE)
    BY <1>1, <1>2, <1>5 DEF Goes
  <2>2. TypeOK'
    BY <1>1, <1>2, <1>5, <2>1, HereFact, BoolFact, TypeFrame DEF Becomes, TypeOK, Schedules
  <2>3. /\ ErrandAt("relock", cpu[c].via)
        /\ RootPassed(c, "relock") /\ RunPassed(c, "relock", cpu[c].via)
    BY <1>1, <1>2, <1>5, <2>1, HereFact
       DEF Goes, RootHeld, RunsAt, Runs, ErrandAt, RootPassed, RunPassed
  <2>4. Running'
    BY <2>1, <2>3, HereFact, RunningFrame
  <2>5. Scheduled'
    BY <1>1, <1>2, <1>5, <2>1, HereFact, TryingKept, ScheduledFrame DEF Goes
  <2>6. Closing'
    BY <1>1, <1>2, <1>5, <2>1, HereFact, ClosingFrame
       DEF Goes, Closing, XmitVias, ErrandAt, Runs, RunsAt, Schedules
  <2>7. /\ Laden("relock", cpu[c].via, cpu[c].skb, FALSE)
        /\ CarriesAt("relock", cpu[c].via, FALSE) => gso' = NoSkb
        /\ gso' \in {gso, NoSkb} \/ Runs(c)
    BY <1>1, <1>2, <1>5, HereFact 
       DEF Goes, Laden, CarriesAt, Carries, Runs, RunsAt, ErrandAt
  <2>8. Packets'
    BY <2>1, <2>7, HereFact, PacketsFrame
  <2> QED
    BY <2>2, <2>4, <2>5, <2>6, <2>8 DEF IInv
<1> QED
  BY <1>1, <1>3, <1>4, <1>5

LEMMA DriverKeeps ==
  ASSUME IInv, NEW c \in Cpu, Driver(c)
  PROVE  IInv'
<1>1. /\ cpu[c].pc = "driver" /\ xlock' = None /\ stopped' \in {stopped, TRUE, FALSE}
      /\ \/ /\ cpu[c].via = "direct" /\ Becomes(c, "idle", "none", NoSkb, FALSE)
            /\ UNCHANGED taken
         \/ /\ cpu[c].via # "direct"
            /\ \/ Becomes(c, "relock", cpu[c].via, cpu[c].skb, TRUE) /\ taken' = cpu[c].skb.n
               \/ Becomes(c, "relock", cpu[c].via, cpu[c].skb, FALSE) /\ UNCHANGED taken
      /\ UNCHANGED <<kind, qdisc, root, busylock, attached, frozen, softnet, dev, accepted,
                     opened>>
  BY DriverDoes DEF IInv
<1>2. c \in online /\ c # None
  BY NoneAssumption DEF Driver, At
<1>3. CASE /\ cpu[c].via = "direct" /\ Becomes(c, "idle", "none", NoSkb, FALSE)
           /\ UNCHANGED taken
  <2>1. Becomes(c, "idle", "none", NoSkb, FALSE)
    BY <1>1, <1>2, <1>3 DEF Goes
  <2>2. TypeOK'
    BY <1>1, <1>2, <1>3, <2>1, HereFact, BoolFact, TypeFrame, ZenonT(60)
       DEF Becomes, TypeOK, Schedules
  <2>3. /\ ErrandAt("idle", "none")
        /\ RootPassed(c, "idle") /\ RunPassed(c, "idle", "none")
    BY <1>1, <1>2, <1>3, <2>1, HereFact
       DEF Goes, RootHeld, RunsAt, Runs, ErrandAt, RootPassed, RunPassed
  <2>4. Running'
    BY <2>1, <2>3, HereFact, RunningFrame
  <2>5. Scheduled'
    BY <1>1, <1>2, <1>3, <2>1, HereFact, TryingKept, ScheduledFrame DEF Goes
  <2>6. Closing'
    BY <1>1, <1>2, <1>3, <2>1, HereFact, ClosingFrame
       DEF Goes, Closing, XmitVias, ErrandAt, Runs, RunsAt, Schedules
  <2>7. /\ Laden("idle", "none", NoSkb, FALSE)
        /\ CarriesAt("idle", "none", FALSE) => gso' = NoSkb
        /\ gso' \in {gso, NoSkb} \/ Runs(c)
    BY <1>1, <1>2, <1>3, HereFact 
       DEF Goes, Laden, CarriesAt, Carries, Runs, RunsAt, ErrandAt
  <2>8. Packets'
    BY <2>1, <2>7, HereFact, PacketsFrame
  <2> QED
    BY <2>2, <2>4, <2>5, <2>6, <2>8 DEF IInv
<1>4. CASE /\ cpu[c].via # "direct"
           /\ Becomes(c, "relock", cpu[c].via, cpu[c].skb, TRUE) /\ taken' = cpu[c].skb.n
  <2>1. Becomes(c, "relock", cpu[c].via, cpu[c].skb, TRUE)
    BY <1>1, <1>2, <1>4 DEF Goes
  <2>2. TypeOK'
    <3>1. taken' \in Nat
      BY <1>4, HereFact, SkbFact
    <3> QED
      BY <1>1, <1>2, <1>4, <2>1, <3>1, HereFact, BoolFact, TypeFrame,
         ZenonT(60)
         DEF Becomes, TypeOK, Schedules
  <2>3. /\ ErrandAt("relock", cpu[c].via)
        /\ RootPassed(c, "relock") /\ RunPassed(c, "relock", cpu[c].via)
    BY <1>1, <1>2, <1>4, <2>1, HereFact
       DEF Goes, RootHeld, RunsAt, Runs, ErrandAt, RootPassed, RunPassed
  <2>4. Running'
    BY <2>1, <2>3, HereFact, RunningFrame
  <2>5. Scheduled'
    BY <1>1, <1>2, <1>4, <2>1, HereFact, TryingKept, ScheduledFrame DEF Goes
  <2>6. Closing'
    BY <1>1, <1>2, <1>4, <2>1, HereFact, ClosingFrame
       DEF Goes, Closing, XmitVias, ErrandAt, Runs, RunsAt, Schedules
  <2>7. /\ Laden("relock", cpu[c].via, cpu[c].skb, TRUE)
        /\ CarriesAt("relock", cpu[c].via, TRUE) => gso' = NoSkb
        /\ gso' \in {gso, NoSkb} \/ Runs(c)
    BY <1>1, <1>2, <1>4, HereFact 
       DEF Goes, Laden, CarriesAt, Carries, Runs, RunsAt, ErrandAt
  <2>8. Packets'
    BY <2>1, <2>7, HereFact, PacketsFrame
  <2> QED
    BY <2>2, <2>4, <2>5, <2>6, <2>8 DEF IInv
<1>5. CASE /\ cpu[c].via # "direct"
           /\ Becomes(c, "relock", cpu[c].via, cpu[c].skb, FALSE) /\ UNCHANGED taken
  <2>1. Becomes(c, "relock", cpu[c].via, cpu[c].skb, FALSE)
    BY <1>1, <1>2, <1>5 DEF Goes
  <2>2. TypeOK'
    BY <1>1, <1>2, <1>5, <2>1, HereFact, BoolFact, TypeFrame, ZenonT(60)
       DEF Becomes, TypeOK, Schedules
  <2>3. /\ ErrandAt("relock", cpu[c].via)
        /\ RootPassed(c, "relock") /\ RunPassed(c, "relock", cpu[c].via)
    BY <1>1, <1>2, <1>5, <2>1, HereFact
       DEF Goes, RootHeld, RunsAt, Runs, ErrandAt, RootPassed, RunPassed
  <2>4. Running'
    BY <2>1, <2>3, HereFact, RunningFrame
  <2>5. Scheduled'
    BY <1>1, <1>2, <1>5, <2>1, HereFact, TryingKept, ScheduledFrame DEF Goes
  <2>6. Closing'
    BY <1>1, <1>2, <1>5, <2>1, HereFact, ClosingFrame
       DEF Goes, Closing, XmitVias, ErrandAt, Runs, RunsAt, Schedules
  <2>7. /\ Laden("relock", cpu[c].via, cpu[c].skb, FALSE)
        /\ CarriesAt("relock", cpu[c].via, FALSE) => gso' = NoSkb
        /\ gso' \in {gso, NoSkb} \/ Runs(c)
    BY <1>1, <1>2, <1>5, HereFact 
       DEF Goes, Laden, CarriesAt, Carries, Runs, RunsAt, ErrandAt
  <2>8. Packets'
    BY <2>1, <2>7, HereFact, PacketsFrame
  <2> QED
    BY <2>2, <2>4, <2>5, <2>6, <2>8 DEF IInv
<1> QED
  BY <1>1, <1>3, <1>4, <1>5

LEMMA RefusedKeeps ==
  ASSUME IInv, NEW c \in Cpu, Refused(c)
  PROVE  IInv'
<1>1. /\ cpu[c].pc = "result" /\ ~cpu[c].sent /\ gso' = cpu[c].skb /\ Schedules(c)
      /\ Becomes(c, "end", cpu[c].via, NoSkb, cpu[c].sent)
      /\ UNCHANGED <<kind, queue, running, deact, throttled, root, busylock, txq, online,
                     dev, hist>>
  BY RefusedDoes DEF IInv
<1>2. c \in online /\ c # None
  BY NoneAssumption DEF Refused, At
<1>3. Becomes(c, "end", cpu[c].via, NoSkb, cpu[c].sent)
  BY <1>1, <1>2 DEF Goes
<1>4. TypeOK'
  BY <1>1, <1>2, <1>3, HereFact, BoolFact, TypeFrame DEF Becomes, TypeOK, Schedules
<1>5. /\ ErrandAt("end", cpu[c].via)
      /\ RootPassed(c, "end") /\ RunPassed(c, "end", cpu[c].via)
  BY <1>1, <1>2, <1>3, HereFact
     DEF Goes, RootHeld, RunsAt, Runs, ErrandAt, RootPassed, RunPassed
<1>6. Running'
  BY <1>3, <1>5, HereFact, RunningFrame
<1>7. Scheduled'
  BY <1>1, <1>2, <1>3, HereFact, TryingKept, ScheduledFrame DEF Goes
<1>8. Closing'
  BY <1>1, <1>2, <1>3, HereFact, ClosingFrame
     DEF Goes, Closing, XmitVias, ErrandAt, Runs, RunsAt, Schedules
<1>9. /\ Laden("end", cpu[c].via, NoSkb, cpu[c].sent)
      /\ CarriesAt("end", cpu[c].via, cpu[c].sent) => gso' = NoSkb
      /\ gso' \in {gso, NoSkb} \/ Runs(c)
  BY <1>1, <1>2, HereFact 
     DEF Goes, Laden, CarriesAt, Carries, Runs, RunsAt, ErrandAt
<1>10. Packets'
  BY <1>3, <1>9, HereFact, PacketsFrame
<1> QED
  BY <1>4, <1>6, <1>7, <1>8, <1>10 DEF IInv

LEMMA SentKeeps ==
  ASSUME IInv, NEW c \in Cpu, Sent(c)
  PROVE  IInv'
<1>1. /\ cpu[c].pc = "result" /\ cpu[c].sent /\ busylock' \in {busylock, None}
      /\ \/ Goes(c, "result", "end") /\ UNCHANGED <<sched, outq, pending>>
         \/ Goes(c, "result", "end") /\ Schedules(c)
         \/ /\ \E via \in {"softirq", "send"} : Becomes(c, "restart", via, NoSkb, FALSE)
                                             /\ (via = "softirq" <=> cpu[c].via = "softirq")
            /\ UNCHANGED <<sched, outq, pending>>
      /\ UNCHANGED <<kind, queue, gso, running, deact, throttled, root, txq, online, dev,
                     hist>>
  BY SentDoes DEF IInv
<1>2. c \in online /\ c # None
  BY NoneAssumption DEF Sent, At
<1>3. CASE Goes(c, "result", "end") /\ UNCHANGED <<sched, outq, pending>>
  <2>1. Becomes(c, "end", cpu[c].via, cpu[c].skb, cpu[c].sent)
    BY <1>1, <1>2, <1>3 DEF Goes
  <2>2. TypeOK'
    BY <1>1, <1>2, <1>3, <2>1, HereFact, BoolFact, TypeFrame DEF Becomes, TypeOK, Schedules
  <2>3. /\ ErrandAt("end", cpu[c].via)
        /\ RootPassed(c, "end") /\ RunPassed(c, "end", cpu[c].via)
    BY <1>1, <1>2, <1>3, <2>1, HereFact
       DEF Goes, RootHeld, RunsAt, Runs, ErrandAt, RootPassed, RunPassed
  <2>4. Running'
    BY <2>1, <2>3, HereFact, RunningFrame
  <2>5. Scheduled'
    BY <1>1, <1>2, <1>3, <2>1, HereFact, TryingKept, ScheduledFrame DEF Goes
  <2>6. Closing'
    BY <1>1, <1>2, <1>3, <2>1, HereFact, ClosingFrame
       DEF Goes, Closing, XmitVias, ErrandAt, Runs, RunsAt, Schedules
  <2>7. /\ Laden("end", cpu[c].via, cpu[c].skb, cpu[c].sent)
        /\ CarriesAt("end", cpu[c].via, cpu[c].sent) => gso' = NoSkb
        /\ gso' \in {gso, NoSkb} \/ Runs(c)
    BY <1>1, <1>2, <1>3, HereFact 
       DEF Goes, Laden, CarriesAt, Carries, Runs, RunsAt, ErrandAt
  <2>8. Packets'
    BY <2>1, <2>7, HereFact, PacketsFrame
  <2> QED
    BY <2>2, <2>4, <2>5, <2>6, <2>8 DEF IInv
<1>4. CASE Goes(c, "result", "end") /\ Schedules(c)
  <2>1. Becomes(c, "end", cpu[c].via, cpu[c].skb, cpu[c].sent)
    BY <1>1, <1>2, <1>4 DEF Goes
  <2>2. TypeOK'
    BY <1>1, <1>2, <1>4, <2>1, HereFact, BoolFact, TypeFrame, ZenonT(60)
       DEF Becomes, TypeOK, Schedules
  <2>3. /\ ErrandAt("end", cpu[c].via)
        /\ RootPassed(c, "end") /\ RunPassed(c, "end", cpu[c].via)
    BY <1>1, <1>2, <1>4, <2>1, HereFact
       DEF Goes, RootHeld, RunsAt, Runs, ErrandAt, RootPassed, RunPassed
  <2>4. Running'
    BY <2>1, <2>3, HereFact, RunningFrame
  <2>5. Scheduled'
    BY <1>1, <1>2, <1>4, <2>1, HereFact, TryingKept, ScheduledFrame DEF Goes
  <2>6. Closing'
    BY <1>1, <1>2, <1>4, <2>1, HereFact, ClosingFrame
       DEF Goes, Closing, XmitVias, ErrandAt, Runs, RunsAt, Schedules
  <2>7. /\ Laden("end", cpu[c].via, cpu[c].skb, cpu[c].sent)
        /\ CarriesAt("end", cpu[c].via, cpu[c].sent) => gso' = NoSkb
        /\ gso' \in {gso, NoSkb} \/ Runs(c)
    BY <1>1, <1>2, <1>4, HereFact 
       DEF Goes, Laden, CarriesAt, Carries, Runs, RunsAt, ErrandAt
  <2>8. Packets'
    BY <2>1, <2>7, HereFact, PacketsFrame
  <2> QED
    BY <2>2, <2>4, <2>5, <2>6, <2>8 DEF IInv
<1>5. CASE /\ Becomes(c, "restart", "softirq", NoSkb, FALSE) /\ cpu[c].via = "softirq"
           /\ UNCHANGED <<sched, outq, pending>>
  <2>1. Becomes(c, "restart", "softirq", NoSkb, FALSE)
    BY <1>1, <1>2, <1>5 DEF Goes
  <2>2. TypeOK'
    BY <1>1, <1>2, <1>5, <2>1, HereFact, BoolFact, TypeFrame DEF Becomes, TypeOK, Schedules
  <2>3. /\ ErrandAt("restart", "softirq")
        /\ RootPassed(c, "restart") /\ RunPassed(c, "restart", "softirq")
    BY <1>1, <1>2, <1>5, <2>1, HereFact
       DEF Goes, RootHeld, RunsAt, Runs, ErrandAt, RootPassed, RunPassed
  <2>4. Running'
    BY <2>1, <2>3, HereFact, RunningFrame
  <2>5. Scheduled'
    BY <1>1, <1>2, <1>5, <2>1, HereFact, TryingKept, ScheduledFrame DEF Goes
  <2>6. Closing'
    BY <1>1, <1>2, <1>5, <2>1, HereFact, ClosingFrame
       DEF Goes, Closing, XmitVias, ErrandAt, Runs, RunsAt, Schedules
  <2>7. /\ Laden("restart", "softirq", NoSkb, FALSE)
        /\ CarriesAt("restart", "softirq", FALSE) => gso' = NoSkb
        /\ gso' \in {gso, NoSkb} \/ Runs(c)
    BY <1>1, <1>2, <1>5, HereFact 
       DEF Goes, Laden, CarriesAt, Carries, Runs, RunsAt, ErrandAt
  <2>8. Packets'
    BY <2>1, <2>7, HereFact, PacketsFrame
  <2> QED
    BY <2>2, <2>4, <2>5, <2>6, <2>8 DEF IInv
<1>6. CASE /\ Becomes(c, "restart", "send", NoSkb, FALSE) /\ cpu[c].via # "softirq"
           /\ UNCHANGED <<sched, outq, pending>>
  <2>1. Becomes(c, "restart", "send", NoSkb, FALSE)
    BY <1>1, <1>2, <1>6 DEF Goes
  <2>2. TypeOK'
    BY <1>1, <1>2, <1>6, <2>1, HereFact, BoolFact, TypeFrame DEF Becomes, TypeOK, Schedules
  <2>3. /\ ErrandAt("restart", "send")
        /\ RootPassed(c, "restart") /\ RunPassed(c, "restart", "send")
    BY <1>1, <1>2, <1>6, <2>1, HereFact
       DEF Goes, RootHeld, RunsAt, Runs, ErrandAt, RootPassed, RunPassed
  <2>4. Running'
    BY <2>1, <2>3, HereFact, RunningFrame
  <2>5. Scheduled'
    BY <1>1, <1>2, <1>6, <2>1, HereFact, TryingKept, ScheduledFrame DEF Goes
  <2>6. Closing'
    BY <1>1, <1>2, <1>6, <2>1, HereFact, ClosingFrame
       DEF Goes, Closing, XmitVias, ErrandAt, Runs, RunsAt, Schedules
  <2>7. /\ Laden("restart", "send", NoSkb, FALSE)
        /\ CarriesAt("restart", "send", FALSE) => gso' = NoSkb
        /\ gso' \in {gso, NoSkb} \/ Runs(c)
    BY <1>1, <1>2, <1>6, HereFact 
       DEF Goes, Laden, CarriesAt, Carries, Runs, RunsAt, ErrandAt
  <2>8. Packets'
    BY <2>1, <2>7, HereFact, PacketsFrame
  <2> QED
    BY <2>2, <2>4, <2>5, <2>6, <2>8 DEF IInv
<1> QED
  BY <1>1, <1>3, <1>4, <1>5, <1>6

LEMMA RunEndKeeps ==
  ASSUME IInv, NEW c \in Cpu, RunEnd(c)
  PROVE  IInv'
<1>1. /\ cpu[c].pc = "end" /\ running' = FALSE /\ root' = None
      /\ Becomes(c, "idle", "none", NoSkb, FALSE) /\ busylock' \in {busylock, None}
      /\ UNCHANGED <<kind, queue, gso, sched, deact, throttled, txq, softnet, dev, hist>>
  BY RunEndDoes DEF IInv
<1>2. c \in online /\ c # None
  BY NoneAssumption DEF RunEnd, At
<1>3. Becomes(c, "idle", "none", NoSkb, FALSE)
  BY <1>1, <1>2 DEF Goes
<1>4. TypeOK'
  BY <1>1, <1>2, <1>3, HereFact, BoolFact, TypeFrame, ZenonT(60) DEF Becomes, TypeOK, Schedules
<1>5. /\ ErrandAt("idle", "none")
      /\ RootPassed(c, "idle") /\ RunPassed(c, "idle", "none")
  BY <1>1, <1>2, <1>3, HereFact
     DEF Goes, RootHeld, RunsAt, Runs, ErrandAt, RootPassed, RunPassed
<1>6. Running'
  BY <1>3, <1>5, HereFact, RunningFrame
<1>7. Scheduled'
  BY <1>1, <1>2, <1>3, HereFact, TryingKept, ScheduledFrame DEF Goes
<1>8. Closing'
  BY <1>1, <1>2, <1>3, HereFact, ClosingFrame
     DEF Goes, Closing, XmitVias, ErrandAt, Runs, RunsAt, Schedules
<1>9. /\ Laden("idle", "none", NoSkb, FALSE)
      /\ CarriesAt("idle", "none", FALSE) => gso' = NoSkb
      /\ gso' \in {gso, NoSkb} \/ Runs(c)
  BY <1>1, <1>2, HereFact 
     DEF Goes, Laden, CarriesAt, Carries, Runs, RunsAt, ErrandAt
<1>10. Packets'
  BY <1>3, <1>9, HereFact, PacketsFrame
<1> QED
  BY <1>4, <1>6, <1>7, <1>8, <1>10 DEF IInv

LEMMA TxActionKeeps ==
  ASSUME IInv, NEW c \in Cpu, TxAction(c)
  PROVE  IInv'
<1>1. /\ cpu[c].pc = "idle" /\ c \in online
      /\ pending' = pending \ {c} /\ outq' = outq \ {c}
      /\ \/ c \in outq /\ Becomes(c, "try", "softirq", cpu[c].skb, cpu[c].sent)
         \/ c \notin outq /\ UNCHANGED cpu
      /\ UNCHANGED <<kind, qdisc, root, busylock, txq, online, dev, hist>>
  BY TxActionDoes DEF IInv
<1>2. c \in online /\ c # None
  BY NoneAssumption DEF TxAction, At
<1>3. CASE c \in outq /\ Becomes(c, "try", "softirq", cpu[c].skb, cpu[c].sent)
  <2>1. Becomes(c, "try", "softirq", cpu[c].skb, cpu[c].sent)
    BY <1>1, <1>2, <1>3 DEF Goes
  <2>2. TypeOK'
    BY <1>1, <1>2, <1>3, <2>1, HereFact, BoolFact, TypeFrame DEF Becomes, TypeOK, Schedules
  <2>3. /\ ErrandAt("try", "softirq")
        /\ RootPassed(c, "try") /\ RunPassed(c, "try", "softirq")
    BY <1>1, <1>2, <1>3, <2>1, HereFact
       DEF Goes, RootHeld, RunsAt, Runs, ErrandAt, RootPassed, RunPassed
  <2>4. Running'
    BY <2>1, <2>3, HereFact, RunningFrame
  <2>5. Scheduled'
    BY <1>1, <1>2, <1>3, <2>1, HereFact DEF Scheduled, Trying, Becomes
  <2>6. Closing'
    BY <1>1, <1>2, <1>3, <2>1, HereFact, ClosingFrame
       DEF Goes, Closing, XmitVias, ErrandAt, Runs, RunsAt, Schedules
  <2>7. /\ Laden("try", "softirq", cpu[c].skb, cpu[c].sent)
        /\ CarriesAt("try", "softirq", cpu[c].sent) => gso' = NoSkb
        /\ gso' \in {gso, NoSkb} \/ Runs(c)
    BY <1>1, <1>2, <1>3, HereFact 
       DEF Goes, Laden, CarriesAt, Carries, Runs, RunsAt, ErrandAt
  <2>8. Packets'
    BY <2>1, <2>7, HereFact, PacketsFrame
  <2> QED
    BY <2>2, <2>4, <2>5, <2>6, <2>8 DEF IInv
<1>4. CASE c \notin outq /\ UNCHANGED cpu
  <2>1. Becomes(c, cpu[c].pc, cpu[c].via, cpu[c].skb, cpu[c].sent)
    BY <1>1, <1>2, <1>4, HereFact, StaysPut
  <2>2. TypeOK'
    BY <1>1, <1>2, <1>4, <2>1, HereFact, BoolFact, TypeFrame DEF Becomes, TypeOK, Schedules
  <2>3. /\ ErrandAt(cpu[c].pc, cpu[c].via)
        /\ RootPassed(c, cpu[c].pc) /\ RunPassed(c, cpu[c].pc, cpu[c].via)
    BY <1>1, <1>2, <1>4, <2>1, HereFact
       DEF Goes, RootHeld, RunsAt, Runs, ErrandAt, RootPassed, RunPassed
  <2>4. Running'
    BY <2>1, <2>3, HereFact, RunningFrame
  <2>5. Scheduled'
    BY <1>1, <1>2, <1>4, <2>1, HereFact DEF Scheduled, Trying, Becomes
  <2>6. Closing'
    BY <1>1, <1>2, <1>4, <2>1, HereFact, ClosingFrame
       DEF Goes, Closing, XmitVias, ErrandAt, Runs, RunsAt, Schedules
  <2>7. /\ Laden(cpu[c].pc, cpu[c].via, cpu[c].skb, cpu[c].sent)
        /\ CarriesAt(cpu[c].pc, cpu[c].via, cpu[c].sent) => gso' = NoSkb
        /\ gso' \in {gso, NoSkb} \/ Runs(c)
    BY <1>1, <1>2, <1>4, HereFact 
       DEF Goes, Laden, CarriesAt, Carries, Runs, RunsAt, ErrandAt
  <2>8. Packets'
    BY <2>1, <2>7, HereFact, PacketsFrame
  <2> QED
    BY <2>2, <2>4, <2>5, <2>6, <2>8 DEF IInv
<1> QED
  BY <1>1, <1>3, <1>4

LEMMA TryLockKeeps ==
  ASSUME IInv, NEW c \in Cpu, TryLock(c)
  PROVE  IInv'
<1>1. /\ cpu[c].pc = "try" /\ c \in online
      /\ \/ /\ root = None /\ root' = c /\ sched' = FALSE /\ Goes(c, "try", "run")
            /\ UNCHANGED <<outq, pending>>
         \/ /\ root # None /\ Becomes(c, "idle", "none", NoSkb, FALSE) /\ UNCHANGED root
            /\ \/ deact /\ sched' = FALSE /\ UNCHANGED <<outq, pending>>
               \/ /\ outq' = outq \cup {c} /\ pending' = pending \cup {c}
                  /\ UNCHANGED sched
      /\ UNCHANGED <<kind, queue, gso, running, deact, throttled, busylock, txq, online,
                     dev, hist>>
  BY TryLockDoes DEF IInv
<1>2. c \in online /\ c # None
  BY NoneAssumption DEF TryLock, At
<1>3. sched /\ dev.pc # "down" /\ outq = {} /\ Trying = {c}
  BY <1>1, <1>2, HereFact DEF Scheduled, Trying, Closing
<1>4. CASE /\ root = None /\ root' = c /\ sched' = FALSE /\ Goes(c, "try", "run")
           /\ UNCHANGED <<outq, pending>>
  <2>1. Becomes(c, "run", cpu[c].via, cpu[c].skb, cpu[c].sent)
    BY <1>1, <1>2, <1>3, <1>4 DEF Goes
  <2>2. TypeOK'
    BY <1>1, <1>2, <1>3, <1>4, <2>1, HereFact, BoolFact, TypeFrame, ZenonT(60)
       DEF Becomes, TypeOK, Schedules
  <2>3. /\ ErrandAt("run", cpu[c].via)
        /\ RootPassed(c, "run") /\ RunPassed(c, "run", cpu[c].via)
    BY <1>1, <1>2, <1>3, <1>4, <2>1, HereFact
       DEF Goes, RootHeld, RunsAt, Runs, ErrandAt, RootPassed, RunPassed
  <2>4. Running'
    BY <2>1, <2>3, HereFact, RunningFrame
  <2>5. Scheduled'
    BY <1>1, <1>2, <1>3, <1>4, <2>1, HereFact DEF Scheduled, Trying, Goes, Becomes
  <2>6. Closing'
    BY <1>1, <1>2, <1>3, <1>4, <2>1, HereFact, ClosingFrame
       DEF Goes, Closing, XmitVias, ErrandAt, Runs, RunsAt, Schedules
  <2>7. /\ Laden("run", cpu[c].via, cpu[c].skb, cpu[c].sent)
        /\ CarriesAt("run", cpu[c].via, cpu[c].sent) => gso' = NoSkb
        /\ gso' \in {gso, NoSkb} \/ Runs(c)
    BY <1>1, <1>2, <1>3, <1>4, HereFact 
       DEF Goes, Laden, CarriesAt, Carries, Runs, RunsAt, ErrandAt
  <2>8. Packets'
    BY <2>1, <2>7, HereFact, PacketsFrame
  <2> QED
    BY <2>2, <2>4, <2>5, <2>6, <2>8 DEF IInv
<1>5. CASE /\ Becomes(c, "idle", "none", NoSkb, FALSE) /\ UNCHANGED root
           /\ deact /\ sched' = FALSE /\ UNCHANGED <<outq, pending>>
  <2>1. Becomes(c, "idle", "none", NoSkb, FALSE)
    BY <1>1, <1>2, <1>3, <1>5 DEF Goes
  <2>2. TypeOK'
    BY <1>1, <1>2, <1>3, <1>5, <2>1, HereFact, BoolFact, TypeFrame DEF Becomes, TypeOK, Schedules
  <2>3. /\ ErrandAt("idle", "none")
        /\ RootPassed(c, "idle") /\ RunPassed(c, "idle", "none")
    BY <1>1, <1>2, <1>3, <1>5, <2>1, HereFact
       DEF Goes, RootHeld, RunsAt, Runs, ErrandAt, RootPassed, RunPassed
  <2>4. Running'
    BY <2>1, <2>3, HereFact, RunningFrame
  <2>5. Scheduled'
    BY <1>1, <1>2, <1>3, <1>5, <2>1, HereFact DEF Scheduled, Trying, Goes, Becomes
  <2>6. Closing'
    BY <1>1, <1>2, <1>3, <1>5, <2>1, HereFact, ClosingFrame
       DEF Goes, Closing, XmitVias, ErrandAt, Runs, RunsAt, Schedules
  <2>7. /\ Laden("idle", "none", NoSkb, FALSE)
        /\ CarriesAt("idle", "none", FALSE) => gso' = NoSkb
        /\ gso' \in {gso, NoSkb} \/ Runs(c)
    BY <1>1, <1>2, <1>3, <1>5, HereFact 
       DEF Goes, Laden, CarriesAt, Carries, Runs, RunsAt, ErrandAt
  <2>8. Packets'
    BY <2>1, <2>7, HereFact, PacketsFrame
  <2> QED
    BY <2>2, <2>4, <2>5, <2>6, <2>8 DEF IInv
<1>6. CASE /\ Becomes(c, "idle", "none", NoSkb, FALSE) /\ UNCHANGED root
           /\ outq' = outq \cup {c} /\ pending' = pending \cup {c}
           /\ UNCHANGED sched
  <2>1. Becomes(c, "idle", "none", NoSkb, FALSE)
    BY <1>1, <1>2, <1>3, <1>6 DEF Goes
  <2>2. TypeOK'
    BY <1>1, <1>2, <1>3, <1>6, <2>1, HereFact, BoolFact, TypeFrame DEF Becomes, TypeOK, Schedules
  <2>3. /\ ErrandAt("idle", "none")
        /\ RootPassed(c, "idle") /\ RunPassed(c, "idle", "none")
    BY <1>1, <1>2, <1>3, <1>6, <2>1, HereFact
       DEF Goes, RootHeld, RunsAt, Runs, ErrandAt, RootPassed, RunPassed
  <2>4. Running'
    BY <2>1, <2>3, HereFact, RunningFrame
  <2>5. Scheduled'
    BY <1>1, <1>2, <1>3, <1>6, <2>1, HereFact DEF Scheduled, Trying, Goes, Becomes
  <2>6. Closing'
    BY <1>1, <1>2, <1>3, <1>6, <2>1, HereFact, ClosingFrame
       DEF Goes, Closing, XmitVias, ErrandAt, Runs, RunsAt, Schedules
  <2>7. /\ Laden("idle", "none", NoSkb, FALSE)
        /\ CarriesAt("idle", "none", FALSE) => gso' = NoSkb
        /\ gso' \in {gso, NoSkb} \/ Runs(c)
    BY <1>1, <1>2, <1>3, <1>6, HereFact 
       DEF Goes, Laden, CarriesAt, Carries, Runs, RunsAt, ErrandAt
  <2>8. Packets'
    BY <2>1, <2>7, HereFact, PacketsFrame
  <2> QED
    BY <2>2, <2>4, <2>5, <2>6, <2>8 DEF IInv
<1> QED
  BY <1>1, <1>4, <1>5, <1>6

LEMMA QdiscRunKeeps ==
  ASSUME IInv, NEW c \in Cpu, QdiscRun(c)
  PROVE  IInv'
<1>1. /\ cpu[c].pc = "run" /\ busylock' \in {busylock, None}
      /\ \/ running /\ Becomes(c, "idle", "none", NoSkb, FALSE) /\ root' = None /\ UNCHANGED running
         \/ /\ ~running /\ running' = TRUE /\ Goes(c, "run", "restart")
            /\ UNCHANGED <<root, busylock>>
      /\ UNCHANGED <<kind, queue, gso, sched, deact, throttled, txq, softnet, dev, hist>>
  BY QdiscRunDoes DEF IInv
<1>2. c \in online /\ c # None
  BY NoneAssumption DEF QdiscRun, At
<1>3. CASE /\ running /\ Becomes(c, "idle", "none", NoSkb, FALSE) /\ root' = None
           /\ UNCHANGED running
  <2>1. Becomes(c, "idle", "none", NoSkb, FALSE)
    BY <1>1, <1>2, <1>3 DEF Goes
  <2>2. TypeOK'
    BY <1>1, <1>2, <1>3, <2>1, HereFact, BoolFact, TypeFrame DEF Becomes, TypeOK, Schedules
  <2>3. /\ ErrandAt("idle", "none")
        /\ RootPassed(c, "idle") /\ RunPassed(c, "idle", "none")
    BY <1>1, <1>2, <1>3, <2>1, HereFact
       DEF Goes, RootHeld, RunsAt, Runs, ErrandAt, RootPassed, RunPassed
  <2>4. Running'
    BY <2>1, <2>3, HereFact, RunningFrame
  <2>5. Scheduled'
    BY <1>1, <1>2, <1>3, <2>1, HereFact, TryingKept, ScheduledFrame DEF Goes
  <2>6. Closing'
    BY <1>1, <1>2, <1>3, <2>1, HereFact, ClosingFrame
       DEF Goes, Closing, XmitVias, ErrandAt, Runs, RunsAt, Schedules
  <2>7. /\ Laden("idle", "none", NoSkb, FALSE)
        /\ CarriesAt("idle", "none", FALSE) => gso' = NoSkb
        /\ gso' \in {gso, NoSkb} \/ Runs(c)
    BY <1>1, <1>2, <1>3, HereFact 
       DEF Goes, Laden, CarriesAt, Carries, Runs, RunsAt, ErrandAt
  <2>8. Packets'
    BY <2>1, <2>7, HereFact, PacketsFrame
  <2> QED
    BY <2>2, <2>4, <2>5, <2>6, <2>8 DEF IInv
<1>4. CASE /\ ~running /\ running' = TRUE /\ Goes(c, "run", "restart")
           /\ UNCHANGED <<root, busylock>>
  <2>1. Becomes(c, "restart", cpu[c].via, cpu[c].skb, cpu[c].sent)
    BY <1>1, <1>2, <1>4 DEF Goes
  <2>2. TypeOK'
    BY <1>1, <1>2, <1>4, <2>1, HereFact, BoolFact, TypeFrame DEF Becomes, TypeOK, Schedules
  <2>3. /\ ErrandAt("restart", cpu[c].via)
        /\ RootPassed(c, "restart") /\ RunPassed(c, "restart", cpu[c].via)
    BY <1>1, <1>2, <1>4, <2>1, HereFact
       DEF Goes, RootHeld, RunsAt, Runs, ErrandAt, RootPassed, RunPassed
  <2>4. Running'
    BY <2>1, <2>3, HereFact, RunningFrame
  <2>5. Scheduled'
    BY <1>1, <1>2, <1>4, <2>1, HereFact, TryingKept, ScheduledFrame DEF Goes
  <2>6. Closing'
    BY <1>1, <1>2, <1>4, <2>1, HereFact, ClosingFrame
       DEF Goes, Closing, XmitVias, ErrandAt, Runs, RunsAt, Schedules
  <2>7. /\ Laden("restart", cpu[c].via, cpu[c].skb, cpu[c].sent)
        /\ CarriesAt("restart", cpu[c].via, cpu[c].sent) => gso' = NoSkb
        /\ gso' \in {gso, NoSkb} \/ Runs(c)
    BY <1>1, <1>2, <1>4, HereFact 
       DEF Goes, Laden, CarriesAt, Carries, Runs, RunsAt, ErrandAt
  <2>8. Packets'
    BY <2>1, <2>7, HereFact, PacketsFrame
  <2> QED
    BY <2>2, <2>4, <2>5, <2>6, <2>8 DEF IInv
<1> QED
  BY <1>1, <1>3, <1>4

----------------------------------------------------------------------------
(* The interrupts, and the device that is closed and opened.               *)

\* None of these touches what a CPU is doing, or who runs the qdisc.
LEMMA SameCpus ==
  ASSUME Running, Packets, UNCHANGED <<root, running, cpu>>,
         gso' \in {gso, NoSkb}
  PROVE  Running' /\ Packets' /\ Trying' = Trying /\ InXmit' = InXmit
<1>1. Running'
  BY DEF Running, Runs
<1>2. Trying' = Trying /\ InXmit' = InXmit
  BY DEF Trying, InXmit
<1>3. Packets'
  BY DEF Packets, Carries
<1> QED
  BY <1>1, <1>2, <1>3

LEMMA WakeQueueKeeps ==
  ASSUME IInv, NEW c \in Cpu, WakeQueue(c)
  PROVE  IInv'
<1>1. /\ c \in online /\ dev.pc # "down" /\ stopped' = FALSE
      /\ (attached /\ Schedules(c)) \/ UNCHANGED <<sched, outq, pending>>
      /\ UNCHANGED <<kind, queue, gso, running, deact, throttled, root, busylock, attached,
                     frozen, xlock, cpu, online, dev, hist>>
  BY ScheduleDoes DEF WakeQueue, IInv
<1>2. Running' /\ Packets' /\ Trying' = Trying /\ InXmit' = InXmit
  BY <1>1, SameCpus DEF IInv
<1>3. TypeOK'
  BY <1>1, BoolFact, TypeFrame DEF IInv, TypeOK, Schedules
<1>4. Scheduled'
  BY <1>1, <1>2, ScheduledFrame DEF IInv
<1>5. Closing'
  BY <1>1, <1>2, BoolFact DEF IInv, Closing, Schedules
<1> QED
  BY <1>2, <1>3, <1>4, <1>5 DEF IInv

LEMMA HtbWatchdogKeeps ==
  ASSUME IInv, NEW c \in Cpu, HtbWatchdog(c)
  PROVE  IInv'
<1>1. /\ c \in online /\ throttled /\ throttled' = FALSE /\ Schedules(c)
      /\ UNCHANGED <<kind, queue, gso, running, deact, root, busylock, txq, cpu, online,
                     dev, hist>>
  BY ScheduleDoes DEF HtbWatchdog, IInv
<1>2. Running' /\ Packets' /\ Trying' = Trying /\ InXmit' = InXmit
  BY <1>1, SameCpus DEF IInv
<1>3. TypeOK'
  BY <1>1, BoolFact, TypeFrame DEF IInv, TypeOK, Schedules
<1>4. Scheduled'
  BY <1>1, <1>2, ScheduledFrame DEF IInv
<1>5. Closing'
  BY <1>1, <1>2, BoolFact DEF IInv, Closing, Schedules
<1> QED
  BY <1>2, <1>3, <1>4, <1>5 DEF IInv

LEMMA WatchdogDoneKeeps ==
  ASSUME IInv, NEW c \in Cpu, WatchdogDone(c)
  PROVE  IInv'
<1>1. /\ c \in online /\ frozen' = FALSE
      /\ (attached /\ Schedules(c)) \/ UNCHANGED <<sched, outq, pending>>
      /\ UNCHANGED <<kind, queue, gso, running, deact, throttled, root, busylock, attached,
                     stopped, xlock, cpu, online, dev, hist>>
  BY ScheduleDoes DEF WatchdogDone, IInv
<1>2. Running' /\ Packets' /\ Trying' = Trying /\ InXmit' = InXmit
  BY <1>1, SameCpus DEF IInv
<1>3. TypeOK'
  BY <1>1, BoolFact, TypeFrame DEF IInv, TypeOK, Schedules
<1>4. Scheduled'
  BY <1>1, <1>2, ScheduledFrame DEF IInv
<1>5. Closing'
  BY <1>1, <1>2, BoolFact DEF IInv, Closing, Schedules
<1> QED
  BY <1>2, <1>3, <1>4, <1>5 DEF IInv

LEMMA WatchdogKeeps ==
  ASSUME IInv, Watchdog
  PROVE  IInv'
<1>1. /\ frozen' = TRUE
      /\ UNCHANGED <<kind, qdisc, root, busylock, attached, stopped, xlock, cpu, softnet,
                     dev, hist>>
  BY DEF Watchdog, IInv
<1>2. Running' /\ Packets' /\ Trying' = Trying /\ InXmit' = InXmit
  BY <1>1, SameCpus DEF IInv
<1>3. TypeOK'
  BY <1>1, BoolFact, TypeFrame DEF IInv, TypeOK, DevState
<1>4. Scheduled'
  BY <1>1, <1>2 DEF IInv, Scheduled
<1>5. Closing'
  BY <1>1, <1>2 DEF IInv, Closing
<1> QED
  BY <1>2, <1>3, <1>4, <1>5 DEF IInv

LEMMA DeactivateKeeps ==
  ASSUME IInv, Deactivate
  PROVE  IInv'
<1>1. /\ dev.pc = "up" /\ attached' = FALSE /\ deact' \in BOOLEAN /\ (deact' <=> kind # "none")
      /\ queue' = Drained /\ gso' = NoSkb /\ throttled' = FALSE
      /\ \E dismantle \in BOOLEAN :
           dev' = [pc |-> "sync", dismantle |-> dismantle,
                   readers |-> IF dismantle THEN {} ELSE InXmit]
      /\ UNCHANGED <<kind, running, sched, root, busylock, stopped, frozen, xlock, cpu,
                     softnet, hist>>
  BY DEF Deactivate, IInv, Drained
<1>2. Running' /\ Packets' /\ Trying' = Trying /\ InXmit' = InXmit
  BY <1>1, SameCpus DEF IInv
<1>3. TypeOK'
  <2>1. dev' \in DevState
    BY <1>1 DEF DevState, InXmit
  <2>2. Drained \in Queues /\ NoSkb \in Skb
    BY SkbFact DEF Drained, Queues
  <2> QED
    BY <1>1, <2>1, <2>2, BoolFact, TypeFrame DEF IInv, TypeOK
<1>4. Scheduled'
  BY <1>1, <1>2 DEF IInv, Scheduled
<1>5. Closing'
  BY <1>1, <1>2 DEF IInv, Closing
<1> QED
  BY <1>2, <1>3, <1>4, <1>5 DEF IInv

LEMMA SynchronizedKeeps ==
  ASSUME IInv, Synchronized
  PROVE  IInv'
<1>1. /\ dev.pc = "sync" /\ dev.readers \cap InXmit = {}
      /\ dev' = [dev EXCEPT !.pc = "busy", !.readers = {}]
      /\ UNCHANGED <<kind, qdisc, root, busylock, txq, cpu, softnet, hist>>
  BY DEF Synchronized, IInv
<1>2. Running' /\ Packets' /\ Trying' = Trying /\ InXmit' = InXmit
  BY <1>1, SameCpus DEF IInv
<1>3. TypeOK'
  BY <1>1, BoolFact, TypeFrame DEF IInv, TypeOK, DevState
<1>4. Scheduled'
  BY <1>1, <1>2 DEF IInv, Scheduled
<1>5. Closing'
  BY <1>1, <1>2 DEF IInv, Closing
<1> QED
  BY <1>2, <1>3, <1>4, <1>5 DEF IInv

LEMMA StopKeeps ==
  ASSUME IInv, Stop
  PROVE  IInv'
<1>1. /\ dev.pc = "busy" /\ root = None /\ ~running /\ ~sched
      /\ dev' = [dev EXCEPT !.pc = "down"] /\ stopped' \in {stopped, TRUE}
      /\ UNCHANGED <<kind, qdisc, root, busylock, attached, frozen, xlock, cpu, softnet, hist>>
  BY DEF Stop, IInv
<1>2. Running' /\ Packets' /\ Trying' = Trying /\ InXmit' = InXmit
  BY <1>1, SameCpus DEF IInv
<1>3. TypeOK'
  BY <1>1, BoolFact, TypeFrame DEF IInv, TypeOK, DevState
<1>4. Scheduled'
  BY <1>1, <1>2 DEF IInv, Scheduled
<1>5. Closing'
  BY <1>1, <1>2, BoolFact, NoneAssumption DEF IInv, TypeOK, DevState, Closing, Running, RootHeld
<1> QED
  BY <1>2, <1>3, <1>4, <1>5 DEF IInv

LEMMA OpenKeeps ==
  ASSUME IInv, Open
  PROVE  IInv'
<1>1. /\ dev.pc = "down" /\ ~dev.dismantle
      /\ dev' = [dev EXCEPT !.pc = "up"] /\ stopped' \in {stopped, FALSE}
      /\ deact' = FALSE /\ attached' = TRUE /\ opened' = accepted
      /\ UNCHANGED <<kind, queue, gso, running, sched, throttled, root, busylock, frozen,
                     xlock, cpu, softnet, accepted, taken>>
  BY DEF Open, IInv
<1>2. Running' /\ Packets' /\ Trying' = Trying /\ InXmit' = InXmit
  BY <1>1, SameCpus DEF IInv
<1>3. TypeOK'
  BY <1>1, BoolFact, TypeFrame DEF IInv, TypeOK, DevState
<1>4. Scheduled'
  BY <1>1, <1>2 DEF IInv, Scheduled
<1>5. Closing'
  BY <1>1, <1>2 DEF IInv, Closing
<1> QED
  BY <1>2, <1>3, <1>4, <1>5 DEF IInv

LEMMA OfflineKeeps ==
  ASSUME IInv, NEW c \in Cpu, NEW d \in Cpu, Offline(c, d)
  PROVE  IInv'
<1>1. /\ c # d /\ {c, d} \subseteq online /\ cpu[c].pc = "idle"
      /\ online' = online \ {c}
      /\ outq' = IF c \in outq THEN (outq \ {c}) \cup {d} ELSE outq
      /\ pending' = (pending \ {c}) \cup {d}
      /\ UNCHANGED <<kind, qdisc, root, busylock, txq, cpu, dev, hist>>
  BY DEF Offline, IInv
<1>2. Running' /\ Packets' /\ Trying' = Trying /\ InXmit' = InXmit
  BY <1>1, SameCpus DEF IInv
<1>3. TypeOK'
  BY <1>1, BoolFact, TypeFrame DEF IInv, TypeOK, DevState
<1>4. Scheduled'
  BY <1>1, <1>2 DEF IInv, TypeOK, Scheduled
<1>5. Closing'
  BY <1>1, <1>2 DEF IInv, Closing
<1> QED
  BY <1>2, <1>3, <1>4, <1>5 DEF IInv

----------------------------------------------------------------------------
(* The invariant, and what follows from it.                                *)

LEMMA InitIInv == Init => IInv
<1> SUFFICES ASSUME Init PROVE IInv
  OBVIOUS
<1>1. Idle \in CpuState /\ Idle.pc = "idle" /\ Idle.via = "none" /\ Idle.skb = NoSkb /\ ~Idle.sent
  BY SkbFact DEF Idle, CpuState
<1>2. cpu \in [Cpu -> CpuState] /\ \A c \in Cpu : cpu[c] = Idle
  BY <1>1 DEF Init
<1>3. TypeOK
  <2>1. {running, sched, deact, throttled, attached, stopped, frozen} \subseteq BOOLEAN
    BY Zenon DEF Init
  <2>2. /\ kind \in Kinds /\ queue \in Queues /\ gso \in Skb
        /\ {root, busylock, xlock} \subseteq Cpu \cup {None}
        /\ {outq, pending, online} \subseteq SUBSET Cpu
        /\ {accepted, taken, opened} \subseteq Nat
    BY SkbFact DEF Init, Queues
  <2>3. dev \in DevState
    BY DEF Init, DevState
  <2> QED
    BY <1>2, <2>1, <2>2, <2>3, Zenon DEF TypeOK
<1>4. Running
  BY <1>1, <1>2, NoneAssumption DEF Init, Running, Runs, RunsAt, ErrandAt, RootHeld
<1>5. Scheduled
  BY <1>1, <1>2 DEF Init, Scheduled, Trying
<1>6. Closing
  BY <1>1, <1>2 DEF Init, Closing, InXmit, Drained
<1>7. Packets
  BY <1>1, <1>2 DEF Init, Packets, Laden, Carries, CarriesAt
<1> QED
  BY <1>3, <1>4, <1>5, <1>6, <1>7 DEF IInv

LEMMA NextKeepsIInv == IInv /\ [Next]_vars => IInv'
<1> SUFFICES ASSUME IInv, [Next]_vars PROVE IInv'
  OBVIOUS
<1>1. CASE UNCHANGED vars
  <2>1. TypeOK' /\ Running' /\ Scheduled' /\ Closing' /\ Packets'
    BY <1>1 DEF vars, IInv, TypeOK, Running, Runs, Scheduled, Trying, Closing, InXmit,
                Packets, Carries
  <2> QED
    BY <2>1 DEF IInv
<1>2. ASSUME NEW c \in Cpu, Xmit(c) PROVE IInv'
  BY <1>2, DirectKeeps, BusyLockKeeps, RootLockKeeps, BypassKeeps, EnqueueKeeps,
     NothingToSendKeeps, RestartKeeps, HardKeeps, DriverKeeps, RefusedKeeps, SentKeeps,
     RunEndKeeps DEF Xmit
<1>3. ASSUME NEW c \in Cpu, Send(c) \/ Softirq(c) \/ Interrupt(c) PROVE IInv'
  BY <1>3, SendKeeps, TxActionKeeps, TryLockKeeps, QdiscRunKeeps, WakeQueueKeeps,
     HtbWatchdogKeeps, WatchdogDoneKeeps DEF Softirq, Interrupt
<1>4. ASSUME NEW c \in Cpu, NEW d \in Cpu, Offline(c, d) PROVE IInv'
  BY <1>4, OfflineKeeps
<1>5. CASE Watchdog \/ Deactivate \/ Synchronized \/ Stop \/ Open
  BY <1>5, WatchdogKeeps, DeactivateKeeps, SynchronizedKeeps, StopKeeps, OpenKeeps
<1> QED
  BY <1>1, <1>2, <1>3, <1>4, <1>5, Zenon DEF Next

\* Whatever races, the qdisc has one runner, is on one list, and is taken apart
\* only when nobody uses it: the inductive invariant holds for every set of CPUs.
THEOREM AlwaysIInv == Spec => []IInv
<1> QED
  BY InitIInv, NextKeepsIInv, PTL DEF Spec

\* A qdisc that is scheduled is on exactly one output queue, of a CPU that is
\* there and will run its softirq, or with exactly one net_tx_action; one that
\* is not is on none: __netif_schedule neither loses it nor lists it twice.
THEOREM AlwaysScheduledOnce == Spec => []ScheduledOnce
<1> DEFINE trying == {c \in Cpu : cpu[c].pc = "try"}
<1>1. IInv => ScheduledOnce
  <2> SUFFICES ASSUME IInv PROVE ScheduledOnce
    OBVIOUS
  <2>1. /\ TypeOK /\ outq \subseteq pending \cap online
        /\ \A c, d \in outq \cup trying : c = d
        /\ outq \cap trying = {}
        /\ sched <=> outq \cup trying # {}
    BY DEF IInv, Scheduled, Trying
  <2> HIDE DEF trying
  <2>2. Cardinality({}) = 0 /\ \A c : Cardinality({c}) = 1
    BY FS_EmptySet, FS_Singleton
  <2>3. CASE sched
    <3>1. PICK c : c \in outq \cup trying
      BY <2>1, <2>3
    <3>2. \/ outq = {c} /\ trying = {}
          \/ outq = {} /\ trying = {c}
      BY <2>1, <3>1
    <3>3. \/ Cardinality(outq) = 1 /\ Cardinality(trying) = 0
          \/ Cardinality(outq) = 0 /\ Cardinality(trying) = 1
      BY <2>2, <3>2
    <3>4. Cardinality(outq) + Cardinality(trying) = 1
      BY <3>3
    <3> QED
      BY <2>1, <2>3, <3>4 DEF ScheduledOnce, trying
  <2>4. CASE ~sched
    <3>1. outq = {} /\ trying = {}
      BY <2>1, <2>4
    <3>2. Cardinality(outq) + Cardinality(trying) = 0
      BY <2>2, <3>1
    <3> QED
      BY <2>1, <2>4, <3>2 DEF ScheduledOnce, trying
  <2> QED
    BY <2>3, <2>4
<1> QED
  BY <1>1, AlwaysIInv, PTL

\* When dev_close has called ndo_stop the qdisc is neither running nor about to
\* run, and nobody is in the driver, except the senders of a device without
\* queue that is being dismantled.
THEOREM AlwaysQuietWhenDown == Spec => []QuietWhenDown
<1>1. IInv => QuietWhenDown
  <2> SUFFICES ASSUME IInv, dev.pc = "down"
               PROVE  /\ ~running /\ ~sched
                      /\ \A c \in Cpu : cpu[c].pc \in {"hard", "driver"} =>
                                          cpu[c].via = "direct" /\ dev.dismantle
    BY DEF QuietWhenDown
  <2>1. ~running /\ ~sched /\ (~dev.dismantle => InXmit = {})
    BY DEF IInv, Closing
  <2>2. \A c \in Cpu : ~Runs(c)
    BY <2>1 DEF IInv, Running
  <2> QED
    BY <2>1, <2>2 DEF Runs, RunsAt, InXmit
<1> QED
  BY <1>1, AlwaysIInv, PTL

----------------------------------------------------------------------------
(* The link keeps its promise: Transmit implements FifoLink.               *)

LEMMA PushFact ==
  ASSUME NEW S, NEW q \in Seq(S), NEW x \in S
  PROVE  /\ <<x>> \o q # <<>> /\ Head(<<x>> \o q) = x /\ Tail(<<x>> \o q) = q
         /\ \A y \in S : Append(<<x>> \o q, y) = <<x>> \o Append(q, y)
         /\ <<>> \o q = q /\ q \o <<>> = q
         /\ q # <<>> => <<Head(q)>> \o Tail(q) = q
<1> QED
  OBVIOUS

LEMMA OnlyFact ==
  ASSUME NEW skb \in Skb, NEW b \in Band
  PROVE  /\ Only(NoSkb, b) = <<>>
         /\ skb # NoSkb => Only(skb, b) = IF b = skb.band THEN <<skb.n>> ELSE <<>>
         /\ Only(skb, b) \in Seq(Nat \ {0})
<1>1. skb # NoSkb => Only(skb, b) = IF b = skb.band THEN <<skb.n>> ELSE <<>>
  BY DEF Only
<1>2. Only(NoSkb, b) = <<>>
  BY DEF Only
<1>3. Only(skb, b) \in Seq(Nat \ {0})
  <2> DEFINE P == Nat \ {0}
  <2>1. <<>> \in Seq(P) /\ \A n \in P : <<n>> \in Seq(P)
    OBVIOUS
  <2>2. skb # NoSkb => skb.n \in P
    BY SkbFact
  <2> HIDE DEF P
  <2>3. Only(skb, b) \in Seq(P)
    BY <1>1, <1>2, <2>1, <2>2
  <2> QED
    BY <2>3 DEF P
<1> QED
  BY <1>1, <1>2, <1>3

\* What is on its way when skb is out of the queues q, with a CPU or requeued.
Line(skb, q) == [b \in Band |-> Only(skb, b) \o q[b]]

\* With n behind those of band b.
Behind(q, b, n) == [q EXCEPT ![b] = Append(@, n)]

LEMMA LineFact ==
  ASSUME NEW skb \in Skb, NEW q \in Queues
  PROVE  /\ Line(NoSkb, q) = q
         /\ skb # NoSkb =>
              /\ Line(skb, q) = [q EXCEPT ![skb.band] = <<skb.n>> \o @]
              /\ Line(skb, q)[skb.band] # <<>> /\ Head(Line(skb, q)[skb.band]) = skb.n
              /\ [Line(skb, q) EXCEPT ![skb.band] = Tail(@)] = q
<1>1. q = [b \in Band |-> q[b]] /\ \A b \in Band : q[b] \in Seq(Nat \ {0})
  BY DEF Queues
<1>2. \A b \in Band : <<>> \o q[b] = q[b]
  BY <1>1, ConcatEmptySeq
<1>3. Line(NoSkb, q) = q
  BY <1>1, <1>2, OnlyFact DEF Line
<1>4. ASSUME skb # NoSkb
      PROVE  /\ Line(skb, q) = [q EXCEPT ![skb.band] = <<skb.n>> \o @]
             /\ Line(skb, q)[skb.band] # <<>> /\ Head(Line(skb, q)[skb.band]) = skb.n
             /\ [Line(skb, q) EXCEPT ![skb.band] = Tail(@)] = q
  <2> DEFINE a == skb.band
             n == skb.n
             front == <<n>> \o q[a]
  <2>1. a \in Band /\ n \in Nat \ {0}
    BY <1>4, SkbFact
  <2>2. Line(skb, q) = [b \in Band |-> IF b = a THEN front ELSE q[b]]
    <3>1. \A b \in Band : Only(skb, b) \o q[b] = IF b = a THEN front ELSE q[b]
      BY <1>2, <1>4, OnlyFact
    <3> QED
      BY <3>1 DEF Line
  <2>3. front # <<>> /\ Head(front) = n /\ Tail(front) = q[a]
    BY <1>1, <2>1, PushFact
  <2> HIDE DEF a, n, front
  <2>4. Line(skb, q)[a] = front /\ [Line(skb, q) EXCEPT ![a] = Tail(@)] = q
    BY <1>1, <2>1, <2>2, <2>3
  <2>5. Line(skb, q) = [q EXCEPT ![a] = front]
    BY <1>1, <2>1, <2>2
  <2> QED
    BY <2>3, <2>4, <2>5 DEF a, n, front
<1> QED
  BY <1>3, <1>4

LEMMA LineBehind ==
  ASSUME NEW skb \in Skb, NEW q \in Queues, NEW a \in Band, NEW n \in Nat \ {0}
  PROVE  Line(skb, Behind(q, a, n)) = Behind(Line(skb, q), a, n)
<1>1. \A b \in Band : Only(skb, b) \o Append(q[b], n) = Append(Only(skb, b) \o q[b], n)
  <2> SUFFICES ASSUME NEW b \in Band
               PROVE  Only(skb, b) \o Append(q[b], n) = Append(Only(skb, b) \o q[b], n)
    OBVIOUS
  <2> DEFINE P == Nat \ {0}
  <2>1. Only(skb, b) \in Seq(P) /\ q[b] \in Seq(P) /\ n \in P
    BY OnlyFact DEF Queues
  <2> HIDE DEF P
  <2> QED
    BY <2>1
<1> DEFINE r == Behind(q, a, n)
<1>2. \A b \in Band : r[b] = IF b = a THEN Append(q[b], n) ELSE q[b]
  BY DEF Behind, Queues
<1> HIDE DEF r
<1>3. Line(skb, r) = [Line(skb, q) EXCEPT ![a] = Append(@, n)]
  BY <1>1, <1>2 DEF Line
<1> QED
  BY <1>3 DEF r, Behind

\* At most one packet is with a CPU, and none is requeued then.
PipeShape ==
  /\ \A c \in Cpu : Carries(c) => gso = NoSkb /\ Pipe = Line(cpu[c].skb, queue)
  /\ (\A c \in Cpu : ~Carries(c)) => Pipe = Line(gso, queue)
  /\ \A c, d \in Cpu : Carries(c) /\ Runs(d) => c = d

LEMMA PipeFact == IInv => PipeShape
<1> SUFFICES ASSUME IInv PROVE PipeShape
  OBVIOUS
<1>1. \A c \in Cpu : cpu[c].skb \in Skb /\ (c \in InHand <=> Carries(c))
  BY HereFact DEF InHand, Laden, Carries
<1>2. \A c \in Cpu : Carries(c) => Runs(c)
  BY HereFact DEF Carries, CarriesAt, Runs, RunsAt, ErrandAt
<1>3. \A c, d \in Cpu : Carries(c) /\ Runs(d) => c = d
  BY <1>2 DEF IInv, Running
<1>4. queue \in Queues /\ gso \in Skb
  BY DEF IInv, TypeOK
<1>5. ASSUME NEW c \in Cpu, Carries(c) PROVE gso = NoSkb /\ Pipe = Line(cpu[c].skb, queue)
  <2>1. InHand = {c}
    BY <1>1, <1>2, <1>3, <1>5 DEF InHand
  <2>2. With = cpu[c].skb
    BY <2>1 DEF With
  <2>3. gso = NoSkb
    BY <1>5 DEF IInv, Packets
  <2>4. \A b \in Band : Only(With, b) \o Only(gso, b) = Only(With, b)
    BY <1>1, <2>2, <2>3, OnlyFact, SkbFact, ConcatEmptySeq
  <2> QED
    BY <2>2, <2>3, <2>4 DEF Pipe, Line
<1>6. ASSUME \A c \in Cpu : ~Carries(c)
      PROVE  Pipe = Line(gso, queue)
  <2>1. With = NoSkb
    BY <1>1, <1>6 DEF InHand, With
  <2>2. \A b \in Band : Only(With, b) \o Only(gso, b) = Only(gso, b)
    BY <1>4, <2>1, OnlyFact, ConcatEmptySeq
  <2> QED
    BY <2>2 DEF Pipe, Line
<1> QED
  BY <1>3, <1>5, <1>6 DEF PipeShape

LEMMA PipeFactNext == IInv' => PipeShape'
<1> QED
  BY PipeFact, PTL

\* What CPU c has with it, if anything, stays with it.
KeepsLoad(c) ==
  /\ \A d \in Cpu : d # c => cpu'[d] = cpu[d]
  /\ Carries(c)' <=> Carries(c)
  /\ Carries(c) => cpu'[c].skb = cpu[c].skb

\* The packet that is out of the queues, if any, stays the same.
LEMMA LineKept ==
  ASSUME IInv, IInv', NEW c \in Cpu, KeepsLoad(c), UNCHANGED gso
  PROVE  \E skb \in Skb : Pipe = Line(skb, queue) /\ Pipe' = Line(skb, queue')
<1>1. PipeShape /\ PipeShape'
  BY PipeFact, PipeFactNext
<1>2. \A d \in Cpu : /\ Carries(d)' <=> Carries(d)
                     /\ Carries(d) => cpu'[d].skb = cpu[d].skb
  BY DEF KeepsLoad, Carries
<1>3. CASE \E d \in Cpu : Carries(d)
  <2>1. PICK d \in Cpu : Carries(d)
    BY <1>3
  <2>2. Pipe = Line(cpu[d].skb, queue) /\ Pipe' = Line(cpu'[d].skb, queue')
    BY <1>1, <1>2, <2>1 DEF PipeShape
  <2>3. cpu'[d].skb = cpu[d].skb /\ cpu[d].skb \in Skb
    BY <1>2, <2>1, HereFact
  <2> QED
    BY <2>2, <2>3
<1>4. CASE \A d \in Cpu : ~Carries(d)
  <2>1. Pipe = Line(gso, queue) /\ Pipe' = Line(gso, queue')
    BY <1>1, <1>2, <1>4 DEF PipeShape
  <2>2. gso \in Skb
    BY DEF IInv, TypeOK
  <2> QED
    BY <2>1, <2>2
<1> QED
  BY <1>3, <1>4

FifoKept == UNCHANGED <<accepted, Pipe, taken, dev.pc = "up">>

\* The steps that neither accept a packet nor hand one over.
LEMMA SendingKeepsPipe ==
  ASSUME IInv, IInv', NEW c \in Cpu,
         Send(c) \/ Direct(c) \/ BusyLock(c) \/ RootLock(c) \/ NothingToSend(c)
  PROVE  FifoKept
<1>1. KeepsLoad(c) /\ UNCHANGED <<queue, gso, accepted, taken, dev>>
  <2>1. TypeOK
    BY DEF IInv
  <2>2. CASE Send(c)
    BY <2>1, <2>2, SendDoes DEF Becomes, KeepsLoad, Carries, CarriesAt
  <2>3. CASE Direct(c)
    <3>1. cpu[c].pc = "direct" => cpu[c].via = "direct"
      BY HereFact DEF ErrandAt
    <3> QED
      BY <2>1, <2>3, <3>1, DirectDoes DEF Becomes, Goes, KeepsLoad, Carries, CarriesAt
  <2>4. CASE BusyLock(c)
    BY <2>1, <2>4, BusyLockDoes DEF Becomes, Goes, KeepsLoad, Carries, CarriesAt
  <2>5. CASE RootLock(c)
    BY <2>1, <2>5, RootLockDoes DEF Becomes, Goes, KeepsLoad, Carries, CarriesAt
  <2>6. CASE NothingToSend(c)
    BY <2>1, <2>6, NothingToSendDoes DEF Becomes, Goes, KeepsLoad, Carries, CarriesAt
  <2> QED
    BY <2>2, <2>3, <2>4, <2>5, <2>6
<1> QED
  BY <1>1, LineKept DEF FifoKept

LEMMA RunningKeepsPipe ==
  ASSUME IInv, IInv', NEW c \in Cpu, Hard(c) \/ Sent(c) \/ RunEnd(c) \/ Softirq(c)
  PROVE  FifoKept
<1>1. KeepsLoad(c) /\ UNCHANGED <<queue, gso, accepted, taken, dev>>
  <2>1. TypeOK
    BY DEF IInv
  <2>2. CASE Hard(c)
    BY <2>1, <2>2, HardDoes DEF Becomes, Goes, KeepsLoad, Carries, CarriesAt
  <2>3. CASE Sent(c)
    BY <2>1, <2>3, SentDoes DEF Becomes, Goes, KeepsLoad, Carries, CarriesAt
  <2>4. CASE RunEnd(c)
    BY <2>1, <2>4, RunEndDoes DEF Becomes, KeepsLoad, Carries, CarriesAt
  <2>5. CASE TxAction(c)
    BY <2>1, <2>5, TxActionDoes DEF Becomes, KeepsLoad, Carries, CarriesAt
  <2>6. CASE TryLock(c)
    BY <2>1, <2>6, TryLockDoes DEF Becomes, Goes, KeepsLoad, Carries, CarriesAt
  <2>7. CASE QdiscRun(c)
    BY <2>1, <2>7, QdiscRunDoes DEF Becomes, Goes, KeepsLoad, Carries, CarriesAt
  <2> QED
    BY <2>2, <2>3, <2>4, <2>5, <2>6, <2>7 DEF Softirq
<1> QED
  BY <1>1, LineKept DEF FifoKept

\* Nor do those that leave the CPUs and the queues alone.
LEMMA OthersKeepPipe ==
  ASSUME UNCHANGED <<cpu, queue, gso, accepted, taken>>, UNCHANGED (dev.pc = "up")
  PROVE  FifoKept
<1> QED
  BY DEF FifoKept, Pipe, With, InHand

\* A device that takes packets is up.
LEMMA OpenFact ==
  ASSUME IInv, NEW c \in Cpu, cpu[c].pc = "enqueue", ~deact
  PROVE  dev.pc = "up"
<1>1. cpu[c].via = "send"
  BY HereFact DEF ErrandAt
<1>2. kind # "none"
  BY <1>1 DEF IInv, Closing
<1> QED
  BY <1>2 DEF IInv, Closing

\* __dev_xmit_skb sends past the queue only when nothing is on its way.
LEMMA BypassAccepts ==
  ASSUME IInv, IInv', NEW c \in Cpu, Bypass(c)
  PROVE  \E b \in Band : Fifo!Accept(b)
<1>1. /\ ~running /\ Empty /\ ~deact /\ UNCHANGED <<queue, gso, taken, dev>>
      /\ accepted' = accepted + 1 /\ cpu[c].pc = "enqueue"
  BY BypassDoes DEF IInv
<1>2. PICK skb \in Skb : /\ skb # NoSkb /\ skb.n = accepted + 1
                        /\ Becomes(c, "hard", "bypass", skb, cpu[c].sent)
  BY BypassDoes DEF IInv
<1>3. queue \in Queues /\ gso = NoSkb /\ skb.band \in Band /\ queue[skb.band] = <<>>
  BY <1>1, <1>2, SkbFact DEF IInv, TypeOK, Empty
<1>4. \A d \in Cpu : ~Carries(d)
  <2>1. \A d \in Cpu : Carries(d) => Runs(d)
    BY HereFact DEF Carries, CarriesAt, Runs, RunsAt, ErrandAt
  <2> QED
    BY <1>1, <2>1 DEF IInv, Running
<1>5. Pipe = queue
  BY <1>3, <1>4, PipeFact, LineFact DEF PipeShape
<1>6. Carries(c)' /\ cpu'[c].skb = skb
  BY <1>2 DEF Becomes, Carries, CarriesAt
<1>7. Pipe' = Line(skb, queue)
  BY <1>1, <1>6, PipeFactNext DEF PipeShape
<1>8. Pipe' = [queue EXCEPT ![skb.band] = <<skb.n>> \o <<>>]
  <2>1. Line(skb, queue) = [queue EXCEPT ![skb.band] = <<skb.n>> \o queue[skb.band]]
    BY <1>2, <1>3, LineFact
  <2> QED
    BY <1>3, <1>7, <2>1
<1>9. <<skb.n>> \o <<>> = Append(<<>>, skb.n)
  <2> DEFINE n == skb.n
  <2>1. n \in Nat
    BY <1>2, SkbFact
  <2> HIDE DEF n
  <2>2. <<n>> \in Seq(Nat)
    BY <2>1
  <2>3. <<n>> \o <<>> = Append(<<>>, n)
    BY <2>2, ConcatEmptySeq
  <2> QED
    BY <2>3 DEF n
<1>10. Pipe' = [Pipe EXCEPT ![skb.band] = Append(@, accepted')]
  BY <1>1, <1>2, <1>3, <1>5, <1>8, <1>9
<1> QED
  BY <1>1, <1>3, <1>10, OpenFact DEF Fifo!Accept

\* Enqueueing puts the packet behind those of its band that are on their way.
LEMMA EnqueueAccepts ==
  ASSUME IInv, IInv', NEW c \in Cpu, Enqueue(c)
  PROVE  (\E b \in Band : Fifo!Accept(b)) \/ FifoKept
<1>1. /\ \/ UNCHANGED <<queue, accepted>>
         \/ /\ ~deact /\ accepted' = accepted + 1
            /\ \E b \in Band : queue' = [queue EXCEPT ![b] = Append(@, accepted + 1)]
      /\ cpu[c].pc = "enqueue" /\ UNCHANGED <<gso, taken, dev>>
  BY EnqueueDoes DEF IInv
<1>2. KeepsLoad(c)
  BY EnqueueDoes DEF IInv, Becomes, Goes, KeepsLoad, Carries, CarriesAt
<1>3. PICK skb \in Skb : Pipe = Line(skb, queue) /\ Pipe' = Line(skb, queue')
  BY <1>1, <1>2, LineKept
<1>4. CASE UNCHANGED <<queue, accepted>>
  BY <1>1, <1>3, <1>4 DEF FifoKept
<1>5. ASSUME ~deact, accepted' = accepted + 1, NEW b \in Band,
             queue' = [queue EXCEPT ![b] = Append(@, accepted + 1)]
      PROVE  Fifo!Accept(b)
  <2>1. accepted + 1 \in Nat \ {0} /\ queue \in Queues
    BY DEF IInv, TypeOK
  <2>2. Pipe' = [Pipe EXCEPT ![b] = Append(@, accepted + 1)]
    <3> DEFINE n == accepted + 1
    <3>1. n \in Nat \ {0}
      BY <2>1
    <3>2. queue' = Behind(queue, b, n)
      BY <1>5 DEF Behind
    <3> HIDE DEF n
    <3>3. Line(skb, Behind(queue, b, n)) = Behind(Line(skb, queue), b, n)
      BY <1>3, <2>1, <3>1, LineBehind
    <3>4. Pipe' = [Pipe EXCEPT ![b] = Append(@, n)]
      BY <1>3, <3>2, <3>3, Zenon DEF Behind
    <3> QED
      BY <3>4 DEF n
  <2> QED
    BY <1>1, <1>5, <2>2, OpenFact DEF Fifo!Accept
<1> QED
  BY <1>1, <1>4, <1>5

\* dequeue_skb hands the CPU the first packet of a band: the requeued one first.
LEMMA RestartKeepsPipe ==
  ASSUME IInv, IInv', NEW c \in Cpu, Restart(c)
  PROVE  FifoKept
<1>1. cpu[c].pc = "restart" /\ UNCHANGED <<accepted, taken, dev>>
  BY RestartDoes DEF IInv
<1>2. PICK skb \in Skb : /\ skb # NoSkb /\ TakesOut(skb)
                        /\ Becomes(c, "hard", cpu[c].via, skb, cpu[c].sent)
  BY RestartDoes DEF IInv
<1>3. Runs(c) /\ ~Carries(c)
  BY <1>1, HereFact DEF Runs, RunsAt, ErrandAt, Carries, CarriesAt
<1>4. \A d \in Cpu : ~Carries(d)
  BY <1>3, PipeFact DEF PipeShape
<1>5. Pipe = Line(gso, queue)
  BY <1>4, PipeFact DEF PipeShape
<1>6. Carries(c)' /\ cpu'[c].skb = skb
  BY <1>1, <1>2, <1>3 DEF Becomes, Runs, RunsAt, Carries, CarriesAt
<1>7. Pipe' = Line(skb, queue')
  BY <1>6, PipeFactNext DEF PipeShape
<1>8. queue \in Queues /\ queue' \in Queues /\ skb.band \in Band
  BY <1>2, SkbFact DEF IInv, TypeOK
<1>9. Pipe' = Pipe
  <2>1. CASE gso # NoSkb
    BY <1>2, <1>5, <1>7, <2>1 DEF TakesOut
  <2>2. CASE gso = NoSkb
    <3> DEFINE a == skb.band
               q == queue[a]
    <3>1. /\ q # <<>> /\ skb.n = Head(q) /\ queue' = [queue EXCEPT ![a] = Tail(q)]
      BY <1>2, <2>2 DEF TakesOut
    <3>2. q \in Seq(Nat \ {0}) /\ Head(q) \in Nat \ {0}
      BY <1>8, <3>1, QueuesFact, QueueFact
    <3>3. <<skb.n>> \o Tail(q) = q
      BY <3>1, <3>2, PushFact
    <3>4. Pipe' = [queue' EXCEPT ![a] = <<skb.n>> \o @]
      BY <1>2, <1>7, <1>8, LineFact
    <3>5. queue = [b \in Band |-> queue[b]] /\ a \in Band
      BY <1>8 DEF Queues
    <3>6. Pipe' = queue
      BY <3>1, <3>3, <3>4, <3>5
    <3>7. Pipe = queue
      BY <1>5, <1>8, <2>2, LineFact
    <3> QED
      BY <3>6, <3>7
  <2> QED
    BY <2>1, <2>2
<1> QED
  BY <1>1, <1>9 DEF FifoKept

\* dev_requeue_skb puts the packet back before the others.
LEMMA RefusedKeepsPipe ==
  ASSUME IInv, IInv', NEW c \in Cpu, Refused(c)
  PROVE  FifoKept
<1>1. /\ cpu[c].pc = "result" /\ ~cpu[c].sent /\ gso' = cpu[c].skb
      /\ Becomes(c, "end", cpu[c].via, NoSkb, cpu[c].sent)
      /\ UNCHANGED <<queue, accepted, taken, dev>>
  BY RefusedDoes DEF IInv
<1>2. Carries(c) /\ Runs(c)
  BY <1>1, HereFact DEF Runs, RunsAt, ErrandAt, Carries, CarriesAt, Laden
<1>3. Pipe = Line(cpu[c].skb, queue)
  BY <1>2, PipeFact DEF PipeShape
<1>4. \A d \in Cpu : ~Carries(d)'
  <2>1. ~Carries(c)'
    BY <1>1 DEF Becomes, Carries, CarriesAt
  <2>2. \A d \in Cpu : d # c => (Carries(d)' <=> Carries(d))
    BY <1>1 DEF Becomes, Carries
  <2>3. \A d \in Cpu : Carries(d) => d = c
    BY <1>2, PipeFact DEF PipeShape
  <2> QED
    BY <2>1, <2>2, <2>3
<1>5. Pipe' = Line(gso', queue')
  BY <1>4, PipeFactNext DEF PipeShape
<1> QED
  BY <1>1, <1>3, <1>5 DEF FifoKept

\* The driver takes the first packet of a band, or none.
LEMMA DriverTakes ==
  ASSUME IInv, IInv', NEW c \in Cpu, Driver(c)
  PROVE  (\E b \in Band : Fifo!Take(b)) \/ FifoKept
<1>1. /\ cpu[c].pc = "driver" /\ UNCHANGED <<queue, gso, accepted, dev>>
      /\ \/ /\ cpu[c].via = "direct" /\ Becomes(c, "idle", "none", NoSkb, FALSE)
            /\ UNCHANGED taken
         \/ /\ cpu[c].via # "direct" /\ taken' = cpu[c].skb.n
            /\ Becomes(c, "relock", cpu[c].via, cpu[c].skb, TRUE)
         \/ /\ cpu[c].via # "direct" /\ UNCHANGED taken
            /\ Becomes(c, "relock", cpu[c].via, cpu[c].skb, FALSE)
  BY DriverDoes DEF IInv
<1>2. CASE cpu[c].via = "direct" /\ Becomes(c, "idle", "none", NoSkb, FALSE) /\ UNCHANGED taken
  <2>1. KeepsLoad(c)
    BY <1>1, <1>2 DEF KeepsLoad, Becomes, Carries, CarriesAt
  <2> QED
    BY <1>1, <1>2, <2>1, LineKept DEF FifoKept
<1>3. CASE /\ cpu[c].via # "direct" /\ UNCHANGED taken
           /\ Becomes(c, "relock", cpu[c].via, cpu[c].skb, FALSE)
  <2>1. KeepsLoad(c)
    BY <1>1, <1>3 DEF KeepsLoad, Becomes, Carries, CarriesAt
  <2> QED
    BY <1>1, <1>3, <2>1, LineKept DEF FifoKept
<1>4. CASE /\ cpu[c].via # "direct" /\ taken' = cpu[c].skb.n
           /\ Becomes(c, "relock", cpu[c].via, cpu[c].skb, TRUE)
  <2>1. Carries(c) /\ Runs(c)
    BY <1>1, <1>4 DEF Carries, CarriesAt, Runs, RunsAt
  <2> DEFINE skb == cpu[c].skb
  <2>2. /\ gso = NoSkb /\ Pipe = Line(skb, queue)
        /\ skb \in Skb /\ skb # NoSkb /\ queue \in Queues
    BY <2>1, PipeFact, HereFact DEF PipeShape, Laden, Carries
  <2>3. \A d \in Cpu : ~Carries(d)'
    <3>1. ~Carries(c)'
      BY <1>4 DEF Becomes, Carries, CarriesAt
    <3>2. \A d \in Cpu : d # c => (Carries(d)' <=> Carries(d))
      BY <1>4 DEF Becomes, Carries
    <3>3. \A d \in Cpu : Carries(d) => d = c
      BY <2>1, PipeFact DEF PipeShape
    <3> QED
      BY <3>1, <3>2, <3>3
  <2>4. Pipe' = Line(NoSkb, queue)
    BY <1>1, <2>2, <2>3, PipeFactNext DEF PipeShape
  <2> HIDE DEF skb
  <2>5. /\ skb.band \in Band /\ Pipe[skb.band] # <<>> /\ Head(Pipe[skb.band]) = skb.n
        /\ Pipe' = [Pipe EXCEPT ![skb.band] = Tail(@)]
    <3>1. Pipe' = queue /\ skb.band \in Band
      BY <2>2, <2>4, LineFact, SkbFact
    <3>2. /\ Line(skb, queue)[skb.band] # <<>> /\ Head(Line(skb, queue)[skb.band]) = skb.n
          /\ [Line(skb, queue) EXCEPT ![skb.band] = Tail(@)] = queue
      BY <2>2, LineFact
    <3> QED
      BY <2>2, <3>1, <3>2, Zenon
  <2>6. taken' = skb.n
    BY <1>4 DEF skb
  <2> QED
    BY <1>1, <2>5, <2>6 DEF Fifo!Take
<1> QED
  BY <1>1, <1>2, <1>3, <1>4

\* dev_deactivate_queue loses what is queued, but not what the driver has in hand.
LEMMA DeactivateCloses ==
  ASSUME IInv, IInv', Deactivate
  PROVE  Fifo!Close
<1>1. /\ queue' = Drained /\ gso' = NoSkb /\ UNCHANGED <<cpu, accepted, taken>>
      /\ dev.pc = "up" /\ dev'.pc # "up"
  BY DEF Deactivate, Drained
<1>2. \A d \in Cpu : Carries(d)' <=> Carries(d)
  BY <1>1 DEF Carries
<1>3. PipeShape /\ PipeShape' /\ queue \in Queues /\ Drained \in Queues /\ NoSkb \in Skb
  BY PipeFact, PipeFactNext, SkbFact DEF IInv, TypeOK, Queues, Drained
<1>4. Pipe' = Drained \/ \E b \in Band : Pipe[b] # <<>> /\ Pipe' = Fifo!Survives(b)
  <2>1. CASE \E d \in Cpu : Carries(d)
    <3>1. PICK d \in Cpu : Carries(d)
      BY <2>1
    <3> DEFINE skb == cpu[d].skb
    <3>2. /\ Pipe = Line(skb, queue) /\ Pipe' = Line(skb, Drained)
          /\ skb \in Skb /\ skb # NoSkb
      BY <1>1, <1>2, <1>3, <3>1, HereFact DEF PipeShape, Laden, Carries
    <3> HIDE DEF skb
    <3> DEFINE a == skb.band
               n == skb.n
    <3>3. a \in Band /\ n \in Nat /\ Pipe[a] # <<>> /\ Head(Pipe[a]) = n
      BY <1>3, <3>2, LineFact, SkbFact
    <3>4. Pipe' = [Drained EXCEPT ![a] = <<n>> \o @]
      BY <1>3, <3>2, LineFact
    <3> HIDE DEF a, n
    <3>5. <<n>> \o <<>> = <<n>>
      <4>1. <<n>> \in Seq(Nat)
        BY <3>3
      <4> QED
        BY <4>1, ConcatEmptySeq
    <3>6. Pipe' = [b \in Band |-> IF b = a THEN <<n>> ELSE <<>>]
      BY <3>3, <3>4, <3>5 DEF Drained
    <3> QED
      BY <3>3, <3>6 DEF Fifo!Survives
  <2>2. CASE \A d \in Cpu : ~Carries(d)
    BY <1>1, <1>2, <1>3, <2>2, LineFact DEF PipeShape
  <2> QED
    BY <2>1, <2>2
<1> QED
  BY <1>1, <1>4 DEF Fifo!Close, Drained

LEMMA NextIsFifo == IInv /\ IInv' /\ [Next]_vars => [Fifo!Next]_Fifo!vars
<1> SUFFICES ASSUME IInv, IInv', [Next]_vars PROVE [Fifo!Next]_Fifo!vars
  OBVIOUS
<1>1. ASSUME UNCHANGED vars PROVE FifoKept
  BY <1>1, OthersKeepPipe DEF vars
<1>2. ASSUME NEW c \in Cpu, Send(c) \/ Xmit(c) \/ Softirq(c)
      PROVE  (\E b \in Band : Fifo!Accept(b) \/ Fifo!Take(b)) \/ FifoKept
  BY <1>2, SendingKeepsPipe, RunningKeepsPipe, BypassAccepts, EnqueueAccepts,
     RestartKeepsPipe, RefusedKeepsPipe, DriverTakes DEF Xmit
<1>3. ASSUME NEW c \in Cpu, Interrupt(c) PROVE FifoKept
  BY <1>3, OthersKeepPipe DEF Interrupt, WakeQueue, HtbWatchdog, WatchdogDone
<1>4. ASSUME NEW c \in Cpu, NEW d \in Cpu, Offline(c, d) PROVE FifoKept
  BY <1>4, OthersKeepPipe DEF Offline
<1>5. ASSUME Watchdog \/ Synchronized \/ Stop PROVE FifoKept
  <2>1. UNCHANGED <<cpu, queue, gso, accepted, taken>>
    BY <1>5 DEF Watchdog, Synchronized, Stop
  <2>2. dev \in DevState
    BY DEF IInv, TypeOK
  <2>3. UNCHANGED (dev.pc = "up")
    BY <1>5, <2>2 DEF Watchdog, Synchronized, Stop, DevState
  <2> QED
    BY <2>1, <2>3, OthersKeepPipe
<1>6. ASSUME Open PROVE Fifo!Open
  <2>1. UNCHANGED <<cpu, queue, gso, accepted, taken>> /\ dev.pc = "down" /\ dev'.pc = "up"
    BY <1>6 DEF Open, IInv, TypeOK, DevState
  <2>2. Pipe' = Pipe
    BY <2>1 DEF Pipe, With, InHand
  <2> QED
    BY <2>1, <2>2 DEF Fifo!Open
<1>7. (\E b \in Band : Fifo!Accept(b) \/ Fifo!Take(b)) \/ Fifo!Close \/ Fifo!Open \/ FifoKept
  BY <1>1, <1>2, <1>3, <1>4, <1>5, <1>6, DeactivateCloses, Zenon DEF Next
<1> QED
  BY <1>7 DEF FifoKept, Fifo!Next, Fifo!vars

\* The device with a queue is the link that FifoLink promises: whatever CPU runs
\* the queue, whether a packet is sent past it, or refused and requeued, those of a
\* band are handed over in the order of acceptance, and only a close loses any.
THEOREM AlwaysFifo == Spec => IsFifo
<1>1. Init => Fifo!Init
  <2> SUFFICES ASSUME Init PROVE Fifo!Init
    OBVIOUS
  <2>1. Pipe = queue
    <3>1. IInv /\ \A c \in Cpu : ~Carries(c)
      BY InitIInv DEF Init, Idle, Carries, CarriesAt
    <3>2. gso = NoSkb /\ queue \in Queues
      BY <3>1 DEF Init, IInv, TypeOK
    <3> QED
      BY <3>1, <3>2, PipeFact, LineFact, SkbFact DEF PipeShape
  <2>2. (dev.pc = "up") = TRUE
    BY DEF Init
  <2> QED
    BY <2>1, <2>2 DEF Init, Fifo!Init
<1> QED
  BY <1>1, InitIInv, NextKeepsIInv, NextIsFifo, PTL DEF Spec, IsFifo, Fifo!Spec

----------------------------------------------------------------------------
(* Receive.  The inductive invariant says on which list a backlog is       *)
(* (Listed), how many packets it has seen (Tallied), between which CPUs    *)
(* they are handed over (Handed), what is left when a CPU or the device    *)
(* goes away (Leaving), and where the flow is (Lined).                     *)

\* No element occurs twice.
Once(q) == \A i, j \in DOMAIN q : q[i] = q[j] => i = j

\* Whoever is in S and not in L is on one of the lists P[c] and I[c] or in F.
Listing(P, I, F, S, L) ==
  /\ \A s, c, d \in Cpu : s \in P[c] /\ s \in P[d] => c = d
  /\ \A s, c, d \in Cpu : s \in I[c] /\ s \in I[d] => c = d
  /\ \A s, c, d \in Cpu : s \in P[c] => s \notin I[d] /\ s \notin F
  /\ \A s, c \in Cpu : s \in I[c] => s \notin F
  /\ \A s \in Cpu : s \in S /\ s \notin L =>
                      s \in F \/ \E c \in Cpu : s \in P[c] \/ s \in I[c]
  /\ \A s, c \in Cpu : s \in P[c] \/ s \in I[c] \/ s \in F => s \in S /\ s \notin L
  /\ L \subseteq S

Polled == [c \in Cpu |-> Range(polls[c])]

Delivers(c, s) == action[c].pc = "deliver" /\ action[c].of = s

\* Each backlog that is scheduled is on one list, and a CPU polls the first of its own.
Listed ==
  /\ Listing(Polled, ipis, flying, scheduled, lost)
  /\ \A c \in Cpu : Once(polls[c])
  /\ \A c \in Cpu : action[c].pc \in {"loop", "deliver"} =>
                      polls[c] # <<>> /\ action[c].of = Head(polls[c])

\* input_queue_tail counts what was queued, input_queue_head what has left.
Tallied ==
  \A s \in Cpu :
    /\ tail[s] = head[s] + Len(input[s]) + Len(process[s])
                 + (IF \E c \in Cpu : Delivers(c, s) THEN 1 ELSE 0)
    /\ s \in online /\ (input[s] # <<>> \/ process[s] # <<>>) => s \in scheduled

\* Packets are handed over between CPUs that are online.
Handed ==
  /\ arrival = NoArrival \/ (arrival.on \in online /\ arrival.to \in online)
  /\ unplug.dead # NoCpu => unplug.on \in online /\ unplug.dead \in Cpu \ online
  /\ online = Cpu => unplug.dead = NoCpu

Bare(c) == input[c] = <<>> /\ process[c] = <<>>

\* What is left of a device on its way out.
Leaving ==
  /\ \A c \in Cpu \ online : c # unplug.dead => Bare(c)
  /\ device.pc = "up" => device.flushed = {}
  /\ device.pc = "flushing" /\ device.calm =>
       arrival = NoArrival /\ unplug.dead = NoCpu /\ \A c \in device.flushed : Bare(c)
  /\ device.pc = "gone" /\ device.calm => arrival = NoArrival /\ \A c \in Cpu : Bare(c)

\* The CPU on which the flow is queued, the last packet that was, and what is.
Home == IF steering = "rps" THEN MapCpu ELSE rflow.cpu
Latest == IF arrival = NoArrival THEN arrived ELSE arrived - 1
Backlog(c) == process[c] \o input[c]

Ascending(low, q, high) ==
  /\ \A i \in DOMAIN q : low <= q[i] /\ q[i] <= high
  /\ \A i, j \in DOMAIN q : i < j => q[i] <= q[j]

\* The flow is in one place, and in order there.
Lined ==
  /\ steering # "none" /\ online = Cpu /\ unplug.dead = NoCpu
  /\ \A c \in Cpu : c # Home => Bare(c)
  /\ steering = "rfs" /\ Home \in Cpu => tail[Home] <= rflow.qtail
  /\ arrival # NoArrival => /\ arrival.skb = arrived
                            /\ steering = "rps" => ~arrival.tracked
                            /\ steering = "rps" \/ arrival.tracked => arrival.to = Home
  /\ got <= Latest
  /\ \A c \in Cpu : Ascending(got, Backlog(c), Latest)
  /\ \A c, s \in Cpu : Delivers(c, s) =>
       /\ s = Home /\ got <= action[c].skb /\ action[c].skb <= Latest
       /\ Ascending(action[c].skb, Backlog(s), Latest)

RxInv == RxTypeOK /\ Listed /\ Tallied /\ Handed /\ Leaving /\ (~astray => Lined)

----------------------------------------------------------------------------
(* Sequences.                                                              *)

LEMMA RangeAppend ==
  ASSUME NEW S, NEW q \in Seq(S), NEW x \in S
  PROVE  /\ Append(q, x) \in Seq(S)
         /\ Range(Append(q, x)) = Range(q) \cup {x}
         /\ Once(q) /\ x \notin Range(q) => Once(Append(q, x))
         /\ q # <<>> => Head(Append(q, x)) = Head(q)
<1> DEFINE r == Append(q, x)
           n == Len(q)
<1>1. /\ r \in Seq(S) /\ Len(r) = n + 1 /\ r[n + 1] = x
      /\ \A i \in 1 .. n : r[i] = q[i]
  BY AppendProperties
<1>2. n \in Nat /\ DOMAIN q = 1 .. n /\ DOMAIN r = 1 .. n + 1
  BY <1>1, LenProperties
<1>3. Head(r) = IF q = <<>> THEN x ELSE Head(q)
  BY HeadTailAppend
<1> HIDE DEF r, n
<1>4. Range(r) = Range(q) \cup {x}
  BY <1>1, <1>2 DEF Range
<1>5. Once(q) /\ x \notin Range(q) => Once(r)
  BY <1>1, <1>2 DEF Range, Once
<1> QED
  BY <1>1, <1>3, <1>4, <1>5 DEF r

LEMMA RangeTail ==
  ASSUME NEW S, NEW q \in Seq(S), q # <<>>
  PROVE  /\ Head(q) \in S /\ Tail(q) \in Seq(S)
         /\ Range(q) = Range(Tail(q)) \cup {Head(q)}
         /\ Once(q) => Once(Tail(q)) /\ Head(q) \notin Range(Tail(q))
<1> DEFINE r == Tail(q)
           n == Len(r)
<1>1. /\ Head(q) \in S /\ r \in Seq(S) /\ Len(q) = n + 1
      /\ \A i \in 1 .. n : r[i] = q[i + 1]
  BY HeadTailProperties, LenProperties
<1>2. n \in Nat /\ DOMAIN r = 1 .. n /\ DOMAIN q = 1 .. n + 1 /\ Head(q) = q[1]
  BY <1>1, LenProperties
<1> HIDE DEF r, n
<1>3. \A j \in 1 .. n + 1 : j = 1 \/ (j - 1 \in 1 .. n /\ (j - 1) + 1 = j)
  BY <1>2
<1>4. \A i \in 1 .. n : i + 1 \in 1 .. n + 1 /\ i + 1 # 1
  BY <1>2
<1>5. 1 \in 1 .. n + 1
  BY <1>2
<1>6. Range(q) = Range(r) \cup {Head(q)}
  <2>1. Range(r) \subseteq Range(q) /\ Head(q) \in Range(q)
    <3>1. Head(q) \in Range(q)
      BY <1>2, <1>5, Zenon DEF Range
    <3>2. \A i \in 1 .. n : r[i] = q[i + 1] /\ i + 1 \in DOMAIN q
      BY <1>1, <1>2, <1>4, Zenon
    <3>3. Range(r) \subseteq Range(q)
      <4> SUFFICES ASSUME NEW i \in 1 .. n
                   PROVE  r[i] \in Range(q)
        BY <1>2, Zenon DEF Range
      <4> QED
        BY <3>2, Zenon DEF Range
    <3> QED
      BY <3>1, <3>3
  <2>2. \A j \in 1 .. n + 1 : j # 1 => q[j] = r[j - 1] /\ j - 1 \in 1 .. n
    BY <1>1, <1>3
  <2>3. \A j \in 1 .. n + 1 : q[j] \in Range(r) \cup {Head(q)}
    BY <1>2, <2>2 DEF Range
  <2> QED
    BY <1>2, <2>1, <2>3 DEF Range
<1>7. Once(q) => Once(r)
  <2>1. \A i, j \in 1 .. n : i + 1 = j + 1 => i = j
    BY <1>2
  <2> QED
    BY <1>1, <1>2, <1>4, <2>1, SMTT(60) DEF Once
<1>8. Once(q) => Head(q) \notin Range(r)
  BY <1>1, <1>2, <1>4, <1>5, SMTT(60) DEF Once, Range
<1> QED
  BY <1>1, <1>6, <1>7, <1>8 DEF r

LEMMA RangeRotate ==
  ASSUME NEW S, NEW q \in Seq(S), q # <<>>, Once(q)
  PROVE  LET r == Append(Tail(q), Head(q))
         IN  r \in Seq(S) /\ Range(r) = Range(q) /\ Once(r)
<1> DEFINE h == Head(q)
           t == Tail(q)
<1>1. h \in S /\ t \in Seq(S) /\ Range(q) = Range(t) \cup {h} /\ Once(t) /\ h \notin Range(t)
  BY RangeTail
<1> HIDE DEF h, t
<1>2. Append(t, h) \in Seq(S) /\ Range(Append(t, h)) = Range(t) \cup {h} /\ Once(Append(t, h))
  BY <1>1, RangeAppend
<1> QED
  BY <1>1, <1>2 DEF h, t

LEMMA RangeConcat ==
  ASSUME NEW S, NEW p \in Seq(S), NEW q \in Seq(S), Once(p), Once(q), Range(p) \cap Range(q) = {}
  PROVE  p \o q \in Seq(S) /\ Range(p \o q) = Range(p) \cup Range(q) /\ Once(p \o q)
<1> DEFINE r == p \o q
           m == Len(p)
           n == Len(q)
<1>1. /\ r \in Seq(S) /\ Len(r) = m + n
      /\ \A i \in 1 .. m + n : r[i] = IF i <= m THEN p[i] ELSE q[i - m]
  BY ConcatProperties
<1>2. /\ m \in Nat /\ n \in Nat /\ DOMAIN p = 1 .. m /\ DOMAIN q = 1 .. n
      /\ DOMAIN r = 1 .. m + n
  BY <1>1, LenProperties
<1> HIDE DEF r, m, n
<1>3. \A i \in 1 .. m + n : \/ i \in 1 .. m /\ r[i] = p[i] /\ r[i] \in Range(p)
                            \/ i - m \in 1 .. n /\ r[i] = q[i - m] /\ r[i] \in Range(q)
  <2> SUFFICES ASSUME NEW i \in 1 .. m + n
               PROVE  \/ i \in 1 .. m /\ r[i] = p[i] /\ r[i] \in Range(p)
                      \/ i - m \in 1 .. n /\ r[i] = q[i - m] /\ r[i] \in Range(q)
    OBVIOUS
  <2>1. CASE i <= m
    <3>1. i \in 1 .. m /\ r[i] = p[i]
      BY <1>1, <1>2, <2>1
    <3> QED
      BY <1>2, <3>1 DEF Range
  <2>2. CASE i > m
    <3>1. i - m \in 1 .. n /\ r[i] = q[i - m]
      BY <1>1, <1>2, <2>2
    <3> QED
      BY <1>2, <3>1 DEF Range
  <2> QED
    BY <1>2, <2>1, <2>2
<1>4. Once(r)
  <2> SUFFICES ASSUME NEW i \in 1 .. m + n, NEW j \in 1 .. m + n, r[i] = r[j]
               PROVE  i = j
    BY <1>2 DEF Once
  <2>1. CASE r[i] \in Range(p)
    <3>1. r[i] = p[i] /\ r[j] = p[j] /\ i \in 1 .. m /\ j \in 1 .. m
      BY <1>3, <2>1
    <3> QED
      BY <1>2, <3>1 DEF Once
  <2>2. CASE r[i] \in Range(q)
    <3>1. r[i] = q[i - m] /\ r[j] = q[j - m] /\ i - m \in 1 .. n /\ j - m \in 1 .. n
      BY <1>3, <2>2
    <3>2. i - m = j - m
      BY <1>2, <3>1 DEF Once
    <3> QED
      BY <1>2, <3>2
  <2> QED
    BY <1>3, <2>1, <2>2
<1> QED
  BY <1>1, <1>4, RangeConcatenation DEF r

\* What ascends goes on to ascend when it loses its head or gains a last.
LEMMA AscendingNone == \A low, high : Ascending(low, <<>>, high)
BY DEF Ascending

LEMMA AscendingWider ==
  ASSUME NEW q \in Seq(Nat), NEW low \in Nat, NEW high \in Nat, Ascending(low, q, high),
         NEW under \in Nat, NEW over \in Nat, under <= low, high <= over
  PROVE  Ascending(under, q, over)
<1>1. \A i \in DOMAIN q : q[i] \in Nat
  BY ElementOfSeq, LenProperties
<1> QED
  BY <1>1 DEF Ascending

LEMMA AscendingTail ==
  ASSUME NEW q \in Seq(Nat), NEW low \in Nat, NEW high \in Nat, Ascending(low, q, high), q # <<>>
  PROVE  /\ Head(q) \in Nat /\ low <= Head(q) /\ Head(q) <= high
         /\ Ascending(Head(q), Tail(q), high)
<1> DEFINE r == Tail(q)
           n == Len(r)
<1>1. /\ Head(q) \in Nat /\ r \in Seq(Nat) /\ Len(q) = n + 1
      /\ \A i \in 1 .. n : r[i] = q[i + 1]
  BY HeadTailProperties, LenProperties
<1>2. n \in Nat /\ DOMAIN r = 1 .. n /\ DOMAIN q = 1 .. n + 1 /\ Head(q) = q[1]
  BY <1>1, LenProperties
<1> HIDE DEF r, n
<1>3. 1 \in 1 .. n + 1 /\ \A i \in 1 .. n : i + 1 \in 1 .. n + 1 /\ 1 < i + 1
  BY <1>2
<1>4. \A i, j \in 1 .. n : i < j => i + 1 < j + 1
  BY <1>2
<1> QED
  BY <1>1, <1>2, <1>3, <1>4, ZenonT(60) DEF Ascending, r

LEMMA AscendingAppend ==
  ASSUME NEW q \in Seq(Nat), NEW low \in Nat, NEW high \in Nat, Ascending(low, q, high),
         NEW x \in Nat, high <= x, low <= x
  PROVE  Ascending(low, Append(q, x), x)
<1> DEFINE r == Append(q, x)
           n == Len(q)
<1>1. /\ r \in Seq(Nat) /\ Len(r) = n + 1 /\ r[n + 1] = x
      /\ \A i \in 1 .. n : r[i] = q[i]
  BY AppendProperties
<1>2. n \in Nat /\ DOMAIN q = 1 .. n /\ DOMAIN r = 1 .. n + 1
  BY <1>1, LenProperties
<1>3. \A i \in 1 .. n : q[i] \in Nat
  BY ElementOfSeq
<1> HIDE DEF r, n
<1>4. \A i \in 1 .. n + 1 : i \in 1 .. n \/ i = n + 1
  BY <1>2
<1>5. \A i, j \in 1 .. n + 1 : i < j => i \in 1 .. n
  BY <1>2
<1>6. \A i \in 1 .. n + 1 : low <= r[i] /\ r[i] <= x
  BY <1>1, <1>2, <1>3, <1>4, SMTT(60) DEF Ascending
<1>7. \A i, j \in 1 .. n + 1 : i < j => r[i] <= r[j]
  <2> SUFFICES ASSUME NEW i \in 1 .. n + 1, NEW j \in 1 .. n + 1, i < j
               PROVE  r[i] <= r[j]
    OBVIOUS
  <2>1. CASE j = n + 1
    BY <1>1, <1>6, <2>1
  <2>2. CASE j \in 1 .. n
    BY <1>1, <1>2, <1>5, <2>2 DEF Ascending
  <2> QED
    BY <1>4, <2>1, <2>2
<1> QED
  BY <1>2, <1>6, <1>7 DEF Ascending, r

\* The backlog of a CPU is one queue in two parts.
LEMMA BacklogGains ==
  \A p, q \in Seq(Nat), x \in Nat : p \o Append(q, x) = Append(p \o q, x)
<1> SUFFICES ASSUME NEW p \in Seq(Nat), NEW q \in Seq(Nat), NEW x \in Nat
             PROVE  p \o Append(q, x) = Append(p \o q, x)
  OBVIOUS
<1>1. /\ <<x>> \in Seq(Nat) /\ p \o q \in Seq(Nat)
      /\ Append(q, x) = q \o <<x>> /\ Append(p \o q, x) = (p \o q) \o <<x>>
  BY AppendIsConcat, ConcatProperties
<1> QED
  BY <1>1, ConcatAssociative

LEMMA QueueGains ==
  ASSUME NEW S, NEW q \in Seq(S), NEW x \in S
  PROVE  Append(q, x) \in Seq(S) /\ Append(q, x) # <<>> /\ Len(Append(q, x)) = Len(q) + 1
BY AppendProperties

LEMMA BacklogLoses ==
  ASSUME NEW S, NEW p \in Seq(S), NEW q \in Seq(S), p # <<>>
  PROVE  /\ p \o q \in Seq(S) /\ p \o q # <<>>
         /\ Head(p \o q) = Head(p) /\ Tail(p \o q) = Tail(p) \o q
<1> DEFINE r == p \o q
           m == Len(p)
           n == Len(q)
           t == Tail(p)
           u == t \o q
<1>1. /\ r \in Seq(S) /\ Len(r) = m + n
      /\ \A i \in 1 .. m + n : r[i] = IF i <= m THEN p[i] ELSE q[i - m]
  BY ConcatProperties
<1>2. /\ t \in Seq(S) /\ Len(t) = m - 1 /\ Head(p) = p[1]
      /\ \A i \in 1 .. m - 1 : t[i] = p[i + 1]
  BY HeadTailProperties
<1>3. m \in Nat /\ n \in Nat /\ m > 0
  BY EmptySeq, LenProperties
<1>4. /\ u \in Seq(S) /\ Len(u) = (m - 1) + n
      /\ \A i \in 1 .. (m - 1) + n : u[i] = IF i <= m - 1 THEN t[i] ELSE q[i - (m - 1)]
  BY <1>2, ConcatProperties
<1>5. r # <<>>
  BY <1>1, <1>3
<1>6. /\ Tail(r) \in Seq(S) /\ Len(Tail(r)) = (m + n) - 1 /\ Head(r) = r[1]
      /\ \A i \in 1 .. (m + n) - 1 : Tail(r)[i] = r[i + 1]
  BY <1>1, <1>5, HeadTailProperties
<1> HIDE DEF r, m, n, t, u
<1>7. Head(r) = Head(p)
  BY <1>1, <1>2, <1>3, <1>6
<1>8. \A i \in 1 .. (m + n) - 1 : Tail(r)[i] = u[i]
  <2> SUFFICES ASSUME NEW i \in 1 .. (m + n) - 1
               PROVE  r[i + 1] = u[i]
    BY <1>6
  <2>1. /\ i + 1 \in 1 .. m + n /\ i \in 1 .. (m - 1) + n /\ (i + 1) - m = i - (m - 1)
        /\ i + 1 <= m <=> i <= m - 1
    BY <1>3
  <2>2. CASE i <= m - 1
    <3>1. r[i + 1] = p[i + 1] /\ u[i] = t[i]
      BY <1>1, <1>4, <2>1, <2>2
    <3>2. i \in 1 .. m - 1
      BY <1>3, <2>2
    <3> QED
      BY <1>2, <3>1, <3>2
  <2>3. CASE ~(i <= m - 1)
    <3>1. r[i + 1] = q[(i + 1) - m] /\ u[i] = q[i - (m - 1)]
      BY <1>1, <1>4, <2>1, <2>3
    <3> QED
      BY <2>1, <3>1
  <2> QED
    BY <2>2, <2>3
<1>9. Tail(r) = u
  BY <1>3, <1>4, <1>6, <1>8, SeqEqual
<1> QED
  BY <1>1, <1>5, <1>7, <1>9 DEF r, t, u

----------------------------------------------------------------------------
(* The lists, as sets.                                                     *)

Lists == [Cpu -> SUBSET Cpu]

LEMMA PolledFact == RxTypeOK => Polled \in Lists /\ ipis \in Lists
<1> SUFFICES ASSUME RxTypeOK, NEW c \in Cpu
             PROVE  Range(polls[c]) \subseteq Cpu /\ ipis[c] \subseteq Cpu
  BY DEF Polled, Lists, RxTypeOK
<1> QED
  BY RangeOfSeq DEF RxTypeOK

LEMMA PolledBecomes ==
  ASSUME RxTypeOK, NEW c \in Cpu, NEW q, polls' = [polls EXCEPT ![c] = q]
  PROVE  Polled' = [Polled EXCEPT ![c] = Range(q)]
<1>1. polls' = [d \in Cpu |-> IF d = c THEN q ELSE polls[d]]
  BY DEF RxTypeOK
<1> QED
  BY <1>1 DEF Polled

\* ____napi_schedule
LEMMA ListingSchedules ==
  ASSUME NEW P \in Lists, NEW I \in Lists, NEW F, NEW S, NEW L, Listing(P, I, F, S, L),
         NEW c \in Cpu, NEW t \in Cpu, t \notin S
  PROVE  Listing([P EXCEPT ![c] = @ \cup {t}], I, F, S \cup {t}, L)
<1> DEFINE Q == [P EXCEPT ![c] = @ \cup {t}]
<1>1. /\ \A d \in Cpu : t \notin P[d] /\ t \notin I[d]
      /\ t \notin F /\ t \notin L
  BY DEF Listing
<1>2. /\ \A s, d \in Cpu : s \in Q[d] <=> s \in P[d] \/ (d = c /\ s = t)
      /\ t \in Q[c]
  BY DEF Lists
<1> HIDE DEF Q
<1>3. \A s, e, f \in Cpu : s \in Q[e] /\ s \in Q[f] => e = f
  BY <1>1, <1>2 DEF Listing
<1>4. \A s, e, f \in Cpu : s \in I[e] /\ s \in I[f] => e = f
  BY <1>1, <1>2 DEF Listing
<1>5. \A s, e, f \in Cpu : s \in Q[e] => s \notin I[f] /\ s \notin F
  BY <1>1, <1>2 DEF Listing
<1>6. \A s, e \in Cpu : s \in I[e] => s \notin F
  BY <1>1, <1>2 DEF Listing
<1>7. \A s \in Cpu : s \in S \cup {t} /\ s \notin L =>
                      s \in F \/ \E e \in Cpu : s \in Q[e] \/ s \in I[e]
  <2> SUFFICES ASSUME NEW s \in Cpu, s \in S \cup {t}, s \notin L
               PROVE  s \in F \/ \E e \in Cpu : s \in Q[e] \/ s \in I[e]
    OBVIOUS
  <2>1. CASE s = t
    BY <1>2, <2>1
  <2>2. CASE s \in S
    BY <1>2, <2>2 DEF Listing
  <2> QED
    BY <2>1, <2>2
<1>8. \A s, e \in Cpu : s \in Q[e] \/ s \in I[e] \/ s \in F => s \in S \cup {t} /\ s \notin L
  BY <1>1, <1>2 DEF Listing
<1>9. L \subseteq S \cup {t}
  BY DEF Listing
<1> QED
  BY <1>3, <1>4, <1>5, <1>6, <1>7, <1>8, <1>9 DEF Listing, Q

\* rps_ipi_queued
LEMMA ListingQueues ==
  ASSUME NEW P \in Lists, NEW I \in Lists, NEW F, NEW S, NEW L, Listing(P, I, F, S, L),
         NEW c \in Cpu, NEW t \in Cpu, t \notin S
  PROVE  Listing(P, [I EXCEPT ![c] = @ \cup {t}], F, S \cup {t}, L)
<1> DEFINE Q == [I EXCEPT ![c] = @ \cup {t}]
<1>1. /\ \A d \in Cpu : t \notin P[d] /\ t \notin I[d]
      /\ t \notin F /\ t \notin L
  BY DEF Listing
<1>2. /\ \A s, d \in Cpu : s \in Q[d] <=> s \in I[d] \/ (d = c /\ s = t)
      /\ t \in Q[c]
  BY DEF Lists
<1> HIDE DEF Q
<1>3. \A s, e, f \in Cpu : s \in P[e] /\ s \in P[f] => e = f
  BY <1>1, <1>2 DEF Listing
<1>4. \A s, e, f \in Cpu : s \in Q[e] /\ s \in Q[f] => e = f
  BY <1>1, <1>2 DEF Listing
<1>5. \A s, e, f \in Cpu : s \in P[e] => s \notin Q[f] /\ s \notin F
  BY <1>1, <1>2 DEF Listing
<1>6. \A s, e \in Cpu : s \in Q[e] => s \notin F
  BY <1>1, <1>2 DEF Listing
<1>7. \A s \in Cpu : s \in S \cup {t} /\ s \notin L =>
                      s \in F \/ \E e \in Cpu : s \in P[e] \/ s \in Q[e]
  <2> SUFFICES ASSUME NEW s \in Cpu, s \in S \cup {t}, s \notin L
               PROVE  s \in F \/ \E e \in Cpu : s \in P[e] \/ s \in Q[e]
    OBVIOUS
  <2>1. CASE s = t
    BY <1>2, <2>1
  <2>2. CASE s \in S
    BY <1>2, <2>2 DEF Listing
  <2> QED
    BY <2>1, <2>2
<1>8. \A s, e \in Cpu : s \in P[e] \/ s \in Q[e] \/ s \in F => s \in S \cup {t} /\ s \notin L
  BY <1>1, <1>2 DEF Listing
<1>9. L \subseteq S \cup {t}
  BY DEF Listing
<1> QED
  BY <1>3, <1>4, <1>5, <1>6, <1>7, <1>8, <1>9 DEF Listing, Q

\* rps_trigger_softirq
LEMMA ListingArrives ==
  ASSUME NEW P \in Lists, NEW I \in Lists, NEW F, NEW S, NEW L, Listing(P, I, F, S, L),
         NEW c \in Cpu, c \in F
  PROVE  /\ Listing([P EXCEPT ![c] = @ \cup {c}], I, F \ {c}, S, L)
         /\ \A d \in Cpu : c \notin P[d]
<1>1. \A d \in Cpu : c \notin P[d] /\ c \notin I[d]
  BY DEF Listing
<1> DEFINE Q == [P EXCEPT ![c] = @ \cup {c}]
<1>2. \A s, d \in Cpu : s \in Q[d] <=> s \in P[d] \/ (d = c /\ s = c)
  BY DEF Lists
<1> HIDE DEF Q
<1>3. Listing(Q, I, F \ {c}, S, L)
  <2>1. \A s, e, f \in Cpu : s \in Q[e] /\ s \in Q[f] => e = f
    BY <1>1, <1>2 DEF Listing
  <2>2. \A s, e, f \in Cpu : s \in I[e] /\ s \in I[f] => e = f
    BY <1>1, <1>2 DEF Listing
  <2>3. \A s, e, f \in Cpu : s \in Q[e] => s \notin I[f] /\ s \notin (F \ {c})
    BY <1>1, <1>2 DEF Listing
  <2>4. \A s, e \in Cpu : s \in I[e] => s \notin (F \ {c})
    BY <1>1, <1>2 DEF Listing
  <2>5. \A s, e \in Cpu : s \in Q[e] \/ s \in I[e] \/ s \in (F \ {c}) => s \in S /\ s \notin L
    BY <1>1, <1>2 DEF Listing
  <2>6. L \subseteq S
    BY <1>1, <1>2 DEF Listing
  <2>7. \A s \in Cpu : s \in S /\ s \notin L =>
                     s \in (F \ {c}) \/ \E e \in Cpu : s \in Q[e] \/ s \in I[e]
    <3> SUFFICES ASSUME NEW s \in Cpu, s \in S, s \notin L
                 PROVE  s \in F \ {c} \/ \E e \in Cpu : s \in Q[e] \/ s \in I[e]
      OBVIOUS
    <3>1. CASE s = c
      BY <1>2, <3>1
    <3>2. CASE s # c
      BY <1>2, <3>2 DEF Listing
    <3> QED
      BY <3>1, <3>2
  <2> QED
    BY <2>1, <2>2, <2>3, <2>4, <2>5, <2>6, <2>7 DEF Listing
<1> QED
  BY <1>1, <1>3 DEF Q

\* net_rps_action_and_irq_enable
LEMMA ListingSends ==
  ASSUME NEW P \in Lists, NEW I \in Lists, NEW F, NEW S, NEW L, Listing(P, I, F, S, L),
         NEW c \in Cpu, NEW on
  PROVE  Listing(P, [I EXCEPT ![c] = {}], F \cup (I[c] \cap on), S, L \cup (I[c] \ on))
<1> DEFINE J == [I EXCEPT ![c] = {}]
<1>1. /\ \A s, d \in Cpu : s \in J[d] <=> s \in I[d] /\ d # c
      /\ I[c] \subseteq Cpu
  BY DEF Lists
<1> HIDE DEF J
<1> QED
  BY <1>1 DEF Listing, J

\* list_del
LEMMA ListingDeletes ==
  ASSUME NEW P \in Lists, NEW I \in Lists, NEW F, NEW S, NEW L, Listing(P, I, F, S, L),
         NEW c \in Cpu, NEW s \in P[c]
  PROVE  Listing([P EXCEPT ![c] = @ \ {s}], I, F, S \ {s}, L)
<1> DEFINE Q == [P EXCEPT ![c] = @ \ {s}]
<1>1. \A x, d \in Cpu : x \in Q[d] <=> x \in P[d] /\ ~(d = c /\ x = s)
  BY DEF Lists
<1>2. s \in Cpu /\ s \notin L /\ s \notin F
  BY DEF Listing, Lists
<1>3. \A d \in Cpu : s \notin I[d] /\ (s \in P[d] => d = c)
  BY <1>2 DEF Listing
<1> HIDE DEF Q
<1> QED
  BY <1>1, <1>2, <1>3 DEF Listing, Q

\* dev_cpu_callback, on d for c
LEMMA ListingAdopts ==
  ASSUME NEW P \in Lists, NEW I \in Lists, NEW F, NEW S, NEW L, Listing(P, I, F, S, L),
         NEW c \in Cpu, NEW d \in Cpu, c # d
  PROVE  Listing([P EXCEPT ![c] = {}, ![d] = P[c] \cup P[d]], [I EXCEPT ![c] = {}], F, S,
                 L \cup I[c])
<1> DEFINE Q == [P EXCEPT ![c] = {}, ![d] = P[c] \cup P[d]]
           J == [I EXCEPT ![c] = {}]
<1>1. /\ \A s, e \in Cpu : s \in Q[e] <=> e # c /\ (s \in P[e] \/ (e = d /\ s \in P[c]))
      /\ \A s, e \in Cpu : s \in J[e] <=> e # c /\ s \in I[e]
      /\ I[c] \subseteq Cpu
  BY DEF Lists
<1>2. \A s, e \in Cpu : s \in P[e] => \E f \in Cpu : s \in Q[f]
  <2> SUFFICES ASSUME NEW s \in Cpu, NEW e \in Cpu, s \in P[e]
               PROVE  \E f \in Cpu : s \in Q[f]
    OBVIOUS
  <2>1. CASE e = c
    BY <1>1, <2>1
  <2>2. CASE e # c
    <3>1. s \in Q[e]
      BY <1>1, <2>2
    <3> QED
      BY <3>1
  <2> QED
    BY <2>1, <2>2
<1>3. \A s, e \in Cpu : s \in I[e] => s \in J[e] \/ s \in I[c]
  BY <1>1
<1> HIDE DEF Q, J
<1>4. \A s, e, f \in Cpu : s \in Q[e] /\ s \in Q[f] => e = f
  BY <1>1 DEF Listing
<1>5. \A s, e, f \in Cpu : s \in J[e] /\ s \in J[f] => e = f
  BY <1>1 DEF Listing
<1>6. \A s, e, f \in Cpu : s \in Q[e] => s \notin J[f] /\ s \notin F /\ s \notin I[c] /\ s \notin L
  BY <1>1 DEF Listing
<1>7. \A s, e \in Cpu : s \in J[e] => s \notin F /\ s \notin I[c] /\ s \in S /\ s \notin L
  BY <1>1 DEF Listing
<1>8. \A s \in Cpu : s \in S /\ s \notin L \cup I[c] =>
                       s \in F \/ \E e \in Cpu : s \in Q[e] \/ s \in J[e]
  BY <1>2, <1>3 DEF Listing
<1>9. \A s \in Cpu : s \in F => s \notin I[c] /\ s \in S /\ s \notin L
  BY DEF Listing
<1>10. \A s, e \in Cpu : s \in Q[e] => s \in S
  BY <1>1 DEF Listing
<1>11. L \cup I[c] \subseteq S
  BY <1>1 DEF Listing
<1> QED
  BY <1>4, <1>5, <1>6, <1>7, <1>8, <1>9, <1>10, <1>11 DEF Listing, Q, J

----------------------------------------------------------------------------
(* What leaves a conjunct of the invariant as it is.                       *)

ArrivalState == [skb : Nat, on : Cpu \cup {NoCpu}, to : Cpu \cup {NoCpu}, tracked : BOOLEAN]
RflowState == [cpu : Cpu \cup {NoCpu}, qtail : Nat]
ActionState == [pc : {"idle", "rx", "loop", "deliver"}, of : Cpu \cup {NoCpu},
                skb : Nat, work : Nat]
DeviceState == [pc : {"up", "flushing", "gone"}, flushed : SUBSET Cpu, calm : BOOLEAN]
UnplugState == [dead : Cpu \cup {NoCpu}, on : Cpu \cup {NoCpu}]

\* RxTypeOK, conjunct by conjunct.
Typed ==
  /\ steering \in Steerings /\ arrival \in ArrivalState
  /\ reader \in Cpu \cup {NoCpu} /\ rflow \in RflowState
  /\ input \in [Cpu -> Seq(Nat)] /\ process \in [Cpu -> Seq(Nat)]
  /\ head \in [Cpu -> Nat] /\ tail \in [Cpu -> Nat]
  /\ scheduled \subseteq Cpu /\ flying \subseteq Cpu /\ raised \subseteq Cpu
  /\ online \subseteq Cpu /\ lost \subseteq Cpu
  /\ polls \in [Cpu -> Seq(Cpu)] /\ ipis \in [Cpu -> SUBSET Cpu]
  /\ action \in [Cpu -> ActionState]
  /\ device \in DeviceState /\ unplug \in UnplugState
  /\ arrived \in Nat /\ moved \in Nat /\ got \in Nat /\ astray \in BOOLEAN

LEMMA TypedFact == (RxTypeOK <=> Typed) /\ (RxTypeOK' <=> Typed')
<1>1. RxTypeOK <=> Typed
  BY DEF RxTypeOK, Typed, ArrivalState, RflowState, ActionState, DeviceState, UnplugState
<1>2. RxTypeOK' <=> Typed'
  BY DEF RxTypeOK, Typed, ArrivalState, RflowState, ActionState, DeviceState, UnplugState
<1> QED
  BY <1>1, <1>2

LEMMA ListedKept ==
  ASSUME Listed, UNCHANGED <<polls, ipis, flying, scheduled, lost>>,
         \A c \in Cpu : action'[c].pc \in {"loop", "deliver"} =>
                          action[c].pc \in {"loop", "deliver"} /\ action'[c].of = action[c].of
  PROVE  Listed'
BY DEF Listed, Polled

LEMMA TalliedKept ==
  ASSUME Tallied, UNCHANGED <<queues, scheduled, online>>,
         \A c, s \in Cpu : Delivers(c, s)' <=> Delivers(c, s)
  PROVE  Tallied'
BY DEF Tallied

LEMMA HandedKept ==
  ASSUME Handed, UNCHANGED <<arrival, unplug, online>>
  PROVE  Handed'
BY DEF Handed

LEMMA LeavingKept ==
  ASSUME Leaving, UNCHANGED <<input, process, arrival, unplug, online, device>>
  PROVE  Leaving'
BY DEF Leaving, Bare

LEMMA LinedKept ==
  ASSUME Lined,
         UNCHANGED <<steering, arrival, rflow, input, process, tail, online, unplug, arrived, got>>,
         \A c, s \in Cpu : Delivers(c, s)' => Delivers(c, s) /\ action'[c].skb = action[c].skb
  PROVE  Lined'
<1>1. UNCHANGED <<Home, Latest>> /\ \A c \in Cpu : Backlog(c)' = Backlog(c) /\ Bare(c)' = Bare(c)
  BY DEF Home, Latest, Backlog, Bare
<1>2. \A c \in Cpu : Ascending(got, Backlog(c), Latest)'
  BY <1>1 DEF Lined, Ascending
<1>3. \A c, s \in Cpu : Delivers(c, s)' =>
        /\ s = Home' /\ got' <= action'[c].skb /\ action'[c].skb <= Latest'
        /\ Ascending(action[c].skb, Backlog(s), Latest)'
  BY <1>1 DEF Lined, Ascending
<1> QED
  BY <1>1, <1>2, <1>3 DEF Lined

LEMMA ActionBecomes ==
  ASSUME RxTypeOK, NEW c \in Cpu, NEW new \in ActionState, action' = [action EXCEPT ![c] = new]
  PROVE  /\ action' \in [Cpu -> ActionState] /\ action'[c] = new
         /\ \A d \in Cpu \ {c} : action'[d] = action[d]
<1>1. action \in [Cpu -> ActionState]
  BY TypedFact DEF Typed
<1> QED
  BY <1>1

LEMMA ActionGoes ==
  ASSUME RxTypeOK, NEW c \in Cpu, NEW pc \in {"idle", "rx", "loop", "deliver"}, NEW of \in Cpu \cup {NoCpu},
         NEW skb \in Nat, NEW work \in Nat,
         action' = [action EXCEPT ![c] = [pc |-> pc, of |-> of, skb |-> skb, work |-> work]]
  PROVE  /\ action' \in [Cpu -> ActionState]
         /\ action'[c].pc = pc /\ action'[c].of = of /\ action'[c].skb = skb
         /\ \A d \in Cpu \ {c} : action'[d] = action[d]
<1>1. [pc |-> pc, of |-> of, skb |-> skb, work |-> work] \in ActionState
  BY DEF ActionState
<1> QED
  BY <1>1, ActionBecomes

\* A CPU that polls a backlog has it on its list, and no other CPU polls that one.
LEMMA RunsFact ==
  ASSUME RxTypeOK, Listed, NEW c \in Cpu, action[c].pc \in {"loop", "deliver"}
  PROVE  /\ polls[c] # <<>> /\ action[c].of = Head(polls[c])
         /\ action[c].of \in Cpu /\ action[c].of \in Polled[c]
         /\ \A d \in Cpu : action[d].pc \in {"loop", "deliver"} /\ action[d].of = action[c].of
                             => d = c
<1>1. \A d \in Cpu : action[d].pc \in {"loop", "deliver"} =>
        /\ polls[d] # <<>> /\ action[d].of = Head(polls[d])
        /\ action[d].of \in Cpu /\ action[d].of \in Polled[d]
  <2> SUFFICES ASSUME NEW d \in Cpu, action[d].pc \in {"loop", "deliver"}
               PROVE  /\ polls[d] # <<>> /\ action[d].of = Head(polls[d])
                      /\ action[d].of \in Cpu /\ action[d].of \in Polled[d]
    OBVIOUS
  <2>1. polls[d] \in Seq(Cpu) /\ polls[d] # <<>> /\ action[d].of = Head(polls[d])
    BY DEF RxTypeOK, Listed
  <2>2. Head(polls[d]) \in Cpu /\ Head(polls[d]) \in Range(polls[d])
    BY <2>1, RangeTail
  <2> QED
    BY <2>1, <2>2 DEF Polled
<1>2. \A s, d, e \in Cpu : s \in Polled[d] /\ s \in Polled[e] => d = e
  BY DEF Listed, Listing
<1> QED
  BY <1>1, <1>2

LEMMA BacklogFact ==
  ASSUME RxTypeOK, NEW s \in Cpu
  PROVE  /\ head[s] \in Nat /\ tail[s] \in Nat
         /\ input[s] \in Seq(Nat) /\ process[s] \in Seq(Nat)
         /\ Len(input[s]) \in Nat /\ Len(process[s]) \in Nat
         /\ input[s] = <<>> <=> Len(input[s]) = 0
         /\ process[s] = <<>> <=> Len(process[s]) = 0
<1>1. /\ head[s] \in Nat /\ tail[s] \in Nat
      /\ input[s] \in Seq(Nat) /\ process[s] \in Seq(Nat)
  BY DEF RxTypeOK
<1> QED
  BY <1>1, EmptySeq, LenProperties

----------------------------------------------------------------------------
(* What each action keeps.                                                 *)

LEMMA MoveReaderKeeps == RxInv /\ MoveReader => RxInv'
<1> SUFFICES ASSUME RxInv, MoveReader
             PROVE  RxInv'
  OBVIOUS
<1> USE DEF MoveReader
<1>1. RxTypeOK'
  BY TypedFact DEF RxInv, Typed
<1>2. Listed'
  BY ListedKept DEF RxInv
<1>3. Tallied'
  BY TalliedKept DEF RxInv, Delivers
<1>4. Handed' /\ Leaving'
  BY HandedKept, LeavingKept DEF RxInv
<1>5. ~astray' => Lined'
  BY LinedKept DEF RxInv, Delivers
<1> QED
  BY <1>1, <1>2, <1>3, <1>4, <1>5 DEF RxInv

LEMMA UnregisterKeeps == RxInv /\ Unregister => RxInv'
<1> SUFFICES ASSUME RxInv, Unregister
             PROVE  RxInv'
  OBVIOUS
<1> USE DEF Unregister
<1>0. /\ device' \in DeviceState /\ device'.pc = "flushing" /\ device'.flushed = device.flushed
      /\ device'.calm = (unplug.dead = NoCpu)
  BY TypedFact DEF RxInv, Typed, DeviceState
<1>1. RxTypeOK'
  BY <1>0, TypedFact DEF RxInv, Typed
<1>2. Listed'
  BY ListedKept DEF RxInv
<1>3. Tallied'
  BY TalliedKept DEF RxInv, Delivers
<1>4. Handed'
  BY HandedKept DEF RxInv
<1>5. Leaving'
  BY <1>0 DEF RxInv, Leaving, Bare
<1>6. ~astray' => Lined'
  BY LinedKept DEF RxInv, Delivers
<1> QED
  BY <1>1, <1>2, <1>3, <1>4, <1>5, <1>6 DEF RxInv

LEMMA FreeKeeps == RxInv /\ Free => RxInv'
<1> SUFFICES ASSUME RxInv, Free
             PROVE  RxInv'
  OBVIOUS
<1> USE DEF Free
<1>0. /\ device' \in DeviceState /\ device'.pc = "gone" /\ device'.flushed = device.flushed
      /\ device'.calm = device.calm
  BY TypedFact DEF RxInv, Typed, DeviceState
<1>1. RxTypeOK'
  BY <1>0, TypedFact DEF RxInv, Typed
<1>2. Listed'
  BY ListedKept DEF RxInv
<1>3. Tallied'
  BY TalliedKept DEF RxInv, Delivers
<1>4. Handed'
  BY HandedKept DEF RxInv
<1>5. Leaving'
  BY <1>0, MapAssumption DEF RxInv, Leaving, Bare
<1>6. ~astray' => Lined'
  BY LinedKept DEF RxInv, Delivers
<1> QED
  BY <1>1, <1>2, <1>3, <1>4, <1>5, <1>6 DEF RxInv

LEMMA RxActionKeeps == ASSUME RxInv, NEW c \in Cpu, RxAction(c) PROVE RxInv'
<1> USE DEF RxAction
<1>0. /\ action'[c].pc = "rx" /\ action[c].pc = "idle"
      /\ action' \in [Cpu -> ActionState] /\ \A d \in Cpu \ {c} : action'[d] = action[d]
  <2>1. action \in [Cpu -> ActionState]
    BY TypedFact DEF RxInv, Typed
  <2>2. action' = [action EXCEPT ![c] = [action[c] EXCEPT !.pc = "rx"]]
    BY <2>1
  <2>3. [action[c] EXCEPT !.pc = "rx"] \in ActionState /\ [action[c] EXCEPT !.pc = "rx"].pc = "rx"
    BY <2>1 DEF ActionState
  <2> QED
    BY <2>2, <2>3, ActionBecomes DEF RxInv
<1>1. RxTypeOK'
  BY <1>0, TypedFact DEF RxInv, Typed
<1>2. Listed'
  <2>1. \A d \in Cpu : action'[d].pc \in {"loop", "deliver"} =>
                         action[d].pc \in {"loop", "deliver"} /\ action'[d].of = action[d].of
    BY <1>0
  <2> QED
    BY <2>1, ListedKept DEF RxInv
<1>3. \A d, s \in Cpu : /\ Delivers(d, s)' <=> Delivers(d, s)
                        /\ Delivers(d, s)' => action'[d].skb = action[d].skb
  BY <1>0 DEF Delivers
<1>4. Tallied'
  BY <1>3, TalliedKept DEF RxInv
<1>5. Handed' /\ Leaving'
  BY HandedKept, LeavingKept DEF RxInv
<1>6. ~astray' => Lined'
  BY <1>3, LinedKept DEF RxInv
<1> QED
  BY <1>1, <1>2, <1>4, <1>5, <1>6 DEF RxInv

\* What the IPIs that c sends do to the lists.
LEMMA SendIpisFact ==
  ASSUME RxInv, NEW c \in Cpu, SendIpis(c), UNCHANGED <<polls, scheduled>>
  PROVE  /\ Listing(Polled, ipis, flying, scheduled, lost)'
         /\ ipis' \in [Cpu -> SUBSET Cpu] /\ flying' \subseteq Cpu /\ lost' \subseteq Cpu
<1>1. Polled \in Lists /\ ipis \in Lists /\ Listing(Polled, ipis, flying, scheduled, lost)
  BY PolledFact DEF RxInv, Listed
<1>2. Polled' = Polled
  BY DEF Polled
<1>3. Listing(Polled, [ipis EXCEPT ![c] = {}], flying \cup (ipis[c] \cap online), scheduled,
              lost \cup (ipis[c] \ online))
  BY <1>1, ListingSends
<1>4. Listing(Polled, ipis, flying, scheduled, lost)'
  BY <1>2, <1>3 DEF SendIpis
<1> QED
  BY <1>1, <1>4 DEF SendIpis, Lists, RxInv, RxTypeOK

LEMMA RxDoneKeeps == ASSUME RxInv, NEW c \in Cpu, RxDone(c) PROVE RxInv'
<1> USE DEF RxDone
<1>0. /\ action'[c].pc = "idle" /\ action[c].pc = "rx"
      /\ action' \in [Cpu -> ActionState] /\ \A d \in Cpu \ {c} : action'[d] = action[d]
  BY TypedFact DEF RxInv, Typed, ActionState, NoWork
<1>1. /\ Listing(Polled, ipis, flying, scheduled, lost)'
      /\ ipis' \in [Cpu -> SUBSET Cpu] /\ flying' \subseteq Cpu /\ lost' \subseteq Cpu
  BY SendIpisFact
<1>2. RxTypeOK'
  BY <1>0, <1>1, TypedFact DEF RxInv, Typed
<1>3. Listed'
  BY <1>0, <1>1 DEF RxInv, Listed
<1>4. \A d, s \in Cpu : /\ Delivers(d, s)' <=> Delivers(d, s)
                        /\ Delivers(d, s)' => action'[d].skb = action[d].skb
  BY <1>0 DEF Delivers
<1>5. Tallied'
  BY <1>4, TalliedKept DEF RxInv
<1>6. Handed' /\ Leaving'
  BY HandedKept, LeavingKept DEF RxInv
<1>7. ~astray' => Lined'
  BY <1>4, LinedKept DEF RxInv
<1> QED
  BY <1>2, <1>3, <1>5, <1>6, <1>7 DEF RxInv

LEMMA PollKeeps == ASSUME RxInv, NEW c \in Cpu, Poll(c) PROVE RxInv'
<1> USE DEF Poll
<1>0. polls[c] # <<>> /\ Head(polls[c]) \in Cpu
  BY RangeTail DEF RxInv, RxTypeOK
<1>1. /\ action'[c].pc = "loop" /\ action'[c].of = Head(polls[c]) /\ action[c].pc = "rx"
      /\ action' \in [Cpu -> ActionState] /\ \A d \in Cpu \ {c} : action'[d] = action[d]
  BY <1>0, ActionGoes, MapAssumption DEF RxInv
<1>2. /\ Listing(Polled, ipis, flying, scheduled, lost)'
      /\ ipis' \in [Cpu -> SUBSET Cpu] /\ flying' \subseteq Cpu /\ lost' \subseteq Cpu
  BY SendIpisFact
<1>3. RxTypeOK'
  BY <1>1, <1>2, TypedFact DEF RxInv, Typed
<1>4. Listed'
  BY <1>0, <1>1, <1>2 DEF RxInv, Listed
<1>5. \A d, s \in Cpu : /\ Delivers(d, s)' <=> Delivers(d, s)
                        /\ Delivers(d, s)' => action'[d].skb = action[d].skb
  BY <1>1 DEF Delivers
<1>6. Tallied'
  BY <1>5, TalliedKept DEF RxInv
<1>7. Handed' /\ Leaving'
  BY HandedKept, LeavingKept DEF RxInv
<1>8. ~astray' => Lined'
  BY <1>5, LinedKept DEF RxInv
<1> QED
  BY <1>3, <1>4, <1>6, <1>7, <1>8 DEF RxInv

LEMMA IpiKeeps == ASSUME RxInv, NEW c \in Cpu, Ipi(c) PROVE RxInv'
<1> USE DEF Ipi
<1>0. polls[c] \in Seq(Cpu) /\ Once(polls[c])
  BY DEF RxInv, RxTypeOK, Listed
<1>1. /\ Polled \in Lists /\ ipis \in Lists
      /\ Listing(Polled, ipis, flying, scheduled, lost)
  BY PolledFact DEF RxInv, Listed
<1>2. /\ Listing([Polled EXCEPT ![c] = @ \cup {c}], ipis, flying', scheduled, lost)
      /\ c \notin Polled[c]
  BY <1>1, ListingArrives
<1>3. /\ Append(polls[c], c) \in Seq(Cpu)
      /\ Range(Append(polls[c], c)) = Polled[c] \cup {c}
      /\ Once(Append(polls[c], c))
      /\ polls[c] # <<>> => Head(Append(polls[c], c)) = Head(polls[c])
  <2>1. c \notin Range(polls[c]) /\ Polled[c] = Range(polls[c])
    BY <1>2 DEF Polled
  <2> QED
    BY <1>0, <2>1, RangeAppend
<1>4. polls' = [polls EXCEPT ![c] = Append(polls[c], c)]
  OBVIOUS
<1>5. Polled' = [Polled EXCEPT ![c] = @ \cup {c}]
  BY <1>3, <1>4, PolledBecomes DEF RxInv
<1>6. \A d \in Cpu : d # c => polls'[d] = polls[d]
  BY <1>4 DEF RxInv, RxTypeOK
<1>7. polls'[c] = Append(polls[c], c)
  BY <1>4 DEF RxInv, RxTypeOK
<1>8. polls' \in [Cpu -> Seq(Cpu)]
  BY <1>3, <1>4 DEF RxInv, RxTypeOK
<1>9. RxTypeOK'
  BY <1>8, TypedFact DEF RxInv, Typed
<1>10. Listed'
  <2>1. Listing(Polled, ipis, flying, scheduled, lost)'
    BY <1>2, <1>5
  <2>2. \A d \in Cpu : Once(polls[d])'
    BY <1>3, <1>6, <1>7 DEF RxInv, Listed, Once
  <2>3. \A d \in Cpu : polls[d] # <<>> => polls'[d] # <<>> /\ Head(polls'[d]) = Head(polls[d])
    BY <1>0, <1>3, <1>6, <1>7, AppendProperties
  <2> QED
    BY <2>1, <2>2, <2>3 DEF RxInv, Listed
<1>11. Tallied'
  BY TalliedKept DEF RxInv, Delivers
<1>12. Handed' /\ Leaving'
  BY HandedKept, LeavingKept DEF RxInv
<1>13. ~astray' => Lined'
  BY LinedKept DEF RxInv, Delivers
<1> QED
  BY <1>9, <1>10, <1>11, <1>12, <1>13 DEF RxInv

LEMMA PollsBecome ==
  ASSUME RxTypeOK, NEW c \in Cpu, NEW q \in Seq(Cpu), polls' = [polls EXCEPT ![c] = q]
  PROVE  /\ polls' \in [Cpu -> Seq(Cpu)] /\ polls'[c] = q
         /\ \A d \in Cpu \ {c} : polls'[d] = polls[d]
         /\ Polled' = [Polled EXCEPT ![c] = Range(q)]
<1>1. polls \in [Cpu -> Seq(Cpu)]
  BY TypedFact DEF Typed
<1> QED
  BY <1>1, PolledBecomes

\* A CPU that is done with a backlog.
AfterPoll == [NoWork EXCEPT !.pc = "rx", !.work = 1]

LEMMA AfterPollFact == AfterPoll \in ActionState /\ AfterPoll.pc = "rx"
BY DEF AfterPoll, NoWork, ActionState

LEMMA CompleteKeeps == ASSUME RxInv, NEW c \in Cpu, Complete(c) PROVE RxInv'
<1> DEFINE s == action[c].of
<1>0. /\ polls[c] # <<>> /\ s = Head(polls[c]) /\ s \in Cpu /\ s \in Polled[c]
      /\ \A d \in Cpu : action[d].pc \in {"loop", "deliver"} /\ action[d].of = s => d = c
      /\ polls[c] \in Seq(Cpu) /\ Once(polls[c]) /\ Polled[c] = Range(polls[c])
  BY RunsFact, TypedFact DEF RxInv, Typed, Complete, Listed, Polled
<1>1. /\ Tail(polls[c]) \in Seq(Cpu) /\ Once(Tail(polls[c]))
      /\ Range(Tail(polls[c])) = Polled[c] \ {s}
  BY <1>0, RangeTail
<1>2. /\ polls' \in [Cpu -> Seq(Cpu)] /\ polls'[c] = Tail(polls[c])
      /\ \A d \in Cpu \ {c} : polls'[d] = polls[d]
      /\ Polled' = [Polled EXCEPT ![c] = Polled[c] \ {s}]
  <2>1. polls' = [polls EXCEPT ![c] = Tail(polls[c])]
    BY DEF Complete
  <2> QED
    BY <1>1, <2>1, PollsBecome DEF RxInv
<1>3. /\ action' \in [Cpu -> ActionState] /\ action'[c].pc = "rx" /\ action[c].pc = "loop"
      /\ \A d \in Cpu \ {c} : action'[d] = action[d]
  <2>1. action' = [action EXCEPT ![c] = AfterPoll] /\ action[c].pc = "loop"
    BY DEF Complete, AfterPoll
  <2> QED
    BY <2>1, AfterPollFact, ActionBecomes DEF RxInv
<1>4. /\ input[s] = <<>> /\ process[s] = <<>> /\ scheduled' = scheduled \ {s}
      /\ UNCHANGED <<steering, arrival, reader, rflow, queues, ipis, flying, raised, online,
                     device, unplug, rxHist>>
  BY DEF Complete
<1> HIDE DEF s
<1>5. RxTypeOK'
  BY <1>2, <1>3, <1>4, TypedFact DEF RxInv, Typed
<1>6. Listed'
  <2>1. Listing(Polled, ipis, flying, scheduled, lost)'
    <3>1. /\ Polled \in Lists /\ ipis \in Lists
          /\ Listing(Polled, ipis, flying, scheduled, lost)
      BY PolledFact DEF RxInv, Listed
    <3>2. Listing([Polled EXCEPT ![c] = @ \ {s}], ipis, flying, scheduled \ {s}, lost)
      BY <1>0, <3>1, ListingDeletes
    <3>3. /\ Polled' = [Polled EXCEPT ![c] = @ \ {s}]
          /\ UNCHANGED <<ipis, flying, lost>> /\ scheduled' = scheduled \ {s}
      BY <1>2, <1>4
    <3> QED
      BY <3>2, <3>3
  <2>2. \A d \in Cpu : Once(polls[d])'
    BY <1>1, <1>2 DEF RxInv, Listed, Once
  <2> QED
    BY <1>2, <1>3, <2>1, <2>2 DEF RxInv, Listed
<1>7. \A d, e \in Cpu : /\ Delivers(d, e)' <=> Delivers(d, e)
                        /\ Delivers(d, e)' => action'[d].skb = action[d].skb
  BY <1>3 DEF Delivers
<1>8. Tallied'
  BY <1>4, <1>7 DEF RxInv, Tallied
<1>9. Handed' /\ Leaving'
  BY <1>4, HandedKept, LeavingKept DEF RxInv
<1>10. ~astray' => Lined'
  BY <1>4, <1>7, LinedKept DEF RxInv
<1> QED
  BY <1>5, <1>6, <1>8, <1>9, <1>10 DEF RxInv

\* A packet that steering hands over from c goes to a CPU that is online.
LEMMA SteerFact ==
  ASSUME RxTypeOK, NEW c \in online, NEW skb \in Nat, Steer(c, skb)
  PROVE  /\ arrival' \in ArrivalState /\ rflow' \in RflowState
         /\ arrival'.skb = skb /\ arrival'.on = c /\ arrival'.to \in online
         /\ arrival' # NoArrival
         /\ rflow' = IF steering = "rfs" THEN Switched ELSE rflow
         /\ arrival'.tracked => steering = "rfs" /\ arrival'.to = rflow'.cpu
         /\ steering = "rps" /\ online = Cpu => arrival'.to = MapCpu
<1>1. /\ online \subseteq Cpu /\ rflow \in RflowState /\ reader \in Cpu \cup {NoCpu}
      /\ head \in [Cpu -> Nat]
  BY TypedFact DEF Typed
<1>2. Switched \in RflowState
  <2>1. reader # NoCpu => head[reader] \in Nat
    BY <1>1
  <2> QED
    BY <1>1, <2>1 DEF Switched, RflowState
<1> DEFINE flow == IF steering = "rfs" THEN Switched ELSE rflow
           tracked == steering = "rfs" /\ flow.cpu \in online
           to == IF tracked THEN flow.cpu
                 ELSE IF steering # "none" /\ MapCpu \in online THEN MapCpu ELSE c
<1>3. rflow' = flow /\ arrival' = [skb |-> skb, on |-> c, tracked |-> tracked, to |-> to]
  BY DEF Steer
<1>4. flow \in RflowState /\ tracked \in BOOLEAN /\ to \in online
  BY <1>1, <1>2
<1>5. steering = "rps" /\ online = Cpu => to = MapCpu
  BY MapAssumption
<1>6. tracked => steering = "rfs" /\ to = flow.cpu
  OBVIOUS
<1> HIDE DEF tracked, to
<1>7. /\ arrival'.skb = skb /\ arrival'.on = c /\ arrival'.to = to
      /\ arrival'.tracked = tracked /\ arrival' \in ArrivalState
  BY <1>1, <1>3, <1>4 DEF ArrivalState
<1>8. arrival' # NoArrival
  BY <1>1, <1>7, MapAssumption DEF NoArrival
<1> QED
  BY <1>3, <1>4, <1>5, <1>6, <1>7, <1>8

\* The flow moves to another CPU only when it is queued nowhere.
LEMMA SwitchedFact ==
  ASSUME RxInv, Lined, steering = "rfs", MaySwitch, NEW c \in Cpu
  PROVE  Bare(c) /\ \A s \in Cpu : ~Delivers(c, s)
<1>1. Home = rflow.cpu /\ (c # Home => Bare(c))
  BY DEF Home, Lined
<1>2. rflow.cpu \in Cpu =>
        Bare(rflow.cpu) /\ \A d \in Cpu : ~Delivers(d, rflow.cpu)
  <2> SUFFICES ASSUME rflow.cpu \in Cpu
               PROVE  Bare(rflow.cpu) /\ \A d \in Cpu : ~Delivers(d, rflow.cpu)
    OBVIOUS
  <2>1. head[rflow.cpu] >= rflow.qtail /\ tail[rflow.cpu] <= rflow.qtail
    BY <1>1 DEF MaySwitch, Lined
  <2>2. tail[rflow.cpu] = head[rflow.cpu] + Len(input[rflow.cpu]) + Len(process[rflow.cpu])
                          + (IF \E d \in Cpu : Delivers(d, rflow.cpu) THEN 1 ELSE 0)
    BY DEF RxInv, Tallied
  <2>3. rflow.qtail \in Nat
    BY TypedFact DEF RxInv, Typed, RflowState
  <2> DEFINE h == head[rflow.cpu]
             t == tail[rflow.cpu]
             m == Len(input[rflow.cpu])
             n == Len(process[rflow.cpu])
             q == rflow.qtail
             busy == \E d \in Cpu : Delivers(d, rflow.cpu)
  <2>4. h \in Nat /\ t \in Nat /\ m \in Nat /\ n \in Nat
    BY BacklogFact DEF RxInv
  <2>5. /\ Len(input[rflow.cpu]) = 0 /\ Len(process[rflow.cpu]) = 0
        /\ ~\E d \in Cpu : Delivers(d, rflow.cpu)
    <3>1. h >= q /\ t <= q /\ t = h + m + n + (IF busy THEN 1 ELSE 0) /\ q \in Nat
      BY <2>1, <2>2, <2>3
    <3> HIDE DEF h, t, m, n, q, busy
    <3>2. m = 0 /\ n = 0 /\ ~busy
      BY <2>4, <3>1
    <3> QED
      BY <3>2 DEF m, n, busy
  <2> QED
    BY <2>5, BacklogFact DEF RxInv, Bare
<1>3. \A s \in Cpu : Delivers(c, s) => s = Home
  BY DEF Lined
<1> QED
  BY <1>1, <1>2, <1>3

\* The packet that was delivered last had been queued.
LEMMA LatestFact ==
  ASSUME RxInv, Lined
  PROVE  /\ got \in Nat /\ Latest \in Nat /\ got <= Latest /\ arrived \in Nat
         /\ Latest <= arrived /\ \A c \in Cpu : Backlog(c) \in Seq(Nat)
<1>1. got \in Nat /\ arrived \in Nat /\ got <= Latest
  BY TypedFact DEF RxInv, Typed, Lined
<1>2. Latest = arrived \/ Latest = arrived - 1
  BY DEF Latest
<1>3. \A c \in Cpu : Backlog(c) \in Seq(Nat)
  BY BacklogFact, ConcatProperties DEF RxInv, Backlog
<1> HIDE DEF Latest
<1> QED
  BY <1>1, <1>2, <1>3

LEMMA ArriveKeeps == ASSUME RxInv, NEW c \in Cpu, Arrive(c) PROVE RxInv'
<1>1. /\ arrival = NoArrival /\ device.pc = "up" /\ c \in online /\ arrived' = arrived + 1
      /\ Steer(c, arrived')
      /\ UNCHANGED <<steering, reader, queues, napi, action, online, device, unplug, moved,
                     got, astray, lost>>
  BY DEF Arrive, IrqsOn
<1>2. arrived \in Nat /\ arrived' \in Nat /\ online \subseteq Cpu
  BY <1>1, TypedFact, SMTT(60) DEF RxInv, Typed
<1>3. /\ arrival' \in ArrivalState /\ rflow' \in RflowState
      /\ arrival'.skb = arrived' /\ arrival'.on = c /\ arrival'.to \in online
      /\ arrival' # NoArrival
      /\ rflow' = IF steering = "rfs" THEN Switched ELSE rflow
      /\ arrival'.tracked => steering = "rfs" /\ arrival'.to = rflow'.cpu
      /\ steering = "rps" /\ online = Cpu => arrival'.to = MapCpu
  BY <1>1, <1>2, SteerFact DEF RxInv
<1>4. RxTypeOK'
  BY <1>1, <1>2, <1>3, TypedFact DEF RxInv, Typed
<1>5. Listed'
  BY <1>1, ListedKept DEF RxInv
<1>6. \A d, s \in Cpu : Delivers(d, s)' <=> Delivers(d, s)
  BY <1>1 DEF Delivers
<1>7. Tallied'
  BY <1>1, <1>6, TalliedKept DEF RxInv
<1>8. Handed'
  BY <1>1, <1>3 DEF RxInv, Handed
<1>9. Leaving'
  BY <1>1 DEF RxInv, Leaving, Bare
<1>10. ~astray' => Lined'
  <2> SUFFICES ASSUME ~astray
               PROVE  Lined'
    BY <1>1
  <2>1. Lined /\ steering \in {"none", "rps", "rfs"} /\ steering # "none" /\ online = Cpu
    BY SteeringsAssumption, TypedFact DEF RxInv, Typed, Lined
  <2>2. Latest' = Latest /\ Latest = arrived
    BY <1>1, <1>2, <1>3 DEF Latest
  <2>3. \A d \in Cpu : Backlog(d)' = Backlog(d) /\ Bare(d)' = Bare(d)
    BY <1>1 DEF Backlog, Bare
  <2>4. CASE Home' = Home
    <3>1. steering = "rfs" /\ Home' \in Cpu => tail'[Home'] <= rflow'.qtail
      <4> SUFFICES ASSUME steering = "rfs", Home \in Cpu
                   PROVE  tail[Home] <= rflow'.qtail
        BY <1>1, <2>4
      <4>1. rflow' = rflow
        <5>1. Home = rflow.cpu /\ Home' = Switched.cpu /\ rflow' = Switched
          BY <1>1, <1>3 DEF Home
        <5>2. MaySwitch => Switched.cpu = reader /\ rflow.cpu # reader
          BY DEF MaySwitch, Switched
        <5> QED
          BY <2>4, <5>1, <5>2 DEF Switched
      <4> QED
        BY <2>1, <4>1 DEF Lined
    <3>2. \A d \in Cpu : Ascending(got, Backlog(d), Latest)'
      BY <1>1, <2>1, <2>2, <2>3 DEF Lined, Ascending
    <3>3. \A d, s \in Cpu : Delivers(d, s)' =>
            /\ s = Home' /\ got' <= action'[d].skb /\ action'[d].skb <= Latest'
            /\ Ascending(action[d].skb, Backlog(s), Latest)'
      BY <1>1, <1>6, <2>1, <2>2, <2>3, <2>4 DEF Lined, Ascending
    <3>4. /\ steering' # "none" /\ online' = Cpu /\ unplug'.dead = NoCpu
          /\ \A d \in Cpu : d # Home' => Bare(d)'
          /\ got' <= Latest'
      BY <1>1, <2>1, <2>2, <2>3, <2>4 DEF Lined
    <3>5. /\ arrival'.skb = arrived'
          /\ steering = "rps" => ~arrival'.tracked
          /\ steering = "rps" \/ arrival'.tracked => arrival'.to = Home'
      BY <1>1, <1>3, <2>1 DEF Home
    <3> QED
      BY <1>1, <3>1, <3>2, <3>3, <3>4, <3>5 DEF Lined
  <2>5. CASE Home' # Home
    <3>1. steering = "rfs" /\ MaySwitch /\ rflow' = Switched
      BY <1>1, <1>3, <2>5 DEF Home, Switched
    <3>2. \A d \in Cpu : Bare(d) /\ \A s \in Cpu : ~Delivers(d, s)
      BY <2>1, <3>1, SwitchedFact DEF RxInv
    <3>3. Home' = reader /\ (reader # NoCpu => rflow'.qtail = head[reader])
      BY <1>1, <3>1 DEF Home, Switched
    <3>4. Home' \in Cpu => tail'[Home'] <= rflow'.qtail
      <4> SUFFICES ASSUME reader \in Cpu
                   PROVE  tail[reader] <= head[reader]
        BY <1>1, <3>3, MapAssumption
      <4>1. input[reader] = <<>> /\ process[reader] = <<>> /\ ~\E d \in Cpu : Delivers(d, reader)
        BY <3>2 DEF Bare
      <4>2. tail[reader] = head[reader] + Len(input[reader]) + Len(process[reader])
                           + (IF \E d \in Cpu : Delivers(d, reader) THEN 1 ELSE 0)
        BY DEF RxInv, Tallied
      <4> QED
        BY <4>1, <4>2, BacklogFact DEF RxInv
    <3>5. \A d \in Cpu : Ascending(got, Backlog(d), Latest)'
      BY <1>1, <2>1, <2>2, <2>3 DEF Lined, Ascending
    <3>6. /\ steering' # "none" /\ online' = Cpu /\ unplug'.dead = NoCpu
          /\ \A d \in Cpu : Bare(d)' /\ \A s \in Cpu : ~Delivers(d, s)'
          /\ got' <= Latest'
      BY <1>1, <1>6, <2>1, <2>2, <2>3, <3>2 DEF Lined
    <3>7. /\ arrival'.skb = arrived'
          /\ steering' # "rps"
          /\ arrival'.tracked => arrival'.to = Home'
      BY <1>1, <1>3, <3>1 DEF Home
    <3> QED
      BY <3>4, <3>5, <3>6, <3>7 DEF Lined
  <2> QED
    BY <2>4, <2>5
<1> QED
  BY <1>4, <1>5, <1>7, <1>8, <1>9, <1>10 DEF RxInv

\* enqueue_to_backlog puts a backlog that is not scheduled on one list.
LEMMA KickFact ==
  ASSUME RxInv, NEW c \in Cpu, NEW t \in Cpu, t \notin scheduled, Kick(c, t),
         UNCHANGED <<flying, lost, action>>
  PROVE  /\ Listed'
         /\ polls' \in [Cpu -> Seq(Cpu)] /\ ipis' \in [Cpu -> SUBSET Cpu]
         /\ scheduled' = scheduled \cup {t} /\ raised' \subseteq Cpu
<1>1. /\ Polled \in Lists /\ ipis \in Lists
      /\ Listing(Polled, ipis, flying, scheduled, lost)
  BY PolledFact DEF RxInv, Listed
<1>2. /\ polls \in [Cpu -> Seq(Cpu)] /\ ipis \in [Cpu -> SUBSET Cpu] /\ raised \subseteq Cpu
      /\ scheduled' = scheduled \cup {t} /\ raised' = raised \cup {c}
  BY TypedFact DEF RxInv, Typed, Kick
<1>3. CASE t = c
  <2>1. /\ polls' = [polls EXCEPT ![c] = Append(polls[c], t)] /\ ipis' = ipis
        /\ polls[c] \in Seq(Cpu) /\ Once(polls[c]) /\ Polled[c] = Range(polls[c])
    BY <1>2, <1>3 DEF Kick, RxInv, Listed, Polled
  <2>2. t \notin Polled[c]
    BY <1>1 DEF Listing
  <2>3. /\ Append(polls[c], t) \in Seq(Cpu) /\ Append(polls[c], t) # <<>>
        /\ Range(Append(polls[c], t)) = Polled[c] \cup {t} /\ Once(Append(polls[c], t))
        /\ polls[c] # <<>> => Head(Append(polls[c], t)) = Head(polls[c])
    BY <2>1, <2>2, RangeAppend, AppendProperties
  <2>4. /\ polls' \in [Cpu -> Seq(Cpu)] /\ polls'[c] = Append(polls[c], t)
        /\ \A d \in Cpu \ {c} : polls'[d] = polls[d]
        /\ Polled' = [Polled EXCEPT ![c] = Polled[c] \cup {t}]
    BY <2>1, <2>3, PollsBecome DEF RxInv
  <2>5. Listing([Polled EXCEPT ![c] = @ \cup {t}], ipis, flying, scheduled \cup {t}, lost)
    BY <1>1, ListingSchedules
  <2>6. Polled' = [Polled EXCEPT ![c] = @ \cup {t}]
    BY <2>4
  <2>7. Listing(Polled, ipis, flying, scheduled, lost)'
    BY <1>2, <2>1, <2>5, <2>6
  <2>8. \A d \in Cpu : Once(polls[d])'
    BY <2>3, <2>4 DEF RxInv, Listed, Once
  <2>9. \A d \in Cpu : polls[d] # <<>> => polls'[d] # <<>> /\ Head(polls'[d]) = Head(polls[d])
    BY <2>3, <2>4
  <2>10. Listed'
    BY <2>7, <2>8, <2>9 DEF RxInv, Listed
  <2> QED
    BY <1>2, <2>1, <2>4, <2>10
<1>4. CASE t # c
  <2>1. polls' = polls /\ ipis' = [ipis EXCEPT ![c] = @ \cup {t}]
    BY <1>2, <1>4 DEF Kick
  <2>2. Listing(Polled, [ipis EXCEPT ![c] = @ \cup {t}], flying, scheduled \cup {t}, lost)
    BY <1>1, ListingQueues
  <2>3. Polled' = Polled
    BY <2>1 DEF Polled
  <2>4. Listing(Polled, ipis, flying, scheduled, lost)'
    BY <1>2, <2>1, <2>2, <2>3
  <2>5. Listed'
    BY <2>1, <2>4 DEF RxInv, Listed
  <2> QED
    BY <1>2, <2>1, <2>5
<1> QED
  BY <1>3, <1>4

LEMMA EnqueueToBacklogKeeps == RxInv /\ EnqueueToBacklog => RxInv'
<1> SUFFICES ASSUME RxInv, EnqueueToBacklog
             PROVE  RxInv'
  OBVIOUS
<1>1. /\ arrival # NoArrival /\ arrival' = NoArrival
      /\ UNCHANGED <<steering, reader, process, head, flying, action, online, device,
                     unplug, arrived, moved, got, lost>>
  BY DEF EnqueueToBacklog
<1>0. PICK c \in Cpu, t \in Cpu, x \in Nat :
        c = arrival.on /\ t = arrival.to /\ x = arrival.skb /\ c \in online /\ t \in online
  BY <1>1, TypedFact DEF RxInv, Typed, Handed, ArrivalState
<1>2. c \in online /\ t \in online /\ c \in Cpu /\ t \in Cpu /\ x \in Nat
  BY <1>0
<1>3. \A d, s \in Cpu : /\ Delivers(d, s)' <=> Delivers(d, s)
                        /\ Delivers(d, s)' => action'[d].skb = action[d].skb
  BY <1>1 DEF Delivers
<1>4. NoArrival \in ArrivalState
  BY DEF NoArrival, ArrivalState
<1>5. arrival.tracked \in BOOLEAN
  BY TypedFact DEF RxInv, Typed, ArrivalState
<1>6. CASE Len(input[t]) > MaxBacklog
  <2>1. UNCHANGED <<input, tail, rflow, scheduled, polls, ipis, raised, astray>>
    BY <1>0, <1>6 DEF EnqueueToBacklog
  <2>2. RxTypeOK'
    BY <1>1, <1>4, <2>1, TypedFact DEF RxInv, Typed
  <2>3. Listed'
    BY <1>1, <2>1, ListedKept DEF RxInv
  <2>4. Tallied'
    BY <1>1, <1>3, <2>1, TalliedKept DEF RxInv
  <2>5. Handed'
    BY <1>1 DEF RxInv, Handed
  <2>6. Leaving'
    BY <1>1, <2>1 DEF RxInv, Leaving, Bare
  <2>7. ~astray' => Lined'
    <3> SUFFICES ASSUME Lined
                 PROVE  Lined'
      BY <2>1 DEF RxInv
    <3>1. UNCHANGED Home /\ \A d \in Cpu : Backlog(d)' = Backlog(d) /\ Bare(d)' = Bare(d)
      BY <1>1, <2>1 DEF Home, Backlog, Bare
    <3>2. /\ Latest \in Nat /\ Latest' \in Nat /\ Latest <= Latest' /\ got \in Nat
          /\ got <= Latest
      <4>1. Latest' = arrived
        BY <1>1 DEF Latest
      <4> QED
        BY <4>1, LatestFact
    <3>3. \A d \in Cpu : Backlog(d) \in Seq(Nat)
      BY LatestFact
    <3>4. \A d \in Cpu : Ascending(got, Backlog(d), Latest)'
      <4> SUFFICES ASSUME NEW d \in Cpu
                   PROVE  Ascending(got, Backlog(d), Latest')
        BY <1>1, <3>1 DEF Ascending
      <4>1. Ascending(got, Backlog(d), Latest)
        BY DEF Lined
      <4> QED
        BY <3>2, <3>3, <4>1, AscendingWider
    <3>5. ASSUME NEW d \in Cpu, NEW s \in Cpu, Delivers(d, s)'
          PROVE  /\ s = Home' /\ got' <= action'[d].skb /\ action'[d].skb <= Latest'
                 /\ Ascending(action[d].skb, Backlog(s), Latest)'
      <4>1. /\ s = Home /\ got <= action[d].skb /\ action[d].skb <= Latest
            /\ Ascending(action[d].skb, Backlog(s), Latest)
        BY <1>3, <3>5 DEF Lined
      <4>2. action[d].skb \in Nat
        BY TypedFact DEF RxInv, Typed, ActionState
      <4>3. Ascending(action[d].skb, Backlog(s), Latest')
        BY <3>2, <3>3, <4>1, <4>2, AscendingWider
      <4>4. Ascending(action[d].skb, Backlog(s), Latest)'
        BY <1>1, <3>1, <4>3 DEF Ascending
      <4> QED
        BY <1>1, <3>1, <3>2, <4>1, <4>2, <4>4
    <3>6. /\ steering' # "none" /\ online' = Cpu /\ unplug'.dead = NoCpu
          /\ \A d \in Cpu : d # Home' => Bare(d)'
          /\ steering' = "rfs" /\ Home' \in Cpu => tail'[Home'] <= rflow'.qtail
          /\ got' <= Latest'
      BY <1>1, <2>1, <3>1, <3>2 DEF Lined
    <3> QED
      BY <1>1, <3>4, <3>5, <3>6 DEF Lined
  <2> QED
    BY <2>2, <2>3, <2>4, <2>5, <2>6, <2>7 DEF RxInv
<1>7. CASE ~(Len(input[t]) > MaxBacklog)
  <2>1. /\ input' = [input EXCEPT ![t] = Append(input[t], x)]
        /\ tail' = [tail EXCEPT ![t] = tail[t] + 1]
        /\ rflow' = IF arrival.tracked THEN [rflow EXCEPT !.qtail = tail[t] + 1] ELSE rflow
        /\ IF input[t] = <<>> /\ t \notin scheduled THEN Kick(c, t)
           ELSE UNCHANGED <<scheduled, polls, ipis, raised>>
        /\ astray' = (astray \/ (steering = "rfs" /\ ~arrival.tracked))
    BY <1>0, <1>7 DEF EnqueueToBacklog
  <2>2. /\ Append(input[t], x) \in Seq(Nat) /\ Append(input[t], x) # <<>>
        /\ Len(Append(input[t], x)) = Len(input[t]) + 1 /\ tail[t] + 1 \in Nat
    <3>1. input[t] \in Seq(Nat) /\ tail[t] \in Nat
      BY <1>2, BacklogFact DEF RxInv
    <3>2. tail[t] + 1 \in Nat
      BY <3>1
    <3> QED
      BY <1>2, <3>1, <3>2, QueueGains, Zenon
  <2>3. /\ input' \in [Cpu -> Seq(Nat)] /\ tail' \in [Cpu -> Nat]
        /\ input'[t] = Append(input[t], x) /\ tail'[t] = tail[t] + 1
        /\ \A s \in Cpu \ {t} : input'[s] = input[s] /\ tail'[s] = tail[s]
    BY <1>2, <2>1, <2>2, TypedFact DEF RxInv, Typed
  <2>4. /\ rflow' \in RflowState /\ rflow'.cpu = rflow.cpu
        /\ arrival.tracked => rflow'.qtail = tail[t] + 1
        /\ ~arrival.tracked => rflow' = rflow
    BY <2>1, <2>2, TypedFact DEF RxInv, Typed, RflowState
  <2>5. /\ Listed'
        /\ polls' \in [Cpu -> Seq(Cpu)] /\ ipis' \in [Cpu -> SUBSET Cpu]
        /\ scheduled' \subseteq Cpu /\ scheduled \subseteq scheduled' /\ raised' \subseteq Cpu
        /\ input[t] # <<>> \/ t \in scheduled'
    <3>1. CASE input[t] = <<>> /\ t \notin scheduled
      <4>1. scheduled \subseteq Cpu
        BY TypedFact DEF RxInv, Typed
      <4>2. Kick(c, t) /\ UNCHANGED <<flying, lost, action>>
        BY <1>1, <2>1, <3>1
      <4>3. /\ Listed'
            /\ polls' \in [Cpu -> Seq(Cpu)] /\ ipis' \in [Cpu -> SUBSET Cpu]
            /\ scheduled' = scheduled \cup {t} /\ raised' \subseteq Cpu
        BY <1>2, <3>1, <4>2, KickFact
      <4> QED
        BY <1>2, <4>1, <4>3
    <3>2. CASE ~(input[t] = <<>> /\ t \notin scheduled)
      <4>1. UNCHANGED <<scheduled, polls, ipis, raised>>
        BY <2>1, <3>2
      <4>2. Listed'
        BY <1>1, <4>1, ListedKept DEF RxInv
      <4> QED
        BY <3>2, <4>1, <4>2, TypedFact DEF RxInv, Typed
    <3> QED
      BY <3>1, <3>2
  <2>6. RxTypeOK'
    <3>1. astray' \in BOOLEAN
      BY <2>1, TypedFact DEF RxInv, Typed
    <3> QED
      BY <1>1, <1>4, <2>3, <2>4, <2>5, <3>1, TypedFact DEF RxInv, Typed
  <2>7. Tallied'
    <3> SUFFICES ASSUME NEW s \in Cpu
                 PROVE  /\ tail'[s] = head'[s] + Len(input'[s]) + Len(process'[s])
                             + (IF \E d \in Cpu : Delivers(d, s)' THEN 1 ELSE 0)
                        /\ s \in online' /\ (input'[s] # <<>> \/ process'[s] # <<>>)
                             => s \in scheduled'
      BY DEF Tallied
    <3>1. /\ tail[s] = head[s] + Len(input[s]) + Len(process[s])
                         + (IF \E d \in Cpu : Delivers(d, s) THEN 1 ELSE 0)
          /\ s \in online /\ (input[s] # <<>> \/ process[s] # <<>>) => s \in scheduled
      BY DEF RxInv, Tallied
    <3>2. (\E d \in Cpu : Delivers(d, s)') <=> (\E d \in Cpu : Delivers(d, s))
      BY <1>3
    <3>3. CASE s = t
      <4>1. /\ tail'[s] = tail[s] + 1 /\ Len(input'[s]) = Len(input[s]) + 1
            /\ process'[s] = process[s] /\ head'[s] = head[s]
        BY <1>1, <2>2, <2>3, <3>3, Zenon
      <4>2. s \in scheduled'
        BY <1>2, <2>5, <3>1, <3>3
      <4>3. tail'[s] = head'[s] + Len(input'[s]) + Len(process'[s])
                         + (IF \E d \in Cpu : Delivers(d, s)' THEN 1 ELSE 0)
        <5> DEFINE n == Len(input'[s])
        <5>1. n = Len(input[s]) + 1
          BY <4>1
        <5> HIDE DEF n
        <5>2. tail'[s] = head[s] + n + Len(process[s])
                           + (IF \E d \in Cpu : Delivers(d, s)' THEN 1 ELSE 0)
          <6> DEFINE u == tail[s]
                     h == head[s]
                     l == Len(input[s])
                     m == Len(process[s])
                     busy == \E d \in Cpu : Delivers(d, s)
          <6>1. u \in Nat /\ h \in Nat /\ l \in Nat /\ m \in Nat
            BY BacklogFact DEF RxInv
          <6>2. u = h + l + m + (IF busy THEN 1 ELSE 0) /\ n = l + 1
            BY <3>1, <5>1
          <6> HIDE DEF u, h, l, m, busy
          <6>3. u + 1 = h + n + m + (IF busy THEN 1 ELSE 0)
            BY <6>1, <6>2
          <6> QED
            BY <3>2, <4>1, <6>3 DEF u, h, m, busy
        <5> QED
          BY <4>1, <5>2 DEF n
      <4> QED
        BY <4>2, <4>3
    <3>4. CASE s # t
      BY <1>1, <2>3, <2>5, <3>1, <3>2, <3>4
    <3> QED
      BY <3>3, <3>4
  <2>8. Handed'
    BY <1>1 DEF RxInv, Handed
  <2>9. Leaving'
    <3>1. \A d \in Cpu \ online : Bare(d)' = Bare(d)
      BY <1>1, <1>2, <2>3 DEF Bare
    <3>2. /\ ~(device.pc = "flushing" /\ device.calm)
          /\ ~(device.pc = "gone" /\ device.calm)
      BY <1>1 DEF RxInv, Leaving
    <3> QED
      BY <1>1, <3>1, <3>2 DEF RxInv, Leaving
  <2>10. ~astray' => Lined'
    <3> SUFFICES ASSUME ~astray'
                 PROVE  Lined'
      OBVIOUS
    <3>1. /\ Lined /\ (steering = "rfs" => arrival.tracked)
          /\ steering \in {"rps", "rfs"}
      BY <2>1, SteeringsAssumption, TypedFact DEF RxInv, Typed, Lined
    <3>2. /\ x = arrived /\ t = Home /\ (steering = "rps" => ~arrival.tracked)
      BY <1>0, <1>1, <3>1 DEF Lined
    <3>3. Home' = Home
      BY <1>1, <2>4 DEF Home
    <3>4. /\ Latest \in Nat /\ Latest' = x /\ Latest <= x /\ got \in Nat /\ got <= Latest
      <4>1. Latest' = arrived
        BY <1>1 DEF Latest
      <4> QED
        BY <3>1, <3>2, <4>1, LatestFact
    <3>5. /\ \A d \in Cpu \ {t} : Bare(d)' = Bare(d) /\ Backlog(d)' = Backlog(d)
          /\ Backlog(t)' = Append(Backlog(t), x)
      <4>1. process[t] \in Seq(Nat) /\ input[t] \in Seq(Nat)
        BY <1>2, BacklogFact DEF RxInv
      <4>2. process[t] \o Append(input[t], x) = Append(process[t] \o input[t], x)
        BY <4>1, BacklogGains, Zenon
      <4>3. Backlog(t)' = Append(Backlog(t), x)
        <5>1. process'[t] = process[t] /\ input'[t] = Append(input[t], x)
          BY <1>1, <2>3
        <5> QED
          BY <4>2, <5>1, Zenon DEF Backlog
      <4>4. \A d \in Cpu \ {t} : Bare(d)' = Bare(d) /\ Backlog(d)' = Backlog(d)
        BY <1>1, <2>3 DEF Backlog, Bare
      <4> QED
        BY <4>3, <4>4
    <3>6. \A d \in Cpu : Backlog(d) \in Seq(Nat)
      BY <3>1, LatestFact
    <3>7. ASSUME NEW low \in Nat, low <= Latest, NEW d \in Cpu, Ascending(low, Backlog(d), Latest)
          PROVE  Ascending(low, Backlog(d)', Latest')
      <4>1. CASE d = t
        <5>1. Ascending(low, Append(Backlog(d), x), x)
          BY <1>2, <3>4, <3>6, <3>7, AscendingAppend
        <5> QED
          BY <3>4, <3>5, <4>1, <5>1, Zenon
      <4>2. CASE d # t
        <5>1. Ascending(low, Backlog(d), x)
          BY <1>2, <3>4, <3>6, <3>7, AscendingWider
        <5> QED
          BY <3>4, <3>5, <4>2, <5>1
      <4> QED
        BY <4>1, <4>2
    <3>8. \A d \in Cpu : Ascending(got, Backlog(d), Latest)'
      <4> SUFFICES ASSUME NEW d \in Cpu
                   PROVE  Ascending(got', Backlog(d)', Latest')
        BY DEF Ascending
      <4>1. Ascending(got, Backlog(d), Latest)
        BY <3>1 DEF Lined
      <4> QED
        BY <1>1, <3>4, <3>7, <4>1
    <3>9. ASSUME NEW d \in Cpu, NEW s \in Cpu, Delivers(d, s)'
          PROVE  /\ s = Home' /\ got' <= action'[d].skb /\ action'[d].skb <= Latest'
                 /\ Ascending(action[d].skb, Backlog(s), Latest)'
      <4>1. /\ s = Home /\ got <= action[d].skb /\ action[d].skb <= Latest
            /\ Ascending(action[d].skb, Backlog(s), Latest)
        BY <1>3, <3>1, <3>9 DEF Lined
      <4>2. action[d].skb \in Nat
        BY TypedFact DEF RxInv, Typed, ActionState
      <4>3. Ascending(action[d].skb, Backlog(s)', Latest')
        BY <3>7, <4>1, <4>2
      <4>4. Ascending(action[d].skb, Backlog(s), Latest)'
        BY <1>1, <4>3 DEF Ascending
      <4> QED
        BY <1>1, <1>2, <3>3, <3>4, <4>1, <4>2, <4>4
    <3>10. steering' = "rfs" /\ Home' \in Cpu => tail'[Home'] <= rflow'.qtail
      BY <1>1, <2>2, <2>3, <2>4, <3>1, <3>2, <3>3
    <3>11. /\ steering' # "none" /\ online' = Cpu /\ unplug'.dead = NoCpu
           /\ \A d \in Cpu : d # Home' => Bare(d)'
           /\ got' <= Latest'
      BY <1>1, <1>2, <3>1, <3>2, <3>3, <3>4, <3>5 DEF Lined
    <3> QED
      BY <1>1, <3>8, <3>9, <3>10, <3>11 DEF Lined
  <2> QED
    BY <2>5, <2>6, <2>7, <2>8, <2>9, <2>10 DEF RxInv
<1> QED
  BY <1>6, <1>7

\* A flow that is in order stays so when it loses its first packet.
First(p, q) == Head(IF p = <<>> THEN q ELSE p)
RestOfFirst(p, q) == Tail(IF p = <<>> THEN q ELSE p)
RestOfSecond(p, q) == IF p = <<>> THEN <<>> ELSE q

LEMMA LosesFact ==
  \A p, q \in Seq(Nat) : p # <<>> \/ q # <<>> =>
    /\ p \o q \in Seq(Nat) /\ p \o q # <<>>
    /\ First(p, q) = Head(p \o q) /\ RestOfFirst(p, q) \o RestOfSecond(p, q) = Tail(p \o q)
    /\ First(p, q) \in Nat
    /\ RestOfFirst(p, q) \in Seq(Nat) /\ RestOfSecond(p, q) \in Seq(Nat)
    /\ Len(RestOfFirst(p, q)) + Len(RestOfSecond(p, q)) + 1 = Len(p) + Len(q)
<1> TAKE p, q \in Seq(Nat)
<1> HAVE p # <<>> \/ q # <<>>
<1> USE DEF First, RestOfFirst, RestOfSecond
<1>1. CASE p = <<>>
  <2>1. /\ q # <<>> /\ First(p, q) = Head(q) /\ RestOfFirst(p, q) = Tail(q)
        /\ RestOfSecond(p, q) = <<>>
    BY <1>1
  <2>2. Head(q) \in Nat /\ Tail(q) \in Seq(Nat) /\ Len(Tail(q)) = Len(q) - 1
    BY <2>1, HeadTailProperties
  <2>3. p \o q = q /\ Tail(q) \o <<>> = Tail(q) /\ <<>> \in Seq(Nat)
    BY <1>1, <2>2, ConcatEmptySeq
  <2>4. Len(p) = 0 /\ Len(<<>>) = 0 /\ Len(q) \in Nat
    BY <1>1, LenProperties
  <2> HIDE DEF First, RestOfFirst, RestOfSecond
  <2>5. Len(Tail(q)) + Len(<<>>) + 1 = Len(p) + Len(q)
    BY <2>2, <2>4
  <2>6. p \o q \in Seq(Nat) /\ p \o q # <<>> /\ <<>> \in Seq(Nat)
    BY <2>1, <2>3, Zenon
  <2> QED
    BY <2>1, <2>2, <2>3, <2>5, <2>6, Zenon
<1>2. CASE p # <<>>
  <2>1. /\ First(p, q) = Head(p) /\ RestOfFirst(p, q) = Tail(p) /\ RestOfSecond(p, q) = q
    BY <1>2
  <2>2. Head(p) \in Nat /\ Tail(p) \in Seq(Nat) /\ Len(Tail(p)) = Len(p) - 1
    BY <1>2, HeadTailProperties
  <2>3. /\ p \o q \in Seq(Nat) /\ p \o q # <<>>
        /\ Head(p \o q) = Head(p) /\ Tail(p \o q) = Tail(p) \o q
    BY <1>2, BacklogLoses
  <2>4. Len(p) \in Nat /\ Len(q) \in Nat
    BY LenProperties
  <2> HIDE DEF First, RestOfFirst, RestOfSecond
  <2>5. Len(Tail(p)) + Len(q) + 1 = Len(p) + Len(q)
    BY <2>2, <2>4
  <2> QED
    BY <2>1, <2>2, <2>3, <2>5, Zenon
<1> QED
  BY <1>1, <1>2

LEMMA DequeueKeeps == ASSUME RxInv, NEW c \in Cpu, Dequeue(c) PROVE RxInv'
<1>1. action[c].pc = "loop"
  BY DEF Dequeue
<1>2. PICK s \in Cpu : /\ s = action[c].of
                       /\ \A d \in Cpu : action[d].pc \in {"loop", "deliver"} /\ action[d].of = s
                                           => d = c
  BY <1>1, RunsFact DEF RxInv
<1> DEFINE ready == IF process[s] = <<>> THEN input[s] ELSE process[s]
<1>3. /\ ready # <<>>
      /\ process' = [process EXCEPT ![s] = Tail(ready)]
      /\ input' = IF process[s] = <<>> THEN [input EXCEPT ![s] = <<>>] ELSE input
      /\ action' = [action EXCEPT ![c].pc = "deliver", ![c].skb = Head(ready)]
      /\ UNCHANGED <<steering, arrival, reader, rflow, head, tail, napi, online, device,
                     unplug, rxHist>>
  BY <1>2 DEF Dequeue
<1>4. input \in [Cpu -> Seq(Nat)] /\ process \in [Cpu -> Seq(Nat)]
  BY TypedFact DEF RxInv, Typed
<1>5. /\ process'[s] = Tail(ready)
      /\ input'[s] = IF process[s] = <<>> THEN <<>> ELSE input[s]
      /\ \A d \in Cpu \ {s} : input'[d] = input[d] /\ process'[d] = process[d]
  BY <1>3, <1>4
<1>6. /\ Backlog(s) \in Seq(Nat) /\ Backlog(s) # <<>>
      /\ Head(ready) = Head(Backlog(s)) /\ Backlog(s)' = Tail(Backlog(s))
      /\ Head(ready) \in Nat /\ process'[s] \in Seq(Nat) /\ input'[s] \in Seq(Nat)
      /\ Len(process'[s]) + Len(input'[s]) + 1 = Len(process[s]) + Len(input[s])
  <2>1. process[s] \in Seq(Nat) /\ input[s] \in Seq(Nat)
    BY <1>4
  <2>2. /\ Head(ready) = First(process[s], input[s])
        /\ process'[s] = RestOfFirst(process[s], input[s])
        /\ input'[s] = RestOfSecond(process[s], input[s])
    BY <1>5 DEF First, RestOfFirst, RestOfSecond
  <2>3. process[s] # <<>> \/ input[s] # <<>>
    BY <1>3
  <2> HIDE DEF ready
  <2>4. /\ process[s] \o input[s] \in Seq(Nat) /\ process[s] \o input[s] # <<>>
        /\ Head(ready) = Head(process[s] \o input[s])
        /\ process'[s] \o input'[s] = Tail(process[s] \o input[s])
        /\ Head(ready) \in Nat /\ process'[s] \in Seq(Nat) /\ input'[s] \in Seq(Nat)
        /\ Len(process'[s]) + Len(input'[s]) + 1 = Len(process[s]) + Len(input[s])
    BY <2>1, <2>2, <2>3, LosesFact, Zenon
  <2> QED
    BY <2>4, Zenon DEF Backlog
<1>7. input' \in [Cpu -> Seq(Nat)] /\ process' \in [Cpu -> Seq(Nat)]
  BY <1>3, <1>4, <1>5, <1>6
<1>8. PICK x \in Nat : x = Head(ready)
  BY <1>6
<1>9. input[s] # <<>> \/ process[s] # <<>>
  BY <1>3
<1>10. /\ action' \in [Cpu -> ActionState]
       /\ action'[c].pc = "deliver" /\ action'[c].of = s /\ action'[c].skb = x
       /\ \A d \in Cpu \ {c} : action'[d] = action[d]
  <2> DEFINE new == [action[c] EXCEPT !.pc = "deliver", !.skb = x]
  <2>1. action \in [Cpu -> ActionState]
    BY TypedFact DEF RxInv, Typed
  <2>2. action' = [action EXCEPT ![c] = new]
    BY <1>3, <1>8, <2>1
  <2>3. new \in ActionState /\ new.pc = "deliver" /\ new.of = s /\ new.skb = x
    BY <1>2, <2>1 DEF ActionState
  <2> HIDE DEF new
  <2> QED
    BY <2>2, <2>3, ActionBecomes DEF RxInv
<1> HIDE DEF ready
<1>11. RxTypeOK'
  BY <1>3, <1>7, <1>10, TypedFact DEF RxInv, Typed
<1>12. Listed'
  <2>1. \A d \in Cpu : action'[d].pc \in {"loop", "deliver"} =>
                         action[d].pc \in {"loop", "deliver"} /\ action'[d].of = action[d].of
    BY <1>1, <1>2, <1>10
  <2> QED
    BY <1>3, <2>1, ListedKept DEF RxInv
<1>13. /\ \A d \in Cpu : ~Delivers(d, s)
       /\ Delivers(c, s)'
       /\ \A e \in Cpu \ {s} : /\ ~Delivers(c, e) /\ ~Delivers(c, e)'
                               /\ \A d \in Cpu : Delivers(d, e)' <=> Delivers(d, e)
       /\ \A d \in Cpu : Delivers(d, s)' => d = c
  BY <1>1, <1>2, <1>10 DEF Delivers
<1>14. Tallied'
  <2> SUFFICES ASSUME NEW e \in Cpu
               PROVE  /\ tail'[e] = head'[e] + Len(input'[e]) + Len(process'[e])
                           + (IF \E d \in Cpu : Delivers(d, e)' THEN 1 ELSE 0)
                      /\ e \in online' /\ (input'[e] # <<>> \/ process'[e] # <<>>)
                           => e \in scheduled'
    BY DEF Tallied
  <2>1. /\ tail[e] = head[e] + Len(input[e]) + Len(process[e])
                       + (IF \E d \in Cpu : Delivers(d, e) THEN 1 ELSE 0)
        /\ e \in online /\ (input[e] # <<>> \/ process[e] # <<>>) => e \in scheduled
    BY DEF RxInv, Tallied
  <2>2. CASE e = s
    <3> DEFINE h == head[s]
               l == Len(input[s])
               m == Len(process[s])
               l2 == Len(input'[s])
               m2 == Len(process'[s])
    <3>1. tail[s] = h + l + m
      BY <1>13, <2>1, <2>2, BacklogFact DEF RxInv
    <3>2. h \in Nat /\ l \in Nat /\ m \in Nat /\ l2 \in Nat /\ m2 \in Nat
      BY <1>6, BacklogFact, LenProperties DEF RxInv
    <3>3. m2 + l2 + 1 = m + l
      BY <1>6
    <3> HIDE DEF h, l, m, l2, m2
    <3>4. tail[s] = h + l2 + m2 + 1
      BY <3>1, <3>2, <3>3
    <3>5. (\E d \in Cpu : Delivers(d, e)') = TRUE
      BY <1>13, <2>2
    <3>6. tail'[e] = head'[e] + Len(input'[e]) + Len(process'[e]) + 1
      BY <1>3, <2>2, <3>4 DEF h, l2, m2
    <3>7. e \in online' => e \in scheduled'
      BY <1>3, <1>9, <2>1, <2>2
    <3> QED
      BY <3>5, <3>6, <3>7
  <2>3. CASE e # s
    <3>1. (\E d \in Cpu : Delivers(d, e)') <=> (\E d \in Cpu : Delivers(d, e))
      BY <1>13, <2>3
    <3>2. /\ tail'[e] = tail[e] /\ head'[e] = head[e] /\ input'[e] = input[e]
          /\ process'[e] = process[e] /\ online' = online /\ scheduled' = scheduled
      BY <1>3, <1>5, <2>3
    <3> QED
      BY <2>1, <3>1, <3>2
  <2> QED
    BY <2>2, <2>3
<1>15. Handed'
  BY <1>3, HandedKept DEF RxInv
<1>16. \A d \in Cpu : Bare(d) => Bare(d)'
  BY <1>5, <1>9 DEF Bare
<1>17. Leaving'
  <2>1. device.flushed \subseteq Cpu
    BY TypedFact DEF RxInv, Typed, DeviceState
  <2> QED
    BY <1>3, <1>16, <2>1 DEF RxInv, Leaving
<1>18. ~astray' => Lined'
  <2> SUFFICES ASSUME Lined
               PROVE  Lined'
    BY <1>3 DEF RxInv
  <2>1. /\ got \in Nat /\ Latest \in Nat /\ got <= Latest
        /\ \A d \in Cpu : Backlog(d) \in Seq(Nat)
    BY LatestFact
  <2>2. Home' = Home /\ Latest' = Latest /\ got' = got
    BY <1>3 DEF Home, Latest
  <2>3. s = Home
    BY <1>9 DEF Lined, Bare
  <2>4. /\ got <= x /\ x <= Latest /\ Ascending(x, Backlog(s)', Latest)
    <3>1. Ascending(got, Backlog(s), Latest)
      BY DEF Lined
    <3>2. /\ got <= Head(Backlog(s)) /\ Head(Backlog(s)) <= Latest
          /\ Ascending(Head(Backlog(s)), Tail(Backlog(s)), Latest)
      BY <1>6, <2>1, <3>1, AscendingTail
    <3> QED
      BY <1>6, <1>8, <3>2, Zenon
  <2>5. \A d \in Cpu : Ascending(got, Backlog(d), Latest)'
    <3> SUFFICES ASSUME NEW d \in Cpu
                 PROVE  Ascending(got', Backlog(d)', Latest')
      BY DEF Ascending
    <3>1. CASE d = s
      <4>1. Tail(Backlog(s)) \in Seq(Nat)
        BY <1>6, HeadTailProperties
      <4>2. Backlog(s)' \in Seq(Nat)
        BY <1>6, <4>1, Zenon
      <4>3. Ascending(got, Backlog(s)', Latest)
        BY <2>1, <2>4, <4>2, AscendingWider
      <4> QED
        BY <2>2, <3>1, <4>3, Zenon
    <3>2. CASE d # s
      <4>1. Backlog(d)' = Backlog(d)
        BY <1>5, <3>2 DEF Backlog
      <4>2. Ascending(got, Backlog(d), Latest)
        BY DEF Lined
      <4> QED
        BY <2>2, <4>1, <4>2, Zenon
    <3> QED
      BY <3>1, <3>2
  <2>6. ASSUME NEW d \in Cpu, NEW e \in Cpu, Delivers(d, e)'
        PROVE  /\ e = Home' /\ got' <= action'[d].skb /\ action'[d].skb <= Latest'
               /\ Ascending(action[d].skb, Backlog(e), Latest)'
    <3>1. e = s /\ d = c
      <4>1. CASE e = s
        BY <1>13, <2>6, <4>1
      <4>2. CASE e # s
        BY <1>13, <2>3, <2>6, <4>2 DEF Lined
      <4> QED
        BY <4>1, <4>2
    <3>2. Ascending(action'[d].skb, Backlog(e)', Latest')
      BY <1>10, <2>2, <2>4, <3>1, Zenon
    <3>3. Ascending(action[d].skb, Backlog(e), Latest)'
      BY <3>2 DEF Ascending
    <3> QED
      BY <1>10, <2>2, <2>3, <2>4, <3>1, <3>3
  <2>7. /\ steering' # "none" /\ online' = Cpu /\ unplug'.dead = NoCpu
        /\ \A d \in Cpu : d # Home' => Bare(d)'
        /\ steering' = "rfs" /\ Home' \in Cpu => tail'[Home'] <= rflow'.qtail
        /\ arrival' # NoArrival =>
             /\ arrival'.skb = arrived'
             /\ steering' = "rps" => ~arrival'.tracked
             /\ steering' = "rps" \/ arrival'.tracked => arrival'.to = Home'
        /\ got' <= Latest'
    BY <1>3, <1>16, <2>2 DEF Lined
  <2> QED
    BY <2>5, <2>6, <2>7 DEF Lined
<1> QED
  BY <1>11, <1>12, <1>14, <1>15, <1>17, <1>18 DEF RxInv

LEMMA DeliverKeeps == ASSUME RxInv, NEW c \in Cpu, Deliver(c) PROVE RxInv'
<1>1. action[c].pc = "deliver"
  BY DEF Deliver
<1>2. PICK s \in Cpu : /\ s = action[c].of /\ polls[c] # <<>> /\ s = Head(polls[c])
                       /\ \A d \in Cpu : action[d].pc \in {"loop", "deliver"} /\ action[d].of = s
                                           => d = c
  BY <1>1, RunsFact DEF RxInv
<1>3. /\ got' = action[c].skb
      /\ head' = [head EXCEPT ![s] = @ + 1]
      /\ UNCHANGED <<steering, arrival, reader, rflow, input, process, tail, scheduled,
                     ipis, flying, raised, online, device, unplug, arrived, moved, astray,
                     lost>>
  BY <1>2 DEF Deliver
<1>4. action \in [Cpu -> ActionState] /\ head \in [Cpu -> Nat] /\ polls \in [Cpu -> Seq(Cpu)]
  BY TypedFact DEF RxInv, Typed
<1>5. /\ head' \in [Cpu -> Nat] /\ head'[s] = head[s] + 1
      /\ \A e \in Cpu \ {s} : head'[e] = head[e]
  BY <1>3, <1>4
<1>6. /\ action' \in [Cpu -> ActionState]
      /\ \A d \in Cpu \ {c} : action'[d] = action[d]
      /\ \/ action'[c].pc = "loop" /\ action'[c].of = s /\ polls' = polls
         \/ action'[c].pc = "rx" /\ polls' = [polls EXCEPT ![c] = Append(Tail(@), Head(@))]
  <2> DEFINE new == [action[c] EXCEPT !.pc = "loop", !.skb = 0, !.work = action[c].work + 1]
  <2>1. new \in ActionState /\ new.pc = "loop" /\ new.of = s
    <3>1. action[c] \in ActionState
      BY <1>4
    <3>2. PICK w \in Nat : w = action[c].work + 1
      BY <3>1 DEF ActionState
    <3>3. new = [action[c] EXCEPT !.pc = "loop", !.skb = 0, !.work = w]
      BY <3>2
    <3> HIDE DEF new
    <3> QED
      BY <1>2, <3>1, <3>3 DEF ActionState
  <2>2. \/ action' = [action EXCEPT ![c] = new] /\ polls' = polls
        \/ /\ action' = [action EXCEPT ![c] = AfterPoll]
           /\ polls' = [polls EXCEPT ![c] = Append(Tail(@), Head(@))]
    BY <1>4 DEF Deliver, AfterPoll
  <2> HIDE DEF new
  <2>3. CASE action' = [action EXCEPT ![c] = new] /\ polls' = polls
    BY <2>1, <2>3, ActionBecomes DEF RxInv
  <2>4. CASE /\ action' = [action EXCEPT ![c] = AfterPoll]
             /\ polls' = [polls EXCEPT ![c] = Append(Tail(@), Head(@))]
    BY <2>4, AfterPollFact, ActionBecomes DEF RxInv
  <2> QED
    BY <2>2, <2>3, <2>4
<1>7. /\ polls' \in [Cpu -> Seq(Cpu)] /\ UNCHANGED Polled
      /\ \A d \in Cpu : Once(polls'[d])
      /\ \A d \in Cpu \ {c} : polls'[d] = polls[d]
  <2>1. \A d \in Cpu : Once(polls[d])
    BY DEF RxInv, Listed
  <2>2. CASE polls' = polls
    BY <1>4, <2>1, <2>2 DEF Polled
  <2>3. CASE polls' = [polls EXCEPT ![c] = Append(Tail(@), Head(@))]
    <3> DEFINE q == Append(Tail(polls[c]), Head(polls[c]))
    <3>1. q \in Seq(Cpu) /\ Range(q) = Range(polls[c]) /\ Once(q)
      BY <1>2, <1>4, <2>1, RangeRotate
    <3>2. polls' = [polls EXCEPT ![c] = q]
      BY <2>3
    <3> HIDE DEF q
    <3>3. /\ polls' \in [Cpu -> Seq(Cpu)] /\ polls'[c] = q
          /\ \A d \in Cpu \ {c} : polls'[d] = polls[d]
          /\ Polled' = [Polled EXCEPT ![c] = Range(q)]
      BY <3>1, <3>2, PollsBecome DEF RxInv
    <3>4. Polled' = Polled
      BY <3>1, <3>3 DEF Polled
    <3> QED
      BY <2>1, <3>1, <3>3, <3>4
  <2> QED
    BY <1>6, <2>2, <2>3
<1>8. RxTypeOK'
  <2>1. got' \in Nat
    BY <1>3, <1>4 DEF ActionState
  <2> QED
    BY <1>3, <1>5, <1>6, <1>7, <2>1, TypedFact DEF RxInv, Typed
<1>9. Listed'
  <2>1. Listing(Polled, ipis, flying, scheduled, lost)'
    BY <1>3, <1>7 DEF RxInv, Listed
  <2>2. \A d \in Cpu : action'[d].pc \in {"loop", "deliver"} =>
                         polls'[d] # <<>> /\ action'[d].of = Head(polls'[d])
    <3> SUFFICES ASSUME NEW d \in Cpu, action'[d].pc \in {"loop", "deliver"}
                 PROVE  polls'[d] # <<>> /\ action'[d].of = Head(polls'[d])
      OBVIOUS
    <3>1. CASE d = c
      BY <1>2, <1>6, <3>1
    <3>2. CASE d # c
      BY <1>6, <1>7, <3>2 DEF RxInv, Listed
    <3> QED
      BY <3>1, <3>2
  <2>3. \A d \in Cpu : Once(polls[d])'
    BY <1>7 DEF Once
  <2> QED
    BY <2>1, <2>2, <2>3 DEF Listed
<1>10. /\ \A d \in Cpu : ~Delivers(d, s)'
       /\ Delivers(c, s)
       /\ \A d, e \in Cpu : e # s => (Delivers(d, e)' <=> Delivers(d, e))
       /\ \A d, e \in Cpu : Delivers(d, e)' => d # c
  BY <1>1, <1>2, <1>6 DEF Delivers
<1>11. Tallied'
  <2> SUFFICES ASSUME NEW e \in Cpu
               PROVE  /\ tail'[e] = head'[e] + Len(input'[e]) + Len(process'[e])
                           + (IF \E d \in Cpu : Delivers(d, e)' THEN 1 ELSE 0)
                      /\ e \in online' /\ (input'[e] # <<>> \/ process'[e] # <<>>)
                           => e \in scheduled'
    BY DEF Tallied
  <2>1. /\ tail[e] = head[e] + Len(input[e]) + Len(process[e])
                       + (IF \E d \in Cpu : Delivers(d, e) THEN 1 ELSE 0)
        /\ e \in online /\ (input[e] # <<>> \/ process[e] # <<>>) => e \in scheduled
    BY DEF RxInv, Tallied
  <2>2. UNCHANGED <<tail, input, process, online, scheduled>>
    BY <1>3
  <2>3. CASE e = s
    <3>1. /\ (\E d \in Cpu : Delivers(d, e)) = TRUE
          /\ (\E d \in Cpu : Delivers(d, e)') = FALSE
      BY <1>10, <2>3
    <3>2. head'[e] = head[e] + 1 /\ head[e] \in Nat /\ Len(input[e]) \in Nat /\ Len(process[e]) \in Nat
      BY <1>5, <2>3, BacklogFact DEF RxInv
    <3>3. tail[e] = head[e] + Len(input[e]) + Len(process[e]) + 1
      BY <2>1, <3>1
    <3>4. tail[e] = (head[e] + 1) + Len(input[e]) + Len(process[e])
      BY <3>2, <3>3, SMTT(60)
    <3>5. tail'[e] = head'[e] + Len(input'[e]) + Len(process'[e]) + 0
      BY <2>2, <3>2, <3>4
    <3> QED
      BY <2>1, <2>2, <3>1, <3>5
  <2>4. CASE e # s
    <3>1. (\E d \in Cpu : Delivers(d, e)') <=> (\E d \in Cpu : Delivers(d, e))
      BY <1>10, <2>4
    <3>2. head'[e] = head[e]
      BY <1>5, <2>4
    <3> QED
      BY <2>1, <2>2, <3>1, <3>2
  <2> QED
    BY <2>3, <2>4
<1>12. Handed' /\ Leaving'
  BY <1>3, HandedKept, LeavingKept DEF RxInv
<1>13. ~astray' => Lined'
  <2> SUFFICES ASSUME Lined
               PROVE  Lined'
    BY <1>3 DEF RxInv
  <2>1. /\ Latest \in Nat /\ got' \in Nat
        /\ \A d \in Cpu : Backlog(d) \in Seq(Nat)
    BY <1>3, <1>4, LatestFact DEF ActionState
  <2>2. Home' = Home /\ Latest' = Latest
    BY <1>3 DEF Home, Latest
  <2>3. /\ s = Home /\ got <= got' /\ got' <= Latest
        /\ Ascending(got', Backlog(s), Latest)
    BY <1>3, <1>10 DEF Lined
  <2>4. \A d \in Cpu : Backlog(d)' = Backlog(d) /\ Bare(d)' = Bare(d)
    BY <1>3 DEF Backlog, Bare
  <2>5. \A d \in Cpu : Ascending(got, Backlog(d), Latest)'
    <3> SUFFICES ASSUME NEW d \in Cpu
                 PROVE  Ascending(got', Backlog(d)', Latest')
      BY DEF Ascending
    <3>1. Ascending(got', Backlog(d), Latest)
      <4>1. CASE d = s
        BY <2>3, <4>1
      <4>2. CASE d # s
        <5>1. Bare(d) /\ <<>> \in Seq(Nat)
          BY <2>3, <4>2 DEF Lined
        <5>2. Backlog(d) = <<>>
          BY <5>1, ConcatEmptySeq DEF Bare, Backlog
        <5>3. Ascending(got', <<>>, Latest)
          BY AscendingNone
        <5> QED
          BY <5>2, <5>3, Zenon
      <4> QED
        BY <4>1, <4>2
    <3> QED
      BY <2>2, <2>4, <3>1, Zenon
  <2>6. \A d, e \in Cpu : ~Delivers(d, e)'
    <3> SUFFICES ASSUME NEW d \in Cpu, NEW e \in Cpu, Delivers(d, e)'
                 PROVE  FALSE
      OBVIOUS
    <3>1. e # s /\ Delivers(d, e)
      BY <1>10
    <3>2. e = Home
      BY <3>1 DEF Lined
    <3> QED
      BY <2>3, <3>1, <3>2
  <2>7. /\ steering' # "none" /\ online' = Cpu /\ unplug'.dead = NoCpu
        /\ \A d \in Cpu : d # Home' => Bare(d)'
        /\ steering' = "rfs" /\ Home' \in Cpu => tail'[Home'] <= rflow'.qtail
        /\ arrival' # NoArrival =>
             /\ arrival'.skb = arrived'
             /\ steering' = "rps" => ~arrival'.tracked
             /\ steering' = "rps" \/ arrival'.tracked => arrival'.to = Home'
        /\ got' <= Latest'
    BY <1>3, <2>2, <2>3, <2>4 DEF Lined
  <2> QED
    BY <2>5, <2>6, <2>7 DEF Lined
<1> QED
  BY <1>8, <1>9, <1>11, <1>12, <1>13 DEF RxInv

LEMMA FlushBacklogKeeps == ASSUME RxInv, NEW c \in Cpu, FlushBacklog(c) PROVE RxInv'
<1>1. /\ device.pc = "flushing"
      /\ input' = [input EXCEPT ![c] = <<>>]
      /\ process' = [process EXCEPT ![c] = <<>>]
      /\ head' = [head EXCEPT ![c] = @ + Len(input[c]) + Len(process[c])]
      /\ device' = [device EXCEPT !.flushed = @ \cup {c}]
      /\ UNCHANGED <<steering, arrival, reader, rflow, tail, napi, action, online, unplug,
                     rxHist>>
  BY DEF FlushBacklog
<1>2. /\ head \in [Cpu -> Nat] /\ input \in [Cpu -> Seq(Nat)] /\ process \in [Cpu -> Seq(Nat)]
      /\ device \in DeviceState
  BY TypedFact DEF RxInv, Typed
<1>3. /\ head[c] \in Nat /\ Len(input[c]) \in Nat /\ Len(process[c]) \in Nat
      /\ <<>> \in Seq(Nat) /\ Len(<<>>) = 0
  BY BacklogFact DEF RxInv
<1>4. /\ input' \in [Cpu -> Seq(Nat)] /\ process' \in [Cpu -> Seq(Nat)]
      /\ input'[c] = <<>> /\ process'[c] = <<>>
      /\ \A d \in Cpu \ {c} : input'[d] = input[d] /\ process'[d] = process[d]
  BY <1>1, <1>2, <1>3
<1>5. /\ head' \in [Cpu -> Nat] /\ head'[c] = head[c] + Len(input[c]) + Len(process[c])
      /\ \A d \in Cpu \ {c} : head'[d] = head[d]
  <2> DEFINE h == head[c] + Len(input[c]) + Len(process[c])
  <2>1. h \in Nat
    BY <1>3
  <2>2. head' = [head EXCEPT ![c] = h]
    BY <1>1
  <2> HIDE DEF h
  <2>3. head' \in [Cpu -> Nat] /\ head'[c] = h /\ \A d \in Cpu \ {c} : head'[d] = head[d]
    BY <1>2, <2>1, <2>2
  <2> QED
    BY <2>3 DEF h
<1>6. /\ device' \in DeviceState /\ device'.pc = "flushing" /\ device'.calm = device.calm
      /\ device'.flushed = device.flushed \cup {c} /\ device.flushed \subseteq Cpu
  BY <1>1, <1>2 DEF DeviceState
<1>7. RxTypeOK'
  BY <1>1, <1>4, <1>5, <1>6, TypedFact DEF RxInv, Typed
<1>8. Listed'
  BY <1>1, ListedKept DEF RxInv
<1>9. \A d, s \in Cpu : /\ Delivers(d, s)' <=> Delivers(d, s)
                        /\ Delivers(d, s)' => action'[d].skb = action[d].skb
  BY <1>1 DEF Delivers
<1>10. Tallied'
  <2> SUFFICES ASSUME NEW e \in Cpu
               PROVE  /\ tail'[e] = head'[e] + Len(input'[e]) + Len(process'[e])
                           + (IF \E d \in Cpu : Delivers(d, e)' THEN 1 ELSE 0)
                      /\ e \in online' /\ (input'[e] # <<>> \/ process'[e] # <<>>)
                           => e \in scheduled'
    BY DEF Tallied
  <2>1. /\ tail[e] = head[e] + Len(input[e]) + Len(process[e])
                       + (IF \E d \in Cpu : Delivers(d, e) THEN 1 ELSE 0)
        /\ e \in online /\ (input[e] # <<>> \/ process[e] # <<>>) => e \in scheduled
    BY DEF RxInv, Tallied
  <2>2. (\E d \in Cpu : Delivers(d, e)') <=> (\E d \in Cpu : Delivers(d, e))
    BY <1>9
  <2>3. UNCHANGED <<tail, online, scheduled>>
    BY <1>1
  <2>4. CASE e = c
    <3>1. Len(input'[e]) = 0 /\ Len(process'[e]) = 0
      BY <1>3, <1>4, <2>4
    <3>2. head'[e] + 0 + 0 = head[e] + Len(input[e]) + Len(process[e])
      BY <1>3, <1>5, <2>4
    <3>3. tail'[e] = head'[e] + Len(input'[e]) + Len(process'[e])
                       + (IF \E d \in Cpu : Delivers(d, e)' THEN 1 ELSE 0)
      BY <2>1, <2>2, <2>3, <3>1, <3>2
    <3> QED
      BY <1>4, <2>4, <3>3
  <2>5. CASE e # c
    BY <1>4, <1>5, <2>1, <2>2, <2>3, <2>5
  <2> QED
    BY <2>4, <2>5
<1>11. Handed'
  BY <1>1, HandedKept DEF RxInv
<1>12. \A d \in Cpu : (Bare(d) => Bare(d)') /\ Bare(c)'
  BY <1>4 DEF Bare
<1>13. Leaving'
  BY <1>1, <1>6, <1>12 DEF RxInv, Leaving
<1>14. ~astray' => Lined'
  <2> SUFFICES ASSUME Lined
               PROVE  Lined'
    BY <1>1 DEF RxInv
  <2>1. Home' = Home /\ Latest' = Latest /\ got' = got
    BY <1>1 DEF Home, Latest
  <2>2. \A d \in Cpu : Backlog(d)' = Backlog(d) \/ Backlog(d)' = <<>>
    <3> SUFFICES ASSUME NEW d \in Cpu
                 PROVE  Backlog(d)' = Backlog(d) \/ Backlog(d)' = <<>>
      OBVIOUS
    <3>1. CASE d = c
      <4>1. Backlog(d)' = <<>> \o <<>>
        BY <1>4, <3>1 DEF Backlog
      <4> QED
        BY <1>3, <4>1, ConcatEmptySeq
    <3>2. CASE d # c
      BY <1>4, <3>2 DEF Backlog
    <3> QED
      BY <3>1, <3>2
  <2>3. \A low, high : \A d \in Cpu :
          Ascending(low, Backlog(d), high) => Ascending(low, Backlog(d)', high)
    BY <2>2, AscendingNone, Zenon
  <2>4. \A d \in Cpu : Ascending(got, Backlog(d), Latest)'
    <3> SUFFICES ASSUME NEW d \in Cpu
                 PROVE  Ascending(got', Backlog(d)', Latest')
      BY DEF Ascending
    <3>1. Ascending(got, Backlog(d), Latest)
      BY DEF Lined
    <3> QED
      BY <2>1, <2>3, <3>1, Zenon
  <2>5. ASSUME NEW d \in Cpu, NEW s \in Cpu, Delivers(d, s)'
        PROVE  /\ s = Home' /\ got' <= action'[d].skb /\ action'[d].skb <= Latest'
               /\ Ascending(action[d].skb, Backlog(s), Latest)'
    <3>1. /\ s = Home /\ got <= action[d].skb /\ action[d].skb <= Latest
          /\ Ascending(action[d].skb, Backlog(s), Latest)
          /\ action'[d].skb = action[d].skb
      BY <1>9, <2>5 DEF Lined
    <3>2. Ascending(action'[d].skb, Backlog(s)', Latest')
      BY <2>1, <2>3, <3>1, Zenon
    <3>3. Ascending(action[d].skb, Backlog(s), Latest)'
      BY <3>2 DEF Ascending
    <3> QED
      BY <2>1, <3>1, <3>3
  <2>6. /\ steering' # "none" /\ online' = Cpu /\ unplug'.dead = NoCpu
        /\ \A d \in Cpu : d # Home' => Bare(d)'
        /\ steering' = "rfs" /\ Home' \in Cpu => tail'[Home'] <= rflow'.qtail
        /\ arrival' # NoArrival =>
             /\ arrival'.skb = arrived'
             /\ steering' = "rps" => ~arrival'.tracked
             /\ steering' = "rps" \/ arrival'.tracked => arrival'.to = Home'
        /\ got' <= Latest'
    BY <1>1, <1>12, <2>1 DEF Lined
  <2> QED
    BY <2>4, <2>5, <2>6 DEF Lined
<1> QED
  BY <1>7, <1>8, <1>10, <1>11, <1>13, <1>14 DEF RxInv

LEMMA DevCpuCallbackKeeps ==
  ASSUME RxInv, NEW c \in Cpu, NEW d \in Cpu, DevCpuCallback(c, d)
  PROVE  RxInv'
<1>1. /\ online = Cpu /\ c # d /\ arrival = NoArrival
      /\ \A e \in Cpu : action[e].pc = "idle"
      /\ online' = online \ {c}
      /\ polls' = [polls EXCEPT ![c] = <<>>, ![d] = polls[c] \o @]
      /\ raised' = IF polls[c] = <<>> THEN raised \ {c} ELSE (raised \ {c}) \cup {d}
      /\ unplug' = [dead |-> c, on |-> d]
      /\ lost' = lost \cup ipis[c]
      /\ ipis' = [ipis EXCEPT ![c] = {}]
      /\ astray' = TRUE
      /\ device' = [device EXCEPT !.calm = @ /\ device.pc # "flushing"]
      /\ UNCHANGED <<steering, arrival, reader, rflow, queues, scheduled, flying, action,
                     arrived, moved, got>>
  BY DEF DevCpuCallback
<1>2. /\ polls \in [Cpu -> Seq(Cpu)] /\ ipis \in [Cpu -> SUBSET Cpu] /\ device \in DeviceState
      /\ \A e \in Cpu : Once(polls[e])
      /\ Polled \in Lists /\ ipis \in Lists
      /\ Listing(Polled, ipis, flying, scheduled, lost)
  BY TypedFact, PolledFact DEF RxInv, Typed, Listed
<1> DEFINE q == polls[c] \o polls[d]
<1>3. q \in Seq(Cpu) /\ Range(q) = Polled[c] \cup Polled[d] /\ Once(q)
  <2>1. Polled[c] = Range(polls[c]) /\ Polled[d] = Range(polls[d])
    BY DEF Polled
  <2>2. \A s \in Cpu : s \in Polled[c] => s \notin Polled[d]
    BY <1>1, <1>2 DEF Listing
  <2>3. Polled[c] \subseteq Cpu /\ Polled[d] \subseteq Cpu
    BY <1>2 DEF Lists
  <2>4. polls[c] \in Seq(Cpu) /\ polls[d] \in Seq(Cpu) /\ Range(polls[c]) \cap Range(polls[d]) = {}
    BY <1>2, <2>1, <2>2, <2>3
  <2> QED
    BY <1>2, <2>1, <2>4, RangeConcat
<1>4. polls' = [e \in Cpu |-> IF e = c THEN <<>> ELSE IF e = d THEN q ELSE polls[e]]
  BY <1>1, <1>2
<1> HIDE DEF q
<1>5. polls' \in [Cpu -> Seq(Cpu)]
  <2>1. <<>> \in Seq(Cpu)
    BY EmptySeq
  <2> QED
    BY <1>2, <1>3, <1>4, <2>1
<1>6. Polled' = [Polled EXCEPT ![c] = {}, ![d] = Polled[c] \cup Polled[d]]
  <2>1. Range(<<>>) = {}
    BY DEF Range
  <2>2. \A e \in Cpu : Range(polls'[e]) = IF e = c THEN {} ELSE IF e = d THEN Polled[c] \cup Polled[d]
                                          ELSE Polled[e]
    BY <1>3, <1>4, <2>1 DEF Polled
  <2>3. Polled' = [e \in Cpu |-> IF e = c THEN {} ELSE IF e = d THEN Polled[c] \cup Polled[d]
                                  ELSE Polled[e]]
    BY <2>2 DEF Polled
  <2> DEFINE p == Polled
             u == Polled[c] \cup Polled[d]
  <2>4. p \in [Cpu -> SUBSET Cpu] /\ Polled' = [e \in Cpu |-> IF e = c THEN {} ELSE IF e = d THEN u
                                                           ELSE p[e]]
    BY <1>2, <2>3 DEF Lists
  <2> HIDE DEF p, u
  <2>5. Polled' = [p EXCEPT ![c] = {}, ![d] = u]
    BY <1>1, <2>4
  <2> QED
    BY <2>5 DEF p, u
<1>7. /\ device' \in DeviceState /\ device'.pc = device.pc /\ device'.flushed = device.flushed
      /\ device'.calm = (device.calm /\ device.pc # "flushing")
      /\ unplug' \in UnplugState /\ unplug'.dead = c /\ unplug'.on = d
  BY <1>1, <1>2 DEF DeviceState, UnplugState
<1>8. RxTypeOK'
  <2>1. /\ ipis' \in [Cpu -> SUBSET Cpu] /\ lost' \subseteq Cpu /\ raised' \subseteq Cpu
        /\ online' \subseteq Cpu
    BY <1>1, <1>2, TypedFact DEF RxInv, Typed
  <2> QED
    BY <1>1, <1>5, <1>7, <2>1, TypedFact DEF RxInv, Typed
<1>9. Listed'
  <2>1. Listing([Polled EXCEPT ![c] = {}, ![d] = Polled[c] \cup Polled[d]],
                [ipis EXCEPT ![c] = {}], flying, scheduled, lost \cup ipis[c])
    BY <1>1, <1>2, ListingAdopts
  <2>2. Listing(Polled, ipis, flying, scheduled, lost)'
    BY <1>1, <1>6, <2>1
  <2>3. \A e \in Cpu : Once(polls'[e])
    <3>1. Once(<<>>)
      BY DEF Once
    <3> QED
      BY <1>2, <1>3, <1>4, <3>1
  <2>4. \A e \in Cpu : Once(polls[e])'
    BY <2>3 DEF Once
  <2> QED
    BY <1>1, <2>2, <2>4 DEF Listed
<1>10. Tallied'
  <2>1. \A e, s \in Cpu : Delivers(e, s)' <=> Delivers(e, s)
    BY <1>1 DEF Delivers
  <2> QED
    BY <1>1, <2>1 DEF RxInv, Tallied
<1>11. Handed'
  BY <1>1, <1>7 DEF RxInv, Handed
<1>12. Leaving'
  BY <1>1, <1>7 DEF RxInv, Leaving, Bare
<1> QED
  BY <1>1, <1>8, <1>9, <1>10, <1>11, <1>12 DEF RxInv

LEMMA RefeedKeeps == RxInv /\ Refeed => RxInv'
<1> SUFFICES ASSUME RxInv, Refeed
             PROVE  RxInv'
  OBVIOUS
<1>1. /\ unplug.dead # NoCpu /\ arrival = NoArrival
      /\ UNCHANGED <<steering, reader, tail, napi, action, online, device, rxHist>>
  BY DEF Refeed
<1>2. PICK c \in Cpu, d \in online : c = unplug.dead /\ d = unplug.on /\ c \notin online
  BY <1>1 DEF RxInv, Handed
<1>3. astray
  BY <1>1 DEF RxInv, Lined
<1>4. Listed'
  BY <1>1, ListedKept DEF RxInv
<1>5. \A e, s \in Cpu : Delivers(e, s)' <=> Delivers(e, s)
  BY <1>1 DEF Delivers
<1>6. /\ input \in [Cpu -> Seq(Nat)] /\ process \in [Cpu -> Seq(Nat)] /\ head \in [Cpu -> Nat]
      /\ process[c] \in Seq(Nat) /\ input[c] \in Seq(Nat) /\ head[c] \in Nat
      /\ NoArrival \in ArrivalState
  BY TypedFact DEF RxInv, Typed, NoArrival, ArrivalState
<1>7. CASE process[c] \o input[c] = <<>>
  <2>1. /\ unplug' = [dead |-> NoCpu, on |-> NoCpu]
        /\ UNCHANGED <<input, process, head, rflow, arrival>>
    BY <1>2, <1>7 DEF Refeed
  <2>2. unplug' \in UnplugState /\ unplug'.dead = NoCpu
    BY <2>1 DEF UnplugState
  <2>3. Bare(c)
    <3>1. process[c] = <<>>
      BY <1>6, <1>7, BacklogLoses, Zenon
    <3>2. process[c] \o input[c] = input[c]
      BY <1>6, <3>1, ConcatEmptySeq
    <3> QED
      BY <1>7, <3>1, <3>2 DEF Bare
  <2>4. RxTypeOK'
    BY <1>1, <2>1, <2>2, TypedFact DEF RxInv, Typed
  <2>5. Tallied'
    BY <1>1, <1>5, <2>1, TalliedKept DEF RxInv
  <2>6. Handed'
    BY <1>1, <2>1, <2>2 DEF RxInv, Handed
  <2>7. Leaving'
    BY <1>1, <1>2, <2>1, <2>2, <2>3 DEF RxInv, Leaving, Bare
  <2> QED
    BY <1>1, <1>3, <1>4, <2>4, <2>5, <2>6, <2>7 DEF RxInv
<1>8. CASE process[c] \o input[c] # <<>>
  <2>1. /\ Steer(d, Head(process[c] \o input[c]))
        /\ IF process[c] # <<>>
           THEN process' = [process EXCEPT ![c] = Tail(@)] /\ UNCHANGED input
           ELSE input' = [input EXCEPT ![c] = Tail(@)] /\ UNCHANGED process
        /\ head' = [head EXCEPT ![c] = @ + 1]
        /\ UNCHANGED unplug
    BY <1>2, <1>8 DEF Refeed
  <2>2. /\ Head(process[c] \o input[c]) \in Nat
        /\ input' \in [Cpu -> Seq(Nat)] /\ process' \in [Cpu -> Seq(Nat)]
        /\ Len(input'[c]) + Len(process'[c]) + 1 = Len(input[c]) + Len(process[c])
        /\ \A e \in Cpu \ {c} : input'[e] = input[e] /\ process'[e] = process[e]
    <3>1. process[c] \o input[c] \in Seq(Nat)
      BY <1>6, ConcatProperties
    <3>2. Head(process[c] \o input[c]) \in Nat
      BY <1>8, <3>1, HeadTailProperties
    <3>3. CASE process[c] # <<>>
      <4>1. Tail(process[c]) \in Seq(Nat) /\ Len(Tail(process[c])) = Len(process[c]) - 1
        BY <1>6, <3>3, HeadTailProperties
      <4>2. process' = [process EXCEPT ![c] = Tail(process[c])] /\ input' = input
        BY <2>1, <3>3
      <4>3. /\ process' \in [Cpu -> Seq(Nat)] /\ process'[c] = Tail(process[c])
            /\ \A e \in Cpu \ {c} : process'[e] = process[e]
        BY <1>6, <4>1, <4>2
      <4>4. Len(process'[c]) = Len(process[c]) - 1 /\ Len(input'[c]) = Len(input[c])
        BY <4>1, <4>2, <4>3, Zenon
      <4>5. Len(process[c]) \in Nat /\ Len(input[c]) \in Nat
        BY BacklogFact DEF RxInv
      <4>6. Len(input'[c]) + Len(process'[c]) + 1 = Len(input[c]) + Len(process[c])
        BY <4>4, <4>5
      <4> QED
        BY <1>6, <3>2, <4>2, <4>3, <4>6
    <3>4. CASE process[c] = <<>>
      <4>1. input[c] # <<>>
        BY <1>8, <3>4, ConcatEmptySeq
      <4>2. Tail(input[c]) \in Seq(Nat) /\ Len(Tail(input[c])) = Len(input[c]) - 1
        BY <1>6, <4>1, HeadTailProperties
      <4>3. input' = [input EXCEPT ![c] = Tail(input[c])] /\ process' = process
        BY <2>1, <3>4
      <4>4. /\ input' \in [Cpu -> Seq(Nat)] /\ input'[c] = Tail(input[c])
            /\ \A e \in Cpu \ {c} : input'[e] = input[e]
        BY <1>6, <4>2, <4>3
      <4>5. Len(input'[c]) = Len(input[c]) - 1 /\ Len(process'[c]) = Len(process[c])
        BY <4>2, <4>3, <4>4, Zenon
      <4>6. Len(process[c]) \in Nat /\ Len(input[c]) \in Nat
        BY BacklogFact DEF RxInv
      <4>7. Len(input'[c]) + Len(process'[c]) + 1 = Len(input[c]) + Len(process[c])
        BY <4>5, <4>6
      <4> QED
        BY <1>6, <3>2, <4>3, <4>4, <4>7
    <3> QED
      BY <3>3, <3>4
  <2>3. /\ head' \in [Cpu -> Nat] /\ head'[c] = head[c] + 1
        /\ \A e \in Cpu \ {c} : head'[e] = head[e]
    BY <1>6, <2>1
  <2>4. /\ arrival' \in ArrivalState /\ rflow' \in RflowState
        /\ arrival'.on = d /\ arrival'.to \in online
    BY <1>2, <2>1, <2>2, SteerFact DEF RxInv
  <2>5. RxTypeOK'
    BY <1>1, <2>1, <2>2, <2>3, <2>4, TypedFact DEF RxInv, Typed
  <2>6. Tallied'
    <3> SUFFICES ASSUME NEW e \in Cpu
                 PROVE  /\ tail'[e] = head'[e] + Len(input'[e]) + Len(process'[e])
                             + (IF \E f \in Cpu : Delivers(f, e)' THEN 1 ELSE 0)
                        /\ e \in online' /\ (input'[e] # <<>> \/ process'[e] # <<>>)
                             => e \in scheduled'
      BY DEF Tallied
    <3>1. /\ tail[e] = head[e] + Len(input[e]) + Len(process[e])
                         + (IF \E f \in Cpu : Delivers(f, e) THEN 1 ELSE 0)
          /\ e \in online /\ (input[e] # <<>> \/ process[e] # <<>>) => e \in scheduled
      BY DEF RxInv, Tallied
    <3>2. (\E f \in Cpu : Delivers(f, e)') <=> (\E f \in Cpu : Delivers(f, e))
      BY <1>5
    <3>3. CASE e = c
      <4>1. /\ head[e] \in Nat /\ Len(input[e]) \in Nat /\ Len(process[e]) \in Nat
            /\ Len(input'[e]) \in Nat /\ Len(process'[e]) \in Nat
        BY <2>5, BacklogFact, LenProperties, <2>2 DEF RxInv
      <4>2. /\ Len(input'[e]) + Len(process'[e]) + 1 = Len(input[e]) + Len(process[e])
            /\ head'[e] = head[e] + 1
        BY <2>2, <2>3, <3>3
      <4>3. head'[e] + Len(input'[e]) + Len(process'[e]) = head[e] + Len(input[e]) + Len(process[e])
        <5> DEFINE h == head[e]
                   l == Len(input[e])
                   m == Len(process[e])
                   l2 == Len(input'[e])
                   m2 == Len(process'[e])
        <5>1. h \in Nat /\ l \in Nat /\ m \in Nat /\ l2 \in Nat /\ m2 \in Nat /\ l2 + m2 + 1 = l + m
          BY <4>1, <4>2
        <5> HIDE DEF h, l, m, l2, m2
        <5>2. (h + 1) + l2 + m2 = h + l + m
          BY <5>1
        <5> QED
          BY <4>2, <5>2 DEF h, l, m, l2, m2
      <4>4. tail'[e] = head'[e] + Len(input'[e]) + Len(process'[e])
                         + (IF \E f \in Cpu : Delivers(f, e)' THEN 1 ELSE 0)
        BY <1>1, <3>1, <3>2, <4>3
      <4> QED
        BY <1>1, <1>2, <3>3, <4>4
    <3>4. CASE e # c
      BY <1>1, <2>2, <2>3, <3>1, <3>2, <3>4
    <3> QED
      BY <3>3, <3>4
  <2>7. Handed'
    BY <1>1, <1>2, <2>1, <2>4 DEF RxInv, Handed
  <2>8. Leaving'
    <3>1. ~Bare(c)
      BY <1>8, ConcatEmptySeq DEF Bare
    <3>2. /\ ~(device.pc = "gone" /\ device.calm)
          /\ ~(device.pc = "flushing" /\ device.calm)
      BY <1>1, <3>1 DEF RxInv, Leaving
    <3>3. \A e \in Cpu \ {c} : Bare(e)' = Bare(e)
      BY <2>2 DEF Bare
    <3> QED
      BY <1>1, <1>2, <2>1, <3>2, <3>3 DEF RxInv, Leaving
  <2> QED
    BY <1>1, <1>3, <1>4, <2>5, <2>6, <2>7, <2>8 DEF RxInv
<1> QED
  BY <1>7, <1>8

----------------------------------------------------------------------------
(* The theorems.                                                           *)

LEMMA RxInvInit == RxInit => RxInv
<1> SUFFICES ASSUME RxInit
             PROVE  RxInv
  OBVIOUS
<1> USE DEF RxInit
<1>1. RxTypeOK
  <2>1. NoArrival \in ArrivalState /\ NoWork \in ActionState
    BY DEF NoArrival, ArrivalState, NoWork, ActionState
  <2>2. device \in DeviceState /\ unplug \in UnplugState /\ rflow \in RflowState
    BY DEF DeviceState, UnplugState, RflowState
  <2>3. <<>> \in Seq(Nat) /\ <<>> \in Seq(Cpu)
    BY EmptySeq
  <2> QED
    BY <2>1, <2>2, <2>3, TypedFact DEF Typed
<1>2. Listed
  <2>1. \A c \in Cpu : Polled[c] = {}
    BY DEF Polled, Range
  <2>2. Listing(Polled, ipis, flying, scheduled, lost)
    BY <2>1 DEF Listing
  <2>3. \A c \in Cpu : Once(polls[c])
    BY DEF Once
  <2> QED
    BY <2>2, <2>3 DEF Listed, NoWork
<1>3. Tallied
  BY DEF Tallied, Delivers, NoWork
<1>4. Handed
  BY DEF Handed
<1>5. Leaving
  BY DEF Leaving, Bare
<1>6. ~astray => Lined
  <2> SUFFICES ASSUME steering # "none"
               PROVE  Lined
    OBVIOUS
  <2>1. \A c \in Cpu : Backlog(c) = <<>> /\ Bare(c) /\ \A s \in Cpu : ~Delivers(c, s)
    <3>1. <<>> \o <<>> = <<>>
      BY EmptySeq, ConcatEmptySeq
    <3> QED
      BY <3>1 DEF Backlog, Bare, Delivers, NoWork
  <2>2. \A c \in Cpu : Ascending(got, Backlog(c), Latest)
    BY <2>1, AscendingNone, Zenon
  <2>3. arrival = NoArrival /\ got <= Latest
    BY DEF Latest
  <2>4. steering = "rfs" /\ Home \in Cpu => tail[Home] <= rflow.qtail
    BY DEF Home
  <2> QED
    BY <2>1, <2>2, <2>3, <2>4 DEF Lined
<1> QED
  BY <1>1, <1>2, <1>3, <1>4, <1>5, <1>6 DEF RxInv

LEMMA RxInvNext == RxInv /\ [RxNext]_rxVars => RxInv'
<1> SUFFICES ASSUME RxInv, [RxNext]_rxVars
             PROVE  RxInv'
  OBVIOUS
<1>1. CASE UNCHANGED rxVars
  <2> USE <1>1 DEF rxVars
  <2>1. RxTypeOK'
    BY TypedFact DEF RxInv, Typed
  <2>2. Listed' /\ Tallied' /\ Handed' /\ Leaving' /\ (~astray' => Lined')
    BY ListedKept, TalliedKept, HandedKept, LeavingKept, LinedKept DEF RxInv, Delivers
  <2> QED
    BY <2>1, <2>2 DEF RxInv
<1>2. CASE MoveReader \/ EnqueueToBacklog \/ Unregister \/ Free \/ Refeed
  BY <1>2, MoveReaderKeeps, EnqueueToBacklogKeeps, UnregisterKeeps, FreeKeeps, RefeedKeeps
<1>3. ASSUME NEW c \in Cpu, Arrive(c) \/ Ipi(c) \/ Rx(c) \/ FlushBacklog(c)
      PROVE  RxInv'
  BY <1>3, ArriveKeeps, IpiKeeps, FlushBacklogKeeps, RxActionKeeps, RxDoneKeeps, PollKeeps,
     DequeueKeeps, CompleteKeeps, DeliverKeeps DEF Rx
<1>4. ASSUME NEW c \in Cpu, NEW d \in Cpu, DevCpuCallback(c, d)
      PROVE  RxInv'
  BY <1>4, DevCpuCallbackKeeps
<1> QED
  BY <1>1, <1>2, <1>3, <1>4 DEF RxNext

THEOREM AlwaysRxInv == RxSpec => []RxInv
BY RxInvInit, RxInvNext, PTL DEF RxSpec

LEMMA PlacesFact ==
  ASSUME RxInv, NEW s \in Cpu, s \notin lost
  PROVE  IF s \in scheduled THEN \E p : Places(s) = {p} ELSE Places(s) = {}
<1>1. \A c \in Cpu : s \in Polled[c] <=> \E i \in DOMAIN polls[c] : polls[c][i] = s
  BY DEF Polled, Range
<1>2. Places(s) = {<<"poll", c>> : c \in {c \in Cpu : s \in Polled[c]}}
                  \cup {<<"ipi", c>> : c \in {c \in Cpu : s \in ipis[c]}}
                  \cup (IF s \in flying THEN {<<"flying", s>>} ELSE {})
  BY <1>1 DEF Places
<1>3. Listing(Polled, ipis, flying, scheduled, lost)
  BY DEF RxInv, Listed
<1>4. CASE s \notin scheduled
  <2>1. s \notin flying /\ \A c \in Cpu : s \notin Polled[c] /\ s \notin ipis[c]
    BY <1>3, <1>4 DEF Listing
  <2> QED
    BY <1>2, <1>4, <2>1
<1>5. CASE s \in scheduled
  <2>1. s \in flying \/ \E c \in Cpu : s \in Polled[c] \/ s \in ipis[c]
    BY <1>3, <1>5 DEF Listing
  <2>2. CASE s \in flying
    <3>1. \A c \in Cpu : s \notin Polled[c] /\ s \notin ipis[c]
      BY <1>3, <2>2 DEF Listing
    <3>2. Places(s) = {<<"flying", s>>}
      BY <1>2, <2>2, <3>1
    <3> QED
      BY <1>5, <3>2
  <2>3. ASSUME NEW c \in Cpu, s \in Polled[c]
        PROVE  \E p : Places(s) = {p}
    <3>1. /\ s \notin flying /\ \A d \in Cpu : s \notin ipis[d]
          /\ \A d \in Cpu : s \in Polled[d] <=> d = c
      BY <1>3, <2>3 DEF Listing
    <3>2. Places(s) = {<<"poll", c>>}
      BY <1>2, <3>1
    <3> QED
      BY <3>2
  <2>4. ASSUME NEW c \in Cpu, s \in ipis[c]
        PROVE  \E p : Places(s) = {p}
    <3>1. /\ s \notin flying /\ \A d \in Cpu : s \notin Polled[d]
          /\ \A d \in Cpu : s \in ipis[d] <=> d = c
      BY <1>3, <2>4 DEF Listing
    <3>2. Places(s) = {<<"ipi", c>>}
      BY <1>2, <3>1
    <3> QED
      BY <3>2
  <2> QED
    BY <1>5, <2>1, <2>2, <2>3, <2>4
<1> QED
  BY <1>4, <1>5

LEMMA DeliversFact ==
  ASSUME RxInv, NEW s \in Cpu
  PROVE  Cardinality({c \in Cpu : action[c].pc = "deliver" /\ action[c].of = s})
           = IF \E c \in Cpu : Delivers(c, s) THEN 1 ELSE 0
<1> DEFINE D == {c \in Cpu : action[c].pc = "deliver" /\ action[c].of = s}
<1>1. CASE ~\E c \in Cpu : Delivers(c, s)
  <2>1. D = {}
    BY <1>1 DEF Delivers
  <2> QED
    BY <1>1, <2>1, FS_EmptySet
<1>2. ASSUME NEW c \in Cpu, Delivers(c, s)
      PROVE  Cardinality(D) = 1
  <2>1. \A d \in Cpu : Delivers(d, s) => d = c
    BY <1>2, RunsFact DEF RxInv, Delivers
  <2>2. D = {c}
    BY <1>2, <2>1 DEF Delivers
  <2> QED
    BY <2>2, FS_Singleton
<1> QED
  BY <1>1, <1>2

\* No backlog is forgotten, and none is on two lists.
THEOREM AlwaysOnOneList == RxSpec => []BacklogOnOneList
<1>1. ASSUME RxInv, NEW s \in Cpu \ lost
      PROVE  /\ Cardinality(Places(s)) = IF s \in scheduled THEN 1 ELSE 0
             /\ s \in online /\ input[s] \o process[s] # <<>> => s \in scheduled
             /\ tail[s] = head[s] + Len(input[s]) + Len(process[s])
                          + Cardinality({c \in Cpu : action[c].pc = "deliver"
                                                   /\ action[c].of = s})
  <2>1. Cardinality(Places(s)) = IF s \in scheduled THEN 1 ELSE 0
    BY <1>1, PlacesFact, FS_EmptySet, FS_Singleton
  <2>2. /\ tail[s] = head[s] + Len(input[s]) + Len(process[s])
                       + (IF \E c \in Cpu : Delivers(c, s) THEN 1 ELSE 0)
        /\ s \in online /\ (input[s] # <<>> \/ process[s] # <<>>) => s \in scheduled
    BY <1>1 DEF RxInv, Tallied
  <2>3. input[s] = <<>> /\ process[s] = <<>> => input[s] \o process[s] = <<>>
    BY EmptySeq, ConcatEmptySeq
  <2> QED
    BY <1>1, <2>1, <2>2, <2>3, DeliversFact
<1>2. RxInv => BacklogOnOneList
  BY <1>1 DEF BacklogOnOneList, RxInv
<1> QED
  BY <1>2, AlwaysRxInv, PTL

\* What is freed is not queued any more.
THEOREM AlwaysNothingLeft == RxSpec => []NothingLeft
<1>1. RxInv => NothingLeft
  <2> SUFFICES ASSUME RxInv, device.pc = "gone", device.calm
               PROVE  arrival = NoArrival /\ \A c \in Cpu : input[c] \o process[c] = <<>>
    BY DEF NothingLeft
  <2>1. arrival = NoArrival /\ \A c \in Cpu : input[c] = <<>> /\ process[c] = <<>>
    BY DEF RxInv, Leaving, Bare
  <2> QED
    BY <2>1, EmptySeq, ConcatEmptySeq
<1> QED
  BY <1>1, AlwaysRxInv, PTL

\* Steering reorders no flow.
THEOREM AlwaysFlowInOrder == RxSpec => FlowInOrder
<1>1. RxInv /\ [RxNext]_rxVars => [~astray' => got' >= got]_rxVars
  <2> SUFFICES ASSUME RxInv, RxNext, ~astray'
               PROVE  got' >= got
    OBVIOUS
  <2>1. got \in Nat
    BY TypedFact DEF RxInv, Typed
  <2>2. ASSUME NEW c \in Cpu, Deliver(c)
        PROVE  got' >= got
    <3>1. astray' = astray /\ got' = action[c].skb /\ action[c].pc = "deliver"
      BY <2>2 DEF Deliver
    <3>2. action[c].of \in Cpu
      BY <3>1, RunsFact DEF RxInv
    <3>3. got <= action[c].skb /\ action[c].skb \in Nat
      BY <3>1, <3>2, TypedFact DEF RxInv, Lined, Delivers, Typed, ActionState
    <3> QED
      BY <2>1, <3>1, <3>3
  <2>3. got' = got \/ \E c \in Cpu : Deliver(c)
    BY DEF RxNext, Rx, MoveReader, EnqueueToBacklog, Unregister, Free, Refeed, Arrive, Ipi,
           RxAction, RxDone, Poll, Dequeue, Complete, FlushBacklog, DevCpuCallback
  <2> QED
    BY <2>1, <2>2, <2>3
<1> QED
  BY <1>1, AlwaysRxInv, PTL DEF RxSpec, FlowInOrder

=============================================================================

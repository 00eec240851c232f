------------------------------ MODULE Receive ------------------------------
(***************************************************************************)
(* How packets enter a host: netif_rx, the backlog that every CPU of Cpu   *)
(* keeps, receive packet and flow steering, and net_rx_action, all of      *)
(* net_dilation/core/dev.c.  The packets, numbered as they arrive, are one *)
(* flow on one receive queue: the device, a veth whose peer sends, hands   *)
(* them over one at a time, each on a CPU of its own choice.               *)
(*                                                                         *)
(* Steering is chosen once: "none" leaves a packet on its CPU, "rps" goes  *)
(* by the queue's rps_map, "rfs" by the CPU on which the flow was last     *)
(* read, which moves about, if there is one, or else by the map.           *)
(*                                                                         *)
(* There is a step for each region that a CPU executes with interrupts off *)
(* or under rps_lock.  Bounds: Arrivals packets; Moves times the reader of *)
(* the flow moves; netdev_max_backlog is MaxBacklog and the weight of a    *)
(* backlog Weight; one CPU is unplugged if Unplug.                         *)
(***************************************************************************)
EXTENDS Naturals, Sequences, FiniteSets, Softnet

CONSTANTS MapCpu, NoCpu, Steerings, Arrivals, Moves, MaxBacklog, Weight

ASSUME MapAssumption == NoCpu \notin Cpu /\ MapCpu \in Cpu
ASSUME SteeringsAssumption == Steerings \subseteq {"none", "rps", "rfs"}
ASSUME LimitAssumption == /\ {Arrivals, Moves, MaxBacklog} \subseteq Nat
                          /\ Weight \in Nat \ {0}

VARIABLES
  steering, \* out of Steerings; it never changes
  arrival,  \* the packet that is being handed over: on which CPU, and for which
  reader,   \* the CPU in rps_sock_flow_table, or NoCpu
  rflow,    \* the entry of rps_flow_table: cpu and last_qtail
  input,    \* softnet_data.input_pkt_queue of each CPU
  process,  \* softnet_data.process_queue
  head,     \* softnet_data.input_queue_head
  tail,     \* softnet_data.input_queue_tail
  scheduled,\* NAPI_STATE_SCHED of each CPU's backlog
  polls,    \* softnet_data.poll_list: the CPUs whose backlogs are on it
  ipis,     \* softnet_data.rps_ipi_list
  flying,   \* CPUs to which an IPI is on its way
  raised,   \* CPUs with NET_RX_SOFTIRQ raised
  action,   \* where each CPU is in net_rx_action
  device,   \* where the unregistration of the device is, which CPUs have flushed
            \* their backlogs, and (history) that no CPU went away meanwhile
  unplug,   \* dev_cpu_callback at work: for whom, and on which CPU
  arrived,  \* history: packets that have arrived
  moved,    \* history: how often the reader has moved
  got,      \* history: the packet that was delivered last
  astray,   \* history: the order is not promised, see FlowInOrder
  lost      \* history: CPUs whose IPI nobody will send

queues == <<input, process, head, tail>>
napi == <<scheduled, polls, ipis, flying, raised>>
rxHist == <<arrived, moved, got, astray, lost>>
rxVars == <<steering, arrival, reader, rflow, queues, napi, action, online, device, unplug,
            rxHist>>

NoArrival == [skb |-> 0, on |-> NoCpu, to |-> NoCpu, tracked |-> FALSE]
NoWork == [pc |-> "idle", of |-> NoCpu, skb |-> 0, work |-> 0]

RxInit == /\ steering \in Steerings
          /\ arrival = NoArrival
          /\ reader = NoCpu /\ rflow = [cpu |-> NoCpu, qtail |-> 0]
          /\ input = [c \in Cpu |-> <<>>] /\ process = [c \in Cpu |-> <<>>]
          /\ head = [c \in Cpu |-> 0] /\ tail = [c \in Cpu |-> 0]
          /\ scheduled = {} /\ flying = {} /\ raised = {}
          /\ polls = [c \in Cpu |-> <<>>] /\ ipis = [c \in Cpu |-> {}]
          /\ action = [c \in Cpu |-> NoWork]
          /\ online = Cpu
          /\ device = [pc |-> "up", flushed |-> {}, calm |-> TRUE]
          /\ unplug = [dead |-> NoCpu, on |-> NoCpu]
          /\ arrived = 0 /\ moved = 0 /\ got = 0
          /\ astray = (steering = "none") /\ lost = {}

----------------------------------------------------------------------------
(* The packet arrives.                                                     *)

\* Interrupts are off between the delivery of a packet and the next dequeue.
IrqsOn(c) == c \in online /\ action[c].pc # "loop"

\* A reader of the flow makes its CPU known (sock_rps_record_flow), or forgets
\* it (sock_rps_reset_flow).
MoveReader == /\ steering = "rfs" /\ moved < Moves
              /\ reader' \in (online \cup {NoCpu}) \ {reader}
              /\ moved' = moved + 1
              /\ UNCHANGED <<steering, arrival, rflow, queues, napi, action, online,
                             device, unplug, arrived, got, astray, lost>>

\* Mutant: does not wait for the packets that are queued for the old CPU.
MaySwitch_Always == rflow.cpu # reader

\* get_rps_cpu: the desired CPU differs from the flow's, which is unset or
\* offline, or has dequeued every packet of the flow.
MaySwitch == /\ rflow.cpu # reader
             /\ \/ rflow.cpu \notin online
                \/ head[rflow.cpu] >= rflow.qtail

\* set_rps_cpu
Switched == IF ~MaySwitch THEN rflow
            ELSE [cpu |-> reader,
                  qtail |-> IF reader = NoCpu THEN rflow.qtail ELSE head[reader]]

\* get_rps_cpu, for a packet that is handed over on c; it does without locks.
Steer(c, skb) ==
  LET flow == IF steering = "rfs" THEN Switched ELSE rflow
      tracked == steering = "rfs" /\ flow.cpu \in online
  IN  /\ rflow' = flow
      /\ arrival' = [skb |-> skb, on |-> c, tracked |-> tracked,
                     to |-> IF tracked THEN flow.cpu
                            ELSE IF steering # "none" /\ MapCpu \in online THEN MapCpu
                            ELSE c]

\* dev_forward_skb on c, into netif_rx_internal, if the device is up.
Arrive(c) ==
  /\ arrival = NoArrival /\ device.pc = "up" /\ IrqsOn(c) /\ arrived < Arrivals
  /\ arrived' = arrived + 1
  /\ Steer(c, arrived')
  /\ UNCHANGED <<steering, reader, queues, napi, action, online, device, unplug, moved,
                 got, astray, lost>>

\* Mutant: schedules the backlog of another CPU with no IPI to follow.
Kick_Own(c, t) ==
  /\ scheduled' = scheduled \cup {t}
  /\ raised' = raised \cup {c}
  /\ polls' = [polls EXCEPT ![c] = IF t = c THEN Append(@, t) ELSE @]
  /\ UNCHANGED ipis

\* enqueue_to_backlog schedules the backlog of t: ____napi_schedule if it is
\* the CPU's own, or else rps_ipi_queued.
Kick(c, t) ==
  /\ scheduled' = scheduled \cup {t}
  /\ raised' = raised \cup {c}
  /\ polls' = [polls EXCEPT ![c] = IF t = c THEN Append(@, t) ELSE @]
  /\ ipis' = [ipis EXCEPT ![c] = IF t # c THEN @ \cup {t} ELSE @]

\* enqueue_to_backlog.  A packet that the flow table did not place is not in
\* last_qtail.
EnqueueToBacklog ==
  LET c == arrival.on  t == arrival.to IN
  /\ arrival # NoArrival /\ IrqsOn(c)
  /\ arrival' = NoArrival
  /\ IF Len(input[t]) > MaxBacklog
     THEN UNCHANGED <<input, tail, rflow, scheduled, polls, ipis, raised, astray>>
     ELSE /\ input' = [input EXCEPT ![t] = Append(@, arrival.skb)]
          /\ tail' = [tail EXCEPT ![t] = @ + 1]
          /\ rflow' = IF arrival.tracked THEN [rflow EXCEPT !.qtail = tail[t] + 1] ELSE rflow
          /\ IF input[t] = <<>> /\ t \notin scheduled THEN Kick(c, t)
             ELSE UNCHANGED <<scheduled, polls, ipis, raised>>
          /\ astray' = (astray \/ (steering = "rfs" /\ ~arrival.tracked))
  /\ UNCHANGED <<steering, reader, process, head, flying, action, online, device,
                 unplug, arrived, moved, got, lost>>

\* rps_trigger_softirq, in the IPI.
Ipi(c) == /\ c \in flying /\ IrqsOn(c)
          /\ flying' = flying \ {c}
          /\ polls' = [polls EXCEPT ![c] = Append(@, c)]
          /\ raised' = raised \cup {c}
          /\ UNCHANGED <<steering, arrival, reader, rflow, queues, scheduled, ipis,
                         action, online, device, unplug, rxHist>>

----------------------------------------------------------------------------
(* net_rx_action.                                                          *)

\* net_rps_action_and_irq_enable: to those that are offline no IPI is sent.
SendIpis(c) == /\ flying' = flying \cup (ipis[c] \cap online)
               /\ ipis' = [ipis EXCEPT ![c] = {}]
               /\ lost' = lost \cup (ipis[c] \ online)

\* The softirq begins.
RxAction(c) == /\ c \in online \cap raised /\ action[c].pc = "idle"
               /\ arrival.on # c
               /\ raised' = raised \ {c}
               /\ action' = [action EXCEPT ![c].pc = "rx"]
               /\ UNCHANGED <<steering, arrival, reader, rflow, queues, scheduled,
                              polls, ipis, flying, online, device, unplug, rxHist>>

\* The list is empty, or time or budget is used up, which may be after any
\* poll: then the softirq is raised again.
RxDone(c) == /\ c \in online /\ action[c].pc = "rx"
             /\ polls[c] = <<>> \/ action[c].work > 0
             /\ SendIpis(c)
             /\ raised' = IF polls[c] = <<>> THEN raised ELSE raised \cup {c}
             /\ action' = [action EXCEPT ![c] = NoWork]
             /\ UNCHANGED <<steering, arrival, reader, rflow, queues, scheduled, polls,
                            online, device, unplug, arrived, moved, got, astray>>

\* net_rx_action polls the first backlog on its list, process_backlog sends the
\* IPIs that wait.
Poll(c) == /\ c \in online /\ action[c].pc = "rx" /\ polls[c] # <<>>
           /\ SendIpis(c)
           /\ action' = [action EXCEPT ![c] = [pc |-> "loop", of |-> Head(polls[c]),
                                        skb |-> 0, work |-> 0]]
           /\ UNCHANGED <<steering, arrival, reader, rflow, queues, scheduled, polls,
                          raised, online, device, unplug, arrived, moved, got, astray>>

\* process_backlog dequeues the next packet; when there is none left it takes
\* over all of the input queue.
Dequeue(c) ==
  LET s == action[c].of
      ready == IF process[s] = <<>> THEN input[s] ELSE process[s]
  IN  /\ c \in online /\ action[c].pc = "loop" /\ ready # <<>>
      /\ process' = [process EXCEPT ![s] = Tail(ready)]
      /\ input' = IF process[s] = <<>> THEN [input EXCEPT ![s] = <<>>] ELSE input
      /\ action' = [action EXCEPT ![c].pc = "deliver", ![c].skb = Head(ready)]
      /\ UNCHANGED <<steering, arrival, reader, rflow, head, tail, napi, online, device,
                     unplug, rxHist>>

\* Mutant: completes without a look at the input queue.
Complete_Blind(c) ==
  LET s == action[c].of IN
  /\ c \in online /\ action[c].pc = "loop" /\ process[s] = <<>> /\ action[c].work > 0
  /\ scheduled' = scheduled \ {s}
  /\ polls' = [polls EXCEPT ![c] = Tail(@)]
  /\ action' = [action EXCEPT ![c] = [NoWork EXCEPT !.pc = "rx", !.work = 1]]
  /\ UNCHANGED <<steering, arrival, reader, rflow, queues, ipis, flying, raised, online,
                 device, unplug, rxHist>>

\* process_backlog finds both queues empty, under rps_lock, and completes: list_del
\* takes the backlog off the list, of which it is the first since Poll.
Complete(c) ==
  LET s == action[c].of IN
  /\ c \in online /\ action[c].pc = "loop" /\ process[s] = <<>> /\ input[s] = <<>>
  /\ scheduled' = scheduled \ {s}
  /\ polls' = [polls EXCEPT ![c] = Tail(@)]
  /\ action' = [action EXCEPT ![c] = [NoWork EXCEPT !.pc = "rx", !.work = 1]]
  /\ UNCHANGED <<steering, arrival, reader, rflow, queues, ipis, flying, raised, online,
                 device, unplug, rxHist>>

\* __netif_receive_skb, then input_queue_head_incr; a backlog that has used its
\* weight goes to the end of the list.
Deliver(c) ==
  LET s == action[c].of  work == action[c].work + 1 IN
  /\ c \in online /\ action[c].pc = "deliver"
  /\ got' = action[c].skb
  /\ head' = [head EXCEPT ![s] = @ + 1]
  /\ IF work < Weight
     THEN /\ action' = [action EXCEPT ![c].pc = "loop", ![c].skb = 0, ![c].work = work]
          /\ UNCHANGED polls
     ELSE /\ action' = [action EXCEPT ![c] = [NoWork EXCEPT !.pc = "rx", !.work = 1]]
          /\ polls' = [polls EXCEPT ![c] = Append(Tail(@), Head(@))]
  /\ UNCHANGED <<steering, arrival, reader, rflow, input, process, tail, scheduled,
                 ipis, flying, raised, online, device, unplug, arrived, moved, astray,
                 lost>>

Rx(c) == \/ RxAction(c) \/ RxDone(c) \/ Poll(c) \/ Dequeue(c) \/ Complete(c) \/ Deliver(c)

----------------------------------------------------------------------------
(* The device goes away.                                                   *)

\* rollback_registered_many closes it and waits for those who are handing
\* packets over (synchronize_net).
Unregister == /\ device.pc = "up" /\ arrival = NoArrival
              /\ device' = [device EXCEPT !.pc = "flushing", !.calm = (unplug.dead = NoCpu)]
              /\ UNCHANGED <<steering, arrival, reader, rflow, queues, napi, action,
                             online, unplug, rxHist>>

\* Mutant: leaves what process_backlog has taken over.
FlushBacklog_InputOnly(c) ==
  /\ device.pc = "flushing" /\ IrqsOn(c) /\ c \notin device.flushed
  /\ input' = [input EXCEPT ![c] = <<>>]
  /\ head' = [head EXCEPT ![c] = @ + Len(input[c])]
  /\ device' = [device EXCEPT !.flushed = @ \cup {c}]
  /\ UNCHANGED <<steering, arrival, reader, rflow, process, tail, napi, action, online,
                 unplug, rxHist>>

\* flush_backlog, by on_each_cpu in netdev_run_todo.
FlushBacklog(c) ==
  /\ device.pc = "flushing" /\ IrqsOn(c) /\ c \notin device.flushed
  /\ input' = [input EXCEPT ![c] = <<>>]
  /\ process' = [process EXCEPT ![c] = <<>>]
  /\ head' = [head EXCEPT ![c] = @ + Len(input[c]) + Len(process[c])]
  /\ device' = [device EXCEPT !.flushed = @ \cup {c}]
  /\ UNCHANGED <<steering, arrival, reader, rflow, tail, napi, action, online, unplug,
                 rxHist>>

\* netdev_run_todo goes on when every CPU has flushed, and frees the device.
Free == /\ device.pc = "flushing" /\ online \subseteq device.flushed
        /\ device' = [device EXCEPT !.pc = "gone"]
        /\ UNCHANGED <<steering, arrival, reader, rflow, queues, napi, action, online,
                       unplug, rxHist>>

----------------------------------------------------------------------------
(* A CPU goes away.                                                        *)

\* c is taken down with the machine stopped: no CPU is in a region without
\* preemption, IPIs have been taken.  Then dev_cpu_callback on d adopts c's
\* poll list.  The IPIs that c was to send are forgotten.
DevCpuCallback(c, d) ==
  /\ Unplug /\ online = Cpu /\ c # d /\ arrival = NoArrival /\ c \notin flying
  /\ \A e \in Cpu : action[e].pc = "idle"
  /\ online' = online \ {c}
  /\ polls' = [polls EXCEPT ![c] = <<>>, ![d] = polls[c] \o @]
  /\ raised' = IF polls[c] = <<>> THEN raised \ {c} ELSE (raised \ {c}) \cup {d}
  /\ unplug' = [dead |-> c, on |-> d]
  /\ lost' = lost \cup ipis[c]
  /\ ipis' = [ipis EXCEPT ![c] = {}]
  /\ astray' = TRUE
  /\ device' = [device EXCEPT !.calm = @ /\ device.pc # "flushing"]
  /\ UNCHANGED <<steering, arrival, reader, rflow, queues, scheduled, flying, action,
                 arrived, moved, got>>

\* dev_cpu_callback feeds the packets of the dead CPU to netif_rx_internal,
\* one after another; softirqs may come between.
Refeed ==
  LET c == unplug.dead  d == unplug.on IN
  /\ c # NoCpu /\ arrival = NoArrival /\ action[d].pc = "idle"
  /\ IF process[c] \o input[c] = <<>>
     THEN /\ unplug' = [dead |-> NoCpu, on |-> NoCpu]
          /\ UNCHANGED <<input, process, head, rflow, arrival>>
     ELSE /\ Steer(d, Head(process[c] \o input[c]))
          /\ IF process[c] # <<>>
             THEN process' = [process EXCEPT ![c] = Tail(@)] /\ UNCHANGED input
             ELSE input' = [input EXCEPT ![c] = Tail(@)] /\ UNCHANGED process
          /\ head' = [head EXCEPT ![c] = @ + 1]
          /\ UNCHANGED unplug
  /\ UNCHANGED <<steering, reader, tail, napi, action, online, device, rxHist>>

RxNext == \/ MoveReader \/ EnqueueToBacklog \/ Unregister \/ Free \/ Refeed
          \/ \E c \in Cpu : Arrive(c) \/ Ipi(c) \/ Rx(c) \/ FlushBacklog(c)
          \/ \E c, d \in Cpu : DevCpuCallback(c, d)

\* CPUs run their softirqs and take their interrupts, and what has been begun
\* is finished.
RxFairness == /\ \A c \in Cpu : WF_rxVars(Rx(c)) /\ WF_rxVars(Ipi(c))
                              /\ WF_rxVars(FlushBacklog(c))
              /\ WF_rxVars(EnqueueToBacklog) /\ WF_rxVars(Refeed) /\ WF_rxVars(Free)

RxSpec == RxInit /\ [][RxNext]_rxVars /\ RxFairness

----------------------------------------------------------------------------
RxTypeOK ==
  /\ steering \in Steerings
  /\ arrival \in [skb : Nat, on : Cpu \cup {NoCpu}, to : Cpu \cup {NoCpu},
                  tracked : BOOLEAN]
  /\ reader \in Cpu \cup {NoCpu}
  /\ rflow \in [cpu : Cpu \cup {NoCpu}, qtail : Nat]
  /\ {input, process} \subseteq [Cpu -> Seq(Nat)]
  /\ {head, tail} \subseteq [Cpu -> Nat]
  /\ {scheduled, flying, raised, online, lost} \subseteq SUBSET Cpu
  /\ polls \in [Cpu -> Seq(Cpu)] /\ ipis \in [Cpu -> SUBSET Cpu]
  /\ action \in [Cpu -> [pc : {"idle", "rx", "loop", "deliver"}, of : Cpu \cup {NoCpu},
                         skb : Nat, work : Nat]]
  /\ device \in [pc : {"up", "flushing", "gone"}, flushed : SUBSET Cpu, calm : BOOLEAN]
  /\ unplug \in [dead : Cpu \cup {NoCpu}, on : Cpu \cup {NoCpu}]
  /\ {arrived, moved, got} \subseteq Nat /\ astray \in BOOLEAN

\* The places where a backlog that is scheduled can be: a poll list, a list of
\* IPIs to send, an IPI on its way.
Places(s) == {<<"poll", c>> :
                c \in {c \in Cpu : \E i \in DOMAIN polls[c] : polls[c][i] = s}}
             \cup {<<"ipi", c>> : c \in {c \in Cpu : s \in ipis[c]}}
             \cup (IF s \in flying THEN {<<"flying", s>>} ELSE {})

\* A backlog is on one list if it is scheduled, and on none if it is not; and
\* one that holds packets is scheduled.  (A CPU that was unplugged with an IPI
\* to send, or to receive, leaves a backlog that is never scheduled again.)
BacklogOnOneList ==
  /\ RxTypeOK
  /\ \A s \in Cpu \ lost :
       /\ Cardinality(Places(s)) = IF s \in scheduled THEN 1 ELSE 0
       /\ s \in online /\ input[s] \o process[s] # <<>> => s \in scheduled
       /\ tail[s] = head[s] + Len(input[s]) + Len(process[s])
                    + Cardinality({c \in Cpu : action[c].pc = "deliver"
                                             /\ action[c].of = s})

\* However the reader of the flow moves and whichever CPUs the packets come in
\* on, they are delivered in order, as the comment in get_rps_cpu promises; but
\* not without steering, nor when a CPU is unplugged or the flow table does not
\* know of a packet because the reader was unset when it came.
FlowInOrder == [][~astray' => got' >= got]_rxVars

\* Nothing that refers to the device is in any backlog when it is freed, though
\* flush_backlog runs in the middle of process_backlog.  (A CPU that goes away
\* at the same time has packets that on_each_cpu does not reach.)
NothingLeft ==
  device.pc = "gone" /\ device.calm =>
    arrival = NoArrival /\ \A c \in Cpu : input[c] \o process[c] = <<>>

\* A packet in a backlog is delivered, or flushed, or moved to another CPU.
BacklogServed ==
  \A c \in Cpu : (input[c] \o process[c] # <<>> /\ c \notin lost) ~>
                   (input[c] \o process[c] = <<>> \/ c \in lost)

=============================================================================

----------------------------- MODULE ClockRace -----------------------------
(***************************************************************************)
(* One frozen group taken apart: its processes read their clocks while     *)
(* tools freeze and unfreeze it, with one step for every access to a field *)
(* that another thread of execution also uses.  No lock protects any of    *)
(* them.  All processes are in virtual time, with one TDF, since Epoch.    *)
(*                                                                         *)
(* A signal stops a process when it returns to user mode: one that has     *)
(* entered the kernel to read its clock goes on, and may take the time     *)
(* itself when SIGSTOP has long been pending.                              *)
(*                                                                         *)
(* A scene is who takes part, chosen once out of Scenes: the group's procs *)
(* and the tools; whether they are serial and take turns, as one tool does *)
(* that writes to a process from one thread; whether the network stack     *)
(* stamps what it receives (netstamp_needed); and for how long the wall    *)
(* clock runs from Epoch.  Every process reads its clock at most MaxReads  *)
(* times.  The span bounds freeze_past_nsec too: racing tools can push it  *)
(* beyond, and no freeze begins after that.                                *)
(***************************************************************************)
EXTENDS TaskClock, FiniteSets

CONSTANTS Proc, Leader, Tool, Scenes, Tdf, Epoch, MaxReads

ASSUME ProcAssumption == IsFiniteSet(Proc) /\ Leader \in Proc /\ IsFiniteSet(Tool)
ASSUME TdfAssumption == Tdf \in 1 .. MaxTdf
ASSUME BoundAssumption == Epoch \in Nat \ {0} /\ MaxReads \in Nat
ASSUME ScenesAssumption ==
  Scenes \subseteq [procs : {P \in SUBSET Proc : Leader \in P}, tools : SUBSET Tool,
                   serial : BOOLEAN, stamps : BOOLEAN, span : Nat]

VARIABLES
  scene,      \* it never changes
  now,        \* the undilated wall clock
  task,       \* the virtual-time fields of each process
  stopped,    \* SIGSTOP has been sent to the group and SIGCONT has not
  rd,         \* a read in progress: where it is, its ts and delta_ppn
  tool,       \* a write in progress: where it is, its now, children to do
  reads,      \* history: readings of each process
  seen,       \* history: its last reading
  stoppedFor, \* history: nanoseconds the group was stopped
  settled     \* history: those of them in which no tool was at work

hist == <<reads, seen, stoppedFor, settled>>
vars == <<scene, now, task, stopped, rd, tool, hist>>

NoRead == [pc |-> "user", ts |-> 0, delta |-> 0, settled |-> 0]
NoWrite == [pc |-> "idle", op |-> "freeze", at |-> 0, todo |-> {}]

Init == /\ scene \in Scenes
        /\ now = Epoch
        /\ task = [p \in Proc |-> InitVirtualStart(Blank, Epoch, Epoch, Tdf)]
        /\ stopped = FALSE
        /\ rd = [p \in Proc |-> NoRead]
        /\ tool = [w \in Tool |-> NoWrite]
        /\ reads = [p \in Proc |-> 0]
        /\ seen = [p \in Proc |-> Epoch]
        /\ stoppedFor = 0 /\ settled = 0

AtWork == \E w \in Tool : tool[w].pc # "idle"

Tick == /\ now < Epoch + scene.span
        /\ now' = now + 1
        /\ stoppedFor' = IF stopped THEN stoppedFor + 1 ELSE stoppedFor
        /\ settled' = IF stopped /\ ~AtWork THEN settled + 1 ELSE settled
        /\ UNCHANGED <<scene, task, stopped, rd, tool, reads, seen>>

----------------------------------------------------------------------------
(* getnstimeofday and real_virtual_timekeeping.                            *)

\* A process that runs calls the kernel for the time.
Enter(p) ==
  /\ rd[p].pc = "user" /\ ~stopped /\ reads[p] < MaxReads
  /\ rd' = [rd EXCEPT ![p] = [NoRead EXCEPT !.pc = "clock", !.settled = settled]]
  /\ UNCHANGED <<scene, now, task, stopped, tool, hist>>

\* __getnstimeofday, of getnstimeofday.  (monotonic_virtual_timekeeping takes the
\* same steps, and adds a constant to what comes out.)
ReadClock(p) ==
  /\ rd[p].pc = "clock"
  /\ rd' = [rd EXCEPT ![p].pc = "delta", ![p].ts = now]
  /\ UNCHANGED <<scene, now, task, stopped, tool, hist>>

\* update_physical_past_nsec up to the last subtraction.
ReadDelta(p) ==
  /\ rd[p].pc = "delta"
  /\ rd' = [rd EXCEPT ![p].pc = "past", ![p].delta = DeltaPpn(task[p], rd[p].ts)]
  /\ UNCHANGED <<scene, now, task, stopped, tool, hist>>

\* Mutant: a negative delta is not made good.
ReadPast_NoCatchUp(p) ==
  /\ rd[p].pc = "past"
  /\ task' = [task EXCEPT ![p].ppn = @ + rd[p].delta,
                          ![p].vpn = IF rd[p].delta < 0 THEN @
                            ELSE @ + DeltaVpn(rd[p].delta, task[p].dilation)]
  /\ rd' = [rd EXCEPT ![p].pc = "sum"]
  /\ UNCHANGED <<scene, now, stopped, tool, hist>>

\* Both pasts move.  Only the process itself writes them.
ReadPast(p) ==
  /\ rd[p].pc = "past"
  /\ task' = [task EXCEPT ![p].ppn = @ + rd[p].delta,
                          ![p].vpn = @ + DeltaVpn(rd[p].delta, task[p].dilation)]
  /\ rd' = [rd EXCEPT ![p].pc = "sum"]
  /\ UNCHANGED <<scene, now, stopped, tool, hist>>

ReadSum(p) ==
  /\ rd[p].pc = "sum"
  /\ seen' = [seen EXCEPT ![p] = task[p].vsn + task[p].vpn]
  /\ reads' = [reads EXCEPT ![p] = @ + 1]
  /\ rd' = [rd EXCEPT ![p] = NoRead]
  /\ UNCHANGED <<scene, now, task, stopped, tool, stoppedFor, settled>>

\* A packet arrives in the midst of p's read: the softirq stamps it with
\* getnstimeofday, on the clock of p, and is over before p goes on.  (One that
\* arrives between p's reads makes a read like any other.)
Interrupt(p) ==
  /\ scene.stamps /\ reads[p] < MaxReads
  /\ rd[p].pc # "user"
  /\ task' = [task EXCEPT ![p] = Timekeep(@, now)]
  /\ reads' = [reads EXCEPT ![p] = @ + 1]
  /\ UNCHANGED <<scene, now, stopped, rd, tool, seen, stoppedFor, settled>>

Reader(p) == Enter(p) \/ ReadClock(p) \/ ReadDelta(p) \/ ReadPast(p) \/ ReadSum(p)

----------------------------------------------------------------------------
(* freeze_time and unfreeze_time of the group's leader.                    *)

Step(w, from, to) == tool[w].pc = from /\ tool' = [tool EXCEPT ![w].pc = to]

Done(w) == tool' = [tool EXCEPT ![w] = NoWrite]

Write(w, op) == /\ scene.serial => ~AtWork
                /\ op = "freeze" => task[Leader].fpn <= scene.span
                /\ tool[w].pc = "idle"
                /\ tool' = [tool EXCEPT ![w] = [NoWrite EXCEPT !.pc = "check", !.op = op]]
                /\ UNCHANGED <<scene, now, task, stopped, rd, hist>>

\* freeze_time tests freeze_start_nsec > 0, unfreeze_time == 0.
Check(w) ==
  /\ IF tool[w].op = "freeze"
     THEN IF task[Leader].fsn > 0 THEN tool[w].pc = "check" /\ Done(w)
          ELSE Step(w, "check", "stop")
     ELSE IF task[Leader].fsn = 0 THEN tool[w].pc = "check" /\ Done(w)
          ELSE Step(w, "check", "stamp")
  /\ UNCHANGED <<scene, now, task, stopped, rd, hist>>

Stop(w) == /\ Step(w, "stop", "stamp")
           /\ stopped' = TRUE
           /\ UNCHANGED <<scene, now, task, rd, hist>>

\* __getnstimeofday
Stamp(w) == /\ tool[w].pc = "stamp"
            /\ tool' = [tool EXCEPT
                 ![w].at = now,
                 ![w].pc = IF tool[w].op = "freeze" THEN "record" ELSE "account"]
            /\ UNCHANGED <<scene, now, task, stopped, rd, hist>>

Record(w) == /\ tool[w].pc = "record"
             /\ task' = [task EXCEPT ![Leader].fsn = tool[w].at]
             /\ Done(w)
             /\ UNCHANGED <<scene, now, stopped, rd, hist>>

\* Mutant: an early return when the freeze took no time.
Account_Nothing(w) ==
  /\ IF tool[w].at = task[Leader].fsn
     THEN tool[w].pc = "account" /\ Done(w) /\ UNCHANGED task
     ELSE /\ Step(w, "account", "clear")
          /\ task' = [task EXCEPT ![Leader].fpn = @ + (tool[w].at - task[Leader].fsn)]
  /\ UNCHANGED <<scene, now, stopped, rd, hist>>

Account(w) == /\ Step(w, "account", "clear")
              /\ task' = [task EXCEPT ![Leader].fpn = @ + (tool[w].at - task[Leader].fsn)]
              /\ UNCHANGED <<scene, now, stopped, rd, hist>>

\* Mutants: the children are left out; SIGCONT is sent before the children have
\* their frozen time.
Clear_NoChildren(w) ==
  /\ Step(w, "clear", "populate")
  /\ task' = [task EXCEPT ![Leader].fsn = 0]
  /\ UNCHANGED <<scene, now, stopped, rd, hist>>
Clear_ResumesEarly(w) ==
  /\ tool[w].pc = "clear"
  /\ task' = [task EXCEPT ![Leader].fsn = 0]
  /\ tool' = [tool EXCEPT ![w].pc = "populate", ![w].todo = scene.procs \ {Leader}]
  /\ stopped' = FALSE
  /\ UNCHANGED <<scene, now, rd, hist>>

Clear(w) == /\ tool[w].pc = "clear"
            /\ task' = [task EXCEPT ![Leader].fsn = 0]
            /\ tool' = [tool EXCEPT ![w].pc = "populate", ![w].todo = scene.procs \ {Leader}]
            /\ UNCHANGED <<scene, now, stopped, rd, hist>>

\* populate_frozen_time, one child at a time.
Populate(w) ==
  /\ tool[w].pc = "populate"
  /\ \E c \in tool[w].todo :
       /\ task' = [task EXCEPT ![c] = PopulateFrozen(@, task[Leader])]
       /\ tool' = [tool EXCEPT ![w].todo = @ \ {c}]
  /\ UNCHANGED <<scene, now, stopped, rd, hist>>

\* Mutant: returns before SIGCONT when there is no child.
Resume_NoChild(w) ==
  /\ tool[w].pc = "populate" /\ tool[w].todo = {}
  /\ stopped' = (stopped /\ scene.procs = {Leader})
  /\ Done(w)
  /\ UNCHANGED <<scene, now, task, rd, hist>>

Resume(w) == /\ tool[w].pc = "populate" /\ tool[w].todo = {}
             /\ stopped' = FALSE
             /\ Done(w)
             /\ UNCHANGED <<scene, now, task, rd, hist>>

Writer(w) == \/ Check(w) \/ Stop(w) \/ Stamp(w) \/ Record(w)
             \/ Account(w) \/ Clear(w) \/ Populate(w) \/ Resume(w)

Next == \/ Tick
        \/ \E p \in scene.procs : Reader(p) \/ Interrupt(p)
        \/ \E w \in scene.tools : Write(w, "freeze") \/ Write(w, "unfreeze") \/ Writer(w)

\* The scheduler runs a tool that is in the kernel until it returns.
Spec == Init /\ [][Next]_vars /\ \A w \in Tool : WF_vars(Writer(w))

----------------------------------------------------------------------------
Read == [pc : {"user", "clock", "delta", "past", "sum"}, ts : Nat, delta : Int,
         settled : Nat]
Writing == [pc : {"idle", "check", "stop", "stamp", "record", "account", "clear",
                  "populate"},
            op : {"freeze", "unfreeze"}, at : Nat, todo : SUBSET Proc]

\* The types of the variables.
TypeOK == /\ scene \in Scenes /\ now \in Nat /\ stopped \in BOOLEAN
          /\ task \in [Proc -> Task]
          /\ rd \in [Proc -> Read] /\ tool \in [Tool -> Writing]
          /\ reads \in [Proc -> Nat] /\ seen \in [Proc -> Int]
          /\ stoppedFor \in Nat /\ settled \in Nat

\* However freezes and unfreezes race, a group they leave stopped has a freeze
\* recorded, so that one more unfreeze resumes it: freeze_time stops first and
\* records last, unfreeze_time clears the record first and resumes last.  And
\* when tools take turns, a recorded freeze is in force.
LeftResumable ==
  /\ TypeOK
  /\ AtWork \/ (stopped => task[Leader].fsn # 0)
  /\ scene.serial => AtWork \/ (task[Leader].fsn # 0 => stopped)

InFreeze == IF task[Leader].fsn = 0 THEN 0 ELSE now - task[Leader].fsn

\* When tools take turns, every process has between their writes been charged
\* for at least the time the group stood stopped with no tool at work, and for
\* at most the time it was stopped: freezing stops the group before it takes
\* the time, and unfreezing takes the time, and passes it on to the children,
\* before it resumes them.  At no moment is a charge negative.
FrozenDurationTight ==
  scene.serial =>
    /\ \A p \in Proc : task[p].fpn >= 0
    /\ ~AtWork => \A p \in scene.procs :
         settled <= task[p].fpn + InFreeze /\ task[p].fpn + InFreeze <= stoppedFor

\* When tools take turns, a read finds accounted for every freeze that was over
\* when the process made its call: no process resumed early sees the time it was
\* frozen (doc/vt_doc.tex gives this as the reason for the order in
\* unfreeze_time).  A freeze that begins during the read may be counted in it:
\* see ReadsMonotonic.  Undoing such a read rounds in the clock's favour, by less
\* than a nanosecond for each.  A packet stamped in the midst of a read can have
\* it count the same time twice, until the next makes it good: no bound is
\* claimed then.
ReadExcludesFreezes ==
  scene.serial /\ ~scene.stamps => \A p \in Proc : rd[p].pc = "sum" =>
    task[p].dilation * (task[p].vpn - reads[p])
      <= 1000 * (rd[p].ts - task[p].psn - rd[p].settled)

\* However freezes overtake its reads and interrupts make reads of their own
\* within them, a process's virtual past stays in proportion to its physical
\* past to within a nanosecond per read: what a late or a doubled read adds is
\* made good by the next.
PastsInStep ==
  \A p \in Proc : rd[p].pc = "user" =>
    LET lost == 1000 * task[p].ppn - task[p].dilation * task[p].vpn
    IN  -task[p].dilation * reads[p] <= lost /\ lost <= task[p].dilation * reads[p]

\* An unfreeze that has found a freeze recorded resumes the group, for a
\* moment at least, whatever another tool does meanwhile.
UnfreezeResumes ==
  \A w \in Tool : (tool[w].op = "unfreeze" /\ tool[w].pc = "stamp") ~> ~stopped

----------------------------------------------------------------------------
(* What the documentation says and the code does not do.                   *)

\* kernel/time/timekeeping.c, monotonic_virtual_timekeeping: it keeps a
\* "MONOTONIC clock in virtual time".
ReadsMonotonic == [][\A p \in Proc : seen'[p] >= seen[p]]_vars

=============================================================================

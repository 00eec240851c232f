-------------------------- MODULE ClockRaceProofs --------------------------
(***************************************************************************)
(* Theorems about ClockRace, for every group, every set of tools and every *)
(* scene.  The inductive invariant has three parts: what holds however     *)
(* tools race (AnyTools), what serial tools add (SerialTools), and what    *)
(* holds of reads that no packet interrupts (PlainReads).                  *)
(***************************************************************************)
EXTENDS ClockRace, TLAPS

----------------------------------------------------------------------------
(* What the operators of TaskClock do to the fields.                       *)

\* C division loses less than the divisor, and towards zero.
LEMMA DivS64Bound ==
  ASSUME NEW n \in Int, NEW d \in Int, d > 0
  PROVE  /\ DivS64(n, d) \in Int
         /\ -d < n - d * DivS64(n, d) /\ n - d * DivS64(n, d) < d
         /\ n >= 0 => DivS64(n, d) >= 0 /\ n - d * DivS64(n, d) >= 0
<1>1. CASE n >= 0
  <2>1. /\ n \div d \in Int /\ n \div d >= 0
        /\ d * (n \div d) <= n /\ n < d * (n \div d) + d
    BY <1>1, SMTT(30)
  <2>2. DivS64(n, d) = n \div d
    BY <1>1 DEF DivS64
  <2> QED
    BY <2>1, <2>2
<1>2. CASE n < 0
  <2> DEFINE m == -n
             q == m \div d
  <2>1. m \in Int /\ m > 0
    BY <1>2
  <2> HIDE DEF m
  <2>2. q \in Int /\ q >= 0 /\ d * q <= m /\ m < d * q + d
    BY <2>1, SMTT(30)
  <2>3. DivS64(n, d) = -q
    BY <1>2 DEF DivS64, m
  <2> HIDE DEF q
  <2>4. d * (-q) = -(d * q)
    BY <2>2
  <2> QED
    BY <1>2, <2>2, <2>3, <2>4 DEF m
<1> QED
  BY <1>1, <1>2

\* update_virtual_past_nsec loses less than one virtual nanosecond, and
\* never turns the clock back when physical time went forward.
LEMMA DeltaVpnBound ==
  ASSUME NEW delta \in Int, NEW tdf \in Int, tdf > 0
  PROVE  /\ DeltaVpn(delta, tdf) \in Int
         /\ delta >= 0 => DeltaVpn(delta, tdf) >= 0
         /\ tdf <= MaxTdf =>
              LET e == 1000 * delta - tdf * DeltaVpn(delta, tdf)
              IN  -tdf < e /\ e < tdf /\ (delta >= 0 => e >= 0)
<1> DEFINE n == delta * 1000
<1>1. n \in Int /\ n = 1000 * delta /\ (delta >= 0 => n >= 0)
  OBVIOUS
<1> HIDE DEF n
<1>2. /\ DivS64(n, tdf) \in Int
      /\ -tdf < n - tdf * DivS64(n, tdf) /\ n - tdf * DivS64(n, tdf) < tdf
      /\ n >= 0 => DivS64(n, tdf) >= 0 /\ n - tdf * DivS64(n, tdf) >= 0
  BY <1>1, DivS64Bound
<1>3. CASE tdf > MaxTdf
  BY <1>3 DEF DeltaVpn, MaxTdf
<1>4. CASE tdf = 1000
  BY <1>4 DEF DeltaVpn, MaxTdf
<1>5. CASE tdf <= MaxTdf /\ tdf # 1000
  <2>1. DeltaVpn(delta, tdf) = DivS64(n, tdf)
    BY <1>5 DEF DeltaVpn, MaxTdf, n
  <2> QED
    BY <2>1, <1>1, <1>2
<1> QED
  BY <1>3, <1>4, <1>5 DEF MaxTdf

\* What a read leaves in the task: only the two "past" fields move.
LEMMA TimekeepFields ==
  ASSUME NEW t \in Task, NEW at \in Int, t.dilation > 0, Virtual(t)
  PROVE  LET u == Timekeep(t, at)
             delta == DeltaPpn(t, at)
         IN  /\ u \in Task /\ u.dilation = t.dilation
             /\ u.vsn = t.vsn /\ u.vpn = t.vpn + DeltaVpn(delta, t.dilation)
             /\ u.psn = t.psn /\ u.ppn = t.ppn + delta
             /\ u.fsn = t.fsn /\ u.fpn = t.fpn
<1> DEFINE delta == DeltaPpn(t, at)
           dv == DeltaVpn(delta, t.dilation)
           x == [t EXCEPT !.ppn = t.ppn + delta]
           u == [x EXCEPT !.vpn = t.vpn + dv]
<1>1. delta \in Int
  BY DEF DeltaPpn, Task
<1>2. dv \in Int
  BY <1>1, DeltaVpnBound DEF Task
<1>3. Timekeep(t, at) = u
  BY Zenon DEF Timekeep
<1> HIDE DEF delta, dv
<1>4. /\ x \in Task /\ x.dilation = t.dilation /\ x.vsn = t.vsn /\ x.vpn = t.vpn
      /\ x.psn = t.psn /\ x.ppn = t.ppn + delta /\ x.fsn = t.fsn /\ x.fpn = t.fpn
  BY <1>1 DEF Task
<1> HIDE DEF x
<1>5. /\ u \in Task /\ u.dilation = t.dilation /\ u.vsn = t.vsn
      /\ u.vpn = t.vpn + dv /\ u.psn = t.psn /\ u.ppn = t.ppn + delta
      /\ u.fsn = t.fsn /\ u.fpn = t.fpn
  BY <1>2, <1>4 DEF Task
<1> QED
  BY <1>3, <1>5 DEF delta, dv

----------------------------------------------------------------------------
Lost(p) == 1000 * task[p].ppn - Tdf * task[p].vpn

\* Readings begun and not yet counted whose pasts have moved already.
Counted(p) == IF rd[p].pc = "sum" THEN reads[p] + 1 ELSE reads[p]

\* Nobody is charged, read or stopped but the group of the scene.
Clocks ==
  \A p \in Proc :
    /\ task[p].dilation = Tdf /\ task[p].vsn = Epoch /\ task[p].psn = Epoch
    /\ task[p].fsn \in {0} \cup Epoch .. now
    /\ p \notin scene.procs => rd[p].pc = "user" /\ task[p].ppn = 0 /\ task[p].fpn = 0

Writes ==
  \A w \in Tool :
    /\ tool[w].pc \in {"stop", "record"} => tool[w].op = "freeze"
    /\ tool[w].pc \in {"account", "clear", "populate"} => tool[w].op = "unfreeze"
    /\ tool[w].pc \in {"record", "account"} => tool[w].at \in Epoch .. now
    /\ tool[w].todo \subseteq scene.procs \ {Leader}

\* Somebody is on the way to record the freeze, or to resume the group.
OnTheWay(w) == \/ tool[w].op = "freeze" /\ tool[w].pc \in {"stamp", "record"}
               \/ tool[w].pc = "populate"

StopRecorded == stopped /\ task[Leader].fsn = 0 => \E w \in Tool : OnTheWay(w)

PastsBounded ==
  \A p \in Proc : -(Tdf * Counted(p)) <= Lost(p) /\ Lost(p) <= Tdf * Counted(p)

AnyTools == /\ TypeOK
            /\ now >= Epoch /\ Clocks /\ Writes
            /\ StopRecorded
            /\ PastsBounded

----------------------------------------------------------------------------
(* Tools that take turns.                                                  *)

Between(low, charge, high) == low <= charge /\ charge <= high

\* The leader's charge lies between the time the group stood stopped with no
\* tool at work and the time it was stopped.
Charged(charge) == Between(settled, task[Leader].fpn + charge, stoppedFor)

InForce == stopped <=> task[Leader].fsn # 0

\* Where the tool at work has got to: whether the group is stopped, whether a
\* freeze is recorded, and what the charge is if the moment the tool took is
\* the end of the freeze that is undone, or the start of the one that begins.
Phase(w) ==
  LET pc == tool[w].pc
      fsn == task[Leader].fsn
      at == tool[w].at
  IN  /\ pc = "check" => InForce /\ Charged(InFreeze)
      /\ pc = "stop" => ~stopped /\ fsn = 0 /\ Charged(0)
      /\ pc = "stamp" /\ tool[w].op = "freeze" => stopped /\ fsn = 0 /\ Charged(0)
      /\ pc = "record" => /\ stopped /\ fsn = 0 /\ Charged(0)
                          /\ task[Leader].fpn + (now - at) <= stoppedFor
      /\ pc = "stamp" /\ tool[w].op = "unfreeze" =>
           stopped /\ fsn # 0 /\ Charged(InFreeze)
      /\ pc = "account" => stopped /\ fsn # 0 /\ fsn <= at /\ Charged(at - fsn)
      /\ pc = "clear" => stopped /\ fsn # 0 /\ Charged(0)
      /\ pc = "populate" => stopped /\ fsn = 0 /\ Charged(0)

\* The children lag behind the leader only from when it is charged until their
\* turn has come.
Children(w) ==
  \A c \in scene.procs \ {Leader} :
    IF tool[w].pc = "clear" \/ (tool[w].pc = "populate" /\ c \in tool[w].todo)
    THEN task[c].fpn <= task[Leader].fpn
    ELSE task[c].fpn = task[Leader].fpn

Quiet == /\ InForce /\ Charged(InFreeze)
         /\ \A c \in scene.procs : task[c].fpn = task[Leader].fpn

Positive == \A p \in Proc : task[p].fpn >= 0 /\ (p # Leader => task[p].fsn = 0)

SerialTools ==
  scene.serial =>
    /\ Positive
    /\ \A v, w \in Tool : tool[v].pc # "idle" /\ tool[w].pc # "idle" => v = w
    /\ \A w \in Tool : tool[w].pc # "idle" => Phase(w) /\ Children(w)
    /\ AtWork \/ Quiet

----------------------------------------------------------------------------
(* Reads that no packet interrupts, while tools take turns.                *)

Covered(p) ==
  Tdf * (task[p].vpn - reads[p]) <= 1000 * (rd[p].ts - Epoch - rd[p].settled)

\* A read that has entered the kernel is charged for every freeze that was over
\* by then, and accounts for no more than what is left.  Rounding puts the virtual
\* past ahead only when a read goes back, and the first to do so takes back what
\* an earlier one counted, unless the physical past is not yet positive.
PlainRead(p) ==
  LET r == rd[p]
  IN  /\ r.pc # "user" => r.settled <= task[p].fpn
      /\ r.pc = "clock" => r.settled <= now - Epoch
      /\ r.pc \in {"delta", "past", "sum"} => r.settled <= r.ts - Epoch
      /\ r.pc = "past" => task[p].ppn + r.delta <= r.ts - Epoch - r.settled
      /\ r.pc = "sum" => Covered(p)
      /\ task[p].ppn <= 0 \/ -(Tdf * (Counted(p) - 1)) <= Lost(p)

PlainReads ==
  scene.serial /\ ~scene.stamps =>
    settled <= now - Epoch /\ \A p \in Proc : PlainRead(p)

IInv == AnyTools /\ SerialTools /\ PlainReads

----------------------------------------------------------------------------
(* What the steps of a tool do, field by field.                            *)

\* Tool w comes to stand at pc with the given op, moment and children to do.
Moves(w, pc, op, at, todo) ==
  /\ tool' \in [Tool -> Writing]
  /\ tool'[w].pc = pc /\ tool'[w].op = op /\ tool'[w].at = at /\ tool'[w].todo = todo
  /\ \A v \in Tool : v # w => tool'[v] = tool[v]

\* Process q has its freeze fields set and nothing else is written.
Charges(q, fsn, fpn) ==
  /\ task' \in [Proc -> Task]
  /\ task'[q].fsn = fsn /\ task'[q].fpn = fpn
  /\ \A p \in Proc : /\ task'[p].dilation = task[p].dilation
                     /\ task'[p].vsn = task[p].vsn /\ task'[p].vpn = task[p].vpn
                     /\ task'[p].psn = task[p].psn /\ task'[p].ppn = task[p].ppn
                     /\ p # q => task'[p].fsn = task[p].fsn /\ task'[p].fpn = task[p].fpn

\* A write of one entry of tool.
LEMMA ToolSet ==
  ASSUME TypeOK, NEW w \in Tool, NEW new \in Writing, tool' = [tool EXCEPT ![w] = new]
  PROVE  Moves(w, new.pc, new.op, new.at, new.todo)
<1> QED
  BY DEF TypeOK, Moves

\* A write of the freeze fields of one entry of task.
LEMMA TaskSet ==
  ASSUME TypeOK, NEW q \in Proc, NEW new \in Task, task' = [task EXCEPT ![q] = new],
         /\ new.dilation = task[q].dilation /\ new.vsn = task[q].vsn
         /\ new.vpn = task[q].vpn /\ new.psn = task[q].psn /\ new.ppn = task[q].ppn
  PROVE  Charges(q, new.fsn, new.fpn)
<1> QED
  BY DEF TypeOK, Charges

LEMMA WriteDoes ==
  ASSUME TypeOK, NEW w \in Tool, NEW op \in {"freeze", "unfreeze"}, Write(w, op)
  PROVE  /\ scene.serial => ~AtWork
         /\ tool[w].pc = "idle" /\ Moves(w, "check", op, 0, {})
         /\ UNCHANGED <<scene, now, task, stopped, rd, hist>>
<1> DEFINE new == [NoWrite EXCEPT !.pc = "check", !.op = op]
<1>1. /\ new \in Writing
      /\ new.pc = "check" /\ new.op = op /\ new.at = 0 /\ new.todo = {}
  BY DEF NoWrite, Writing
<1>2. tool' = [tool EXCEPT ![w] = new]
  BY DEF Write
<1> HIDE DEF new
<1>3. Moves(w, "check", op, 0, {})
  BY <1>1, <1>2, ToolSet
<1> QED
  BY <1>3 DEF Write

\* Tool w goes on without a change to its other fields.
LEMMA StepDoes ==
  ASSUME TypeOK, NEW w \in Tool, NEW from, NEW to, Step(w, from, to),
         to \in {"idle", "check", "stop", "stamp", "record", "account", "clear",
                 "populate"}
  PROVE  /\ tool[w].pc = from
         /\ Moves(w, to, tool[w].op, tool[w].at, tool[w].todo)
<1> DEFINE new == [tool[w] EXCEPT !.pc = to]
<1>1. tool[w] \in Writing
  BY DEF TypeOK
<1>2. /\ new \in Writing /\ new.pc = to /\ new.op = tool[w].op
      /\ new.at = tool[w].at /\ new.todo = tool[w].todo
  BY <1>1 DEF Writing
<1>3. tool' = [tool EXCEPT ![w] = new]
  BY DEF Step
<1> HIDE DEF new
<1>4. Moves(w, to, tool[w].op, tool[w].at, tool[w].todo)
  BY <1>2, <1>3, ToolSet
<1> QED
  BY <1>4 DEF Step

LEMMA DoneDoes ==
  ASSUME TypeOK, NEW w \in Tool, Done(w)
  PROVE  Moves(w, "idle", "freeze", 0, {})
<1>1. /\ NoWrite \in Writing /\ NoWrite.pc = "idle" /\ NoWrite.op = "freeze"
      /\ NoWrite.at = 0 /\ NoWrite.todo = {}
  BY DEF NoWrite, Writing
<1>2. tool' = [tool EXCEPT ![w] = NoWrite]
  BY DEF Done
<1> QED
  BY <1>1, <1>2, ToolSet

\* The early returns, and the way on.
CheckEnds(w) ==
  \/ /\ tool[w].op = "freeze" /\ task[Leader].fsn > 0
     /\ Moves(w, "idle", "freeze", 0, {})
  \/ /\ tool[w].op = "unfreeze" /\ task[Leader].fsn = 0
     /\ Moves(w, "idle", "freeze", 0, {})
CheckGoesOn(w) ==
  \/ /\ tool[w].op = "freeze" /\ ~(task[Leader].fsn > 0)
     /\ Moves(w, "stop", "freeze", tool[w].at, tool[w].todo)
  \/ /\ tool[w].op = "unfreeze" /\ task[Leader].fsn # 0
     /\ Moves(w, "stamp", "unfreeze", tool[w].at, tool[w].todo)

LEMMA CheckDoes ==
  ASSUME TypeOK, NEW w \in Tool, Check(w)
  PROVE  /\ tool[w].pc = "check" /\ (CheckEnds(w) \/ CheckGoesOn(w))
         /\ UNCHANGED <<scene, now, task, stopped, rd, hist>>
<1>1. tool[w].op \in {"freeze", "unfreeze"}
  BY DEF TypeOK, Writing
<1>2. CASE tool[w].op = "freeze" /\ task[Leader].fsn > 0
  BY <1>2, DoneDoes DEF Check, CheckEnds
<1>3. CASE tool[w].op = "freeze" /\ ~(task[Leader].fsn > 0)
  BY <1>3, StepDoes DEF Check, CheckGoesOn
<1>4. CASE tool[w].op = "unfreeze" /\ task[Leader].fsn = 0
  BY <1>4, DoneDoes DEF Check, CheckEnds
<1>5. CASE tool[w].op = "unfreeze" /\ task[Leader].fsn # 0
  BY <1>5, StepDoes DEF Check, CheckGoesOn
<1> QED
  BY <1>1, <1>2, <1>3, <1>4, <1>5

LEMMA StopDoes ==
  ASSUME TypeOK, NEW w \in Tool, Stop(w)
  PROVE  /\ tool[w].pc = "stop" /\ stopped' = TRUE
         /\ Moves(w, "stamp", tool[w].op, tool[w].at, tool[w].todo)
         /\ UNCHANGED <<scene, now, task, rd, hist>>
<1> QED
  BY StepDoes DEF Stop

LEMMA StampDoes ==
  ASSUME TypeOK, NEW w \in Tool, Stamp(w)
  PROVE  /\ tool[w].pc = "stamp"
         /\ \/ /\ tool[w].op = "freeze"
               /\ Moves(w, "record", "freeze", now, tool[w].todo)
            \/ /\ tool[w].op = "unfreeze"
               /\ Moves(w, "account", "unfreeze", now, tool[w].todo)
         /\ UNCHANGED <<scene, now, task, stopped, rd, hist>>
<1> DEFINE pc == IF tool[w].op = "freeze" THEN "record" ELSE "account"
           one == [tool[w] EXCEPT !.at = now]
           new == [one EXCEPT !.pc = pc]
<1>1. tool[w] \in Writing /\ now \in Nat /\ tool[w].op \in {"freeze", "unfreeze"}
  BY DEF TypeOK, Writing
<1>2. one \in Writing /\ one.op = tool[w].op /\ one.at = now /\ one.todo = tool[w].todo
  BY <1>1 DEF Writing
<1>3. tool' = [tool EXCEPT ![w] = new]
  <2>1. tool' = [tool EXCEPT ![w] = [[@ EXCEPT !.at = now] EXCEPT !.pc = pc]]
    BY Zenon DEF Stamp
  <2> QED
    BY <2>1, Zenon
<1> HIDE DEF one
<1>4. pc \in {"record", "account"}
  OBVIOUS
<1>5. /\ new \in Writing /\ new.op = tool[w].op /\ new.at = now
      /\ new.todo = tool[w].todo /\ new.pc = pc
  BY <1>2, <1>4 DEF Writing
<1> HIDE DEF new
<1>6. Moves(w, pc, tool[w].op, now, tool[w].todo)
  BY <1>3, <1>5, ToolSet
<1> QED
  BY <1>1, <1>6 DEF Stamp

LEMMA RecordDoes ==
  ASSUME TypeOK, NEW w \in Tool, Record(w)
  PROVE  /\ tool[w].pc = "record" /\ Moves(w, "idle", "freeze", 0, {})
         /\ Charges(Leader, tool[w].at, task[Leader].fpn)
         /\ UNCHANGED <<scene, now, stopped, rd, hist>>
<1> DEFINE new == [task[Leader] EXCEPT !.fsn = tool[w].at]
<1>1. task[Leader] \in Task /\ tool[w].at \in Int
  BY ProcAssumption DEF TypeOK, Writing
<1>2. /\ new \in Task /\ new.fsn = tool[w].at /\ new.fpn = task[Leader].fpn
      /\ new.dilation = task[Leader].dilation /\ new.vsn = task[Leader].vsn
      /\ new.vpn = task[Leader].vpn /\ new.psn = task[Leader].psn
      /\ new.ppn = task[Leader].ppn
  BY <1>1 DEF Task
<1>3. task' = [task EXCEPT ![Leader] = new]
  BY DEF Record
<1> HIDE DEF new
<1>4. Charges(Leader, tool[w].at, task[Leader].fpn)
  BY <1>2, <1>3, TaskSet, ProcAssumption
<1> QED
  BY <1>4, DoneDoes DEF Record

LEMMA AccountDoes ==
  ASSUME TypeOK, NEW w \in Tool, Account(w)
  PROVE  /\ tool[w].pc = "account"
         /\ Moves(w, "clear", tool[w].op, tool[w].at, tool[w].todo)
         /\ Charges(Leader, task[Leader].fsn,
                    task[Leader].fpn + (tool[w].at - task[Leader].fsn))
         /\ UNCHANGED <<scene, now, stopped, rd, hist>>
<1> DEFINE fpn == task[Leader].fpn + (tool[w].at - task[Leader].fsn)
           new == [task[Leader] EXCEPT !.fpn = fpn]
<1>1. task[Leader] \in Task /\ fpn \in Int
  BY ProcAssumption DEF TypeOK, Writing, Task
<1>2. task' = [task EXCEPT ![Leader] = new]
  BY DEF Account
<1> HIDE DEF fpn
<1>3. /\ new \in Task /\ new.fsn = task[Leader].fsn /\ new.fpn = fpn
      /\ new.dilation = task[Leader].dilation /\ new.vsn = task[Leader].vsn
      /\ new.vpn = task[Leader].vpn /\ new.psn = task[Leader].psn
      /\ new.ppn = task[Leader].ppn
  BY <1>1 DEF Task
<1> HIDE DEF new
<1>4. Charges(Leader, task[Leader].fsn, fpn)
  BY <1>2, <1>3, TaskSet, ProcAssumption
<1> QED
  BY <1>4, StepDoes DEF Account, fpn

LEMMA ClearDoes ==
  ASSUME TypeOK, NEW w \in Tool, Clear(w)
  PROVE  /\ tool[w].pc = "clear"
         /\ Moves(w, "populate", tool[w].op, tool[w].at, scene.procs \ {Leader})
         /\ Charges(Leader, 0, task[Leader].fpn)
         /\ UNCHANGED <<scene, now, stopped, rd, hist>>
<1> DEFINE new == [task[Leader] EXCEPT !.fsn = 0]
           others == scene.procs \ {Leader}
           one == [tool[w] EXCEPT !.pc = "populate"]
           two == [one EXCEPT !.todo = others]
<1>1. task[Leader] \in Task /\ tool[w] \in Writing /\ others \in SUBSET Proc
  BY ProcAssumption, ScenesAssumption DEF TypeOK
<1>2. /\ new \in Task /\ new.fsn = 0 /\ new.fpn = task[Leader].fpn
      /\ new.dilation = task[Leader].dilation /\ new.vsn = task[Leader].vsn
      /\ new.vpn = task[Leader].vpn /\ new.psn = task[Leader].psn
      /\ new.ppn = task[Leader].ppn
  BY <1>1 DEF Task
<1>3. task' = [task EXCEPT ![Leader] = new]
  BY DEF Clear
<1>4. tool' = [tool EXCEPT ![w] = two]
  BY Zenon DEF Clear
<1> HIDE DEF new, others
<1>5. /\ one \in Writing /\ one.pc = "populate" /\ one.op = tool[w].op
      /\ one.at = tool[w].at
  BY <1>1 DEF Writing
<1> HIDE DEF one
<1>6. /\ two \in Writing /\ two.pc = "populate" /\ two.op = tool[w].op
      /\ two.at = tool[w].at /\ two.todo = others
  BY <1>1, <1>5 DEF Writing
<1> HIDE DEF two
<1>7. Charges(Leader, 0, task[Leader].fpn)
  BY <1>2, <1>3, TaskSet, ProcAssumption
<1>8. Moves(w, "populate", tool[w].op, tool[w].at, others)
  BY <1>4, <1>6, ToolSet
<1> QED
  BY <1>7, <1>8 DEF Clear, others

LEMMA PopulateDoes ==
  ASSUME TypeOK, NEW w \in Tool, Populate(w)
  PROVE  /\ tool[w].pc = "populate"
         /\ \E c \in tool[w].todo :
              /\ Moves(w, "populate", tool[w].op, tool[w].at, tool[w].todo \ {c})
              /\ Charges(c, task[Leader].fsn, task[Leader].fpn)
         /\ UNCHANGED <<scene, now, stopped, rd, hist>>
<1>1. tool[w] \in Writing /\ tool[w].todo \subseteq Proc /\ tool[w].pc = "populate"
  BY DEF TypeOK, Writing, Populate
<1>2. PICK c \in tool[w].todo :
        /\ task' = [task EXCEPT ![c] = PopulateFrozen(task[c], task[Leader])]
        /\ tool' = [tool EXCEPT ![w].todo = @ \ {c}]
  BY Zenon, <1>1 DEF Populate, TypeOK
<1> DEFINE fsn == task[Leader].fsn
           fpn == task[Leader].fpn
           one == [task[c] EXCEPT !.fpn = fpn]
           new == [one EXCEPT !.fsn = fsn]
           left == tool[w].todo \ {c}
           move == [tool[w] EXCEPT !.todo = left]
<1>3. task[c] \in Task /\ fsn \in Int /\ fpn \in Int /\ left \in SUBSET Proc /\ c \in Proc
  BY <1>1, ProcAssumption DEF TypeOK, Task
<1>4. task' = [task EXCEPT ![c] = new] /\ tool' = [tool EXCEPT ![w] = move]
  <2>1. new = PopulateFrozen(task[c], task[Leader])
    BY Zenon DEF PopulateFrozen
  <2>2. tool' = [tool EXCEPT ![w] = move]
    BY <1>2
  <2> QED
    BY <2>1, <2>2, <1>2, Zenon
<1> HIDE DEF fsn, fpn, left
<1>5. /\ one \in Task /\ one.fpn = fpn
      /\ one.dilation = task[c].dilation /\ one.vsn = task[c].vsn
      /\ one.vpn = task[c].vpn /\ one.psn = task[c].psn /\ one.ppn = task[c].ppn
  BY <1>3 DEF Task
<1> HIDE DEF one
<1>6. /\ new \in Task /\ new.fpn = fpn /\ new.fsn = fsn
      /\ new.dilation = task[c].dilation /\ new.vsn = task[c].vsn
      /\ new.vpn = task[c].vpn /\ new.psn = task[c].psn /\ new.ppn = task[c].ppn
  BY <1>3, <1>5 DEF Task
<1>7. /\ move \in Writing /\ move.pc = "populate" /\ move.op = tool[w].op
      /\ move.at = tool[w].at /\ move.todo = left
  BY <1>1, <1>3 DEF Writing
<1> HIDE DEF new, move
<1>8. Charges(c, fsn, fpn)
  BY <1>3, <1>4, <1>6, TaskSet
<1>9. Moves(w, "populate", tool[w].op, tool[w].at, left)
  BY <1>4, <1>7, ToolSet
<1> QED
  BY <1>1, <1>8, <1>9 DEF Populate, fsn, fpn, left

LEMMA ResumeDoes ==
  ASSUME TypeOK, NEW w \in Tool, Resume(w)
  PROVE  /\ tool[w].pc = "populate" /\ tool[w].todo = {} /\ stopped' = FALSE
         /\ Moves(w, "idle", "freeze", 0, {})
         /\ UNCHANGED <<scene, now, task, rd, hist>>
<1> QED
  BY DoneDoes DEF Resume

----------------------------------------------------------------------------
(* What the steps of a reader do, field by field.                          *)

\* Process p's pasts have delta and what it stands for added to them.
Reads(p, delta) ==
  /\ task' \in [Proc -> Task]
  /\ task'[p].ppn = task[p].ppn + delta
  /\ task'[p].vpn = task[p].vpn + DeltaVpn(delta, Tdf)
  /\ task'[p].dilation = task[p].dilation /\ task'[p].vsn = task[p].vsn
  /\ task'[p].psn = task[p].psn
  /\ task'[p].fsn = task[p].fsn /\ task'[p].fpn = task[p].fpn
  /\ \A q \in Proc : q # p => task'[q] = task[q]

\* Process p's read comes to stand at pc.
Reaches(p, pc, ts, delta, was) ==
  /\ rd' \in [Proc -> Read]
  /\ rd'[p].pc = pc /\ rd'[p].ts = ts /\ rd'[p].delta = delta /\ rd'[p].settled = was
  /\ \A q \in Proc : q # p => rd'[q] = rd[q]

LEMMA ReadSet ==
  ASSUME TypeOK, NEW p \in Proc, NEW new \in Read, rd' = [rd EXCEPT ![p] = new]
  PROVE  Reaches(p, new.pc, new.ts, new.delta, new.settled)
<1> QED
  BY SMTT(60) DEF TypeOK, Reaches

LEMMA TdfFact == Tdf \in Int /\ Tdf > 0 /\ Tdf <= MaxTdf /\ MaxTdf \in Int
<1>1. Tdf \in 1 .. MaxTdf
  BY TdfAssumption
<1>2. MaxTdf \in Int
  BY DEF MaxTdf
<1> QED
  BY <1>1, <1>2

LEMMA DeltaVpnInt == \A delta \in Int : DeltaVpn(delta, Tdf) \in Int
<1> TAKE delta \in Int
<1> QED
  BY TdfFact, DeltaVpnBound

LEMMA EnterDoes ==
  ASSUME TypeOK, NEW p \in Proc, Enter(p)
  PROVE  /\ rd[p].pc = "user" /\ ~stopped
         /\ Reaches(p, "clock", 0, 0, settled)
         /\ UNCHANGED <<scene, now, task, stopped, tool, hist>>
<1> DEFINE one == [NoRead EXCEPT !.pc = "clock"]
           new == [one EXCEPT !.settled = settled]
<1>1. /\ one \in Read /\ one.pc = "clock" /\ one.ts = 0 /\ one.delta = 0
      /\ settled \in Nat
  BY DEF TypeOK, Read, NoRead
<1>2. rd' = [rd EXCEPT ![p] = new]
  BY Zenon DEF Enter
<1> HIDE DEF one
<1>3. /\ new \in Read /\ new.pc = "clock" /\ new.ts = 0 /\ new.delta = 0
      /\ new.settled = settled
  BY <1>1 DEF Read
<1> HIDE DEF new
<1>4. Reaches(p, "clock", 0, 0, settled)
  BY <1>2, <1>3, ReadSet
<1> QED
  BY <1>4 DEF Enter

LEMMA ReadClockDoes ==
  ASSUME TypeOK, NEW p \in Proc, ReadClock(p)
  PROVE  /\ rd[p].pc = "clock"
         /\ Reaches(p, "delta", now, rd[p].delta, rd[p].settled)
         /\ UNCHANGED <<scene, now, task, stopped, tool, hist>>
<1> DEFINE one == [rd[p] EXCEPT !.pc = "delta"]
           new == [one EXCEPT !.ts = now]
<1>1. rd[p] \in Read /\ now \in Nat
  BY DEF TypeOK
<1>2. /\ one \in Read /\ one.pc = "delta" /\ one.delta = rd[p].delta
      /\ one.settled = rd[p].settled
  BY <1>1 DEF Read
<1>3. rd' = [rd EXCEPT ![p] = new]
  BY Zenon DEF ReadClock
<1> HIDE DEF one
<1>4. /\ new \in Read /\ new.pc = "delta" /\ new.ts = now /\ new.delta = rd[p].delta
      /\ new.settled = rd[p].settled
  BY <1>1, <1>2 DEF Read
<1> HIDE DEF new
<1>5. Reaches(p, "delta", now, rd[p].delta, rd[p].settled)
  BY <1>3, <1>4, ReadSet
<1> QED
  BY <1>5 DEF ReadClock

LEMMA ReadDeltaDoes ==
  ASSUME TypeOK, NEW p \in Proc, ReadDelta(p)
  PROVE  /\ rd[p].pc = "delta"
         /\ Reaches(p, "past", rd[p].ts,
                    rd[p].ts - task[p].ppn - task[p].psn - task[p].fpn, rd[p].settled)
         /\ UNCHANGED <<scene, now, task, stopped, tool, hist>>
<1> DEFINE delta == DeltaPpn(task[p], rd[p].ts)
           one == [rd[p] EXCEPT !.pc = "past"]
           new == [one EXCEPT !.delta = delta]
<1>1. /\ rd[p] \in Read /\ delta \in Int
      /\ delta = rd[p].ts - task[p].ppn - task[p].psn - task[p].fpn
  BY DEF TypeOK, Read, Task, DeltaPpn
<1>2. rd' = [rd EXCEPT ![p] = new]
  BY Zenon DEF ReadDelta
<1> HIDE DEF delta
<1>3. one \in Read /\ one.pc = "past" /\ one.ts = rd[p].ts /\ one.settled = rd[p].settled
  BY <1>1 DEF Read
<1> HIDE DEF one
<1>4. /\ new \in Read /\ new.pc = "past" /\ new.ts = rd[p].ts /\ new.delta = delta
      /\ new.settled = rd[p].settled
  BY <1>1, <1>3 DEF Read
<1> HIDE DEF new
<1>5. Reaches(p, "past", rd[p].ts, delta, rd[p].settled)
  BY <1>2, <1>4, ReadSet
<1> QED
  BY <1>1, <1>5 DEF ReadDelta

LEMMA ReadPastDoes ==
  ASSUME TypeOK, NEW p \in Proc, ReadPast(p), task[p].dilation = Tdf
  PROVE  /\ rd[p].pc = "past" /\ Reads(p, rd[p].delta)
         /\ Reaches(p, "sum", rd[p].ts, rd[p].delta, rd[p].settled)
         /\ UNCHANGED <<scene, now, stopped, tool, hist>>
<1> DEFINE delta == rd[p].delta
           dv == DeltaVpn(delta, Tdf)
           ppn == task[p].ppn + delta
           vpn == task[p].vpn + dv
           one == [task[p] EXCEPT !.ppn = ppn]
           new == [one EXCEPT !.vpn = vpn]
           sum == [rd[p] EXCEPT !.pc = "sum"]
<1>1. rd[p] \in Read /\ task[p] \in Task /\ delta \in Int
  BY DEF TypeOK, Read
<1>2. dv \in Int /\ ppn \in Int /\ vpn \in Int
  <2>1. dv \in Int
    BY <1>1, DeltaVpnInt
  <2> QED
    BY <1>1, <2>1 DEF Task
<1>3. task' = [task EXCEPT ![p] = new] /\ rd' = [rd EXCEPT ![p] = sum]
  BY Zenon DEF ReadPast
<1> HIDE DEF ppn, vpn
<1>4. /\ one \in Task /\ one.ppn = ppn /\ one.vpn = task[p].vpn
      /\ one.dilation = task[p].dilation /\ one.vsn = task[p].vsn
      /\ one.psn = task[p].psn /\ one.fsn = task[p].fsn /\ one.fpn = task[p].fpn
  BY <1>1, <1>2 DEF Task
<1> HIDE DEF one
<1>5. /\ new \in Task /\ new.ppn = ppn /\ new.vpn = vpn
      /\ new.dilation = task[p].dilation /\ new.vsn = task[p].vsn
      /\ new.psn = task[p].psn /\ new.fsn = task[p].fsn /\ new.fpn = task[p].fpn
  BY <1>2, <1>4 DEF Task
<1>6. /\ sum \in Read /\ sum.pc = "sum" /\ sum.ts = rd[p].ts
      /\ sum.delta = rd[p].delta /\ sum.settled = rd[p].settled
  BY <1>1 DEF Read
<1> HIDE DEF new, sum
<1>7. Reaches(p, "sum", rd[p].ts, rd[p].delta, rd[p].settled)
  BY <1>3, <1>6, ReadSet
<1>8. Reads(p, delta)
  BY <1>3, <1>5 DEF Reads, TypeOK, ppn, vpn
<1> QED
  BY <1>7, <1>8 DEF ReadPast

LEMMA ReadSumDoes ==
  ASSUME TypeOK, NEW p \in Proc, ReadSum(p)
  PROVE  /\ rd[p].pc = "sum" /\ Reaches(p, "user", 0, 0, 0)
         /\ reads' \in [Proc -> Nat] /\ reads'[p] = reads[p] + 1
         /\ \A q \in Proc : q # p => reads'[q] = reads[q]
         /\ seen' \in [Proc -> Int]
         /\ UNCHANGED <<scene, now, task, stopped, tool, stoppedFor, settled>>
<1>1. /\ NoRead \in Read /\ NoRead.pc = "user" /\ NoRead.ts = 0
      /\ NoRead.delta = 0 /\ NoRead.settled = 0
  BY DEF NoRead, Read
<1>2. Reaches(p, "user", 0, 0, 0)
  BY <1>1, ReadSet DEF ReadSum
<1>3. task[p].vsn + task[p].vpn \in Int
  BY DEF TypeOK, Task
<1>4. seen' \in [Proc -> Int]
  BY <1>3 DEF TypeOK, ReadSum
<1>5. /\ reads' \in [Proc -> Nat] /\ reads'[p] = reads[p] + 1
      /\ \A q \in Proc : q # p => reads'[q] = reads[q]
  BY DEF TypeOK, ReadSum
<1> QED
  BY <1>2, <1>4, <1>5 DEF ReadSum

LEMMA InterruptDoes ==
  ASSUME TypeOK, NEW p \in Proc, Interrupt(p),
         task[p].dilation = Tdf, task[p].vsn = Epoch
  PROVE  /\ rd[p].pc # "user" /\ scene.stamps
         /\ Reads(p, DeltaPpn(task[p], now)) /\ DeltaPpn(task[p], now) \in Int
         /\ reads' \in [Proc -> Nat] /\ reads'[p] = reads[p] + 1
         /\ \A q \in Proc : q # p => reads'[q] = reads[q]
         /\ UNCHANGED <<scene, now, stopped, rd, tool, seen, stoppedFor, settled>>
<1> DEFINE delta == DeltaPpn(task[p], now)
           new == Timekeep(task[p], now)
<1>1. task[p] \in Task /\ now \in Int /\ delta \in Int
  BY DEF TypeOK, Task, DeltaPpn
<1>2. Virtual(task[p]) /\ task[p].dilation > 0
  BY TdfAssumption, BoundAssumption DEF Virtual
<1>3. /\ new \in Task /\ new.dilation = task[p].dilation
      /\ new.vsn = task[p].vsn /\ new.vpn = task[p].vpn + DeltaVpn(delta, Tdf)
      /\ new.psn = task[p].psn /\ new.ppn = task[p].ppn + delta
      /\ new.fsn = task[p].fsn /\ new.fpn = task[p].fpn
  BY <1>1, <1>2, TimekeepFields
<1>4. task' = [task EXCEPT ![p] = new]
  BY DEF Interrupt
<1> HIDE DEF new, delta
<1>5. Reads(p, delta)
  BY <1>3, <1>4 DEF Reads, TypeOK
<1>6. /\ reads' \in [Proc -> Nat] /\ reads'[p] = reads[p] + 1
      /\ \A q \in Proc : q # p => reads'[q] = reads[q]
  BY DEF TypeOK, Interrupt
<1> QED
  BY <1>1, <1>5, <1>6 DEF Interrupt, delta

----------------------------------------------------------------------------
(* However tools race.                                                     *)

\* A read loses less than a nanosecond, on either side.
LEMMA ReadLoses ==
  ASSUME NEW ppn \in Int, NEW vpn \in Int, NEW delta \in Int, NEW n \in Nat,
         -(Tdf * n) <= 1000 * ppn - Tdf * vpn, 1000 * ppn - Tdf * vpn <= Tdf * n
  PROVE  LET lost == 1000 * (ppn + delta) - Tdf * (vpn + DeltaVpn(delta, Tdf))
         IN  -(Tdf * (n + 1)) <= lost /\ lost <= Tdf * (n + 1)
<1> DEFINE dv == DeltaVpn(delta, Tdf)
           e == 1000 * delta - Tdf * dv
           lost == 1000 * ppn - Tdf * vpn
<1>1. dv \in Int /\ -Tdf < e /\ e < Tdf
  BY TdfFact, DeltaVpnBound
<1> HIDE DEF dv
<1>2. 1000 * (ppn + delta) - Tdf * (vpn + dv) = lost + e
  BY <1>1, TdfFact
<1>3. Tdf * (n + 1) = Tdf * n + Tdf /\ Tdf * n \in Int
  BY TdfFact
<1>4. lost \in Int /\ e \in Int
  BY <1>1, TdfFact
<1> HIDE DEF e, lost
<1>5. -(Tdf * n) <= lost /\ lost <= Tdf * n
  BY DEF lost
<1> QED
  BY <1>1, <1>2, <1>3, <1>4, <1>5, TdfFact DEF dv

LEMMA InitAnyTools == Init => AnyTools
<1> SUFFICES ASSUME Init PROVE AnyTools
  OBVIOUS
<1> DEFINE start == [dilation |-> Tdf, vsn |-> Epoch, vpn |-> 0, psn |-> Epoch,
                     ppn |-> 0, fsn |-> 0, fpn |-> 0]
<1>1. InitVirtualStart(Blank, Epoch, Epoch, Tdf) = start
  BY TdfFact DEF InitVirtualStart
<1>2. /\ start \in Task /\ Epoch \in Nat
      /\ start.dilation = Tdf /\ start.vsn = Epoch /\ start.psn = Epoch
      /\ start.fsn = 0 /\ start.fpn = 0 /\ start.ppn = 0 /\ start.vpn = 0
  BY TdfFact, BoundAssumption DEF Task
<1>3. task = [p \in Proc |-> start]
  BY <1>1 DEF Init
<1>4. NoRead \in Read /\ NoRead.pc = "user" /\ NoWrite \in Writing
      /\ NoWrite.pc = "idle" /\ NoWrite.todo = {}
  BY DEF NoRead, Read, NoWrite, Writing
<1> HIDE DEF start
<1>5. TypeOK
  <2>1. task \in [Proc -> Task]
    BY <1>2, <1>3
  <2>2. rd \in [Proc -> Read] /\ tool \in [Tool -> Writing]
    BY <1>4 DEF Init
  <2>3. reads \in [Proc -> Nat] /\ seen \in [Proc -> Int]
    BY <1>2 DEF Init
  <2>4. /\ scene \in Scenes /\ now \in Nat /\ stopped \in BOOLEAN
        /\ stoppedFor \in Nat /\ settled \in Nat
    BY <1>2 DEF Init
  <2> QED
    BY <2>1, <2>2, <2>3, <2>4 DEF TypeOK
<1>6. \A p \in Proc : /\ task[p].dilation = Tdf /\ task[p].vsn = Epoch
                      /\ task[p].psn = Epoch /\ task[p].fsn = 0 /\ task[p].fpn = 0
                      /\ task[p].ppn = 0 /\ task[p].vpn = 0
                      /\ rd[p].pc = "user" /\ reads[p] = 0
  BY <1>2, <1>3, <1>4 DEF Init
<1>7. Clocks
  BY <1>6 DEF Clocks
<1>8. Writes
  BY <1>4 DEF Init, Writes
<1>9. PastsBounded
  BY <1>6, TdfFact DEF PastsBounded, Lost, Counted
<1> QED
  BY <1>2, <1>5, <1>7, <1>8, <1>9 DEF AnyTools, StopRecorded, Init

LEMMA TickKeepsAnyTools == AnyTools /\ Tick => AnyTools'
<1> SUFFICES ASSUME AnyTools, Tick PROVE AnyTools'
  OBVIOUS
<1>1. TypeOK' /\ now' >= Epoch
  BY BoundAssumption DEF AnyTools, TypeOK, Tick
<1>2. Clocks' /\ Writes'
  BY BoundAssumption DEF AnyTools, TypeOK, Tick, Clocks, Writes
<1>3. StopRecorded' /\ PastsBounded'
  BY DEF AnyTools, Tick, StopRecorded, OnTheWay, PastsBounded, Lost, Counted
<1> QED
  BY <1>1, <1>2, <1>3 DEF AnyTools

LEMMA ReaderKeepsAnyTools ==
  ASSUME AnyTools, NEW p \in scene.procs, Reader(p) \/ Interrupt(p)
  PROVE  AnyTools'
<1>1. /\ TypeOK /\ p \in Proc /\ scene.procs \subseteq Proc
      /\ task[p].dilation = Tdf /\ task[p].vsn = Epoch
  BY ScenesAssumption DEF AnyTools, TypeOK, Clocks
<1>2. CASE Enter(p)
  <2>1. /\ rd[p].pc = "user" /\ Reaches(p, "clock", 0, 0, settled)
        /\ UNCHANGED <<scene, now, task, stopped, tool, hist>>
    BY <1>1, <1>2, EnterDoes
  <2>2. TypeOK' /\ Clocks' /\ Writes' /\ now' >= Epoch
    BY <2>1 DEF AnyTools, TypeOK, Clocks, Writes, Reaches, hist
  <2>3. StopRecorded'
    BY <2>1 DEF AnyTools, StopRecorded, OnTheWay
  <2>4. PastsBounded'
    BY <2>1 DEF AnyTools, PastsBounded, Lost, Counted, Reaches, hist
  <2> QED
    BY <2>2, <2>3, <2>4 DEF AnyTools
<1>7. CASE ReadClock(p)
  <2>1. /\ rd[p].pc = "clock"
        /\ Reaches(p, "delta", now, rd[p].delta, rd[p].settled)
        /\ UNCHANGED <<scene, now, task, stopped, tool, hist>>
    BY <1>1, <1>7, ReadClockDoes
  <2>2. TypeOK' /\ Clocks' /\ Writes' /\ now' >= Epoch
    BY <2>1 DEF AnyTools, TypeOK, Clocks, Writes, Reaches, hist
  <2>3. StopRecorded'
    BY <2>1 DEF AnyTools, StopRecorded, OnTheWay
  <2>4. PastsBounded'
    BY <2>1 DEF AnyTools, PastsBounded, Lost, Counted, Reaches, hist
  <2> QED
    BY <2>2, <2>3, <2>4 DEF AnyTools
<1>3. CASE ReadDelta(p)
  <2> DEFINE delta == rd[p].ts - task[p].ppn - task[p].psn - task[p].fpn
  <2>1. /\ rd[p].pc = "delta" /\ Reaches(p, "past", rd[p].ts, delta, rd[p].settled)
        /\ UNCHANGED <<scene, now, task, stopped, tool, hist>>
    BY <1>1, <1>3, ReadDeltaDoes
  <2> HIDE DEF delta
  <2>2. TypeOK' /\ Clocks' /\ Writes' /\ now' >= Epoch
    BY <2>1 DEF AnyTools, TypeOK, Clocks, Writes, Reaches, hist
  <2>3. StopRecorded'
    BY <2>1 DEF AnyTools, StopRecorded, OnTheWay
  <2>4. PastsBounded'
    BY <2>1 DEF AnyTools, PastsBounded, Lost, Counted, Reaches, hist
  <2> QED
    BY <2>2, <2>3, <2>4 DEF AnyTools
<1>4. CASE ReadPast(p)
  <2>1. /\ rd[p].pc = "past" /\ Reads(p, rd[p].delta)
        /\ Reaches(p, "sum", rd[p].ts, rd[p].delta, rd[p].settled)
        /\ UNCHANGED <<scene, now, stopped, tool, hist>>
    BY <1>1, <1>4, ReadPastDoes
  <2>2. TypeOK' /\ Clocks' /\ Writes' /\ now' >= Epoch
    BY <2>1 DEF AnyTools, TypeOK, Clocks, Writes, Reaches, Reads, hist
  <2>3. StopRecorded'
    BY <2>1, ProcAssumption DEF AnyTools, StopRecorded, OnTheWay, Reads
  <2>4. PastsBounded'
    <3>1. ASSUME NEW q \in Proc, q # p
          PROVE  -(Tdf * Counted(q)') <= Lost(q)' /\ Lost(q)' <= Tdf * Counted(q)'
      BY <2>1, <3>1 DEF AnyTools, PastsBounded, Lost, Counted, Reaches, Reads, hist
    <3>2. -(Tdf * Counted(p)') <= Lost(p)' /\ Lost(p)' <= Tdf * Counted(p)'
      <4>1. /\ task[p].ppn \in Int /\ task[p].vpn \in Int /\ rd[p].delta \in Int
            /\ reads[p] \in Nat
        BY <1>1 DEF TypeOK, Task, Read
      <4>2. /\ -(Tdf * reads[p]) <= 1000 * task[p].ppn - Tdf * task[p].vpn
            /\ 1000 * task[p].ppn - Tdf * task[p].vpn <= Tdf * reads[p]
        BY <1>1, <2>1 DEF AnyTools, PastsBounded, Lost, Counted
      <4>3. /\ Counted(p)' = reads[p] + 1
            /\ Lost(p)' = 1000 * (task[p].ppn + rd[p].delta)
                           - Tdf * (task[p].vpn + DeltaVpn(rd[p].delta, Tdf))
        BY <1>1, <2>1 DEF Lost, Counted, Reaches, Reads, hist
      <4> QED
        BY <4>1, <4>2, <4>3, ReadLoses
    <3> QED
      BY <3>1, <3>2 DEF PastsBounded
  <2> QED
    BY <2>2, <2>3, <2>4 DEF AnyTools
<1>5. CASE ReadSum(p)
  <2>1. /\ rd[p].pc = "sum" /\ Reaches(p, "user", 0, 0, 0)
        /\ reads' \in [Proc -> Nat] /\ reads'[p] = reads[p] + 1
        /\ \A q \in Proc : q # p => reads'[q] = reads[q]
        /\ seen' \in [Proc -> Int]
        /\ UNCHANGED <<scene, now, task, stopped, tool, stoppedFor, settled>>
    BY <1>1, <1>5, ReadSumDoes
  <2>2. TypeOK' /\ Clocks' /\ Writes' /\ now' >= Epoch
    BY <2>1 DEF AnyTools, TypeOK, Clocks, Writes, Reaches
  <2>3. StopRecorded'
    BY <2>1 DEF AnyTools, StopRecorded, OnTheWay
  <2>4. \A q \in Proc : Counted(q)' = Counted(q) /\ Lost(q)' = Lost(q)
    BY <2>1 DEF Lost, Counted, Reaches
  <2>5. PastsBounded'
    BY <2>4 DEF AnyTools, PastsBounded
  <2> QED
    BY <2>2, <2>3, <2>5 DEF AnyTools
<1>6. CASE Interrupt(p)
  <2> DEFINE delta == DeltaPpn(task[p], now)
  <2>1. /\ rd[p].pc # "user" /\ Reads(p, delta) /\ delta \in Int
        /\ reads' \in [Proc -> Nat] /\ reads'[p] = reads[p] + 1
        /\ \A q \in Proc : q # p => reads'[q] = reads[q]
        /\ UNCHANGED <<scene, now, stopped, rd, tool, seen, stoppedFor, settled>>
    BY <1>1, <1>6, InterruptDoes
  <2> HIDE DEF delta
  <2>2. TypeOK' /\ Clocks' /\ Writes' /\ now' >= Epoch
    BY <2>1 DEF AnyTools, TypeOK, Clocks, Writes, Reads
  <2>3. StopRecorded'
    BY <2>1, ProcAssumption DEF AnyTools, StopRecorded, OnTheWay, Reads
  <2>4. PastsBounded'
    <3>1. ASSUME NEW q \in Proc, q # p
          PROVE  -(Tdf * Counted(q)') <= Lost(q)' /\ Lost(q)' <= Tdf * Counted(q)'
      BY <2>1, <3>1 DEF AnyTools, PastsBounded, Lost, Counted, Reads
    <3>2. -(Tdf * Counted(p)') <= Lost(p)' /\ Lost(p)' <= Tdf * Counted(p)'
      <4>1. task[p].ppn \in Int /\ task[p].vpn \in Int /\ Counted(p) \in Nat
        BY <1>1 DEF TypeOK, Task, Counted
      <4>2. /\ -(Tdf * Counted(p)) <= 1000 * task[p].ppn - Tdf * task[p].vpn
            /\ 1000 * task[p].ppn - Tdf * task[p].vpn <= Tdf * Counted(p)
        BY <1>1 DEF AnyTools, PastsBounded, Lost
      <4>3. /\ Counted(p)' = Counted(p) + 1
            /\ Lost(p)' = 1000 * (task[p].ppn + delta)
                           - Tdf * (task[p].vpn + DeltaVpn(delta, Tdf))
        BY <1>1, <2>1 DEF Lost, Counted, Reads, TypeOK
      <4> QED
        BY <2>1, <4>1, <4>2, <4>3, ReadLoses
    <3> QED
      BY <3>1, <3>2 DEF PastsBounded
  <2> QED
    BY <2>2, <2>3, <2>4 DEF AnyTools
<1> QED
  BY <1>2, <1>3, <1>4, <1>5, <1>6, <1>7 DEF Reader

\* No write of a tool touches a past, or a process outside the scene.
ChargesOnly ==
  /\ task' \in [Proc -> Task]
  /\ \A p \in Proc : /\ task'[p].dilation = task[p].dilation
                     /\ task'[p].vsn = task[p].vsn /\ task'[p].vpn = task[p].vpn
                     /\ task'[p].psn = task[p].psn /\ task'[p].ppn = task[p].ppn
                     /\ task'[p].fsn \in {0} \cup Epoch .. now
                     /\ p \notin scene.procs => task'[p].fpn = task[p].fpn

WritingOK(pc, op, at, todo) ==
  /\ pc \in {"stop", "record"} => op = "freeze"
  /\ pc \in {"account", "clear", "populate"} => op = "unfreeze"
  /\ pc \in {"record", "account"} => at \in Epoch .. now
  /\ todo \subseteq scene.procs \ {Leader}

\* What is left to show of a tool's step.
LEMMA ToolFrame ==
  ASSUME AnyTools, NEW w \in Tool, NEW pc, NEW op, NEW at, NEW todo,
         Moves(w, pc, op, at, todo), WritingOK(pc, op, at, todo),
         ChargesOnly, stopped' \in BOOLEAN, UNCHANGED <<scene, now, rd, hist>>,
         StopRecorded'
  PROVE  AnyTools'
<1>1. TypeOK' /\ now' >= Epoch
  BY DEF AnyTools, TypeOK, Moves, ChargesOnly, hist
<1>2. Clocks'
  BY DEF AnyTools, Clocks, ChargesOnly
<1>3. Writes'
  BY DEF AnyTools, Writes, WritingOK, Moves
<1>4. \A p \in Proc : Lost(p)' = Lost(p) /\ Counted(p)' = Counted(p)
  BY DEF ChargesOnly, Lost, Counted, hist
<1>5. PastsBounded'
  BY <1>4 DEF AnyTools, PastsBounded
<1> QED
  BY <1>1, <1>2, <1>3, <1>5 DEF AnyTools

LEMMA NoCharge == AnyTools /\ UNCHANGED task => ChargesOnly
<1> QED
  BY DEF AnyTools, TypeOK, Clocks, ChargesOnly

LEMMA OneCharge ==
  ASSUME AnyTools, NEW q \in scene.procs, NEW fsn \in {0} \cup Epoch .. now, NEW fpn,
         Charges(q, fsn, fpn)
  PROVE  ChargesOnly
<1> QED
  BY DEF AnyTools, TypeOK, Clocks, ChargesOnly, Charges

LEMMA SceneFact ==
  ASSUME TypeOK
  PROVE  /\ scene.procs \subseteq Proc /\ Leader \in scene.procs
         /\ scene.tools \subseteq Tool /\ scene.serial \in BOOLEAN
         /\ scene.stamps \in BOOLEAN /\ scene.span \in Nat
<1> QED
  BY ScenesAssumption DEF TypeOK

LEMMA WriteKeepsAnyTools ==
  ASSUME AnyTools, NEW w \in scene.tools, NEW op \in {"freeze", "unfreeze"}, Write(w, op)
  PROVE  AnyTools'
<1>1. TypeOK /\ w \in Tool
  BY SceneFact DEF AnyTools
<1>2. /\ tool[w].pc = "idle" /\ Moves(w, "check", op, 0, {})
      /\ UNCHANGED <<scene, now, task, stopped, rd, hist>>
  BY <1>1, WriteDoes
<1>3. StopRecorded'
  BY <1>1, <1>2 DEF AnyTools, StopRecorded, OnTheWay, Moves
<1>4. WritingOK("check", op, 0, {}) /\ stopped' \in BOOLEAN
  BY <1>1, <1>2 DEF WritingOK, TypeOK
<1> QED
  BY <1>1, <1>2, <1>3, <1>4, NoCharge, ToolFrame

\* The orders of the writes: a freeze stops the group before it records and an
\* unfreeze clears the record before it resumes, so that whoever leaves the
\* group stopped with no freeze recorded has not finished.
LEMMA WriterKeepsAnyTools ==
  ASSUME AnyTools, NEW w \in scene.tools, Writer(w)
  PROVE  AnyTools'
<1>1. TypeOK /\ w \in Tool /\ Leader \in scene.procs /\ Leader \in Proc
  BY SceneFact, ProcAssumption DEF AnyTools
<1>2. /\ tool[w].pc \in {"stop", "record"} => tool[w].op = "freeze"
      /\ tool[w].pc \in {"account", "clear", "populate"} => tool[w].op = "unfreeze"
      /\ tool[w].pc \in {"record", "account"} => tool[w].at \in Epoch .. now
      /\ tool[w].todo \subseteq scene.procs \ {Leader}
      /\ now \in Nat /\ Epoch \in Nat /\ Epoch > 0 /\ now >= Epoch
      /\ stopped \in BOOLEAN
      /\ task[Leader].fsn \in {0} \cup Epoch .. now
  BY <1>1, BoundAssumption DEF AnyTools, TypeOK, Writes, Clocks
<1>3. CASE Check(w)
  <2>1. /\ tool[w].pc = "check" /\ (CheckEnds(w) \/ CheckGoesOn(w))
        /\ UNCHANGED <<scene, now, task, stopped, rd, hist>>
    BY <1>1, <1>3, CheckDoes
  <2>2. ChargesOnly
    BY <2>1, NoCharge
  <2>3. CASE CheckEnds(w)
    <3>1. Moves(w, "idle", "freeze", 0, {})
      BY <2>3 DEF CheckEnds
    <3>2. StopRecorded'
      BY <1>1, <2>1, <3>1 DEF AnyTools, StopRecorded, OnTheWay, Moves
    <3>3. WritingOK("idle", "freeze", 0, {})
      BY DEF WritingOK
    <3> QED
      BY <1>1, <1>2, <2>1, <2>2, <3>1, <3>2, <3>3, ToolFrame
  <2>4. CASE CheckGoesOn(w)
    <3>1. PICK pc, op : /\ <<pc, op>> \in {<<"stop", "freeze">>, <<"stamp", "unfreeze">>}
                        /\ Moves(w, pc, op, tool[w].at, tool[w].todo)
      BY <2>4 DEF CheckGoesOn
    <3>2. StopRecorded'
      BY <1>1, <2>1, <3>1 DEF AnyTools, StopRecorded, OnTheWay, Moves
    <3>3. WritingOK(pc, op, tool[w].at, tool[w].todo)
      BY <1>2, <3>1 DEF WritingOK
    <3> QED
      BY <1>1, <1>2, <2>1, <2>2, <3>1, <3>2, <3>3, ToolFrame
  <2> QED
    BY <2>1, <2>3, <2>4
<1>4. CASE Stop(w)
  <2>1. /\ tool[w].pc = "stop" /\ stopped' = TRUE
        /\ Moves(w, "stamp", tool[w].op, tool[w].at, tool[w].todo)
        /\ UNCHANGED <<scene, now, task, rd, hist>>
    BY <1>1, <1>4, StopDoes
  <2>2. StopRecorded'
    BY <1>1, <1>2, <2>1 DEF StopRecorded, OnTheWay, Moves
  <2>3. WritingOK("stamp", tool[w].op, tool[w].at, tool[w].todo)
    BY <1>2 DEF WritingOK
  <2> QED
    BY <1>1, <2>1, <2>2, <2>3, NoCharge, ToolFrame
<1>5. CASE Stamp(w)
  <2>1. /\ tool[w].pc = "stamp"
        /\ UNCHANGED <<scene, now, task, stopped, rd, hist>>
    BY <1>1, <1>5, StampDoes
  <2>2. PICK pc, op : /\ <<pc, op>> \in {<<"record", "freeze">>, <<"account", "unfreeze">>}
                      /\ tool[w].op = op /\ Moves(w, pc, op, now, tool[w].todo)
    BY <1>1, <1>5, StampDoes
  <2>3. StopRecorded'
    BY <1>1, <2>1, <2>2 DEF AnyTools, StopRecorded, OnTheWay, Moves
  <2>4. WritingOK(pc, op, now, tool[w].todo)
    BY <1>2, <2>2 DEF WritingOK
  <2> QED
    BY <1>1, <1>2, <2>1, <2>2, <2>3, <2>4, NoCharge, ToolFrame
<1>6. CASE Record(w)
  <2>1. /\ tool[w].pc = "record" /\ Moves(w, "idle", "freeze", 0, {})
        /\ Charges(Leader, tool[w].at, task[Leader].fpn)
        /\ UNCHANGED <<scene, now, stopped, rd, hist>>
    BY <1>1, <1>6, RecordDoes
  <2>2. ChargesOnly
    BY <1>1, <1>2, <2>1, OneCharge
  <2>3. StopRecorded'
    BY <1>2, <2>1 DEF StopRecorded, Charges
  <2>4. WritingOK("idle", "freeze", 0, {})
    BY DEF WritingOK
  <2> QED
    BY <1>1, <1>2, <2>1, <2>2, <2>3, <2>4, ToolFrame
<1>7. CASE Account(w)
  <2>1. /\ tool[w].pc = "account"
        /\ Moves(w, "clear", tool[w].op, tool[w].at, tool[w].todo)
        /\ Charges(Leader, task[Leader].fsn,
                   task[Leader].fpn + (tool[w].at - task[Leader].fsn))
        /\ UNCHANGED <<scene, now, stopped, rd, hist>>
    BY <1>1, <1>7, AccountDoes
  <2>2. ChargesOnly
    BY <1>1, <1>2, <2>1, OneCharge
  <2>3. StopRecorded'
    BY <1>1, <2>1 DEF AnyTools, StopRecorded, OnTheWay, Moves, Charges
  <2>4. WritingOK("clear", tool[w].op, tool[w].at, tool[w].todo)
    BY <1>2, <2>1 DEF WritingOK
  <2> QED
    BY <1>1, <1>2, <2>1, <2>2, <2>3, <2>4, ToolFrame
<1>8. CASE Clear(w)
  <2>1. /\ tool[w].pc = "clear"
        /\ Moves(w, "populate", tool[w].op, tool[w].at, scene.procs \ {Leader})
        /\ Charges(Leader, 0, task[Leader].fpn)
        /\ UNCHANGED <<scene, now, stopped, rd, hist>>
    BY <1>1, <1>8, ClearDoes
  <2>2. ChargesOnly
    BY <1>1, <1>2, <2>1, OneCharge
  <2>3. StopRecorded'
    BY <1>1, <2>1 DEF StopRecorded, OnTheWay, Moves
  <2>4. WritingOK("populate", tool[w].op, tool[w].at, scene.procs \ {Leader})
    BY <1>2, <2>1 DEF WritingOK
  <2> QED
    BY <1>1, <1>2, <2>1, <2>2, <2>3, <2>4, ToolFrame
<1>9. CASE Populate(w)
  <2>1. /\ tool[w].pc = "populate"
        /\ UNCHANGED <<scene, now, stopped, rd, hist>>
    BY <1>1, <1>9, PopulateDoes
  <2>2. PICK c \in tool[w].todo :
          /\ Moves(w, "populate", tool[w].op, tool[w].at, tool[w].todo \ {c})
          /\ Charges(c, task[Leader].fsn, task[Leader].fpn)
    BY <1>1, <1>9, PopulateDoes
  <2>3. ChargesOnly
    BY <1>2, <2>2, OneCharge
  <2>4. StopRecorded'
    BY <1>1, <2>1, <2>2 DEF StopRecorded, OnTheWay, Moves
  <2>5. WritingOK("populate", tool[w].op, tool[w].at, tool[w].todo \ {c})
    BY <1>2, <2>1 DEF WritingOK
  <2> QED
    BY <1>1, <1>2, <2>1, <2>2, <2>3, <2>4, <2>5, ToolFrame
<1>10. CASE Resume(w)
  <2>1. /\ stopped' = FALSE /\ Moves(w, "idle", "freeze", 0, {})
        /\ UNCHANGED <<scene, now, task, rd, hist>>
    BY <1>1, <1>10, ResumeDoes
  <2>2. StopRecorded'
    BY <2>1 DEF StopRecorded
  <2>3. WritingOK("idle", "freeze", 0, {})
    BY DEF WritingOK
  <2> QED
    BY <1>1, <2>1, <2>2, <2>3, NoCharge, ToolFrame
<1> QED
  BY <1>3, <1>4, <1>5, <1>6, <1>7, <1>8, <1>9, <1>10 DEF Writer

LEMMA NextKeepsAnyTools == AnyTools /\ [Next]_vars => AnyTools'
<1> SUFFICES ASSUME AnyTools, [Next]_vars PROVE AnyTools'
  OBVIOUS
<1>1. CASE Tick
  BY <1>1, TickKeepsAnyTools
<1>2. ASSUME NEW p \in scene.procs, Reader(p) \/ Interrupt(p) PROVE AnyTools'
  BY <1>2, ReaderKeepsAnyTools
<1>3. ASSUME NEW w \in scene.tools, Write(w, "freeze") \/ Write(w, "unfreeze")
      PROVE  AnyTools'
  BY <1>3, WriteKeepsAnyTools
<1>4. ASSUME NEW w \in scene.tools, Writer(w) PROVE AnyTools'
  BY <1>4, WriterKeepsAnyTools
<1>5. CASE UNCHANGED vars
  BY <1>5 DEF vars, hist, AnyTools, TypeOK, Clocks, Writes, StopRecorded, OnTheWay,
              PastsBounded, Lost, Counted
<1> QED
  BY <1>1, <1>2, <1>3, <1>4, <1>5 DEF Next

----------------------------------------------------------------------------
(* When tools take turns.                                                  *)

LEMMA InitSerialTools == Init => SerialTools
<1> SUFFICES ASSUME Init PROVE SerialTools
  OBVIOUS
<1>1. \A p \in Proc : task[p].fsn = 0 /\ task[p].fpn = 0
  BY TdfFact DEF Init, InitVirtualStart
<1>2. \A w \in Tool : tool[w].pc = "idle"
  BY DEF Init, NoWrite
<1>3. ~stopped /\ settled = 0 /\ stoppedFor = 0 /\ scene.procs \subseteq Proc
  BY ScenesAssumption DEF Init
<1>4. Positive /\ Quiet
  BY <1>1, <1>3, ProcAssumption DEF Positive, Quiet, InForce, Charged, Between, InFreeze
<1> QED
  BY <1>2, <1>4 DEF SerialTools

\* What is left to show of a step of the only tool at work.
LEMMA TurnFrame ==
  ASSUME AnyTools, scene.serial, NEW w \in Tool, scene' = scene,
         NEW pc, NEW op, NEW at, NEW todo, Moves(w, pc, op, at, todo),
         \A v \in Tool : v # w => tool[v].pc = "idle",
         Positive',
         pc # "idle" => Phase(w)' /\ Children(w)',
         pc = "idle" => Quiet'
  PROVE  SerialTools'
<1>1. tool'[w].pc = pc /\ \A v \in Tool : v # w => tool'[v].pc = "idle"
  BY DEF Moves
<1>2. \A v, u \in Tool : tool'[v].pc # "idle" /\ tool'[u].pc # "idle" => v = u
  BY <1>1
<1>3. \A v \in Tool : tool'[v].pc # "idle" => Phase(v)' /\ Children(v)'
  <2> SUFFICES ASSUME NEW v \in Tool, tool'[v].pc # "idle" PROVE Phase(v)' /\ Children(v)'
    OBVIOUS
  <2>1. v = w /\ pc # "idle"
    BY <1>1
  <2> QED
    BY <2>1
<1>4. AtWork' \/ Quiet'
  BY <1>1 DEF AtWork
<1> QED
  BY <1>2, <1>3, <1>4 DEF SerialTools

LEMMA WriteKeepsSerialTools ==
  ASSUME AnyTools, SerialTools, NEW w \in scene.tools,
         NEW op \in {"freeze", "unfreeze"}, Write(w, op)
  PROVE  SerialTools'
<1>1. TypeOK /\ w \in Tool
  BY SceneFact DEF AnyTools
<1>2. /\ scene.serial => ~AtWork
      /\ tool[w].pc = "idle" /\ Moves(w, "check", op, 0, {})
      /\ UNCHANGED <<scene, now, task, stopped, rd, hist>>
  BY <1>1, WriteDoes
<1>3. CASE scene.serial
  <2>1. \A v \in Tool : v # w => tool[v].pc = "idle"
    BY <1>2, <1>3 DEF AtWork
  <2>2. Quiet /\ Positive
    BY <1>2, <1>3 DEF SerialTools
  <2>3. Positive'
    BY <1>2, <2>2 DEF Positive
  <2>4. Phase(w)' /\ Children(w)'
    BY <1>2, <2>2
    DEF Moves, hist, Phase, Children, Quiet, InForce, Charged, Between, InFreeze
  <2> QED
    BY <1>1, <1>2, <1>3, <2>1, <2>3, <2>4, TurnFrame
<1> QED
  BY <1>2, <1>3 DEF SerialTools

\* A freeze counts from after the group has stopped, and is charged to before
\* it runs again, to every member.
LEMMA WriterKeepsSerialTools ==
  ASSUME AnyTools, SerialTools, NEW w \in scene.tools, Writer(w), scene.serial
  PROVE  SerialTools'
<1> USE DEF Phase, Charged, Between
<1>1. /\ TypeOK /\ w \in Tool /\ Leader \in scene.procs /\ Leader \in Proc
      /\ scene.procs \subseteq Proc
  BY SceneFact, ProcAssumption DEF AnyTools
<1>2. /\ tool[w].pc \in {"stop", "record"} => tool[w].op = "freeze"
      /\ tool[w].pc \in {"account", "clear", "populate"} => tool[w].op = "unfreeze"
      /\ tool[w].pc \in {"record", "account"} => tool[w].at \in Epoch .. now
      /\ tool[w].todo \subseteq scene.procs \ {Leader}
      /\ now \in Nat /\ settled \in Nat /\ stoppedFor \in Nat
      /\ Epoch \in Nat /\ Epoch > 0 /\ now >= Epoch /\ stopped \in BOOLEAN
      /\ task[Leader].fsn \in {0} \cup Epoch .. now
      /\ task[Leader].fsn \in Int /\ task[Leader].fpn \in Int
  BY <1>1, BoundAssumption DEF AnyTools, TypeOK, Writes, Clocks, Task
<1>3. tool[w].pc # "idle"
  BY <1>1, CheckDoes, StopDoes, StampDoes, RecordDoes, AccountDoes, ClearDoes,
     PopulateDoes, ResumeDoes DEF Writer
<1>4. \A v \in Tool : v # w => tool[v].pc = "idle"
  BY <1>1, <1>3 DEF SerialTools
<1>5. Positive /\ Phase(w) /\ Children(w)
  BY <1>1, <1>3 DEF SerialTools
<1>6. CASE Check(w)
  <2>1. /\ tool[w].pc = "check" /\ (CheckEnds(w) \/ CheckGoesOn(w))
        /\ UNCHANGED <<scene, now, task, stopped, rd, hist>>
    BY <1>1, <1>6, CheckDoes
  <2>2. Positive'
    BY <1>5, <2>1 DEF Positive
  <2>3. CASE CheckEnds(w)
    <3>1. Moves(w, "idle", "freeze", 0, {})
      BY <2>3 DEF CheckEnds
    <3>2. Quiet'
      BY <1>1, <1>5, <2>1 DEF Children, Quiet, InForce, InFreeze, hist
    <3> QED
      BY <1>1, <1>4, <2>1, <2>2, <3>1, <3>2, TurnFrame
  <2>4. CASE CheckGoesOn(w)
    <3>1. PICK pc, op : /\ <<pc, op>> \in {<<"stop", "freeze">>, <<"stamp", "unfreeze">>}
                        /\ Moves(w, pc, op, tool[w].at, tool[w].todo)
                        /\ op = "freeze" <=> ~(task[Leader].fsn > 0)
      BY <1>2, <2>4 DEF CheckGoesOn
    <3>2. Phase(w)' /\ Children(w)'
      BY <1>2, <1>5, <2>1, <3>1 DEF Children, InForce, InFreeze, hist, Moves
    <3> QED
      BY <1>1, <1>4, <2>1, <2>2, <3>1, <3>2, TurnFrame
  <2> QED
    BY <2>1, <2>3, <2>4
<1>7. CASE Stop(w)
  <2>1. /\ tool[w].pc = "stop" /\ stopped' = TRUE
        /\ Moves(w, "stamp", tool[w].op, tool[w].at, tool[w].todo)
        /\ UNCHANGED <<scene, now, task, rd, hist>>
    BY <1>1, <1>7, StopDoes
  <2>2. Positive'
    BY <1>5, <2>1 DEF Positive
  <2>3. Phase(w)' /\ Children(w)'
    BY <1>2, <1>5, <2>1 DEF Children, hist, Moves
  <2> QED
    BY <1>1, <1>4, <2>1, <2>2, <2>3, TurnFrame
<1>8. CASE Stamp(w)
  <2>1. /\ tool[w].pc = "stamp"
        /\ UNCHANGED <<scene, now, task, stopped, rd, hist>>
    BY <1>1, <1>8, StampDoes
  <2>2. PICK pc, op : /\ <<pc, op>> \in {<<"record", "freeze">>, <<"account", "unfreeze">>}
                      /\ tool[w].op = op /\ Moves(w, pc, op, now, tool[w].todo)
    BY <1>1, <1>8, StampDoes
  <2>3. Positive'
    BY <1>5, <2>1 DEF Positive
  <2>4. Phase(w)' /\ Children(w)'
    BY <1>2, <1>5, <2>1, <2>2 DEF Children, InFreeze, hist, Moves
  <2> QED
    BY <1>1, <1>4, <2>1, <2>2, <2>3, <2>4, TurnFrame
<1>9. CASE Record(w)
  <2>1. /\ tool[w].pc = "record" /\ Moves(w, "idle", "freeze", 0, {})
        /\ Charges(Leader, tool[w].at, task[Leader].fpn)
        /\ UNCHANGED <<scene, now, stopped, rd, hist>>
    BY <1>1, <1>9, RecordDoes
  <2>2. Positive'
    BY <1>5, <2>1 DEF Positive, Charges
  <2>3. Quiet'
    BY <1>1, <1>2, <1>5, <2>1 DEF Children, Quiet, InForce, InFreeze, hist, Charges
  <2> QED
    BY <1>1, <1>4, <2>1, <2>2, <2>3, TurnFrame
<1>10. CASE Account(w)
  <2> DEFINE fpn == task[Leader].fpn + (tool[w].at - task[Leader].fsn)
  <2>1. /\ tool[w].pc = "account"
        /\ Moves(w, "clear", tool[w].op, tool[w].at, tool[w].todo)
        /\ Charges(Leader, task[Leader].fsn, fpn)
        /\ UNCHANGED <<scene, now, stopped, rd, hist>>
    BY <1>1, <1>10, AccountDoes
  <2>2. fpn >= task[Leader].fpn /\ fpn \in Int /\ settled <= fpn /\ fpn <= stoppedFor
    BY <1>2, <1>5, <2>1
  <2> HIDE DEF fpn
  <2>3. Positive'
    BY <1>1, <1>2, <1>5, <2>1, <2>2 DEF Positive, Charges
  <2>4. Phase(w)'
    BY <1>2, <1>5, <2>1, <2>2 DEF hist, Moves, Charges
  <2>5. Children(w)'
    BY <1>1, <1>2, <1>5, <2>1, <2>2 DEF Children, Moves, Charges
  <2> QED
    BY <1>1, <1>4, <2>1, <2>3, <2>4, <2>5, TurnFrame
<1>11. CASE Clear(w)
  <2>1. /\ tool[w].pc = "clear"
        /\ Moves(w, "populate", tool[w].op, tool[w].at, scene.procs \ {Leader})
        /\ Charges(Leader, 0, task[Leader].fpn)
        /\ UNCHANGED <<scene, now, stopped, rd, hist>>
    BY <1>1, <1>11, ClearDoes
  <2>2. Positive'
    BY <1>5, <2>1 DEF Positive, Charges
  <2>3. Phase(w)'
    BY <1>2, <1>5, <2>1 DEF hist, Moves, Charges
  <2>4. Children(w)'
    BY <1>1, <1>5, <2>1 DEF Children, Moves, Charges
  <2> QED
    BY <1>1, <1>4, <2>1, <2>2, <2>3, <2>4, TurnFrame
<1>12. CASE Populate(w)
  <2>1. /\ tool[w].pc = "populate"
        /\ UNCHANGED <<scene, now, stopped, rd, hist>>
    BY <1>1, <1>12, PopulateDoes
  <2>2. PICK c \in tool[w].todo :
          /\ Moves(w, "populate", tool[w].op, tool[w].at, tool[w].todo \ {c})
          /\ Charges(c, task[Leader].fsn, task[Leader].fpn)
    BY <1>1, <1>12, PopulateDoes
  <2>3. c \in scene.procs /\ c \in Proc /\ c # Leader
    BY <1>1, <1>2
  <2>4. Positive'
    BY <1>1, <1>5, <2>1, <2>2, <2>3 DEF Positive, Charges
  <2>5. Phase(w)'
    BY <1>1, <1>2, <1>5, <2>1, <2>2, <2>3 DEF hist, Moves, Charges
  <2>6. Children(w)'
    BY <1>1, <1>5, <2>1, <2>2, <2>3 DEF Children, Moves, Charges
  <2> QED
    BY <1>1, <1>4, <2>1, <2>2, <2>4, <2>5, <2>6, TurnFrame
<1>13. CASE Resume(w)
  <2>1. /\ tool[w].pc = "populate" /\ tool[w].todo = {} /\ stopped' = FALSE
        /\ Moves(w, "idle", "freeze", 0, {})
        /\ UNCHANGED <<scene, now, task, rd, hist>>
    BY <1>1, <1>13, ResumeDoes
  <2>2. Positive'
    BY <1>5, <2>1 DEF Positive
  <2>3. Quiet'
    BY <1>1, <1>2, <1>5, <2>1 DEF Children, Quiet, InForce, InFreeze, hist
  <2> QED
    BY <1>1, <1>4, <2>1, <2>2, <2>3, TurnFrame
<1> QED
  BY <1>6, <1>7, <1>8, <1>9, <1>10, <1>11, <1>12, <1>13 DEF Writer

\* While time passes the group is charged if a freeze is in force, and what it
\* is stopped for grows by as much or more.
LEMMA TickKeepsSerialTools ==
  ASSUME AnyTools, SerialTools, Tick, scene.serial
  PROVE  SerialTools'
<1>1. /\ Leader \in Proc
      /\ now' = now + 1 /\ UNCHANGED <<scene, task, stopped, tool>>
      /\ stoppedFor' = IF stopped THEN stoppedFor + 1 ELSE stoppedFor
      /\ settled' = IF stopped /\ ~AtWork THEN settled + 1 ELSE settled
      /\ now \in Nat /\ settled \in Nat /\ stoppedFor \in Nat /\ stopped \in BOOLEAN
      /\ task[Leader].fsn \in Int /\ task[Leader].fpn \in Int
  BY ProcAssumption DEF Tick, AnyTools, TypeOK, Task
<1>2. Positive'
  BY <1>1 DEF SerialTools, Positive
<1>3. ASSUME NEW w \in Tool, tool'[w].pc # "idle" PROVE Phase(w)' /\ Children(w)'
  <2>1. Phase(w) /\ Children(w) /\ settled' = settled
    BY <1>1, <1>3 DEF SerialTools, AtWork
  <2>2. Children(w)'
    BY <1>1, <2>1 DEF Children
  <2>3. tool[w].at \in Nat
    BY DEF AnyTools, TypeOK, Writing
  <2>4. Phase(w)'
    BY <1>1, <2>1, <2>3 DEF Phase, InForce, InFreeze, Charged, Between
  <2> QED
    BY <2>2, <2>4
<1>4. AtWork' \/ Quiet'
  <2>1. CASE AtWork
    BY <1>1, <2>1 DEF AtWork
  <2>2. CASE ~AtWork
    BY <1>1, <2>2 DEF SerialTools, Quiet, InForce, InFreeze, Charged, Between
  <2> QED
    BY <2>1, <2>2
<1> QED
  BY <1>1, <1>2, <1>3, <1>4 DEF SerialTools

\* Nothing a reader does touches what the tools use.
LEMMA ReaderLeavesFreezes ==
  ASSUME AnyTools, NEW p \in scene.procs, Reader(p) \/ Interrupt(p)
  PROVE  /\ \A q \in Proc : task'[q].fsn = task[q].fsn /\ task'[q].fpn = task[q].fpn
         /\ UNCHANGED <<scene, now, stopped, tool, stoppedFor, settled>>
<1>1. /\ TypeOK /\ p \in Proc /\ task[p].dilation = Tdf /\ task[p].vsn = Epoch
  BY SceneFact DEF AnyTools, Clocks
<1>2. CASE Enter(p)
  BY <1>1, <1>2, EnterDoes DEF hist
<1>7. CASE ReadClock(p)
  BY <1>1, <1>7, ReadClockDoes DEF hist
<1>3. CASE ReadDelta(p)
  BY <1>1, <1>3, ReadDeltaDoes DEF hist
<1>4. CASE ReadPast(p)
  BY <1>1, <1>4, ReadPastDoes DEF hist, Reads
<1>5. CASE ReadSum(p)
  BY <1>1, <1>5, ReadSumDoes
<1>6. CASE Interrupt(p)
  BY <1>1, <1>6, InterruptDoes DEF Reads
<1> QED
  BY <1>2, <1>3, <1>4, <1>5, <1>6, <1>7 DEF Reader

\* The scene never changes.
LEMMA SceneKept == AnyTools /\ [Next]_vars => scene' = scene
<1> SUFFICES ASSUME AnyTools, [Next]_vars PROVE scene' = scene
  OBVIOUS
<1>1. ASSUME NEW w \in scene.tools, Writer(w) PROVE scene' = scene
  BY <1>1 DEF Writer, Check, Stop, Stamp, Record, Account, Clear, Populate, Resume
<1>2. ASSUME NEW p \in scene.procs, Reader(p) \/ Interrupt(p) PROVE scene' = scene
  BY <1>2, ReaderLeavesFreezes
<1> QED
  BY <1>1, <1>2 DEF Next, Tick, Write, vars

LEMMA SameFreezes ==
  ASSUME AnyTools, SerialTools, UNCHANGED <<scene, now, stopped, tool, stoppedFor, settled>>,
         \A q \in Proc : task'[q].fsn = task[q].fsn /\ task'[q].fpn = task[q].fpn
  PROVE  SerialTools'
<1>1. Leader \in Proc /\ scene.procs \subseteq Proc
  BY SceneFact, ProcAssumption DEF AnyTools
<1>2. Positive' = Positive /\ Quiet' = Quiet /\ AtWork' = AtWork
  BY <1>1 DEF Positive, Quiet, InForce, InFreeze, Charged, Between, AtWork
<1>3. \A w \in Tool : Phase(w)' = Phase(w) /\ Children(w)' = Children(w)
  BY <1>1 DEF Phase, Children, InForce, InFreeze, Charged, Between
<1> QED
  BY <1>2, <1>3 DEF SerialTools

LEMMA NextKeepsSerialTools == AnyTools /\ SerialTools /\ [Next]_vars => SerialTools'
<1> SUFFICES ASSUME AnyTools, SerialTools, [Next]_vars, scene.serial PROVE SerialTools'
  BY SceneKept DEF SerialTools
<1>1. CASE Tick
  BY <1>1, TickKeepsSerialTools
<1>2. ASSUME NEW p \in scene.procs, Reader(p) \/ Interrupt(p) PROVE SerialTools'
  BY <1>2, ReaderLeavesFreezes, SameFreezes
<1>3. ASSUME NEW w \in scene.tools, Write(w, "freeze") \/ Write(w, "unfreeze")
      PROVE  SerialTools'
  BY <1>3, WriteKeepsSerialTools
<1>4. ASSUME NEW w \in scene.tools, Writer(w) PROVE SerialTools'
  BY <1>4, WriterKeepsSerialTools
<1>5. CASE UNCHANGED vars
  BY <1>5, SameFreezes DEF vars, hist
<1> QED
  BY <1>1, <1>2, <1>3, <1>4, <1>5 DEF Next

----------------------------------------------------------------------------
(* Reads that no packet interrupts.                                        *)

\* A negative stretch of time never moves the clock forward.
LEMMA DeltaVpnSign == \A delta \in Int : delta < 0 => DeltaVpn(delta, Tdf) <= 0
<1> SUFFICES ASSUME NEW delta \in Int, delta < 0 PROVE DeltaVpn(delta, Tdf) <= 0
  OBVIOUS
<1> DEFINE v == DeltaVpn(delta, Tdf)
<1>1. v \in Int /\ -Tdf < 1000 * delta - Tdf * v
  BY TdfFact, DeltaVpnBound
<1> HIDE DEF v
<1>2. CASE v >= 1
  <2>1. Tdf * v >= Tdf
    BY <1>1, <1>2, TdfFact
  <2>2. Tdf * v \in Int
    BY <1>1, TdfFact
  <2> QED
    BY <1>1, <2>1, <2>2, TdfFact
<1> QED
  BY <1>1, <1>2 DEF v

LEMMA InitPlainReads == Init => PlainReads
<1> SUFFICES ASSUME Init PROVE settled <= now - Epoch /\ \A p \in Proc : PlainRead(p)
  BY DEF PlainReads
<1>1. now = Epoch /\ settled = 0 /\ Epoch \in Nat
  BY BoundAssumption DEF Init
<1>2. \A p \in Proc : task[p].ppn = 0 /\ rd[p].pc = "user"
  BY TdfFact DEF Init, InitVirtualStart, NoRead
<1> QED
  BY <1>1, <1>2 DEF PlainRead

\* A process that may begin a read has been charged for every freeze so far.
LEMMA RunsCharged ==
  ASSUME AnyTools, SerialTools, scene.serial, ~stopped, NEW p \in scene.procs
  PROVE  settled <= task[p].fpn
<1>1. /\ Leader \in Proc /\ settled \in Nat
      /\ task[Leader].fpn \in Int /\ task[Leader].fsn \in Int
  BY SceneFact, ProcAssumption DEF AnyTools, TypeOK, Task
<1>2. CASE Quiet
  BY <1>1, <1>2 DEF Quiet, InForce, InFreeze, Charged, Between
<1>3. CASE AtWork
  <2>1. PICK w \in Tool : tool[w].pc # "idle"
    BY <1>3 DEF AtWork
  <2>2. Phase(w) /\ Children(w) /\ tool[w] \in Writing
    BY <2>1 DEF SerialTools, AnyTools, TypeOK
  <2>3. tool[w].pc \in {"check", "stop"}
    BY <2>1, <2>2 DEF Phase, Writing
  <2>4. settled <= task[Leader].fpn
    BY <1>1, <2>2, <2>3 DEF Phase, InForce, InFreeze, Charged, Between
  <2> QED
    BY <2>2, <2>3, <2>4 DEF Children
<1> QED
  BY <1>2, <1>3 DEF SerialTools

\* No step of a tool that has its turn takes back what a process was charged,
\* or touches the pasts.
LEMMA ToolsChargeMore ==
  ASSUME AnyTools, SerialTools, scene.serial, NEW w \in scene.tools,
         Write(w, "freeze") \/ Write(w, "unfreeze") \/ Writer(w)
  PROVE  /\ UNCHANGED <<scene, now, rd, hist>>
         /\ \A p \in Proc : /\ task'[p].ppn = task[p].ppn /\ task'[p].vpn = task[p].vpn
                            /\ task'[p].fpn >= task[p].fpn
<1>1. /\ TypeOK /\ w \in Tool /\ Leader \in Proc
      /\ \A p \in Proc : task[p].fpn \in Int /\ task[p].fsn \in Int
      /\ tool[w].todo \subseteq scene.procs \ {Leader} /\ scene.procs \subseteq Proc
  BY SceneFact, ProcAssumption DEF AnyTools, TypeOK, Task, Writes
<1>2. tool[w].pc # "idle" => Phase(w) /\ Children(w)
  BY <1>1 DEF SerialTools
<1>3. CASE Write(w, "freeze") \/ Write(w, "unfreeze")
  BY <1>1, <1>3, WriteDoes
<1>4. CASE Check(w)
  BY <1>1, <1>4, CheckDoes
<1>5. CASE Stop(w)
  <2>1. UNCHANGED <<scene, now, task, rd, hist>>
    BY <1>1, <1>5, StopDoes
  <2> QED
    BY <1>1, <2>1
<1>6. CASE Stamp(w)
  BY <1>1, <1>6, StampDoes
<1>7. CASE Record(w)
  BY <1>1, <1>7, RecordDoes DEF Charges
<1>8. CASE Account(w)
  <2>1. /\ tool[w].pc = "account" /\ UNCHANGED <<scene, now, rd, hist>>
        /\ Charges(Leader, task[Leader].fsn,
                   task[Leader].fpn + (tool[w].at - task[Leader].fsn))
    BY <1>1, <1>8, AccountDoes
  <2>2. task[Leader].fsn <= tool[w].at /\ tool[w].at \in Nat
    BY <1>1, <1>2, <2>1 DEF Phase, TypeOK, Writing
  <2> QED
    BY <1>1, <2>1, <2>2 DEF Charges
<1>9. CASE Clear(w)
  BY <1>1, <1>9, ClearDoes DEF Charges
<1>10. CASE Populate(w)
  <2>1. tool[w].pc = "populate" /\ UNCHANGED <<scene, now, rd, hist>>
    BY <1>1, <1>10, PopulateDoes
  <2>2. PICK c \in tool[w].todo : Charges(c, task[Leader].fsn, task[Leader].fpn)
    BY <1>1, <1>10, PopulateDoes
  <2>3. c \in Proc /\ task[c].fpn <= task[Leader].fpn
    BY <1>1, <1>2, <2>1 DEF Children
  <2> QED
    BY <1>1, <2>1, <2>2, <2>3 DEF Charges
<1>11. CASE Resume(w)
  <2>1. UNCHANGED <<scene, now, task, rd, hist>>
    BY <1>1, <1>11, ResumeDoes
  <2> QED
    BY <1>1, <2>1
<1>12. CASE Writer(w)
  BY <1>4, <1>5, <1>6, <1>7, <1>8, <1>9, <1>10, <1>11, <1>12, Zenon DEF Writer
<1> QED
  BY <1>3, <1>12, Zenon

LEMMA TickKeepsPlainReads ==
  ASSUME AnyTools, PlainReads, Tick, scene.serial, ~scene.stamps
  PROVE  PlainReads'
<1>1. /\ now' = now + 1 /\ UNCHANGED <<scene, task, rd, reads>>
      /\ settled' \in {settled, settled + 1}
      /\ now \in Nat /\ settled \in Nat /\ Epoch \in Nat
  BY BoundAssumption DEF Tick, AnyTools, TypeOK
<1>2. settled' <= now' - Epoch
  BY <1>1 DEF PlainReads
<1>3. SUFFICES ASSUME NEW p \in Proc PROVE PlainRead(p)'
  BY <1>2 DEF PlainReads
<1>4. PlainRead(p)
  BY DEF PlainReads
<1>5. rd[p].settled \in Nat
  BY DEF AnyTools, TypeOK, Read
<1>6. Covered(p)' = Covered(p) /\ Lost(p)' = Lost(p) /\ Counted(p)' = Counted(p)
  BY <1>1 DEF Covered, Lost, Counted
<1> QED
  BY <1>1, <1>4, <1>5, <1>6 DEF PlainRead

LEMMA ToolKeepsPlainReads ==
  ASSUME AnyTools, SerialTools, PlainReads, scene.serial, ~scene.stamps,
         NEW w \in scene.tools,
         Write(w, "freeze") \/ Write(w, "unfreeze") \/ Writer(w)
  PROVE  PlainReads'
<1>1. /\ UNCHANGED <<scene, now, rd, reads, settled>>
      /\ \A p \in Proc : /\ task'[p].ppn = task[p].ppn /\ task'[p].vpn = task[p].vpn
                         /\ task'[p].fpn >= task[p].fpn
  BY ToolsChargeMore DEF hist
<1>2. task' \in [Proc -> Task]
  <2>1. AnyTools'
    BY WriteKeepsAnyTools, WriterKeepsAnyTools
  <2> QED
    BY <2>1 DEF AnyTools, TypeOK
<1> SUFFICES ASSUME NEW p \in Proc PROVE PlainRead(p)'
  BY <1>1 DEF PlainReads
<1>3. PlainRead(p)
  BY DEF PlainReads
<1>4. /\ task[p].fpn \in Int /\ task'[p].fpn \in Int /\ rd[p].settled \in Nat
  BY <1>2 DEF AnyTools, TypeOK, Task, Read
<1>5. Covered(p)' = Covered(p) /\ Lost(p)' = Lost(p) /\ Counted(p)' = Counted(p)
  BY <1>1 DEF Covered, Lost, Counted
<1> QED
  BY <1>1, <1>3, <1>4, <1>5 DEF PlainRead

\* What the step of p that moves its pasts does for its reading.
LEMMA ReadPastCovers ==
  ASSUME TypeOK, PastsBounded, NEW p \in Proc, PlainRead(p), rd[p].pc = "past",
         Reads(p, rd[p].delta),
         Reaches(p, "sum", rd[p].ts, rd[p].delta, rd[p].settled), reads' = reads
  PROVE  Covered(p)' /\ (task'[p].ppn <= 0 \/ -(Tdf * (Counted(p)' - 1)) <= Lost(p)')
<1> DEFINE ppn == task[p].ppn
           vpn == task[p].vpn
           delta == rd[p].delta
           dv == DeltaVpn(delta, Tdf)
           ran == rd[p].ts - Epoch - rd[p].settled
           k == reads[p]
           slack == Tdf * k
           past == Tdf * vpn
           more == Tdf * dv
<1>1. /\ ppn \in Int /\ vpn \in Int /\ delta \in Int /\ ran \in Int /\ k \in Nat
      /\ rd[p].ts \in Nat /\ rd[p].settled \in Nat /\ Epoch \in Nat
  BY BoundAssumption DEF TypeOK, Task, Read
<1>2. /\ ran >= 0 /\ ppn + delta <= ran
  BY <1>1 DEF PlainRead
<1>3. /\ -slack <= 1000 * ppn - past
      /\ ppn <= 0 \/ -(Tdf * (k - 1)) <= 1000 * ppn - past
  BY DEF PastsBounded, PlainRead, Lost, Counted
<1>4. /\ dv \in Int /\ (delta >= 0 => 1000 * delta - more >= 0)
      /\ -Tdf < 1000 * delta - more /\ (delta < 0 => dv <= 0)
  <2>1. delta \in Int
    BY <1>1
  <2> HIDE DEF delta
  <2>2. delta < 0 => dv <= 0
    BY <2>1, DeltaVpnSign
  <2>3. dv \in Int /\ -Tdf < 1000 * delta - Tdf * dv
        /\ (delta >= 0 => 1000 * delta - Tdf * dv >= 0)
    BY <2>1, TdfFact, DeltaVpnBound
  <2> QED
    BY <2>2, <2>3
<1>5. /\ rd'[p].pc = "sum" /\ rd'[p].ts = rd[p].ts /\ rd'[p].settled = rd[p].settled
      /\ task'[p].ppn = ppn + delta /\ task'[p].vpn = vpn + dv /\ reads'[p] = k
  BY DEF Reads, Reaches
<1> HIDE DEF ppn, vpn, delta, dv, k
<1>6. /\ slack \in Int /\ past \in Int /\ more \in Int
      /\ Tdf * (k - 1) = slack - Tdf /\ Tdf * ((vpn + dv) - k) = past + more - slack
      /\ Tdf * (vpn + dv) = past + more /\ (dv <= 0 => more <= 0)
  <2>1. Tdf * (k - 1) = slack - Tdf /\ slack \in Int
    BY <1>1, TdfFact
  <2>2. past \in Int /\ more \in Int /\ Tdf * (vpn + dv) = past + more
    BY <1>1, <1>4, TdfFact
  <2>3. Tdf * ((vpn + dv) - k) = past + more - slack
    BY <1>1, <1>4, TdfFact
  <2>4. dv <= 0 => more <= 0
    BY <1>4, TdfFact
  <2> QED
    BY <2>1, <2>2, <2>3, <2>4
<1>7. Covered(p)' <=> Tdf * ((vpn + dv) - k) <= 1000 * ran
  <2>1. task'[p].vpn - reads'[p] = (vpn + dv) - k
    BY <1>5, Zenon
  <2>2. rd'[p].ts - Epoch - rd'[p].settled = ran
    BY <1>5, Zenon
  <2> HIDE DEF ran
  <2> QED
    BY <2>1, <2>2 DEF Covered
<1>8. Lost(p)' = 1000 * (ppn + delta) - Tdf * (vpn + dv)
  <2>1. task'[p].ppn = ppn + delta
    BY <1>5, Zenon
  <2>2. task'[p].vpn = vpn + dv
    BY <1>5, Zenon
  <2> QED
    BY <2>1, <2>2 DEF Lost
<1>9. Covered(p)' <=> past + more - slack <= 1000 * ran
  <2> HIDE DEF past, more, slack, ran
  <2>1. Tdf * ((vpn + dv) - k) = past + more - slack
    BY <1>6
  <2> QED
    BY <1>7, <2>1
<1>10. Lost(p)' = 1000 * (ppn + delta) - (past + more)
  <2> HIDE DEF past, more
  <2>1. Tdf * (vpn + dv) = past + more
    BY <1>6
  <2> QED
    BY <1>8, <2>1
<1>11. -(Tdf * (Counted(p)' - 1)) = -slack
  <2>1. Counted(p)' = k + 1
    BY <1>5 DEF Counted
  <2>2. Counted(p)' - 1 = k
    BY <1>1, <2>1
  <2> QED
    BY <2>2, Zenon
<1> HIDE DEF slack, past, more, ran
<1>12. CASE delta >= 0
  <2>1. -slack <= 1000 * (ppn + delta) - (past + more)
    BY <1>1, <1>3, <1>4, <1>6, <1>12
  <2> QED
    BY <1>1, <1>2, <1>6, <1>9, <1>10, <1>11, <2>1
<1>13. CASE delta < 0 /\ ppn <= 0
  <2>1. past + more - slack <= 0 /\ ppn + delta <= 0
    BY <1>1, <1>3, <1>4, <1>6, <1>13
  <2> QED
    BY <1>1, <1>2, <1>5, <1>6, <1>9, <2>1
<1>14. CASE delta < 0 /\ ppn > 0
  <2>1. -slack <= 1000 * (ppn + delta) - (past + more)
    BY <1>1, <1>3, <1>4, <1>6, <1>14, TdfFact
  <2> QED
    BY <1>1, <1>2, <1>6, <1>9, <1>10, <1>11, <2>1
<1> QED
  BY <1>1, <1>12, <1>13, <1>14

LEMMA ReaderKeepsPlainReads ==
  ASSUME AnyTools, SerialTools, PlainReads, scene.serial, ~scene.stamps,
         NEW p \in scene.procs, Reader(p)
  PROVE  PlainReads'
<1>1. /\ TypeOK /\ p \in Proc /\ PlainRead(p) /\ settled <= now - Epoch
      /\ task[p].dilation = Tdf /\ task[p].psn = Epoch
  BY SceneFact DEF AnyTools, Clocks, PlainReads
<1>2. /\ task[p].ppn \in Int /\ task[p].fpn \in Int
      /\ rd[p].ts \in Nat /\ rd[p].settled \in Nat /\ rd[p].delta \in Int
      /\ now \in Nat /\ settled \in Nat /\ Epoch \in Nat
  BY <1>1, BoundAssumption DEF TypeOK, Task, Read
<1>3. now' = now /\ settled' = settled
  BY ReaderLeavesFreezes
<1>4. SUFFICES PlainRead(p)' /\ \A q \in Proc : q # p => PlainRead(q)'
  BY <1>1, <1>3 DEF PlainReads
<1>5. \A q \in Proc : q # p => PlainRead(q)
  BY DEF PlainReads
<1>6. ASSUME \A q \in Proc : q # p => /\ rd'[q] = rd[q] /\ reads'[q] = reads[q]
                                      /\ task'[q].ppn = task[q].ppn
                                      /\ task'[q].vpn = task[q].vpn
                                      /\ task'[q].fpn = task[q].fpn
      PROVE  \A q \in Proc : q # p => PlainRead(q)'
  BY <1>3, <1>5, <1>6 DEF PlainRead, Covered, Lost, Counted
<1>7. CASE Enter(p)
  <2>1. /\ rd[p].pc = "user" /\ ~stopped /\ Reaches(p, "clock", 0, 0, settled)
        /\ UNCHANGED <<now, task, reads, settled>>
    BY <1>1, <1>7, EnterDoes DEF hist
  <2>2. settled <= task[p].fpn
    BY <2>1, RunsCharged
  <2>3. Lost(p)' = Lost(p) /\ Counted(p)' = Counted(p)
    BY <1>1, <2>1 DEF Lost, Counted, Reaches
  <2>4. PlainRead(p)'
    BY <1>1, <1>2, <2>1, <2>2, <2>3 DEF PlainRead, Reaches
  <2> QED
    BY <1>6, <2>1, <2>4 DEF Reaches
<1>8. CASE ReadClock(p)
  <2>1. /\ rd[p].pc = "clock" /\ Reaches(p, "delta", now, rd[p].delta, rd[p].settled)
        /\ UNCHANGED <<now, task, reads, settled>>
    BY <1>1, <1>8, ReadClockDoes DEF hist
  <2>2. Lost(p)' = Lost(p) /\ Counted(p)' = Counted(p)
    BY <1>1, <2>1 DEF Lost, Counted, Reaches
  <2>3. PlainRead(p)'
    BY <1>1, <1>2, <2>1, <2>2 DEF PlainRead, Reaches
  <2> QED
    BY <1>6, <2>1, <2>3 DEF Reaches
<1>9. CASE ReadDelta(p)
  <2> DEFINE delta == rd[p].ts - task[p].ppn - task[p].psn - task[p].fpn
  <2>1. /\ rd[p].pc = "delta" /\ Reaches(p, "past", rd[p].ts, delta, rd[p].settled)
        /\ UNCHANGED <<now, task, reads, settled>>
    BY <1>1, <1>9, ReadDeltaDoes DEF hist
  <2>2. task[p].ppn + delta = rd[p].ts - Epoch - task[p].fpn /\ delta \in Int
    BY <1>1, <1>2
  <2> HIDE DEF delta
  <2>3. Lost(p)' = Lost(p) /\ Counted(p)' = Counted(p)
    BY <1>1, <2>1 DEF Lost, Counted, Reaches
  <2>4. PlainRead(p)'
    BY <1>1, <1>2, <2>1, <2>2, <2>3 DEF PlainRead, Reaches
  <2> QED
    BY <1>6, <2>1, <2>4 DEF Reaches
<1>10. CASE ReadPast(p)
  <2>1. /\ rd[p].pc = "past" /\ Reads(p, rd[p].delta)
        /\ Reaches(p, "sum", rd[p].ts, rd[p].delta, rd[p].settled)
        /\ UNCHANGED <<now, reads, settled>>
    BY <1>1, <1>10, ReadPastDoes DEF hist
  <2>2. Covered(p)' /\ (task'[p].ppn <= 0 \/ -(Tdf * (Counted(p)' - 1)) <= Lost(p)')
    BY <1>1, <2>1, ReadPastCovers DEF AnyTools
  <2>3. /\ rd'[p].pc = "sum" /\ rd'[p].ts = rd[p].ts /\ rd'[p].settled = rd[p].settled
        /\ task'[p].fpn = task[p].fpn
    BY <1>1, <2>1 DEF Reads, Reaches
  <2>4. PlainRead(p)'
    BY <1>1, <2>1, <2>2, <2>3 DEF PlainRead
  <2> QED
    BY <1>6, <2>1, <2>4 DEF Reads, Reaches
<1>11. CASE ReadSum(p)
  <2>1. /\ rd[p].pc = "sum" /\ Reaches(p, "user", 0, 0, 0)
        /\ reads'[p] = reads[p] + 1
        /\ \A q \in Proc : q # p => reads'[q] = reads[q]
        /\ UNCHANGED <<now, task, settled>>
    BY <1>1, <1>11, ReadSumDoes
  <2>2. Lost(p)' = Lost(p) /\ Counted(p)' = Counted(p)
    BY <1>1, <2>1 DEF Lost, Counted, Reaches
  <2>3. PlainRead(p)'
    BY <1>1, <2>1, <2>2 DEF PlainRead, Reaches
  <2> QED
    BY <1>6, <2>1, <2>3 DEF Reaches
<1> QED
  BY <1>7, <1>8, <1>9, <1>10, <1>11 DEF Reader

LEMMA NextKeepsPlainReads ==
  AnyTools /\ SerialTools /\ PlainReads /\ [Next]_vars => PlainReads'
<1> SUFFICES ASSUME AnyTools, SerialTools, PlainReads, [Next]_vars,
                    scene.serial, ~scene.stamps
             PROVE  PlainReads'
  BY SceneKept DEF PlainReads
<1>1. CASE Tick
  BY <1>1, TickKeepsPlainReads
<1>2. ASSUME NEW p \in scene.procs, Reader(p) \/ Interrupt(p) PROVE PlainReads'
  BY <1>2, ReaderKeepsPlainReads DEF Interrupt
<1>3. ASSUME NEW w \in scene.tools,
             Write(w, "freeze") \/ Write(w, "unfreeze") \/ Writer(w)
      PROVE  PlainReads'
  BY <1>3, ToolKeepsPlainReads
<1>4. CASE UNCHANGED vars
  BY <1>4 DEF vars, hist, PlainReads, PlainRead, Covered, Lost, Counted
<1> QED
  BY <1>1, <1>2, <1>3, <1>4 DEF Next

----------------------------------------------------------------------------
(* The theorems.                                                           *)

\* The inductive invariant holds, whatever the group, the tools and the scene.
THEOREM AlwaysIInv == Spec => []IInv
<1>1. Init => IInv
  BY InitAnyTools, InitSerialTools, InitPlainReads DEF IInv
<1>2. IInv /\ [Next]_vars => IInv'
  BY NextKeepsAnyTools, NextKeepsSerialTools, NextKeepsPlainReads DEF IInv
<1> QED
  BY <1>1, <1>2, PTL DEF Spec

\* LeftResumable: however any number of freezes and unfreezes race, a group they
\* leave stopped has a freeze recorded; taking turns they also leave no record
\* of a freeze that is not in force.  The types are part of it.
THEOREM AlwaysLeftResumable == Spec => []LeftResumable
<1>1. IInv => LeftResumable
  <2> SUFFICES ASSUME IInv PROVE LeftResumable
    OBVIOUS
  <2>1. AtWork \/ (stopped => task[Leader].fsn # 0)
    BY DEF IInv, AnyTools, StopRecorded, OnTheWay, AtWork
  <2>2. scene.serial => AtWork \/ (task[Leader].fsn # 0 => stopped)
    BY DEF IInv, SerialTools, Quiet, InForce
  <2> QED
    BY <2>1, <2>2 DEF IInv, AnyTools, LeftResumable
<1> QED
  BY <1>1, AlwaysIInv, PTL

\* PastsInStep: for every TDF in range and every way freezes, packets and reads
\* interleave, the two pasts of a process stay in proportion to within a
\* nanosecond per read.
THEOREM AlwaysPastsInStep == Spec => []PastsInStep
<1>1. IInv => PastsInStep
  <2> SUFFICES ASSUME IInv, NEW p \in Proc, rd[p].pc = "user"
               PROVE  LET lost == 1000 * task[p].ppn - task[p].dilation * task[p].vpn
                      IN  /\ -task[p].dilation * reads[p] <= lost
                          /\ lost <= task[p].dilation * reads[p]
    BY DEF PastsInStep
  <2>1. task[p].dilation = Tdf /\ reads[p] \in Nat
    BY DEF IInv, AnyTools, TypeOK, Clocks
  <2>2. -(Tdf * reads[p]) <= Lost(p) /\ Lost(p) <= Tdf * reads[p]
    BY DEF IInv, AnyTools, PastsBounded, Counted
  <2>3. -Tdf * reads[p] = -(Tdf * reads[p])
    BY <2>1, TdfFact
  <2> QED
    BY <2>1, <2>2, <2>3 DEF Lost
<1> QED
  BY <1>1, AlwaysIInv, PTL

\* FrozenDurationTight: tools that take turns charge every member of the group
\* for at least the time it stood stopped between their writes and at most the
\* time it was stopped.
THEOREM AlwaysFrozenDurationTight == Spec => []FrozenDurationTight
<1>1. IInv => FrozenDurationTight
  BY DEF IInv, SerialTools, Positive, Quiet, Charged, Between, FrozenDurationTight
<1> QED
  BY <1>1, AlwaysIInv, PTL

\* ReadExcludesFreezes: with tools that take turns no reading contains a freeze
\* that was over when the process entered the kernel for it.
THEOREM AlwaysReadExcludesFreezes == Spec => []ReadExcludesFreezes
<1>1. IInv => ReadExcludesFreezes
  BY DEF IInv, AnyTools, Clocks, PlainReads, PlainRead, Covered, ReadExcludesFreezes
<1> QED
  BY <1>1, AlwaysIInv, PTL

=============================================================================

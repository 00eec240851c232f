---------------------------- MODULE VirtualTime ----------------------------
(***************************************************************************)
(* Virtual time in a container: the process tree below its first process,  *)
(* Root, which leads the process group that freezing stops, and the tools  *)
(* outside virtual time that write /proc/$pid/dilation and                 *)
(* /proc/$pid/freeze of the processes in Targets.                          *)
(*                                                                         *)
(* Every system call and every write to /proc is one step at one moment of *)
(* the wall clock; ClockRace takes the writes apart.  The wall clock runs  *)
(* from Epoch for the workload's span.  A workload is what the container   *)
(* and the tools may do, chosen once out of Workloads: the tdfs that are   *)
(* written, one non-zero TDF over another at most so many times as changes *)
(* says, and in uses "thread", clone(CLONE_THREAD), "orphan", a process    *)
(* exits before its children, "setsid", a process leaves the group,        *)
(* "fail", a fork that fails, and "cross", virtual time entered or left    *)
(* while stopped.                                                          *)
(***************************************************************************)
EXTENDS TaskClock, FiniteSets

CONSTANTS Pid, Reaper, Root, Targets, Workloads, Epoch

ASSUME PidAssumption == /\ IsFiniteSet(Pid) /\ Root # Reaper
                        /\ {Root, Reaper} \cup Targets \subseteq Pid
                        /\ Reaper \notin Targets
ASSUME WorkloadsAssumption ==
  \A l \in Workloads :
    /\ DOMAIN l = {"uses", "tdfs", "changes", "span"}
    /\ l.uses \subseteq {"thread", "orphan", "setsid", "fail", "cross"}
    /\ IsFiniteSet(l.tdfs) /\ l.tdfs \subseteq Int
    /\ {l.changes, l.span} \subseteq Nat
ASSUME BoundAssumption == Epoch \in Nat \ {0}

VARIABLES
  load,     \* the workload; it never changes
  now,      \* the undilated wall clock
  alive,    \* the tasks there are
  parent,   \* real_parent
  leader,   \* group_leader: the task itself unless it is a thread
  pgrp,     \* the process group of a thread group's leader
  stopped,  \* tasks stopped by SIGSTOP
  task,     \* their virtual-time fields
  oops,     \* the kernel has dereferenced an error pointer
  changes,  \* history: non-zero factors written over another
  ran,      \* history: unfrozen nanoseconds since physical_start_nsec,
            \* less those of a freeze in progress at that moment
  debt      \* history: Root's freeze_past_nsec as of physical_start_nsec

tree == <<alive, parent, leader, pgrp>>
vars == <<load, now, alive, parent, leader, pgrp, stopped, task, oops, changes, ran, debt>>

Init == /\ load \in Workloads
        /\ now = Epoch
        /\ alive = {Reaper, Root}
        /\ parent = [p \in Pid |-> Reaper]
        /\ leader = [p \in Pid |-> p]
        /\ pgrp = [p \in Pid |-> p]
        /\ stopped = {}
        /\ task = [p \in Pid |-> Blank]
        /\ oops = FALSE
        /\ changes = 0
        /\ ran = [p \in Pid |-> 0]
        /\ debt = [p \in Pid |-> 0]

----------------------------------------------------------------------------
\* The list tsk->children: threads other than the leader are on no such list.
Children(p) == {c \in alive \ {p} : parent[c] = p /\ leader[c] = c}

\* The tasks a recursion over children visits from p when it goes on below
\* the tasks in onward only.
Visited(p, onward) ==
  LET kids  == [q \in alive |-> IF q \in onward THEN Children(q) ELSE {}]
      below == {S \in SUBSET (alive \ {p}) :
                  kids[p] \subseteq S /\ \A q \in S : kids[q] \subseteq S \cup {p}}
  IN  {q \in alive : q = p \/ \A S \in below : q \in S}

Subtree(p) == Visited(p, Pid)

\* The tasks kill_pgrp(task_pid(p)) signals.
Group(p) == {q \in alive : pgrp[leader[q]] = p}

InFreeze(t) == IF t.fsn = 0 THEN 0 ELSE now - t.fsn

\* Tasks whose clock starts in this step.
Start(S) ==
  /\ ran' = [p \in Pid |-> IF p \in S THEN -InFreeze(task'[Root]) ELSE ran[p]]
  /\ debt' = [p \in Pid |-> IF p \in S THEN task'[Root].fpn ELSE debt[p]]

----------------------------------------------------------------------------
Tick == /\ now < Epoch + load.span
        /\ now' = now + 1
        /\ ran' = [p \in Pid |-> IF p \in alive \ stopped /\ task[p].dilation # 0
                                 THEN ran[p] + 1 ELSE ran[p]]
        /\ UNCHANGED <<load, tree, stopped, task, oops, changes, debt>>

Running(p) == p \in alive \ (stopped \cup {Reaper})

\* do_fork: dup_task_struct copies every field; init_virtual_start_time then
\* reads the parent's clock and starts the child's, if the parent has a TDF.
Fork(p, c, thread) ==
  /\ Running(p) /\ c \in Pid \ alive
  /\ \A q \in alive : pgrp[leader[q]] # c
  /\ thread => "thread" \in load.uses
  /\ alive' = alive \cup {c}
  /\ parent' = [parent EXCEPT ![c] = IF thread THEN parent[p] ELSE p]
  /\ leader' = [leader EXCEPT ![c] = IF thread THEN leader[p] ELSE c]
  /\ pgrp' = [pgrp EXCEPT ![c] = pgrp[leader[p]]]
  /\ task' = [task EXCEPT
       ![p] = Timekeep(@, now),
       ![c] = InitVirtualStart(task[p], now, Reading(task[p], now), task[p].dilation)]
  /\ Start({c})
  /\ UNCHANGED <<load, now, stopped, oops, changes>>

\* copy_process fails; init_virtual_start_time is called all the same.
ForkFail(p) ==
  /\ "fail" \in load.uses /\ Running(p)
  /\ oops' = (oops \/ task[p].dilation > 0)
  /\ task' = [task EXCEPT ![p] = Timekeep(@, now)]
  /\ UNCHANGED <<load, now, tree, stopped, changes, ran, debt>>

\* exit_group.  The children go to the reaper, none of them stopped: what
\* the kernel does with stopped orphans is left out.
Exit(p) ==
  LET gone == {q \in alive : leader[q] = p}
      orphans == {q \in alive \ gone : parent[q] \in gone}
  IN  /\ Running(p) /\ p # Root /\ leader[p] = p
      /\ orphans \cap stopped = {}
      /\ orphans # {} => "orphan" \in load.uses
      /\ alive' = alive \ gone
      /\ parent' = [q \in Pid |-> IF parent[q] \in gone \/ q \in gone
                                  THEN Reaper ELSE parent[q]]
      /\ leader' = [q \in Pid |-> IF q \in gone THEN q ELSE leader[q]]
      /\ pgrp' = [q \in Pid |-> IF q \in gone THEN q ELSE pgrp[q]]
      /\ task' = [q \in Pid |-> IF q \in gone THEN Blank ELSE task[q]]
      /\ ran' = [q \in Pid |-> IF q \in gone THEN 0 ELSE ran[q]]
      /\ debt' = [q \in Pid |-> IF q \in gone THEN 0 ELSE debt[q]]
      /\ UNCHANGED <<load, now, stopped, oops, changes>>

\* setsid, which a process group's leader may not call.
Setsid(p) == /\ "setsid" \in load.uses /\ Running(p) /\ leader[p] = p
             /\ Group(p) = {}
             /\ pgrp' = [pgrp EXCEPT ![p] = p]
             /\ UNCHANGED <<load, now, alive, parent, leader, stopped, task,
                            oops, changes, ran, debt>>

\* unshare(CLONE_NEWTIME), which mnexec calls before it runs anything else.
Unshare == /\ Running(Root) /\ Children(Root) = {} /\ task[Root].dilation = 0
           /\ task' = [task EXCEPT ![Root] = InitVirtualStart(@, now, now, 1000)]
           /\ Start({Root})
           /\ UNCHANGED <<load, now, tree, stopped, oops, changes>>

Read(p) == /\ Running(p) /\ Virtual(task[p])
           /\ task' = [task EXCEPT ![p] = Timekeep(@, now)]
           /\ UNCHANGED <<load, now, tree, stopped, oops, changes, ran, debt>>

----------------------------------------------------------------------------
\* The tasks whose TDF set_dilation changes and below which it goes on: those
\* that neither have this TDF already nor refuse it.
Willing(tdf) == {q \in Pid : task[q].dilation # tdf /\ ~DilationRejected(task[q], tdf)}

Changes(p, tdf) == task[p].dilation \notin {0, tdf} /\ tdf > 0

\* Mutant: set_dilation does not go below the children.
WriteDilation_Children(p, tdf) ==
  LET reached == ({p} \cup Children(p)) \cap Willing(tdf)
  IN  /\ p \in alive
      /\ (\E q \in reached : Changes(q, tdf)) => changes < load.changes
      /\ reached \cap stopped = {}
      /\ task' = [q \in Pid |-> IF q \in reached
                                THEN SetDilation(task[q], now, now, tdf)
                                ELSE task[q]]
      /\ changes' = IF \E q \in reached : Changes(q, tdf)
                     THEN changes + 1 ELSE changes
      /\ Start(reached)
      /\ UNCHANGED <<load, now, tree, stopped, oops>>

\* echo $tdf > /proc/$p/dilation
WriteDilation(p, tdf) ==
  LET reached == Visited(p, Willing(tdf)) \cap Willing(tdf)
  IN  /\ p \in alive
      /\ (\E q \in reached : Changes(q, tdf)) => changes < load.changes
      /\ (\E q \in reached \cap stopped : (task[q].dilation = 0) # (tdf = 0))
           => "cross" \in load.uses
      /\ task' = [q \in Pid |-> IF q \in reached
                                THEN SetDilation(task[q], now, now, tdf)
                                ELSE task[q]]
      /\ changes' = IF \E q \in reached : Changes(q, tdf)
                     THEN changes + 1 ELSE changes
      /\ Start(reached)
      /\ UNCHANGED <<load, now, tree, stopped, oops>>

\* echo 1 > /proc/$p/freeze
WriteFreeze(p) ==
  /\ p \in alive
  /\ task' = [task EXCEPT ![p] = FreezeTime(@, now)]
  /\ stopped' = IF task[p].fsn > 0 THEN stopped ELSE stopped \cup Group(p)
  /\ UNCHANGED <<load, now, tree, oops, changes, ran, debt>>

\* Mutants: the frozen time goes to the children only; SIGCONT goes to the
\* descendants instead of the group.
WriteUnfreeze_Children(p) ==
  /\ p \in alive
  /\ IF task[p].fsn = 0 THEN UNCHANGED <<task, stopped>>
     ELSE LET u == UnfreezeTime(task[p], now)
          IN  /\ task' = [q \in Pid |-> CASE q = p -> u
                             [] q \in Children(p) -> PopulateFrozen(task[q], u)
                             [] OTHER -> task[q]]
              /\ stopped' = stopped \ Group(p)
  /\ UNCHANGED <<load, now, tree, oops, changes, ran, debt>>
WriteUnfreeze_Descendants(p) ==
  /\ p \in alive
  /\ IF task[p].fsn = 0 THEN UNCHANGED <<task, stopped>>
     ELSE LET u == UnfreezeTime(task[p], now)
              below == Subtree(p) \ {p}
          IN  /\ task' = [q \in Pid |-> CASE q = p       -> u
                                          [] q \in below -> PopulateFrozen(task[q], u)
                                          [] OTHER       -> task[q]]
              /\ stopped' = stopped \ Subtree(p)
  /\ UNCHANGED <<load, now, tree, oops, changes, ran, debt>>

\* echo 0 > /proc/$p/freeze
WriteUnfreeze(p) ==
  /\ p \in alive
  /\ IF task[p].fsn = 0 THEN UNCHANGED <<task, stopped>>
     ELSE LET u == UnfreezeTime(task[p], now)
              below == Subtree(p) \ {p}
          IN  /\ task' = [q \in Pid |-> CASE q = p       -> u
                                          [] q \in below -> PopulateFrozen(task[q], u)
                                          [] OTHER       -> task[q]]
              /\ stopped' = stopped \ Group(p)
  /\ UNCHANGED <<load, now, tree, oops, changes, ran, debt>>

Next == \/ Tick
        \/ \E p \in Pid, c \in Pid, thread \in BOOLEAN : Fork(p, c, thread)
        \/ \E p \in Pid : ForkFail(p) \/ Exit(p) \/ Setsid(p) \/ Read(p)
        \/ Unshare
        \/ \E p \in Targets, tdf \in load.tdfs : WriteDilation(p, tdf)
        \/ \E p \in Targets : WriteFreeze(p) \/ WriteUnfreeze(p)

Spec == Init /\ [][Next]_vars

----------------------------------------------------------------------------
\* Types, and no negative TDF is ever stored, whatever is written.
TypeOK == /\ load \in Workloads /\ now \in Nat
          /\ \A p \in Pid : task[p].dilation >= 0
          /\ alive \subseteq Pid /\ stopped \subseteq alive
          /\ parent \in [Pid -> Pid] /\ leader \in [Pid -> Pid]
          /\ pgrp \in [Pid -> Pid] /\ task \in [Pid -> Task]
          /\ oops \in BOOLEAN /\ changes \in Nat
          /\ ran \in [Pid -> Int] /\ debt \in [Pid -> Int]

\* The processes virtual time is meant for: in virtual time, below Root in
\* the tree and still in its group.
Members == IF task[Root].dilation = 0 THEN {}
           ELSE {p \in Subtree(Root) \cap Group(Root) : task[p].dilation # 0}

\* A process in the tree below Root always has Root's TDF, though
\* set_dilation does not go below a process that has the new TDF already.
MembersShareFactor ==
  TypeOK /\ \A p \in Subtree(Root) : task[p].dilation = task[Root].dilation

\* How long p has stood in freezes of Root that are over, since its clock was
\* started: that is when it neither ran nor is in a freeze that goes on.
Stood(p) == now - task[p].psn - ran[p] - InFreeze(task[Root])

\* Whatever was forked, orphaned or moved in between, what a member's clock is
\* charged is what it stood, exactly, if its clock was started before Root was
\* first frozen.  If later, it is charged debt on top, the freezes from before
\* that start: at once when set_dilation restarted the clock, and from the next
\* unfreezing on when it was forked.  Root's own charge is the sum of the two for
\* every member: its frozen duration is Root's, or none as long as it has not
\* stood (doc/vt_doc.tex promises that all members' are the same).
MembersAccountFreeze ==
  \A p \in Members :
    /\ task[Root].fpn = Stood(p) + debt[p]
    /\ task[p].fpn = Stood(p) + debt[p] \/ (task[p].fpn = 0 /\ Stood(p) = 0)

\* Whatever is stopped can be resumed: the freeze that stopped it is recorded
\* in the leader of its group, so that unfreezing the leader does not return
\* early.
Resumable ==
  \A p \in stopped : LET g == pgrp[leader[p]] IN g \in alive /\ task[g].fsn # 0

\* The time p's clock shows, what is frozen so far taken out.
Clock(p) == Reading(task[p], IF p \in stopped THEN now - InFreeze(task[Root]) ELSE now)

\* A member that shares Root's frozen duration has a clock that only the
\* passing of time and a change of factor move: freezing, unfreezing,
\* forking, reading and the exits around it leave it where it is.  Left out is
\* a process whose clock starts at zero, which can be where a change of factor
\* has set its parent's clock back: the kernel reads it real time.
MemberClockContinuous ==
  [][now' = now =>
       \A p \in alive \cap alive' :
         Clock(p)' # Clock(p) =>
           \/ p \notin Members \/ p \notin Members'
           \/ ~Virtual(task[p])
           \/ task[p].fpn # task[Root].fpn
           \/ task'[p].dilation # task[p].dilation]_vars

=============================================================================

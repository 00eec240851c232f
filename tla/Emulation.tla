----------------------------- MODULE Emulation -----------------------------
(***************************************************************************)
(* Mininet and the programs that write the virtual time of its nodes.      *)
(*                                                                         *)
(* Mininet's main thread (py) talks to the shell of each node over a       *)
(* pseudo-terminal and runs freeze_all_procs or dilate_all_procs, the tool *)
(* "cli".  A second tool, "daemon", is freeze_listen, which reads one byte *)
(* per command from a fifo.  Each tool starts a thread per process on its  *)
(* command line, and each thread opens and writes one /proc file.          *)
(*                                                                         *)
(* A write to /proc is one step: ClockRace has its interleavings.  Of the  *)
(* kernel's state only what is written remains: frozen, the pending or     *)
(* effective SIGSTOP with it, and the TDF.  Switches and controllers are   *)
(* nodes like hosts, except that they are not dilated.                     *)
(***************************************************************************)
EXTENDS Integers, Sequences, SequencesExt, FiniteSets

CONSTANTS
    Nodes,       \* the nodes of the network
    PidList,     \* all of them, in the order of the command line
    Hosts,       \* the hosts among them, in that order
    MaxFds,      \* files a tool can open (RLIMIT_NOFILE)
    MaxCmds,     \* bound: commands sent to shells
    MaxFaults,   \* bound: threads that cannot be created
    Budget       \* bound: these, bytes in the fifo and tools run by Mininet

ASSUME ListsAssumption ==
    /\ PidList \in Seq(Nodes) /\ ToSet(PidList) = Nodes /\ PidList # <<>>
    /\ Hosts \in Seq(Nodes) /\ Len(Hosts) <= Len(PidList)
ASSUME BoundsAssumption == {MaxFds, MaxCmds, MaxFaults, Budget} \subseteq Nat

VARIABLES
    frozen,    \* freeze_start_nsec # 0, and the group has SIGSTOP
    dilated,   \* the TDF of dilate_all_procs has been written
    alive,     \* the node's shell has not exited
    hup,       \* SIGHUP is pending on a stopped shell
    tool,      \* the two tools
    worker,    \* their threads
    fds,       \* files a tool has opened; write_proc_field closes none
    fifo,      \* the bytes in /tmp/fifo.tmp, which somebody has made
    py,        \* what Mininet's thread does
    waiting,   \* Node.waiting
    todo,      \* what the shell will write in reply
    chan,      \* what it has written and Mininet has not read
    job,       \* the shell's background job, by the number of its command
    got,       \* output that waitOutput has collected
    lastPid,   \* Node.lastPid, by the number of the command
    asked,     \* history: number and kind of the last command sent to a node
    since,     \* history: nodes the other tool wrote since a tool's last start
    cmds,      \* history: commands a tool has completed, at most MaxFds + 1
    count      \* bounds: commands, faults, and all so far

kernel == <<frozen, dilated, alive, hup>>
tools  == <<tool, worker, fds, since, cmds>>
pipes  == <<waiting, todo, chan, job, got, lastPid, asked>>
vars   == <<kernel, tools, pipes, fifo, py, count>>

Tools == {"cli", "daemon"}
Counters == {"all", "cmds", "faults", "others"}

\* One of what is left of the bounds is spent.
Spend(what) ==
    /\ count["all"] < Budget
    /\ count' = [c \in Counters |-> IF c \in {"all", what} THEN count[c] + 1 ELSE count[c]]

(***************************************************************************)
(* The kernel's side: what a write to /proc does to a node.                *)
(***************************************************************************)

\* freeze_write: a stopped shell keeps SIGHUP until SIGCONT.
FreezeWrite(n, op) ==
    /\ frozen' = [frozen EXCEPT ![n] = (op = "p")]
    /\ alive' = [alive EXCEPT ![n] = @ /\ ~(op = "u" /\ hup[n])]
    /\ UNCHANGED <<dilated, hup>>

DilationWrite(n) ==
    /\ dilated' = [dilated EXCEPT ![n] = TRUE]
    /\ UNCHANGED <<frozen, alive, hup>>

(***************************************************************************)
(* kickoff_pthreads_freeze and kickoff_pthreads_dilate.                    *)
(***************************************************************************)

Pids(t) == IF tool[t].op = "dilate" THEN Hosts ELSE PidList
NoWorkers == [i \in DOMAIN PidList |-> "none"]

\* The tool enters its loop: main of the cli, or the daemon's after a read.
Kickoff(t, op) ==
    /\ tool' = [tool EXCEPT ![t] = [pc |-> "create", op |-> op, i |-> 1]]
    /\ worker' = [worker EXCEPT ![t] = NoWorkers]
    /\ since' = [since EXCEPT ![t] = {}]

\* One turn of a loop over the processes; after the last one, pc is next.
Turn(t, next) ==
    LET last == tool[t].i = Len(Pids(t))
    IN  tool' = [tool EXCEPT ![t] = [pc |-> IF last THEN next ELSE tool[t].pc, op |-> tool[t].op,
                                     i  |-> IF last THEN 1 ELSE tool[t].i + 1]]

Returned(t) == IF t = "cli" THEN "exited" ELSE "read"

\* History: the command is complete when the tool has returned.
Complete(t) ==
    cmds' = [cmds EXCEPT ![t] = IF tool'[t].pc = Returned(t) /\ @ <= MaxFds THEN @ + 1 ELSE @]

Create(t) ==
    /\ tool[t].pc = "create"
    /\ Turn(t, "join")
    /\ worker' = [worker EXCEPT ![t][tool[t].i] = "new"]
    /\ UNCHANGED <<fds, since, cmds, kernel, pipes, fifo, py, count>>

\* exit(-1), or a crash: every thread of the process ends.
Dies(t) ==
    /\ tool' = [tool EXCEPT ![t].pc = "failed"]
    /\ worker' = [worker EXCEPT ![t] = NoWorkers]

\* pthread_create fails: the dilating loop exits, the freezing one goes on.
CreateFails(t) ==
    /\ tool[t].pc = "create"
    /\ count["faults"] < MaxFaults /\ Spend("faults")
    /\ \/ tool[t].op = "dilate" /\ Dies(t)
       \/ tool[t].op # "dilate" /\ Turn(t, "join") /\ UNCHANGED worker
    /\ UNCHANGED <<fds, since, cmds, kernel, pipes, fifo, py>>

\* Returning without waiting for the threads.
Join_None(t) ==
    /\ tool[t].pc = "join"
    /\ Turn(t, Returned(t))
    /\ Complete(t)
    /\ UNCHANGED <<worker, fds, since, kernel, pipes, fifo, py, count>>

\* pthread_join; of a thread that was not created, with an uninitialized id.
Join(t) ==
    /\ tool[t].pc = "join"
    /\ \/ /\ worker[t][tool[t].i] = "done"
          /\ Turn(t, Returned(t))
          /\ worker' = [worker EXCEPT ![t][tool[t].i] = "none"]
       \/ worker[t][tool[t].i] = "none" /\ Dies(t)
    /\ Complete(t)
    /\ UNCHANGED <<fds, since, kernel, pipes, fifo, py, count>>

\* The dilating loop passes the address of one variable to all its threads.
Argument(t, i) ==
    IF tool[t].op # "dilate" THEN PidList[i]
    ELSE Hosts[IF tool[t].pc = "create" THEN tool[t].i - 1 ELSE Len(Hosts)]

\* write_proc_field with a descriptor left.  It is never closed.
WriteField(t, i) ==
    /\ worker[t][i] = "new"
    /\ fds[t] < MaxFds
    /\ fds' = [fds EXCEPT ![t] = @ + 1]
    /\ worker' = [worker EXCEPT ![t][i] = "done"]
    /\ LET n == Argument(t, i)
       IN  /\ IF tool[t].op = "dilate" THEN DilationWrite(n) ELSE FreezeWrite(n, tool[t].op)
           /\ since' = [u \in Tools |-> IF u = t THEN since[u] ELSE since[u] \cup {n}]
    /\ UNCHANGED <<tool, cmds, pipes, fifo, py, count>>

\* With none left open fails, nothing is written, and nobody hears of it.
OutOfFiles(t, i) ==
    /\ worker[t][i] = "new"
    /\ fds[t] = MaxFds
    /\ worker' = [worker EXCEPT ![t][i] = "done"]
    /\ UNCHANGED <<tool, fds, since, cmds, kernel, pipes, fifo, py, count>>

\* dilation_work, freeze_work, unfreeze_work.
Thread(t, i) == WriteField(t, i) \/ OutOfFiles(t, i)

(***************************************************************************)
(* freeze_listen.                                                          *)
(***************************************************************************)

FifoWrite(byte) ==
    /\ Spend("others")
    /\ fifo' = Append(fifo, byte)
    /\ UNCHANGED <<kernel, tools, pipes, py>>

\* The loop of main.
DaemonRead ==
    /\ tool["daemon"].pc = "read"
    /\ fifo # <<>>
    /\ Kickoff("daemon", Head(fifo))
    /\ fifo' = Tail(fifo)
    /\ UNCHANGED <<fds, cmds, kernel, pipes, py, count>>

(***************************************************************************)
(* Mininet: freezeEmulation, dilateEmulation and stop.                     *)
(***************************************************************************)

Idle == py.pc = "idle"

\* subprocess.check_output: Mininet waits for the tool.
RunTool(op) ==
    /\ Idle
    /\ op = "dilate" => Hosts # <<>>
    /\ Spend("others")
    /\ Kickoff("cli", op)
    /\ fds' = [fds EXCEPT !["cli"] = 0]
    /\ cmds' = [cmds EXCEPT !["cli"] = 0]
    /\ py' = [pc |-> "tool"]
    /\ UNCHANGED <<kernel, pipes, fifo>>

\* A status that is not 0 is an exception, and Mininet ends.
ToolReturns ==
    /\ py.pc = "tool"
    /\ tool["cli"].pc \in {"exited", "failed"}
    /\ py' = [pc |-> IF tool["cli"].pc = "exited" THEN "idle" ELSE "done"]
    /\ UNCHANGED <<kernel, tools, pipes, fifo, count>>

\* Node.terminate: killpg(SIGHUP), shell by shell.
Terminate(n) ==
    /\ py.pc = "idle" \/ py.pc = "stop"
    /\ alive[n] /\ ~hup[n]
    /\ hup' = [hup EXCEPT ![n] = frozen[n]]
    /\ alive' = [alive EXCEPT ![n] = frozen[n]]
    /\ py' = [pc |-> IF \A m \in Nodes \ {n} : ~alive[m] \/ hup[m] THEN "done" ELSE "stop"]
    /\ UNCHANGED <<frozen, dilated, tools, pipes, fifo, count>>

(***************************************************************************)
(* Node: commands to a shell over its pseudo-terminal.                     *)
(***************************************************************************)

Token == [t : {"out", "pid", "pidend", "prompt", "late"}, c : 1..MaxCmds]

\* What the shell writes for command number c: its output and the prompt,
\* chr(127), or, for one that ends in &, the line that printf prints, which
\* may be read in two parts.
Reply(kind, c) ==
    IF kind = "fg" THEN <<[t |-> "out", c |-> c], [t |-> "prompt", c |-> c]>>
    ELSE <<[t |-> "pid", c |-> c], [t |-> "pidend", c |-> c], [t |-> "prompt", c |-> c]>>

\* sendCmd; "assert self.shell and not self.waiting" is the guard.
SendCmd(n, kind) ==
    /\ Idle /\ alive[n] /\ ~hup[n] /\ ~waiting[n]
    /\ kind = "bg" => job[n] = 0
    /\ count["cmds"] < MaxCmds /\ Spend("cmds")
    /\ todo' = [todo EXCEPT ![n] = Reply(kind, count["cmds"] + 1)]
    /\ asked' = [asked EXCEPT ![n] = [kind |-> kind, c |-> count["cmds"] + 1]]
    /\ lastPid' = [lastPid EXCEPT ![n] = 0]
    /\ waiting' = [waiting EXCEPT ![n] = TRUE]
    /\ got' = [got EXCEPT ![n] = <<>>]
    /\ UNCHANGED <<kernel, tools, fifo, py, chan, job>>

\* The shell writes; a background job has started when its pid is printed.
ShellWrites(n) ==
    /\ alive[n] /\ ~frozen[n] /\ todo[n] # <<>>
    /\ chan' = [chan EXCEPT ![n] = Append(@, Head(todo[n]))]
    /\ todo' = [todo EXCEPT ![n] = Tail(@)]
    /\ job' = [job EXCEPT ![n] = IF Head(todo[n]).t = "pid" THEN Head(todo[n]).c ELSE @]
    /\ UNCHANGED <<kernel, tools, fifo, py, count, waiting, got, lastPid, asked>>

\* A background job of the same process group prints and ends.
JobWrites(n) ==
    /\ alive[n] /\ ~frozen[n] /\ job[n] # 0
    /\ chan' = [chan EXCEPT ![n] = Append(@, [t |-> "late", c |-> job[n]])]
    /\ job' = [job EXCEPT ![n] = 0]
    /\ UNCHANGED <<kernel, tools, fifo, py, count, waiting, todo, got, lastPid, asked>>

\* waitOutput, the second half of cmd.
WaitOutput(n) ==
    /\ Idle /\ waiting[n]
    /\ py' = [pc |-> "wait", node |-> n]
    /\ UNCHANGED <<kernel, tools, pipes, fifo, count>>

Has(data, t) == \E i \in DOMAIN data : data[i].t = t
PidIn(data) == LET i == CHOOSE i \in DOMAIN data : data[i].t = "pid" IN data[i].c

\* The prompt is looked for at the end of the data only.
Completed_AtEnd(data) == Last(data).t = "prompt"

\* chr(127) is looked for in all of the data.
Completed(data) == Has(data, "prompt")

\* A monitor that does not read a marker to its end.
Monitor_NoMarkerLoop(n) ==
    /\ py = [pc |-> "wait", node |-> n]
    /\ \E k \in 1..Len(chan[n]) :
         LET data == SubSeq(chan[n], 1, k)
         IN  /\ chan' = [chan EXCEPT ![n] = SubSeq(@, k + 1, Len(@))]
             /\ got' = [got EXCEPT ![n] = @ \o data]
             /\ lastPid' = [lastPid EXCEPT ![n] =
                              IF Has(data, "pid") /\ Has(data, "pidend") THEN PidIn(data) ELSE @]
             /\ waiting' = [waiting EXCEPT ![n] = ~Completed(data)]
             /\ py' = IF Completed(data) THEN [pc |-> "idle"] ELSE py
    /\ UNCHANGED <<kernel, tools, fifo, count, todo, job, asked>>

\* monitor: a read returns any part of the output, but a marker that has
\* begun is read to its end.
Monitor(n) ==
    /\ py = [pc |-> "wait", node |-> n]
    /\ \E k \in 1..Len(chan[n]) :
         LET data == SubSeq(chan[n], 1, k)
         IN  /\ Has(data, "pid") => Has(data, "pidend")
             /\ chan' = [chan EXCEPT ![n] = SubSeq(@, k + 1, Len(@))]
             /\ got' = [got EXCEPT ![n] = @ \o data]
             /\ lastPid' = [lastPid EXCEPT ![n] = IF Has(data, "pid") THEN PidIn(data) ELSE @]
             /\ waiting' = [waiting EXCEPT ![n] = ~Completed(data)]
             /\ py' = IF Completed(data) THEN [pc |-> "idle"] ELSE py
    /\ UNCHANGED <<kernel, tools, fifo, count, todo, job, asked>>

(***************************************************************************)
(* The specification.                                                      *)
(***************************************************************************)

Init ==
    /\ frozen = [n \in Nodes |-> FALSE] /\ dilated = frozen /\ hup = frozen
    /\ alive = [n \in Nodes |-> TRUE]
    /\ tool = [t \in Tools |-> [pc |-> IF t = "cli" THEN "off" ELSE "read", op |-> "p", i |-> 1]]
    /\ worker = [t \in Tools |-> NoWorkers]
    /\ fds = [t \in Tools |-> 0] /\ cmds = fds
    /\ since = [t \in Tools |-> {}]
    /\ fifo = <<>>
    /\ py = [pc |-> "idle"]
    /\ waiting = [n \in Nodes |-> FALSE]
    /\ todo = [n \in Nodes |-> <<>>] /\ chan = todo /\ got = todo
    /\ job = [n \in Nodes |-> 0] /\ lastPid = job
    /\ asked = [n \in Nodes |-> [kind |-> "fg", c |-> 0]]
    /\ count = [c \in Counters |-> 0]

Mininet ==
    \/ \E op \in {"p", "u", "dilate"} : RunTool(op)
    \/ ToolReturns
    \/ \E n \in Nodes :
         \/ Terminate(n)
         \/ \E kind \in {"fg", "bg"} : SendCmd(n, kind)
         \/ WaitOutput(n) \/ Monitor(n)

ToolStep(t) == Create(t) \/ Join(t)
Shell(n) == ShellWrites(n) \/ JobWrites(n)

Next ==
    \/ Mininet \/ DaemonRead
    \/ \E byte \in {"p", "u"} : FifoWrite(byte)      \* u: any byte but p
    \/ \E t \in Tools :
         \/ ToolStep(t) \/ CreateFails(t)
         \/ \E i \in DOMAIN PidList : Thread(t, i)
    \/ \E n \in Nodes : Shell(n)

Spec == Init /\ [][Next]_vars

\* Whatever runs is scheduled; nobody has to start a command or freeze.
FairSpec ==
    /\ Spec
    /\ WF_vars(DaemonRead) /\ WF_vars(ToolReturns)
    /\ \A t \in Tools : /\ WF_vars(ToolStep(t))
                        /\ \A i \in DOMAIN PidList : WF_vars(Thread(t, i))
    /\ \A n \in Nodes : WF_vars(ShellWrites(n)) /\ WF_vars(Monitor(n))

(***************************************************************************)
(* Properties.                                                             *)
(***************************************************************************)

ToolState == [pc : {"off", "read", "create", "join", "exited", "failed"},
              op : {"p", "u", "dilate"}, i : DOMAIN PidList]
MininetState == [pc : {"idle", "tool", "stop", "done"}] \cup [pc : {"wait"}, node : Nodes]

\* Types: descriptors within the limit, at most one tool run by Mininet, which
\* alone dilates, and a stopped shell for every SIGHUP that waits.
TypeOK ==
    /\ {frozen, dilated, alive, hup, waiting} \subseteq [Nodes -> BOOLEAN]
    /\ tool \in [Tools -> ToolState] /\ \A t \in Tools : tool[t].i \in DOMAIN Pids(t)
    /\ worker \in [Tools -> [DOMAIN PidList -> {"none", "new", "done"}]]
    /\ fds \in [Tools -> 0..MaxFds] /\ cmds \in [Tools -> 0..MaxFds + 1]
    /\ since \in [Tools -> SUBSET Nodes]
    /\ fifo \in Seq({"p", "u"}) /\ py \in MininetState
    /\ {todo, chan, got} \subseteq [Nodes -> Seq(Token)]
    /\ {job, lastPid} \subseteq [Nodes -> 0..MaxCmds]
    /\ asked \in [Nodes -> [kind : {"fg", "bg"}, c : 0..MaxCmds]]
    /\ count \in [Counters -> Nat] /\ count["cmds"] <= MaxCmds
    /\ tool["daemon"].op # "dilate"
    /\ tool["cli"].pc \in {"create", "join"} => py.pc = "tool"
    /\ \A n \in Nodes : hup[n] /\ alive[n] => frozen[n]

\* When a tool has returned, or freeze_listen has gone back to its fifo, every
\* node on its command line is what it was told to be, unless the other tool
\* wrote that node meanwhile: frozen after freezeEmulation, running after an
\* unfreeze.  freeze_listen keeps this up for as many commands as it has
\* descriptors for; of dilateEmulation it is true of the last host alone.
CommandTookEffect ==
    \A t \in Tools :
      tool[t].pc = Returned(t) /\ cmds[t] > 0 /\ cmds[t] * Len(PidList) <= MaxFds =>
        IF tool[t].op = "dilate" THEN dilated[Last(Hosts)]
        ELSE \A n \in Nodes \ since[t] : frozen[n] <=> tool[t].op = "p"

\* s is r, but for what background jobs print in between.
Carries(s, r) ==
    \E at \in [DOMAIN r -> DOMAIN s] :
        /\ \A i, j \in DOMAIN r : i < j => at[i] < at[j]
        /\ \A i \in DOMAIN r : s[at[i]] = r[i]
        /\ \A k \in DOMAIN s : s[k].t = "late" \/ \E i \in DOMAIN r : at[i] = k

\* What cmd returns is the reply to that command, whole and of no other
\* command, however the output was split and whatever background jobs print;
\* the next command starts with no prompt left over; and lastPid is the pid
\* of the job that the command started.
RepliesInStep ==
    TypeOK /\ \A n \in Nodes : ~waiting[n] /\ asked[n].c # 0 =>
        /\ ~Has(chan[n], "prompt") /\ todo[n] = <<>>
        /\ Carries(got[n], Reply(asked[n].kind, asked[n].c))
        /\ asked[n].kind = "bg" => lastPid[n] = asked[n].c

\* A command that stands first in the fifo is read and, unless freeze_listen
\* dies of it, carried out: freeze_listen returns to its fifo with every node
\* as the command wants it, but for those that the other tool wrote meanwhile.
\* Once the descriptors are used up it only reads, and obeys in part or not at
\* all (write_proc_field says so to nobody).
DaemonServes ==
    \A byte \in {"p", "u"} :
        fifo # <<>> /\ Head(fifo) = byte ~>
            \/ tool["daemon"].pc = "failed"
            \/ /\ tool["daemon"].pc = "read" /\ tool["daemon"].op = byte
               /\ fds["daemon"] < MaxFds =>
                    \A n \in Nodes \ since["daemon"] : frozen[n] <=> byte = "p"

\* Mininet waits for ever only for a node that is frozen again and again.
CmdReturns ==
    \A n \in Nodes : <>[]~frozen[n] => (py = [pc |-> "wait", node |-> n]) ~> Idle

\* Neither who writes to the fifo, while descriptors last, nor who types at
\* Mininet is left waiting.
EverybodyServed == DaemonServes /\ CmdReturns

=============================================================================

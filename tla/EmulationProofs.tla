-------------------------- MODULE EmulationProofs --------------------------
(***************************************************************************)
(* Theorems about Emulation, for any network, command lines, limit on open *)
(* files and bounds.  The inductive invariant says of each tool where its  *)
(* threads are (Threaded), how many descriptors they can still take        *)
(* (Budgeted) and which nodes obey it already (Effective), and of each     *)
(* shell that what it has written and Mininet has or will read carries so  *)
(* much of the reply to the last command as the shell has written (Talks). *)
(***************************************************************************)
EXTENDS Emulation, FiniteSetTheorems, TLAPS

(***************************************************************************)
(* The invariant.                                                          *)
(***************************************************************************)

Busy(x) == x.pc \in {"create", "join"}
Processes(x) == IF x.op = "dilate" THEN Hosts ELSE PidList

\* Of a tool x with threads v: those that are not created yet, those that may
\* still write, and those that have written or tried to.
Uncreated(x) == {i \in DOMAIN Processes(x) : x.pc = "create" /\ i >= x.i}
Unwritten(x, v) == Uncreated(x) \cup {i \in DOMAIN Processes(x) : v[i] = "new"}
Written(x, v, i) == \/ v[i] = "done"
                    \/ x.pc = "join" /\ i < x.i

\* Threads run only below the loop, and each is joined before the tool returns.
Threaded(x, v) ==
    \A i \in DOMAIN PidList : v[i] # "none" =>
        \/ x.pc = "create" /\ i < x.i
        \/ x.pc = "join" /\ i >= x.i /\ i <= Len(Processes(x))

Enough(k) == k * Len(PidList) <= MaxFds

\* Every command costs at most a descriptor for each process.
Budgeted(x, v, k, d) ==
    \/ k > MaxFds \/ x.pc = "failed"
    \/ Busy(x) /\ d + Cardinality(Unwritten(x, v)) <= (k + 1) * Len(PidList)
    \/ ~Busy(x) /\ d <= k * Len(PidList)

Obeyed(n, op, f, others) == n \in others \/ (f[n] <=> op = "p")

\* While there are descriptors, whoever has written has had its effect.
Effective(x, v, k, f, g, others) ==
    /\ Busy(x) /\ x.op # "dilate" /\ Enough(k + 1) =>
         \A i \in DOMAIN PidList : Written(x, v, i) => Obeyed(PidList[i], x.op, f, others)
    /\ x.pc = "join" /\ x.op = "dilate" /\ Enough(k + 1) =>
         (Written(x, v, Len(Hosts)) => g[Last(Hosts)])
    /\ x.pc \in {"read", "exited"} /\ k > 0 /\ Enough(k) =>
         IF x.op = "dilate" THEN g[Last(Hosts)]
         ELSE \A n \in Nodes : Obeyed(n, x.op, f, others)

Works(x, v, k, d, f, g, others) ==
    Threaded(x, v) /\ Budgeted(x, v, k, d) /\ Effective(x, v, k, f, g, others)

ToolOK(t) == Works(tool[t], worker[t], cmds[t], fds[t], frozen, dilated, since[t])

\* Whoever waits for output has sent a command.
Attending == py.pc = "wait" => waiting[py.node]

\* The output of a node between command and prompt, and after it.
Conversing(a, to, s, g, p) ==
    LET r == Reply(a.kind, a.c)
    IN  /\ \E k \in 0 .. Len(r) : /\ to = SubSeq(r, k + 1, Len(r))
                                  /\ Carries(g \o s, SubSeq(r, 1, k))
        /\ ~Has(g, "prompt")
        /\ a.kind = "bg" /\ Has(g, "pid") => p = a.c

Answered(a, to, s, g, p) ==
    /\ to = <<>> /\ Carries(s, <<>>)
    /\ a.c # 0 => /\ Carries(g, Reply(a.kind, a.c))
                  /\ a.kind = "bg" => p = a.c

Talk(wait, a, to, s, g, p) ==
    /\ wait => a.c # 0 /\ Conversing(a, to, s, g, p)
    /\ ~wait => Answered(a, to, s, g, p)

Talks == \A n \in Nodes : Talk(waiting[n], asked[n], todo[n], chan[n], got[n], lastPid[n])

IInv == TypeOK /\ (\A t \in Tools : ToolOK(t)) /\ Attending /\ Talks

Threads == [DOMAIN PidList -> {"none", "new", "done"}]

(***************************************************************************)
(* The tools.                                                              *)
(***************************************************************************)

Lists == /\ PidList \in Seq(Nodes) /\ Hosts \in Seq(Nodes)
         /\ Len(PidList) \in Nat \ {0} /\ Len(Hosts) <= Len(PidList)
         /\ DOMAIN PidList = 1 .. Len(PidList) /\ DOMAIN Hosts = 1 .. Len(Hosts)
         /\ \A n \in Nodes : \E i \in DOMAIN PidList : PidList[i] = n
         /\ MaxFds \in Nat /\ MaxCmds \in Nat

LEMMA ListsHold == Lists
<1>1. PidList # <<>> => Len(PidList) # 0
  BY ListsAssumption
<1>2. \A n \in Nodes : \E i \in DOMAIN PidList : PidList[i] = n
  BY ListsAssumption DEF ToSet
<1> QED
  BY <1>1, <1>2, ListsAssumption, BoundsAssumption DEF Lists

LEMMA ProcessesAre ==
  ASSUME NEW x \in ToolState
  PROVE  /\ Processes(x) \in Seq(Nodes) /\ Len(Processes(x)) \in Nat
         /\ DOMAIN Processes(x) = 1 .. Len(Processes(x))
         /\ Len(Processes(x)) <= Len(PidList)
BY ListsHold DEF Lists, Processes

LEMMA UnwrittenFinite ==
  ASSUME NEW x \in ToolState, NEW v \in Threads
  PROVE  /\ IsFiniteSet(Unwritten(x, v)) /\ Cardinality(Unwritten(x, v)) \in Nat
         /\ Cardinality(Unwritten(x, v)) <= Len(PidList)
<1> DEFINE n == Len(Processes(x))
<1>1. Unwritten(x, v) \subseteq 1 .. n
  BY ProcessesAre DEF Unwritten, Uncreated
<1>2. IsFiniteSet(1 .. n) /\ Cardinality(1 .. n) = n
  <2>1. n \in Nat
    BY ProcessesAre
  <2> HIDE DEF n
  <2>2. IsFiniteSet(1 .. n) /\ Cardinality(1 .. n) = (IF 1 > n THEN 0 ELSE n - 1 + 1)
    BY <2>1, FS_Interval
  <2> QED
    BY <2>1, <2>2
<1>3. IsFiniteSet(Unwritten(x, v)) /\ Cardinality(Unwritten(x, v)) <= n
  BY <1>1, <1>2, FS_Subset
<1> QED
  BY <1>3, ProcessesAre, FS_CardinalityType

\* Fewer may still write.
LEMMA UnwrittenFewer ==
  ASSUME NEW x \in ToolState, NEW v \in Threads, NEW y \in ToolState, NEW u \in Threads,
         Unwritten(y, u) \subseteq Unwritten(x, v)
  PROVE  Cardinality(Unwritten(y, u)) <= Cardinality(Unwritten(x, v))
BY UnwrittenFinite, FS_Subset

LEMMA UnwrittenOneLess ==
  ASSUME NEW x \in ToolState, NEW v \in Threads, NEW y \in ToolState, NEW u \in Threads,
         NEW i \in Unwritten(x, v), Unwritten(y, u) \subseteq Unwritten(x, v) \ {i}
  PROVE  Cardinality(Unwritten(y, u)) <= Cardinality(Unwritten(x, v)) - 1
<1> DEFINE S == Unwritten(x, v)
<1>1. IsFiniteSet(S \ {i}) /\ Cardinality(S \ {i}) = Cardinality(S) - 1
  BY UnwrittenFinite, FS_RemoveElement
<1> QED
  BY <1>1, FS_Subset

Kinds == [Nodes -> BOOLEAN]

LEMMA Product ==
  ASSUME NEW k \in Nat
  PROVE  k * Len(PidList) \in Nat /\ (k + 1) * Len(PidList) = k * Len(PidList) + Len(PidList)
<1> DEFINE l == Len(PidList)
<1>1. l \in Nat
  BY ListsHold DEF Lists
<1> HIDE DEF l
<1>2. k * l \in Nat /\ (k + 1) * l = k * l + l
  BY <1>1
<1> QED
  BY <1>2 DEF l

LEMMA ProductGrows ==
  ASSUME NEW k \in Nat, Enough(k + 1)
  PROVE  Enough(k)
BY Product, ListsHold DEF Enough, Lists

\* A tool begins its loop.
LEMMA KickoffWorks ==
  ASSUME NEW y \in ToolState, y.pc = "create", y.i = 1, NEW k \in Nat, NEW d \in Nat,
         k > MaxFds \/ d <= k * Len(PidList), NEW f, NEW g, NEW o
  PROVE  Works(y, NoWorkers, k, d, f, g, o)
<1>1. NoWorkers \in Threads /\ \A i \in DOMAIN PidList : NoWorkers[i] = "none"
  BY DEF NoWorkers, Threads
<1>2. \A i \in DOMAIN PidList : ~Written(y, NoWorkers, i)
  BY <1>1 DEF Written
<1>3. Budgeted(y, NoWorkers, k, d)
  <2>1. Cardinality(Unwritten(y, NoWorkers)) \in Nat
        /\ Cardinality(Unwritten(y, NoWorkers)) <= Len(PidList)
    BY <1>1, UnwrittenFinite
  <2> QED
    BY <2>1, Product, ListsHold DEF Budgeted, Busy, Lists
<1>4. Effective(y, NoWorkers, k, f, g, o)
  BY <1>2 DEF Effective, Busy
<1>5. Threaded(y, NoWorkers)
  BY <1>1 DEF Threaded
<1> QED
  BY <1>3, <1>4, <1>5 DEF Works

\* One turn of a loop, after the last of which comes next.
Turned(x, y, next) ==
    /\ y.op = x.op
    /\ y.pc = IF x.i = Len(Processes(x)) THEN next ELSE x.pc
    /\ y.i = IF x.i = Len(Processes(x)) THEN 1 ELSE x.i + 1

\* In the first loop a thread is created, or it is not.
LEMMA CreateWorks ==
  ASSUME NEW x \in ToolState, NEW v \in Threads, NEW y \in ToolState, NEW u \in Threads,
         x.pc = "create", x.i \in DOMAIN Processes(x), Turned(x, y, "join"),
         \/ u = [v EXCEPT ![x.i] = "new"]
         \/ u = v /\ x.op # "dilate",
         NEW k \in Nat, NEW d \in Nat, NEW f, NEW g, NEW o, Works(x, v, k, d, f, g, o)
  PROVE  Works(y, u, k, d, f, g, o)
<1> DEFINE n == Len(Processes(x))
<1>1. /\ Processes(y) = Processes(x) /\ n \in Nat /\ DOMAIN Processes(x) = 1 .. n
      /\ n <= Len(PidList) /\ DOMAIN PidList = 1 .. Len(PidList) /\ x.i \in 1 .. n
  BY ProcessesAre, ListsHold DEF Turned, Processes, Lists
<1>2. \A i \in DOMAIN PidList : v[i] # "none" => i < x.i
  BY DEF Works, Threaded
<1>3. DOMAIN v = DOMAIN PidList /\ x.i \in DOMAIN PidList
  BY <1>1, ListsHold DEF Threads, Lists
<1>4. \A i \in DOMAIN PidList : i # x.i => u[i] = v[i]
  BY <1>3
<1>5. \/ u[x.i] = "new"
      \/ u[x.i] = "none" /\ x.op # "dilate"
  <2>1. v[x.i] = "none"
    BY <1>1, <1>2, <1>3
  <2>2. CASE u = [v EXCEPT ![x.i] = "new"]
    BY <1>3, <2>2
  <2>3. CASE u = v /\ x.op # "dilate"
    BY <2>1, <2>3
  <2> QED
    BY <2>2, <2>3
<1>6. /\ y.pc \in {"create", "join"}
      /\ y.pc = "join" => x.i = n /\ y.i = 1
  BY DEF Turned
<1>7. Threaded(y, u)
  <2>1. SUFFICES ASSUME NEW i \in DOMAIN PidList, u[i] # "none"
                 PROVE  \/ y.pc = "create" /\ i < y.i
                        \/ y.pc = "join" /\ i >= y.i /\ i <= Len(Processes(y))
    BY DEF Threaded
  <2>2. i <= x.i /\ i \in Nat /\ i >= 1
    BY <1>1, <1>2, <1>4, <2>1
  <2> QED
    BY <1>1, <2>2 DEF Turned
<1>8. Unwritten(y, u) \subseteq Unwritten(x, v)
  <2>1. SUFFICES ASSUME NEW i \in Unwritten(y, u) PROVE i \in Unwritten(x, v)
    OBVIOUS
  <2>2. i \in 1 .. n /\ i \in DOMAIN PidList
    BY <1>1, <2>1 DEF Unwritten, Uncreated
  <2>3. CASE i >= x.i
    BY <1>1, <2>2, <2>3 DEF Unwritten, Uncreated
  <2>4. CASE ~(i >= x.i)
    <3>1. u[i] = "new"
      BY <1>1, <2>1, <2>2, <2>4 DEF Unwritten, Uncreated, Turned
    <3> QED
      BY <1>1, <1>4, <2>2, <2>4, <3>1 DEF Unwritten
  <2> QED
    BY <2>3, <2>4
<1>9. Budgeted(y, u, k, d)
  <2>1. /\ Cardinality(Unwritten(y, u)) <= Cardinality(Unwritten(x, v))
        /\ Cardinality(Unwritten(y, u)) \in Nat /\ Cardinality(Unwritten(x, v)) \in Nat
    BY <1>8, UnwrittenFewer, UnwrittenFinite
  <2>2. k > MaxFds \/ d + Cardinality(Unwritten(x, v)) <= (k + 1) * Len(PidList)
    BY DEF Works, Budgeted, Busy
  <2>3. (k + 1) * Len(PidList) \in Nat
    BY Product, ListsHold DEF Lists
  <2> QED
    BY <1>6, <2>1, <2>2, <2>3 DEF Budgeted, Busy
<1>10. \A i \in DOMAIN PidList : Written(y, u, i) => Written(x, v, i) /\ i # x.i
  BY <1>1, <1>4, <1>5, <1>6 DEF Written
<1>11. Effective(y, u, k, f, g, o)
  <2>1. Effective(x, v, k, f, g, o) /\ y.op = x.op
    BY DEF Works, Turned
  <2>2. y.pc = "join" /\ y.op = "dilate" => ~Written(y, u, Len(Hosts))
    BY <1>1, <1>3, <1>6, <1>10, <2>1 DEF Processes
  <2> QED
    BY <1>6, <1>10, <2>1, <2>2 DEF Effective, Busy
<1> QED
  BY <1>7, <1>9, <1>11 DEF Works

\* A thread runs only while the tool is in its loops.
LEMMA ThreadsBusy ==
  ASSUME NEW x \in ToolState, NEW v \in Threads, x.i \in DOMAIN Processes(x), Threaded(x, v),
         NEW i \in DOMAIN PidList, v[i] # "none"
  PROVE  Busy(x) /\ i \in DOMAIN Processes(x)
<1>1. /\ DOMAIN Processes(x) = 1 .. Len(Processes(x)) /\ Len(Processes(x)) \in Nat
      /\ i \in Nat /\ i >= 1
  BY ProcessesAre, ListsHold DEF Lists
<1> QED
  BY <1>1 DEF Threaded, Busy

\* As long as the descriptors suffice, a thread that still has to write finds
\* one; and without one there were not enough.
LEMMA DescriptorLeft ==
  ASSUME NEW x \in ToolState, NEW v \in Threads, NEW i \in Unwritten(x, v), Busy(x),
         NEW k \in Nat, NEW d \in Nat, Budgeted(x, v, k, d), Enough(k + 1)
  PROVE  d < MaxFds
<1>1. Cardinality(Unwritten(x, v)) \in Nat /\ Cardinality(Unwritten(x, v)) # 0
  BY UnwrittenFinite, FS_EmptySet
<1>2. MaxFds \in Nat /\ Len(PidList) \in Nat /\ Len(PidList) >= 1
  BY ListsHold DEF Lists
<1>3. (k + 1) * Len(PidList) <= MaxFds /\ k * Len(PidList) \in Nat
      /\ (k + 1) * Len(PidList) = k * Len(PidList) + Len(PidList)
  BY Product DEF Enough
<1>4. k <= MaxFds
  <2> DEFINE l == Len(PidList)
  <2>1. k * l >= k
    <3>1. l \in Nat /\ l >= 1
      BY <1>2
    <3> HIDE DEF l
    <3>2. k * l = k + k * (l - 1) /\ k * (l - 1) >= 0
      BY <3>1
    <3> QED
      BY <3>1, <3>2
  <2> QED
    BY <1>2, <1>3, <2>1
<1>5. d + Cardinality(Unwritten(x, v)) <= (k + 1) * Len(PidList)
  BY <1>2, <1>4 DEF Budgeted, Busy
<1> QED
  BY <1>1, <1>2, <1>3, <1>5

\* A thread that has no descriptor left, or has written, is done.
LEMMA DoneWorks ==
  ASSUME NEW x \in ToolState, NEW v \in Threads, NEW u \in Threads, x.i \in DOMAIN Processes(x),
         NEW i \in DOMAIN PidList, v[i] = "new", u = [v EXCEPT ![i] = "done"],
         NEW k \in Nat, NEW d \in Nat, NEW e \in Nat, e <= d + 1,
         Threaded(x, v), Budgeted(x, v, k, d)
  PROVE  /\ Threaded(x, u) /\ Budgeted(x, u, k, e)
         /\ i \in Unwritten(x, v) /\ Busy(x) /\ i \in DOMAIN Processes(x)
         /\ \A j \in DOMAIN PidList : Written(x, u, j) => j = i \/ Written(x, v, j)
<1>1. Busy(x) /\ i \in DOMAIN Processes(x)
  BY ThreadsBusy
<1>2. i \in Unwritten(x, v)
  BY <1>1 DEF Unwritten
<1>3. DOMAIN v = DOMAIN PidList /\ u[i] = "done" /\ \A j \in DOMAIN PidList : j # i => u[j] = v[j]
  BY DEF Threads
<1>4. Threaded(x, u)
  BY <1>3 DEF Threaded
<1>5. Unwritten(x, u) \subseteq Unwritten(x, v) \ {i}
  <2>1. DOMAIN Processes(x) \subseteq DOMAIN PidList
    BY ProcessesAre, ListsHold, SMTT(60) DEF Lists
  <2>2. i \notin Uncreated(x)
    <3>1. x.i \in Int /\ i \in Int
      BY <1>1, ProcessesAre
    <3> QED
      BY <3>1 DEF Uncreated, Threaded
  <2> QED
    BY <1>3, <2>1, <2>2 DEF Unwritten
<1>6. Budgeted(x, u, k, e)
  <2>1. /\ Cardinality(Unwritten(x, u)) <= Cardinality(Unwritten(x, v)) - 1
        /\ Cardinality(Unwritten(x, u)) \in Nat /\ Cardinality(Unwritten(x, v)) \in Nat
    BY <1>2, <1>5, UnwrittenOneLess, UnwrittenFinite
  <2>2. (k + 1) * Len(PidList) \in Nat
    BY Product, ListsHold DEF Lists
  <2> QED
    BY <1>1, <2>1, <2>2 DEF Budgeted, Busy
<1>7. \A j \in DOMAIN PidList : Written(x, u, j) => j = i \/ Written(x, v, j)
  BY <1>3 DEF Written
<1> QED
  BY <1>1, <1>2, <1>4, <1>6, <1>7

LEMMA OutOfFilesWorks ==
  ASSUME NEW x \in ToolState, NEW v \in Threads, NEW u \in Threads, x.i \in DOMAIN Processes(x),
         NEW i \in DOMAIN PidList, v[i] = "new", u = [v EXCEPT ![i] = "done"],
         NEW k \in Nat, NEW f, NEW g, NEW o, Works(x, v, k, MaxFds, f, g, o)
  PROVE  Works(x, u, k, MaxFds, f, g, o)
<1>1. MaxFds \in Nat /\ MaxFds <= MaxFds + 1
  BY ListsHold DEF Lists
<1>2. Threaded(x, v) /\ Budgeted(x, v, k, MaxFds)
  BY DEF Works
<1>3. Threaded(x, u) /\ Budgeted(x, u, k, MaxFds) /\ i \in Unwritten(x, v) /\ Busy(x)
  BY <1>1, <1>2, DoneWorks
<1>4. ~Enough(k + 1)
  BY <1>1, <1>2, <1>3, DescriptorLeft
<1>5. Effective(x, u, k, f, g, o)
  BY <1>3, <1>4 DEF Effective, Busy
<1> QED
  BY <1>3, <1>5 DEF Works

\* The thread writes, with what it was given as its argument.
Target(x, i) == IF x.op # "dilate" THEN PidList[i]
                ELSE Hosts[IF x.pc = "create" THEN x.i - 1 ELSE Len(Hosts)]

WriteEffect(x, i, f, g, h, e) ==
    IF x.op = "dilate" THEN h = f /\ e = [g EXCEPT ![Target(x, i)] = TRUE]
    ELSE h = [f EXCEPT ![Target(x, i)] = (x.op = "p")] /\ e = g

LEMMA TargetIs ==
  ASSUME NEW x \in ToolState, NEW v \in Threads, x.i \in DOMAIN Processes(x), Threaded(x, v),
         NEW i \in DOMAIN PidList, v[i] # "none"
  PROVE  /\ Target(x, i) \in Nodes
         /\ x.op = "dilate" /\ x.pc = "join" => Target(x, i) = Last(Hosts)
<1>1. Busy(x) /\ i \in DOMAIN Processes(x)
  BY ThreadsBusy
<1>2. CASE x.op # "dilate"
  BY <1>2, ListsHold DEF Target, Lists
<1>3. CASE x.op = "dilate"
  <2>1. /\ x.i \in 1 .. Len(Hosts) /\ i \in 1 .. Len(Hosts) /\ Len(Hosts) \in Nat
        /\ \A j \in 1 .. Len(Hosts) : Hosts[j] \in Nodes
    BY <1>1, <1>3, ListsHold, SMTT(60) DEF Processes, Lists
  <2>2. CASE x.pc = "create"
    <3>1. x.i - 1 \in 1 .. Len(Hosts)
      BY <2>1, <2>2 DEF Threaded
    <3> QED
      BY <1>3, <2>1, <2>2, <3>1 DEF Target
  <2>3. CASE x.pc = "join"
    BY <1>3, <2>1, <2>3 DEF Target, Last
  <2> QED
    BY <1>1, <2>2, <2>3 DEF Busy
<1> QED
  BY <1>2, <1>3

LEMMA WriteWorks ==
  ASSUME NEW x \in ToolState, NEW v \in Threads, NEW u \in Threads, x.i \in DOMAIN Processes(x),
         NEW i \in DOMAIN PidList, v[i] = "new", u = [v EXCEPT ![i] = "done"],
         NEW k \in Nat, NEW d \in Nat, NEW f \in Kinds, NEW g \in Kinds, NEW h, NEW e, NEW o,
         Works(x, v, k, d, f, g, o), WriteEffect(x, i, f, g, h, e)
  PROVE  Works(x, u, k, d + 1, h, e, o)
<1>1. /\ Threaded(x, v) /\ Budgeted(x, v, k, d) /\ Effective(x, v, k, f, g, o)
      /\ d + 1 \in Nat /\ d + 1 <= d + 1
  BY DEF Works
<1>2. /\ Threaded(x, u) /\ Budgeted(x, u, k, d + 1) /\ Busy(x)
      /\ \A j \in DOMAIN PidList : Written(x, u, j) => j = i \/ Written(x, v, j)
  BY <1>1, DoneWorks
<1>3. /\ Target(x, i) \in Nodes
      /\ x.op = "dilate" /\ x.pc = "join" => Target(x, i) = Last(Hosts)
  BY <1>1, TargetIs
<1>4. ASSUME x.op # "dilate", Enough(k + 1), NEW j \in DOMAIN PidList, Written(x, u, j)
      PROVE  Obeyed(PidList[j], x.op, h, o)
  <2>1. h = [f EXCEPT ![PidList[i]] = (x.op = "p")]
    BY <1>4 DEF WriteEffect, Target
  <2>2. PidList[j] \in Nodes
    BY ListsHold DEF Lists
  <2>3. CASE PidList[j] = PidList[i]
    BY <2>1, <2>2, <2>3 DEF Obeyed, Kinds
  <2>4. CASE PidList[j] # PidList[i]
    <3>1. Obeyed(PidList[j], x.op, f, o)
      BY <1>1, <1>2, <1>4, <2>4 DEF Effective
    <3> QED
      BY <2>1, <2>2, <2>4, <3>1 DEF Obeyed, Kinds
  <2> QED
    BY <2>3, <2>4
<1>5. ASSUME x.op = "dilate", x.pc = "join" PROVE e[Last(Hosts)]
  BY <1>3, <1>5 DEF WriteEffect, Kinds
<1>6. Effective(x, u, k, h, e, o)
  BY <1>2, <1>4, <1>5 DEF Effective, Busy
<1> QED
  BY <1>2, <1>6 DEF Works

\* The other tool writes the node n, which this one then does not answer for.
LEMMA OthersWork ==
  ASSUME NEW x \in ToolState, NEW v \in Threads, NEW k \in Nat, NEW d \in Nat,
         NEW f \in Kinds, NEW g \in Kinds, NEW h, NEW e, NEW n \in Nodes, NEW o,
         \A m \in Nodes : (m # n => h[m] = f[m]) /\ (g[m] => e[m]),
         x.op = "dilate" => Hosts # <<>>,
         Works(x, v, k, d, f, g, o)
  PROVE  Works(x, v, k, d, h, e, o \cup {n})
<1>1. \A m \in Nodes : Obeyed(m, x.op, f, o) => Obeyed(m, x.op, h, o \cup {n})
  BY DEF Obeyed
<1>2. x.op = "dilate" => Last(Hosts) \in Nodes
  <2>1. Hosts # <<>> => Last(Hosts) \in Nodes
    BY ListsHold DEF Last, Lists
  <2> QED
    BY <2>1
<1>3. \A i \in DOMAIN PidList : PidList[i] \in Nodes
  BY ListsHold DEF Lists
<1>4. Effective(x, v, k, f, g, o)
  BY DEF Works
<1>5. Effective(x, v, k, h, e, o \cup {n})
  BY <1>1, <1>2, <1>3, <1>4 DEF Effective
<1> QED
  BY <1>5 DEF Works

Joined(x, v, u) == v[x.i] = "done" /\ u = [v EXCEPT ![x.i] = "none"]

\* A tool that has returned has completed a command more.
CommandCounted(y, next, k, l) == l = IF y.pc = next /\ k <= MaxFds THEN k + 1 ELSE k

\* A thread is joined; after the last one the tool returns.
LEMMA JoinWorks ==
  ASSUME NEW x \in ToolState, NEW v \in Threads, NEW y \in ToolState, NEW u \in Threads,
         x.pc = "join", x.i \in DOMAIN Processes(x), NEW next \in {"read", "exited"},
         Turned(x, y, next), Joined(x, v, u),
         NEW k \in Nat, NEW d \in Nat, NEW f \in Kinds, NEW g \in Kinds, NEW o,
         NEW l, CommandCounted(y, next, k, l),
         Works(x, v, k, d, f, g, o)
  PROVE  Works(y, u, l, d, f, g, o)
<1> DEFINE n == Len(Processes(x))
<1>1. /\ Processes(y) = Processes(x) /\ n \in Nat /\ DOMAIN Processes(x) = 1 .. n
      /\ n <= Len(PidList) /\ DOMAIN PidList = 1 .. Len(PidList) /\ x.i \in 1 .. n
      /\ MaxFds \in Nat /\ Len(PidList) \in Nat /\ Len(PidList) >= 1
  BY ProcessesAre, ListsHold, SMTT(60) DEF Turned, Processes, Lists
<1>2. DOMAIN v = DOMAIN PidList /\ x.i \in DOMAIN PidList
  BY <1>1, ListsHold DEF Threads, Lists
<1>3. /\ u[x.i] = "none" /\ v[x.i] = "done"
      /\ \A i \in DOMAIN PidList : i # x.i => u[i] = v[i]
  BY <1>2 DEF Joined
<1>4. /\ Threaded(x, v) /\ Budgeted(x, v, k, d) /\ Effective(x, v, k, f, g, o)
      /\ y.op = x.op
  BY DEF Works, Turned
<1>5. \A i \in DOMAIN PidList : v[i] # "none" => i >= x.i /\ i <= n
  BY <1>4 DEF Threaded
<1>6. /\ x.i = n => y.pc = next /\ l = (IF k <= MaxFds THEN k + 1 ELSE k)
      /\ x.i # n => y.pc = "join" /\ y.i = x.i + 1 /\ l = k
  BY DEF Turned, CommandCounted
<1>7. Threaded(y, u)
  <2>1. SUFFICES ASSUME NEW i \in DOMAIN PidList, u[i] # "none"
                 PROVE  y.pc = "join" /\ i >= y.i /\ i <= n
    BY <1>1 DEF Threaded
  <2>2. i # x.i /\ i >= x.i /\ i <= n /\ i \in Int
    BY <1>1, <1>3, <1>5, <2>1
  <2> QED
    BY <1>1, <1>6, <2>2
<1>8. Unwritten(y, u) \subseteq Unwritten(x, v)
  <2>1. y.pc # "create"
    BY <1>6
  <2>2. \A i \in 1 .. n : i \in DOMAIN PidList
    BY <1>1
  <2> QED
    BY <1>1, <1>3, <2>1, <2>2 DEF Unwritten, Uncreated
<1>9. Budgeted(y, u, l, d)
  <2>1. /\ Cardinality(Unwritten(y, u)) <= Cardinality(Unwritten(x, v))
        /\ Cardinality(Unwritten(y, u)) \in Nat /\ Cardinality(Unwritten(x, v)) \in Nat
    BY <1>8, UnwrittenFewer, UnwrittenFinite
  <2>2. k > MaxFds \/ d + Cardinality(Unwritten(x, v)) <= (k + 1) * Len(PidList)
    BY <1>4 DEF Budgeted, Busy
  <2>3. (k + 1) * Len(PidList) \in Nat
    BY Product, ListsHold DEF Lists
  <2>4. CASE x.i = n
    <3>1. y.pc = next /\ ~Busy(y)
      BY <1>6, <2>4 DEF Busy
    <3>2. CASE k <= MaxFds
      <4>1. l = k + 1 /\ d <= (k + 1) * Len(PidList)
        BY <1>1, <1>6, <2>1, <2>2, <2>3, <2>4, <3>2
      <4> QED
        BY <3>1, <4>1 DEF Budgeted
    <3>3. CASE ~(k <= MaxFds)
      BY <1>1, <1>6, <2>4, <3>3 DEF Budgeted
    <3> QED
      BY <3>2, <3>3
  <2>5. CASE x.i # n
    BY <1>6, <2>1, <2>2, <2>3, <2>5, SMTT(60) DEF Budgeted, Busy
  <2> QED
    BY <2>4, <2>5
<1>10. ASSUME x.i # n PROVE Effective(y, u, l, f, g, o)
  <2>1. \A i \in DOMAIN PidList : Written(y, u, i) => Written(x, v, i)
    BY <1>1, <1>2, <1>3, <1>6, <1>10 DEF Written
  <2>2. x.op = "dilate" => Len(Hosts) \in DOMAIN PidList
    BY <1>1 DEF Processes
  <2> QED
    BY <1>4, <1>6, <1>10, <2>1, <2>2 DEF Effective, Busy
<1>11. ASSUME x.i = n, Enough(l) PROVE Enough(k + 1)
  <2>1. CASE k <= MaxFds
    BY <1>6, <1>11, <2>1
  <2>2. CASE ~(k <= MaxFds)
    <3>1. Enough(k)
      BY <1>6, <1>11, <2>2
    <3> DEFINE m == Len(PidList)
    <3>2. k * m <= MaxFds /\ m \in Nat /\ m >= 1
      BY <1>1, <3>1 DEF Enough
    <3> HIDE DEF m
    <3>3. k * m = k + k * (m - 1) /\ k * (m - 1) >= 0
      BY <3>2
    <3>4. k <= MaxFds
      BY <1>1, <3>2, <3>3
    <3> QED
      BY <2>2, <3>4
  <2> QED
    BY <2>1, <2>2
<1>12. ASSUME x.i = n PROVE Effective(y, u, l, f, g, o)
  <2>1. \A i \in 1 .. n : Written(x, v, i)
    BY <1>1, <1>3, <1>12 DEF Written
  <2>2. y.pc = next /\ ~Busy(y) /\ y.pc # "join"
    BY <1>6, <1>12 DEF Busy
  <2>3. ASSUME Enough(l), x.op # "dilate", NEW m \in Nodes PROVE Obeyed(m, x.op, f, o)
    <3>1. PICK i \in DOMAIN PidList : PidList[i] = m
      BY ListsHold DEF Lists
    <3>2. i \in 1 .. n
      BY <1>1, <2>3 DEF Processes
    <3> QED
      BY <1>4, <1>11, <1>12, <2>1, <2>3, <3>1, <3>2 DEF Effective, Busy
  <2>4. ASSUME Enough(l), x.op = "dilate" PROVE g[Last(Hosts)]
    <3>1. n = Len(Hosts) /\ n \in 1 .. n
      BY <1>1, <2>4 DEF Processes
    <3> QED
      BY <1>4, <1>11, <1>12, <2>1, <2>4, <3>1 DEF Effective
  <2> QED
    BY <1>4, <2>2, <2>3, <2>4 DEF Effective
<1>13. Effective(y, u, l, f, g, o)
  BY <1>10, <1>12
<1> QED
  BY <1>7, <1>9, <1>13 DEF Works

\* A tool that has died has no threads, and nothing is promised of it.
LEMMA DeadWorks ==
  ASSUME NEW y \in ToolState, y.pc = "failed", NEW k, NEW d, NEW f, NEW g, NEW o
  PROVE  Works(y, NoWorkers, k, d, f, g, o)
BY DEF Works, Threaded, Budgeted, Effective, Busy, NoWorkers

(***************************************************************************)
(* The output of a shell.                                                  *)
(***************************************************************************)

Output == Seq(Token)

LEMMA CarriesNothing ==
  ASSUME NEW s \in Output
  PROVE  Carries(s, <<>>) <=> \A k \in DOMAIN s : s[k].t = "late"
<1>1. ASSUME Carries(s, <<>>), NEW k \in DOMAIN s PROVE s[k].t = "late"
  BY <1>1 DEF Carries
<1>2. ASSUME \A k \in DOMAIN s : s[k].t = "late" PROVE Carries(s, <<>>)
  <2> DEFINE at == [i \in DOMAIN <<>> |-> 1]
  <2>1. at \in [DOMAIN <<>> -> DOMAIN s] /\ DOMAIN <<>> = {}
    OBVIOUS
  <2> HIDE DEF at
  <2> QED
    BY <1>2, <2>1 DEF Carries
<1> QED
  BY <1>1, <1>2

\* One more word of the reply.
LEMMA CarriesNext ==
  ASSUME NEW s \in Output, NEW r \in Output, NEW x \in Token, Carries(s, r)
  PROVE  Carries(Append(s, x), Append(r, x))
<1>1. PICK at \in [DOMAIN r -> DOMAIN s] :
        /\ \A i, j \in DOMAIN r : i < j => at[i] < at[j]
        /\ \A i \in DOMAIN r : s[at[i]] = r[i]
        /\ \A k \in DOMAIN s : s[k].t = "late" \/ \E i \in DOMAIN r : at[i] = k
  BY DEF Carries
<1> DEFINE m == Len(r)
           n == Len(s)
           s2 == Append(s, x)
           r2 == Append(r, x)
           to == [i \in 1 .. m + 1 |-> IF i = m + 1 THEN n + 1 ELSE at[i]]
<1>2. /\ m \in Nat /\ n \in Nat /\ DOMAIN r = 1 .. m /\ DOMAIN s = 1 .. n
      /\ DOMAIN s2 = 1 .. n + 1 /\ DOMAIN r2 = 1 .. m + 1
      /\ s2[n + 1] = x /\ r2[m + 1] = x
      /\ \A i \in 1 .. n : s2[i] = s[i]
      /\ \A i \in 1 .. m : r2[i] = r[i]
  BY DEF Output
<1> HIDE DEF m, n, s2, r2
<1>3. \A i \in 1 .. m : at[i] \in 1 .. n
  BY <1>1, <1>2
<1>4. /\ \A i \in 1 .. m : to[i] = at[i]
      /\ to[m + 1] = n + 1
      /\ \A i \in 1 .. m + 1 : i \in 1 .. m \/ i = m + 1
      /\ \A i \in 1 .. n + 1 : i \in 1 .. n \/ i = n + 1
      /\ DOMAIN to = 1 .. m + 1 /\ m + 1 \in 1 .. m + 1
      /\ 1 .. m \subseteq 1 .. m + 1
  BY <1>2
<1>5. to \in [DOMAIN r2 -> DOMAIN s2]
  BY <1>2, <1>3
<1> HIDE DEF to
<1>6. \A i, j \in DOMAIN r2 : i < j => to[i] < to[j]
  <2>1. SUFFICES ASSUME NEW i \in 1 .. m + 1, NEW j \in 1 .. m + 1, i < j PROVE to[i] < to[j]
    BY <1>2
  <2>2. i \in 1 .. m
    BY <1>2, <2>1
  <2>3. CASE j = m + 1
    BY <1>2, <1>3, <1>4, <2>2, <2>3
  <2>4. CASE j \in 1 .. m
    BY <1>1, <1>2, <1>4, <2>1, <2>2, <2>4
  <2> QED
    BY <1>4, <2>3, <2>4
<1>7. \A i \in DOMAIN r2 : s2[to[i]] = r2[i]
  BY <1>1, <1>2, <1>3, <1>4
<1>8. \A k \in DOMAIN s2 : s2[k].t = "late" \/ \E i \in DOMAIN r2 : to[i] = k
  <2>1. SUFFICES ASSUME NEW k \in 1 .. n + 1 PROVE s2[k].t = "late" \/ \E i \in DOMAIN r2 : to[i] = k
    BY <1>2
  <2>2. CASE k = n + 1
    BY <1>2, <1>4, <2>2
  <2>3. CASE k \in 1 .. n
    BY <1>1, <1>2, <1>4, <2>3, ZenonT(60)
  <2> QED
    BY <1>4, <2>2, <2>3
<1>9. Carries(s2, r2)
  BY <1>5, <1>6, <1>7, <1>8 DEF Carries
<1> QED
  BY <1>9 DEF s2, r2

\* A background job prints in between.
LEMMA CarriesLate ==
  ASSUME NEW s \in Output, NEW r \in Output, NEW x \in Token, x.t = "late", Carries(s, r)
  PROVE  Carries(Append(s, x), r)
<1>1. PICK at \in [DOMAIN r -> DOMAIN s] :
        /\ \A i, j \in DOMAIN r : i < j => at[i] < at[j]
        /\ \A i \in DOMAIN r : s[at[i]] = r[i]
        /\ \A k \in DOMAIN s : s[k].t = "late" \/ \E i \in DOMAIN r : at[i] = k
  BY DEF Carries
<1> DEFINE n == Len(s)
           s2 == Append(s, x)
<1>2. /\ n \in Nat /\ DOMAIN s = 1 .. n
      /\ DOMAIN s2 = 1 .. n + 1 /\ s2[n + 1] = x
      /\ \A i \in 1 .. n : s2[i] = s[i]
      /\ \A i \in 1 .. n + 1 : i \in 1 .. n \/ i = n + 1
      /\ 1 .. n \subseteq 1 .. n + 1
  BY DEF Output
<1> HIDE DEF n, s2
<1>3. at \in [DOMAIN r -> DOMAIN s2] /\ \A i \in DOMAIN r : at[i] \in 1 .. n
  BY <1>1, <1>2
<1>4. \A i \in DOMAIN r : s2[at[i]] = r[i]
  BY <1>1, <1>2, <1>3
<1>5. \A k \in DOMAIN s2 : s2[k].t = "late" \/ \E i \in DOMAIN r : at[i] = k
  BY <1>1, <1>2
<1>6. Carries(s2, r)
  BY <1>1, <1>3, <1>4, <1>5 DEF Carries
<1> QED
  BY <1>6 DEF s2

\* Cut after its last word, which is of its own kind, the first part carries it
\* all and the second nothing.
LEMMA CarriesCut ==
  ASSUME NEW g \in Output, NEW s \in Output, NEW r \in Output, Carries(g \o s, r),
         NEW w, w # "late", \A i \in DOMAIN r : r[i].t = w => i = Len(r), Has(g, w)
  PROVE  Carries(g, r) /\ Carries(s, <<>>)
<1> DEFINE n == Len(g)
           h == g \o s
           m == Len(r)
<1>1. PICK at \in [DOMAIN r -> DOMAIN h] :
        /\ \A i, j \in DOMAIN r : i < j => at[i] < at[j]
        /\ \A i \in DOMAIN r : h[at[i]] = r[i]
        /\ \A k \in DOMAIN h : h[k].t = "late" \/ \E i \in DOMAIN r : at[i] = k
  BY DEF Carries
<1>2. /\ n \in Nat /\ Len(s) \in Nat /\ m \in Nat /\ DOMAIN g = 1 .. n /\ DOMAIN s = 1 .. Len(s)
      /\ DOMAIN h = 1 .. n + Len(s) /\ DOMAIN r = 1 .. m
      /\ \A i \in 1 .. n : h[i] = g[i]
      /\ \A i \in 1 .. Len(s) : h[n + i] = s[i]
  BY DEF Output
<1> HIDE DEF n, h, m
<1>3. PICK p \in 1 .. n : g[p].t = w
  BY <1>2 DEF Has
<1>4. p \in DOMAIN h /\ h[p].t = w
  BY <1>2, <1>3
<1>5. m \in DOMAIN r /\ at[m] = p
  <2>1. PICK i \in DOMAIN r : at[i] = p
    BY <1>1, <1>4
  <2>2. r[i].t = w
    BY <1>1, <1>4, <2>1
  <2> QED
    BY <2>1, <2>2 DEF m
<1>6. \A i \in 1 .. m : at[i] \in 1 .. n
  <2>1. SUFFICES ASSUME NEW i \in 1 .. m PROVE at[i] \in 1 .. n
    OBVIOUS
  <2>2. at[i] \in 1 .. n + Len(s)
    BY <1>2
  <2>3. i = m \/ at[i] < at[m]
    <3>1. i < m \/ i = m
      BY <1>2
    <3> QED
      BY <1>1, <1>2, <1>5, <3>1
  <2> QED
    BY <1>2, <1>5, <2>2, <2>3
<1>7. Carries(g, r)
  <2>1. at \in [DOMAIN r -> DOMAIN g]
    BY <1>2, <1>6
  <2>2. \A i \in DOMAIN r : g[at[i]] = r[i]
    BY <1>1, <1>2, <1>6
  <2>3. \A k \in DOMAIN g : g[k].t = "late" \/ \E i \in DOMAIN r : at[i] = k
    BY <1>1, <1>2
  <2> QED
    BY <1>1, <2>1, <2>2, <2>3 DEF Carries
<1>8. \A k \in DOMAIN s : s[k].t = "late"
  <2>1. SUFFICES ASSUME NEW k \in 1 .. Len(s), s[k].t # "late" PROVE FALSE
    BY <1>2
  <2>2. n + k \in DOMAIN h /\ h[n + k] = s[k] /\ n + k \notin 1 .. n
    BY <1>2
  <2>3. PICK i \in DOMAIN r : at[i] = n + k
    BY <1>1, <2>1, <2>2
  <2> QED
    BY <1>2, <1>6, <2>2, <2>3
<1> QED
  BY <1>7, <1>8, CarriesNothing

LEMMA ReplyIs ==
  ASSUME NEW kind \in {"fg", "bg"}, NEW c \in 1 .. MaxCmds
  PROVE  LET r == Reply(kind, c)
         IN  /\ r \in Output /\ Len(r) \in Nat /\ Len(r) >= 2
             /\ \A i \in 1 .. Len(r) : /\ r[i] \in Token /\ r[i].c = c
                                       /\ r[i].t = "prompt" <=> i = Len(r)
                                       /\ r[i].t # "late"
                                       /\ kind = "bg" /\ i = 1 => r[i].t = "pid"
<1> DEFINE x1 == [t |-> "out", c |-> c]
           x2 == [t |-> "prompt", c |-> c]
           x3 == [t |-> "pid", c |-> c]
           x4 == [t |-> "pidend", c |-> c]
<1>1. /\ x1 \in Token /\ x2 \in Token /\ x3 \in Token /\ x4 \in Token
      /\ x1.t = "out" /\ x2.t = "prompt" /\ x3.t = "pid" /\ x4.t = "pidend"
      /\ x1.c = c /\ x2.c = c /\ x3.c = c /\ x4.c = c
  BY DEF Token
<1>2. CASE kind = "fg"
  <2> DEFINE r == Reply(kind, c)
  <2>1. r = <<x1, x2>>
    BY <1>2 DEF Reply
  <2> HIDE DEF r, x1, x2, x3, x4
  <2>2. r \in Seq(Token) /\ Len(r) = 2 /\ r[1] = x1 /\ r[2] = x2
    BY <1>1, <2>1
  <2>3. 1 .. Len(r) = {1, 2}
    BY <2>2
  <2>4. Len(r) \in Nat /\ Len(r) >= 2
    BY <2>2
  <2>5. \A i \in 1 .. Len(r) : /\ r[i] \in Token /\ r[i].c = c
                               /\ r[i].t = "prompt" <=> i = Len(r)
                               /\ r[i].t # "late"
    BY <1>1, <2>2, <2>3
  <2> QED
    BY <1>2, <2>2, <2>4, <2>5 DEF r, Output
<1>3. CASE kind = "bg"
  <2> DEFINE r == Reply(kind, c)
  <2>1. r = <<x3, x4, x2>>
    BY <1>3 DEF Reply
  <2> HIDE DEF r, x1, x2, x3, x4
  <2>2. r \in Seq(Token) /\ Len(r) = 3 /\ r[1] = x3 /\ r[2] = x4 /\ r[3] = x2
    BY <1>1, <2>1
  <2>3. 1 .. Len(r) = {1, 2, 3}
    BY <2>2
  <2>4. Len(r) \in Nat /\ Len(r) >= 2
    BY <2>2
  <2>5. \A i \in 1 .. Len(r) : /\ r[i] \in Token /\ r[i].c = c
                               /\ r[i].t = "prompt" <=> i = Len(r)
                               /\ r[i].t # "late"
                               /\ i = 1 => r[i].t = "pid"
    BY <1>1, <2>2, <2>3
  <2> QED
    BY <1>3, <2>2, <2>4, <2>5 DEF r, Output
<1> QED
  BY <1>2, <1>3

\* The next word of a reply r of which k words have been written.
LEMMA NextWord ==
  ASSUME NEW r \in Output, NEW k \in 0 .. Len(r), SubSeq(r, k + 1, Len(r)) # <<>>
  PROVE  /\ k + 1 \in 0 .. Len(r) /\ k + 1 \in DOMAIN r
         /\ Head(SubSeq(r, k + 1, Len(r))) = r[k + 1]
         /\ Tail(SubSeq(r, k + 1, Len(r))) = SubSeq(r, k + 2, Len(r))
         /\ SubSeq(r, 1, k + 1) = Append(SubSeq(r, 1, k), r[k + 1])
         /\ SubSeq(r, 1, k) \in Output
<1> DEFINE m == Len(r)
<1>1. r \in Seq(Token) /\ m \in Nat /\ DOMAIN r = 1 .. m /\ k \in Nat
  BY DEF Output
<1>2. k < m
  <2>1. k >= m => SubSeq(r, k + 1, m) = <<>>
    BY <1>1
  <2> QED
    BY <1>1, <2>1
<1>3. k + 1 \in 0 .. m /\ k + 1 \in 1 .. m
  BY <1>1, <1>2
<1>4. Head(SubSeq(r, k + 1, m)) = r[k + 1]
  BY <1>1, <1>2
<1>5. Tail(SubSeq(r, k + 1, m)) = SubSeq(r, k + 2, m)
  BY <1>1, <1>2
<1>6. SubSeq(r, 1, k + 1) = Append(SubSeq(r, 1, k), r[k + 1])
  BY <1>1, <1>2
<1>7. SubSeq(r, 1, k) \in Output
  BY <1>1, <1>2 DEF Output
<1> QED
  BY <1>1, <1>3, <1>4, <1>5, <1>6, <1>7

LEMMA WholeReply ==
  ASSUME NEW r \in Output
  PROVE  /\ SubSeq(r, 1, Len(r)) = r /\ SubSeq(r, 1, 0) = <<>>
         /\ Len(r) \in Nat
         /\ \A k \in 0 .. Len(r) : SubSeq(r, 1, k) \in Output /\ Len(SubSeq(r, 1, k)) = k
                                   /\ \A i \in 1 .. k : SubSeq(r, 1, k)[i] = r[i]
BY DEF Output

Asked == [kind : {"fg", "bg"}, c : 0 .. MaxCmds]

LEMMA SendTalks ==
  ASSUME NEW a \in Asked, a.c # 0, NEW s \in Output, Carries(s, <<>>)
  PROVE  Talk(TRUE, a, Reply(a.kind, a.c), s, <<>>, 0)
<1> DEFINE r == Reply(a.kind, a.c)
<1>1. a.kind \in {"fg", "bg"} /\ a.c \in 1 .. MaxCmds
  BY ListsHold DEF Asked, Lists
<1>2. r \in Output
  BY <1>1, ReplyIs
<1> HIDE DEF r
<1>3. Len(r) \in Nat /\ SubSeq(r, 0 + 1, Len(r)) = r /\ SubSeq(r, 1, 0) = <<>>
  BY <1>2 DEF Output
<1>4. <<>> \o s = s
  BY DEF Output
<1>5. 0 \in 0 .. Len(r) /\ Carries(<<>> \o s, SubSeq(r, 1, 0))
  <2>1. 0 \in 0 .. Len(r)
    BY <1>3
  <2>2. Carries(<<>> \o s, SubSeq(r, 1, 0))
    BY ONLY Carries(s, <<>>), <1>3, <1>4, Zenon
  <2> QED
    BY <2>1, <2>2
<1>6. ~Has(<<>>, "prompt") /\ ~Has(<<>>, "pid")
  BY DEF Has
<1>7. \E k \in 0 .. Len(r) : r = SubSeq(r, k + 1, Len(r)) /\ Carries(<<>> \o s, SubSeq(r, 1, k))
  BY <1>3, <1>5
<1>8. Conversing(a, r, s, <<>>, 0)
  BY <1>6, <1>7 DEF r, Conversing
<1> QED
  BY <1>8 DEF Talk, r

LEMMA ShellTalks ==
  ASSUME NEW wait \in BOOLEAN, NEW a \in Asked, NEW to \in Output, NEW s \in Output,
         NEW g \in Output, NEW p, to # <<>>, Talk(wait, a, to, s, g, p)
  PROVE  Talk(wait, a, Tail(to), Append(s, Head(to)), g, p)
<1> DEFINE r == Reply(a.kind, a.c)
<1>1. wait /\ a.c # 0 /\ Conversing(a, to, s, g, p)
  BY DEF Talk, Answered
<1>2. a.kind \in {"fg", "bg"} /\ a.c \in 1 .. MaxCmds
  BY <1>1, ListsHold DEF Asked, Lists
<1>3. r \in Output
  BY <1>2, ReplyIs
<1>4. PICK k \in 0 .. Len(r) : to = SubSeq(r, k + 1, Len(r)) /\ Carries(g \o s, SubSeq(r, 1, k))
  BY <1>1 DEF Conversing
<1> HIDE DEF r
<1>5. /\ k + 1 \in 0 .. Len(r) /\ k + 1 \in DOMAIN r /\ Head(to) = r[k + 1]
      /\ Tail(to) = SubSeq(r, k + 2, Len(r))
      /\ SubSeq(r, 1, k + 1) = Append(SubSeq(r, 1, k), r[k + 1])
      /\ SubSeq(r, 1, k) \in Output
  BY <1>3, <1>4, NextWord
<1>6. r[k + 1] \in Token
  BY <1>3, <1>5 DEF Output
<1>7. g \o s \in Output /\ g \o Append(s, Head(to)) = Append(g \o s, Head(to))
  BY <1>5, <1>6, SMTT(60) DEF Output
<1>8. Carries(g \o Append(s, Head(to)), SubSeq(r, 1, k + 1))
  BY <1>4, <1>5, <1>6, <1>7, CarriesNext
<1>9. (k + 1) + 1 = k + 2
  BY <1>3, <1>4 DEF Output
<1>10. Conversing(a, Tail(to), Append(s, Head(to)), g, p)
  <2>1. \E j \in 0 .. Len(r) : /\ Tail(to) = SubSeq(r, j + 1, Len(r))
                               /\ Carries(g \o Append(s, Head(to)), SubSeq(r, 1, j))
    BY <1>5, <1>8, <1>9
  <2> QED
    BY <1>1, <2>1 DEF Conversing, r
<1> QED
  BY <1>1, <1>10 DEF Talk

LEMMA JobTalks ==
  ASSUME NEW wait \in BOOLEAN, NEW a \in Asked, NEW to \in Output, NEW s \in Output,
         NEW g \in Output, NEW p, NEW x \in Token, x.t = "late", Talk(wait, a, to, s, g, p)
  PROVE  Talk(wait, a, to, Append(s, x), g, p)
<1> DEFINE r == Reply(a.kind, a.c)
<1>1. CASE wait
  <2>1. a.c # 0 /\ Conversing(a, to, s, g, p)
    BY <1>1 DEF Talk
  <2>2. a.kind \in {"fg", "bg"} /\ a.c \in 1 .. MaxCmds
    BY <2>1, ListsHold DEF Asked, Lists
  <2>3. r \in Output
    BY <2>2, ReplyIs
  <2>4. PICK k \in 0 .. Len(r) : to = SubSeq(r, k + 1, Len(r)) /\ Carries(g \o s, SubSeq(r, 1, k))
    BY <2>1 DEF Conversing
  <2> HIDE DEF r
  <2>5. g \o s \in Output /\ g \o Append(s, x) = Append(g \o s, x)
    BY SMTT(60) DEF Output
  <2>6. SubSeq(r, 1, k) \in Output
    BY <2>3, WholeReply
  <2>7. Carries(g \o Append(s, x), SubSeq(r, 1, k))
    BY <2>4, <2>5, <2>6, CarriesLate
  <2>8. \E j \in 0 .. Len(r) : to = SubSeq(r, j + 1, Len(r)) /\ Carries(g \o Append(s, x), SubSeq(r, 1, j))
    BY <2>4, <2>7
  <2>9. Conversing(a, to, Append(s, x), g, p)
    BY <2>1, <2>8 DEF Conversing, r
  <2> QED
    BY <1>1, <2>1, <2>9 DEF Talk
<1>2. CASE ~wait
  <2>1. <<>> \in Output
    BY DEF Output
  <2>2. Carries(Append(s, x), <<>>)
    BY <1>2, <2>1, CarriesLate DEF Talk, Answered
  <2> QED
    BY <1>2, <2>2 DEF Talk, Answered
<1> QED
  BY <1>1, <1>2

\* What a read returns and what is left.
LEMMA Reading ==
  ASSUME NEW s \in Output, NEW k \in 1 .. Len(s)
  PROVE  LET data == SubSeq(s, 1, k)
             left == SubSeq(s, k + 1, Len(s))
         IN  /\ data \in Output /\ left \in Output /\ Len(data) >= 1
             /\ \A g \in Output : (g \o data) \o left = g \o s /\ g \o data \in Output
<1> DEFINE data == SubSeq(s, 1, k)
           left == SubSeq(s, k + 1, Len(s))
<1>1. data \in Output /\ left \in Output /\ Len(data) = k /\ Len(left) = Len(s) - k
      /\ (\A i \in 1 .. k : data[i] = s[i])
      /\ (\A i \in 1 .. Len(s) - k : left[i] = s[k + i])
      /\ k \in Nat /\ Len(s) \in Nat
  BY DEF Output
<1> HIDE DEF data, left
<1>2. ASSUME NEW g \in Output PROVE (g \o data) \o left = g \o s /\ g \o data \in Output
  <2> DEFINE y == (g \o data) \o left
             z == g \o s
  <2>1. /\ y \in Seq(Token) /\ z \in Seq(Token) /\ Len(y) = Len(g) + Len(s) /\ Len(z) = Len(g) + Len(s)
        /\ Len(g) \in Nat /\ g \o data \in Output
    <3>1. g \o data \in Seq(Token) /\ Len(g \o data) = Len(g) + k /\ Len(g) \in Nat
      BY <1>1 DEF Output
    <3>2. y \in Seq(Token) /\ Len(y) = Len(g \o data) + Len(left)
      <4> DEFINE gd == g \o data
      <4> HIDE DEF gd
      <4>1. gd \in Seq(Token) /\ left \in Seq(Token)
        BY <1>1, <3>1 DEF gd, Output
      <4>2. gd \o left \in Seq(Token) /\ Len(gd \o left) = Len(gd) + Len(left)
        BY <4>1
      <4> QED
        BY <4>2 DEF gd
    <3>3. z \in Seq(Token) /\ Len(z) = Len(g) + Len(s)
      BY DEF Output
    <3> HIDE DEF y, z
    <3> QED
      BY <1>1, <3>1, <3>2, <3>3 DEF Output
  <2>2. \A i \in 1 .. Len(g) + Len(s) : y[i] = z[i]
    <3>1. SUFFICES ASSUME NEW i \in 1 .. Len(g) + Len(s) PROVE y[i] = z[i]
      OBVIOUS
    <3>2. i \in Nat /\ i >= 1
      BY <2>1
    <3>3. CASE i <= Len(g)
      BY <1>1, <2>1, <3>2, <3>3 DEF Output
    <3>4. CASE i > Len(g) /\ i <= Len(g) + k
      <4>1. z[i] = s[i - Len(g)]
        BY <1>1, <2>1, <3>2, <3>4 DEF Output
      <4>2. y[i] = data[i - Len(g)]
        BY <1>1, <2>1, <3>2, <3>4, SMTT(60) DEF Output
      <4>3. i - Len(g) \in 1 .. k
        BY <1>1, <2>1, <3>2, <3>4
      <4> QED
        BY <1>1, <4>1, <4>2, <4>3
    <3>5. CASE i > Len(g) + k
      <4>1. z[i] = s[i - Len(g)]
        BY <1>1, <2>1, <3>2, <3>5 DEF Output
      <4>2. y[i] = left[i - Len(g) - k]
        BY <1>1, <2>1, <3>2, <3>5, SMTT(60) DEF Output
      <4>3. i - Len(g) - k \in 1 .. Len(s) - k /\ k + (i - Len(g) - k) = i - Len(g)
        BY <1>1, <2>1, <3>1, <3>2, <3>5
      <4> QED
        BY <1>1, <4>1, <4>2, <4>3
    <3> QED
      BY <1>1, <2>1, <3>2, <3>3, <3>4, <3>5, SMTT(60)
  <2> HIDE DEF y, z
  <2>3. y = z
    BY <2>1, <2>2
  <2> QED
    BY <2>1, <2>3 DEF y, z
<1>3. Len(data) >= 1
  BY <1>1
<1> QED
  BY <1>1, <1>2, <1>3 DEF data, left

LEMMA HasBoth ==
  ASSUME NEW g \in Output, NEW d \in Output, NEW w
  PROVE  Has(g \o d, w) <=> Has(g, w) \/ Has(d, w)
<1>1. /\ DOMAIN (g \o d) = 1 .. Len(g) + Len(d) /\ Len(g) \in Nat /\ Len(d) \in Nat
      /\ DOMAIN g = 1 .. Len(g) /\ DOMAIN d = 1 .. Len(d)
      /\ \A i \in 1 .. Len(g) : (g \o d)[i] = g[i]
      /\ \A i \in 1 .. Len(d) : (g \o d)[Len(g) + i] = d[i]
  BY DEF Output
<1> DEFINE h == g \o d
           m == Len(g)
           n == Len(d)
<1> HIDE DEF h, m, n
<1>2. ASSUME NEW i \in 1 .. m + n PROVE i \in 1 .. m \/ \E j \in 1 .. n : i = m + j
  <2>1. m \in Nat /\ n \in Nat
    BY <1>1 DEF m, n
  <2>2. CASE i > m
    <3>1. i - m \in 1 .. n /\ i = m + (i - m)
      BY <2>1, <2>2
    <3> QED
      BY <3>1
  <2> QED
    BY <2>1, <2>2
<1>3. /\ DOMAIN h = 1 .. m + n /\ m \in Nat /\ n \in Nat /\ DOMAIN g = 1 .. m /\ DOMAIN d = 1 .. n
      /\ \A i \in 1 .. m : h[i] = g[i]
      /\ \A i \in 1 .. n : h[m + i] = d[i]
  BY <1>1 DEF h, m, n
<1>4. \A i \in 1 .. m : i \in 1 .. m + n
  BY <1>3
<1>5. \A i \in 1 .. n : m + i \in 1 .. m + n
  BY <1>3
<1>6. ASSUME NEW i \in 1 .. m + n, h[i].t = w PROVE Has(g, w) \/ Has(d, w)
  <2>1. CASE i \in 1 .. m
    BY <1>3, <1>6, <2>1 DEF Has
  <2>2. CASE \E j \in 1 .. n : i = m + j
    BY <1>3, <1>6, <2>2 DEF Has
  <2> QED
    BY <1>2, <2>1, <2>2
<1>7. ASSUME NEW i \in 1 .. m, g[i].t = w PROVE Has(h, w)
  BY <1>3, <1>4, <1>7 DEF Has
<1>8. ASSUME NEW i \in 1 .. n, d[i].t = w PROVE Has(h, w)
  <2>1. m + i \in DOMAIN h /\ h[m + i].t = w
    BY <1>3, <1>5, <1>8
  <2> QED
    BY <2>1 DEF Has
<1>9. Has(h, w) <=> Has(g, w) \/ Has(d, w)
  BY <1>3, <1>6, <1>7, <1>8 DEF Has
<1> QED
  BY <1>9 DEF h

\* Every word of an output, but for what background jobs print, is of the reply.
LEMMA WordsOfReply ==
  ASSUME NEW r \in Output, NEW h \in Output, NEW k \in 0 .. Len(r),
         Carries(h, SubSeq(r, 1, k)), NEW j \in DOMAIN h, h[j].t # "late"
  PROVE  \E i \in 1 .. k : h[j] = r[i] /\ i \in 1 .. Len(r)
<1> DEFINE q == SubSeq(r, 1, k)
<1>1. Len(q) = k /\ DOMAIN q = 1 .. k /\ \A i \in 1 .. k : q[i] = r[i]
  BY WholeReply DEF Output
<1> HIDE DEF q
<1>2. PICK at \in [DOMAIN q -> DOMAIN h] :
        /\ \A i \in DOMAIN q : h[at[i]] = q[i]
        /\ \A i \in DOMAIN h : h[i].t = "late" \/ \E l \in DOMAIN q : at[l] = i
  BY DEF Carries, q
<1>3. PICK i \in DOMAIN q : at[i] = j
  BY <1>2
<1>4. i \in 1 .. Len(r)
  BY <1>1 DEF Output
<1> QED
  BY <1>1, <1>2, <1>3, <1>4

LEMMA MonitorTalks ==
  ASSUME NEW a \in Asked, NEW to \in Output, NEW s \in Output, NEW g \in Output, NEW p,
         Talk(TRUE, a, to, s, g, p), NEW k \in 1 .. Len(s)
  PROVE  LET data == SubSeq(s, 1, k)
         IN  Talk(~Completed(data), a, to, SubSeq(s, k + 1, Len(s)), g \o data,
                  IF Has(data, "pid") THEN PidIn(data) ELSE p)
<1> DEFINE r == Reply(a.kind, a.c)
           data == SubSeq(s, 1, k)
           left == SubSeq(s, k + 1, Len(s))
           new == IF Has(data, "pid") THEN PidIn(data) ELSE p
<1>1. a.c # 0 /\ Conversing(a, to, s, g, p)
  BY DEF Talk
<1>2. a.kind \in {"fg", "bg"} /\ a.c \in 1 .. MaxCmds
  BY <1>1, ListsHold DEF Asked, Lists
<1>3. /\ r \in Output /\ Len(r) \in Nat /\ Len(r) >= 2
      /\ \A i \in 1 .. Len(r) : r[i].c = a.c /\ (r[i].t = "prompt" <=> i = Len(r))
      /\ a.kind = "bg" => r[1].t = "pid"
  <2>1. /\ r \in Output /\ Len(r) \in Nat /\ Len(r) >= 2
        /\ \A i \in 1 .. Len(r) : /\ r[i].c = a.c
                                  /\ r[i].t = "prompt" <=> i = Len(r)
                                  /\ a.kind = "bg" /\ i = 1 => r[i].t = "pid"
    BY <1>2, ReplyIs, SMTT(60)
  <2> HIDE DEF r
  <2>2. 1 \in 1 .. Len(r)
    BY <2>1
  <2> QED
    BY <2>1, <2>2
<1>4. PICK n \in 0 .. Len(r) : to = SubSeq(r, n + 1, Len(r)) /\ Carries(g \o s, SubSeq(r, 1, n))
  BY <1>1 DEF Conversing
<1>5. ~Has(g, "prompt") /\ (a.kind = "bg" /\ Has(g, "pid") => p = a.c)
  BY <1>1 DEF Conversing
<1>6. /\ data \in Output /\ left \in Output /\ (g \o data) \o left = g \o s
      /\ g \o data \in Output /\ g \o s \in Output
  <2>1. g \o s \in Output
    BY DEF Output
  <2> QED
    BY <2>1, Reading
<1> HIDE DEF r, data, left
<1>7. Has(data, "pid") => PidIn(data) = a.c
  <2>1. SUFFICES ASSUME NEW j \in DOMAIN data, data[j].t = "pid" PROVE data[j].c = a.c
    BY DEF PidIn, Has
  <2>2. /\ j \in 1 .. k /\ data[j] = s[j] /\ j \in 1 .. Len(s) /\ Len(g) \in Nat /\ j \in Nat
    BY <2>1, SMTT(60) DEF data, Output
  <2>3. Len(g) + j \in DOMAIN (g \o s) /\ (g \o s)[Len(g) + j] = s[j]
    BY <2>2, SMTT(60) DEF Output
  <2>4. (g \o s)[Len(g) + j].t # "late"
    BY <2>1, <2>2, <2>3
  <2> DEFINE h == g \o s
             l == Len(g) + j
  <2>5. h \in Output /\ l \in DOMAIN h /\ h[l].t # "late" /\ Carries(h, SubSeq(r, 1, n)) /\ h[l] = s[j]
    BY <1>4, <1>6, <2>3, <2>4
  <2> HIDE DEF h, l
  <2>6. \E i \in 1 .. n : h[l] = r[i] /\ i \in 1 .. Len(r)
    BY <1>3, <2>5, WordsOfReply
  <2> QED
    BY <1>3, <2>2, <2>5, <2>6
<1>8. a.kind = "bg" /\ Has(g \o data, "pid") => new = a.c
  BY <1>5, <1>6, <1>7, HasBoth
<1> HIDE DEF new
<1>9. CASE ~Completed(data)
  <2>1. ~Has(g \o data, "prompt")
    BY <1>5, <1>6, <1>9, HasBoth DEF Completed
  <2>2. \E j \in 0 .. Len(r) : to = SubSeq(r, j + 1, Len(r)) /\ Carries((g \o data) \o left, SubSeq(r, 1, j))
    BY <1>4, <1>6
  <2>3. Conversing(a, to, left, g \o data, new)
    BY <1>8, <2>1, <2>2 DEF Conversing, r
  <2>4. Talk(~Completed(data), a, to, left, g \o data, new)
    BY <1>1, <1>9, <2>3 DEF Talk
  <2> QED
    BY <2>4 DEF data, left, new
<1>10. CASE Completed(data)
  <2> DEFINE q == SubSeq(r, 1, n)
  <2>1. q \in Output /\ Len(q) = n /\ DOMAIN q = 1 .. n /\ \A i \in 1 .. n : q[i] = r[i]
    BY <1>3, WholeReply DEF Output
  <2>2. Carries((g \o data) \o left, q)
    BY <1>4, <1>6
  <2> HIDE DEF q
  <2>3. \A i \in DOMAIN q : q[i].t = "prompt" => i = Len(q)
    <3>1. SUFFICES ASSUME NEW i \in 1 .. n, r[i].t = "prompt" PROVE i = n
      BY <2>1
    <3>2. i \in 1 .. Len(r)
      BY <1>3
    <3> QED
      BY <1>3, <3>1, <3>2
  <2>4. Has(g \o data, "prompt")
    BY <1>6, <1>10, HasBoth DEF Completed
  <2>5. Carries(g \o data, q) /\ Carries(left, <<>>)
    BY <1>6, <2>1, <2>2, <2>3, <2>4, CarriesCut
  <2>6. n = Len(r)
    <3>1. PICK j \in DOMAIN (g \o data) : (g \o data)[j].t = "prompt"
      BY <2>4 DEF Has
    <3> DEFINE h == g \o data
    <3>2. h \in Output /\ j \in DOMAIN h /\ h[j].t # "late" /\ Carries(h, SubSeq(r, 1, n)) /\ h[j].t = "prompt"
      BY <1>6, <2>5, <3>1 DEF q
    <3> HIDE DEF h
    <3>3. \E i \in 1 .. n : h[j] = r[i] /\ i \in 1 .. Len(r)
      BY <1>3, <3>2, WordsOfReply
    <3> QED
      BY <1>3, <3>2, <3>3
  <2>7. q = r
    BY <1>3, <2>6, WholeReply DEF q
  <2>8. to = <<>>
    BY <1>3, <1>4, <2>6 DEF Output
  <2>9. a.kind = "bg" => Has(g \o data, "pid")
    <3>1. SUFFICES ASSUME a.kind = "bg" PROVE Has(g \o data, "pid")
      OBVIOUS
    <3>2. PICK at \in [DOMAIN r -> DOMAIN (g \o data)] : \A i \in DOMAIN r : (g \o data)[at[i]] = r[i]
      BY <2>5, <2>7 DEF Carries
    <3>3. 1 \in DOMAIN r /\ r[1].t = "pid"
      BY <1>3, <3>1 DEF Output
    <3> QED
      BY <3>2, <3>3 DEF Has
  <2>10. Answered(a, to, left, g \o data, new)
    BY <1>8, <2>5, <2>7, <2>8, <2>9 DEF Answered, r
  <2>11. Talk(~Completed(data), a, to, left, g \o data, new)
    BY <1>10, <2>10 DEF Talk
  <2> QED
    BY <2>11 DEF data, left, new
<1> QED
  BY <1>9, <1>10

(***************************************************************************)
(* The steps.                                                              *)
(***************************************************************************)

KernelTypes ==
    /\ frozen \in Kinds /\ dilated \in Kinds /\ alive \in Kinds /\ hup \in Kinds
    /\ \A n \in Nodes : hup[n] /\ alive[n] => frozen[n]

ToolTypes ==
    /\ tool \in [Tools -> ToolState] /\ \A t \in Tools : tool[t].i \in DOMAIN Pids(t)
    /\ worker \in [Tools -> Threads]
    /\ fds \in [Tools -> 0..MaxFds] /\ cmds \in [Tools -> 0..MaxFds + 1]
    /\ since \in [Tools -> SUBSET Nodes]
    /\ tool["daemon"].op # "dilate"

PipeTypes ==
    /\ waiting \in Kinds
    /\ todo \in [Nodes -> Output] /\ chan \in [Nodes -> Output] /\ got \in [Nodes -> Output]
    /\ job \in [Nodes -> 0..MaxCmds] /\ lastPid \in [Nodes -> 0..MaxCmds]
    /\ asked \in [Nodes -> Asked]

Counted(c) == c \in [Counters -> Nat] /\ c["cmds"] <= MaxCmds

OtherTypes ==
    /\ fifo \in Seq({"p", "u"}) /\ py \in MininetState /\ Counted(count)
    /\ tool["cli"].pc \in {"create", "join"} => py.pc = "tool"

LEMMA TypesAre == TypeOK <=> KernelTypes /\ ToolTypes /\ PipeTypes /\ OtherTypes
BY DEF TypeOK, KernelTypes, ToolTypes, PipeTypes, OtherTypes, Kinds, Threads, Output, Asked, Counted

LEMMA TypesPrimed == TypeOK' <=> KernelTypes' /\ ToolTypes' /\ PipeTypes' /\ OtherTypes'
BY DEF TypeOK, KernelTypes, ToolTypes, PipeTypes, OtherTypes, Kinds, Threads, Output, Asked, Counted

Working == \A t \in Tools : ToolOK(t)

LEMMA ToolsFrame ==
  ASSUME ToolTypes, Working, UNCHANGED <<frozen, dilated, tools>>
  PROVE  ToolTypes' /\ Working'
BY DEF ToolTypes, Working, ToolOK, tools, Pids

LEMMA PipesFrame ==
  ASSUME PipeTypes, Talks, UNCHANGED pipes
  PROVE  PipeTypes' /\ Talks'
BY DEF PipeTypes, Talks, pipes

LEMMA KernelFrame == ASSUME KernelTypes, UNCHANGED kernel PROVE KernelTypes'
BY DEF KernelTypes, kernel

LEMMA SpendTyped ==
  ASSUME Counted(count), NEW what \in {"cmds", "faults", "others"}, Spend(what),
         what = "cmds" => count["cmds"] < MaxCmds
  PROVE  Counted(count')
<1>1. MaxCmds \in Nat
  BY ListsHold DEF Lists
<1>2. count' \in [Counters -> Nat]
  BY DEF Spend, Counted
<1>3. "cmds" \in Counters /\ count["cmds"] \in Nat
  BY DEF Counters, Counted
<1>4. count'["cmds"] = IF what = "cmds" THEN count["cmds"] + 1 ELSE count["cmds"]
  BY <1>3 DEF Spend
<1>5. count'["cmds"] <= MaxCmds
  BY <1>1, <1>3, <1>4 DEF Counted
<1> QED
  BY <1>2, <1>5 DEF Counted

LEMMA IInvParts ==
  ASSUME IInv
  PROVE  /\ KernelTypes /\ ToolTypes /\ PipeTypes /\ OtherTypes /\ Working /\ Attending /\ Talks
BY TypesAre DEF IInv, Working

LEMMA IInvPrimed ==
  ASSUME KernelTypes', ToolTypes', PipeTypes', OtherTypes', Working', Attending', Talks'
  PROVE  IInv'
BY TypesPrimed DEF IInv, Working

\* What there is to know of one tool.
LEMMA ToolIs ==
  ASSUME IInv, NEW t \in Tools
  PROVE  /\ tool[t] \in ToolState /\ worker[t] \in Threads
         /\ tool[t].i \in DOMAIN Processes(tool[t]) /\ Pids(t) = Processes(tool[t])
         /\ fds[t] \in 0 .. MaxFds /\ fds[t] \in Nat /\ cmds[t] \in 0 .. MaxFds + 1 /\ cmds[t] \in Nat
         /\ since[t] \in SUBSET Nodes /\ frozen \in Kinds /\ dilated \in Kinds
         /\ Works(tool[t], worker[t], cmds[t], fds[t], frozen, dilated, since[t])
         /\ tool[t].op = "dilate" => Hosts # <<>> /\ t = "cli"
<1>1. ToolTypes /\ KernelTypes /\ Working
  BY IInvParts
<1>2. MaxFds \in Nat
  BY ListsHold DEF Lists
<1>3. /\ tool[t] \in ToolState /\ worker[t] \in Threads /\ since[t] \in SUBSET Nodes
      /\ fds[t] \in 0 .. MaxFds /\ cmds[t] \in 0 .. MaxFds + 1
      /\ tool[t].i \in DOMAIN Pids(t)
  BY <1>1 DEF ToolTypes
<1>4. Pids(t) = Processes(tool[t])
  BY DEF Pids, Processes
<1>5. tool[t].op = "dilate" => Hosts # <<>> /\ t = "cli"
  <2>1. SUFFICES ASSUME tool[t].op = "dilate" PROVE Hosts # <<>> /\ t = "cli"
    OBVIOUS
  <2>2. tool[t].i \in 1 .. Len(Hosts)
    BY <1>3, <2>1, ListsHold DEF Pids, Lists
  <2> QED
    BY <1>1, <2>1, <2>2 DEF ToolTypes, Tools
<1> QED
  BY <1>1, <1>2, <1>3, <1>4, <1>5 DEF Working, ToolOK, KernelTypes

\* One tool goes on to y with threads u, and what else of it changes.
LEMMA OneTool ==
  ASSUME IInv, NEW t \in Tools, NEW y \in ToolState, y.i \in DOMAIN Processes(y),
         y.op = "dilate" => t = "cli",
         NEW u \in Threads, NEW k \in 0 .. MaxFds + 1, NEW d \in 0 .. MaxFds, NEW o \in SUBSET Nodes,
         tool' = [tool EXCEPT ![t] = y], worker' = [worker EXCEPT ![t] = u],
         cmds' = [cmds EXCEPT ![t] = k], fds' = [fds EXCEPT ![t] = d],
         since' = [since EXCEPT ![t] = o],
         UNCHANGED <<frozen, dilated>>, Works(y, u, k, d, frozen, dilated, o)
  PROVE  ToolTypes' /\ Working'
<1>1. ToolTypes /\ Working
  BY IInvParts
<1>2. /\ tool' \in [Tools -> ToolState] /\ worker' \in [Tools -> Threads]
      /\ cmds' \in [Tools -> 0 .. MaxFds + 1] /\ fds' \in [Tools -> 0 .. MaxFds]
      /\ since' \in [Tools -> SUBSET Nodes]
  BY <1>1 DEF ToolTypes
<1>3. /\ tool'[t] = y /\ worker'[t] = u /\ cmds'[t] = k /\ fds'[t] = d /\ since'[t] = o
      /\ \A s \in Tools \ {t} : /\ tool'[s] = tool[s] /\ worker'[s] = worker[s] /\ cmds'[s] = cmds[s]
                                /\ fds'[s] = fds[s] /\ since'[s] = since[s]
  BY <1>1 DEF ToolTypes
<1>4. \A s \in Tools : (Pids(s))' = Processes(tool'[s]) /\ Pids(s) = Processes(tool[s])
  BY DEF Pids, Processes
<1>5. ToolTypes'
  <2>1. \A s \in Tools : (tool[s].i \in DOMAIN Pids(s))'
    BY <1>1, <1>3, <1>4 DEF ToolTypes
  <2>2. tool["daemon"]'.op # "dilate"
    BY <1>1, <1>3 DEF ToolTypes, Tools
  <2> QED
    BY <1>2, <2>1, <2>2 DEF ToolTypes
<1>6. Working'
  <2>1. SUFFICES ASSUME NEW s \in Tools PROVE ToolOK(s)'
    BY DEF Working
  <2>2. CASE s = t
    BY <1>3, <2>2 DEF ToolOK
  <2>3. CASE s # t
    BY <1>1, <1>3, <2>3 DEF ToolOK, Working
  <2> QED
    BY <2>2, <2>3
<1> QED
  BY <1>5, <1>6

\* A turn of one of the loops.
LEMMA TurnIs ==
  ASSUME IInv, NEW t \in Tools, NEW next \in {"join", "read", "exited"}, Turn(t, next)
  PROVE  \E y \in ToolState : /\ tool' = [tool EXCEPT ![t] = y] /\ tool'[t] = y
                              /\ Turned(tool[t], y, next) /\ y.i \in DOMAIN Processes(y)
                              /\ y.op = tool[t].op
<1> DEFINE x == tool[t]
           n == Len(Processes(x))
           pc == IF x.i = n THEN next ELSE x.pc
           i == IF x.i = n THEN 1 ELSE x.i + 1
           y == [pc |-> pc, op |-> x.op, i |-> i]
<1>1. tool' = [tool EXCEPT ![t] = y]
  BY ToolIs DEF Turn
<1>2. x \in ToolState /\ n \in Nat /\ x.i \in 1 .. n /\ n <= Len(PidList)
  BY ToolIs, ProcessesAre
<1>3. i \in 1 .. n /\ i \in DOMAIN PidList
  BY <1>2, ListsHold, SMTT(60) DEF Lists
<1>4. pc \in {"off", "read", "create", "join", "exited", "failed"} /\ x.op \in {"p", "u", "dilate"}
  BY <1>2 DEF ToolState
<1>5. y \in ToolState /\ y.pc = pc /\ y.op = x.op /\ y.i = i
  BY <1>3, <1>4 DEF ToolState
<1> HIDE DEF y
<1>6. Processes(y) = Processes(x) /\ DOMAIN Processes(x) = 1 .. n
  BY <1>2, <1>5, ProcessesAre DEF Processes
<1>7. Turned(x, y, next) /\ y.i \in DOMAIN Processes(y)
  BY <1>3, <1>5, <1>6 DEF Turned
<1>8. tool'[t] = y
  BY <1>1, IInvParts DEF ToolTypes
<1> QED
  BY <1>1, <1>5, <1>7, <1>8

\* While py, its fifo and the bounds are left alone.
LEMMA OthersKept ==
  ASSUME IInv, UNCHANGED <<fifo, py>>, Counted(count'),
         Busy(tool'["cli"]) => Busy(tool["cli"])
  PROVE  OtherTypes'
<1>1. OtherTypes
  BY IInvParts
<1> QED
  BY <1>1 DEF OtherTypes, Busy

LEMMA AttendingKept ==
  ASSUME IInv, UNCHANGED <<py, waiting>>
  PROVE  Attending'
<1>1. Attending
  BY IInvParts
<1> QED
  BY <1>1 DEF Attending

LEMMA SameAt ==
  ASSUME IInv, NEW t \in Tools
  PROVE  /\ fds = [fds EXCEPT ![t] = fds[t]] /\ cmds = [cmds EXCEPT ![t] = cmds[t]]
         /\ since = [since EXCEPT ![t] = since[t]] /\ worker = [worker EXCEPT ![t] = worker[t]]
<1>1. ToolTypes
  BY IInvParts
<1> QED
  BY <1>1 DEF ToolTypes

\* A step of one tool that changes nothing but it and its threads.
LEMMA ToolMoves ==
  ASSUME IInv, NEW t \in Tools, NEW y \in ToolState, y.i \in DOMAIN Processes(y),
         y.op = "dilate" => t = "cli", Busy(y) => Busy(tool[t]),
         NEW u \in Threads, NEW k \in 0 .. MaxFds + 1, NEW d \in 0 .. MaxFds,
         tool' = [tool EXCEPT ![t] = y], worker' = [worker EXCEPT ![t] = u],
         cmds' = [cmds EXCEPT ![t] = k], fds' = [fds EXCEPT ![t] = d],
         UNCHANGED <<since, kernel, pipes, fifo, py>>, Counted(count'),
         Works(y, u, k, d, frozen, dilated, since[t])
  PROVE  IInv'
<1>1. /\ KernelTypes /\ PipeTypes /\ Talks /\ ToolTypes /\ UNCHANGED kernel /\ UNCHANGED pipes
      /\ UNCHANGED <<frozen, dilated>> /\ UNCHANGED <<fifo, py>> /\ UNCHANGED <<py, waiting>>
  BY IInvParts DEF kernel, pipes
<1>2. KernelTypes' /\ PipeTypes' /\ Talks'
  BY <1>1, KernelFrame, PipesFrame
<1>3. since' = [since EXCEPT ![t] = since[t]] /\ since[t] \in SUBSET Nodes
  BY <1>1, SameAt, ToolIs
<1>4. ToolTypes' /\ Working'
  BY <1>1, <1>3, OneTool
<1>5. Attending'
  BY <1>1, AttendingKept
<1>6. Busy(tool'["cli"]) => Busy(tool["cli"])
  <2>1. tool'["cli"] = IF t = "cli" THEN y ELSE tool["cli"]
    BY <1>1 DEF ToolTypes, Tools
  <2> QED
    BY <2>1
<1>7. OtherTypes'
  BY <1>1, <1>6, OthersKept
<1> QED
  BY <1>2, <1>4, <1>5, <1>7, IInvPrimed

LEMMA CountKept == ASSUME IInv, UNCHANGED count PROVE Counted(count')
<1>1. OtherTypes
  BY IInvParts
<1> QED
  BY <1>1 DEF OtherTypes

\* The threads of one tool are changed at i.
LEMMA ThreadSet ==
  ASSUME IInv, NEW t \in Tools, NEW i \in DOMAIN PidList, NEW what \in {"none", "new", "done"},
         worker' = [worker EXCEPT ![t][i] = what]
  PROVE  /\ [worker[t] EXCEPT ![i] = what] \in Threads
         /\ worker' = [worker EXCEPT ![t] = [worker[t] EXCEPT ![i] = what]]
<1>1. worker \in [Tools -> Threads]
  BY IInvParts DEF ToolTypes
<1>2. [worker[t] EXCEPT ![i] = what] \in Threads
  BY <1>1 DEF Threads
<1> QED
  BY <1>1, <1>2

LEMMA CreateKeeps == ASSUME IInv, NEW t \in Tools, Create(t) PROVE IInv'
<1> DEFINE x == tool[t]
           u == [worker[t] EXCEPT ![x.i] = "new"]
<1>1. PICK y \in ToolState : /\ tool' = [tool EXCEPT ![t] = y]
                             /\ Turned(x, y, "join") /\ y.i \in DOMAIN Processes(y) /\ y.op = x.op
  BY TurnIs DEF Create
<1>2. /\ x.i \in DOMAIN PidList /\ x \in ToolState /\ x.pc = "create" /\ x.i \in DOMAIN Processes(x)
      /\ x.op = "dilate" => t = "cli"
      /\ worker[t] \in Threads /\ cmds[t] \in 0 .. MaxFds + 1 /\ fds[t] \in 0 .. MaxFds
      /\ cmds[t] \in Nat /\ fds[t] \in Nat
      /\ Works(x, worker[t], cmds[t], fds[t], frozen, dilated, since[t])
  BY ToolIs DEF ToolState, Create
<1>3. u \in Threads /\ worker' = [worker EXCEPT ![t] = u]
  BY <1>2, ThreadSet DEF Create
<1>4. cmds' = [cmds EXCEPT ![t] = cmds[t]] /\ fds' = [fds EXCEPT ![t] = fds[t]]
  BY SameAt DEF Create
<1>5. UNCHANGED <<since, kernel, pipes, fifo, py>> /\ UNCHANGED count
  BY DEF Create
<1>6. Counted(count')
  BY <1>5, CountKept
<1> DEFINE v == worker[t]
<1>7. u = [v EXCEPT ![x.i] = "new"]
  OBVIOUS
<1> HIDE DEF u, x, v
<1>8. Works(y, u, cmds[t], fds[t], frozen, dilated, since[t])
  BY <1>1, <1>2, <1>3, <1>7, CreateWorks DEF v
<1>9. y.op = "dilate" => t = "cli"
  BY <1>1, <1>2
<1>10. Busy(y) => Busy(x)
  BY <1>2 DEF Busy
<1> QED
  BY <1>1, <1>2, <1>3, <1>4, <1>5, <1>6, <1>8, <1>9, <1>10, ToolMoves DEF x

\* The tool has died.
LEMMA DiesKeeps ==
  ASSUME IInv, NEW t \in Tools, Dies(t), UNCHANGED <<since, kernel, pipes, fifo, py>>,
         NEW k \in 0 .. MaxFds + 1, cmds' = [cmds EXCEPT ![t] = k], UNCHANGED fds, Counted(count')
  PROVE  IInv'
<1> DEFINE x == tool[t]
           y == [x EXCEPT !.pc = "failed"]
<1>1. /\ x \in ToolState /\ fds[t] \in 0 .. MaxFds /\ x.i \in DOMAIN Processes(x)
      /\ x.op = "dilate" => t = "cli"
  BY ToolIs
<1>2. y \in ToolState /\ y.pc = "failed" /\ y.op = x.op /\ y.i = x.i
  BY <1>1 DEF ToolState
<1>3. tool' = [tool EXCEPT ![t] = y] /\ worker' = [worker EXCEPT ![t] = NoWorkers]
  BY IInvParts DEF Dies, ToolTypes
<1>4. fds' = [fds EXCEPT ![t] = fds[t]]
  BY SameAt
<1> HIDE DEF y
<1>5. NoWorkers \in Threads
  BY DEF NoWorkers, Threads
<1>6. Works(y, NoWorkers, k, fds[t], frozen, dilated, since[t])
  BY <1>2, DeadWorks
<1>7. y.i \in DOMAIN Processes(y) /\ (y.op = "dilate" => t = "cli") /\ ~Busy(y)
  BY <1>1, <1>2 DEF Processes, Busy
<1> QED
  BY <1>1, <1>2, <1>3, <1>4, <1>5, <1>6, <1>7, ToolMoves

LEMMA CreateFailsKeeps == ASSUME IInv, NEW t \in Tools, CreateFails(t) PROVE IInv'
<1>1. Counted(count')
  <2>1. Counted(count)
    BY IInvParts DEF OtherTypes
  <2>2. Spend("faults")
    BY DEF CreateFails
  <2> QED
    BY <2>1, <2>2, SpendTyped
<1>2. UNCHANGED <<since, kernel, pipes, fifo, py>> /\ UNCHANGED fds /\ UNCHANGED cmds
  BY DEF CreateFails
<1>3. /\ cmds' = [cmds EXCEPT ![t] = cmds[t]] /\ fds' = [fds EXCEPT ![t] = fds[t]]
      /\ cmds[t] \in 0 .. MaxFds + 1
  BY <1>2, SameAt, ToolIs
<1>4. CASE Dies(t)
  BY <1>1, <1>2, <1>3, <1>4, DiesKeeps
<1>5. CASE tool[t].op # "dilate" /\ Turn(t, "join") /\ UNCHANGED worker
  <2> DEFINE x == tool[t]
             v == worker[t]
  <2>1. PICK y \in ToolState : /\ tool' = [tool EXCEPT ![t] = y]
                               /\ Turned(x, y, "join") /\ y.i \in DOMAIN Processes(y) /\ y.op = x.op
    BY <1>5, TurnIs
  <2>2. /\ x \in ToolState /\ x.pc = "create" /\ x.i \in DOMAIN Processes(x) /\ x.op # "dilate"
        /\ v \in Threads /\ cmds[t] \in 0 .. MaxFds + 1 /\ fds[t] \in 0 .. MaxFds
        /\ cmds[t] \in Nat /\ fds[t] \in Nat
        /\ Works(x, v, cmds[t], fds[t], frozen, dilated, since[t])
    BY <1>5, ToolIs DEF CreateFails
  <2>3. worker' = [worker EXCEPT ![t] = v]
    BY <1>5, SameAt
  <2> HIDE DEF x, v
  <2>4. Works(y, v, cmds[t], fds[t], frozen, dilated, since[t])
    BY <2>1, <2>2, CreateWorks
  <2>5. y.op # "dilate" /\ Busy(x)
    BY <2>1, <2>2 DEF Busy
  <2> QED
    BY <1>1, <1>2, <1>3, <2>1, <2>2, <2>3, <2>4, <2>5, ToolMoves DEF x
<1> QED
  BY <1>4, <1>5 DEF CreateFails

LEMMA JoinKeeps == ASSUME IInv, NEW t \in Tools, Join(t) PROVE IInv'
<1> DEFINE x == tool[t]
           v == worker[t]
           next == Returned(t)
           k == IF tool'[t].pc = next /\ cmds[t] <= MaxFds THEN cmds[t] + 1 ELSE cmds[t]
<1>1. Counted(count')
  BY CountKept DEF Join
<1>2. UNCHANGED <<since, kernel, pipes, fifo, py>> /\ UNCHANGED fds
  BY DEF Join
<1>3. /\ x \in ToolState /\ x.pc = "join" /\ x.i \in DOMAIN Processes(x)
      /\ x.op = "dilate" => t = "cli"
      /\ v \in Threads /\ cmds[t] \in 0 .. MaxFds + 1 /\ fds[t] \in 0 .. MaxFds
      /\ cmds[t] \in Nat /\ fds[t] \in Nat /\ frozen \in Kinds /\ dilated \in Kinds
      /\ Works(x, v, cmds[t], fds[t], frozen, dilated, since[t])
      /\ x.i \in DOMAIN PidList
  BY ToolIs DEF Join, ToolState
<1>4. k \in 0 .. MaxFds + 1 /\ cmds' = [cmds EXCEPT ![t] = k]
  <2>1. cmds \in [Tools -> 0 .. MaxFds + 1] /\ MaxFds \in Nat
    BY IInvParts, ListsHold DEF ToolTypes, Lists
  <2>2. k \in 0 .. MaxFds + 1
    BY <1>3, <2>1
  <2>3. cmds' = [cmds EXCEPT ![t] = k]
    BY <2>1 DEF Join, Complete
  <2> QED
    BY <2>2, <2>3
<1>5. fds' = [fds EXCEPT ![t] = fds[t]]
  BY <1>2, SameAt
<1>6. CASE Dies(t)
  <2> HIDE DEF k
  <2> QED
    BY <1>1, <1>2, <1>4, <1>6, DiesKeeps
<1>7. CASE /\ worker[t][tool[t].i] = "done" /\ Turn(t, Returned(t))
           /\ worker' = [worker EXCEPT ![t][tool[t].i] = "none"]
  <2> DEFINE u == [v EXCEPT ![x.i] = "none"]
  <2>1. next \in {"read", "exited"}
    BY DEF Returned
  <2>2. PICK y \in ToolState : /\ tool' = [tool EXCEPT ![t] = y] /\ tool'[t] = y
                               /\ Turned(x, y, next) /\ y.i \in DOMAIN Processes(y) /\ y.op = x.op
    BY <1>7, <2>1, TurnIs
  <2>3. u \in Threads /\ worker' = [worker EXCEPT ![t] = u]
    BY <1>3, <1>7, ThreadSet
  <2>4. CommandCounted(y, next, cmds[t], k)
    BY <2>2 DEF CommandCounted
  <2>5. Joined(x, v, u)
    BY <1>7 DEF Joined
  <2> HIDE DEF x, v, u, k, next
  <2> PICK l : l = k
    OBVIOUS
  <2>6. Works(y, u, l, fds[t], frozen, dilated, since[t])
    BY <1>3, <2>1, <2>2, <2>3, <2>4, <2>5, JoinWorks
  <2>7. (y.op = "dilate" => t = "cli") /\ Busy(x)
    BY <1>3, <2>2 DEF Busy
  <2> QED
    BY <1>1, <1>2, <1>3, <1>4, <1>5, <2>2, <2>3, <2>6, <2>7, ToolMoves DEF x
<1> QED
  BY <1>6, <1>7 DEF Join

LEMMA WriteFieldKeeps ==
  ASSUME IInv, NEW t \in Tools, NEW i \in DOMAIN PidList, WriteField(t, i)
  PROVE  IInv'
<1> DEFINE x == tool[t]
           v == worker[t]
           u == [v EXCEPT ![i] = "done"]
           n == Target(x, i)
<1>1. /\ x \in ToolState /\ x.i \in DOMAIN Processes(x) /\ v \in Threads
      /\ cmds[t] \in Nat /\ fds[t] \in Nat /\ fds[t] \in 0 .. MaxFds /\ frozen \in Kinds /\ dilated \in Kinds
      /\ Works(x, v, cmds[t], fds[t], frozen, dilated, since[t])
  BY ToolIs
<1>2. Argument(t, i) = n
  BY DEF Argument, Target
<1>3. /\ v[i] = "new" /\ fds[t] < MaxFds /\ fds' = [fds EXCEPT ![t] = @ + 1]
      /\ UNCHANGED <<tool, cmds>> /\ UNCHANGED pipes /\ UNCHANGED <<fifo, py>> /\ UNCHANGED count
      /\ since' = [s \in Tools |-> IF s = t THEN since[s] ELSE since[s] \cup {n}]
      /\ IF x.op = "dilate" THEN DilationWrite(n) ELSE FreezeWrite(n, x.op)
  BY <1>2 DEF WriteField
<1>4. u \in Threads /\ worker' = [worker EXCEPT ![t] = u]
  BY ThreadSet DEF WriteField
<1>5. KernelTypes /\ ToolTypes /\ Working /\ PipeTypes /\ Talks /\ MaxFds \in Nat
  BY IInvParts, ListsHold DEF Lists
<1>6. n \in Nodes
  <2>1. Threaded(x, v) /\ v[i] # "none"
    BY <1>1, <1>3 DEF Works
  <2> HIDE DEF x, v, n
  <2> QED
    BY <1>1, <2>1, TargetIs DEF n
<1>7. x.op \in {"p", "u", "dilate"}
  BY <1>1 DEF ToolState
<1>8. u = [v EXCEPT ![i] = "done"]
  OBVIOUS
<1>9. WriteEffect(x, i, frozen, dilated, frozen', dilated')
  BY <1>3 DEF WriteEffect, DilationWrite, FreezeWrite
<1> HIDE DEF n, u
<1>10. KernelTypes'
  <2>1. CASE x.op = "dilate"
    BY <1>3, <1>5, <1>6, <2>1 DEF DilationWrite, KernelTypes, Kinds
  <2>2. CASE x.op # "dilate"
    <3>1. /\ frozen' = [frozen EXCEPT ![n] = (x.op = "p")] /\ UNCHANGED <<dilated, hup>>
          /\ alive' = [alive EXCEPT ![n] = @ /\ ~(x.op = "u" /\ hup[n])]
          /\ x.op \in {"p", "u"}
      BY <1>3, <1>7, <2>2 DEF FreezeWrite
    <3> DEFINE fz == (x.op = "p")
               al == alive[n] /\ ~(x.op = "u" /\ hup[n])
    <3>2. fz \in BOOLEAN /\ al \in BOOLEAN /\ frozen' = [frozen EXCEPT ![n] = fz]
          /\ alive' = [alive EXCEPT ![n] = al] /\ (hup[n] /\ al => fz)
      BY <1>5, <1>6, <3>1 DEF KernelTypes, Kinds
    <3> HIDE DEF fz, al
    <3> QED
      BY <1>5, <1>6, <3>1, <3>2 DEF KernelTypes, Kinds
  <2> QED
    BY <2>1, <2>2
<1>11. ToolTypes'
  <2>1. fds[t] + 1 \in 0 .. MaxFds
    BY <1>1, <1>3, <1>5
  <2>2. fds' \in [Tools -> 0 .. MaxFds] /\ worker' \in [Tools -> Threads]
    BY <1>3, <1>4, <1>5, <2>1 DEF ToolTypes
  <2>3. since' \in [Tools -> SUBSET Nodes]
    BY <1>3, <1>5, <1>6 DEF ToolTypes
  <2> QED
    BY <1>3, <1>5, <2>2, <2>3 DEF ToolTypes, Pids
<1>12. Working'
  <2>1. SUFFICES ASSUME NEW s \in Tools PROVE ToolOK(s)'
    BY DEF Working
  <2>2. CASE s = t
    <3>1. /\ tool'[s] = x /\ worker'[s] = u /\ cmds'[s] = cmds[t] /\ fds'[s] = fds[t] + 1
          /\ since'[s] = since[t]
      BY <1>3, <1>4, <1>5, <2>2 DEF ToolTypes
    <3> HIDE DEF x, v
    <3> DEFINE h == frozen'
               e == dilated'
    <3>2. PICK f2, g2 : f2 = h /\ g2 = e
      OBVIOUS
    <3>3. WriteEffect(x, i, frozen, dilated, f2, g2)
      BY <1>9, <3>2
    <3>4. Works(x, u, cmds[t], fds[t] + 1, f2, g2, since[t])
      BY <1>1, <1>3, <1>4, <1>8, <3>3, WriteWorks
    <3> QED
      BY <3>1, <3>2, <3>4 DEF ToolOK
  <2>3. CASE s # t
    <3> DEFINE y == tool[s]
               z == worker[s]
    <3>1. /\ y \in ToolState /\ cmds[s] \in Nat /\ fds[s] \in Nat
          /\ Works(y, z, cmds[s], fds[s], frozen, dilated, since[s])
          /\ z \in Threads
          /\ y.op = "dilate" => Hosts # <<>>
      BY ToolIs
    <3>2. /\ tool'[s] = y /\ worker'[s] = z /\ cmds'[s] = cmds[s] /\ fds'[s] = fds[s]
          /\ since'[s] = since[s] \cup {n}
      BY <1>3, <1>4, <1>5, <2>3 DEF ToolTypes
    <3>3. PICK f2, g2 : f2 = frozen' /\ g2 = dilated'
      OBVIOUS
    <3>4. \A m \in Nodes : (m # n => f2[m] = frozen[m]) /\ (dilated[m] => g2[m])
      BY <1>1, <1>3, <1>6, <3>3 DEF DilationWrite, FreezeWrite, Kinds
    <3> HIDE DEF y, z
    <3>5. Works(y, z, cmds[s], fds[s], f2, g2, since[s] \cup {n})
      BY <1>1, <1>6, <3>1, <3>4, OthersWork
    <3> QED
      BY <3>2, <3>3, <3>5 DEF ToolOK
  <2> QED
    BY <2>2, <2>3
<1>13. PipeTypes' /\ Talks'
  BY <1>3, <1>5, PipesFrame
<1>14. Counted(count') /\ UNCHANGED <<py, waiting>>
  BY <1>3, CountKept DEF pipes
<1>15. OtherTypes' /\ Attending'
  BY <1>3, <1>14, OthersKept, AttendingKept
<1> QED
  BY <1>10, <1>11, <1>12, <1>13, <1>15, IInvPrimed

LEMMA OutOfFilesKeeps ==
  ASSUME IInv, NEW t \in Tools, NEW i \in DOMAIN PidList, OutOfFiles(t, i)
  PROVE  IInv'
<1> DEFINE x == tool[t]
           v == worker[t]
           u == [v EXCEPT ![i] = "done"]
<1>1. /\ x \in ToolState /\ x.i \in DOMAIN Processes(x) /\ v \in Threads
      /\ (x.op = "dilate" => t = "cli") /\ cmds[t] \in 0 .. MaxFds + 1
      /\ cmds[t] \in Nat /\ fds[t] = MaxFds /\ MaxFds \in 0 .. MaxFds
      /\ Works(x, v, cmds[t], MaxFds, frozen, dilated, since[t])
  BY ToolIs DEF OutOfFiles
<1>2. v[i] = "new" /\ UNCHANGED <<since, kernel, pipes, fifo, py>> /\ UNCHANGED <<tool, fds, cmds, count>>
  BY DEF OutOfFiles
<1>3. u \in Threads /\ worker' = [worker EXCEPT ![t] = u]
  BY ThreadSet DEF OutOfFiles
<1>4. /\ tool' = [tool EXCEPT ![t] = x] /\ fds' = [fds EXCEPT ![t] = MaxFds]
      /\ cmds' = [cmds EXCEPT ![t] = cmds[t]] /\ Counted(count')
  BY <1>1, <1>2, SameAt, CountKept, IInvParts DEF ToolTypes
<1>5. u = [v EXCEPT ![i] = "done"]
  OBVIOUS
<1> HIDE DEF x, v, u
<1>6. Works(x, u, cmds[t], MaxFds, frozen, dilated, since[t])
  BY <1>1, <1>2, <1>3, <1>5, OutOfFilesWorks
<1> QED
  BY <1>1, <1>2, <1>3, <1>4, <1>6, ToolMoves DEF x

\* A tool t that does nothing begins its loop, with k commands and d descriptors
\* behind it.
LEMMA KickoffKeeps ==
  ASSUME IInv, NEW t \in Tools, NEW op \in {"p", "u", "dilate"}, Kickoff(t, op),
         op = "dilate" => t = "cli" /\ Hosts # <<>>,
         NEW k \in 0 .. MaxFds + 1, NEW d \in 0 .. MaxFds, k > MaxFds \/ d <= k * Len(PidList),
         cmds' = [cmds EXCEPT ![t] = k], fds' = [fds EXCEPT ![t] = d],
         UNCHANGED kernel, UNCHANGED pipes
  PROVE  KernelTypes' /\ ToolTypes' /\ Working' /\ PipeTypes' /\ Talks'
<1> DEFINE y == [pc |-> "create", op |-> op, i |-> 1]
<1>1. /\ tool' = [tool EXCEPT ![t] = y] /\ worker' = [worker EXCEPT ![t] = NoWorkers]
      /\ since' = [since EXCEPT ![t] = {}]
  BY DEF Kickoff
<1>2. y \in ToolState /\ y.pc = "create" /\ y.op = op /\ y.i = 1
  BY ListsHold DEF ToolState, Lists
<1> HIDE DEF y
<1>3. y.i \in DOMAIN Processes(y)
  <2>1. CASE op # "dilate"
    BY <1>2, <2>1, ListsHold DEF Processes, Lists
  <2>2. CASE op = "dilate"
    <3>1. Len(Hosts) \in Nat /\ Len(Hosts) # 0
      BY <2>2, ListsHold DEF Lists
    <3> QED
      BY <1>2, <2>2, <3>1, ListsHold DEF Processes, Lists
  <2> QED
    BY <2>1, <2>2
<1>4. NoWorkers \in Threads /\ {} \in SUBSET Nodes /\ UNCHANGED <<frozen, dilated>>
  BY DEF NoWorkers, Threads, kernel
<1>5. k \in Nat /\ d \in Nat
  BY ListsHold DEF Lists
<1>6. Works(y, NoWorkers, k, d, frozen, dilated, {})
  BY <1>2, <1>5, KickoffWorks
<1>7. ToolTypes' /\ Working'
  BY <1>1, <1>2, <1>3, <1>4, <1>6, OneTool
<1>8. KernelTypes' /\ PipeTypes' /\ Talks'
  BY IInvParts, KernelFrame, PipesFrame
<1> QED
  BY <1>7, <1>8

LEMMA DaemonReadKeeps == ASSUME IInv, DaemonRead PROVE IInv'
<1> DEFINE t == "daemon"
<1>1. /\ t \in Tools /\ fifo \in Seq({"p", "u"}) /\ fifo # <<>> /\ Counted(count) /\ py \in MininetState
      /\ tool["cli"].pc \in {"create", "join"} => py.pc = "tool"
  BY IInvParts DEF OtherTypes, Tools, DaemonRead
<1>2. Head(fifo) \in {"p", "u"} /\ Tail(fifo) \in Seq({"p", "u"})
  BY <1>1
<1>3. /\ Kickoff(t, Head(fifo)) /\ fifo' = Tail(fifo) /\ tool[t].pc = "read"
      /\ UNCHANGED <<fds, cmds>> /\ UNCHANGED kernel /\ UNCHANGED pipes /\ UNCHANGED <<py, count>>
  BY DEF DaemonRead
<1>4. /\ cmds[t] \in 0 .. MaxFds + 1 /\ fds[t] \in 0 .. MaxFds
      /\ Works(tool[t], worker[t], cmds[t], fds[t], frozen, dilated, since[t])
  BY <1>1, ToolIs
<1>5. cmds[t] > MaxFds \/ fds[t] <= cmds[t] * Len(PidList)
  BY <1>3, <1>4 DEF Works, Budgeted, Busy
<1>6. cmds' = [cmds EXCEPT ![t] = cmds[t]] /\ fds' = [fds EXCEPT ![t] = fds[t]]
  BY <1>1, <1>3, SameAt
<1>7. tool'["cli"] = tool["cli"]
  BY <1>3, IInvParts DEF Kickoff, ToolTypes, Tools
<1>8. OtherTypes'
  BY <1>1, <1>2, <1>3, <1>7 DEF OtherTypes
<1>9. Head(fifo) \in {"p", "u", "dilate"} /\ Head(fifo) # "dilate"
  BY <1>2
<1> HIDE DEF t
<1>10. KernelTypes' /\ ToolTypes' /\ Working' /\ PipeTypes' /\ Talks'
  BY <1>1, <1>3, <1>4, <1>5, <1>6, <1>9, KickoffKeeps
<1>11. Attending'
  BY <1>3, AttendingKept DEF pipes
<1> QED
  BY <1>8, <1>10, <1>11, IInvPrimed

LEMMA RunToolKeeps ==
  ASSUME IInv, NEW op \in {"p", "u", "dilate"}, RunTool(op)
  PROVE  IInv'
<1> DEFINE t == "cli"
<1>1. /\ t \in Tools /\ fifo \in Seq({"p", "u"}) /\ Counted(count)
  BY IInvParts DEF OtherTypes, Tools
<1>2. /\ Kickoff(t, op) /\ (op = "dilate" => t = "cli" /\ Hosts # <<>>)
      /\ fds' = [fds EXCEPT ![t] = 0] /\ cmds' = [cmds EXCEPT ![t] = 0]
      /\ py' = [pc |-> "tool"] /\ UNCHANGED kernel /\ UNCHANGED pipes /\ UNCHANGED fifo
      /\ Spend("others")
  BY DEF RunTool
<1>3. 0 \in 0 .. MaxFds + 1 /\ 0 \in 0 .. MaxFds /\ 0 <= 0 * Len(PidList)
  BY ListsHold DEF Lists
<1>4. KernelTypes' /\ ToolTypes' /\ Working' /\ PipeTypes' /\ Talks'
  BY <1>1, <1>2, <1>3, KickoffKeeps
<1>5. Counted(count')
  BY <1>1, <1>2, SpendTyped
<1>6. py'.pc = "tool" /\ py' \in MininetState
  BY <1>2 DEF MininetState
<1>7. OtherTypes' /\ Attending'
  BY <1>1, <1>2, <1>5, <1>6 DEF OtherTypes, Attending
<1> QED
  BY <1>4, <1>7, IInvPrimed

LEMMA FifoWriteKeeps ==
  ASSUME IInv, NEW byte \in {"p", "u"}, FifoWrite(byte)
  PROVE  IInv'
<1>1. /\ KernelTypes /\ ToolTypes /\ Working /\ PipeTypes /\ Talks /\ OtherTypes
      /\ UNCHANGED kernel /\ UNCHANGED tools /\ UNCHANGED pipes /\ UNCHANGED <<py, waiting>>
      /\ UNCHANGED <<frozen, dilated, tools>>
  BY IInvParts DEF FifoWrite, kernel, pipes
<1>2. KernelTypes' /\ ToolTypes' /\ Working' /\ PipeTypes' /\ Talks' /\ Attending'
  BY <1>1, KernelFrame, ToolsFrame, PipesFrame, AttendingKept
<1>3. Counted(count')
  BY <1>1, SpendTyped DEF FifoWrite, OtherTypes
<1>4. fifo' \in Seq({"p", "u"})
  BY <1>1 DEF FifoWrite, OtherTypes
<1>5. OtherTypes'
  BY <1>1, <1>3, <1>4 DEF OtherTypes, tools
<1> QED
  BY <1>2, <1>5, IInvPrimed

LEMMA ToolReturnsKeeps == ASSUME IInv, ToolReturns PROVE IInv'
<1>1. /\ KernelTypes /\ ToolTypes /\ Working /\ PipeTypes /\ Talks /\ OtherTypes
      /\ UNCHANGED kernel /\ UNCHANGED tools /\ UNCHANGED pipes /\ UNCHANGED <<fifo, count>>
      /\ UNCHANGED <<frozen, dilated, tools>>
  BY IInvParts DEF ToolReturns, kernel, pipes
<1>2. KernelTypes' /\ ToolTypes' /\ Working' /\ PipeTypes' /\ Talks'
  BY <1>1, KernelFrame, ToolsFrame, PipesFrame
<1>3. py' = [pc |-> IF tool["cli"].pc = "exited" THEN "idle" ELSE "done"]
      /\ tool["cli"].pc \in {"exited", "failed"} /\ tool' = tool
  BY <1>1 DEF ToolReturns, tools
<1>4. py' \in MininetState /\ py'.pc \in {"idle", "done"}
  BY <1>3 DEF MininetState
<1>5. OtherTypes' /\ Attending'
  BY <1>1, <1>3, <1>4 DEF OtherTypes, Attending
<1> QED
  BY <1>2, <1>5, IInvPrimed

LEMMA TerminateKeeps == ASSUME IInv, NEW n \in Nodes, Terminate(n) PROVE IInv'
<1>1. /\ KernelTypes /\ ToolTypes /\ Working /\ PipeTypes /\ Talks /\ OtherTypes
      /\ UNCHANGED tools /\ UNCHANGED pipes /\ UNCHANGED <<fifo, count>>
      /\ UNCHANGED <<frozen, dilated, tools>>
  BY IInvParts DEF Terminate
<1>2. ToolTypes' /\ Working' /\ PipeTypes' /\ Talks'
  BY <1>1, ToolsFrame, PipesFrame
<1>3. KernelTypes'
  BY <1>1 DEF Terminate, KernelTypes, Kinds
<1>4. py.pc \in {"idle", "stop"} /\ tool' = tool
      /\ py' = [pc |-> IF \A m \in Nodes \ {n} : ~alive[m] \/ hup[m] THEN "done" ELSE "stop"]
  BY <1>1 DEF Terminate, tools
<1>5. py' \in MininetState /\ py'.pc \in {"stop", "done"}
  BY <1>4 DEF MininetState
<1>6. OtherTypes' /\ Attending'
  BY <1>1, <1>4, <1>5 DEF OtherTypes, Attending
<1> QED
  BY <1>2, <1>3, <1>6, IInvPrimed

LEMMA WaitOutputKeeps == ASSUME IInv, NEW n \in Nodes, WaitOutput(n) PROVE IInv'
<1>1. /\ KernelTypes /\ ToolTypes /\ Working /\ PipeTypes /\ Talks /\ OtherTypes
      /\ UNCHANGED kernel /\ UNCHANGED tools /\ UNCHANGED pipes /\ UNCHANGED <<fifo, count>>
      /\ UNCHANGED <<frozen, dilated, tools>>
  BY IInvParts DEF WaitOutput, kernel
<1>2. KernelTypes' /\ ToolTypes' /\ Working' /\ PipeTypes' /\ Talks'
  BY <1>1, KernelFrame, ToolsFrame, PipesFrame
<1>3. py.pc = "idle" /\ waiting[n] /\ waiting' = waiting /\ tool' = tool
      /\ py' = [pc |-> "wait", node |-> n]
  BY <1>1 DEF WaitOutput, Idle, tools, pipes
<1>4. py' \in MininetState /\ py'.pc = "wait" /\ py'.node = n
  BY <1>3 DEF MininetState
<1>5. OtherTypes' /\ Attending'
  BY <1>1, <1>3, <1>4 DEF OtherTypes, Attending
<1> QED
  BY <1>2, <1>5, IInvPrimed

\* What there is to know of the output of a node.
LEMMA NodeIs ==
  ASSUME IInv, NEW n \in Nodes
  PROVE  /\ waiting[n] \in BOOLEAN /\ asked[n] \in Asked /\ todo[n] \in Output /\ chan[n] \in Output
         /\ got[n] \in Output /\ lastPid[n] \in 0 .. MaxCmds /\ job[n] \in 0 .. MaxCmds
         /\ Talk(waiting[n], asked[n], todo[n], chan[n], got[n], lastPid[n])
BY IInvParts DEF PipeTypes, Talks, Kinds

\* The output of the node n alone moves on.
LEMMA OneNode ==
  ASSUME IInv, NEW n \in Nodes, NEW wt \in BOOLEAN, NEW a \in Asked, NEW to \in Output,
         NEW s \in Output, NEW g \in Output, NEW p \in 0 .. MaxCmds, NEW j \in 0 .. MaxCmds,
         waiting' = [waiting EXCEPT ![n] = wt], asked' = [asked EXCEPT ![n] = a],
         todo' = [todo EXCEPT ![n] = to], chan' = [chan EXCEPT ![n] = s],
         got' = [got EXCEPT ![n] = g], lastPid' = [lastPid EXCEPT ![n] = p],
         job' = [job EXCEPT ![n] = j], Talk(wt, a, to, s, g, p)
  PROVE  PipeTypes' /\ Talks'
<1>1. PipeTypes /\ Talks
  BY IInvParts
<1>2. PipeTypes'
  BY <1>1 DEF PipeTypes, Kinds
<1>3. /\ waiting'[n] = wt /\ asked'[n] = a /\ todo'[n] = to /\ chan'[n] = s /\ got'[n] = g
      /\ lastPid'[n] = p
      /\ \A m \in Nodes \ {n} : /\ waiting'[m] = waiting[m] /\ asked'[m] = asked[m]
                                /\ todo'[m] = todo[m] /\ chan'[m] = chan[m] /\ got'[m] = got[m]
                                /\ lastPid'[m] = lastPid[m]
  BY <1>1 DEF PipeTypes, Kinds
<1>4. Talks'
  <2>1. SUFFICES ASSUME NEW m \in Nodes
                 PROVE  Talk(waiting[m], asked[m], todo[m], chan[m], got[m], lastPid[m])'
    BY DEF Talks
  <2>2. CASE m = n
    BY <1>3, <2>2
  <2>3. CASE m # n
    BY <1>1, <1>3, <2>3 DEF Talks
  <2> QED
    BY <2>2, <2>3
<1> QED
  BY <1>2, <1>4

LEMMA SameOf ==
  ASSUME IInv, NEW n \in Nodes
  PROVE  /\ waiting = [waiting EXCEPT ![n] = waiting[n]] /\ asked = [asked EXCEPT ![n] = asked[n]]
         /\ todo = [todo EXCEPT ![n] = todo[n]] /\ got = [got EXCEPT ![n] = got[n]]
         /\ lastPid = [lastPid EXCEPT ![n] = lastPid[n]] /\ job = [job EXCEPT ![n] = job[n]]
<1>1. PipeTypes
  BY IInvParts
<1> QED
  BY <1>1 DEF PipeTypes, Kinds

LEMMA SendCmdKeeps ==
  ASSUME IInv, NEW n \in Nodes, NEW kind \in {"fg", "bg"}, SendCmd(n, kind)
  PROVE  IInv'
<1> DEFINE c == count["cmds"] + 1
           a == [kind |-> kind, c |-> c]
<1>1. /\ KernelTypes /\ ToolTypes /\ Working /\ OtherTypes
      /\ UNCHANGED kernel /\ UNCHANGED tools /\ UNCHANGED <<fifo, py>>
      /\ UNCHANGED <<frozen, dilated, tools>>
  BY IInvParts DEF SendCmd, kernel
<1>2. KernelTypes' /\ ToolTypes' /\ Working'
  BY <1>1, KernelFrame, ToolsFrame
<1>3. c \in 1 .. MaxCmds /\ count["cmds"] < MaxCmds
  BY <1>1, ListsHold DEF SendCmd, OtherTypes, Counted, Counters, Lists
<1>4. a \in Asked /\ a.kind = kind /\ a.c = c /\ a.c # 0
  BY <1>3 DEF Asked
<1>5. /\ todo' = [todo EXCEPT ![n] = Reply(kind, c)] /\ asked' = [asked EXCEPT ![n] = a]
      /\ lastPid' = [lastPid EXCEPT ![n] = 0] /\ waiting' = [waiting EXCEPT ![n] = TRUE]
      /\ got' = [got EXCEPT ![n] = <<>>] /\ UNCHANGED <<chan, job>> /\ ~waiting[n]
      /\ py.pc = "idle" /\ Spend("cmds")
  BY DEF SendCmd, Idle
<1>6. chan[n] \in Output /\ Carries(chan[n], <<>>) /\ job[n] \in 0 .. MaxCmds
  BY <1>5, NodeIs DEF Talk, Answered
<1>7. job' = [job EXCEPT ![n] = job[n]] /\ chan' = [chan EXCEPT ![n] = chan[n]]
  BY <1>5, SameOf, IInvParts DEF PipeTypes
<1>8. Reply(kind, c) \in Output /\ <<>> \in Output /\ 0 \in 0 .. MaxCmds
  BY <1>3, ReplyIs, ListsHold DEF Output, Lists
<1> HIDE DEF a, c
<1>9. Talk(TRUE, a, Reply(kind, c), chan[n], <<>>, 0)
  BY <1>4, <1>6, SendTalks
<1>10. PipeTypes' /\ Talks'
  BY <1>4, <1>5, <1>6, <1>7, <1>8, <1>9, OneNode
<1>11. Counted(count')
  BY <1>1, <1>3, <1>5, SpendTyped DEF OtherTypes
<1>12. OtherTypes' /\ Attending'
  BY <1>1, <1>5, <1>11 DEF OtherTypes, Attending, tools
<1> QED
  BY <1>2, <1>10, <1>12, IInvPrimed

LEMMA ShellWritesKeeps == ASSUME IInv, NEW n \in Nodes, ShellWrites(n) PROVE IInv'
<1> DEFINE to == todo[n]
           s == chan[n]
           s2 == Append(s, Head(to))
           j == IF Head(to).t = "pid" THEN Head(to).c ELSE job[n]
<1>1. /\ KernelTypes /\ ToolTypes /\ Working /\ OtherTypes
      /\ UNCHANGED kernel /\ UNCHANGED tools /\ UNCHANGED <<fifo, py>> /\ UNCHANGED count
      /\ UNCHANGED <<frozen, dilated, tools>> /\ UNCHANGED <<py, waiting>> /\ tool' = tool
  BY IInvParts DEF ShellWrites, kernel, tools
<1>2. KernelTypes' /\ ToolTypes' /\ Working'
  BY <1>1, KernelFrame, ToolsFrame
<1>3. /\ waiting[n] \in BOOLEAN /\ asked[n] \in Asked /\ to \in Output /\ s \in Output
      /\ got[n] \in Output /\ lastPid[n] \in 0 .. MaxCmds /\ job[n] \in 0 .. MaxCmds
      /\ Talk(waiting[n], asked[n], to, s, got[n], lastPid[n])
  BY NodeIs
<1>4. to # <<>> /\ UNCHANGED <<waiting, got, lastPid, asked>>
      /\ chan' = [chan EXCEPT ![n] = s2] /\ todo' = [todo EXCEPT ![n] = Tail(to)]
      /\ job' = [job EXCEPT ![n] = j]
  BY IInvParts DEF ShellWrites, PipeTypes
<1>5. Head(to) \in Token /\ Tail(to) \in Output
  BY <1>3, <1>4 DEF Output
<1>6. s2 \in Output /\ j \in 0 .. MaxCmds
  <2>1. Head(to).c \in 1 .. MaxCmds /\ MaxCmds \in Nat
    BY <1>5, ListsHold DEF Token, Lists
  <2> QED
    BY <1>3, <1>5, <2>1 DEF Output
<1>7. Talk(waiting[n], asked[n], Tail(to), s2, got[n], lastPid[n])
  <2> HIDE DEF to, s
  <2> QED
    BY <1>3, <1>4, ShellTalks
<1>8. /\ waiting' = [waiting EXCEPT ![n] = waiting[n]] /\ asked' = [asked EXCEPT ![n] = asked[n]]
      /\ got' = [got EXCEPT ![n] = got[n]] /\ lastPid' = [lastPid EXCEPT ![n] = lastPid[n]]
  BY <1>4, SameOf
<1> HIDE DEF to, s, s2, j
<1>9. PipeTypes' /\ Talks'
  <2> DEFINE wt == waiting[n]
             a == asked[n]
             g == got[n]
             p == lastPid[n]
             rest == Tail(to)
  <2>1. /\ wt \in BOOLEAN /\ a \in Asked /\ g \in Output /\ p \in 0 .. MaxCmds
        /\ rest \in Output /\ s2 \in Output /\ j \in 0 .. MaxCmds
        /\ Talk(wt, a, rest, s2, g, p)
    BY <1>3, <1>5, <1>6, <1>7
  <2>2. /\ waiting' = [waiting EXCEPT ![n] = wt] /\ asked' = [asked EXCEPT ![n] = a]
        /\ got' = [got EXCEPT ![n] = g] /\ lastPid' = [lastPid EXCEPT ![n] = p]
        /\ chan' = [chan EXCEPT ![n] = s2] /\ todo' = [todo EXCEPT ![n] = rest]
        /\ job' = [job EXCEPT ![n] = j]
    BY <1>4, <1>8
  <2> HIDE DEF wt, a, g, p, rest
  <2> QED
    BY <2>1, <2>2, OneNode
<1>10. OtherTypes' /\ Attending'
  BY <1>1, CountKept, OthersKept, AttendingKept
<1> QED
  BY <1>2, <1>9, <1>10, IInvPrimed

LEMMA JobWritesKeeps == ASSUME IInv, NEW n \in Nodes, JobWrites(n) PROVE IInv'
<1> DEFINE x == [t |-> "late", c |-> job[n]]
           s == chan[n]
           s2 == Append(s, x)
<1>1. /\ KernelTypes /\ ToolTypes /\ Working /\ OtherTypes
      /\ UNCHANGED kernel /\ UNCHANGED tools /\ UNCHANGED <<fifo, py>> /\ UNCHANGED count
      /\ UNCHANGED <<frozen, dilated, tools>> /\ UNCHANGED <<py, waiting>> /\ tool' = tool
  BY IInvParts DEF JobWrites, kernel, tools
<1>2. KernelTypes' /\ ToolTypes' /\ Working'
  BY <1>1, KernelFrame, ToolsFrame
<1>3. /\ waiting[n] \in BOOLEAN /\ asked[n] \in Asked /\ todo[n] \in Output /\ s \in Output
      /\ got[n] \in Output /\ lastPid[n] \in 0 .. MaxCmds /\ job[n] \in 0 .. MaxCmds
      /\ Talk(waiting[n], asked[n], todo[n], s, got[n], lastPid[n])
  BY NodeIs
<1>4. job[n] # 0 /\ UNCHANGED <<waiting, todo, got, lastPid, asked>>
      /\ chan' = [chan EXCEPT ![n] = s2] /\ job' = [job EXCEPT ![n] = 0]
  BY IInvParts DEF JobWrites, PipeTypes
<1>5. x \in Token /\ x.t = "late" /\ 0 \in 0 .. MaxCmds
  BY <1>3, <1>4, ListsHold DEF Token, Lists
<1>6. s2 \in Output
  <2> HIDE DEF s, x
  <2> QED
    BY <1>3, <1>5 DEF Output
<1>7. Talk(waiting[n], asked[n], todo[n], s2, got[n], lastPid[n])
  <2> HIDE DEF x, s
  <2> QED
    BY <1>3, <1>4, <1>5, JobTalks
<1>8. /\ waiting' = [waiting EXCEPT ![n] = waiting[n]] /\ asked' = [asked EXCEPT ![n] = asked[n]]
      /\ got' = [got EXCEPT ![n] = got[n]] /\ lastPid' = [lastPid EXCEPT ![n] = lastPid[n]]
      /\ todo' = [todo EXCEPT ![n] = todo[n]]
  BY <1>4, SameOf
<1> HIDE DEF x, s, s2
<1>9. PipeTypes' /\ Talks'
  <2> DEFINE wt == waiting[n]
             a == asked[n]
             g == got[n]
             p == lastPid[n]
             to == todo[n]
  <2>1. /\ wt \in BOOLEAN /\ a \in Asked /\ g \in Output /\ p \in 0 .. MaxCmds
        /\ to \in Output /\ s2 \in Output /\ 0 \in 0 .. MaxCmds
        /\ Talk(wt, a, to, s2, g, p)
    BY <1>3, <1>5, <1>6, <1>7
  <2>2. /\ waiting' = [waiting EXCEPT ![n] = wt] /\ asked' = [asked EXCEPT ![n] = a]
        /\ got' = [got EXCEPT ![n] = g] /\ lastPid' = [lastPid EXCEPT ![n] = p]
        /\ chan' = [chan EXCEPT ![n] = s2] /\ todo' = [todo EXCEPT ![n] = to]
        /\ job' = [job EXCEPT ![n] = 0]
    BY <1>4, <1>8
  <2> HIDE DEF wt, a, g, p, to
  <2> QED
    BY <2>1, <2>2, OneNode
<1>10. OtherTypes' /\ Attending'
  BY <1>1, CountKept, OthersKept, AttendingKept
<1> QED
  BY <1>2, <1>9, <1>10, IInvPrimed

LEMMA MonitorKeeps == ASSUME IInv, NEW n \in Nodes, Monitor(n) PROVE IInv'
<1>1. PICK k \in 1 .. Len(chan[n]) :
        LET data == SubSeq(chan[n], 1, k)
        IN  /\ chan' = [chan EXCEPT ![n] = SubSeq(@, k + 1, Len(@))]
            /\ got' = [got EXCEPT ![n] = @ \o data]
            /\ lastPid' = [lastPid EXCEPT ![n] = IF Has(data, "pid") THEN PidIn(data) ELSE @]
            /\ waiting' = [waiting EXCEPT ![n] = ~Completed(data)]
            /\ py' = IF Completed(data) THEN [pc |-> "idle"] ELSE py
  BY DEF Monitor
<1> DEFINE s == chan[n]
           data == SubSeq(s, 1, k)
           left == SubSeq(s, k + 1, Len(s))
           g == got[n] \o data
           p == IF Has(data, "pid") THEN PidIn(data) ELSE lastPid[n]
           wt == ~Completed(data)
<1>2. /\ KernelTypes /\ ToolTypes /\ Working /\ OtherTypes /\ PipeTypes /\ Attending
      /\ UNCHANGED kernel /\ UNCHANGED tools /\ UNCHANGED <<fifo, count, todo, job, asked>>
      /\ UNCHANGED <<frozen, dilated, tools>> /\ tool' = tool
      /\ py = [pc |-> "wait", node |-> n]
  BY IInvParts DEF Monitor, kernel, tools
<1>3. KernelTypes' /\ ToolTypes' /\ Working'
  BY <1>2, KernelFrame, ToolsFrame
<1>4. py.pc = "wait" /\ py.node = n /\ waiting[n]
  BY <1>2 DEF Attending
<1>5. /\ asked[n] \in Asked /\ todo[n] \in Output /\ s \in Output
      /\ got[n] \in Output /\ lastPid[n] \in 0 .. MaxCmds /\ job[n] \in 0 .. MaxCmds
      /\ Talk(waiting[n], asked[n], todo[n], s, got[n], lastPid[n])
  BY NodeIs
<1>6. Talk(TRUE, asked[n], todo[n], s, got[n], lastPid[n])
  BY <1>4, <1>5 DEF Talk
<1>7. chan' = [chan EXCEPT ![n] = left] /\ got' = [got EXCEPT ![n] = g]
      /\ lastPid' = [lastPid EXCEPT ![n] = p] /\ waiting' = [waiting EXCEPT ![n] = wt]
      /\ py' = IF Completed(data) THEN [pc |-> "idle"] ELSE py
  BY <1>1, <1>2 DEF PipeTypes
<1>8. data \in Output /\ left \in Output /\ g \in Output
  <2> HIDE DEF s
  <2> QED
    BY <1>1, <1>5, Reading DEF s
<1>9. p \in 0 .. MaxCmds
  <2>1. ASSUME Has(data, "pid") PROVE PidIn(data) \in 0 .. MaxCmds
    <3>1. \E i \in DOMAIN data : data[i].t = "pid"
      BY <2>1 DEF Has
    <3>2. (CHOOSE i \in DOMAIN data : data[i].t = "pid") \in DOMAIN data
      BY <3>1
    <3> HIDE DEF data
    <3>3. \A i \in DOMAIN data : data[i] \in Token
      BY <1>8 DEF Output
    <3>4. \A x \in Token : x.c \in 0 .. MaxCmds
      BY DEF Token
    <3> QED
      BY <3>2, <3>3, <3>4 DEF PidIn
  <2> QED
    BY <1>5, <2>1
<1>10. Talk(wt, asked[n], todo[n], left, g, p)
  <2> HIDE DEF s
  <2> QED
    BY <1>1, <1>5, <1>6, MonitorTalks DEF s
<1>11. wt \in BOOLEAN
  BY DEF Completed, Has
<1>12. /\ todo' = [todo EXCEPT ![n] = todo[n]] /\ job' = [job EXCEPT ![n] = job[n]]
       /\ asked' = [asked EXCEPT ![n] = asked[n]]
  BY <1>2, SameOf
<1>13. waiting'[n] = wt
  BY <1>2, <1>7 DEF PipeTypes, Kinds
<1>14. OtherTypes' /\ Attending'
  <2>1. CASE Completed(data)
    <3>1. py' = [pc |-> "idle"]
      BY <1>7, <2>1
    <3>2. py' \in MininetState /\ py'.pc = "idle"
      BY <3>1 DEF MininetState
    <3> QED
      BY <1>2, <1>4, <3>2 DEF OtherTypes, Attending
  <2>2. CASE ~Completed(data)
    <3>1. py' = py /\ waiting'[n]
      BY <1>7, <1>13, <2>2
    <3> QED
      BY <1>2, <1>4, <3>1 DEF OtherTypes, Attending
  <2> QED
    BY <2>1, <2>2
<1> HIDE DEF s, data, left, g, p, wt
<1>15. PipeTypes' /\ Talks'
  BY <1>5, <1>7, <1>8, <1>9, <1>10, <1>11, <1>12, OneNode
<1> QED
  BY <1>3, <1>14, <1>15, IInvPrimed

(***************************************************************************)
(* The theorems.                                                           *)
(***************************************************************************)

\* Neither tool has done anything yet.
LEMMA InitTools == Init => ToolTypes /\ Working
<1> SUFFICES ASSUME Init PROVE ToolTypes /\ Working
  OBVIOUS
<1>1. /\ 1 \in DOMAIN PidList /\ MaxFds \in Nat /\ Len(PidList) \in Nat /\ 0 * Len(PidList) = 0
  BY ListsHold DEF Lists
<1>2. NoWorkers \in Threads /\ \A i \in DOMAIN PidList : NoWorkers[i] = "none"
  BY DEF NoWorkers, Threads
<1>3. \A t \in Tools : /\ tool[t] \in ToolState /\ tool[t].pc \in {"off", "read"}
                       /\ tool[t].op = "p" /\ tool[t].i = 1
                       /\ worker[t] = NoWorkers /\ fds[t] = 0 /\ cmds[t] = 0 /\ since[t] = {}
  BY <1>1 DEF Init, ToolState, Tools
<1>4. ToolTypes
  <2>1. /\ tool \in [Tools -> ToolState] /\ worker \in [Tools -> Threads]
        /\ since \in [Tools -> SUBSET Nodes]
    BY <1>2, <1>3 DEF Init
  <2>2. fds \in [Tools -> 0..MaxFds] /\ cmds \in [Tools -> 0..MaxFds + 1]
    BY <1>1 DEF Init
  <2>3. \A t \in Tools : tool[t].i \in DOMAIN Pids(t)
    BY <1>1, <1>3 DEF Pids
  <2>4. tool["daemon"].op # "dilate"
    BY <1>3 DEF Tools
  <2> QED
    BY <2>1, <2>2, <2>3, <2>4 DEF ToolTypes
<1>5. ASSUME NEW t \in Tools PROVE ToolOK(t)
  <2>1. Threaded(tool[t], worker[t])
    BY <1>2, <1>3 DEF Threaded
  <2>2. Budgeted(tool[t], worker[t], cmds[t], fds[t])
    BY <1>1, <1>3 DEF Budgeted, Busy
  <2>3. Effective(tool[t], worker[t], cmds[t], frozen, dilated, since[t])
    BY <1>3 DEF Effective, Busy
  <2> QED
    BY <2>1, <2>2, <2>3 DEF ToolOK, Works
<1> QED
  BY <1>4, <1>5 DEF Working

LEMMA InitIInv == Init => IInv
<1> SUFFICES ASSUME Init PROVE IInv
  OBVIOUS
<1>1. ToolTypes /\ Working
  BY InitTools
<1>2. MaxCmds \in Nat /\ <<>> \in Output
  BY ListsHold DEF Lists, Output
<1>3. KernelTypes
  BY DEF Init, KernelTypes, Kinds
<1>4. PipeTypes
  BY <1>2 DEF Init, PipeTypes, Kinds, Asked
<1>5. OtherTypes
  <2>1. Counted(count)
    BY <1>2 DEF Init, Counted, Counters
  <2>2. tool["cli"].pc = "off" /\ py \in MininetState /\ fifo \in Seq({"p", "u"})
    BY DEF Init, Tools, MininetState
  <2> QED
    BY <2>1, <2>2 DEF OtherTypes
<1>6. Attending
  BY DEF Init, Attending
<1>7. ASSUME NEW n \in Nodes
      PROVE  Talk(waiting[n], asked[n], todo[n], chan[n], got[n], lastPid[n])
  <2>1. waiting[n] = FALSE /\ asked[n].c = 0 /\ todo[n] = <<>> /\ chan[n] = <<>>
    BY DEF Init
  <2>2. Carries(<<>>, <<>>)
    BY <1>2, CarriesNothing
  <2> QED
    BY <2>1, <2>2 DEF Talk, Answered
<1> QED
  BY <1>1, <1>3, <1>4, <1>5, <1>6, <1>7, TypesAre DEF IInv, Working, Talks

LEMMA NextIInv == IInv /\ [Next]_vars => IInv'
<1> SUFFICES ASSUME IInv, [Next]_vars PROVE IInv'
  OBVIOUS
<1>1. ASSUME UNCHANGED vars PROVE IInv'
  <2>1. /\ UNCHANGED kernel /\ UNCHANGED tools /\ UNCHANGED pipes /\ UNCHANGED <<fifo, py, count>>
        /\ UNCHANGED <<frozen, dilated, tools>>
    BY <1>1 DEF vars, kernel
  <2>2. KernelTypes' /\ ToolTypes' /\ Working' /\ PipeTypes' /\ Talks'
    BY <2>1, IInvParts, KernelFrame, ToolsFrame, PipesFrame
  <2>3. Attending'
    BY <2>1, IInvParts DEF Attending, pipes
  <2>4. OtherTypes'
    BY <2>1, IInvParts DEF OtherTypes, tools
  <2> QED
    BY <2>2, <2>3, <2>4, IInvPrimed
<1>2. ASSUME Mininet PROVE IInv'
  <2>1. ASSUME NEW n \in Nodes, NEW kind \in {"fg", "bg"}, SendCmd(n, kind) PROVE IInv'
    BY <2>1, SendCmdKeeps
  <2>2. ASSUME NEW n \in Nodes, Terminate(n) \/ WaitOutput(n) \/ Monitor(n) PROVE IInv'
    BY <2>2, TerminateKeeps, WaitOutputKeeps, MonitorKeeps
  <2>3. ASSUME NEW op \in {"p", "u", "dilate"}, RunTool(op) PROVE IInv'
    BY <2>3, RunToolKeeps
  <2> QED
    BY <1>2, <2>1, <2>2, <2>3, ToolReturnsKeeps DEF Mininet
<1>3. ASSUME NEW t \in Tools, ToolStep(t) \/ CreateFails(t) PROVE IInv'
  BY <1>3, CreateKeeps, JoinKeeps, CreateFailsKeeps DEF ToolStep
<1>4. ASSUME NEW t \in Tools, NEW i \in DOMAIN PidList, Thread(t, i) PROVE IInv'
  BY <1>4, WriteFieldKeeps, OutOfFilesKeeps DEF Thread
<1>5. ASSUME NEW n \in Nodes, Shell(n) PROVE IInv'
  BY <1>5, ShellWritesKeeps, JobWritesKeeps DEF Shell
<1> QED
  BY <1>1, <1>2, <1>3, <1>4, <1>5, DaemonReadKeeps, FifoWriteKeeps DEF Next

\* The inductive invariant holds in every state.
THEOREM AlwaysIInv == Spec => []IInv
BY InitIInv, NextIInv, PTL DEF Spec

\* When a tool has returned, the nodes it was given are what it was told to make
\* of them, whatever the other tool, Mininet and the shells do meanwhile, as long
\* as its descriptors last: freezeEmulation, freeze_listen and dilateEmulation.
THEOREM AlwaysCommandTookEffect == Spec => []CommandTookEffect
<1>1. ASSUME IInv PROVE CommandTookEffect
  <2>1. SUFFICES ASSUME NEW t \in Tools, tool[t].pc = Returned(t), cmds[t] > 0,
                        cmds[t] * Len(PidList) <= MaxFds
                 PROVE  IF tool[t].op = "dilate" THEN dilated[Last(Hosts)]
                        ELSE \A n \in Nodes \ since[t] : frozen[n] <=> tool[t].op = "p"
    BY DEF CommandTookEffect
  <2>2. Effective(tool[t], worker[t], cmds[t], frozen, dilated, since[t])
    BY <1>1, ToolIs DEF Works
  <2>3. tool[t].pc \in {"read", "exited"}
    BY <2>1 DEF Returned
  <2> QED
    BY <2>1, <2>2, <2>3 DEF Effective, Enough, Obeyed
<1> QED
  BY <1>1, AlwaysIInv, PTL

\* What Node.cmd returns is the reply to its own command, whole, however the
\* output is split into reads and whatever background jobs print in between; it
\* leaves no prompt behind for the next command, and lastPid is that job's pid.
THEOREM AlwaysRepliesInStep == Spec => []RepliesInStep
<1>1. ASSUME IInv PROVE RepliesInStep
  <2>1. SUFFICES ASSUME NEW n \in Nodes, ~waiting[n], asked[n].c # 0
                 PROVE  /\ ~Has(chan[n], "prompt") /\ todo[n] = <<>>
                        /\ Carries(got[n], Reply(asked[n].kind, asked[n].c))
                        /\ asked[n].kind = "bg" => lastPid[n] = asked[n].c
    BY <1>1 DEF RepliesInStep, IInv
  <2>2. Answered(asked[n], todo[n], chan[n], got[n], lastPid[n])
    BY <1>1, <2>1, IInvParts DEF Talks, Talk
  <2>3. chan[n] \in Output
    BY <1>1, IInvParts DEF PipeTypes
  <2>4. ~Has(chan[n], "prompt")
    BY <2>2, <2>3, CarriesNothing DEF Answered, Has
  <2> QED
    BY <2>1, <2>2, <2>4 DEF Answered
<1> QED
  BY <1>1, AlwaysIInv, PTL

=============================================================================

------------------------- MODULE VirtualTimeProofs -------------------------
(***************************************************************************)
(* What the theorems of VirtualTime rest on.                               *)
(*                                                                         *)
(* First what a clock does to the fields of its task, and then the tree    *)
(* alone: Subtree is the least set of tasks that holds its root and is     *)
(* closed under children, which needs no induction because Visited is an   *)
(* intersection over the closed sets. Then the invariants: Tree, what fork *)
(* and exit keep true of parents and leaders; Together, the threads of a   *)
(* process are stopped together; Shared, a factor reaches the whole tree   *)
(* below Root; Frozen, exactly Root's group is stopped while a freeze of   *)
(* Root is recorded, and no other task records one.                        *)
(***************************************************************************)
EXTENDS VirtualTime, TLAPS

----------------------------------------------------------------------------
(* What the operators of TaskClock do to the fields.                       *)

\* C division loses less than the divisor, and towards zero.
LEMMA DivS64Bound ==
  ASSUME NEW n \in Int, NEW d \in Int, d > 0
  PROVE  /\ DivS64(n, d) \in Int
         /\ -d < n - d * DivS64(n, d) /\ n - d * DivS64(n, d) < d
         /\ n >= 0 => DivS64(n, d) >= 0 /\ n - d * DivS64(n, d) >= 0
<1>1. CASE n >= 0
  <2>1. /\ n \div d \in Int /\ n \div d >= 0
        /\ d * (n \div d) <= n /\ n < d * (n \div d) + d
    BY <1>1, SMTT(30)
  <2>2. DivS64(n, d) = n \div d
    BY <1>1 DEF DivS64
  <2> QED
    BY <2>1, <2>2
<1>2. CASE n < 0
  <2> DEFINE m == -n
             q == m \div d
  <2>1. m \in Int /\ m > 0
    BY <1>2
  <2> HIDE DEF m
  <2>2. q \in Int /\ q >= 0 /\ d * q <= m /\ m < d * q + d
    BY <2>1, SMTT(30)
  <2>3. DivS64(n, d) = -q
    BY <1>2 DEF DivS64, m
  <2> HIDE DEF q
  <2>4. d * (-q) = -(d * q)
    BY <2>2
  <2> QED
    BY <1>2, <2>2, <2>3, <2>4 DEF m
<1> QED
  BY <1>1, <1>2

\* update_virtual_past_nsec loses less than one virtual nanosecond, and
\* never turns the clock back when physical time went forward.
LEMMA DeltaVpnBound ==
  ASSUME NEW delta \in Int, NEW tdf \in Int, tdf > 0
  PROVE  /\ DeltaVpn(delta, tdf) \in Int
         /\ delta >= 0 => DeltaVpn(delta, tdf) >= 0
         /\ tdf <= MaxTdf =>
              LET e == 1000 * delta - tdf * DeltaVpn(delta, tdf)
              IN  -tdf < e /\ e < tdf /\ (delta >= 0 => e >= 0)
<1> DEFINE n == delta * 1000
<1>1. n \in Int /\ n = 1000 * delta /\ (delta >= 0 => n >= 0)
  OBVIOUS
<1> HIDE DEF n
<1>2. /\ DivS64(n, tdf) \in Int
      /\ -tdf < n - tdf * DivS64(n, tdf) /\ n - tdf * DivS64(n, tdf) < tdf
      /\ n >= 0 => DivS64(n, tdf) >= 0 /\ n - tdf * DivS64(n, tdf) >= 0
  BY <1>1, DivS64Bound
<1>3. CASE tdf > MaxTdf
  BY <1>3 DEF DeltaVpn, MaxTdf
<1>4. CASE tdf = 1000
  BY <1>4 DEF DeltaVpn, MaxTdf
<1>5. CASE tdf <= MaxTdf /\ tdf # 1000
  <2>1. DeltaVpn(delta, tdf) = DivS64(n, tdf)
    BY <1>5 DEF DeltaVpn, MaxTdf, n
  <2> QED
    BY <2>1, <1>1, <1>2
<1> QED
  BY <1>3, <1>4, <1>5 DEF MaxTdf

\* What a read leaves in the task: only the two "past" fields move.
LEMMA TimekeepFields ==
  ASSUME NEW t \in Task, NEW at \in Int, t.dilation > 0, Virtual(t)
  PROVE  LET u == Timekeep(t, at)
             delta == DeltaPpn(t, at)
         IN  /\ u \in Task /\ u.dilation = t.dilation
             /\ u.vsn = t.vsn /\ u.vpn = t.vpn + DeltaVpn(delta, t.dilation)
             /\ u.psn = t.psn /\ u.ppn = t.ppn + delta
             /\ u.fsn = t.fsn /\ u.fpn = t.fpn
<1> DEFINE delta == DeltaPpn(t, at)
           dv == DeltaVpn(delta, t.dilation)
           x == [t EXCEPT !.ppn = t.ppn + delta]
           u == [x EXCEPT !.vpn = t.vpn + dv]
<1>1. delta \in Int
  BY DEF DeltaPpn, Task
<1>2. dv \in Int
  BY <1>1, DeltaVpnBound DEF Task
<1>3. Timekeep(t, at) = u
  BY Zenon DEF Timekeep
<1> HIDE DEF delta, dv
<1>4. /\ x \in Task /\ x.dilation = t.dilation /\ x.vsn = t.vsn /\ x.vpn = t.vpn
      /\ x.psn = t.psn /\ x.ppn = t.ppn + delta /\ x.fsn = t.fsn /\ x.fpn = t.fpn
  BY <1>1 DEF Task
<1> HIDE DEF x
<1>5. /\ u \in Task /\ u.dilation = t.dilation /\ u.vsn = t.vsn
      /\ u.vpn = t.vpn + dv /\ u.psn = t.psn /\ u.ppn = t.ppn + delta
      /\ u.fsn = t.fsn /\ u.fpn = t.fpn
  BY <1>2, <1>4 DEF Task
<1> QED
  BY <1>3, <1>5 DEF delta, dv

\* What a change of factor leaves in the task: the freeze fields stay.
LEMMA RedilateFields ==
  ASSUME NEW t \in Task, NEW at \in Int, NEW tdf \in Int, t.dilation > 0
  PROVE  LET u == Redilate(t, at, tdf)
         IN  /\ u \in Task /\ u.dilation = tdf
             /\ u.vsn = at /\ u.psn = at /\ u.ppn = 0
             /\ u.vpn = t.vpn + DivS64(DeltaPpn(t, at) * 1000, t.dilation)
             /\ u.fsn = t.fsn /\ u.fpn = t.fpn
<1> DEFINE n == DeltaPpn(t, at) * 1000
           v == t.vpn + DivS64(n, t.dilation)
           u == Redilate(t, at, tdf)
<1>1. n \in Int /\ t.vpn \in Int /\ t.dilation \in Int
  BY DEF DeltaPpn, Task
<1> HIDE DEF n
<1>2. DivS64(n, t.dilation) \in Int
  BY <1>1, DivS64Bound
<1>3. v \in Int
  BY <1>1, <1>2
<1> HIDE DEF v
<1>4. u = [t EXCEPT !.vpn = v, !.vsn = at, !.psn = at, !.ppn = 0,
                    !.dilation = tdf]
  BY Zenon DEF Redilate, v, n
<1>5. u = [dilation |-> tdf, vsn |-> at, vpn |-> v, psn |-> at,
           ppn |-> 0, fsn |-> t.fsn, fpn |-> t.fpn]
  BY <1>4 DEF Task
<1>6. t.fsn \in Int /\ t.fpn \in Int
  BY DEF Task
<1> QED
  BY <1>3, <1>5, <1>6 DEF Task, v, n

\* Reading the clock twice at the same moment changes nothing: the second
\* read accounts no time and returns the first reading again.
LEMMA ReadIdempotent ==
  ASSUME NEW t \in Task, NEW at \in Int, t.dilation > 0
  PROVE  /\ Timekeep(Timekeep(t, at), at) = Timekeep(t, at)
         /\ Reading(Timekeep(t, at), at) = Reading(t, at)
<1> DEFINE u == Timekeep(t, at)
           w == Timekeep(u, at)
           delta == DeltaPpn(t, at)
<1>1. CASE ~Virtual(t)
  BY <1>1 DEF Timekeep, Reading
<1>2. CASE Virtual(t)
  <2>1. delta \in Int /\ DeltaVpn(delta, t.dilation) \in Int
    BY DeltaVpnBound DEF DeltaPpn, Task
  <2>2. /\ u \in Task /\ u.dilation = t.dilation
        /\ u.vsn = t.vsn /\ u.vpn = t.vpn + DeltaVpn(delta, t.dilation)
        /\ u.psn = t.psn /\ u.ppn = t.ppn + delta
        /\ u.fsn = t.fsn /\ u.fpn = t.fpn
    BY <1>2, TimekeepFields
  <2> HIDE DEF u
  <2>3. Virtual(u)
    BY <1>2, <2>2 DEF Virtual
  <2>4. DeltaPpn(u, at) = 0
    BY <2>2 DEF DeltaPpn, Task
  <2>5. DeltaVpn(0, u.dilation) = 0
    BY <2>2 DEF DeltaVpn, DivS64, Task
  <2>6. /\ w \in Task /\ w.dilation = u.dilation
        /\ w.vsn = u.vsn /\ w.vpn = u.vpn + 0
        /\ w.psn = u.psn /\ w.ppn = u.ppn + 0
        /\ w.fsn = u.fsn /\ w.fpn = u.fpn
    BY <2>2, <2>3, <2>4, <2>5, TimekeepFields
  <2> HIDE DEF w
  <2>7. w = u
    BY <2>2, <2>6 DEF Task
  <2>8. Reading(u, at) = Reading(t, at)
    BY <1>2, <2>1, <2>2, <2>3, <2>4, <2>5 DEF Reading, Task
  <2> QED
    BY <2>7, <2>8 DEF u, w
<1> QED
  BY <1>1, <1>2

----------------------------------------------------------------------------
Tree ==
  /\ {Root, Reaper} \subseteq alive
  /\ \A q \in alive : /\ parent[q] \in alive /\ leader[q] \in alive
                      /\ leader[leader[q]] = leader[q]
  /\ leader[Root] = Root /\ pgrp[Root] = Root
  /\ parent[Reaper] = Reaper /\ leader[Reaper] = Reaper

Together == \A q \in alive : q \in stopped <=> leader[q] \in stopped

Formed == TypeOK /\ Tree /\ Together

\* The tools write to the container's first process, as Mininet does.
OnlyRoot == Targets \subseteq {Root}

\* No workload enters or leaves virtual time while it is frozen.
NoCrossing == \A l \in Workloads : "cross" \notin l.uses

Shared == \A p \in Subtree(Root) : task[p].dilation = task[Root].dilation

Frozen ==
  /\ now > 0
  /\ 0 <= task[Root].fsn /\ task[Root].fsn <= now
  /\ \A p \in Pid \ {Root} : task[p].fsn = 0
  /\ stopped = IF task[Root].fsn = 0 THEN {} ELSE Group(Root)

----------------------------------------------------------------------------
(* The tree.                                                               *)

\* Sets of living tasks that a walk below the tasks in onward cannot leave.
Closed(S, onward) == /\ S \subseteq alive
                     /\ \A q \in S \cap onward : Children(q) \subseteq S

LEMMA ChildrenAlive == \A p : Children(p) \subseteq alive \ {p}
BY DEF Children

\* Visited is such a set, it holds where it starts...
LEMMA VisitedClosed ==
  ASSUME NEW p \in alive, NEW onward
  PROVE  p \in Visited(p, onward) /\ Closed(Visited(p, onward), onward)
<1> DEFINE kids == [q \in alive |-> IF q \in onward THEN Children(q) ELSE {}]
           below == {S \in SUBSET (alive \ {p}) :
                       kids[p] \subseteq S /\ \A q \in S : kids[q] \subseteq S \cup {p}}
           V == Visited(p, onward)
<1>1. V = {q \in alive : q = p \/ \A S \in below : q \in S}
  BY DEF Visited
<1>2. ASSUME NEW q \in V, q \in onward, NEW x \in Children(q)
      PROVE  x \in V
  <2>1. q \in alive /\ x \in alive /\ kids[q] = Children(q)
    BY <1>1, <1>2, ChildrenAlive
  <2>2. ASSUME NEW S \in below, x # p
        PROVE  x \in S
    <3>1. CASE q = p
      BY <3>1, <2>1, <2>2
    <3>2. CASE q # p
      <4>1. q \in S
        BY <3>2, <1>1
      <4> QED
        BY <4>1, <2>1, <2>2
    <3> QED
      BY <3>1, <3>2
  <2> HIDE DEF below, kids
  <2> QED
    BY <1>1, <2>1, <2>2
<1>3. p \in V /\ V \subseteq alive
  BY <1>1
<1> QED
  BY <1>2, <1>3 DEF Closed

\* ...and it is within every such set that holds where it starts.
LEMMA VisitedLeast ==
  ASSUME NEW p, NEW onward, NEW T, p \in T, Closed(T, onward)
  PROVE  Visited(p, onward) \subseteq T
<1> DEFINE kids == [q \in alive |-> IF q \in onward THEN Children(q) ELSE {}]
           below == {S \in SUBSET (alive \ {p}) :
                       kids[p] \subseteq S /\ \A q \in S : kids[q] \subseteq S \cup {p}}
           V == Visited(p, onward)
           B == T \ {p}
<1>1. V = {q \in alive : q = p \/ \A S \in below : q \in S}
  BY DEF Visited
<1>2. T \subseteq alive /\ \A q \in T : kids[q] \subseteq T
  BY DEF Closed
<1>3. kids[p] \subseteq B
  BY <1>2, ChildrenAlive
<1>4. B \in below
  BY <1>2, <1>3
<1> HIDE DEF below, kids
<1> QED
  BY <1>1, <1>4

LEMMA SubtreeClosed ==
  ASSUME TypeOK, Tree
  PROVE  /\ Root \in Subtree(Root) /\ Subtree(Root) \subseteq alive
         /\ \A q \in Subtree(Root) : Children(q) \subseteq Subtree(Root)
BY VisitedClosed DEF Subtree, Closed, TypeOK, Tree

LEMMA SubtreeLeast ==
  ASSUME NEW T, Root \in T, T \subseteq alive, \A q \in T : Children(q) \subseteq T
  PROVE  Subtree(Root) \subseteq T
BY VisitedLeast DEF Subtree, Closed

\* The same of the state a step leads to.
Least ==
  \A T : (Root \in T /\ T \subseteq alive /\ \A q \in T : Children(q) \subseteq T)
            => Subtree(Root) \subseteq T

LEMMA LeastNext == Least'
<1>1. ASSUME NEW T, Root \in T, T \subseteq alive,
             \A q \in T : Children(q) \subseteq T
      PROVE  Subtree(Root) \subseteq T
  BY <1>1, SubtreeLeast
<1>2. Least
  BY <1>1 DEF Least
<1> QED
  BY <1>2, PTL

\* The reaper is nobody's child.
LEMMA ReaperOutside ==
  ASSUME TypeOK, Tree
  PROVE  Reaper \notin Subtree(Root)
<1> DEFINE T == alive \ {Reaper}
<1>1. Root \in T
  BY PidAssumption DEF Tree
<1>2. \A q \in T : Children(q) \subseteq T
  BY DEF Children, Tree
<1> QED
  BY <1>1, <1>2, SubtreeLeast

\* Steps that leave the tree alone leave these alone.
LEMMA TreeSame ==
  ASSUME UNCHANGED <<alive, parent, leader>>
  PROVE  Subtree(Root)' = Subtree(Root) /\ \A p : Children(p)' = Children(p)
<1>1. \A p : Children(p)' = Children(p)
  BY DEF Children
<1>2. Visited(Root, Pid)' = Visited(Root, Pid)
  BY DEF Visited, Children
<1> QED
  BY <1>1, <1>2 DEF Subtree

LEMMA GroupSame ==
  ASSUME UNCHANGED <<alive, leader, pgrp>>
  PROVE  \A p : Group(p)' = Group(p)
BY DEF Group

\* A thread is in the group of its leader.
LEMMA GroupTogether ==
  ASSUME TypeOK, Tree
  PROVE  \A p : \A q \in alive : q \in Group(p) <=> leader[q] \in Group(p)
BY DEF Group, Tree

----------------------------------------------------------------------------
(* The fields.                                                             *)

\* A task that can be: its TDF is never negative.
Sound(t) == t \in Task /\ t.dilation >= 0

\* What is left when a task's clock is only read.
Kept(t, u) == /\ u.dilation = t.dilation /\ u.psn = t.psn
              /\ u.fsn = t.fsn /\ u.fpn = t.fpn

LEMMA TimekeepKeeps ==
  ASSUME NEW t, Sound(t), NEW n \in Int
  PROVE  Sound(Timekeep(t, n)) /\ Kept(t, Timekeep(t, n))
<1>1. CASE Virtual(t)
  <2>1. t.dilation > 0
    BY <1>1 DEF Virtual, Sound, Task
  <2>2. LET u == Timekeep(t, n) IN
        u \in Task /\ u.dilation = t.dilation /\ u.psn = t.psn
        /\ u.fsn = t.fsn /\ u.fpn = t.fpn
    BY <1>1, <2>1, TimekeepFields DEF Sound
  <2> QED
    BY <2>1, <2>2 DEF Sound, Kept
<1>2. CASE ~Virtual(t)
  BY <1>2 DEF Timekeep, Sound, Kept
<1> QED
  BY <1>1, <1>2

LEMMA TimekeepReads ==
  ASSUME NEW t, Sound(t), NEW n \in Int
  PROVE  Reading(Timekeep(t, n), n) = Reading(t, n)
<1>1. CASE Virtual(t)
  <2>1. t.dilation > 0
    BY <1>1 DEF Virtual, Sound, Task
  <2> QED
    BY <2>1, ReadIdempotent DEF Sound
<1>2. CASE ~Virtual(t)
  BY <1>2 DEF Timekeep
<1> QED
  BY <1>1, <1>2

LEMMA ReadingTyped ==
  ASSUME NEW t, Sound(t), NEW n \in Int
  PROVE  Reading(t, n) \in Int
<1>1. CASE Virtual(t)
  <2>1. t.dilation > 0
    BY <1>1 DEF Virtual, Sound, Task
  <2>2. DeltaPpn(t, n) \in Int
    BY DEF Sound, Task, DeltaPpn
  <2>3. DeltaVpn(DeltaPpn(t, n), t.dilation) \in Int
    BY <2>1, <2>2, DeltaVpnBound DEF Sound, Task
  <2> QED
    BY <1>1, <2>3 DEF Reading, Sound, Task
<1>2. CASE ~Virtual(t)
  BY <1>2 DEF Reading
<1> QED
  BY <1>1, <1>2

\* A clock that starts: all its accounts are empty.
LEMMA InitVirtualStartFields ==
  ASSUME NEW t, Sound(t), NEW n \in Int, NEW v \in Int, NEW tdf \in Int
  PROVE  LET u == InitVirtualStart(t, n, v, tdf) IN
         /\ Sound(u)
         /\ tdf > 0 => u.dilation = tdf /\ u.psn = n /\ u.fsn = 0 /\ u.fpn = 0
         /\ ~(tdf > 0) => u = t
<1>1. CASE tdf > 0
  BY <1>1 DEF InitVirtualStart, Sound, Task
<1>2. CASE ~(tdf > 0)
  BY <1>2 DEF InitVirtualStart
<1> QED
  BY <1>1, <1>2

\* What set_dilation leaves in a task that does not refuse the new TDF.
LEMMA SetDilationFields ==
  ASSUME NEW t, Sound(t), NEW n \in Int, NEW tdf \in Int
  PROVE  LET u == SetDilation(t, n, n, tdf) IN
         /\ Sound(u)
         /\ t.dilation # tdf /\ ~DilationRejected(t, tdf) =>
              /\ tdf >= 0 => u.dilation = tdf
              /\ tdf < 0 => u = t /\ t.dilation = 0
              /\ tdf > 0 => u.psn = n
              /\ tdf > 0 /\ t.dilation # 0 => u.fsn = t.fsn /\ u.fpn = t.fpn
              /\ tdf > 0 /\ t.dilation = 0 => u.fsn = 0 /\ u.fpn = 0
              /\ tdf = 0 => u = Blank
<1> DEFINE u == SetDilation(t, n, n, tdf)
<1>0. t \in Task /\ t.dilation \in Int /\ t.dilation >= 0
  BY DEF Sound, Task
<1>1. CASE t.dilation = tdf
  BY <1>1 DEF SetDilation
<1>2. CASE t.dilation = 0 /\ tdf # 0
  <2>1. u = InitVirtualStart(t, n, n, tdf)
    BY <1>2 DEF SetDilation
  <2>2. /\ Sound(u)
        /\ tdf > 0 => u.dilation = tdf /\ u.psn = n /\ u.fsn = 0 /\ u.fpn = 0
        /\ ~(tdf > 0) => u = t
    BY <2>1, InitVirtualStartFields
  <2> HIDE DEF u
  <2> QED
    BY <1>2, <2>2 DEF u
<1>3. CASE t.dilation # 0 /\ tdf = 0
  <2>1. u = Blank
    BY <1>3 DEF SetDilation
  <2>2. Sound(Blank) /\ Blank.dilation = 0
    BY DEF Blank, Sound, Task
  <2> QED
    BY <1>3, <2>1, <2>2
<1>4. CASE t.dilation \notin {0, tdf} /\ tdf > 0
  <2>1. u = Redilate(t, n, tdf)
    BY <1>4 DEF SetDilation
  <2>2. /\ u \in Task /\ u.dilation = tdf /\ u.psn = n
        /\ u.fsn = t.fsn /\ u.fpn = t.fpn
    BY <1>0, <1>4, <2>1, RedilateFields
  <2> HIDE DEF u
  <2> QED
    BY <1>4, <2>2 DEF u, Sound
<1>5. CASE t.dilation \notin {0, tdf} /\ tdf < 0
  BY <1>0, <1>5 DEF SetDilation, DilationRejected
<1> QED
  BY <1>0, <1>1, <1>2, <1>3, <1>4, <1>5

LEMMA FreezeFields ==
  ASSUME NEW t, Sound(t), NEW n \in Int
  PROVE  LET u == FreezeTime(t, n) IN
         /\ Sound(u) /\ u.dilation = t.dilation /\ u.psn = t.psn
         /\ u.vsn = t.vsn /\ u.vpn = t.vpn /\ u.ppn = t.ppn /\ u.fpn = t.fpn
         /\ u.fsn = IF t.fsn > 0 THEN t.fsn ELSE n
BY DEF FreezeTime, Sound, Task

LEMMA UnfreezeFields ==
  ASSUME NEW t, Sound(t), NEW n \in Int, t.fsn # 0
  PROVE  LET u == UnfreezeTime(t, n) IN
         /\ Sound(u) /\ u.dilation = t.dilation /\ u.psn = t.psn
         /\ u.vsn = t.vsn /\ u.vpn = t.vpn /\ u.ppn = t.ppn
         /\ u.fsn = 0 /\ u.fpn = t.fpn + (n - t.fsn)
<1> DEFINE u == UnfreezeTime(t, n)
           f == t.fpn + (n - t.fsn)
<1>1. f \in Int
  BY DEF Sound, Task
<1>2. u = [t EXCEPT !.fpn = f, !.fsn = 0]
  BY Zenon DEF UnfreezeTime
<1> HIDE DEF f, u
<1>3. u = [dilation |-> t.dilation, vsn |-> t.vsn, vpn |-> t.vpn, psn |-> t.psn,
           ppn |-> t.ppn, fsn |-> 0, fpn |-> f]
  BY <1>2 DEF Sound, Task
<1>4. /\ Sound(u) /\ u.dilation = t.dilation /\ u.psn = t.psn
      /\ u.vsn = t.vsn /\ u.vpn = t.vpn /\ u.ppn = t.ppn
      /\ u.fsn = 0 /\ u.fpn = f
  BY <1>1, <1>3 DEF Sound, Task
<1> QED
  BY <1>4 DEF f, u

LEMMA PopulateFields ==
  ASSUME NEW t, Sound(t), NEW s, Sound(s)
  PROVE  LET u == PopulateFrozen(t, s) IN
         /\ Sound(u) /\ u.dilation = t.dilation /\ u.psn = t.psn
         /\ u.vsn = t.vsn /\ u.vpn = t.vpn /\ u.ppn = t.ppn
         /\ u.fsn = s.fsn /\ u.fpn = s.fpn
BY DEF PopulateFrozen, Sound, Task

----------------------------------------------------------------------------
(* Types.                                                                  *)

LEMMA AllSound == TypeOK => \A q \in Pid : Sound(task[q])
BY DEF TypeOK, Sound

LEMMA SoundTyped ==
  ASSUME NEW f, f = [q \in Pid |-> f[q]], \A q \in Pid : Sound(f[q])
  PROVE  f \in [Pid -> Task] /\ \A q \in Pid : f[q].dilation >= 0
<1>1. \A q \in Pid : f[q] \in Task
  BY DEF Sound
<1>2. [q \in Pid |-> f[q]] \in [Pid -> Task]
  BY <1>1, Zenon
<1> QED
  BY <1>2, Zenon DEF Sound

LEMMA StartTyped ==
  ASSUME TypeOK, NEW S, Start(S), now' = now, Sound(task'[Root])
  PROVE  ran' \in [Pid -> Int] /\ debt' \in [Pid -> Int]
<1> DEFINE f == task'[Root].fpn
<1>1. f \in Int /\ -InFreeze(task'[Root]) \in Int
  BY DEF Sound, Task, InFreeze, TypeOK
<1> HIDE DEF f
<1>2. /\ ran' = [p \in Pid |-> IF p \in S THEN -InFreeze(task'[Root]) ELSE ran[p]]
      /\ debt' = [p \in Pid |-> IF p \in S THEN f ELSE debt[p]]
  BY DEF Start, f
<1> QED
  BY <1>1, <1>2 DEF TypeOK

\* What is left of the types when the tasks a step leaves are sound.
LEMMA TypeFrame ==
  ASSUME TypeOK, UNCHANGED <<load, now, tree>>,
         task' = [q \in Pid |-> task'[q]], \A q \in Pid : Sound(task'[q]),
         stopped' \subseteq alive, oops' \in BOOLEAN, changes' \in Nat,
         ran' \in [Pid -> Int], debt' \in [Pid -> Int]
  PROVE  TypeOK'
<1>1. task' \in [Pid -> Task] /\ \A q \in Pid : task'[q].dilation >= 0
  BY SoundTyped
<1> QED
  BY <1>1 DEF TypeOK, tree

LEMMA FormedSame ==
  ASSUME Formed, UNCHANGED <<tree, stopped>>
  PROVE  Tree' /\ Together'
BY DEF Formed, Tree, Together, tree

----------------------------------------------------------------------------
(* What each action does to the tasks.                                     *)

LEMMA ForkTasks ==
  ASSUME Formed, NEW p \in Pid, NEW c \in Pid, NEW thread \in BOOLEAN,
         Fork(p, c, thread)
  PROVE  /\ p \in alive /\ p # Reaper /\ p \notin stopped
         /\ c \notin alive /\ c # Root /\ c # Reaper /\ c # p
         /\ task' = [q \in Pid |-> task'[q]]
         /\ task'[p] = Timekeep(task[p], now)
         /\ task'[c] = InitVirtualStart(task[p], now, Reading(task[p], now),
                                        task[p].dilation)
         /\ \A q \in Pid \ {p, c} : task'[q] = task[q]
         /\ \A q \in Pid : Sound(task'[q])
         /\ \A q \in Pid \ {c} : Kept(task[q], task'[q])
<1>1. /\ p \in alive /\ p # Reaper /\ p \notin stopped
      /\ c \notin alive /\ c # Root /\ c # Reaper /\ c # p
  BY DEF Fork, Running, Formed, Tree
<1> DEFINE u == Timekeep(task[p], now)
           w == InitVirtualStart(task[p], now, Reading(task[p], now), task[p].dilation)
<1>2. task' = [task EXCEPT ![p] = u, ![c] = w]
  BY Zenon DEF Fork
<1>3. /\ Sound(task[p]) /\ now \in Int /\ task[p].dilation \in Int
      /\ \A q \in Pid : Sound(task[q])
  BY AllSound DEF Formed, TypeOK, Task
<1>4. Sound(u) /\ Kept(task[p], u)
  BY <1>3, TimekeepKeeps
<1>5. Sound(w)
  BY <1>3, ReadingTyped, InitVirtualStartFields
<1>6. \A q \in Pid : Kept(task[q], task[q])
  BY DEF Kept
<1> HIDE DEF u, w
<1>7. /\ task' = [q \in Pid |-> task'[q]] /\ task'[p] = u /\ task'[c] = w
      /\ \A q \in Pid \ {p, c} : task'[q] = task[q]
  BY <1>1, <1>2 DEF Formed, TypeOK
<1>8. /\ \A q \in Pid : Sound(task'[q])
      /\ \A q \in Pid \ {c} : Kept(task[q], task'[q])
  BY <1>3, <1>4, <1>5, <1>6, <1>7
<1> QED
  BY <1>1, <1>7, <1>8 DEF u, w

\* A read of p's clock and nothing else, as in Read and ForkFail.
LEMMA ReadTasks ==
  ASSUME Formed, NEW p \in Pid, task' = [task EXCEPT ![p] = Timekeep(@, now)]
  PROVE  /\ task' = [q \in Pid |-> task'[q]]
         /\ task'[p] = Timekeep(task[p], now)
         /\ \A q \in Pid \ {p} : task'[q] = task[q]
         /\ \A q \in Pid : Sound(task'[q]) /\ Kept(task[q], task'[q])
<1> DEFINE u == Timekeep(task[p], now)
<1>1. task' = [task EXCEPT ![p] = u]
  BY Zenon
<1>2. /\ Sound(task[p]) /\ now \in Int
      /\ \A q \in Pid : Sound(task[q])
  BY AllSound DEF Formed, TypeOK
<1>3. Sound(u) /\ Kept(task[p], u)
  BY <1>2, TimekeepKeeps
<1>4. \A q \in Pid : Kept(task[q], task[q])
  BY DEF Kept
<1> HIDE DEF u
<1>5. /\ task' = [q \in Pid |-> task'[q]] /\ task'[p] = u
      /\ \A q \in Pid \ {p} : task'[q] = task[q]
  BY <1>1 DEF Formed, TypeOK
<1>6. \A q \in Pid : Sound(task'[q]) /\ Kept(task[q], task'[q])
  BY <1>2, <1>3, <1>4, <1>5
<1> QED
  BY <1>5, <1>6 DEF u

LEMMA UnshareTasks ==
  ASSUME Formed, Unshare
  PROVE  /\ Root \in alive \ stopped
         /\ task' = [q \in Pid |-> task'[q]]
         /\ task'[Root].dilation = 1000 /\ task'[Root].psn = now
         /\ task'[Root].fsn = 0 /\ task'[Root].fpn = 0
         /\ \A q \in Pid \ {Root} : task'[q] = task[q]
         /\ \A q \in Pid : Sound(task'[q])
<1> DEFINE w == InitVirtualStart(task[Root], now, now, 1000)
<1>1. task' = [task EXCEPT ![Root] = w]
  BY Zenon DEF Unshare
<1>2. /\ Sound(task[Root]) /\ now \in Int /\ Root \in Pid
      /\ \A q \in Pid : Sound(task[q])
  BY AllSound, PidAssumption DEF Formed, TypeOK
<1>3. /\ Sound(w) /\ w.dilation = 1000 /\ w.psn = now /\ w.fsn = 0 /\ w.fpn = 0
  BY <1>2, InitVirtualStartFields
<1> HIDE DEF w
<1>4. /\ task' = [q \in Pid |-> task'[q]] /\ task'[Root] = w
      /\ \A q \in Pid \ {Root} : task'[q] = task[q]
  BY <1>1, <1>2 DEF Formed, TypeOK
<1>5. \A q \in Pid : Sound(task'[q])
  BY <1>2, <1>3, <1>4
<1>6. Root \in alive \ stopped
  BY DEF Unshare, Running
<1> QED
  BY <1>3, <1>4, <1>5, <1>6

\* The tasks that echo $tdf > /proc/$p/dilation changes.
Reached(p, tdf) == Visited(p, Willing(tdf)) \cap Willing(tdf)

LEMMA WriteDilationTasks ==
  ASSUME Formed, NEW p \in Pid, NEW tdf \in load.tdfs, WriteDilation(p, tdf)
  PROVE  /\ tdf \in Int /\ p \in alive
         /\ task' = [q \in Pid |-> task'[q]]
         /\ \A q \in Pid : task'[q] = IF q \in Reached(p, tdf)
                                      THEN SetDilation(task[q], now, now, tdf)
                                      ELSE task[q]
         /\ \A q \in Pid : Sound(task'[q])
         /\ Start(Reached(p, tdf))
<1>1. tdf \in Int /\ now \in Int
  BY WorkloadsAssumption DEF Formed, TypeOK
<1>2. task' = [q \in Pid |-> IF q \in Reached(p, tdf)
                            THEN SetDilation(task[q], now, now, tdf)
                            ELSE task[q]]
  BY DEF WriteDilation, Reached
<1>3. \A q \in Pid : Sound(task[q]) /\ Sound(SetDilation(task[q], now, now, tdf))
  BY <1>1, AllSound, SetDilationFields DEF Formed
<1>4. /\ task' = [q \in Pid |-> task'[q]]
      /\ \A q \in Pid : task'[q] = IF q \in Reached(p, tdf)
                                   THEN SetDilation(task[q], now, now, tdf)
                                   ELSE task[q]
  BY <1>2
<1>5. \A q \in Pid : Sound(task'[q])
  BY <1>3, <1>4
<1>6. p \in alive /\ Start(Reached(p, tdf))
  BY DEF WriteDilation, Reached
<1> QED
  BY <1>1, <1>4, <1>5, <1>6

LEMMA WriteFreezeTasks ==
  ASSUME Formed, NEW p \in Pid, WriteFreeze(p)
  PROVE  /\ task' = [q \in Pid |-> task'[q]]
         /\ task'[p] = FreezeTime(task[p], now)
         /\ \A q \in Pid \ {p} : task'[q] = task[q]
         /\ \A q \in Pid : Sound(task'[q])
<1> DEFINE u == FreezeTime(task[p], now)
<1>1. task' = [task EXCEPT ![p] = u]
  BY Zenon DEF WriteFreeze
<1>2. /\ Sound(task[p]) /\ now \in Int
      /\ \A q \in Pid : Sound(task[q])
  BY AllSound DEF Formed, TypeOK
<1>3. Sound(u)
  BY <1>2, FreezeFields
<1> HIDE DEF u
<1>4. /\ task' = [q \in Pid |-> task'[q]] /\ task'[p] = u
      /\ \A q \in Pid \ {p} : task'[q] = task[q]
  BY <1>1 DEF Formed, TypeOK
<1>5. \A q \in Pid : Sound(task'[q])
  BY <1>2, <1>3, <1>4
<1> QED
  BY <1>4, <1>5 DEF u

LEMMA WriteUnfreezeTasks ==
  ASSUME Formed, NEW p \in Pid, WriteUnfreeze(p), task[p].fsn # 0
  PROVE  /\ task' = [q \in Pid |-> task'[q]]
         /\ task'[p] = UnfreezeTime(task[p], now)
         /\ \A q \in Pid \ {p} :
              task'[q] = IF q \in Subtree(p)
                         THEN PopulateFrozen(task[q], UnfreezeTime(task[p], now))
                         ELSE task[q]
         /\ \A q \in Pid : Sound(task'[q])
         /\ stopped' = stopped \ Group(p)
<1> DEFINE u == UnfreezeTime(task[p], now)
           below == Subtree(p) \ {p}
<1>1. /\ task' = [q \in Pid |-> CASE q = p       -> u
                                 [] q \in below -> PopulateFrozen(task[q], u)
                                 [] OTHER       -> task[q]]
      /\ stopped' = stopped \ Group(p)
  BY DEF WriteUnfreeze
<1>2. /\ Sound(task[p]) /\ now \in Int
      /\ \A q \in Pid : Sound(task[q])
  BY AllSound DEF Formed, TypeOK
<1>3. Sound(u)
  BY <1>2, UnfreezeFields
<1>4. \A q \in Pid : Sound(PopulateFrozen(task[q], u))
  BY <1>2, <1>3, PopulateFields
<1> HIDE DEF u
<1>5. /\ task' = [q \in Pid |-> task'[q]] /\ task'[p] = u
      /\ \A q \in Pid \ {p} :
           task'[q] = IF q \in Subtree(p) THEN PopulateFrozen(task[q], u) ELSE task[q]
  BY <1>1
<1>6. \A q \in Pid : Sound(task'[q])
  BY <1>2, <1>3, <1>4, <1>5
<1> QED
  BY <1>1, <1>5, <1>6 DEF u

\* The tasks that go when p exits: p and its threads.
Gone(p) == {q \in alive : leader[q] = p}

LEMMA ExitTasks ==
  ASSUME Formed, NEW p \in Pid, Exit(p)
  PROVE  /\ p \in alive /\ p \notin stopped /\ p # Root /\ p # Reaper
         /\ leader[p] = p
         /\ alive' = alive \ Gone(p)
         /\ parent' = [q \in Pid |-> IF parent[q] \in Gone(p) \/ q \in Gone(p)
                                     THEN Reaper ELSE parent[q]]
         /\ leader' = [q \in Pid |-> IF q \in Gone(p) THEN q ELSE leader[q]]
         /\ pgrp' = [q \in Pid |-> IF q \in Gone(p) THEN q ELSE pgrp[q]]
         /\ task' = [q \in Pid |-> task'[q]]
         /\ \A q \in Pid \ Gone(p) : task'[q] = task[q]
         /\ \A q \in Gone(p) : task'[q] = Blank
         /\ \A q \in Pid : Sound(task'[q])
         /\ ran' = [q \in Pid |-> IF q \in Gone(p) THEN 0 ELSE ran[q]]
         /\ debt' = [q \in Pid |-> IF q \in Gone(p) THEN 0 ELSE debt[q]]
         /\ Gone(p) \cap stopped = {}
         /\ Root \notin Gone(p) /\ Reaper \notin Gone(p)
         /\ \A q \in alive : q \in Gone(p) <=> leader[q] \in Gone(p)
<1>1. Sound(Blank)
  BY DEF Sound, Task, Blank
<1>2. Gone(p) \subseteq Pid /\ \A q \in Pid : Sound(task[q])
  BY AllSound DEF Formed, Gone, TypeOK
<1>3. task' = [q \in Pid |-> IF q \in Gone(p) THEN Blank ELSE task[q]]
  BY DEF Exit, Gone
<1>4. /\ task' = [q \in Pid |-> task'[q]]
      /\ \A q \in Pid \ Gone(p) : task'[q] = task[q]
      /\ \A q \in Gone(p) : task'[q] = Blank
      /\ \A q \in Pid : Sound(task'[q])
  BY <1>1, <1>2, <1>3
<1>5. /\ p \in alive /\ p \notin stopped /\ p # Root /\ p # Reaper
      /\ leader[p] = p
  BY DEF Exit, Running
<1>6. /\ alive' = alive \ Gone(p)
      /\ parent' = [q \in Pid |-> IF parent[q] \in Gone(p) \/ q \in Gone(p)
                                  THEN Reaper ELSE parent[q]]
      /\ leader' = [q \in Pid |-> IF q \in Gone(p) THEN q ELSE leader[q]]
      /\ pgrp' = [q \in Pid |-> IF q \in Gone(p) THEN q ELSE pgrp[q]]
      /\ ran' = [q \in Pid |-> IF q \in Gone(p) THEN 0 ELSE ran[q]]
      /\ debt' = [q \in Pid |-> IF q \in Gone(p) THEN 0 ELSE debt[q]]
  BY DEF Exit, Gone
<1>7. Gone(p) \cap stopped = {}
  BY <1>5 DEF Gone, Formed, Together
<1>8. /\ Root \notin Gone(p) /\ Reaper \notin Gone(p)
      /\ \A q \in alive : q \in Gone(p) <=> leader[q] \in Gone(p)
  BY <1>5 DEF Gone, Formed, Tree
<1> QED
  BY <1>4, <1>5, <1>6, <1>7, <1>8

----------------------------------------------------------------------------
(* The container stays well formed.                                        *)

LEMMA TickForms ==
  ASSUME Formed, Tick
  PROVE  Formed'
<1>1. UNCHANGED <<load, tree, stopped, task, oops, changes, debt>> /\ now' = now + 1
  BY DEF Tick
<1>2. ran' = [p \in Pid |-> IF p \in alive \ stopped /\ task[p].dilation # 0
                           THEN ran[p] + 1 ELSE ran[p]]
  BY DEF Tick
<1>3. ran' \in [Pid -> Int]
  BY <1>2 DEF Formed, TypeOK
<1>4. TypeOK'
  BY <1>1, <1>3 DEF Formed, TypeOK, tree
<1> QED
  BY <1>1, <1>4, FormedSame DEF Formed

LEMMA ForkTree ==
  ASSUME Formed, NEW p \in Pid, NEW c \in Pid, NEW thread \in BOOLEAN,
         Fork(p, c, thread)
  PROVE  /\ alive' = alive \cup {c} /\ UNCHANGED stopped
         /\ \A q \in alive : /\ parent'[q] = parent[q] /\ leader'[q] = leader[q]
                             /\ pgrp'[leader'[q]] = pgrp[leader[q]]
                             /\ c \notin {q, parent[q], leader[q]}
         /\ parent'[c] = (IF thread THEN parent[p] ELSE p)
         /\ leader'[c] = (IF thread THEN leader[p] ELSE c)
         /\ pgrp'[leader'[c]] = pgrp[leader[p]]
         /\ pgrp'[Root] = pgrp[Root]
<1>1. /\ p \in alive /\ c \notin alive /\ c # Root
  BY ForkTasks
<1>2. /\ alive' = alive \cup {c} /\ stopped' = stopped
      /\ parent' = [parent EXCEPT ![c] = IF thread THEN parent[p] ELSE p]
      /\ leader' = [leader EXCEPT ![c] = IF thread THEN leader[p] ELSE c]
      /\ pgrp' = [pgrp EXCEPT ![c] = pgrp[leader[p]]]
  BY DEF Fork
<1>3. /\ parent \in [Pid -> Pid] /\ leader \in [Pid -> Pid] /\ pgrp \in [Pid -> Pid]
      /\ alive \subseteq Pid /\ Root \in Pid
  BY PidAssumption DEF Formed, TypeOK
<1>4. \A q \in alive : parent[q] \in alive /\ leader[q] \in alive
  BY DEF Formed, Tree
<1>5. /\ \A q \in alive : parent'[q] = parent[q] /\ leader'[q] = leader[q]
                          /\ c \notin {q, parent[q], leader[q]}
      /\ parent'[c] = (IF thread THEN parent[p] ELSE p)
      /\ leader'[c] = (IF thread THEN leader[p] ELSE c)
      /\ pgrp'[Root] = pgrp[Root]
  BY <1>1, <1>2, <1>3, <1>4
<1>6. \A q \in alive : pgrp'[leader'[q]] = pgrp[leader[q]]
  BY <1>1, <1>2, <1>3, <1>4, <1>5
<1>7. pgrp'[leader'[c]] = pgrp[leader[p]]
  <2>1. CASE thread
    BY <2>1, <1>1, <1>2, <1>3, <1>4, <1>5
  <2>2. CASE ~thread
    BY <2>2, <1>1, <1>2, <1>3, <1>5
  <2> QED
    BY <2>1, <2>2
<1> QED
  BY <1>2, <1>5, <1>6, <1>7

LEMMA ForkForms ==
  ASSUME Formed, NEW p \in Pid, NEW c \in Pid, NEW thread \in BOOLEAN,
         Fork(p, c, thread)
  PROVE  Formed'
<1>1. /\ p \in alive /\ p \notin stopped /\ c \notin alive /\ c # Root /\ c # Reaper
      /\ task' = [q \in Pid |-> task'[q]] /\ \A q \in Pid : Sound(task'[q])
  BY ForkTasks
<1>2. /\ alive' = alive \cup {c} /\ stopped' = stopped
      /\ \A q \in alive : /\ parent'[q] = parent[q] /\ leader'[q] = leader[q]
                          /\ c \notin {q, parent[q], leader[q]}
      /\ parent'[c] = (IF thread THEN parent[p] ELSE p)
      /\ leader'[c] = (IF thread THEN leader[p] ELSE c)
      /\ pgrp'[Root] = pgrp[Root]
  BY ForkTree
<1>3. TypeOK'
  <2>1. /\ UNCHANGED <<load, now, oops, changes>> /\ Start({c})
        /\ parent' = [parent EXCEPT ![c] = IF thread THEN parent[p] ELSE p]
        /\ leader' = [leader EXCEPT ![c] = IF thread THEN leader[p] ELSE c]
        /\ pgrp' = [pgrp EXCEPT ![c] = pgrp[leader[p]]]
    BY DEF Fork
  <2>2. ran' \in [Pid -> Int] /\ debt' \in [Pid -> Int]
    BY <1>1, <2>1, StartTyped, PidAssumption DEF Formed
  <2>3. task' \in [Pid -> Task] /\ \A q \in Pid : task'[q].dilation >= 0
    BY <1>1, SoundTyped
  <2>4. parent' \in [Pid -> Pid] /\ leader' \in [Pid -> Pid] /\ pgrp' \in [Pid -> Pid]
    BY <2>1 DEF Formed, TypeOK
  <2> QED
    BY <1>2, <2>1, <2>2, <2>3, <2>4 DEF Formed, TypeOK
<1>4. Tree'
  <2>1. parent[p] \in alive /\ leader[p] \in alive /\ leader[leader[p]] = leader[p]
    BY <1>1 DEF Formed, Tree
  <2>2. parent'[c] \in alive' /\ leader'[c] \in alive' /\ leader'[leader'[c]] = leader'[c]
    BY <1>2, <2>1, <1>1
  <2>3. \A q \in alive : /\ parent'[q] \in alive' /\ leader'[q] \in alive'
                        /\ leader'[leader'[q]] = leader'[q]
    BY <1>2 DEF Formed, Tree
  <2>4. /\ {Root, Reaper} \subseteq alive /\ leader[Root] = Root /\ pgrp[Root] = Root
        /\ parent[Reaper] = Reaper /\ leader[Reaper] = Reaper
    BY DEF Formed, Tree
  <2> QED
    BY <1>2, <2>2, <2>3, <2>4 DEF Tree
<1>5. Together'
  <2>1. leader[p] \notin stopped /\ c \notin stopped
    BY <1>1 DEF Formed, Together, TypeOK
  <2>2. c \in stopped' <=> leader'[c] \in stopped'
    BY <1>2, <2>1
  <2> QED
    BY <1>2, <2>2 DEF Formed, Together
<1> QED
  BY <1>3, <1>4, <1>5 DEF Formed

LEMMA ExitForms ==
  ASSUME Formed, NEW p \in Pid, Exit(p)
  PROVE  Formed'
<1>1. /\ alive' = alive \ Gone(p)
      /\ parent' = [q \in Pid |-> IF parent[q] \in Gone(p) \/ q \in Gone(p)
                                  THEN Reaper ELSE parent[q]]
      /\ leader' = [q \in Pid |-> IF q \in Gone(p) THEN q ELSE leader[q]]
      /\ pgrp' = [q \in Pid |-> IF q \in Gone(p) THEN q ELSE pgrp[q]]
      /\ task' = [q \in Pid |-> task'[q]] /\ \A q \in Pid : Sound(task'[q])
      /\ ran' = [q \in Pid |-> IF q \in Gone(p) THEN 0 ELSE ran[q]]
      /\ debt' = [q \in Pid |-> IF q \in Gone(p) THEN 0 ELSE debt[q]]
      /\ Gone(p) \cap stopped = {}
      /\ Root \notin Gone(p) /\ Reaper \notin Gone(p)
      /\ \A q \in alive : q \in Gone(p) <=> leader[q] \in Gone(p)
  BY ExitTasks
<1>2. UNCHANGED <<load, now, stopped, oops, changes>>
  BY DEF Exit
<1>3. TypeOK'
  <2>1. task' \in [Pid -> Task] /\ \A q \in Pid : task'[q].dilation >= 0
    BY <1>1, SoundTyped
  <2>2. parent' \in [Pid -> Pid] /\ leader' \in [Pid -> Pid] /\ pgrp' \in [Pid -> Pid]
    BY <1>1, PidAssumption DEF Formed, TypeOK
  <2>3. ran' \in [Pid -> Int] /\ debt' \in [Pid -> Int]
    BY <1>1 DEF Formed, TypeOK
  <2> QED
    BY <1>1, <1>2, <2>1, <2>2, <2>3 DEF Formed, TypeOK
<1>4. Tree'
  <2>1. \A q \in alive' : /\ q \in alive /\ q \in Pid /\ q \notin Gone(p)
                         /\ leader'[q] = leader[q] /\ leader[q] \in alive'
    BY <1>1 DEF Formed, Tree, TypeOK
  <2>2. \A q \in alive' : parent'[q] \in alive'
    BY <1>1, <2>1 DEF Formed, Tree
  <2>3. \A q \in alive' : leader'[leader'[q]] = leader'[q]
    BY <2>1 DEF Formed, Tree
  <2>4. /\ {Root, Reaper} \subseteq alive' /\ leader'[Root] = Root /\ pgrp'[Root] = Root
        /\ parent'[Reaper] = Reaper /\ leader'[Reaper] = Reaper
    BY <1>1, PidAssumption DEF Formed, Tree
  <2> QED
    BY <2>1, <2>2, <2>3, <2>4 DEF Tree
<1>5. Together'
  BY <1>1, <1>2 DEF Formed, Together, TypeOK
<1> QED
  BY <1>3, <1>4, <1>5 DEF Formed

LEMMA SetsidForms ==
  ASSUME Formed, NEW p \in Pid, Setsid(p)
  PROVE  Formed' /\ p # Root /\ p \in alive \ stopped /\ leader[p] = p
<1>1. /\ pgrp' = [pgrp EXCEPT ![p] = p]
      /\ UNCHANGED <<load, now, alive, parent, leader, stopped, task,
                      oops, changes, ran, debt>>
      /\ p \in alive \ stopped /\ leader[p] = p /\ Group(p) = {}
  BY DEF Setsid, Running
<1>2. p # Root
  BY <1>1 DEF Group, Formed, Tree
<1>3. TypeOK'
  BY <1>1 DEF Formed, TypeOK
<1>4. Tree'
  BY <1>1, <1>2, PidAssumption DEF Formed, Tree, TypeOK
<1>5. Together'
  BY <1>1 DEF Formed, Together
<1> QED
  BY <1>1, <1>2, <1>3, <1>4, <1>5 DEF Formed

LEMMA ReadForms ==
  ASSUME Formed, NEW p \in Pid, Read(p) \/ ForkFail(p)
  PROVE  Formed'
<1>1. /\ UNCHANGED <<load, now, tree, stopped, changes, ran, debt>>
      /\ oops' \in BOOLEAN
      /\ task' = [task EXCEPT ![p] = Timekeep(@, now)]
  <2>1. CASE Read(p)
    BY <2>1 DEF Read, Formed, TypeOK
  <2>2. CASE ForkFail(p)
    <3>1. oops' = (oops \/ task[p].dilation > 0)
      BY <2>2 DEF ForkFail
    <3>2. oops' \in BOOLEAN
      BY <3>1, Zenon
    <3> QED
      BY <2>2, <3>2 DEF ForkFail
  <2> QED
    BY <2>1, <2>2
<1>2. /\ task' = [q \in Pid |-> task'[q]] /\ \A q \in Pid : Sound(task'[q])
  BY <1>1, ReadTasks
<1>3. TypeOK'
  BY <1>1, <1>2, TypeFrame DEF Formed, TypeOK
<1> QED
  BY <1>1, <1>3, FormedSame DEF Formed

LEMMA UnshareForms ==
  ASSUME Formed, Unshare
  PROVE  Formed'
<1>1. UNCHANGED <<load, now, tree, stopped, oops, changes>> /\ Start({Root})
  BY DEF Unshare
<1>2. /\ task' = [q \in Pid |-> task'[q]] /\ \A q \in Pid : Sound(task'[q])
  BY UnshareTasks
<1>3. ran' \in [Pid -> Int] /\ debt' \in [Pid -> Int]
  BY <1>1, <1>2, StartTyped, PidAssumption DEF Formed
<1>4. TypeOK'
  BY <1>1, <1>2, <1>3, TypeFrame DEF Formed, TypeOK
<1> QED
  BY <1>1, <1>4, FormedSame DEF Formed

LEMMA WriteDilationForms ==
  ASSUME Formed, NEW p \in Pid, NEW tdf \in load.tdfs, WriteDilation(p, tdf)
  PROVE  Formed'
<1>1. UNCHANGED <<load, now, tree, stopped, oops>>
  BY DEF WriteDilation
<1>2. /\ task' = [q \in Pid |-> task'[q]] /\ \A q \in Pid : Sound(task'[q])
      /\ Start(Reached(p, tdf))
  BY WriteDilationTasks
<1>3. changes' \in Nat
  BY DEF WriteDilation, Formed, TypeOK
<1>4. ran' \in [Pid -> Int] /\ debt' \in [Pid -> Int]
  BY <1>1, <1>2, StartTyped, PidAssumption DEF Formed
<1>5. TypeOK'
  BY <1>1, <1>2, <1>3, <1>4, TypeFrame DEF Formed, TypeOK
<1> QED
  BY <1>1, <1>5, FormedSame DEF Formed

LEMMA WriteFreezeForms ==
  ASSUME Formed, NEW p \in Pid, WriteFreeze(p)
  PROVE  Formed'
<1>1. /\ UNCHANGED <<load, now, tree, oops, changes, ran, debt>>
      /\ stopped' = IF task[p].fsn > 0 THEN stopped ELSE stopped \cup Group(p)
  BY DEF WriteFreeze
<1>2. /\ task' = [q \in Pid |-> task'[q]] /\ \A q \in Pid : Sound(task'[q])
  BY WriteFreezeTasks
<1>3. Group(p) \subseteq alive
  BY DEF Group
<1>4. TypeOK'
  BY <1>1, <1>2, <1>3, TypeFrame DEF Formed, TypeOK
<1>5. Tree'
  BY <1>1 DEF Formed, Tree, tree
<1>6. Together'
  BY <1>1, GroupTogether DEF Formed, Together, tree
<1> QED
  BY <1>4, <1>5, <1>6 DEF Formed

LEMMA WriteUnfreezeForms ==
  ASSUME Formed, NEW p \in Pid, WriteUnfreeze(p)
  PROVE  Formed'
<1>1. UNCHANGED <<load, now, tree, oops, changes, ran, debt>>
  BY DEF WriteUnfreeze
<1>2. CASE task[p].fsn = 0
  BY <1>1, <1>2 DEF WriteUnfreeze, Formed, TypeOK, Tree, Together, tree
<1>3. CASE task[p].fsn # 0
  <2>1. /\ task' = [q \in Pid |-> task'[q]] /\ \A q \in Pid : Sound(task'[q])
        /\ stopped' = stopped \ Group(p)
    BY <1>3, WriteUnfreezeTasks
  <2>2. TypeOK'
    BY <1>1, <2>1, TypeFrame DEF Formed, TypeOK
  <2>3. Tree'
    BY <1>1 DEF Formed, Tree, tree
  <2>4. Together'
    BY <1>1, <2>1, GroupTogether DEF Formed, Together, tree
  <2> QED
    BY <2>2, <2>3, <2>4 DEF Formed
<1> QED
  BY <1>2, <1>3

LEMMA InitForms == Init => Formed
<1> SUFFICES ASSUME Init PROVE Formed
  OBVIOUS
<1>1. Blank \in Task /\ Blank.dilation = 0
  BY DEF Blank, Task
<1>2. TypeOK
  <2>1. task \in [Pid -> Task] /\ \A q \in Pid : task[q].dilation >= 0
    BY <1>1 DEF Init
  <2>2. /\ load \in Workloads /\ now \in Nat /\ alive \subseteq Pid
        /\ stopped \subseteq alive /\ changes \in Nat /\ oops \in BOOLEAN
    BY PidAssumption, BoundAssumption DEF Init
  <2>3. /\ parent \in [Pid -> Pid] /\ leader \in [Pid -> Pid] /\ pgrp \in [Pid -> Pid]
        /\ ran \in [Pid -> Int] /\ debt \in [Pid -> Int]
    BY PidAssumption DEF Init
  <2> QED
    BY <2>1, <2>2, <2>3 DEF TypeOK
<1>3. Tree /\ Together
  BY PidAssumption DEF Init, Tree, Together
<1> QED
  BY <1>2, <1>3 DEF Formed

LEMMA StepForms == Formed /\ [Next]_vars => Formed'
<1> SUFFICES ASSUME Formed, [Next]_vars PROVE Formed'
  OBVIOUS
<1>1. CASE Tick
  BY <1>1, TickForms
<1>2. ASSUME NEW p \in Pid, NEW c \in Pid, NEW thread \in BOOLEAN, Fork(p, c, thread)
      PROVE  Formed'
  BY <1>2, ForkForms
<1>3. ASSUME NEW p \in Pid, ForkFail(p) \/ Exit(p) \/ Setsid(p) \/ Read(p)
      PROVE  Formed'
  BY <1>3, ReadForms, ExitForms, SetsidForms
<1>4. CASE Unshare
  BY <1>4, UnshareForms
<1>5. ASSUME NEW p \in Targets, NEW tdf \in load.tdfs, WriteDilation(p, tdf)
      PROVE  Formed'
  BY <1>5, WriteDilationForms, PidAssumption
<1>6. ASSUME NEW p \in Targets, WriteFreeze(p) \/ WriteUnfreeze(p)
      PROVE  Formed'
  BY <1>6, WriteFreezeForms, WriteUnfreezeForms, PidAssumption
<1>7. CASE UNCHANGED vars
  BY <1>7 DEF vars, tree, Formed, TypeOK, Tree, Together
<1> QED
  BY <1>1, <1>2, <1>3, <1>4, <1>5, <1>6, <1>7 DEF Next

\* The fields have their types, the stopped tasks are alive, and no negative
\* TDF is stored, whatever the tools write to whichever process.
THEOREM AlwaysTypeOK == Spec => []TypeOK
<1>1. Init => Formed
  BY InitForms
<1>2. Formed /\ [Next]_vars => Formed'
  BY StepForms
<1>3. Formed => TypeOK
  BY DEF Formed
<1> QED
  BY <1>1, <1>2, <1>3, PTL DEF Spec

----------------------------------------------------------------------------
(* How the tree below Root changes.                                        *)

LEMMA ForkSubtree ==
  ASSUME Formed, NEW p \in Pid, NEW c \in Pid, NEW thread \in BOOLEAN,
         Fork(p, c, thread)
  PROVE  /\ Subtree(Root)' \subseteq Subtree(Root) \cup {c}
         /\ c \in Subtree(Root)' => p \in Subtree(Root)
<1> DEFINE B == Subtree(Root)
           T == IF p \in B THEN B \cup {c} ELSE B
<1>1. /\ Root \in B /\ B \subseteq alive /\ \A q \in B : Children(q) \subseteq B
  BY SubtreeClosed DEF Formed
<1>2. p \in alive /\ c \notin alive
  BY ForkTasks
<1>3. /\ alive' = alive \cup {c}
      /\ \A q \in alive : /\ parent'[q] = parent[q] /\ leader'[q] = leader[q]
                          /\ c \notin {q, parent[q], leader[q]}
      /\ parent'[c] = (IF thread THEN parent[p] ELSE p)
      /\ leader'[c] = (IF thread THEN leader[p] ELSE c)
  BY ForkTree
<1> HIDE DEF B
<1>4. ASSUME NEW q \in T, NEW x \in Children(q)'
      PROVE  x \in T
  <2>1. x \in alive' /\ x # q /\ parent'[x] = q /\ leader'[x] = x
    BY DEF Children
  <2>2. CASE x = c
    <3>1. ~thread
      BY <1>2, <1>3, <2>1, <2>2
    <3>2. q = p
      BY <1>3, <2>1, <2>2, <3>1
    <3> QED
      BY <1>1, <1>2, <2>2, <3>2
  <2>3. CASE x # c
    <3>1. x \in alive /\ parent[x] = q /\ leader[x] = x /\ q # c
      BY <1>3, <2>1, <2>3
    <3>2. x \in Children(q) /\ q \in B
      BY <2>1, <3>1 DEF Children
    <3> QED
      BY <1>1, <3>2
  <2> QED
    BY <2>2, <2>3
<1>5. Root \in T /\ T \subseteq alive'
  BY <1>1, <1>3
<1>6. Subtree(Root)' \subseteq T
  BY <1>4, <1>5, LeastNext DEF Least
<1> QED
  BY <1>1, <1>2, <1>6 DEF B

LEMMA ExitSubtree ==
  ASSUME Formed, NEW p \in Pid, Exit(p)
  PROVE  Subtree(Root)' \subseteq Subtree(Root) \ Gone(p)
<1> DEFINE B == Subtree(Root)
           T == B \ Gone(p)
<1>1. /\ Root \in B /\ B \subseteq alive /\ \A q \in B : Children(q) \subseteq B
      /\ Reaper \notin B
  BY SubtreeClosed, ReaperOutside DEF Formed
<1>2. /\ alive' = alive \ Gone(p)
      /\ parent' = [q \in Pid |-> IF parent[q] \in Gone(p) \/ q \in Gone(p)
                                  THEN Reaper ELSE parent[q]]
      /\ leader' = [q \in Pid |-> IF q \in Gone(p) THEN q ELSE leader[q]]
      /\ Root \notin Gone(p)
  BY ExitTasks
<1>3. alive \subseteq Pid
  BY DEF Formed, TypeOK
<1> HIDE DEF B
<1>4. ASSUME NEW q \in T, NEW x \in Children(q)'
      PROVE  x \in T
  <2>1. x \in alive' /\ x # q /\ parent'[x] = q /\ leader'[x] = x
    BY DEF Children
  <2>2. x \in alive /\ x \in Pid /\ x \notin Gone(p) /\ q # Reaper
    BY <1>1, <1>2, <1>3, <2>1
  <2>3. parent[x] = q /\ leader[x] = x
    BY <1>2, <2>1, <2>2
  <2>4. x \in Children(q)
    BY <2>1, <2>2, <2>3 DEF Children
  <2> QED
    BY <1>1, <2>2, <2>4
<1>5. Root \in T /\ T \subseteq alive'
  BY <1>1, <1>2
<1>6. Subtree(Root)' \subseteq T
  BY <1>4, <1>5, LeastNext DEF Least
<1> QED
  BY <1>6 DEF B

\* Where the tree below Root has one TDF, a write of a TDF to Root reaches
\* all of it or none of it.
LEMMA ReachedAll ==
  ASSUME Formed, Shared, NEW tdf
  PROVE  /\ Root \in Willing(tdf) => Reached(Root, tdf) = Subtree(Root)
         /\ Root \notin Willing(tdf) => Reached(Root, tdf) = {}
<1> DEFINE W == Willing(tdf)
           V == Visited(Root, W)
           B == Subtree(Root)
<1>1. /\ Root \in B /\ B \subseteq alive /\ \A q \in B : Children(q) \subseteq B
  BY SubtreeClosed DEF Formed
<1>2. \A q \in B : q \in W <=> Root \in W
  <2>1. \A q \in B : q \in Pid /\ task[q].dilation = task[Root].dilation
    BY <1>1 DEF Formed, TypeOK, Shared
  <2> HIDE DEF B
  <2> QED
    BY <2>1, PidAssumption DEF Willing, DilationRejected
<1>3. Reached(Root, tdf) = V \cap W
  BY DEF Reached
<1>4. Root \in V /\ V \subseteq alive /\ \A q \in V \cap W : Children(q) \subseteq V
  BY VisitedClosed DEF Formed, Tree, Closed
<1> HIDE DEF W, B
<1>5. CASE Root \in W
  <2>1. Closed(B, W)
    BY <1>1 DEF Closed
  <2>2. V \subseteq B
    BY <1>1, <2>1, VisitedLeast
  <2> HIDE DEF V
  <2>3. \A q \in V : Children(q) \subseteq V
    BY <1>2, <1>4, <1>5, <2>2
  <2>4. B \subseteq V
    BY <1>4, <2>3, SubtreeLeast DEF B
  <2> QED
    BY <1>2, <1>3, <1>5, <2>2, <2>4 DEF W, B
<1>6. CASE Root \notin W
  <2>1. Closed({Root}, W)
    BY <1>1, <1>6 DEF Closed
  <2>2. V \subseteq {Root}
    BY <2>1, VisitedLeast
  <2> QED
    BY <1>3, <1>6, <2>2 DEF W
<1> QED
  BY <1>5, <1>6 DEF W

LEMMA SharedFrame ==
  ASSUME Formed, Shared, Subtree(Root)' \subseteq Subtree(Root),
         \A q \in Subtree(Root)' \cup {Root} : task'[q].dilation = task[q].dilation
  PROVE  Shared'
BY DEF Shared

\* A new task has the TDF of the task that forked it, and empty accounts.
LEMMA ForkedFields ==
  ASSUME Formed, NEW p \in Pid, NEW c \in Pid, NEW thread \in BOOLEAN,
         Fork(p, c, thread)
  PROVE  /\ task'[c].dilation = task[p].dilation
         /\ task[p].dilation # 0 =>
              task'[c].psn = now /\ task'[c].fsn = 0 /\ task'[c].fpn = 0
         /\ task[p].dilation = 0 => task'[c] = task[p]
<1> DEFINE v == Reading(task[p], now)
<1>1. /\ Sound(task[p]) /\ now \in Int /\ task[p].dilation \in Int
      /\ task[p].dilation >= 0
  BY AllSound DEF Formed, TypeOK, Task
<1>2. v \in Int
  BY <1>1, ReadingTyped
<1>3. task'[c] = InitVirtualStart(task[p], now, v, task[p].dilation)
  BY ForkTasks
<1> HIDE DEF v
<1> QED
  BY <1>1, <1>2, <1>3, InitVirtualStartFields

LEMMA ForkShares ==
  ASSUME Formed, Shared, NEW p \in Pid, NEW c \in Pid, NEW thread \in BOOLEAN,
         Fork(p, c, thread)
  PROVE  Shared'
<1>1. /\ Subtree(Root)' \subseteq Subtree(Root) \cup {c}
      /\ c \in Subtree(Root)' => p \in Subtree(Root)
  BY ForkSubtree
<1>2. /\ c # Root /\ c \notin alive /\ Root \in Pid /\ Subtree(Root) \subseteq Pid
      /\ Subtree(Root) \subseteq alive
  BY ForkTasks, SubtreeClosed, PidAssumption DEF Formed, TypeOK
<1>3. \A q \in Pid \ {c} : task'[q].dilation = task[q].dilation
  BY ForkTasks DEF Kept
<1>4. task'[c].dilation = task[p].dilation
  BY ForkedFields
<1>5. \A q \in Subtree(Root)' : task'[q].dilation = task'[Root].dilation
  BY <1>1, <1>2, <1>3, <1>4 DEF Shared
<1> QED
  BY <1>5 DEF Shared

LEMMA ExitShares ==
  ASSUME Formed, Shared, NEW p \in Pid, Exit(p)
  PROVE  Shared'
<1>1. /\ Subtree(Root)' \subseteq Subtree(Root) \ Gone(p)
      /\ Subtree(Root) \subseteq Pid /\ Root \in Pid
  BY ExitSubtree, SubtreeClosed, PidAssumption DEF Formed, TypeOK
<1>2. Root \notin Gone(p) /\ \A q \in Pid \ Gone(p) : task'[q] = task[q]
  BY ExitTasks
<1>3. \A q \in Subtree(Root)' \cup {Root} : task'[q].dilation = task[q].dilation
  BY <1>1, <1>2
<1> QED
  BY <1>1, <1>3, SharedFrame

LEMMA SubtreePid == Formed => /\ Subtree(Root) \subseteq Pid /\ Root \in Pid
                              /\ Subtree(Root) \subseteq alive /\ Root \in alive
                              /\ Root \in Subtree(Root)
BY SubtreeClosed, PidAssumption DEF Formed, TypeOK, Tree

\* Steps that leave tree and factors alone.
LEMMA StillShared ==
  ASSUME Formed, Shared, UNCHANGED <<alive, parent, leader>>,
         \A q \in Pid : task'[q].dilation = task[q].dilation
  PROVE  Shared'
BY SharedFrame, TreeSame, SubtreePid

LEMMA UnshareShares ==
  ASSUME Formed, Shared, Unshare
  PROVE  Shared' /\ Subtree(Root)' = {Root} /\ Subtree(Root) = {Root}
<1>1. Children(Root) = {} /\ UNCHANGED <<alive, parent, leader>>
  BY DEF Unshare, tree
<1>2. Subtree(Root) \subseteq {Root}
  BY <1>1, SubtreeLeast, SubtreePid
<1>3. Subtree(Root)' = {Root}
  BY <1>1, <1>2, SubtreePid, TreeSame
<1> QED
  BY <1>1, <1>2, <1>3, SubtreePid DEF Shared

LEMMA WriteDilationShares ==
  ASSUME Formed, Shared, NEW tdf \in load.tdfs, WriteDilation(Root, tdf)
  PROVE  Shared'
<1>1. /\ tdf \in Int
      /\ \A q \in Pid : task'[q] = IF q \in Reached(Root, tdf)
                                   THEN SetDilation(task[q], now, now, tdf)
                                   ELSE task[q]
  BY WriteDilationTasks, SubtreePid
<1>2. UNCHANGED <<alive, parent, leader>>
  BY DEF WriteDilation, tree
<1>3. CASE Root \in Willing(tdf)
  <2>1. Reached(Root, tdf) = Subtree(Root)
    BY <1>3, ReachedAll
  <2>2. /\ Subtree(Root)' = Subtree(Root) /\ Subtree(Root) \subseteq Pid
        /\ Root \in Subtree(Root)
    BY <1>2, TreeSame, SubtreePid
  <2>3. Subtree(Root) \subseteq Willing(tdf)
    BY <2>1 DEF Reached
  <2>4. \A q \in Subtree(Root) : task'[q].dilation = IF tdf >= 0 THEN tdf ELSE 0
    <3>1. SUFFICES ASSUME NEW q \in Subtree(Root)
                   PROVE  task'[q].dilation = IF tdf >= 0 THEN tdf ELSE 0
      OBVIOUS
    <3>2. /\ q \in Pid /\ task[q].dilation # tdf /\ ~DilationRejected(task[q], tdf)
      BY <2>2, <2>3 DEF Willing
    <3>3. Sound(task[q]) /\ now \in Int
      BY <3>2, AllSound DEF Formed, TypeOK
    <3>4. task'[q] = SetDilation(task[q], now, now, tdf)
      BY <1>1, <2>1, <3>2
    <3> QED
      BY <1>1, <3>2, <3>3, <3>4, SetDilationFields
  <2> QED
    BY <2>2, <2>4 DEF Shared
<1>4. CASE Root \notin Willing(tdf)
  BY <1>1, <1>2, <1>4, ReachedAll, StillShared
<1> QED
  BY <1>3, <1>4

LEMMA FreezeKeepsFactors ==
  ASSUME Formed, NEW p \in Pid, WriteFreeze(p) \/ WriteUnfreeze(p)
  PROVE  \A q \in Pid : task'[q].dilation = task[q].dilation
<1>1. /\ now \in Int /\ \A q \in Pid : Sound(task[q])
  BY AllSound DEF Formed, TypeOK
<1>2. CASE WriteFreeze(p)
  BY <1>1, <1>2, WriteFreezeTasks, FreezeFields
<1>3. CASE WriteUnfreeze(p) /\ task[p].fsn = 0
  BY <1>3 DEF WriteUnfreeze
<1>4. CASE WriteUnfreeze(p) /\ task[p].fsn # 0
  <2> DEFINE u == UnfreezeTime(task[p], now)
  <2>1. Sound(u) /\ u.dilation = task[p].dilation
    BY <1>1, <1>4, UnfreezeFields
  <2>2. /\ task'[p] = u
        /\ \A q \in Pid \ {p} :
             task'[q] = IF q \in Subtree(p) THEN PopulateFrozen(task[q], u) ELSE task[q]
    BY <1>4, WriteUnfreezeTasks
  <2> HIDE DEF u
  <2>3. \A q \in Pid : PopulateFrozen(task[q], u).dilation = task[q].dilation
    BY <1>1, <2>1, PopulateFields
  <2> QED
    BY <2>1, <2>2, <2>3
<1> QED
  BY <1>2, <1>3, <1>4

LEMMA StepShares ==
  ASSUME OnlyRoot, Formed, Shared, [Next]_vars
  PROVE  Shared'
<1>1. CASE Tick
  BY <1>1, StillShared DEF Tick, tree
<1>2. ASSUME NEW p \in Pid, NEW c \in Pid, NEW thread \in BOOLEAN, Fork(p, c, thread)
      PROVE  Shared'
  BY <1>2, ForkShares
<1>3. ASSUME NEW p \in Pid, ForkFail(p) \/ Read(p)
      PROVE  Shared'
  <2>1. /\ task' = [task EXCEPT ![p] = Timekeep(@, now)]
        /\ UNCHANGED <<alive, parent, leader>>
    BY <1>3 DEF ForkFail, Read, tree
  <2>2. \A q \in Pid : task'[q].dilation = task[q].dilation
    BY <2>1, ReadTasks DEF Kept
  <2> QED
    BY <2>1, <2>2, StillShared
<1>4. ASSUME NEW p \in Pid, Exit(p)
      PROVE  Shared'
  BY <1>4, ExitShares
<1>5. ASSUME NEW p \in Pid, Setsid(p)
      PROVE  Shared'
  BY <1>5, StillShared DEF Setsid
<1>6. CASE Unshare
  BY <1>6, UnshareShares
<1>7. ASSUME NEW p \in Targets, NEW tdf \in load.tdfs, WriteDilation(p, tdf)
      PROVE  Shared'
  BY <1>7, WriteDilationShares DEF OnlyRoot
<1>8. ASSUME NEW p \in Targets, WriteFreeze(p) \/ WriteUnfreeze(p)
      PROVE  Shared'
  <2>1. p \in Pid
    BY PidAssumption
  <2>2. UNCHANGED <<alive, parent, leader>>
    BY <1>8 DEF WriteFreeze, WriteUnfreeze, tree
  <2>3. \A q \in Pid : task'[q].dilation = task[q].dilation
    BY <1>8, <2>1, FreezeKeepsFactors
  <2> QED
    BY <2>2, <2>3, StillShared
<1>9. CASE UNCHANGED vars
  BY <1>9, StillShared DEF vars, tree
<1> QED
  BY <1>1, <1>2, <1>3, <1>4, <1>5, <1>6, <1>7, <1>8, <1>9 DEF Next

\* Written to the first process of the container, a TDF reaches every process
\* in the tree below it, though set_dilation does not go below a process that
\* has the TDF already or refuses it: at no time is there one with another.
THEOREM AlwaysMembersShareFactor ==
  ASSUME OnlyRoot
  PROVE  Spec => []MembersShareFactor
<1>1. Init => Formed /\ Shared
  <2>1. Init => \A q \in Pid : task[q] = Blank
    BY DEF Init
  <2> QED
    BY <2>1, InitForms, SubtreePid DEF Shared
<1>2. (Formed /\ Shared) /\ [Next]_vars => (Formed /\ Shared)'
  BY StepForms, StepShares
<1>3. Formed /\ Shared => MembersShareFactor
  BY DEF Formed, Shared, MembersShareFactor
<1> QED
  BY <1>1, <1>2, <1>3, PTL DEF Spec

----------------------------------------------------------------------------
(* What is stopped.                                                        *)

LEMMA RootInGroup == Formed => Root \in Group(Root) /\ Group(Root) \subseteq alive
BY DEF Formed, Tree, Group

LEMMA UnstoppedUnfrozen ==
  ASSUME Formed, Frozen, NEW p \in Pid, p \notin stopped
  PROVE  task[p].fsn = 0
BY RootInGroup DEF Frozen

LEMMA FrozenFrame ==
  ASSUME Formed, Frozen, now' = now, stopped' = stopped,
         \A q \in Pid : task'[q].fsn = task[q].fsn,
         task[Root].fsn # 0 => Group(Root)' = Group(Root)
  PROVE  Frozen'
BY SubtreePid DEF Frozen

LEMMA ForkGroup ==
  ASSUME Formed, NEW p \in Pid, NEW c \in Pid, NEW thread \in BOOLEAN,
         Fork(p, c, thread)
  PROVE  /\ Group(Root)' \subseteq Group(Root) \cup {c}
         /\ Group(Root) \subseteq Group(Root)'
         /\ c \in Group(Root)' => p \in Group(Root)
<1>1. p \in alive
  BY ForkTasks
<1>2. /\ alive' = alive \cup {c} /\ pgrp'[leader'[c]] = pgrp[leader[p]]
      /\ \A q \in alive : pgrp'[leader'[q]] = pgrp[leader[q]]
  BY ForkTree
<1> QED
  BY <1>1, <1>2 DEF Group

LEMMA ExitGroup ==
  ASSUME Formed, NEW p \in Pid, Exit(p)
  PROVE  Group(Root)' = Group(Root) \ Gone(p)
<1>1. /\ alive' = alive \ Gone(p)
      /\ leader' = [q \in Pid |-> IF q \in Gone(p) THEN q ELSE leader[q]]
      /\ pgrp' = [q \in Pid |-> IF q \in Gone(p) THEN q ELSE pgrp[q]]
      /\ \A q \in alive : q \in Gone(p) <=> leader[q] \in Gone(p)
  BY ExitTasks
<1>2. \A q \in alive : q \in Pid /\ leader[q] \in Pid
  BY DEF Formed, TypeOK
<1>3. \A q \in alive' : pgrp'[leader'[q]] = pgrp[leader[q]]
  BY <1>1, <1>2
<1> QED
  BY <1>1, <1>3 DEF Group

LEMMA SetsidGroup ==
  ASSUME Formed, NEW p \in Pid, Setsid(p)
  PROVE  /\ Group(Root)' \subseteq Group(Root)
         /\ p \notin Group(Root) => Group(Root)' = Group(Root)
<1>1. /\ pgrp' = [pgrp EXCEPT ![p] = p] /\ alive' = alive /\ leader' = leader
      /\ p # Root /\ p \in alive /\ leader[p] = p
  BY SetsidForms DEF Setsid
<1>2. \A q \in alive : leader[q] \in Pid
  BY DEF Formed, TypeOK
<1>3. \A q \in alive : /\ leader[q] = p => pgrp'[leader'[q]] = p
                      /\ leader[q] # p => pgrp'[leader'[q]] = pgrp[leader[q]]
  BY <1>1, <1>2 DEF Formed, TypeOK
<1> QED
  BY <1>1, <1>3 DEF Group

LEMMA ForkFreezes ==
  ASSUME Formed, Frozen, NEW p \in Pid, NEW c \in Pid, NEW thread \in BOOLEAN,
         Fork(p, c, thread)
  PROVE  Frozen'
<1>1. /\ p \notin stopped /\ c # Root /\ c \notin alive
      /\ \A q \in Pid \ {c} : task'[q].fsn = task[q].fsn
  BY ForkTasks DEF Kept
<1>2. task[p].fsn = 0
  BY <1>1, UnstoppedUnfrozen
<1>3. task'[c].fsn = 0
  BY <1>2, ForkedFields
<1>4. \A q \in Pid : task'[q].fsn = task[q].fsn
  BY <1>1, <1>3 DEF Frozen
<1>5. task[Root].fsn # 0 => Group(Root)' = Group(Root)
  BY <1>1, ForkGroup, RootInGroup DEF Frozen
<1>6. now' = now /\ stopped' = stopped
  BY DEF Fork
<1> QED
  BY <1>4, <1>5, <1>6, FrozenFrame

LEMMA ExitFreezes ==
  ASSUME Formed, Frozen, NEW p \in Pid, Exit(p)
  PROVE  Frozen'
<1>1. /\ \A q \in Pid \ Gone(p) : task'[q] = task[q]
      /\ \A q \in Gone(p) : task'[q] = Blank
      /\ Gone(p) \cap stopped = {} /\ Root \notin Gone(p)
  BY ExitTasks
<1>2. \A q \in Pid : task'[q].fsn = task[q].fsn
  BY <1>1 DEF Frozen, Blank
<1>3. task[Root].fsn # 0 => Group(Root)' = Group(Root)
  BY <1>1, ExitGroup DEF Frozen
<1>4. now' = now /\ stopped' = stopped
  BY DEF Exit
<1> QED
  BY <1>2, <1>3, <1>4, FrozenFrame

LEMMA SetsidFreezes ==
  ASSUME Formed, Frozen, NEW p \in Pid, Setsid(p)
  PROVE  Frozen'
<1>1. p \notin stopped
  BY SetsidForms
<1>2. task[Root].fsn # 0 => Group(Root)' = Group(Root)
  BY <1>1, SetsidGroup DEF Frozen
<1>3. now' = now /\ stopped' = stopped /\ task' = task
  BY DEF Setsid
<1> QED
  BY <1>2, <1>3, FrozenFrame

\* Steps that leave tree, stopped tasks and recorded freezes alone.
LEMMA StillFrozen ==
  ASSUME Formed, Frozen, UNCHANGED <<now, tree, stopped>>,
         \A q \in Pid : task'[q].fsn = task[q].fsn
  PROVE  Frozen'
BY FrozenFrame, GroupSame DEF tree

\* A write of a TDF that crosses no freeze leaves recorded freezes alone.
LEMMA WriteDilationKeepsFreeze ==
  ASSUME NoCrossing, Formed, Shared, Frozen,
         NEW tdf \in load.tdfs, WriteDilation(Root, tdf)
  PROVE  /\ \A q \in Pid : task'[q].fsn = task[q].fsn
         /\ Root \in Willing(tdf) /\ task[Root].fsn # 0 =>
              task[Root].dilation # 0 /\ tdf > 0
<1>1. /\ tdf \in Int
      /\ \A q \in Pid : task'[q] = IF q \in Reached(Root, tdf)
                                   THEN SetDilation(task[q], now, now, tdf)
                                   ELSE task[q]
  BY WriteDilationTasks, SubtreePid
<1>2. CASE Root \notin Willing(tdf)
  BY <1>1, <1>2, ReachedAll
<1>3. CASE Root \in Willing(tdf)
  <2>1. Reached(Root, tdf) = Subtree(Root)
    BY <1>3, ReachedAll
  <2>2. Root \in Reached(Root, tdf) /\ Reached(Root, tdf) \subseteq Willing(tdf)
    BY <2>1, SubtreePid DEF Reached
  <2>3. "cross" \notin load.uses
    BY DEF NoCrossing, Formed, TypeOK
  <2>4. task[Root].fsn # 0 => ~((task[Root].dilation = 0) # (tdf = 0))
    <3>1. task[Root].fsn # 0 => Root \in stopped
      BY RootInGroup DEF Frozen
    <3> QED
      BY <2>2, <2>3, <3>1 DEF WriteDilation, Reached
  <2>5. task[Root].fsn # 0 => task[Root].dilation # 0 /\ tdf > 0
    BY <1>1, <1>3, <2>4 DEF Willing, DilationRejected
  <2>6. \A q \in Reached(Root, tdf) : task'[q].fsn = task[q].fsn
    <3>1. SUFFICES ASSUME NEW q \in Reached(Root, tdf)
                   PROVE  task'[q].fsn = task[q].fsn
      OBVIOUS
    <3>2. /\ q \in Pid /\ task[q].dilation # tdf /\ ~DilationRejected(task[q], tdf)
          /\ task[q].dilation = task[Root].dilation
      BY <2>1, <2>2, SubtreePid DEF Willing, Shared
    <3>3. Sound(task[q]) /\ now \in Int
      BY <3>2, AllSound DEF Formed, TypeOK
    <3> DEFINE u == SetDilation(task[q], now, now, tdf)
    <3>4. task'[q] = u
      BY <1>1, <3>2
    <3>5. /\ tdf < 0 => u = task[q]
          /\ tdf > 0 /\ task[q].dilation # 0 => u.fsn = task[q].fsn
          /\ tdf > 0 /\ task[q].dilation = 0 => u.fsn = 0
          /\ tdf = 0 => u = Blank
      BY <1>1, <3>2, <3>3, SetDilationFields
    <3> HIDE DEF u
    <3>6. task[Root].fsn = 0 => task[q].fsn = 0
      BY <3>2 DEF Frozen
    <3> QED
      BY <1>1, <2>5, <3>2, <3>4, <3>5, <3>6 DEF Blank
  <2> QED
    BY <1>1, <2>5, <2>6
<1> QED
  BY <1>2, <1>3

LEMMA WriteFreezeFreezes ==
  ASSUME Formed, Frozen, WriteFreeze(Root)
  PROVE  Frozen'
<1>1. /\ Sound(task[Root]) /\ now \in Nat
  BY AllSound, SubtreePid DEF Formed, TypeOK
<1>2. /\ task'[Root] = FreezeTime(task[Root], now)
      /\ \A q \in Pid \ {Root} : task'[q] = task[q]
  BY WriteFreezeTasks, SubtreePid
<1>3. task'[Root].fsn = IF task[Root].fsn > 0 THEN task[Root].fsn ELSE now
  BY <1>1, <1>2, FreezeFields
<1>4. /\ now' = now /\ UNCHANGED <<alive, leader, pgrp>>
      /\ stopped' = IF task[Root].fsn > 0 THEN stopped ELSE stopped \cup Group(Root)
  BY DEF WriteFreeze, tree
<1>5. Group(Root)' = Group(Root)
  BY <1>4, GroupSame
<1>6. task[Root].fsn \in Int
  BY <1>1 DEF Sound, Task
<1>7. 0 <= task'[Root].fsn /\ task'[Root].fsn <= now /\ now > 0 /\ task'[Root].fsn # 0
  BY <1>1, <1>3, <1>6 DEF Frozen
<1>8. \A p \in Pid \ {Root} : task'[p].fsn = 0
  BY <1>2 DEF Frozen
<1>9. stopped' = Group(Root)'
  BY <1>4, <1>5, <1>6 DEF Frozen
<1> QED
  BY <1>4, <1>7, <1>8, <1>9, Zenon DEF Frozen

LEMMA WriteUnfreezeFreezes ==
  ASSUME Formed, Frozen, WriteUnfreeze(Root)
  PROVE  Frozen'
<1>1. UNCHANGED <<now, tree>>
  BY DEF WriteUnfreeze
<1>2. CASE task[Root].fsn = 0
  BY <1>1, <1>2, StillFrozen DEF WriteUnfreeze
<1>3. CASE task[Root].fsn # 0
  <2> DEFINE u == UnfreezeTime(task[Root], now)
  <2>1. /\ now \in Nat /\ \A q \in Pid : Sound(task[q])
    BY AllSound DEF Formed, TypeOK
  <2>2. Sound(u) /\ u.fsn = 0
    BY <1>3, <2>1, SubtreePid, UnfreezeFields
  <2>3. /\ task'[Root] = u /\ stopped' = stopped \ Group(Root)
        /\ \A q \in Pid \ {Root} :
             task'[q] = IF q \in Subtree(Root) THEN PopulateFrozen(task[q], u)
                                              ELSE task[q]
    BY <1>3, SubtreePid, WriteUnfreezeTasks
  <2> HIDE DEF u
  <2>4. \A q \in Pid : PopulateFrozen(task[q], u).fsn = 0
    BY <2>1, <2>2, PopulateFields
  <2>5. \A q \in Pid : task'[q].fsn = 0
    BY <2>2, <2>3, <2>4 DEF Frozen
  <2> QED
    BY <1>1, <1>3, <2>1, <2>3, <2>5, SubtreePid DEF Frozen
<1> QED
  BY <1>2, <1>3

LEMMA StepFreezes ==
  ASSUME OnlyRoot, NoCrossing, Formed, Shared, Frozen, [Next]_vars
  PROVE  Frozen'
<1>1. CASE Tick
  <2>1. now' = now + 1 /\ UNCHANGED <<alive, leader, pgrp, stopped, task>>
    BY <1>1 DEF Tick, tree
  <2>2. task[Root].fsn \in Int /\ now \in Int
    BY SubtreePid, AllSound DEF Formed, TypeOK, Sound, Task
  <2> QED
    BY <2>1, <2>2, GroupSame DEF Frozen
<1>2. ASSUME NEW p \in Pid, NEW c \in Pid, NEW thread \in BOOLEAN, Fork(p, c, thread)
      PROVE  Frozen'
  BY <1>2, ForkFreezes
<1>3. ASSUME NEW p \in Pid, ForkFail(p) \/ Read(p)
      PROVE  Frozen'
  <2>1. /\ task' = [task EXCEPT ![p] = Timekeep(@, now)]
        /\ UNCHANGED <<now, tree, stopped>>
    BY <1>3 DEF ForkFail, Read
  <2>2. \A q \in Pid : task'[q].fsn = task[q].fsn
    BY <2>1, ReadTasks DEF Kept
  <2> QED
    BY <2>1, <2>2, StillFrozen
<1>4. ASSUME NEW p \in Pid, Exit(p)
      PROVE  Frozen'
  BY <1>4, ExitFreezes
<1>5. ASSUME NEW p \in Pid, Setsid(p)
      PROVE  Frozen'
  BY <1>5, SetsidFreezes
<1>6. CASE Unshare
  <2>1. /\ Root \notin stopped /\ task'[Root].fsn = 0
        /\ \A q \in Pid \ {Root} : task'[q] = task[q]
    BY <1>6, UnshareTasks
  <2>2. task[Root].fsn = 0
    BY <2>1, SubtreePid, UnstoppedUnfrozen
  <2>3. UNCHANGED <<now, tree, stopped>> /\ \A q \in Pid : task'[q].fsn = task[q].fsn
    BY <1>6, <2>1, <2>2 DEF Unshare
  <2> QED
    BY <2>3, StillFrozen
<1>7. ASSUME NEW p \in Targets, NEW tdf \in load.tdfs, WriteDilation(p, tdf)
      PROVE  Frozen'
  <2>1. p = Root /\ UNCHANGED <<now, tree, stopped>>
    BY <1>7 DEF OnlyRoot, WriteDilation
  <2> QED
    BY <1>7, <2>1, WriteDilationKeepsFreeze, StillFrozen
<1>8. ASSUME NEW p \in Targets, WriteFreeze(p) \/ WriteUnfreeze(p)
      PROVE  Frozen'
  BY <1>8, WriteFreezeFreezes, WriteUnfreezeFreezes DEF OnlyRoot
<1>9. CASE UNCHANGED vars
  BY <1>9, StillFrozen DEF vars, tree
<1> QED
  BY <1>1, <1>2, <1>3, <1>4, <1>5, <1>6, <1>7, <1>8, <1>9 DEF Next

----------------------------------------------------------------------------
(* What the members' clocks have been charged.                             *)

\* p's accounts, as MembersAccountFreeze has them: without Stood.
Charged(p) ==
  /\ task[p].fpn = task[Root].fpn \/ (task[p].fpn = 0 /\ task[Root].fpn = debt[p])
  /\ now - task[p].psn - (task[Root].fpn - debt[p]) - InFreeze(task[Root]) = ran[p]

LEMMA MembersAre ==
  Formed /\ Shared => Members = IF task[Root].dilation = 0 THEN {}
                               ELSE Subtree(Root) \cap Group(Root)
BY DEF Members, Shared

LEMMA MembersAreNext ==
  (Formed /\ Shared => Members = IF task[Root].dilation = 0 THEN {}
                                ELSE Subtree(Root) \cap Group(Root))'
BY MembersAre, PTL

LEMMA MemberTyped ==
  ASSUME Formed, NEW p \in Pid
  PROVE  /\ {task[p].fpn, task[p].fsn, task[p].psn, task[p].dilation} \subseteq Int
         /\ {ran[p], debt[p], now} \subseteq Int
BY AllSound DEF Formed, TypeOK, Sound, Task

LEMMA MemberTypedNext ==
  ASSUME Formed', NEW p \in Pid
  PROVE  /\ {task'[p].fpn, task'[p].fsn, task'[p].psn, task'[p].dilation} \subseteq Int
         /\ {ran'[p], debt'[p], now'} \subseteq Int
BY DEF Formed, TypeOK, Task

LEMMA ChargedStood ==
  ASSUME NEW p, {task[p].fpn, task[p].psn, ran[p], debt[p], now} \subseteq Int,
         task[Root].fpn \in Int, InFreeze(task[Root]) \in Int
  PROVE  Charged(p) <=>
           /\ task[Root].fpn = Stood(p) + debt[p]
           /\ task[p].fpn = Stood(p) + debt[p] \/ (task[p].fpn = 0 /\ Stood(p) = 0)
BY DEF Charged, Stood

LEMMA ChargedMembers ==
  Formed => (MembersAccountFreeze <=> \A p \in Members : Charged(p))
<1>1. SUFFICES ASSUME Formed
               PROVE  MembersAccountFreeze <=> \A p \in Members : Charged(p)
  OBVIOUS
<1>2. task[Root].fpn \in Int /\ InFreeze(task[Root]) \in Int
  BY <1>1, MemberTyped, PidAssumption DEF InFreeze
<1>3. \A p \in Members : {task[p].fpn, task[p].psn, ran[p], debt[p], now} \subseteq Int
  BY <1>1, SubtreePid, MemberTyped DEF Members
<1> QED
  BY <1>2, <1>3, ChargedStood DEF MembersAccountFreeze

LEMMA ChargedMembersNext ==
  (Formed => (MembersAccountFreeze <=> \A p \in Members : Charged(p)))'
BY ChargedMembers, PTL

\* Accounts stay right as long as nothing in them moves...
LEMMA ChargedStill ==
  ASSUME NEW p, Charged(p), now' = now, Kept(task[p], task'[p]),
         Kept(task[Root], task'[Root]), ran'[p] = ran[p], debt'[p] = debt[p]
  PROVE  Charged(p)'
BY DEF Charged, Kept, InFreeze

\* ...and are right when p's clock starts.
LEMMA ChargedStart ==
  ASSUME Formed', NEW p \in Pid, NEW S, p \in S, Start(S), now' = now,
         task'[p].psn = now, task'[p].fpn = 0 \/ task'[p].fpn = task'[Root].fpn
  PROVE  Charged(p)'
<1>1. ran'[p] = -InFreeze(task'[Root]) /\ debt'[p] = task'[Root].fpn
  BY DEF Start
<1>2. /\ task'[Root].fpn \in Int /\ task'[Root].fsn \in Int /\ now \in Int
  BY MemberTypedNext, PidAssumption
<1>3. InFreeze(task[Root])' = InFreeze(task'[Root]) /\ InFreeze(task'[Root]) \in Int
  BY <1>2 DEF InFreeze
<1> QED
  BY <1>1, <1>2, <1>3 DEF Charged

\* Steps that add nobody to the members and move no account.
LEMMA StillCharged ==
  ASSUME Formed, Shared, MembersAccountFreeze, Shared', Formed',
         now' = now,
         Subtree(Root)' \subseteq Subtree(Root), Group(Root)' \subseteq Group(Root),
         \A q \in Members' \cup {Root} :
           Kept(task[q], task'[q]) /\ ran'[q] = ran[q] /\ debt'[q] = debt[q]
  PROVE  MembersAccountFreeze'
<1>1. task'[Root].dilation = task[Root].dilation
  BY DEF Kept
<1>2. Members' \subseteq Members
  BY <1>1, MembersAre, MembersAreNext
<1>3. \A q \in Members' : Charged(q)'
  BY <1>2, ChargedMembers, ChargedStill
<1> QED
  BY <1>3, ChargedMembersNext

LEMMA TickCharges ==
  ASSUME Formed, Shared, Frozen, MembersAccountFreeze, Formed', Shared', Tick
  PROVE  MembersAccountFreeze'
<1>1. /\ now' = now + 1 /\ UNCHANGED <<alive, parent, leader, pgrp, stopped, task, debt>>
      /\ ran' = [p \in Pid |-> IF p \in alive \ stopped /\ task[p].dilation # 0
                              THEN ran[p] + 1 ELSE ran[p]]
  BY DEF Tick, tree
<1>2. Subtree(Root)' = Subtree(Root) /\ Group(Root)' = Group(Root)
  BY <1>1, TreeSame, GroupSame
<1>3. Members' = Members
  BY <1>1, <1>2, MembersAre, MembersAreNext
<1>4. ASSUME NEW q \in Members
      PROVE  Charged(q)'
  <2>1. /\ q \in Pid /\ q \in alive /\ task[q].dilation # 0 /\ q \in Group(Root)
    BY SubtreePid DEF Members
  <2>2. /\ {task[q].fpn, task[q].psn, ran[q], debt[q], now} \subseteq Int
        /\ task[Root].fpn \in Int /\ task[Root].fsn \in Int
    BY <2>1, MemberTyped, SubtreePid
  <2>3. Charged(q)
    BY ChargedMembers
  <2>4. CASE task[Root].fsn = 0
    <3>1. ran'[q] = ran[q] + 1
      BY <1>1, <2>1, <2>4 DEF Frozen
    <3> QED
      BY <1>1, <2>2, <2>3, <2>4, <3>1 DEF Charged, InFreeze
  <2>5. CASE task[Root].fsn # 0
    <3>1. ran'[q] = ran[q]
      BY <1>1, <2>1, <2>5 DEF Frozen
    <3> QED
      BY <1>1, <2>2, <2>3, <2>5, <3>1 DEF Charged, InFreeze
  <2> QED
    BY <2>4, <2>5
<1> QED
  BY <1>3, <1>4, ChargedMembersNext

LEMMA ForkCharges ==
  ASSUME Formed, Shared, MembersAccountFreeze, Formed', Shared',
         NEW p \in Pid, NEW c \in Pid, NEW thread \in BOOLEAN, Fork(p, c, thread)
  PROVE  MembersAccountFreeze'
<1>1. /\ c # Root /\ \A q \in Pid \ {c} : Kept(task[q], task'[q])
  BY ForkTasks
<1>2. now' = now /\ Start({c})
  BY DEF Fork
<1>3. Kept(task[Root], task'[Root])
  BY <1>1, SubtreePid
<1>4. Members' \subseteq Members \cup {c}
  <2>1. task'[Root].dilation = task[Root].dilation
    BY <1>3 DEF Kept
  <2> QED
    BY <2>1, ForkSubtree, ForkGroup, MembersAre, MembersAreNext
<1>5. ASSUME NEW q \in Members', q # c
      PROVE  Charged(q)'
  <2>1. q \in Members /\ q \in Pid
    BY <1>4, <1>5, SubtreePid DEF Members
  <2>2. ran'[q] = ran[q] /\ debt'[q] = debt[q]
    BY <1>2, <1>5, <2>1 DEF Start
  <2> QED
    BY <1>1, <1>2, <1>3, <1>5, <2>1, <2>2, ChargedMembers, ChargedStill
<1>6. ASSUME c \in Members'
      PROVE  Charged(c)'
  <2>1. task'[c].dilation # 0
    BY <1>6 DEF Members
  <2>2. task'[c].psn = now /\ task'[c].fpn = 0
    BY <2>1, ForkedFields
  <2> QED
    BY <1>2, <2>2, ChargedStart
<1> QED
  BY <1>5, <1>6, ChargedMembersNext

LEMMA KeptSame == \A t : Kept(t, t)
BY DEF Kept

LEMMA ExitCharges ==
  ASSUME Formed, Shared, MembersAccountFreeze, Formed', Shared',
         NEW p \in Pid, Exit(p)
  PROVE  MembersAccountFreeze'
<1>1. /\ \A q \in Pid \ Gone(p) : task'[q] = task[q]
      /\ ran' = [q \in Pid |-> IF q \in Gone(p) THEN 0 ELSE ran[q]]
      /\ debt' = [q \in Pid |-> IF q \in Gone(p) THEN 0 ELSE debt[q]]
      /\ Root \notin Gone(p)
  BY ExitTasks
<1>2. Subtree(Root)' \subseteq Subtree(Root) \ Gone(p) /\ Group(Root)' \subseteq Group(Root)
  BY ExitSubtree, ExitGroup
<1>3. \A q \in Members' \cup {Root} : q \in Pid \ Gone(p)
  BY <1>1, <1>2, SubtreePid DEF Members
<1>4. \A q \in Members' \cup {Root} :
        Kept(task[q], task'[q]) /\ ran'[q] = ran[q] /\ debt'[q] = debt[q]
  BY <1>1, <1>3, KeptSame
<1>5. now' = now
  BY DEF Exit
<1> QED
  BY <1>2, <1>4, <1>5, StillCharged

LEMMA UnshareCharges ==
  ASSUME Formed, Shared, MembersAccountFreeze, Formed', Shared', Unshare
  PROVE  MembersAccountFreeze'
<1>1. now' = now /\ Start({Root})
  BY DEF Unshare
<1>2. task'[Root].psn = now /\ task'[Root].fpn = 0
  BY UnshareTasks
<1>3. Charged(Root)'
  BY <1>1, <1>2, ChargedStart, SubtreePid
<1>4. Members' \subseteq {Root}
  BY UnshareShares DEF Members
<1> QED
  BY <1>3, <1>4, ChargedMembersNext

LEMMA WriteDilationCharges ==
  ASSUME NoCrossing, Formed, Shared, Frozen, MembersAccountFreeze, Formed', Shared',
         NEW tdf \in load.tdfs, WriteDilation(Root, tdf)
  PROVE  MembersAccountFreeze'
<1>1. /\ tdf \in Int /\ Start(Reached(Root, tdf))
      /\ \A q \in Pid : task'[q] = IF q \in Reached(Root, tdf)
                                   THEN SetDilation(task[q], now, now, tdf)
                                   ELSE task[q]
  BY WriteDilationTasks, SubtreePid
<1>2. UNCHANGED <<now, alive, parent, leader, pgrp>>
  BY DEF WriteDilation, tree
<1>3. Subtree(Root)' = Subtree(Root) /\ Group(Root)' = Group(Root)
  BY <1>2, TreeSame, GroupSame
<1>4. CASE Root \notin Willing(tdf)
  <2>1. Reached(Root, tdf) = {}
    BY <1>4, ReachedAll
  <2>2. \A q \in Pid : task'[q] = task[q] /\ ran'[q] = ran[q] /\ debt'[q] = debt[q]
    BY <1>1, <2>1 DEF Start
  <2>3. Members' \cup {Root} \subseteq Pid
    BY <1>3, SubtreePid DEF Members
  <2> QED
    BY <1>2, <1>3, <2>2, <2>3, KeptSame, StillCharged
<1>5. CASE Root \in Willing(tdf)
  <2>1. Reached(Root, tdf) = Subtree(Root)
    BY <1>5, ReachedAll
  <2>2. Subtree(Root) \subseteq Willing(tdf) /\ Root \in Subtree(Root)
        /\ Subtree(Root) \subseteq Pid
    BY <2>1, SubtreePid DEF Reached
  <2>3. ASSUME NEW q \in Subtree(Root)
        PROVE  /\ tdf > 0 => task'[q].psn = now
               /\ tdf > 0 /\ task[Root].dilation # 0 => task'[q].fpn = task[q].fpn
               /\ tdf > 0 /\ task[Root].dilation = 0 => task'[q].fpn = 0
               /\ ~(tdf > 0) => task'[q].dilation = 0
    <3> DEFINE u == SetDilation(task[q], now, now, tdf)
    <3>1. /\ q \in Pid /\ task[q].dilation # tdf /\ ~DilationRejected(task[q], tdf)
          /\ task[q].dilation = task[Root].dilation
      BY <2>2 DEF Willing, Shared
    <3>2. Sound(task[q]) /\ now \in Int
      BY <3>1, AllSound DEF Formed, TypeOK
    <3>3. /\ tdf < 0 => u = task[q] /\ task[q].dilation = 0
          /\ tdf > 0 => u.psn = now
          /\ tdf > 0 /\ task[q].dilation # 0 => u.fpn = task[q].fpn
          /\ tdf > 0 /\ task[q].dilation = 0 => u.fpn = 0
          /\ tdf = 0 => u = Blank
      BY <1>1, <3>1, <3>2, SetDilationFields
    <3>4. task'[q] = u
      BY <1>1, <2>1, <3>1
    <3> HIDE DEF u
    <3> QED
      BY <1>1, <3>1, <3>3, <3>4 DEF Blank
  <2>4. ASSUME NEW q \in Members'
        PROVE  Charged(q)'
    <3>1. q \in Subtree(Root) /\ q \in Group(Root) /\ task'[q].dilation # 0 /\ q \in Pid
      BY <1>3, <2>2 DEF Members
    <3>2. tdf > 0 /\ task'[q].psn = now
      BY <2>3, <3>1
    <3>3. CASE task[Root].dilation = 0
      BY <1>1, <1>2, <2>1, <2>3, <3>1, <3>2, <3>3, ChargedStart
    <3>4. CASE task[Root].dilation # 0
      <4>1. q \in Members
        BY <3>1, <3>4, MembersAre
      <4>2. task[q].fpn = task[Root].fpn \/ task[q].fpn = 0
        BY <4>1, ChargedMembers DEF Charged
      <4>3. task'[q].fpn = task[q].fpn /\ task'[Root].fpn = task[Root].fpn
        BY <2>2, <2>3, <3>1, <3>2, <3>4
      <4> QED
        BY <1>1, <1>2, <2>1, <3>1, <3>2, <4>2, <4>3, ChargedStart
    <3> QED
      BY <3>3, <3>4
  <2> QED
    BY <2>4, ChargedMembersNext
<1> QED
  BY <1>4, <1>5

LEMMA WriteFreezeCharges ==
  ASSUME Formed, Shared, Frozen, MembersAccountFreeze, Formed', Shared',
         WriteFreeze(Root)
  PROVE  MembersAccountFreeze'
<1>1. UNCHANGED <<now, alive, parent, leader, pgrp, ran, debt>>
  BY DEF WriteFreeze, tree
<1>2. /\ task'[Root] = FreezeTime(task[Root], now)
      /\ \A q \in Pid \ {Root} : task'[q] = task[q]
  BY WriteFreezeTasks, SubtreePid
<1>3. /\ Sound(task[Root]) /\ now \in Nat /\ now > 0
  BY AllSound, SubtreePid DEF Formed, TypeOK, Frozen
<1>4. /\ task'[Root].dilation = task[Root].dilation /\ task'[Root].psn = task[Root].psn
      /\ task'[Root].fpn = task[Root].fpn
      /\ task'[Root].fsn = IF task[Root].fsn > 0 THEN task[Root].fsn ELSE now
  BY <1>2, <1>3, FreezeFields
<1>5. InFreeze(task[Root])' = InFreeze(task[Root])
  BY <1>1, <1>3, <1>4, MemberTyped, SubtreePid DEF InFreeze, Frozen
<1>6. Members' = Members /\ Members \subseteq Pid
  <2>1. Subtree(Root)' = Subtree(Root) /\ Group(Root)' = Group(Root)
    BY <1>1, TreeSame, GroupSame
  <2> QED
    BY <1>4, <2>1, MembersAre, MembersAreNext, SubtreePid
<1>7. \A q \in Pid : task'[q].fpn = task[q].fpn /\ task'[q].psn = task[q].psn
  BY <1>2, <1>4
<1>8. \A q \in Members : Charged(q)'
  BY <1>1, <1>4, <1>5, <1>6, <1>7, ChargedMembers DEF Charged
<1> QED
  BY <1>6, <1>8, ChargedMembersNext

\* What an unfreeze leaves in Root and in the tree below it.
LEMMA UnfrozenFields ==
  ASSUME Formed, WriteUnfreeze(Root), task[Root].fsn # 0
  PROVE  /\ task'[Root].fsn = 0
         /\ task'[Root].fpn = task[Root].fpn + (now - task[Root].fsn)
         /\ \A q \in Subtree(Root) :
              /\ task'[q].fpn = task'[Root].fpn /\ task'[q].fsn = 0
              /\ task'[q].dilation = task[q].dilation /\ task'[q].psn = task[q].psn
              /\ task'[q].vsn = task[q].vsn /\ task'[q].vpn = task[q].vpn
              /\ task'[q].ppn = task[q].ppn
<1> DEFINE u == UnfreezeTime(task[Root], now)
           t == task[Root]
<1>1. /\ now \in Int /\ \A q \in Pid : Sound(task[q])
  BY AllSound DEF Formed, TypeOK
<1>2. /\ Sound(u) /\ u.dilation = t.dilation /\ u.psn = t.psn
      /\ u.vsn = t.vsn /\ u.vpn = t.vpn /\ u.ppn = t.ppn
      /\ u.fsn = 0 /\ u.fpn = t.fpn + (now - t.fsn)
  BY <1>1, SubtreePid, UnfreezeFields
<1>3. /\ task'[Root] = u
      /\ \A q \in Pid \ {Root} :
           task'[q] = IF q \in Subtree(Root) THEN PopulateFrozen(task[q], u) ELSE task[q]
  BY SubtreePid, WriteUnfreezeTasks
<1> HIDE DEF u
<1>4. \A q \in Pid : LET w == PopulateFrozen(task[q], u) IN
         /\ w.dilation = task[q].dilation /\ w.psn = task[q].psn
         /\ w.vsn = task[q].vsn /\ w.vpn = task[q].vpn /\ w.ppn = task[q].ppn
         /\ w.fsn = u.fsn /\ w.fpn = u.fpn
  BY <1>1, <1>2, PopulateFields
<1>5. Subtree(Root) \subseteq Pid
  BY SubtreePid
<1> QED
  BY <1>2, <1>3, <1>4, <1>5

LEMMA WriteUnfreezeCharges ==
  ASSUME Formed, Shared, Frozen, MembersAccountFreeze, Formed', Shared',
         WriteUnfreeze(Root)
  PROVE  MembersAccountFreeze'
<1>1. UNCHANGED <<now, alive, parent, leader, pgrp, ran, debt>>
  BY DEF WriteUnfreeze, tree
<1>2. Subtree(Root)' = Subtree(Root) /\ Group(Root)' = Group(Root)
  BY <1>1, TreeSame, GroupSame
<1>3. CASE task[Root].fsn = 0
  <2>1. task' = task
    BY <1>3 DEF WriteUnfreeze
  <2> QED
    BY <1>1, <1>2, <2>1, KeptSame, StillCharged
<1>4. CASE task[Root].fsn # 0
  <2>1. /\ task'[Root].fsn = 0 /\ task'[Root].dilation = task[Root].dilation
        /\ task'[Root].fpn = task[Root].fpn + (now - task[Root].fsn)
        /\ \A q \in Subtree(Root) : /\ task'[q].fpn = task'[Root].fpn
                                    /\ task'[q].psn = task[q].psn
    BY <1>4, UnfrozenFields, SubtreePid
  <2>2. Members' = Members
    BY <1>2, <2>1, MembersAre, MembersAreNext
  <2>3. ASSUME NEW q \in Members
        PROVE  Charged(q)'
    <3>1. q \in Subtree(Root) /\ q \in Pid
      BY SubtreePid DEF Members
    <3>2. Charged(q)
      BY ChargedMembers
    <3>3. /\ {task[q].fpn, task[q].psn, ran[q], debt[q], now} \subseteq Int
          /\ task[Root].fpn \in Int /\ task[Root].fsn \in Int
      BY <3>1, MemberTyped, SubtreePid
    <3> QED
      BY <1>1, <1>4, <2>1, <3>1, <3>2, <3>3 DEF Charged, InFreeze
  <2> QED
    BY <2>2, <2>3, ChargedMembersNext
<1> QED
  BY <1>3, <1>4

\* The inductive invariant of a container whose tools write to Root only and
\* never enter or leave virtual time in a freeze.
IInv == Formed /\ Shared /\ Frozen /\ MembersAccountFreeze

LEMMA StepCharges ==
  ASSUME OnlyRoot, NoCrossing, IInv, Formed', Shared', [Next]_vars
  PROVE  MembersAccountFreeze'
<1>1. CASE Tick
  BY <1>1, TickCharges DEF IInv
<1>2. ASSUME NEW p \in Pid, NEW c \in Pid, NEW thread \in BOOLEAN, Fork(p, c, thread)
      PROVE  MembersAccountFreeze'
  BY <1>2, ForkCharges DEF IInv
<1>3. ASSUME NEW p \in Pid, ForkFail(p) \/ Read(p)
      PROVE  MembersAccountFreeze'
  <2>1. /\ task' = [task EXCEPT ![p] = Timekeep(@, now)]
        /\ UNCHANGED <<now, alive, parent, leader, pgrp, ran, debt>>
    BY <1>3 DEF ForkFail, Read, tree
  <2>2. \A q \in Pid : Kept(task[q], task'[q])
    BY <2>1, ReadTasks DEF IInv
  <2>3. Subtree(Root)' = Subtree(Root) /\ Group(Root)' = Group(Root)
    BY <2>1, TreeSame, GroupSame
  <2>4. Members' \cup {Root} \subseteq Pid
    BY <2>3, SubtreePid DEF Members, IInv
  <2> QED
    BY <2>1, <2>2, <2>3, <2>4, StillCharged DEF IInv
<1>4. ASSUME NEW p \in Pid, Exit(p)
      PROVE  MembersAccountFreeze'
  BY <1>4, ExitCharges DEF IInv
<1>5. ASSUME NEW p \in Pid, Setsid(p)
      PROVE  MembersAccountFreeze'
  <2>1. UNCHANGED <<now, alive, parent, leader, task, ran, debt>>
    BY <1>5 DEF Setsid
  <2>2. Subtree(Root)' = Subtree(Root) /\ Group(Root)' \subseteq Group(Root)
    BY <1>5, <2>1, TreeSame, SetsidGroup DEF IInv
  <2> QED
    BY <2>1, <2>2, KeptSame, StillCharged DEF IInv
<1>6. CASE Unshare
  BY <1>6, UnshareCharges DEF IInv
<1>7. ASSUME NEW p \in Targets, NEW tdf \in load.tdfs, WriteDilation(p, tdf)
      PROVE  MembersAccountFreeze'
  BY <1>7, WriteDilationCharges DEF OnlyRoot, IInv
<1>8. ASSUME NEW p \in Targets, WriteFreeze(p) \/ WriteUnfreeze(p)
      PROVE  MembersAccountFreeze'
  BY <1>8, WriteFreezeCharges, WriteUnfreezeCharges DEF OnlyRoot, IInv
<1>9. CASE UNCHANGED vars
  <2>1. UNCHANGED <<now, alive, parent, leader, pgrp, task, ran, debt>>
    BY <1>9 DEF vars, tree
  <2>2. Subtree(Root)' = Subtree(Root) /\ Group(Root)' = Group(Root)
    BY <2>1, TreeSame, GroupSame
  <2> QED
    BY <2>1, <2>2, KeptSame, StillCharged DEF IInv
<1> QED
  BY <1>1, <1>2, <1>3, <1>4, <1>5, <1>6, <1>7, <1>8, <1>9 DEF Next

LEMMA InitIInv == Init => IInv
<1> SUFFICES ASSUME Init PROVE IInv
  OBVIOUS
<1>1. Formed
  BY InitForms
<1>2. \A q \in Pid : task[q] = Blank
  BY DEF Init
<1>3. Shared
  BY <1>1, <1>2, SubtreePid DEF Shared
<1>4. Frozen
  BY <1>1, <1>2, SubtreePid, BoundAssumption DEF Init, Frozen, Blank
<1>5. MembersAccountFreeze
  <2>1. Members = {}
    BY <1>1, <1>2, SubtreePid DEF Members, Blank
  <2> QED
    BY <2>1 DEF MembersAccountFreeze
<1> QED
  BY <1>1, <1>3, <1>4, <1>5 DEF IInv

\* Every step of such a container keeps the inductive invariant.
THEOREM AlwaysIInv ==
  ASSUME OnlyRoot, NoCrossing
  PROVE  Spec => []IInv
<1>1. Init => IInv
  BY InitIInv
<1>2. IInv /\ [Next]_vars => IInv'
  <2> SUFFICES ASSUME IInv, [Next]_vars PROVE IInv'
    OBVIOUS
  <2>1. Formed' /\ Shared'
    BY StepForms, StepShares DEF IInv
  <2>2. Frozen'
    BY StepFreezes DEF IInv
  <2>3. MembersAccountFreeze'
    BY <2>1, StepCharges
  <2> QED
    BY <2>1, <2>2, <2>3 DEF IInv
<1> QED
  BY <1>1, <1>2, PTL DEF Spec

\* However processes fork, exit, are orphaned or leave the group around it, a
\* member is charged what it stood in freezes that are over, and beyond that
\* nothing but the freezes from before its clock was started.
THEOREM AlwaysMembersAccountFreeze ==
  ASSUME OnlyRoot, NoCrossing
  PROVE  Spec => []MembersAccountFreeze
<1>1. IInv => MembersAccountFreeze
  BY DEF IInv
<1> QED
  BY <1>1, AlwaysIInv, PTL

\* No process is stopped without a freeze of its group's leader on record, so
\* that a write of 0 to the leader's freeze file resumes it.
THEOREM AlwaysResumable ==
  ASSUME OnlyRoot, NoCrossing
  PROVE  Spec => []Resumable
<1>1. IInv => Resumable
  BY RootInGroup, SubtreePid DEF IInv, Frozen, Group, Resumable
<1> QED
  BY <1>1, AlwaysIInv, PTL

----------------------------------------------------------------------------
(* A member's clock stays where it is.                                     *)

\* The reading depends on four fields, and not on freeze_start_nsec.
LEMMA ReadingSame ==
  ASSUME NEW t, NEW u, NEW m, NEW n, Virtual(t),
         u.dilation = t.dilation, u.vsn = t.vsn, u.vpn = t.vpn,
         DeltaPpn(t, m) = DeltaPpn(u, n)
  PROVE  Reading(t, m) = Reading(u, n)
<1>1. Virtual(u)
  BY DEF Virtual
<1> QED
  BY <1>1 DEF Reading

\* The members to whom MemberClockContinuous applies.
Steady(p) == /\ p \in Members /\ Virtual(task[p])
             /\ task[p].fpn = task[Root].fpn

LEMMA ClockStill ==
  ASSUME NEW p, now' = now, task'[Root].fsn = task[Root].fsn,
         p \in stopped' <=> p \in stopped,
         \/ task'[p] = task[p]
         \/ p \notin stopped /\ Reading(task'[p], now) = Reading(task[p], now)
  PROVE  Clock(p)' = Clock(p)
BY DEF Clock, InFreeze

LEMMA ForkLeavesClock ==
  ASSUME Formed, NEW p \in Pid, NEW c \in Pid, NEW thread \in BOOLEAN,
         Fork(p, c, thread), NEW q \in alive
  PROVE  Clock(q)' = Clock(q)
<1>1. /\ p \notin stopped /\ c \notin alive /\ c # Root
      /\ task'[p] = Timekeep(task[p], now)
      /\ \A x \in Pid \ {p, c} : task'[x] = task[x]
      /\ \A x \in Pid \ {c} : Kept(task[x], task'[x])
  BY ForkTasks
<1>2. /\ q \in Pid /\ now \in Int /\ Sound(task[p])
  BY AllSound DEF Formed, TypeOK
<1>3. task'[q] = task[q] \/ (q = p /\ Reading(task'[q], now) = Reading(task[q], now))
  BY <1>1, <1>2, TimekeepReads
<1>4. now' = now /\ stopped' = stopped /\ task'[Root].fsn = task[Root].fsn
  BY <1>1, SubtreePid DEF Fork, Kept
<1> QED
  BY <1>1, <1>3, <1>4, ClockStill

LEMMA ReadLeavesClock ==
  ASSUME Formed, NEW p \in Pid, ForkFail(p) \/ Read(p), NEW q \in alive
  PROVE  Clock(q)' = Clock(q)
<1>1. /\ task' = [task EXCEPT ![p] = Timekeep(@, now)]
      /\ now' = now /\ stopped' = stopped /\ p \notin stopped
  BY DEF ForkFail, Read, Running
<1>2. /\ task'[p] = Timekeep(task[p], now)
      /\ \A x \in Pid \ {p} : task'[x] = task[x]
      /\ \A x \in Pid : Kept(task[x], task'[x])
  BY <1>1, ReadTasks
<1>3. /\ q \in Pid /\ now \in Int /\ Sound(task[p])
  BY AllSound DEF Formed, TypeOK
<1>4. task'[q] = task[q] \/ (q = p /\ Reading(task'[q], now) = Reading(task[q], now))
  BY <1>2, <1>3, TimekeepReads
<1>5. task'[Root].fsn = task[Root].fsn
  BY <1>2, SubtreePid DEF Kept
<1> QED
  BY <1>1, <1>4, <1>5, ClockStill

LEMMA ExitLeavesClock ==
  ASSUME Formed, NEW p \in Pid, Exit(p), NEW q \in alive \cap alive'
  PROVE  Clock(q)' = Clock(q)
<1>1. /\ alive' = alive \ Gone(p) /\ Root \notin Gone(p)
      /\ \A x \in Pid \ Gone(p) : task'[x] = task[x]
  BY ExitTasks
<1>2. q \in Pid
  BY DEF Formed, TypeOK
<1>3. task'[q] = task[q] /\ task'[Root] = task[Root]
  BY <1>1, <1>2, SubtreePid
<1>4. now' = now /\ stopped' = stopped
  BY DEF Exit
<1> QED
  BY <1>3, <1>4, ClockStill

\* A write that reaches a member changes its factor; one that does not reach
\* it does not reach Root.
LEMMA WriteDilationLeavesClock ==
  ASSUME Formed, Shared, NEW tdf \in load.tdfs, WriteDilation(Root, tdf),
         NEW q \in Members, task'[q].dilation = task[q].dilation
  PROVE  Clock(q)' = Clock(q)
<1>1. /\ tdf \in Int
      /\ \A x \in Pid : task'[x] = IF x \in Reached(Root, tdf)
                                   THEN SetDilation(task[x], now, now, tdf)
                                   ELSE task[x]
  BY WriteDilationTasks, SubtreePid
<1>2. /\ q \in Pid /\ q \in Subtree(Root) /\ task[q].dilation # 0
  BY SubtreePid DEF Members
<1>3. Root \notin Willing(tdf)
  <2> SUFFICES ASSUME Root \in Willing(tdf) PROVE FALSE
    OBVIOUS
  <2>1. q \in Reached(Root, tdf) /\ q \in Willing(tdf)
    BY <1>2, ReachedAll DEF Reached
  <2>2. Sound(task[q]) /\ now \in Int
    BY <1>2, AllSound DEF Formed, TypeOK
  <2>3. task[q].dilation # tdf /\ ~DilationRejected(task[q], tdf)
    BY <2>1 DEF Willing
  <2>4. tdf >= 0
    BY <1>1, <1>2, <2>3 DEF DilationRejected
  <2>5. SetDilation(task[q], now, now, tdf).dilation = tdf
    BY <1>1, <2>2, <2>3, <2>4, SetDilationFields
  <2>6. task'[q] = SetDilation(task[q], now, now, tdf)
    BY <1>1, <1>2, <2>1
  <2> QED
    BY <2>3, <2>5, <2>6
<1>4. task'[q] = task[q] /\ task'[Root] = task[Root]
  BY <1>1, <1>2, <1>3, ReachedAll, SubtreePid
<1>5. now' = now /\ stopped' = stopped
  BY DEF WriteDilation
<1> QED
  BY <1>4, <1>5, ClockStill

LEMMA WriteFreezeLeavesClock ==
  ASSUME Formed, Frozen, WriteFreeze(Root), NEW q \in Members, Steady(q)
  PROVE  Clock(q)' = Clock(q)
<1>1. /\ now' = now
      /\ stopped' = IF task[Root].fsn > 0 THEN stopped ELSE stopped \cup Group(Root)
  BY DEF WriteFreeze
<1>2. /\ task'[Root] = FreezeTime(task[Root], now)
      /\ \A x \in Pid \ {Root} : task'[x] = task[x]
  BY WriteFreezeTasks, SubtreePid
<1>3. /\ Sound(task[Root]) /\ now \in Nat /\ now > 0 /\ task[Root].fsn \in Int
      /\ task[Root].fsn >= 0 /\ q \in Pid /\ q \in Group(Root)
  BY AllSound, SubtreePid DEF Formed, TypeOK, Frozen, Members, Sound, Task
<1>4. CASE task[Root].fsn > 0
  <2>1. task'[Root] = task[Root]
    BY <1>2, <1>4 DEF FreezeTime
  <2> QED
    BY <1>1, <1>2, <1>3, <1>4, <2>1, ClockStill
<1>5. CASE task[Root].fsn = 0
  <2>1. LET u == task'[Root] IN
        /\ u.dilation = task[Root].dilation /\ u.psn = task[Root].psn
        /\ u.vsn = task[Root].vsn /\ u.vpn = task[Root].vpn
        /\ u.ppn = task[Root].ppn /\ u.fpn = task[Root].fpn /\ u.fsn = now
    BY <1>2, <1>3, <1>5, FreezeFields
  <2>2. DeltaPpn(task'[q], now) = DeltaPpn(task[q], now)
    BY <1>2, <1>3, <2>1 DEF DeltaPpn
  <2>3. /\ task'[q].dilation = task[q].dilation /\ task'[q].vsn = task[q].vsn
        /\ task'[q].vpn = task[q].vpn
    BY <1>2, <1>3, <2>1
  <2>4. Reading(task'[q], now) = Reading(task[q], now)
    BY <2>2, <2>3, ReadingSame DEF Steady
  <2>5. Clock(q) = Reading(task[q], now)
    BY <1>5 DEF Clock, Frozen
  <2>6. Clock(q)' = Reading(task'[q], now)
    <3>1. q \in stopped'
      BY <1>1, <1>3, <1>5
    <3>2. InFreeze(task[Root])' = 0
      BY <1>1, <1>3, <2>1 DEF InFreeze
    <3> QED
      BY <1>1, <1>3, <3>1, <3>2 DEF Clock
  <2> QED
    BY <2>4, <2>5, <2>6
<1> QED
  BY <1>3, <1>4, <1>5

LEMMA WriteUnfreezeLeavesClock ==
  ASSUME Formed, Frozen, WriteUnfreeze(Root), NEW q \in Members, Steady(q)
  PROVE  Clock(q)' = Clock(q)
<1>1. now' = now
  BY DEF WriteUnfreeze
<1>2. CASE task[Root].fsn = 0
  BY <1>1, <1>2, ClockStill DEF WriteUnfreeze
<1>3. CASE task[Root].fsn # 0
  <2>1. /\ q \in Subtree(Root) /\ q \in Group(Root) /\ q \in Pid
    BY SubtreePid DEF Members
  <2>2. /\ task'[Root].fpn = task[Root].fpn + (now - task[Root].fsn)
        /\ task'[q].fpn = task'[Root].fpn
        /\ task'[q].dilation = task[q].dilation /\ task'[q].psn = task[q].psn
        /\ task'[q].vsn = task[q].vsn /\ task'[q].vpn = task[q].vpn
        /\ task'[q].ppn = task[q].ppn
    BY <1>3, <2>1, UnfrozenFields
  <2>3. /\ {task[q].fpn, task[q].psn, task[q].ppn, task[Root].fsn, now} \subseteq Int
        /\ task[q].fpn = task[Root].fpn
    BY <2>1, AllSound, SubtreePid DEF Formed, TypeOK, Sound, Task, Steady
  <2>4. DeltaPpn(task[q], task[Root].fsn) = DeltaPpn(task'[q], now)
    BY <2>2, <2>3 DEF DeltaPpn
  <2>5. Reading(task[q], task[Root].fsn) = Reading(task'[q], now)
    BY <2>2, <2>4, ReadingSame DEF Steady
  <2>6. Clock(q) = Reading(task[q], task[Root].fsn)
    <3>1. q \in stopped
      BY <1>3, <2>1 DEF Frozen
    <3>2. now - InFreeze(task[Root]) = task[Root].fsn
      BY <1>3, <2>3 DEF InFreeze
    <3> QED
      BY <3>1, <3>2 DEF Clock
  <2>7. Clock(q)' = Reading(task'[q], now)
    <3>1. stopped' = stopped \ Group(Root)
      BY <1>3, SubtreePid, WriteUnfreezeTasks
    <3> QED
      BY <1>1, <2>1, <3>1 DEF Clock
  <2> QED
    BY <2>5, <2>6, <2>7
<1> QED
  BY <1>2, <1>3

LEMMA StepLeavesClock ==
  ASSUME OnlyRoot, IInv, [Next]_vars, now' = now, NEW q \in alive \cap alive',
         Steady(q), task'[q].dilation = task[q].dilation
  PROVE  Clock(q)' = Clock(q)
<1>0. Formed /\ Shared /\ Frozen /\ q \in Members /\ now \in Nat
  BY DEF IInv, Steady, Formed, TypeOK
<1>1. CASE Tick
  BY <1>0, <1>1 DEF Tick
<1>2. ASSUME NEW p \in Pid, NEW c \in Pid, NEW thread \in BOOLEAN, Fork(p, c, thread)
      PROVE  Clock(q)' = Clock(q)
  BY <1>0, <1>2, ForkLeavesClock
<1>3. ASSUME NEW p \in Pid, ForkFail(p) \/ Exit(p) \/ Read(p)
      PROVE  Clock(q)' = Clock(q)
  BY <1>0, <1>3, ReadLeavesClock, ExitLeavesClock
<1>4. ASSUME NEW p \in Pid, Setsid(p)
      PROVE  Clock(q)' = Clock(q)
  BY <1>4, ClockStill DEF Setsid
<1>5. CASE Unshare
  BY <1>0, <1>5 DEF Unshare, Members
<1>6. ASSUME NEW p \in Targets, NEW tdf \in load.tdfs, WriteDilation(p, tdf)
      PROVE  Clock(q)' = Clock(q)
  BY <1>0, <1>6, WriteDilationLeavesClock DEF OnlyRoot
<1>7. ASSUME NEW p \in Targets, WriteFreeze(p) \/ WriteUnfreeze(p)
      PROVE  Clock(q)' = Clock(q)
  BY <1>0, <1>7, WriteFreezeLeavesClock, WriteUnfreezeLeavesClock DEF OnlyRoot
<1>8. CASE UNCHANGED vars
  BY <1>8, ClockStill DEF vars
<1> QED
  BY <1>1, <1>2, <1>3, <1>4, <1>5, <1>6, <1>7, <1>8 DEF Next

\* The clock of a member that shares Root's frozen duration does not move when
\* the container is frozen or unfrozen, when it or another process forks,
\* reads its clock, exits, or leaves the group: only time and a change of its
\* factor move it.
THEOREM AlwaysMemberClockContinuous ==
  ASSUME OnlyRoot, NoCrossing
  PROVE  Spec => MemberClockContinuous
<1> DEFINE A == now' = now =>
                  \A p \in alive \cap alive' :
                    Clock(p)' # Clock(p) =>
                      \/ p \notin Members \/ p \notin Members'
                      \/ ~Virtual(task[p])
                      \/ task[p].fpn # task[Root].fpn
                      \/ task'[p].dilation # task[p].dilation
<1>1. IInv /\ [Next]_vars => [A]_vars
  <2> SUFFICES ASSUME IInv, [Next]_vars, now' = now, NEW p \in alive \cap alive',
                      Steady(p), task'[p].dilation = task[p].dilation
               PROVE  Clock(p)' = Clock(p)
    BY DEF Steady
  <2> QED
    BY StepLeavesClock
<1> QED
  BY <1>1, AlwaysIInv, PTL DEF Spec, MemberClockContinuous

=============================================================================

-------------------------------- MODULE Htb --------------------------------
(***************************************************************************)
(* The HTB packet scheduler in virtual time (net_both/sched/sch_htb.c): a  *)
(* tree of classes with two token buckets each, from whose leaves packets  *)
(* are dequeued in rounds.  Queue time is the wall clock less the frozen   *)
(* time of the task that happens to dequeue, and a leaf's rate follows the *)
(* TDF of that task.                                                       *)
(*                                                                         *)
(* All operations run under the qdisc's lock, one step each.  Leaves hold  *)
(* pfifos, from which only HTB takes packets.  A packet is its length.     *)
(* Bounds: the wall clock stops at Span, HTB takes MaxPackets packets, a   *)
(* task is frozen at most MaxFrozen in all and classes are changed         *)
(* MaxOps times.                                                           *)
(***************************************************************************)
EXTENDS Integers, FiniteSets, SequencesExt, TLC

CONSTANTS Class,      \* class ids: numbers above 0
          Conf,       \* what tc says of each class
          First,      \* the classes there are at first
          Prio, MaxDepth, SEC, MBuffer,
          Task, ParentOf,  \* the tasks there are, and their parents
          Sender, Frozen,  \* those that dequeue, and those that get frozen
          Tdfs, Lens, DirectQlen, Hysteresis,
          Span, MaxPackets, MaxFrozen, MaxOps

ASSUME ClassAssumption == /\ IsFiniteSet(Class) /\ Class \subseteq Nat \ {0}
                          /\ First \subseteq Class
                          /\ \A c \in Class : Conf[c].parent \in Class \cup {0}

VARIABLES wall,    \* ktime_get()
          dil,     \* dilation of each task
          frozen,  \* freeze_past_nsec of each task
          q,       \* the qdisc
          armed,   \* when the watchdog fires, None if it is not armed
          work,    \* q->work is scheduled
          run,     \* someone is about to dequeue, or has just had a packet
          packets, ops, \* how many packets and changes there have been
          used,    \* history: ceil cost of all that left each class, and how far over
                  \* its ceiling that was when it last sent or lent
          born     \* history: when the class last had full buckets

\* q.skewed is history: a bucket was settled at a time before its last.
env == <<wall, dil, frozen>>
vars == <<env, q, armed, work, run, packets, ops, used, born>>

None == -1
NoUse == [sum |-> 0, over |-> 0]

\* What may have left c by now: what its buckets held, and what has flowed in.
Allowed(c, now) == Conf[c].cbuffer + now - born[c]
                   + (IF Hysteresis THEN Conf[c].cbuffer ELSE 0)
Modes == {"CANT_SEND", "MAY_BORROW", "CAN_SEND"}
Level == 0 .. MaxDepth - 1

\* A place where classes queue: the row of a level, the feed of a class.
Row(l) == <<"row", l>>
Feed(c) == <<"feed", c>>
Place == {Row(l) : l \in Level} \cup {Feed(c) : c \in Class}
EmptyPlace == [pr \in Prio |-> [set |-> {}, ptr |-> 0, last |-> 0]]

Active(s, l) == {pr \in Prio : s.at[Row(l)][pr].set # {}}

\* Token cost of len bytes.  A rate that dilation has rounded down to zero
\* leaves mult 1 and shift 0: a nanosecond a byte.
L2T(rate, len) == IF rate = 0 THEN len ELSE (len * SEC) \div rate
Dilated(rate, tdf) == IF tdf > 0 THEN (rate * 1000) \div tdf ELSE rate

NoClass == [exists |-> FALSE, parent |-> 0, level |-> 0, prio |-> 0, mode |-> "CAN_SEND",
            tokens |-> 0, ctokens |-> 0, tc |-> 0, key |-> 0, act |-> {}, qlen |-> <<>>,
            deficit |-> [l \in Level |-> 0], rate |-> 0, ceil |-> 0]

----------------------------------------------------------------------------
Successor(S, c) == LET above == {d \in S : d > c}
                   IN  IF above = {} THEN 0 ELSE Min(above)

AddToRow(s, c, mask) ==
  [s EXCEPT !.at[Row(s.cl[c].level)] =
     [pr \in Prio |-> IF pr \in mask THEN [@[pr] EXCEPT !.set = @ \cup {c}] ELSE @[pr]]]

RemoveFromRow(s, c, mask) ==
  [s EXCEPT !.at[Row(s.cl[c].level)] =
     [pr \in Prio |->
        IF pr \notin mask THEN @[pr]
        ELSE [@[pr] EXCEPT !.set = @ \ {c},
                           !.ptr = IF @ = c THEN Successor(s.at[Row(s.cl[c].level)][pr].set, c)
                                   ELSE @]]]

\* Joins the feeds of c's ancestors up to one that has the feed in use or may
\* send, and that one's row.
RECURSIVE Connect(_, _, _)
Connect(s, c, mask) ==
  LET p == s.cl[c].parent
  IN  CASE s.cl[c].mode = "MAY_BORROW" /\ p # 0 /\ mask # {} ->
             LET fresh == {pr \in mask : s.at[Feed(p)][pr].set = {}}
             IN  Connect([s EXCEPT
                   !.at[Feed(p)] = [pr \in Prio |->
                      IF pr \in mask THEN [@[pr] EXCEPT !.set = @ \cup {c}] ELSE @[pr]],
                   !.cl[p].act = @ \cup fresh], p, fresh)
        [] s.cl[c].mode = "CAN_SEND" /\ mask # {} -> AddToRow(s, c, mask)
        [] OTHER -> s

\* Mutant: the parent is not told that its feed is empty.
RECURSIVE Disconnect_KeepsActivity(_, _, _)
Disconnect_KeepsActivity(s, c, mask) ==
  LET p == s.cl[c].parent
  IN  CASE s.cl[c].mode = "MAY_BORROW" /\ p # 0 /\ mask # {} ->
             [s EXCEPT !.at[Feed(p)] = [pr \in Prio |->
                IF pr \in mask THEN [@[pr] EXCEPT !.set = @ \ {c}] ELSE @[pr]]]
        [] s.cl[c].mode = "CAN_SEND" /\ mask # {} -> RemoveFromRow(s, c, mask)
        [] OTHER -> s

RECURSIVE Disconnect(_, _, _)
Disconnect(s, c, mask) ==
  LET p == s.cl[c].parent
  IN  CASE s.cl[c].mode = "MAY_BORROW" /\ p # 0 /\ mask # {} ->
             LET left == [s EXCEPT !.at[Feed(p)] = [pr \in Prio |->
                   IF pr \notin mask THEN @[pr]
                   ELSE [set  |-> @[pr].set \ {c},
                         ptr  |-> IF @[pr].ptr = c THEN 0 ELSE @[pr].ptr,
                         last |-> IF @[pr].ptr = c THEN c ELSE @[pr].last]]]
                 empty == {pr \in mask : left.at[Feed(p)][pr].set = {}}
             IN  Disconnect([left EXCEPT !.cl[p].act = @ \ empty], p, empty)
        [] s.cl[c].mode = "CAN_SEND" /\ mask # {} -> RemoveFromRow(s, c, mask)
        [] OTHER -> s

Activate(s, c) ==
  IF s.cl[c].act # {} THEN s
  ELSE LET mask == {s.cl[c].prio}
       IN  Connect([s EXCEPT !.cl[c].act = mask, !.drops = Append(@, c)], c, mask)

Deactivate(s, c) ==
  [Disconnect(s, c, s.cl[c].act) EXCEPT !.cl[c].act = {},
                                        !.drops = SelectSeq(@, LAMBDA d : d # c)]

----------------------------------------------------------------------------
LoWater(c, mode) == IF Hysteresis /\ mode # "CANT_SEND" THEN -Conf[c].cbuffer ELSE 0
HiWater(c, mode) == IF Hysteresis /\ mode = "CAN_SEND" THEN -Conf[c].buffer ELSE 0

\* Mutant: a class that may send does so whatever its ceiling.
ClassMode_NoCeil(s, c, diff) ==
  LET have == s.cl[c].tokens + diff
  IN  IF have >= HiWater(c, s.cl[c].mode) THEN <<"CAN_SEND", diff>> ELSE <<"MAY_BORROW", -have>>

\* The mode at t_c + diff, and how long it takes to change.
ClassMode(s, c, diff) ==
  LET x == s.cl[c]
  IN  CASE x.ctokens + diff < LoWater(c, x.mode) -> <<"CANT_SEND", -(x.ctokens + diff)>>
        [] x.tokens + diff >= HiWater(c, x.mode)
             /\ x.ctokens + diff >= LoWater(c, x.mode) -> <<"CAN_SEND", diff>>
        [] OTHER -> <<"MAY_BORROW", -(x.tokens + diff)>>

\* A class is taken out of and put into the places of its mode.
Retire(s, c) == IF s.cl[c].act # {} /\ s.cl[c].mode # "CANT_SEND"
                THEN Disconnect(s, c, s.cl[c].act) ELSE s
Enlist(s, c) == IF s.cl[c].act # {} /\ s.cl[c].mode # "CANT_SEND"
                THEN Connect(s, c, s.cl[c].act) ELSE s

SetMode(s, c, mode) ==
  IF mode = s.cl[c].mode THEN s ELSE Enlist([Retire(s, c) EXCEPT !.cl[c].mode = mode], c)

\* Mutant: the cached time of the next event is not lowered.
AddToWait_Late(s, c, delay) ==
  LET key == s.now + IF delay = 0 THEN 1 ELSE delay
  IN  [s EXCEPT !.cl[c].key = key, !.pq = @ \cup {c}]

AddToWait(s, c, delay) ==
  LET key == s.now + IF delay = 0 THEN 1 ELSE delay
  IN  [s EXCEPT !.cl[c].key = key, !.pq = @ \cup {c},
                !.near[s.cl[c].level] = Min({@, key})]

\* To the mode m[1], with an event if it is to change again.  (A class that may
\* send has no event to take off the queue.)
ChangeMode(s, c, m) ==
  LET Await(moved) == IF m[1] # "CAN_SEND" THEN AddToWait(moved, c, m[2]) ELSE moved
  IN  Await(SetMode([s EXCEPT !.pq = @ \ {c}], c, m[1]))

Settle(have, depth, cost) ==
  LET toks == Min({have, depth}) - cost
  IN  IF toks <= -MBuffer THEN 1 - MBuffer ELSE toks

\* Charges a packet that leaf c sent, borrowing from level, to c and its
\* ancestors, from c up.
RECURSIVE Charge(_, _, _, _)
Charge(s, c, level, len) ==
  IF c = 0 THEN s
  ELSE LET x    == s.cl[c]
           diff == Min({s.now - x.tc, MBuffer})
           paid == [s EXCEPT
             !.cl[c].tokens  = IF x.level >= level
                               THEN Settle(@ + diff, Conf[c].buffer, L2T(x.rate, len))
                               ELSE @ + diff,
             !.cl[c].ctokens = Settle(@ + diff, Conf[c].cbuffer, L2T(x.ceil, len)),
             !.cl[c].tc      = s.now,
             !.skewed        = @ \/ s.now < x.tc]
           Moved(t, m) == IF m[1] = x.mode THEN t ELSE ChangeMode(t, c, m)
           Checked(t) == Moved(t, ClassMode(t, c, 0))
       IN  Charge(Checked(paid), x.parent, level, len)

\* Applies the events that are due at the level, budget of them at most, and
\* says when the next is: never (None) or at once if the budget ran out.
RECURSIVE DoEvents(_, _, _)
DoEvents(s, level, budget) ==
  LET waiting == {c \in s.pq : s.cl[c].level = level}
      c    == CHOOSE d \in waiting : \A e \in waiting : s.cl[d].key <= s.cl[e].key
      diff == Min({s.now - s.cl[c].tc, MBuffer})
      late == [s EXCEPT !.skewed = @ \/ s.now < s.cl[c].tc]
  IN  CASE budget = 0            -> [s |-> s, next |-> s.now]
        [] budget # 0 /\ waiting = {} -> [s |-> s, next |-> None]
        [] budget # 0 /\ waiting # {} /\ s.cl[c].key > s.now
             -> [s |-> s, next |-> s.cl[c].key]
        [] OTHER -> DoEvents(ChangeMode(late, c, ClassMode(s, c, diff)), level, budget - 1)

----------------------------------------------------------------------------
\* The leaf the round-robin pointers lead to from the places in stk, which
\* ends with the innermost.  Pointers that point nowhere are set right.
RECURSIVE LookupLeaf(_, _, _)
LookupLeaf(s, stk, pr) ==
  LET here == Last(stk)
      h    == s.at[here][pr]
      ptr  == IF h.ptr = 0 /\ h.last # 0 THEN Successor(h.set, h.last - 1) ELSE h.ptr
      seen == [s EXCEPT !.at[here][pr] = [h EXCEPT !.ptr = ptr, !.last = 0]]
  IN  IF ptr = 0
      THEN LET wound == [seen EXCEPT !.at[here][pr].ptr = Min(h.set)]
               outer == Last(Front(stk))
           IN  IF Len(stk) = 1 THEN LookupLeaf(wound, stk, pr)
               ELSE LookupLeaf([wound EXCEPT !.at[outer][pr].ptr =
                                  Successor(wound.at[outer][pr].set, @)],
                               Front(stk), pr)
      ELSE IF s.cl[ptr].level = 0 THEN [s |-> seen, leaf |-> ptr]
      ELSE LookupLeaf(seen, Append(stk, Feed(ptr)), pr)

\* One packet from the row of pr and level, sent by a task with dilation tdf
\* (0 if the leaf's rate is to stay).
DequeueTree(s0, pr, level, tdf) ==
  LET Send(s, c) ==
        LET x     == s.cl[c]
            len   == Head(x.qlen)
            place == IF level = 0 THEN Row(0) ELSE Feed(x.parent)
            short == x.deficit[level] - len < 0
            taken == [s EXCEPT
              !.cl[c].qlen = Tail(@),
              !.cl[c].rate = IF tdf > 0 THEN Dilated(Conf[c].rate, tdf) ELSE @,
              !.cl[c].deficit[level] = IF short THEN @ - len + Conf[c].quantum ELSE @ - len,
              !.at[place][pr].ptr = IF short THEN Successor(s.at[place][pr].set, @) ELSE @]
            emptied == IF Len(x.qlen) = 1 THEN Deactivate(taken, c) ELSE taken
        IN  [s |-> [Charge(emptied, c, level, len) EXCEPT !.qlen = @ - 1],
             leaf |-> c, len |-> len, level |-> level]
      Found(r) == Send(r.s, r.leaf)
  IN  Found(LookupLeaf(s0, <<Row(level)>>, pr))

\* The levels from level up: the first packet found, or when to look again.
RECURSIVE TryLevels(_, _, _, _, _)
TryLevels(s, level, next, tdf, budget) ==
  LET Cached(ev) == IF ev.next = None THEN [ev EXCEPT !.next = s.now + SEC] ELSE ev
      Noted(ev) == [ev EXCEPT !.s.near[level] = ev.next]
      Serve(ev, soon) ==
        IF Active(ev.s, level) # {}
        THEN DequeueTree(ev.s, Min(Active(ev.s, level)), level, tdf) @@ [next |-> soon]
        ELSE TryLevels(ev.s, level + 1, soon, tdf, budget)
      Look(ev) == Serve(ev, Min({next, ev.next}))
  IN  CASE level = MaxDepth -> [s |-> s, leaf |-> 0, next |-> next]
        [] level < MaxDepth /\ s.now < s.near[level] -> Look([s |-> s, next |-> s.near[level]])
        [] OTHER -> Look(Noted(Cached(DoEvents(s, level, budget))))

----------------------------------------------------------------------------
\* qdisc_reset of a leaf's pfifo, and qdisc_tree_decrease_qlen, which tells
\* HTB (htb_qlen_notify) if there was anything in it.
EmptyLeaf(s, c) ==
  LET n == Len(s.cl[c].qlen)
      empty == [s EXCEPT !.cl[c].qlen = <<>>, !.qlen = @ - n]
  IN  IF n = 0 THEN s ELSE Deactivate(empty, c)

Leaves == {c \in Class : q.cl[c].exists /\ q.cl[c].level = 0}
Children(s, p) == {c \in Class : s.cl[c].exists /\ s.cl[c].parent = p}

\* A leaf that gets a child becomes an inner class and loses its packets.
LeafToParent(s, p) ==
  LET up    == s.cl[p].parent
      empty == EmptyLeaf(s, p)
  IN  [empty EXCEPT !.pq = @ \ {p}, !.cl[p].mode = "CAN_SEND",
                    !.cl[p].level = (IF up # 0 THEN s.cl[up].level ELSE MaxDepth) - 1,
                    !.cl[p].deficit = NoClass.deficit, !.at[Feed(p)] = EmptyPlace]

NewClass(s, c, now, tdf) ==
  LET p   == Conf[c].parent
      fit == IF p # 0 /\ s.cl[p].level = 0 THEN LeafToParent(s, p) ELSE s
  IN  [fit EXCEPT !.cl[c] = [NoClass EXCEPT
         !.exists = TRUE, !.parent = p, !.prio = Conf[c].prio, !.tc = now,
         !.tokens = Conf[c].buffer, !.ctokens = Conf[c].cbuffer,
         !.rate = Dilated(Conf[c].rate, tdf), !.ceil = Dilated(Conf[c].ceil, tdf)]]

TooDeep(s, p) == LET up == s.cl[p].parent IN p # 0 /\ up # 0 /\ s.cl[up].level < 2

Blank == [now |-> 0, cl |-> [c \in Class |-> NoClass],
          at |-> [p \in Place |-> EmptyPlace], pq |-> {},
          near |-> [l \in Level |-> 0], drops |-> <<>>, qlen |-> 0, direct |-> 0,
          skewed |-> FALSE]

Init == /\ wall = 0 /\ armed = None /\ work = FALSE /\ run = FALSE
        /\ dil = [t \in Task |-> 0] /\ frozen = [t \in Task |-> 0]
        /\ q = FoldLeft(LAMBDA s, c : NewClass(s, c, 0, 0), Blank,
                        SetToSortSeq(First, LAMBDA c, d : c < d))
        /\ packets = 0 /\ ops = 0
        /\ used = [c \in Class |-> NoUse] /\ born = [c \in Class |-> 0]

----------------------------------------------------------------------------
\* Time passes; the tasks in F are frozen meanwhile.
Tick(F) == /\ wall < Span
           /\ wall' = wall + 1
           /\ frozen' = [t \in Task |-> IF t \in F THEN frozen[t] + 1 ELSE frozen[t]]
           /\ \A t \in F : frozen[t] < MaxFrozen
           /\ UNCHANGED <<dil, q, armed, work, run, packets, ops, used, born>>

\* set_dilation on a task and its children.
Redilate(p, tdf) ==
  /\ ops < MaxOps /\ ops' = ops + 1
  /\ dil' = [t \in Task |-> IF t = p \/ ParentOf[t] = p THEN tdf ELSE dil[t]]
  /\ dil' # dil
  /\ UNCHANGED <<wall, frozen, q, armed, work, run, packets, used, born>>

\* htb_enqueue of a packet that is classified to a leaf ...
Enqueue(c, len) ==
  /\ packets < MaxPackets /\ packets' = packets + 1
  /\ q' = [Activate([q EXCEPT !.cl[c].qlen = Append(@, len)], c) EXCEPT !.qlen = @ + 1]
  /\ run' = TRUE
  /\ UNCHANGED <<env, armed, work, ops, used, born>>

\* ... or to no class.  A full queue drops it.
EnqueueDirect ==
  /\ packets < MaxPackets /\ packets' = packets + 1
  /\ q' = IF q.direct < DirectQlen THEN [q EXCEPT !.direct = @ + 1, !.qlen = @ + 1] ELSE q
  /\ run' = TRUE
  /\ UNCHANGED <<env, armed, work, ops, used, born>>

Ancestors(s, c) == LET up == s.cl[c].parent
                   IN  {c, up, IF up = 0 THEN 0 ELSE s.cl[up].parent} \ {0}

\* htb_dequeue by task t, with time for budget events at each level.
Dequeue(t, budget) ==
  /\ run
  /\ IF q.direct > 0
     THEN /\ q' = [q EXCEPT !.direct = @ - 1, !.qlen = @ - 1]
          /\ UNCHANGED <<dil, armed, work, run, used>>
     ELSE IF q.qlen = 0
     THEN run' = FALSE /\ UNCHANGED <<q, dil, armed, work, used>>
     ELSE LET up  == dil[ParentOf[t]]
              tdf == IF dil[t] > 0 /\ up > 0 THEN up ELSE 0
              now == wall - frozen[t]
          IN  \E r \in {TryLevels([q EXCEPT !.now = now], 0, now + 5 * SEC, tdf, budget)} :
              /\ q' = r.s
              /\ IF r.leaf # 0
                 THEN /\ dil' = IF tdf > 0 THEN [dil EXCEPT ![t] = tdf] ELSE dil
                      /\ used' = [c \in Class |->
                           LET cost == L2T(r.s.cl[c].ceil, r.len)
                           IN  IF c \in Ancestors(r.s, r.leaf)
                               THEN [sum |-> used[c].sum + cost,
                                     over |-> IF r.s.cl[c].level <= r.level /\ used[c].sum > 0
                                               THEN used[c].sum - Allowed(c, now)
                                               ELSE used[c].over]
                               ELSE used[c]]
                      /\ UNCHANGED <<armed, work, run>>
                 ELSE /\ run' = FALSE
                      /\ armed' = IF r.next > now THEN r.next ELSE armed
                      /\ work' = (work \/ r.next <= now)
                      /\ UNCHANGED <<dil, used>>
  /\ UNCHANGED <<wall, frozen, packets, ops, born>>

\* The watchdog's timer runs on the wall clock.
WatchdogFires == /\ armed # None /\ wall >= armed
                 /\ armed' = None /\ run' = TRUE
                 /\ UNCHANGED <<env, q, work, packets, ops, used, born>>

WorkRuns == /\ work /\ work' = FALSE /\ run' = TRUE
            /\ UNCHANGED <<env, q, armed, packets, ops, used, born>>

----------------------------------------------------------------------------
(* The rest is tc, and what a parent qdisc and the device ask for.         *)

Change == ops < MaxOps /\ ops' = ops + 1 /\ UNCHANGED <<env, packets>>

\* Buckets are filled in wall-clock time, whatever queue time is.  A class
\* that is allowed to send although it may be in debt gets away with one
\* packet, which used forgives it.
History(filled, forgiven) ==
  /\ born' = [c \in Class |-> IF c \in filled THEN wall ELSE born[c]]
  /\ used' = [c \in Class |-> CASE c \in filled -> NoUse
                               [] c \in forgiven \ filled ->
                                    [used[c] EXCEPT !.sum = Min({@, Allowed(c, q.now)})]
                               [] OTHER -> used[c]]

AddClass(c, tdf) ==
  /\ Change
  /\ ~q.cl[c].exists
  /\ Conf[c].parent # 0 => q.cl[Conf[c].parent].exists
  /\ ~TooDeep(q, Conf[c].parent)
  /\ q' = NewClass(q, c, wall, tdf)
  /\ History({c}, {Conf[c].parent})
  /\ UNCHANGED <<armed, work, run>>

\* htb_change_class on a class there is.
ChangeClass(c, prio, tdf) ==
  /\ Change
  /\ q.cl[c].exists
  /\ q' = [q EXCEPT !.cl[c].rate = Dilated(Conf[c].rate, tdf),
                    !.cl[c].ceil = Dilated(Conf[c].ceil, tdf),
                    !.cl[c].prio = IF q.cl[c].level = 0 THEN prio ELSE @]
  /\ UNCHANGED <<armed, work, run, used, born>>

\* A parent that lost its last child becomes a leaf with full buckets.
ParentToLeaf(s, p) ==
  [s EXCEPT !.pq = @ \ {p}, !.at[Feed(p)] = EmptyPlace,
            !.cl[p] = [@ EXCEPT !.level = 0, !.mode = "CAN_SEND", !.tc = wall,
                                !.tokens = Conf[p].buffer, !.ctokens = Conf[p].cbuffer,
                                !.deficit = NoClass.deficit, !.qlen = <<>>]]

DeleteClass(c) ==
  LET p     == q.cl[c].parent
      empty == IF q.cl[c].level = 0 THEN EmptyLeaf(q, c) ELSE q
      quiet == IF empty.cl[c].act # {} THEN Deactivate(empty, c) ELSE empty
      gone  == [quiet EXCEPT !.pq = @ \ {c}, !.cl[c] = NoClass]
      last  == q.cl[c].level = 0 /\ p # 0 /\ Children(gone, p) = {}
  IN  /\ Change
      /\ q.cl[c].exists /\ Children(q, c) = {}
      /\ q' = IF last THEN ParentToLeaf(gone, p) ELSE gone
      /\ History(IF last THEN {p} ELSE {}, {})
      /\ UNCHANGED <<armed, work, run>>

\* htb_graft: a new, empty pfifo.
Graft(c) == /\ Change
            /\ c \in Leaves
            /\ q' = EmptyLeaf(q, c)
            /\ UNCHANGED <<armed, work, run, used, born>>

\* htb_drop, of the last packet of the leaf first in the list of the lowest
\* priority that has one.
Drop ==
  LET inlist == {i \in DOMAIN q.drops : q.cl[q.drops[i]].qlen # <<>>}
      Worse(i, j) == \/ Max(q.cl[q.drops[i]].act) > Max(q.cl[q.drops[j]].act)
                     \/ q.cl[q.drops[i]].act = q.cl[q.drops[j]].act /\ i <= j
      c == q.drops[CHOOSE i \in inlist : \A j \in inlist : Worse(i, j)]
      short == [q EXCEPT !.cl[c].qlen = Front(@), !.qlen = @ - 1]
  IN  /\ Change
      /\ inlist # {}
      /\ q' = IF short.cl[c].qlen = <<>> THEN Deactivate(short, c) ELSE short
      /\ UNCHANGED <<armed, work, run, used, born>>

\* htb_reset leaves tokens, deficits and the cached event times alone.
Reset ==
  /\ Change
  /\ q' = [q EXCEPT !.cl = [c \in Class |-> [@[c] EXCEPT
                              !.qlen = <<>>, !.act = {}, !.mode = "CAN_SEND"]],
                    !.at = Blank.at, !.pq = {}, !.drops = <<>>,
                    !.qlen = 0, !.direct = 0]
  /\ armed' = None
  /\ History({}, Class)
  /\ UNCHANGED <<work, run>>

Next ==
  \/ \E F \in SUBSET Frozen : Tick(F)
  \/ \E t \in Frozen, tdf \in Tdfs : Redilate(t, tdf)
  \/ \E c \in Leaves, len \in Lens : Enqueue(c, len)
  \/ EnqueueDirect
  \/ \E t \in Sender, budget \in {1, Cardinality(Class) + 1} : Dequeue(t, budget)
  \/ WatchdogFires \/ WorkRuns
  \/ \E c \in Class, tdf \in {dil[t] : t \in Sender} :
       \/ AddClass(c, tdf)
       \/ \E prio \in Prio : ChangeClass(c, prio, tdf)
  \/ \E c \in Class : DeleteClass(c) \/ Graft(c)
  \/ Drop \/ Reset

Spec == Init /\ [][Next]_vars

----------------------------------------------------------------------------
\* Types, and what the lengths must add up to.
TypeOK ==
  /\ wall \in Nat /\ dil \in [Task -> Nat] /\ frozen \in [Task -> Nat]
  /\ q.pq \subseteq Class /\ q.direct \in 0 .. DirectQlen
  /\ q.near \in [Level -> Int] /\ armed \in Int /\ {work, run} \subseteq BOOLEAN
  /\ \A c \in Class : q.cl[c].mode \in Modes /\ q.cl[c].act \subseteq Prio
  /\ q.qlen = q.direct + MapThenSumSet(LAMBDA c : Len(q.cl[c].qlen), Class)

\* Where a class queues follows from its mode and activity alone, through
\* every change of mode, deletion and reset: an active class that may send is
\* in its level's row, one that may borrow is in its parent's feed, and no
\* class is anywhere else; a class is active where it has packets, or
\* children to feed; it waits for an event unless it may send; and the
\* pointers of the rounds point into what they go round.
FeedsConsistent ==
  /\ TypeOK
  /\ \A c \in Class, pr \in Prio :
       LET x == q.cl[c]
       IN  /\ \A l \in Level : c \in q.at[Row(l)][pr].set <=>
                 x.exists /\ x.level = l /\ pr \in x.act /\ x.mode = "CAN_SEND"
           /\ \A p \in Class : c \in q.at[Feed(p)][pr].set <=>
                 x.exists /\ x.parent = p /\ pr \in x.act /\ x.mode = "MAY_BORROW"
           /\ x.level > 0 => (pr \in x.act <=> q.at[Feed(c)][pr].set # {})
  /\ \A c \in Class :
       LET x == q.cl[c]
       IN  /\ c \in q.pq <=> x.exists /\ x.mode # "CAN_SEND"
           /\ x.level = 0 => (x.act # {} <=> x.qlen # <<>>)
           /\ ToSet(q.drops) = {d \in Class : q.cl[d].qlen # <<>>}
  /\ \A p \in Place, pr \in Prio : q.at[p][pr].ptr \in q.at[p][pr].set \cup {0}

\* Whoever dequeued, and however its mode was cached and its events were put
\* off, a class sends, or lends to one below it, only if no more has left it
\* than its ceiling allows since its buckets were full: the depth of the
\* bucket and what has flowed into it.  (A class below it may use its own
\* rate all the same.)  Where queue time goes back, because tasks with
\* different frozen times take turns, that need not hold.
CeilRespected ==
  ~q.skewed => \A c \in Class : used[c].over <= 0

\* Packets are never forgotten: when nobody is about to dequeue, no class may
\* send, and HTB will look again at once, or at the latest when the first
\* class that waits is due.
NoStall ==
  q.qlen > 0 /\ ~run =>
    /\ \A l \in Level : Active(q, l) = {}
    /\ \/ work
       \/ armed # None /\ \A c \in q.pq :
            q.cl[c].act # {} => armed <= q.cl[c].key \/ armed <= wall

=============================================================================

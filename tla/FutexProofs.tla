---------------------------- MODULE FutexProofs ----------------------------
(***************************************************************************)
(* Theorems about Futex, for any tasks, futexes and buckets, any requests  *)
(* and TDFs, and every bound.  The inductive invariant says where each     *)
(* waiter is (Places): on a chain, in the hands of the waker that has      *)
(* taken it off, or woken; who holds which lock (Locks); whom the counters *)
(* count (Counted); whom a wake still has to find (Owes); and of each task  *)
(* alone how far its call is (Calling, Waking).                            *)
(***************************************************************************)
EXTENDS Futex, FiniteSetTheorems, TLAPS

Out == {"idle", "inc", "why", "signal"}
InCall == {"check", "sleep", "unqueue", "unlock"}
Inside == {"next", "null", "wake", "add", "unlock"}

\* Of a waiter v with state r.
Call(v, r) ==
  /\ r.pc # "idle" => r.addr \in Futexes
  /\ r.pc \in Out \cup {"lock", "queue"} => ~r.given
  /\ r.pc \in {"lock", "queue"} => r.key = r.addr /\ r.ptr = Hash[r.addr]
  /\ r.pc \in InCall => r.key \in Futexes
  /\ r.pc = "unlock" => r.saw \in Buckets
  /\ r.armed \/ ~r.to => r.due # None
  /\ ~r.to => r.due <= r.age
  /\ r.due = IF r.request = None THEN None ELSE DilateRequest(v, r.request)

Calling == \A v \in Waiters : Call(v, w[v])

\* Of a waker with state r.
Rouse(r) ==
  /\ r.pc # "idle" => r.f \in Futexes /\ r.g \in Futexes
  /\ r.cond => r.op = "op"
  /\ r.op \in {"requeue", "cmp"} /\ r.pc # "idle" => r.f # r.g
  /\ r.pc \in {"null", "wake", "add"} => r.who \in Waiters
  /\ r.pc = "lock2" => Hash[r.f] # Hash[r.g]
  /\ r.pc = "unlock" => r.op = "cmp"

Waking == \A x \in Wakers : Rouse(k[x])

\* What a waker has in hand.
Hand(x) ==
  LET v == k[x].who
  IN  /\ k[x].pc = "null" => /\ w[v].pc \in InCall /\ w[v].given
                             /\ w[v].ptr \in {B1(x), B2(x)}
      /\ k[x].pc = "add" => /\ w[v].pc \in InCall /\ ~w[v].given /\ ~Queued(v)
                            /\ w[v].ptr = B1(x) /\ B1(x) # B2(x) /\ Requeues(x)

\* v, on the chain of b.
OnChain(v, b) == w[v].pc \in InCall /\ w[v].ptr = b /\ Hash[w[v].key] = b /\ ~w[v].given

Places ==
  /\ \A b \in Buckets : IsInjective(chain[b]) /\ \A v \in ToSet(chain[b]) : OnChain(v, b)
  /\ \A x \in Wakers : Hand(x)
  /\ \A v \in Waiters :
       /\ w[v].pc \in InCall =>
            Queued(v) \/ w[v].given \/ \E x \in Wakers : k[x].pc = "add" /\ k[x].who = v
       /\ w[v].given /\ w[v].ptr # None => \E x \in Wakers : k[x].pc = "null" /\ k[x].who = v
       /\ w[v].given /\ w[v].asleep =>
            \E x \in Wakers : k[x].pc \in {"null", "wake"} /\ k[x].who = v

Holds(x, b) == \/ k[x].pc = "lock2" /\ b = Low(x)
               \/ k[x].pc \in Inside /\ b \in {B1(x), B2(x)}

Locks ==
  \A b \in Buckets :
    /\ \A v \in Waiters : lock[b] = v <=> w[v].pc = "queue" /\ w[v].ptr = b
    /\ \A x \in Wakers : lock[b] = x <=> Holds(x, b)

\* Those who are about to look at a futex in b, and the requeues to b.
Lookers(b) == {v \in Waiters : w[v].pc \in {"lock", "queue"} /\ Hash[w[v].addr] = b}
Announcers(b) == {x \in Wakers : Requeues(x) /\ B2(x) = b /\ k[x].pc \notin {"key", "idle"}}

Counted ==
  \A b \in Buckets :
    waiters[b] = Len(chain[b]) + Cardinality(Lookers(b)) + Cardinality(Announcers(b))

\* The waiter v is where a wake of f will find it.
Findable(v, f) == \/ w[v].key = f /\ (w[v].pc = "queue" \/ Queued(v))
                  \/ \E y \in Wakers : k[y].g = f /\ v \in Coming(y)

Owes ==
  \A x \in Wakers :
    /\ k[x].op # "wake" \/ k[x].pc \in {"idle", "key"} => owed[x] = {}
    /\ \A v \in owed[x] : w[v].bits \cap k[x].bits # {} /\ Findable(v, k[x].f)
    /\ k[x].pc = "return" /\ k[x].found < Quota(x) => owed[x] = {}

IInv == TypeOK /\ Calling /\ Waking /\ Places /\ Locks /\ Counted /\ Owes

(***************************************************************************)
(* Sequences: a waiter comes off a chain, and onto one.                    *)
(***************************************************************************)

LEMMA ConcatIs ==
  ASSUME NEW T, NEW a \in Seq(T), NEW c \in Seq(T)
  PROVE  /\ a \o c \in Seq(T) /\ Len(a \o c) = Len(a) + Len(c)
         /\ DOMAIN (a \o c) = 1 .. Len(a) + Len(c)
         /\ \A j \in 1 .. Len(a) + Len(c) :
              (a \o c)[j] = IF j <= Len(a) THEN a[j] ELSE c[j - Len(a)]
OBVIOUS

\* RemoveAt at a position of the sequence.
LEMMA RemoveAtIs ==
  ASSUME NEW T, NEW s \in Seq(T), NEW i \in DOMAIN s
  PROVE  /\ RemoveAt(s, i) \in Seq(T) /\ Len(RemoveAt(s, i)) = Len(s) - 1
         /\ \A j \in DOMAIN RemoveAt(s, i) :
              /\ j \in DOMAIN s /\ j + 1 \in DOMAIN s
              /\ RemoveAt(s, i)[j] = IF j < i THEN s[j] ELSE s[j + 1]
<1> DEFINE a == SubSeq(s, 1, i - 1)
           c == SubSeq(s, i + 1, Len(s))
<1>1. Len(s) \in Nat /\ i \in 1 .. Len(s) /\ DOMAIN s = 1 .. Len(s)
  OBVIOUS
<1>2. /\ a \in Seq(T) /\ Len(a) = i - 1 /\ c \in Seq(T) /\ Len(c) = Len(s) - i
      /\ \A j \in 1 .. i - 1 : a[j] = s[j]
      /\ \A j \in 1 .. Len(s) - i : c[j] = s[i + j]
  BY <1>1, SMTT(60)
<1>3. /\ a \o c \in Seq(T) /\ Len(a \o c) = Len(s) - 1 /\ DOMAIN (a \o c) = 1 .. Len(s) - 1
      /\ \A j \in 1 .. Len(s) - 1 : (a \o c)[j] = IF j < i THEN a[j] ELSE c[j - (i - 1)]
  <2> HIDE DEF a, c
  <2>1. /\ a \o c \in Seq(T) /\ Len(a \o c) = Len(a) + Len(c)
        /\ DOMAIN (a \o c) = 1 .. Len(a) + Len(c)
        /\ \A j \in 1 .. Len(a) + Len(c) :
             (a \o c)[j] = IF j <= Len(a) THEN a[j] ELSE c[j - Len(a)]
    BY <1>2, ConcatIs
  <2>2. Len(a) + Len(c) = Len(s) - 1 /\ \A j \in Int : j < i <=> j <= Len(a)
    BY <1>1, <1>2
  <2> QED
    BY <1>2, <2>1, <2>2, SMTT(60)
<1> DEFINE o == a \o c
<1>4. RemoveAt(s, i) = o
  BY DEF RemoveAt
<1>5. /\ o \in Seq(T) /\ Len(o) = Len(s) - 1 /\ DOMAIN o = 1 .. Len(s) - 1
      /\ \A j \in 1 .. Len(s) - 1 : o[j] = IF j < i THEN a[j] ELSE c[j - (i - 1)]
  BY <1>3
<1> HIDE DEF a, c, o
<1>6. ASSUME NEW j \in 1 .. Len(s) - 1
      PROVE  j \in 1 .. Len(s) /\ j + 1 \in 1 .. Len(s) /\ o[j] = IF j < i THEN s[j] ELSE s[j + 1]
  <2>1. CASE j < i
    <3>1. j \in 1 .. i - 1
      BY <2>1, <1>1
    <3> QED
      BY <2>1, <3>1, <1>1, <1>2, <1>5
  <2>2. CASE ~(j < i)
    <3>1. j - (i - 1) \in 1 .. Len(s) - i /\ i + (j - (i - 1)) = j + 1
      BY <2>2, <1>1
    <3> QED
      BY <2>2, <3>1, <1>1, <1>2, <1>5, SMTT(60)
  <2> QED
    BY <2>1, <2>2
<1> QED
  BY <1>1, <1>4, <1>5, <1>6

\* In s, u comes before v.
Before(s, u, v) == \E i, j \in DOMAIN s : i < j /\ s[i] = u /\ s[j] = v

LEMMA OffIs ==
  ASSUME NEW T, NEW s \in Seq(T), IsInjective(s), NEW v \in ToSet(s)
  PROVE  /\ Off(s, v) \in Seq(T) /\ Len(Off(s, v)) = Len(s) - 1 /\ Len(s) >= 1
         /\ IsInjective(Off(s, v)) /\ ToSet(Off(s, v)) = ToSet(s) \ {v}
         /\ \A a, b : Before(Off(s, v), a, b) => Before(s, a, b)
<1>1. PICK i \in DOMAIN s : s[i] = v
  BY DEF ToSet
<1>2. {x \in DOMAIN s : s[x] = v} = {i}
  BY <1>1 DEF IsInjective
<1> DEFINE o == RemoveAt(s, i)
<1>3. Off(s, v) = o
  BY <1>2 DEF Off
<1>4. /\ o \in Seq(T) /\ Len(o) = Len(s) - 1 /\ DOMAIN o = 1 .. Len(s) - 1
      /\ \A j \in DOMAIN o :
           j \in DOMAIN s /\ j + 1 \in DOMAIN s /\ o[j] = IF j < i THEN s[j] ELSE s[j + 1]
  <2>1. /\ o \in Seq(T) /\ Len(o) = Len(s) - 1
        /\ \A j \in DOMAIN o :
             j \in DOMAIN s /\ j + 1 \in DOMAIN s /\ o[j] = IF j < i THEN s[j] ELSE s[j + 1]
    BY RemoveAtIs, Zenon
  <2> HIDE DEF o
  <2> QED
    BY <2>1
<1> HIDE DEF o
<1>5. DOMAIN s = 1 .. Len(s) /\ Len(s) \in Nat /\ Len(s) >= 1 /\ i \in 1 .. Len(s)
  BY <1>1
<1>6. IsInjective(o)
  BY <1>4, <1>5, SMTT(60) DEF IsInjective
<1>7. ToSet(o) \subseteq ToSet(s) \ {v}
  BY <1>1, <1>4, <1>5, SMTT(60) DEF ToSet, IsInjective
<1>8. ASSUME NEW a \in ToSet(s) \ {v} PROVE a \in ToSet(o)
  <2>1. PICK j \in DOMAIN s : s[j] = a
    BY DEF ToSet
  <2>2. j # i
    BY <2>1, <1>1
  <2>3. CASE j < i
    BY <2>1, <2>3, <1>4, <1>5, SMTT(60) DEF ToSet
  <2>4. CASE j > i
    <3>1. j - 1 \in DOMAIN o /\ o[j - 1] = s[(j - 1) + 1] /\ (j - 1) + 1 = j
      BY <2>4, <2>1, <1>4, <1>5
    <3> QED
      BY <3>1, <2>1 DEF ToSet
  <2> QED
    BY <2>2, <2>3, <2>4, <1>5
<1>9. ASSUME NEW a, NEW b, Before(o, a, b) PROVE Before(s, a, b)
  <2>1. PICK p \in DOMAIN o, q \in DOMAIN o : p < q /\ o[p] = a /\ o[q] = b
    BY <1>9 DEF Before
  <2> DEFINE p2 == IF p < i THEN p ELSE p + 1
             q2 == IF q < i THEN q ELSE q + 1
  <2>2. p2 \in DOMAIN s /\ q2 \in DOMAIN s /\ s[p2] = a /\ s[q2] = b
    BY <2>1, <1>4
  <2>3. p2 < q2
    BY <2>1, <1>4, <1>5
  <2> QED
    BY <2>2, <2>3 DEF Before
<1> QED
  BY <1>3, <1>4, <1>5, <1>6, <1>7, <1>8, <1>9

LEMMA AppendIs ==
  ASSUME NEW T, NEW s \in Seq(T), IsInjective(s), NEW v \in T, v \notin ToSet(s)
  PROVE  /\ Append(s, v) \in Seq(T) /\ Len(Append(s, v)) = Len(s) + 1
         /\ IsInjective(Append(s, v)) /\ ToSet(Append(s, v)) = ToSet(s) \cup {v}
<1> DEFINE o == Append(s, v)
<1>1. /\ o \in Seq(T) /\ Len(o) = Len(s) + 1 /\ DOMAIN o = 1 .. Len(s) + 1
      /\ DOMAIN s = 1 .. Len(s) /\ Len(s) \in Nat
      /\ o[Len(s) + 1] = v /\ \A j \in 1 .. Len(s) : o[j] = s[j]
  OBVIOUS
<1> HIDE DEF o
<1>2. \A j \in 1 .. Len(s) + 1 : j \in 1 .. Len(s) \/ j = Len(s) + 1
  BY <1>1
<1>3. IsInjective(o)
  BY <1>1, <1>2 DEF IsInjective, ToSet
<1>4. ToSet(o) = ToSet(s) \cup {v}
  <2>1. ToSet(o) \subseteq ToSet(s) \cup {v}
    BY <1>1, <1>2 DEF ToSet
  <2>2. ToSet(s) \subseteq ToSet(o)
    BY <1>1 DEF ToSet
  <2>3. v \in ToSet(o)
    <3>1. Len(s) + 1 \in DOMAIN o
      BY <1>1
    <3> QED
      BY <3>1, <1>1 DEF ToSet
  <2> QED
    BY <2>1, <2>2, <2>3
<1> QED
  BY <1>1, <1>3, <1>4 DEF o

(***************************************************************************)
(* Constants, counting, and the record of one task.                        *)
(***************************************************************************)

LEMMA Ground ==
  /\ Buckets \subseteq Nat /\ None \notin Buckets /\ None \notin Nat /\ None \notin Futexes
  /\ None \notin Waiters /\ None \notin Wakers /\ Waiters \cap Wakers = {}
  /\ \A f \in Futexes : Hash[f] \in Buckets
BY FutexAssumption DEF Buckets

LEMMA Counting ==
  ASSUME NEW b
  PROVE  /\ IsFiniteSet(Lookers(b)) /\ Cardinality(Lookers(b)) \in Nat
         /\ IsFiniteSet(Announcers(b)) /\ Cardinality(Announcers(b)) \in Nat
<1>1. Lookers(b) \subseteq Waiters /\ Announcers(b) \subseteq Wakers
  BY DEF Lookers, Announcers
<1>2. IsFiniteSet(Lookers(b)) /\ IsFiniteSet(Announcers(b))
  BY <1>1, FS_Subset, FutexAssumption
<1> QED
  BY <1>2, FS_CardinalityType

\* A set with one more, or one less.
LEMMA OneMore ==
  ASSUME NEW S, IsFiniteSet(S), NEW v, v \notin S, NEW R, R = S \cup {v}
  PROVE  Cardinality(R) = Cardinality(S) + 1 /\ IsFiniteSet(R)
BY FS_AddElement

LEMMA OneLess ==
  ASSUME NEW S, IsFiniteSet(S), NEW v \in S, NEW R, R = S \ {v}
  PROVE  Cardinality(R) = Cardinality(S) - 1 /\ IsFiniteSet(R)
BY FS_RemoveElement

LEMMA SomeOne ==
  ASSUME NEW S, IsFiniteSet(S), NEW v \in S
  PROVE  Cardinality(S) >= 1
<1>1. Cardinality(S) # 0 /\ Cardinality(S) \in Nat
  BY FS_EmptySet, FS_CardinalityType
<1> QED
  BY <1>1

\* A task goes from r to s, and nobody else can tell, unless it is in a call
\* after it was woken.
Kept(r, s) ==
  /\ r.pc \in {"lock", "queue"} \/ s.pc \in {"lock", "queue"} =>
       /\ s.pc = r.pc /\ s.addr = r.addr
       /\ s.key = r.key /\ s.ptr = r.ptr /\ s.bits = r.bits
  /\ s.pc \in InCall =>
       /\ r.pc \in InCall /\ s.key = r.key /\ s.ptr = r.ptr
       /\ s.bits = r.bits /\ s.given = r.given /\ (s.asleep => r.asleep)
  /\ r.pc \in InCall /\ s.pc \notin InCall => r.ptr = None

LEMMA KeptSelf == \A r : Kept(r, r)
BY DEF Kept, InCall

Tasks == [Waiters -> WaiterState]

LEMMA BecomesIs ==
  ASSUME w \in Tasks, Calling,
         NEW t \in Waiters, NEW s \in WaiterState, Call(t, s), Becomes(t, s)
  PROVE  /\ w' \in Tasks /\ Calling' /\ w'[t] = s
         /\ \A v \in Waiters \ {t} : w'[v] = w[v]
BY DEF Tasks, Calling, Becomes

\* A step of a waiter of which nobody else knows.
Steady == /\ UNCHANGED <<hash, k, owed>>
          /\ \A v \in Waiters : Kept(w[v], w'[v])

LEMMA SteadyIs ==
  ASSUME TypeOK, Calling, word' = word, UNCHANGED <<hash, k, owed>>,
         count' \in [{"waits", "posts", "signals"} -> Nat],
         NEW t \in Waiters, NEW s \in WaiterState, Call(t, s), Becomes(t, s), Kept(w[t], s)
  PROVE  TypeOK' /\ Calling' /\ Steady
<1>1. /\ w' \in Tasks /\ Calling' /\ w'[t] = s
      /\ \A v \in Waiters \ {t} : w'[v] = w[v]
  <2>1. w \in Tasks
    BY DEF TypeOK, Tasks
  <2> QED
    BY <2>1, BecomesIs
<1>2. \A v \in Waiters : Kept(w[v], w'[v])
  BY <1>1, KeptSelf
<1> QED
  BY <1>1, <1>2 DEF TypeOK, Tasks, Steady, hash

LEMMA SpendIs ==
  ASSUME TypeOK, NEW what \in {"waits", "posts", "signals"}, NEW max, Spend(what, max)
  PROVE  count' \in [{"waits", "posts", "signals"} -> Nat]
BY DEF TypeOK, Spend

LEMMA DueIs ==
  ASSUME NEW t \in Waiters, NEW r \in Nat
  PROVE  DilateRequest(t, r) \in Nat
<1>1. Tdf[t] \in Nat /\ Second \in Nat
  BY FutexAssumption
<1>2. r * Tdf[t] \in Nat
  BY <1>1
<1>3. (r * Tdf[t]) \div 1000 \in Nat
  BY <1>2
<1> QED
  BY <1>1, <1>3 DEF DilateRequest

LEMMA IdleIs ==
  ASSUME NEW t \in Waiters, NEW sig \in {"none", "stop"}
  PROVE  Idle(sig) \in WaiterState /\ Call(t, Idle(sig)) /\ Idle(sig).pc = "idle"
BY DEF Idle, WaiterState, Call, Maybe, InCall, Out

(***************************************************************************)
(* Steps of a waiter that only the waiter itself can tell.                 *)
(***************************************************************************)

\* Of a waiter: its record, with types.
LEMMA RecordIs ==
  ASSUME TypeOK, Calling, NEW t \in Waiters
  PROVE  w[t] \in WaiterState /\ Call(t, w[t])
BY DEF TypeOK, Calling

LEMMA WaitSteady ==
  ASSUME TypeOK, Calling, NEW t \in Waiters, NEW f \in WaitsOn[t], NEW r \in Requests[t],
         NEW bits \in Bitsets, Wait(t, f, r, bits)
  PROVE  TypeOK' /\ Calling' /\ Steady
<1>1. f \in Futexes /\ r \in Maybe(Nat) /\ bits \in SUBSET AnyBit
  BY FutexAssumption DEF Maybe, AnyBit
<1>2. word[f] \in Nat
  BY <1>1 DEF TypeOK
<1> DEFINE d == IF r = None THEN None ELSE DilateRequest(t, r)
           i == Idle("none")
           s == [i EXCEPT !.pc = "inc", !.addr = f, !.val = word[f], !.bits = bits,
                          !.request = r, !.due = d]
<1>3. d \in Maybe(Nat)
  BY <1>1, DueIs DEF Maybe
<1>4. Becomes(t, s) /\ w[t].pc = "idle" /\ UNCHANGED <<word, hash, k, owed>> /\ Spend("waits", MaxWaits)
  BY DEF Wait
<1>5. i \in WaiterState /\ i.pc = "idle" /\ i.given = FALSE /\ i.armed = FALSE /\ i.to = TRUE
  BY IdleIs DEF Idle
<1> HIDE DEF i
<1>6. s \in WaiterState
  <2> HIDE DEF d
  <2> QED
    BY <1>1, <1>2, <1>3, <1>5 DEF WaiterState, Maybe
<1>7. /\ s.pc = "inc" /\ s.addr = f /\ s.due = d /\ s.request = r
      /\ s.given = FALSE /\ s.armed = FALSE /\ s.to = TRUE
  <2> HIDE DEF d
  <2> QED
    BY <1>5 DEF WaiterState
<1>8. Call(t, s)
  <2> HIDE DEF s
  <2> QED
    BY <1>7, <1>1 DEF Call, InCall, Out
<1>9. Kept(w[t], s)
  <2> HIDE DEF s
  <2> QED
    BY <1>7, <1>4 DEF Kept, InCall
<1>10. count' \in [{"waits", "posts", "signals"} -> Nat]
  BY <1>4, SpendIs
<1> HIDE DEF s
<1> QED
  BY <1>4, <1>6, <1>8, <1>9, <1>10, SteadyIs

LEMMA TimerSteady ==
  ASSUME TypeOK, Calling, NEW t \in Waiters, TimerFires(t)
  PROVE  TypeOK' /\ Calling' /\ Steady
<1> DEFINE r == w[t]
           s == [r EXCEPT !.armed = FALSE, !.to = FALSE, !.asleep = FALSE]
<1>1. r \in WaiterState /\ Call(t, r)
  BY RecordIs
<1>2. Becomes(t, s) /\ r.armed /\ r.due <= r.age /\ UNCHANGED <<word, hash, k, owed, count>>
  BY DEF TimerFires
<1> HIDE DEF r
<1>3. s \in WaiterState /\ Call(t, s) /\ Kept(r, s)
  BY <1>1, <1>2, ZenonT(60) DEF WaiterState, Call, Kept, InCall, Out
<1> HIDE DEF s
<1>4. /\ Kept(w[t], s) /\ count' \in [{"waits", "posts", "signals"} -> Nat]
      /\ word' = word /\ UNCHANGED <<hash, k, owed>>
  BY <1>2, <1>3 DEF TypeOK, r
<1> QED
  BY <1>2, <1>3, <1>4, SteadyIs

LEMMA CheckSteady ==
  ASSUME TypeOK, Calling, NEW t \in Waiters, Check(t)
  PROVE  TypeOK' /\ Calling' /\ Steady
<1> DEFINE r == w[t]
<1>1. r \in WaiterState /\ Call(t, r)
  BY RecordIs
<1>2. PICK s : s \in {[r EXCEPT !.pc = "sleep"], [r EXCEPT !.pc = "unqueue", !.asleep = FALSE]} /\ Becomes(t, s)
  BY DEF Check
<1>3. r.pc = "check" /\ UNCHANGED <<word, hash, k, owed, count>>
  BY DEF Check
<1> HIDE DEF r
<1>4. s \in WaiterState /\ Call(t, s) /\ Kept(r, s)
  BY <1>1, <1>2, <1>3, ZenonT(60) DEF WaiterState, Call, Kept, InCall, Out
<1>5. /\ Kept(w[t], s) /\ count' \in [{"waits", "posts", "signals"} -> Nat]
      /\ word' = word /\ UNCHANGED <<hash, k, owed>>
  BY <1>3, <1>4 DEF TypeOK, r
<1> QED
  BY <1>2, <1>4, <1>5, SteadyIs

LEMMA UnqueueSteady ==
  ASSUME TypeOK, Calling, NEW t \in Waiters, Unqueue(t)
  PROVE  TypeOK' /\ Calling' /\ Steady
<1> DEFINE r == w[t]
           i == Idle(IF w[t].sig = "stop" THEN "stop" ELSE "none")
<1>1. r \in WaiterState /\ Call(t, r)
  BY RecordIs
<1>2. PICK s : /\ \/ r.ptr = None /\ s = i
                  \/ r.ptr # None /\ s = [r EXCEPT !.pc = "unlock", !.saw = r.ptr, !.asleep = FALSE]
               /\ Becomes(t, s)
  BY DEF Unqueue, Leave
<1>3. r.pc \in {"sleep", "unqueue"} /\ UNCHANGED <<word, hash, k, owed, count>>
  BY DEF Unqueue
<1>4. i \in WaiterState /\ Call(t, i) /\ i.pc = "idle"
  BY IdleIs
<1> HIDE DEF r, i
<1>5. s \in WaiterState /\ Call(t, s) /\ Kept(r, s)
  <2>1. CASE r.ptr = None /\ s = i
    BY <2>1, <1>3, <1>4 DEF Kept, InCall
  <2>2. CASE r.ptr # None /\ s = [r EXCEPT !.pc = "unlock", !.saw = r.ptr, !.asleep = FALSE]
    BY <2>2, <1>1, <1>3, ZenonT(60) DEF WaiterState, Call, Kept, InCall, Out, Maybe
  <2> QED
    BY <1>2, <2>1, <2>2
<1>6. /\ Kept(w[t], s) /\ count' \in [{"waits", "posts", "signals"} -> Nat]
      /\ word' = word /\ UNCHANGED <<hash, k, owed>>
  BY <1>3, <1>5 DEF TypeOK, r
<1> QED
  BY <1>2, <1>5, <1>6, SteadyIs

\* unqueue_me sees that it was moved, and tries again.
LEMMA RetrySteady ==
  ASSUME TypeOK, Calling, NEW t \in Waiters, UnqueueLocked(t), w[t].saw # w[t].ptr
  PROVE  TypeOK' /\ Calling' /\ Steady
<1> DEFINE r == w[t]
           s == [r EXCEPT !.pc = "unqueue", !.saw = None]
<1>1. r \in WaiterState /\ Call(t, r)
  BY RecordIs
<1>2. Becomes(t, s) /\ r.pc = "unlock" /\ UNCHANGED <<word, hash, k, owed, count>>
  BY DEF UnqueueLocked, hash
<1> HIDE DEF r
<1>3. s \in WaiterState /\ Call(t, s) /\ Kept(r, s)
  BY <1>1, <1>2, ZenonT(60) DEF WaiterState, Call, Kept, InCall, Out, Maybe
<1> HIDE DEF s
<1>4. /\ Kept(w[t], s) /\ count' \in [{"waits", "posts", "signals"} -> Nat]
      /\ word' = word /\ UNCHANGED <<hash, k, owed>>
  BY <1>2, <1>3 DEF TypeOK, r
<1> QED
  BY <1>2, <1>3, <1>4, SteadyIs

LEMMA WhySteady ==
  ASSUME TypeOK, Calling, NEW t \in Waiters, Why(t)
  PROVE  TypeOK' /\ Calling' /\ Steady
<1> DEFINE r == w[t]
           i == Idle(IF w[t].sig = "stop" THEN "stop" ELSE "none")
<1>1. r \in WaiterState /\ Call(t, r)
  BY RecordIs
<1>0. (r.armed /\ r.sig = "none") \in BOOLEAN
  OBVIOUS
<1>2. PICK s : /\ \/ s = i
                  \/ \E pc \in {"inc", "signal"}, p \in BOOLEAN :
                       s = [r EXCEPT !.pc = pc, !.armed = p] /\ (p => r.armed)
               /\ Becomes(t, s)
  BY <1>0 DEF Why, Leave
<1>3. r.pc = "why" /\ UNCHANGED <<word, hash, k, owed, count>>
  BY DEF Why
<1>4. i \in WaiterState /\ Call(t, i) /\ i.pc = "idle"
  BY IdleIs
<1> HIDE DEF r, i
<1>5. s \in WaiterState /\ Call(t, s) /\ Kept(r, s)
  <2>1. CASE s = i
    BY <2>1, <1>3, <1>4 DEF Kept, InCall
  <2>2. ASSUME NEW pc \in {"inc", "signal"}, NEW p \in BOOLEAN,
               s = [r EXCEPT !.pc = pc, !.armed = p], p => r.armed
        PROVE  s \in WaiterState /\ Call(t, s) /\ Kept(r, s)
    BY <2>2, <1>1, <1>3 DEF WaiterState, Call, Kept, InCall, Out, Maybe
  <2> QED
    BY <1>2, <2>1, <2>2
<1>6. /\ Kept(w[t], s) /\ count' \in [{"waits", "posts", "signals"} -> Nat]
      /\ word' = word /\ UNCHANGED <<hash, k, owed>>
  BY <1>3, <1>5 DEF TypeOK, r
<1> QED
  BY <1>2, <1>5, <1>6, SteadyIs

LEMMA RestartSteady ==
  ASSUME TypeOK, Calling, NEW t \in Waiters, Restart(t)
  PROVE  TypeOK' /\ Calling' /\ Steady
<1> DEFINE r == w[t]
           i == Idle(IF w[t].sig = "stop" THEN "stop" ELSE "none")
<1>1. r \in WaiterState /\ Call(t, r)
  BY RecordIs
<1>2. PICK s : (s = i \/ s = [r EXCEPT !.pc = "inc", !.sig = "none"]) /\ Becomes(t, s)
  BY DEF Restart, Leave
<1>3. r.pc = "signal" /\ UNCHANGED <<word, hash, k, owed, count>>
  BY DEF Restart
<1>4. i \in WaiterState /\ Call(t, i) /\ i.pc = "idle"
  BY IdleIs
<1> HIDE DEF r, i
<1>5. s \in WaiterState /\ Call(t, s) /\ Kept(r, s)
  <2>1. CASE s = i
    BY <2>1, <1>3, <1>4 DEF Kept, InCall
  <2>2. CASE s = [r EXCEPT !.pc = "inc", !.sig = "none"]
    BY <2>2, <1>1, <1>3 DEF WaiterState, Call, Kept, InCall, Out, Maybe
  <2> QED
    BY <1>2, <2>1, <2>2
<1>6. /\ Kept(w[t], s) /\ count' \in [{"waits", "posts", "signals"} -> Nat]
      /\ word' = word /\ UNCHANGED <<hash, k, owed>>
  BY <1>3, <1>5 DEF TypeOK, r
<1> QED
  BY <1>2, <1>5, <1>6, SteadyIs

LEMMA SignalSteady ==
  ASSUME TypeOK, Calling, NEW t \in Waiters, NEW sig \in Signals[t], Signal(t, sig)
  PROVE  TypeOK' /\ Calling' /\ Steady
<1> DEFINE r == w[t]
           s == [r EXCEPT !.sig = sig, !.asleep = FALSE]
<1>1. r \in WaiterState /\ Call(t, r) /\ sig \in {"stop", "catch", "none"}
  BY RecordIs, FutexAssumption
<1>2. Becomes(t, s) /\ UNCHANGED <<word, hash, k, owed>> /\ Spend("signals", MaxSignals)
  BY DEF Signal
<1>0. r.pc = "sleep"
  BY DEF Signal
<1> HIDE DEF r
<1>3. s \in WaiterState /\ Call(t, s) /\ Kept(r, s)
  BY <1>1, <1>0, ZenonT(60) DEF WaiterState, Call, Kept, InCall, Out, Maybe
<1> HIDE DEF s
<1>4. /\ Kept(w[t], s) /\ count' \in [{"waits", "posts", "signals"} -> Nat]
      /\ word' = word /\ UNCHANGED <<hash, k, owed>>
  BY <1>2, <1>3, SpendIs DEF r
<1> QED
  BY <1>2, <1>3, <1>4, SteadyIs

LEMMA ContinueSteady ==
  ASSUME TypeOK, Calling, NEW t \in Waiters, Continue(t)
  PROVE  TypeOK' /\ Calling' /\ Steady
<1> DEFINE r == w[t]
           s == [r EXCEPT !.sig = "cont"]
<1>1. r \in WaiterState /\ Call(t, r)
  BY RecordIs
<1>2. Becomes(t, s) /\ UNCHANGED <<word, hash, k, owed, count>>
  BY DEF Continue
<1> HIDE DEF r
<1>3. s \in WaiterState /\ Call(t, s) /\ Kept(r, s)
  BY <1>1, <1>2 DEF WaiterState, Call, Kept, InCall, Out, Maybe
<1> HIDE DEF s
<1>4. /\ Kept(w[t], s) /\ count' \in [{"waits", "posts", "signals"} -> Nat]
      /\ word' = word /\ UNCHANGED <<hash, k, owed>>
  BY <1>2, <1>3 DEF TypeOK, r
<1> QED
  BY <1>2, <1>3, <1>4, SteadyIs

LEMMA TickSteady ==
  ASSUME TypeOK, Calling, Tick
  PROVE  TypeOK' /\ Calling' /\ Steady
<1>1. /\ UNCHANGED <<word, hash, k, owed, count>> /\ w' \in [Waiters -> {w'[v] : v \in Waiters}]
      /\ \A v \in Waiters : w'[v] = w[v] \/ w'[v] = [w[v] EXCEPT !.age = @ + 1]
  BY DEF Tick
<1>2. ASSUME NEW v \in Waiters
      PROVE  w'[v] \in WaiterState /\ Call(v, w'[v]) /\ Kept(w[v], w'[v])
  <2> DEFINE r == w[v]
             s == w'[v]
  <2>1. r \in WaiterState /\ Call(v, r)
    BY RecordIs
  <2>2. s = r \/ s = [r EXCEPT !.age = @ + 1]
    BY <1>1
  <2> HIDE DEF r, s
  <2>3. r.age \in Nat /\ (r.due = None \/ r.due \in Nat)
    BY <2>1 DEF WaiterState, Maybe
  <2>4. s \in WaiterState /\ Call(v, s) /\ Kept(r, s)
    <3>1. CASE s = r
      BY <3>1, <2>1, KeptSelf
    <3>2. CASE s = [r EXCEPT !.age = @ + 1]
      <4>1. s \in WaiterState /\ Kept(r, s)
        BY <3>2, <2>1, <2>3 DEF WaiterState, Kept
      <4>2. ~s.to => s.due <= s.age
        <5>1. s.to = r.to /\ s.due = r.due /\ s.age = r.age + 1
          BY <3>2, <2>1 DEF WaiterState
        <5>2. ~r.to => r.due # None /\ r.due <= r.age
          BY <2>1 DEF Call
        <5> QED
          BY <5>1, <5>2, <2>3
      <4>3. Call(v, s)
        BY <4>2, <3>2, <2>1 DEF WaiterState, Call
      <4> QED
        BY <4>1, <4>3
    <3> QED
      BY <2>2, <3>1, <3>2
  <2> QED
    BY <2>4 DEF r, s
<1> QED
  BY <1>1, <1>2 DEF TypeOK, Calling, Steady, hash

(***************************************************************************)
(* What those steps leave as it is.                                        *)
(***************************************************************************)

LEMMA GivenInCall ==
  ASSUME TypeOK, Calling, NEW v \in Waiters, w[v].given
  PROVE  w[v].pc \in InCall
<1> DEFINE r == w[v]
<1>1. r \in WaiterState /\ Call(v, r) /\ r.given
  BY RecordIs
<1> HIDE DEF r
<1>2. r.pc \in InCall
  BY <1>1 DEF WaiterState, Call, InCall, Out
<1> QED
  BY <1>2 DEF r

LEMMA WakerIs ==
  ASSUME TypeOK, Waking, NEW x \in Wakers
  PROVE  /\ k[x] \in WakerState /\ Rouse(k[x])
         /\ k[x].pc # "idle" =>
              /\ k[x].f \in Futexes /\ k[x].g \in Futexes
              /\ B1(x) \in Buckets /\ B2(x) \in Buckets /\ Low(x) \in Buckets
BY Ground DEF TypeOK, Waking, Rouse, B1, B2, Low

\* A waiter on a chain.
LEMMA ChainIs ==
  ASSUME TypeOK, Places, NEW b \in Buckets
  PROVE  /\ chain[b] \in Seq(Waiters) /\ IsInjective(chain[b]) /\ ToSet(chain[b]) \subseteq Waiters
         /\ \A v \in ToSet(chain[b]) : v \in Waiters /\ Queued(v) /\ OnChain(v, b) /\ w[v].ptr # None
<1>1. chain[b] \in Seq(Waiters)
  BY DEF TypeOK
<1>2. ToSet(chain[b]) \subseteq Waiters
  BY <1>1 DEF ToSet
<1>3. None \notin Buckets
  BY Ground
<1> QED
  BY <1>1, <1>2, <1>3 DEF Places, OnChain, Queued

LEMMA QueuedIs ==
  ASSUME TypeOK, Places, NEW v, Queued(v)
  PROVE  /\ v \in Waiters /\ w[v].pc \in InCall /\ ~w[v].given /\ w[v].ptr \in Buckets
         /\ v \in ToSet(chain[w[v].ptr]) /\ Hash[w[v].key] = w[v].ptr
         /\ \A b \in Buckets : v \in ToSet(chain[b]) => b = w[v].ptr
BY ChainIs DEF Queued, OnChain

\* Whom a requeue is going to move.
LEMMA ComingIs ==
  ASSUME TypeOK, Waking, Places, NEW x \in Wakers, NEW v \in Coming(x)
  PROVE  /\ k[x].pc \in {"next", "add"} /\ Requeues(x) /\ v \in Waiters
         /\ \/ v \in ToSet(chain[B1(x)]) /\ Queued(v) /\ w[v].key = k[x].f
            \/ k[x].pc = "add" /\ v = k[x].who
         /\ w[v].pc \in InCall /\ w[v].ptr = B1(x) /\ w[v].ptr # None /\ ~w[v].given
<1>1. /\ k[x].pc \in {"next", "add"} /\ Requeues(x)
      /\ v \in Found(x, k[x].f) \/ (k[x].pc = "add" /\ v = k[x].who)
  BY DEF Coming
<1>2. B1(x) \in Buckets /\ None \notin Buckets
  BY <1>1, WakerIs, Ground
<1>3. CASE v \in Found(x, k[x].f)
  <2>1. v \in ToSet(chain[B1(x)]) /\ w[v].key = k[x].f
    BY <1>3 DEF Found, B1
  <2> QED
    BY <2>1, <1>1, <1>2, ChainIs DEF OnChain
<1>4. CASE k[x].pc = "add" /\ v = k[x].who
  <2>1. Hand(x) /\ v \in Waiters
    BY <1>4, WakerIs DEF Places, Rouse
  <2> QED
    BY <2>1, <1>4, <1>1, <1>2 DEF Hand
<1> QED
  BY <1>1, <1>3, <1>4

LEMMA FoundSame ==
  ASSUME NEW x, NEW f, k'[x].bits = k[x].bits, chain'[Hash[f]] = chain[Hash[f]],
         \A v \in ToSet(chain[Hash[f]]) : w'[v].key = w[v].key /\ w'[v].bits = w[v].bits
  PROVE  Found(x, f)' = Found(x, f)
BY DEF Found

LEMMA ComingSame ==
  ASSUME NEW x \in Wakers, k'[x] = k[x],
         k[x].pc \in {"next", "add"} =>
           /\ chain'[B1(x)] = chain[B1(x)]
           /\ \A v \in ToSet(chain[B1(x)]) : w'[v].key = w[v].key /\ w'[v].bits = w[v].bits
  PROVE  Coming(x)' = Coming(x)
<1>1. CASE k[x].pc \notin {"next", "add"}
  BY <1>1 DEF Coming
<1>2. CASE k[x].pc \in {"next", "add"}
  <2>1. chain'[Hash[k[x].f]] = chain[Hash[k[x].f]]
    BY <1>2 DEF B1
  <2>2. Found(x, k[x].f)' = Found(x, k[x].f)
    <3>1. \A v \in ToSet(chain[Hash[k[x].f]]) : w'[v].key = w[v].key /\ w'[v].bits = w[v].bits
      BY <1>2 DEF B1
    <3> QED
      BY <2>1, <3>1 DEF Found
  <2>3. \A u, v : Ahead(k[x].f, u, v)' = Ahead(k[x].f, u, v)
    BY <2>1 DEF Ahead
  <2>4. Requeues(x)' = Requeues(x)
    BY DEF Requeues
  <2> QED
    BY <2>2, <2>3, <2>4, ZenonT(60) DEF Coming
<1> QED
  BY <1>1, <1>2

LEMMA SteadyPlaces ==
  ASSUME TypeOK, Calling, Waking, Places, TypeOK', Calling', Steady
  PROVE  Places'
<1>1. chain' = chain /\ k' = k /\ \A v \in Waiters : Kept(w[v], w'[v])
  BY DEF Steady, hash
<1>2. \A v : Queued(v)' = Queued(v)
  BY <1>1 DEF Queued
<1>3. \A x : B1(x)' = B1(x) /\ B2(x)' = B2(x) /\ Requeues(x)' = Requeues(x)
  BY <1>1 DEF B1, B2, Requeues
<1>4. ASSUME NEW v \in Waiters, w[v].pc \in InCall, w[v].ptr # None
      PROVE  /\ w'[v].pc \in InCall /\ w'[v].key = w[v].key /\ w'[v].ptr = w[v].ptr
             /\ w'[v].given = w[v].given
  BY <1>1, <1>4 DEF Kept
<1>5. ASSUME NEW v \in Waiters, w'[v].pc \in InCall
      PROVE  /\ w[v].pc \in InCall /\ w'[v].ptr = w[v].ptr
             /\ w'[v].given = w[v].given /\ (w'[v].asleep => w[v].asleep)
  BY <1>1, <1>5 DEF Kept
<1>6. \A v \in Waiters : w'[v].given => w'[v].pc \in InCall
  <2>1. \A v \in Waiters : w[v].given => w[v].pc \in InCall
    BY GivenInCall
  <2> TAKE v \in Waiters
  <2> DEFINE r == w'[v]
  <2>2. r \in WaiterState /\ Call(v, r)
    BY DEF TypeOK, Calling
  <2> HIDE DEF r
  <2>3. r.given => r.pc \in InCall
    BY <2>2 DEF WaiterState, Call, InCall, Out
  <2> QED
    BY <2>3 DEF r
<1>7. \A b \in Buckets : IsInjective(chain'[b]) /\ \A v \in ToSet(chain'[b]) : OnChain(v, b)'
  <2> TAKE b \in Buckets
  <2>1. \A v \in ToSet(chain[b]) : v \in Waiters /\ OnChain(v, b) /\ w[v].ptr # None
    BY ChainIs
  <2>2. IsInjective(chain[b])
    BY ChainIs
  <2> QED
    BY <2>1, <2>2, <1>1, <1>4 DEF OnChain
<1>8. \A x \in Wakers : Hand(x)'
  <2> TAKE x \in Wakers
  <2> DEFINE v == k[x].who
  <2>1. k[x].pc \in {"null", "add"} =>
          /\ v \in Waiters /\ B1(x) \in Buckets /\ B2(x) \in Buckets /\ None \notin Buckets /\ Hand(x)
    BY WakerIs, Ground DEF Rouse, Places
  <2>2. k[x].pc \in {"null", "add"} => w[v].pc \in InCall /\ w[v].ptr # None
    BY <2>1 DEF Hand
  <2>3. k[x].pc \in {"null", "add"} =>
          w'[v].pc \in InCall /\ w'[v].ptr = w[v].ptr /\ w'[v].given = w[v].given
    BY <2>1, <2>2, <1>4
  <2> QED
    BY <2>1, <2>3, <1>1, <1>2, <1>3 DEF Hand
<1>9. ASSUME NEW v \in Waiters
      PROVE  /\ w'[v].pc \in InCall =>
                  Queued(v)' \/ w'[v].given \/ \E x \in Wakers : k'[x].pc = "add" /\ k'[x].who = v
             /\ w'[v].given /\ w'[v].ptr # None => \E x \in Wakers : k'[x].pc = "null" /\ k'[x].who = v
             /\ w'[v].given /\ w'[v].asleep =>
                  \E x \in Wakers : k'[x].pc \in {"null", "wake"} /\ k'[x].who = v
  BY <1>1, <1>2, <1>5, <1>6 DEF Places
<1> QED
  BY <1>7, <1>8, <1>9 DEF Places

LEMMA SteadyLocks ==
  ASSUME Locks, Steady
  PROVE  Locks'
<1>1. /\ lock' = lock /\ k' = k
      /\ \A v \in Waiters : \A b : w'[v].pc = "queue" /\ w'[v].ptr = b <=> w[v].pc = "queue" /\ w[v].ptr = b
  BY DEF Steady, hash, Kept
<1>2. \A x, b : Holds(x, b)' = Holds(x, b)
  BY <1>1 DEF Holds, B1, B2, Low
<1> QED
  BY <1>1, <1>2 DEF Locks

LEMMA SteadyCounted ==
  ASSUME Counted, Steady
  PROVE  Counted'
<1>1. /\ waiters' = waiters /\ chain' = chain /\ k' = k
      /\ \A v \in Waiters : Kept(w[v], w'[v])
  BY DEF Steady, hash
<1>2. \A b : Lookers(b)' = Lookers(b)
  BY <1>1 DEF Lookers, Kept
<1>3. \A b : Announcers(b)' = Announcers(b)
  BY <1>1 DEF Announcers, Requeues, B2
<1> QED
  BY <1>1, <1>2, <1>3 DEF Counted

LEMMA SteadyOwes ==
  ASSUME TypeOK, Calling, Waking, Places, Owes, Steady
  PROVE  Owes'
<1>1. chain' = chain /\ k' = k /\ owed' = owed /\ \A v \in Waiters : Kept(w[v], w'[v])
  BY DEF Steady, hash
<1>2. ASSUME NEW v \in Waiters, w[v].pc \in InCall, w[v].ptr # None
      PROVE  w'[v].pc \in InCall /\ w'[v].key = w[v].key /\ w'[v].bits = w[v].bits
  BY <1>1, <1>2 DEF Kept
<1>3. ASSUME NEW v \in Waiters, w[v].pc = "queue"
      PROVE  w'[v].pc = "queue" /\ w'[v].key = w[v].key /\ w'[v].bits = w[v].bits
  BY <1>1, <1>3 DEF Kept
<1>4. \A v : Queued(v)' = Queued(v)
  BY <1>1 DEF Queued
<1>5. ASSUME NEW x \in Wakers PROVE Coming(x)' = Coming(x)
  <2>1. k[x].pc \in {"next", "add"} => B1(x) \in Buckets
    BY WakerIs
  <2>2. k[x].pc \in {"next", "add"} =>
          \A v \in ToSet(chain[B1(x)]) : w'[v].key = w[v].key /\ w'[v].bits = w[v].bits
    BY <2>1, ChainIs, <1>2 DEF OnChain
  <2>3. k'[x] = k[x] /\ chain'[B1(x)] = chain[B1(x)]
    BY <1>1
  <2> QED
    BY <2>2, <2>3, ComingSame
<1>6. ASSUME NEW x \in Wakers, NEW v \in owed[x]
      PROVE  w'[v].bits \cap k'[x].bits # {} /\ Findable(v, k[x].f)'
  <2>1. v \in Waiters /\ w[v].bits \cap k[x].bits # {} /\ Findable(v, k[x].f)
    BY <1>6 DEF TypeOK, Owes
  <2>2. CASE w[v].key = k[x].f /\ w[v].pc = "queue"
    BY <2>1, <2>2, <1>1, <1>3 DEF Findable
  <2>3. CASE w[v].key = k[x].f /\ Queued(v)
    <3>1. w[v].pc \in InCall /\ w[v].ptr # None
      BY <2>3, QueuedIs, Ground
    <3> QED
      BY <2>1, <2>3, <3>1, <1>1, <1>2, <1>4 DEF Findable
  <2>4. ASSUME NEW y \in Wakers, k[y].g = k[x].f, v \in Coming(y)
        PROVE  w'[v].bits \cap k'[x].bits # {} /\ Findable(v, k[x].f)'
    <3>1. w[v].pc \in InCall /\ w[v].ptr # None
      BY <2>4, ComingIs
    <3> QED
      BY <2>1, <2>4, <3>1, <1>1, <1>2, <1>5 DEF Findable
  <2> QED
    BY <2>1, <2>2, <2>3, <2>4 DEF Findable
<1>7. \A x : Quota(x)' = Quota(x)
  BY <1>1 DEF Quota, Requeues
<1> QED
  BY <1>1, <1>6, <1>7 DEF Owes

LEMMA SteadyIInv ==
  ASSUME IInv, TypeOK', Calling', Steady
  PROVE  IInv'
<1>1. Waking'
  BY DEF IInv, Waking, Steady
<1> QED
  BY <1>1, SteadyPlaces, SteadyLocks, SteadyCounted, SteadyOwes DEF IInv

(***************************************************************************)
(* Steps of a waiter that is not in the queue yet.                         *)
(***************************************************************************)

\* What others say of a waiter that is in no queue does not change.
LEMMA OutFrame ==
  ASSUME TypeOK, Calling, Waking, Places, Owes, UNCHANGED <<chain, k, owed>>,
         NEW t \in Waiters, w[t].pc \in {"idle", "inc", "lock"},
         w' \in Tasks, Calling', w'[t].pc \notin InCall,
         \A v \in Waiters \ {t} : w'[v] = w[v]
  PROVE  Places' /\ Owes' /\ Waking'
<1>1. w[t].pc \notin InCall /\ w[t].pc # "queue"
  BY DEF InCall
<1>2. ~w'[t].given
  <2> DEFINE r == w'[t]
  <2>1. r \in WaiterState /\ Call(t, r) /\ r.pc \notin InCall
    BY DEF Tasks, Calling
  <2> HIDE DEF r
  <2>2. ~r.given
    BY <2>1 DEF WaiterState, Call, InCall, Out
  <2> QED
    BY <2>2 DEF r
<1>3. \A v : Queued(v)' = Queued(v)
  BY DEF Queued
<1>4. \A x : B1(x)' = B1(x) /\ B2(x)' = B2(x) /\ Requeues(x)' = Requeues(x)
  BY DEF B1, B2, Requeues
<1>5. \A v \in Waiters : w[v].pc \in InCall => v # t /\ w'[v] = w[v]
  BY <1>1
<1>6. Places'
  <2>1. \A b \in Buckets : IsInjective(chain'[b]) /\ \A v \in ToSet(chain'[b]) : OnChain(v, b)'
    BY ChainIs, <1>5 DEF OnChain
  <2>2. \A x \in Wakers : Hand(x)'
    <3> TAKE x \in Wakers
    <3>1. k[x].pc \in {"null", "add"} => k[x].who \in Waiters /\ Hand(x)
      BY WakerIs DEF Rouse, Places
    <3> QED
      BY <3>1, <1>3, <1>4, <1>5 DEF Hand
  <2>3. ASSUME NEW v \in Waiters
        PROVE  /\ w'[v].pc \in InCall =>
                    Queued(v)' \/ w'[v].given \/ \E x \in Wakers : k'[x].pc = "add" /\ k'[x].who = v
               /\ w'[v].given /\ w'[v].ptr # None => \E x \in Wakers : k'[x].pc = "null" /\ k'[x].who = v
               /\ w'[v].given /\ w'[v].asleep =>
                    \E x \in Wakers : k'[x].pc \in {"null", "wake"} /\ k'[x].who = v
    <3>1. CASE v = t
      BY <3>1, <1>2
    <3>2. CASE v # t
      BY <3>2, <1>3 DEF Places
    <3> QED
      BY <3>1, <3>2
  <2> QED
    BY <2>1, <2>2, <2>3 DEF Places
<1>7. ASSUME NEW x \in Wakers PROVE Coming(x)' = Coming(x)
  <2>1. k[x].pc \in {"next", "add"} => B1(x) \in Buckets
    BY WakerIs
  <2>2. k[x].pc \in {"next", "add"} =>
          \A v \in ToSet(chain[B1(x)]) : w'[v].key = w[v].key /\ w'[v].bits = w[v].bits
    BY <2>1, ChainIs, <1>5 DEF OnChain
  <2> QED
    BY <2>2, ComingSame
<1>8. ASSUME NEW x \in Wakers, NEW v \in owed[x]
      PROVE  w'[v].bits \cap k'[x].bits # {} /\ Findable(v, k[x].f)'
  <2>1. v \in Waiters /\ w[v].bits \cap k[x].bits # {} /\ Findable(v, k[x].f)
    BY <1>8 DEF TypeOK, Owes
  <2>2. v # t
    BY <2>1, <1>1, QueuedIs, ComingIs DEF Findable
  <2> QED
    BY <2>1, <2>2, <1>3, <1>7 DEF Findable
<1>9. \A x : Quota(x)' = Quota(x)
  BY DEF Quota, Requeues
<1>10. Owes'
  BY <1>8, <1>9 DEF Owes
<1>11. Waking'
  BY DEF Waking
<1> QED
  BY <1>6, <1>10, <1>11

\* A task that holds no lock, and goes on without one.
LEMMA OutLocks ==
  ASSUME Locks, UNCHANGED <<lock, k>>, NEW t \in Waiters, w[t].pc # "queue", w'[t].pc # "queue",
         \A v \in Waiters \ {t} : w'[v] = w[v]
  PROVE  Locks'
<1>1. \A x, b : Holds(x, b)' = Holds(x, b)
  BY DEF Holds, B1, B2, Low
<1>2. \A v \in Waiters : \A b : w'[v].pc = "queue" /\ w'[v].ptr = b <=> w[v].pc = "queue" /\ w[v].ptr = b
  <2> TAKE v \in Waiters
  <2> TAKE b
  <2>1. CASE v = t
    BY <2>1
  <2>2. CASE v # t
    BY <2>2
  <2> QED
    BY <2>1, <2>2
<1> QED
  BY <1>1, <1>2 DEF Locks

LEMMA CountedIs ==
  ASSUME TypeOK, Counted, NEW c \in Buckets
  PROVE  /\ waiters[c] = Len(chain[c]) + Cardinality(Lookers(c)) + Cardinality(Announcers(c))
         /\ waiters[c] \in Nat /\ Len(chain[c]) \in Nat
         /\ Cardinality(Lookers(c)) \in Nat /\ Cardinality(Announcers(c)) \in Nat
<1>1. waiters[c] \in Nat /\ chain[c] \in Seq(Waiters)
  BY DEF TypeOK
<1> QED
  BY <1>1, Counting DEF Counted

\* t begins to look at a futex in b, or no longer does.
LEMMA LookersGain ==
  ASSUME NEW t \in Waiters, \A v \in Waiters \ {t} : w'[v] = w[v], NEW b,
         w[t].pc \notin {"lock", "queue"},
         w'[t].pc \in {"lock", "queue"}, Hash[w'[t].addr] = b
  PROVE  \A c : Cardinality(Lookers(c)') = Cardinality(Lookers(c)) + (IF c = b THEN 1 ELSE 0)
<1>1. Lookers(b)' = Lookers(b) \cup {t} /\ t \notin Lookers(b)
  BY DEF Lookers
<1>2. Cardinality(Lookers(b)') = Cardinality(Lookers(b)) + 1
  BY <1>1, OneMore, Counting
<1> TAKE c
<1>3. c # b => Lookers(c)' = Lookers(c)
  BY DEF Lookers
<1>4. Cardinality(Lookers(c)) \in Nat
  BY Counting
<1> QED
  BY <1>2, <1>3, <1>4

LEMMA LookersLose ==
  ASSUME NEW t \in Waiters, \A v \in Waiters \ {t} : w'[v] = w[v], NEW b,
         w'[t].pc \notin {"lock", "queue"},
         w[t].pc \in {"lock", "queue"}, Hash[w[t].addr] = b
  PROVE  /\ \A c : Cardinality(Lookers(c)') = Cardinality(Lookers(c)) - (IF c = b THEN 1 ELSE 0)
         /\ Cardinality(Lookers(b)) >= 1
<1>1. Lookers(b)' = Lookers(b) \ {t} /\ t \in Lookers(b)
  BY DEF Lookers
<1>2. Cardinality(Lookers(b)') = Cardinality(Lookers(b)) - 1 /\ Cardinality(Lookers(b)) >= 1
  BY <1>1, OneLess, SomeOne, Counting
<1>3. ASSUME NEW c
      PROVE  Cardinality(Lookers(c)') = Cardinality(Lookers(c)) - (IF c = b THEN 1 ELSE 0)
  <2>1. c # b => Lookers(c)' = Lookers(c)
    BY DEF Lookers
  <2>2. Cardinality(Lookers(c)) \in Nat
    BY Counting
  <2> QED
    BY <1>2, <2>1, <2>2
<1> QED
  BY <1>2, <1>3

LEMMA LookersSame ==
  ASSUME \A v \in Waiters : w'[v].pc \in {"lock", "queue"} <=> w[v].pc \in {"lock", "queue"},
         \A v \in Waiters : w[v].pc \in {"lock", "queue"} => w'[v].addr = w[v].addr
  PROVE  \A c : Lookers(c)' = Lookers(c)
<1> TAKE c
<1>1. ASSUME NEW v \in Waiters
      PROVE  (w'[v].pc \in {"lock", "queue"} /\ Hash[w'[v].addr] = c)
               <=> (w[v].pc \in {"lock", "queue"} /\ Hash[w[v].addr] = c)
  OBVIOUS
<1> QED
  BY <1>1 DEF Lookers

LEMMA AnnouncersSame ==
  ASSUME \A x \in Wakers : k'[x].op = k[x].op /\ k'[x].g = k[x].g,
         \A x \in Wakers : k'[x].pc \in {"key", "idle"} <=> k[x].pc \in {"key", "idle"}
  PROVE  \A c : Announcers(c)' = Announcers(c)
<1> TAKE c
<1>1. ASSUME NEW x \in Wakers
      PROVE  (Requeues(x) /\ B2(x) = c /\ k[x].pc \notin {"key", "idle"})'
               <=> (Requeues(x) /\ B2(x) = c /\ k[x].pc \notin {"key", "idle"})
  BY DEF Requeues, B2
<1> QED
  BY <1>1 DEF Announcers

\* The whole of a step in which one waiter goes from one record to the next.
LEMMA OneWaiter ==
  ASSUME TypeOK, Calling, NEW t \in Waiters, NEW s \in WaiterState, Call(t, s), Becomes(t, s)
  PROVE  /\ w' \in Tasks /\ Calling' /\ w'[t] = s /\ \A v \in Waiters \ {t} : w'[v] = w[v]
<1>1. w \in Tasks
  BY DEF TypeOK, Tasks
<1> QED
  BY <1>1, BecomesIs

LEMMA QueueLockIInv ==
  ASSUME IInv, NEW t \in Waiters, QueueLock(t)
  PROVE  IInv'
<1>0. TypeOK /\ Calling /\ Waking /\ Places /\ Locks /\ Counted /\ Owes
  BY DEF IInv
<1>1. PICK r \in WaiterState : r = w[t] /\ Call(t, r) /\ r.pc = "inc"
  BY <1>0, RecordIs DEF QueueLock
<1>2. PICK b \in Buckets : b = Hash[r.addr] /\ r.addr \in Futexes
  BY <1>1, Ground DEF Call
<1> DEFINE s == [r EXCEPT !.pc = "lock", !.key = r.addr, !.ptr = b]
<1>3. /\ Becomes(t, s) /\ waiters' = [waiters EXCEPT ![b] = @ + 1]
      /\ UNCHANGED <<word, chain, lock, k, owed, count>>
  BY <1>1, <1>2 DEF QueueLock
<1>4. s \in WaiterState /\ Call(t, s) /\ s.pc = "lock" /\ s.addr = r.addr
  BY <1>1, <1>2, ZenonT(60) DEF WaiterState, Call, InCall, Out, Maybe
<1> HIDE DEF s
<1>5. /\ w' \in Tasks /\ Calling' /\ w'[t] = s /\ \A v \in Waiters \ {t} : w'[v] = w[v]
  BY <1>0, <1>3, <1>4, OneWaiter
<1>6. waiters \in [Buckets -> Nat] /\ waiters' \in [Buckets -> Nat]
  BY <1>0, <1>3 DEF TypeOK
<1>7. TypeOK'
  BY <1>0, <1>3, <1>5, <1>6 DEF TypeOK, Tasks
<1>8. w[t].pc = "inc" /\ w'[t].pc = "lock" /\ w'[t].addr = r.addr
  BY <1>1, <1>4, <1>5
<1>9. Places' /\ Owes' /\ Waking'
  <2>1. w'[t].pc \notin InCall
    BY <1>8 DEF InCall
  <2> QED
    BY <1>0, <1>3, <1>5, <1>8, <2>1, OutFrame
<1>10. Locks'
  BY <1>0, <1>3, <1>5, <1>8, OutLocks
<1>11. Counted'
  <2>1. \A c : Cardinality(Lookers(c)') = Cardinality(Lookers(c)) + (IF c = b THEN 1 ELSE 0)
    BY <1>2, <1>5, <1>8, LookersGain
  <2>2. \A c : Announcers(c)' = Announcers(c)
    BY <1>3, AnnouncersSame
  <2>3. \A c \in Buckets : waiters'[c] = waiters[c] + (IF c = b THEN 1 ELSE 0)
    BY <1>3, <1>6
  <2> QED
    BY <1>0, <1>3, <2>1, <2>2, <2>3, CountedIs, SMTT(60) DEF Counted
<1> QED
  BY <1>5, <1>7, <1>9, <1>10, <1>11 DEF IInv

\* The record of a waiter that has the bucket but not the lock.
LEMMA LookerIs ==
  ASSUME TypeOK, Calling, NEW t \in Waiters, w[t].pc \in {"lock", "queue"}
  PROVE  \E r \in WaiterState, b \in Buckets :
           /\ r = w[t] /\ Call(t, r) /\ ~r.given /\ r.addr \in Futexes /\ r.key = r.addr
           /\ b = r.ptr /\ b = Hash[r.addr]
<1>1. w[t] \in WaiterState /\ Call(t, w[t])
  BY RecordIs
<1>2. /\ ~w[t].given /\ w[t].addr \in Futexes /\ w[t].key = w[t].addr
      /\ w[t].ptr = Hash[w[t].addr]
  BY <1>1 DEF Call
<1>3. Hash[w[t].addr] \in Buckets
  BY <1>2, Ground
<1> QED
  BY <1>1, <1>2, <1>3

\* hb_waiters_dec, by a task that is counted as looking and goes away.
LEMMA GoneIInv ==
  ASSUME IInv, NEW t \in Waiters, w[t].pc = "lock", NEW b \in Buckets, w[t].ptr = b,
         NEW s \in WaiterState, Call(t, s), Becomes(t, s), s.pc \in {"idle", "inc"},
         waiters' = [waiters EXCEPT ![b] = @ - 1],
         UNCHANGED <<word, chain, lock, k, owed>>,
         count' \in [{"waits", "posts", "signals"} -> Nat]
  PROVE  IInv'
<1>0. TypeOK /\ Calling /\ Waking /\ Places /\ Locks /\ Counted /\ Owes
  BY DEF IInv
<1>1. b = Hash[w[t].addr]
  BY <1>0, LookerIs
<1>2. /\ w' \in Tasks /\ Calling' /\ w'[t] = s /\ \A v \in Waiters \ {t} : w'[v] = w[v]
  BY <1>0, OneWaiter
<1>3. /\ \A c : Cardinality(Lookers(c)') = Cardinality(Lookers(c)) - (IF c = b THEN 1 ELSE 0)
      /\ Cardinality(Lookers(b)) >= 1
  <2>1. w'[t].pc \notin {"lock", "queue"} /\ w[t].pc \in {"lock", "queue"} /\ Hash[w[t].addr] = b
    BY <1>1, <1>2
  <2> QED
    BY <1>2, <2>1, LookersLose
<1>4. waiters \in [Buckets -> Nat] /\ waiters[b] >= 1
  <2>1. waiters \in [Buckets -> Nat]
    BY <1>0 DEF TypeOK
  <2> QED
    BY <1>0, <1>3, <2>1, CountedIs, SMTT(60)
<1>5. waiters' \in [Buckets -> Nat]
  <2>1. waiters[b] - 1 \in Nat
    BY <1>4
  <2> QED
    BY <1>4, <2>1
<1>6. TypeOK'
  BY <1>0, <1>2, <1>5 DEF TypeOK, Tasks
<1>7. Places' /\ Owes' /\ Waking'
  <2>1. w'[t].pc \notin InCall
    BY <1>2 DEF InCall
  <2> QED
    BY <1>0, <1>2, <2>1, OutFrame
<1>8. Locks'
  BY <1>0, <1>2, OutLocks
<1>9. Counted'
  <2>1. \A c : Announcers(c)' = Announcers(c)
    BY AnnouncersSame
  <2>2. \A c \in Buckets : waiters'[c] = waiters[c] - (IF c = b THEN 1 ELSE 0)
    BY <1>4
  <2> QED
    BY <1>0, <1>3, <2>1, <2>2, CountedIs, SMTT(60) DEF Counted
<1> QED
  BY <1>2, <1>6, <1>7, <1>8, <1>9 DEF IInv

LEMMA WaitSetupIInv ==
  ASSUME IInv, NEW t \in Waiters, WaitSetup(t)
  PROVE  IInv'
<1>0. TypeOK /\ Calling /\ Waking /\ Places /\ Locks /\ Counted /\ Owes
  BY DEF IInv
<1>1. w[t].pc = "lock" /\ Free(w[t].ptr) /\ UNCHANGED <<word, chain, k, owed, count>>
  BY DEF WaitSetup
<1>2. PICK r \in WaiterState, b \in Buckets :
        /\ r = w[t] /\ Call(t, r) /\ ~r.given /\ r.addr \in Futexes /\ r.key = r.addr
        /\ b = r.ptr /\ b = Hash[r.addr]
  BY <1>0, <1>1, LookerIs
<1>3. count' \in [{"waits", "posts", "signals"} -> Nat]
  BY <1>0, <1>1 DEF TypeOK
<1>4. CASE word[w[t].addr] = w[t].val
  <2> DEFINE s == [r EXCEPT !.pc = "queue"]
  <2>1. Becomes(t, s) /\ lock' = [lock EXCEPT ![b] = t] /\ waiters' = waiters
    BY <1>2, <1>4 DEF WaitSetup, Goto
  <2>2. s \in WaiterState /\ Call(t, s) /\ s.pc = "queue" /\ s.addr = r.addr /\ s.ptr = b
    BY <1>1, <1>2, ZenonT(60) DEF WaiterState, Call, InCall, Out, Maybe
  <2> HIDE DEF s
  <2>3. /\ w' \in Tasks /\ Calling' /\ w'[t] = s /\ \A v \in Waiters \ {t} : w'[v] = w[v]
    BY <1>0, <2>1, <2>2, OneWaiter
  <2>4. lock \in [Buckets -> Maybe(Waiters \cup Wakers)] /\ lock' \in [Buckets -> Maybe(Waiters \cup Wakers)]
    BY <1>0, <2>1 DEF TypeOK, Maybe
  <2>5. TypeOK'
    BY <1>0, <1>1, <2>1, <2>3, <2>4 DEF TypeOK, Tasks
  <2>6. Places' /\ Owes' /\ Waking'
    <3>1. w'[t].pc \notin InCall
      BY <2>2, <2>3 DEF InCall
    <3> QED
      BY <1>0, <1>1, <2>3, <3>1, OutFrame
  <2>7. Locks'
    <3>1. \A x, c : Holds(x, c)' = Holds(x, c)
      BY <1>1 DEF Holds, B1, B2, Low
    <3>2. lock[b] = None /\ None \notin Waiters /\ None \notin Wakers /\ Waiters \cap Wakers = {}
      BY <1>1, <1>2, Ground DEF Free
    <3> SUFFICES ASSUME NEW c \in Buckets
                 PROVE  /\ \A v \in Waiters : lock'[c] = v <=> w'[v].pc = "queue" /\ w'[v].ptr = c
                        /\ \A x \in Wakers : lock'[c] = x <=> Holds(x, c)'
      BY DEF Locks
    <3>3. lock'[c] = IF c = b THEN t ELSE lock[c]
      BY <2>1, <2>4
    <3>4. \A v \in Waiters : lock'[c] = v <=> w'[v].pc = "queue" /\ w'[v].ptr = c
      <4> TAKE v \in Waiters
      <4>1. lock[c] = v <=> w[v].pc = "queue" /\ w[v].ptr = c
        BY <1>0 DEF Locks
      <4>2. CASE v = t
        BY <4>1, <4>2, <3>3, <2>2, <2>3, <1>1
      <4>3. CASE v # t
        BY <4>1, <4>3, <3>2, <3>3, <2>3
      <4> QED
        BY <4>2, <4>3
    <3>5. \A x \in Wakers : lock'[c] = x <=> Holds(x, c)'
      BY <1>0, <3>1, <3>2, <3>3 DEF Locks
    <3> QED
      BY <3>4, <3>5
  <2>8. Counted'
    <3>1. \A c : Announcers(c)' = Announcers(c)
      BY <1>1, AnnouncersSame
    <3>2. \A v \in Waiters : w'[v].pc \in {"lock", "queue"} <=> w[v].pc \in {"lock", "queue"}
      BY <1>1, <2>2, <2>3
    <3>3. \A v \in Waiters : w[v].pc \in {"lock", "queue"} => w'[v].addr = w[v].addr
      BY <1>1, <1>2, <2>2, <2>3
    <3>4. \A c : Lookers(c)' = Lookers(c)
      BY <3>2, <3>3, LookersSame
    <3> QED
      BY <1>0, <1>1, <2>1, <3>1, <3>4 DEF Counted
  <2> QED
    BY <2>3, <2>5, <2>6, <2>7, <2>8 DEF IInv
<1>5. CASE word[w[t].addr] # w[t].val
  <2> DEFINE sig == IF w[t].sig = "stop" THEN "stop" ELSE "none"
  <2>1. Becomes(t, Idle(sig)) /\ waiters' = [waiters EXCEPT ![b] = @ - 1] /\ lock' = lock
    BY <1>2, <1>5 DEF WaitSetup, Leave
  <2> HIDE DEF sig
  <2>2. PICK s : s = Idle(sig)
    OBVIOUS
  <2>3. sig \in {"none", "stop"}
    BY DEF sig
  <2>4. s \in WaiterState /\ Call(t, s) /\ s.pc = "idle"
    BY <2>2, <2>3, IdleIs
  <2> QED
    BY <1>1, <1>2, <1>3, <2>1, <2>2, <2>4, GoneIInv
<1> QED
  BY <1>4, <1>5

LEMMA WaitFaultIInv ==
  ASSUME IInv, NEW t \in Waiters, WaitFault(t)
  PROVE  IInv'
<1>0. TypeOK /\ Calling /\ Waking /\ Places /\ Locks /\ Counted /\ Owes
  BY DEF IInv
<1>1. /\ w[t].pc = "lock" /\ UNCHANGED <<word, chain, lock, k, owed>>
      /\ Spend("signals", MaxSignals)
  BY DEF WaitFault
<1>2. PICK r \in WaiterState, b \in Buckets :
        /\ r = w[t] /\ Call(t, r) /\ ~r.given /\ r.addr \in Futexes /\ r.key = r.addr
        /\ b = r.ptr /\ b = Hash[r.addr]
  BY <1>0, <1>1, LookerIs
<1> DEFINE s == [r EXCEPT !.pc = "inc"]
<1>3. Becomes(t, s) /\ waiters' = [waiters EXCEPT ![b] = @ - 1]
  BY <1>2 DEF WaitFault, Goto
<1>4. s \in WaiterState /\ Call(t, s) /\ s.pc = "inc"
  BY <1>1, <1>2 DEF WaiterState, Call, InCall, Out, Maybe
<1>5. count' \in [{"waits", "posts", "signals"} -> Nat]
  BY <1>0, <1>1, SpendIs
<1> HIDE DEF s
<1> QED
  BY <1>1, <1>2, <1>3, <1>4, <1>5, GoneIInv

(***************************************************************************)
(* A waiter goes onto its chain, and off again.                            *)
(***************************************************************************)

\* Who scans a chain, or moves somebody, holds the locks of both buckets.
LEMMA HeldIs ==
  ASSUME TypeOK, Waking, Locks, NEW x \in Wakers, k[x].pc \in Inside
  PROVE  /\ B1(x) \in Buckets /\ B2(x) \in Buckets
         /\ lock[B1(x)] = x /\ lock[B2(x)] = x
<1>1. k[x].pc # "idle"
  BY DEF Inside
<1>2. B1(x) \in Buckets /\ B2(x) \in Buckets
  BY <1>1, WakerIs
<1> QED
  BY <1>2 DEF Locks, Holds

\* The chain of b changes under a lock that no requeue has.
LEMMA ElsewhereComing ==
  ASSUME TypeOK, Waking, Places, Locks, NEW b \in Buckets,
         \A c \in Buckets \ {b} : chain'[c] = chain[c],
         \A v \in Waiters : \/ w'[v].key = w[v].key /\ w'[v].bits = w[v].bits
                            \/ w[v].ptr = b \/ w[v].pc \notin InCall,
         NEW x \in Wakers, k'[x] = k[x], lock[b] # x
  PROVE  Coming(x)' = Coming(x)
<1>1. k[x].pc \in {"next", "add"} => B1(x) \in Buckets /\ B1(x) # b
  BY HeldIs DEF Inside
<1>2. k[x].pc \in {"next", "add"} => chain'[B1(x)] = chain[B1(x)]
  BY <1>1
<1>3. k[x].pc \in {"next", "add"} =>
        \A v \in ToSet(chain[B1(x)]) : w'[v].key = w[v].key /\ w'[v].bits = w[v].bits
  BY <1>1, ChainIs DEF OnChain
<1> QED
  BY <1>2, <1>3, ComingSame

LEMMA QueueMeIInv ==
  ASSUME IInv, NEW t \in Waiters, QueueMe(t)
  PROVE  IInv'
<1>0. TypeOK /\ Calling /\ Waking /\ Places /\ Locks /\ Counted /\ Owes
  BY DEF IInv
<1>1. w[t].pc = "queue" /\ UNCHANGED <<word, waiters, k, owed, count>>
  BY DEF QueueMe
<1>2. PICK r \in WaiterState, b \in Buckets :
        /\ r = w[t] /\ Call(t, r) /\ ~r.given /\ r.addr \in Futexes /\ r.key = r.addr
        /\ b = r.ptr /\ b = Hash[r.addr]
  BY <1>0, <1>1, LookerIs
<1> DEFINE s == [r EXCEPT !.pc = "check", !.armed = r.due # None, !.asleep = TRUE]
<1>3. /\ Becomes(t, s) /\ chain' = [chain EXCEPT ![b] = Append(@, t)]
      /\ lock' = [lock EXCEPT ![b] = None]
  BY <1>2 DEF QueueMe
<1>4. /\ s \in WaiterState /\ Call(t, s) /\ s.pc = "check" /\ s.addr = r.addr /\ s.ptr = b
      /\ s.key = r.key /\ s.bits = r.bits /\ s.given = r.given
  BY <1>1, <1>2, ZenonT(60) DEF WaiterState, Call, InCall, Out, Maybe
<1> HIDE DEF s
<1>5. /\ w' \in Tasks /\ Calling' /\ w'[t] = s /\ \A v \in Waiters \ {t} : w'[v] = w[v]
  BY <1>0, <1>3, <1>4, OneWaiter
<1>6. /\ w[t].pc \notin InCall /\ w'[t].pc \in InCall /\ w'[t].ptr = b /\ Hash[w'[t].key] = b
      /\ ~w'[t].given
  BY <1>1, <1>2, <1>4, <1>5 DEF InCall
<1>7. \A c \in Buckets : t \notin ToSet(chain[c])
  BY <1>0, <1>6, ChainIs DEF OnChain
<1>8. chain \in [Buckets -> Seq(Waiters)] /\ lock \in [Buckets -> Maybe(Waiters \cup Wakers)]
  BY <1>0 DEF TypeOK
<1>9. /\ \A c \in Buckets \ {b} : chain'[c] = chain[c] /\ lock'[c] = lock[c]
      /\ chain'[b] = Append(chain[b], t) /\ lock'[b] = None
  BY <1>3, <1>8
<1>10. /\ chain'[b] \in Seq(Waiters) /\ Len(chain'[b]) = Len(chain[b]) + 1
       /\ IsInjective(chain'[b]) /\ ToSet(chain'[b]) = ToSet(chain[b]) \cup {t}
  <2>1. chain[b] \in Seq(Waiters) /\ IsInjective(chain[b])
    BY <1>0, ChainIs
  <2> QED
    BY <1>7, <1>9, <2>1, AppendIs
<1>11. TypeOK'
  <2>1. chain' \in [Buckets -> Seq(Waiters)]
    BY <1>3, <1>8, <1>9, <1>10
  <2>2. lock' \in [Buckets -> Maybe(Waiters \cup Wakers)]
    BY <1>3, <1>8 DEF Maybe
  <2> QED
    BY <1>0, <1>1, <1>5, <2>1, <2>2 DEF TypeOK, Tasks
<1>12. /\ Queued(t)' /\ \A v : v # t => Queued(v)' = Queued(v)
  BY <1>9, <1>10 DEF Queued
<1>13. \A x : /\ B1(x)' = B1(x) /\ B2(x)' = B2(x) /\ Requeues(x)' = Requeues(x)
              /\ Quota(x)' = Quota(x)
  BY <1>1 DEF B1, B2, Requeues, Quota
<1>14. Places'
  <2>1. ASSUME NEW c \in Buckets, NEW v \in ToSet(chain'[c]) PROVE OnChain(v, c)'
    <3>1. CASE v = t
      <4>1. c = b
        BY <3>1, <1>7, <1>9, <2>1
      <4> QED
        BY <3>1, <4>1, <1>6 DEF OnChain
    <3>2. CASE v # t
      <4>1. v \in ToSet(chain[c])
        BY <3>2, <1>9, <1>10, <2>1
      <4>2. v \in Waiters /\ OnChain(v, c)
        BY <4>1, <1>0, ChainIs
      <4> QED
        BY <3>2, <4>2, <1>5 DEF OnChain
    <3> QED
      BY <3>1, <3>2
  <2>2. \A c \in Buckets : IsInjective(chain'[c])
    BY <1>0, <1>9, <1>10, ChainIs
  <2>3. \A x \in Wakers : Hand(x)'
    <3> TAKE x \in Wakers
    <3>1. k[x].pc \in {"null", "add"} => k[x].who \in Waiters /\ Hand(x)
      BY <1>0, WakerIs DEF Rouse, Places
    <3>2. k[x].pc \in {"null", "add"} => k[x].who # t
      BY <3>1, <1>6 DEF Hand
    <3> QED
      BY <3>1, <3>2, <1>1, <1>5, <1>12, <1>13 DEF Hand
  <2>4. ASSUME NEW v \in Waiters
        PROVE  /\ w'[v].pc \in InCall =>
                    Queued(v)' \/ w'[v].given \/ \E x \in Wakers : k'[x].pc = "add" /\ k'[x].who = v
               /\ w'[v].given /\ w'[v].ptr # None => \E x \in Wakers : k'[x].pc = "null" /\ k'[x].who = v
               /\ w'[v].given /\ w'[v].asleep =>
                    \E x \in Wakers : k'[x].pc \in {"null", "wake"} /\ k'[x].who = v
    <3>1. CASE v = t
      BY <3>1, <1>6, <1>12
    <3>2. CASE v # t
      BY <3>2, <1>0, <1>1, <1>5, <1>12 DEF Places
    <3> QED
      BY <3>1, <3>2
  <2> QED
    BY <2>1, <2>2, <2>3, <2>4 DEF Places
<1>15. lock[b] = t /\ t \notin Wakers /\ None \notin Waiters /\ None \notin Wakers
  <2>1. w[t].pc = "queue" /\ w[t].ptr = b
    BY <1>1, <1>2
  <2>2. lock[b] = t <=> w[t].pc = "queue" /\ w[t].ptr = b
    BY <1>0 DEF Locks
  <2> QED
    BY <2>1, <2>2, Ground
<1>16. Locks'
  <2>1. \A x, c : Holds(x, c)' = Holds(x, c)
    BY <1>1 DEF Holds, B1, B2, Low
  <2> SUFFICES ASSUME NEW c \in Buckets
               PROVE  /\ \A v \in Waiters : lock'[c] = v <=> w'[v].pc = "queue" /\ w'[v].ptr = c
                      /\ \A x \in Wakers : lock'[c] = x <=> Holds(x, c)'
    BY DEF Locks
  <2>2. lock'[c] = IF c = b THEN None ELSE lock[c]
    BY <1>9
  <2>3. \A v \in Waiters : lock[c] = v <=> w[v].pc = "queue" /\ w[v].ptr = c
    BY <1>0 DEF Locks
  <2>4. \A x \in Wakers : lock[c] = x <=> Holds(x, c)
    BY <1>0 DEF Locks
  <2>5. \A x \in Wakers : lock'[c] = x <=> Holds(x, c)'
    BY <2>1, <2>2, <2>4, <1>15
  <2>6. \A v \in Waiters : lock'[c] = v <=> w'[v].pc = "queue" /\ w'[v].ptr = c
    <3> TAKE v \in Waiters
    <3>1. CASE v = t
      BY <3>1, <2>2, <2>3, <1>2, <1>4, <1>5, <1>15, ZenonT(60)
    <3>2. CASE v # t
      BY <3>2, <2>2, <2>3, <1>5, <1>15
    <3> QED
      BY <3>1, <3>2
  <2> QED
    BY <2>5, <2>6
<1>17. Counted'
  <2>1. \A c : Announcers(c)' = Announcers(c)
    BY <1>1, AnnouncersSame
  <2>2. \A c : Cardinality(Lookers(c)') = Cardinality(Lookers(c)) - (IF c = b THEN 1 ELSE 0)
    <3>1. w'[t].pc \notin {"lock", "queue"} /\ w[t].pc \in {"lock", "queue"} /\ Hash[w[t].addr] = b
      BY <1>1, <1>2, <1>4, <1>5
    <3> QED
      BY <1>5, <3>1, LookersLose
  <2> SUFFICES ASSUME NEW c \in Buckets
               PROVE  waiters'[c] = Len(chain'[c]) + Cardinality(Lookers(c)') + Cardinality(Announcers(c)')
    BY DEF Counted
  <2>3. /\ waiters[c] = Len(chain[c]) + Cardinality(Lookers(c)) + Cardinality(Announcers(c))
        /\ waiters[c] \in Nat /\ Len(chain[c]) \in Nat
        /\ Cardinality(Lookers(c)) \in Nat /\ Cardinality(Announcers(c)) \in Nat
    BY <1>0, CountedIs
  <2>4. CASE c = b
    <3>1. Len(chain'[c]) = Len(chain[c]) + 1
      BY <2>4, <1>9, <1>10
    <3>2. Cardinality(Lookers(c)') = Cardinality(Lookers(c)) - 1
      BY <2>2, <2>4
    <3> QED
      BY <1>1, <2>1, <2>3, <3>1, <3>2
  <2>5. CASE c # b
    <3>1. chain'[c] = chain[c]
      BY <2>5, <1>9
    <3>2. Cardinality(Lookers(c)') = Cardinality(Lookers(c)) - 0
      BY <2>2, <2>5
    <3> QED
      BY <1>1, <2>1, <2>3, <3>1, <3>2
  <2> QED
    BY <2>4, <2>5
<1>18. Owes'
  <2>1. ASSUME NEW x \in Wakers PROVE Coming(x)' = Coming(x)
    <3>1. \A v \in Waiters : w'[v].key = w[v].key /\ w'[v].bits = w[v].bits
      BY <1>2, <1>4, <1>5
    <3> QED
      BY <1>0, <1>1, <1>9, <1>15, <3>1, ElsewhereComing
  <2>2. ASSUME NEW x \in Wakers, NEW v \in owed[x]
        PROVE  w'[v].bits \cap k'[x].bits # {} /\ Findable(v, k[x].f)'
    <3>1. v \in Waiters /\ w[v].bits \cap k[x].bits # {} /\ Findable(v, k[x].f)
      BY <1>0, <2>2 DEF TypeOK, Owes
    <3>2. w'[v].bits = w[v].bits /\ w'[v].key = w[v].key
      BY <3>1, <1>2, <1>4, <1>5
    <3>3. (w[v].pc = "queue" \/ Queued(v)) => (w'[v].pc = "queue" \/ Queued(v)')
      BY <3>1, <1>5, <1>12
    <3> QED
      BY <3>1, <3>2, <3>3, <2>1, <1>1 DEF Findable
  <2> QED
    BY <2>2, <1>0, <1>1, <1>13 DEF Owes
<1>19. Waking'
  BY <1>0, <1>1 DEF Waking
<1> QED
  BY <1>5, <1>11, <1>14, <1>16, <1>17, <1>18, <1>19 DEF IInv

\* v goes off the chain of b.
LEMMA ChainOff ==
  ASSUME TypeOK, Places, NEW b \in Buckets, NEW v \in ToSet(chain[b]),
         chain' = [chain EXCEPT ![b] = Off(@, v)]
  PROVE  /\ chain' \in [Buckets -> Seq(Waiters)]
         /\ \A c \in Buckets \ {b} : chain'[c] = chain[c]
         /\ Len(chain'[b]) = Len(chain[b]) - 1 /\ Len(chain[b]) >= 1
         /\ \A c \in Buckets : IsInjective(chain'[c]) /\ ToSet(chain'[c]) = ToSet(chain[c]) \ {v}
         /\ \A u : Queued(u)' <=> (Queued(u) /\ u # v)
         /\ \A u, x : Before(chain'[b], u, x) => Before(chain[b], u, x)
<1>1. chain \in [Buckets -> Seq(Waiters)]
  BY DEF TypeOK
<1>2. chain[b] \in Seq(Waiters) /\ IsInjective(chain[b])
  BY ChainIs
<1>3. /\ chain'[b] = Off(chain[b], v) /\ \A c \in Buckets \ {b} : chain'[c] = chain[c]
  BY <1>1
<1>4. /\ chain'[b] \in Seq(Waiters) /\ Len(chain'[b]) = Len(chain[b]) - 1 /\ Len(chain[b]) >= 1
      /\ IsInjective(chain'[b]) /\ ToSet(chain'[b]) = ToSet(chain[b]) \ {v}
      /\ \A u, x : Before(chain'[b], u, x) => Before(chain[b], u, x)
  BY <1>2, <1>3, OffIs
<1>5. chain' \in [Buckets -> Seq(Waiters)]
  <2> DEFINE o == Off(chain[b], v)
  <2>1. chain' = [chain EXCEPT ![b] = o] /\ o \in Seq(Waiters)
    BY <1>3, <1>4
  <2> HIDE DEF o
  <2> QED
    BY <1>1, <2>1
<1>6. \A c \in Buckets \ {b} : v \notin ToSet(chain[c])
  <2>1. w[v].ptr = b
    BY ChainIs DEF OnChain
  <2>2. \A c \in Buckets : v \in ToSet(chain[c]) => w[v].ptr = c
    BY ChainIs DEF OnChain
  <2> QED
    BY <2>1, <2>2
<1>7. \A c \in Buckets : IsInjective(chain'[c]) /\ ToSet(chain'[c]) = ToSet(chain[c]) \ {v}
  <2> TAKE c \in Buckets
  <2>1. CASE c = b
    BY <2>1, <1>4
  <2>2. CASE c # b
    BY <2>2, <1>3, <1>6, ChainIs
  <2> QED
    BY <2>1, <2>2
<1>8. \A u : Queued(u)' <=> (Queued(u) /\ u # v)
  BY <1>7 DEF Queued
<1> QED
  BY <1>3, <1>4, <1>5, <1>7, <1>8

\* hb->waiters--, for one that was counted.
LEMMA Minus ==
  ASSUME TypeOK, NEW b \in Buckets, waiters[b] >= 1, waiters' = [waiters EXCEPT ![b] = @ - 1]
  PROVE  /\ waiters' \in [Buckets -> Nat] /\ waiters'[b] = waiters[b] - 1
         /\ \A c \in Buckets \ {b} : waiters'[c] = waiters[c]
<1>1. waiters \in [Buckets -> Nat]
  BY DEF TypeOK
<1>2. waiters[b] - 1 \in Nat
  BY <1>1
<1> QED
  BY <1>1, <1>2

\* A waiter that has gone off the chain of b is no longer counted there.
LEMMA OffCounted ==
  ASSUME TypeOK, Places, Counted, NEW b \in Buckets, NEW v \in ToSet(chain[b]),
         chain' = [chain EXCEPT ![b] = Off(@, v)],
         waiters' = [waiters EXCEPT ![b] = @ - 1],
         \A c : Lookers(c)' = Lookers(c), \A c : Announcers(c)' = Announcers(c)
  PROVE  Counted' /\ waiters' \in [Buckets -> Nat]
<1>1. /\ \A c \in Buckets \ {b} : chain'[c] = chain[c]
      /\ Len(chain'[b]) = Len(chain[b]) - 1 /\ Len(chain[b]) >= 1
  BY ChainOff
<1>2. waiters[b] >= 1
  BY <1>1, CountedIs
<1>3. /\ waiters' \in [Buckets -> Nat] /\ waiters'[b] = waiters[b] - 1
      /\ \A c \in Buckets \ {b} : waiters'[c] = waiters[c]
  BY <1>2, Minus
<1>4. ASSUME NEW c \in Buckets
      PROVE  waiters'[c] = Len(chain'[c]) + Cardinality(Lookers(c)') + Cardinality(Announcers(c)')
  <2>1. /\ waiters[c] = Len(chain[c]) + Cardinality(Lookers(c)) + Cardinality(Announcers(c))
        /\ waiters[c] \in Nat /\ Len(chain[c]) \in Nat
        /\ Cardinality(Lookers(c)) \in Nat /\ Cardinality(Announcers(c)) \in Nat
    BY CountedIs
  <2>2. Lookers(c)' = Lookers(c) /\ Announcers(c)' = Announcers(c)
    OBVIOUS
  <2>3. CASE c = b
    BY <2>1, <2>2, <2>3, <1>1, <1>3, SMTT(60)
  <2>4. CASE c # b
    BY <2>1, <2>2, <2>4, <1>1, <1>3
  <2> QED
    BY <2>3, <2>4
<1> QED
  BY <1>3, <1>4 DEF Counted

\* With its lock free, nobody has the waiter in hand: it is queued.
LEMMA UnlockQueued ==
  ASSUME TypeOK, Calling, Waking, Places, Locks,
         NEW t \in Waiters, w[t].pc \in InCall, w[t].ptr \in Buckets, Free(w[t].ptr)
  PROVE  Queued(t) /\ ~w[t].given /\ t \in ToSet(chain[w[t].ptr])
<1>1. lock[w[t].ptr] = None /\ None \notin Wakers
  BY Ground DEF Free
<1>2. \A x \in Wakers : k[x].pc \in Inside => w[t].ptr \notin {B1(x), B2(x)}
  BY <1>1, HeldIs
<1>3. ASSUME NEW x \in Wakers, k[x].who = t PROVE k[x].pc \notin {"null", "add"}
  BY <1>2, <1>3 DEF Places, Hand, Inside
<1>4. w[t].ptr # None
  BY Ground
<1>5. Queued(t) /\ ~w[t].given
  BY <1>3, <1>4 DEF Places
<1> QED
  BY <1>5, QueuedIs

LEMMA UnqueueLockedIInv ==
  ASSUME IInv, NEW t \in Waiters, UnqueueLocked(t), w[t].saw = w[t].ptr
  PROVE  IInv'
<1>0. TypeOK /\ Calling /\ Waking /\ Places /\ Locks /\ Counted /\ Owes
  BY DEF IInv
<1>1. w[t].pc = "unlock" /\ UNCHANGED <<word, lock, k, count>> /\ NotOwed(t)
  BY DEF UnqueueLocked
<1>2. PICK r \in WaiterState, b \in Buckets :
        r = w[t] /\ Call(t, r) /\ b = r.ptr /\ Free(b)
  <2>1. w[t] \in WaiterState /\ Call(t, w[t])
    BY <1>0, RecordIs
  <2>2. w[t].ptr \in Buckets
    BY <2>1, <1>1 DEF Call
  <2> QED
    BY <2>1, <2>2 DEF UnqueueLocked
<1> DEFINE s == [r EXCEPT !.pc = "why", !.key = None, !.ptr = None, !.saw = None]
<1>3. /\ Becomes(t, s) /\ chain' = [chain EXCEPT ![b] = Off(@, t)]
      /\ waiters' = [waiters EXCEPT ![b] = @ - 1]
  BY <1>2 DEF UnqueueLocked
<1>4. Queued(t) /\ ~w[t].given /\ t \in ToSet(chain[b])
  <2>1. w[t].pc \in InCall /\ w[t].ptr = b
    BY <1>1, <1>2 DEF InCall
  <2> QED
    BY <1>0, <1>2, <2>1, UnlockQueued
<1>5. s \in WaiterState /\ Call(t, s) /\ s.pc = "why" /\ ~s.given
  BY <1>1, <1>2, <1>4, ZenonT(60) DEF WaiterState, Call, InCall, Out, Maybe
<1> HIDE DEF s
<1>6. /\ w' \in Tasks /\ Calling' /\ w'[t] = s /\ \A v \in Waiters \ {t} : w'[v] = w[v]
  BY <1>0, <1>3, <1>5, OneWaiter
<1>7. /\ chain' \in [Buckets -> Seq(Waiters)]
      /\ \A c \in Buckets \ {b} : chain'[c] = chain[c]
      /\ \A c \in Buckets : IsInjective(chain'[c]) /\ ToSet(chain'[c]) = ToSet(chain[c]) \ {t}
      /\ \A u : Queued(u)' <=> (Queued(u) /\ u # t)
  BY <1>0, <1>3, <1>4, ChainOff
<1>8. Counted' /\ waiters' \in [Buckets -> Nat]
  <2>1. \A v \in Waiters : w'[v].pc \in {"lock", "queue"} <=> w[v].pc \in {"lock", "queue"}
    BY <1>1, <1>5, <1>6
  <2>2. \A v \in Waiters : w[v].pc \in {"lock", "queue"} => w'[v].addr = w[v].addr
    BY <1>1, <1>6
  <2>3. \A c : Lookers(c)' = Lookers(c)
    BY <2>1, <2>2, LookersSame
  <2>4. \A c : Announcers(c)' = Announcers(c)
    BY <1>1, AnnouncersSame
  <2> QED
    BY <1>0, <1>3, <1>4, <2>3, <2>4, OffCounted
<1>9. owed' \in [Wakers -> SUBSET Waiters] /\ \A x \in Wakers : owed'[x] = owed[x] \ {t}
  BY <1>0, <1>1 DEF NotOwed, TypeOK
<1>10. TypeOK'
  BY <1>0, <1>1, <1>6, <1>7, <1>8, <1>9 DEF TypeOK, Tasks
<1>11. Locks'
  BY <1>0, <1>1, <1>5, <1>6, OutLocks
<1>12. \A x : /\ B1(x)' = B1(x) /\ B2(x)' = B2(x) /\ Requeues(x)' = Requeues(x)
              /\ Quota(x)' = Quota(x)
  BY <1>1 DEF B1, B2, Requeues, Quota
<1>13. Places'
  <2>1. ASSUME NEW c \in Buckets, NEW v \in ToSet(chain'[c]) PROVE OnChain(v, c)'
    <3>1. v \in ToSet(chain[c]) /\ v # t
      BY <1>7
    <3>2. v \in Waiters /\ OnChain(v, c)
      BY <3>1, <1>0, ChainIs
    <3> QED
      BY <3>1, <3>2, <1>6 DEF OnChain
  <2>2. \A x \in Wakers : Hand(x)'
    <3> TAKE x \in Wakers
    <3>1. k[x].pc \in {"null", "add"} => k[x].who \in Waiters /\ Hand(x)
      BY <1>0, WakerIs DEF Rouse, Places
    <3>2. k[x].pc \in {"null", "add"} => k[x].who # t
      BY <3>1, <1>4 DEF Hand
    <3> QED
      BY <3>1, <3>2, <1>1, <1>6, <1>7, <1>12 DEF Hand
  <2>3. ASSUME NEW v \in Waiters
        PROVE  /\ w'[v].pc \in InCall =>
                    Queued(v)' \/ w'[v].given \/ \E x \in Wakers : k'[x].pc = "add" /\ k'[x].who = v
               /\ w'[v].given /\ w'[v].ptr # None => \E x \in Wakers : k'[x].pc = "null" /\ k'[x].who = v
               /\ w'[v].given /\ w'[v].asleep =>
                    \E x \in Wakers : k'[x].pc \in {"null", "wake"} /\ k'[x].who = v
    <3>1. CASE v = t
      BY <3>1, <1>5, <1>6 DEF InCall
    <3>2. CASE v # t
      BY <3>2, <1>0, <1>1, <1>6, <1>7 DEF Places
    <3> QED
      BY <3>1, <3>2
  <2> QED
    BY <2>1, <2>2, <2>3, <1>7 DEF Places
<1>14. Owes'
  <2>1. ASSUME NEW x \in Wakers PROVE Coming(x)' = Coming(x)
    <3>1. \A v \in Waiters : (w'[v].key = w[v].key /\ w'[v].bits = w[v].bits) \/ w[v].ptr = b \/ w[v].pc \notin InCall
      BY <1>2, <1>6
    <3>2. lock[b] # x
      BY <1>2, Ground DEF Free
    <3> QED
      BY <1>0, <1>1, <1>7, <3>1, <3>2, ElsewhereComing
  <2>2. ASSUME NEW x \in Wakers, NEW v \in owed'[x]
        PROVE  w'[v].bits \cap k'[x].bits # {} /\ Findable(v, k[x].f)'
    <3>1. v \in owed[x] /\ v # t
      BY <1>9, <2>2
    <3>2. v \in Waiters /\ w[v].bits \cap k[x].bits # {} /\ Findable(v, k[x].f)
      BY <1>0, <3>1 DEF TypeOK, Owes
    <3> QED
      BY <3>1, <3>2, <2>1, <1>1, <1>6, <1>7 DEF Findable
  <2>3. \A x \in Wakers : owed[x] = {} => owed'[x] = {}
    BY <1>9
  <2> QED
    BY <2>2, <2>3, <1>0, <1>1, <1>12 DEF Owes
<1>15. Waking'
  BY <1>0, <1>1 DEF Waking
<1> QED
  BY <1>6, <1>8, <1>10, <1>11, <1>13, <1>14, <1>15 DEF IInv

(***************************************************************************)
(* Steps of a waker that touch no waiter.                                  *)
(***************************************************************************)

LEMMA OneWaker ==
  ASSUME TypeOK, Waking, NEW t \in Wakers, NEW s \in WakerState, Rouse(s), Turns(t, s)
  PROVE  /\ k' \in [Wakers -> WakerState] /\ Waking' /\ k'[t] = s
         /\ \A x \in Wakers \ {t} : k'[x] = k[x]
<1>1. k \in [Wakers -> WakerState]
  BY DEF TypeOK
<1> QED
  BY <1>1 DEF Turns, Waking

LEMMA KPlaces ==
  ASSUME TypeOK, Waking, Places, UNCHANGED <<chain, w>>, NEW t \in Wakers,
         \A x \in Wakers \ {t} : k'[x] = k[x],
         k[t].pc \notin {"null", "wake", "add"}, k'[t].pc \notin {"null", "wake", "add"}
  PROVE  Places'
<1>1. \A v : Queued(v)' = Queued(v)
  BY DEF Queued
<1>2. ASSUME NEW x \in Wakers PROVE Hand(x)'
  <2>1. CASE x = t
    BY <2>1 DEF Hand
  <2>2. CASE x # t
    <3>1. k'[x] = k[x] /\ Hand(x)
      BY <2>2 DEF Places
    <3>2. B1(x)' = B1(x) /\ B2(x)' = B2(x) /\ Requeues(x)' = Requeues(x)
      BY <3>1 DEF B1, B2, Requeues
    <3> QED
      BY <3>1, <3>2, <1>1 DEF Hand
  <2> QED
    BY <2>1, <2>2
<1>3. \A v, b : OnChain(v, b)' = OnChain(v, b)
  BY DEF OnChain
<1>4. ASSUME NEW v \in Waiters
      PROVE  /\ w'[v].pc \in InCall =>
                  Queued(v)' \/ w'[v].given \/ \E x \in Wakers : k'[x].pc = "add" /\ k'[x].who = v
             /\ w'[v].given /\ w'[v].ptr # None => \E x \in Wakers : k'[x].pc = "null" /\ k'[x].who = v
             /\ w'[v].given /\ w'[v].asleep =>
                  \E x \in Wakers : k'[x].pc \in {"null", "wake"} /\ k'[x].who = v
  <2>1. \A x \in Wakers : k[x].pc \in {"null", "wake", "add"} => k'[x] = k[x]
    OBVIOUS
  <2> QED
    BY <1>1, <2>1 DEF Places
<1> QED
  BY <1>2, <1>3, <1>4 DEF Places

\* Whom the others owe a wakeup they will find, and so will t.
LEMMA KOwes ==
  ASSUME TypeOK, Waking, Places, Owes, UNCHANGED <<chain, w>>, NEW t \in Wakers,
         \A x \in Wakers \ {t} : k'[x] = k[x] /\ owed'[x] = owed[x],
         Coming(t) = {}, owed' \in [Wakers -> SUBSET Waiters],
         k'[t].op # "wake" \/ k'[t].pc \in {"idle", "key"} => owed'[t] = {},
         (k'[t].pc = "return" /\ k'[t].found < Quota(t)') => owed'[t] = {},
         \/ owed'[t] = {}
         \/ /\ k'[t].f = k[t].f /\ k'[t].bits = k[t].bits
            /\ \A v \in owed'[t] : w[v].bits \cap k[t].bits # {} /\ Findable(v, k[t].f)
  PROVE  Owes'
<1>1. \A v : Queued(v)' = Queued(v)
  BY DEF Queued
<1>2. ASSUME NEW x \in Wakers \ {t} PROVE Coming(x)' = Coming(x)
  <2>1. \A v \in ToSet(chain[B1(x)]) : w'[v].key = w[v].key /\ w'[v].bits = w[v].bits
    OBVIOUS
  <2> QED
    BY <2>1, ComingSame
<1>3. ASSUME NEW v, NEW f, NEW g, g = f, Findable(v, f)
      PROVE  \/ w'[v].key = g /\ (w'[v].pc = "queue" \/ Queued(v)')
             \/ \E y \in Wakers : k'[y].g = g /\ v \in Coming(y)'
  BY <1>1, <1>2, <1>3 DEF Findable
<1>4. ASSUME NEW x \in Wakers
      PROVE  /\ k'[x].op # "wake" \/ k'[x].pc \in {"idle", "key"} => owed'[x] = {}
             /\ \A v \in owed'[x] : w'[v].bits \cap k'[x].bits # {} /\ Findable(v, k[x].f)'
             /\ k'[x].pc = "return" /\ k'[x].found < Quota(x)' => owed'[x] = {}
  <2>1. CASE x = t
    <3>1. \A v \in owed'[t] : w'[v].bits \cap k'[t].bits # {} /\ Findable(v, k[t].f)'
      <4> TAKE v \in owed'[t]
      <4>1. /\ k'[t].f = k[t].f /\ k'[t].bits = k[t].bits
            /\ w[v].bits \cap k[t].bits # {} /\ Findable(v, k[t].f)
        OBVIOUS
      <4>2. \/ w'[v].key = k'[t].f /\ (w'[v].pc = "queue" \/ Queued(v)')
            \/ \E y \in Wakers : k'[y].g = k'[t].f /\ v \in Coming(y)'
        <5>1. PICK f, g : f = k[t].f /\ g = k'[t].f
          OBVIOUS
        <5> QED
          BY <5>1, <4>1, <1>3
      <4> QED
        BY <4>1, <4>2 DEF Findable
    <3> QED
      BY <2>1, <3>1
  <2>2. CASE x # t
    <3>1. k'[x] = k[x] /\ owed'[x] = owed[x]
      BY <2>2
    <3>2. Quota(x)' = Quota(x)
      BY <3>1 DEF Quota, Requeues
    <3>3. \A v \in owed[x] : w[v].bits \cap k[x].bits # {} /\ Findable(v, k[x].f)
      BY DEF Owes
    <3>4. \A v \in owed'[x] : w'[v].bits \cap k'[x].bits # {} /\ Findable(v, k[x].f)'
      BY <3>1, <3>3, <1>1, <1>2, <2>2 DEF Findable
    <3> QED
      BY <3>1, <3>2, <3>4 DEF Owes
  <2> QED
    BY <2>1, <2>2
<1> QED
  BY <1>4 DEF Owes

\* A task that holds no lock, and goes on without one.
LEMMA KLocks ==
  ASSUME Locks, UNCHANGED <<lock, w>>, NEW t \in Wakers, \A x \in Wakers \ {t} : k'[x] = k[x],
         k[t].pc \notin Inside \cup {"lock2"}, k'[t].pc \notin Inside \cup {"lock2"}
  PROVE  Locks'
<1>1. \A x \in Wakers : \A b : Holds(x, b)' = Holds(x, b)
  <2> TAKE x \in Wakers
  <2> TAKE b
  <2>1. CASE x = t
    BY <2>1 DEF Holds
  <2>2. CASE x # t
    BY <2>2 DEF Holds, B1, B2, Low
  <2> QED
    BY <2>1, <2>2
<1> QED
  BY <1>1 DEF Locks

\* double_unlock_hb.
LEMMA UnlockedLocks ==
  ASSUME TypeOK, Locks, UNCHANGED w, NEW t \in Wakers, \A x \in Wakers \ {t} : k'[x] = k[x],
         lock' = Unlocked(t), k'[t].pc \notin Inside \cup {"lock2"}
  PROVE  Locks' /\ lock' \in [Buckets -> Maybe(Waiters \cup Wakers)]
<1>1. \A x \in Wakers \ {t} : \A b : Holds(x, b)' = Holds(x, b)
  BY DEF Holds, B1, B2, Low
<1>2. \A b : ~Holds(t, b)'
  BY DEF Holds
<1>3. \A b \in Buckets : lock'[b] = IF lock[b] = t THEN None ELSE lock[b]
  BY DEF Unlocked
<1>4. None \notin Wakers /\ None \notin Waiters /\ t \notin Waiters
  BY Ground
<1>5. \A b \in Buckets : \A x \in Wakers : lock'[b] = x <=> Holds(x, b)'
  <2> TAKE b \in Buckets
  <2> TAKE x \in Wakers
  <2>1. lock[b] = x <=> Holds(x, b)
    BY DEF Locks
  <2>2. CASE x = t
    BY <2>2, <1>2, <1>3, <1>4
  <2>3. CASE x # t
    BY <2>1, <2>3, <1>1, <1>3, <1>4
  <2> QED
    BY <2>2, <2>3
<1>6. \A b \in Buckets : \A v \in Waiters : lock'[b] = v <=> w'[v].pc = "queue" /\ w'[v].ptr = b
  BY <1>3, <1>4 DEF Locks
<1>7. lock' \in [Buckets -> Maybe(Waiters \cup Wakers)]
  <2>1. lock \in [Buckets -> Maybe(Waiters \cup Wakers)]
    BY DEF TypeOK
  <2> QED
    BY <2>1 DEF Unlocked, Maybe
<1> QED
  BY <1>5, <1>6, <1>7 DEF Locks

\* hb_waiters_inc(hb2), and hb_waiters_dec(hb2).
LEMMA AnnouncersGain ==
  ASSUME NEW t \in Wakers, \A x \in Wakers \ {t} : k'[x] = k[x], NEW b, B2(t) = b,
         k[t].pc \in {"key", "idle"}, k'[t].pc \notin {"key", "idle"},
         k'[t].op = k[t].op, k'[t].g = k[t].g
  PROVE  \A c : Cardinality(Announcers(c)') =
                  Cardinality(Announcers(c)) + (IF c = b THEN Announced(t) ELSE 0)
<1> TAKE c
<1>1. Cardinality(Announcers(c)) \in Nat
  BY Counting
<1>2. CASE c = b /\ Requeues(t)
  <2>1. Announcers(c)' = Announcers(c) \cup {t} /\ t \notin Announcers(c)
    BY <1>2 DEF Announcers, Requeues, B2
  <2>2. Cardinality(Announcers(c)') = Cardinality(Announcers(c)) + 1
    BY <2>1, OneMore, Counting
  <2> QED
    BY <1>2, <2>2 DEF Announced
<1>3. CASE ~(c = b /\ Requeues(t))
  <2>1. Announcers(c)' = Announcers(c)
    BY <1>3 DEF Announcers, Requeues, B2
  <2> QED
    BY <1>1, <1>3, <2>1 DEF Announced
<1> QED
  BY <1>2, <1>3

LEMMA AnnouncersLose ==
  ASSUME NEW t \in Wakers, \A x \in Wakers \ {t} : k'[x] = k[x], NEW b, B2(t) = b,
         k'[t].pc \in {"key", "idle"}, k[t].pc \notin {"key", "idle"}
  PROVE  /\ \A c : Cardinality(Announcers(c)') =
                     Cardinality(Announcers(c)) - (IF c = b THEN Announced(t) ELSE 0)
         /\ Cardinality(Announcers(b)) >= Announced(t)
<1>1. Requeues(t) => Cardinality(Announcers(b)) >= 1
  <2>1. Requeues(t) => t \in Announcers(b)
    BY DEF Announcers
  <2> QED
    BY <2>1, SomeOne, Counting
<1>2. \A c : Cardinality(Announcers(c)) \in Nat
  BY Counting
<1>3. ASSUME NEW c
      PROVE  Cardinality(Announcers(c)') =
               Cardinality(Announcers(c)) - (IF c = b THEN Announced(t) ELSE 0)
  <2>1. CASE c = b /\ Requeues(t)
    <3>1. Announcers(c)' = Announcers(c) \ {t} /\ t \in Announcers(c)
      BY <2>1 DEF Announcers, Requeues, B2
    <3>2. Cardinality(Announcers(c)') = Cardinality(Announcers(c)) - 1
      BY <3>1, OneLess, Counting
    <3> QED
      BY <2>1, <3>2 DEF Announced
  <2>2. CASE ~(c = b /\ Requeues(t))
    <3>1. Announcers(c)' = Announcers(c)
      BY <2>2 DEF Announcers, Requeues, B2
    <3> QED
      BY <1>2, <2>2, <3>1 DEF Announced
  <2> QED
    BY <2>1, <2>2
<1> QED
  BY <1>1, <1>2, <1>3 DEF Announced

\* A call: its record, of which nothing else matters here.
Asked(call, f) == call \in WakerState /\ Rouse(call) /\ call.pc = "key" /\ call.f = f

LEMMA AsksIs ==
  ASSUME TypeOK, NEW op \in {"wake", "requeue", "cmp", "op"}, NEW f \in Futexes, NEW g \in Futexes,
         NEW n \in Nat, NEW m \in Nat, NEW bits \in SUBSET AnyBit, NEW cond \in BOOLEAN,
         cond => op = "op", op = "wake" \/ f # g
  PROVE  Asked(Asks(op, f, g, n, m, bits, cond), f)
<1>1. PICK cmp : cmp = IF op = "cmp" THEN word[f] + 1 ELSE None
  OBVIOUS
<1>2. cmp \in Maybe(Nat)
  BY <1>1 DEF TypeOK, Maybe
<1>3. PICK c : c = [Rest EXCEPT !.pc = "key", !.op = op, !.f = f, !.g = g, !.n = n, !.m = m,
                                !.bits = bits, !.cmp = cmp, !.cond = cond]
  OBVIOUS
<1>4. c = Asks(op, f, g, n, m, bits, cond)
  BY <1>1, <1>3 DEF Asks
<1>5. Rest \in WakerState
  BY DEF Rest, WakerState, Maybe
<1>6. Asked(c, f)
  BY <1>2, <1>3, <1>5 DEF WakerState, Maybe, Rouse, Asked
<1> QED
  BY <1>4, <1>6

LEMMA PostIInv ==
  ASSUME IInv, NEW t \in Wakers, NEW f \in Futexes, NEW call, Asked(call, f), Post(t, call)
  PROVE  IInv'
<1>0. TypeOK /\ Calling /\ Waking /\ Places /\ Locks /\ Counted /\ Owes
  BY DEF IInv
<1>1. /\ k[t].pc = "idle" /\ Spend("posts", MaxPosts) /\ word' = [word EXCEPT ![call.f] = @ + 1]
      /\ Turns(t, call) /\ UNCHANGED <<waiters, chain, lock, w, owed>>
  BY DEF Post, hash
<1>2. call \in WakerState /\ Rouse(call) /\ call.pc = "key" /\ call.f = f
  BY DEF Asked
<1>3. /\ k' \in [Wakers -> WakerState] /\ Waking' /\ k'[t] = call
      /\ \A x \in Wakers \ {t} : k'[x] = k[x]
  BY <1>0, <1>1, <1>2, OneWaker
<1>4. word' \in [Futexes -> Nat]
  BY <1>0, <1>1, <1>2 DEF TypeOK
<1>5. count' \in [{"waits", "posts", "signals"} -> Nat]
  BY <1>0, <1>1, SpendIs
<1>6. TypeOK'
  BY <1>0, <1>1, <1>3, <1>4, <1>5 DEF TypeOK
<1>7. Calling'
  BY <1>0, <1>1 DEF Calling
<1>8. Places'
  BY <1>0, <1>1, <1>2, <1>3, KPlaces
<1>9. Locks'
  <2>1. k[t].pc \notin Inside \cup {"lock2"} /\ k'[t].pc \notin Inside \cup {"lock2"}
    BY <1>1, <1>2, <1>3 DEF Inside
  <2> QED
    BY <1>0, <1>1, <1>3, <2>1, KLocks
<1>10. Counted'
  <2>1. \A c : Lookers(c)' = Lookers(c)
    BY <1>1, LookersSame
  <2>2. \A c : Announcers(c)' = Announcers(c)
    <3> TAKE c
    <3>1. ASSUME NEW x \in Wakers
          PROVE  (Requeues(x) /\ B2(x) = c /\ k[x].pc \notin {"key", "idle"})'
                   <=> (Requeues(x) /\ B2(x) = c /\ k[x].pc \notin {"key", "idle"})
      <4>1. CASE x = t
        BY <4>1, <1>1, <1>2, <1>3
      <4>2. CASE x # t
        BY <4>2, <1>3 DEF Requeues, B2
      <4> QED
        BY <4>1, <4>2
    <3> QED
      BY <3>1 DEF Announcers
  <2> QED
    BY <1>0, <1>1, <2>1, <2>2 DEF Counted
<1>11. Owes'
  <2>1. owed[t] = {} /\ Coming(t) = {} /\ owed' \in [Wakers -> SUBSET Waiters]
    BY <1>0, <1>1 DEF Owes, Coming, TypeOK
  <2> QED
    BY <1>0, <1>1, <1>3, <2>1, KOwes
<1> QED
  BY <1>3, <1>6, <1>7, <1>8, <1>9, <1>10, <1>11 DEF IInv

\* A bucket counts whoever a wake must find there.
LEMMA SomebodyCounted ==
  ASSUME TypeOK, Calling, Waking, Places, Counted, NEW f \in Futexes, NEW v \in Waiters,
         Findable(v, f)
  PROVE  waiters[Hash[f]] >= 1
<1>1. PICK b \in Buckets : b = Hash[f]
  BY Ground
<1>2. /\ waiters[b] = Len(chain[b]) + Cardinality(Lookers(b)) + Cardinality(Announcers(b))
      /\ waiters[b] \in Nat /\ Len(chain[b]) \in Nat
      /\ Cardinality(Lookers(b)) \in Nat /\ Cardinality(Announcers(b)) \in Nat
  BY CountedIs
<1>3. CASE w[v].key = f /\ w[v].pc = "queue"
  <2>1. w[v].addr = f
    BY <1>3, LookerIs
  <2>2. v \in Lookers(b)
    BY <1>1, <1>3, <2>1 DEF Lookers
  <2>3. Cardinality(Lookers(b)) >= 1
    BY <2>2, SomeOne, Counting
  <2> QED
    BY <1>1, <1>2, <2>3
<1>4. CASE w[v].key = f /\ Queued(v)
  <2>1. v \in ToSet(chain[b])
    BY <1>1, <1>4, QueuedIs
  <2>2. chain[b] \in Seq(Waiters) /\ chain[b] # <<>>
    BY <2>1, ChainIs DEF ToSet
  <2>3. Len(chain[b]) >= 1
    BY <2>2
  <2> QED
    BY <1>1, <1>2, <2>3
<1>5. ASSUME NEW y \in Wakers, k[y].g = f, v \in Coming(y) PROVE waiters[Hash[f]] >= 1
  <2>1. y \in Announcers(b)
    BY <1>1, <1>5, ComingIs DEF Announcers, B2
  <2>2. Cardinality(Announcers(b)) >= 1
    BY <2>1, SomeOne, Counting
  <2> QED
    BY <1>1, <1>2, <2>2
<1> QED
  BY <1>3, <1>4, <1>5 DEF Findable

LEMMA BeginIInv ==
  ASSUME IInv, NEW t \in Wakers, Begin(t)
  PROVE  IInv'
<1>0. TypeOK /\ Calling /\ Waking /\ Places /\ Locks /\ Counted /\ Owes
  BY DEF IInv
<1>1. k[t].pc = "key" /\ UNCHANGED <<word, chain, lock, w, count>>
  BY DEF Begin
<1>2. PICK r \in WakerState, b \in Buckets :
        /\ r = k[t] /\ Rouse(r) /\ b = B2(t) /\ r.f \in Futexes /\ r.g \in Futexes
        /\ B1(t) = Hash[r.f]
  BY <1>0, <1>1, WakerIs DEF B1
<1>3. PICK s : /\ s = [r EXCEPT !.pc = "lock"] \/
                  (s = [r EXCEPT !.pc = "return"] /\ r.op = "wake" /\ waiters[B1(t)] = 0)
               /\ Turns(t, s)
  BY <1>2 DEF Begin
<1>4. /\ s \in WakerState /\ Rouse(s) /\ s.pc \in {"lock", "return"} /\ s.op = r.op /\ s.g = r.g
      /\ s.f = r.f /\ s.bits = r.bits
      /\ s.pc = "return" => r.op = "wake" /\ waiters[B1(t)] = 0
  BY <1>1, <1>2, <1>3 DEF WakerState, Rouse
<1>5. /\ k' \in [Wakers -> WakerState] /\ Waking' /\ k'[t] = s
      /\ \A x \in Wakers \ {t} : k'[x] = k[x]
  BY <1>0, <1>3, <1>4, OneWaker
<1> DEFINE o == IF r.op = "wake" THEN Owed(r.f, r.bits) ELSE {}
<1>6. o \in SUBSET Waiters
  BY DEF Owed
<1>7. owed' = [owed EXCEPT ![t] = o]
  BY <1>2 DEF Begin
<1>8. owed' \in [Wakers -> SUBSET Waiters] /\ owed'[t] = o /\ \A x \in Wakers \ {t} : owed'[x] = owed[x]
  <2>1. owed \in [Wakers -> SUBSET Waiters]
    BY <1>0 DEF TypeOK
  <2> HIDE DEF o
  <2> QED
    BY <2>1, <1>6, <1>7
<1>9. \A v \in o : v \in Waiters /\ w[v].bits \cap k[t].bits # {} /\ Findable(v, k[t].f) /\ r.op = "wake"
  BY <1>2 DEF Owed, Findable
<1>10. Announced(t) \in Nat
  BY DEF Announced
<1>11. PICK n \in Nat : n = Announced(t)
  BY <1>10
<1>12. waiters' = [waiters EXCEPT ![b] = @ + n] /\ waiters \in [Buckets -> Nat]
  BY <1>0, <1>2, <1>11 DEF Begin, TypeOK
<1>13. waiters' \in [Buckets -> Nat] /\ \A c \in Buckets : waiters'[c] = waiters[c] + (IF c = b THEN n ELSE 0)
  BY <1>12
<1>14. TypeOK'
  BY <1>0, <1>1, <1>5, <1>8, <1>13 DEF TypeOK
<1>15. Calling'
  BY <1>0, <1>1 DEF Calling
<1>16. Places'
  BY <1>0, <1>1, <1>4, <1>5, KPlaces
<1>17. Locks'
  <2>1. k[t].pc \notin Inside \cup {"lock2"} /\ k'[t].pc \notin Inside \cup {"lock2"}
    BY <1>1, <1>4, <1>5 DEF Inside
  <2> QED
    BY <1>0, <1>1, <1>5, <2>1, KLocks
<1>18. Counted'
  <2>1. \A c : Lookers(c)' = Lookers(c)
    BY <1>1, LookersSame
  <2>2. \A c : Cardinality(Announcers(c)') = Cardinality(Announcers(c)) + (IF c = b THEN n ELSE 0)
    <3>1. /\ B2(t) = b /\ k[t].pc \in {"key", "idle"} /\ k'[t].pc \notin {"key", "idle"}
          /\ k'[t].op = k[t].op /\ k'[t].g = k[t].g
      BY <1>1, <1>2, <1>4, <1>5
    <3> QED
      BY <1>5, <1>11, <3>1, AnnouncersGain
  <2> SUFFICES ASSUME NEW c \in Buckets
               PROVE  waiters'[c] = Len(chain'[c]) + Cardinality(Lookers(c)') + Cardinality(Announcers(c)')
    BY DEF Counted
  <2>3. /\ waiters[c] = Len(chain[c]) + Cardinality(Lookers(c)) + Cardinality(Announcers(c))
        /\ waiters[c] \in Nat /\ Len(chain[c]) \in Nat
        /\ Cardinality(Lookers(c)) \in Nat /\ Cardinality(Announcers(c)) \in Nat
    BY <1>0, CountedIs
  <2>4. Lookers(c)' = Lookers(c) /\ chain' = chain
    BY <2>1, <1>1
  <2>5. CASE c = b
    BY <2>2, <2>3, <2>4, <2>5, <1>13
  <2>6. CASE c # b
    BY <2>2, <2>3, <2>4, <2>6, <1>13
  <2> QED
    BY <2>5, <2>6
<1>19. Owes'
  <2>1. Coming(t) = {}
    BY <1>1 DEF Coming
  <2>2. s.pc = "return" => o = {}
    <3>1. ASSUME s.pc = "return", NEW v \in o PROVE FALSE
      <4>1. v \in Waiters /\ Findable(v, r.f) /\ waiters[Hash[r.f]] = 0
        BY <1>2, <1>4, <1>9, <3>1
      <4>2. waiters[Hash[r.f]] >= 1
        BY <1>0, <1>2, <4>1, SomebodyCounted
      <4> QED
        BY <4>1, <4>2
    <3> QED
      BY <3>1
  <2>3. k'[t].op # "wake" \/ k'[t].pc \in {"idle", "key"} => owed'[t] = {}
    BY <1>4, <1>5, <1>8
  <2>4. k'[t].pc = "return" => owed'[t] = {}
    BY <1>5, <1>8, <2>2
  <2>5. /\ k'[t].f = k[t].f /\ k'[t].bits = k[t].bits
        /\ \A v \in owed'[t] : w[v].bits \cap k[t].bits # {} /\ Findable(v, k[t].f)
    BY <1>2, <1>4, <1>5, <1>8, <1>9
  <2> HIDE DEF o
  <2> QED
    BY <1>0, <1>1, <1>5, <1>8, <2>1, <2>3, <2>4, <2>5, KOwes
<1> QED
  BY <1>5, <1>14, <1>15, <1>16, <1>17, <1>18, <1>19 DEF IInv

\* The record of a waker in a call.
LEMMA CallerIs ==
  ASSUME TypeOK, Waking, NEW t \in Wakers, k[t].pc # "idle"
  PROVE  \E r \in WakerState, b1, b2 \in Buckets :
           /\ r = k[t] /\ Rouse(r) /\ r.f \in Futexes /\ r.g \in Futexes
           /\ b1 = B1(t) /\ b1 = Hash[r.f] /\ b2 = B2(t) /\ b2 = Hash[r.g]
BY WakerIs DEF B1, B2

LEMMA LockLowIInv ==
  ASSUME IInv, NEW t \in Wakers, LockLow(t)
  PROVE  IInv'
<1>0. TypeOK /\ Calling /\ Waking /\ Places /\ Locks /\ Counted /\ Owes
  BY DEF IInv
<1>1. /\ k[t].pc = "lock" /\ B1(t) # B2(t) /\ Free(Low(t))
      /\ UNCHANGED <<word, waiters, chain, w, owed, count>>
  BY DEF LockLow
<1>2. PICK r \in WakerState, b1 \in Buckets, b2 \in Buckets :
        /\ r = k[t] /\ Rouse(r) /\ r.f \in Futexes /\ r.g \in Futexes
        /\ b1 = B1(t) /\ b1 = Hash[r.f] /\ b2 = B2(t) /\ b2 = Hash[r.g]
  BY <1>0, <1>1, CallerIs
<1>3. PICK b \in Buckets : b = IF b1 <= b2 THEN b1 ELSE b2
  OBVIOUS
<1>4. b = Low(t) /\ lock[b] = None
  BY <1>1, <1>2, <1>3 DEF Low, Free
<1> DEFINE s == [r EXCEPT !.pc = "lock2"]
<1>5. Turns(t, s) /\ lock' = [lock EXCEPT ![b] = t]
  BY <1>2, <1>4 DEF LockLow
<1>6. /\ s \in WakerState /\ Rouse(s) /\ s.pc = "lock2" /\ s.op = r.op /\ s.f = r.f /\ s.g = r.g
      /\ s.bits = r.bits
  BY <1>1, <1>2 DEF WakerState, Rouse
<1> HIDE DEF s
<1>7. /\ k' \in [Wakers -> WakerState] /\ Waking' /\ k'[t] = s
      /\ \A x \in Wakers \ {t} : k'[x] = k[x]
  BY <1>0, <1>5, <1>6, OneWaker
<1>8. lock \in [Buckets -> Maybe(Waiters \cup Wakers)] /\ lock' \in [Buckets -> Maybe(Waiters \cup Wakers)]
  BY <1>0, <1>5 DEF TypeOK, Maybe
<1>9. TypeOK'
  BY <1>0, <1>1, <1>7, <1>8 DEF TypeOK
<1>10. Calling'
  BY <1>0, <1>1 DEF Calling
<1>11. Places'
  BY <1>0, <1>1, <1>6, <1>7, KPlaces
<1>12. Locks'
  <2>1. \A x \in Wakers \ {t} : \A c : Holds(x, c)' = Holds(x, c)
    BY <1>7 DEF Holds, B1, B2, Low
  <2>2. \A c : ~Holds(t, c)
    BY <1>1 DEF Holds, Inside
  <2>3. B1(t)' = b1 /\ B2(t)' = b2
    BY <1>2, <1>6, <1>7 DEF B1, B2
  <2>4. Low(t)' = b
    BY <2>3, <1>3 DEF Low
  <2>5. \A c : Holds(t, c)' <=> c = b
    BY <2>4, <1>6, <1>7 DEF Holds, Inside
  <2> SUFFICES ASSUME NEW c \in Buckets
               PROVE  /\ \A v \in Waiters : lock'[c] = v <=> w'[v].pc = "queue" /\ w'[v].ptr = c
                      /\ \A x \in Wakers : lock'[c] = x <=> Holds(x, c)'
    BY DEF Locks
  <2>6. lock'[c] = IF c = b THEN t ELSE lock[c]
    BY <1>5, <1>8
  <2>7. None \notin Waiters /\ None \notin Wakers /\ t \notin Waiters
    BY Ground
  <2>8. ASSUME NEW v \in Waiters PROVE lock'[c] = v <=> w'[v].pc = "queue" /\ w'[v].ptr = c
    <3>1. lock[c] = v <=> w[v].pc = "queue" /\ w[v].ptr = c
      BY <1>0 DEF Locks
    <3> QED
      BY <3>1, <2>6, <2>7, <1>1, <1>4
  <2>9. ASSUME NEW x \in Wakers PROVE lock'[c] = x <=> Holds(x, c)'
    <3>1. lock[c] = x <=> Holds(x, c)
      BY <1>0 DEF Locks
    <3>2. CASE x = t
      BY <3>1, <3>2, <2>2, <2>5, <2>6
    <3>3. CASE x # t
      BY <3>1, <3>3, <2>1, <2>6, <2>7, <1>4
    <3> QED
      BY <3>2, <3>3
  <2> QED
    BY <2>8, <2>9
<1>13. Counted'
  <2>1. \A c : Lookers(c)' = Lookers(c)
    BY <1>1, LookersSame
  <2>2. \A x \in Wakers : k'[x].op = k[x].op /\ k'[x].g = k[x].g
    BY <1>2, <1>6, <1>7
  <2>3. \A x \in Wakers : k'[x].pc \in {"key", "idle"} <=> k[x].pc \in {"key", "idle"}
    BY <1>1, <1>6, <1>7
  <2>4. \A c : Announcers(c)' = Announcers(c)
    BY <2>2, <2>3, AnnouncersSame
  <2> QED
    BY <1>0, <1>1, <2>1, <2>4 DEF Counted
<1>14. Owes'
  <2>1. Coming(t) = {}
    BY <1>1 DEF Coming
  <2>2. owed' \in [Wakers -> SUBSET Waiters]
    BY <1>9 DEF TypeOK
  <2>3. k'[t].op # "wake" \/ k'[t].pc \in {"idle", "key"} => owed'[t] = {}
    BY <1>0, <1>1, <1>2, <1>6, <1>7 DEF Owes
  <2>4. ~(k'[t].pc = "return")
    BY <1>6, <1>7
  <2>5. /\ k'[t].f = k[t].f /\ k'[t].bits = k[t].bits
        /\ \A v \in owed'[t] : w[v].bits \cap k[t].bits # {} /\ Findable(v, k[t].f)
    BY <1>0, <1>1, <1>2, <1>6, <1>7 DEF Owes
  <2> QED
    BY <1>0, <1>1, <1>7, <2>1, <2>2, <2>3, <2>4, <2>5, KOwes
<1> QED
  BY <1>7, <1>9, <1>10, <1>11, <1>12, <1>13, <1>14 DEF IInv

LEMMA ScanIInv ==
  ASSUME IInv, NEW t \in Wakers, Scan(t)
  PROVE  IInv'
<1>0. TypeOK /\ Calling /\ Waking /\ Places /\ Locks /\ Counted /\ Owes
  BY DEF IInv
<1>1. /\ k[t].pc \in {"lock", "lock2"} /\ \A b \in {B1(t), B2(t)} : lock[b] \in {None, t}
      /\ UNCHANGED <<waiters, chain, w, owed, count>>
  BY DEF Scan, LastFree
<1>2. PICK r \in WakerState, b1 \in Buckets, b2 \in Buckets :
        /\ r = k[t] /\ Rouse(r) /\ r.f \in Futexes /\ r.g \in Futexes
        /\ b1 = B1(t) /\ b1 = Hash[r.f] /\ b2 = B2(t) /\ b2 = Hash[r.g]
  BY <1>0, <1>1, CallerIs
<1>3. PICK s : /\ \/ s = [r EXCEPT !.pc = "next"]
                  \/ s = [r EXCEPT !.pc = "unlock"] /\ r.op = "cmp"
               /\ Turns(t, s)
  BY <1>2 DEF Scan
<1>4. lock' = [b \in Buckets |-> IF b \in {b1, b2} THEN t ELSE lock[b]]
  BY <1>2 DEF Scan
<1>5. /\ s \in WakerState /\ Rouse(s) /\ s.pc \in {"next", "unlock"} /\ s.op = r.op /\ s.f = r.f
      /\ s.g = r.g /\ s.bits = r.bits
  BY <1>1, <1>2, <1>3 DEF WakerState, Rouse
<1>6. /\ k' \in [Wakers -> WakerState] /\ Waking' /\ k'[t] = s
      /\ \A x \in Wakers \ {t} : k'[x] = k[x]
  BY <1>0, <1>3, <1>5, OneWaker
<1>7. word' \in [Futexes -> Nat]
  <2>1. word \in [Futexes -> Nat]
    BY <1>0 DEF TypeOK
  <2>2. word' = word \/ word' = [word EXCEPT ![r.g] = @ + 1]
    BY <1>2 DEF Scan
  <2> QED
    BY <2>1, <2>2, <1>2
<1>8. lock' \in [Buckets -> Maybe(Waiters \cup Wakers)]
  <2>1. lock \in [Buckets -> Maybe(Waiters \cup Wakers)]
    BY <1>0 DEF TypeOK
  <2> QED
    BY <2>1, <1>4 DEF Maybe
<1>9. TypeOK'
  BY <1>0, <1>1, <1>6, <1>7, <1>8 DEF TypeOK
<1>10. Calling'
  BY <1>0, <1>1 DEF Calling
<1>11. Places'
  BY <1>0, <1>1, <1>5, <1>6, KPlaces
<1>12. Locks'
  <2>1. \A x \in Wakers \ {t} : \A c : Holds(x, c)' = Holds(x, c)
    BY <1>6 DEF Holds, B1, B2, Low
  <2>2. \A c : Holds(t, c) => c \in {b1, b2}
    BY <1>1, <1>2 DEF Holds, Inside, Low
  <2>3. B1(t)' = b1 /\ B2(t)' = b2
    BY <1>2, <1>5, <1>6 DEF B1, B2
  <2>4. \A c : Holds(t, c)' <=> c \in {b1, b2}
    BY <2>3, <1>5, <1>6 DEF Holds, Inside
  <2> SUFFICES ASSUME NEW c \in Buckets
               PROVE  /\ \A v \in Waiters : lock'[c] = v <=> w'[v].pc = "queue" /\ w'[v].ptr = c
                      /\ \A x \in Wakers : lock'[c] = x <=> Holds(x, c)'
    BY DEF Locks
  <2>5. lock'[c] = IF c \in {b1, b2} THEN t ELSE lock[c]
    BY <1>4
  <2>6. None \notin Waiters /\ None \notin Wakers /\ t \notin Waiters
    BY Ground
  <2>7. c \in {b1, b2} => lock[c] \in {None, t}
    BY <1>1, <1>2
  <2>8. ASSUME NEW v \in Waiters PROVE lock'[c] = v <=> w'[v].pc = "queue" /\ w'[v].ptr = c
    <3>1. lock[c] = v <=> w[v].pc = "queue" /\ w[v].ptr = c
      BY <1>0 DEF Locks
    <3> QED
      BY <3>1, <2>5, <2>6, <2>7, <1>1
  <2>9. ASSUME NEW x \in Wakers PROVE lock'[c] = x <=> Holds(x, c)'
    <3>1. lock[c] = x <=> Holds(x, c)
      BY <1>0 DEF Locks
    <3>2. CASE x = t
      BY <3>1, <3>2, <2>2, <2>4, <2>5
    <3>3. CASE x # t
      BY <3>1, <3>3, <2>1, <2>5, <2>6, <2>7
    <3> QED
      BY <3>2, <3>3
  <2> QED
    BY <2>8, <2>9
<1>13. Counted'
  <2>1. \A c : Lookers(c)' = Lookers(c)
    BY <1>1, LookersSame
  <2>2. \A x \in Wakers : k'[x].op = k[x].op /\ k'[x].g = k[x].g
    BY <1>2, <1>5, <1>6
  <2>3. \A x \in Wakers : k'[x].pc \in {"key", "idle"} <=> k[x].pc \in {"key", "idle"}
    BY <1>1, <1>5, <1>6
  <2>4. \A c : Announcers(c)' = Announcers(c)
    BY <2>2, <2>3, AnnouncersSame
  <2> QED
    BY <1>0, <1>1, <2>1, <2>4 DEF Counted
<1>14. Owes'
  <2>1. Coming(t) = {}
    BY <1>1 DEF Coming
  <2>2. owed' \in [Wakers -> SUBSET Waiters]
    BY <1>9 DEF TypeOK
  <2>3. k'[t].op # "wake" \/ k'[t].pc \in {"idle", "key"} => owed'[t] = {}
    BY <1>0, <1>1, <1>2, <1>5, <1>6 DEF Owes
  <2>4. ~(k'[t].pc = "return")
    BY <1>5, <1>6
  <2>5. /\ k'[t].f = k[t].f /\ k'[t].bits = k[t].bits
        /\ \A v \in owed'[t] : w[v].bits \cap k[t].bits # {} /\ Findable(v, k[t].f)
    BY <1>0, <1>1, <1>2, <1>5, <1>6 DEF Owes
  <2> QED
    BY <1>0, <1>1, <1>6, <2>1, <2>2, <2>3, <2>4, <2>5, KOwes
<1> QED
  BY <1>6, <1>9, <1>10, <1>11, <1>12, <1>13, <1>14 DEF IInv

\* A requeue gives up its place, and is no longer counted for its target.
LEMMA QuitCounted ==
  ASSUME TypeOK, Waking, Counted, UNCHANGED <<chain, w>>, NEW t \in Wakers,
         \A x \in Wakers \ {t} : k'[x] = k[x],
         k'[t].pc \in {"key", "idle"}, k[t].pc \notin {"key", "idle"},
         waiters' = [waiters EXCEPT ![B2(t)] = @ - Announced(t)]
  PROVE  Counted' /\ waiters' \in [Buckets -> Nat]
<1>1. PICK b \in Buckets : b = B2(t)
  BY WakerIs
<1>2. PICK n \in {0, 1} : n = Announced(t)
  BY DEF Announced
<1>3. waiters \in [Buckets -> Nat] /\ waiters' = [waiters EXCEPT ![b] = @ - n]
  BY <1>1, <1>2 DEF TypeOK
<1>4. /\ \A c : Cardinality(Announcers(c)') = Cardinality(Announcers(c)) - (IF c = b THEN n ELSE 0)
      /\ Cardinality(Announcers(b)) >= n
  BY <1>1, <1>2, AnnouncersLose
<1>5. waiters[b] >= n
  BY <1>4, CountedIs
<1>6. waiters[b] - n \in Nat
  BY <1>3, <1>5
<1>7. waiters' \in [Buckets -> Nat] /\ \A c \in Buckets : waiters'[c] = waiters[c] - (IF c = b THEN n ELSE 0)
  <2>1. waiters' \in [Buckets -> Nat]
    BY <1>3, <1>6
  <2>2. \A c \in Buckets : waiters'[c] = IF c = b THEN waiters[b] - n ELSE waiters[c]
    BY <1>3
  <2>3. \A c \in Buckets : waiters[c] - 0 = waiters[c]
    BY <1>3
  <2> QED
    BY <2>1, <2>2, <2>3
<1>8. ASSUME NEW c \in Buckets
      PROVE  waiters'[c] = Len(chain'[c]) + Cardinality(Lookers(c)') + Cardinality(Announcers(c)')
  <2>1. /\ waiters[c] = Len(chain[c]) + Cardinality(Lookers(c)) + Cardinality(Announcers(c))
        /\ waiters[c] \in Nat /\ Len(chain[c]) \in Nat
        /\ Cardinality(Lookers(c)) \in Nat /\ Cardinality(Announcers(c)) \in Nat
    BY CountedIs
  <2>2. Lookers(c)' = Lookers(c)
    BY LookersSame
  <2>3. CASE c = b
    BY <2>1, <2>2, <2>3, <1>4, <1>7, SMTT(60)
  <2>4. CASE c # b
    BY <2>1, <2>2, <2>4, <1>4, <1>7
  <2> QED
    BY <2>3, <2>4
<1> QED
  BY <1>7, <1>8 DEF Counted

LEMMA FaultIInv ==
  ASSUME IInv, NEW t \in Wakers, Fault(t)
  PROVE  IInv'
<1>0. TypeOK /\ Calling /\ Waking /\ Places /\ Locks /\ Counted /\ Owes
  BY DEF IInv
<1>1. /\ k[t].pc \in {"lock", "lock2"} /\ k[t].op \in {"cmp", "op"} /\ Spend("signals", MaxSignals)
      /\ lock' = Unlocked(t) /\ waiters' = [waiters EXCEPT ![B2(t)] = @ - Announced(t)]
      /\ UNCHANGED <<word, chain, w, owed>>
  BY DEF Fault, LastFree
<1>2. PICK r \in WakerState, b1 \in Buckets, b2 \in Buckets :
        /\ r = k[t] /\ Rouse(r) /\ r.f \in Futexes /\ r.g \in Futexes
        /\ b1 = B1(t) /\ b1 = Hash[r.f] /\ b2 = B2(t) /\ b2 = Hash[r.g]
  BY <1>0, <1>1, CallerIs
<1> DEFINE s == [r EXCEPT !.pc = "key"]
<1>3. Turns(t, s)
  BY <1>2 DEF Fault
<1>4. /\ s \in WakerState /\ Rouse(s) /\ s.pc = "key" /\ s.op = r.op
  BY <1>1, <1>2 DEF WakerState, Rouse
<1> HIDE DEF s
<1>5. /\ k' \in [Wakers -> WakerState] /\ Waking' /\ k'[t] = s
      /\ \A x \in Wakers \ {t} : k'[x] = k[x]
  BY <1>0, <1>3, <1>4, OneWaker
<1>6. Locks' /\ lock' \in [Buckets -> Maybe(Waiters \cup Wakers)]
  <2>1. k'[t].pc \notin Inside \cup {"lock2"}
    BY <1>4, <1>5 DEF Inside
  <2> QED
    BY <1>0, <1>1, <1>5, <2>1, UnlockedLocks
<1>7. Counted' /\ waiters' \in [Buckets -> Nat]
  BY <1>0, <1>1, <1>4, <1>5, QuitCounted
<1>8. count' \in [{"waits", "posts", "signals"} -> Nat]
  BY <1>0, <1>1, SpendIs
<1>9. TypeOK'
  BY <1>0, <1>1, <1>5, <1>6, <1>7, <1>8 DEF TypeOK
<1>10. Calling'
  BY <1>0, <1>1 DEF Calling
<1>11. Places'
  BY <1>0, <1>1, <1>4, <1>5, KPlaces
<1>12. Owes'
  <2>1. Coming(t) = {} /\ owed[t] = {} /\ owed' \in [Wakers -> SUBSET Waiters]
    BY <1>0, <1>1, <1>9 DEF Coming, Owes, TypeOK
  <2> QED
    BY <1>0, <1>1, <1>5, <2>1, KOwes
<1> QED
  BY <1>5, <1>6, <1>7, <1>9, <1>10, <1>11, <1>12 DEF IInv

LEMMA ReturnIInv ==
  ASSUME IInv, NEW t \in Wakers, Return(t)
  PROVE  IInv'
<1>0. TypeOK /\ Calling /\ Waking /\ Places /\ Locks /\ Counted /\ Owes
  BY DEF IInv
<1>1. /\ k[t].pc = "return" /\ waiters' = [waiters EXCEPT ![B2(t)] = @ - Announced(t)]
      /\ Turns(t, Rest) /\ owed' = [owed EXCEPT ![t] = {}]
      /\ UNCHANGED <<word, chain, lock, w, count>>
  BY DEF Return
<1>2. Rest \in WakerState /\ Rouse(Rest) /\ Rest.pc = "idle"
  BY DEF Rest, WakerState, Maybe, Rouse
<1>3. /\ k' \in [Wakers -> WakerState] /\ Waking' /\ k'[t] = Rest
      /\ \A x \in Wakers \ {t} : k'[x] = k[x]
  BY <1>0, <1>1, <1>2, OneWaker
<1>4. Counted' /\ waiters' \in [Buckets -> Nat]
  BY <1>0, <1>1, <1>2, <1>3, QuitCounted
<1>5. owed' \in [Wakers -> SUBSET Waiters] /\ owed'[t] = {} /\ \A x \in Wakers \ {t} : owed'[x] = owed[x]
  BY <1>0, <1>1 DEF TypeOK
<1>6. TypeOK'
  BY <1>0, <1>1, <1>3, <1>4, <1>5 DEF TypeOK
<1>7. Calling'
  BY <1>0, <1>1 DEF Calling
<1>8. Places'
  BY <1>0, <1>1, <1>2, <1>3, KPlaces
<1>9. Locks'
  <2>1. k[t].pc \notin Inside \cup {"lock2"} /\ k'[t].pc \notin Inside \cup {"lock2"}
    BY <1>1, <1>2, <1>3 DEF Inside
  <2> QED
    BY <1>0, <1>1, <1>3, <2>1, KLocks
<1>10. Owes'
  <2>1. Coming(t) = {}
    BY <1>1 DEF Coming
  <2> QED
    BY <1>0, <1>1, <1>3, <1>5, <2>1, KOwes
<1> QED
  BY <1>3, <1>4, <1>6, <1>7, <1>8, <1>9, <1>10 DEF IInv

\* A wake that has found all there is has left nobody whom it owes a wakeup.
LEMMA NobodyLeft ==
  ASSUME TypeOK, Calling, Waking, Places, Locks, Owes, NEW t \in Wakers,
         k[t].pc = "next", k[t].op = "wake", Found(t, k[t].f) = {}
  PROVE  owed[t] = {}
<1>1. lock[B1(t)] = t /\ B1(t) \in Buckets /\ t \notin Waiters
  BY HeldIs, Ground DEF Inside
<1>2. ASSUME NEW v \in owed[t] PROVE FALSE
  <2>1. v \in Waiters /\ w[v].bits \cap k[t].bits # {} /\ Findable(v, k[t].f)
    BY <1>2 DEF Owes, TypeOK
  <2>2. CASE w[v].key = k[t].f /\ w[v].pc = "queue"
    <3>1. w[v].ptr = B1(t)
      BY <2>1, <2>2, LookerIs DEF B1
    <3>2. lock[B1(t)] = v
      BY <2>1, <2>2, <3>1, <1>1 DEF Locks
    <3> QED
      BY <2>1, <3>2, <1>1
  <2>3. CASE w[v].key = k[t].f /\ Queued(v)
    <3>1. v \in ToSet(chain[Hash[k[t].f]])
      BY <2>3, QueuedIs
    <3>2. v \in Found(t, k[t].f)
      BY <2>1, <2>3, <3>1 DEF Found
    <3> QED
      BY <3>2
  <2>4. ASSUME NEW y \in Wakers, k[y].g = k[t].f, v \in Coming(y) PROVE FALSE
    <3>1. k[y].pc \in {"next", "add"} /\ Requeues(y) /\ B2(y) = B1(t)
      BY <2>4, ComingIs DEF B1, B2
    <3>2. lock[B2(y)] = y
      BY <3>1, HeldIs DEF Inside
    <3>3. y = t
      BY <3>1, <3>2, <1>1
    <3> QED
      BY <3>1, <3>3 DEF Requeues
  <2> QED
    BY <2>1, <2>2, <2>3, <2>4 DEF Findable
<1> QED
  BY <1>2

LEMMA UnlockIInv ==
  ASSUME IInv, NEW t \in Wakers, Unlock(t)
  PROVE  IInv'
<1>0. TypeOK /\ Calling /\ Waking /\ Places /\ Locks /\ Counted /\ Owes
  BY DEF IInv
<1>1. /\ \/ k[t].pc = "unlock"
         \/ k[t].pc = "next" /\ ~Wakes(t) /\ ~Moves(t)
      /\ lock' = Unlocked(t) /\ UNCHANGED <<word, waiters, chain, w, owed, count>>
  BY DEF Unlock
<1>2. PICK r \in WakerState, b1 \in Buckets, b2 \in Buckets :
        /\ r = k[t] /\ Rouse(r) /\ r.f \in Futexes /\ r.g \in Futexes
        /\ b1 = B1(t) /\ b1 = Hash[r.f] /\ b2 = B2(t) /\ b2 = Hash[r.g]
  BY <1>0, <1>1, CallerIs
<1> DEFINE s == [r EXCEPT !.pc = "return"]
<1>3. Turns(t, s)
  BY <1>2 DEF Unlock
<1>4. /\ s \in WakerState /\ Rouse(s) /\ s.pc = "return" /\ s.op = r.op /\ s.f = r.f /\ s.g = r.g
      /\ s.bits = r.bits /\ s.found = r.found /\ s.n = r.n
  BY <1>1, <1>2 DEF WakerState, Rouse
<1> HIDE DEF s
<1>5. /\ k' \in [Wakers -> WakerState] /\ Waking' /\ k'[t] = s
      /\ \A x \in Wakers \ {t} : k'[x] = k[x]
  BY <1>0, <1>3, <1>4, OneWaker
<1>6. Locks' /\ lock' \in [Buckets -> Maybe(Waiters \cup Wakers)]
  <2>1. k'[t].pc \notin Inside \cup {"lock2"}
    BY <1>4, <1>5 DEF Inside
  <2> QED
    BY <1>0, <1>1, <1>5, <2>1, UnlockedLocks
<1>7. TypeOK'
  BY <1>0, <1>1, <1>5, <1>6 DEF TypeOK
<1>8. Calling'
  BY <1>0, <1>1 DEF Calling
<1>9. Places'
  BY <1>0, <1>1, <1>4, <1>5, KPlaces
<1>10. Counted'
  <2>1. \A c : Lookers(c)' = Lookers(c)
    BY <1>1, LookersSame
  <2>2. \A x \in Wakers : k'[x].op = k[x].op /\ k'[x].g = k[x].g
    BY <1>2, <1>4, <1>5
  <2>3. \A x \in Wakers : k'[x].pc \in {"key", "idle"} <=> k[x].pc \in {"key", "idle"}
    BY <1>1, <1>4, <1>5
  <2>4. \A c : Announcers(c)' = Announcers(c)
    BY <2>2, <2>3, AnnouncersSame
  <2> QED
    BY <1>0, <1>1, <2>1, <2>4 DEF Counted
<1>11. Owes'
  <2>1. Coming(t) = {}
    <3>1. CASE k[t].pc = "unlock"
      BY <3>1 DEF Coming
    <3>2. CASE k[t].pc = "next" /\ ~Moves(t)
      <4>1. ASSUME NEW v \in Coming(t) PROVE FALSE
        <5>1. PICK S : S = {u \in Found(t, k[t].f) : Ahead(k[t].f, u, v)}
          OBVIOUS
        <5>2. /\ Requeues(t) /\ k[t].n <= k[t].found /\ v \in Found(t, k[t].f)
              /\ k[t].found + Cardinality(S) < k[t].n + k[t].m
          BY <4>1, <5>1, <3>2 DEF Coming
        <5>3. Cardinality(S) \in Nat
          <6>1. Found(t, k[t].f) \subseteq Waiters
            BY <1>0, <1>2, ChainIs DEF Found, B1
          <6>2. IsFiniteSet(S)
            BY <5>1, <6>1, FS_Subset, FutexAssumption
          <6> QED
            BY <6>2, FS_CardinalityType
        <5>4. k[t].found \in Nat /\ k[t].n \in Nat /\ k[t].m \in Nat
          BY <1>2 DEF WakerState
        <5>5. k[t].found < k[t].n + k[t].m
          BY <5>2, <5>3, <5>4
        <5> QED
          BY <5>2, <5>5, <3>2 DEF Moves
      <4> QED
        BY <4>1
    <3> QED
      BY <1>1, <3>1, <3>2
  <2>2. owed' \in [Wakers -> SUBSET Waiters]
    BY <1>7 DEF TypeOK
  <2>3. k'[t].op # "wake" \/ k'[t].pc \in {"idle", "key"} => owed'[t] = {}
    BY <1>0, <1>1, <1>2, <1>4, <1>5 DEF Owes
  <2>4. k'[t].found < Quota(t)' => owed'[t] = {}
    <3>1. Quota(t)' = Quota(t)
      BY <1>2, <1>4, <1>5 DEF Quota, Requeues
    <3>2. CASE k[t].op # "wake"
      BY <3>2, <1>0, <1>1 DEF Owes
    <3>3. CASE k[t].op = "wake"
      <4>1. k[t].pc = "next" /\ ~Wakes(t)
        BY <3>3, <1>1, <1>2 DEF Rouse
      <4>2. k[t].found < Quota(t) => Found(t, k[t].f) = {}
        BY <4>1 DEF Wakes
      <4> QED
        BY <3>1, <3>3, <4>1, <4>2, <1>0, <1>1, <1>2, <1>4, <1>5, NobodyLeft
    <3> QED
      BY <3>2, <3>3
  <2>5. /\ k'[t].f = k[t].f /\ k'[t].bits = k[t].bits
        /\ \A v \in owed'[t] : w[v].bits \cap k[t].bits # {} /\ Findable(v, k[t].f)
    BY <1>0, <1>1, <1>2, <1>4, <1>5 DEF Owes
  <2> QED
    BY <1>0, <1>1, <1>5, <2>1, <2>2, <2>3, <2>4, <2>5, KOwes
<1> QED
  BY <1>5, <1>6, <1>7, <1>8, <1>9, <1>10, <1>11 DEF IInv

(***************************************************************************)
(* Steps of a waker under the locks.                                       *)
(***************************************************************************)

LEMMA InsideLocks ==
  ASSUME Locks, lock' = lock, NEW t \in Wakers, \A x \in Wakers \ {t} : k'[x] = k[x],
         k[t].pc \in Inside, k'[t].pc \in Inside, k'[t].f = k[t].f, k'[t].g = k[t].g,
         \A v \in Waiters : w'[v].pc = w[v].pc,
         \A v \in Waiters : w[v].pc = "queue" => w'[v].ptr = w[v].ptr
  PROVE  Locks'
<1>1. \A x \in Wakers : \A b : Holds(x, b)' = Holds(x, b)
  <2> TAKE x \in Wakers
  <2> TAKE b
  <2>1. CASE x = t
    BY <2>1 DEF Holds, B1, B2, Low, Inside
  <2>2. CASE x # t
    BY <2>2 DEF Holds, B1, B2, Low
  <2> QED
    BY <2>1, <2>2
<1> QED
  BY <1>1 DEF Locks

\* What a step of wake_futex or requeue_futex does to the waker.
Working(t, s) ==
  /\ k' \in [Wakers -> WakerState] /\ Waking' /\ k'[t] = s
  /\ \A x \in Wakers \ {t} : k'[x] = k[x]
  /\ s.pc \in Inside /\ s.op = k[t].op /\ s.f = k[t].f /\ s.g = k[t].g /\ s.n = k[t].n
  /\ s.m = k[t].m /\ s.bits = k[t].bits

LEMMA WorkingIs ==
  ASSUME NEW t \in Wakers, NEW s, Working(t, s), k[t].pc \in Inside
  PROVE  /\ \A x \in Wakers : /\ B1(x)' = B1(x) /\ B2(x)' = B2(x)
                              /\ Requeues(x)' = Requeues(x) /\ Quota(x)' = Quota(x)
                              /\ k'[x].f = k[x].f /\ k'[x].g = k[x].g /\ k'[x].op = k[x].op
                              /\ k'[x].bits = k[x].bits
         /\ \A c : Announcers(c)' = Announcers(c)
         /\ k'[t].pc \notin {"idle", "key", "return"}
<1>1. \A x \in Wakers : /\ k'[x].f = k[x].f /\ k'[x].g = k[x].g /\ k'[x].op = k[x].op
                        /\ k'[x].bits = k[x].bits /\ k'[x].n = k[x].n
  BY DEF Working
<1>2. \A x \in Wakers : /\ B1(x)' = B1(x) /\ B2(x)' = B2(x)
                        /\ Requeues(x)' = Requeues(x) /\ Quota(x)' = Quota(x)
  BY <1>1 DEF B1, B2, Requeues, Quota
<1>3. \A x \in Wakers : k'[x].pc \in {"key", "idle"} <=> k[x].pc \in {"key", "idle"}
  BY DEF Working, Inside
<1>4. \A c : Announcers(c)' = Announcers(c)
  BY <1>1, <1>3, AnnouncersSame
<1> QED
  BY <1>1, <1>2, <1>4 DEF Working, Inside

\* Whom somebody owes a wakeup is still found, when such a step leaves no one
\* on the way.
LEMMA WorkingOwes ==
  ASSUME TypeOK, Waking, Owes, NEW t \in Wakers, NEW s, Working(t, s), k[t].pc \in Inside,
         \A x \in Wakers : owed'[x] \subseteq owed[x],
         \A x \in Wakers : \A v \in owed'[x] :
           w'[v].bits = w[v].bits /\ (Findable(v, k[x].f) => Findable(v, k[x].f)')
  PROVE  Owes'
<1>1. ASSUME NEW x \in Wakers
      PROVE  /\ k'[x].op # "wake" \/ k'[x].pc \in {"idle", "key"} => owed'[x] = {}
             /\ \A v \in owed'[x] : w'[v].bits \cap k'[x].bits # {} /\ Findable(v, k[x].f)'
             /\ k'[x].pc = "return" /\ k'[x].found < Quota(x)' => owed'[x] = {}
  <2>1. /\ Quota(x)' = Quota(x) /\ k'[x].op = k[x].op /\ k'[x].bits = k[x].bits
        /\ x # t => k'[x] = k[x]
        /\ k'[t].pc \notin {"idle", "key", "return"}
    BY WorkingIs DEF Working
  <2>2. /\ k[x].op # "wake" \/ k[x].pc \in {"idle", "key"} => owed[x] = {}
        /\ \A v \in owed[x] : w[v].bits \cap k[x].bits # {} /\ Findable(v, k[x].f)
        /\ k[x].pc = "return" /\ k[x].found < Quota(x) => owed[x] = {}
    BY DEF Owes
  <2>3. \A v \in owed'[x] : /\ v \in owed[x] /\ w'[v].bits = w[v].bits
                            /\ Findable(v, k[x].f) => Findable(v, k[x].f)'
    OBVIOUS
  <2>4. owed'[x] \subseteq owed[x]
    OBVIOUS
  <2>5. \A v \in owed'[x] : w'[v].bits \cap k'[x].bits # {} /\ Findable(v, k[x].f)'
    BY <2>1, <2>2, <2>3
  <2>6. k'[x].op # "wake" \/ k'[x].pc \in {"idle", "key"} => owed'[x] = {}
    BY <2>1, <2>2, <2>4
  <2>7. k'[x].pc = "return" /\ k'[x].found < Quota(x)' => owed'[x] = {}
    BY <2>1, <2>2, <2>4
  <2> QED
    BY <2>5, <2>6, <2>7
<1> QED
  BY <1>1 DEF Owes

\* The chains are as they were, and so is what their waiters wait for.
LEMMA HandOwes ==
  ASSUME TypeOK, Waking, Owes, chain' = chain, owed' = owed,
         NEW t \in Wakers, NEW s, Working(t, s), k[t].pc \in {"null", "wake"},
         \A v \in Waiters : w'[v].key = w[v].key /\ w'[v].bits = w[v].bits /\ w'[v].pc = w[v].pc,
         Places
  PROVE  Owes'
<1>1. k[t].pc \in Inside /\ Coming(t) = {}
  BY DEF Inside, Coming
<1>2. ASSUME NEW x \in Wakers \ {t} PROVE Coming(x)' = Coming(x)
  <2>1. k[x].pc \in {"next", "add"} => B1(x) \in Buckets
    BY WakerIs
  <2>2. k[x].pc \in {"next", "add"} =>
          \A v \in ToSet(chain[B1(x)]) : w'[v].key = w[v].key /\ w'[v].bits = w[v].bits
    BY <2>1, ChainIs
  <2>3. k'[x] = k[x]
    BY DEF Working
  <2> QED
    BY <2>2, <2>3, ComingSame
<1>3. \A v : Queued(v)' = Queued(v)
  BY DEF Queued
<1>4. \A x \in Wakers : k'[x].f = k[x].f /\ k'[x].g = k[x].g
  BY <1>1, WorkingIs
<1>5. ASSUME NEW x \in Wakers, NEW v \in owed'[x]
      PROVE  w'[v].bits = w[v].bits /\ (Findable(v, k[x].f) => Findable(v, k[x].f)')
  <2>1. v \in Waiters
    BY <1>5 DEF TypeOK
  <2> QED
    BY <2>1, <1>1, <1>2, <1>3, <1>4 DEF Findable
<1> QED
  BY <1>1, <1>5, WorkingOwes

\* No two wakers have the same waiter in hand.
LEMMA HandAlone ==
  ASSUME TypeOK, Waking, Places, Locks, NEW t \in Wakers, k[t].pc \in {"null", "add"},
         NEW x \in Wakers, k[x].pc \in {"null", "add"}, k[x].who = k[t].who
  PROVE  x = t
<1>1. Hand(t) /\ Hand(x)
  BY DEF Places
<1>2. w[k[t].who].ptr \in {B1(t), B2(t)} /\ w[k[t].who].ptr \in {B1(x), B2(x)}
  BY <1>1 DEF Hand
<1>3. /\ lock[B1(t)] = t /\ lock[B2(t)] = t /\ lock[B1(x)] = x /\ lock[B2(x)] = x
  BY HeldIs DEF Inside
<1> QED
  BY <1>2, <1>3

LEMMA ReleaseIInv ==
  ASSUME IInv, NEW t \in Wakers, Release(t)
  PROVE  IInv'
<1>0. TypeOK /\ Calling /\ Waking /\ Places /\ Locks /\ Counted /\ Owes
  BY DEF IInv
<1>1. k[t].pc = "null" /\ UNCHANGED <<word, waiters, chain, lock, owed, count>>
  BY DEF Release, hash
<1>2. PICK q \in WakerState : q = k[t] /\ Rouse(q)
  BY <1>0, WakerIs
<1>3. PICK v \in Waiters : v = k[t].who /\ Hand(t)
  BY <1>0, <1>1, <1>2 DEF Rouse, Places
<1>4. PICK r \in WaiterState : r = w[v] /\ Call(v, r) /\ r.pc \in InCall /\ r.given
  BY <1>0, <1>1, <1>3, RecordIs DEF Hand
<1> DEFINE s == [q EXCEPT !.pc = "wake"]
           e == [r EXCEPT !.ptr = None]
<1>5. Turns(t, s) /\ Becomes(v, e)
  BY <1>2, <1>3, <1>4 DEF Release
<1>6. /\ s \in WakerState /\ Rouse(s) /\ s.pc = "wake" /\ s.who = v /\ s.pc \in Inside
      /\ s.op = k[t].op /\ s.f = k[t].f /\ s.g = k[t].g /\ s.n = k[t].n
      /\ s.m = k[t].m /\ s.bits = k[t].bits
  BY <1>1, <1>2, <1>3 DEF WakerState, Rouse, Inside
<1>7. /\ e \in WaiterState /\ Call(v, e) /\ e.ptr = None /\ e.pc = r.pc /\ e.key = r.key
      /\ e.bits = r.bits /\ e.given /\ e.given = r.given /\ e.addr = r.addr
  BY <1>4 DEF WaiterState, Call, InCall, Out, Maybe
<1> HIDE DEF s, e
<1>8. Working(t, s)
  <2>1. /\ k' \in [Wakers -> WakerState] /\ Waking' /\ k'[t] = s /\ \A x \in Wakers \ {t} : k'[x] = k[x]
    BY <1>0, <1>5, <1>6, OneWaker
  <2> QED
    BY <2>1, <1>6 DEF Working
<1>9. /\ w' \in Tasks /\ Calling' /\ w'[v] = e /\ \A u \in Waiters \ {v} : w'[u] = w[u]
  BY <1>0, <1>5, <1>7, OneWaiter
<1>10. /\ k[t].pc \in Inside /\ k'[t] = s /\ \A x \in Wakers \ {t} : k'[x] = k[x]
       /\ k' \in [Wakers -> WakerState] /\ Waking'
  BY <1>1, <1>8 DEF Inside, Working
<1>11. TypeOK'
  BY <1>0, <1>1, <1>9, <1>10 DEF TypeOK, Tasks
<1>12. /\ \A x \in Wakers : B1(x)' = B1(x) /\ B2(x)' = B2(x) /\ Requeues(x)' = Requeues(x)
       /\ \A c : Announcers(c)' = Announcers(c)
  BY <1>8, <1>10, WorkingIs
<1>13. \A u \in Waiters : /\ w'[u].pc = w[u].pc /\ w'[u].key = w[u].key /\ w'[u].bits = w[u].bits
                          /\ w'[u].addr = w[u].addr /\ w'[u].given = w[u].given
                          /\ u # v => w'[u] = w[u]
  BY <1>4, <1>7, <1>9
<1>14. \A u : Queued(u)' = Queued(u)
  BY <1>1 DEF Queued
<1>15. ~Queued(v)
  BY <1>0, <1>4, QueuedIs
<1>16. Places'
  <2>1. ASSUME NEW c \in Buckets, NEW u \in ToSet(chain'[c]) PROVE OnChain(u, c)'
    <3>1. u \in Waiters /\ OnChain(u, c) /\ u # v
      BY <1>0, <1>1, <1>15, <2>1, ChainIs
    <3> QED
      BY <3>1, <1>13 DEF OnChain
  <2>2. \A c \in Buckets : IsInjective(chain'[c])
    BY <1>0, <1>1, ChainIs
  <2>3. \A x \in Wakers : Hand(x)'
    <3> TAKE x \in Wakers
    <3>1. CASE x = t
      BY <3>1, <1>6, <1>10 DEF Hand
    <3>2. CASE x # t
      <4>1. k'[x] = k[x] /\ Hand(x)
        BY <3>2, <1>0, <1>10 DEF Places
      <4>2. k[x].pc \in {"null", "add"} => k[x].who \in Waiters /\ k[x].who # v
        BY <3>2, <1>0, <1>1, <1>3, HandAlone, WakerIs DEF Rouse
      <4> QED
        BY <4>1, <4>2, <1>12, <1>13, <1>14 DEF Hand
    <3> QED
      BY <3>1, <3>2
  <2>4. ASSUME NEW u \in Waiters
        PROVE  /\ w'[u].pc \in InCall =>
                    Queued(u)' \/ w'[u].given \/ \E x \in Wakers : k'[x].pc = "add" /\ k'[x].who = u
               /\ w'[u].given /\ w'[u].ptr # None => \E x \in Wakers : k'[x].pc = "null" /\ k'[x].who = u
               /\ w'[u].given /\ w'[u].asleep =>
                    \E x \in Wakers : k'[x].pc \in {"null", "wake"} /\ k'[x].who = u
    <3>1. CASE u = v
      BY <3>1, <1>6, <1>7, <1>9, <1>10
    <3>2. CASE u # v
      <4>1. w'[u] = w[u] /\ k[t].who # u /\ k[t].pc # "add"
        BY <3>2, <1>1, <1>3, <1>13
      <4> QED
        BY <4>1, <1>0, <1>10, <1>14 DEF Places
    <3> QED
      BY <3>1, <3>2
  <2> QED
    BY <2>1, <2>2, <2>3, <2>4 DEF Places
<1>17. Locks'
  <2>1. /\ k'[t].pc \in Inside /\ k'[t].f = k[t].f /\ k'[t].g = k[t].g
    BY <1>6, <1>10
  <2>2. \A u \in Waiters : w[u].pc = "queue" => w'[u].ptr = w[u].ptr
    <3>1. w[v].pc # "queue"
      BY <1>4 DEF InCall
    <3> QED
      BY <3>1, <1>13
  <2> QED
    BY <1>0, <1>1, <1>10, <1>13, <2>1, <2>2, InsideLocks
<1>18. Counted'
  <2>1. \A c : Lookers(c)' = Lookers(c)
    BY <1>13, LookersSame
  <2> QED
    BY <2>1, <1>0, <1>1, <1>12 DEF Counted
<1>19. Owes'
  BY <1>0, <1>1, <1>8, <1>13, HandOwes
<1> QED
  BY <1>9, <1>10, <1>11, <1>16, <1>17, <1>18, <1>19 DEF IInv

LEMMA WakeUpIInv ==
  ASSUME IInv, NEW t \in Wakers, WakeUp(t)
  PROVE  IInv'
<1>0. TypeOK /\ Calling /\ Waking /\ Places /\ Locks /\ Counted /\ Owes
  BY DEF IInv
<1>1. k[t].pc = "wake" /\ UNCHANGED <<word, waiters, chain, lock, owed, count>>
  BY DEF WakeUp, hash
<1>2. PICK q \in WakerState : q = k[t] /\ Rouse(q)
  BY <1>0, WakerIs
<1>3. PICK v \in Waiters : v = k[t].who
  BY <1>1, <1>2 DEF Rouse
<1>4. PICK r \in WaiterState : r = w[v] /\ Call(v, r)
  BY <1>0, RecordIs
<1> DEFINE s == [q EXCEPT !.pc = "next", !.who = None]
           e == [r EXCEPT !.asleep = FALSE]
<1>5. Turns(t, s) /\ Becomes(v, e)
  BY <1>2, <1>3, <1>4 DEF WakeUp
<1>6. /\ s \in WakerState /\ Rouse(s) /\ s.pc = "next" /\ s.pc \in Inside
      /\ s.op = k[t].op /\ s.f = k[t].f /\ s.g = k[t].g /\ s.n = k[t].n
      /\ s.m = k[t].m /\ s.bits = k[t].bits
  BY <1>1, <1>2, <1>3 DEF WakerState, Rouse, Inside, Maybe
<1>7. /\ e \in WaiterState /\ Call(v, e) /\ e.ptr = r.ptr /\ e.pc = r.pc /\ e.key = r.key
      /\ e.bits = r.bits /\ e.given = r.given /\ e.addr = r.addr /\ ~e.asleep
  BY <1>4, ZenonT(60) DEF WaiterState, Call, InCall, Out, Maybe
<1> HIDE DEF s, e
<1>8. Working(t, s)
  <2>1. /\ k' \in [Wakers -> WakerState] /\ Waking' /\ k'[t] = s /\ \A x \in Wakers \ {t} : k'[x] = k[x]
    BY <1>0, <1>5, <1>6, OneWaker
  <2> QED
    BY <2>1, <1>6 DEF Working
<1>9. /\ w' \in Tasks /\ Calling' /\ w'[v] = e /\ \A u \in Waiters \ {v} : w'[u] = w[u]
  BY <1>0, <1>5, <1>7, OneWaiter
<1>10. /\ k[t].pc \in Inside /\ k'[t] = s /\ \A x \in Wakers \ {t} : k'[x] = k[x]
       /\ k' \in [Wakers -> WakerState] /\ Waking'
  BY <1>1, <1>8 DEF Inside, Working
<1>11. TypeOK'
  BY <1>0, <1>1, <1>9, <1>10 DEF TypeOK, Tasks
<1>12. /\ \A x \in Wakers : B1(x)' = B1(x) /\ B2(x)' = B2(x) /\ Requeues(x)' = Requeues(x)
       /\ \A c : Announcers(c)' = Announcers(c)
  BY <1>8, <1>10, WorkingIs
<1>13. \A u \in Waiters : /\ w'[u].pc = w[u].pc /\ w'[u].key = w[u].key /\ w'[u].bits = w[u].bits
                          /\ w'[u].addr = w[u].addr /\ w'[u].given = w[u].given
                          /\ w'[u].ptr = w[u].ptr /\ (w'[u].asleep => w[u].asleep /\ u # v)
  BY <1>4, <1>7, <1>9
<1>14. \A u : Queued(u)' = Queued(u)
  BY <1>1 DEF Queued
<1>15. Places'
  <2>1. ASSUME NEW c \in Buckets, NEW u \in ToSet(chain'[c]) PROVE OnChain(u, c)'
    <3>1. u \in Waiters /\ OnChain(u, c)
      BY <1>0, <1>1, <2>1, ChainIs
    <3> QED
      BY <3>1, <1>13 DEF OnChain
  <2>2. \A c \in Buckets : IsInjective(chain'[c])
    BY <1>0, <1>1, ChainIs
  <2>3. \A x \in Wakers : Hand(x)'
    <3> TAKE x \in Wakers
    <3>1. CASE x = t
      BY <3>1, <1>6, <1>10 DEF Hand
    <3>2. CASE x # t
      <4>1. k'[x] = k[x] /\ Hand(x)
        BY <3>2, <1>0, <1>10 DEF Places
      <4>2. k[x].pc \in {"null", "add"} => k[x].who \in Waiters
        BY <1>0, WakerIs DEF Rouse
      <4> QED
        BY <4>1, <4>2, <1>12, <1>13, <1>14 DEF Hand
    <3> QED
      BY <3>1, <3>2
  <2>4. ASSUME NEW u \in Waiters
        PROVE  /\ w'[u].pc \in InCall =>
                    Queued(u)' \/ w'[u].given \/ \E x \in Wakers : k'[x].pc = "add" /\ k'[x].who = u
               /\ w'[u].given /\ w'[u].ptr # None => \E x \in Wakers : k'[x].pc = "null" /\ k'[x].who = u
               /\ w'[u].given /\ w'[u].asleep =>
                    \E x \in Wakers : k'[x].pc \in {"null", "wake"} /\ k'[x].who = u
    <3>1. \A x \in Wakers : k[x].pc \in {"null", "add"} \/ (k[x].pc = "wake" /\ k[x].who # v) => k'[x] = k[x]
      BY <1>1, <1>3, <1>10
    <3> QED
      BY <3>1, <1>0, <1>13, <1>14 DEF Places
  <2> QED
    BY <2>1, <2>2, <2>3, <2>4 DEF Places
<1>16. Locks'
  <2>1. /\ k'[t].pc \in Inside /\ k'[t].f = k[t].f /\ k'[t].g = k[t].g
    BY <1>6, <1>10
  <2> QED
    BY <1>0, <1>1, <1>10, <1>13, <2>1, InsideLocks
<1>17. Counted'
  <2>1. \A c : Lookers(c)' = Lookers(c)
    BY <1>13, LookersSame
  <2> QED
    BY <2>1, <1>0, <1>1, <1>12 DEF Counted
<1>18. Owes'
  BY <1>0, <1>1, <1>8, <1>13, HandOwes
<1> QED
  BY <1>9, <1>10, <1>11, <1>15, <1>16, <1>17, <1>18 DEF IInv

\* The waiter that a loop over the chain comes to.
LEMMA FirstIs ==
  ASSUME TypeOK, Places, NEW t \in Wakers, NEW f \in Futexes, NEW v \in First(t, f)
  PROVE  /\ v \in Found(t, f) /\ v \in Waiters /\ v \in ToSet(chain[Hash[f]]) /\ Queued(v)
         /\ w[v].key = f /\ w[v].ptr = Hash[f] /\ w[v].pc \in InCall /\ ~w[v].given
         /\ Hash[f] \in Buckets
<1>1. v \in Found(t, f) /\ Hash[f] \in Buckets
  BY Ground DEF First
<1>2. v \in ToSet(chain[Hash[f]]) /\ w[v].key = f
  BY <1>1 DEF Found
<1> QED
  BY <1>1, <1>2, ChainIs DEF OnChain

\* t takes v off the chain of b, and keeps it in hand.
Takes(t, s, v, b) ==
  /\ Working(t, s) /\ k[t].pc = "next" /\ b \in {B1(t), B2(t)} /\ b \in Buckets
  /\ v \in ToSet(chain[b]) /\ chain' = [chain EXCEPT ![b] = Off(@, v)]
  /\ \A u \in Waiters : /\ w'[u].pc = w[u].pc /\ w'[u].ptr = w[u].ptr /\ w'[u].key = w[u].key
                        /\ w'[u].bits = w[u].bits /\ w'[u].addr = w[u].addr
                        /\ u # v => w'[u] = w[u]
  /\ s.who = v
  /\ \/ s.pc = "null" /\ w'[v].given
     \/ s.pc = "add" /\ ~w'[v].given /\ b = B1(t) /\ B1(t) # B2(t) /\ Requeues(t)

LEMMA TakesPlaces ==
  ASSUME TypeOK, Waking, Places, NEW t \in Wakers, NEW s, NEW v, NEW b, Takes(t, s, v, b)
  PROVE  Places'
<1>1. /\ Working(t, s) /\ k[t].pc = "next" /\ b \in {B1(t), B2(t)} /\ b \in Buckets
      /\ v \in ToSet(chain[b]) /\ chain' = [chain EXCEPT ![b] = Off(@, v)] /\ s.who = v
      /\ \/ s.pc = "null" /\ w'[v].given
         \/ s.pc = "add" /\ ~w'[v].given /\ b = B1(t) /\ B1(t) # B2(t) /\ Requeues(t)
  BY DEF Takes
<1>2. \A u \in Waiters : /\ w'[u].pc = w[u].pc /\ w'[u].ptr = w[u].ptr /\ w'[u].key = w[u].key
                         /\ u # v => w'[u] = w[u]
  BY DEF Takes
<1>3. /\ \A c \in Buckets : IsInjective(chain'[c]) /\ ToSet(chain'[c]) = ToSet(chain[c]) \ {v}
      /\ \A u : Queued(u)' <=> (Queued(u) /\ u # v)
  BY <1>1, ChainOff
<1>4. v \in Waiters /\ Queued(v) /\ OnChain(v, b)
  BY <1>1, ChainIs
<1>5. /\ k'[t] = s /\ \A x \in Wakers \ {t} : k'[x] = k[x]
      /\ k[t].pc \in Inside
  BY <1>1 DEF Working, Inside
<1>6. \A x \in Wakers : B1(x)' = B1(x) /\ B2(x)' = B2(x) /\ Requeues(x)' = Requeues(x)
  BY <1>1, <1>5, WorkingIs
<1>7. ASSUME NEW c \in Buckets, NEW u \in ToSet(chain'[c]) PROVE OnChain(u, c)'
  <2>1. u \in ToSet(chain[c]) /\ u # v
    BY <1>3
  <2>2. u \in Waiters /\ OnChain(u, c)
    BY <2>1, ChainIs
  <2> QED
    BY <2>1, <2>2, <1>2 DEF OnChain
<1>8. ASSUME NEW x \in Wakers PROVE Hand(x)'
  <2>1. CASE x = t
    BY <2>1, <1>1, <1>2, <1>3, <1>4, <1>5, <1>6 DEF Hand, OnChain
  <2>2. CASE x # t
    <3>1. k'[x] = k[x] /\ Hand(x)
      BY <2>2, <1>5 DEF Places
    <3>2. k[x].pc \in {"null", "add"} => k[x].who \in Waiters
      BY WakerIs DEF Rouse
    <3>3. k[x].pc \in {"null", "add"} => k[x].who # v
      BY <3>1, <1>4 DEF Hand, OnChain
    <3> QED
      BY <3>1, <3>2, <3>3, <1>2, <1>3, <1>6 DEF Hand
  <2> QED
    BY <2>1, <2>2
<1>9. ASSUME NEW u \in Waiters
      PROVE  /\ w'[u].pc \in InCall =>
                  Queued(u)' \/ w'[u].given \/ \E x \in Wakers : k'[x].pc = "add" /\ k'[x].who = u
             /\ w'[u].given /\ w'[u].ptr # None => \E x \in Wakers : k'[x].pc = "null" /\ k'[x].who = u
             /\ w'[u].given /\ w'[u].asleep =>
                  \E x \in Wakers : k'[x].pc \in {"null", "wake"} /\ k'[x].who = u
  <2>1. CASE u = v
    BY <2>1, <1>1, <1>5
  <2>2. CASE u # v
    <3>1. \A x \in Wakers : k[x].pc \in {"null", "wake", "add"} => k'[x] = k[x]
      BY <1>1, <1>5
    <3>2. w'[u] = w[u] /\ (Queued(u) => Queued(u)')
      BY <2>2, <1>2, <1>3
    <3> QED
      BY <3>1, <3>2 DEF Places
  <2> QED
    BY <2>1, <2>2
<1> QED
  BY <1>3, <1>7, <1>8, <1>9 DEF Places

\* Whoever is not taken is found where it was.
LEMMA TakesFindable ==
  ASSUME TypeOK, Waking, Places, Locks, NEW t \in Wakers, NEW s, NEW v, NEW b, Takes(t, s, v, b),
         \A u \in Coming(t) : u # v => u \in Coming(t)',
         NEW u \in Waiters, u # v, NEW f, Findable(u, f)
  PROVE  Findable(u, f)'
<1>1. /\ Working(t, s) /\ k[t].pc = "next" /\ b \in {B1(t), B2(t)} /\ b \in Buckets
      /\ v \in ToSet(chain[b]) /\ chain' = [chain EXCEPT ![b] = Off(@, v)]
      /\ k[t].pc \in Inside
  BY DEF Takes, Inside
<1>2. \A a \in Waiters : w'[a].pc = w[a].pc /\ w'[a].key = w[a].key /\ w'[a].bits = w[a].bits
  BY DEF Takes
<1>3. /\ \A c \in Buckets \ {b} : chain'[c] = chain[c]
      /\ \A a : Queued(a)' <=> (Queued(a) /\ a # v)
  BY <1>1, ChainOff
<1>4. lock[b] = t
  BY <1>1, HeldIs
<1>5. ASSUME NEW y \in Wakers \ {t} PROVE Coming(y)' = Coming(y)
  <2>1. k'[y] = k[y] /\ lock[b] # y
    BY <1>1, <1>4 DEF Working
  <2> QED
    BY <2>1, <1>1, <1>2, <1>3, ElsewhereComing
<1>6. \A y \in Wakers : k'[y].g = k[y].g
  BY <1>1, WorkingIs
<1>7. CASE w[u].key = f /\ (w[u].pc = "queue" \/ Queued(u))
  BY <1>7, <1>2, <1>3 DEF Findable
<1>8. ASSUME NEW y \in Wakers, k[y].g = f, u \in Coming(y) PROVE Findable(u, f)'
  <2>1. u \in Coming(y)'
    BY <1>5, <1>8
  <2> QED
    BY <2>1, <1>6, <1>8 DEF Findable
<1> QED
  BY <1>7, <1>8 DEF Findable

LEMMA DequeueIInv ==
  ASSUME IInv, NEW t \in Wakers, Dequeue(t)
  PROVE  IInv'
<1>0. TypeOK /\ Calling /\ Waking /\ Places /\ Locks /\ Counted /\ Owes
  BY DEF IInv
<1>1. /\ k[t].pc = "next" /\ (Wakes(t) \/ WakesToo(t)) /\ UNCHANGED <<word, lock, count>>
  BY DEF Dequeue
<1>2. PICK q \in WakerState, b1 \in Buckets, b2 \in Buckets :
        /\ q = k[t] /\ Rouse(q) /\ q.f \in Futexes /\ q.g \in Futexes
        /\ b1 = B1(t) /\ b1 = Hash[q.f] /\ b2 = B2(t) /\ b2 = Hash[q.g]
  BY <1>0, <1>1, CallerIs
<1>3. PICK f \in {q.f, q.g} : \E v \in First(t, f) :
         /\ chain' = [chain EXCEPT ![w[v].ptr] = Off(@, v)]
         /\ waiters' = [waiters EXCEPT ![w[v].ptr] = @ - 1]
         /\ Becomes(v, [w[v] EXCEPT !.given = TRUE])
         /\ Turns(t, [k[t] EXCEPT !.pc = "null", !.who = v,
                        !.found = IF Wakes(t) THEN @ + 1 ELSE @,
                        !.also = IF Wakes(t) THEN @ ELSE @ + 1])
         /\ NotOwed(v)
  BY <1>2 DEF Dequeue
<1>4. PICK v \in First(t, f) :
         /\ chain' = [chain EXCEPT ![w[v].ptr] = Off(@, v)]
         /\ waiters' = [waiters EXCEPT ![w[v].ptr] = @ - 1]
         /\ Becomes(v, [w[v] EXCEPT !.given = TRUE])
         /\ Turns(t, [k[t] EXCEPT !.pc = "null", !.who = v,
                        !.found = IF Wakes(t) THEN @ + 1 ELSE @,
                        !.also = IF Wakes(t) THEN @ ELSE @ + 1])
         /\ NotOwed(v)
  BY <1>3
<1>5. PICK b \in Buckets : b = Hash[f] /\ b \in {b1, b2}
  BY <1>2, <1>3
<1>6. /\ v \in Waiters /\ v \in ToSet(chain[b]) /\ Queued(v)
      /\ w[v].ptr = b /\ w[v].pc \in InCall
  <2>1. f \in Futexes
    BY <1>2, <1>3
  <2> QED
    BY <2>1, <1>0, <1>5, FirstIs
<1>7. PICK r \in WaiterState : r = w[v] /\ Call(v, r) /\ r.pc \in InCall
  BY <1>0, <1>6, RecordIs
<1> DEFINE e == [r EXCEPT !.given = TRUE]
<1>8. PICK i \in Nat, j \in Nat : Turns(t, [q EXCEPT !.pc = "null", !.who = v, !.found = i, !.also = j])
  <2>1. q.found \in Nat /\ q.also \in Nat
    BY <1>2 DEF WakerState
  <2> DEFINE i == IF Wakes(t) THEN q.found + 1 ELSE q.found
             j == IF Wakes(t) THEN q.also ELSE q.also + 1
  <2>2. i \in Nat /\ j \in Nat
    BY <2>1
  <2>3. Turns(t, [q EXCEPT !.pc = "null", !.who = v, !.found = i, !.also = j])
    BY <1>2, <1>4
  <2> HIDE DEF i, j
  <2> QED
    BY <2>2, <2>3
<1> DEFINE s == [q EXCEPT !.pc = "null", !.who = v, !.found = i, !.also = j]
<1>9. Turns(t, s) /\ Becomes(v, e)
  BY <1>4, <1>7, <1>8
<1>10. /\ s \in WakerState /\ Rouse(s) /\ s.pc = "null" /\ s.who = v /\ s.pc \in Inside
       /\ s.op = k[t].op /\ s.f = k[t].f /\ s.g = k[t].g /\ s.n = k[t].n
       /\ s.m = k[t].m /\ s.bits = k[t].bits
  BY <1>1, <1>2, <1>6 DEF WakerState, Rouse, Inside, Maybe
<1>11. /\ e \in WaiterState /\ Call(v, e) /\ e.ptr = r.ptr /\ e.pc = r.pc /\ e.key = r.key
       /\ e.bits = r.bits /\ e.given = TRUE /\ e.addr = r.addr
  BY <1>7 DEF WaiterState, Call, InCall, Out, Maybe
<1> HIDE DEF s, e
<1>12. Working(t, s)
  <2>1. /\ k' \in [Wakers -> WakerState] /\ Waking' /\ k'[t] = s /\ \A x \in Wakers \ {t} : k'[x] = k[x]
    BY <1>0, <1>9, <1>10, OneWaker
  <2> QED
    BY <2>1, <1>10 DEF Working
<1>13. /\ w' \in Tasks /\ Calling' /\ w'[v] = e /\ \A u \in Waiters \ {v} : w'[u] = w[u]
  BY <1>0, <1>6, <1>9, <1>11, OneWaiter
<1>14. /\ k[t].pc \in Inside /\ k'[t] = s /\ \A x \in Wakers \ {t} : k'[x] = k[x]
       /\ k' \in [Wakers -> WakerState] /\ Waking'
  BY <1>1, <1>12 DEF Inside, Working
<1>15. \A u \in Waiters : /\ w'[u].pc = w[u].pc /\ w'[u].ptr = w[u].ptr /\ w'[u].key = w[u].key
                          /\ w'[u].bits = w[u].bits /\ w'[u].addr = w[u].addr
                          /\ u # v => w'[u] = w[u]
  BY <1>7, <1>11, <1>13
<1>16. chain' = [chain EXCEPT ![b] = Off(@, v)] /\ waiters' = [waiters EXCEPT ![b] = @ - 1]
  BY <1>4, <1>6
<1>17. Takes(t, s, v, b)
  BY <1>1, <1>2, <1>5, <1>6, <1>10, <1>11, <1>12, <1>13, <1>15, <1>16 DEF Takes
<1>18. Places'
  BY <1>0, <1>17, TakesPlaces
<1>19. Locks'
  <2>1. /\ k'[t].pc \in Inside /\ k'[t].f = k[t].f /\ k'[t].g = k[t].g
    BY <1>10, <1>14
  <2> QED
    BY <1>0, <1>1, <1>14, <1>15, <2>1, InsideLocks
<1>20. Counted' /\ waiters' \in [Buckets -> Nat]
  <2>1. \A c : Lookers(c)' = Lookers(c)
    BY <1>15, LookersSame
  <2>2. \A c : Announcers(c)' = Announcers(c)
    BY <1>12, <1>14, WorkingIs
  <2> QED
    BY <1>0, <1>6, <1>16, <2>1, <2>2, OffCounted
<1>21. owed' \in [Wakers -> SUBSET Waiters] /\ \A x \in Wakers : owed'[x] = owed[x] \ {v}
  BY <1>0, <1>4 DEF NotOwed, TypeOK
<1>22. TypeOK'
  <2>1. chain' \in [Buckets -> Seq(Waiters)]
    BY <1>0, <1>6, <1>16, ChainOff
  <2> QED
    BY <2>1, <1>0, <1>1, <1>13, <1>14, <1>20, <1>21 DEF TypeOK, Tasks
<1>23. Owes'
  <2>1. Coming(t) = {}
    <3>1. CASE Wakes(t)
      <4>1. q.n \in Nat /\ q.found \in Nat
        BY <1>2 DEF WakerState
      <4>2. Requeues(t) => ~(k[t].n <= k[t].found)
        BY <3>1, <4>1, <1>2 DEF Wakes, Quota
      <4> QED
        BY <4>2 DEF Coming
    <3>2. CASE WakesToo(t)
      <4>1. ~Requeues(t)
        BY <3>2, <1>2 DEF WakesToo, Rouse, Requeues
      <4> QED
        BY <4>1 DEF Coming
    <3> QED
      BY <1>1, <3>1, <3>2
  <2>2. ASSUME NEW x \in Wakers, NEW u \in owed'[x]
        PROVE  w'[u].bits = w[u].bits /\ (Findable(u, k[x].f) => Findable(u, k[x].f)')
    <3>1. u \in Waiters /\ u # v
      BY <1>0, <1>21, <2>2 DEF TypeOK
    <3>2. PICK g : g = k[x].f
      OBVIOUS
    <3>3. Findable(u, g) => Findable(u, g)'
      BY <1>0, <1>17, <2>1, <3>1, TakesFindable
    <3>4. k'[x].f = g
      BY <3>2, <1>12, <1>14, WorkingIs
    <3> QED
      BY <3>1, <3>2, <3>3, <3>4, <1>15 DEF Findable
  <2>3. \A x \in Wakers : owed'[x] \subseteq owed[x]
    BY <1>21
  <2> QED
    BY <1>0, <1>12, <1>14, <2>2, <2>3, WorkingOwes
<1> QED
  BY <1>13, <1>14, <1>18, <1>19, <1>20, <1>22, <1>23 DEF IInv

\* Of two waiters on a chain one is ahead of the other.
LEMMA AheadIs ==
  ASSUME NEW t, NEW f, NEW u \in Found(t, f), NEW v \in First(t, f), u # v,
         chain[Hash[f]] \in Seq(Waiters)
  PROVE  Ahead(f, v, u) /\ v \in Found(t, f)
<1> DEFINE s == chain[Hash[f]]
<1>1. v \in Found(t, f) /\ ~Ahead(f, u, v)
  BY DEF First
<1>2. PICK i \in DOMAIN s, j \in DOMAIN s : s[i] = u /\ s[j] = v
  BY <1>1 DEF Found, ToSet
<1>3. i \in Nat /\ j \in Nat /\ i # j
  BY <1>2
<1>4. ~(i < j)
  BY <1>1, <1>2 DEF Ahead
<1>5. j < i
  BY <1>3, <1>4
<1> QED
  BY <1>1, <1>2, <1>5 DEF Ahead

\* When the first has been moved, the others that were to be moved still are.
LEMMA ComingOn ==
  ASSUME TypeOK, Waking, NEW t \in Wakers, NEW s, Working(t, s), k[t].pc = "next",
         s.pc \in {"next", "add"}, s.found = k[t].found + 1,
         NEW f \in Futexes, f = k[t].f, NEW v \in First(t, f), Found(t, f)' = Found(t, f) \ {v},
         \A a, b : Ahead(f, a, b)' => Ahead(f, a, b),
         NEW u \in Coming(t), u # v
  PROVE  u \in Coming(t)'
<1> DEFINE Y == {a \in Found(t, f) : Ahead(f, a, u)}
           Z == {a \in Found(t, f)' : Ahead(f, a, u)'}
<1>1. /\ Requeues(t) /\ k[t].n > 0 /\ k[t].n <= k[t].found /\ u \in Found(t, f)
      /\ k[t].found + Cardinality(Y) < k[t].n + k[t].m
  BY DEF Coming
<1>2. chain[Hash[f]] \in Seq(Waiters)
  BY Ground DEF TypeOK
<1>3. Found(t, f) \subseteq Waiters
  BY <1>2 DEF Found, ToSet
<1>4. IsFiniteSet(Y) /\ Cardinality(Y) \in Nat
  <2>1. Y \subseteq Waiters
    BY <1>3
  <2> QED
    BY <2>1, FS_Subset, FS_CardinalityType, FutexAssumption
<1>5. v \in Y
  BY <1>1, <1>2, AheadIs
<1>6. Z \subseteq Y \ {v}
  OBVIOUS
<1> HIDE DEF Y, Z
<1>7. Cardinality(Y \ {v}) = Cardinality(Y) - 1 /\ IsFiniteSet(Y \ {v})
  BY <1>4, <1>5, OneLess
<1>8. Cardinality(Z) <= Cardinality(Y) - 1 /\ Cardinality(Z) \in Nat
  BY <1>6, <1>7, FS_Subset, FS_CardinalityType
<1>9. k[t].n \in Nat /\ k[t].m \in Nat /\ k[t].found \in Nat
  BY DEF TypeOK, WakerState
<1>10. /\ k'[t].n = k[t].n /\ k'[t].m = k[t].m /\ k'[t].found = k[t].found + 1
       /\ k'[t].pc \in {"next", "add"} /\ k'[t].f = f /\ Requeues(t)' = Requeues(t)
  BY DEF Working, Requeues
<1>11. u \in Found(t, f)' /\ k'[t].found + Cardinality(Z) < k'[t].n + k'[t].m
  BY <1>1, <1>4, <1>8, <1>9, <1>10
<1>12. k'[t].n > 0 /\ k'[t].n <= k'[t].found
  BY <1>1, <1>9, <1>10
<1>13. Found(t, f)' = Found(t, k[t].f)' /\ Z = {a \in Found(t, k[t].f)' : Ahead(k[t].f, a, u)'}
  BY <1>10 DEF Found, Ahead, Z
<1> QED
  BY <1>1, <1>10, <1>11, <1>12, <1>13 DEF Coming

\* Only the requeue that has its lock is going to move a waiter.
LEMMA ComingHere ==
  ASSUME TypeOK, Waking, Places, Locks, NEW t \in Wakers, k[t].pc \in Inside,
         NEW v, w[v].ptr = B1(t), NEW y \in Wakers, v \in Coming(y)
  PROVE  y = t
<1>1. w[v].ptr = B1(y) /\ k[y].pc \in Inside
  BY ComingIs DEF Inside
<1> QED
  BY <1>1, HeldIs

LEMMA RenameIInv ==
  ASSUME IInv, NEW t \in Wakers, Rename(t)
  PROVE  IInv'
<1>0. TypeOK /\ Calling /\ Waking /\ Places /\ Locks /\ Counted /\ Owes
  BY DEF IInv
<1>1. /\ k[t].pc = "next" /\ Moves(t) /\ B1(t) = B2(t) /\ UNCHANGED <<word, hash, count>>
  BY DEF Rename
<1>2. PICK q \in WakerState, b \in Buckets :
        /\ q = k[t] /\ Rouse(q) /\ q.f \in Futexes /\ q.g \in Futexes
        /\ b = B1(t) /\ b = Hash[q.f] /\ b = B2(t) /\ b = Hash[q.g]
  BY <1>0, <1>1, CallerIs
<1>3. PICK f \in Futexes, g \in Futexes :
        f = k[t].f /\ g = k[t].g /\ f = q.f /\ g = q.g /\ b = Hash[f] /\ b = Hash[g] /\ f # g
  BY <1>1, <1>2 DEF Moves, Requeues, Rouse
<1>4. PICK v \in First(t, f) :
         /\ Becomes(v, [w[v] EXCEPT !.key = g])
         /\ Turns(t, [q EXCEPT !.found = @ + 1])
         /\ Moved(v, f)
  <2>1. PICK v \in First(t, k[t].f) :
         /\ Becomes(v, [w[v] EXCEPT !.key = k[t].g])
         /\ Turns(t, [k[t] EXCEPT !.found = @ + 1])
         /\ Moved(v, k[t].f)
    BY DEF Rename
  <2>2. k[t].f = f /\ k[t].g = g /\ k[t] = q
    BY <1>2, <1>3
  <2> QED
    BY <2>1, <2>2, Zenon
<1>5. /\ v \in Waiters /\ v \in ToSet(chain[b]) /\ Queued(v) /\ v \in Found(t, f)
      /\ w[v].ptr = b /\ w[v].pc \in InCall /\ w[v].key = f /\ ~w[v].given
  <2>1. /\ v \in Found(t, f) /\ v \in Waiters /\ v \in ToSet(chain[Hash[f]]) /\ Queued(v)
        /\ w[v].key = f /\ w[v].ptr = Hash[f] /\ w[v].pc \in InCall /\ ~w[v].given
    BY <1>0, FirstIs
  <2>2. Hash[f] = b
    BY <1>3
  <2> QED
    BY <2>1, <2>2
<1>6. PICK r \in WaiterState : r = w[v] /\ Call(v, r) /\ r.pc \in InCall /\ ~r.given /\ r.key = f
  BY <1>0, <1>5, RecordIs
<1> DEFINE e == [r EXCEPT !.key = g]
           s == [q EXCEPT !.found = @ + 1]
<1>7. Turns(t, s) /\ Becomes(v, e)
  BY <1>4, <1>6
<1>8. /\ s \in WakerState /\ Rouse(s) /\ s.pc = "next" /\ s.pc \in Inside
      /\ s.op = k[t].op /\ s.f = k[t].f /\ s.g = k[t].g /\ s.n = k[t].n
      /\ s.m = k[t].m /\ s.bits = k[t].bits /\ s.found = k[t].found + 1
  BY <1>1, <1>2 DEF WakerState, Rouse, Inside
<1>9. /\ e \in WaiterState /\ Call(v, e) /\ e.ptr = r.ptr /\ e.pc = r.pc /\ e.key = g
      /\ e.bits = r.bits /\ e.given = r.given /\ e.addr = r.addr /\ e.asleep = r.asleep
  BY <1>3, <1>6 DEF WaiterState, Call, InCall, Out, Maybe
<1> HIDE DEF s, e
<1>10. Working(t, s)
  <2>1. /\ k' \in [Wakers -> WakerState] /\ Waking' /\ k'[t] = s /\ \A x \in Wakers \ {t} : k'[x] = k[x]
    BY <1>0, <1>7, <1>8, OneWaker
  <2> QED
    BY <2>1, <1>8 DEF Working
<1>11. /\ w' \in Tasks /\ Calling' /\ w'[v] = e /\ \A u \in Waiters \ {v} : w'[u] = w[u]
  BY <1>0, <1>5, <1>7, <1>9, OneWaiter
<1>12. /\ k[t].pc \in Inside /\ k'[t] = s /\ \A x \in Wakers \ {t} : k'[x] = k[x]
       /\ k' \in [Wakers -> WakerState] /\ Waking' /\ k'[t].pc = "next"
  BY <1>1, <1>8, <1>10 DEF Inside, Working
<1>13. \A u \in Waiters : /\ w'[u].pc = w[u].pc /\ w'[u].ptr = w[u].ptr
                          /\ w'[u].bits = w[u].bits /\ w'[u].addr = w[u].addr
                          /\ w'[u].given = w[u].given /\ w'[u].asleep = w[u].asleep
                          /\ u # v => w'[u] = w[u]
  BY <1>6, <1>9, <1>11
<1>14. chain' = chain /\ lock' = lock /\ waiters' = waiters /\ \A u : Queued(u)' = Queued(u)
  BY <1>1 DEF hash, Queued
<1>15. /\ \A x \in Wakers : B1(x)' = B1(x) /\ B2(x)' = B2(x) /\ Requeues(x)' = Requeues(x)
       /\ \A x \in Wakers : k'[x].f = k[x].f /\ k'[x].g = k[x].g
       /\ \A c : Announcers(c)' = Announcers(c)
  BY <1>10, <1>12, WorkingIs
<1>16. Places'
  <2>1. ASSUME NEW c \in Buckets, NEW u \in ToSet(chain'[c]) PROVE OnChain(u, c)'
    <3>1. u \in Waiters /\ OnChain(u, c)
      BY <1>0, <1>14, <2>1, ChainIs
    <3>2. Hash[w'[u].key] = c
      <4>1. CASE u = v
        BY <4>1, <3>1, <1>3, <1>5, <1>9, <1>11 DEF OnChain
      <4>2. CASE u # v
        BY <4>2, <3>1, <1>13 DEF OnChain
      <4> QED
        BY <4>1, <4>2
    <3> QED
      BY <3>1, <3>2, <1>13 DEF OnChain
  <2>2. \A c \in Buckets : IsInjective(chain'[c])
    BY <1>0, <1>14, ChainIs
  <2>3. \A x \in Wakers : Hand(x)'
    <3> TAKE x \in Wakers
    <3>1. CASE x = t
      BY <3>1, <1>12 DEF Hand
    <3>2. CASE x # t
      <4>1. k'[x] = k[x] /\ Hand(x)
        BY <3>2, <1>0, <1>12 DEF Places
      <4>2. k[x].pc \in {"null", "add"} => k[x].who \in Waiters
        BY <1>0, WakerIs DEF Rouse
      <4> QED
        BY <4>1, <4>2, <1>13, <1>14, <1>15 DEF Hand
    <3> QED
      BY <3>1, <3>2
  <2>4. ASSUME NEW u \in Waiters
        PROVE  /\ w'[u].pc \in InCall =>
                    Queued(u)' \/ w'[u].given \/ \E x \in Wakers : k'[x].pc = "add" /\ k'[x].who = u
               /\ w'[u].given /\ w'[u].ptr # None => \E x \in Wakers : k'[x].pc = "null" /\ k'[x].who = u
               /\ w'[u].given /\ w'[u].asleep =>
                    \E x \in Wakers : k'[x].pc \in {"null", "wake"} /\ k'[x].who = u
    <3>1. \A x \in Wakers : k[x].pc \in {"null", "wake", "add"} => k'[x] = k[x]
      BY <1>1, <1>12
    <3> QED
      BY <3>1, <1>0, <1>13, <1>14 DEF Places
  <2> QED
    BY <2>1, <2>2, <2>3, <2>4 DEF Places
<1>17. Locks'
  <2>1. /\ k'[t].pc \in Inside /\ k'[t].f = k[t].f /\ k'[t].g = k[t].g
    BY <1>8, <1>12
  <2> QED
    BY <1>0, <1>12, <1>13, <1>14, <2>1, InsideLocks
<1>18. Counted'
  <2>1. \A c : Lookers(c)' = Lookers(c)
    BY <1>13, LookersSame
  <2> QED
    BY <2>1, <1>0, <1>14, <1>15 DEF Counted
<1>19. owed' \in [Wakers -> SUBSET Waiters] /\ \A x \in Wakers : owed'[x] \subseteq owed[x]
                                            /\ (k[x].f = f => v \notin owed'[x])
  BY <1>0, <1>4 DEF Moved, TypeOK
<1>20. TypeOK'
  BY <1>0, <1>1, <1>11, <1>12, <1>14, <1>19 DEF TypeOK, Tasks
<1>21. \A u \in Coming(t) : u # v => u \in Coming(t)'
  <2> TAKE u \in Coming(t)
  <2> SUFFICES ASSUME u # v PROVE u \in Coming(t)'
    OBVIOUS
  <2>1. Found(t, f)' = Found(t, f) \ {v}
    <3>1. k'[t].bits = k[t].bits
      BY <1>8, <1>12
    <3>2. \A a \in ToSet(chain[b]) : a \in Waiters /\ (a # v => w'[a] = w[a])
      BY <1>0, <1>13, ChainIs
    <3>3. w'[v].key # f
      BY <1>3, <1>9, <1>11
    <3> QED
      BY <3>1, <3>2, <3>3, <1>3, <1>14 DEF Found
  <2>2. \A a, c : Ahead(f, a, c)' => Ahead(f, a, c)
    BY <1>14 DEF Ahead
  <2>3. s.pc \in {"next", "add"} /\ s.found = k[t].found + 1 /\ f = k[t].f
    BY <1>2, <1>3, <1>8
  <2> QED
    BY <1>0, <1>1, <1>10, <2>1, <2>2, <2>3, ComingOn
<1>22. ASSUME NEW y \in Wakers \ {t} PROVE Coming(y)' = Coming(y)
  <2>1. k'[y] = k[y]
    BY <1>12
  <2>2. lock[b] # y
    BY <1>0, <1>2, <1>12, HeldIs
  <2>3. \A u \in Waiters : (w'[u].key = w[u].key /\ w'[u].bits = w[u].bits) \/ w[u].ptr = b \/ w[u].pc \notin InCall
    BY <1>5, <1>13
  <2> QED
    BY <1>0, <1>14, <2>1, <2>2, <2>3, ElsewhereComing
<1>23. ASSUME NEW x \in Wakers, NEW u \in owed'[x], NEW h, h = k[x].f, Findable(u, h)
       PROVE  Findable(u, h)'
  <2>1. u \in Waiters
    BY <1>19, <1>23
  <2>2. CASE u = v
    <3>1. h # f
      BY <2>2, <1>19, <1>23
    <3>2. PICK y \in Wakers : k[y].g = h /\ v \in Coming(y)
      BY <2>2, <3>1, <1>5, <1>23 DEF Findable
    <3>3. y = t
      BY <3>2, <1>0, <1>2, <1>5, <1>12, ComingHere
    <3>4. w'[v].key = h /\ Queued(v)'
      BY <3>2, <3>3, <1>2, <1>3, <1>5, <1>9, <1>11, <1>14
    <3> QED
      BY <2>2, <3>4 DEF Findable
  <2>3. CASE u # v
    <3>1. CASE w[u].key = h /\ (w[u].pc = "queue" \/ Queued(u))
      BY <2>1, <2>3, <3>1, <1>13, <1>14 DEF Findable
    <3>2. ASSUME NEW y \in Wakers, k[y].g = h, u \in Coming(y) PROVE Findable(u, h)'
      <4>1. u \in Coming(y)'
        BY <2>3, <3>2, <1>21, <1>22
      <4> QED
        BY <3>2, <4>1, <1>15 DEF Findable
    <3> QED
      BY <3>1, <3>2, <1>23 DEF Findable
  <2> QED
    BY <2>2, <2>3
<1>24. Owes'
  <2>1. ASSUME NEW x \in Wakers, NEW u \in owed'[x]
        PROVE  w'[u].bits = w[u].bits /\ (Findable(u, k[x].f) => Findable(u, k[x].f)')
    <3>1. PICK h : h = k[x].f
      OBVIOUS
    <3>2. Findable(u, h) => Findable(u, h)'
      BY <2>1, <3>1, <1>23
    <3>3. k'[x].f = h
      BY <3>1, <1>15
    <3>4. u \in Waiters
      BY <1>19, <2>1
    <3> QED
      BY <3>1, <3>2, <3>3, <3>4, <1>13 DEF Findable
  <2> QED
    BY <1>0, <1>10, <1>12, <1>19, <2>1, WorkingOwes
<1> QED
  BY <1>11, <1>12, <1>16, <1>17, <1>18, <1>20, <1>24 DEF IInv

LEMMA TakeOffIInv ==
  ASSUME IInv, NEW t \in Wakers, TakeOff(t)
  PROVE  IInv'
<1>0. TypeOK /\ Calling /\ Waking /\ Places /\ Locks /\ Counted /\ Owes
  BY DEF IInv
<1>1. /\ k[t].pc = "next" /\ Moves(t) /\ B1(t) # B2(t) /\ UNCHANGED <<word, lock, w, count>>
  BY DEF TakeOff
<1>2. PICK q \in WakerState, b \in Buckets :
        /\ q = k[t] /\ Rouse(q) /\ q.f \in Futexes /\ q.g \in Futexes
        /\ b = B1(t) /\ b = Hash[q.f]
  BY <1>0, <1>1, CallerIs
<1>3. PICK f \in Futexes : f = q.f /\ b = Hash[f] /\ f = k[t].f
  BY <1>2
<1>4. PICK v \in First(t, f) :
         /\ chain' = [chain EXCEPT ![b] = Off(@, v)]
         /\ waiters' = [waiters EXCEPT ![b] = @ - 1]
         /\ Turns(t, [q EXCEPT !.pc = "add", !.who = v, !.found = @ + 1])
         /\ Moved(v, f)
  <2>1. PICK v \in First(t, k[t].f) :
         /\ chain' = [chain EXCEPT ![B1(t)] = Off(@, v)]
         /\ waiters' = [waiters EXCEPT ![B1(t)] = @ - 1]
         /\ Turns(t, [k[t] EXCEPT !.pc = "add", !.who = v, !.found = @ + 1])
         /\ Moved(v, k[t].f)
    BY Zenon DEF TakeOff
  <2>2. k[t].f = f /\ B1(t) = b /\ k[t] = q
    BY <1>2, <1>3
  <2> QED
    BY <2>1, <2>2, Zenon
<1>5. /\ v \in Waiters /\ v \in ToSet(chain[b]) /\ Queued(v) /\ v \in Found(t, f)
      /\ w[v].ptr = b /\ w[v].pc \in InCall /\ w[v].key = f /\ ~w[v].given
  BY <1>0, <1>3, FirstIs
<1> DEFINE s == [q EXCEPT !.pc = "add", !.who = v, !.found = @ + 1]
<1>7. Turns(t, s)
  BY <1>4
<1>8. /\ s \in WakerState /\ Rouse(s) /\ s.pc = "add" /\ s.pc \in Inside /\ s.who = v
      /\ s.op = k[t].op /\ s.f = k[t].f /\ s.g = k[t].g /\ s.n = k[t].n
      /\ s.m = k[t].m /\ s.bits = k[t].bits /\ s.found = k[t].found + 1
  <2>1. q.found + 1 \in Nat
    BY <1>2 DEF WakerState
  <2>2. /\ s \in WakerState /\ s.pc = "add" /\ s.who = v /\ s.op = q.op /\ s.f = q.f
        /\ s.g = q.g /\ s.n = q.n /\ s.m = q.m /\ s.bits = q.bits /\ s.found = q.found + 1
        /\ s.cond = q.cond
    BY <1>2, <1>5, <2>1 DEF WakerState, Maybe
  <2>3. q.pc = "next"
    BY <1>1, <1>2
  <2> HIDE DEF s
  <2>4. Rouse(s)
    BY <1>2, <1>5, <2>2, <2>3 DEF Rouse
  <2> QED
    BY <1>2, <2>2, <2>4 DEF Inside
<1> HIDE DEF s
<1>10. Working(t, s)
  <2>1. /\ k' \in [Wakers -> WakerState] /\ Waking' /\ k'[t] = s /\ \A x \in Wakers \ {t} : k'[x] = k[x]
    BY <1>0, <1>7, <1>8, OneWaker
  <2> QED
    BY <2>1, <1>8 DEF Working
<1>12. /\ k[t].pc \in Inside /\ k'[t] = s /\ \A x \in Wakers \ {t} : k'[x] = k[x]
       /\ k' \in [Wakers -> WakerState] /\ Waking'
  BY <1>1, <1>8, <1>10 DEF Inside, Working
<1>13. Requeues(t) /\ w' = w /\ lock' = lock
  BY <1>1 DEF Moves
<1>14. Takes(t, s, v, b)
  BY <1>1, <1>2, <1>4, <1>5, <1>8, <1>10, <1>13 DEF Takes
<1>15. /\ \A x \in Wakers : k'[x].f = k[x].f /\ k'[x].g = k[x].g
       /\ \A c : Announcers(c)' = Announcers(c) /\ Requeues(t)' = Requeues(t)
  BY <1>10, <1>12, WorkingIs
<1>16. Places'
  BY <1>0, <1>14, TakesPlaces
<1>17. Locks'
  <2>1. /\ k'[t].pc \in Inside /\ k'[t].f = k[t].f /\ k'[t].g = k[t].g
    BY <1>8, <1>12
  <2> QED
    BY <1>0, <1>12, <1>13, <2>1, InsideLocks
<1>18. Counted' /\ waiters' \in [Buckets -> Nat]
  <2>1. \A c : Lookers(c)' = Lookers(c)
    BY <1>13, LookersSame
  <2> QED
    BY <1>0, <1>4, <1>5, <1>15, <2>1, OffCounted
<1>19. owed' \in [Wakers -> SUBSET Waiters] /\ \A x \in Wakers : owed'[x] \subseteq owed[x]
                                            /\ (k[x].f = f => v \notin owed'[x])
  BY <1>0, <1>4 DEF Moved, TypeOK
<1>20. TypeOK' /\ Calling'
  <2>1. chain' \in [Buckets -> Seq(Waiters)]
    BY <1>0, <1>4, <1>5, ChainOff
  <2> QED
    BY <2>1, <1>0, <1>1, <1>12, <1>18, <1>19 DEF TypeOK, Calling
<1>21. \A u \in Coming(t) : u # v => u \in Coming(t)'
  <2> TAKE u \in Coming(t)
  <2> SUFFICES ASSUME u # v PROVE u \in Coming(t)'
    OBVIOUS
  <2>0. /\ ToSet(chain'[b]) = ToSet(chain[b]) \ {v}
        /\ \A a, c : Before(chain'[b], a, c) => Before(chain[b], a, c)
    BY <1>0, <1>4, <1>5, ChainOff
  <2>1. Found(t, f)' = Found(t, f) \ {v}
    <3>1. k'[t].bits = k[t].bits
      BY <1>8, <1>12
    <3> QED
      BY <2>0, <3>1, <1>3, <1>13 DEF Found
  <2>2. \A a, c : Ahead(f, a, c)' => Ahead(f, a, c)
    BY <2>0, <1>3 DEF Ahead, Before
  <2>3. s.pc \in {"next", "add"} /\ s.found = k[t].found + 1
    BY <1>8
  <2> QED
    BY <1>0, <1>1, <1>3, <1>10, <2>1, <2>2, <2>3, ComingOn
<1>22. ASSUME NEW x \in Wakers, NEW u \in owed'[x], NEW h, h = k[x].f, Findable(u, h)
       PROVE  Findable(u, h)'
  <2>1. u \in Waiters
    BY <1>19, <1>22
  <2>2. CASE u = v
    <3>1. h # f
      BY <2>2, <1>19, <1>22
    <3>2. PICK y \in Wakers : k[y].g = h /\ v \in Coming(y)
      BY <2>2, <3>1, <1>5, <1>22 DEF Findable
    <3>3. y = t
      BY <3>2, <1>0, <1>2, <1>5, <1>12, ComingHere
    <3>4. k[t].n > 0 /\ k[t].n <= k[t].found
      BY <3>2, <3>3 DEF Coming
    <3>5. k[t].n \in Nat /\ k[t].found \in Nat
      BY <1>2 DEF WakerState
    <3>6. /\ k'[t].n > 0 /\ k'[t].n <= k'[t].found /\ k'[t].pc = "add" /\ k'[t].who = v
          /\ Requeues(t)'
      <4>1. /\ k'[t].n = k[t].n /\ k'[t].found = k[t].found + 1 /\ k'[t].pc = "add" /\ k'[t].who = v
        BY <1>8, <1>12
      <4>2. k'[t].n > 0 /\ k'[t].n <= k'[t].found
        BY <3>4, <3>5, <4>1
      <4> QED
        BY <4>1, <4>2, <1>13, <1>15
    <3>7. v \in Coming(t)'
      BY <3>6 DEF Coming
    <3>8. k'[t].g = h
      BY <3>2, <3>3, <1>15
    <3> QED
      BY <2>2, <3>7, <3>8 DEF Findable
  <2>3. CASE u # v
    BY <2>1, <2>3, <1>0, <1>14, <1>21, <1>22, TakesFindable
  <2> QED
    BY <2>2, <2>3
<1>23. Owes'
  <2>1. ASSUME NEW x \in Wakers, NEW u \in owed'[x]
        PROVE  w'[u].bits = w[u].bits /\ (Findable(u, k[x].f) => Findable(u, k[x].f)')
    <3>1. PICK h : h = k[x].f
      OBVIOUS
    <3>2. Findable(u, h) => Findable(u, h)'
      BY <2>1, <3>1, <1>22
    <3>3. k'[x].f = h
      BY <3>1, <1>15
    <3> QED
      BY <3>1, <3>2, <3>3, <1>13 DEF Findable
  <2> QED
    BY <1>0, <1>10, <1>12, <1>19, <2>1, WorkingOwes
<1> QED
  BY <1>12, <1>16, <1>17, <1>18, <1>20, <1>23 DEF IInv

\* plist_add: v, which is on no chain, comes to the end of that of b.
LEMMA ChainOn ==
  ASSUME TypeOK, Places, NEW b \in Buckets, NEW v \in Waiters, ~Queued(v),
         chain' = [chain EXCEPT ![b] = Append(@, v)]
  PROVE  /\ chain' \in [Buckets -> Seq(Waiters)]
         /\ \A c \in Buckets \ {b} : chain'[c] = chain[c]
         /\ Len(chain'[b]) = Len(chain[b]) + 1 /\ ToSet(chain'[b]) = ToSet(chain[b]) \cup {v}
         /\ \A c \in Buckets : IsInjective(chain'[c])
         /\ \A u : Queued(u)' <=> (Queued(u) \/ u = v)
<1>1. chain \in [Buckets -> Seq(Waiters)]
  BY DEF TypeOK
<1>2. v \notin ToSet(chain[b]) /\ chain[b] \in Seq(Waiters) /\ IsInjective(chain[b])
  BY ChainIs DEF Queued
<1> DEFINE o == Append(chain[b], v)
<1>3. /\ o \in Seq(Waiters) /\ Len(o) = Len(chain[b]) + 1
      /\ IsInjective(o) /\ ToSet(o) = ToSet(chain[b]) \cup {v}
  BY <1>2, AppendIs
<1>4. chain' = [chain EXCEPT ![b] = o]
  OBVIOUS
<1> HIDE DEF o
<1>5. chain'[b] = o /\ \A c \in Buckets \ {b} : chain'[c] = chain[c]
  BY <1>1, <1>4
<1>6. chain' \in [Buckets -> Seq(Waiters)]
  BY <1>1, <1>3, <1>4
<1>7. \A c \in Buckets : IsInjective(chain'[c])
  <2> TAKE c \in Buckets
  <2>1. CASE c = b
    BY <2>1, <1>3, <1>5
  <2>2. CASE c # b
    BY <2>2, <1>5, ChainIs
  <2> QED
    BY <2>1, <2>2
<1>8. \A u : Queued(u)' <=> (Queued(u) \/ u = v)
  BY <1>3, <1>5 DEF Queued
<1> QED
  BY <1>3, <1>5, <1>6, <1>7, <1>8

LEMMA PutOnIInv ==
  ASSUME IInv, NEW t \in Wakers, PutOn(t)
  PROVE  IInv'
<1>0. TypeOK /\ Calling /\ Waking /\ Places /\ Locks /\ Counted /\ Owes
  BY DEF IInv
<1>1. k[t].pc = "add" /\ UNCHANGED <<word, lock, owed, count>>
  BY DEF PutOn
<1>2. PICK q \in WakerState, b1 \in Buckets, b \in Buckets :
        /\ q = k[t] /\ Rouse(q) /\ q.f \in Futexes /\ q.g \in Futexes
        /\ b1 = B1(t) /\ b1 = Hash[q.f] /\ b = B2(t) /\ b = Hash[q.g]
  BY <1>0, <1>1, CallerIs
<1>3. PICK f \in Futexes, g \in Futexes :
        f = k[t].f /\ g = k[t].g /\ f = q.f /\ g = q.g /\ b1 = Hash[f] /\ b = Hash[g]
  BY <1>2
<1>4. PICK v \in Waiters : v = k[t].who /\ v = q.who
  BY <1>1, <1>2 DEF Rouse
<1>5. w[v].pc \in InCall /\ ~w[v].given /\ ~Queued(v) /\ w[v].ptr = b1 /\ b1 # b /\ Requeues(t)
  <2>1. Hand(t)
    BY <1>0 DEF Places
  <2> QED
    BY <2>1, <1>1, <1>2, <1>4 DEF Hand
<1>6. PICK r \in WaiterState : r = w[v] /\ Call(v, r) /\ r.pc \in InCall /\ ~r.given
  BY <1>0, <1>5, RecordIs
<1> DEFINE e == [r EXCEPT !.ptr = b, !.key = g]
           s == [q EXCEPT !.pc = "next", !.who = None]
<1>7. /\ Turns(t, s) /\ Becomes(v, e)
      /\ chain' = [chain EXCEPT ![b] = Append(@, v)] /\ waiters' = [waiters EXCEPT ![b] = @ + 1]
  <2>1. /\ chain' = [chain EXCEPT ![B2(t)] = Append(@, k[t].who)]
        /\ waiters' = [waiters EXCEPT ![B2(t)] = @ + 1]
        /\ Becomes(k[t].who, [w[k[t].who] EXCEPT !.ptr = B2(t), !.key = k[t].g])
        /\ Turns(t, [k[t] EXCEPT !.pc = "next", !.who = None])
    BY Zenon DEF PutOn
  <2>2. k[t].who = v /\ B2(t) = b /\ k[t] = q /\ k[t].g = g /\ w[v] = r
    BY <1>2, <1>3, <1>4, <1>6
  <2> QED
    BY <2>1, <2>2
<1>8. /\ s \in WakerState /\ Rouse(s) /\ s.pc = "next" /\ s.pc \in Inside
      /\ s.op = k[t].op /\ s.f = k[t].f /\ s.g = k[t].g /\ s.n = k[t].n
      /\ s.m = k[t].m /\ s.bits = k[t].bits /\ s.found = k[t].found
  BY <1>1, <1>2 DEF WakerState, Rouse, Inside, Maybe
<1>9. /\ e \in WaiterState /\ Call(v, e) /\ e.ptr = b /\ e.pc = r.pc /\ e.key = g
      /\ e.bits = r.bits /\ e.given = r.given /\ e.addr = r.addr /\ e.asleep = r.asleep
  BY <1>3, <1>6 DEF WaiterState, Call, InCall, Out, Maybe
<1> HIDE DEF s, e
<1>10. Working(t, s)
  <2>1. /\ k' \in [Wakers -> WakerState] /\ Waking' /\ k'[t] = s /\ \A x \in Wakers \ {t} : k'[x] = k[x]
    BY <1>0, <1>7, <1>8, OneWaker
  <2> QED
    BY <2>1, <1>8 DEF Working
<1>11. /\ w' \in Tasks /\ Calling' /\ w'[v] = e /\ \A u \in Waiters \ {v} : w'[u] = w[u]
  BY <1>0, <1>7, <1>9, OneWaiter
<1>12. /\ k[t].pc \in Inside /\ k'[t] = s /\ \A x \in Wakers \ {t} : k'[x] = k[x]
       /\ k' \in [Wakers -> WakerState] /\ Waking' /\ k'[t].pc = "next"
  BY <1>1, <1>8, <1>10 DEF Inside, Working
<1>13. \A u \in Waiters : /\ w'[u].pc = w[u].pc /\ w'[u].bits = w[u].bits /\ w'[u].addr = w[u].addr
                          /\ w'[u].given = w[u].given /\ w'[u].asleep = w[u].asleep
                          /\ u # v => w'[u] = w[u]
  BY <1>6, <1>9, <1>11
<1>14. /\ chain' \in [Buckets -> Seq(Waiters)]
       /\ \A c \in Buckets \ {b} : chain'[c] = chain[c]
       /\ Len(chain'[b]) = Len(chain[b]) + 1 /\ ToSet(chain'[b]) = ToSet(chain[b]) \cup {v}
       /\ \A c \in Buckets : IsInjective(chain'[c])
       /\ \A u : Queued(u)' <=> (Queued(u) \/ u = v)
  BY <1>0, <1>5, <1>7, ChainOn
<1>15. /\ \A x \in Wakers : B1(x)' = B1(x) /\ B2(x)' = B2(x) /\ Requeues(x)' = Requeues(x)
       /\ \A x \in Wakers : k'[x].f = k[x].f /\ k'[x].g = k[x].g
       /\ \A c : Announcers(c)' = Announcers(c)
  BY <1>10, <1>12, WorkingIs
<1>16. Places'
  <2>1. ASSUME NEW c \in Buckets, NEW u \in ToSet(chain'[c]) PROVE OnChain(u, c)'
    <3>1. CASE u = v
      <4>1. c = b
        BY <3>1, <2>1, <1>5, <1>14 DEF Queued
      <4> QED
        BY <3>1, <4>1, <1>3, <1>6, <1>9, <1>11 DEF OnChain
    <3>2. CASE u # v
      <4>1. u \in ToSet(chain[c])
        BY <3>2, <2>1, <1>14
      <4>2. u \in Waiters /\ OnChain(u, c)
        BY <4>1, <1>0, ChainIs
      <4> QED
        BY <3>2, <4>2, <1>13 DEF OnChain
    <3> QED
      BY <3>1, <3>2
  <2>2. \A c \in Buckets : IsInjective(chain'[c])
    BY <1>14
  <2>3. \A x \in Wakers : Hand(x)'
    <3> TAKE x \in Wakers
    <3>1. CASE x = t
      BY <3>1, <1>12 DEF Hand
    <3>2. CASE x # t
      <4>1. k'[x] = k[x] /\ Hand(x)
        BY <3>2, <1>0, <1>12 DEF Places
      <4>2. k[x].pc \in {"null", "add"} => k[x].who \in Waiters /\ k[x].who # v
        BY <3>2, <1>0, <1>1, <1>4, HandAlone, WakerIs DEF Rouse
      <4> QED
        BY <4>1, <4>2, <1>13, <1>14, <1>15 DEF Hand
    <3> QED
      BY <3>1, <3>2
  <2>4. ASSUME NEW u \in Waiters
        PROVE  /\ w'[u].pc \in InCall =>
                    Queued(u)' \/ w'[u].given \/ \E x \in Wakers : k'[x].pc = "add" /\ k'[x].who = u
               /\ w'[u].given /\ w'[u].ptr # None => \E x \in Wakers : k'[x].pc = "null" /\ k'[x].who = u
               /\ w'[u].given /\ w'[u].asleep =>
                    \E x \in Wakers : k'[x].pc \in {"null", "wake"} /\ k'[x].who = u
    <3>1. CASE u = v
      BY <3>1, <1>6, <1>9, <1>11, <1>14
    <3>2. CASE u # v
      <4>1. \A x \in Wakers : k[x].pc \in {"null", "wake", "add"} /\ k[x].who = u => k'[x] = k[x]
        BY <3>2, <1>4, <1>12
      <4>2. w'[u] = w[u] /\ (Queued(u) => Queued(u)')
        BY <3>2, <1>13, <1>14
      <4> QED
        BY <4>1, <4>2, <1>0 DEF Places
    <3> QED
      BY <3>1, <3>2
  <2> QED
    BY <2>1, <2>2, <2>3, <2>4 DEF Places
<1>17. Locks'
  <2>1. /\ k'[t].pc \in Inside /\ k'[t].f = k[t].f /\ k'[t].g = k[t].g
    BY <1>8, <1>12
  <2>2. \A u \in Waiters : w[u].pc = "queue" => w'[u].ptr = w[u].ptr
    <3>1. w[v].pc # "queue"
      BY <1>5 DEF InCall
    <3> QED
      BY <3>1, <1>13
  <2> QED
    BY <1>0, <1>1, <1>12, <1>13, <2>1, <2>2, InsideLocks
<1>18. Counted' /\ waiters' \in [Buckets -> Nat]
  <2>1. \A c : Lookers(c)' = Lookers(c)
    BY <1>13, LookersSame
  <2>2. waiters \in [Buckets -> Nat]
    BY <1>0 DEF TypeOK
  <2>3. /\ waiters' \in [Buckets -> Nat] /\ waiters'[b] = waiters[b] + 1
        /\ \A c \in Buckets \ {b} : waiters'[c] = waiters[c]
    <3>1. waiters[b] + 1 \in Nat
      BY <2>2
    <3> QED
      BY <3>1, <2>2, <1>7
  <2>4. ASSUME NEW c \in Buckets
        PROVE  waiters'[c] = Len(chain'[c]) + Cardinality(Lookers(c)') + Cardinality(Announcers(c)')
    <3>1. /\ waiters[c] = Len(chain[c]) + Cardinality(Lookers(c)) + Cardinality(Announcers(c))
          /\ waiters[c] \in Nat /\ Len(chain[c]) \in Nat
          /\ Cardinality(Lookers(c)) \in Nat /\ Cardinality(Announcers(c)) \in Nat
      BY <1>0, CountedIs
    <3>2. Lookers(c)' = Lookers(c) /\ Announcers(c)' = Announcers(c)
      BY <2>1, <1>15
    <3>3. CASE c = b
      BY <3>1, <3>2, <3>3, <1>14, <2>3
    <3>4. CASE c # b
      BY <3>1, <3>2, <3>4, <1>14, <2>3
    <3> QED
      BY <3>3, <3>4
  <2> QED
    BY <2>3, <2>4 DEF Counted
<1>19. TypeOK'
  BY <1>0, <1>1, <1>11, <1>12, <1>14, <1>18 DEF TypeOK, Tasks
<1>20. ASSUME NEW y \in Wakers \ {t} PROVE Coming(y)' = Coming(y)
  <2>1. k[y].pc \in {"next", "add"} => B1(y) \in Buckets /\ B1(y) # b
    <3>1. lock[b] = t
      BY <1>0, <1>2, <1>12, HeldIs
    <3>2. k[y].pc \in Inside => B1(y) \in Buckets /\ lock[B1(y)] = y
      BY <1>0, HeldIs
    <3> QED
      BY <3>1, <3>2 DEF Inside
  <2>2. k[y].pc \in {"next", "add"} => chain'[B1(y)] = chain[B1(y)]
    BY <2>1, <1>14
  <2>3. k[y].pc \in {"next", "add"} =>
          \A u \in ToSet(chain[B1(y)]) : w'[u].key = w[u].key /\ w'[u].bits = w[u].bits
    BY <2>1, <1>0, <1>5, <1>13, ChainIs
  <2>4. k'[y] = k[y]
    BY <1>12
  <2> QED
    BY <2>2, <2>3, <2>4, ComingSame
<1>21. ASSUME NEW u \in Coming(t), u # v PROVE u \in Coming(t)'
  <2>1. chain'[Hash[f]] = chain[Hash[f]]
    BY <1>3, <1>5, <1>14
  <2>2. \A a \in ToSet(chain[Hash[f]]) : w'[a].key = w[a].key /\ w'[a].bits = w[a].bits
    BY <1>0, <1>3, <1>5, <1>13, ChainIs
  <2>3. k'[t].bits = k[t].bits
    BY <1>8, <1>12
  <2>4. Found(t, f)' = Found(t, f)
    BY <2>1, <2>2, <2>3, FoundSame
  <2>5. \A a, c : Ahead(f, a, c)' = Ahead(f, a, c)
    BY <2>1 DEF Ahead
  <2>6. /\ k[t].n > 0 /\ k[t].n <= k[t].found /\ u \in Found(t, f)
        /\ k[t].found + Cardinality({a \in Found(t, f) : Ahead(f, a, u)}) < k[t].n + k[t].m
    BY <1>3, <1>4, <1>21 DEF Coming
  <2>7. /\ k'[t].n = k[t].n /\ k'[t].m = k[t].m /\ k'[t].found = k[t].found /\ k'[t].f = f
        /\ k'[t].pc = "next" /\ Requeues(t)'
    BY <1>3, <1>5, <1>8, <1>12, <1>15
  <2>8. {a \in Found(t, f) : Ahead(f, a, u)} = {a \in Found(t, f)' : Ahead(f, a, u)'}
    BY <2>4, <2>5
  <2>9. /\ Found(t, f)' = Found(t, k[t].f)'
        /\ {a \in Found(t, f)' : Ahead(f, a, u)'} = {a \in Found(t, k[t].f)' : Ahead(k[t].f, a, u)'}
    BY <2>7 DEF Found, Ahead
  <2> QED
    BY <2>4, <2>6, <2>7, <2>8, <2>9 DEF Coming
<1>22. ASSUME NEW u \in Waiters, NEW h, Findable(u, h)
       PROVE  Findable(u, h)'
  <2>1. CASE u = v
    <3>1. w[v].pc # "queue"
      BY <1>5 DEF InCall
    <3>2. PICK y \in Wakers : k[y].g = h /\ v \in Coming(y)
      BY <2>1, <3>1, <1>5, <1>22 DEF Findable
    <3>3. y = t
      BY <3>2, <1>0, <1>2, <1>5, <1>12, ComingHere
    <3>4. w'[v].key = h /\ Queued(v)'
      BY <3>2, <3>3, <1>3, <1>9, <1>11, <1>14
    <3> QED
      BY <2>1, <3>4 DEF Findable
  <2>2. CASE u # v
    <3>1. CASE w[u].key = h /\ (w[u].pc = "queue" \/ Queued(u))
      BY <2>2, <3>1, <1>13, <1>14 DEF Findable
    <3>2. ASSUME NEW y \in Wakers, k[y].g = h, u \in Coming(y) PROVE Findable(u, h)'
      <4>1. u \in Coming(y)'
        BY <2>2, <3>2, <1>20, <1>21
      <4> QED
        BY <3>2, <4>1, <1>15 DEF Findable
    <3> QED
      BY <3>1, <3>2, <1>22 DEF Findable
  <2> QED
    BY <2>1, <2>2
<1>23. Owes'
  <2>1. ASSUME NEW x \in Wakers, NEW u \in owed'[x]
        PROVE  w'[u].bits = w[u].bits /\ (Findable(u, k[x].f) => Findable(u, k[x].f)')
    <3>1. PICK h : h = k[x].f
      OBVIOUS
    <3>2. u \in Waiters
      BY <1>0, <1>1, <2>1 DEF TypeOK
    <3>3. Findable(u, h) => Findable(u, h)'
      BY <3>2, <1>22
    <3>4. k'[x].f = h
      BY <3>1, <1>15
    <3> QED
      BY <3>1, <3>2, <3>3, <3>4, <1>13 DEF Findable
  <2>2. \A x \in Wakers : owed'[x] \subseteq owed[x]
    BY <1>1
  <2> QED
    BY <1>0, <1>10, <1>12, <2>1, <2>2, WorkingOwes
<1> QED
  BY <1>11, <1>12, <1>16, <1>17, <1>18, <1>19, <1>23 DEF IInv

(***************************************************************************)
(* The system.                                                             *)
(***************************************************************************)

LEMMA InitIInv ==
  ASSUME Init
  PROVE  IInv
<1>1. /\ word = [f \in Futexes |-> 0] /\ waiters = [b \in Buckets |-> 0]
      /\ chain = [b \in Buckets |-> <<>>] /\ lock = [b \in Buckets |-> None]
      /\ w = [t \in Waiters |-> Idle("none")] /\ k = [t \in Wakers |-> Rest]
      /\ owed = [t \in Wakers |-> {}] /\ count = [what \in {"waits", "posts", "signals"} |-> 0]
  BY DEF Init
<1>2. \A v \in Waiters : /\ w[v] \in WaiterState /\ Call(v, w[v]) /\ w[v].pc = "idle"
                         /\ w[v].given = FALSE
  BY <1>1, IdleIs DEF Idle
<1>3. \A x \in Wakers : /\ k[x] \in WakerState /\ Rouse(k[x]) /\ k[x].pc = "idle"
  BY <1>1 DEF Rest, WakerState, Rouse, Maybe
<1>4. TypeOK
  <2>1. chain \in [Buckets -> Seq(Waiters)]
    BY <1>1
  <2>2. lock \in [Buckets -> Maybe(Waiters \cup Wakers)]
    BY <1>1 DEF Maybe
  <2>3. w \in [Waiters -> WaiterState] /\ k \in [Wakers -> WakerState]
    BY <1>1, <1>2, <1>3
  <2>4. owed \in [Wakers -> SUBSET Waiters]
    BY <1>1
  <2>5. /\ word \in [Futexes -> Nat] /\ waiters \in [Buckets -> Nat]
        /\ count \in [{"waits", "posts", "signals"} -> Nat]
    BY <1>1
  <2> QED
    BY <2>1, <2>2, <2>3, <2>4, <2>5 DEF TypeOK
<1>5. Calling /\ Waking
  BY <1>2, <1>3 DEF Calling, Waking
<1>6. \A b \in Buckets : IsInjective(chain[b]) /\ ToSet(chain[b]) = {} /\ Len(chain[b]) = 0
  BY <1>1 DEF IsInjective, ToSet
<1>7. Places
  BY <1>2, <1>3, <1>6 DEF Places, Hand, InCall
<1>8. Locks
  <2>1. \A x \in Wakers : \A b : ~Holds(x, b)
    BY <1>3 DEF Holds, Inside
  <2> QED
    BY <2>1, <1>1, <1>2, Ground DEF Locks
<1>9. Counted
  <2>1. \A b : Lookers(b) = {} /\ Announcers(b) = {}
    BY <1>2, <1>3 DEF Lookers, Announcers
  <2>2. Cardinality({}) = 0
    BY FS_EmptySet
  <2>3. \A b \in Buckets : waiters[b] = 0
    BY <1>1
  <2>4. \A b \in Buckets :
          waiters[b] = Len(chain[b]) + Cardinality(Lookers(b)) + Cardinality(Announcers(b))
    <3> TAKE b \in Buckets
    <3>1. Cardinality(Lookers(b)) = 0 /\ Cardinality(Announcers(b)) = 0
      BY <2>1, <2>2
    <3> QED
      BY <3>1, <2>3, <1>6
  <2> QED
    BY <2>4 DEF Counted
<1>10. Owes
  BY <1>1 DEF Owes
<1> QED
  BY <1>4, <1>5, <1>7, <1>8, <1>9, <1>10 DEF IInv

LEMMA WaiterIInv ==
  ASSUME IInv, NEW t \in Waiters, WaiterNext(t)
  PROVE  IInv'
<1>0. TypeOK /\ Calling
  BY DEF IInv
<1>1. CASE \E f \in WaitsOn[t], r \in Requests[t], bits \in Bitsets : Wait(t, f, r, bits)
  BY <1>0, <1>1, WaitSteady, SteadyIInv
<1>2. CASE QueueLock(t)
  BY <1>2, QueueLockIInv
<1>3. CASE WaitSetup(t)
  BY <1>3, WaitSetupIInv
<1>4. CASE WaitFault(t)
  BY <1>4, WaitFaultIInv
<1>5. CASE QueueMe(t)
  BY <1>5, QueueMeIInv
<1>6. CASE TimerFires(t)
  BY <1>0, <1>6, TimerSteady, SteadyIInv
<1>7. CASE Check(t)
  BY <1>0, <1>7, CheckSteady, SteadyIInv
<1>8. CASE Unqueue(t)
  BY <1>0, <1>8, UnqueueSteady, SteadyIInv
<1>9. CASE UnqueueLocked(t) /\ w[t].saw # w[t].ptr
  BY <1>0, <1>9, RetrySteady, SteadyIInv
<1>10. CASE UnqueueLocked(t) /\ w[t].saw = w[t].ptr
  BY <1>10, UnqueueLockedIInv
<1>11. CASE Why(t)
  BY <1>0, <1>11, WhySteady, SteadyIInv
<1>12. CASE Restart(t)
  BY <1>0, <1>12, RestartSteady, SteadyIInv
<1>13. CASE \E sig \in Signals[t] : Signal(t, sig)
  BY <1>0, <1>13, SignalSteady, SteadyIInv
<1>14. CASE Continue(t)
  BY <1>0, <1>14, ContinueSteady, SteadyIInv
<1> QED
  BY <1>1, <1>2, <1>3, <1>4, <1>5, <1>6, <1>7, <1>8, <1>9, <1>10, <1>11, <1>12, <1>13, <1>14
  DEF WaiterNext

LEMMA WakerIInv ==
  ASSUME IInv, NEW t \in Wakers, WakerNext(t)
  PROVE  IInv'
<1>0. TypeOK /\ Counts \subseteq Nat /\ Bitsets \subseteq SUBSET AnyBit
  BY FutexAssumption DEF IInv, AnyBit
<1>1. CASE PostOne(t)
  <2>1. PICK f \in Futexes, n \in Counts, bits \in Bitsets :
          Post(t, Asks("wake", f, f, n, 0, bits, FALSE))
    BY <1>1 DEF PostOne
  <2>2. n \in Nat /\ bits \in SUBSET AnyBit
    BY <1>0
  <2>3. Asked(Asks("wake", f, f, n, 0, bits, FALSE), f)
    BY <1>0, <2>2, AsksIs
  <2> QED
    BY <2>1, <2>3, PostIInv
<1>2. CASE PostTwo(t)
  <2>1. PICK op \in {"requeue", "cmp", "op"}, f \in Futexes, g \in Futexes,
             n \in Counts, m \in Counts, cond \in BOOLEAN :
          /\ f # g /\ (cond => op = "op")
          /\ Post(t, Asks(op, f, g, n, m, AnyBit, cond))
    BY <1>2 DEF PostTwo
  <2>2. n \in Nat /\ m \in Nat /\ AnyBit \in SUBSET AnyBit /\ op \in {"wake", "requeue", "cmp", "op"}
    BY <1>0
  <2>3. Asked(Asks(op, f, g, n, m, AnyBit, cond), f)
    BY <1>0, <2>1, <2>2, AsksIs
  <2> QED
    BY <2>1, <2>3, PostIInv
<1>3. CASE Begin(t)
  BY <1>3, BeginIInv
<1>4. CASE LockLow(t)
  BY <1>4, LockLowIInv
<1>5. CASE Scan(t)
  BY <1>5, ScanIInv
<1>6. CASE Fault(t)
  BY <1>6, FaultIInv
<1>7. CASE Dequeue(t)
  BY <1>7, DequeueIInv
<1>8. CASE Release(t)
  BY <1>8, ReleaseIInv
<1>9. CASE WakeUp(t)
  BY <1>9, WakeUpIInv
<1>10. CASE Rename(t)
  BY <1>10, RenameIInv
<1>11. CASE TakeOff(t)
  BY <1>11, TakeOffIInv
<1>12. CASE PutOn(t)
  BY <1>12, PutOnIInv
<1>13. CASE Unlock(t)
  BY <1>13, UnlockIInv
<1>14. CASE Return(t)
  BY <1>14, ReturnIInv
<1> QED
  BY <1>1, <1>2, <1>3, <1>4, <1>5, <1>6, <1>7, <1>8, <1>9, <1>10, <1>11, <1>12, <1>13, <1>14
  DEF WakerNext

LEMMA StutterIInv ==
  ASSUME IInv, UNCHANGED vars
  PROVE  IInv'
<1>0. TypeOK /\ Calling
  BY DEF IInv
<1>1. /\ word' = word /\ waiters' = waiters /\ chain' = chain /\ lock' = lock /\ w' = w /\ k' = k
      /\ owed' = owed /\ count' = count
  BY DEF vars
<1>2. TypeOK' /\ Calling' /\ Steady
  BY <1>0, <1>1, KeptSelf DEF TypeOK, Calling, Steady, hash
<1> QED
  BY <1>2, SteadyIInv

\* The inductive invariant holds in every reachable state.
THEOREM AlwaysIInv == Spec => []IInv
<1>1. Init => IInv
  BY InitIInv
<1>2. IInv /\ [Next]_vars => IInv'
  <2> SUFFICES ASSUME IInv, [Next]_vars PROVE IInv'
    OBVIOUS
  <2>0. TypeOK /\ Calling
    BY DEF IInv
  <2>1. CASE \E t \in Waiters : WaiterNext(t)
    BY <2>1, WaiterIInv
  <2>2. CASE \E t \in Wakers : WakerNext(t)
    BY <2>2, WakerIInv
  <2>3. CASE Tick
    BY <2>0, <2>3, TickSteady, SteadyIInv
  <2>4. CASE UNCHANGED vars
    BY <2>4, StutterIInv
  <2> QED
    BY <2>1, <2>2, <2>3, <2>4 DEF Next
<1> QED
  BY <1>1, <1>2, PTL DEF Spec

\* The queues agree with the tasks, the wakers and the counters: a waiter lies
\* on the chain that its lock_ptr tells, and a waker that skips the lock of a
\* bucket because its counter is zero (line 1250) misses nobody who is queued.
THEOREM AlwaysQueuesAgree == Spec => []QueuesAgree
<1>1. IInv => QueuesAgree
  <2> SUFFICES ASSUME IInv PROVE QueuesAgree
    OBVIOUS
  <2>0. TypeOK /\ Places /\ Counted
    BY DEF IInv
  <2>1. ASSUME NEW b \in Buckets
        PROVE  /\ IsInjective(chain[b])
               /\ \A v \in ToSet(chain[b]) : /\ w[v].pc \in {"check", "sleep", "unqueue", "unlock"}
                                             /\ w[v].ptr = b /\ Hash[w[v].key] = b
    BY <2>0 DEF Places, OnChain, InCall
  <2>2. ASSUME NEW t \in Wakers, k[t].pc \in {"null", "add"}
        PROVE  w[k[t].who].pc \in {"check", "sleep", "unqueue", "unlock"}
    BY <2>0, <2>2 DEF Places, Hand, InCall
  <2>3. ASSUME NEW b \in Buckets
        PROVE  waiters[b] =
                 Len(chain[b])
                 + Cardinality({v \in Waiters : /\ w[v].pc \in {"lock", "queue"}
                                                /\ Hash[w[v].addr] = b})
                 + Cardinality({t \in Wakers : /\ Requeues(t) /\ B2(t) = b
                                               /\ k[t].pc \notin {"key", "idle"}})
    BY <2>0 DEF Counted, Lookers, Announcers
  <2> QED
    BY <2>0, <2>1, <2>2, <2>3 DEF QueuesAgree
<1> QED
  BY <1>1, AlwaysIInv, PTL

\* No wake is lost: a call of futex_wake that returns less than it asked for
\* has left nobody of those that it owed a wakeup, and a waiter that was counted
\* as woken never times out, starts again or is interrupted.
THEOREM AlwaysNoWakeLost == Spec => []NoWakeLost
<1>1. IInv => NoWakeLost
  <2> SUFFICES ASSUME IInv PROVE NoWakeLost
    OBVIOUS
  <2>1. \A t \in Wakers : k[t].pc = "return" /\ k[t].found < Quota(t) => owed[t] = {}
    BY DEF IInv, Owes
  <2>2. \A t \in Waiters : w[t].given => w[t].pc \in InCall
    BY GivenInCall DEF IInv
  <2> QED
    BY <2>1, <2>2 DEF NoWakeLost, InCall
<1> QED
  BY <1>1, AlwaysIInv, PTL

\* A timeout of a second or more does not expire before the monotonic clock, which
\* runs while the waiter is frozen, has moved on by TDF times what was asked for,
\* up to the rounding of one division.
THEOREM AlwaysNotEarly == Spec => []NotEarly
<1>1. IInv => NotEarly
  <2> SUFFICES ASSUME IInv, NEW t \in Waiters, w[t].pc = "why", ~w[t].to,
                      w[t].request >= Second, Tdf[t] > 0
               PROVE  w[t].age * 1000 > w[t].request * Tdf[t] - 1000
    BY DEF NotEarly
  <2>1. PICK r \in WaiterState : r = w[t] /\ Call(t, r)
    BY RecordIs DEF IInv
  <2>2. r.due # None /\ r.due <= r.age /\ r.request # None /\ r.due = DilateRequest(t, r.request)
    BY <2>1 DEF Call
  <2>3. r.request \in Nat /\ r.age \in Nat /\ Tdf[t] \in Nat /\ Second \in Nat
    BY <2>2, FutexAssumption DEF WaiterState, Maybe
  <2>4. PICK a \in Nat, q \in Nat, d \in Nat : a = r.age /\ q = r.request /\ d = Tdf[t]
    BY <2>3
  <2>5. CASE d = 1000
    <3>1. r.due = q
      BY <2>2, <2>4, <2>5 DEF DilateRequest
    <3> QED
      BY <3>1, <2>1, <2>2, <2>4, <2>5
  <2>6. CASE d # 1000
    <3>1. r.due = (q * d) \div 1000
      BY <2>1, <2>2, <2>3, <2>4, <2>6 DEF DilateRequest
    <3>2. PICK p \in Nat : p = q * d
      BY <2>4
    <3>3. (p \div 1000) * 1000 > p - 1000 /\ p \div 1000 \in Nat
      BY <3>2
    <3>4. a >= p \div 1000
      BY <3>1, <3>2, <3>3, <2>2, <2>4
    <3>5. a * 1000 > p - 1000
      BY <3>3, <3>4, <3>2, <2>4
    <3> QED
      BY <3>2, <3>5, <2>1, <2>4
  <2> QED
    BY <2>5, <2>6
<1> QED
  BY <1>1, AlwaysIInv, PTL

\* Nobody is stuck: a waiter that was woken and still sleeps is in the hands of
\* the waker that is about to wake it, and no two calls wait for each other's
\* bucket.
THEOREM AlwaysNobodyStuck == Spec => []NobodyStuck
<1>1. IInv => NobodyStuck
  <2> SUFFICES ASSUME IInv PROVE NobodyStuck
    OBVIOUS
  <2>0. TypeOK /\ Waking /\ Places /\ Locks
    BY DEF IInv
  <2>1. ASSUME NEW v \in Waiters, w[v].given, w[v].asleep
        PROVE  \E t \in Wakers : k[t].pc \in {"null", "wake"} /\ k[t].who = v
    BY <2>0, <2>1 DEF Places
  <2>2. ASSUME NEW s \in Wakers, NEW t \in Wakers, s # t, k[s].pc = "lock2", k[t].pc = "lock2",
               NEW b \in {B1(s), B2(s)}, lock[b] = t
        PROVE  Low(s) < Low(t)
    <3>1. B1(s) \in Nat /\ B2(s) \in Nat /\ b \in Buckets /\ Low(s) \in Buckets
      BY <2>0, <2>2, WakerIs, Ground
    <3>2. Holds(t, b)
      BY <2>0, <2>2, <3>1 DEF Locks
    <3>3. b = Low(t)
      BY <2>2, <3>2 DEF Holds, Inside
    <3>4. lock[Low(s)] = s
      BY <2>0, <2>2, <3>1 DEF Locks, Holds
    <3>5. b # Low(s)
      BY <2>2, <3>4
    <3> QED
      BY <3>1, <3>3, <3>5 DEF Low
  <2>3. \A s, t \in Wakers : k[s].pc = "lock2" => Low(s) \in Nat
    BY <2>0, WakerIs, Ground
  <2>4. ASSUME NEW s \in Wakers, NEW t \in Wakers, s # t,
               k[s].pc = "lock2", \E b \in {B1(s), B2(s)} : lock[b] = t,
               k[t].pc = "lock2", \E b \in {B1(t), B2(t)} : lock[b] = s
        PROVE  FALSE
    <3>1. Low(s) < Low(t)
      BY <2>2, <2>4
    <3>2. Low(t) < Low(s)
      BY <2>2, <2>4
    <3> QED
      BY <3>1, <3>2, <2>3, <2>4
  <2> QED
    BY <2>1, <2>4 DEF NobodyStuck
<1> QED
  BY <1>1, AlwaysIInv, PTL

=============================================================================

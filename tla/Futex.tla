------------------------------- MODULE Futex -------------------------------
(***************************************************************************)
(* kernel/futex.c without priority inheritance: FUTEX_WAIT with its        *)
(* timeout in virtual time, FUTEX_WAKE, FUTEX_REQUEUE, FUTEX_CMP_REQUEUE   *)
(* and FUTEX_WAKE_OP.                                                      *)
(*                                                                         *)
(* A step is what happens between two accesses to memory that another task *)
(* also accesses, or all that happens under a lock where only the holder   *)
(* of that lock looks.  Memory is sequentially consistent: the comment at  *)
(* the head of the file argues that its barriers suffice for that.         *)
(*                                                                         *)
(* Waiters call futex_wait; they are frozen (SIGSTOP), catch signals and   *)
(* time out.  Wakers change a futex in user space and then wake or requeue *)
(* its waiters, as condition variables and locks do.                       *)
(***************************************************************************)
EXTENDS Integers, Sequences, SequencesExt, FiniteSets, FiniteSetsExt

CONSTANTS
    Waiters, Wakers,   \* tasks
    Futexes,           \* user addresses
    Hash,              \* the hash bucket of each, a natural number
    Bitsets,           \* sets of bits that are waited for and woken
    Tdf,               \* the dilation of each waiter
    Second,            \* a second of the clock, from where timeouts are dilated
    Requests,          \* timeouts that each asks for; None: no timeout
    Counts,            \* what wakers ask for: nr_wake, nr_requeue, nr_wake2
    None,
    WaitsOn,           \* the futexes that each waiter waits on
    Does,              \* what each waker calls, and on which futexes
    Signals,           \* what may hit each waiter
    MaxWaits,          \* bound: calls of futex_wait
    MaxPosts,          \* bound: calls of wakers
    MaxSignals         \* bound: signals, spurious wakeups and page faults

ASSUME FutexAssumption ==
    /\ Hash \in [Futexes -> Nat] /\ Tdf \in [Waiters -> Nat]
    /\ IsFiniteSet(Waiters) /\ IsFiniteSet(Wakers)
    /\ Waiters \cap Wakers = {} /\ None \notin Nat \cup Futexes \cup Waiters \cup Wakers
    /\ Requests \in [Waiters -> SUBSET (Nat \cup {None})] /\ Counts \subseteq Nat
    /\ {} \notin Bitsets
    /\ Signals \in [Waiters -> SUBSET {"stop", "catch", "none"}]
    /\ WaitsOn \in [Waiters -> SUBSET Futexes]
    /\ Does \in [Wakers -> SUBSET ({"wake", "requeue", "cmp", "op"} \X Futexes \X Futexes)]
    /\ {MaxWaits, MaxPosts, MaxSignals, Second} \subseteq Nat

VARIABLES
    word,      \* the futexes, in user space
    waiters,   \* hb->waiters
    chain,     \* hb->chain
    lock,      \* who holds hb->lock
    w,         \* waiters: pc, arguments, futex_q, timer, task state
    k,         \* wakers: pc, arguments, and how far the loop over the chain is
    owed,      \* history: waiters that a call of futex_wake must not miss
    count      \* bounds: calls and signals so far

vars == <<word, waiters, chain, lock, w, k, owed, count>>
hash == <<waiters, chain, lock>>

Buckets == {Hash[f] : f \in Futexes}
Free(b) == lock[b] = None

Spend(what, max) ==
    /\ count[what] < max
    /\ count' = [count EXCEPT ![what] = @ + 1]

(***************************************************************************)
(* Waiters.                                                                *)
(***************************************************************************)

\* A task in user space; "age": how long ago the call began, on the monotonic
\* clock, "due": the age at which it times out; "given": a waker has counted it
\* as woken.
Idle(sig) ==
    [pc |-> "idle", addr |-> None, val |-> 0, bits |-> {}, request |-> None,
     due |-> None, age |-> 0, key |-> None, ptr |-> None, saw |-> None, armed |-> FALSE,
     to |-> TRUE, asleep |-> FALSE, sig |-> sig, given |-> FALSE]

Becomes(t, r) == w' = [w EXCEPT ![t] = r]
Goto(t, pc) == Becomes(t, [w[t] EXCEPT !.pc = pc])

\* hrtimer_cancel, and back to user space.
Leave(t) == Becomes(t, Idle(IF w[t].sig = "stop" THEN "stop" ELSE "none"))

Queued(t) == \E b \in Buckets : t \in ToSet(chain[b])

\* plist_del.
Off(s, t) == LET I == {i \in DOMAIN s : s[i] = t}
             IN  IF I = {} THEN s ELSE RemoveAt(s, CHOOSE i \in I : TRUE)

\* History: t no longer waits for those who were to wake it.
NotOwed(t) == owed' = [x \in Wakers |-> owed[x] \ {t}]

\* Mutant: the request is divided by the TDF.
DilateRequest_Inverted(t, r) ==
    IF Tdf[t] \in {0, 1000} \/ r < Second THEN r ELSE (r * 1000) \div Tdf[t]

\* Timeouts below a second are taken as they are.
DilateRequest(t, r) ==
    IF Tdf[t] \in {0, 1000} \/ r < Second THEN r ELSE (r * Tdf[t]) \div 1000

\* sys_futex(FUTEX_WAIT): user space has read the futex.
Wait(t, f, r, bits) ==
    /\ w[t].pc = "idle" /\ w[t].sig # "stop"
    /\ Spend("waits", MaxWaits)
    /\ Becomes(t, [Idle("none") EXCEPT
         !.pc = "inc", !.addr = f, !.val = word[f], !.bits = bits, !.request = r,
         !.due = IF r = None THEN None ELSE DilateRequest(t, r)])
    /\ UNCHANGED <<word, hash, k, owed>>

\* queue_lock: a waiter is counted before the futex is read.
QueueLock(t) ==
    /\ w[t].pc = "inc"
    /\ LET b == Hash[w[t].addr]
       IN  /\ waiters' = [waiters EXCEPT ![b] = @ + 1]
           /\ Becomes(t, [w[t] EXCEPT !.pc = "lock", !.key = w[t].addr, !.ptr = b])
    /\ UNCHANGED <<word, chain, lock, k, owed, count>>

\* futex_wait_setup under the lock: the value is read again, else -EWOULDBLOCK.
WaitSetup(t) ==
    /\ w[t].pc = "lock"
    /\ Free(w[t].ptr)
    /\ IF word[w[t].addr] = w[t].val
       THEN lock' = [lock EXCEPT ![w[t].ptr] = t] /\ Goto(t, "queue") /\ UNCHANGED waiters
       ELSE /\ waiters' = [waiters EXCEPT ![w[t].ptr] = @ - 1]
            /\ Leave(t)
            /\ UNCHANGED lock
    /\ UNCHANGED <<word, chain, k, owed, count>>

\* The page is not there: the lock is dropped, the page fetched, and again.
WaitFault(t) ==
    /\ w[t].pc = "lock"
    /\ Free(w[t].ptr)
    /\ Spend("signals", MaxSignals)
    /\ waiters' = [waiters EXCEPT ![w[t].ptr] = @ - 1]
    /\ Goto(t, "inc")
    /\ UNCHANGED <<word, chain, lock, k, owed>>

\* futex_wait_queue_me: set_current_state, queue_me and the timer.
QueueMe(t) ==
    /\ w[t].pc = "queue"
    /\ chain' = [chain EXCEPT ![w[t].ptr] = Append(@, t)]
    /\ lock' = [lock EXCEPT ![w[t].ptr] = None]
    /\ Becomes(t, [w[t] EXCEPT !.pc = "check", !.armed = w[t].due # None, !.asleep = TRUE])
    /\ UNCHANGED <<word, waiters, k, owed, count>>

\* hrtimer_wakeup.
TimerFires(t) ==
    /\ w[t].armed /\ w[t].due <= w[t].age
    /\ Becomes(t, [w[t] EXCEPT !.armed = FALSE, !.to = FALSE, !.asleep = FALSE])
    /\ UNCHANGED <<word, hash, k, owed, count>>

\* Mutant: the task is marked as sleeping and does not look at the chain after.
Check_Blind(t) ==
    /\ w[t].pc = "check"
    /\ Becomes(t, IF w[t].to THEN [w[t] EXCEPT !.pc = "sleep", !.asleep = TRUE]
                  ELSE [w[t] EXCEPT !.pc = "unqueue", !.asleep = FALSE])
    /\ UNCHANGED <<word, hash, k, owed, count>>

\* It goes to sleep only while it is queued and its timer has not expired.
Check(t) ==
    /\ w[t].pc = "check"
    /\ Becomes(t, IF Queued(t) /\ w[t].to THEN [w[t] EXCEPT !.pc = "sleep"]
                  ELSE [w[t] EXCEPT !.pc = "unqueue", !.asleep = FALSE])
    /\ UNCHANGED <<word, hash, k, owed, count>>

\* schedule returns when somebody has woken the task, or for a signal.
Runs(t) == w[t].pc = "sleep" => ~w[t].asleep \/ w[t].sig # "none"

\* unqueue_me: without the lock, q->lock_ptr tells whether a waker has been.
Unqueue(t) ==
    /\ w[t].pc \in {"sleep", "unqueue"} /\ Runs(t)
    /\ IF w[t].ptr = None THEN Leave(t)
       ELSE Becomes(t, [w[t] EXCEPT !.pc = "unlock", !.saw = w[t].ptr, !.asleep = FALSE])
    /\ UNCHANGED <<word, hash, k, owed, count>>

\* Mutant: it trusts the lock that it saw.
UnqueueLocked_Trusts(t) ==
    /\ w[t].pc = "unlock"
    /\ Free(w[t].saw)
    /\ chain' = [chain EXCEPT ![w[t].saw] = Off(@, t)]
    /\ waiters' = [waiters EXCEPT ![w[t].saw] = @ - 1]
    /\ Goto(t, "why")
    /\ NotOwed(t)
    /\ UNCHANGED <<word, lock, k, count>>

\* Under the lock it saw; a waker may have moved it to another bucket, or
\* woken it.
UnqueueLocked(t) ==
    /\ w[t].pc = "unlock"
    /\ Free(w[t].saw)
    /\ IF w[t].saw # w[t].ptr
       THEN /\ Becomes(t, [w[t] EXCEPT !.pc = "unqueue", !.saw = None])
            /\ UNCHANGED <<waiters, chain, owed>>
       ELSE /\ chain' = [chain EXCEPT ![w[t].ptr] = Off(@, t)]
            /\ waiters' = [waiters EXCEPT ![w[t].ptr] = @ - 1]
            /\ Becomes(t, [w[t] EXCEPT !.pc = "why", !.key = None, !.ptr = None, !.saw = None])
            /\ NotOwed(t)
    /\ UNCHANGED <<word, lock, k, count>>

\* Nobody woke it: timeout, spurious wakeup or signal.
Why(t) ==
    /\ w[t].pc = "why"
    /\ IF ~w[t].to THEN Leave(t)
       ELSE Becomes(t, [w[t] EXCEPT !.pc = IF w[t].sig = "none" THEN "inc" ELSE "signal",
                                    !.armed = @ /\ w[t].sig = "none"])
    /\ UNCHANGED <<word, hash, k, owed, count>>

\* On the way to user space.  After a stop the call starts again, with the same
\* expiry; a handler ends it, or when it has no timeout may let it start again.
Restart(t) ==
    /\ w[t].pc = "signal" /\ w[t].sig \in {"cont", "catch"}
    /\ \/ w[t].sig = "catch" /\ Leave(t)
       \/ /\ w[t].sig = "cont" \/ w[t].due = None
          /\ Becomes(t, [w[t] EXCEPT !.pc = "inc", !.sig = "none"])
    /\ UNCHANGED <<word, hash, k, owed, count>>

\* freeze_time or kill, or a wakeup for another reason.  One that comes before
\* the task sleeps is noticed when it does, one that comes while it wakes up
\* counts as having woken it.
Signal(t, sig) ==
    /\ w[t].pc = "sleep" /\ w[t].sig = "none"
    /\ Spend("signals", MaxSignals)
    /\ Becomes(t, [w[t] EXCEPT !.sig = sig, !.asleep = FALSE])
    /\ UNCHANGED <<word, hash, k, owed>>

\* unfreeze_time.
Continue(t) ==
    /\ w[t].sig = "stop"
    /\ Becomes(t, [w[t] EXCEPT !.sig = "cont"])
    /\ UNCHANGED <<word, hash, k, owed, count>>

(***************************************************************************)
(* Wakers: futex_wake, futex_wake_op and futex_requeue.                    *)
(***************************************************************************)

\* A task in user space; "who" is the waiter it has in hand, "found" how many it
\* has woken or requeued, "also" how many it has woken of the other futex.
Rest == [pc |-> "idle", op |-> "wake", f |-> None, g |-> None, n |-> 0, m |-> 0, bits |-> {},
         cmp |-> None, cond |-> FALSE, who |-> None, found |-> 0, also |-> 0]

B1(t) == Hash[k[t].f]
B2(t) == Hash[k[t].g]
Requeues(t) == k[t].op \in {"requeue", "cmp"}
Turns(t, r) == k' = [k EXCEPT ![t] = r]

\* User space changes the futex f and then calls the kernel.
Post(t, call) ==
    /\ k[t].pc = "idle"
    /\ Spend("posts", MaxPosts)
    /\ word' = [word EXCEPT ![call.f] = @ + 1]
    /\ Turns(t, call)
    /\ UNCHANGED <<hash, w, owed>>

\* Waiters for f that have one of the bits, in the order in which they came.
Found(t, f) == {v \in ToSet(chain[Hash[f]]) : w[v].key = f /\ w[v].bits \cap k[t].bits # {}}
Ahead(f, u, v) ==
    LET s == chain[Hash[f]] IN \E i, j \in DOMAIN s : i < j /\ s[i] = u /\ s[j] = v
First(t, f) == {v \in Found(t, f) : \A u \in Found(t, f) : ~Ahead(f, u, v)}

\* The loops over the chains.  Wakes count before they compare, so that zero
\* wakes one.
Quota(t) == IF Requeues(t) THEN k[t].n ELSE Max({k[t].n, 1})
Wakes(t) == k[t].found < Quota(t) /\ Found(t, k[t].f) # {}
WakesToo(t) ==
    ~Wakes(t) /\ k[t].cond /\ k[t].also < Max({k[t].m, 1}) /\ Found(t, k[t].g) # {}
Moves(t) ==
    /\ Requeues(t) /\ k[t].n <= k[t].found /\ k[t].found < k[t].n + k[t].m
    /\ Found(t, k[t].f) # {}

\* Those that a requeue which has woken somebody is going to move.
Coming(x) ==
    LET Before(v) == {u \in Found(x, k[x].f) : Ahead(k[x].f, u, v)}
    IN  IF Requeues(x) /\ k[x].n > 0 /\ k[x].n <= k[x].found /\ k[x].pc \in {"next", "add"}
        THEN {v \in Found(x, k[x].f) :
                k[x].found + Cardinality(Before(v)) < k[x].n + k[x].m}
             \cup (IF k[x].pc = "add" THEN {k[x].who} ELSE {})
        ELSE {}

\* Whom a wake of f that begins now must find: who is queued for f or sure to
\* be, and who is being moved to f.
Owed(f, bits) ==
    {v \in Waiters : w[v].bits \cap bits # {} /\
        \/ w[v].key = f /\ (w[v].pc = "queue" \/ Queued(v))
        \/ \E x \in Wakers : k[x].g = f /\ v \in Coming(x)}

\* hb_waiters_inc(hb2) in futex_requeue: it counts itself as a waiter of the
\* target while it moves others there.
Announced(t) == IF Requeues(t) THEN 1 ELSE 0

\* futex_wake looks at the counter of the bucket before it takes the lock.
Begin(t) ==
    /\ k[t].pc = "key"
    /\ LET none == k[t].op = "wake" /\ waiters[B1(t)] = 0
       IN  Turns(t, [k[t] EXCEPT !.pc = IF none THEN "return" ELSE "lock"])
    /\ owed' = [owed EXCEPT ![t] = IF k[t].op = "wake" THEN Owed(k[t].f, k[t].bits) ELSE {}]
    /\ waiters' = [waiters EXCEPT ![B2(t)] = @ + Announced(t)]
    /\ UNCHANGED <<word, chain, lock, w, count>>

\* double_lock_hb: the lower bucket first.
Low(t) == IF B1(t) <= B2(t) THEN B1(t) ELSE B2(t)

LockLow(t) ==
    /\ k[t].pc = "lock" /\ B1(t) # B2(t)
    /\ Free(Low(t))
    /\ lock' = [lock EXCEPT ![Low(t)] = t]
    /\ Turns(t, [k[t] EXCEPT !.pc = "lock2"])
    /\ UNCHANGED <<word, waiters, chain, w, owed, count>>

\* It can have the last lock that it needs.
LastFree(t) ==
    /\ k[t].pc = "lock2" \/ (k[t].pc = "lock" /\ B1(t) = B2(t))
    /\ \A b \in {B1(t), B2(t)} : lock[b] \in {None, t}

\* All locks are held: FUTEX_CMP_REQUEUE reads the futex again, FUTEX_WAKE_OP
\* changes the other.
Scan(t) ==
    /\ LastFree(t)
    /\ lock' = [b \in Buckets |-> IF b \in {B1(t), B2(t)} THEN t ELSE lock[b]]
    /\ LET again == k[t].op = "cmp" /\ word[k[t].f] # k[t].cmp
       IN  Turns(t, [k[t] EXCEPT !.pc = IF again THEN "unlock" ELSE "next"])
    /\ word' = IF k[t].op = "op" THEN [word EXCEPT ![k[t].g] = @ + 1] ELSE word
    /\ UNCHANGED <<waiters, chain, w, owed, count>>

Unlocked(t) == [b \in Buckets |-> IF lock[b] = t THEN None ELSE lock[b]]

\* The page is not there: both locks are dropped, and again from the start.
Fault(t) ==
    /\ LastFree(t) /\ k[t].op \in {"cmp", "op"}
    /\ Spend("signals", MaxSignals)
    /\ lock' = Unlocked(t)
    /\ Turns(t, [k[t] EXCEPT !.pc = "key"])
    /\ waiters' = [waiters EXCEPT ![B2(t)] = @ - Announced(t)]
    /\ UNCHANGED <<word, chain, w, owed>>

\* Mutant: the waiter may go before it is off the chain.
Dequeue_Early(t) ==
    /\ k[t].pc = "next" /\ Wakes(t)
    /\ \E v \in First(t, k[t].f) :
         /\ Becomes(v, [w[v] EXCEPT !.ptr = None, !.given = TRUE])
         /\ Turns(t, [k[t] EXCEPT !.pc = "null", !.who = v, !.found = @ + 1])
         /\ NotOwed(v)
    /\ UNCHANGED <<word, hash, count>>

\* wake_futex in three steps: plist_del and the counter, ...
Dequeue(t) ==
    /\ k[t].pc = "next" /\ (Wakes(t) \/ WakesToo(t))
    /\ \E v \in First(t, IF Wakes(t) THEN k[t].f ELSE k[t].g) :
         /\ chain' = [chain EXCEPT ![w[v].ptr] = Off(@, v)]
         /\ waiters' = [waiters EXCEPT ![w[v].ptr] = @ - 1]
         /\ Becomes(v, [w[v] EXCEPT !.given = TRUE])
         /\ Turns(t, [k[t] EXCEPT !.pc = "null", !.who = v,
                        !.found = IF Wakes(t) THEN @ + 1 ELSE @,
                        !.also = IF Wakes(t) THEN @ ELSE @ + 1])
         /\ NotOwed(v)
    /\ UNCHANGED <<word, lock, count>>

\* ... q->lock_ptr, after which the waiter may return and be gone, ...
Release(t) ==
    /\ k[t].pc = "null"
    /\ Becomes(k[t].who, [w[k[t].who] EXCEPT !.ptr = None])
    /\ Turns(t, [k[t] EXCEPT !.pc = "wake"])
    /\ UNCHANGED <<word, hash, owed, count>>

\* ... and wake_up_state, which may find the task elsewhere.
WakeUp(t) ==
    /\ k[t].pc = "wake"
    /\ Becomes(k[t].who, [w[k[t].who] EXCEPT !.asleep = FALSE])
    /\ Turns(t, [k[t] EXCEPT !.pc = "next", !.who = None])
    /\ UNCHANGED <<word, hash, owed, count>>

\* Nobody wakes v for f any more.
Moved(v, f) == owed' = [x \in Wakers |-> IF k[x].f = f THEN owed[x] \ {v} ELSE owed[x]]

\* requeue_futex within a bucket: only the key changes.
Rename(t) ==
    /\ k[t].pc = "next" /\ Moves(t) /\ B1(t) = B2(t)
    /\ \E v \in First(t, k[t].f) :
         /\ Becomes(v, [w[v] EXCEPT !.key = k[t].g])
         /\ Turns(t, [k[t] EXCEPT !.found = @ + 1])
         /\ Moved(v, k[t].f)
    /\ UNCHANGED <<word, hash, count>>

\* requeue_futex: off one chain, ...
TakeOff(t) ==
    /\ k[t].pc = "next" /\ Moves(t) /\ B1(t) # B2(t)
    /\ \E v \in First(t, k[t].f) :
         /\ chain' = [chain EXCEPT ![B1(t)] = Off(@, v)]
         /\ waiters' = [waiters EXCEPT ![B1(t)] = @ - 1]
         /\ Turns(t, [k[t] EXCEPT !.pc = "add", !.who = v, !.found = @ + 1])
         /\ Moved(v, k[t].f)
    /\ UNCHANGED <<word, lock, w, count>>

\* ... and onto the other.
PutOn(t) ==
    /\ k[t].pc = "add"
    /\ chain' = [chain EXCEPT ![B2(t)] = Append(@, k[t].who)]
    /\ waiters' = [waiters EXCEPT ![B2(t)] = @ + 1]
    /\ Becomes(k[t].who, [w[k[t].who] EXCEPT !.ptr = B2(t), !.key = k[t].g])
    /\ Turns(t, [k[t] EXCEPT !.pc = "next", !.who = None])
    /\ UNCHANGED <<word, lock, owed, count>>

\* double_unlock_hb.
Unlock(t) ==
    /\ \/ k[t].pc = "unlock"
       \/ k[t].pc = "next" /\ ~Wakes(t) /\ ~WakesToo(t) /\ ~Moves(t)
    /\ lock' = Unlocked(t)
    /\ Turns(t, [k[t] EXCEPT !.pc = "return"])
    /\ UNCHANGED <<word, waiters, chain, w, owed, count>>

\* A requeue is no longer counted for its target; back to user space.
Return(t) ==
    /\ k[t].pc = "return"
    /\ waiters' = [waiters EXCEPT ![B2(t)] = @ - Announced(t)]
    /\ Turns(t, Rest)
    /\ owed' = [owed EXCEPT ![t] = {}]
    /\ UNCHANGED <<word, chain, lock, w, count>>

(***************************************************************************)
(* The system.                                                             *)
(***************************************************************************)

\* A tick of the clock, as long as somebody waits for one; the timer interrupt
\* may come late, when the task is elsewhere in the call.
Tick ==
    LET waiting == {t \in Waiters : /\ w[t].due # None /\ w[t].age < w[t].due
                                    /\ w[t].pc \in {"sleep", "signal"}}
    IN  /\ waiting # {}
        /\ w' = [t \in Waiters |->
                   IF t \in waiting THEN [w[t] EXCEPT !.age = @ + 1] ELSE w[t]]
        /\ UNCHANGED <<word, hash, k, owed, count>>

Init ==
    /\ word = [f \in Futexes |-> 0]
    /\ waiters = [b \in Buckets |-> 0] /\ chain = [b \in Buckets |-> <<>>]
    /\ lock = [b \in Buckets |-> None]
    /\ w = [t \in Waiters |-> Idle("none")] /\ k = [t \in Wakers |-> Rest]
    /\ owed = [t \in Wakers |-> {}]
    /\ count = [what \in {"waits", "posts", "signals"} |-> 0]

AnyBit == UNION Bitsets

\* What user space may ask for: of one futex, or of two.
Asks(op, f, g, n, m, bits, cond) ==
    [Rest EXCEPT !.pc = "key", !.op = op, !.f = f, !.g = g, !.n = n, !.m = m, !.bits = bits,
                 !.cmp = IF op = "cmp" THEN word[f] + 1 ELSE None, !.cond = cond]

PostOne(t) ==
    \E f \in Futexes, n \in Counts, bits \in Bitsets :
        <<"wake", f, f>> \in Does[t] /\ Post(t, Asks("wake", f, f, n, 0, bits, FALSE))

PostTwo(t) ==
    \E op \in {"requeue", "cmp", "op"}, f, g \in Futexes, n, m \in Counts, cond \in BOOLEAN :
        /\ <<op, f, g>> \in Does[t] /\ f # g /\ (cond => op = "op")
        /\ Post(t, Asks(op, f, g, n, m, AnyBit, cond))

WaiterNext(t) ==
    \/ \E f \in WaitsOn[t], r \in Requests[t], bits \in Bitsets : Wait(t, f, r, bits)
    \/ QueueLock(t) \/ WaitSetup(t) \/ WaitFault(t) \/ QueueMe(t) \/ TimerFires(t)
    \/ Check(t) \/ Unqueue(t) \/ UnqueueLocked(t) \/ Why(t) \/ Restart(t)
    \/ \E sig \in Signals[t] : Signal(t, sig)
    \/ Continue(t)

WakerNext(t) ==
    \/ PostOne(t) \/ PostTwo(t)
    \/ Begin(t) \/ LockLow(t) \/ Scan(t) \/ Fault(t) \/ Dequeue(t) \/ Release(t) \/ WakeUp(t)
    \/ Rename(t) \/ TakeOff(t) \/ PutOn(t) \/ Unlock(t) \/ Return(t)

Next == (\E t \in Waiters : WaiterNext(t)) \/ (\E t \in Wakers : WakerNext(t)) \/ Tick

Spec == Init /\ [][Next]_vars

(***************************************************************************)
(* Properties.                                                             *)
(***************************************************************************)

Maybe(S) == S \cup {None}

WaiterState ==
    [pc : {"idle", "inc", "lock", "queue", "check", "sleep", "unqueue", "unlock", "why", "signal"},
     addr : Maybe(Futexes), val : Nat, bits : SUBSET AnyBit, request : Maybe(Nat),
     due : Maybe(Nat), age : Nat, key : Maybe(Futexes), ptr : Maybe(Buckets),
     saw : Maybe(Buckets), armed : BOOLEAN, to : BOOLEAN, asleep : BOOLEAN,
     sig : {"none", "stop", "cont", "catch"}, given : BOOLEAN]

WakerState ==
    [pc : {"idle", "key", "lock", "lock2", "next", "null", "wake", "add", "unlock", "return"},
     op : {"wake", "requeue", "cmp", "op"}, f : Maybe(Futexes), g : Maybe(Futexes),
     n : Nat, m : Nat, bits : SUBSET AnyBit, cmp : Maybe(Nat), cond : BOOLEAN,
     who : Maybe(Waiters), found : Nat, also : Nat]

\* The type invariant.
TypeOK ==
    /\ word \in [Futexes -> Nat] /\ waiters \in [Buckets -> Nat]
    /\ chain \in [Buckets -> Seq(Waiters)]
    /\ lock \in [Buckets -> Maybe(Waiters \cup Wakers)]
    /\ w \in [Waiters -> WaiterState] /\ k \in [Wakers -> WakerState]
    /\ owed \in [Wakers -> SUBSET Waiters]
    /\ count \in [{"waits", "posts", "signals"} -> Nat]

\* The queues agree with the tasks, the wakers and the counters, however an
\* unlocked look at lock_ptr meets a wake or a requeue.  A task is on the chain
\* of the bucket that its lock_ptr and its key tell, once, except while the
\* holder of the lock moves it.  Who is queued, or is still to be touched by a
\* waker, is inside the call: its futex_q lies on its stack (lines 1115-1122).
\* A bucket counts whoever is queued there or about to look at a futex there,
\* and every requeue that moves tasks there: wakers may skip its lock.
QueuesAgree ==
    LET InCall(v) == w[v].pc \in {"check", "sleep", "unqueue", "unlock"}
    IN  /\ TypeOK
        /\ \A b \in Buckets : /\ IsInjective(chain[b])
                              /\ \A v \in ToSet(chain[b]) :
                                    InCall(v) /\ w[v].ptr = b /\ Hash[w[v].key] = b
        /\ \A t \in Wakers : k[t].pc \in {"null", "add"} => InCall(k[t].who)
        /\ \A b \in Buckets :
             waiters[b] =
                 Len(chain[b])
                 + Cardinality({v \in Waiters : /\ w[v].pc \in {"lock", "queue"}
                                                /\ Hash[w[v].addr] = b})
                 + Cardinality({t \in Wakers : /\ Requeues(t) /\ B2(t) = b
                                               /\ k[t].pc \notin {"key", "idle"}})

\* No wake is lost.  One that returns less than it asked for has left nobody:
\* neither one who found the old value before the wake began, nor one whom a
\* requeue was moving to the futex (lines 1250 and 1585).  And who was counted
\* as woken reports it, whatever else wakes it at that time: it never times out,
\* starts again or is interrupted.
NoWakeLost ==
    /\ \A t \in Wakers : k[t].pc = "return" /\ k[t].found < Quota(t) => owed[t] = {}
    /\ \A t \in Waiters : w[t].given =>
         w[t].pc \in {"check", "sleep", "unqueue", "unlock"}

\* A timeout of a second or more does not expire before the monotonic clock has
\* moved on by TDF times what was asked for (line 2999), but for less than a
\* nanosecond that the division drops.  That clock runs while the waiter is
\* frozen: the frozen time counts, and the waiter's own clock may show less.
NotEarly ==
    \A t \in Waiters :
        w[t].pc = "why" /\ ~w[t].to /\ w[t].request >= Second /\ Tdf[t] > 0 =>
            w[t].age * 1000 > w[t].request * Tdf[t] - 1000

\* Nobody is stuck.  Who was woken does not go on sleeping: when it looks at the
\* chain for the last time it is already marked as asleep, so that a waker that
\* it does not see wakes it afterwards (lines 2076-2083).  And no two calls wait
\* for each other's bucket (line 1209).
NobodyStuck ==
    LET WaitsFor(s, t) == k[s].pc = "lock2" /\ \E b \in {B1(s), B2(s)} : lock[b] = t
    IN  /\ \A v \in Waiters :
             w[v].given /\ w[v].pc = "sleep" /\ w[v].asleep =>
                 \E t \in Wakers : k[t].pc \in {"null", "wake"} /\ k[t].who = v
        /\ \A s, t \in Wakers : s # t => ~(WaitsFor(s, t) /\ WaitsFor(t, s))

=============================================================================

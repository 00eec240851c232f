-------------------------- MODULE ProcClockProofs --------------------------
(***************************************************************************)
(* Theorems about ProcClock, for every set of TDFs and every bound.  The   *)
(* three safety invariants rest on one inductive invariant, IInv; the      *)
(* facts that need one TDF per stay in virtual time add OneFactorInv.      *)
(***************************************************************************)
EXTENDS ProcClock, TLAPS

----------------------------------------------------------------------------
(* What the operators of TaskClock do to the fields.                       *)

\* C division loses less than the divisor, and towards zero.
LEMMA DivS64Bound ==
  ASSUME NEW n \in Int, NEW d \in Int, d > 0
  PROVE  /\ DivS64(n, d) \in Int
         /\ -d < n - d * DivS64(n, d) /\ n - d * DivS64(n, d) < d
         /\ n >= 0 => DivS64(n, d) >= 0 /\ n - d * DivS64(n, d) >= 0
<1>1. CASE n >= 0
  <2>1. /\ n \div d \in Int /\ n \div d >= 0
        /\ d * (n \div d) <= n /\ n < d * (n \div d) + d
    BY <1>1, SMTT(30)
  <2>2. DivS64(n, d) = n \div d
    BY <1>1 DEF DivS64
  <2> QED
    BY <2>1, <2>2
<1>2. CASE n < 0
  <2> DEFINE m == -n
             q == m \div d
  <2>1. m \in Int /\ m > 0
    BY <1>2
  <2> HIDE DEF m
  <2>2. q \in Int /\ q >= 0 /\ d * q <= m /\ m < d * q + d
    BY <2>1, SMTT(30)
  <2>3. DivS64(n, d) = -q
    BY <1>2 DEF DivS64, m
  <2> HIDE DEF q
  <2>4. d * (-q) = -(d * q)
    BY <2>2
  <2> QED
    BY <1>2, <2>2, <2>3, <2>4 DEF m
<1> QED
  BY <1>1, <1>2

\* update_virtual_past_nsec loses less than one virtual nanosecond, and
\* never turns the clock back when physical time went forward.
LEMMA DeltaVpnBound ==
  ASSUME NEW delta \in Int, NEW tdf \in Int, tdf > 0
  PROVE  /\ DeltaVpn(delta, tdf) \in Int
         /\ delta >= 0 => DeltaVpn(delta, tdf) >= 0
         /\ tdf <= MaxTdf =>
              LET e == 1000 * delta - tdf * DeltaVpn(delta, tdf)
              IN  -tdf < e /\ e < tdf /\ (delta >= 0 => e >= 0)
<1> DEFINE n == delta * 1000
<1>1. n \in Int /\ n = 1000 * delta /\ (delta >= 0 => n >= 0)
  OBVIOUS
<1> HIDE DEF n
<1>2. /\ DivS64(n, tdf) \in Int
      /\ -tdf < n - tdf * DivS64(n, tdf) /\ n - tdf * DivS64(n, tdf) < tdf
      /\ n >= 0 => DivS64(n, tdf) >= 0 /\ n - tdf * DivS64(n, tdf) >= 0
  BY <1>1, DivS64Bound
<1>3. CASE tdf > MaxTdf
  BY <1>3 DEF DeltaVpn, MaxTdf
<1>4. CASE tdf = 1000
  BY <1>4 DEF DeltaVpn, MaxTdf
<1>5. CASE tdf <= MaxTdf /\ tdf # 1000
  <2>1. DeltaVpn(delta, tdf) = DivS64(n, tdf)
    BY <1>5 DEF DeltaVpn, MaxTdf, n
  <2> QED
    BY <2>1, <1>1, <1>2
<1> QED
  BY <1>3, <1>4, <1>5 DEF MaxTdf

\* What a read leaves in the task: only the two "past" fields move.
LEMMA TimekeepFields ==
  ASSUME NEW k \in Task, NEW at \in Int, k.dilation > 0, Virtual(k)
  PROVE  LET u == Timekeep(k, at)
             delta == DeltaPpn(k, at)
         IN  /\ u \in Task /\ u.dilation = k.dilation
             /\ u.vsn = k.vsn /\ u.vpn = k.vpn + DeltaVpn(delta, k.dilation)
             /\ u.psn = k.psn /\ u.ppn = k.ppn + delta
             /\ u.fsn = k.fsn /\ u.fpn = k.fpn
<1> DEFINE delta == DeltaPpn(k, at)
           dv == DeltaVpn(delta, k.dilation)
           x == [k EXCEPT !.ppn = k.ppn + delta]
           u == [x EXCEPT !.vpn = k.vpn + dv]
<1>1. delta \in Int
  BY DEF DeltaPpn, Task
<1>2. dv \in Int
  BY <1>1, DeltaVpnBound DEF Task
<1>3. Timekeep(k, at) = u
  BY Zenon DEF Timekeep
<1> HIDE DEF delta, dv
<1>4. /\ x \in Task /\ x.dilation = k.dilation /\ x.vsn = k.vsn /\ x.vpn = k.vpn
      /\ x.psn = k.psn /\ x.ppn = k.ppn + delta /\ x.fsn = k.fsn /\ x.fpn = k.fpn
  BY <1>1 DEF Task
<1> HIDE DEF x
<1>5. /\ u \in Task /\ u.dilation = k.dilation /\ u.vsn = k.vsn
      /\ u.vpn = k.vpn + dv /\ u.psn = k.psn /\ u.ppn = k.ppn + delta
      /\ u.fsn = k.fsn /\ u.fpn = k.fpn
  BY <1>2, <1>4 DEF Task
<1> QED
  BY <1>3, <1>5 DEF delta, dv

\* What a change of factor leaves in the task: the freeze fields stay.
LEMMA RedilateFields ==
  ASSUME NEW k \in Task, NEW at \in Int, NEW tdf \in Int, k.dilation > 0
  PROVE  LET u == Redilate(k, at, tdf)
         IN  /\ u \in Task /\ u.dilation = tdf
             /\ u.vsn = at /\ u.psn = at /\ u.ppn = 0
             /\ u.vpn = k.vpn + DivS64(DeltaPpn(k, at) * 1000, k.dilation)
             /\ u.fsn = k.fsn /\ u.fpn = k.fpn
<1> DEFINE n == DeltaPpn(k, at) * 1000
           v == k.vpn + DivS64(n, k.dilation)
           u == Redilate(k, at, tdf)
<1>1. n \in Int /\ k.vpn \in Int /\ k.dilation \in Int
  BY DEF DeltaPpn, Task
<1> HIDE DEF n
<1>2. DivS64(n, k.dilation) \in Int
  BY <1>1, DivS64Bound
<1>3. v \in Int
  BY <1>1, <1>2
<1> HIDE DEF v
<1>4. u = [k EXCEPT !.vpn = v, !.vsn = at, !.psn = at, !.ppn = 0,
                    !.dilation = tdf]
  BY Zenon DEF Redilate, v, n
<1>5. u = [dilation |-> tdf, vsn |-> at, vpn |-> v, psn |-> at,
           ppn |-> 0, fsn |-> k.fsn, fpn |-> k.fpn]
  BY <1>4 DEF Task
<1>6. k.fsn \in Int /\ k.fpn \in Int
  BY DEF Task
<1> QED
  BY <1>3, <1>5, <1>6 DEF Task, v, n

----------------------------------------------------------------------------
\* What the history variables say of the task while it is in virtual time.
Accounts ==
  t.dilation # 0 => now - t.psn - t.fpn - InFreeze(t) = ran - kept

\* 1000 times the error of virtual_past_nsec at the last reading.
Lost == 1000 * t.ppn - t.dilation * (t.vpn - carried)

RoundingBounded ==
  t.dilation \in 1 .. MaxTdf =>
    /\ -(t.dilation * reads) <= Lost /\ Lost <= t.dilation * reads
    /\ kept = 0 => Lost >= 0

\* With nothing frozen before the start the past never runs ahead.
PastBehind == t.dilation # 0 /\ kept = 0 => t.ppn <= ran

FreezeStartPast == t.fsn = 0 \/ t.fsn \in Epoch .. now

IInv == /\ TypeOK
        /\ now >= Epoch /\ FreezeStartPast
        /\ FreezeInForce
        /\ Accounts
        /\ RoundingBounded
        /\ PastBehind

----------------------------------------------------------------------------
(* The steps, with t' spelled out.                                         *)

\* The three effects a write to /proc/$pid/dilation can have.
Entering(tdf) ==
  /\ t.dilation = 0 /\ tdf > 0 /\ (stopped => Crosses)
  /\ t' = [dilation |-> tdf, vsn |-> now, vpn |-> 0, psn |-> now, ppn |-> 0,
           fsn |-> 0, fpn |-> 0]
  /\ ran' = 0 /\ reads' = 0 /\ seen' = now /\ kept' = 0 /\ carried' = 0
  /\ UNCHANGED <<now, stopped, changes>>

Leaving(tdf) ==
  /\ t.dilation # 0 /\ tdf = 0 /\ (stopped => Crosses)
  /\ t' = Blank
  /\ ran' = 0 /\ reads' = 0 /\ seen' = 0 /\ kept' = 0 /\ carried' = 0
  /\ UNCHANGED <<now, stopped, changes>>

Changing(tdf) ==
  /\ Changes(tdf) /\ changes < MaxChanges /\ changes' = changes + 1
  /\ t' \in Task /\ t'.dilation = tdf
  /\ t'.vsn = now /\ t'.psn = now /\ t'.ppn = 0
  /\ t'.fsn = t.fsn /\ t'.fpn = t.fpn
  /\ ran' = 0 /\ reads' = 0 /\ seen' = seen
  /\ kept' = t.fpn + InFreeze(t) /\ carried' = t'.vpn
  /\ UNCHANGED <<now, stopped>>

LEMMA WriteDilationCases ==
  ASSUME IInv, NEW tdf \in Int, WriteDilation(tdf)
  PROVE  UNCHANGED vars \/ Entering(tdf) \/ Leaving(tdf) \/ Changing(tdf)
<1> USE DEF IInv, TypeOK
<1>1. t \in Task /\ t.dilation \in Int /\ now \in Nat
  BY DEF Task
<1>2. CASE t.dilation = tdf
  <2>1. t' = t
    BY <1>2 DEF WriteDilation, SetDilation
  <2> QED
    BY <1>2, <2>1 DEF WriteDilation, Changes, vars
<1>3. CASE t.dilation = 0 /\ tdf > 0
  <2>1. SetDilation(t, now, now, tdf) = InitVirtualStart(t, now, now, tdf)
    BY <1>3 DEF SetDilation
  <2>2. t' = [dilation |-> tdf, vsn |-> now, vpn |-> 0, psn |-> now, ppn |-> 0,
              fsn |-> 0, fpn |-> 0]
    BY <1>3, <2>1 DEF WriteDilation, InitVirtualStart
  <2>3. t'.dilation = tdf /\ t' # t
    BY <1>3, <2>2
  <2>4. Restart(now)
    BY <1>3, <2>3 DEF WriteDilation
  <2>5. kept' = 0 /\ carried' = 0
    BY <2>2, <2>4 DEF Restart, InFreeze
  <2> QED
    BY <1>3, <2>2, <2>4, <2>5 DEF WriteDilation, Restart, Changes, Entering
<1>4. CASE t.dilation = 0 /\ tdf < 0
  <2>1. t' = t
    BY <1>4 DEF WriteDilation, SetDilation, InitVirtualStart
  <2> QED
    BY <1>4, <2>1 DEF WriteDilation, Changes, vars
<1>5. CASE t.dilation # 0 /\ tdf = 0
  <2>1. t' = Blank
    BY <1>5 DEF WriteDilation, SetDilation
  <2>2. t' # t /\ t'.dilation = 0
    BY <1>5, <2>1 DEF Blank
  <2>3. Restart(0)
    BY <1>5, <2>2 DEF WriteDilation
  <2>4. kept' = 0 /\ carried' = 0
    BY <2>1, <2>3 DEF Restart, InFreeze, Blank
  <2> QED
    BY <1>5, <2>1, <2>3, <2>4 DEF WriteDilation, Restart, Changes, Leaving
<1>6. CASE t.dilation \notin {0, tdf} /\ tdf > 0
  <2>1. t' = Redilate(t, now, tdf)
    BY <1>6 DEF WriteDilation, SetDilation
  <2>2. t.dilation > 0
    BY <1>1, <1>6
  <2>3. /\ t' \in Task /\ t'.dilation = tdf
        /\ t'.vsn = now /\ t'.psn = now /\ t'.ppn = 0
        /\ t'.fsn = t.fsn /\ t'.fpn = t.fpn
    BY <1>1, <2>1, <2>2, RedilateFields
  <2>4. t' # t /\ t'.dilation # 0
    BY <1>6, <2>3
  <2>5. Restart(seen)
    BY <1>6, <2>4 DEF WriteDilation
  <2>6. InFreeze(t') = InFreeze(t)
    BY <2>3 DEF InFreeze
  <2> QED
    BY <1>6, <2>3, <2>5, <2>6 DEF WriteDilation, Restart, Changes, Changing
<1>7. CASE t.dilation # 0 /\ tdf < 0
  <2>1. t' = t
    BY <1>7 DEF WriteDilation, SetDilation
  <2> QED
    BY <1>7, <2>1 DEF WriteDilation, Changes, vars
<1> QED
  BY <1>1, <1>2, <1>3, <1>4, <1>5, <1>6, <1>7

\* unshare starts a clock at what the process reads.
LEMMA UnshareStart ==
  ASSUME IInv, Unshare
  PROVE  LET v == Reading(t, now)
         IN  /\ ~stopped /\ v \in Int
             /\ t' = [dilation |-> 1000, vsn |-> v, vpn |-> 0, psn |-> now,
                      ppn |-> 0, fsn |-> 0, fpn |-> 0]
             /\ ran' = 0 /\ reads' = 0 /\ seen' = v /\ kept' = 0 /\ carried' = 0
             /\ UNCHANGED <<now, stopped, changes>>
<1> USE DEF IInv, TypeOK
<1>1. Reading(t, now) \in Int
  <2>1. CASE ~Virtual(t)
    BY <2>1 DEF Reading
  <2>2. CASE Virtual(t)
    <3>1. DeltaPpn(t, now) \in Int /\ t.dilation \in Int /\ t.dilation > 0
      BY <2>2 DEF DeltaPpn, Task, Virtual
    <3>2. DeltaVpn(DeltaPpn(t, now), t.dilation) \in Int
      BY <3>1, DeltaVpnBound
    <3> QED
      BY <2>2, <3>2 DEF Reading, Task
  <2> QED
    BY <2>1, <2>2
<1>2. t' = [dilation |-> 1000, vsn |-> Reading(t, now), vpn |-> 0, psn |-> now,
            ppn |-> 0, fsn |-> 0, fpn |-> 0]
  BY DEF Unshare, InitVirtualStart
<1>3. t'.fsn = 0 /\ t'.fpn = 0 /\ t'.vpn = 0
  BY <1>2
<1>4. kept' = 0 /\ carried' = 0
  BY <1>3 DEF Unshare, Restart, InFreeze
<1> QED
  BY <1>1, <1>2, <1>4 DEF Unshare, Restart

\* A read moves only the two "past" fields.
LEMMA ReadStep ==
  ASSUME IInv, Read
  PROVE  LET delta == DeltaPpn(t, now)
             dv == DeltaVpn(delta, t.dilation)
         IN  /\ ~stopped /\ t.dilation > 0 /\ t.vsn # 0
             /\ delta \in Int /\ dv \in Int
             /\ t' \in Task /\ t'.dilation = t.dilation
             /\ t'.vsn = t.vsn /\ t'.vpn = t.vpn + dv
             /\ t'.psn = t.psn /\ t'.ppn = t.ppn + delta
             /\ t'.fsn = t.fsn /\ t'.fpn = t.fpn
             /\ seen' = t.vsn + t.vpn + dv /\ reads' = reads + 1
             /\ UNCHANGED <<now, stopped, ran, kept, carried, changes>>
<1> USE DEF IInv, TypeOK
<1>1. Virtual(t) /\ t.dilation > 0 /\ t.dilation \in Int
  BY DEF Read, Virtual, Task
<1>2. DeltaPpn(t, now) \in Int
  BY DEF DeltaPpn, Task
<1>3. DeltaVpn(DeltaPpn(t, now), t.dilation) \in Int
  BY <1>1, <1>2, DeltaVpnBound
<1>4. t' = Timekeep(t, now)
  BY DEF Read
<1>5. /\ t' \in Task /\ t'.dilation = t.dilation
      /\ t'.vsn = t.vsn
      /\ t'.vpn = t.vpn + DeltaVpn(DeltaPpn(t, now), t.dilation)
      /\ t'.psn = t.psn /\ t'.ppn = t.ppn + DeltaPpn(t, now)
      /\ t'.fsn = t.fsn /\ t'.fpn = t.fpn
  BY <1>1, <1>4, TimekeepFields
<1>6. seen' = t.vsn + t.vpn + DeltaVpn(DeltaPpn(t, now), t.dilation)
  BY <1>1 DEF Read, Reading
<1> QED
  BY <1>1, <1>2, <1>3, <1>5, <1>6 DEF Read, Virtual

----------------------------------------------------------------------------
(* The inductive invariant.                                                *)

LEMMA IInvInit == Init => IInv
<1> SUFFICES ASSUME Init PROVE IInv
  OBVIOUS
<1>1. TypeOK /\ t.dilation = 0 /\ t.fsn = 0 /\ now >= Epoch
  <2>1. Blank \in Task /\ Blank.dilation = 0 /\ Blank.fsn = 0
    BY DEF Blank, Task
  <2>2. stopped \in BOOLEAN
    BY Zenon DEF Init
  <2>3. now \in Nat /\ now >= Epoch
    BY EpochAssumption DEF Init
  <2>4. /\ ran \in Nat /\ kept \in Int /\ carried \in Int
        /\ reads \in Nat /\ seen \in Int /\ changes \in Nat /\ t = Blank
    BY DEF Init
  <2> QED
    BY <2>1, <2>2, <2>3, <2>4 DEF TypeOK
<1>2. FreezeStartPast /\ FreezeInForce
  BY <1>1 DEF Init, FreezeStartPast, FreezeInForce
<1>3. Accounts /\ RoundingBounded /\ PastBehind
  BY <1>1 DEF Accounts, RoundingBounded, PastBehind
<1> QED
  BY <1>1, <1>2, <1>3 DEF IInv

LEMMA TickKeepsIInv == IInv /\ Tick => IInv'
<1> SUFFICES ASSUME IInv, Tick PROVE IInv'
  OBVIOUS
<1> USE DEF IInv, TypeOK, Tick
<1>1. /\ TypeOK' /\ (now >= Epoch)'
      /\ FreezeStartPast' /\ FreezeInForce'
  BY EpochAssumption DEF FreezeStartPast, FreezeInForce
<1>2. Accounts'
  BY DEF Accounts, InFreeze, FreezeInForce, Task
<1>3. RoundingBounded'
  BY DEF RoundingBounded, Lost
<1>4. PastBehind'
  BY DEF PastBehind, Task
<1> QED
  BY <1>1, <1>2, <1>3, <1>4

LEMMA WriteDilationKeepsIInv ==
  ASSUME Crosses = FALSE, IInv, NEW tdf \in Int, WriteDilation(tdf)
  PROVE  IInv'
<1> USE DEF IInv, TypeOK
<1>1. CASE UNCHANGED vars
  BY <1>1 DEF vars, FreezeStartPast, FreezeInForce, Accounts, InFreeze,
              RoundingBounded, Lost, PastBehind
<1>2. CASE Entering(tdf)
  BY <1>2 DEF Entering, Task, FreezeStartPast, FreezeInForce, Accounts,
              InFreeze, RoundingBounded, Lost, PastBehind
<1>3. CASE Leaving(tdf)
  BY <1>3 DEF Leaving, Blank, Task, FreezeStartPast, FreezeInForce, Accounts,
              InFreeze, RoundingBounded, Lost, PastBehind
<1>4. CASE Changing(tdf)
  <2>1. tdf > 0 /\ InFreeze(t') = InFreeze(t) /\ InFreeze(t') \in Int
    BY <1>4 DEF Changing, Changes, InFreeze, Task
  <2>2. TypeOK' /\ FreezeStartPast' /\ FreezeInForce' /\ t'.dilation >= 0
    BY <1>4, <2>1 DEF Changing, Task, FreezeStartPast, FreezeInForce
  <2>3. Accounts'
    BY <1>4, <2>1 DEF Changing, Accounts, Task, InFreeze
  <2>4. RoundingBounded' /\ PastBehind'
    BY <1>4, <2>1 DEF Changing, RoundingBounded, Lost, PastBehind, Task
  <2> QED
    BY <1>4, <2>2, <2>3, <2>4 DEF Changing
<1> QED
  BY <1>1, <1>2, <1>3, <1>4, WriteDilationCases

LEMMA UnshareKeepsIInv == IInv /\ Unshare => IInv'
<1> SUFFICES ASSUME IInv, Unshare PROVE IInv'
  OBVIOUS
<1> DEFINE v == Reading(t, now)
<1>1. /\ ~stopped /\ v \in Int
      /\ t' = [dilation |-> 1000, vsn |-> v, vpn |-> 0, psn |-> now,
               ppn |-> 0, fsn |-> 0, fpn |-> 0]
      /\ ran' = 0 /\ reads' = 0 /\ seen' = v /\ kept' = 0 /\ carried' = 0
      /\ UNCHANGED <<now, stopped, changes>>
  BY UnshareStart
<1> HIDE DEF v
<1> QED
  BY <1>1 DEF IInv, TypeOK, Task, FreezeStartPast, FreezeInForce, Accounts,
              InFreeze, RoundingBounded, Lost, PastBehind

LEMMA FreezeKeepsIInv == IInv /\ Freeze => IInv'
<1> SUFFICES ASSUME IInv, Freeze PROVE IInv'
  OBVIOUS
<1> USE DEF IInv, TypeOK, Freeze
<1>1. CASE t.fsn > 0
  BY <1>1 DEF FreezeTime, FreezeStartPast, FreezeInForce, Accounts, InFreeze,
              RoundingBounded, Lost, PastBehind
<1>2. CASE ~(t.fsn > 0)
  <2>1. t.fsn = 0 /\ t' = [t EXCEPT !.fsn = now] /\ stopped'
    <3>1. t.fsn = 0
      BY <1>2, EpochAssumption DEF FreezeStartPast, Task
    <3>2. t' = [t EXCEPT !.fsn = now]
      BY <1>2 DEF FreezeTime
    <3>3. stopped'
      BY <1>2, Zenon
    <3> QED
      BY <3>1, <3>2, <3>3
  <2>2. /\ t' \in Task /\ t'.fsn = now
        /\ t'.dilation = t.dilation /\ t'.vsn = t.vsn /\ t'.vpn = t.vpn
        /\ t'.psn = t.psn /\ t'.ppn = t.ppn /\ t'.fpn = t.fpn
    BY <2>1 DEF Task
  <2>3. InFreeze(t) = 0 /\ now' = now /\ t'.fsn # 0 /\ now - t'.fsn = 0
    BY <2>1, <2>2, EpochAssumption DEF InFreeze
  <2>4. Accounts'
    BY <2>2, <2>3 DEF Accounts, InFreeze
  <2>5. RoundingBounded' /\ PastBehind'
    BY <2>2 DEF RoundingBounded, Lost, PastBehind
  <2> QED
    BY <2>1, <2>2, <2>3, <2>4, <2>5, EpochAssumption
    DEF FreezeStartPast, FreezeInForce
<1> QED
  BY <1>1, <1>2

LEMMA UnfreezeKeepsIInv == IInv /\ Unfreeze => IInv'
<1> SUFFICES ASSUME IInv, Unfreeze PROVE IInv'
  OBVIOUS
<1> USE DEF IInv, TypeOK, Unfreeze
<1>1. CASE t.fsn = 0
  BY <1>1 DEF UnfreezeTime, FreezeStartPast, FreezeInForce, Accounts, InFreeze,
              RoundingBounded, Lost, PastBehind
<1>2. CASE t.fsn # 0
  <2> DEFINE fpn == t.fpn + (now - t.fsn)
  <2>1. fpn \in Int
    BY DEF Task
  <2>2. t' = [t EXCEPT !.fpn = fpn, !.fsn = 0] /\ ~stopped'
    BY <1>2, Zenon DEF UnfreezeTime
  <2> HIDE DEF fpn
  <2>3. /\ t' \in Task /\ t'.fsn = 0 /\ t'.fpn = fpn
        /\ t'.dilation = t.dilation /\ t'.vsn = t.vsn /\ t'.vpn = t.vpn
        /\ t'.psn = t.psn /\ t'.ppn = t.ppn
    <3>1. t' = [dilation |-> t.dilation, vsn |-> t.vsn, vpn |-> t.vpn,
                psn |-> t.psn, ppn |-> t.ppn, fsn |-> 0, fpn |-> fpn]
      BY <2>2 DEF Task
    <3> QED
      BY <2>1, <3>1 DEF Task
  <2>4. Accounts'
    BY <1>2, <2>3 DEF Accounts, InFreeze, Task, fpn
  <2>5. RoundingBounded' /\ PastBehind'
    BY <2>3 DEF RoundingBounded, Lost, PastBehind
  <2> QED
    BY <2>2, <2>3, <2>4, <2>5 DEF FreezeStartPast, FreezeInForce
<1> QED
  BY <1>1, <1>2

\* At most one virtual nanosecond is lost by a read, on the side of the sign
\* of what it accounts.
LEMMA ReadKeepsIInv == IInv /\ Read => IInv'
<1> SUFFICES ASSUME IInv, Read PROVE IInv'
  OBVIOUS
<1> DEFINE delta == DeltaPpn(t, now)
           dv == DeltaVpn(delta, t.dilation)
<1>1. /\ ~stopped /\ t.dilation > 0 /\ t.vsn # 0
      /\ delta \in Int /\ dv \in Int
      /\ t' \in Task /\ t'.dilation = t.dilation
      /\ t'.vsn = t.vsn /\ t'.vpn = t.vpn + dv
      /\ t'.psn = t.psn /\ t'.ppn = t.ppn + delta
      /\ t'.fsn = t.fsn /\ t'.fpn = t.fpn
      /\ seen' = t.vsn + t.vpn + dv /\ reads' = reads + 1
      /\ UNCHANGED <<now, stopped, ran, kept, carried, changes>>
  BY ReadStep
<1>2. /\ delta >= 0 => dv >= 0
      /\ t.dilation <= MaxTdf =>
           LET e == 1000 * delta - t.dilation * dv
           IN  -t.dilation < e /\ e < t.dilation /\ (delta >= 0 => e >= 0)
  <2>1. t.dilation \in Int /\ t.dilation > 0 /\ delta \in Int
    BY <1>1 DEF IInv, TypeOK, Task
  <2> HIDE DEF delta
  <2> DEFINE tdf == t.dilation
  <2>2. tdf \in Int /\ tdf > 0
    BY <2>1
  <2> HIDE DEF tdf
  <2>3. /\ delta >= 0 => DeltaVpn(delta, tdf) >= 0
        /\ tdf <= MaxTdf =>
             LET e == 1000 * delta - tdf * DeltaVpn(delta, tdf)
             IN  -tdf < e /\ e < tdf /\ (delta >= 0 => e >= 0)
    BY <2>1, <2>2, DeltaVpnBound
  <2> QED
    BY <2>3 DEF tdf
<1>3. t.fsn = 0 /\ t.ppn + delta = ran - kept
  BY <1>1 DEF IInv, TypeOK, FreezeInForce, Accounts, InFreeze, DeltaPpn, Task
<1> HIDE DEF delta, dv
<1>4. TypeOK' /\ FreezeStartPast' /\ FreezeInForce' /\ Accounts'
  BY <1>1, <1>3
  DEF IInv, TypeOK, FreezeStartPast, FreezeInForce, Accounts, InFreeze, Task
<1>5. PastBehind'
  BY <1>1, <1>3 DEF IInv, TypeOK, PastBehind
<1>6. RoundingBounded'
  <2> SUFFICES ASSUME t.dilation \in 1 .. MaxTdf
               PROVE  /\ -(t.dilation * (reads + 1)) <= Lost'
                      /\ Lost' <= t.dilation * (reads + 1)
                      /\ kept = 0 => Lost' >= 0
    BY <1>1 DEF RoundingBounded
  <2> DEFINE e == 1000 * delta - t.dilation * dv
  <2>1. t.dilation \in Int /\ t.vpn \in Int /\ t.ppn \in Int /\ reads \in Nat
    BY DEF IInv, TypeOK, Task
  <2>2. t.ppn' = t.ppn + delta /\ t.vpn' = t.vpn + dv
        /\ t.dilation' = t.dilation /\ carried' = carried /\ carried \in Int
    BY <1>1 DEF IInv, TypeOK
  <2>3. Lost' = Lost + e
    BY <1>1, <2>1, <2>2 DEF Lost
  <2>4. Lost \in Int /\ e \in Int
    BY <1>1, <2>1 DEF Lost, IInv, TypeOK
  <2>5. -t.dilation < e /\ e < t.dilation /\ (delta >= 0 => e >= 0)
    BY <1>2
  <2>6. t.dilation * (reads + 1) = t.dilation * reads + t.dilation
    BY <2>1
  <2>7. t.dilation * reads \in Int
    BY <2>1
  <2>8. /\ -(t.dilation * reads) <= Lost /\ Lost <= t.dilation * reads
        /\ kept = 0 => Lost >= 0
    BY DEF IInv, RoundingBounded
  <2>9. kept = 0 => delta >= 0
    BY <1>1, <1>3, <2>1 DEF IInv, TypeOK, PastBehind
  <2> HIDE DEF e, Lost
  <2> QED
    BY <2>1, <2>3, <2>4, <2>5, <2>6, <2>7, <2>8, <2>9
<1> QED
  BY <1>1, <1>4, <1>5, <1>6 DEF IInv

LEMMA NextKeepsIInv ==
  ASSUME Crosses = FALSE, IInv, [Next]_vars
  PROVE  IInv'
<1>1. CASE Tick
  BY <1>1, TickKeepsIInv
<1>2. ASSUME NEW tdf \in Tdfs, WriteDilation(tdf) PROVE IInv'
  <2>1. tdf \in Int
    BY TdfsAssumption
  <2> QED
    BY <1>2, <2>1, WriteDilationKeepsIInv
<1>3. CASE Unshare
  BY <1>3, UnshareKeepsIInv
<1>4. CASE Freeze
  BY <1>4, FreezeKeepsIInv
<1>5. CASE Unfreeze
  BY <1>5, UnfreezeKeepsIInv
<1>6. CASE Read
  BY <1>6, ReadKeepsIInv
<1>7. CASE UNCHANGED vars
  BY <1>7 DEF vars, IInv, TypeOK, FreezeStartPast, FreezeInForce, Accounts,
              InFreeze, RoundingBounded, Lost, PastBehind
<1> QED
  BY <1>1, <1>2, <1>3, <1>4, <1>5, <1>6, <1>7 DEF Next

----------------------------------------------------------------------------
(* Safety, with or without changes of factor, as long as virtual time is   *)
(* not entered or left while stopped.                                      *)

LEMMA IInvAlways == ASSUME Crosses = FALSE PROVE Spec => []IInv
<1>1. IInv /\ [Next]_vars => IInv'
  BY NextKeepsIInv
<1> QED
  BY IInvInit, <1>1, PTL DEF Spec

\* The fields of the task, the wall clock and the history stay integers.
THEOREM TypeCorrect == ASSUME Crosses = FALSE PROVE Spec => []TypeOK
<1>1. IInv => TypeOK
  BY DEF IInv
<1> QED
  BY IInvAlways, <1>1, PTL

\* A recorded freeze is in force and a stopped process has one recorded: an
\* unfreeze of a stopped process never returns early.
THEOREM FreezeAlwaysInForce == ASSUME Crosses = FALSE PROVE Spec => []FreezeInForce
<1>1. IInv => FreezeInForce
  BY DEF IInv
<1> QED
  BY IInvAlways, <1>1, PTL

\* Frozen time is never accounted to the clock.
THEOREM FrozenTimeIsAccounted ==
  ASSUME Crosses = FALSE PROVE Spec => []AccountsFrozenTime
<1>1. IInv => AccountsFrozenTime
  BY DEF IInv, Accounts, AccountsFrozenTime, Virtual
<1> QED
  BY IInvAlways, <1>1, PTL

LEMMA IInvKeepsTime == IInv => KeepsTime
<1> SUFFICES ASSUME IInv, Virtual(t), ~stopped, t.dilation <= MaxTdf
             PROVE  LET v == Reading(t, now) - t.vsn - carried
                        err == 1000 * (ran - kept) - t.dilation * v
                    IN  /\ -t.dilation * (reads + 1) < err
                        /\ err < t.dilation * (reads + 1)
                        /\ kept = 0 => err >= 0
  BY DEF KeepsTime
<1> DEFINE delta == DeltaPpn(t, now)
           dv == DeltaVpn(delta, t.dilation)
           e == 1000 * delta - t.dilation * dv
           d == t.dilation
           v == Reading(t, now) - t.vsn - carried
<1>1. /\ d \in Int /\ d > 0 /\ d \in 1 .. MaxTdf /\ reads \in Nat
      /\ t.ppn \in Int /\ t.vpn \in Int /\ t.vsn \in Int
      /\ carried \in Int /\ ran \in Int /\ kept \in Int /\ delta \in Int
  <2>1. t.dilation \in Int /\ t.dilation > 0 /\ MaxTdf \in Int
    BY DEF IInv, TypeOK, Task, Virtual, MaxTdf
  <2>2. t.dilation \in 1 .. MaxTdf
    BY <2>1
  <2>3. /\ t.ppn \in Int /\ t.vpn \in Int /\ t.vsn \in Int /\ delta \in Int
        /\ carried \in Int /\ ran \in Int /\ kept \in Int /\ reads \in Nat
    BY DEF IInv, TypeOK, Task, DeltaPpn
  <2> QED
    BY <2>1, <2>2, <2>3
<1>2. t.ppn + delta = ran - kept
  BY DEF IInv, TypeOK, FreezeInForce, Accounts, InFreeze, DeltaPpn, Task, Virtual
<1>3. v = t.vpn + dv - carried
  <2>1. dv \in Int
    BY <1>1, DeltaVpnBound
  <2>2. Reading(t, now) = t.vsn + t.vpn + dv
    BY DEF Reading
  <2> HIDE DEF dv
  <2> QED
    BY <1>1, <2>1, <2>2
<1> HIDE DEF delta
<1>4. dv \in Int /\ -d < e /\ e < d /\ (delta >= 0 => e >= 0)
  <2>1. d \in Int /\ d > 0 /\ delta \in Int
    BY <1>1
  <2> HIDE DEF d
  <2>2. /\ DeltaVpn(delta, d) \in Int
        /\ d <= MaxTdf =>
             LET x == 1000 * delta - d * DeltaVpn(delta, d)
             IN  -d < x /\ x < d /\ (delta >= 0 => x >= 0)
    BY <2>1, DeltaVpnBound
  <2> QED
    BY <2>2 DEF d
<1>5. /\ -(d * reads) <= Lost /\ Lost <= d * reads /\ (kept = 0 => Lost >= 0)
  BY <1>1 DEF IInv, RoundingBounded
<1>6. kept = 0 => delta >= 0
  BY <1>1, <1>2 DEF IInv, TypeOK, PastBehind
<1> HIDE DEF dv, v
<1>7. 1000 * (ran - kept) - d * v = Lost + e
  <2>1. 1000 * (t.ppn + delta) - d * (t.vpn + dv - carried)
          = (1000 * t.ppn - d * (t.vpn - carried)) + (1000 * delta - d * dv)
    BY <1>1, <1>4
  <2> QED
    BY <1>2, <1>3, <2>1 DEF Lost
<1>8. /\ d * (reads + 1) = d * reads + d /\ d * reads \in Int
      /\ -d * (reads + 1) = -(d * reads) - d
  BY <1>1
<1>9. Lost \in Int /\ e \in Int
  BY <1>1, <1>4 DEF Lost
<1> HIDE DEF e, Lost, d
<1>10. /\ -d * (reads + 1) < Lost + e /\ Lost + e < d * (reads + 1)
       /\ kept = 0 => Lost + e >= 0
  BY <1>1, <1>4, <1>5, <1>6, <1>8, <1>9
<1> QED
  BY <1>7, <1>10 DEF d, v

\* Every reading is the start of the clock, what was carried over a change
\* of factor, and the accounted time divided by the factor, to within a
\* nanosecond per reading.
THEOREM ClockKeepsTime == ASSUME Crosses = FALSE PROVE Spec => []KeepsTime
BY IInvAlways, IInvKeepsTime, PTL

----------------------------------------------------------------------------
(* One factor per stay in virtual time.                                    *)

OneFactorInv ==
  /\ changes = 0
  /\ t.dilation # 0 =>
       /\ kept = 0 /\ carried = 0
       /\ t.vsn >= Epoch /\ t.vpn >= 0 /\ seen = t.vsn + t.vpn
  /\ t.dilation = 0 => t.vsn = 0 /\ ran = 0 /\ reads = 0 /\ seen = 0

LEMMA OneFactorInit == Init => OneFactorInv
BY DEF Init, OneFactorInv, Blank

\* Without changes of factor, what is read next is no earlier than the last
\* reading, at whatever moment it is read while the process runs.
LEMMA ReadingForward ==
  ASSUME IInv, OneFactorInv, ~stopped
  PROVE  Reading(t, now) \in Int /\ Reading(t, now) >= seen /\ Reading(t, now) >= Epoch
<1> USE EpochAssumption DEF IInv, TypeOK
<1>1. CASE ~Virtual(t)
  <2>1. t.dilation = 0
    BY <1>1 DEF Virtual, OneFactorInv
  <2> QED
    BY <1>1, <2>1 DEF Reading, OneFactorInv
<1>2. CASE Virtual(t)
  <2> DEFINE delta == DeltaPpn(t, now)
             dv == DeltaVpn(delta, t.dilation)
  <2>1. t.dilation > 0 /\ t.dilation \in Int /\ delta \in Int
    BY <1>2 DEF Virtual, Task, DeltaPpn
  <2>2. t.ppn + delta = ran - kept
    BY <2>1 DEF FreezeInForce, Accounts, InFreeze, DeltaPpn, Task
  <2>3. delta >= 0
    BY <2>1, <2>2 DEF PastBehind, OneFactorInv, Task
  <2> HIDE DEF delta
  <2>4. dv \in Int /\ dv >= 0
    BY <2>1, <2>3, DeltaVpnBound
  <2>5. Reading(t, now) = t.vsn + t.vpn + dv
    BY <1>2 DEF Reading, delta
  <2> HIDE DEF dv
  <2> QED
    BY <2>1, <2>4, <2>5 DEF OneFactorInv, Task
<1> QED
  BY <1>1, <1>2

LEMMA NextKeepsOneFactor ==
  ASSUME Crosses = FALSE, MaxChanges = 0, IInv, OneFactorInv, [Next]_vars
  PROVE  OneFactorInv'
<1> USE DEF OneFactorInv
<1>1. CASE Tick
  BY <1>1 DEF Tick
<1>2. ASSUME NEW tdf \in Tdfs, WriteDilation(tdf) PROVE OneFactorInv'
  <2>1. tdf \in Int
    BY TdfsAssumption
  <2>2. UNCHANGED vars \/ Entering(tdf) \/ Leaving(tdf) \/ Changing(tdf)
    BY <1>2, <2>1, WriteDilationCases
  <2>3. CASE UNCHANGED vars
    BY <2>3 DEF vars
  <2>4. CASE Entering(tdf)
    BY <2>1, <2>4 DEF Entering, IInv, TypeOK
  <2>5. CASE Leaving(tdf)
    BY <2>5 DEF Leaving, Blank
  <2>6. CASE Changing(tdf)
    BY <2>6 DEF Changing
  <2> QED
    BY <2>2, <2>3, <2>4, <2>5, <2>6
<1>3. CASE Unshare
  <2> DEFINE v == Reading(t, now)
  <2>1. /\ ~stopped /\ v \in Int
        /\ t' = [dilation |-> 1000, vsn |-> v, vpn |-> 0, psn |-> now,
                 ppn |-> 0, fsn |-> 0, fpn |-> 0]
        /\ ran' = 0 /\ reads' = 0 /\ seen' = v /\ kept' = 0 /\ carried' = 0
        /\ UNCHANGED <<now, stopped, changes>>
    BY <1>3, UnshareStart
  <2>2. v >= Epoch
    BY <2>1, ReadingForward
  <2> HIDE DEF v
  <2> QED
    BY <2>1, <2>2
<1>4. CASE Freeze
  <2>1. /\ t'.dilation = t.dilation /\ t'.vsn = t.vsn /\ t'.vpn = t.vpn
    BY <1>4 DEF Freeze, FreezeTime, IInv, TypeOK, Task
  <2> QED
    BY <1>4, <2>1 DEF Freeze
<1>5. CASE Unfreeze
  <2>1. /\ t'.dilation = t.dilation /\ t'.vsn = t.vsn /\ t'.vpn = t.vpn
    BY <1>5 DEF Unfreeze, UnfreezeTime, IInv, TypeOK, Task
  <2> QED
    BY <1>5, <2>1 DEF Unfreeze
<1>6. CASE Read
  <2> DEFINE delta == DeltaPpn(t, now)
             dv == DeltaVpn(delta, t.dilation)
  <2>1. /\ ~stopped /\ t.dilation > 0 /\ t.vsn # 0
        /\ delta \in Int /\ dv \in Int
        /\ t' \in Task /\ t'.dilation = t.dilation
        /\ t'.vsn = t.vsn /\ t'.vpn = t.vpn + dv
        /\ t'.psn = t.psn /\ t'.ppn = t.ppn + delta
        /\ t'.fsn = t.fsn /\ t'.fpn = t.fpn
        /\ seen' = t.vsn + t.vpn + dv /\ reads' = reads + 1
        /\ UNCHANGED <<now, stopped, ran, kept, carried, changes>>
    BY <1>6, ReadStep
  <2>2. seen' = Reading(t, now)
    BY <1>6 DEF Read
  <2>3. seen' >= seen
    BY <2>1, <2>2, ReadingForward
  <2>4. t.vsn \in Int /\ t.vpn \in Int /\ seen \in Int
    BY DEF IInv, TypeOK, Task
  <2> HIDE DEF delta, dv
  <2>5. t.vpn + dv >= 0
    BY <2>1, <2>3, <2>4
  <2> QED
    BY <2>1, <2>4, <2>5
<1>7. CASE UNCHANGED vars
  BY <1>7 DEF vars
<1> QED
  BY <1>1, <1>2, <1>3, <1>4, <1>5, <1>6, <1>7 DEF Next

LEMMA OneFactorAlways ==
  ASSUME Crosses = FALSE, MaxChanges = 0 PROVE Spec => [](IInv /\ OneFactorInv)
<1>1. Init => IInv /\ OneFactorInv
  BY IInvInit, OneFactorInit
<1>2. IInv /\ OneFactorInv /\ [Next]_vars => (IInv /\ OneFactorInv)'
  BY NextKeepsIInv, NextKeepsOneFactor
<1> QED
  BY <1>1, <1>2, PTL DEF Spec

\* A process that stays in virtual time never reads a time before one it has
\* read, whatever freezes, unfreezes and unshares come in between.
THEOREM ClockNeverGoesBack ==
  ASSUME Crosses = FALSE, MaxChanges = 0 PROVE Spec => Forward
<1> DEFINE A == t.dilation # 0 /\ t'.dilation # 0 => seen' >= seen
<1>1. ASSUME IInv, OneFactorInv, [Next]_vars PROVE [A]_vars
  <2>1. ASSUME seen' = seen PROVE A
    BY <1>1, <2>1 DEF IInv, TypeOK
  <2>2. CASE Tick
    BY <2>1, <2>2 DEF Tick
  <2>3. ASSUME NEW tdf \in Tdfs, WriteDilation(tdf) PROVE [A]_vars
    <3>1. UNCHANGED vars \/ Entering(tdf) \/ Leaving(tdf) \/ Changing(tdf)
      BY <1>1, <2>3, TdfsAssumption, WriteDilationCases
    <3> QED
      BY <2>1, <3>1 DEF Entering, Leaving, Changing, Blank
  <2>4. CASE Unshare
    BY <1>1, <2>4, ReadingForward DEF Unshare, Restart
  <2>5. CASE Freeze \/ Unfreeze
    BY <2>1, <2>5 DEF Freeze, Unfreeze
  <2>6. CASE Read
    BY <1>1, <2>6, ReadingForward DEF Read
  <2> HIDE DEF A
  <2> QED
    BY <1>1, <2>2, <2>3, <2>4, <2>5, <2>6 DEF Next
<1> QED
  BY OneFactorAlways, <1>1, PTL DEF Spec, Forward

----------------------------------------------------------------------------
(* Refinement: with one factor per stay, of at most 100, the kernel's      *)
(* bookkeeping implements the ideal clock.                                 *)

FactorBounded == t.dilation <= MaxTdf

LEMMA FactorBoundedStep ==
  ASSUME \A tdf \in Tdfs : tdf <= MaxTdf, IInv, FactorBounded, [Next]_vars
  PROVE  FactorBounded'
<1> USE DEF FactorBounded
<1>1. CASE Tick \/ UNCHANGED vars
  BY <1>1 DEF Tick, vars
<1>2. ASSUME NEW tdf \in Tdfs, WriteDilation(tdf) PROVE FactorBounded'
  <2>1. tdf \in Int /\ tdf <= MaxTdf
    BY TdfsAssumption
  <2>2. UNCHANGED vars \/ Entering(tdf) \/ Leaving(tdf) \/ Changing(tdf)
    BY <1>2, <2>1, WriteDilationCases
  <2> QED
    BY <2>1, <2>2 DEF vars, Entering, Leaving, Changing, Blank, MaxTdf
<1>3. CASE Unshare
  <2>1. t' = [dilation |-> 1000, vsn |-> Reading(t, now), vpn |-> 0, psn |-> now,
              ppn |-> 0, fsn |-> 0, fpn |-> 0]
    BY <1>3, UnshareStart
  <2> QED
    BY <2>1 DEF MaxTdf
<1>4. CASE Freeze \/ Unfreeze
  BY <1>4 DEF Freeze, FreezeTime, Unfreeze, UnfreezeTime, IInv, TypeOK, Task
<1>5. CASE Read
  BY <1>5, ReadStep
<1> QED
  BY <1>1, <1>2, <1>3, <1>4, <1>5 DEF Next

\* A reading the kernel returns is one the ideal clock may return.
LEMMA ReadingFaithful ==
  ASSUME IInv, OneFactorInv, FactorBounded, Virtual(t), ~stopped
  PROVE  Ideal!Faithful(Reading(t, now))
<1> DEFINE v == Reading(t, now)
           d == t.dilation
           err == 1000 * ran - d * (v - t.vsn)
<1>1. /\ d \in Int /\ t.vsn \in Int /\ v \in Int /\ reads \in Nat /\ ran \in Nat
  BY ReadingForward DEF IInv, TypeOK, Task
<1>2. KeepsTime
  BY IInvKeepsTime
<1>3. kept = 0 /\ carried = 0
  BY DEF OneFactorInv, Virtual
<1>4. LET w == v - t.vsn - carried
          x == 1000 * (ran - kept) - d * w
      IN  x < d * (reads + 1) /\ (kept = 0 => x >= 0)
  BY <1>2 DEF KeepsTime, FactorBounded
<1> HIDE DEF v, d
<1>5. v - t.vsn - carried = v - t.vsn /\ ran - kept = ran
  BY <1>1, <1>3
<1>6. err < d * (reads + 1) /\ err >= 0
  BY <1>3, <1>4, <1>5
<1>7. d * (v - t.vsn + reads + 1) = d * (v - t.vsn) + d * (reads + 1)
  BY <1>1
<1>8. d * (v - t.vsn) \in Int /\ d * (reads + 1) \in Int
  BY <1>1
<1>9. d * (v - t.vsn) <= 1000 * ran /\ 1000 * ran < d * (v - t.vsn + reads + 1)
  BY <1>1, <1>6, <1>7, <1>8
<1> QED
  BY <1>9 DEF Ideal!Faithful, d, v

\* Every step of the kernel is a step of the ideal clock or changes nothing
\* that the ideal clock shows.
LEMMA StepRefines ==
  ASSUME Crosses = FALSE, MaxChanges = 0,
         IInv, OneFactorInv, FactorBounded, [Next]_vars
  PROVE  [Ideal!Next]_(Ideal!vars)
<1> USE DEF IInv, TypeOK
<1>0. t.dilation \in Int /\ t.vsn \in Int
  BY DEF Task
<1>1. CASE Tick
  <2>1. Ideal!Pass
    BY <1>1 DEF Tick, Ideal!Pass
  <2> QED
    BY <2>1 DEF Ideal!Next
<1>2. ASSUME NEW tdf \in Tdfs, WriteDilation(tdf) PROVE [Ideal!Next]_(Ideal!vars)
  <2>1. tdf \in Int
    BY TdfsAssumption
  <2>2. UNCHANGED vars \/ Entering(tdf) \/ Leaving(tdf) \/ Changing(tdf)
    BY <1>2, <2>1, WriteDilationCases
  <2>3. CASE UNCHANGED vars
    BY <2>3 DEF vars, Ideal!vars
  <2>4. CASE Entering(tdf)
    <3>1. Ideal!Enter
      BY <2>1, <2>4 DEF Entering, OneFactorInv, Ideal!Enter
    <3> QED
      BY <3>1 DEF Ideal!Next
  <2>5. CASE Leaving(tdf)
    <3>1. Ideal!Leave
      BY <2>5 DEF Leaving, Blank, Ideal!Leave
    <3> QED
      BY <3>1 DEF Ideal!Next
  <2>6. CASE Changing(tdf)
    BY <2>6 DEF Changing, OneFactorInv
  <2> QED
    BY <2>2, <2>3, <2>4, <2>5, <2>6
<1>3. CASE Unshare
  <2> DEFINE v == Reading(t, now)
  <2>1. /\ ~stopped /\ v \in Int
        /\ t' = [dilation |-> 1000, vsn |-> v, vpn |-> 0, psn |-> now,
                 ppn |-> 0, fsn |-> 0, fpn |-> 0]
        /\ ran' = 0 /\ reads' = 0 /\ seen' = v
        /\ UNCHANGED <<now, stopped, changes>>
    BY <1>3, UnshareStart
  <2>2. v >= seen
    BY <2>1, ReadingForward
  <2> HIDE DEF v
  <2>3. Ideal!Enter
    BY <2>1, <2>2 DEF Ideal!Enter
  <2> QED
    BY <2>3 DEF Ideal!Next
<1>4. CASE Freeze
  <2>1. t'.dilation = t.dilation /\ t'.vsn = t.vsn
    BY <1>4 DEF Freeze, FreezeTime, Task
  <2>2. stopped'
    <3>1. t.fsn > 0 => t.fsn # 0
      BY DEF Task
    <3>2. t.fsn # 0 => stopped
      BY Zenon DEF FreezeInForce
    <3> QED
      BY <1>4, <3>1, <3>2, Zenon DEF Freeze
  <2>3. Ideal!Freeze
    BY <1>4, <2>1, <2>2 DEF Freeze, Ideal!Freeze
  <2> QED
    BY <2>3 DEF Ideal!Next
<1>5. CASE Unfreeze
  <2>1. t'.dilation = t.dilation /\ t'.vsn = t.vsn
    BY <1>5 DEF Unfreeze, UnfreezeTime, Task
  <2>2. ~stopped'
    BY <1>5 DEF Unfreeze, FreezeInForce
  <2>3. Ideal!Unfreeze
    BY <1>5, <2>1, <2>2 DEF Unfreeze, Ideal!Unfreeze
  <2> QED
    BY <2>3 DEF Ideal!Next
<1>6. CASE Read
  <2> DEFINE v == Reading(t, now)
  <2>1. /\ t'.dilation = t.dilation /\ t'.vsn = t.vsn /\ t.dilation # 0
        /\ ~stopped /\ reads' = reads + 1 /\ ran' = ran /\ stopped' = stopped
    BY <1>6, ReadStep
  <2>2. seen' = v /\ Virtual(t)
    BY <1>6 DEF Read
  <2>3. v \in Int /\ v >= seen
    BY <2>1, ReadingForward
  <2>4. Ideal!Faithful(v)
    BY <2>1, <2>2, ReadingFaithful
  <2> HIDE DEF v
  <2>5. Ideal!Read
    BY <2>1, <2>2, <2>3, <2>4 DEF Ideal!Read
  <2> QED
    BY <2>5 DEF Ideal!Next
<1>7. CASE UNCHANGED vars
  BY <1>7 DEF vars, Ideal!vars
<1> QED
  BY <1>1, <1>2, <1>3, <1>4, <1>5, <1>6, <1>7 DEF Next

\* The kernel's bookkeeping for one process implements the ideal clock.
THEOREM RefinesIdealClock ==
  ASSUME Crosses = FALSE, MaxChanges = 0, \A tdf \in Tdfs : tdf <= MaxTdf
  PROVE  Spec => IdealSpec
<1>1. Init => Ideal!Init
  BY DEF Init, Ideal!Init, Blank
<1>2. Init => FactorBounded
  BY DEF Init, FactorBounded, Blank, MaxTdf
<1>3. IInv /\ FactorBounded /\ [Next]_vars => FactorBounded'
  BY FactorBoundedStep
<1>4. IInv /\ OneFactorInv /\ FactorBounded /\ [Next]_vars
        => [Ideal!Next]_(Ideal!vars)
  BY StepRefines
<1>5. Spec => Ideal!Spec
  BY OneFactorAlways, <1>1, <1>2, <1>3, <1>4, PTL DEF Spec, Ideal!Spec
<1> QED
  BY <1>5 DEF IdealSpec

=============================================================================

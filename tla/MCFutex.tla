------------------------------ MODULE MCFutex ------------------------------
(* Two waiters and two wakers on three futexes in two buckets.  waiterA     *)
(* waits for futexF with a timeout that is dilated, is frozen and catches   *)
(* signals; waiterB waits without one.  wakerY wakes futexF or requeues     *)
(* from there into the same and into the other bucket; wakerX wakes there,  *)
(* or both.                                                                 *)
EXTENDS Futex, TLC

CONSTANTS waiterA, waiterB, wakerX, wakerY, futexF, futexG, futexH

MCHash == futexF :> 1 @@ futexG :> 2 @@ futexH :> 1
MCTdf == waiterA :> 2000 @@ waiterB :> 0
MCBitsets == {{1}}
MCRequests == waiterA :> {1} @@ waiterB :> {None}
MCCounts == {1}
MCWaitsOn == waiterA :> {futexF} @@ waiterB :> {futexF}
MCSignals == waiterA :> {"stop", "catch"} @@ waiterB :> {}
MCDoes == wakerX :> {<<"wake", futexG, futexG>>, <<"op", futexG, futexF>>}
       @@ wakerY :> {<<"wake", futexF, futexF>>,
                     <<"cmp", futexF, futexG>>, <<"cmp", futexF, futexH>>}
=============================================================================

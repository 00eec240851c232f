--------------------------- MODULE MCVirtualTime ---------------------------
(* A container of up to three tasks.  All but Root and the reaper are      *)
(* interchangeable.  Either the tree is a lively one with one TDF, or the  *)
(* container enters, changes and leaves virtual time.                      *)
EXTENDS VirtualTime, TLC

CONSTANTS r, c, d, init

ThreeTasks == {init, r, c, d}
JustRoot == {r}
Lively == [uses |-> {"thread", "orphan", "setsid"}, tdfs |-> {2000}, changes |-> 0,
           span |-> 3]
Redilated == [uses |-> {"fail"}, tdfs |-> {-1, 0, 500, 2000}, changes |-> 1,
              span |-> 2]
LivelyOrRedilated == {Lively, Redilated}
Interchangeable == Permutations({c, d})

=============================================================================

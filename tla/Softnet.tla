------------------------------ MODULE Softnet ------------------------------
(***************************************************************************)
(* The CPUs between which the sending and the receiving half of            *)
(* net_dilation/core/dev.c divide their work: each has a softnet_data and  *)
(* runs softirqs while it is online.  One may be unplugged if Unplug.      *)
(***************************************************************************)
EXTENDS FiniteSets

CONSTANTS Cpu, Unplug

ASSUME CpuAssumption == IsFiniteSet(Cpu) /\ Unplug \in BOOLEAN

VARIABLE online  \* the CPUs of cpu_online_mask

=============================================================================

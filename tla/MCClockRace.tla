--------------------------- MODULE MCClockRace ----------------------------
(* A leader and its child with one tool, or the leader alone with two      *)
(* tools and packets that are stamped while it reads.                      *)
EXTENDS ClockRace

CONSTANTS boss, kid, mininet, daemon

Everyone == {boss, kid}
Tools == {mininet, daemon}
Family == [procs |-> {boss, kid}, tools |-> {mininet}, serial |-> TRUE,
           stamps |-> FALSE, span |-> 2]
RacingTools == [procs |-> {boss}, tools |-> {mininet, daemon}, serial |-> FALSE,
                stamps |-> TRUE, span |-> 1]
Alone == [procs |-> {boss}, tools |-> {mininet}, serial |-> TRUE,
          stamps |-> FALSE, span |-> 3]
FamilyOrTools == {Family, RacingTools}
JustAlone == {Alone}

=============================================================================

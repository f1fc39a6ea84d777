----------------------------- MODULE MCCollector -----------------------------
(* Instances of Collector for TLC: the unit and a run by hand, two network   *)
(* modules, of which a machine may lack one, and a window of one whole pause *)
(* and one that is cut.                                                      *)
EXTENDS Collector

CONSTANTS unit, hand, ports, profile

BothRuns   == {unit, hand}
TwoModules == {ports, profile}

\* A machine whose tunnels and profile both answer, and one without a profile.
AllOrNoProfile == {{}, {profile}}

AllKinds == {"trigger", "kill", "reboot", "lock", "silent", "raise", "write",
             "commit", "unlink"}

=============================================================================

-------------------------------- MODULE Zswap --------------------------------
(***************************************************************************)
(* The compressed swap cache section: the kernel parameters of the running *)
(* machine and the boot service that repeats the same writes.              *)
(***************************************************************************)
EXTENDS TaskRun

CONSTANT Parameters

(* param: which parameters have the target value; unit: what the unit file *)
(* writes at a boot, the target of now or that of an earlier version.      *)
Init ==
  /\ sys = [param |-> {}, unit |-> "none", enabled |-> FALSE]
  /\ run = NoRun([todo |-> {}, wrote |-> FALSE, enabled |-> FALSE])
  /\ left = Budget

StartTask == \E force \in BOOLEAN :
  Begin("check", force, [todo |-> {}, wrote |-> FALSE, enabled |-> FALSE])

\* the text of the unit file is not part of the state that is looked at
Check ==
  Do("check", sys,
     IF ~run.force /\ sys.param = Parameters /\ sys.enabled THEN Goto(run, "end")
     ELSE Goto(Recall(run, [todo |-> IF run.force THEN Parameters ELSE Parameters \ sys.param,
                            wrote |-> FALSE, enabled |-> sys.enabled]), "write"))

Tried(p, r) == Recall(r, [r.mem EXCEPT !.todo = @ \ {p}])
Wrote(r)    == Recall(Changed(r), [r.mem EXCEPT !.wrote = TRUE])
\* a mutant for TaskEnds: a parameter that was written stays to be written
WriteParameterAgain ==
  \/ \E p \in run.mem.todo :
       Do("write", [sys EXCEPT !.param = @ \cup {p}], Changed(run))
  \/ /\ run.mem.todo = {}
     /\ Do("write", sys, Goto(run, "unit"))

WriteParameter ==
  \/ \E p \in run.mem.todo :
       Do("write", [sys EXCEPT !.param = @ \cup {p}], Wrote(Tried(p, run)))
  \/ \E p \in run.mem.todo : Fault("write", Warned(Tried(p, run)))
  \/ /\ run.mem.todo = {}
     /\ Do("write", sys, Goto(Noted(run, ~run.mem.enabled),
                              IF run.mem.wrote THEN "verify" ELSE "unit"))

\* read back: the kernel may have refused a value without an error
Verify ==
  \/ Do("verify", sys, Goto(IF sys.param = Parameters THEN run ELSE Warned(run), "unit"))
  \/ \E p \in Parameters :
       FaultLeaving("verify", [sys EXCEPT !.param = @ \ {p}], Goto(Warned(run), "unit"))
WriteUnit ==
  \/ Do("unit", [sys EXCEPT !.unit = "new"], Goto(run, "enable"))
  \/ Fault("unit", Goto(Warned(run), "end"))

\* one block: a failed reload leaves the unit as it was enabled before
ReloadAndEnable ==
  \/ Do("enable", [sys EXCEPT !.enabled = TRUE], Goto(run, "end"))
  \/ Fault("enable", Goto(Warned(run), "end"))

\* the boot service runs the unit file, new, old or none
Reboot ==
  Event([sys EXCEPT !.param = IF sys.enabled /\ sys.unit = "new" THEN Parameters ELSE {}])

\* another version of the package wants other values
Upgrade ==
  Event([sys EXCEPT !.param = {}, !.unit = IF @ = "none" THEN "none" ELSE "old"])
-----------------------------------------------------------------------------
Step == Check \/ WriteParameter \/ Verify \/ WriteUnit \/ ReloadAndEnable

Next == Step \/ StartTask \/ Kill \/ Reboot \/ Upgrade

Spec == Init /\ [][Next]_frame /\ WF_frame(Step)
-----------------------------------------------------------------------------
(* The values of the variables (zswap_service.py).                         *)
ZswapType ==
  /\ RunType({"check", "write", "verify", "unit", "enable"},
             [todo : SUBSET Parameters, wrote : BOOLEAN, enabled : BOOLEAN])
  /\ sys.param \subseteq Parameters /\ sys.unit \in {"none", "old", "new"}
  /\ sys.enabled \in BOOLEAN

(* A plain done result means every parameter has its target value and the  *)
(* service starts at boot, whatever failed before.                         *)
ZswapCleanTask == CleanRunReaches(sys.param = Parameters /\ sys.enabled)

(* As long as no call failed and no run was cut off, the next boot sets    *)
(* the same values again.                                                  *)
SurvivesBoot == CleanRunReaches(sys.unit = "new")
ZswapSurvivesBoot == left.kills = MaxKills /\ left.faults = MaxFaults => SurvivesBoot

(* After a clean run the next one finds nothing to do.                     *)
ZswapRerunChangesNothing == RerunChangesNothing
=============================================================================

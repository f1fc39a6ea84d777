----------------------------- MODULE UnitDeploy -----------------------------
(***************************************************************************)
(* Putting a program and the systemd unit that runs it on the machine, the *)
(* helpers of systemd_unit.py two swap sections share.  The machine keeps  *)
(*   prog     whether the deployed program has the content of the clone    *)
(*   exec     whether that file may be executed                            *)
(*   unit     what the unit file says, the empty set when there is none      *)
(*   loaded   the content systemd last read                                *)
(*   enabled  whether the unit starts at boot                              *)
(*   active   a oneshot unit that ended well stays active, due when the    *)
(*            boot is about to start it                                    *)
(***************************************************************************)
EXTENDS TaskRun

NotDeployed ==
  [prog |-> FALSE, exec |-> FALSE, unit |-> {}, loaded |-> {}, enabled |-> FALSE,
   active |-> "no"]

(* The content is compared and nothing else: a file that is current is     *)
(* left as it is, whatever its mode.  Writing replaces the file by a new   *)
(* one, which carries the mode of a fresh file until the next step.        *)
DeployProgram(label, modeLabel, next, onError) ==
  \/ /\ sys.dep.prog
     /\ Do(label, sys, Goto(run, next))
  \/ /\ ~sys.dep.prog
     /\ Do(label, [sys EXCEPT !.dep.prog = TRUE, !.dep.exec = FALSE],
           Goto(run, modeLabel))
  \/ Fault(label, Goto(Warned(run), onError))

SetProgramMode(label, next, onError) ==
  \/ Do(label, [sys EXCEPT !.dep.exec = TRUE], Goto(Changed(run), next))
  \/ Fault(label, Goto(Warned(run), onError))
\* a mutant for RerunChangesNothing: the file is not compared
WriteUnitAlways(label, content, reloadLabel, next, onError) ==
  Do(label, [sys EXCEPT !.dep.unit = content, !.dep.loaded = content],
     Goto(Changed(run), reloadLabel))

(* The unit file is written only when it differs, systemd reads it again   *)
(* only when this very run wrote it; a unit it does not know is read at once.   *)
WriteUnit(label, content, reloadLabel, next, onError) ==
  \/ /\ sys.dep.unit = content
     /\ Do(label, sys, Goto(run, next))
  \/ /\ sys.dep.unit # content
     /\ Do(label, [sys EXCEPT !.dep.unit = content,
                          !.dep.loaded = IF @ = {} THEN content ELSE @], Goto(Changed(run), reloadLabel))
  \/ Fault(label, Goto(Warned(run), onError))

ReloadSystemd(label, next) ==
  \/ Do(label, [sys EXCEPT !.dep.loaded = sys.dep.unit], Goto(run, next))
  \/ Fault(label, Goto(Warned(run), next))

\* systemctl enable makes systemd read its units as well
EnableUnit(label, next) ==
  \/ /\ sys.dep.enabled
     /\ Do(label, sys, Goto(run, next))
  \/ /\ ~sys.dep.enabled
     /\ Do(label, [sys EXCEPT !.dep.enabled = TRUE, !.dep.loaded = sys.dep.unit],
           Goto(Changed(run), next))
  \/ Fault(label, Goto(Warned(run), next))

\* the program of the unit came to its end
UnitLeft(active) == [sys EXCEPT !.dep.active = active]

(* The unit is started where its file could be written; a start leaves a   *)
(* unit that is active alone (RemainAfterExit of both templates).          *)
StartUnitOf(label, content, runs) ==
  \/ /\ sys.dep.unit # content \/ sys.dep.active = "yes"
     /\ Do(label, sys, Goto(run, "end"))
  \/ /\ sys.dep.unit = content /\ sys.dep.active # "yes"
     /\ Do(label, sys, IF sys.dep.loaded # {} /\ sys.dep.exec THEN runs
                       ELSE Goto(Warned(run), "end"))
  \/ /\ sys.dep.unit = content
     /\ Fault(label, Goto(Warned(run), "end"))

\* the boot reads every unit file and starts what is enabled
BootedUnits(dep) ==
  [dep EXCEPT !.loaded = dep.unit, !.active = IF dep.enabled THEN "due" ELSE "no"]

DeployType ==
  sys.dep \in [prog : BOOLEAN, exec : BOOLEAN, unit : SUBSET {"unit", "force", "device"},
               loaded : SUBSET {"unit", "force", "device"}, enabled : BOOLEAN,
               active : {"no", "due", "yes"}]
=============================================================================

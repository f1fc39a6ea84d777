------------------------------ MODULE TmpToDisk ------------------------------
(***************************************************************************)
(* The section that moves /tmp from memory to the disk: copy the contents  *)
(* to a staging directory, take the memory mount out of the fstab, mask    *)
(* the unit, release the mount and move the contents into place.           *)
(***************************************************************************)
EXTENDS TaskRun

Places == {"memory", "staging", "disk"}

(* memory: /tmp shows the memory mount; held: a process keeps it busy;     *)
(* at: where the contents a user had in /tmp can still be read; stale:     *)
(* the same of the staging directories of earlier runs.                    *)
Init ==
  /\ \E held \in BOOLEAN, entry \in BOOLEAN :
       sys = [memory |-> TRUE, held |-> held, entry |-> entry, masked |-> FALSE,
              mode |-> TRUE, at |-> {"memory"}]
  /\ run = NoRun([inMemory |-> FALSE, entry |-> FALSE, masked |-> FALSE,
                  staging |-> FALSE, released |-> FALSE])
  /\ left = Budget

Mem(r, field, value) == Recall(r, [r.mem EXCEPT ![field] = value])

StartTask == \E force \in BOOLEAN : Begin("mount", force,
  [inMemory |-> FALSE, entry |-> FALSE, masked |-> FALSE, staging |-> FALSE,
   released |-> FALSE])

\* three readings; one that fails is a warning, and its answer counts as no
ReadMount ==
  \/ Do("mount", sys, Goto(Mem(run, "inMemory", sys.memory), "entry"))
  \/ Fault("mount", Goto(Warned(run), "entry"))
ReadEntry ==
  \/ Do("entry", sys, Goto(Mem(run, "entry", sys.entry), "unit"))
  \/ Fault("entry", Goto(Warned(run), "unit"))
ReadUnit ==
  \/ Do("unit", sys, Goto(Mem(run, "masked", sys.masked), "decide"))
  \/ Fault("unit", Goto(Warned(run), "decide"))

Decide ==
  Do("decide", sys,
     IF ~run.warn /\ ~run.mem.inMemory /\ ~run.mem.entry /\ run.mem.masked /\ sys.mode
     THEN Goto(run, "end") ELSE Goto(run, "tools"))

InstallTools ==
  \/ Do("tools", sys, Goto(run, IF run.mem.inMemory THEN "stage" ELSE "fstab"))
  \/ Fault("tools", Goto(Warned(run), IF run.mem.inMemory THEN "stage" ELSE "fstab"))

\* without a staging directory the task goes on, without a copy it ends
MakeStaging ==
  \/ Do("stage", sys, Goto(Mem(run, "staging", TRUE), "copy"))
  \/ Fault("stage", Goto(Warned(run), "fstab"))

CopyOut ==
  \/ Do("copy", [sys EXCEPT !.at = @ \cup {"staging"}], Goto(Changed(run), "fstab"))
  \/ Fault("copy", Goto(Warned(run), "end"))

RemoveEntry ==
  \/ /\ run.mem.entry
     /\ Do("fstab", [sys EXCEPT !.entry = FALSE], Goto(Changed(run), "mask"))
  \/ /\ ~run.mem.entry
     /\ Do("fstab", sys, Goto(run, "mask"))
  \/ /\ run.mem.entry
     /\ Fault("fstab", Goto(Warned(run), "mask"))

AfterMask(r) == Goto(Mem(r, "released", ~r.mem.inMemory),
                     IF r.mem.inMemory THEN "stop" ELSE "mode")

MaskUnit ==
  \/ /\ run.mem.masked
     /\ Do("mask", sys, AfterMask(run))
  \/ /\ ~run.mem.masked
     /\ Do("mask", [sys EXCEPT !.masked = TRUE], AfterMask(Changed(run)))
  \/ /\ ~run.mem.masked
     /\ \E masked \in BOOLEAN :                  \* the reload after it may fail
          FaultLeaving("mask", [sys EXCEPT !.masked = masked], AfterMask(Warned(run)))

\* the contents of a memory mount go with it; the directory below is bare
Released(machine) ==
  [machine EXCEPT !.memory = FALSE, !.at = @ \ {"memory"}, !.mode = FALSE]

\* a stop that fails is no warning: the mount is read again and detached
StopUnit ==
  \/ /\ ~sys.held
     /\ Do("stop", Released(sys), Goto(run, "look"))
  \/ /\ sys.held
     /\ Do("stop", sys, Goto(run, "look"))
  \/ Fault("stop", Goto(run, "look"))

LookAgain ==
  \/ Do("look", sys, IF sys.memory THEN Goto(run, "detach")
                     ELSE Goto(Changed(Mem(run, "released", TRUE)), "restore"))
  \/ Fault("look", Goto(Warned(run), "detach"))

Detach ==
  \/ /\ sys.memory
     /\ Do("detach", Released(sys), Goto(run, "confirm"))
  \/ /\ ~sys.memory                         \* there is nothing to detach
     /\ Do("detach", sys, Goto(Warned(run), "confirm"))
  \/ Fault("detach", Goto(Warned(run), "confirm"))

Confirm ==
  \/ Do("confirm", sys,
        IF sys.memory THEN Goto(Warned(run), "restore")
        ELSE Goto(Changed(Mem(run, "released", TRUE)), "restore"))
  \/ Fault("confirm", Goto(Warned(run), "restore"))
CopyBack ==
  \/ /\ run.mem.staging /\ run.mem.released
     /\ Do("restore", [sys EXCEPT !.at = @ \cup {"disk"}], Goto(Changed(run), "discard"))
  \/ /\ ~run.mem.staging \/ ~run.mem.released
     /\ Do("restore", sys,
           Goto(IF run.mem.staging THEN Warned(run) ELSE run, "mode"))
  \/ /\ run.mem.staging /\ run.mem.released
     /\ Fault("restore", Goto(Warned(run), "mode"))

DiscardStaging ==
  \/ Do("discard", [sys EXCEPT !.at = @ \ {"staging"}], Goto(run, "mode"))
  \/ Fault("discard", Goto(Warned(run), "mode"))

SetMode ==
  \/ /\ run.mem.released /\ ~sys.mode
     /\ Do("mode", [sys EXCEPT !.mode = TRUE], Goto(Changed(run), "end"))
  \/ /\ ~run.mem.released \/ sys.mode
     /\ Do("mode", sys, Goto(run, "end"))
  \/ /\ run.mem.released /\ ~sys.mode
     /\ Fault("mode", Goto(Warned(run), "end"))

\* a boot mounts the memory where the unit or the fstab asks for it; the mode
\* of the directory is set by the boot as well
Reboot ==
  LET memory == ~sys.masked \/ sys.entry IN
  Event([sys EXCEPT !.memory = memory, !.mode = TRUE,
                    !.at = (@ \ {"memory"}) \cup (IF memory THEN {"memory"} ELSE {})])
-----------------------------------------------------------------------------
Step ==
  \/ ReadMount \/ ReadEntry \/ ReadUnit \/ Decide \/ InstallTools \/ MakeStaging
  \/ CopyOut \/ RemoveEntry \/ MaskUnit \/ StopUnit \/ LookAgain \/ Detach \/ Confirm
  \/ CopyBack \/ DiscardStaging \/ SetMode

Next == Step \/ StartTask \/ Kill \/ Reboot

Spec == Init /\ [][Next]_frame /\ WF_frame(Step)
-----------------------------------------------------------------------------
Labels == {"mount", "entry", "unit", "decide", "tools", "stage", "copy", "fstab", "mask",
           "stop", "look", "detach", "confirm", "restore", "discard", "mode"}

(* The values of the variables (tmp_to_disk.py).                           *)
TmpType ==
  /\ RunType(Labels, [{"inMemory", "entry", "masked", "staging", "released"} -> BOOLEAN])
  /\ sys.at \subseteq Places
  /\ {sys.memory, sys.held, sys.entry, sys.masked, sys.mode} \subseteq BOOLEAN

(* A plain done result means that /tmp is on the disk, that no boot brings *)
(* the memory mount back and that the directory has the mode of a shared   *)
(* temporary directory (task, 269-278).                                    *)
OnDisk == ~sys.memory /\ ~sys.entry /\ sys.masked /\ sys.mode
TmpCleanTask == CleanRunReaches(OnDisk)

(* A run none of whose calls failed reaches that state from whatever an    *)
(* earlier run left, a mount that another process holds included.          *)
TmpFaultFreeTask == FaultFreeRunReaches(OnDisk)

(* Contents that were copied out are never let go before they are in       *)
(* place again: the staging copy is removed by its own run and only after  *)
(* it was moved, whatever failed in between.                               *)
StagedKept == "staging" \in sys.at => sys'.at \cap {"staging", "disk"} # {}
StagedContentsKept == [][StagedKept]_frame

(* If the copy cannot be made, nothing else is changed and the contents    *)
(* stay where they are (module docstring, 14-16): whatever fails, a step   *)
(* of the task never leaves the contents nowhere.                          *)
ContentsKept == sys.at # {} => sys'.at # {} \/ AtRest
ContentsNeverLost == [][ContentsKept]_frame

(* After a clean run the next one finds nothing to do.                     *)
TmpRerunChangesNothing == RerunChangesNothing
=============================================================================

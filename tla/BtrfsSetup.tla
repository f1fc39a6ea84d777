----------------------------- MODULE BtrfsSetup -----------------------------
(***************************************************************************)
(* The section that readies the filesystem: mount options in the fstab, a  *)
(* subvolume of its own for the save points and one for the swap area, the *)
(* maintenance schedule and the menu generator.  The fstab is written in   *)
(* place, so a write that is cut off leaves an empty file.                 *)
(***************************************************************************)
EXTENDS TaskRun

Mounts == {"root", "home"}               \* the mount points to compress
Subs   == {"points", "swap"}             \* the subvolumes the section makes

(* fstab: "whole" is false once its text is lost; compressed and lines are *)
(* what its text asks for.  top: the filesystem's top level is mounted at  *)
(* the temporary place.  swapUnit: the swap section was here; swapOn: the  *)
(* subvolume the swap file in use lies in.                                 *)
Init ==
  /\ \E separateHome \in BOOLEAN, swapped \in BOOLEAN :
       sys = [fstab |-> [whole |-> TRUE, has |-> IF separateHome THEN Mounts ELSE {"root"},
                         compressed |-> {}, lines |-> {}],
              live |-> {}, subs |-> {}, mounted |-> {}, top |-> FALSE,
              swapUnit |-> swapped, swapOn |-> IF swapped THEN "root" ELSE "off",
              schedule |-> FALSE, timers |-> FALSE, generator |-> FALSE,
              dropin |-> FALSE, daemon |-> FALSE]
  /\ run = NoRun([todo |-> {}, sub |-> "points", swapWasOn |-> FALSE])
  /\ left = Budget

Mem(r, field, value) == Recall(r, [r.mem EXCEPT ![field] = value])
Shown == IF sys.fstab.whole THEN sys.fstab.has ELSE {}

StartTask == \E force \in BOOLEAN : Begin("root", force,
  [todo |-> {}, sub |-> "points", swapWasOn |-> FALSE])

ReadRoot ==
  \/ Do("root", sys, Goto(run, "tools"))
  \/ Fault("root", Goto(Warned(run), "end"))

InstallTools ==
  \/ Do("tools", sys, Goto(run, "options"))
  \/ Fault("tools", Goto(Warned(run), "options"))
-----------------------------------------------------------------------------
(* The mount options: one write for all lines, then only the lines this    *)
(* very run changed are mounted again.                                     *)
Uncompressed == Shown \ sys.fstab.compressed

LookAtOptions ==
  \/ /\ Uncompressed = {}
     /\ Do("options", sys, Goto(run, "line"))
  \/ /\ Uncompressed # {}                     \* the file is emptied to be written
     /\ Do("options", [sys EXCEPT !.fstab.whole = FALSE],
           Goto(Mem(run, "todo", Uncompressed), "write_options"))
  \/ Fault("options", Goto(Warned(run), "line"))

WriteOptions ==
  \/ Do("write_options", [sys EXCEPT !.fstab.whole = TRUE,
                                     !.fstab.compressed = @ \cup run.mem.todo],
        Goto(Changed(run), "remount"))
  \/ Fault("write_options", Goto(Warned(Mem(run, "todo", {})), "line"))  \* no space is left

Remount ==
  \/ \E mount \in run.mem.todo :
       Do("remount", [sys EXCEPT !.live = @ \cup {mount}],
          Mem(run, "todo", run.mem.todo \ {mount}))
  \/ \E mount \in run.mem.todo :
       Fault("remount", Warned(Mem(run, "todo", run.mem.todo \ {mount})))
  \/ /\ run.mem.todo = {}
     /\ Do("remount", sys, Goto(run, "line"))
-----------------------------------------------------------------------------
(* One subvolume: its fstab line, the subvolume through a temporary mount  *)
(* of the top level, and its mount.  Every step is taken whatever became   *)
(* of the one before.                                                      *)
Sub  == run.mem.sub
Lined == sys.fstab.whole /\ Sub \in sys.fstab.lines
WriteLine ==
  \/ /\ Lined
     /\ Do("line", sys, Goto(run, "list"))
  \/ /\ "root" \notin Shown                       \* no device to write
     /\ ~Lined
     /\ Do("line", sys, Goto(Warned(run), "list"))
  \/ /\ ~Lined /\ "root" \in Shown
     /\ Do("line", [sys EXCEPT !.fstab.whole = FALSE], Goto(run, "write_line"))
  \/ Fault("line", Goto(Warned(run), "list"))

FinishLine ==
  \/ Do("write_line", [sys EXCEPT !.fstab.whole = TRUE, !.fstab.lines = @ \cup {Sub}],
        Goto(Changed(run), "list"))
  \/ Fault("write_line", Goto(Warned(run), "list"))

\* a listing that fails counts as one without the subvolume
ListSubvolumes ==
  \/ Do("list", sys, Goto(run, IF Sub \in sys.subs THEN "mount" ELSE "top"))
  \/ Fault("list", Goto(run, "top"))

\* the kernel refuses the same filesystem at the same place once more
MountTop ==
  \/ /\ ~sys.top
     /\ Do("top", [sys EXCEPT !.top = TRUE], Goto(run, "create"))
  \/ /\ sys.top
     /\ Do("top", sys, Goto(Warned(run), "mount"))
  \/ Fault("top", Goto(Warned(run), "mount"))
CreateSubvolume ==
  \/ /\ Sub \notin sys.subs
     /\ Do("create", [sys EXCEPT !.subs = @ \cup {Sub}], Goto(Changed(run), "release"))
  \/ /\ Sub \in sys.subs
     /\ Do("create", sys, Goto(Warned(run), "release"))
  \/ Fault("create", Goto(Warned(run), "release"))

ReleaseTop ==
  \/ Do("release", [sys EXCEPT !.top = FALSE], Goto(run, "mount"))
  \/ Fault("release", Goto(Warned(run), "mount"))

AfterMount == IF Sub = "points" THEN "swap" ELSE "restart"

MountSub ==
  \/ /\ Sub \in sys.mounted
     /\ Do("mount", sys, Goto(run, AfterMount))
  \/ /\ Sub \notin sys.mounted /\ Lined /\ Sub \in sys.subs
     /\ Do("mount", [sys EXCEPT !.mounted = @ \cup {Sub}], Goto(Changed(run), AfterMount))
  \/ /\ Sub \notin sys.mounted /\ ~(Lined /\ Sub \in sys.subs)
     /\ Do("mount", sys, Goto(Warned(run), AfterMount))
  \/ /\ Sub \notin sys.mounted
     /\ Fault("mount", Goto(Warned(run), AfterMount))
-----------------------------------------------------------------------------
(* The swap area moves: the swap is stopped, the file in the root removed, *)
(* the subvolume mounted over its directory and the swap started again.    *)
LookAtSwap ==
  Do("swap", sys,
     IF "swap" \in sys.mounted THEN Goto(run, "schedule")
     ELSE Goto(Recall(run, [run.mem EXCEPT !.sub = "swap", !.swapWasOn = sys.swapOn # "off"]),
               IF sys.swapOn # "off" THEN "stop" ELSE "unlink"))

StopSwap ==
  \/ Do("stop", [sys EXCEPT !.swapOn = "off"], Goto(Changed(run), "unlink"))
  \/ Fault("stop", Goto(Warned(run), "unlink"))
\* a mutant for SnapshotsWork: a file that stays ends the move at once
RemoveOldFileOrLeave ==
  \/ /\ sys.swapOn = "off"
     /\ Do("unlink", sys, Goto(run, "line"))
  \/ Fault("unlink", Goto(run, "schedule"))

\* the kernel keeps a swap file that is in use
RemoveOldFile ==
  \/ /\ sys.swapOn = "off"
     /\ Do("unlink", sys, Goto(run, "line"))
  \/ /\ sys.swapOn # "off"
     /\ Do("unlink", sys, Goto(Warned(run), "restart"))
  \/ Fault("unlink", Goto(Warned(run), "restart"))

\* the swap unit makes a file where its directory now lies
Place == IF "swap" \in sys.mounted THEN "swap" ELSE "root"

RestartSwap ==
  \/ /\ run.mem.swapWasOn
     /\ Do("restart", [sys EXCEPT !.swapOn = Place],
           Goto(run, "schedule"))
  \/ /\ run.mem.swapWasOn
     /\ Fault("restart", Goto(Warned(run), "schedule"))
  \/ /\ ~run.mem.swapWasOn
     /\ Do("restart", sys, Goto(run, "schedule"))
-----------------------------------------------------------------------------
(* The maintenance schedule and the menu generator.                        *)
WriteSchedule ==
  \/ Do("schedule", [sys EXCEPT !.schedule = TRUE], Goto(Noted(run, ~sys.schedule), "timers"))
  \/ Fault("schedule", Goto(Warned(run), "timers"))

SetTimers ==
  \/ Do("timers", [sys EXCEPT !.timers = TRUE], Goto(Noted(run, ~sys.timers), "build"))
  \/ Fault("timers", Goto(Warned(run), "build"))

\* the installation of the generator brings a daemon that is enabled
BuildGenerator ==
  \/ /\ ~sys.generator
     /\ Do("build", [sys EXCEPT !.generator = TRUE, !.daemon = TRUE],
           Goto(Changed(run), "dropin"))
  \/ /\ sys.generator
     /\ Do("build", sys, Goto(run, "dropin"))
  \/ /\ ~sys.generator
     /\ Fault("build", Goto(Warned(run), "dropin"))

WriteDropin ==
  \/ Do("dropin", [sys EXCEPT !.dropin = TRUE], Goto(Noted(run, ~sys.dropin), "daemon"))
  \/ Fault("dropin", Goto(Warned(run), "daemon"))

StopDaemon ==
  \/ Do("daemon", [sys EXCEPT !.daemon = FALSE], Goto(Noted(run, sys.daemon), "end"))
  \/ Fault("daemon", Goto(Warned(run), "end"))

\* a boot mounts what the fstab names and starts the swap unit after it
Reboot ==
  LET mounted == IF sys.fstab.whole THEN sys.fstab.lines \cap sys.subs ELSE {}
      place == IF ~sys.swapUnit THEN "off"
               ELSE IF "swap" \in mounted THEN "swap" ELSE "root" IN
  Event([sys EXCEPT !.mounted = mounted, !.top = FALSE,
           !.live = IF sys.fstab.whole THEN sys.fstab.compressed ELSE {},
           !.swapOn = place])
-----------------------------------------------------------------------------
Step ==
  \/ ReadRoot \/ InstallTools \/ LookAtOptions \/ WriteOptions \/ Remount \/ WriteLine
  \/ FinishLine \/ ListSubvolumes \/ MountTop \/ CreateSubvolume \/ ReleaseTop \/ MountSub
  \/ LookAtSwap \/ StopSwap \/ RemoveOldFile \/ RestartSwap \/ WriteSchedule
  \/ SetTimers \/ BuildGenerator \/ WriteDropin \/ StopDaemon

Next == Step \/ StartTask \/ Kill \/ Reboot

Spec == Init /\ [][Next]_frame /\ WF_frame(Step)
-----------------------------------------------------------------------------
Labels == {"root", "tools", "options", "write_options", "remount", "line", "write_line",
           "list", "top", "create", "release", "mount", "swap", "stop", "unlink",
           "restart", "schedule", "timers", "build", "dropin", "daemon"}

(* The values of the variables (btrfs_setup.py).                           *)
BtrfsType ==
  /\ RunType(Labels, [todo : SUBSET Mounts, sub : Subs, swapWasOn : BOOLEAN])
  /\ sys.fstab \in [whole : BOOLEAN, has : SUBSET Mounts, compressed : SUBSET Mounts,
                    lines : SUBSET Subs]
  /\ sys.live \subseteq Mounts /\ sys.swapOn \in {"off", "root", "swap"}
  /\ sys.subs \subseteq Subs /\ sys.mounted \subseteq sys.subs

(* A plain done result means that the fstab was not lost in a write that   *)
(* was cut off, that both subvolumes exist, are mounted and will be        *)
(* mounted by the next boot, and that the schedule, the timers and the     *)
(* generator are in place with its daemon off.                             *)
BtrfsCleanTask ==
  CleanRunReaches(/\ sys.fstab.whole /\ sys.mounted = Subs /\ sys.fstab.lines = Subs /\ Shown = sys.fstab.compressed
                  /\ sys.schedule /\ sys.timers /\ sys.generator /\ sys.dropin /\ ~sys.daemon)

(* A swap that was on is on again at the end of the run, whichever of the  *)
(* steps in between failed, unless the start itself did (try and finally). *)
SwapIsRestarted == run.pc \in {"schedule", "end"} /\ run.mem.swapWasOn =>
                     sys.swapOn # "off" \/ (run.warn /\ run.hurt)

(* A save point can be taken: once a run ends cleanly no swap file in use  *)
(* lies in the root subvolume, where it would block the snapshot.          *)
SnapshotIsPossible == CleanRunReaches(sys.swapOn # "root")

(* The temporary mount of the top level ends with the run that made it,    *)
(* unless the unmount itself failed or the run was cut off.                *)
TopIsReleased == AtRest /\ sys.top => left.kills < MaxKills \/ left.faults < MaxFaults

(* After a clean run the next one finds nothing to do.                     *)
BtrfsRerunChangesNothing == RerunChangesNothing
=============================================================================

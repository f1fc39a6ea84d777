------------------------------ MODULE SavePoint ------------------------------
(***************************************************************************)
(* Two sections and a background job that meet in one filesystem.  The     *)
(* recompression section starts the job that rewrites the data once; the   *)
(* save point section waits for it and stores the read-only point, its     *)
(* writable copy and the boot menu entries of both.                        *)
(***************************************************************************)
EXTENDS TaskRun

CONSTANTS
  Paths,        \* the mount points the job rewrites
  Kernels       \* kernels the machine may run

(* job: the background unit, the paths it has to rewrite, whether a step   *)
(* failed.  data: what was rewritten.  point: what the save point carries. *)
(* menu: the files the boot menu was last built from.  swapInRoot: a swap  *)
(* file in use lies in the root, which makes the snapshot fail.            *)
Files(machine) == [entry |-> machine.entry, visible |-> machine.visible,
                   ignored |-> machine.ignored]

Init ==
  /\ \E kernel \in Kernels, room \in BOOLEAN, swapInRoot \in BOOLEAN :
       LET machine == [room |-> room, swapInRoot |-> swapInRoot, program |-> FALSE, marker |-> FALSE,
              job |-> [st |-> "off", todo |-> {}, failed |-> FALSE], data |-> {},
              session |-> FALSE, point |-> "none", copy |-> FALSE, kernel |-> kernel,
              entry |-> "none", protect |-> FALSE, protects |-> FALSE,
              visible |-> FALSE, ignored |-> FALSE, menu |-> <<>>]
       IN sys = [machine EXCEPT !.menu = Files(machine)]
  /\ run = NoRun("recompress")
  /\ left = Budget
-----------------------------------------------------------------------------
(* The recompression section.                                              *)

StartRecompress == \E force \in BOOLEAN : Begin("marker", force, "recompress")

LookAtMarker ==
  \/ /\ sys.marker /\ ~run.force
     /\ Do("marker", sys, Goto(run, "end"))
  \/ /\ ~sys.marker \/ run.force
     /\ Do("marker", sys, IF sys.room THEN Goto(run, "program") ELSE Goto(Warned(run), "end"))
  \/ Fault("marker", Goto(Warned(run), "end"))              \* the root is not readable

DeployProgram ==
  \/ Do("program", [sys EXCEPT !.program = TRUE],
        Goto(Noted(run, ~sys.program), "unmark"))
  \/ Fault("program", Goto(Warned(run), "unmark"))

RemoveMarker ==
  \/ Do("unmark", IF run.force THEN [sys EXCEPT !.marker = FALSE] ELSE sys,
        Goto(Noted(run, run.force /\ sys.marker), "job"))
  \/ /\ run.force
     /\ Fault("unmark", Goto(Warned(run), "job"))

\* the service manager refuses a second unit of the same name
StartJob ==
  \/ /\ sys.program /\ sys.job.st = "off"
     /\ Do("job", [sys EXCEPT !.job = [st |-> "rewrite", todo |-> Paths, failed |-> FALSE]],
           Goto(Changed(run), "window"))
  \/ /\ ~sys.program \/ sys.job.st # "off"
     /\ Do("job", sys, Goto(Warned(run), "end"))
  \/ Fault("job", Goto(Warned(run), "end"))

OpenWindow ==
  \/ Do("window", sys, Goto(run, "end"))
  \/ Fault("window", Goto(Warned(run), "end"))
-----------------------------------------------------------------------------
(* The job, beside whatever the installer does meanwhile.                  *)

JobStep(machine) == sys' = machine /\ UNCHANGED <<run, left>>

Rewrite == \E path \in sys.job.todo :
  /\ sys.job.st = "rewrite"
  /\ \/ JobStep([sys EXCEPT !.job.todo = @ \ {path}, !.data = @ \cup {path}])
     \/ /\ left.faults > 0
        /\ sys' = [sys EXCEPT !.job.todo = @ \ {path}, !.job.failed = TRUE]
        /\ left' = [left EXCEPT !.faults = @ - 1]
        /\ UNCHANGED run

Balance ==
  /\ sys.job.st = "rewrite" /\ sys.job.todo = {}
  /\ \/ JobStep([sys EXCEPT !.job.st = "balanced"])
     \/ /\ left.faults > 0
        /\ sys' = [sys EXCEPT !.job.st = "balanced", !.job.failed = TRUE]
        /\ left' = [left EXCEPT !.faults = @ - 1]
        /\ UNCHANGED run
\* the marker is written when every step succeeded
FinishJob ==
  /\ sys.job.st = "balanced"
  /\ JobStep([sys EXCEPT !.job.st = "off", !.marker = @ \/ ~sys.job.failed])
-----------------------------------------------------------------------------
(* The save point section.                                                 *)

StartPoints == \E force \in BOOLEAN : Begin("root", force, "points")
\* a session of a snapshot leaves the machine alone and says so
LookAtRoot ==
  \/ Do("root", sys, Goto(run, IF sys.session THEN "end" ELSE "tools"))
  \/ Fault("root", Goto(Warned(run), "end"))
InstallTools ==
  \/ Do("tools", sys, Goto(run, IF sys.point = "none" THEN "wait" ELSE "copy"))
  \/ Fault("tools", Goto(Warned(run), IF sys.point = "none" THEN "wait" ELSE "copy"))
\* a mutant for OthersAreLeftAlone: only a warning of the bound is forgotten
AwaitJobQuietly == Do("wait", sys, Goto(run, "point"))

\* the unit is asked again and again; past the bound the point is taken anyway,
\* and a question that is not answered counts as no
AwaitJob ==
  \/ /\ sys.job.st = "off"
     /\ Do("wait", sys, Goto(run, "point"))
  \/ /\ sys.job.st # "off"
     /\ Do("wait", sys, Goto(Warned(run), "point"))
  \/ Fault("wait", Goto(run, "point"))
StorePoint ==
  \/ /\ ~sys.swapInRoot
     /\ Do("point", [sys EXCEPT !.point = IF sys.data = Paths THEN "rewritten" ELSE "plain"],
           Goto(Changed(run), "copy"))
  \/ /\ sys.swapInRoot
     /\ Do("point", sys, Goto(Warned(run), "ignore"))
  \/ Fault("point", Goto(Warned(run), "ignore"))

StoreCopy ==
  \/ Do("copy", [sys EXCEPT !.copy = TRUE], Goto(Noted(run, ~sys.copy), "entry"))
  \/ /\ ~sys.copy
     /\ Fault("copy", Goto(Warned(run), "entry"))

\* one file for all three sessions: written whole or not at all
WriteEntry ==
  \/ Do("entry", [sys EXCEPT !.entry = sys.kernel],
        Goto(Noted(run, sys.entry # sys.kernel), "protect"))
  \/ Fault("entry", Goto(Warned(run), "protect"))

WriteProtection ==
  \/ Do("protect", [sys EXCEPT !.protect = TRUE],
        Goto(Noted(run, ~sys.protect),
             IF ~sys.protect \/ run.force THEN "enable" ELSE "visible"))
  \/ Fault("protect", Goto(Warned(run), "visible"))

EnableProtection ==
  \/ Do("enable", [sys EXCEPT !.protects = TRUE], Goto(run, "visible"))
  \/ Fault("enable", Goto(Warned(run), "visible"))

ShowMenu ==
  \/ Do("visible", [sys EXCEPT !.visible = TRUE], Goto(Noted(run, ~sys.visible), "ignore"))
  \/ Fault("visible", Goto(Warned(run), "ignore"))

IgnorePoints ==
  LET To(r) == Goto(r, IF r.changed \/ r.force THEN "menu" ELSE "end") IN
  \/ Do("ignore", [sys EXCEPT !.ignored = TRUE], To(Noted(IF sys.point = "none" THEN Warned(run)
                                                       ELSE run, ~sys.ignored)))
  \/ Fault("ignore", To(Warned(run)))

RebuildMenu ==
  \/ Do("menu", [sys EXCEPT !.menu = Files(sys)], Goto(run, "end"))
  \/ Fault("menu", Goto(Warned(run), "end"))
-----------------------------------------------------------------------------
(* The machine between two runs.                                           *)

\* a boot ends the job; it may start the machine from a snapshot
Reboot == \E session \in BOOLEAN :
  /\ session => sys.copy /\ sys.menu.entry # "none"
  /\ Event([sys EXCEPT !.session = session, !.job = [st |-> "off", todo |-> {}, failed |-> FALSE]])

\* a new kernel; its installation builds the menu again
NewKernel == \E kernel \in Kernels \ {sys.kernel} :
  Event([sys EXCEPT !.kernel = kernel, !.menu = Files(sys)])
-----------------------------------------------------------------------------
Step ==
  \/ LookAtMarker \/ DeployProgram \/ RemoveMarker \/ StartJob \/ OpenWindow
  \/ LookAtRoot \/ InstallTools \/ AwaitJob \/ StorePoint \/ StoreCopy \/ WriteEntry
  \/ WriteProtection \/ EnableProtection \/ ShowMenu \/ IgnorePoints \/ RebuildMenu

Job == Rewrite \/ Balance \/ FinishJob

Next == Step \/ Job \/ StartRecompress \/ StartPoints \/ Kill \/ Reboot \/ NewKernel

Spec == Init /\ [][Next]_frame /\ WF_frame(Step) /\ WF_frame(Job)
-----------------------------------------------------------------------------
Labels == {"marker", "program", "unmark", "job", "window", "root", "tools", "wait", "point",
           "copy", "entry", "protect", "enable", "visible", "ignore", "menu"}

(* The values of the variables (values/btrfs_points_setup.py).             *)
PointType ==
  /\ RunType(Labels, {"recompress", "points"})
  /\ sys.point \in {"none", "plain", "rewritten"}
  /\ sys.job \in [st : {"off", "rewrite", "balanced"}, todo : SUBSET Paths, failed : BOOLEAN]
  /\ sys.data \subseteq Paths /\ {sys.entry, sys.menu.entry} \subseteq Kernels \cup {"none"}

(* The marker says the rewrite is done: every path was rewritten by the    *)
(* time it exists, whatever job was refused, failed or cut off.            *)
MarkerIsEarned == sys.marker => sys.data = Paths

(* The point is not taken while the job still rewrites the data, unless    *)
(* the run says so or could not ask (_wait_for_recompression).             *)
PointStep == sys'.point # sys.point => sys.job.st = "off" \/ run'.warn \/ run'.hurt
PointWaits == [][PointStep]_frame

(* The stored point is never replaced, neither by force nor by a kernel    *)
(* update: it is the one state the machine can always return to.           *)
SamePoint == sys.point # "none" => sys'.point = sys.point
PointIsKept == [][SamePoint]_frame

(* The menu never offers a point that was not stored.                      *)
EntryNeedsPoint == {sys.entry, sys.menu.entry} # {"none"} => sys.point # "none"

(* A plain done result on the machine's own root means that the point, the *)
(* copy and all the files of the menu are there.                           *)
PointsCleanTask ==
  run.mem = "points" /\ ~sys.session =>
    CleanRunReaches(/\ sys.point # "none" /\ sys.copy /\ sys.entry = sys.kernel
                    /\ sys.protect /\ sys.visible /\ sys.ignored)

(* The menu the machine boots and the protection of the boot directories   *)
(* follow those files as long as nothing failed and no run was cut off; a  *)
(* forced run whose calls succeed brings them back in any case.            *)
MenuIsBuilt ==
  (run.mem = "points" /\ ~sys.session /\ sys.point # "none"
     /\ (run.force \/ (left.kills = MaxKills /\ left.faults = MaxFaults)))
  => FaultFreeRunReaches(sys.menu = Files(sys) /\ sys.protects)

(* A session that runs from a snapshot changes nothing of the machine.     *)
SessionStep == sys.session /\ run.mem = "points" /\ ~AtRest => UNCHANGED sys
SessionChangesNothing == [][SessionStep \/ Job]_frame

=============================================================================

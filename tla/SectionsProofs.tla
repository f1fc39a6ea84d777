---------------------------- MODULE SectionsProofs ----------------------------
(* Proofs about the sections of Sections, for any machine, parameters and    *)
(* bounds.  A section is at work alone, so its invariant is one of every     *)
(* behaviour in which section names it; TasksProofs joins them.              *)
EXTENDS Sections, TLAPS, FiniteSets, WellFoundedInduction
-----------------------------------------------------------------------------
(*****************************************************************************)
(* The save point and the recompression job.                                 *)
(*****************************************************************************)

PointMenuFiles == [entry : Kernels \cup {"none"}, visible : BOOLEAN, ignored : BOOLEAN]
PointJobs      == [st : {"off", "rewrite", "balanced"}, todo : SUBSET Paths, failed : BOOLEAN]
PointPlaces    == Point!Labels \cup {"idle", "end"}

PointMachines ==
  [room : BOOLEAN, swapInRoot : BOOLEAN, program : BOOLEAN, marker : BOOLEAN, job : PointJobs,
   data : SUBSET Paths, session : BOOLEAN, point : {"none", "plain", "rewritten"},
   copy : BOOLEAN, kernel : Kernels, entry : Kernels \cup {"none"}, protect : BOOLEAN,
   protects : BOOLEAN, visible : BOOLEAN, ignored : BOOLEAN, menu : PointMenuFiles]

PointRuns == [pc : PointPlaces, force : BOOLEAN, warn : BOOLEAN, changed : BOOLEAN,
         hurt : BOOLEAN, settled : BOOLEAN, mem : {"recompress", "points"}]

SaveTypes == sys \in PointMachines /\ run \in PointRuns

\* a job that has not failed has every path before it or behind it
PointJobInv ==
  /\ sys.job.st # "off" /\ ~sys.job.failed => sys.job.todo \cup sys.data = Paths
  /\ sys.job.st = "balanced" => sys.job.todo = {}

\* where the run is, it knows whether the point is there
AtPoint == {"copy", "entry", "protect", "enable", "visible"}
PointPlaceInv ==
  /\ run.pc \in {"wait", "point"} => sys.point = "none"
  /\ run.pc \in AtPoint => sys.point # "none"

SaveInv == SaveTypes /\ Point!MarkerIsEarned /\ PointJobInv /\ PointPlaceInv
    /\ Point!EntryNeedsPoint

\* the two halves of the machine the parts of the invariant are about
PointJobSame  == sys'.marker = sys.marker /\ sys'.job = sys.job /\ sys'.data = sys.data
PointMenuSame == sys'.point = sys.point /\ sys'.entry = sys.entry /\ sys'.menu = sys.menu
-----------------------------------------------------------------------------
\* What the operators of the frame make of a run.

PointAt(label) == {r \in PointRuns : r.pc = label}

LEMMA PointAnswers ==
  ASSUME run \in PointRuns, NEW label \in PointPlaces
  PROVE  /\ Point!Goto(run, label) \in PointAt(label)
         /\ Point!Goto(Point!Warned(run), label) \in PointAt(label)
         /\ Point!Goto(Point!Changed(run), label) \in PointAt(label)
<1>1. Point!Warned(run) \in PointRuns /\ Point!Changed(run) \in PointRuns
  BY DEF Point!Warned, Point!Changed, PointRuns
<1>2. \A r \in PointRuns : Point!Goto(r, label) \in PointAt(label)
  BY DEF Point!Goto, PointRuns, PointAt
<1> QED
  BY <1>1, <1>2

LEMMA PointNotedAnswers ==
  ASSUME NEW r \in PointRuns, NEW label \in PointPlaces, NEW isChange \in BOOLEAN
  PROVE  Point!Noted(r, isChange) \in PointRuns
      /\ Point!Goto(Point!Noted(r, isChange), label) \in PointAt(label)
<1>1. Point!Noted(r, isChange) \in PointRuns
  BY DEF Point!Noted, PointRuns
<1> QED
  BY <1>1 DEF Point!Goto, PointRuns, PointAt

LEMMA PointFaultMoves ==
  ASSUME NEW here, NEW label, NEW r \in PointAt(label), Point!Fault(here, r)
  PROVE  run.pc = here /\ sys' = sys /\ run' \in PointAt(label)
  BY DEF Point!Fault, Point!FaultLeaving, PointAt, PointRuns

LEMMA PointNoRunRun ==
  ASSUME NEW mem \in {"recompress", "points"}
  PROVE  Point!NoRun(mem) \in PointRuns /\ Point!NoRun(mem).pc = "idle"
  BY DEF Point!NoRun, PointRuns, PointPlaces, Point!Labels

\* A step that leaves both halves alone keeps the invariant wherever it goes
\* among the places that say nothing of the point.
LEMMA PointSidesKept ==
  ASSUME SaveInv, SaveTypes', PointJobSame, PointMenuSame, PointPlaceInv'
  PROVE  SaveInv'
  BY DEF SaveInv, Point!MarkerIsEarned, PointJobInv, Point!EntryNeedsPoint, PointJobSame,
         PointMenuSame

-----------------------------------------------------------------------------
LEMMA InitSave == Point!Init => SaveInv
<1> SUFFICES ASSUME Point!Init PROVE SaveInv
  OBVIOUS
<1>1. run \in PointRuns /\ run.pc = "idle"
  BY PointNoRunRun DEF Point!Init, PointAt
<1>2. PICK kernel \in Kernels, room \in BOOLEAN, swapInRoot \in BOOLEAN :
        sys = [[room |-> room, swapInRoot |-> swapInRoot, program |-> FALSE, marker |-> FALSE,
              job |-> [st |-> "off", todo |-> {}, failed |-> FALSE], data |-> {},
              session |-> FALSE, point |-> "none", copy |-> FALSE, kernel |-> kernel,
              entry |-> "none", protect |-> FALSE, protects |-> FALSE,
              visible |-> FALSE, ignored |-> FALSE, menu |-> <<>>] EXCEPT
                !.menu = [entry |-> "none", visible |-> FALSE, ignored |-> FALSE]]
  BY ZenonT(60) DEF Point!Init, Point!Files
<1>3. sys = [room |-> room, swapInRoot |-> swapInRoot, program |-> FALSE, marker |-> FALSE,
              job |-> [st |-> "off", todo |-> {}, failed |-> FALSE], data |-> {},
              session |-> FALSE, point |-> "none", copy |-> FALSE, kernel |-> kernel,
              entry |-> "none", protect |-> FALSE, protects |-> FALSE,
              visible |-> FALSE, ignored |-> FALSE,
              menu |-> [entry |-> "none", visible |-> FALSE, ignored |-> FALSE]]
  BY <1>2
<1>4. sys \in PointMachines
  BY <1>3 DEF PointMachines, PointJobs, PointMenuFiles
<1>5. ~sys.marker /\ sys.job.st = "off" /\ sys.point = "none" /\ sys.entry = "none"
        /\ sys.menu.entry = "none"
  BY <1>3
<1> QED
  BY <1>1, <1>4, <1>5
     DEF SaveInv, SaveTypes, Point!MarkerIsEarned, PointJobInv, PointPlaceInv, AtPoint,
         Point!EntryNeedsPoint

-----------------------------------------------------------------------------
\* The recompression section.

LEMMA PointLookAtMarkerKeeps == SaveInv /\ Point!LookAtMarker => SaveInv'
<1> SUFFICES ASSUME SaveInv, Point!LookAtMarker PROVE SaveInv'
  OBVIOUS
<1>1. run \in PointRuns /\ "end" \in PointPlaces /\ "program" \in PointPlaces
  BY DEF SaveInv, SaveTypes, PointPlaces, Point!Labels
<1>2. sys' = sys /\ run' \in PointAt("program") \cup PointAt("end")
  BY <1>1, PointAnswers, PointFaultMoves DEF Point!LookAtMarker, Point!Do
<1> QED
  BY <1>2, PointSidesKept
     DEF SaveInv, SaveTypes, PointJobSame, PointMenuSame, PointPlaceInv, AtPoint, PointAt

LEMMA PointDeployProgramKeeps == SaveInv /\ Point!DeployProgram => SaveInv'
<1> SUFFICES ASSUME SaveInv, Point!DeployProgram PROVE SaveInv'
  OBVIOUS
<1>1. sys \in PointMachines /\ run \in PointRuns /\ "unmark" \in PointPlaces
  BY DEF SaveInv, SaveTypes, PointPlaces, Point!Labels
<1>2. (~sys.program) \in BOOLEAN
  BY <1>1 DEF PointMachines
<1>3. run' \in PointAt("unmark") /\ (sys' = sys \/ sys' = [sys EXCEPT !.program = TRUE])
  BY <1>1, <1>2, PointAnswers, PointNotedAnswers, PointFaultMoves
     DEF Point!DeployProgram, Point!Do
<1>4. sys' \in PointMachines /\ PointJobSame /\ PointMenuSame
  BY <1>1, <1>3 DEF PointMachines, PointJobSame, PointMenuSame
<1> QED
  BY <1>3, <1>4, PointSidesKept DEF SaveTypes, PointPlaceInv, AtPoint, PointAt

LEMMA PointRemoveMarkerKeeps == SaveInv /\ Point!RemoveMarker => SaveInv'
<1> SUFFICES ASSUME SaveInv, Point!RemoveMarker PROVE SaveInv'
  OBVIOUS
<1>1. sys \in PointMachines /\ run \in PointRuns /\ "job" \in PointPlaces
  BY DEF SaveInv, SaveTypes, PointPlaces, Point!Labels
<1>2. (run.force /\ sys.marker) \in BOOLEAN
  BY <1>1 DEF PointMachines, PointRuns
<1>3. run' \in PointAt("job") /\ (sys' = sys \/ sys' = [sys EXCEPT !.marker = FALSE])
  BY <1>1, <1>2, PointAnswers, PointNotedAnswers, PointFaultMoves
     DEF Point!RemoveMarker, Point!Do
<1>4. CASE sys' = sys
  BY <1>1, <1>3, <1>4, PointSidesKept
     DEF SaveTypes, PointJobSame, PointMenuSame, PointPlaceInv, AtPoint, PointAt
<1>5. CASE sys' = [sys EXCEPT !.marker = FALSE]
  <2>1. sys' \in PointMachines /\ ~sys'.marker /\ sys'.job = sys.job
                /\ sys'.data = sys.data /\ PointMenuSame
    BY <1>1, <1>5 DEF PointMachines, PointMenuSame
  <2>2. SaveTypes' /\ Point!MarkerIsEarned' /\ PointJobInv' /\ PointPlaceInv'
    BY <1>3, <2>1
       DEF SaveInv, SaveTypes, Point!MarkerIsEarned, PointJobInv, PointPlaceInv, AtPoint,
           PointAt
  <2> QED
    BY <2>1, <2>2 DEF SaveInv, Point!EntryNeedsPoint, PointMenuSame
<1> QED
  BY <1>3, <1>4, <1>5

\* The unit that begins has every path before it.
LEMMA PointStartJobKeeps == SaveInv /\ Point!StartJob => SaveInv'
<1> SUFFICES ASSUME SaveInv, Point!StartJob PROVE SaveInv'
  OBVIOUS
<1> DEFINE begun == [st |-> "rewrite", todo |-> Paths, failed |-> FALSE]
<1>1. sys \in PointMachines /\ run \in PointRuns /\ "window" \in PointPlaces
              /\ "end" \in PointPlaces
  BY DEF SaveInv, SaveTypes, PointPlaces, Point!Labels
<1>2. /\ run' \in PointAt("window") \cup PointAt("end")
      /\ sys' = sys \/ sys' = [sys EXCEPT !.job = begun]
  BY <1>1, PointAnswers, PointFaultMoves DEF Point!StartJob, Point!Do
<1>3. CASE sys' = sys
  BY <1>1, <1>2, <1>3, PointSidesKept
     DEF SaveTypes, PointJobSame, PointMenuSame, PointPlaceInv, AtPoint, PointAt
<1>4. CASE sys' = [sys EXCEPT !.job = begun]
  <2>1. begun \in PointJobs
    BY DEF PointJobs
  <2>2. sys' \in PointMachines /\ sys'.marker = sys.marker /\ sys'.job = begun
          /\ sys'.data = sys.data /\ sys.data \subseteq Paths /\ PointMenuSame
    BY <1>1, <1>4, <2>1 DEF PointMachines, PointMenuSame
  <2>3. PointJobInv'
    BY <2>2 DEF PointJobInv
  <2>4. SaveTypes' /\ Point!MarkerIsEarned' /\ PointPlaceInv'
    BY <1>2, <2>2
       DEF SaveInv, SaveTypes, Point!MarkerIsEarned, PointPlaceInv, AtPoint, PointAt
  <2> QED
    BY <2>2, <2>3, <2>4 DEF SaveInv, Point!EntryNeedsPoint, PointMenuSame
<1> QED
  BY <1>2, <1>3, <1>4

LEMMA PointOpenWindowKeeps == SaveInv /\ Point!OpenWindow => SaveInv'
<1> SUFFICES ASSUME SaveInv, Point!OpenWindow PROVE SaveInv'
  OBVIOUS
<1>1. sys \in PointMachines /\ run \in PointRuns /\ "end" \in PointPlaces
  BY DEF SaveInv, SaveTypes, PointPlaces, Point!Labels
<1>2. sys' = sys /\ run' \in PointAt("end")
  BY <1>1, PointAnswers, PointFaultMoves DEF Point!OpenWindow, Point!Do
<1> QED
  BY <1>1, <1>2, PointSidesKept
     DEF SaveTypes, PointJobSame, PointMenuSame, PointPlaceInv, AtPoint, PointAt

-----------------------------------------------------------------------------
\* The job.

\* What a step of the job makes of its own record and of the data.
LEMMA PointJobMoves ==
  ASSUME SaveInv, NEW job \in PointJobs, NEW data \in SUBSET Paths, NEW marker \in BOOLEAN,
         run' = run,
         sys' = [[[sys EXCEPT !.job = job] EXCEPT !.data = data] EXCEPT !.marker = marker],
         marker => data = Paths,
         job.st # "off" /\ ~job.failed => job.todo \cup data = Paths,
         job.st = "balanced" => job.todo = {}
  PROVE  SaveInv'
<1>1. sys \in PointMachines
  BY DEF SaveInv, SaveTypes
<1>2. [sys EXCEPT !.job = job] \in PointMachines
  BY <1>1 DEF PointMachines
<1>3. [[sys EXCEPT !.job = job] EXCEPT !.data = data] \in PointMachines
  BY <1>2 DEF PointMachines
<1>4. sys' \in PointMachines /\ sys'.job = job /\ sys'.data = data
              /\ sys'.marker = marker /\ PointMenuSame
  BY <1>1, <1>2, <1>3 DEF PointMachines, PointMenuSame
<1>5. SaveTypes' /\ Point!MarkerIsEarned' /\ PointJobInv' /\ PointPlaceInv'
  BY <1>4
     DEF SaveInv, SaveTypes, Point!MarkerIsEarned, PointJobInv, PointPlaceInv, AtPoint,
         PointMenuSame
<1> QED
  BY <1>4, <1>5 DEF SaveInv, Point!EntryNeedsPoint, PointMenuSame

LEMMA PointRewriteKeeps == SaveInv /\ Point!Rewrite => SaveInv'
<1> SUFFICES ASSUME SaveInv, Point!Rewrite PROVE SaveInv'
  OBVIOUS
<1>1. sys \in PointMachines /\ sys.job \in PointJobs /\ sys.data \in SUBSET Paths
              /\ sys.marker \in BOOLEAN
  BY DEF SaveInv, SaveTypes, PointMachines
<1>2. PICK path \in sys.job.todo :
        /\ sys.job.st = "rewrite"
        /\ run' = run
        /\ \/ sys' = [sys EXCEPT !.job.todo = @ \ {path}, !.data = @ \cup {path}]
           \/ sys' = [sys EXCEPT !.job.todo = @ \ {path}, !.job.failed = TRUE]
  BY DEF Point!Rewrite, Point!JobStep
<1>3. path \in Paths
  BY <1>1 DEF PointJobs
<1>4. CASE sys' = [sys EXCEPT !.job.todo = @ \ {path}, !.data = @ \cup {path}]
  <2> DEFINE job == [sys.job EXCEPT !.todo = @ \ {path}]
             data == sys.data \cup {path}
  <2>1. sys' = [[[sys EXCEPT !.job = job] EXCEPT !.data = data] EXCEPT !.marker = sys.marker]
    BY <1>1, <1>4 DEF PointMachines, PointJobs
  <2>2. job \in PointJobs /\ data \in SUBSET Paths /\ job.st = "rewrite"
          /\ job.todo = sys.job.todo \ {path} /\ job.failed = sys.job.failed
    BY <1>1, <1>2, <1>3 DEF PointJobs
  <2>3. sys.marker => data = Paths
    BY <1>3 DEF SaveInv, Point!MarkerIsEarned
  <2>4. ~job.failed => job.todo \cup data = Paths
    BY <1>2, <2>2 DEF SaveInv, PointJobInv
  <2> HIDE DEF job, data
  <2> QED
    BY <1>1, <1>2, <2>1, <2>2, <2>3, <2>4, PointJobMoves
<1>5. CASE sys' = [sys EXCEPT !.job.todo = @ \ {path}, !.job.failed = TRUE]
  <2> DEFINE job == [[sys.job EXCEPT !.todo = @ \ {path}] EXCEPT !.failed = TRUE]
  <2>1. sys' = [[[sys EXCEPT !.job = job] EXCEPT !.data = sys.data] EXCEPT !.marker =
          sys.marker]
    BY <1>1, <1>5 DEF PointMachines, PointJobs
  <2>2. [sys.job EXCEPT !.todo = @ \ {path}] \in PointJobs
    BY <1>1, <1>3 DEF PointJobs
  <2>3. job \in PointJobs /\ job.failed /\ job.st = "rewrite"
    BY <1>1, <1>2, <2>2 DEF PointJobs
  <2>4. sys.marker => sys.data = Paths
    BY DEF SaveInv, Point!MarkerIsEarned
  <2> HIDE DEF job
  <2> QED
    BY <1>1, <1>2, <2>1, <2>3, <2>4, PointJobMoves
<1> QED
  BY <1>2, <1>4, <1>5

LEMMA PointBalanceKeeps == SaveInv /\ Point!Balance => SaveInv'
<1> SUFFICES ASSUME SaveInv, Point!Balance PROVE SaveInv'
  OBVIOUS
<1>1. sys \in PointMachines /\ sys.job \in PointJobs /\ sys.data \in SUBSET Paths
              /\ sys.marker \in BOOLEAN
  BY DEF SaveInv, SaveTypes, PointMachines
<1>2. /\ sys.job.st = "rewrite" /\ sys.job.todo = {} /\ run' = run
      /\ \/ sys' = [sys EXCEPT !.job.st = "balanced"]
         \/ sys' = [sys EXCEPT !.job.st = "balanced", !.job.failed = TRUE]
  BY DEF Point!Balance, Point!JobStep
<1>3. PICK failed \in {sys.job.failed, TRUE} :
        sys' = [sys EXCEPT !.job = [[sys.job EXCEPT !.st = "balanced"] EXCEPT !.failed =
          failed]]
  <2>1. CASE sys' = [sys EXCEPT !.job.st = "balanced"]
    <3>1. sys' = [sys EXCEPT !.job = [[sys.job EXCEPT !.st = "balanced"]
                                        EXCEPT !.failed = sys.job.failed]]
      BY <1>1, <2>1 DEF PointMachines, PointJobs
    <3> QED
      BY <3>1
  <2>2. CASE sys' = [sys EXCEPT !.job.st = "balanced", !.job.failed = TRUE]
    <3>1. sys' = [sys EXCEPT !.job = [[sys.job EXCEPT !.st = "balanced"] EXCEPT !.failed =
            TRUE]]
      BY <1>1, <2>2 DEF PointMachines, PointJobs
    <3> QED
      BY <3>1
  <2> QED
    BY <1>2, <2>1, <2>2
<1> DEFINE job == [[sys.job EXCEPT !.st = "balanced"] EXCEPT !.failed = failed]
<1>4. sys' = [[[sys EXCEPT !.job = job] EXCEPT !.data = sys.data] EXCEPT !.marker =
        sys.marker]
  BY <1>1, <1>3 DEF PointMachines
<1>5. [sys.job EXCEPT !.st = "balanced"] \in PointJobs
  BY <1>1 DEF PointJobs
<1>6. failed \in BOOLEAN
  BY <1>1, <1>3 DEF PointJobs
<1>7. job \in PointJobs /\ job.st = "balanced" /\ job.todo = {} /\ job.failed = failed
  BY <1>1, <1>2, <1>5, <1>6 DEF PointJobs
<1>8. sys.marker => sys.data = Paths
  BY DEF SaveInv, Point!MarkerIsEarned
<1>9. ~failed => job.todo \cup sys.data = Paths
  BY <1>2, <1>3, <1>7 DEF SaveInv, PointJobInv
<1> HIDE DEF job
<1> QED
  BY <1>1, <1>2, <1>4, <1>7, <1>8, <1>9, PointJobMoves

\* The marker is written after the last step of a job that did not fail, and
\* such a job has nothing before it and every path behind it.
LEMMA PointFinishJobKeeps == SaveInv /\ Point!FinishJob => SaveInv'
<1> SUFFICES ASSUME SaveInv, Point!FinishJob PROVE SaveInv'
  OBVIOUS
<1> DEFINE job == [sys.job EXCEPT !.st = "off"]
           marker == sys.marker \/ ~sys.job.failed
<1>1. sys \in PointMachines /\ sys.job \in PointJobs /\ sys.data \in SUBSET Paths
              /\ sys.marker \in BOOLEAN
  BY DEF SaveInv, SaveTypes, PointMachines
<1>2. sys.job.st = "balanced" /\ run' = run
        /\ sys' = [sys EXCEPT !.job.st = "off", !.marker = @ \/ ~sys.job.failed]
  BY DEF Point!FinishJob, Point!JobStep
<1>3. sys' = [[[sys EXCEPT !.job = job] EXCEPT !.data = sys.data] EXCEPT !.marker = marker]
  BY <1>1, <1>2 DEF PointMachines, PointJobs
<1>4. job \in PointJobs /\ job.st = "off" /\ sys.job.failed \in BOOLEAN
  BY <1>1 DEF PointJobs
<1>5. marker \in BOOLEAN
  BY <1>1, <1>4
<1>6. marker => sys.data = Paths
  BY <1>2 DEF SaveInv, Point!MarkerIsEarned, PointJobInv
<1> HIDE DEF job, marker
<1> QED
  BY <1>1, <1>2, <1>3, <1>4, <1>5, <1>6, PointJobMoves

-----------------------------------------------------------------------------
\* The save point section.

\* A step that leaves both halves alone and knows of the point what its next
\* place asks.
LEMMA PointPlainStep ==
  ASSUME SaveInv, sys' \in PointMachines, PointJobSame, PointMenuSame,
         NEW label \in PointPlaces, run' \in PointAt(label),
         label \in {"wait", "point"} => sys.point = "none",
         label \in AtPoint => sys.point # "none"
  PROVE  SaveInv'
<1>1. SaveTypes' /\ PointPlaceInv'
  BY DEF SaveTypes, PointPlaceInv, PointAt, PointMenuSame
<1> QED
  BY <1>1, PointSidesKept

\* The menu and its files, as the steps change them.
LEMMA PointEntryForm ==
  Point!EntryNeedsPoint <=> (sys.point = "none"
    => sys.entry = "none" /\ sys.menu.entry = "none")
  BY DEF Point!EntryNeedsPoint

LEMMA PointMenuStep ==
  ASSUME SaveInv, sys' \in PointMachines, PointJobSame, NEW label \in PointPlaces,
         run' \in PointAt(label),
         label \in {"wait", "point"} => sys'.point = "none",
         label \in AtPoint => sys'.point # "none",
         sys'.point = "none" => sys'.entry = "none" /\ sys'.menu.entry = "none"
  PROVE  SaveInv'
<1>1. SaveTypes' /\ PointPlaceInv'
  BY DEF SaveTypes, PointPlaceInv, PointAt
<1>2. Point!EntryNeedsPoint'
  BY DEF Point!EntryNeedsPoint
<1> QED
  BY <1>1, <1>2 DEF SaveInv, PointJobSame, Point!MarkerIsEarned, PointJobInv

LEMMA PointLookAtRootKeeps == SaveInv /\ Point!LookAtRoot => SaveInv'
<1> SUFFICES ASSUME SaveInv, Point!LookAtRoot PROVE SaveInv'
  OBVIOUS
<1>1. sys \in PointMachines /\ run \in PointRuns /\ "tools" \in PointPlaces
              /\ "end" \in PointPlaces
  BY DEF SaveInv, SaveTypes, PointPlaces, Point!Labels
<1>2. sys' = sys /\ (run' \in PointAt("tools") \/ run' \in PointAt("end"))
  BY <1>1, PointAnswers, PointFaultMoves DEF Point!LookAtRoot, Point!Do
<1> QED
  BY <1>1, <1>2, PointPlainStep DEF PointJobSame, PointMenuSame, AtPoint

LEMMA PointInstallToolsKeeps == SaveInv /\ Point!InstallTools => SaveInv'
<1> SUFFICES ASSUME SaveInv, Point!InstallTools PROVE SaveInv'
  OBVIOUS
<1> DEFINE next == IF sys.point = "none" THEN "wait" ELSE "copy"
<1>1. sys \in PointMachines /\ run \in PointRuns /\ next \in PointPlaces
  BY DEF SaveInv, SaveTypes, PointPlaces, Point!Labels
<1>2. sys' = sys /\ run' \in PointAt(next)
  BY <1>1, PointAnswers, PointFaultMoves DEF Point!InstallTools, Point!Do
<1>3. PointJobSame /\ PointMenuSame /\ (next \in {"wait", "point"} => sys.point = "none")
        /\ (next \in AtPoint => sys.point # "none")
  BY <1>2 DEF PointJobSame, PointMenuSame, AtPoint
<1> HIDE DEF next
<1> QED
  BY <1>1, <1>2, <1>3, PointPlainStep

LEMMA PointAwaitJobKeeps == SaveInv /\ Point!AwaitJob => SaveInv'
<1> SUFFICES ASSUME SaveInv, Point!AwaitJob PROVE SaveInv'
  OBVIOUS
<1>1. sys \in PointMachines /\ run \in PointRuns /\ "point" \in PointPlaces
  BY DEF SaveInv, SaveTypes, PointPlaces, Point!Labels
<1>2. run.pc = "wait" /\ sys' = sys /\ run' \in PointAt("point")
  BY <1>1, PointAnswers, PointFaultMoves DEF Point!AwaitJob, Point!Do
<1>3. sys.point = "none"
  BY <1>2 DEF SaveInv, PointPlaceInv
<1> QED
  BY <1>1, <1>2, <1>3, PointPlainStep DEF PointJobSame, PointMenuSame, AtPoint

LEMMA StorePointKeeps == SaveInv /\ Point!StorePoint => SaveInv'
<1> SUFFICES ASSUME SaveInv, Point!StorePoint PROVE SaveInv'
  OBVIOUS
<1> DEFINE stored == IF sys.data = Paths THEN "rewritten" ELSE "plain"
<1>1. sys \in PointMachines /\ run \in PointRuns /\ "copy" \in PointPlaces
              /\ "ignore" \in PointPlaces
  BY DEF SaveInv, SaveTypes, PointPlaces, Point!Labels
<1>2. \/ sys' = [sys EXCEPT !.point = stored] /\ run' \in PointAt("copy")
      \/ sys' = sys /\ run' \in PointAt("ignore")
  BY <1>1, PointAnswers, PointFaultMoves DEF Point!StorePoint, Point!Do
<1>3. CASE sys' = [sys EXCEPT !.point = stored] /\ run' \in PointAt("copy")
  <2>1. sys' \in PointMachines /\ PointJobSame /\ sys'.point = stored
    BY <1>1, <1>3 DEF PointMachines, PointJobSame
  <2>2. sys'.point # "none"
    BY <2>1
  <2> QED
    BY <1>1, <1>3, <2>1, <2>2, PointMenuStep
<1>4. CASE sys' = sys /\ run' \in PointAt("ignore")
  BY <1>1, <1>4, PointPlainStep DEF PointJobSame, PointMenuSame, AtPoint
<1> QED
  BY <1>2, <1>3, <1>4

LEMMA PointStoreCopyKeeps == SaveInv /\ Point!StoreCopy => SaveInv'
<1> SUFFICES ASSUME SaveInv, Point!StoreCopy PROVE SaveInv'
  OBVIOUS
<1>1. sys \in PointMachines /\ run \in PointRuns /\ "entry" \in PointPlaces
              /\ (~sys.copy) \in BOOLEAN
  BY DEF SaveInv, SaveTypes, PointPlaces, Point!Labels, PointMachines
<1>2. run.pc = "copy" /\ (sys' = sys \/ sys' = [sys EXCEPT !.copy = TRUE])
        /\ run' \in PointAt("entry")
  BY <1>1, PointAnswers, PointNotedAnswers, PointFaultMoves DEF Point!StoreCopy, Point!Do
<1>3. sys' \in PointMachines /\ PointJobSame /\ PointMenuSame
  BY <1>1, <1>2 DEF PointMachines, PointJobSame, PointMenuSame
<1>4. sys.point # "none"
  BY <1>2 DEF SaveInv, PointPlaceInv, AtPoint
<1> QED
  BY <1>1, <1>2, <1>3, <1>4, PointPlainStep DEF AtPoint

LEMMA PointWriteEntryKeeps == SaveInv /\ Point!WriteEntry => SaveInv'
<1> SUFFICES ASSUME SaveInv, Point!WriteEntry PROVE SaveInv'
  OBVIOUS
<1>1. sys \in PointMachines /\ run \in PointRuns /\ "protect" \in PointPlaces
              /\ sys.kernel \in Kernels
  BY DEF SaveInv, SaveTypes, PointPlaces, Point!Labels, PointMachines
<1>2. (sys.entry # sys.kernel) \in BOOLEAN
  OBVIOUS
<1>3. run.pc = "entry" /\ (sys' = sys \/ sys' = [sys EXCEPT !.entry = sys.kernel])
        /\ run' \in PointAt("protect")
  BY <1>1, <1>2, PointAnswers, PointNotedAnswers, PointFaultMoves
     DEF Point!WriteEntry, Point!Do
<1>4. sys' \in PointMachines /\ PointJobSame /\ sys'.point = sys.point
  BY <1>1, <1>3 DEF PointMachines, PointJobSame
<1>5. sys.point # "none"
  BY <1>3 DEF SaveInv, PointPlaceInv, AtPoint
<1> QED
  BY <1>1, <1>3, <1>4, <1>5, PointMenuStep

LEMMA PointWriteProtectionKeeps == SaveInv /\ Point!WriteProtection => SaveInv'
<1> SUFFICES ASSUME SaveInv, Point!WriteProtection PROVE SaveInv'
  OBVIOUS
<1>1. sys \in PointMachines /\ run \in PointRuns /\ "enable" \in PointPlaces
              /\ "visible" \in PointPlaces
        /\ (~sys.protect) \in BOOLEAN
  BY DEF SaveInv, SaveTypes, PointPlaces, Point!Labels, PointMachines
<1>2. run.pc = "protect" /\ (sys' = sys \/ sys' = [sys EXCEPT !.protect = TRUE])
        /\ (run' \in PointAt("enable") \/ run' \in PointAt("visible"))
  BY <1>1, PointAnswers, PointNotedAnswers, PointFaultMoves
     DEF Point!WriteProtection, Point!Do
<1>3. sys' \in PointMachines /\ PointJobSame /\ PointMenuSame
  BY <1>1, <1>2 DEF PointMachines, PointJobSame, PointMenuSame
<1>4. sys.point # "none"
  BY <1>2 DEF SaveInv, PointPlaceInv, AtPoint
<1> QED
  BY <1>1, <1>2, <1>3, <1>4, PointPlainStep

LEMMA PointEnableProtectionKeeps == SaveInv /\ Point!EnableProtection => SaveInv'
<1> SUFFICES ASSUME SaveInv, Point!EnableProtection PROVE SaveInv'
  OBVIOUS
<1>1. sys \in PointMachines /\ run \in PointRuns /\ "visible" \in PointPlaces
  BY DEF SaveInv, SaveTypes, PointPlaces, Point!Labels
<1>2. run.pc = "enable" /\ (sys' = sys \/ sys' = [sys EXCEPT !.protects = TRUE])
        /\ run' \in PointAt("visible")
  BY <1>1, PointAnswers, PointFaultMoves DEF Point!EnableProtection, Point!Do
<1>3. sys' \in PointMachines /\ PointJobSame /\ PointMenuSame
  BY <1>1, <1>2 DEF PointMachines, PointJobSame, PointMenuSame
<1>4. sys.point # "none"
  BY <1>2 DEF SaveInv, PointPlaceInv, AtPoint
<1> QED
  BY <1>1, <1>2, <1>3, <1>4, PointPlainStep

LEMMA PointShowMenuKeeps == SaveInv /\ Point!ShowMenu => SaveInv'
<1> SUFFICES ASSUME SaveInv, Point!ShowMenu PROVE SaveInv'
  OBVIOUS
<1>1. sys \in PointMachines /\ run \in PointRuns /\ "ignore" \in PointPlaces
              /\ (~sys.visible) \in BOOLEAN
  BY DEF SaveInv, SaveTypes, PointPlaces, Point!Labels, PointMachines
<1>2. (sys' = sys \/ sys' = [sys EXCEPT !.visible = TRUE]) /\ run' \in PointAt("ignore")
  BY <1>1, PointAnswers, PointNotedAnswers, PointFaultMoves DEF Point!ShowMenu, Point!Do
<1>3. sys' \in PointMachines /\ PointJobSame /\ PointMenuSame
  BY <1>1, <1>2 DEF PointMachines, PointJobSame, PointMenuSame
<1> QED
  BY <1>1, <1>2, <1>3, PointPlainStep DEF AtPoint

LEMMA IgnorePointsKeeps == SaveInv /\ Point!IgnorePoints => SaveInv'
<1> SUFFICES ASSUME SaveInv, Point!IgnorePoints PROVE SaveInv'
  OBVIOUS
<1> DEFINE next(r) == IF r.changed \/ r.force THEN "menu" ELSE "end"
           told == IF sys.point = "none" THEN Point!Warned(run) ELSE run
<1>1. sys \in PointMachines /\ run \in PointRuns /\ "menu" \in PointPlaces
              /\ "end" \in PointPlaces
        /\ (~sys.ignored) \in BOOLEAN
  BY DEF SaveInv, SaveTypes, PointPlaces, Point!Labels, PointMachines
<1>2. told \in PointRuns
  BY <1>1 DEF Point!Warned, PointRuns
<1>3. /\ sys' = sys \/ sys' = [sys EXCEPT !.ignored = TRUE]
      /\ run' \in PointAt("menu") \/ run' \in PointAt("end")
  <2>1. CASE Point!Do("ignore", [sys EXCEPT !.ignored = TRUE],
                Point!Goto(Point!Noted(told, ~sys.ignored), next(Point!Noted(told,
                       ~sys.ignored))))
    BY <1>1, <1>2, <2>1, PointNotedAnswers DEF Point!Do
  <2>2. CASE Point!Fault("ignore", Point!Goto(Point!Warned(run), next(Point!Warned(run))))
    BY <1>1, <2>2, PointAnswers, PointFaultMoves
  <2> QED
    BY <2>1, <2>2 DEF Point!IgnorePoints
<1>4. sys' \in PointMachines /\ PointJobSame /\ PointMenuSame
  BY <1>1, <1>3 DEF PointMachines, PointJobSame, PointMenuSame
<1> QED
  BY <1>1, <1>3, <1>4, PointPlainStep DEF AtPoint

\* The menu is built from the files, so it offers what the files offer.
LEMMA PointRebuildMenuKeeps == SaveInv /\ Point!RebuildMenu => SaveInv'
<1> SUFFICES ASSUME SaveInv, Point!RebuildMenu PROVE SaveInv'
  OBVIOUS
<1>1. sys \in PointMachines /\ run \in PointRuns /\ "end" \in PointPlaces
  BY DEF SaveInv, SaveTypes, PointPlaces, Point!Labels
<1>2. (sys' = sys \/ sys' = [sys EXCEPT !.menu = Point!Files(sys)]) /\ run' \in PointAt("end")
  BY <1>1, PointAnswers, PointFaultMoves DEF Point!RebuildMenu, Point!Do
<1>3. Point!Files(sys) \in PointMenuFiles /\ Point!Files(sys).entry = sys.entry
  BY <1>1 DEF Point!Files, PointMenuFiles, PointMachines
<1>4. sys' \in PointMachines /\ PointJobSame /\ sys'.point = sys.point
              /\ sys'.entry = sys.entry
        /\ sys'.menu.entry \in {sys.menu.entry, sys.entry}
  BY <1>1, <1>2, <1>3 DEF PointMachines, PointJobSame
<1>5. sys.point = "none" => sys.entry = "none" /\ sys.menu.entry = "none"
  BY PointEntryForm DEF SaveInv
<1> QED
  BY <1>1, <1>2, <1>4, <1>5, PointMenuStep DEF AtPoint

-----------------------------------------------------------------------------
\* What is no step of a run: its begin and its end, a boot, a new kernel.

LEMMA PointBeginKeeps ==
  ASSUME SaveInv, NEW label \in {"marker", "root"}, NEW force \in BOOLEAN,
         NEW mem \in {"recompress", "points"}, Point!Begin(label, force, mem)
  PROVE  SaveInv'
<1>1. sys \in PointMachines /\ run \in PointRuns /\ label \in PointPlaces
  BY DEF SaveInv, SaveTypes, PointPlaces, Point!Labels
<1>2. (run.pc = "end" /\ ~run.warn /\ ~run.force) \in BOOLEAN
  BY <1>1 DEF PointRuns
<1>3. sys' = sys /\ run' \in PointAt(label)
  BY <1>1, <1>2 DEF Point!Begin, PointAt, PointRuns
<1> QED
  BY <1>1, <1>3, PointPlainStep DEF PointJobSame, PointMenuSame, AtPoint

LEMMA PointIdleRun == run \in PointRuns => Point!NoRun(run.mem) \in PointAt("idle")
    /\ "idle" \in PointPlaces
  BY PointNoRunRun DEF PointRuns, PointAt, PointPlaces

LEMMA PointKillKeeps == SaveInv /\ Point!Kill => SaveInv'
<1> SUFFICES ASSUME SaveInv, Point!Kill PROVE SaveInv'
  OBVIOUS
<1>1. sys \in PointMachines /\ run \in PointRuns
  BY DEF SaveInv, SaveTypes
<1>2. sys' = sys /\ run' \in PointAt("idle") /\ "idle" \in PointPlaces
  BY <1>1, PointIdleRun DEF Point!Kill
<1> QED
  BY <1>1, <1>2, PointPlainStep DEF PointJobSame, PointMenuSame, AtPoint

LEMMA PointRebootKeeps == SaveInv /\ Point!Reboot => SaveInv'
<1> SUFFICES ASSUME SaveInv, Point!Reboot PROVE SaveInv'
  OBVIOUS
<1> DEFINE ended == [st |-> "off", todo |-> {}, failed |-> FALSE]
<1>1. sys \in PointMachines /\ run \in PointRuns
  BY DEF SaveInv, SaveTypes
<1>2. PICK session \in BOOLEAN : sys' = [sys EXCEPT !.session = session, !.job = ended]
        /\ run' = Point!NoRun(run.mem)
  BY DEF Point!Reboot, Point!Event
<1>3. ended \in PointJobs
  BY DEF PointJobs
<1>4. run' \in PointAt("idle")
  BY <1>1, <1>2, PointIdleRun
<1>5. sys' \in PointMachines /\ sys'.marker = sys.marker /\ sys'.data = sys.data
        /\ sys'.job.st = "off" /\ PointMenuSame
  BY <1>1, <1>2, <1>3 DEF PointMachines, PointMenuSame
<1>6. SaveTypes' /\ Point!MarkerIsEarned' /\ PointJobInv' /\ PointPlaceInv'
  BY <1>4, <1>5
     DEF SaveInv, SaveTypes, Point!MarkerIsEarned, PointJobInv, PointPlaceInv, AtPoint,
         PointAt
<1> QED
  BY <1>5, <1>6 DEF SaveInv, Point!EntryNeedsPoint, PointMenuSame

LEMMA PointNewKernelKeeps == SaveInv /\ Point!NewKernel => SaveInv'
<1> SUFFICES ASSUME SaveInv, Point!NewKernel PROVE SaveInv'
  OBVIOUS
<1>1. sys \in PointMachines /\ run \in PointRuns
  BY DEF SaveInv, SaveTypes
<1>2. PICK kernel \in Kernels : sys' = [sys EXCEPT !.kernel = kernel,
             !.menu = Point!Files(sys)]
        /\ run' = Point!NoRun(run.mem)
  BY DEF Point!NewKernel, Point!Event
<1>3. run' \in PointAt("idle") /\ "idle" \in PointPlaces
  BY <1>1, <1>2, PointIdleRun
<1>4. Point!Files(sys) \in PointMenuFiles /\ Point!Files(sys).entry = sys.entry
  BY <1>1 DEF Point!Files, PointMenuFiles, PointMachines
<1>5. sys' \in PointMachines /\ PointJobSame /\ sys'.point = sys.point
              /\ sys'.entry = sys.entry
        /\ sys'.menu.entry = sys.entry
  BY <1>1, <1>2, <1>4 DEF PointMachines, PointJobSame
<1>6. sys.point = "none" => sys.entry = "none"
  BY PointEntryForm DEF SaveInv
<1> QED
  BY <1>3, <1>5, <1>6, PointMenuStep DEF AtPoint

LEMMA PointStutterKeeps == SaveInv /\ UNCHANGED vars => SaveInv'
<1> SUFFICES ASSUME SaveInv, UNCHANGED vars PROVE SaveInv'
  OBVIOUS
<1>1. sys' = sys /\ run' = run
  BY DEF vars
<1> QED
  BY <1>1, PointSidesKept DEF SaveInv, SaveTypes, PointJobSame, PointMenuSame, PointPlaceInv

\* Every step keeps the invariant.
LEMMA NextSave == SaveInv /\ [Point!Next]_vars => SaveInv'
<1> SUFFICES ASSUME SaveInv, [Point!Next]_vars PROVE SaveInv'
  OBVIOUS
<1>1. CASE Point!Step
  BY <1>1, PointLookAtMarkerKeeps, PointDeployProgramKeeps, PointRemoveMarkerKeeps,
     PointStartJobKeeps, PointOpenWindowKeeps, PointLookAtRootKeeps, PointInstallToolsKeeps,
     PointAwaitJobKeeps, StorePointKeeps, PointStoreCopyKeeps, PointWriteEntryKeeps,
     PointWriteProtectionKeeps, PointEnableProtectionKeeps, PointShowMenuKeeps,
     IgnorePointsKeeps, PointRebuildMenuKeeps
     DEF Point!Step
<1>2. CASE Point!Job
  BY <1>2, PointRewriteKeeps, PointBalanceKeeps, PointFinishJobKeeps DEF Point!Job
<1>3. CASE Point!StartRecompress \/ Point!StartPoints
  BY <1>3, PointBeginKeeps DEF Point!StartRecompress, Point!StartPoints
<1>4. CASE UNCHANGED vars
  BY <1>4, PointStutterKeeps
<1> QED
  BY <1>1, <1>2, <1>3, <1>4, PointKillKeeps, PointRebootKeeps, PointNewKernelKeeps
     DEF Point!Next

-----------------------------------------------------------------------------
\* The marker, the places of a run and the files of the menu agree in every
\* state, for any paths, kernels and bounds.
PointHolds == section = "point" => SaveInv

\* A stored point is never replaced: the only step that stores one is reached
\* by a run that found none.
LEMMA PointStays == SaveInv /\ [Point!Next]_vars => Point!SamePoint
<1> SUFFICES ASSUME SaveInv, [Point!Next]_vars,
           sys.point # "none" PROVE sys'.point = sys.point
  BY DEF Point!SamePoint
<1>1. sys \in PointMachines
  BY DEF SaveInv, SaveTypes
<1>2. run.pc # "point"
  BY DEF SaveInv, PointPlaceInv
<1>3. CASE Point!Step
  <2>1. ~Point!StorePoint
    BY <1>2 DEF Point!StorePoint, Point!Do, Point!Fault, Point!FaultLeaving
  <2>2. CASE Point!LookAtMarker \/ Point!DeployProgram \/ Point!RemoveMarker \/
          Point!StartJob \/ Point!OpenWindow
    BY <1>1, <2>2
       DEF Point!LookAtMarker, Point!DeployProgram, Point!RemoveMarker, Point!StartJob,
           Point!OpenWindow, Point!Do, Point!Fault, Point!FaultLeaving, PointMachines
  <2>3. CASE Point!LookAtRoot \/ Point!InstallTools \/ Point!AwaitJob \/ Point!StoreCopy \/
          Point!WriteEntry
    BY <1>1, <2>3
       DEF Point!LookAtRoot, Point!InstallTools, Point!AwaitJob, Point!StoreCopy,
           Point!WriteEntry, Point!Do, Point!Fault, Point!FaultLeaving, PointMachines
  <2>4. CASE Point!WriteProtection \/ Point!EnableProtection \/ Point!ShowMenu \/
          Point!IgnorePoints \/ Point!RebuildMenu
    BY <1>1, <2>4
       DEF Point!WriteProtection, Point!EnableProtection, Point!ShowMenu, Point!IgnorePoints,
           Point!RebuildMenu, Point!Do, Point!Fault, Point!FaultLeaving, PointMachines
  <2> QED
    BY <1>3, <2>1, <2>2, <2>3, <2>4 DEF Point!Step
<1>4. CASE Point!Job
  BY <1>1, <1>4
     DEF Point!Job, Point!Rewrite, Point!Balance, Point!FinishJob, Point!JobStep,
         PointMachines
<1>5. CASE Point!StartRecompress \/ Point!StartPoints \/ Point!Kill
  BY <1>5 DEF Point!StartRecompress, Point!StartPoints, Point!Begin, Point!Kill
<1>6. CASE Point!Reboot \/ Point!NewKernel
  BY <1>1, <1>6 DEF Point!Reboot, Point!NewKernel, Point!Event, PointMachines
<1> QED
  BY <1>3, <1>4, <1>5, <1>6 DEF Point!Next, vars

-----------------------------------------------------------------------------
(*****************************************************************************)
(* /tmp moves to the disk.                                                   *)
(*****************************************************************************)

TmpMachines == [memory : BOOLEAN, held : BOOLEAN, entry : BOOLEAN, masked : BOOLEAN,
             mode : BOOLEAN, at : SUBSET Tmp!Places]

TmpStops == Tmp!Labels \cup {"idle", "end"}

TmpMemories == [inMemory : BOOLEAN, entry : BOOLEAN, masked : BOOLEAN, staging : BOOLEAN,
             released : BOOLEAN]

TmpRuns == [pc : TmpStops, force : BOOLEAN, warn : BOOLEAN, changed : BOOLEAN,
         hurt : BOOLEAN, settled : BOOLEAN, mem : TmpMemories]

TmpTypes == sys \in TmpMachines /\ run \in TmpRuns

(* A run that has no warning yet remembers what is so: what it read of the   *)
(* mount, the fstab and the unit, until the step that changes it.            *)
TmpBeforeTools  == {"decide", "tools", "stage", "copy"}
TmpAfterRelease == {"restore", "discard", "mode"}

TmpMountIsRead ==
  run.pc \in {"entry", "unit", "fstab",
         "mask"} \cup TmpBeforeTools => run.mem.inMemory = sys.memory

TmpEntryIsRead ==
  /\ run.pc \in {"unit", "fstab"} \cup TmpBeforeTools => run.mem.entry = sys.entry
  /\ run.pc \in {"mask", "stop", "look", "detach",
         "confirm"} \cup TmpAfterRelease => ~sys.entry

TmpUnitIsRead ==
  /\ run.pc \in {"fstab", "mask"} \cup TmpBeforeTools => run.mem.masked = sys.masked
  /\ run.pc \in {"stop", "look", "detach", "confirm"} \cup TmpAfterRelease => sys.masked

TmpMountIsGone ==
  /\ run.pc = "detach" => sys.memory
  /\ run.pc = "confirm" => ~sys.memory
  /\ run.pc \in TmpAfterRelease => run.mem.released /\ ~sys.memory

TmpKnows == TmpMountIsRead /\ TmpEntryIsRead /\ TmpUnitIsRead /\ TmpMountIsGone
    /\ (run.pc = "end" => Tmp!OnDisk)

TmpWarnInv  == run.warn => run.hurt
TmpMovedInv == run.pc = "discard" => "disk" \in sys.at

TmpInv == TmpTypes /\ TmpWarnInv /\ TmpMovedInv /\ (~run.warn => TmpKnows)
-----------------------------------------------------------------------------
\* What the operators of the frame make of a run.

LEMMA TmpGotoIs ==
  ASSUME NEW r \in TmpRuns, NEW label \in TmpStops
  PROVE  /\ Tmp!Goto(r, label) \in TmpRuns /\ Tmp!Goto(r, label).pc = label
         /\ Tmp!Goto(r, label).warn = r.warn /\ Tmp!Goto(r, label).hurt = r.hurt
         /\ Tmp!Goto(r, label).mem = r.mem
  BY DEF Tmp!Goto, TmpRuns

LEMMA TmpWarnedIs ==
  ASSUME NEW r \in TmpRuns
  PROVE  /\ Tmp!Warned(r) \in TmpRuns /\ Tmp!Warned(r).warn
         /\ Tmp!Warned(r).hurt = r.hurt /\ Tmp!Warned(r).mem = r.mem
  BY DEF Tmp!Warned, TmpRuns

LEMMA TmpChangedIs ==
  ASSUME NEW r \in TmpRuns
  PROVE  /\ Tmp!Changed(r) \in TmpRuns /\ Tmp!Changed(r).warn = r.warn
         /\ Tmp!Changed(r).hurt = r.hurt /\ Tmp!Changed(r).mem = r.mem
  BY DEF Tmp!Changed, TmpRuns

TmpRemembered == {"inMemory", "entry", "masked", "staging", "released"}

LEMMA TmpMemIs ==
  \A r \in TmpRuns : \A value : \A field \in TmpRemembered :
    value \in BOOLEAN =>
      /\ Tmp!Mem(r, field, value) \in TmpRuns
      /\ Tmp!Mem(r, field, value).warn = r.warn /\ Tmp!Mem(r, field, value).hurt = r.hurt
      /\ Tmp!Mem(r, field, value).mem = [r.mem EXCEPT ![field] = value]
<1> TAKE r \in TmpRuns
<1> TAKE value
<1> TAKE field \in TmpRemembered
<1> HAVE value \in BOOLEAN
<1>1. [r.mem EXCEPT ![field] = value] \in TmpMemories
  BY DEF TmpRuns, TmpMemories, TmpRemembered
<1> QED
  BY <1>1 DEF Tmp!Mem, Tmp!Recall, TmpRuns

LEMMA TmpMemGotoIs ==
  \A r \in TmpRuns : \A value : \A field \in TmpRemembered : \A label \in TmpStops :
    value \in BOOLEAN =>
      /\ Tmp!Goto(Tmp!Mem(r, field, value), label) \in TmpRuns
      /\ Tmp!Goto(Tmp!Mem(r, field, value), label).pc = label
      /\ Tmp!Goto(Tmp!Mem(r, field, value), label).warn = r.warn
      /\ Tmp!Goto(Tmp!Mem(r, field, value), label).hurt = r.hurt
      /\ Tmp!Goto(Tmp!Mem(r, field, value), label).mem = [r.mem EXCEPT ![field] = value]
  BY TmpMemIs, TmpGotoIs

LEMMA TmpFaultIs ==
  ASSUME NEW here, NEW r \in TmpRuns, Tmp!Fault(here, r)
  PROVE  /\ run.pc = here /\ sys' = sys /\ run' \in TmpRuns /\ run'.hurt
         /\ run'.pc = r.pc /\ run'.warn = r.warn /\ run'.mem = r.mem
  BY DEF Tmp!Fault, Tmp!FaultLeaving, TmpRuns

\* A failed call that becomes a warning says nothing any more, wherever the
\* run goes but to the removal of the staging directory.
LEMMA TmpWarnedKeeps ==
  ASSUME TmpInv, sys' \in TmpMachines, run' \in TmpRuns, run'.warn, run'.hurt,
         run'.pc # "discard"
  PROVE  TmpInv'
  BY DEF TmpInv, TmpTypes, TmpWarnInv, TmpMovedInv

LEMMA TmpFaultKeeps ==
  ASSUME TmpInv, NEW here, NEW label \in TmpStops \ {"discard"}, Tmp!Fault(here,
         Tmp!Goto(Tmp!Warned(run), label))
  PROVE  TmpInv'
<1>1. sys \in TmpMachines /\ run \in TmpRuns
  BY DEF TmpInv, TmpTypes
<1>2. Tmp!Goto(Tmp!Warned(run), label) \in TmpRuns /\ Tmp!Goto(Tmp!Warned(run), label).warn
        /\ Tmp!Goto(Tmp!Warned(run), label).pc = label
  BY <1>1, TmpWarnedIs, TmpGotoIs
<1>3. sys' = sys /\ run' \in TmpRuns /\ run'.hurt /\ run'.pc = label /\ run'.warn
  BY <1>2, TmpFaultIs
<1> QED
  BY <1>1, <1>3, TmpWarnedKeeps

-----------------------------------------------------------------------------
LEMMA InitTmp == Tmp!Init => TmpInv
<1> SUFFICES ASSUME Tmp!Init PROVE TmpInv
  OBVIOUS
<1> DEFINE nothing == [inMemory |-> FALSE, entry |-> FALSE, masked |-> FALSE,
                       staging |-> FALSE, released |-> FALSE]
<1>1. nothing \in TmpMemories
  BY DEF TmpMemories
<1>2. run = Tmp!NoRun(nothing)
  BY DEF Tmp!Init
<1> HIDE DEF nothing
<1>3. run \in TmpRuns /\ run.pc = "idle" /\ ~run.warn
  BY <1>1, <1>2 DEF Tmp!NoRun, TmpRuns, TmpStops
<1>4. sys \in TmpMachines
  BY DEF Tmp!Init, TmpMachines, Tmp!Places
<1> QED
  BY <1>3, <1>4
     DEF TmpInv, TmpTypes, TmpWarnInv, TmpMovedInv, TmpKnows, TmpMountIsRead, TmpEntryIsRead,
         TmpUnitIsRead, TmpMountIsGone, TmpBeforeTools, TmpAfterRelease

-----------------------------------------------------------------------------
\* The readings.

LEMMA TmpStopNames == TmpStops = {"mount", "entry", "unit", "decide", "tools", "stage",
       "copy", "fstab",
                            "mask", "stop", "look", "detach", "confirm", "restore", "discard",
                            "mode", "idle", "end"}
  BY DEF TmpStops, Tmp!Labels

LEMMA TmpReadMountKeeps == TmpInv /\ Tmp!ReadMount => TmpInv'
<1> SUFFICES ASSUME TmpInv, Tmp!ReadMount PROVE TmpInv'
  OBVIOUS
<1>1. sys \in TmpMachines /\ run \in TmpRuns /\ sys.memory \in BOOLEAN
  BY DEF TmpInv, TmpTypes, TmpMachines
<1>2. CASE Tmp!Do("mount", sys, Tmp!Goto(Tmp!Mem(run, "inMemory", sys.memory), "entry"))
  <2> DEFINE told == Tmp!Goto(Tmp!Mem(run, "inMemory", sys.memory), "entry")
  <2>1. /\ sys' = sys /\ run' \in TmpRuns /\ run'.pc = "entry"
        /\ run'.warn = run.warn /\ run'.hurt = run.hurt
        /\ run'.mem = [run.mem EXCEPT !.inMemory = sys.memory]
    <3>1. "inMemory" \in TmpRemembered /\ "entry" \in TmpStops
      BY TmpStopNames DEF TmpRemembered
    <3>2. /\ told \in TmpRuns /\ told.pc = "entry"
          /\ told.warn = run.warn /\ told.hurt = run.hurt
          /\ told.mem = [run.mem EXCEPT !.inMemory = sys.memory]
      BY <1>1, <3>1, TmpMemGotoIs
    <3> QED
      BY <1>2, <3>2 DEF Tmp!Do
  <2>2. run'.mem.inMemory = sys'.memory
    BY <1>1, <2>1 DEF TmpRuns, TmpMemories
  <2> QED
    BY <2>1, <2>2
       DEF TmpInv, TmpTypes, TmpWarnInv, TmpMovedInv, TmpKnows, TmpMountIsRead,
           TmpEntryIsRead, TmpUnitIsRead, TmpMountIsGone, TmpBeforeTools, TmpAfterRelease
<1> QED
  BY <1>2, TmpFaultKeeps, TmpStopNames DEF Tmp!ReadMount

LEMMA TmpReadEntryKeeps == TmpInv /\ Tmp!ReadEntry => TmpInv'
<1> SUFFICES ASSUME TmpInv, Tmp!ReadEntry PROVE TmpInv'
  OBVIOUS
<1>1. sys \in TmpMachines /\ run \in TmpRuns /\ sys.entry \in BOOLEAN
  BY DEF TmpInv, TmpTypes, TmpMachines
<1>2. CASE Tmp!Do("entry", sys, Tmp!Goto(Tmp!Mem(run, "entry", sys.entry), "unit"))
  <2> DEFINE told == Tmp!Goto(Tmp!Mem(run, "entry", sys.entry), "unit")
  <2>1. /\ run.pc = "entry" /\ sys' = sys /\ run' \in TmpRuns /\ run'.pc = "unit"
        /\ run'.warn = run.warn /\ run'.hurt = run.hurt
        /\ run'.mem = [run.mem EXCEPT !.entry = sys.entry]
    <3>1. "entry" \in TmpRemembered /\ "unit" \in TmpStops
      BY TmpStopNames DEF TmpRemembered
    <3>2. /\ told \in TmpRuns /\ told.pc = "unit"
          /\ told.warn = run.warn /\ told.hurt = run.hurt
          /\ told.mem = [run.mem EXCEPT !.entry = sys.entry]
      BY <1>1, <3>1, TmpMemGotoIs
    <3> QED
      BY <1>2, <3>2 DEF Tmp!Do
  <2>2. run'.mem.entry = sys'.entry /\ run'.mem.inMemory = run.mem.inMemory
    BY <1>1, <2>1 DEF TmpRuns, TmpMemories
  <2> QED
    BY <2>1, <2>2
       DEF TmpInv, TmpTypes, TmpWarnInv, TmpMovedInv, TmpKnows, TmpMountIsRead,
           TmpEntryIsRead, TmpUnitIsRead, TmpMountIsGone, TmpBeforeTools, TmpAfterRelease
<1> QED
  BY <1>2, TmpFaultKeeps, TmpStopNames DEF Tmp!ReadEntry

LEMMA TmpReadUnitKeeps == TmpInv /\ Tmp!ReadUnit => TmpInv'
<1> SUFFICES ASSUME TmpInv, Tmp!ReadUnit PROVE TmpInv'
  OBVIOUS
<1>1. sys \in TmpMachines /\ run \in TmpRuns /\ sys.masked \in BOOLEAN
  BY DEF TmpInv, TmpTypes, TmpMachines
<1>2. CASE Tmp!Do("unit", sys, Tmp!Goto(Tmp!Mem(run, "masked", sys.masked), "decide"))
  <2> DEFINE told == Tmp!Goto(Tmp!Mem(run, "masked", sys.masked), "decide")
  <2>1. /\ run.pc = "unit" /\ sys' = sys /\ run' \in TmpRuns /\ run'.pc = "decide"
        /\ run'.warn = run.warn /\ run'.hurt = run.hurt
        /\ run'.mem = [run.mem EXCEPT !.masked = sys.masked]
    <3>1. "masked" \in TmpRemembered /\ "decide" \in TmpStops
      BY TmpStopNames DEF TmpRemembered
    <3>2. /\ told \in TmpRuns /\ told.pc = "decide"
          /\ told.warn = run.warn /\ told.hurt = run.hurt
          /\ told.mem = [run.mem EXCEPT !.masked = sys.masked]
      BY <1>1, <3>1, TmpMemGotoIs
    <3> QED
      BY <1>2, <3>2 DEF Tmp!Do
  <2>2. run'.mem.masked = sys'.masked /\ run'.mem.inMemory = run.mem.inMemory
          /\ run'.mem.entry = run.mem.entry
    BY <1>1, <2>1 DEF TmpRuns, TmpMemories
  <2> QED
    BY <2>1, <2>2
       DEF TmpInv, TmpTypes, TmpWarnInv, TmpMovedInv, TmpKnows, TmpMountIsRead,
           TmpEntryIsRead, TmpUnitIsRead, TmpMountIsGone, TmpBeforeTools, TmpAfterRelease
<1> QED
  BY <1>2, TmpFaultKeeps, TmpStopNames DEF Tmp!ReadUnit

\* The run that has nothing to do ends where its target holds already.
LEMMA TmpDecideKeeps == TmpInv /\ Tmp!Decide => TmpInv'
<1> SUFFICES ASSUME TmpInv, Tmp!Decide PROVE TmpInv'
  OBVIOUS
<1>1. sys \in TmpMachines /\ run \in TmpRuns
  BY DEF TmpInv, TmpTypes
<1> DEFINE nothing == ~run.warn /\ ~run.mem.inMemory /\ ~run.mem.entry /\ run.mem.masked
            /\ sys.mode
<1>2. run.pc = "decide" /\ sys' = sys
        /\ run' = IF nothing THEN Tmp!Goto(run, "end") ELSE Tmp!Goto(run, "tools")
  BY DEF Tmp!Decide, Tmp!Do
<1>3. /\ run' \in TmpRuns /\ run'.warn = run.warn /\ run'.hurt = run.hurt
              /\ run'.mem = run.mem
      /\ run'.pc = IF nothing THEN "end" ELSE "tools"
  BY <1>1, <1>2, TmpGotoIs, TmpStopNames
<1>4. CASE nothing
  BY <1>2, <1>3, <1>4
     DEF TmpInv, TmpTypes, TmpWarnInv, TmpMovedInv, TmpKnows, TmpMountIsRead, TmpEntryIsRead,
         TmpUnitIsRead, TmpMountIsGone, TmpBeforeTools, TmpAfterRelease, Tmp!OnDisk
<1>5. CASE ~nothing
  BY <1>2, <1>3, <1>5
     DEF TmpInv, TmpTypes, TmpWarnInv, TmpMovedInv, TmpKnows, TmpMountIsRead, TmpEntryIsRead,
         TmpUnitIsRead, TmpMountIsGone, TmpBeforeTools, TmpAfterRelease
<1> QED
  BY <1>4, <1>5

-----------------------------------------------------------------------------
\* The steps that copy out and change the fstab and the unit.

\* Between the readings and the fstab nothing is changed that was read.
LEMMA TmpStillRead ==
  ASSUME TmpInv, run.pc \in TmpBeforeTools, sys' \in TmpMachines, run' \in TmpRuns,
         run'.pc \in {"tools", "stage", "copy", "fstab"},
         sys'.memory = sys.memory, sys'.entry = sys.entry, sys'.masked = sys.masked,
         run'.warn = run.warn, run'.hurt = run.hurt, run'.mem.inMemory = run.mem.inMemory,
         run'.mem.entry = run.mem.entry, run'.mem.masked = run.mem.masked
  PROVE  TmpInv'
  BY DEF TmpInv, TmpTypes, TmpWarnInv, TmpMovedInv, TmpKnows, TmpMountIsRead, TmpEntryIsRead,
         TmpUnitIsRead, TmpMountIsGone, TmpBeforeTools, TmpAfterRelease

LEMMA TmpInstallToolsKeeps == TmpInv /\ Tmp!InstallTools => TmpInv'
<1> SUFFICES ASSUME TmpInv, Tmp!InstallTools PROVE TmpInv'
  OBVIOUS
<1> DEFINE next == IF run.mem.inMemory THEN "stage" ELSE "fstab"
<1>1. sys \in TmpMachines /\ run \in TmpRuns /\ next \in {"stage", "fstab"}
  BY DEF TmpInv, TmpTypes
<1>2. CASE Tmp!Do("tools", sys, Tmp!Goto(run, next))
  <2>1. /\ run.pc = "tools" /\ sys' = sys /\ run' \in TmpRuns
                /\ run'.pc \in {"stage", "fstab"}
        /\ run'.warn = run.warn /\ run'.hurt = run.hurt /\ run'.mem = run.mem
    BY <1>1, <1>2, TmpGotoIs, TmpStopNames DEF Tmp!Do
  <2> QED
    BY <1>1, <2>1, TmpStillRead DEF TmpBeforeTools
<1>3. CASE Tmp!Fault("tools", Tmp!Goto(Tmp!Warned(run), next))
  BY <1>1, <1>3, TmpFaultKeeps, TmpStopNames
<1> QED
  BY <1>2, <1>3 DEF Tmp!InstallTools

LEMMA TmpMakeStagingKeeps == TmpInv /\ Tmp!MakeStaging => TmpInv'
<1> SUFFICES ASSUME TmpInv, Tmp!MakeStaging PROVE TmpInv'
  OBVIOUS
<1>1. sys \in TmpMachines /\ run \in TmpRuns
  BY DEF TmpInv, TmpTypes
<1>2. CASE Tmp!Do("stage", sys, Tmp!Goto(Tmp!Mem(run, "staging", TRUE), "copy"))
  <2> DEFINE told == Tmp!Goto(Tmp!Mem(run, "staging", TRUE), "copy")
  <2>1. /\ run.pc = "stage" /\ sys' = sys /\ run' \in TmpRuns /\ run'.pc = "copy"
        /\ run'.warn = run.warn /\ run'.hurt = run.hurt
        /\ run'.mem = [run.mem EXCEPT !.staging = TRUE]
    <3>1. "staging" \in TmpRemembered /\ "copy" \in TmpStops
      BY TmpStopNames DEF TmpRemembered
    <3>2. /\ told \in TmpRuns /\ told.pc = "copy"
          /\ told.warn = run.warn /\ told.hurt = run.hurt
          /\ told.mem = [run.mem EXCEPT !.staging = TRUE]
      <4> DEFINE seen == Tmp!Mem(run, "staging", TRUE)
      <4>1. /\ seen \in TmpRuns /\ seen.warn = run.warn /\ seen.hurt = run.hurt
            /\ seen.mem = [run.mem EXCEPT !.staging = TRUE]
        BY <1>1, TmpMemIs DEF TmpRemembered
      <4> HIDE DEF seen
      <4>2. /\ Tmp!Goto(seen, "copy") \in TmpRuns /\ Tmp!Goto(seen, "copy").pc = "copy"
            /\ Tmp!Goto(seen, "copy").warn = seen.warn
                /\ Tmp!Goto(seen, "copy").hurt = seen.hurt
            /\ Tmp!Goto(seen, "copy").mem = seen.mem
        BY <3>1, <4>1, TmpGotoIs
      <4> QED
        BY <4>1, <4>2 DEF seen
    <3> QED
      BY <1>2, <3>2 DEF Tmp!Do
  <2>2. run'.mem.masked = run.mem.masked /\ run'.mem.inMemory = run.mem.inMemory
          /\ run'.mem.entry = run.mem.entry
    BY <1>1, <2>1 DEF TmpRuns, TmpMemories
  <2> QED
    BY <1>1, <2>1, <2>2, TmpStillRead DEF TmpBeforeTools
<1> QED
  BY <1>2, TmpFaultKeeps, TmpStopNames DEF Tmp!MakeStaging

LEMMA TmpCopyOutKeeps == TmpInv /\ Tmp!CopyOut => TmpInv'
<1> SUFFICES ASSUME TmpInv, Tmp!CopyOut PROVE TmpInv'
  OBVIOUS
<1>1. sys \in TmpMachines /\ run \in TmpRuns
  BY DEF TmpInv, TmpTypes
<1>2. CASE Tmp!Do("copy", [sys EXCEPT !.at = @ \cup {"staging"}], Tmp!Goto(Tmp!Changed(run),
             "fstab"))
  <2>1. /\ run.pc = "copy" /\ run' \in TmpRuns /\ run'.pc = "fstab"
        /\ run'.warn = run.warn /\ run'.hurt = run.hurt /\ run'.mem = run.mem
    BY <1>1, <1>2, TmpChangedIs, TmpGotoIs, TmpStopNames DEF Tmp!Do
  <2>2. sys' \in TmpMachines /\ sys'.memory = sys.memory /\ sys'.entry = sys.entry
          /\ sys'.masked = sys.masked
    BY <1>1, <1>2 DEF Tmp!Do, TmpMachines, Tmp!Places
  <2> QED
    BY <2>1, <2>2, TmpStillRead DEF TmpBeforeTools
<1> QED
  BY <1>2, TmpFaultKeeps, TmpStopNames DEF Tmp!CopyOut

LEMMA TmpRemoveEntryKeeps == TmpInv /\ Tmp!RemoveEntry => TmpInv'
<1> SUFFICES ASSUME TmpInv, Tmp!RemoveEntry PROVE TmpInv'
  OBVIOUS
<1>1. sys \in TmpMachines /\ run \in TmpRuns
  BY DEF TmpInv, TmpTypes
<1>2. CASE run.mem.entry
              /\ Tmp!Do("fstab", [sys EXCEPT !.entry = FALSE],
                   Tmp!Goto(Tmp!Changed(run), "mask"))
  <2>1. /\ run.pc = "fstab" /\ run' \in TmpRuns /\ run'.pc = "mask"
        /\ run'.warn = run.warn /\ run'.hurt = run.hurt /\ run'.mem = run.mem
    BY <1>1, <1>2, TmpChangedIs, TmpGotoIs, TmpStopNames DEF Tmp!Do
  <2>2. sys' \in TmpMachines /\ sys'.memory = sys.memory /\ ~sys'.entry
                /\ sys'.masked = sys.masked
    BY <1>1, <1>2 DEF Tmp!Do, TmpMachines
  <2> QED
    BY <2>1, <2>2
       DEF TmpInv, TmpTypes, TmpWarnInv, TmpMovedInv, TmpKnows, TmpMountIsRead,
           TmpEntryIsRead, TmpUnitIsRead, TmpMountIsGone, TmpBeforeTools, TmpAfterRelease
<1>3. CASE ~run.mem.entry /\ Tmp!Do("fstab", sys, Tmp!Goto(run, "mask"))
  <2>1. /\ run.pc = "fstab" /\ sys' = sys /\ run' \in TmpRuns /\ run'.pc = "mask"
        /\ run'.warn = run.warn /\ run'.hurt = run.hurt /\ run'.mem = run.mem
    BY <1>1, <1>3, TmpGotoIs, TmpStopNames DEF Tmp!Do
  <2> QED
    BY <1>3, <2>1
       DEF TmpInv, TmpTypes, TmpWarnInv, TmpMovedInv, TmpKnows, TmpMountIsRead,
           TmpEntryIsRead, TmpUnitIsRead, TmpMountIsGone, TmpBeforeTools, TmpAfterRelease
<1> QED
  BY <1>2, <1>3, TmpFaultKeeps, TmpStopNames DEF Tmp!RemoveEntry

\* A run that read no memory mount has released what there was to release.
LEMMA TmpAfterMaskIs ==
  ASSUME NEW r \in TmpRuns
  PROVE  /\ Tmp!AfterMask(r) \in TmpRuns /\ Tmp!AfterMask(r).warn = r.warn
      /\ Tmp!AfterMask(r).hurt = r.hurt
         /\ Tmp!AfterMask(r).pc = (IF r.mem.inMemory THEN "stop" ELSE "mode")
         /\ Tmp!AfterMask(r).mem.released = ~r.mem.inMemory
<1>1. (~r.mem.inMemory) \in BOOLEAN
              /\ (IF r.mem.inMemory THEN "stop" ELSE "mode") \in TmpStops
  BY TmpStopNames
<1>2. /\ Tmp!Mem(r, "released", ~r.mem.inMemory) \in TmpRuns
      /\ Tmp!Mem(r, "released", ~r.mem.inMemory).warn = r.warn
      /\ Tmp!Mem(r, "released", ~r.mem.inMemory).hurt = r.hurt
      /\ Tmp!Mem(r, "released",
             ~r.mem.inMemory).mem = [r.mem EXCEPT !.released = ~r.mem.inMemory]
  BY <1>1, TmpMemIs, ZenonT(60) DEF TmpRemembered
<1>3. [r.mem EXCEPT !.released = ~r.mem.inMemory].released = ~r.mem.inMemory
  BY DEF TmpRuns, TmpMemories
<1> QED
  BY <1>1, <1>2, <1>3, TmpGotoIs, ZenonT(60) DEF Tmp!AfterMask

LEMMA TmpMaskUnitKeeps == TmpInv /\ Tmp!MaskUnit => TmpInv'
<1> SUFFICES ASSUME TmpInv, Tmp!MaskUnit PROVE TmpInv'
  OBVIOUS
<1>1. sys \in TmpMachines /\ run \in TmpRuns
  BY DEF TmpInv, TmpTypes
<1>2. Tmp!Changed(run) \in TmpRuns /\ Tmp!Changed(run).warn = run.warn
              /\ Tmp!Changed(run).hurt = run.hurt
        /\ Tmp!Changed(run).mem = run.mem
  BY <1>1, TmpChangedIs
<1>3. CASE run.mem.masked /\ Tmp!Do("mask", sys, Tmp!AfterMask(run))
  <2>1. /\ run.pc = "mask" /\ sys' = sys /\ run' \in TmpRuns
        /\ run'.warn = run.warn /\ run'.hurt = run.hurt
        /\ run'.pc = (IF run.mem.inMemory THEN "stop" ELSE "mode")
        /\ run'.mem.released = ~run.mem.inMemory
    BY <1>1, <1>3, TmpAfterMaskIs DEF Tmp!Do
  <2> QED
    BY <1>3, <2>1
       DEF TmpInv, TmpTypes, TmpWarnInv, TmpMovedInv, TmpKnows, TmpMountIsRead,
           TmpEntryIsRead, TmpUnitIsRead, TmpMountIsGone, TmpBeforeTools, TmpAfterRelease
<1>4. CASE Tmp!Do("mask", [sys EXCEPT !.masked = TRUE], Tmp!AfterMask(Tmp!Changed(run)))
  <2>1. /\ run.pc = "mask" /\ run' \in TmpRuns
        /\ run'.warn = run.warn /\ run'.hurt = run.hurt
        /\ run'.pc = (IF run.mem.inMemory THEN "stop" ELSE "mode")
        /\ run'.mem.released = ~run.mem.inMemory
    BY <1>2, <1>4, TmpAfterMaskIs DEF Tmp!Do
  <2>2. sys' \in TmpMachines /\ sys'.memory = sys.memory /\ sys'.entry = sys.entry
                /\ sys'.masked
    BY <1>1, <1>4 DEF Tmp!Do, TmpMachines
  <2> QED
    BY <2>1, <2>2
       DEF TmpInv, TmpTypes, TmpWarnInv, TmpMovedInv, TmpKnows, TmpMountIsRead,
           TmpEntryIsRead, TmpUnitIsRead, TmpMountIsGone, TmpBeforeTools, TmpAfterRelease
<1>5. CASE \E masked \in BOOLEAN :
             Tmp!FaultLeaving("mask", [sys EXCEPT !.masked = masked],
                    Tmp!AfterMask(Tmp!Warned(run)))
  <2>1. PICK masked \in BOOLEAN :
             Tmp!FaultLeaving("mask", [sys EXCEPT !.masked = masked],
                    Tmp!AfterMask(Tmp!Warned(run)))
    BY <1>5
  <2>2. /\ Tmp!AfterMask(Tmp!Warned(run)) \in TmpRuns /\ Tmp!AfterMask(Tmp!Warned(run)).warn
        /\ Tmp!AfterMask(Tmp!Warned(run)).pc # "discard"
    BY <1>1, TmpWarnedIs, TmpAfterMaskIs
  <2>3. /\ run' \in TmpRuns /\ run'.warn /\ run'.hurt /\ run'.pc # "discard"
    BY <2>1, <2>2 DEF Tmp!FaultLeaving, TmpRuns
  <2>4. sys' \in TmpMachines
    BY <1>1, <2>1 DEF Tmp!FaultLeaving, TmpMachines
  <2> QED
    BY <2>3, <2>4, TmpWarnedKeeps
<1> QED
  BY <1>3, <1>4, <1>5 DEF Tmp!MaskUnit

-----------------------------------------------------------------------------
\* The steps that release the mount and move the contents into place.

\* Releasing takes the memory mount away and nothing the run has read.
LEMMA TmpReleasedIs ==
  ASSUME sys \in TmpMachines
  PROVE  /\ Tmp!Released(sys) \in TmpMachines /\ ~Tmp!Released(sys).memory
         /\ Tmp!Released(sys).entry = sys.entry /\ Tmp!Released(sys).masked = sys.masked
  BY DEF Tmp!Released, TmpMachines

LEMMA TmpStopUnitKeeps == TmpInv /\ Tmp!StopUnit => TmpInv'
<1> SUFFICES ASSUME TmpInv, Tmp!StopUnit PROVE TmpInv'
  OBVIOUS
<1>1. sys \in TmpMachines /\ run \in TmpRuns
  BY DEF TmpInv, TmpTypes
<1>2. /\ Tmp!Goto(run, "look") \in TmpRuns /\ Tmp!Goto(run, "look").pc = "look"
      /\ Tmp!Goto(run, "look").warn = run.warn /\ Tmp!Goto(run, "look").hurt = run.hurt
  BY <1>1, TmpGotoIs, TmpStopNames
<1>3. /\ run.pc = "stop" /\ run' \in TmpRuns /\ run'.pc = "look" /\ run'.warn = run.warn
      /\ run.hurt => run'.hurt
      /\ sys' = sys \/ sys' = Tmp!Released(sys)
  <2>1. CASE Tmp!Fault("stop", Tmp!Goto(run, "look"))
    BY <1>2, <2>1, TmpFaultIs
  <2> QED
    BY <1>2, <2>1 DEF Tmp!StopUnit, Tmp!Do
<1>4. sys' \in TmpMachines /\ sys'.entry = sys.entry /\ sys'.masked = sys.masked
  BY <1>1, <1>3, TmpReleasedIs
<1> QED
  BY <1>3, <1>4
     DEF TmpInv, TmpTypes, TmpWarnInv, TmpMovedInv, TmpKnows, TmpMountIsRead, TmpEntryIsRead,
         TmpUnitIsRead, TmpMountIsGone, TmpBeforeTools, TmpAfterRelease

LEMMA TmpReleaseIs ==
  ASSUME run \in TmpRuns
  PROVE  LET told == Tmp!Goto(Tmp!Changed(Tmp!Mem(run, "released", TRUE)), "restore")
         IN  /\ told \in TmpRuns /\ told.pc = "restore" /\ told.warn = run.warn
             /\ told.hurt = run.hurt /\ told.mem.released
<1>1. /\ Tmp!Mem(run, "released", TRUE) \in TmpRuns
      /\ Tmp!Mem(run, "released", TRUE).warn = run.warn
          /\ Tmp!Mem(run, "released", TRUE).hurt = run.hurt
      /\ Tmp!Mem(run, "released", TRUE).mem = [run.mem EXCEPT !.released = TRUE]
  BY TmpMemIs DEF TmpRemembered
<1>2. [run.mem EXCEPT !.released = TRUE].released
  BY DEF TmpRuns, TmpMemories
<1> DEFINE seen == Tmp!Mem(run, "released", TRUE)
           told == Tmp!Changed(seen)
<1>3. told \in TmpRuns /\ told.warn = run.warn /\ told.hurt = run.hurt /\ told.mem.released
  BY <1>1, <1>2, TmpChangedIs
<1> HIDE DEF told
<1>4. /\ Tmp!Goto(told, "restore") \in TmpRuns /\ Tmp!Goto(told, "restore").pc = "restore"
      /\ Tmp!Goto(told, "restore").warn = told.warn
          /\ Tmp!Goto(told, "restore").hurt = told.hurt
      /\ Tmp!Goto(told, "restore").mem = told.mem
  BY <1>3, TmpGotoIs, TmpStopNames
<1> QED
  BY <1>3, <1>4 DEF told

LEMMA TmpLookAgainKeeps == TmpInv /\ Tmp!LookAgain => TmpInv'
<1> SUFFICES ASSUME TmpInv, Tmp!LookAgain PROVE TmpInv'
  OBVIOUS
<1>1. sys \in TmpMachines /\ run \in TmpRuns
  BY DEF TmpInv, TmpTypes
<1>2. CASE Tmp!Fault("look", Tmp!Goto(Tmp!Warned(run), "detach"))
  BY <1>2, TmpFaultKeeps, TmpStopNames
<1>3. CASE sys.memory /\ Tmp!Do("look", sys, Tmp!Goto(run, "detach"))
  <2>1. /\ run.pc = "look" /\ sys' = sys /\ run' \in TmpRuns /\ run'.pc = "detach"
        /\ run'.warn = run.warn /\ run'.hurt = run.hurt
    BY <1>1, <1>3, TmpGotoIs, TmpStopNames DEF Tmp!Do
  <2> QED
    BY <1>3, <2>1
       DEF TmpInv, TmpTypes, TmpWarnInv, TmpMovedInv, TmpKnows, TmpMountIsRead,
           TmpEntryIsRead, TmpUnitIsRead, TmpMountIsGone, TmpBeforeTools, TmpAfterRelease
<1>4. CASE ~sys.memory
              /\ Tmp!Do("look", sys,
                   Tmp!Goto(Tmp!Changed(Tmp!Mem(run, "released", TRUE)), "restore"))
  <2>1. /\ run.pc = "look" /\ sys' = sys /\ run' \in TmpRuns /\ run'.pc = "restore"
        /\ run'.warn = run.warn /\ run'.hurt = run.hurt /\ run'.mem.released
    BY <1>1, <1>4, TmpReleaseIs DEF Tmp!Do
  <2> QED
    BY <1>4, <2>1
       DEF TmpInv, TmpTypes, TmpWarnInv, TmpMovedInv, TmpKnows, TmpMountIsRead,
           TmpEntryIsRead, TmpUnitIsRead, TmpMountIsGone, TmpBeforeTools, TmpAfterRelease
<1> QED
  BY <1>2, <1>3, <1>4 DEF Tmp!LookAgain

LEMMA TmpDetachKeeps == TmpInv /\ Tmp!Detach => TmpInv'
<1> SUFFICES ASSUME TmpInv, Tmp!Detach PROVE TmpInv'
  OBVIOUS
<1>1. sys \in TmpMachines /\ run \in TmpRuns
  BY DEF TmpInv, TmpTypes
<1>2. CASE Tmp!Fault("detach", Tmp!Goto(Tmp!Warned(run), "confirm"))
  BY <1>2, TmpFaultKeeps, TmpStopNames
<1>3. CASE Tmp!Do("detach", Tmp!Released(sys), Tmp!Goto(run, "confirm"))
  <2>1. /\ run.pc = "detach" /\ sys' = Tmp!Released(sys) /\ run' \in TmpRuns
                /\ run'.pc = "confirm"
        /\ run'.warn = run.warn /\ run'.hurt = run.hurt
    BY <1>1, <1>3, TmpGotoIs, TmpStopNames DEF Tmp!Do
  <2> QED
    BY <1>1, <2>1, TmpReleasedIs
       DEF TmpInv, TmpTypes, TmpWarnInv, TmpMovedInv, TmpKnows, TmpMountIsRead,
           TmpEntryIsRead, TmpUnitIsRead, TmpMountIsGone, TmpBeforeTools, TmpAfterRelease
\* a run that reads the mount there and finds nothing to detach was told wrong
<1>4. CASE ~sys.memory /\ Tmp!Do("detach", sys, Tmp!Goto(Tmp!Warned(run), "confirm"))
  <2>1. /\ run.pc = "detach" /\ sys' = sys /\ run' \in TmpRuns /\ run'.pc = "confirm"
        /\ run'.warn /\ run'.hurt = run.hurt
    BY <1>1, <1>4, TmpWarnedIs, TmpGotoIs, TmpStopNames DEF Tmp!Do
  <2>2. run.warn
    BY <1>4, <2>1 DEF TmpInv, TmpKnows, TmpMountIsGone
  <2>3. run'.hurt
    BY <2>1, <2>2 DEF TmpInv, TmpWarnInv
  <2> QED
    BY <1>1, <2>1, <2>3, TmpWarnedKeeps
<1> QED
  BY <1>2, <1>3, <1>4 DEF Tmp!Detach

LEMMA TmpConfirmKeeps == TmpInv /\ Tmp!Confirm => TmpInv'
<1> SUFFICES ASSUME TmpInv, Tmp!Confirm PROVE TmpInv'
  OBVIOUS
<1>1. sys \in TmpMachines /\ run \in TmpRuns
  BY DEF TmpInv, TmpTypes
<1>2. CASE Tmp!Fault("confirm", Tmp!Goto(Tmp!Warned(run), "restore"))
  BY <1>2, TmpFaultKeeps, TmpStopNames
<1>3. CASE sys.memory /\ Tmp!Do("confirm", sys, Tmp!Goto(Tmp!Warned(run), "restore"))
  <2>1. /\ run.pc = "confirm" /\ sys' = sys /\ run' \in TmpRuns /\ run'.pc = "restore"
        /\ run'.warn /\ run'.hurt = run.hurt
    BY <1>1, <1>3, TmpWarnedIs, TmpGotoIs, TmpStopNames DEF Tmp!Do
  <2>2. run.warn
    BY <1>3, <2>1 DEF TmpInv, TmpKnows, TmpMountIsGone
  <2>3. run'.hurt
    BY <2>1, <2>2 DEF TmpInv, TmpWarnInv
  <2> QED
    BY <1>1, <2>1, <2>3, TmpWarnedKeeps
<1>4. CASE ~sys.memory
              /\ Tmp!Do("confirm", sys,
                   Tmp!Goto(Tmp!Changed(Tmp!Mem(run, "released", TRUE)), "restore"))
  <2>1. /\ run.pc = "confirm" /\ sys' = sys /\ run' \in TmpRuns /\ run'.pc = "restore"
        /\ run'.warn = run.warn /\ run'.hurt = run.hurt /\ run'.mem.released
    BY <1>1, <1>4, TmpReleaseIs DEF Tmp!Do
  <2> QED
    BY <1>4, <2>1
       DEF TmpInv, TmpTypes, TmpWarnInv, TmpMovedInv, TmpKnows, TmpMountIsRead,
           TmpEntryIsRead, TmpUnitIsRead, TmpMountIsGone, TmpBeforeTools, TmpAfterRelease
<1> QED
  BY <1>2, <1>3, <1>4 DEF Tmp!Confirm

\* Only here a run comes to the removal, and the contents are in place.
LEMMA TmpCopyBackKeeps == TmpInv /\ Tmp!CopyBack => TmpInv'
<1> SUFFICES ASSUME TmpInv, Tmp!CopyBack PROVE TmpInv'
  OBVIOUS
<1>1. sys \in TmpMachines /\ run \in TmpRuns
  BY DEF TmpInv, TmpTypes
<1>2. CASE Tmp!Fault("restore", Tmp!Goto(Tmp!Warned(run), "mode"))
  BY <1>2, TmpFaultKeeps, TmpStopNames
<1>3. CASE Tmp!Do("restore", [sys EXCEPT !.at = @ \cup {"disk"}], Tmp!Goto(Tmp!Changed(run),
             "discard"))
  <2>1. /\ run.pc = "restore" /\ run' \in TmpRuns /\ run'.pc = "discard"
        /\ run'.warn = run.warn /\ run'.hurt = run.hurt /\ run'.mem = run.mem
    BY <1>1, <1>3, TmpChangedIs, TmpGotoIs, TmpStopNames DEF Tmp!Do
  <2>2. sys' \in TmpMachines /\ "disk" \in sys'.at /\ sys'.memory = sys.memory
          /\ sys'.entry = sys.entry /\ sys'.masked = sys.masked
    BY <1>1, <1>3 DEF Tmp!Do, TmpMachines, Tmp!Places
  <2> QED
    BY <2>1, <2>2
       DEF TmpInv, TmpTypes, TmpWarnInv, TmpMovedInv, TmpKnows, TmpMountIsRead,
           TmpEntryIsRead, TmpUnitIsRead, TmpMountIsGone, TmpBeforeTools, TmpAfterRelease
<1>4. CASE run.mem.staging /\ ~run.mem.released
              /\ Tmp!Do("restore", sys, Tmp!Goto(Tmp!Warned(run), "mode"))
  <2>1. /\ run.pc = "restore" /\ sys' = sys /\ run' \in TmpRuns /\ run'.pc = "mode"
        /\ run'.warn /\ run'.hurt = run.hurt
    BY <1>1, <1>4, TmpWarnedIs, TmpGotoIs, TmpStopNames DEF Tmp!Do
  <2>2. run.warn
    BY <1>4, <2>1 DEF TmpInv, TmpKnows, TmpMountIsGone, TmpAfterRelease
  <2>3. run'.hurt
    BY <2>1, <2>2 DEF TmpInv, TmpWarnInv
  <2> QED
    BY <1>1, <2>1, <2>3, TmpWarnedKeeps
<1>5. CASE ~run.mem.staging /\ Tmp!Do("restore", sys, Tmp!Goto(run, "mode"))
  <2>1. /\ run.pc = "restore" /\ sys' = sys /\ run' \in TmpRuns /\ run'.pc = "mode"
        /\ run'.warn = run.warn /\ run'.hurt = run.hurt /\ run'.mem = run.mem
    BY <1>1, <1>5, TmpGotoIs, TmpStopNames DEF Tmp!Do
  <2> QED
    BY <2>1
       DEF TmpInv, TmpTypes, TmpWarnInv, TmpMovedInv, TmpKnows, TmpMountIsRead,
           TmpEntryIsRead, TmpUnitIsRead, TmpMountIsGone, TmpBeforeTools, TmpAfterRelease
<1> QED
  BY <1>2, <1>3, <1>4, <1>5 DEF Tmp!CopyBack

LEMMA TmpDiscardStagingKeeps == TmpInv /\ Tmp!DiscardStaging => TmpInv'
<1> SUFFICES ASSUME TmpInv, Tmp!DiscardStaging PROVE TmpInv'
  OBVIOUS
<1>1. sys \in TmpMachines /\ run \in TmpRuns
  BY DEF TmpInv, TmpTypes
<1>2. CASE Tmp!Fault("discard", Tmp!Goto(Tmp!Warned(run), "mode"))
  BY <1>2, TmpFaultKeeps, TmpStopNames
<1>3. CASE Tmp!Do("discard", [sys EXCEPT !.at = @ \ {"staging"}], Tmp!Goto(run, "mode"))
  <2>1. /\ run.pc = "discard" /\ run' \in TmpRuns /\ run'.pc = "mode"
        /\ run'.warn = run.warn /\ run'.hurt = run.hurt /\ run'.mem = run.mem
    BY <1>1, <1>3, TmpGotoIs, TmpStopNames DEF Tmp!Do
  <2>2. sys' \in TmpMachines /\ sys'.memory = sys.memory
          /\ sys'.entry = sys.entry /\ sys'.masked = sys.masked
    BY <1>1, <1>3 DEF Tmp!Do, TmpMachines
  <2> QED
    BY <2>1, <2>2
       DEF TmpInv, TmpTypes, TmpWarnInv, TmpMovedInv, TmpKnows, TmpMountIsRead,
           TmpEntryIsRead, TmpUnitIsRead, TmpMountIsGone, TmpBeforeTools, TmpAfterRelease
<1> QED
  BY <1>2, <1>3 DEF Tmp!DiscardStaging

\* The last step: what a run without a warning knows by now is its target.
LEMMA TmpSetModeKeeps == TmpInv /\ Tmp!SetMode => TmpInv'
<1> SUFFICES ASSUME TmpInv, Tmp!SetMode PROVE TmpInv'
  OBVIOUS
<1>1. sys \in TmpMachines /\ run \in TmpRuns
  BY DEF TmpInv, TmpTypes
<1>2. CASE Tmp!Fault("mode", Tmp!Goto(Tmp!Warned(run), "end"))
  BY <1>2, TmpFaultKeeps, TmpStopNames
<1>3. CASE Tmp!Do("mode", [sys EXCEPT !.mode = TRUE], Tmp!Goto(Tmp!Changed(run), "end"))
  <2>1. /\ run.pc = "mode" /\ run' \in TmpRuns /\ run'.pc = "end"
        /\ run'.warn = run.warn /\ run'.hurt = run.hurt /\ run'.mem = run.mem
    BY <1>1, <1>3, TmpChangedIs, TmpGotoIs, TmpStopNames DEF Tmp!Do
  <2>2. sys' \in TmpMachines /\ sys'.mode /\ sys'.memory = sys.memory
          /\ sys'.entry = sys.entry /\ sys'.masked = sys.masked
    BY <1>1, <1>3 DEF Tmp!Do, TmpMachines
  <2> QED
    BY <2>1, <2>2
       DEF TmpInv, TmpTypes, TmpWarnInv, TmpMovedInv, TmpKnows, TmpMountIsRead,
           TmpEntryIsRead, TmpUnitIsRead, TmpMountIsGone, TmpBeforeTools, TmpAfterRelease,
           Tmp!OnDisk
<1>4. CASE (~run.mem.released \/ sys.mode) /\ Tmp!Do("mode", sys, Tmp!Goto(run, "end"))
  <2>1. /\ run.pc = "mode" /\ sys' = sys /\ run' \in TmpRuns /\ run'.pc = "end"
        /\ run'.warn = run.warn /\ run'.hurt = run.hurt /\ run'.mem = run.mem
    BY <1>1, <1>4, TmpGotoIs, TmpStopNames DEF Tmp!Do
  <2> QED
    BY <1>4, <2>1
       DEF TmpInv, TmpTypes, TmpWarnInv, TmpMovedInv, TmpKnows, TmpMountIsRead,
           TmpEntryIsRead, TmpUnitIsRead, TmpMountIsGone, TmpBeforeTools, TmpAfterRelease,
           Tmp!OnDisk
<1> QED
  BY <1>2, <1>3, <1>4 DEF Tmp!SetMode

-----------------------------------------------------------------------------
\* What is no step of a run.

LEMMA TmpStartTaskKeeps == TmpInv /\ Tmp!StartTask => TmpInv'
<1> SUFFICES ASSUME TmpInv, Tmp!StartTask PROVE TmpInv'
  OBVIOUS
<1> DEFINE nothing == [inMemory |-> FALSE, entry |-> FALSE, masked |-> FALSE,
                       staging |-> FALSE, released |-> FALSE]
<1>1. sys \in TmpMachines /\ run \in TmpRuns
  BY DEF TmpInv, TmpTypes
<1>2. PICK force \in BOOLEAN : Tmp!Begin("mount", force, nothing)
  BY DEF Tmp!StartTask
<1>3. nothing \in TmpMemories /\ (run.pc = "end" /\ ~run.warn /\ ~run.force) \in BOOLEAN
        /\ "mount" \in TmpStops
  BY TmpStopNames DEF TmpMemories
<1> HIDE DEF nothing
<1>4. sys' = sys /\ run' \in TmpRuns /\ run'.pc = "mount" /\ ~run'.warn
  BY <1>2, <1>3 DEF Tmp!Begin, TmpRuns
<1> QED
  BY <1>1, <1>4
     DEF TmpInv, TmpTypes, TmpWarnInv, TmpMovedInv, TmpKnows, TmpMountIsRead, TmpEntryIsRead,
         TmpUnitIsRead, TmpMountIsGone, TmpBeforeTools, TmpAfterRelease

LEMMA TmpIdleIs ==
  ASSUME run \in TmpRuns
  PROVE  Tmp!NoRun(run.mem) \in TmpRuns /\ Tmp!NoRun(run.mem).pc = "idle"
      /\ ~Tmp!NoRun(run.mem).warn
  BY TmpStopNames DEF Tmp!NoRun, TmpRuns

LEMMA TmpKillKeeps == TmpInv /\ Tmp!Kill => TmpInv'
<1> SUFFICES ASSUME TmpInv, Tmp!Kill PROVE TmpInv'
  OBVIOUS
<1>1. sys' \in TmpMachines /\ run' \in TmpRuns /\ run'.pc = "idle" /\ ~run'.warn
  BY TmpIdleIs DEF TmpInv, TmpTypes, Tmp!Kill
<1> QED
  BY <1>1
     DEF TmpInv, TmpTypes, TmpWarnInv, TmpMovedInv, TmpKnows, TmpMountIsRead, TmpEntryIsRead,
         TmpUnitIsRead, TmpMountIsGone, TmpBeforeTools, TmpAfterRelease

LEMMA TmpRebootKeeps == TmpInv /\ Tmp!Reboot => TmpInv'
<1> SUFFICES ASSUME TmpInv, Tmp!Reboot PROVE TmpInv'
  OBVIOUS
<1> DEFINE memory == ~sys.masked \/ sys.entry
           at == (sys.at \ {"memory"}) \cup (IF memory THEN {"memory"} ELSE {})
<1>1. sys \in TmpMachines /\ run \in TmpRuns
  BY DEF TmpInv, TmpTypes
<1>2. sys' = [sys EXCEPT !.memory = memory, !.mode = TRUE, !.at = at]
              /\ run' = Tmp!NoRun(run.mem)
  BY DEF Tmp!Reboot, Tmp!Event
<1>3. memory \in BOOLEAN /\ at \in SUBSET Tmp!Places
  BY <1>1 DEF TmpMachines, Tmp!Places
<1> HIDE DEF memory, at
<1>4. sys' \in TmpMachines
  BY <1>1, <1>2, <1>3 DEF TmpMachines
<1>5. run' \in TmpRuns /\ run'.pc = "idle" /\ ~run'.warn
  BY <1>1, <1>2, TmpIdleIs
<1> QED
  BY <1>4, <1>5
     DEF TmpInv, TmpTypes, TmpWarnInv, TmpMovedInv, TmpKnows, TmpMountIsRead, TmpEntryIsRead,
         TmpUnitIsRead, TmpMountIsGone, TmpBeforeTools, TmpAfterRelease

\* Every step keeps the invariant.
LEMMA NextTmp == TmpInv /\ [Tmp!Next]_vars => TmpInv'
<1> SUFFICES ASSUME TmpInv, [Tmp!Next]_vars PROVE TmpInv'
  OBVIOUS
<1>1. CASE UNCHANGED vars
  <2>1. sys' = sys /\ run' = run
    BY <1>1 DEF vars
  <2> QED
    BY <2>1
       DEF TmpInv, TmpTypes, TmpWarnInv, TmpMovedInv, TmpKnows, TmpMountIsRead,
           TmpEntryIsRead, TmpUnitIsRead, TmpMountIsGone, TmpBeforeTools, TmpAfterRelease,
           Tmp!OnDisk
<1>2. CASE Tmp!Step
  BY <1>2, TmpReadMountKeeps, TmpReadEntryKeeps, TmpReadUnitKeeps, TmpDecideKeeps,
     TmpInstallToolsKeeps, TmpMakeStagingKeeps, TmpCopyOutKeeps, TmpRemoveEntryKeeps,
     TmpMaskUnitKeeps, TmpStopUnitKeeps, TmpLookAgainKeeps, TmpDetachKeeps, TmpConfirmKeeps,
     TmpCopyBackKeeps, TmpDiscardStagingKeeps, TmpSetModeKeeps
     DEF Tmp!Step
<1> QED
  BY <1>1, <1>2, TmpStartTaskKeeps, TmpKillKeeps, TmpRebootKeeps DEF Tmp!Next

-----------------------------------------------------------------------------
\* A run without a warning knows the machine, in every state and for any bounds.
TmpHolds == section = "tmp" => TmpInv

\* A plain done result of the section means that /tmp is on the disk for good,
\* and a run none of whose calls failed has no warning, so it ends on the disk
\* from whatever an earlier run left.
LEMMA TmpReaches == TmpInv => Tmp!TmpCleanTask /\ Tmp!TmpFaultFreeTask
  BY DEF TmpInv, TmpWarnInv, TmpKnows, Tmp!TmpCleanTask, Tmp!CleanRunReaches,
         Tmp!TmpFaultFreeTask, Tmp!FaultFreeRunReaches

\* A copy that was staged stays until it is in place: every other step leaves
\* the staging directory alone, and the removal finds the contents moved.
LEMMA TmpStagedStep == TmpInv /\ [Tmp!Next]_vars => Tmp!StagedKept
<1> SUFFICES ASSUME TmpInv, [Tmp!Next]_vars, "staging" \in sys.at
             PROVE  sys'.at \cap {"staging", "disk"} # {}
  BY DEF Tmp!StagedKept
<1>1. sys \in TmpMachines
  BY DEF TmpInv, TmpTypes
<1>2. CASE Tmp!DiscardStaging
  <2>1. "disk" \in sys.at
    BY <1>2 DEF TmpInv, TmpMovedInv, Tmp!DiscardStaging, Tmp!Do, Tmp!Fault, Tmp!FaultLeaving
  <2>2. sys' = sys \/ sys' = [sys EXCEPT !.at = @ \ {"staging"}]
    BY <1>2 DEF Tmp!DiscardStaging, Tmp!Do, Tmp!Fault, Tmp!FaultLeaving
  <2>3. "disk" \in sys'.at
    BY <1>1, <2>1, <2>2 DEF TmpMachines
  <2> QED
    BY <2>3
<1>3. CASE Tmp!ReadMount \/ Tmp!ReadEntry \/ Tmp!ReadUnit \/ Tmp!Decide \/ Tmp!InstallTools
        \/ Tmp!MakeStaging
  <2>1. sys' = sys
    BY <1>3
       DEF Tmp!ReadMount, Tmp!ReadEntry, Tmp!ReadUnit, Tmp!Decide, Tmp!InstallTools,
           Tmp!MakeStaging, Tmp!Do, Tmp!Fault, Tmp!FaultLeaving
  <2> QED
    BY <2>1
<1>4. CASE Tmp!CopyOut \/ Tmp!CopyBack
  <2>1. sys' = sys \/ sys' = [sys EXCEPT !.at = @ \cup {"staging"}]
          \/ sys' = [sys EXCEPT !.at = @ \cup {"disk"}]
    BY <1>4 DEF Tmp!CopyOut, Tmp!CopyBack, Tmp!Do, Tmp!Fault, Tmp!FaultLeaving
  <2>2. "staging" \in sys'.at
    BY <1>1, <2>1 DEF TmpMachines
  <2> QED
    BY <2>2
<1>5. CASE Tmp!RemoveEntry \/ Tmp!MaskUnit \/ Tmp!SetMode
  <2>1. sys'.at = sys.at
    BY <1>1, <1>5
       DEF Tmp!RemoveEntry, Tmp!MaskUnit, Tmp!SetMode, Tmp!Do, Tmp!Fault, Tmp!FaultLeaving,
           TmpMachines
  <2> QED
    BY <2>1
<1>6. CASE Tmp!StopUnit \/ Tmp!LookAgain \/ Tmp!Detach \/ Tmp!Confirm
  <2>1. sys' = sys \/ sys' = Tmp!Released(sys)
    BY <1>6
       DEF Tmp!StopUnit, Tmp!LookAgain, Tmp!Detach, Tmp!Confirm, Tmp!Do, Tmp!Fault,
           Tmp!FaultLeaving
  <2>2. "staging" \in sys'.at
    BY <1>1, <2>1 DEF Tmp!Released, TmpMachines
  <2> QED
    BY <2>2
<1>7. CASE Tmp!Reboot
  <2> DEFINE memory == ~sys.masked \/ sys.entry
             at == (sys.at \ {"memory"}) \cup (IF memory THEN {"memory"} ELSE {})
  <2>1. sys' = [sys EXCEPT !.memory = memory, !.mode = TRUE, !.at = at]
    BY <1>7 DEF Tmp!Reboot, Tmp!Event
  <2>2. "staging" \in at
    OBVIOUS
  <2> HIDE DEF memory, at
  <2>3. "staging" \in sys'.at
    BY <1>1, <2>1, <2>2 DEF TmpMachines
  <2> QED
    BY <2>3
<1>8. CASE Tmp!StartTask \/ Tmp!Kill \/ UNCHANGED vars
  <2>1. sys' = sys
    BY <1>8 DEF Tmp!StartTask, Tmp!Begin, Tmp!Kill, vars
  <2> QED
    BY <2>1
<1> QED
  BY <1>2, <1>3, <1>4, <1>5, <1>6, <1>7, <1>8 DEF Tmp!Next, Tmp!Step
-----------------------------------------------------------------------------
(*****************************************************************************)
(* The filesystem section: subvolumes, the move of the swap area and the     *)
(* temporary mount of the top level.                                         *)
(*****************************************************************************)

\* what the bounds still allow
Lefts == [runs : 0..MaxRuns, faults : 0..MaxFaults, kills : 0..MaxKills,
  events : 0..MaxEvents]

BtrfsPlaces == Btrfs!Labels \cup {"idle", "end"}
BtrfsFstabs == [whole : BOOLEAN, has : SUBSET Btrfs!Mounts, compressed : SUBSET Btrfs!Mounts,
                lines : SUBSET Btrfs!Subs]
BtrfsMachines ==
  [fstab : BtrfsFstabs, live : SUBSET Btrfs!Mounts, subs : SUBSET Btrfs!Subs,
   mounted : SUBSET Btrfs!Subs, top : BOOLEAN, swapUnit : BOOLEAN,
   swapOn : {"off", "root", "swap"}, schedule : BOOLEAN, timers : BOOLEAN,
   generator : BOOLEAN, dropin : BOOLEAN, daemon : BOOLEAN]
BtrfsMems == [todo : SUBSET Btrfs!Mounts, sub : Btrfs!Subs, swapWasOn : BOOLEAN]
BtrfsRuns == [pc : BtrfsPlaces, force : BOOLEAN, warn : BOOLEAN, changed : BOOLEAN,
              hurt : BOOLEAN, settled : BOOLEAN, mem : BtrfsMems]
BtrfsTypes == sys \in BtrfsMachines /\ run \in BtrfsRuns /\ left \in Lefts

BtrfsWorks == {"line", "write_line", "list", "top", "create", "release", "mount"}
BtrfsEnds  == {"schedule", "timers", "build", "dropin", "daemon", "end"}

\* the top level stays mounted only where a call failed or a run was cut off
BtrfsTopInv == sys.top /\ run.pc \notin {"create", "release"} =>
            left.kills < MaxKills \/ left.faults < MaxFaults
\* the subvolume of the points comes first, and nothing is known of the swap then
BtrfsFirstInv ==
  /\ run.pc \in {"root", "tools", "options", "write_options", "remount", "swap"}
       => run.mem.sub = "points"
  /\ run.mem.sub = "points" => ~run.mem.swapWasOn
\* the move of the swap area: the swap is off while the steps for its subvolume
\* are taken, and no swap file of the root is used once that is mounted
BtrfsMoveInv ==
  /\ run.pc \in BtrfsWorks /\ run.mem.sub = "swap" => sys.swapOn = "off"
  /\ "swap" \in sys.mounted => sys.swapOn # "root"
  /\ run.pc \in BtrfsEnds \cup {"restart"} /\ ~run.warn => "swap" \in sys.mounted
\* what was on is on again, or its start was the call that failed
BtrfsOnAgainInv == run.pc \in BtrfsEnds /\ run.mem.swapWasOn =>
                sys.swapOn # "off" \/ (run.warn /\ run.hurt)
BtrfsInv == BtrfsTypes /\ BtrfsTopInv /\ BtrfsFirstInv /\ BtrfsMoveInv /\ BtrfsOnAgainInv

\* What a step makes of the run: it goes on, or goes on with a warning of its
\* own, of a call that failed, or with the failed call alone.
Goes(from, to) ==
  /\ run.pc = from /\ run'.pc = to /\ run'.warn = run.warn /\ run'.hurt = run.hurt
  /\ run'.force = run.force /\ left' = left
Warns(from, to) ==
  /\ run.pc = from /\ run'.pc = to /\ run'.warn /\ run'.hurt = run.hurt
  /\ run'.force = run.force /\ left' = left
Fails(from, to) ==
  /\ run.pc = from /\ run'.pc = to /\ run'.warn /\ run'.hurt
  /\ run'.force = run.force /\ left'.kills = left.kills /\ left'.faults < MaxFaults
Breaks(from, to) ==
  /\ run.pc = from /\ run'.pc = to /\ run'.warn = run.warn /\ run'.hurt
  /\ run'.force = run.force /\ left'.kills = left.kills /\ left'.faults < MaxFaults

\* what the run of the section remembers apart from the mounts before it
BtrfsMemo == run'.mem.sub = run.mem.sub /\ run'.mem.swapWasOn = run.mem.swapWasOn

LEMMA FaultSpends ==
  ASSUME left \in Lefts, left.faults > 0, left' = [left EXCEPT !.faults = @ - 1]
  PROVE  left' \in Lefts /\ left'.kills = left.kills /\ left'.faults < MaxFaults
<1>1. left.faults \in 0..MaxFaults /\ MaxFaults \in Nat
  BY BoundsAreNumbers DEF Lefts
<1>2. left.faults - 1 \in 0..MaxFaults /\ left.faults - 1 < MaxFaults
  BY <1>1
<1>3. left' \in Lefts /\ left'.kills = left.kills /\ left'.faults = left.faults - 1
  BY <1>2 DEF Lefts
<1> QED
  BY <1>2, <1>3

LEMMA BudgetIsLeft ==
  [runs |-> MaxRuns, faults |-> MaxFaults, kills |-> MaxKills, events |-> MaxEvents] \in Lefts
  BY BoundsAreNumbers DEF Lefts

LEMMA BeginSpends ==
  ASSUME left \in Lefts, left.runs > 0, left' = [left EXCEPT !.runs = @ - 1]
  PROVE  left' \in Lefts /\ left'.kills = left.kills /\ left'.faults = left.faults
<1>1. left.runs - 1 \in 0..MaxRuns
  BY BoundsAreNumbers DEF Lefts
<1> QED
  BY <1>1 DEF Lefts

LEMMA KillSpends ==
  ASSUME left \in Lefts, left.kills > 0, left' = [left EXCEPT !.kills = @ - 1]
  PROVE  left' \in Lefts /\ left'.kills < MaxKills
<1>1. left.kills \in 0..MaxKills /\ MaxKills \in Nat
  BY BoundsAreNumbers DEF Lefts
<1>2. left.kills - 1 \in 0..MaxKills /\ left.kills - 1 < MaxKills
  BY <1>1
<1>3. left' \in Lefts /\ left'.kills = left.kills - 1
  BY <1>2 DEF Lefts
<1> QED
  BY <1>2, <1>3

LEMMA EventSpends ==
  ASSUME left \in Lefts, left.events > 0, left' = [left EXCEPT !.events = @ - 1]
  PROVE  left' \in Lefts
<1>1. left.events - 1 \in 0..MaxEvents
  BY BoundsAreNumbers DEF Lefts
<1> QED
  BY <1>1 DEF Lefts

LEMMA BtrfsGoes ==
  ASSUME run \in BtrfsRuns, NEW from, NEW to \in BtrfsPlaces, NEW m
  PROVE  /\ Btrfs!Do(from, m, Btrfs!Goto(run, to)) =>
              sys' = m /\ run' \in BtrfsRuns /\ BtrfsMemo /\ Goes(from, to)
         /\ Btrfs!Do(from, m, Btrfs!Goto(Btrfs!Changed(run), to)) =>
              sys' = m /\ run' \in BtrfsRuns /\ BtrfsMemo /\ Goes(from, to)
         /\ Btrfs!Do(from, m, Btrfs!Goto(Btrfs!Warned(run), to)) =>
              sys' = m /\ run' \in BtrfsRuns /\ BtrfsMemo /\ Warns(from, to)
  BY DEF Btrfs!Do, Btrfs!Goto, Btrfs!Changed, Btrfs!Warned, Goes, Warns, BtrfsRuns,
         BtrfsMemo

LEMMA BtrfsNotes ==
  ASSUME run \in BtrfsRuns, NEW from, NEW to \in BtrfsPlaces, NEW m, NEW note \in BOOLEAN,
         Btrfs!Do(from, m, Btrfs!Goto(Btrfs!Noted(run, note), to))
  PROVE  sys' = m /\ run' \in BtrfsRuns /\ BtrfsMemo /\ Goes(from, to)
  BY DEF Btrfs!Do, Btrfs!Goto, Btrfs!Noted, Goes, BtrfsRuns, BtrfsMemo

LEMMA BtrfsFault ==
  ASSUME left \in Lefts, NEW from, NEW r, Btrfs!Fault(from, r)
  PROVE  /\ run.pc = from /\ sys' = sys /\ run' = [r EXCEPT !.hurt = TRUE]
         /\ left' \in Lefts /\ left'.kills = left.kills /\ left'.faults < MaxFaults
  BY FaultSpends DEF Btrfs!Fault, Btrfs!FaultLeaving

LEMMA BtrfsFails ==
  ASSUME run \in BtrfsRuns, left \in Lefts, NEW from, NEW to \in BtrfsPlaces
  PROVE  /\ Btrfs!Fault(from, Btrfs!Goto(Btrfs!Warned(run), to)) =>
              /\ sys' = sys /\ run' \in BtrfsRuns /\ left' \in Lefts
              /\ BtrfsMemo /\ Fails(from, to)
         /\ Btrfs!Fault(from, Btrfs!Goto(run, to)) =>
              /\ sys' = sys /\ run' \in BtrfsRuns /\ left' \in Lefts
              /\ BtrfsMemo /\ Breaks(from, to)
<1>1. ASSUME Btrfs!Fault(from, Btrfs!Goto(Btrfs!Warned(run), to))
      PROVE  /\ sys' = sys /\ run' \in BtrfsRuns /\ left' \in Lefts
             /\ BtrfsMemo /\ Fails(from, to)
  <2>1. /\ run.pc = from /\ run' = [Btrfs!Goto(Btrfs!Warned(run), to) EXCEPT !.hurt = TRUE]
        /\ sys' = sys /\ left' \in Lefts
        /\ left'.kills = left.kills /\ left'.faults < MaxFaults
    BY <1>1, BtrfsFault
  <2>2. /\ run' \in BtrfsRuns /\ run'.pc = to /\ run'.warn /\ run'.hurt
        /\ run'.force = run.force /\ run'.mem = run.mem
    BY <2>1 DEF Btrfs!Goto, Btrfs!Warned, BtrfsRuns
  <2> QED
    BY <2>1, <2>2 DEF Fails, BtrfsMemo
<1>2. ASSUME Btrfs!Fault(from, Btrfs!Goto(run, to))
      PROVE  /\ sys' = sys /\ run' \in BtrfsRuns /\ left' \in Lefts
             /\ BtrfsMemo /\ Breaks(from, to)
  <2>1. /\ run.pc = from /\ run' = [Btrfs!Goto(run, to) EXCEPT !.hurt = TRUE]
        /\ sys' = sys /\ left' \in Lefts
        /\ left'.kills = left.kills /\ left'.faults < MaxFaults
    BY <1>2, BtrfsFault
  <2>2. /\ run' \in BtrfsRuns /\ run'.pc = to /\ run'.warn = run.warn /\ run'.hurt
        /\ run'.force = run.force /\ run'.mem = run.mem
    BY <2>1 DEF Btrfs!Goto, BtrfsRuns
  <2> QED
    BY <2>1, <2>2 DEF Breaks, BtrfsMemo
<1> QED
  BY <1>1, <1>2

\* the mounts a run has still to do, which the invariant does not look at
LEMMA BtrfsTodoRun ==
  ASSUME run \in BtrfsRuns, NEW todo \in SUBSET Btrfs!Mounts
  PROVE  /\ Btrfs!Mem(run, "todo", todo) \in BtrfsRuns
         /\ Btrfs!Mem(run, "todo", todo) =
              [run EXCEPT !.mem = Btrfs!Mem(run, "todo", todo).mem]
         /\ Btrfs!Mem(run, "todo", todo).mem.sub = run.mem.sub
         /\ Btrfs!Mem(run, "todo", todo).mem.swapWasOn = run.mem.swapWasOn
<1>1. [run.mem EXCEPT !["todo"] = todo] \in BtrfsMems
  BY DEF BtrfsRuns, BtrfsMems
<1> QED
  BY <1>1 DEF Btrfs!Mem, Btrfs!Recall, BtrfsRuns, BtrfsMems

LEMMA BtrfsTodo ==
  ASSUME run \in BtrfsRuns, left \in Lefts, NEW todo \in SUBSET Btrfs!Mounts,
         NEW from, NEW to \in BtrfsPlaces, NEW m
  PROVE  /\ Btrfs!Do(from, m, Btrfs!Goto(Btrfs!Mem(run, "todo", todo), to)) =>
              sys' = m /\ run' \in BtrfsRuns /\ BtrfsMemo /\ Goes(from, to)
         /\ Btrfs!Do(from, m, Btrfs!Mem(run, "todo", todo)) =>
              sys' = m /\ run' \in BtrfsRuns /\ BtrfsMemo /\ Goes(from, from)
         /\ Btrfs!Fault(from, Btrfs!Goto(Btrfs!Warned(Btrfs!Mem(run, "todo", todo)), to)) =>
              /\ sys' = sys /\ run' \in BtrfsRuns /\ left' \in Lefts
              /\ BtrfsMemo /\ Fails(from, to)
         /\ Btrfs!Fault(from, Btrfs!Warned(Btrfs!Mem(run, "todo", todo))) =>
              /\ sys' = sys /\ run' \in BtrfsRuns /\ left' \in Lefts
              /\ BtrfsMemo /\ Fails(from, from)
<1> DEFINE r == Btrfs!Mem(run, "todo", todo)
<1>1. /\ r \in BtrfsRuns /\ r.pc = run.pc /\ r.warn = run.warn /\ r.hurt = run.hurt
      /\ r.force = run.force /\ r.mem.sub = run.mem.sub
      /\ r.mem.swapWasOn = run.mem.swapWasOn
  BY BtrfsTodoRun DEF BtrfsRuns
<1> HIDE DEF r
<1>2. ASSUME Btrfs!Do(from, m, Btrfs!Goto(r, to))
      PROVE  sys' = m /\ run' \in BtrfsRuns /\ BtrfsMemo /\ Goes(from, to)
  BY <1>1, <1>2 DEF Btrfs!Do, Btrfs!Goto, BtrfsRuns, BtrfsMemo, Goes
<1>3. ASSUME Btrfs!Do(from, m, r)
      PROVE  sys' = m /\ run' \in BtrfsRuns /\ BtrfsMemo /\ Goes(from, from)
  BY <1>1, <1>3 DEF Btrfs!Do, BtrfsMemo, Goes
<1>4. ASSUME Btrfs!Fault(from, Btrfs!Goto(Btrfs!Warned(r), to))
      PROVE  /\ sys' = sys /\ run' \in BtrfsRuns /\ left' \in Lefts
             /\ BtrfsMemo /\ Fails(from, to)
  <2>1. /\ run.pc = from /\ run' = [Btrfs!Goto(Btrfs!Warned(r), to) EXCEPT !.hurt = TRUE]
        /\ sys' = sys /\ left' \in Lefts
        /\ left'.kills = left.kills /\ left'.faults < MaxFaults
    BY <1>4, BtrfsFault
  <2>2. /\ run' \in BtrfsRuns /\ run'.pc = to /\ run'.warn /\ run'.hurt
        /\ run'.force = r.force /\ run'.mem = r.mem
    BY <1>1, <2>1 DEF Btrfs!Goto, Btrfs!Warned, BtrfsRuns
  <2> QED
    BY <1>1, <2>1, <2>2 DEF Fails, BtrfsMemo
<1>5. ASSUME Btrfs!Fault(from, Btrfs!Warned(r))
      PROVE  /\ sys' = sys /\ run' \in BtrfsRuns /\ left' \in Lefts
             /\ BtrfsMemo /\ Fails(from, from)
  <2>1. /\ run.pc = from /\ run' = [Btrfs!Warned(r) EXCEPT !.hurt = TRUE]
        /\ sys' = sys /\ left' \in Lefts
        /\ left'.kills = left.kills /\ left'.faults < MaxFaults
    BY <1>5, BtrfsFault
  <2>2. /\ run' \in BtrfsRuns /\ run'.pc = r.pc /\ run'.warn /\ run'.hurt
        /\ run'.force = r.force /\ run'.mem = r.mem
    BY <1>1, <2>1 DEF Btrfs!Warned, BtrfsRuns
  <2> QED
    BY <1>1, <2>1, <2>2 DEF Fails, BtrfsMemo
<1> QED
  BY <1>2, <1>3, <1>4, <1>5 DEF r

LEMMA BtrfsRemembers ==
  ASSUME run \in BtrfsRuns, NEW mem \in BtrfsMems, NEW from, NEW to \in BtrfsPlaces, NEW m,
         Btrfs!Do(from, m, Btrfs!Goto(Btrfs!Recall(run, mem), to))
  PROVE  sys' = m /\ run' \in BtrfsRuns /\ run'.mem = mem /\ Goes(from, to)
  BY DEF Btrfs!Do, Btrfs!Goto, Btrfs!Recall, Goes, BtrfsRuns

LEMMA BtrfsPlaceNames ==
  BtrfsPlaces =
    {"root", "tools", "options", "write_options", "remount", "line", "write_line", "list",
     "top", "create", "release", "mount", "swap", "stop", "unlink", "restart", "schedule",
     "timers", "build", "dropin", "daemon", "idle", "end"}
  BY DEF BtrfsPlaces, Btrfs!Labels

LEMMA BtrfsReadRootKeeps == BtrfsInv /\ Btrfs!ReadRoot => BtrfsInv'
<1> SUFFICES ASSUME BtrfsInv, Btrfs!ReadRoot PROVE BtrfsInv'
  OBVIOUS
<1>1. BtrfsTypes
  BY DEF BtrfsInv
<1>2. /\ run' \in BtrfsRuns /\ left' \in Lefts /\ BtrfsMemo
      /\ \/ Goes("root", "tools")
         \/ Fails("root", "end")
  BY <1>1, BtrfsGoes, BtrfsFails, BtrfsPlaceNames
     DEF Btrfs!ReadRoot, BtrfsTypes, Goes, Warns
<1>3. sys' = sys
  BY <1>1 DEF Btrfs!ReadRoot, BtrfsTypes, Btrfs!Do, Btrfs!Fault, Btrfs!FaultLeaving
<1>4. BtrfsTypes'
  BY <1>1, <1>2, <1>3 DEF BtrfsTypes
<1>5. BtrfsTopInv'
  BY <1>2, <1>3 DEF BtrfsInv, BtrfsTopInv, Goes, Fails
<1>6. BtrfsFirstInv'
  BY <1>2, <1>3 DEF BtrfsInv, BtrfsFirstInv, BtrfsMemo, Goes, Fails
<1>7. BtrfsMoveInv'
  BY <1>2, <1>3
     DEF BtrfsInv, BtrfsMoveInv, BtrfsFirstInv, BtrfsWorks, BtrfsEnds, BtrfsMemo, Goes,
         Fails
<1>8. BtrfsOnAgainInv'
  BY <1>2, <1>3
     DEF BtrfsInv, BtrfsOnAgainInv, BtrfsFirstInv, BtrfsMoveInv, BtrfsEnds, BtrfsMemo, Goes,
         Fails
<1> QED
  BY <1>4, <1>5, <1>6, <1>7, <1>8 DEF BtrfsInv

LEMMA BtrfsInstallToolsKeeps == BtrfsInv /\ Btrfs!InstallTools => BtrfsInv'
<1> SUFFICES ASSUME BtrfsInv, Btrfs!InstallTools PROVE BtrfsInv'
  OBVIOUS
<1>1. BtrfsTypes
  BY DEF BtrfsInv
<1>2. /\ run' \in BtrfsRuns /\ left' \in Lefts /\ BtrfsMemo
      /\ \/ Goes("tools", "options")
         \/ Fails("tools", "options")
  BY <1>1, BtrfsGoes, BtrfsFails, BtrfsPlaceNames
     DEF Btrfs!InstallTools, BtrfsTypes, Goes, Warns
<1>3. sys' = sys
  BY <1>1 DEF Btrfs!InstallTools, BtrfsTypes, Btrfs!Do, Btrfs!Fault, Btrfs!FaultLeaving
<1>4. BtrfsTypes'
  BY <1>1, <1>2, <1>3 DEF BtrfsTypes
<1>5. BtrfsTopInv'
  BY <1>2, <1>3 DEF BtrfsInv, BtrfsTopInv, Goes, Fails
<1>6. BtrfsFirstInv'
  BY <1>2, <1>3 DEF BtrfsInv, BtrfsFirstInv, BtrfsMemo, Goes, Fails
<1>7. BtrfsMoveInv'
  BY <1>2, <1>3
     DEF BtrfsInv, BtrfsMoveInv, BtrfsFirstInv, BtrfsWorks, BtrfsEnds, BtrfsMemo, Goes,
         Fails
<1>8. BtrfsOnAgainInv'
  BY <1>2, <1>3
     DEF BtrfsInv, BtrfsOnAgainInv, BtrfsFirstInv, BtrfsMoveInv, BtrfsEnds, BtrfsMemo, Goes,
         Fails
<1> QED
  BY <1>4, <1>5, <1>6, <1>7, <1>8 DEF BtrfsInv

LEMMA BtrfsLookAtOptionsKeeps == BtrfsInv /\ Btrfs!LookAtOptions => BtrfsInv'
<1> SUFFICES ASSUME BtrfsInv, Btrfs!LookAtOptions PROVE BtrfsInv'
  OBVIOUS
<1>1. BtrfsTypes
  BY DEF BtrfsInv
<1>2. [sys.fstab EXCEPT !.whole = FALSE] \in BtrfsFstabs
  BY <1>1 DEF BtrfsTypes, BtrfsMachines, BtrfsFstabs, BtrfsRuns, BtrfsMems, Btrfs!Sub
<1>3. /\ [sys EXCEPT !.fstab.whole = FALSE] \in BtrfsMachines
      /\ [sys EXCEPT !.fstab.whole = FALSE].top = sys.top
      /\ [sys EXCEPT !.fstab.whole = FALSE].swapOn = sys.swapOn
      /\ [sys EXCEPT !.fstab.whole = FALSE].mounted = sys.mounted
  BY <1>1, <1>2 DEF BtrfsTypes, BtrfsMachines
<1>4. Btrfs!Uncompressed \in SUBSET Btrfs!Mounts
  BY <1>1 DEF Btrfs!Uncompressed, Btrfs!Shown, BtrfsTypes, BtrfsMachines, BtrfsFstabs
<1>5. /\ run' \in BtrfsRuns /\ left' \in Lefts /\ BtrfsMemo
      /\ \/ Goes("options", "line")
         \/ Goes("options", "write_options")
         \/ Fails("options", "line")
  <2>1. ASSUME Btrfs!Do("options", sys, Btrfs!Goto(run, "line"))
       PROVE  /\ run' \in BtrfsRuns /\ left' \in Lefts /\ BtrfsMemo
              /\ Goes("options", "line")
    BY <2>1, <1>1, <1>2, <1>3, <1>4, BtrfsGoes, BtrfsPlaceNames DEF BtrfsTypes, Goes, Warns
  <2>2. ASSUME Btrfs!Do("options", [sys EXCEPT !.fstab.whole = FALSE],
                Btrfs!Goto(Btrfs!Mem(run, "todo", Btrfs!Uncompressed), "write_options"))
       PROVE  /\ run' \in BtrfsRuns /\ left' \in Lefts /\ BtrfsMemo
              /\ Goes("options", "write_options")
    BY <2>2, <1>1, <1>2, <1>3, <1>4, BtrfsTodo, BtrfsPlaceNames DEF BtrfsTypes, Goes, Warns
  <2>3. ASSUME Btrfs!Fault("options", Btrfs!Goto(Btrfs!Warned(run), "line"))
       PROVE  /\ run' \in BtrfsRuns /\ left' \in Lefts /\ BtrfsMemo
              /\ Fails("options", "line")
    BY <2>3, <1>1, <1>2, <1>3, <1>4, BtrfsFails, BtrfsPlaceNames DEF BtrfsTypes, Goes, Warns
  <2> QED
    BY <2>1, <2>2, <2>3, <1>1, <1>2, <1>3, <1>4 DEF Btrfs!LookAtOptions
<1>6. /\ sys' \in BtrfsMachines
      /\ sys'.top = sys.top /\ sys'.swapOn = sys.swapOn /\ sys'.mounted = sys.mounted
  BY <1>1, <1>2, <1>3, <1>4
     DEF Btrfs!LookAtOptions, BtrfsTypes, Btrfs!Do, Btrfs!Fault, Btrfs!FaultLeaving
<1>7. BtrfsTypes'
  BY <1>1, <1>5, <1>6 DEF BtrfsTypes
<1>8. BtrfsTopInv'
  BY <1>5, <1>6 DEF BtrfsInv, BtrfsTopInv, Goes, Fails
<1>9. BtrfsFirstInv'
  BY <1>5, <1>6 DEF BtrfsInv, BtrfsFirstInv, BtrfsMemo, Goes, Fails
<1>10. BtrfsMoveInv'
  BY <1>5, <1>6
     DEF BtrfsInv, BtrfsMoveInv, BtrfsFirstInv, BtrfsWorks, BtrfsEnds, BtrfsMemo, Goes,
         Fails
<1>11. BtrfsOnAgainInv'
  BY <1>5, <1>6
     DEF BtrfsInv, BtrfsOnAgainInv, BtrfsFirstInv, BtrfsMoveInv, BtrfsEnds, BtrfsMemo, Goes,
         Fails
<1> QED
  BY <1>7, <1>8, <1>9, <1>10, <1>11 DEF BtrfsInv

LEMMA BtrfsWriteOptionsKeeps == BtrfsInv /\ Btrfs!WriteOptions => BtrfsInv'
<1> SUFFICES ASSUME BtrfsInv, Btrfs!WriteOptions PROVE BtrfsInv'
  OBVIOUS
<1>1. BtrfsTypes
  BY DEF BtrfsInv
<1>2. [sys.fstab EXCEPT !.whole = TRUE, !.compressed = @ \cup run.mem.todo] \in BtrfsFstabs
  BY <1>1 DEF BtrfsTypes, BtrfsMachines, BtrfsFstabs, BtrfsRuns, BtrfsMems, Btrfs!Sub
<1>3. /\ [sys EXCEPT !.fstab.whole = TRUE,
           !.fstab.compressed = @ \cup run.mem.todo] \in BtrfsMachines
      /\ [sys EXCEPT !.fstab.whole = TRUE,
           !.fstab.compressed = @ \cup run.mem.todo].top = sys.top
      /\ [sys EXCEPT !.fstab.whole = TRUE,
           !.fstab.compressed = @ \cup run.mem.todo].swapOn = sys.swapOn
      /\ [sys EXCEPT !.fstab.whole = TRUE,
           !.fstab.compressed = @ \cup run.mem.todo].mounted = sys.mounted
  BY <1>1, <1>2 DEF BtrfsTypes, BtrfsMachines
<1>4. {} \in SUBSET Btrfs!Mounts
  OBVIOUS
<1>5. /\ run' \in BtrfsRuns /\ left' \in Lefts /\ BtrfsMemo
      /\ \/ Goes("write_options", "remount")
         \/ Fails("write_options", "line")
  <2>1. ASSUME NEW m,
              Btrfs!Do("write_options", m, Btrfs!Goto(Btrfs!Changed(run), "remount"))
       PROVE  /\ run' \in BtrfsRuns /\ left' \in Lefts /\ BtrfsMemo
              /\ Goes("write_options", "remount")
    BY <2>1, <1>1, <1>2, <1>3, <1>4, BtrfsGoes, BtrfsPlaceNames DEF BtrfsTypes, Goes, Warns
  <2>2. ASSUME Btrfs!Fault("write_options",
                 Btrfs!Goto(Btrfs!Warned(Btrfs!Mem(run, "todo", {})), "line"))
       PROVE  /\ run' \in BtrfsRuns /\ left' \in Lefts /\ BtrfsMemo
              /\ Fails("write_options", "line")
    BY <2>2, <1>1, <1>2, <1>3, <1>4, BtrfsTodo, BtrfsPlaceNames DEF BtrfsTypes, Goes, Warns
  <2> QED
    BY <2>1, <2>2, <1>1, <1>2, <1>3, <1>4 DEF Btrfs!WriteOptions
<1>6. /\ sys' \in BtrfsMachines
      /\ sys'.top = sys.top /\ sys'.swapOn = sys.swapOn /\ sys'.mounted = sys.mounted
  BY <1>1, <1>2, <1>3, <1>4
     DEF Btrfs!WriteOptions, BtrfsTypes, Btrfs!Do, Btrfs!Fault, Btrfs!FaultLeaving
<1>7. BtrfsTypes'
  BY <1>1, <1>5, <1>6 DEF BtrfsTypes
<1>8. BtrfsTopInv'
  BY <1>5, <1>6 DEF BtrfsInv, BtrfsTopInv, Goes, Fails
<1>9. BtrfsFirstInv'
  BY <1>5, <1>6 DEF BtrfsInv, BtrfsFirstInv, BtrfsMemo, Goes, Fails
<1>10. BtrfsMoveInv'
  BY <1>5, <1>6
     DEF BtrfsInv, BtrfsMoveInv, BtrfsFirstInv, BtrfsWorks, BtrfsEnds, BtrfsMemo, Goes,
         Fails
<1>11. BtrfsOnAgainInv'
  BY <1>5, <1>6
     DEF BtrfsInv, BtrfsOnAgainInv, BtrfsFirstInv, BtrfsMoveInv, BtrfsEnds, BtrfsMemo, Goes,
         Fails
<1> QED
  BY <1>7, <1>8, <1>9, <1>10, <1>11 DEF BtrfsInv

LEMMA BtrfsRemountKeeps == BtrfsInv /\ Btrfs!Remount => BtrfsInv'
<1> SUFFICES ASSUME BtrfsInv, Btrfs!Remount PROVE BtrfsInv'
  OBVIOUS
<1>1. BtrfsTypes
  BY DEF BtrfsInv
<1>2. \A mount \in run.mem.todo : run.mem.todo \ {mount} \in SUBSET Btrfs!Mounts
  BY <1>1 DEF BtrfsTypes, BtrfsRuns, BtrfsMems
<1>3. \A mount \in run.mem.todo :
        /\ [sys EXCEPT !.live = @ \cup {mount}] \in BtrfsMachines
        /\ [sys EXCEPT !.live = @ \cup {mount}].top = sys.top
        /\ [sys EXCEPT !.live = @ \cup {mount}].swapOn = sys.swapOn
        /\ [sys EXCEPT !.live = @ \cup {mount}].mounted = sys.mounted
  BY <1>1 DEF BtrfsTypes, BtrfsRuns, BtrfsMems, BtrfsMachines
<1>4. /\ run' \in BtrfsRuns /\ left' \in Lefts /\ BtrfsMemo
      /\ \/ Goes("remount", "remount")
         \/ Fails("remount", "remount")
         \/ Goes("remount", "line")
  <2>1. ASSUME NEW mount \in run.mem.todo,
              NEW m,
              Btrfs!Do("remount", m, Btrfs!Mem(run, "todo", run.mem.todo \ {mount}))
       PROVE  /\ run' \in BtrfsRuns /\ left' \in Lefts /\ BtrfsMemo
              /\ Goes("remount", "remount")
    BY <2>1, <1>1, <1>2, <1>3, BtrfsTodo, BtrfsPlaceNames DEF BtrfsTypes, Goes, Warns
  <2>2. ASSUME NEW mount \in run.mem.todo,
              Btrfs!Fault("remount", Btrfs!Warned(Btrfs!Mem(run, "todo",
                run.mem.todo \ {mount})))
       PROVE  /\ run' \in BtrfsRuns /\ left' \in Lefts /\ BtrfsMemo
              /\ Fails("remount", "remount")
    BY <2>2, <1>1, <1>2, <1>3, BtrfsTodo, BtrfsPlaceNames DEF BtrfsTypes, Goes, Warns
  <2>3. ASSUME Btrfs!Do("remount", sys, Btrfs!Goto(run, "line"))
       PROVE  /\ run' \in BtrfsRuns /\ left' \in Lefts /\ BtrfsMemo
              /\ Goes("remount", "line")
    BY <2>3, <1>1, <1>2, <1>3, BtrfsGoes, BtrfsPlaceNames DEF BtrfsTypes, Goes, Warns
  <2> QED
    BY <2>1, <2>2, <2>3, <1>1, <1>2, <1>3 DEF Btrfs!Remount
<1>5. /\ sys' \in BtrfsMachines
      /\ sys'.top = sys.top /\ sys'.swapOn = sys.swapOn /\ sys'.mounted = sys.mounted
  <2>1. ASSUME NEW mount \in run.mem.todo, NEW r,
               Btrfs!Do("remount", [sys EXCEPT !.live = @ \cup {mount}], r)
        PROVE  /\ sys' \in BtrfsMachines
              /\ sys'.top = sys.top /\ sys'.swapOn = sys.swapOn /\ sys'.mounted = sys.mounted
    BY <2>1, <1>3 DEF Btrfs!Do
  <2>2. ASSUME NEW r, Btrfs!Fault("remount", r) \/ Btrfs!Do("remount", sys, r)
        PROVE  /\ sys' \in BtrfsMachines
              /\ sys'.top = sys.top /\ sys'.swapOn = sys.swapOn /\ sys'.mounted = sys.mounted
    BY <2>2, <1>1 DEF BtrfsTypes, Btrfs!Do, Btrfs!Fault, Btrfs!FaultLeaving
  <2> QED
    BY <2>1, <2>2 DEF Btrfs!Remount
<1>6. BtrfsTypes'
  BY <1>1, <1>4, <1>5 DEF BtrfsTypes
<1>7. BtrfsTopInv'
  BY <1>4, <1>5 DEF BtrfsInv, BtrfsTopInv, Goes, Fails
<1>8. BtrfsFirstInv'
  BY <1>4, <1>5 DEF BtrfsInv, BtrfsFirstInv, BtrfsMemo, Goes, Fails
<1>9. BtrfsMoveInv'
  BY <1>4, <1>5
     DEF BtrfsInv, BtrfsMoveInv, BtrfsFirstInv, BtrfsWorks, BtrfsEnds, BtrfsMemo, Goes,
         Fails
<1>10. BtrfsOnAgainInv'
  BY <1>4, <1>5
     DEF BtrfsInv, BtrfsOnAgainInv, BtrfsFirstInv, BtrfsMoveInv, BtrfsEnds, BtrfsMemo, Goes,
         Fails
<1> QED
  BY <1>6, <1>7, <1>8, <1>9, <1>10 DEF BtrfsInv

LEMMA BtrfsWriteLineKeeps == BtrfsInv /\ Btrfs!WriteLine => BtrfsInv'
<1> SUFFICES ASSUME BtrfsInv, Btrfs!WriteLine PROVE BtrfsInv'
  OBVIOUS
<1>1. BtrfsTypes
  BY DEF BtrfsInv
<1>2. [sys.fstab EXCEPT !.whole = FALSE] \in BtrfsFstabs
  BY <1>1 DEF BtrfsTypes, BtrfsMachines, BtrfsFstabs, BtrfsRuns, BtrfsMems, Btrfs!Sub
<1>3. /\ [sys EXCEPT !.fstab.whole = FALSE] \in BtrfsMachines
      /\ [sys EXCEPT !.fstab.whole = FALSE].top = sys.top
      /\ [sys EXCEPT !.fstab.whole = FALSE].swapOn = sys.swapOn
      /\ [sys EXCEPT !.fstab.whole = FALSE].mounted = sys.mounted
  BY <1>1, <1>2 DEF BtrfsTypes, BtrfsMachines
<1>4. /\ run' \in BtrfsRuns /\ left' \in Lefts /\ BtrfsMemo
      /\ \/ Goes("line", "list")
         \/ Warns("line", "list")
         \/ Goes("line", "write_line")
         \/ Fails("line", "list")
  BY <1>1, <1>2, <1>3, BtrfsGoes, BtrfsFails, BtrfsPlaceNames
     DEF Btrfs!WriteLine, BtrfsTypes, Goes, Warns
<1>5. /\ sys' \in BtrfsMachines
      /\ sys'.top = sys.top /\ sys'.swapOn = sys.swapOn /\ sys'.mounted = sys.mounted
  BY <1>1, <1>2, <1>3
     DEF Btrfs!WriteLine, BtrfsTypes, Btrfs!Do, Btrfs!Fault, Btrfs!FaultLeaving
<1>6. BtrfsTypes'
  BY <1>1, <1>4, <1>5 DEF BtrfsTypes
<1>7. BtrfsTopInv'
  BY <1>4, <1>5 DEF BtrfsInv, BtrfsTopInv, Goes, Warns, Fails
<1>8. BtrfsFirstInv'
  BY <1>4, <1>5 DEF BtrfsInv, BtrfsFirstInv, BtrfsMemo, Goes, Warns, Fails
<1>9. BtrfsMoveInv'
  BY <1>4, <1>5
     DEF BtrfsInv, BtrfsMoveInv, BtrfsFirstInv, BtrfsWorks, BtrfsEnds, BtrfsMemo, Goes,
         Warns, Fails
<1>10. BtrfsOnAgainInv'
  BY <1>4, <1>5
     DEF BtrfsInv, BtrfsOnAgainInv, BtrfsFirstInv, BtrfsMoveInv, BtrfsEnds, BtrfsMemo, Goes,
         Warns, Fails
<1> QED
  BY <1>6, <1>7, <1>8, <1>9, <1>10 DEF BtrfsInv

LEMMA BtrfsFinishLineKeeps == BtrfsInv /\ Btrfs!FinishLine => BtrfsInv'
<1> SUFFICES ASSUME BtrfsInv, Btrfs!FinishLine PROVE BtrfsInv'
  OBVIOUS
<1>1. BtrfsTypes
  BY DEF BtrfsInv
<1>2. [sys.fstab EXCEPT !.whole = TRUE, !.lines = @ \cup {Btrfs!Sub}] \in BtrfsFstabs
  BY <1>1 DEF BtrfsTypes, BtrfsMachines, BtrfsFstabs, BtrfsRuns, BtrfsMems, Btrfs!Sub
<1>3. /\ [sys EXCEPT !.fstab.whole = TRUE,
           !.fstab.lines = @ \cup {Btrfs!Sub}] \in BtrfsMachines
      /\ [sys EXCEPT !.fstab.whole = TRUE, !.fstab.lines = @ \cup {Btrfs!Sub}].top = sys.top
      /\ [sys EXCEPT !.fstab.whole = TRUE,
           !.fstab.lines = @ \cup {Btrfs!Sub}].swapOn = sys.swapOn
      /\ [sys EXCEPT !.fstab.whole = TRUE,
           !.fstab.lines = @ \cup {Btrfs!Sub}].mounted = sys.mounted
  BY <1>1, <1>2 DEF BtrfsTypes, BtrfsMachines
<1>4. /\ run' \in BtrfsRuns /\ left' \in Lefts /\ BtrfsMemo
      /\ \/ Goes("write_line", "list")
         \/ Fails("write_line", "list")
  BY <1>1, <1>2, <1>3, BtrfsGoes, BtrfsFails, BtrfsPlaceNames
     DEF Btrfs!FinishLine, BtrfsTypes, Goes, Warns
<1>5. /\ sys' \in BtrfsMachines
      /\ sys'.top = sys.top /\ sys'.swapOn = sys.swapOn /\ sys'.mounted = sys.mounted
  BY <1>1, <1>2, <1>3
     DEF Btrfs!FinishLine, BtrfsTypes, Btrfs!Do, Btrfs!Fault, Btrfs!FaultLeaving
<1>6. BtrfsTypes'
  BY <1>1, <1>4, <1>5 DEF BtrfsTypes
<1>7. BtrfsTopInv'
  BY <1>4, <1>5 DEF BtrfsInv, BtrfsTopInv, Goes, Fails
<1>8. BtrfsFirstInv'
  BY <1>4, <1>5 DEF BtrfsInv, BtrfsFirstInv, BtrfsMemo, Goes, Fails
<1>9. BtrfsMoveInv'
  BY <1>4, <1>5
     DEF BtrfsInv, BtrfsMoveInv, BtrfsFirstInv, BtrfsWorks, BtrfsEnds, BtrfsMemo, Goes,
         Fails
<1>10. BtrfsOnAgainInv'
  BY <1>4, <1>5
     DEF BtrfsInv, BtrfsOnAgainInv, BtrfsFirstInv, BtrfsMoveInv, BtrfsEnds, BtrfsMemo, Goes,
         Fails
<1> QED
  BY <1>6, <1>7, <1>8, <1>9, <1>10 DEF BtrfsInv

LEMMA BtrfsListSubvolumesKeeps == BtrfsInv /\ Btrfs!ListSubvolumes => BtrfsInv'
<1> SUFFICES ASSUME BtrfsInv, Btrfs!ListSubvolumes PROVE BtrfsInv'
  OBVIOUS
<1>1. BtrfsTypes
  BY DEF BtrfsInv
<1>2. /\ run' \in BtrfsRuns /\ left' \in Lefts /\ BtrfsMemo
      /\ \/ Goes("list", "mount")
         \/ Goes("list", "top")
         \/ Breaks("list", "top")
  BY <1>1, BtrfsGoes, BtrfsFails, BtrfsPlaceNames
     DEF Btrfs!ListSubvolumes, BtrfsTypes, Goes, Warns
<1>3. sys' = sys
  BY <1>1 DEF Btrfs!ListSubvolumes, BtrfsTypes, Btrfs!Do, Btrfs!Fault, Btrfs!FaultLeaving
<1>4. BtrfsTypes'
  BY <1>1, <1>2, <1>3 DEF BtrfsTypes
<1>5. BtrfsTopInv'
  BY <1>2, <1>3 DEF BtrfsInv, BtrfsTopInv, Goes, Breaks
<1>6. BtrfsFirstInv'
  BY <1>2, <1>3 DEF BtrfsInv, BtrfsFirstInv, BtrfsMemo, Goes, Breaks
<1>7. BtrfsMoveInv'
  BY <1>2, <1>3
     DEF BtrfsInv, BtrfsMoveInv, BtrfsFirstInv, BtrfsWorks, BtrfsEnds, BtrfsMemo, Goes,
         Breaks
<1>8. BtrfsOnAgainInv'
  BY <1>2, <1>3
     DEF BtrfsInv, BtrfsOnAgainInv, BtrfsFirstInv, BtrfsMoveInv, BtrfsEnds, BtrfsMemo, Goes,
         Breaks
<1> QED
  BY <1>4, <1>5, <1>6, <1>7, <1>8 DEF BtrfsInv

LEMMA BtrfsMountTopKeeps == BtrfsInv /\ Btrfs!MountTop => BtrfsInv'
<1> SUFFICES ASSUME BtrfsInv, Btrfs!MountTop PROVE BtrfsInv'
  OBVIOUS
<1>1. BtrfsTypes
  BY DEF BtrfsInv
<1>2. /\ run' \in BtrfsRuns /\ left' \in Lefts /\ BtrfsMemo
      /\ \/ Goes("top", "create")
         \/ sys' = sys /\ Warns("top", "mount")
         \/ sys' = sys /\ Fails("top", "mount")
  BY <1>1, BtrfsGoes, BtrfsFails, BtrfsPlaceNames
     DEF Btrfs!MountTop, BtrfsTypes, Goes, Warns
<1>3. /\ sys' \in BtrfsMachines
      /\ sys'.swapOn = sys.swapOn /\ sys'.mounted = sys.mounted
  BY <1>1
     DEF Btrfs!MountTop, BtrfsTypes, Btrfs!Do, Btrfs!Fault, Btrfs!FaultLeaving,
         BtrfsMachines, BtrfsFstabs
<1>4. BtrfsTypes'
  BY <1>1, <1>2, <1>3 DEF BtrfsTypes
<1>5. BtrfsTopInv'
  BY <1>2, <1>3 DEF BtrfsInv, BtrfsTopInv, Goes, Warns, Fails
<1>6. BtrfsFirstInv'
  BY <1>2, <1>3 DEF BtrfsInv, BtrfsFirstInv, BtrfsMemo, Goes, Warns, Fails
<1>7. BtrfsMoveInv'
  BY <1>2, <1>3
     DEF BtrfsInv, BtrfsMoveInv, BtrfsFirstInv, BtrfsWorks, BtrfsEnds, BtrfsMemo, Goes,
         Warns, Fails
<1>8. BtrfsOnAgainInv'
  BY <1>2, <1>3
     DEF BtrfsInv, BtrfsOnAgainInv, BtrfsFirstInv, BtrfsMoveInv, BtrfsEnds, BtrfsMemo, Goes,
         Warns, Fails
<1> QED
  BY <1>4, <1>5, <1>6, <1>7, <1>8 DEF BtrfsInv

LEMMA BtrfsCreateSubvolumeKeeps == BtrfsInv /\ Btrfs!CreateSubvolume => BtrfsInv'
<1> SUFFICES ASSUME BtrfsInv, Btrfs!CreateSubvolume PROVE BtrfsInv'
  OBVIOUS
<1>1. BtrfsTypes
  BY DEF BtrfsInv
<1>2. /\ run' \in BtrfsRuns /\ left' \in Lefts /\ BtrfsMemo
      /\ \/ Goes("create", "release")
         \/ Warns("create", "release")
         \/ Fails("create", "release")
  BY <1>1, BtrfsGoes, BtrfsFails, BtrfsPlaceNames
     DEF Btrfs!CreateSubvolume, BtrfsTypes, Goes, Warns
<1>3. /\ sys' \in BtrfsMachines
      /\ sys'.top = sys.top /\ sys'.swapOn = sys.swapOn /\ sys'.mounted = sys.mounted
  BY <1>1
     DEF Btrfs!CreateSubvolume, BtrfsTypes, Btrfs!Do, Btrfs!Fault, Btrfs!FaultLeaving,
         BtrfsMachines, BtrfsFstabs, BtrfsRuns, BtrfsMems, Btrfs!Sub
<1>4. BtrfsTypes'
  BY <1>1, <1>2, <1>3 DEF BtrfsTypes
<1>5. BtrfsTopInv'
  BY <1>2, <1>3 DEF BtrfsInv, BtrfsTopInv, Goes, Warns, Fails
<1>6. BtrfsFirstInv'
  BY <1>2, <1>3 DEF BtrfsInv, BtrfsFirstInv, BtrfsMemo, Goes, Warns, Fails
<1>7. BtrfsMoveInv'
  BY <1>2, <1>3
     DEF BtrfsInv, BtrfsMoveInv, BtrfsFirstInv, BtrfsWorks, BtrfsEnds, BtrfsMemo, Goes,
         Warns, Fails
<1>8. BtrfsOnAgainInv'
  BY <1>2, <1>3
     DEF BtrfsInv, BtrfsOnAgainInv, BtrfsFirstInv, BtrfsMoveInv, BtrfsEnds, BtrfsMemo, Goes,
         Warns, Fails
<1> QED
  BY <1>4, <1>5, <1>6, <1>7, <1>8 DEF BtrfsInv

LEMMA BtrfsReleaseTopKeeps == BtrfsInv /\ Btrfs!ReleaseTop => BtrfsInv'
<1> SUFFICES ASSUME BtrfsInv, Btrfs!ReleaseTop PROVE BtrfsInv'
  OBVIOUS
<1>1. BtrfsTypes
  BY DEF BtrfsInv
<1>2. [sys EXCEPT !.top = FALSE].top = FALSE
  BY <1>1 DEF BtrfsTypes, BtrfsMachines
<1>3. /\ run' \in BtrfsRuns /\ left' \in Lefts /\ BtrfsMemo
      /\ \/ ~sys'.top /\ Goes("release", "mount")
         \/ sys' = sys /\ Fails("release", "mount")
  BY <1>1, <1>2, BtrfsGoes, BtrfsFails, BtrfsPlaceNames
     DEF Btrfs!ReleaseTop, BtrfsTypes, Goes, Warns
<1>4. /\ sys' \in BtrfsMachines
      /\ sys'.swapOn = sys.swapOn /\ sys'.mounted = sys.mounted
  BY <1>1, <1>2
     DEF Btrfs!ReleaseTop, BtrfsTypes, Btrfs!Do, Btrfs!Fault, Btrfs!FaultLeaving,
         BtrfsMachines, BtrfsFstabs
<1>5. BtrfsTypes'
  BY <1>1, <1>3, <1>4 DEF BtrfsTypes
<1>6. BtrfsTopInv'
  BY <1>3, <1>4 DEF BtrfsInv, BtrfsTopInv, Goes, Fails
<1>7. BtrfsFirstInv'
  BY <1>3, <1>4 DEF BtrfsInv, BtrfsFirstInv, BtrfsMemo, Goes, Fails
<1>8. BtrfsMoveInv'
  BY <1>3, <1>4
     DEF BtrfsInv, BtrfsMoveInv, BtrfsFirstInv, BtrfsWorks, BtrfsEnds, BtrfsMemo, Goes,
         Fails
<1>9. BtrfsOnAgainInv'
  BY <1>3, <1>4
     DEF BtrfsInv, BtrfsOnAgainInv, BtrfsFirstInv, BtrfsMoveInv, BtrfsEnds, BtrfsMemo, Goes,
         Fails
<1> QED
  BY <1>5, <1>6, <1>7, <1>8, <1>9 DEF BtrfsInv

LEMMA BtrfsMountSubKeeps == BtrfsInv /\ Btrfs!MountSub => BtrfsInv'
<1> SUFFICES ASSUME BtrfsInv, Btrfs!MountSub PROVE BtrfsInv'
  OBVIOUS
<1>1. BtrfsTypes
  BY DEF BtrfsInv
<1>2. /\ run.mem.sub \in {"points", "swap"}
      /\ Btrfs!AfterMount = IF run.mem.sub = "points" THEN "swap" ELSE "restart"
      /\ Btrfs!AfterMount \in BtrfsPlaces
  BY <1>1, BtrfsPlaceNames
     DEF BtrfsTypes, BtrfsRuns, BtrfsMems, Btrfs!Subs, Btrfs!Sub, Btrfs!AfterMount
<1>3. [sys EXCEPT !.mounted = @ \cup {run.mem.sub}].mounted = sys.mounted \cup {run.mem.sub}
  BY <1>1 DEF BtrfsTypes, BtrfsMachines
<1>4. /\ run' \in BtrfsRuns /\ left' \in Lefts /\ BtrfsMemo
      /\ \/ run.mem.sub \in sys'.mounted /\ Goes("mount", Btrfs!AfterMount)
         \/ Warns("mount", Btrfs!AfterMount)
         \/ Fails("mount", Btrfs!AfterMount)
  <2>1. ASSUME NEW m,
              Btrfs!Do("mount", m, Btrfs!Goto(run, Btrfs!AfterMount)),
              run.mem.sub \in m.mounted
       PROVE  /\ run' \in BtrfsRuns /\ left' \in Lefts /\ BtrfsMemo
              /\ run.mem.sub \in sys'.mounted /\ Goes("mount", Btrfs!AfterMount)
    BY <2>1, <1>1, <1>2, <1>3, BtrfsGoes, BtrfsPlaceNames DEF BtrfsTypes, Goes, Warns
  <2>2. ASSUME NEW m,
              Btrfs!Do("mount", m, Btrfs!Goto(Btrfs!Changed(run), Btrfs!AfterMount)),
              run.mem.sub \in m.mounted
       PROVE  /\ run' \in BtrfsRuns /\ left' \in Lefts /\ BtrfsMemo
              /\ run.mem.sub \in sys'.mounted /\ Goes("mount", Btrfs!AfterMount)
    BY <2>2, <1>1, <1>2, <1>3, BtrfsGoes, BtrfsPlaceNames DEF BtrfsTypes, Goes, Warns
  <2>3. ASSUME Btrfs!Do("mount", sys, Btrfs!Goto(Btrfs!Warned(run), Btrfs!AfterMount))
       PROVE  /\ run' \in BtrfsRuns /\ left' \in Lefts /\ BtrfsMemo
              /\ Warns("mount", Btrfs!AfterMount)
    BY <2>3, <1>1, <1>2, <1>3, BtrfsGoes, BtrfsPlaceNames DEF BtrfsTypes, Goes, Warns
  <2>4. ASSUME Btrfs!Fault("mount", Btrfs!Goto(Btrfs!Warned(run), Btrfs!AfterMount))
       PROVE  /\ run' \in BtrfsRuns /\ left' \in Lefts /\ BtrfsMemo
              /\ Fails("mount", Btrfs!AfterMount)
    BY <2>4, <1>1, <1>2, <1>3, BtrfsFails, BtrfsPlaceNames DEF BtrfsTypes, Goes, Warns
  <2> QED
    BY <2>1, <2>2, <2>3, <2>4, <1>1, <1>2, <1>3 DEF Btrfs!MountSub, Btrfs!Sub
<1>5. /\ sys' \in BtrfsMachines
      /\ sys'.top = sys.top /\ sys'.swapOn = sys.swapOn
      /\ sys'.mounted \subseteq sys.mounted \cup {run.mem.sub}
  BY <1>1, <1>2, <1>3
     DEF Btrfs!MountSub, BtrfsTypes, Btrfs!Do, Btrfs!Fault, Btrfs!FaultLeaving,
         BtrfsMachines, BtrfsFstabs, BtrfsRuns, BtrfsMems, Btrfs!Sub
<1>6. BtrfsTypes'
  BY <1>1, <1>4, <1>5 DEF BtrfsTypes
<1>7. BtrfsTopInv'
  BY <1>2, <1>3, <1>4, <1>5 DEF BtrfsInv, BtrfsTopInv, Goes, Warns, Fails
<1>8. BtrfsFirstInv'
  BY <1>2, <1>3, <1>4, <1>5 DEF BtrfsInv, BtrfsFirstInv, BtrfsMemo, Goes, Warns, Fails
<1>9. BtrfsMoveInv'
  BY <1>2, <1>3, <1>4, <1>5
     DEF BtrfsInv, BtrfsMoveInv, BtrfsFirstInv, BtrfsWorks, BtrfsEnds, BtrfsMemo, Goes,
         Warns, Fails
<1>10. BtrfsOnAgainInv'
  BY <1>2, <1>3, <1>4, <1>5
     DEF BtrfsInv, BtrfsOnAgainInv, BtrfsFirstInv, BtrfsMoveInv, BtrfsEnds, BtrfsMemo, Goes,
         Warns, Fails
<1> QED
  BY <1>6, <1>7, <1>8, <1>9, <1>10 DEF BtrfsInv

LEMMA BtrfsLookAtSwapKeeps == BtrfsInv /\ Btrfs!LookAtSwap => BtrfsInv'
<1> SUFFICES ASSUME BtrfsInv, Btrfs!LookAtSwap PROVE BtrfsInv'
  OBVIOUS
<1>1. BtrfsTypes
  BY DEF BtrfsInv
<1>2. (sys.swapOn # "off") \in BOOLEAN
  OBVIOUS
<1>3. /\ [run.mem EXCEPT !.sub = "swap", !.swapWasOn = sys.swapOn # "off"] \in BtrfsMems
      /\ [run.mem EXCEPT !.sub = "swap", !.swapWasOn = sys.swapOn # "off"].sub = "swap"
      /\ [run.mem EXCEPT !.sub = "swap",
           !.swapWasOn = sys.swapOn # "off"].swapWasOn = (sys.swapOn # "off")
  BY <1>1, <1>2 DEF BtrfsTypes, BtrfsRuns, BtrfsMems, Btrfs!Subs
<1>4. /\ run' \in BtrfsRuns /\ left' \in Lefts
      /\ \/ "swap" \in sys.mounted /\ BtrfsMemo /\ Goes("swap", "schedule")
         \/ /\ "swap" \notin sys.mounted /\ run'.mem.sub = "swap"
            /\ run'.mem.swapWasOn <=> (sys.swapOn # "off")
            /\ (sys.swapOn # "off" /\ Goes("swap", "stop")) \/ (sys.swapOn = "off"
                 /\ Goes("swap", "unlink"))
  <2>1. ASSUME "swap" \in sys.mounted
       PROVE  /\ run' \in BtrfsRuns /\ left' \in Lefts
              /\ BtrfsMemo /\ Goes("swap", "schedule")
    BY <2>1, <1>1, <1>2, <1>3, BtrfsGoes, BtrfsPlaceNames
       DEF BtrfsTypes, Goes, Warns, Btrfs!LookAtSwap
  <2>2. ASSUME "swap" \notin sys.mounted,
              sys.swapOn # "off"
       PROVE  /\ run' \in BtrfsRuns /\ left' \in Lefts
              /\ run'.mem.sub = "swap" /\ run'.mem.swapWasOn /\ Goes("swap", "stop")
    BY <2>2, <1>1, <1>2, <1>3, BtrfsRemembers, BtrfsPlaceNames, ZenonT(60)
       DEF BtrfsTypes, Goes, Warns, Btrfs!LookAtSwap
  <2>3. ASSUME "swap" \notin sys.mounted,
              sys.swapOn = "off"
       PROVE  /\ run' \in BtrfsRuns /\ left' \in Lefts
              /\ run'.mem.sub = "swap" /\ ~run'.mem.swapWasOn /\ Goes("swap", "unlink")
    BY <2>3, <1>1, <1>2, <1>3, BtrfsRemembers, BtrfsPlaceNames
       DEF BtrfsTypes, Goes, Warns, Btrfs!LookAtSwap
  <2> QED
    BY <2>1, <2>2, <2>3, <1>1, <1>2, <1>3 DEF Btrfs!LookAtSwap
<1>5. sys' = sys
  BY <1>1, <1>2, <1>3
     DEF Btrfs!LookAtSwap, BtrfsTypes, Btrfs!Do, Btrfs!Fault, Btrfs!FaultLeaving
<1>6. BtrfsTypes'
  BY <1>1, <1>4, <1>5 DEF BtrfsTypes
<1>7. BtrfsTopInv'
  BY <1>4, <1>5 DEF BtrfsInv, BtrfsTopInv, Goes
<1>8. BtrfsFirstInv'
  BY <1>4, <1>5 DEF BtrfsInv, BtrfsFirstInv, BtrfsMemo, Goes
<1>9. BtrfsMoveInv'
  BY <1>4, <1>5
     DEF BtrfsInv, BtrfsMoveInv, BtrfsFirstInv, BtrfsWorks, BtrfsEnds, BtrfsMemo, Goes
<1>10. BtrfsOnAgainInv'
  BY <1>4, <1>5
     DEF BtrfsInv, BtrfsOnAgainInv, BtrfsFirstInv, BtrfsMoveInv, BtrfsEnds, BtrfsMemo, Goes
<1> QED
  BY <1>6, <1>7, <1>8, <1>9, <1>10 DEF BtrfsInv

LEMMA BtrfsStopSwapKeeps == BtrfsInv /\ Btrfs!StopSwap => BtrfsInv'
<1> SUFFICES ASSUME BtrfsInv, Btrfs!StopSwap PROVE BtrfsInv'
  OBVIOUS
<1>1. BtrfsTypes
  BY DEF BtrfsInv
<1>2. [sys EXCEPT !.swapOn = "off"].swapOn = "off"
  BY <1>1 DEF BtrfsTypes, BtrfsMachines
<1>3. /\ run' \in BtrfsRuns /\ left' \in Lefts /\ BtrfsMemo
      /\ \/ sys'.swapOn = "off" /\ Goes("stop", "unlink")
         \/ sys'.swapOn = sys.swapOn /\ Fails("stop", "unlink")
  BY <1>1, <1>2, BtrfsGoes, BtrfsFails, BtrfsPlaceNames
     DEF Btrfs!StopSwap, BtrfsTypes, Goes, Warns
<1>4. /\ sys' \in BtrfsMachines
      /\ sys'.top = sys.top /\ sys'.mounted = sys.mounted
  BY <1>1, <1>2
     DEF Btrfs!StopSwap, BtrfsTypes, Btrfs!Do, Btrfs!Fault, Btrfs!FaultLeaving,
         BtrfsMachines, BtrfsFstabs
<1>5. BtrfsTypes'
  BY <1>1, <1>3, <1>4 DEF BtrfsTypes
<1>6. BtrfsTopInv'
  BY <1>3, <1>4 DEF BtrfsInv, BtrfsTopInv, Goes, Fails
<1>7. BtrfsFirstInv'
  BY <1>3, <1>4 DEF BtrfsInv, BtrfsFirstInv, BtrfsMemo, Goes, Fails
<1>8. BtrfsMoveInv'
  BY <1>3, <1>4
     DEF BtrfsInv, BtrfsMoveInv, BtrfsFirstInv, BtrfsWorks, BtrfsEnds, BtrfsMemo, Goes,
         Fails
<1>9. BtrfsOnAgainInv'
  BY <1>3, <1>4
     DEF BtrfsInv, BtrfsOnAgainInv, BtrfsFirstInv, BtrfsMoveInv, BtrfsEnds, BtrfsMemo, Goes,
         Fails
<1> QED
  BY <1>5, <1>6, <1>7, <1>8, <1>9 DEF BtrfsInv

LEMMA BtrfsRemoveOldFileKeeps == BtrfsInv /\ Btrfs!RemoveOldFile => BtrfsInv'
<1> SUFFICES ASSUME BtrfsInv, Btrfs!RemoveOldFile PROVE BtrfsInv'
  OBVIOUS
<1>1. BtrfsTypes
  BY DEF BtrfsInv
<1>2. /\ run' \in BtrfsRuns /\ left' \in Lefts /\ BtrfsMemo
      /\ \/ sys.swapOn = "off" /\ Goes("unlink", "line")
         \/ Warns("unlink", "restart")
         \/ Fails("unlink", "restart")
  BY <1>1, BtrfsGoes, BtrfsFails, BtrfsPlaceNames, ZenonT(60)
     DEF Btrfs!RemoveOldFile, BtrfsTypes, Goes, Warns
<1>3. sys' = sys
  BY <1>1 DEF Btrfs!RemoveOldFile, BtrfsTypes, Btrfs!Do, Btrfs!Fault, Btrfs!FaultLeaving
<1>4. BtrfsTypes'
  BY <1>1, <1>2, <1>3 DEF BtrfsTypes
<1>5. BtrfsTopInv'
  BY <1>2, <1>3 DEF BtrfsInv, BtrfsTopInv, Goes, Warns, Fails
<1>6. BtrfsFirstInv'
  BY <1>2, <1>3 DEF BtrfsInv, BtrfsFirstInv, BtrfsMemo, Goes, Warns, Fails
<1>7. BtrfsMoveInv'
  BY <1>2, <1>3
     DEF BtrfsInv, BtrfsMoveInv, BtrfsFirstInv, BtrfsWorks, BtrfsEnds, BtrfsMemo, Goes,
         Warns, Fails
<1>8. BtrfsOnAgainInv'
  BY <1>2, <1>3
     DEF BtrfsInv, BtrfsOnAgainInv, BtrfsFirstInv, BtrfsMoveInv, BtrfsEnds, BtrfsMemo, Goes,
         Warns, Fails
<1> QED
  BY <1>4, <1>5, <1>6, <1>7, <1>8 DEF BtrfsInv

LEMMA BtrfsRestartSwapKeeps == BtrfsInv /\ Btrfs!RestartSwap => BtrfsInv'
<1> SUFFICES ASSUME BtrfsInv, Btrfs!RestartSwap PROVE BtrfsInv'
  OBVIOUS
<1>1. BtrfsTypes
  BY DEF BtrfsInv
<1>2. Btrfs!Place = IF "swap" \in sys.mounted THEN "swap" ELSE "root"
  BY DEF Btrfs!Place
<1>3. [sys EXCEPT !.swapOn = Btrfs!Place].swapOn = Btrfs!Place
  BY <1>1 DEF BtrfsTypes, BtrfsMachines
<1>4. /\ run' \in BtrfsRuns /\ left' \in Lefts /\ BtrfsMemo
      /\ \/ run.mem.swapWasOn /\ sys'.swapOn = Btrfs!Place /\ Goes("restart", "schedule")
         \/ run.mem.swapWasOn /\ sys' = sys /\ Fails("restart", "schedule")
         \/ ~run.mem.swapWasOn /\ sys' = sys /\ Goes("restart", "schedule")
  <2>1. ASSUME NEW m,
              Btrfs!Do("restart", m, Btrfs!Goto(run, "schedule"))
       PROVE  /\ run' \in BtrfsRuns /\ left' \in Lefts /\ BtrfsMemo
              /\ sys' = m /\ Goes("restart", "schedule")
    BY <2>1, <1>1, <1>2, <1>3, BtrfsGoes, BtrfsPlaceNames DEF BtrfsTypes, Goes, Warns
  <2>2. ASSUME Btrfs!Fault("restart", Btrfs!Goto(Btrfs!Warned(run), "schedule"))
       PROVE  /\ run' \in BtrfsRuns /\ left' \in Lefts /\ BtrfsMemo
              /\ sys' = sys /\ Fails("restart", "schedule")
    BY <2>2, <1>1, <1>2, <1>3, BtrfsFails, BtrfsPlaceNames DEF BtrfsTypes, Goes, Warns
  <2> QED
    BY <2>1, <2>2, <1>1, <1>2, <1>3 DEF Btrfs!RestartSwap
<1>5. /\ sys' \in BtrfsMachines
      /\ sys'.top = sys.top /\ sys'.mounted = sys.mounted
  BY <1>1, <1>2, <1>3
     DEF Btrfs!RestartSwap, BtrfsTypes, Btrfs!Do, Btrfs!Fault, Btrfs!FaultLeaving,
         BtrfsMachines, BtrfsFstabs
<1>6. BtrfsTypes'
  BY <1>1, <1>4, <1>5 DEF BtrfsTypes
<1>7. BtrfsTopInv'
  BY <1>2, <1>3, <1>4, <1>5 DEF BtrfsInv, BtrfsTopInv, Goes, Fails
<1>8. BtrfsFirstInv'
  BY <1>2, <1>3, <1>4, <1>5 DEF BtrfsInv, BtrfsFirstInv, BtrfsMemo, Goes, Fails
<1>9. BtrfsMoveInv'
  BY <1>2, <1>3, <1>4, <1>5
     DEF BtrfsInv, BtrfsMoveInv, BtrfsFirstInv, BtrfsWorks, BtrfsEnds, BtrfsMemo, Goes,
         Fails
<1>10. BtrfsOnAgainInv'
  BY <1>2, <1>3, <1>4, <1>5
     DEF BtrfsInv, BtrfsOnAgainInv, BtrfsFirstInv, BtrfsMoveInv, BtrfsEnds, BtrfsMemo, Goes,
         Fails
<1> QED
  BY <1>6, <1>7, <1>8, <1>9, <1>10 DEF BtrfsInv

LEMMA BtrfsWriteScheduleKeeps == BtrfsInv /\ Btrfs!WriteSchedule => BtrfsInv'
<1> SUFFICES ASSUME BtrfsInv, Btrfs!WriteSchedule PROVE BtrfsInv'
  OBVIOUS
<1>1. BtrfsTypes
  BY DEF BtrfsInv
<1>2. (~sys.schedule) \in BOOLEAN
  BY <1>1 DEF BtrfsTypes, BtrfsMachines
<1>3. /\ run' \in BtrfsRuns /\ left' \in Lefts /\ BtrfsMemo
      /\ \/ Goes("schedule", "timers")
         \/ Fails("schedule", "timers")
  BY <1>1, <1>2, BtrfsGoes, BtrfsFails, BtrfsNotes, BtrfsPlaceNames
     DEF Btrfs!WriteSchedule, BtrfsTypes, Goes, Warns
<1>4. /\ sys' \in BtrfsMachines
      /\ sys'.top = sys.top /\ sys'.swapOn = sys.swapOn /\ sys'.mounted = sys.mounted
  BY <1>1, <1>2
     DEF Btrfs!WriteSchedule, BtrfsTypes, Btrfs!Do, Btrfs!Fault, Btrfs!FaultLeaving,
         BtrfsMachines, BtrfsFstabs
<1>5. BtrfsTypes'
  BY <1>1, <1>3, <1>4 DEF BtrfsTypes
<1>6. BtrfsTopInv'
  BY <1>3, <1>4 DEF BtrfsInv, BtrfsTopInv, Goes, Fails
<1>7. BtrfsFirstInv'
  BY <1>3, <1>4 DEF BtrfsInv, BtrfsFirstInv, BtrfsMemo, Goes, Fails
<1>8. BtrfsMoveInv'
  BY <1>3, <1>4
     DEF BtrfsInv, BtrfsMoveInv, BtrfsFirstInv, BtrfsWorks, BtrfsEnds, BtrfsMemo, Goes,
         Fails
<1>9. BtrfsOnAgainInv'
  BY <1>3, <1>4
     DEF BtrfsInv, BtrfsOnAgainInv, BtrfsFirstInv, BtrfsMoveInv, BtrfsEnds, BtrfsMemo, Goes,
         Fails
<1> QED
  BY <1>5, <1>6, <1>7, <1>8, <1>9 DEF BtrfsInv

LEMMA BtrfsSetTimersKeeps == BtrfsInv /\ Btrfs!SetTimers => BtrfsInv'
<1> SUFFICES ASSUME BtrfsInv, Btrfs!SetTimers PROVE BtrfsInv'
  OBVIOUS
<1>1. BtrfsTypes
  BY DEF BtrfsInv
<1>2. (~sys.timers) \in BOOLEAN
  BY <1>1 DEF BtrfsTypes, BtrfsMachines
<1>3. /\ run' \in BtrfsRuns /\ left' \in Lefts /\ BtrfsMemo
      /\ \/ Goes("timers", "build")
         \/ Fails("timers", "build")
  BY <1>1, <1>2, BtrfsGoes, BtrfsFails, BtrfsNotes, BtrfsPlaceNames
     DEF Btrfs!SetTimers, BtrfsTypes, Goes, Warns
<1>4. /\ sys' \in BtrfsMachines
      /\ sys'.top = sys.top /\ sys'.swapOn = sys.swapOn /\ sys'.mounted = sys.mounted
  BY <1>1, <1>2
     DEF Btrfs!SetTimers, BtrfsTypes, Btrfs!Do, Btrfs!Fault, Btrfs!FaultLeaving,
         BtrfsMachines, BtrfsFstabs
<1>5. BtrfsTypes'
  BY <1>1, <1>3, <1>4 DEF BtrfsTypes
<1>6. BtrfsTopInv'
  BY <1>3, <1>4 DEF BtrfsInv, BtrfsTopInv, Goes, Fails
<1>7. BtrfsFirstInv'
  BY <1>3, <1>4 DEF BtrfsInv, BtrfsFirstInv, BtrfsMemo, Goes, Fails
<1>8. BtrfsMoveInv'
  BY <1>3, <1>4
     DEF BtrfsInv, BtrfsMoveInv, BtrfsFirstInv, BtrfsWorks, BtrfsEnds, BtrfsMemo, Goes,
         Fails
<1>9. BtrfsOnAgainInv'
  BY <1>3, <1>4
     DEF BtrfsInv, BtrfsOnAgainInv, BtrfsFirstInv, BtrfsMoveInv, BtrfsEnds, BtrfsMemo, Goes,
         Fails
<1> QED
  BY <1>5, <1>6, <1>7, <1>8, <1>9 DEF BtrfsInv

LEMMA BtrfsBuildGeneratorKeeps == BtrfsInv /\ Btrfs!BuildGenerator => BtrfsInv'
<1> SUFFICES ASSUME BtrfsInv, Btrfs!BuildGenerator PROVE BtrfsInv'
  OBVIOUS
<1>1. BtrfsTypes
  BY DEF BtrfsInv
<1>2. /\ run' \in BtrfsRuns /\ left' \in Lefts /\ BtrfsMemo
      /\ \/ Goes("build", "dropin")
         \/ Fails("build", "dropin")
  BY <1>1, BtrfsGoes, BtrfsFails, BtrfsPlaceNames
     DEF Btrfs!BuildGenerator, BtrfsTypes, Goes, Warns
<1>3. /\ sys' \in BtrfsMachines
      /\ sys'.top = sys.top /\ sys'.swapOn = sys.swapOn /\ sys'.mounted = sys.mounted
  BY <1>1
     DEF Btrfs!BuildGenerator, BtrfsTypes, Btrfs!Do, Btrfs!Fault, Btrfs!FaultLeaving,
         BtrfsMachines, BtrfsFstabs
<1>4. BtrfsTypes'
  BY <1>1, <1>2, <1>3 DEF BtrfsTypes
<1>5. BtrfsTopInv'
  BY <1>2, <1>3 DEF BtrfsInv, BtrfsTopInv, Goes, Fails
<1>6. BtrfsFirstInv'
  BY <1>2, <1>3 DEF BtrfsInv, BtrfsFirstInv, BtrfsMemo, Goes, Fails
<1>7. BtrfsMoveInv'
  BY <1>2, <1>3
     DEF BtrfsInv, BtrfsMoveInv, BtrfsFirstInv, BtrfsWorks, BtrfsEnds, BtrfsMemo, Goes,
         Fails
<1>8. BtrfsOnAgainInv'
  BY <1>2, <1>3
     DEF BtrfsInv, BtrfsOnAgainInv, BtrfsFirstInv, BtrfsMoveInv, BtrfsEnds, BtrfsMemo, Goes,
         Fails
<1> QED
  BY <1>4, <1>5, <1>6, <1>7, <1>8 DEF BtrfsInv

LEMMA BtrfsWriteDropinKeeps == BtrfsInv /\ Btrfs!WriteDropin => BtrfsInv'
<1> SUFFICES ASSUME BtrfsInv, Btrfs!WriteDropin PROVE BtrfsInv'
  OBVIOUS
<1>1. BtrfsTypes
  BY DEF BtrfsInv
<1>2. (~sys.dropin) \in BOOLEAN
  BY <1>1 DEF BtrfsTypes, BtrfsMachines
<1>3. /\ run' \in BtrfsRuns /\ left' \in Lefts /\ BtrfsMemo
      /\ \/ Goes("dropin", "daemon")
         \/ Fails("dropin", "daemon")
  BY <1>1, <1>2, BtrfsGoes, BtrfsFails, BtrfsNotes, BtrfsPlaceNames
     DEF Btrfs!WriteDropin, BtrfsTypes, Goes, Warns
<1>4. /\ sys' \in BtrfsMachines
      /\ sys'.top = sys.top /\ sys'.swapOn = sys.swapOn /\ sys'.mounted = sys.mounted
  BY <1>1, <1>2
     DEF Btrfs!WriteDropin, BtrfsTypes, Btrfs!Do, Btrfs!Fault, Btrfs!FaultLeaving,
         BtrfsMachines, BtrfsFstabs
<1>5. BtrfsTypes'
  BY <1>1, <1>3, <1>4 DEF BtrfsTypes
<1>6. BtrfsTopInv'
  BY <1>3, <1>4 DEF BtrfsInv, BtrfsTopInv, Goes, Fails
<1>7. BtrfsFirstInv'
  BY <1>3, <1>4 DEF BtrfsInv, BtrfsFirstInv, BtrfsMemo, Goes, Fails
<1>8. BtrfsMoveInv'
  BY <1>3, <1>4
     DEF BtrfsInv, BtrfsMoveInv, BtrfsFirstInv, BtrfsWorks, BtrfsEnds, BtrfsMemo, Goes,
         Fails
<1>9. BtrfsOnAgainInv'
  BY <1>3, <1>4
     DEF BtrfsInv, BtrfsOnAgainInv, BtrfsFirstInv, BtrfsMoveInv, BtrfsEnds, BtrfsMemo, Goes,
         Fails
<1> QED
  BY <1>5, <1>6, <1>7, <1>8, <1>9 DEF BtrfsInv

LEMMA BtrfsStopDaemonKeeps == BtrfsInv /\ Btrfs!StopDaemon => BtrfsInv'
<1> SUFFICES ASSUME BtrfsInv, Btrfs!StopDaemon PROVE BtrfsInv'
  OBVIOUS
<1>1. BtrfsTypes
  BY DEF BtrfsInv
<1>2. (sys.daemon) \in BOOLEAN
  BY <1>1 DEF BtrfsTypes, BtrfsMachines
<1>3. /\ run' \in BtrfsRuns /\ left' \in Lefts /\ BtrfsMemo
      /\ \/ Goes("daemon", "end")
         \/ Fails("daemon", "end")
  BY <1>1, <1>2, BtrfsGoes, BtrfsFails, BtrfsNotes, BtrfsPlaceNames
     DEF Btrfs!StopDaemon, BtrfsTypes, Goes, Warns
<1>4. /\ sys' \in BtrfsMachines
      /\ sys'.top = sys.top /\ sys'.swapOn = sys.swapOn /\ sys'.mounted = sys.mounted
  BY <1>1, <1>2
     DEF Btrfs!StopDaemon, BtrfsTypes, Btrfs!Do, Btrfs!Fault, Btrfs!FaultLeaving,
         BtrfsMachines, BtrfsFstabs
<1>5. BtrfsTypes'
  BY <1>1, <1>3, <1>4 DEF BtrfsTypes
<1>6. BtrfsTopInv'
  BY <1>3, <1>4 DEF BtrfsInv, BtrfsTopInv, Goes, Fails
<1>7. BtrfsFirstInv'
  BY <1>3, <1>4 DEF BtrfsInv, BtrfsFirstInv, BtrfsMemo, Goes, Fails
<1>8. BtrfsMoveInv'
  BY <1>3, <1>4
     DEF BtrfsInv, BtrfsMoveInv, BtrfsFirstInv, BtrfsWorks, BtrfsEnds, BtrfsMemo, Goes,
         Fails
<1>9. BtrfsOnAgainInv'
  BY <1>3, <1>4
     DEF BtrfsInv, BtrfsOnAgainInv, BtrfsFirstInv, BtrfsMoveInv, BtrfsEnds, BtrfsMemo, Goes,
         Fails
<1> QED
  BY <1>5, <1>6, <1>7, <1>8, <1>9 DEF BtrfsInv

LEMMA BtrfsStartTaskKeeps == BtrfsInv /\ Btrfs!StartTask => BtrfsInv'
<1> SUFFICES ASSUME BtrfsInv, Btrfs!StartTask PROVE BtrfsInv'
  OBVIOUS
<1>0. BtrfsTypes
  BY DEF BtrfsInv
<1>1. PICK force \in BOOLEAN :
        Btrfs!Begin("root", force, [todo |-> {}, sub |-> "points", swapWasOn |-> FALSE])
  BY DEF Btrfs!StartTask
<1>2. [todo |-> {}, sub |-> "points", swapWasOn |-> FALSE] \in BtrfsMems
  BY DEF BtrfsMems, Btrfs!Subs
<1>3. (run.pc = "end" /\ ~run.warn /\ ~run.force) \in BOOLEAN
  OBVIOUS
<1>4. /\ run' \in BtrfsRuns /\ run'.pc = "root" /\ run'.mem.sub = "points"
      /\ ~run'.mem.swapWasOn
  BY <1>1, <1>2, <1>3, BtrfsPlaceNames DEF Btrfs!Begin, BtrfsRuns
<1>5. run.pc \in {"idle", "end"} /\ sys' = sys
  BY <1>1 DEF Btrfs!Begin, Btrfs!AtRest
<1>6. left' \in Lefts /\ left'.kills = left.kills /\ left'.faults = left.faults
  BY <1>0, <1>1, BeginSpends DEF Btrfs!Begin, BtrfsTypes
<1> QED
  BY <1>0, <1>4, <1>5, <1>6
     DEF BtrfsInv, BtrfsTypes, BtrfsTopInv, BtrfsFirstInv, BtrfsMoveInv, BtrfsOnAgainInv,
         BtrfsWorks, BtrfsEnds

LEMMA BtrfsIdle ==
  ASSUME run \in BtrfsRuns, run' = Btrfs!NoRun(run.mem)
  PROVE  run' \in BtrfsRuns /\ run'.pc = "idle" /\ run'.mem = run.mem
  BY BtrfsPlaceNames DEF Btrfs!NoRun, BtrfsRuns

LEMMA BtrfsKillKeeps == BtrfsInv /\ Btrfs!Kill => BtrfsInv'
<1> SUFFICES ASSUME BtrfsInv, Btrfs!Kill PROVE BtrfsInv'
  OBVIOUS
<1>0. BtrfsTypes
  BY DEF BtrfsInv
<1>1. sys' = sys /\ run' = Btrfs!NoRun(run.mem)
  BY DEF Btrfs!Kill
<1>2. run' \in BtrfsRuns /\ run'.pc = "idle" /\ run'.mem = run.mem
  BY <1>0, <1>1, BtrfsIdle DEF BtrfsTypes
<1>3. left' \in Lefts /\ left'.kills < MaxKills
  BY <1>0, KillSpends DEF Btrfs!Kill, BtrfsTypes
<1> QED
  BY <1>0, <1>1, <1>2, <1>3
     DEF BtrfsInv, BtrfsTypes, BtrfsTopInv, BtrfsFirstInv, BtrfsMoveInv, BtrfsOnAgainInv,
         BtrfsWorks, BtrfsEnds

LEMMA BtrfsRebootKeeps == BtrfsInv /\ Btrfs!Reboot => BtrfsInv'
<1> SUFFICES ASSUME BtrfsInv, Btrfs!Reboot PROVE BtrfsInv'
  OBVIOUS
<1>0. BtrfsTypes
  BY DEF BtrfsInv
<1> DEFINE mounted == IF sys.fstab.whole THEN sys.fstab.lines \cap sys.subs ELSE {}
           live == IF sys.fstab.whole THEN sys.fstab.compressed ELSE {}
           place == IF ~sys.swapUnit THEN "off"
                    ELSE IF "swap" \in mounted THEN "swap" ELSE "root"
<1>1. Btrfs!Event([sys EXCEPT !.mounted = mounted, !.top = FALSE, !.live = live,
                              !.swapOn = place])
  BY DEF Btrfs!Reboot
<1>2. mounted \in SUBSET Btrfs!Subs /\ live \in SUBSET Btrfs!Mounts
  BY <1>0 DEF BtrfsTypes, BtrfsMachines, BtrfsFstabs
<1>3. place \in {"off", "root", "swap"} /\ ("swap" \in mounted => place # "root")
  OBVIOUS
<1> HIDE DEF mounted, live, place
<1>4. /\ sys' \in BtrfsMachines /\ sys'.top = FALSE /\ sys'.mounted = mounted
      /\ sys'.swapOn = place
  BY <1>0, <1>1, <1>2, <1>3 DEF Btrfs!Event, BtrfsTypes, BtrfsMachines
<1>5. run' \in BtrfsRuns /\ run'.pc = "idle" /\ run'.mem = run.mem
  BY <1>0, <1>1, BtrfsIdle DEF Btrfs!Event, BtrfsTypes
<1>6. left' \in Lefts
  BY <1>0, <1>1, EventSpends DEF Btrfs!Event, BtrfsTypes
<1> QED
  BY <1>0, <1>3, <1>4, <1>5, <1>6
     DEF BtrfsInv, BtrfsTypes, BtrfsTopInv, BtrfsFirstInv, BtrfsMoveInv, BtrfsOnAgainInv,
         BtrfsWorks, BtrfsEnds

LEMMA InitBtrfs == Btrfs!Init => BtrfsInv
<1> SUFFICES ASSUME Btrfs!Init PROVE BtrfsInv
  OBVIOUS
<1>1. PICK separateHome \in BOOLEAN, swapped \in BOOLEAN :
       sys = [fstab |-> [whole |-> TRUE,
         has |-> IF separateHome THEN Btrfs!Mounts ELSE {"root"},
                         compressed |-> {}, lines |-> {}],
              live |-> {}, subs |-> {}, mounted |-> {}, top |-> FALSE,
              swapUnit |-> swapped, swapOn |-> IF swapped THEN "root" ELSE "off",
              schedule |-> FALSE, timers |-> FALSE, generator |-> FALSE,
              dropin |-> FALSE, daemon |-> FALSE]
  BY DEF Btrfs!Init
<1>2. sys \in BtrfsMachines /\ ~sys.top /\ sys.mounted = {}
  BY <1>1 DEF BtrfsMachines, BtrfsFstabs, Btrfs!Mounts
<1>3. [todo |-> {}, sub |-> "points", swapWasOn |-> FALSE] \in BtrfsMems
  BY DEF BtrfsMems, Btrfs!Subs
<1>4. run \in BtrfsRuns /\ run.pc = "idle" /\ ~run.mem.swapWasOn
  BY <1>3, BtrfsPlaceNames DEF Btrfs!Init, Btrfs!NoRun, BtrfsRuns
<1>5. left \in Lefts
  BY BudgetIsLeft DEF Btrfs!Init, Btrfs!Budget
<1> QED
  BY <1>2, <1>4, <1>5
     DEF BtrfsInv, BtrfsTypes, BtrfsTopInv, BtrfsFirstInv, BtrfsMoveInv, BtrfsOnAgainInv,
         BtrfsWorks, BtrfsEnds

LEMMA NextBtrfs == BtrfsInv /\ [Btrfs!Next]_vars => BtrfsInv'
<1> SUFFICES ASSUME BtrfsInv, [Btrfs!Next]_vars PROVE BtrfsInv'
  OBVIOUS
<1>1. ASSUME UNCHANGED vars PROVE BtrfsInv'
  BY <1>1 DEF vars, BtrfsInv, BtrfsTypes, BtrfsTopInv, BtrfsFirstInv, BtrfsMoveInv,
              BtrfsOnAgainInv
<1>2. ASSUME Btrfs!Step PROVE BtrfsInv'
  BY <1>2, BtrfsReadRootKeeps, BtrfsInstallToolsKeeps, BtrfsLookAtOptionsKeeps,
     BtrfsWriteOptionsKeeps, BtrfsRemountKeeps, BtrfsWriteLineKeeps, BtrfsFinishLineKeeps,
     BtrfsListSubvolumesKeeps, BtrfsMountTopKeeps, BtrfsCreateSubvolumeKeeps,
     BtrfsReleaseTopKeeps, BtrfsMountSubKeeps, BtrfsLookAtSwapKeeps, BtrfsStopSwapKeeps,
     BtrfsRemoveOldFileKeeps, BtrfsRestartSwapKeeps, BtrfsWriteScheduleKeeps,
     BtrfsSetTimersKeeps, BtrfsBuildGeneratorKeeps, BtrfsWriteDropinKeeps,
     BtrfsStopDaemonKeeps
     DEF Btrfs!Step
<1> QED
  BY <1>1, <1>2, BtrfsStartTaskKeeps, BtrfsKillKeeps, BtrfsRebootKeeps DEF Btrfs!Next

BtrfsHolds == section = "btrfs" => BtrfsInv

LEMMA BtrfsImplies ==
  BtrfsInv => Btrfs!SwapIsRestarted /\ Btrfs!SnapshotIsPossible /\ Btrfs!TopIsReleased
<1>1. BtrfsInv => Btrfs!SwapIsRestarted
  BY DEF BtrfsInv, BtrfsOnAgainInv, BtrfsEnds, Btrfs!SwapIsRestarted
<1>2. BtrfsInv => Btrfs!SnapshotIsPossible
  BY DEF BtrfsInv, BtrfsMoveInv, BtrfsEnds, Btrfs!SnapshotIsPossible, Btrfs!CleanRunReaches
<1>3. BtrfsInv => Btrfs!TopIsReleased
  BY DEF BtrfsInv, BtrfsTopInv, Btrfs!TopIsReleased, Btrfs!AtRest
<1> QED
  BY <1>1, <1>2, <1>3

LEMMA PointImplies == SaveInv => Point!MarkerIsEarned /\ Point!EntryNeedsPoint
  BY DEF SaveInv
-----------------------------------------------------------------------------
(*****************************************************************************)
(* The swap file: the task, the program and the unit that runs it again.     *)
(*****************************************************************************)

SwapPlaces == Swap!Labels \cup {"idle", "end"}
SwapFiles == [size : 0..Disk, made : BOOLEAN, formatted : BOOLEAN, offset : Offsets \cup {0}]
SwapDeps == [prog : BOOLEAN, exec : BOOLEAN, unit : SUBSET {"unit", "force", "device"},
             loaded : SUBSET {"unit", "force", "device"}, enabled : BOOLEAN,
             active : {"no", "due", "yes"}]
SwapMachines ==
  [file : SwapFiles, on : BOOLEAN, ram : RamTerms, grub : Offsets \cup {0},
   menu : Offsets \cup {0}, power : Offsets \cup {0}, resume : BOOLEAN, image : BOOLEAN,
   rule : BOOLEAN, snapshot : BOOLEAN, foreign : SUBSET {"on", "file", "fstab"},
     dep : SwapDeps]
SwapMems == [device : BOOLEAN, before : BOOLEAN, target : 0..Disk, offset : Offsets \cup {0},
             pwarn : BOOLEAN, pub : BOOLEAN, by : {"task", "unit", "boot"}, claim : BOOLEAN]
SwapRuns == [pc : SwapPlaces, force : BOOLEAN, warn : BOOLEAN, changed : BOOLEAN,
             hurt : BOOLEAN, settled : BOOLEAN, mem : SwapMems]
SwapTypes == sys \in SwapMachines /\ run \in SwapRuns /\ left \in Lefts

SwapBefore == {"packages", "foreign_off", "foreign_file", "foreign_fstab", "device",
               "program", "mode", "unit", "reload", "enable", "run"}
SwapFilling == {"size", "probe", "swapoff", "create", "allocate", "format", "swapon",
  "offset"}
SwapPublishing == {"grub", "menu", "initramfs", "power"}
SwapAfter == {"image", "verify", "rule", "start"}

\* who is at work, and what it can have published
SwapCallerInv ==
  /\ run.pc \in SwapBefore => run.mem.by = "task" /\ ~run.mem.claim /\ ~run.mem.pub
  /\ run.pc \in SwapAfter => run.mem.by = "task"
  /\ run.mem.by = "task" /\ run.mem.claim => run.pc \in {"rule", "start", "end", "idle"}
  /\ run.mem.by = "task" /\ run.mem.pub =>
       run.pc \in {"failed", "done", "image", "verify", "rule", "start", "end", "idle"}
  /\ run.mem.by = "boot" => ~run.mem.claim
SwapOffInv == run.pc \in {"create", "allocate", "format"} => ~sys.on
SwapOffsetInv ==
  /\ run.pc \in SwapBefore \cup SwapFilling => run.mem.offset = 0
  /\ run.pc \in SwapPublishing => run.mem.offset = sys.file.offset /\ ~sys.snapshot
  /\ run.pc \in {"done", "image", "verify"} /\ run.mem.by = "task" /\ run.mem.pub =>
       run.mem.offset = sys.file.offset
  /\ run.pc # "idle" /\ (run.mem.pub \/ run.mem.claim) => ~sys.snapshot
SwapAgreed == sys.grub = sys.file.offset /\ sys.menu = sys.file.offset
SwapClaimInv ==
  /\ run.mem.claim /\ run.pc # "idle" => sys.image
  /\ run.mem.claim /\ run.pc \in {"rule", "start"} => SwapAgreed
  /\ run.mem.claim /\ run.pc = "end" /\ run.mem.by = "task" => SwapAgreed
SwapUnitInv ==
  run.mem.claim /\ run.mem.by = "unit" /\ ~run.hurt =>
    /\ run.pc \in {"size", "probe", "swapoff", "failed"} => SwapAgreed
    /\ run.pc \in {"create", "allocate", "format", "swapon", "offset", "grub"} =>
         sys.menu = sys.grub
    /\ run.pc = "swapon" => sys.file.formatted \/ SwapAgreed
    /\ run.pc = "menu" => sys.grub = sys.file.offset
    /\ run.pc \in {"initramfs", "power", "done", "end"} /\ ~run.mem.pwarn => SwapAgreed
SwapInv == SwapTypes /\ SwapCallerInv /\ SwapOffInv /\ SwapOffsetInv /\ SwapClaimInv
  /\ SwapUnitInv

\* the halves of the machine the parts of the invariant are about
SwapDiskSame == sys'.file = sys.file /\ sys'.on = sys.on
SwapBootSame == sys'.grub = sys.grub /\ sys'.menu = sys.menu /\ sys'.image = sys.image
SwapHereSame == sys'.snapshot = sys.snapshot

\* what a step makes of the run, and what it makes of it when its call fails
SwapMoves(from, to, mem) ==
  run.pc = from /\ run'.pc = to /\ run'.hurt = run.hurt /\ run'.mem = mem
SwapBreaks(from, to, mem) ==
  run.pc = from /\ run'.pc = to /\ run'.hurt /\ run'.mem = mem
SwapRunTypes == run' \in SwapRuns /\ left' \in Lefts

SwapLike(r, to, mem) == r \in SwapRuns /\ r.pc = to /\ r.hurt = run.hurt /\ r.mem = mem

LEMMA SwapNothing == 0 \in 0..Disk
  BY SizesAreCounts

LEMMA SwapPlaceNames ==
  SwapPlaces =
    {"size", "probe", "swapoff", "create", "allocate", "format", "swapon", "offset", "grub",
     "menu", "initramfs", "power", "packages", "foreign_off", "foreign_file",
     "foreign_fstab", "device", "program", "mode", "unit", "reload", "enable", "run",
     "failed", "done", "image", "verify", "rule", "start", "idle", "end"}
  BY DEF SwapPlaces, Swap!Labels, Swap!ProgramLabels

LEMMA SwapValues ==
  ASSUME run \in SwapRuns, NEW to \in SwapPlaces
  PROVE  /\ SwapLike(Swap!Goto(run, to), to, run.mem)
         /\ SwapLike(Swap!Goto(Swap!Warned(run), to), to, run.mem)
         /\ SwapLike(Swap!Goto(Swap!Changed(run), to), to, run.mem)
  BY DEF SwapLike, SwapRuns, Swap!Goto, Swap!Warned, Swap!Changed

LEMMA SwapNotedValues ==
  ASSUME run \in SwapRuns, NEW to \in SwapPlaces, NEW b \in BOOLEAN
  PROVE  /\ SwapLike(Swap!Goto(Swap!Noted(run, b), to), to, run.mem)
         /\ SwapLike(Swap!Goto([run EXCEPT !.warn = b], to), to, run.mem)
  BY DEF SwapLike, SwapRuns, Swap!Goto, Swap!Noted

LEMMA SwapMemValues ==
  ASSUME run \in SwapRuns, NEW to \in SwapPlaces, NEW mem \in SwapMems
  PROVE  /\ SwapLike(Swap!Goto(Swap!Recall(run, mem), to), to, mem)
         /\ SwapLike(Swap!Goto(Swap!Warned(Swap!Recall(run, mem)), to), to, mem)
  BY DEF SwapLike, SwapRuns, Swap!Goto, Swap!Recall, Swap!Warned

LEMMA SwapVerdict ==
  ASSUME run \in SwapRuns, NEW to \in SwapPlaces, NEW mem \in SwapMems, NEW b \in BOOLEAN
  PROVE  SwapLike(Swap!Goto(Swap!Recall([run EXCEPT !.warn = b], mem), to), to, mem)
  BY DEF SwapLike, SwapRuns, Swap!Goto, Swap!Recall

LEMMA SwapDoes ==
  ASSUME left \in Lefts, NEW from, NEW to, NEW mem, NEW r, SwapLike(r, to, mem), NEW m,
         Swap!Do(from, m, r)
  PROVE  SwapRunTypes /\ SwapMoves(from, to, mem) /\ sys' = m
  BY DEF SwapLike, Swap!Do, SwapMoves, SwapRunTypes

LEMMA SwapFaults ==
  ASSUME left \in Lefts, NEW from, NEW to, NEW mem, NEW r, SwapLike(r, to, mem),
         Swap!Fault(from, r)
  PROVE  SwapRunTypes /\ SwapBreaks(from, to, mem)
<1>1. left' \in Lefts /\ run.pc = from /\ run' = [r EXCEPT !.hurt = TRUE]
  BY FaultSpends DEF Swap!Fault, Swap!FaultLeaving
<1>2. run' \in SwapRuns /\ run'.pc = to /\ run'.hurt /\ run'.mem = mem
  BY <1>1 DEF SwapLike, SwapRuns
<1> QED
  BY <1>1, <1>2 DEF SwapRunTypes, SwapBreaks

LEMMA SwapTarget ==
  ASSUME sys.file \in SwapFiles, sys.ram \in RamTerms
  PROVE  Swap!Target \in 0..Disk
<1> DEFINE room == (Disk - sys.file.size) \div 2
<1>1. sys.file.size \in 0..Disk /\ sys.ram \in Nat /\ Disk \in Nat
  BY SizesAreCounts DEF SwapFiles
<1>2. room \in 0..Disk
  BY <1>1
<1>3. Swap!Target = IF sys.ram <= room THEN sys.ram ELSE room
  BY DEF Swap!Target, Swap!Smaller
<1> HIDE DEF room
<1> QED
  BY <1>1, <1>2, <1>3

\* what the end of a unit's program leaves of the machine
LEMMA SwapUnitLeaves ==
  ASSUME sys \in SwapMachines, NEW active \in {"no", "due", "yes"}
  PROVE  /\ Swap!UnitLeft(active) \in SwapMachines
         /\ Swap!UnitLeft(active).file = sys.file /\ Swap!UnitLeft(active).on = sys.on
         /\ Swap!UnitLeft(active).grub = sys.grub /\ Swap!UnitLeft(active).menu = sys.menu
         /\ Swap!UnitLeft(active).image = sys.image
         /\ Swap!UnitLeft(active).snapshot = sys.snapshot
<1>1. [sys.dep EXCEPT !.active = active] \in SwapDeps
  BY DEF SwapMachines, SwapDeps
<1> QED
  BY <1>1 DEF Swap!UnitLeft, SwapMachines

LEMMA SwapInstallToolsKeeps == SwapInv /\ Swap!InstallTools => SwapInv'
<1> SUFFICES ASSUME SwapInv, Swap!InstallTools PROVE SwapInv'
  OBVIOUS
<1>1. SwapTypes
  BY DEF SwapInv
<1>2. /\ SwapRunTypes
      /\ \/ SwapMoves("packages", "foreign_off", run.mem)
         \/ SwapBreaks("packages", "foreign_off", run.mem)
         \/ SwapBreaks("packages", "end", run.mem)
  <2>1. ASSUME Swap!Do("packages", sys, Swap!Goto(run, "foreign_off"))
        PROVE  SwapRunTypes /\ SwapMoves("packages", "foreign_off", run.mem)
    BY <2>1, <1>1, SwapValues, SwapDoes, SwapPlaceNames DEF SwapTypes
  <2>2. ASSUME Swap!Fault("packages", Swap!Goto(Swap!Warned(run), "foreign_off"))
        PROVE  SwapRunTypes /\ SwapBreaks("packages", "foreign_off", run.mem)
    BY <2>2, <1>1, SwapValues, SwapFaults, SwapPlaceNames DEF SwapTypes
  <2>3. ASSUME Swap!Fault("packages", Swap!Goto(Swap!Warned(run), "end"))
        PROVE  SwapRunTypes /\ SwapBreaks("packages", "end", run.mem)
    BY <2>3, <1>1, SwapValues, SwapFaults, SwapPlaceNames DEF SwapTypes
  <2> QED
    BY <2>1, <2>2, <2>3 DEF Swap!InstallTools
<1>3. sys' = sys
  BY <1>1 DEF Swap!InstallTools, SwapTypes, Swap!Do, Swap!Fault, Swap!FaultLeaving
<1>4. SwapTypes'
  BY <1>1, <1>2, <1>3 DEF SwapTypes, SwapRunTypes
<1>5. SwapCallerInv'
  BY <1>2, <1>3 DEF SwapInv, SwapCallerInv, SwapBefore, SwapAfter, SwapMoves, SwapBreaks
<1>6. SwapOffInv'
  BY <1>2, <1>3 DEF SwapInv, SwapOffInv, SwapMoves, SwapBreaks
<1>7. SwapOffsetInv'
  BY <1>2, <1>3
     DEF SwapInv, SwapOffsetInv, SwapCallerInv, SwapBefore, SwapFilling, SwapPublishing,
         SwapMoves, SwapBreaks
<1>8. SwapClaimInv'
  BY <1>2, <1>3
     DEF SwapInv, SwapClaimInv, SwapCallerInv, SwapOffsetInv, SwapAgreed, SwapBefore,
         SwapAfter, SwapPublishing, SwapMoves, SwapBreaks
<1>9. SwapUnitInv'
  BY <1>2, <1>3
     DEF SwapInv, SwapUnitInv, SwapCallerInv, SwapOffsetInv, SwapClaimInv, SwapAgreed,
         SwapBefore, SwapAfter, SwapPublishing, SwapMoves, SwapBreaks
<1> QED
  BY <1>4, <1>5, <1>6, <1>7, <1>8, <1>9 DEF SwapInv

LEMMA SwapSwitchOffForeignKeeps == SwapInv /\ Swap!SwitchOffForeign => SwapInv'
<1> SUFFICES ASSUME SwapInv, Swap!SwitchOffForeign PROVE SwapInv'
  OBVIOUS
<1>1. SwapTypes
  BY DEF SwapInv
<1>2. ("on" \in sys.foreign) \in BOOLEAN
  BY <1>1 DEF SwapTypes, SwapMachines
<1>3. /\ [sys EXCEPT !.foreign = @ \ {"on"}] \in SwapMachines
      /\ [sys EXCEPT !.foreign = @ \ {"on"}].file = sys.file
      /\ [sys EXCEPT !.foreign = @ \ {"on"}].on = sys.on
      /\ [sys EXCEPT !.foreign = @ \ {"on"}].grub = sys.grub
      /\ [sys EXCEPT !.foreign = @ \ {"on"}].menu = sys.menu
      /\ [sys EXCEPT !.foreign = @ \ {"on"}].image = sys.image
      /\ [sys EXCEPT !.foreign = @ \ {"on"}].snapshot = sys.snapshot
  BY <1>1 DEF SwapTypes, SwapMachines
<1>4. /\ SwapRunTypes
      /\ \/ SwapMoves("foreign_off", "foreign_file", run.mem)
         \/ SwapBreaks("foreign_off", "foreign_file", run.mem)
  <2>1. ASSUME Swap!Do("foreign_off", [sys EXCEPT !.foreign = @ \ {"on"}],
                 Swap!Goto(Swap!Noted(run, "on" \in sys.foreign), "foreign_file"))
        PROVE  SwapRunTypes /\ SwapMoves("foreign_off", "foreign_file", run.mem)
    BY <2>1, <1>1, <1>2, <1>3, SwapNotedValues, SwapDoes, SwapPlaceNames DEF SwapTypes
  <2>2. ASSUME Swap!Fault("foreign_off", Swap!Goto(Swap!Warned(run), "foreign_file"))
        PROVE  SwapRunTypes /\ SwapBreaks("foreign_off", "foreign_file", run.mem)
    BY <2>2, <1>1, <1>2, <1>3, SwapValues, SwapFaults, SwapPlaceNames DEF SwapTypes
  <2> QED
    BY <2>1, <2>2, <1>2, <1>3 DEF Swap!SwitchOffForeign
<1>5. /\ sys' \in SwapMachines
      /\ SwapDiskSame /\ SwapBootSame /\ SwapHereSame
  BY <1>1, <1>2, <1>3
     DEF Swap!SwitchOffForeign, SwapTypes, Swap!Do, Swap!Fault, Swap!FaultLeaving,
         SwapDiskSame, SwapBootSame, SwapHereSame
<1>6. SwapTypes'
  BY <1>1, <1>4, <1>5 DEF SwapTypes, SwapRunTypes
<1>7. SwapCallerInv'
  BY <1>2, <1>3, <1>4, <1>5
     DEF SwapInv, SwapCallerInv, SwapBefore, SwapAfter, SwapMoves, SwapBreaks, SwapDiskSame,
         SwapBootSame, SwapHereSame
<1>8. SwapOffInv'
  BY <1>2, <1>3, <1>4, <1>5
     DEF SwapInv, SwapOffInv, SwapMoves, SwapBreaks, SwapDiskSame, SwapBootSame,
         SwapHereSame
<1>9. SwapOffsetInv'
  BY <1>2, <1>3, <1>4, <1>5
     DEF SwapInv, SwapOffsetInv, SwapCallerInv, SwapBefore, SwapFilling, SwapPublishing,
         SwapMoves, SwapBreaks, SwapDiskSame, SwapBootSame, SwapHereSame
<1>10. SwapClaimInv'
  BY <1>2, <1>3, <1>4, <1>5
     DEF SwapInv, SwapClaimInv, SwapCallerInv, SwapOffsetInv, SwapAgreed, SwapBefore,
         SwapAfter, SwapPublishing, SwapMoves, SwapBreaks, SwapDiskSame, SwapBootSame,
         SwapHereSame
<1>11. SwapUnitInv'
  BY <1>2, <1>3, <1>4, <1>5
     DEF SwapInv, SwapUnitInv, SwapCallerInv, SwapOffsetInv, SwapClaimInv, SwapAgreed,
         SwapBefore, SwapAfter, SwapPublishing, SwapMoves, SwapBreaks, SwapDiskSame,
         SwapBootSame, SwapHereSame
<1> QED
  BY <1>6, <1>7, <1>8, <1>9, <1>10, <1>11 DEF SwapInv

LEMMA SwapDeleteForeignKeeps == SwapInv /\ Swap!DeleteForeign => SwapInv'
<1> SUFFICES ASSUME SwapInv, Swap!DeleteForeign PROVE SwapInv'
  OBVIOUS
<1>1. SwapTypes
  BY DEF SwapInv
<1>2. ("file" \in sys.foreign) \in BOOLEAN
  BY <1>1 DEF SwapTypes, SwapMachines
<1>3. /\ [sys EXCEPT !.foreign = @ \ {"file"}] \in SwapMachines
      /\ [sys EXCEPT !.foreign = @ \ {"file"}].file = sys.file
      /\ [sys EXCEPT !.foreign = @ \ {"file"}].on = sys.on
      /\ [sys EXCEPT !.foreign = @ \ {"file"}].grub = sys.grub
      /\ [sys EXCEPT !.foreign = @ \ {"file"}].menu = sys.menu
      /\ [sys EXCEPT !.foreign = @ \ {"file"}].image = sys.image
      /\ [sys EXCEPT !.foreign = @ \ {"file"}].snapshot = sys.snapshot
  BY <1>1 DEF SwapTypes, SwapMachines
<1>4. /\ SwapRunTypes
      /\ \/ SwapMoves("foreign_file", "foreign_fstab", run.mem)
  <2>1. ASSUME Swap!Do("foreign_file", [sys EXCEPT !.foreign = @ \ {"file"}],
                 Swap!Goto(Swap!Noted(run, "file" \in sys.foreign), "foreign_fstab"))
        PROVE  SwapRunTypes /\ SwapMoves("foreign_file", "foreign_fstab", run.mem)
    BY <2>1, <1>1, <1>2, <1>3, SwapNotedValues, SwapDoes, SwapPlaceNames DEF SwapTypes
  <2>2. ASSUME Swap!Do("foreign_file", sys, Swap!Goto(Swap!Warned(run), "foreign_fstab"))
        PROVE  SwapRunTypes /\ SwapMoves("foreign_file", "foreign_fstab", run.mem)
    BY <2>2, <1>1, <1>2, <1>3, SwapValues, SwapDoes, SwapPlaceNames DEF SwapTypes
  <2> QED
    BY <2>1, <2>2, <1>2, <1>3 DEF Swap!DeleteForeign
<1>5. /\ sys' \in SwapMachines
      /\ SwapDiskSame /\ SwapBootSame /\ SwapHereSame
  BY <1>1, <1>2, <1>3
     DEF Swap!DeleteForeign, SwapTypes, Swap!Do, Swap!Fault, Swap!FaultLeaving,
         SwapDiskSame, SwapBootSame, SwapHereSame
<1>6. SwapTypes'
  BY <1>1, <1>4, <1>5 DEF SwapTypes, SwapRunTypes
<1>7. SwapCallerInv'
  BY <1>2, <1>3, <1>4, <1>5
     DEF SwapInv, SwapCallerInv, SwapBefore, SwapAfter, SwapMoves, SwapDiskSame,
         SwapBootSame, SwapHereSame
<1>8. SwapOffInv'
  BY <1>2, <1>3, <1>4, <1>5
     DEF SwapInv, SwapOffInv, SwapMoves, SwapDiskSame, SwapBootSame, SwapHereSame
<1>9. SwapOffsetInv'
  BY <1>2, <1>3, <1>4, <1>5
     DEF SwapInv, SwapOffsetInv, SwapCallerInv, SwapBefore, SwapFilling, SwapPublishing,
         SwapMoves, SwapDiskSame, SwapBootSame, SwapHereSame
<1>10. SwapClaimInv'
  BY <1>2, <1>3, <1>4, <1>5
     DEF SwapInv, SwapClaimInv, SwapCallerInv, SwapOffsetInv, SwapAgreed, SwapBefore,
         SwapAfter, SwapPublishing, SwapMoves, SwapDiskSame, SwapBootSame, SwapHereSame
<1>11. SwapUnitInv'
  BY <1>2, <1>3, <1>4, <1>5
     DEF SwapInv, SwapUnitInv, SwapCallerInv, SwapOffsetInv, SwapClaimInv, SwapAgreed,
         SwapBefore, SwapAfter, SwapPublishing, SwapMoves, SwapDiskSame, SwapBootSame,
         SwapHereSame
<1> QED
  BY <1>6, <1>7, <1>8, <1>9, <1>10, <1>11 DEF SwapInv

LEMMA SwapForgetForeignKeeps == SwapInv /\ Swap!ForgetForeign => SwapInv'
<1> SUFFICES ASSUME SwapInv, Swap!ForgetForeign PROVE SwapInv'
  OBVIOUS
<1>1. SwapTypes
  BY DEF SwapInv
<1>2. ("fstab" \in sys.foreign) \in BOOLEAN
  BY <1>1 DEF SwapTypes, SwapMachines
<1>3. /\ [sys EXCEPT !.foreign = @ \ {"fstab"}] \in SwapMachines
      /\ [sys EXCEPT !.foreign = @ \ {"fstab"}].file = sys.file
      /\ [sys EXCEPT !.foreign = @ \ {"fstab"}].on = sys.on
      /\ [sys EXCEPT !.foreign = @ \ {"fstab"}].grub = sys.grub
      /\ [sys EXCEPT !.foreign = @ \ {"fstab"}].menu = sys.menu
      /\ [sys EXCEPT !.foreign = @ \ {"fstab"}].image = sys.image
      /\ [sys EXCEPT !.foreign = @ \ {"fstab"}].snapshot = sys.snapshot
  BY <1>1 DEF SwapTypes, SwapMachines
<1>4. /\ SwapRunTypes
      /\ \/ SwapMoves("foreign_fstab", "device", run.mem)
         \/ SwapBreaks("foreign_fstab", "device", run.mem)
  <2>1. ASSUME Swap!Do("foreign_fstab", [sys EXCEPT !.foreign = @ \ {"fstab"}],
                 Swap!Goto(Swap!Noted(run, "fstab" \in sys.foreign), "device"))
        PROVE  SwapRunTypes /\ SwapMoves("foreign_fstab", "device", run.mem)
    BY <2>1, <1>1, <1>2, <1>3, SwapNotedValues, SwapDoes, SwapPlaceNames DEF SwapTypes
  <2>2. ASSUME Swap!Fault("foreign_fstab", Swap!Goto(Swap!Warned(run), "device"))
        PROVE  SwapRunTypes /\ SwapBreaks("foreign_fstab", "device", run.mem)
    BY <2>2, <1>1, <1>2, <1>3, SwapValues, SwapFaults, SwapPlaceNames DEF SwapTypes
  <2> QED
    BY <2>1, <2>2, <1>2, <1>3 DEF Swap!ForgetForeign
<1>5. /\ sys' \in SwapMachines
      /\ SwapDiskSame /\ SwapBootSame /\ SwapHereSame
  BY <1>1, <1>2, <1>3
     DEF Swap!ForgetForeign, SwapTypes, Swap!Do, Swap!Fault, Swap!FaultLeaving,
         SwapDiskSame, SwapBootSame, SwapHereSame
<1>6. SwapTypes'
  BY <1>1, <1>4, <1>5 DEF SwapTypes, SwapRunTypes
<1>7. SwapCallerInv'
  BY <1>2, <1>3, <1>4, <1>5
     DEF SwapInv, SwapCallerInv, SwapBefore, SwapAfter, SwapMoves, SwapBreaks, SwapDiskSame,
         SwapBootSame, SwapHereSame
<1>8. SwapOffInv'
  BY <1>2, <1>3, <1>4, <1>5
     DEF SwapInv, SwapOffInv, SwapMoves, SwapBreaks, SwapDiskSame, SwapBootSame,
         SwapHereSame
<1>9. SwapOffsetInv'
  BY <1>2, <1>3, <1>4, <1>5
     DEF SwapInv, SwapOffsetInv, SwapCallerInv, SwapBefore, SwapFilling, SwapPublishing,
         SwapMoves, SwapBreaks, SwapDiskSame, SwapBootSame, SwapHereSame
<1>10. SwapClaimInv'
  BY <1>2, <1>3, <1>4, <1>5
     DEF SwapInv, SwapClaimInv, SwapCallerInv, SwapOffsetInv, SwapAgreed, SwapBefore,
         SwapAfter, SwapPublishing, SwapMoves, SwapBreaks, SwapDiskSame, SwapBootSame,
         SwapHereSame
<1>11. SwapUnitInv'
  BY <1>2, <1>3, <1>4, <1>5
     DEF SwapInv, SwapUnitInv, SwapCallerInv, SwapOffsetInv, SwapClaimInv, SwapAgreed,
         SwapBefore, SwapAfter, SwapPublishing, SwapMoves, SwapBreaks, SwapDiskSame,
         SwapBootSame, SwapHereSame
<1> QED
  BY <1>6, <1>7, <1>8, <1>9, <1>10, <1>11 DEF SwapInv

LEMMA SwapReadDeviceKeeps == SwapInv /\ Swap!ReadDevice => SwapInv'
<1> SUFFICES ASSUME SwapInv, Swap!ReadDevice PROVE SwapInv'
  OBVIOUS
<1>1. SwapTypes
  BY DEF SwapInv
<1>2. /\ [run.mem EXCEPT !["device"] = TRUE] \in SwapMems
      /\ [run.mem EXCEPT !["device"] = TRUE].offset = run.mem.offset
      /\ [run.mem EXCEPT !["device"] = TRUE].pwarn = run.mem.pwarn
      /\ [run.mem EXCEPT !["device"] = TRUE].pub = run.mem.pub
      /\ [run.mem EXCEPT !["device"] = TRUE].by = run.mem.by
      /\ [run.mem EXCEPT !["device"] = TRUE].claim = run.mem.claim
  BY <1>1 DEF SwapTypes, SwapRuns, SwapMems
<1>3. /\ SwapRunTypes
      /\ \/ SwapMoves("device", "program", [run.mem EXCEPT !["device"] = TRUE])
         \/ SwapBreaks("device", "program", run.mem)
  <2>1. ASSUME Swap!Do("device", sys, Swap!Goto(Swap!Mem(run, "device", TRUE), "program"))
        PROVE  SwapRunTypes
                 /\ SwapMoves("device", "program", [run.mem EXCEPT !["device"] = TRUE])
    BY <2>1, <1>1, <1>2, SwapMemValues, SwapDoes, SwapPlaceNames DEF SwapTypes, Swap!Mem
  <2>2. ASSUME Swap!Fault("device", Swap!Goto(Swap!Warned(run), "program"))
        PROVE  SwapRunTypes /\ SwapBreaks("device", "program", run.mem)
    BY <2>2, <1>1, <1>2, SwapValues, SwapFaults, SwapPlaceNames DEF SwapTypes
  <2> QED
    BY <2>1, <2>2, <1>2 DEF Swap!ReadDevice
<1>4. sys' = sys
  BY <1>1, <1>2 DEF Swap!ReadDevice, SwapTypes, Swap!Do, Swap!Fault, Swap!FaultLeaving
<1>5. SwapTypes'
  BY <1>1, <1>3, <1>4 DEF SwapTypes, SwapRunTypes
<1>6. SwapCallerInv'
  BY <1>2, <1>3, <1>4
     DEF SwapInv, SwapCallerInv, SwapBefore, SwapAfter, SwapMoves, SwapBreaks
<1>7. SwapOffInv'
  BY <1>2, <1>3, <1>4 DEF SwapInv, SwapOffInv, SwapMoves, SwapBreaks
<1>8. SwapOffsetInv'
  BY <1>2, <1>3, <1>4
     DEF SwapInv, SwapOffsetInv, SwapCallerInv, SwapBefore, SwapFilling, SwapPublishing,
         SwapMoves, SwapBreaks
<1>9. SwapClaimInv'
  BY <1>2, <1>3, <1>4
     DEF SwapInv, SwapClaimInv, SwapCallerInv, SwapOffsetInv, SwapAgreed, SwapBefore,
         SwapAfter, SwapPublishing, SwapMoves, SwapBreaks
<1>10. SwapUnitInv'
  BY <1>2, <1>3, <1>4
     DEF SwapInv, SwapUnitInv, SwapCallerInv, SwapOffsetInv, SwapClaimInv, SwapAgreed,
         SwapBefore, SwapAfter, SwapPublishing, SwapMoves, SwapBreaks
<1> QED
  BY <1>5, <1>6, <1>7, <1>8, <1>9, <1>10 DEF SwapInv

LEMMA SwapDeployProgramKeeps ==
  SwapInv /\ Swap!DeployProgram("program", "mode", "unit", "end") => SwapInv'
<1> SUFFICES ASSUME SwapInv, Swap!DeployProgram("program", "mode", "unit", "end")
             PROVE SwapInv'
  OBVIOUS
<1>1. SwapTypes
  BY DEF SwapInv
<1>2. [sys.dep EXCEPT !.prog = TRUE, !.exec = FALSE] \in SwapDeps
  BY <1>1 DEF SwapTypes, SwapMachines, SwapDeps
<1>3. /\ [sys EXCEPT !.dep.prog = TRUE, !.dep.exec = FALSE] \in SwapMachines
      /\ [sys EXCEPT !.dep.prog = TRUE, !.dep.exec = FALSE].file = sys.file
      /\ [sys EXCEPT !.dep.prog = TRUE, !.dep.exec = FALSE].on = sys.on
      /\ [sys EXCEPT !.dep.prog = TRUE, !.dep.exec = FALSE].grub = sys.grub
      /\ [sys EXCEPT !.dep.prog = TRUE, !.dep.exec = FALSE].menu = sys.menu
      /\ [sys EXCEPT !.dep.prog = TRUE, !.dep.exec = FALSE].image = sys.image
      /\ [sys EXCEPT !.dep.prog = TRUE, !.dep.exec = FALSE].snapshot = sys.snapshot
  BY <1>1, <1>2 DEF SwapTypes, SwapMachines
<1>4. /\ SwapRunTypes
      /\ \/ SwapMoves("program", "unit", run.mem)
         \/ SwapMoves("program", "mode", run.mem)
         \/ SwapBreaks("program", "end", run.mem)
  <2>1. ASSUME Swap!Do("program", sys, Swap!Goto(run, "unit"))
        PROVE  SwapRunTypes /\ SwapMoves("program", "unit", run.mem)
    BY <2>1, <1>1, <1>2, <1>3, SwapValues, SwapDoes, SwapPlaceNames DEF SwapTypes
  <2>2. ASSUME Swap!Do("program", [sys EXCEPT !.dep.prog = TRUE, !.dep.exec = FALSE],
                 Swap!Goto(run, "mode"))
        PROVE  SwapRunTypes /\ SwapMoves("program", "mode", run.mem)
    BY <2>2, <1>1, <1>2, <1>3, SwapValues, SwapDoes, SwapPlaceNames DEF SwapTypes
  <2>3. ASSUME Swap!Fault("program", Swap!Goto(Swap!Warned(run), "end"))
        PROVE  SwapRunTypes /\ SwapBreaks("program", "end", run.mem)
    BY <2>3, <1>1, <1>2, <1>3, SwapValues, SwapFaults, SwapPlaceNames DEF SwapTypes
  <2> QED
    BY <2>1, <2>2, <2>3, <1>2, <1>3 DEF Swap!DeployProgram
<1>5. /\ sys' \in SwapMachines
      /\ SwapDiskSame /\ SwapBootSame /\ SwapHereSame
  BY <1>1, <1>2, <1>3
     DEF Swap!DeployProgram, SwapTypes, Swap!Do, Swap!Fault, Swap!FaultLeaving,
         SwapDiskSame, SwapBootSame, SwapHereSame
<1>6. SwapTypes'
  BY <1>1, <1>4, <1>5 DEF SwapTypes, SwapRunTypes
<1>7. SwapCallerInv'
  BY <1>2, <1>3, <1>4, <1>5
     DEF SwapInv, SwapCallerInv, SwapBefore, SwapAfter, SwapMoves, SwapBreaks, SwapDiskSame,
         SwapBootSame, SwapHereSame
<1>8. SwapOffInv'
  BY <1>2, <1>3, <1>4, <1>5
     DEF SwapInv, SwapOffInv, SwapMoves, SwapBreaks, SwapDiskSame, SwapBootSame,
         SwapHereSame
<1>9. SwapOffsetInv'
  BY <1>2, <1>3, <1>4, <1>5
     DEF SwapInv, SwapOffsetInv, SwapCallerInv, SwapBefore, SwapFilling, SwapPublishing,
         SwapMoves, SwapBreaks, SwapDiskSame, SwapBootSame, SwapHereSame
<1>10. SwapClaimInv'
  BY <1>2, <1>3, <1>4, <1>5
     DEF SwapInv, SwapClaimInv, SwapCallerInv, SwapOffsetInv, SwapAgreed, SwapBefore,
         SwapAfter, SwapPublishing, SwapMoves, SwapBreaks, SwapDiskSame, SwapBootSame,
         SwapHereSame
<1>11. SwapUnitInv'
  BY <1>2, <1>3, <1>4, <1>5
     DEF SwapInv, SwapUnitInv, SwapCallerInv, SwapOffsetInv, SwapClaimInv, SwapAgreed,
         SwapBefore, SwapAfter, SwapPublishing, SwapMoves, SwapBreaks, SwapDiskSame,
         SwapBootSame, SwapHereSame
<1> QED
  BY <1>6, <1>7, <1>8, <1>9, <1>10, <1>11 DEF SwapInv

LEMMA SwapSetProgramModeKeeps ==
  SwapInv /\ Swap!SetProgramMode("mode", "unit", "end") => SwapInv'
<1> SUFFICES ASSUME SwapInv, Swap!SetProgramMode("mode", "unit", "end") PROVE SwapInv'
  OBVIOUS
<1>1. SwapTypes
  BY DEF SwapInv
<1>2. [sys.dep EXCEPT !.exec = TRUE] \in SwapDeps
  BY <1>1 DEF SwapTypes, SwapMachines, SwapDeps
<1>3. /\ [sys EXCEPT !.dep.exec = TRUE] \in SwapMachines
      /\ [sys EXCEPT !.dep.exec = TRUE].file = sys.file
      /\ [sys EXCEPT !.dep.exec = TRUE].on = sys.on
      /\ [sys EXCEPT !.dep.exec = TRUE].grub = sys.grub
      /\ [sys EXCEPT !.dep.exec = TRUE].menu = sys.menu
      /\ [sys EXCEPT !.dep.exec = TRUE].image = sys.image
      /\ [sys EXCEPT !.dep.exec = TRUE].snapshot = sys.snapshot
  BY <1>1, <1>2 DEF SwapTypes, SwapMachines
<1>4. /\ SwapRunTypes
      /\ \/ SwapMoves("mode", "unit", run.mem)
         \/ SwapBreaks("mode", "end", run.mem)
  <2>1. ASSUME Swap!Do("mode", [sys EXCEPT !.dep.exec = TRUE],
                 Swap!Goto(Swap!Changed(run), "unit"))
        PROVE  SwapRunTypes /\ SwapMoves("mode", "unit", run.mem)
    BY <2>1, <1>1, <1>2, <1>3, SwapValues, SwapDoes, SwapPlaceNames DEF SwapTypes
  <2>2. ASSUME Swap!Fault("mode", Swap!Goto(Swap!Warned(run), "end"))
        PROVE  SwapRunTypes /\ SwapBreaks("mode", "end", run.mem)
    BY <2>2, <1>1, <1>2, <1>3, SwapValues, SwapFaults, SwapPlaceNames DEF SwapTypes
  <2> QED
    BY <2>1, <2>2, <1>2, <1>3 DEF Swap!SetProgramMode
<1>5. /\ sys' \in SwapMachines
      /\ SwapDiskSame /\ SwapBootSame /\ SwapHereSame
  BY <1>1, <1>2, <1>3
     DEF Swap!SetProgramMode, SwapTypes, Swap!Do, Swap!Fault, Swap!FaultLeaving,
         SwapDiskSame, SwapBootSame, SwapHereSame
<1>6. SwapTypes'
  BY <1>1, <1>4, <1>5 DEF SwapTypes, SwapRunTypes
<1>7. SwapCallerInv'
  BY <1>2, <1>3, <1>4, <1>5
     DEF SwapInv, SwapCallerInv, SwapBefore, SwapAfter, SwapMoves, SwapBreaks, SwapDiskSame,
         SwapBootSame, SwapHereSame
<1>8. SwapOffInv'
  BY <1>2, <1>3, <1>4, <1>5
     DEF SwapInv, SwapOffInv, SwapMoves, SwapBreaks, SwapDiskSame, SwapBootSame,
         SwapHereSame
<1>9. SwapOffsetInv'
  BY <1>2, <1>3, <1>4, <1>5
     DEF SwapInv, SwapOffsetInv, SwapCallerInv, SwapBefore, SwapFilling, SwapPublishing,
         SwapMoves, SwapBreaks, SwapDiskSame, SwapBootSame, SwapHereSame
<1>10. SwapClaimInv'
  BY <1>2, <1>3, <1>4, <1>5
     DEF SwapInv, SwapClaimInv, SwapCallerInv, SwapOffsetInv, SwapAgreed, SwapBefore,
         SwapAfter, SwapPublishing, SwapMoves, SwapBreaks, SwapDiskSame, SwapBootSame,
         SwapHereSame
<1>11. SwapUnitInv'
  BY <1>2, <1>3, <1>4, <1>5
     DEF SwapInv, SwapUnitInv, SwapCallerInv, SwapOffsetInv, SwapClaimInv, SwapAgreed,
         SwapBefore, SwapAfter, SwapPublishing, SwapMoves, SwapBreaks, SwapDiskSame,
         SwapBootSame, SwapHereSame
<1> QED
  BY <1>6, <1>7, <1>8, <1>9, <1>10, <1>11 DEF SwapInv

LEMMA SwapWriteUnitKeeps ==
  SwapInv /\ Swap!WriteUnit("unit", Swap!Content, "reload", "enable", "enable") => SwapInv'
<1> SUFFICES ASSUME SwapInv, Swap!WriteUnit("unit", Swap!Content, "reload", "enable",
                      "enable")
             PROVE SwapInv'
  OBVIOUS
<1>1. SwapTypes
  BY DEF SwapInv
<1>2. Swap!Content \in SUBSET {"unit", "force", "device"}
  BY DEF Swap!Content
<1>3. [sys.dep EXCEPT !.unit = Swap!Content,
        !.loaded = IF @ = {} THEN Swap!Content ELSE @] \in SwapDeps
  BY <1>1, <1>2 DEF SwapTypes, SwapMachines, SwapDeps
<1>4. /\ [sys EXCEPT !.dep.unit = Swap!Content,
           !.dep.loaded = IF @ = {} THEN Swap!Content ELSE @] \in SwapMachines
      /\ [sys EXCEPT !.dep.unit = Swap!Content,
           !.dep.loaded = IF @ = {} THEN Swap!Content ELSE @].file = sys.file
      /\ [sys EXCEPT !.dep.unit = Swap!Content,
           !.dep.loaded = IF @ = {} THEN Swap!Content ELSE @].on = sys.on
      /\ [sys EXCEPT !.dep.unit = Swap!Content,
           !.dep.loaded = IF @ = {} THEN Swap!Content ELSE @].grub = sys.grub
      /\ [sys EXCEPT !.dep.unit = Swap!Content,
           !.dep.loaded = IF @ = {} THEN Swap!Content ELSE @].menu = sys.menu
      /\ [sys EXCEPT !.dep.unit = Swap!Content,
           !.dep.loaded = IF @ = {} THEN Swap!Content ELSE @].image = sys.image
      /\ [sys EXCEPT !.dep.unit = Swap!Content,
           !.dep.loaded = IF @ = {} THEN Swap!Content ELSE @].snapshot = sys.snapshot
  BY <1>1, <1>3 DEF SwapTypes, SwapMachines
<1>5. /\ SwapRunTypes
      /\ \/ SwapMoves("unit", "enable", run.mem)
         \/ SwapMoves("unit", "reload", run.mem)
         \/ SwapBreaks("unit", "enable", run.mem)
  <2>1. ASSUME Swap!Do("unit", sys, Swap!Goto(run, "enable"))
        PROVE  SwapRunTypes /\ SwapMoves("unit", "enable", run.mem)
    BY <2>1, <1>1, <1>2, <1>3, <1>4, SwapValues, SwapDoes, SwapPlaceNames DEF SwapTypes
  <2>2. ASSUME Swap!Do("unit", [sys EXCEPT !.dep.unit = Swap!Content,
                 !.dep.loaded = IF @ = {} THEN Swap!Content ELSE @],
                   Swap!Goto(Swap!Changed(run), "reload"))
        PROVE  SwapRunTypes /\ SwapMoves("unit", "reload", run.mem)
    BY <2>2, <1>1, <1>2, <1>3, <1>4, SwapValues, SwapDoes, SwapPlaceNames DEF SwapTypes
  <2>3. ASSUME Swap!Fault("unit", Swap!Goto(Swap!Warned(run), "enable"))
        PROVE  SwapRunTypes /\ SwapBreaks("unit", "enable", run.mem)
    BY <2>3, <1>1, <1>2, <1>3, <1>4, SwapValues, SwapFaults, SwapPlaceNames DEF SwapTypes
  <2> QED
    BY <2>1, <2>2, <2>3, <1>2, <1>3, <1>4 DEF Swap!WriteUnit
<1>6. /\ sys' \in SwapMachines
      /\ SwapDiskSame /\ SwapBootSame /\ SwapHereSame
  BY <1>1, <1>2, <1>3, <1>4
     DEF Swap!WriteUnit, SwapTypes, Swap!Do, Swap!Fault, Swap!FaultLeaving, SwapDiskSame,
         SwapBootSame, SwapHereSame
<1>7. SwapTypes'
  BY <1>1, <1>5, <1>6 DEF SwapTypes, SwapRunTypes
<1>8. SwapCallerInv'
  BY <1>2, <1>3, <1>4, <1>5, <1>6
     DEF SwapInv, SwapCallerInv, SwapBefore, SwapAfter, SwapMoves, SwapBreaks, SwapDiskSame,
         SwapBootSame, SwapHereSame
<1>9. SwapOffInv'
  BY <1>2, <1>3, <1>4, <1>5, <1>6
     DEF SwapInv, SwapOffInv, SwapMoves, SwapBreaks, SwapDiskSame, SwapBootSame,
         SwapHereSame
<1>10. SwapOffsetInv'
  BY <1>2, <1>3, <1>4, <1>5, <1>6
     DEF SwapInv, SwapOffsetInv, SwapCallerInv, SwapBefore, SwapFilling, SwapPublishing,
         SwapMoves, SwapBreaks, SwapDiskSame, SwapBootSame, SwapHereSame
<1>11. SwapClaimInv'
  BY <1>2, <1>3, <1>4, <1>5, <1>6
     DEF SwapInv, SwapClaimInv, SwapCallerInv, SwapOffsetInv, SwapAgreed, SwapBefore,
         SwapAfter, SwapPublishing, SwapMoves, SwapBreaks, SwapDiskSame, SwapBootSame,
         SwapHereSame
<1>12. SwapUnitInv'
  BY <1>2, <1>3, <1>4, <1>5, <1>6
     DEF SwapInv, SwapUnitInv, SwapCallerInv, SwapOffsetInv, SwapClaimInv, SwapAgreed,
         SwapBefore, SwapAfter, SwapPublishing, SwapMoves, SwapBreaks, SwapDiskSame,
         SwapBootSame, SwapHereSame
<1> QED
  BY <1>7, <1>8, <1>9, <1>10, <1>11, <1>12 DEF SwapInv

LEMMA SwapReloadSystemdKeeps == SwapInv /\ Swap!ReloadSystemd("reload", "enable") => SwapInv'
<1> SUFFICES ASSUME SwapInv, Swap!ReloadSystemd("reload", "enable") PROVE SwapInv'
  OBVIOUS
<1>1. SwapTypes
  BY DEF SwapInv
<1>2. [sys.dep EXCEPT !.loaded = sys.dep.unit] \in SwapDeps
  BY <1>1 DEF SwapTypes, SwapMachines, SwapDeps
<1>3. /\ [sys EXCEPT !.dep.loaded = sys.dep.unit] \in SwapMachines
      /\ [sys EXCEPT !.dep.loaded = sys.dep.unit].file = sys.file
      /\ [sys EXCEPT !.dep.loaded = sys.dep.unit].on = sys.on
      /\ [sys EXCEPT !.dep.loaded = sys.dep.unit].grub = sys.grub
      /\ [sys EXCEPT !.dep.loaded = sys.dep.unit].menu = sys.menu
      /\ [sys EXCEPT !.dep.loaded = sys.dep.unit].image = sys.image
      /\ [sys EXCEPT !.dep.loaded = sys.dep.unit].snapshot = sys.snapshot
  BY <1>1, <1>2 DEF SwapTypes, SwapMachines
<1>4. /\ SwapRunTypes
      /\ \/ SwapMoves("reload", "enable", run.mem)
         \/ SwapBreaks("reload", "enable", run.mem)
  <2>1. ASSUME Swap!Do("reload", [sys EXCEPT !.dep.loaded = sys.dep.unit],
                 Swap!Goto(run, "enable"))
        PROVE  SwapRunTypes /\ SwapMoves("reload", "enable", run.mem)
    BY <2>1, <1>1, <1>2, <1>3, SwapValues, SwapDoes, SwapPlaceNames DEF SwapTypes
  <2>2. ASSUME Swap!Fault("reload", Swap!Goto(Swap!Warned(run), "enable"))
        PROVE  SwapRunTypes /\ SwapBreaks("reload", "enable", run.mem)
    BY <2>2, <1>1, <1>2, <1>3, SwapValues, SwapFaults, SwapPlaceNames DEF SwapTypes
  <2> QED
    BY <2>1, <2>2, <1>2, <1>3 DEF Swap!ReloadSystemd
<1>5. /\ sys' \in SwapMachines
      /\ SwapDiskSame /\ SwapBootSame /\ SwapHereSame
  BY <1>1, <1>2, <1>3
     DEF Swap!ReloadSystemd, SwapTypes, Swap!Do, Swap!Fault, Swap!FaultLeaving,
         SwapDiskSame, SwapBootSame, SwapHereSame
<1>6. SwapTypes'
  BY <1>1, <1>4, <1>5 DEF SwapTypes, SwapRunTypes
<1>7. SwapCallerInv'
  BY <1>2, <1>3, <1>4, <1>5
     DEF SwapInv, SwapCallerInv, SwapBefore, SwapAfter, SwapMoves, SwapBreaks, SwapDiskSame,
         SwapBootSame, SwapHereSame
<1>8. SwapOffInv'
  BY <1>2, <1>3, <1>4, <1>5
     DEF SwapInv, SwapOffInv, SwapMoves, SwapBreaks, SwapDiskSame, SwapBootSame,
         SwapHereSame
<1>9. SwapOffsetInv'
  BY <1>2, <1>3, <1>4, <1>5
     DEF SwapInv, SwapOffsetInv, SwapCallerInv, SwapBefore, SwapFilling, SwapPublishing,
         SwapMoves, SwapBreaks, SwapDiskSame, SwapBootSame, SwapHereSame
<1>10. SwapClaimInv'
  BY <1>2, <1>3, <1>4, <1>5
     DEF SwapInv, SwapClaimInv, SwapCallerInv, SwapOffsetInv, SwapAgreed, SwapBefore,
         SwapAfter, SwapPublishing, SwapMoves, SwapBreaks, SwapDiskSame, SwapBootSame,
         SwapHereSame
<1>11. SwapUnitInv'
  BY <1>2, <1>3, <1>4, <1>5
     DEF SwapInv, SwapUnitInv, SwapCallerInv, SwapOffsetInv, SwapClaimInv, SwapAgreed,
         SwapBefore, SwapAfter, SwapPublishing, SwapMoves, SwapBreaks, SwapDiskSame,
         SwapBootSame, SwapHereSame
<1> QED
  BY <1>6, <1>7, <1>8, <1>9, <1>10, <1>11 DEF SwapInv

LEMMA SwapEnableUnitKeeps == SwapInv /\ Swap!EnableUnit("enable", "run") => SwapInv'
<1> SUFFICES ASSUME SwapInv, Swap!EnableUnit("enable", "run") PROVE SwapInv'
  OBVIOUS
<1>1. SwapTypes
  BY DEF SwapInv
<1>2. [sys.dep EXCEPT !.enabled = TRUE, !.loaded = sys.dep.unit] \in SwapDeps
  BY <1>1 DEF SwapTypes, SwapMachines, SwapDeps
<1>3. /\ [sys EXCEPT !.dep.enabled = TRUE, !.dep.loaded = sys.dep.unit] \in SwapMachines
      /\ [sys EXCEPT !.dep.enabled = TRUE, !.dep.loaded = sys.dep.unit].file = sys.file
      /\ [sys EXCEPT !.dep.enabled = TRUE, !.dep.loaded = sys.dep.unit].on = sys.on
      /\ [sys EXCEPT !.dep.enabled = TRUE, !.dep.loaded = sys.dep.unit].grub = sys.grub
      /\ [sys EXCEPT !.dep.enabled = TRUE, !.dep.loaded = sys.dep.unit].menu = sys.menu
      /\ [sys EXCEPT !.dep.enabled = TRUE, !.dep.loaded = sys.dep.unit].image = sys.image
      /\ [sys EXCEPT !.dep.enabled = TRUE,
           !.dep.loaded = sys.dep.unit].snapshot = sys.snapshot
  BY <1>1, <1>2 DEF SwapTypes, SwapMachines
<1>4. /\ SwapRunTypes
      /\ \/ SwapMoves("enable", "run", run.mem)
         \/ SwapBreaks("enable", "run", run.mem)
  <2>1. ASSUME Swap!Do("enable", sys, Swap!Goto(run, "run"))
        PROVE  SwapRunTypes /\ SwapMoves("enable", "run", run.mem)
    BY <2>1, <1>1, <1>2, <1>3, SwapValues, SwapDoes, SwapPlaceNames DEF SwapTypes
  <2>2. ASSUME Swap!Do("enable", [sys EXCEPT !.dep.enabled = TRUE,
                 !.dep.loaded = sys.dep.unit], Swap!Goto(Swap!Changed(run), "run"))
        PROVE  SwapRunTypes /\ SwapMoves("enable", "run", run.mem)
    BY <2>2, <1>1, <1>2, <1>3, SwapValues, SwapDoes, SwapPlaceNames DEF SwapTypes
  <2>3. ASSUME Swap!Fault("enable", Swap!Goto(Swap!Warned(run), "run"))
        PROVE  SwapRunTypes /\ SwapBreaks("enable", "run", run.mem)
    BY <2>3, <1>1, <1>2, <1>3, SwapValues, SwapFaults, SwapPlaceNames DEF SwapTypes
  <2> QED
    BY <2>1, <2>2, <2>3, <1>2, <1>3 DEF Swap!EnableUnit
<1>5. /\ sys' \in SwapMachines
      /\ SwapDiskSame /\ SwapBootSame /\ SwapHereSame
  BY <1>1, <1>2, <1>3
     DEF Swap!EnableUnit, SwapTypes, Swap!Do, Swap!Fault, Swap!FaultLeaving, SwapDiskSame,
         SwapBootSame, SwapHereSame
<1>6. SwapTypes'
  BY <1>1, <1>4, <1>5 DEF SwapTypes, SwapRunTypes
<1>7. SwapCallerInv'
  BY <1>2, <1>3, <1>4, <1>5
     DEF SwapInv, SwapCallerInv, SwapBefore, SwapAfter, SwapMoves, SwapBreaks, SwapDiskSame,
         SwapBootSame, SwapHereSame
<1>8. SwapOffInv'
  BY <1>2, <1>3, <1>4, <1>5
     DEF SwapInv, SwapOffInv, SwapMoves, SwapBreaks, SwapDiskSame, SwapBootSame,
         SwapHereSame
<1>9. SwapOffsetInv'
  BY <1>2, <1>3, <1>4, <1>5
     DEF SwapInv, SwapOffsetInv, SwapCallerInv, SwapBefore, SwapFilling, SwapPublishing,
         SwapMoves, SwapBreaks, SwapDiskSame, SwapBootSame, SwapHereSame
<1>10. SwapClaimInv'
  BY <1>2, <1>3, <1>4, <1>5
     DEF SwapInv, SwapClaimInv, SwapCallerInv, SwapOffsetInv, SwapAgreed, SwapBefore,
         SwapAfter, SwapPublishing, SwapMoves, SwapBreaks, SwapDiskSame, SwapBootSame,
         SwapHereSame
<1>11. SwapUnitInv'
  BY <1>2, <1>3, <1>4, <1>5
     DEF SwapInv, SwapUnitInv, SwapCallerInv, SwapOffsetInv, SwapClaimInv, SwapAgreed,
         SwapBefore, SwapAfter, SwapPublishing, SwapMoves, SwapBreaks, SwapDiskSame,
         SwapBootSame, SwapHereSame
<1> QED
  BY <1>6, <1>7, <1>8, <1>9, <1>10, <1>11 DEF SwapInv

LEMMA SwapRunProgramKeeps == SwapInv /\ Swap!RunProgram => SwapInv'
<1> SUFFICES ASSUME SwapInv, Swap!RunProgram PROVE SwapInv'
  OBVIOUS
<1>1. SwapTypes
  BY DEF SwapInv
<1>2. /\ [run.mem EXCEPT !["before"] = sys.resume] \in SwapMems
      /\ [run.mem EXCEPT !["before"] = sys.resume].offset = run.mem.offset
      /\ [run.mem EXCEPT !["before"] = sys.resume].pwarn = run.mem.pwarn
      /\ [run.mem EXCEPT !["before"] = sys.resume].pub = run.mem.pub
      /\ [run.mem EXCEPT !["before"] = sys.resume].by = run.mem.by
      /\ [run.mem EXCEPT !["before"] = sys.resume].claim = run.mem.claim
  BY <1>1 DEF SwapTypes, SwapRuns, SwapMems, SwapMachines
<1>3. /\ SwapRunTypes
      /\ \/ SwapMoves("run", "size", [run.mem EXCEPT !["before"] = sys.resume])
         \/ SwapMoves("run", "image", [run.mem EXCEPT !["before"] = sys.resume])
  <2>1. ASSUME Swap!Do("run", sys, Swap!Goto(Swap!Mem(run, "before", sys.resume), "size"))
        PROVE  SwapRunTypes
                 /\ SwapMoves("run", "size", [run.mem EXCEPT !["before"] = sys.resume])
    BY <2>1, <1>1, <1>2, SwapMemValues, SwapDoes, SwapPlaceNames DEF SwapTypes, Swap!Mem
  <2>2. ASSUME Swap!Do("run", sys,
                 Swap!Goto(Swap!Warned(Swap!Mem(run, "before", sys.resume)), "image"))
        PROVE  SwapRunTypes
                 /\ SwapMoves("run", "image", [run.mem EXCEPT !["before"] = sys.resume])
    BY <2>2, <1>1, <1>2, SwapMemValues, SwapDoes, SwapPlaceNames DEF SwapTypes, Swap!Mem
  <2> QED
    BY <2>1, <2>2, <1>2 DEF Swap!RunProgram
<1>4. sys' = sys
  BY <1>1, <1>2 DEF Swap!RunProgram, SwapTypes, Swap!Do, Swap!Fault, Swap!FaultLeaving
<1>5. SwapTypes'
  BY <1>1, <1>3, <1>4 DEF SwapTypes, SwapRunTypes
<1>6. SwapCallerInv'
  BY <1>2, <1>3, <1>4 DEF SwapInv, SwapCallerInv, SwapBefore, SwapAfter, SwapMoves
<1>7. SwapOffInv'
  BY <1>2, <1>3, <1>4 DEF SwapInv, SwapOffInv, SwapMoves
<1>8. SwapOffsetInv'
  BY <1>2, <1>3, <1>4
     DEF SwapInv, SwapOffsetInv, SwapCallerInv, SwapBefore, SwapFilling, SwapPublishing,
         SwapMoves
<1>9. SwapClaimInv'
  BY <1>2, <1>3, <1>4
     DEF SwapInv, SwapClaimInv, SwapCallerInv, SwapOffsetInv, SwapAgreed, SwapBefore,
         SwapAfter, SwapPublishing, SwapMoves
<1>10. SwapUnitInv'
  BY <1>2, <1>3, <1>4
     DEF SwapInv, SwapUnitInv, SwapCallerInv, SwapOffsetInv, SwapClaimInv, SwapAgreed,
         SwapBefore, SwapAfter, SwapPublishing, SwapMoves
<1> QED
  BY <1>5, <1>6, <1>7, <1>8, <1>9, <1>10 DEF SwapInv

LEMMA SwapReadStateKeeps == SwapInv /\ Swap!ReadState => SwapInv'
<1> SUFFICES ASSUME SwapInv, Swap!ReadState PROVE SwapInv'
  OBVIOUS
<1>1. SwapTypes
  BY DEF SwapInv
<1>2. Swap!Target \in 0..Disk
  BY <1>1, SwapTarget DEF SwapTypes, SwapMachines
<1>3. /\ [run.mem EXCEPT !["target"] = Swap!Target] \in SwapMems
      /\ [run.mem EXCEPT !["target"] = Swap!Target].offset = run.mem.offset
      /\ [run.mem EXCEPT !["target"] = Swap!Target].pwarn = run.mem.pwarn
      /\ [run.mem EXCEPT !["target"] = Swap!Target].pub = run.mem.pub
      /\ [run.mem EXCEPT !["target"] = Swap!Target].by = run.mem.by
      /\ [run.mem EXCEPT !["target"] = Swap!Target].claim = run.mem.claim
  BY <1>1, <1>2 DEF SwapTypes, SwapRuns, SwapMems
<1>4. (IF sys.on THEN "offset" ELSE "swapon") \in {"offset", "swapon"}
  OBVIOUS
<1>5. /\ SwapRunTypes
      /\ \/ SwapMoves("size", IF sys.on THEN "offset" ELSE "swapon", run.mem)
         \/ SwapMoves("size", "probe", [run.mem EXCEPT !["target"] = Swap!Target])
         \/ SwapMoves("size", "failed", run.mem)
  <2>1. ASSUME Swap!SizeIsRight,
               Swap!Do("size", sys, Swap!Goto(run, IF sys.on THEN "offset" ELSE "swapon"))
        PROVE  SwapRunTypes
                 /\ SwapMoves("size", IF sys.on THEN "offset" ELSE "swapon", run.mem)
    BY <2>1, <1>1, <1>2, <1>3, <1>4, SwapValues, SwapDoes, SwapPlaceNames DEF SwapTypes
  <2>2. ASSUME Swap!Do("size", sys, Swap!Goto(Swap!Mem(run, "target", Swap!Target), "probe"))
        PROVE  SwapRunTypes
                 /\ SwapMoves("size", "probe", [run.mem EXCEPT !["target"] = Swap!Target])
    BY <2>2, <1>1, <1>2, <1>3, <1>4, SwapMemValues, SwapDoes, SwapPlaceNames
       DEF SwapTypes, Swap!Mem
  <2>3. ASSUME Swap!Do("size", sys, Swap!Goto(run, "failed"))
        PROVE  SwapRunTypes /\ SwapMoves("size", "failed", run.mem)
    BY <2>3, <1>1, <1>2, <1>3, <1>4, SwapValues, SwapDoes, SwapPlaceNames DEF SwapTypes
  <2> QED
    BY <2>1, <2>2, <2>3, <1>2, <1>3, <1>4 DEF Swap!ReadState
<1>6. sys' = sys
  BY <1>1, <1>2, <1>3, <1>4
     DEF Swap!ReadState, SwapTypes, Swap!Do, Swap!Fault, Swap!FaultLeaving
<1>7. SwapTypes'
  BY <1>1, <1>5, <1>6 DEF SwapTypes, SwapRunTypes
<1>8. SwapCallerInv'
  BY <1>2, <1>3, <1>4, <1>5, <1>6, ZenonT(60)
     DEF SwapInv, SwapCallerInv, SwapBefore, SwapAfter, SwapMoves
<1>9. SwapOffInv'
  BY <1>2, <1>3, <1>4, <1>5, <1>6 DEF SwapInv, SwapOffInv, SwapMoves
<1>10. SwapOffsetInv'
  BY <1>2, <1>3, <1>4, <1>5, <1>6
     DEF SwapInv, SwapOffsetInv, SwapCallerInv, SwapBefore, SwapFilling, SwapPublishing,
         SwapMoves
<1>11. SwapClaimInv'
  BY <1>2, <1>3, <1>4, <1>5, <1>6
     DEF SwapInv, SwapClaimInv, SwapCallerInv, SwapOffsetInv, SwapAgreed, SwapBefore,
         SwapAfter, SwapPublishing, SwapMoves
<1>12. SwapUnitInv'
  BY <1>2, <1>3, <1>4, <1>5, <1>6
     DEF SwapInv, SwapUnitInv, SwapCallerInv, SwapOffsetInv, SwapClaimInv, SwapAgreed,
         SwapBefore, SwapAfter, SwapPublishing, SwapMoves
<1> QED
  BY <1>7, <1>8, <1>9, <1>10, <1>11, <1>12 DEF SwapInv

LEMMA SwapProbeKeeps == SwapInv /\ Swap!Probe => SwapInv'
<1> SUFFICES ASSUME SwapInv, Swap!Probe PROVE SwapInv'
  OBVIOUS
<1>1. SwapTypes
  BY DEF SwapInv
<1>2. /\ [run.mem EXCEPT !["pwarn"] = TRUE] \in SwapMems
      /\ [run.mem EXCEPT !["pwarn"] = TRUE].offset = run.mem.offset
      /\ [run.mem EXCEPT !["pwarn"] = TRUE].pwarn = TRUE
      /\ [run.mem EXCEPT !["pwarn"] = TRUE].pub = run.mem.pub
      /\ [run.mem EXCEPT !["pwarn"] = TRUE].by = run.mem.by
      /\ [run.mem EXCEPT !["pwarn"] = TRUE].claim = run.mem.claim
  BY <1>1 DEF SwapTypes, SwapRuns, SwapMems
<1>3. (IF sys.on THEN "swapoff" ELSE "create") \in {"swapoff", "create"}
  OBVIOUS
<1>4. /\ SwapRunTypes
      /\ \/ SwapMoves("probe", IF sys.on THEN "swapoff" ELSE "create", run.mem)
         \/ SwapBreaks("probe", "done", [run.mem EXCEPT !["pwarn"] = TRUE])
  <2>1. ASSUME Swap!Do("probe", sys, Swap!Goto(run, IF sys.on THEN "swapoff" ELSE "create"))
        PROVE  SwapRunTypes
                 /\ SwapMoves("probe", IF sys.on THEN "swapoff" ELSE "create", run.mem)
    BY <2>1, <1>1, <1>2, <1>3, SwapValues, SwapDoes, SwapPlaceNames DEF SwapTypes
  <2>2. ASSUME Swap!Fault("probe", Swap!Goto(Swap!Mem(run, "pwarn", TRUE), "done"))
        PROVE  SwapRunTypes /\ SwapBreaks("probe", "done", [run.mem EXCEPT !["pwarn"] = TRUE])
    BY <2>2, <1>1, <1>2, <1>3, SwapMemValues, SwapFaults, SwapPlaceNames
       DEF SwapTypes, Swap!Mem
  <2> QED
    BY <2>1, <2>2, <1>2, <1>3 DEF Swap!Probe
<1>5. sys' = sys
  BY <1>1, <1>2, <1>3 DEF Swap!Probe, SwapTypes, Swap!Do, Swap!Fault, Swap!FaultLeaving
<1>6. SwapTypes'
  BY <1>1, <1>4, <1>5 DEF SwapTypes, SwapRunTypes
<1>7. SwapCallerInv'
  BY <1>2, <1>3, <1>4, <1>5
     DEF SwapInv, SwapCallerInv, SwapBefore, SwapAfter, SwapMoves, SwapBreaks
<1>8. SwapOffInv'
  BY <1>2, <1>3, <1>4, <1>5 DEF SwapInv, SwapOffInv, SwapMoves, SwapBreaks
<1>9. SwapOffsetInv'
  BY <1>2, <1>3, <1>4, <1>5
     DEF SwapInv, SwapOffsetInv, SwapCallerInv, SwapBefore, SwapFilling, SwapPublishing,
         SwapMoves, SwapBreaks
<1>10. SwapClaimInv'
  BY <1>2, <1>3, <1>4, <1>5
     DEF SwapInv, SwapClaimInv, SwapCallerInv, SwapOffsetInv, SwapAgreed, SwapBefore,
         SwapAfter, SwapPublishing, SwapMoves, SwapBreaks
<1>11. SwapUnitInv'
  BY <1>2, <1>3, <1>4, <1>5
     DEF SwapInv, SwapUnitInv, SwapCallerInv, SwapOffsetInv, SwapClaimInv, SwapAgreed,
         SwapBefore, SwapAfter, SwapPublishing, SwapMoves, SwapBreaks
<1> QED
  BY <1>6, <1>7, <1>8, <1>9, <1>10, <1>11 DEF SwapInv

LEMMA SwapSwapOffKeeps == SwapInv /\ Swap!SwapOff => SwapInv'
<1> SUFFICES ASSUME SwapInv, Swap!SwapOff PROVE SwapInv'
  OBVIOUS
<1>1. SwapTypes
  BY DEF SwapInv
<1>2. /\ [sys EXCEPT !.on = FALSE] \in SwapMachines
      /\ [sys EXCEPT !.on = FALSE].file = sys.file
      /\ [sys EXCEPT !.on = FALSE].on = FALSE
      /\ [sys EXCEPT !.on = FALSE].grub = sys.grub
      /\ [sys EXCEPT !.on = FALSE].menu = sys.menu
      /\ [sys EXCEPT !.on = FALSE].image = sys.image
      /\ [sys EXCEPT !.on = FALSE].snapshot = sys.snapshot
  BY <1>1 DEF SwapTypes, SwapMachines
<1>3. /\ SwapRunTypes
      /\ \/ SwapMoves("swapoff", "create", run.mem)
  <2>1. ASSUME Swap!Do("swapoff", [sys EXCEPT !.on = FALSE], Swap!Goto(run, "create"))
        PROVE  SwapRunTypes /\ SwapMoves("swapoff", "create", run.mem)
    BY <2>1, <1>1, <1>2, SwapValues, SwapDoes, SwapPlaceNames DEF SwapTypes
  <2> QED
    BY <2>1, <1>2 DEF Swap!SwapOff
<1>4. /\ sys' \in SwapMachines
      /\ sys'.file = sys.file /\ ~sys'.on /\ SwapBootSame /\ SwapHereSame
  BY <1>1, <1>2
     DEF Swap!SwapOff, SwapTypes, Swap!Do, Swap!Fault, Swap!FaultLeaving, SwapDiskSame,
         SwapBootSame, SwapHereSame
<1>5. SwapTypes'
  BY <1>1, <1>3, <1>4 DEF SwapTypes, SwapRunTypes
<1>6. SwapCallerInv'
  BY <1>2, <1>3, <1>4
     DEF SwapInv, SwapCallerInv, SwapBefore, SwapAfter, SwapMoves, SwapDiskSame,
         SwapBootSame, SwapHereSame
<1>7. SwapOffInv'
  BY <1>2, <1>3, <1>4
     DEF SwapInv, SwapOffInv, SwapMoves, SwapDiskSame, SwapBootSame, SwapHereSame
<1>8. SwapOffsetInv'
  BY <1>2, <1>3, <1>4
     DEF SwapInv, SwapOffsetInv, SwapCallerInv, SwapBefore, SwapFilling, SwapPublishing,
         SwapMoves, SwapDiskSame, SwapBootSame, SwapHereSame
<1>9. SwapClaimInv'
  BY <1>2, <1>3, <1>4
     DEF SwapInv, SwapClaimInv, SwapCallerInv, SwapOffsetInv, SwapAgreed, SwapBefore,
         SwapAfter, SwapPublishing, SwapMoves, SwapDiskSame, SwapBootSame, SwapHereSame
<1>10. SwapUnitInv'
  BY <1>2, <1>3, <1>4
     DEF SwapInv, SwapUnitInv, SwapCallerInv, SwapOffsetInv, SwapClaimInv, SwapAgreed,
         SwapBefore, SwapAfter, SwapPublishing, SwapMoves, SwapDiskSame, SwapBootSame,
         SwapHereSame
<1> QED
  BY <1>5, <1>6, <1>7, <1>8, <1>9, <1>10 DEF SwapInv

LEMMA SwapCreateKeeps == SwapInv /\ Swap!Create => SwapInv'
<1> SUFFICES ASSUME SwapInv, Swap!Create PROVE SwapInv'
  OBVIOUS
<1>1. SwapTypes
  BY DEF SwapInv
<1>2. [Swap!NoFile EXCEPT !.made = TRUE] \in SwapFiles
  BY SwapNothing DEF Swap!NoFile, SwapFiles
<1>3. /\ [sys EXCEPT !.file = [Swap!NoFile EXCEPT !.made = TRUE]] \in SwapMachines
      /\ [sys EXCEPT !.file = [Swap!NoFile EXCEPT !.made = TRUE]].file = [Swap!NoFile EXCEPT
           !.made = TRUE]
      /\ [sys EXCEPT !.file = [Swap!NoFile EXCEPT !.made = TRUE]].on = sys.on
      /\ [sys EXCEPT !.file = [Swap!NoFile EXCEPT !.made = TRUE]].grub = sys.grub
      /\ [sys EXCEPT !.file = [Swap!NoFile EXCEPT !.made = TRUE]].menu = sys.menu
      /\ [sys EXCEPT !.file = [Swap!NoFile EXCEPT !.made = TRUE]].image = sys.image
      /\ [sys EXCEPT !.file = [Swap!NoFile EXCEPT !.made = TRUE]].snapshot = sys.snapshot
  BY <1>1, <1>2 DEF SwapTypes, SwapMachines
<1>4. /\ SwapRunTypes
      /\ \/ SwapMoves("create", "allocate", run.mem)
  <2>1. ASSUME Swap!Do("create", [sys EXCEPT !.file = [Swap!NoFile EXCEPT !.made = TRUE]],
                 Swap!Goto(run, "allocate"))
        PROVE  SwapRunTypes /\ SwapMoves("create", "allocate", run.mem)
    BY <2>1, <1>1, <1>2, <1>3, SwapValues, SwapDoes, SwapPlaceNames DEF SwapTypes
  <2> QED
    BY <2>1, <1>2, <1>3 DEF Swap!Create
<1>5. /\ sys' \in SwapMachines
      /\ sys'.on = sys.on /\ SwapBootSame /\ SwapHereSame
  BY <1>1, <1>2, <1>3
     DEF Swap!Create, SwapTypes, Swap!Do, Swap!Fault, Swap!FaultLeaving, SwapDiskSame,
         SwapBootSame, SwapHereSame
<1>6. SwapTypes'
  BY <1>1, <1>4, <1>5 DEF SwapTypes, SwapRunTypes
<1>7. SwapCallerInv'
  BY <1>2, <1>3, <1>4, <1>5
     DEF SwapInv, SwapCallerInv, SwapBefore, SwapAfter, SwapMoves, SwapDiskSame,
         SwapBootSame, SwapHereSame
<1>8. SwapOffInv'
  BY <1>2, <1>3, <1>4, <1>5
     DEF SwapInv, SwapOffInv, SwapMoves, SwapDiskSame, SwapBootSame, SwapHereSame
<1>9. SwapOffsetInv'
  BY <1>2, <1>3, <1>4, <1>5
     DEF SwapInv, SwapOffsetInv, SwapCallerInv, SwapBefore, SwapFilling, SwapPublishing,
         SwapMoves, SwapDiskSame, SwapBootSame, SwapHereSame
<1>10. SwapClaimInv'
  BY <1>2, <1>3, <1>4, <1>5
     DEF SwapInv, SwapClaimInv, SwapCallerInv, SwapOffsetInv, SwapAgreed, SwapBefore,
         SwapAfter, SwapPublishing, SwapMoves, SwapDiskSame, SwapBootSame, SwapHereSame
<1>11. SwapUnitInv'
  BY <1>2, <1>3, <1>4, <1>5
     DEF SwapInv, SwapUnitInv, SwapCallerInv, SwapOffsetInv, SwapClaimInv, SwapAgreed,
         SwapBefore, SwapAfter, SwapPublishing, SwapMoves, SwapDiskSame, SwapBootSame,
         SwapHereSame
<1> QED
  BY <1>6, <1>7, <1>8, <1>9, <1>10, <1>11 DEF SwapInv

LEMMA SwapAllocateKeeps == SwapInv /\ Swap!Allocate => SwapInv'
<1> SUFFICES ASSUME SwapInv, Swap!Allocate PROVE SwapInv'
  OBVIOUS
<1>1. SwapTypes
  BY DEF SwapInv
<1>2. /\ [run.mem EXCEPT !["target"] = 0] \in SwapMems
      /\ [run.mem EXCEPT !["target"] = 0].offset = run.mem.offset
      /\ [run.mem EXCEPT !["target"] = 0].pwarn = run.mem.pwarn
      /\ [run.mem EXCEPT !["target"] = 0].pub = run.mem.pub
      /\ [run.mem EXCEPT !["target"] = 0].by = run.mem.by
      /\ [run.mem EXCEPT !["target"] = 0].claim = run.mem.claim
  BY <1>1, SwapNothing DEF SwapTypes, SwapRuns, SwapMems
<1>3. \A place \in Offsets :
        [sys.file EXCEPT !.size = run.mem.target, !.offset = place] \in SwapFiles
  BY <1>1 DEF SwapTypes, SwapMachines, SwapFiles, SwapRuns, SwapMems
<1>4. \A place \in Offsets :
        /\ [sys EXCEPT !.file.size = run.mem.target, !.file.offset = place] \in SwapMachines
        /\ [sys EXCEPT !.file.size = run.mem.target,
             !.file.offset = place].file = [sys.file EXCEPT !.size = run.mem.target,
               !.offset = place]
        /\ [sys EXCEPT !.file.size = run.mem.target, !.file.offset = place].on = sys.on
        /\ [sys EXCEPT !.file.size = run.mem.target, !.file.offset = place].grub = sys.grub
        /\ [sys EXCEPT !.file.size = run.mem.target, !.file.offset = place].menu = sys.menu
        /\ [sys EXCEPT !.file.size = run.mem.target, !.file.offset = place].image = sys.image
        /\ [sys EXCEPT !.file.size = run.mem.target,
             !.file.offset = place].snapshot = sys.snapshot
  BY <1>1, <1>3 DEF SwapTypes, SwapMachines
<1>5. /\ SwapRunTypes
      /\ \/ SwapMoves("allocate", "format", [run.mem EXCEPT !["target"] = 0])
  <2>1. ASSUME NEW m,
               Swap!Do("allocate", m, Swap!Goto(Swap!Mem(run, "target", 0), "format"))
        PROVE  SwapRunTypes
                 /\ SwapMoves("allocate", "format", [run.mem EXCEPT !["target"] = 0])
    BY <2>1, <1>1, <1>2, SwapMemValues, SwapDoes, SwapPlaceNames DEF SwapTypes, Swap!Mem
  <2> QED
    BY <2>1 DEF Swap!Allocate
<1>6. /\ sys' \in SwapMachines
      /\ sys'.on = sys.on /\ SwapBootSame /\ SwapHereSame
  <2>1. ASSUME NEW place \in Offsets, NEW r,
               Swap!Do("allocate", [sys EXCEPT !.file.size = run.mem.target,
                 !.file.offset = place], r)
        PROVE  /\ sys' \in SwapMachines /\ sys'.on = sys.on
               /\ SwapBootSame /\ SwapHereSame
    BY <1>4, <2>1 DEF Swap!Do, SwapBootSame, SwapHereSame
  <2> QED
    BY <2>1 DEF Swap!Allocate
<1>7. SwapTypes'
  BY <1>1, <1>5, <1>6 DEF SwapTypes, SwapRunTypes
<1>8. SwapCallerInv'
  BY <1>2, <1>5, <1>6
     DEF SwapInv, SwapCallerInv, SwapBefore, SwapAfter, SwapMoves, SwapDiskSame,
         SwapBootSame, SwapHereSame
<1>9. SwapOffInv'
  BY <1>2, <1>5, <1>6
     DEF SwapInv, SwapOffInv, SwapMoves, SwapDiskSame, SwapBootSame, SwapHereSame
<1>10. SwapOffsetInv'
  BY <1>2, <1>5, <1>6
     DEF SwapInv, SwapOffsetInv, SwapCallerInv, SwapBefore, SwapFilling, SwapPublishing,
         SwapMoves, SwapDiskSame, SwapBootSame, SwapHereSame
<1>11. SwapClaimInv'
  BY <1>2, <1>5, <1>6
     DEF SwapInv, SwapClaimInv, SwapCallerInv, SwapOffsetInv, SwapAgreed, SwapBefore,
         SwapAfter, SwapPublishing, SwapMoves, SwapDiskSame, SwapBootSame, SwapHereSame
<1>12. SwapUnitInv'
  BY <1>2, <1>5, <1>6
     DEF SwapInv, SwapUnitInv, SwapCallerInv, SwapOffsetInv, SwapClaimInv, SwapAgreed,
         SwapBefore, SwapAfter, SwapPublishing, SwapMoves, SwapDiskSame, SwapBootSame,
         SwapHereSame
<1> QED
  BY <1>7, <1>8, <1>9, <1>10, <1>11, <1>12 DEF SwapInv

LEMMA SwapFormatKeeps == SwapInv /\ Swap!Format => SwapInv'
<1> SUFFICES ASSUME SwapInv, Swap!Format PROVE SwapInv'
  OBVIOUS
<1>1. SwapTypes
  BY DEF SwapInv
<1>2. /\ [sys.file EXCEPT !.formatted = TRUE] \in SwapFiles
           /\ [sys.file EXCEPT !.formatted = TRUE].formatted
      /\ [sys.file EXCEPT !.formatted = TRUE].offset = sys.file.offset
  BY <1>1 DEF SwapTypes, SwapMachines, SwapFiles
<1>3. /\ [sys EXCEPT !.file.formatted = TRUE] \in SwapMachines
      /\ [sys EXCEPT !.file.formatted = TRUE].file = [sys.file EXCEPT !.formatted = TRUE]
      /\ [sys EXCEPT !.file.formatted = TRUE].on = sys.on
      /\ [sys EXCEPT !.file.formatted = TRUE].grub = sys.grub
      /\ [sys EXCEPT !.file.formatted = TRUE].menu = sys.menu
      /\ [sys EXCEPT !.file.formatted = TRUE].image = sys.image
      /\ [sys EXCEPT !.file.formatted = TRUE].snapshot = sys.snapshot
  BY <1>1, <1>2 DEF SwapTypes, SwapMachines
<1>4. /\ SwapRunTypes
      /\ \/ SwapMoves("format", "swapon", run.mem)
  <2>1. ASSUME Swap!Do("format", [sys EXCEPT !.file.formatted = TRUE],
                 Swap!Goto(run, "swapon"))
        PROVE  SwapRunTypes /\ SwapMoves("format", "swapon", run.mem)
    BY <2>1, <1>1, <1>2, <1>3, SwapValues, SwapDoes, SwapPlaceNames DEF SwapTypes
  <2> QED
    BY <2>1, <1>2, <1>3 DEF Swap!Format
<1>5. /\ sys' \in SwapMachines
      /\ sys'.on = sys.on /\ sys'.file.formatted /\ sys'.file.offset = sys.file.offset
      /\ SwapBootSame /\ SwapHereSame
  BY <1>1, <1>2, <1>3
     DEF Swap!Format, SwapTypes, Swap!Do, Swap!Fault, Swap!FaultLeaving, SwapDiskSame,
         SwapBootSame, SwapHereSame
<1>6. SwapTypes'
  BY <1>1, <1>4, <1>5 DEF SwapTypes, SwapRunTypes
<1>7. SwapCallerInv'
  BY <1>2, <1>3, <1>4, <1>5
     DEF SwapInv, SwapCallerInv, SwapBefore, SwapAfter, SwapMoves, SwapDiskSame,
         SwapBootSame, SwapHereSame
<1>8. SwapOffInv'
  BY <1>2, <1>3, <1>4, <1>5
     DEF SwapInv, SwapOffInv, SwapMoves, SwapDiskSame, SwapBootSame, SwapHereSame
<1>9. SwapOffsetInv'
  BY <1>2, <1>3, <1>4, <1>5
     DEF SwapInv, SwapOffsetInv, SwapCallerInv, SwapBefore, SwapFilling, SwapPublishing,
         SwapMoves, SwapDiskSame, SwapBootSame, SwapHereSame
<1>10. SwapClaimInv'
  BY <1>2, <1>3, <1>4, <1>5
     DEF SwapInv, SwapClaimInv, SwapCallerInv, SwapOffsetInv, SwapAgreed, SwapBefore,
         SwapAfter, SwapPublishing, SwapMoves, SwapDiskSame, SwapBootSame, SwapHereSame
<1>11. SwapUnitInv'
  BY <1>2, <1>3, <1>4, <1>5
     DEF SwapInv, SwapUnitInv, SwapCallerInv, SwapOffsetInv, SwapClaimInv, SwapAgreed,
         SwapBefore, SwapAfter, SwapPublishing, SwapMoves, SwapDiskSame, SwapBootSame,
         SwapHereSame
<1> QED
  BY <1>6, <1>7, <1>8, <1>9, <1>10, <1>11 DEF SwapInv

LEMMA SwapSwapOnKeeps == SwapInv /\ Swap!SwapOn => SwapInv'
<1> SUFFICES ASSUME SwapInv, Swap!SwapOn PROVE SwapInv'
  OBVIOUS
<1>1. SwapTypes
  BY DEF SwapInv
<1>2. Swap!ByTask \in BOOLEAN
  BY DEF Swap!ByTask
<1>3. /\ [sys EXCEPT !.on = TRUE] \in SwapMachines
      /\ [sys EXCEPT !.on = TRUE].file = sys.file
      /\ [sys EXCEPT !.on = TRUE].on = TRUE
      /\ [sys EXCEPT !.on = TRUE].grub = sys.grub
      /\ [sys EXCEPT !.on = TRUE].menu = sys.menu
      /\ [sys EXCEPT !.on = TRUE].image = sys.image
      /\ [sys EXCEPT !.on = TRUE].snapshot = sys.snapshot
  BY <1>1 DEF SwapTypes, SwapMachines
<1>4. /\ SwapRunTypes
      /\ \/ SwapMoves("swapon", "offset", run.mem)
         \/ ~sys.file.formatted /\ SwapMoves("swapon", "failed", run.mem)
  <2>1. ASSUME sys.file.formatted,
               Swap!Do("swapon", [sys EXCEPT !.on = TRUE],
                 Swap!Goto(Swap!Noted(run, Swap!ByTask), "offset"))
        PROVE  SwapRunTypes /\ SwapMoves("swapon", "offset", run.mem)
    BY <2>1, <1>1, <1>2, <1>3, SwapNotedValues, SwapDoes, SwapPlaceNames DEF SwapTypes
  <2>2. ASSUME ~sys.file.formatted,
               Swap!Do("swapon", sys, Swap!Goto(run, "failed"))
        PROVE  SwapRunTypes /\ ~sys.file.formatted /\ SwapMoves("swapon", "failed", run.mem)
    BY <2>2, <1>1, <1>2, <1>3, SwapValues, SwapDoes, SwapPlaceNames DEF SwapTypes
  <2> QED
    BY <2>1, <2>2, <1>2, <1>3 DEF Swap!SwapOn
<1>5. /\ sys' \in SwapMachines
      /\ sys'.file = sys.file /\ SwapBootSame /\ SwapHereSame
  BY <1>1, <1>2, <1>3
     DEF Swap!SwapOn, SwapTypes, Swap!Do, Swap!Fault, Swap!FaultLeaving, SwapDiskSame,
         SwapBootSame, SwapHereSame
<1>6. SwapTypes'
  BY <1>1, <1>4, <1>5 DEF SwapTypes, SwapRunTypes
<1>7. SwapCallerInv'
  BY <1>2, <1>3, <1>4, <1>5
     DEF SwapInv, SwapCallerInv, SwapBefore, SwapAfter, SwapMoves, SwapDiskSame,
         SwapBootSame, SwapHereSame
<1>8. SwapOffInv'
  BY <1>2, <1>3, <1>4, <1>5
     DEF SwapInv, SwapOffInv, SwapMoves, SwapDiskSame, SwapBootSame, SwapHereSame
<1>9. SwapOffsetInv'
  BY <1>2, <1>3, <1>4, <1>5
     DEF SwapInv, SwapOffsetInv, SwapCallerInv, SwapBefore, SwapFilling, SwapPublishing,
         SwapMoves, SwapDiskSame, SwapBootSame, SwapHereSame
<1>10. SwapClaimInv'
  BY <1>2, <1>3, <1>4, <1>5
     DEF SwapInv, SwapClaimInv, SwapCallerInv, SwapOffsetInv, SwapAgreed, SwapBefore,
         SwapAfter, SwapPublishing, SwapMoves, SwapDiskSame, SwapBootSame, SwapHereSame
<1>11. SwapUnitInv'
  BY <1>2, <1>3, <1>4, <1>5
     DEF SwapInv, SwapUnitInv, SwapCallerInv, SwapOffsetInv, SwapClaimInv, SwapAgreed,
         SwapBefore, SwapAfter, SwapPublishing, SwapMoves, SwapDiskSame, SwapBootSame,
         SwapHereSame
<1> QED
  BY <1>6, <1>7, <1>8, <1>9, <1>10, <1>11 DEF SwapInv

LEMMA SwapReadOffsetKeeps == SwapInv /\ Swap!ReadOffset => SwapInv'
<1> SUFFICES ASSUME SwapInv, Swap!ReadOffset PROVE SwapInv'
  OBVIOUS
<1>1. SwapTypes
  BY DEF SwapInv
<1>2. /\ [run.mem EXCEPT !["offset"] = sys.file.offset] \in SwapMems
      /\ [run.mem EXCEPT !["offset"] = sys.file.offset].offset = sys.file.offset
      /\ [run.mem EXCEPT !["offset"] = sys.file.offset].pwarn = run.mem.pwarn
      /\ [run.mem EXCEPT !["offset"] = sys.file.offset].pub = run.mem.pub
      /\ [run.mem EXCEPT !["offset"] = sys.file.offset].by = run.mem.by
      /\ [run.mem EXCEPT !["offset"] = sys.file.offset].claim = run.mem.claim
      /\ [run.mem EXCEPT !["offset"] = 0] \in SwapMems
      /\ [run.mem EXCEPT !["offset"] = 0].offset = 0
      /\ [run.mem EXCEPT !["offset"] = 0].pwarn = run.mem.pwarn
      /\ [run.mem EXCEPT !["offset"] = 0].pub = run.mem.pub
      /\ [run.mem EXCEPT !["offset"] = 0].by = run.mem.by
      /\ [run.mem EXCEPT !["offset"] = 0].claim = run.mem.claim
  BY <1>1 DEF SwapTypes, SwapRuns, SwapMems, SwapMachines, SwapFiles
<1>3. (IF sys.snapshot THEN "done" ELSE "grub") \in {"done", "grub"}
  OBVIOUS
<1>4. /\ SwapRunTypes
      /\ \/ SwapMoves("offset", IF sys.snapshot THEN "done" ELSE "grub",
              [run.mem EXCEPT !["offset"] = sys.file.offset])
         \/ SwapBreaks("offset", "done", [run.mem EXCEPT !["offset"] = sys.file.offset])
         \/ SwapBreaks("offset", "done", [run.mem EXCEPT !["offset"] = 0])
  <2>1. ASSUME Swap!Do("offset", sys, Swap!Goto(Swap!Mem(run, "offset", sys.file.offset),
                                      IF sys.snapshot THEN "done" ELSE "grub"))
        PROVE  SwapRunTypes
                 /\ SwapMoves("offset", IF sys.snapshot THEN "done" ELSE "grub",
                      [run.mem EXCEPT !["offset"] = sys.file.offset])
    BY <2>1, <1>1, <1>2, <1>3, SwapMemValues, SwapDoes, SwapPlaceNames
       DEF SwapTypes, Swap!Mem
  <2>2. ASSUME NEW offset \in {0, sys.file.offset},
               Swap!Fault("offset", Swap!Goto(Swap!Mem(run, "offset", offset), "done"))
        PROVE  SwapRunTypes
                 /\ SwapBreaks("offset", "done", [run.mem EXCEPT !["offset"] = offset])
    BY <2>2, <1>1, <1>2, <1>3, SwapMemValues, SwapFaults, SwapPlaceNames
       DEF SwapTypes, Swap!Mem
  <2> QED
    BY <2>1, <2>2, <1>2, <1>3 DEF Swap!ReadOffset
<1>5. sys' = sys
  BY <1>1, <1>2, <1>3 DEF Swap!ReadOffset, SwapTypes, Swap!Do, Swap!Fault, Swap!FaultLeaving
<1>6. SwapTypes'
  BY <1>1, <1>4, <1>5 DEF SwapTypes, SwapRunTypes
<1>7. SwapCallerInv'
  BY <1>2, <1>3, <1>4, <1>5
     DEF SwapInv, SwapCallerInv, SwapBefore, SwapAfter, SwapMoves, SwapBreaks
<1>8. SwapOffInv'
  BY <1>2, <1>3, <1>4, <1>5 DEF SwapInv, SwapOffInv, SwapMoves, SwapBreaks
<1>9. SwapOffsetInv'
  BY <1>2, <1>3, <1>4, <1>5
     DEF SwapInv, SwapOffsetInv, SwapCallerInv, SwapBefore, SwapFilling, SwapPublishing,
         SwapMoves, SwapBreaks
<1>10. SwapClaimInv'
  BY <1>2, <1>3, <1>4, <1>5
     DEF SwapInv, SwapClaimInv, SwapCallerInv, SwapOffsetInv, SwapAgreed, SwapBefore,
         SwapAfter, SwapPublishing, SwapMoves, SwapBreaks
<1>11. SwapUnitInv'
  BY <1>2, <1>3, <1>4, <1>5
     DEF SwapInv, SwapUnitInv, SwapCallerInv, SwapOffsetInv, SwapClaimInv, SwapAgreed,
         SwapBefore, SwapAfter, SwapPublishing, SwapMoves, SwapBreaks
<1> QED
  BY <1>6, <1>7, <1>8, <1>9, <1>10, <1>11 DEF SwapInv

LEMMA SwapWriteCommandLineKeeps == SwapInv /\ Swap!WriteCommandLine => SwapInv'
<1> SUFFICES ASSUME SwapInv, Swap!WriteCommandLine PROVE SwapInv'
  OBVIOUS
<1>1. SwapTypes
  BY DEF SwapInv
<1>2. /\ [run.mem EXCEPT !["pwarn"] = TRUE] \in SwapMems
      /\ [run.mem EXCEPT !["pwarn"] = TRUE].offset = run.mem.offset
      /\ [run.mem EXCEPT !["pwarn"] = TRUE].pwarn = TRUE
      /\ [run.mem EXCEPT !["pwarn"] = TRUE].pub = run.mem.pub
      /\ [run.mem EXCEPT !["pwarn"] = TRUE].by = run.mem.by
      /\ [run.mem EXCEPT !["pwarn"] = TRUE].claim = run.mem.claim
  BY <1>1 DEF SwapTypes, SwapRuns, SwapMems
<1>3. /\ [sys EXCEPT !.grub = run.mem.offset] \in SwapMachines
      /\ [sys EXCEPT !.grub = run.mem.offset].file = sys.file
      /\ [sys EXCEPT !.grub = run.mem.offset].on = sys.on
      /\ [sys EXCEPT !.grub = run.mem.offset].grub = run.mem.offset
      /\ [sys EXCEPT !.grub = run.mem.offset].menu = sys.menu
      /\ [sys EXCEPT !.grub = run.mem.offset].image = sys.image
      /\ [sys EXCEPT !.grub = run.mem.offset].snapshot = sys.snapshot
  BY <1>1 DEF SwapTypes, SwapMachines, SwapRuns, SwapMems
<1>4. (IF sys.grub = run.mem.offset THEN "initramfs" ELSE "menu") \in {"initramfs", "menu"}
  OBVIOUS
<1>5. /\ SwapRunTypes
      /\ \/ sys' = sys /\ SwapMoves("grub", "done", [run.mem EXCEPT !["pwarn"] = TRUE])
         \/ sys'.grub = run.mem.offset
            /\ SwapMoves("grub", IF sys.grub = run.mem.offset THEN "initramfs" ELSE "menu",
                 run.mem)
         \/ \E to \in {"initramfs", "done"} : SwapBreaks("grub", to,
              [run.mem EXCEPT !["pwarn"] = TRUE])
  <2>1. ASSUME Swap!Do("grub", sys, Swap!Goto(Swap!Mem(run, "pwarn", TRUE), "done"))
        PROVE  SwapRunTypes /\ sys' = sys
                 /\ SwapMoves("grub", "done", [run.mem EXCEPT !["pwarn"] = TRUE])
    BY <2>1, <1>1, <1>2, <1>3, <1>4, SwapMemValues, SwapDoes, SwapPlaceNames
       DEF SwapTypes, Swap!Mem
  <2>2. ASSUME NEW m,
               m.grub = run.mem.offset,
               Swap!Do("grub", m,
                 Swap!Goto(run, IF sys.grub = run.mem.offset THEN "initramfs" ELSE "menu"))
        PROVE  SwapRunTypes /\ (sys'.grub = run.mem.offset
            /\ SwapMoves("grub", IF sys.grub = run.mem.offset THEN "initramfs" ELSE "menu",
                 run.mem))
    BY <2>2, <1>1, <1>2, <1>3, <1>4, SwapValues, SwapDoes, SwapPlaceNames DEF SwapTypes
  <2>3. ASSUME NEW to \in {"initramfs", "done"},
               Swap!Fault("grub", Swap!Goto(Swap!Mem(run, "pwarn", TRUE), to))
        PROVE  SwapRunTypes /\ SwapBreaks("grub", to, [run.mem EXCEPT !["pwarn"] = TRUE])
    BY <2>3, <1>1, <1>2, <1>3, <1>4, SwapMemValues, SwapFaults, SwapPlaceNames
       DEF SwapTypes, Swap!Mem
  <2> QED
    BY <2>1, <2>2, <2>3, <1>2, <1>3, <1>4 DEF Swap!WriteCommandLine, Swap!Unpublished
<1>6. /\ sys' \in SwapMachines
      /\ SwapDiskSame /\ sys'.menu = sys.menu /\ sys'.image = sys.image /\ SwapHereSame
  BY <1>1, <1>2, <1>3, <1>4
     DEF Swap!WriteCommandLine, SwapTypes, Swap!Do, Swap!Fault, Swap!FaultLeaving,
         SwapDiskSame, SwapBootSame, SwapHereSame, Swap!Unpublished
<1>7. SwapTypes'
  BY <1>1, <1>5, <1>6 DEF SwapTypes, SwapRunTypes
<1>8. SwapCallerInv'
  BY <1>2, <1>3, <1>4, <1>5, <1>6, ZenonT(60)
     DEF SwapInv, SwapCallerInv, SwapBefore, SwapAfter, SwapMoves, SwapBreaks, SwapDiskSame,
         SwapBootSame, SwapHereSame
<1>9. SwapOffInv'
  BY <1>2, <1>3, <1>4, <1>5, <1>6
     DEF SwapInv, SwapOffInv, SwapMoves, SwapBreaks, SwapDiskSame, SwapBootSame,
         SwapHereSame
<1>10. SwapOffsetInv'
  BY <1>2, <1>3, <1>4, <1>5, <1>6
     DEF SwapInv, SwapOffsetInv, SwapCallerInv, SwapBefore, SwapFilling, SwapPublishing,
         SwapMoves, SwapBreaks, SwapDiskSame, SwapBootSame, SwapHereSame
<1>11. SwapClaimInv'
  BY <1>2, <1>3, <1>4, <1>5, <1>6
     DEF SwapInv, SwapClaimInv, SwapCallerInv, SwapOffsetInv, SwapAgreed, SwapBefore,
         SwapAfter, SwapPublishing, SwapMoves, SwapBreaks, SwapDiskSame, SwapBootSame,
         SwapHereSame
<1>12. SwapUnitInv'
  BY <1>2, <1>3, <1>4, <1>5, <1>6, ZenonT(60)
     DEF SwapInv, SwapUnitInv, SwapCallerInv, SwapOffsetInv, SwapClaimInv, SwapAgreed,
         SwapBefore, SwapAfter, SwapPublishing, SwapMoves, SwapBreaks, SwapDiskSame,
         SwapBootSame, SwapHereSame
<1> QED
  BY <1>7, <1>8, <1>9, <1>10, <1>11, <1>12 DEF SwapInv

LEMMA SwapRebuildMenuKeeps == SwapInv /\ Swap!RebuildMenu => SwapInv'
<1> SUFFICES ASSUME SwapInv, Swap!RebuildMenu PROVE SwapInv'
  OBVIOUS
<1>1. SwapTypes
  BY DEF SwapInv
<1>2. /\ [run.mem EXCEPT !["pwarn"] = TRUE] \in SwapMems
      /\ [run.mem EXCEPT !["pwarn"] = TRUE].offset = run.mem.offset
      /\ [run.mem EXCEPT !["pwarn"] = TRUE].pwarn = TRUE
      /\ [run.mem EXCEPT !["pwarn"] = TRUE].pub = run.mem.pub
      /\ [run.mem EXCEPT !["pwarn"] = TRUE].by = run.mem.by
      /\ [run.mem EXCEPT !["pwarn"] = TRUE].claim = run.mem.claim
  BY <1>1 DEF SwapTypes, SwapRuns, SwapMems
<1>3. /\ [sys EXCEPT !.menu = sys.grub] \in SwapMachines
      /\ [sys EXCEPT !.menu = sys.grub].file = sys.file
      /\ [sys EXCEPT !.menu = sys.grub].on = sys.on
      /\ [sys EXCEPT !.menu = sys.grub].grub = sys.grub
      /\ [sys EXCEPT !.menu = sys.grub].menu = sys.grub
      /\ [sys EXCEPT !.menu = sys.grub].image = sys.image
      /\ [sys EXCEPT !.menu = sys.grub].snapshot = sys.snapshot
  BY <1>1 DEF SwapTypes, SwapMachines
<1>4. /\ SwapRunTypes
      /\ \/ sys'.menu = sys.grub /\ SwapMoves("menu", "initramfs", run.mem)
         \/ \E to \in {"initramfs", "done"} : SwapBreaks("menu", to,
              [run.mem EXCEPT !["pwarn"] = TRUE])
  <2>1. ASSUME NEW m,
               m.menu = sys.grub,
               Swap!Do("menu", m, Swap!Goto(run, "initramfs"))
        PROVE  SwapRunTypes /\ sys'.menu = sys.grub /\ SwapMoves("menu", "initramfs", run.mem)
    BY <2>1, <1>1, <1>2, <1>3, SwapValues, SwapDoes, SwapPlaceNames DEF SwapTypes
  <2>2. ASSUME NEW to \in {"initramfs", "done"},
               Swap!Fault("menu", Swap!Goto(Swap!Mem(run, "pwarn", TRUE), to))
        PROVE  SwapRunTypes /\ SwapBreaks("menu", to, [run.mem EXCEPT !["pwarn"] = TRUE])
    BY <2>2, <1>1, <1>2, <1>3, SwapMemValues, SwapFaults, SwapPlaceNames
       DEF SwapTypes, Swap!Mem
  <2> QED
    BY <2>1, <2>2, <1>2, <1>3 DEF Swap!RebuildMenu, Swap!Unpublished
<1>5. /\ sys' \in SwapMachines
      /\ SwapDiskSame /\ sys'.grub = sys.grub /\ sys'.image = sys.image /\ SwapHereSame
  BY <1>1, <1>2, <1>3
     DEF Swap!RebuildMenu, SwapTypes, Swap!Do, Swap!Fault, Swap!FaultLeaving, SwapDiskSame,
         SwapBootSame, SwapHereSame, Swap!Unpublished
<1>6. SwapTypes'
  BY <1>1, <1>4, <1>5 DEF SwapTypes, SwapRunTypes
<1>7. SwapCallerInv'
  BY <1>2, <1>3, <1>4, <1>5, ZenonT(60)
     DEF SwapInv, SwapCallerInv, SwapBefore, SwapAfter, SwapMoves, SwapBreaks, SwapDiskSame,
         SwapBootSame, SwapHereSame
<1>8. SwapOffInv'
  BY <1>2, <1>3, <1>4, <1>5
     DEF SwapInv, SwapOffInv, SwapMoves, SwapBreaks, SwapDiskSame, SwapBootSame,
         SwapHereSame
<1>9. SwapOffsetInv'
  BY <1>2, <1>3, <1>4, <1>5
     DEF SwapInv, SwapOffsetInv, SwapCallerInv, SwapBefore, SwapFilling, SwapPublishing,
         SwapMoves, SwapBreaks, SwapDiskSame, SwapBootSame, SwapHereSame
<1>10. SwapClaimInv'
  BY <1>2, <1>3, <1>4, <1>5
     DEF SwapInv, SwapClaimInv, SwapCallerInv, SwapOffsetInv, SwapAgreed, SwapBefore,
         SwapAfter, SwapPublishing, SwapMoves, SwapBreaks, SwapDiskSame, SwapBootSame,
         SwapHereSame
<1>11. SwapUnitInv'
  BY <1>2, <1>3, <1>4, <1>5
     DEF SwapInv, SwapUnitInv, SwapCallerInv, SwapOffsetInv, SwapClaimInv, SwapAgreed,
         SwapBefore, SwapAfter, SwapPublishing, SwapMoves, SwapBreaks, SwapDiskSame,
         SwapBootSame, SwapHereSame
<1> QED
  BY <1>6, <1>7, <1>8, <1>9, <1>10, <1>11 DEF SwapInv

LEMMA SwapWriteInitramfsKeeps == SwapInv /\ Swap!WriteInitramfs => SwapInv'
<1> SUFFICES ASSUME SwapInv, Swap!WriteInitramfs PROVE SwapInv'
  OBVIOUS
<1>1. SwapTypes
  BY DEF SwapInv
<1>2. /\ [run.mem EXCEPT !["pwarn"] = TRUE] \in SwapMems
      /\ [run.mem EXCEPT !["pwarn"] = TRUE].offset = run.mem.offset
      /\ [run.mem EXCEPT !["pwarn"] = TRUE].pwarn = TRUE
      /\ [run.mem EXCEPT !["pwarn"] = TRUE].pub = run.mem.pub
      /\ [run.mem EXCEPT !["pwarn"] = TRUE].by = run.mem.by
      /\ [run.mem EXCEPT !["pwarn"] = TRUE].claim = run.mem.claim
  BY <1>1 DEF SwapTypes, SwapRuns, SwapMems
<1>3. /\ [sys EXCEPT !.resume = TRUE] \in SwapMachines
      /\ [sys EXCEPT !.resume = TRUE].file = sys.file
      /\ [sys EXCEPT !.resume = TRUE].on = sys.on
      /\ [sys EXCEPT !.resume = TRUE].grub = sys.grub
      /\ [sys EXCEPT !.resume = TRUE].menu = sys.menu
      /\ [sys EXCEPT !.resume = TRUE].image = sys.image
      /\ [sys EXCEPT !.resume = TRUE].snapshot = sys.snapshot
  BY <1>1 DEF SwapTypes, SwapMachines
<1>4. /\ SwapRunTypes
      /\ \/ SwapMoves("initramfs", "power", run.mem)
         \/ \E to \in {"power", "done"} : SwapBreaks("initramfs", to,
              [run.mem EXCEPT !["pwarn"] = TRUE])
  <2>1. ASSUME Swap!Do("initramfs", [sys EXCEPT !.resume = TRUE], Swap!Goto(run, "power"))
        PROVE  SwapRunTypes /\ SwapMoves("initramfs", "power", run.mem)
    BY <2>1, <1>1, <1>2, <1>3, SwapValues, SwapDoes, SwapPlaceNames DEF SwapTypes
  <2>2. ASSUME NEW to \in {"power", "done"},
               Swap!Fault("initramfs", Swap!Goto(Swap!Mem(run, "pwarn", TRUE), to))
        PROVE  SwapRunTypes /\ SwapBreaks("initramfs", to, [run.mem EXCEPT !["pwarn"] = TRUE])
    BY <2>2, <1>1, <1>2, <1>3, SwapMemValues, SwapFaults, SwapPlaceNames
       DEF SwapTypes, Swap!Mem
  <2> QED
    BY <2>1, <2>2, <1>2, <1>3 DEF Swap!WriteInitramfs, Swap!Unpublished
<1>5. /\ sys' \in SwapMachines
      /\ SwapDiskSame /\ SwapBootSame /\ SwapHereSame
  BY <1>1, <1>2, <1>3
     DEF Swap!WriteInitramfs, SwapTypes, Swap!Do, Swap!Fault, Swap!FaultLeaving,
         SwapDiskSame, SwapBootSame, SwapHereSame, Swap!Unpublished
<1>6. SwapTypes'
  BY <1>1, <1>4, <1>5 DEF SwapTypes, SwapRunTypes
<1>7. SwapCallerInv'
  BY <1>2, <1>3, <1>4, <1>5, ZenonT(60)
     DEF SwapInv, SwapCallerInv, SwapBefore, SwapAfter, SwapMoves, SwapBreaks, SwapDiskSame,
         SwapBootSame, SwapHereSame
<1>8. SwapOffInv'
  BY <1>2, <1>3, <1>4, <1>5
     DEF SwapInv, SwapOffInv, SwapMoves, SwapBreaks, SwapDiskSame, SwapBootSame,
         SwapHereSame
<1>9. SwapOffsetInv'
  BY <1>2, <1>3, <1>4, <1>5
     DEF SwapInv, SwapOffsetInv, SwapCallerInv, SwapBefore, SwapFilling, SwapPublishing,
         SwapMoves, SwapBreaks, SwapDiskSame, SwapBootSame, SwapHereSame
<1>10. SwapClaimInv'
  BY <1>2, <1>3, <1>4, <1>5
     DEF SwapInv, SwapClaimInv, SwapCallerInv, SwapOffsetInv, SwapAgreed, SwapBefore,
         SwapAfter, SwapPublishing, SwapMoves, SwapBreaks, SwapDiskSame, SwapBootSame,
         SwapHereSame
<1>11. SwapUnitInv'
  BY <1>2, <1>3, <1>4, <1>5
     DEF SwapInv, SwapUnitInv, SwapCallerInv, SwapOffsetInv, SwapClaimInv, SwapAgreed,
         SwapBefore, SwapAfter, SwapPublishing, SwapMoves, SwapBreaks, SwapDiskSame,
         SwapBootSame, SwapHereSame
<1> QED
  BY <1>6, <1>7, <1>8, <1>9, <1>10, <1>11 DEF SwapInv

LEMMA SwapTellKernelKeeps == SwapInv /\ Swap!TellKernel => SwapInv'
<1> SUFFICES ASSUME SwapInv, Swap!TellKernel PROVE SwapInv'
  OBVIOUS
<1>1. SwapTypes
  BY DEF SwapInv
<1>2. /\ [run.mem EXCEPT !["pwarn"] = TRUE] \in SwapMems
      /\ [run.mem EXCEPT !["pwarn"] = TRUE].offset = run.mem.offset
      /\ [run.mem EXCEPT !["pwarn"] = TRUE].pwarn = TRUE
      /\ [run.mem EXCEPT !["pwarn"] = TRUE].pub = run.mem.pub
      /\ [run.mem EXCEPT !["pwarn"] = TRUE].by = run.mem.by
      /\ [run.mem EXCEPT !["pwarn"] = TRUE].claim = run.mem.claim
  BY <1>1 DEF SwapTypes, SwapRuns, SwapMems
<1>3. /\ [run.mem EXCEPT !["pub"] = ~run.mem.pwarn] \in SwapMems
      /\ [run.mem EXCEPT !["pub"] = ~run.mem.pwarn].offset = run.mem.offset
      /\ [run.mem EXCEPT !["pub"] = ~run.mem.pwarn].pwarn = run.mem.pwarn
      /\ [run.mem EXCEPT !["pub"] = ~run.mem.pwarn].pub <=> (~run.mem.pwarn)
      /\ [run.mem EXCEPT !["pub"] = ~run.mem.pwarn].by = run.mem.by
      /\ [run.mem EXCEPT !["pub"] = ~run.mem.pwarn].claim = run.mem.claim
  BY <1>1 DEF SwapTypes, SwapRuns, SwapMems
<1>4. /\ [sys EXCEPT !.power = run.mem.offset] \in SwapMachines
      /\ [sys EXCEPT !.power = run.mem.offset].file = sys.file
      /\ [sys EXCEPT !.power = run.mem.offset].on = sys.on
      /\ [sys EXCEPT !.power = run.mem.offset].grub = sys.grub
      /\ [sys EXCEPT !.power = run.mem.offset].menu = sys.menu
      /\ [sys EXCEPT !.power = run.mem.offset].image = sys.image
      /\ [sys EXCEPT !.power = run.mem.offset].snapshot = sys.snapshot
  BY <1>1 DEF SwapTypes, SwapMachines, SwapRuns, SwapMems
<1>5. /\ SwapRunTypes
      /\ \/ SwapMoves("power", "done", [run.mem EXCEPT !["pub"] = ~run.mem.pwarn])
         \/ \E to \in {"done", "done"} : SwapBreaks("power", to,
              [run.mem EXCEPT !["pwarn"] = TRUE])
  <2>1. ASSUME Swap!Do("power", [sys EXCEPT !.power = run.mem.offset],
                 Swap!Goto(Swap!Mem(run, "pub", ~run.mem.pwarn), "done"))
        PROVE  SwapRunTypes
                 /\ SwapMoves("power", "done", [run.mem EXCEPT !["pub"] = ~run.mem.pwarn])
    BY <2>1, <1>1, <1>2, <1>3, <1>4, SwapMemValues, SwapDoes, SwapPlaceNames
       DEF SwapTypes, Swap!Mem
  <2>2. ASSUME NEW to \in {"done", "done"},
               Swap!Fault("power", Swap!Goto(Swap!Mem(run, "pwarn", TRUE), to))
        PROVE  SwapRunTypes /\ SwapBreaks("power", to, [run.mem EXCEPT !["pwarn"] = TRUE])
    BY <2>2, <1>1, <1>2, <1>3, <1>4, SwapMemValues, SwapFaults, SwapPlaceNames
       DEF SwapTypes, Swap!Mem
  <2> QED
    BY <2>1, <2>2, <1>2, <1>3, <1>4 DEF Swap!TellKernel, Swap!Unpublished
<1>6. /\ sys' \in SwapMachines
      /\ SwapDiskSame /\ SwapBootSame /\ SwapHereSame
  BY <1>1, <1>2, <1>3, <1>4
     DEF Swap!TellKernel, SwapTypes, Swap!Do, Swap!Fault, Swap!FaultLeaving, SwapDiskSame,
         SwapBootSame, SwapHereSame, Swap!Unpublished
<1>7. /\ run.pc = "power" /\ run'.pc = "done" /\ run'.mem.by = run.mem.by
      /\ run'.mem.claim = run.mem.claim /\ run'.mem.offset = run.mem.offset
      /\ run'.hurt \/ (run'.hurt = run.hurt /\ run'.mem.pwarn = run.mem.pwarn)
  BY <1>1, <1>2, <1>3, <1>4, <1>5 DEF SwapMoves, SwapBreaks
<1>8. SwapTypes'
  BY <1>1, <1>5, <1>6 DEF SwapTypes, SwapRunTypes
<1>9. SwapCallerInv'
  BY <1>7, <1>6
     DEF SwapInv, SwapCallerInv, SwapBefore, SwapAfter, SwapMoves, SwapBreaks, SwapDiskSame,
         SwapBootSame, SwapHereSame
<1>10. SwapOffInv'
  BY <1>7, <1>6
     DEF SwapInv, SwapOffInv, SwapMoves, SwapBreaks, SwapDiskSame, SwapBootSame,
         SwapHereSame
<1>11. SwapOffsetInv'
  BY <1>7, <1>6
     DEF SwapInv, SwapOffsetInv, SwapCallerInv, SwapBefore, SwapFilling, SwapPublishing,
         SwapMoves, SwapBreaks, SwapDiskSame, SwapBootSame, SwapHereSame
<1>12. SwapClaimInv'
  BY <1>7, <1>6
     DEF SwapInv, SwapClaimInv, SwapCallerInv, SwapOffsetInv, SwapAgreed, SwapBefore,
         SwapAfter, SwapPublishing, SwapMoves, SwapBreaks, SwapDiskSame, SwapBootSame,
         SwapHereSame
<1>13. SwapUnitInv'
  BY <1>7, <1>6
     DEF SwapInv, SwapUnitInv, SwapCallerInv, SwapOffsetInv, SwapClaimInv, SwapAgreed,
         SwapBefore, SwapAfter, SwapPublishing, SwapMoves, SwapBreaks, SwapDiskSame,
         SwapBootSame, SwapHereSame
<1> QED
  BY <1>8, <1>9, <1>10, <1>11, <1>12, <1>13 DEF SwapInv

LEMMA SwapProgramBreaksKeeps == SwapInv /\ Swap!ProgramBreaks => SwapInv'
<1> SUFFICES ASSUME SwapInv, Swap!ProgramBreaks PROVE SwapInv'
  OBVIOUS
<1>1. SwapTypes
  BY DEF SwapInv
<1>2. /\ SwapRunTypes
      /\ \/ \E label \in Swap!ProgramLabels : SwapBreaks(label, "failed", run.mem)
  <2>1. ASSUME NEW label \in Swap!ProgramLabels,
               Swap!Fault(label, Swap!Goto(run, "failed"))
        PROVE  SwapRunTypes /\ SwapBreaks(label, "failed", run.mem)
    BY <2>1, <1>1, SwapValues, SwapFaults, SwapPlaceNames DEF SwapTypes
  <2> QED
    BY <2>1 DEF Swap!ProgramBreaks
<1>3. sys' = sys
  BY <1>1 DEF Swap!ProgramBreaks, SwapTypes, Swap!Do, Swap!Fault, Swap!FaultLeaving
<1>4. SwapTypes'
  BY <1>1, <1>2, <1>3 DEF SwapTypes, SwapRunTypes
<1>5. SwapCallerInv'
  BY <1>2, <1>3
     DEF SwapInv, SwapCallerInv, SwapBefore, SwapAfter, SwapBreaks, Swap!ProgramLabels
<1>6. SwapOffInv'
  BY <1>2, <1>3 DEF SwapInv, SwapOffInv, SwapBreaks, Swap!ProgramLabels
<1>7. SwapOffsetInv'
  BY <1>2, <1>3
     DEF SwapInv, SwapOffsetInv, SwapCallerInv, SwapBefore, SwapFilling, SwapPublishing,
         SwapBreaks, Swap!ProgramLabels
<1>8. SwapClaimInv'
  BY <1>2, <1>3
     DEF SwapInv, SwapClaimInv, SwapCallerInv, SwapOffsetInv, SwapAgreed, SwapBefore,
         SwapAfter, SwapPublishing, SwapBreaks, Swap!ProgramLabels
<1>9. SwapUnitInv'
  BY <1>2, <1>3
     DEF SwapInv, SwapUnitInv, SwapCallerInv, SwapOffsetInv, SwapClaimInv, SwapAgreed,
         SwapBefore, SwapAfter, SwapPublishing, SwapBreaks, Swap!ProgramLabels
<1> QED
  BY <1>4, <1>5, <1>6, <1>7, <1>8, <1>9 DEF SwapInv

LEMMA SwapProgramFailsKeeps == SwapInv /\ Swap!ProgramFails => SwapInv'
<1> SUFFICES ASSUME SwapInv, Swap!ProgramFails PROVE SwapInv'
  OBVIOUS
<1>1. SwapTypes
  BY DEF SwapInv
<1>2. /\ [run.mem EXCEPT !.offset = 0, !.target = 0, !.pub = FALSE] \in SwapMems
      /\ [run.mem EXCEPT !.offset = 0, !.target = 0, !.pub = FALSE].offset = 0
      /\ [run.mem EXCEPT !.offset = 0, !.target = 0, !.pub = FALSE].pwarn = run.mem.pwarn
      /\ [run.mem EXCEPT !.offset = 0, !.target = 0, !.pub = FALSE].pub = FALSE
      /\ [run.mem EXCEPT !.offset = 0, !.target = 0, !.pub = FALSE].by = run.mem.by
      /\ [run.mem EXCEPT !.offset = 0, !.target = 0, !.pub = FALSE].claim = run.mem.claim
  BY <1>1, SwapNothing DEF SwapTypes, SwapRuns, SwapMems
<1>3. /\ Swap!Answered = IF run.mem.by = "unit" THEN "end" ELSE "idle"
      /\ (IF Swap!ByTask THEN "image" ELSE Swap!Answered) \in {"image", "end", "idle"}
  BY DEF Swap!Answered
<1>4. Swap!ByTask <=> run.mem.by = "task"
  BY DEF Swap!ByTask
<1>5. /\ SwapRunTypes
      /\ \/ SwapMoves("failed", IF Swap!ByTask THEN "image" ELSE Swap!Answered,
                      [run.mem EXCEPT !.offset = 0, !.target = 0, !.pub = FALSE])
  <2>1. ASSUME NEW m, Swap!Do("failed", m,
                       Swap!Goto(Swap!Warned(Swap!Recall(run, [run.mem EXCEPT !.offset = 0,
                         !.target = 0, !.pub = FALSE])),
                                 IF Swap!ByTask THEN "image" ELSE Swap!Answered))
        PROVE  SwapRunTypes
                 /\ (SwapMoves("failed", IF Swap!ByTask THEN "image" ELSE Swap!Answered,
                      [run.mem EXCEPT !.offset = 0, !.target = 0, !.pub = FALSE]))
    BY <2>1, <1>1, <1>2, <1>3, <1>4, SwapMemValues, SwapDoes, SwapPlaceNames DEF SwapTypes
  <2> QED
    BY <2>1, <1>2, <1>3, <1>4 DEF Swap!ProgramFails
<1>6. /\ sys' \in SwapMachines
      /\ SwapDiskSame /\ SwapBootSame /\ SwapHereSame
  BY <1>1, SwapUnitLeaves
     DEF Swap!ProgramFails, SwapTypes, Swap!Do, SwapDiskSame, SwapBootSame, SwapHereSame
<1>7. SwapTypes'
  BY <1>1, <1>5, <1>6 DEF SwapTypes, SwapRunTypes
<1>8. SwapCallerInv'
  BY <1>2, <1>3, <1>4, <1>5, <1>6
     DEF SwapInv, SwapCallerInv, SwapBefore, SwapAfter, SwapMoves, SwapDiskSame, SwapBootSame, SwapHereSame
<1>9. SwapOffInv'
  BY <1>2, <1>3, <1>4, <1>5, <1>6 DEF SwapInv, SwapOffInv, SwapMoves, SwapDiskSame, SwapBootSame, SwapHereSame
<1>10. SwapOffsetInv'
  BY <1>2, <1>3, <1>4, <1>5, <1>6
     DEF SwapInv, SwapOffsetInv, SwapCallerInv, SwapBefore, SwapFilling, SwapPublishing,
         SwapMoves, SwapDiskSame, SwapBootSame, SwapHereSame
<1>11. SwapClaimInv'
  BY <1>2, <1>3, <1>4, <1>5, <1>6
     DEF SwapInv, SwapClaimInv, SwapCallerInv, SwapOffsetInv, SwapAgreed, SwapBefore,
         SwapAfter, SwapPublishing, SwapMoves, SwapDiskSame, SwapBootSame, SwapHereSame
<1>12. SwapUnitInv'
  BY <1>2, <1>3, <1>4, <1>5, <1>6
     DEF SwapInv, SwapUnitInv, SwapCallerInv, SwapOffsetInv, SwapClaimInv, SwapAgreed,
         SwapBefore, SwapAfter, SwapPublishing, SwapMoves, SwapDiskSame, SwapBootSame, SwapHereSame
<1> QED
  BY <1>7, <1>8, <1>9, <1>10, <1>11, <1>12 DEF SwapInv

LEMMA SwapProgramDoneKeeps == SwapInv /\ Swap!ProgramDone => SwapInv'
<1> SUFFICES ASSUME SwapInv, Swap!ProgramDone PROVE SwapInv'
  OBVIOUS
<1>1. SwapTypes
  BY DEF SwapInv
<1>2. /\ Swap!Answered = IF run.mem.by = "unit" THEN "end" ELSE "idle"
      /\ Swap!Answered \in {"end", "idle"}
  BY DEF Swap!Answered
<1>3. Swap!ByTask <=> run.mem.by = "task"
  BY DEF Swap!ByTask
<1>4. (run.warn \/ run.mem.pwarn) \in BOOLEAN
  BY <1>1 DEF SwapTypes, SwapRuns, SwapMems
<1>5. /\ SwapRunTypes
      /\ \/ Swap!ByTask /\ SwapMoves("done", "image", run.mem)
         \/ ~Swap!ByTask /\ SwapMoves("done", Swap!Answered, run.mem)
  <2>1. ASSUME Swap!ByTask,
               Swap!Do("done", sys,
                 Swap!Goto([run EXCEPT !.warn = run.warn \/ run.mem.pwarn], "image"))
        PROVE  SwapRunTypes /\ Swap!ByTask /\ SwapMoves("done", "image", run.mem)
    BY <2>1, <1>1, <1>2, <1>3, <1>4, SwapNotedValues, SwapDoes, SwapPlaceNames DEF SwapTypes
  <2>2. ASSUME ~Swap!ByTask,
               Swap!Do("done", Swap!UnitLeft("yes"), Swap!Goto(run, Swap!Answered))
        PROVE  SwapRunTypes /\ ~Swap!ByTask /\ SwapMoves("done", Swap!Answered, run.mem)
    BY <2>2, <1>1, <1>2, <1>3, <1>4, SwapValues, SwapDoes, SwapPlaceNames DEF SwapTypes
  <2> QED
    BY <2>1, <2>2, <1>2, <1>3, <1>4 DEF Swap!ProgramDone
<1>6. /\ sys' \in SwapMachines
      /\ SwapDiskSame /\ SwapBootSame /\ SwapHereSame
  BY <1>1, SwapUnitLeaves
     DEF Swap!ProgramDone, SwapTypes, Swap!Do, SwapDiskSame, SwapBootSame, SwapHereSame
<1>7. SwapTypes'
  BY <1>1, <1>5, <1>6 DEF SwapTypes, SwapRunTypes
<1>8. SwapCallerInv'
  BY <1>2, <1>3, <1>4, <1>5, <1>6
     DEF SwapInv, SwapCallerInv, SwapBefore, SwapAfter, SwapMoves, SwapDiskSame, SwapBootSame, SwapHereSame
<1>9. SwapOffInv'
  BY <1>2, <1>3, <1>4, <1>5, <1>6 DEF SwapInv, SwapOffInv, SwapMoves, SwapDiskSame, SwapBootSame, SwapHereSame
<1>10. SwapOffsetInv'
  BY <1>2, <1>3, <1>4, <1>5, <1>6
     DEF SwapInv, SwapOffsetInv, SwapCallerInv, SwapBefore, SwapFilling, SwapPublishing,
         SwapMoves, SwapDiskSame, SwapBootSame, SwapHereSame
<1>11. SwapClaimInv'
  BY <1>2, <1>3, <1>4, <1>5, <1>6
     DEF SwapInv, SwapClaimInv, SwapCallerInv, SwapOffsetInv, SwapAgreed, SwapBefore,
         SwapAfter, SwapPublishing, SwapMoves, SwapDiskSame, SwapBootSame, SwapHereSame
<1>12. SwapUnitInv'
  BY <1>2, <1>3, <1>4, <1>5, <1>6
     DEF SwapInv, SwapUnitInv, SwapCallerInv, SwapOffsetInv, SwapClaimInv, SwapAgreed,
         SwapBefore, SwapAfter, SwapPublishing, SwapMoves, SwapDiskSame, SwapBootSame, SwapHereSame
<1> QED
  BY <1>7, <1>8, <1>9, <1>10, <1>11, <1>12 DEF SwapInv

LEMMA SwapRebuildImageKeeps == SwapInv /\ Swap!RebuildImage => SwapInv'
<1> SUFFICES ASSUME SwapInv, Swap!RebuildImage PROVE SwapInv'
  OBVIOUS
<1>1. SwapTypes
  BY DEF SwapInv
<1>2. (sys.resume /\ ~run.mem.before) \in BOOLEAN /\ (sys.image \/ (sys.resume
        /\ ~run.mem.before)) \in BOOLEAN
  BY <1>1 DEF SwapTypes, SwapMachines, SwapRuns, SwapMems
<1>3. /\ [sys EXCEPT !.image = @ \/ (sys.resume /\ ~run.mem.before)] \in SwapMachines
      /\ [sys EXCEPT !.image = @ \/ (sys.resume /\ ~run.mem.before)].file = sys.file
      /\ [sys EXCEPT !.image = @ \/ (sys.resume /\ ~run.mem.before)].on = sys.on
      /\ [sys EXCEPT !.image = @ \/ (sys.resume /\ ~run.mem.before)].grub = sys.grub
      /\ [sys EXCEPT !.image = @ \/ (sys.resume /\ ~run.mem.before)].menu = sys.menu
      /\ [sys EXCEPT !.image = @ \/ (sys.resume
           /\ ~run.mem.before)].image = (sys.image \/ (sys.resume /\ ~run.mem.before))
      /\ [sys EXCEPT !.image = @ \/ (sys.resume /\ ~run.mem.before)].snapshot = sys.snapshot
  BY <1>1, <1>2 DEF SwapTypes, SwapMachines
<1>4. /\ SwapRunTypes
      /\ \/ SwapMoves("image", "start", run.mem)
         \/ SwapMoves("image", "verify", run.mem)
         \/ SwapBreaks("image", "verify", run.mem)
  <2>1. ASSUME Swap!Do("image", sys, Swap!Goto(Swap!Warned(run), "start"))
        PROVE  SwapRunTypes /\ SwapMoves("image", "start", run.mem)
    BY <2>1, <1>1, <1>2, <1>3, SwapValues, SwapDoes, SwapPlaceNames DEF SwapTypes
  <2>2. ASSUME NEW m,
               Swap!Do("image", m,
                 Swap!Goto(Swap!Noted(run, sys.resume /\ ~run.mem.before), "verify"))
        PROVE  SwapRunTypes /\ SwapMoves("image", "verify", run.mem)
    BY <2>2, <1>1, <1>2, <1>3, SwapNotedValues, SwapDoes, SwapPlaceNames DEF SwapTypes
  <2>3. ASSUME Swap!Fault("image", Swap!Goto(Swap!Warned(run), "verify"))
        PROVE  SwapRunTypes /\ SwapBreaks("image", "verify", run.mem)
    BY <2>3, <1>1, <1>2, <1>3, SwapValues, SwapFaults, SwapPlaceNames DEF SwapTypes
  <2> QED
    BY <2>1, <2>2, <2>3, <1>2, <1>3 DEF Swap!RebuildImage
<1>5. /\ sys' \in SwapMachines
      /\ SwapDiskSame /\ sys'.grub = sys.grub /\ sys'.menu = sys.menu /\ (sys.image
           => sys'.image)
      /\ SwapHereSame
  BY <1>1, <1>2, <1>3
     DEF Swap!RebuildImage, SwapTypes, Swap!Do, Swap!Fault, Swap!FaultLeaving, SwapDiskSame,
         SwapBootSame, SwapHereSame
<1>6. SwapTypes'
  BY <1>1, <1>4, <1>5 DEF SwapTypes, SwapRunTypes
<1>7. SwapCallerInv'
  BY <1>2, <1>3, <1>4, <1>5
     DEF SwapInv, SwapCallerInv, SwapBefore, SwapAfter, SwapMoves, SwapBreaks, SwapDiskSame,
         SwapBootSame, SwapHereSame
<1>8. SwapOffInv'
  BY <1>2, <1>3, <1>4, <1>5
     DEF SwapInv, SwapOffInv, SwapMoves, SwapBreaks, SwapDiskSame, SwapBootSame,
         SwapHereSame
<1>9. SwapOffsetInv'
  BY <1>2, <1>3, <1>4, <1>5
     DEF SwapInv, SwapOffsetInv, SwapCallerInv, SwapBefore, SwapFilling, SwapPublishing,
         SwapMoves, SwapBreaks, SwapDiskSame, SwapBootSame, SwapHereSame
<1>10. SwapClaimInv'
  BY <1>2, <1>3, <1>4, <1>5
     DEF SwapInv, SwapClaimInv, SwapCallerInv, SwapOffsetInv, SwapAgreed, SwapBefore,
         SwapAfter, SwapPublishing, SwapMoves, SwapBreaks, SwapDiskSame, SwapBootSame,
         SwapHereSame
<1>11. SwapUnitInv'
  BY <1>2, <1>3, <1>4, <1>5
     DEF SwapInv, SwapUnitInv, SwapCallerInv, SwapOffsetInv, SwapClaimInv, SwapAgreed,
         SwapBefore, SwapAfter, SwapPublishing, SwapMoves, SwapBreaks, SwapDiskSame,
         SwapBootSame, SwapHereSame
<1> QED
  BY <1>6, <1>7, <1>8, <1>9, <1>10, <1>11 DEF SwapInv

LEMMA SwapVerifyKeeps == SwapInv /\ Swap!Verify => SwapInv'
<1> SUFFICES ASSUME SwapInv, Swap!Verify PROVE SwapInv'
  OBVIOUS
<1>1. SwapTypes
  BY DEF SwapInv
<1>2. /\ Swap!Findings \in BOOLEAN /\ (run.warn \/ Swap!Findings) \in BOOLEAN
      /\ (run.mem.pub /\ ~Swap!Findings) \in BOOLEAN
  BY <1>1 DEF Swap!Findings, SwapTypes, SwapMachines, SwapRuns, SwapMems
<1>3. /\ [run.mem EXCEPT !["claim"] = run.mem.pub /\ ~Swap!Findings] \in SwapMems
      /\ [run.mem EXCEPT !["claim"] = run.mem.pub /\ ~Swap!Findings].offset = run.mem.offset
      /\ [run.mem EXCEPT !["claim"] = run.mem.pub /\ ~Swap!Findings].pwarn = run.mem.pwarn
      /\ [run.mem EXCEPT !["claim"] = run.mem.pub /\ ~Swap!Findings].pub = run.mem.pub
      /\ [run.mem EXCEPT !["claim"] = run.mem.pub /\ ~Swap!Findings].by = run.mem.by
      /\ [run.mem EXCEPT !["claim"] = run.mem.pub
           /\ ~Swap!Findings].claim <=> (run.mem.pub /\ ~Swap!Findings)
  BY <1>1, <1>2 DEF SwapTypes, SwapRuns, SwapMems
<1>4. [run EXCEPT !.warn = run.warn \/ Swap!Findings].mem = run.mem
  BY <1>1 DEF SwapTypes, SwapRuns
<1>5. Swap!Mem([run EXCEPT !.warn = run.warn \/ Swap!Findings], "claim",
               run.mem.pub /\ ~Swap!Findings) =
        Swap!Recall([run EXCEPT !.warn = run.warn \/ Swap!Findings],
          [run.mem EXCEPT !["claim"] = run.mem.pub /\ ~Swap!Findings])
  BY <1>4 DEF Swap!Mem
<1>6. ~Swap!Findings => sys.grub = run.mem.offset /\ sys.menu = run.mem.offset /\ sys.image
  BY DEF Swap!Findings
<1>7. /\ SwapRunTypes
      /\ \/ SwapMoves("verify", "rule", [run.mem EXCEPT !["claim"] = run.mem.pub
              /\ ~Swap!Findings])
  <2>1. ASSUME Swap!Do("verify", sys,
                       Swap!Goto(Swap!Mem([run EXCEPT !.warn = run.warn \/ Swap!Findings],
                         "claim",
                                          run.mem.pub /\ ~Swap!Findings), "rule"))
        PROVE  SwapRunTypes
                 /\ SwapMoves("verify", "rule", [run.mem EXCEPT !["claim"] = run.mem.pub
                      /\ ~Swap!Findings])
    <3>1. SwapLike(Swap!Goto(Swap!Recall([run EXCEPT !.warn = run.warn \/ Swap!Findings],
                             [run.mem EXCEPT !["claim"] = run.mem.pub
                               /\ ~Swap!Findings]), "rule"), "rule",
                   [run.mem EXCEPT !["claim"] = run.mem.pub /\ ~Swap!Findings])
      BY <1>1, <1>2, <1>3, SwapVerdict, SwapPlaceNames DEF SwapTypes
    <3> QED
      BY <3>1, <2>1, <1>1, <1>5, SwapDoes DEF SwapTypes
  <2> QED
    BY <2>1, <1>2, <1>3, <1>4, <1>5, <1>6 DEF Swap!Verify
<1>8. sys' = sys
  BY <1>1, <1>2, <1>3, <1>4, <1>5, <1>6
     DEF Swap!Verify, SwapTypes, Swap!Do, Swap!Fault, Swap!FaultLeaving
<1>9. SwapTypes'
  BY <1>1, <1>7, <1>8 DEF SwapTypes, SwapRunTypes
<1>10. SwapCallerInv'
  BY <1>2, <1>3, <1>4, <1>5, <1>6, <1>7, <1>8
     DEF SwapInv, SwapCallerInv, SwapBefore, SwapAfter, SwapMoves
<1>11. SwapOffInv'
  BY <1>2, <1>3, <1>4, <1>5, <1>6, <1>7, <1>8 DEF SwapInv, SwapOffInv, SwapMoves
<1>12. SwapOffsetInv'
  BY <1>2, <1>3, <1>4, <1>5, <1>6, <1>7, <1>8
     DEF SwapInv, SwapOffsetInv, SwapCallerInv, SwapBefore, SwapFilling, SwapPublishing,
         SwapMoves
<1>13. SwapClaimInv'
  BY <1>2, <1>3, <1>4, <1>5, <1>6, <1>7, <1>8
     DEF SwapInv, SwapClaimInv, SwapCallerInv, SwapOffsetInv, SwapAgreed, SwapBefore,
         SwapAfter, SwapPublishing, SwapMoves
<1>14. SwapUnitInv'
  BY <1>2, <1>3, <1>4, <1>5, <1>6, <1>7, <1>8
     DEF SwapInv, SwapUnitInv, SwapCallerInv, SwapOffsetInv, SwapClaimInv, SwapAgreed,
         SwapBefore, SwapAfter, SwapPublishing, SwapMoves
<1> QED
  BY <1>9, <1>10, <1>11, <1>12, <1>13, <1>14 DEF SwapInv

LEMMA SwapWriteRuleKeeps == SwapInv /\ Swap!WriteRule => SwapInv'
<1> SUFFICES ASSUME SwapInv, Swap!WriteRule PROVE SwapInv'
  OBVIOUS
<1>1. SwapTypes
  BY DEF SwapInv
<1>2. (~sys.rule) \in BOOLEAN
  BY <1>1 DEF SwapTypes, SwapMachines
<1>3. /\ [sys EXCEPT !.rule = TRUE] \in SwapMachines
      /\ [sys EXCEPT !.rule = TRUE].file = sys.file
      /\ [sys EXCEPT !.rule = TRUE].on = sys.on
      /\ [sys EXCEPT !.rule = TRUE].grub = sys.grub
      /\ [sys EXCEPT !.rule = TRUE].menu = sys.menu
      /\ [sys EXCEPT !.rule = TRUE].image = sys.image
      /\ [sys EXCEPT !.rule = TRUE].snapshot = sys.snapshot
  BY <1>1 DEF SwapTypes, SwapMachines
<1>4. /\ SwapRunTypes
      /\ \/ SwapMoves("rule", "start", run.mem)
         \/ SwapBreaks("rule", "start", run.mem)
  <2>1. ASSUME Swap!Do("rule", [sys EXCEPT !.rule = TRUE],
                 Swap!Goto(Swap!Noted(run, ~sys.rule), "start"))
        PROVE  SwapRunTypes /\ SwapMoves("rule", "start", run.mem)
    BY <2>1, <1>1, <1>2, <1>3, SwapNotedValues, SwapDoes, SwapPlaceNames DEF SwapTypes
  <2>2. ASSUME Swap!Fault("rule", Swap!Goto(Swap!Warned(run), "start"))
        PROVE  SwapRunTypes /\ SwapBreaks("rule", "start", run.mem)
    BY <2>2, <1>1, <1>2, <1>3, SwapValues, SwapFaults, SwapPlaceNames DEF SwapTypes
  <2> QED
    BY <2>1, <2>2, <1>2, <1>3 DEF Swap!WriteRule
<1>5. /\ sys' \in SwapMachines
      /\ SwapDiskSame /\ SwapBootSame /\ SwapHereSame
  BY <1>1, <1>2, <1>3
     DEF Swap!WriteRule, SwapTypes, Swap!Do, Swap!Fault, Swap!FaultLeaving, SwapDiskSame,
         SwapBootSame, SwapHereSame
<1>6. SwapTypes'
  BY <1>1, <1>4, <1>5 DEF SwapTypes, SwapRunTypes
<1>7. SwapCallerInv'
  BY <1>2, <1>3, <1>4, <1>5
     DEF SwapInv, SwapCallerInv, SwapBefore, SwapAfter, SwapMoves, SwapBreaks, SwapDiskSame,
         SwapBootSame, SwapHereSame
<1>8. SwapOffInv'
  BY <1>2, <1>3, <1>4, <1>5
     DEF SwapInv, SwapOffInv, SwapMoves, SwapBreaks, SwapDiskSame, SwapBootSame,
         SwapHereSame
<1>9. SwapOffsetInv'
  BY <1>2, <1>3, <1>4, <1>5
     DEF SwapInv, SwapOffsetInv, SwapCallerInv, SwapBefore, SwapFilling, SwapPublishing,
         SwapMoves, SwapBreaks, SwapDiskSame, SwapBootSame, SwapHereSame
<1>10. SwapClaimInv'
  BY <1>2, <1>3, <1>4, <1>5
     DEF SwapInv, SwapClaimInv, SwapCallerInv, SwapOffsetInv, SwapAgreed, SwapBefore,
         SwapAfter, SwapPublishing, SwapMoves, SwapBreaks, SwapDiskSame, SwapBootSame,
         SwapHereSame
<1>11. SwapUnitInv'
  BY <1>2, <1>3, <1>4, <1>5
     DEF SwapInv, SwapUnitInv, SwapCallerInv, SwapOffsetInv, SwapClaimInv, SwapAgreed,
         SwapBefore, SwapAfter, SwapPublishing, SwapMoves, SwapBreaks, SwapDiskSame,
         SwapBootSame, SwapHereSame
<1> QED
  BY <1>6, <1>7, <1>8, <1>9, <1>10, <1>11 DEF SwapInv

LEMMA SwapStartUnitKeeps == SwapInv /\ Swap!StartUnit => SwapInv'
<1> SUFFICES ASSUME SwapInv, Swap!StartUnit PROVE SwapInv'
  OBVIOUS
<1>1. SwapTypes
  BY DEF SwapInv
<1>2. /\ [run.mem EXCEPT !.by = "unit", !.offset = 0, !.pwarn = FALSE] \in SwapMems
      /\ [run.mem EXCEPT !.by = "unit", !.offset = 0, !.pwarn = FALSE].offset = 0
      /\ [run.mem EXCEPT !.by = "unit", !.offset = 0, !.pwarn = FALSE].pwarn = FALSE
      /\ [run.mem EXCEPT !.by = "unit", !.offset = 0, !.pwarn = FALSE].pub = run.mem.pub
      /\ [run.mem EXCEPT !.by = "unit", !.offset = 0, !.pwarn = FALSE].by = "unit"
      /\ [run.mem EXCEPT !.by = "unit", !.offset = 0, !.pwarn = FALSE].claim = run.mem.claim
  BY <1>1 DEF SwapTypes, SwapRuns, SwapMems
<1>3. /\ SwapRunTypes
      /\ \/ SwapMoves("start", "size", [run.mem EXCEPT !.by = "unit", !.offset = 0,
              !.pwarn = FALSE])
         \/ SwapMoves("start", "end", run.mem)
         \/ SwapBreaks("start", "end", run.mem)
  <2>1. ASSUME Swap!Do("start", sys, Swap!Goto(Swap!Recall(run,
                 [run.mem EXCEPT !.by = "unit", !.offset = 0, !.pwarn = FALSE]), "size"))
        PROVE  SwapRunTypes
                 /\ SwapMoves("start", "size", [run.mem EXCEPT !.by = "unit", !.offset = 0,
                      !.pwarn = FALSE])
    BY <2>1, <1>1, <1>2, SwapMemValues, SwapDoes, SwapPlaceNames DEF SwapTypes
  <2>2. ASSUME Swap!Do("start", sys, Swap!Goto(Swap!Warned(run), "end"))
        PROVE  SwapRunTypes /\ SwapMoves("start", "end", run.mem)
    BY <2>2, <1>1, <1>2, SwapValues, SwapDoes, SwapPlaceNames DEF SwapTypes
  <2>3. ASSUME Swap!Fault("start", Swap!Goto(Swap!Warned(run), "end"))
        PROVE  SwapRunTypes /\ SwapBreaks("start", "end", run.mem)
    BY <2>3, <1>1, <1>2, SwapValues, SwapFaults, SwapPlaceNames DEF SwapTypes
  <2>4. ASSUME Swap!Do("start", sys, Swap!Goto(run, "end"))
        PROVE  SwapRunTypes /\ SwapMoves("start", "end", run.mem)
    BY <2>4, <1>1, <1>2, SwapValues, SwapDoes, SwapPlaceNames DEF SwapTypes
  <2> QED
    BY <2>1, <2>2, <2>3, <2>4, <1>2 DEF Swap!StartUnit, Swap!StartUnitOf
<1>4. sys' = sys
  BY <1>1, <1>2 DEF Swap!StartUnit, Swap!StartUnitOf, SwapTypes, Swap!Do, Swap!Fault, Swap!FaultLeaving
<1>5. SwapTypes'
  BY <1>1, <1>3, <1>4 DEF SwapTypes, SwapRunTypes
<1>6. SwapCallerInv'
  BY <1>2, <1>3, <1>4
     DEF SwapInv, SwapCallerInv, SwapBefore, SwapAfter, SwapMoves, SwapBreaks
<1>7. SwapOffInv'
  BY <1>2, <1>3, <1>4 DEF SwapInv, SwapOffInv, SwapMoves, SwapBreaks
<1>8. SwapOffsetInv'
  BY <1>2, <1>3, <1>4
     DEF SwapInv, SwapOffsetInv, SwapCallerInv, SwapBefore, SwapFilling, SwapPublishing,
         SwapMoves, SwapBreaks
<1>9. SwapClaimInv'
  BY <1>2, <1>3, <1>4
     DEF SwapInv, SwapClaimInv, SwapCallerInv, SwapOffsetInv, SwapAgreed, SwapBefore,
         SwapAfter, SwapPublishing, SwapMoves, SwapBreaks
<1>10. SwapUnitInv'
  BY <1>2, <1>3, <1>4
     DEF SwapInv, SwapUnitInv, SwapCallerInv, SwapOffsetInv, SwapClaimInv, SwapAgreed,
         SwapBefore, SwapAfter, SwapPublishing, SwapMoves, SwapBreaks
<1> QED
  BY <1>5, <1>6, <1>7, <1>8, <1>9, <1>10 DEF SwapInv

LEMMA SwapDeployKeeps == SwapInv /\ Swap!Deploy => SwapInv'
  BY SwapDeployProgramKeeps, SwapSetProgramModeKeeps, SwapWriteUnitKeeps,
     SwapReloadSystemdKeeps, SwapEnableUnitKeeps
     DEF Swap!Deploy

LEMMA SwapFresh ==
  /\ Swap!Fresh \in SwapMems /\ Swap!Fresh.by = "task" /\ ~Swap!Fresh.claim /\ ~Swap!Fresh.pub
  /\ Swap!Fresh.offset = 0
  /\ [Swap!Fresh EXCEPT !.by = "boot"] \in SwapMems
  /\ [Swap!Fresh EXCEPT !.by = "boot"].by = "boot"
  /\ ~[Swap!Fresh EXCEPT !.by = "boot"].claim /\ ~[Swap!Fresh EXCEPT !.by = "boot"].pub
  /\ [Swap!Fresh EXCEPT !.by = "boot"].offset = 0
  BY SwapNothing DEF Swap!Fresh, SwapMems

LEMMA SwapBegins ==
  ASSUME SwapTypes, NEW label \in SwapPlaces, NEW force \in BOOLEAN, NEW mem \in SwapMems,
         Swap!Begin(label, force, mem)
  PROVE  SwapTypes' /\ sys' = sys /\ run'.pc = label /\ run'.mem = mem
<1>1. (run.pc = "end" /\ ~run.warn /\ ~run.force) \in BOOLEAN
  OBVIOUS
<1>2. run' \in SwapRuns /\ run'.pc = label /\ run'.mem = mem
  BY <1>1 DEF Swap!Begin, SwapRuns
<1>3. left' \in Lefts /\ sys' = sys
  BY BeginSpends DEF Swap!Begin, SwapTypes
<1> QED
  BY <1>2, <1>3 DEF SwapTypes

LEMMA SwapStartTaskKeeps == SwapInv /\ Swap!StartTask => SwapInv'
<1> SUFFICES ASSUME SwapInv, Swap!StartTask PROVE SwapInv'
  OBVIOUS
<1>1. SwapTypes' /\ sys' = sys /\ run'.pc = "packages" /\ run'.mem = Swap!Fresh
  BY SwapBegins, SwapFresh, SwapPlaceNames DEF Swap!StartTask, SwapInv
<1> QED
  BY <1>1, SwapFresh
     DEF SwapInv, SwapCallerInv, SwapOffInv, SwapOffsetInv, SwapClaimInv, SwapUnitInv,
         SwapBefore, SwapAfter, SwapFilling, SwapPublishing

LEMMA SwapBootServiceKeeps == SwapInv /\ Swap!BootService => SwapInv'
<1> SUFFICES ASSUME SwapInv, Swap!BootService PROVE SwapInv'
  OBVIOUS
<1>1. /\ SwapTypes' /\ sys' = sys /\ run'.pc = "size"
      /\ run'.mem = [Swap!Fresh EXCEPT !.by = "boot"]
  BY SwapBegins, SwapFresh, SwapPlaceNames DEF Swap!BootService, SwapInv
<1> QED
  BY <1>1, SwapFresh
     DEF SwapInv, SwapCallerInv, SwapOffInv, SwapOffsetInv, SwapClaimInv, SwapUnitInv,
         SwapBefore, SwapAfter, SwapFilling, SwapPublishing

\* An idle run says nothing of the machine but who worked last.
LEMMA SwapRests ==
  ASSUME SwapInv, sys' \in SwapMachines, left' \in Lefts, run' = Swap!NoRun(run.mem)
  PROVE  SwapInv'
<1>1. run' \in SwapRuns /\ run'.pc = "idle" /\ run'.mem = run.mem
  BY SwapPlaceNames DEF Swap!NoRun, SwapInv, SwapTypes, SwapRuns
<1> QED
  BY <1>1
     DEF SwapInv, SwapTypes, SwapCallerInv, SwapOffInv, SwapOffsetInv, SwapClaimInv,
         SwapUnitInv, SwapBefore, SwapAfter, SwapFilling, SwapPublishing

LEMMA SwapKillKeeps == SwapInv /\ Swap!Kill => SwapInv'
  BY SwapRests, KillSpends DEF Swap!Kill, SwapInv, SwapTypes

LEMMA SwapEvents ==
  ASSUME SwapInv, NEW m \in SwapMachines, Swap!Event(m)
  PROVE  SwapInv'
  BY SwapRests, EventSpends DEF Swap!Event, SwapInv, SwapTypes

LEMMA SwapRebootKeeps == SwapInv /\ Swap!Reboot => SwapInv'
<1> SUFFICES ASSUME SwapInv, NEW snapshot \in BOOLEAN,
                    Swap!Event([Swap!Booted(sys) EXCEPT !.snapshot = snapshot])
             PROVE  SwapInv'
  BY DEF Swap!Reboot
<1>1. sys \in SwapMachines
  BY DEF SwapInv, SwapTypes
<1>2. Swap!BootedUnits(sys.dep) \in SwapDeps
  BY <1>1 DEF Swap!BootedUnits, SwapMachines, SwapDeps
<1> DEFINE foreign == IF {"file", "fstab"} \subseteq sys.foreign THEN sys.foreign \cup {"on"}
                      ELSE sys.foreign \ {"on"}
<1>3. foreign \in SUBSET {"on", "file", "fstab"}
  BY <1>1 DEF SwapMachines
<1>4. Swap!Booted(sys) = [sys EXCEPT !.on = FALSE, !.power = 0,
                                     !.dep = Swap!BootedUnits(sys.dep), !.foreign = foreign]
  BY DEF Swap!Booted
<1> HIDE DEF foreign
<1>5. Swap!Booted(sys) \in SwapMachines
  BY <1>1, <1>2, <1>3, <1>4 DEF SwapMachines
<1>6. [Swap!Booted(sys) EXCEPT !.snapshot = snapshot] \in SwapMachines
  BY <1>5 DEF SwapMachines
<1> QED
  BY <1>6, SwapEvents

LEMMA SwapMoreMemoryKeeps == SwapInv /\ Swap!MoreMemory => SwapInv'
<1> SUFFICES ASSUME SwapInv, NEW ram \in RamTerms, Swap!Event([sys EXCEPT !.ram = ram])
             PROVE  SwapInv'
  BY DEF Swap!MoreMemory
<1>1. [sys EXCEPT !.ram = ram] \in SwapMachines
  BY DEF SwapInv, SwapTypes, SwapMachines
<1> QED
  BY <1>1, SwapEvents

LEMMA InitSwap == Swap!Init => SwapInv
<1> SUFFICES ASSUME Swap!Init PROVE SwapInv
  OBVIOUS
<1>1. PICK ram \in RamTerms, foreign \in {{}, {"on", "file", "fstab"}} :
        sys = [Swap!Machine EXCEPT !.ram = ram, !.foreign = foreign]
  BY DEF Swap!Init
<1>2. Swap!NoFile \in SwapFiles /\ Swap!NotDeployed \in SwapDeps
  BY SwapNothing DEF Swap!NoFile, Swap!NotDeployed, SwapFiles, SwapDeps
<1>3. sys = [file |-> Swap!NoFile, on |-> FALSE, ram |-> ram, grub |-> 0, menu |-> 0,
             power |-> 0, resume |-> FALSE, image |-> FALSE, rule |-> FALSE,
             snapshot |-> FALSE, foreign |-> foreign, dep |-> Swap!NotDeployed]
  BY <1>1 DEF Swap!Machine
<1>4. sys \in SwapMachines
  BY <1>2, <1>3 DEF SwapMachines
<1>5. run \in SwapRuns /\ run.pc = "idle" /\ run.mem = Swap!Fresh
  BY SwapFresh, SwapPlaceNames DEF Swap!Init, Swap!NoRun, SwapRuns
<1>6. left \in Lefts
  BY BudgetIsLeft DEF Swap!Init, Swap!Budget
<1> QED
  BY <1>4, <1>5, <1>6, SwapFresh
     DEF SwapInv, SwapTypes, SwapCallerInv, SwapOffInv, SwapOffsetInv, SwapClaimInv,
         SwapUnitInv, SwapBefore, SwapAfter, SwapFilling, SwapPublishing

LEMMA NextSwap == SwapInv /\ [Swap!Next]_vars => SwapInv'
<1> SUFFICES ASSUME SwapInv, [Swap!Next]_vars PROVE SwapInv'
  OBVIOUS
<1>1. ASSUME UNCHANGED vars PROVE SwapInv'
  BY <1>1 DEF vars, SwapInv, SwapTypes, SwapCallerInv, SwapOffInv, SwapOffsetInv,
              SwapClaimInv, SwapUnitInv, SwapAgreed
<1>2. ASSUME Swap!Step PROVE SwapInv'
  BY <1>2, SwapInstallToolsKeeps, SwapSwitchOffForeignKeeps, SwapDeleteForeignKeeps,
     SwapForgetForeignKeeps, SwapReadDeviceKeeps, SwapRunProgramKeeps, SwapReadStateKeeps,
     SwapProbeKeeps, SwapSwapOffKeeps, SwapCreateKeeps, SwapAllocateKeeps, SwapFormatKeeps,
     SwapSwapOnKeeps, SwapReadOffsetKeeps, SwapWriteCommandLineKeeps, SwapRebuildMenuKeeps,
     SwapWriteInitramfsKeeps, SwapTellKernelKeeps, SwapProgramBreaksKeeps,
     SwapProgramFailsKeeps, SwapProgramDoneKeeps, SwapRebuildImageKeeps, SwapVerifyKeeps,
     SwapWriteRuleKeeps, SwapStartUnitKeeps, SwapDeployKeeps
     DEF Swap!Step
<1> QED
  BY <1>1, <1>2, SwapStartTaskKeeps, SwapBootServiceKeeps, SwapKillKeeps, SwapRebootKeeps,
     SwapMoreMemoryKeeps
     DEF Swap!Next

SwapHolds == section = "swap" => SwapInv

\* what no step changes but those that lay the file down and those that publish
\* its address
SwapKept == sys'.file = sys.file /\ sys'.grub = sys.grub /\ sys'.menu = sys.menu

LEMMA SwapQuietSteps ==
  ASSUME \/ Swap!InstallTools \/ Swap!ReadDevice \/ Swap!RunProgram \/ Swap!ReadState
         \/ Swap!Probe \/ Swap!ReadOffset \/ Swap!ProgramBreaks \/ Swap!Verify
         \/ Swap!StartUnit \/ Swap!StartTask
         \/ Swap!BootService \/ Swap!Kill \/ UNCHANGED vars
  PROVE  sys' = sys
<1>1. CASE Swap!InstallTools \/ Swap!ReadDevice \/ Swap!RunProgram \/ Swap!ReadState
  BY <1>1 DEF Swap!InstallTools, Swap!ReadDevice, Swap!RunProgram, Swap!ReadState, Swap!Do,
              Swap!Fault, Swap!FaultLeaving
<1>2. CASE Swap!Probe \/ Swap!ReadOffset \/ Swap!ProgramBreaks
  BY <1>2 DEF Swap!Probe, Swap!ReadOffset, Swap!ProgramBreaks, Swap!Do,
              Swap!Fault, Swap!FaultLeaving
<1>3. CASE Swap!Verify \/ Swap!StartUnit
  BY <1>3 DEF Swap!Verify, Swap!StartUnit, Swap!StartUnitOf, Swap!Do, Swap!Fault,
              Swap!FaultLeaving
<1>4. CASE Swap!StartTask \/ Swap!BootService \/ Swap!Kill \/ UNCHANGED vars
  BY <1>4 DEF Swap!StartTask, Swap!BootService, Swap!Begin, Swap!Kill, vars
<1> QED
  BY <1>1, <1>2, <1>3, <1>4

LEMMA SwapKeepingSteps ==
  ASSUME sys \in SwapMachines,
         \/ Swap!SwitchOffForeign \/ Swap!DeleteForeign \/ Swap!ForgetForeign \/ Swap!Deploy
         \/ Swap!SwapOff \/ Swap!SwapOn \/ Swap!WriteInitramfs \/ Swap!TellKernel
         \/ Swap!RebuildImage \/ Swap!WriteRule \/ Swap!ProgramFails \/ Swap!ProgramDone
  PROVE  SwapKept
<1>1. CASE Swap!SwitchOffForeign \/ Swap!DeleteForeign \/ Swap!ForgetForeign
  BY <1>1 DEF Swap!SwitchOffForeign, Swap!DeleteForeign, Swap!ForgetForeign, Swap!Do,
              Swap!Fault, Swap!FaultLeaving, SwapKept, SwapMachines
<1>2. CASE Swap!Deploy
  BY <1>2 DEF Swap!Deploy, Swap!DeployProgram, Swap!SetProgramMode, Swap!WriteUnit,
              Swap!ReloadSystemd, Swap!EnableUnit, Swap!Do, Swap!Fault, Swap!FaultLeaving,
              SwapKept, SwapMachines
<1>3. CASE Swap!SwapOff \/ Swap!SwapOn
  BY <1>3 DEF Swap!SwapOff, Swap!SwapOn, Swap!Do, SwapKept, SwapMachines
<1>4. CASE Swap!WriteInitramfs \/ Swap!TellKernel
  BY <1>4 DEF Swap!WriteInitramfs, Swap!TellKernel, Swap!Unpublished, Swap!Do, Swap!Fault,
              Swap!FaultLeaving, SwapKept, SwapMachines
<1>5. CASE Swap!RebuildImage \/ Swap!WriteRule
  BY <1>5 DEF Swap!RebuildImage, Swap!WriteRule, Swap!Do, Swap!Fault, Swap!FaultLeaving,
              SwapKept, SwapMachines
<1>6. CASE Swap!ProgramFails \/ Swap!ProgramDone
  BY <1>6, SwapUnitLeaves DEF Swap!ProgramFails, Swap!ProgramDone, Swap!Do, SwapKept
<1> QED
  BY <1>1, <1>2, <1>3, <1>4, <1>5, <1>6

LEMMA SwapFillingSteps ==
  ASSUME SwapInv, Swap!Create \/ Swap!Allocate \/ Swap!Format
  PROVE  ~sys.on /\ sys'.grub = sys.grub /\ sys'.menu = sys.menu
<1>1. sys \in SwapMachines
  BY DEF SwapInv, SwapTypes
<1>2. ~sys.on
  BY DEF SwapInv, SwapOffInv, Swap!Create, Swap!Allocate, Swap!Format, Swap!Do
<1>3. sys'.grub = sys.grub /\ sys'.menu = sys.menu
  BY <1>1 DEF Swap!Create, Swap!Allocate, Swap!Format, Swap!Do, SwapMachines
<1> QED
  BY <1>2, <1>3

LEMMA SwapPublishingSteps ==
  ASSUME SwapInv, Swap!WriteCommandLine \/ Swap!RebuildMenu
  PROVE  ~sys.snapshot /\ sys'.file = sys.file
<1>1. sys \in SwapMachines
  BY DEF SwapInv, SwapTypes
<1>2. run.pc \in SwapPublishing
  BY DEF Swap!WriteCommandLine, Swap!RebuildMenu, Swap!Unpublished, Swap!Do, Swap!Fault,
         Swap!FaultLeaving, SwapPublishing
<1>3. ~sys.snapshot
  BY <1>2 DEF SwapInv, SwapOffsetInv
<1>4. sys'.file = sys.file
  BY <1>1 DEF Swap!WriteCommandLine, Swap!RebuildMenu, Swap!Unpublished, Swap!Do, Swap!Fault,
              Swap!FaultLeaving, SwapMachines
<1> QED
  BY <1>3, <1>4

LEMMA SwapEventSteps ==
  ASSUME sys \in SwapMachines, Swap!Reboot \/ Swap!MoreMemory
  PROVE  Swap!AtRest /\ sys'.file = sys.file
<1>1. CASE Swap!Reboot
  <2>1. PICK snapshot \in BOOLEAN : Swap!Event([Swap!Booted(sys) EXCEPT !.snapshot =
          snapshot])
    BY <1>1 DEF Swap!Reboot
  <2>2. DOMAIN Swap!Booted(sys) = DOMAIN sys /\ Swap!Booted(sys).file = sys.file
    BY DEF Swap!Booted, SwapMachines
  <2>3. [Swap!Booted(sys) EXCEPT !.snapshot = snapshot].file = sys.file
    BY <2>2 DEF SwapMachines
  <2> QED
    BY <2>1, <2>3 DEF Swap!Event
<1>2. CASE Swap!MoreMemory
  BY <1>2 DEF Swap!MoreMemory, Swap!Event, SwapMachines
<1> QED
  BY <1>1, <1>2

\* An active swap file is never rewritten, and a session started from a snapshot
\* leaves the address of the machine's own boot alone.
LEMMA SwapSteps ==
  SwapInv /\ [Swap!Next]_vars => Swap!ActiveFileStep /\ (Swap!SnapshotStep \/ Swap!AtRest)
<1> SUFFICES ASSUME SwapInv, [Swap!Next]_vars
             PROVE  Swap!ActiveFileStep /\ (Swap!SnapshotStep \/ Swap!AtRest)
  OBVIOUS
<1>1. sys \in SwapMachines
  BY DEF SwapInv, SwapTypes
<1>2. \/ SwapKept
      \/ ~sys.on /\ sys'.grub = sys.grub /\ sys'.menu = sys.menu
      \/ ~sys.snapshot /\ sys'.file = sys.file
      \/ Swap!AtRest /\ sys'.file = sys.file
  <2>1. CASE Swap!Step
    BY <1>1, <2>1, SwapQuietSteps, SwapKeepingSteps, SwapFillingSteps, SwapPublishingSteps
       DEF Swap!Step, SwapKept
  <2>2. CASE Swap!StartTask \/ Swap!BootService \/ Swap!Kill \/ UNCHANGED vars
    BY <2>2, SwapQuietSteps DEF SwapKept
  <2>3. CASE Swap!Reboot \/ Swap!MoreMemory
    BY <1>1, <2>3, SwapEventSteps
  <2> QED
    BY <2>1, <2>2, <2>3 DEF Swap!Next
<1> QED
  BY <1>2 DEF Swap!ActiveFileStep, Swap!SnapshotStep, SwapKept
-----------------------------------------------------------------------------
(*****************************************************************************)
(* The panel: what it has handed out stays, one client is served as long as  *)
(* every call succeeded, a run that failed nowhere speaks HTTPS, and a run   *)
(* writes the routing document at most twice.                                *)
(*****************************************************************************)
PanelPlaces == Panel!Labels \cup {"idle", "end"}
PanelPorts  == {"other", "target"}
PanelFiles  == {"none", "other", "target"}
PanelDraws  == 0..MoreRuns
PanelStores == [port : PanelPorts, gen : PanelDraws, cert : {"none", "self", "trusted"}]
PanelEnvs   == [port : PanelFiles, gen : PanelDraws]
PanelMachines ==
  [version : {"none", "old", "new"}, enabled : BOOLEAN, active : BOOLEAN, db : PanelStores,
   live : [port : PanelPorts, gen : PanelDraws, tls : BOOLEAN], env : PanelEnvs,
   entry : {<<>>} \cup (PanelFiles \X PanelDraws \X BOOLEAN), paths : BOOLEAN,
   inbound : {"none", "bare", "keyed"}, keys : PanelDraws, share : BOOLEAN,
   clients : SUBSET PanelDraws,
   profile : [id : PanelDraws, keys : PanelDraws, addressed : BOOLEAN],
   proxy : BOOLEAN, policy : BOOLEAN, remote : BOOLEAN, reach : BOOLEAN]
PanelMems == [had : BOOLEAN, ssl : BOOLEAN, open : BOOLEAN, id : PanelDraws,
              addressed : BOOLEAN, writes : Nat]
PanelRuns == [pc : PanelPlaces, force : BOOLEAN, warn : BOOLEAN, changed : BOOLEAN,
              hurt : BOOLEAN, settled : BOOLEAN, mem : PanelMems]
PanelLefts == [runs : 0..MoreRuns, faults : 0..MaxFaults, kills : 0..MaxKills,
               events : 0..MaxEvents]
PanelTypes == sys \in PanelMachines /\ run \in PanelRuns /\ left \in PanelLefts

\* the places of a run: before it opens the vault, between that and the profile,
\* and while it writes and asks back the routing document
PanelEarly   == {"release", "free", "download", "install", "active", "rotate", "rotate_env",
                 "rotate_restart", "port", "port_restart", "ssl", "acme", "openssl",
                 "ssl_restart", "sync", "login", "paths", "inbound", "share", "vault"}
PanelHanding == {"client", "profile"}
PanelAsking  == {"test", "rewrite", "retest", "path", "path_rewrite", "path_retest"}

\* where the panel is there, and where it has a certificate
PanelThere == {"active", "rotate", "rotate_env", "rotate_restart", "port_restart", "acme",
               "openssl", "ssl_restart"}
PanelSpeaking == {"ssl_restart", "sync", "login", "paths", "inbound", "share", "vault",
                  "client", "profile", "proxy", "policy"} \cup PanelAsking

\* the run holds the identity of the vault once it has opened it
PanelIdentityAt(m, r) ==
  /\ r.pc \in PanelEarly => ~r.mem.open
  /\ r.pc \in PanelHanding /\ r.mem.open /\ m.profile.id # 0 => r.mem.id = m.profile.id

\* a panel that is not there does not run
PanelPlaceAt(m, r) ==
  /\ m.version = "none" => ~m.active
  /\ r.pc \in PanelThere => m.version # "none"

\* without a failed call there is one identity: in the vault, at the panel and
\* in the run
PanelClientAt(m, r) ==
  /\ \A one, other \in m.clients : one = other
  /\ m.profile.id # 0 => m.clients \subseteq {m.profile.id}
  /\ r.pc \in PanelHanding => r.mem.open /\ m.clients \subseteq {r.mem.id}

\* a run whose calls all succeeded has given the panel a certificate before it
\* speaks to it
PanelHttpsAt(m, r) ==
  ~r.hurt /\ (r.pc \in PanelSpeaking \/ (r.pc = "end" /\ m.active)) => m.db.cert # "none"

\* what a run has written of the routing document so far
PanelWritesAt(r) ==
  /\ r.pc \notin PanelAsking \cup {"idle", "end"} => r.mem.writes = 0
  /\ r.pc \in {"test", "rewrite", "path_rewrite"} => r.mem.writes <= 1
  /\ r.mem.writes <= 2

PanelCalm == left.faults = MaxFaults
PanelInv ==
  /\ PanelTypes
  /\ PanelIdentityAt(sys, run) /\ PanelPlaceAt(sys, run) /\ PanelHttpsAt(sys, run)
  /\ PanelWritesAt(run)
  /\ PanelCalm => PanelClientAt(sys, run)


LEMMA PanelPlaceNames ==
  /\ Panel!Labels = {"release", "free", "download", "install", "active", "rotate",
       "rotate_env",
                     "rotate_restart", "port", "port_restart", "ssl", "acme", "openssl",
                     "ssl_restart", "sync", "login", "paths", "inbound", "share", "vault",
                     "client", "profile", "proxy", "policy", "test", "rewrite", "retest",
                     "path", "path_rewrite", "path_retest"}
  /\ PanelPlaces = Panel!Labels \cup {"idle", "end"}
  /\ PanelEarly = {"release", "free", "download", "install", "active", "rotate", "rotate_env",
                   "rotate_restart", "port", "port_restart", "ssl", "acme", "openssl",
                   "ssl_restart", "sync", "login", "paths", "inbound", "share", "vault"}
  /\ PanelHanding = {"client", "profile"}
  /\ PanelThere = {"active", "rotate", "rotate_env", "rotate_restart", "port_restart", "acme",
                   "openssl", "ssl_restart"}
  /\ PanelAsking = {"test", "rewrite", "retest", "path", "path_rewrite", "path_retest"}
  /\ PanelSpeaking = {"ssl_restart", "sync", "login", "paths", "inbound", "share", "vault",
                      "client", "profile", "proxy", "policy"} \cup PanelAsking
  BY DEF PanelPlaces, Panel!Labels, PanelEarly, PanelHanding, PanelThere, PanelAsking,
         PanelSpeaking

LEMMA PanelNumbers == MoreRuns \in Nat /\ 0 \in PanelDraws /\ PanelDraws \subseteq Nat
  BY BoundsAreNumbers DEF PanelDraws

LEMMA PanelDrawn == left \in PanelLefts => Panel!Draw \in PanelDraws
<1> SUFFICES ASSUME left \in PanelLefts PROVE Panel!Draw \in PanelDraws
  OBVIOUS
<1>1. left.runs \in 0..MoreRuns
  BY DEF PanelLefts
<1> QED
  BY <1>1, PanelNumbers DEF Panel!Draw, PanelDraws

\* the identity taken over from the panel is that of one of its clients
LEMMA PanelFirst ==
  ASSUME NEW clients, clients \subseteq Nat, clients # {}
  PROVE  Panel!First(clients) \in clients
<1> DEFINE below == OpToRel(<, Nat)
<1>1. IsWellFoundedOn(below, Nat)
  BY NatLessThanWellFounded
<1>2. \A x, y \in Nat : x < y => <<x, y>> \in below
  BY DEF OpToRel
<1> HIDE DEF below
<1>3. PICK least \in clients : \A other \in clients : ~(<<other, least>> \in below)
  BY <1>1, WFMin
<1>4. \A other \in clients : least <= other
  <2> SUFFICES ASSUME NEW other \in clients PROVE least <= other
    OBVIOUS
  <2>1. least \in Nat /\ other \in Nat
    OBVIOUS
  <2>2. ~(other < least)
    BY <1>2, <1>3, <2>1
  <2> QED
    BY <2>1, <2>2
<1> QED
  BY <1>3, <1>4 DEF Panel!First

LEMMA PanelFaultSpends ==
  ASSUME left \in PanelLefts, left.faults > 0, left' = [left EXCEPT !.faults = @ - 1]
  PROVE  left' \in PanelLefts /\ left'.faults < MaxFaults
<1>1. left.faults \in 0..MaxFaults /\ MaxFaults \in Nat
  BY BoundsAreNumbers DEF PanelLefts
<1>2. left.faults - 1 \in 0..MaxFaults /\ left.faults - 1 < MaxFaults
  BY <1>1
<1>3. left' \in PanelLefts /\ left'.faults = left.faults - 1
  BY <1>2 DEF PanelLefts
<1> QED
  BY <1>2, <1>3

LEMMA PanelOtherSpends ==
  ASSUME left \in PanelLefts,
         \/ left.runs > 0 /\ left' = [left EXCEPT !.runs = @ - 1]
         \/ left.kills > 0 /\ left' = [left EXCEPT !.kills = @ - 1]
         \/ left.events > 0 /\ left' = [left EXCEPT !.events = @ - 1]
  PROVE  left' \in PanelLefts /\ left'.faults = left.faults
<1>1. CASE left.runs > 0 /\ left' = [left EXCEPT !.runs = @ - 1]
  <2>1. left.runs - 1 \in 0..MoreRuns
    BY <1>1, BoundsAreNumbers DEF PanelLefts
  <2> QED
    BY <1>1, <2>1 DEF PanelLefts
<1>2. CASE left.kills > 0 /\ left' = [left EXCEPT !.kills = @ - 1]
  <2>1. left.kills - 1 \in 0..MaxKills
    BY <1>2, BoundsAreNumbers DEF PanelLefts
  <2> QED
    BY <1>2, <2>1 DEF PanelLefts
<1>3. CASE left.events > 0 /\ left' = [left EXCEPT !.events = @ - 1]
  <2>1. left.events - 1 \in 0..MaxEvents
    BY <1>3, BoundsAreNumbers DEF PanelLefts
  <2> QED
    BY <1>3, <2>1 DEF PanelLefts
<1> QED
  BY <1>1, <1>2, <1>3

\* what was handed out is still there
PanelKeeps(m) ==
  /\ m \in PanelMachines
  /\ sys.profile.id # 0 => m.profile.id = sys.profile.id
  /\ sys.inbound = "keyed" => m.keys = sys.keys
  /\ sys.clients \subseteq m.clients

LEMMA PanelDoes ==
  ASSUME PanelInv, NEW from \in Panel!Labels, NEW r \in PanelRuns, NEW m, PanelKeeps(m),
         PanelIdentityAt(m, r), PanelPlaceAt(m, r), PanelWritesAt(r),
         \/ /\ Panel!Do(from, m, r)
            /\ (PanelCalm => PanelClientAt(m, r)) /\ PanelHttpsAt(m, r)
         \/ Panel!FaultLeaving(from, m, r)
  PROVE  PanelInv' /\ Panel!Handed
<1>1. sys' = m
  BY DEF Panel!Do, Panel!FaultLeaving
<1>2. Panel!Handed
  BY <1>1 DEF PanelKeeps, Panel!Handed
<1>3. ASSUME Panel!Do(from, m, r), PanelCalm => PanelClientAt(m, r), PanelHttpsAt(m, r)
      PROVE  PanelInv'
  <2>1. run' = r /\ left' = left
    BY <1>3 DEF Panel!Do
  <2>2. PanelTypes'
    BY <1>1, <2>1 DEF PanelInv, PanelTypes, PanelKeeps
  <2> QED
    BY <1>1, <1>3, <2>1, <2>2 DEF PanelInv, PanelCalm
<1>4. ASSUME Panel!FaultLeaving(from, m, r) PROVE PanelInv'
  <2>1. run' = [r EXCEPT !.hurt = TRUE] /\ left' \in PanelLefts /\ left'.faults < MaxFaults
    BY <1>4, PanelFaultSpends DEF PanelInv, PanelTypes, Panel!FaultLeaving
  <2>2. run' \in PanelRuns /\ run'.pc = r.pc /\ run'.mem = r.mem /\ run'.hurt
    BY <2>1 DEF PanelRuns
  <2>3. ~PanelCalm'
    BY <2>1, BoundsAreNumbers DEF PanelCalm
  <2>4. PanelTypes'
    BY <1>1, <2>1, <2>2 DEF PanelTypes, PanelKeeps
  <2>5. PanelIdentityAt(sys', run') /\ PanelPlaceAt(sys', run') /\ PanelHttpsAt(sys', run')
          /\ PanelWritesAt(run')
    BY <1>1, <2>2 DEF PanelIdentityAt, PanelPlaceAt, PanelHttpsAt, PanelWritesAt
  <2> QED
    BY <2>3, <2>4, <2>5 DEF PanelInv
<1> QED
  BY <1>2, <1>3, <1>4

\* What a step may make of the run that has nothing to do with the identity or
\* the routing document.
PanelLike(r, to) ==
  /\ r \in PanelRuns /\ r.pc = to /\ (r.hurt <=> run.hurt)
  /\ (r.mem.open <=> run.mem.open) /\ r.mem.id = run.mem.id /\ r.mem.writes = run.mem.writes

LEMMA PanelValues ==
  ASSUME run \in PanelRuns, NEW to \in PanelPlaces
  PROVE  /\ PanelLike(Panel!Goto(run, to), to)
         /\ PanelLike(Panel!Goto(Panel!Warned(run), to), to)
         /\ PanelLike(Panel!Goto(Panel!Changed(run), to), to)
         /\ \A isChange \in BOOLEAN : PanelLike(Panel!Goto(Panel!Noted(run, isChange), to),
              to)
  BY DEF PanelLike, PanelRuns, Panel!Goto, Panel!Warned, Panel!Changed, Panel!Noted

LEMMA PanelMemValues ==
  ASSUME run \in PanelRuns, NEW to \in PanelPlaces, NEW field \in {"had", "ssl", "addressed"},
         NEW value \in BOOLEAN, NEW isChange \in BOOLEAN
  PROVE  /\ PanelLike(Panel!Goto(Panel!Mem(run, field, value), to), to)
         /\ PanelLike(Panel!Goto(Panel!Warned(Panel!Mem(run, field, value)), to), to)
         /\ PanelLike(Panel!Goto(Panel!Mem(Panel!Noted(run, isChange), field, value), to), to)
<1> DEFINE mem == [run.mem EXCEPT ![field] = value]
<1>1. run.mem \in PanelMems
  BY DEF PanelRuns
<1>2. /\ mem \in PanelMems /\ mem.open = run.mem.open /\ mem.id = run.mem.id
      /\ mem.writes = run.mem.writes
  BY <1>1 DEF PanelMems
<1>3. Panel!Noted(run, isChange).mem = run.mem
  BY DEF Panel!Noted, PanelRuns
<1>4. /\ Panel!Mem(run, field, value) = Panel!Recall(run, mem)
      /\ Panel!Mem(Panel!Noted(run, isChange), field, value)
           = Panel!Recall(Panel!Noted(run, isChange), mem)
  BY <1>3 DEF Panel!Mem
<1> HIDE DEF mem
<1> QED
  BY <1>2, <1>4
     DEF PanelLike, PanelRuns, Panel!Goto, Panel!Warned, Panel!Noted, Panel!Recall

\* a machine with the clients and the profile of before
PanelQuiet(m) ==
  /\ m \in PanelMachines
  /\ m.profile = sys.profile /\ m.clients = sys.clients
  /\ sys.inbound = "keyed" => m.keys = sys.keys
  /\ m.version = "none" => ~m.active

\* one place follows another on a machine m
PanelFollows(m, from, to) ==
  /\ to \in PanelEarly => from \in PanelEarly
  /\ to \in PanelHanding => from \in PanelHanding
  /\ to \in PanelThere => m.version # "none"
  /\ to \notin PanelAsking \cup {"idle", "end"}
       => from \notin PanelAsking \cup {"idle", "end"}
  /\ to \in {"test", "rewrite", "path_rewrite"} => run.mem.writes <= 1

\* and the panel has a certificate where the run needs one
PanelSecures(m, from, to) ==
  \/ to \notin PanelSpeaking /\ (to = "end" => ~m.active)
  \/ from \in PanelSpeaking /\ m.db.cert = sys.db.cert
  \/ m.db.cert # "none"

LEMMA PanelMoves ==
  ASSUME PanelInv, NEW from \in Panel!Labels, NEW to, NEW r, PanelLike(r, to),
         NEW m, PanelQuiet(m), run.pc = from => PanelFollows(m, from, to),
         \/ Panel!Do(from, m, r) /\ PanelSecures(m, from, to)
         \/ Panel!FaultLeaving(from, m, r)
  PROVE  PanelInv' /\ Panel!Handed
<1>1. run.pc = from /\ PanelFollows(m, from, to)
  BY DEF Panel!Do, Panel!FaultLeaving
<1>2. PanelKeeps(m) /\ r \in PanelRuns
  BY DEF PanelKeeps, PanelQuiet, PanelLike
<1>3. PanelIdentityAt(m, r)
  BY <1>1 DEF PanelInv, PanelIdentityAt, PanelQuiet, PanelLike, PanelFollows
<1>4. PanelPlaceAt(m, r)
  BY <1>1 DEF PanelPlaceAt, PanelQuiet, PanelLike, PanelFollows
<1>5. PanelWritesAt(r)
  BY <1>1 DEF PanelInv, PanelWritesAt, PanelLike, PanelFollows
<1>6. PanelCalm => PanelClientAt(m, r)
  BY <1>1 DEF PanelInv, PanelClientAt, PanelQuiet, PanelLike, PanelFollows
<1>7. CASE Panel!FaultLeaving(from, m, r)
  BY <1>2, <1>3, <1>4, <1>5, <1>7, PanelDoes
<1>8. CASE Panel!Do(from, m, r) /\ PanelSecures(m, from, to)
  <2>1. r.pc = to /\ (r.hurt <=> run.hurt)
    BY DEF PanelLike
  <2>2. ~run.hurt /\ from \in PanelSpeaking => sys.db.cert # "none"
    BY <1>1 DEF PanelInv, PanelHttpsAt
  <2>3. PanelHttpsAt(m, r)
    BY <1>8, <2>1, <2>2 DEF PanelHttpsAt, PanelSecures
  <2> QED
    BY <1>2, <1>3, <1>4, <1>5, <1>6, <1>8, <2>3, PanelDoes
<1> QED
  BY <1>7, <1>8

\* a step of the run that leaves the machine alone
LEMMA PanelLooks ==
  ASSUME PanelInv, NEW from \in Panel!Labels, NEW to, NEW r, PanelLike(r, to),
         run.pc = from => PanelFollows(sys, from, to),
         \/ Panel!Do(from, sys, r) /\ PanelSecures(sys, from, to)
         \/ Panel!Fault(from, r)
  PROVE  PanelInv' /\ Panel!Handed
<1>1. PanelQuiet(sys)
  BY DEF PanelInv, PanelTypes, PanelPlaceAt, PanelQuiet
<1> QED
  BY <1>1, PanelMoves DEF Panel!Fault

LEMMA PanelSkips ==
  ASSUME PanelInv, NEW from \in Panel!Labels, NEW to \in PanelPlaces,
         run.pc = from => PanelFollows(sys, from, to),
         \/ Panel!Skip(from, to) /\ PanelSecures(sys, from, to)
         \/ Panel!Do(from, sys,
              Panel!Goto(Panel!Warned(run), to)) /\ PanelSecures(sys, from, to)
         \/ Panel!Fails(from, to)
         \/ Panel!Fault(from, Panel!Goto(run, to))
  PROVE  PanelInv' /\ Panel!Handed
<1>1. PanelLike(Panel!Goto(run, to), to) /\ PanelLike(Panel!Goto(Panel!Warned(run), to), to)
  BY PanelValues DEF PanelInv, PanelTypes
<1> QED
  BY <1>1, PanelLooks DEF Panel!Skip, Panel!Fails

\* what the interface of the panel does not answer
LEMMA PanelReaches ==
  ASSUME PanelInv, NEW label \in Panel!Labels, NEW next, NEW onError \in PanelPlaces,
         run.pc = label => PanelFollows(sys, label, onError),
         label \in PanelSpeaking, Panel!Reached(label, next, onError)
  PROVE  PanelInv' /\ Panel!Handed
<1>1. PanelSecures(sys, label, onError)
  BY DEF PanelSecures
<1> QED
  BY <1>1, PanelSkips DEF Panel!Reached

\* the panel comes up with what it stores, or its restart fails
LEMMA PanelComesUp ==
  ASSUME NEW m \in PanelMachines
  PROVE  /\ Panel!Restarted(m) \in PanelMachines
         /\ Panel!Restarted(m).version = m.version /\ Panel!Restarted(m).db = m.db
         /\ Panel!Restarted(m).profile = m.profile /\ Panel!Restarted(m).clients = m.clients
         /\ Panel!Restarted(m).inbound = m.inbound /\ Panel!Restarted(m).keys = m.keys
<1> DEFINE tls == m.db.cert # "none"
           served == [port |-> m.db.port, gen |-> m.db.gen, tls |-> tls]
<1>1. tls \in BOOLEAN
  OBVIOUS
<1>2. Panel!Restarted(m) = [m EXCEPT !.active = TRUE, !.live = served]
  BY DEF Panel!Restarted
<1> HIDE DEF tls
<1>3. served \in [port : PanelPorts, gen : PanelDraws, tls : BOOLEAN]
  BY <1>1 DEF PanelMachines, PanelStores
<1> HIDE DEF served
<1> DEFINE n == [m EXCEPT !.active = TRUE, !.live = served]
<1>4. n \in PanelMachines
  BY <1>3 DEF PanelMachines
<1>5. /\ n.version = m.version /\ n.db = m.db /\ n.profile = m.profile
      /\ n.clients = m.clients /\ n.inbound = m.inbound /\ n.keys = m.keys
  BY DEF PanelMachines
<1> HIDE DEF n
<1> QED
  BY <1>2, <1>4, <1>5 DEF n

LEMMA PanelRestarts ==
  ASSUME PanelInv, NEW label \in PanelThere, NEW next \in PanelPlaces,
         run.pc = label => PanelFollows(sys, label, next),
         PanelSecures(sys, label, next), next # "end", Panel!RestartPanel(label, next)
  PROVE  PanelInv' /\ Panel!Handed
<1>1. sys \in PanelMachines /\ label \in Panel!Labels
  BY PanelPlaceNames DEF PanelInv, PanelTypes
<1>2. PanelLike(Panel!Goto(run, next), next)
        /\ PanelLike(Panel!Goto(Panel!Warned(run), next), next)
  BY PanelValues DEF PanelInv, PanelTypes
<1>3. run.pc = label
  BY DEF Panel!RestartPanel, Panel!Do, Panel!FaultLeaving
<1>4. sys.version # "none"
  BY <1>3 DEF PanelInv, PanelPlaceAt
<1>5. CASE Panel!Do(label, Panel!Restarted(sys), Panel!Goto(run, next))
  <2>1. PanelQuiet(Panel!Restarted(sys)) /\ PanelFollows(Panel!Restarted(sys), label, next)
    BY <1>1, <1>3, <1>4, PanelComesUp DEF PanelQuiet, PanelFollows
  <2>2. PanelSecures(Panel!Restarted(sys), label, next)
    BY <1>1, PanelComesUp DEF PanelSecures
  <2> QED
    BY <1>1, <1>2, <1>5, <2>1, <2>2, PanelMoves
<1>6. ASSUME NEW active \in {FALSE, sys.active},
             Panel!FaultLeaving(label, [sys EXCEPT !.active = active],
                                Panel!Goto(Panel!Warned(run), next))
      PROVE  PanelInv' /\ Panel!Handed
  <2> DEFINE m == [sys EXCEPT !.active = active]
  <2>1. active \in BOOLEAN
    BY <1>1 DEF PanelMachines
  <2>2. PanelQuiet(m) /\ PanelFollows(m, label, next)
    BY <1>1, <1>3, <1>4, <2>1 DEF PanelQuiet, PanelMachines, PanelFollows
  <2>3. Panel!FaultLeaving(label, m, Panel!Goto(Panel!Warned(run), next))
    BY <1>6
  <2> HIDE DEF m
  <2> QED
    BY <1>1, <1>2, <2>2, <2>3, PanelMoves
<1> QED
  BY <1>5, <1>6 DEF Panel!RestartPanel
-----------------------------------------------------------------------------
LEMMA PanelAskReleaseKeeps == PanelInv /\ Panel!AskRelease => PanelInv' /\ Panel!Handed
<1> SUFFICES ASSUME PanelInv, Panel!AskRelease PROVE PanelInv' /\ Panel!Handed
  OBVIOUS
<1> DEFINE had == sys.version # "none"
           r == Panel!Goto(Panel!Mem(run, "had", had), "free")
<1>1. \/ Panel!Skip("release", "port") \/ Panel!Do("release", sys, r)
      \/ Panel!Fails("release", "port")
  BY DEF Panel!AskRelease, Panel!Skip
<1>2. had \in BOOLEAN
  OBVIOUS
<1> HIDE DEF had
<1>3. PanelLike(r, "free")
  BY <1>2, PanelMemValues, PanelPlaceNames DEF PanelInv, PanelTypes
<1> HIDE DEF r
<1>4. \A to \in {"port", "free"} : PanelFollows(sys, "release", to)
        /\ PanelSecures(sys, "release", to)
  BY PanelPlaceNames DEF PanelFollows, PanelSecures
<1> QED
  BY <1>1, <1>3, <1>4, PanelLooks, PanelSkips, PanelPlaceNames

LEMMA PanelFreePortKeeps == PanelInv /\ Panel!FreePort => PanelInv' /\ Panel!Handed
<1> SUFFICES ASSUME PanelInv, Panel!FreePort PROVE PanelInv' /\ Panel!Handed
  OBVIOUS
<1> DEFINE m == Panel!Stopped(sys)
           r == Panel!Goto(Panel!Mem(run, "ssl", sys.reach), "download")
           s == Panel!Goto(Panel!Mem(run, "ssl", FALSE), "download")
           f == Panel!Goto(Panel!Warned(Panel!Mem(run, "ssl", FALSE)), "download")
<1>1. sys \in PanelMachines /\ run \in PanelRuns
  BY DEF PanelInv, PanelTypes
<1>2. [sys EXCEPT !.active = FALSE] \in PanelMachines
        /\ PanelQuiet([sys EXCEPT !.active = FALSE])
        /\ PanelQuiet(sys)
  BY <1>1 DEF PanelMachines, PanelQuiet, PanelInv, PanelPlaceAt
<1>3. PanelQuiet(m)
  BY <1>2 DEF Panel!Stopped
<1>4. sys.reach \in BOOLEAN
  BY <1>1 DEF PanelMachines
<1>5. PanelLike(r, "download") /\ PanelLike(s, "download") /\ PanelLike(f, "download")
  BY <1>1, <1>4, PanelMemValues, PanelPlaceNames
<1>6. \/ Panel!Do("free", m, r) \/ Panel!Do("free", m, s) \/ Panel!Fails("free", "port")
      \/ Panel!FaultLeaving("free", m, f)
  BY DEF Panel!FreePort
<1> HIDE DEF m, r, s, f
<1>7. /\ PanelFollows(m, "free", "download") /\ PanelSecures(m, "free", "download")
      /\ PanelFollows(sys, "free", "port")
  BY PanelPlaceNames DEF PanelFollows, PanelSecures
<1>8. CASE Panel!Fails("free", "port")
  BY <1>7, <1>8, PanelSkips, PanelPlaceNames
<1>9. CASE ~Panel!Fails("free", "port")
  BY <1>3, <1>5, <1>6, <1>7, <1>9, PanelMoves, PanelPlaceNames
<1> QED
  BY <1>8, <1>9

LEMMA PanelDownloadKeeps == PanelInv /\ Panel!Download => PanelInv' /\ Panel!Handed
<1>1. /\ PanelFollows(sys, "download", "install") /\ PanelSecures(sys, "download", "install")
      /\ PanelFollows(sys, "download", "port")
  BY PanelPlaceNames DEF PanelFollows, PanelSecures
<1> QED
  BY <1>1, PanelSkips, PanelPlaceNames DEF Panel!Download

LEMMA PanelInstallKeeps == PanelInv /\ Panel!Install => PanelInv' /\ Panel!Handed
<1> SUFFICES ASSUME PanelInv, Panel!Install PROVE PanelInv' /\ Panel!Handed
  OBVIOUS
<1> DEFINE r == Panel!Goto(Panel!Changed(run), "active")
           f == Panel!Goto(Panel!Warned(run), "port")
<1>1. sys \in PanelMachines /\ PanelLike(r, "active") /\ PanelLike(f, "port")
        /\ Panel!Draw \in PanelDraws
  BY PanelValues, PanelDrawn, PanelPlaceNames DEF PanelInv, PanelTypes
<1>2. ASSUME NEW m \in PanelMachines, m.version = "new", m.profile = sys.profile,
             m.clients = sys.clients, m.keys = sys.keys,
             Panel!Do("install", Panel!Restarted(m), r)
      PROVE  PanelInv' /\ Panel!Handed
  <2>1. PanelQuiet(Panel!Restarted(m)) /\ Panel!Restarted(m).version = "new"
    BY <1>2, PanelComesUp DEF PanelQuiet
  <2>2. /\ PanelFollows(Panel!Restarted(m), "install", "active")
        /\ PanelSecures(Panel!Restarted(m), "install", "active")
    BY <2>1, PanelPlaceNames DEF PanelFollows, PanelSecures
  <2> HIDE DEF r
  <2> QED
    BY <1>1, <1>2, <2>1, <2>2, PanelMoves, PanelPlaceNames
<1>3. ASSUME NEW cert \in {"none"} \cup (IF run.mem.ssl THEN {"trusted"} ELSE {}),
             Panel!Do("install",
               Panel!Restarted([sys EXCEPT !.version = "new", !.enabled = TRUE,
                  !.db = [port |-> "target", gen |-> Panel!Draw, cert |-> cert],
                  !.env = [port |-> "target", gen |-> Panel!Draw]]), r)
      PROVE  PanelInv' /\ Panel!Handed
  <2> DEFINE db == [port |-> "target", gen |-> Panel!Draw, cert |-> cert]
             env == [port |-> "target", gen |-> Panel!Draw]
             m == [sys EXCEPT !.version = "new", !.enabled = TRUE, !.db = db, !.env = env]
  <2>1. db \in PanelStores /\ env \in PanelEnvs
    BY <1>1 DEF PanelStores, PanelEnvs, PanelPorts, PanelFiles
  <2>2. Panel!Do("install", Panel!Restarted(m), r)
    BY <1>3
  <2> HIDE DEF db, env
  <2>3. /\ m \in PanelMachines /\ m.version = "new" /\ m.profile = sys.profile
        /\ m.clients = sys.clients /\ m.keys = sys.keys
    BY <1>1, <2>1 DEF PanelMachines
  <2> HIDE DEF m
  <2> QED
    BY <1>2, <2>2, <2>3
<1>4. CASE Panel!Do("install", Panel!Restarted([sys EXCEPT !.version = "new",
        !.enabled = TRUE]), r)
  <2> DEFINE m == [sys EXCEPT !.version = "new", !.enabled = TRUE]
  <2>1. /\ m \in PanelMachines /\ m.version = "new" /\ m.profile = sys.profile
        /\ m.clients = sys.clients /\ m.keys = sys.keys
    BY <1>1 DEF PanelMachines
  <2>2. Panel!Do("install", Panel!Restarted(m), r)
    BY <1>4
  <2> HIDE DEF m
  <2> QED
    BY <1>2, <2>1, <2>2
<1>5. ASSUME NEW version \in {"none", sys.version},
             Panel!FaultLeaving("install", [sys EXCEPT !.version = version,
               !.active = FALSE], f)
      PROVE  PanelInv' /\ Panel!Handed
  <2> DEFINE m == [sys EXCEPT !.version = version, !.active = FALSE]
  <2>1. PanelQuiet(m)
    BY <1>1 DEF PanelMachines, PanelQuiet
  <2>2. Panel!FaultLeaving("install", m, f)
    BY <1>5
  <2> HIDE DEF m, f
  <2>3. PanelFollows(m, "install", "port")
    BY PanelPlaceNames DEF PanelFollows
  <2> QED
    BY <1>1, <2>1, <2>2, <2>3, PanelMoves, PanelPlaceNames
<1> QED
  BY <1>3, <1>4, <1>5 DEF Panel!Install

LEMMA PanelAwaitActiveKeeps == PanelInv /\ Panel!AwaitActive => PanelInv' /\ Panel!Handed
<1> SUFFICES ASSUME PanelInv, Panel!AwaitActive PROVE PanelInv' /\ Panel!Handed
  OBVIOUS
<1> DEFINE next == IF run.force /\ run.mem.had THEN "rotate" ELSE "port"
<1>1. Panel!Skip("active", next) \/ Panel!Fails("active", next)
  BY DEF Panel!AwaitActive
<1>2. next \in {"rotate", "port"}
  OBVIOUS
<1> HIDE DEF next
<1>3. run.pc = "active" => PanelFollows(sys, "active", next)
  BY <1>2, PanelPlaceNames DEF PanelInv, PanelPlaceAt, PanelFollows
<1>4. PanelSecures(sys, "active", next)
  BY <1>2, PanelPlaceNames DEF PanelSecures
<1> QED
  BY <1>1, <1>2, <1>3, <1>4, PanelSkips, PanelPlaceNames

LEMMA PanelRotateKeeps == PanelInv /\ Panel!Rotate => PanelInv' /\ Panel!Handed
<1> SUFFICES ASSUME PanelInv, Panel!Rotate PROVE PanelInv' /\ Panel!Handed
  OBVIOUS
<1> DEFINE m(gen) == [sys EXCEPT !.db.gen = gen]
           r == Panel!Goto(run, "rotate_env")
           f == Panel!Goto(Panel!Warned(run), "port")
<1>1. /\ sys \in PanelMachines /\ Panel!Draw \in PanelDraws /\ sys.db.gen \in PanelDraws
      /\ PanelLike(r, "rotate_env") /\ PanelLike(f, "port")
  BY PanelValues, PanelDrawn, PanelPlaceNames DEF PanelInv, PanelTypes, PanelMachines,
       PanelStores
<1>2. ASSUME NEW gen \in PanelDraws
      PROVE  PanelQuiet(m(gen)) /\ m(gen).version = sys.version
  <2>1. [sys.db EXCEPT !.gen = gen] \in PanelStores
    BY <1>1 DEF PanelMachines, PanelStores
  <2>2. m(gen) = [sys EXCEPT !.db = [sys.db EXCEPT !.gen = gen]]
    BY <1>1 DEF PanelMachines
  <2> HIDE DEF m
  <2> QED
    BY <1>1, <2>1, <2>2 DEF PanelQuiet, PanelMachines, PanelInv, PanelPlaceAt
<1>3. \/ Panel!Do("rotate", m(Panel!Draw), r)
      \/ \E gen \in {sys.db.gen, Panel!Draw} : Panel!FaultLeaving("rotate", m(gen), f)
  BY DEF Panel!Rotate
<1> HIDE DEF m, r, f
<1>4. run.pc = "rotate" => sys.version # "none"
  BY PanelPlaceNames DEF PanelInv, PanelPlaceAt
<1>5. \A gen \in PanelDraws :
        /\ run.pc = "rotate" => PanelFollows(m(gen), "rotate", "rotate_env")
        /\ PanelSecures(m(gen), "rotate", "rotate_env")
        /\ PanelFollows(m(gen), "rotate", "port")
  BY <1>2, <1>4, PanelPlaceNames DEF PanelFollows, PanelSecures
<1>6. CASE Panel!Do("rotate", m(Panel!Draw), r)
  BY <1>1, <1>2, <1>5, <1>6, PanelMoves, PanelPlaceNames
<1>7. ASSUME NEW gen \in {sys.db.gen, Panel!Draw}, Panel!FaultLeaving("rotate", m(gen), f)
      PROVE  PanelInv' /\ Panel!Handed
  <2>1. gen \in PanelDraws
    BY <1>1
  <2> QED
    BY <1>1, <1>2, <1>5, <1>7, <2>1, PanelMoves, PanelPlaceNames
<1> QED
  BY <1>3, <1>6, <1>7

\* the hand-over file is not one of the things that are promised
LEMMA PanelWritesEnv ==
  ASSUME PanelInv, NEW env \in PanelEnvs
  PROVE  /\ PanelQuiet([sys EXCEPT !.env = env])
         /\ [sys EXCEPT !.env = env].version = sys.version
         /\ [sys EXCEPT !.env = env].db = sys.db
  BY DEF PanelQuiet, PanelMachines, PanelInv, PanelTypes, PanelPlaceAt

LEMMA PanelRotateEnvKeeps == PanelInv /\ Panel!RotateEnv => PanelInv' /\ Panel!Handed
<1> SUFFICES ASSUME PanelInv, Panel!RotateEnv PROVE PanelInv' /\ Panel!Handed
  OBVIOUS
<1> DEFINE r == Panel!Goto(run, "rotate_restart")
           m == [sys EXCEPT !.env = [sys.env EXCEPT !.gen = Panel!Draw]]
<1>1. sys \in PanelMachines /\ PanelLike(r, "rotate_restart") /\ Panel!Draw \in PanelDraws
  BY PanelValues, PanelDrawn, PanelPlaceNames DEF PanelInv, PanelTypes
<1>2. [sys.env EXCEPT !.gen = Panel!Draw] \in PanelEnvs
  BY <1>1 DEF PanelMachines, PanelEnvs
<1>3. PanelQuiet(m) /\ m.version = sys.version
  BY <1>2, PanelWritesEnv
<1>4. m = [sys EXCEPT !.env.gen = Panel!Draw]
  BY <1>1 DEF PanelMachines
<1>5. \/ Panel!Do("rotate_env", sys, r) \/ Panel!Do("rotate_env", m, r)
      \/ Panel!Fault("rotate_env", r)
  BY <1>4 DEF Panel!RotateEnv
<1> HIDE DEF m, r
<1>6. run.pc = "rotate_env" => sys.version # "none"
  BY PanelPlaceNames DEF PanelInv, PanelPlaceAt
<1>7. \A n \in {sys, m} :
        /\ run.pc = "rotate_env" => PanelFollows(n, "rotate_env", "rotate_restart")
        /\ PanelSecures(n, "rotate_env", "rotate_restart")
  BY <1>3, <1>6, PanelPlaceNames DEF PanelFollows, PanelSecures
<1>8. CASE Panel!Do("rotate_env", m, r)
  BY <1>1, <1>3, <1>7, <1>8, PanelMoves, PanelPlaceNames
<1>9. CASE Panel!Do("rotate_env", sys, r) \/ Panel!Fault("rotate_env", r)
  BY <1>1, <1>7, <1>9, PanelLooks, PanelPlaceNames
<1> QED
  BY <1>5, <1>8, <1>9

LEMMA PanelRestartsKeep ==
  PanelInv /\ (Panel!RotateRestart \/ Panel!PortRestart \/ Panel!RestartWithCert)
    => PanelInv' /\ Panel!Handed
<1>1. \A from \in {"rotate_restart", "port_restart"}, to \in {"port", "ssl"} :
        PanelFollows(sys, from, to) /\ PanelSecures(sys, from, to)
  BY PanelPlaceNames DEF PanelFollows, PanelSecures
<1>2. PanelFollows(sys, "ssl_restart", "sync") /\ PanelSecures(sys, "ssl_restart", "sync")
  BY PanelPlaceNames DEF PanelFollows, PanelSecures
<1>3. ASSUME PanelInv, Panel!RotateRestart PROVE PanelInv' /\ Panel!Handed
  BY <1>1, <1>3, PanelRestarts, PanelPlaceNames DEF Panel!RotateRestart
<1>4. ASSUME PanelInv, Panel!PortRestart PROVE PanelInv' /\ Panel!Handed
  BY <1>1, <1>4, PanelRestarts, PanelPlaceNames DEF Panel!PortRestart
<1>5. ASSUME PanelInv, Panel!RestartWithCert PROVE PanelInv' /\ Panel!Handed
  BY <1>2, <1>5, PanelRestarts, PanelPlaceNames DEF Panel!RestartWithCert
<1> QED
  BY <1>3, <1>4, <1>5
-----------------------------------------------------------------------------
LEMMA PanelConvergePortKeeps == PanelInv /\ Panel!ConvergePort => PanelInv' /\ Panel!Handed
<1> SUFFICES ASSUME PanelInv, Panel!ConvergePort PROVE PanelInv' /\ Panel!Handed
  OBVIOUS
<1> DEFINE r == Panel!Goto(Panel!Changed(run), "port_restart")
           db == [sys.db EXCEPT !.port = "target"]
           m == [sys EXCEPT !.db = db]
<1>1. sys \in PanelMachines /\ PanelLike(r, "port_restart")
  BY PanelValues, PanelPlaceNames DEF PanelInv, PanelTypes
<1>2. db \in PanelStores
  BY <1>1 DEF PanelMachines, PanelStores, PanelPorts
<1>3. m = [sys EXCEPT !.db.port = "target"]
  BY <1>1 DEF PanelMachines
<1>4. \/ Panel!Skip("port", "ssl")
      \/ sys.version # "none" /\ Panel!Do("port", m, r)
      \/ Panel!Fault("port", Panel!Goto(run, "ssl"))
      \/ Panel!Fails("port", "ssl")
  BY <1>3 DEF Panel!ConvergePort
<1> HIDE DEF db, r
<1>5. PanelQuiet(m) /\ m.version = sys.version
  BY <1>1, <1>2 DEF PanelQuiet, PanelMachines, PanelInv, PanelPlaceAt
<1> HIDE DEF m
<1>6. CASE sys.version # "none" /\ Panel!Do("port", m, r)
  <2>1. PanelFollows(m, "port", "port_restart") /\ PanelSecures(m, "port", "port_restart")
    BY <1>5, <1>6, PanelPlaceNames DEF PanelFollows, PanelSecures
  <2> QED
    BY <1>1, <1>5, <1>6, <2>1, PanelMoves, PanelPlaceNames
<1>7. PanelFollows(sys, "port", "ssl") /\ PanelSecures(sys, "port", "ssl")
  BY PanelPlaceNames DEF PanelFollows, PanelSecures
<1> QED
  BY <1>4, <1>6, <1>7, PanelSkips, PanelPlaceNames

\* only a panel that is not there is left without a certificate
LEMMA PanelLookAtCertificateKeeps ==
  PanelInv /\ Panel!LookAtCertificate => PanelInv' /\ Panel!Handed
<1> SUFFICES ASSUME PanelInv, Panel!LookAtCertificate PROVE PanelInv' /\ Panel!Handed
  OBVIOUS
<1>1. CASE sys.version = "none" /\ Panel!Do("ssl", sys, Panel!Goto(Panel!Warned(run), "end"))
  <2>1. PanelFollows(sys, "ssl", "end") /\ PanelSecures(sys, "ssl", "end")
    BY <1>1, PanelPlaceNames
       DEF PanelFollows, PanelSecures, PanelInv, PanelPlaceAt
  <2> QED
    BY <1>1, <2>1, PanelSkips, PanelPlaceNames
<1>2. CASE /\ sys.version # "none"
           /\ \/ sys.db.cert # "none" /\ Panel!Skip("ssl", "sync")
              \/ Panel!Skip("ssl", "acme") \/ Panel!Skip("ssl", "openssl")
  <2>1. \A to \in {"acme", "openssl"} : PanelFollows(sys, "ssl", to)
          /\ PanelSecures(sys, "ssl", to)
    BY <1>2, PanelPlaceNames DEF PanelFollows, PanelSecures
  <2>2. PanelFollows(sys, "ssl", "sync")
    BY PanelPlaceNames DEF PanelFollows
  <2>3. sys.db.cert # "none" => PanelSecures(sys, "ssl", "sync")
    BY DEF PanelSecures
  <2> QED
    BY <1>2, <2>1, <2>2, <2>3, PanelSkips, PanelPlaceNames
<1>3. sys.db.cert \in {"trusted", "self"} => sys.db.cert # "none"
  OBVIOUS
<1> QED
  BY <1>1, <1>2, <1>3 DEF Panel!LookAtCertificate

LEMMA PanelSetsCertificate ==
  ASSUME PanelInv, NEW label \in {"acme", "openssl"}, NEW cert \in {"trusted", "self"},
         Panel!SetCertificate(label, cert, "ssl_restart", "sync")
  PROVE  PanelInv' /\ Panel!Handed
<1> DEFINE r == Panel!Goto(Panel!Changed(run), "ssl_restart")
           db == [sys.db EXCEPT !.cert = cert]
           m == [sys EXCEPT !.db = db]
<1>1. sys \in PanelMachines /\ PanelLike(r, "ssl_restart")
  BY PanelValues, PanelPlaceNames DEF PanelInv, PanelTypes
<1>2. db \in PanelStores /\ db.cert = cert
  BY <1>1 DEF PanelMachines, PanelStores
<1>3. m = [sys EXCEPT !.db.cert = cert]
  BY <1>1 DEF PanelMachines
<1>4. Panel!Do(label, m, r) \/ Panel!Fails(label, "sync")
  BY <1>3 DEF Panel!SetCertificate
<1> HIDE DEF db, r
<1>5. PanelQuiet(m) /\ m.version = sys.version /\ m.db.cert = cert
  BY <1>1, <1>2 DEF PanelQuiet, PanelMachines, PanelInv, PanelPlaceAt
<1> HIDE DEF m
<1>6. CASE Panel!Do(label, m, r)
  <2>1. run.pc = label
    BY <1>6 DEF Panel!Do
  <2>2. sys.version # "none"
    BY <2>1, PanelPlaceNames DEF PanelInv, PanelPlaceAt
  <2>3. PanelFollows(m, label, "ssl_restart") /\ PanelSecures(m, label, "ssl_restart")
    BY <1>5, <2>2, PanelPlaceNames DEF PanelFollows, PanelSecures
  <2> QED
    BY <1>1, <1>5, <1>6, <2>3, PanelMoves, PanelPlaceNames
<1>7. CASE Panel!Fails(label, "sync")
  <2>1. PanelFollows(sys, label, "sync")
    BY PanelPlaceNames DEF PanelFollows
  <2> QED
    BY <1>7, <2>1, PanelSkips, PanelPlaceNames
<1> QED
  BY <1>4, <1>6, <1>7

LEMMA PanelCertificatesKeep ==
  PanelInv /\ (Panel!IssueTrusted \/ Panel!MakeSelfSigned) => PanelInv' /\ Panel!Handed
  BY PanelSetsCertificate DEF Panel!IssueTrusted, Panel!MakeSelfSigned

LEMMA PanelSyncEnvKeeps == PanelInv /\ Panel!SyncEnv => PanelInv' /\ Panel!Handed
<1> SUFFICES ASSUME PanelInv, Panel!SyncEnv PROVE PanelInv' /\ Panel!Handed
  OBVIOUS
<1> DEFINE r == Panel!Goto(run, "login")
           m == [sys EXCEPT !.env = [sys.env EXCEPT !.port = "target"]]
<1>1. sys \in PanelMachines /\ PanelLike(r, "login")
  BY PanelValues, PanelPlaceNames DEF PanelInv, PanelTypes
<1>2. [sys.env EXCEPT !.port = "target"] \in PanelEnvs
  BY <1>1 DEF PanelMachines, PanelEnvs, PanelFiles
<1>3. PanelQuiet(m) /\ m.version = sys.version /\ m.db = sys.db
  BY <1>2, PanelWritesEnv
<1>4. m = [sys EXCEPT !.env.port = "target"]
  BY <1>1 DEF PanelMachines
<1>5. Panel!Do("sync", sys, r) \/ Panel!Do("sync", m, r) \/ Panel!Fault("sync", r)
  BY <1>4 DEF Panel!SyncEnv
<1> HIDE DEF m, r
<1>6. \A n \in {sys, m} : PanelFollows(n, "sync", "login") /\ PanelSecures(n, "sync", "login")
  BY <1>3, PanelPlaceNames DEF PanelFollows, PanelSecures
<1>7. CASE Panel!Do("sync", m, r)
  BY <1>1, <1>3, <1>6, <1>7, PanelMoves, PanelPlaceNames
<1>8. CASE Panel!Do("sync", sys, r) \/ Panel!Fault("sync", r)
  BY <1>1, <1>6, <1>8, PanelLooks, PanelPlaceNames
<1> QED
  BY <1>5, <1>7, <1>8
-----------------------------------------------------------------------------
\* what the stages write through the interface of the panel
LEMMA PanelStages ==
  ASSUME PanelInv, NEW from \in Panel!Labels, NEW to, NEW r, PanelLike(r, to), NEW m,
         m \in PanelMachines, m.version = sys.version, m.active = sys.active, m.db = sys.db,
         m.profile = sys.profile, m.clients = sys.clients,
         sys.inbound = "keyed" => m.keys = sys.keys,
         from \in PanelSpeaking, run.pc = from => PanelFollows(sys, from, to),
         Panel!Do(from, m, r)
  PROVE  PanelInv' /\ Panel!Handed
<1>1. PanelQuiet(m)
  BY DEF PanelQuiet, PanelInv, PanelPlaceAt
<1>2. PanelSecures(m, from, to) /\ (run.pc = from => PanelFollows(m, from, to))
  BY DEF PanelSecures, PanelFollows
<1> QED
  BY <1>1, <1>2, PanelMoves

LEMMA PanelStoreCredentialsKeeps ==
  PanelInv /\ Panel!StoreCredentials => PanelInv' /\ Panel!Handed
<1> SUFFICES ASSUME PanelInv, Panel!StoreCredentials PROVE PanelInv' /\ Panel!Handed
  OBVIOUS
<1> DEFINE r == Panel!Goto(run, "paths")
           m == [sys EXCEPT !.entry = Panel!Credentials]
           secure == sys.db.cert # "none"
<1>1. sys \in PanelMachines /\ PanelLike(r, "paths")
  BY PanelValues, PanelPlaceNames DEF PanelInv, PanelTypes
<1>2. Panel!Credentials \in PanelFiles \X PanelDraws \X BOOLEAN
  <2>1. Panel!Credentials = <<sys.env.port, sys.env.gen, secure>>
    BY DEF Panel!Credentials
  <2>2. secure \in BOOLEAN
    OBVIOUS
  <2>3. sys.env.port \in PanelFiles /\ sys.env.gen \in PanelDraws
    BY <1>1 DEF PanelMachines, PanelEnvs
  <2> HIDE DEF secure
  <2> QED
    BY <2>1, <2>2, <2>3
<1>3. /\ m \in PanelMachines /\ m.version = sys.version /\ m.active = sys.active
      /\ m.db = sys.db /\ m.profile = sys.profile /\ m.clients = sys.clients
      /\ m.keys = sys.keys
  BY <1>1, <1>2 DEF PanelMachines
<1>4. \/ Panel!Do("login", m, r)
      \/ Panel!Do("login", sys, Panel!Goto(Panel!Warned(run), "paths"))
      \/ Panel!Reached("login", "paths", "paths")
  BY DEF Panel!StoreCredentials
<1> HIDE DEF m, r
<1>5. PanelFollows(sys, "login", "paths") /\ PanelSecures(sys, "login", "paths")
  BY PanelPlaceNames DEF PanelFollows, PanelSecures
<1>6. CASE Panel!Do("login", m, r)
  BY <1>1, <1>3, <1>5, <1>6, PanelStages, PanelPlaceNames
<1>7. CASE Panel!Do("login", sys, Panel!Goto(Panel!Warned(run), "paths"))
  BY <1>5, <1>7, PanelSkips, PanelPlaceNames
<1>8. CASE Panel!Reached("login", "paths", "paths")
  BY <1>5, <1>8, PanelReaches, PanelPlaceNames
<1> QED
  BY <1>4, <1>6, <1>7, <1>8

LEMMA PanelSetPathsKeeps == PanelInv /\ Panel!SetPaths => PanelInv' /\ Panel!Handed
<1> SUFFICES ASSUME PanelInv, Panel!SetPaths PROVE PanelInv' /\ Panel!Handed
  OBVIOUS
<1> DEFINE isNew == ~sys.paths
           r == Panel!Goto(Panel!Noted(run, isNew), "inbound")
           m == [sys EXCEPT !.paths = TRUE]
<1>1. isNew \in BOOLEAN
  OBVIOUS
<1>2. Panel!Do("paths", m, r) \/ Panel!Reached("paths", "inbound", "inbound")
  BY DEF Panel!SetPaths
<1> HIDE DEF isNew
<1>3. sys \in PanelMachines /\ PanelLike(r, "inbound")
  BY <1>1, PanelValues, PanelPlaceNames DEF PanelInv, PanelTypes
<1>4. /\ m \in PanelMachines /\ m.version = sys.version /\ m.active = sys.active
      /\ m.db = sys.db /\ m.profile = sys.profile /\ m.clients = sys.clients
      /\ m.keys = sys.keys
  BY <1>3 DEF PanelMachines
<1> HIDE DEF m, r
<1>5. PanelFollows(sys, "paths", "inbound")
  BY PanelPlaceNames DEF PanelFollows
<1>6. CASE Panel!Do("paths", m, r)
  BY <1>3, <1>4, <1>5, <1>6, PanelStages, PanelPlaceNames
<1>7. CASE Panel!Reached("paths", "inbound", "inbound")
  BY <1>5, <1>7, PanelReaches, PanelPlaceNames
<1> QED
  BY <1>2, <1>6, <1>7

\* a key pair is drawn only for an inbound that has none
LEMMA PanelEnsureInboundKeeps == PanelInv /\ Panel!EnsureInbound => PanelInv' /\ Panel!Handed
<1> SUFFICES ASSUME PanelInv, Panel!EnsureInbound PROVE PanelInv' /\ Panel!Handed
  OBVIOUS
<1> DEFINE r == Panel!Goto(Panel!Changed(run), "share")
           m == Panel!KeyedInbound
<1>1. sys \in PanelMachines /\ PanelLike(r, "share") /\ Panel!Draw \in PanelDraws
  BY PanelValues, PanelDrawn, PanelPlaceNames DEF PanelInv, PanelTypes
<1>2. /\ m \in PanelMachines /\ m.version = sys.version /\ m.active = sys.active
      /\ m.db = sys.db /\ m.profile = sys.profile /\ m.clients = sys.clients
  BY <1>1 DEF Panel!KeyedInbound, PanelMachines
<1>3. \/ Panel!Skip("inbound", "share")
      \/ sys.inbound # "keyed" /\ Panel!Do("inbound", m, r)
      \/ Panel!Reached("inbound", "share", "share")
  BY DEF Panel!EnsureInbound
<1> HIDE DEF m, r
<1>4. PanelFollows(sys, "inbound", "share") /\ PanelSecures(sys, "inbound", "share")
  BY PanelPlaceNames DEF PanelFollows, PanelSecures
<1>5. CASE sys.inbound # "keyed" /\ Panel!Do("inbound", m, r)
  BY <1>1, <1>2, <1>4, <1>5, PanelStages, PanelPlaceNames
<1>6. CASE Panel!Skip("inbound", "share")
  BY <1>4, <1>6, PanelSkips, PanelPlaceNames
<1>7. CASE Panel!Reached("inbound", "share", "share")
  BY <1>4, <1>7, PanelReaches, PanelPlaceNames
<1> QED
  BY <1>3, <1>5, <1>6, <1>7

LEMMA PanelSetShareAddressKeeps ==
  PanelInv /\ Panel!SetShareAddress => PanelInv' /\ Panel!Handed
<1> SUFFICES ASSUME PanelInv, Panel!SetShareAddress PROVE PanelInv' /\ Panel!Handed
  OBVIOUS
<1> DEFINE isNew == run.force \/ ~sys.share
           r == Panel!Goto(Panel!Mem(Panel!Noted(run, isNew), "addressed", TRUE), "vault")
           m == [sys EXCEPT !.share = TRUE]
<1>1. isNew \in BOOLEAN
  BY DEF PanelInv, PanelTypes, PanelRuns
<1>2. \/ Panel!Do("share", m, r) \/ Panel!Fails("share", "vault") \/ Panel!Fails("share",
           "proxy")
      \/ Panel!Do("share", sys, Panel!Goto(Panel!Warned(run), "proxy"))
  BY DEF Panel!SetShareAddress
<1> HIDE DEF isNew
<1>3. sys \in PanelMachines /\ PanelLike(r, "vault")
  BY <1>1, PanelMemValues, PanelPlaceNames DEF PanelInv, PanelTypes
<1>4. /\ m \in PanelMachines /\ m.version = sys.version /\ m.active = sys.active
      /\ m.db = sys.db /\ m.profile = sys.profile /\ m.clients = sys.clients
      /\ m.keys = sys.keys
  BY <1>3 DEF PanelMachines
<1> HIDE DEF m, r
<1>5. \A to \in {"vault", "proxy"} : PanelFollows(sys, "share", to)
        /\ PanelSecures(sys, "share", to)
  BY PanelPlaceNames DEF PanelFollows, PanelSecures
<1>6. CASE Panel!Do("share", m, r)
  BY <1>3, <1>4, <1>5, <1>6, PanelStages, PanelPlaceNames
<1>7. CASE ~Panel!Do("share", m, r)
  BY <1>2, <1>5, <1>7, PanelSkips, PanelPlaceNames
<1> QED
  BY <1>6, <1>7

LEMMA PanelEnsureProxyKeeps == PanelInv /\ Panel!EnsureProxy => PanelInv' /\ Panel!Handed
<1> SUFFICES ASSUME PanelInv, Panel!EnsureProxy PROVE PanelInv' /\ Panel!Handed
  OBVIOUS
<1> DEFINE isNew == run.force \/ ~sys.proxy
           r == Panel!Goto(Panel!Noted(run, isNew), "policy")
           m == [sys EXCEPT !.proxy = TRUE]
<1>1. isNew \in BOOLEAN
  BY DEF PanelInv, PanelTypes, PanelRuns
<1>2. Panel!Do("proxy", m, r) \/ Panel!Reached("proxy", "policy", "policy")
  BY DEF Panel!EnsureProxy
<1> HIDE DEF isNew
<1>3. sys \in PanelMachines /\ PanelLike(r, "policy")
  BY <1>1, PanelValues, PanelPlaceNames DEF PanelInv, PanelTypes
<1>4. /\ m \in PanelMachines /\ m.version = sys.version /\ m.active = sys.active
      /\ m.db = sys.db /\ m.profile = sys.profile /\ m.clients = sys.clients
      /\ m.keys = sys.keys
  BY <1>3 DEF PanelMachines
<1> HIDE DEF m, r
<1>5. PanelFollows(sys, "proxy", "policy")
  BY PanelPlaceNames DEF PanelFollows
<1>6. CASE Panel!Do("proxy", m, r)
  BY <1>3, <1>4, <1>5, <1>6, PanelStages, PanelPlaceNames
<1>7. CASE Panel!Reached("proxy", "policy", "policy")
  BY <1>5, <1>7, PanelReaches, PanelPlaceNames
<1> QED
  BY <1>2, <1>6, <1>7
-----------------------------------------------------------------------------
(* The identity: that of the vault, of a client the panel serves, or fresh. *)

LEMMA PanelIdentities ==
  ASSUME PanelInv, NEW stored \in PanelDraws
  PROVE  /\ Panel!Identity(stored) \in PanelDraws
         /\ stored # 0 => Panel!Identity(stored) = stored
         /\ stored = 0 /\ sys.clients # {} => Panel!Identity(stored) \in sys.clients
<1>1. sys.clients \subseteq PanelDraws /\ Panel!Draw \in PanelDraws
  BY PanelDrawn DEF PanelInv, PanelTypes, PanelMachines
<1>2. sys.clients # {} => Panel!First(sys.clients) \in sys.clients
  BY <1>1, PanelFirst, PanelNumbers
<1> QED
  BY <1>1, <1>2 DEF Panel!Identity

LEMMA PanelOpenVaultKeeps == PanelInv /\ Panel!OpenVault => PanelInv' /\ Panel!Handed
<1> SUFFICES ASSUME PanelInv, Panel!OpenVault PROVE PanelInv' /\ Panel!Handed
  OBVIOUS
<1> DEFINE id == Panel!Identity(sys.profile.id)
           fresh == Panel!Identity(0)
           seen == [run.mem EXCEPT !.open = TRUE, !.id = id]
           blind == [run.mem EXCEPT !["id"] = fresh]
           r(q) == Panel!Goto(Panel!Recall(q, seen), "client")
           f == Panel!Goto(Panel!Warned(Panel!Mem(run, "id", fresh)), "client")
<1>1. sys \in PanelMachines /\ run \in PanelRuns /\ run.mem \in PanelMems
        /\ sys.profile.id \in PanelDraws
  BY DEF PanelInv, PanelTypes, PanelMachines, PanelRuns
<1>2. /\ id \in PanelDraws /\ fresh \in PanelDraws
      /\ sys.profile.id # 0 => id = sys.profile.id
      /\ sys.profile.id = 0 /\ sys.clients # {} => id \in sys.clients
  BY <1>1, PanelIdentities, PanelNumbers
<1>3. \A q \in {run, Panel!Warned(run)} : q \in PanelRuns /\ (q.hurt <=> run.hurt)
  BY <1>1 DEF PanelRuns, Panel!Warned
<1>4. \/ \E q \in {run, Panel!Warned(run)} : Panel!Do("vault", sys, r(q))
      \/ Panel!Fault("vault", f)
  BY DEF Panel!OpenVault
<1>5. Panel!Mem(run, "id", fresh) = Panel!Recall(run, blind)
  BY DEF Panel!Mem
<1> HIDE DEF id, fresh
<1>6. /\ seen \in PanelMems /\ seen.open /\ seen.id = id /\ seen.writes = run.mem.writes
      /\ blind \in PanelMems /\ (blind.open <=> run.mem.open)
      /\ blind.writes = run.mem.writes
  BY <1>1, <1>2 DEF PanelMems
<1> HIDE DEF seen, blind
<1>7. f \in PanelRuns /\ f.pc = "client" /\ f.mem = blind
  BY <1>1, <1>5, <1>6, PanelPlaceNames
     DEF PanelRuns, Panel!Goto, Panel!Warned, Panel!Recall
<1>8. ASSUME NEW q \in {run, Panel!Warned(run)}
       PROVE  /\ r(q) \in PanelRuns /\ r(q).pc = "client" /\ r(q).mem = seen
              /\ (r(q).hurt <=> run.hurt)
  BY <1>1, <1>3, <1>6, PanelPlaceNames DEF PanelRuns, Panel!Goto, Panel!Recall
<1> HIDE DEF r, f
<1>9. run.pc = "vault"
  BY <1>4 DEF Panel!Do, Panel!Fault, Panel!FaultLeaving
<1>10. /\ ~run.mem.open /\ run.mem.writes = 0
       /\ ~run.hurt => sys.db.cert # "none"
       /\ PanelCalm => PanelClientAt(sys, run)
       /\ sys.version = "none" => ~sys.active
  BY <1>9, PanelPlaceNames DEF PanelInv, PanelIdentityAt, PanelWritesAt, PanelHttpsAt,
       PanelPlaceAt
<1>11. PanelKeeps(sys)
  BY <1>1 DEF PanelKeeps
<1>12. ASSUME NEW q \in {run, Panel!Warned(run)}, Panel!Do("vault", sys, r(q))
       PROVE  PanelInv' /\ Panel!Handed
  <2> DEFINE s == r(q)
  <2>1. /\ Panel!Do("vault", sys, s) /\ s \in PanelRuns /\ s.pc = "client" /\ s.mem = seen
        /\ (s.hurt <=> run.hurt)
    BY <1>12, <1>8
  <2> HIDE DEF s
  <2>2. PanelIdentityAt(sys, s) /\ PanelPlaceAt(sys, s) /\ PanelWritesAt(s)
    BY <1>2, <1>6, <1>10, <2>1, PanelPlaceNames
       DEF PanelIdentityAt, PanelPlaceAt, PanelWritesAt
  <2>3. PanelHttpsAt(sys, s)
    BY <1>10, <2>1 DEF PanelHttpsAt
  <2>4. PanelCalm => PanelClientAt(sys, s)
    BY <1>2, <1>6, <1>10, <2>1 DEF PanelClientAt
  <2> QED
    BY <1>11, <2>1, <2>2, <2>3, <2>4, PanelDoes, PanelPlaceNames
<1>13. CASE Panel!Fault("vault", f)
  <2>1. PanelIdentityAt(sys, f) /\ PanelPlaceAt(sys, f) /\ PanelWritesAt(f)
    BY <1>6, <1>7, <1>10, PanelPlaceNames
       DEF PanelIdentityAt, PanelPlaceAt, PanelWritesAt
  <2> QED
    BY <1>7, <1>11, <1>13, <2>1, PanelDoes, PanelPlaceNames DEF Panel!Fault
<1> QED
  BY <1>4, <1>12, <1>13

LEMMA PanelEnsureClientKeeps == PanelInv /\ Panel!EnsureClient => PanelInv' /\ Panel!Handed
<1> SUFFICES ASSUME PanelInv, Panel!EnsureClient PROVE PanelInv' /\ Panel!Handed
  OBVIOUS
<1> DEFINE r == Panel!Goto(Panel!Changed(run), "profile")
           m == Panel!WithClient
<1>1. /\ sys \in PanelMachines /\ run \in PanelRuns /\ run.mem.id \in PanelDraws
      /\ PanelLike(r, "profile")
  BY PanelValues, PanelPlaceNames DEF PanelInv, PanelTypes, PanelRuns, PanelMems
<1>2. /\ m \in PanelMachines /\ m.version = sys.version /\ m.active = sys.active
      /\ m.db = sys.db /\ m.profile = sys.profile /\ m.keys = sys.keys
      /\ m.clients = sys.clients \cup {run.mem.id}
  BY <1>1 DEF Panel!WithClient, PanelMachines
<1>3. \/ Panel!Skip("client", "profile") \/ Panel!Do("client", m, r)
      \/ Panel!Fails("client", "proxy")
  BY DEF Panel!EnsureClient
<1> HIDE DEF m, r
<1>4. \A to \in {"profile", "proxy"} : PanelFollows(sys, "client", to)
        /\ PanelSecures(sys, "client", to)
  BY PanelPlaceNames DEF PanelFollows, PanelSecures
<1>5. CASE Panel!Do("client", m, r)
  <2>1. run.pc = "client"
    BY <1>5 DEF Panel!Do
  <2>2. PanelKeeps(m)
    BY <1>2 DEF PanelKeeps
  <2>3. PanelIdentityAt(m, r)
    BY <1>1, <1>2, <2>1, PanelPlaceNames DEF PanelInv, PanelIdentityAt, PanelLike
  <2>4. PanelPlaceAt(m, r) /\ PanelWritesAt(r)
    BY <1>1, <1>2, <2>1, PanelPlaceNames DEF PanelInv, PanelPlaceAt, PanelWritesAt, PanelLike
  <2>5. PanelHttpsAt(m, r)
    BY <1>1, <1>2, <2>1, PanelPlaceNames DEF PanelInv, PanelHttpsAt, PanelLike
  <2>6. PanelCalm => PanelClientAt(m, r)
    BY <1>1, <1>2, <2>1, PanelPlaceNames
       DEF PanelInv, PanelIdentityAt, PanelClientAt, PanelLike
  <2> QED
    BY <1>1, <1>5, <2>2, <2>3, <2>4, <2>5, <2>6, PanelDoes, PanelPlaceNames DEF PanelLike
<1>6. CASE ~Panel!Do("client", m, r)
  BY <1>3, <1>4, <1>6, PanelSkips, PanelPlaceNames
<1> QED
  BY <1>5, <1>6

LEMMA PanelStoreProfileKeeps == PanelInv /\ Panel!StoreProfile => PanelInv' /\ Panel!Handed
<1> SUFFICES ASSUME PanelInv, Panel!StoreProfile PROVE PanelInv' /\ Panel!Handed
  OBVIOUS
<1> DEFINE isNew == sys.profile # Panel!Profile
           r == Panel!Goto(Panel!Noted(run, isNew), "proxy")
           m == [sys EXCEPT !.profile = Panel!Profile]
<1>1. isNew \in BOOLEAN
  OBVIOUS
<1>2. \/ run.mem.open /\ Panel!Do("profile", m, r)
      \/ Panel!Skip("profile", "proxy") \/ Panel!Fails("profile", "proxy")
  BY DEF Panel!StoreProfile
<1> HIDE DEF isNew
<1>3. sys \in PanelMachines /\ run.mem \in PanelMems /\ PanelLike(r, "proxy")
  BY <1>1, PanelValues, PanelPlaceNames DEF PanelInv, PanelTypes, PanelRuns
<1>4. Panel!Profile \in [id : PanelDraws, keys : PanelDraws, addressed : BOOLEAN]
        /\ Panel!Profile.id = run.mem.id
  BY <1>3 DEF Panel!Profile, PanelMachines, PanelMems
<1>5. /\ m \in PanelMachines /\ m.version = sys.version /\ m.active = sys.active
      /\ m.db = sys.db /\ m.profile.id = run.mem.id /\ m.keys = sys.keys
      /\ m.clients = sys.clients
  BY <1>3, <1>4 DEF PanelMachines
<1> HIDE DEF m, r
<1>6. PanelFollows(sys, "profile", "proxy") /\ PanelSecures(sys, "profile", "proxy")
  BY PanelPlaceNames DEF PanelFollows, PanelSecures
<1>7. CASE run.mem.open /\ Panel!Do("profile", m, r)
  <2>1. run.pc = "profile"
    BY <1>7 DEF Panel!Do
  <2>2. PanelKeeps(m)
    BY <1>5, <1>7, <2>1, PanelPlaceNames DEF PanelKeeps, PanelInv, PanelIdentityAt
  <2>3. PanelIdentityAt(m, r) /\ PanelPlaceAt(m, r)
    BY <1>3, <1>5, PanelPlaceNames DEF PanelInv, PanelIdentityAt, PanelPlaceAt, PanelLike
  <2>4. PanelWritesAt(r)
    BY <1>3, <2>1, PanelPlaceNames DEF PanelInv, PanelWritesAt, PanelLike
  <2>5. PanelHttpsAt(m, r)
    BY <1>3, <1>5, <2>1, PanelPlaceNames DEF PanelInv, PanelHttpsAt, PanelLike
  <2>6. PanelCalm => PanelClientAt(m, r)
    BY <1>3, <1>5, <2>1, PanelPlaceNames DEF PanelInv, PanelClientAt, PanelLike
  <2> QED
    BY <1>3, <1>7, <2>2, <2>3, <2>4, <2>5, <2>6, PanelDoes, PanelPlaceNames DEF PanelLike
<1>8. CASE Panel!Skip("profile", "proxy") \/ Panel!Fails("profile", "proxy")
  BY <1>6, <1>8, PanelSkips, PanelPlaceNames
<1> QED
  BY <1>2, <1>7, <1>8
-----------------------------------------------------------------------------
(* The routing document: written, asked back, and written once more.        *)

LEMMA PanelWrites ==
  ASSUME PanelInv, NEW from \in {"policy", "rewrite", "path_rewrite"},
         NEW to \in {"test", "retest", "path_retest"}, from = "policy" <=> to = "test",
         NEW m, m \in PanelMachines, m.version = sys.version, m.active = sys.active,
         m.db = sys.db, m.profile = sys.profile, m.clients = sys.clients, m.keys = sys.keys,
         Panel!Do(from, m, Panel!Goto(Panel!Written(run), to))
  PROVE  PanelInv' /\ Panel!Handed
<1> DEFINE writes == run.mem.writes + 1
           mem == [run.mem EXCEPT !["writes"] = writes]
           r == Panel!Goto(Panel!Written(run), to)
<1>1. run \in PanelRuns /\ run.mem \in PanelMems
  BY DEF PanelInv, PanelTypes, PanelRuns
<1>2. writes \in Nat
  BY <1>1 DEF PanelMems
<1>3. Panel!Written(run) = Panel!Changed(Panel!Recall(run, mem))
  BY DEF Panel!Written, Panel!Mem
<1>4. run.pc = from
  BY DEF Panel!Do
<1>5. writes <= 2 /\ (from = "policy" => writes <= 1)
  BY <1>1, <1>4, PanelPlaceNames DEF PanelInv, PanelWritesAt, PanelMems
<1> HIDE DEF writes
<1>6. mem \in PanelMems /\ mem.writes = writes
  BY <1>1, <1>2 DEF PanelMems
<1> HIDE DEF mem
<1>7. r \in PanelRuns /\ r.pc = to /\ r.mem = mem /\ (r.hurt <=> run.hurt)
  BY <1>1, <1>3, <1>6, PanelPlaceNames DEF PanelRuns, Panel!Goto, Panel!Changed, Panel!Recall
<1> HIDE DEF r
<1>8. PanelKeeps(m) /\ PanelPlaceAt(m, r)
  BY <1>7, PanelPlaceNames DEF PanelKeeps, PanelInv, PanelPlaceAt
<1>9. PanelIdentityAt(m, r)
  BY <1>7, PanelPlaceNames DEF PanelIdentityAt
<1>10. PanelHttpsAt(m, r)
  BY <1>4, <1>7, PanelPlaceNames DEF PanelInv, PanelHttpsAt
<1>11. PanelCalm => PanelClientAt(m, r)
  BY <1>7, PanelPlaceNames DEF PanelInv, PanelClientAt
<1>12. PanelWritesAt(r)
  BY <1>5, <1>6, <1>7, PanelPlaceNames DEF PanelWritesAt
<1> QED
  BY <1>7, <1>8, <1>9, <1>10, <1>11, <1>12, PanelDoes, PanelPlaceNames DEF r

LEMMA PanelWritePolicyKeeps == PanelInv /\ Panel!WritePolicy => PanelInv' /\ Panel!Handed
<1> SUFFICES ASSUME PanelInv, Panel!WritePolicy PROVE PanelInv' /\ Panel!Handed
  OBVIOUS
<1> DEFINE m == [sys EXCEPT !.policy = TRUE]
<1>1. sys \in PanelMachines
  BY DEF PanelInv, PanelTypes
<1>2. /\ m \in PanelMachines /\ m.version = sys.version /\ m.active = sys.active
      /\ m.db = sys.db /\ m.profile = sys.profile /\ m.clients = sys.clients
      /\ m.keys = sys.keys
  BY <1>1 DEF PanelMachines
<1>3. \/ Panel!Do("policy", m, Panel!Goto(Panel!Written(run), "test"))
      \/ Panel!Skip("policy", "test") \/ Panel!Reached("policy", "end", "end")
  BY DEF Panel!WritePolicy
<1> HIDE DEF m
<1>4. \A to \in {"test", "end"} :
        /\ run.pc = "policy" => PanelFollows(sys, "policy", to)
        /\ PanelSecures(sys, "policy", to)
  BY PanelPlaceNames DEF PanelFollows, PanelSecures, PanelInv, PanelWritesAt
<1>5. CASE Panel!Do("policy", m, Panel!Goto(Panel!Written(run), "test"))
  BY <1>2, <1>5, PanelWrites
<1>6. CASE Panel!Skip("policy", "test")
  BY <1>4, <1>6, PanelSkips, PanelPlaceNames
<1>7. CASE Panel!Reached("policy", "end", "end")
  BY <1>4, <1>7, PanelReaches, PanelPlaceNames
<1> QED
  BY <1>3, <1>5, <1>6, <1>7

\* the answers to the questions, and where the run goes on from them
LEMMA PanelAsks ==
  PanelInv /\ (Panel!TestRoutes \/ Panel!Rewrite \/ Panel!Retest \/ Panel!CheckPath
                 \/ Panel!PathRewrite \/ Panel!PathRetest)
    => PanelInv' /\ Panel!Handed
<1> SUFFICES ASSUME PanelInv,
                    Panel!TestRoutes \/ Panel!Rewrite \/ Panel!Retest \/ Panel!CheckPath
                      \/ Panel!PathRewrite \/ Panel!PathRetest
             PROVE  PanelInv' /\ Panel!Handed
  OBVIOUS
<1> DEFINE next == Panel!AfterTest
<1>1. next \in {"path", "end"}
  BY DEF Panel!AfterTest
<1>2. sys \in PanelMachines /\ run.mem \in PanelMems
  BY DEF PanelInv, PanelTypes, PanelRuns
<1>3. \A from \in PanelAsking : PanelSecures(sys, from, "path")
        /\ PanelSecures(sys, from, "end")
                              /\ PanelSecures(sys, from, next)
  BY <1>1, PanelPlaceNames DEF PanelSecures
<1>4. \A from \in PanelAsking : PanelFollows(sys, from, "path")
        /\ PanelFollows(sys, from, "end")
                              /\ PanelFollows(sys, from, next)
  BY <1>1, PanelPlaceNames DEF PanelFollows
<1>5. /\ run.pc = "test" => PanelFollows(sys, "test", "rewrite")
      /\ run.mem.writes < 2 => PanelFollows(sys, "path", "path_rewrite")
  BY <1>2, PanelPlaceNames DEF PanelFollows, PanelInv, PanelWritesAt, PanelMems
<1>6. next \in PanelPlaces
  BY <1>1, PanelPlaceNames
<1>7. CASE Panel!TestRoutes
  <2>1. \/ Panel!Skip("test", next) \/ Panel!Fault("test", Panel!Goto(run, "rewrite"))
        \/ Panel!Fails("test", "end")
    BY <1>7 DEF Panel!TestRoutes
  <2>2. /\ "test" \in Panel!Labels /\ "test" \in PanelAsking
        /\ "rewrite" \in PanelPlaces /\ "end" \in PanelPlaces
    BY PanelPlaceNames DEF PanelAsking
  <2> HIDE DEF next
  <2>3. CASE Panel!Skip("test", next)
    BY <1>3, <1>4, <1>6, <2>2, <2>3, PanelSkips
  <2>4. CASE Panel!Fault("test", Panel!Goto(run, "rewrite"))
    BY <1>5, <2>2, <2>4, PanelSkips
  <2>5. CASE Panel!Fails("test", "end")
    BY <1>4, <2>2, <2>5, PanelSkips
  <2> QED
    BY <2>1, <2>3, <2>4, <2>5
<1>8. CASE Panel!Rewrite
  <2>1. \/ Panel!Do("rewrite", sys, Panel!Goto(Panel!Written(run), "retest"))
        \/ Panel!Fails("rewrite", next)
    BY <1>8 DEF Panel!Rewrite
  <2> HIDE DEF next
  <2> QED
    BY <1>2, <1>3, <1>4, <1>6, <2>1, PanelWrites, PanelSkips, PanelPlaceNames, ZenonT(60)
<1>9. CASE Panel!Retest
  <2>1. \/ Panel!Skip("retest", next) \/ Panel!Fails("retest", next)
        \/ Panel!Fails("retest", "end")
    BY <1>9 DEF Panel!Retest
  <2> HIDE DEF next
  <2> QED
    BY <1>3, <1>4, <1>6, <2>1, PanelSkips, PanelPlaceNames, ZenonT(60)
<1>10. CASE Panel!CheckPath
  BY <1>3, <1>4, <1>5, <1>10, PanelSkips, PanelPlaceNames, ZenonT(60) DEF Panel!CheckPath
<1>11. CASE Panel!PathRewrite
  BY <1>2, <1>3, <1>4, <1>11, PanelWrites, PanelSkips, PanelPlaceNames, ZenonT(60) DEF Panel!PathRewrite
<1>12. CASE Panel!PathRetest
  BY <1>3, <1>4, <1>12, PanelSkips, PanelPlaceNames DEF Panel!PathRetest
<1> QED
  BY <1>7, <1>8, <1>9, <1>10, <1>11, <1>12
-----------------------------------------------------------------------------
LEMMA PanelStartTaskKeeps == PanelInv /\ Panel!StartTask => PanelInv' /\ Panel!Handed
<1> SUFFICES ASSUME PanelInv, NEW force \in BOOLEAN,
                    Panel!Begin("release", force, Panel!Fresh)
             PROVE  PanelInv' /\ Panel!Handed
  BY DEF Panel!StartTask
<1>1. Panel!Fresh \in PanelMems /\ ~Panel!Fresh.open /\ Panel!Fresh.writes = 0
  BY PanelNumbers DEF Panel!Fresh, PanelMems
<1> HIDE DEF Panel!Fresh
<1>2. (run.pc = "end" /\ ~run.warn /\ ~run.force) \in BOOLEAN
  OBVIOUS
<1>3. run' \in PanelRuns /\ run'.pc = "release" /\ run'.mem = Panel!Fresh
  BY <1>1, <1>2, PanelPlaceNames DEF Panel!Begin, PanelRuns
<1>4. sys' = sys /\ left' \in PanelLefts /\ left'.faults = left.faults
  BY PanelOtherSpends DEF Panel!Begin, PanelInv, PanelTypes
<1>5. PanelTypes'
  BY <1>3, <1>4 DEF PanelInv, PanelTypes
<1>6. PanelIdentityAt(sys', run') /\ PanelPlaceAt(sys', run') /\ PanelHttpsAt(sys', run')
        /\ PanelWritesAt(run')
  BY <1>1, <1>3, <1>4, PanelPlaceNames
     DEF PanelInv, PanelIdentityAt, PanelPlaceAt, PanelHttpsAt, PanelWritesAt
<1>7. PanelCalm' => PanelClientAt(sys', run')
  BY <1>3, <1>4, PanelPlaceNames DEF PanelInv, PanelCalm, PanelClientAt
<1>8. Panel!Handed
  BY <1>4 DEF Panel!Handed
<1> QED
  BY <1>5, <1>6, <1>7, <1>8 DEF PanelInv

\* between two runs the panel may be lost, with the clients it served
LEMMA PanelRests ==
  ASSUME PanelInv, NEW m \in PanelMachines, m.version = "none" => ~m.active,
         \/ m.clients = {}
         \/ m.clients = sys.clients /\ m.profile = sys.profile,
         sys' = m, run' = Panel!NoRun(run.mem), left' \in PanelLefts,
         left'.faults = left.faults
  PROVE  PanelInv'
<1>1. run' \in PanelRuns /\ run'.pc = "idle" /\ run'.mem = run.mem
  BY PanelPlaceNames DEF Panel!NoRun, PanelInv, PanelTypes, PanelRuns
<1>2. PanelTypes'
  BY <1>1 DEF PanelTypes
<1>3. PanelIdentityAt(sys', run') /\ PanelPlaceAt(sys', run') /\ PanelHttpsAt(sys', run')
        /\ PanelWritesAt(run')
  BY <1>1, PanelPlaceNames
     DEF PanelInv, PanelIdentityAt, PanelPlaceAt, PanelHttpsAt, PanelWritesAt
<1>4. PanelCalm' => PanelClientAt(sys', run')
  BY <1>1, PanelPlaceNames DEF PanelInv, PanelCalm, PanelClientAt
<1> QED
  BY <1>2, <1>3, <1>4 DEF PanelInv

LEMMA PanelKillKeeps == PanelInv /\ Panel!Kill => PanelInv' /\ Panel!Handed
<1> SUFFICES ASSUME PanelInv, Panel!Kill PROVE PanelInv' /\ Panel!Handed
  OBVIOUS
<1>1. sys' = sys /\ run' = Panel!NoRun(run.mem) /\ left' \in PanelLefts
        /\ left'.faults = left.faults
  BY PanelOtherSpends DEF Panel!Kill, PanelInv, PanelTypes
<1>2. sys \in PanelMachines /\ (sys.version = "none" => ~sys.active)
  BY DEF PanelInv, PanelTypes, PanelPlaceAt
<1> QED
  BY <1>1, <1>2, PanelRests DEF Panel!Handed

LEMMA PanelEvents ==
  ASSUME PanelInv, NEW m \in PanelMachines, m.version = "none" => ~m.active,
         \/ m.clients = {}
         \/ m.clients = sys.clients /\ m.profile = sys.profile,
         Panel!Event(m)
  PROVE  PanelInv' /\ Panel!Handed
<1>1. sys' = m /\ run' = Panel!NoRun(run.mem) /\ left' \in PanelLefts
        /\ left'.faults = left.faults
  BY PanelOtherSpends DEF Panel!Event, PanelInv, PanelTypes
<1> QED
  BY <1>1, PanelRests DEF Panel!Handed, Panel!Event

LEMMA NoPanelIsAMachine ==
  /\ Panel!NoPanel \in PanelMachines /\ Panel!NoPanel.clients = {} /\ ~Panel!NoPanel.active
  /\ Panel!NoPanel.profile.id = 0
  BY PanelNumbers
     DEF Panel!NoPanel, PanelMachines, PanelStores, PanelEnvs, PanelPorts, PanelFiles

LEMMA PanelEventsKeep ==
  PanelInv /\ (Panel!NewRelease \/ Panel!PortOpened \/ Panel!NewAddress \/ Panel!PanelLost
                 \/ Panel!Reboot)
    => PanelInv' /\ Panel!Handed
<1> SUFFICES ASSUME PanelInv,
                    Panel!NewRelease \/ Panel!PortOpened \/ Panel!NewAddress
                      \/ Panel!PanelLost \/ Panel!Reboot
             PROVE  PanelInv' /\ Panel!Handed
  OBVIOUS
<1>1. sys \in PanelMachines /\ (sys.version = "none" => ~sys.active)
  BY DEF PanelInv, PanelTypes, PanelPlaceAt
<1>2. CASE Panel!NewRelease
  <2> DEFINE version == IF sys.version = "none" THEN "none" ELSE "old"
             m == [sys EXCEPT !.version = version]
  <2>1. version \in {"none", "old"} /\ (version = "none" => sys.version = "none")
    OBVIOUS
  <2>2. Panel!Event(m)
    BY <1>2 DEF Panel!NewRelease
  <2> HIDE DEF version
  <2>3. /\ m \in PanelMachines /\ m.version = version /\ (m.active <=> sys.active)
        /\ m.clients = sys.clients /\ m.profile = sys.profile
    BY <1>1, <2>1 DEF PanelMachines
  <2> HIDE DEF m
  <2> QED
    BY <1>1, <2>1, <2>2, <2>3, PanelEvents
<1>3. CASE Panel!PortOpened \/ Panel!NewAddress
  <2>1. PICK m \in {[sys EXCEPT !.reach = TRUE],
          [sys EXCEPT !.share = FALSE]} : Panel!Event(m)
    BY <1>3 DEF Panel!PortOpened, Panel!NewAddress
  <2>2. /\ m \in PanelMachines /\ m.version = sys.version /\ (m.active <=> sys.active)
        /\ m.clients = sys.clients /\ m.profile = sys.profile
    BY ZenonT(60), <1>1 DEF PanelMachines
  <2> QED
    BY <1>1, <2>1, <2>2, PanelEvents
<1>4. CASE Panel!PanelLost
  <2> DEFINE m == [Panel!NoPanel EXCEPT !.entry = sys.entry, !.profile = sys.profile,
                     !.remote = sys.remote, !.reach = sys.reach]
  <2>1. m \in PanelMachines /\ m.clients = {} /\ ~m.active
    BY <1>1, NoPanelIsAMachine DEF PanelMachines
  <2>2. Panel!Event(m)
    BY <1>4 DEF Panel!PanelLost
  <2> HIDE DEF m
  <2> QED
    BY <2>1, <2>2, PanelEvents
<1>5. CASE Panel!Reboot
  <2>1. CASE sys.version # "none" /\ Panel!Event(Panel!Restarted(sys))
    BY <1>1, <2>1, PanelComesUp, PanelEvents
  <2>2. CASE Panel!Event([sys EXCEPT !.active = FALSE])
    <3> DEFINE m == [sys EXCEPT !.active = FALSE]
    <3>1. m \in PanelMachines /\ ~m.active /\ m.clients = sys.clients
            /\ m.profile = sys.profile
      BY <1>1 DEF PanelMachines
    <3>2. Panel!Event(m)
      BY <2>2
    <3> HIDE DEF m
    <3> QED
      BY <3>1, <3>2, PanelEvents
  <2> QED
    BY <1>5, <2>1, <2>2 DEF Panel!Reboot
<1> QED
  BY <1>2, <1>3, <1>4, <1>5

LEMMA InitPanel == Panel!Init => PanelInv
<1> SUFFICES ASSUME Panel!Init PROVE PanelInv
  OBVIOUS
<1>1. PICK machine \in {Panel!NoPanel, Panel!ForeignPanel}, remote \in BOOLEAN :
        sys = [machine EXCEPT !.remote = remote]
  BY DEF Panel!Init
<1>2. /\ Panel!ForeignPanel \in PanelMachines /\ Panel!ForeignPanel.clients = {}
      /\ Panel!ForeignPanel.version = "old" /\ Panel!ForeignPanel.profile.id = 0
  BY NoPanelIsAMachine, PanelNumbers
     DEF Panel!ForeignPanel, PanelMachines, PanelEnvs, PanelFiles
<1>3. /\ sys \in PanelMachines /\ sys.clients = {} /\ sys.profile.id = 0
      /\ sys.version = "none" => ~sys.active
  BY <1>1, <1>2, NoPanelIsAMachine DEF PanelMachines
<1>4. run \in PanelRuns /\ run.pc = "idle" /\ run.mem.writes = 0
  BY PanelNumbers, PanelPlaceNames
     DEF Panel!Init, Panel!NoRun, Panel!Fresh, PanelRuns, PanelMems
<1>5. left \in PanelLefts
  BY BoundsAreNumbers DEF Panel!Init, Panel!Budget, PanelLefts
<1> QED
  BY <1>3, <1>4, <1>5, PanelPlaceNames
     DEF PanelInv, PanelTypes, PanelIdentityAt, PanelPlaceAt, PanelHttpsAt, PanelWritesAt,
         PanelClientAt

LEMMA NextPanel == PanelInv /\ [Panel!Next]_vars => PanelInv' /\ Panel!Handed
<1> SUFFICES ASSUME PanelInv, [Panel!Next]_vars PROVE PanelInv' /\ Panel!Handed
  OBVIOUS
<1>1. ASSUME UNCHANGED vars PROVE PanelInv' /\ Panel!Handed
  BY <1>1 DEF vars, PanelInv, PanelTypes, PanelCalm, Panel!Handed
<1>2. ASSUME Panel!Step PROVE PanelInv' /\ Panel!Handed
  BY <1>2, PanelAskReleaseKeeps, PanelFreePortKeeps, PanelDownloadKeeps, PanelInstallKeeps,
     PanelAwaitActiveKeeps, PanelRotateKeeps, PanelRotateEnvKeeps, PanelRestartsKeep,
     PanelConvergePortKeeps, PanelLookAtCertificateKeeps, PanelCertificatesKeep,
     PanelSyncEnvKeeps, PanelStoreCredentialsKeeps, PanelSetPathsKeeps,
     PanelEnsureInboundKeeps, PanelSetShareAddressKeeps, PanelOpenVaultKeeps,
     PanelEnsureClientKeeps, PanelStoreProfileKeeps, PanelEnsureProxyKeeps,
     PanelWritePolicyKeeps, PanelAsks DEF Panel!Step
<1> QED
  BY <1>1, <1>2, PanelStartTaskKeeps, PanelKillKeeps, PanelEventsKeep DEF Panel!Next

PanelHolds == section = "panel" => PanelInv
-----------------------------------------------------------------------------
(*****************************************************************************)
(* The resolver: as long as no call failed and nothing was cut off the proxy *)
(* is the one its files describe, and with at most one failed call a run     *)
(* never leaves the machine asking a proxy it has stopped.                   *)
(*****************************************************************************)
DnsPlaces == Dns!Labels \cup {"idle", "end"}
DnsNames  == Profiles \cup {"none"}
DnsMachines ==
  [host : Profiles, profile : DnsNames, binary : {"none", "old", "new"},
   unit : [profile : DnsNames, provider : BOOLEAN], loaded : BOOLEAN,
   serving : {"down", "stale", "current"}, enabled : BOOLEAN, held : BOOLEAN,
   dropin : BOOLEAN, routed : BOOLEAN, auto : SUBSET Links, live : SUBSET Links]
DnsMems == [active : BOOLEAN, cut : BOOLEAN, ignored : SUBSET Links, found : BOOLEAN,
            rewrote : BOOLEAN, earlier : BOOLEAN]
DnsRuns == [pc : DnsPlaces, force : BOOLEAN, warn : BOOLEAN, changed : BOOLEAN,
            hurt : BOOLEAN, settled : BOOLEAN, mem : DnsMems]
DnsLefts == [runs : 0..MaxRuns, faults : 0..MoreFaults, kills : 0..MaxKills,
             events : 0..MaxEvents]
DnsTypes == sys \in DnsMachines /\ run \in DnsRuns /\ left \in DnsLefts

\* the places of a run
DnsLooking   == {"select", "release", "binary", "unit"}
DnsStarting  == {"reload", "port", "enable", "start"}
DnsCutting   == {"dropin", "resolved", "links", "verify"}
DnsReverting == {"unlink", "restore", "back", "stop"}

\* what a run has in place when it comes to a step
DnsPlaceAt(m, r) ==
  /\ r.pc \in {"binary", "unit", "probe"} \cup DnsStarting \cup DnsCutting \cup DnsReverting
       => m.profile # "none"
  /\ r.pc \in {"probe"} \cup DnsStarting \cup DnsCutting
       => m.unit.profile = m.profile /\ m.binary = "new"
  /\ r.pc = "unit" => m.binary = "new"
  /\ r.pc \in {"start", "probe"} \cup DnsCutting => m.enabled
  /\ r.pc \in {"probe"} \cup DnsCutting => m.serving # "down"
  /\ r.pc \in {"enable", "start"} /\ r.mem.active => m.serving # "down"
  /\ r.pc \in {"reload", "port"} \cup DnsLooking => ~r.mem.active
  /\ r.pc \in DnsLooking => ~r.mem.earlier

\* As long as no call failed and nothing was cut off: a proxy older than its
\* files is restarted by the run that changed them.
DnsCurrentAt(m, r) ==
  /\ r.pc # "reload" => m.loaded
  /\ m.serving = "stale"
       => \/ r.pc = "reload"
          \/ r.pc \in {"unit", "port", "enable", "start"} /\ r.changed
  /\ r.pc = "end" /\ ~r.warn
       => m.serving = "current" /\ m.unit.profile = m.profile /\ m.binary = "new"

\* whoever is sent to the proxy finds it, now and after the next boot
DnsServed(m) == m.routed => m.serving # "down"
DnsSound(m)  == m.dropin => m.enabled /\ m.unit.profile # "none" /\ m.binary # "none"
DnsWholeAt(m, r) == DnsServed(m) /\ DnsSound(m) /\ r.pc \notin DnsReverting

\* With at most one failed call and nothing cut off: a run that found no
\* cutover has none before its proxy answers and takes its own one back.
DnsCutoverAt(m, r) ==
  /\ m.profile = "none" => DnsServed(m) /\ DnsSound(m)
  /\ ~r.mem.earlier =>
       /\ r.pc \in {"probe", "dropin"} \cup DnsStarting => ~m.routed /\ ~m.dropin
       /\ r.pc = "resolved" => ~m.routed
       /\ r.pc \in {"resolved", "links", "verify", "unlink"} => r.mem.cut
       /\ r.pc \in {"restore", "back"} => ~m.dropin
       /\ r.pc = "stop" => ~m.routed
       /\ r.pc = "end" => DnsServed(m)

DnsUncut == left.kills = MaxKills
DnsCalm  == DnsUncut /\ left.faults = MoreFaults
DnsOnce  == DnsUncut /\ left.faults >= MoreFaults - 1
DnsInv ==
  /\ DnsTypes /\ DnsPlaceAt(sys, run)
  /\ DnsCalm => DnsCurrentAt(sys, run) /\ DnsWholeAt(sys, run)
  /\ DnsOnce => DnsCutoverAt(sys, run)

LEMMA DnsPlaceNames ==
  /\ Dns!Labels = {"select", "release", "binary", "unit", "reload", "port", "enable", "start",
                   "probe", "dropin", "resolved", "links", "verify", "unlink", "restore",
                   "back", "stop"}
  /\ DnsPlaces = Dns!Labels \cup {"idle", "end"}
  /\ DnsLooking = {"select", "release", "binary", "unit"}
  /\ DnsStarting = {"reload", "port", "enable", "start"}
  /\ DnsCutting = {"dropin", "resolved", "links", "verify"}
  /\ DnsReverting = {"unlink", "restore", "back", "stop"}
  BY DEF DnsPlaces, Dns!Labels, DnsLooking, DnsStarting, DnsCutting, DnsReverting

LEMMA DnsBounds ==
  /\ MaxRuns \in Nat /\ MoreFaults \in Nat /\ MaxKills \in Nat /\ MaxEvents \in Nat
  /\ DnsCalm => DnsOnce
  BY BoundsAreNumbers DEF DnsCalm, DnsOnce
-----------------------------------------------------------------------------
LEMMA DnsFaultSpends ==
  ASSUME left \in DnsLefts, left.faults > 0, left' = [left EXCEPT !.faults = @ - 1]
  PROVE  left' \in DnsLefts /\ ~DnsCalm' /\ (DnsOnce' => DnsCalm)
<1>1. left.faults \in 0..MoreFaults /\ MoreFaults \in Nat
  BY DnsBounds DEF DnsLefts
<1>2. left.faults - 1 \in 0..MoreFaults
  BY <1>1
<1>3. /\ left' \in DnsLefts /\ left'.kills = left.kills
      /\ left'.faults = left.faults - 1
  BY <1>2 DEF DnsLefts
<1>4. ~DnsCalm'
  BY <1>1, <1>3 DEF DnsCalm
<1>5. DnsOnce' => DnsCalm
  BY <1>1, <1>3 DEF DnsCalm, DnsOnce, DnsUncut
<1> QED
  BY <1>3, <1>4, <1>5

LEMMA DnsOthersSpend ==
  ASSUME left \in DnsLefts
  PROVE  /\ left.runs > 0 /\ left' = [left EXCEPT !.runs = @ - 1]
            => left' \in DnsLefts /\ (DnsCalm' => DnsCalm) /\ (DnsOnce' => DnsOnce)
         /\ left.kills > 0 /\ left' = [left EXCEPT !.kills = @ - 1]
            => left' \in DnsLefts /\ ~DnsCalm' /\ ~DnsOnce'
         /\ left.events > 0 /\ left' = [left EXCEPT !.events = @ - 1]
            => left' \in DnsLefts /\ (DnsCalm' => DnsCalm) /\ (DnsOnce' => DnsOnce)
<1>1. left.runs \in 0..MaxRuns /\ left.kills \in 0..MaxKills /\ left.events \in 0..MaxEvents
  BY DEF DnsLefts
<1>2. ASSUME left.runs > 0, left' = [left EXCEPT !.runs = @ - 1]
      PROVE  left' \in DnsLefts /\ (DnsCalm' => DnsCalm) /\ (DnsOnce' => DnsOnce)
  <2>1. left.runs - 1 \in 0..MaxRuns
    BY <1>1, <1>2, DnsBounds
  <2>2. left' \in DnsLefts /\ left'.kills = left.kills /\ left'.faults = left.faults
    BY <1>2, <2>1 DEF DnsLefts
  <2> QED
    BY <2>2 DEF DnsCalm, DnsOnce, DnsUncut
<1>3. ASSUME left.kills > 0, left' = [left EXCEPT !.kills = @ - 1]
      PROVE  left' \in DnsLefts /\ ~DnsCalm' /\ ~DnsOnce'
  <2>1. left.kills - 1 \in 0..MaxKills /\ left.kills - 1 # MaxKills
    BY <1>1, <1>3, DnsBounds
  <2>2. left' \in DnsLefts /\ left'.kills = left.kills - 1
    BY <1>3, <2>1 DEF DnsLefts
  <2> QED
    BY <2>1, <2>2 DEF DnsCalm, DnsOnce, DnsUncut
<1>4. ASSUME left.events > 0, left' = [left EXCEPT !.events = @ - 1]
      PROVE  left' \in DnsLefts /\ (DnsCalm' => DnsCalm) /\ (DnsOnce' => DnsOnce)
  <2>1. left.events - 1 \in 0..MaxEvents
    BY <1>1, <1>4, DnsBounds
  <2>2. left' \in DnsLefts /\ left'.kills = left.kills /\ left'.faults = left.faults
    BY <1>4, <2>1 DEF DnsLefts
  <2> QED
    BY <2>2 DEF DnsCalm, DnsOnce, DnsUncut
<1> QED
  BY <1>2, <1>3, <1>4

\* What a step may make of the run: another place, perhaps a warning.
DnsLike(r, to) == r \in DnsRuns /\ r.pc = to /\ r.mem = run.mem

LEMMA DnsValues ==
  ASSUME run \in DnsRuns, NEW to \in DnsPlaces
  PROVE  /\ DnsLike(Dns!Goto(run, to), to)
         /\ Dns!Goto(run, to).changed = run.changed
         /\ DnsLike(Dns!Goto(Dns!Warned(run), to), to)
         /\ Dns!Goto(Dns!Warned(run), to).warn
         /\ Dns!Goto(Dns!Warned(run), to).changed = run.changed
         /\ DnsLike(Dns!Goto(Dns!Changed(run), to), to)
              /\ Dns!Goto(Dns!Changed(run), to).changed
         /\ DnsLike(Dns!Goto(Dns!Warned(Dns!Changed(run)), to), to)
         /\ Dns!Goto(Dns!Warned(Dns!Changed(run)), to).warn
  BY DEF DnsLike, DnsRuns, Dns!Goto, Dns!Warned, Dns!Changed

LEMMA DnsFailed ==
  run \in DnsRuns => DnsLike(Dns!Failed, "end") /\ Dns!Failed.warn
<1>1. "end" \in DnsPlaces
  BY DnsPlaceNames
<1> QED
  BY <1>1, DnsValues DEF Dns!Failed

LEMMA DnsDoes ==
  ASSUME DnsInv, NEW from \in Dns!Labels, NEW m \in DnsMachines, NEW r \in DnsRuns,
         DnsPlaceAt(m, r),
         \/ /\ Dns!Do(from, m, r)
            /\ DnsCalm => DnsCurrentAt(m, r) /\ DnsWholeAt(m, r)
            /\ DnsOnce => DnsCutoverAt(m, r)
         \/ Dns!FaultLeaving(from, m, r) /\ (DnsCalm => DnsCutoverAt(m, r))
  PROVE  DnsInv'
<1>1. CASE /\ Dns!Do(from, m, r)
           /\ DnsCalm => DnsCurrentAt(m, r) /\ DnsWholeAt(m, r)
           /\ DnsOnce => DnsCutoverAt(m, r)
  <2>1. sys' = m /\ run' = r /\ left' = left
    BY <1>1 DEF Dns!Do
  <2>2. (DnsCalm' <=> DnsCalm) /\ (DnsOnce' <=> DnsOnce)
    BY <2>1 DEF DnsCalm, DnsOnce, DnsUncut
  <2> QED
    BY <1>1, <2>1, <2>2 DEF DnsInv, DnsTypes
<1>2. CASE Dns!FaultLeaving(from, m, r) /\ (DnsCalm => DnsCutoverAt(m, r))
  <2>1. /\ sys' = m /\ run' = [r EXCEPT !.hurt = TRUE]
        /\ left' \in DnsLefts /\ ~DnsCalm' /\ (DnsOnce' => DnsCalm)
    BY <1>2, DnsFaultSpends DEF DnsInv, DnsTypes, Dns!FaultLeaving
  <2>2. run' \in DnsRuns /\ run'.pc = r.pc /\ run'.mem = r.mem
    BY <2>1 DEF DnsRuns
  <2>3. DnsPlaceAt(sys', run')
    BY <2>1, <2>2 DEF DnsPlaceAt
  <2>4. DnsCutoverAt(m, r) => DnsCutoverAt(sys', run')
    BY <2>1, <2>2 DEF DnsCutoverAt
  <2> QED
    BY <1>2, <2>1, <2>2, <2>3, <2>4 DEF DnsInv, DnsTypes
<1> QED
  BY <1>1, <1>2

\* a call that fails, leaves the machine as it was and ends the run
LEMMA DnsStops ==
  ASSUME DnsInv, NEW from \in Dns!Labels, NEW r, DnsLike(r, "end"), Dns!Fault(from, r)
  PROVE  DnsInv'
<1>1. DnsPlaceAt(sys, r) /\ (DnsCalm => DnsCutoverAt(sys, r))
  BY DnsPlaceNames DEF DnsLike, DnsInv, DnsPlaceAt, DnsCutoverAt, DnsWholeAt
<1> QED
  BY <1>1, DnsDoes DEF DnsLike, DnsInv, DnsTypes, Dns!Fault

\* a call of the cutover that fails and is followed by the revert
LEMMA DnsReverts ==
  ASSUME DnsInv, run.pc \in {"resolved", "links", "verify"}, NEW r, DnsLike(r, "unlink"),
         Dns!Fault(run.pc, r)
  PROVE  DnsInv'
<1>1. DnsPlaceAt(sys, r) /\ (DnsCalm => DnsCutoverAt(sys, r))
  BY DnsPlaceNames, DnsBounds DEF DnsLike, DnsInv, DnsPlaceAt, DnsCutoverAt, DnsWholeAt
<1>2. run.pc \in Dns!Labels /\ "unlink" \in DnsPlaces
  BY DnsPlaceNames
<1> QED
  BY <1>1, <1>2, DnsDoes DEF DnsLike, DnsInv, DnsTypes, Dns!Fault
-----------------------------------------------------------------------------
LEMMA DnsSelectProfileKeeps == DnsInv /\ Dns!SelectProfile => DnsInv'
<1> SUFFICES ASSUME DnsInv, Dns!SelectProfile PROVE DnsInv'
  OBVIOUS
<1> DEFINE m == [sys EXCEPT !.profile = sys.host]
           short == [sys EXCEPT !.profile = "none"]
           r == Dns!Goto(run, "release")
           c == Dns!Goto(Dns!Changed(run), "release")
           w == Dns!Goto(Dns!Warned(run), "release")
<1>1. sys \in DnsMachines /\ run \in DnsRuns
  BY DEF DnsInv, DnsTypes
<1>2. /\ m \in DnsMachines /\ m.unit = sys.unit /\ m.binary = sys.binary
      /\ m.serving = sys.serving /\ m.enabled = sys.enabled /\ m.loaded = sys.loaded
      /\ m.dropin = sys.dropin /\ m.routed = sys.routed
      /\ short \in DnsMachines /\ short.unit = sys.unit /\ short.binary = sys.binary
      /\ short.serving = sys.serving /\ short.enabled = sys.enabled
      /\ short.dropin = sys.dropin /\ short.routed = sys.routed
      /\ m.profile = sys.host
  BY <1>1 DEF DnsMachines, DnsNames
<1>3. DnsLike(r, "release") /\ DnsLike(c, "release") /\ DnsLike(w, "release")
  BY <1>1, DnsValues, DnsPlaceNames
<1>4. \/ Dns!Do("select", sys, r)
      \/ Dns!Do("select", m, c)
      \/ Dns!Fault("select", w)
      \/ Dns!FaultLeaving("select", short, w)
  BY DEF Dns!SelectProfile
<1> HIDE DEF m, short, r, c, w
<1>5. run.pc = "select"
  BY <1>4 DEF Dns!Do, Dns!Fault, Dns!FaultLeaving
<1>6. ~run.mem.active /\ ~run.mem.earlier
  BY <1>5 DEF DnsInv, DnsPlaceAt, DnsLooking
<1>7. CASE Dns!Do("select", sys, r)
  <2>1. DnsPlaceAt(sys, r)
    BY <1>3, <1>6, DnsPlaceNames DEF DnsLike, DnsPlaceAt
  <2>2. DnsCalm => DnsCurrentAt(sys, r) /\ DnsWholeAt(sys, r)
    BY <1>3, <1>5, DnsPlaceNames DEF DnsLike, DnsInv, DnsCurrentAt, DnsWholeAt
  <2>3. DnsOnce => DnsCutoverAt(sys, r)
    BY <1>3, DnsPlaceNames DEF DnsLike, DnsInv, DnsCutoverAt
  <2> QED
    BY <1>1, <1>3, <1>7, <2>1, <2>2, <2>3, DnsDoes, DnsPlaceNames DEF DnsLike
<1>8. CASE Dns!Do("select", m, c)
  <2>1. DnsPlaceAt(m, c)
    BY <1>3, <1>6, DnsPlaceNames DEF DnsLike, DnsPlaceAt
  <2>2. DnsCalm => DnsCurrentAt(m, c)
    BY <1>2, <1>3, <1>5, DnsPlaceNames DEF DnsLike, DnsInv, DnsCurrentAt
  <2>3. DnsCalm => DnsWholeAt(m, c)
    BY <1>2, <1>3, DnsPlaceNames DEF DnsLike, DnsInv, DnsWholeAt, DnsServed, DnsSound
  <2>4. DnsOnce => DnsCutoverAt(m, c)
    BY <1>1, <1>2, <1>3, DnsPlaceNames, NoneIsNoProfile
       DEF DnsMachines, DnsLike, DnsCutoverAt
  <2> QED
    BY <1>2, <1>3, <1>8, <2>1, <2>2, <2>3, <2>4, DnsDoes, DnsPlaceNames DEF DnsLike
<1>9. CASE Dns!Fault("select", w)
  <2>1. DnsPlaceAt(sys, w)
    BY <1>3, <1>6, DnsPlaceNames DEF DnsLike, DnsPlaceAt
  <2>2. DnsCalm => DnsCutoverAt(sys, w)
    BY <1>3, DnsPlaceNames DEF DnsLike, DnsInv, DnsCutoverAt, DnsWholeAt
  <2> QED
    BY <1>1, <1>3, <1>9, <2>1, <2>2, DnsDoes, DnsPlaceNames DEF DnsLike, Dns!Fault
<1>10. CASE Dns!FaultLeaving("select", short, w)
  <2>1. DnsPlaceAt(short, w)
    BY <1>3, <1>6, DnsPlaceNames DEF DnsLike, DnsPlaceAt
  <2>2. DnsCalm => DnsCutoverAt(short, w)
    BY <1>2, <1>3, DnsPlaceNames
       DEF DnsLike, DnsInv, DnsCutoverAt, DnsWholeAt, DnsServed, DnsSound
  <2> QED
    BY <1>2, <1>3, <1>10, <2>1, <2>2, DnsDoes, DnsPlaceNames DEF DnsLike
<1> QED
  BY <1>4, <1>7, <1>8, <1>9, <1>10

LEMMA DnsAskReleaseKeeps == DnsInv /\ Dns!AskRelease => DnsInv'
<1> SUFFICES ASSUME DnsInv, Dns!AskRelease PROVE DnsInv'
  OBVIOUS
<1> DEFINE r == Dns!Goto(run, "binary")
           f == Dns!Failed
<1>1. sys \in DnsMachines /\ run \in DnsRuns
  BY DEF DnsInv, DnsTypes
<1>2. DnsLike(r, "binary") /\ r.changed = run.changed /\ DnsLike(f, "end") /\ f.warn
  BY <1>1, DnsValues, DnsFailed, DnsPlaceNames
<1>3. \/ sys.profile = "none" /\ Dns!Do("release", sys, f)
      \/ sys.profile # "none" /\ Dns!Do("release", sys, r)
      \/ Dns!Fault("release", f)
  BY DEF Dns!AskRelease
<1> HIDE DEF r, f
<1>4. run.pc = "release"
  BY <1>3 DEF Dns!Do, Dns!Fault, Dns!FaultLeaving
<1>5. ~run.mem.active /\ ~run.mem.earlier
  BY <1>4 DEF DnsInv, DnsPlaceAt, DnsLooking
<1>6. CASE sys.profile = "none" /\ Dns!Do("release", sys, f)
  <2>1. DnsPlaceAt(sys, f)
    BY <1>2, DnsPlaceNames DEF DnsLike, DnsPlaceAt
  <2>2. DnsCalm => DnsCurrentAt(sys, f) /\ DnsWholeAt(sys, f)
    BY <1>2, <1>4, DnsPlaceNames DEF DnsLike, DnsInv, DnsCurrentAt, DnsWholeAt
  <2>3. DnsOnce => DnsCutoverAt(sys, f)
    BY <1>2, <1>6, DnsPlaceNames DEF DnsLike, DnsInv, DnsCutoverAt
  <2> QED
    BY <1>1, <1>2, <1>6, <2>1, <2>2, <2>3, DnsDoes, DnsPlaceNames DEF DnsLike
<1>7. CASE sys.profile # "none" /\ Dns!Do("release", sys, r)
  <2>1. DnsPlaceAt(sys, r)
    BY <1>2, <1>5, <1>7, DnsPlaceNames DEF DnsLike, DnsPlaceAt
  <2>2. DnsCalm => DnsCurrentAt(sys, r) /\ DnsWholeAt(sys, r)
    BY <1>2, <1>4, DnsPlaceNames DEF DnsLike, DnsInv, DnsCurrentAt, DnsWholeAt
  <2>3. DnsOnce => DnsCutoverAt(sys, r)
    BY <1>2, DnsPlaceNames DEF DnsLike, DnsInv, DnsCutoverAt
  <2> QED
    BY <1>1, <1>2, <1>7, <2>1, <2>2, <2>3, DnsDoes, DnsPlaceNames DEF DnsLike
<1>8. CASE Dns!Fault("release", f)
  BY <1>2, <1>8, DnsStops, DnsPlaceNames
<1> QED
  BY <1>3, <1>6, <1>7, <1>8

\* a running proxy whose files were replaced is older than they are
LEMMA DnsOutdates ==
  sys \in DnsMachines => /\ Dns!Outdated \in {"down", "stale"}
                         /\ Dns!Outdated = "down" <=> sys.serving = "down"
  BY DEF DnsMachines, Dns!Outdated, Dns!Running

LEMMA DnsReplaceBinaryKeeps == DnsInv /\ Dns!ReplaceBinary => DnsInv'
<1> SUFFICES ASSUME DnsInv, Dns!ReplaceBinary PROVE DnsInv'
  OBVIOUS
<1> DEFINE up == Dns!Outdated
           m == [sys EXCEPT !.binary = "new", !.serving = up]
           r == Dns!Goto(run, "unit")
           c == Dns!Goto(Dns!Changed(run), "unit")
           f == Dns!Failed
<1>1. sys \in DnsMachines /\ run \in DnsRuns
  BY DEF DnsInv, DnsTypes
<1>2. up \in {"down", "stale"} /\ (up = "down" <=> sys.serving = "down")
  BY <1>1, DnsOutdates
<1>3. /\ DnsLike(r, "unit") /\ r.changed = run.changed /\ DnsLike(c, "unit") /\ c.changed
      /\ DnsLike(f, "end")
  BY <1>1, DnsValues, DnsFailed, DnsPlaceNames
<1>4. \/ sys.binary = "new" /\ Dns!Do("binary", sys, r)
      \/ Dns!Do("binary", m, c)
      \/ Dns!Fault("binary", f)
  BY DEF Dns!ReplaceBinary
<1> HIDE DEF up
<1>5. /\ m \in DnsMachines /\ m.unit = sys.unit /\ m.binary = "new" /\ m.serving = up
      /\ m.enabled = sys.enabled /\ m.loaded = sys.loaded /\ m.profile = sys.profile
      /\ m.dropin = sys.dropin /\ m.routed = sys.routed
  BY <1>1, <1>2 DEF DnsMachines
<1> HIDE DEF m, r, c, f
<1>6. run.pc = "binary"
  BY <1>4 DEF Dns!Do, Dns!Fault, Dns!FaultLeaving
<1>7. ~run.mem.active /\ ~run.mem.earlier /\ sys.profile # "none"
  BY <1>6, DnsPlaceNames DEF DnsInv, DnsPlaceAt
<1>8. CASE sys.binary = "new" /\ Dns!Do("binary", sys, r)
  <2>1. DnsPlaceAt(sys, r)
    BY <1>3, <1>7, <1>8, DnsPlaceNames DEF DnsLike, DnsPlaceAt
  <2>2. DnsCalm => DnsCurrentAt(sys, r) /\ DnsWholeAt(sys, r)
    BY <1>3, <1>6, DnsPlaceNames DEF DnsLike, DnsInv, DnsCurrentAt, DnsWholeAt
  <2>3. DnsOnce => DnsCutoverAt(sys, r)
    BY <1>3, DnsPlaceNames DEF DnsLike, DnsInv, DnsCutoverAt
  <2> QED
    BY <1>1, <1>3, <1>8, <2>1, <2>2, <2>3, DnsDoes, DnsPlaceNames DEF DnsLike
<1>9. CASE Dns!Do("binary", m, c)
  <2>1. DnsPlaceAt(m, c)
    BY <1>3, <1>5, <1>7, DnsPlaceNames DEF DnsLike, DnsPlaceAt
  <2>2. DnsCalm => DnsCurrentAt(m, c)
    BY <1>3, <1>5, <1>6, DnsPlaceNames DEF DnsLike, DnsInv, DnsCurrentAt
  <2>3. DnsCalm => DnsWholeAt(m, c)
    BY <1>2, <1>3, <1>5, DnsPlaceNames DEF DnsLike, DnsInv, DnsWholeAt, DnsServed, DnsSound
  <2>4. DnsOnce => DnsCutoverAt(m, c)
    BY <1>3, <1>5, <1>7, DnsPlaceNames DEF DnsLike, DnsCutoverAt
  <2> QED
    BY <1>3, <1>5, <1>9, <2>1, <2>2, <2>3, <2>4, DnsDoes, DnsPlaceNames DEF DnsLike
<1>10. CASE Dns!Fault("binary", f)
  BY <1>3, <1>10, DnsStops, DnsPlaceNames
<1> QED
  BY <1>4, <1>8, <1>9, <1>10
-----------------------------------------------------------------------------
LEMMA DnsGoes ==
  ASSUME NEW r \in DnsRuns, NEW to \in DnsPlaces
  PROVE  /\ Dns!Goto(r, to) \in DnsRuns /\ Dns!Goto(r, to).pc = to
         /\ Dns!Goto(r, to).mem = r.mem /\ Dns!Goto(r, to).changed = r.changed
         /\ Dns!Goto(r, to).warn = r.warn
         /\ Dns!Changed(r) \in DnsRuns /\ Dns!Changed(r).mem = r.mem
         /\ Dns!Changed(r).changed /\ Dns!Changed(r).warn = r.warn
  BY DEF DnsRuns, Dns!Goto, Dns!Changed

\* what a run remembers, one item at a time
DnsNotes(q, r) == q \in DnsRuns /\ q.pc = r.pc /\ q.changed = r.changed /\ q.warn = r.warn

LEMMA DnsRemembers ==
  ASSUME NEW r \in DnsRuns, NEW v \in BOOLEAN
  PROVE  /\ DnsNotes(Dns!Mem(r, "found", v), r)
         /\ Dns!Mem(r, "found", v).mem.earlier = r.mem.earlier
         /\ Dns!Mem(r, "found", v).mem.active = r.mem.active
         /\ DnsNotes(Dns!Mem(r, "earlier", v), r)
         /\ Dns!Mem(r, "earlier", v).mem.earlier = v
         /\ Dns!Mem(r, "earlier", v).mem.active = r.mem.active
         /\ DnsNotes(Dns!Mem(r, "rewrote", v), r)
         /\ Dns!Mem(r, "rewrote", v).mem.earlier = r.mem.earlier
         /\ Dns!Mem(r, "rewrote", v).mem.active = r.mem.active
         /\ DnsNotes(Dns!Mem(r, "active", v), r)
         /\ Dns!Mem(r, "active", v).mem.earlier = r.mem.earlier
         /\ Dns!Mem(r, "active", v).mem.active = v
         /\ DnsNotes(Dns!Mem(r, "cut", v), r)
         /\ Dns!Mem(r, "cut", v).mem.earlier = r.mem.earlier
         /\ Dns!Mem(r, "cut", v).mem.cut = v
  BY DEF DnsRuns, DnsMems, DnsNotes, Dns!Mem, Dns!Recall

LEMMA DnsRemembersLinks ==
  ASSUME NEW r \in DnsRuns, NEW links \in SUBSET Links
  PROVE  /\ DnsNotes(Dns!Mem(r, "ignored", links), r)
         /\ Dns!Mem(r, "ignored", links).mem.earlier = r.mem.earlier
         /\ Dns!Mem(r, "ignored", links).mem.cut = r.mem.cut
  BY DEF DnsRuns, DnsMems, DnsNotes, Dns!Mem, Dns!Recall

LEMMA DnsWriteUnitKeeps == DnsInv /\ Dns!WriteUnit => DnsInv'
<1> SUFFICES ASSUME DnsInv, Dns!WriteUnit PROVE DnsInv'
  OBVIOUS
<1> DEFINE up == Dns!Outdated
           text == Dns!UnitText
           found == Dns!Mem(run, "found", Dns!Provider)
           seen == Dns!Mem(found, "earlier", sys.dropin \/ sys.routed)
           m == [sys EXCEPT !.unit = text, !.loaded = FALSE, !.serving = up]
           short == [sys EXCEPT !.unit = Dns!NoUnit, !.loaded = FALSE, !.serving = up]
           r == Dns!Goto(seen, "port")
           c == Dns!Goto(Dns!Mem(seen, "rewrote", TRUE), "reload")
           f == Dns!Failed
<1>1. sys \in DnsMachines /\ run \in DnsRuns
  BY DEF DnsInv, DnsTypes
<1>2. up \in {"down", "stale"} /\ (up = "down" <=> sys.serving = "down")
  BY <1>1, DnsOutdates
<1>3. /\ text \in [profile : DnsNames, provider : BOOLEAN] /\ text.profile = sys.profile
      /\ Dns!NoUnit \in [profile : DnsNames, provider : BOOLEAN]
  BY <1>1 DEF Dns!UnitText, Dns!Provider, Dns!NoUnit, DnsMachines, DnsNames
<1>4. DnsNotes(found, run) /\ found.mem.active = run.mem.active
  BY <1>1, DnsRemembers DEF Dns!Provider
<1>5. (sys.dropin \/ sys.routed) \in BOOLEAN
  OBVIOUS
<1> HIDE DEF found
<1>6. /\ DnsNotes(seen, run) /\ seen.mem.active = run.mem.active
      /\ (seen.mem.earlier <=> sys.dropin \/ sys.routed)
  BY <1>4, <1>5, DnsRemembers DEF DnsNotes
<1>7. \/ sys.unit = text /\ Dns!Do("unit", sys, r)
      \/ Dns!Do("unit", m, c)
      \/ Dns!FaultLeaving("unit", short, f)
  BY DEF Dns!WriteUnit, found
<1> HIDE DEF up, text, seen
<1>8. /\ r \in DnsRuns /\ r.pc = "port" /\ r.mem = seen.mem /\ r.changed = run.changed
  BY <1>6, DnsGoes, DnsPlaceNames DEF DnsNotes
<1>9. /\ c \in DnsRuns /\ c.pc = "reload" /\ c.mem.active = run.mem.active
      /\ c.mem.earlier = seen.mem.earlier
  <2> DEFINE rewrote == Dns!Mem(seen, "rewrote", TRUE)
  <2>1. /\ DnsNotes(rewrote, seen) /\ rewrote.mem.active = seen.mem.active
        /\ rewrote.mem.earlier = seen.mem.earlier
    BY <1>6, DnsRemembers DEF DnsNotes
  <2> HIDE DEF rewrote
  <2>2. /\ Dns!Goto(rewrote, "reload") \in DnsRuns
        /\ Dns!Goto(rewrote, "reload").pc = "reload"
        /\ Dns!Goto(rewrote, "reload").mem = rewrote.mem
    BY <2>1, DnsGoes, DnsPlaceNames DEF DnsNotes
  <2> QED
    BY <1>6, <2>1, <2>2 DEF rewrote
<1>10. DnsLike(f, "end")
  BY <1>1, DnsFailed
<1>11. /\ m \in DnsMachines /\ m.unit = text /\ m.binary = sys.binary /\ m.serving = up
       /\ m.enabled = sys.enabled /\ m.profile = sys.profile
       /\ m.dropin = sys.dropin /\ m.routed = sys.routed
       /\ short \in DnsMachines /\ short.binary = sys.binary /\ short.serving = up
       /\ short.profile = sys.profile /\ short.routed = sys.routed
  BY <1>1, <1>2, <1>3 DEF DnsMachines
<1> HIDE DEF m, short, r, c, f
<1>12. run.pc = "unit"
  BY <1>7 DEF Dns!Do, Dns!FaultLeaving
<1>13. ~run.mem.active /\ ~run.mem.earlier /\ sys.profile # "none" /\ sys.binary = "new"
  BY <1>12, DnsPlaceNames DEF DnsInv, DnsPlaceAt
<1>14. CASE sys.unit = text /\ Dns!Do("unit", sys, r)
  <2>1. DnsPlaceAt(sys, r)
    BY <1>3, <1>6, <1>8, <1>13, <1>14, DnsPlaceNames DEF DnsPlaceAt
  <2>2. DnsCalm => DnsCurrentAt(sys, r) /\ DnsWholeAt(sys, r)
    BY <1>8, <1>12, DnsPlaceNames DEF DnsInv, DnsCurrentAt, DnsWholeAt
  <2>3. DnsOnce => DnsCutoverAt(sys, r)
    BY <1>6, <1>8, <1>13, DnsPlaceNames DEF DnsCutoverAt
  <2> QED
    BY <1>1, <1>8, <1>14, <2>1, <2>2, <2>3, DnsDoes, DnsPlaceNames
<1>15. CASE Dns!Do("unit", m, c)
  <2>1. DnsPlaceAt(m, c)
    BY <1>3, <1>9, <1>11, <1>13, DnsPlaceNames DEF DnsPlaceAt
  <2>2. DnsCalm => DnsCurrentAt(m, c)
    BY <1>9, DnsPlaceNames DEF DnsCurrentAt
  <2>3. DnsCalm => DnsWholeAt(m, c)
    BY <1>2, <1>3, <1>9, <1>11, <1>13, DnsPlaceNames
       DEF DnsInv, DnsWholeAt, DnsServed, DnsSound
  <2>4. DnsOnce => DnsCutoverAt(m, c)
    BY <1>6, <1>9, <1>11, <1>13, DnsPlaceNames DEF DnsCutoverAt
  <2> QED
    BY <1>9, <1>11, <1>15, <2>1, <2>2, <2>3, <2>4, DnsDoes, DnsPlaceNames
<1>16. CASE Dns!FaultLeaving("unit", short, f)
  <2>1. DnsPlaceAt(short, f)
    BY <1>10, DnsPlaceNames DEF DnsLike, DnsPlaceAt
  <2>2. DnsCalm => DnsCutoverAt(short, f)
    BY <1>2, <1>10, <1>11, <1>13, DnsPlaceNames
       DEF DnsLike, DnsInv, DnsWholeAt, DnsCutoverAt, DnsServed
  <2> QED
    BY <1>10, <1>11, <1>16, <2>1, <2>2, DnsDoes, DnsPlaceNames DEF DnsLike
<1> QED
  BY <1>7, <1>14, <1>15, <1>16

LEMMA DnsReloadUnitKeeps == DnsInv /\ Dns!ReloadUnit => DnsInv'
<1> SUFFICES ASSUME DnsInv, Dns!ReloadUnit PROVE DnsInv'
  OBVIOUS
<1> DEFINE m == [sys EXCEPT !.loaded = TRUE]
           c == Dns!Goto(Dns!Changed(run), "port")
           f == Dns!Failed
<1>1. sys \in DnsMachines /\ run \in DnsRuns
  BY DEF DnsInv, DnsTypes
<1>2. DnsLike(c, "port") /\ c.changed /\ DnsLike(f, "end")
  BY <1>1, DnsValues, DnsFailed, DnsPlaceNames
<1>3. /\ m \in DnsMachines /\ m.unit = sys.unit /\ m.binary = sys.binary
      /\ m.serving = sys.serving /\ m.enabled = sys.enabled /\ m.profile = sys.profile
      /\ m.dropin = sys.dropin /\ m.routed = sys.routed /\ m.loaded
  BY <1>1 DEF DnsMachines
<1>4. Dns!Do("reload", m, c) \/ Dns!Fault("reload", f)
  BY DEF Dns!ReloadUnit
<1> HIDE DEF m, c, f
<1>5. CASE Dns!Do("reload", m, c)
  <2>1. run.pc = "reload"
    BY <1>5 DEF Dns!Do
  <2>2. DnsPlaceAt(m, c)
    BY <1>2, <1>3, <2>1, DnsPlaceNames DEF DnsLike, DnsInv, DnsPlaceAt
  <2>3. DnsCalm => DnsCurrentAt(m, c)
    BY <1>2, <1>3, DnsPlaceNames DEF DnsLike, DnsCurrentAt
  <2>4. DnsCalm => DnsWholeAt(m, c)
    BY <1>2, <1>3, DnsPlaceNames DEF DnsLike, DnsInv, DnsWholeAt, DnsServed, DnsSound
  <2>5. DnsOnce => DnsCutoverAt(m, c)
    BY <1>2, <1>3, <2>1, DnsPlaceNames
       DEF DnsLike, DnsInv, DnsCutoverAt, DnsServed, DnsSound
  <2> QED
    BY <1>2, <1>3, <1>5, <2>2, <2>3, <2>4, <2>5, DnsDoes, DnsPlaceNames DEF DnsLike
<1>6. CASE Dns!Fault("reload", f)
  BY <1>2, <1>6, DnsStops, DnsPlaceNames
<1> QED
  BY <1>4, <1>5, <1>6

LEMMA DnsFreeListenPortKeeps == DnsInv /\ Dns!FreeListenPort => DnsInv'
<1> SUFFICES ASSUME DnsInv, Dns!FreeListenPort PROVE DnsInv'
  OBVIOUS
<1> DEFINE seen == Dns!Mem(run, "active", Dns!Running)
           m == [sys EXCEPT !.held = FALSE]
           a == Dns!Goto(seen, "enable")
           r == Dns!Goto(run, "enable")
           f == Dns!Failed
<1>1. sys \in DnsMachines /\ run \in DnsRuns
  BY DEF DnsInv, DnsTypes
<1>2. /\ DnsNotes(seen, run) /\ (seen.mem.active <=> sys.serving # "down")
      /\ seen.mem.earlier = run.mem.earlier
  BY <1>1, DnsRemembers DEF Dns!Running
<1>3. Dns!Do("port", sys, a) \/ Dns!Do("port", m, r) \/ Dns!Fault("port", f)
  BY DEF Dns!FreeListenPort
<1> HIDE DEF seen
<1>4. /\ a \in DnsRuns /\ a.pc = "enable" /\ a.mem = seen.mem /\ a.changed = run.changed
      /\ DnsLike(r, "enable") /\ r.changed = run.changed /\ DnsLike(f, "end")
  BY <1>1, <1>2, DnsGoes, DnsValues, DnsFailed, DnsPlaceNames DEF DnsNotes
<1>5. /\ m \in DnsMachines /\ m.unit = sys.unit /\ m.binary = sys.binary
      /\ m.serving = sys.serving /\ m.enabled = sys.enabled /\ m.profile = sys.profile
      /\ m.dropin = sys.dropin /\ m.routed = sys.routed /\ m.loaded = sys.loaded
  BY <1>1 DEF DnsMachines
<1> HIDE DEF m, a, r, f
<1>6. CASE Dns!Do("port", sys, a)
  <2>1. run.pc = "port"
    BY <1>6 DEF Dns!Do
  <2>2. DnsPlaceAt(sys, a)
    BY <1>2, <1>4, <2>1, DnsPlaceNames DEF DnsInv, DnsPlaceAt
  <2>3. DnsCalm => DnsCurrentAt(sys, a) /\ DnsWholeAt(sys, a)
    BY <1>4, <2>1, DnsPlaceNames DEF DnsInv, DnsCurrentAt, DnsWholeAt
  <2>4. DnsOnce => DnsCutoverAt(sys, a)
    BY <1>2, <1>4, <2>1, DnsPlaceNames DEF DnsInv, DnsCutoverAt
  <2> QED
    BY <1>1, <1>4, <1>6, <2>2, <2>3, <2>4, DnsDoes, DnsPlaceNames
<1>7. CASE Dns!Do("port", m, r)
  <2>1. run.pc = "port"
    BY <1>7 DEF Dns!Do
  <2>2. DnsPlaceAt(m, r)
    BY <1>4, <1>5, <2>1, DnsPlaceNames DEF DnsLike, DnsInv, DnsPlaceAt
  <2>3. DnsCalm => DnsCurrentAt(m, r)
    BY <1>4, <1>5, <2>1, DnsPlaceNames DEF DnsLike, DnsInv, DnsCurrentAt
  <2>4. DnsCalm => DnsWholeAt(m, r)
    BY <1>4, <1>5, DnsPlaceNames DEF DnsLike, DnsInv, DnsWholeAt, DnsServed, DnsSound
  <2>5. DnsOnce => DnsCutoverAt(m, r)
    BY <1>4, <1>5, <2>1, DnsPlaceNames
       DEF DnsLike, DnsInv, DnsCutoverAt, DnsServed, DnsSound
  <2> QED
    BY <1>4, <1>5, <1>7, <2>2, <2>3, <2>4, <2>5, DnsDoes, DnsPlaceNames DEF DnsLike
<1>8. CASE Dns!Fault("port", f)
  BY <1>4, <1>8, DnsStops, DnsPlaceNames
<1> QED
  BY <1>3, <1>6, <1>7, <1>8

LEMMA DnsEnableServiceKeeps == DnsInv /\ Dns!EnableService => DnsInv'
<1> SUFFICES ASSUME DnsInv, Dns!EnableService PROVE DnsInv'
  OBVIOUS
<1> DEFINE m == [sys EXCEPT !.enabled = TRUE]
           r == Dns!Goto(run, "start")
           c == Dns!Goto(Dns!Changed(run), "start")
           f == Dns!Failed
<1>1. sys \in DnsMachines /\ run \in DnsRuns
  BY DEF DnsInv, DnsTypes
<1>2. /\ DnsLike(r, "start") /\ r.changed = run.changed /\ DnsLike(c, "start") /\ c.changed
      /\ DnsLike(f, "end")
  BY <1>1, DnsValues, DnsFailed, DnsPlaceNames
<1>3. /\ m \in DnsMachines /\ m.unit = sys.unit /\ m.binary = sys.binary
      /\ m.serving = sys.serving /\ m.enabled /\ m.profile = sys.profile
      /\ m.dropin = sys.dropin /\ m.routed = sys.routed /\ m.loaded = sys.loaded
  BY <1>1 DEF DnsMachines
<1>4. \/ sys.enabled /\ Dns!Do("enable", sys, r)
      \/ Dns!Do("enable", m, c)
      \/ Dns!Fault("enable", f)
  BY DEF Dns!EnableService
<1> HIDE DEF m, r, c, f
<1>5. CASE sys.enabled /\ Dns!Do("enable", sys, r)
  <2>1. run.pc = "enable"
    BY <1>5 DEF Dns!Do
  <2>2. DnsPlaceAt(sys, r)
    BY <1>2, <1>5, <2>1, DnsPlaceNames DEF DnsLike, DnsInv, DnsPlaceAt
  <2>3. DnsCalm => DnsCurrentAt(sys, r) /\ DnsWholeAt(sys, r)
    BY <1>2, <2>1, DnsPlaceNames DEF DnsLike, DnsInv, DnsCurrentAt, DnsWholeAt
  <2>4. DnsOnce => DnsCutoverAt(sys, r)
    BY <1>2, <2>1, DnsPlaceNames DEF DnsLike, DnsInv, DnsCutoverAt
  <2> QED
    BY <1>1, <1>2, <1>5, <2>2, <2>3, <2>4, DnsDoes, DnsPlaceNames DEF DnsLike
<1>6. CASE Dns!Do("enable", m, c)
  <2>1. run.pc = "enable"
    BY <1>6 DEF Dns!Do
  <2>2. DnsPlaceAt(m, c)
    BY <1>2, <1>3, <2>1, DnsPlaceNames DEF DnsLike, DnsInv, DnsPlaceAt
  <2>3. DnsCalm => DnsCurrentAt(m, c)
    BY <1>2, <1>3, <2>1, DnsPlaceNames DEF DnsLike, DnsInv, DnsCurrentAt
  <2>4. DnsCalm => DnsWholeAt(m, c)
    BY <1>2, <1>3, DnsPlaceNames DEF DnsLike, DnsInv, DnsWholeAt, DnsServed, DnsSound
  <2>5. DnsOnce => DnsCutoverAt(m, c)
    BY <1>2, <1>3, <2>1, DnsPlaceNames
       DEF DnsLike, DnsInv, DnsCutoverAt, DnsServed, DnsSound
  <2> QED
    BY <1>2, <1>3, <1>6, <2>2, <2>3, <2>4, <2>5, DnsDoes, DnsPlaceNames DEF DnsLike
<1>7. CASE Dns!Fault("enable", f)
  BY <1>2, <1>7, DnsStops, DnsPlaceNames
<1> QED
  BY <1>4, <1>5, <1>6, <1>7

LEMMA DnsStartServiceKeeps == DnsInv /\ Dns!StartService => DnsInv'
<1> SUFFICES ASSUME DnsInv, Dns!StartService PROVE DnsInv'
  OBVIOUS
<1> DEFINE text == IF sys.serving = "stale" /\ ~sys.loaded THEN "stale" ELSE "current"
           m == [sys EXCEPT !.serving = text]
           down == [sys EXCEPT !.serving = "down"]
           r == Dns!Goto(run, "dropin")
           p == Dns!Goto(run, "probe")
           f == Dns!Goto(Dns!Warned(Dns!Changed(run)), "end")
<1>1. sys \in DnsMachines /\ run \in DnsRuns
  BY DEF DnsInv, DnsTypes
<1>2. /\ DnsLike(r, "dropin") /\ DnsLike(p, "probe") /\ DnsLike(f, "end")
      /\ r.changed = run.changed
  BY <1>1, DnsValues, DnsPlaceNames
<1>3. text \in {"stale", "current"} /\ (sys.loaded => text = "current")
  BY <1>1 DEF DnsMachines
<1>4. \/ run.mem.active /\ ~run.changed /\ Dns!Do("start", sys, r)
      \/ Dns!Do("start", m, p)
      \/ Dns!FaultLeaving("start", down, f)
  BY DEF Dns!StartService, Dns!Starts
<1> HIDE DEF text
<1>5. /\ m \in DnsMachines /\ m.unit = sys.unit /\ m.binary = sys.binary
      /\ m.serving = text /\ m.enabled = sys.enabled /\ m.profile = sys.profile
      /\ m.dropin = sys.dropin /\ m.routed = sys.routed /\ m.loaded = sys.loaded
      /\ down \in DnsMachines /\ down.profile = sys.profile /\ down.routed = sys.routed
      /\ down.serving = "down"
  BY <1>1, <1>3 DEF DnsMachines
<1> HIDE DEF m, down, r, p, f
<1>6. run.pc = "start"
  BY <1>4 DEF Dns!Do, Dns!FaultLeaving
<1>7. CASE run.mem.active /\ ~run.changed /\ Dns!Do("start", sys, r)
  <2>1. DnsPlaceAt(sys, r)
    BY <1>2, <1>6, <1>7, DnsPlaceNames DEF DnsLike, DnsInv, DnsPlaceAt
  <2>2. DnsCalm => DnsCurrentAt(sys, r) /\ DnsWholeAt(sys, r)
    BY <1>2, <1>6, <1>7, DnsPlaceNames DEF DnsLike, DnsInv, DnsCurrentAt, DnsWholeAt
  <2>3. DnsOnce => DnsCutoverAt(sys, r)
    BY <1>2, <1>6, DnsPlaceNames DEF DnsLike, DnsInv, DnsCutoverAt
  <2> QED
    BY <1>1, <1>2, <1>7, <2>1, <2>2, <2>3, DnsDoes, DnsPlaceNames DEF DnsLike
<1>8. CASE Dns!Do("start", m, p)
  <2>1. DnsPlaceAt(m, p)
    BY <1>2, <1>3, <1>5, <1>6, DnsPlaceNames DEF DnsLike, DnsInv, DnsPlaceAt
  <2>2. DnsCalm => DnsCurrentAt(m, p)
    BY <1>2, <1>3, <1>5, <1>6, DnsPlaceNames DEF DnsLike, DnsInv, DnsCurrentAt
  <2>3. DnsCalm => DnsWholeAt(m, p)
    BY <1>2, <1>3, <1>5, DnsPlaceNames
       DEF DnsLike, DnsInv, DnsWholeAt, DnsServed, DnsSound
  <2>4. DnsOnce => DnsCutoverAt(m, p)
    BY <1>2, <1>3, <1>5, <1>6, DnsPlaceNames
       DEF DnsLike, DnsInv, DnsCutoverAt, DnsServed, DnsSound
  <2> QED
    BY <1>2, <1>5, <1>8, <2>1, <2>2, <2>3, <2>4, DnsDoes, DnsPlaceNames DEF DnsLike
<1>9. CASE Dns!FaultLeaving("start", down, f)
  <2>1. DnsPlaceAt(down, f)
    BY <1>2, DnsPlaceNames DEF DnsLike, DnsPlaceAt
  <2>2. DnsCalm => DnsCutoverAt(down, f)
    BY <1>2, <1>5, <1>6, DnsPlaceNames, DnsBounds
       DEF DnsLike, DnsInv, DnsPlaceAt, DnsCutoverAt, DnsServed
  <2> QED
    BY <1>2, <1>5, <1>9, <2>1, <2>2, DnsDoes, DnsPlaceNames DEF DnsLike
<1> QED
  BY <1>4, <1>7, <1>8, <1>9

LEMMA DnsProbeServiceKeeps == DnsInv /\ Dns!ProbeService => DnsInv'
<1> SUFFICES ASSUME DnsInv, Dns!ProbeService PROVE DnsInv'
  OBVIOUS
<1> DEFINE down == [sys EXCEPT !.serving = "down"]
           c == Dns!Goto(Dns!Changed(run), "dropin")
           f == Dns!Goto(Dns!Warned(Dns!Changed(run)), "end")
<1>1. sys \in DnsMachines /\ run \in DnsRuns
  BY DEF DnsInv, DnsTypes
<1>2. DnsLike(c, "dropin") /\ DnsLike(f, "end")
  BY <1>1, DnsValues, DnsPlaceNames
<1>3. /\ down \in DnsMachines /\ down.profile = sys.profile /\ down.routed = sys.routed
      /\ down.serving = "down"
  BY <1>1 DEF DnsMachines
<1>4. Dns!Do("probe", sys, c) \/ Dns!FaultLeaving("probe", down, f)
  BY DEF Dns!ProbeService
<1> HIDE DEF down, c, f
<1>5. run.pc = "probe"
  BY <1>4 DEF Dns!Do, Dns!FaultLeaving
<1>6. CASE Dns!Do("probe", sys, c)
  <2>1. DnsPlaceAt(sys, c)
    BY <1>2, <1>5, DnsPlaceNames DEF DnsLike, DnsInv, DnsPlaceAt
  <2>2. DnsCalm => DnsCurrentAt(sys, c) /\ DnsWholeAt(sys, c)
    BY <1>2, <1>5, DnsPlaceNames DEF DnsLike, DnsInv, DnsCurrentAt, DnsWholeAt
  <2>3. DnsOnce => DnsCutoverAt(sys, c)
    BY <1>2, <1>5, DnsPlaceNames DEF DnsLike, DnsInv, DnsCutoverAt
  <2> QED
    BY <1>1, <1>2, <1>6, <2>1, <2>2, <2>3, DnsDoes, DnsPlaceNames DEF DnsLike
<1>7. CASE Dns!FaultLeaving("probe", down, f)
  <2>1. DnsPlaceAt(down, f)
    BY <1>2, DnsPlaceNames DEF DnsLike, DnsPlaceAt
  <2>2. DnsCalm => DnsCutoverAt(down, f)
    BY <1>2, <1>3, <1>5, DnsPlaceNames, DnsBounds
       DEF DnsLike, DnsInv, DnsPlaceAt, DnsCutoverAt, DnsServed
  <2> QED
    BY <1>2, <1>3, <1>7, <2>1, <2>2, DnsDoes, DnsPlaceNames DEF DnsLike
<1> QED
  BY <1>4, <1>6, <1>7
-----------------------------------------------------------------------------
(* The cutover.                                                              *)

LEMMA DnsWriteDropinKeeps == DnsInv /\ Dns!WriteDropin => DnsInv'
<1> SUFFICES ASSUME DnsInv, Dns!WriteDropin PROVE DnsInv'
  OBVIOUS
<1> DEFINE m == [sys EXCEPT !.dropin = TRUE]
           part(written) == [sys EXCEPT !.dropin = sys.dropin \/ written]
           cut == Dns!Mem(run, "cut", TRUE)
           r == Dns!Goto(run, "links")
           c == Dns!Goto(Dns!Changed(cut), "resolved")
           f == Dns!Failed
<1>1. sys \in DnsMachines /\ run \in DnsRuns
  BY DEF DnsInv, DnsTypes
<1>2. DnsNotes(cut, run) /\ cut.mem.cut /\ cut.mem.earlier = run.mem.earlier
  BY <1>1, DnsRemembers
<1>3. \/ sys.dropin /\ Dns!Do("dropin", sys, r)
      \/ Dns!Do("dropin", m, c)
      \/ \E written \in BOOLEAN : Dns!FaultLeaving("dropin", part(written), f)
  BY DEF Dns!WriteDropin
<1> HIDE DEF cut
<1>4. /\ c \in DnsRuns /\ c.pc = "resolved" /\ c.mem = cut.mem
      /\ DnsLike(r, "links") /\ DnsLike(f, "end")
  BY <1>1, <1>2, DnsGoes, DnsValues, DnsFailed, DnsPlaceNames DEF DnsNotes
<1>5. /\ m \in DnsMachines /\ m.unit = sys.unit /\ m.binary = sys.binary
      /\ m.serving = sys.serving /\ m.enabled = sys.enabled /\ m.profile = sys.profile
      /\ m.routed = sys.routed /\ m.loaded = sys.loaded
  BY <1>1 DEF DnsMachines
<1>6. ASSUME NEW written \in BOOLEAN
      PROVE  /\ part(written) \in DnsMachines /\ part(written).profile = sys.profile
             /\ part(written).routed = sys.routed /\ part(written).serving = sys.serving
  <2>1. (sys.dropin \/ written) \in BOOLEAN
    OBVIOUS
  <2> DEFINE b == sys.dropin \/ written
  <2> HIDE DEF b
  <2>2. b \in BOOLEAN
    BY <2>1 DEF b
  <2>3. /\ [sys EXCEPT !.dropin = b] \in DnsMachines
        /\ [sys EXCEPT !.dropin = b].profile = sys.profile
        /\ [sys EXCEPT !.dropin = b].routed = sys.routed
        /\ [sys EXCEPT !.dropin = b].serving = sys.serving
    BY <1>1, <2>2 DEF DnsMachines
  <2> QED
    BY <2>3 DEF b
<1> HIDE DEF m, part, r, c, f
<1>7. run.pc = "dropin"
  BY <1>3 DEF Dns!Do, Dns!FaultLeaving
<1>8. CASE sys.dropin /\ Dns!Do("dropin", sys, r)
  <2>1. DnsPlaceAt(sys, r)
    BY <1>4, <1>7, DnsPlaceNames DEF DnsLike, DnsInv, DnsPlaceAt
  <2>2. DnsCalm => DnsCurrentAt(sys, r) /\ DnsWholeAt(sys, r)
    BY <1>4, <1>7, DnsPlaceNames DEF DnsLike, DnsInv, DnsCurrentAt, DnsWholeAt
  <2>3. DnsOnce => DnsCutoverAt(sys, r)
    BY <1>4, <1>7, <1>8, DnsPlaceNames DEF DnsLike, DnsInv, DnsCutoverAt
  <2> QED
    BY <1>1, <1>4, <1>8, <2>1, <2>2, <2>3, DnsDoes, DnsPlaceNames DEF DnsLike
<1>9. CASE Dns!Do("dropin", m, c)
  <2>1. DnsPlaceAt(m, c)
    BY <1>4, <1>5, <1>7, DnsPlaceNames DEF DnsInv, DnsPlaceAt
  <2>2. DnsCalm => DnsCurrentAt(m, c)
    BY <1>4, <1>5, <1>7, DnsPlaceNames DEF DnsInv, DnsCurrentAt
  <2>3. DnsCalm => DnsWholeAt(m, c)
    BY <1>4, <1>5, <1>7, DnsPlaceNames
       DEF DnsInv, DnsPlaceAt, DnsWholeAt, DnsServed, DnsSound
  <2>4. DnsOnce => DnsCutoverAt(m, c)
    BY <1>2, <1>4, <1>5, <1>7, DnsPlaceNames DEF DnsInv, DnsPlaceAt, DnsCutoverAt
  <2> QED
    BY <1>4, <1>5, <1>9, <2>1, <2>2, <2>3, <2>4, DnsDoes, DnsPlaceNames
<1>10. ASSUME NEW written \in BOOLEAN, Dns!FaultLeaving("dropin", part(written), f)
       PROVE  DnsInv'
  <2> DEFINE w == part(written)
  <2>1. /\ Dns!FaultLeaving("dropin", w, f) /\ w \in DnsMachines
        /\ w.profile = sys.profile /\ w.routed = sys.routed /\ w.serving = sys.serving
    BY <1>6, <1>10
  <2> HIDE DEF w
  <2>2. DnsPlaceAt(w, f)
    BY <1>4, DnsPlaceNames DEF DnsLike, DnsPlaceAt
  <2>3. DnsCalm => DnsCutoverAt(w, f)
    BY <1>4, <1>7, <2>1, DnsPlaceNames
       DEF DnsLike, DnsInv, DnsPlaceAt, DnsWholeAt, DnsCutoverAt, DnsServed
  <2> QED
    BY <1>4, <2>1, <2>2, <2>3, DnsDoes, DnsPlaceNames DEF DnsLike
<1> QED
  BY <1>3, <1>8, <1>9, <1>10

\* systemd-resolved reads the drop-in that is there
LEMMA DnsRoutes ==
  ASSUME sys \in DnsMachines, NEW m, m = [sys EXCEPT !.routed = sys.dropin]
  PROVE  /\ m \in DnsMachines /\ m.unit = sys.unit /\ m.binary = sys.binary
         /\ m.serving = sys.serving /\ m.enabled = sys.enabled /\ m.profile = sys.profile
         /\ m.dropin = sys.dropin /\ m.routed = sys.dropin /\ m.loaded = sys.loaded
  BY DEF DnsMachines

LEMMA DnsRestartResolvedKeeps == DnsInv /\ Dns!RestartResolved => DnsInv'
<1> SUFFICES ASSUME DnsInv, Dns!RestartResolved PROVE DnsInv'
  OBVIOUS
<1> DEFINE m == [sys EXCEPT !.routed = sys.dropin]
           r == Dns!Goto(run, "links")
           u == Dns!Goto(run, "unlink")
<1>1. sys \in DnsMachines /\ run \in DnsRuns
  BY DEF DnsInv, DnsTypes
<1>2. DnsLike(r, "links") /\ DnsLike(u, "unlink")
  BY <1>1, DnsValues, DnsPlaceNames
<1>3. Dns!Do("resolved", m, r) \/ Dns!Fault("resolved", u)
  BY DEF Dns!RestartResolved
<1>4. /\ m \in DnsMachines /\ m.unit = sys.unit /\ m.binary = sys.binary
      /\ m.serving = sys.serving /\ m.enabled = sys.enabled /\ m.profile = sys.profile
      /\ m.dropin = sys.dropin /\ m.loaded = sys.loaded
  BY <1>1, DnsRoutes
<1> HIDE DEF m, r, u
<1>5. run.pc = "resolved"
  BY <1>3 DEF Dns!Do, Dns!Fault, Dns!FaultLeaving
<1>6. CASE Dns!Do("resolved", m, r)
  <2>1. DnsPlaceAt(m, r)
    BY <1>2, <1>4, <1>5, DnsPlaceNames DEF DnsLike, DnsInv, DnsPlaceAt
  <2>2. DnsCalm => DnsCurrentAt(m, r)
    BY <1>2, <1>4, <1>5, DnsPlaceNames DEF DnsLike, DnsInv, DnsCurrentAt
  <2>3. m.serving # "down" /\ m.profile # "none"
    BY <1>4, <1>5, DnsPlaceNames DEF DnsInv, DnsPlaceAt
  <2>4. DnsCalm => DnsWholeAt(m, r)
    BY <1>2, <1>4, <2>3, DnsPlaceNames DEF DnsLike, DnsInv, DnsWholeAt, DnsServed, DnsSound
  <2>5. DnsOnce => DnsCutoverAt(m, r)
    BY <1>2, <1>5, <2>3, DnsPlaceNames DEF DnsLike, DnsInv, DnsCutoverAt
  <2> QED
    BY <1>2, <1>4, <1>6, <2>1, <2>2, <2>4, <2>5, DnsDoes, DnsPlaceNames DEF DnsLike
<1>7. CASE Dns!Fault("resolved", u)
  BY <1>2, <1>5, <1>7, DnsReverts, DnsPlaceNames
<1> QED
  BY <1>3, <1>6, <1>7

\* one connection after the other; only the list of those changed is remembered
LEMMA DnsIgnoreAutoDnsKeeps == DnsInv /\ Dns!IgnoreAutoDns => DnsInv'
<1> SUFFICES ASSUME DnsInv, Dns!IgnoreAutoDns PROVE DnsInv'
  OBVIOUS
<1> DEFINE without(link) == [sys EXCEPT !.auto = sys.auto \ {link},
      !.live = sys.live \ {link}]
           kept(link) == [sys EXCEPT !.auto = sys.auto \ {link}]
           with(link) == Dns!Mem(run, "ignored", run.mem.ignored \cup {link})
           none == Dns!Mem(run, "ignored", {})
           r == Dns!Goto(run, "verify")
           u == Dns!Goto(none, "unlink")
<1>1. sys \in DnsMachines /\ run \in DnsRuns /\ run.mem.ignored \subseteq Links
  BY DEF DnsInv, DnsTypes, DnsRuns, DnsMems
<1>2. DnsNotes(none, run) /\ none.mem.earlier = run.mem.earlier /\ none.mem.cut = run.mem.cut
  BY <1>1, DnsRemembersLinks
<1>3. ASSUME NEW link \in sys.auto
      PROVE  /\ without(link) \in DnsMachines /\ without(link).unit = sys.unit
             /\ without(link).binary = sys.binary /\ without(link).serving = sys.serving
             /\ without(link).enabled = sys.enabled /\ without(link).profile = sys.profile
             /\ without(link).dropin = sys.dropin /\ without(link).routed = sys.routed
             /\ without(link).loaded = sys.loaded
             /\ kept(link) \in DnsMachines /\ kept(link).profile = sys.profile
  BY <1>1 DEF DnsMachines
<1>4. ASSUME NEW link \in sys.auto
      PROVE  /\ DnsNotes(with(link), run) /\ with(link).mem.earlier = run.mem.earlier
             /\ with(link).mem.cut = run.mem.cut
  <2>1. run.mem.ignored \cup {link} \in SUBSET Links
    BY <1>1 DEF DnsMachines
  <2> QED
    BY <1>1, <2>1, DnsRemembersLinks
<1>5. \/ \E link \in sys.auto : Dns!Do("links", without(link), with(link))
      \/ Dns!Do("links", sys, r)
      \/ Dns!Fault("links", u)
      \/ \E link \in sys.auto : Dns!FaultLeaving("links", kept(link), u)
  BY DEF Dns!IgnoreAutoDns
<1> HIDE DEF none
<1>6. /\ DnsLike(r, "verify") /\ u \in DnsRuns /\ u.pc = "unlink" /\ u.mem = none.mem
  BY <1>1, <1>2, DnsGoes, DnsValues, DnsPlaceNames DEF DnsNotes
<1> HIDE DEF without, kept, with, r, u
<1>7. run.pc = "links"
  BY <1>5 DEF Dns!Do, Dns!Fault, Dns!FaultLeaving
<1>8. ASSUME NEW link \in sys.auto, Dns!Do("links", without(link), with(link))
      PROVE  DnsInv'
  <2> DEFINE m == without(link)
             c == with(link)
  <2>1. /\ m \in DnsMachines /\ m.unit = sys.unit
        /\ m.binary = sys.binary /\ m.serving = sys.serving
        /\ m.enabled = sys.enabled /\ m.profile = sys.profile
        /\ m.dropin = sys.dropin /\ m.routed = sys.routed /\ m.loaded = sys.loaded
    BY <1>3
  <2>2. /\ c \in DnsRuns /\ c.pc = "links" /\ c.changed = run.changed
        /\ c.mem.earlier = run.mem.earlier /\ c.mem.cut = run.mem.cut
    BY <1>4, <1>7 DEF DnsNotes
  <2>3. Dns!Do("links", m, c)
    BY <1>8
  <2> HIDE DEF m, c
  <2>4. DnsPlaceAt(m, c)
    BY <1>7, <2>1, <2>2, DnsPlaceNames DEF DnsInv, DnsPlaceAt
  <2>5. DnsCalm => DnsCurrentAt(m, c)
    BY <1>7, <2>1, <2>2, DnsPlaceNames DEF DnsInv, DnsCurrentAt
  <2>6. DnsCalm => DnsWholeAt(m, c)
    BY <2>1, <2>2, DnsPlaceNames DEF DnsInv, DnsWholeAt, DnsServed, DnsSound
  <2>7. DnsOnce => DnsCutoverAt(m, c)
    BY <1>7, <2>1, <2>2, DnsPlaceNames DEF DnsInv, DnsCutoverAt, DnsServed, DnsSound
  <2> QED
    BY <2>1, <2>2, <2>3, <2>4, <2>5, <2>6, <2>7, DnsDoes, DnsPlaceNames
<1>9. CASE Dns!Do("links", sys, r)
  <2>1. DnsPlaceAt(sys, r)
    BY <1>6, <1>7, DnsPlaceNames DEF DnsLike, DnsInv, DnsPlaceAt
  <2>2. DnsCalm => DnsCurrentAt(sys, r) /\ DnsWholeAt(sys, r)
    BY <1>6, <1>7, DnsPlaceNames DEF DnsLike, DnsInv, DnsCurrentAt, DnsWholeAt
  <2>3. DnsOnce => DnsCutoverAt(sys, r)
    BY <1>6, <1>7, DnsPlaceNames DEF DnsLike, DnsInv, DnsCutoverAt
  <2> QED
    BY <1>1, <1>6, <1>9, <2>1, <2>2, <2>3, DnsDoes, DnsPlaceNames DEF DnsLike
<1>10. ASSUME NEW m \in DnsMachines, Dns!FaultLeaving("links", m, u),
              m.profile = sys.profile
       PROVE  DnsInv'
  <2>1. DnsPlaceAt(m, u)
    BY <1>6, <1>7, <1>10, DnsPlaceNames DEF DnsInv, DnsPlaceAt
  <2>2. sys.profile # "none"
    BY <1>7, DnsPlaceNames DEF DnsInv, DnsPlaceAt
  <2>3. DnsCalm => (run.mem.earlier \/ run.mem.cut)
    BY <1>7, DnsBounds DEF DnsInv, DnsCutoverAt
  <2>4. DnsCalm => DnsCutoverAt(m, u)
    BY <1>2, <1>6, <1>10, <2>2, <2>3, DnsPlaceNames DEF DnsCutoverAt
  <2> QED
    BY <1>6, <1>10, <2>1, <2>4, DnsDoes, DnsPlaceNames
<1>11. Dns!Fault("links", u) => Dns!FaultLeaving("links", sys, u)
  BY DEF Dns!Fault
<1> QED
  BY <1>1, <1>3, <1>5, <1>8, <1>9, <1>10, <1>11

LEMMA DnsVerifySystemKeeps == DnsInv /\ Dns!VerifySystem => DnsInv'
<1> SUFFICES ASSUME DnsInv, Dns!VerifySystem PROVE DnsInv'
  OBVIOUS
<1> DEFINE r == Dns!Goto(run, "end")
           f == Dns!Failed
           w == Dns!Goto(Dns!Warned(Dns!Changed(run)), "end")
           u == Dns!Goto(run, "unlink")
<1>1. sys \in DnsMachines /\ run \in DnsRuns
  BY DEF DnsInv, DnsTypes
<1>2. /\ DnsLike(r, "end") /\ DnsLike(f, "end") /\ DnsLike(w, "end") /\ DnsLike(u, "unlink")
      /\ f.warn /\ w.warn
  BY <1>1, DnsValues, DnsFailed, DnsPlaceNames
<1>3. \/ sys.routed /\ (Dns!Do("verify", sys, f) \/ Dns!Do("verify", sys, r))
      \/ ~(sys.routed /\ sys.serving # "down") /\ Dns!Do("verify", sys, w)
      \/ Dns!Fault("verify", w)
      \/ Dns!Fault("verify", u)
  BY DEF Dns!VerifySystem, Dns!Running
<1> HIDE DEF r, f, w, u
<1>4. run.pc = "verify"
  BY <1>3 DEF Dns!Do, Dns!Fault, Dns!FaultLeaving
<1>5. ASSUME NEW q \in {r, f, w}, Dns!Do("verify", sys, q)
      PROVE  DnsInv'
  <2>1. DnsLike(q, "end")
    BY <1>2, <1>5
  <2>2. DnsPlaceAt(sys, q)
    BY <2>1, DnsPlaceNames DEF DnsLike, DnsPlaceAt
  <2>3. /\ sys.serving # "down" /\ sys.unit.profile = sys.profile /\ sys.binary = "new"
        /\ sys.profile # "none"
    BY <1>4, DnsPlaceNames DEF DnsInv, DnsPlaceAt
  <2>4. DnsCalm => sys.serving = "current" /\ sys.loaded
    BY <1>1, <1>4, <2>3 DEF DnsInv, DnsCurrentAt, DnsMachines
  <2>5. DnsCalm => DnsCurrentAt(sys, q)
    BY <2>1, <2>3, <2>4, DnsPlaceNames DEF DnsLike, DnsCurrentAt
  <2>6. DnsCalm => DnsWholeAt(sys, q)
    BY <2>1, DnsPlaceNames DEF DnsLike, DnsInv, DnsWholeAt
  <2>7. DnsOnce => DnsCutoverAt(sys, q)
    BY <2>1, <2>3, DnsPlaceNames DEF DnsLike, DnsCutoverAt, DnsServed
  <2> QED
    BY <1>1, <1>5, <2>1, <2>2, <2>5, <2>6, <2>7, DnsDoes, DnsPlaceNames DEF DnsLike
<1>6. CASE Dns!Fault("verify", w)
  BY <1>2, <1>6, DnsStops, DnsPlaceNames
<1>7. CASE Dns!Fault("verify", u)
  BY <1>2, <1>4, <1>7, DnsReverts, DnsPlaceNames
<1> QED
  BY <1>3, <1>5, <1>6, <1>7
-----------------------------------------------------------------------------
(* The revert, which a run reaches only with a call that failed.             *)

LEMMA DnsRevertsOnce == DnsInv /\ run.pc \in DnsReverting => ~DnsCalm
  BY DEF DnsInv, DnsWholeAt

LEMMA DnsRemoveDropinKeeps == DnsInv /\ Dns!RemoveDropin => DnsInv'
<1> SUFFICES ASSUME DnsInv, Dns!RemoveDropin PROVE DnsInv'
  OBVIOUS
<1> DEFINE gone == [sys EXCEPT !.dropin = FALSE]
           m == IF run.mem.cut THEN gone ELSE sys
           r == Dns!Goto(run, "restore")
<1>1. sys \in DnsMachines /\ run \in DnsRuns
  BY DEF DnsInv, DnsTypes
<1>2. DnsLike(r, "restore")
  BY <1>1, DnsValues, DnsPlaceNames
<1>3. gone \in DnsMachines /\ gone.profile = sys.profile /\ ~gone.dropin
  BY <1>1 DEF DnsMachines
<1>4. Dns!Do("unlink", m, r) \/ Dns!Fault("unlink", r)
  BY DEF Dns!RemoveDropin
<1> HIDE DEF gone, r
<1>5. m \in DnsMachines /\ m.profile = sys.profile /\ (run.mem.cut => ~m.dropin)
  BY <1>1, <1>3
<1> HIDE DEF m
<1>6. run.pc = "unlink"
  BY <1>4 DEF Dns!Do, Dns!Fault, Dns!FaultLeaving
<1>7. ~DnsCalm /\ sys.profile # "none"
  BY <1>6, DnsRevertsOnce, DnsPlaceNames DEF DnsInv, DnsPlaceAt
<1>8. CASE Dns!Do("unlink", m, r)
  <2>1. DnsPlaceAt(m, r)
    BY <1>2, <1>5, <1>7, DnsPlaceNames DEF DnsLike, DnsPlaceAt
  <2>2. DnsOnce => DnsCutoverAt(m, r)
    BY <1>2, <1>5, <1>6, <1>7, DnsPlaceNames DEF DnsLike, DnsInv, DnsCutoverAt
  <2> QED
    BY <1>2, <1>5, <1>7, <1>8, <2>1, <2>2, DnsDoes, DnsPlaceNames DEF DnsLike
<1>9. CASE Dns!Fault("unlink", r)
  <2>1. DnsPlaceAt(sys, r)
    BY <1>2, <1>7, DnsPlaceNames DEF DnsLike, DnsPlaceAt
  <2> QED
    BY <1>1, <1>2, <1>7, <1>9, <2>1, DnsDoes, DnsPlaceNames DEF DnsLike, Dns!Fault
<1> QED
  BY <1>4, <1>8, <1>9

LEMMA DnsRestoreAutoDnsKeeps == DnsInv /\ Dns!RestoreAutoDns => DnsInv'
<1> SUFFICES ASSUME DnsInv, Dns!RestoreAutoDns PROVE DnsInv'
  OBVIOUS
<1> DEFINE m == [sys EXCEPT !.auto = sys.auto \cup run.mem.ignored,
                            !.live = sys.live \cup run.mem.ignored]
           r == Dns!Goto(run, "back")
<1>1. sys \in DnsMachines /\ run \in DnsRuns /\ run.mem.ignored \subseteq Links
  BY DEF DnsInv, DnsTypes, DnsRuns, DnsMems
<1>2. DnsLike(r, "back")
  BY <1>1, DnsValues, DnsPlaceNames
<1>3. m \in DnsMachines /\ m.profile = sys.profile /\ m.dropin = sys.dropin
  BY <1>1 DEF DnsMachines
<1>4. Dns!Do("restore", m, r) \/ Dns!Fault("restore", r)
  BY DEF Dns!RestoreAutoDns
<1> HIDE DEF m, r
<1>5. run.pc = "restore"
  BY <1>4 DEF Dns!Do, Dns!Fault, Dns!FaultLeaving
<1>6. ~DnsCalm /\ sys.profile # "none"
  BY <1>5, DnsRevertsOnce, DnsPlaceNames DEF DnsInv, DnsPlaceAt
<1>7. DnsPlaceAt(m, r) /\ DnsPlaceAt(sys, r)
  BY <1>2, <1>3, <1>6, DnsPlaceNames DEF DnsLike, DnsPlaceAt
<1>8. CASE Dns!Do("restore", m, r)
  <2>1. DnsOnce => DnsCutoverAt(m, r)
    BY <1>2, <1>3, <1>5, <1>6, DnsPlaceNames DEF DnsLike, DnsInv, DnsCutoverAt
  <2> QED
    BY <1>2, <1>3, <1>6, <1>7, <1>8, <2>1, DnsDoes, DnsPlaceNames DEF DnsLike
<1>9. CASE Dns!Fault("restore", r)
  BY <1>1, <1>2, <1>6, <1>7, <1>9, DnsDoes, DnsPlaceNames DEF DnsLike, Dns!Fault
<1> QED
  BY <1>4, <1>8, <1>9

LEMMA DnsRestartBackKeeps == DnsInv /\ Dns!RestartBack => DnsInv'
<1> SUFFICES ASSUME DnsInv, Dns!RestartBack PROVE DnsInv'
  OBVIOUS
<1> DEFINE m == [sys EXCEPT !.routed = sys.dropin]
           r == Dns!Goto(run, "stop")
<1>1. sys \in DnsMachines /\ run \in DnsRuns
  BY DEF DnsInv, DnsTypes
<1>2. DnsLike(r, "stop")
  BY <1>1, DnsValues, DnsPlaceNames
<1>3. m \in DnsMachines /\ m.profile = sys.profile /\ m.routed = sys.dropin
  BY <1>1, DnsRoutes
<1>4. Dns!Do("back", m, r) \/ Dns!Fault("back", r)
  BY DEF Dns!RestartBack
<1> HIDE DEF m, r
<1>5. run.pc = "back"
  BY <1>4 DEF Dns!Do, Dns!Fault, Dns!FaultLeaving
<1>6. ~DnsCalm /\ sys.profile # "none"
  BY <1>5, DnsRevertsOnce, DnsPlaceNames DEF DnsInv, DnsPlaceAt
<1>7. DnsPlaceAt(m, r) /\ DnsPlaceAt(sys, r)
  BY <1>2, <1>3, <1>6, DnsPlaceNames DEF DnsLike, DnsPlaceAt
<1>8. CASE Dns!Do("back", m, r)
  <2>1. DnsOnce => DnsCutoverAt(m, r)
    BY <1>2, <1>3, <1>5, <1>6, DnsPlaceNames DEF DnsLike, DnsInv, DnsCutoverAt
  <2> QED
    BY <1>2, <1>3, <1>6, <1>7, <1>8, <2>1, DnsDoes, DnsPlaceNames DEF DnsLike
<1>9. CASE Dns!Fault("back", r)
  BY <1>1, <1>2, <1>6, <1>7, <1>9, DnsDoes, DnsPlaceNames DEF DnsLike, Dns!Fault
<1> QED
  BY <1>4, <1>8, <1>9

LEMMA DnsStopServiceKeeps == DnsInv /\ Dns!StopService => DnsInv'
<1> SUFFICES ASSUME DnsInv, Dns!StopService PROVE DnsInv'
  OBVIOUS
<1> DEFINE m == [sys EXCEPT !.serving = "down"]
           f == Dns!Failed
<1>1. sys \in DnsMachines /\ run \in DnsRuns
  BY DEF DnsInv, DnsTypes
<1>2. DnsLike(f, "end")
  BY <1>1, DnsFailed
<1>3. m \in DnsMachines /\ m.profile = sys.profile /\ m.routed = sys.routed
  BY <1>1 DEF DnsMachines
<1>4. Dns!Do("stop", m, f) \/ Dns!Fault("stop", f)
  BY DEF Dns!StopService
<1> HIDE DEF m, f
<1>5. CASE Dns!Do("stop", m, f)
  <2>1. run.pc = "stop"
    BY <1>5 DEF Dns!Do
  <2>2. ~DnsCalm /\ sys.profile # "none"
    BY <2>1, DnsRevertsOnce, DnsPlaceNames DEF DnsInv, DnsPlaceAt
  <2>3. DnsPlaceAt(m, f)
    BY <1>2, DnsPlaceNames DEF DnsLike, DnsPlaceAt
  <2>4. DnsOnce => DnsCutoverAt(m, f)
    BY <1>2, <1>3, <2>1, <2>2, DnsPlaceNames DEF DnsLike, DnsInv, DnsCutoverAt, DnsServed
  <2> QED
    BY <1>2, <1>3, <1>5, <2>2, <2>3, <2>4, DnsDoes, DnsPlaceNames DEF DnsLike
<1>6. CASE Dns!Fault("stop", f)
  BY <1>2, <1>6, DnsStops, DnsPlaceNames
<1> QED
  BY <1>4, <1>5, <1>6
-----------------------------------------------------------------------------
LEMMA DnsStartTaskKeeps == DnsInv /\ Dns!StartTask => DnsInv'
<1> SUFFICES ASSUME DnsInv, NEW force \in BOOLEAN, Dns!Begin("select", force, Dns!Fresh)
             PROVE  DnsInv'
  BY DEF Dns!StartTask
<1>1. Dns!Fresh \in DnsMems /\ ~Dns!Fresh.active /\ ~Dns!Fresh.earlier
  BY DEF Dns!Fresh, DnsMems
<1> HIDE DEF Dns!Fresh
<1>2. (run.pc = "end" /\ ~run.warn /\ ~run.force) \in BOOLEAN
  OBVIOUS
<1>3. run' \in DnsRuns /\ run'.pc = "select" /\ run'.mem = Dns!Fresh
  BY <1>1, <1>2, DnsPlaceNames DEF Dns!Begin, DnsRuns
<1>4. sys' = sys /\ left' \in DnsLefts /\ (DnsCalm' => DnsCalm) /\ (DnsOnce' => DnsOnce)
  BY DnsOthersSpend DEF Dns!Begin, DnsInv, DnsTypes
<1>5. run.pc \in {"idle", "end"}
  BY DEF Dns!Begin, Dns!AtRest
<1>6. DnsTypes' /\ DnsPlaceAt(sys', run')
  BY <1>1, <1>3, <1>4, DnsPlaceNames DEF DnsInv, DnsTypes, DnsPlaceAt
<1>7. DnsCalm' => DnsCurrentAt(sys', run') /\ DnsWholeAt(sys', run')
  BY <1>3, <1>4, <1>5, DnsPlaceNames DEF DnsInv, DnsCurrentAt, DnsWholeAt
<1>8. DnsOnce' => DnsCutoverAt(sys', run')
  BY <1>3, <1>4, DnsPlaceNames DEF DnsInv, DnsCutoverAt
<1> QED
  BY <1>6, <1>7, <1>8 DEF DnsInv

LEMMA DnsRests ==
  run \in DnsRuns => /\ Dns!NoRun(run.mem) \in DnsRuns /\ Dns!NoRun(run.mem).pc = "idle"
                     /\ Dns!NoRun(run.mem).mem = run.mem
  BY DnsPlaceNames DEF Dns!NoRun, DnsRuns

LEMMA DnsKillKeeps == DnsInv /\ Dns!Kill => DnsInv'
<1> SUFFICES ASSUME DnsInv, Dns!Kill PROVE DnsInv'
  OBVIOUS
<1>1. /\ sys' = sys /\ run' = Dns!NoRun(run.mem) /\ left' \in DnsLefts
      /\ ~DnsCalm' /\ ~DnsOnce'
  BY DnsOthersSpend DEF Dns!Kill, DnsInv, DnsTypes
<1>2. run' \in DnsRuns /\ run'.pc = "idle"
  BY <1>1, DnsRests DEF DnsInv, DnsTypes
<1>3. DnsPlaceAt(sys', run')
  BY <1>2, DnsPlaceNames DEF DnsPlaceAt
<1> QED
  BY <1>1, <1>2, <1>3 DEF DnsInv, DnsTypes

\* what happens to the machine between two runs
LEMMA DnsEvents ==
  ASSUME DnsInv, NEW m \in DnsMachines, Dns!Event(m),
         sys.loaded => m.loaded, m.serving = "stale" => sys.serving = "stale",
         m.profile = sys.profile,
         DnsServed(sys) /\ DnsSound(sys) => DnsServed(m) /\ DnsSound(m)
  PROVE  DnsInv'
<1>1. /\ sys' = m /\ run' = Dns!NoRun(run.mem) /\ left' \in DnsLefts
      /\ (DnsCalm' => DnsCalm) /\ (DnsOnce' => DnsOnce)
  BY DnsOthersSpend DEF Dns!Event, DnsInv, DnsTypes
<1>2. run' \in DnsRuns /\ run'.pc = "idle" /\ run'.mem = run.mem
  BY <1>1, DnsRests DEF DnsInv, DnsTypes
<1>3. run.pc \in {"idle", "end"}
  BY DEF Dns!Event, Dns!AtRest
<1>4. DnsPlaceAt(m, run')
  BY <1>2, DnsPlaceNames DEF DnsPlaceAt
<1>5. DnsCalm' => DnsCurrentAt(m, run') /\ DnsWholeAt(m, run')
  BY <1>1, <1>2, <1>3, DnsPlaceNames DEF DnsInv, DnsCurrentAt, DnsWholeAt
<1>6. DnsOnce' => DnsCutoverAt(m, run')
  BY <1>1, <1>2, DnsPlaceNames DEF DnsInv, DnsCutoverAt
<1> QED
  BY <1>1, <1>2, <1>4, <1>5, <1>6 DEF DnsInv, DnsTypes

LEMMA DnsEventsKeep ==
  DnsInv /\ (Dns!Reboot \/ Dns!Release \/ Dns!Rename) => DnsInv'
<1> SUFFICES ASSUME DnsInv, Dns!Reboot \/ Dns!Release \/ Dns!Rename PROVE DnsInv'
  OBVIOUS
<1> DEFINE up == IF sys.enabled /\ sys.unit # Dns!NoUnit /\ sys.binary # "none"
                 THEN "current" ELSE "down"
           booted == [sys EXCEPT !.loaded = TRUE, !.routed = sys.dropin, !.live = sys.auto,
                                 !.serving = up]
           released == [sys EXCEPT !.binary = "old"]
           renamed(host) == [sys EXCEPT !.host = host]
<1>1. sys \in DnsMachines
  BY DEF DnsInv, DnsTypes
<1>2. /\ up \in {"current", "down"}
      /\ sys.enabled /\ sys.unit.profile # "none" /\ sys.binary # "none" => up = "current"
  BY DEF Dns!NoUnit
<1>3. \/ Dns!Event(booted)
      \/ sys.binary = "new" /\ Dns!Event(released)
      \/ \E host \in Profiles : Dns!Event(renamed(host))
  BY DEF Dns!Reboot, Dns!Release, Dns!Rename
<1> HIDE DEF up
<1>4. /\ booted \in DnsMachines /\ booted.loaded /\ booted.serving = up
      /\ booted.profile = sys.profile /\ booted.routed = sys.dropin
      /\ booted.dropin = sys.dropin /\ booted.enabled = sys.enabled
      /\ booted.unit = sys.unit /\ booted.binary = sys.binary
  BY <1>1, <1>2 DEF DnsMachines
<1>5. /\ released \in DnsMachines /\ released.loaded = sys.loaded
      /\ released.serving = sys.serving /\ released.profile = sys.profile
      /\ released.routed = sys.routed /\ released.dropin = sys.dropin
      /\ released.enabled = sys.enabled /\ released.unit = sys.unit
      /\ released.binary = "old"
  BY <1>1 DEF DnsMachines
<1>6. ASSUME NEW host \in Profiles
      PROVE  /\ renamed(host) \in DnsMachines /\ renamed(host).loaded = sys.loaded
             /\ renamed(host).serving = sys.serving /\ renamed(host).profile = sys.profile
             /\ renamed(host).routed = sys.routed /\ renamed(host).dropin = sys.dropin
             /\ renamed(host).enabled = sys.enabled /\ renamed(host).unit = sys.unit
             /\ renamed(host).binary = sys.binary
  BY <1>1 DEF DnsMachines
<1> HIDE DEF booted, released, renamed
<1>7. CASE Dns!Event(booted)
  <2>1. DnsServed(sys) /\ DnsSound(sys) => DnsServed(booted) /\ DnsSound(booted)
    BY <1>2, <1>4 DEF DnsServed, DnsSound
  <2> QED
    BY <1>2, <1>4, <1>7, <2>1, DnsEvents
<1>8. CASE Dns!Event(released)
  <2>1. DnsServed(sys) /\ DnsSound(sys) => DnsServed(released) /\ DnsSound(released)
    BY <1>5 DEF DnsServed, DnsSound
  <2> QED
    BY <1>5, <1>8, <2>1, DnsEvents
<1>9. ASSUME NEW host \in Profiles, Dns!Event(renamed(host)) PROVE DnsInv'
  <2> DEFINE m == renamed(host)
  <2>1. /\ m \in DnsMachines /\ m.loaded = sys.loaded /\ m.serving = sys.serving
        /\ m.profile = sys.profile /\ m.routed = sys.routed /\ m.dropin = sys.dropin
        /\ m.enabled = sys.enabled /\ m.unit = sys.unit /\ m.binary = sys.binary
        /\ Dns!Event(m)
    BY <1>6, <1>9
  <2> HIDE DEF m
  <2>2. DnsServed(sys) /\ DnsSound(sys) => DnsServed(m) /\ DnsSound(m)
    BY <2>1 DEF DnsServed, DnsSound
  <2> QED
    BY <2>1, <2>2, DnsEvents
<1> QED
  BY <1>3, <1>7, <1>8, <1>9

LEMMA InitDns == Dns!Init => DnsInv
<1> SUFFICES ASSUME Dns!Init PROVE DnsInv
  OBVIOUS
<1>1. /\ sys \in DnsMachines /\ sys.loaded /\ sys.serving = "down" /\ ~sys.routed
      /\ ~sys.dropin
  BY DEF Dns!Init, Dns!NoUnit, DnsMachines, DnsNames
<1>2. run \in DnsRuns /\ run.pc = "idle"
  BY DnsPlaceNames DEF Dns!Init, Dns!NoRun, Dns!Fresh, DnsRuns, DnsMems
<1>3. left \in DnsLefts
  BY DnsBounds DEF Dns!Init, Dns!Budget, DnsLefts
<1>4. DnsPlaceAt(sys, run)
  BY <1>2, DnsPlaceNames DEF DnsPlaceAt
<1>5. DnsCurrentAt(sys, run)
  BY <1>1, <1>2 DEF DnsCurrentAt
<1>6. DnsWholeAt(sys, run) /\ DnsCutoverAt(sys, run)
  BY <1>1, <1>2, DnsPlaceNames DEF DnsWholeAt, DnsCutoverAt, DnsServed, DnsSound
<1> QED
  BY <1>1, <1>2, <1>3, <1>4, <1>5, <1>6 DEF DnsInv, DnsTypes

LEMMA NextDns == DnsInv /\ [Dns!Next]_vars => DnsInv'
<1> SUFFICES ASSUME DnsInv, [Dns!Next]_vars PROVE DnsInv'
  OBVIOUS
<1>1. ASSUME UNCHANGED vars PROVE DnsInv'
  BY <1>1 DEF vars, DnsInv, DnsTypes, DnsCalm, DnsOnce, DnsUncut
<1>2. ASSUME Dns!Step PROVE DnsInv'
  BY <1>2, DnsSelectProfileKeeps, DnsAskReleaseKeeps, DnsReplaceBinaryKeeps,
     DnsWriteUnitKeeps, DnsReloadUnitKeeps, DnsFreeListenPortKeeps, DnsEnableServiceKeeps,
     DnsStartServiceKeeps, DnsProbeServiceKeeps, DnsWriteDropinKeeps,
     DnsRestartResolvedKeeps, DnsIgnoreAutoDnsKeeps, DnsVerifySystemKeeps,
     DnsRemoveDropinKeeps, DnsRestoreAutoDnsKeeps, DnsRestartBackKeeps, DnsStopServiceKeeps
     DEF Dns!Step
<1> QED
  BY <1>1, <1>2, DnsStartTaskKeeps, DnsKillKeeps, DnsEventsKeep DEF Dns!Next

DnsHolds == section = "dns" => DnsInv

LEMMA DnsPromises == DnsInv => Dns!DnsIsCurrent /\ Dns!FirstCutoverAnswers
<1> SUFFICES ASSUME DnsInv PROVE Dns!DnsIsCurrent /\ Dns!FirstCutoverAnswers
  OBVIOUS
<1>1. Dns!DnsIsCurrent
  BY DEF DnsInv, DnsCalm, DnsUncut, DnsCurrentAt, Dns!DnsIsCurrent, Dns!CleanRunReaches
<1>2. Dns!FirstCutoverAnswers
  BY DEF DnsInv, DnsOnce, DnsUncut, DnsCutoverAt, DnsServed, Dns!FirstCutoverAnswers,
         Dns!Answers, Dns!Running
<1> QED
  BY <1>1, <1>2
-----------------------------------------------------------------------------
(*****************************************************************************)
(* The fields of a run, and what the bounds of a section still allow: the    *)
(* invariants below say only which fields there are and how they relate.     *)
(*****************************************************************************)
\* the fields every run has, and what the bounds of a section still allow
RunFields(r) == {"pc", "force", "warn", "changed", "hurt", "settled",
  "mem"} \subseteq DOMAIN r
Allows(f, k) == /\ {"runs", "faults", "kills", "events"} \subseteq DOMAIN left
                /\ f \in Nat /\ k \in Nat /\ left.faults \in 0..f /\ left.kills \in 0..k
\* nothing has failed and nothing was cut off
Calm(f, k) == left.faults = f /\ left.kills = k

-----------------------------------------------------------------------------
(*****************************************************************************)
(* The boot service of zswap.                                                *)
(*****************************************************************************)
ZswapFields(m, r) ==
  /\ {"param", "unit", "enabled"} \subseteq DOMAIN m
  /\ RunFields(r) /\ {"todo", "wrote", "enabled"} \subseteq DOMAIN r.mem

\* Where a run would find nothing to do the unit writes what the kernel has.
ZswapWrites(m, r) ==
  /\ r.pc \in {"idle", "end", "check"} /\ m.enabled /\ m.param = Parameters => m.unit = "new"
  /\ r.pc \in {"enable", "end"} => m.unit = "new"

ZswapInv ==
  /\ ZswapFields(sys, run) /\ Allows(MaxFaults, MaxKills)
  /\ Calm(MaxFaults, MaxKills) => ZswapWrites(sys, run)

LEMMA ZswapBounds ==
  ASSUME Allows(MaxFaults, MaxKills), Zswap!Step
  PROVE  /\ Allows(MaxFaults, MaxKills)'
         /\ Calm(MaxFaults, MaxKills)'
              => Calm(MaxFaults, MaxKills) /\ \A l, m, r : ~Zswap!FaultLeaving(l, m, r)
<1>1. ASSUME NEW l, NEW m, NEW r, Zswap!Do(l, m, r)
      PROVE  left' = left
  BY <1>1 DEF Zswap!Do
<1>2. ASSUME NEW l, NEW m, NEW r, Zswap!FaultLeaving(l, m, r)
      PROVE  Allows(MaxFaults, MaxKills)' /\ ~Calm(MaxFaults, MaxKills)'
  BY <1>2 DEF Zswap!FaultLeaving, Allows, Calm
<1>3. left' = left \/ \E l, m, r : Zswap!FaultLeaving(l, m, r)
  BY <1>1 DEF Zswap!Fault, Zswap!Step, Zswap!Check, Zswap!WriteParameter, Zswap!Verify,
       Zswap!WriteUnit, Zswap!ReloadAndEnable
<1> QED
  BY <1>1, <1>2, <1>3 DEF Allows, Calm

LEMMA ZswapFieldsStep ==
  ASSUME ZswapFields(sys, run), Zswap!Step
  PROVE  ZswapFields(sys, run)'
<1> USE DEF Zswap!Do, Zswap!Fault, Zswap!FaultLeaving, Zswap!Goto, Zswap!Warned,
      Zswap!Changed, Zswap!Noted, Zswap!Recall, Zswap!Tried, Zswap!Wrote, ZswapFields,
        RunFields
<1>1. CASE Zswap!Check
  BY <1>1 DEF Zswap!Check
<1>2. CASE Zswap!WriteParameter
  BY <1>2 DEF Zswap!WriteParameter
<1>3. CASE Zswap!Verify
  BY <1>3 DEF Zswap!Verify
<1>4. CASE Zswap!WriteUnit
  BY <1>4 DEF Zswap!WriteUnit
<1>5. CASE Zswap!ReloadAndEnable
  BY <1>5 DEF Zswap!ReloadAndEnable
<1> QED
  BY <1>1, <1>2, <1>3, <1>4, <1>5 DEF Zswap!Step

LEMMA ZswapWritesStep ==
  ASSUME ZswapFields(sys, run), ZswapWrites(sys, run),
         (\A l, m, r : ~Zswap!FaultLeaving(l, m, r)), Zswap!Step
  PROVE  ZswapWrites(sys, run)'
<1> USE DEF Zswap!Do, Zswap!Fault, Zswap!Goto, Zswap!Warned, Zswap!Changed, Zswap!Noted,
      Zswap!Recall, Zswap!Tried, Zswap!Wrote, ZswapFields, RunFields, ZswapWrites
<1>1. CASE Zswap!Check
  BY <1>1 DEF Zswap!Check
<1>2. CASE Zswap!WriteParameter
  BY <1>2 DEF Zswap!WriteParameter
<1>3. CASE Zswap!Verify
  BY <1>3 DEF Zswap!Verify
<1>4. CASE Zswap!WriteUnit
  BY <1>4 DEF Zswap!WriteUnit
<1>5. CASE Zswap!ReloadAndEnable
  BY <1>5 DEF Zswap!ReloadAndEnable
<1> QED
  BY <1>1, <1>2, <1>3, <1>4, <1>5 DEF Zswap!Step

LEMMA NextZswap ==
  ASSUME ZswapInv, [Zswap!Next]_vars
  PROVE  ZswapInv'
<1>1. CASE Zswap!Step
  <2>1. ZswapFields(sys, run)' /\ Allows(MaxFaults, MaxKills)'
    BY <1>1, ZswapFieldsStep, ZswapBounds DEF ZswapInv
  <2>2. ASSUME Calm(MaxFaults, MaxKills)' PROVE ZswapWrites(sys, run)'
    BY <1>1, <2>2, ZswapBounds, ZswapWritesStep DEF ZswapInv
  <2> QED
    BY <2>1, <2>2 DEF ZswapInv
<1> USE DEF ZswapInv, ZswapFields, RunFields, Allows, Calm
<1>2. CASE Zswap!StartTask
  BY <1>2 DEF Zswap!StartTask, Zswap!Begin, Zswap!AtRest, ZswapWrites
<1>3. CASE Zswap!Kill
  BY <1>3 DEF Zswap!Kill, Zswap!NoRun
<1>4. CASE Zswap!Reboot
  BY <1>4, SomeParameters DEF Zswap!Reboot, Zswap!Event, Zswap!NoRun, ZswapWrites
<1>5. CASE Zswap!Upgrade
  BY <1>5, SomeParameters DEF Zswap!Upgrade, Zswap!Event, Zswap!NoRun, ZswapWrites
<1>6. CASE UNCHANGED vars
  BY <1>6 DEF vars, ZswapWrites
<1> QED
  BY <1>1, <1>2, <1>3, <1>4, <1>5, <1>6 DEF Zswap!Next

LEMMA InitZswap == Zswap!Init => ZswapInv
  BY BoundsAreNumbers, SomeParameters DEF Zswap!Init, ZswapInv, ZswapFields, ZswapWrites,
       RunFields, Allows, Zswap!NoRun, Zswap!Budget

LEMMA ZswapPromise == ZswapInv => Zswap!ZswapSurvivesBoot
  BY DEF ZswapInv, ZswapFields, ZswapWrites, Calm, Zswap!ZswapSurvivesBoot,
           Zswap!SurvivesBoot, Zswap!CleanRunReaches

=============================================================================

------------------------------ MODULE Packages ------------------------------
(***************************************************************************)
(* The packages of the distribution.  A section names a list; what is      *)
(* missing of it is installed one package at a time, after an operation    *)
(* that was cut off has been finished and the index was refreshed.  Three  *)
(* sections show what may follow or precede: the everyday tools with their *)
(* scheduler, ImageMagick with its policy file, and the package sources.   *)
(***************************************************************************)
EXTENDS TaskRun

CONSTANTS
  List,         \* the declared packages
  Leading,      \* the one of them that brings the service or the policy file
  Sources,      \* files that name package sources of the distribution
  Retries,      \* how often a refused package is asked for again
  MaxRoom       \* bound: packages the disk takes before its reserve is touched

\* what one run remembers: the packages it found missing and still has to
\* install, the one at work, how often it was refused, what was installed
Fresh == [missing |-> {}, todo |-> {}, at |-> {}, tries |-> 0, got |-> {}, wrote |-> FALSE]

\* a file that was cut short names no source and has no content that matches
Policies == {"none", "original", "torn", "tuned"}

Init ==
  /\ \E kind \in {"tools", "image", "sources"}, room \in 1..MaxRoom, archive \in SUBSET List :
       sys = [kind |-> kind, room |-> room,
              archive |-> archive,        \* packages the archive can give
              have |-> {},                \* installed
              half |-> {},                \* begun and never finished
              enabled |-> FALSE, active |-> FALSE,           \* the scheduler
              policy |-> "none", backup |-> "none", shipped |-> FALSE,
              file |-> [f \in Sources |-> "lacking"],
              keep |-> FALSE]             \* apt was told about its downloads
  /\ run = NoRun(Fresh)
  /\ left = Budget

Mem(r, field, value) == Recall(r, [r.mem EXCEPT ![field] = value])
Last(r)     == Goto(r, "end")
Failed(r)   == Last(Warned(r))
Follow      == IF sys.kind = "tools" THEN "enable" ELSE "policy"
-----------------------------------------------------------------------------
StartTask == \E force \in BOOLEAN :
  Begin(IF sys.kind = "sources" THEN "keep" ELSE "missing", force, Fresh)

LookAtPackages ==
  LET missing == List \ sys.have
      r == Recall(run, [Fresh EXCEPT !.missing = missing, !.todo = missing])
  IN \/ Do("missing", sys, Goto(r, IF missing = {} THEN Follow ELSE "repair"))
     \/ Fault("missing", Failed(run))

\* dpkg finishes what it had begun; every install fails until it did
RepairDatabase ==
  \/ Do("repair", [sys EXCEPT !.half = {}, !.have = @ \cup sys.half], Goto(run, "refresh"))
  \/ /\ sys.half # {}
     /\ Fault("repair", Goto(Warned(run), "refresh"))

RefreshIndex ==
  \/ Do("refresh", sys, Goto(run, "install"))
  \/ Fault("refresh", Goto(Warned(run), "install"))

Room     == sys.room > 0
Shortage == ~Room
Given(package) == package \in sys.archive /\ sys.half = {} /\ Room

(* The answer to a refusal: a full disk ends the list, anything else is    *)
(* asked for again, and the next package follows in the end.               *)
Refused(package) ==
  IF Shortage THEN Goto(Recall(Warned(run), [run.mem EXCEPT !.todo = {}, !.at = {}]), Follow)
  ELSE IF run.mem.tries < Retries
  THEN Goto(Recall(run, [run.mem EXCEPT !.tries = @ + 1, !.at = {package}]), "install")
  ELSE Goto(Recall(Warned(run), [run.mem EXCEPT !.todo = @ \ {package}, !.tries = 0,
                                                !.at = {}]), "install")

\* the package that is asked for again, else the next one of the list
Candidates == IF run.mem.at # {} THEN run.mem.at ELSE run.mem.todo

InstallPackage ==
  \/ /\ run.mem.todo = {}
     /\ Do("install", sys, Goto(run, Follow))
  \/ \E package \in Candidates :
       \/ /\ Given(package)
          /\ Do("install", [sys EXCEPT !.half = {package}], Goto(Mem(run, "at", {package}), "configure"))
       \/ /\ ~Given(package)
          /\ Do("install", sys, Refused(package))
       \/ /\ Given(package)
          /\ Fault("install", Refused(package))

\* the package of the image tools brings its policy file where there is none
Brings(package, machine) ==
  IF machine.kind = "image" /\ package = Leading /\ machine.policy = "none"
  THEN [machine EXCEPT !.policy = "original", !.shipped = TRUE] ELSE machine

ConfigurePackage == \E package \in run.mem.at :
  \/ Do("configure",
        Brings(package, [sys EXCEPT !.half = {}, !.have = @ \cup {package}, !.room = @ - 1]),
        Goto(Recall(Changed(run), [run.mem EXCEPT !.todo = @ \ {package}, !.at = {}, !.tries = 0,
                                                  !.got = @ \cup {package}]), "install"))
  \/ \E half \in {{}, {package}} :        \* it ran out of time: cut off or undone
       FaultLeaving("configure", [sys EXCEPT !.half = half], Refused(package))

\* the scheduler of deferred commands, where its package is installed
EnableScheduler ==
  \/ /\ Leading \notin sys.have
     /\ Do("enable", sys, Last(run))
  \/ /\ Leading \in sys.have
     /\ Do("enable", [sys EXCEPT !.enabled = TRUE], Goto(Noted(run, ~sys.enabled), "start"))
  \/ /\ Leading \in sys.have /\ ~sys.enabled
     /\ Fault("enable", Goto(Warned(run), "start"))

StartScheduler ==
  \/ Do("start", [sys EXCEPT !.active = TRUE], Last(Noted(run, ~sys.active)))
  \/ /\ ~sys.active
     /\ Fault("start", Failed(run))

(* The policy file: the first differing one is copied aside, once.  Both   *)
(* files are opened, which empties them, and then written.                 *)
LookAtPolicy ==
  \/ /\ sys.policy = "tuned"
     /\ Do("policy", sys, Last(run))
  \/ /\ sys.policy \in {"original", "torn"} /\ sys.backup = "none"
     /\ Do("policy", [sys EXCEPT !.backup = "torn"], Goto(run, "backup"))
  \/ /\ sys.policy # "tuned" /\ (sys.policy = "none" \/ sys.backup # "none")
     /\ Do("policy", sys, Goto(run, "open"))
  \/ Fault("policy", Failed(run))

SaveOriginal ==
  \/ Do("backup", [sys EXCEPT !.backup = sys.policy], Goto(run, "open"))
  \/ Fault("backup", Failed(run))

OpenPolicy ==
  \/ Do("open", [sys EXCEPT !.policy = "torn"], Goto(run, "write"))
  \/ Fault("open", Failed(run))

WritePolicy ==
  \/ Do("write", [sys EXCEPT !.policy = "tuned"], Last(Changed(run)))
  \/ Fault("write", Failed(run))

(* add_extra_repos: apt is told whether to keep what it downloads, and     *)
(* every source file gets the components it lacks.                         *)
KeepDownloads ==
  \/ Do("keep", [sys EXCEPT !.keep = TRUE], Goto(Noted(run, ~sys.keep), "collect"))
  \/ /\ ~sys.keep
     /\ Fault("keep", Goto(Warned(run), "collect"))

Named     == {f \in Sources : sys.file[f] # "torn"}
Satisfied == \A f \in Named : sys.file[f] = "complete"

\* a file that cannot be read is left out; no source at all is a warning
Collect(files, r) ==
  IF files = {} THEN Failed(r)
  ELSE IF \A f \in files : sys.file[f] = "complete" THEN Last(r)
  ELSE Goto(Mem(r, "todo", {f \in files : sys.file[f] = "lacking"}), "open_source")

CollectSources ==
  \/ Do("collect", sys, Collect(Named, run))
  \/ \E f \in Sources : Fault("collect", Collect(Named \ {f}, Warned(run)))

OpenSource ==
  \/ /\ run.mem.todo = {}
     /\ Do("open_source", sys, Goto(run, IF run.mem.wrote THEN "index" ELSE "verify"))
  \/ \E f \in run.mem.todo :
       \/ Do("open_source", [sys EXCEPT !.file[f] = "torn"], Goto(Mem(run, "at", {f}), "write_source"))
       \/ Fault("open_source", Mem(Warned(run), "todo", run.mem.todo \ {f}))

WriteSource == \E f \in run.mem.at :
  LET r == Goto(Mem(run, "todo", run.mem.todo \ {f}), "open_source") IN
  \/ Do("write_source", [sys EXCEPT !.file[f] = "complete"], Mem(Changed(r), "wrote", TRUE))
  \/ Fault("write_source", Warned(r))

RefreshSources ==
  \/ Do("index", sys, Goto(run, "verify"))
  \/ Fault("index", Goto(Warned(run), "verify"))

VerifySources ==
  \/ /\ Satisfied
     /\ Do("verify", sys, Last(run))
  \/ /\ ~Satisfied
     /\ Do("verify", sys, Failed(run))
  \/ Fault("verify", Failed(run))
-----------------------------------------------------------------------------
\* between two runs: the archive offers everything, the disk is cleared, a
\* package is removed, the machine boots
ArchiveGains == sys.archive # List /\ Event([sys EXCEPT !.archive = List])

SpaceFreed == sys.room < MaxRoom /\ Event([sys EXCEPT !.room = MaxRoom])

Removed == \E package \in sys.have :
  Event([sys EXCEPT !.have = @ \ {package},
                    !.active = @ /\ package # Leading, !.enabled = @ /\ package # Leading])

Reboot == Event([sys EXCEPT !.active = sys.enabled])
-----------------------------------------------------------------------------
Step ==
  \/ LookAtPackages \/ RepairDatabase \/ RefreshIndex \/ InstallPackage
  \/ ConfigurePackage \/ EnableScheduler \/ StartScheduler \/ LookAtPolicy
  \/ SaveOriginal \/ OpenPolicy \/ WritePolicy \/ KeepDownloads \/ CollectSources
  \/ OpenSource \/ WriteSource \/ RefreshSources \/ VerifySources

Next == Step \/ StartTask \/ Kill \/ ArchiveGains \/ SpaceFreed \/ Removed \/ Reboot

Spec == Init /\ [][Next]_frame /\ WF_frame(Step)
-----------------------------------------------------------------------------
Labels == {"missing", "repair", "refresh", "install", "configure", "enable", "start",
           "policy", "backup", "open", "write", "keep", "collect", "open_source",
           "write_source", "index", "verify"}

(* The values of the variables (values/common.py, package lists).          *)
PackagesType ==
  /\ RunType(Labels, [missing : SUBSET List, todo : SUBSET (List \cup Sources),
                      at : SUBSET (List \cup Sources), tries : 0..Retries, got : SUBSET List,
                      wrote : BOOLEAN])
  /\ sys \in [kind : {"tools", "image", "sources"}, room : 0..MaxRoom, archive : SUBSET List,
              have : SUBSET List, half : SUBSET List, enabled : BOOLEAN, active : BOOLEAN,
              policy : Policies, backup : Policies, shipped : BOOLEAN,
              file : [Sources -> {"lacking", "complete", "torn"}], keep : BOOLEAN]

\* what the section is there for
Target ==
  CASE sys.kind = "tools"   -> sys.have = List /\ sys.enabled /\ sys.active
    [] sys.kind = "image"   -> sys.have = List /\ sys.policy = "tuned"
    [] sys.kind = "sources" -> \A f \in Sources : sys.file[f] # "lacking"

(* A plain done result means that every package of the list is installed   *)
(* and its service runs or its policy is in place, or that no source file  *)
(* lacks a component.                                                      *)
PackagesCleanTask == CleanRunReaches(Target)

(* A run whose own calls succeed finishes an operation that was cut off    *)
(* and installs everything the archive can give while the disk has room:   *)
(* a package nobody can have never blocks the others (install_packages).   *)
OthersAreInstalled ==
  sys.kind # "sources" /\ Room => FaultFreeRunReaches(sys.archive \subseteq sys.have)

(* The report never counts a package that is not installed.                *)
ShareIsHonest ==
  sys.kind # "sources" /\ run.pc = "end" /\ run.mem.missing # {}
    => (List \ run.mem.missing) \cup run.mem.got \subseteq sys.have

(* The policy of the package is never lost: it is in place or in the copy  *)
(* (docs/spec/imagemagick-setup.md), as long as no call failed and no run  *)
(* was cut off while the copy was written.                                 *)
OriginalKept == sys.shipped => "original" \in {sys.policy, sys.backup}
OriginalKeptUndisturbed ==
  left.faults = MaxFaults /\ left.kills = MaxKills => OriginalKept

(* A source file that was opened and not written again is counted as one   *)
(* that names no source: only undisturbed runs keep every file.            *)
SourcesKept ==
  left.faults = MaxFaults /\ left.kills = MaxKills /\ AtRest
    => \A f \in Sources : sys.file[f] # "torn"

(* After a clean run the next one finds nothing to do.                     *)
PackagesRerun == RerunChangesNothing
=============================================================================

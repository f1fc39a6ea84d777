------------------------------- MODULE Browser -------------------------------
(***************************************************************************)
(* chrome_setup and firefox_setup.  Both register the package source of a  *)
(* vendor, install the browser from it and deploy a repository of settings *)
(* that is cloned once and brought up to date by every run.  Chrome is     *)
(* started from a menu entry whose flags follow what the run found: a      *)
(* local proxy that listens, and a mount of the profile on a second path.  *)
(***************************************************************************)
EXTENDS TaskRun

\* what one run remembers of the machine it asked
Fresh == [mirror |-> FALSE]

\* a deployed copy of the settings: none, the one before the last change of
\* the repository, a mixture, the current one
Copies == {"none", "old", "part", "new"}

Init ==
  /\ \E kind \in {"chrome", "firefox"}, legacy, snap, proxy, panel \in BOOLEAN :
       sys = [kind |-> kind,
              legacy |-> legacy /\ kind = "firefox",    \* an old source of the vendor
              snap |-> snap /\ kind = "firefox",        \* the snap of the browser
              key |-> "none", source |-> "none", package |-> FALSE,
              clone |-> "none", system |-> "none", profile |-> "none",
              opened |-> FALSE,                         \* the browser runs
              unit |-> FALSE, enabled |-> FALSE,
              active |-> FALSE,                         \* the unit counts as started
              mounted |-> FALSE,                        \* the mirror is there
              proxy |-> proxy,                          \* the local proxy listens
              entry |-> {"none"},                       \* the flags of the menu entry
              menu |-> FALSE,                           \* it was rebuilt since the
                                                        \* entry last changed
              panel |-> panel, pinned |-> FALSE]
  /\ run = NoRun(Fresh)
  /\ left = Budget

Chrome    == sys.kind = "chrome"
Last(r)   == Goto(r, "end")
Set(f, v) == [sys EXCEPT ![f] = v]
-----------------------------------------------------------------------------
StartTask == \E force \in BOOLEAN :
  Begin(IF Chrome THEN "key" ELSE "legacy", force, Fresh)

MoveLegacySource ==
  \/ Do("legacy", Set("legacy", FALSE), Goto(Noted(run, sys.legacy), "key"))
  \/ /\ sys.legacy
     /\ Fault("legacy", Goto(Warned(run), "key"))

(* A keyring that is not empty is taken for whole; what fails ends the     *)
(* registration, and the task goes on.                                     *)
DownloadKeyring ==
  \/ /\ sys.key # "none"
     /\ Do("key", sys, Goto(run, "source"))
  \/ /\ sys.key = "none"
     /\ Do("key", sys, Goto(run, "write_key"))
  \/ /\ sys.key = "none"
     /\ Fault("key", Goto(Warned(run), "package"))

WriteKeyring ==
  \/ Do("write_key", Set("key", "torn"), Goto(run, "finish_key"))
  \/ Fault("write_key", Goto(Warned(run), "package"))

FinishKeyring ==
  \/ Do("finish_key", Set("key", "whole"), Goto(Changed(run), "source"))
  \/ Fault("finish_key", Goto(Warned(run), "package"))

WriteSource ==
  \/ Do("source", Set("source", "whole"), Goto(Noted(run, sys.source # "whole"), "package"))
  \/ /\ sys.source # "whole"
     /\ \E text \in {sys.source, "torn"} :
          FaultLeaving("source", Set("source", text), Goto(Warned(run), "package"))

\* apt takes nothing from a source whose key or text it cannot read
Registered == sys.key = "whole" /\ sys.source = "whole"

InstallBrowser ==
  LET next == IF Chrome THEN "sync" ELSE "snap" IN
  \/ /\ sys.package /\ ~run.force
     /\ Do("package", sys, Goto(run, next))
  \/ /\ ~sys.package \/ run.force
     /\ IF Registered THEN Do("package", Set("package", TRUE), Goto(Changed(run), next))
        ELSE Do("package", sys, Goto(Warned(run), next))
  \/ /\ ~sys.package \/ run.force
     /\ Fault("package", Goto(Warned(run), next))

RemoveSnap ==
  \/ Do("snap", Set("snap", FALSE), Goto(Noted(run, sys.snap), "sync"))
  \/ /\ sys.snap
     /\ Fault("snap", Goto(Warned(run), "sync"))

(* The clone follows the published branch: a clone that fails leaves       *)
(* no files to deploy, a reset that breaks off leaves a mixture.           *)
SyncRepository ==
  \/ Do("sync", Set("clone", "new"), Goto(Noted(run, sys.clone # "new"), "tree"))
  \/ \E copy \in {sys.clone} \cup (IF sys.clone = "old" THEN {"part"} ELSE {}) :
       FaultLeaving("sync", Set("clone", copy), Goto(Warned(run), "tree"))

\* what is in the clone is deployed, whether it could be updated or not
DeploySystem ==
  LET next == IF Chrome THEN "profile" ELSE "default" IN
  \/ /\ sys.clone = "none"
     /\ Do("tree", sys, Goto(Warned(run), next))
  \/ /\ sys.clone # "none"
     /\ Do("tree", Set("system", sys.clone), Goto(Noted(run, run.force \/ sys.system # sys.clone), next))
  \/ /\ sys.clone # "none"
     /\ FaultLeaving("tree", Set("system", "part"), Goto(Warned(run), next))

(* The profile of a browser that runs is left for the next run.            *)
DeployProfile ==
  \/ /\ sys.opened \/ sys.clone = "none"
     /\ Do("profile", sys, Goto(Warned(run), "unit"))
  \/ /\ ~sys.opened /\ sys.clone # "none"
     /\ Do("profile", Set("profile", sys.clone),
           Goto(Noted(run, run.force \/ sys.profile # sys.clone), "unit"))
  \/ /\ ~sys.opened /\ sys.clone # "none"
     /\ FaultLeaving("profile", Set("profile", "part"), Goto(Warned(run), "unit"))

(* The unit of the mirror is written where it differs and started in every *)
(* run; a unit that counts as started does not mount again.                *)
WriteMountUnit ==
  \/ Do("unit", Set("unit", TRUE), Goto(run, "mount"))
  \/ Fault("unit", Goto(Warned(run), "override"))

EnableMount ==
  LET started == [sys EXCEPT !.enabled = TRUE, !.active = TRUE, !.mounted = @ \/ ~sys.active]
  IN \/ Do("mount", started, Goto(run, "check"))
     \/ \E machine \in {sys, Set("enabled", TRUE)} :
          FaultLeaving("mount", machine, Goto(Warned(run), "override"))

\* a mutant for AnswersAreHonest: a unit that was enabled counts as a mirror
MirrorIsEnabled == Do("check", sys, Goto(Recall(run, [mirror |-> sys.enabled]), "override"))

MirrorIsMounted ==
  \/ /\ sys.mounted
     /\ Do("check", sys, Goto(Recall(run, [mirror |-> TRUE]), "override"))
  \/ /\ ~sys.mounted
     /\ Do("check", sys, Goto(Warned(run), "override"))

Flags == (IF sys.proxy THEN {"proxy"} ELSE {}) \cup (IF run.mem.mirror THEN {"mirror"} ELSE {})

\* a menu built from another text of the entry does not know this one
Entered(flags) == [sys EXCEPT !.entry = flags, !.menu = @ /\ sys.entry = flags]

(* A proxy that does not listen is left out, with a warning.  The entry is *)
(* written where it differs, and the menu is rebuilt only by the run that  *)
(* wrote it: one whose mode or owner cannot be set is written, and the run *)
(* goes on as if it were not.                                              *)
WriteOverride ==
  LET r == IF sys.proxy THEN run ELSE Warned(run) IN
  \/ /\ ~sys.package
     /\ Do("override", sys, Goto(Warned(run), "pin"))
  \/ /\ sys.package /\ ~run.force /\ sys.entry = Flags
     /\ Do("override", sys, Goto(r, "pin"))
  \/ /\ sys.package /\ (run.force \/ sys.entry # Flags)
     /\ Do("override", Entered(Flags), Goto(Changed(r), "menu"))
  \/ /\ sys.package
     /\ \E flags \in {sys.entry, {"torn"}, Flags} :
          FaultLeaving("override", Entered(flags), Goto(Warned(r), "pin"))

\* a rebuild that fails is left to the next login (docs/spec/chrome-setup.md)
RefreshMenu ==
  \/ Do("menu", Set("menu", TRUE), Goto(run, "pin"))
  \/ Fault("menu", Goto(Warned(run), "pin"))

SetDefault ==
  \/ Do("default", Set("entry", {"default"}), Goto(Noted(run, sys.entry # {"default"}), "pin"))
  \/ /\ sys.entry # {"default"}
     /\ Fault("default", Goto(Warned(run), "pin"))

\* a desktop without a panel gets its launcher later, without a warning
PinLauncher ==
  \/ Do("pin", Set("pinned", sys.panel), Last(Noted(run, sys.panel /\ ~sys.pinned)))
  \/ /\ sys.panel /\ ~sys.pinned
     /\ \E pinned \in BOOLEAN :        \* the panel refused, the file may take it
          FaultLeaving("pin", Set("pinned", pinned), Last(Noted(Warned(run), pinned)))
-----------------------------------------------------------------------------
Publish == Event([sys EXCEPT !.clone = IF @ = "new" THEN "old" ELSE @,
                             !.system = IF @ = "new" THEN "old" ELSE @,
                             !.profile = IF @ = "new" THEN "old" ELSE @])

OpenOrClose == sys.package /\ Event([sys EXCEPT !.opened = ~@])

ProxyChanges == Event([sys EXCEPT !.proxy = ~@])

Unmount == sys.mounted /\ Event([sys EXCEPT !.mounted = FALSE])

\* the login that follows the boot builds the menu of the session anew
Reboot == Event([sys EXCEPT !.opened = FALSE, !.active = sys.enabled,
                            !.mounted = sys.enabled, !.menu = TRUE])
-----------------------------------------------------------------------------
Step ==
  \/ MoveLegacySource \/ DownloadKeyring \/ WriteKeyring \/ FinishKeyring \/ WriteSource
  \/ InstallBrowser \/ RemoveSnap \/ SyncRepository \/ DeploySystem \/ DeployProfile
  \/ WriteMountUnit \/ EnableMount \/ MirrorIsMounted \/ WriteOverride \/ RefreshMenu
  \/ SetDefault \/ PinLauncher

Next == Step \/ StartTask \/ Kill \/ Publish \/ OpenOrClose \/ ProxyChanges \/ Unmount
        \/ Reboot

Spec == Init /\ [][Next]_frame /\ WF_frame(Step)
-----------------------------------------------------------------------------
Labels == {"legacy", "key", "write_key", "finish_key", "source", "package", "snap", "sync",
           "tree", "profile", "unit", "mount", "check", "override", "menu", "default", "pin"}

(* The values of the variables (values/chrome_setup.py, firefox_setup.py). *)
BrowserType ==
  /\ RunType(Labels, [mirror : BOOLEAN])
  /\ sys \in [kind : {"chrome", "firefox"}, legacy : BOOLEAN, snap : BOOLEAN,
              key : {"none", "torn", "whole"}, source : {"none", "torn", "whole"},
              package : BOOLEAN, clone : Copies, system : Copies, profile : Copies,
              opened : BOOLEAN, unit : BOOLEAN, enabled : BOOLEAN, active : BOOLEAN,
              mounted : BOOLEAN, proxy : BOOLEAN,
              entry : SUBSET {"none", "torn", "default", "proxy", "mirror"},
              menu : BOOLEAN, panel : BOOLEAN, pinned : BOOLEAN]

\* no run was cut off and no call failed so far
Undisturbed == left.kills = MaxKills /\ left.faults = MaxFaults

(* What the user gets: the browser of the vendor with the current settings,*)
(* and for Chrome an entry with the proxy and the mirror that is mounted.  *)
(* The menu knows that entry where no run was disturbed: one that was cut  *)
(* off or failed after it wrote the entry leaves the menu to the next      *)
(* login, for the runs after it find the entry as it should be.            *)
Delivered ==
  /\ sys.package /\ sys.source = "whole" /\ sys.system = "new"
  /\ ~sys.snap /\ ~sys.legacy
  /\ IF Chrome THEN /\ sys.profile = "new" /\ sys.mounted /\ sys.enabled
                    /\ sys.entry = {"proxy", "mirror"}
                    /\ Undisturbed => sys.menu
     ELSE sys.entry = {"default"}

(* A plain done result means that the browser is delivered.                *)
BrowserCleanTask == CleanRunReaches(Delivered)

(* The entry never starts Chrome on a mirror that is not there, nor through*)
(* a proxy that did not listen when the run asked: an empty mirror would   *)
(* hide the profile (docs/spec/chrome-setup.md, Profile mirror).           *)
EntryFollowsMachine ==
  Chrome /\ run.pc = "end" /\ ~run.hurt /\ sys.package =>
    /\ "mirror" \in sys.entry <=> sys.mounted
    /\ "proxy" \in sys.entry <=> sys.proxy

(* A run whose own calls succeed repairs what earlier runs left: a source  *)
(* cut short, a clone that was reset half way, files of an older state.    *)
(* A keyring that was cut short stays as it is, also in force mode.        *)
BrowserRepairs ==
  sys.key = "whole" => FaultFreeRunReaches(
    /\ sys.package /\ sys.source = "whole" /\ sys.system = "new"
    /\ Chrome => sys.unit /\ sys.enabled /\ (sys.opened \/ sys.profile = "new"))

(* The same of every keyring, which does not hold.                         *)
AlwaysInstalls == FaultFreeRunReaches(sys.package)

(* After a clean run the next one finds nothing to do.                     *)
BrowserRerun == RerunChangesNothing
=============================================================================

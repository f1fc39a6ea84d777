------------------------------- MODULE Desktop -------------------------------
(***************************************************************************)
(* kde_settings and kde_keyboard_setup.  Both write configuration files of *)
(* the desktop user and then talk to the session that runs, if one does:   *)
(* a file that matches says nothing of what the session has read.  The     *)
(* keyboard combinations are owned by a daemon of the session, which keeps *)
(* them in memory and writes their file from that memory.                  *)
(***************************************************************************)
EXTENDS TaskRun

CONSTANT Attempts           \* how often a refused combination is asked for

\* the values a step writes together, in the order of the steps
Settings == {"look", "kwin", "cursor", "user", "system", "applet"}
Layouts  == {"layout", "applet"}
Mine(kind) == IF kind = "settings" THEN Settings ELSE Layouts

\* settings a tool gives to the session at once, and nobody minds if it fails
Applied == {"look", "cursor"}
Follow  == [look |-> "kwin", kwin |-> "cursor", cursor |-> "reload",
            layout |-> "applet", user |-> "system", system |-> "applet"]

\* who may own the configured combination
Owners == {"ours", "foreign"}

Fresh == [session |-> FALSE, set |-> FALSE, tries |-> 0]

Init ==
  /\ \E kind \in {"settings", "keyboard"}, panel \in BOOLEAN, owner \in Owners :
       sys = [kind |-> kind, package |-> FALSE,
              panel |-> panel,              \* the panel carries the applet
              files |-> {},                 \* values the files hold as configured
              session |-> FALSE,
              live |-> {},                  \* values the session uses as configured
              recorded |-> {owner},         \* owners in the shortcut file
              held |-> {},                  \* owners in the running daemon
              extra |-> TRUE,               \* the unwanted applet is on the panel
              desks |-> "other",            \* desktops of the session
              manager |-> FALSE]            \* the session manager runs
  /\ run = NoRun(Fresh)
  /\ left = Budget

Mem(r, field, value) == Recall(r, [r.mem EXCEPT ![field] = value])
Set(r)     == Changed(Mem(r, "set", TRUE))
Last(r)    == Goto(r, "end")
Keyboard   == sys.kind = "keyboard"
Write(g)   == [sys EXCEPT !.files = @ \cup {g}]
Use(machine, group) == [machine EXCEPT !.live = @ \cup (machine.files \cap group)]
-----------------------------------------------------------------------------
StartTask == \E force \in BOOLEAN :
  Begin("package", force, [Fresh EXCEPT !.session = sys.session])

\* the settings go on without a package, the layouts do not
InstallPackage ==
  \/ /\ sys.package
     /\ Do("package", sys, Goto(run, "mkdir"))
  \/ /\ ~sys.package
     /\ Do("package", [sys EXCEPT !.package = TRUE], Goto(Changed(run), "mkdir"))
  \/ /\ ~sys.package
     /\ Fault("package", Goto(Warned(run), IF Keyboard THEN "end" ELSE "mkdir"))

MakeDirectory ==
  \/ Do("mkdir", sys, Goto(run, IF Keyboard THEN "layout" ELSE "look"))
  \/ Fault("mkdir", Goto(Warned(run), IF Keyboard THEN "end" ELSE "look"))

(* Values are written where they differ.  A value that could not be read   *)
(* or written is a warning; a tool that could not show a written one to    *)
(* the session is not.                                                     *)
WriteGroup == \E g \in DOMAIN Follow :
  LET differs == run.force \/ g \notin sys.files
      shown   == g \in Applied /\ run.mem.session
  IN \/ /\ ~differs
        /\ Do(g, sys, Goto(run, Follow[g]))
     \/ /\ differs
        /\ Do(g, IF shown THEN Use(Write(g), {g}) ELSE Write(g), Goto(Set(run), Follow[g]))
     \/ /\ differs /\ shown
        /\ FaultLeaving(g, Write(g), Goto(Set(run), Follow[g]))
     \/ Fault(g, Goto(Warned(run), Follow[g]))

(* KWin is told to read its file again when something was set.             *)
ReloadKwin ==
  LET next == IF Keyboard THEN "restart" ELSE "keys" IN
  \/ /\ ~run.mem.set \/ ~run.mem.session
     /\ Do("reload", sys, Goto(run, next))
  \/ /\ run.mem.set /\ run.mem.session
     /\ Do("reload", Use(sys, {"kwin"}), Goto(run, next))
  \/ /\ run.mem.set /\ run.mem.session
     /\ Fault("reload", Goto(Warned(run), next))

(* The client of the daemon takes the combination from everyone who holds  *)
(* it, the rightful owner included, and gives it to the owner.  What the   *)
(* owner held before is read between the two, so it always differs.        *)
Owned == [sys EXCEPT !.held = {"ours"}, !.recorded = {"ours"}]
Freed == [sys EXCEPT !.held = {}, !.recorded = {}]

\* the file gets the combination and loses it everywhere else
InFile(machine) == [machine EXCEPT !.recorded = {"ours"}]

ApplyShortcuts ==
  \/ /\ ~run.mem.session
     /\ Do("keys", InFile(sys), Goto(run, "records"))
  \/ /\ ~run.mem.session                             \* one of the writes failed
     /\ \E recorded \in {sys.recorded, sys.recorded \cup {"ours"}} :
          FaultLeaving("keys", [sys EXCEPT !.recorded = recorded], Goto(Warned(run), "records"))
  \/ /\ ~run.mem.session                             \* it cannot be read again, and
     /\ FaultLeaving("keys", [sys EXCEPT !.recorded = @ \cup {"ours"}],  \* nobody is told
                     Goto(run, "records"))
  \/ /\ run.mem.session
     /\ Do("keys", Owned, Goto(Changed(run), "records"))
  \/ /\ run.mem.session                              \* the client broke off
     /\ \E machine \in {sys, Freed, Owned} :
          FaultLeaving("keys", InFile(machine), Goto(Warned(run), "records"))
  \/ /\ run.mem.session                              \* the daemon refuses
     /\ \E machine \in {Freed, [sys EXCEPT !.held = {"foreign"}, !.recorded = {"foreign"}]} :
          IF run.mem.tries < Attempts - 1
          THEN FaultLeaving("keys", machine, Mem(run, "tries", run.mem.tries + 1))
          ELSE FaultLeaving("keys", InFile(machine), Goto(Warned(run), "records"))

\* a record is corrected where there is one
WriteRecords ==
  \/ /\ "ours" \in sys.recorded => ~run.force
     /\ Do("records", sys, Goto(run, "user"))
  \/ /\ run.force \/ "ours" \notin sys.recorded
     /\ Do("records", [sys EXCEPT !.recorded = @ \cup {"ours"}], Goto(Set(run), "user"))
  \/ Fault("records", Goto(Warned(run), "user"))

\* the applet's section of the file; the settings miss it aloud
WriteApplet ==
  LET next    == IF Keyboard THEN "hotkeys" ELSE "panel"
      differs == run.force \/ "applet" \notin sys.files
  IN \/ /\ ~sys.panel
        /\ Do("applet", sys, Goto(IF Keyboard THEN run ELSE Warned(run), next))
     \/ /\ sys.panel /\ ~differs
        /\ Do("applet", sys, Goto(run, next))
     \/ /\ sys.panel /\ differs
        /\ Do("applet", Write("applet"), Goto(Changed(run), next))
     \/ /\ sys.panel
        /\ Fault("applet", Goto(Warned(run), next))

\* the running panel takes the values, and gives up the unwanted applet
ShowPanel ==
  \/ /\ ~run.mem.session
     /\ Do("panel", sys, Last(run))
  \/ /\ run.mem.session
     /\ Do("panel", [Use(sys, {"applet"}) EXCEPT !.extra = FALSE],
           Goto(Noted(run, sys.extra), "desks"))
  \/ /\ run.mem.session
     /\ \E machine \in {sys, Use(sys, {"applet"})} :
          FaultLeaving("panel", machine, Goto(Warned(run), "desks"))

\* desktops are created or removed until the count fits; this changes nothing
\* in the answer, and a list that cannot be read ends the task
CountDesktops ==
  \/ Do("desks", [sys EXCEPT !.desks = "target"], Last(run))
  \/ Fault("desks", Last(Warned(run)))

(* The layouts' own combinations: the file, then the daemon.               *)
WriteHotkeys ==
  LET next == IF run.mem.session THEN "daemon" ELSE "reload" IN
  \/ /\ "ours" \in sys.recorded /\ ~run.force
     /\ Do("hotkeys", sys, Goto(run, next))
  \/ /\ "ours" \notin sys.recorded \/ run.force
     /\ Do("hotkeys", [sys EXCEPT !.recorded = @ \cup {"ours"}], Goto(Set(run), next))
  \/ Fault("hotkeys", Goto(Warned(run), next))

ApplyHotkeys ==
  \/ Do("daemon", Owned, Goto(Set(run), "reload"))
  \/ \E machine \in {sys, Freed, Owned} :
       FaultLeaving("daemon", machine, Goto(Warned(run), "reload"))

(* KWin builds its keymap when it starts, so the compositor is restarted,  *)
(* and the session manager, which it takes along, is started again.        *)
RestartCompositor ==
  LET restarted == [Use(sys, {"layout", "kwin"}) EXCEPT !.manager = FALSE] IN
  \/ /\ ~run.mem.set \/ ~run.mem.session
     /\ Do("restart", sys, Last(run))
  \/ /\ run.mem.set /\ run.mem.session
     /\ Do("restart", restarted, Goto(run, "manager"))
  \/ /\ run.mem.set /\ run.mem.session
     /\ \E machine \in {sys, restarted} :
          FaultLeaving("restart", machine, Last(Warned(run)))

\* a mutant for FaultFreeRunRepairs: the session manager went with the
\* compositor and nobody starts it again
StartNoManager ==
  \/ Do("manager", sys, Last(run))
  \/ Fault("manager", Last(Warned(run)))

StartManager ==
  \/ Do("manager", [sys EXCEPT !.manager = TRUE], Last(run))
  \/ Fault("manager", Last(Warned(run)))
-----------------------------------------------------------------------------
\* a session reads every file; of two owners in the file one gets the key
Login ==
  /\ ~sys.session
  /\ \E held \in IF sys.recorded = {} THEN {{}} ELSE {{owner} : owner \in sys.recorded} :
       Event([sys EXCEPT !.session = TRUE, !.live = sys.files, !.held = held,
                         !.manager = TRUE,
                         !.desks = IF "kwin" \in sys.files THEN "target" ELSE @])

Logout ==
  /\ sys.session
  /\ Event([sys EXCEPT !.session = FALSE, !.live = {}, !.held = {}, !.manager = FALSE])

\* somebody changes a setting, or gives the combination to another action
Edited == \E g \in sys.files :
  Event([sys EXCEPT !.files = @ \ {g}, !.live = @ \ {g}])

Rebound ==
  Event([sys EXCEPT !.recorded = {"foreign"},
                    !.held = IF sys.session THEN {"foreign"} ELSE {}])
-----------------------------------------------------------------------------
Step ==
  \/ InstallPackage \/ MakeDirectory \/ WriteGroup \/ ReloadKwin \/ ApplyShortcuts
  \/ WriteRecords \/ WriteApplet \/ ShowPanel \/ CountDesktops \/ WriteHotkeys
  \/ ApplyHotkeys \/ RestartCompositor \/ StartManager

Next == Step \/ StartTask \/ Kill \/ Login \/ Logout \/ Edited \/ Rebound

Spec == Init /\ [][Next]_frame /\ WF_frame(Step)
-----------------------------------------------------------------------------
Labels == DOMAIN Follow \cup
  {"package", "mkdir", "reload", "keys", "records", "applet", "panel", "desks", "hotkeys",
   "daemon", "restart", "manager"}

(* The values of the variables (values/kde_settings.py).                   *)
DesktopType ==
  /\ RunType(Labels, [session : BOOLEAN, set : BOOLEAN, tries : 0..Attempts])
  /\ sys \in [kind : {"settings", "keyboard"}, package : BOOLEAN, panel : BOOLEAN,
              files : SUBSET (Settings \cup Layouts), session : BOOLEAN,
              live : SUBSET (Settings \cup Layouts), recorded : SUBSET Owners,
              held : SUBSET Owners, extra : BOOLEAN, desks : {"other", "target"},
              manager : BOOLEAN]

(* A plain done result means that every file holds the configured values,  *)
(* that the combination belongs to its action alone, in the daemon of a    *)
(* running session, and that the session has the configured desktops.      *)
DesktopCleanTask ==
  CleanRunReaches(/\ sys.package
                  /\ Mine(sys.kind) \ sys.files \subseteq IF Keyboard THEN {"applet"} ELSE {}
                  /\ "ours" \in sys.recorded
                  /\ sys.session => sys.held = {"ours"}
                  /\ sys.session /\ ~Keyboard => sys.desks = "target" /\ ~sys.extra)

(* The next login after a clean kde_settings run cannot hand the           *)
(* combination to an action that was not running: the file names one owner.*)
(* A run that gave the key to its owner and could not read the file after  *)
(* that says nothing of the others it leaves in it, so no call may fail.   *)
NextLoginKeepsKey ==
  ~Keyboard /\ ~run.hurt => CleanRunReaches(sys.recorded = {"ours"})

\* what a session has to be told of
Shown == {"look", "kwin", "cursor", "layout"}

(* The running session shows what the files say, as long as no call failed *)
(* and no run was cut off: KWin is told of its file, the panel of its      *)
(* applet, the compositor is restarted for the layouts.                    *)
SessionFollowsFiles ==
  sys.session /\ left.faults = MaxFaults /\ left.kills = MaxKills
    => CleanRunReaches(sys.files \cap Shown \subseteq sys.live)

(* A forced run whose own calls succeed brings a session up to date that   *)
(* an earlier failed reload or a killed run left behind, and leaves it its *)
(* session manager after the restart of the compositor.                    *)
ForcedRunRepairsSession ==
  run.force /\ sys.session
    => FaultFreeRunReaches(/\ sys.files \cap Shown \subseteq sys.live
                           /\ Keyboard => sys.manager
                           /\ sys.held = {"ours"})

(* After a clean run the next one finds nothing to do, where no session    *)
(* runs that could be asked.                                               *)
RerunWithoutSession == ~sys.session => RerunChangesNothing

(* docs/spec/kde-keyboard-setup.md says the same of a running session: the *)
(* live apply counts only real changes.  It does not hold, because the     *)
(* client takes the combination from its rightful owner before it reads    *)
(* what that owner held.                                                   *)
RerunWithSession == RerunChangesNothing
=============================================================================

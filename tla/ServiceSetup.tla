---------------------------- MODULE ServiceSetup ----------------------------
(***************************************************************************)
(* The three sections that deploy the services of this package:            *)
(*   metrics  system_metrics_setup: the environment, the service, the      *)
(*            watcher of the spool, the timer of the collector, the commit *)
(*            command and the spool                                        *)
(*   port     port_forwarding_setup: one service                           *)
(*   upnp     upnp_forwarding_setup: a timer and the pass it starts        *)
(* The unit text carries the version of the deployed interpreter, which is *)
(* how a later run sees that a running service is older than its code.     *)
(***************************************************************************)
EXTENDS TaskRun

Kinds    == {"metrics", "port", "upnp"}
Versions == {"none", "old", "new"}           \* "new" is the clone at work
Units    == {"service", "path", "timer"}

\* the vault of the machine names no server or no passphrase for the forwarding,
\* a passphrase that opens no deployed key, or all the service needs
Data == {"none", "wrong", "full"}

UnitsOf(kind) == CASE kind = "metrics" -> Units
                   [] kind = "port"    -> {"service"}
                   [] kind = "upnp"    -> {"service", "timer"}
\* what systemd starts at boot
Autorun(kind) == UnitsOf(kind) \ (IF kind = "upnp" THEN {"service"} ELSE {})

\* active holds, for each unit, the version of the code it was started with
Fresh == [version |-> "none", todo |-> {}, stale |-> {},
             rebuilt |-> FALSE, wrote |-> FALSE]

Init ==
  /\ \E kind \in Kinds, venv \in Versions, data \in Data :
       /\ (venv = "new") = (kind # "metrics")
       /\ kind # "port" => data = "none"
       /\ sys = [kind |-> kind, venv |-> venv, data |-> data,
                 unit |-> [u \in Units |-> "none"], loaded |-> [u \in Units |-> "none"],
                 active |-> [u \in Units |-> "none"], enabled |-> {},
                 command |-> FALSE, spool |-> FALSE]
  /\ run = NoRun(Fresh)
  /\ left = Budget

Mine      == UnitsOf(sys.kind)
Mem(r, field, value) == Recall(r, [r.mem EXCEPT ![field] = value])

\* the version the units carry: that of the deployed interpreter, or of the
\* clone where no interpreter answers
UnitVersion == IF sys.venv = "none" THEN "new" ELSE sys.venv
Stale       == {u \in Mine : sys.unit[u] # UnitVersion}
AllEnabled  == Autorun(sys.kind) \subseteq sys.enabled
-----------------------------------------------------------------------------
StartTask == \E force \in BOOLEAN : Begin("check", force, Fresh)

(* One look at everything before the first step: the interpreter, the unit *)
(* files, what is enabled, the command and the spool; the services that    *)
(* run are looked at by two of the sections only.                          *)
Reached(kind) ==
  /\ Stale = {} /\ AllEnabled
  /\ kind = "metrics" => sys.venv = "new" /\ sys.command /\ sys.spool
  /\ kind = "port" => sys.active["service"] # "none"
  /\ kind = "upnp" => sys.active["timer"] # "none"

\* a passphrase that opens no key is a warning of both answers
Readiness == [run EXCEPT !.warn = @ \/ (sys.kind = "port" /\ sys.data = "wrong")]

\* the forwarding service that is deployed and does not run is started again,
\* for the vault may say more by now, and the start counts as a change
StartsAgain == sys.kind = "port" /\ (run.force \/ (Stale = {} /\ AllEnabled))

Check ==
  Do("check", sys,
     IF ~run.force /\ Reached(sys.kind) THEN Goto(Readiness, "end")
     ELSE Goto(Recall(Noted(Readiness, StartsAgain),
                      [Fresh EXCEPT !.version = UnitVersion, !.stale = Stale,
                                    !.todo = IF run.force THEN Mine ELSE Stale]),
               IF sys.kind = "metrics" THEN "venv" ELSE "units"))

\* the environment is made where it is missing, and refreshed where it is old;
\* a refresh that fails is followed by a rebuild, whose success is a warning
EnsureVenv ==
  \/ /\ sys.venv = "new" /\ ~run.force
     /\ Do("venv", sys, Goto(run, "units"))
  \/ /\ sys.venv # "new" \/ run.force
     /\ Do("venv", [sys EXCEPT !.venv = "new"],
           Goto(Changed(Mem(run, "rebuilt", TRUE)), "units"))
  \/ Fault("venv", Goto(Warned(run), "units"))               \* uv is missing
  \/ /\ sys.venv # "new" \/ run.force
     /\ Fault("venv", Goto(Warned(run), "rebuild"))

RebuildVenv ==
  \/ Do("rebuild", [sys EXCEPT !.venv = "none"], Goto(run, "fill"))
  \/ Fault("rebuild", Goto(run, "units"))
FillVenv ==
  \/ Do("fill", [sys EXCEPT !.venv = "new"], Goto(run, "units"))
  \/ Fault("fill", Goto(run, "units"))

\* systemd reads a unit it does not know yet when it is first asked about it
WriteUnit ==
  \/ \E u \in run.mem.todo :
       Do("units", [sys EXCEPT !.unit[u] = run.mem.version,
                     !.loaded[u] = IF @ = "none" THEN run.mem.version ELSE @],
          Changed(Recall(run, [run.mem EXCEPT !.todo = @ \ {u}, !.wrote = TRUE])))
  \/ \E u \in run.mem.todo :
       Fault("units", Warned(Mem(run, "todo", run.mem.todo \ {u})))
  \/ /\ run.mem.todo = {}
     /\ Do("units", sys, Goto(run, "systemd"))

\* the metrics section touches systemd only where something of it differed,
\* the other two read the units again when they wrote one
AfterSystemd == IF sys.kind = "metrics" THEN "command" ELSE "end"
SkipsSystemd == sys.kind = "metrics" /\ ~run.force /\ ~run.mem.rebuilt
                  /\ run.mem.stale = {} /\ AllEnabled
Reloads == sys.kind = "metrics" \/ run.mem.wrote

\* the call that fails ends the whole block of the metrics section, the other
\* two go on with the next call
Broken(next) == Goto(Warned(run), IF sys.kind = "metrics" THEN "command" ELSE next)

Reload ==
  \/ /\ SkipsSystemd
     /\ Do("systemd", sys, Goto(run, "command"))
  \/ /\ ~SkipsSystemd
     /\ Do("systemd", IF Reloads THEN [sys EXCEPT !.loaded = sys.unit] ELSE sys,
           Goto(run, "enable"))
  \/ /\ ~SkipsSystemd /\ Reloads
     /\ Fault("systemd", Broken("enable"))

AfterEnable == IF sys.kind = "upnp" THEN "watch" ELSE "start"

Enable ==
  \/ \E u \in Autorun(sys.kind) \ sys.enabled :
       /\ sys.unit[u] # "none"
       /\ Do("enable", [sys EXCEPT !.enabled = @ \cup {u}, !.loaded = sys.unit],
             Noted(run, sys.kind # "metrics"))
  \/ \E u \in Autorun(sys.kind) \ sys.enabled :
       /\ sys.unit[u] = "none"                \* there is no such unit
       /\ Do("enable", sys, Broken(AfterEnable))
  \/ /\ AllEnabled
     /\ Do("enable", sys, Goto(run, AfterEnable))
  \/ /\ ~AllEnabled
     /\ Fault("enable", Broken(AfterEnable))

\* a start leaves a running service alone, a restart takes up the code of now;
\* the pass of upnp is over by the time it is started again
Restarts == sys.kind # "metrics" \/ run.force \/ run.changed

\* a forwarding service with nothing to connect to, or a passphrase that opens
\* no key, ends at once and cleanly (main of port_forwarding)
Exits == sys.kind = "port" /\ sys.data # "full"

Started(u) == IF sys.loaded[u] = "none" \/ Exits THEN "none" ELSE sys.venv

StartService ==
  \/ Do("start", IF sys.active["service"] = "none" \/ Restarts
                 THEN [sys EXCEPT !.active["service"] = Started("service")] ELSE sys,
        Goto(run, IF sys.kind = "metrics" THEN "watch" ELSE "verify"))
  \/ FaultLeaving("start",                   \* it was stopped to be restarted
        [sys EXCEPT !.active["service"] = IF Restarts THEN "none" ELSE @], Broken("end"))

\* the watcher and the timer: started where they do not run, restarted where
\* their text changed
Restarted == {u \in Mine \ {"service"} :
  sys.active[u] = "none" \/ run.force \/ (sys.kind = "metrics" /\ u \in run.mem.stale)}

\* the timer of upnp is started and never restarted
TakenUp(u) == u \in Restarted /\ (sys.kind = "metrics" \/ sys.active[u] = "none")

StartWatchers ==
  \/ Do("watch", [sys EXCEPT !.active = [u \in Units |->
                     IF TakenUp(u) THEN Started(u) ELSE @[u]]],
        Goto(Noted(run, sys.kind = "metrics" \/ Restarted # {}),
             IF sys.kind = "upnp" THEN "start" ELSE "command"))
  \/ Fault("watch", Broken("start"))

\* a service that runs and one that exited cleanly both pass; one that failed,
\* or whose last run did, is a warning
VerifyStarted ==
  \/ Do("verify", sys, Goto(Noted(run, sys.kind = "upnp"), "end"))
  \/ FaultLeaving("verify", [sys EXCEPT !.active["service"] = "none"],
                  Goto(Warned(run), "end"))

WriteCommand ==
  \/ Do("command", [sys EXCEPT !.command = TRUE],
        Goto(Noted(run, ~sys.command \/ run.force), "spool"))
  \/ Fault("command", Goto(Warned(run), "spool"))

EnsureSpool ==
  \/ Do("spool", [sys EXCEPT !.spool = TRUE],
        Goto(Noted(run, ~sys.spool \/ run.force), "end"))
  \/ Fault("spool", Goto(Warned(run), "end"))
-----------------------------------------------------------------------------
Older(version) == IF version = "new" THEN "old" ELSE version

\* the clone is updated; the sections without an environment of their own see
\* one that the metrics section has refreshed already
Upgrade ==
  Event([sys EXCEPT !.venv = IF sys.kind = "metrics" THEN Older(@) ELSE "new",
           !.unit = [u \in Units |-> Older(@[u])],
           !.loaded = [u \in Units |-> Older(@[u])],
           !.active = [u \in Units |-> Older(@[u])]])

Reboot ==
  Event([sys EXCEPT !.loaded = sys.unit,
           !.active = [u \in Units |-> IF u \in sys.enabled /\ sys.unit[u] # "none" /\ ~Exits
                                       THEN sys.venv ELSE "none"]])

\* the section that sets up the local vault brings it what the others say; a
\* service that runs has read its vault and goes on with what it read
VaultSynced == sys.kind = "port" /\ \E data \in Data : Event([sys EXCEPT !.data = data])
-----------------------------------------------------------------------------
Step ==
  \/ Check \/ EnsureVenv \/ RebuildVenv \/ FillVenv \/ WriteUnit \/ Reload \/ Enable
  \/ StartService \/ StartWatchers \/ VerifyStarted \/ WriteCommand \/ EnsureSpool

Next == Step \/ StartTask \/ Kill \/ Upgrade \/ Reboot \/ VaultSynced

Spec == Init /\ [][Next]_frame /\ WF_frame(Step)
-----------------------------------------------------------------------------
Labels == {"check", "venv", "rebuild", "fill", "units", "systemd", "enable", "start",
           "watch", "verify", "command", "spool"}

(* The values of the variables (values/system_metrics_setup.py).           *)
TypeOK ==
  /\ RunType(Labels, [version : Versions, todo : SUBSET Units, stale : SUBSET Units,
                      rebuilt : BOOLEAN, wrote : BOOLEAN])
  /\ sys.kind \in Kinds /\ sys.venv \in Versions /\ sys.data \in Data
  /\ {sys.unit, sys.loaded, sys.active} \subseteq [Units -> Versions]
  /\ sys.enabled \subseteq Units
  /\ {sys.command, sys.spool} \subseteq BOOLEAN

Untouched == left.kills = MaxKills /\ left.faults = MaxFaults

(* The deployed service runs the current code after every run (module      *)
(* docstring of system_metrics_setup): as long as no run was cut off and   *)
(* no call failed.  The forwarding service may have ended cleanly, but only *)
(* where the vault gives it nothing to do (_started_ok); what runs of it   *)
(* is never older than its code.                                           *)
Serves ==
  CASE sys.kind = "metrics" -> sys.active["service"] = "new"
    [] sys.kind = "port"    -> /\ sys.active["service"] # "old"
                               /\ sys.data = "full" => sys.active["service"] = "new"
    [] sys.kind = "upnp"    -> sys.active["timer"] # "none"
RunsCurrentCode == CleanRunReaches(Serves)
CurrentCodeUndisturbed == Untouched => RunsCurrentCode

(* A failed call alone never leaves the forwarding service or the pass on  *)
(* old code once a run answers without a warning: a service that does not  *)
(* run is restarted, also one that ended before its vault was complete,    *)
(* and a unit that lags is written again.                                  *)
ForwardingRecovers ==
  sys.kind # "metrics" /\ left.kills = MaxKills => RunsCurrentCode

(* A plain done result means the units are those of the deployed           *)
(* interpreter or, right after a refresh, of the one before it, and that   *)
(* they start at boot.                                                     *)
CleanUnits ==
  CleanRunReaches(/\ AllEnabled
                  /\ \A u \in Mine : sys.unit[u] # "none"
                  /\ sys.kind # "metrics" => Stale = {})

(* After a clean run of the two forwarding sections the next one finds     *)
(* nothing to do, but for a forwarding service that ended cleanly: every   *)
(* run starts it again and answers changed                                 *)
(* (test_restarts_when_deployed_but_inactive).  The metrics section is left *)
(* out: right after an upgrade its units carry the version of the          *)
(* interpreter it found, so the second run writes them once more.          *)
Ended == sys.kind = "port" /\ sys.active["service"] = "none"

ForwardingRerunChangesNothing ==
  sys.kind # "metrics" /\ ~Ended => RerunChangesNothing
=============================================================================

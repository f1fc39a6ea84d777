------------------------------- MODULE SshSetup -------------------------------
(***************************************************************************)
(* ssh_daemon_setup: the package, the drop-in written through augeas, the  *)
(* key pairs, the socket unit that would own the listen port and the       *)
(* service.  The file on the disk, what the running daemon has read and    *)
(* the port it holds are three different things.  ssh_client_setup writes  *)
(* a drop-in of its own the same way and has nothing that runs.            *)
(***************************************************************************)
EXTENDS TaskRun

CONSTANT Homes              \* root and the configured users

\* a drop-in that is missing or names another port, one that differs in
\* another directive, and the declared one
Dropins == {"none", "port", "minor", "target"}
SamePort(conf) == conf \in {"minor", "target"}

Fresh == [wrote |-> FALSE, port |-> FALSE, off |-> FALSE, todo |-> {},
          socket |-> FALSE, enabled |-> FALSE, active |-> FALSE]

Init ==
  /\ \E kind \in {"daemon", "client"}, include \in BOOLEAN, dropin \in Dropins :
       sys = [kind |-> kind,
              package |-> FALSE, augtool |-> FALSE,
              include |-> include,          \* the main file reads the drop-in
              dropin |-> dropin,
              socket |-> FALSE,             \* the socket unit is enabled or active
              enabled |-> FALSE,
              conf |-> "down",              \* down, or the drop-in the daemon has read
              bound |-> FALSE,              \* it listens on the declared port
              keys |-> {}]                  \* homes that carry both key pairs
  /\ run = NoRun(Fresh)
  /\ left = Budget

Mem(r, field, value) == Recall(r, [r.mem EXCEPT ![field] = value])
Running == sys.conf # "down"
Client  == sys.kind = "client"

\* the client is done once its drop-in is
AfterDropin == IF Client THEN "end" ELSE "units"

\* what a daemon reads that starts now, and the port it then holds: with the
\* socket unit up the socket hands it the listener
Effective(machine) == IF machine.include THEN machine.dropin ELSE "none"
Up(machine) ==
  [machine EXCEPT !.conf = Effective(machine),
                  !.bound = SamePort(Effective(machine)) /\ ~machine.socket]
Down(machine) == [machine EXCEPT !.conf = "down", !.bound = FALSE]
-----------------------------------------------------------------------------
StartTask == \E force \in BOOLEAN : Begin(IF Client THEN "include" ELSE "package", force, [Fresh EXCEPT !.todo = Homes])

\* the package enables its socket unit, which starts the daemon on demand
InstallPackage ==
  \/ /\ sys.package
     /\ Do("package", sys, Goto(run, "include"))
  \/ /\ ~sys.package
     /\ LET machine == [sys EXCEPT !.package = TRUE, !.socket = TRUE, !.enabled = TRUE]
        IN \E installed \in {machine, Up(machine)} :
             Do("package", installed, Goto(Changed(run), "include"))
  \/ /\ ~sys.package
     /\ Fault("package", Goto(Warned(run), "include"))

CheckInclude == Do("include", sys, Goto(IF sys.include THEN run ELSE Warned(run), "augtool"))

EnsureAugtool ==
  \/ Do("augtool", [sys EXCEPT !.augtool = TRUE], Goto(run, "dropin"))
  \/ /\ ~sys.augtool
     /\ Fault("augtool", Goto(Warned(run), IF run.force /\ ~Client THEN "verify"
                                           ELSE AfterDropin))

\* augeas answers with an error, which is a warning; a call that takes too
\* long, or the mode of the written file, raises and ends the task
SyncDropin ==
  LET differs == run.force \/ sys.dropin # "target"
      r       == Mem(Mem(run, "wrote", TRUE), "port", ~SamePort(sys.dropin))
  IN \/ /\ ~differs
        /\ Do("dropin", sys, Goto(run, AfterDropin))
     \/ /\ differs
        /\ Do("dropin", [sys EXCEPT !.dropin = "target"], Goto(Changed(r), "verify"))
     \/ Fault("dropin", Goto(Warned(run), IF run.force THEN "verify" ELSE AfterDropin))
     \/ Fault("dropin", Goto(Warned(run), "end"))
     \/ /\ differs
        /\ FaultLeaving("dropin", [sys EXCEPT !.dropin = "target"], Goto(Warned(run), "end"))

\* the effective configuration is asked for and not acted on
VerifyConfig ==
  \/ Do("verify", sys, Goto(IF (Client \/ sys.package) /\ Effective(sys) = "target" THEN run
                            ELSE Warned(run), AfterDropin))
  \/ Fault("verify", Goto(Warned(run), AfterDropin))

LookAtUnits ==
  Do("units", sys,
     Goto(Recall(run, [run.mem EXCEPT !.socket = sys.socket, !.enabled = sys.enabled,
                                      !.active = Running]), "keys"))

Settled == /\ ~run.force /\ ~run.changed /\ ~run.mem.socket
           /\ run.mem.enabled /\ run.mem.active

\* one home after the other; a file that cannot be written ends the task
DeployKeys ==
  \/ \E home \in run.mem.todo :
       Do("keys", [sys EXCEPT !.keys = @ \cup {home}],
          Noted(Mem(run, "todo", run.mem.todo \ {home}), home \notin sys.keys))
  \/ /\ run.mem.todo \ sys.keys # {}
     /\ Fault("keys", Goto(Warned(run), "end"))
  \/ /\ run.mem.todo = {}
     /\ Do("keys", sys, Goto(run, IF Settled THEN "end" ELSE "socket"))
  \/ /\ run.mem.todo = Homes                          \* the key files are missing
     /\ Fault("keys", Goto(Warned(run), IF Settled THEN "end" ELSE "socket"))

DisableSocket ==
  \/ /\ ~run.mem.socket
     /\ Do("socket", sys, Goto(run, "enable"))
  \/ /\ run.mem.socket
     /\ Do("socket", [sys EXCEPT !.socket = FALSE], Goto(Changed(Mem(run, "off", TRUE)), "enable"))
  \/ /\ run.mem.socket
     /\ Fault("socket", Goto(Warned(run), "enable"))

EnableService ==
  \/ /\ run.mem.enabled
     /\ Do("enable", sys, Goto(run, "start"))
  \/ /\ ~run.mem.enabled /\ sys.package
     /\ Do("enable", [sys EXCEPT !.enabled = TRUE], Goto(Changed(run), "start"))
  \/ /\ ~run.mem.enabled
     /\ Fault("enable", Goto(Warned(run), "start"))
  \/ /\ ~run.mem.enabled /\ ~sys.package
     /\ Do("enable", sys, Goto(Warned(run), "start"))

\* a mutant for RunningFollowsFiles: a daemon that was behind the socket is
\* only told to read its file again
RestartsForPort == run.mem.active /\ (run.force \/ run.mem.port)

\* stopped: started; holding another port: restarted; else told to read again
Restarts == run.mem.active /\ (run.force \/ run.mem.off \/ run.mem.port)
Reloads  == run.mem.active /\ ~Restarts /\ run.mem.wrote

StartService ==
  \/ /\ ~run.mem.active /\ sys.package
     /\ Do("start", IF Running THEN sys ELSE Up(sys), Goto(Changed(run), "listen"))
  \/ /\ ~run.mem.active
     /\ Fault("start", Goto(Warned(run), "end"))
  \/ /\ ~run.mem.active /\ ~sys.package
     /\ Do("start", sys, Goto(Warned(run), "end"))
  \/ /\ Restarts
     /\ Do("start", Up(sys), Goto(Changed(run), "listen"))
  \/ /\ Restarts
     /\ \E machine \in {sys, Down(sys)} :
          FaultLeaving("start", machine, Goto(Warned(run), "end"))
  \/ /\ Reloads
     /\ Do("start", [sys EXCEPT !.conf = Effective(sys)], Goto(Changed(run), "end"))
  \/ /\ Reloads
     /\ Fault("start", Goto(Warned(run), "end"))
  \/ /\ run.mem.active /\ ~Restarts /\ ~Reloads
     /\ Do("start", sys, Goto(run, "end"))

\* the daemon that was started did not stay up, or holds another port
VerifyListener ==
  \/ Do("listen", sys, Goto(IF sys.bound THEN run ELSE Warned(run), "end"))
  \/ \E machine \in {sys, Down(sys)} :
       FaultLeaving("listen", machine, Goto(Warned(run), "end"))
-----------------------------------------------------------------------------
Reboot ==
  Event(IF sys.enabled /\ sys.package THEN Up(sys) ELSE Down(sys))

\* somebody edits the drop-in and restarts the daemon with it, or takes keys
\* away
Edited == \E dropin \in Dropins \ {sys.dropin} :
  LET edited == [sys EXCEPT !.dropin = dropin]
  IN Event(IF Running THEN Up(edited) ELSE edited)
KeysLost == \E home \in sys.keys : Event([sys EXCEPT !.keys = @ \ {home}])
-----------------------------------------------------------------------------
Step ==
  \/ InstallPackage \/ CheckInclude \/ EnsureAugtool \/ SyncDropin \/ VerifyConfig
  \/ LookAtUnits \/ DeployKeys \/ DisableSocket \/ EnableService \/ StartService
  \/ VerifyListener

Next == Step \/ StartTask \/ Kill \/ Reboot \/ Edited \/ KeysLost

Spec == Init /\ [][Next]_frame /\ WF_frame(Step)
-----------------------------------------------------------------------------
Labels == {"package", "include", "augtool", "dropin", "verify", "units", "keys", "socket",
           "enable", "start", "listen"}

(* The values of the variables (values/ssh_daemon_setup.py).               *)
SshType ==
  /\ RunType(Labels, [wrote : BOOLEAN, port : BOOLEAN, off : BOOLEAN, todo : SUBSET Homes,
                      socket : BOOLEAN, enabled : BOOLEAN, active : BOOLEAN])
  /\ sys \in [kind : {"daemon", "client"}, package : BOOLEAN, augtool : BOOLEAN, include : BOOLEAN, dropin : Dropins,
              socket : BOOLEAN, enabled : BOOLEAN, conf : Dropins \cup {"down"},
              bound : BOOLEAN, keys : SUBSET Homes]

(* A plain done result means that the drop-in that is read is the declared *)
(* one, and for the daemon that it runs, starts at boot, is not behind a   *)
(* socket unit and knows the deployed keys in every home.                  *)
SshCleanTask ==
  CleanRunReaches(/\ sys.include /\ sys.dropin = "target"
                  /\ Client \/ /\ sys.package /\ Running /\ sys.enabled
                               /\ ~sys.socket /\ sys.keys = Homes)

(* The running daemon has read the declared directives and holds the       *)
(* declared port, as long as no call failed and no run was cut off: a      *)
(* changed port is followed by a restart, anything else by a reload.       *)
DaemonFollowsFile ==
  ~Client /\ left.faults = MaxFaults /\ left.kills = MaxKills
    => CleanRunReaches(sys.conf = "target" /\ sys.bound)

(* A forced run whose own calls succeed brings a daemon back that an       *)
(* earlier failed restart or a killed run left on old directives or on the *)
(* wrong port.                                                             *)
ForcedRunRepairsSsh ==
  ~Client /\ run.force /\ sys.include
    => FaultFreeRunReaches(sys.conf = "target" /\ sys.bound /\ sys.keys = Homes)

(* A run never ends with nothing listening when every call of it succeeded *)
(* and something listened before: the socket goes only where the daemon    *)
(* takes over.                                                             *)
StaysReachable == ~Client => FaultFreeRunReaches(Running \/ sys.socket)

(* A port that never came up is a warning, never a silent success          *)
(* (docs/spec/ssh-daemon-setup.md), said of every run.  It does not hold:  *)
(* the run after a failed restart sees an active service, a matching file  *)
(* and no socket, and answers that everything is configured.               *)
PortIsReported == ~Client => CleanRunReaches(sys.bound)

(* After a clean run the next one changes nothing.                         *)
SshRerun == RerunChangesNothing
=============================================================================

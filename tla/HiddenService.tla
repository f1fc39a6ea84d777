---------------------------- MODULE HiddenService ----------------------------
(***************************************************************************)
(* tor_setup and i2pd_service_setup: a daemon of a package, two pieces of  *)
(* configuration (tor: the include line and the drop-in; i2pd: its main    *)
(* and its tunnels file), an identity the daemon makes for itself once it  *)
(* has read both, and a file that saves the address of that identity.      *)
(***************************************************************************)
EXTENDS TaskRun

Daemons  == {"tor", "i2pd"}
Pieces   == {"base", "service"}         \* base: include line or main file
Identity == 0..(MaxRuns + 1)            \* 0: none yet

\* what the i2pd task reads before it starts and uses afterwards; tor has
\* looked at its package by then
Fresh == [needs |-> FALSE, wants |-> FALSE, write |-> {}, address |-> 0, enabled |-> FALSE,
          active |-> FALSE, known |-> FALSE, behind |-> FALSE]

Init ==
  /\ \E daemon \in Daemons :
       sys = [daemon |-> daemon, package |-> "none",
              file |-> {},              \* the pieces that carry the target text
              running |-> "down",       \* down, or with which pieces it was started
              enabled |-> FALSE,
              identity |-> 0, drawn |-> 0,
              saved |-> 0]              \* the address file
  /\ run = NoRun(Fresh)
  /\ left = Budget

Tor  == sys.daemon = "tor"
I2pd == sys.daemon = "i2pd"
Mem(r, field, value) == Recall(r, [r.mem EXCEPT ![field] = value])

\* the daemon as it comes up with the files of now
Up(machine) == [machine EXCEPT !.running = IF machine.file = Pieces THEN "target" ELSE "plain"]

\* the package starts or restarts its daemon when it is installed
Installed(machine) == Up([machine EXCEPT !.package = "new", !.enabled = TRUE])
-----------------------------------------------------------------------------
StartTask ==
  \E force \in BOOLEAN :
    Begin(IF Tor THEN "install" ELSE "check", force,
          [Fresh EXCEPT !.known = sys.identity # 0,
                        !.behind = sys.saved # sys.identity])

\* tor installs what is missing, i2pd what is not the newest release
InstallPackage ==
  LET wanted == IF Tor THEN sys.package = "none" ELSE run.mem.needs
      next   == IF Tor THEN "base" ELSE "write"
  IN \/ /\ ~wanted
        /\ Do("install", sys, Goto(run, next))
     \/ /\ wanted
        /\ Do("install", Installed(sys), Goto(Changed(run), next))
     \/ /\ wanted
        /\ Fault("install", Goto(Warned(run), next))

\* the include line goes into the main file of the package, where there is one
EnsureTorrcInclude ==
  \/ /\ "base" \in sys.file
     /\ Do("base", sys, Goto(run, "check"))
  \/ /\ "base" \notin sys.file /\ sys.package # "none"
     /\ Do("base", [sys EXCEPT !.file = @ \cup {"base"}],
           Goto(Changed(Mem(run, "write", {"base"})), "check"))
  \/ /\ sys.package = "none"
     /\ Do("base", sys, Goto(Warned(run), "check"))
  \/ /\ "base" \notin sys.file
     /\ Fault("base", Goto(Warned(run), "check"))

\* what is written in any case by force, and the main file with a new package
Written  == IF Tor THEN {"service"} ELSE Pieces
Outdated == {piece \in Written : \/ run.force \/ piece \notin sys.file
                                 \/ I2pd /\ piece = "base" /\ sys.package # "new"}

(* The one look at the machine that the skip and the later steps rest on.  *)
Snapshot ==
  [run.mem EXCEPT
     !.needs   = I2pd /\ sys.package # "new",
     !.write   = @ \cup Outdated,
     !.wants   = run.mem.write \cup Outdated # {},
     !.address = sys.identity,
     !.enabled = sys.enabled,
     !.active  = sys.running # "down"]

\* an unknown release leaves the package alone; no version is the one asked
\* for then, so the main file is written and the daemon restarted
Unknown == [Snapshot EXCEPT !.needs = FALSE, !.write = @ \cup {"base"}, !.wants = TRUE]

Reached(seen) ==
  /\ ~run.force /\ ~seen.needs /\ seen.write = {}
  /\ Tor => sys.package # "none"
  /\ seen.enabled /\ seen.active
  /\ seen.address # 0 /\ sys.saved = seen.address

Look(seen) ==
  IF Reached(seen) THEN Goto(run, "end")
  ELSE Goto(Recall(run, seen), IF Tor THEN "write" ELSE "forget")

Check ==
  \/ Do("check", sys, Look(Snapshot))
  \/ /\ I2pd
     /\ Fault("check", Warned(Look(Unknown)))

\* a mutant for IrreplaceableIsKept: a new package starts with a new identity
ForgetWithPackage ==
  Do("forget", IF run.force \/ run.mem.needs THEN [sys EXCEPT !.identity = 0] ELSE sys,
     Goto(run, "install"))

\* a forced i2pd run removes the identity before it writes anything
ForgetTunnel ==
  \/ Do("forget", IF run.force THEN [sys EXCEPT !.identity = 0] ELSE sys, Goto(run, "install"))
  \/ /\ run.force
     /\ Fault("forget", Goto(Warned(run), "install"))

\* a file whose write fails is cut short
WriteConfig ==
  \/ \E piece \in run.mem.write :
       \/ /\ Tor /\ piece = "base"
          /\ Do("write", sys, Mem(run, "write", run.mem.write \ {piece}))
       \/ /\ ~(Tor /\ piece = "base")
          /\ \/ Do("write", [sys EXCEPT !.file = @ \cup {piece}],
                   Changed(Mem(run, "write", run.mem.write \ {piece})))
             \/ FaultLeaving("write", [sys EXCEPT !.file = @ \ {piece}],
                             Warned(Mem(run, "write", run.mem.write \ {piece})))
  \/ /\ run.mem.write = {}
     /\ Do("write", sys, Goto(run, IF Tor THEN "verify" ELSE "enable"))

VerifyConfig ==
  \/ Do("verify", sys, Goto(run, "dir"))
  \/ /\ run.mem.wants
     /\ Fault("verify", Goto(Warned(run), "dir"))

\* a forced tor run removes the identity after it wrote the drop-in
HiddenServiceDir ==
  \/ Do("dir", IF run.force THEN [sys EXCEPT !.identity = 0] ELSE sys, Goto(run, "enable"))
  \/ Fault("dir", Goto(Warned(run), "enable"))

EnableService ==
  \/ /\ run.mem.enabled
     /\ Do("enable", sys, Goto(run, "start"))
  \/ /\ ~run.mem.enabled /\ sys.package # "none"
     /\ Do("enable", [sys EXCEPT !.enabled = TRUE], Goto(Changed(run), "start"))
  \/ /\ ~run.mem.enabled
     /\ Fault("enable", Goto(Warned(run), "start"))
  \/ /\ sys.package = "none"
     /\ Do("enable", sys, Goto(Warned(run), "start"))

(* The service is taken down and up where anything changed; i2pd decides   *)
(* between start and restart by what it sees now, tor by what it saw.      *)
StaleStart == IF Tor THEN ~run.mem.active ELSE sys.running = "down"
Again      == sys.running # "down" /\ StaleStart    \* a start changes nothing then

NeedsStart ==
  \/ run.force \/ run.mem.wants \/ run.mem.needs
  \/ ~run.mem.active \/ run.mem.address = 0

StartService ==
  \/ /\ ~NeedsStart
     /\ Do("start", sys, Goto(run, "address"))
  \/ /\ NeedsStart /\ sys.package # "none"
     /\ Do("start", IF Again THEN sys ELSE Up(sys), Goto(Changed(run), "address"))
  \/ /\ NeedsStart
     /\ \E state \in {"down", sys.running} :
          FaultLeaving("start", [sys EXCEPT !.running = state], Goto(Warned(run), "address"))
  \/ /\ sys.package = "none"
     /\ Do("start", sys, Goto(Warned(run), "address"))

(* i2pd waits for the identity and warns when it does not come; tor takes  *)
(* what is there.                                                          *)
SaveAddress ==
  \/ /\ sys.identity # 0
     /\ Do("address", [sys EXCEPT !.saved = sys.identity],
           Goto(Noted(run, sys.saved # sys.identity), "end"))
  \/ /\ sys.identity # 0 /\ sys.saved # sys.identity
     /\ FaultLeaving("address", [sys EXCEPT !.saved = 0], Goto(Warned(run), "end"))
  \/ /\ sys.identity = 0
     /\ Do("address", sys, Goto(IF I2pd THEN Warned(run) ELSE run, "end"))
-----------------------------------------------------------------------------
(* The daemon makes an identity some time after it has read its service.   *)
Generate ==
  /\ sys.running = "target" /\ sys.identity = 0 /\ sys.drawn < MaxRuns + 1
  /\ sys' = [sys EXCEPT !.identity = sys.drawn + 1, !.drawn = @ + 1]
  /\ UNCHANGED <<run, left>>

Release == sys.package = "new" /\ I2pd /\ Event([sys EXCEPT !.package = "old"])
Edited  == \E piece \in sys.file : Event([sys EXCEPT !.file = @ \ {piece}])
Reboot  == Event(IF sys.enabled /\ sys.package # "none" THEN Up(sys)
                 ELSE [sys EXCEPT !.running = "down"])
-----------------------------------------------------------------------------
Step ==
  \/ InstallPackage \/ EnsureTorrcInclude \/ Check \/ ForgetTunnel \/ WriteConfig
  \/ VerifyConfig \/ HiddenServiceDir \/ EnableService \/ StartService \/ SaveAddress

Next == Step \/ StartTask \/ Kill \/ Generate \/ Release \/ Edited \/ Reboot

Spec == Init /\ [][Next]_frame /\ WF_frame(Step)
-----------------------------------------------------------------------------
Labels == {"install", "base", "check", "forget", "write", "verify", "dir", "enable",
           "start", "address"}

(* The values of the variables (values/tor_setup.py, i2pd_service_setup).  *)
HiddenType ==
  /\ RunType(Labels, [needs : BOOLEAN, wants : BOOLEAN, write : SUBSET Pieces, address : Identity,
                      enabled : BOOLEAN, active : BOOLEAN, known : BOOLEAN,
                      behind : BOOLEAN])
  /\ sys \in [daemon : Daemons, package : {"none", "old", "new"}, file : SUBSET Pieces,
              running : {"down", "plain", "target"}, enabled : BOOLEAN,
              identity : Identity, drawn : Identity, saved : Identity]

(* A plain done result means that the daemon is installed, runs and starts *)
(* at boot with both pieces in place, and for i2pd that the saved address  *)
(* is that of the identity.                                                *)
HiddenCleanTask ==
  CleanRunReaches(/\ sys.package # "none" /\ sys.file = Pieces
                  /\ sys.running # "down" /\ sys.enabled
                  /\ I2pd => sys.identity # 0 /\ sys.saved = sys.identity)

(* tor saves the address in the first run that finds the identity there:   *)
(* an unforced clean run never leaves a stale one behind.                  *)
TorAddressFollows ==
  Tor /\ run.pc = "end" /\ ~run.warn /\ ~run.force /\ run.mem.known
    => sys.saved = sys.identity

(* The daemon has read the configuration on the disk as long as no start   *)
(* failed and no run was cut off: the i2pd package starts its daemon with  *)
(* the packaged files in the middle of the run.                            *)
DaemonReadIt ==
  left.faults = MaxFaults /\ left.kills = MaxKills
    => CleanRunReaches(sys.running = "target")

(* Outside force mode the identity, and with it the address of the         *)
(* machine, is never replaced (docs/spec/tor-service.md).                  *)
IdentityStep ==
  sys.identity # 0 /\ ~(run.force /\ ~AtRest) => sys'.identity = sys.identity
IdentityKept == [][IdentityStep]_frame

(* After a clean run the next one changes nothing, except that tor starts  *)
(* again where no identity has come and saves the address of a late one.   *)
HiddenRerun == run.mem.known /\ ~run.mem.behind => RerunChangesNothing
=============================================================================

------------------------------ MODULE Yggdrasil ------------------------------
(***************************************************************************)
(* yggdrasil_service_setup: the newest package, the key that is the        *)
(* identity of the node, a configuration whose peers are probed batch by   *)
(* batch, and the file that saves the address.  A node that crashed leaves *)
(* its interface behind, on which the next start would die.                *)
(***************************************************************************)
EXTENDS TaskRun

CONSTANT Batches            \* how many batches of the peer list are probed

(* A key carries the number of the run that drew it; 1 is the pair of the  *)
(* package, 0 is none.  An empty key file is none the daemon can use.      *)
Keys == 0..(MaxRuns + 1)
Draw == MaxRuns - left.runs + 1

Fresh == [needs |-> FALSE, enabled |-> FALSE, active |-> FALSE, kept |-> FALSE, batch |-> 0]

Init ==
  /\ sys = [package |-> "none",
            pem |-> FALSE, key |-> 0,        \* the key file, and what it holds
            conf |-> {},                     \* the configuration: package, probe, final
            running |-> FALSE, enabled |-> FALSE,
            unmanaged |-> FALSE, tun |-> FALSE,
            file |-> FALSE, saved |-> 0]     \* the address file, and whose address
  /\ run = NoRun(Fresh)
  /\ left = Budget

Mem(r, field, value) == Recall(r, [r.mem EXCEPT ![field] = value])
Failed == Goto(Warned(run), "end")
Gives(label, next) == Do(label, sys, Goto(run, next))
HasPeers == sys.conf \cap {"probe", "final"} # {}
-----------------------------------------------------------------------------
StartTask == \E force \in BOOLEAN : Begin("release", force, Fresh)

AskRelease == Gives("release", "check") \/ Fault("release", Failed)

(* Everything is in place and the node has a live connection; whose        *)
(* address the file holds is not looked at.                                *)
Complete == sys.pem /\ HasPeers /\ sys.file

Check ==
  LET seen == [run.mem EXCEPT !.needs = sys.package # "new", !.enabled = sys.enabled,
                              !.active = sys.running,
                              !.kept = ~run.force /\ sys.package = "new" /\ Complete]
  IN \/ /\ seen.kept /\ sys.enabled /\ sys.running
        /\ Gives("check", "end")
     \/ Do("check", sys, Goto(Recall(run, seen), "install"))   \* no live connection, or more

\* a download that cannot be cleaned away ends the run behind the install
InstallPackage ==
  LET machine == [sys EXCEPT !.package = "new", !.conf = IF @ = {} THEN {"package"} ELSE @]
  IN \/ /\ ~run.mem.needs
        /\ Gives("install", "key")
     \/ /\ run.mem.needs
        /\ Do("install", machine, Goto(Changed(run), "key"))
     \/ /\ run.mem.needs
        /\ Fault("install", Failed)
     \/ /\ run.mem.needs
        /\ FaultLeaving("install", machine, Changed(Failed))

\* the pair of the packaged configuration, a fresh one by force; the file is
\* written in place, and a file cut short counts as a key from then on
NewKey == IF sys.conf # {} /\ ~run.force THEN 1 ELSE Draw

EnsurePrivateKey ==
  \/ /\ sys.pem /\ ~run.force
     /\ Gives("key", "enable")
  \/ /\ ~sys.pem \/ run.force
     /\ Do("key", [sys EXCEPT !.pem = TRUE, !.key = NewKey], Goto(run, "enable"))
  \/ /\ ~sys.pem \/ run.force
     /\ Fault("key", Failed)
  \/ /\ ~sys.pem \/ run.force
     /\ FaultLeaving("key", [sys EXCEPT !.pem = TRUE, !.key = 0], Failed)

EnableService ==
  \/ /\ run.mem.enabled
     /\ Gives("enable", "rule")
  \/ /\ ~run.mem.enabled
     /\ Do("enable", [sys EXCEPT !.enabled = TRUE], Goto(Changed(run), "rule"))
  \/ /\ ~run.mem.enabled
     /\ Fault("enable", Failed)

\* the kept configuration is started again, any other is made anew
MarkUnmanaged ==
  LET next == IF ~run.mem.kept THEN "peers"
              ELSE IF run.mem.active THEN "wait" ELSE "clean" IN
  \/ Do("rule", [sys EXCEPT !.unmanaged = TRUE], Goto(run, next))
  \/ /\ ~sys.unmanaged
     /\ Fault("rule", Goto(Warned(run), next))
-----------------------------------------------------------------------------
(* Starts and restarts.  The interface that was left behind is removed     *)
(* first where the service does not run; the removal may not succeed.      *)
CleanupInterface(label, next) ==
  \/ Do(label, IF sys.running THEN sys ELSE [sys EXCEPT !.tun = FALSE], Goto(run, next))
  \/ /\ sys.tun /\ ~sys.running
     /\ Fault(label, Goto(run, next))

Usable  == sys.key # 0
ComesUp == [sys EXCEPT !.running = sys.running \/ (Usable /\ ~sys.tun)]
Reads   == [sys EXCEPT !.running = Usable /\ ~sys.tun]

CleanKept == CleanupInterface("clean", "start")

StartKept ==
  \/ Do("start", ComesUp, Goto(Changed(run), "wait"))
  \/ Fault("start", Changed(Failed))

\* the kept node is waited for; one without a connection is a warning
WaitKept ==
  \/ /\ sys.running
     /\ \/ Do("wait", sys, Goto(Changed(run), "end"))
        \/ Do("wait", sys, Failed)
  \/ /\ ~sys.running
     /\ Do("wait", sys, Failed)

\* without a list the declared peers are taken, and nothing is probed
DownloadPeers == Gives("peers", "batch") \/ Fault("peers", Goto(run, "write"))

WriteConf(label, kind, next) ==
  \/ Do(label, [sys EXCEPT !.conf = {kind}], Goto(run, next))
  \/ FaultLeaving(label, [sys EXCEPT !.conf = {}], Changed(Failed))

Restart(label, next) ==
  \/ Do(label, Reads, Goto(run, next))
  \/ \E up \in {FALSE, sys.running} :
       FaultLeaving(label, [sys EXCEPT !.running = up], Changed(Failed))

ProbeBatch == WriteConf("batch", "probe", "clean_probe")
CleanProbe == CleanupInterface("clean_probe", "start_probe")
StartProbe == Restart("start_probe", "count")

\* enough peers of the batch answered, or the next one is tried; the last one
\* stays as it is
CountPeers ==
  \/ /\ sys.running
     /\ Gives("count", "write")
  \/ /\ run.mem.batch + 1 < Batches
     /\ Do("count", sys, Goto(Mem(run, "batch", run.mem.batch + 1), "batch"))
  \/ /\ run.mem.batch + 1 >= Batches
     /\ Do("count", sys, Goto(run, "live"))

WriteFinal   == WriteConf("write", "final", "clean_final")
CleanFinal   == CleanupInterface("clean_final", "start_final")
StartFinal   == Restart("start_final", "live")

\* a node without a connection is a warning, and its address is saved as well
LookAtNode ==
  \/ /\ sys.running
     /\ Do("live", sys, Goto(Changed(run), "save"))
  \/ /\ sys.running
     /\ Do("live", sys, Goto(Warned(Changed(run)), "save"))
  \/ /\ ~sys.running
     /\ Do("live", sys, Changed(Failed))

\* an address the node does not tell in time is not reported
SaveSelfAddress ==
  \/ Do("save", [sys EXCEPT !.file = TRUE, !.saved = sys.key], Goto(run, "end"))
  \/ Fault("save", Goto(run, "end"))
-----------------------------------------------------------------------------
\* the node dies and leaves its interface, a rule keeps others off it
Crash   == sys.running /\ Event([sys EXCEPT !.running = FALSE, !.tun = TRUE])
Release == sys.package = "new" /\ Event([sys EXCEPT !.package = "old"])
Reboot  == Event([sys EXCEPT !.running = sys.enabled /\ Usable, !.tun = FALSE])
-----------------------------------------------------------------------------
Step ==
  \/ AskRelease \/ Check \/ InstallPackage \/ EnsurePrivateKey \/ EnableService
  \/ MarkUnmanaged \/ CleanKept \/ StartKept \/ WaitKept \/ DownloadPeers \/ ProbeBatch
  \/ CleanProbe \/ StartProbe \/ CountPeers \/ WriteFinal \/ CleanFinal \/ StartFinal
  \/ LookAtNode \/ SaveSelfAddress

Next == Step \/ StartTask \/ Kill \/ Crash \/ Release \/ Reboot

Spec == Init /\ [][Next]_frame /\ WF_frame(Step)
-----------------------------------------------------------------------------
Labels == {"release", "check", "install", "key", "enable", "rule", "clean", "start", "wait",
           "peers", "batch", "clean_probe", "start_probe", "count", "write", "clean_final",
           "start_final", "live", "save"}

(* The values of the variables (values/yggdrasil_service_setup.py).        *)
YggdrasilType ==
  /\ RunType(Labels, [needs : BOOLEAN, enabled : BOOLEAN, active : BOOLEAN, kept : BOOLEAN,
                      batch : 0..Batches])
  /\ sys \in [package : {"none", "old", "new"}, pem : BOOLEAN, key : Keys,
              conf : SUBSET {"package", "probe", "final"}, running : BOOLEAN,
              enabled : BOOLEAN, unmanaged : BOOLEAN, tun : BOOLEAN, file : BOOLEAN,
              saved : Keys]

(* A plain done result means that the newest node runs with a key and      *)
(* peers, now and after a boot.                                            *)
YggdrasilCleanTask ==
  CleanRunReaches(sys.running /\ sys.enabled /\ Usable /\ HasPeers /\ sys.package = "new")

(* The saved address is that of the node after every clean run, as long as *)
(* no call failed and no run was cut off.                                  *)
AddressIsMine ==
  left.faults = MaxFaults /\ left.kills = MaxKills
    => CleanRunReaches(sys.file /\ sys.saved = sys.key)

(* A crash alone never keeps the node down: the next run whose own calls   *)
(* succeed removes the interface and brings the node up again, unless its  *)
(* key was cut short.                                                      *)
NodeComesBack == Usable => FaultFreeRunReaches(sys.running)

(* Outside force mode the key is never replaced, and neither is the        *)
(* address other machines know.                                            *)
KeyStep == sys.key # 0 /\ ~run.force => sys'.key = sys.key
KeyKept == [][KeyStep]_frame
=============================================================================

------------------------------ MODULE Dnsproxy ------------------------------
(***************************************************************************)
(* The resolver of the machine: nextdns_setup_system_wide selects the      *)
(* profile of this host, dnsproxy_setup installs the proxy, starts it,     *)
(* proves that it answers and only then cuts systemd-resolved and the      *)
(* connections of NetworkManager over to it.  A step that raises after the *)
(* cutover is undone by _revert.  One run is both tasks in catalog order.  *)
(***************************************************************************)
EXTENDS TaskRun

CONSTANTS
  Profiles,     \* the profiles of the vault
  Links         \* the connections NetworkManager keeps active

NoUnit == [profile |-> "none", provider |-> FALSE]

\* what one run remembers
Fresh == [active |-> FALSE, cut |-> FALSE, ignored |-> {}, found |-> FALSE,
          rewrote |-> FALSE, earlier |-> FALSE]

Init ==
  /\ \E held \in BOOLEAN, host \in Profiles :
       sys = [host |-> host,            \* the profile the hostname selects
              profile |-> "none",       \* the profile file
              binary |-> "none", unit |-> NoUnit,
              loaded |-> TRUE,          \* systemd has read the unit file
              serving |-> "down",       \* the service: down, or the text it runs
              enabled |-> FALSE,
              held |-> held,            \* another process listens on the port
              dropin |-> FALSE,         \* the file that names the proxy
              routed |-> FALSE,         \* what the running resolved has read
              auto |-> Links,           \* connections that take the provider's DNS
              live |-> Links]           \* links that have it now
  /\ run = NoRun(Fresh)
  /\ left = Budget

Mem(r, field, value) == Recall(r, [r.mem EXCEPT ![field] = value])
Failed   == Goto(Warned(run), "end")
Running  == sys.serving # "down"
Outdated == IF Running THEN "stale" ELSE "down"
-----------------------------------------------------------------------------
StartTask == \E force \in BOOLEAN : Begin("select", force, Fresh)

(* The profile of the host is recorded where the file differs.             *)
SelectProfile ==
  \/ /\ sys.profile = sys.host /\ ~run.force
     /\ Do("select", sys, Goto(run, "release"))
  \/ /\ sys.profile # sys.host \/ run.force
     /\ Do("select", [sys EXCEPT !.profile = sys.host], Goto(Changed(run), "release"))
  \/ Fault("select", Goto(Warned(run), "release"))                  \* no vault
  \/ /\ sys.profile # sys.host \/ run.force
     /\ FaultLeaving("select", [sys EXCEPT !.profile = "none"],     \* file cut short
                     Goto(Warned(run), "release"))

AskRelease ==
  \/ /\ sys.profile = "none"
     /\ Do("release", sys, Failed)
  \/ /\ sys.profile # "none"
     /\ Do("release", sys, Goto(run, "binary"))
  \/ Fault("release", Failed)
ReplaceBinary ==
  \/ /\ sys.binary = "new"
     /\ Do("binary", sys, Goto(run, "unit"))
  \/ /\ sys.binary # "new"
     /\ Do("binary", [sys EXCEPT !.binary = "new", !.serving = Outdated],
           Goto(Changed(run), "unit"))
  \/ /\ sys.binary # "new"
     /\ Fault("binary", Failed)

\* the unit names the servers the network gives at this moment
Provider == sys.live # {}
UnitText == [profile |-> sys.profile, provider |-> Provider]

WriteUnit ==
  LET r == Mem(Mem(run, "found", Provider), "earlier", sys.dropin \/ sys.routed)
  IN \/ /\ sys.unit = UnitText
        /\ Do("unit", sys, Goto(r, "port"))
     \/ /\ sys.unit # UnitText
        /\ Do("unit", [sys EXCEPT !.unit = UnitText, !.loaded = FALSE, !.serving = Outdated],
              Goto(Mem(r, "rewrote", TRUE), "reload"))
     \/ /\ sys.unit # UnitText
        /\ FaultLeaving("unit", [sys EXCEPT !.unit = NoUnit, !.loaded = FALSE,
                                            !.serving = Outdated], Failed)

ReloadUnit ==
  \/ Do("reload", [sys EXCEPT !.loaded = TRUE], Goto(Changed(run), "port"))
  \/ Fault("reload", Failed)

(* Whoever listens on the port of a proxy that does not run is stopped.    *)
FreeListenPort ==
  \/ /\ Running \/ ~sys.held
     /\ Do("port", sys, Goto(Mem(run, "active", Running), "enable"))
  \/ /\ ~Running /\ sys.held
     /\ Do("port", [sys EXCEPT !.held = FALSE], Goto(run, "enable"))
  \/ /\ ~Running /\ sys.held
     /\ Fault("port", Failed)

EnableService ==
  \/ /\ sys.enabled
     /\ Do("enable", sys, Goto(run, "start"))
  \/ /\ ~sys.enabled
     /\ Do("enable", [sys EXCEPT !.enabled = TRUE], Goto(Changed(run), "start"))
  \/ /\ ~sys.enabled
     /\ Fault("enable", Failed)

Starts == ~run.mem.active \/ run.changed \/ run.force

StartService ==
  \/ /\ ~Starts
     /\ Do("start", sys, Goto(run, "dropin"))
  \/ /\ Starts
     /\ Do("start", [sys EXCEPT !.serving = IF @ = "stale" /\ ~sys.loaded THEN "stale"
                                            ELSE "current"], Goto(run, "probe"))
  \/ /\ Starts                                   \* it did not come up and was stopped
     /\ FaultLeaving("start", [sys EXCEPT !.serving = "down"], Goto(Warned(Changed(run)), "end"))

\* the service is stopped when it does not answer
ProbeService ==
  \/ Do("probe", sys, Goto(Changed(run), "dropin"))
  \/ FaultLeaving("probe", [sys EXCEPT !.serving = "down"], Goto(Warned(Changed(run)), "end"))

(* From here on an exception is followed by the revert.                    *)
WriteDropin ==
  \/ /\ sys.dropin
     /\ Do("dropin", sys, Goto(run, "links"))
  \/ /\ ~sys.dropin
     /\ Do("dropin", [sys EXCEPT !.dropin = TRUE], Goto(Changed(Mem(run, "cut", TRUE)), "resolved"))
  \/ \E written \in BOOLEAN :                    \* the mode of the written file fails
       FaultLeaving("dropin", [sys EXCEPT !.dropin = @ \/ written], Failed)

RestartResolved ==
  \/ Do("resolved", [sys EXCEPT !.routed = sys.dropin], Goto(run, "links"))
  \/ Fault("resolved", Goto(run, "unlink"))

(* One connection after the other ignores the provider's servers; what was *)
(* changed reaches the caller only with the whole list.                    *)
IgnoreAutoDns ==
  \/ \E link \in sys.auto :
       Do("links", [sys EXCEPT !.auto = @ \ {link}, !.live = @ \ {link}],
          Mem(run, "ignored", run.mem.ignored \cup {link}))
  \/ /\ sys.auto = {}
     /\ Do("links", sys, Goto(run, "verify"))
  \/ Fault("links", Goto(Mem(run, "ignored", {}), "unlink"))
  \/ \E link \in sys.auto :                      \* changed, but not reapplied
       FaultLeaving("links", [sys EXCEPT !.auto = @ \ {link}],
                    Goto(Mem(run, "ignored", {}), "unlink"))

(* What is verified is kept either way, a failure is only reported.        *)
VerifySystem ==
  \/ /\ sys.routed /\ Running
     /\ Do("verify", sys, IF run.mem.found /\ Provider THEN Failed ELSE Goto(run, "end"))
  \/ /\ ~(sys.routed /\ Running)
     /\ Do("verify", sys, Goto(Warned(Changed(run)), "end"))
  \/ Fault("verify", Goto(Warned(Changed(run)), "end"))
  \/ Fault("verify", Goto(run, "unlink"))

\* a mutant for AddressesAreCurrent: the revert leaves the drop-in behind
RevertWithDropin ==
  \/ Do("unlink", sys, Goto(run, "restore"))
  \/ Fault("unlink", Goto(run, "restore"))

(* The revert: every step is tried whatever became of the one before.      *)
RemoveDropin ==
  \/ Do("unlink", IF run.mem.cut THEN [sys EXCEPT !.dropin = FALSE] ELSE sys, Goto(run, "restore"))
  \/ Fault("unlink", Goto(run, "restore"))

RestoreAutoDns ==
  \/ Do("restore", [sys EXCEPT !.auto = @ \cup run.mem.ignored, !.live = @ \cup run.mem.ignored],
        Goto(run, "back"))
  \/ Fault("restore", Goto(run, "back"))

RestartBack ==
  \/ Do("back", [sys EXCEPT !.routed = sys.dropin], Goto(run, "stop"))
  \/ Fault("back", Goto(run, "stop"))

StopService ==
  \/ Do("stop", [sys EXCEPT !.serving = "down"], Failed)
  \/ Fault("stop", Failed)
-----------------------------------------------------------------------------
Reboot ==
  Event([sys EXCEPT !.loaded = TRUE, !.routed = sys.dropin, !.live = sys.auto,
           !.serving = IF sys.enabled /\ sys.unit # NoUnit /\ sys.binary # "none"
                       THEN "current" ELSE "down"])

\* a release appears, or the host is renamed
Release == sys.binary = "new" /\ Event([sys EXCEPT !.binary = "old"])
Rename  == \E host \in Profiles \ {sys.host} : Event([sys EXCEPT !.host = host])
-----------------------------------------------------------------------------
Step ==
  \/ SelectProfile \/ AskRelease \/ ReplaceBinary \/ WriteUnit \/ ReloadUnit
  \/ FreeListenPort \/ EnableService \/ StartService \/ ProbeService \/ WriteDropin
  \/ RestartResolved \/ IgnoreAutoDns \/ VerifySystem \/ RemoveDropin \/ RestoreAutoDns
  \/ RestartBack \/ StopService

Next == Step \/ StartTask \/ Kill \/ Reboot \/ Release \/ Rename

Spec == Init /\ [][Next]_frame /\ WF_frame(Step)
-----------------------------------------------------------------------------
Labels == {"select", "release", "binary", "unit", "reload", "port", "enable", "start",
           "probe", "dropin", "resolved", "links", "verify", "unlink", "restore", "back",
           "stop"}

(* The values of the variables (values/dnsproxy_setup.py).                 *)
DnsType ==
  /\ RunType(Labels, [active : BOOLEAN, cut : BOOLEAN, ignored : SUBSET Links,
                      found : BOOLEAN, rewrote : BOOLEAN, earlier : BOOLEAN])
  /\ sys \in [host : Profiles, profile : Profiles \cup {"none"},
              binary : {"none", "old", "new"},
              unit : [profile : Profiles \cup {"none"}, provider : BOOLEAN],
              loaded : BOOLEAN, serving : {"down", "stale", "current"}, enabled : BOOLEAN,
              held : BOOLEAN, dropin : BOOLEAN, routed : BOOLEAN,
              auto : SUBSET Links, live : SUBSET Links]

(* A plain done result means that every query goes through the proxy, now  *)
(* and after the next boot, and that no connection competes with it.       *)
DnsCleanTask ==
  CleanRunReaches(/\ sys.routed /\ Running
                  /\ sys.dropin /\ sys.enabled
                  /\ sys.auto = {} /\ sys.live = {})

(* Without a failed call or a kill the proxy runs the newest binary with   *)
(* the profile of the host.                                                *)
DnsIsCurrent ==
  left.faults = MaxFaults /\ left.kills = MaxKills
    => CleanRunReaches(sys.serving = "current" /\ sys.unit.profile = sys.profile
                         /\ sys.binary = "new")

Answers == sys.routed => Running

(* The machine never keeps a broken cutover (docs/spec/dnsproxy-setup.md): *)
(* a resolver that was sent to the proxy by this run is never left with a  *)
(* proxy that was stopped, when one call failed and nothing was cut off.   *)
FirstCutoverAnswers ==
  /\ run.pc = "end" /\ ~run.mem.earlier
  /\ left.kills = MaxKills /\ left.faults >= MaxFaults - 1
  => Answers

(* The same for every run that ends, which does not hold: a proxy that     *)
(* fails the probe of a later run is stopped and the drop-in stays.        *)
EveryRunAnswers ==
  run.pc = "end" /\ left.kills = MaxKills /\ left.faults >= MaxFaults - 1 => Answers

(* The only thing a rerun after a clean run changes is the unit, which     *)
(* named the provider's servers that the cutover itself has removed.       *)
DnsRerunSettles == run.mem.rewrote \/ RerunChangesNothing
=============================================================================

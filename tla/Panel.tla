-------------------------------- MODULE Panel --------------------------------
(***************************************************************************)
(* The 3x-ui section: the installer of the panel, the port, the            *)
(* certificate, the credentials, the server inbound with its one client,   *)
(* the local proxy and the routing policy.  Every stage takes what it can  *)
(* reach through the panel's own interface, reports what it cannot, and    *)
(* the next stage is taken in any case.                                    *)
(***************************************************************************)
EXTENDS TaskRun

CONSTANT Panels               \* what may be on the machine before the first run

(* Every generation of credentials, key pair or client identity carries    *)
(* the number of the run that drew it; 0 is none.                          *)
Draws == 0..MaxRuns

(* db: what the panel stores; live: what its listener was started with;    *)
(* env: the hand-over file; entry: the credentials in the vault; profile:  *)
(* the connection profile there; reach: the internet reaches port 80.      *)
NoPanel ==
  [version |-> "none", enabled |-> FALSE, active |-> FALSE,
   db |-> [port |-> "other", gen |-> 0, cert |-> "none"],
   live |-> [port |-> "other", gen |-> 0, tls |-> FALSE],
   env |-> [port |-> "none", gen |-> 0], entry |-> <<>>, paths |-> FALSE,
   inbound |-> "none", keys |-> 0, share |-> FALSE, clients |-> {},
   profile |-> [id |-> 0, keys |-> 0, addressed |-> FALSE],
   proxy |-> FALSE, policy |-> FALSE, remote |-> TRUE, reach |-> FALSE]

\* a panel somebody installed by hand: another port, an inbound without keys
ForeignPanel ==
  [NoPanel EXCEPT !.version = "old", !.enabled = TRUE, !.active = TRUE,
     !.env = [port |-> "other", gen |-> 0], !.inbound = "bare"]

Fresh == [had |-> FALSE, ssl |-> FALSE, open |-> FALSE, id |-> 0,
          addressed |-> FALSE, writes |-> 0]

Init ==
  /\ \E machine \in {IF kind = "none" THEN NoPanel ELSE ForeignPanel : kind \in Panels},
        remote \in BOOLEAN :
       sys = [machine EXCEPT !.remote = remote]
  /\ run = NoRun(Fresh)
  /\ left = Budget

Draw == MaxRuns - left.runs
Mem(r, field, value) == Recall(r, [r.mem EXCEPT ![field] = value])

StartTask == \E force \in BOOLEAN : Begin("release", force, Fresh)

Restarted(machine) ==
  [machine EXCEPT !.active = TRUE,
     !.live = [port |-> machine.db.port, gen |-> machine.db.gen,
               tls |-> machine.db.cert # "none"]]

\* a restart that fails leaves the old process or none
RestartPanel(label, next) ==
  \/ Do(label, Restarted(sys), Goto(run, next))
  \/ \E active \in {FALSE, sys.active} :
       FaultLeaving(label, [sys EXCEPT !.active = active], Goto(Warned(run), next))

Skip(label, next)  == Do(label, sys, Goto(run, next))
Fails(label, next) == Fault(label, Goto(Warned(run), next))
-----------------------------------------------------------------------------
(* The installer step (_install_or_reuse).                                 *)

\* an unknown release is a warning and the installer is left out
AskRelease ==
  \/ Do("release", sys,
        IF ~run.force /\ sys.version = "new" /\ sys.enabled /\ sys.active
        THEN Goto(run, "port")
        ELSE Goto(Mem(run, "had", sys.version # "none"), "free"))
  \/ Fails("release", "port")

\* the panel itself is stopped when it is what holds the port
Stopped(machine) ==
  IF machine.live.port = "target" THEN [machine EXCEPT !.active = FALSE] ELSE machine

FreePort ==
  \/ Do("free", Stopped(sys), Goto(Mem(run, "ssl", sys.reach), "download"))
  \/ Do("free", Stopped(sys), Goto(Mem(run, "ssl", FALSE), "download"))
  \/ Fails("free", "port")                       \* another process keeps it
  \/ FaultLeaving("free", Stopped(sys),          \* or keeps port 80
                  Goto(Warned(Mem(run, "ssl", FALSE)), "download"))

Download == Skip("download", "install") \/ Fails("download", "port")

\* credentials, port and certificate are set on a panel in its first state
\* only; otherwise the installer keeps them and restarts the panel.  It tears
\* the panel down before it builds it again
Install ==
  \/ \E cert \in {"none"} \cup (IF run.mem.ssl THEN {"trusted"} ELSE {}) :
       /\ sys.db.gen = 0 /\ sys.version = "none"
       /\ Do("install",
             Restarted([sys EXCEPT !.version = "new", !.enabled = TRUE,
                          !.db = [port |-> "target", gen |-> Draw, cert |-> cert],
                          !.env = [port |-> "target", gen |-> Draw]]),
             Goto(Changed(run), "active"))
  \/ /\ sys.db.gen # 0 \/ sys.version # "none"
     /\ Do("install", Restarted([sys EXCEPT !.version = "new", !.enabled = TRUE]),
           Goto(Changed(run), "active"))
  \/ \E version \in {"none", sys.version} :
       FaultLeaving("install", [sys EXCEPT !.version = version, !.active = FALSE],
                    Goto(Warned(run), "port"))

AwaitActive ==
  LET next == IF run.force /\ run.mem.had THEN "rotate" ELSE "port" IN
  Skip("active", next) \/ Fails("active", next)

\* a forced run rotates the credentials: the panel, the file, the process
Rotate ==
  \/ Do("rotate", [sys EXCEPT !.db.gen = Draw], Goto(run, "rotate_env"))
  \/ \E gen \in {sys.db.gen, Draw} :
       FaultLeaving("rotate", [sys EXCEPT !.db.gen = gen], Goto(Warned(run), "port"))

\* a file that is missing or cannot be written is not reported
RotateEnv ==
  \/ Do("rotate_env", IF sys.env.port = "none" THEN sys ELSE [sys EXCEPT !.env.gen = Draw],
        Goto(run, "rotate_restart"))
  \/ Fault("rotate_env", Goto(run, "rotate_restart"))

RotateRestart == RestartPanel("rotate_restart", "port")
-----------------------------------------------------------------------------
(* Port, certificate and hand-over file.                                   *)

\* the stored port is compared, not the one the process listens on; a port
\* that cannot be read is passed over in silence
ConvergePort ==
  \/ /\ sys.db.port = "target" \/ sys.version = "none"
     /\ Skip("port", "ssl")
  \/ /\ sys.db.port # "target" /\ sys.version # "none"
     /\ Do("port", [sys EXCEPT !.db.port = "target"], Goto(Changed(run), "port_restart"))
  \/ Fault("port", Goto(run, "ssl"))
  \/ /\ sys.db.port # "target"
     /\ Fails("port", "ssl")

PortRestart == RestartPanel("port_restart", "ssl")

\* a trusted certificate stays, a self-signed one is replaced as soon as the
\* internet reaches the machine, and with none either is made.  The query of
\* a panel that is not there raises, which ends the whole task
LookAtCertificate ==
  \/ /\ sys.version = "none"
     /\ Do("ssl", sys, Goto(Warned(run), "end"))
  \/ /\ sys.version # "none"
     /\ \/ /\ sys.db.cert = "trusted"
           /\ Skip("ssl", "sync")
        \/ /\ sys.db.cert # "trusted" /\ sys.reach
           /\ Skip("ssl", "acme")
        \/ /\ sys.db.cert = "self" /\ ~sys.reach
           /\ Skip("ssl", "sync")
        \/ /\ sys.db.cert = "none" /\ ~sys.reach
           /\ Skip("ssl", "openssl")

SetCertificate(label, cert, next, onError) ==
  \/ Do(label, [sys EXCEPT !.db.cert = cert], Goto(Changed(run), next))
  \/ Fails(label, onError)

IssueTrusted    == SetCertificate("acme", "trusted", "ssl_restart", "sync")
MakeSelfSigned  == SetCertificate("openssl", "self", "ssl_restart", "sync")
RestartWithCert == RestartPanel("ssl_restart", "sync")

SyncEnv ==
  \/ Do("sync", IF sys.env.port = "none" THEN sys ELSE [sys EXCEPT !.env.port = "target"],
        Goto(run, "login"))
  \/ Fault("sync", Goto(run, "login"))
-----------------------------------------------------------------------------
(* The interface of the panel, and the stages behind it.                   *)

\* the address the file names is the one the process serves
Answers ==
  /\ sys.active /\ sys.env.port # "none"
  /\ sys.live = [port |-> sys.env.port, gen |-> sys.env.gen, tls |-> sys.db.cert # "none"]

Reached(label, next, onError) ==
  \/ /\ ~Answers
     /\ Do(label, sys, Goto(Warned(run), onError))
  \/ Fails(label, onError)

Credentials == <<sys.env.port, sys.env.gen, sys.db.cert # "none">>

StoreCredentials ==
  \/ /\ Answers /\ sys.env.gen = sys.db.gen
     /\ Do("login", [sys EXCEPT !.entry = Credentials], Goto(run, "paths"))
  \/ /\ Answers /\ sys.env.gen # sys.db.gen
     /\ Do("login", sys, Goto(Warned(run), "paths"))
  \/ Reached("login", "paths", "paths")          \* a closed vault included

SetPaths ==
  \/ /\ Answers
     /\ Do("paths", [sys EXCEPT !.paths = TRUE], Goto(Noted(run, ~sys.paths), "inbound"))
  \/ Reached("paths", "inbound", "inbound")

\* a fresh pair goes into an inbound that has none, found or made
KeyedInbound == [sys EXCEPT !.inbound = "keyed", !.keys = Draw]

\* the inbound is found by its port; one without keys is given a pair
EnsureInbound ==
  \/ /\ Answers /\ sys.inbound = "keyed"
     /\ Skip("inbound", "share")
  \/ /\ Answers /\ sys.inbound # "keyed"
     /\ Do("inbound", KeyedInbound, Goto(Changed(run), "share"))
  \/ Reached("inbound", "share", "share")

\* an address the panel does not take is left out of the profile as well
SetShareAddress ==
  \/ /\ Answers /\ sys.inbound # "none"
     /\ Do("share", [sys EXCEPT !.share = TRUE],
           Goto(Mem(Noted(run, run.force \/ ~sys.share), "addressed", TRUE), "vault"))
  \/ /\ Answers /\ sys.inbound # "none" /\ (run.force \/ ~sys.share)
     /\ Fails("share", "vault")
  \/ /\ ~Answers \/ sys.inbound = "none"
     /\ Do("share", sys, Goto(Warned(run), "proxy"))
  \/ Fails("share", "proxy")                     \* the listing failed

First(clients) == CHOOSE id \in clients : \A other \in clients : id <= other

\* a mutant for OneClientOverHttps: a client the panel serves is not taken over
IdentityOfVault(stored) == IF stored # 0 THEN stored ELSE Draw

\* the identity of the vault, else that of a client the panel serves, else a
\* fresh one
Identity(stored) ==
  IF stored # 0 THEN stored
  ELSE IF sys.clients # {} THEN First(sys.clients) ELSE Draw

OpenVault ==
  \/ Do("vault", sys,
        Goto(Recall(IF sys.profile.id = 0 /\ Cardinality(sys.clients) > 1
                    THEN Warned(run) ELSE run,
                    [run.mem EXCEPT !.open = TRUE, !.id = Identity(sys.profile.id)]),
             "client"))
  \/ Fault("vault", Goto(Warned(Mem(run, "id", Identity(0))), "client"))

Served == run.mem.id \in sys.clients
WithClient == [sys EXCEPT !.clients = @ \cup {run.mem.id}]

EnsureClient ==
  \/ /\ Served
     /\ Skip("client", "profile")
  \/ /\ ~Served
     /\ Do("client", WithClient, Goto(Changed(run), "profile"))
  \/ Fails("client", "proxy")

Profile == [id |-> run.mem.id, keys |-> sys.keys, addressed |-> run.mem.addressed]

StoreProfile ==
  \/ /\ run.mem.open
     /\ Do("profile", [sys EXCEPT !.profile = Profile],
           Goto(Noted(run, sys.profile # Profile), "proxy"))
  \/ /\ ~run.mem.open
     /\ Skip("profile", "proxy")
  \/ Fails("profile", "proxy")                   \* the panel has no link

EnsureProxy ==
  \/ /\ Answers
     /\ Do("proxy", [sys EXCEPT !.proxy = TRUE],
           Goto(Noted(run, run.force \/ ~sys.proxy), "policy"))
  \/ Reached("proxy", "policy", "policy")
-----------------------------------------------------------------------------
(* The routing policy: written, asked back, and written once more when the *)
(* core or the path disagrees.                                             *)

Written(r) == Changed(Mem(r, "writes", r.mem.writes + 1))

WritePolicy ==
  \/ /\ Answers /\ (run.force \/ ~sys.policy)
     /\ Do("policy", [sys EXCEPT !.policy = TRUE], Goto(Written(run), "test"))
  \/ /\ Answers /\ ~run.force /\ sys.policy
     /\ Skip("policy", "test")
  \/ Reached("policy", "end", "end")

\* the path is proved where the machine has a remote exit of its own
AfterTest == IF sys.remote THEN "path" ELSE "end"

TestRoutes ==
  \/ Skip("test", AfterTest)
  \/ Fault("test", Goto(run, "rewrite"))         \* the core answers something else
  \/ Fails("test", "end")                        \* the core does not decide

Rewrite ==
  \/ Do("rewrite", sys, Goto(Written(run), "retest"))
  \/ Fails("rewrite", AfterTest)

Retest ==
  \/ Skip("retest", AfterTest)
  \/ Fails("retest", AfterTest)
  \/ Fails("retest", "end")

CheckPath ==
  \/ Skip("path", "end")
  \/ /\ run.mem.writes < 2
     /\ Fault("path", Goto(run, "path_rewrite"))
  \/ /\ run.mem.writes >= 2
     /\ Fails("path", "end")

PathRewrite ==
  \/ Do("path_rewrite", sys, Goto(Written(run), "path_retest"))
  \/ Fails("path_rewrite", "end")

PathRetest ==
  \/ Skip("path_retest", "end")
  \/ Fails("path_retest", "end")
-----------------------------------------------------------------------------
NewRelease == Event([sys EXCEPT !.version = IF @ = "none" THEN "none" ELSE "old"])
PortOpened == Event([sys EXCEPT !.reach = TRUE])
NewAddress == Event([sys EXCEPT !.share = FALSE])

\* the panel is taken off the machine, or its data is lost
PanelLost ==
  Event([NoPanel EXCEPT !.entry = sys.entry, !.profile = sys.profile,
           !.remote = sys.remote, !.reach = sys.reach])

Reboot == Event(IF sys.enabled /\ sys.version # "none" THEN Restarted(sys)
                ELSE [sys EXCEPT !.active = FALSE])
-----------------------------------------------------------------------------
Step ==
  \/ AskRelease \/ FreePort \/ Download \/ Install \/ AwaitActive \/ Rotate \/ RotateEnv
  \/ RotateRestart \/ ConvergePort \/ PortRestart \/ LookAtCertificate \/ IssueTrusted
  \/ MakeSelfSigned \/ RestartWithCert \/ SyncEnv \/ StoreCredentials \/ SetPaths
  \/ EnsureInbound \/ SetShareAddress \/ OpenVault \/ EnsureClient \/ StoreProfile
  \/ EnsureProxy \/ WritePolicy \/ TestRoutes \/ Rewrite \/ Retest \/ CheckPath
  \/ PathRewrite \/ PathRetest

Next == Step \/ StartTask \/ Kill \/ NewRelease \/ PortOpened \/ NewAddress
        \/ PanelLost \/ Reboot

Spec == Init /\ [][Next]_frame /\ WF_frame(Step)
-----------------------------------------------------------------------------
Labels == {"release", "free", "download", "install", "active", "rotate", "rotate_env",
           "rotate_restart", "port", "port_restart", "ssl", "acme", "openssl",
           "ssl_restart", "sync", "login", "paths", "inbound", "share", "vault", "client",
           "profile", "proxy", "policy", "test", "rewrite", "retest", "path",
           "path_rewrite", "path_retest"}

(* The values of the variables (values/three_x_ui_xray_setup.py).          *)
PanelType ==
  /\ RunType(Labels, [had : BOOLEAN, ssl : BOOLEAN, open : BOOLEAN, id : Draws,
                      addressed : BOOLEAN, writes : 0..3])
  /\ sys.version \in {"none", "old", "new"}
  /\ sys.db \in [port : {"other", "target"}, gen : Draws, cert : {"none", "self", "trusted"}]
  /\ sys.live \in [port : {"other", "target"}, gen : Draws, tls : BOOLEAN]
  /\ sys.env \in [port : {"none", "other", "target"}, gen : Draws]
  /\ sys.inbound \in {"none", "bare", "keyed"} /\ sys.clients \subseteq Draws
  /\ sys.profile \in [id : Draws, keys : Draws, addressed : BOOLEAN]

(* A plain done result means that the newest panel serves HTTPS where the  *)
(* file says, that the file and the vault carry the credentials it accepts *)
(* and that the stored profile names a client it serves with the keys it   *)
(* uses.  The port itself is not part of it: a port that cannot be read    *)
(* and a file that cannot be written are both passed over in silence.      *)
PanelTarget ==
  /\ sys.version = "new" /\ sys.enabled /\ Answers
  /\ sys.db.cert # "none" /\ sys.env.gen = sys.db.gen
  /\ sys.entry = Credentials /\ sys.paths
  /\ sys.profile.id \in sys.clients /\ sys.profile.keys = sys.keys
  /\ sys.share /\ sys.profile.addressed /\ sys.proxy /\ sys.policy
PanelCleanTask == CleanRunReaches(PanelTarget)

(* What was handed out stays valid: no run, forced or not, replaces the    *)
(* stored client identity or the key pair of the inbound, nor takes a      *)
(* client off it (docs/spec/3x-ui.md, Stage 5).                            *)
Handed ==
  ~AtRest => /\ sys.profile.id # 0 => sys'.profile.id = sys.profile.id
             /\ sys.inbound = "keyed" => sys'.keys = sys.keys
             /\ sys.clients \subseteq sys'.clients

HandedKept == [][Handed]_frame

(* The inbound never serves two clients, whichever runs were cut off and   *)
(* however often the panel lost its data, as long as every call of every   *)
(* run succeeded.                                                          *)
OneClient == \A one, other \in sys.clients : one = other
OneClientWithoutFaults == left.faults = MaxFaults => OneClient

(* A run writes the routing template at most twice (Idempotency).          *)
TwoWrites == run.mem.writes <= 2

(* A forced run whose calls all succeed brings back a panel that a killed  *)
(* rotation or a failed restart left with credentials nobody knows or with *)
(* a listener older than its settings.                                     *)
ForcedRunRepairsPanel ==
  run.force /\ run.mem.had => FaultFreeRunReaches(PanelTarget /\ sys.db.port = "target")

(* With ssl enabled the panel is never left on plain HTTP: the run reports *)
(* it at least, and a trusted certificate that cannot be obtained leaves   *)
(* the self-signed one in place.                                           *)
NeverPlainHttp == run.pc = "end" /\ ~run.hurt /\ sys.active => sys.db.cert # "none"

(* After a clean run the next one finds nothing to do, unless the first    *)
(* one passed over both the port and the file.                             *)
PanelRerunChangesNothing == left.faults + 1 >= MaxFaults => RerunChangesNothing
=============================================================================

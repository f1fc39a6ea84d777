------------------------------- MODULE Releases -------------------------------
(***************************************************************************)
(* Programs the machine takes from their newest release.  ventoy_install   *)
(* and scrcpy_setup unpack every release into a directory of its own and   *)
(* then switch a link; scrcpy falls back to the archive of the             *)
(* distribution.  telegram_setup copies over the files in place and takes  *)
(* the name of the cached archive for the record of what is installed.     *)
(***************************************************************************)
EXTENDS TaskRun

CONSTANT MaxRelease         \* bound: how many releases are published

Versions == 1..MaxRelease
None     == 0

\* what one run remembers: the release it wants, whether a whole client was
\* there when it began, and how often the archive was fetched
Fresh == [want |-> None, whole |-> FALSE, tries |-> 0]

Init ==
  /\ \E kind \in {"ventoy", "scrcpy", "telegram"}, keep \in BOOLEAN :
       sys = [kind |-> kind, keep |-> keep,   \* downloads outlive their task
              latest |-> 1,
              cache |-> {},                   \* complete archives
              trees |-> {},                   \* unpacked releases
              link |-> None,                  \* the release the link names
              binary |-> "none",              \* telegram: what the files in place are
              version |-> None,               \* ... and of which release
              apt |-> FALSE,                  \* the fallback of the distribution
              rules |-> FALSE,                \* the device rules of scrcpy
              entry |-> "none"]               \* what the menu starts
  /\ run = NoRun(Fresh)
  /\ left = Budget

Telegram == sys.kind = "telegram"
Scrcpy   == sys.kind = "scrcpy"
Want     == run.mem.want
Whole(machine) == machine.link \in machine.trees
Fallen   == "fallback"

\* where a run goes on that could not install the release
Without == IF Scrcpy THEN Fallen ELSE "entry"
-----------------------------------------------------------------------------
StartTask == \E force \in BOOLEAN : Begin("query", force, [Fresh EXCEPT !.whole = Whole(sys)])

\* the record of telegram is the archive in the cache
Latest ==
  IF Telegram THEN sys.latest \in sys.cache /\ sys.binary # "none" /\ sys.entry # "none"
  ELSE Whole(sys) /\ sys.link = sys.latest

Query ==
  LET r == Recall(run, [run.mem EXCEPT !.want = sys.latest]) IN
  \/ /\ Latest /\ ~run.force
     /\ Do("query", sys, Goto(r, IF Scrcpy THEN "rules" ELSE "entry"))
  \/ /\ ~Latest \/ run.force
     /\ Do("query", sys, Goto(r, IF Telegram /\ sys.latest \in sys.cache THEN "install" ELSE "fetch"))
  \/ Fault("query", IF Scrcpy THEN Goto(run, Fallen)
                    ELSE Goto(Warned(run), IF Telegram \/ run.mem.whole THEN "entry" ELSE "end"))
  \/ /\ ~Telegram                                   \* the architecture is unknown
     /\ Fault("query", Goto(Warned(run), IF Scrcpy THEN Fallen ELSE "end"))

(* The download goes on where it broke off and is renamed when it is whole.*)
Fetch ==
  \/ Do("fetch", [sys EXCEPT !.cache = @ \cup {Want}],
        Goto(run, IF Telegram THEN "install" ELSE "unpack"))
  \/ Fault("fetch", Goto(IF Scrcpy THEN run ELSE Warned(run), Without))

\* scrcpy compares the published digest and fetches once more; ventoy asks
\* the unpacked tree who it is
Unpack ==
  \/ Do("unpack", sys, Goto(run, "place"))
  \/ /\ ~Scrcpy
     /\ Fault("unpack", Goto(Warned(run), Without))
  \/ /\ Scrcpy
     /\ Fault("unpack", Goto(run, Fallen))
  \/ /\ Scrcpy
     /\ IF run.mem.tries = 0
        THEN Fault("unpack", Goto(Recall(run, [run.mem EXCEPT !.tries = 1]), "fetch"))
        ELSE Fault("unpack", Goto(Warned(run), "rules"))

\* a mutant for UsersKeepWhatWorks: the older tree goes before the new one
\* was asked
PlaceAlone ==
  \/ Do("place", [sys EXCEPT !.trees = {Want}], Goto(run, IF Scrcpy THEN "probe" ELSE "switch"))
  \/ \E machine \in {sys, [sys EXCEPT !.trees = @ \ {Want}]} :
       FaultLeaving("place", machine, Goto(IF Scrcpy THEN run ELSE Warned(run), Without))

\* a tree of the same release is moved aside first
Place ==
  \/ Do("place", [sys EXCEPT !.trees = @ \cup {Want}],
        Goto(run, IF Scrcpy THEN "probe" ELSE "switch"))
  \/ \E machine \in {sys, [sys EXCEPT !.trees = @ \ {Want}]} :
       FaultLeaving("place", machine, Goto(IF Scrcpy THEN run ELSE Warned(run), Without))

\* scrcpy asks the client in its place, and takes it away when it is silent
Probe ==
  \/ Do("probe", sys, Goto(run, "switch"))
  \/ FaultLeaving("probe", [sys EXCEPT !.trees = @ \ {Want}], Goto(run, Fallen))

SwitchLink ==
  \/ Do("switch", [sys EXCEPT !.link = Want,
                     !.trees = IF Scrcpy /\ sys.link # Want THEN @ \ {sys.link} ELSE @,
                     !.entry = IF Scrcpy /\ sys.link # Want THEN "none" ELSE @],
        Goto(Changed(run), "discard"))
  \/ Fault("switch", Goto(IF Scrcpy THEN run ELSE Warned(run), Without))

(* telegram: two files are copied over the ones in place where they differ.*)
OpenBinary ==
  \/ /\ sys.binary \in {"part", "whole"} /\ sys.version = Want
     /\ Do("install", sys, Goto(run, "updater"))
  \/ /\ sys.binary \in {"none", "torn"} \/ sys.version # Want
     /\ Do("install", [sys EXCEPT !.binary = "torn", !.version = Want], Goto(run, "copy"))
  \/ Fault("install", Goto(Warned(run), "entry"))

CopyBinary ==
  \/ Do("copy", [sys EXCEPT !.binary = "part"], Goto(run, "updater"))
  \/ Fault("copy", Goto(Warned(run), "entry"))

CopyUpdater ==
  \/ Do("updater", [sys EXCEPT !.binary = "whole"], Goto(Changed(run), "discard"))
  \/ Fault("updater", Goto(Warned(run), "entry"))

\* the downloads go when they have served, and telegram drops older ones
DiscardDownloads ==
  LET next    == IF Scrcpy THEN "rules" ELSE "entry"
      current == IF Telegram THEN sys.cache \cap {Want} ELSE sys.cache
  IN \/ Do("discard", [sys EXCEPT !.cache = IF sys.keep THEN current ELSE {}], Goto(run, next))
     \/ /\ ~sys.keep
        /\ FaultLeaving("discard", [sys EXCEPT !.cache = current], Goto(Warned(run), next))

(* No release for scrcpy: a client that was whole when the run began is    *)
(* kept, else the distribution's is installed, which is no warning.        *)
FallBack ==
  \/ /\ run.mem.whole
     /\ Do("fallback", sys, Goto(Warned(run), "rules"))
  \/ /\ ~run.mem.whole
     /\ Do("fallback", [sys EXCEPT !.apt = TRUE], Goto(Noted(run, ~sys.apt), "rules"))
  \/ /\ ~run.mem.whole
     /\ Fault("fallback", Goto(Warned(run), "rules"))

InstallRules ==
  \/ Do("rules", [sys EXCEPT !.rules = TRUE], Goto(Noted(run, ~sys.rules), "entry"))
  \/ /\ ~sys.rules
     /\ Fault("rules", Goto(Warned(run), "entry"))

\* there is something the menu can start; telegram does not ask
Startable == Telegram \/ Whole(sys) \/ (Scrcpy /\ sys.apt)
Starts    == IF Telegram \/ Whole(sys) THEN "release" ELSE "apt"

WriteEntry ==
  \/ /\ ~Startable
     /\ Do("entry", sys, Goto(Warned(run), "end"))
  \/ /\ Startable
     /\ Do("entry", [sys EXCEPT !.entry = Starts], Goto(Noted(run, sys.entry # Starts), "end"))
  \/ /\ Startable
     /\ Fault("entry", Goto(Warned(run), "end"))
-----------------------------------------------------------------------------
Publish ==
  /\ sys.latest < MaxRelease
  /\ Event([sys EXCEPT !.latest = @ + 1])

\* the client of telegram replaces its own files
SelfUpdate ==
  /\ Telegram /\ sys.binary = "whole" /\ sys.version # sys.latest
  /\ Event([sys EXCEPT !.version = sys.latest])

\* somebody removes a file of the unpacked release
TreeDamaged ==
  /\ Whole(sys) /\ ~Telegram
  /\ Event([sys EXCEPT !.trees = @ \ {sys.link}])
-----------------------------------------------------------------------------
Step ==
  \/ Query \/ Fetch \/ Unpack \/ Place \/ Probe \/ SwitchLink \/ OpenBinary \/ CopyBinary \/ CopyUpdater
  \/ DiscardDownloads \/ FallBack \/ InstallRules \/ WriteEntry

Next == Step \/ StartTask \/ Kill \/ Publish \/ SelfUpdate \/ TreeDamaged

Spec == Init /\ [][Next]_frame /\ WF_frame(Step)
-----------------------------------------------------------------------------
Labels == {"query", "fetch", "unpack", "place", "probe", "switch", "install", "copy", "updater",
           "discard", "fallback", "rules", "entry"}

(* The values of the variables (values of the three sections).             *)
ReleasesType ==
  /\ RunType(Labels, [want : Versions \cup {None}, whole : BOOLEAN, tries : 0..1])
  /\ sys \in [kind : {"ventoy", "scrcpy", "telegram"}, keep : BOOLEAN, latest : Versions,
              cache : SUBSET Versions, trees : SUBSET Versions, link : Versions \cup {None},
              binary : {"none", "part", "torn", "whole"}, version : Versions \cup {None},
              apt : BOOLEAN, rules : BOOLEAN, entry : {"none", "release", "apt"}]

\* what a release that is in place for the user looks like
InPlace ==
  /\ sys.entry = "release"
  /\ IF Telegram THEN sys.binary = "whole" /\ sys.version = sys.latest
     ELSE Whole(sys) /\ sys.link = sys.latest

(* A plain done result means that the menu starts a whole client of the    *)
(* newest release, or for scrcpy the client of the distribution; for       *)
(* telegram, whose record says less, as long as no call failed and no run  *)
(* was cut off.                                                            *)
ReleaseCleanTask ==
  (Telegram => left.faults = MaxFaults /\ left.kills = MaxKills)
    => CleanRunReaches(InPlace \/ (Scrcpy /\ sys.entry = "apt"))

(* A run whose own calls succeed ends with the newest release in place,    *)
(* whatever earlier runs left: half unpacked trees, a link to nothing; in  *)
(* telegram's case a forced one, which does not look at the record.        *)
ReleaseRepairs == (Telegram => run.force) => FaultFreeRunReaches(InPlace)

(* An unforced run that finds a usable client never takes it away, at none *)
(* of its steps: a new release is unpacked and asked before the link moves.*)
ClientStays ==
  ~Telegram /\ ~AtRest /\ ~run.force /\ run.mem.whole => Whole(sys)

(* docs/spec/telegram-setup.md: a rerun that finds the current archive     *)
(* changes nothing.  It holds for the other two, and for telegram only     *)
(* where downloads are kept: by default the record is deleted right after  *)
(* the installation it records.  A client of the distribution gives way to *)
(* the release as soon as that can be had.                                 *)
ReleaseRerun == ~sys.apt /\ (Telegram => sys.keep) => RerunChangesNothing
TelegramRerun == Telegram => RerunChangesNothing
=============================================================================

----------------------------- MODULE Bootstrap -----------------------------
(***************************************************************************)
(* inst.sh: from a fresh machine to the engine.  The runtime packages, uv, *)
(* the clone of the repository, its Python environment and the choice of   *)
(* the vault.  The script stops at the first command that fails (set -e),  *)
(* so what a run left half done is all the next run has to go by.          *)
(***************************************************************************)
EXTENDS TaskRun

CONSTANTS
  Repos,        \* addresses the code may come from (PYNTARA_REPO_URL)
  Branches      \* branches of either (PYNTARA_REPO_BRANCH)

NoCode == [repo |-> "none", branch |-> "none", rev |-> 0]

\* a directory without .git, a clone git has not finished, one that is whole
Clones == {"none", "bare", "torn", "whole"}

Fresh == [repo |-> "none", branch |-> "none", half |-> FALSE, source |-> "none",
          started |-> NoCode]

Init ==
  /\ sys = [packages |-> "none",      \* what dpkg -s knows of the runtime packages
            half |-> FALSE,           \* an operation of dpkg was cut off
            uv |-> FALSE,
            clone |-> "none",
            origin |-> NoCode,        \* what the clone fetches
            tree |-> NoCode,          \* what its files are
            env |-> NoCode,           \* what the environment was made for
            head |-> 1]               \* the newest revision
  /\ run = NoRun(Fresh)
  /\ left = Budget

Mem(r, field, value) == Recall(r, [r.mem EXCEPT ![field] = value])
Stops == Goto(Warned(run), "end")     \* set -e: the exit code is not zero
Wanted == [repo |-> run.mem.repo, branch |-> run.mem.branch, rev |-> sys.head]
-----------------------------------------------------------------------------
StartTask == \E repo \in Repos, branch \in Branches :
  Begin("packages", FALSE,
        [Fresh EXCEPT !.repo = repo, !.branch = branch, !.half = sys.half])

\* a package that was unpacked and not configured counts as installed
LookAtPackages ==
  Do("packages", sys, Goto(run, IF sys.packages = "all" THEN "uv" ELSE "index"))

\* an index that cannot be refreshed is not a reason to stop
RefreshIndex == Do("index", sys, Goto(run, "install")) \/ Fault("index", Goto(run, "install"))

\* apt finishes what was cut off or refuses to work at all
BeginInstall ==
  \/ \E known \in {"some", "all"} :
       Do("install", [sys EXCEPT !.packages = known, !.half = TRUE], Goto(run, "configure"))
  \/ sys.half /\ Do("install", sys, Stops)
  \/ Fault("install", Stops)

FinishInstall ==
  \/ Do("configure", [sys EXCEPT !.packages = "all", !.half = FALSE], Goto(run, "uv"))
  \/ Fault("configure", Stops)

\* the directory of uv may or may not be on the PATH of root
LookForUv ==
  \/ sys.uv /\ Do("uv", sys, Goto(run, "source"))
  \/ Do("uv", sys, Goto(run, "uv_script"))

DownloadUv == Do("uv_script", sys, Goto(run, "uv_install")) \/ Fault("uv_script", Stops)

InstallUv ==
  \/ Do("uv_install", [sys EXCEPT !.uv = TRUE], Goto(run, "source"))
  \/ Fault("uv_install", Stops)
-----------------------------------------------------------------------------
(* The source.  A clone that cannot be brought up to date is removed and   *)
(* made again, whatever the reason was.                                    *)

LookAtSource ==
  Do("source", sys, Goto(run, CASE sys.clone = "none" -> "clone"
                                [] sys.clone = "bare" -> "remove"
                                [] OTHER -> "fetch"))

\* a clone that was cut off may have all git needs to go on with it
FetchSource ==
  \/ Do("fetch", [sys EXCEPT !.clone = "whole"], Goto(run, "reset"))
  \/ sys.clone = "torn" /\ Do("fetch", sys, Goto(run, "remove"))
  \/ Fault("fetch", Goto(run, "remove"))

\* a shallow clone follows one branch and knows no other
ResetSource ==
  \/ /\ sys.origin.branch = run.mem.branch
     /\ Do("reset", [sys EXCEPT !.tree = [sys.origin EXCEPT !.rev = sys.head]],
           Goto(run, "lock"))
  \/ /\ sys.origin.branch # run.mem.branch
     /\ Do("reset", sys, Goto(run, "remove"))
  \/ Fault("reset", Goto(run, "remove"))

\* rm -rf takes the entries of the directory in any order
RemoveSource ==
  \/ \E rest \in {"bare", "torn"} :
       Do("remove", [sys EXCEPT !.clone = rest, !.tree = NoCode, !.env = NoCode],
          Goto(run, "removed"))
  \/ Fault("remove", Stops)

RemovedSource ==
  \/ Do("removed", [sys EXCEPT !.clone = "none"], Goto(run, "clone"))
  \/ Fault("removed", Stops)

BeginClone ==
  \/ Do("clone", [sys EXCEPT !.clone = "torn", !.origin = Wanted], Goto(run, "checkout"))
  \/ Fault("clone", Stops)

\* git removes what it made when it fails itself
FinishClone ==
  \/ Do("checkout", [sys EXCEPT !.clone = "whole", !.tree = Wanted], Goto(run, "lock"))
  \/ FaultLeaving("checkout", [sys EXCEPT !.clone = "none", !.origin = NoCode], Stops)
-----------------------------------------------------------------------------
(* The environment, the vault and the engine.                              *)

\* either answer leads to a sync, with --locked or without
CheckLock == Do("lock", sys, Goto(run, "sync")) \/ Fault("lock", Goto(run, "sync"))

SyncPython ==
  \/ Do("sync", [sys EXCEPT !.env = sys.tree], Goto(run, "vault"))
  \/ FaultLeaving("sync", [sys EXCEPT !.env = NoCode], Stops)

(* A source that is given is taken at its word, a password that opens the  *)
(* production vault means that one.  Any other password, none, and a check *)
(* that could not be made mean the published vault.                        *)
ResolveVault ==
  \/ \E given \in {"production", "default"} :
       Do("vault", sys, Goto(Mem(run, "source", given), "engine"))
  \/ Do("vault", sys, Goto(run, "fallback"))
  \/ Fault("vault", Goto(run, "fallback"))

\* without the file of the published password no vault can be opened
FallBack ==
  \/ Do("fallback", sys, Goto(Mem(run, "source", "default"), "engine"))
  \/ Fault("fallback", Stops)

\* the engine reports the default vault as a warning of the run
RunEngine ==
  LET ran == Mem(run, "started", sys.tree)
  IN \/ Do("engine", sys,
           Goto(IF run.mem.source = "default" THEN Warned(ran) ELSE ran, "end"))
     \/ Fault("engine", Goto(Warned(ran), "end"))

Publish == Event([sys EXCEPT !.head = @ + 1])

Step ==
  \/ LookAtPackages \/ RefreshIndex \/ BeginInstall \/ FinishInstall \/ LookForUv
  \/ DownloadUv \/ InstallUv \/ LookAtSource \/ FetchSource \/ ResetSource
  \/ RemoveSource \/ RemovedSource \/ BeginClone \/ FinishClone \/ CheckLock
  \/ SyncPython \/ ResolveVault \/ FallBack \/ RunEngine

Next == Step \/ StartTask \/ Kill \/ Publish

Spec == Init /\ [][Next]_frame /\ WF_frame(Step)
-----------------------------------------------------------------------------
Labels == {"packages", "index", "install", "configure", "uv", "uv_script", "uv_install",
           "source", "fetch", "reset", "remove", "removed", "clone", "checkout", "lock",
           "sync", "vault", "fallback", "engine"}

Codes == [repo : Repos \cup {"none"}, branch : Branches \cup {"none"}, rev : 0..(MaxEvents + 1)]
Answers == {"none", "production", "default"}

(* The values of the variables (inst.sh).                                  *)
BootstrapType ==
  /\ RunType(Labels, [repo : Repos \cup {"none"}, branch : Branches \cup {"none"},
                      half : BOOLEAN, source : Answers, started : Codes])
  /\ sys \in [packages : {"none", "some", "all"}, half : BOOLEAN, uv : BOOLEAN,
              clone : Clones, origin : Codes, tree : Codes, env : Codes,
              head : 1..(MaxEvents + 1)]

\* the engine of this run was the newest revision of the wanted branch, whole
\* and with the environment made for it
NewestRan ==
  /\ run.mem.started.branch = run.mem.branch
  /\ run.mem.started.rev = sys.head
  /\ sys.clone = "whole" /\ sys.env = run.mem.started

(* Exit code 0 means that the engine ran, from the newest revision of the  *)
(* branch and with a vault that is not the published one, whatever an      *)
(* earlier run left of the packages, the clone and the environment         *)
(* (docs/contracts/bootstrap.md).                                          *)
BootCleanTask == CleanRunReaches(NewestRan /\ run.mem.source = "production")

(* A run whose own commands succeed gets to the engine, from any clone     *)
(* that was cut off or half removed; only an operation of dpkg that was    *)
(* cut off can stop it, which the installer never repairs.                 *)
BootRepairs == ~run.mem.half => FaultFreeRunReaches(NewestRan)

(* An exported address selects the code (pyntara.sh, 8-12): the clone of   *)
(* another address is fetched again instead.  Not so; see the README.      *)
CodeIsOfTheAddress ==
  run.pc = "end" /\ run.mem.started # NoCode => run.mem.started.repo = run.mem.repo
=============================================================================

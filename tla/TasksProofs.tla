------------------------------ MODULE TasksProofs ------------------------------
(* Proofs about Provisioning: the sections it adds to those of Sections, and *)
(* the promises that join the sections.                                      *)
EXTENDS Provisioning, SectionsProofs
-----------------------------------------------------------------------------
(*****************************************************************************)
(* The hidden services: an identity is replaced by force only, and the saved *)
(* address is that of the identity.                                          *)
(*****************************************************************************)
HiddenPlaces == Hidden!Labels \cup {"idle", "end"}
HiddenMachines ==
  [daemon : Hidden!Daemons, package : {"none", "old", "new"}, file : SUBSET Hidden!Pieces,
   running : {"down", "plain", "target"}, enabled : BOOLEAN, identity : Hidden!Identity,
   drawn : Hidden!Identity, saved : Hidden!Identity]
HiddenMems == [needs : BOOLEAN, wants : BOOLEAN, write : SUBSET Hidden!Pieces,
               address : Hidden!Identity, enabled : BOOLEAN, active : BOOLEAN,
               known : BOOLEAN, behind : BOOLEAN]
HiddenRuns == [pc : HiddenPlaces, force : BOOLEAN, warn : BOOLEAN, changed : BOOLEAN,
               hurt : BOOLEAN, settled : BOOLEAN, mem : HiddenMems]
HiddenTypes == sys \in HiddenMachines /\ run \in HiddenRuns /\ left \in Lefts

\* an identity that was there when an unforced run began is there while it works
HiddenKnownInv == ~run.force /\ run.mem.known /\ run.pc # "idle" => sys.identity # 0
HiddenInv == HiddenTypes /\ HiddenKnownInv /\ Hidden!TorAddressFollows

\* What a step may make of the run and of the machine, and what it has to have
\* done when it ends the run.
HiddenLike(r, to) ==
  r \in HiddenRuns /\ r.pc = to /\ r.force = run.force /\ r.mem.known = run.mem.known
HiddenKeeps(m) == m \in HiddenMachines /\ (m.identity = sys.identity \/ run.force)
HiddenSaved(m, r) ==
  m.daemon = "tor" /\ ~r.warn /\ ~run.force /\ run.mem.known => m.saved = m.identity

LEMMA HiddenPlaceNames ==
  /\ Hidden!Labels = {"install", "base", "check", "forget", "write", "verify", "dir",
       "enable",
                      "start", "address"}
  /\ HiddenPlaces = Hidden!Labels \cup {"idle", "end"}
  BY DEF HiddenPlaces, Hidden!Labels

LEMMA HiddenNumbers == MaxRuns \in Nat /\ 0 \in Hidden!Identity
  BY BoundsAreNumbers DEF Hidden!Identity

LEMMA HiddenValues ==
  ASSUME run \in HiddenRuns, NEW to \in HiddenPlaces
  PROVE  /\ HiddenLike(Hidden!Goto(run, to), to)
              /\ HiddenLike(Hidden!Goto(Hidden!Warned(run), to), to)
         /\ HiddenLike(Hidden!Goto(Hidden!Changed(run), to), to)
         /\ Hidden!Goto(run, to).warn = run.warn /\ Hidden!Goto(Hidden!Warned(run), to).warn
  BY DEF HiddenLike, HiddenRuns, Hidden!Goto, Hidden!Warned, Hidden!Changed

LEMMA HiddenMemValues ==
  ASSUME run \in HiddenRuns, NEW to \in HiddenPlaces, NEW mem \in HiddenMems,
         mem.known = run.mem.known
  PROVE  /\ HiddenLike(Hidden!Goto(Hidden!Recall(run, mem), to), to)
         /\ HiddenLike(Hidden!Warned(Hidden!Goto(Hidden!Recall(run, mem), to)), to)
         /\ HiddenLike(Hidden!Goto(Hidden!Changed(Hidden!Recall(run, mem)), to), to)
         /\ HiddenLike(Hidden!Recall(run, mem), run.pc)
         /\ HiddenLike(Hidden!Changed(Hidden!Recall(run, mem)), run.pc)
         /\ HiddenLike(Hidden!Warned(Hidden!Recall(run, mem)), run.pc)
  BY DEF HiddenLike, HiddenRuns, Hidden!Goto, Hidden!Warned, Hidden!Changed, Hidden!Recall

LEMMA HiddenDoes ==
  ASSUME HiddenInv, NEW from \in Hidden!Labels, NEW to \in HiddenPlaces \ {"idle"},
         NEW r, HiddenLike(r, to), NEW m, HiddenKeeps(m), to = "end" => HiddenSaved(m, r),
         Hidden!Do(from, m, r) \/ Hidden!FaultLeaving(from, m, r)
  PROVE  HiddenInv' /\ Hidden!IdentityStep
<1>1. run.pc = from /\ sys' = m /\ left' \in Lefts
  BY FaultSpends DEF HiddenInv, HiddenTypes, Hidden!Do, Hidden!FaultLeaving
<1>2. /\ run' \in HiddenRuns /\ run'.pc = to /\ run'.force = run.force
      /\ run'.mem.known = run.mem.known /\ run'.warn = r.warn
  <2>1. CASE Hidden!Do(from, m, r)
    BY <2>1 DEF Hidden!Do, HiddenLike
  <2>2. CASE Hidden!FaultLeaving(from, m, r)
    <3>1. run' = [r EXCEPT !.hurt = TRUE]
      BY <2>2 DEF Hidden!FaultLeaving
    <3> QED
      BY <3>1 DEF HiddenLike, HiddenRuns
  <2> QED
    BY <2>1, <2>2
<1>3. HiddenTypes'
  BY <1>1, <1>2 DEF HiddenTypes, HiddenKeeps
<1>4. run.pc # "idle" /\ ~Hidden!AtRest
  BY <1>1, HiddenPlaceNames DEF Hidden!AtRest
<1>5. HiddenKnownInv'
  BY <1>1, <1>2, <1>4 DEF HiddenInv, HiddenKnownInv, HiddenKeeps
<1>6. Hidden!TorAddressFollows'
  BY <1>1, <1>2 DEF HiddenSaved, Hidden!TorAddressFollows, Hidden!Tor
<1>7. Hidden!IdentityStep
  BY <1>1, <1>4 DEF HiddenKeeps, Hidden!IdentityStep
<1> QED
  BY <1>3, <1>5, <1>6, <1>7 DEF HiddenInv

LEMMA HiddenFaults ==
  ASSUME HiddenInv, NEW from \in Hidden!Labels, NEW to \in HiddenPlaces \ {"idle"},
         NEW r, HiddenLike(r, to), to = "end" => HiddenSaved(sys, r), Hidden!Fault(from, r)
  PROVE  HiddenInv' /\ Hidden!IdentityStep
<1>1. HiddenKeeps(sys)
  BY DEF HiddenInv, HiddenTypes, HiddenKeeps
<1> QED
  BY <1>1, HiddenDoes DEF Hidden!Fault

\* a step of the run that leaves the machine alone
LEMMA HiddenLooks ==
  ASSUME HiddenInv, NEW from \in Hidden!Labels, NEW to \in HiddenPlaces \ {"idle"},
         NEW r, HiddenLike(r, to), to = "end" => HiddenSaved(sys, r), Hidden!Do(from, sys, r)
  PROVE  HiddenInv' /\ Hidden!IdentityStep
<1>1. HiddenKeeps(sys)
  BY DEF HiddenInv, HiddenTypes, HiddenKeeps
<1> QED
  BY <1>1, HiddenDoes

LEMMA HiddenComesUp ==
  ASSUME NEW m \in HiddenMachines
  PROVE  Hidden!Up(m) \in HiddenMachines /\ Hidden!Up(m).identity = m.identity
  BY DEF Hidden!Up, HiddenMachines

LEMMA HiddenInstalls ==
  ASSUME sys \in HiddenMachines
  PROVE  Hidden!Installed(sys) \in HiddenMachines
           /\ Hidden!Installed(sys).identity = sys.identity
<1>1. /\ [sys EXCEPT !.package = "new", !.enabled = TRUE] \in HiddenMachines
      /\ [sys EXCEPT !.package = "new", !.enabled = TRUE].identity = sys.identity
  BY DEF HiddenMachines
<1> QED
  BY <1>1, HiddenComesUp DEF Hidden!Installed

LEMMA HiddenMemory ==
  ASSUME run.mem \in HiddenMems
  PROVE  /\ \A write \in SUBSET Hidden!Pieces :
              /\ [run.mem EXCEPT !["write"] = write] \in HiddenMems
              /\ [run.mem EXCEPT !["write"] = write].known = run.mem.known
  BY DEF HiddenMems

LEMMA HiddenInstallPackageKeeps ==
  HiddenInv /\ Hidden!InstallPackage => HiddenInv' /\ Hidden!IdentityStep
<1> SUFFICES ASSUME HiddenInv, Hidden!InstallPackage PROVE HiddenInv' /\ Hidden!IdentityStep
  OBVIOUS
<1>1. sys \in HiddenMachines /\ run \in HiddenRuns
  BY DEF HiddenInv, HiddenTypes
<1> DEFINE next == IF Hidden!Tor THEN "base" ELSE "write"
<1>2. next \in Hidden!Labels /\ next \in HiddenPlaces \ {"idle"} /\ next # "end"
  BY HiddenPlaceNames
<1>3. HiddenKeeps(Hidden!Installed(sys))
  BY <1>1, HiddenInstalls DEF HiddenKeeps
<1>4. \/ Hidden!Do("install", sys, Hidden!Goto(run, next))
      \/ Hidden!Do("install", Hidden!Installed(sys), Hidden!Goto(Hidden!Changed(run), next))
      \/ Hidden!Fault("install", Hidden!Goto(Hidden!Warned(run), next))
  BY DEF Hidden!InstallPackage
<1> HIDE DEF next
<1>5. CASE Hidden!Do("install", sys, Hidden!Goto(run, next))
  BY <1>1, <1>2, <1>5, HiddenValues, HiddenLooks, HiddenPlaceNames
<1>6. CASE Hidden!Do("install", Hidden!Installed(sys), Hidden!Goto(Hidden!Changed(run), next))
  BY <1>1, <1>2, <1>3, <1>6, HiddenValues, HiddenDoes, HiddenPlaceNames
<1>7. CASE Hidden!Fault("install", Hidden!Goto(Hidden!Warned(run), next))
  BY <1>1, <1>2, <1>7, HiddenValues, HiddenFaults, HiddenPlaceNames
<1> QED
  BY <1>4, <1>5, <1>6, <1>7

LEMMA HiddenEnsureTorrcIncludeKeeps ==
  HiddenInv /\ Hidden!EnsureTorrcInclude => HiddenInv' /\ Hidden!IdentityStep
<1> SUFFICES ASSUME HiddenInv, Hidden!EnsureTorrcInclude
             PROVE  HiddenInv' /\ Hidden!IdentityStep
  OBVIOUS
<1>1. sys \in HiddenMachines /\ run \in HiddenRuns /\ run.mem \in HiddenMems
  BY DEF HiddenInv, HiddenTypes, HiddenRuns
<1>2. HiddenKeeps([sys EXCEPT !.file = @ \cup {"base"}])
  BY <1>1 DEF HiddenKeeps, HiddenMachines, Hidden!Pieces
<1>3. {"base"} \in SUBSET Hidden!Pieces
  BY DEF Hidden!Pieces
<1>4. HiddenLike(Hidden!Goto(Hidden!Changed(Hidden!Mem(run, "write", {"base"})), "check"),
        "check")
  BY <1>1, <1>3, HiddenMemory, HiddenMemValues, HiddenPlaceNames DEF Hidden!Mem
<1>5. CASE Hidden!Do("base", sys, Hidden!Goto(run, "check"))
  BY <1>1, <1>5, HiddenValues, HiddenLooks, HiddenPlaceNames
<1>6. CASE Hidden!Do("base", [sys EXCEPT !.file = @ \cup {"base"}],
                     Hidden!Goto(Hidden!Changed(Hidden!Mem(run, "write", {"base"})), "check"))
  BY <1>2, <1>4, <1>6, HiddenDoes, HiddenPlaceNames
<1>7. CASE Hidden!Do("base", sys, Hidden!Goto(Hidden!Warned(run), "check"))
  BY <1>1, <1>7, HiddenValues, HiddenLooks, HiddenPlaceNames
<1>8. CASE Hidden!Fault("base", Hidden!Goto(Hidden!Warned(run), "check"))
  BY <1>1, <1>8, HiddenValues, HiddenFaults, HiddenPlaceNames
<1> QED
  BY <1>5, <1>6, <1>7, <1>8 DEF Hidden!EnsureTorrcInclude

\* what a run has seen, and what it makes of it
LEMMA HiddenSeen ==
  ASSUME HiddenInv, NEW seen \in HiddenMems, seen.known = run.mem.known,
         seen.address = sys.identity
  PROVE  \E to \in {"end", "write", "forget"} :
           /\ HiddenLike(Hidden!Look(seen), to)
                /\ HiddenLike(Hidden!Warned(Hidden!Look(seen)), to)
           /\ Hidden!Warned(Hidden!Look(seen)).warn
           /\ to = "end" => sys.saved = sys.identity
<1>1. run \in HiddenRuns
  BY DEF HiddenInv, HiddenTypes
<1>2. CASE Hidden!Reached(seen)
  <2>1. Hidden!Look(seen) = Hidden!Goto(run, "end") /\ sys.saved = sys.identity
    BY <1>2 DEF Hidden!Look, Hidden!Reached
  <2>2. HiddenLike(Hidden!Goto(run, "end"), "end")
          /\ HiddenLike(Hidden!Warned(Hidden!Goto(run, "end")), "end")
          /\ Hidden!Warned(Hidden!Goto(run, "end")).warn
    BY <1>1, HiddenPlaceNames
       DEF HiddenLike, HiddenRuns, Hidden!Goto, Hidden!Warned
  <2> QED
    BY <2>1, <2>2
<1>3. CASE ~Hidden!Reached(seen)
  <2> DEFINE to == IF Hidden!Tor THEN "write" ELSE "forget"
  <2>1. to \in {"write", "forget"}
    OBVIOUS
  <2>2. Hidden!Look(seen) = Hidden!Goto(Hidden!Recall(run, seen), to)
    BY <1>3 DEF Hidden!Look
  <2> HIDE DEF to
  <2>3. HiddenLike(Hidden!Goto(Hidden!Recall(run, seen), to), to)
          /\ HiddenLike(Hidden!Warned(Hidden!Goto(Hidden!Recall(run, seen), to)), to)
    BY <1>1, <2>1, HiddenMemValues, HiddenPlaceNames
  <2>4. Hidden!Warned(Hidden!Goto(Hidden!Recall(run, seen), to)).warn
    BY <1>1 DEF HiddenRuns, Hidden!Goto, Hidden!Warned, Hidden!Recall
  <2> QED
    BY <2>1, <2>2, <2>3, <2>4
<1> QED
  BY <1>2, <1>3

LEMMA HiddenCheckKeeps == HiddenInv /\ Hidden!Check => HiddenInv' /\ Hidden!IdentityStep
<1> SUFFICES ASSUME HiddenInv, Hidden!Check PROVE HiddenInv' /\ Hidden!IdentityStep
  OBVIOUS
<1>1. sys \in HiddenMachines /\ run.mem \in HiddenMems
  BY DEF HiddenInv, HiddenTypes, HiddenRuns
<1> DEFINE needs == Hidden!I2pd /\ sys.package # "new"
           write == run.mem.write \cup Hidden!Outdated
           wants == run.mem.write \cup Hidden!Outdated # {}
           active == sys.running # "down"
<1>2. write \in SUBSET Hidden!Pieces
  BY <1>1 DEF Hidden!Outdated, Hidden!Written, HiddenMems, Hidden!Pieces
<1>3. needs \in BOOLEAN /\ wants \in BOOLEAN /\ active \in BOOLEAN
  OBVIOUS
<1>4. Hidden!Snapshot = [run.mem EXCEPT !.needs = needs, !.write = write, !.wants = wants,
                                        !.address = sys.identity, !.enabled = sys.enabled,
                                        !.active = active]
  BY DEF Hidden!Snapshot
<1> HIDE DEF needs, write, wants, active
<1>5. /\ Hidden!Snapshot \in HiddenMems /\ Hidden!Snapshot.known = run.mem.known
      /\ Hidden!Snapshot.address = sys.identity
  BY ZenonT(60), <1>1, <1>2, <1>3, <1>4 DEF HiddenMems, HiddenMachines
<1>6. /\ Hidden!Unknown \in HiddenMems /\ Hidden!Unknown.known = run.mem.known
      /\ Hidden!Unknown.address = sys.identity
  BY <1>5 DEF Hidden!Unknown, HiddenMems, Hidden!Pieces
<1>7. CASE Hidden!Do("check", sys, Hidden!Look(Hidden!Snapshot))
  <2>1. PICK to \in {"end", "write", "forget"} :
          /\ HiddenLike(Hidden!Look(Hidden!Snapshot), to)
          /\ to = "end" => sys.saved = sys.identity
    BY <1>5, HiddenSeen
  <2> QED
    BY <1>7, <2>1, HiddenLooks, HiddenPlaceNames DEF HiddenSaved
<1>8. CASE Hidden!Fault("check", Hidden!Warned(Hidden!Look(Hidden!Unknown)))
  <2>1. PICK to \in {"end", "write", "forget"} :
          /\ HiddenLike(Hidden!Warned(Hidden!Look(Hidden!Unknown)), to)
          /\ Hidden!Warned(Hidden!Look(Hidden!Unknown)).warn
    BY <1>6, HiddenSeen
  <2> QED
    BY <1>8, <2>1, HiddenFaults, HiddenPlaceNames DEF HiddenSaved
<1> QED
  BY <1>7, <1>8 DEF Hidden!Check

\* only a forced run forgets the identity
LEMMA HiddenForgets ==
  ASSUME HiddenInv
  PROVE  HiddenKeeps(IF run.force THEN [sys EXCEPT !.identity = 0] ELSE sys)
<1>1. sys \in HiddenMachines
  BY DEF HiddenInv, HiddenTypes
<1>2. [sys EXCEPT !.identity = 0] \in HiddenMachines
  BY <1>1, HiddenNumbers DEF HiddenMachines
<1> QED
  BY <1>1, <1>2 DEF HiddenKeeps

LEMMA HiddenForgetTunnelKeeps ==
  HiddenInv /\ Hidden!ForgetTunnel => HiddenInv' /\ Hidden!IdentityStep
<1> SUFFICES ASSUME HiddenInv, Hidden!ForgetTunnel PROVE HiddenInv' /\ Hidden!IdentityStep
  OBVIOUS
<1>1. run \in HiddenRuns
  BY DEF HiddenInv, HiddenTypes
<1>2. CASE Hidden!Fault("forget", Hidden!Goto(Hidden!Warned(run), "install"))
  BY <1>1, <1>2, HiddenValues, HiddenFaults, HiddenPlaceNames
<1> DEFINE m == IF run.force THEN [sys EXCEPT !.identity = 0] ELSE sys
<1>3. \/ Hidden!Do("forget", m, Hidden!Goto(run, "install"))
      \/ Hidden!Fault("forget", Hidden!Goto(Hidden!Warned(run), "install"))
  BY DEF Hidden!ForgetTunnel
<1>4. HiddenKeeps(m)
  BY HiddenForgets
<1> HIDE DEF m
<1>5. CASE Hidden!Do("forget", m, Hidden!Goto(run, "install"))
  BY <1>1, <1>4, <1>5, HiddenValues, HiddenDoes, HiddenPlaceNames
<1> QED
  BY <1>2, <1>3, <1>5

LEMMA HiddenServiceDirKeeps ==
  HiddenInv /\ Hidden!HiddenServiceDir => HiddenInv' /\ Hidden!IdentityStep
<1> SUFFICES ASSUME HiddenInv, Hidden!HiddenServiceDir PROVE HiddenInv' /\ Hidden!IdentityStep
  OBVIOUS
<1>1. run \in HiddenRuns
  BY DEF HiddenInv, HiddenTypes
<1>2. CASE Hidden!Fault("dir", Hidden!Goto(Hidden!Warned(run), "enable"))
  BY <1>1, <1>2, HiddenValues, HiddenFaults, HiddenPlaceNames
<1> DEFINE m == IF run.force THEN [sys EXCEPT !.identity = 0] ELSE sys
<1>3. \/ Hidden!Do("dir", m, Hidden!Goto(run, "enable"))
      \/ Hidden!Fault("dir", Hidden!Goto(Hidden!Warned(run), "enable"))
  BY DEF Hidden!HiddenServiceDir
<1>4. HiddenKeeps(m)
  BY HiddenForgets
<1> HIDE DEF m
<1>5. CASE Hidden!Do("dir", m, Hidden!Goto(run, "enable"))
  BY <1>1, <1>4, <1>5, HiddenValues, HiddenDoes, HiddenPlaceNames
<1> QED
  BY <1>2, <1>3, <1>5

LEMMA HiddenWriteConfigKeeps ==
  HiddenInv /\ Hidden!WriteConfig => HiddenInv' /\ Hidden!IdentityStep
<1> SUFFICES ASSUME HiddenInv, Hidden!WriteConfig PROVE HiddenInv' /\ Hidden!IdentityStep
  OBVIOUS
<1>1. sys \in HiddenMachines /\ run \in HiddenRuns /\ run.mem \in HiddenMems
  BY DEF HiddenInv, HiddenTypes, HiddenRuns
<1>2. ASSUME NEW piece \in run.mem.write,
             \/ Hidden!Do("write", sys, Hidden!Mem(run, "write", run.mem.write \ {piece}))
             \/ Hidden!Do("write", [sys EXCEPT !.file = @ \cup {piece}],
                          Hidden!Changed(Hidden!Mem(run, "write", run.mem.write \ {piece})))
             \/ Hidden!FaultLeaving("write", [sys EXCEPT !.file = @ \ {piece}],
                          Hidden!Warned(Hidden!Mem(run, "write", run.mem.write \ {piece})))
      PROVE  HiddenInv' /\ Hidden!IdentityStep
  <2>1. run.pc = "write"
    BY <1>2 DEF Hidden!Do, Hidden!FaultLeaving
  <2>2. piece \in Hidden!Pieces /\ run.mem.write \ {piece} \in SUBSET Hidden!Pieces
    BY <1>1 DEF HiddenMems
  <2>3. /\ HiddenKeeps([sys EXCEPT !.file = @ \cup {piece}])
        /\ HiddenKeeps([sys EXCEPT !.file = @ \ {piece}])
    BY <1>1, <2>2 DEF HiddenKeeps, HiddenMachines
  <2> DEFINE r == Hidden!Mem(run, "write", run.mem.write \ {piece})
  <2>4. /\ HiddenLike(r, "write") /\ HiddenLike(Hidden!Changed(r), "write")
        /\ HiddenLike(Hidden!Warned(r), "write")
    BY <1>1, <2>1, <2>2, HiddenMemory, HiddenMemValues, HiddenPlaceNames DEF Hidden!Mem
  <2> HIDE DEF r
  <2>5. CASE Hidden!Do("write", sys, r)
    BY <2>4, <2>5, HiddenLooks, HiddenPlaceNames
  <2>6. CASE Hidden!Do("write", [sys EXCEPT !.file = @ \cup {piece}], Hidden!Changed(r))
    BY <2>3, <2>4, <2>6, HiddenDoes, HiddenPlaceNames
  <2>7. CASE Hidden!FaultLeaving("write", [sys EXCEPT !.file = @ \ {piece}], Hidden!Warned(r))
    BY <2>3, <2>4, <2>7, HiddenDoes, HiddenPlaceNames
  <2> QED
    BY <1>2, <2>5, <2>6, <2>7 DEF r
<1> DEFINE next == IF Hidden!Tor THEN "verify" ELSE "enable"
<1>3. next \in HiddenPlaces \ {"idle"} /\ next # "end"
  BY HiddenPlaceNames
<1>4. \/ Hidden!Do("write", sys, Hidden!Goto(run, next))
      \/ \E piece \in run.mem.write :
           \/ Hidden!Do("write", sys, Hidden!Mem(run, "write", run.mem.write \ {piece}))
           \/ Hidden!Do("write", [sys EXCEPT !.file = @ \cup {piece}],
                        Hidden!Changed(Hidden!Mem(run, "write", run.mem.write \ {piece})))
           \/ Hidden!FaultLeaving("write", [sys EXCEPT !.file = @ \ {piece}],
                        Hidden!Warned(Hidden!Mem(run, "write", run.mem.write \ {piece})))
  BY DEF Hidden!WriteConfig
<1> HIDE DEF next
<1>5. CASE Hidden!Do("write", sys, Hidden!Goto(run, next))
  BY <1>1, <1>3, <1>5, HiddenValues, HiddenLooks, HiddenPlaceNames
<1> QED
  BY <1>2, <1>4, <1>5

LEMMA HiddenVerifyConfigKeeps ==
  HiddenInv /\ Hidden!VerifyConfig => HiddenInv' /\ Hidden!IdentityStep
<1> SUFFICES ASSUME HiddenInv, Hidden!VerifyConfig PROVE HiddenInv' /\ Hidden!IdentityStep
  OBVIOUS
<1>1. run \in HiddenRuns
  BY DEF HiddenInv, HiddenTypes
<1>2. CASE Hidden!Do("verify", sys, Hidden!Goto(run, "dir"))
  BY <1>1, <1>2, HiddenValues, HiddenLooks, HiddenPlaceNames
<1>3. CASE Hidden!Fault("verify", Hidden!Goto(Hidden!Warned(run), "dir"))
  BY <1>1, <1>3, HiddenValues, HiddenFaults, HiddenPlaceNames
<1> QED
  BY <1>2, <1>3 DEF Hidden!VerifyConfig

LEMMA HiddenEnableServiceKeeps ==
  HiddenInv /\ Hidden!EnableService => HiddenInv' /\ Hidden!IdentityStep
<1> SUFFICES ASSUME HiddenInv, Hidden!EnableService PROVE HiddenInv' /\ Hidden!IdentityStep
  OBVIOUS
<1>1. sys \in HiddenMachines /\ run \in HiddenRuns
  BY DEF HiddenInv, HiddenTypes
<1>2. HiddenKeeps([sys EXCEPT !.enabled = TRUE])
  BY <1>1 DEF HiddenKeeps, HiddenMachines
<1>3. CASE Hidden!Do("enable", sys, Hidden!Goto(run, "start"))
  BY <1>1, <1>3, HiddenValues, HiddenLooks, HiddenPlaceNames
<1>4. CASE Hidden!Do("enable", [sys EXCEPT !.enabled = TRUE],
                     Hidden!Goto(Hidden!Changed(run), "start"))
  <2> DEFINE m == [sys EXCEPT !.enabled = TRUE]
             r == Hidden!Goto(Hidden!Changed(run), "start")
  <2>1. HiddenLike(r, "start")
    BY <1>1, HiddenValues, HiddenPlaceNames
  <2>2. Hidden!Do("enable", m, r) /\ HiddenKeeps(m)
    BY <1>2, <1>4
  <2> HIDE DEF m, r
  <2> QED
    BY <2>1, <2>2, HiddenDoes, HiddenPlaceNames
<1>5. CASE Hidden!Fault("enable", Hidden!Goto(Hidden!Warned(run), "start"))
  BY <1>1, <1>5, HiddenValues, HiddenFaults, HiddenPlaceNames
<1>6. CASE Hidden!Do("enable", sys, Hidden!Goto(Hidden!Warned(run), "start"))
  BY <1>1, <1>6, HiddenValues, HiddenLooks, HiddenPlaceNames
<1> QED
  BY <1>3, <1>4, <1>5, <1>6 DEF Hidden!EnableService

LEMMA HiddenStartServiceKeeps ==
  HiddenInv /\ Hidden!StartService => HiddenInv' /\ Hidden!IdentityStep
<1> SUFFICES ASSUME HiddenInv, Hidden!StartService PROVE HiddenInv' /\ Hidden!IdentityStep
  OBVIOUS
<1>1. sys \in HiddenMachines /\ run \in HiddenRuns
  BY DEF HiddenInv, HiddenTypes
<1> DEFINE m == IF Hidden!Again THEN sys ELSE Hidden!Up(sys)
<1>2. HiddenKeeps(m)
  BY <1>1, HiddenComesUp DEF HiddenKeeps
<1>3. \A state \in {"down", sys.running} : HiddenKeeps([sys EXCEPT !.running = state])
  BY <1>1 DEF HiddenKeeps, HiddenMachines
<1>4. \/ Hidden!Do("start", sys, Hidden!Goto(run, "address"))
      \/ Hidden!Do("start", m, Hidden!Goto(Hidden!Changed(run), "address"))
      \/ \E state \in {"down", sys.running} :
           Hidden!FaultLeaving("start", [sys EXCEPT !.running = state],
                               Hidden!Goto(Hidden!Warned(run), "address"))
      \/ Hidden!Do("start", sys, Hidden!Goto(Hidden!Warned(run), "address"))
  BY DEF Hidden!StartService
<1> HIDE DEF m
<1>5. CASE Hidden!Do("start", sys, Hidden!Goto(run, "address"))
  BY <1>1, <1>5, HiddenValues, HiddenLooks, HiddenPlaceNames
<1>6. CASE Hidden!Do("start", m, Hidden!Goto(Hidden!Changed(run), "address"))
  BY <1>1, <1>2, <1>6, HiddenValues, HiddenDoes, HiddenPlaceNames
<1>7. ASSUME NEW state \in {"down", sys.running},
             Hidden!FaultLeaving("start", [sys EXCEPT !.running = state],
                                 Hidden!Goto(Hidden!Warned(run), "address"))
      PROVE  HiddenInv' /\ Hidden!IdentityStep
  <2> DEFINE broken == [sys EXCEPT !.running = state]
  <2>1. HiddenKeeps(broken) /\ Hidden!FaultLeaving("start", broken,
                                                 Hidden!Goto(Hidden!Warned(run), "address"))
    BY <1>3, <1>7
  <2> HIDE DEF broken
  <2>2. HiddenLike(Hidden!Goto(Hidden!Warned(run), "address"), "address")
    BY <1>1, HiddenValues, HiddenPlaceNames
  <2> QED
    BY <2>1, <2>2, HiddenDoes, HiddenPlaceNames
<1>8. CASE Hidden!Do("start", sys, Hidden!Goto(Hidden!Warned(run), "address"))
  BY <1>1, <1>8, HiddenValues, HiddenLooks, HiddenPlaceNames
<1> QED
  BY <1>4, <1>5, <1>6, <1>7, <1>8

\* the address of the identity is saved, or the run says that it is not
LEMMA HiddenSaveAddressKeeps ==
  HiddenInv /\ Hidden!SaveAddress => HiddenInv' /\ Hidden!IdentityStep
<1> SUFFICES ASSUME HiddenInv, Hidden!SaveAddress PROVE HiddenInv' /\ Hidden!IdentityStep
  OBVIOUS
<1>1. sys \in HiddenMachines /\ run \in HiddenRuns /\ HiddenKnownInv
  BY DEF HiddenInv, HiddenTypes
<1> DEFINE m == [sys EXCEPT !.saved = sys.identity]
           changed == sys.saved # sys.identity
<1>2. HiddenKeeps(m) /\ m.saved = m.identity
  BY <1>1 DEF HiddenKeeps, HiddenMachines
<1>3. HiddenKeeps([sys EXCEPT !.saved = 0])
  BY <1>1, HiddenNumbers DEF HiddenKeeps, HiddenMachines
<1>4. changed \in BOOLEAN
  OBVIOUS
<1> HIDE DEF m, changed
<1>5. HiddenLike(Hidden!Goto(Hidden!Noted(run, changed), "end"), "end")
  BY <1>1, <1>4, HiddenPlaceNames DEF HiddenLike, HiddenRuns, Hidden!Goto, Hidden!Noted
<1>6. CASE Hidden!Do("address", m, Hidden!Goto(Hidden!Noted(run, changed), "end"))
  BY <1>2, <1>5, <1>6, HiddenDoes, HiddenPlaceNames DEF HiddenSaved
<1>7. CASE Hidden!FaultLeaving("address", [sys EXCEPT !.saved = 0],
                               Hidden!Goto(Hidden!Warned(run), "end"))
  <2> DEFINE cut == [sys EXCEPT !.saved = 0]
             r == Hidden!Goto(Hidden!Warned(run), "end")
  <2>1. HiddenLike(r, "end") /\ r.warn
    BY <1>1, HiddenValues, HiddenPlaceNames
  <2>2. Hidden!FaultLeaving("address", cut, r) /\ HiddenKeeps(cut)
    BY <1>3, <1>7
  <2> HIDE DEF cut, r
  <2>3. HiddenSaved(cut, r)
    BY <2>1 DEF HiddenSaved
  <2>4. "address" \in Hidden!Labels /\ "end" \in HiddenPlaces \ {"idle"}
    BY HiddenPlaceNames
  <2> QED
    BY <2>1, <2>2, <2>3, <2>4, HiddenDoes
<1>8. ASSUME sys.identity = 0,
             \/ Hidden!Do("address", sys, Hidden!Goto(run, "end"))
             \/ Hidden!Do("address", sys, Hidden!Goto(Hidden!Warned(run), "end"))
      PROVE  HiddenInv' /\ Hidden!IdentityStep
  <2>1. run.pc # "idle"
    BY <1>8 DEF Hidden!Do
  <2>2. \A r : HiddenSaved(sys, r)
    BY <1>1, <1>8, <2>1 DEF HiddenKnownInv, HiddenSaved
  <2> QED
    BY <1>1, <1>8, <2>2, HiddenValues, HiddenLooks, HiddenPlaceNames
<1> QED
  BY <1>6, <1>7, <1>8 DEF Hidden!SaveAddress, m, changed
-----------------------------------------------------------------------------
LEMMA HiddenStartTaskKeeps ==
  HiddenInv /\ Hidden!StartTask => HiddenInv' /\ Hidden!IdentityStep
<1> DEFINE known == sys.identity # 0
           behind == sys.saved # sys.identity
           label == IF Hidden!Tor THEN "install" ELSE "check"
           mem == [Hidden!Fresh EXCEPT !.known = known, !.behind = behind]
<1> SUFFICES ASSUME HiddenInv, NEW force \in BOOLEAN, Hidden!Begin(label, force, mem)
             PROVE  HiddenInv' /\ Hidden!IdentityStep
  BY DEF Hidden!StartTask
<1>1. known \in BOOLEAN /\ behind \in BOOLEAN /\ label \in {"install", "check"}
  OBVIOUS
<1>2. known <=> sys.identity # 0
  OBVIOUS
<1> HIDE DEF known, behind, label
<1>3. mem \in HiddenMems /\ (mem.known <=> known)
  BY <1>1, HiddenNumbers DEF Hidden!Fresh, HiddenMems
<1> HIDE DEF mem
<1>4. (run.pc = "end" /\ ~run.warn /\ ~run.force) \in BOOLEAN
  OBVIOUS
<1>5. run' \in HiddenRuns /\ run'.pc = label /\ run'.mem = mem
  BY <1>1, <1>3, <1>4, HiddenPlaceNames DEF Hidden!Begin, HiddenRuns
<1>6. sys' = sys /\ left' \in Lefts
  BY BeginSpends DEF Hidden!Begin, HiddenInv, HiddenTypes
<1> QED
  BY <1>1, <1>2, <1>3, <1>5, <1>6
     DEF HiddenInv, HiddenTypes, HiddenKnownInv, Hidden!TorAddressFollows, Hidden!IdentityStep

LEMMA HiddenRests ==
  ASSUME HiddenInv, sys' \in HiddenMachines, left' \in Lefts, run' = Hidden!NoRun(run.mem)
  PROVE  HiddenInv'
<1>1. run' \in HiddenRuns /\ run'.pc = "idle"
  BY HiddenPlaceNames DEF Hidden!NoRun, HiddenInv, HiddenTypes, HiddenRuns
<1> QED
  BY <1>1 DEF HiddenInv, HiddenTypes, HiddenKnownInv, Hidden!TorAddressFollows

LEMMA HiddenKillKeeps == HiddenInv /\ Hidden!Kill => HiddenInv' /\ Hidden!IdentityStep
  BY HiddenRests, KillSpends DEF Hidden!Kill, Hidden!IdentityStep, HiddenInv, HiddenTypes

\* the daemon draws an identity only where there is none
LEMMA HiddenGenerateKeeps == HiddenInv /\ Hidden!Generate => HiddenInv' /\ Hidden!IdentityStep
<1> SUFFICES ASSUME HiddenInv, Hidden!Generate PROVE HiddenInv' /\ Hidden!IdentityStep
  OBVIOUS
<1>1. sys \in HiddenMachines /\ sys.identity = 0 /\ run' = run /\ left' = left
  BY DEF HiddenInv, HiddenTypes, Hidden!Generate
<1>2. sys.drawn + 1 \in Hidden!Identity /\ sys.drawn + 1 # 0
  BY <1>1, HiddenNumbers DEF HiddenMachines, Hidden!Identity, Hidden!Generate
<1>3. sys' \in HiddenMachines /\ sys'.identity # 0 /\ sys'.daemon = sys.daemon
  BY <1>1, <1>2 DEF Hidden!Generate, HiddenMachines
<1>4. Hidden!TorAddressFollows'
  BY <1>1, <1>3 DEF HiddenInv, HiddenKnownInv, Hidden!TorAddressFollows
<1> QED
  BY <1>1, <1>3, <1>4 DEF HiddenInv, HiddenTypes, HiddenKnownInv, Hidden!IdentityStep

LEMMA HiddenEvents ==
  ASSUME HiddenInv, NEW m \in HiddenMachines, m.identity = sys.identity, Hidden!Event(m)
  PROVE  HiddenInv' /\ Hidden!IdentityStep
  BY HiddenRests, EventSpends DEF Hidden!Event, Hidden!IdentityStep, HiddenInv, HiddenTypes

LEMMA HiddenEventsKeep ==
  HiddenInv /\ (Hidden!Release \/ Hidden!Edited \/ Hidden!Reboot)
    => HiddenInv' /\ Hidden!IdentityStep
<1> SUFFICES ASSUME HiddenInv, Hidden!Release \/ Hidden!Edited \/ Hidden!Reboot
             PROVE  HiddenInv' /\ Hidden!IdentityStep
  OBVIOUS
<1>1. sys \in HiddenMachines
  BY DEF HiddenInv, HiddenTypes
<1>2. CASE Hidden!Release
  <2>1. /\ [sys EXCEPT !.package = "old"] \in HiddenMachines
        /\ [sys EXCEPT !.package = "old"].identity = sys.identity
    BY <1>1 DEF HiddenMachines
  <2> QED
    BY <1>2, <2>1, HiddenEvents DEF Hidden!Release
<1>3. CASE Hidden!Edited
  <2>1. PICK piece \in sys.file : Hidden!Event([sys EXCEPT !.file = @ \ {piece}])
    BY <1>3 DEF Hidden!Edited
  <2>2. /\ [sys EXCEPT !.file = @ \ {piece}] \in HiddenMachines
        /\ [sys EXCEPT !.file = @ \ {piece}].identity = sys.identity
    BY <1>1 DEF HiddenMachines
  <2> QED
    BY <2>1, <2>2, HiddenEvents
<1>4. CASE Hidden!Reboot
  <2> DEFINE m == IF sys.enabled /\ sys.package # "none" THEN Hidden!Up(sys)
                  ELSE [sys EXCEPT !.running = "down"]
  <2>1. /\ [sys EXCEPT !.running = "down"] \in HiddenMachines
        /\ [sys EXCEPT !.running = "down"].identity = sys.identity
    BY <1>1 DEF HiddenMachines
  <2>2. m \in HiddenMachines /\ m.identity = sys.identity
    BY <1>1, <2>1, HiddenComesUp
  <2>3. Hidden!Event(m)
    BY <1>4 DEF Hidden!Reboot
  <2> HIDE DEF m
  <2> QED
    BY <2>2, <2>3, HiddenEvents
<1> QED
  BY <1>2, <1>3, <1>4

LEMMA InitHidden == Hidden!Init => HiddenInv
<1> SUFFICES ASSUME Hidden!Init PROVE HiddenInv
  OBVIOUS
<1>1. sys \in HiddenMachines
  BY HiddenNumbers DEF Hidden!Init, HiddenMachines, Hidden!Daemons, Hidden!Pieces
<1>2. run \in HiddenRuns /\ run.pc = "idle"
  BY HiddenNumbers, HiddenPlaceNames
     DEF Hidden!Init, Hidden!NoRun, Hidden!Fresh, HiddenRuns, HiddenMems, Hidden!Pieces
<1>3. left \in Lefts
  BY BudgetIsLeft DEF Hidden!Init, Hidden!Budget
<1> QED
  BY <1>1, <1>2, <1>3 DEF HiddenInv, HiddenTypes, HiddenKnownInv, Hidden!TorAddressFollows

LEMMA NextHidden == HiddenInv /\ [Hidden!Next]_vars => HiddenInv' /\ Hidden!IdentityStep
<1> SUFFICES ASSUME HiddenInv, [Hidden!Next]_vars PROVE HiddenInv' /\ Hidden!IdentityStep
  OBVIOUS
<1>1. ASSUME UNCHANGED vars PROVE HiddenInv' /\ Hidden!IdentityStep
  BY <1>1 DEF vars, HiddenInv, HiddenTypes, HiddenKnownInv, Hidden!TorAddressFollows,
              Hidden!Tor, Hidden!IdentityStep
<1>2. ASSUME Hidden!Step PROVE HiddenInv' /\ Hidden!IdentityStep
  BY <1>2, HiddenInstallPackageKeeps, HiddenEnsureTorrcIncludeKeeps, HiddenCheckKeeps,
     HiddenForgetTunnelKeeps, HiddenWriteConfigKeeps, HiddenVerifyConfigKeeps,
     HiddenServiceDirKeeps, HiddenEnableServiceKeeps, HiddenStartServiceKeeps,
     HiddenSaveAddressKeeps DEF Hidden!Step
<1> QED
  BY <1>1, <1>2, HiddenStartTaskKeeps, HiddenKillKeeps, HiddenGenerateKeeps, HiddenEventsKeep
     DEF Hidden!Next

HiddenHolds == section = "hidden" => HiddenInv

\* The invariant of the hidden services holds in every behaviour.
THEOREM HiddenInvariant == Spec => []HiddenHolds
<1>1. Init => HiddenHolds
  BY InitHidden DEF Init, HiddenHolds
<1>2. HiddenHolds /\ [Next]_vars => HiddenHolds'
  BY NextHidden DEF Next, HiddenHolds, vars
<1> QED
  BY <1>1, <1>2, PTL DEF Spec
-----------------------------------------------------------------------------
(*****************************************************************************)
(* The node: its key is replaced by force only, and as long as no call       *)
(* failed and nothing was cut off the saved address is that of the key.      *)
(*****************************************************************************)
NodePlaces == Node!Labels \cup {"idle", "end"}
NodeMachines ==
  [package : {"none", "old", "new"}, pem : BOOLEAN, key : Node!Keys,
   conf : SUBSET {"package", "probe", "final"}, running : BOOLEAN, enabled : BOOLEAN,
   unmanaged : BOOLEAN, tun : BOOLEAN, file : BOOLEAN, saved : Node!Keys]
NodeMems == [needs : BOOLEAN, enabled : BOOLEAN, active : BOOLEAN, kept : BOOLEAN,
             batch : Nat]
NodeRuns == [pc : NodePlaces, force : BOOLEAN, warn : BOOLEAN, changed : BOOLEAN,
             hurt : BOOLEAN, settled : BOOLEAN, mem : NodeMems]
NodeTypes == sys \in NodeMachines /\ run \in NodeRuns /\ left \in Lefts

\* a key is in its file, the interface of a running node is its own, and a
\* configuration is kept by an unforced run that found everything in place
NodeKeyAt(m, r) ==
  /\ m.key # 0 => m.pem
  /\ m.running => ~m.tun
  /\ r.pc \in {"release", "check"} => ~r.mem.kept
  /\ r.mem.kept => m.pem /\ m.file /\ ~r.force
  /\ r.pc \in {"clean", "start", "wait"} => r.mem.kept

\* As long as no call failed and nothing was cut off: the key can be used, and
\* the saved address is that of the key, except between the step that draws a
\* key and the one that saves its address, which such a run always reaches.
NodeBeforeKey == {"idle", "end", "release", "check", "install", "key"}
NodeCurrentAt(m, r) ==
  /\ m.pem => m.key # 0
  /\ r.pc \notin NodeBeforeKey => m.pem
  /\ m.file /\ (r.pc \in NodeBeforeKey \/ r.mem.kept) => m.saved = m.key
  /\ r.pc \in {"start_probe", "start_final"} => ~m.tun
  /\ r.pc \in {"count", "live"} => m.running
  /\ r.pc = "end" /\ ~r.warn => m.file

NodeCalm == left.faults = MaxFaults /\ left.kills = MaxKills
NodeInv == NodeTypes /\ NodeKeyAt(sys, run) /\ (NodeCalm => NodeCurrentAt(sys, run))

LEMMA NodePlaceNames ==
  /\ Node!Labels = {"release", "check", "install", "key", "enable", "rule", "clean", "start",
                    "wait", "peers", "batch", "clean_probe", "start_probe", "count", "write",
                    "clean_final", "start_final", "live", "save"}
  /\ NodePlaces = Node!Labels \cup {"idle", "end"}
  BY DEF NodePlaces, Node!Labels

LEMMA NodeNumbers == MaxRuns \in Nat /\ 0 \in Node!Keys /\ 1 \in Node!Keys
  BY BoundsAreNumbers DEF Node!Keys

\* What a step may make of the run: another place, perhaps a warning.
NodeLike(r, to) ==
  r \in NodeRuns /\ r.pc = to /\ r.force = run.force /\ r.mem = run.mem

LEMMA NodeValues ==
  ASSUME run \in NodeRuns, NEW to \in NodePlaces
  PROVE  /\ NodeLike(Node!Goto(run, to), to) /\ NodeLike(Node!Goto(Node!Warned(run), to), to)
         /\ NodeLike(Node!Goto(Node!Changed(run), to), to)
         /\ NodeLike(Node!Warned(Node!Changed(run)), run.pc)
         /\ NodeLike(Node!Goto(Node!Warned(Node!Changed(run)), to), to)
         /\ Node!Goto(Node!Warned(run), to).warn
  BY DEF NodeLike, NodeRuns, Node!Goto, Node!Warned, Node!Changed

LEMMA NodeFailures ==
  ASSUME run \in NodeRuns
  PROVE  /\ NodeLike(Node!Failed, "end") /\ Node!Failed.warn
         /\ NodeLike(Node!Changed(Node!Failed), "end") /\ Node!Changed(Node!Failed).warn
<1>1. "end" \in NodePlaces
  BY NodePlaceNames
<1>2. NodeLike(Node!Failed, "end") /\ Node!Failed.warn
  BY <1>1, NodeValues DEF Node!Failed
<1> QED
  BY <1>2 DEF NodeLike, NodeRuns, Node!Changed

LEMMA NodeDoes ==
  ASSUME NodeInv, NEW from \in Node!Labels, NEW to \in NodePlaces,
         NEW r, r \in NodeRuns, r.pc = to, r.force = run.force,
         NEW m \in NodeMachines, sys.key # 0 /\ ~run.force => m.key = sys.key,
         NodeKeyAt(m, r),
         \/ Node!Do(from, m, r) /\ (NodeCalm => NodeCurrentAt(m, r))
         \/ Node!FaultLeaving(from, m, r)
  PROVE  NodeInv' /\ Node!KeyStep
<1>1. sys' = m /\ Node!KeyStep
  BY DEF Node!Do, Node!FaultLeaving, Node!KeyStep
<1>2. CASE Node!Do(from, m, r) /\ (NodeCalm => NodeCurrentAt(m, r))
  <2>1. run' = r /\ left' = left
    BY <1>2 DEF Node!Do
  <2> QED
    BY <1>1, <1>2, <2>1 DEF NodeInv, NodeTypes, NodeCalm
<1>3. CASE Node!FaultLeaving(from, m, r)
  <2>1. run' = [r EXCEPT !.hurt = TRUE] /\ left' \in Lefts /\ left'.faults < MaxFaults
    BY <1>3, FaultSpends DEF NodeInv, NodeTypes, Node!FaultLeaving
  <2>2. run' \in NodeRuns /\ run'.pc = r.pc /\ run'.mem = r.mem /\ run'.force = r.force
    BY <2>1 DEF NodeRuns
  <2>3. NodeKeyAt(sys', run')
    BY <1>1, <2>2 DEF NodeKeyAt
  <2>4. ~NodeCalm'
    BY <2>1, BoundsAreNumbers DEF NodeCalm
  <2> QED
    BY <1>1, <2>1, <2>2, <2>3, <2>4 DEF NodeInv, NodeTypes
<1> QED
  BY <1>2, <1>3

\* a step of the run that leaves the machine alone
LEMMA NodeLooks ==
  ASSUME NodeInv, NEW from \in Node!Labels, NEW to \in NodePlaces, NEW r, NodeLike(r, to),
         NodeKeyAt(sys, r),
         \/ Node!Do(from, sys, r) /\ (NodeCalm => NodeCurrentAt(sys, r))
         \/ Node!Fault(from, r)
  PROVE  NodeInv' /\ Node!KeyStep
  BY NodeDoes DEF NodeLike, NodeInv, NodeTypes, Node!Fault

\* a call that fails and ends the run
LEMMA NodeGivesUp ==
  ASSUME NodeInv, NEW from \in Node!Labels,
         NEW m \in NodeMachines, m.key = sys.key \/ run.force \/ sys.key = 0,
         m.key # 0 => m.pem, m.running => ~m.tun, sys.pem => m.pem, sys.file => m.file,
         \/ Node!FaultLeaving(from, m, Node!Failed)
         \/ Node!FaultLeaving(from, m, Node!Changed(Node!Failed))
  PROVE  NodeInv' /\ Node!KeyStep
<1> DEFINE r1 == Node!Failed
           r2 == Node!Changed(Node!Failed)
<1>1. NodeLike(r1, "end") /\ NodeLike(r2, "end")
  BY NodeFailures DEF NodeInv, NodeTypes
<1>2. \A r : NodeLike(r, "end") => NodeKeyAt(m, r)
  BY DEF NodeLike, NodeInv, NodeKeyAt
<1>3. "end" \in NodePlaces
  BY NodePlaceNames
<1> HIDE DEF r1, r2
<1>4. CASE Node!FaultLeaving(from, m, r1)
  BY <1>1, <1>2, <1>3, <1>4, NodeDoes DEF NodeLike
<1>5. CASE Node!FaultLeaving(from, m, r2)
  BY <1>1, <1>2, <1>3, <1>5, NodeDoes DEF NodeLike
<1> QED
  BY <1>4, <1>5 DEF r1, r2

LEMMA NodeStops ==
  ASSUME NodeInv, NEW from \in Node!Labels,
         \/ Node!Fault(from, Node!Failed) \/ Node!Fault(from, Node!Changed(Node!Failed))
  PROVE  NodeInv' /\ Node!KeyStep
  BY NodeGivesUp DEF Node!Fault, NodeInv, NodeTypes, NodeKeyAt
-----------------------------------------------------------------------------
LEMMA NodeAskReleaseKeeps == NodeInv /\ Node!AskRelease => NodeInv' /\ Node!KeyStep
<1> SUFFICES ASSUME NodeInv, Node!AskRelease PROVE NodeInv' /\ Node!KeyStep
  OBVIOUS
<1> DEFINE r == Node!Goto(run, "check")
<1>1. NodeLike(r, "check")
  BY SMTT(40), NodeValues, NodePlaceNames DEF NodeInv, NodeTypes
<1> HIDE DEF r
<1>2. CASE Node!Do("release", sys, r)
  <2>1. run.pc = "release"
    BY <1>2 DEF Node!Do
  <2> QED
    BY ZenonT(60), <1>1, <1>2, <2>1, NodeLooks, NodePlaceNames
       DEF NodeLike, NodeInv, NodeKeyAt, NodeCurrentAt, NodeBeforeKey
<1>3. CASE Node!Fault("release", Node!Failed)
  BY <1>3, NodeStops, NodePlaceNames
<1> QED
  BY <1>2, <1>3 DEF Node!AskRelease, Node!Gives, r

LEMMA NodeCheckKeeps == NodeInv /\ Node!Check => NodeInv' /\ Node!KeyStep
<1> SUFFICES ASSUME NodeInv, Node!Check PROVE NodeInv' /\ Node!KeyStep
  OBVIOUS
<1> DEFINE needs == sys.package # "new"
           kept == ~run.force /\ sys.package = "new" /\ Node!Complete
           seen == [run.mem EXCEPT !.needs = needs, !.enabled = sys.enabled,
                                   !.active = sys.running, !.kept = kept]
           r == Node!Goto(Node!Recall(run, seen), "install")
           end == Node!Goto(run, "end")
<1>1. sys \in NodeMachines /\ run \in NodeRuns /\ run.mem \in NodeMems
  BY DEF NodeInv, NodeTypes, NodeRuns
<1>2. needs \in BOOLEAN /\ kept \in BOOLEAN
  BY DEF Node!Complete
<1>3. kept => sys.pem /\ sys.file /\ ~run.force
  BY DEF Node!Complete
<1>4. \/ kept /\ Node!Do("check", sys, end)
      \/ Node!Do("check", sys, r)
  BY <1>1 DEF Node!Check, Node!Gives, NodeMems
<1> HIDE DEF needs, kept
<1>5. seen \in NodeMems /\ (seen.kept <=> kept)
  BY <1>1, <1>2 DEF NodeMems, NodeMachines
<1> HIDE DEF seen
<1>6. /\ r \in NodeRuns /\ r.pc = "install" /\ r.force = run.force /\ r.mem = seen
      /\ NodeLike(end, "end") 
  BY <1>1, <1>5, NodeValues, NodePlaceNames DEF NodeRuns, Node!Goto, Node!Recall
<1> HIDE DEF r, end
<1>7. run.pc = "check"
  BY <1>4 DEF Node!Do
<1>8. CASE kept /\ Node!Do("check", sys, end)
  BY ZenonT(60), <1>3, <1>6, <1>7, <1>8, NodeLooks, NodePlaceNames
     DEF NodeLike, NodeInv, NodeKeyAt, NodeCurrentAt, NodeBeforeKey
<1>9. CASE Node!Do("check", sys, r)
  <2>1. NodeKeyAt(sys, r)
    BY <1>3, <1>5, <1>6 DEF NodeInv, NodeKeyAt
  <2>2. NodeCalm => NodeCurrentAt(sys, r)
    BY <1>6, <1>7 DEF NodeInv, NodeCurrentAt, NodeBeforeKey
  <2> QED
    BY <1>1, <1>6, <1>9, <2>1, <2>2, NodeDoes, NodePlaceNames
<1> QED
  BY <1>4, <1>8, <1>9

LEMMA NodeInstallPackageKeeps == NodeInv /\ Node!InstallPackage => NodeInv' /\ Node!KeyStep
<1> SUFFICES ASSUME NodeInv, Node!InstallPackage PROVE NodeInv' /\ Node!KeyStep
  OBVIOUS
<1> DEFINE m == [sys EXCEPT !.package = "new", !.conf = IF @ = {} THEN {"package"} ELSE @]
           r == Node!Goto(run, "key")
           s == Node!Goto(Node!Changed(run), "key")
<1>1. sys \in NodeMachines /\ run \in NodeRuns
  BY DEF NodeInv, NodeTypes
<1>2. (IF sys.conf = {} THEN {"package"} ELSE sys.conf) \in SUBSET {"package", "probe",
        "final"}
  BY <1>1 DEF NodeMachines
<1>3. /\ m \in NodeMachines /\ m.key = sys.key /\ m.pem = sys.pem /\ m.file = sys.file
      /\ m.saved = sys.saved /\ m.running = sys.running /\ m.tun = sys.tun
  BY <1>1, <1>2 DEF NodeMachines
<1>4. NodeLike(r, "key") /\ NodeLike(s, "key")
  BY <1>1, NodeValues, NodePlaceNames
<1>5. \/ Node!Do("install", sys, r) \/ Node!Do("install", m, s)
      \/ Node!Fault("install", Node!Failed)
      \/ Node!FaultLeaving("install", m, Node!Changed(Node!Failed))
  BY DEF Node!InstallPackage, Node!Gives
<1> HIDE DEF m, r, s
<1>6. ASSUME run.pc = "install", NEW q, NodeLike(q, "key")
      PROVE  /\ NodeKeyAt(sys, q) /\ NodeKeyAt(m, q)
             /\ NodeCalm => NodeCurrentAt(sys, q) /\ NodeCurrentAt(m, q)
  BY <1>3, <1>6 DEF NodeLike, NodeInv, NodeKeyAt, NodeCurrentAt, NodeBeforeKey
<1>7. CASE Node!Do("install", sys, r)
  BY <1>4, <1>6, <1>7, NodeLooks, NodePlaceNames DEF Node!Do
<1>8. CASE Node!Do("install", m, s)
  <2>1. run.pc = "install"
    BY <1>8 DEF Node!Do
  <2> QED
    BY <1>3, <1>4, <1>6, <1>8, <2>1, NodeDoes, NodePlaceNames DEF NodeLike
<1>9. CASE Node!Fault("install", Node!Failed)
  BY <1>9, NodeStops, NodePlaceNames
<1>10. CASE Node!FaultLeaving("install", m, Node!Changed(Node!Failed))
  BY <1>3, <1>10, NodeGivesUp, NodePlaceNames DEF NodeInv, NodeKeyAt
<1> QED
  BY <1>5, <1>7, <1>8, <1>9, <1>10

LEMMA NodeDraws == left \in Lefts => Node!NewKey \in Node!Keys \ {0}
<1> SUFFICES ASSUME left \in Lefts PROVE Node!NewKey \in Node!Keys \ {0}
  OBVIOUS
<1>1. left.runs \in 0..MaxRuns
  BY DEF Lefts
<1> QED
  BY <1>1, NodeNumbers DEF Node!NewKey, Node!Draw, Node!Keys

LEMMA NodeEnsurePrivateKeyKeeps ==
  NodeInv /\ Node!EnsurePrivateKey => NodeInv' /\ Node!KeyStep
<1> SUFFICES ASSUME NodeInv, Node!EnsurePrivateKey PROVE NodeInv' /\ Node!KeyStep
  OBVIOUS
<1> DEFINE m == [sys EXCEPT !.pem = TRUE, !.key = Node!NewKey]
           short == [sys EXCEPT !.pem = TRUE, !.key = 0]
           r == Node!Goto(run, "enable")
<1>1. sys \in NodeMachines /\ run \in NodeRuns
  BY DEF NodeInv, NodeTypes
<1>2. Node!NewKey \in Node!Keys \ {0}
  BY NodeDraws DEF NodeInv, NodeTypes
<1>3. /\ m \in NodeMachines /\ m.key = Node!NewKey /\ m.pem /\ m.file = sys.file
      /\ m.running = sys.running /\ m.tun = sys.tun
      /\ short \in NodeMachines /\ short.key = 0 /\ short.pem /\ short.file = sys.file
      /\ short.running = sys.running /\ short.tun = sys.tun
  BY <1>1, <1>2, NodeNumbers DEF NodeMachines
<1>4. NodeLike(r, "enable")
  BY <1>1, NodeValues, NodePlaceNames
<1>5. \/ sys.pem /\ ~run.force /\ Node!Do("key", sys, r)
      \/ (~sys.pem \/ run.force) /\ Node!Do("key", m, r)
      \/ Node!Fault("key", Node!Failed)
      \/ (~sys.pem \/ run.force) /\ Node!FaultLeaving("key", short, Node!Failed)
  BY SMTT(40) DEF Node!EnsurePrivateKey, Node!Gives
<1> HIDE DEF m, short, r
<1>6. CASE sys.pem /\ ~run.force /\ Node!Do("key", sys, r)
  <2>1. run.pc = "key"
    BY <1>6 DEF Node!Do
  <2> QED
    BY ZenonT(60), <1>4, <1>6, <2>1, NodeLooks, NodePlaceNames
       DEF NodeLike, NodeInv, NodeKeyAt, NodeCurrentAt, NodeBeforeKey
<1>7. CASE (~sys.pem \/ run.force) /\ Node!Do("key", m, r)
  <2>1. sys.key = 0 \/ run.force
    BY <1>7 DEF NodeInv, NodeKeyAt
  <2>2. ~r.mem.kept
    BY <1>4, <1>7 DEF NodeInv, NodeKeyAt, NodeLike
  <2>3. NodeKeyAt(m, r) /\ NodeCurrentAt(m, r)
    BY <1>2, <1>3, <1>4, <2>2
       DEF NodeInv, NodeKeyAt, NodeCurrentAt, NodeLike, NodeBeforeKey
  <2> QED
    BY <1>3, <1>4, <1>7, <2>1, <2>3, NodeDoes, NodePlaceNames DEF NodeLike
<1>8. CASE Node!Fault("key", Node!Failed)
  BY <1>8, NodeStops, NodePlaceNames
<1>9. CASE (~sys.pem \/ run.force) /\ Node!FaultLeaving("key", short, Node!Failed)
  <2>1. sys.key = 0 \/ run.force
    BY <1>9 DEF NodeInv, NodeKeyAt
  <2> QED
    BY <1>3, <1>9, <2>1, NodeGivesUp, NodePlaceNames DEF NodeInv, NodeKeyAt
<1> QED
  BY <1>5, <1>6, <1>7, <1>8, <1>9

\* a step behind the key that leaves the key and the saved address alone
LEMMA NodeMoves ==
  ASSUME NodeInv, NEW from \in Node!Labels \ NodeBeforeKey,
         NEW to \in NodePlaces \ NodeBeforeKey, NEW r, NodeLike(r, to),
         NEW m \in NodeMachines, m.key = sys.key, m.pem = sys.pem, m.file = sys.file,
         m.saved = sys.saved, m.running => ~m.tun,
         to \in {"clean", "start", "wait"} => run.mem.kept,
         NodeCalm /\ to \in {"start_probe", "start_final"} => ~m.tun,
         NodeCalm /\ to \in {"count", "live"} => m.running,
         Node!Do(from, m, r) \/ Node!FaultLeaving(from, m, r)
  PROVE  NodeInv' /\ Node!KeyStep
<1>1. run.pc = from
  BY DEF Node!Do, Node!FaultLeaving
<1>2. NodeKeyAt(m, r)
  BY <1>1 DEF NodeInv, NodeKeyAt, NodeLike, NodeBeforeKey
<1>3. NodeCalm => NodeCurrentAt(m, r)
  BY <1>1 DEF NodeInv, NodeKeyAt, NodeCurrentAt, NodeLike, NodeBeforeKey
<1> QED
  BY <1>2, <1>3, NodeDoes DEF NodeLike

LEMMA NodeSteps ==
  ASSUME NodeInv, NEW from \in Node!Labels \ NodeBeforeKey,
         NEW to \in NodePlaces \ NodeBeforeKey, NEW r, NodeLike(r, to),
         to \in {"clean", "start", "wait"} => run.mem.kept,
         NodeCalm /\ to \in {"start_probe", "start_final"} => ~sys.tun,
         NodeCalm /\ to \in {"count", "live"} => sys.running,
         Node!Do(from, sys, r) \/ Node!Fault(from, r)
  PROVE  NodeInv' /\ Node!KeyStep
<1>1. sys \in NodeMachines /\ (sys.running => ~sys.tun)
  BY DEF NodeInv, NodeTypes, NodeKeyAt
<1> QED
  BY <1>1, NodeMoves DEF Node!Fault

LEMMA NodeEnableServiceKeeps == NodeInv /\ Node!EnableService => NodeInv' /\ Node!KeyStep
<1> SUFFICES ASSUME NodeInv, Node!EnableService PROVE NodeInv' /\ Node!KeyStep
  OBVIOUS
<1> DEFINE m == [sys EXCEPT !.enabled = TRUE]
           r == Node!Goto(run, "rule")
           s == Node!Goto(Node!Changed(run), "rule")
<1>1. sys \in NodeMachines /\ run \in NodeRuns
  BY DEF NodeInv, NodeTypes
<1>2. /\ m \in NodeMachines /\ m.key = sys.key /\ m.pem = sys.pem /\ m.file = sys.file
      /\ m.saved = sys.saved /\ (m.running => ~m.tun)
  BY <1>1 DEF NodeMachines, NodeInv, NodeKeyAt
<1>3. NodeLike(r, "rule") /\ NodeLike(s, "rule")
  BY <1>1, NodeValues, NodePlaceNames
<1>4. \/ Node!Do("enable", sys, r) \/ Node!Do("enable", m, s)
      \/ Node!Fault("enable", Node!Failed)
  BY DEF Node!EnableService, Node!Gives
<1> HIDE DEF m, r, s
<1>5. CASE Node!Do("enable", sys, r)
  BY <1>3, <1>5, NodeSteps, NodePlaceNames DEF NodeBeforeKey
<1>6. CASE Node!Do("enable", m, s)
  BY <1>2, <1>3, <1>6, NodeMoves, NodePlaceNames DEF NodeBeforeKey
<1>7. CASE Node!Fault("enable", Node!Failed)
  BY <1>7, NodeStops, NodePlaceNames
<1> QED
  BY <1>4, <1>5, <1>6, <1>7

LEMMA NodeMarkUnmanagedKeeps == NodeInv /\ Node!MarkUnmanaged => NodeInv' /\ Node!KeyStep
<1> SUFFICES ASSUME NodeInv, Node!MarkUnmanaged PROVE NodeInv' /\ Node!KeyStep
  OBVIOUS
<1> DEFINE next == IF ~run.mem.kept THEN "peers" ELSE IF run.mem.active THEN "wait" ELSE
      "clean"
           m == [sys EXCEPT !.unmanaged = TRUE]
           r == Node!Goto(run, next)
           s == Node!Goto(Node!Warned(run), next)
<1>1. sys \in NodeMachines /\ run \in NodeRuns
  BY DEF NodeInv, NodeTypes
<1>2. next \in {"peers", "wait", "clean"} /\ (next # "peers" => run.mem.kept)
  OBVIOUS
<1>3. /\ m \in NodeMachines /\ m.key = sys.key /\ m.pem = sys.pem /\ m.file = sys.file
      /\ m.saved = sys.saved /\ (m.running => ~m.tun)
  BY <1>1 DEF NodeMachines, NodeInv, NodeKeyAt
<1>4. Node!Do("rule", m, r) \/ Node!Fault("rule", s)
  BY DEF Node!MarkUnmanaged
<1> HIDE DEF next, m
<1>5. NodeLike(r, next) /\ NodeLike(s, next)
  BY <1>1, <1>2, NodeValues, NodePlaceNames
<1> HIDE DEF r, s
<1>6. CASE Node!Do("rule", m, r)
  BY <1>2, <1>3, <1>5, <1>6, NodeMoves, NodePlaceNames DEF NodeBeforeKey
<1>7. CASE Node!Fault("rule", s)
  BY <1>2, <1>5, <1>7, NodeSteps, NodePlaceNames DEF NodeBeforeKey
<1> QED
  BY <1>4, <1>6, <1>7

\* the interface that was left behind is gone before the start, or the call failed
LEMMA NodeCleanups ==
  ASSUME NodeInv, NEW label \in {"clean", "clean_probe", "clean_final"},
         NEW next \in {"start", "start_probe", "start_final"},
         next = "start" => run.mem.kept, Node!CleanupInterface(label, next)
  PROVE  NodeInv' /\ Node!KeyStep
<1> DEFINE m == IF sys.running THEN sys ELSE [sys EXCEPT !.tun = FALSE]
           r == Node!Goto(run, next)
<1>1. sys \in NodeMachines /\ run \in NodeRuns
  BY DEF NodeInv, NodeTypes
<1>2. /\ m \in NodeMachines /\ m.key = sys.key /\ m.pem = sys.pem /\ m.file = sys.file
      /\ m.saved = sys.saved /\ ~m.tun
  BY <1>1 DEF NodeMachines, NodeInv, NodeKeyAt
<1>3. NodeLike(r, next)
  BY <1>1, NodeValues, NodePlaceNames
<1>4. Node!Do(label, m, r) \/ Node!Fault(label, r)
  BY DEF Node!CleanupInterface
<1> HIDE DEF m, r
<1>5. CASE Node!Do(label, m, r)
  BY <1>2, <1>3, <1>5, NodeMoves, NodePlaceNames DEF NodeBeforeKey
<1>6. CASE Node!Fault(label, r)
  <2>1. NodeKeyAt(sys, r)
    BY <1>3 DEF NodeInv, NodeKeyAt, NodeLike
  <2> QED
    BY <1>3, <1>6, <2>1, NodeLooks, NodePlaceNames
<1> QED
  BY <1>4, <1>5, <1>6

LEMMA NodeCleanupKeeps ==
  NodeInv /\ (Node!CleanKept \/ Node!CleanProbe \/ Node!CleanFinal)
    => NodeInv' /\ Node!KeyStep
<1>1. ASSUME NodeInv, Node!CleanKept PROVE run.mem.kept
  BY <1>1 DEF Node!CleanKept, Node!CleanupInterface, Node!Do, Node!Fault, Node!FaultLeaving,
              NodeInv, NodeKeyAt
<1> QED
  BY <1>1, NodeCleanups DEF Node!CleanKept, Node!CleanProbe, Node!CleanFinal

LEMMA NodeStartKeptKeeps == NodeInv /\ Node!StartKept => NodeInv' /\ Node!KeyStep
<1> SUFFICES ASSUME NodeInv, Node!StartKept PROVE NodeInv' /\ Node!KeyStep
  OBVIOUS
<1> DEFINE up == sys.running \/ (Node!Usable /\ ~sys.tun)
           m == [sys EXCEPT !.running = up]
           r == Node!Goto(Node!Changed(run), "wait")
<1>1. sys \in NodeMachines /\ run \in NodeRuns /\ (sys.running => ~sys.tun)
  BY DEF NodeInv, NodeTypes, NodeKeyAt
<1>2. up \in BOOLEAN /\ (up => ~sys.tun)
  BY <1>1 DEF NodeMachines, Node!Usable
<1>3. Node!Do("start", m, r) \/ Node!Fault("start", Node!Changed(Node!Failed))
  BY DEF Node!StartKept, Node!ComesUp
<1> HIDE DEF up
<1>4. /\ m \in NodeMachines /\ m.key = sys.key /\ m.pem = sys.pem /\ m.file = sys.file
      /\ m.saved = sys.saved /\ (m.running <=> up) /\ (m.tun <=> sys.tun)
  BY <1>1, <1>2 DEF NodeMachines
<1>5. NodeLike(r, "wait")
  BY <1>1, NodeValues, NodePlaceNames
<1> HIDE DEF m, r
<1>6. CASE Node!Do("start", m, r)
  <2>1. run.mem.kept
    BY <1>6 DEF Node!Do, NodeInv, NodeKeyAt
  <2> QED
    BY <1>2, <1>4, <1>5, <1>6, <2>1, NodeMoves, NodePlaceNames DEF NodeBeforeKey
<1>7. CASE Node!Fault("start", Node!Changed(Node!Failed))
  BY <1>7, NodeStops, NodePlaceNames
<1> QED
  BY <1>3, <1>6, <1>7

\* the kept configuration came with its address file
LEMMA NodeWaitKeptKeeps == NodeInv /\ Node!WaitKept => NodeInv' /\ Node!KeyStep
<1> SUFFICES ASSUME NodeInv, Node!WaitKept PROVE NodeInv' /\ Node!KeyStep
  OBVIOUS
<1> DEFINE r == Node!Goto(Node!Changed(run), "end")
           s == Node!Failed
<1>1. NodeLike(r, "end") /\ NodeLike(s, "end")
  BY NodeValues, NodeFailures, NodePlaceNames DEF NodeInv, NodeTypes
<1>2. Node!Do("wait", sys, r) \/ Node!Do("wait", sys, s)
  BY DEF Node!WaitKept
<1> HIDE DEF r, s
<1>3. run.pc = "wait"
  BY <1>2 DEF Node!Do
<1>4. \A q : NodeLike(q, "end") => NodeKeyAt(sys, q) /\ (NodeCalm => NodeCurrentAt(sys, q))
  BY <1>3 DEF NodeLike, NodeInv, NodeKeyAt, NodeCurrentAt, NodeBeforeKey
<1> QED
  BY <1>1, <1>2, <1>4, NodeLooks, NodePlaceNames

LEMMA NodeDownloadPeersKeeps == NodeInv /\ Node!DownloadPeers => NodeInv' /\ Node!KeyStep
<1> SUFFICES ASSUME NodeInv, Node!DownloadPeers PROVE NodeInv' /\ Node!KeyStep
  OBVIOUS
<1> DEFINE r == Node!Goto(run, "batch")
           s == Node!Goto(run, "write")
<1>1. NodeLike(r, "batch") /\ NodeLike(s, "write")
  BY NodeValues, NodePlaceNames DEF NodeInv, NodeTypes
<1>2. Node!Do("peers", sys, r) \/ Node!Fault("peers", s)
  BY DEF Node!DownloadPeers, Node!Gives
<1> HIDE DEF r, s
<1>3. CASE Node!Do("peers", sys, r)
  BY <1>1, <1>3, NodeSteps, NodePlaceNames DEF NodeBeforeKey
<1>4. CASE Node!Fault("peers", s)
  BY <1>1, <1>4, NodeSteps, NodePlaceNames DEF NodeBeforeKey
<1> QED
  BY <1>2, <1>3, <1>4

LEMMA NodeWritesConf ==
  ASSUME NodeInv, NEW label \in {"batch", "write"}, NEW kind \in {"probe", "final"},
         NEW next \in {"clean_probe", "clean_final"}, Node!WriteConf(label, kind, next)
  PROVE  NodeInv' /\ Node!KeyStep
<1> DEFINE m == [sys EXCEPT !.conf = {kind}]
           short == [sys EXCEPT !.conf = {}]
           r == Node!Goto(run, next)
<1>1. sys \in NodeMachines /\ run \in NodeRuns
  BY DEF NodeInv, NodeTypes
<1>2. /\ m \in NodeMachines /\ m.key = sys.key /\ m.pem = sys.pem /\ m.file = sys.file
      /\ m.saved = sys.saved /\ m.running = sys.running /\ m.tun = sys.tun
      /\ short \in NodeMachines /\ short.key = sys.key /\ short.pem = sys.pem
      /\ short.file = sys.file /\ short.running = sys.running /\ short.tun = sys.tun
  BY <1>1 DEF NodeMachines
<1>3. NodeLike(r, next)
  BY <1>1, NodeValues, NodePlaceNames
<1>4. \/ Node!Do(label, m, r)
      \/ Node!FaultLeaving(label, short, Node!Changed(Node!Failed))
  BY DEF Node!WriteConf
<1>5. (sys.running => ~sys.tun) /\ (sys.key # 0 => sys.pem)
  BY DEF NodeInv, NodeKeyAt
<1> HIDE DEF m, short, r
<1>6. CASE Node!Do(label, m, r)
  BY <1>2, <1>3, <1>5, <1>6, NodeMoves, NodePlaceNames DEF NodeBeforeKey
<1>7. CASE Node!FaultLeaving(label, short, Node!Changed(Node!Failed))
  BY <1>2, <1>5, <1>7, NodeGivesUp, NodePlaceNames
<1> QED
  BY <1>4, <1>6, <1>7

LEMMA NodeRestarts ==
  ASSUME NodeInv, NEW label \in {"start_probe", "start_final"}, NEW next \in {"count",
           "live"},
         Node!Restart(label, next)
  PROVE  NodeInv' /\ Node!KeyStep
<1> DEFINE up == Node!Usable /\ ~sys.tun
           m == [sys EXCEPT !.running = up]
           r == Node!Goto(run, next)
<1>1. sys \in NodeMachines /\ run \in NodeRuns /\ (sys.running => ~sys.tun)
        /\ (sys.key # 0 => sys.pem)
  BY DEF NodeInv, NodeTypes, NodeKeyAt
<1>2. up \in BOOLEAN /\ (up => ~sys.tun)
  BY <1>1 DEF Node!Usable
<1>3. \/ Node!Do(label, m, r)
      \/ \E still \in {FALSE, sys.running} :
           Node!FaultLeaving(label, [sys EXCEPT !.running = still], Node!Changed(Node!Failed))
  BY DEF Node!Restart, Node!Reads
<1>4. CASE Node!Do(label, m, r)
  <2>1. run.pc = label
    BY <1>4 DEF Node!Do
  <2>2. NodeCalm => up
    BY <2>1 DEF NodeInv, NodeCurrentAt, NodeBeforeKey, Node!Usable
  <2> HIDE DEF up
  <2>3. /\ m \in NodeMachines /\ m.key = sys.key /\ m.pem = sys.pem /\ m.file = sys.file
        /\ m.saved = sys.saved /\ (m.running <=> up) /\ (m.tun <=> sys.tun)
    BY <1>1, <1>2 DEF NodeMachines
  <2>4. NodeLike(r, next)
    BY <1>1, NodeValues, NodePlaceNames
  <2> HIDE DEF m, r
  <2> QED
    BY <1>2, <1>4, <2>2, <2>3, <2>4, NodeMoves, NodePlaceNames DEF NodeBeforeKey
<1>5. ASSUME NEW still \in {FALSE, sys.running},
             Node!FaultLeaving(label, [sys EXCEPT !.running = still],
                               Node!Changed(Node!Failed))
      PROVE  NodeInv' /\ Node!KeyStep
  <2> DEFINE down == [sys EXCEPT !.running = still]
  <2>1. /\ down \in NodeMachines /\ down.key = sys.key /\ down.pem = sys.pem
        /\ down.file = sys.file /\ (down.running => ~down.tun)
    BY <1>1 DEF NodeMachines
  <2>2. Node!FaultLeaving(label, down, Node!Changed(Node!Failed))
    BY <1>5
  <2> HIDE DEF down
  <2> QED
    BY <1>1, <2>1, <2>2, NodeGivesUp, NodePlaceNames
<1> QED
  BY <1>3, <1>4, <1>5

LEMMA NodeCountPeersKeeps == NodeInv /\ Node!CountPeers => NodeInv' /\ Node!KeyStep
<1> SUFFICES ASSUME NodeInv, Node!CountPeers PROVE NodeInv' /\ Node!KeyStep
  OBVIOUS
<1> DEFINE r == Node!Goto(run, "write")
           mem == [run.mem EXCEPT !["batch"] = run.mem.batch + 1]
           again == Node!Goto(Node!Recall(run, mem), "batch")
           last == Node!Goto(run, "live")
<1>1. sys \in NodeMachines /\ run \in NodeRuns /\ run.mem \in NodeMems
  BY DEF NodeInv, NodeTypes, NodeRuns
<1>2. mem \in NodeMems /\ mem.kept = run.mem.kept
  BY <1>1 DEF NodeMems
<1>3. NodeLike(r, "write") /\ NodeLike(last, "live")
  BY <1>1, NodeValues, NodePlaceNames
<1>4. Node!Do("count", sys, r) \/ Node!Do("count", sys, again) \/ Node!Do("count", sys, last)
  BY DEF Node!CountPeers, Node!Gives, Node!Mem
<1> HIDE DEF mem
<1>5. again \in NodeRuns /\ again.pc = "batch" /\ again.force = run.force /\ again.mem = mem
  BY <1>1, <1>2, NodePlaceNames DEF NodeRuns, Node!Goto, Node!Recall
<1> HIDE DEF r, again, last
<1>6. run.pc = "count"
  BY <1>4 DEF Node!Do
<1>7. CASE Node!Do("count", sys, r)
  BY <1>3, <1>7, NodeSteps, NodePlaceNames DEF NodeBeforeKey
<1>8. CASE Node!Do("count", sys, again)
  <2>1. NodeKeyAt(sys, again) /\ (NodeCalm => NodeCurrentAt(sys, again))
    BY <1>2, <1>5, <1>6 DEF NodeInv, NodeKeyAt, NodeCurrentAt, NodeBeforeKey
  <2> QED
    BY <1>1, <1>5, <1>8, <2>1, NodeDoes, NodePlaceNames
<1>9. CASE Node!Do("count", sys, last)
  <2>1. NodeCalm => sys.running
    BY <1>6 DEF NodeInv, NodeCurrentAt
  <2> QED
    BY <1>3, <1>9, <2>1, NodeSteps, NodePlaceNames DEF NodeBeforeKey
<1> QED
  BY <1>4, <1>7, <1>8, <1>9

\* a node that died before it was looked at was not left alone
LEMMA NodeLookAtNodeKeeps == NodeInv /\ Node!LookAtNode => NodeInv' /\ Node!KeyStep
<1> SUFFICES ASSUME NodeInv, Node!LookAtNode PROVE NodeInv' /\ Node!KeyStep
  OBVIOUS
<1> DEFINE r == Node!Goto(Node!Changed(run), "save")
           s == Node!Goto(Node!Warned(Node!Changed(run)), "save")
           f == Node!Changed(Node!Failed)
<1>1. NodeLike(r, "save") /\ NodeLike(s, "save") /\ NodeLike(f, "end")
  BY NodeValues, NodeFailures, NodePlaceNames DEF NodeInv, NodeTypes
<1>2. \/ Node!Do("live", sys, r)
      \/ Node!Do("live", sys, s)
      \/ ~sys.running /\ Node!Do("live", sys, f)
  BY DEF Node!LookAtNode
<1> HIDE DEF r, s, f
<1>3. CASE Node!Do("live", sys, r)
  BY <1>1, <1>3, NodeSteps, NodePlaceNames DEF NodeBeforeKey
<1>4. CASE Node!Do("live", sys, s)
  BY <1>1, <1>4, NodeSteps, NodePlaceNames DEF NodeBeforeKey
<1>5. CASE ~sys.running /\ Node!Do("live", sys, f)
  <2>1. run.pc = "live"
    BY <1>5 DEF Node!Do
  <2>2. ~NodeCalm
    BY <1>5, <2>1 DEF NodeInv, NodeCurrentAt
  <2>3. NodeKeyAt(sys, f)
    BY <1>1 DEF NodeLike, NodeInv, NodeKeyAt
  <2> QED
    BY <1>1, <1>5, <2>2, <2>3, NodeLooks, NodePlaceNames
<1> QED
  BY <1>2, <1>3, <1>4, <1>5

LEMMA NodeSaveSelfAddressKeeps ==
  NodeInv /\ Node!SaveSelfAddress => NodeInv' /\ Node!KeyStep
<1> SUFFICES ASSUME NodeInv, Node!SaveSelfAddress PROVE NodeInv' /\ Node!KeyStep
  OBVIOUS
<1> DEFINE m == [sys EXCEPT !.file = TRUE, !.saved = sys.key]
           r == Node!Goto(run, "end")
<1>1. sys \in NodeMachines /\ run \in NodeRuns
  BY DEF NodeInv, NodeTypes
<1>2. /\ m \in NodeMachines /\ m.key = sys.key /\ m.pem = sys.pem /\ m.file
      /\ m.saved = sys.key /\ m.running = sys.running /\ m.tun = sys.tun
  BY <1>1 DEF NodeMachines
<1>3. NodeLike(r, "end")
  BY <1>1, NodeValues, NodePlaceNames
<1>4. Node!Do("save", m, r) \/ Node!Fault("save", r)
  BY DEF Node!SaveSelfAddress
<1> HIDE DEF m, r
<1>5. CASE Node!Do("save", m, r)
  <2>1. NodeKeyAt(m, r) /\ (NodeCalm => NodeCurrentAt(m, r))
    BY <1>2, <1>3 DEF NodeLike, NodeInv, NodeKeyAt, NodeCurrentAt, NodeBeforeKey
  <2> QED
    BY <1>2, <1>3, <1>5, <2>1, NodeDoes, NodePlaceNames DEF NodeLike
<1>6. CASE Node!Fault("save", r)
  <2>1. NodeKeyAt(sys, r)
    BY <1>3 DEF NodeLike, NodeInv, NodeKeyAt
  <2> QED
    BY <1>3, <1>6, <2>1, NodeLooks, NodePlaceNames
<1> QED
  BY <1>4, <1>5, <1>6
-----------------------------------------------------------------------------
LEMMA NodeStartTaskKeeps == NodeInv /\ Node!StartTask => NodeInv' /\ Node!KeyStep
<1> SUFFICES ASSUME NodeInv, NEW force \in BOOLEAN,
                    Node!Begin("release", force, Node!Fresh)
             PROVE  NodeInv' /\ Node!KeyStep
  BY DEF Node!StartTask
<1>1. Node!Fresh \in NodeMems /\ ~Node!Fresh.kept
  BY DEF Node!Fresh, NodeMems
<1> HIDE DEF Node!Fresh
<1>2. (run.pc = "end" /\ ~run.warn /\ ~run.force) \in BOOLEAN
  OBVIOUS
<1>3. run' \in NodeRuns /\ run'.pc = "release" /\ run'.mem = Node!Fresh
  BY <1>1, <1>2, NodePlaceNames DEF Node!Begin, NodeRuns
<1>4. sys' = sys /\ left' \in Lefts /\ (NodeCalm' => NodeCalm)
  BY BeginSpends DEF Node!Begin, NodeInv, NodeTypes, NodeCalm
<1>5. run.pc \in {"idle", "end"}
  BY DEF Node!Begin, Node!AtRest
<1>6. NodeTypes'
  BY <1>3, <1>4 DEF NodeInv, NodeTypes
<1>7. NodeKeyAt(sys', run')
  BY <1>1, <1>3, <1>4 DEF NodeInv, NodeKeyAt
<1>8. NodeCalm' => NodeCurrentAt(sys', run')
  BY <1>1, <1>3, <1>4, <1>5 DEF NodeInv, NodeCurrentAt, NodeBeforeKey
<1> QED
  BY <1>4, <1>6, <1>7, <1>8 DEF NodeInv, Node!KeyStep

LEMMA NodeRests ==
  run \in NodeRuns => /\ Node!NoRun(run.mem) \in NodeRuns /\ Node!NoRun(run.mem).pc = "idle"
                      /\ Node!NoRun(run.mem).mem = run.mem /\ ~Node!NoRun(run.mem).force
  BY NodePlaceNames DEF Node!NoRun, NodeRuns

LEMMA NodeKillKeeps == NodeInv /\ Node!Kill => NodeInv' /\ Node!KeyStep
<1> SUFFICES ASSUME NodeInv, Node!Kill PROVE NodeInv' /\ Node!KeyStep
  OBVIOUS
<1>1. sys' = sys /\ run' = Node!NoRun(run.mem) /\ left' \in Lefts /\ left'.kills < MaxKills
  BY KillSpends DEF Node!Kill, NodeInv, NodeTypes
<1>2. /\ run' \in NodeRuns /\ run'.pc = "idle" /\ run'.mem = run.mem /\ ~run'.force
  BY <1>1, NodeRests DEF NodeInv, NodeTypes
<1>3. NodeKeyAt(sys', run')
  BY <1>1, <1>2 DEF NodeInv, NodeKeyAt
<1>4. ~NodeCalm'
  BY <1>1, BoundsAreNumbers DEF NodeCalm
<1> QED
  BY <1>1, <1>2, <1>3, <1>4 DEF NodeInv, NodeTypes, Node!KeyStep

\* what happens to the node between two runs leaves the key and the files
LEMMA NodeEvents ==
  ASSUME NodeInv, NEW m \in NodeMachines, m.key = sys.key, m.pem = sys.pem,
         m.file = sys.file, m.saved = sys.saved, m.running => ~m.tun, Node!Event(m)
  PROVE  NodeInv' /\ Node!KeyStep
<1>1. sys' = m /\ run' = Node!NoRun(run.mem) /\ left' \in Lefts /\ (NodeCalm' => NodeCalm)
  <2>1. sys' = m /\ run' = Node!NoRun(run.mem) /\ left' \in Lefts
    BY EventSpends DEF Node!Event, NodeInv, NodeTypes
  <2>2. left'.faults = left.faults /\ left'.kills = left.kills
    BY DEF Node!Event, NodeInv, NodeTypes, Lefts
  <2> QED
    BY <2>1, <2>2 DEF NodeCalm
<1>2. run' \in NodeRuns /\ run'.pc = "idle" /\ run'.mem = run.mem /\ ~run'.force
  BY <1>1, NodeRests DEF NodeInv, NodeTypes
<1>3. run.pc \in {"idle", "end"}
  BY DEF Node!Event, Node!AtRest
<1>4. NodeKeyAt(sys', run')
  BY <1>1, <1>2 DEF NodeInv, NodeKeyAt
<1>5. NodeCalm' => NodeCurrentAt(sys', run')
  BY <1>1, <1>2, <1>3 DEF NodeInv, NodeCurrentAt, NodeBeforeKey
<1> QED
  BY <1>1, <1>2, <1>4, <1>5 DEF NodeInv, NodeTypes, Node!KeyStep

LEMMA NodeEventsKeep ==
  NodeInv /\ (Node!Crash \/ Node!Release \/ Node!Reboot) => NodeInv' /\ Node!KeyStep
<1> SUFFICES ASSUME NodeInv, Node!Crash \/ Node!Release \/ Node!Reboot
             PROVE  NodeInv' /\ Node!KeyStep
  OBVIOUS
<1> DEFINE up == sys.enabled /\ Node!Usable
           crashed == [sys EXCEPT !.running = FALSE, !.tun = TRUE]
           released == [sys EXCEPT !.package = "old"]
           booted == [sys EXCEPT !.running = up, !.tun = FALSE]
<1>1. sys \in NodeMachines /\ (sys.running => ~sys.tun)
  BY DEF NodeInv, NodeTypes, NodeKeyAt
<1>2. up \in BOOLEAN
  OBVIOUS
<1>3. Node!Event(crashed) \/ Node!Event(released) \/ Node!Event(booted)
  BY DEF Node!Crash, Node!Release, Node!Reboot
<1> HIDE DEF up
<1>4. /\ crashed \in NodeMachines /\ crashed.key = sys.key /\ crashed.pem = sys.pem
      /\ crashed.file = sys.file /\ crashed.saved = sys.saved /\ ~crashed.running
  BY <1>1 DEF NodeMachines
<1>5. /\ released \in NodeMachines /\ released.key = sys.key /\ released.pem = sys.pem
      /\ released.file = sys.file /\ released.saved = sys.saved
      /\ (released.running => ~released.tun)
  BY <1>1 DEF NodeMachines
<1>6. /\ booted \in NodeMachines /\ booted.key = sys.key /\ booted.pem = sys.pem
      /\ booted.file = sys.file /\ booted.saved = sys.saved /\ ~booted.tun
  BY <1>1, <1>2 DEF NodeMachines
<1> HIDE DEF crashed, released, booted
<1>7. CASE Node!Event(crashed)
  BY <1>4, <1>7, NodeEvents
<1>8. CASE Node!Event(released)
  BY <1>5, <1>8, NodeEvents
<1>9. CASE Node!Event(booted)
  BY <1>6, <1>9, NodeEvents
<1> QED
  BY <1>3, <1>7, <1>8, <1>9

LEMMA InitNode == Node!Init => NodeInv
<1> SUFFICES ASSUME Node!Init PROVE NodeInv
  OBVIOUS
<1>1. /\ sys \in NodeMachines /\ sys.key = 0 /\ ~sys.pem /\ ~sys.running /\ ~sys.file
  BY NodeNumbers DEF Node!Init, NodeMachines
<1>2. run \in NodeRuns /\ run.pc = "idle" /\ ~run.mem.kept
  BY NodePlaceNames DEF Node!Init, Node!NoRun, Node!Fresh, NodeRuns, NodeMems
<1>3. left \in Lefts
  BY BudgetIsLeft DEF Node!Init, Node!Budget
<1> QED
  BY <1>1, <1>2, <1>3 DEF NodeInv, NodeTypes, NodeKeyAt, NodeCurrentAt, NodeBeforeKey

LEMMA NextNode == NodeInv /\ [Node!Next]_vars => NodeInv' /\ Node!KeyStep
<1> SUFFICES ASSUME NodeInv, [Node!Next]_vars PROVE NodeInv' /\ Node!KeyStep
  OBVIOUS
<1>1. ASSUME UNCHANGED vars PROVE NodeInv' /\ Node!KeyStep
  BY <1>1 DEF vars, NodeInv, NodeTypes, NodeCalm, Node!KeyStep
<1>2. ASSUME Node!ProbeBatch \/ Node!WriteFinal PROVE NodeInv' /\ Node!KeyStep
  BY <1>2, NodeWritesConf DEF Node!ProbeBatch, Node!WriteFinal
<1>3. ASSUME Node!StartProbe \/ Node!StartFinal PROVE NodeInv' /\ Node!KeyStep
  BY <1>3, NodeRestarts DEF Node!StartProbe, Node!StartFinal
<1>4. ASSUME Node!Step PROVE NodeInv' /\ Node!KeyStep
  BY <1>2, <1>3, <1>4, NodeAskReleaseKeeps, NodeCheckKeeps, NodeInstallPackageKeeps,
     NodeEnsurePrivateKeyKeeps, NodeEnableServiceKeeps, NodeMarkUnmanagedKeeps,
     NodeCleanupKeeps, NodeStartKeptKeeps, NodeWaitKeptKeeps, NodeDownloadPeersKeeps,
     NodeCountPeersKeeps, NodeLookAtNodeKeeps, NodeSaveSelfAddressKeeps DEF Node!Step
<1> QED
  BY <1>1, <1>4, NodeStartTaskKeeps, NodeKillKeeps, NodeEventsKeep DEF Node!Next

NodeHolds == section = "node" => NodeInv

\* The invariant of the node holds in every behaviour.
THEOREM NodeInvariant == Spec => []NodeHolds
<1>1. Init => NodeHolds
  BY InitNode DEF Init, NodeHolds
<1>2. NodeHolds /\ [Next]_vars => NodeHolds'
  BY NextNode DEF Next, NodeHolds, vars
<1> QED
  BY <1>1, <1>2, PTL DEF Spec

LEMMA NodeAddressIsMine == NodeInv => Node!AddressIsMine
  BY DEF NodeInv, NodeCalm, NodeCurrentAt, NodeBeforeKey, Node!AddressIsMine,
         Node!CleanRunReaches
-----------------------------------------------------------------------------
(*****************************************************************************)
(* Browsers: the entry of the menu says what the machine has.                *)
(*****************************************************************************)

BrowserFields(m, r) ==
  /\ {"kind", "legacy", "snap", "key", "source", "package", "clone", "system", "profile",
       "opened",
      "unit", "enabled", "active", "mounted", "proxy", "entry", "menu", "panel",
      "pinned"} \subseteq DOMAIN m
  /\ RunFields(r) /\ "mirror" \in DOMAIN r.mem

\* What the run knows of the mirror it knows from its own look, and once the
\* entry is written it says what the machine has.
BrowserKnows(m, r) ==
  /\ r.mem.mirror => r.pc \in {"idle", "override", "menu", "pin", "end"}
  /\ r.pc = "default" => m.kind # "chrome"
  /\ m.kind = "chrome" /\ ~r.hurt =>
       /\ r.pc = "override" => (r.mem.mirror <=> m.mounted)
       /\ r.pc \in {"menu", "pin", "end"} /\ m.package =>
            ("mirror" \in m.entry <=> m.mounted) /\ ("proxy" \in m.entry <=> m.proxy)

BrowserInv == BrowserFields(sys, run) /\ BrowserKnows(sys, run)

LEMMA BrowserSteps ==
  ASSUME BrowserInv, Browser!Step
  PROVE  BrowserInv'
<1> USE DEF BrowserInv, BrowserFields, BrowserKnows, RunFields, Browser!Set, Browser!Do,
      Browser!Fault, Browser!FaultLeaving, Browser!Goto, Browser!Warned, Browser!Changed,
        Browser!Noted, Browser!Recall, Browser!Last
<1>1. CASE Browser!MoveLegacySource
  BY <1>1 DEF Browser!MoveLegacySource
<1>2. CASE Browser!DownloadKeyring
  BY <1>2 DEF Browser!DownloadKeyring
<1>3. CASE Browser!WriteKeyring
  BY <1>3 DEF Browser!WriteKeyring
<1>4. CASE Browser!FinishKeyring
  BY <1>4 DEF Browser!FinishKeyring
<1>5. CASE Browser!WriteSource
  BY <1>5 DEF Browser!WriteSource
<1>6. CASE Browser!InstallBrowser
  BY <1>6 DEF Browser!InstallBrowser, Browser!Chrome, Browser!Registered
<1>7. CASE Browser!RemoveSnap
  BY <1>7 DEF Browser!RemoveSnap
<1>8. CASE Browser!SyncRepository
  <2>1. \/ Browser!Do("sync", Browser!Set("clone", "new"),
                       Browser!Goto(Browser!Noted(run, sys.clone # "new"), "tree"))
        \/ \E copy : Browser!FaultLeaving("sync", Browser!Set("clone", copy),
                                         Browser!Goto(Browser!Warned(run), "tree"))
    <3> HIDE DEF Browser!Do, Browser!FaultLeaving, Browser!Set, Browser!Goto, Browser!Noted,
          Browser!Warned
    <3> QED
      BY <1>8 DEF Browser!SyncRepository
  <2>2. run'.pc = "tree" /\ run'.mem = run.mem /\ RunFields(run')
    BY <2>1
  <2>3. DOMAIN sys' = DOMAIN sys
    BY <2>1
  <2>4. ~run'.mem.mirror
    BY <2>1
  <2> QED
    BY <2>2, <2>3, <2>4
<1>9. CASE Browser!DeploySystem
  BY <1>9 DEF Browser!DeploySystem, Browser!Chrome
<1>10. CASE Browser!DeployProfile
  BY <1>10 DEF Browser!DeployProfile
<1>11. CASE Browser!WriteMountUnit
  BY <1>11 DEF Browser!WriteMountUnit
<1>12. CASE Browser!EnableMount
  <2>1. /\ run.pc = "mount" /\ run'.mem = run.mem /\ RunFields(run')
        /\ run'.pc \in {"check", "override"} /\ (run'.pc = "override" => run'.hurt)
    <3> HIDE DEF BrowserKnows
    <3> QED
      BY <1>12 DEF Browser!EnableMount
  <2>2. DOMAIN sys' = DOMAIN sys /\ sys'.kind = sys.kind
    <3> DEFINE started == [sys EXCEPT !.enabled = TRUE, !.active = TRUE,
                                     !.mounted = @ \/ ~sys.active]
    <3>1. sys' \in {started, sys, Browser!Set("enabled", TRUE)}
      <4> HIDE DEF BrowserKnows, BrowserFields, RunFields, Browser!Set, started
      <4> QED
        BY <1>12 DEF Browser!EnableMount, started
    <3>2. DOMAIN started = DOMAIN sys /\ started.kind = sys.kind
      OBVIOUS
    <3>3. /\ DOMAIN Browser!Set("enabled", TRUE) = DOMAIN sys
          /\ Browser!Set("enabled", TRUE).kind = sys.kind
      OBVIOUS
    <3> HIDE DEF started, Browser!Set
    <3> QED
      BY <3>1, <3>2, <3>3
  <2> QED
    BY <2>1, <2>2
<1>13. CASE Browser!MirrorIsMounted
  <2>1. run.pc = "check" /\ sys' = sys /\ run'.pc = "override" /\ RunFields(run')
    BY <1>13 DEF Browser!MirrorIsMounted
  <2>2. CASE sys.mounted
    <3>1. run'.mem = [mirror |-> TRUE]
      BY <1>13, <2>2 DEF Browser!MirrorIsMounted
    <3> QED
      BY <2>1, <2>2, <3>1
  <2>3. CASE ~sys.mounted
    BY <1>13, <2>1, <2>3 DEF Browser!MirrorIsMounted
  <2> QED
    BY <2>2, <2>3
<1>14. CASE Browser!WriteOverride
  <2>1. ("mirror" \in Browser!Flags <=> run.mem.mirror)
          /\ ("proxy" \in Browser!Flags <=> sys.proxy)
    BY DEF Browser!Flags
  <2>2. ASSUME NEW flags
        PROVE  /\ DOMAIN Browser!Entered(flags) = DOMAIN sys
               /\ Browser!Entered(flags).kind = sys.kind
               /\ Browser!Entered(flags).package = sys.package
               /\ Browser!Entered(flags).mounted = sys.mounted
               /\ Browser!Entered(flags).proxy = sys.proxy
               /\ Browser!Entered(flags).entry = flags
    BY DEF Browser!Entered
  <2> HIDE DEF BrowserFields, BrowserKnows, Browser!Entered, Browser!Flags
  <2>3. run.pc = "override" /\ run'.pc \in {"menu", "pin"} /\ (run.hurt => run'.hurt)
    BY <1>14 DEF Browser!WriteOverride, BrowserFields
  <2>4. run'.mem = run.mem /\ RunFields(run')
    BY <1>14 DEF Browser!WriteOverride, BrowserFields
  <2>5. \/ sys' = sys /\ (sys.package => sys.entry = Browser!Flags)
        \/ sys' = Browser!Entered(Browser!Flags)
        \/ run'.hurt /\ \E flags : sys' = Browser!Entered(flags)
    <3>1. CASE ~sys.package /\ Browser!Do("override", sys, Browser!Goto(Browser!Warned(run), "pin"))
      BY <3>1
    <3>2. CASE \E r : sys.entry = Browser!Flags /\ Browser!Do("override", sys, r)
      BY <3>2
    <3>3. CASE \E r : Browser!Do("override", Browser!Entered(Browser!Flags), r)
      BY <3>3
    <3>4. CASE \E flags, r : RunFields(r)
                 /\ Browser!FaultLeaving("override", Browser!Entered(flags), r)
      BY <3>4
    <3> DEFINE r0 == IF sys.proxy THEN run ELSE Browser!Warned(run)
    <3>5. ASSUME NEW r, RunFields(r)
          PROVE  RunFields(Browser!Warned(r)) /\ RunFields(Browser!Goto(r, "pin"))
      BY <3>5
    <3>6. RunFields(Browser!Goto(Browser!Warned(r0), "pin"))
      <4> HIDE DEF Browser!Warned, Browser!Goto, RunFields
      <4>1. RunFields(run)
        BY DEF BrowserInv, BrowserFields
      <4>2. RunFields(r0)
        BY <4>1, <3>5
      <4> QED
        BY <4>2, <3>5
    <3> HIDE DEF Browser!Do, Browser!FaultLeaving, Browser!Goto, Browser!Warned,
                 Browser!Changed, RunFields, BrowserInv
    <3> QED
      BY <1>14, <3>1, <3>2, <3>3, <3>4, <3>6, ZenonT(60) DEF Browser!WriteOverride
  <2>6. /\ DOMAIN sys' = DOMAIN sys /\ sys'.kind = sys.kind /\ sys'.package = sys.package
        /\ sys'.mounted = sys.mounted /\ sys'.proxy = sys.proxy
    BY <2>2, <2>5
  <2>7. ~run'.hurt /\ sys.package => sys'.entry = Browser!Flags
    BY <2>2, <2>5
  <2> QED
    BY <2>1, <2>3, <2>4, <2>6, <2>7 DEF BrowserFields, BrowserKnows
<1>15. CASE Browser!RefreshMenu
  BY <1>15 DEF Browser!RefreshMenu
<1>16. CASE Browser!SetDefault
  BY <1>16 DEF Browser!SetDefault
<1>17. CASE Browser!PinLauncher
  BY <1>17 DEF Browser!PinLauncher
<1> QED
  BY <1>1, <1>2, <1>3, <1>4, <1>5, <1>6, <1>7, <1>8, <1>9, <1>10, <1>11, <1>12, <1>13,
       <1>14, <1>15, <1>16, <1>17 DEF Browser!Step

LEMMA NextBrowser ==
  ASSUME BrowserInv, [Browser!Next]_vars
  PROVE  BrowserInv'
<1> USE DEF BrowserInv, BrowserFields, BrowserKnows, RunFields
<1>1. CASE Browser!StartTask
  BY <1>1 DEF Browser!StartTask, Browser!Begin, Browser!Fresh, Browser!Chrome
<1>2. CASE Browser!Kill
  BY <1>2 DEF Browser!Kill, Browser!NoRun
<1>3. ASSUME NEW m, Browser!Event(m), DOMAIN m = DOMAIN sys PROVE BrowserInv'
  BY <1>3 DEF Browser!Event, Browser!NoRun
<1>4. CASE Browser!Publish \/ Browser!OpenOrClose \/ Browser!ProxyChanges \/ Browser!Unmount
        \/ Browser!Reboot
  <2> HIDE DEF BrowserInv
  <2> QED
    BY <1>3, <1>4 DEF Browser!Publish, Browser!OpenOrClose, Browser!ProxyChanges,
         Browser!Unmount, Browser!Reboot
<1>5. CASE UNCHANGED vars
  BY <1>5 DEF vars
<1> QED
  BY <1>1, <1>2, <1>4, <1>5, BrowserSteps DEF Browser!Next

LEMMA InitBrowser == Browser!Init => BrowserInv
  BY DEF Browser!Init, BrowserInv, BrowserFields, BrowserKnows, RunFields, Browser!NoRun,
           Browser!Fresh

LEMMA BrowserEntry == BrowserInv => Browser!EntryFollowsMachine
  BY DEF BrowserInv, BrowserKnows, Browser!EntryFollowsMachine, Browser!Chrome

-----------------------------------------------------------------------------
(*****************************************************************************)
(* Packages: what is counted is installed, and the packaged policy and the   *)
(* sources survive.                                                          *)
(*****************************************************************************)
ToolsFields(m, r) ==
  /\ {"kind", "room", "archive", "have", "half", "enabled", "active", "policy", "backup",
       "shipped",
      "file", "keep"} \subseteq DOMAIN m
  /\ Sources \subseteq DOMAIN m.file
  /\ RunFields(r) /\ {"missing", "todo", "at", "tries", "got", "wrote"} \subseteq DOMAIN r.mem

\* what the run has counted is installed
ToolsCount(m, r) ==
  r.pc # "idle" =>
    /\ r.mem.got \subseteq m.have
    /\ r.mem.missing # {} => List \ r.mem.missing \subseteq m.have

\* where the policy of the package is while nothing fails, and which source
\* file is open
ToolsPolicy(m, r) ==
  /\ m.shipped => m.policy # "none" /\ "original" \in {m.policy, m.backup}
  /\ m.policy = "torn" => r.pc = "write"
  /\ r.pc = "backup" => m.policy = "original"
  /\ m.backup \in {"none", "original"} \/ (m.backup = "torn" /\ r.pc = "backup")
  /\ r.pc \in {"open", "write"} /\ m.shipped => m.backup = "original"
ToolsSources(m, r) ==
  \A f \in Sources : m.file[f] = "torn" => r.pc = "write_source" /\ r.mem.at = {f}

ToolsInv ==
  /\ ToolsFields(sys, run) /\ Allows(MaxFaults, MaxKills) /\ ToolsCount(sys, run)
  /\ Calm(MaxFaults, MaxKills) => ToolsPolicy(sys, run) /\ ToolsSources(sys, run)

LEMMA ToolsBounds ==
  ASSUME Allows(MaxFaults, MaxKills), Tools!Step
  PROVE  /\ Allows(MaxFaults, MaxKills)'
         /\ Calm(MaxFaults, MaxKills)' => /\ Calm(MaxFaults, MaxKills)
                                         /\ \A l, m, r : ~Tools!FaultLeaving(l, m, r)
<1>1. ASSUME NEW l, NEW m, NEW r, Tools!Do(l, m, r)
      PROVE  left' = left
  BY <1>1 DEF Tools!Do
<1>2. ASSUME NEW l, NEW m, NEW r, Tools!FaultLeaving(l, m, r)
      PROVE  Allows(MaxFaults, MaxKills)' /\ ~Calm(MaxFaults, MaxKills)'
  BY <1>2 DEF Tools!FaultLeaving, Allows, Calm
<1>3. left' = left \/ \E l, m, r : Tools!FaultLeaving(l, m, r)
  BY <1>1 DEF Tools!Fault, Tools!Step, Tools!LookAtPackages, Tools!RepairDatabase,
       Tools!RefreshIndex, Tools!InstallPackage, Tools!ConfigurePackage,
         Tools!EnableScheduler, Tools!StartScheduler, Tools!LookAtPolicy,
           Tools!SaveOriginal, Tools!OpenPolicy, Tools!WritePolicy, Tools!KeepDownloads,
             Tools!CollectSources, Tools!OpenSource, Tools!WriteSource,
               Tools!RefreshSources, Tools!VerifySources
<1> QED
  BY <1>1, <1>2, <1>3 DEF Allows, Calm

LEMMA ToolsFieldsStep ==
  ASSUME ToolsFields(sys, run), Tools!Step
  PROVE  ToolsFields(sys, run)'
<1> USE DEF Tools!Do, Tools!Fault, Tools!FaultLeaving, Tools!Goto, Tools!Warned,
      Tools!Changed, Tools!Noted, Tools!Recall, Tools!Last, Tools!Failed, Tools!Mem,
        ToolsFields, RunFields
<1>1. CASE Tools!LookAtPackages
  BY <1>1 DEF Tools!LookAtPackages, Tools!Fresh, Tools!Follow
<1>2. CASE Tools!RepairDatabase
  BY <1>2 DEF Tools!RepairDatabase
<1>3. CASE Tools!RefreshIndex
  BY <1>3 DEF Tools!RefreshIndex
<1>4. CASE Tools!InstallPackage
  BY <1>4 DEF Tools!InstallPackage, Tools!Candidates, Tools!Refused, Tools!Follow
<1>5. CASE Tools!ConfigurePackage
  <2> DEFINE done(p) == [sys EXCEPT !.half = {}, !.have = @ \cup {p}, !.room = @ - 1]
             got(p)  == Tools!Goto(Tools!Recall(Tools!Changed(run),
                          [run.mem EXCEPT !.todo = @ \ {p}, !.at = {}, !.tries = 0,
                                          !.got = @ \cup {p}]), "install")
  <2>1. PICK p :
          \/ Tools!Do("configure", Tools!Brings(p, done(p)), got(p))
          \/ \E h : Tools!FaultLeaving("configure", [sys EXCEPT !.half = h], Tools!Refused(p))
    <3> HIDE DEF Tools!Do, Tools!FaultLeaving, Tools!Goto, Tools!Recall, Tools!Changed,
          ToolsFields
    <3> QED
      BY <1>5 DEF Tools!ConfigurePackage
  <2>2. RunFields(Tools!Refused(p)) /\ DOMAIN Tools!Refused(p).mem = DOMAIN run.mem
    BY DEF Tools!Refused
  <2>3. RunFields(got(p)) /\ DOMAIN got(p).mem = DOMAIN run.mem
    OBVIOUS
  <2>4. /\ DOMAIN Tools!Brings(p, done(p)) = DOMAIN sys
        /\ Tools!Brings(p, done(p)).file = sys.file
    BY DEF Tools!Brings
  <2>5. /\ RunFields(run') /\ DOMAIN run'.mem = DOMAIN run.mem
        /\ DOMAIN sys' = DOMAIN sys /\ sys'.file = sys.file
    <3> HIDE DEF done, got
    <3> QED
      BY <2>1, <2>2, <2>3, <2>4
  <2> QED
    BY <2>5
<1>6. CASE Tools!EnableScheduler
  BY <1>6 DEF Tools!EnableScheduler
<1>7. CASE Tools!StartScheduler
  BY <1>7 DEF Tools!StartScheduler
<1>8. CASE Tools!LookAtPolicy
  BY <1>8 DEF Tools!LookAtPolicy
<1>9. CASE Tools!SaveOriginal
  BY <1>9 DEF Tools!SaveOriginal
<1>10. CASE Tools!OpenPolicy
  BY <1>10 DEF Tools!OpenPolicy
<1>11. CASE Tools!WritePolicy
  BY <1>11 DEF Tools!WritePolicy
<1>12. CASE Tools!KeepDownloads
  BY <1>12 DEF Tools!KeepDownloads
<1>13. CASE Tools!CollectSources
  BY <1>13 DEF Tools!CollectSources, Tools!Collect
<1>14. CASE Tools!OpenSource
  BY <1>14 DEF Tools!OpenSource
<1>15. CASE Tools!WriteSource
  BY <1>15 DEF Tools!WriteSource
<1>16. CASE Tools!RefreshSources
  BY <1>16 DEF Tools!RefreshSources
<1>17. CASE Tools!VerifySources
  BY <1>17 DEF Tools!VerifySources
<1> QED
  BY <1>1, <1>2, <1>3, <1>4, <1>5, <1>6, <1>7, <1>8, <1>9, <1>10, <1>11, <1>12, <1>13,
       <1>14, <1>15, <1>16, <1>17 DEF Tools!Step

LEMMA ToolsCountStep ==
  ASSUME ToolsFields(sys, run), ToolsCount(sys, run), Tools!Step
  PROVE  ToolsCount(sys, run)'
<1> USE DEF Tools!Do, Tools!Fault, Tools!FaultLeaving, Tools!Goto, Tools!Warned,
      Tools!Changed, Tools!Noted, Tools!Recall, Tools!Last, Tools!Failed, Tools!Mem,
        ToolsFields, RunFields, ToolsCount
<1>1. CASE Tools!LookAtPackages
  <2>1. sys' = sys /\ run.pc = "missing"
    BY <1>1 DEF Tools!LookAtPackages
  <2>2. \/ run'.mem.got = {} /\ run'.mem.missing = List \ sys.have
        \/ run'.mem = run.mem
    <3> DEFINE seen == [Tools!Fresh EXCEPT !.missing = List \ sys.have,
                                          !.todo = List \ sys.have]
    <3>1. run'.mem = seen \/ run'.mem = run.mem
      <4> HIDE DEF ToolsCount
      <4> QED
        BY <1>1 DEF Tools!LookAtPackages
    <3>2. seen.got = {} /\ seen.missing = List \ sys.have
      BY DEF Tools!Fresh
    <3> HIDE DEF seen
    <3> QED
      BY <3>1, <3>2
  <2> QED
    BY <2>1, <2>2
<1>2. CASE Tools!RepairDatabase
  <2>1. run.pc = "repair" /\ run'.mem = run.mem /\ sys.have \subseteq sys'.have
    <3> HIDE DEF ToolsCount
    <3> QED
      BY <1>2 DEF Tools!RepairDatabase
  <2> QED
    BY <2>1
<1>3. CASE Tools!RefreshIndex
  BY <1>3 DEF Tools!RefreshIndex
<1>4. CASE Tools!InstallPackage
  <2>1. \A p : /\ Tools!Refused(p).mem.got = run.mem.got
               /\ Tools!Refused(p).mem.missing = run.mem.missing
               /\ RunFields(Tools!Refused(p))
    BY DEF Tools!Refused, Tools!Follow
  <2>2. /\ sys'.have = sys.have /\ run.pc # "idle"
        /\ \/ run'.mem = run.mem \/ \E p : run'.mem = Tools!Refused(p).mem
           \/ \E v : run'.mem = [run.mem EXCEPT !["at"] = v]
    BY <1>4, <2>1 DEF Tools!InstallPackage
  <2>3. run'.mem.got = run.mem.got /\ run'.mem.missing = run.mem.missing
    BY <2>1, <2>2
  <2> QED
    BY <2>2, <2>3
<1>5. CASE Tools!ConfigurePackage
  <2>1. PICK package \in run.mem.at :
          \/ Tools!Do("configure",
                Tools!Brings(package, [sys EXCEPT !.half = {}, !.have = @ \cup {package},
                  !.room = @ - 1]),
                Tools!Goto(Tools!Recall(Tools!Changed(run),
                  [run.mem EXCEPT !.todo = @ \ {package},
                    !.at = {}, !.tries = 0, !.got = @ \cup {package}]), "install"))
          \/ \E half : Tools!FaultLeaving("configure", [sys EXCEPT !.half = half],
               Tools!Refused(package))
    BY <1>5 DEF Tools!ConfigurePackage
  <2>2. run.pc = "configure"
    BY <2>1
  <2>3. CASE \E half : Tools!FaultLeaving("configure", [sys EXCEPT !.half = half],
          Tools!Refused(package))
    <3>1. sys'.have = sys.have
      BY <2>3
    <3>2. run'.mem.got = run.mem.got /\ run'.mem.missing = run.mem.missing
      BY <2>3 DEF Tools!Refused, Tools!Follow
    <3> QED
      BY <2>2, <3>1, <3>2
  <2>4. CASE ~\E half : Tools!FaultLeaving("configure", [sys EXCEPT !.half = half],
          Tools!Refused(package))
    <3>1. sys'.have = sys.have \cup {package}
      BY <2>1, <2>4 DEF Tools!Brings
    <3>2. run'.mem.got = run.mem.got \cup {package} /\ run'.mem.missing = run.mem.missing
      BY <2>1, <2>4
    <3> QED
      BY <2>2, <3>1, <3>2
  <2> QED
    BY <2>3, <2>4
<1>6. CASE Tools!EnableScheduler
  BY <1>6 DEF Tools!EnableScheduler
<1>7. CASE Tools!StartScheduler
  BY <1>7 DEF Tools!StartScheduler
<1>8. CASE Tools!LookAtPolicy
  BY <1>8 DEF Tools!LookAtPolicy
<1>9. CASE Tools!SaveOriginal
  BY <1>9 DEF Tools!SaveOriginal
<1>10. CASE Tools!OpenPolicy
  BY <1>10 DEF Tools!OpenPolicy
<1>11. CASE Tools!WritePolicy
  BY <1>11 DEF Tools!WritePolicy
<1>12. CASE Tools!KeepDownloads
  BY <1>12 DEF Tools!KeepDownloads
<1>13. CASE Tools!CollectSources
  <2>1. sys'.have = sys.have /\ run.pc # "idle"
    BY <1>13 DEF Tools!CollectSources, Tools!Collect
  <2>2. \A files, r : r.mem = run.mem /\ RunFields(r) =>
          /\ Tools!Collect(files, r).mem.got = run.mem.got
          /\ Tools!Collect(files, r).mem.missing = run.mem.missing
          /\ RunFields(Tools!Collect(files, r))
    BY DEF Tools!Collect
  <2>3. /\ run.mem = run.mem /\ RunFields(run)
        /\ Tools!Warned(run).mem = run.mem /\ RunFields(Tools!Warned(run))
    OBVIOUS
  <2>4. \A r : [r EXCEPT !.hurt = TRUE].mem = r.mem \/ ~RunFields(r)
    OBVIOUS
  <2>5. \/ run' = Tools!Collect(Tools!Named, run)
        \/ \E f \in Sources : run' = [Tools!Collect(Tools!Named \ {f},
             Tools!Warned(run)) EXCEPT !.hurt = TRUE]
    <3> HIDE DEF Tools!Warned, ToolsFields, RunFields, ToolsCount, Tools!Goto, Tools!Last,
          Tools!Failed, Tools!Mem
    <3> QED
      BY <1>13 DEF Tools!CollectSources
  <2>6. CASE run' = Tools!Collect(Tools!Named, run)
    BY <2>1, <2>2, <2>3, <2>6
  <2>7. CASE \E f \in Sources : run' = [Tools!Collect(Tools!Named \ {f},
          Tools!Warned(run)) EXCEPT !.hurt = TRUE]
    <3>1. PICK f \in Sources : run' = [Tools!Collect(Tools!Named \ {f},
            Tools!Warned(run)) EXCEPT !.hurt = TRUE]
      BY <2>7
    <3> DEFINE r == Tools!Collect(Tools!Named \ {f}, Tools!Warned(run))
    <3>2. r.mem.got = run.mem.got /\ r.mem.missing = run.mem.missing /\ RunFields(r)
      BY <2>2, <2>3
    <3> HIDE DEF r
    <3>3. run'.mem = r.mem
      BY <3>1, <2>4, <3>2 DEF r
    <3> QED
      BY <2>1, <3>2, <3>3
  <2> QED
    BY <2>5, <2>6, <2>7
<1>14. CASE Tools!OpenSource
  <2>1. run.pc # "idle" /\ sys'.have = sys.have
    <3>1. run.pc # "idle" /\ (sys' = sys \/ \E f : sys' = [sys EXCEPT !.file[f] = "torn"])
      BY <1>14 DEF Tools!OpenSource
    <3> QED
      BY <3>1
  <2>2. CASE run'.mem = run.mem
    BY <2>1, <2>2
  <2>3. CASE run'.mem # run.mem
    <3>1. PICK f : \/ Tools!Do("open_source", [sys EXCEPT !.file[f] = "torn"],
                              Tools!Goto(Tools!Mem(run, "at", {f}), "write_source"))
                   \/ Tools!Fault("open_source",
                                  Tools!Mem(Tools!Warned(run), "todo", run.mem.todo \ {f}))
      BY <1>14, <2>3 DEF Tools!OpenSource
    <3>2. Tools!Warned(run).mem = run.mem
      OBVIOUS
    <3>3. run'.mem = [run.mem EXCEPT !["at"] = {f}] \/ run'.mem = [run.mem EXCEPT !["todo"]
            = run.mem.todo \ {f}]
      BY <3>1, <3>2
    <3>4. run'.mem.got = run.mem.got /\ run'.mem.missing = run.mem.missing
      BY <3>3
    <3> QED
      BY <2>1, <3>4
  <2> QED
    BY <2>2, <2>3
<1>15. CASE Tools!WriteSource
  <2>1. PICK f : LET r == Tools!Goto(Tools!Mem(run, "todo", run.mem.todo \ {f}),
          "open_source")
                 IN \/ Tools!Do("write_source", [sys EXCEPT !.file[f] = "complete"],
                             Tools!Mem(Tools!Changed(r), "wrote", TRUE))
                    \/ Tools!Fault("write_source", Tools!Warned(r))
    BY <1>15 DEF Tools!WriteSource
  <2>2. sys'.have = sys.have /\ run.pc # "idle"
    BY <2>1
  <2> DEFINE m == [run.mem EXCEPT !["todo"] = run.mem.todo \ {f}]
  <2>3. run'.mem = m \/ run'.mem = [m EXCEPT !["wrote"] = TRUE]
    BY <2>1
  <2>4. run'.mem.got = run.mem.got /\ run'.mem.missing = run.mem.missing
    BY <2>3
  <2> QED
    BY <2>2, <2>4
<1>16. CASE Tools!RefreshSources
  BY <1>16 DEF Tools!RefreshSources
<1>17. CASE Tools!VerifySources
  BY <1>17 DEF Tools!VerifySources
<1> QED
  BY <1>1, <1>2, <1>3, <1>4, <1>5, <1>6, <1>7, <1>8, <1>9, <1>10, <1>11, <1>12, <1>13,
       <1>14, <1>15, <1>16, <1>17 DEF Tools!Step

LEMMA ToolsPolicyStep ==
  ASSUME ToolsFields(sys, run), ToolsPolicy(sys, run),
         (\A l, m, r : ~Tools!FaultLeaving(l, m, r)), Tools!Step
  PROVE  ToolsPolicy(sys, run)'
<1> USE DEF Tools!Do, Tools!Fault, Tools!Goto, Tools!Warned, Tools!Changed, Tools!Noted,
      Tools!Recall, Tools!Last, Tools!Failed, Tools!Mem, ToolsFields, RunFields, ToolsPolicy
<1>1. CASE Tools!LookAtPackages
  BY <1>1 DEF Tools!LookAtPackages, Tools!Fresh, Tools!Follow
<1>2. CASE Tools!RepairDatabase
  BY <1>2 DEF Tools!RepairDatabase
<1>3. CASE Tools!RefreshIndex
  BY <1>3 DEF Tools!RefreshIndex
<1>4. CASE Tools!InstallPackage
  BY <1>4 DEF Tools!InstallPackage, Tools!Candidates, Tools!Refused, Tools!Follow
<1>5. CASE Tools!ConfigurePackage
  <2> DEFINE done(p) == [sys EXCEPT !.half = {}, !.have = @ \cup {p}, !.room = @ - 1]
             got(p)  == Tools!Goto(Tools!Recall(Tools!Changed(run),
                          [run.mem EXCEPT !.todo = @ \ {p}, !.at = {}, !.tries = 0,
                                          !.got = @ \cup {p}]), "install")
  <2>1. PICK p : Tools!Do("configure", Tools!Brings(p, done(p)), got(p))
    <3> HIDE DEF Tools!Do, Tools!Goto, Tools!Recall, Tools!Changed, ToolsPolicy
    <3> QED
      BY <1>5 DEF Tools!ConfigurePackage
  <2>2. LET m == Tools!Brings(p, done(p)) IN
          /\ m.backup = sys.backup
          /\ \/ m.policy = sys.policy /\ m.shipped = sys.shipped
             \/ m.policy = "original"
    BY DEF Tools!Brings
  <2>3. got(p).pc = "install"
    OBVIOUS
  <2> HIDE DEF done, got
  <2> QED
    BY <2>1, <2>2, <2>3
<1>6. CASE Tools!EnableScheduler
  BY <1>6 DEF Tools!EnableScheduler
<1>7. CASE Tools!StartScheduler
  BY <1>7 DEF Tools!StartScheduler
<1>8. CASE Tools!LookAtPolicy
  BY <1>8 DEF Tools!LookAtPolicy
<1>9. CASE Tools!SaveOriginal
  BY <1>9 DEF Tools!SaveOriginal
<1>10. CASE Tools!OpenPolicy
  BY <1>10 DEF Tools!OpenPolicy
<1>11. CASE Tools!WritePolicy
  BY <1>11 DEF Tools!WritePolicy
<1>12. CASE Tools!KeepDownloads
  BY <1>12 DEF Tools!KeepDownloads
<1>13. CASE Tools!CollectSources
  BY <1>13 DEF Tools!CollectSources, Tools!Collect
<1>14. CASE Tools!OpenSource
  BY <1>14 DEF Tools!OpenSource
<1>15. CASE Tools!WriteSource
  BY <1>15 DEF Tools!WriteSource
<1>16. CASE Tools!RefreshSources
  BY <1>16 DEF Tools!RefreshSources
<1>17. CASE Tools!VerifySources
  BY <1>17 DEF Tools!VerifySources
<1> QED
  BY <1>1, <1>2, <1>3, <1>4, <1>5, <1>6, <1>7, <1>8, <1>9, <1>10, <1>11, <1>12, <1>13,
       <1>14, <1>15, <1>16, <1>17 DEF Tools!Step

LEMMA ToolsSourcesStep ==
  ASSUME ToolsFields(sys, run), ToolsSources(sys, run),
         (\A l, m, r : ~Tools!FaultLeaving(l, m, r)), Tools!Step
  PROVE  ToolsSources(sys, run)'
<1> USE DEF Tools!Do, Tools!Fault, Tools!Goto, Tools!Warned, Tools!Changed, Tools!Noted,
      Tools!Recall, Tools!Last, Tools!Failed, Tools!Mem, ToolsFields, RunFields, ToolsSources
<1>1. CASE Tools!LookAtPackages
  BY <1>1 DEF Tools!LookAtPackages, Tools!Fresh, Tools!Follow
<1>2. CASE Tools!RepairDatabase
  BY <1>2 DEF Tools!RepairDatabase
<1>3. CASE Tools!RefreshIndex
  BY <1>3 DEF Tools!RefreshIndex
<1>4. CASE Tools!InstallPackage
  BY <1>4 DEF Tools!InstallPackage, Tools!Candidates, Tools!Refused, Tools!Follow
<1>5. CASE Tools!ConfigurePackage
  <2> DEFINE done(p) == [sys EXCEPT !.half = {}, !.have = @ \cup {p}, !.room = @ - 1]
             got(p)  == Tools!Goto(Tools!Recall(Tools!Changed(run),
                          [run.mem EXCEPT !.todo = @ \ {p}, !.at = {}, !.tries = 0,
                                          !.got = @ \cup {p}]), "install")
  <2>1. PICK p : Tools!Do("configure", Tools!Brings(p, done(p)), got(p))
    <3> HIDE DEF Tools!Do, Tools!Goto, Tools!Recall, Tools!Changed, ToolsSources
    <3> QED
      BY <1>5 DEF Tools!ConfigurePackage
  <2>2. Tools!Brings(p, done(p)).file = sys.file
    BY DEF Tools!Brings
  <2>3. got(p).pc = "install"
    OBVIOUS
  <2> HIDE DEF done, got
  <2> QED
    BY <2>1, <2>2, <2>3
<1>6. CASE Tools!EnableScheduler
  BY <1>6 DEF Tools!EnableScheduler
<1>7. CASE Tools!StartScheduler
  BY <1>7 DEF Tools!StartScheduler
<1>8. CASE Tools!LookAtPolicy
  BY <1>8 DEF Tools!LookAtPolicy
<1>9. CASE Tools!SaveOriginal
  BY <1>9 DEF Tools!SaveOriginal
<1>10. CASE Tools!OpenPolicy
  BY <1>10 DEF Tools!OpenPolicy
<1>11. CASE Tools!WritePolicy
  BY <1>11 DEF Tools!WritePolicy
<1>12. CASE Tools!KeepDownloads
  BY <1>12 DEF Tools!KeepDownloads
<1>13. CASE Tools!CollectSources
  BY <1>13 DEF Tools!CollectSources, Tools!Collect
<1>14. CASE Tools!OpenSource
  <2>1. \A g \in Sources : sys.file[g] # "torn"
    BY <1>14 DEF Tools!OpenSource
  <2>2. \/ sys' = sys
        \/ \E f \in run.mem.todo : /\ sys' = [sys EXCEPT !.file[f] = "torn"]
                                  /\ run' = Tools!Goto(Tools!Mem(run, "at", {f}),
                                       "write_source")
    BY <1>14 DEF Tools!OpenSource
  <2>3. CASE sys' = sys
    BY <2>1, <2>3
  <2>4. CASE \E f \in run.mem.todo : /\ sys' = [sys EXCEPT !.file[f] = "torn"]
                                    /\ run' = Tools!Goto(Tools!Mem(run, "at", {f}),
                                         "write_source")
    <3>1. PICK f : /\ sys' = [sys EXCEPT !.file[f] = "torn"]
                   /\ run' = Tools!Goto(Tools!Mem(run, "at", {f}), "write_source")
      BY <2>4
    <3>2. run'.pc = "write_source" /\ run'.mem.at = {f}
      BY <3>1
    <3>3. \A g \in Sources : sys'.file[g] = "torn" => g = f
      BY <2>1, <3>1
    <3> QED
      BY <3>2, <3>3
  <2> QED
    BY <2>2, <2>3, <2>4
<1>15. CASE Tools!WriteSource
  BY <1>15 DEF Tools!WriteSource
<1>16. CASE Tools!RefreshSources
  BY <1>16 DEF Tools!RefreshSources
<1>17. CASE Tools!VerifySources
  BY <1>17 DEF Tools!VerifySources
<1> QED
  BY <1>1, <1>2, <1>3, <1>4, <1>5, <1>6, <1>7, <1>8, <1>9, <1>10, <1>11, <1>12, <1>13,
       <1>14, <1>15, <1>16, <1>17 DEF Tools!Step

LEMMA NextTools ==
  ASSUME ToolsInv, [Tools!Next]_vars
  PROVE  ToolsInv'
<1>1. CASE Tools!Step
  <2>1. ToolsFields(sys, run)' /\ ToolsCount(sys, run)' /\ Allows(MaxFaults, MaxKills)'
    BY <1>1, ToolsFieldsStep, ToolsCountStep, ToolsBounds DEF ToolsInv
  <2>2. ASSUME Calm(MaxFaults, MaxKills)'
        PROVE ToolsPolicy(sys, run)' /\ ToolsSources(sys, run)'
    BY <1>1, <2>2, ToolsBounds, ToolsPolicyStep, ToolsSourcesStep DEF ToolsInv
  <2> QED
    BY <2>1, <2>2 DEF ToolsInv
<1> USE DEF ToolsInv, ToolsFields, ToolsCount, RunFields, Allows, Calm
<1>2. CASE Tools!StartTask
  BY <1>2 DEF Tools!StartTask, Tools!Begin, Tools!Fresh, Tools!AtRest, ToolsPolicy,
       ToolsSources
<1>3. CASE Tools!Kill
  BY <1>3 DEF Tools!Kill, Tools!NoRun
<1>4. ASSUME NEW m, Tools!Event(m), DOMAIN m = DOMAIN sys, m.policy = sys.policy,
               m.backup = sys.backup,
             m.shipped = sys.shipped, m.file = sys.file
      PROVE  ToolsInv'
  BY <1>4 DEF Tools!Event, Tools!NoRun, Tools!AtRest, ToolsPolicy, ToolsSources
<1>5. CASE Tools!ArchiveGains \/ Tools!SpaceFreed \/ Tools!Removed \/ Tools!Reboot
  <2> DEFINE Same(m) == /\ DOMAIN m = DOMAIN sys /\ m.policy = sys.policy
        /\ m.backup = sys.backup
                        /\ m.shipped = sys.shipped /\ m.file = sys.file
  <2>1. \E m : Tools!Event(m) /\ Same(m)
    <3>1. Same([sys EXCEPT !.archive = List])
      OBVIOUS
    <3>2. Same([sys EXCEPT !.room = MaxRoom])
      OBVIOUS
    <3>3. \A p : Same([sys EXCEPT !.have = @ \ {p}, !.active = @
            /\ p # Leading, !.enabled = @ /\ p # Leading])
      OBVIOUS
    <3>4. Same([sys EXCEPT !.active = sys.enabled])
      OBVIOUS
    <3> HIDE DEF Same, ToolsInv
    <3> QED
      BY <1>5, <3>1, <3>2, <3>3, <3>4 DEF Tools!ArchiveGains, Tools!SpaceFreed,
           Tools!Removed, Tools!Reboot
  <2> HIDE DEF ToolsInv
  <2> QED
    BY <1>4, <2>1
<1>6. CASE UNCHANGED vars
  BY <1>6 DEF vars, ToolsPolicy, ToolsSources
<1> QED
  BY <1>1, <1>2, <1>3, <1>5, <1>6 DEF Tools!Next

LEMMA InitTools == Tools!Init => ToolsInv
  BY BoundsAreNumbers DEF Tools!Init, ToolsInv, ToolsFields, ToolsCount, ToolsPolicy,
       ToolsSources, RunFields, Allows, Tools!NoRun, Tools!Fresh, Tools!Budget

LEMMA ToolsPromises ==
  ToolsInv => Tools!ShareIsHonest /\ Tools!OriginalKeptUndisturbed /\ Tools!SourcesKept
  BY DEF ToolsInv, ToolsCount, ToolsPolicy, ToolsSources, Calm, Tools!ShareIsHonest,
           Tools!OriginalKeptUndisturbed, Tools!OriginalKept, Tools!SourcesKept, Tools!AtRest

-----------------------------------------------------------------------------
(*****************************************************************************)
(* The ssh daemon: something listens, and it reads what the file says.       *)
(*****************************************************************************)
SshFields(m, r) ==
  /\ {"kind", "package", "augtool", "include", "dropin", "socket", "enabled", "conf",
       "bound", "keys"} \subseteq DOMAIN m
  /\ m.dropin \in Ssh!Dropins /\ m.kind \in {"daemon", "client"}
  /\ RunFields(r)
       /\ {"wrote", "port", "off", "todo", "socket", "enabled",
            "active"} \subseteq DOMAIN r.mem

\* what a run whose calls all succeeded has made sure of
SshReach(m, r) ==
  m.kind = "daemon" /\ ~r.hurt =>
    /\ r.pc \notin {"idle", "package", "end"} => m.package
    /\ r.pc \in {"keys", "socket", "enable", "start"} /\ r.mem.active => m.conf # "down"
    /\ r.pc \in {"listen", "end"} => m.conf # "down"

\* What the daemon has read differs from the file only where the run that wrote
\* it still knows of a restart or a reload to come.
ReadsFile(m)  == m.conf # "down" => m.conf = Ssh!Effective(m)
HoldsPort(m)  == m.conf # "down" => (m.bound <=> Ssh!SamePort(m.conf))
SshFollows(m, r) ==
  m.kind = "daemon" =>
    /\ r.pc \in {"package", "include", "augtool", "dropin"} => ~r.mem.off /\ ~r.mem.wrote
    /\ r.pc \in {"idle", "end", "package"} => ReadsFile(m) /\ HoldsPort(m) /\ ~m.socket
    /\ r.pc \in {"include", "augtool", "dropin"} => ReadsFile(m) /\ (~m.socket
         => HoldsPort(m))
    /\ r.pc \in {"augtool", "dropin", "verify", "units", "keys", "socket", "enable",
         "start", "listen", "end"} =>
         r.warn \/ m.include
    /\ r.pc \notin {"idle", "package", "end"} => m.package
    /\ r.pc \in {"verify", "units", "keys", "socket", "enable", "start", "listen", "end"} =>
         \/ m.dropin = "target"
         \/ r.pc = "idle"
    /\ r.pc \in {"verify", "units", "keys", "socket", "enable", "start"} =>
         /\ m.conf # "down" /\ m.conf # Ssh!Effective(m) => r.mem.wrote
         /\ m.conf # "down" /\ ~(Ssh!SamePort(m.conf) <=> Ssh!SamePort(Ssh!Effective(m)))
              => r.mem.port
         /\ ~m.socket /\ ~r.mem.off => HoldsPort(m)
         /\ r.mem.wrote => r.changed
    /\ r.pc \in {"verify", "units", "keys", "socket"} => ~r.mem.off
    /\ r.pc \in {"keys", "socket", "enable", "start"} => (r.mem.active <=> m.conf # "down")
    /\ r.pc \in {"keys", "socket"} => (r.mem.socket <=> m.socket)
    /\ r.pc \in {"enable", "start"} => ~m.socket
    /\ r.pc = "listen" => m.conf = Ssh!Effective(m) /\ HoldsPort(m) /\ ~m.socket
    /\ r.pc = "end" => m.conf # "down"

SshInv ==
  /\ SshFields(sys, run) /\ Allows(MaxFaults, MaxKills) /\ SshReach(sys, run)
  /\ Calm(MaxFaults, MaxKills) => SshFollows(sys, run)

\* what a daemon that starts or stops leaves of the machine
LEMMA SshUp ==
  ASSUME NEW m, {"kind", "package", "include", "dropin", "socket", "conf",
           "bound"} \subseteq DOMAIN m
  PROVE  /\ DOMAIN Ssh!Up(m) = DOMAIN m /\ DOMAIN Ssh!Down(m) = DOMAIN m
         /\ Ssh!Up(m).kind = m.kind /\ Ssh!Up(m).dropin = m.dropin
              /\ Ssh!Up(m).package = m.package
         /\ Ssh!Up(m).socket = m.socket /\ Ssh!Up(m).include = m.include
         /\ Ssh!Down(m).kind = m.kind /\ Ssh!Down(m).dropin = m.dropin
         /\ Ssh!Up(m).conf = Ssh!Effective(m) /\ Ssh!Down(m).conf = "down"
         /\ Ssh!Up(m).bound = (Ssh!SamePort(Ssh!Effective(m)) /\ ~m.socket)
  BY DEF Ssh!Up, Ssh!Down

LEMMA SshBounds ==
  ASSUME Allows(MaxFaults, MaxKills), Ssh!Step
  PROVE  /\ Allows(MaxFaults, MaxKills)'
         /\ Calm(MaxFaults, MaxKills)' => /\ Calm(MaxFaults, MaxKills)
                                         /\ \A l, m, r : ~Ssh!FaultLeaving(l, m, r)
<1>1. ASSUME NEW l, NEW m, NEW r, Ssh!Do(l, m, r)
      PROVE  left' = left
  BY <1>1 DEF Ssh!Do
<1>2. ASSUME NEW l, NEW m, NEW r, Ssh!FaultLeaving(l, m, r)
      PROVE  Allows(MaxFaults, MaxKills)' /\ ~Calm(MaxFaults, MaxKills)'
  BY <1>2 DEF Ssh!FaultLeaving, Allows, Calm
<1>3. left' = left \/ \E l, m, r : Ssh!FaultLeaving(l, m, r)
  BY <1>1 DEF Ssh!Fault, Ssh!Step, Ssh!InstallPackage, Ssh!CheckInclude, Ssh!EnsureAugtool,
       Ssh!SyncDropin, Ssh!VerifyConfig, Ssh!LookAtUnits, Ssh!DeployKeys, Ssh!DisableSocket,
         Ssh!EnableService, Ssh!StartService, Ssh!VerifyListener
<1> QED
  BY <1>1, <1>2, <1>3 DEF Allows, Calm

LEMMA SshFieldsStep ==
  ASSUME SshFields(sys, run), Ssh!Step
  PROVE  SshFields(sys, run)'
<1> USE DEF Ssh!Do, Ssh!Fault, Ssh!FaultLeaving, Ssh!Goto, Ssh!Warned, Ssh!Changed,
      Ssh!Noted, Ssh!Recall, Ssh!Mem, SshFields, RunFields, Ssh!Dropins
<1>1. CASE Ssh!InstallPackage
  <2> DEFINE m == [sys EXCEPT !.package = TRUE, !.socket = TRUE, !.enabled = TRUE]
  <2>1. /\ DOMAIN m = DOMAIN sys /\ m.kind = sys.kind /\ m.dropin = sys.dropin
             /\ m.conf = sys.conf
        /\ m.bound = sys.bound /\ m.include = sys.include /\ m.package /\ m.socket
    OBVIOUS
  <2>2. {"kind", "package", "include", "dropin", "socket", "conf", "bound"} \subseteq DOMAIN m
    BY <2>1
  <2> HIDE DEF m
  <2>3. DOMAIN Ssh!Up(m) = DOMAIN sys /\ Ssh!Up(m).dropin = sys.dropin
          /\ Ssh!Up(m).kind = sys.kind
    BY <2>1, <2>2, SshUp
  <2>4. RunFields(run') /\ DOMAIN run'.mem = DOMAIN run.mem
          /\ (sys' = sys \/ sys' = m \/ sys' = Ssh!Up(m))
    <3> QED
      BY <1>1 DEF Ssh!InstallPackage, m
  <2> QED
    BY <2>1, <2>3, <2>4
<1>2. CASE Ssh!CheckInclude
  BY <1>2 DEF Ssh!CheckInclude
<1>3. CASE Ssh!EnsureAugtool
  BY <1>3 DEF Ssh!EnsureAugtool, Ssh!Client, Ssh!AfterDropin
<1>4. CASE Ssh!SyncDropin
  BY <1>4 DEF Ssh!SyncDropin, Ssh!Client, Ssh!AfterDropin, Ssh!SamePort
<1>5. CASE Ssh!VerifyConfig
  BY <1>5 DEF Ssh!VerifyConfig, Ssh!Client, Ssh!AfterDropin
<1>6. CASE Ssh!LookAtUnits
  BY <1>6 DEF Ssh!LookAtUnits, Ssh!Running
<1>7. CASE Ssh!DeployKeys
  BY <1>7 DEF Ssh!DeployKeys, Ssh!Settled
<1>8. CASE Ssh!DisableSocket
  BY <1>8 DEF Ssh!DisableSocket
<1>9. CASE Ssh!EnableService
  BY <1>9 DEF Ssh!EnableService
<1>10. CASE Ssh!StartService
  <2>1. /\ DOMAIN Ssh!Up(sys) = DOMAIN sys /\ Ssh!Up(sys).dropin = sys.dropin
             /\ Ssh!Up(sys).kind = sys.kind
        /\ DOMAIN Ssh!Down(sys) = DOMAIN sys /\ Ssh!Down(sys).dropin = sys.dropin
             /\ Ssh!Down(sys).kind = sys.kind
    BY SshUp
  <2>2. sys' = sys \/ sys' = Ssh!Up(sys) \/ sys' = Ssh!Down(sys) \/ sys' = [sys EXCEPT
          !.conf = Ssh!Effective(sys)]
    BY <1>10 DEF Ssh!StartService
  <2>3. RunFields(run') /\ DOMAIN run'.mem = DOMAIN run.mem
    BY <1>10 DEF Ssh!StartService
  <2> QED
    BY <2>1, <2>2, <2>3
<1>11. CASE Ssh!VerifyListener
  <2>1. DOMAIN Ssh!Down(sys) = DOMAIN sys /\ Ssh!Down(sys).dropin = sys.dropin
          /\ Ssh!Down(sys).kind = sys.kind
    BY SshUp
  <2>2. sys' = sys \/ sys' = Ssh!Down(sys)
    BY <1>11 DEF Ssh!VerifyListener
  <2>3. RunFields(run') /\ DOMAIN run'.mem = DOMAIN run.mem
    BY <1>11 DEF Ssh!VerifyListener
  <2> QED
    BY <2>1, <2>2, <2>3
<1> QED
  BY <1>1, <1>2, <1>3, <1>4, <1>5, <1>6, <1>7, <1>8, <1>9, <1>10, <1>11 DEF Ssh!Step

LEMMA SshReachStep ==
  ASSUME SshFields(sys, run), SshReach(sys, run), Ssh!Step
  PROVE  SshReach(sys, run)'
<1> USE DEF Ssh!Do, Ssh!Fault, Ssh!FaultLeaving, Ssh!Goto, Ssh!Warned, Ssh!Changed,
      Ssh!Noted, Ssh!Recall, Ssh!Mem, SshFields, RunFields, SshReach, Ssh!Dropins
<1>1. CASE Ssh!InstallPackage
  <2> DEFINE m == [sys EXCEPT !.package = TRUE, !.socket = TRUE, !.enabled = TRUE]
  <2>1. /\ DOMAIN m = DOMAIN sys /\ m.kind = sys.kind /\ m.dropin = sys.dropin
             /\ m.conf = sys.conf
        /\ m.bound = sys.bound /\ m.include = sys.include /\ m.package /\ m.socket
    OBVIOUS
  <2>2. {"kind", "package", "include", "dropin", "socket", "conf", "bound"} \subseteq DOMAIN m
    BY <2>1
  <2> HIDE DEF m
  <2>3. Ssh!Up(m).kind = sys.kind /\ Ssh!Up(m).package
    BY <2>1, <2>2, SshUp
  <2>4. /\ run'.pc = "include"
        /\ run'.hurt \/ (sys' = sys /\ sys.package) \/ sys' = m \/ sys' = Ssh!Up(m)
        /\ sys' = sys \/ sys' = m \/ sys' = Ssh!Up(m)
    BY <1>1 DEF Ssh!InstallPackage, m
  <2> QED
    BY <2>1, <2>3, <2>4
<1>2. CASE Ssh!CheckInclude
  BY <1>2 DEF Ssh!CheckInclude
<1>3. CASE Ssh!EnsureAugtool
  BY <1>3 DEF Ssh!EnsureAugtool, Ssh!Client, Ssh!AfterDropin
<1>4. CASE Ssh!SyncDropin
  BY <1>4 DEF Ssh!SyncDropin, Ssh!Client, Ssh!AfterDropin, Ssh!SamePort
<1>5. CASE Ssh!VerifyConfig
  BY <1>5 DEF Ssh!VerifyConfig, Ssh!Client, Ssh!AfterDropin
<1>6. CASE Ssh!LookAtUnits
  BY <1>6 DEF Ssh!LookAtUnits, Ssh!Running
<1>7. CASE Ssh!DeployKeys
  BY <1>7 DEF Ssh!DeployKeys, Ssh!Settled
<1>8. CASE Ssh!DisableSocket
  BY <1>8 DEF Ssh!DisableSocket
<1>9. CASE Ssh!EnableService
  BY <1>9 DEF Ssh!EnableService
<1>10. CASE Ssh!StartService
  BY <1>10 DEF Ssh!StartService, Ssh!Restarts, Ssh!Reloads, Ssh!Up, Ssh!Down, Ssh!Effective,
       Ssh!SamePort, Ssh!Running
<1>11. CASE Ssh!VerifyListener
  BY <1>11 DEF Ssh!VerifyListener, Ssh!Down
<1> QED
  BY <1>1, <1>2, <1>3, <1>4, <1>5, <1>6, <1>7, <1>8, <1>9, <1>10, <1>11 DEF Ssh!Step

LEMMA SshFollowsStep ==
  ASSUME SshFields(sys, run), SshFollows(sys, run),
         (\A l, m, r : ~Ssh!FaultLeaving(l, m, r)), Ssh!Step
  PROVE  SshFollows(sys, run)'
<1> USE DEF Ssh!Do, Ssh!Fault, Ssh!Goto, Ssh!Warned, Ssh!Changed, Ssh!Noted, Ssh!Recall,
      Ssh!Mem, SshFields, RunFields, SshFollows, ReadsFile, HoldsPort, Ssh!Effective,
        Ssh!SamePort, Ssh!Dropins
<1>1. CASE Ssh!InstallPackage
  <2> DEFINE m == [sys EXCEPT !.package = TRUE, !.socket = TRUE, !.enabled = TRUE]
  <2>1. /\ DOMAIN m = DOMAIN sys /\ m.kind = sys.kind /\ m.dropin = sys.dropin
             /\ m.conf = sys.conf
        /\ m.bound = sys.bound /\ m.include = sys.include /\ m.package /\ m.socket
    OBVIOUS
  <2>2. {"kind", "package", "include", "dropin", "socket", "conf", "bound"} \subseteq DOMAIN m
    BY <2>1
  <2> HIDE DEF m
  <2>3. /\ Ssh!Up(m).kind = sys.kind /\ Ssh!Up(m).package /\ Ssh!Up(m).socket
        /\ Ssh!Up(m).conf = Ssh!Effective(m) /\ Ssh!Effective(Ssh!Up(m)) = Ssh!Effective(m)
    BY <2>1, <2>2, SshUp DEF Ssh!Effective
  <2>4. /\ run.pc = "package" /\ run'.pc = "include" /\ run'.mem = run.mem
        /\ (sys' = sys /\ sys.package) \/ sys' = m \/ sys' = Ssh!Up(m)
    <3> QED
      BY <1>1 DEF Ssh!InstallPackage, m
  <2> HIDE DEF m
  <2> QED
    BY <2>1, <2>3, <2>4
<1>2. CASE Ssh!CheckInclude
  BY <1>2 DEF Ssh!CheckInclude
<1>3. CASE Ssh!EnsureAugtool
  BY <1>3 DEF Ssh!EnsureAugtool, Ssh!Client, Ssh!AfterDropin
<1>4. CASE Ssh!SyncDropin
  <2>1. CASE run.force \/ sys.dropin # "target"
    <3>1. /\ run.pc = "dropin" /\ sys' = [sys EXCEPT !.dropin = "target"]
               /\ run'.pc = "verify"
          /\ run'.warn = run.warn /\ run'.changed
          /\ run'.mem = [[run.mem EXCEPT !["wrote"] = TRUE] EXCEPT !["port"] =
               ~Ssh!SamePort(sys.dropin)]
      BY <1>4, <2>1 DEF Ssh!SyncDropin
    <3>2. /\ run'.mem.off = run.mem.off /\ run'.mem.wrote
               /\ run'.mem.port = ~Ssh!SamePort(sys.dropin)
      BY <3>1
    <3> QED
      BY <3>1, <3>2
  <2>2. CASE ~(run.force \/ sys.dropin # "target")
    <3>1. /\ run.pc = "dropin" /\ sys' = sys /\ run'.pc = Ssh!AfterDropin
          /\ run'.warn = run.warn /\ run'.changed = run.changed /\ run'.mem = run.mem
      BY <1>4, <2>2 DEF Ssh!SyncDropin
    <3> QED
      BY <2>2, <3>1 DEF Ssh!AfterDropin, Ssh!Client
  <2> QED
    BY <2>1, <2>2
<1>5. CASE Ssh!VerifyConfig
  BY <1>5 DEF Ssh!VerifyConfig, Ssh!Client, Ssh!AfterDropin
<1>6. CASE Ssh!LookAtUnits
  BY <1>6 DEF Ssh!LookAtUnits, Ssh!Running
<1>7. CASE Ssh!DeployKeys
  <2>1. /\ run.pc = "keys" /\ run'.pc \in {"keys", "socket", "end"} /\ run'.warn = run.warn
        /\ sys' = sys \/ \E keys : sys' = [sys EXCEPT !.keys = keys]
        /\ run.changed => run'.changed
    BY <1>7 DEF Ssh!DeployKeys
  <2>5. run'.pc = "end" => Ssh!Settled /\ run'.changed = run.changed
    BY <1>7 DEF Ssh!DeployKeys
  <2>2. run'.mem = run.mem \/ \E todo : run'.mem = [run.mem EXCEPT !["todo"] = todo]
    BY <1>7 DEF Ssh!DeployKeys
  <2>3. /\ run'.mem.off = run.mem.off /\ run'.mem.wrote = run.mem.wrote
             /\ run'.mem.port = run.mem.port
        /\ run'.mem.active = run.mem.active /\ run'.mem.socket = run.mem.socket
    BY <2>2
  <2>4. /\ sys'.kind = sys.kind /\ sys'.package = sys.package /\ sys'.include = sys.include
        /\ sys'.dropin = sys.dropin /\ sys'.conf = sys.conf /\ sys'.bound = sys.bound
        /\ sys'.socket = sys.socket
    BY <2>1
  <2> QED
    BY <2>1, <2>3, <2>4, <2>5 DEF Ssh!Settled
<1>8. CASE Ssh!DisableSocket
  <2>1. CASE run.mem.socket
    <3>1. /\ run.pc = "socket" /\ sys' = [sys EXCEPT !.socket = FALSE] /\ run'.pc = "enable"
          /\ run'.warn = run.warn /\ run'.changed
          /\ run'.mem = [run.mem EXCEPT !["off"] = TRUE]
      BY <1>8, <2>1 DEF Ssh!DisableSocket
    <3>2. /\ run'.mem.off /\ run'.mem.wrote = run.mem.wrote /\ run'.mem.port = run.mem.port
          /\ run'.mem.active = run.mem.active
      BY <3>1
    <3> QED
      BY <3>1, <3>2
  <2>2. CASE ~run.mem.socket
    <3>1. /\ run.pc = "socket" /\ sys' = sys /\ run'.pc = "enable"
          /\ run'.warn = run.warn /\ run'.changed = run.changed /\ run'.mem = run.mem
      BY <1>8, <2>2 DEF Ssh!DisableSocket
    <3> QED
      BY <2>2, <3>1
  <2> QED
    BY <2>1, <2>2
<1>9. CASE Ssh!EnableService
  BY <1>9 DEF Ssh!EnableService
<1>10. CASE Ssh!StartService
  <2>1. /\ run.pc = "start" /\ run'.pc \in {"listen", "end"}
        /\ \/ run'.warn = run.warn
           \/ run'.warn = TRUE /\ ~run.mem.active /\ ~sys.package
    BY <1>10 DEF Ssh!StartService
  <2>2. CASE ~run.mem.active
    <3>1. sys'.kind = sys.kind
      BY <1>10, SshUp, <2>2 DEF Ssh!StartService, Ssh!Restarts, Ssh!Reloads
    <3>2. CASE sys.kind = "daemon"
      <4>1. sys' = Ssh!Up(sys) /\ run'.pc = "listen"
        BY <1>10, <2>1, <2>2, <3>2 DEF Ssh!StartService, Ssh!Restarts, Ssh!Reloads,
             Ssh!Running
      <4> QED
        BY <2>1, <2>2, <4>1 DEF Ssh!Up
    <3> QED
      BY <3>1, <3>2
  <2>3. CASE run.mem.active /\ Ssh!Restarts
    <3>1. sys' = Ssh!Up(sys) /\ run'.pc = "listen"
      BY <1>10, <2>3 DEF Ssh!StartService, Ssh!Reloads
    <3> QED
      BY <2>1, <2>3, <3>1 DEF Ssh!Up
  <2>4. CASE run.mem.active /\ Ssh!Reloads
    <3>1. sys' = [sys EXCEPT !.conf = Ssh!Effective(sys)] /\ run'.pc = "end"
      BY <1>10, <2>4 DEF Ssh!StartService, Ssh!Reloads
    <3> QED
      BY <2>1, <2>4, <3>1 DEF Ssh!Reloads, Ssh!Restarts
  <2>5. CASE run.mem.active /\ ~Ssh!Restarts /\ ~Ssh!Reloads
    <3>1. sys' = sys /\ run'.pc = "end"
      BY <1>10, <2>5 DEF Ssh!StartService
    <3> QED
      BY <2>1, <2>5, <3>1 DEF Ssh!Reloads, Ssh!Restarts
  <2> QED
    BY <2>2, <2>3, <2>4, <2>5
<1>11. CASE Ssh!VerifyListener
  BY <1>11 DEF Ssh!VerifyListener, Ssh!Down
<1> QED
  BY <1>1, <1>2, <1>3, <1>4, <1>5, <1>6, <1>7, <1>8, <1>9, <1>10, <1>11 DEF Ssh!Step

LEMMA NextSsh ==
  ASSUME SshInv, [Ssh!Next]_vars
  PROVE  SshInv'
<1>1. CASE Ssh!Step
  <2>1. SshFields(sys, run)' /\ SshReach(sys, run)' /\ Allows(MaxFaults, MaxKills)'
    BY <1>1, SshFieldsStep, SshReachStep, SshBounds DEF SshInv
  <2>2. ASSUME Calm(MaxFaults, MaxKills)' PROVE SshFollows(sys, run)'
    BY <1>1, <2>2, SshBounds, SshFollowsStep DEF SshInv
  <2> QED
    BY <2>1, <2>2 DEF SshInv
<1> USE DEF SshInv, SshFields, SshReach, RunFields, Allows, Calm
<1>2. CASE Ssh!StartTask
  BY <1>2 DEF Ssh!StartTask, Ssh!Begin, Ssh!Fresh, Ssh!AtRest, Ssh!Client, SshFollows,
       ReadsFile, HoldsPort, Ssh!Effective
<1>3. CASE Ssh!Kill
  BY <1>3 DEF Ssh!Kill, Ssh!NoRun
<1>4. ASSUME NEW m, Ssh!Event(m), DOMAIN m = DOMAIN sys, m.kind = sys.kind,
               m.dropin \in Ssh!Dropins,
             Calm(MaxFaults, MaxKills) /\ m.kind = "daemon"
               => ReadsFile(m) /\ HoldsPort(m) /\ ~m.socket
      PROVE  SshInv'
  BY <1>4 DEF Ssh!Event, Ssh!NoRun, Ssh!AtRest, SshFollows, ReadsFile, HoldsPort,
       Ssh!Effective
<1>5. CASE Ssh!Reboot \/ Ssh!Edited \/ Ssh!KeysLost
  <2> DEFINE Same(m) ==
        /\ DOMAIN m = DOMAIN sys
        /\ m.kind = sys.kind
        /\ m.dropin \in Ssh!Dropins
        /\ Calm(MaxFaults, MaxKills) /\ m.kind = "daemon"
             => ReadsFile(m) /\ HoldsPort(m) /\ ~m.socket
  <2>1. Ssh!AtRest
    BY <1>5 DEF Ssh!Reboot, Ssh!Edited, Ssh!KeysLost, Ssh!Event
  <2> USE DEF Ssh!AtRest, SshFollows, ReadsFile, HoldsPort, Ssh!Effective, Ssh!SamePort,
        Ssh!Up, Ssh!Down
  <2>2. Same(Ssh!Up(sys)) /\ Same(Ssh!Down(sys))
    BY <2>1
  <2>3. ASSUME NEW d \in Ssh!Dropins
        PROVE  LET e == [sys EXCEPT !.dropin = d] IN Same(IF Ssh!Running THEN Ssh!Up(e) ELSE e)
    <3> DEFINE e == [sys EXCEPT !.dropin = d]
    <3>1. Same(Ssh!Up(e))
      BY <2>1
    <3>2. CASE ~Ssh!Running
      BY <2>1, <3>2 DEF Ssh!Running
    <3> HIDE DEF Same
    <3> QED
      BY <3>1, <3>2
  <2>4. \A h : Same([sys EXCEPT !.keys = @ \ {h}])
    BY <2>1
  <2>5. \E m : Ssh!Event(m) /\ Same(m)
    <3> HIDE DEF Same, SshInv, Ssh!Up, Ssh!Down
    <3> QED
      BY <1>5, <2>2, <2>3, <2>4 DEF Ssh!Reboot, Ssh!Edited, Ssh!KeysLost
  <2> HIDE DEF SshInv, SshFields, SshReach, SshFollows, ReadsFile, HoldsPort, RunFields,
        Allows, Calm, Ssh!Effective, Ssh!SamePort, Ssh!Up, Ssh!Down, Ssh!AtRest
  <2>6. PICK m : Ssh!Event(m) /\ Same(m)
    BY <2>5
  <2> QED
    BY <1>4, <2>6
<1>6. CASE UNCHANGED vars
  BY <1>6 DEF vars, SshFollows, ReadsFile, HoldsPort, Ssh!Effective
<1> QED
  BY <1>1, <1>2, <1>3, <1>5, <1>6 DEF Ssh!Next

LEMMA InitSsh == Ssh!Init => SshInv
  BY BoundsAreNumbers DEF Ssh!Init, SshInv, SshFields, SshReach, SshFollows, ReadsFile,
       HoldsPort, RunFields, Allows, Ssh!NoRun, Ssh!Fresh, Ssh!Budget, Ssh!Dropins

LEMMA SshPromises == SshInv => Ssh!StaysReachable /\ Ssh!DaemonFollowsFile
<1>1. SshInv => Ssh!StaysReachable
  BY DEF SshInv, SshReach, Ssh!StaysReachable, Ssh!FaultFreeRunReaches, Ssh!Client,
           Ssh!Running, SshFields
<1>2. SshInv => Ssh!DaemonFollowsFile
  BY DEF SshInv, SshFields, SshFollows, ReadsFile, HoldsPort, Calm, Ssh!DaemonFollowsFile,
           Ssh!CleanRunReaches, Ssh!Client, Ssh!Effective, Ssh!SamePort, Ssh!Dropins
<1> QED
  BY <1>1, <1>2

-----------------------------------------------------------------------------
(*****************************************************************************)
(* Newest releases: a client that works stays.                               *)
(*****************************************************************************)
ClientFields(m, r) ==
  /\ {"kind", "keep", "latest", "cache", "trees", "link", "binary", "version", "apt",
       "rules", "entry"} \subseteq DOMAIN m
  /\ RunFields(r) /\ {"want", "whole", "tries"} \subseteq DOMAIN r.mem

\* While the run works on a machine whose client was whole, the release it wants
\* is not the one the link names, and is unpacked before the link moves.
ClientKept(m, r) ==
  m.kind # "telegram" /\ r.pc \notin {"idle", "end"} /\ ~r.force /\ r.mem.whole =>
    /\ m.link \in m.trees
    /\ r.pc \notin {"install", "copy", "updater"}
    /\ r.pc \in {"fetch", "unpack", "place", "probe", "switch"} => r.mem.want # m.link
    /\ r.pc \in {"probe", "switch"} => r.mem.want \in m.trees

ClientInv == ClientFields(sys, run) /\ ClientKept(sys, run)

LEMMA ClientSteps ==
  ASSUME ClientInv, Client!Step
  PROVE  ClientInv'
<1> USE DEF Client!Do, Client!Fault, Client!FaultLeaving, Client!Goto, Client!Warned,
      Client!Changed, Client!Noted, Client!Recall, ClientInv, ClientFields, RunFields,
        ClientKept
<1>1. CASE Client!Query
  <2> HIDE DEF ClientKept
  <2>1. /\ run.pc = "query" /\ sys' = sys /\ RunFields(run') /\ run'.force = run.force
        /\ run'.mem = run.mem \/ run'.mem = [run.mem EXCEPT !.want = sys.latest]
    BY <1>1 DEF Client!Query
  <2>2. sys.kind # "telegram" => run'.pc \in {"rules", "entry", "fetch", "fallback", "end"}
    BY <1>1 DEF Client!Query, Client!Telegram, Client!Fallen
  <2>3. run'.pc = "fetch" /\ ~run.force => ~Client!Latest /\ run'.mem.want = sys.latest
    BY <1>1 DEF Client!Query, Client!Fallen
  <2>4. DOMAIN run'.mem = DOMAIN run.mem /\ run'.mem.whole = run.mem.whole
    BY <2>1
  <2>5. ClientFields(sys, run)'
    BY <2>1, <2>4
  <2>6. ClientKept(sys, run)'
    BY <2>1, <2>2, <2>3, <2>4 DEF ClientKept, Client!Latest, Client!Whole, Client!Telegram
  <2> QED
    BY <2>5, <2>6
<1>2. CASE Client!Fetch
  BY <1>2 DEF Client!Fetch, Client!Scrcpy, Client!Telegram, Client!Without, Client!Fallen,
       Client!Want
<1>3. CASE Client!Unpack
  <2> HIDE DEF ClientKept
  <2>1. /\ run.pc = "unpack" /\ sys' = sys /\ RunFields(run') /\ run'.force = run.force
        /\ run'.mem = run.mem \/ run'.mem = [run.mem EXCEPT !.tries = 1]
    BY <1>3 DEF Client!Unpack
  <2>2. run'.pc \in {"place", "fallback", "entry", "fetch", "rules"}
    BY <1>3 DEF Client!Unpack, Client!Without, Client!Fallen
  <2>3. /\ DOMAIN run'.mem = DOMAIN run.mem
        /\ run'.mem.whole = run.mem.whole /\ run'.mem.want = run.mem.want
    BY <2>1
  <2> QED
    BY <2>1, <2>2, <2>3 DEF ClientKept
<1>4. CASE Client!Place
  <2>1. /\ run.pc = "place"
        /\ \/ sys' = [sys EXCEPT !.trees = @ \cup {run.mem.want}]
                /\ run'.pc \in {"probe", "switch"}
           \/ sys' = sys /\ run'.pc \in {"fallback", "entry"}
           \/ sys' = [sys EXCEPT !.trees = @ \ {run.mem.want}]
                /\ run'.pc \in {"fallback", "entry"}
    BY <1>4 DEF Client!Place, Client!Scrcpy, Client!Without, Client!Fallen, Client!Want
  <2>2. RunFields(run') /\ run'.mem = run.mem /\ run'.force = run.force
    BY <1>4 DEF Client!Place, Client!Scrcpy, Client!Without, Client!Fallen, Client!Want
  <2> QED
    BY <2>1, <2>2
<1>5. CASE Client!Probe
  <2>1. /\ run.pc = "probe"
        /\ \/ sys' = sys /\ run'.pc = "switch"
           \/ sys' = [sys EXCEPT !.trees = @ \ {run.mem.want}] /\ run'.pc \in {"fallback"}
    BY <1>5 DEF Client!Probe, Client!Scrcpy, Client!Without, Client!Fallen, Client!Want
  <2>2. RunFields(run') /\ run'.mem = run.mem /\ run'.force = run.force
    BY <1>5 DEF Client!Probe, Client!Scrcpy, Client!Without, Client!Fallen, Client!Want
  <2> QED
    BY <2>1, <2>2
<1>6. CASE Client!SwitchLink
  <2> DEFINE trees == IF Client!Scrcpy
        /\ sys.link # Client!Want THEN sys.trees \ {sys.link} ELSE sys.trees
             entry == IF Client!Scrcpy /\ sys.link # Client!Want THEN "none" ELSE sys.entry
  <2>1. /\ run.pc = "switch"
        /\ \/ sys' = [sys EXCEPT !.link = run.mem.want, !.trees = trees, !.entry = entry]
                /\ run'.pc = "discard"
           \/ sys' = sys /\ run'.pc \in {"fallback", "entry"}
    BY <1>6 DEF Client!SwitchLink, Client!Scrcpy, Client!Without, Client!Fallen, Client!Want
  <2>2. run.mem.want # sys.link /\ run.mem.want \in sys.trees => run.mem.want \in trees
    OBVIOUS
  <2>3. RunFields(run') /\ run'.mem = run.mem /\ run'.force = run.force
    BY <1>6 DEF Client!SwitchLink, Client!Scrcpy, Client!Without, Client!Fallen, Client!Want
  <2> HIDE DEF trees, entry
  <2>4. CASE sys' = sys
    BY <2>1, <2>3, <2>4
  <2>5. CASE sys' = [sys EXCEPT !.link = run.mem.want, !.trees = trees, !.entry = entry]
    <3>1. sys'.link = run.mem.want /\ sys'.trees = trees /\ sys'.kind = sys.kind
            /\ DOMAIN sys' = DOMAIN sys
      BY <2>5
    <3>2. run'.pc = "discard" \/ sys' = sys
      BY <2>1
    <3> QED
      BY <2>1, <2>2, <2>3, <2>4, <3>1, <3>2
  <2> QED
    BY <2>1, <2>4, <2>5
<1>7. CASE Client!OpenBinary
  BY <1>7 DEF Client!OpenBinary, Client!Scrcpy, Client!Telegram, Client!Want
<1>8. CASE Client!CopyBinary
  BY <1>8 DEF Client!CopyBinary, Client!Scrcpy, Client!Telegram
<1>9. CASE Client!CopyUpdater
  BY <1>9 DEF Client!CopyUpdater, Client!Scrcpy, Client!Telegram
<1>10. CASE Client!DiscardDownloads
  <2>1. /\ run.pc = "discard" /\ run'.pc \in {"rules", "entry"}
        /\ \E cache : sys' = [sys EXCEPT !.cache = cache]
    BY <1>10 DEF Client!DiscardDownloads, Client!Scrcpy
  <2>2. RunFields(run') /\ run'.mem = run.mem /\ run'.force = run.force
    BY <1>10 DEF Client!DiscardDownloads, Client!Scrcpy
  <2> QED
    BY <2>1, <2>2
<1>11. CASE Client!FallBack
  BY <1>11 DEF Client!FallBack, Client!Scrcpy, Client!Telegram
<1>12. CASE Client!InstallRules
  <2>1. /\ run.pc = "rules" /\ run'.pc = "entry"
        /\ sys' = sys \/ sys' = [sys EXCEPT !.rules = TRUE]
    BY <1>12 DEF Client!InstallRules
  <2>2. RunFields(run') /\ run'.mem = run.mem /\ run'.force = run.force
    BY <1>12 DEF Client!InstallRules
  <2> QED
    BY <2>1, <2>2
<1>13. CASE Client!WriteEntry
  BY <1>13 DEF Client!WriteEntry, Client!Scrcpy, Client!Telegram, Client!Startable,
       Client!Starts
<1> QED
  BY <1>1, <1>2, <1>3, <1>4, <1>5, <1>6, <1>7, <1>8, <1>9, <1>10, <1>11, <1>12,
       <1>13 DEF Client!Step

LEMMA NextClient ==
  ASSUME ClientInv, [Client!Next]_vars
  PROVE  ClientInv'
<1> USE DEF ClientInv, ClientFields, RunFields, ClientKept
<1>2. CASE Client!StartTask
  BY <1>2 DEF Client!StartTask, Client!Begin, Client!Fresh, Client!AtRest, Client!Whole
<1>3. CASE Client!Kill
  BY <1>3 DEF Client!Kill, Client!NoRun
<1>4. ASSUME NEW m, Client!Event(m), DOMAIN m = DOMAIN sys
      PROVE  ClientInv'
  BY <1>4 DEF Client!Event, Client!NoRun
<1>5. CASE Client!Publish \/ Client!SelfUpdate \/ Client!TreeDamaged
  <2> HIDE DEF ClientInv
  <2> QED
    BY <1>4, <1>5 DEF Client!Publish, Client!SelfUpdate, Client!TreeDamaged
<1>6. CASE UNCHANGED vars
  BY <1>6 DEF vars
<1> QED
  BY ClientSteps, <1>2, <1>3, <1>5, <1>6 DEF Client!Next

LEMMA InitClient == Client!Init => ClientInv
  BY DEF Client!Init, ClientInv, ClientFields, ClientKept, RunFields, Client!NoRun,
           Client!Fresh

LEMMA ClientPromise == ClientInv => Client!ClientStays
  BY DEF ClientInv, ClientKept, Client!ClientStays, Client!Telegram, Client!AtRest,
           Client!Whole

-----------------------------------------------------------------------------
(*****************************************************************************)
(* The desktop: files, session and the owner of the combination.             *)
(*****************************************************************************)
DesktopFields(m, r) ==
  /\ {"kind", "package", "panel", "files", "session", "live", "recorded", "held", "extra",
       "desks", "manager"} \subseteq DOMAIN m
  /\ m.kind \in {"settings", "keyboard"}
  /\ RunFields(r) /\ {"session", "set", "tries"} \subseteq DOMAIN r.mem

\* the settings never go the way of the layouts, and once the combination is
\* in the file of a run none of whose calls failed nobody else is
DesktopRecords(m, r) ==
  m.kind = "settings" =>
    /\ r.pc \notin {"layout", "hotkeys", "daemon", "restart", "manager"}
    /\ r.pc \in {"records", "user", "system", "applet", "panel", "desks", "end"}
           /\ ~r.warn /\ ~r.hurt =>
         m.recorded = {"ours"}
DesktopWays(m, r) ==
  m.kind = "keyboard"
    => r.pc \notin {"look", "kwin", "cursor", "user", "system", "keys", "records", "panel",
      "desks"}

\* what the files hold and the session does not use is what the run will still
\* tell it of
DesktopShows(m, r) ==
  /\ r.pc \notin {"idle", "end"} => r.mem.session = m.session
  /\ m.session =>
       \/ m.files \cap Desktop!Shown \subseteq m.live
       \/ /\ m.kind = "settings" /\ r.pc \in {"cursor", "reload"} /\ r.mem.set
          /\ m.files \cap Desktop!Shown \subseteq m.live \cup {"kwin"}
       \/ /\ m.kind = "keyboard"
               /\ r.pc \in {"applet", "hotkeys", "daemon", "reload", "restart"} /\ r.mem.set
          /\ m.files \cap Desktop!Shown \subseteq m.live \cup {"layout"}

DesktopInv ==
  /\ DesktopFields(sys, run) /\ Allows(MaxFaults, MaxKills) /\ DesktopRecords(sys, run)
       /\ DesktopWays(sys, run)
  /\ Calm(MaxFaults, MaxKills) => DesktopShows(sys, run)


\* what the tools of the session leave of the machine
DesktopSame(m) ==
  /\ DOMAIN m = DOMAIN sys /\ m.kind = sys.kind /\ m.session = sys.session
  /\ m.files = sys.files /\ m.live = sys.live

LEMMA DesktopMachines ==
  ASSUME DesktopFields(sys, run)
  PROVE  /\ DesktopSame(Desktop!Owned) /\ DesktopSame(Desktop!Freed)
         /\ \A h, w : DesktopSame([sys EXCEPT !.held = h, !.recorded = w])
         /\ \A w : DesktopSame([sys EXCEPT !.recorded = w])
         /\ \A m : DesktopSame(m)
              => DesktopSame(Desktop!InFile(m)) /\ Desktop!InFile(m).recorded = {"ours"}
         /\ Desktop!Owned.recorded = {"ours"}
         /\ \A g : LET m == Desktop!Use(sys, g)
                   IN /\ DOMAIN m = DOMAIN sys /\ m.kind = sys.kind /\ m.session = sys.session
                      /\ m.files = sys.files /\ m.live = sys.live \cup (sys.files \cap g)
                      /\ m.recorded = sys.recorded
  BY DEF DesktopFields, DesktopSame, Desktop!Owned, Desktop!Freed, Desktop!InFile, Desktop!Use

LEMMA DesktopBounds ==
  ASSUME Allows(MaxFaults, MaxKills), Desktop!Step
  PROVE  /\ Allows(MaxFaults, MaxKills)'
         /\ Calm(MaxFaults, MaxKills)'
              => Calm(MaxFaults, MaxKills) /\ \A l, m, r : ~Desktop!FaultLeaving(l, m, r)
<1>1. ASSUME NEW l, NEW m, NEW r, Desktop!Do(l, m, r)
      PROVE  left' = left
  BY <1>1 DEF Desktop!Do
<1>2. ASSUME NEW l, NEW m, NEW r, Desktop!FaultLeaving(l, m, r)
      PROVE  Allows(MaxFaults, MaxKills)' /\ ~Calm(MaxFaults, MaxKills)'
  BY <1>2 DEF Desktop!FaultLeaving, Allows, Calm
<1>3. left' = left \/ \E l, m, r : Desktop!FaultLeaving(l, m, r)
  BY <1>1 DEF Desktop!Fault, Desktop!Step, Desktop!InstallPackage, Desktop!MakeDirectory,
       Desktop!WriteGroup, Desktop!ReloadKwin, Desktop!ApplyShortcuts, Desktop!WriteRecords,
         Desktop!WriteApplet, Desktop!ShowPanel, Desktop!CountDesktops,
           Desktop!WriteHotkeys, Desktop!ApplyHotkeys, Desktop!RestartCompositor,
             Desktop!StartManager
<1> QED
  BY <1>1, <1>2, <1>3 DEF Allows, Calm

LEMMA DesktopFieldsStep ==
  ASSUME DesktopFields(sys, run), Desktop!Step
  PROVE  DesktopFields(sys, run)'
<1> USE DEF Desktop!Do, Desktop!Fault, Desktop!Goto, Desktop!Warned, Desktop!Changed,
      Desktop!Noted, Desktop!Recall, Desktop!Mem, Desktop!Set, Desktop!Last,
        Desktop!Keyboard, Desktop!Write, Desktop!Use, Desktop!FaultLeaving, DesktopFields,
          RunFields
<1>1. CASE Desktop!InstallPackage
  BY <1>1 DEF Desktop!InstallPackage
<1>2. CASE Desktop!MakeDirectory
  BY <1>2 DEF Desktop!MakeDirectory
<1>3. CASE Desktop!WriteGroup
  <2>1. PICK g \in DOMAIN Desktop!Follow :
          LET differs == run.force \/ g \notin sys.files
              shown   == g \in Desktop!Applied /\ run.mem.session
          IN \/ /\ ~differs
                /\ Desktop!Do(g, sys, Desktop!Goto(run, Desktop!Follow[g]))
             \/ /\ differs
                /\ Desktop!Do(g, IF shown THEN Desktop!Use(Desktop!Write(g),
                     {g}) ELSE Desktop!Write(g),
                              Desktop!Goto(Desktop!Set(run), Desktop!Follow[g]))
             \/ /\ differs /\ shown
                /\ Desktop!FaultLeaving(g, Desktop!Write(g),
                     Desktop!Goto(Desktop!Set(run), Desktop!Follow[g]))
             \/ Desktop!Fault(g, Desktop!Goto(Desktop!Warned(run), Desktop!Follow[g]))
    BY <1>3 DEF Desktop!WriteGroup
  <2>2. /\ run.pc = g /\ g \in {"look", "kwin", "cursor", "layout", "user", "system"}
        /\ g = "look" => Desktop!Follow[g] = "kwin"
        /\ g = "kwin" => Desktop!Follow[g] = "cursor"
        /\ g = "cursor" => Desktop!Follow[g] = "reload"
        /\ g = "layout" => Desktop!Follow[g] = "applet"
        /\ g = "user" => Desktop!Follow[g] = "system"
        /\ g = "system" => Desktop!Follow[g] = "applet"
    BY <2>1 DEF Desktop!Follow
  <2> DEFINE next == Desktop!Follow[g]
  <2> HIDE DEF next
  <2>3. RunFields(run') /\ DOMAIN run'.mem = DOMAIN run.mem /\ DOMAIN sys' = DOMAIN sys
          /\ sys'.kind = sys.kind
    BY <2>1
  <2> QED
    BY <2>3
<1>4. CASE Desktop!ReloadKwin
  BY <1>4 DEF Desktop!ReloadKwin
<1>5. CASE Desktop!ApplyShortcuts
  <2>0. DesktopSame(sys)
    BY DEF DesktopSame
  <2>1. DesktopSame(sys')
    <3> HIDE DEF DesktopFields, Desktop!Use
    <3>1. \/ sys' \in {Desktop!Owned, Desktop!Freed, [sys EXCEPT !.held = {"foreign"},
               !.recorded = {"foreign"}]}
          \/ \E m \in {sys, Desktop!Owned, Desktop!Freed, [sys EXCEPT !.held = {"foreign"},
               !.recorded = {"foreign"}]} :
               sys' = Desktop!InFile(m)
          \/ \E w : sys' = [sys EXCEPT !.recorded = w]
      BY <1>5 DEF Desktop!ApplyShortcuts
    <3>2. DesktopSame([sys EXCEPT !.held = {"foreign"}, !.recorded = {"foreign"}])
      BY DesktopMachines
    <3>3. ASSUME NEW w, sys' = [sys EXCEPT !.recorded = w] PROVE DesktopSame(sys')
      BY <3>3, DesktopMachines
    <3> DEFINE other == [sys EXCEPT !.held = {"foreign"}, !.recorded = {"foreign"}]
    <3>4. /\ DesktopSame(Desktop!Owned) /\ DesktopSame(Desktop!Freed) /\ DesktopSame(other)
          /\ DesktopSame(Desktop!InFile(sys)) /\ DesktopSame(Desktop!InFile(Desktop!Owned))
          /\ DesktopSame(Desktop!InFile(Desktop!Freed)) /\ DesktopSame(Desktop!InFile(other))
      <4> HIDE DEF DesktopSame, other
      <4> QED
        BY <2>0, <3>2, DesktopMachines DEF other
    <3> HIDE DEF DesktopSame, other
    <3> QED
      BY <3>1, <3>3, <3>4 DEF other
  <2>2. RunFields(run')
          /\ (run'.mem = run.mem \/ \E v : run'.mem = [run.mem EXCEPT !["tries"] = v])
    <3>1. RunFields(run')
      BY <1>5 DEF Desktop!ApplyShortcuts
    <3> DEFINE again == Desktop!Mem(run, "tries", run.mem.tries + 1)
    <3>2. \/ run' \in {Desktop!Goto(run, "records"),
               Desktop!Goto(Desktop!Changed(run), "records")}
          \/ run' = [Desktop!Goto(Desktop!Warned(run), "records") EXCEPT !.hurt = TRUE]
          \/ run' = [Desktop!Goto(run, "records") EXCEPT !.hurt = TRUE]
          \/ run' = [again EXCEPT !.hurt = TRUE]
      <4> HIDE DEF Desktop!Goto, Desktop!Changed, Desktop!Warned, again, DesktopFields
      <4> QED
        BY <1>5 DEF Desktop!ApplyShortcuts, again
    <3>4. run'.mem = run.mem \/ \E v : run'.mem = [run.mem EXCEPT !["tries"] = v]
      BY <3>2
    <3> QED
      BY <3>1, <3>2, <3>4
  <2>3. DOMAIN run'.mem = DOMAIN run.mem
    BY <2>2
  <2> QED
    BY <2>1, <2>2, <2>3 DEF DesktopSame
<1>6. CASE Desktop!WriteRecords
  BY <1>6 DEF Desktop!WriteRecords
<1>7. CASE Desktop!WriteApplet
  BY <1>7 DEF Desktop!WriteApplet
<1>8. CASE Desktop!ShowPanel
  <2>1. \E g : sys' = sys \/ sys' = Desktop!Use(sys, g) \/ sys' = [Desktop!Use(sys,
          g) EXCEPT !.extra = FALSE]
    <3> HIDE DEF Desktop!Use, DesktopFields
    <3> QED
      BY <1>8 DEF Desktop!ShowPanel
  <2>2. RunFields(run') /\ DOMAIN run'.mem = DOMAIN run.mem
    BY <1>8 DEF Desktop!ShowPanel
  <2>3. PICK g : \/ sys' = sys
                 \/ sys' = Desktop!Use(sys, g)
                 \/ sys' = [Desktop!Use(sys, g) EXCEPT !.extra = FALSE]
    BY <2>1
  <2>4. /\ DOMAIN Desktop!Use(sys, g) = DOMAIN sys /\ "kind" \in DOMAIN sys
        /\ Desktop!Use(sys, g).kind = sys.kind
    OBVIOUS
  <2>5. DOMAIN sys' = DOMAIN sys /\ sys'.kind = sys.kind
    <3> HIDE DEF Desktop!Use, DesktopFields
    <3> QED
      BY <2>3, <2>4
  <2> QED
    BY <2>2, <2>5
<1>9. CASE Desktop!CountDesktops
  BY <1>9 DEF Desktop!CountDesktops
<1>10. CASE Desktop!WriteHotkeys
  BY <1>10 DEF Desktop!WriteHotkeys
<1>11. CASE Desktop!ApplyHotkeys
  <2>0. DesktopSame(sys)
    BY DEF DesktopSame
  <2>1. DesktopSame(sys')
    <3>1. sys' \in {sys, Desktop!Freed, Desktop!Owned}
      <4> HIDE DEF DesktopFields, Desktop!Use
      <4> QED
        BY <1>11 DEF Desktop!ApplyHotkeys
    <3>2. DesktopSame(Desktop!Freed) /\ DesktopSame(Desktop!Owned)
      BY DesktopMachines
    <3> HIDE DEF DesktopSame
    <3> QED
      BY <2>0, <3>1, <3>2
  <2>2. RunFields(run')
          /\ (run'.mem = run.mem \/ \E v : run'.mem = [run.mem EXCEPT !["set"] = v])
    <3>1. RunFields(run')
      BY <1>11 DEF Desktop!ApplyHotkeys
    <3>2. run'.mem = run.mem \/ \E v : run'.mem = [run.mem EXCEPT !["set"] = v]
      BY <1>11 DEF Desktop!ApplyHotkeys
    <3> QED
      BY <3>1, <3>2
  <2>3. DOMAIN run'.mem = DOMAIN run.mem
    BY <2>2
  <2> QED
    BY <2>1, <2>2, <2>3 DEF DesktopSame
<1>12. CASE Desktop!RestartCompositor
  <2>1. \/ sys' = sys
        \/ sys' = [Desktop!Use(sys, {"layout", "kwin"}) EXCEPT !.manager = FALSE]
    <3> HIDE DEF Desktop!Use, DesktopFields
    <3> QED
      BY <1>12 DEF Desktop!RestartCompositor
  <2>2. RunFields(run') /\ DOMAIN run'.mem = DOMAIN run.mem
    BY <1>12 DEF Desktop!RestartCompositor
  <2>3. DOMAIN sys' = DOMAIN sys /\ sys'.kind = sys.kind
    <3> HIDE DEF Desktop!Use
    <3> QED
      BY <2>1, DesktopMachines
  <2> QED
    BY <2>2, <2>3
<1>13. CASE Desktop!StartManager
  BY <1>13 DEF Desktop!StartManager
<1> QED
  BY <1>1, <1>2, <1>3, <1>4, <1>5, <1>6, <1>7, <1>8, <1>9, <1>10, <1>11, <1>12,
       <1>13 DEF Desktop!Step

LEMMA DesktopRecordsStep ==
  ASSUME DesktopFields(sys, run), DesktopRecords(sys, run), DesktopWays(sys, run),
           Desktop!Step
  PROVE  DesktopRecords(sys, run)' /\ DesktopWays(sys, run)'
<1> USE DEF Desktop!Do, Desktop!Fault, Desktop!Goto, Desktop!Warned, Desktop!Changed,
      Desktop!Noted, Desktop!Recall, Desktop!Mem, Desktop!Set, Desktop!Last,
        Desktop!Keyboard, Desktop!Write, Desktop!Use, Desktop!FaultLeaving, DesktopFields,
          RunFields, DesktopRecords, DesktopWays
<1>1. CASE Desktop!InstallPackage
  BY <1>1 DEF Desktop!InstallPackage
<1>2. CASE Desktop!MakeDirectory
  BY <1>2 DEF Desktop!MakeDirectory
<1>3. CASE Desktop!WriteGroup
  <2>1. PICK g \in DOMAIN Desktop!Follow :
          LET differs == run.force \/ g \notin sys.files
              shown   == g \in Desktop!Applied /\ run.mem.session
          IN \/ /\ ~differs
                /\ Desktop!Do(g, sys, Desktop!Goto(run, Desktop!Follow[g]))
             \/ /\ differs
                /\ Desktop!Do(g, IF shown THEN Desktop!Use(Desktop!Write(g),
                     {g}) ELSE Desktop!Write(g),
                              Desktop!Goto(Desktop!Set(run), Desktop!Follow[g]))
             \/ /\ differs /\ shown
                /\ Desktop!FaultLeaving(g, Desktop!Write(g),
                     Desktop!Goto(Desktop!Set(run), Desktop!Follow[g]))
             \/ Desktop!Fault(g, Desktop!Goto(Desktop!Warned(run), Desktop!Follow[g]))
    BY <1>3 DEF Desktop!WriteGroup
  <2>2. /\ run.pc = g /\ g \in {"look", "kwin", "cursor", "layout", "user", "system"}
        /\ g = "look" => Desktop!Follow[g] = "kwin"
        /\ g = "kwin" => Desktop!Follow[g] = "cursor"
        /\ g = "cursor" => Desktop!Follow[g] = "reload"
        /\ g = "layout" => Desktop!Follow[g] = "applet"
        /\ g = "user" => Desktop!Follow[g] = "system"
        /\ g = "system" => Desktop!Follow[g] = "applet"
    BY <2>1 DEF Desktop!Follow
  <2> DEFINE next == Desktop!Follow[g]
  <2> HIDE DEF next
  <2>3. sys'.kind = sys.kind /\ sys'.recorded = sys.recorded
          /\ run'.pc = Desktop!Follow[g] /\ (run.warn => run'.warn)
          /\ (run.hurt => run'.hurt)
    BY <2>1
  <2> QED
    BY <2>2, <2>3
<1>4. CASE Desktop!ReloadKwin
  BY <1>4 DEF Desktop!ReloadKwin
<1>5. CASE Desktop!ApplyShortcuts
  <2>0. DesktopSame(sys)
    BY DEF DesktopSame
  <2>1. DesktopSame(sys')
    <3> HIDE DEF DesktopFields, Desktop!Use
    <3>1. \/ sys' \in {Desktop!Owned, Desktop!Freed, [sys EXCEPT !.held = {"foreign"},
               !.recorded = {"foreign"}]}
          \/ \E m \in {sys, Desktop!Owned, Desktop!Freed, [sys EXCEPT !.held = {"foreign"},
               !.recorded = {"foreign"}]} :
               sys' = Desktop!InFile(m)
          \/ \E w : sys' = [sys EXCEPT !.recorded = w]
      BY <1>5 DEF Desktop!ApplyShortcuts
    <3>2. DesktopSame([sys EXCEPT !.held = {"foreign"}, !.recorded = {"foreign"}])
      BY DesktopMachines
    <3>3. ASSUME NEW w, sys' = [sys EXCEPT !.recorded = w] PROVE DesktopSame(sys')
      BY <3>3, DesktopMachines
    <3> DEFINE other == [sys EXCEPT !.held = {"foreign"}, !.recorded = {"foreign"}]
    <3>4. /\ DesktopSame(Desktop!Owned) /\ DesktopSame(Desktop!Freed) /\ DesktopSame(other)
          /\ DesktopSame(Desktop!InFile(sys)) /\ DesktopSame(Desktop!InFile(Desktop!Owned))
          /\ DesktopSame(Desktop!InFile(Desktop!Freed)) /\ DesktopSame(Desktop!InFile(other))
      <4> HIDE DEF DesktopSame, other
      <4> QED
        BY <2>0, <3>2, DesktopMachines DEF other
    <3> HIDE DEF DesktopSame, other
    <3> QED
      BY <3>1, <3>3, <3>4 DEF other
  <2>2. run.pc = "keys" /\ run'.pc \in {"keys", "records"}
    BY <1>5 DEF Desktop!ApplyShortcuts
  <2>3. run'.pc = "records" /\ ~run'.warn /\ ~run'.hurt
          => sys' = Desktop!Owned \/ sys' = Desktop!InFile(sys)
    BY <1>5 DEF Desktop!ApplyShortcuts
  <2>4. Desktop!Owned.recorded = {"ours"} /\ Desktop!InFile(sys).recorded = {"ours"}
    BY <2>0, DesktopMachines
  <2> QED
    BY <2>1, <2>2, <2>3, <2>4 DEF DesktopSame
<1>6. CASE Desktop!WriteRecords
  <2>1. run.pc = "records" /\ run'.pc = "user" /\ (~run'.warn => ~run.warn)
          /\ (~run'.hurt => ~run.hurt)
    BY <1>6 DEF Desktop!WriteRecords
  <2>2. sys' = sys \/ sys' = [sys EXCEPT !.recorded = sys.recorded \cup {"ours"}]
    BY <1>6 DEF Desktop!WriteRecords
  <2>3. sys'.kind = sys.kind /\ (sys.recorded = {"ours"} => sys'.recorded = {"ours"})
    BY <2>2
  <2> QED
    BY <2>1, <2>3
<1>7. CASE Desktop!WriteApplet
  BY <1>7 DEF Desktop!WriteApplet
<1>8. CASE Desktop!ShowPanel
  <2>1. \E g : sys' = sys \/ sys' = Desktop!Use(sys, g) \/ sys' = [Desktop!Use(sys,
          g) EXCEPT !.extra = FALSE]
    <3> HIDE DEF Desktop!Use, DesktopFields
    <3> QED
      BY <1>8 DEF Desktop!ShowPanel
  <2>2. run.pc = "panel" /\ run'.pc \in {"end", "desks"} /\ (~run'.warn => ~run.warn)
          /\ (~run'.hurt => ~run.hurt)
    BY <1>8 DEF Desktop!ShowPanel
  <2>3. PICK g : sys' = sys \/ sys' = Desktop!Use(sys, g) \/ sys' = [Desktop!Use(sys,
          g) EXCEPT !.extra = FALSE]
    BY <2>1
  <2>4. sys'.kind = sys.kind /\ sys'.recorded = sys.recorded
    BY <2>3
  <2> QED
    BY <2>2, <2>4
<1>9. CASE Desktop!CountDesktops
  BY <1>9 DEF Desktop!CountDesktops
<1>10. CASE Desktop!WriteHotkeys
  BY <1>10 DEF Desktop!WriteHotkeys
<1>11. CASE Desktop!ApplyHotkeys
  BY <1>11 DEF Desktop!ApplyHotkeys, Desktop!Owned, Desktop!Freed
<1>12. CASE Desktop!RestartCompositor
  BY <1>12 DEF Desktop!RestartCompositor
<1>13. CASE Desktop!StartManager
  BY <1>13 DEF Desktop!StartManager
<1> QED
  BY <1>1, <1>2, <1>3, <1>4, <1>5, <1>6, <1>7, <1>8, <1>9, <1>10, <1>11, <1>12,
       <1>13 DEF Desktop!Step

LEMMA DesktopShowsStep ==
  ASSUME DesktopFields(sys, run), DesktopRecords(sys, run), DesktopWays(sys, run),
           DesktopShows(sys, run), (\A l, m, r : ~Desktop!FaultLeaving(l, m, r)), Desktop!Step
  PROVE  DesktopShows(sys, run)'
<1> USE DEF Desktop!Do, Desktop!Fault, Desktop!Goto, Desktop!Warned, Desktop!Changed,
      Desktop!Noted, Desktop!Recall, Desktop!Mem, Desktop!Set, Desktop!Last,
        Desktop!Keyboard, Desktop!Write, Desktop!Use, DesktopFields, RunFields,
          DesktopRecords, DesktopWays, DesktopShows, Desktop!Shown
<1>1. CASE Desktop!InstallPackage
  BY <1>1 DEF Desktop!InstallPackage
<1>2. CASE Desktop!MakeDirectory
  BY <1>2 DEF Desktop!MakeDirectory
<1>3. CASE Desktop!WriteGroup
  <2>1. PICK g \in DOMAIN Desktop!Follow :
          LET differs == run.force \/ g \notin sys.files
              shown   == g \in Desktop!Applied /\ run.mem.session
          IN \/ /\ ~differs
                /\ Desktop!Do(g, sys, Desktop!Goto(run, Desktop!Follow[g]))
             \/ /\ differs
                /\ Desktop!Do(g, IF shown THEN Desktop!Use(Desktop!Write(g),
                     {g}) ELSE Desktop!Write(g),
                              Desktop!Goto(Desktop!Set(run), Desktop!Follow[g]))
             \/ /\ differs /\ shown
                /\ Desktop!FaultLeaving(g, Desktop!Write(g),
                     Desktop!Goto(Desktop!Set(run), Desktop!Follow[g]))
             \/ Desktop!Fault(g, Desktop!Goto(Desktop!Warned(run), Desktop!Follow[g]))
    BY <1>3 DEF Desktop!WriteGroup
  <2>2. /\ run.pc = g /\ g \in {"look", "kwin", "cursor", "layout", "user", "system"}
        /\ g = "look" => Desktop!Follow[g] = "kwin"
        /\ g = "kwin" => Desktop!Follow[g] = "cursor"
        /\ g = "cursor" => Desktop!Follow[g] = "reload"
        /\ g = "layout" => Desktop!Follow[g] = "applet"
        /\ g = "user" => Desktop!Follow[g] = "system"
        /\ g = "system" => Desktop!Follow[g] = "applet"
    BY <2>1 DEF Desktop!Follow
  <2> DEFINE next == Desktop!Follow[g]
  <2> HIDE DEF next
  <2>3. sys'.kind = sys.kind /\ sys'.session = sys.session /\ run'.pc = Desktop!Follow[g]
          /\ run'.mem.session = run.mem.session
    BY <2>1
  <2>4. \/ sys'.files = sys.files /\ sys'.live = sys.live /\ run'.mem = run.mem
        \/ /\ sys'.files = sys.files \cup {g} /\ run'.mem.set
           /\ \/ sys'.live = sys.live /\ ~(g \in Desktop!Applied /\ run.mem.session)
              \/ sys'.live = sys.live \cup {g}
    <3>1. CASE ~(run.force \/ g \notin sys.files)
      BY <2>1, <3>1
    <3>2. CASE run.force \/ g \notin sys.files
      <4>1. /\ sys' = IF g \in Desktop!Applied /\ run.mem.session
                      THEN Desktop!Use(Desktop!Write(g), {g}) ELSE Desktop!Write(g)
            /\ run'.mem = [run.mem EXCEPT !["set"] = TRUE]
        <5> HIDE DEF Desktop!Use, Desktop!Write
        <5> QED
          BY <2>1, <3>2
      <4> QED
        BY <4>1
    <3> QED
      BY <3>1, <3>2
  <2>5. CASE g = "look"
    BY <2>2, <2>3, <2>4, <2>5 DEF Desktop!Applied
  <2>6. CASE g = "kwin"
    BY <2>2, <2>3, <2>4, <2>6 DEF Desktop!Applied
  <2>7. CASE g = "cursor"
    BY <2>2, <2>3, <2>4, <2>7 DEF Desktop!Applied
  <2>8. CASE g = "layout"
    BY <2>2, <2>3, <2>4, <2>8 DEF Desktop!Applied
  <2>9. CASE g \in {"user", "system"}
    BY <2>2, <2>3, <2>4, <2>9 DEF Desktop!Applied
  <2> QED
    BY <2>2, <2>5, <2>6, <2>7, <2>8, <2>9
<1>4. CASE Desktop!ReloadKwin
  BY <1>4 DEF Desktop!ReloadKwin
<1>5. CASE Desktop!ApplyShortcuts
  BY <1>5 DEF Desktop!ApplyShortcuts, Desktop!Owned, Desktop!Freed, Desktop!InFile
<1>6. CASE Desktop!WriteRecords
  <2>1. /\ sys'.kind = sys.kind /\ sys'.session = sys.session /\ sys'.files = sys.files
             /\ sys'.live = sys.live
        /\ run.pc = "records" /\ run'.pc \in {"user"}
    BY <1>6 DEF Desktop!WriteRecords
  <2>2. run'.mem = run.mem \/ run'.mem = [run.mem EXCEPT !["set"] = TRUE]
    BY <1>6 DEF Desktop!WriteRecords
  <2>3. run'.mem.session = run.mem.session /\ (run.mem.set => run'.mem.set)
    BY <2>2
  <2> QED
    BY <2>1, <2>3
<1>7. CASE Desktop!WriteApplet
  BY <1>7 DEF Desktop!WriteApplet
<1>8. CASE Desktop!ShowPanel
  <2>1. \E g : sys' = sys \/ sys' = Desktop!Use(sys, g) \/ sys' = [Desktop!Use(sys,
          g) EXCEPT !.extra = FALSE]
    <3> HIDE DEF Desktop!Use, DesktopFields
    <3> QED
      BY <1>8 DEF Desktop!ShowPanel
  <2>2. run.pc = "panel" /\ run'.pc \in {"end", "desks"}
    BY <1>8 DEF Desktop!ShowPanel
  <2>3. run'.mem = run.mem
    BY <1>8 DEF Desktop!ShowPanel
  <2>4. sys'.kind = sys.kind /\ sys'.session = sys.session /\ sys'.files = sys.files
          /\ sys.live \subseteq sys'.live
    <3>1. PICK g : sys' = sys \/ sys' = Desktop!Use(sys, g) \/ sys' = [Desktop!Use(sys,
            g) EXCEPT !.extra = FALSE]
      BY <2>1
    <3>2. \/ sys' = sys
          \/ /\ sys'.kind = Desktop!Use(sys, g).kind
                  /\ sys'.session = Desktop!Use(sys, g).session
             /\ sys'.files = Desktop!Use(sys, g).files /\ sys'.live = Desktop!Use(sys, g).live
      BY <3>1
    <3>3. /\ Desktop!Use(sys, g).kind = sys.kind /\ Desktop!Use(sys, g).session = sys.session
          /\ Desktop!Use(sys, g).files = sys.files
               /\ sys.live \subseteq Desktop!Use(sys, g).live
      OBVIOUS
    <3> HIDE DEF Desktop!Use
    <3> QED
      BY <3>2, <3>3
  <2> QED
    BY <2>2, <2>3, <2>4
<1>9. CASE Desktop!CountDesktops
  BY <1>9 DEF Desktop!CountDesktops
<1>10. CASE Desktop!WriteHotkeys
  <2>1. /\ sys'.kind = sys.kind /\ sys'.session = sys.session /\ sys'.files = sys.files
             /\ sys'.live = sys.live
        /\ run.pc = "hotkeys" /\ run'.pc \in {"daemon", "reload"}
    BY <1>10 DEF Desktop!WriteHotkeys
  <2>2. run'.mem = run.mem \/ run'.mem = [run.mem EXCEPT !["set"] = TRUE]
    BY <1>10 DEF Desktop!WriteHotkeys
  <2>3. run'.mem.session = run.mem.session /\ (run.mem.set => run'.mem.set)
    BY <2>2
  <2> QED
    BY <2>1, <2>3
<1>11. CASE Desktop!ApplyHotkeys
  <2>0. DesktopSame(sys)
    BY DEF DesktopSame
  <2>1. DesktopSame(sys')
    <3>1. sys' \in {sys, Desktop!Freed, Desktop!Owned}
      <4> HIDE DEF DesktopFields, Desktop!Use
      <4> QED
        BY <1>11 DEF Desktop!ApplyHotkeys
    <3>2. DesktopSame(Desktop!Freed) /\ DesktopSame(Desktop!Owned)
      BY DesktopMachines
    <3> HIDE DEF DesktopSame
    <3> QED
      BY <2>0, <3>1, <3>2
  <2>2. run.pc = "daemon" /\ run'.pc = "reload"
    BY <1>11 DEF Desktop!ApplyHotkeys
  <2>3. run'.mem.session = run.mem.session /\ run'.mem.set
    <3>1. Desktop!Do("daemon", Desktop!Owned, Desktop!Goto(Desktop!Set(run), "reload"))
      <4> HIDE DEF Desktop!Do, Desktop!Goto, Desktop!Set, Desktop!Warned, Desktop!FaultLeaving
      <4> QED
        BY <1>11 DEF Desktop!ApplyHotkeys
    <3>2. run'.mem = [run.mem EXCEPT !["set"] = TRUE]
      BY <3>1
    <3> QED
      BY <3>2
  <2> QED
    BY <2>1, <2>2, <2>3 DEF DesktopSame
<1>12. CASE Desktop!RestartCompositor
  <2>1. run.pc = "restart" /\ run'.mem = run.mem
    BY <1>12 DEF Desktop!RestartCompositor
  <2>2. CASE run.mem.set /\ run.mem.session
    <3>1. run'.pc = "manager"
            /\ sys' = [Desktop!Use(sys, {"layout", "kwin"}) EXCEPT !.manager = FALSE]
      <4> HIDE DEF Desktop!Use
      <4> QED
        BY <1>12, <2>2 DEF Desktop!RestartCompositor
    <3>2. /\ sys'.kind = sys.kind /\ sys'.session = sys.session /\ sys'.files = sys.files
          /\ sys'.live = sys.live \cup (sys.files \cap {"layout", "kwin"})
      <4> HIDE DEF Desktop!Use
      <4> QED
        BY <3>1, DesktopMachines
    <3> QED
      BY <2>1, <3>1, <3>2
  <2>3. CASE ~(run.mem.set /\ run.mem.session)
    <3>1. sys' = sys /\ run'.pc = "end"
      BY <1>12, <2>3 DEF Desktop!RestartCompositor
    <3> QED
      BY <2>1, <2>3, <3>1
  <2> QED
    BY <2>2, <2>3
<1>13. CASE Desktop!StartManager
  BY <1>13 DEF Desktop!StartManager
<1> QED
  BY <1>1, <1>2, <1>3, <1>4, <1>5, <1>6, <1>7, <1>8, <1>9, <1>10, <1>11, <1>12,
       <1>13 DEF Desktop!Step

LEMMA NextDesktop ==
  ASSUME DesktopInv, [Desktop!Next]_vars
  PROVE  DesktopInv'
<1>1. CASE Desktop!Step
  <2>1. DesktopFields(sys, run)' /\ DesktopRecords(sys, run)' /\ DesktopWays(sys, run)'
          /\ Allows(MaxFaults, MaxKills)'
    BY <1>1, DesktopFieldsStep, DesktopRecordsStep, DesktopBounds DEF DesktopInv
  <2>2. ASSUME Calm(MaxFaults, MaxKills)' PROVE DesktopShows(sys, run)'
    BY <1>1, <2>2, DesktopBounds, DesktopShowsStep DEF DesktopInv
  <2> QED
    BY <2>1, <2>2 DEF DesktopInv
<1> USE DEF DesktopInv, DesktopFields, DesktopRecords, DesktopWays, RunFields, Allows, Calm
<1>2. CASE Desktop!StartTask
  BY <1>2 DEF Desktop!StartTask, Desktop!Begin, Desktop!Fresh, Desktop!AtRest, DesktopShows
<1>3. CASE Desktop!Kill
  BY <1>3 DEF Desktop!Kill, Desktop!NoRun
<1>4. ASSUME NEW m, Desktop!Event(m), DOMAIN m = DOMAIN sys, m.kind = sys.kind,
             Calm(MaxFaults, MaxKills) /\ m.session
               => m.files \cap Desktop!Shown \subseteq m.live
      PROVE  DesktopInv'
  BY <1>4 DEF Desktop!Event, Desktop!NoRun, Desktop!AtRest, DesktopShows
<1>5. CASE Desktop!Login \/ Desktop!Logout \/ Desktop!Edited \/ Desktop!Rebound
  <2> DEFINE Same(m) == /\ DOMAIN m = DOMAIN sys /\ m.kind = sys.kind
                        /\ Calm(MaxFaults, MaxKills) /\ m.session
                             => m.files \cap Desktop!Shown \subseteq m.live
  <2>1. Desktop!AtRest
    BY <1>5 DEF Desktop!Login, Desktop!Logout, Desktop!Edited, Desktop!Rebound, Desktop!Event
  <2> USE DEF Desktop!AtRest, DesktopShows
  <2>2. \A h, d : Same([sys EXCEPT !.session = TRUE, !.live = sys.files, !.held = h,
          !.manager = TRUE, !.desks = d])
    BY <2>1
  <2>3. Same([sys EXCEPT !.session = FALSE, !.live = {}, !.held = {}, !.manager = FALSE])
    BY <2>1
  <2>4. \A g : Same([sys EXCEPT !.files = @ \ {g}, !.live = @ \ {g}])
    BY <2>1
  <2>5. \A h : Same([sys EXCEPT !.recorded = {"foreign"}, !.held = h])
    BY <2>1
  <2>6. \E m : Desktop!Event(m) /\ Same(m)
    <3> HIDE DEF Same, DesktopInv
    <3> QED
      BY <1>5, <2>2, <2>3, <2>4, <2>5 DEF Desktop!Login, Desktop!Logout, Desktop!Edited,
           Desktop!Rebound
  <2> HIDE DEF DesktopInv
  <2> QED
    BY <1>4, <2>6
<1>6. CASE UNCHANGED vars
  BY <1>6 DEF vars, DesktopShows
<1> QED
  BY <1>1, <1>2, <1>3, <1>5, <1>6 DEF Desktop!Next

LEMMA InitDesktop == Desktop!Init => DesktopInv
  BY BoundsAreNumbers DEF Desktop!Init, DesktopInv, DesktopFields, DesktopRecords,
       DesktopWays, DesktopShows, RunFields, Allows, Desktop!NoRun, Desktop!Fresh,
         Desktop!Budget

LEMMA DesktopPromises ==
  DesktopInv => Desktop!NextLoginKeepsKey /\ Desktop!SessionFollowsFiles
<1>1. DesktopInv => Desktop!NextLoginKeepsKey
  BY DEF DesktopInv, DesktopFields, DesktopRecords, Desktop!NextLoginKeepsKey,
           Desktop!CleanRunReaches, Desktop!Keyboard
<1>2. DesktopInv => Desktop!SessionFollowsFiles
  BY DEF DesktopInv, DesktopFields, DesktopShows, Calm, Desktop!SessionFollowsFiles,
           Desktop!CleanRunReaches
<1> QED
  BY <1>1, <1>2

-----------------------------------------------------------------------------
(*****************************************************************************)
(* Units and the code they run.                                              *)
(*****************************************************************************)
ServicesFields(m, r) ==
  /\ {"kind", "venv", "data", "unit", "loaded", "active", "enabled", "command",
       "spool"} \subseteq DOMAIN m
  /\ m.kind \in Services!Kinds
  /\ DOMAIN m.unit = Services!Units /\ DOMAIN m.loaded = Services!Units
       /\ DOMAIN m.active = Services!Units
  /\ \A u \in Services!Units : m.unit[u] # "none" => m.loaded[u] # "none"
  /\ RunFields(r) /\ {"version", "todo", "stale", "rebuilt", "wrote"} \subseteq DOMAIN r.mem

\* the service of the metrics runs the code of now and comes back with a boot
Current(m) == m.active["service"] = "new" /\ "service" \in m.enabled
  /\ m.unit["service"] # "none"

\* which units are there, for whichever section
ServicesUnits(m, r) ==
  /\ r.pc \in {"venv", "units"} =>
       /\ r.mem.version # "none"
       /\ \A u \in Services!UnitsOf(m.kind) : m.unit[u] # "none" \/ u \in r.mem.todo
  /\ r.pc \in {"systemd", "enable", "start", "watch", "verify"} =>
       \A u \in Services!UnitsOf(m.kind) : m.unit[u] # "none"

ServicesMetrics(m, r) ==
  m.kind = "metrics" =>
    /\ r.pc \notin {"rebuild", "fill", "verify"}
    /\ r.pc \in {"idle", "end", "check", "venv"} /\ m.venv = "new" => Current(m)
    /\ r.pc \notin {"idle", "check", "venv"} => m.venv = "new"
    /\ r.pc \in {"units", "systemd", "enable", "start"}
         => (r.mem.rebuilt /\ r.changed) \/ Current(m)
    /\ r.pc = "start" => "service" \in m.enabled
    /\ r.pc \in {"watch", "command", "spool", "end"} => Current(m)

ServicesOthers(m, r) ==
  m.kind # "metrics" =>
    /\ m.venv = "new" /\ r.pc \notin {"venv", "rebuild", "fill", "command", "spool"}
    /\ m.kind = "port" =>
         /\ r.pc # "watch"
         /\ r.pc \in {"idle", "end", "check"} /\ m.unit["service"] = "new" =>
              m.active["service"] \in {"none", "new"}
         /\ r.pc \in {"verify", "end"} =>
              /\ m.active["service"] \in {"none", "new"}
              /\ m.data = "full" => m.active["service"] = "new"
    /\ m.kind = "upnp" =>
         /\ r.pc \in {"start", "verify", "end"} => m.active["timer"] # "none"

ServicesInv ==
  /\ ServicesFields(sys, run) /\ Allows(MaxFaults, MaxKills)
  /\ Calm(MaxFaults, MaxKills) =>
       ServicesUnits(sys, run) /\ ServicesMetrics(sys, run) /\ ServicesOthers(sys, run)

LEMMA ServicesBounds ==
  ASSUME Allows(MaxFaults, MaxKills), Services!Step
  PROVE  /\ Allows(MaxFaults, MaxKills)'
         /\ Calm(MaxFaults, MaxKills)'
              => Calm(MaxFaults, MaxKills) /\ \A l, m, r : ~Services!FaultLeaving(l, m, r)
<1>1. ASSUME NEW l, NEW m, NEW r, Services!Do(l, m, r)
      PROVE  left' = left
  BY <1>1 DEF Services!Do
<1>2. ASSUME NEW l, NEW m, NEW r, Services!FaultLeaving(l, m, r)
      PROVE  Allows(MaxFaults, MaxKills)' /\ ~Calm(MaxFaults, MaxKills)'
  BY <1>2 DEF Services!FaultLeaving, Allows, Calm
<1>3. left' = left \/ \E l, m, r : Services!FaultLeaving(l, m, r)
  BY <1>1 DEF Services!Fault, Services!Step, Services!Check, Services!EnsureVenv,
       Services!RebuildVenv, Services!FillVenv, Services!WriteUnit, Services!Reload,
         Services!Enable, Services!StartService, Services!StartWatchers,
           Services!VerifyStarted, Services!WriteCommand, Services!EnsureSpool,
             Services!Broken
<1> QED
  BY <1>1, <1>2, <1>3 DEF Allows, Calm


\* the machine after the run wrote the unit u
ServicesWritten(u) ==
  [sys EXCEPT !.unit[u] = run.mem.version,
              !.loaded[u] = IF @ = "none" THEN run.mem.version ELSE @]

LEMMA ServicesWrites ==
  ASSUME ServicesFields(sys, run), NEW u
  PROVE  /\ DOMAIN ServicesWritten(u) = DOMAIN sys /\ ServicesWritten(u).kind = sys.kind
         /\ ServicesWritten(u).venv = sys.venv /\ ServicesWritten(u).active = sys.active
         /\ ServicesWritten(u).enabled = sys.enabled /\ ServicesWritten(u).data = sys.data
         /\ DOMAIN ServicesWritten(u).unit = Services!Units
              /\ DOMAIN ServicesWritten(u).loaded = Services!Units
         /\ \A w \in Services!Units :
              /\ ServicesWritten(u).unit[w] = IF w = u THEN run.mem.version ELSE sys.unit[w]
              /\ ServicesWritten(u).unit[w] # "none" => ServicesWritten(u).loaded[w] # "none"
<1>1. /\ DOMAIN ServicesWritten(u) = DOMAIN sys /\ ServicesWritten(u).kind = sys.kind
      /\ ServicesWritten(u).venv = sys.venv /\ ServicesWritten(u).active = sys.active
      /\ ServicesWritten(u).enabled = sys.enabled /\ ServicesWritten(u).data = sys.data
  BY DEF ServicesFields, ServicesWritten
<1>2. /\ ServicesWritten(u).unit = [sys.unit EXCEPT ![u] = run.mem.version]
      /\ ServicesWritten(u).loaded =
           [sys.loaded EXCEPT ![u] = IF sys.loaded[u] = "none" THEN run.mem.version ELSE
             sys.loaded[u]]
  BY DEF ServicesFields, ServicesWritten
<1> QED
  BY <1>1, <1>2 DEF ServicesFields

LEMMA ServicesFieldsStep ==
  ASSUME ServicesFields(sys, run), Services!Step
  PROVE  ServicesFields(sys, run)'
<1> USE DEF Services!Do, Services!Fault, Services!Goto, Services!Warned, Services!Changed,
      Services!Noted, Services!Recall, Services!Mem, Services!Broken, ServicesFields,
        RunFields, Services!Units, Services!FaultLeaving
<1>1. CASE Services!Check
  BY <1>1 DEF Services!Check, Services!Readiness, Services!StartsAgain, Services!Fresh,
       Services!UnitVersion, Services!Stale,
       Services!Mine, Services!Reached, Services!AllEnabled, Services!Autorun
<1>2. CASE Services!EnsureVenv
  BY <1>2 DEF Services!EnsureVenv
<1>3. CASE Services!RebuildVenv
  BY <1>3 DEF Services!RebuildVenv
<1>4. CASE Services!FillVenv
  BY <1>4 DEF Services!FillVenv
<1>5. CASE Services!WriteUnit
  <2>1. CASE run.mem.todo = {}
    <3>1. run.pc = "units" /\ sys' = sys /\ run' = Services!Goto(run, "systemd")
      <4> HIDE DEF Services!Goto, Services!Mem, Services!Warned, Services!Changed,
            Services!Recall
      <4> QED
        BY <1>5, <2>1 DEF Services!WriteUnit
    <3> QED
      BY <2>1, <3>1
  <2>2. CASE run.mem.todo # {}
    <3>1. PICK u \in run.mem.todo :
            \/ Services!Do("units", ServicesWritten(u),
                 Services!Changed(Services!Recall(run, [run.mem EXCEPT !.todo = @ \ {u},
                   !.wrote = TRUE])))
            \/ Services!Fault("units", Services!Warned(Services!Mem(run, "todo",
                 run.mem.todo \ {u})))
      <4> HIDE DEF Services!Goto, Services!Mem, Services!Warned, Services!Changed,
            Services!Recall, Services!Do, Services!Fault
      <4> QED
        BY <1>5, <2>2 DEF Services!WriteUnit, ServicesWritten
    <3>2. /\ DOMAIN ServicesWritten(u) = DOMAIN sys /\ ServicesWritten(u).kind = sys.kind
          /\ ServicesWritten(u).venv = sys.venv /\ ServicesWritten(u).active = sys.active
          /\ ServicesWritten(u).enabled = sys.enabled /\ ServicesWritten(u).data = sys.data
          /\ DOMAIN ServicesWritten(u).unit = Services!Units
               /\ DOMAIN ServicesWritten(u).loaded = Services!Units
          /\ \A w \in Services!Units :
               /\ ServicesWritten(u).unit[w] = IF w = u THEN run.mem.version ELSE sys.unit[w]
               /\ ServicesWritten(u).unit[w] # "none" => ServicesWritten(u).loaded[w] # "none"
      BY ServicesWrites
    <3> HIDE DEF Services!Units
    <3>3. RunFields(run') /\ DOMAIN run'.mem = DOMAIN run.mem
            /\ (sys' = sys \/ sys' = ServicesWritten(u))
      BY <3>1
    <3> QED
      BY <3>2, <3>3
  <2> QED
    BY <2>1, <2>2
<1>6. CASE Services!Reload
  <2>1. /\ RunFields(run') /\ run'.mem = run.mem
        /\ sys' = sys \/ sys' = [sys EXCEPT !.loaded = sys.unit]
    <3> HIDE DEF Services!Units
    <3> QED
      BY <1>6 DEF Services!Reload
  <2> HIDE DEF Services!Units
  <2> QED
    BY <2>1
<1>7. CASE Services!Enable
  <2>1. /\ RunFields(run') /\ run'.mem = run.mem
        /\ sys' = sys \/ \E e : sys' = [sys EXCEPT !.enabled = e, !.loaded = sys.unit]
    <3> HIDE DEF Services!Units
    <3> QED
      BY <1>7 DEF Services!Enable
  <2> HIDE DEF Services!Units
  <2> QED
    BY <2>1
<1>8. CASE Services!StartService
  BY <1>8 DEF Services!StartService, Services!Started, Services!Exits,
       Services!Restarts
<1>9. CASE Services!StartWatchers
  BY <1>9 DEF Services!StartWatchers, Services!TakenUp, Services!Restarted,
       Services!Started, Services!Exits, Services!Mine
<1>10. CASE Services!VerifyStarted
  BY <1>10 DEF Services!VerifyStarted
<1>11. CASE Services!WriteCommand
  BY <1>11 DEF Services!WriteCommand
<1>12. CASE Services!EnsureSpool
  BY <1>12 DEF Services!EnsureSpool
<1> QED
  BY <1>1, <1>2, <1>3, <1>4, <1>5, <1>6, <1>7, <1>8, <1>9, <1>10, <1>11,
       <1>12 DEF Services!Step

LEMMA ServicesUnitsStep ==
  ASSUME ServicesFields(sys, run), ServicesUnits(sys, run), ServicesMetrics(sys, run),
           ServicesOthers(sys, run),
         (\A l, m, r : ~Services!FaultLeaving(l, m, r)), Services!Step
  PROVE  ServicesUnits(sys, run)'
<1> USE DEF Services!Do, Services!Fault, Services!Goto, Services!Warned, Services!Changed,
      Services!Noted, Services!Recall, Services!Mem, Services!Broken, ServicesFields,
        RunFields, Services!Units, ServicesUnits, ServicesMetrics, ServicesOthers,
          Services!UnitsOf, Services!Kinds
<1>1. CASE Services!Check
  BY <1>1 DEF Services!Check, Services!Readiness, Services!StartsAgain, Services!Fresh,
       Services!UnitVersion, Services!Stale,
       Services!Mine, Services!Reached, Services!AllEnabled, Services!Autorun
<1>2. CASE Services!EnsureVenv
  <2>1. run.pc = "venv" /\ run'.pc = "units"
          /\ (sys' = sys \/ sys' = [sys EXCEPT !.venv = "new"])
    BY <1>2 DEF Services!EnsureVenv
  <2>2. run'.mem = run.mem \/ run'.mem = [run.mem EXCEPT !["rebuilt"] = TRUE]
    BY <1>2 DEF Services!EnsureVenv
  <2>3. run'.mem.version = run.mem.version /\ run'.mem.todo = run.mem.todo
    BY <2>2
  <2>4. sys'.kind = sys.kind /\ sys'.unit = sys.unit
    BY <2>1
  <2> QED
    BY <2>1, <2>3, <2>4
<1>3. CASE Services!RebuildVenv
  BY <1>3 DEF Services!RebuildVenv
<1>4. CASE Services!FillVenv
  BY <1>4 DEF Services!FillVenv
<1>5. CASE Services!WriteUnit
  <2>1. CASE run.mem.todo = {}
    <3>1. run.pc = "units" /\ sys' = sys /\ run' = Services!Goto(run, "systemd")
      <4> HIDE DEF Services!Goto, Services!Mem, Services!Warned, Services!Changed,
            Services!Recall
      <4> QED
        BY <1>5, <2>1 DEF Services!WriteUnit
    <3> QED
      BY <2>1, <3>1
  <2>2. CASE run.mem.todo # {}
    <3>1. PICK u \in run.mem.todo :
            \/ Services!Do("units", ServicesWritten(u),
                 Services!Changed(Services!Recall(run, [run.mem EXCEPT !.todo = @ \ {u},
                   !.wrote = TRUE])))
            \/ Services!Fault("units", Services!Warned(Services!Mem(run, "todo",
                 run.mem.todo \ {u})))
      <4> HIDE DEF Services!Goto, Services!Mem, Services!Warned, Services!Changed,
            Services!Recall, Services!Do, Services!Fault
      <4> QED
        BY <1>5, <2>2 DEF Services!WriteUnit, ServicesWritten
    <3>2. /\ DOMAIN ServicesWritten(u) = DOMAIN sys /\ ServicesWritten(u).kind = sys.kind
          /\ ServicesWritten(u).venv = sys.venv /\ ServicesWritten(u).active = sys.active
          /\ ServicesWritten(u).enabled = sys.enabled /\ ServicesWritten(u).data = sys.data
          /\ DOMAIN ServicesWritten(u).unit = Services!Units
               /\ DOMAIN ServicesWritten(u).loaded = Services!Units
          /\ \A w \in Services!Units :
               /\ ServicesWritten(u).unit[w] = IF w = u THEN run.mem.version ELSE sys.unit[w]
               /\ ServicesWritten(u).unit[w] # "none" => ServicesWritten(u).loaded[w] # "none"
      BY ServicesWrites
    <3> HIDE DEF Services!Units
    <3>3. /\ run.pc = "units" /\ run'.pc = "units" /\ sys' = ServicesWritten(u)
          /\ run'.mem.version = run.mem.version /\ run'.mem.todo = run.mem.todo \ {u}
      BY <3>1
    <3>4. Services!UnitsOf(sys.kind) \subseteq Services!Units
      BY DEF Services!Units
    <3> HIDE DEF Services!UnitsOf
    <3> QED
      BY <3>2, <3>3, <3>4
  <2> QED
    BY <2>1, <2>2
<1>6. CASE Services!Reload
  BY <1>6 DEF Services!Reload, Services!SkipsSystemd, Services!Reloads, Services!AllEnabled
<1>7. CASE Services!Enable
  <2>1. /\ run.pc = "enable" /\ run'.mem = run.mem
        /\ \/ run'.pc = run.pc
           \/ run'.pc \in {"command", "start", "watch"}
        /\ sys' = sys \/ \E e : sys' = [sys EXCEPT !.enabled = e, !.loaded = sys.unit]
    <3> HIDE DEF Services!Units, Services!UnitsOf, ServicesUnits, ServicesMetrics, ServicesOthers
    <3> QED
      BY <1>7 DEF Services!Enable, Services!AfterEnable
  <2>2. sys'.kind = sys.kind /\ sys'.unit = sys.unit
    BY <2>1
  <2> HIDE DEF Services!Units, Services!UnitsOf, ServicesMetrics, ServicesOthers
  <2> QED
    BY <2>1, <2>2
<1>8. CASE Services!StartService
  BY <1>8 DEF Services!StartService, Services!Started, Services!Exits,
       Services!Restarts
<1>9. CASE Services!StartWatchers
  BY <1>9 DEF Services!StartWatchers, Services!TakenUp, Services!Restarted,
       Services!Started, Services!Exits, Services!Mine
<1>10. CASE Services!VerifyStarted
  BY <1>10 DEF Services!VerifyStarted
<1>11. CASE Services!WriteCommand
  BY <1>11 DEF Services!WriteCommand
<1>12. CASE Services!EnsureSpool
  BY <1>12 DEF Services!EnsureSpool
<1> QED
  BY <1>1, <1>2, <1>3, <1>4, <1>5, <1>6, <1>7, <1>8, <1>9, <1>10, <1>11,
       <1>12 DEF Services!Step

LEMMA ServicesMetricsStep ==
  ASSUME ServicesFields(sys, run), ServicesUnits(sys, run), ServicesMetrics(sys, run),
           ServicesOthers(sys, run),
         (\A l, m, r : ~Services!FaultLeaving(l, m, r)), Services!Step
  PROVE  ServicesMetrics(sys, run)'
<1> USE DEF Services!Do, Services!Fault, Services!Goto, Services!Warned, Services!Changed,
      Services!Noted, Services!Recall, Services!Mem, Services!Broken, ServicesFields,
        RunFields, Services!Units, ServicesUnits, ServicesMetrics, ServicesOthers, Current,
          Services!UnitsOf, Services!Kinds
<1>1. CASE Services!Check
  BY <1>1 DEF Services!Check, Services!Readiness, Services!StartsAgain, Services!Fresh,
       Services!UnitVersion, Services!Stale,
       Services!Mine, Services!Reached, Services!AllEnabled, Services!Autorun
<1>2. CASE Services!EnsureVenv
  <2>1. CASE sys.venv = "new" /\ ~run.force
    <3>1. run.pc = "venv" /\ run'.pc = "units" /\ sys' = sys
      BY <1>2, <2>1 DEF Services!EnsureVenv
    <3> QED
      BY <2>1, <3>1
  <2>2. CASE ~(sys.venv = "new" /\ ~run.force)
    <3>1. /\ run.pc = "venv" /\ run'.pc = "units" /\ sys' = [sys EXCEPT !.venv = "new"]
               /\ run'.changed
          /\ run'.mem = [run.mem EXCEPT !["rebuilt"] = TRUE]
      BY <1>2, <2>2 DEF Services!EnsureVenv
    <3>2. run'.mem.rebuilt /\ sys'.venv = "new" /\ sys'.kind = sys.kind
      BY <3>1
    <3> QED
      BY <3>1, <3>2
  <2> QED
    BY <2>1, <2>2
<1>3. CASE Services!RebuildVenv
  BY <1>3 DEF Services!RebuildVenv
<1>4. CASE Services!FillVenv
  BY <1>4 DEF Services!FillVenv
<1>5. CASE Services!WriteUnit
  <2>1. CASE run.mem.todo = {}
    <3>1. run.pc = "units" /\ sys' = sys /\ run' = Services!Goto(run, "systemd")
      <4> HIDE DEF Services!Goto, Services!Mem, Services!Warned, Services!Changed,
            Services!Recall
      <4> QED
        BY <1>5, <2>1 DEF Services!WriteUnit
    <3> QED
      BY <2>1, <3>1
  <2>2. CASE run.mem.todo # {}
    <3>1. PICK u \in run.mem.todo :
            \/ Services!Do("units", ServicesWritten(u),
                 Services!Changed(Services!Recall(run, [run.mem EXCEPT !.todo = @ \ {u},
                   !.wrote = TRUE])))
            \/ Services!Fault("units", Services!Warned(Services!Mem(run, "todo",
                 run.mem.todo \ {u})))
      <4> HIDE DEF Services!Goto, Services!Mem, Services!Warned, Services!Changed,
            Services!Recall, Services!Do, Services!Fault
      <4> QED
        BY <1>5, <2>2 DEF Services!WriteUnit, ServicesWritten
    <3>2. /\ DOMAIN ServicesWritten(u) = DOMAIN sys /\ ServicesWritten(u).kind = sys.kind
          /\ ServicesWritten(u).venv = sys.venv /\ ServicesWritten(u).active = sys.active
          /\ ServicesWritten(u).enabled = sys.enabled /\ ServicesWritten(u).data = sys.data
          /\ DOMAIN ServicesWritten(u).unit = Services!Units
               /\ DOMAIN ServicesWritten(u).loaded = Services!Units
          /\ \A w \in Services!Units :
               /\ ServicesWritten(u).unit[w] = IF w = u THEN run.mem.version ELSE sys.unit[w]
               /\ ServicesWritten(u).unit[w] # "none" => ServicesWritten(u).loaded[w] # "none"
      BY ServicesWrites
    <3> HIDE DEF Services!Units
    <3>3. /\ run.pc = "units" /\ run'.pc = "units" /\ sys' = ServicesWritten(u)
               /\ run'.changed
          /\ run'.mem.rebuilt = run.mem.rebuilt
      BY <3>1
    <3>4. "service" \in Services!Units
      BY DEF Services!Units
    <3> QED
      BY <3>2, <3>3, <3>4
  <2> QED
    BY <2>1, <2>2
<1>6. CASE Services!Reload
  BY <1>6 DEF Services!Reload, Services!SkipsSystemd, Services!Reloads, Services!AllEnabled
<1>7. CASE Services!Enable
  <2>1. CASE sys.kind # "metrics"
    <3>1. sys'.kind = sys.kind
      BY <1>7 DEF Services!Enable
    <3> QED
      BY <2>1, <3>1
  <2>2. CASE sys.kind = "metrics" /\ Services!AllEnabled
    <3>1. run.pc = "enable" /\ sys' = sys /\ run'.pc = "start" /\ run'.mem = run.mem
            /\ run'.changed = run.changed
      BY <1>7, <2>2 DEF Services!Enable, Services!AllEnabled, Services!AfterEnable
    <3>2. "service" \in sys.enabled
      BY <2>2 DEF Services!AllEnabled, Services!Autorun
    <3> QED
      BY <2>2, <3>1, <3>2
  <2>3. CASE sys.kind = "metrics" /\ ~Services!AllEnabled
    <3>1. \A u \in Services!Autorun(sys.kind) : sys.unit[u] # "none"
      BY <1>7 DEF Services!Enable, Services!Autorun
    <3>2. PICK u : /\ run.pc = "enable" /\ run'.pc = "enable" /\ run'.mem = run.mem
                   /\ sys' = [sys EXCEPT !.enabled = @ \cup {u}, !.loaded = sys.unit]
                   /\ run.changed => run'.changed
      BY <1>7, <2>3, <3>1 DEF Services!Enable
    <3>3. /\ sys'.kind = sys.kind /\ sys'.venv = sys.venv /\ sys'.active = sys.active
               /\ sys'.unit = sys.unit
          /\ sys.enabled \subseteq sys'.enabled
      BY <3>2
    <3> QED
      BY <2>3, <3>2, <3>3
  <2> QED
    BY <2>1, <2>2, <2>3
<1>8. CASE Services!StartService
  BY <1>8 DEF Services!StartService, Services!Started, Services!Exits,
       Services!Restarts
<1>9. CASE Services!StartWatchers
  <2>1. CASE sys.kind # "metrics"
    <3>1. sys'.kind = sys.kind
      BY <1>9 DEF Services!StartWatchers
    <3> QED
      BY <2>1, <3>1
  <2>2. CASE sys.kind = "metrics"
    <3>1. run.pc = "watch" /\ run'.pc = "command"
      BY <1>9, <2>2 DEF Services!StartWatchers
    <3>2. sys' = [sys EXCEPT !.active = [u \in Services!Units |-> IF Services!TakenUp(u)
            THEN Services!Started(u) ELSE @[u]]]
      <4> HIDE DEF Services!Units
      <4> QED
        BY <1>9 DEF Services!StartWatchers
    <3>3. ~Services!TakenUp("service")
      BY DEF Services!TakenUp, Services!Restarted
    <3>4. sys'.active["service"] = sys.active["service"]
      <4>1. sys'.active = [u \in Services!Units |-> IF Services!TakenUp(u) THEN
              Services!Started(u) ELSE sys.active[u]]
        BY <3>2
      <4> HIDE DEF Services!TakenUp
      <4> QED
        BY <3>3, <4>1
    <3>5. /\ sys'.kind = sys.kind /\ sys'.venv = sys.venv /\ sys'.unit = sys.unit
               /\ sys'.enabled = sys.enabled
      BY <3>2
    <3> QED
      BY <2>2, <3>1, <3>4, <3>5
  <2> QED
    BY <2>1, <2>2
<1>10. CASE Services!VerifyStarted
  BY <1>10 DEF Services!VerifyStarted
<1>11. CASE Services!WriteCommand
  BY <1>11 DEF Services!WriteCommand
<1>12. CASE Services!EnsureSpool
  BY <1>12 DEF Services!EnsureSpool
<1> QED
  BY <1>1, <1>2, <1>3, <1>4, <1>5, <1>6, <1>7, <1>8, <1>9, <1>10, <1>11,
       <1>12 DEF Services!Step

LEMMA ServicesOthersStep ==
  ASSUME ServicesFields(sys, run), ServicesUnits(sys, run), ServicesMetrics(sys, run),
           ServicesOthers(sys, run),
         (\A l, m, r : ~Services!FaultLeaving(l, m, r)), Services!Step
  PROVE  ServicesOthers(sys, run)'
<1> USE DEF Services!Do, Services!Fault, Services!Goto, Services!Warned, Services!Changed,
      Services!Noted, Services!Recall, Services!Mem, Services!Broken, ServicesFields,
        RunFields, Services!Units, ServicesUnits, ServicesMetrics, ServicesOthers,
          Services!UnitsOf, Services!Kinds
<1>1. CASE Services!Check
  BY <1>1 DEF Services!Check, Services!Readiness, Services!StartsAgain, Services!Fresh,
       Services!UnitVersion, Services!Stale,
       Services!Mine, Services!Reached, Services!AllEnabled, Services!Autorun
<1>2. CASE Services!EnsureVenv
  BY <1>2 DEF Services!EnsureVenv
<1>3. CASE Services!RebuildVenv
  BY <1>3 DEF Services!RebuildVenv
<1>4. CASE Services!FillVenv
  BY <1>4 DEF Services!FillVenv
<1>5. CASE Services!WriteUnit
  BY <1>5 DEF Services!WriteUnit
<1>6. CASE Services!Reload
  BY <1>6 DEF Services!Reload, Services!SkipsSystemd, Services!Reloads, Services!AllEnabled
<1>7. CASE Services!Enable
  BY <1>7 DEF Services!Enable, Services!AfterEnable, Services!AllEnabled, Services!Autorun,
       Services!Mine
<1>8. CASE Services!StartService
  BY <1>8 DEF Services!StartService, Services!Started, Services!Exits,
       Services!Restarts
<1>9. CASE Services!StartWatchers
  <2>1. CASE sys.kind = "upnp"
    <3>1. run.pc = "watch" /\ run'.pc = "start"
      BY <1>9, <2>1 DEF Services!StartWatchers
    <3>2. sys' = [sys EXCEPT !.active = [u \in Services!Units |-> IF Services!TakenUp(u)
            THEN Services!Started(u) ELSE @[u]]]
      <4> HIDE DEF Services!Units
      <4> QED
        BY <1>9 DEF Services!StartWatchers
    <3>3. Services!TakenUp("timer") \/ sys.active["timer"] # "none"
      BY <2>1 DEF Services!TakenUp, Services!Restarted, Services!Mine
    <3>4. Services!Started("timer") # "none"
      BY <2>1, <3>1 DEF Services!Started, Services!Exits
    <3>5. sys'.active = [u \in Services!Units |-> IF Services!TakenUp(u) THEN
            Services!Started(u) ELSE sys.active[u]]
      BY <3>2
    <3>6. sys'.active["timer"] # "none"
      <4> HIDE DEF Services!TakenUp, Services!Started
      <4> QED
        BY <3>3, <3>4, <3>5
    <3>7. sys'.kind = sys.kind /\ sys'.venv = sys.venv
      BY <3>2
    <3> QED
      BY <2>1, <3>1, <3>6, <3>7
  <2>2. CASE sys.kind # "upnp"
    <3>1. /\ run.pc = "watch" /\ run'.pc = "command" /\ sys'.kind = sys.kind
          /\ sys'.venv = sys.venv
      BY <1>9, <2>2 DEF Services!StartWatchers
    <3> QED
      BY <2>2, <3>1
  <2> QED
    BY <2>1, <2>2
<1>10. CASE Services!VerifyStarted
  BY <1>10 DEF Services!VerifyStarted
<1>11. CASE Services!WriteCommand
  BY <1>11 DEF Services!WriteCommand
<1>12. CASE Services!EnsureSpool
  BY <1>12 DEF Services!EnsureSpool
<1> QED
  BY <1>1, <1>2, <1>3, <1>4, <1>5, <1>6, <1>7, <1>8, <1>9, <1>10, <1>11,
       <1>12 DEF Services!Step

LEMMA NextServices ==
  ASSUME ServicesInv, [Services!Next]_vars
  PROVE  ServicesInv'
<1>1. CASE Services!Step
  <2>1. ServicesFields(sys, run)' /\ Allows(MaxFaults, MaxKills)'
    BY <1>1, ServicesFieldsStep, ServicesBounds DEF ServicesInv
  <2>2. ASSUME Calm(MaxFaults, MaxKills)'
        PROVE  ServicesUnits(sys, run)' /\ ServicesMetrics(sys, run)'
                 /\ ServicesOthers(sys, run)'
    BY <1>1, <2>2, ServicesBounds, ServicesUnitsStep, ServicesMetricsStep,
         ServicesOthersStep DEF ServicesInv
  <2> QED
    BY <2>1, <2>2 DEF ServicesInv
<1> USE DEF ServicesInv, ServicesFields, RunFields, Allows, Calm
<1>2. CASE Services!StartTask
  BY <1>2 DEF Services!StartTask, Services!Begin, Services!Fresh, Services!AtRest,
       ServicesUnits, ServicesMetrics, ServicesOthers, Current
<1>3. CASE Services!Kill
  BY <1>3 DEF Services!Kill, Services!NoRun
<1>4. CASE Services!Upgrade
  BY <1>4 DEF Services!Upgrade, Services!Event, Services!NoRun, Services!AtRest,
       Services!Older, Services!Units, ServicesUnits, ServicesMetrics, ServicesOthers, Current
<1>5. CASE Services!Reboot
  BY <1>5 DEF Services!Reboot, Services!Event, Services!NoRun, Services!AtRest,
       Services!Units, Services!Exits, ServicesUnits, ServicesMetrics, ServicesOthers, Current
<1>6. CASE Services!VaultSynced
  BY <1>6 DEF Services!VaultSynced, Services!Event, Services!NoRun, Services!AtRest,
       ServicesUnits, ServicesMetrics, ServicesOthers, Current
<1>7. CASE UNCHANGED vars
  BY <1>7 DEF vars, ServicesUnits, ServicesMetrics, ServicesOthers, Current
<1> QED
  BY <1>1, <1>2, <1>3, <1>4, <1>5, <1>6, <1>7 DEF Services!Next

LEMMA InitServices == Services!Init => ServicesInv
  BY BoundsAreNumbers DEF Services!Init, ServicesInv, ServicesFields, ServicesUnits,
       ServicesMetrics, ServicesOthers, Current, RunFields, Allows, Services!NoRun,
         Services!Fresh, Services!Budget, Services!Kinds, Services!Units

LEMMA ServicesPromise == ServicesInv => Services!CurrentCodeUndisturbed
  BY DEF ServicesInv, ServicesFields, ServicesMetrics, ServicesOthers, Current, Calm,
           Services!CurrentCodeUndisturbed, Services!Untouched, Services!RunsCurrentCode,
             Services!Serves, Services!CleanRunReaches, Services!Kinds

-----------------------------------------------------------------------------
(*****************************************************************************)
(* The daemons of the hidden services read what is on the disk.              *)
(*****************************************************************************)
HiddenFields(m, r) ==
  /\ {"daemon", "package", "file", "running", "enabled", "identity", "drawn",
       "saved"} \subseteq DOMAIN m
  /\ m.file \subseteq Hidden!Pieces /\ m.daemon \in Hidden!Daemons
  /\ RunFields(r)
  /\ {"needs", "wants", "write", "address", "enabled", "active", "known",
       "behind"} \subseteq DOMAIN r.mem
  /\ r.mem.write \subseteq Hidden!Pieces

\* a daemon that runs where both pieces are in place has read them
HasRead(m) == m.running # "down" /\ m.file = Hidden!Pieces => m.running = "target"

\* Between two runs the daemon has read what is there; a run that puts a piece
\* in place, or finds the daemon behind, knows of the start to come.
HiddenWays(m, r) ==
  IF m.daemon = "tor" THEN r.pc # "forget" ELSE r.pc \notin {"base", "verify", "dir"}
HiddenReads(m, r) ==
  /\ r.pc \in {"idle", "end", "base"} => HasRead(m)
  /\ r.pc = "install" /\ m.daemon = "tor" => HasRead(m) /\ r.mem.write = {}
  /\ r.pc = "base" => m.package # "none" /\ r.mem.write = {}
  /\ r.pc = "check" =>
       /\ HasRead(m) \/ (m.daemon = "tor" /\ "base" \in r.mem.write)
       /\ m.daemon = "tor" => "base" \in m.file /\ m.package # "none"
  /\ r.pc \in {"address", "end"} => m.running = "target"
HiddenPlans(m, r) ==
  LET planned == \/ r.pc \in {"forget", "write", "verify", "dir", "enable", "start"}
                 \/ r.pc = "install" /\ m.daemon = "i2pd"
  IN planned =>
       /\ Hidden!Pieces \subseteq m.file \cup r.mem.write
       /\ r.pc \notin {"forget", "install", "write"} => m.file = Hidden!Pieces
       /\ ~r.mem.wants /\ ~r.mem.needs /\ r.mem.active => m.running = "target"
       /\ ~r.mem.needs => m.package # "none"
       /\ r.pc \notin {"forget", "install"} => m.package # "none"
       /\ m.daemon = "tor" => /\ "base" \in m.file
                              /\ r.mem.active <=> m.running # "down"

HiddenReadInv ==
  /\ HiddenFields(sys, run) /\ Allows(MaxFaults, MaxKills) /\ HiddenWays(sys, run)
  /\ Calm(MaxFaults, MaxKills) => HiddenReads(sys, run) /\ HiddenPlans(sys, run)

LEMMA HiddenBounds ==
  ASSUME Allows(MaxFaults, MaxKills), Hidden!Step
  PROVE  /\ Allows(MaxFaults, MaxKills)'
         /\ Calm(MaxFaults, MaxKills)'
              => Calm(MaxFaults, MaxKills) /\ \A l, m, r : ~Hidden!FaultLeaving(l, m, r)
<1>1. ASSUME NEW l, NEW m, NEW r, Hidden!Do(l, m, r)
      PROVE  left' = left
  BY <1>1 DEF Hidden!Do
<1>2. ASSUME NEW l, NEW m, NEW r, Hidden!FaultLeaving(l, m, r)
      PROVE  Allows(MaxFaults, MaxKills)' /\ ~Calm(MaxFaults, MaxKills)'
  BY <1>2 DEF Hidden!FaultLeaving, Allows, Calm
<1>3. left' = left \/ \E l, m, r : Hidden!FaultLeaving(l, m, r)
  BY <1>1 DEF Hidden!Fault, Hidden!Step, Hidden!InstallPackage, Hidden!EnsureTorrcInclude,
       Hidden!Check, Hidden!ForgetTunnel, Hidden!WriteConfig, Hidden!VerifyConfig,
         Hidden!HiddenServiceDir, Hidden!EnableService, Hidden!StartService,
           Hidden!SaveAddress
<1> QED
  BY <1>1, <1>2, <1>3 DEF Allows, Calm

LEMMA HiddenFieldsStep ==
  ASSUME HiddenFields(sys, run), Hidden!Step
  PROVE  HiddenFields(sys, run)'
<1> USE DEF Hidden!Do, Hidden!Fault, Hidden!Goto, Hidden!Warned, Hidden!Changed,
      Hidden!Noted, Hidden!Recall, Hidden!Mem, HiddenFields, RunFields, Hidden!FaultLeaving
<1>1. CASE Hidden!InstallPackage
  BY <1>1 DEF Hidden!InstallPackage, Hidden!Tor, Hidden!Installed, Hidden!Up
<1>2. CASE Hidden!EnsureTorrcInclude
  <2>1. /\ DOMAIN sys' = DOMAIN sys /\ sys'.daemon = sys.daemon
             /\ sys'.file \subseteq sys.file \cup {"base"}
        /\ RunFields(run')
    BY <1>2 DEF Hidden!EnsureTorrcInclude
  <2>2. run'.mem = run.mem \/ run'.mem = [run.mem EXCEPT !["write"] = {"base"}]
    BY <1>2 DEF Hidden!EnsureTorrcInclude
  <2> QED
    BY <2>1, <2>2 DEF Hidden!Pieces
<1>3. CASE Hidden!Check
  <2>1. sys' = sys
          /\ (run' = Hidden!Look(Hidden!Snapshot) \/ run' =
               [Hidden!Warned(Hidden!Look(Hidden!Unknown)) EXCEPT !.hurt = TRUE])
    <3> HIDE DEF Hidden!Goto, Hidden!Recall, Hidden!Warned
    <3> QED
      BY <1>3 DEF Hidden!Check
  <2>2. ASSUME NEW seen \in {Hidden!Snapshot, Hidden!Unknown}
        PROVE  /\ RunFields(Hidden!Look(seen))
               /\ Hidden!Look(seen).mem \in {run.mem, seen}
               /\ DOMAIN seen = DOMAIN run.mem /\ seen.write \subseteq Hidden!Pieces
    <3>1. Hidden!Outdated \subseteq Hidden!Pieces
      BY DEF Hidden!Outdated, Hidden!Written, Hidden!Pieces
    <3>2. /\ DOMAIN seen = DOMAIN run.mem
          /\ seen.write \subseteq run.mem.write \cup Hidden!Outdated \cup {"base"}
      BY DEF Hidden!Snapshot, Hidden!Unknown
    <3> HIDE DEF Hidden!Snapshot, Hidden!Unknown
    <3>3. RunFields(Hidden!Look(seen)) /\ Hidden!Look(seen).mem \in {run.mem, seen}
      BY DEF Hidden!Look
    <3> QED
      BY <3>1, <3>2, <3>3 DEF Hidden!Pieces
  <2>3. PICK seen \in {Hidden!Snapshot, Hidden!Unknown} :
          run' = Hidden!Look(seen) \/ run' = [Hidden!Warned(Hidden!Look(seen)) EXCEPT !.hurt
            = TRUE]
    BY <2>1
  <2>4. RunFields(run') /\ run'.mem = Hidden!Look(seen).mem
    <3> HIDE DEF HiddenFields
    <3> QED
      BY <2>2, <2>3
  <2> QED
    BY <2>1, <2>2, <2>4
<1>4. CASE Hidden!ForgetTunnel
  BY <1>4 DEF Hidden!ForgetTunnel
<1>5. CASE Hidden!WriteConfig
  <2>1. CASE run.mem.write = {}
    <3>1. run.pc = "write" /\ sys' = sys
            /\ run' = Hidden!Goto(run, IF Hidden!Tor THEN "verify" ELSE "enable")
      <4> HIDE DEF Hidden!Mem, Hidden!Goto, Hidden!Warned, Hidden!Changed
      <4> QED
        BY <1>5, <2>1 DEF Hidden!WriteConfig
    <3> QED
      BY <2>1, <3>1 DEF Hidden!Tor
  <2>2. ASSUME NEW piece, run.mem.write # {},
               \/ /\ Hidden!Tor /\ piece = "base"
                  /\ Hidden!Do("write", sys, Hidden!Mem(run, "write",
                       run.mem.write \ {piece}))
               \/ /\ ~(Hidden!Tor /\ piece = "base")
                  /\ \/ Hidden!Do("write", [sys EXCEPT !.file = @ \cup {piece}],
                           Hidden!Changed(Hidden!Mem(run, "write", run.mem.write \ {piece})))
                     \/ Hidden!FaultLeaving("write", [sys EXCEPT !.file = @ \ {piece}],
                                     Hidden!Warned(Hidden!Mem(run, "write",
                                       run.mem.write \ {piece})))
        PROVE  /\ DOMAIN sys' = DOMAIN sys /\ sys'.daemon = sys.daemon
               /\ sys'.file \subseteq sys.file \cup {piece}
               /\ RunFields(run')
                    /\ run'.mem = [run.mem EXCEPT !["write"] = run.mem.write \ {piece}]
    BY <2>2
  <2>3. CASE run.mem.write # {}
    <3>1. PICK piece \in run.mem.write \cap Hidden!Pieces :
             /\ DOMAIN sys' = DOMAIN sys /\ sys'.daemon = sys.daemon
             /\ sys'.file \subseteq sys.file \cup {piece}
             /\ RunFields(run')
                  /\ run'.mem = [run.mem EXCEPT !["write"] = run.mem.write \ {piece}]
      <4> HIDE DEF Hidden!Do, Hidden!FaultLeaving, Hidden!Mem, Hidden!Warned, Hidden!Changed
      <4> QED
        BY <1>5, <2>2, <2>3 DEF Hidden!WriteConfig
    <3> QED
      BY <3>1
  <2> QED
    BY <2>1, <2>3
<1>6. CASE Hidden!VerifyConfig
  BY <1>6 DEF Hidden!VerifyConfig
<1>7. CASE Hidden!HiddenServiceDir
  BY <1>7 DEF Hidden!HiddenServiceDir
<1>8. CASE Hidden!EnableService
  BY <1>8 DEF Hidden!EnableService
<1>9. CASE Hidden!StartService
  BY <1>9 DEF Hidden!StartService, Hidden!Up, Hidden!Tor, Hidden!NeedsStart, Hidden!Again,
       Hidden!StaleStart
<1>10. CASE Hidden!SaveAddress
  BY <1>10 DEF Hidden!SaveAddress, Hidden!I2pd
<1> QED
  BY <1>1, <1>2, <1>3, <1>4, <1>5, <1>6, <1>7, <1>8, <1>9, <1>10 DEF Hidden!Step

LEMMA HiddenWaysStep ==
  ASSUME HiddenFields(sys, run), HiddenWays(sys, run), Hidden!Step
  PROVE  HiddenWays(sys, run)'
<1> USE DEF Hidden!Do, Hidden!Fault, Hidden!Goto, Hidden!Warned, Hidden!Changed,
      Hidden!Noted, Hidden!Recall, Hidden!Mem, HiddenFields, RunFields, Hidden!FaultLeaving,
        HiddenWays, Hidden!Daemons
<1>1. CASE Hidden!InstallPackage
  BY <1>1 DEF Hidden!InstallPackage, Hidden!Tor, Hidden!Installed, Hidden!Up
<1>2. CASE Hidden!EnsureTorrcInclude
  BY <1>2 DEF Hidden!EnsureTorrcInclude, Hidden!Pieces
<1>3. CASE Hidden!Check
  <2>1. /\ sys' = sys
        /\ run'.pc \in {"end", IF Hidden!Tor THEN "write" ELSE "forget"}
    <3> HIDE DEF HiddenWays
    <3> QED
      BY <1>3 DEF Hidden!Check, Hidden!Look
  <2> QED
    BY <2>1 DEF Hidden!Tor
<1>4. CASE Hidden!ForgetTunnel
  BY <1>4 DEF Hidden!ForgetTunnel
<1>5. CASE Hidden!WriteConfig
  BY <1>5 DEF Hidden!WriteConfig, Hidden!Tor, Hidden!Pieces
<1>6. CASE Hidden!VerifyConfig
  BY <1>6 DEF Hidden!VerifyConfig
<1>7. CASE Hidden!HiddenServiceDir
  BY <1>7 DEF Hidden!HiddenServiceDir
<1>8. CASE Hidden!EnableService
  BY <1>8 DEF Hidden!EnableService
<1>9. CASE Hidden!StartService
  BY <1>9 DEF Hidden!StartService, Hidden!Up, Hidden!Tor, Hidden!NeedsStart, Hidden!Again,
       Hidden!StaleStart
<1>10. CASE Hidden!SaveAddress
  BY <1>10 DEF Hidden!SaveAddress, Hidden!I2pd
<1> QED
  BY <1>1, <1>2, <1>3, <1>4, <1>5, <1>6, <1>7, <1>8, <1>9, <1>10 DEF Hidden!Step

LEMMA HiddenReadsStep ==
  ASSUME HiddenFields(sys, run), HiddenWays(sys, run), HiddenReads(sys, run),
           HiddenPlans(sys, run),
         (\A l, m, r : ~Hidden!FaultLeaving(l, m, r)), Hidden!Step
  PROVE  HiddenReads(sys, run)' /\ HiddenPlans(sys, run)'
<1> USE DEF Hidden!Do, Hidden!Fault, Hidden!Goto, Hidden!Warned, Hidden!Changed,
      Hidden!Noted, Hidden!Recall, Hidden!Mem, HiddenFields, RunFields, HiddenWays,
        HiddenReads, HiddenPlans, HasRead, Hidden!Daemons
<1>1. CASE Hidden!InstallPackage
  BY <1>1 DEF Hidden!InstallPackage, Hidden!Tor, Hidden!Installed, Hidden!Up
<1>2. CASE Hidden!EnsureTorrcInclude
  <2>1. run.pc = "base" /\ sys.package # "none" /\ run.mem.write = {} /\ HasRead(sys)
          /\ sys.daemon = "tor"
    BY <1>2 DEF Hidden!EnsureTorrcInclude
  <2>2. CASE "base" \in sys.file
    <3>1. sys' = sys /\ run'.pc = "check" /\ run'.mem = run.mem
      BY <1>2, <2>1, <2>2 DEF Hidden!EnsureTorrcInclude
    <3> QED
      BY <2>1, <2>2, <3>1
  <2>3. CASE "base" \notin sys.file
    <3>1. /\ sys' = [sys EXCEPT !.file = @ \cup {"base"}] /\ run'.pc = "check"
          /\ run'.mem = [run.mem EXCEPT !["write"] = {"base"}]
      BY <1>2, <2>1, <2>3 DEF Hidden!EnsureTorrcInclude
    <3>2. run'.mem.write = {"base"}
      BY <3>1
    <3> QED
      BY <2>1, <3>1, <3>2
  <2> QED
    BY <2>2, <2>3
<1>3. CASE Hidden!Check
  <2> DEFINE seen == Hidden!Snapshot
  <2>1. run.pc = "check" /\ sys' = sys /\ run' = Hidden!Look(seen)
    <3> HIDE DEF Hidden!Goto, Hidden!Warned, Hidden!Recall
    <3> QED
      BY <1>3 DEF Hidden!Check
  <2>2. /\ seen.needs = (Hidden!I2pd /\ sys.package # "new")
        /\ seen.write = run.mem.write \cup Hidden!Outdated
        /\ seen.wants = (run.mem.write \cup Hidden!Outdated # {})
        /\ seen.active = (sys.running # "down")
        /\ Hidden!Pieces \subseteq sys.file \cup seen.write
    BY <2>1 DEF Hidden!Snapshot, Hidden!Outdated, Hidden!Written, Hidden!Tor, Hidden!I2pd,
         Hidden!Pieces
  <2>3. HasRead(sys) \/ seen.wants
    BY <2>1, <2>2
  <2> HIDE DEF seen
  <2>4. CASE Hidden!Reached(seen)
    <3>1. run'.pc = "end"
      BY <2>1, <2>4 DEF Hidden!Look
    <3>2. sys.running # "down" /\ sys.file = Hidden!Pieces /\ ~seen.wants
      BY <2>1, <2>2, <2>4 DEF Hidden!Reached
    <3> QED
      BY <2>1, <2>3, <3>1, <3>2
  <2>5. CASE ~Hidden!Reached(seen)
    <3>1. run'.mem = seen /\ run'.pc = IF Hidden!Tor THEN "write" ELSE "forget"
      BY <2>1, <2>5 DEF Hidden!Look
    <3>2. ~seen.wants => sys.file = Hidden!Pieces
      BY <2>2
    <3>3. ~seen.needs => sys.package # "none"
      BY <2>1, <2>2 DEF Hidden!I2pd
    <3>4. CASE sys.daemon = "tor"
      BY <2>1, <2>2, <2>3, <3>1, <3>2, <3>3, <3>4 DEF Hidden!Tor, Hidden!I2pd
    <3>5. CASE sys.daemon = "i2pd"
      BY <2>1, <2>2, <2>3, <3>1, <3>2, <3>3, <3>5 DEF Hidden!Tor, Hidden!I2pd
    <3> QED
      BY <3>4, <3>5
  <2> QED
    BY <2>4, <2>5
<1>4. CASE Hidden!ForgetTunnel
  BY <1>4 DEF Hidden!ForgetTunnel
<1>5. CASE Hidden!WriteConfig
  <2>1. CASE run.mem.write = {}
    <3>1. run.pc = "write" /\ sys' = sys
            /\ run' = Hidden!Goto(run, IF Hidden!Tor THEN "verify" ELSE "enable")
      <4> HIDE DEF Hidden!Mem, Hidden!Goto, Hidden!Warned, Hidden!Changed
      <4> QED
        BY <1>5, <2>1 DEF Hidden!WriteConfig
    <3> QED
      BY <2>1, <3>1 DEF Hidden!Tor
  <2>2. CASE run.mem.write # {}
    <3>1. PICK piece \in run.mem.write :
            \/ /\ Hidden!Tor /\ piece = "base"
               /\ Hidden!Do("write", sys, Hidden!Mem(run, "write", run.mem.write \ {piece}))
            \/ /\ ~(Hidden!Tor /\ piece = "base")
               /\ Hidden!Do("write", [sys EXCEPT !.file = @ \cup {piece}],
                            Hidden!Changed(Hidden!Mem(run, "write", run.mem.write \ {piece})))
      <4> HIDE DEF Hidden!Do, Hidden!Mem, Hidden!Warned, Hidden!Changed
      <4> QED
        BY <1>5, <2>2 DEF Hidden!WriteConfig
    <3>2. /\ run.pc = "write" /\ run'.pc = "write"
          /\ run'.mem = [run.mem EXCEPT !["write"] = run.mem.write \ {piece}]
      BY <3>1
    <3>3. /\ run'.mem.write = run.mem.write \ {piece} /\ run'.mem.wants = run.mem.wants
          /\ run'.mem.needs = run.mem.needs /\ run'.mem.active = run.mem.active
      BY <3>2
    <3>4. /\ sys'.daemon = sys.daemon /\ sys'.package = sys.package
               /\ sys'.running = sys.running
          /\ sys.file \subseteq sys'.file /\ piece \in sys'.file
      BY <3>1, <3>2 DEF Hidden!Tor
    <3> QED
      BY <3>2, <3>3, <3>4
  <2> QED
    BY <2>1, <2>2
<1>6. CASE Hidden!VerifyConfig
  BY <1>6 DEF Hidden!VerifyConfig
<1>7. CASE Hidden!HiddenServiceDir
  BY <1>7 DEF Hidden!HiddenServiceDir
<1>8. CASE Hidden!EnableService
  BY <1>8 DEF Hidden!EnableService
<1>9. CASE Hidden!StartService
  BY <1>9 DEF Hidden!StartService, Hidden!Up, Hidden!Tor, Hidden!NeedsStart, Hidden!Again,
       Hidden!StaleStart
<1>10. CASE Hidden!SaveAddress
  BY <1>10 DEF Hidden!SaveAddress, Hidden!I2pd
<1> QED
  BY <1>1, <1>2, <1>3, <1>4, <1>5, <1>6, <1>7, <1>8, <1>9, <1>10 DEF Hidden!Step

LEMMA HiddenReadNext ==
  ASSUME HiddenReadInv, [Hidden!Next]_vars
  PROVE  HiddenReadInv'
<1>1. CASE Hidden!Step
  <2>1. HiddenFields(sys, run)' /\ HiddenWays(sys, run)' /\ Allows(MaxFaults, MaxKills)'
    BY <1>1, HiddenFieldsStep, HiddenWaysStep, HiddenBounds DEF HiddenReadInv
  <2>2. ASSUME Calm(MaxFaults, MaxKills)'
        PROVE HiddenReads(sys, run)' /\ HiddenPlans(sys, run)'
    BY <1>1, <2>2, HiddenBounds, HiddenReadsStep DEF HiddenReadInv
  <2> QED
    BY <2>1, <2>2 DEF HiddenReadInv
<1> USE DEF HiddenReadInv, HiddenFields, RunFields, Allows, Calm, HiddenWays
<1>2. CASE Hidden!StartTask
  <2>1. /\ run.pc \in {"idle", "end"} /\ run'.pc = IF Hidden!Tor THEN "install" ELSE "check"
        /\ sys' = sys /\ left'.faults = left.faults /\ left'.kills = left.kills
        /\ {"runs", "faults", "kills", "events"} \subseteq DOMAIN left'
        /\ RunFields(run')
    BY <1>2 DEF Hidden!StartTask, Hidden!Begin, Hidden!AtRest
  <2>2. \E known, behind : run'.mem = [Hidden!Fresh EXCEPT !.known = known, !.behind = behind]
    <3>1. PICK force \in BOOLEAN :
            Hidden!Begin(IF Hidden!Tor THEN "install" ELSE "check", force,
                         [Hidden!Fresh EXCEPT !.known = sys.identity # 0,
                           !.behind = sys.saved # sys.identity])
      BY <1>2 DEF Hidden!StartTask
    <3>2. run'.mem = [Hidden!Fresh EXCEPT !.known = sys.identity # 0,
            !.behind = sys.saved # sys.identity]
      BY <3>1 DEF Hidden!Begin
    <3> HIDE DEF HiddenReadInv
    <3> QED
      BY <3>2
  <2>3. DOMAIN run'.mem = DOMAIN Hidden!Fresh /\ run'.mem.write = {}
    BY <2>2 DEF Hidden!Fresh
  <2> QED
    BY <2>1, <2>3 DEF Hidden!Fresh, Hidden!Tor, Hidden!Daemons, HiddenReads, HiddenPlans,
         HasRead
<1>3. CASE Hidden!Kill
  BY <1>3 DEF Hidden!Kill, Hidden!NoRun
<1>4. CASE Hidden!Generate
  BY <1>4 DEF Hidden!Generate, HiddenReads, HiddenPlans, HasRead
<1>5. ASSUME NEW m, Hidden!Event(m), DOMAIN m = DOMAIN sys, m.daemon = sys.daemon,
               m.file \subseteq Hidden!Pieces,
             Calm(MaxFaults, MaxKills) => HasRead(m)
      PROVE  HiddenReadInv'
  BY <1>5 DEF Hidden!Event, Hidden!NoRun, Hidden!AtRest, HiddenReads, HiddenPlans, HasRead
<1>6. CASE Hidden!Release \/ Hidden!Edited \/ Hidden!Reboot
  <2> DEFINE Same(m) ==
        /\ DOMAIN m = DOMAIN sys
        /\ m.daemon = sys.daemon
        /\ m.file \subseteq Hidden!Pieces
        /\ Calm(MaxFaults, MaxKills) => HasRead(m)
  <2>1. Hidden!AtRest
    BY <1>6 DEF Hidden!Release, Hidden!Edited, Hidden!Reboot, Hidden!Event
  <2> USE DEF Hidden!AtRest, HiddenReads, HasRead
  <2>2. Same([sys EXCEPT !.package = "old"]) /\ Same([sys EXCEPT !.running = "down"])
          /\ Same(Hidden!Up(sys))
    BY <2>1 DEF Hidden!Up
  <2>3. \A p \in sys.file : Same([sys EXCEPT !.file = @ \ {p}])
    BY <2>1
  <2>4. \E m : Hidden!Event(m) /\ Same(m)
    <3> HIDE DEF Same, HiddenReadInv, HiddenFields
    <3> QED
      BY <1>6, <2>2, <2>3 DEF Hidden!Release, Hidden!Edited, Hidden!Reboot
  <2> HIDE DEF HiddenReadInv, HiddenFields, HiddenReads, HiddenPlans, HiddenWays, HasRead,
        RunFields, Allows, Calm, Hidden!AtRest
  <2>5. PICK m : Hidden!Event(m) /\ Same(m)
    BY <2>4
  <2> QED
    BY <1>5, <2>5
<1>7. CASE UNCHANGED vars
  BY <1>7 DEF vars, HiddenReads, HiddenPlans, HasRead
<1> QED
  BY <1>1, <1>2, <1>3, <1>4, <1>6, <1>7 DEF Hidden!Next

LEMMA HiddenReadInit == Hidden!Init => HiddenReadInv
  BY BoundsAreNumbers DEF Hidden!Init, HiddenReadInv, HiddenFields, HiddenWays, HiddenReads,
       HiddenPlans, HasRead, RunFields, Allows, Hidden!NoRun, Hidden!Fresh, Hidden!Budget

LEMMA HiddenPromise == HiddenReadInv => Hidden!DaemonReadIt
  BY DEF HiddenReadInv, HiddenReads, Calm, Hidden!DaemonReadIt, Hidden!CleanRunReaches

-----------------------------------------------------------------------------
(*****************************************************************************)
(* The invariants of the sections in every behaviour of Provisioning.        *)
(*****************************************************************************)
\* The marker, the places of a run and the files of the menu agree in every
\* state, for any paths, kernels and bounds.
THEOREM PointInvariant == Spec => []PointHolds
<1>1. Init => PointHolds
  BY InitSave DEF Init, PointHolds
<1>2. PointHolds /\ [Next]_vars => PointHolds'
  BY NextSave DEF Next, PointHolds, vars
<1> QED
  BY <1>1, <1>2, PTL DEF Spec

\* A run without a warning knows the machine, in every state and for any bounds.
THEOREM TmpInvariant == Spec => []TmpHolds
<1>1. Init => TmpHolds
  BY InitTmp DEF Init, TmpHolds
<1>2. TmpHolds /\ [Next]_vars => TmpHolds'
  BY NextTmp DEF Next, TmpHolds, vars
<1> QED
  BY <1>1, <1>2, PTL DEF Spec

\* A plain done result of the section means that /tmp is on the disk for good,
\* and a run none of whose calls failed ends there whatever it found.
THEOREM TmpEndsOnDisk ==
  Spec => [](section = "tmp" => Tmp!TmpCleanTask /\ Tmp!TmpFaultFreeTask)
<1>1. TmpHolds => (section = "tmp" => Tmp!TmpCleanTask /\ Tmp!TmpFaultFreeTask)
  BY TmpReaches DEF TmpHolds
<1> QED
  BY <1>1, TmpInvariant, PTL

\* The invariant of the filesystem section holds in every behaviour, for any
\* bounds on runs, failed calls, cut-off runs and boots.
THEOREM BtrfsInvariant == Spec => []BtrfsHolds
<1>1. Init => BtrfsHolds
  BY InitBtrfs DEF Init, BtrfsHolds
<1>2. BtrfsHolds /\ [Next]_vars => BtrfsHolds'
  BY NextBtrfs DEF Next, BtrfsHolds, vars
<1> QED
  BY <1>1, <1>2, PTL DEF Spec

\* The way back stays open: the menu offers only points that were stored, the
\* marker is earned, no swap file blocks a snapshot after a clean run, the swap
\* that was on is on again and the temporary mount ends with its run.
THEOREM SnapshotsAlwaysWork == Spec => []SnapshotsWork
<1>1. PointHolds /\ BtrfsHolds => SnapshotsWork
  BY PointImplies, BtrfsImplies DEF PointHolds, BtrfsHolds, SnapshotsWork
<1> QED
  BY <1>1, PointInvariant, BtrfsInvariant, PTL

\* The invariant of the swap file section holds in every behaviour, for any
\* sizes, places on the disk and bounds.
THEOREM SwapInvariant == Spec => []SwapHolds
<1>1. Init => SwapHolds
  BY InitSwap DEF Init, SwapHolds
<1>2. SwapHolds /\ [Next]_vars => SwapHolds'
  BY NextSwap DEF Next, SwapHolds, vars
<1> QED
  BY <1>1, <1>2, PTL DEF Spec

\* What the task announces is what the next boot resumes from: the offset in
\* the built menu is that of the file, until the unit of the task fails.
THEOREM AnnouncementsHold == Spec => []AnnouncedAddressBoots
<1>1. SwapInv => Swap!AnnouncedAddressBoots
  <2> SUFFICES ASSUME SwapInv, run.mem.claim, run.pc \in {"rule",
                        "start"} \/ Swap!UnitKeptAddress
               PROVE  sys.menu = sys.file.offset /\ sys.image
    BY DEF Swap!AnnouncedAddressBoots
  <2>1. run.mem.by \in {"task", "unit", "boot"}
    BY DEF SwapInv, SwapTypes, SwapRuns, SwapMems
  <2> QED
    BY <2>1 DEF SwapInv, SwapCallerInv, SwapClaimInv, SwapUnitInv, SwapAgreed,
                Swap!UnitKeptAddress, Swap!UnitIsQuiet
<1>2. SwapHolds => AnnouncedAddressBoots
  BY <1>1 DEF SwapHolds, AnnouncedAddressBoots
<1> QED
  BY <1>2, SwapInvariant, PTL

\* The invariant of the panel holds in every behaviour.
THEOREM PanelInvariant == Spec => []PanelHolds
<1>1. Init => PanelHolds
  BY InitPanel DEF Init, PanelHolds
<1>2. PanelHolds /\ [Next]_vars => PanelHolds'
  BY NextPanel DEF Next, PanelHolds, vars
<1> QED
  BY <1>1, <1>2, PTL DEF Spec

\* The proxy serves one client over HTTPS as long as no call of a run failed,
\* and the routing document is written at most twice by a run, at any bounds.
THEOREM OneClientIsServed == Spec => []OneClientOverHttps
<1>1. PanelHolds => OneClientOverHttps
  BY PanelPlaceNames
     DEF PanelHolds, PanelInv, PanelCalm, PanelClientAt, PanelHttpsAt, PanelWritesAt,
         OneClientOverHttps, Panel!OneClientWithoutFaults, Panel!OneClient,
         Panel!NeverPlainHttp, Panel!TwoWrites
<1> QED
  BY <1>1, PanelInvariant, PTL

\* The invariant of the resolver holds in every behaviour.
THEOREM DnsInvariant == Spec => []DnsHolds
<1>1. Init => DnsHolds
  BY InitDns DEF Init, DnsHolds
<1>2. DnsHolds /\ [Next]_vars => DnsHolds'
  BY NextDns DEF Next, DnsHolds, vars
<1> QED
  BY <1>1, <1>2, PTL DEF Spec
-----------------------------------------------------------------------------
(*****************************************************************************)
(* Promises that join the sections.                                          *)
(*****************************************************************************)
KeepersHold ==
  PointHolds /\ TmpHolds /\ SwapHolds /\ HiddenHolds /\ NodeHolds /\ PanelHolds

LEMMA KeepersKeep ==
  ASSUME KeepersHold, [Next]_vars
  PROVE  /\ section = "point"  => Point!SamePoint
         /\ section = "tmp"    => Tmp!StagedKept
         /\ section = "swap"   => Swap!ActiveFileStep
         /\ section = "hidden" => Hidden!IdentityStep
         /\ section = "node"   => Node!KeyStep
         /\ section = "panel"  => Panel!Handed
<1>1. CASE section = "point"
  <2>1. SaveInv /\ [Point!Next]_vars
    BY <1>1 DEF KeepersHold, PointHolds, Next
  <2> QED
    BY <1>1, <2>1, PointStays
<1>2. CASE section = "tmp"
  <2>1. TmpInv /\ [Tmp!Next]_vars
    BY <1>2 DEF KeepersHold, TmpHolds, Next
  <2> QED
    BY <1>2, <2>1, TmpStagedStep
<1>3. CASE section = "swap"
  <2>1. SwapInv /\ [Swap!Next]_vars
    BY <1>3 DEF KeepersHold, SwapHolds, Next
  <2> QED
    BY <1>3, <2>1, SwapSteps
<1>4. CASE section = "hidden"
  <2>1. HiddenInv /\ [Hidden!Next]_vars
    BY <1>4 DEF KeepersHold, HiddenHolds, Next
  <2> QED
    BY <1>4, <2>1, NextHidden
<1>5. CASE section = "node"
  <2>1. NodeInv /\ [Node!Next]_vars
    BY <1>5 DEF KeepersHold, NodeHolds, Next
  <2> QED
    BY <1>5, <2>1, NextNode
<1>6. CASE section = "panel"
  <2>1. PanelInv /\ [Panel!Next]_vars
    BY <1>6 DEF KeepersHold, PanelHolds, Next
  <2> QED
    BY <1>6, <2>1, NextPanel
<1> QED
  BY <1>1, <1>2, <1>3, <1>4, <1>5, <1>6

\* What cannot be made again is never replaced or let go by any step of the
\* section it belongs to, on any machine and at any bounds: the save point, the
\* contents of /tmp that were copied out, an active swap file, identities and
\* keys outside force mode, and what the panel has handed out.
THEOREM IrreplaceableStays == Spec => IrreplaceableIsKept
<1> DEFINE Kept == /\ section = "point"  => Point!SamePoint
                   /\ section = "tmp"    => Tmp!StagedKept
                   /\ section = "swap"   => Swap!ActiveFileStep
                   /\ section = "hidden" => Hidden!IdentityStep
                   /\ section = "node"   => Node!KeyStep
                   /\ section = "panel"  => Panel!Handed
<1>1. KeepersHold /\ [Next]_vars => [Kept]_vars
  BY KeepersKeep
<1>2. Spec => []KeepersHold
  BY PointInvariant, TmpInvariant, SwapInvariant, HiddenInvariant, NodeInvariant,
     PanelInvariant, PTL DEF KeepersHold
<1>3. Spec => [][Kept]_vars
  <2> HIDE DEF Kept
  <2> QED
    BY <1>1, <1>2, PTL DEF Spec
<1> QED
  BY <1>3 DEF IrreplaceableIsKept

\* Names are resolved by a proxy that runs what its files say and that answers
\* wherever a run with at most one failed call sent the machine to it, and the
\* saved addresses are those of the identities.
THEOREM AddressesStayCurrent == Spec => []AddressesAreCurrent
<1>1. DnsHolds /\ HiddenHolds /\ NodeHolds => AddressesAreCurrent
  BY DnsPromises, NodeAddressIsMine
     DEF DnsHolds, HiddenHolds, NodeHolds, HiddenInv, AddressesAreCurrent
<1> QED
  BY <1>1, DnsInvariant, HiddenInvariant, NodeInvariant, PTL

\* A session started from a snapshot leaves the address the machine's own boot
\* resumes from alone.
THEOREM SnapshotLeavesAddress ==
  Spec => [][section = "swap" => Swap!SnapshotStep \/ Swap!AtRest]_vars
<1>1. SwapHolds /\ [Next]_vars => [section = "swap" => Swap!SnapshotStep \/ Swap!AtRest]_vars
  BY SwapSteps DEF SwapHolds, Next, vars
<1> QED
  BY <1>1, SwapInvariant, PTL DEF Spec
-----------------------------------------------------------------------------
(*****************************************************************************)
(* What runs follows the files, users keep what works, answers are honest.   *)
(*****************************************************************************)
\* the invariant of the section, where it is at work
BrowserHolds == section = "browser" => BrowserInv

\* What the run knows of the mirror is what its look saw, in every state.
THEOREM BrowserInvariant == Spec => []BrowserHolds
<1>1. Init => BrowserHolds
  BY InitBrowser DEF Init, BrowserHolds
<1>2. BrowserHolds /\ [Next]_vars => BrowserHolds'
  BY NextBrowser DEF Next, BrowserHolds, vars
<1> QED
  BY <1>1, <1>2, PTL DEF Spec

\* the invariant of the section, where it is at work
ToolsHolds == section = "tools" => ToolsInv

\* What is counted is installed, and the policy and the sources are whole
\* somewhere as long as nothing fails, for any lists, sources and bounds.
THEOREM ToolsInvariant == Spec => []ToolsHolds
<1>1. Init => ToolsHolds
  BY InitTools DEF Init, ToolsHolds
<1>2. ToolsHolds /\ [Next]_vars => ToolsHolds'
  BY NextTools DEF Next, ToolsHolds, vars
<1> QED
  BY <1>1, <1>2, PTL DEF Spec

\* the invariant of the section, where it is at work
SshHolds == section = "ssh" => SshInv

\* What the daemon has read differs from its file only where the run still
\* knows of the restart to come, for any homes and bounds.
THEOREM SshInvariant == Spec => []SshHolds
<1>1. Init => SshHolds
  BY InitSsh DEF Init, SshHolds
<1>2. SshHolds /\ [Next]_vars => SshHolds'
  BY NextSsh DEF Next, SshHolds, vars
<1> QED
  BY <1>1, <1>2, PTL DEF Spec

\* the invariant of the section, where it is at work
ClientHolds == section = "client" => ClientInv

\* A whole client is replaced by a whole one only, for any number of releases.
THEOREM ClientInvariant == Spec => []ClientHolds
<1>1. Init => ClientHolds
  BY InitClient DEF Init, ClientHolds
<1>2. ClientHolds /\ [Next]_vars => ClientHolds'
  BY NextClient DEF Next, ClientHolds, vars
<1> QED
  BY <1>1, <1>2, PTL DEF Spec

\* the invariant of the section, where it is at work
DesktopHolds == section = "desktop" => DesktopInv

\* What the session does not show yet is what the run will still tell it of.
THEOREM DesktopInvariant == Spec => []DesktopHolds
<1>1. Init => DesktopHolds
  BY InitDesktop DEF Init, DesktopHolds
<1>2. DesktopHolds /\ [Next]_vars => DesktopHolds'
  BY NextDesktop DEF Next, DesktopHolds, vars
<1> QED
  BY <1>1, <1>2, PTL DEF Spec

\* the invariant of the section, where it is at work
ZswapHolds == section = "zswap" => ZswapInv

\* A machine that needs no run has the unit that writes its parameters.
THEOREM ZswapInvariant == Spec => []ZswapHolds
<1>1. Init => ZswapHolds
  BY InitZswap DEF Init, ZswapHolds
<1>2. ZswapHolds /\ [Next]_vars => ZswapHolds'
  BY NextZswap DEF Next, ZswapHolds, vars
<1> QED
  BY <1>1, <1>2, PTL DEF Spec

\* the invariant of the section, where it is at work
ServicesHolds == section = "services" => ServicesInv

\* Units that are skipped are up to date, and what runs is of their version.
THEOREM ServicesInvariant == Spec => []ServicesHolds
<1>1. Init => ServicesHolds
  BY InitServices DEF Init, ServicesHolds
<1>2. ServicesHolds /\ [Next]_vars => ServicesHolds'
  BY NextServices DEF Next, ServicesHolds, vars
<1> QED
  BY <1>1, <1>2, PTL DEF Spec

\* the invariant of the section, where it is at work
HiddenReadHolds == section = "hidden" => HiddenReadInv

\* A daemon that is behind its files is known to the run that will start it.
THEOREM HiddenReadInvariant == Spec => []HiddenReadHolds
<1>1. Init => HiddenReadHolds
  BY HiddenReadInit DEF Init, HiddenReadHolds
<1>2. HiddenReadHolds /\ [Next]_vars => HiddenReadHolds'
  BY HiddenReadNext DEF Next, HiddenReadHolds, vars
<1> QED
  BY <1>1, <1>2, PTL DEF Spec

\* What a run answers about the machine is so: no package is counted that is
\* not installed, and the entry of the browser uses the mirror and the proxy
\* exactly where they are there.
THEOREM AnswersStayHonest == Spec => []AnswersAreHonest
<1>1. ToolsHolds /\ BrowserHolds => AnswersAreHonest
  BY ToolsPromises, BrowserEntry DEF ToolsHolds, BrowserHolds, AnswersAreHonest
<1> QED
  BY <1>1, ToolsInvariant, BrowserInvariant, PTL

\* Something listens for ssh after every run whose calls succeeded, no unforced
\* run takes a working client away at any of its steps, the packaged policy and
\* the sources survive, and the next login keeps the key.
THEOREM WorkingStaysWorking == Spec => []UsersKeepWhatWorks
<1>1. SshHolds /\ ClientHolds /\ ToolsHolds /\ DesktopHolds => UsersKeepWhatWorks
  BY SshPromises, ClientPromise, ToolsPromises, DesktopPromises
     DEF SshHolds, ClientHolds, ToolsHolds, DesktopHolds, UsersKeepWhatWorks
<1> QED
  BY <1>1, SshInvariant, ClientInvariant, ToolsInvariant, DesktopInvariant, PTL

\* Daemons, kernel parameters and sessions run what their files say after every
\* clean run, as long as no call failed and no run was cut off, whatever boots,
\* upgrades, edits and logins come between the runs.
THEOREM FilesAreFollowed == Spec => []RunningFollowsFiles
<1>1. /\ ZswapHolds /\ ServicesHolds /\ HiddenReadHolds /\ SshHolds /\ DesktopHolds
      => RunningFollowsFiles
  BY ZswapPromise, ServicesPromise, HiddenPromise, SshPromises, DesktopPromises
     DEF ZswapHolds, ServicesHolds, HiddenReadHolds, SshHolds, DesktopHolds,
           RunningFollowsFiles
<1> QED
  BY <1>1, ZswapInvariant, ServicesInvariant, HiddenReadInvariant, SshInvariant,
       DesktopInvariant, PTL

=============================================================================

------------------------- MODULE RuntimeVaultProofs -------------------------
(* Proofs about the runtime vault, for every set of passwords, entries and   *)
(* secrets and for any number of faults.                                     *)
EXTENDS RuntimeVault, TLAPS

\* Type correctness (TypeOK) of a run that stores or writes nothing.
LEMMA GotoTypes ==
    ASSUME TypeOK, NEW pc \in Phases, run' = [run EXCEPT !.pc = pc]
    PROVE  run' \in RunState /\ AtMostOne(run'.src) /\ AtMostOne(run'.kp)
BY DEF TypeOK, RunState, AtMostOne

LEMMA WarnTypes ==
    ASSUME TypeOK, NEW pc \in Phases, run' = [run EXCEPT !.pc = pc, !.warn = TRUE]
    PROVE  run' \in RunState /\ AtMostOne(run'.src) /\ AtMostOne(run'.kp)
BY DEF TypeOK, RunState, AtMostOne

\* The copy of the one source vault is one database file without a secret.
LEMMA BuiltTypes ==
    ASSUME TypeOK
    PROVE  /\ Built \subseteq File /\ AtMostOne(Built)
           /\ \A f \in Built : f.has \cap Secrets = {}
           /\ LocalPassword # {} => \A f \in Built : f.open \in Passwords
<1>1. run.src \subseteq Source /\ AtMostOne(run.src)
  BY DEF TypeOK, RunState
<1>2. \A s \in run.src : s.pw \in Passwords \cup {NoPassword} /\ s.has \subseteq Structure
  BY <1>1 DEF Source
<1>3. \A s \in run.src : [open |-> s.pw, has |-> s.has] \in File
  BY <1>2 DEF File
<1>4. ASSUME NEW s \in run.src PROVE LocalPassword = {s.pw} \cap Passwords
  <2>1. run.src = {s}
    BY <1>1 DEF AtMostOne
  <2>. QED BY <2>1 DEF LocalPassword
<1>5. AtMostOne(Built)
  BY <1>1 DEF AtMostOne, Built
<1>6. \A f \in Built : f.has \cap Secrets = {}
  BY <1>2, EntryAssumption DEF Built
<1>7. LocalPassword # {} => \A f \in Built : f.open \in Passwords
  BY <1>2, <1>4 DEF Built
<1>. QED BY <1>3, <1>5, <1>6, <1>7 DEF Built

\* An edit of the entries of a database file is a database file.
LEMMA EditTypes ==
    ASSUME NEW f \in File, NEW E \in SUBSET (Structure \cup Secrets)
    PROVE  /\ [f EXCEPT !.has = E] \in File
           /\ [f EXCEPT !.has = E].has = E
           /\ [f EXCEPT !.has = E].open = f.open
BY DEF File

\* The entries of a vault that carries one secret, with structure added or the
\* secret replaced.
LEMMA OneSecret ==
    ASSUME NEW E \in SUBSET (Structure \cup Secrets), AtMostOne(E \cap Secrets)
    PROVE  /\ \A X \in SUBSET Structure : AtMostOne((E \cup X) \cap Secrets)
           /\ \A s \in Secrets : AtMostOne(((E \ Secrets) \cup {s}) \cap Secrets)
BY EntryAssumption DEF AtMostOne

LEMMA StartTypes ==
    ASSUME TypeOK, NEW force \in SUBSET {"vault", "client"}, NEW src \in Sources,
           StartRun(force, src)
    PROVE  TypeOK'
<1>1. src \in SUBSET Source /\ AtMostOne(src)
  BY DEF Sources, AtMostOne
<1>2. run' \in RunState /\ run'.src = src /\ run'.kp = {}
  <2>1. run' = [pc |-> IF "vault" \notin force /\ vault # {} THEN "check" ELSE "create",
                force |-> force, src |-> src, build |-> FALSE, kp |-> {}, warn |-> FALSE]
    BY DEF StartRun, Idle
  <2>. QED BY <2>1, <1>1 DEF RunState, Phases
<1>. QED BY <1>1, <1>2 DEF TypeOK, StartRun, AtMostOne, files, hist

LEMMA ToBuildTypes ==
    ASSUME TypeOK, NEW kind \in {"lost", "new"}, ToBuild(kind)
    PROVE  /\ run' \in RunState /\ AtMostOne(run'.src) /\ AtMostOne(run'.kp)
           /\ \A f \in run'.kp : AtMostOne(f.has \cap Secrets)
<1>1. Built \in SUBSET File /\ AtMostOne(Built) /\ \A f \in Built : f.has \cap Secrets = {}
  BY BuiltTypes
<1>2. (kind = "lost") \in BOOLEAN /\ "write" \in Phases
  BY DEF Phases
<1>3. run' \in RunState /\ run'.src = run.src /\ run'.kp = Built
  BY <1>1, <1>2 DEF ToBuild, TypeOK, RunState
<1>. QED BY <1>1, <1>3 DEF TypeOK, AtMostOne

\* What a step that keeps the opened vault leaves of the run's types.
LEMMA SameVaultTypes ==
    ASSUME TypeOK, NEW pc \in Phases, Goto(pc) \/ Warn(pc)
    PROVE  /\ run' \in RunState /\ AtMostOne(run'.src) /\ AtMostOne(run'.kp)
           /\ run'.kp = run.kp
BY DEF TypeOK, RunState, AtMostOne, Goto, Warn

LEMMA VaultTypes ==
    ASSUME TypeOK, VaultStep
    PROVE  TypeOK'
<1>. USE DEF files, hist
<1>1. CASE NoSource
  <2>1. "client" \in Phases BY DEF Phases
  <2>. QED BY <1>1, <2>1, SameVaultTypes DEF NoSource, TypeOK
<1>2. ASSUME NEW f \in vault, CheckOpens(f) PROVE TypeOK'
  <2>1. f \in File BY DEF TypeOK
  <2>2. run' \in RunState /\ run'.src = run.src /\ run'.kp = {f}
    BY <1>2, <2>1 DEF CheckOpens, TypeOK, RunState, Phases
  <2>. QED BY <1>2, <2>2 DEF CheckOpens, TypeOK, AtMostOne
<1>3. CASE CheckLost
  <2>1. "keep" \in Phases BY DEF Phases
  <2>. QED BY <1>3, <2>1, SameVaultTypes DEF CheckLost, TypeOK
<1>4. CASE KeepVault
  <2>1. /\ run' \in RunState /\ AtMostOne(run'.src) /\ AtMostOne(run'.kp)
        /\ \A f \in run'.kp : AtMostOne(f.has \cap Secrets)
    BY <1>4, ToBuildTypes DEF KeepVault
  <2>. QED BY <1>4, <2>1 DEF KeepVault, TypeOK, AtMostOne
<1>5. CASE KeepFails
  <2>1. /\ run' \in RunState /\ AtMostOne(run'.src) /\ AtMostOne(run'.kp)
        /\ \A f \in run'.kp : AtMostOne(f.has \cap Secrets)
    BY <1>5, ToBuildTypes DEF KeepFails
  <2>. QED BY <1>5, <2>1 DEF KeepFails, Fault, TypeOK, AtMostOne
<1>6. CASE StartCreate
  <2>1. /\ run' \in RunState /\ AtMostOne(run'.src) /\ AtMostOne(run'.kp)
        /\ \A f \in run'.kp : AtMostOne(f.has \cap Secrets)
    BY <1>6, ToBuildTypes DEF StartCreate
  <2>. QED BY <1>6, <2>1 DEF StartCreate, TypeOK, AtMostOne
<1>7. CASE BeginWrite
  <2>1. "replace" \in Phases /\ Partial \in File
    BY DEF Phases, Partial, File
  <2>2. /\ run' \in RunState /\ AtMostOne(run'.src) /\ AtMostOne(run'.kp)
        /\ run'.kp = run.kp
    BY <1>7, <2>1, SameVaultTypes DEF BeginWrite, TypeOK
  <2>3. temp' \subseteq File /\ AtMostOne(temp')
    BY <1>7, <2>1 DEF BeginWrite, TypeOK, RunState, AtMostOne
  <2>4. \A f \in temp' : AtMostOne(f.has \cap Secrets)
    BY <1>7 DEF BeginWrite, TypeOK, AtMostOne, Partial
  <2>. QED BY <1>7, <2>2, <2>3, <2>4 DEF BeginWrite, TypeOK
<1>8. CASE ReplaceVault
  <2>1. "trunc" \in Phases BY DEF Phases
  <2>2. /\ run' \in RunState /\ AtMostOne(run'.src) /\ AtMostOne(run'.kp)
        /\ run'.kp = run.kp
    BY <1>8, <2>1, SameVaultTypes DEF ReplaceVault
  <2>. QED BY <1>8, <2>2 DEF ReplaceVault, TypeOK, AtMostOne
<1>9. CASE WriteFails \/ Verify
  <2>1. "client" \in Phases BY DEF Phases
  <2>2. /\ run' \in RunState /\ AtMostOne(run'.src) /\ AtMostOne(run'.kp)
        /\ run'.kp = run.kp
    BY <1>9, <2>1, SameVaultTypes DEF WriteFails, Verify
  <2>. QED BY <1>9, <2>2 DEF WriteFails, Verify, Fault, TypeOK
<1>10. CASE TruncatePass \/ FillPass \/ PassFails
  <2>1. "fill" \in Phases /\ AfterPass \in Phases
    BY DEF Phases, AfterPass
  <2>2. /\ run' \in RunState /\ AtMostOne(run'.src) /\ AtMostOne(run'.kp)
        /\ run'.kp = run.kp
    BY <1>10, <2>1, SameVaultTypes DEF TruncatePass, FillPass, PassFails
  <2>3. pass' \in Passwords \cup {NoPassword}
    BY <1>10 DEF TruncatePass, FillPass, PassFails, TypeOK, RunState, File
  <2>4. UNCHANGED <<vault, temp, rescue, client, stored, unkept, damaged>> /\ faults' \in Nat
    BY <1>10 DEF TruncatePass, FillPass, PassFails, Fault, TypeOK
  <2>. QED BY <2>2, <2>3, <2>4 DEF TypeOK
<1>11. CASE Merge
  <2>1. "client" \in Phases BY DEF Phases
  <2>2. /\ run' \in RunState /\ AtMostOne(run'.src) /\ AtMostOne(run'.kp)
        /\ run'.kp = run.kp
    BY <1>11, <2>1, SameVaultTypes DEF Merge
  <2>3. Has(run.src) \in SUBSET Structure
    BY DEF Has, TypeOK, RunState, Source
  <2>4. ASSUME NEW f \in run.kp
        PROVE  /\ [f EXCEPT !.has = @ \cup Has(run.src)] \in File
               /\ AtMostOne([f EXCEPT !.has = @ \cup Has(run.src)].has \cap Secrets)
    <3>1. f \in File /\ AtMostOne(f.has \cap Secrets)
      BY DEF TypeOK, RunState
    <3>2. f.has \in SUBSET (Structure \cup Secrets)
      BY <3>1 DEF File
    <3>3. [f EXCEPT !.has = @ \cup Has(run.src)] \in File
      BY <3>1, <3>2, <2>3 DEF File
    <3>4. [f EXCEPT !.has = @ \cup Has(run.src)].has = f.has \cup Has(run.src)
      BY <3>1 DEF File
    <3>. QED BY <3>1, <3>2, <3>3, <3>4, <2>3, OneSecret
  <2>5. vault' = {[f EXCEPT !.has = @ \cup Has(run.src)] : f \in run.kp}
    BY <1>11 DEF Merge
  <2>6. vault' \subseteq File /\ \A g \in vault' : AtMostOne(g.has \cap Secrets)
    BY <2>4, <2>5
  <2>7. AtMostOne(vault')
    BY <2>5 DEF TypeOK, AtMostOne
  <2>. QED BY <1>11, <2>2, <2>6, <2>7 DEF Merge, TypeOK
<1>12. CASE MergeFails
  <2>1. "client" \in Phases BY DEF Phases
  <2>. QED BY <1>12, <2>1, SameVaultTypes DEF MergeFails, Fault, TypeOK
<1>. QED BY <1>1, <1>2, <1>3, <1>4, <1>5, <1>6, <1>7, <1>8, <1>9, <1>10, <1>11, <1>12
         DEF VaultStep

LEMMA ClientTypes ==
    ASSUME TypeOK, ClientStep
    PROVE  TypeOK'
<1>. USE DEF files, hist
<1>1. CASE OpenForClient
  <2>1. "done" \in Phases /\ "apply" \in Phases /\ "save" \in Phases
    BY DEF Phases
  <2>2. CASE Opened = {}
    BY <1>1, <2>1, <2>2, SameVaultTypes DEF OpenForClient, TypeOK
  <2>3. CASE Opened # {}
    <3>1. Opened \in SUBSET File /\ Opened \subseteq vault
      BY DEF Opened, TypeOK
    <3>2. PICK pc \in Phases : run' = [run EXCEPT !.kp = Opened, !.pc = pc]
      BY <1>1, <2>1, <2>3 DEF OpenForClient
    <3>3. run' \in RunState /\ run'.src = run.src /\ run'.kp = Opened
      BY <3>1, <3>2 DEF TypeOK, RunState
    <3>. QED BY <1>1, <3>1, <3>3 DEF OpenForClient, TypeOK, AtMostOne
  <2>. QED BY <2>2, <2>3
<1>2. ASSUME NEW s \in Secrets, SaveSecret(s) PROVE TypeOK'
  <2>1. PICK f \in run.kp :
          LET g == [f EXCEPT !.has = (@ \ Secrets) \cup {s}] IN
          vault' = {g} /\ run' = [run EXCEPT !.kp = {g}, !.pc = "apply"]
    BY <1>2 DEF SaveSecret
  <2>. DEFINE g == [f EXCEPT !.has = (@ \ Secrets) \cup {s}]
  <2>2. f \in File /\ AtMostOne(f.has \cap Secrets)
    BY DEF TypeOK, RunState
  <2>3. f.has \in SUBSET (Structure \cup Secrets) BY <2>2 DEF File
  <2>4. g \in File /\ g.has = (f.has \ Secrets) \cup {s}
    BY <2>2, <2>3 DEF File
  <2>5. AtMostOne(g.has \cap Secrets) BY <2>2, <2>3, <2>4, OneSecret
  <2>6. run' \in RunState /\ run'.src = run.src /\ run'.kp = {g}
    <3>1. "apply" \in Phases BY DEF Phases
    <3>. QED BY <2>1, <2>4, <3>1 DEF TypeOK, RunState
  <2>. QED BY <1>2, <2>1, <2>4, <2>5, <2>6 DEF SaveSecret, TypeOK, AtMostOne
<1>3. CASE SaveFails \/ ApplyFails \/ Apply
  <2>1. "done" \in Phases BY DEF Phases
  <2>2. /\ run' \in RunState /\ AtMostOne(run'.src) /\ AtMostOne(run'.kp)
        /\ run'.kp = run.kp
    BY <1>3, <2>1, SameVaultTypes DEF SaveFails, ApplyFails, Apply
  <2>3. client' \subseteq Secrets
    BY <1>3 DEF SaveFails, ApplyFails, Apply, TypeOK
  <2>. QED BY <1>3, <2>2, <2>3 DEF SaveFails, ApplyFails, Apply, Fault, TypeOK
<1>. QED BY <1>1, <1>2, <1>3 DEF ClientStep

LEMMA IdleTypes ==
    Idle \in RunState /\ Idle.src = {} /\ Idle.kp = {} /\ Idle.pc = "idle"
<1>1. "idle" \in Phases /\ {} \in SUBSET {"vault", "client"} /\ {} \in SUBSET Source
      /\ {} \in SUBSET File /\ FALSE \in BOOLEAN
  BY DEF Phases
<1>. QED BY <1>1 DEF Idle, RunState

LEMMA HarmTypes ==
    ASSUME TypeOK, KillRun \/ Damage \/ LosePass
    PROVE  TypeOK'
<1>. USE DEF files, hist
<1>1. run' \in RunState /\ run'.src = {} /\ run'.kp = {}
  BY IdleTypes DEF KillRun, Damage, LosePass
<1>2. AtMostOne(run'.src) /\ AtMostOne(run'.kp)
  BY <1>1 DEF AtMostOne
<1>3. /\ UNCHANGED <<temp, rescue, client, stored, unkept>> /\ faults' \in Nat
      /\ damaged' \in BOOLEAN /\ pass' \in Passwords \cup {NoPassword}
  <2>1. CASE KillRun  BY <2>1 DEF KillRun, Fault, TypeOK
  <2>2. CASE Damage   BY <2>2 DEF Damage, Fault, TypeOK
  <2>3. CASE LosePass BY <2>3 DEF LosePass, Fault, TypeOK
  <2>. QED BY <2>1, <2>2, <2>3
<1>4. vault' \subseteq File /\ AtMostOne(vault')
      /\ \A g \in vault' : AtMostOne(g.has \cap Secrets)
  <2>1. CASE KillRun \/ LosePass
    BY <2>1 DEF KillRun, LosePass, TypeOK
  <2>2. CASE Damage
    <3>1. ASSUME NEW f \in vault
          PROVE  /\ [f EXCEPT !.open = NoPassword] \in File
                 /\ AtMostOne([f EXCEPT !.open = NoPassword].has \cap Secrets)
      <4>1. f \in File /\ AtMostOne(f.has \cap Secrets)
        BY DEF TypeOK
      <4>2. [f EXCEPT !.open = NoPassword] \in File
            /\ [f EXCEPT !.open = NoPassword].has = f.has
        BY <4>1 DEF File
      <4>. QED BY <4>1, <4>2
    <3>2. vault' = {[f EXCEPT !.open = NoPassword] : f \in vault}
      BY <2>2 DEF Damage
    <3>3. vault' \subseteq File /\ \A g \in vault' : AtMostOne(g.has \cap Secrets)
      BY <3>1, <3>2
    <3>4. AtMostOne(vault')
      BY <3>2 DEF TypeOK, AtMostOne
    <3>. QED BY <3>3, <3>4
  <2>. QED BY <2>1, <2>2
<1>. QED BY <1>1, <1>2, <1>3, <1>4 DEF TypeOK

\* Type correctness of the machine's files and of the run: a step writes
\* database files and passwords only, and no vault ever carries two secrets.
THEOREM VaultTypeCorrect == Spec => []TypeOK
<1>1. Init => TypeOK
  <2>. SUFFICES ASSUME Init PROVE TypeOK
    OBVIOUS
  <2>1. run \in RunState /\ run.src = {} /\ run.kp = {}
    BY IdleTypes DEF Init
  <2>2. AtMostOne(vault) /\ AtMostOne(temp) /\ AtMostOne(rescue)
        /\ AtMostOne(run.src) /\ AtMostOne(run.kp)
    BY <2>1 DEF Init, AtMostOne
  <2>3. vault \cup temp \cup run.kp = {}
    BY <2>1 DEF Init
  <2>. QED BY <2>1, <2>2, <2>3 DEF Init, TypeOK
<1>2. TypeOK /\ [Next]_vaultVars => TypeOK'
  <2>1. TypeOK /\ Next => TypeOK'
    BY StartTypes, VaultTypes, ClientTypes, HarmTypes DEF Next
  <2>2. TypeOK /\ UNCHANGED vaultVars => TypeOK'
    BY DEF vaultVars, files, hist, TypeOK
  <2>. QED BY <2>1, <2>2
<1>. QED BY <1>1, <1>2, PTL DEF Spec

-----------------------------------------------------------------------------
\* Steps of the run that leave the files and the history alone.
LEMMA QuietKeeps ==
    ASSUME TypeOK, VaultInv, UNCHANGED <<files, stored, damaged>>,
           unkept' = unkept, OpenInv', BuildInv',
           run'.pc \in {"keep", "trunc", "fill"} => damaged \/ stored = {},
           run'.pc \in {"create", "write", "replace"} /\ "vault" \notin run'.force =>
              damaged \/ stored = {}
    PROVE  VaultInv'
<1>1. SecretsStayReadable' <=> SecretsStayReadable
  BY DEF SecretsStayReadable, files
<1>2. ReadableInv'
  BY <1>1 DEF VaultInv, ReadableInv, files
<1>3. SecretsAreRecoverable'
  BY DEF VaultInv, SecretsAreRecoverable, Has, files
<1>. QED BY <1>2, <1>3 DEF VaultInv

\* While nothing has come to harm, stored secrets keep the vault open to the
\* services.
LEMMA StoredOpens ==
    ASSUME TypeOK, VaultInv, ~damaged, stored # {}
    PROVE  \E f \in vault : vault = {f} /\ stored \subseteq f.has /\ f.open = pass
                           /\ pass \in Passwords
<1>1. PICK s \in stored : TRUE
  OBVIOUS
<1>2. PICK f \in vault : f.open = pass
  BY <1>1 DEF VaultInv, ReadableInv, SecretsStayReadable
<1>3. vault = {f} /\ f.open \in Passwords
  BY <1>2 DEF VaultInv, ReadableInv, TypeOK, AtMostOne
<1>4. stored \subseteq f.has
  BY <1>3 DEF VaultInv, ReadableInv, SecretsStayReadable
<1>. QED BY <1>2, <1>3, <1>4

LEMMA StartKeeps ==
    ASSUME TypeOK, VaultInv, NEW force, NEW src, StartRun(force, src)
    PROVE  VaultInv'
<1>1. /\ run'.pc = IF "vault" \notin force /\ vault # {} THEN "check" ELSE "create"
      /\ run'.force = force
  BY DEF StartRun, Idle
<1>2. OpenInv' /\ BuildInv'
  BY <1>1 DEF StartRun, OpenInv, BuildInv, files
<1>3. "vault" \notin force /\ vault = {} => damaged \/ stored = {}
  BY StoredOpens
<1>. QED BY <1>1, <1>2, <1>3, QuietKeeps DEF StartRun, files, hist

LEMMA VaultKeeps ==
    ASSUME TypeOK, VaultInv, VaultStep
    PROVE  VaultInv'
<1>. USE DEF files, hist
<1>1. CASE NoSource
  BY <1>1, QuietKeeps DEF NoSource, Warn, OpenInv, BuildInv, VaultInv, TypeOK, RunState
<1>2. ASSUME NEW f \in vault, CheckOpens(f) PROVE VaultInv'
  <2>1. vault = {f}
    BY DEF TypeOK, AtMostOne
  <2>2. run'.kp = {f} /\ run'.pc = (IF Stale(f) THEN "trunc" ELSE "merge")
    BY <1>2 DEF CheckOpens, TypeOK, RunState
  <2>3. OpenInv' /\ BuildInv'
    BY <1>2, <2>1, <2>2 DEF CheckOpens, OpenInv, BuildInv
  <2>4. Stale(f) => damaged \/ stored = {}
    BY <2>1, StoredOpens DEF Stale
  <2>. QED BY <1>2, <2>2, <2>3, <2>4, QuietKeeps DEF CheckOpens
<1>3. CASE CheckLost
  <2>1. damaged \/ stored = {}
    BY <1>3, StoredOpens DEF CheckLost, Known
  <2>2. run'.pc = "keep" /\ run'.src = run.src /\ LocalPassword # {}
    BY <1>3 DEF CheckLost, Warn, TypeOK, RunState
  <2>3. OpenInv' /\ BuildInv'
    BY <2>2 DEF OpenInv, BuildInv, LocalPassword
  <2>. QED BY <1>3, <2>1, <2>2, <2>3, QuietKeeps DEF CheckLost
<1>4. ASSUME KeepVault \/ KeepFails \/ StartCreate
      PROVE  /\ run'.pc = "write" /\ run'.kp = Built /\ run'.src = run.src
             /\ run'.force = run.force
             /\ LocalPassword # {} /\ Built' = Built /\ LocalPassword' = LocalPassword
  <2>1. /\ run'.pc = "write" /\ run'.kp = Built /\ run'.src = run.src
        /\ run'.force = run.force
    BY <1>4 DEF KeepVault, KeepFails, StartCreate, ToBuild, TypeOK, RunState
  <2>2. LocalPassword # {}
    BY <1>4 DEF KeepVault, KeepFails, StartCreate, VaultInv, OpenInv
  <2>. QED BY <2>1, <2>2 DEF Built, LocalPassword
<1>5. CASE KeepVault
  <2>1. /\ vault' = {} /\ rescue' = vault /\ unkept' = unkept /\ damaged' = damaged
        /\ stored' = stored \ (Has(rescue) \ Has(vault)) /\ run.pc = "keep"
    BY <1>5 DEF KeepVault
  <2>2. OpenInv' /\ BuildInv'
    BY <1>4, <1>5, <2>1 DEF OpenInv, BuildInv
  <2>3. ReadableInv'
    BY <1>4, <1>5, <2>1 DEF VaultInv, ReadableInv, SecretsStayReadable
  <2>4. SecretsAreRecoverable'
    BY <2>1 DEF VaultInv, SecretsAreRecoverable, Has
  <2>. QED BY <2>2, <2>3, <2>4 DEF VaultInv
<1>6. CASE KeepFails
  <2>1. /\ UNCHANGED <<vault, temp, rescue, pass, stored, damaged>> /\ unkept' = TRUE
        /\ run.pc = "keep"
    BY <1>6 DEF KeepFails
  <2>2. OpenInv' /\ BuildInv' /\ SecretsAreRecoverable'
    BY <1>4, <1>6, <2>1 DEF OpenInv, BuildInv, SecretsAreRecoverable
  <2>3. ReadableInv'
    BY <1>4, <1>6, <2>1 DEF VaultInv, ReadableInv, SecretsStayReadable
  <2>. QED BY <2>2, <2>3 DEF VaultInv
<1>7. CASE StartCreate
  <2>1. OpenInv' /\ BuildInv'
    BY <1>4, <1>7 DEF StartCreate, OpenInv, BuildInv, VaultInv
  <2>2. "vault" \notin run.force => damaged \/ stored = {}
    BY <1>7 DEF StartCreate, VaultInv, ReadableInv
  <2>. QED BY <1>4, <1>7, <2>1, <2>2, QuietKeeps DEF StartCreate
<1>8. CASE BeginWrite
  <2>1. /\ UNCHANGED <<vault, rescue, pass, stored, unkept, damaged>> /\ run.pc = "write"
        /\ \/ run' = run
           \/ run' = [run EXCEPT !.pc = "replace"] /\ temp' = run.kp
    BY <1>8 DEF BeginWrite, Goto
  <2>2. /\ run'.src = run.src /\ run'.kp = run.kp /\ run'.force = run.force
        /\ run'.pc \in {"write", "replace"} /\ (run'.pc = "replace" => temp' = run.kp)
        /\ Built' = Built /\ LocalPassword' = LocalPassword
    BY <2>1 DEF TypeOK, RunState, Built, LocalPassword
  <2>3. OpenInv' /\ BuildInv'
    BY <2>1, <2>2 DEF OpenInv, BuildInv, VaultInv
  <2>4. ReadableInv'
    BY <2>1, <2>2 DEF VaultInv, ReadableInv, SecretsStayReadable
  <2>5. SecretsAreRecoverable'
    BY <2>1 DEF VaultInv, SecretsAreRecoverable, Has
  <2>. QED BY <2>3, <2>4, <2>5 DEF VaultInv
<1>9. CASE ReplaceVault
  <2>1. /\ run.pc = "replace" /\ run'.pc = "trunc" /\ run'.build = run.build
        /\ vault' = temp /\ temp = Built /\ LocalPassword # {}
        /\ UNCHANGED <<rescue, pass, unkept, damaged>>
        /\ stored' = stored \ (IF "vault" \in run.force THEN Has(vault) ELSE {})
        /\ run'.kp = run.kp /\ run.kp = Built
    BY <1>9 DEF ReplaceVault, Goto, VaultInv, OpenInv, TypeOK, RunState
  <2>2. ~damaged => stored' = {}
    <3>1. CASE "vault" \in run.force
      BY <2>1, <3>1, StoredOpens DEF Has
    <3>2. CASE "vault" \notin run.force
      BY <2>1, <3>2 DEF VaultInv, ReadableInv
    <3>. QED BY <3>1, <3>2
  <2>3. OpenInv' /\ BuildInv'
    BY <2>1 DEF OpenInv, BuildInv
  <2>4. ReadableInv'
    BY <2>1, <2>2, BuiltTypes DEF ReadableInv, SecretsStayReadable
  <2>5. SecretsAreRecoverable'
    <3>1. CASE "vault" \in run.force
      BY <2>1, <3>1 DEF VaultInv, SecretsAreRecoverable, Has
    <3>2. CASE "vault" \notin run.force
      BY <2>1, <3>2 DEF VaultInv, BuildInv, SecretsAreRecoverable, Has
    <3>. QED BY <3>1, <3>2
  <2>. QED BY <2>3, <2>4, <2>5 DEF VaultInv
<1>10. CASE WriteFails \/ Verify \/ MergeFails
  <2>1. run'.pc = "client"
    BY <1>10 DEF WriteFails, Verify, MergeFails, Goto, Warn, TypeOK, RunState
  <2>2. OpenInv' /\ BuildInv'
    BY <2>1 DEF OpenInv, BuildInv
  <2>. QED BY <1>10, <2>1, <2>2, QuietKeeps DEF WriteFails, Verify, MergeFails
<1>11. CASE TruncatePass \/ FillPass \/ PassFails
  <2>1. /\ UNCHANGED <<vault, temp, rescue, stored, unkept, damaged>>
        /\ run.pc \in {"trunc", "fill"} /\ run'.pc \in {"fill", AfterPass}
        /\ run'.kp = run.kp /\ run'.build = run.build
    BY <1>11 DEF TruncatePass, FillPass, PassFails, Goto, Warn, TypeOK, RunState
  <2>2. OpenInv' /\ BuildInv'
    BY <2>1 DEF AfterPass, OpenInv, BuildInv, VaultInv
  <2>3. ReadableInv'
    BY <2>1 DEF AfterPass, VaultInv, ReadableInv, SecretsStayReadable
  <2>4. SecretsAreRecoverable'
    BY <2>1 DEF VaultInv, SecretsAreRecoverable, Has
  <2>. QED BY <2>2, <2>3, <2>4 DEF VaultInv
<1>12. CASE Merge
  <2>1. /\ vault' = {[f EXCEPT !.has = @ \cup Has(run.src)] : f \in vault}
        /\ run'.pc = "client" /\ UNCHANGED <<temp, rescue, pass, stored, unkept, damaged>>
    BY <1>12 DEF Merge, Goto, VaultInv, OpenInv, TypeOK, RunState
  <2>2. ASSUME NEW f \in vault
        PROVE  \E g \in vault' : g.open = f.open /\ f.has \subseteq g.has
    <3>. DEFINE g == [f EXCEPT !.has = @ \cup Has(run.src)]
    <3>1. g.open = f.open /\ f.has \subseteq g.has
      BY DEF TypeOK, File
    <3>2. g \in vault'
      BY <2>1
    <3>. QED BY <3>1, <3>2
  <2>3. OpenInv' /\ BuildInv'
    BY <2>1 DEF OpenInv, BuildInv
  <2>4. ASSUME ~damaged PROVE ReadableInv'
    <3>1. \A g \in vault' : g.open \in Passwords
      <4>1. ASSUME NEW f \in vault
            PROVE  [f EXCEPT !.has = @ \cup Has(run.src)].open \in Passwords
        BY <2>4 DEF VaultInv, ReadableInv, TypeOK, File
      <4>. QED BY <2>1, <4>1
    <3>2. ASSUME NEW s \in stored
          PROVE  \E g \in vault' : s \in g.has /\ g.open = pass
      <4>1. PICK f \in vault : s \in f.has /\ f.open = pass
        BY <2>4 DEF VaultInv, ReadableInv, SecretsStayReadable
      <4>. QED BY <2>2, <4>1
    <3>. QED BY <2>1, <3>1, <3>2 DEF ReadableInv, SecretsStayReadable
  <2>5. Has(vault) \subseteq Has(vault')
    <3>1. ASSUME NEW f \in vault PROVE f.has \subseteq Has(vault')
      BY <2>2 DEF Has
    <3>. QED BY <3>1 DEF Has
  <2>6. SecretsAreRecoverable'
    BY <2>1, <2>5 DEF VaultInv, SecretsAreRecoverable, Has
  <2>7. damaged => ReadableInv'
    BY <2>1 DEF ReadableInv
  <2>. QED BY <2>3, <2>4, <2>6, <2>7 DEF VaultInv
<1>. QED BY <1>1, <1>2, <1>3, <1>5, <1>6, <1>7, <1>8, <1>9, <1>10, <1>11, <1>12
         DEF VaultStep

LEMMA ClientKeeps ==
    ASSUME TypeOK, VaultInv, ClientStep
    PROVE  VaultInv'
<1>. USE DEF files, hist
<1>1. CASE OpenForClient
  <2>1. /\ run'.pc \in {"done", "apply", "save"}
        /\ run'.pc # "done" => run'.kp = Opened /\ Opened # {}
    BY <1>1 DEF OpenForClient, Warn, TypeOK, RunState
  <2>2. Opened # {} => Opened = vault /\ \A f \in vault : f.open = pass
    BY DEF Opened, TypeOK, AtMostOne
  <2>3. OpenInv' /\ BuildInv'
    BY <1>1, <2>1, <2>2 DEF OpenForClient, OpenInv, BuildInv
  <2>. QED BY <1>1, <2>1, <2>3, QuietKeeps DEF OpenForClient
<1>2. ASSUME NEW s \in Secrets, SaveSecret(s) PROVE VaultInv'
  <2>1. PICK f \in run.kp :
          LET g == [f EXCEPT !.has = (@ \ Secrets) \cup {s}] IN
          vault' = {g} /\ run' = [run EXCEPT !.kp = {g}, !.pc = "apply"]
    BY <1>2 DEF SaveSecret
  <2>. DEFINE g == [f EXCEPT !.has = (@ \ Secrets) \cup {s}]
  <2>2. run.pc = "save" /\ vault = run.kp /\ f.open = pass /\ vault = {f}
    BY <1>2 DEF SaveSecret, VaultInv, OpenInv, TypeOK, AtMostOne
  <2>3. g.open = f.open /\ s \in g.has
    BY <2>2 DEF TypeOK, File
  <2>4. /\ run'.pc = "apply" /\ run'.kp = vault' /\ vault' = {g}
        /\ stored' = (stored \ f.has) \cup {s}
        /\ UNCHANGED <<temp, rescue, pass, unkept, damaged>>
    BY <1>2, <2>1, <2>2 DEF SaveSecret, Has, TypeOK, RunState
  <2>5. OpenInv' /\ BuildInv'
    BY <2>4 DEF OpenInv, BuildInv
  <2>6. ReadableInv'
    <3>1. ~damaged => stored \ f.has = {}
      BY <2>2, StoredOpens
    <3>2. ~damaged => f.open \in Passwords
      BY <2>2 DEF VaultInv, ReadableInv
    <3>. QED BY <2>2, <2>3, <2>4, <3>1, <3>2 DEF ReadableInv, SecretsStayReadable
  <2>7. SecretsAreRecoverable'
    <3>1. Has(vault) = f.has /\ Has(vault') = g.has /\ Has(rescue') = Has(rescue)
      BY <2>2, <2>4 DEF Has
    <3>. QED BY <2>3, <2>4, <3>1 DEF VaultInv, SecretsAreRecoverable
  <2>. QED BY <2>5, <2>6, <2>7 DEF VaultInv
<1>3. CASE SaveFails \/ ApplyFails \/ Apply
  <2>1. run'.pc = "done"
    BY <1>3 DEF SaveFails, ApplyFails, Apply, Goto, Warn, TypeOK, RunState
  <2>2. OpenInv' /\ BuildInv'
    BY <2>1 DEF OpenInv, BuildInv
  <2>. QED BY <1>3, <2>1, <2>2, QuietKeeps DEF SaveFails, ApplyFails, Apply
<1>. QED BY <1>1, <1>2, <1>3 DEF ClientStep

LEMMA HarmKeeps ==
    ASSUME TypeOK, VaultInv, KillRun \/ Damage \/ LosePass
    PROVE  VaultInv'
<1>. USE DEF files, hist
<1>1. run'.pc = "idle"
  BY IdleTypes DEF KillRun, Damage, LosePass
<1>2. OpenInv' /\ BuildInv'
  BY <1>1 DEF OpenInv, BuildInv
<1>3. CASE KillRun
  BY <1>1, <1>2, <1>3, QuietKeeps DEF KillRun
<1>4. CASE Damage
  <2>1. ReadableInv'
    BY <1>4 DEF Damage, ReadableInv
  <2>2. vault' = {[f EXCEPT !.open = NoPassword] : f \in vault}
        /\ \A f \in vault : [f EXCEPT !.open = NoPassword].has = f.has
    BY <1>4 DEF Damage, TypeOK, File
  <2>3. Has(vault) \subseteq Has(vault')
    <3>1. ASSUME NEW f \in vault PROVE f.has \subseteq Has(vault')
      <4>1. \E g \in vault' : g.has = f.has
        BY <2>2
      <4>. QED BY <4>1 DEF Has
    <3>. QED BY <3>1 DEF Has
  <2>4. SecretsAreRecoverable'
    BY <1>4, <2>3 DEF Damage, VaultInv, SecretsAreRecoverable, Has
  <2>. QED BY <1>2, <2>1, <2>4 DEF VaultInv
<1>5. CASE LosePass
  <2>1. ReadableInv'
    BY <1>5 DEF LosePass, ReadableInv
  <2>2. SecretsAreRecoverable'
    BY <1>5 DEF LosePass, VaultInv, SecretsAreRecoverable, Has
  <2>. QED BY <1>2, <2>1, <2>2 DEF VaultInv
<1>. QED BY <1>3, <1>4, <1>5

\* VaultInv is inductive: the vault a task has open is the vault on the disk,
\* and the password file is written only while there is no secret to lose.
THEOREM VaultInvariant == Spec => []VaultInv
<1>1. Init => VaultInv
  BY IdleTypes DEF Init, VaultInv, OpenInv, BuildInv, ReadableInv, SecretsStayReadable,
                   SecretsAreRecoverable
<1>2. TypeOK /\ VaultInv /\ [Next]_vaultVars => VaultInv'
  <2>1. TypeOK /\ VaultInv /\ Next => VaultInv'
    BY StartKeeps, VaultKeeps, ClientKeeps, HarmKeeps DEF Next
  <2>2. TypeOK /\ VaultInv /\ UNCHANGED vaultVars => VaultInv'
    BY QuietKeeps DEF vaultVars, files, hist, VaultInv, OpenInv, BuildInv, ReadableInv,
                      Built, LocalPassword
  <2>. QED BY <2>1, <2>2
<1>. QED BY <1>1, <1>2, VaultTypeCorrect, PTL DEF Spec

\* Every stored secret is in the vault under the password of the password
\* file at every moment, until harm from outside (SecretsStayReadable).
THEOREM SecretsReadable == Spec => []SecretsStayReadable
<1>1. VaultInv => SecretsStayReadable
  BY DEF VaultInv, ReadableInv, SecretsStayReadable
<1>. QED BY <1>1, VaultInvariant, PTL

\* A truncated vault is never where the machine reads it (NeverTruncated).
THEOREM VaultIsWhole == Spec => []NeverTruncated
<1>1. VaultInv => NeverTruncated
  BY PasswordAssumption DEF VaultInv, ReadableInv, NeverTruncated, Partial
<1>. QED BY <1>1, VaultInvariant, PTL

\* Secrets leave the vault only for the rescue copy (SecretsAreRecoverable).
THEOREM SecretsRecoverable == Spec => []SecretsAreRecoverable
<1>1. VaultInv => SecretsAreRecoverable
  BY DEF VaultInv
<1>. QED BY <1>1, VaultInvariant, PTL

-----------------------------------------------------------------------------
\* What a run without a warning leaves (CleanRunIsUsable).

\* The steps that keep the files, and move the run on without a warning, keep
\* the entries the vault has of the source.
LEMMA CompleteKeeps ==
    ASSUME vault' = vault, run'.src = run.src, Complete
    PROVE  Complete'
BY DEF Complete, Has

\* A run that answers, or is away, has nothing further to keep.
LEMMA WarnedUsable ==
    ASSUME run'.warn \/ run'.pc \in {"idle", "keep", "create", "write", "replace", "merge"}
    PROVE  UsableInv'
BY DEF UsableInv, CleanRunIsUsable

LEMMA StartUsable ==
    ASSUME TypeOK, UsableInv, NEW force, NEW src, StartRun(force, src)
    PROVE  UsableInv'
<1>1. run'.pc \in {"check", "create"} /\ ~run'.build
  BY DEF StartRun, Idle
<1>. QED BY <1>1 DEF UsableInv, CleanRunIsUsable

LEMMA HarmUsable ==
    ASSUME KillRun \/ Damage \/ LosePass
    PROVE  UsableInv'
<1>1. run'.pc = "idle"
  BY DEF KillRun, Damage, LosePass, Idle
<1>. QED BY <1>1, WarnedUsable

\* The vault is complete once the copy of the source has taken its place, and
\* once the entries it lacks have been merged.
LEMMA ReplaceCompletes ==
    ASSUME TypeOK, VaultInv, ReplaceVault
    PROVE  Complete'
<1>1. vault' = Built /\ run'.src = run.src
  BY DEF ReplaceVault, Goto, VaultInv, OpenInv, TypeOK, RunState
<1>2. ASSUME NEW s \in run.src PROVE Has(run.src) = s.has
  BY DEF TypeOK, AtMostOne, Has
<1>3. \A f \in Built : Has(run.src) \subseteq f.has
  BY <1>2 DEF Built
<1>. QED BY <1>1, <1>3 DEF Complete, Has

LEMMA MergeCompletes ==
    ASSUME TypeOK, Merge
    PROVE  Complete'
<1>1. /\ vault' = {[f EXCEPT !.has = @ \cup Has(run.src)] : f \in run.kp}
      /\ run'.src = run.src
  BY DEF Merge, Goto, TypeOK, RunState
<1>2. ASSUME NEW f \in run.kp
      PROVE  Has(run.src) \subseteq [f EXCEPT !.has = @ \cup Has(run.src)].has
  BY DEF TypeOK, RunState, File
<1>. QED BY <1>1, <1>2 DEF Complete, Has

\* A fresh secret takes the place of the old one and leaves the structure.
LEMMA SaveCompletes ==
    ASSUME TypeOK, VaultInv, Complete, Opened = vault, NEW s \in Secrets, SaveSecret(s)
    PROVE  Complete' /\ vault' # {} /\ Opened' = vault'
<1>1. PICK f \in run.kp :
        LET g == [f EXCEPT !.has = (@ \ Secrets) \cup {s}] IN
        vault' = {g} /\ run' = [run EXCEPT !.kp = {g}, !.pc = "apply"]
  BY DEF SaveSecret
<1>. DEFINE g == [f EXCEPT !.has = (@ \ Secrets) \cup {s}]
<1>2. f \in vault /\ f \in File /\ pass' = pass
  BY DEF SaveSecret, VaultInv, OpenInv, TypeOK
<1>3. g.open = f.open /\ g.has = (f.has \ Secrets) \cup {s}
  BY <1>2 DEF File
<1>4. run'.src = run.src /\ vault' = {g}
  BY <1>1 DEF TypeOK, RunState
<1>5. f.open = pass /\ pass \in Passwords
  BY <1>2 DEF Opened
<1>6. Has(run.src) \subseteq Structure
  BY DEF TypeOK, RunState, Source, Has
<1>7. Has(run.src) \subseteq g.has
  BY <1>2, <1>3, <1>6, EntryAssumption DEF Complete
<1>8. Complete'
  BY <1>4, <1>7 DEF Complete, Has
<1>9. Opened' = vault'
  BY <1>2, <1>3, <1>4, <1>5 DEF Opened
<1>. QED BY <1>4, <1>8, <1>9

LEMMA VaultUsable ==
    ASSUME TypeOK, VaultInv, UsableInv, VaultStep
    PROVE  UsableInv'
<1>. USE DEF files, hist
<1>1. CASE NoSource \/ CheckLost \/ KeepVault \/ KeepFails \/ WriteFails \/ PassFails \/ MergeFails
  <2>1. run'.warn
    BY <1>1 DEF NoSource, CheckLost, KeepVault, KeepFails, ToBuild, WriteFails, PassFails,
                MergeFails, Warn, TypeOK, RunState
  <2>. QED BY <2>1, WarnedUsable
<1>2. ASSUME NEW f \in vault, CheckOpens(f) PROVE UsableInv'
  <2>1. /\ run.pc = "check" /\ run'.pc \in {"trunc", "merge"}
        /\ run'.warn = run.warn /\ run'.build = run.build
    BY <1>2 DEF CheckOpens, TypeOK, RunState
  <2>. QED BY <2>1 DEF UsableInv, CleanRunIsUsable
<1>3. CASE StartCreate \/ BeginWrite
  <2>1. run'.pc \in {"write", "replace"}
    BY <1>3 DEF StartCreate, BeginWrite, ToBuild, Goto, TypeOK, RunState
  <2>. QED BY <2>1, WarnedUsable
<1>4. CASE ReplaceVault
  BY <1>4, ReplaceCompletes DEF ReplaceVault, Goto, UsableInv, CleanRunIsUsable, TypeOK, RunState
<1>5. CASE TruncatePass \/ FillPass
  <2>1. /\ run'.pc \in {"fill", AfterPass} /\ run'.build = run.build /\ run'.src = run.src
        /\ run.pc \in {"trunc", "fill"} /\ run'.warn = run.warn /\ vault' = vault
    BY <1>5 DEF TruncatePass, FillPass, Goto, TypeOK, RunState
  <2>. QED BY <2>1, CompleteKeeps DEF AfterPass, UsableInv, CleanRunIsUsable
<1>6. CASE Verify
  <2>1. /\ run.pc = "verify" /\ run'.pc = "client" /\ run'.src = run.src /\ vault' = vault
        /\ run'.warn \/ run'.warn = run.warn
    BY <1>6 DEF Verify, Goto, Warn, TypeOK, RunState
  <2>. QED BY <2>1, CompleteKeeps DEF UsableInv, CleanRunIsUsable
<1>7. CASE Merge
  BY <1>7, MergeCompletes DEF Merge, Goto, UsableInv, CleanRunIsUsable, TypeOK, RunState
<1>. QED BY <1>1, <1>2, <1>3, <1>4, <1>5, <1>6, <1>7 DEF VaultStep

LEMMA ClientUsable ==
    ASSUME TypeOK, VaultInv, UsableInv, ClientStep
    PROVE  UsableInv'
<1>. USE DEF files, hist
<1>1. CASE OpenForClient
  <2>1. /\ run.pc = "client" /\ UNCHANGED <<vault, pass>>
        /\ \/ run'.warn
           \/ /\ Opened # {} /\ run'.pc \in {"apply", "save"}
              /\ run'.src = run.src /\ run'.warn = run.warn
    BY <1>1 DEF OpenForClient, Warn, TypeOK, RunState
  <2>2. Opened # {} => Opened = vault /\ vault # {}
    BY DEF Opened, TypeOK, AtMostOne
  <2>3. Opened' = Opened
    BY <2>1 DEF Opened
  <2>. QED BY <2>1, <2>2, <2>3, CompleteKeeps DEF UsableInv, CleanRunIsUsable
<1>2. ASSUME NEW s \in Secrets, SaveSecret(s) PROVE UsableInv'
  <2>1. run.pc = "save" /\ run'.pc = "apply" /\ run'.warn = run.warn
    BY <1>2 DEF SaveSecret, TypeOK, RunState
  <2>2. ~run.warn => Complete' /\ vault' # {} /\ Opened' = vault'
    BY <1>2, <2>1, SaveCompletes DEF UsableInv
  <2>. QED BY <2>1, <2>2 DEF UsableInv, CleanRunIsUsable
<1>3. CASE SaveFails \/ ApplyFails
  <2>1. run'.warn
    BY <1>3 DEF SaveFails, ApplyFails, Warn, TypeOK, RunState
  <2>. QED BY <2>1, WarnedUsable
<1>4. CASE Apply
  <2>1. /\ run.pc = "apply" /\ run'.pc = "done" /\ run'.warn = run.warn /\ run'.src = run.src
        /\ run.kp = vault /\ UNCHANGED <<vault, pass>> /\ client' = Has(vault) \cap Secrets
    BY <1>4 DEF Apply, Goto, VaultInv, OpenInv, TypeOK, RunState
  <2>2. ASSUME ~run.warn PROVE CleanRunIsUsable'
    <3>1. Complete /\ Opened = vault /\ vault # {}
      BY <2>1, <2>2 DEF UsableInv
    <3>2. PICK f \in vault : vault = {f}
      BY <3>1 DEF TypeOK, AtMostOne
    <3>3. Has(vault) = f.has
      BY <3>2 DEF Has
    <3>4. f \in Opened' /\ Has(run.src)' = Has(run.src)
      BY <2>1, <3>1 DEF Opened, Has
    <3>5. client' = f.has \cap Secrets /\ Has(run.src) \subseteq f.has
      BY <2>1, <3>1, <3>3 DEF Complete
    <3>. QED BY <3>4, <3>5 DEF CleanRunIsUsable
  <2>. QED BY <2>1, <2>2 DEF UsableInv
<1>. QED BY <1>1, <1>2, <1>3, <1>4 DEF ClientStep

\* After a run without a warning the services open the vault, it holds every
\* entry of the source the run worked with, and the remote client answers to
\* the password recorded there (CleanRunIsUsable).
THEOREM CleanRunUsable == Spec => []CleanRunIsUsable
<1>1. Init => UsableInv
  BY DEF Init, Idle, UsableInv, CleanRunIsUsable
<1>2. TypeOK /\ VaultInv /\ UsableInv /\ [Next]_vaultVars => UsableInv'
  <2>1. TypeOK /\ VaultInv /\ UsableInv /\ Next => UsableInv'
    BY StartUsable, VaultUsable, ClientUsable, HarmUsable DEF Next
  <2>2. UsableInv /\ UNCHANGED vaultVars => UsableInv'
    BY DEF vaultVars, files, UsableInv, Complete, CleanRunIsUsable, Opened, Has
  <2>. QED BY <2>1, <2>2
<1>3. TypeOK /\ UsableInv => CleanRunIsUsable
  BY DEF UsableInv, CleanRunIsUsable
<1>. QED BY <1>1, <1>2, <1>3, VaultTypeCorrect, VaultInvariant, PTL DEF Spec

=============================================================================

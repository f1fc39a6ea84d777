---------------------------- MODULE RuntimeVault ----------------------------
(* The runtime vault of a machine: the file the services open, the password  *)
(* file they open it with, and the rescue copy.  A run of the engine builds, *)
(* repairs or extends the vault (tasks/local_vault_setup.py,                 *)
(* runtime_vault.py) and then stores a generated secret of the machine in it *)
(* and applies it (tasks/rustdesk_setup.py).  Runs follow each other, every  *)
(* one with its own source vault, and any of them may be killed.             *)
EXTENDS Naturals, FiniteSets

CONSTANTS
    Passwords,   \* values of the local vault password entry
    NoPassword,  \* a missing or empty password
    Structure,   \* entries of the source vaults
    Secrets,     \* the secrets rustdesk_setup can generate
    FaultKinds,  \* the faults a behaviour may contain
    MaxFaults    \* bound: how many faults one behaviour contains

ASSUME PasswordAssumption == NoPassword \notin Passwords
ASSUME EntryAssumption == Structure \cap Secrets = {}
ASSUME FaultsAssumption == MaxFaults \in Nat

VARIABLES
    vault,     \* the vault file
    temp,      \* the temporary file beside it
    rescue,    \* the rescue copy
    pass,      \* the content of the password file
    client,    \* the secret RustDesk answers to
    run,       \* the current run
    stored,    \* history: secrets saved and not given up by design
    unkept,    \* history: the rename to the rescue copy has failed
    damaged,   \* history: the vault or the password file came to harm
    faults     \* how many faults have happened

files == <<vault, temp, rescue, pass>>
hist  == <<stored, unkept, damaged>>
vaultVars == <<files, client, run, hist, faults>>

\* A database file: the password that opens it, NoPassword for one that no
\* password opens, and its entries.
File == [open : Passwords \cup {NoPassword}, has : SUBSET (Structure \cup Secrets)]

\* What a write that has not ended leaves.
Partial == [open |-> NoPassword, has |-> {}]

\* A source vault the run password opens, with its local password entry.
Source == [pw : Passwords \cup {NoPassword}, has : SUBSET Structure]

Phases == {"idle", "check", "keep", "create", "write", "replace", "trunc", "fill",
           "verify", "merge", "client", "save", "apply", "done"}

RunState == [pc    : Phases,
             force : SUBSET {"vault", "client"},
             src   : SUBSET Source,
             build : BOOLEAN,
             kp    : SUBSET File,
             warn  : BOOLEAN]

AtMostOne(S) == \A x, y \in S : x = y

\* Type invariant of the machine's files and of the run; an entry title
\* occurs once, so a vault carries at most one secret.
TypeOK ==
    /\ vault \subseteq File /\ AtMostOne(vault)
    /\ temp \subseteq File /\ AtMostOne(temp)
    /\ rescue \subseteq File /\ AtMostOne(rescue)
    /\ pass \in Passwords \cup {NoPassword}
    /\ client \subseteq Secrets
    /\ run \in RunState /\ AtMostOne(run.src) /\ AtMostOne(run.kp)
    /\ stored \subseteq Secrets
    /\ unkept \in BOOLEAN
    /\ damaged \in BOOLEAN
    /\ faults \in Nat
    /\ \A f \in vault \cup temp \cup run.kp : AtMostOne(f.has \cap Secrets)

Idle == [pc |-> "idle", force |-> {}, src |-> {}, build |-> FALSE, kp |-> {},
         warn |-> FALSE]

Init ==
    /\ vault = {} /\ temp = {} /\ rescue = {}
    /\ pass = NoPassword
    /\ client = {}
    /\ run = Idle
    /\ stored = {} /\ unkept = FALSE /\ damaged = FALSE
    /\ faults = 0

Fault(kind) ==
    /\ kind \in FaultKinds
    /\ faults < MaxFaults
    /\ faults' = faults + 1

Has(S) == UNION {f.has : f \in S}

Goto(pc) == run' = [run EXCEPT !.pc = pc]
Warn(pc) == run' = [run EXCEPT !.pc = pc, !.warn = TRUE]

-----------------------------------------------------------------------------
(* local_vault_setup                                                         *)

\* The engine starts with the force list and with whichever source vault its
\* password opens.
StartRun(force, src) ==
    /\ run.pc \in {"idle", "done"}
    /\ run' = [Idle EXCEPT !.force = force, !.src = src,
                  !.pc = IF "vault" \notin force /\ vault # {}
                         THEN "check" ELSE "create"]
    /\ UNCHANGED <<files, client, hist, faults>>

LocalPassword == {s.pw : s \in run.src} \cap Passwords

\* No source vault opens, or its password entry is missing or empty: nothing
\* is checked and nothing is built.
NoSource ==
    /\ run.pc \in {"check", "create"}
    /\ LocalPassword = {}
    /\ Warn("client")
    /\ UNCHANGED <<files, client, hist, faults>>

Known == (LocalPassword \cup {pass}) \cap Passwords

\* Mutant: the password file follows the source entry, not the vault.
StaleAgainstSource(f) == pass \notin LocalPassword

\* The password file is missing, empty or out of step with the vault.
Stale(f) == f.open # pass

\* The vault opens with the password file or with the source entry.
CheckOpens(f) ==
    /\ run.pc = "check" /\ LocalPassword # {}
    /\ f \in vault /\ f.open \in Known
    /\ run' = [run EXCEPT !.kp = {f}, !.pc = IF Stale(f) THEN "trunc" ELSE "merge"]
    /\ UNCHANGED <<files, client, hist, faults>>

CheckLost ==
    /\ run.pc = "check" /\ LocalPassword # {}
    /\ \A f \in vault : f.open \notin Known
    /\ Warn("keep")
    /\ UNCHANGED <<files, client, hist, faults>>

\* What the run builds: the source copy under the local password.
Built == {[open |-> s.pw, has |-> s.has] : s \in run.src}

ToBuild(kind) == run' = [run EXCEPT !.pc = "write", !.build = TRUE, !.kp = Built,
                            !.warn = kind = "lost"]

\* Mutant: the unreadable file is removed.
KeepVaultRemoves ==
    /\ run.pc = "keep"
    /\ vault' = {}
    /\ ToBuild("lost")
    /\ UNCHANGED <<temp, rescue, pass, client, hist, faults>>

\* The unreadable vault takes the place of the rescue copy.
KeepVault ==
    /\ run.pc = "keep"
    /\ rescue' = vault /\ vault' = {}
    /\ stored' = stored \ (Has(rescue) \ Has(vault))
    /\ ToBuild("lost")
    /\ UNCHANGED <<temp, pass, client, unkept, damaged, faults>>

\* The rename fails; the rebuild goes on.
KeepFails ==
    /\ run.pc = "keep"
    /\ Fault("keep")
    /\ unkept' = TRUE
    /\ ToBuild("lost")
    /\ UNCHANGED <<files, client, stored, damaged>>

StartCreate ==
    /\ run.pc = "create" /\ LocalPassword # {}
    /\ ToBuild("new")
    /\ UNCHANGED <<files, client, hist, faults>>

\* Mutant: the vault is written in place.
BeginWriteInPlace ==
    /\ run.pc = "write"
    /\ vault' = {Partial}
    /\ temp' = run.kp
    /\ Goto("replace")
    /\ UNCHANGED <<rescue, pass, client, hist, faults>>

\* write_runtime_vault saves into the temporary file ...
BeginWrite ==
    /\ run.pc = "write"
    /\ \/ temp = {Partial} /\ temp' = run.kp /\ Goto("replace")
       \/ temp # {Partial} /\ temp' = {Partial} /\ UNCHANGED run
    /\ UNCHANGED <<vault, rescue, pass, client, hist, faults>>

\* ... and moves it onto the vault.  A forced rewrite gives up the secrets of
\* the machine on purpose.
ReplaceVault ==
    /\ run.pc = "replace"
    /\ vault' = temp /\ temp' = {}
    /\ stored' = stored \ (IF "vault" \in run.force THEN Has(vault) ELSE {})
    /\ Goto("trunc")
    /\ UNCHANGED <<rescue, pass, client, unkept, damaged, faults>>

\* A failed save or move skips the password file and the verification.
WriteFails ==
    /\ run.pc \in {"write", "replace"}
    /\ Fault("write")
    /\ Warn("client")
    /\ UNCHANGED <<files, client, hist>>

AfterPass == IF run.build THEN "verify" ELSE "merge"

\* write_text opens the password file and empties it ...
TruncatePass ==
    /\ run.pc = "trunc"
    /\ pass' = NoPassword
    /\ Goto("fill")
    /\ UNCHANGED <<vault, temp, rescue, client, hist, faults>>

\* ... and writes the password.
FillPass ==
    /\ run.pc = "fill"
    /\ \E f \in run.kp : pass' = f.open
    /\ Goto(AfterPass)
    /\ UNCHANGED <<vault, temp, rescue, client, hist, faults>>

\* The write fails in either step; the vault stays and the task goes on.
PassFails ==
    /\ run.pc \in {"trunc", "fill"}
    /\ Fault("pass")
    /\ Warn(AfterPass)
    /\ UNCHANGED <<files, client, hist>>

\* The new vault is opened once with the local password.
Verify ==
    /\ run.pc = "verify"
    /\ IF \E f \in vault : f.open \in LocalPassword THEN Goto("client") ELSE Warn("client")
    /\ UNCHANGED <<files, client, hist, faults>>

\* The entries the opened vault lacks are copied and saved in place; the
\* library's save replaces the file as a whole.
Merge ==
    /\ run.pc = "merge"
    /\ vault' = {[f EXCEPT !.has = @ \cup Has(run.src)] : f \in run.kp}
    /\ Goto("client")
    /\ UNCHANGED <<temp, rescue, pass, client, hist, faults>>

\* The save raises: the runner records the task with a warning.
MergeFails ==
    /\ run.pc = "merge" /\ \E f \in run.kp : ~(Has(run.src) \subseteq f.has)
    /\ Fault("save")
    /\ Warn("client")
    /\ UNCHANGED <<files, client, hist>>

-----------------------------------------------------------------------------
(* rustdesk_setup                                                            *)

\* metrics.open_runtime_vault: the vault with the password file.
Opened == {f \in vault : f.open = pass /\ pass \in Passwords}

\* Mutant: a stored password counts as applied.
OpenForClientTrusts ==
    /\ run.pc = "client"
    /\ IF Opened = {} THEN Warn("done")
       ELSE run' = [run EXCEPT !.kp = Opened,
                       !.pc = IF Has(Opened) \cap Secrets # {} /\ "client" \notin run.force
                              THEN "done" ELSE "save"]
    /\ UNCHANGED <<files, client, hist, faults>>

\* The credentials wait when the vault does not open; a stored password is
\* kept without force.
OpenForClient ==
    /\ run.pc = "client"
    /\ IF Opened = {} THEN Warn("done")
       ELSE run' = [run EXCEPT !.kp = Opened,
                       !.pc = IF Has(Opened) \cap Secrets # {} /\ "client" \notin run.force
                              THEN "apply" ELSE "save"]
    /\ UNCHANGED <<files, client, hist, faults>>

\* A random password is none that is still known anywhere.
Fresh(s) == s \notin stored \cup client \cup Has(vault) \cup Has(rescue)

\* A fresh password replaces the one of the entry, and the vault is saved.
SaveSecret(s) ==
    /\ run.pc = "save" /\ Fresh(s)
    /\ \E f \in run.kp : LET g == [f EXCEPT !.has = (@ \ Secrets) \cup {s}] IN
         /\ vault' = {g}
         /\ run' = [run EXCEPT !.kp = {g}, !.pc = "apply"]
    /\ stored' = (stored \ Has(run.kp)) \cup {s}
    /\ UNCHANGED <<temp, rescue, pass, client, unkept, damaged, faults>>

\* The save raises, and the runner records the task with a warning.
SaveFails ==
    /\ run.pc = "save"
    /\ Fault("save")
    /\ Warn("done")
    /\ UNCHANGED <<files, client, hist>>

\* rustdesk --password.
Apply ==
    /\ run.pc = "apply"
    /\ client' = Has(run.kp) \cap Secrets
    /\ Goto("done")
    /\ UNCHANGED <<files, hist, faults>>

ApplyFails ==
    /\ run.pc = "apply"
    /\ Fault("apply")
    /\ Warn("done")
    /\ UNCHANGED <<files, client, hist>>

-----------------------------------------------------------------------------
(* Kills and harm from outside.                                              *)

KillRun ==
    /\ run.pc \notin {"idle", "done"}
    /\ Fault("kill")
    /\ run' = Idle
    /\ UNCHANGED <<files, client, hist>>

\* The vault file no longer opens, its content may be recoverable by hand.
Damage ==
    /\ run.pc \in {"idle", "done"} /\ vault # {}
    /\ Fault("damage")
    /\ vault' = {[f EXCEPT !.open = NoPassword] : f \in vault}
    /\ damaged' = TRUE
    /\ run' = Idle
    /\ UNCHANGED <<temp, rescue, pass, client, stored, unkept>>

LosePass ==
    /\ run.pc \in {"idle", "done"} /\ pass # NoPassword
    /\ Fault("damage")
    /\ pass' = NoPassword
    /\ damaged' = TRUE
    /\ run' = Idle
    /\ UNCHANGED <<vault, temp, rescue, client, stored, unkept>>

-----------------------------------------------------------------------------
Sources == {{}} \cup {{s} : s \in Source}

VaultStep ==
    \/ NoSource \/ (\E f \in vault : CheckOpens(f)) \/ CheckLost
    \/ KeepVault \/ KeepFails \/ StartCreate
    \/ BeginWrite \/ ReplaceVault \/ WriteFails
    \/ TruncatePass \/ FillPass \/ PassFails \/ Verify
    \/ Merge \/ MergeFails

ClientStep ==
    \/ OpenForClient \/ (\E s \in Secrets : SaveSecret(s)) \/ SaveFails
    \/ Apply \/ ApplyFails

Next ==
    \/ \E force \in SUBSET {"vault", "client"}, src \in Sources : StartRun(force, src)
    \/ VaultStep
    \/ ClientStep
    \/ KillRun \/ Damage \/ LosePass

Spec == Init /\ [][Next]_vaultVars

-----------------------------------------------------------------------------
\* Once a machine secret is in the vault, the services can read it there with
\* the password file at every moment: through kills in any step, failed
\* writes and a source vault with another password, until the machine's files
\* come to harm or a forced rewrite gives the secret up.
SecretsStayReadable ==
    ~damaged => \A s \in stored : \E f \in vault : s \in f.has /\ f.open = pass

\* A run that reports no warning leaves a machine whose services open the
\* vault and whose RustDesk answers to the password the vault records.
CleanRunIsUsable ==
    run.pc = "done" /\ ~run.warn =>
        \E f \in Opened : client = f.has \cap Secrets /\ Has(run.src) \subseteq f.has

\* An interrupted write leaves the previous vault or the complete new one
\* (runtime_vault.py): nothing but harm from outside makes it unreadable.
NeverTruncated == ~damaged => Partial \notin vault

\* Every stored secret is in the vault or in the rescue copy, whatever has
\* happened to the files: it is given up only by a forced rewrite, by the next
\* rescue copy, or when the vault cannot be renamed.
SecretsAreRecoverable == ~unkept => stored \subseteq Has(vault) \cup Has(rescue)

\* _keep_unreadable_runtime_vault: a file that no known password opens is kept
\* instead of being overwritten, so its secrets stay recoverable by hand.
UnreadableIsKept == stored \subseteq Has(vault) \cup Has(rescue)

-----------------------------------------------------------------------------
\* What makes the properties inductive: the vault a task has open is the
\* vault, the password file is written only while the vault holds no stored
\* secret, and an unforced build starts where there is none to lose.
OpenInv ==
    /\ run.pc \in {"merge", "save", "apply"} => run.kp = vault
    /\ run.pc \in {"trunc", "fill"} /\ ~run.build => run.kp = vault
    /\ run.pc = "save" => \A f \in vault : f.open = pass
    /\ run.pc \in {"keep", "write", "replace"} => LocalPassword # {}
    /\ run.pc \in {"write", "replace"} => run.kp = Built
    /\ run.pc = "replace" => temp = run.kp

BuildInv ==
    run.pc \in {"create", "write", "replace"} /\ "vault" \notin run.force =>
        vault = {} \/ unkept

ReadableInv ==
    ~damaged =>
        /\ \A f \in vault : f.open \in Passwords
        /\ SecretsStayReadable
        /\ run.pc \in {"keep", "trunc", "fill"} => stored = {}
        /\ run.pc \in {"create", "write", "replace"} /\ "vault" \notin run.force =>
              stored = {}

VaultInv == OpenInv /\ BuildInv /\ ReadableInv /\ SecretsAreRecoverable

\* What makes CleanRunIsUsable inductive: as long as nothing was warned of,
\* the vault holds every entry of the source from its rebuild or its merge on,
\* and the client steps work on a vault the services can open.
Complete == \A f \in vault : Has(run.src) \subseteq f.has

UsableInv ==
    ~run.warn =>
        /\ run.pc = "check" => ~run.build
        /\ run.pc \in {"trunc", "fill"} /\ run.build => Complete
        /\ run.pc \in {"verify", "client", "save", "apply"} => Complete
        /\ run.pc \in {"save", "apply"} => vault # {} /\ Opened = vault
        /\ CleanRunIsUsable

=============================================================================

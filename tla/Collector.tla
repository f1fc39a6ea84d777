------------------------------- MODULE Collector -------------------------------
(* The report collector: a oneshot unit that systemd starts by its timer, by *)
(* a trigger of a service with new data and again after an error exit, and   *)
(* that a person may start by hand.  Its runs share one lock, one temporary  *)
(* file and the one name under which a report may be pending in the spool.   *)
(*                                                                           *)
(* What a network module reports is kept as the version of the fact behind   *)
(* it, 0 when the module did not answer; time is kept as what is left of the *)
(* retry window.                                                             *)
EXTENDS Naturals, FiniteSets

CONSTANTS
    Runs,        \* who can be running the collector
    Unit,        \* the oneshot unit, one of Runs
    Modules,     \* the network modules
    Absences,    \* the sets of modules whose source a machine may not have
    Threshold,   \* threshold_percent
    Window,      \* retry_max_seconds, in units of retry_base_seconds
    Multiplier,  \* retry_multiplier
    MaxVersion,  \* bound: how many versions a fact goes through
    FaultKinds,  \* the faults a behaviour may contain
    MaxFaults    \* bound: how many faults one behaviour contains

ASSUME RunsAssumption == Unit \in Runs
ASSUME ModulesAssumption == IsFiniteSet(Modules) /\ Absences \subseteq SUBSET Modules
ASSUME NumbersAssumption ==
    /\ Threshold \in Nat /\ Window \in Nat \ {0} /\ Multiplier \in Nat \ {0}
    /\ MaxVersion \in Nat \ {0} /\ MaxFaults \in Nat

VARIABLES
    absent,     \* modules whose source this machine does not have
    facts,      \* the version of the fact behind each module
    owed,       \* changed facts whose producer has not called the trigger yet
    run,        \* the runs of the collector
    due,        \* systemd starts the unit again, after an error exit or a boot
    lock,       \* the run that holds the flock
    file,       \* the report in the system temp directory
    pending,    \* the name of the report is taken in the spool
    published,  \* history: the last report that entered the spool
    carried,    \* history: the newest version of each fact in the spool
    faults      \* how many faults have happened

worldVars == <<absent, facts, owed>>
spoolVars == <<pending, published, carried>>
vars == <<worldVars, run, due, lock, file, spoolVars, faults>>

Version == 0 .. MaxVersion
Report  == [Modules -> Version]
Silent  == [m \in Modules |-> 0]

\* The states in which a run has the lock.
Locked == {"collect", "pause", "write", "fill", "commit", "clean", "pdf"}

RunState == [pc     : {"off", "start"} \cup Locked,
             todo   : SUBSET Modules,
             report : Report,
             wait   : 1 .. Window,
             left   : 0 .. Window,
             ok     : BOOLEAN]

TempFile == [by : Runs, body : Report, whole : BOOLEAN]

\* Type invariant of the collector.
TypeOK ==
    /\ absent \in Absences
    /\ facts \in [Modules -> Version] /\ owed \subseteq Modules
    /\ run \in [Runs -> RunState] /\ due \in BOOLEAN
    /\ lock \subseteq Runs
    /\ file \in SUBSET TempFile
    /\ pending \in BOOLEAN /\ published \in SUBSET TempFile
    /\ carried \in [Modules -> Version]
    /\ faults \in Nat

NoRun == [pc |-> "off", todo |-> {}, report |-> Silent, wait |-> 1,
          left |-> 0, ok |-> FALSE]

Init ==
    /\ absent \in Absences
    /\ facts = [m \in Modules |-> 1] /\ owed = {}
    /\ run = [r \in Runs |-> NoRun] /\ due = FALSE
    /\ lock = {} /\ file = {}
    /\ pending = FALSE /\ published = {} /\ carried = Silent
    /\ faults = 0

Fault(kind) ==
    /\ kind \in FaultKinds
    /\ faults < MaxFaults
    /\ faults' = faults + 1

At(r, pc) == run[r].pc = pc

Goto(r, pc) == run' = [run EXCEPT ![r].pc = pc]

-----------------------------------------------------------------------------
(* The world and systemd.                                                    *)

Begin(r) == run' = [run EXCEPT ![r] = [NoRun EXCEPT !.pc = "start"]]

\* A new address or port appears; its producer will trigger the collector.
Change(m) ==
    /\ facts[m] < MaxVersion
    /\ facts' = [facts EXCEPT ![m] = @ + 1]
    /\ owed' = owed \cup {m}
    /\ UNCHANGED <<absent, run, due, lock, file, spoolVars, faults>>

\* trigger_collection: systemctl start --no-block, which does nothing when
\* the oneshot is running.
Trigger(m) ==
    /\ m \in owed
    /\ owed' = owed \ {m}
    /\ IF At(Unit, "off") THEN Begin(Unit) /\ due' = FALSE
       ELSE UNCHANGED <<run, due>>
    /\ UNCHANGED <<absent, facts, lock, file, spoolVars, faults>>

\* The call fails or times out: journaled, never raised.
TriggerFails(m) ==
    /\ Fault("trigger")
    /\ m \in owed
    /\ owed' = owed \ {m}
    /\ UNCHANGED <<absent, facts, run, due, lock, file, spoolVars>>

\* The schedule of the timer, its start after a boot, or the restart of a
\* failed unit after RestartSec.
StartUnit ==
    /\ At(Unit, "off")
    /\ Begin(Unit) /\ due' = FALSE
    /\ UNCHANGED <<worldVars, lock, file, spoolVars, faults>>

\* A person runs the module.
StartByHand(r) ==
    /\ r # Unit /\ At(r, "off")
    /\ Begin(r)
    /\ UNCHANGED <<worldVars, due, lock, file, spoolVars, faults>>

\* The ingest moves the report into the queue and the name is free again.
IngestTakes ==
    /\ pending
    /\ pending' = FALSE
    /\ UNCHANGED <<worldVars, run, due, lock, file, published, carried, faults>>

-----------------------------------------------------------------------------
(* The ends of a run.                                                        *)

\* Restart=on-failure looks at the exit code alone.
Exit(r, code) ==
    /\ run' = [run EXCEPT ![r] = NoRun]
    /\ lock' = lock \ {r}
    /\ due' = IF r = Unit THEN code # 0 ELSE due

\* A killed run: the kernel drops its flock, the temporary file stays.
KillRun(r) ==
    /\ Fault("kill")
    /\ ~At(r, "off")
    /\ Exit(r, 1)
    /\ UNCHANGED <<worldVars, file, spoolVars>>

\* A power loss: the temp directory may be empty afterwards, and OnBootSec of
\* the timer starts the unit when the machine is up again.
Reboot ==
    /\ Fault("reboot")
    /\ run' = [r \in Runs |-> NoRun] /\ lock' = {} /\ due' = TRUE
    /\ file' \in {file, {}}
    /\ UNCHANGED <<worldVars, spoolVars>>

-----------------------------------------------------------------------------
(* The run: main, collect_until_ready and collect.                           *)

\* Mutant: the deadline is computed anew for every attempt.
NewAttemptNewWindow(r) ==
    run' = [run EXCEPT ![r].pc = "collect", ![r].todo = Modules,
                       ![r].report = Silent, ![r].left = Window]

NewAttempt(r) == run' = [run EXCEPT ![r].pc = "collect", ![r].todo = Modules,
                                    ![r].report = Silent]

\* Mutant: a held lock is not respected.
AcquireLockAlways(r) ==
    /\ At(r, "start")
    /\ run' = [run EXCEPT ![r].pc = "collect", ![r].todo = Modules,
                          ![r].report = Silent, ![r].left = Window]
    /\ lock' = lock \cup {r}
    /\ UNCHANGED <<worldVars, due, file, spoolVars, faults>>

\* The non-blocking flock: a second run exits quietly.
AcquireLock(r) ==
    /\ At(r, "start")
    /\ IF lock = {}
       THEN /\ run' = [run EXCEPT ![r].pc = "collect", ![r].todo = Modules,
                                  ![r].report = Silent, ![r].left = Window]
            /\ lock' = {r}
            /\ UNCHANGED due
       ELSE Exit(r, 0)
    /\ UNCHANGED <<worldVars, file, spoolVars, faults>>

\* The lock file cannot be opened: the run exits loudly.
LockFails(r) ==
    /\ Fault("lock")
    /\ At(r, "start")
    /\ Exit(r, 1)
    /\ UNCHANGED <<worldVars, file, spoolVars>>

\* One module answers; the modules run one after the other, so a report is no
\* picture of one moment.
ModuleAnswers(r, m) ==
    /\ At(r, "collect") /\ m \in run[r].todo \ absent
    /\ run' = [run EXCEPT ![r].todo = @ \ {m}, ![r].report[m] = facts[m]]
    /\ UNCHANGED <<worldVars, due, lock, file, spoolVars, faults>>

\* One module exits nonzero, prints nothing or times out, which may take a
\* part of the window.
ModuleSilent(r, m) ==
    /\ At(r, "collect") /\ m \in run[r].todo
    /\ IF m \in absent THEN UNCHANGED faults ELSE Fault("silent")
    /\ \E rest \in {run[r].left, run[r].left - 1} \cap (0 .. Window) :
          run' = [run EXCEPT ![r].todo = @ \ {m}, ![r].left = rest]
    /\ UNCHANGED <<worldVars, due, lock, file, spoolVars>>

\* A module raises what _run_module does not catch, a refused executable or
\* an output that is not text: main prints one line and exits with 0.
ModuleRaises(r, m) ==
    /\ Fault("raise")
    /\ At(r, "collect") /\ m \in run[r].todo
    /\ Exit(r, 0)
    /\ UNCHANGED <<worldVars, file, spoolVars>>

Percent(report) ==
    IF Modules = {} THEN 100
    ELSE (Cardinality({m \in Modules : report[m] # 0}) * 100) \div Cardinality(Modules)

\* backoff_delay, in units of retry_base_seconds: the pause after this one.
Longer(wait) ==
    IF wait * Multiplier < Window THEN wait * Multiplier ELSE Window

\* A pause never exceeds what is left of the window.
LeftAfter(wait, left) == IF wait < left THEN left - wait ELSE 0

\* Mutant: the lock is released when the report is ready.
CollectedUnlocks(r) ==
    /\ At(r, "collect") /\ run[r].todo = {}
    /\ Goto(r, "write") /\ lock' = lock \ {r}
    /\ UNCHANGED <<worldVars, due, file, spoolVars, faults>>

\* The report is ready, or the window is exhausted; otherwise a pause.
Collected(r) ==
    /\ At(r, "collect") /\ run[r].todo = {}
    /\ IF Percent(run[r].report) >= Threshold \/ run[r].left = 0
       THEN Goto(r, "write")
       ELSE run' = [run EXCEPT ![r].pc = "pause", ![r].wait = Longer(@),
                               ![r].left = LeftAfter(run[r].wait, @)]
    /\ UNCHANGED <<worldVars, due, lock, file, spoolVars, faults>>

Wake(r) ==
    /\ At(r, "pause")
    /\ NewAttempt(r)
    /\ UNCHANGED <<worldVars, due, lock, file, spoolVars, faults>>

-----------------------------------------------------------------------------
(* The commit: _commit_report and _commit_telemetry_pdf.                     *)

\* open for writing: the file is there, and empty.
OpenFile(r) ==
    /\ At(r, "write")
    /\ file' = {[by |-> r, body |-> run[r].report, whole |-> FALSE]}
    /\ Goto(r, "fill")
    /\ UNCHANGED <<worldVars, due, lock, spoolVars, faults>>

\* The report is in the file, if the path still names one.
Filled(r) ==
    IF file = {} THEN {} ELSE {[by |-> r, body |-> run[r].report, whole |-> TRUE]}

FillFile(r) ==
    /\ At(r, "fill")
    /\ file' = Filled(r)
    /\ Goto(r, "commit")
    /\ UNCHANGED <<worldVars, due, lock, spoolVars, faults>>

\* The write fails: an error exit that leaves the file as it is.
WriteFails(r) ==
    /\ Fault("write")
    /\ At(r, "write") \/ At(r, "fill")
    /\ Exit(r, 1)
    /\ UNCHANGED <<worldVars, file, spoolVars>>

\* The commit command copies the file and links it under its name.
Publish ==
    /\ ~pending
    /\ pending' = TRUE
    /\ \E f \in file :
          /\ published' = {f}
          /\ carried' = [m \in Modules |->
                IF f.body[m] > carried[m] THEN f.body[m] ELSE carried[m]]

Committed(r, ok) == run' = [run EXCEPT ![r].pc = "clean", ![r].ok = ok]

CommitOk(r) ==
    /\ At(r, "commit")
    /\ Publish /\ Committed(r, TRUE)
    /\ UNCHANGED <<worldVars, due, lock, file, faults>>

\* The name is still pending, or there is no file.
CommitRefused(r) ==
    /\ At(r, "commit")
    /\ pending \/ file = {}
    /\ Committed(r, FALSE)
    /\ UNCHANGED <<worldVars, due, lock, file, spoolVars, faults>>

\* The command fails or is killed at its timeout, before or after the link.
CommitFails(r) ==
    /\ Fault("commit")
    /\ At(r, "commit")
    /\ Committed(r, FALSE)
    /\ Publish \/ UNCHANGED spoolVars
    /\ UNCHANGED <<worldVars, due, lock, file>>

\* Mutant: a failed commit is reported and the run ends in order.
RemoveFileQuiet(r) ==
    /\ At(r, "clean")
    /\ file' = {}
    /\ IF run[r].ok THEN Goto(r, "pdf") /\ UNCHANGED <<due, lock>> ELSE Exit(r, 0)
    /\ UNCHANGED <<worldVars, spoolVars, faults>>

\* The file is removed either way; a failed commit is an error exit.
RemoveFile(r) ==
    /\ At(r, "clean")
    /\ file' = {}
    /\ IF run[r].ok THEN Goto(r, "pdf") /\ UNCHANGED <<due, lock>> ELSE Exit(r, 1)
    /\ UNCHANGED <<worldVars, spoolVars, faults>>

\* The removal raises: main prints one line and exits with 0.
RemoveRaises(r) ==
    /\ Fault("unlink")
    /\ At(r, "clean")
    /\ Exit(r, 0)
    /\ UNCHANGED <<worldVars, file, spoolVars>>

\* The PDF is best effort, whatever happens to it.
CommitPdf(r) ==
    /\ At(r, "pdf")
    /\ Exit(r, 0)
    /\ UNCHANGED <<worldVars, file, spoolVars, faults>>

-----------------------------------------------------------------------------
CollectStep(r) ==
    \/ AcquireLock(r) \/ Collected(r) \/ Wake(r)
    \/ \E m \in Modules : \/ ModuleAnswers(r, m)
                          \/ m \in absent /\ ModuleSilent(r, m)

CommitStep(r) ==
    \/ OpenFile(r) \/ FillFile(r) \/ CommitOk(r) \/ CommitRefused(r)
    \/ RemoveFile(r) \/ CommitPdf(r)

FaultStep(r) ==
    \/ LockFails(r) \/ WriteFails(r) \/ CommitFails(r) \/ RemoveRaises(r)
    \/ KillRun(r)
    \/ \E m \in Modules : ModuleSilent(r, m) \/ ModuleRaises(r, m)

SystemStep ==
    \/ \E m \in Modules : Change(m) \/ Trigger(m) \/ TriggerFails(m)
    \/ StartUnit \/ IngestTakes \/ Reboot

Next ==
    \/ SystemStep
    \/ \E r \in Runs : CollectStep(r) \/ CommitStep(r) \/ FaultStep(r) \/ StartByHand(r)

Spec == Init /\ [][Next]_vars

\* A run goes on, since every command of it has a timeout; the timer fires day
\* after day; the ingest empties the spool.  Triggers need no fairness.
Fairness ==
    /\ \A r \in Runs : WF_vars(CollectStep(r)) /\ WF_vars(CommitStep(r))
    /\ WF_vars(StartUnit) /\ WF_vars(IngestTakes)

FairSpec == Spec /\ Fairness

-----------------------------------------------------------------------------
\* The lock keeps a second run from committing: every report in the spool is
\* the whole report of one run, and a run that goes on to its PDF has committed
\* its own, although all runs write the same temporary file.
CommittedIsWhole ==
    \A f \in published :
        /\ f.whole
        /\ \A r \in Runs : At(r, "pdf") => f.by = r /\ f.body = run[r].report

\* A report that enters the spool never takes a fact back to a version older
\* than one an earlier report carried, although modules answer one after the
\* other, runs overlap and a failed commit may have published.
ReportsNeverGoBack ==
    [][published' # published =>
         \A f \in published', m \in Modules :
             f.body[m] # 0 => f.body[m] >= carried[m]]_vars

\* system-metrics.md: a missing piece is retried and no report is lost.  A run
\* of the unit that has begun to collect and ends without a committed report is
\* one systemd starts again, unless an exception ended it.
OnlyExceptionsLoseARun ==
    [][run[Unit].pc \in Locked /\ run'[Unit].pc = "off" /\ ~run[Unit].ok
         => \/ due'
            \/ \E m \in Modules : ModuleRaises(Unit, m)
            \/ RemoveRaises(Unit)]_vars

\* Every version of a fact whose source the machine has reaches the spool, in
\* a report of it or of a later one: refused and failed commits, modules that
\* do not answer in time, overlapping runs and kills only delay it.
FactsReachTheQueue ==
    \A m \in Modules, v \in 1 .. MaxVersion :
        m \notin absent /\ facts[m] >= v ~> carried[m] >= v

-----------------------------------------------------------------------------
\* What makes these inductive: one run at most has the lock; the file and the
\* last published report are those of the run that is about to commit or has
\* committed; and what the holder has read is no older than the spool.
LockInv ==
    /\ \A r \in Runs : r \in lock <=> run[r].pc \in Locked
    /\ \A r, q \in lock : r = q

Written(r, whole) == [by |-> r, body |-> run[r].report, whole |-> whole]

FileInv ==
    /\ \A f \in published : f.whole
    /\ \A r \in Runs :
          /\ At(r, "fill") => file = {Written(r, FALSE)}
          /\ At(r, "commit") => file = {Written(r, TRUE)}
          /\ At(r, "pdf") \/ (At(r, "clean") /\ run[r].ok)
                => published = {Written(r, TRUE)}

PdfInv == \A r \in Runs : At(r, "pdf") => run[r].ok

AgeInv ==
    \A m \in Modules :
        /\ carried[m] <= facts[m]
        /\ \A r \in lock : run[r].report[m] # 0 =>
              carried[m] <= run[r].report[m] /\ run[r].report[m] <= facts[m]

CommitInv == LockInv /\ FileInv /\ PdfInv /\ AgeInv

=============================================================================

---------------------------- MODULE MetricsState ----------------------------
(* The state shared by the programs of the System Metrics queue: the commit  *)
(* command, the ingest service and the service loop work on four             *)
(* directories of one file system and on nothing else.                       *)
(*                                                                           *)
(* An artifact is one run of the commit command.  Its number is its commit   *)
(* time, the modification time every later copy keeps.  A queue entry is     *)
(* one file of main_outbox, of the channel queue or of main_sent: a copy of  *)
(* an artifact under "<original name>.<random suffix>".                      *)
EXTENDS Naturals, FiniteSets

CONSTANTS
    Artifacts,   \* the commits of one behaviour, numbered by commit time
    NameOf,      \* the original file name of each artifact
    Suffixes,    \* the random suffixes the ingest can draw
    Oversized,   \* artifacts larger than MAX_QUEUE_FILE_SIZE_BYTES
    Poison,      \* artifacts the web app always refuses
    FaultKinds,  \* the faults a behaviour may contain
    MaxFaults    \* bound: how many faults one behaviour contains

ASSUME ArtifactsAssumption == Artifacts \subseteq Nat
ASSUME MaxFaultsAssumption == MaxFaults \in Nat

VARIABLES
    commit,      \* where each run of the commit command is
    temps,       \* artifacts whose .commit- temporary is in the spool
    spool,       \* artifacts pending in the spool under their own name
    published,   \* history: artifacts the commit command put into the spool
    rejected,    \* history: artifacts the ingest removed as invalid
    outbox,      \* entries of main_outbox
    channel,     \* entries of the Google Drive channel queue
    sent,        \* entries of main_sent
    ing,         \* the running ingest service
    snd,         \* the running service loop
    vaultOpen,   \* the runtime vault opens and carries the credentials
    received,    \* history: how often the web app stored each artifact
    faults       \* how many faults have happened

spoolVars == <<commit, temps, spool, published, rejected, ing>>
sendVars  == <<channel, sent, snd, vaultOpen, received>>
vars      == <<spoolVars, outbox, sendVars, faults>>

Entry == [art : Artifacts, suffix : Suffixes]

\* Two entries are one path of a directory when name and suffix agree.
SamePath(e, f) == NameOf[e.art] = NameOf[f.art] /\ e.suffix = f.suffix

Taken(dir, e) == \E f \in dir : SamePath(e, f)

CommitState == {"none", "copying", "copied", "linked", "refused",
                "ok", "failed", "killed"}

IngestState == [pc     : {"idle", "scan", "linked"},
                todo   : SUBSET Artifacts,
                listed : SUBSET Artifacts,
                cur    : SUBSET Artifacts,
                left   : BOOLEAN,
                exit   : {0, 1}]

SenderState == [pc        : {"sleep", "dispatch", "linked", "send", "archive"},
                todo      : SUBSET Entry,
                cur       : SUBSET Entry,
                problem   : BOOLEAN,
                attempted : BOOLEAN,
                stored    : BOOLEAN,
                retry     : BOOLEAN]

\* Type invariant of the whole queue, the states of its three programs
\* (commit_system_metrics.sh, metrics_ingest.py, metrics.py) included.
TypeOK ==
    /\ commit \in [Artifacts -> CommitState]
    /\ temps \subseteq Artifacts
    /\ spool \subseteq Artifacts
    /\ published \subseteq Artifacts
    /\ rejected \subseteq Artifacts
    /\ outbox \subseteq Entry
    /\ channel \subseteq Entry
    /\ sent \subseteq Entry
    /\ ing \in IngestState
    /\ snd \in SenderState
    /\ vaultOpen \in BOOLEAN
    /\ received \in [Artifacts -> Nat]
    /\ faults \in Nat

Init ==
    /\ commit = [a \in Artifacts |-> "none"]
    /\ temps = {} /\ spool = {} /\ published = {} /\ rejected = {}
    /\ outbox = {} /\ channel = {} /\ sent = {}
    /\ ing = [pc |-> "idle", todo |-> {}, listed |-> {}, cur |-> {},
              left |-> FALSE, exit |-> 0]
    /\ snd = [pc |-> "sleep", todo |-> {}, cur |-> {}, problem |-> FALSE,
              attempted |-> FALSE, stored |-> FALSE, retry |-> FALSE]
    /\ vaultOpen = TRUE
    /\ received = [a \in Artifacts |-> 0]
    /\ faults = 0

\* An operating-system failure, a kill or a power loss.  Each one is spent
\* from the budget MaxFaults; every action below names the kind it is.
Fault(kind) ==
    /\ kind \in FaultKinds
    /\ faults < MaxFaults
    /\ faults' = faults + 1

=============================================================================

---------------------------- MODULE MetricsQueue ----------------------------
(* The System Metrics queue: producers running the commit command, the       *)
(* ingest service and the service loop, interleaved over the directories     *)
(* they share, with the faults of FaultKinds in any step.                    *)
EXTENDS MetricsSpool, MetricsSender

Next == SpoolNext \/ SenderNext

Spec == Init /\ [][Next]_vars

\* systemd restarts a failed ingest and the next commit of a timer starts it
\* again, the loop never stops cycling, and the support is repaired.
\* random.choice does not skip an entry for ever, and the web app does not
\* refuse a good one for ever.
Good == Artifacts \ (Oversized \cup Poison)

SendsAlone(a) == \E s \in Suffixes : StartSend({[art |-> a, suffix |-> s]})
UploadsOk(a)  == \E s \in Suffixes : UploadOk([art |-> a, suffix |-> s])

Fairness ==
    /\ WF_vars(Ingest /\ UNCHANGED sendVars)
    /\ WF_vars((Dispatch \/ Send) /\ UNCHANGED spoolVars)
    /\ WF_vars(VaultOpens /\ UNCHANGED spoolVars)
    /\ \A a \in Good :
          /\ SF_vars(SendsAlone(a) /\ UNCHANGED spoolVars)
          /\ SF_vars(UploadsOk(a) /\ UNCHANGED spoolVars)

FairSpec == Spec /\ Fairness

-----------------------------------------------------------------------------
Queued == outbox \cup channel \cup sent

\* A copy of the artifact is on its way, or the web app already has it.
Held(a) == received[a] > 0 \/ \E e \in outbox \cup channel : e.art = a

\* Once the commit command has put an artifact into the spool it is in the
\* spool, in the queue or in the web app, whatever is killed in whatever
\* step, unless the ingest rejected it (metrics_commit.py publishes before
\* it unlinks, metrics_send.py links before it unlinks and archives last).
NoArtifactLost ==
    \A a \in published : a \in spool \/ Held(a) \/ a \in rejected

\* Nothing travels through the queue that its producer has not finished:
\* the temporaries of running and killed commits are in the same directory
\* and are never published, and an oversized artifact never leaves the spool.
OnlyPublishedQueued ==
    \A e \in Queued : e.art \in published \ Oversized

\* The archive main_sent holds only what the web app has received: the move
\* out of the queue comes after the OK, also when an earlier cycle of the
\* machine was cut off, its answer was lost or its move failed.
ArchivedWasReceived == \A e \in sent : received[e.art] > 0

\* Every file the web app stored twice is paid for by a fault: without a
\* crash, a failed unlink, a failed move or a lost answer the delivery is
\* exactly once, and n faults cost at most n extra uploads.
\* Repeats has one element for each of them.
Repeats == UNION {{a} \X (2..received[a]) : a \in Artifacts}

DuplicatesNeedFaults == Cardinality(Repeats) <= faults

\* An ingest run that exits 0 has emptied the spool of all it found there,
\* so a run that systemd does not restart leaves no entry behind.
CleanExitEmptiedSpool ==
    [][ing.pc = "scan" /\ ing'.pc = "idle" /\ ing'.exit = 0
         => ing.listed \cap spool' = {}]_vars

-----------------------------------------------------------------------------
\* What makes the safety properties inductive: where each program's own
\* record of its work agrees with the directories and with the history.

Known == published \ Oversized

HistoryInv ==
    /\ \A a \in published : commit[a] \in {"linked", "ok", "killed"}
    /\ spool \subseteq published
    /\ rejected \subseteq Oversized \cap published
    /\ \A a \in Artifacts : received[a] > 0 => a \in Known

IngestInv ==
    /\ ing.pc # "linked" => ing.cur = {}
    /\ ing.cur \subseteq Known
    /\ ing.todo \subseteq published
    /\ ing.listed \subseteq published
    /\ ing.pc = "linked" => \A a \in ing.cur : Held(a)
    /\ ing.listed \cap spool \subseteq ing.todo \/ ing.left

SenderInv ==
    /\ \A e \in snd.todo \cup snd.cur : e.art \in Known
    /\ snd.pc = "linked" => snd.cur \subseteq channel
    /\ snd.pc = "archive" => \A e \in snd.cur : received[e.art] > 0

\* The inductive invariant of the proofs: the safety properties and the
\* agreement of the programs with the directories they are working on.
QueueInv ==
    /\ NoArtifactLost
    /\ OnlyPublishedQueued
    /\ ArchivedWasReceived
    /\ HistoryInv
    /\ IngestInv
    /\ SenderInv

\* What makes DuplicatesNeedFaults inductive: the copies that can still lead
\* to an upload, the uploads, and the rejected artifacts are together at most
\* one for each published artifact and one for each fault.  A copy that has
\* been linked further, or uploaded, is not counted where it still lies.
Delivered == {a \in Artifacts : received[a] > 0}
InSpool   == spool \ ing.cur
InOutbox  == IF snd.pc = "linked" THEN outbox \ snd.cur ELSE outbox
InChannel == IF snd.pc = "archive" THEN channel \ snd.cur ELSE channel

WorkInv ==
    /\ ing.todo \subseteq spool
    /\ ing.pc = "linked" => \E a \in ing.todo : ing.cur = {a}
    /\ snd.pc \in {"dispatch", "linked"} => snd.todo \subseteq outbox
    /\ snd.pc \in {"send", "archive"} => snd.todo \subseteq channel
    /\ snd.pc \in {"linked", "archive"} => \E e \in snd.todo : snd.cur = {e}

FiniteInv ==
    /\ IsFiniteSet(published) /\ IsFiniteSet(rejected)
    /\ IsFiniteSet(Delivered) /\ IsFiniteSet(Repeats)
    /\ IsFiniteSet(InSpool) /\ IsFiniteSet(InOutbox) /\ IsFiniteSet(InChannel)

Copies ==
    Cardinality(rejected) + Cardinality(Delivered) + Cardinality(Repeats)
      + Cardinality(InSpool) + Cardinality(InOutbox) + Cardinality(InChannel)

CopiesInv ==
    WorkInv /\ FiniteInv /\ Copies <= Cardinality(published) + faults

-----------------------------------------------------------------------------
PhaseOf(a) ==
    IF received[a] > 0 THEN "received"
    ELSE IF a \in rejected THEN "rejected"
    ELSE IF a \in spool \/ Held(a) THEN "pending"
    ELSE "none"

Delivery == INSTANCE MetricsDelivery
              WITH phase <- [a \in Artifacts |-> PhaseOf(a)]

\* The queue of directories implements the promise: whatever is interleaved
\* or killed, a producer sees its artifact accepted once, then delivered or
\* rejected, and never unaccepted again.
ImplementsDelivery == Delivery!Spec

\* With the faults of FaultKinds only, every artifact in the spool that the
\* web app does not refuse reaches the archive: a delayed send is a delay
\* and not a loss, and the entries of Poison never block the others.
EventuallySent ==
    \A a \in Good :
        (a \in published) ~> (\E e \in sent : e.art = a)

=============================================================================

---------------------------- MODULE MetricsSpool ----------------------------
(* The intake of the System Metrics queue: the unprivileged commit command   *)
(* (commit_system_metrics.sh), which any number of producers run at once,    *)
(* and the root ingest service (metrics_commit.py, metrics_ingest.py), which *)
(* moves what they published into main_outbox.                               *)
EXTENDS MetricsState

-----------------------------------------------------------------------------
\* The commit command.

\* The checks pass and mktemp creates the temporary; the number of an
\* artifact is its commit time, so runs are numbered in the order they begin.
BeginCommit(a) ==
    /\ commit[a] = "none"
    /\ \A b \in Artifacts : b < a => commit[b] # "none"
    /\ commit' = [commit EXCEPT ![a] = "copying"]
    /\ temps' = temps \cup {a}
    /\ UNCHANGED <<spool, published, rejected, ing, outbox, faults>>

\* cp, chmod and touch; a failing one ends the script through its EXIT trap.
CopySource(a) ==
    /\ commit[a] = "copying"
    /\ \/ /\ commit' = [commit EXCEPT ![a] = "copied"]
          /\ UNCHANGED temps
       \/ /\ commit' = [commit EXCEPT ![a] = "failed"]
          /\ temps' = temps \ {a}
    /\ UNCHANGED <<spool, published, rejected, ing, outbox, faults>>

NamePending(a) == \E b \in spool : NameOf[b] = NameOf[a]

\* Mutant: mv in place of ln, which overwrites the pending file.
LinkSpoolOverwrites(a) ==
    /\ commit[a] = "copied"
    /\ commit' = [commit EXCEPT ![a] = "linked"]
    /\ spool' = {b \in spool : NameOf[b] # NameOf[a]} \cup {a}
    /\ published' = published \cup {a}
    /\ UNCHANGED <<temps, rejected, ing, outbox, faults>>

\* ln without -f: the name appears in one step, and only when it is free.
LinkSpool(a) ==
    /\ commit[a] = "copied"
    /\ IF NamePending(a)
         THEN /\ commit' = [commit EXCEPT ![a] = "refused"]
              /\ UNCHANGED <<spool, published>>
         ELSE /\ commit' = [commit EXCEPT ![a] = "linked"]
              /\ spool' = spool \cup {a}
              /\ published' = published \cup {a}
    /\ UNCHANGED <<temps, rejected, ing, outbox, faults>>

\* The temporary is removed, by rm after a link and by the trap otherwise.
EndCommit(a) ==
    /\ commit[a] \in {"linked", "refused"}
    /\ commit' = [commit EXCEPT ![a] =
                    IF commit[a] = "linked" THEN "ok" ELSE "failed"]
    /\ temps' = temps \ {a}
    /\ UNCHANGED <<spool, published, rejected, ing, outbox, faults>>

\* The producer is killed: its trap does not run, the temporary stays.
KillCommit(a) ==
    /\ commit[a] \in {"copying", "copied", "linked", "refused"}
    /\ Fault("commit_kill")
    /\ commit' = [commit EXCEPT ![a] = "killed"]
    /\ UNCHANGED <<temps, spool, published, rejected, ing, outbox>>

-----------------------------------------------------------------------------
\* The ingest service.  The copy into temp and its crash leftovers are not
\* state: the temp directory is never scanned and never swept.

\* Mutant: the temporaries are not skipped.
ListingWithTemps == spool \cup temps

\* Spool entries the ingest considers: every name but the temporaries.
Listing == spool

\* systemd starts the oneshot: the path unit, or the restart of a failed run.
\* A run over an empty spool changes nothing and is left out.
StartIngest ==
    /\ ing.pc = "idle"
    /\ spool # {}
    /\ ing' = [ing EXCEPT !.pc = "scan", !.todo = Listing, !.listed = Listing,
                          !.left = FALSE]
    /\ UNCHANGED <<commit, temps, spool, published, rejected, outbox, faults>>

\* A valid entry is copied into temp and linked into main_outbox under a
\* fresh suffix; the spool entry is still there.
PublishLink(a, s) ==
    LET e == [art |-> a, suffix |-> s] IN
    /\ ing.pc = "scan" /\ a \in ing.todo /\ a \notin Oversized
    /\ ~Taken(outbox, e)
    /\ \/ ~Taken(channel \cup sent, e) /\ UNCHANGED faults
       \/ Taken(channel \cup sent, e) /\ Fault("suffix_reuse")
    /\ outbox' = outbox \cup {e}
    /\ ing' = [ing EXCEPT !.pc = "linked", !.cur = {a}]
    /\ UNCHANGED <<commit, temps, spool, published, rejected>>

\* The unlink that ends a publication.
PublishUnlink ==
    /\ ing.pc = "linked"
    /\ spool' = spool \ ing.cur
    /\ ing' = [ing EXCEPT !.pc = "scan", !.todo = @ \ ing.cur,
                          !.cur = {}]
    /\ UNCHANGED <<commit, temps, published, rejected, outbox, faults>>

\* The unlink fails after the link: the entry is counted as left behind and
\* the next run publishes it a second time.
PublishUnlinkFails ==
    /\ ing.pc = "linked"
    /\ Fault("ingest_unlink")
    /\ ing' = [ing EXCEPT !.pc = "scan", !.todo = @ \ ing.cur,
                          !.cur = {}, !.left = TRUE]
    /\ UNCHANGED <<commit, temps, spool, published, rejected, outbox>>

\* Mutant: a failed publication is not counted as left behind.
PublishFailsUncounted(a) ==
    /\ ing.pc = "scan" /\ a \in ing.todo /\ a \notin Oversized
    /\ Fault("ingest_copy")
    /\ ing' = [ing EXCEPT !.todo = @ \ {a}]
    /\ UNCHANGED <<commit, temps, spool, published, rejected, outbox>>

\* The copy fails, or QUEUE_LINK_ATTEMPTS suffixes are all taken.
PublishFails(a) ==
    /\ ing.pc = "scan" /\ a \in ing.todo /\ a \notin Oversized
    /\ Fault("ingest_copy")
    /\ ing' = [ing EXCEPT !.todo = @ \ {a}, !.left = TRUE]
    /\ UNCHANGED <<commit, temps, spool, published, rejected, outbox>>

\* An entry over the limit is removed, or left when even that fails.
RejectEntry(a) ==
    /\ ing.pc = "scan" /\ a \in ing.todo /\ a \in Oversized
    /\ \/ /\ spool' = spool \ {a}
          /\ rejected' = rejected \cup {a}
          /\ ing' = [ing EXCEPT !.todo = @ \ {a}]
          /\ UNCHANGED faults
       \/ /\ Fault("ingest_unlink")
          /\ ing' = [ing EXCEPT !.todo = @ \ {a}, !.left = TRUE]
          /\ UNCHANGED <<spool, rejected>>
    /\ UNCHANGED <<commit, temps, published, outbox>>

\* main exits nonzero as soon as one entry was left behind.
ExitCode == IF ing.left THEN 1 ELSE 0

EndIngest ==
    /\ ing.pc = "scan" /\ ing.todo = {}
    /\ ing' = [ing EXCEPT !.pc = "idle", !.listed = {}, !.left = FALSE,
                          !.exit = ExitCode]
    /\ UNCHANGED <<commit, temps, spool, published, rejected, outbox, faults>>

CrashIngest ==
    /\ ing.pc # "idle"
    /\ Fault("ingest_crash")
    /\ ing' = [ing EXCEPT !.pc = "idle", !.todo = {}, !.listed = {},
                          !.cur = {}, !.left = FALSE, !.exit = 1]
    /\ UNCHANGED <<commit, temps, spool, published, rejected, outbox>>

-----------------------------------------------------------------------------
Commit(a) ==
    \/ BeginCommit(a)
    \/ CopySource(a)
    \/ LinkSpool(a)
    \/ EndCommit(a)
    \/ KillCommit(a)

Ingest ==
    \/ StartIngest
    \/ \E a \in Artifacts, s \in Suffixes : PublishLink(a, s)
    \/ PublishUnlink
    \/ PublishUnlinkFails
    \/ \E a \in Artifacts : PublishFails(a) \/ RejectEntry(a)
    \/ EndIngest
    \/ CrashIngest

SpoolNext ==
    /\ Ingest \/ \E a \in Artifacts : Commit(a)
    /\ UNCHANGED sendVars

=============================================================================

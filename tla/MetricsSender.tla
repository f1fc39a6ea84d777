--------------------------- MODULE MetricsSender ----------------------------
(* The service loop of the System Metrics queue (metrics.py): each cycle     *)
(* dispatches main_outbox into the channel queue and drains the channel into *)
(* the web app (metrics_send.py), then sleeps.  One failed cycle puts the    *)
(* loop into the retry mode, which sends one random entry per cycle.         *)
EXTENDS MetricsState

-----------------------------------------------------------------------------
\* The dispatcher, dispatch_entries.

StartCycle ==
    /\ snd.pc = "sleep"
    /\ snd' = [snd EXCEPT !.pc = "dispatch", !.todo = outbox]
    /\ UNCHANGED <<outbox, channel, sent, vaultOpen, received, faults>>

\* os.link into the channel queue: refused when the path is taken there.
DispatchLink(e) ==
    /\ snd.pc = "dispatch" /\ e \in snd.todo
    /\ ~Taken(channel, e)
    /\ channel' = channel \cup {e}
    /\ snd' = [snd EXCEPT !.pc = "linked", !.cur = {e}]
    /\ UNCHANGED <<outbox, sent, vaultOpen, received, faults>>

\* Mutant: the for-else is lost, and the name leaves main_outbox unlinked.
DispatchLinkFailsUnlinks(e) ==
    /\ snd.pc = "dispatch" /\ e \in snd.todo
    /\ \/ Taken(channel, e) /\ UNCHANGED faults
       \/ ~Taken(channel, e) /\ Fault("dispatch_link")
    /\ outbox' = outbox \ {e}
    /\ snd' = [snd EXCEPT !.todo = @ \ {e}, !.problem = TRUE]
    /\ UNCHANGED <<channel, sent, vaultOpen, received>>

\* A refused or failed link keeps the entry and makes the cycle a problem.
DispatchLinkFails(e) ==
    /\ snd.pc = "dispatch" /\ e \in snd.todo
    /\ \/ Taken(channel, e) /\ UNCHANGED faults
       \/ ~Taken(channel, e) /\ Fault("dispatch_link")
    /\ snd' = [snd EXCEPT !.todo = @ \ {e}, !.problem = TRUE]
    /\ UNCHANGED <<outbox, channel, sent, vaultOpen, received>>

DispatchUnlink ==
    /\ snd.pc = "linked"
    /\ outbox' = outbox \ snd.cur
    /\ snd' = [snd EXCEPT !.pc = "dispatch", !.todo = @ \ snd.cur,
                          !.cur = {}]
    /\ UNCHANGED <<channel, sent, vaultOpen, received, faults>>

\* What the loop concludes from a cycle: a problem, or attempts without one
\* stored entry, starts or keeps the retry mode; anything else ends it.
NextRetry(problem, attempted, stored) == problem \/ (attempted /\ ~stored)

Sleep(problem) ==
    snd' = [snd EXCEPT !.pc = "sleep", !.todo = {}, !.cur = {},
               !.problem = FALSE, !.attempted = FALSE, !.stored = FALSE,
               !.retry = NextRetry(problem, snd.attempted, snd.stored)]

\* The unlink raises: the exception ends the cycle as a problem.
DispatchUnlinkFails ==
    /\ snd.pc = "linked"
    /\ Fault("dispatch_unlink")
    /\ Sleep(TRUE)
    /\ UNCHANGED <<outbox, channel, sent, vaultOpen, received>>

\* A problem of the dispatch ends the cycle before anything is sent.
DispatchProblem ==
    /\ snd.pc = "dispatch" /\ snd.todo = {} /\ snd.problem
    /\ Sleep(TRUE)
    /\ UNCHANGED <<outbox, channel, sent, vaultOpen, received, faults>>

-----------------------------------------------------------------------------
\* The channel sender, send_google_queue.

\* Mutant: the retry mode takes the oldest entry.
BatchesOldest ==
    IF snd.retry
      THEN {{e} : e \in {f \in channel : \A g \in channel : f.art <= g.art}}
      ELSE {channel}

\* What one cycle sends: everything, or one random entry in the retry mode.
Batches == IF snd.retry THEN {{e} : e \in channel} ELSE {channel}

StartSend(batch) ==
    /\ snd.pc = "dispatch" /\ snd.todo = {} /\ ~snd.problem
    /\ channel # {} /\ vaultOpen
    /\ batch \in Batches
    /\ snd' = [snd EXCEPT !.pc = "send", !.todo = batch]
    /\ UNCHANGED <<outbox, channel, sent, vaultOpen, received, faults>>

\* Nothing to send is a good cycle; a closed vault is a problem.
NothingSent ==
    /\ snd.pc = "dispatch" /\ snd.todo = {} /\ ~snd.problem
    /\ \/ channel = {} /\ Sleep(FALSE)
       \/ channel # {} /\ ~vaultOpen /\ Sleep(TRUE)
    /\ UNCHANGED <<outbox, channel, sent, vaultOpen, received, faults>>

\* oldest_first: the entry with the earliest commit time.
NextToSend(e) ==
    /\ snd.pc = "send" /\ e \in snd.todo
    /\ \A f \in snd.todo : e.art <= f.art

\* curl ends with an OK answer: the web app has stored the file.
UploadOk(e) ==
    /\ NextToSend(e)
    /\ e.art \notin Poison
    /\ received' = [received EXCEPT ![e.art] = @ + 1]
    /\ snd' = [snd EXCEPT !.pc = "archive", !.cur = {e}, !.attempted = TRUE]
    /\ UNCHANGED <<outbox, channel, sent, vaultOpen, faults>>

\* Mutant: any answer archives the entry.
UploadFailsArchives(e) ==
    /\ NextToSend(e)
    /\ snd' = [snd EXCEPT !.pc = "archive", !.cur = {e}, !.attempted = TRUE]
    /\ UNCHANGED <<outbox, channel, sent, vaultOpen, received, faults>>

\* A curl failure, a timeout or another answer: the entry stays.  The
\* request may still have been stored when only its answer was lost.
UploadFails(e) ==
    /\ NextToSend(e)
    /\ \/ UNCHANGED <<received, faults>>
       \/ /\ e.art \notin Poison
          /\ Fault("answer_lost")
          /\ received' = [received EXCEPT ![e.art] = @ + 1]
    /\ snd' = [snd EXCEPT !.todo = @ \ {e}, !.attempted = TRUE]
    /\ UNCHANGED <<outbox, channel, sent, vaultOpen>>

\* Mutant: the entry is copied into main_sent and stays in the channel.
ArchiveCopies ==
    /\ snd.pc = "archive"
    /\ sent' = {f \in sent : ~Taken(snd.cur, f)} \cup snd.cur
    /\ snd' = [snd EXCEPT !.pc = "send", !.todo = @ \ snd.cur,
                          !.cur = {}, !.stored = TRUE]
    /\ UNCHANGED <<outbox, channel, vaultOpen, received, faults>>

\* os.replace into main_sent, which replaces an archived file of that path.
Archive ==
    /\ snd.pc = "archive"
    /\ channel' = channel \ snd.cur
    /\ sent' = {f \in sent : ~Taken(snd.cur, f)} \cup snd.cur
    /\ snd' = [snd EXCEPT !.pc = "send", !.todo = @ \ snd.cur,
                          !.cur = {}, !.stored = TRUE]
    /\ UNCHANGED <<outbox, vaultOpen, received, faults>>

\* The move fails after the upload: the entry is uploaded again later.
ArchiveFails ==
    /\ snd.pc = "archive"
    /\ Fault("archive_move")
    /\ snd' = [snd EXCEPT !.pc = "send", !.todo = @ \ snd.cur,
                          !.cur = {}]
    /\ UNCHANGED <<outbox, channel, sent, vaultOpen, received>>

EndCycle ==
    /\ snd.pc = "send" /\ snd.todo = {}
    /\ Sleep(FALSE)
    /\ UNCHANGED <<outbox, channel, sent, vaultOpen, received, faults>>

-----------------------------------------------------------------------------
\* A kill or a power loss; the mode lives in memory and is lost.  The window
\* between the link and the unlink of the dispatcher is a kind of its own.
CrashSender ==
    /\ snd.pc # "sleep" \/ snd.retry
    /\ IF snd.pc = "linked" THEN Fault("dispatch_crash") ELSE Fault("sender_crash")
    /\ snd' = [snd EXCEPT !.pc = "sleep", !.todo = {}, !.cur = {},
                          !.problem = FALSE, !.attempted = FALSE,
                          !.stored = FALSE, !.retry = FALSE]
    /\ UNCHANGED <<outbox, channel, sent, vaultOpen, received>>

\* The vault or its password goes missing, and a later run repairs it.
VaultCloses ==
    /\ vaultOpen
    /\ Fault("vault_closed")
    /\ vaultOpen' = FALSE
    /\ UNCHANGED <<outbox, channel, sent, snd, received>>

VaultOpens ==
    /\ ~vaultOpen
    /\ vaultOpen' = TRUE
    /\ UNCHANGED <<outbox, channel, sent, snd, received, faults>>

-----------------------------------------------------------------------------
Dispatch ==
    \/ StartCycle
    \/ \E e \in Entry : DispatchLink(e) \/ DispatchLinkFails(e)
    \/ DispatchUnlink
    \/ DispatchUnlinkFails
    \/ DispatchProblem

Send ==
    \/ \E batch \in Batches : StartSend(batch)
    \/ NothingSent
    \/ \E e \in Entry : UploadOk(e) \/ UploadFails(e)
    \/ Archive
    \/ ArchiveFails
    \/ EndCycle

SenderNext ==
    /\ Dispatch \/ Send \/ CrashSender \/ VaultCloses \/ VaultOpens
    /\ UNCHANGED spoolVars

=============================================================================

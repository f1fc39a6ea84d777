------------------------- MODULE MetricsQueueProofs -------------------------
(* Proofs about MetricsQueue, for every set of artifacts, names, suffixes    *)
(* and faults.  TypeInductive gives the types; Inv strengthens the safety    *)
(* properties until they are inductive.                                      *)
EXTENDS MetricsQueue, FiniteSetTheorems, TLAPS

-----------------------------------------------------------------------------
LEMMA FaultIsCounted ==
    ASSUME faults \in Nat, NEW kind, Fault(kind)
    PROVE  faults' \in Nat
BY DEF Fault

LEMMA SpoolKeepsTypes ==
    ASSUME TypeOK, SpoolNext
    PROVE  TypeOK'
<1> USE FaultIsCounted DEF TypeOK, spoolVars, sendVars
<1>1. UNCHANGED sendVars
  BY DEF SpoolNext
<1>2. ASSUME NEW a \in Artifacts, Commit(a) PROVE TypeOK'
  <2>1. CASE BeginCommit(a)
    BY <1>1, <2>1 DEF BeginCommit, CommitState
  <2>2. CASE CopySource(a)
    BY <1>1, <2>2 DEF CopySource, CommitState
  <2>3. CASE LinkSpool(a)
    BY <1>1, <2>3 DEF LinkSpool, CommitState
  <2>4. CASE EndCommit(a)
    BY <1>1, <2>4 DEF EndCommit, CommitState
  <2>5. CASE KillCommit(a)
    BY <1>1, <2>5 DEF KillCommit, CommitState
  <2> QED
    BY <1>2, <2>1, <2>2, <2>3, <2>4, <2>5 DEF Commit
<1>3. CASE Ingest
  <2>1. CASE StartIngest
    <3>1. ing' \in IngestState
      BY <2>1 DEF StartIngest, Listing, IngestState
    <3> QED
      BY <1>1, <2>1, <3>1 DEF StartIngest, Listing
  <2>2. ASSUME NEW a \in Artifacts, NEW s \in Suffixes, PublishLink(a, s)
        PROVE  TypeOK'
    <3>1. ing' \in IngestState
      BY <2>2 DEF PublishLink, Entry, IngestState
    <3> QED
      BY <1>1, <2>2, <3>1 DEF PublishLink, Entry
  <2>3. CASE PublishUnlink
    <3>1. ing' \in IngestState
      BY <2>3 DEF PublishUnlink, IngestState
    <3> QED
      BY <1>1, <2>3, <3>1 DEF PublishUnlink
  <2>4. CASE PublishUnlinkFails
    <3>1. ing' \in IngestState
      BY <2>4 DEF PublishUnlinkFails, IngestState
    <3> QED
      BY <1>1, <2>4, <3>1 DEF PublishUnlinkFails
  <2>5. ASSUME NEW a \in Artifacts, PublishFails(a) PROVE TypeOK'
    <3>1. ing' \in IngestState
      BY <2>5 DEF PublishFails, IngestState
    <3> QED
      BY <1>1, <2>5, <3>1 DEF PublishFails
  <2>6. ASSUME NEW a \in Artifacts, RejectEntry(a) PROVE TypeOK'
    <3>1. ing' \in IngestState
      BY <2>6 DEF RejectEntry, IngestState
    <3> QED
      BY <1>1, <2>6, <3>1 DEF RejectEntry
  <2>7. CASE EndIngest
    <3>1. ing' \in IngestState
      BY <2>7 DEF EndIngest, ExitCode, IngestState
    <3> QED
      BY <1>1, <2>7, <3>1 DEF EndIngest, ExitCode
  <2>8. CASE CrashIngest
    <3>1. ing' \in IngestState
      BY <2>8 DEF CrashIngest, IngestState
    <3> QED
      BY <1>1, <2>8, <3>1 DEF CrashIngest
  <2> QED
    BY <1>3, <2>1, <2>2, <2>3, <2>4, <2>5, <2>6, <2>7, <2>8 DEF Ingest
<1> QED
  BY <1>2, <1>3 DEF SpoolNext

LEMMA SenderKeepsTypes ==
    ASSUME TypeOK, SenderNext
    PROVE  TypeOK'
<1> USE FaultIsCounted DEF TypeOK, spoolVars, sendVars
<1>1. UNCHANGED spoolVars
  BY DEF SenderNext
<1>2. CASE Dispatch
  <2>1. CASE StartCycle
    <3>1. snd' \in SenderState
      BY <2>1 DEF StartCycle, SenderState
    <3> QED
      BY <1>1, <2>1, <3>1 DEF StartCycle
  <2>2. ASSUME NEW e \in Entry, DispatchLink(e) PROVE TypeOK'
    <3>1. snd' \in SenderState
      BY <2>2 DEF DispatchLink, SenderState
    <3> QED
      BY <1>1, <2>2, <3>1 DEF DispatchLink
  <2>3. ASSUME NEW e \in Entry, DispatchLinkFails(e) PROVE TypeOK'
    <3>1. snd' \in SenderState
      BY <2>3 DEF DispatchLinkFails, SenderState
    <3> QED
      BY <1>1, <2>3, <3>1 DEF DispatchLinkFails
  <2>4. CASE DispatchUnlink
    <3>1. snd' \in SenderState
      BY <2>4 DEF DispatchUnlink, SenderState
    <3> QED
      BY <1>1, <2>4, <3>1 DEF DispatchUnlink
  <2>5. CASE DispatchUnlinkFails
    <3>1. snd' \in SenderState
      BY <2>5 DEF DispatchUnlinkFails, SenderState, Sleep, NextRetry
    <3> QED
      BY <1>1, <2>5, <3>1 DEF DispatchUnlinkFails
  <2>6. CASE DispatchProblem
    <3>1. snd' \in SenderState
      BY <2>6 DEF DispatchProblem, SenderState, Sleep, NextRetry
    <3> QED
      BY <1>1, <2>6, <3>1 DEF DispatchProblem
  <2> QED
    BY <1>2, <2>1, <2>2, <2>3, <2>4, <2>5, <2>6 DEF Dispatch
<1>3. CASE Send
  <2>1. ASSUME NEW batch \in Batches, StartSend(batch) PROVE TypeOK'
    <3>1. batch \in SUBSET Entry
      BY <2>1 DEF Batches
    <3>2. snd' \in SenderState
      BY <2>1, <3>1 DEF StartSend, SenderState
    <3> QED
      BY <1>1, <2>1, <3>2 DEF StartSend
  <2>2. CASE NothingSent
    <3>1. snd' \in SenderState
      BY <2>2 DEF NothingSent, SenderState, Sleep, NextRetry
    <3> QED
      BY <1>1, <2>2, <3>1 DEF NothingSent
  <2>3. ASSUME NEW e \in Entry, UploadOk(e) PROVE TypeOK'
    <3>1. snd' \in SenderState
      BY <2>3 DEF UploadOk, NextToSend, Entry, SenderState
    <3> QED
      BY <1>1, <2>3, <3>1 DEF UploadOk, NextToSend, Entry
  <2>4. ASSUME NEW e \in Entry, UploadFails(e) PROVE TypeOK'
    <3>1. snd' \in SenderState
      BY <2>4 DEF UploadFails, NextToSend, Entry, SenderState
    <3> QED
      BY <1>1, <2>4, <3>1 DEF UploadFails, NextToSend, Entry
  <2>5. CASE Archive
    <3>1. snd' \in SenderState
      BY <2>5 DEF Archive, SenderState
    <3>2. channel' \subseteq Entry /\ sent' \subseteq Entry
      BY <2>5 DEF Archive, SenderState
    <3> QED
      BY <1>1, <2>5, <3>1, <3>2 DEF Archive
  <2>6. CASE ArchiveFails
    <3>1. snd' \in SenderState
      BY <2>6 DEF ArchiveFails, SenderState
    <3> QED
      BY <1>1, <2>6, <3>1 DEF ArchiveFails
  <2>7. CASE EndCycle
    <3>1. snd' \in SenderState
      BY <2>7 DEF EndCycle, SenderState, Sleep, NextRetry
    <3> QED
      BY <1>1, <2>7, <3>1 DEF EndCycle
  <2> QED
    BY <1>3, <2>1, <2>2, <2>3, <2>4, <2>5, <2>6, <2>7 DEF Send
<1>4. CASE CrashSender
  <2>1. snd' \in SenderState
    BY <1>4 DEF CrashSender, SenderState, Sleep, NextRetry
  <2> QED
    BY <1>1, <1>4, <2>1 DEF CrashSender
<1>5. CASE VaultCloses
  BY <1>1, <1>5 DEF VaultCloses
<1>6. CASE VaultOpens
  BY <1>1, <1>6 DEF VaultOpens
<1> QED
  BY <1>2, <1>3, <1>4, <1>5, <1>6 DEF SenderNext

\* Every state of the queue has its type: three programs and their faults
\* leave the directories and their own records well formed.
THEOREM TypeCorrect == Spec => []TypeOK
<1>1. Init => TypeOK
  BY DEF Init, TypeOK, CommitState, IngestState, SenderState
<1>2. TypeOK /\ [Next]_vars => TypeOK'
  <2> SUFFICES ASSUME TypeOK, [Next]_vars PROVE TypeOK'
    OBVIOUS
  <2>1. CASE UNCHANGED vars
    BY <2>1 DEF TypeOK, vars, spoolVars, sendVars
  <2> QED
    BY <2>1, SpoolKeepsTypes, SenderKeepsTypes DEF Next
<1> QED
  BY <1>1, <1>2, PTL DEF Spec

-----------------------------------------------------------------------------
\* No step of the intake takes an artifact out of the queue.
LEMMA SpoolKeepsHeld ==
    ASSUME SpoolNext, NEW a, Held(a)
    PROVE  Held(a)'
<1>1. outbox \subseteq outbox' /\ UNCHANGED <<channel, received>>
  BY DEF SpoolNext, Commit, Ingest, sendVars, BeginCommit, CopySource, LinkSpool,
         EndCommit, KillCommit, StartIngest, PublishLink, PublishUnlink,
         PublishUnlinkFails, PublishFails, RejectEntry, EndIngest, CrashIngest
<1> QED
  BY <1>1 DEF Held

\* The steps of the commit command.
LEMMA CommitKeepsInv ==
    ASSUME TypeOK, QueueInv, SpoolNext, NEW a \in Artifacts, Commit(a)
    PROVE  QueueInv'
<1> USE DEF QueueInv
<1>1. UNCHANGED <<outbox, channel, sent, snd, received, ing, rejected>>
  BY DEF SpoolNext, sendVars, Commit, BeginCommit, CopySource, LinkSpool,
         EndCommit, KillCommit
<1>2. \A b : Held(b) => Held(b)'
  BY SpoolKeepsHeld
<1>3. CASE LinkSpool(a) /\ ~NamePending(a)
  <2>1. /\ commit' = [commit EXCEPT ![a] = "linked"]
        /\ spool' = spool \cup {a}
        /\ published' = published \cup {a}
        /\ a \notin published
    BY <1>3 DEF LinkSpool, HistoryInv
  <2>2. NoArtifactLost'
    BY <1>1, <1>2, <2>1 DEF NoArtifactLost
  <2>3. OnlyPublishedQueued' /\ ArchivedWasReceived'
    BY <1>1, <2>1 DEF OnlyPublishedQueued, ArchivedWasReceived, Queued
  <2>4. HistoryInv'
    BY <1>1, <2>1 DEF HistoryInv, Known, TypeOK
  <2>5. IngestInv'
    BY <1>1, <1>2, <2>1 DEF IngestInv, Known
  <2>6. SenderInv'
    BY <1>1, <2>1 DEF SenderInv, Known
  <2> QED
    BY <2>2, <2>3, <2>4, <2>5, <2>6
<1>4. CASE ~(LinkSpool(a) /\ ~NamePending(a))
  <2>1. UNCHANGED <<spool, published>>
    BY <1>4 DEF Commit, BeginCommit, CopySource, LinkSpool, EndCommit, KillCommit
  <2>2. a \in published => commit'[a] \in {"linked", "ok", "killed"}
    BY <1>4 DEF Commit, BeginCommit, CopySource, LinkSpool, EndCommit, KillCommit,
                HistoryInv, TypeOK
  <2>3. \A b \in Artifacts \ {a} : commit'[b] = commit[b]
    BY DEF Commit, BeginCommit, CopySource, LinkSpool, EndCommit, KillCommit, TypeOK
  <2>4. HistoryInv'
    BY <1>1, <2>1, <2>2, <2>3 DEF HistoryInv, Known, TypeOK
  <2> QED
    BY <1>1, <1>2, <2>1, <2>4 DEF NoArtifactLost, OnlyPublishedQueued, Queued,
       ArchivedWasReceived, IngestInv, SenderInv, Known
<1> QED
  BY <1>3, <1>4

\* The steps of the ingest service.
LEMMA IngestKeepsInv ==
    ASSUME TypeOK, QueueInv, SpoolNext, Ingest
    PROVE  QueueInv'
<1> USE DEF QueueInv
<1>1. UNCHANGED <<channel, sent, snd, received, published, commit>>
  BY DEF SpoolNext, sendVars, Ingest, StartIngest, PublishLink, PublishUnlink,
         PublishUnlinkFails, PublishFails, RejectEntry, EndIngest, CrashIngest
<1>2. \A b : Held(b) => Held(b)'
  BY SpoolKeepsHeld
<1>3. SenderInv' /\ ArchivedWasReceived'
  BY <1>1 DEF SenderInv, ArchivedWasReceived, Known
<1>4. ASSUME NEW a \in Artifacts, NEW s \in Suffixes, PublishLink(a, s)
      PROVE  QueueInv'
  <2>1. /\ outbox' = outbox \cup {[art |-> a, suffix |-> s]}
        /\ UNCHANGED <<spool, rejected>>
        /\ a \in Known /\ a \in ing.todo
    BY <1>4 DEF PublishLink, IngestInv, Known
  <2>2. ing' = [ing EXCEPT !.pc = "linked", !.cur = {a}]
    BY <1>4 DEF PublishLink
  <2>3. Held(a)'
    <3>1. [art |-> a, suffix |-> s] \in (outbox \cup channel)'
      BY <2>1
    <3> QED
      BY <3>1 DEF Held
  <2>4. IngestInv'
    BY <1>1, <2>1, <2>2, <2>3 DEF IngestInv, Known, TypeOK, IngestState
  <2>5. OnlyPublishedQueued'
    BY <1>1, <2>1 DEF OnlyPublishedQueued, Queued, Known
  <2> QED
    BY <1>1, <1>2, <1>3, <2>1, <2>4, <2>5 DEF NoArtifactLost, HistoryInv, Known
<1>5. CASE PublishUnlink
  <2>1. /\ spool' = spool \ ing.cur
        /\ ing' = [ing EXCEPT !.pc = "scan", !.todo = ing.todo \ ing.cur,
                              !.cur = {}]
        /\ UNCHANGED <<outbox, rejected>>
        /\ ing.pc = "linked"
    BY <1>5 DEF PublishUnlink
  <2>2. NoArtifactLost'
    BY <1>1, <1>2, <2>1 DEF NoArtifactLost, IngestInv
  <2>3. IngestInv'
    BY <1>1, <2>1 DEF IngestInv, Known, TypeOK, IngestState
  <2> QED
    BY <1>1, <1>3, <2>1, <2>2, <2>3 DEF OnlyPublishedQueued, Queued, HistoryInv, Known
<1>6. ASSUME NEW a \in Artifacts, RejectEntry(a)
      PROVE  QueueInv'
  <2>1. /\ UNCHANGED outbox
        /\ \/ spool' = spool \ {a} /\ rejected' = rejected \cup {a}
              /\ ing' = [ing EXCEPT !.todo = ing.todo \ {a}]
           \/ UNCHANGED <<spool, rejected>>
              /\ ing' = [ing EXCEPT !.todo = ing.todo \ {a}, !.left = TRUE]
        /\ a \in Oversized /\ a \in published /\ ing.pc = "scan"
    BY <1>6 DEF RejectEntry, IngestInv
  <2>2. NoArtifactLost'
    BY <1>1, <1>2, <2>1 DEF NoArtifactLost
  <2>3. IngestInv'
    BY <1>1, <2>1, ZenonT(60) DEF IngestInv, Known, TypeOK, IngestState
  <2> QED
    BY <1>1, <1>3, <2>1, <2>2, <2>3 DEF OnlyPublishedQueued, Queued, HistoryInv, Known
<1>7. CASE \/ StartIngest \/ PublishUnlinkFails \/ EndIngest \/ CrashIngest
           \/ \E a \in Artifacts : PublishFails(a)
  <2>1. UNCHANGED <<outbox, spool, rejected>>
    BY <1>7 DEF StartIngest, PublishUnlinkFails, EndIngest, CrashIngest, PublishFails
  <2>2. IngestInv'
    <3>1. CASE StartIngest
      BY <1>1, <2>1, <3>1
         DEF StartIngest, Listing, IngestInv, HistoryInv, Known, TypeOK, IngestState
    <3>2. CASE PublishUnlinkFails
      BY <1>1, <2>1, <3>2 DEF PublishUnlinkFails, IngestInv, Known, TypeOK, IngestState
    <3>3. CASE EndIngest
      BY <1>1, <2>1, <3>3 DEF EndIngest, IngestInv, Known, TypeOK, IngestState
    <3>4. CASE CrashIngest
      BY <1>1, <2>1, <3>4 DEF CrashIngest, IngestInv, Known, TypeOK, IngestState
    <3>5. ASSUME NEW a \in Artifacts, PublishFails(a) PROVE IngestInv'
      BY <1>1, <2>1, <3>5 DEF PublishFails, IngestInv, Known, TypeOK, IngestState
    <3> QED
      BY <1>7, <3>1, <3>2, <3>3, <3>4, <3>5
  <2> QED
    BY <1>1, <1>2, <1>3, <2>1, <2>2 DEF NoArtifactLost, OnlyPublishedQueued,
       Queued, HistoryInv, Known
<1> QED
  BY <1>4, <1>5, <1>6, <1>7 DEF Ingest

-----------------------------------------------------------------------------
\* No step of the service loop loses the last copy of an artifact: a dispatch
\* removes a name that is linked into the channel, and an entry leaves the
\* channel only when the web app has stored it.
LEMMA SenderKeepsHeld ==
    ASSUME TypeOK, QueueInv, SenderNext
    PROVE  \A a \in Artifacts : Held(a) => Held(a)'
<1> SUFFICES ASSUME NEW a \in Artifacts, Held(a) PROVE Held(a)'
  OBVIOUS
<1> USE DEF QueueInv
<1>1. CASE UNCHANGED <<outbox, received>> /\ channel \subseteq channel'
  BY <1>1 DEF Held
<1>2. CASE DispatchUnlink
  BY <1>2 DEF DispatchUnlink, SenderInv, Held
<1>3. CASE Archive
  <2>1. \A e \in snd.cur : received[e.art] > 0
    BY <1>3 DEF Archive, SenderInv
  <2> QED
    BY <1>3, <2>1 DEF Archive, Held
<1>4. CASE \E e \in Entry : UploadOk(e) \/ UploadFails(e)
  <2>1. UNCHANGED <<outbox, channel>> /\ received'[a] >= received[a]
    BY <1>4 DEF UploadOk, UploadFails, TypeOK
  <2>2. received[a] \in Nat /\ received'[a] \in Nat
    BY SenderKeepsTypes DEF TypeOK
  <2> QED
    BY <2>1, <2>2 DEF Held
<1> QED
  BY <1>1, <1>2, <1>3, <1>4
     DEF SenderNext, Dispatch, Send, StartCycle, DispatchLink, DispatchLinkFails,
         DispatchUnlinkFails, DispatchProblem, StartSend, NothingSent,
         ArchiveFails, EndCycle, CrashSender, VaultCloses, VaultOpens

\* What the loop works on, and what it sends and archives, is published.
LEMMA SenderKeepsOwn ==
    ASSUME TypeOK, QueueInv, SenderNext
    PROVE  OnlyPublishedQueued' /\ SenderInv'
<1> USE DEF QueueInv
<1>1. UNCHANGED <<published, spool, rejected, ing, commit>> /\ Known' = Known
  BY DEF SenderNext, spoolVars, Known
<1>2. \A e \in Queued : e.art \in Known
  BY DEF OnlyPublishedQueued, Known
<1>3. CASE StartCycle
  BY <1>1, <1>2, <1>3 DEF StartCycle, SenderInv, OnlyPublishedQueued, Queued, Known,
     TypeOK, SenderState
<1>4. ASSUME NEW e \in Entry, DispatchLink(e) PROVE OnlyPublishedQueued' /\ SenderInv'
  BY <1>1, <1>2, <1>4 DEF DispatchLink, SenderInv, OnlyPublishedQueued, Queued, Known,
     TypeOK, SenderState
<1>5. ASSUME NEW e \in Entry, DispatchLinkFails(e)
      PROVE  OnlyPublishedQueued' /\ SenderInv'
  BY <1>1, <1>2, <1>5 DEF DispatchLinkFails, SenderInv, OnlyPublishedQueued, Queued,
     Known, TypeOK, SenderState
<1>6. CASE DispatchUnlink
  BY <1>1, <1>2, <1>6 DEF DispatchUnlink, SenderInv, OnlyPublishedQueued, Queued,
     Known, TypeOK, SenderState
<1>7. CASE DispatchUnlinkFails \/ DispatchProblem \/ NothingSent \/ EndCycle
  BY <1>1, <1>2, <1>7 DEF DispatchUnlinkFails, DispatchProblem, NothingSent, EndCycle,
     Sleep, SenderInv, OnlyPublishedQueued, Queued, Known, TypeOK, SenderState
<1>8. ASSUME NEW batch \in Batches, StartSend(batch)
      PROVE  OnlyPublishedQueued' /\ SenderInv'
  <2>1. batch \subseteq channel
    BY DEF Batches
  <2> QED
    BY <1>1, <1>2, <1>8, <2>1 DEF StartSend, SenderInv, OnlyPublishedQueued, Queued,
       Known, TypeOK, SenderState
<1>9. ASSUME NEW e \in Entry, UploadOk(e) PROVE OnlyPublishedQueued' /\ SenderInv'
  <2>1. OnlyPublishedQueued'
    BY <1>1, <1>2, <1>9 DEF UploadOk, OnlyPublishedQueued, Queued, Known
  <2>2. received'[e.art] > 0
    BY <1>9 DEF UploadOk, TypeOK, Entry
  <2> QED
    BY <1>1, <1>9, <2>1, <2>2 DEF UploadOk, NextToSend, SenderInv, TypeOK, SenderState
<1>10. ASSUME NEW e \in Entry, UploadFails(e)
       PROVE  OnlyPublishedQueued' /\ SenderInv'
  BY <1>1, <1>2, <1>10 DEF UploadFails, NextToSend, SenderInv, OnlyPublishedQueued,
     Queued, Known, TypeOK, SenderState
<1>11. CASE Archive
  BY <1>1, <1>2, <1>11 DEF Archive, SenderInv, OnlyPublishedQueued, Queued, Known,
     TypeOK, SenderState
<1>12. CASE ArchiveFails \/ CrashSender \/ VaultCloses \/ VaultOpens
  BY <1>1, <1>2, <1>12, ZenonT(60) DEF ArchiveFails, CrashSender, VaultCloses, VaultOpens,
     SenderInv, OnlyPublishedQueued, Queued, Known, TypeOK, SenderState
<1> QED
  BY <1>3, <1>4, <1>5, <1>6, <1>7, <1>8, <1>9, <1>10, <1>11, <1>12
     DEF SenderNext, Dispatch, Send

\* The web app stores only published artifacts, and only what it stored is
\* archived.
LEMMA SenderKeepsReceived ==
    ASSUME TypeOK, QueueInv, SenderNext
    PROVE  /\ ArchivedWasReceived'
           /\ \A a \in Artifacts : received'[a] > 0 => a \in Known
<1> USE DEF QueueInv
<1>1. \A a \in Artifacts : received[a] \in Nat /\ received'[a] \in Nat
  BY SenderKeepsTypes DEF TypeOK
<1>2. CASE UNCHANGED received /\ sent' \subseteq sent
  BY <1>2 DEF ArchivedWasReceived, HistoryInv
<1>3. CASE Archive
  <2>1. UNCHANGED received /\ sent' \subseteq sent \cup snd.cur
    BY <1>3 DEF Archive
  <2> QED
    BY <1>3, <2>1 DEF Archive, ArchivedWasReceived, HistoryInv, SenderInv
<1>4. ASSUME NEW e \in Entry, UploadOk(e) \/ UploadFails(e)
      PROVE  /\ ArchivedWasReceived'
             /\ \A a \in Artifacts : received'[a] > 0 => a \in Known
  <2>1. /\ UNCHANGED sent
        /\ e.art \in Known
        /\ \/ received' = [received EXCEPT ![e.art] = received[e.art] + 1]
           \/ UNCHANGED received
    BY <1>4 DEF UploadOk, UploadFails, NextToSend, SenderInv
  <2>2. \A f \in sent : f.art \in Artifacts
    BY DEF TypeOK, Entry
  <2> QED
    BY <1>1, <2>1, <2>2 DEF ArchivedWasReceived, HistoryInv, TypeOK
<1> QED
  BY <1>2, <1>3, <1>4
     DEF SenderNext, Dispatch, Send, StartCycle, DispatchLink, DispatchLinkFails,
         DispatchUnlink, DispatchUnlinkFails, DispatchProblem, StartSend,
         NothingSent, ArchiveFails, EndCycle, CrashSender, VaultCloses, VaultOpens

LEMMA SenderKeepsInv ==
    ASSUME TypeOK, QueueInv, SenderNext
    PROVE  QueueInv'
<1>1. UNCHANGED <<published, spool, rejected, ing, commit>>
  BY DEF SenderNext, spoolVars
<1>2. \A a \in Artifacts : Held(a) => Held(a)'
  BY SenderKeepsHeld
<1>3. NoArtifactLost'
  BY <1>1, <1>2 DEF QueueInv, NoArtifactLost, TypeOK
<1>4. HistoryInv'
  BY <1>1, SenderKeepsReceived DEF QueueInv, HistoryInv, Known
<1>5. IngestInv'
  BY <1>1, <1>2 DEF QueueInv, IngestInv, Known, TypeOK, IngestState
<1> QED
  BY <1>3, <1>4, <1>5, SenderKeepsOwn, SenderKeepsReceived DEF QueueInv

-----------------------------------------------------------------------------
LEMMA InitInv == Init => QueueInv
  BY DEF Init, QueueInv, NoArtifactLost, OnlyPublishedQueued, Queued,
         ArchivedWasReceived, HistoryInv, IngestInv, SenderInv, Known

LEMMA StepInv == TypeOK /\ QueueInv /\ [Next]_vars => QueueInv'
<1> SUFFICES ASSUME TypeOK, QueueInv, [Next]_vars PROVE QueueInv'
  OBVIOUS
<1>1. CASE UNCHANGED vars
  BY <1>1 DEF vars, spoolVars, sendVars, QueueInv, NoArtifactLost, Held,
     OnlyPublishedQueued, Queued, ArchivedWasReceived, HistoryInv, IngestInv,
     SenderInv, Known
<1>2. CASE SpoolNext
  BY <1>2, CommitKeepsInv, IngestKeepsInv DEF SpoolNext
<1>3. CASE SenderNext
  BY <1>3, SenderKeepsInv
<1> QED
  BY <1>1, <1>2, <1>3 DEF Next

\* The directories, the programs working on them and the history agree in
\* every reachable state.
THEOREM QueueInvariant == Spec => []QueueInv
  BY TypeCorrect, InitInv, StepInv, PTL DEF Spec

\* No artifact whose commit was published is ever lost, for any number of
\* producers, names, suffixes and faults (metrics_commit.py, metrics_send.py).
THEOREM NothingIsLost == Spec => []NoArtifactLost
<1>1. QueueInv => NoArtifactLost
  BY DEF QueueInv
<1> QED
  BY <1>1, QueueInvariant, PTL

\* Temporaries and oversized artifacts never enter the queue.
THEOREM QueueHoldsPublished == Spec => []OnlyPublishedQueued
<1>1. QueueInv => OnlyPublishedQueued
  BY DEF QueueInv
<1> QED
  BY <1>1, QueueInvariant, PTL

\* main_sent holds only artifacts the web app has stored.
THEOREM ArchiveIsTruthful == Spec => []ArchivedWasReceived
<1>1. QueueInv => ArchivedWasReceived
  BY DEF QueueInv
<1> QED
  BY <1>1, QueueInvariant, PTL

-----------------------------------------------------------------------------
\* An ingest run that exits 0 left nothing of what it listed in the spool.
THEOREM CleanExitIsTrue == Spec => CleanExitEmptiedSpool
<1>1. TypeOK /\ QueueInv /\ [Next]_vars =>
        [ing.pc = "scan" /\ ing'.pc = "idle" /\ ing'.exit = 0
           => ing.listed \cap spool' = {}]_vars
  <2> SUFFICES ASSUME TypeOK, QueueInv, Next,
                      ing.pc = "scan", ing'.pc = "idle", ing'.exit = 0
               PROVE  ing.listed \cap spool' = {}
    BY DEF vars, spoolVars, sendVars
  <2>1. EndIngest
    <3>1. ing' # ing
      OBVIOUS
    <3>2. Ingest
      BY <3>1 DEF Next, SpoolNext, SenderNext, spoolVars, Commit, BeginCommit,
         CopySource, LinkSpool, EndCommit, KillCommit
    <3>3. ~StartIngest /\ ~PublishUnlink /\ ~PublishUnlinkFails
      BY DEF StartIngest, PublishUnlink, PublishUnlinkFails
    <3>4. ~\E a \in Artifacts, s \in Suffixes : PublishLink(a, s)
      BY DEF PublishLink, TypeOK, IngestState
    <3>5. ASSUME NEW a \in Artifacts, PublishFails(a) PROVE FALSE
      BY <3>5 DEF PublishFails, TypeOK, IngestState
    <3>6. ASSUME NEW a \in Artifacts, RejectEntry(a) PROVE FALSE
      <4>1. ing'.pc = ing.pc
        BY <3>6 DEF RejectEntry, TypeOK, IngestState
      <4> QED
        BY <4>1
    <3>7. ASSUME CrashIngest PROVE FALSE
      <4>1. ing'.exit = 1
        BY <3>7 DEF CrashIngest, TypeOK, IngestState
      <4> QED
        BY <4>1
    <3> QED
      BY <3>2, <3>3, <3>4, <3>5, <3>6, <3>7 DEF Ingest
  <2>2. UNCHANGED spool /\ ing.todo = {} /\ ~ing.left
    BY <2>1 DEF EndIngest, ExitCode, TypeOK, IngestState
  <2> QED
    BY <2>2 DEF QueueInv, IngestInv
<1> QED
  BY <1>1, TypeCorrect, QueueInvariant, PTL DEF Spec, CleanExitEmptiedSpool

-----------------------------------------------------------------------------
\* The refinement.  In a state of QueueInv the phase of an artifact is
\* decided by the three histories, so a step that changes none of them
\* stutters.
PhaseOfHistory(a) ==
    IF received[a] > 0 THEN "received"
    ELSE IF a \in rejected THEN "rejected"
    ELSE IF a \in published THEN "pending"
    ELSE "none"

LEMMA PhaseIsHistory ==
    TypeOK /\ QueueInv =>
      \A a \in Artifacts : PhaseOf(a) = PhaseOfHistory(a)
<1> SUFFICES ASSUME TypeOK, QueueInv, NEW a \in Artifacts
             PROVE  PhaseOf(a) = PhaseOfHistory(a)
  OBVIOUS
<1>1. a \in spool \/ Held(a) => received[a] > 0 \/ a \in published
  BY DEF Held, QueueInv, HistoryInv, OnlyPublishedQueued, Queued
<1>2. a \in published => a \in spool \/ Held(a) \/ a \in rejected
  BY DEF QueueInv, NoArtifactLost
<1> QED
  BY <1>1, <1>2 DEF PhaseOf, PhaseOfHistory

LEMMA InitImplements == Init => Delivery!Init
<1> SUFFICES ASSUME Init, NEW a \in Artifacts PROVE PhaseOf(a) = "none"
  BY DEF Delivery!Init
<1> QED
  BY DEF Init, PhaseOf, Held

PhaseMap == [a \in Artifacts |-> PhaseOf(a)]

\* A step that moves one artifact maps to a step of that artifact.
LEMMA OnePhaseChanges ==
    ASSUME NEW a \in Artifacts,
           \A b \in Artifacts \ {a} : PhaseOf(b)' = PhaseOf(b)
    PROVE  PhaseMap' = [PhaseMap EXCEPT ![a] = PhaseOf(a)']
BY DEF PhaseMap

\* What a step does to the phases, read off the histories.
LEMMA PhasesFollowHistory ==
    TypeOK /\ QueueInv /\ [Next]_vars =>
      \A a \in Artifacts : /\ PhaseOf(a) = PhaseOfHistory(a)
                          /\ PhaseOf(a)' = PhaseOfHistory(a)'
<1>1. TypeOK /\ [Next]_vars => TypeOK'
  BY SpoolKeepsTypes, SenderKeepsTypes DEF Next, TypeOK, vars, spoolVars, sendVars
<1>2. (TypeOK /\ QueueInv)' =>
        \A a \in Artifacts : PhaseOf(a)' = PhaseOfHistory(a)'
  <2>1. (TypeOK /\ QueueInv)' =>
          (\A a \in Artifacts : PhaseOf(a) = PhaseOfHistory(a))'
    BY PhaseIsHistory, PTL
  <2> QED
    BY <2>1
<1> QED
  BY <1>1, <1>2, StepInv, PhaseIsHistory

LEMMA StepImplements ==
    ASSUME TypeOK, QueueInv, Next
    PROVE  [Delivery!Next]_PhaseMap
<1>1. \A a \in Artifacts : /\ PhaseOf(a) = PhaseOfHistory(a)
                          /\ PhaseOf(a)' = PhaseOfHistory(a)'
  BY PhasesFollowHistory
<1>2. CASE UNCHANGED <<received, rejected, published>>
  BY <1>1, <1>2 DEF PhaseMap, PhaseOfHistory
<1>3. ASSUME NEW a \in Artifacts, LinkSpool(a), ~NamePending(a), UNCHANGED sendVars
      PROVE  Delivery!Accept(a)
  <2>1. /\ published' = published \cup {a}
        /\ UNCHANGED <<received, rejected>>
        /\ a \notin published
    BY <1>3 DEF LinkSpool, sendVars, QueueInv, HistoryInv
  <2>2. PhaseOf(a) = "none" /\ PhaseOf(a)' = "pending"
    BY <1>1, <2>1 DEF PhaseOfHistory, QueueInv, HistoryInv, Known
  <2>3. \A b \in Artifacts \ {a} : PhaseOf(b)' = PhaseOf(b)
    BY <1>1, <2>1 DEF PhaseOfHistory
  <2> QED
    BY <2>2, <2>3, OnePhaseChanges DEF Delivery!Accept, PhaseMap
<1>4. ASSUME NEW a \in Artifacts, RejectEntry(a), UNCHANGED sendVars,
             rejected' = rejected \cup {a}
      PROVE  Delivery!Reject(a) \/ PhaseMap' = PhaseMap
  <2>1. /\ rejected' = rejected \cup {a}
        /\ UNCHANGED <<received, published>>
        /\ a \in Oversized /\ a \in published
    BY <1>4 DEF RejectEntry, sendVars, QueueInv, IngestInv
  <2>2. \A b \in Artifacts \ {a} : PhaseOf(b)' = PhaseOf(b)
    BY <1>1, <2>1 DEF PhaseOfHistory
  <2>3. ~(received[a] > 0)
    BY <2>1 DEF QueueInv, HistoryInv, Known
  <2>4. CASE a \in rejected
    BY <1>1, <2>1, <2>4 DEF PhaseMap, PhaseOfHistory
  <2>5. CASE a \notin rejected
    <3>1. PhaseOf(a) = "pending" /\ PhaseOf(a)' = "rejected"
      BY <1>1, <2>1, <2>3, <2>5 DEF PhaseOfHistory
    <3> QED
      BY <2>1, <2>2, <3>1, OnePhaseChanges DEF Delivery!Reject, PhaseMap
  <2> QED
    BY <2>4, <2>5
<1>5. ASSUME NEW e \in Entry, UploadOk(e) \/ UploadFails(e), UNCHANGED spoolVars,
             received' = [received EXCEPT ![e.art] = received[e.art] + 1]
      PROVE  Delivery!Deliver(e.art) \/ PhaseMap' = PhaseMap
  <2>1. UNCHANGED <<rejected, published>> /\ e.art \in Artifacts
    BY <1>5 DEF spoolVars, Entry
  <2>2. e.art \in Known /\ e.art \notin rejected
    BY <1>5 DEF UploadOk, UploadFails, NextToSend, QueueInv, SenderInv, HistoryInv, Known
  <2>3. received'[e.art] > 0 /\ \A b \in Artifacts \ {e.art} : received'[b] = received[b]
    BY <1>5, <2>1 DEF TypeOK
  <2>4. \A b \in Artifacts \ {e.art} : PhaseOf(b)' = PhaseOf(b)
    BY <1>1, <2>1, <2>3 DEF PhaseOfHistory
  <2>5. PhaseOf(e.art)' = "received"
    BY <1>1, <2>1, <2>3 DEF PhaseOfHistory
  <2>6. CASE received[e.art] > 0
    <3>1. PhaseOf(e.art) = "received"
      BY <1>1, <2>1, <2>6 DEF PhaseOfHistory
    <3> QED
      BY <2>4, <2>5, <3>1 DEF PhaseMap
  <2>7. CASE ~(received[e.art] > 0)
    <3>1. PhaseOf(e.art) = "pending"
      BY <1>1, <2>1, <2>2, <2>7 DEF PhaseOfHistory, Known
    <3> QED
      BY <2>1, <2>2, <2>4, <2>5, <3>1, OnePhaseChanges
         DEF Delivery!Deliver, PhaseMap, Known
  <2> QED
    BY <2>6, <2>7
<1>6. CASE SpoolNext
  <2>1. UNCHANGED sendVars
    BY <1>6 DEF SpoolNext
  <2>2. CASE UNCHANGED <<rejected, published>>
    BY <1>2, <2>1, <2>2 DEF sendVars
  <2>3. CASE \E a \in Artifacts : LinkSpool(a) /\ ~NamePending(a)
    BY <1>3, <2>1, <2>3 DEF Delivery!Next
  <2>4. CASE \E a \in Artifacts : RejectEntry(a)
    <3>1. PICK a \in Artifacts : RejectEntry(a)
      BY <2>4
    <3> QED
      BY <1>2, <1>4, <2>1, <2>2, <3>1 DEF RejectEntry, Delivery!Next
  <2> QED
    BY <1>6, <2>2, <2>3, <2>4
       DEF SpoolNext, Commit, Ingest, BeginCommit, CopySource, LinkSpool, EndCommit,
           KillCommit, StartIngest, PublishLink, PublishUnlink, PublishUnlinkFails,
           PublishFails, EndIngest, CrashIngest
<1>7. CASE SenderNext
  <2>1. UNCHANGED spoolVars
    BY <1>7 DEF SenderNext
  <2>2. CASE UNCHANGED received
    BY <1>2, <2>1, <2>2 DEF spoolVars
  <2>3. CASE \E e \in Entry :
               /\ UploadOk(e) \/ UploadFails(e)
               /\ received' = [received EXCEPT ![e.art] = received[e.art] + 1]
    BY <1>5, <2>1, <2>3 DEF Delivery!Next, Entry
  <2> QED
    BY <1>7, <2>2, <2>3
       DEF SenderNext, Dispatch, Send, StartCycle, DispatchLink, DispatchLinkFails,
           DispatchUnlink, DispatchUnlinkFails, DispatchProblem, StartSend,
           NothingSent, UploadOk, UploadFails, Archive, ArchiveFails, EndCycle,
           CrashSender, VaultCloses, VaultOpens
<1> QED
  BY <1>6, <1>7 DEF Next

\* The directories implement the promise of MetricsDelivery: every step of
\* every program, and every fault, is one step of one artifact or none.
THEOREM QueueImplementsDelivery == Spec => ImplementsDelivery
<1>1. TypeOK /\ QueueInv /\ [Next]_vars => [Delivery!Next]_PhaseMap
  <2> SUFFICES ASSUME TypeOK, QueueInv, [Next]_vars
               PROVE  [Delivery!Next]_PhaseMap
    OBVIOUS
  <2>1. CASE UNCHANGED vars
    BY <2>1 DEF vars, spoolVars, sendVars, PhaseMap, PhaseOf, Held
  <2> QED
    BY <2>1, StepImplements
<1>2. TypeOK /\ QueueInv /\ [Next]_vars
        => [Delivery!Next]_([a \in Artifacts |-> PhaseOf(a)])
  BY <1>1 DEF PhaseMap
<1> QED
  BY <1>2, InitImplements, TypeCorrect, QueueInvariant, PTL
     DEF Spec, ImplementsDelivery, Delivery!Spec

-----------------------------------------------------------------------------
\* Counting the copies (DuplicatesNeedFaults): what one step does to a finite
\* set is bounded by what it contains afterwards.

LEMMA Contained ==
    ASSUME NEW S, IsFiniteSet(S), NEW T, T \subseteq S
    PROVE  /\ IsFiniteSet(T) /\ Cardinality(T) <= Cardinality(S)
           /\ Cardinality(S) \in Nat /\ Cardinality(T) \in Nat
BY FS_Subset, FS_CardinalityType

LEMMA AddedAtMost ==
    ASSUME NEW S, IsFiniteSet(S), NEW x, NEW T, T \subseteq S \cup {x}
    PROVE  /\ IsFiniteSet(T) /\ Cardinality(T) <= Cardinality(S) + 1
           /\ Cardinality(S) \in Nat /\ Cardinality(T) \in Nat
<1>1. /\ IsFiniteSet(S \cup {x}) /\ Cardinality(S \cup {x}) <= Cardinality(S) + 1
      /\ Cardinality(S) \in Nat
  BY FS_AddElement, FS_CardinalityType
<1>2. /\ IsFiniteSet(T) /\ Cardinality(T) <= Cardinality(S \cup {x})
      /\ Cardinality(T) \in Nat /\ Cardinality(S \cup {x}) \in Nat
  BY <1>1, Contained
<1> QED
  BY <1>1, <1>2

LEMMA Added ==
    ASSUME NEW S, IsFiniteSet(S), NEW x, x \notin S
    PROVE  IsFiniteSet(S \cup {x}) /\ Cardinality(S \cup {x}) = Cardinality(S) + 1
BY FS_AddElement

LEMMA TakenOut ==
    ASSUME NEW S, IsFiniteSet(S), NEW x \in S, NEW T, T \subseteq S \ {x}
    PROVE  /\ IsFiniteSet(T) /\ Cardinality(T) <= Cardinality(S) - 1
           /\ Cardinality(S) \in Nat /\ Cardinality(T) \in Nat
<1>1. /\ IsFiniteSet(S \ {x}) /\ Cardinality(S \ {x}) = Cardinality(S) - 1
      /\ Cardinality(S) \in Nat
  BY FS_RemoveElement, FS_CardinalityType
<1>2. /\ IsFiniteSet(T) /\ Cardinality(T) <= Cardinality(S \ {x})
      /\ Cardinality(T) \in Nat /\ Cardinality(S \ {x}) \in Nat
  BY <1>1, Contained
<1> QED
  BY <1>1, <1>2

\* The cardinalities of the sets in an inequality are numbers.
LEMMA CountsAreNumbers ==
    ASSUME FiniteInv
    PROVE  /\ Cardinality(published) \in Nat /\ Cardinality(rejected) \in Nat
           /\ Cardinality(Delivered) \in Nat /\ Cardinality(Repeats) \in Nat
           /\ Cardinality(InSpool) \in Nat /\ Cardinality(InOutbox) \in Nat
           /\ Cardinality(InChannel) \in Nat
BY FS_CardinalityType DEF FiniteInv

\* The pairs that Repeats collects for one tally of the uploads.
RepeatsOf(count) == UNION {{a} \X (2..count[a]) : a \in Artifacts}

LEMMA RepeatsAre ==
    ASSUME NEW count, NEW x
    PROVE  x \in RepeatsOf(count) <=> \E a \in Artifacts : \E n \in 2..count[a] : x = <<a, n>>
<1>. DEFINE Pairs(a) == {a} \X (2..count[a])
<1>1. x \in RepeatsOf(count) <=> \E a \in Artifacts : x \in Pairs(a)
  <2>. HIDE DEF Pairs
  <2>1. RepeatsOf(count) = UNION {Pairs(a) : a \in Artifacts}
    BY DEF RepeatsOf, Pairs
  <2> QED
    BY <2>1
<1>2. \A a \in Artifacts : x \in {a} \X (2..count[a]) <=> \E n \in 2..count[a] : x = <<a, n>>
  OBVIOUS
<1> QED
  BY <1>1, <1>2

LEMMA RepeatsNow ==
    /\ \A x : x \in Repeats <=> \E b \in Artifacts : \E n \in 2..received[b] : x = <<b, n>>
    /\ \A x : x \in Repeats' <=> \E b \in Artifacts : \E n \in 2..received'[b] : x = <<b, n>>
<1>1. Repeats = RepeatsOf(received) /\ Repeats' = RepeatsOf(received')
  BY DEF Repeats, RepeatsOf
<1>2. \A count, x : x \in RepeatsOf(count) <=>
                      \E b \in Artifacts : \E n \in 2..count[b] : x = <<b, n>>
  BY RepeatsAre
<1> QED
  BY <1>1, <1>2

\* One more upload of an artifact adds at most one element to the two sets
\* together.
LEMMA OneMoreUpload ==
    ASSUME FiniteInv, TypeOK, NEW a \in Artifacts,
           received' = [received EXCEPT ![a] = @ + 1]
    PROVE  /\ IsFiniteSet(Delivered') /\ IsFiniteSet(Repeats')
           /\ Cardinality(Delivered') \in Nat /\ Cardinality(Repeats') \in Nat
           /\ Cardinality(Delivered') + Cardinality(Repeats')
                <= Cardinality(Delivered) + Cardinality(Repeats) + 1
<1>1. /\ \A b \in Artifacts : received[b] \in Nat
      /\ \A b \in Artifacts : received'[b] = IF b = a THEN received[a] + 1 ELSE received[b]
  BY DEF TypeOK
<1>2. /\ \A x : x \in Repeats <=> \E b \in Artifacts : \E n \in 2..received[b] : x = <<b, n>>
      /\ \A x : x \in Repeats' <=> \E b \in Artifacts : \E n \in 2..received'[b] : x = <<b, n>>
  BY RepeatsNow
<1>3. Delivered' \subseteq Delivered \cup {a}
  BY <1>1 DEF Delivered
<1>4. CASE received[a] = 0
  <2>1. ASSUME NEW x \in Repeats' PROVE x \in Repeats
    <3>1. PICK b \in Artifacts : \E n \in 2..received'[b] : x = <<b, n>>
      BY <1>2
    <3>2. 2..received'[b] \subseteq 2..received[b]
      BY <1>1, <1>4
    <3> QED
      BY <1>2, <3>1, <3>2
  <2>2. /\ IsFiniteSet(Repeats') /\ Cardinality(Repeats') <= Cardinality(Repeats)
        /\ Cardinality(Repeats') \in Nat /\ Cardinality(Repeats) \in Nat
    <3>1. Repeats' \subseteq Repeats
      BY <2>1
    <3> QED
      BY <3>1, Contained DEF FiniteInv
  <2>3. /\ IsFiniteSet(Delivered') /\ Cardinality(Delivered') <= Cardinality(Delivered) + 1
        /\ Cardinality(Delivered') \in Nat /\ Cardinality(Delivered) \in Nat
    BY <1>3, AddedAtMost DEF FiniteInv
  <2> QED
    BY <2>2, <2>3
<1>5. CASE received[a] # 0
  <2>1. Delivered' \subseteq Delivered
    BY <1>1, <1>5 DEF Delivered
  <2>2. ASSUME NEW x \in Repeats' PROVE x \in Repeats \cup {<<a, received[a] + 1>>}
    <3>1. PICK b \in Artifacts : \E n \in 2..received'[b] : x = <<b, n>>
      BY <1>2
    <3>2. PICK n \in 2..received'[b] : x = <<b, n>>
      BY <3>1
    <3>3. n \in 2..received[b] \/ (b = a /\ n = received[a] + 1)
      BY <1>1
    <3> QED
      BY <1>2, <3>2, <3>3
  <2>3. /\ IsFiniteSet(Repeats') /\ Cardinality(Repeats') <= Cardinality(Repeats) + 1
        /\ Cardinality(Repeats') \in Nat /\ Cardinality(Repeats) \in Nat
    <3>1. Repeats' \subseteq Repeats \cup {<<a, received[a] + 1>>}
      BY <2>2
    <3> QED
      BY <3>1, AddedAtMost DEF FiniteInv
  <2>4. /\ IsFiniteSet(Delivered') /\ Cardinality(Delivered') <= Cardinality(Delivered)
        /\ Cardinality(Delivered') \in Nat /\ Cardinality(Delivered) \in Nat
    BY <2>1, Contained DEF FiniteInv
  <2> QED
    BY <2>3, <2>4
<1> QED
  BY <1>4, <1>5

LEMMA InitCopies == Init => CopiesInv
<1> SUFFICES ASSUME Init PROVE CopiesInv
  OBVIOUS
<1>1. Delivered = {} /\ InSpool = {} /\ InOutbox = {} /\ InChannel = {}
  BY DEF Init, Delivered, InSpool, InOutbox, InChannel
<1>2. Repeats = {}
  <2>1. Repeats = RepeatsOf(received) /\ \A a \in Artifacts : received[a] = 0
    BY DEF Init, Repeats, RepeatsOf
  <2> QED
    BY <2>1, RepeatsAre
<1>3. published = {} /\ rejected = {} /\ faults = 0
  BY DEF Init
<1>4. FiniteInv /\ Copies <= Cardinality(published) + faults
  BY <1>1, <1>2, <1>3, FS_EmptySet DEF FiniteInv, Copies
<1>5. WorkInv
  BY DEF Init, WorkInv
<1> QED
  BY <1>4, <1>5 DEF CopiesInv

\* The steps that put nothing new anywhere.
LEMMA NothingNew ==
    ASSUME CopiesInv, WorkInv', faults \in Nat, faults' \in Nat, faults' >= faults,
           published' = published, rejected' \subseteq rejected, received' = received,
           InSpool' \subseteq InSpool, InOutbox' \subseteq InOutbox,
           InChannel' \subseteq InChannel
    PROVE  CopiesInv'
<1>1. Delivered' = Delivered /\ Repeats' = Repeats
  BY DEF Delivered, Repeats
<1>2. FiniteInv'
  BY <1>1, Contained DEF CopiesInv, FiniteInv
<1>3. /\ Cardinality(rejected') <= Cardinality(rejected) /\ Cardinality(rejected') \in Nat
      /\ Cardinality(InSpool') <= Cardinality(InSpool) /\ Cardinality(InSpool') \in Nat
      /\ Cardinality(InOutbox') <= Cardinality(InOutbox) /\ Cardinality(InOutbox') \in Nat
      /\ Cardinality(InChannel') <= Cardinality(InChannel) /\ Cardinality(InChannel') \in Nat
  BY Contained DEF CopiesInv, FiniteInv
<1>4. Copies' <= Cardinality(published') + faults'
  BY <1>1, <1>3, CountsAreNumbers DEF CopiesInv, Copies
<1> QED
  BY <1>2, <1>4 DEF CopiesInv

\* The commit command and the ingest: a publication counts in the spool, and
\* each name the ingest links counts in main_outbox instead.
LEMMA SpoolKeepsCopies ==
    ASSUME TypeOK, QueueInv, CopiesInv, SpoolNext
    PROVE  CopiesInv'
<1> USE DEF CopiesInv
<1>1. UNCHANGED <<channel, sent, snd, received>> /\ Delivered' = Delivered /\ Repeats' = Repeats
  BY DEF SpoolNext, sendVars, Delivered, Repeats
<1>2. InChannel' = InChannel
  BY <1>1 DEF InChannel
<1>3. faults \in Nat /\ faults' \in Nat
  BY SpoolKeepsTypes DEF TypeOK
<1>4. ASSUME NEW a \in Artifacts, BeginCommit(a) \/ CopySource(a) \/ EndCommit(a) \/ KillCommit(a)
      PROVE  CopiesInv'
  <2>1. UNCHANGED <<spool, published, rejected, ing, outbox>> /\ faults' >= faults
    BY <1>3, <1>4 DEF BeginCommit, CopySource, EndCommit, KillCommit, Fault
  <2>2. WorkInv' /\ InSpool' = InSpool /\ InOutbox' = InOutbox
    BY <1>1, <2>1 DEF WorkInv, InSpool, InOutbox
  <2> QED
    BY <1>1, <1>2, <1>3, <2>1, <2>2, NothingNew
<1>5. ASSUME NEW a \in Artifacts, LinkSpool(a) PROVE CopiesInv'
  <2>1. CASE NamePending(a)
    <3>1. UNCHANGED <<spool, published, rejected, ing, outbox, faults>>
      BY <1>5, <2>1 DEF LinkSpool
    <3>2. WorkInv' /\ InSpool' = InSpool /\ InOutbox' = InOutbox
      BY <1>1, <3>1 DEF WorkInv, InSpool, InOutbox
    <3> QED
      BY <1>1, <1>2, <1>3, <3>1, <3>2, NothingNew
  <2>2. CASE ~NamePending(a)
    <3>1. /\ spool' = spool \cup {a} /\ published' = published \cup {a}
          /\ UNCHANGED <<rejected, ing, outbox, faults>> /\ commit[a] = "copied"
      BY <1>5, <2>2 DEF LinkSpool
    <3>2. a \notin published
      BY <3>1 DEF QueueInv, HistoryInv
    <3>3. WorkInv' /\ InSpool' \subseteq InSpool \cup {a} /\ InOutbox' = InOutbox
      BY <1>1, <3>1 DEF WorkInv, InSpool, InOutbox
    <3>4. /\ IsFiniteSet(InSpool') /\ Cardinality(InSpool') <= Cardinality(InSpool) + 1
          /\ Cardinality(InSpool') \in Nat
      BY <3>3, AddedAtMost DEF FiniteInv
    <3>5. IsFiniteSet(published') /\ Cardinality(published') = Cardinality(published) + 1
      BY <3>1, <3>2, Added DEF FiniteInv
    <3>6. FiniteInv'
      BY <1>1, <1>2, <3>1, <3>3, <3>4, <3>5 DEF FiniteInv
    <3>7. Copies' <= Cardinality(published') + faults'
      BY <1>1, <1>2, <1>3, <3>1, <3>3, <3>4, <3>5, CountsAreNumbers DEF Copies
    <3> QED
      BY <3>3, <3>6, <3>7
  <2> QED
    BY <2>1, <2>2
<1>6. CASE StartIngest \/ EndIngest
  <2>1. /\ UNCHANGED <<spool, published, rejected, outbox, faults>>
        /\ ing'.cur = ing.cur /\ ing'.pc \in {"scan", "idle"} /\ ing'.todo \subseteq spool
    BY <1>6 DEF StartIngest, EndIngest, Listing, TypeOK, IngestState, WorkInv
  <2>2. WorkInv' /\ InSpool' = InSpool /\ InOutbox' = InOutbox
    BY <1>1, <2>1 DEF WorkInv, InSpool, InOutbox
  <2> QED
    BY <1>1, <1>2, <1>3, <2>1, <2>2, NothingNew
<1>7. ASSUME NEW a \in Artifacts, NEW s \in Suffixes, PublishLink(a, s) PROVE CopiesInv'
  <2> DEFINE e == [art |-> a, suffix |-> s]
  <2>1. /\ UNCHANGED <<spool, published, rejected>> /\ faults' >= faults
        /\ outbox' = outbox \cup {e} /\ ing.pc = "scan" /\ a \in ing.todo
        /\ ing' = [ing EXCEPT !.pc = "linked", !.cur = {a}]
    BY <1>3, <1>7 DEF PublishLink, Fault
  <2>2. ing'.pc = "linked" /\ ing'.cur = {a} /\ ing'.todo = ing.todo /\ ing.cur = {}
    BY <2>1 DEF TypeOK, IngestState, QueueInv, IngestInv
  <2>3. WorkInv'
    BY <1>1, <2>1, <2>2 DEF WorkInv
  <2>4. /\ a \in InSpool /\ InSpool' \subseteq InSpool \ {a}
        /\ InOutbox' \subseteq InOutbox \cup {e}
    BY <1>1, <2>1, <2>2 DEF WorkInv, InSpool, InOutbox
  <2>5. /\ IsFiniteSet(InSpool') /\ Cardinality(InSpool') <= Cardinality(InSpool) - 1
        /\ Cardinality(InSpool') \in Nat
    BY <2>4, TakenOut DEF FiniteInv
  <2>6. /\ IsFiniteSet(InOutbox') /\ Cardinality(InOutbox') <= Cardinality(InOutbox) + 1
        /\ Cardinality(InOutbox') \in Nat
    BY <2>4, AddedAtMost DEF FiniteInv
  <2>7. FiniteInv'
    BY <1>1, <1>2, <2>1, <2>5, <2>6 DEF FiniteInv
  <2>8. Copies' <= Cardinality(published') + faults'
    BY <1>1, <1>2, <1>3, <2>1, <2>5, <2>6, CountsAreNumbers DEF Copies
  <2> QED
    BY <2>3, <2>7, <2>8
<1>8. CASE PublishUnlink
  <2>1. /\ UNCHANGED <<published, rejected, outbox, faults>> /\ spool' = spool \ ing.cur
        /\ ing'.cur = {} /\ ing'.pc = "scan" /\ ing'.todo = ing.todo \ ing.cur
    BY <1>8 DEF PublishUnlink, TypeOK, IngestState
  <2>2. WorkInv' /\ InSpool' = InSpool /\ InOutbox' = InOutbox
    BY <1>1, <2>1 DEF WorkInv, InSpool, InOutbox
  <2> QED
    BY <1>1, <1>2, <1>3, <2>1, <2>2, NothingNew
\* the entry still lies in the spool and counts there again
<1>9. CASE PublishUnlinkFails \/ CrashIngest
  <2>1. /\ UNCHANGED <<spool, published, rejected, outbox>> /\ faults' = faults + 1
        /\ ing'.cur = {} /\ ing'.pc \in {"scan", "idle"} /\ ing'.todo \subseteq ing.todo
    BY <1>9, ZenonT(60) DEF PublishUnlinkFails, CrashIngest, Fault, TypeOK, IngestState
  <2>2. PICK a : ing.cur \subseteq {a}
    BY DEF WorkInv, QueueInv, IngestInv
  <2>3. WorkInv' /\ InSpool' \subseteq InSpool \cup {a} /\ InOutbox' = InOutbox
    BY <1>1, <2>1, <2>2 DEF WorkInv, InSpool, InOutbox
  <2>4. /\ IsFiniteSet(InSpool') /\ Cardinality(InSpool') <= Cardinality(InSpool) + 1
        /\ Cardinality(InSpool') \in Nat
    BY <2>3, AddedAtMost DEF FiniteInv
  <2>5. FiniteInv'
    BY <1>1, <1>2, <2>1, <2>3, <2>4 DEF FiniteInv
  <2>6. Copies' <= Cardinality(published') + faults'
    BY <1>1, <1>2, <1>3, <2>1, <2>3, <2>4, CountsAreNumbers DEF Copies
  <2> QED
    BY <2>3, <2>5, <2>6
<1>10. ASSUME NEW a \in Artifacts, PublishFails(a) PROVE CopiesInv'
  <2>1. /\ UNCHANGED <<spool, published, rejected, outbox>> /\ faults' >= faults
        /\ ing'.cur = ing.cur /\ ing'.pc = ing.pc /\ ing.pc = "scan"
        /\ ing'.todo \subseteq ing.todo
    BY <1>3, <1>10 DEF PublishFails, Fault, TypeOK, IngestState
  <2>2. WorkInv' /\ InSpool' = InSpool /\ InOutbox' = InOutbox
    BY <1>1, <2>1 DEF WorkInv, InSpool, InOutbox
  <2> QED
    BY <1>1, <1>2, <1>3, <2>1, <2>2, NothingNew
<1>11. ASSUME NEW a \in Artifacts, RejectEntry(a) PROVE CopiesInv'
  <2>1. /\ UNCHANGED <<published, outbox>> /\ ing.pc = "scan" /\ a \in ing.todo
        /\ ing'.cur = ing.cur /\ ing'.pc = ing.pc /\ ing'.todo = ing.todo \ {a} /\ ing.cur = {}
        /\ \/ /\ spool' = spool \ {a} /\ rejected' = rejected \cup {a} /\ faults' = faults
           \/ UNCHANGED <<spool, rejected>> /\ faults' >= faults
    <3>1. /\ ing.cur = {} /\ ing \in IngestState
      BY <1>11 DEF RejectEntry, QueueInv, IngestInv, TypeOK
    <3>2. \/ ing' = [ing EXCEPT !.todo = @ \ {a}]
          \/ ing' = [ing EXCEPT !.todo = @ \ {a}, !.left = TRUE]
      BY <1>11 DEF RejectEntry
    <3>3. ing'.cur = ing.cur /\ ing'.pc = ing.pc /\ ing'.todo = ing.todo \ {a}
      BY <3>1, <3>2 DEF IngestState
    <3> QED
      BY <1>3, <1>11, <3>1, <3>3 DEF RejectEntry, Fault
  <2>2. CASE UNCHANGED <<spool, rejected>> /\ faults' >= faults
    <3>1. WorkInv' /\ InSpool' = InSpool /\ InOutbox' = InOutbox
      BY <1>1, <2>1, <2>2 DEF WorkInv, InSpool, InOutbox
    <3> QED
      BY <1>1, <1>2, <1>3, <2>1, <2>2, <3>1, NothingNew
  <2>3. CASE spool' = spool \ {a} /\ rejected' = rejected \cup {a} /\ faults' = faults
    <3>1. /\ WorkInv' /\ InOutbox' = InOutbox
          /\ a \in InSpool /\ InSpool' \subseteq InSpool \ {a}
      BY <1>1, <2>1, <2>3 DEF WorkInv, InSpool, InOutbox
    <3>2. /\ IsFiniteSet(InSpool') /\ Cardinality(InSpool') <= Cardinality(InSpool) - 1
          /\ Cardinality(InSpool') \in Nat
      BY <3>1, TakenOut DEF FiniteInv
    <3>3. /\ IsFiniteSet(rejected') /\ Cardinality(rejected') <= Cardinality(rejected) + 1
          /\ Cardinality(rejected') \in Nat
      BY <2>3, AddedAtMost DEF FiniteInv
    <3>4. FiniteInv'
      BY <1>1, <1>2, <2>1, <3>1, <3>2, <3>3 DEF FiniteInv
    <3>5. Copies' <= Cardinality(published') + faults'
      BY <1>1, <1>2, <1>3, <2>1, <2>3, <3>1, <3>2, <3>3, CountsAreNumbers DEF Copies
    <3> QED
      BY <3>1, <3>4, <3>5
  <2> QED
    BY <2>1, <2>2, <2>3
<1> QED
  BY <1>4, <1>5, <1>6, <1>7, <1>8, <1>9, <1>10, <1>11 DEF SpoolNext, Ingest, Commit


\* The service loop: each name the dispatcher links counts in the channel
\* instead, and an upload counts in place of the entry it was made from.
LEMMA SenderKeepsCopies ==
    ASSUME TypeOK, QueueInv, CopiesInv, SenderNext
    PROVE  CopiesInv'
<1> USE DEF CopiesInv
<1>1. UNCHANGED <<published, spool, rejected, ing, commit>> /\ InSpool' = InSpool
  BY DEF SenderNext, spoolVars, InSpool
<1>2. faults \in Nat /\ faults' \in Nat
  BY SenderKeepsTypes DEF TypeOK
<1>3. received' = received => Delivered' = Delivered /\ Repeats' = Repeats
  BY DEF Delivered, Repeats
<1>4. CASE /\ UNCHANGED <<outbox, channel, received>> /\ faults' >= faults
           /\ snd'.pc \notin {"linked", "archive"} /\ WorkInv'
           /\ snd.pc \notin {"linked", "archive"}
  <2>1. InOutbox' = InOutbox /\ InChannel' = InChannel
    BY <1>4 DEF InOutbox, InChannel
  <2> QED
    BY <1>1, <1>2, <1>4, <2>1, NothingNew
<1>5. CASE StartCycle \/ (\E e \in Entry : DispatchLinkFails(e)) \/ DispatchProblem
           \/ (\E batch \in Batches : StartSend(batch)) \/ NothingSent \/ EndCycle
  <2>1. /\ UNCHANGED <<outbox, channel, received>> /\ faults' >= faults
        /\ snd.pc \in {"sleep", "dispatch", "send"}
    <3>1. CASE StartCycle \/ DispatchProblem \/ NothingSent \/ EndCycle
      <4>1. CASE StartCycle
        BY <1>2, <4>1 DEF StartCycle
      <4>2. CASE DispatchProblem
        BY <1>2, <4>2 DEF DispatchProblem
      <4>3. CASE NothingSent
        BY <1>2, <4>3 DEF NothingSent
      <4>4. CASE EndCycle
        BY <1>2, <4>4 DEF EndCycle
      <4> QED
        BY <3>1, <4>1, <4>2, <4>3, <4>4
    <3>2. ASSUME NEW e \in Entry, DispatchLinkFails(e)
          PROVE  /\ UNCHANGED <<outbox, channel, received>> /\ faults' >= faults
                 /\ snd.pc = "dispatch"
      BY <1>2, <3>2 DEF DispatchLinkFails, Fault
    <3>3. ASSUME NEW batch \in Batches, StartSend(batch)
          PROVE  /\ UNCHANGED <<outbox, channel, received>> /\ faults' >= faults
                 /\ snd.pc = "dispatch"
      BY <1>2, <3>3 DEF StartSend
    <3> QED
      BY <1>5, <3>1, <3>2, <3>3
  <2>2. \/ snd'.pc = "sleep"
        \/ snd'.pc = "dispatch" /\ snd'.todo \subseteq outbox
        \/ snd'.pc = "send" /\ snd'.todo \subseteq channel
    <3>1. CASE StartCycle
      BY <3>1 DEF StartCycle, TypeOK, SenderState
    <3>4. ASSUME NEW e \in Entry, DispatchLinkFails(e)
          PROVE  snd'.pc = "dispatch" /\ snd'.todo \subseteq outbox
      <4>1. snd' = [snd EXCEPT !.todo = @ \ {e}, !.problem = TRUE] /\ snd.pc = "dispatch"
        BY <3>4 DEF DispatchLinkFails
      <4> QED
        BY <4>1 DEF TypeOK, SenderState, WorkInv
    <3>2. CASE DispatchProblem \/ NothingSent \/ EndCycle
      BY <3>2 DEF DispatchProblem, NothingSent, EndCycle, Sleep, TypeOK, SenderState
    <3>3. ASSUME NEW batch \in Batches, StartSend(batch)
          PROVE  snd'.pc = "send" /\ snd'.todo \subseteq channel
      BY <3>3 DEF StartSend, Batches, TypeOK, SenderState
    <3> QED
      BY <1>5, <3>1, <3>2, <3>3, <3>4
  <2>3. WorkInv'
    BY <1>1, <2>1, <2>2 DEF WorkInv
  <2> QED
    BY <1>4, <2>1, <2>2, <2>3
<1>6. CASE VaultCloses \/ VaultOpens
  <2>1. UNCHANGED <<outbox, channel, received, snd>> /\ faults' >= faults
    BY <1>2, <1>6 DEF VaultCloses, VaultOpens, Fault
  <2>2. WorkInv' /\ InOutbox' = InOutbox /\ InChannel' = InChannel
    BY <1>1, <2>1 DEF WorkInv, InOutbox, InChannel
  <2> QED
    BY <1>1, <1>2, <2>1, <2>2, NothingNew
<1>7. ASSUME NEW e \in Entry, DispatchLink(e) PROVE CopiesInv'
  <2>1. /\ UNCHANGED <<outbox, received, faults>> /\ channel' = channel \cup {e}
        /\ snd.pc = "dispatch" /\ e \in snd.todo /\ snd'.pc = "linked"
        /\ snd'.todo = snd.todo /\ snd'.cur = {e}
    BY <1>7 DEF DispatchLink, TypeOK, SenderState
  <2>2. WorkInv'
    BY <1>1, <2>1 DEF WorkInv
  <2>3. /\ e \in InOutbox /\ InOutbox' \subseteq InOutbox \ {e}
        /\ InChannel' \subseteq InChannel \cup {e}
    BY <2>1 DEF WorkInv, InOutbox, InChannel
  <2>4. /\ IsFiniteSet(InOutbox') /\ Cardinality(InOutbox') <= Cardinality(InOutbox) - 1
        /\ Cardinality(InOutbox') \in Nat
    BY <2>3, TakenOut DEF FiniteInv
  <2>5. /\ IsFiniteSet(InChannel') /\ Cardinality(InChannel') <= Cardinality(InChannel) + 1
        /\ Cardinality(InChannel') \in Nat
    BY <2>3, AddedAtMost DEF FiniteInv
  <2>6. FiniteInv'
    BY <1>1, <1>3, <2>1, <2>4, <2>5 DEF FiniteInv
  <2>7. Copies' <= Cardinality(published') + faults'
    BY <1>1, <1>2, <1>3, <2>1, <2>4, <2>5, CountsAreNumbers DEF Copies
  <2> QED
    BY <2>2, <2>6, <2>7
<1>8. CASE DispatchUnlink
  <2>1. /\ UNCHANGED <<channel, received, faults>> /\ outbox' = outbox \ snd.cur
        /\ snd.pc = "linked" /\ snd'.pc = "dispatch" /\ snd'.todo = snd.todo \ snd.cur
    BY <1>8 DEF DispatchUnlink, TypeOK, SenderState
  <2>2. WorkInv' /\ InOutbox' = InOutbox /\ InChannel' = InChannel
    BY <1>1, <2>1 DEF WorkInv, InOutbox, InChannel
  <2> QED
    BY <1>1, <1>2, <2>1, <2>2, NothingNew
\* the name stays where it was, and counts there again
<1>9. CASE DispatchUnlinkFails \/ ArchiveFails \/ CrashSender
  <2>1. /\ UNCHANGED <<outbox, channel, received>> /\ faults' = faults + 1
        /\ \/ snd'.pc = "sleep"
           \/ snd.pc = "archive" /\ snd'.pc = "send" /\ snd'.todo \subseteq snd.todo
    <3>1. CASE DispatchUnlinkFails
      BY <3>1 DEF DispatchUnlinkFails, Sleep, Fault, TypeOK, SenderState
    <3>2. CASE ArchiveFails
      BY <3>2 DEF ArchiveFails, Fault, TypeOK, SenderState
    <3>3. CASE CrashSender
      BY <3>3 DEF CrashSender, Fault, TypeOK, SenderState
    <3> QED
      BY <1>9, <3>1, <3>2, <3>3
  <2>2. WorkInv'
    BY <1>1, <2>1 DEF WorkInv
  <2>3. CASE snd.pc = "linked"
    <3>1. PICK e : snd.cur = {e}
      BY <2>3 DEF WorkInv
    <3>2. InOutbox' \subseteq InOutbox \cup {e} /\ InChannel' = InChannel
      BY <2>1, <2>3, <3>1 DEF InOutbox, InChannel
    <3>3. /\ IsFiniteSet(InOutbox') /\ Cardinality(InOutbox') <= Cardinality(InOutbox) + 1
          /\ Cardinality(InOutbox') \in Nat
      BY <3>2, AddedAtMost DEF FiniteInv
    <3>4. FiniteInv'
      BY <1>1, <1>3, <2>1, <3>2, <3>3 DEF FiniteInv
    <3>5. Copies' <= Cardinality(published') + faults'
      BY <1>1, <1>2, <1>3, <2>1, <3>2, <3>3, CountsAreNumbers DEF Copies
    <3> QED
      BY <2>2, <3>4, <3>5
  <2>4. CASE snd.pc = "archive"
    <3>1. PICK e : snd.cur = {e}
      BY <2>4 DEF WorkInv
    <3>2. InChannel' \subseteq InChannel \cup {e} /\ InOutbox' = InOutbox
      BY <2>1, <2>4, <3>1 DEF InOutbox, InChannel
    <3>3. /\ IsFiniteSet(InChannel') /\ Cardinality(InChannel') <= Cardinality(InChannel) + 1
          /\ Cardinality(InChannel') \in Nat
      BY <3>2, AddedAtMost DEF FiniteInv
    <3>4. FiniteInv'
      BY <1>1, <1>3, <2>1, <3>2, <3>3 DEF FiniteInv
    <3>5. Copies' <= Cardinality(published') + faults'
      BY <1>1, <1>2, <1>3, <2>1, <3>2, <3>3, CountsAreNumbers DEF Copies
    <3> QED
      BY <2>2, <3>4, <3>5
  <2>5. CASE snd.pc \notin {"linked", "archive"}
    BY <1>2, <1>4, <2>1, <2>2, <2>5
  <2> QED
    BY <2>3, <2>4, <2>5
<1>10. ASSUME NEW e \in Entry, UploadOk(e) PROVE CopiesInv'
  <2>1. /\ UNCHANGED <<outbox, channel, faults>> /\ snd.pc = "send" /\ e \in snd.todo
        /\ received' = [received EXCEPT ![e.art] = @ + 1] /\ e.art \in Artifacts
        /\ snd'.pc = "archive" /\ snd'.cur = {e} /\ snd'.todo = snd.todo
    BY <1>10 DEF UploadOk, NextToSend, TypeOK, SenderState, Entry
  <2>2. WorkInv'
    BY <1>1, <2>1 DEF WorkInv
  <2>3. e \in InChannel /\ InChannel' \subseteq InChannel \ {e} /\ InOutbox' = InOutbox
    BY <2>1 DEF WorkInv, InOutbox, InChannel
  <2>4. /\ IsFiniteSet(InChannel') /\ Cardinality(InChannel') <= Cardinality(InChannel) - 1
        /\ Cardinality(InChannel') \in Nat
    BY <2>3, TakenOut DEF FiniteInv
  <2>5. /\ IsFiniteSet(Delivered') /\ IsFiniteSet(Repeats')
        /\ Cardinality(Delivered') \in Nat /\ Cardinality(Repeats') \in Nat
        /\ Cardinality(Delivered') + Cardinality(Repeats')
             <= Cardinality(Delivered) + Cardinality(Repeats) + 1
    BY <2>1, OneMoreUpload
  <2>6. FiniteInv'
    BY <1>1, <2>3, <2>4, <2>5 DEF FiniteInv
  <2>7. Copies' <= Cardinality(published') + faults'
    BY <1>1, <1>2, <2>1, <2>3, <2>4, <2>5, CountsAreNumbers DEF Copies
  <2> QED
    BY <2>2, <2>6, <2>7
<1>11. ASSUME NEW e \in Entry, UploadFails(e) PROVE CopiesInv'
  <2>1. /\ UNCHANGED <<outbox, channel>> /\ snd.pc = "send" /\ e.art \in Artifacts
        /\ snd'.pc = "send" /\ snd'.todo \subseteq snd.todo
        /\ \/ UNCHANGED <<received, faults>>
           \/ received' = [received EXCEPT ![e.art] = @ + 1] /\ faults' = faults + 1
    BY <1>11 DEF UploadFails, NextToSend, Fault, TypeOK, SenderState, Entry
  <2>2. WorkInv' /\ InOutbox' = InOutbox /\ InChannel' = InChannel
    BY <1>1, <2>1 DEF WorkInv, InOutbox, InChannel
  <2>3. CASE UNCHANGED <<received, faults>>
    BY <1>1, <1>2, <2>1, <2>2, <2>3, NothingNew
  <2>4. CASE received' = [received EXCEPT ![e.art] = @ + 1] /\ faults' = faults + 1
    <3>1. /\ IsFiniteSet(Delivered') /\ IsFiniteSet(Repeats')
          /\ Cardinality(Delivered') \in Nat /\ Cardinality(Repeats') \in Nat
          /\ Cardinality(Delivered') + Cardinality(Repeats')
               <= Cardinality(Delivered) + Cardinality(Repeats) + 1
      BY <2>1, <2>4, OneMoreUpload
    <3>2. FiniteInv'
      BY <1>1, <2>2, <3>1 DEF FiniteInv
    <3>3. Copies' <= Cardinality(published') + faults'
      BY <1>1, <1>2, <2>2, <2>4, <3>1, CountsAreNumbers DEF Copies
    <3> QED
      BY <2>2, <3>2, <3>3
  <2> QED
    BY <2>1, <2>3, <2>4
<1>12. CASE Archive
  <2>1. /\ UNCHANGED <<outbox, received, faults>> /\ channel' = channel \ snd.cur
        /\ snd.pc = "archive" /\ snd'.pc = "send" /\ snd'.todo = snd.todo \ snd.cur
    BY <1>12 DEF Archive, TypeOK, SenderState
  <2>2. WorkInv' /\ InOutbox' = InOutbox /\ InChannel' = InChannel
    BY <1>1, <2>1 DEF WorkInv, InOutbox, InChannel
  <2> QED
    BY <1>1, <1>2, <2>1, <2>2, NothingNew
<1> QED
  BY <1>5, <1>6, <1>7, <1>8, <1>9, <1>10, <1>11, <1>12 DEF SenderNext, Dispatch, Send

\* Every published artifact is among the delivered ones, the rejected ones and
\* those of which a copy counts.
LEMMA EachCounts ==
    ASSUME TypeOK, QueueInv, WorkInv, NEW a \in published
    PROVE  \/ a \in Delivered \cup rejected \cup InSpool
           \/ \E e \in InOutbox \cup InChannel : e.art = a
<1>1. a \in Artifacts
  BY DEF TypeOK
<1>2. CASE Held(a)
  <2>1. CASE received[a] > 0
    BY <1>1, <2>1 DEF Delivered
  <2>2. ASSUME NEW e \in outbox \cup channel, e.art = a, ~(received[a] > 0)
        PROVE  e \in InOutbox \cup InChannel
    <3>1. CASE snd.pc = "linked"
      BY <2>2, <3>1 DEF QueueInv, SenderInv, InOutbox, InChannel
    <3>2. CASE snd.pc = "archive"
      BY <2>2, <3>2 DEF QueueInv, SenderInv, InOutbox, InChannel
    <3>3. CASE snd.pc \notin {"linked", "archive"}
      BY <2>2, <3>3 DEF InOutbox, InChannel
    <3> QED
      BY <3>1, <3>2, <3>3
  <2> QED
    BY <1>2, <2>1, <2>2 DEF Held
<1>3. CASE a \in spool /\ ~Held(a)
  <2>1. a \notin ing.cur
    BY <1>3 DEF QueueInv, IngestInv
  <2> QED
    BY <1>3, <2>1 DEF InSpool
<1> QED
  BY <1>2, <1>3 DEF QueueInv, NoArtifactLost

\* There are at most as many artifacts of entries as there are entries.
LEMMA ArtifactsOf ==
    ASSUME NEW E \in SUBSET Entry, IsFiniteSet(E)
    PROVE  /\ IsFiniteSet({e.art : e \in E})
           /\ Cardinality({e.art : e \in E}) <= Cardinality(E)
<1>. DEFINE A == {e.art : e \in E}
            f == [e \in E |-> e.art]
<1>1. f \in Surjection(E, A)
  BY DEF Surjection
<1> QED
  BY <1>1, FS_Surjection

\* The union of two finite sets, with its size.
LEMMA Together ==
    ASSUME NEW S, NEW T, IsFiniteSet(S), IsFiniteSet(T)
    PROVE  /\ IsFiniteSet(S \cup T)
           /\ Cardinality(S \cup T) <= Cardinality(S) + Cardinality(T)
           /\ Cardinality(S \cup T) \in Nat /\ Cardinality(S) \in Nat /\ Cardinality(T) \in Nat
<1>1. /\ IsFiniteSet(S \cup T)
      /\ Cardinality(S \cup T) = Cardinality(S) + Cardinality(T) - Cardinality(S \cap T)
  BY FS_Union
<1>2. IsFiniteSet(S \cap T)
  BY FS_Intersection
<1>3. /\ Cardinality(S \cup T) \in Nat /\ Cardinality(S) \in Nat /\ Cardinality(T) \in Nat
      /\ Cardinality(S \cap T) \in Nat
  BY <1>1, <1>2, FS_CardinalityType
<1> QED
  BY <1>1, <1>3

LEMMA CopiesBound == ASSUME TypeOK, QueueInv, CopiesInv PROVE DuplicatesNeedFaults
<1>. DEFINE Outgoing == {e.art : e \in InOutbox}
            Leaving  == {e.art : e \in InChannel}
<1>1. /\ IsFiniteSet(Outgoing) /\ Cardinality(Outgoing) <= Cardinality(InOutbox)
      /\ IsFiniteSet(Leaving) /\ Cardinality(Leaving) <= Cardinality(InChannel)
  BY ArtifactsOf DEF TypeOK, CopiesInv, FiniteInv, InOutbox, InChannel
<1>2. published \subseteq ((Delivered \cup rejected) \cup InSpool) \cup (Outgoing \cup Leaving)
  BY EachCounts DEF CopiesInv
<1>. HIDE DEF Outgoing, Leaving
<1>3. /\ IsFiniteSet(Delivered \cup rejected)
      /\ Cardinality(Delivered \cup rejected) <= Cardinality(Delivered) + Cardinality(rejected)
      /\ Cardinality(Delivered \cup rejected) \in Nat
  BY Together DEF CopiesInv, FiniteInv
<1>4. /\ IsFiniteSet((Delivered \cup rejected) \cup InSpool)
      /\ Cardinality((Delivered \cup rejected) \cup InSpool)
           <= Cardinality(Delivered \cup rejected) + Cardinality(InSpool)
      /\ Cardinality((Delivered \cup rejected) \cup InSpool) \in Nat
  BY <1>3, Together DEF CopiesInv, FiniteInv
<1>5. /\ IsFiniteSet(Outgoing \cup Leaving)
      /\ Cardinality(Outgoing \cup Leaving) <= Cardinality(Outgoing) + Cardinality(Leaving)
      /\ Cardinality(Outgoing \cup Leaving) \in Nat
      /\ Cardinality(Outgoing) \in Nat /\ Cardinality(Leaving) \in Nat
  BY <1>1, Together
<1>6. Cardinality(published) <= Cardinality((Delivered \cup rejected) \cup InSpool)
                                  + Cardinality(Outgoing \cup Leaving)
  <2>. DEFINE Left == (Delivered \cup rejected) \cup InSpool
              Right == Outgoing \cup Leaving
  <2>1. IsFiniteSet(Left) /\ IsFiniteSet(Right) /\ published \subseteq Left \cup Right
    BY <1>2, <1>4, <1>5
  <2>. HIDE DEF Left, Right
  <2>2. /\ IsFiniteSet(Left \cup Right) /\ Cardinality(Left \cup Right) \in Nat
        /\ Cardinality(Left \cup Right) <= Cardinality(Left) + Cardinality(Right)
        /\ Cardinality(Left) \in Nat /\ Cardinality(Right) \in Nat
    BY <2>1, Together
  <2>3. /\ Cardinality(published) <= Cardinality(Left \cup Right)
        /\ Cardinality(published) \in Nat
    BY <2>1, <2>2, Contained
  <2>4. Cardinality(published) <= Cardinality(Left) + Cardinality(Right)
    BY <2>2, <2>3
  <2> QED
    BY <2>4 DEF Left, Right
<1>7. faults \in Nat
  BY DEF TypeOK
<1>8. /\ Cardinality(published) \in Nat /\ Cardinality(rejected) \in Nat
      /\ Cardinality(Delivered) \in Nat /\ Cardinality(Repeats) \in Nat
      /\ Cardinality(InSpool) \in Nat /\ Cardinality(InOutbox) \in Nat
      /\ Cardinality(InChannel) \in Nat
  BY CountsAreNumbers DEF CopiesInv
<1> QED
  BY <1>1, <1>3, <1>4, <1>5, <1>6, <1>7, <1>8 DEF CopiesInv, Copies, DuplicatesNeedFaults

\* The web app stores an artifact a second time only at the price of a fault,
\* for any number of artifacts and faults (DuplicatesNeedFaults): every step
\* that makes a second copy count is one.
THEOREM RepeatsNeedFaults == Spec => []DuplicatesNeedFaults
<1>1. TypeOK /\ QueueInv /\ CopiesInv /\ [Next]_vars => CopiesInv'
  <2>1. TypeOK /\ QueueInv /\ CopiesInv /\ Next => CopiesInv'
    BY SpoolKeepsCopies, SenderKeepsCopies DEF Next
  <2>2. TypeOK /\ CopiesInv /\ UNCHANGED vars => CopiesInv'
    BY DEF vars, spoolVars, sendVars, CopiesInv, WorkInv, FiniteInv, Copies, Delivered,
           Repeats, InSpool, InOutbox, InChannel
  <2> QED
    BY <2>1, <2>2
<1>2. TypeOK /\ QueueInv /\ CopiesInv => DuplicatesNeedFaults
  BY CopiesBound
<1> QED
  BY <1>1, <1>2, InitCopies, TypeCorrect, QueueInvariant, PTL DEF Spec

=============================================================================

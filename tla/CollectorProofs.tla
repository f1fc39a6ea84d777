---------------------------- MODULE CollectorProofs ----------------------------
(* Proofs about Collector, for any runs, modules, window, threshold and      *)
(* faults.                                                                   *)
EXTENDS Collector, TLAPS

-----------------------------------------------------------------------------
\* A run that does not exist, and its first state.
LEMMA NoRunType == NoRun \in RunState /\ [NoRun EXCEPT !.pc = "start"] \in RunState
<1>1. Silent \in Report
  BY NumbersAssumption DEF Silent, Report, Version
<1>2. 1 \in 1 .. Window /\ 0 \in 0 .. Window
  BY NumbersAssumption
<1> QED
  BY <1>1, <1>2 DEF NoRun, RunState

\* An exit leaves a run without state, without the lock, and tells systemd.
LEMMA ExitTypes ==
    ASSUME TypeOK, NEW r \in Runs, NEW code, Exit(r, code)
    PROVE  run' \in [Runs -> RunState] /\ lock' \subseteq Runs /\ due' \in BOOLEAN
BY NoRunType DEF Exit, TypeOK

LEMMA FaultTypes == ASSUME TypeOK, NEW kind, Fault(kind) PROVE faults' \in Nat
BY DEF Fault, TypeOK

\* backoff_delay stays between the base and the maximum, and what a pause
\* leaves is a part of the window.
LEMMA PauseTypes ==
    ASSUME NEW wait \in 1 .. Window, NEW left \in 0 .. Window
    PROVE  Longer(wait) \in 1 .. Window /\ LeftAfter(wait, left) \in 0 .. Window
<1>1. wait * Multiplier >= 1
  BY NumbersAssumption
<1> QED
  BY <1>1, NumbersAssumption DEF Longer, LeftAfter

\* Publishing takes a file of the right form and only raises versions.
LEMMA PublishTypes ==
    ASSUME TypeOK, Publish
    PROVE  pending' \in BOOLEAN /\ published' \in SUBSET TempFile
           /\ carried' \in [Modules -> Version]
<1>1. PICK f \in file : published' = {f} /\ carried' = [m \in Modules |->
                IF f.body[m] > carried[m] THEN f.body[m] ELSE carried[m]]
  BY DEF Publish
<1>2. f \in TempFile
  BY <1>1 DEF TypeOK
<1>3. \A m \in Modules : f.body[m] \in Version
  BY <1>2 DEF TempFile, Report
<1> QED
  BY <1>1, <1>2, <1>3 DEF Publish, TypeOK

-----------------------------------------------------------------------------
\* The types hold through the steps of the world and of systemd.
LEMMA SystemTypes == ASSUME TypeOK, SystemStep PROVE TypeOK'
<1> USE NumbersAssumption, RunsAssumption, NoRunType
<1>1. ASSUME NEW m \in Modules, Change(m) PROVE TypeOK'
  BY <1>1 DEF Change, TypeOK, Version, spoolVars
<1>2. ASSUME NEW m \in Modules, Trigger(m) PROVE TypeOK'
  BY <1>2 DEF Trigger, Begin, TypeOK, spoolVars
<1>3. ASSUME NEW m \in Modules, TriggerFails(m) PROVE TypeOK'
  BY <1>3, FaultTypes DEF TriggerFails, TypeOK, spoolVars
<1>4. CASE StartUnit
  BY <1>4 DEF StartUnit, Begin, TypeOK, worldVars, spoolVars
<1>5. CASE IngestTakes
  BY <1>5 DEF IngestTakes, TypeOK, worldVars
<1>6. CASE Reboot
  BY <1>6, FaultTypes DEF Reboot, TypeOK, worldVars, spoolVars
<1> QED
  BY <1>1, <1>2, <1>3, <1>4, <1>5, <1>6 DEF SystemStep

\* They hold through the collection.
LEMMA CollectTypes ==
    ASSUME TypeOK, NEW r \in Runs,
           \/ CollectStep(r) \/ StartByHand(r)
           \/ \E m \in Modules : ModuleSilent(r, m)
    PROVE  TypeOK'
<1> USE NumbersAssumption, ModulesAssumption, NoRunType
<1>1. /\ run[r] \in RunState /\ Silent \in Report
      /\ \A m \in Modules : facts[m] \in Version
  BY DEF TypeOK, Silent, Report, Version
<1>2. CASE AcquireLock(r)
  <2>1. CASE lock = {}
    <3>1. run' \in [Runs -> RunState]
      BY <1>1, <1>2, <2>1 DEF AcquireLock, TypeOK, RunState, Locked
    <3> QED
      BY <1>2, <2>1, <3>1 DEF AcquireLock, TypeOK, worldVars, spoolVars
  <2>2. CASE lock # {}
    BY <1>2, <2>2, ExitTypes DEF AcquireLock, TypeOK, worldVars, spoolVars
  <2> QED
    BY <2>1, <2>2
<1>3. ASSUME NEW m \in Modules, ModuleAnswers(r, m) PROVE TypeOK'
  <2>1. [run[r].report EXCEPT ![m] = facts[m]] \in Report
    BY <1>1 DEF RunState, Report
  <2>2. run' \in [Runs -> RunState]
    BY <1>1, <1>3, <2>1 DEF ModuleAnswers, TypeOK, RunState
  <2> QED
    BY <1>3, <2>2 DEF ModuleAnswers, TypeOK, worldVars, spoolVars
<1>4. ASSUME NEW m \in Modules, ModuleSilent(r, m) PROVE TypeOK'
  <2>1. PICK rest \in 0 .. Window :
          run' = [run EXCEPT ![r].todo = @ \ {m}, ![r].left = rest]
    BY <1>4 DEF ModuleSilent
  <2>2. run' \in [Runs -> RunState]
    BY <1>1, <2>1 DEF TypeOK, RunState
  <2>3. faults' \in Nat
    BY <1>4, FaultTypes DEF ModuleSilent, TypeOK
  <2> QED
    BY <1>4, <2>2, <2>3 DEF ModuleSilent, TypeOK, worldVars, spoolVars
<1>5. CASE Collected(r)
  <2>1. Longer(run[r].wait) \in 1 .. Window /\ LeftAfter(run[r].wait, run[r].left) \in 0 .. Window
    BY <1>1, PauseTypes DEF RunState
  <2>2. run' \in [Runs -> RunState]
    BY <1>1, <1>5, <2>1 DEF Collected, Goto, TypeOK, RunState, Locked
  <2> QED
    BY <1>5, <2>2 DEF Collected, TypeOK, worldVars, spoolVars
<1>6. CASE Wake(r)
  <2>1. run' \in [Runs -> RunState]
    BY <1>1, <1>6 DEF Wake, NewAttempt, TypeOK, RunState, Locked
  <2> QED
    BY <1>6, <2>1 DEF Wake, TypeOK, worldVars, spoolVars
<1>7. CASE StartByHand(r)
  BY <1>7 DEF StartByHand, Begin, TypeOK, worldVars, spoolVars
<1> QED
  BY <1>2, <1>3, <1>4, <1>5, <1>6, <1>7 DEF CollectStep

\* They hold through the commit.
LEMMA CommitTypes ==
    ASSUME TypeOK, NEW r \in Runs, CommitStep(r) \/ CommitFails(r)
    PROVE  TypeOK'
<1>1. run[r] \in RunState /\ run[r].report \in Report
  BY DEF TypeOK, RunState
<1>2. ASSUME NEW pc \in Locked, Goto(r, pc) PROVE run' \in [Runs -> RunState]
  BY <1>2 DEF Goto, TypeOK, RunState
<1>3. ASSUME NEW ok \in BOOLEAN, Committed(r, ok) PROVE run' \in [Runs -> RunState]
  BY <1>3, ZenonT(60) DEF Committed, TypeOK, RunState, Locked
<1>4. CASE OpenFile(r)
  BY <1>1, <1>2, <1>4 DEF OpenFile, TypeOK, TempFile, Locked, worldVars, spoolVars
<1>5. CASE FillFile(r)
  <2>1. file' \in SUBSET TempFile
    BY <1>1, <1>5 DEF FillFile, Filled, TypeOK, TempFile
  <2> QED
    BY <1>2, <1>5, <2>1 DEF FillFile, TypeOK, Locked, worldVars, spoolVars
<1>6. CASE CommitOk(r)
  BY <1>3, <1>6, PublishTypes DEF CommitOk, TypeOK, worldVars
<1>7. CASE CommitRefused(r)
  BY <1>3, <1>7 DEF CommitRefused, TypeOK, worldVars, spoolVars
<1>8. CASE CommitFails(r)
  <2>1. pending' \in BOOLEAN /\ published' \in SUBSET TempFile
        /\ carried' \in [Modules -> Version]
    BY <1>8, PublishTypes DEF CommitFails, TypeOK, spoolVars
  <2> QED
    BY <1>3, <1>8, <2>1, FaultTypes DEF CommitFails, TypeOK, worldVars
<1>9. CASE RemoveFile(r)
  BY <1>2, <1>9, ExitTypes DEF RemoveFile, TypeOK, Locked, worldVars, spoolVars
<1>10. CASE CommitPdf(r)
  BY <1>10, ExitTypes DEF CommitPdf, TypeOK, worldVars, spoolVars
<1> QED
  BY <1>4, <1>5, <1>6, <1>7, <1>8, <1>9, <1>10 DEF CommitStep

\* The steps that end a run at once: an exit, and nothing else but the fault.
EndsAtOnce(r) ==
    /\ ~At(r, "off")
    /\ \E code \in {0, 1} : Exit(r, code)
    /\ UNCHANGED <<worldVars, file, spoolVars>>
    /\ faults' \in Nat

LEMMA FaultsEnd ==
    ASSUME TypeOK, NEW r \in Runs, FaultStep(r)
    PROVE  \/ EndsAtOnce(r) \/ CommitFails(r)
           \/ \E m \in Modules : ModuleSilent(r, m)
<1>1. CASE LockFails(r) \/ WriteFails(r) \/ RemoveRaises(r) \/ KillRun(r)
  <2>1. faults' \in Nat
    BY <1>1, FaultTypes DEF LockFails, WriteFails, RemoveRaises, KillRun
  <2>2. ~At(r, "off") /\ UNCHANGED <<worldVars, file, spoolVars>>
    BY <1>1 DEF LockFails, WriteFails, RemoveRaises, KillRun, At
  <2>3. \E code \in {0, 1} : Exit(r, code)
    BY <1>1 DEF LockFails, WriteFails, RemoveRaises, KillRun
  <2> QED
    BY <2>1, <2>2, <2>3 DEF EndsAtOnce
<1>2. ASSUME NEW m \in Modules, ModuleRaises(r, m) PROVE EndsAtOnce(r)
  <2>1. faults' \in Nat
    BY <1>2, FaultTypes DEF ModuleRaises
  <2> QED
    BY <1>2, <2>1 DEF ModuleRaises, EndsAtOnce, At
<1>3. \/ LockFails(r) \/ WriteFails(r) \/ RemoveRaises(r) \/ KillRun(r)
      \/ CommitFails(r) \/ \E m \in Modules : ModuleSilent(r, m) \/ ModuleRaises(r, m)
  BY Zenon DEF FaultStep
<1> QED
  BY <1>1, <1>2, <1>3, Zenon

LEMMA TypeInductive == ASSUME TypeOK, [Next]_vars PROVE TypeOK'
<1>1. CASE UNCHANGED vars
  BY <1>1 DEF TypeOK, vars, worldVars, spoolVars
<1>2. CASE SystemStep
  BY <1>2, SystemTypes
<1>3. ASSUME NEW r \in Runs, EndsAtOnce(r) PROVE TypeOK'
  BY <1>3, ExitTypes DEF EndsAtOnce, TypeOK, worldVars, spoolVars
<1>4. ASSUME NEW r \in Runs, CollectStep(r) \/ CommitStep(r) \/ FaultStep(r) \/ StartByHand(r)
      PROVE  TypeOK'
  BY <1>3, <1>4, CollectTypes, CommitTypes, FaultsEnd
<1> QED
  BY <1>1, <1>2, <1>4 DEF Next

LEMMA TypeInit == ASSUME Init PROVE TypeOK
<1>1. 0 \in Version /\ 1 \in Version
  BY NumbersAssumption DEF Version
<1>2. facts \in [Modules -> Version] /\ Silent \in [Modules -> Version]
  BY <1>1 DEF Init, Silent
<1>3. run \in [Runs -> RunState]
  BY NoRunType DEF Init
<1> QED
  BY <1>2, <1>3 DEF Init, TypeOK

\* The collector keeps the types of its state.
THEOREM TypeCorrect == Spec => []TypeOK
<1>1. Init => TypeOK
  BY TypeInit
<1>2. TypeOK /\ [Next]_vars => TypeOK'
  BY TypeInductive
<1> QED
  BY <1>1, <1>2, PTL DEF Spec

-----------------------------------------------------------------------------
\* What a step of a run does to the run and to the lock: it keeps the lock,
\* gives it up with all its state, begins, or takes a free lock.
Stays(r) ==
    /\ run[r].pc \in Locked /\ run'[r].pc \in Locked
    /\ \A q \in Runs \ {r} : run'[q] = run[q]
    /\ UNCHANGED lock

Begins(r) == At(r, "off") /\ Begin(r) /\ UNCHANGED lock

Takes(r) ==
    /\ At(r, "start") /\ lock = {} /\ lock' = {r}
    /\ run'[r].pc = "collect" /\ run'[r].report = Silent
    /\ \A q \in Runs \ {r} : run'[q] = run[q]

RunStep(r) == CollectStep(r) \/ CommitStep(r) \/ FaultStep(r) \/ StartByHand(r)

\* The steps of a run between taking and leaving the lock.
InnerStep(r) ==
    \/ \E m \in Modules : ModuleAnswers(r, m) \/ ModuleSilent(r, m)
    \/ Collected(r) \/ Wake(r) \/ OpenFile(r) \/ FillFile(r)
    \/ CommitOk(r) \/ CommitRefused(r) \/ CommitFails(r)

LEMMA InnerStays ==
    ASSUME TypeOK, NEW r \in Runs, InnerStep(r)
    PROVE  Stays(r) /\ run'[r].pc # "pdf"
<1>1. run \in [Runs -> RunState]
  BY DEF TypeOK
<1>2. ASSUME NEW m \in Modules, ModuleAnswers(r, m) \/ ModuleSilent(r, m)
      PROVE  Stays(r) /\ run'[r].pc = "collect"
  <2>1. At(r, "collect") /\ UNCHANGED lock
    BY <1>2 DEF ModuleAnswers, ModuleSilent
  <2>2. CASE ModuleAnswers(r, m)
    BY <1>1, <2>1, <2>2 DEF ModuleAnswers, Stays, At, RunState, Locked
  <2>3. CASE ModuleSilent(r, m)
    <3>1. PICK rest \in 0 .. Window :
            run' = [run EXCEPT ![r].todo = @ \ {m}, ![r].left = rest]
      BY <2>3 DEF ModuleSilent
    <3> QED
      BY <1>1, <2>1, <3>1 DEF Stays, At, RunState, Locked
  <2> QED
    BY <1>2, <2>2, <2>3
<1>3. CASE Collected(r) \/ Wake(r)
  BY <1>1, <1>3 DEF Collected, Wake, NewAttempt, Goto, Stays, At, RunState, Locked
<1>4. CASE OpenFile(r) \/ FillFile(r)
  BY <1>1, <1>4 DEF OpenFile, FillFile, Goto, Stays, At, RunState, Locked
<1>5. CASE CommitOk(r) \/ CommitRefused(r) \/ CommitFails(r)
  BY <1>1, <1>5 DEF CommitOk, CommitRefused, CommitFails, Committed, Stays, At, RunState, Locked
<1> QED
  BY <1>2, <1>3, <1>4, <1>5 DEF InnerStep

\* Every step of a run is one of these or one of its borders.
LEMMA StepCases ==
    ASSUME TypeOK, NEW r \in Runs, RunStep(r)
    PROVE  \/ InnerStep(r) \/ StartByHand(r) \/ AcquireLock(r)
           \/ RemoveFile(r) \/ CommitPdf(r) \/ EndsAtOnce(r)
<1>1. CASE CollectStep(r)
  BY <1>1, ModulesAssumption DEF CollectStep, InnerStep
<1>2. CASE CommitStep(r)
  BY <1>2 DEF CommitStep, InnerStep
<1>3. CASE FaultStep(r)
  BY <1>3, FaultsEnd DEF InnerStep
<1> QED
  BY <1>1, <1>2, <1>3 DEF RunStep

LEMMA StepKinds ==
    ASSUME TypeOK, NEW r \in Runs, RunStep(r)
    PROVE  \/ Stays(r) \/ Begins(r) \/ Takes(r)
           \/ \E code \in {0, 1} : Exit(r, code)
<1>1. run \in [Runs -> RunState]
  BY DEF TypeOK
<1>2. CASE AcquireLock(r)
  <2>1. CASE lock = {}
    BY <1>1, <1>2, <2>1 DEF AcquireLock, Takes, RunState
  <2>2. CASE lock # {}
    BY <1>2, <2>2 DEF AcquireLock
  <2> QED
    BY <2>1, <2>2
<1>3. CASE RemoveFile(r) \/ CommitPdf(r)
  BY <1>1, <1>3 DEF RemoveFile, CommitPdf, Goto, Stays, At, RunState, Locked
<1>4. CASE EndsAtOnce(r)
  BY <1>4 DEF EndsAtOnce
<1>5. CASE StartByHand(r)
  BY <1>5 DEF StartByHand, Begins
<1> QED
  BY <1>2, <1>3, <1>4, <1>5, StepCases, InnerStays

\* One run at most has the lock.
LEMMA LockInductive == ASSUME TypeOK, LockInv, [Next]_vars PROVE LockInv'
<1>1. run \in [Runs -> RunState] /\ RunsAssumption
  BY RunsAssumption DEF TypeOK
<1>2. ASSUME UNCHANGED <<run, lock>> PROVE LockInv'
  BY <1>2 DEF LockInv
<1>3. ASSUME NEW r \in Runs, Begins(r) PROVE LockInv'
  BY <1>1, <1>3 DEF Begins, Begin, LockInv, At, NoRun, RunState, Locked
<1>4. ASSUME NEW r \in Runs, Stays(r) PROVE LockInv'
  BY <1>4 DEF Stays, LockInv
<1>5. ASSUME NEW r \in Runs, Takes(r) PROVE LockInv'
  BY <1>5 DEF Takes, LockInv, Locked
<1>6. ASSUME NEW r \in Runs, NEW code, Exit(r, code) PROVE LockInv'
  BY <1>1, <1>6 DEF Exit, LockInv, NoRun, Locked
<1>7. CASE SystemStep
  <2>1. CASE StartUnit \/ \E m \in Modules : Trigger(m)
    BY <1>1, <1>2, <1>3, <2>1, RunsAssumption DEF StartUnit, Trigger, Begins
  <2>2. CASE IngestTakes \/ \E m \in Modules : Change(m) \/ TriggerFails(m)
    BY <1>2, <2>2 DEF IngestTakes, Change, TriggerFails
  <2>3. CASE Reboot
    BY <2>3 DEF Reboot, LockInv, NoRun, Locked
  <2> QED
    BY <1>7, <2>1, <2>2, <2>3 DEF SystemStep
<1>8. ASSUME NEW r \in Runs, RunStep(r) PROVE LockInv'
  BY <1>3, <1>4, <1>5, <1>6, <1>8, StepKinds
<1> QED
  BY <1>2, <1>7, <1>8 DEF Next, RunStep, vars

-----------------------------------------------------------------------------
\* Runs that begin or end leave the file and the spool to the others.
LEMMA FileKept ==
    ASSUME FileInv, UNCHANGED <<file, published>>,
           \A q \in Runs : run'[q] = run[q] \/ run'[q].pc \in {"off", "start", "collect"}
    PROVE  FileInv'
<1>1. ASSUME NEW q \in Runs, run'[q] = run[q]
      PROVE  /\ At(q, "fill")' => file' = {Written(q, FALSE)'}
             /\ At(q, "commit")' => file' = {Written(q, TRUE)'}
             /\ At(q, "pdf")' \/ (At(q, "clean")' /\ run'[q].ok)
                  => published' = {Written(q, TRUE)'}
  BY <1>1 DEF FileInv, At, Written
<1>2. ASSUME NEW q \in Runs, run'[q].pc \in {"off", "start", "collect"}
      PROVE  ~At(q, "fill")' /\ ~At(q, "commit")' /\ ~At(q, "pdf")' /\ ~At(q, "clean")'
  BY <1>2 DEF At
<1> QED
  BY <1>1, <1>2 DEF FileInv

\* While a run has the lock, the file is that run's alone.
LEMMA FileAlone ==
    ASSUME LockInv', NEW r \in Runs, run'[r].pc \in Locked,
           \A f \in published' : f.whole,
           At(r, "fill")' => file' = {Written(r, FALSE)'},
           At(r, "commit")' => file' = {Written(r, TRUE)'},
           At(r, "pdf")' \/ (At(r, "clean")' /\ run'[r].ok)
              => published' = {Written(r, TRUE)'}
    PROVE  FileInv'
<1>1. ASSUME NEW q \in Runs, q # r PROVE run'[q].pc \notin Locked
  BY <1>1 DEF LockInv
<1> QED
  BY <1>1 DEF FileInv, At, Locked

LEMMA FileInductive ==
    ASSUME TypeOK, CommitInv, [Next]_vars PROVE FileInv'
<1>1. run \in [Runs -> RunState] /\ RunsAssumption /\ LockInv'
  BY RunsAssumption, LockInductive DEF TypeOK, CommitInv
<1>2. ASSUME UNCHANGED <<run, file, published>> PROVE FileInv'
  BY <1>2, FileKept DEF CommitInv
<1>3. CASE SystemStep
  <2>1. CASE StartUnit \/ \E m \in Modules : Trigger(m) \/ Change(m) \/ TriggerFails(m)
    <3>1. UNCHANGED <<file, published>>
      BY <2>1 DEF StartUnit, Trigger, Change, TriggerFails, spoolVars
    <3>2. \A q \in Runs : run'[q] = run[q] \/ run'[q].pc = "start"
      BY <1>1, <2>1 DEF StartUnit, Trigger, Change, TriggerFails, Begin, NoRun
    <3> QED
      BY <3>1, <3>2, FileKept DEF CommitInv
  <2>2. CASE IngestTakes
    BY <1>2, <2>2 DEF IngestTakes
  <2>3. CASE Reboot
    BY <2>3 DEF Reboot, FileInv, CommitInv, NoRun, At, spoolVars
  <2> QED
    BY <1>3, <2>1, <2>2, <2>3 DEF SystemStep
<1>4. ASSUME NEW r \in Runs, RunStep(r) PROVE FileInv'
  <2>1. CASE AcquireLock(r) \/ StartByHand(r) \/ EndsAtOnce(r) \/ CommitPdf(r)
    <3>1. UNCHANGED <<file, published>>
      BY <2>1 DEF AcquireLock, StartByHand, EndsAtOnce, CommitPdf, spoolVars
    <3>2. \A q \in Runs : run'[q] = run[q] \/ run'[q].pc \in {"off", "start", "collect"}
      BY <1>1, <2>1 DEF AcquireLock, StartByHand, EndsAtOnce, CommitPdf, Begin, Exit,
                        NoRun, RunState
    <3> QED
      BY <3>1, <3>2, FileKept DEF CommitInv
  <2>2. ASSUME NEW m \in Modules, ModuleAnswers(r, m) \/ ModuleSilent(r, m) PROVE FileInv'
    <3>1. UNCHANGED <<file, published>>
      BY <2>2 DEF ModuleAnswers, ModuleSilent, spoolVars
    <3>2. \A q \in Runs : run'[q] = run[q] \/ run'[q].pc = "collect"
      <4>1. CASE ModuleAnswers(r, m)
        BY <1>1, <4>1 DEF ModuleAnswers, At, RunState
      <4>2. CASE ModuleSilent(r, m)
        BY <1>1, <4>2 DEF ModuleSilent, At, RunState
      <4> QED
        BY <2>2, <4>1, <4>2
    <3> QED
      BY <3>1, <3>2, FileKept DEF CommitInv
  <2>3. CASE Collected(r) \/ Wake(r)
    <3>1. UNCHANGED <<file, published>>
      BY <2>3 DEF Collected, Wake, spoolVars
    <3>2. run'[r].pc \in {"write", "pause", "collect"}
      BY <1>1, <2>3 DEF Collected, Wake, NewAttempt, Goto, RunState
    <3> QED
      BY <1>1, <3>1, <3>2, FileAlone DEF At, Locked, FileInv, CommitInv
  <2>4. CASE OpenFile(r)
    <3>1. /\ run'[r].pc = "fill" /\ run'[r].report = run[r].report
          /\ file' = {Written(r, FALSE)} /\ UNCHANGED published
      BY <1>1, <2>4 DEF OpenFile, Goto, RunState, Written, spoolVars
    <3> QED
      BY <1>1, <3>1, FileAlone DEF At, Locked, FileInv, CommitInv, Written
  <2>5. CASE FillFile(r)
    <3>1. file = {Written(r, FALSE)}
      BY <2>5 DEF FillFile, FileInv, CommitInv
    <3>2. file' = {Written(r, TRUE)}
      BY <2>5, <3>1 DEF FillFile, Filled, Written
    <3>3. Goto(r, "commit") /\ UNCHANGED published
      BY <2>5 DEF FillFile, spoolVars
    <3>4. run'[r].pc = "commit" /\ run'[r].report = run[r].report
      BY <1>1, <3>3 DEF Goto, RunState
    <3> QED
      BY <1>1, <3>2, <3>3, <3>4, FileAlone DEF At, Locked, FileInv, CommitInv, Written
  <2>6. CASE CommitOk(r) \/ CommitRefused(r) \/ CommitFails(r)
    <3>1. file = {Written(r, TRUE)}
      BY <2>6 DEF CommitOk, CommitRefused, CommitFails, FileInv, CommitInv
    <3>2. /\ run'[r].pc = "clean" /\ run'[r].report = run[r].report
          /\ published' = published \/ published' = file
          /\ run'[r].ok => published' = file
      <4>1. Publish => published' = file
        BY <3>1 DEF Publish
      <4>2. CASE CommitOk(r)
        BY <1>1, <2>6, <4>1, <4>2 DEF CommitOk, Committed, RunState
      <4>3. CASE CommitRefused(r) \/ CommitFails(r)
        <5>1. Committed(r, FALSE)
          BY <4>3 DEF CommitRefused, CommitFails
        <5>2. published' = published \/ published' = file
          BY <4>1, <4>3 DEF CommitRefused, CommitFails, spoolVars
        <5> QED
          BY <1>1, <5>1, <5>2 DEF Committed, RunState
      <4> QED
        BY <2>6, <4>2, <4>3
    <3>3. \A f \in published' : f.whole
      BY <3>1, <3>2 DEF Written, FileInv, CommitInv
    <3> QED
      BY <1>1, <3>1, <3>2, <3>3, FileAlone DEF At, Locked, Written
  <2>7. CASE RemoveFile(r)
    <3>1. CASE run[r].ok
      <4>1. /\ run'[r].pc = "pdf" /\ run'[r].report = run[r].report
            /\ published = {Written(r, TRUE)} /\ UNCHANGED published
        BY <1>1, <2>7, <3>1, ZenonT(60) DEF RemoveFile, Goto, RunState, FileInv, CommitInv, spoolVars
      <4> QED
        BY <1>1, <4>1, FileAlone DEF At, Locked, FileInv, CommitInv, Written
    <3>2. CASE ~run[r].ok
      <4>1. Exit(r, 1) /\ file' = {} /\ UNCHANGED published /\ At(r, "clean")
        BY <2>7, <3>2 DEF RemoveFile, spoolVars
      <4>2. \A q \in Runs : run'[q].pc \notin Locked
        BY <1>1, <4>1 DEF Exit, NoRun, At, Locked, LockInv, CommitInv
      <4> QED
        BY <4>1, <4>2 DEF FileInv, CommitInv, At, Locked
    <3> QED
      BY <3>1, <3>2
  <2>8. CASE CollectStep(r)
    BY <2>1, <2>2, <2>3, <2>8, ModulesAssumption DEF CollectStep
  <2>9. CASE CommitStep(r)
    BY <2>1, <2>4, <2>5, <2>6, <2>7, <2>9 DEF CommitStep
  <2>10. CASE FaultStep(r)
    BY <2>1, <2>2, <2>6, <2>10, FaultsEnd
  <2> QED
    BY <1>4, <2>1, <2>8, <2>9, <2>10 DEF RunStep
<1> QED
  BY <1>2, <1>3, <1>4 DEF Next, RunStep, vars, spoolVars

-----------------------------------------------------------------------------
\* What a run publishes is its own report, which is no older than the spool.
LEMMA PublishRaises ==
    ASSUME TypeOK, CommitInv, NEW r \in Runs, At(r, "commit"), Publish
    PROVE  /\ published' = {Written(r, TRUE)}
           /\ \A m \in Modules :
                 /\ run[r].report[m] # 0 => carried[m] <= run[r].report[m]
                                           /\ carried'[m] = run[r].report[m]
                 /\ run[r].report[m] = 0 => carried'[m] = carried[m]
                 /\ carried'[m] <= facts[m]
<1>1. file = {Written(r, TRUE)} /\ r \in lock
  BY DEF CommitInv, FileInv, LockInv, At, Locked
<1>2. /\ published' = {Written(r, TRUE)}
      /\ carried' = [m \in Modules |->
            IF run[r].report[m] > carried[m] THEN run[r].report[m] ELSE carried[m]]
  <2>1. PICK f \in file : published' = {f} /\ carried' = [m \in Modules |->
                IF f.body[m] > carried[m] THEN f.body[m] ELSE carried[m]]
    BY DEF Publish
  <2>2. f = Written(r, TRUE) /\ f.body = run[r].report
    BY <1>1, <2>1 DEF Written
  <2> QED
    BY <2>1, <2>2
<1>3. ASSUME NEW m \in Modules
      PROVE  run[r].report[m] \in Nat /\ carried[m] \in Nat /\ facts[m] \in Nat
  BY NumbersAssumption DEF TypeOK, RunState, Report, Version
<1>4. ASSUME NEW m \in Modules
      PROVE  /\ carried[m] <= facts[m]
             /\ run[r].report[m] # 0 => carried[m] <= run[r].report[m]
                                        /\ run[r].report[m] <= facts[m]
  BY <1>1 DEF CommitInv, AgeInv
<1> QED
  BY <1>2, <1>3, <1>4

\* The reports of the runs and the facts stay as they are, or the facts grow.
LEMMA AgeKept ==
    ASSUME TypeOK, CommitInv, UNCHANGED carried, lock' \subseteq lock,
           \A m \in Modules : facts'[m] \in Nat /\ facts[m] <= facts'[m],
           \A q \in lock' : run'[q].report = run[q].report
    PROVE  AgeInv'
<1>1. ASSUME NEW m \in Modules
      PROVE  facts[m] \in Nat /\ carried[m] \in Nat /\ \A q \in lock : run[q].report[m] \in Nat
  BY NumbersAssumption DEF TypeOK, RunState, Report, Version
<1> QED
  BY <1>1 DEF AgeInv, CommitInv

LEMMA AgeInductive ==
    ASSUME TypeOK, CommitInv, [Next]_vars PROVE AgeInv'
<1>1. /\ run \in [Runs -> RunState] /\ lock \subseteq Runs /\ RunsAssumption
      /\ LockInv /\ AgeInv
      /\ \A m \in Modules : facts[m] \in Nat /\ carried[m] \in Nat
  BY RunsAssumption, NumbersAssumption DEF TypeOK, CommitInv, Version
<1>2. ASSUME UNCHANGED <<run, lock, facts, carried>> PROVE AgeInv'
  BY <1>1, <1>2, AgeKept
<1>3. ASSUME NEW r \in Runs, Begins(r), UNCHANGED <<facts, carried>> PROVE AgeInv'
  <2>1. lock' = lock /\ r \notin lock /\ \A q \in lock : run'[q] = run[q]
    BY <1>1, <1>3 DEF Begins, Begin, LockInv, At, Locked
  <2> QED
    BY <1>1, <1>3, <2>1, AgeKept
<1>4. CASE SystemStep
  <2>1. CASE StartUnit \/ \E m \in Modules : Trigger(m)
    BY <1>1, <1>2, <1>3, <2>1 DEF StartUnit, Trigger, Begins, worldVars, spoolVars
  <2>2. CASE IngestTakes \/ \E m \in Modules : TriggerFails(m)
    BY <1>2, <2>2 DEF IngestTakes, TriggerFails, worldVars, spoolVars
  <2>3. ASSUME NEW m \in Modules, Change(m) PROVE AgeInv'
    <3>1. \A n \in Modules : facts'[n] \in Nat /\ facts[n] <= facts'[n]
      BY <1>1, <2>3 DEF Change, TypeOK
    <3> QED
      BY <2>3, <3>1, AgeKept DEF Change, spoolVars
  <2>4. CASE Reboot
    BY <1>1, <2>4, AgeKept DEF Reboot, worldVars, spoolVars
  <2> QED
    BY <1>4, <2>1, <2>2, <2>3, <2>4 DEF SystemStep
<1>5. ASSUME NEW r \in Runs, RunStep(r) PROVE AgeInv'
  <2>1. ASSUME NEW code, Exit(r, code), UNCHANGED <<facts, carried>> PROVE AgeInv'
    <3>1. lock' \subseteq lock /\ \A q \in lock' : run'[q] = run[q]
      BY <1>1, <2>1 DEF Exit
    <3> QED
      BY <1>1, <2>1, <3>1, AgeKept
  <2>2. ASSUME lock' = {r}, UNCHANGED <<facts, carried>>,
               \A m \in Modules : run'[r].report[m] # 0 =>
                  carried[m] <= run'[r].report[m] /\ run'[r].report[m] <= facts[m]
        PROVE  AgeInv'
    BY <1>1, <2>2 DEF AgeInv
  <2>3. r \in lock => lock = {r}
    BY <1>1 DEF LockInv
  <2>4. CASE AcquireLock(r)
    <3>1. UNCHANGED <<facts, carried>>
      BY <2>4 DEF AcquireLock, worldVars, spoolVars
    <3>2. CASE lock = {}
      <4>1. lock' = {r} /\ run'[r].report = Silent
        BY <1>1, <2>4, <3>2 DEF AcquireLock, RunState
      <4> QED
        BY <2>2, <3>1, <4>1 DEF Silent
    <3>3. CASE lock # {}
      BY <2>1, <2>4, <3>1, <3>3 DEF AcquireLock
    <3> QED
      BY <3>2, <3>3
  <2>5. ASSUME NEW m \in Modules, ModuleAnswers(r, m) PROVE AgeInv'
    <3>1. /\ UNCHANGED <<facts, carried, lock>> /\ At(r, "collect")
          /\ run' = [run EXCEPT ![r].todo = @ \ {m}, ![r].report[m] = facts[m]]
      BY <2>5 DEF ModuleAnswers, worldVars, spoolVars
    <3>2. r \in lock
      BY <1>1, <3>1 DEF LockInv, At, Locked
    <3>3. run'[r].report = [run[r].report EXCEPT ![m] = facts[m]]
      BY <1>1, <3>1 DEF RunState
    <3>4. run[r].report \in [Modules -> Version]
      BY <1>1 DEF RunState, Report
    <3>5. ASSUME NEW n \in Modules, run'[r].report[n] # 0
          PROVE  carried[n] <= run'[r].report[n] /\ run'[r].report[n] <= facts[n]
      <4>1. CASE n = m
        BY <1>1, <3>3, <3>4, <4>1 DEF AgeInv
      <4>2. CASE n # m
        BY <1>1, <3>2, <3>3, <3>4, <3>5, <4>2 DEF AgeInv
      <4> QED
        BY <4>1, <4>2
    <3> QED
      BY <2>2, <2>3, <3>1, <3>2, <3>5
  <2>6. CASE Wake(r)
    <3>1. UNCHANGED <<facts, carried, lock>> /\ At(r, "pause") /\ run'[r].report = Silent
      BY <1>1, <2>6 DEF Wake, NewAttempt, RunState, worldVars, spoolVars
    <3>2. r \in lock
      BY <1>1, <3>1 DEF LockInv, At, Locked
    <3> QED
      BY <2>2, <2>3, <3>1, <3>2 DEF Silent
  <2>7. ASSUME UNCHANGED <<facts, carried, lock>>, run'[r].report = run[r].report,
               \A q \in Runs \ {r} : run'[q] = run[q]
        PROVE  AgeInv'
    BY <1>1, <2>7, AgeKept
  <2>8. ASSUME NEW m \in Modules, ModuleSilent(r, m) PROVE AgeInv'
    <3>1. PICK rest \in 0 .. Window :
            run' = [run EXCEPT ![r].todo = @ \ {m}, ![r].left = rest]
      BY <2>8 DEF ModuleSilent
    <3> QED
      BY <1>1, <2>7, <2>8, <3>1 DEF ModuleSilent, RunState, worldVars, spoolVars
  <2>9. CASE Collected(r) \/ OpenFile(r)
    BY <1>1, <2>7, <2>9 DEF Collected, OpenFile, Goto, RunState, worldVars, spoolVars
  <2>10. CASE FillFile(r)
    <3>1. Goto(r, "commit") /\ UNCHANGED <<facts, carried, lock>>
      BY <2>10 DEF FillFile, worldVars, spoolVars
    <3> QED
      BY <1>1, <2>7, <3>1 DEF Goto, RunState
  <2>11. CASE CommitOk(r) \/ CommitRefused(r) \/ CommitFails(r)
    <3>1. /\ At(r, "commit") /\ UNCHANGED <<facts, lock>>
          /\ \E ok \in BOOLEAN : Committed(r, ok)
          /\ Publish \/ UNCHANGED carried
      BY <2>11 DEF CommitOk, CommitRefused, CommitFails, worldVars, spoolVars
    <3>2. run'[r].report = run[r].report /\ \A q \in Runs \ {r} : run'[q] = run[q]
      BY <1>1, <3>1 DEF Committed, RunState
    <3>3. CASE Publish
      <4>1. r \in lock
        BY <1>1, <3>1 DEF LockInv, At, Locked
      <4>2. TypeOK /\ CommitInv
        OBVIOUS
      <4>3. ASSUME NEW m \in Modules
            PROVE  /\ carried'[m] <= facts[m]
                   /\ run[r].report[m] # 0 => carried'[m] <= run[r].report[m]
                                              /\ run[r].report[m] <= facts[m]
        <5>1. run[r].report[m] \in Nat
          BY <1>1, NumbersAssumption DEF RunState, Report, Version
        <5>2. /\ carried'[m] <= facts[m]
              /\ run[r].report[m] # 0 => carried'[m] = run[r].report[m]
          BY <3>1, <3>3, <4>2, PublishRaises
        <5> QED
          BY <1>1, <4>1, <5>1, <5>2 DEF AgeInv
      <4> QED
        BY <2>3, <3>1, <3>2, <4>1, <4>3 DEF AgeInv
    <3> QED
      BY <2>7, <3>1, <3>2, <3>3
  <2>12. CASE RemoveFile(r)
    BY <1>1, <2>1, <2>7, <2>12 DEF RemoveFile, Goto, RunState, worldVars, spoolVars
  <2>13. CASE CommitPdf(r) \/ EndsAtOnce(r)
    BY <2>1, <2>13 DEF CommitPdf, EndsAtOnce, worldVars, spoolVars
  <2>14. CASE StartByHand(r)
    BY <1>3, <2>14 DEF StartByHand, Begins, worldVars, spoolVars
  <2>15. CASE CollectStep(r)
    BY <2>4, <2>5, <2>6, <2>8, <2>9, <2>15, ModulesAssumption DEF CollectStep
  <2>16. CASE CommitStep(r)
    BY <2>9, <2>10, <2>11, <2>12, <2>13, <2>16 DEF CommitStep
  <2>17. CASE FaultStep(r)
    BY <2>8, <2>11, <2>13, <2>17, FaultsEnd
  <2> QED
    BY <1>5, <2>14, <2>15, <2>16, <2>17 DEF RunStep
<1> QED
  BY <1>2, <1>4, <1>5 DEF Next, RunStep, vars, worldVars, spoolVars

-----------------------------------------------------------------------------
\* Only a committed report is followed by the PDF.
LEMMA PdfInductive ==
    ASSUME TypeOK, CommitInv, [Next]_vars PROVE PdfInv'
<1>1. run \in [Runs -> RunState] /\ RunsAssumption /\ PdfInv
  BY RunsAssumption DEF TypeOK, CommitInv
<1>2. CASE UNCHANGED run
  BY <1>1, <1>2 DEF PdfInv, At
<1>3. CASE SystemStep
  <2>1. \A r \in Runs : run'[r] = run[r] \/ run'[r].pc \in {"off", "start"}
    BY <1>1, <1>3 DEF SystemStep, Change, Trigger, TriggerFails, StartUnit, IngestTakes,
                     Reboot, Begin, NoRun
  <2> QED
    BY <1>1, <2>1 DEF PdfInv, At
<1>4. ASSUME NEW r \in Runs, RunStep(r) PROVE PdfInv'
  <2>1. \A q \in Runs \ {r} : run'[q] = run[q]
    BY <1>1, <1>4, StepKinds DEF Stays, Begins, Begin, Takes, Exit
  <2>2. run'[r].pc # "pdf" \/ run'[r].ok
    <3>1. CASE InnerStep(r)
      BY <3>1, InnerStays
    <3>2. CASE StartByHand(r) \/ EndsAtOnce(r) \/ CommitPdf(r)
      BY <1>1, <3>2 DEF StartByHand, EndsAtOnce, CommitPdf, Begin, Exit, NoRun
    <3>3. CASE AcquireLock(r) \/ RemoveFile(r)
      BY <1>1, <3>3 DEF AcquireLock, RemoveFile, Goto, Exit, NoRun, RunState
    <3> QED
      BY <1>4, <3>1, <3>2, <3>3, StepCases
  <2> QED
    BY <1>1, <2>1, <2>2 DEF PdfInv, At
<1> QED
  BY <1>2, <1>3, <1>4 DEF Next, RunStep, vars

LEMMA CommitInit == ASSUME Init PROVE CommitInv
<1>1. LockInv /\ FileInv /\ PdfInv
  BY DEF Init, NoRun, LockInv, FileInv, PdfInv, At, Locked
<1>2. AgeInv
  BY DEF Init, AgeInv, Silent
<1> QED
  BY <1>1, <1>2 DEF CommitInv

\* The strengthening: lock, file, spool and versions agree in every state.
THEOREM CommitInvariant == Spec => [](TypeOK /\ CommitInv)
<1>1. Init => TypeOK /\ CommitInv
  BY TypeInit, CommitInit
<1>2. TypeOK /\ CommitInv /\ [Next]_vars => (TypeOK /\ CommitInv)'
  BY TypeInductive, LockInductive, FileInductive, PdfInductive,
     AgeInductive DEF CommitInv
<1> QED
  BY <1>1, <1>2, PTL DEF Spec

\* Every report in the spool is the whole report of the run that committed it,
\* however many runs share the temporary file and wherever they are killed.
THEOREM WholeReports == Spec => []CommittedIsWhole
<1>1. CommitInv => CommittedIsWhole
  BY DEF CommitInv, FileInv, CommittedIsWhole, Written
<1> QED
  BY <1>1, CommitInvariant, PTL

\* No report takes a fact back to an older version than the spool has had.
THEOREM NoReportGoesBack == Spec => ReportsNeverGoBack
<1>1. ASSUME TypeOK, CommitInv, [Next]_vars
      PROVE  [published' # published =>
                \A f \in published', m \in Modules :
                    f.body[m] # 0 => f.body[m] >= carried[m]]_vars
  <2>1. SUFFICES ASSUME Next, published' # published, NEW f \in published',
                        NEW m \in Modules, f.body[m] # 0
                 PROVE  f.body[m] >= carried[m]
    BY <1>1
  <2>2. ~SystemStep
    BY <2>1 DEF SystemStep, Change, Trigger, TriggerFails, StartUnit, IngestTakes, Reboot,
                spoolVars
  <2>3. PICK r \in Runs : RunStep(r)
    BY <2>1, <2>2 DEF Next, RunStep
  <2>4. ~StartByHand(r) /\ ~CollectStep(r) /\ ~EndsAtOnce(r)
        /\ \A n \in Modules : ~ModuleSilent(r, n)
    BY <2>1 DEF StartByHand, CollectStep, EndsAtOnce, AcquireLock, ModuleAnswers,
                ModuleSilent, Collected, Wake, spoolVars
  <2>5. ~(OpenFile(r) \/ FillFile(r) \/ CommitRefused(r) \/ RemoveFile(r) \/ CommitPdf(r))
    BY <2>1 DEF OpenFile, FillFile, CommitRefused, RemoveFile, CommitPdf, spoolVars
  <2>6. CommitOk(r) \/ CommitFails(r)
    BY <1>1, <2>3, <2>4, <2>5, FaultsEnd DEF RunStep, CommitStep
  <2>7. At(r, "commit") /\ Publish
    BY <2>1, <2>6 DEF CommitOk, CommitFails, spoolVars
  <2>8. published' = {Written(r, TRUE)} /\
        (run[r].report[m] # 0 => carried[m] <= run[r].report[m])
    BY <1>1, <2>7, PublishRaises
  <2>9. carried[m] \in Nat /\ run[r].report[m] \in Nat
    BY <1>1, NumbersAssumption DEF TypeOK, RunState, Report, Version
  <2> QED
    BY <2>1, <2>8, <2>9 DEF Written
<1> QED
  BY <1>1, CommitInvariant, PTL DEF Spec, ReportsNeverGoBack

\* systemd sees an error exit of its unit.
LEMMA ErrorExit == ASSUME Exit(Unit, 1) PROVE due'
<1>1. 1 # 0
  OBVIOUS
<1>2. due' = (1 # 0)
  BY Zenon DEF Exit
<1> QED
  BY <1>1, <1>2, Zenon

\* systemd starts every run of the unit again that ended without a committed
\* report, unless an exception passed the error handling of the parts.
THEOREM LostRunsRetry == Spec => OnlyExceptionsLoseARun
<1>1. ASSUME TypeOK, CommitInv, [Next]_vars
      PROVE  [run[Unit].pc \in Locked /\ run'[Unit].pc = "off" /\ ~run[Unit].ok
                => \/ due'
                   \/ \E m \in Modules : ModuleRaises(Unit, m)
                   \/ RemoveRaises(Unit)]_vars
  <2>1. SUFFICES ASSUME Next, run[Unit].pc \in Locked, run'[Unit].pc = "off",
                        ~run[Unit].ok, ~RemoveRaises(Unit),
                        \A m \in Modules : ~ModuleRaises(Unit, m)
                 PROVE  due'
    BY <1>1
  <2>2. run \in [Runs -> RunState] /\ Unit \in Runs /\ "off" \notin Locked
    BY <1>1, RunsAssumption DEF TypeOK, Locked
  <2>3. CASE SystemStep
    <3>1. CASE Reboot
      BY <3>1 DEF Reboot
    <3>2. CASE ~Reboot
      <4>1. UNCHANGED run \/ run'[Unit].pc = "start"
        BY <2>2, <2>3, <3>2 DEF SystemStep, Change, Trigger, TriggerFails, StartUnit,
                                IngestTakes, Begin, NoRun
      <4> QED
        BY <2>1, <2>2, <4>1
    <3> QED
      BY <3>1, <3>2
  <2>4. ASSUME NEW r \in Runs, RunStep(r) PROVE due'
    <3>1. CASE r # Unit
      <4>1. run'[Unit] = run[Unit]
        BY <1>1, <2>2, <2>4, <3>1, StepKinds DEF Stays, Begins, Begin, Takes, Exit
      <4> QED
        BY <2>1, <2>2, <4>1
    <3>2. CASE r = Unit
      <4>1. ~InnerStep(Unit) /\ ~StartByHand(Unit) /\ ~AcquireLock(Unit) /\ ~CommitPdf(Unit)
        <5>1. ~InnerStep(Unit)
          BY <1>1, <2>1, <2>2, InnerStays DEF Stays
        <5>2. ~StartByHand(Unit) /\ ~AcquireLock(Unit)
          BY <2>1 DEF StartByHand, AcquireLock, At, Locked
        <5>3. ~CommitPdf(Unit)
          BY <1>1, <2>1, <2>2 DEF CommitPdf, CommitInv, PdfInv
        <5> QED
          BY <5>1, <5>2, <5>3
      <4>2. CASE RemoveFile(Unit)
        <5>1. Exit(Unit, 1)
          BY <2>1, <4>2 DEF RemoveFile
        <5> QED
          BY <5>1, ErrorExit
      <4>3. CASE FaultStep(Unit)
        <5>1. LockFails(Unit) \/ WriteFails(Unit) \/ KillRun(Unit)
          <6>1. ~RemoveRaises(Unit) /\ \A m \in Modules : ~ModuleRaises(Unit, m)
            BY <2>1
          <6>2. ~CommitFails(Unit) /\ \A m \in Modules : ~ModuleSilent(Unit, m)
            BY <4>1 DEF InnerStep
          <6> QED
            BY <4>3, <6>1, <6>2 DEF FaultStep
        <5>2. Exit(Unit, 1)
          BY <5>1 DEF LockFails, WriteFails, KillRun
        <5> QED
          BY <5>2, ErrorExit
      <4>4. CASE CollectStep(Unit) \/ CommitStep(Unit)
        BY <4>1, <4>2, <4>4, ModulesAssumption DEF CollectStep, CommitStep, InnerStep
      <4> QED
        BY <2>4, <3>2, <4>1, <4>3, <4>4 DEF RunStep
    <3> QED
      BY <3>1, <3>2
  <2> QED
    BY <2>1, <2>3, <2>4 DEF Next, RunStep
<1> QED
  BY <1>1, CommitInvariant, PTL DEF Spec, OnlyExceptionsLoseARun

=============================================================================

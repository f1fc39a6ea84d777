---------------------------- MODULE EngineProofs ----------------------------
(* Proofs about Engine, for every catalog (cycles and names of no task       *)
(* included, except where the catalog rule is named), every selection and    *)
(* every outcome of every task.                                              *)
EXTENDS Engine, TLAPS

-----------------------------------------------------------------------------
\* Dependencies: they come earlier in a catalog that obeys the rule.

LEMMA DependenciesAreEarlier ==
    ASSUME NEW D \in Catalogs, ObeysRule(D),
           NEW t \in Tasks, NEW d \in Dependencies(D, Names, t)
    PROVE  d \in Tasks /\ d < t
<1> DEFINE S == {u \in Tasks : u < t}
<1>1. \A y \in Tasks : DependsOf(D, y) \subseteq {u \in Tasks : u < y}
  BY CatalogsAssumption DEF DependsOf, ObeysRule
<1>2. \A y \in S : \A u \in Tasks : u < y => u < t
  BY TasksAreNumbers
<1>3. IsClosedFor(D, S, t)
  BY <1>1, <1>2 DEF IsClosedFor
<1>4. d \in S
  BY <1>3 DEF Dependencies, Names
<1> QED
  BY <1>4

LEMMA DeclaredTypes ==
    ASSUME TypeOK, NEW x
    PROVE  Declared(x) \subseteq Names
BY CatalogsAssumption DEF Declared, DependsOf, TypeOK, Inputs

LEMMA DeclaredStays ==
    ASSUME [Next]_engineVars, NEW x
    PROVE  Declared(x)' = Declared(x)
<1>1. input' = input
  BY DEF Next, engineVars, SelectTasks, AskFor, Pop, EndResolve, StopForDisk,
         RecordUnloaded, StartTask, EndTask, EndRun, Report
<1> QED
  BY <1>1 DEF Declared, DependsOf

\* A step of the runner or of the report.
RunnerStep ==
    \/ StopForDisk \/ EndRun \/ Report
    \/ \E t \in Tasks : \/ \E o \in Outcomes : RecordUnloaded(t, o) \/ EndTask(t, o)
                        \/ StartTask(t)

LEMMA RunnerKeepsLists ==
    ASSUME RunnerStep
    PROVE  /\ UNCHANGED <<input, selected, listVars, setVars>>
           /\ pc \in {"next", "running", "report"}
           /\ pc' \in {"next", "running", "report", "done"}
BY DEF RunnerStep, StopForDisk, EndRun, Report, RecordUnloaded, EndTask, StartTask

-----------------------------------------------------------------------------
\* Every state of a run has its type.
THEOREM EngineTypes == Spec => []TypeOK
<1>1. Init => TypeOK
  BY DEF Init, TypeOK
<1>2. TypeOK /\ [Next]_engineVars => TypeOK'
  <2> SUFFICES ASSUME TypeOK, [Next]_engineVars PROVE TypeOK'
    OBVIOUS
  <2>1. CASE SelectTasks
    <3>1. Selected \subseteq Tasks
      BY ModeTasksAssumption DEF Selected
    <3> QED
      BY <2>1, <3>1 DEF SelectTasks, TypeOK, Names, setVars, resultVars
  <2>2. ASSUME NEW t \in Tasks, AskFor(t) PROVE TypeOK'
    BY <2>2 DEF AskFor, TypeOK, Names, setVars, resultVars
  <2>3. ASSUME NEW x \in Names, Pop(x) PROVE TypeOK'
    BY <2>3, DeclaredTypes DEF Pop, TypeOK, setVars, resultVars
  <2>4. CASE EndResolve
    BY <2>4 DEF EndResolve, TypeOK, listVars, resultVars
  <2>5. ASSUME NEW t \in Tasks, NEW o \in Outcomes, RecordUnloaded(t, o) \/ EndTask(t, o)
        PROVE  TypeOK'
    <3>1. Recorded(o) \in {"ok", "warned", "skipped"}
      BY DEF Recorded, Outcomes
    <3> QED
      BY <2>5, <3>1 DEF RecordUnloaded, EndTask, TypeOK, listVars, setVars
  <2>6. ASSUME NEW t \in Tasks, StartTask(t) PROVE TypeOK'
    BY <2>6 DEF StartTask, TypeOK, listVars, setVars
  <2>7. CASE StopForDisk \/ EndRun \/ Report \/ UNCHANGED engineVars
    BY <2>7 DEF StopForDisk, EndRun, Report, engineVars, TypeOK, listVars, setVars, resultVars
  <2> QED
    BY <2>1, <2>2, <2>3, <2>4, <2>5, <2>6, <2>7 DEF Next
<1> QED
  BY <1>1, <1>2, PTL DEF Spec

-----------------------------------------------------------------------------
\* The resolution.

LEMMA PopKeepsWorklist ==
    ASSUME TypeOK, WorklistInv, NEW x \in Names, Pop(x)
    PROVE  WorklistInv'
<1>1. \A y : Declared(y)' = Declared(y) /\ DependsOf(input.depends, y)' = DependsOf(input.depends, y)
  BY DEF Pop, Declared, DependsOf
<1>2. \A S, t : IsClosedFor(input.depends, S, t)' <=> IsClosedFor(input.depends, S, t)
  BY DEF IsClosedFor, Pop, DependsOf
<1>3. x \in name \cup found
  BY DEF Pop, WorklistInv
<1>4. \A y \in name' \cup found' : y \in stack' \/ Declared(y)' \subseteq found'
  BY <1>1 DEF Pop, WorklistInv
<1>5. stack' \subseteq name' \cup found'
  BY DEF Pop, WorklistInv
<1>6. ASSUME NEW S \in SUBSET Names, NEW t \in name', IsClosedFor(input.depends, S, t)'
      PROVE  found' \subseteq S
  <2>1. t \in name /\ IsClosedFor(input.depends, S, t) /\ found \subseteq S
    BY <1>2, <1>6 DEF WorklistInv, Pop
  <2>2. x = t \/ x \in S
    BY <1>3, <2>1 DEF WorklistInv
  <2>3. Declared(x) \subseteq S
    BY <2>1, <2>2 DEF IsClosedFor, Declared
  <2> QED
    BY <2>1, <2>3 DEF Pop
<1>7. \A t, u \in name' : t = u
  BY DEF Pop, WorklistInv
<1> QED
  BY <1>4, <1>5, <1>6, <1>7 DEF WorklistInv

\* The worklist has lost nothing it must still read and found nothing that
\* is not needed.
THEOREM WorklistInvariant == Spec => []WorklistInv
<1>1. Init => WorklistInv
  BY DEF Init, WorklistInv
<1>2. TypeOK /\ WorklistInv /\ [Next]_engineVars => WorklistInv'
  <2> SUFFICES ASSUME TypeOK, WorklistInv, [Next]_engineVars PROVE WorklistInv'
    OBVIOUS
  <2>1. CASE UNCHANGED <<input, name, stack, found>>
    BY <2>1 DEF WorklistInv, IsClosedFor, DependsOf, Declared
  <2>2. ASSUME NEW t \in Tasks, AskFor(t) PROVE WorklistInv'
    BY <2>2 DEF AskFor, WorklistInv
  <2>3. CASE RunnerStep
    BY <2>1, <2>3, RunnerKeepsLists DEF listVars
  <2>4. CASE SelectTasks \/ EndResolve \/ UNCHANGED engineVars
    BY <2>1, <2>4 DEF SelectTasks, EndResolve, engineVars, listVars
  <2> QED
    BY <2>2, <2>3, <2>4, PopKeepsWorklist DEF Next, RunnerStep
<1> QED
  BY <1>1, <1>2, EngineTypes, PTL DEF Spec

\* What is resolved is read, on the stack, or a selected task still to be
\* asked for.
THEOREM ResolveInvariant == Spec => []ResolveInv
<1>1. Init => ResolveInv
  BY DEF Init, ResolveInv
<1>2. TypeOK /\ WorklistInv /\ ResolveInv /\ [Next]_engineVars => ResolveInv'
  <2> SUFFICES ASSUME TypeOK, WorklistInv, ResolveInv, [Next]_engineVars PROVE ResolveInv'
    OBVIOUS
  <2>0. \A y : Declared(y)' = Declared(y)
    BY DeclaredStays
  <2>1. CASE SelectTasks
    BY <2>1 DEF SelectTasks, ResolveInv, TypeOK, WorklistInv, Init
  <2>2. ASSUME NEW t \in Tasks, AskFor(t) PROVE ResolveInv'
    BY <2>0, <2>2 DEF AskFor, ResolveInv
  <2>3. ASSUME NEW x \in Names, Pop(x) PROVE ResolveInv'
    BY <2>0, <2>3 DEF Pop, ResolveInv
  <2>4. CASE EndResolve
    BY <2>0, <2>4 DEF EndResolve, ResolveInv, listVars
  <2>5. CASE RunnerStep
    BY <2>0, <2>5, RunnerKeepsLists DEF ResolveInv, listVars
  <2>6. CASE UNCHANGED engineVars
    BY <2>0, <2>6 DEF engineVars, ResolveInv, listVars
  <2> QED
    BY <2>1, <2>2, <2>3, <2>4, <2>5, <2>6 DEF Next, RunnerStep
<1> QED
  BY <1>1, <1>2, EngineTypes, WorklistInvariant, PTL DEF Spec

\* When the loop of _dependencies_of ends, its answer is exactly the
\* transitive dependencies, whatever the catalog declares.
THEOREM DependenciesAreExact == Spec => []FindsAllDependencies
<1>1. TypeOK /\ WorklistInv => FindsAllDependencies
  <2> SUFFICES ASSUME TypeOK, WorklistInv, stack = {}, NEW t \in name
               PROVE  /\ IsClosedFor(input.depends, found, t)
                      /\ found = Dependencies(input.depends, Names, t)
    BY DEF FindsAllDependencies
  <2>1. IsClosedFor(input.depends, found, t)
    BY DEF WorklistInv, IsClosedFor, Declared
  <2>2. found \subseteq Dependencies(input.depends, Names, t)
    BY DEF WorklistInv, Dependencies, TypeOK
  <2>3. Dependencies(input.depends, Names, t) \subseteq found
    BY <2>1 DEF Dependencies, TypeOK
  <2> QED
    BY <2>1, <2>2, <2>3
<1> QED
  BY <1>1, EngineTypes, WorklistInvariant, PTL

-----------------------------------------------------------------------------
\* The run.

LEMMA StepRun ==
    ASSUME TypeOK, ResolveInv, RunInv, [Next]_engineVars
    PROVE  RunInv'
<1>1. ASSUME pc \in {"start", "resolve"}, pc' = "resolve",
             UNCHANGED <<input, names, omitted, todo, cur, result, stopped, exit>>
      PROVE  RunInv'
  BY <1>1 DEF RunInv, Clean
<1>2. CASE SelectTasks \/ (\E t \in Tasks : AskFor(t)) \/ (\E x \in Names : Pop(x))
  BY <1>1, <1>2 DEF SelectTasks, AskFor, Pop, setVars, resultVars
<1>3. CASE EndResolve
  <2>1. input.addDeps => \A t \in names' :
            Dependencies(input.depends, Names, t) \cap Tasks \subseteq names'
    <3> SUFFICES ASSUME input.addDeps, NEW t \in names'
                 PROVE  Dependencies(input.depends, Names, t) \cap Tasks \subseteq names'
      OBVIOUS
    <3>1. names' = resolved \cap Tasks /\ t \in resolved
      BY <1>3 DEF EndResolve
    <3>2. IsClosedFor(input.depends, resolved, t)
      BY <1>3, <3>1 DEF EndResolve, ResolveInv, IsClosedFor, Declared
    <3>3. Dependencies(input.depends, Names, t) \subseteq resolved
      BY <3>2 DEF Dependencies, TypeOK
    <3> QED
      BY <3>1, <3>3
  <2>2. input' = input /\ \A t \in Tasks : result[t] = "none"
    BY <1>3 DEF EndResolve, RunInv
  <2>3. names' \subseteq Tasks /\ todo' = names' /\ pc' = "next"
    BY <1>3 DEF EndResolve, TypeOK
  <2>4. UNCHANGED <<cur, result, stopped, exit>> /\ cur = {} /\ exit = 2
    BY <1>3 DEF EndResolve, resultVars, RunInv
  <2> QED
    BY <2>1, <2>2, <2>3, <2>4 DEF RunInv, Clean
<1>4. ASSUME NEW t \in Tasks, NEW o \in Outcomes, RecordUnloaded(t, o)
      PROVE  RunInv'
  <2>1. Recorded(o) \in {"ok", "warned", "skipped"}
    BY DEF Recorded, Outcomes
  <2>2. \A u \in todo' : t < u
    BY <1>4, TasksAreNumbers DEF RecordUnloaded, First, TypeOK
  <2> QED
    BY <1>4, <2>1, <2>2 DEF RecordUnloaded, First, RunInv, TypeOK, Clean, listVars, setVars, resultVars
<1>5. ASSUME NEW t \in Tasks, NEW o \in Outcomes, EndTask(t, o)
      PROVE  RunInv'
  <2>1. Recorded(o) \in {"ok", "warned", "skipped"}
    BY DEF Recorded, Outcomes
  <2>2. cur = {t} /\ t \in names /\ t \notin todo
    BY <1>5 DEF EndTask, RunInv
  <2> QED
    BY <1>5, <2>1, <2>2 DEF EndTask, RunInv, TypeOK, Clean, listVars, setVars, resultVars
<1>6. ASSUME NEW t \in Tasks, StartTask(t)
      PROVE  RunInv'
  <2>1. \A u \in todo' : t < u
    BY <1>6, TasksAreNumbers DEF StartTask, First, TypeOK
  <2>2. \A u \in names \ todo : u < t
    BY <1>6 DEF StartTask, First, RunInv
  <2>3. \A u \in names \ todo' : u <= t
    BY <1>6, <2>2, TasksAreNumbers DEF StartTask, TypeOK
  <2> QED
    BY <1>6, <2>1, <2>2, <2>3 DEF StartTask, First, RunInv, TypeOK, Clean, listVars, setVars, resultVars
<1>7. CASE StopForDisk \/ EndRun
  BY <1>7 DEF StopForDisk, EndRun, RunInv, TypeOK, Clean, listVars, setVars, resultVars
<1>8. CASE Report
  BY <1>8 DEF Report, RunInv, TypeOK, Clean, listVars, setVars, resultVars
<1>9. CASE UNCHANGED engineVars
  BY <1>9 DEF engineVars, RunInv, Clean, listVars, setVars, resultVars
<1> QED
  BY <1>2, <1>3, <1>4, <1>5, <1>6, <1>7, <1>8, <1>9 DEF Next

\* The run set and the results agree with what is left to do.
THEOREM RunInvariant == Spec => []RunInv
<1>1. Init => RunInv
  BY DEF Init, RunInv
<1>2. TypeOK /\ ResolveInv /\ RunInv /\ [Next]_engineVars => RunInv'
  BY StepRun
<1> QED
  BY <1>1, <1>2, EngineTypes, ResolveInvariant, PTL DEF Spec

-----------------------------------------------------------------------------
\* No task is reached before the tasks it depends on (task_catalog.resolve
\* and the order of run_tasks together).
THEOREM DependenciesRunFirst == Spec => []DependenciesFirst
<1>1. TypeOK /\ RunInv => DependenciesFirst
  <2> SUFFICES ASSUME TypeOK, RunInv, ObeysRule(input.depends), NEW t \in names,
                      cur = {t} \/ result[t] # "none",
                      NEW d \in Dependencies(input.depends, Names, t)
               PROVE  /\ d \in names => result[d] # "none"
                      /\ input.addDeps => d \in names
    BY DEF DependenciesFirst
  <2>1. d \in Tasks /\ t \in Tasks /\ d < t
    BY DependenciesAreEarlier DEF TypeOK, Inputs
  <2>2. t \in names \ todo
    BY DEF RunInv
  <2>3. ~(t < d) /\ ~(t <= d)
    BY <2>1, TasksAreNumbers
  <2>4. d \in names => d \notin todo \cup cur
    BY <2>2, <2>3 DEF RunInv
  <2> QED
    BY <2>1, <2>4 DEF RunInv
<1> QED
  BY <1>1, EngineTypes, RunInvariant, PTL

\* Exit code 0 is given only to a complete and clean run.
THEOREM ExitZeroIsTrue == Spec => []ExitZeroIsComplete
<1>1. TypeOK /\ RunInv => ExitZeroIsComplete
  <2> SUFFICES ASSUME TypeOK, RunInv, exit = 0, NEW t \in names
               PROVE  result[t] \in {"ok", "skipped"}
    BY DEF ExitZeroIsComplete, RunInv, Clean
  <2>1. pc = "done" /\ ~stopped /\ result[t] # "warned"
    BY DEF RunInv, Clean
  <2>2. todo = {} /\ cur = {}
    BY <2>1 DEF RunInv
  <2>3. result[t] # "none"
    BY <2>2 DEF RunInv
  <2> QED
    BY <2>1, <2>3 DEF TypeOK
<1> QED
  BY <1>1, EngineTypes, RunInvariant, PTL

\* A stop for disk space leaves a final part of the catalog order.
THEOREM StopIsAPrefix == Spec => []StopLeavesTheRest
<1>1. TypeOK /\ RunInv => StopLeavesTheRest
  <2> SUFFICES ASSUME TypeOK, RunInv, NEW t \in names, NEW u \in names,
                      result[t] = "none", result[u] # "none"
               PROVE  u < t /\ (pc = "done" => exit = 1)
    BY DEF StopLeavesTheRest
  <2>1. t \in todo \cup cur /\ u \in names \ (todo \cup cur)
    BY DEF RunInv
  <2>2. u < t
    <3>1. CASE t \in todo
      BY <2>1, <3>1 DEF RunInv
    <3>2. CASE t \in cur
      <4>1. u <= t /\ u # t
        BY <2>1, <3>2 DEF RunInv
      <4> QED
        BY <4>1, TasksAreNumbers DEF TypeOK
    <3> QED
      BY <2>1, <3>1, <3>2
  <2>3. pc = "done" => exit = 1
    BY <2>1 DEF RunInv, Clean
  <2> QED
    BY <2>2, <2>3
<1> QED
  BY <1>1, EngineTypes, RunInvariant, PTL

=============================================================================

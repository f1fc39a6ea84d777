------------------------------- MODULE Engine -------------------------------
(* One run of the provisioning engine: the entry point (pyntara.py) resolves *)
(* the task set with the worklist of the task catalog (task_catalog.py), the *)
(* task runner (task_runner.py) runs the set in catalog order, and the entry *)
(* point turns the results into the exit code.  A task is its catalog        *)
(* position.  What a task does to the machine is outside, the force list it  *)
(* reads included; how it ends is any of Outcomes.                           *)
EXTENDS Naturals

CONSTANTS
    Tasks,          \* catalog positions
    ModeTasks,      \* the tasks whose modes list the applied mode
    UnknownNames,   \* names that are in no catalog
    Catalogs,       \* what the tasks of a catalog may declare in depends
    NoSelection     \* PYNTARA_TASKS is unset

\* by_name answers None for a name outside the catalog: it has no depends.
\* D is what each task of the catalog declares in depends.
DependsOf(D, x) == IF x \in DOMAIN D THEN D[x] ELSE {}

\* S holds what x declares and what every member of S declares.
IsClosedFor(D, S, x) ==
    /\ DependsOf(D, x) \subseteq S
    /\ \A y \in S : DependsOf(D, y) \subseteq S

\* The transitive dependencies of x among the names of U: the members of
\* every closed set.  The worklist below finds these.
Dependencies(D, U, x) ==
    {d \in U : \A S \in SUBSET U : IsClosedFor(D, S, x) => d \in S}

Names == Tasks \cup UnknownNames

ASSUME TasksAreNumbers == Tasks \subseteq Nat
ASSUME ModeTasksAssumption == ModeTasks \subseteq Tasks
ASSUME CatalogsAssumption == Catalogs \subseteq [Tasks -> SUBSET Names]

VARIABLES
    input,      \* the environment of the run, fixed when it starts
    pc,         \* where the run is
    selected,   \* the tasks the mode or PYNTARA_TASKS asks for
    asked,      \* selected tasks whose dependencies are not resolved yet
    name,       \* the task whose dependencies are asked for
    stack,      \* names found whose own dependencies are not read yet
    found,      \* dependencies of name found so far
    resolved,   \* the selection and the dependencies found for it
    names,      \* the run set
    omitted,    \* dependencies named in the log and not added
    todo,       \* tasks of the run set the runner has not reached
    cur,        \* the task that is running
    result,     \* the recorded result of each task
    stopped,    \* run_tasks returned a stop reason
    exit        \* the exit code, once there is one

listVars    == <<asked, name, stack, found, resolved>>
setVars     == <<names, omitted>>
resultVars  == <<cur, result, stopped, exit>>
engineVars  == <<input, pc, selected, listVars, setVars, todo, resultVars>>

Outcomes == {"ok", "warned", "failed", "raised", "skipped"}

\* The rule of docs/contracts/architecture.md for the shipped catalog: a task
\* names only tasks listed earlier.  Nothing checks it.
ObeysRule(D) == \A t \in Tasks : \A d \in D[t] : d \in Tasks /\ d < t

Inputs == [depends     : Catalogs,
           selection   : SUBSET Names \cup {NoSelection},
           addDeps     : BOOLEAN,
           modeGuessed : BOOLEAN,
           testVault   : BOOLEAN]

\* Type invariant of a run.
TypeOK ==
    /\ input \in Inputs
    /\ pc \in {"start", "resolve", "next", "running", "report", "done"}
    /\ selected \subseteq Tasks
    /\ asked \subseteq Tasks /\ name \subseteq Tasks
    /\ stack \subseteq Names /\ found \subseteq Names /\ resolved \subseteq Names
    /\ names \subseteq Tasks /\ omitted \subseteq Tasks
    /\ todo \subseteq Tasks
    /\ cur \subseteq Tasks
    /\ result \in [Tasks -> {"none", "ok", "warned", "skipped"}]
    /\ stopped \in BOOLEAN
    /\ exit \in {0, 1, 2}

\* 2 stands for a run that has not ended.
Init ==
    /\ input \in Inputs
    /\ pc = "start"
    /\ selected = {} /\ names = {} /\ omitted = {}
    /\ asked = {} /\ name = {} /\ stack = {} /\ found = {} /\ resolved = {}
    /\ todo = {} /\ cur = {}
    /\ result = [t \in Tasks |-> "none"]
    /\ stopped = FALSE
    /\ exit = 2

-----------------------------------------------------------------------------
(* The resolution: _resolve_task_names, resolve and _dependencies_of.        *)

\* PYNTARA_TASKS without the names no catalog has, or the mode's tasks.
Selected ==
    IF input.selection = NoSelection THEN ModeTasks
    ELSE input.selection \cap Tasks

SelectTasks ==
    /\ pc = "start"
    /\ selected' = Selected /\ asked' = Selected /\ resolved' = Selected
    /\ pc' = "resolve"
    /\ UNCHANGED <<input, name, stack, found, setVars, todo, resultVars>>

\* resolve asks for the dependencies of each selected task.
AskFor(t) ==
    /\ pc = "resolve" /\ stack = {} /\ t \in asked
    /\ asked' = asked \ {t}
    /\ name' = {t} /\ stack' = {t} /\ found' = {}
    /\ UNCHANGED <<input, pc, selected, resolved, setVars, todo, resultVars>>

Declared(x) == DependsOf(input.depends, x)

\* Mutant: what an earlier task of the selection brought is not read again.
PopSkipsResolved(x) ==
    /\ pc = "resolve" /\ x \in stack
    /\ found' = found \cup Declared(x)
    /\ resolved' = resolved \cup Declared(x)
    /\ stack' = (stack \ {x}) \cup (Declared(x) \ resolved)
    /\ UNCHANGED <<input, pc, selected, asked, name, setVars, todo, resultVars>>

\* Mutant: a dependency found before is read again.
PopRevisits(x) ==
    /\ pc = "resolve" /\ x \in stack
    /\ found' = found \cup Declared(x)
    /\ resolved' = resolved \cup Declared(x)
    /\ stack' = (stack \ {x}) \cup Declared(x)
    /\ UNCHANGED <<input, pc, selected, asked, name, setVars, todo, resultVars>>

\* Mutant: only the declared dependencies, not theirs.
PopDirect(x) ==
    /\ pc = "resolve" /\ x \in stack
    /\ found' = found \cup Declared(x)
    /\ resolved' = resolved \cup Declared(x)
    /\ stack' = stack \ {x}
    /\ UNCHANGED <<input, pc, selected, asked, name, setVars, todo, resultVars>>

\* One turn of the loop of _dependencies_of.  A name is pushed when it is
\* first found, so the stack holds no name twice and which one is popped does
\* not matter; by_name answers None for a name of no task, which declares
\* nothing.
Pop(x) ==
    /\ pc = "resolve" /\ x \in stack
    /\ found' = found \cup Declared(x)
    /\ resolved' = resolved \cup Declared(x)
    /\ stack' = (stack \ {x}) \cup (Declared(x) \ found)
    /\ UNCHANGED <<input, pc, selected, asked, name, setVars, todo, resultVars>>

\* The run set: the tasks of the catalog that were found, each once; a set of
\* catalog positions is its own catalog order.
EndResolve ==
    /\ pc = "resolve" /\ asked = {} /\ stack = {}
    /\ names' = IF input.addDeps THEN resolved \cap Tasks ELSE selected
    /\ omitted' = (resolved \cap Tasks) \ names'
    /\ todo' = names'
    /\ pc' = "next"
    /\ UNCHANGED <<input, selected, listVars, resultVars>>

-----------------------------------------------------------------------------
\* Mutant: any task of the run set.
FirstAny(t, S) == t \in S

\* The next task of the list, which is in catalog order.
First(t, S) == t \in S /\ \A u \in S : t <= u

\* _warn_result: a failure or an exception becomes a completed result with
\* the reason in its warnings.
Recorded(outcome) ==
    IF outcome \in {"failed", "raised"} THEN "warned" ELSE outcome

\* Before each task the free space is compared with the reserve.
StopForDisk ==
    /\ pc = "next" /\ todo # {}
    /\ stopped' = TRUE
    /\ pc' = "report"
    /\ UNCHANGED <<input, selected, listVars, setVars, todo, cur, result, exit>>

\* The module of the task cannot be imported, or there is none: a result
\* without a run of the task.
RecordUnloaded(t, outcome) ==
    /\ pc = "next" /\ First(t, todo)
    /\ outcome \in {"raised", "skipped"}
    /\ result' = [result EXCEPT ![t] = Recorded(outcome)]
    /\ todo' = todo \ {t}
    /\ UNCHANGED <<input, pc, selected, listVars, setVars, cur, stopped, exit>>

StartTask(t) ==
    /\ pc = "next" /\ First(t, todo)
    /\ todo' = todo \ {t}
    /\ cur' = {t}
    /\ pc' = "running"
    /\ UNCHANGED <<input, selected, listVars, setVars, result, stopped, exit>>

EndTask(t, outcome) ==
    /\ pc = "running" /\ t \in cur
    /\ result' = [result EXCEPT ![t] = Recorded(outcome)]
    /\ cur' = {}
    /\ pc' = "next"
    /\ UNCHANGED <<input, selected, listVars, setVars, todo, stopped, exit>>

EndRun ==
    /\ pc = "next" /\ todo = {}
    /\ pc' = "report"
    /\ UNCHANGED <<input, selected, listVars, setVars, todo, resultVars>>

-----------------------------------------------------------------------------
\* Mutant: the warnings of the run are printed and not counted.
CleanTasksOnly == \A t \in names : result[t] # "warned"

\* Exit code 0: no task ended with warnings, and the run itself has none: no
\* guessed mode, no secrets of the default vault, no stop before the end.
Clean ==
    /\ \A t \in names : result[t] # "warned"
    /\ ~input.modeGuessed /\ ~input.testVault /\ ~stopped

Report ==
    /\ pc = "report"
    /\ exit' = IF Clean THEN 0 ELSE 1
    /\ pc' = "done"
    /\ UNCHANGED <<input, selected, listVars, setVars, todo, cur, result, stopped>>

Next ==
    \/ SelectTasks
    \/ \E t \in Tasks : AskFor(t)
    \/ \E x \in Names : Pop(x)
    \/ EndResolve
    \/ StopForDisk
    \/ \E t \in Tasks : \/ \E o \in Outcomes : RecordUnloaded(t, o) \/ EndTask(t, o)
                        \/ StartTask(t)
    \/ EndRun
    \/ Report

Spec == Init /\ [][Next]_engineVars

\* The engine is one sequential program, and every task ends: the commands a
\* task runs carry their own timeouts.
FairSpec == Spec /\ WF_engineVars(Next)

-----------------------------------------------------------------------------
\* When the loop of _dependencies_of ends, found is the least set closed under
\* depends: every transitive dependency and nothing the task does not need,
\* for a catalog with cycles or with names of no task as well.
FindsAllDependencies ==
    stack = {} => \A t \in name :
        /\ IsClosedFor(input.depends, found, t)
        /\ found = Dependencies(input.depends, Names, t)

\* With a catalog of that rule a task is reached only when everything it
\* depends on, directly or not, has its result, as far as the run set holds it;
\* with the dependencies added the run set holds all of it (task_catalog.resolve).
DependenciesFirst ==
    ObeysRule(input.depends) => \A t \in names : cur = {t} \/ result[t] # "none" =>
        \A d \in Dependencies(input.depends, Names, t) :
            /\ d \in names => result[d] # "none"
            /\ input.addDeps => d \in names

\* Exit code 0 says the machine is as asked: the whole run set has a result
\* of a task that completed without a warning or does not exist, and the
\* mode and the secrets were the ones the user named.
ExitZeroIsComplete ==
    exit = 0 => /\ \A t \in names : result[t] \in {"ok", "skipped"}
                /\ ~input.modeGuessed /\ ~input.testVault

\* A run that stops for disk space has run an initial part of the catalog
\* order: no task was passed over, and the exit code says it stopped.
StopLeavesTheRest ==
    \A t, u \in names : result[t] = "none" /\ result[u] # "none" =>
        /\ u < t
        /\ pc = "done" => exit = 1

\* Every run ends with an exit code, whatever its tasks do and whatever cycles
\* the catalog declares.
EveryRunEnds == <>(pc = "done" /\ exit \in {0, 1})

-----------------------------------------------------------------------------
\* The inductive invariants.  The resolution: what is found but not yet read is
\* on the stack, what is found is needed, and what an earlier task of the
\* selection brought is complete.
WorklistInv ==
    /\ stack \subseteq name \cup found
    /\ \A x \in name \cup found : x \in stack \/ Declared(x) \subseteq found
    /\ \A S \in SUBSET Names, t \in name : IsClosedFor(input.depends, S, t) => found \subseteq S
    /\ \A t, u \in name : t = u

ResolveInv ==
    /\ pc = "start" => name = {} /\ asked = {} /\ resolved = {}
    /\ asked \cup name \cup found \subseteq resolved
    /\ \A x \in resolved : x \in asked \cup stack \/ Declared(x) \subseteq resolved
    /\ pc \notin {"start", "resolve"} => asked = {} /\ stack = {}

\* The run: the run set is resolved, and the results are those of the tasks
\* before the ones still to do.
RunInv ==
    /\ pc \in {"start", "resolve"} => \A t \in Tasks : result[t] = "none"
    /\ pc \in {"start", "resolve"} => names = {} /\ todo = {}
    /\ pc = "running" <=> cur # {}
    /\ \A t, u \in cur : t = u
    /\ todo \subseteq names /\ cur \subseteq names \ todo
    /\ \A t \in names : t \in todo \cup cur <=> result[t] = "none"
    /\ \A t \in names \ todo, u \in todo : t < u
    /\ \A t \in cur, u \in names \ todo : u <= t
    /\ pc \in {"report", "done"} => cur = {} /\ (stopped \/ todo = {})
    /\ pc = "done" <=> exit # 2
    /\ exit = 0 => Clean
    /\ exit # 2 /\ exit # 0 => exit = 1
    /\ input.addDeps => \A t \in names :
          Dependencies(input.depends, Names, t) \cap Tasks \subseteq names

=============================================================================

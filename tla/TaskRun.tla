------------------------------- MODULE TaskRun -------------------------------
(***************************************************************************)
(* The frame every provisioning task of the catalog shares: one run at a   *)
(* time works on the machine, a step that cannot be performed becomes a    *)
(* warning of a completed run, the whole process may be killed between any *)
(* two steps, and the machine may be changed behind the task's back while  *)
(* no run works.  A task module EXTENDS this one and says what the machine *)
(* is (the record sys) and which steps its run takes.                      *)
(***************************************************************************)
EXTENDS Naturals, FiniteSets, Sequences

CONSTANTS
  MaxRuns,      \* bound: how many runs of the task are started
  MaxFaults,    \* bound: how many calls of all runs fail
  MaxKills,     \* bound: how many runs are cut off in the middle
  MaxEvents     \* bound: how often the machine changes between two runs

VARIABLES
  sys,          \* the machine: files, services and kernel state
  run,          \* the run at work, or the answer of the last one
  left          \* what the bounds above still allow

frame == <<sys, run, left>>

\* a run that has answered ("end") or was cut off ("idle") no longer works
AtRest == run.pc \in {"idle", "end"}

NoRun(mem) == [pc |-> "idle", force |-> FALSE, warn |-> FALSE, changed |-> FALSE,
               hurt |-> FALSE, settled |-> FALSE, mem |-> mem]

Budget == [runs |-> MaxRuns, faults |-> MaxFaults, kills |-> MaxKills,
           events |-> MaxEvents]

Goto(r, label)  == [r EXCEPT !.pc = label]
Warned(r)       == [r EXCEPT !.warn = TRUE]
Changed(r)      == [r EXCEPT !.changed = TRUE]
Noted(r, isChange) == [r EXCEPT !.changed = @ \/ isChange]
Recall(r, mem)  == [r EXCEPT !.mem = mem]

(* One step of the run at work. *)
Do(label, machine, r) ==
  /\ run.pc = label
  /\ sys' = machine
  /\ run' = r
  /\ UNCHANGED left

(* The same step when its call fails, and what it leaves of the machine.   *)
FaultLeaving(label, machine, r) ==
  /\ run.pc = label
  /\ left.faults > 0
  /\ left' = [left EXCEPT !.faults = @ - 1]
  /\ run' = [r EXCEPT !.hurt = TRUE]
  /\ sys' = machine

Fault(label, r) == FaultLeaving(label, sys, r)

(* The runner calls the task; settled says that the previous one answered  *)
(* without force and without a warning, and nothing happened since.        *)
Begin(label, force, mem) ==
  /\ AtRest
  /\ left.runs > 0
  /\ left' = [left EXCEPT !.runs = @ - 1]
  /\ run' = [pc |-> label, force |-> force, warn |-> FALSE, changed |-> FALSE,
             hurt |-> FALSE, mem |-> mem,
             settled |-> run.pc = "end" /\ ~run.warn /\ ~run.force]
  /\ UNCHANGED sys

(* The process of the run is killed between two of its steps. *)
Kill ==
  /\ ~AtRest
  /\ left.kills > 0
  /\ left' = [left EXCEPT !.kills = @ - 1]
  /\ run' = NoRun(run.mem)
  /\ UNCHANGED sys

(* The machine changes while no run works on it. *)
Event(machine) ==
  /\ AtRest
  /\ left.events > 0
  /\ left' = [left EXCEPT !.events = @ - 1]
  /\ sys' = machine
  /\ run' = NoRun(run.mem)

-----------------------------------------------------------------------------
(* What a task promises, given the predicate Target on its machine.        *)

\* a plain done result means the machine is in the intended state
CleanRunReaches(Target) == run.pc = "end" /\ ~run.warn => Target

\* a run none of whose own calls failed repairs what earlier runs left behind
FaultFreeRunReaches(Target) == run.pc = "end" /\ ~run.hurt => Target

\* after a clean run an unforced, undisturbed one finds nothing to do
RerunChangesNothing ==
  run.pc = "end" /\ run.settled /\ ~run.force /\ ~run.hurt => ~run.changed

RunType(Labels, Mem) ==
  /\ run \in [pc : Labels \cup {"idle", "end"}, force : BOOLEAN, warn : BOOLEAN,
              changed : BOOLEAN, hurt : BOOLEAN, settled : BOOLEAN, mem : Mem]
  /\ left \in [runs : 0..MaxRuns, faults : 0..MaxFaults, kills : 0..MaxKills,
               events : 0..MaxEvents]
=============================================================================

-------------------------------- MODULE Zram --------------------------------
(***************************************************************************)
(* The compressed swap section: the task, the program it deploys, and the  *)
(* boot service that runs the program.  The program compares every device  *)
(* with the target; where one differs it takes all of them out of use,     *)
(* resets or removes them, adds the missing ones and configures each.      *)
(***************************************************************************)
EXTENDS UnitDeploy

CONSTANT Cores            \* the target is one device for each core

Indices == 0..Cores       \* one more than the target: an extra device

\* a device: none, blank, sized, formatted or on; good when sized to the target
NoDevice == [st |-> "none", good |-> FALSE]
States   == {"none", "blank", "sized", "formatted", "on"}

Fresh == [at |-> 0, pwarn |-> FALSE, pchanged |-> FALSE, by |-> "task"]

Init ==
  /\ \E avail \in BOOLEAN, extra \in BOOLEAN :
       sys = [avail |-> avail, loaded |-> extra,
              dev |-> [i \in Indices |-> IF extra /\ i = Cores
                         THEN [st |-> "on", good |-> FALSE] ELSE NoDevice],
              dep |-> NotDeployed]
  /\ run = NoRun(Fresh)
  /\ left = Budget

There(i)  == sys.dev[i].st # "none"
Existing  == {i \in Indices : There(i)}
Wanted    == 0..(Cores - 1)
ByTask    == run.mem.by = "task"
Mem(r, field, value) == Recall(r, [r.mem EXCEPT ![field] = value])
Warns(r)  == Mem(r, "pwarn", TRUE)
Device(i, state) == [sys EXCEPT !.dev[i] = state]
-----------------------------------------------------------------------------
StartTask == \E force \in BOOLEAN : Begin("module", force, Fresh)

\* the module is available, or comes with a package, or this kernel has none
EnsureModule ==
  \/ /\ sys.avail
     /\ Do("module", sys, Goto(run, "program"))
  \/ /\ ~sys.avail
     /\ \/ Do("module", [sys EXCEPT !.avail = TRUE], Goto(run, "program"))
        \/ Do("module", sys, Goto(Warned(run), "program"))
  \/ Fault("module", Goto(Warned(run), "program"))

Content == IF run.force THEN {"unit", "force"} ELSE {"unit"}

Deploy ==
  \/ DeployProgram("program", "mode", "unit", "end")
  \/ SetProgramMode("mode", "unit", "end")
  \/ WriteUnit("unit", Content, "reload", "enable", "enable")
  \/ ReloadSystemd("reload", "enable")
  \/ EnableUnit("enable", "run")

RunProgram ==
  Do("run", sys, IF sys.dep.exec THEN Goto(run, "read") ELSE Goto(Warned(run), "start"))
-----------------------------------------------------------------------------
Force == IF ByTask THEN run.force ELSE "force" \in sys.dep.loaded

TargetReached ==
  Existing = Wanted /\ \A i \in Wanted : sys.dev[i] = [st |-> "on", good |-> TRUE]
ReadState ==
  Do("read", sys, IF ~Force /\ TargetReached THEN Goto(run, "done")
                                             ELSE Goto(Mem(run, "at", 0), "off"))
\* a mutant for TasksType: one device too many
NextDevicePast(r) == IF r.mem.at > Cores THEN Goto(Mem(r, "at", 0), "load")
                     ELSE Goto(Mem(r, "at", r.mem.at + 1), "off")

\* the devices one after another: out of use, then reset or removed; a device
\* still in use is busy, which is a warning and not the end
NextDevice(r) == IF r.mem.at = Cores THEN Goto(Mem(r, "at", 0), "load")
                                     ELSE Goto(Mem(r, "at", r.mem.at + 1), "off")

Deactivate == LET i == run.mem.at IN
  \/ Do("off", IF sys.dev[i].st = "on" THEN Device(i, [sys.dev[i] EXCEPT !.st = "formatted"])
                                       ELSE sys,
        Goto(run, "reset"))
  \/ /\ sys.dev[i].st = "on"
     /\ Fault("off", Goto(Warns(run), "reset"))

ResetOrRemove == LET i == run.mem.at IN
  \/ /\ sys.dev[i].st \notin {"none", "on"}
     /\ Do("reset", Device(i, IF i \in Wanted THEN [st |-> "blank", good |-> FALSE]
                                              ELSE NoDevice),
           NextDevice(run))
  \/ /\ ~There(i)
     /\ Do("reset", sys, NextDevice(run))
  \/ /\ sys.dev[i].st = "on"
     /\ Do("reset", sys, NextDevice(Warns(run)))
  \/ /\ sys.dev[i].st \notin {"none", "on"}
     /\ Fault("reset", NextDevice(Warns(run)))

\* loading the module creates the first device
LoadModule ==
  \/ /\ sys.avail
     /\ Do("load", IF sys.loaded THEN sys
                   ELSE [sys EXCEPT !.loaded = TRUE, !.dev[0] = [st |-> "blank", good |-> FALSE]],
           Goto(run, "add"))
  \/ /\ ~sys.avail
     /\ Do("load", sys, Goto(Warns(run), "add"))
  \/ Fault("load", Goto(Warns(run), "add"))

\* as many devices as the count is short of, each at the lowest free index
AddDevices ==
  \/ /\ Cardinality(Existing) >= Cores
     /\ Do("add", sys, Goto(run, "configure"))
  \/ /\ sys.loaded /\ Cardinality(Existing) < Cores
     /\ LET free == CHOOSE i \in Indices \ Existing : \A j \in Indices \ Existing : i <= j
        IN Do("add", Device(free, [st |-> "blank", good |-> FALSE]), run)
  \/ /\ ~sys.loaded /\ Cardinality(Existing) < Cores
     /\ Do("add", sys, Goto(Warns(run), "configure"))
  \/ /\ Cardinality(Existing) < Cores
     /\ Fault("add", Goto(Warns(run), "configure"))

\* every wanted device: algorithm and size, signature, activation; the next
\* one is taken up whatever became of this one
NextToConfigure(r) == IF r.mem.at = Cores - 1 THEN Goto(r, "verify")
                      ELSE Goto(Mem(r, "at", r.mem.at + 1), "configure")

Configure == LET i == run.mem.at IN
  \/ /\ sys.dev[i].st = "blank"
     /\ Do("configure", Device(i, [st |-> "sized", good |-> TRUE]), Goto(run, "mkswap"))
  \/ /\ sys.dev[i].st # "blank"
     /\ Do("configure", sys, NextToConfigure(Warns(run)))
  \/ Fault("configure", NextToConfigure(Warns(run)))

Format == LET i == run.mem.at IN
  \/ Do("mkswap", Device(i, [sys.dev[i] EXCEPT !.st = "formatted"]), Goto(run, "swapon"))
  \/ Fault("mkswap", NextToConfigure(Warns(run)))

Activate == LET i == run.mem.at IN
  \/ Do("swapon", Device(i, [sys.dev[i] EXCEPT !.st = "on"]),
        NextToConfigure(Mem(run, "pchanged", TRUE)))
  \/ Fault("swapon", NextToConfigure(Warns(run)))

Verify ==
  \/ Do("verify", sys, Goto(IF TargetReached THEN run ELSE Warns(run), "done"))
  \/ Fault("verify", Goto(Warns(run), "done"))

ProgramLabels == {"read", "off", "reset", "load", "add", "configure", "mkswap",
                  "swapon", "verify"}

\* the boot service has no one to answer
Forgotten(r) ==
  Recall(r, [r.mem EXCEPT !.pwarn = FALSE, !.pchanged = FALSE, !.at = 0])
Answered == IF ByTask THEN "start" ELSE IF run.mem.by = "unit" THEN "end" ELSE "idle"

\* main answers an error, or the bound of the caller expires
ProgramBreaks == \E label \in ProgramLabels :
  FaultLeaving(label, IF ByTask THEN sys ELSE UnitLeft("no"),
               Goto(Forgotten(Warned(run)), Answered))

\* a unit that ends well says nothing of what its program warned of
ProgramDone ==
  \/ /\ ByTask
     /\ Do("done", sys,
           Goto(Forgotten([run EXCEPT !.warn = @ \/ run.mem.pwarn,
                                      !.changed = @ \/ run.mem.pchanged]), Answered))
  \/ /\ ~ByTask
     /\ Do("done", UnitLeft("yes"), Goto(Forgotten(run), Answered))

StartUnit == StartUnitOf("start", Content, Goto(Mem(run, "by", "unit"), "read"))

Reboot == Event([sys EXCEPT !.loaded = FALSE, !.dev = [i \in Indices |-> NoDevice],
                            !.dep = BootedUnits(@)])

BootService ==
  /\ sys.dep.active = "due" /\ sys.dep.exec /\ sys.dep.loaded # {}
  /\ Begin("read", FALSE, [Fresh EXCEPT !.by = "boot"])

\* more memory, or another core count: no device has the right size any more
MoreMemory == Event([sys EXCEPT !.dev = [i \in Indices |-> [@[i] EXCEPT !.good = FALSE]]])
-----------------------------------------------------------------------------
Step ==
  \/ EnsureModule \/ Deploy \/ RunProgram \/ ReadState \/ Deactivate \/ ResetOrRemove
  \/ LoadModule \/ AddDevices \/ Configure \/ Format \/ Activate \/ Verify
  \/ ProgramBreaks \/ ProgramDone \/ StartUnit

Next == Step \/ StartTask \/ BootService \/ Kill \/ Reboot \/ MoreMemory

Spec == Init /\ [][Next]_frame /\ WF_frame(Step)
-----------------------------------------------------------------------------
(* The values of the variables (values/zram_service.py).                   *)
TypeOK ==
  /\ RunType(ProgramLabels \cup {"module", "program", "mode", "unit", "reload", "enable",
                                 "run", "done", "start"},
             [at : Indices, pwarn : BOOLEAN, pchanged : BOOLEAN,
              by : {"task", "unit", "boot"}])
  /\ sys.dev \in [Indices -> [st : States, good : BOOLEAN]]
  /\ {sys.avail, sys.loaded} \subseteq BOOLEAN
  /\ DeployType

(* A plain done result of an unforced task means every device is in use at *)
(* the target size, no extra one is left and the service starts at boot    *)
(* (configure_zram, _verify: the state is read back).                      *)
ZramCleanTask ==
  run.mem.by # "boot" /\ ~run.force =>
    CleanRunReaches(TargetReached /\ sys.dep.enabled)

(* A task none of whose calls failed brings every device to the target,    *)
(* whatever mixture of half configured devices a killed run left behind.   *)
ZramFaultFreeTask ==
  run.mem.by # "boot" /\ sys.dep.exec /\ sys.avail =>
    FaultFreeRunReaches(TargetReached)

(* After a clean run the next one leaves every device alone.               *)
ZramRerunChangesNothing == RerunChangesNothing
=============================================================================

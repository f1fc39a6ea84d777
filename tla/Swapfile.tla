------------------------------ MODULE Swapfile ------------------------------
(***************************************************************************)
(* The swap file section: the task of a run and the boot service it        *)
(* deploys, which runs the same program.  The program sizes, creates,      *)
(* formats and activates the swap file and publishes where a hibernation   *)
(* image is resumed from; the task reads back what was published.          *)
(***************************************************************************)
EXTENDS UnitDeploy

CONSTANTS
  RamTerms,     \* sizes the installed memory asks for
  Disk,         \* free space of the filesystem without the swap file
  Tolerance,    \* by how much a file of the right size may differ
  Offsets       \* places on the disk a new file may start at

NoFile == [size |-> 0, made |-> FALSE, formatted |-> FALSE, offset |-> 0]

Machine == [file |-> NoFile, on |-> FALSE, ram |-> 1,
            grub |-> 0, menu |-> 0, power |-> 0,
            resume |-> FALSE, image |-> FALSE, rule |-> FALSE, snapshot |-> FALSE,
            foreign |-> {"on", "file", "fstab"}, dep |-> NotDeployed]

\* what the processes remember: the device of the swap file was read, the
\* resume file was there before, the size to allocate, the offset reported,
\* the program warned or published, who started it, what the task announced
Fresh == [device |-> FALSE, before |-> FALSE, target |-> 0, offset |-> 0,
          pwarn |-> FALSE, pub |-> FALSE, by |-> "task", claim |-> FALSE]

Init ==
  /\ \E ram \in RamTerms, foreign \in {{}, {"on", "file", "fstab"}} :
       sys = [Machine EXCEPT !.ram = ram, !.foreign = foreign]
  /\ run = NoRun(Fresh)
  /\ left = Budget

Mem(r, field, value) == Recall(r, [r.mem EXCEPT ![field] = value])
-----------------------------------------------------------------------------
(* The task before it runs the program.                                    *)

StartTask == \E force \in BOOLEAN : Begin("packages", force, Fresh)

InstallTools ==
  \/ Do("packages", sys, Goto(run, "foreign_off"))
  \/ Fault("packages", Goto(Warned(run), "foreign_off"))
  \/ Fault("packages", Goto(Warned(run), "end"))         \* swapoff is missing

\* a swap file of another owner: switched off, deleted, its fstab line removed,
\* each whether or not the step before it succeeded
SwitchOffForeign ==
  \/ Do("foreign_off", [sys EXCEPT !.foreign = @ \ {"on"}],
        Goto(Noted(run, "on" \in sys.foreign), "foreign_file"))
  \/ Fault("foreign_off", Goto(Warned(run), "foreign_file"))

DeleteForeign ==
  \/ /\ "on" \notin sys.foreign
     /\ Do("foreign_file", [sys EXCEPT !.foreign = @ \ {"file"}],
           Goto(Noted(run, "file" \in sys.foreign), "foreign_fstab"))
  \/ /\ "on" \in sys.foreign              \* the kernel keeps an active swap file
     /\ Do("foreign_file", sys, Goto(Warned(run), "foreign_fstab"))

ForgetForeign ==
  \/ Do("foreign_fstab", [sys EXCEPT !.foreign = @ \ {"fstab"}],
        Goto(Noted(run, "fstab" \in sys.foreign), "device"))
  \/ Fault("foreign_fstab", Goto(Warned(run), "device"))

ReadDevice ==
  \/ Do("device", sys, Goto(Mem(run, "device", TRUE), "program"))
  \/ Fault("device", Goto(Warned(run), "program"))

\* the unit carries the command line of this run, its --force and its device
Content == {"unit"} \cup (IF run.force THEN {"force"} ELSE {})
                    \cup (IF run.mem.device THEN {"device"} ELSE {})

Deploy ==
  \/ DeployProgram("program", "mode", "unit", "end")
  \/ SetProgramMode("mode", "unit", "end")
  \/ WriteUnit("unit", Content, "reload", "enable", "enable")
  \/ ReloadSystemd("reload", "enable")
  \/ EnableUnit("enable", "run")

RunProgram ==
  \/ /\ sys.dep.exec
     /\ Do("run", sys, Goto(Mem(run, "before", sys.resume), "size"))
  \/ /\ ~sys.dep.exec
     /\ Do("run", sys, Goto(Warned(Mem(run, "before", sys.resume)), "image"))
-----------------------------------------------------------------------------
(* The program.                                                            *)

Smaller(a, b) == IF a <= b THEN a ELSE b

\* min(RAM term, half of what is free now): the file counts as occupied
Target == Smaller(sys.ram, (Disk - sys.file.size) \div 2)

ByTask == run.mem.by = "task"
ForceOfProgram  == IF ByTask THEN run.force ELSE "force" \in sys.dep.loaded
DeviceOfProgram == IF ByTask THEN run.mem.device ELSE "device" \in sys.dep.loaded

SizeIsRight == /\ sys.file.made
               /\ sys.file.size <= Target + Tolerance
               /\ Target <= sys.file.size + Tolerance

ReadState ==
  \/ /\ ~ForceOfProgram /\ SizeIsRight /\ Target > 0
     /\ Do("size", sys, Goto(run, IF sys.on THEN "offset" ELSE "swapon"))
  \/ /\ ForceOfProgram \/ ~SizeIsRight
     /\ Target > 0
     /\ Do("size", sys, Goto(Mem(run, "target", Target), "probe"))
  \/ /\ Target = 0
     /\ Do("size", sys, Goto(run, "failed"))
\* storage the kernel refuses to swap on ends the program before it touches
\* the file
Probe ==
  \/ Do("probe", sys, Goto(run, IF sys.on THEN "swapoff" ELSE "create"))
  \/ Fault("probe", Goto(Mem(run, "pwarn", TRUE), "done"))

SwapOff == Do("swapoff", [sys EXCEPT !.on = FALSE], Goto(run, "create"))

Create == Do("create", [sys EXCEPT !.file = [NoFile EXCEPT !.made = TRUE]],
             Goto(run, "allocate"))

Allocate == \E place \in Offsets :
  Do("allocate", [sys EXCEPT !.file.size = run.mem.target, !.file.offset = place],
     Goto(Mem(run, "target", 0), "format"))

Format == Do("format", [sys EXCEPT !.file.formatted = TRUE], Goto(run, "swapon"))

SwapOn ==
  \/ /\ sys.file.formatted
     /\ Do("swapon", [sys EXCEPT !.on = TRUE], Goto(Noted(run, ByTask), "offset"))
  \/ /\ ~sys.file.formatted                  \* the kernel finds no signature
     /\ Do("swapon", sys, Goto(run, "failed"))
\* a session started from a snapshot leaves the address of the machine alone, and
\* so does one whose root cannot be told
ReadOffset ==
  \/ Do("offset", sys, Goto(Mem(run, "offset", sys.file.offset),
                            IF sys.snapshot THEN "done" ELSE "grub"))
  \/ \E offset \in {0, sys.file.offset} :
       Fault("offset", Goto(Mem(run, "offset", offset), "done"))

\* a step of the publication that fails is reported and the next one is taken,
\* one that runs into its time bound ends the publication
Unpublished(label, next) == \E to \in {next, "done"} :
  Fault(label, Goto(Mem(run, "pwarn", TRUE), to))

\* the boot menu is rebuilt only by the run that changed the settings file
WriteCommandLine ==
  \/ /\ ~DeviceOfProgram
     /\ Do("grub", sys, Goto(Mem(run, "pwarn", TRUE), "done"))
  \/ /\ DeviceOfProgram
     /\ Do("grub", [sys EXCEPT !.grub = run.mem.offset],
           Goto(run, IF sys.grub = run.mem.offset THEN "initramfs" ELSE "menu"))
  \/ Unpublished("grub", "initramfs")

RebuildMenu ==
  \/ Do("menu", [sys EXCEPT !.menu = sys.grub], Goto(run, "initramfs"))
  \/ Unpublished("menu", "initramfs")

WriteInitramfs ==
  \/ Do("initramfs", [sys EXCEPT !.resume = TRUE], Goto(run, "power"))
  \/ Unpublished("initramfs", "power")

TellKernel ==
  \/ Do("power", [sys EXCEPT !.power = run.mem.offset],
        Goto(Mem(run, "pub", ~run.mem.pwarn), "done"))
  \/ Unpublished("power", "done")

ProgramLabels == {"size", "probe", "swapoff", "create", "allocate", "format", "swapon",
                  "offset", "grub", "menu", "initramfs", "power"}

\* a call of the program raises, or the bound its caller gave it expires
ProgramBreaks == \E label \in ProgramLabels : Fault(label, Goto(run, "failed"))

\* only the unit of a task run answers the task
Answered == IF run.mem.by = "unit" THEN "end" ELSE "idle"

\* the error path of main, and what each caller makes of the exit code
ProgramFails ==
  Do("failed", IF ByTask THEN sys ELSE UnitLeft("no"),
     Goto(Warned(Recall(run, [run.mem EXCEPT !.offset = 0, !.target = 0, !.pub = FALSE])),
          IF ByTask THEN "image" ELSE Answered))
-----------------------------------------------------------------------------
(* The task after the program, and the two other callers of the program.   *)

ProgramDone ==
  \/ /\ ByTask
     /\ Do("done", sys, Goto([run EXCEPT !.warn = @ \/ run.mem.pwarn], "image"))
  \/ /\ ~ByTask
     /\ Do("done", UnitLeft("yes"), Goto(run, Answered))

Addressed == run.mem.offset # 0 /\ run.mem.device

RebuildImage ==
  \/ /\ ~Addressed
     /\ Do("image", sys, Goto(Warned(run), "start"))
  \/ /\ Addressed
     /\ Do("image", [sys EXCEPT !.image = @ \/ (sys.resume /\ ~run.mem.before)],
           Goto(Noted(run, sys.resume /\ ~run.mem.before), "verify"))
  \/ /\ Addressed /\ sys.resume /\ ~run.mem.before
     /\ Fault("image", Goto(Warned(run), "verify"))
\* mutants for StorageCleanTask and AnnouncedAddressBoots: the ramdisk, or the
\* built menu, is not looked at
FindingsOfMenu == sys.grub # run.mem.offset \/ sys.menu # run.mem.offset
FindingsOfFile == sys.grub # run.mem.offset \/ ~sys.image

Findings == sys.grub # run.mem.offset \/ sys.menu # run.mem.offset \/ ~sys.image

Verify ==
  Do("verify", sys,
     Goto(Mem([run EXCEPT !.warn = @ \/ Findings], "claim", run.mem.pub /\ ~Findings),
          "rule"))

WriteRule ==
  \/ Do("rule", [sys EXCEPT !.rule = TRUE], Goto(Noted(run, ~sys.rule), "start"))
  \/ Fault("rule", Goto(Warned(run), "start"))

\* the unit is started so that what the next boot uses is proved by this run
StartUnit == StartUnitOf("start", Content,
  Goto(Recall(run, [run.mem EXCEPT !.by = "unit", !.offset = 0, !.pwarn = FALSE]), "size"))

Booted(machine) ==
  [machine EXCEPT !.on = FALSE, !.power = 0, !.dep = BootedUnits(machine.dep),
     !.foreign = IF {"file", "fstab"} \subseteq @ THEN @ \cup {"on"} ELSE @ \ {"on"}]

\* a boot, of the root or of a snapshot of it, and the service it starts
Reboot == \E snapshot \in BOOLEAN :
  Event([Booted(sys) EXCEPT !.snapshot = snapshot])

BootService ==
  /\ sys.dep.active = "due" /\ sys.dep.exec /\ sys.dep.loaded # {}
  /\ Begin("size", FALSE, [Fresh EXCEPT !.by = "boot"])

\* memory is added or taken out
MoreMemory == \E ram \in RamTerms \ {sys.ram} : Event([sys EXCEPT !.ram = ram])
-----------------------------------------------------------------------------
Step ==
  \/ InstallTools \/ SwitchOffForeign \/ DeleteForeign \/ ForgetForeign \/ ReadDevice
  \/ Deploy \/ RunProgram \/ ReadState \/ Probe \/ SwapOff \/ Create \/ Allocate
  \/ Format \/ SwapOn \/ ReadOffset \/ WriteCommandLine \/ RebuildMenu
  \/ WriteInitramfs \/ TellKernel \/ ProgramBreaks \/ ProgramFails \/ ProgramDone \/ RebuildImage
  \/ Verify \/ WriteRule \/ StartUnit

Next == Step \/ StartTask \/ BootService \/ Kill \/ Reboot \/ MoreMemory

Spec == Init /\ [][Next]_frame /\ WF_frame(Step)
-----------------------------------------------------------------------------
Labels == ProgramLabels \cup
  {"packages", "foreign_off", "foreign_file", "foreign_fstab", "device", "program",
   "mode", "unit", "reload", "enable", "run", "failed", "done", "image", "verify",
   "rule", "start"}

(* The values of the variables (values/swapfile_service_install.py).       *)
TypeOK ==
  /\ RunType(Labels, [device : BOOLEAN, before : BOOLEAN, target : 0..Disk,
                      offset : Offsets \cup {0}, pwarn : BOOLEAN, pub : BOOLEAN,
                      by : {"task", "unit", "boot"}, claim : BOOLEAN])
  /\ sys.file \in [made : BOOLEAN, size : 0..Disk, formatted : BOOLEAN,
                   offset : Offsets \cup {0}]
  /\ {sys.grub, sys.menu, sys.power} \subseteq Offsets \cup {0}
  /\ sys.foreign \subseteq {"on", "file", "fstab"}
  /\ sys.ram \in RamTerms
  /\ DeployType

\* the free disk space never binds: whatever file is there, the memory decides
RoomToSpare == \A size \in 0..(Disk \div 2) : sys.ram <= (Disk - size) \div 2

(* A plain done result of the task on the machine's own root means that    *)
(* the swap file is active and that the next boot resumes from it: the     *)
(* settings file, the built menu and the initial ramdisk.  The file has    *)
(* its size where the memory decides it; where the free disk space does, a *)
(* file that was just laid down takes part of the room it was sized by, so *)
(* the size is right only after the runs that follow.                      *)
SwapAtTarget ==
  /\ sys.on /\ sys.file.formatted
  /\ RoomToSpare => SizeIsRight
  /\ sys.grub = sys.file.offset /\ sys.menu = sys.file.offset
  /\ sys.image /\ sys.rule
  /\ sys.foreign = {}
  /\ sys.dep.enabled /\ sys.dep.exec

\* the unit the task started had nothing to report to its journal
UnitIsQuiet == run.mem.by = "unit" => ~run.hurt /\ ~run.mem.pwarn

CleanTaskReachesTarget ==
  run.mem.by # "boot" /\ UnitIsQuiet /\ ~run.force /\ ~sys.snapshot =>
    CleanRunReaches(SwapAtTarget)

(* The task announces where hibernation resumes from only when the menu    *)
(* the machine boots carries the offset of the file (task, 808), and it is *)
(* still so at its end unless the unit it started afterwards failed in a   *)
(* call or warned: that unit may lay the file down once more, where the    *)
(* free disk space decides the size or an older command line is loaded.    *)
UnitKeptAddress == run.pc = "end" /\ UnitIsQuiet

AnnouncedAddressBoots ==
  run.mem.claim /\ (run.pc \in {"rule", "start"} \/ UnitKeptAddress) =>
    sys.menu = sys.file.offset /\ sys.image

(* A session started from a snapshot never moves the address the machine's *)
(* own boot uses.                                                          *)
SnapshotStep == sys.snapshot => UNCHANGED <<sys.grub, sys.menu>>
SnapshotKeepsBoot == [][SnapshotStep \/ AtRest]_frame

(* The active swap file is never rewritten: it is switched off first.      *)
ActiveFileStep == sys.on /\ sys'.on => sys'.file = sys.file
ActiveFileKept == [][ActiveFileStep]_frame

(* A forced task none of whose calls failed always leaves swap active,     *)
(* whatever runs were cut off before it: unlike an unforced one it does not *)
(* take a file of the right size for a formatted one.  A program whose     *)
(* deployment was cut off before its mode was set is the one exception.    *)
ForcedRunRepairs == run.force /\ sys.dep.exec => FaultFreeRunReaches(sys.on /\ sys.file.formatted)

(* The program is idempotent: after a clean run the next one finds nothing *)
(* to do, as long as the memory decides the size.  Where the free disk     *)
(* space does, the size follows it at every run (docs/spec/                *)
(* users-and-host.md), and the file itself is part of what is not free.    *)
SwapRerunChangesNothing == RoomToSpare => RerunChangesNothing
=============================================================================

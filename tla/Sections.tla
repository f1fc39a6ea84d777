------------------------------ MODULE Sections ------------------------------
(***************************************************************************)
(* The parameters and the variables of Provisioning, and the sections that *)
(* prepare the machine itself: its memory and disks, the proxy it offers   *)
(* and the names it resolves.                                              *)
(***************************************************************************)
EXTENDS Naturals

CONSTANTS
  MaxRuns, MaxFaults, MaxKills, MaxEvents,   \* the bounds of TaskRun
  MoreRuns, MoreFaults, MoreEvents,          \* those of the sections that need more
  RamTerms, Disk, Tolerance, Offsets,        \* Swapfile
  Cores,                                     \* Zram
  Parameters,                                \* Zswap
  Paths, Kernels,                            \* SavePoint
  Panels,                                    \* Panel
  Profiles, Links,                           \* Dnsproxy
  Batches,                                   \* Yggdrasil
  Homes,                                     \* SshSetup
  Attempts,                                  \* Desktop
  MaxRelease,                                \* Releases
  List, Leading, Sources, Retries, MaxRoom,  \* Packages
  Repos, Branches,                           \* Bootstrap
  UserRules, MaxEdits                        \* RoutingPolicy

\* the bounds are counts
ASSUME BoundsAreNumbers ==
  {MaxRuns, MaxFaults, MaxKills, MaxEvents, MoreRuns, MoreFaults, MoreEvents} \subseteq Nat

\* sizes of memory and disk are counts of blocks
ASSUME SizesAreCounts == RamTerms \subseteq Nat /\ Disk \in Nat /\ Tolerance \in Nat

\* the boot service of zswap has something to write (values/zswap_service.py)
ASSUME SomeParameters == Parameters # {}

\* "none" stands for a machine without a profile
ASSUME NoneIsNoProfile == "none" \notin Profiles

VARIABLES sys, run, left, section

vars == <<sys, run, left, section>>

Swap     == INSTANCE Swapfile
Zram     == INSTANCE Zram
Tmp      == INSTANCE TmpToDisk    WITH MaxFaults <- MoreFaults
Zswap    == INSTANCE Zswap        WITH MaxEvents <- MoreEvents
Point    == INSTANCE SavePoint    WITH MaxRuns <- MoreRuns
Btrfs    == INSTANCE BtrfsSetup
Panel    == INSTANCE Panel        WITH MaxRuns <- MoreRuns
Dns      == INSTANCE Dnsproxy     WITH MaxFaults <- MoreFaults
=============================================================================

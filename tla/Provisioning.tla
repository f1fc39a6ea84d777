---------------------------- MODULE Provisioning ----------------------------
(***************************************************************************)
(* The provisioning sections, and the bootstrap before them, each on a     *)
(* machine of its own.  They share the frame of TaskRun and the promises   *)
(* stated there; section says which is at work in a behaviour.  The        *)
(* routing document has the three variables under its own names.           *)
(***************************************************************************)
EXTENDS Sections

\* the sections for what people use
Services == INSTANCE ServiceSetup WITH MaxRuns <- MoreRuns, MaxEvents <- MoreEvents
Hidden   == INSTANCE HiddenService
Node     == INSTANCE Yggdrasil
Ssh      == INSTANCE SshSetup
Desktop  == INSTANCE Desktop      WITH MaxEvents <- MoreEvents
Client   == INSTANCE Releases     WITH MaxRuns <- MoreRuns, MaxFaults <- MoreFaults,
                                       MaxEvents <- MoreEvents
Tools    == INSTANCE Packages
Browser  == INSTANCE Browser
Boot     == INSTANCE Bootstrap
Routing  == INSTANCE RoutingPolicy WITH template <- sys, policy <- run, edited <- left

Init ==
  \/ section = "swap"     /\ Swap!Init
  \/ section = "zram"     /\ Zram!Init
  \/ section = "tmp"      /\ Tmp!Init
  \/ section = "zswap"    /\ Zswap!Init
  \/ section = "point"    /\ Point!Init
  \/ section = "btrfs"    /\ Btrfs!Init
  \/ section = "panel"    /\ Panel!Init
  \/ section = "services" /\ Services!Init
  \/ section = "dns"      /\ Dns!Init
  \/ section = "hidden"   /\ Hidden!Init
  \/ section = "node"     /\ Node!Init
  \/ section = "ssh"      /\ Ssh!Init
  \/ section = "desktop"  /\ Desktop!Init
  \/ section = "client"   /\ Client!Init
  \/ section = "tools"    /\ Tools!Init
  \/ section = "browser"  /\ Browser!Init
  \/ section = "boot"     /\ Boot!Init
  \/ section = "routing"  /\ Routing!Init

Next ==
  /\ UNCHANGED section
  /\ \/ section = "swap"     /\ Swap!Next
     \/ section = "zram"     /\ Zram!Next
     \/ section = "tmp"      /\ Tmp!Next
     \/ section = "zswap"    /\ Zswap!Next
     \/ section = "point"    /\ Point!Next
     \/ section = "btrfs"    /\ Btrfs!Next
     \/ section = "panel"    /\ Panel!Next
     \/ section = "services" /\ Services!Next
     \/ section = "dns"      /\ Dns!Next
     \/ section = "hidden"   /\ Hidden!Next
     \/ section = "node"     /\ Node!Next
     \/ section = "ssh"      /\ Ssh!Next
     \/ section = "desktop"  /\ Desktop!Next
     \/ section = "client"   /\ Client!Next
     \/ section = "tools"    /\ Tools!Next
     \/ section = "browser"  /\ Browser!Next
     \/ section = "boot"     /\ Boot!Next
     \/ section = "routing"  /\ Routing!Next

\* the steps of the run at work, which its own process goes on taking
Step ==
  /\ UNCHANGED section
  /\ \/ section = "swap"     /\ Swap!Step
     \/ section = "zram"     /\ Zram!Step
     \/ section = "tmp"      /\ Tmp!Step
     \/ section = "zswap"    /\ Zswap!Step
     \/ section = "point"    /\ Point!Step
     \/ section = "btrfs"    /\ Btrfs!Step
     \/ section = "panel"    /\ Panel!Step
     \/ section = "services" /\ Services!Step
     \/ section = "dns"      /\ Dns!Step
     \/ section = "hidden"   /\ Hidden!Step
     \/ section = "node"     /\ Node!Step
     \/ section = "ssh"      /\ Ssh!Step
     \/ section = "desktop"  /\ Desktop!Step
     \/ section = "client"   /\ Client!Step
     \/ section = "tools"    /\ Tools!Step
     \/ section = "browser"  /\ Browser!Step
     \/ section = "boot"     /\ Boot!Step

Spec == Init /\ [][Next]_vars /\ WF_vars(Step)
-----------------------------------------------------------------------------
(* The values of the variables of every section.                           *)
TasksType ==
  /\ section = "swap"     => Swap!TypeOK
  /\ section = "zram"     => Zram!TypeOK
  /\ section = "tmp"      => Tmp!TmpType
  /\ section = "zswap"    => Zswap!ZswapType
  /\ section = "point"    => Point!PointType
  /\ section = "btrfs"    => Btrfs!BtrfsType
  /\ section = "panel"    => Panel!PanelType
  /\ section = "services" => Services!TypeOK
  /\ section = "dns"      => Dns!DnsType
  /\ section = "hidden"   => Hidden!HiddenType
  /\ section = "node"     => Node!YggdrasilType
  /\ section = "ssh"      => Ssh!SshType
  /\ section = "desktop"  => Desktop!DesktopType
  /\ section = "client"   => Client!ReleasesType
  /\ section = "tools"    => Tools!PackagesType
  /\ section = "browser"  => Browser!BrowserType
  /\ section = "boot"     => Boot!BootstrapType
  /\ section = "routing"  => Routing!RoutingType

(* A plain done result of a section means that the machine is in the state *)
(* the section exists for, whatever failed or was cut off in earlier runs: *)
(* the task contract, checked against each section's own target.           *)
CleanTaskReachesTarget ==
  /\ section = "swap"     => Swap!CleanTaskReachesTarget
  /\ section = "zram"     => Zram!ZramCleanTask
  /\ section = "tmp"      => Tmp!TmpCleanTask
  /\ section = "zswap"    => Zswap!ZswapCleanTask
  /\ section = "point"    => Point!PointsCleanTask
  /\ section = "btrfs"    => Btrfs!BtrfsCleanTask
  /\ section = "panel"    => Panel!PanelCleanTask
  /\ section = "services" => Services!CleanUnits
  /\ section = "dns"      => Dns!DnsCleanTask
  /\ section = "hidden"   => Hidden!HiddenCleanTask
  /\ section = "node"     => Node!YggdrasilCleanTask
  /\ section = "ssh"      => Ssh!SshCleanTask
  /\ section = "desktop"  => Desktop!DesktopCleanTask
  /\ section = "client"   => Client!ReleaseCleanTask
  /\ section = "tools"    => Tools!PackagesCleanTask
  /\ section = "browser"  => Browser!BrowserCleanTask
  /\ section = "boot"     => Boot!BootCleanTask

(* A run whose own calls all succeed repairs what a failed or killed run   *)
(* left half done: devices half configured, a mount held by a process, a   *)
(* password nobody knows, a package cut off in the middle, a session that  *)
(* was not told of its files.  Some sections need a forced run for it.     *)
FaultFreeRunRepairs ==
  /\ section = "swap"     => Swap!ForcedRunRepairs
  /\ section = "zram"     => Zram!ZramFaultFreeTask
  /\ section = "tmp"      => Tmp!TmpFaultFreeTask
  /\ section = "point"    => Point!MenuIsBuilt
  /\ section = "panel"    => Panel!ForcedRunRepairsPanel
  /\ section = "services" => Services!ForwardingRecovers
  /\ section = "node"     => Node!NodeComesBack
  /\ section = "ssh"      => Ssh!ForcedRunRepairsSsh
  /\ section = "desktop"  => Desktop!ForcedRunRepairsSession
  /\ section = "client"   => Client!ReleaseRepairs
  /\ section = "tools"    => Tools!OthersAreInstalled
  /\ section = "browser"  => Browser!BrowserRepairs
  /\ section = "boot"     => Boot!BootRepairs

(* After a clean run the next one finds nothing to do, with the exceptions *)
(* each section names: the swap file that follows the free disk space, the *)
(* forwarding service that is started again because it had ended.          *)
RerunChangesNothing ==
  /\ section = "swap"     => Swap!SwapRerunChangesNothing
  /\ section \in {"zram", "tmp", "zswap", "btrfs", "ssh", "tools", "browser"}
       => Btrfs!RerunChangesNothing
  /\ section = "panel"    => Panel!PanelRerunChangesNothing
  /\ section = "services" => Services!ForwardingRerunChangesNothing
  /\ section = "dns"      => Dns!DnsRerunSettles
  /\ section = "hidden"   => Hidden!HiddenRerun
  /\ section = "desktop"  => Desktop!RerunWithoutSession
  /\ section = "client"   => Client!ReleaseRerun
  /\ section = "routing"  => Routing!PolicySettles

(* The task announces where hibernation resumes from only when the menu    *)
(* the machine boots carries the offset of the file (swapfile task, 808).  *)
AnnouncedAddressBoots == section = "swap" => Swap!AnnouncedAddressBoots

(* The way back to the installed machine stays open: the menu offers only  *)
(* points that were stored, the marker of the recompression is earned, no  *)
(* swap file blocks a snapshot, a swap that was on is on again after its   *)
(* area moved, and the mount of the top level ends with its run.           *)
SnapshotsWork ==
  /\ section = "point" => Point!MarkerIsEarned /\ Point!EntryNeedsPoint
  /\ section = "btrfs" => /\ Btrfs!SwapIsRestarted
                          /\ Btrfs!SnapshotIsPossible
                          /\ Btrfs!TopIsReleased

(* The proxy serves one client over HTTPS, and the routing document is     *)
(* written at most twice by a run (docs/spec/3x-ui.md).  The one client is *)
(* promised as long as no call failed at all, HTTPS by every run none of   *)
(* whose own calls failed.                                                 *)
OneClientOverHttps ==
  section = "panel" =>
    Panel!OneClientWithoutFaults /\ Panel!NeverPlainHttp /\ Panel!TwoWrites

(* The core answers every question the section asks it afterwards the way  *)
(* the policy means it, hidden networks stay hidden and the own network is *)
(* direct, whatever rules were written in the panel (docs/spec/3x-ui.md).  *)
RoutingIsMeant ==
  section = "routing" =>
    /\ Routing!ExpectationsHold
    /\ Routing!HiddenStaysHidden
    /\ Routing!OwnNetworkIsDirect
    /\ Routing!DecisionsExist

(* What other machines are told stays right: names are resolved by a proxy *)
(* that runs, the saved addresses are those of the identities.             *)
AddressesAreCurrent ==
  /\ section = "dns"    => Dns!DnsIsCurrent /\ Dns!FirstCutoverAnswers
  /\ section = "hidden" => Hidden!TorAddressFollows
  /\ section = "node"   => Node!AddressIsMine

(* What runs is what the files say, as long as no call failed and no run   *)
(* was cut off: daemons, kernel parameters and sessions read their files   *)
(* once, so every changed file needs its reload or restart.                *)
RunningFollowsFiles ==
  /\ section = "zswap"    => Zswap!ZswapSurvivesBoot
  /\ section = "services" => Services!CurrentCodeUndisturbed
  /\ section = "hidden"   => Hidden!DaemonReadIt
  /\ section = "ssh"      => Ssh!DaemonFollowsFile
  /\ section = "desktop"  => Desktop!SessionFollowsFiles

(* What the machine had stays usable: something listens for ssh, an        *)
(* unforced run never takes a working client away, the packaged policy and *)
(* the package sources survive, the next login keeps the key.              *)
UsersKeepWhatWorks ==
  /\ section = "ssh"     => Ssh!StaysReachable
  /\ section = "client"  => Client!ClientStays
  /\ section = "tools"   => Tools!OriginalKeptUndisturbed /\ Tools!SourcesKept
  /\ section = "desktop" => Desktop!NextLoginKeepsKey

(* What a run answers about the machine is so: packages counted are        *)
(* installed, the entry of the browser uses only what is there.            *)
AnswersAreHonest ==
  /\ section = "tools"   => Tools!ShareIsHonest
  /\ section = "browser" => Browser!EntryFollowsMachine

(* What cannot be made again is never replaced or let go: the save point,  *)
(* the contents of /tmp that were copied out, an active swap file, the     *)
(* identities and keys of the hidden services and the node (outside force  *)
(* mode), and the clients, keys and identity the panel has handed out.     *)
IrreplaceableIsKept ==
  [][/\ section = "point"  => Point!SamePoint
     /\ section = "tmp"    => Tmp!StagedKept
     /\ section = "swap"   => Swap!ActiveFileStep
     /\ section = "hidden" => Hidden!IdentityStep
     /\ section = "node"   => Node!KeyStep
     /\ section = "panel"  => Panel!Handed]_vars

(* No run works where another must not be disturbed: a session started     *)
(* from a snapshot leaves the boot address and the machine alone, a save   *)
(* point waits for the job that rewrites the data, and the rules of other  *)
(* inbounds stay in their order.                                           *)
OthersAreLeftAlone ==
  [][/\ section = "swap"    => Swap!SnapshotStep \/ Swap!AtRest
     /\ section = "point"   => Point!PointStep /\ (Point!SessionStep \/ Point!Job)
     /\ section = "routing" => Routing!ForeignRulesStay]_vars

\* a run is on its way in one of the sections that have steps
AtWork == section # "routing" /\ ~Btrfs!AtRest

(* Every run that starts comes to its answer unless it is killed: no loop  *)
(* over devices, parameters, mounts, packages or questions goes on for     *)
(* ever.                                                                   *)
TaskEnds == AtWork ~> ~AtWork
=============================================================================

SPECIFICATION MCSpec
CONSTANTS
 MaxRuns = 2
 MaxFaults = 1
 MaxKills = 1
 MaxEvents = 1
 a = a
 b = b
 k1 = k1
 k2 = k2
 p = p
 q = q
 MoreRuns = 3
 MoreFaults = 2
 MoreEvents = 2
 RamTerms = {3, 8}
 Disk = 16
 Tolerance = 1
 Offsets = {1, 2}
 Cores = 2
 Parameters = {p, q}
 Paths = {a, b}
 Kernels = {k1, k2}
 Panels = {"none", "foreign"}
 Profiles = {a, b}
 Links = {p, q}
 Batches = 2
 Homes = {a, b}
 Attempts = 2
 MaxRelease = 2
 List = {p, q}
 Leading = p
 Sources = {a, b}
 Retries = 1
 MaxRoom = 2
 Repos = {p, q}
 Branches = {a, b}
 UserRules <- WrittenRules
 MaxEdits = 3
INVARIANT TasksType CleanTaskReachesTarget FaultFreeRunRepairs RerunChangesNothing
 AnnouncedAddressBoots SnapshotsWork OneClientOverHttps RoutingIsMeant
 AddressesAreCurrent RunningFollowsFiles UsersKeepWhatWorks AnswersAreHonest
PROPERTY IrreplaceableIsKept OthersAreLeftAlone TaskEnds
CHECK_DEADLOCK FALSE

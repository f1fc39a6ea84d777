SPECIFICATION Spec
CONSTANTS
    s1 = s1
    s2 = s2
    s3 = s3
    Artifacts = {1, 2, 3}
    NameOf <- MCName
    Suffixes = {s1, s2, s3}
    Oversized = {3}
    Poison = {}
    FaultKinds <- AllFaults
    MaxFaults = 2
SYMMETRY MCSuffixSymmetry
INVARIANTS NoArtifactLost OnlyPublishedQueued ArchivedWasReceived DuplicatesNeedFaults
PROPERTIES CleanExitEmptiedSpool ImplementsDelivery

SPECIFICATION FairSpec
CONSTANTS
    s1 = s1
    s2 = s2
    s3 = s3
    Artifacts = {1, 2}
    NameOf <- MCName
    Suffixes = {s1, s2, s3}
    Oversized = {}
    Poison = {}
    FaultKinds <- OnlyDispatchCrash
    MaxFaults = 1
PROPERTIES EventuallySent

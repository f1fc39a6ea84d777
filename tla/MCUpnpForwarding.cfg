SPECIFICATION FairSpec
CONSTANTS
    a = a
    b = b
    a1 = a1
    a2 = a2
    a3 = a3
    Machines <- TwoMachines
    Ports <- TwoPorts
    Chain <- Crossed
    Addresses <- ThreeAddresses
    Foreign = Foreign
    FaultKinds <- AllKinds
    MaxFaults = 2
INVARIANTS ChangesAreAnnounced
PROPERTIES SeenRulesAreKept RuleComesBack

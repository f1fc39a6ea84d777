SPECIFICATION Spec
CONSTANTS
    Passwords = {p1, p2, p3}
    NoPassword = NoPassword
    Structure = {e1}
    Secrets = {r1, r2, r3, r4}
    FaultKinds <- AllFaults
    MaxFaults = 3
SYMMETRY MCSymmetry
INVARIANTS SecretsStayReadable CleanRunIsUsable NeverTruncated SecretsAreRecoverable

SPECIFICATION FairSpec
CONSTANTS
    Finding = {f1, f2}
    Lease = {l1, l2}
    Photo = {p1, p2}
    Address = {a1, a2}
    None = None
    HolderEmail <- Unreachable
    Editor = {}
    Scanner = {c1}
    Sweeper = {w1}
    Reported = {"high", "low"}
    ResendConfigured = TRUE
    EscalationAfter = 1
    MaxTime = 2
    MaxMail = 2
    Faults = {}
    l1 = l1
    a1 = a1
    a2 = a2
INVARIANTS
    EscalatedOnce
PROPERTIES
    EscalatedIfSwept

SPECIFICATION Spec
CONSTANTS
    Finding = {f1}
    Lease = {l1}
    Photo = {p1}
    Address = {a1, a2}
    None = None
    HolderEmail <- Holders
    Editor = {e1}
    Scanner = {c1}
    Sweeper = {w1, w2}
    Reported = {"high", "low"}
    ResendConfigured = TRUE
    EscalationAfter = 2
    MaxTime = 3
    MaxMail = 2
    Faults = {}
    l1 = l1
    a1 = a1
    a2 = a2
SYMMETRY Symmetric
INVARIANTS
    EscalatedOnce

SPECIFICATION Spec
CONSTANTS
    Finding = {f1}
    Lease = {l1}
    Photo = {p1}
    Address = {a1, a2}
    None = None
    HolderEmail <- Holders
    Editor = {e1, e2}
    Scanner = {c1}
    Sweeper = {w1, w2}
    Reported = {"high", "low"}
    ResendConfigured = TRUE
    EscalationAfter = 1
    MaxTime = 2
    MaxMail = 2
    Faults = {"crash", "delete", "lost_reply"}
    l1 = l1
    a1 = a1
    a2 = a2
SYMMETRY Symmetric
INVARIANTS
    TypeOK
    EscalationIsBacked
    TrailAgrees
    RecordsHaveEvidence
PROPERTIES
    KeepsTheLife
    AckStopsTheClock
CHECK_DEADLOCK FALSE

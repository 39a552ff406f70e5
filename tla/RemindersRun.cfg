SPECIFICATION Spec
CONSTANTS
    e1 = e1
    e2 = e2
    e3 = e3
    r1 = r1
    Entry = {e1, e2, e3}
    Lease <- Leases
    Run = {r1}
    None = None
    Due <- Dues
    AsOf = {1, 2}
    Days = 1
    Limit = 2
    Reachable = {e1, e2}
    Patched = {"pending", "submitted", "overdue"}
    Faults = {"crash", "delete", "unconfigured"}
INVARIANTS
    TypeOK
    OncePerRun
    OwedAnswered
    HistoryIsWhole
PROPERTIES
    KeepsTheLedger
CHECK_DEADLOCK FALSE

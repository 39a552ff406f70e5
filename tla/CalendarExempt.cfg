SPECIFICATION Spec
CONSTANTS
    l1 = l1
    q1 = q1
    Lease = {l1}
    Rule = {q1}
    Request = {r1, r2}
    Patcher = {r1, r2}
    None = None
    Reason = {why}
    LastDay = 2
    Cadence <- Cadences
    YearEnd <- YearEnds
    Period <- Cuts
    Term <- From0
    Definition <- Monthly
    Window <- Whole
    AsOf = {3}
    Patched = {"pending", "waived", "not_applicable"}
    Faults = {}
INVARIANTS
    ExemptHasReason

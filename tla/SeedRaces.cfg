SPECIFICATION SeedSpec
CONSTANTS
    l1 = l1
    q1 = q1
    Lease = {l1}
    Rule = {q1}
    r1 = r1
    r2 = r2
    Request = {r1, r2}
    Patcher = {r1}
    None = None
    Reason = {pack}
    SeedReason = pack
    Mineral = {"mineral", "other"}
    Holder = {"holder"}
    PackRule <- Packed
    PackMinerals = {}
    PackLease = {l1}
    HolderOf <- Held1
    MineralOf <- Mined1
    SeedWindow <- AllMonths
    Today = 5
    Crew <- Crews
    LastDay = 4
    Cadence <- Cadences
    YearEnd <- YearEnds
    Period <- Cuts
    Term <- Terms
    Definition <- Definitions
    Window <- Windows
    AsOf = {0, 7}
    Patched = {"pending", "submitted", "waived"}
    Faults = {"delete", "abandon"}
INVARIANTS
    SeedTypeOK
    ExemptHasReason
    PlannedStands
    NoOverlap
PROPERTIES
    KeepsTheRegister
    DecisionsKept
    LoadsWhole
    AgainAddsNothing

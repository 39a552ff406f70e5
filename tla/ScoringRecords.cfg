SPECIFICATION Spec
CONSTANTS
    l1 = l1
    l2 = l2
    c1 = c1
    c2 = c2
    e1 = e1
    e2 = e2
    Lease = {l1}
    Licence = {c1, c2}
    Entry = {e1, e2}
    LicenceOf <- LicenceOfOne
    EntryOf <- EntryOfOne
    None = None
    LastDay = 2
    MaxFindings = 4
    ValidTo = {1, None}
    LicenceStatus = {"valid", "revoked"}
    DueDate = {1}
    Patched = {"pending", "submitted", "waived"}
INVARIANTS
    TypeOK
    TimeAloneCosts
PROPERTIES
    TimelyFilingHelps
    RefreshIsNeutral
    FurtherFindingsCost

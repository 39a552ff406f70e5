SPECIFICATION Spec
CONSTANTS
    u1 = u1
    u2 = u2
    h1 = h1
    r1 = r1
    r2 = r2
    None = None
    User <- Users2
    Holder <- Holders
    Request <- Requests
    Updater <- Requests
    Assignable = {"operator"}
    Patches <- AdminPatches
    BootstrapRole = "admin"
    SelfRegistration = TRUE
    SelfRegistrationRole = "inspector"
    Recorded = {"create", "update"}
    Faults = {"crash", "lost_reply", "delete_holder"}
SYMMETRY SymmetryUsers2
CHECK_DEADLOCK FALSE
INVARIANTS
    TypeOK
    AuthorityChain
    TrailExplains
PROPERTIES
    NoAdminIsForever
    BootstrapCloses

SPECIFICATION AccessSpec
CONSTANTS
    u1 = u1
    u2 = u2
    h1 = h1
    h2 = h2
    r1 = r1
    r2 = r2
    l1 = l1
    k1 = k1
    k2 = k2
    secret = secret
    None = None
    User <- Users2
    Holder <- Holders2
    Request <- Requests
    Updater <- OneRequest
    Assignable = {"operator"}
    Patches <- Patches2
    BootstrapRole = "admin"
    SelfRegistration = FALSE
    SelfRegistrationRole = "inspector"
    Recorded = {}
    Faults = {"delete_holder"}
    Lease <- Leases1
    Kid <- Keys2
    Secret <- secret
    Configured = {"secret", "url"}
    Office <- OneRequest
    Crew <- Crews
SYMMETRY Symmetry
INVARIANTS
    AdminRemains
    OperatorsScoped
    InvitedHaveRoles
    WorkWasInReach
PROPERTIES
    SessionsContinue

SPECIFICATION Spec
CONSTANTS
    l1 = l1
    l2 = l2
    l3 = l3
    h1 = h1
    h2 = h2
    p1 = p1
    p2 = p2
    d1 = d1
    c1 = c1
    c2 = c2
    Lease = {l1, l2, l3}
    Holder = {h1, h2}
    Place = {p1, p2}
    Payload <- Rows
    Edit <- Edits
    Score = {40, 100}
    Query <- Queries
    Chart <- Charts
    Reader = {r1}
    Writer = {w1}
    Null = Null
    New = New
    Gone = Gone
    Doc = {d1}
    Client = {c1, c2}
    Note = {"", "seen"}
    Patches <- PatchesSent
    Paths = {"absolute", "relative"}
    Moves <- Anywhere
    Traffic <- Mixes
SYMMETRY Alike
INVARIANTS
    TypeOK
    AnswersHold
    ListingCoherent
    Downloadable
CHECK_DEADLOCK FALSE

SPECIFICATION Spec
CONSTANTS
    ana = ana
    bob = bob
    cat = cat
    n1 = n1
    n2 = n2
    p1 = p1
    p2 = p2
    r1 = r1
    r2 = r2
    NoRow = NoRow
    Idle = Idle
    Keep = Keep
    Users = {ana, bob}
    RoleOf <- DevAndUser
    ConfigIds = {1}
    ShareIds = {1, 2, 3}
    Names = {n1, n2}
    Payloads = {p1, p2}
    Ops <- OpsConcurrent
    Requests = {r1, r2}
    Database = "postgresql"
SYMMETRY RequestSymmetry
INVARIANTS
    RowsSound
    OwnerNeverGrantee
    SnapshotsMatchRows
    ListAgrees
PROPERTIES
    PublishedByPublisher
    EditsFollowRequests
    GrantsFollowRequests
    ImplementsAccessControl
CHECK_DEADLOCK FALSE

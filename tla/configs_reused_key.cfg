SPECIFICATION Spec
CONSTANTS
    ana = ana
    bob = bob
    cat = cat
    n1 = n1
    n2 = n2
    p1 = p1
    p2 = p2
    r1 = r1
    r2 = r2
    NoRow = NoRow
    Idle = Idle
    Keep = Keep
    Users = {ana, bob, cat}
    RoleOf <- DevAndUsers
    ConfigIds = {1}
    ShareIds = {1, 2}
    Names = {n1}
    Payloads = {p1}
    Ops <- OpsOnGrants
    Requests = {r1, r2}
    Database = "sqlite"
SYMMETRY RequestSymmetry
PROPERTIES
    GrantsFollowRequests
CHECK_DEADLOCK FALSE

SPECIFICATION Spec
CONSTANTS
    None = None
    ann = ann
    bob = bob
    tab1 = tab1
    tab2 = tab2
    Users = {ann, bob}
    Tabs = {tab1, tab2}
    Requests = {1, 2}
    Ttl = 2
    RefreshAfter = 1
    MaxTime = 3
    MaxSessions = 2
    Budgets <- SomeBudgets
INVARIANTS
    ChangesByShownUser
    LoggedOutStaysOut
SYMMETRY Symmetric
CHECK_DEADLOCK FALSE

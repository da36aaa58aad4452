SPECIFICATION Spec
CONSTANTS
    None = None
    meter = meter
    valve = valve
    start = start
    bench = bench
    other = other
    Sensors = {meter}
    Controls = {valve}
    Commands = {start}
    Device = bench
    Summaries <- SomeConfigs
    Windows = {2}
    MaxPoints = 3
    MaxHistory = 2
    MinBrush = 1
    MaxSent = 2
    Budgets <- SomeBudgets
INVARIANTS
    TypeOK
    SeriesJoined
    GroupsFollowSelection
    BrushKeepsRange
PROPERTIES
    ShownSettles
CHECK_DEADLOCK FALSE

SPECIFICATION Spec
CONSTANTS
    loop = loop
    pool = pool
    meter = meter
    level = level
    count = count
    Threads = {loop, pool}
    Sensors = {meter}
    Controls = {count}
    Order <- OneOfEach
    Budgets <- AloneOrShared
    None = None
INVARIANTS
    LinkSound
    TrueAlone
    OneRetrySuffices
CHECK_DEADLOCK FALSE

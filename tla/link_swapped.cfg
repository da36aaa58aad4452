SPECIFICATION Spec
CONSTANTS
    loop = loop
    pool = pool
    meter = meter
    level = level
    count = count
    Threads = {loop, pool}
    Sensors = {meter, level}
    Controls = {count}
    Order <- Profile
    Budgets <- OnlyShared
    None = None
INVARIANTS
    AnswersTrue
CHECK_DEADLOCK FALSE

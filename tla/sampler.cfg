SPECIFICATION FairSamplerSpec
CONSTANTS
    loop = loop
    pool = pool
    meter = meter
    near = near
    far = far
    Threads = {loop, pool}
    Sensors = {}
    Controls = {meter}
    Order <- OneControl
    Budgets <- TwoRounds
    None = None
    Loop = loop
    Here = near
    There = far
    MaxPoints = 1
    Handled <- ReadAndWrite
INVARIANTS
    InStep
    SamplerGoesOn
    NeighbourKeepsUp
PROPERTIES
    CallReturns
    StopCompletes
CHECK_DEADLOCK FALSE

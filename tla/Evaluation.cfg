SPECIFICATION Spec
CONSTANTS
    TicksPerSecond = 2
    log_interval = 20
    Warmup = 1
    Cooldown = 2
    Plans <- MCPlans
    Middlewares <- MCMiddlewares
    ClientLogs <- MCClientLogs
    Timings <- MCTimings
    Clocks = {3, 5}
    Measurements <- MCMeasurements
    MaxLines = 2
    Threads = 2
INVARIANTS
    AveragesAreRight
    FiguresAgree
    BaselineAgrees
PROPERTIES
    RerunsAgree

SPECIFICATION Spec
CONSTANTS
    Notebooks <- MCNotebooks
    Shuffled <- MCShuffled
    Inputs <- MCInputs
    SecondsPerDay = 8
    DaysPerMonth = 4
    TruncateTen = 2
    TruncateFive = 1
    TicksPerSecond = 2
    log_interval = 20
    granularity = 1
    num_workers = 2
    servicerate_mu = 8215
    WarmupEnd = 1
    CooldownStart = 3
INVARIANTS
    FiguresShowWhatTheySay
    RunsThrough
    DstatInsideTheRun
    AnalysisAddsUp
    QueueingLaws
    PercentilesReached
PROPERTIES
    FiguresAreStable
CHECK_DEADLOCK FALSE

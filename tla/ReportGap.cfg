SPECIFICATION Spec
INVARIANT YesterdayReported
\* Every counter of the model is bounded, so each scene ends.
CHECK_DEADLOCK FALSE
CONSTANTS
    None = None
    Never = Never
    Clients = {c1}
    Tickets = {t1}
    Events <- TheEvents
    IndexSymbols = {"nifty"}
    Wanted <- TheWanted
    StreamMax = 2
    ReadCount = 2
    BusSize = 2
    QueueSize = 2
    MaxEvents = 3
    MaxFaults = 1
    Requests = {q1, q2}
    RateLimit = 2
    Limit <- TheLimit
    MaxTokens = 3
    MaxAttempts = 3
    MaxGlitches = 1
    Writers = {w1, w2}
    Strategies = {a}
    Profits = {2}
    Past <- ThePast
    StartingCash = 10
    DayLength = 1
    WeekLength = 2
    MaxNow = 2
    MaxTrades = 1
    MaxRequests = 1
    Holidays = {}
    Muhurat <- TheMuhurat
    HalfDays <- TheHalfDays
    EmaPeriod = 2
    RsiPeriod = 2
    AtrPeriod = 2
    Fast = 1
    Slow = 2
    SignalPeriod = 2
    TrendPeriod = 2
    TrendTimes = 1
    AdxPeriod = 2
    BandPeriod = 2
    Window = 5
    Instants <- TheInstants
    Shapes <- TheShapes
    MaxMishaps = 1
    DayShapes <- TheDayShapes
    Evaluate <- TheEvaluate
    RequiredHistory = 2
    WarmUp = 1
    MaxHolding = 2
    Lookback = 1
    LiveHistory = 4
    MaxDays = 6
    Pollers = {n1, n2}
    Articles = {x, y}
    MaxBatch = 2
    MaxPolls = 3
    Symbols = {s1, s2}
    MaxQueue = 2
    Nothing = Nothing
    MaxNamed = 2
    MaxMessages = 4
    MaxLinks = 3

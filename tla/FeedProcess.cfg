SPECIFICATION Spec
CONSTANTS
    Tasks <- MCTasks
    Base <- MCBase
    MaxDelay <- MCMaxDelay
    Threshold = 2
    Window = 4
    Timeout = 0
    CircuitNap = 1
    MaxAttempt = 2
    Stream = "quote_stream"
    Watcher = "session_watch"
    Configured = "zerodha"
    HasKey = TRUE
    Nap = 1
    MaxTickers = 2
    MaxPending = 1
    QueueSize = 1
INVARIANT RateLimited
PROPERTIES OnlyEntriesMultiply Reported LostComesBack
CHECK_DEADLOCK FALSE

SPECIFICATION SceneSpec
CONSTANTS
    None = None
    MaxPositions = 10
    MaxPerSector = 1
    RiskSlots = 2
    Markets <- TheMarkets
    Portfolios <- ThePortfolios
    Payloads <- ThePayloads
    AllowList = {"orb", "vcp", "gap_fill", "ema_trend"}
    FaultySets = {{}, {"orb", "vwap_breakout"}}
    SilentSets = {{}, {"risk"}, {"devil", "technical"}, {"pm"}}
    WinRates = {20}
    Backtested = {"orb"}
    Suite <- TheSuite
    Outcomes <- TheOutcomes
    PValue <- ThePValue
    Significance = 50
    FoldCount = 2
    Lakhs = 1
    Requested = {"equity_delivery", "unknown"}
    MaxResults = 4
INVARIANTS
    BookCoherent
    BreakerHolds
    SizedWithinBudget
    SilenceCreatesNoOrder
    SoundVerdict

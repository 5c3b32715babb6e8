CONSTANTS
  alice = alice
  bob = bob
  nifty = nifty
  p1 = p1
  p2 = p2
  web1 = web1
  web2 = web2
  feed = feed
  free = free
  FeeBps = 3
  SlippageBps = 1
  Accounts <- TwoAccounts
  Symbols <- MCSymbols
  Prices <- MCPrices
  Positions <- MCPositions
  Requests <- PerAccount
  Api <- TwoWorkers
  Feed = feed
  Free = free
  Isolated = TRUE
SPECIFICATION Spec
INVARIANTS CashNeverDrifts JournalAgrees
PROPERTIES LedgerKept

SYMMETRY Symmetry

CONSTANTS
  alice = alice
  bob = bob
  nifty = nifty
  p1 = p1
  p2 = p2
  web1 = web1
  web2 = web2
  feed = feed
  free = free
  FeeBps = 3
  SlippageBps = 1
  Accounts <- MCAccounts
  Symbols <- MCSymbols
  Prices <- MCPrices
  Positions <- MCPositions
  Requests <- BothOrders
  Api <- OneWorker
  Feed = feed
  Free = free
  Isolated = FALSE
SPECIFICATION Spec
INVARIANTS CashNeverDrifts
SYMMETRY PositionSymmetry

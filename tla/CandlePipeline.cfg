CONSTANTS
  Width <- MCWidth
  Session <- MCSession
  MaxTime = 3
  Prices = {0, 1, 2}
  MaxVolume = 2
  MaxGapFill = 2
  MaxQuotes = 4
  MaxFaults = 1
  History <- MCHistory
  Span = 2
  Ranges <- MCRanges
  MaxBackfills = 1
SPECIFICATION Spec
CHECK_DEADLOCK FALSE
INVARIANTS OnlyValidBars PublishedAreStored InTimeOrder VolumeCountedOnce

SPECIFICATION MCSpec
CONSTANTS
  Gate = {"news"}
  ReduceOnly = {"news"}
  Regime = {1, 2}
  ClearTicks <- MCTicks
  ClearTime <- MCTime
  MinDwell = 1
  RetryAfter = 2
  HoldTime = 1
  SignalHour = 2
  MaxPerHour = 1
  MaxSignals = 2
  MaxDeaths = 1
  Spacing = 2
  MaxTick = 12
  MinWidth = 2
  MaxWidth = 10
  Band = 2
  Delta = 1
  HalfWidth = 2
  MaxGap = 1
  Widenings = {0, 1}
  Spread = 4
  FairStep = 3
  MaxMoves = 2
  op = op
  Operator = {op}
  Server = {}
  Nobody = nobody
  NoLane = nolane
  MaxImpl = 2
  MaxLanes = 1
  MaxCreates = 2
  Confirmations = 2
  ChunkBlocks = 2
  Lookback = 1
  MaxLag = 1
  MaxReorg = 1
  MaxBlock = 5
CONSTRAINT MCBound
INVARIANTS
  MarketTypeOK
  SignalsDiffer
  MintedWithinBand
  RevertMeansMarketMoved
  SingleSidedBeyondFair
  SetUpForOwnLane
  CursorTrails
PROPERTIES
  DwellServed
  OnePerTransition
  SignedStateIsCurrent

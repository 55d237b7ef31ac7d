SPECIFICATION MCSpec
CONSTANTS
  MaxEvents = 2
  MaxNonce = 1
  MaxDeliveries = 1
  Kind = {"forged", "agent"}
  MaxOps = 2
  MaxUnchecked = 1
  StreakLimit = 2
  Sensed <- MCQuiet
  MaxWatchFaults = 1
  p1 = p1
  p2 = p2
  NoRow = norow
  DeadRow = deadrow
  Daemon = {p1, p2}
  BeatEvery = 1
  Grace = 1
  CloseTime = 1
  StaleAge = 3
  MaxStalls = 1
  MaxDecisions = 1
  Window = 1
  CancelWindow = 1
  TickLen = 0
  Veto = 1
  Retry = 1
  SignalAuto = FALSE
  Mode = {"copilot", "autopilot"}
  Status = {"active", "disabled"}
  Channel = {"api"}
  MaxCrashes = 1
PROPERTIES
  OwnerCredentialsExpire
  TheftPausesLane
  DeadLockIsTaken
  EveryDecisionSettles

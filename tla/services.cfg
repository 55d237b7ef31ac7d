SPECIFICATION MCSpec
CONSTANTS
  MaxEvents = 3
  MaxNonce = 1
  MaxDeliveries = 1
  Kind = {"forged", "alien"}
  MaxOps = 2
  MaxUnchecked = 1
  StreakLimit = 2
  Sensed <- MCSensed
  MaxWatchFaults = 1
  p1 = p1
  p2 = p2
  NoRow = norow
  DeadRow = deadrow
  Daemon = {p1, p2}
  BeatEvery = 1
  Grace = 1
  CloseTime = 2
  StaleAge = 4
  MaxStalls = 2
  MaxDecisions = 2
  Window = 1
  CancelWindow = 2
  TickLen = 0
  Veto = 1
  Retry = 0
  SignalAuto = FALSE
  MaxCrashes = 1
  Mode = {"advisory", "copilot", "autopilot"}
  Status = {"active", "safe_mode", "revoked"}
  Channel = {"api", "file"}
CONSTRAINT MCBound
INVARIANTS
  ServicesTypeOK
  RevokeSticks
  FinishedTookEffect
  DetectionHeld
  PromptDaemonKeepsLock
  OneDaemonActs
  NobodyWaitsInVain
  RowMatchesExecutions
PROPERTIES
  ImplementsLog
  ApprovalNeverVetoes

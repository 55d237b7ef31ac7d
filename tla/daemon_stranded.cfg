SPECIFICATION Spec
CONSTANTS
  MaxDecisions = 1
  Window = 1
  CancelWindow = 2
  TickLen = 0
  Veto = 1
  Retry = 0
  SignalAuto = FALSE
  Mode = {"advisory", "copilot", "autopilot"}
  Status = {"active", "safe_mode", "revoked"}
  Channel = {"api", "file"}
  MaxCrashes = 1
INVARIANT
  StrandedSettledFromExecutions

SPECIFICATION Spec
CONSTANTS
  d1 = d1
  d2 = d2
  Decision = {d1, d2}
  Adding = {d1}
  MaxAttempts = 2
  MaxBroadcasts = 2
  DeadlineAhead = 2
  Margin = 1
  ConfirmLag = 1
  Resend = TRUE
  MaxTime = 4
  MaxForeign = 1
  MaxCrashes = 1
CONSTRAINT MCBound
INVARIANTS
  AtMostOneLanding
  RecordSound
  LateLandingExplained
PROPERTIES
  HaltedSendsNothing
  ImplementsStepRun
CHECK_DEADLOCK FALSE

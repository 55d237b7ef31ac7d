SPECIFICATION FairSpec
CONSTANTS
  d1 = d1
  d2 = d2
  Decision = {d1}
  Adding = {d1}
  MaxAttempts = 2
  MaxBroadcasts = 1
  DeadlineAhead = 1
  Margin = 0
  ConfirmLag = 1
  Resend = FALSE
  MaxTime = 3
  MaxForeign = 1
  MaxCrashes = 1
PROPERTY
  EverySettlesUnlessStranded
CHECK_DEADLOCK FALSE

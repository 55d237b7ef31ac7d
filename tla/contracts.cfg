SPECIFICATION MCSpec
CONSTANTS
  owner = owner
  key1 = key1
  key2 = key2
  none = none
  Address = {owner, key1, key2}
  NoAddress = none
  Owner = owner
  InitOperator = key1
  InitGuardian = key2
  InitCaps <- MCInitCaps
  Ceiling <- MCCeiling
  Target <- MCTarget
  Closure = {0, 3, 9}
  MaxSlots = 2
  Delay = 2
  StartTime = 1
  MaxTime = 8
  d1 = d1
  d2 = d2
  d3 = d3
  d4 = d4
  Decision = {d1, d2, d3, d4}
  Amount = {1, 2}
  Hour = 2
  Day = 6
  Scale = 1
  i1 = i1
  i2 = i2
  zero = zero
  never = never
  nocode = nocode
  Account = {owner, key1}
  Admin = owner
  Impl = {i1, i2}
  NoImpl = zero
  Unregistered = never
  Undeployed = nocode
  Looseness = {1, 2}
  Params <- MCParams
  ImplDelay = 1
  MaxFactoryTime = 2
SYMMETRY Ids
INVARIANTS
  ContractsTypeOK
  CapsWithinCeilings
  PositionsAccounted
  LiveNotionalBounded
  ExitAlwaysPossible
  BudgetsBounded
  OwnerCanList
PROPERTIES
  NonOwnersOnlyRestrict
  SettingsTimelocked
  ImplementationTimelocked

SPECIFICATION BudgetSpec
CONSTANTS
  owner = owner
  key = key
  none = none
  Address = {owner, key}
  NoAddress = none
  Owner = owner
  InitOperator = key
  InitGuardian = none
  Deploy = 2
  PerDay = 8
  Often1h = 2
  Often24h = 4
  InitCaps <- MCInitCaps
  Ceiling <- MCInitCaps
  Target <- NoTarget
  Closure = {}
  MaxSlots = 1
  Delay = 2
  StartTime = 1
  MaxTime = 8
  d1 = d1
  d2 = d2
  d3 = d3
  d4 = d4
  Decision = {d1, d2, d3, d4}
  Amount = {1, 2}
  Hour = 4
  Day = 8
  Scale = 4
SYMMETRY Ids
INVARIANTS
  RerangesWithinCaps

SPECIFICATION SessionSpec
CONSTANTS
  MaxEvents = 3
  MaxNonce = 1
  MaxDeliveries = 1
INVARIANT
  SafeModeNeedsOwner

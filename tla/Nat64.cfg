SPECIFICATION ManagerSpec
CONSTANTS
  Group = {g1}
  FilterSlots = 2
  Changes = 3
  AnyGroup = AnyGroup
CHECK_DEADLOCK FALSE
INVARIANT Nat64OnlyIfAllowed

SPECIFICATION MCSpec
CONSTANTS
  o1 = o1
  o2 = o2
  NoOwner = NoOwner
  Availabilities <- MCAvailabilities
  Resources <- MCResources
  Owners <- MCOwners
  Kind <- MCKind
  ResourceOf <- MCResource
  SlotOf <- MCSlotOf
  Capacity <- MCCapacity
  Slots <- MCSlots
  Durations = {0, 1}
  Quantities = {1}
  MaxBlockades = 4
  MaxTime = 1
  Composites = {"surgery", "visit"}
  ComponentsOf <- MCComponents
  CompositeRequests <- MCRequests
  Grouped <- Nights
INVARIANTS WholeUntilReleased NothingStranded StaysAreWhole
CHECK_DEADLOCK FALSE

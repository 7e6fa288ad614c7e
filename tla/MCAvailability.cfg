SPECIFICATION Spec
CONSTANTS
  o1 = o1
  o2 = o2
  NoOwner = NoOwner
  Availabilities <- HallAvailabilities
  Resources = {"hall"}
  Owners <- MCOwners
  Kind <- HallKind
  ResourceOf <- SameResource
  SlotOf <- SameSlot
  Capacity <- CapacityThree
  Slots <- MCSlots
  Durations <- MCDurations
  Quantities = {2}
  MaxBlockades = 3
  MaxTime = 1
SYMMETRY OwnerSymmetry
INVARIANTS TypeOK HeldIsBlocked PoolNotOversold
PROPERTY LeaseRefined
CHECK_DEADLOCK FALSE

SPECIFICATION ResourceSpec
CONSTANTS
  o1 = o1
  o2 = o2
  NoOwner = NoOwner
  Availabilities <- TwiceAvailabilities
  Resources = {"seat", "room"}
  Owners <- MCOwners
  Kind <- TwiceKind
  ResourceOf <- TwiceResource
  SlotOf <- SameSlot
  Capacity <- CapacityThree
  Slots <- MCSlots
  Durations <- MCDurations
  Quantities = {1}
  MaxBlockades = 2
  MaxTime = 1
INVARIANT ResourceHeldOnce
PROPERTY TimedLocksLapse
CHECK_DEADLOCK FALSE

SPECIFICATION MCSpec
CONSTANTS
  o1 = o1
  o2 = o2
  NoOwner = NoOwner
  Availabilities <- CarAvailabilities
  Resources = {"vin1"}
  Owners <- MCOwners
  Kind <- CarKind
  ResourceOf <- CarResource
  SlotOf <- CarSlot
  Capacity <- CapacityThree
  Slots <- MCSlots
  Durations = {0}
  Quantities = {1}
  MaxBlockades = 4
  MaxTime = 0
  Products = {"p"}
  Instances = {"i1"}
  ReserveRequests <- CarRequests
  MaxReservations = 4
  e1 = e1
  e2 = e2
  e3 = e3
  Entries = {e1, e2, e3}
  Segments = {"vip", "std"}
  Priority <- MCPriority
  AddedAt <- MCAddedAt
  SegmentOf <- MCSegmentOf
  Quota <- MCQuota
  Predicates <- MCPredicates
  MaxWaiting = 3
  MaxArrivals = 0
SYMMETRY OwnerSymmetry
INVARIANT NoDoubleBooking
CHECK_DEADLOCK FALSE

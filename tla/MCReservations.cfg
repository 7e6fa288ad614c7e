SPECIFICATION MCSpec
CONSTANTS
  o1 = o1
  o2 = o2
  NoOwner = NoOwner
  Availabilities <- MarinaAvailabilities
  Resources = {"room412", "diesel"}
  Owners <- MCOwners
  Kind <- MarinaKind
  ResourceOf <- MarinaResource
  SlotOf <- MarinaSlot
  Capacity <- CapacityThree
  Slots <- MCSlots
  Durations = {0}
  Quantities = {1}
  MaxBlockades = 4
  MaxTime = 0
  Products = {"p"}
  Instances = {"i1"}
  ReserveRequests <- MarinaRequests
  MaxReservations = 3
  e1 = e1
  e2 = e2
  e3 = e3
  Entries = {e1, e2, e3}
  Segments = {"vip", "std"}
  Priority <- MCPriority
  AddedAt <- MCAddedAt
  SegmentOf <- MCSegmentOf
  Quota <- MCQuota
  Predicates <- MCPredicates
  MaxWaiting = 3
  MaxArrivals = 4
SYMMETRY OwnerSymmetry
INVARIANTS
  ConfirmedKeepsItsBlockades
  NoStrandedBlockade
  EachTicketOnce
  NoOvertaking
  QuotaKept
CHECK_DEADLOCK FALSE

SPECIFICATION MCSpec
CONSTANTS
  s1 = s1
  s2 = s2
  s3 = s3
  x = x
  y = y
  z = z
  Nobody = Nobody
  Slots = {s1, s2, s3}
  Owners = {x, y, z}
  Requests <- MCRequests
  Transfers <- MCTransfers
  Holdings <- MCHoldings
  MaxRequests = 3
  Processes = {"p", "q"}
  Laboratories = {"l", "m"}
  Influencing <- MCInfluencing
  Adjacencies <- MCAdjacencies
  Constraints <- MCConstraints
  NoAdjacency = NoAdjacency
  NoParent = NoParent
  MaxEdges = 4
  MaxReservations = 4
  late = late
  restructured = restructured
  JourneyStates <- MCStates
  Products = {"LOAN", "PENALTY", "DISCOUNT"}
  Conditions = {late, restructured}
  Weights <- MCWeights
  NoWay = NoWay
  MaxTransitions = 3
  StepNames = {"dry", "measure", "analyse", "calibrate"}
  Refused = Refused
  StepObjects <- MCStepObjects
  MaxAdditions = 3
INVARIANTS
  CyclesAreFound
  ZonesAreSeparate
  WaysLead
  SchedulesAreSound
PROPERTY SlotsAreExchanged
CHECK_DEADLOCK FALSE

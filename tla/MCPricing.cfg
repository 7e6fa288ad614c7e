SPECIFICATION MCSpec
CONSTANTS
  Failed = Failed
  CalculatorNames = {"k1", "k2", "k3"}
  Definitions <- MCDefinitions
  RangeValues = {0, 1, 2, 3}
  MaxItems = 3
  ComponentNames = {"fee", "tax", "bill", "total"}
  SimpleRequests <- MCSimpleRequests
  CompositeRequests <- MCCompositeRequests
  Tariffs = {"basic", "premium"}
  Clocks = {1, 2}
  Instants = {0, 1, 2}
  Queries <- MCQueries
  MaxVersions = 5
INVARIANTS
  PricesAreUnambiguous
  CompositesFollowTheirParts
PROPERTY VersionsChangeTheirTime
CHECK_DEADLOCK FALSE

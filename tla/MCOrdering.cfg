SPECIFICATION MCSpec
CONSTANTS
  o1 = o1
  a = a
  b = b
  one = one
  two = two
  anna = anna
  office = office
  shop = shop
  Orders = {o1}
  LineIds = {a, b}
  Quantities = {one, two}
  Parties = {anna, office, shop}
  OrderPartyData <- MCOrderPartyData
  LinePartyData <- MCLinePartyData
  MaxPayments = 2
INVARIANTS
  KnownPaymentIsTheLast
  StartedIsCovered
  CancellationIsAgreed
  PartiesReachTheirLines
SYMMETRY Alike
CHECK_DEADLOCK FALSE

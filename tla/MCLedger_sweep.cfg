SPECIFICATION SweepSpec
CONSTANTS
  cash = cash
  revenue = revenue
  points = points
  expired = expired
  Accounts = {cash, revenue, points, expired}
  OffBalance = {points, expired}
  BaseCurrency = "PLN"
  Postings <- GrantPostings
  Compensations = {expired}
  RuleBook = {}
  Triggers = {}
  MaxTransactions = 3
  MaxExecutions = 3
  MaxSetOff = 5
  MaxRules = 0
  MaxTime = 2
INVARIANTS
  SweptOnce
CHECK_DEADLOCK FALSE

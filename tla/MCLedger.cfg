SPECIFICATION MCSpec
CONSTANTS
  cash = cash
  revenue = revenue
  points = points
  expired = expired
  Accounts = {cash, revenue, points, expired}
  OffBalance = {points, expired}
  BaseCurrency = "PLN"
  Postings <- BookPostings
  Compensations = {expired}
  RuleBook <- SaleRules
  Triggers <- SaleTriggers
  MaxTransactions = 3
  MaxExecutions = 3
  MaxSetOff = 7
  MaxRules = 3
  MaxTime = 1
INVARIANTS
  BooksBalance
  BalanceIsReconstructible
  RulesFollowEntries
CHECK_DEADLOCK FALSE

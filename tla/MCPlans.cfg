SPECIFICATION Spec
CONSTANTS
  InitialSchedules <- MCSchedules
  Incoming <- MCIncoming
  Tolerances <- MCTolerances
  RuleSets <- MCRuleSets
  MaxPayments = 3
  DayLength = 2
  InitialTargets <- MCTargets
  Batches <- MCBatches
  ProductionTolerances <- MCProductionTolerances
  ProductionRules <- MCProductionRules
  MaxBatches = 3
  MaxTarget = 60
  Metrics = {"YEARLY", "COMPLAINTS"}
  Readings <- MCReadings
  Margins <- MCMargins
  Terms <- MCTerms
  MaxDepth = 2
  MaxWindow = 2
  Clients <- MCClients
  Items <- MCItems
  Modifiers <- MCModifiers
  Predicates <- MCPredicates
  NoPredicate <- Everybody
  MaxDiscounts = 2
INVARIANT PaymentsAreUsedOnce
INVARIANT StatisticsAddUp
INVARIANT BuffersAddedOnce
INVARIANT ScoresFitTogether
INVARIANT DiscountsAreAsMeant
PROPERTY SpreadsOnlyTheRest
CHECK_DEADLOCK FALSE

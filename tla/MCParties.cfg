SPECIFICATION MCSpec
CONSTANTS
  p1 = p1
  p2 = p2
  contact = contact
  pesel = pesel
  krs = krs
  home = home
  office = office
  here = here
  there = there
  Absent = Absent
  PartyIds = {p1, p2}
  AddressIds = {home, office}
  Roles = {contact}
  Identifiers = {pesel, krs}
  TypeOf <- MCTypeOf
  Names = {"A", "B"}
  Details = {here, there}
  UseTypes = {"MAILING"}
  Relations <- MCRelations
  Registrations <- MCRegistrations
  MaxEvents = 2
  MaxRelationships = 1
  CapabilityIds = {"c1", "c2"}
  Abilities <- MCAbilities
  RequirementsOf <- MCRequirements
  Amounts = {1, 2, 3}
  Periods = {"PER_DAY", "PER_WEEK"}
  TimeTexts = {"08:00", "09:00", "10:00", "9:00"}
  SortsAt <- MCSortsAt
  HourOf <- MCHourOf
  Padded = {"08:00", "09:00", "10:00"}
  MaxNow = 3
  ProductIds = {"phone", "case"}
  TypeCommands <- MCCommands
  Categories = {"mobile"}
  Dates = {1, 2}
  RelationTypes = {"COMPATIBLE_WITH", "REPLACED_BY"}
  Policy <- MCPolicy
  Values <- MCValues
  Structures <- MCStructures
  SelectionRules <- MCSelectionRules
  Contexts <- MCContexts
  MaxQuantity = 2
  MaxObjects = 3
SYMMETRY MCSymmetry
INVARIANTS
  SubscriberCatchesUp
  RolesAreCovered
  OfferWindow
  PackagesHoldTheirRules
  AppliesConsistently

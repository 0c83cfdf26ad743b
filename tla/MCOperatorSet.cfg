\* A set and one caller past it.
SPECIFICATION Spec
CONSTANTS
  Callers = {set, c1}
  Set = set
  Operators <- BonusThenPackages
  NoData = NoData
  InitBonus = 1
  InitDaily = 0
  MaxDay = 2
  MaxEarned = 2
  MaxGranted = 6
  PackageIDs = {p1}
  Sizes = {6}
  Requests = {6}
INVARIANTS
  BalancesAddUp
  EarnedOncePerDay
  EventsExplainCharges
  ReportExact

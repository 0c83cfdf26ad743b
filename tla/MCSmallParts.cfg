\* Callers may stop calling, and the calls are bounded.
SPECIFICATION Spec
CHECK_DEADLOCK FALSE
CONSTANTS
  CheckMaxDuration = 2
  CheckFailCount = 3
  MaxCalls = 4
  Statuses = {1, 2}
  MaxTime = 4
  MaxUpdates = 3
  Months = {3, 4}
  MonthDays = 9
  SetDays = {1, 8}
  DayAmounts = {1}
  MaxAmount = 1
INVARIANTS
  NoticeEarned
  UsageExact
  TotalsAddUp
PROPERTIES
  BarksAtSilence

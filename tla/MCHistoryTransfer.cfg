\* One call at a time, failures at every step.
SPECIFICATION FairSpec
CONSTANTS
  Page = 2
  Runners = {r1}
  CanFail = TRUE
  MaxItems = 6
INVARIANTS
  NothingLost
  OldestFirst
  NothingTwice
  ShortPagesAscend
PROPERTIES
  TransferReturns

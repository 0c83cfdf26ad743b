\* Two accounts, two names, two callers.
SPECIFICATION Spec
CONSTANTS
  None = None
  Uids = {u1, u2}
  Names = {n1, n2}
  Lives = {2}
  TokenExpiresAfter = 1
  AutoRenewDuration = 1
  CleanEvery = 1
  MaxNow = 3
  Callers = {c1, c2}
  MaxTokens = 2
INVARIANTS
  NamesLeadBack
  PropertyStays
  
PROPERTIES
  LateTokensEnd
SYMMETRY Symmetry

SPECIFICATION Spec
CONSTANTS
  r1 = r1
  r2 = r2
  sweeper = sweeper
  Requests = {r1, r2}
  Sweeper = sweeper
  Allowance <- MCAllowance
  Completions = 1
  MaxAttempts = 2
  BatchLimit = 2
  MaxUsers = 2
  MaxLetters = 2
  MaxCrashes = 1
  MaxBuilds = 1
  Mixes <- MCMixes
INVARIANT WithinPlan
INVARIANT RowsFollowTheIdentity
PROPERTY PurgesAreOwed
PROPERTY DeadLettersAreWorkedOff
CHECK_DEADLOCK FALSE

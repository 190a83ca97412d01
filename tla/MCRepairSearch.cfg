CONSTANTS
  Cases <- MCCases
  MostChanges = {1, 2, 3}
  TopPlans = 2
SPECIFICATION RepairSpec
\* A search ends.
CHECK_DEADLOCK FALSE
INVARIANT NoPlanMeansNoPlan

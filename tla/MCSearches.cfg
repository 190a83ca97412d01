CONSTANTS
  Admitted = {1, 2, 3, 4}
  Families <- MCFamilies
  MaxSatCalls = 16
  TopSupports = 3
  Cases <- MCCases
  MostChanges = {1, 2, 3}
  TopPlans = 2
  EditCases <- MCEditCases
  Titlings <- MCTitlings
  Blank = Blank
  MostEdited = 2
  LoopCases <- MCLoopCases
  Provenances = {"p1", "p2"}
  PolicyVersions = {"pv1", "pv2"}
  Decisions = {"retain", "insufficient", "retract", "replace"}
SPECIFICATION SearchesSpec
\* A search ends, an inquiry ends at STOP.
CHECK_DEADLOCK FALSE
INVARIANTS
  SupportIsFirstSmallest
  NeverUnknown
  SupportsAreDecisive
  PlansReachTheTarget
  NoSmallerEditReaches
  VerifiedStopIsCarriedByVerifiedAnswers
  NotResolvableIsProved
  KeptPathKeepsConclusions
  UnchangedOutcomeStands
PROPERTIES
  AnsweringEnds

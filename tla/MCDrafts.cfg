SPECIFICATION DraftsSpec
CONSTANTS
  q1 = q1
  q2 = q2
  q3 = q3
  c1 = c1
  c2 = c2
  a = a
  b = b
  A = A
  NoNode = NoNode
  QuestionIds = {q1, q2, q3}
  ConclusionIds = {c1, c2}
  Options = {a, b, A}
  Fold <- MCFold
  QuestionData <- MCQuestionData
  StartTrees <- MCStartTrees
  MaxEdges = 2
  FewConditions <- MCFewConditions
  MaxChanges = 2
  r1 = r1
  r2 = r2
  x = x
  y = y
  t = t
  None = None
  Requests = {r1, r2}
  Edits = {x, y}
  Corpora = {t}
  Deployable <- MCDeployable
  MaxArtifacts = 2
INVARIANTS
  PublishableWalksConclude
  SolverGateAgreesWithValidation
  WalkAgreesWithTheory
  AcknowledgedEditsSurvive
PROPERTIES
  SuccessfulDeployIsLive
  OutdatedGraphsLeaveTheCache

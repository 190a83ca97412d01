SPECIFICATION Spec
CONSTANTS
  q1 = q1
  q2 = q2
  c1 = c1
  c2 = c2
  a = a
  b = b
  NoNode = NoNode
  QuestionIds = {q1, q2}
  ConclusionIds = {c1, c2}
  Options = {a, b}
  Fold <- MCFold
  Trees <- MCTrees
PROPERTY ConclusionsByExplicitAnswers

SPECIFICATION GenerationSpec
CONSTANTS
  Tabs = {t1}
  MaxAugmentations = 1
  MaxTrees = 2
  MaxAugmented = 1
  q1 = q1
  q2 = q2
  q3 = q3
  q4 = q4
  c1 = c1
  c2 = c2
  a = a
  b = b
  misspelt = misspelt
  NoNode = NoNode
  QuestionIds = {q1, q2, q3, q4}
  ConclusionIds = {c1, c2}
  Options = {a, b, misspelt}
  Fold <- MCFold
  Returned <- MCReturned
  Gates <- MCGates
  PlainIds = {q1, q2, q3, c1, c2}
  Similar <- MCSimilar
  CollectOnly = {q3}
  Allowed = {c1, c2}
\* A generation is completed or abandoned, a build ends.
CHECK_DEADLOCK FALSE
INVARIANTS
  StraightRunsBuildWhatWasSubmitted
  OneTreePerGeneration
  StatusTellsOfTheTree
  NothingFixableIsLeft
PROPERTY CheckpointsGoWithTheirRow

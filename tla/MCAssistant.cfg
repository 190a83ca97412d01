CONSTANTS
  Ir <- MCIr
  Phis <- MCPhis
  Provenances = {"p"}
  PolicyVersions = {"pv1"}
  Servers = {c1, c2, o1}
  Readers = {}
  Keys <- MCKeys
  ClientKeys <- MCOwnKeys
  SolverMayGiveUp = FALSE
  Chats = {c1, c2}
  ChatKey <- MCChatKey
  ChatAnswers <- MCAnswers
  MaxRuns = 2
  Calls = {k1, k2}
  ToolsUsed <- MCToolsUsed
  Graphs = {1, 2}
  Unbuilt = 0
  PaidHalves = 7
  FreeHalves = 5
  MaxChanges = 2
  PlanRequests = {r1, r2}
  FreeTrees = 1
  ProTrees = 2
  MaxMade = 3
  KindsTogether <- MCKindsTogether
SPECIFICATION AssistantSpec
SYMMETRY MCSymmetry
INVARIANTS
  ReportsFinishedCases
  ReportsAgree
  AnsweredTreesWereUsable
  AnswersAreOfTheTree
  MeterFollowsTheWork
  InventoryWithinPlan

CONSTANTS
  Ir <- MCIr
  Phis <- MCPhis
  Provenances = {"p"}
  PolicyVersions = {"pv1"}
  Servers = {c1, c2, o1}
  Readers = {}
  Keys <- MCKeys
  ClientKeys <- MCOwnKeys
  SolverMayGiveUp = FALSE
  Chats = {c1, c2}
  ChatKey <- MCChatKey
  ChatAnswers <- MCOneAnswer
  MaxRuns = 1
SPECIFICATION FairChatSpec
PROPERTY ContinueEnds

CONSTANTS
  Ir <- MCIr
  Phis <- MCPhis
  Provenances = {"p"}
  PolicyVersions = {"pv1"}
  Servers = {c1, o1}
  Readers = {}
  Keys <- MCKeys
  ClientKeys <- MCOwnKeys
  SolverMayGiveUp = FALSE
  Chats = {c1}
  ChatKey <- MCChatKey
  ChatAnswers <- MCAnswers
  MaxRuns = 2
SPECIFICATION FairChatSpec
PROPERTY RevisionIsVersion

CONSTANTS
  Ir <- MCIr
  Phis <- MCPhis
  Provenances = {"p"}
  PolicyVersions = {"pv1"}
  Servers = {c1, c2}
  Readers = {}
  Keys <- MCKeys
  ClientKeys <- MCOwnKeys
  SolverMayGiveUp = FALSE
  Chats = {c1, c2}
  ChatKey <- MCChatKey
  ChatAnswers <- MCAnswers
  MaxRuns = 2
SPECIFICATION ChatSpec
INVARIANT OneReportIssued

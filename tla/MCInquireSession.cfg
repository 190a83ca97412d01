CONSTANTS
  Ir <- MCIr
  Phis <- MCPhis
  Provenances = {"p"}
  PolicyVersions = {"pv1", "pv2"}
  Servers = {s1, s2}
  Readers = {r1}
  Keys = {k1, k2, k3, k4}
  ClientKeys = {k1, k2, k3, k4}
  SolverMayGiveUp = TRUE
SPECIFICATION Spec
SYMMETRY MCSymmetry
INVARIANTS
  AcknowledgedStands
  ActiveHasWorkLeft
  VerifiedUnderPinnedPolicy
  InvariantErrorMeansRace
PROPERTIES
  RevisionIsVersion
  NoStaleWriter
  ConclusionNeverFlips
  ImplementsVersionedCase

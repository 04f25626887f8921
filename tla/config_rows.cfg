SPECIFICATION Spec
CONSTANTS
  UUID = {u1}
  Key = {k1}
  Name = {}
  Template = {t1, t2}
  Decodable = {t1, t2}
  agent = agent
  agent2 = agent2
  admin = admin
  sweeper = sweeper
  Worker = {agent, admin}
  Serves <- RowWriters
  ReportedSums = {NoSum}
  NoUUID = NoUUID
  NoKey = NoKey
  NoName = NoName
  NoArchive = NoArchive
  NoSum = NoSum
  NeverSeen = NeverSeen
  OfflineAfter = 1
  VersionCap = 2
  Faults = TRUE
SYMMETRY Swaps
INVARIANTS ConfigCoherent Inv AppliedSumReported
PROPERTY ImplementsVersionedConfig

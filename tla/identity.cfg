SPECIFICATION Spec
CONSTANTS
  UUID = {u1, u2}
  Key = {k1, k2}
  Name = {n1}
  Template = {bad}
  Decodable = {}
  agent = agent
  agent2 = agent2
  admin = admin
  sweeper = sweeper
  Worker = {agent, agent2, admin}
  Serves <- Registrations
  ReportedSums = {NoSum}
  NoUUID = NoUUID
  NoKey = NoKey
  NoName = NoName
  NoArchive = NoArchive
  NoSum = NoSum
  NeverSeen = NeverSeen
  OfflineAfter = 1
  VersionCap = 1
  Faults = TRUE
SYMMETRY Perms
INVARIANTS TypeOK IdentityGranted

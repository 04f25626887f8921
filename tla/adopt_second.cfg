SPECIFICATION Spec
CONSTANTS
  UUID = {u1, u2}
  Key = {k1}
  Name = {}
  Template = {t1}
  Decodable = {t1}
  agent = agent
  agent2 = agent2
  admin = admin
  sweeper = sweeper
  Worker = {admin}
  Serves <- OnlyAdopt
  ReportedSums = {NoSum}
  NoUUID = NoUUID
  NoKey = NoKey
  NoName = NoName
  NoArchive = NoArchive
  NoSum = NoSum
  NeverSeen = NeverSeen
  OfflineAfter = 1
  VersionCap = 1
  Faults = FALSE
PROPERTY AdoptStoresNewDevice

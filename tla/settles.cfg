SPECIFICATION FairSpec
CONSTANTS
  UUID = {u1}
  Key = {k1}
  Name = {}
  Template = {t1, t2}
  Decodable = {t1, t2}
  agent = agent
  agent2 = agent2
  admin = admin
  sweeper = sweeper
  Worker = {agent, admin, sweeper}
  Serves <- Everyday
  ReportedSums = {}
  NoUUID = NoUUID
  NoKey = NoKey
  NoName = NoName
  NoArchive = NoArchive
  NoSum = NoSum
  NeverSeen = NeverSeen
  OfflineAfter = 0
  VersionCap = 1
  Faults = FALSE
PROPERTIES Settles SilentGoesOffline

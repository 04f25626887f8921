SPECIFICATION Spec
CONSTANTS
  UUID = {u1}
  Key = {k1}
  Name = {}
  Template = {t1, t2}
  Decodable = {t1, t2}
  agent = agent
  agent2 = agent2
  admin = admin
  sweeper = sweeper
  Worker = {agent, admin}
  Serves <- DownloadAndReport
  ReportedSums = {NoSum}
  NoUUID = NoUUID
  NoKey = NoKey
  NoName = NoName
  NoArchive = NoArchive
  NoSum = NoSum
  NeverSeen = NeverSeen
  OfflineAfter = 1
  VersionCap = 1
  Faults = FALSE
PROPERTY AppliedSumMatchesDownload

SPECIFICATION PollingSpec
CONSTANTS
  Device <- FarApart
  Config <- Configs
  CAName = {root}
  ServerKey = {s1}
  root = root
  s1 = s1
  agent = agent
  admin = admin
  Worker = {agent, admin}
  Polls <- AgentAndAdmin
  NoCA = NoCA
  NoArchive = NoArchive
  CertCap = 1
INVARIANTS Inv KeysOwned OneRoot OnePeerPerWorker AddressesApart
PROPERTY VpnSettles

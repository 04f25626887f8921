SPECIFICATION Spec
CONSTANTS
  VarField = "$var"
  DefaultField = "default"
  Vars <- DeviceVars
  Expansion <- Expansions
  SourceLists <- AllLists
  Modes = {"none", "wireguard", "openvpn", "zerotier"}
  OverlayOf <- Overlays
  DeviceNames = {"", "box"}
INVARIANTS Inv PriorityWins VarsReplaced StringsExpanded OverlayWins HostnameDecided FilesUnpacked
PROPERTY AsWritten

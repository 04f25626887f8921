SPECIFICATION Spec
CONSTANTS
  VarField = "$var"
  DefaultField = "default"
  Vars <- DeviceVars
  Expansion <- Expansions
  SourceLists <- AllLists
  Modes = {"none", "wireguard"}
  OverlayOf <- Overlays
  DeviceNames = {"", "box"}
INVARIANT NamedInterfacesRendered

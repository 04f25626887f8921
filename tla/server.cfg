SPECIFICATION Spec
CONSTANTS
  Caller = {w1, w2}
  UUID = {u1, u2}
  Version = {2}
  Secret = {"", "CHANGE_ME", "secret"}
  Nobody = Nobody
  Editor = {e1, e2}
  notjson = notjson
  NotJSON = notjson
  Name = {"a", "b"}
  Document = {"x", "y", notjson}
  Form <- Forms
  RowCap = 2
  Driver = {"", "postgres", "mysql", "sqlite"}
INVARIANTS Inv RowsWhole OnlyHolders
PROPERTIES CutOnlyAtDeadline ImplementsDirectory SignalStops CallsAnswered

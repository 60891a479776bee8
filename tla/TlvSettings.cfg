SPECIFICATION Spec
CONSTANTS
  Key = {"a", "b"}
  Value = {1, 2}
  Header = 1
  BufSize = 6
  MaxIndex = 2
  NoSnap = NoSnap
CHECK_DEADLOCK FALSE
INVARIANTS RecordsSound UpToDate
PROPERTIES ResetKeeps ImplementsStore EventuallySaved

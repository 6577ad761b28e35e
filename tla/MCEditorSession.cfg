SPECIFICATION Spec
CONSTANTS
  Documents = {"core"}
  ViewPaths = {"main", "fresh"}
  Initial = "main"
  None = None
  Fields = {"name", "note"}
  Subjects = {"s"}
  Titles = {"a"}
  Queries = {q}
  Questions = {c1, c2}
  MaxGestures <- MCGestures
  MaxEvents = 1
  MaxDrops = 1
  Hosts <- MCHosts
  Repertoires <- MCRepertoires
INVARIANTS
  RowsLandOnWhatWasShown
  QuietScreenIsCurrent
  NothingWaitsForNothing
PROPERTIES
  RowsLeaveOnlyByName
SYMMETRY MCSymmetry
CHECK_DEADLOCK FALSE

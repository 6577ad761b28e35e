SPECIFICATION Spec
CONSTANTS
  Documents = {"core"}
  ViewPaths = {"main", "fresh"}
  Initial = "main"
  None = None
  Fields = {"name"}
  Subjects = {"s"}
  Titles = {"a"}
  Queries = {q}
  Questions = {c1, c2}
  MaxGestures <- ViewGestures
  MaxEvents = 2
  MaxDrops = 0
  Hosts = {"socket"}
  Repertoires = {"views"}
INVARIANTS
  UnseenEditsSurvive
CHECK_DEADLOCK FALSE

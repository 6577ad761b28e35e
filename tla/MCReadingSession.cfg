SPECIFICATION Spec
CONSTANTS
  CoreOf <- MCCoreOf
  Services = {"service"}
  Interfaces = {}
  Rulings = {}
  Lineage <- MCLineage
  LayerOf <- MCLayerOf
  Responsibilities = {"answers"}
  AspectOf <- MCAspectOf
  Permitted <- MCPermitted
  CoreRelationship <- MCCoreRelationship
  Narrowing <- MCNarrowing
  ProfileOf <- MCProfileOf
  Loaded <- MCLoaded
  IdOrder <- MCIdOrder
  StrongLikeness = {}
  ModerateLikeness = {}
  PortKinds <- MCPortKinds
  FreshIds <- MCFreshIds
  Documents = {}
  ViewPaths = {"folded", "people"}
  Initial = "folded"
  None = None
  OpeningGraph <- MCGraph
  Memberships <- MCMemberships
  OpeningViews <- MCViews
  CarriedCatalogues <- MCCatalogues
  ElsewhereGraph <- MCElsewhere
  Texts = {"", "p"}
  NewKinds = {"zone"}
  RelationKinds = {"serving", "flow", "composition"}
  Predicates = {"purpose"}
  MaxGestures <- MCGestures
  MaxMissed = 1
  MaxCommits = 1
INVARIANTS
  ShellFollowsTheModel
  CanvasTellsTheView
  FocusShowsTheBox
  ExclusionIsFinal
PROPERTIES
  AnswersClose
CHECK_DEADLOCK FALSE

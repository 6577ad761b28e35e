\* A document written, signed off, committed, exchanged and read; each in behaviours of its own.
CONSTANTS
    CoreOf <- MCCoreOf
    Services = {}
    Interfaces = {}
    Rulings = {}
    Lineage <- MCLineage
    LayerOf <- MCLayerOf
    Responsibilities = {}
    AspectOf <- MCAspectOf
    Permitted <- MCPermitted
    CoreRelationship <- MCCoreRelationship
    Narrowing <- MCNarrowing
    ProfileOf <- MCProfileOf
    Loaded <- MCLoaded
    IdOrder <- MCIdOrder
    StrongLikeness = {}
    ModerateLikeness = {}
    Unkeyed = "none"
    Unrecorded = "none"
    Blank <- MCBlank
    Path <- MCPath
    Statuses <- MCStatuses
    Qualified <- MCQualified
    OpeningDocument <- MCDocument
    Words <- MCWords
    Wordings <- MCWordings
    Restatements <- MCRestatements
    Links <- MCLinks
    SignOffChoices <- MCSignOffs
    Observations <- MCObservations
    CellEdits <- MCCellEdits
    NewRows <- MCNewRows
    Catalogue <- MCCatalogue
    Views <- MCViews
    Cap = 1
    Budget = 14
    Bounds <- MCBounds
SPECIFICATION Spec
CHECK_DEADLOCK FALSE
INVARIANTS
    StaleWhenReworded
    ReviewShowsEveryChange
    ReadingsAgree
    BuildOrderHolds
PROPERTIES
    ImportKeepsTheirs

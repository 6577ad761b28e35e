\* Four files of two to six texts each, and a cache as old as the caller likes.
SPECIFICATION Spec
CONSTANTS
    CoreProfile = "core"
    CoreConcepts <- MCConcepts
    CorePolicies <- MCPolicies
    Permits <- MCPermits
    JunctionKinds = {"junction"}
    ShippedProfiles <- MCShipped
    Collation <- MCCollation
    IdOrder <- MCIdOrder
    Paths = {"profile", "pattern", "model", "other"}
    TextsOf <- MCTexts
    Parse <- MCParse
    NoText = "NoText"
    SegmentsOf <- MCSegments
    PathOrder <- MCPathOrder
    Manifests <- MCManifests
    MaxBehind = 1
INVARIANTS
    CacheChangesNothing
    ListingOrderIsIrrelevant
    CompiledGraphIsSound

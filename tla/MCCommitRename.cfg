\* The rename of a subject a rule names, by an `apply` nobody disturbs.
SPECIFICATION Spec
CONSTANTS
    CoreProfile = "core"
    CoreConcepts <- MCConcepts
    CorePolicies <- MCPolicies
    Permits <- MCPermits
    JunctionKinds = {}
    ShippedProfiles <- MCNoProfiles
    Collation <- MCCollation
    IdOrder <- MCIdOrder
    NoValue = NoValue
    NoFile = NoFile
    Kinds <- MCKinds
    DirectoryOf <- MCDirectories
    DefaultDirectory = "views"
    Start <- MCStart
    Appliers = {"apply"}
    Session = "visual"
    Batches <- MCBatches
    Saves <- MCSaves
    MaxSaves = 1
    MaxCommits = 1
CHECK_DEADLOCK FALSE
INVARIANT
    RulesFollowTheRename

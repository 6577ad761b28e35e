\* One `apply`, one commit of the visual session and one save by an editor.
SPECIFICATION Spec
CONSTANTS
    CoreProfile = "core"
    CoreConcepts <- MCConcepts
    CorePolicies <- MCPolicies
    Permits <- MCPermits
    JunctionKinds = {}
    ShippedProfiles <- MCNoProfiles
    Collation <- MCCollation
    IdOrder <- MCIdOrder
    NoValue = NoValue
    NoFile = NoFile
    Kinds <- MCKinds
    DirectoryOf <- MCDirectories
    DefaultDirectory = "views"
    Start <- MCStart
    Appliers = {"apply"}
    Session = "visual"
    Batches <- MCBatches
    Saves <- MCSaves
    MaxSaves = 1
    MaxCommits = 1
CHECK_DEADLOCK FALSE
INVARIANTS
    OnlyTheWindowLosesAnUpdate
    LandsOnWhatWasShown
    AloneLandsWhole
    BatchSaysWhatItDid
PROPERTY
    FreezeIsSomebodyElses

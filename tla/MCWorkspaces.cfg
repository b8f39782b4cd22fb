SPECIFICATION Spec
CONSTANTS
    MaxForeign = 2
    CacheRoot <- MCCacheRoot
    NewLeaf = 2
    StageLeaf = 7
    Handles = TRUE
    SourceRoot <- MCSourceRoot
    ArtifactRoot <- MCArtifactRoot
    WorkLeaf = 1
    Leaves <- MCLeaves
    Archives <- MCArchives
    Rewrites = {1, 2}
    BuildRoot <- MCBuildRoot
    Snapshots <- MCSnapshots
    MaxCleanup = 12
    Metadata <- MCMetadata
    PkgverUpdate <- MCPkgverUpdate
    Submodules <- MCSubmodules
    Declared <- MCSubmodules
    MaxDepth = 1
    MaxNodes = 3
    MaxCommit = 2
    Pkg = "p"
    Home <- MCHome
    Invokers = {1, 2}
    Drafts <- MCDrafts
    Material <- MCMaterial
    PatchNames <- MCPatchNames
    LocalRoot <- MCLocalRoot
    CopyRoot <- MCCopyRoot
    Architecture = "x86_64"
    RecipeOf <- MCRecipeOf
    SrcinfoOf <- MCRecipeOf
    Remote <- MCRemote
    Applied <- MCApplied
    Editing = {1, 2}
INVARIANTS
    LocalBuildIsReviewed
    RemovesOnlyPlanned
    SnapshotIsConsistent
    InstalledIsInspected
    AssessmentIsTruthful
    NothingUnseenDestroyed
    AcquiredSeriesExisted

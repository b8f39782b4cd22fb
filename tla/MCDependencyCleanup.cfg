SPECIFICATION SmallSpec
CONSTANTS
    Pkgs <- SmallPkgs
    Plans <- SmallPlans
    Needs <- SmallNeeds
    BaseDevel = {"prov"}
    Held = {"tool"}
    Worlds <- SmallWorlds
    FirstDbs <- SmallDbs
    MaxOther = 2
    Requests <- SmallRequests
    Dependency = "dep"
    Beforehand = {"lib2"}
    MaxReceipt = 2
    MaxFaults = 2
INVARIANTS
    OfferedIsComplete
    RemovedIsOurs
    ReceiptTruthful
PROPERTIES
    ReadyIsLargestSafeSet

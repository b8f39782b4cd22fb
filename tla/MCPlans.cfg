SPECIFICATION Spec
CONSTANTS
    Names = {"a", "b", "c", "v"}
    MaxDepth = 2
    MaxShifts = 1
    None = "none"
INVARIANTS
    PreparedIsBuildable
    EachUpdatedOnce
    PlannerAndPreflightAgree
    DryRunIsHonest
CHECK_DEADLOCK FALSE

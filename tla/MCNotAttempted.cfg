SPECIFICATION SmallSpec
CONSTANTS
    N = 2
    MaxVer = 2
    MaxItems = 2
    Children = {1, 2}
    Foreign = {"app", "app2"}
    Libs = {"lib"}
    Plain = {"tool"}
    SysWorlds <- SmallWorlds
    SysFaults = {"none", "exception", "configuration", "foreign", "relations",
                 "relationsPartial", "dependencies", "dependenciesPartial", "invalid",
                 "repository", "aurFailed", "aurUnavailable"}
    MaxMishaps = 1
INVARIANT NotAttemptedIsTrue

SPECIFICATION FairSpec
CONSTANTS
    Pkg = {"tool", "lib", "app"}
    Host = {"tool"}
    Staging = {"lib"}
    Target = {"lib", "app"}
    Images = {"lib"}
    Opkg = {"app"}
    Patched = {"lib"}
    Sourced = {}
    Deps <- MCDeps
    Rank <- MCRank
    Selected <- MCAppLib
    Goals <- WorldClean
    UserRemoves = {}
    MaxRev = 1
INVARIANTS StepsReady StampsHonest SuccessInstalls
PROPERTIES MakeEnds

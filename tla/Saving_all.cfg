SPECIFICATION Spec
CONSTANTS
    Programs = {"mconf", "nconf", "gconf", "qconf"}
    Names = {".config", "other"}
    DotConfig = ".config"
    Values = {"v1", "v2", "v3"}
    Default = "v1"
    Foreign = {"foreign"}
    ReadAs = "v2"
INVARIANTS SavedOnExit

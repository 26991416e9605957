SPECIFICATION FairSpec
CONSTANTS
    Builder = {"a", "b", "c"}
    Wanted <- SourcePatch
    SiteLists <- ScmThree
    Faults = {"refused", "cut", "noversion", "killed"}
INVARIANTS TypeOK OneWriter DirKept
PROPERTIES DownloadEnds

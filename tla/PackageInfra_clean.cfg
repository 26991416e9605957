SPECIFICATION Spec
CONSTANTS
    Pkg = {"lib"}
    Host = {}
    Staging = {"lib"}
    Target = {}
    Images = {}
    Opkg = {}
    Patched = {"lib"}
    Sourced = {"lib"}
    Deps <- MCDeps1
    Rank <- MCRank1
    Selected <- MCLib
    Goals <- LibAll
    UserRemoves = {"built", "dir"}
    MaxRev = 2
INVARIANTS TypeOK StampsHonest UpToDate
PROPERTIES InOrder

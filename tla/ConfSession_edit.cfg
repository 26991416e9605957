SPECIFICATION Spec
CONSTANTS
    Texts <- MCTexts
    Order <- MCOrder
    Files <- MCFiles
    Strings <- MCStrings
    Picks <- MCPicks
    Decimal <- MCDecimal
    Hex <- MCHex
    Prefixed <- MCPrefixed
    MaxOps = 4
INVARIANTS CacheCoherent ValuesAllowed SetIsTaken FilesReproduce
CHECK_DEADLOCK FALSE

SPECIFICATION Spec
CONSTANTS
    Texts <- MCTexts
    Order <- MCOrder
    Files <- MCFiles
    Strings <- MCStrings
    Decimal <- MCDecimal
    Hex <- MCHex
    Prefixed <- MCPrefixed
INVARIANTS NothingLeft UnaskedKept FewRounds

SPECIFICATION Spec
CONSTANTS
    Texts <- MCTexts
    Order <- MCOrder
    Strings <- MCStrings
    Decimal <- Nothing
    Hex <- Nothing
    Prefixed <- Nothing
    Programs <- MCPrograms
INVARIANTS AllReachable BoxesTrue RowsTrue LinkShown

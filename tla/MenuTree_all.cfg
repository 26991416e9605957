SPECIFICATION Spec
CONSTANTS
    Names <- MCNames
    Texts <- MCTexts
INVARIANTS TreeFits AsWritten CyclesFound
CHECK_DEADLOCK FALSE

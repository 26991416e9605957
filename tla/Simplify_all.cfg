SPECIFICATION Spec
CONSTANTS
    Inputs <- MCInputs
    Ty <- MCTy
INVARIANTS ValueKept AnswersSound PrintParses BlameNamesSelectors
CHECK_DEADLOCK FALSE

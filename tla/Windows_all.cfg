SPECIFICATION Spec
CONSTANTS
    Heights = {7, 10, 15, 17, 19}
    Counts = {0, 1, 6}
    Lengths = {1, 4, 8}
    ListHeight = 2
    Width = 4
    MAX_LEN = 9
    MaxScroll = 1
    Depth = 2
INVARIANT WindowsTrue
PROPERTY KeysMove
CHECK_DEADLOCK FALSE

\* A second thread discovers while the first one clears.
SPECIFICATION Spec
CONSTANTS
    parent = parent
    t1 = t1
    t2 = t2
    Processes = {parent}
    First = parent
    Threads <- PairThreads
    Of <- PairOf
    Groups = {g1, g2}
    AncestorCarries = TRUE
    MaxMoves = 1
    MaxClears = 1
    None = None
INVARIANTS NextReadingLocatesAgain
CHECK_DEADLOCK FALSE

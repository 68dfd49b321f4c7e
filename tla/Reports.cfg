\* A parent of two threads and its forked child, moves and clears at any time,
\* and every call of the sensor from one of the threads.
SPECIFICATION ReportSpec
CONSTANTS
    parent = parent
    child = child
    t1 = t1
    t2 = t2
    w1 = w1
    g1 = g1
    g2 = g2
    Processes = {parent, child}
    First = parent
    Threads <- FamilyThreads
    Of <- FamilyOf
    Groups = {g1, g2}
    AncestorCarries = TRUE
    MaxMoves = 1
    MaxClears = 2
    Reporter = t1
    Top = top
    Outer = outer
    Settings <- AnySetting
    None = None
INVARIANTS IInv ReportInv FreshAfterQuietClear ChildForgets QuietReportExact CounterOfOwnChain
PROPERTIES PairsOwnChain
CHECK_DEADLOCK FALSE

\* Threads that share a sampler, and one caller on a machine that changes.
SPECIFICATION FairSpec
CONSTANTS
    t1 = t1
    t2 = t2
    Threads = {t1, t2}
    Levels = {"own", "pod"}
    Caps <- AnyCap
    Shortest = 1
    Settings <- AnySetting
    None = None
INVARIANTS IInv OwnWindowsDisjoint LoadNeverInflated
PROPERTIES SwapsAtomically EveryCallReturns
CHECK_DEADLOCK FALSE

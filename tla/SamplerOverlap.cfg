\* Threads sharing one sampler: the reading is taken before the lock.
SPECIFICATION Spec
CONSTANTS
    t1 = t1
    t2 = t2
    Threads = {t1, t2}
    Levels = {"own", "pod"}
    Caps <- AnyCap
    Shortest = 1
    Settings <- Overlap
    None = None
INVARIANTS WindowsDisjoint
CHECK_DEADLOCK FALSE

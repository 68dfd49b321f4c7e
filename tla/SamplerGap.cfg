\* One thread, a limit lifted and set again between two calls with a reading.
SPECIFICATION Spec
CONSTANTS
    t1 = t1
    t2 = t2
    Threads = {t1, t2}
    Levels = {"own", "pod"}
    Caps <- AnyCap
    Shortest = 1
    Settings <- Gap
    None = None
INVARIANTS NoLoadAcrossLimitChange
CHECK_DEADLOCK FALSE

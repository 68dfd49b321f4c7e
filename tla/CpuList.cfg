\* Every list of up to three parts, by every source of the number of cores.
SPECIFICATION Spec
CONSTANTS
    Garbage = Garbage
    None = None
    Lists <- ShortLists
    Counts <- SomeCounts
INVARIANTS IInv CountsCores SystemAskedFirst
CHECK_DEADLOCK FALSE

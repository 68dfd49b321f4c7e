\* One limit set above the subtree a container is given.
SPECIFICATION Spec
CONSTANTS
    sys = sys
    sys2 = sys2
    Names = {"a", "b", "x", "gone"}
    Machines <- Contained
    Conventional = sys
    MaxChanges = 1
    None = None
INVARIANTS SubtreeReported

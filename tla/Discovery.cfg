\* Machines of every kind; controllers and limits change at any time.
SPECIFICATION Spec
CONSTANTS
    sys = sys
    sys2 = sys2
    Names = {"a", "b", "x", "gone"}
    Machines <- AnyMachine
    Conventional = sys
    MaxChanges = 4
    None = None
INVARIANTS IInv OwnGroupsOnly NothingHiddenSilently InterfaceIsHome CounterBesideQuota

\* A busy kernel under limits that stand or move, and any files failing.
SPECIFICATION Spec
CONSTANTS
    Height = 2
    Hosts <- AnyHost
    NoLimit = NoLimit
    None = None
INVARIANTS IInv
PROPERTIES RoomNeverOverpromised FailClosed BudgetCoherent QuietAnswerExact

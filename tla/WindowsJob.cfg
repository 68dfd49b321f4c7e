\* Limits set, a nested job entered and queries failing between any two queries.
SPECIFICATION Spec
CONSTANTS
    Limits <- AnyLimits
    Jobs <- SomeJobs
    Hosts <- AnyHosts
    Flaky = {"limits", "rate", "affinity", "violation", "commit", "count"}
    MaxCommit = 2
    MaxChanges = 2
    Scale = 4
    None = None
INVARIANTS IInv
PROPERTIES RoomNeverOverpromised BudgetCoherent NeverLooser UnreadableReportsNothing QuietExact

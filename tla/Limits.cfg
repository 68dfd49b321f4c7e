\* Every layout and all kinds of contents, and files rewritten, removed, created
\* and failing between any two reads.
SPECIFICATION Spec
CONSTANTS
    Layouts <- AnyLayout
    Cases <- QuietAndChurn
    Contents <- ChurnContents
    Mutable <- ChurnFiles
    Flaky <- ChurnFlaky
    Barrable <- OwnDirectories
    Machines = {None, 2}
    Unlimited = Unlimited
    Inherited = Inherited
    None = None
INVARIANTS IInv
PROPERTIES QuietExact RatePairsScope NeverLooser UnreadableReportsNothing

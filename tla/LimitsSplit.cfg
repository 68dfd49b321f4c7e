\* The quota and the accounting are two mounts that show different subtrees.
SPECIFICATION Spec
CONSTANTS
    Layouts <- SplitLayouts
    Cases <- SplitCases
    Contents <- ChurnContents
    Mutable <- NoFiles
    Flaky <- NoFiles
    Barrable <- NoFiles
    Machines = {None, 2}
    Unlimited = Unlimited
    Inherited = Inherited
    None = None
PROPERTIES RatePairsScope

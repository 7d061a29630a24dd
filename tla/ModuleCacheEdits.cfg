SPECIFICATION Spec
CONSTANTS
    Modules = {a, b, c}
    None = None
    MaxChanges = 2
    MaxRequests = 2
SYMMETRY Symmetry
INVARIANTS
    TypeOK
    CleanMeansUnchanged
    OneGeneration
    UnknownIsCurrent
    DependenciesCached
    NothingTypedTwice
    ShadowsNoticed
PROPERTIES
    ModulesStay
CHECK_DEADLOCK FALSE

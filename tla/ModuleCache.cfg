SPECIFICATION Spec
CONSTANTS
    Modules = {a, b, c}
    None = None
    MaxChanges = 1
    MaxRequests = 3
SYMMETRY Symmetry
INVARIANTS
    CleanMeansUnchanged
    OneGeneration
    UnknownIsCurrent
    DependenciesCached
    ShadowsNoticed
PROPERTIES
    ModulesStay
CHECK_DEADLOCK FALSE

\* Properties the documentation states and the code does not keep; one at a time.
SPECIFICATION Spec
CONSTANTS
    Modules = {a, b}
    None = None
    MaxChanges = 1
    MaxRequests = 3
SYMMETRY Symmetry
INVARIANT NoShadowsWhenNew
\* INVARIANT TypedAgainstContext
CHECK_DEADLOCK FALSE

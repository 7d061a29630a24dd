SPECIFICATION Spec
CONSTANTS
    Exprs = {e1, e2}
    Body = Body
    Null = Null
    Lambdas = TRUE
    MaxInstalled = 2
    MaxDepth = 2
    MaxStatements = 4
    MaxFrames = 3
SYMMETRY Symmetry
INVARIANTS
    PlainFramesMatch
    PlainDefersStay
CHECK_DEADLOCK FALSE

\* Properties the documentation states and the code does not keep; one at a time, with
\* the values of Lambdas and MaxInstalled that stand above it.
SPECIFICATION Spec
CONSTANTS
    Exprs = {e1}
    Body = Body
    Null = Null
    MaxDepth = 2
    MaxStatements = 2
    MaxFrames = 6
SYMMETRY Symmetry
CHECK_DEADLOCK FALSE
\* A block that begins with defer.
CONSTANTS
    Lambdas = FALSE
    MaxInstalled = 1
INVARIANT DeferAnywhere
\* A trailing lambda.
\* CONSTANTS
\*     Lambdas = TRUE
\*     MaxInstalled = 1
\* INVARIANT DefersStayInTheirBlock
\* Callbacks that are installed again.
\* CONSTANTS
\*     Lambdas = FALSE
\*     MaxInstalled = 2
\* INVARIANT DefersStayInTheirBlock

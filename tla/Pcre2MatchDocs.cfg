\* What the callers of the binding rely on and the code does not keep; one at a time,
\* the last one with DfaCallouts = TRUE.
CONSTANTS
  Rexs = {r1, r2}
  Groups = 2
  Starts = {0, 1}
  Offsets = {1}
  MaxDepth = 3
  DfaCallouts = FALSE
SPECIFICATION Spec
INVARIANT UnsetIsNoGroup
\* INVARIANT SuccessHasGroups
\* PROPERTY BacktrackGoesOn
\* INVARIANT PointersValid

\* Properties the code does not keep; one at a time.
CONSTANTS
  MaxParts = 2
  MaxCore = 3
  NameChars <- MCNameChars
  Fold <- MCFold
  Documents <- MCDocuments
SPECIFICATION XmlSpec
INVARIANTS
  EveryNodeDone
\*  EveryBreakCounted
CHECK_DEADLOCK FALSE

CONSTANTS
  MaxParts = 3
  MaxCore = 5
  NameChars <- MCNameChars
  Fold <- MCFold
  Documents <- MCDocuments
SPECIFICATION XmlSpec
INVARIANTS
  EventsMatchDocument
  PlaceIsKept
PROPERTY AcceptsWellFormed
CHECK_DEADLOCK FALSE

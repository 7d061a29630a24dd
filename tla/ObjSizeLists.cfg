\* The two walks over small heaps and over long lists.
CONSTANTS
  BITS_FOR_COUNT = 5
  BITS_FOR_ORDER = 4
  COLORS_INIT_COUNT = 4
  NoBlock = 0
  ListLengths = {31, 33, 66}
  Calls <- MCCalls
SPECIFICATION SizeSpec
INVARIANTS
  SizeTypeOK
  ListsInConstantStack
CHECK_DEADLOCK FALSE

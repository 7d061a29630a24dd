\* Two regular expressions with two groups, matches three deep.
CONSTANTS
  Rexs = {r1, r2}
  Groups = 2
  Starts = {0, 1}
  Offsets = {1}
  MaxDepth = 3
  DfaCallouts = FALSE
SPECIFICATION Spec
INVARIANTS PointersValid BlocksOfMatches OwnCallouts ResultGroups

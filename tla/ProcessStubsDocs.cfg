\* Properties the documentation states and the code does not keep; one at a time.
CONSTANTS
  Procs = {p1, p2}
  Fds = {3, 4, 5, 6, 7, 8, 9, 10, 11}
  PipeRoom = 1
  Used = {"in", "out"}
  CommandLengths = {0, 11, 13, 14}
  MaxCommand = 3
  MaxArgument = 5
  MaxPair = 2
  Calls <- MCCalls
SPECIFICATION MCSpec
INVARIANT StdinCloseIsEof
\* INVARIANT StdoutCloseIsEof
\* INVARIANT CommandArrives
CHECK_DEADLOCK FALSE

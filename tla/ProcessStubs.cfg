\* Two processes, descriptors 3 to 11, one unit of data a pipe; children that
\* use their standard input and output.  Commands that end before, at and after
\* the end of the first chunk of 16 characters.
CONSTANTS
  Procs = {p1, p2}
  Fds = {3, 4, 5, 6, 7, 8, 9, 10, 11}
  PipeRoom = 1
  Used = {"in", "out"}
  CommandLengths = {0, 11, 13, 14}
  MaxCommand = 3
  MaxArgument = 5
  MaxPair = 2
  Calls <- MCCalls
SPECIFICATION MCSpec
INVARIANTS OwnFds FdsAccounted ArgumentsArrive
PROPERTY EndedChildIsSeen
CHECK_DEADLOCK FALSE

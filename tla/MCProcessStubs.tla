---------------------------- MODULE MCProcessStubs --------------------------
(***************************************************************************)
(* The two builds of process_run: on POSIX the processes of ProcessStubs,  *)
(* on Windows the command lines of WinCommandLine over short arguments of  *)
(* every kind of character.                                                *)
(***************************************************************************)
EXTENDS ProcessStubs, WinCommandLine

CONSTANTS
  CommandLengths,   \* bound: how long a plain command is, around the size of a chunk
  MaxCommand,       \* bound: how long a command of any characters is
  MaxArgument,      \* bound: how long a single argument is
  MaxPair           \* bound: how long each of two arguments is

VARIABLE windows    \* which build it is

Strings(n) == UNION {[1 .. k -> {Quote, Backslash, Space, "a"}] : k \in 0 .. n}

ArgumentLists ==
  {<<v>> : v \in Strings(MaxArgument)} \cup {<<v, w>> : v, w \in Strings(MaxPair)}

MCCalls == [cmd : {Times(n, "c") : n \in CommandLengths}, args : ArgumentLists]
             \cup [cmd : Strings(MaxCommand), args : {<<v>> : v \in Strings(MaxPair)}]

NoCall == [cmd |-> << >>, args |-> << >>, line |-> NoLine]

MCInit ==
  /\ Init
  /\ \/ windows = TRUE /\ CallRun
     \/ windows = FALSE /\ call = NoCall

MCNext ==
  \/ windows /\ BuildCommandLine /\ UNCHANGED <<vars, windows>>
  \/ ~windows /\ Next /\ UNCHANGED <<call, windows>>

MCSpec == MCInit /\ [][MCNext]_<<vars, call, windows>> /\ Fairness
=============================================================================

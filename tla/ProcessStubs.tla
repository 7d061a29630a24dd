---------------------------- MODULE ProcessStubs ----------------------------
(***************************************************************************)
(* Child processes as libs/extc/process_stubs.c makes them on POSIX        *)
(* systems: three pipes, a fork, and the descriptors the two sides keep.   *)
(*                                                                         *)
(* The stubs hold the OCaml runtime while they run and while they wait, so *)
(* the calls of the parent come one after the other; the children run      *)
(* between its steps.                                                      *)
(* A descriptor is a number the kernel gives out again as soon as it is    *)
(* closed, always the lowest that is free.                                 *)
(***************************************************************************)
EXTENDS Integers, FiniteSets

CONSTANTS Procs,      \* the process objects, each for one call of process_run
          Fds,        \* bound: the descriptors the parent may have open
          PipeRoom,   \* bound: how much a pipe holds
          Used        \* bound: the standard streams the children use

ASSUME ProcessAssumption ==
  /\ Fds \subseteq Nat
  /\ PipeRoom \in Nat \ {0}
  /\ Used \subseteq {"in", "out", "err"}

Streams == {"in", "out", "err"}
Pipes == Procs \X Streams
Ends == Pipes \X {"r", "w"}
End(q, stream, side) == <<<<q, stream>>, side>>

Free == << >>         \* an entry of the descriptor table
NoFd == -1           \* p->iwrite after process_stdin_close

VARIABLES
  tab,      \* the parent's descriptor table: [Fds -> Ends or Free]
  obj,      \* the vprocess of each object, and whether it is there
  stub,     \* the stub the parent is in for each object, or "idle"
  got,      \* the descriptors process_run has from pipe() so far
  lost,     \* descriptors no vprocess names any more
  child,    \* what each child does
  ctab,     \* the ends a child inherited and has not closed
  std,      \* the ends that are a child's descriptors 0, 1 and 2
  data      \* how much is in each pipe

parent == <<obj, stub, got, lost>>
children == <<child, ctab, std>>
vars == <<tab, parent, children, data>>

Alive == {"forked", "running"}
Ended == {"exited", "killed", "reaped"}
Waits == {"stdout_read", "stderr_read", "stdin_write", "exit"}

HeldByParent(end) == \E f \in Fds : tab[f] = end
HeldByChild(q, end) == end \in ctab[q] \cup std[q]
Held(end) == HeldByParent(end) \/ \E q \in Procs : HeldByChild(q, end)

NoObject == [state |-> "none", oread |-> NoFd, eread |-> NoFd, iwrite |-> NoFd]

Init ==
  /\ tab = [f \in Fds |-> Free]
  /\ obj = [q \in Procs |-> NoObject]
  /\ stub = [q \in Procs |-> "idle"]
  /\ got = {}
  /\ lost = {}
  /\ child = [q \in Procs |-> "none"]
  /\ ctab = [q \in Procs |-> {}]
  /\ std = [q \in Procs |-> {}]
  /\ data = [pipe \in Pipes |-> 0]

-----------------------------------------------------------------------------
ParentIdle == \A q \in Procs : stub[q] = "idle"
Enter(q, name) == ParentIdle /\ stub' = [stub EXCEPT ![q] = name]
Return(q) == stub' = [stub EXCEPT ![q] = "idle"]

(* The kernel: pipe() takes the two lowest free descriptors.               *)
FreeFds == {f \in Fds : tab[f] = Free}
Lowest(f, S) == f \in S /\ \A g \in S : f <= g

CloseAll(fds) == [f \in Fds |-> IF f \in fds THEN Free ELSE tab[f]]
FdOf(end) == CHOOSE f \in Fds : tab[f] = end

(* process_run: the calls of pipe() one by one, for stdin, stdout, stderr. *)
StartRun(q) ==
  /\ obj[q].state = "none"
  /\ Enter(q, "run")
  /\ UNCHANGED <<tab, obj, got, lost, children, data>>

Piped(q, stream) == HeldByParent(End(q, stream, "r"))
AllPiped(q) == \A stream \in Streams : Piped(q, stream)
NextStream(q) == IF ~Piped(q, "in") THEN "in" ELSE IF ~Piped(q, "out") THEN "out" ELSE "err"

MakePipe(q) ==
  /\ stub[q] = "run" /\ ~AllPiped(q)
  /\ \E r, w \in Fds :
       /\ Lowest(r, FreeFds)
       /\ Lowest(w, FreeFds \ {r})
       /\ tab' = [tab EXCEPT ![r] = End(q, NextStream(q), "r"),
                             ![w] = End(q, NextStream(q), "w")]
       /\ got' = got \cup {r, w}
  /\ UNCHANGED <<obj, stub, lost, children, data>>

(* A pipe() that fails raises at once: the pipes made before stay open.    *)
PipeFails(q) ==
  /\ stub[q] = "run" /\ ~AllPiped(q)
  /\ lost' = lost \cup got
  /\ got' = {}
  /\ obj' = [obj EXCEPT ![q].state = "failed"]
  /\ Return(q)
  /\ UNCHANGED <<tab, children, data>>

(* A fork that fails closes the six descriptors.                           *)
ForkFails(q) ==
  /\ stub[q] = "run" /\ AllPiped(q)
  /\ tab' = CloseAll(got)
  /\ got' = {}
  /\ obj' = [obj EXCEPT ![q].state = "failed"]
  /\ Return(q)
  /\ UNCHANGED <<lost, children, data>>

\* Mutant of Fork: the parent keeps the child's end of stdout.
ForkKeepsOutput(q) ==
  /\ stub[q] = "run" /\ AllPiped(q)
  /\ child' = [child EXCEPT ![q] = "forked"]
  /\ ctab' = [ctab EXCEPT ![q] = {end \in Ends : HeldByParent(end)}]
  /\ tab' = CloseAll({FdOf(End(q, "in", "r")), FdOf(End(q, "err", "w"))})
  /\ obj' = [obj EXCEPT ![q] =
               [state |-> "open", oread |-> FdOf(End(q, "out", "r")),
                eread |-> FdOf(End(q, "err", "r")), iwrite |-> FdOf(End(q, "in", "w"))]]
  /\ got' = {}
  /\ Return(q)
  /\ UNCHANGED <<lost, std, data>>

(* The fork: the child has every end the parent has.  The parent closes    *)
(* the child's ends and keeps its own in the vprocess.                     *)
Fork(q) ==
  /\ stub[q] = "run" /\ AllPiped(q)
  /\ child' = [child EXCEPT ![q] = "forked"]
  /\ ctab' = [ctab EXCEPT ![q] = {end \in Ends : HeldByParent(end)}]
  /\ tab' = CloseAll({FdOf(End(q, "in", "r")), FdOf(End(q, "out", "w")), FdOf(End(q, "err", "w"))})
  /\ obj' = [obj EXCEPT ![q] =
               [state |-> "open", oread |-> FdOf(End(q, "out", "r")),
                eread |-> FdOf(End(q, "err", "r")), iwrite |-> FdOf(End(q, "in", "w"))]]
  /\ got' = {}
  /\ Return(q)
  /\ UNCHANGED <<lost, std, data>>

-----------------------------------------------------------------------------
(* The child between fork and exec: it closes the parent's ends of its own *)
(* pipes and duplicates its own ones to 0, 1 and 2.  Nothing is marked     *)
(* close-on-exec, so the program has what is left.                         *)
ChildSetup(q) ==
  /\ child[q] = "forked"
  /\ child' = [child EXCEPT ![q] = "running"]
  /\ ctab' = [ctab EXCEPT ![q] = @ \ {End(q, "in", "w"), End(q, "out", "r"), End(q, "err", "r")}]
  /\ std' = [std EXCEPT ![q] = {End(q, "in", "r"), End(q, "out", "w"), End(q, "err", "w")}]
  /\ UNCHANGED <<tab, parent, data>>

(* The program, external: it reads, writes, closes a standard stream and   *)
(* ends; so does the child whose execvp failed, which writes to 2.         *)
ChildReads(q) ==
  /\ End(q, "in", "r") \in std[q] /\ data[<<q, "in">>] > 0
  /\ data' = [data EXCEPT ![<<q, "in">>] = @ - 1]
  /\ UNCHANGED <<tab, parent, children>>

ChildWrites(q, stream) ==
  /\ End(q, stream, "w") \in std[q]
  /\ data[<<q, stream>>] < PipeRoom /\ Held(End(q, stream, "r"))
  /\ data' = [data EXCEPT ![<<q, stream>>] = @ + 1]
  /\ UNCHANGED <<tab, parent, children>>

ChildCloses(q, end) ==
  /\ end \in std[q]
  /\ std' = [std EXCEPT ![q] = @ \ {end}]
  /\ UNCHANGED <<tab, parent, child, ctab, data>>

(* The kernel closes what a child that ends still has.                     *)
Terminate(q, how) ==
  /\ child' = [child EXCEPT ![q] = how]
  /\ ctab' = [ctab EXCEPT ![q] = {}]
  /\ std' = [std EXCEPT ![q] = {}]

ChildEnds(q) ==
  /\ child[q] = "running"
  /\ Terminate(q, "exited")
  /\ UNCHANGED <<tab, parent, data>>

-----------------------------------------------------------------------------
(* The stubs that may wait: each is entered for an open object, and        *)
(* returns as the kernel lets it.  EINTR is retried.                       *)
StartWait(q, name) ==
  /\ obj[q].state = "open"
  /\ Enter(q, name)
  /\ UNCHANGED <<tab, obj, got, lost, children, data>>

(* read() waits for data or for the end of the last writer.                *)
ReadFd(q) == IF stub[q] = "stdout_read" THEN obj[q].oread ELSE obj[q].eread

ReadReturns(q) ==
  /\ stub[q] \in {"stdout_read", "stderr_read"}
  /\ LET pipe == tab[ReadFd(q)][1]
     IN \/ data[pipe] > 0 /\ data' = [data EXCEPT ![pipe] = @ - 1]
        \/ data[pipe] = 0 /\ ~Held(<<pipe, "w">>) /\ UNCHANGED data
  /\ Return(q)
  /\ UNCHANGED <<tab, obj, got, lost, children>>

(* write() waits for room, and fails without a reader or a descriptor.     *)
WriteReturns(q) ==
  /\ stub[q] = "stdin_write"
  /\ \/ /\ obj[q].iwrite # NoFd
        /\ LET pipe == tab[obj[q].iwrite][1]
           IN \/ /\ Held(<<pipe, "r">>) /\ data[pipe] < PipeRoom
                 /\ data' = [data EXCEPT ![pipe] = @ + 1]
              \/ ~Held(<<pipe, "r">>) /\ UNCHANGED data
     \/ obj[q].iwrite = NoFd /\ UNCHANGED data
  /\ Return(q)
  /\ UNCHANGED <<tab, obj, got, lost, children>>

(* process_exit waits for the child and takes its status.  It raises for a *)
(* child that was killed, and for one it has already waited for.           *)
ExitReturns(q) ==
  /\ stub[q] = "exit"
  /\ child[q] \in Ended
  /\ child' = [child EXCEPT ![q] = "reaped"]
  /\ Return(q)
  /\ UNCHANGED <<tab, obj, got, lost, ctab, std, data>>

\* Mutant of StdinClose: the object keeps the descriptor.
StdinCloseKeeps(q) ==
  /\ ParentIdle /\ obj[q].state = "open" /\ obj[q].iwrite # NoFd
  /\ tab' = CloseAll({obj[q].iwrite})
  /\ UNCHANGED <<obj, stub, got, lost, children, data>>

(* process_stdin_close: a second one raises, because close(-1) fails.  The *)
(* first one closes an open descriptor of a pipe, which the kernel does    *)
(* not refuse; the object would keep the number if it did.                 *)
StdinClose(q) ==
  /\ ParentIdle /\ obj[q].state = "open" /\ obj[q].iwrite # NoFd
  /\ tab' = CloseAll({obj[q].iwrite})
  /\ obj' = [obj EXCEPT ![q].iwrite = NoFd]
  /\ UNCHANGED <<stub, got, lost, children, data>>

(* process_kill; on a child that has ended it does nothing here.           *)
Kill(q) ==
  /\ ParentIdle /\ obj[q].state = "open"
  /\ child[q] \in Alive
  /\ Terminate(q, "killed")
  /\ UNCHANGED <<tab, parent, data>>

(* process_close: free_process closes what the vprocess names.             *)
Named(q) == {obj[q].eread, obj[q].oread, obj[q].iwrite} \ {NoFd}

Close(q) ==
  /\ ParentIdle /\ obj[q].state = "open"
  /\ tab' = CloseAll(Named(q))
  /\ obj' = [obj EXCEPT ![q] = [NoObject EXCEPT !.state = "closed"]]
  /\ UNCHANGED <<stub, got, lost, children, data>>

(* The garbage collector takes an object nobody closed: no finaliser.      *)
Collect(q) ==
  /\ ParentIdle /\ obj[q].state = "open"
  /\ lost' = lost \cup Named(q)
  /\ obj' = [obj EXCEPT ![q] = [NoObject EXCEPT !.state = "closed"]]
  /\ UNCHANGED <<tab, stub, got, children, data>>

-----------------------------------------------------------------------------
Parent(q) ==
  \/ StartRun(q) \/ MakePipe(q) \/ PipeFails(q) \/ ForkFails(q) \/ Fork(q)
  \/ \E name \in Waits : StartWait(q, name)
  \/ ReadReturns(q) \/ WriteReturns(q) \/ ExitReturns(q)
  \/ StdinClose(q) \/ Kill(q) \/ Close(q) \/ Collect(q)

Child(q) ==
  \/ ChildSetup(q) \/ ChildReads(q) \/ ChildEnds(q)
  \/ \E stream \in Used \ {"in"} : ChildWrites(q, stream)
  \/ \E stream \in Used, side \in {"r", "w"} : ChildCloses(q, End(q, stream, side))

Next == \E q \in Procs : Parent(q) \/ Child(q)

(* A system call that can return does.                                     *)
Fairness == \A q \in Procs : WF_vars(ReadReturns(q)) /\ WF_vars(ExitReturns(q))

Spec == Init /\ [][Next]_vars /\ Fairness

-----------------------------------------------------------------------------
(* The types; the stubs of one object at a time.                           *)
TypeOK ==
  /\ tab \in [Fds -> Ends \cup {Free}]
  /\ obj \in [Procs -> [state : {"none", "open", "closed", "failed"},
                        oread : Fds \cup {NoFd}, eread : Fds \cup {NoFd},
                        iwrite : Fds \cup {NoFd}]]
  /\ stub \in [Procs -> Waits \cup {"idle", "run"}]
  /\ got \subseteq Fds
  /\ lost \subseteq Fds
  /\ child \in [Procs -> {"none"} \cup Alive \cup Ended]
  /\ ctab \in [Procs -> SUBSET Ends]
  /\ std \in [Procs -> SUBSET Ends]
  /\ data \in [Pipes -> 0 .. PipeRoom]
  /\ \A p, q \in Procs : stub[p] # "idle" /\ stub[q] # "idle" => p = q

(* The descriptors of an open object are the parent's ends of its own      *)
(* pipes: however the numbers are given out again after a stdin_close, a   *)
(* close or a failed run, a stub never reads, writes or closes a pipe of   *)
(* another process.                                                        *)
OwnFds ==
  \A q \in Procs : obj[q].state = "open" =>
    /\ obj[q].oread \in Fds /\ tab[obj[q].oread] = End(q, "out", "r")
    /\ obj[q].eread \in Fds /\ tab[obj[q].eread] = End(q, "err", "r")
    /\ obj[q].iwrite # NoFd =>
         obj[q].iwrite \in Fds /\ tab[obj[q].iwrite] = End(q, "in", "w")

(* No descriptor is forgotten but in the two ways the code has: what was   *)
(* piped before a pipe() that failed, and an object nobody closed.  All    *)
(* others are named by an object, or by the process_run that made them.    *)
FdsAccounted ==
  \A f \in Fds : tab[f] # Free =>
    f \in lost \cup got \cup UNION {Named(q) : q \in Procs}

(* Once the child has ended, a read of its output and the wait for its     *)
(* exit code return, whatever other children were forked before or since,  *)
(* and inherited.                                                          *)
EndedChildIsSeen ==
  \A q \in Procs :
    stub[q] \in {"stdout_read", "stderr_read", "exit"} /\ child[q] \in Ended
      ~> stub[q] = "idle"

(* process_stdin_close, "Close the process standard input": after it       *)
(* nobody could write to the child any more.                               *)
StdinCloseIsEof ==
  \A q \in Procs :
    obj[q].state = "open" /\ obj[q].iwrite = NoFd /\ child[q] = "running"
      => ~Held(End(q, "in", "w"))

(* process_stdout_read, "Raise an exception if this process stdout is      *)
(* closed": when the child has closed it, the reader does not wait on.     *)
StdoutCloseIsEof ==
  \A q \in Procs :
    child[q] = "running" /\ End(q, "out", "w") \notin std[q] => ~Held(End(q, "out", "w"))
=============================================================================

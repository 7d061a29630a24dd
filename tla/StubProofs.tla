----------------------------- MODULE StubProofs -----------------------------
(***************************************************************************)
(* Proofs about two of the native libraries.                               *)
(*                                                                         *)
(* ProcessStubs, for any set of processes and descriptors: the stubs of an *)
(* object use the descriptors of its own pipes only, and no descriptor is  *)
(* forgotten but where the code loses it.                                  *)
(*                                                                         *)
(* ObjSize, for any finite heap and any lists of blocks: what c_objsize    *)
(* answers is the size of what can be reached, and lists are walked in one *)
(* activation.                                                             *)
(***************************************************************************)
EXTENDS ProcessStubs, ObjSize, FiniteSetTheorems, SequenceTheorems,
        WellFoundedInduction, TLAPS

Sides == {"r", "w"}

(* While process_run is at work on q, the descriptors it has are ends of   *)
(* q's pipes, and of each pipe it has both or none.                        *)
RunInv ==
  \A q \in Procs : stub[q] = "run" =>
    /\ obj[q].state = "none"
    /\ \A f \in got : \E s \in Streams, d \in Sides : tab[f] = End(q, s, d)
    /\ \A s \in Streams : HeldByParent(End(q, s, "r")) <=> HeldByParent(End(q, s, "w"))

(* Before it, there is no pipe of q.                                       *)
FreshInv ==
  /\ \A q \in Procs : obj[q].state = "none" /\ stub[q] # "run" =>
       \A f \in Fds, s \in Streams, d \in Sides : tab[f] # End(q, s, d)
  /\ (\A q \in Procs : stub[q] # "run") => got = {}

(* A stub that waits is one of an open object.                             *)
WaitInv == \A q \in Procs : stub[q] \in Waits => obj[q].state = "open"

OwnInv == TypeOK /\ OwnFds /\ RunInv /\ FreshInv /\ WaitInv

-----------------------------------------------------------------------------
LEMMA EndsDiffer ==
  ASSUME NEW p \in Procs, NEW q \in Procs, NEW s \in Streams, NEW t \in Streams,
         NEW d \in Sides, NEW e \in Sides
  PROVE  /\ End(p, s, d) \in Ends
         /\ End(p, s, d) # Free
         /\ End(p, s, d) = End(q, t, e) <=> p = q /\ s = t /\ d = e
  <1>1. End(p, s, d) \in Ends
    BY DEF End, Ends, Pipes, Sides
  <1>2. End(p, s, d) # Free
    BY DEF End, Free
  <1>3. End(p, s, d) = End(q, t, e) <=> p = q /\ s = t /\ d = e
    BY DEF End
  <1> QED BY <1>1, <1>2, <1>3

LEMMA NoFdIsNone == NoFd \notin Fds
  BY ProcessAssumption DEF NoFd

LEMMA EndOfPipe ==
  ASSUME NEW q \in Procs, NEW s \in Streams, NEW d \in Sides
  PROVE  End(q, s, d)[1] = <<q, s>> /\ <<q, s>> \in Pipes
  BY DEF End, Pipes

LEMMA FdOfHeld ==
  ASSUME NEW end, HeldByParent(end)
  PROVE  FdOf(end) \in Fds /\ tab[FdOf(end)] = end
  BY DEF HeldByParent, FdOf

-----------------------------------------------------------------------------
(* Types.  The stubs that move data need OwnFds: the descriptor they use   *)
(* is that of a pipe.                                                      *)
TableOK == tab \in [Fds -> Ends \cup {Free}]
ObjectsOK ==
  obj \in [Procs -> [state : {"none", "open", "closed", "failed"},
                    oread : Fds \cup {NoFd}, eread : Fds \cup {NoFd},
                    iwrite : Fds \cup {NoFd}]]
StubsOK ==
  /\ stub \in [Procs -> Waits \cup {"idle", "run"}]
  /\ \A p, q \in Procs : stub[p] # "idle" /\ stub[q] # "idle" => p = q
ListsOK == got \subseteq Fds /\ lost \subseteq Fds
ChildrenOK ==
  /\ child \in [Procs -> {"none"} \cup Alive \cup Ended]
  /\ ctab \in [Procs -> SUBSET Ends]
  /\ std \in [Procs -> SUBSET Ends]
DataOK == data \in [Pipes -> 0 .. PipeRoom]

LEMMA TypeParts ==
  /\ TypeOK <=> TableOK /\ ObjectsOK /\ StubsOK /\ ListsOK /\ ChildrenOK /\ DataOK
  /\ TypeOK' <=> TableOK' /\ ObjectsOK' /\ StubsOK' /\ ListsOK' /\ ChildrenOK' /\ DataOK'
  BY DEF TypeOK, TableOK, ObjectsOK, StubsOK, ListsOK, ChildrenOK, DataOK

LEMMA TypeInit == Init => TypeOK
  <1> SUFFICES ASSUME Init PROVE TypeOK
    OBVIOUS
  <1>1. TableOK BY DEF Init, TableOK
  <1>2. ObjectsOK BY DEF Init, ObjectsOK, NoObject
  <1>3. StubsOK BY DEF Init, StubsOK
  <1>4. ListsOK BY DEF Init, ListsOK
  <1>5. ChildrenOK BY DEF Init, ChildrenOK
  <1>6. DataOK BY ProcessAssumption DEF Init, DataOK
  <1> QED BY <1>1, <1>2, <1>3, <1>4, <1>5, <1>6, TypeParts

LEMMA CloseAllTable ==
  ASSUME TableOK, NEW S, tab' = CloseAll(S)
  PROVE  TableOK'
  BY DEF TableOK, CloseAll

(* A stub is entered only from rest, and returns to it.                    *)
LEMMA EnterStub ==
  ASSUME StubsOK, NEW q \in Procs, NEW name \in Waits \cup {"run"}, Enter(q, name)
  PROVE  StubsOK'
  BY DEF StubsOK, Enter, ParentIdle

LEMMA ReturnStub ==
  ASSUME StubsOK, NEW q \in Procs, Return(q)
  PROVE  StubsOK'
  BY DEF StubsOK, Return

LEMMA MoreData ==
  ASSUME DataOK, NEW pipe \in Pipes,
         \/ data[pipe] < PipeRoom /\ data' = [data EXCEPT ![pipe] = @ + 1]
         \/ data[pipe] > 0 /\ data' = [data EXCEPT ![pipe] = @ - 1]
  PROVE  DataOK'
  <1>1. PipeRoom \in Nat /\ data[pipe] \in 0 .. PipeRoom
    BY ProcessAssumption DEF DataOK
  <1>2. data[pipe] < PipeRoom => data[pipe] + 1 \in 0 .. PipeRoom
    BY <1>1
  <1>3. data[pipe] > 0 => data[pipe] - 1 \in 0 .. PipeRoom
    BY <1>1
  <1> QED BY <1>2, <1>3 DEF DataOK

LEMMA SetupTypes ==
  ASSUME TypeOK, NEW q \in Procs, ChildSetup(q)
  PROVE  TypeOK'
  <1>1. ChildrenOK
    BY TypeParts
  <1>2. /\ End(q, "in", "r") \in Ends
        /\ End(q, "out", "w") \in Ends
        /\ End(q, "err", "w") \in Ends
    BY EndsDiffer DEF Streams, Sides
  <1>3. child' \in [Procs -> {"none"} \cup Alive \cup Ended]
    BY <1>1 DEF ChildSetup, ChildrenOK, Alive
  <1>4. ctab' \in [Procs -> SUBSET Ends]
    BY <1>1 DEF ChildSetup, ChildrenOK
  <1>5. std' \in [Procs -> SUBSET Ends]
    BY <1>1, <1>2 DEF ChildSetup, ChildrenOK
  <1>6. ChildrenOK'
    BY <1>3, <1>4, <1>5 DEF ChildrenOK
  <1>7. TableOK' /\ ObjectsOK' /\ StubsOK' /\ ListsOK' /\ DataOK'
    BY TypeParts DEF ChildSetup, parent, TableOK, ObjectsOK, StubsOK, ListsOK, DataOK
  <1> QED BY <1>6, <1>7, TypeParts

LEMMA EndTypes ==
  ASSUME ChildrenOK, NEW q \in Procs, NEW how \in Ended, Terminate(q, how)
  PROVE  ChildrenOK'
  BY DEF ChildrenOK, Terminate, Alive, Ended

LEMMA ChildTypes ==
  ASSUME TypeOK, NEW q \in Procs, Child(q)
  PROVE  TypeOK'
  <1>1. CASE ChildSetup(q)
    BY <1>1, SetupTypes
  <1>2. CASE ChildReads(q)
    <2>1. <<q, "in">> \in Pipes BY EndOfPipe DEF Streams, Sides
    <2>2. DataOK' BY <1>2, <2>1, MoreData, TypeParts DEF ChildReads
    <2>3. TableOK' /\ ObjectsOK' /\ StubsOK' /\ ListsOK' /\ ChildrenOK'
      BY <1>2, TypeParts
      DEF ChildReads, parent, children, TableOK, ObjectsOK, StubsOK, ListsOK, ChildrenOK
    <2> QED BY <2>2, <2>3, TypeParts
  <1>3. ASSUME NEW stream \in Used \ {"in"}, ChildWrites(q, stream) PROVE TypeOK'
    <2>1. <<q, stream>> \in Pipes BY ProcessAssumption DEF Pipes, Streams
    <2>2. DataOK' BY <1>3, <2>1, MoreData, TypeParts DEF ChildWrites
    <2>3. TableOK' /\ ObjectsOK' /\ StubsOK' /\ ListsOK' /\ ChildrenOK'
      BY <1>3, TypeParts
      DEF ChildWrites, parent, children, TableOK, ObjectsOK, StubsOK, ListsOK, ChildrenOK
    <2> QED BY <2>2, <2>3, TypeParts
  <1>4. ASSUME NEW end, ChildCloses(q, end) PROVE TypeOK'
    <2>1. ChildrenOK' BY <1>4, TypeParts DEF ChildCloses, ChildrenOK
    <2>2. TableOK' /\ ObjectsOK' /\ StubsOK' /\ ListsOK' /\ DataOK'
      BY <1>4, TypeParts DEF ChildCloses, parent, TableOK, ObjectsOK, StubsOK, ListsOK, DataOK
    <2> QED BY <2>1, <2>2, TypeParts
  <1>5. CASE ChildEnds(q)
    <2>1. ChildrenOK' BY <1>5, EndTypes, TypeParts DEF ChildEnds, Ended
    <2>2. TableOK' /\ ObjectsOK' /\ StubsOK' /\ ListsOK' /\ DataOK'
      BY <1>5, TypeParts DEF ChildEnds, parent, TableOK, ObjectsOK, StubsOK, ListsOK, DataOK
    <2> QED BY <2>1, <2>2, TypeParts
  <1> QED BY <1>1, <1>2, <1>3, <1>4, <1>5 DEF Child

(* What process_run does to the table and to the object it makes.          *)
LEMMA MakePipeTypes ==
  ASSUME TypeOK, NEW q \in Procs, MakePipe(q)
  PROVE  TypeOK'
  <1>1. PICK r \in Fds, w \in Fds :
          /\ tab' = [tab EXCEPT ![r] = End(q, NextStream(q), "r"), ![w] = End(q, NextStream(q), "w")]
          /\ got' = got \cup {r, w}
    BY DEF MakePipe
  <1>2. End(q, NextStream(q), "r") \in Ends /\ End(q, NextStream(q), "w") \in Ends
    BY EndsDiffer DEF NextStream, Streams, Sides
  <1>3. TableOK' BY <1>1, <1>2, TypeParts DEF TableOK
  <1>4. ListsOK' BY <1>1, TypeParts DEF ListsOK, MakePipe
  <1>5. ObjectsOK' /\ StubsOK' /\ ChildrenOK' /\ DataOK'
    BY TypeParts DEF MakePipe, children, ObjectsOK, StubsOK, ChildrenOK, DataOK
  <1> QED BY <1>3, <1>4, <1>5, TypeParts

LEMMA ForkEnds ==
  ASSUME NEW q \in Procs, RunInv, stub[q] = "run", AllPiped(q),
         NEW s \in Streams, NEW d \in Sides
  PROVE  /\ HeldByParent(End(q, s, d))
         /\ FdOf(End(q, s, d)) \in Fds
         /\ tab[FdOf(End(q, s, d))] = End(q, s, d)
  <1>1. HeldByParent(End(q, s, d))
    BY DEF RunInv, AllPiped, Piped, Sides
  <1> QED BY <1>1, FdOfHeld

LEMMA ForkTypes ==
  ASSUME TypeOK, RunInv, NEW q \in Procs, Fork(q)
  PROVE  TypeOK'
  <1>1. TableOK' BY CloseAllTable, TypeParts DEF Fork
  <1>2. /\ FdOf(End(q, "out", "r")) \in Fds
        /\ FdOf(End(q, "err", "r")) \in Fds
        /\ FdOf(End(q, "in", "w")) \in Fds
    BY ForkEnds DEF Fork, Streams, Sides
  <1>3. ObjectsOK' BY <1>2, TypeParts DEF Fork, ObjectsOK
  <1>4. StubsOK' BY ReturnStub, TypeParts DEF Fork
  <1>5. ListsOK' BY TypeParts DEF Fork, ListsOK
  <1>6. ChildrenOK' BY TypeParts DEF Fork, ChildrenOK, Alive
  <1>7. DataOK' BY TypeParts DEF Fork, DataOK
  <1> QED BY <1>1, <1>3, <1>4, <1>5, <1>6, <1>7, TypeParts

LEMMA RunTypes ==
  ASSUME TypeOK, RunInv, NEW q \in Procs,
         StartRun(q) \/ MakePipe(q) \/ PipeFails(q) \/ ForkFails(q) \/ Fork(q)
  PROVE  TypeOK'
  <1>1. CASE StartRun(q)
    <2>1. StubsOK' BY <1>1, EnterStub, TypeParts DEF StartRun
    <2>2. TableOK' /\ ObjectsOK' /\ ListsOK' /\ ChildrenOK' /\ DataOK'
      BY <1>1, TypeParts DEF StartRun, children, TableOK, ObjectsOK, ListsOK, ChildrenOK, DataOK
    <2> QED BY <2>1, <2>2, TypeParts
  <1>2. CASE PipeFails(q)
    <2>1. StubsOK' BY <1>2, ReturnStub, TypeParts DEF PipeFails
    <2>2. ListsOK' BY <1>2, TypeParts DEF PipeFails, ListsOK
    <2>3. ObjectsOK' BY <1>2, TypeParts DEF PipeFails, ObjectsOK
    <2>4. TableOK' /\ ChildrenOK' /\ DataOK'
      BY <1>2, TypeParts DEF PipeFails, children, TableOK, ChildrenOK, DataOK
    <2> QED BY <2>1, <2>2, <2>3, <2>4, TypeParts
  <1>3. CASE ForkFails(q)
    <2>1. StubsOK' BY <1>3, ReturnStub, TypeParts DEF ForkFails
    <2>2. ListsOK' BY <1>3, TypeParts DEF ForkFails, ListsOK
    <2>3. ObjectsOK' BY <1>3, TypeParts DEF ForkFails, ObjectsOK
    <2>4. TableOK' BY <1>3, CloseAllTable, TypeParts DEF ForkFails
    <2>5. ChildrenOK' /\ DataOK'
      BY <1>3, TypeParts DEF ForkFails, children, ChildrenOK, DataOK
    <2> QED BY <2>1, <2>2, <2>3, <2>4, <2>5, TypeParts
  <1> QED BY <1>1, <1>2, <1>3, MakePipeTypes, ForkTypes

LEMMA PipesOfObject ==
  ASSUME OwnFds, NEW q \in Procs, obj[q].state = "open"
  PROVE  /\ tab[ReadFd(q)][1] \in Pipes
         /\ obj[q].iwrite # NoFd => tab[obj[q].iwrite][1] \in Pipes
  <1>1. ReadFd(q) \in {obj[q].oread, obj[q].eread}
    BY DEF ReadFd
  <1>2. \E s \in Streams, d \in Sides : tab[ReadFd(q)] = End(q, s, d)
    BY <1>1 DEF OwnFds, Streams, Sides
  <1>3. obj[q].iwrite # NoFd => tab[obj[q].iwrite] = End(q, "in", "w")
    BY DEF OwnFds
  <1>4. tab[ReadFd(q)][1] \in Pipes
    BY <1>2, EndOfPipe
  <1>5. End(q, "in", "w")[1] \in Pipes
    BY EndOfPipe DEF Streams, Sides
  <1> QED BY <1>3, <1>4, <1>5

LEMMA WaitTypes ==
  ASSUME TypeOK, OwnFds, WaitInv, NEW q \in Procs,
         \/ \E name \in Waits : StartWait(q, name)
         \/ ReadReturns(q) \/ WriteReturns(q) \/ ExitReturns(q)
  PROVE  TypeOK'
  <1>1. ASSUME NEW name \in Waits, StartWait(q, name) PROVE TypeOK'
    <2>1. StubsOK' BY <1>1, EnterStub, TypeParts DEF StartWait
    <2>2. TableOK' /\ ObjectsOK' /\ ListsOK' /\ ChildrenOK' /\ DataOK'
      BY <1>1, TypeParts DEF StartWait, children, TableOK, ObjectsOK, ListsOK, ChildrenOK, DataOK
    <2> QED BY <2>1, <2>2, TypeParts
  <1>2. CASE ReadReturns(q)
    <2>1. StubsOK' BY <1>2, ReturnStub, TypeParts DEF ReadReturns
    <2>2. tab[ReadFd(q)][1] \in Pipes BY <1>2, PipesOfObject DEF ReadReturns, WaitInv, Waits
    <2>3. DataOK' BY <1>2, <2>2, MoreData, TypeParts DEF ReadReturns, DataOK
    <2>4. TableOK' /\ ObjectsOK' /\ ListsOK' /\ ChildrenOK'
      BY <1>2, TypeParts DEF ReadReturns, children, TableOK, ObjectsOK, ListsOK, ChildrenOK
    <2> QED BY <2>1, <2>3, <2>4, TypeParts
  <1>3. CASE WriteReturns(q)
    <2>1. StubsOK' BY <1>3, ReturnStub, TypeParts DEF WriteReturns
    <2>2. obj[q].iwrite # NoFd => tab[obj[q].iwrite][1] \in Pipes
      BY <1>3, PipesOfObject DEF WriteReturns, WaitInv, Waits
    <2>3. data' = data \/ DataOK' BY <1>3, <2>2, MoreData, TypeParts DEF WriteReturns
    <2>4. DataOK' BY <2>3, TypeParts DEF DataOK
    <2>5. TableOK' /\ ObjectsOK' /\ ListsOK' /\ ChildrenOK'
      BY <1>3, TypeParts DEF WriteReturns, children, TableOK, ObjectsOK, ListsOK, ChildrenOK
    <2> QED BY <2>1, <2>4, <2>5, TypeParts
  <1>4. CASE ExitReturns(q)
    <2>1. StubsOK' BY <1>4, ReturnStub, TypeParts DEF ExitReturns
    <2>2. ChildrenOK' BY <1>4, TypeParts DEF ExitReturns, ChildrenOK, Ended
    <2>3. TableOK' /\ ObjectsOK' /\ ListsOK' /\ DataOK'
      BY <1>4, TypeParts DEF ExitReturns, TableOK, ObjectsOK, ListsOK, DataOK
    <2> QED BY <2>1, <2>2, <2>3, TypeParts
  <1> QED BY <1>1, <1>2, <1>3, <1>4

LEMMA NamedFds ==
  ASSUME ObjectsOK, NEW q \in Procs
  PROVE  Named(q) \subseteq Fds
  BY DEF ObjectsOK, Named

LEMMA CallTypes ==
  ASSUME TypeOK, NEW q \in Procs, StdinClose(q) \/ Kill(q) \/ Close(q) \/ Collect(q)
  PROVE  TypeOK'
  <1>1. CASE StdinClose(q)
    <2>1. TableOK' BY <1>1, CloseAllTable, TypeParts DEF StdinClose
    <2>2. ObjectsOK' BY <1>1, TypeParts DEF StdinClose, ObjectsOK
    <2>3. StubsOK' /\ ListsOK' /\ ChildrenOK' /\ DataOK'
      BY <1>1, TypeParts DEF StdinClose, children, StubsOK, ListsOK, ChildrenOK, DataOK
    <2> QED BY <2>1, <2>2, <2>3, TypeParts
  <1>2. CASE Kill(q)
    <2>1. ChildrenOK' BY <1>2, EndTypes, TypeParts DEF Kill, Ended
    <2>2. TableOK' /\ ObjectsOK' /\ StubsOK' /\ ListsOK' /\ DataOK'
      BY <1>2, TypeParts DEF Kill, parent, TableOK, ObjectsOK, StubsOK, ListsOK, DataOK
    <2> QED BY <2>1, <2>2, TypeParts
  <1>3. CASE Close(q)
    <2>1. TableOK' BY <1>3, CloseAllTable, TypeParts DEF Close
    <2>2. ObjectsOK' BY <1>3, TypeParts DEF Close, ObjectsOK, NoObject
    <2>3. StubsOK' /\ ListsOK' /\ ChildrenOK' /\ DataOK'
      BY <1>3, TypeParts DEF Close, children, StubsOK, ListsOK, ChildrenOK, DataOK
    <2> QED BY <2>1, <2>2, <2>3, TypeParts
  <1>4. CASE Collect(q)
    <2>1. ListsOK' BY <1>4, NamedFds, TypeParts DEF Collect, ListsOK
    <2>2. ObjectsOK' BY <1>4, TypeParts DEF Collect, ObjectsOK, NoObject
    <2>3. TableOK' /\ StubsOK' /\ ChildrenOK' /\ DataOK'
      BY <1>4, TypeParts DEF Collect, children, TableOK, StubsOK, ChildrenOK, DataOK
    <2> QED BY <2>1, <2>2, <2>3, TypeParts
  <1> QED BY <1>1, <1>2, <1>3, <1>4

LEMMA TypeStep ==
  ASSUME OwnInv, [Next]_vars
  PROVE  TypeOK'
  <1>1. ASSUME NEW q \in Procs, Parent(q) PROVE TypeOK'
    BY <1>1, RunTypes, WaitTypes, CallTypes DEF Parent, OwnInv
  <1>2. ASSUME NEW q \in Procs, Child(q) PROVE TypeOK'
    BY <1>2, ChildTypes DEF OwnInv
  <1>3. CASE UNCHANGED vars
    BY <1>3, TypeParts
    DEF vars, parent, children, OwnInv, TableOK, ObjectsOK, StubsOK, ListsOK, ChildrenOK, DataOK
  <1> QED BY <1>1, <1>2, <1>3 DEF Next

-----------------------------------------------------------------------------
(* The descriptors.  The children leave the parent's table alone.          *)
ParentInv == OwnFds /\ RunInv /\ FreshInv /\ WaitInv

LEMMA TableStays ==
  ASSUME ParentInv, UNCHANGED <<tab, parent>>
  PROVE  ParentInv'
  <1>1. OwnFds' BY DEF ParentInv, OwnFds, parent
  <1>2. RunInv' BY DEF ParentInv, RunInv, HeldByParent, parent
  <1>3. FreshInv' BY DEF ParentInv, FreshInv, parent
  <1>4. WaitInv' BY DEF ParentInv, WaitInv, parent
  <1> QED BY <1>1, <1>2, <1>3, <1>4 DEF ParentInv

LEMMA NotRunning == "run" \notin Waits /\ "idle" \notin Waits /\ "idle" # "run"
  BY DEF Waits

(* A stub that waits, entered or left.                                     *)
LEMMA WaitStays ==
  ASSUME StubsOK, ParentInv, NEW q \in Procs, UNCHANGED <<tab, obj, got>>,
         \/ \E name \in Waits : Enter(q, name) /\ obj[q].state = "open"
         \/ stub[q] \in Waits /\ Return(q)
  PROVE  ParentInv'
  <1>1. \A p \in Procs : stub'[p] = "run" <=> stub[p] = "run"
    BY NotRunning DEF StubsOK, Enter, Return, ParentIdle
  <1>2. OwnFds' BY DEF ParentInv, OwnFds
  <1>3. RunInv' BY <1>1 DEF ParentInv, RunInv, HeldByParent
  <1>4. FreshInv' BY <1>1 DEF ParentInv, FreshInv
  <1>5. WaitInv' BY NotRunning DEF ParentInv, WaitInv, StubsOK, Enter, Return
  <1> QED BY <1>2, <1>3, <1>4, <1>5 DEF ParentInv

(* The parent at rest closes descriptors and changes an open object.       *)
LEMMA OpenChanges ==
  ASSUME StubsOK, ObjectsOK, ParentInv, NEW q \in Procs, ParentIdle, obj[q].state = "open",
         NEW S, tab' = CloseAll(S) \/ tab' = tab, TableOK,
         NEW new, obj' = [obj EXCEPT ![q] = new], new.state # "none",
         OwnFds', UNCHANGED <<stub, got>>
  PROVE  ParentInv'
  <1>1. \A p \in Procs : stub[p] = "idle" BY DEF ParentIdle
  <1>2. RunInv' BY <1>1, NotRunning DEF RunInv
  <1>3. WaitInv' BY <1>1, NotRunning DEF WaitInv
  <1>4. \A f \in Fds : tab'[f] = tab[f] \/ tab'[f] = Free BY DEF CloseAll
  <1>5. FreshInv'
    <2>1. got' = {} BY <1>1, NotRunning DEF ParentInv, FreshInv
    <2>2. ASSUME NEW p \in Procs, obj'[p].state = "none",
                 NEW f \in Fds, NEW s \in Streams, NEW d \in Sides
          PROVE  tab'[f] # End(p, s, d)
      <3>1. obj[p].state = "none" BY <2>2 DEF ObjectsOK
      <3>2. tab[f] # End(p, s, d) BY <3>1, <1>1, NotRunning DEF ParentInv, FreshInv
      <3> QED BY <3>2, <1>4, EndsDiffer
    <2> QED BY <2>1, <2>2 DEF FreshInv
  <1> QED BY <1>2, <1>3, <1>5 DEF ParentInv

(* Closing descriptors of q leaves those of the other objects.             *)
LEMMA OthersKeep ==
  ASSUME OwnFds, TableOK, NEW q \in Procs,
         NEW S, tab' = CloseAll(S),
         \A f \in S \cap Fds : \E s \in Streams, d \in Sides : tab[f] = End(q, s, d),
         NEW p \in Procs, p # q, obj'[p] = obj[p], obj[p].state = "open"
  PROVE  /\ obj'[p].oread \in Fds /\ tab'[obj'[p].oread] = End(p, "out", "r")
         /\ obj'[p].eread \in Fds /\ tab'[obj'[p].eread] = End(p, "err", "r")
         /\ obj'[p].iwrite # NoFd =>
              obj'[p].iwrite \in Fds /\ tab'[obj'[p].iwrite] = End(p, "in", "w")
  <1>1. ASSUME NEW f \in Fds, NEW s \in Streams, NEW d \in Sides, tab[f] = End(p, s, d)
        PROVE  tab'[f] = End(p, s, d)
    <2>1. f \notin S BY <1>1, EndsDiffer
    <2> QED BY <1>1, <2>1 DEF CloseAll
  <1>2. "out" \in Streams /\ "err" \in Streams /\ "in" \in Streams /\ "r" \in Sides /\ "w" \in Sides
    BY DEF Streams, Sides
  <1>3. obj[p].oread \in Fds /\ tab'[obj[p].oread] = End(p, "out", "r") BY <1>1, <1>2 DEF OwnFds
  <1>4. obj[p].eread \in Fds /\ tab'[obj[p].eread] = End(p, "err", "r") BY <1>1, <1>2 DEF OwnFds
  <1>5. obj[p].iwrite # NoFd => obj[p].iwrite \in Fds /\ tab'[obj[p].iwrite] = End(p, "in", "w")
    BY <1>1, <1>2 DEF OwnFds
  <1> QED BY <1>3, <1>4, <1>5

LEMMA CloseOwn ==
  ASSUME OwnInv, NEW q \in Procs, StdinClose(q) \/ Close(q) \/ Collect(q)
  PROVE  ParentInv'
  <1> USE DEF OwnInv
  <1>1. CASE StdinClose(q)
    <2>1. tab[obj[q].iwrite] = End(q, "in", "w") /\ "in" \in Streams /\ "w" \in Sides
      BY <1>1 DEF StdinClose, OwnFds, Streams, Sides
    <2>2. OwnFds'
      <3>1. ASSUME NEW p \in Procs, p # q, obj'[p].state = "open"
            PROVE  /\ obj'[p].oread \in Fds /\ tab'[obj'[p].oread] = End(p, "out", "r")
                   /\ obj'[p].eread \in Fds /\ tab'[obj'[p].eread] = End(p, "err", "r")
                   /\ obj'[p].iwrite # NoFd =>
                        obj'[p].iwrite \in Fds /\ tab'[obj'[p].iwrite] = End(p, "in", "w")
        <4>1. obj'[p] = obj[p] BY <1>1, <3>1, TypeParts DEF StdinClose, ObjectsOK
        <4> QED BY <1>1, <2>1, <3>1, <4>1, OthersKeep, TypeParts DEF StdinClose
      <3>2. /\ obj'[q].oread = obj[q].oread /\ obj'[q].eread = obj[q].eread
            /\ obj'[q].iwrite = NoFd
        BY <1>1, TypeParts DEF StdinClose, ObjectsOK
      <3>3. ASSUME NEW f \in Fds, NEW s \in Streams, tab[f] = End(q, s, "r")
            PROVE  tab'[f] = End(q, s, "r")
        <4>1. f # obj[q].iwrite BY <2>1, <3>3, EndsDiffer DEF Sides
        <4> QED BY <1>1, <3>3, <4>1 DEF StdinClose, CloseAll
      <3>4. /\ obj[q].oread \in Fds /\ tab'[obj[q].oread] = End(q, "out", "r")
            /\ obj[q].eread \in Fds /\ tab'[obj[q].eread] = End(q, "err", "r")
        BY <1>1, <3>3 DEF StdinClose, OwnFds, Streams
      <3> QED BY <3>1, <3>2, <3>4 DEF OwnFds
    <2>3. obj' = [obj EXCEPT ![q] = [obj[q] EXCEPT !.iwrite = NoFd]]
      BY <1>1 DEF StdinClose
    <2>4. [obj[q] EXCEPT !.iwrite = NoFd].state # "none"
      BY <1>1, TypeParts DEF StdinClose, ObjectsOK
    <2> QED BY <1>1, <2>2, <2>3, <2>4, OpenChanges, TypeParts DEF StdinClose, ParentInv
  <1> DEFINE closed == [NoObject EXCEPT !.state = "closed"]
  <1>2. closed.state = "closed"
    BY DEF NoObject
  <1>3. CASE Close(q)
    <2>1. \A f \in Named(q) \cap Fds : \E s \in Streams, d \in Sides : tab[f] = End(q, s, d)
      BY <1>3 DEF Close, OwnFds, Named, Streams, Sides
    <2>2. ASSUME NEW p \in Procs, obj'[p].state = "open" PROVE p # q /\ obj'[p] = obj[p]
      BY <1>3, <1>2, <2>2, TypeParts DEF Close, ObjectsOK
    <2>3. OwnFds' BY <1>3, <2>1, <2>2, OthersKeep, TypeParts DEF Close, OwnFds
    <2> QED BY <1>3, <1>2, <2>3, OpenChanges, TypeParts DEF Close, ParentInv
  <1>4. CASE Collect(q)
    <2>1. ASSUME NEW p \in Procs, obj'[p].state = "open" PROVE p # q /\ obj'[p] = obj[p]
      BY <1>4, <1>2, <2>1, TypeParts DEF Collect, ObjectsOK
    <2>2. OwnFds' BY <1>4, <2>1 DEF Collect, OwnFds
    <2> QED BY <1>4, <1>2, <2>2, OpenChanges, TypeParts DEF Collect, ParentInv
  <1> QED BY <1>1, <1>3, <1>4

LEMMA StartOwn ==
  ASSUME OwnInv, NEW q \in Procs, StartRun(q)
  PROVE  ParentInv'
  <1> USE DEF OwnInv
  <1>1. \A p \in Procs : stub[p] = "idle" BY DEF StartRun, Enter, ParentIdle
  <1>2. \A p \in Procs : stub'[p] = IF p = q THEN "run" ELSE "idle"
    BY <1>1, TypeParts DEF StartRun, Enter, StubsOK
  <1>3. OwnFds' BY DEF StartRun, OwnFds
  <1>4. got' = {} BY <1>1, NotRunning DEF StartRun, FreshInv
  <1>5. \A s \in Streams, d \in Sides : ~HeldByParent(End(q, s, d))
    BY <1>1, NotRunning DEF StartRun, FreshInv, HeldByParent
  <1>6. RunInv' BY <1>2, <1>4, <1>5, NotRunning DEF StartRun, RunInv, HeldByParent, Sides
  <1>7. FreshInv' BY <1>1, <1>2, <1>4, NotRunning DEF StartRun, FreshInv
  <1>8. WaitInv' BY <1>2, NotRunning DEF WaitInv
  <1> QED BY <1>3, <1>6, <1>7, <1>8 DEF ParentInv

LEMMA PipeOwn ==
  ASSUME OwnInv, NEW q \in Procs, MakePipe(q)
  PROVE  ParentInv'
  <1> USE DEF OwnInv
  <1>1. PICK next \in Streams, r \in Fds, w \in Fds :
          /\ r \in FreeFds /\ w \in FreeFds /\ r # w
          /\ tab' = [tab EXCEPT ![r] = End(q, next, "r"), ![w] = End(q, next, "w")]
          /\ got' = got \cup {r, w}
    BY DEF MakePipe, Lowest, NextStream, Streams
  <1>2. UNCHANGED <<obj, stub>> /\ stub[q] = "run" BY DEF MakePipe
  <1>3. \A f \in Fds : tab'[f] = IF f = r THEN End(q, next, "r")
                                 ELSE IF f = w THEN End(q, next, "w") ELSE tab[f]
    BY <1>1, TypeParts DEF TableOK
  <1>4. tab[r] = Free /\ tab[w] = Free BY <1>1 DEF FreeFds
  <1>5. ASSUME NEW f \in Fds, NEW p \in Procs, NEW s \in Streams, NEW d \in Sides,
               tab[f] = End(p, s, d)
        PROVE  tab'[f] = End(p, s, d)
    BY <1>3, <1>4, <1>5, EndsDiffer
  <1>6. OwnFds'
    <2>1. "out" \in Streams /\ "err" \in Streams /\ "in" \in Streams /\ "r" \in Sides /\ "w" \in Sides
      BY DEF Streams, Sides
    <2> QED BY <1>2, <1>5, <2>1 DEF OwnFds
  <1>7. \A p \in Procs : stub'[p] = "run" => p = q
    BY <1>2, NotRunning, TypeParts DEF StubsOK
  <1>8. \A f \in got' : \E s \in Streams, d \in Sides : tab'[f] = End(q, s, d)
    <2>1. ASSUME NEW f \in got PROVE \E s \in Streams, d \in Sides : tab'[f] = End(q, s, d)
      <3>1. f \in Fds BY TypeParts DEF ListsOK
      <3>2. PICK s \in Streams, d \in Sides : tab[f] = End(q, s, d) BY <1>2 DEF RunInv
      <3> QED BY <1>5, <3>1, <3>2
    <2>2. "r" \in Sides /\ "w" \in Sides BY DEF Sides
    <2> QED BY <1>1, <1>3, <2>1, <2>2
  <1>9. \A s \in Streams : HeldByParent(End(q, s, "r"))' <=> HeldByParent(End(q, s, "w"))'
    <2>1. ASSUME NEW s \in Streams, s # next, NEW d \in Sides
          PROVE  HeldByParent(End(q, s, d))' <=> HeldByParent(End(q, s, d))
      <3>1. \A f \in Fds : tab'[f] = End(q, s, d) <=> tab[f] = End(q, s, d)
        BY <1>3, <1>4, <2>1, EndsDiffer DEF Sides
      <3> QED BY <3>1 DEF HeldByParent
    <2>2. HeldByParent(End(q, next, "r"))' /\ HeldByParent(End(q, next, "w"))'
      BY <1>1, <1>3 DEF HeldByParent
    <2>3. \A s \in Streams : HeldByParent(End(q, s, "r")) <=> HeldByParent(End(q, s, "w"))
      BY <1>2 DEF RunInv
    <2> QED BY <2>1, <2>2, <2>3 DEF Sides
  <1>10. RunInv'
    BY <1>2, <1>7, <1>8, <1>9 DEF RunInv
  <1>11. FreshInv'
    <2>1. ASSUME NEW p \in Procs, obj[p].state = "none", stub[p] # "run",
                 NEW f \in Fds, NEW s \in Streams, NEW d \in Sides
          PROVE  tab'[f] # End(p, s, d)
      <3>1. p # q BY <1>2, <2>1
      <3>2. tab[f] # End(p, s, d) BY <2>1 DEF FreshInv
      <3> QED BY <1>3, <3>1, <3>2, EndsDiffer DEF Sides
    <2> QED BY <1>2, <2>1 DEF FreshInv
  <1>12. WaitInv' BY <1>2 DEF WaitInv
  <1> QED BY <1>6, <1>10, <1>11, <1>12 DEF ParentInv

(* process_run ends: nothing runs, nothing is left in its locals, and q    *)
(* has an object or has failed.                                            *)
LEMMA RunEnds ==
  ASSUME OwnInv, NEW q \in Procs, stub[q] = "run", Return(q), got' = {},
         NEW new, obj' = [obj EXCEPT ![q] = new], new.state # "none",
         \A f \in Fds : tab'[f] = tab[f] \/ tab'[f] = Free
  PROVE  RunInv' /\ FreshInv' /\ WaitInv'
  <1> USE DEF OwnInv
  <1>1. \A p \in Procs : stub[p] # "idle" => p = q
    BY NotRunning, TypeParts DEF StubsOK
  <1>2. \A p \in Procs : stub'[p] = "idle" /\ (p # q => stub[p] = "idle")
    BY <1>1, TypeParts DEF StubsOK, Return
  <1>3. FreshInv'
    <2>1. ASSUME NEW p \in Procs, obj'[p].state = "none",
                 NEW f \in Fds, NEW s \in Streams, NEW d \in Sides
          PROVE  tab'[f] # End(p, s, d)
      <3>1. p # q /\ obj[p].state = "none" BY <2>1, TypeParts DEF ObjectsOK
      <3>2. tab[f] # End(p, s, d) BY <3>1, <1>2, NotRunning DEF FreshInv
      <3> QED BY <3>2, EndsDiffer
    <2> QED BY <2>1 DEF FreshInv
  <1>4. RunInv' BY <1>2, NotRunning DEF RunInv
  <1>5. WaitInv' BY <1>2, NotRunning DEF WaitInv
  <1> QED BY <1>3, <1>4, <1>5

LEMMA FailOwn ==
  ASSUME OwnInv, NEW q \in Procs, PipeFails(q) \/ ForkFails(q)
  PROVE  ParentInv'
  <1> USE DEF OwnInv
  <1> DEFINE new == [obj[q] EXCEPT !.state = "failed"]
  <1>1. obj' = [obj EXCEPT ![q] = new] /\ got' = {} /\ Return(q) /\ stub[q] = "run"
    BY DEF PipeFails, ForkFails
  <1>2. new.state = "failed" BY TypeParts DEF ObjectsOK
  <1>3. tab' = tab \/ tab' = CloseAll(got) BY DEF PipeFails, ForkFails
  <1>4. TableOK /\ \A f \in Fds : tab'[f] = tab[f] \/ tab'[f] = Free
    BY <1>3, TypeParts DEF CloseAll
  <1> HIDE DEF new
  <1>5. ASSUME NEW p \in Procs, obj'[p].state = "open" PROVE p # q /\ obj'[p] = obj[p]
    BY <1>1, <1>2, <1>5, TypeParts DEF ObjectsOK
  <1>6. \A f \in got \cap Fds : \E s \in Streams, d \in Sides : tab[f] = End(q, s, d)
    BY <1>1 DEF RunInv
  <1>7. CASE tab' = tab
    <2>1. OwnFds' BY <1>5, <1>7 DEF OwnFds
    <2> QED BY <1>1, <1>2, <1>4, <2>1, RunEnds DEF ParentInv
  <1>8. CASE tab' = CloseAll(got)
    <2>1. OwnFds' BY <1>4, <1>5, <1>6, <1>8, OthersKeep DEF OwnFds
    <2> QED BY <1>1, <1>2, <1>4, <2>1, RunEnds DEF ParentInv
  <1> QED BY <1>3, <1>7, <1>8

(* The ends the parent closes after the fork, and those it keeps.          *)
Given(q) == {FdOf(End(q, "in", "r")), FdOf(End(q, "out", "w")), FdOf(End(q, "err", "w"))}

LEMMA ForkOwn ==
  ASSUME OwnInv, NEW q \in Procs, Fork(q)
  PROVE  ParentInv'
  <1> USE DEF OwnInv
  <1> DEFINE new == [state |-> "open", oread |-> FdOf(End(q, "out", "r")),
                     eread |-> FdOf(End(q, "err", "r")), iwrite |-> FdOf(End(q, "in", "w"))]
  <1>1. obj' = [obj EXCEPT ![q] = new] /\ got' = {} /\ Return(q) /\ stub[q] = "run" /\ AllPiped(q)
    BY DEF Fork
  <1>2. tab' = CloseAll(Given(q)) BY DEF Fork, Given
  <1>3. \A s \in Streams, d \in Sides :
          FdOf(End(q, s, d)) \in Fds /\ tab[FdOf(End(q, s, d))] = End(q, s, d)
    BY <1>1, ForkEnds
  <1>4. "out" \in Streams /\ "err" \in Streams /\ "in" \in Streams /\ "r" \in Sides /\ "w" \in Sides
    BY DEF Streams, Sides
  <1>5. \A f \in Given(q) \cap Fds : \E s \in Streams, d \in Sides : tab[f] = End(q, s, d)
    BY <1>3, <1>4 DEF Given
  <1>6. ASSUME NEW s \in Streams, NEW d \in Sides,
               <<s, d>> \in {<<"out", "r">>, <<"err", "r">>, <<"in", "w">>}
        PROVE  tab'[FdOf(End(q, s, d))] = End(q, s, d)
    <2>1. FdOf(End(q, s, d)) \notin Given(q)
      <3>1. /\ End(q, s, d) # End(q, "in", "r")
            /\ End(q, s, d) # End(q, "out", "w")
            /\ End(q, s, d) # End(q, "err", "w")
        BY <1>4, <1>6, EndsDiffer
      <3> QED BY <1>3, <1>4, <3>1 DEF Given
    <2> QED BY <1>2, <1>3, <2>1 DEF CloseAll
  <1>7. new.state = "open" /\ new.oread = FdOf(End(q, "out", "r"))
        /\ new.eread = FdOf(End(q, "err", "r")) /\ new.iwrite = FdOf(End(q, "in", "w"))
    OBVIOUS
  <1> HIDE DEF new
  <1>8. obj'[q] = new /\ \A p \in Procs : p # q => obj'[p] = obj[p]
    BY <1>1, TypeParts DEF ObjectsOK
  <1>9. OwnFds'
    <2>1. /\ obj'[q].oread \in Fds /\ tab'[obj'[q].oread] = End(q, "out", "r")
          /\ obj'[q].eread \in Fds /\ tab'[obj'[q].eread] = End(q, "err", "r")
          /\ obj'[q].iwrite \in Fds /\ tab'[obj'[q].iwrite] = End(q, "in", "w")
      BY <1>3, <1>4, <1>6, <1>7, <1>8
    <2>2. TableOK BY TypeParts
    <2>3. ASSUME NEW p \in Procs, p # q, obj'[p].state = "open"
          PROVE  /\ obj'[p].oread \in Fds /\ tab'[obj'[p].oread] = End(p, "out", "r")
                 /\ obj'[p].eread \in Fds /\ tab'[obj'[p].eread] = End(p, "err", "r")
                 /\ obj'[p].iwrite # NoFd =>
                      obj'[p].iwrite \in Fds /\ tab'[obj'[p].iwrite] = End(p, "in", "w")
      BY <1>2, <1>5, <1>8, <2>2, <2>3, OthersKeep
    <2> QED BY <2>1, <2>3 DEF OwnFds
  <1>10. \A f \in Fds : tab'[f] = tab[f] \/ tab'[f] = Free
    BY <1>2 DEF CloseAll
  <1>11. RunInv' /\ FreshInv' /\ WaitInv'
    BY <1>1, <1>7, <1>10, RunEnds
  <1> QED BY <1>9, <1>11 DEF ParentInv

LEMMA OwnInit == Init => OwnInv
  <1> SUFFICES ASSUME Init PROVE OwnInv
    OBVIOUS
  <1>1. OwnFds BY DEF Init, OwnFds, NoObject
  <1>2. RunInv BY DEF Init, RunInv
  <1>3. FreshInv BY EndsDiffer DEF Init, FreshInv
  <1>4. WaitInv BY DEF Init, WaitInv, Waits
  <1> QED BY <1>1, <1>2, <1>3, <1>4, TypeInit DEF OwnInv

LEMMA OwnStep == OwnInv /\ [Next]_vars => OwnInv'
  <1> SUFFICES ASSUME OwnInv, [Next]_vars PROVE ParentInv'
    BY TypeStep DEF OwnInv, ParentInv
  <1>1. ParentInv /\ StubsOK BY TypeParts DEF OwnInv, ParentInv
  <1>2. ASSUME NEW q \in Procs, Child(q) \/ Kill(q) PROVE ParentInv'
    <2>1. UNCHANGED <<tab, parent>>
      BY <1>2 DEF Child, ChildSetup, ChildReads, ChildEnds, ChildWrites, ChildCloses, Kill
    <2> QED BY <1>1, <2>1, TableStays
  <1>3. ASSUME NEW q \in Procs,
               \/ \E name \in Waits : StartWait(q, name)
               \/ ReadReturns(q) \/ WriteReturns(q) \/ ExitReturns(q)
        PROVE  ParentInv'
    <2>1. UNCHANGED <<tab, obj, got>>
      BY <1>3 DEF StartWait, ReadReturns, WriteReturns, ExitReturns
    <2>2. \/ \E name \in Waits : Enter(q, name) /\ obj[q].state = "open"
          \/ stub[q] \in Waits /\ Return(q)
      BY <1>3 DEF StartWait, ReadReturns, WriteReturns, ExitReturns, Waits
    <2> QED BY <1>1, <2>1, <2>2, WaitStays
  <1>4. CASE UNCHANGED vars
    BY <1>1, <1>4, TableStays DEF vars
  <1> QED BY <1>2, <1>3, <1>4, StartOwn, PipeOwn, FailOwn, ForkOwn, CloseOwn DEF Next, Parent

(* The descriptors of a process object are its own pipes' in every state   *)
(* of every execution (process_run, process_stdin_close, free_process).    *)
THEOREM OwnDescriptors == Spec => [](TypeOK /\ OwnFds)
  <1>1. OwnInv => TypeOK /\ OwnFds BY DEF OwnInv
  <1> QED BY <1>1, OwnInit, OwnStep, PTL DEF Spec

-----------------------------------------------------------------------------
(* Nothing is forgotten: no end has two descriptors, and only an open      *)
(* object names any.                                                       *)
Unique == \A f, g \in Fds : tab[f] = tab[g] /\ tab[f] # Free => f = g
NamedByOpen == \A q \in Procs : obj[q].state # "open" => Named(q) = {}

AccountInv == FdsAccounted /\ Unique /\ NamedByOpen

LEMMA UniqueStep ==
  ASSUME OwnInv, Unique, [Next]_vars
  PROVE  Unique'
  <1>1. ASSUME NEW q \in Procs, MakePipe(q) PROVE Unique'
    <2>1. PICK next \in Streams, r \in Fds, w \in Fds :
            /\ r # w
            /\ tab' = [tab EXCEPT ![r] = End(q, next, "r"), ![w] = End(q, next, "w")]
            /\ ~HeldByParent(End(q, next, "r"))
      BY <1>1 DEF MakePipe, Lowest, NextStream, Streams, AllPiped, Piped
    <2>2. ~HeldByParent(End(q, next, "w"))
      BY <1>1, <2>1 DEF MakePipe, OwnInv, RunInv
    <2>3. \A f \in Fds : tab'[f] = IF f = r THEN End(q, next, "r")
                                   ELSE IF f = w THEN End(q, next, "w") ELSE tab[f]
      BY <2>1, TypeParts DEF OwnInv, TableOK
    <2>4. \A f \in Fds : tab[f] # End(q, next, "r") /\ tab[f] # End(q, next, "w")
      BY <2>1, <2>2 DEF HeldByParent
    <2>5. End(q, next, "r") # End(q, next, "w")
      BY EndsDiffer DEF Sides
    <2> QED BY <2>1, <2>3, <2>4, <2>5 DEF Unique
  <1>2. ASSUME \A f \in Fds : tab'[f] = tab[f] \/ tab'[f] = Free PROVE Unique'
    BY <1>2 DEF Unique
  <1>3. ASSUME NEW q \in Procs, Parent(q), ~MakePipe(q) PROVE Unique'
    <2>1. tab' = tab \/ \E S : tab' = CloseAll(S)
      BY <1>3 DEF Parent, StartRun, PipeFails, ForkFails, Fork, StartWait, ReadReturns,
                  WriteReturns, ExitReturns, StdinClose, Kill, Close, Collect, parent
    <2> QED BY <2>1, <1>2 DEF CloseAll
  <1>4. ASSUME NEW q \in Procs, Child(q) PROVE Unique'
    <2>1. tab' = tab
      BY <1>4 DEF Child, ChildSetup, ChildReads, ChildEnds, ChildWrites, ChildCloses
    <2> QED BY <2>1, <1>2
  <1>5. CASE UNCHANGED vars
    BY <1>5, <1>2 DEF vars
  <1> QED BY <1>1, <1>3, <1>4, <1>5 DEF Next

(* While q's object changes, the others name what they named.              *)
LEMMA OthersNamed ==
  ASSUME NEW p \in Procs, obj'[p] = obj[p]
  PROVE  Named(p)' = Named(p)
  BY DEF Named

(* To account for the descriptors after a step, say where one goes that    *)
(* the object q, or process_run, had before it.                            *)
LEMMA Accounting ==
  ASSUME FdsAccounted, NEW q \in Procs,
         \A p \in Procs : p # q => obj'[p] = obj[p],
         \A f \in Fds : tab'[f] = tab[f] \/ tab'[f] = Free,
         lost \subseteq lost',
         \A f \in Fds : tab'[f] # Free /\ f \in got \cup Named(q) =>
           f \in lost' \cup got' \cup Named(q)'
  PROVE  FdsAccounted'
  <1> SUFFICES ASSUME NEW f \in Fds, tab'[f] # Free
               PROVE  f \in lost' \cup got' \/ \E p \in Procs : f \in Named(p)'
    BY DEF FdsAccounted
  <1>1. f \in lost \cup got \/ \E p \in Procs : f \in Named(p)
    BY DEF FdsAccounted
  <1>2. ASSUME NEW p \in Procs, p # q, f \in Named(p) PROVE f \in Named(p)'
    BY <1>2, OthersNamed
  <1> QED BY <1>1, <1>2

LEMMA RunAccounts ==
  ASSUME OwnInv, AccountInv, NEW q \in Procs, PipeFails(q) \/ ForkFails(q) \/ Fork(q)
  PROVE  FdsAccounted' /\ NamedByOpen'
  <1> USE DEF OwnInv, AccountInv
  <1>1. obj[q].state = "none" /\ stub[q] = "run" /\ Named(q) = {}
    BY DEF PipeFails, ForkFails, Fork, RunInv, NamedByOpen
  <1>2. \A p \in Procs : p # q => obj'[p] = obj[p]
    BY TypeParts DEF PipeFails, ForkFails, Fork, ObjectsOK
  <1>3. \A f \in Fds : tab'[f] = tab[f] \/ tab'[f] = Free
    BY DEF PipeFails, ForkFails, Fork, CloseAll
  <1>4. CASE PipeFails(q)
    <2>1. Named(q)' = Named(q) BY <1>4, TypeParts DEF PipeFails, Named, ObjectsOK
    <2>2. FdsAccounted' BY <1>1, <1>2, <1>3, <1>4, Accounting DEF PipeFails
    <2> QED BY <1>1, <1>2, <2>1, <2>2, OthersNamed DEF NamedByOpen
  <1>5. CASE ForkFails(q)
    <2>1. Named(q)' = Named(q) BY <1>5, TypeParts DEF ForkFails, Named, ObjectsOK
    <2>2. \A f \in Fds \cap got : tab'[f] = Free BY <1>5 DEF ForkFails, CloseAll
    <2>3. FdsAccounted' BY <1>1, <1>2, <1>3, <1>5, <2>2, Accounting DEF ForkFails
    <2> QED BY <1>1, <1>2, <2>1, <2>3, OthersNamed DEF NamedByOpen
  <1>6. CASE Fork(q)
    <2>1. tab' = CloseAll(Given(q)) /\ lost' = lost /\ AllPiped(q)
      BY <1>6 DEF Fork, Given
    <2>2. \A s \in Streams, d \in Sides :
            FdOf(End(q, s, d)) \in Fds /\ tab[FdOf(End(q, s, d))] = End(q, s, d)
      BY <1>1, <2>1, ForkEnds
    <2>3. /\ obj'[q].state = "open" /\ obj'[q].oread = FdOf(End(q, "out", "r"))
          /\ obj'[q].eread = FdOf(End(q, "err", "r"))
          /\ obj'[q].iwrite = FdOf(End(q, "in", "w"))
      BY <1>6, TypeParts DEF Fork, ObjectsOK
    <2>4. ASSUME NEW f \in Fds, tab'[f] # Free, f \in got PROVE f \in Named(q)'
      <3>1. tab[f] # Free /\ f \notin Given(q) BY <2>1, <2>4 DEF CloseAll
      <3>2. PICK s \in Streams, d \in Sides : tab[f] = End(q, s, d)
        BY <1>1, <2>4 DEF RunInv
      <3>3. f = FdOf(End(q, s, d)) BY <2>2, <3>1, <3>2 DEF Unique
      <3>4. f \in {FdOf(End(q, "out", "r")), FdOf(End(q, "err", "r")), FdOf(End(q, "in", "w"))}
        BY <3>1, <3>3 DEF Given, Streams, Sides
      <3>5. f # NoFd BY NoFdIsNone
      <3> QED BY <2>3, <3>4, <3>5 DEF Named
    <2>5. FdsAccounted' BY <1>1, <1>2, <1>3, <2>1, <2>4, Accounting
    <2> QED BY <1>2, <2>3, <2>5, OthersNamed DEF NamedByOpen
  <1> QED BY <1>4, <1>5, <1>6

LEMMA CloseAccounts ==
  ASSUME OwnInv, AccountInv, NEW q \in Procs, StdinClose(q) \/ Close(q) \/ Collect(q)
  PROVE  FdsAccounted' /\ NamedByOpen'
  <1> USE DEF OwnInv, AccountInv
  <1>1. \A p \in Procs : p # q => obj'[p] = obj[p]
    BY TypeParts DEF StdinClose, Close, Collect, ObjectsOK
  <1>2. \A f \in Fds : tab'[f] = tab[f] \/ tab'[f] = Free
    BY DEF StdinClose, Close, Collect, CloseAll
  <1>3. CASE StdinClose(q)
    <2>1. /\ obj'[q].oread = obj[q].oread /\ obj'[q].eread = obj[q].eread
          /\ obj'[q].state = "open" /\ obj'[q].iwrite = NoFd
      BY <1>3, TypeParts DEF StdinClose, ObjectsOK
    <2>2. \A f \in Fds : tab'[f] # Free => f # obj[q].iwrite
      BY <1>3 DEF StdinClose, CloseAll
    <2>3. \A f \in Fds : tab'[f] # Free /\ f \in Named(q) => f \in Named(q)'
      BY <2>1, <2>2 DEF Named
    <2>4. FdsAccounted' BY <1>1, <1>2, <1>3, <2>3, Accounting DEF StdinClose
    <2> QED BY <1>1, <2>1, <2>4, OthersNamed DEF NamedByOpen
  <1> DEFINE closed == [NoObject EXCEPT !.state = "closed"]
  <1>4. /\ closed.state = "closed" /\ closed.oread = NoFd
        /\ closed.eread = NoFd /\ closed.iwrite = NoFd
    BY DEF NoObject
  <1>5. CASE Close(q)
    <2>1. obj'[q] = closed BY <1>5, TypeParts DEF Close, ObjectsOK
    <2>2. Named(q)' = {} BY <1>4, <2>1 DEF Named
    <2>3. \A f \in Fds : f \in Named(q) => tab'[f] = Free BY <1>5 DEF Close, CloseAll
    <2>4. FdsAccounted' BY <1>1, <1>2, <1>5, <2>3, Accounting DEF Close
    <2> QED BY <1>1, <2>2, <2>4, OthersNamed DEF NamedByOpen
  <1>6. CASE Collect(q)
    <2>1. obj'[q] = closed BY <1>6, TypeParts DEF Collect, ObjectsOK
    <2>2. Named(q)' = {} BY <1>4, <2>1 DEF Named
    <2>3. FdsAccounted' BY <1>1, <1>2, <1>6, Accounting DEF Collect
    <2> QED BY <1>1, <2>2, <2>3, OthersNamed DEF NamedByOpen
  <1> QED BY <1>3, <1>5, <1>6

LEMMA PipeAccounts ==
  ASSUME OwnInv, AccountInv, NEW q \in Procs, MakePipe(q)
  PROVE  FdsAccounted' /\ NamedByOpen'
  <1>1. PICK r \in Fds, w \in Fds :
          /\ tab' = [tab EXCEPT ![r] = End(q, NextStream(q), "r"), ![w] = End(q, NextStream(q), "w")]
          /\ got' = got \cup {r, w}
    BY DEF MakePipe
  <1>2. UNCHANGED <<obj, lost>> BY DEF MakePipe
  <1>3. \A p \in Procs : Named(p)' = Named(p) BY <1>2 DEF Named
  <1>4. \A f \in Fds : f \in {r, w} \/ tab'[f] = tab[f]
    BY <1>1, TypeParts DEF OwnInv, TableOK
  <1>5. FdsAccounted'
    <2> SUFFICES ASSUME NEW f \in Fds, tab'[f] # Free
                 PROVE  f \in lost' \cup got' \/ \E p \in Procs : f \in Named(p)'
      BY DEF FdsAccounted
    <2>1. CASE f \in {r, w} BY <1>1, <2>1
    <2>2. CASE tab'[f] = tab[f]
      BY <1>1, <1>2, <1>3, <2>2 DEF AccountInv, FdsAccounted
    <2> QED BY <1>4, <2>1, <2>2
  <1> QED BY <1>2, <1>3, <1>5 DEF AccountInv, NamedByOpen

LEMMA AccountStep == OwnInv /\ AccountInv /\ [Next]_vars => AccountInv'
  <1> SUFFICES ASSUME OwnInv, AccountInv, [Next]_vars PROVE FdsAccounted' /\ NamedByOpen'
    BY UniqueStep DEF AccountInv
  <1>1. ASSUME UNCHANGED <<tab, obj, got, lost>> PROVE FdsAccounted' /\ NamedByOpen'
    BY <1>1 DEF AccountInv, FdsAccounted, NamedByOpen, Named
  <1>2. ASSUME NEW q \in Procs, Parent(q) PROVE FdsAccounted' /\ NamedByOpen'
    <2>1. CASE \/ StartRun(q) \/ (\E name \in Waits : StartWait(q, name))
               \/ ReadReturns(q) \/ WriteReturns(q) \/ ExitReturns(q) \/ Kill(q)
      <3>1. UNCHANGED <<tab, obj, got, lost>>
        BY <2>1 DEF StartRun, StartWait, ReadReturns, WriteReturns, ExitReturns, Kill, parent
      <3> QED BY <3>1, <1>1
    <2> QED BY <1>2, <2>1, RunAccounts, CloseAccounts, PipeAccounts DEF Parent
  <1>3. ASSUME NEW q \in Procs, Child(q) PROVE FdsAccounted' /\ NamedByOpen'
    <2>1. UNCHANGED <<tab, obj, got, lost>>
      BY <1>3 DEF Child, ChildSetup, ChildReads, ChildEnds, ChildWrites, ChildCloses, parent
    <2> QED BY <2>1, <1>1
  <1>4. CASE UNCHANGED vars
    BY <1>4, <1>1 DEF vars, parent
  <1> QED BY <1>2, <1>3, <1>4 DEF Next

(* No descriptor is forgotten but by a pipe() that fails after others and  *)
(* by an object nobody closes, in any execution.                           *)
THEOREM DescriptorsAccounted == Spec => []FdsAccounted
  <1>1. Init => AccountInv
    BY DEF Init, AccountInv, FdsAccounted, Unique, NamedByOpen, Named, NoObject
  <1>2. AccountInv => FdsAccounted BY DEF AccountInv
  <1> QED BY <1>1, <1>2, OwnInit, OwnStep, AccountStep, PTL DEF Spec

-----------------------------------------------------------------------------
(* ObjSize.                                                                *)

\* The least number of a set of naturals, for proofs about what Within computes.
LEMMA LeastNumber ==
    ASSUME NEW T \in SUBSET Nat, T # {}
    PROVE  \E n \in T : \A m \in T : n <= m
<1>1. IsWellFoundedOn(OpToRel(<, Nat), Nat)
  BY NatLessThanWellFounded
<1>2. PICK n \in T : \A m \in T : ~(<<m, n>> \in OpToRel(<, Nat))
  BY <1>1, WFMin
<1>3. \A m \in T : ~(m < n)
  BY <1>2 DEF OpToRel
<1> QED BY <1>3

\* A set of numbers that has 0 and with each number the next one has all of them.
LEMMA AllNumbers ==
    ASSUME NEW k \in Nat, NEW T, 0 \in T, \A n \in 0 .. k - 1 : n \in T => n + 1 \in T
    PROVE  0 .. k \subseteq T
<1> DEFINE R == (0 .. k) \ T
<1> SUFFICES ASSUME R # {} PROVE FALSE
  OBVIOUS
<1>0. R \in SUBSET Nat
  OBVIOUS
<1>1. PICK n \in R : \A m \in R : n <= m
  <2> HIDE DEF R
  <2> QED BY <1>0, LeastNumber
<1>2. n # 0 /\ n - 1 \in 0 .. k - 1 /\ ~(n <= n - 1) /\ n - 1 + 1 = n
  BY <1>1
<1>3. n - 1 \in T
  BY <1>1, <1>2
<1> QED BY <1>1, <1>2, <1>3

-----------------------------------------------------------------------------
\* What is within reach, by distance.
Excluded == ToSet(call.scan)
Near(S) == S \cup ((UNION {Children(b) : b \in S}) \ Excluded)
Start == {call.v} \ (Excluded \cup {NoBlock})
HeapSize == Cardinality(Blocks)

Balls(f, k) ==
    f = [n \in 0 .. k |-> IF n = 0 THEN Start ELSE Near(f[n - 1])]

LEMMA BallsExist == ASSUME NEW k \in Nat PROVE \E f : Balls(f, k)
<1> DEFINE T == {n \in Nat : \E f : Balls(f, n)}
<1>1. 0 \in T
  <2>1. Balls([n \in 0 .. 0 |-> Start], 0)
    BY DEF Balls
  <2> QED BY <2>1
<1>2. ASSUME NEW n \in 0 .. k - 1, n \in T PROVE n + 1 \in T
  <2>1. PICK f : Balls(f, n)
    BY <1>2
  <2> DEFINE g == [i \in 0 .. n + 1 |-> IF i = n + 1 THEN Near(f[n]) ELSE f[i]]
  <2>2. ASSUME NEW i \in 0 .. n + 1
        PROVE  g[i] = IF i = 0 THEN Start ELSE Near(g[i - 1])
    <3>1. CASE i = n + 1
      <4>1. i # 0 /\ i - 1 = n /\ i - 1 \in 0 .. n + 1 /\ i - 1 # n + 1
        BY <3>1
      <4>2. g[i] = Near(f[n]) /\ g[i - 1] = f[n]
        BY <3>1, <4>1
      <4> QED BY <4>1, <4>2
    <3>2. CASE i # n + 1
      <4>1. i \in 0 .. n /\ i - 1 # n + 1
        BY <3>2
      <4>2. f[i] = IF i = 0 THEN Start ELSE Near(f[i - 1])
        BY <2>1, <4>1 DEF Balls
      <4>3. i # 0 => i - 1 \in 0 .. n + 1
        BY <4>1
      <4>4. g[i] = f[i] /\ (i # 0 => g[i - 1] = f[i - 1])
        BY <3>2, <4>1, <4>3
      <4> QED BY <4>2, <4>4
    <3> QED BY <3>1, <3>2
  <2>3. g = [i \in 0 .. n + 1 |-> IF i = 0 THEN Start ELSE Near(g[i - 1])]
    <3> DEFINE h == [i \in 0 .. n + 1 |-> IF i = 0 THEN Start ELSE Near(g[i - 1])]
    <3>1. \A i \in 0 .. n + 1 : g[i] = h[i]
      BY <2>2
    <3> QED BY <3>1
  <2>4. Balls(g, n + 1)
    BY <2>3 DEF Balls
  <2> QED BY <2>4
<1>3. 0 .. k \subseteq T
  <2> HIDE DEF T
  <2> QED BY <1>1, <1>2, AllNumbers
<1> QED BY <1>3

LEMMA WithinIs ==
    ASSUME HeapSize \in Nat
    PROVE  /\ DOMAIN Within = 0 .. HeapSize
           /\ Within[0] = Start
           /\ \A n \in 0 .. HeapSize - 1 : Within[n + 1] = Near(Within[n])
<1>1. Within = CHOOSE f : Balls(f, HeapSize)
  BY DEF Within, Balls, Near, Start, Excluded, HeapSize
<1>2. Balls(Within, HeapSize)
  BY <1>1, BallsExist
<1> HIDE DEF HeapSize
<1>3. \A n \in 0 .. HeapSize : Within[n] = IF n = 0 THEN Start ELSE Near(Within[n - 1])
  BY <1>2 DEF Balls
<1>4. DOMAIN Within = 0 .. HeapSize
  BY <1>2 DEF Balls
<1>5. \A n \in 0 .. HeapSize - 1 : n + 1 \in 0 .. HeapSize /\ n + 1 # 0 /\ n + 1 - 1 = n
  OBVIOUS
<1>6. 0 \in 0 .. HeapSize
  OBVIOUS
<1> QED BY <1>3, <1>4, <1>5, <1>6

\* What is within a distance is within every greater one.
LEMMA WithinGrows ==
    ASSUME HeapSize \in Nat, NEW m \in 0 .. HeapSize, NEW n \in 0 .. HeapSize, m <= n
    PROVE  Within[m] \subseteq Within[n]
<1> HIDE DEF HeapSize
<1> DEFINE T == {i \in Nat : m <= i /\ i <= HeapSize => Within[m] \subseteq Within[i]}
<1>1. 0 \in T
  <2>1. m <= 0 => m = 0 OBVIOUS
  <2> QED BY <2>1
<1>2. ASSUME NEW i \in 0 .. HeapSize - 1, i \in T PROVE i + 1 \in T
  <2>1. Within[i + 1] = Near(Within[i])
    BY WithinIs
  <2>2. m <= i + 1 => m = i + 1 \/ m <= i
    OBVIOUS
  <2>3. i + 1 \in Nat /\ i <= HeapSize
    OBVIOUS
  <2> QED BY <1>2, <2>1, <2>2, <2>3 DEF Near
<1>3. 0 .. HeapSize \subseteq T
  <2> HIDE DEF T
  <2> QED BY <1>1, <1>2, AllNumbers
<1> QED BY <1>3

\* A set that has the start and whatever it points to is all that can be reached.
LEMMA WithinClosed ==
    ASSUME HeapSize \in Nat, NEW S, Start \subseteq S, Near(S) \subseteq S
    PROVE  \A n \in 0 .. HeapSize : Within[n] \subseteq S
<1> HIDE DEF HeapSize, Start
<1> DEFINE T == {i \in Nat : i <= HeapSize => Within[i] \subseteq S}
<1>1. 0 \in T
  BY WithinIs
<1>2. ASSUME NEW i \in 0 .. HeapSize - 1, i \in T PROVE i + 1 \in T
  <2>1. Within[i + 1] = Near(Within[i])
    BY WithinIs
  <2>2. i + 1 \in Nat /\ i <= HeapSize
    OBVIOUS
  <2>3. Within[i] \subseteq S
    BY <1>2, <2>2
  <2>4. Near(Within[i]) \subseteq Near(S)
    BY <2>3 DEF Near
  <2> QED BY <2>1, <2>2, <2>4
<1>3. 0 .. HeapSize \subseteq T
  <2> HIDE DEF T
  <2> QED BY <1>1, <1>2, AllNumbers
<1> QED BY <1>3

-----------------------------------------------------------------------------
\* What a heap is, and what its blocks point to.
LEMMA HeapOk ==
    ASSUME call \in Calls
    PROVE  /\ IsFiniteSet(Blocks) /\ HeapSize \in Nat /\ NoBlock \notin Blocks
           /\ call.v \in Blocks \cup {NoBlock}
           /\ call.scan \in Seq(Blocks) /\ call.reach \in Seq(Blocks)
           /\ Excluded \subseteq Blocks
<1>1. /\ IsFiniteSet(Blocks) /\ NoBlock \notin Blocks
      /\ call.v \in Blocks \cup {NoBlock}
      /\ call.scan \in Seq(Blocks) /\ call.reach \in Seq(Blocks)
  BY CallsAssumption DEF Blocks
<1>2. HeapSize \in Nat
  BY <1>1, FS_CardinalityType DEF HeapSize
<1>3. Excluded \subseteq Blocks
  BY <1>1 DEF Excluded, ToSet
<1> QED BY <1>1, <1>2, <1>3

LEMMA BlockOk ==
    ASSUME call \in Calls, NEW b \in Blocks
    PROVE  /\ Opaque(b) \in BOOLEAN
           /\ Len(Fields(b)) \in Nat
           /\ DOMAIN Fields(b) = 1 .. Len(Fields(b))
           /\ \A j \in 1 .. Len(Fields(b)) : Fields(b)[j] \in Blocks \cup {NoBlock}
           /\ Children(b) \subseteq Blocks
           /\ \A j \in 1 .. Len(Fields(b)) :
                ~Opaque(b) /\ Fields(b)[j] # NoBlock => Fields(b)[j] \in Children(b)
           /\ \A x \in Children(b) :
                ~Opaque(b) /\ \E j \in 1 .. Len(Fields(b)) : x = Fields(b)[j]
<1>1. Fields(b) \in Seq(Blocks \cup {NoBlock}) /\ Opaque(b) \in BOOLEAN
  BY CallsAssumption DEF Blocks, Fields, Opaque
<1>2. /\ Len(Fields(b)) \in Nat
      /\ DOMAIN Fields(b) = 1 .. Len(Fields(b))
      /\ \A j \in 1 .. Len(Fields(b)) : Fields(b)[j] \in Blocks \cup {NoBlock}
  BY <1>1
<1>3. /\ \A j \in 1 .. Len(Fields(b)) :
           ~Opaque(b) /\ Fields(b)[j] # NoBlock => Fields(b)[j] \in Children(b)
      /\ \A x \in Children(b) :
           ~Opaque(b) /\ \E j \in 1 .. Len(Fields(b)) : x = Fields(b)[j]
      /\ NoBlock \notin Children(b)
  BY <1>2 DEF Children, ToSet
<1>4. Children(b) \subseteq Blocks
  BY <1>2, <1>3
<1> QED BY <1>1, <1>2, <1>3, <1>4

\* A block one step further.
LEMMA OneFurther ==
    ASSUME HeapSize \in Nat, NEW n \in 0 .. HeapSize - 1, NEW b \in Within[n],
           NEW x \in Children(b), x \notin Excluded
    PROVE  x \in Within[n + 1]
<1> HIDE DEF HeapSize
<1>1. Within[n + 1] = Near(Within[n])
  BY WithinIs
<1>2. x \in UNION {Children(c) : c \in Within[n]}
  OBVIOUS
<1> QED BY <1>1, <1>2 DEF Near

LEMMA SameHeap ==
    UNCHANGED call =>
      /\ Within' = Within /\ Excluded' = Excluded /\ Blocks' = Blocks
      /\ Start' = Start /\ HeapSize' = HeapSize
      /\ \A b : Children(b)' = Children(b)
<1>1. UNCHANGED call => Within' = Within
  BY DEF Within, Children, Fields, Opaque, Blocks
<1>2. UNCHANGED call => /\ Excluded' = Excluded /\ Blocks' = Blocks
                        /\ Start' = Start /\ HeapSize' = HeapSize
  BY DEF Excluded, Blocks, Start, HeapSize
<1>3. UNCHANGED call => \A b : Children(b)' = Children(b)
  BY DEF Children, Fields, Opaque
<1> QED BY <1>1, <1>2, <1>3

-----------------------------------------------------------------------------
\* The elements of a list and of a stack.
LEMMA EmptySet == ToSet(<<>>) = {}
BY DEF ToSet

LEMMA HeadAndRest ==
    ASSUME NEW S, NEW s \in Seq(S), s # <<>>
    PROVE  /\ Head(s) \in S /\ Tail(s) \in Seq(S)
           /\ ToSet(s) = {Head(s)} \cup ToSet(Tail(s))
<1>1. Head(s) \in S /\ Tail(s) \in Seq(S) /\ Head(s) = s[1] /\ Len(s) \in Nat \ {0}
  OBVIOUS
<1>2. DOMAIN s = 1 .. Len(s) /\ DOMAIN Tail(s) = 1 .. Len(s) - 1
  BY <1>1
<1>3. \A i \in 1 .. Len(s) - 1 : Tail(s)[i] = s[i + 1] /\ i + 1 \in 1 .. Len(s)
  BY <1>1
<1>4. \A i \in 1 .. Len(s) : i = 1 \/ (i - 1 \in 1 .. Len(s) - 1 /\ i - 1 + 1 = i)
  BY <1>1
<1>5. ASSUME NEW i \in 1 .. Len(s) PROVE s[i] \in {Head(s)} \cup ToSet(Tail(s))
  <2>1. CASE i = 1
    BY <1>1, <2>1
  <2>2. CASE i # 1
    <3>1. i - 1 \in DOMAIN Tail(s) /\ Tail(s)[i - 1] = s[i]
      BY <1>2, <1>3, <1>4, <2>2
    <3> QED BY <3>1 DEF ToSet
  <2> QED BY <2>1, <2>2
<1>6. 1 \in 1 .. Len(s)
  BY <1>1
<1>8. ToSet(s) \subseteq {Head(s)} \cup ToSet(Tail(s))
  BY <1>2, <1>5 DEF ToSet
<1>7. {Head(s)} \cup ToSet(Tail(s)) \subseteq ToSet(s)
  BY <1>1, <1>2, <1>3, <1>6 DEF ToSet
<1> QED BY <1>1, <1>7, <1>8

LEMMA OneOnTop ==
    ASSUME NEW S, NEW s \in Seq(S), NEW a \in S
    PROVE  /\ <<a>> \o s \in Seq(S)
           /\ ToSet(<<a>> \o s) = {a} \cup ToSet(s)
<1>1. <<a>> \o s \in Seq(S) /\ <<a>> \o s # <<>>
  OBVIOUS
<1>2. Head(<<a>> \o s) = a
  OBVIOUS
<1>3. Tail(<<a>> \o s) = s
  OBVIOUS
<1> QED BY <1>1, <1>2, <1>3, HeadAndRest

LEMMA TwoOnTop ==
    ASSUME NEW S, NEW s \in Seq(S), NEW a \in S, NEW b \in S
    PROVE  /\ <<a, b>> \o s \in Seq(S)
           /\ ToSet(<<a, b>> \o s) = {a, b} \cup ToSet(s)
<1>1. <<a, b>> \o s \in Seq(S) /\ <<a, b>> \o s # <<>>
  OBVIOUS
<1>2. Head(<<a, b>> \o s) = a
  OBVIOUS
<1>3. Tail(<<a, b>> \o s) = <<b>> \o s
  <2>1. Tail(<<a, b>> \o s) \in Seq(S) /\ <<b>> \o s \in Seq(S)
    OBVIOUS
  <2>2. Len(Tail(<<a, b>> \o s)) = Len(<<b>> \o s)
    OBVIOUS
  <2>3. \A i \in 1 .. Len(<<b>> \o s) : Tail(<<a, b>> \o s)[i] = (<<b>> \o s)[i]
    OBVIOUS
  <2> QED BY <2>1, <2>2, <2>3, SeqEqual
<1>4. ToSet(<<a, b>> \o s) = {a} \cup ToSet(<<b>> \o s)
  BY <1>1, <1>2, <1>3, HeadAndRest
<1> QED BY <1>1, <1>4, OneOnTop

-----------------------------------------------------------------------------
\* The log never takes a mark for a colour.
NeverBlue(l) == "prev" \in DOMAIN l /\ l.prev # Col_blue

LEMMA BitsKeepPrev ==
    ASSUME NEW l, NEW bits, NEW fit, "prev" \in DOMAIN l
    PROVE  /\ "prev" \in DOMAIN WriteBits(l, bits, fit)
           /\ WriteBits(l, bits, fit).prev = l.prev
BY DEF WriteBits

LEMMA FlushKeepsPrev ==
    ASSUME NEW l, "prev" \in DOMAIN l
    PROVE  "prev" \in DOMAIN rle_write_flush(l) /\ rle_write_flush(l).prev = l.prev
BY BitsKeepPrev DEF rle_write_flush

LEMMA WriteNeverBlue ==
    ASSUME NEW l, NEW c, NeverBlue(l), c # Col_blue
    PROVE  NeverBlue(writecolor(l, c))
<1>1. CASE l.prev = c
  BY <1>1 DEF writecolor, NeverBlue
<1>2. CASE l.prev # c
  <2> DEFINE w == WriteBits(rle_write_flush(l), IntBits(c, 2), Fits(c, 2))
  <2>1. "prev" \in DOMAIN w
    BY FlushKeepsPrev, BitsKeepPrev DEF NeverBlue
  <2>2. writecolor(l, c) = [w EXCEPT !.prev = c, !.ok = @ /\ c # Col_blue]
    BY <1>2 DEF writecolor
  <2> HIDE DEF w
  <2> QED BY <2>1, <2>2 DEF NeverBlue
<1> QED BY <1>1, <1>2

LEMMA InitNeverBlue ==
    ASSUME NEW l, "prev" \in DOMAIN l
    PROVE  NeverBlue(rle_init(rle_write_flush(l)))
BY FlushKeepsPrev DEF rle_init, NeverBlue, Col_white, Col_blue

LEMMA ReadKeepsPrev ==
    ASSUME NEW l, NEW w, "prev" \in DOMAIN l
    PROVE  "prev" \in DOMAIN readint(l, w).log /\ readint(l, w).log.prev = l.prev
BY DEF readint

LEMMA ReadNeverBlue ==
    ASSUME NEW l, NeverBlue(l)
    PROVE  NeverBlue(readcolor(l).log) /\ readcolor(l).color # Col_blue
<1>1. CASE l.count > 0
  BY <1>1 DEF readcolor, NeverBlue
<1>2. CASE ~(l.count > 0)
  <2> DEFINE c == readint(l, 2)
             n == ReadRepeat(c.log)
  <2>1. "prev" \in DOMAIN c.log /\ c.log.prev = l.prev
    BY ReadKeepsPrev DEF NeverBlue
  <2>2. "prev" \in DOMAIN n.log /\ n.log.prev = l.prev
    <3> DEFINE kind == readint(c.log, 1)
               arg == readint(kind.log, IF kind.value = 0 THEN BITS_FOR_COUNT ELSE BITS_FOR_ORDER)
    <3> HIDE DEF c
    <3>1. "prev" \in DOMAIN kind.log /\ kind.log.prev = l.prev
      BY <2>1, ReadKeepsPrev
    <3>2. n.log = arg.log
      BY DEF ReadRepeat
    <3> HIDE DEF kind, n
    <3>3. "prev" \in DOMAIN arg.log /\ arg.log.prev = l.prev
      BY <3>1, ReadKeepsPrev
    <3> QED BY <3>2, <3>3
  <2>3. readcolor(l) =
          IF c.value = Col_blue
          THEN [log |-> [n.log EXCEPT !.count = n.value - 1, !.ok = @ /\ n.value > 0],
                color |-> l.prev]
          ELSE [log |-> [c.log EXCEPT !.prev = c.value], color |-> c.value]
    BY <1>2 DEF readcolor
  <2> HIDE DEF c, n
  <2> QED BY <2>1, <2>2, <2>3 DEF NeverBlue
<1> QED BY <1>1, <1>2

-----------------------------------------------------------------------------
\* What the walk has counted and what it still has to visit, for colours c, an
\* answer a and the activations st.
Blue(c) == {b \in Blocks : c[b] = Col_blue}
Walked(c) == Blue(c) \ Excluded
Cells(S) == UNION { {b} \X DOMAIN Fields(b) : b \in S }

Answers == [hdrs : Nat, data : Nat, depth : Nat]
FrameShape == [v : Blocks, depth : Nat, prev : Blocks \cup {NoBlock}, i : Nat]

Counted(c, a) ==
    /\ a \in Answers
    /\ a.hdrs = Cardinality(Walked(c))
    /\ IsFiniteSet(Cells(Walked(c))) /\ a.data = Cardinality(Cells(Walked(c)))
    /\ a.hdrs = 0 => a.depth = 0
    /\ a.hdrs # 0 => a.depth + 1 <= a.hdrs
    /\ Walked(c) \subseteq Within[a.depth]

FrameOk(c, a, f) ==
    /\ f.v \in Walked(c) /\ f.v \in Within[f.depth] /\ f.depth <= a.depth
    /\ f.i <= Len(Fields(f.v))
    /\ Opaque(f.v) => f.i = Len(Fields(f.v))
    /\ f.prev # NoBlock => f.prev \in Children(f.v)

IsPending(f, x) ==
    \/ x = f.prev
    \/ \E j \in 1 .. Len(Fields(f.v)) : f.i < j /\ x = Fields(f.v)[j]

AllPending(c, S) ==
    \A b \in Walked(c) : \A x \in Children(b) :
        c[x] = Col_blue \/ \E f \in S : f.v = b /\ IsPending(f, x)

WalkBase(c, a) == DOMAIN c = Blocks /\ Excluded \subseteq Blue(c) /\ Counted(c, a)

WalkOk(c, a, st) ==
    /\ WalkBase(c, a)
    /\ Start \subseteq Blue(c)
    /\ st \in Seq(FrameShape)
    /\ \A f \in ToSet(st) : FrameOk(c, a, f)
    /\ AllPending(c, ToSet(st))

\* What EnterBlock makes of the answer.
Entered(a, b, n) ==
    [hdrs |-> a.hdrs + 1, data |-> a.data + Len(Fields(b)),
     depth |-> IF n > a.depth THEN n ELSE a.depth]

MarkedToo(c, b) == [c EXCEPT ![b] = Col_blue]

LEMMA OneMoreCell ==
    ASSUME call \in Calls, NEW W \in SUBSET Blocks, NEW b \in Blocks, b \notin W,
           IsFiniteSet(Cells(W))
    PROVE  /\ IsFiniteSet(Cells(W \cup {b}))
           /\ Cardinality(Cells(W \cup {b})) = Cardinality(Cells(W)) + Len(Fields(b))
<1> DEFINE New == {b} \X DOMAIN Fields(b)
           L == Len(Fields(b))
<1>1. Cells(W \cup {b}) = Cells(W) \cup New
  BY DEF Cells
<1>2. Cells(W) \cap New = {}
  BY DEF Cells
<1>3. L \in Nat /\ DOMAIN Fields(b) = 1 .. L
  BY BlockOk
<1>4. IsFiniteSet(1 .. L) /\ Cardinality(1 .. L) = L
  <2> HIDE DEF L
  <2>1. L \in Int /\ 1 \in Int
    BY <1>3
  <2>2. IsFiniteSet(1 .. L) /\ Cardinality(1 .. L) = IF 1 > L THEN 0 ELSE L - 1 + 1
    BY <2>1, FS_Interval
  <2> QED BY <1>3, <2>2
<1>5. IsFiniteSet({b}) /\ Cardinality({b}) = 1
  BY FS_Singleton
<1>6. IsFiniteSet(New) /\ Cardinality(New) = 1 * L
  <2> HIDE DEF L
  <2>1. IsFiniteSet({b} \X (1 .. L)) /\ Cardinality({b} \X (1 .. L)) = Cardinality({b}) * Cardinality(1 .. L)
    BY <1>4, <1>5, FS_Product
  <2> QED BY <1>3, <1>4, <1>5, <2>1
<1> HIDE DEF New, L
<1>7. IsFiniteSet(Cells(W) \cup New)
      /\ Cardinality(Cells(W) \cup New) =
           Cardinality(Cells(W)) + Cardinality(New) - Cardinality(Cells(W) \cap New)
  BY <1>6, FS_Union
<1>8. Cardinality(Cells(W) \cap New) = 0
  BY <1>2, FS_EmptySet
<1>9. Cardinality(Cells(W)) \in Nat
  BY FS_CardinalityType
<1>10. Cardinality(Cells(W) \cup New) = Cardinality(Cells(W)) + L
  BY <1>3, <1>6, <1>7, <1>8, <1>9
<1> QED BY <1>1, <1>7, <1>10 DEF L

\* The distance of a walk is less than the number of blocks.
LEMMA DepthBounded ==
    ASSUME call \in Calls, NEW c, NEW a, Counted(c, a)
    PROVE  /\ HeapSize \in Nat /\ a.hdrs <= HeapSize /\ a.hdrs \in Nat /\ a.depth \in 0 .. HeapSize
           /\ a.hdrs # 0 => a.depth \in 0 .. HeapSize - 1
<1>1. Walked(c) \subseteq Blocks
  BY DEF Walked, Blue
<1>2. Cardinality(Walked(c)) <= HeapSize /\ HeapSize \in Nat
  BY <1>1, HeapOk, FS_Subset DEF HeapSize
<1>3. a.hdrs \in Nat /\ a.depth \in Nat
  BY DEF Counted, Answers
<1>4. a.hdrs <= HeapSize
  BY <1>2 DEF Counted
<1> HIDE DEF HeapSize
<1>5. a.hdrs # 0 => a.depth + 1 <= a.hdrs
  BY DEF Counted
<1>6. a.hdrs = 0 => a.depth = 0
  BY DEF Counted
<1> QED BY <1>2, <1>3, <1>4, <1>5, <1>6

\* A visit counts one block more, at a distance the heap has.
MayVisit(c, a, b, n) ==
    /\ WalkBase(c, a) /\ b \in Blocks /\ c[b] # Col_blue
    /\ n \in Nat /\ b \in Within[n] /\ (n = 0 \/ (a.hdrs # 0 /\ n <= a.depth + 1))

Visited(d, e, c, a, b, n) ==
    /\ WalkBase(d, e)
    /\ Walked(d) = Walked(c) \cup {b} /\ Blue(d) = Blue(c) \cup {b}
    /\ e.depth \in Nat /\ n <= e.depth /\ a.depth <= e.depth

LEMMA VisitCounts ==
    ASSUME call \in Calls, NEW c, NEW a, NEW b, NEW n, MayVisit(c, a, b, n)
    PROVE  Visited(MarkedToo(c, b), Entered(a, b, n), c, a, b, n)
<1> DEFINE d == MarkedToo(c, b)
           e == Entered(a, b, n)
           W == Walked(c)
<1>0. /\ WalkBase(c, a) /\ b \in Blocks /\ c[b] # Col_blue
      /\ n \in Nat /\ b \in Within[n] /\ (n = 0 \/ (a.hdrs # 0 /\ n <= a.depth + 1))
  BY DEF MayVisit
<1>1. DOMAIN c = Blocks /\ Excluded \subseteq Blue(c) /\ Counted(c, a)
  BY <1>0 DEF WalkBase
<1>2. DOMAIN d = Blocks /\ Blue(d) = Blue(c) \cup {b}
  BY <1>0, <1>1 DEF MarkedToo, Blue
<1>3. b \notin Blue(c) /\ b \notin Excluded
  BY <1>0, <1>1 DEF Blue
<1>4. Walked(d) = W \cup {b} /\ b \notin W /\ W \in SUBSET Blocks
  <2> HIDE DEF d
  <2> QED BY <1>2, <1>3 DEF Walked, Blue
<1>5. /\ a \in Answers /\ a.hdrs = Cardinality(W)
      /\ IsFiniteSet(Cells(W)) /\ a.data = Cardinality(Cells(W))
      /\ a.hdrs = 0 => a.depth = 0
      /\ a.hdrs # 0 => a.depth + 1 <= a.hdrs
      /\ W \subseteq Within[a.depth]
  BY <1>1 DEF Counted
<1>6. a.hdrs \in Nat /\ a.data \in Nat /\ a.depth \in Nat /\ Len(Fields(b)) \in Nat
  BY <1>0, <1>5, BlockOk DEF Answers
<1>7. /\ e \in Answers /\ e.hdrs = a.hdrs + 1 /\ e.data = a.data + Len(Fields(b))
      /\ e.depth = (IF n > a.depth THEN n ELSE a.depth)
  BY <1>0, <1>6 DEF Entered, Answers
<1> HIDE DEF d, e, W
<1>8. n <= e.depth /\ a.depth <= e.depth /\ e.depth + 1 <= e.hdrs /\ e.hdrs # 0 /\ e.depth \in Nat
  BY <1>0, <1>5, <1>6, <1>7
<1>9. IsFiniteSet(W) /\ IsFiniteSet(Walked(d)) /\ Cardinality(Walked(d)) = e.hdrs
  <2>1. IsFiniteSet(W)
    BY <1>4, HeapOk, FS_Subset
  <2> QED BY <1>4, <1>5, <1>7, <2>1, FS_AddElement
<1>10. IsFiniteSet(Cells(Walked(d))) /\ e.data = Cardinality(Cells(Walked(d)))
  <2>1. /\ IsFiniteSet(Cells(W \cup {b}))
        /\ Cardinality(Cells(W \cup {b})) = Cardinality(Cells(W)) + Len(Fields(b))
    BY <1>0, <1>4, <1>5, OneMoreCell
  <2> QED BY <1>4, <1>5, <1>7, <2>1
<1>11. e.hdrs <= HeapSize /\ HeapSize \in Nat
  <2>1. Walked(d) \subseteq Blocks
    BY <1>0, <1>4
  <2> QED BY <1>9, <2>1, HeapOk, FS_Subset DEF HeapSize
<1> HIDE DEF HeapSize
<1>12. n \in 0 .. HeapSize /\ a.depth \in 0 .. HeapSize /\ e.depth \in 0 .. HeapSize
  BY <1>0, <1>6, <1>7, <1>8, <1>11
<1>13. Walked(d) \subseteq Within[e.depth]
  <2>1. Within[a.depth] \subseteq Within[e.depth]
    BY <1>8, <1>11, <1>12, WithinGrows
  <2>2. Within[n] \subseteq Within[e.depth]
    BY <1>8, <1>11, <1>12, WithinGrows
  <2> QED BY <1>0, <1>4, <1>5, <2>1, <2>2
<1>14. Counted(d, e)
  BY <1>7, <1>8, <1>9, <1>10, <1>13 DEF Counted
<1>15. WalkBase(d, e)
  BY <1>1, <1>2, <1>14 DEF WalkBase
<1> QED BY <1>2, <1>4, <1>8, <1>15 DEF Visited, d, e, W

\* The activations stay as they are when one block more is counted.
LEMMA FramesStay ==
    ASSUME NEW c, NEW a, NEW d, NEW e, NEW f \in FrameShape, FrameOk(c, a, f),
           Walked(c) \subseteq Walked(d), a.depth \in Nat, e.depth \in Nat, a.depth <= e.depth
    PROVE  FrameOk(d, e, f)
<1>1. f.depth \in Nat /\ f.depth <= a.depth
  BY DEF FrameOk, FrameShape
<1>2. f.depth <= e.depth
  BY <1>1
<1> QED BY <1>2 DEF FrameOk

\* An activation that has just entered a block has all the children to visit.
EntersAt(d, e, b, n) ==
    b \in Blocks /\ n \in Nat /\ b \in Walked(d) /\ b \in Within[n] /\ n <= e.depth

LEMMA NewFrame ==
    ASSUME call \in Calls, NEW d, NEW e, NEW b, NEW n, EntersAt(d, e, b, n)
    PROVE  /\ Frame(b, n) \in FrameShape /\ Frame(b, n).v = b
           /\ FrameOk(d, e, Frame(b, n))
           /\ \A x \in Children(b) : IsPending(Frame(b, n), x)
<1> DEFINE f == Frame(b, n)
<1>0. b \in Blocks /\ n \in Nat /\ b \in Walked(d) /\ b \in Within[n] /\ n <= e.depth
  BY DEF EntersAt
<1>1. Len(Fields(b)) \in Nat /\ Opaque(b) \in BOOLEAN
  BY <1>0, BlockOk
<1>2. /\ f \in FrameShape /\ f.v = b /\ f.depth = n /\ f.prev = NoBlock
      /\ f.i = IF Opaque(b) THEN Len(Fields(b)) ELSE 0
  BY <1>0, <1>1 DEF Frame, FrameShape
<1> HIDE DEF f
<1>3. f.i <= Len(Fields(b)) /\ (Opaque(b) => f.i = Len(Fields(b)))
  BY <1>1, <1>2
<1>4. FrameOk(d, e, f)
  BY <1>0, <1>2, <1>3 DEF FrameOk
<1>5. ASSUME NEW x \in Children(b) PROVE IsPending(f, x)
  <2>1. ~Opaque(b) /\ \E j \in 1 .. Len(Fields(b)) : x = Fields(b)[j]
    BY <1>0, BlockOk
  <2>2. f.i = 0
    BY <1>2, <2>1
  <2>3. \A j \in 1 .. Len(Fields(b)) : f.i < j
    BY <1>1, <2>2
  <2> QED BY <1>2, <2>1, <2>3 DEF IsPending
<1> QED BY <1>2, <1>4, <1>5 DEF f

\* The next field.
NextFrame(f) ==
    LET g == Fields(f.v)[f.i + 1]
    IN [f EXCEPT !.i = @ + 1, !.prev = IF IsBlock(g) THEN g ELSE @]

LEMMA OnToNext ==
    ASSUME call \in Calls, NEW c, NEW a, NEW f \in FrameShape, FrameOk(c, a, f),
           f.i < Len(Fields(f.v))
    PROVE  /\ NextFrame(f) \in FrameShape /\ FrameOk(c, a, NextFrame(f))
           /\ NextFrame(f).v = f.v
           /\ \A x \in Blocks : IsPending(f, x) =>
                \/ IsPending(NextFrame(f), x)
                \/ x = f.prev /\ IsBlock(Fields(f.v)[f.i + 1])
<1> DEFINE g == Fields(f.v)[f.i + 1]
           h == NextFrame(f)
           L == Len(Fields(f.v))
<1>1. f.v \in Blocks /\ f.i \in Nat /\ f.prev \in Blocks \cup {NoBlock}
  BY DEF FrameShape
<1>2. L \in Nat /\ Opaque(f.v) \in BOOLEAN
  BY <1>1, BlockOk
<1>3. f.i + 1 \in 1 .. L /\ f.i + 1 <= L /\ f.i + 1 \in Nat
  BY <1>1, <1>2
<1>4. ~Opaque(f.v)
  <2>1. f.i # L
    BY <1>1, <1>2
  <2> QED BY <2>1 DEF FrameOk
<1>5. g \in Blocks \cup {NoBlock} /\ (g # NoBlock => g \in Children(f.v))
  BY <1>1, <1>3, <1>4, BlockOk
<1>6. /\ h.v = f.v /\ h.depth = f.depth /\ h.i = f.i + 1
      /\ h.prev = (IF IsBlock(g) THEN g ELSE f.prev)
      /\ h \in FrameShape
  <2> HIDE DEF g
  <2>1. h = [f EXCEPT !.i = @ + 1, !.prev = IF IsBlock(g) THEN g ELSE @]
    BY DEF NextFrame, g
  <2>2. (IF IsBlock(g) THEN g ELSE f.prev) \in Blocks \cup {NoBlock}
    BY <1>1, <1>5
  <2> HIDE DEF h
  <2> QED BY <1>3, <2>1, <2>2 DEF FrameShape
<1> HIDE DEF g, h
<1>7. FrameOk(c, a, h)
  BY <1>3, <1>4, <1>5, <1>6 DEF FrameOk, IsBlock
<1>8. ASSUME NEW x \in Blocks, IsPending(f, x)
      PROVE  IsPending(h, x) \/ (x = f.prev /\ IsBlock(g))
  <2>1. CASE x = f.prev
    BY <1>6, <2>1 DEF IsPending
  <2>2. ASSUME NEW j \in 1 .. L, f.i < j, x = Fields(f.v)[j] PROVE IsPending(h, x)
    <3>1. CASE j = f.i + 1
      <4>1. x = g
        BY <2>2, <3>1 DEF g
      <4>2. IsBlock(g)
        BY <4>1, HeapOk DEF IsBlock
      <4> QED BY <1>6, <4>1, <4>2 DEF IsPending
    <3>2. CASE j # f.i + 1
      <4>1. f.i + 1 < j
        BY <1>1, <1>2, <2>2, <3>2
      <4> QED BY <1>6, <2>2, <4>1 DEF IsPending
    <3> QED BY <3>1, <3>2
  <2> QED BY <1>8, <2>1, <2>2 DEF IsPending
<1> QED BY <1>6, <1>7, <1>8 DEF g, h

-----------------------------------------------------------------------------
\* A step of the walk that visits no block.
LEMMA QuietStep ==
    ASSUME NEW c, NEW st, NEW T, AllPending(c, ToSet(st)),
           NEW top, ToSet(st) \subseteq {top} \cup T,
           \A x \in Children(top.v) : IsPending(top, x) =>
             c[x] = Col_blue \/ \E f \in T : f.v = top.v /\ IsPending(f, x)
    PROVE  AllPending(c, T)
BY DEF AllPending

\* A step of the walk that visits the child p of its block.
LEMMA VisitStep ==
    ASSUME call \in Calls, NEW c, NEW a, NEW st, WalkOk(c, a, st), NEW T,
           NEW top \in ToSet(st), NEW p, p = top.prev, p # NoBlock, c[p] # Col_blue,
           Frame(p, top.depth + 1) \in T,
           ToSet(st) \subseteq {top} \cup T,
           \A f \in T : f = Frame(p, top.depth + 1) \/ (f \in FrameShape /\ FrameOk(c, a, f)),
           \A x \in Children(top.v) : IsPending(top, x) =>
             x = p \/ \E f \in T : f.v = top.v /\ IsPending(f, x)
    PROVE  /\ Frame(p, top.depth + 1) \in FrameShape
           /\ WalkBase(MarkedToo(c, p), Entered(a, p, top.depth + 1))
           /\ Start \subseteq Blue(MarkedToo(c, p))
           /\ \A f \in T : FrameOk(MarkedToo(c, p), Entered(a, p, top.depth + 1), f)
           /\ AllPending(MarkedToo(c, p), T)
<1> DEFINE n == top.depth + 1
           d == MarkedToo(c, p)
           e == Entered(a, p, n)
           g == Frame(p, n)
<1>1. /\ WalkBase(c, a) /\ Start \subseteq Blue(c) /\ AllPending(c, ToSet(st))
      /\ FrameOk(c, a, top)
  BY DEF WalkOk
<1>2. ToSet(st) \subseteq FrameShape
  <2>1. st \in Seq(FrameShape)
    BY DEF WalkOk
  <2>2. \A i \in DOMAIN st : st[i] \in FrameShape
    BY <2>1
  <2> QED BY <2>2 DEF ToSet
<1>3. top.v \in Blocks /\ top.depth \in Nat /\ n \in Nat
  BY <1>2 DEF FrameShape
<1>4. /\ top.v \in Walked(c) /\ top.v \in Within[top.depth] /\ top.depth <= a.depth
      /\ p \in Children(top.v)
  BY <1>1 DEF FrameOk
<1>5. p \in Blocks
  BY <1>3, <1>4, BlockOk
<1>6. Counted(c, a) /\ Excluded \subseteq Blue(c)
  BY <1>1 DEF WalkBase
<1>7. p \notin Excluded
  BY <1>6 DEF Blue
<1>8. a.hdrs # 0
  <2>1. Walked(c) \subseteq Blocks /\ IsFiniteSet(Blocks)
    BY HeapOk DEF Walked, Blue
  <2>2. IsFiniteSet(Walked(c))
    BY <2>1, FS_Subset
  <2>3. Cardinality(Walked(c)) # 0
    BY <1>4, <2>2, FS_EmptySet
  <2> QED BY <1>6, <2>3 DEF Counted
<1>9. HeapSize \in Nat /\ a.depth \in 0 .. HeapSize - 1 /\ a.depth \in Nat
  BY <1>6, <1>8, DepthBounded
<1> HIDE DEF HeapSize
<1>10. top.depth \in 0 .. HeapSize - 1 /\ n <= a.depth + 1
  BY <1>3, <1>4, <1>9
<1>11. p \in Within[n]
  BY <1>4, <1>7, <1>9, <1>10, OneFurther
<1> HIDE DEF n
<1>12. /\ WalkBase(d, e) /\ Walked(d) = Walked(c) \cup {p} /\ Blue(d) = Blue(c) \cup {p}
       /\ e.depth \in Nat /\ n <= e.depth /\ a.depth <= e.depth
  <2>1. MayVisit(c, a, p, n)
    BY <1>1, <1>3, <1>5, <1>8, <1>10, <1>11 DEF MayVisit
  <2>2. Visited(d, e, c, a, p, n)
    BY <2>1, VisitCounts
  <2> HIDE DEF d, e
  <2> QED BY <2>2 DEF Visited
<1> HIDE DEF d, e
<1>13. /\ g \in FrameShape /\ g.v = p /\ FrameOk(d, e, g)
       /\ \A x \in Children(p) : IsPending(g, x)
  <2>1. EntersAt(d, e, p, n)
    BY <1>3, <1>5, <1>11, <1>12 DEF EntersAt
  <2> QED BY <2>1, NewFrame
<1>14. g \in T /\ \A f \in T : f = g \/ (f \in FrameShape /\ FrameOk(c, a, f))
  BY DEF n
<1> HIDE DEF g
<1>15. ASSUME NEW f \in T PROVE FrameOk(d, e, f)
  <2>1. CASE f = g
    BY <1>13, <2>1
  <2>2. CASE f \in FrameShape /\ FrameOk(c, a, f)
    BY <1>9, <1>12, <2>2, FramesStay
  <2> QED BY <1>14, <2>1, <2>2
<1>16. ASSUME NEW b \in Walked(d), NEW x \in Children(b)
       PROVE  d[x] = Col_blue \/ \E f \in T : f.v = b /\ IsPending(f, x)
  <2>1. CASE b = p
    BY <1>13, <1>14, <2>1
  <2>2. CASE b \in Walked(c)
    <3>1. x \in Blocks
      BY <2>2, BlockOk DEF Walked, Blue
    <3>2. c[x] = Col_blue => d[x] = Col_blue
      BY <1>12, <3>1 DEF Blue
    <3>3. d[p] = Col_blue
      BY <1>12 DEF Blue
    <3>4. c[x] = Col_blue \/ \E f \in ToSet(st) : f.v = b /\ IsPending(f, x)
      BY <1>1, <2>2 DEF AllPending
    <3> QED BY <3>2, <3>3, <3>4
  <2> QED BY <1>12, <2>1, <2>2
<1>17. AllPending(d, T)
  BY <1>16 DEF AllPending
<1>18. Start \subseteq Blue(d)
  BY <1>1, <1>12
<1> QED BY <1>12, <1>13, <1>15, <1>17, <1>18 DEF d, e, g, n

LEMMA VisitIs ==
    ASSUME phase = "measure", NEW b, NEW n, Visit(b, n)
    PROVE  acc' = Entered(acc, b, n) /\ col' = MarkedToo(col, b) /\ log' = writecolor(log, col[b])
BY DEF Visit, EnterBlock, MarkBlock, Entered, MarkedToo

\* The walk of a block's fields keeps its account.
LEMMA WalkStep ==
    ASSUME call \in Calls, phase = "measure", stack # <<>>, RecWalk,
           WalkOk(col, acc, stack), NeverBlue(log)
    PROVE  WalkOk(col', acc', stack') /\ NeverBlue(log')
<1> DEFINE top == Head(stack)
           rest == Tail(stack)
           p == top.prev
           due == p # NoBlock /\ Due(p)
           next == NextFrame(top)
           g == Frame(p, top.depth + 1)
           f0 == Fields(top.v)[top.i + 1]
<1>1. /\ stack \in Seq(FrameShape) /\ WalkBase(col, acc) /\ Start \subseteq Blue(col)
      /\ \A f \in ToSet(stack) : FrameOk(col, acc, f)
      /\ AllPending(col, ToSet(stack))
  BY DEF WalkOk
<1>2. top \in FrameShape /\ rest \in Seq(FrameShape) /\ ToSet(stack) = {top} \cup ToSet(rest)
  BY <1>1, HeadAndRest
<1>3. top \in ToSet(stack) /\ FrameOk(col, acc, top)
  BY <1>1, <1>2
<1>4. Due(p) = (col[p] # Col_blue)
  BY DEF Due, Marked
<1>5. \A f \in ToSet(rest) : f \in FrameShape /\ FrameOk(col, acc, f)
  <2>1. \A i \in DOMAIN rest : rest[i] \in FrameShape
    BY <1>2
  <2> QED BY <1>1, <1>2, <2>1 DEF ToSet
<1>6. top.v \in Blocks /\ Len(Fields(top.v)) \in Nat /\ top.i \in Nat /\ Children(top.v) \subseteq Blocks
  BY <1>2, BlockOk DEF FrameShape
<1>7. \/ /\ top.i < Len(Fields(top.v)) /\ IsBlock(f0) /\ due
         /\ stack' = <<g, next>> \o rest /\ Visit(p, top.depth + 1)
      \/ /\ top.i < Len(Fields(top.v)) /\ ~(IsBlock(f0) /\ due)
         /\ stack' = <<next>> \o rest /\ UNCHANGED <<acc, log, col>>
      \/ /\ top.i = Len(Fields(top.v)) /\ due
         /\ stack' = <<g>> \o rest /\ Visit(p, top.depth + 1)
      \/ /\ top.i = Len(Fields(top.v)) /\ ~due
         /\ stack' = rest /\ UNCHANGED <<acc, log, col>>
  BY DEF RecWalk, NextFrame
<1>8. top.i = Len(Fields(top.v)) => \A x : IsPending(top, x) => x = p
  BY <1>6 DEF IsPending
<1>9. NoBlock \notin Blocks
  BY HeapOk
<1>10. NeverBlue(log) /\ (due => NeverBlue(writecolor(log, col[p])))
  BY <1>4, WriteNeverBlue
<1> HIDE DEF f0, next, g, rest, top, p
<1>11. CASE /\ top.i < Len(Fields(top.v)) /\ IsBlock(f0) /\ due
            /\ stack' = <<g, next>> \o rest /\ Visit(p, top.depth + 1)
  <2> DEFINE T == {g, next} \cup ToSet(rest)
  <2>1. /\ next \in FrameShape /\ FrameOk(col, acc, next) /\ next.v = top.v
        /\ \A x \in Blocks : IsPending(top, x) => IsPending(next, x) \/ x = p
    BY <1>2, <1>3, <1>11, OnToNext DEF next, p
  <2>2. /\ acc' = Entered(acc, p, top.depth + 1) /\ col' = MarkedToo(col, p)
        /\ log' = writecolor(log, col[p])
    BY <1>11, VisitIs
  <2>3. \A x \in Children(top.v) : IsPending(top, x) =>
          x = p \/ \E f \in T : f.v = top.v /\ IsPending(f, x)
    BY <1>6, <2>1
  <2>4. /\ g \in T /\ ToSet(stack) \subseteq {top} \cup T
        /\ \A f \in T : f = g \/ (f \in FrameShape /\ FrameOk(col, acc, f))
    BY <1>2, <1>5, <2>1
  <2>5. p # NoBlock /\ col[p] # Col_blue
    BY <1>4, <1>11
  <2> HIDE DEF T
  <2>6. /\ g \in FrameShape /\ WalkBase(col', acc') /\ Start \subseteq Blue(col')
        /\ \A f \in T : FrameOk(col', acc', f)
        /\ AllPending(col', T)
    BY <1>3, <2>2, <2>3, <2>4, <2>5, VisitStep DEF g, p
  <2>7. stack' \in Seq(FrameShape) /\ ToSet(stack') = T
    BY <1>2, <1>11, <2>1, <2>6, TwoOnTop DEF T
  <2> QED BY <1>10, <1>11, <2>2, <2>6, <2>7 DEF WalkOk
<1>12. CASE /\ top.i < Len(Fields(top.v)) /\ ~(IsBlock(f0) /\ due)
            /\ stack' = <<next>> \o rest /\ UNCHANGED <<acc, log, col>>
  <2> DEFINE T == {next} \cup ToSet(rest)
  <2>1. /\ next \in FrameShape /\ FrameOk(col, acc, next) /\ next.v = top.v
        /\ \A x \in Blocks : IsPending(top, x) => IsPending(next, x) \/ (x = p /\ IsBlock(f0))
    BY <1>2, <1>3, <1>12, OnToNext DEF next, p, f0
  <2>2. \A x \in Children(top.v) : IsPending(top, x) =>
          col[x] = Col_blue \/ \E f \in T : f.v = top.v /\ IsPending(f, x)
    <3> SUFFICES ASSUME NEW x \in Children(top.v), IsPending(top, x)
                 PROVE  col[x] = Col_blue \/ IsPending(next, x)
      BY <2>1
    <3>1. x \in Blocks /\ x # NoBlock
      BY <1>6, <1>9
    <3> QED BY <1>4, <1>12, <2>1, <3>1
  <2>3. ToSet(stack) \subseteq {top} \cup T /\ \A f \in T : FrameOk(col, acc, f)
    BY <1>2, <1>5, <2>1
  <2>4. stack' \in Seq(FrameShape) /\ ToSet(stack') = T
    BY <1>2, <1>12, <2>1, OneOnTop
  <2> HIDE DEF T
  <2>5. AllPending(col, T)
    BY <1>1, <2>2, <2>3, QuietStep
  <2>6. WalkOk(col, acc, stack')
    BY <1>1, <2>3, <2>4, <2>5 DEF WalkOk
  <2> QED BY <1>10, <1>12, <2>6
<1>13. CASE /\ top.i = Len(Fields(top.v)) /\ due
            /\ stack' = <<g>> \o rest /\ Visit(p, top.depth + 1)
  <2> DEFINE T == {g} \cup ToSet(rest)
  <2>1. /\ acc' = Entered(acc, p, top.depth + 1) /\ col' = MarkedToo(col, p)
        /\ log' = writecolor(log, col[p])
    BY <1>13, VisitIs
  <2>2. \A x \in Children(top.v) : IsPending(top, x) =>
          x = p \/ \E f \in T : f.v = top.v /\ IsPending(f, x)
    BY <1>8, <1>13
  <2>3. /\ g \in T /\ ToSet(stack) \subseteq {top} \cup T
        /\ \A f \in T : f = g \/ (f \in FrameShape /\ FrameOk(col, acc, f))
    BY <1>2, <1>5
  <2>4. p # NoBlock /\ col[p] # Col_blue
    BY <1>4, <1>13
  <2> HIDE DEF T
  <2>5. /\ g \in FrameShape /\ WalkBase(col', acc') /\ Start \subseteq Blue(col')
        /\ \A f \in T : FrameOk(col', acc', f)
        /\ AllPending(col', T)
    BY <1>3, <2>1, <2>2, <2>3, <2>4, VisitStep DEF g, p
  <2>6. stack' \in Seq(FrameShape) /\ ToSet(stack') = T
    BY <1>2, <1>13, <2>5, OneOnTop DEF T
  <2> QED BY <1>10, <1>13, <2>1, <2>5, <2>6 DEF WalkOk
<1>14. CASE /\ top.i = Len(Fields(top.v)) /\ ~due
            /\ stack' = rest /\ UNCHANGED <<acc, log, col>>
  <2>1. \A x \in Children(top.v) : IsPending(top, x) =>
          col[x] = Col_blue \/ \E f \in ToSet(rest) : f.v = top.v /\ IsPending(f, x)
    BY <1>4, <1>6, <1>8, <1>9, <1>14
  <2>2. AllPending(col, ToSet(rest))
    BY <1>1, <1>2, <2>1, QuietStep
  <2>3. \A f \in ToSet(rest) : FrameOk(col, acc, f)
    BY <1>5
  <2>4. WalkOk(col, acc, rest)
    BY <1>1, <1>2, <2>2, <2>3 DEF WalkOk
  <2> QED BY <1>10, <1>14, <2>4
<1> QED BY <1>7, <1>11, <1>12, <1>13, <1>14

-----------------------------------------------------------------------------
\* When no activation is left, what has been measured is what can be reached.
AnswerOk(a) ==
    /\ a.hdrs = Cardinality(Reachable)
    /\ a.data = Cardinality(Cells(Reachable))
    /\ Within[a.depth] = Reachable

LEMMA WalkedIsReachable ==
    ASSUME call \in Calls, NEW c, NEW a, WalkOk(c, a, <<>>)
    PROVE  Walked(c) = Reachable /\ AnswerOk(a)
<1>1. /\ Counted(c, a) /\ Excluded \subseteq Blue(c) /\ Start \subseteq Blue(c)
      /\ AllPending(c, {})
  BY EmptySet DEF WalkOk, WalkBase
<1>2. HeapSize \in Nat /\ a.depth \in 0 .. HeapSize /\ Reachable = Within[HeapSize]
  BY <1>1, DepthBounded DEF Reachable, HeapSize
<1> HIDE DEF HeapSize
<1>3. Walked(c) \subseteq Within[a.depth]
  BY <1>1 DEF Counted
<1>4. Within[a.depth] \subseteq Within[HeapSize]
  <2>1. HeapSize \in 0 .. HeapSize /\ a.depth <= HeapSize
    BY <1>2
  <2> QED BY <1>2, <2>1, WithinGrows
<1>5. Start \subseteq Walked(c)
  BY <1>1 DEF Start, Walked
<1>6. Near(Walked(c)) \subseteq Walked(c)
  <2>1. ASSUME NEW b \in Walked(c), NEW x \in Children(b), x \notin Excluded PROVE x \in Walked(c)
    <3>1. b \in Blocks
      BY DEF Walked, Blue
    <3>2. x \in Blocks
      BY <3>1, BlockOk
    <3>3. c[x] = Col_blue
      BY <1>1 DEF AllPending
    <3> QED BY <2>1, <3>2, <3>3 DEF Walked, Blue
  <2> QED BY <2>1 DEF Near
<1>7. Within[HeapSize] \subseteq Walked(c)
  <2>1. HeapSize \in 0 .. HeapSize
    BY <1>2
  <2> QED BY <1>2, <1>5, <1>6, <2>1, WithinClosed
<1>8. Walked(c) = Reachable /\ Within[a.depth] = Reachable
  BY <1>2, <1>3, <1>4, <1>7
<1>9. a.hdrs = Cardinality(Walked(c)) /\ a.data = Cardinality(Cells(Walked(c)))
  BY <1>1 DEF Counted
<1> QED BY <1>8, <1>9 DEF AnswerOk

\* A first visit, or none when the value is no block or is excluded.
LEMMA FirstVisit ==
    ASSUME call \in Calls, NEW c, NEW a, WalkBase(c, a), Walked(c) = {}, a.hdrs = 0,
           call.v \in Blocks, c[call.v] # Col_blue
    PROVE  WalkOk(MarkedToo(c, call.v), Entered(a, call.v, 0), <<Frame(call.v, 0)>>)
<1> DEFINE d == MarkedToo(c, call.v)
           e == Entered(a, call.v, 0)
           f == Frame(call.v, 0)
<1>1. HeapSize \in Nat /\ NoBlock \notin Blocks
  BY HeapOk
<1>2. call.v \notin Excluded
  BY DEF WalkBase, Blue
<1>3. Within[0] = Start
  BY <1>1, WithinIs
<1>4. call.v \in Within[0]
  BY <1>1, <1>2, <1>3 DEF Start
<1>5. /\ WalkBase(d, e) /\ Walked(d) = {call.v} /\ Blue(d) = Blue(c) \cup {call.v}
      /\ 0 <= e.depth
  <2>1. MayVisit(c, a, call.v, 0)
    BY <1>4 DEF MayVisit
  <2>2. Visited(d, e, c, a, call.v, 0)
    BY <2>1, VisitCounts
  <2> HIDE DEF d, e
  <2> QED BY <2>2 DEF Visited
<1> HIDE DEF d, e
<1>6. /\ f \in FrameShape /\ f.v = call.v /\ FrameOk(d, e, f)
      /\ \A x \in Children(call.v) : IsPending(f, x)
  <2>1. EntersAt(d, e, call.v, 0)
    BY <1>4, <1>5 DEF EntersAt
  <2> QED BY <2>1, NewFrame
<1> HIDE DEF f
<1>7. <<f>> \in Seq(FrameShape) /\ ToSet(<<f>>) = {f}
  BY <1>6 DEF ToSet
<1>8. AllPending(d, {f})
  BY <1>5, <1>6 DEF AllPending
<1>9. Start \subseteq Blue(d)
  BY <1>5 DEF Start
<1> QED BY <1>5, <1>6, <1>7, <1>8, <1>9 DEF WalkOk, d, e, f

LEMMA NoVisit ==
    ASSUME call \in Calls, NEW c, NEW a, WalkBase(c, a), Walked(c) = {},
           call.v = NoBlock \/ c[call.v] = Col_blue
    PROVE  WalkOk(c, a, <<>>)
<1>1. Start \subseteq Blue(c)
  BY HeapOk DEF Start, Blue
<1>2. AllPending(c, {})
  BY DEF AllPending
<1>3. <<>> \in Seq(FrameShape)
  OBVIOUS
<1> QED BY <1>1, <1>2, <1>3, EmptySet DEF WalkOk

-----------------------------------------------------------------------------
\* c_objsize, phase by phase: only excluded blocks are marked, and those of the scan
\* list that has been gone through; the walk; what it measured is marked, and of the
\* excluded blocks at most those that are left; the answer about the reach list.
ScanInv ==
    /\ DOMAIN col = Blocks /\ Blue(col) \subseteq Excluded
    /\ head \in Seq(Blocks) /\ ToSet(head) \subseteq Excluded
    /\ Excluded \subseteq Blue(col) \cup ToSet(head)
    /\ acc = [hdrs |-> 0, data |-> 0, depth |-> 0] /\ stack = <<>>

UnscanInv ==
    /\ DOMAIN col = Blocks /\ Walked(col) = Reachable
    /\ head \in Seq(Blocks) /\ ToSet(head) \subseteq Excluded
    /\ Blue(col) \cap Excluded \subseteq ToSet(head)
    /\ AnswerOk(acc)

ReachInv == reached <=> ToSet(call.reach) \cap Reachable # {}

SizeInv ==
    /\ call \in Calls
    /\ \/ phase = "scan" /\ ScanInv /\ NeverBlue(log)
       \/ phase = "measure" /\ WalkOk(col, acc, stack) /\ NeverBlue(log)
       \/ phase = "unscan" /\ UnscanInv /\ NeverBlue(log)
       \/ phase \in {"restore", "done"} /\ ReachInv

LEMMA SizeInitOk == SizeInit => SizeInv
<1> SUFFICES ASSUME SizeInit PROVE SizeInv
  OBVIOUS
<1>1. /\ call \in Calls /\ phase = "scan" /\ head = call.scan /\ log = NewLog /\ stack = <<>>
      /\ acc = [hdrs |-> 0, data |-> 0, depth |-> 0]
  BY DEF SizeInit
<1>2. col = [b \in Blocks |-> call.heap[b].color]
  BY DEF SizeInit, Blocks
<1>3. \A b \in Blocks : col[b] # Col_blue
  <2>1. \A b \in Blocks : call.heap[b].color \in {Col_white, Col_gray, Col_black}
    BY <1>1, CallsAssumption DEF Blocks
  <2>2. Col_blue \notin {Col_white, Col_gray, Col_black}
    BY DEF Col_blue, Col_white, Col_gray, Col_black
  <2> QED BY <1>2, <2>1, <2>2
<1>4. DOMAIN col = Blocks /\ Blue(col) = {}
  BY <1>2, <1>3 DEF Blue
<1>5. head \in Seq(Blocks) /\ ToSet(head) = Excluded
  BY <1>1, HeapOk DEF Excluded
<1>6. NeverBlue(log)
  BY <1>1 DEF NeverBlue, NewLog, Col_white, Col_blue
<1> QED BY <1>1, <1>4, <1>5, <1>6 DEF SizeInv, ScanInv

\* The marks left of the scan list when its loop has ended.
LEMMA NothingMeasured ==
    ASSUME call \in Calls, ScanInv, head = <<>>
    PROVE  WalkBase(col, acc) /\ Walked(col) = {} /\ acc.hdrs = 0
<1>1. /\ DOMAIN col = Blocks /\ Excluded \subseteq Blue(col) /\ Walked(col) = {}
      /\ acc = [hdrs |-> 0, data |-> 0, depth |-> 0]
  BY EmptySet DEF ScanInv, Walked
<1>2. Cells({}) = {}
  BY DEF Cells
<1>3. IsFiniteSet({}) /\ Cardinality({}) = 0
  BY FS_EmptySet
<1>4. Counted(col, acc)
  BY <1>1, <1>2, <1>3 DEF Counted, Answers
<1> QED BY <1>1, <1>4 DEF WalkBase

LEMMA SameWalk ==
    ASSUME UNCHANGED call, WalkOk(col', acc', stack')
    PROVE  WalkOk(col, acc, stack)'
<1>1. WalkBase(col, acc)' = WalkBase(col', acc')
  BY SameHeap DEF WalkBase, Counted, Cells, Walked, Blue, Fields, Answers
<1>2. (Start \subseteq Blue(col))' = (Start \subseteq Blue(col'))
  BY SameHeap DEF Blue
<1>3. (stack \in Seq(FrameShape))' = (stack' \in Seq(FrameShape))
  BY SameHeap DEF FrameShape
<1>4. (\A f \in ToSet(stack) : FrameOk(col, acc, f))' = \A f \in ToSet(stack') : FrameOk(col', acc', f)
  BY SameHeap DEF FrameOk, Walked, Blue, Fields, Opaque
<1>5. AllPending(col, ToSet(stack))' = AllPending(col', ToSet(stack'))
  BY SameHeap DEF AllPending, IsPending, Walked, Blue, Fields
<1> QED BY <1>1, <1>2, <1>3, <1>4, <1>5 DEF WalkOk

LEMMA SameScan ==
    ASSUME UNCHANGED call, DOMAIN col' = Blocks, Blue(col') \subseteq Excluded,
           head' \in Seq(Blocks), ToSet(head') \subseteq Excluded,
           Excluded \subseteq Blue(col') \cup ToSet(head'), UNCHANGED <<acc, stack>>, ScanInv
    PROVE  ScanInv'
BY SameHeap DEF ScanInv, Blue, Blocks, Excluded

LEMMA SameUnscan ==
    ASSUME UNCHANGED call, DOMAIN col' = Blocks, Walked(col') = Reachable,
           head' \in Seq(Blocks), ToSet(head') \subseteq Excluded,
           Blue(col') \cap Excluded \subseteq ToSet(head'), AnswerOk(acc')
    PROVE  UnscanInv'
BY SameHeap DEF UnscanInv, Walked, Blue, Blocks, Excluded, AnswerOk, Reachable, Cells, Fields, HeapSize

LEMMA SameReach == ASSUME UNCHANGED <<call, reached>>, ReachInv PROVE ReachInv'
BY SameHeap DEF ReachInv, Reachable, Blocks

-----------------------------------------------------------------------------
LEMMA MarkIs ==
    ASSUME NEW b \in Blocks, MarkBlock(b), DOMAIN col = Blocks
    PROVE  /\ col' = MarkedToo(col, b) /\ log' = writecolor(log, col[b])
           /\ DOMAIN col' = Blocks /\ Blue(col') = Blue(col) \cup {b}
BY DEF MarkBlock, MarkedToo, Blue

\* A colour read back is no mark: the block is not marked any more.
LEMMA RestoreIs ==
    ASSUME NEW b \in Blocks, RestoreBlock(b), DOMAIN col = Blocks, NeverBlue(log)
    PROVE  DOMAIN col' = Blocks /\ Blue(col') = Blue(col) \ {b} /\ NeverBlue(log')
<1>1. NeverBlue(log') /\ col' = [col EXCEPT ![b] = readcolor(log).color]
      /\ readcolor(log).color # Col_blue
  BY ReadNeverBlue DEF RestoreBlock
<1> QED BY <1>1 DEF Blue

LEMMA ExcludeKeeps == ASSUME SizeInv, ExcludeNext PROVE SizeInv'
<1> DEFINE b == Head(head)
<1>1. call \in Calls /\ phase = "scan" /\ ScanInv /\ NeverBlue(log)
  BY DEF SizeInv, ExcludeNext
<1>2. /\ head # <<>> /\ head' = Tail(head) /\ UNCHANGED <<call, phase, acc, stack>>
      /\ IF Marked(b) THEN UNCHANGED <<col, log>> ELSE MarkBlock(b)
  BY DEF ExcludeNext
<1>3. head \in Seq(Blocks) /\ DOMAIN col = Blocks
  BY <1>1 DEF ScanInv
<1>4. b \in Blocks /\ head' \in Seq(Blocks) /\ ToSet(head) = {b} \cup ToSet(head')
  BY <1>2, <1>3, HeadAndRest
<1>5. b \in Excluded
  BY <1>1, <1>4 DEF ScanInv
<1> HIDE DEF b
<1>6. DOMAIN col' = Blocks /\ Blue(col') = Blue(col) \cup {b} /\ NeverBlue(log')
  <2>1. CASE Marked(b)
    BY <1>1, <1>2, <1>3, <1>4, <2>1 DEF Marked, Blue
  <2>2. CASE ~Marked(b)
    BY <1>1, <1>2, <1>3, <1>4, <2>2, MarkIs, WriteNeverBlue DEF Marked
  <2> QED BY <2>1, <2>2
<1>7. ScanInv'
  BY <1>1, <1>2, <1>4, <1>5, <1>6, SameScan DEF ScanInv
<1> QED BY <1>1, <1>2, <1>6, <1>7 DEF SizeInv, NeverBlue

LEMMA StartKeeps == ASSUME SizeInv, StartMeasure PROVE SizeInv'
<1>1. call \in Calls /\ phase = "scan" /\ ScanInv /\ NeverBlue(log)
  BY DEF SizeInv, StartMeasure
<1>2. /\ head = <<>> /\ phase' = "measure" /\ UNCHANGED call
      /\ IF IsBlock(call.v) /\ ~Marked(call.v)
         THEN stack' = <<Frame(call.v, 0)>> /\ EnterBlock(call.v, 0)
         ELSE UNCHANGED <<stack, acc, log, col>>
  BY DEF StartMeasure
<1>3. WalkBase(col, acc) /\ Walked(col) = {} /\ acc.hdrs = 0 /\ stack = <<>> /\ DOMAIN col = Blocks
  BY <1>1, <1>2, NothingMeasured DEF ScanInv
<1>4. CASE IsBlock(call.v) /\ ~Marked(call.v)
  <2>1. call.v \in Blocks /\ col[call.v] # Col_blue
    BY <1>1, <1>4, HeapOk DEF IsBlock, Marked
  <2>2. /\ acc' = Entered(acc, call.v, 0) /\ col' = MarkedToo(col, call.v)
        /\ log' = writecolor(log, col[call.v]) /\ stack' = <<Frame(call.v, 0)>>
    BY <1>2, <1>4 DEF EnterBlock, MarkBlock, Entered, MarkedToo
  <2>3. WalkOk(col', acc', stack') /\ NeverBlue(log')
    BY <1>1, <1>3, <2>1, <2>2, FirstVisit, WriteNeverBlue
  <2>4. WalkOk(col, acc, stack)'
    BY <1>2, <2>3, SameWalk
  <2> QED BY <1>1, <1>2, <2>3, <2>4 DEF SizeInv, NeverBlue
<1>5. CASE ~(IsBlock(call.v) /\ ~Marked(call.v))
  <2>1. WalkOk(col', acc', stack') /\ NeverBlue(log')
    BY <1>1, <1>2, <1>3, <1>5, NoVisit DEF IsBlock, Marked
  <2>2. WalkOk(col, acc, stack)'
    BY <1>2, <2>1, SameWalk
  <2> QED BY <1>1, <1>2, <2>1, <2>2 DEF SizeInv, NeverBlue
<1> QED BY <1>4, <1>5

LEMMA MeasureKeeps == ASSUME SizeInv, Measure PROVE SizeInv'
<1>1. call \in Calls /\ phase = "measure" /\ WalkOk(col, acc, stack) /\ NeverBlue(log)
  BY DEF SizeInv, Measure
<1>2. stack # <<>> /\ RecWalk /\ UNCHANGED <<call, phase>>
  BY DEF Measure
<1>3. WalkOk(col', acc', stack') /\ NeverBlue(log')
  BY <1>1, <1>2, WalkStep
<1>4. WalkOk(col, acc, stack)'
  BY <1>2, <1>3, SameWalk
<1> QED BY <1>1, <1>2, <1>3, <1>4 DEF SizeInv, NeverBlue

LEMMA FlushKeeps == ASSUME SizeInv, FlushLog PROVE SizeInv'
<1>1. call \in Calls /\ phase = "measure" /\ WalkOk(col, acc, stack) /\ NeverBlue(log)
  BY DEF SizeInv, FlushLog
<1>2. /\ stack = <<>> /\ phase' = "unscan" /\ head' = call.scan /\ UNCHANGED <<call, col, acc>>
      /\ log' = rle_init(rle_write_flush(log))
  BY DEF FlushLog
<1>3. NeverBlue(log')
  BY <1>1, <1>2, InitNeverBlue DEF NeverBlue
<1>4. WalkOk(col, acc, <<>>)
  BY <1>1, <1>2
<1>5. Walked(col') = Reachable /\ AnswerOk(acc')
  BY <1>1, <1>2, <1>4, WalkedIsReachable
<1>6. DOMAIN col' = Blocks
  BY <1>2, <1>4 DEF WalkOk, WalkBase
<1>7. head' \in Seq(Blocks) /\ ToSet(head') = Excluded
  BY <1>1, <1>2, HeapOk DEF Excluded
<1>8. UnscanInv'
  BY <1>2, <1>5, <1>6, <1>7, SameUnscan
<1> QED BY <1>1, <1>2, <1>3, <1>8 DEF SizeInv, NeverBlue

LEMMA IncludeKeeps == ASSUME SizeInv, IncludeNext PROVE SizeInv'
<1> DEFINE b == Head(head)
<1>1. call \in Calls /\ phase = "unscan" /\ UnscanInv /\ NeverBlue(log)
  BY DEF SizeInv, IncludeNext
<1>2. /\ head # <<>> /\ head' = Tail(head) /\ UNCHANGED <<call, phase, acc>>
      /\ IF Marked(b) THEN RestoreBlock(b) ELSE UNCHANGED <<col, log>>
  BY DEF IncludeNext
<1>3. head \in Seq(Blocks) /\ DOMAIN col = Blocks
  BY <1>1 DEF UnscanInv
<1>4. b \in Blocks /\ head' \in Seq(Blocks) /\ ToSet(head) = {b} \cup ToSet(head')
  BY <1>2, <1>3, HeadAndRest
<1>5. b \in Excluded
  BY <1>1, <1>4 DEF UnscanInv
<1> HIDE DEF b
<1>6. DOMAIN col' = Blocks /\ Blue(col') = Blue(col) \ {b} /\ NeverBlue(log')
  <2>1. CASE Marked(b)
    BY <1>1, <1>2, <1>3, <1>4, <2>1, RestoreIs
  <2>2. CASE ~Marked(b)
    BY <1>1, <1>2, <1>3, <1>4, <2>2 DEF Marked, Blue
  <2> QED BY <2>1, <2>2
<1>7. Walked(col') = Walked(col) /\ Blue(col') \cap Excluded \subseteq ToSet(head')
  BY <1>1, <1>4, <1>5, <1>6 DEF Walked, UnscanInv
<1>8. UnscanInv'
  BY <1>1, <1>2, <1>4, <1>6, <1>7, SameUnscan DEF UnscanInv
<1> QED BY <1>1, <1>2, <1>6, <1>8 DEF SizeInv, NeverBlue

LEMMA AnswerKeeps == ASSUME SizeInv, StartRestore PROVE SizeInv'
<1>1. call \in Calls /\ phase = "unscan" /\ UnscanInv
  BY DEF SizeInv, StartRestore
<1>2. /\ head = <<>> /\ phase' = "restore" /\ UNCHANGED call
      /\ reached' = \E i \in DOMAIN call.reach : Marked(call.reach[i])
  BY DEF StartRestore
<1>3. Blue(col) = Reachable
  BY <1>1, <1>2, EmptySet DEF UnscanInv, Walked
<1>4. \A i \in DOMAIN call.reach : call.reach[i] \in Blocks
  BY <1>1, HeapOk
<1>5. reached' <=> ToSet(call.reach) \cap Reachable # {}
  BY <1>2, <1>3, <1>4 DEF Marked, Blue, ToSet
<1>6. ReachInv'
  BY <1>2, <1>5, SameHeap DEF ReachInv, Reachable, Blocks
<1> QED BY <1>1, <1>2, <1>6 DEF SizeInv

LEMMA SizeStep == SizeInv /\ [SizeNext]_sizeVars => SizeInv'
<1> SUFFICES ASSUME SizeInv, [SizeNext]_sizeVars PROVE SizeInv'
  OBVIOUS
<1>1. CASE Restore
  BY <1>1, SameReach DEF SizeInv, Restore
<1>2. CASE Finish
  BY <1>2, SameReach DEF SizeInv, Finish
<1>3. CASE UNCHANGED sizeVars
  <2>1. UNCHANGED <<call, phase, head, col, log, stack, acc, reached>>
    BY <1>3 DEF sizeVars
  <2>2. ScanInv => ScanInv'
    BY <2>1, SameScan DEF ScanInv
  <2>3. UnscanInv => UnscanInv'
    BY <2>1, SameUnscan DEF UnscanInv
  <2>4. WalkOk(col, acc, stack) => WalkOk(col, acc, stack)'
    BY <2>1, SameWalk
  <2>5. ReachInv => ReachInv'
    BY <2>1, SameReach
  <2> QED BY <2>1, <2>2, <2>3, <2>4, <2>5 DEF SizeInv, NeverBlue
<1> QED BY <1>1, <1>2, <1>3, ExcludeKeeps, StartKeeps, MeasureKeeps, FlushKeeps, IncludeKeeps,
        AnswerKeeps DEF SizeNext

\* The answer of c_objsize is that of the heap as a graph, for every heap, every
\* scan and reach list and every width of the log's repeats.
THEOREM MeasuresAreReachable == SizeSpec => []MeasuresReachable
<1>1. SizeInv => MeasuresReachable
  BY DEF SizeInv, UnscanInv, ReachInv, AnswerOk, MeasuresReachable, Cells
<1> QED BY <1>1, SizeInitOk, SizeStep, PTL DEF SizeSpec

-----------------------------------------------------------------------------
\* The child an activation keeps for later is among the fields it has passed, so in
\* a block with one child no call is made before the last field.
OneChild(b) == Cardinality({i \in DOMAIN Fields(b) : IsBlock(Fields(b)[i])}) <= 1

PassedOk(f) ==
    /\ f.i <= Len(Fields(f.v))
    /\ f.prev # NoBlock => \E j \in 1 .. f.i : f.prev = Fields(f.v)[j]

ListInv ==
    /\ call \in Calls
    /\ stack \in Seq(FrameShape)
    /\ \A f \in ToSet(stack) : PassedOk(f)
    /\ (\A b \in Blocks : OneChild(b)) => Len(stack) <= 1

LEMMA TwoChildren ==
    ASSUME call \in Calls, NEW b \in Blocks, NEW i \in 1 .. Len(Fields(b)),
           NEW j \in 1 .. Len(Fields(b)), i # j, IsBlock(Fields(b)[i]), IsBlock(Fields(b)[j])
    PROVE  ~OneChild(b)
<1> DEFINE S == {k \in DOMAIN Fields(b) : IsBlock(Fields(b)[k])}
<1>1. Len(Fields(b)) \in Nat /\ DOMAIN Fields(b) = 1 .. Len(Fields(b))
  BY BlockOk
<1>2. {i, j} \subseteq S /\ S \subseteq 1 .. Len(Fields(b))
  BY <1>1
<1>3. IsFiniteSet(1 .. Len(Fields(b)))
  BY <1>1, FS_Interval
<1> HIDE DEF S
<1>4. IsFiniteSet(S)
  BY <1>2, <1>3, FS_Subset
<1>5. Cardinality({i, j}) = 2
  <2>1. IsFiniteSet({i}) /\ Cardinality({i}) = 1
    BY FS_Singleton
  <2>2. Cardinality({i} \cup {j}) = Cardinality({i}) + 1
    BY <2>1, FS_AddElement
  <2>3. {i} \cup {j} = {i, j}
    OBVIOUS
  <2> QED BY <2>1, <2>2, <2>3
<1>6. Cardinality({i, j}) <= Cardinality(S) /\ Cardinality(S) \in Nat
  BY <1>2, <1>4, FS_Subset, FS_CardinalityType
<1> QED BY <1>5, <1>6 DEF OneChild, S

\* The activation that enters a block has passed none of its fields, or all.
LEMMA EnteredFrame ==
    ASSUME call \in Calls, NEW b \in Blocks, NEW n \in Nat
    PROVE  Frame(b, n) \in FrameShape /\ PassedOk(Frame(b, n))
<1>1. Len(Fields(b)) \in Nat /\ Opaque(b) \in BOOLEAN
  BY BlockOk
<1>2. /\ Frame(b, n) \in FrameShape /\ Frame(b, n).v = b /\ Frame(b, n).prev = NoBlock
      /\ Frame(b, n).i = IF Opaque(b) THEN Len(Fields(b)) ELSE 0
  BY <1>1 DEF Frame, FrameShape
<1> QED BY <1>1, <1>2 DEF PassedOk

LEMMA PassedNext ==
    ASSUME call \in Calls, NEW f \in FrameShape, PassedOk(f), f.i < Len(Fields(f.v))
    PROVE  NextFrame(f) \in FrameShape /\ PassedOk(NextFrame(f))
<1> DEFINE g == Fields(f.v)[f.i + 1]
           h == NextFrame(f)
           L == Len(Fields(f.v))
<1>1. f.v \in Blocks /\ f.i \in Nat /\ f.prev \in Blocks \cup {NoBlock}
  BY DEF FrameShape
<1>2. L \in Nat
  BY <1>1, BlockOk
<1>3. f.i + 1 \in 1 .. L /\ f.i + 1 <= L /\ f.i + 1 \in Nat
  BY <1>1, <1>2
<1>4. g \in Blocks \cup {NoBlock}
  BY <1>1, <1>3, BlockOk
<1>5. /\ h.v = f.v /\ h.i = f.i + 1 /\ h.prev = (IF IsBlock(g) THEN g ELSE f.prev)
      /\ h \in FrameShape
  <2> HIDE DEF g
  <2>1. h = [f EXCEPT !.i = @ + 1, !.prev = IF IsBlock(g) THEN g ELSE @]
    BY DEF NextFrame, g
  <2>2. (IF IsBlock(g) THEN g ELSE f.prev) \in Blocks \cup {NoBlock}
    BY <1>1, <1>4
  <2> HIDE DEF h
  <2> QED BY <1>3, <2>1, <2>2 DEF FrameShape
<1>6. f.i + 1 \in 1 .. f.i + 1 /\ 1 .. f.i \subseteq 1 .. f.i + 1
  BY <1>1
<1>7. f.prev # NoBlock => \E j \in 1 .. f.i : f.prev = Fields(f.v)[j]
  BY DEF PassedOk
<1>8. IsBlock(g) => g = Fields(f.v)[f.i + 1]
  OBVIOUS
<1> HIDE DEF g, h
<1>9. h.prev # NoBlock => \E j \in 1 .. h.i : h.prev = Fields(h.v)[j]
  BY <1>5, <1>6, <1>7, <1>8
<1> QED BY <1>3, <1>5, <1>9 DEF PassedOk, h

LEMMA WalkKeepsList ==
    ASSUME ListInv, stack # <<>>, RecWalk
    PROVE  /\ stack' \in Seq(FrameShape)
           /\ \A f \in ToSet(stack') : PassedOk(f)
           /\ (\A b \in Blocks : OneChild(b)) => Len(stack') <= 1
<1> DEFINE top == Head(stack)
           rest == Tail(stack)
           p == top.prev
           due == p # NoBlock /\ Due(p)
           next == NextFrame(top)
           g == Frame(p, top.depth + 1)
           f0 == Fields(top.v)[top.i + 1]
<1>1. /\ call \in Calls /\ stack \in Seq(FrameShape) /\ \A f \in ToSet(stack) : PassedOk(f)
      /\ (\A b \in Blocks : OneChild(b)) => Len(stack) <= 1
  BY DEF ListInv
<1>2. top \in FrameShape /\ rest \in Seq(FrameShape) /\ ToSet(stack) = {top} \cup ToSet(rest)
  BY <1>1, HeadAndRest
<1>3. PassedOk(top) /\ \A f \in ToSet(rest) : PassedOk(f)
  BY <1>1, <1>2
<1>4. /\ top.v \in Blocks /\ Len(Fields(top.v)) \in Nat /\ top.i \in Nat /\ top.depth + 1 \in Nat
      /\ p \in Blocks \cup {NoBlock}
  BY <1>1, <1>2, BlockOk DEF FrameShape
<1>5. Len(rest) \in Nat /\ Len(stack) = Len(rest) + 1
  BY <1>1
<1>6. \/ /\ top.i < Len(Fields(top.v)) /\ IsBlock(f0) /\ due
         /\ stack' = <<g, next>> \o rest
      \/ /\ top.i < Len(Fields(top.v)) /\ stack' = <<next>> \o rest
      \/ /\ due /\ stack' = <<g>> \o rest
      \/ stack' = rest
  BY DEF RecWalk, NextFrame
<1>7. due => g \in FrameShape /\ PassedOk(g)
  BY <1>1, <1>4, EnteredFrame
<1>8. top.i < Len(Fields(top.v)) => next \in FrameShape /\ PassedOk(next)
  BY <1>1, <1>2, <1>3, PassedNext
<1>9. top.i < Len(Fields(top.v)) /\ IsBlock(f0) /\ due => ~OneChild(top.v)
  <2> SUFFICES ASSUME top.i < Len(Fields(top.v)), IsBlock(f0), due PROVE ~OneChild(top.v)
    OBVIOUS
  <2>1. PICK j \in 1 .. top.i : p = Fields(top.v)[j]
    BY <1>3 DEF PassedOk
  <2>2. j \in 1 .. Len(Fields(top.v)) /\ top.i + 1 \in 1 .. Len(Fields(top.v)) /\ j # top.i + 1
    BY <1>4
  <2>3. IsBlock(Fields(top.v)[j])
    BY <2>1 DEF IsBlock
  <2> QED BY <1>1, <1>4, <2>2, <2>3, TwoChildren
<1> HIDE DEF top, rest, p, due, next, g, f0
<1>10. CASE /\ top.i < Len(Fields(top.v)) /\ IsBlock(f0) /\ due
            /\ stack' = <<g, next>> \o rest
  BY <1>2, <1>3, <1>4, <1>7, <1>8, <1>9, <1>10, TwoOnTop
<1>11. CASE top.i < Len(Fields(top.v)) /\ stack' = <<next>> \o rest
  <2>1. Len(stack') = Len(stack)
    BY <1>2, <1>5, <1>8, <1>11
  <2> QED BY <1>1, <1>2, <1>3, <1>8, <1>11, <2>1, OneOnTop
<1>12. CASE due /\ stack' = <<g>> \o rest
  <2>1. Len(stack') = Len(stack)
    BY <1>2, <1>5, <1>7, <1>12
  <2> QED BY <1>1, <1>2, <1>3, <1>7, <1>12, <2>1, OneOnTop
<1>13. CASE stack' = rest
  <2>1. Len(stack) <= 1 => Len(stack') <= 1
    BY <1>5, <1>13
  <2> QED BY <1>1, <1>2, <1>3, <1>13, <2>1
<1> QED BY <1>6, <1>10, <1>11, <1>12, <1>13

LEMMA SameList ==
    ASSUME UNCHANGED call, call \in Calls, stack' \in Seq(FrameShape),
           \A f \in ToSet(stack') : PassedOk(f),
           (\A b \in Blocks : OneChild(b)) => Len(stack') <= 1
    PROVE  ListInv'
BY DEF ListInv, FrameShape, Blocks, PassedOk, OneChild, Fields

LEMMA ListStart ==
    ASSUME call \in Calls, UNCHANGED call, call.v \in Blocks, stack' = <<Frame(call.v, 0)>>
    PROVE  ListInv'
<1>1. Frame(call.v, 0) \in FrameShape /\ PassedOk(Frame(call.v, 0))
  BY EnteredFrame
<1>2. stack' \in Seq(FrameShape) /\ ToSet(stack') = {Frame(call.v, 0)} /\ Len(stack') <= 1
  BY <1>1 DEF ToSet
<1> QED BY <1>1, <1>2, SameList

LEMMA ListStep == ListInv /\ [SizeNext]_sizeVars => ListInv'
<1> SUFFICES ASSUME ListInv, [SizeNext]_sizeVars PROVE ListInv'
  OBVIOUS
<1>1. call \in Calls
  BY DEF ListInv
<1>2. CASE UNCHANGED <<call, stack>>
  BY <1>2, SameList DEF ListInv
<1>3. CASE StartMeasure \/ StartRestore
  <2>1. UNCHANGED call /\ \/ UNCHANGED stack
                          \/ IsBlock(call.v) /\ stack' = <<Frame(call.v, 0)>>
    BY <1>3 DEF StartMeasure, StartRestore
  <2>2. IsBlock(call.v) => call.v \in Blocks
    BY <1>1, HeapOk DEF IsBlock
  <2> QED BY <1>1, <1>2, <2>1, <2>2, ListStart
<1>4. CASE Measure \/ Restore
  <2>1. stack # <<>> /\ RecWalk /\ UNCHANGED call
    BY <1>4 DEF Measure, Restore
  <2> QED BY <1>1, <2>1, WalkKeepsList, SameList
<1>5. CASE ExcludeNext \/ FlushLog \/ IncludeNext \/ Finish \/ UNCHANGED sizeVars
  <2>1. UNCHANGED <<call, stack>>
    BY <1>5 DEF ExcludeNext, FlushLog, IncludeNext, Finish, sizeVars
  <2> QED BY <1>2, <2>1
<1> QED BY <1>3, <1>4, <1>5 DEF SizeNext

\* The optimization for lists, for every heap in which no block has two children.
THEOREM ListsWalkInPlace == SizeSpec => []ListsInConstantStack
<1>1. SizeInit => ListInv
  BY EmptySet DEF SizeInit, ListInv
<1>2. ListInv => ListsInConstantStack
  BY DEF ListInv, ListsInConstantStack, OneChild
<1> QED BY <1>1, <1>2, ListStep, PTL DEF SizeSpec

=============================================================================

------------------------------- MODULE ThreadProofs ------------------------
(***************************************************************************)
(* Proofs about sys.thread, for any clients, threads, workers and tasks.   *)
(* FixedThreadPool: no task is lost or run twice, and what was submitted   *)
(* before a shutdown began is ahead of every task that ends a worker.      *)
(* Locks: with one waiting thread the C# and the Java lock do what Lock    *)
(* promises, and no wait returns true without a release of its own.        *)
(***************************************************************************)
EXTENDS FixedThreadPool, Integers, SequenceTheorems, FiniteSetTheorems, TLAPS

CONSTANTS Threads, MaxWaits, MaxReleases    \* of Locks

VARIABLES   \* of Locks
    use, waitCount, releaseCount, releaseEvent, myTicket, releasedCount, waits,
    pc, timed, released, passed

L == INSTANCE Locks

-----------------------------------------------------------------------------
(* FixedThreadPool: where a task is.                                       *)

Queued(t) == \E i \in 1 .. Len(queue) : queue[i] = t
Begun(t) == \E i \in 1 .. Len(executed) : executed[i] = t
Carried(t) == \E c \in Clients : task[c] = t

QueuedOnce ==
  \A i, j \in 1 .. Len(queue) : queue[i] = queue[j] /\ queue[i] # Pill => i = j
BegunOnce == \A i, j \in 1 .. Len(executed) : executed[i] = executed[j] => i = j
CarriedOnce == \A c, d \in Clients : task[c] = task[d] /\ task[c] # None => c = d

(* A task is in one place and there once.                                  *)
OnePlace ==
  \A t \in Tasks :
    /\ t \in submitted <=> Queued(t) \/ Begun(t) \/ Carried(t)
    /\ ~(Queued(t) /\ Begun(t)) /\ ~(Queued(t) /\ Carried(t)) /\ ~(Begun(t) /\ Carried(t))

PlaceInv == OnePlace /\ QueuedOnce /\ BegunOnce /\ CarriedOnce

-----------------------------------------------------------------------------
(* Sequences.                                                              *)
LEMMA Appended ==
  ASSUME NEW S, NEW seq \in Seq(S), NEW x \in S
  PROVE  /\ Append(seq, x) \in Seq(S)
         /\ Len(seq) \in Nat /\ Len(Append(seq, x)) = Len(seq) + 1
         /\ \A i \in 1 .. Len(seq) : Append(seq, x)[i] = seq[i]
         /\ Append(seq, x)[Len(seq) + 1] = x
         /\ \A i \in 1 .. Len(seq) + 1 : i \in 1 .. Len(seq) \/ i = Len(seq) + 1
         /\ \A i \in 1 .. Len(seq) : i \in 1 .. Len(seq) + 1 /\ i # Len(seq) + 1
         /\ Len(seq) + 1 \in 1 .. Len(seq) + 1
  OBVIOUS

LEMMA TakenOut ==
  ASSUME NEW S, NEW seq \in Seq(S), seq # << >>
  PROVE  /\ Tail(seq) \in Seq(S) /\ Head(seq) \in S /\ Head(seq) = seq[1]
         /\ 1 \in 1 .. Len(seq)
         /\ \A i \in 1 .. Len(Tail(seq)) : /\ Tail(seq)[i] = seq[i + 1]
                                          /\ i + 1 \in 1 .. Len(seq) /\ i + 1 # 1
         /\ \A i \in 1 .. Len(seq) :
              i # 1 => /\ i - 1 \in 1 .. Len(Tail(seq)) /\ seq[i] = Tail(seq)[i - 1]
  <1>1. Len(seq) \in Nat \ {0}
    BY EmptySeq
  <1>2. /\ Head(seq) \in S /\ Tail(seq) \in Seq(S) /\ Len(Tail(seq)) = Len(seq) - 1
        /\ \A i \in 1 .. Len(Tail(seq)) : Tail(seq)[i] = seq[i + 1]
    BY HeadTailProperties
  <1>3. Head(seq) = seq[1]
    OBVIOUS
  <1>4. 1 \in 1 .. Len(seq)
    BY <1>1
  <1>5. ASSUME NEW i \in 1 .. Len(Tail(seq))
        PROVE  i + 1 \in 1 .. Len(seq) /\ i + 1 # 1
    BY <1>1, <1>2
  <1>6. ASSUME NEW i \in 1 .. Len(seq), i # 1
        PROVE  i - 1 \in 1 .. Len(Tail(seq)) /\ i - 1 + 1 = i
    BY <1>1, <1>2, <1>6
  <1> QED BY <1>2, <1>3, <1>4, <1>5, <1>6

-----------------------------------------------------------------------------
LEMMA TypeStep ==
  ASSUME TypeOK, OnePlace, [Next]_vars
  PROVE  TypeOK'
  <1>1. CASE UNCHANGED vars
    BY <1>1 DEF TypeOK, vars, calls
  <1>2. ASSUME NEW c \in Clients, NEW t \in Tasks, CallRun(c, t)
        PROVE  TypeOK'
    BY <1>2, PoolAssumption DEF TypeOK, CallRun
  <1>3. ASSUME NEW c \in Clients, AddTask(c)
        PROVE  TypeOK'
    <2>1. task[c] \in Tasks
      BY <1>3 DEF TypeOK, AddTask
    <2>2. queue' \in Seq(Tasks \cup {Pill})
      BY <1>3, <2>1, Appended DEF TypeOK, AddTask
    <2>3. task[c] \in submitted
      BY <2>1 DEF OnePlace, Carried
    <2>4. early' \subseteq submitted
      BY <1>3, <2>3 DEF TypeOK, AddTask
    <2> QED BY <1>3, <2>1, <2>2, <2>4 DEF TypeOK, AddTask
  <1>4. ASSUME NEW c \in Clients, CallShutdown(c) \/ SetShutdown(c)
        PROVE  TypeOK'
    BY <1>4 DEF TypeOK, CallShutdown, SetShutdown
  <1>5. ASSUME NEW c \in Clients, AddPill(c)
        PROVE  TypeOK'
    <2>1. queue' \in Seq(Tasks \cup {Pill})
      BY <1>5, Appended DEF TypeOK, AddPill
    <2> QED BY <1>5, <2>1 DEF TypeOK, AddPill
  <1>6. ASSUME NEW w \in Workers, Pop(w) \/ End(w)
        PROVE  TypeOK'
    <2>1. queue # << >> /\ queue' = Tail(queue)
      BY <1>6 DEF Pop, End
    <2>2. queue' \in Seq(Tasks \cup {Pill}) /\ Head(queue) \in Tasks \cup {Pill}
      BY <2>1, TakenOut DEF TypeOK
    <2>3. executed' \in Seq(Tasks)
      <3>1. Pop(w) => Head(queue) \in Tasks /\ executed' = Append(executed, Head(queue))
        BY <2>2 DEF Pop
      <3>2. End(w) => executed' = executed
        BY DEF End
      <3> QED BY <1>6, <3>1, <3>2, Appended DEF TypeOK
    <2>4. worker' \in [Workers -> Tasks \cup {"pop", "ended"}]
      BY <1>6, <2>2 DEF TypeOK, Pop, End
    <2> QED BY <1>6, <2>2, <2>3, <2>4 DEF TypeOK, Pop, End, calls
  <1>7. ASSUME NEW w \in Workers, Return(w) \/ Throw(w)
        PROVE  TypeOK'
    BY <1>7 DEF TypeOK, Return, Throw, calls
  <1> QED BY <1>1, <1>2, <1>3, <1>4, <1>5, <1>6, <1>7 DEF Next, ClientStep, WorkerStep

LEMMA TypeInit == Init => TypeOK
  <1> SUFFICES ASSUME Init PROVE TypeOK
    OBVIOUS
  <1>1. queue \in Seq(Tasks \cup {Pill}) /\ executed \in Seq(Tasks)
    BY DEF Init
  <1>2. client \in [Clients -> {"outside", "add", "set", "pills"}]
        /\ worker \in [Workers -> Tasks \cup {"pop", "ended"}]
    BY DEF Init
  <1>3. task \in [Clients -> Tasks \cup {None}] /\ pills \in [Clients -> SUBSET Workers]
    BY DEF Init
  <1> QED BY <1>1, <1>2, <1>3 DEF Init, TypeOK

-----------------------------------------------------------------------------
(* Places.                                                                 *)
LEMMA PlaceInit == Init => PlaceInv
  <1> SUFFICES ASSUME Init PROVE PlaceInv
    OBVIOUS
  <1>1. 1 .. Len(queue) = {} /\ 1 .. Len(executed) = {}
    BY DEF Init
  <1>2. \A c \in Clients : task[c] = None
    BY DEF Init
  <1>3. submitted = {}
    BY DEF Init
  <1> QED BY <1>1, <1>2, <1>3, PoolAssumption
      DEF PlaceInv, OnePlace, QueuedOnce, BegunOnce, CarriedOnce, Queued, Begun, Carried

LEMMA CallRunPlace ==
  ASSUME TypeOK, PlaceInv, NEW c \in Clients, NEW t \in Tasks, CallRun(c, t)
  PROVE  PlaceInv'
  <1>1. /\ UNCHANGED <<queue, executed>> /\ submitted' = submitted \cup {t} /\ t \notin submitted
        /\ task' = [task EXCEPT ![c] = t] /\ client[c] # "add"
    BY DEF CallRun
  <1>2. task[c] = None /\ t # None
    BY <1>1, PoolAssumption DEF TypeOK
  <1>3. \A x \in Tasks : (Queued(x)' <=> Queued(x)) /\ (Begun(x)' <=> Begun(x))
    BY <1>1 DEF Queued, Begun
  <1>4. \A x \in Tasks : Carried(x)' <=> Carried(x) \/ x = t
    BY <1>1, <1>2, PoolAssumption DEF Carried, TypeOK
  <1>5. \A d \in Clients : task[d] # t
    BY <1>1 DEF PlaceInv, OnePlace, Carried
  <1>6. CarriedOnce'
    BY <1>1, <1>5 DEF PlaceInv, CarriedOnce, TypeOK
  <1>7. OnePlace'
    BY <1>1, <1>3, <1>4 DEF PlaceInv, OnePlace
  <1>8. QueuedOnce' /\ BegunOnce'
    BY <1>1 DEF PlaceInv, QueuedOnce, BegunOnce
  <1> QED BY <1>6, <1>7, <1>8 DEF PlaceInv

(* Something is put at the end of the queue.                               *)
LEMMA Enqueued ==
  ASSUME TypeOK, QueuedOnce, NEW x \in Tasks \cup {Pill}, queue' = Append(queue, x),
         x = Pill \/ ~Queued(x)
  PROVE  /\ QueuedOnce'
         /\ \A t : Queued(t)' <=> Queued(t) \/ t = x
  <1>1. queue \in Seq(Tasks \cup {Pill})
    BY DEF TypeOK
  <1>2. /\ Len(queue') = Len(queue) + 1
        /\ \A i \in 1 .. Len(queue) : queue'[i] = queue[i]
        /\ queue'[Len(queue) + 1] = x
        /\ \A i \in 1 .. Len(queue) + 1 : i \in 1 .. Len(queue) \/ i = Len(queue) + 1
        /\ \A i \in 1 .. Len(queue) : i \in 1 .. Len(queue) + 1 /\ i # Len(queue) + 1
        /\ Len(queue) + 1 \in 1 .. Len(queue) + 1
    BY <1>1, Appended
  <1>3. QueuedOnce'
    BY <1>2 DEF QueuedOnce, Queued
  <1>4. \A t : Queued(t)' <=> Queued(t) \/ t = x
    BY <1>2 DEF Queued
  <1> QED BY <1>3, <1>4

(* The head of the queue is taken out.                                     *)
LEMMA Dequeued ==
  ASSUME TypeOK, QueuedOnce, queue # << >>, queue' = Tail(queue)
  PROVE  /\ QueuedOnce' /\ Queued(Head(queue))
         /\ \A t \in Tasks : Queued(t)' <=> Queued(t) /\ t # Head(queue)
  <1>1. queue \in Seq(Tasks \cup {Pill})
    BY DEF TypeOK
  <1>2. /\ Head(queue) = queue[1] /\ 1 \in 1 .. Len(queue)
        /\ \A i \in 1 .. Len(queue') : queue'[i] = queue[i + 1] /\ i + 1 \in 1 .. Len(queue) /\ i + 1 # 1
        /\ \A i \in 1 .. Len(queue) :
             i # 1 => i - 1 \in 1 .. Len(queue') /\ queue[i] = queue'[i - 1]
    BY <1>1, TakenOut
  <1>3. ASSUME NEW i \in 1 .. Len(queue'), NEW j \in 1 .. Len(queue'),
               queue'[i] = queue'[j], queue'[i] # Pill
        PROVE  i = j
    <2>1. i + 1 = j + 1
      BY <1>2, <1>3 DEF QueuedOnce
    <2> QED BY <2>1
  <1>4. ASSUME NEW t \in Tasks
        PROVE  Queued(t)' <=> Queued(t) /\ t # Head(queue)
    <2>1. t # Pill
      BY PoolAssumption
    <2>2. Queued(t)' => Queued(t) /\ t # Head(queue)
      BY <1>2, <2>1 DEF Queued, QueuedOnce
    <2>3. Queued(t) /\ t # Head(queue) => Queued(t)'
      BY <1>2 DEF Queued
    <2> QED BY <2>2, <2>3
  <1>5. Queued(Head(queue))
    BY <1>2 DEF Queued
  <1> QED BY <1>3, <1>4, <1>5 DEF QueuedOnce

LEMMA AddTaskPlace ==
  ASSUME TypeOK, PlaceInv, NEW c \in Clients, AddTask(c)
  PROVE  PlaceInv'
  <1> DEFINE t == task[c]
  <1>1. t \in Tasks /\ t # None /\ Carried(t)
    BY DEF TypeOK, AddTask, Carried
  <1>2. /\ queue' = Append(queue, t) /\ task' = [task EXCEPT ![c] = None]
        /\ UNCHANGED <<submitted, executed>>
    BY DEF AddTask
  <1>3. ~Queued(t) /\ ~Begun(t)
    BY <1>1 DEF PlaceInv, OnePlace
  <1>4. QueuedOnce' /\ \A x \in Tasks : Queued(x)' <=> Queued(x) \/ x = t
    BY <1>1, <1>2, <1>3, Enqueued DEF PlaceInv
  <1>5. \A x \in Tasks : Begun(x)' <=> Begun(x)
    BY <1>2 DEF Begun
  <1>6. \A x \in Tasks : Carried(x)' <=> Carried(x) /\ x # t
    BY <1>1, <1>2, PoolAssumption DEF Carried, PlaceInv, CarriedOnce, TypeOK
  <1>7. CarriedOnce' /\ BegunOnce'
    BY <1>2 DEF PlaceInv, CarriedOnce, BegunOnce, TypeOK
  <1>8. OnePlace'
    BY <1>1, <1>2, <1>3, <1>4, <1>5, <1>6 DEF PlaceInv, OnePlace
  <1> QED BY <1>4, <1>7, <1>8 DEF PlaceInv

LEMMA PopPlace ==
  ASSUME TypeOK, PlaceInv, NEW w \in Workers, Pop(w)
  PROVE  PlaceInv'
  <1> DEFINE t == Head(queue)
  <1>1. queue # << >> /\ t # Pill /\ queue' = Tail(queue) /\ executed' = Append(executed, t)
        /\ UNCHANGED <<task, submitted>>
    BY DEF Pop, calls
  <1>2. t \in Tasks
    BY <1>1, TakenOut DEF TypeOK
  <1>3. QueuedOnce' /\ Queued(t) /\ \A x \in Tasks : Queued(x)' <=> Queued(x) /\ x # t
    BY <1>1, Dequeued DEF PlaceInv
  <1>4. ~Begun(t)
    BY <1>2, <1>3 DEF PlaceInv, OnePlace
  <1> HIDE DEF t
  <1>5. executed \in Seq(Tasks)
    BY DEF TypeOK
  <1>6. /\ Len(executed') = Len(executed) + 1
        /\ \A i \in 1 .. Len(executed) : executed'[i] = executed[i]
        /\ executed'[Len(executed) + 1] = t
        /\ \A i \in 1 .. Len(executed) + 1 : i \in 1 .. Len(executed) \/ i = Len(executed) + 1
        /\ \A i \in 1 .. Len(executed) : i \in 1 .. Len(executed) + 1 /\ i # Len(executed) + 1
        /\ Len(executed) + 1 \in 1 .. Len(executed) + 1
    BY <1>1, <1>2, <1>5, Appended
  <1>7. BegunOnce'
    BY <1>4, <1>6 DEF PlaceInv, BegunOnce, Begun
  <1>8. \A x \in Tasks : Begun(x)' <=> Begun(x) \/ x = t
    BY <1>6 DEF Begun
  <1>9. (\A x \in Tasks : Carried(x)' <=> Carried(x)) /\ CarriedOnce'
    BY <1>1 DEF Carried, CarriedOnce, PlaceInv
  <1>10. OnePlace'
    BY <1>1, <1>2, <1>3, <1>8, <1>9 DEF PlaceInv, OnePlace
  <1> QED BY <1>3, <1>7, <1>9, <1>10 DEF PlaceInv

(* A task that ends a worker is put into the queue, or taken out.          *)
LEMMA PillPlace ==
  ASSUME TypeOK, PlaceInv, UNCHANGED <<task, submitted, executed>>,
         \/ queue' = Append(queue, Pill)
         \/ queue # << >> /\ Head(queue) = Pill /\ queue' = Tail(queue)
         \/ queue' = queue
  PROVE  PlaceInv'
  <1>1. QueuedOnce' /\ \A t \in Tasks : Queued(t)' <=> Queued(t)
    <2>1. CASE queue' = Append(queue, Pill)
      BY <2>1, Enqueued, PoolAssumption DEF PlaceInv
    <2>2. CASE queue # << >> /\ Head(queue) = Pill /\ queue' = Tail(queue)
      BY <2>2, Dequeued, PoolAssumption DEF PlaceInv
    <2>3. CASE queue' = queue
      BY <2>3 DEF PlaceInv, QueuedOnce, Queued
    <2> QED BY <2>1, <2>2, <2>3
  <1>2. \A t \in Tasks : (Begun(t)' <=> Begun(t)) /\ (Carried(t)' <=> Carried(t))
    BY DEF Begun, Carried
  <1> QED BY <1>1, <1>2 DEF PlaceInv, OnePlace, BegunOnce, CarriedOnce

LEMMA PlaceStep ==
  ASSUME TypeOK, PlaceInv, [Next]_vars
  PROVE  PlaceInv'
  <1>1. ASSUME NEW c \in Clients, CallShutdown(c) \/ SetShutdown(c) \/ AddPill(c)
        PROVE  PlaceInv'
    BY <1>1, PillPlace DEF CallShutdown, SetShutdown, AddPill
  <1>2. ASSUME NEW w \in Workers, End(w) \/ Return(w) \/ Throw(w)
        PROVE  PlaceInv'
    BY <1>2, PillPlace DEF End, Return, Throw, calls
  <1>3. CASE UNCHANGED vars
    BY <1>3, PillPlace DEF vars, calls
  <1> QED BY <1>1, <1>2, <1>3, CallRunPlace, AddTaskPlace, PopPlace DEF Next, ClientStep, WorkerStep

LEMMA Everywhere ==
  ASSUME TypeOK, PlaceInv
  PROVE  EveryTaskSomewhere
  <1>1. DOMAIN queue = 1 .. Len(queue) /\ DOMAIN executed = 1 .. Len(executed)
    BY DEF TypeOK
  <1>2. \A t \in Tasks : /\ t \in ToSet(queue) <=> Queued(t)
                         /\ t \in ToSet(executed) <=> Begun(t)
                         /\ (\E c \in Clients : task[c] = t) <=> Carried(t)
    BY <1>1 DEF ToSet, Queued, Begun, Carried
  <1>3. ASSUME NEW t \in Tasks
        PROVE  (IF t \in ToSet(queue) THEN 1 ELSE 0) + (IF t \in ToSet(executed) THEN 1 ELSE 0)
                 + (IF \E c \in Clients : task[c] = t THEN 1 ELSE 0)
               = (IF t \in submitted THEN 1 ELSE 0)
    <2>1. /\ t \in submitted <=> Queued(t) \/ Begun(t) \/ Carried(t)
          /\ ~(Queued(t) /\ Begun(t)) /\ ~(Queued(t) /\ Carried(t)) /\ ~(Begun(t) /\ Carried(t))
      BY DEF PlaceInv, OnePlace
    <2> QED BY <1>2, <2>1
  <1>4. IsInjective(executed)
    BY <1>1 DEF PlaceInv, BegunOnce, IsInjective
  <1> QED BY <1>1, <1>3, <1>4 DEF EveryTaskSomewhere, PlaceInv, QueuedOnce

PoolInv == TypeOK /\ PlaceInv

(* A task given to run() is in one place only, on its way, queued or       *)
(* begun, and it begins once, whichever workers throw or end.              *)
THEOREM TasksKept == Spec => [](TypeOK /\ EveryTaskSomewhere)
  <1>1. Init => PoolInv
    BY TypeInit, PlaceInit DEF PoolInv
  <1>2. PoolInv /\ [Next]_vars => PoolInv'
    BY TypeStep, PlaceStep DEF PoolInv, PlaceInv
  <1>3. PoolInv => TypeOK /\ EveryTaskSomewhere
    BY Everywhere DEF PoolInv
  <1> QED BY <1>1, <1>2, <1>3, PTL DEF Spec

-----------------------------------------------------------------------------
(* Shutdown.  Until isShutdown is set nothing ends a worker; a task is     *)
(* early only if it was added before.                                      *)
ShutdownSeen ==
  /\ \A c \in Clients : client[c] = "pills" => isShutdown
  /\ ~isShutdown => ~Queued(Pill) /\ \A w \in Workers : worker[w] # "ended"

EarlyAdded == \A c \in Clients : task[c] \notin early

EarlyFirst ==
  \A i, j \in 1 .. Len(queue) : queue[i] \in early /\ queue[j] = Pill => i < j

WorkerLeft ==
  (\E i \in 1 .. Len(queue) : queue[i] \in early) => \E w \in Workers : worker[w] # "ended"

ShutdownInv == ShutdownSeen /\ EarlyAdded /\ EarlyFirst /\ WorkerLeft

LEMMA ShutdownInit == Init => ShutdownInv
  <1> SUFFICES ASSUME Init PROVE ShutdownInv
    OBVIOUS
  <1>1. 1 .. Len(queue) = {} /\ early = {}
    BY DEF Init
  <1>2. \A w \in Workers : worker[w] # "ended"
    BY DEF Init
  <1>3. \A c \in Clients : client[c] # "pills"
    BY DEF Init
  <1> QED BY <1>1, <1>2, <1>3
      DEF ShutdownInv, ShutdownSeen, EarlyAdded, EarlyFirst, WorkerLeft, Queued

(* Steps that leave the queue alone.                                       *)
LEMMA QueueKept ==
  ASSUME ShutdownInv, UNCHANGED <<queue, early>>,
         \A w \in Workers : worker'[w] = "ended" => worker[w] = "ended",
         isShutdown => isShutdown',
         \A c \in Clients : client'[c] = "pills" => isShutdown' \/ client[c] = "pills",
         \A c \in Clients : task'[c] \notin early
  PROVE  ShutdownInv'
  BY DEF ShutdownInv, ShutdownSeen, EarlyAdded, EarlyFirst, WorkerLeft, Queued

LEMMA QueueKeptSteps ==
  ASSUME TypeOK, PlaceInv, ShutdownInv,
         \/ UNCHANGED vars
         \/ \E c \in Clients : \/ CallShutdown(c) \/ SetShutdown(c)
                              \/ \E t \in Tasks : CallRun(c, t)
         \/ \E w \in Workers : Return(w) \/ Throw(w)
  PROVE  ShutdownInv'
  <1>1. CASE UNCHANGED vars
    BY <1>1, QueueKept DEF vars, calls, ShutdownInv, EarlyAdded
  <1>2. ASSUME NEW c \in Clients, CallShutdown(c) \/ SetShutdown(c)
        PROVE  ShutdownInv'
    BY <1>2, QueueKept DEF CallShutdown, SetShutdown, ShutdownInv, EarlyAdded, TypeOK
  <1>3. ASSUME NEW c \in Clients, NEW t \in Tasks, CallRun(c, t)
        PROVE  ShutdownInv'
    <2>1. t \notin early
      BY <1>3 DEF CallRun, TypeOK
    <2>2. \A d \in Clients : task'[d] \notin early
      BY <1>3, <2>1 DEF CallRun, ShutdownInv, EarlyAdded, TypeOK
    <2> QED BY <1>3, <2>2, QueueKept DEF CallRun, TypeOK
  <1>4. ASSUME NEW w \in Workers, Return(w) \/ Throw(w)
        PROVE  ShutdownInv'
    BY <1>4, QueueKept DEF Return, Throw, calls, ShutdownInv, EarlyAdded, TypeOK
  <1> QED BY <1>1, <1>2, <1>3, <1>4

LEMMA AddTaskShutdown ==
  ASSUME TypeOK, PlaceInv, ShutdownInv, NEW c \in Clients, AddTask(c)
  PROVE  ShutdownInv'
  <1> DEFINE t == task[c]
  <1>1. /\ queue' = Append(queue, t) /\ task' = [task EXCEPT ![c] = None]
        /\ client' = [client EXCEPT ![c] = "outside"]
        /\ UNCHANGED <<isShutdown, worker>>
    BY DEF AddTask
  <1>2. t \in Tasks /\ t # None /\ t # Pill
    BY PoolAssumption DEF TypeOK, AddTask
  <1>3. /\ Len(queue) \in Nat
        /\ Len(queue') = Len(queue) + 1
        /\ \A i \in 1 .. Len(queue) : queue'[i] = queue[i]
        /\ queue'[Len(queue) + 1] = t
        /\ \A i \in 1 .. Len(queue) + 1 : i \in 1 .. Len(queue) \/ i = Len(queue) + 1
    <2>1. queue \in Seq(Tasks \cup {Pill}) /\ t \in Tasks \cup {Pill}
      BY <1>2 DEF TypeOK
    <2> HIDE DEF t
    <2> QED BY <1>1, <2>1, Appended
  <1>4. t \notin early
    BY DEF ShutdownInv, EarlyAdded
  <1>5. /\ early' = early \/ early' = early \cup {t}
        /\ t \in early' => ~isShutdown
    BY <1>4 DEF AddTask
  <1>6. EarlyAdded'
    <2>1. None \notin early'
      BY <1>5, <1>2, PoolAssumption DEF TypeOK
    <2>2. \A d \in Clients : d # c => task[d] \notin early /\ task[d] # t
      BY <1>2 DEF ShutdownInv, EarlyAdded, PlaceInv, CarriedOnce
    <2> QED BY <1>1, <1>5, <2>1, <2>2 DEF EarlyAdded, TypeOK
  <1> HIDE DEF t
  <1>7. Queued(Pill)' => Queued(Pill)
    BY <1>2, <1>3 DEF Queued
  <1>8. ShutdownSeen'
    BY <1>1, <1>7 DEF ShutdownInv, ShutdownSeen, TypeOK
  <1>9. EarlyFirst'
    <2>1. CASE isShutdown
      <3>1. t \notin early' /\ early' = early
        BY <1>4, <1>5, <2>1
      <3> QED BY <3>1, <1>2, <1>3 DEF ShutdownInv, EarlyFirst
    <2>2. CASE ~isShutdown
      <3>1. ~Queued(Pill)'
        BY <1>7, <2>2 DEF ShutdownInv, ShutdownSeen
      <3> QED BY <3>1 DEF EarlyFirst, Queued
    <2> QED BY <2>1, <2>2
  <1>10. WorkerLeft'
    <2>1. CASE isShutdown
      <3>1. t \notin early' /\ early' = early
        BY <1>4, <1>5, <2>1
      <3> QED BY <3>1, <1>1, <1>3 DEF ShutdownInv, WorkerLeft
    <2>2. CASE ~isShutdown
      <3>1. \E w \in Workers : TRUE
        BY PoolAssumption
      <3> QED BY <1>1, <2>2, <3>1 DEF ShutdownInv, ShutdownSeen, WorkerLeft
    <2> QED BY <2>1, <2>2
  <1> QED BY <1>6, <1>8, <1>9, <1>10 DEF ShutdownInv

LEMMA AddPillShutdown ==
  ASSUME TypeOK, ShutdownInv, NEW c \in Clients, AddPill(c)
  PROVE  ShutdownInv'
  <1>1. /\ queue' = Append(queue, Pill) /\ UNCHANGED <<isShutdown, task, worker, early>>
        /\ \A d \in Clients : client'[d] = "pills" => client[d] = "pills"
        /\ client[c] = "pills"
    BY DEF AddPill, TypeOK
  <1>2. /\ Len(queue) \in Nat
        /\ Len(queue') = Len(queue) + 1
        /\ \A i \in 1 .. Len(queue) : queue'[i] = queue[i]
        /\ queue'[Len(queue) + 1] = Pill
        /\ \A i \in 1 .. Len(queue) + 1 : i \in 1 .. Len(queue) \/ i = Len(queue) + 1
    BY <1>1, Appended DEF TypeOK
  <1>3. Pill \notin early
    BY PoolAssumption DEF TypeOK
  <1>4. isShutdown
    BY <1>1 DEF ShutdownInv, ShutdownSeen
  <1>5. ShutdownSeen' /\ EarlyAdded'
    BY <1>1, <1>4 DEF ShutdownInv, ShutdownSeen, EarlyAdded
  <1>6. ASSUME NEW i \in 1 .. Len(queue'), NEW j \in 1 .. Len(queue'),
               queue'[i] \in early, queue'[j] = Pill
        PROVE  i < j
    <2>1. i \in 1 .. Len(queue) /\ queue[i] \in early
      BY <1>2, <1>3, <1>6
    <2>2. CASE j \in 1 .. Len(queue)
      BY <1>2, <1>6, <2>1, <2>2 DEF ShutdownInv, EarlyFirst
    <2>3. CASE j = Len(queue) + 1
      BY <1>2, <2>1, <2>3
    <2> QED BY <1>2, <2>2, <2>3
  <1>7. EarlyFirst'
    BY <1>1, <1>6 DEF EarlyFirst
  <1>8. WorkerLeft'
    BY <1>1, <1>2, <1>3 DEF ShutdownInv, WorkerLeft
  <1> QED BY <1>5, <1>7, <1>8 DEF ShutdownInv

LEMMA TakeShutdown ==
  ASSUME TypeOK, ShutdownInv, NEW w \in Workers, Pop(w) \/ End(w)
  PROVE  ShutdownInv'
  <1>1. /\ queue # << >> /\ queue' = Tail(queue)
        /\ UNCHANGED <<isShutdown, client, task, early>>
    BY DEF Pop, End, calls
  <1>2. /\ Head(queue) = queue[1] /\ 1 \in 1 .. Len(queue)
        /\ \A i \in 1 .. Len(queue') : queue'[i] = queue[i + 1] /\ i + 1 \in 1 .. Len(queue)
    BY <1>1, TakenOut DEF TypeOK
  <1>3. EarlyAdded'
    BY <1>1 DEF ShutdownInv, EarlyAdded
  <1>4. ASSUME NEW i \in 1 .. Len(queue'), NEW j \in 1 .. Len(queue'),
               queue'[i] \in early, queue'[j] = Pill
        PROVE  i < j
    <2>1. i + 1 < j + 1
      BY <1>2, <1>4 DEF ShutdownInv, EarlyFirst
    <2> QED BY <2>1
  <1>5. EarlyFirst'
    BY <1>1, <1>4 DEF EarlyFirst
  <1>6. Queued(Pill)' => Queued(Pill)
    BY <1>2 DEF Queued
  <1>7. CASE Pop(w)
    <2>1. Head(queue) \in Tasks
      BY <1>1, <1>7, TakenOut DEF Pop, TypeOK
    <2>2. Head(queue) # "ended"
      BY <2>1, PoolAssumption
    <2>3. worker[w] = "pop" /\ worker' = [worker EXCEPT ![w] = Head(queue)]
      BY <1>7 DEF Pop
    <2>4. \A x \in Workers : worker'[x] = "ended" <=> worker[x] = "ended"
      BY <2>2, <2>3 DEF TypeOK
    <2>5. ShutdownSeen'
      BY <1>1, <1>6, <2>4 DEF ShutdownInv, ShutdownSeen
    <2>6. WorkerLeft'
      BY <1>1, <1>2, <2>4 DEF ShutdownInv, WorkerLeft
    <2> QED BY <1>3, <1>5, <2>5, <2>6 DEF ShutdownInv
  <1>8. CASE End(w)
    <2>1. queue[1] = Pill
      BY <1>2, <1>8 DEF End
    <2>2. isShutdown
      BY <1>2, <2>1 DEF ShutdownInv, ShutdownSeen, Queued
    <2>3. ShutdownSeen'
      BY <1>1, <2>2 DEF ShutdownInv, ShutdownSeen
    <2>4. ASSUME NEW i \in 1 .. Len(queue), queue[i] \in early
          PROVE  FALSE
      <3>1. i < 1
        BY <1>2, <2>1, <2>4 DEF ShutdownInv, EarlyFirst
      <3> QED BY <3>1
    <2>5. WorkerLeft'
      BY <1>1, <1>2, <2>4 DEF WorkerLeft
    <2> QED BY <1>3, <1>5, <2>3, <2>5 DEF ShutdownInv
  <1> QED BY <1>7, <1>8

LEMMA ShutdownStep ==
  ASSUME TypeOK, PlaceInv, ShutdownInv, [Next]_vars
  PROVE  ShutdownInv'
  BY QueueKeptSteps, AddTaskShutdown, AddPillShutdown, TakeShutdown
  DEF Next, ClientStep, WorkerStep

LEMMA Awaited ==
  ASSUME TypeOK, ShutdownInv
  PROVE  EarlyTasksAwaited
  <1>1. DOMAIN queue = 1 .. Len(queue)
    BY DEF TypeOK
  <1> QED BY <1>1 DEF ShutdownInv, EarlyFirst, WorkerLeft, EarlyTasksAwaited, ToSet

(* While a task that was added before any shutdown() began is queued, a    *)
(* worker is left, and the task is ahead of every shutdownTask.            *)
THEOREM EarlyAreAwaited == Spec => []EarlyTasksAwaited
  <1>1. Init => PoolInv /\ ShutdownInv
    BY TypeInit, PlaceInit, ShutdownInit DEF PoolInv
  <1>2. PoolInv /\ ShutdownInv /\ [Next]_vars => PoolInv' /\ ShutdownInv'
    BY TypeStep, PlaceStep, ShutdownStep DEF PoolInv, PlaceInv
  <1>3. PoolInv /\ ShutdownInv => EarlyTasksAwaited
    BY Awaited DEF PoolInv
  <1> QED BY <1>1, <1>2, <1>3, PTL DEF Spec

-----------------------------------------------------------------------------
(* Locks.                                                                  *)

(* What every state has in common, whatever the target.                    *)
Users ==
  /\ use \in [target : {"cs", "java"}, users : SUBSET Threads, timeouts : BOOLEAN]
  /\ timed \in [Threads -> BOOLEAN] /\ released \in Nat /\ passed \in Nat
  /\ \A t \in Threads : /\ t \notin use.users => pc[t] = "outside"
                        /\ timed[t] => use.timeouts
                        /\ pc[t] = "expired" => timed[t]

CsTypes ==
  use.target = "cs" =>
    /\ waitCount \in Nat \ {0} /\ releaseCount \in Nat /\ releaseEvent \in BOOLEAN
    /\ pc \in [Threads -> {"outside", "queued", "waiting", "woken", "expired"}]
    /\ myTicket \in [Threads -> Nat]

JavaTypes ==
  use.target = "java" =>
    /\ releasedCount \in Int
    /\ pc \in [Threads -> {"outside", "asleep", "awake", "expired"}]

LockTypes == Users /\ CsTypes /\ JavaTypes

LEMMA LockTypesInit == L!Init => LockTypes
  <1> SUFFICES ASSUME L!Init PROVE LockTypes
    OBVIOUS
  <1>1. /\ use \in [target : {"cs", "java"}, users : SUBSET Threads, timeouts : BOOLEAN]
        /\ waitCount = 1 /\ releaseCount = 0 /\ releaseEvent = FALSE /\ releasedCount = 0
        /\ myTicket = [t \in Threads |-> 0] /\ released = 0 /\ passed = 0
        /\ pc = [t \in Threads |-> "outside"] /\ timed = [t \in Threads |-> FALSE]
    BY DEF L!Init, L!Cs!Init, L!Java!Init
  <1>2. timed \in [Threads -> BOOLEAN] /\ \A t \in Threads : ~timed[t] /\ pc[t] = "outside"
    BY <1>1
  <1>3. Users
    BY <1>1, <1>2 DEF Users
  <1>4. CsTypes
    <2>1. myTicket \in [Threads -> Nat] BY <1>1
    <2>2. pc \in [Threads -> {"outside", "queued", "waiting", "woken", "expired"}] BY <1>1
    <2>3. waitCount \in Nat \ {0} /\ releaseCount \in Nat BY <1>1
    <2> QED BY <1>1, <2>1, <2>2, <2>3 DEF CsTypes
  <1>5. JavaTypes
    BY <1>1 DEF JavaTypes
  <1> QED BY <1>3, <1>4, <1>5 DEF LockTypes

LEMMA LockTypesRelease ==
  ASSUME LockTypes, L!OnCs(L!Cs!Release) \/ L!OnJava(L!Java!Release)
  PROVE  LockTypes'
  <1>1. CASE L!OnCs(L!Cs!Release)
    BY <1>1 DEF L!OnCs, L!java, L!AsUsed, L!Cs!Release, L!Cs!SetEvent, LockTypes, Users, CsTypes, JavaTypes
  <1>2. CASE L!OnJava(L!Java!Release)
    BY <1>2 DEF L!OnJava, L!cs, L!AsUsed, L!Java!Release, L!Java!Notify, L!Java!Asleep, LockTypes, Users, CsTypes, JavaTypes
  <1> QED BY <1>1, <1>2

LEMMA LockTypesCs ==
  ASSUME LockTypes, NEW t \in use.users, L!OnCs(L!Cs!Wait(t))
  PROVE  LockTypes'
  <1> USE DEF L!OnCs, L!java, L!AsUsed, L!Cs!CanWait, L!Cs!lock, L!Cs!call, L!Cs!SetEvent,
              LockTypes, Users, CsTypes, JavaTypes
  <1>1. CASE L!Cs!Pass(t)
    <2>1. /\ waitCount' = waitCount + 1 /\ passed' = passed + 1
          /\ UNCHANGED <<use, releaseCount, releaseEvent, pc, myTicket, timed, released>>
      BY <1>1 DEF L!Cs!Pass
    <2> QED BY <2>1
  <1>2. CASE L!Cs!Queue(t)
    <2>1. PICK b \in BOOLEAN : timed' = [timed EXCEPT ![t] = b]
      BY <1>2 DEF L!Cs!Queue
    <2>2. /\ waitCount' = waitCount + 1 /\ releaseEvent' = FALSE
          /\ pc' = [pc EXCEPT ![t] = "queued"] /\ myTicket' = [myTicket EXCEPT ![t] = waitCount]
          /\ UNCHANGED <<use, releaseCount, released, passed>>
      BY <1>2 DEF L!Cs!Queue
    <2>3. Users'
      BY <2>1, <2>2
    <2>4. CsTypes'
      <3>1. SUFFICES ASSUME use.target = "cs" PROVE CsTypes'
        BY <2>2
      <3>2. waitCount' \in Nat \ {0} BY <2>2, <3>1
      <3>3. myTicket' \in [Threads -> Nat] BY <2>2, <3>1
      <3> QED BY <2>2, <3>1, <3>2, <3>3
    <2>5. JavaTypes' BY <2>2
    <2> QED BY <2>3, <2>4, <2>5
  <1>3. CASE L!Cs!TimeOut(t) BY <1>3 DEF L!Cs!TimeOut
  <1>4. CASE L!Cs!WaitOne(t) BY <1>4 DEF L!Cs!WaitOne
  <1>5. CASE L!Cs!Check(t) BY <1>5 DEF L!Cs!Check
  <1>6. CASE L!Cs!Leave(t) BY <1>6 DEF L!Cs!Leave
  <1> QED BY <1>1, <1>2, <1>3, <1>4, <1>5, <1>6 DEF L!Cs!Wait, L!Cs!Step

LEMMA LockTypesJava ==
  ASSUME LockTypes, NEW t \in use.users, L!OnJava(L!Java!Wait(t))
  PROVE  LockTypes'
  <1> USE DEF L!OnJava, L!cs, L!AsUsed, L!Java!CanWait, LockTypes, Users, CsTypes, JavaTypes
  <1>1. CASE L!Java!Pass(t) BY <1>1 DEF L!Java!Pass
  <1>2. CASE L!Java!Sleep(t) BY <1>2 DEF L!Java!Sleep
  <1>3. CASE L!Java!Spurious(t) BY <1>3 DEF L!Java!Spurious
  <1>4. CASE L!Java!TimeOut(t) BY <1>4 DEF L!Java!TimeOut
  <1>5. CASE L!Java!Loop(t) BY <1>5 DEF L!Java!Loop
  <1>6. CASE L!Java!Leave(t) BY <1>6 DEF L!Java!Leave
  <1> QED BY <1>1, <1>2, <1>3, <1>4, <1>5, <1>6 DEF L!Java!Wait, L!Java!Step

-----------------------------------------------------------------------------
(* One waiting thread.  It is the only one that can be inside wait().      *)
LEMMA OneInside ==
  ASSUME NEW users \in SUBSET Threads, NEW t \in users, \A s, u \in users : s = u,
         NEW place, \A s \in Threads : s \notin users => place[s] = "outside"
  PROVE  /\ {s \in Threads : place[s] # "outside"} = IF place[t] = "outside" THEN {} ELSE {t}
         /\ \A s \in Threads : s # t => place[s] = "outside"
  OBVIOUS

Used(inside) ==
  IF use.target = "cs" THEN releaseCount - (waitCount - 1) + inside ELSE releasedCount + inside

LEMMA PermitsAlone ==
  ASSUME LockTypes, L!Alone, NEW t \in use.users
  PROVE  L!Permits = Used(IF pc[t] = "outside" THEN 0 ELSE 1)
  <1>1. /\ use.users \in SUBSET Threads /\ \A s, u \in use.users : s = u
        /\ \A s \in Threads : s \notin use.users => pc[s] = "outside"
    BY DEF LockTypes, Users, L!Alone
  <1>2. {s \in Threads : pc[s] # "outside"} = IF pc[t] = "outside" THEN {} ELSE {t}
    BY <1>1, OneInside
  <1> QED BY <1>2 DEF L!Permits, L!Cs!Permits, L!Java!Permits, L!Cs!Inside, L!Java!Inside, Used

LEMMA PermitsThen ==
  ASSUME LockTypes, LockTypes', use' = use, L!Alone, NEW t \in use.users
  PROVE  L!Permits' = Used(IF pc[t] = "outside" THEN 0 ELSE 1)'
  <1>1. /\ use.users \in SUBSET Threads /\ \A s, u \in use.users : s = u
        /\ \A s \in Threads : s \notin use.users => pc'[s] = "outside"
    BY DEF LockTypes, Users, L!Alone
  <1>2. {s \in Threads : pc'[s] # "outside"} = IF pc'[t] = "outside" THEN {} ELSE {t}
    BY <1>1, OneInside
  <1>3. L!Alone'
    BY DEF L!Alone
  <1> QED BY <1>2, <1>3 DEF L!Permits, L!Cs!Permits, L!Java!Permits, L!Cs!Inside, L!Java!Inside, Used

LEMMA StateThen ==
  ASSUME LockTypes, LockTypes', use' = use, L!Alone, NEW t \in use.users
  PROVE  /\ t \in Threads
         /\ L!State[t] = IF pc[t] = "outside" THEN "outside"
                         ELSE IF timed[t] THEN "timed" ELSE "blocked"
         /\ L!State' = [L!State EXCEPT ![t] =
                          IF pc'[t] = "outside" THEN "outside"
                          ELSE IF timed'[t] THEN "timed" ELSE "blocked"]
  <1>1. t \in Threads /\ \A s \in Threads : s # t => pc[s] = "outside" /\ pc'[s] = "outside"
    BY DEF LockTypes, Users, L!Alone
  <1>2. L!Alone'
    BY DEF L!Alone
  <1> QED BY <1>1, <1>2 DEF L!State

(* As long as one thread waits, what is left over is never negative; on C# *)
(* that thread has the last ticket.                                        *)
AloneInv ==
  L!Alone =>
    /\ L!Permits \in Nat /\ L!Permits = released - passed
    /\ use.target = "cs" => \A t \in Threads : pc[t] # "outside" => myTicket[t] = waitCount - 1

(* The steps of Lock, seen from what its variables stand for.              *)
LEMMA PromiseSteps ==
  /\ L!Promise!Release <=> L!Permits' = L!Permits + 1 /\ L!State' = L!State
  /\ \A t \in Threads :
       /\ L!Promise!Pass(t) <=> /\ L!State[t] = "outside" /\ L!Permits > 0
                                /\ L!Permits' = L!Permits - 1 /\ L!State' = L!State
       /\ L!Promise!Block(t) <=>
            /\ L!State[t] = "outside" /\ L!Permits = 0 /\ L!Permits' = L!Permits
            /\ \E s \in {"blocked", "timed"} : L!State' = [L!State EXCEPT ![t] = s]
       /\ L!Promise!Unblock(t) <=> /\ L!State[t] # "outside" /\ L!Permits > 0
                                   /\ L!Permits' = L!Permits - 1
                                   /\ L!State' = [L!State EXCEPT ![t] = "outside"]
       /\ L!Promise!TimeOut(t) <=> /\ L!State[t] = "timed"
                                   /\ L!State' = [L!State EXCEPT ![t] = "outside"]
                                   /\ L!Permits' = L!Permits
  BY DEF L!Promise!Release, L!Promise!Pass, L!Promise!Block, L!Promise!Unblock, L!Promise!TimeOut

Kept  == released' = released /\ passed' = passed /\ L!Permits' = L!Permits
Taken == /\ released' = released /\ passed' = passed + 1
         /\ L!Permits > 0 /\ L!Permits' = L!Permits - 1

StateAfter(t) == IF pc'[t] = "outside" THEN "outside" ELSE IF timed'[t] THEN "timed" ELSE "blocked"

(* A step of the waiting thread is one of Lock, or none.                   *)
LEMMA PromiseKept ==
  ASSUME NEW t \in Threads, Kept,
         L!State' = [L!State EXCEPT ![t] = StateAfter(t)],
         \/ L!State[t] = StateAfter(t)
         \/ L!State[t] = "outside" /\ L!Permits = 0
         \/ L!State[t] = "timed" /\ StateAfter(t) = "outside"
  PROVE  L!Promise!Next \/ UNCHANGED L!Promise!vars
  <1>1. CASE L!State[t] = StateAfter(t)
    <2>1. L!State' = L!State
      BY <1>1 DEF L!State
    <2> QED BY <2>1 DEF Kept, L!Promise!vars
  <1>2. CASE L!State[t] = "outside" /\ L!Permits = 0 /\ StateAfter(t) # "outside"
    <2>1. StateAfter(t) \in {"blocked", "timed"}
      BY <1>2 DEF StateAfter
    <2>2. L!Promise!Block(t)
      BY <1>2, <2>1, PromiseSteps DEF Kept
    <2> QED BY <2>2 DEF L!Promise!Next
  <1>3. CASE L!State[t] = "timed" /\ StateAfter(t) = "outside"
    <2>1. L!Promise!TimeOut(t)
      BY <1>3, PromiseSteps DEF Kept
    <2> QED BY <2>1 DEF L!Promise!Next
  <1> QED BY <1>1, <1>2, <1>3

LEMMA PromiseTaken ==
  ASSUME NEW t \in Threads, Taken,
         L!State' = [L!State EXCEPT ![t] = StateAfter(t)], StateAfter(t) = "outside"
  PROVE  L!Promise!Next
  <1>1. CASE L!State[t] = "outside"
    <2>1. L!State' = L!State
      BY <1>1 DEF L!State
    <2>2. L!Promise!Pass(t)
      BY <1>1, <2>1, PromiseSteps DEF Taken
    <2> QED BY <2>2 DEF L!Promise!Next
  <1>2. CASE L!State[t] # "outside"
    <2>1. L!Promise!Unblock(t)
      BY <1>2, PromiseSteps DEF Taken
    <2> QED BY <2>1 DEF L!Promise!Next
  <1> QED BY <1>1, <1>2

(* C#: a wait whose ticket has not been released finds nothing left; one   *)
(* that times out gives its own release to the ticket it leaves behind.    *)
LEMMA CsAlone ==
  ASSUME LockTypes, LockTypes', AloneInv, L!Alone, NEW t \in use.users, L!OnCs(L!Cs!Wait(t))
  PROVE  /\ Kept \/ Taken
         /\ L!Promise!Next \/ UNCHANGED L!Promise!vars
         /\ \A s \in Threads : pc'[s] # "outside" => myTicket'[s] = waitCount' - 1
  <1>1. use.target = "cs" /\ use' = use
    BY DEF L!OnCs, L!AsUsed
  <1>2. /\ t \in Threads /\ t \in DOMAIN pc /\ waitCount \in Nat /\ releaseCount \in Nat
        /\ pc \in [Threads -> {"outside", "queued", "waiting", "woken", "expired"}]
        /\ myTicket \in [Threads -> Nat] /\ timed \in [Threads -> BOOLEAN]
        /\ pc[t] = "expired" => timed[t]
    BY <1>1 DEF LockTypes, CsTypes, Users
  <1>3. /\ L!Permits = releaseCount - (waitCount - 1) + IF pc[t] = "outside" THEN 0 ELSE 1
        /\ L!Permits' = releaseCount' - (waitCount' - 1) + IF pc'[t] = "outside" THEN 0 ELSE 1
    BY <1>1, PermitsAlone, PermitsThen DEF Used
  <1>4. /\ L!State[t] = IF pc[t] = "outside" THEN "outside"
                        ELSE IF timed[t] THEN "timed" ELSE "blocked"
        /\ L!State' = [L!State EXCEPT ![t] = StateAfter(t)]
    BY <1>1, StateThen DEF StateAfter
  <1>5. /\ L!Permits \in Nat
        /\ \A s \in Threads : pc[s] # "outside" => myTicket[s] = waitCount - 1
    BY <1>1 DEF AloneInv
  <1>6. \A s \in Threads : s # t => pc[s] = "outside"
    BY DEF LockTypes, Users, L!Alone
  <1> USE DEF L!OnCs, L!Cs!CanWait, L!Cs!lock, L!Cs!call, L!Cs!SetEvent
  <1>7. CASE L!Cs!Pass(t)
    <2>1. /\ pc[t] = "outside" /\ waitCount <= releaseCount /\ waitCount' = waitCount + 1
          /\ passed' = passed + 1 /\ UNCHANGED <<releaseCount, pc, myTicket, timed, released>>
      BY <1>7 DEF L!Cs!Pass
    <2>2. Taken
      BY <1>2, <1>3, <2>1 DEF Taken
    <2>3. L!Promise!Next
      BY <1>2, <1>4, <2>1, <2>2, PromiseTaken DEF StateAfter
    <2> QED BY <1>6, <2>1, <2>2, <2>3
  <1>8. CASE L!Cs!Queue(t)
    <2>1. /\ pc[t] = "outside" /\ waitCount > releaseCount /\ waitCount' = waitCount + 1
          /\ pc' = [pc EXCEPT ![t] = "queued"] /\ myTicket' = [myTicket EXCEPT ![t] = waitCount]
          /\ UNCHANGED <<releaseCount, released, passed>>
      BY <1>8 DEF L!Cs!Queue
    <2>2. pc'[t] = "queued" /\ L!Permits = 0 /\ L!Permits' = 0
      BY <1>2, <1>3, <1>5, <2>1
    <2>3. Kept
      BY <2>1, <2>2 DEF Kept
    <2>4. L!State[t] = "outside"
      BY <1>4, <2>1
    <2>5. L!Promise!Next \/ UNCHANGED L!Promise!vars
      BY <1>2, <1>4, <2>2, <2>3, <2>4, PromiseKept
    <2>6. \A s \in Threads : pc'[s] # "outside" => myTicket'[s] = waitCount' - 1
      BY <1>2, <1>6, <2>1
    <2> QED BY <2>3, <2>5, <2>6
  <1>9. CASE L!Cs!TimeOut(t) \/ L!Cs!WaitOne(t) \/ (L!Cs!Check(t) /\ passed' = passed)
    <2>1. /\ pc[t] # "outside" /\ pc'[t] # "outside"
          /\ \A s \in Threads : s # t => pc'[s] = pc[s]
          /\ UNCHANGED <<waitCount, releaseCount, myTicket, timed, released, passed>>
      <3>1. CASE L!Cs!TimeOut(t) BY <1>2, <3>1 DEF L!Cs!TimeOut
      <3>2. CASE L!Cs!WaitOne(t) BY <1>2, <3>2 DEF L!Cs!WaitOne
      <3>3. CASE L!Cs!Check(t) /\ passed' = passed
        <4>1. passed \in Nat BY DEF LockTypes, Users
        <4>2. passed' # passed + 1 BY <3>3, <4>1
        <4> QED BY <1>2, <3>3, <4>2 DEF L!Cs!Check
      <3> QED BY <1>9, <3>1, <3>2, <3>3
    <2>2. Kept
      BY <1>3, <2>1 DEF Kept
    <2>3. L!State[t] = StateAfter(t)
      BY <1>4, <2>1 DEF StateAfter
    <2>4. L!Promise!Next \/ UNCHANGED L!Promise!vars
      BY <1>2, <1>4, <2>2, <2>3, PromiseKept
    <2> QED BY <1>5, <1>6, <2>1, <2>2, <2>4
  <1>10. CASE L!Cs!Check(t) /\ passed' # passed
    <2>1. /\ pc[t] = "woken" /\ myTicket[t] <= releaseCount
          /\ pc' = [pc EXCEPT ![t] = "outside"] /\ passed' = passed + 1
          /\ UNCHANGED <<waitCount, releaseCount, myTicket, timed, released>>
      BY <1>10 DEF L!Cs!Check
    <2>2. pc'[t] = "outside" /\ myTicket[t] = waitCount - 1
      BY <1>2, <1>5, <2>1
    <2>3. Taken
      BY <1>2, <1>3, <2>1, <2>2 DEF Taken
    <2>4. L!Promise!Next
      BY <1>2, <1>4, <2>2, <2>3, PromiseTaken DEF StateAfter
    <2>5. \A s \in Threads : pc'[s] = "outside"
      BY <1>2, <1>6, <2>1
    <2> QED BY <2>3, <2>4, <2>5
  <1>11. CASE L!Cs!Leave(t)
    <2>1. /\ pc[t] = "expired" /\ releaseCount' = releaseCount + 1
          /\ UNCHANGED <<waitCount, myTicket, timed, released, passed>>
          /\ pc'[t] = "outside" /\ \A s \in Threads : s # t => pc'[s] = "outside"
      BY <1>2, <1>6, <1>11 DEF L!Cs!Leave
    <2>2. Kept
      BY <1>2, <1>3, <2>1 DEF Kept
    <2>3. L!State[t] = "timed" /\ StateAfter(t) = "outside"
      BY <1>2, <1>4, <2>1 DEF StateAfter
    <2>4. L!Promise!Next \/ UNCHANGED L!Promise!vars
      BY <1>2, <1>4, <2>2, <2>3, PromiseKept
    <2> QED BY <2>1, <2>2, <2>4
  <1>12. \/ L!Cs!Pass(t) \/ L!Cs!Queue(t) \/ L!Cs!TimeOut(t)
         \/ L!Cs!WaitOne(t) \/ L!Cs!Check(t) \/ L!Cs!Leave(t)
    BY DEF L!Cs!Wait, L!Cs!Step
  <1> QED BY ONLY <1>7, <1>8, <1>9, <1>10, <1>11, <1>12

(* Java: while the one waiting thread sleeps the count is one below what   *)
(* is left.                                                                *)
LEMMA JavaAlone ==
  ASSUME LockTypes, LockTypes', AloneInv, L!Alone, NEW t \in use.users, L!OnJava(L!Java!Wait(t))
  PROVE  /\ Kept \/ Taken
         /\ L!Promise!Next \/ UNCHANGED L!Promise!vars
  <1>1. use.target = "java" /\ use' = use
    BY DEF L!OnJava, L!AsUsed
  <1>2. /\ t \in Threads /\ releasedCount \in Int /\ passed \in Nat
        /\ pc \in [Threads -> {"outside", "asleep", "awake", "expired"}]
        /\ timed \in [Threads -> BOOLEAN]
        /\ pc[t] = "expired" => timed[t]
    BY <1>1 DEF LockTypes, JavaTypes, Users
  <1>3. /\ L!Permits = releasedCount + IF pc[t] = "outside" THEN 0 ELSE 1
        /\ L!Permits' = releasedCount' + IF pc'[t] = "outside" THEN 0 ELSE 1
    BY <1>1, PermitsAlone, PermitsThen DEF Used
  <1>4. /\ L!State[t] = IF pc[t] = "outside" THEN "outside"
                        ELSE IF timed[t] THEN "timed" ELSE "blocked"
        /\ L!State' = [L!State EXCEPT ![t] = StateAfter(t)]
    BY <1>1, StateThen DEF StateAfter
  <1>5. L!Permits \in Nat
    BY DEF AloneInv
  <1> USE DEF L!OnJava, L!Java!CanWait
  <1>6. CASE L!Java!Pass(t)
    <2>1. /\ pc[t] = "outside" /\ releasedCount > 0 /\ releasedCount' = releasedCount - 1
          /\ passed' = passed + 1 /\ UNCHANGED <<pc, timed, released>>
      BY <1>6 DEF L!Java!Pass
    <2>2. Taken
      BY <1>2, <1>3, <2>1 DEF Taken
    <2> QED BY <1>2, <1>4, <2>1, <2>2, PromiseTaken DEF StateAfter
  <1>7. CASE L!Java!Sleep(t)
    <2>1. /\ pc[t] = "outside" /\ releasedCount <= 0 /\ releasedCount' = releasedCount - 1
          /\ pc' = [pc EXCEPT ![t] = "asleep"] /\ UNCHANGED <<released, passed>>
      BY <1>7 DEF L!Java!Sleep
    <2>2. pc'[t] = "asleep"
      BY <1>2, <2>1
    <2>3. L!Permits = 0 /\ L!Permits' = 0
      BY <1>2, <1>3, <1>5, <2>1, <2>2
    <2>4. Kept /\ L!State[t] = "outside"
      BY <1>4, <2>1, <2>3 DEF Kept
    <2> QED BY <1>2, <1>4, <2>3, <2>4, PromiseKept
  <1>8. CASE L!Java!Spurious(t) \/ L!Java!TimeOut(t) \/ (L!Java!Loop(t) /\ passed' = passed)
    <2>1. /\ pc[t] # "outside" /\ pc'[t] # "outside"
          /\ UNCHANGED <<releasedCount, timed, released, passed>>
      <3>1. CASE L!Java!Spurious(t) BY <1>2, <3>1 DEF L!Java!Spurious
      <3>2. CASE L!Java!TimeOut(t) BY <1>2, <3>2 DEF L!Java!TimeOut
      <3>3. CASE L!Java!Loop(t) /\ passed' = passed
        <4>1. passed' # passed + 1 BY <1>2, <3>3
        <4> QED BY <1>2, <3>3, <4>1 DEF L!Java!Loop
      <3> QED BY <1>8, <3>1, <3>2, <3>3
    <2>2. Kept
      BY <1>3, <2>1 DEF Kept
    <2>3. L!State[t] = StateAfter(t)
      BY <1>4, <2>1 DEF StateAfter
    <2> QED BY <1>2, <1>4, <2>2, <2>3, PromiseKept
  <1>9. CASE (L!Java!Loop(t) \/ L!Java!Leave(t)) /\ passed' # passed
    <2>1. /\ pc[t] # "outside" /\ releasedCount >= 0
          /\ pc' = [pc EXCEPT ![t] = "outside"] /\ passed' = passed + 1
          /\ UNCHANGED <<releasedCount, timed, released>>
      <3>1. CASE L!Java!Loop(t) BY <1>2, <1>9, <3>1 DEF L!Java!Loop
      <3>2. CASE L!Java!Leave(t) BY <1>2, <1>9, <3>2 DEF L!Java!Leave
      <3> QED BY <1>9, <3>1, <3>2
    <2>2. pc'[t] = "outside"
      BY <1>2, <2>1
    <2>3. Taken
      BY <1>2, <1>3, <2>1, <2>2 DEF Taken
    <2> QED BY <1>2, <1>4, <2>2, <2>3, PromiseTaken DEF StateAfter
  <1>10. CASE L!Java!Leave(t) /\ passed' = passed
    <2>1. passed' # passed + 1
      BY <1>2, <1>10
    <2>2. /\ pc[t] = "expired" /\ releasedCount' = releasedCount + 1
          /\ pc' = [pc EXCEPT ![t] = "outside"] /\ UNCHANGED <<timed, released, passed>>
      BY <1>10, <2>1 DEF L!Java!Leave
    <2>3. pc'[t] = "outside"
      BY <1>2, <2>2
    <2>4. Kept
      BY <1>2, <1>3, <2>2, <2>3 DEF Kept
    <2>5. L!State[t] = "timed" /\ StateAfter(t) = "outside"
      <3>1. timed[t] /\ pc[t] # "outside" BY <1>2, <2>2
      <3> QED BY <1>4, <2>3, <3>1 DEF StateAfter
    <2> QED BY <1>2, <1>4, <2>4, <2>5, PromiseKept
  <1>11. \/ L!Java!Pass(t) \/ L!Java!Sleep(t) \/ L!Java!Spurious(t)
         \/ L!Java!TimeOut(t) \/ L!Java!Loop(t) \/ L!Java!Leave(t)
    BY DEF L!Java!Wait, L!Java!Step
  <1> QED BY ONLY <1>6, <1>7, <1>8, <1>9, <1>10, <1>11

(* A release adds one to what is left, and moves nobody out of wait().     *)
LEMMA ReleaseAlone ==
  ASSUME LockTypes, L!Alone, L!Permits \in Nat, L!OnCs(L!Cs!Release) \/ L!OnJava(L!Java!Release)
  PROVE  /\ use' = use /\ UNCHANGED <<passed, waitCount, myTicket>> /\ released' = released + 1
         /\ L!Permits' = L!Permits + 1 /\ L!Promise!Next
         /\ \A s \in Threads : pc'[s] = "outside" <=> pc[s] = "outside"
  <1>1. /\ use' = use /\ UNCHANGED <<timed, passed, waitCount, myTicket>> /\ released' = released + 1
        /\ use.target = "cs" => releaseCount' = releaseCount + 1 /\ releaseCount \in Nat /\ waitCount \in Nat
        /\ use.target # "cs" => releasedCount' = releasedCount + 1 /\ releasedCount \in Int
    BY DEF L!OnCs, L!OnJava, L!cs, L!java, L!AsUsed, L!Cs!Release, L!Cs!SetEvent, L!Java!Release,
           LockTypes, CsTypes, JavaTypes
  <1>2. \A s \in Threads : pc'[s] = "outside" <=> pc[s] = "outside"
    <2>1. CASE L!OnCs(L!Cs!Release)
      BY <2>1 DEF L!OnCs, L!Cs!Release, L!Cs!SetEvent, LockTypes, CsTypes
    <2>2. CASE L!OnJava(L!Java!Release)
      BY <2>2 DEF L!OnJava, L!Java!Release, L!Java!Notify, L!Java!Asleep, LockTypes, JavaTypes
    <2> QED BY <2>1, <2>2
  <1>3. L!Cs!Inside' = L!Cs!Inside /\ L!Java!Inside' = L!Java!Inside
    BY <1>2 DEF L!Cs!Inside, L!Java!Inside
  <1>4. L!Alone'
    BY <1>1 DEF L!Alone
  <1>5. L!Permits' = L!Permits + 1
    BY <1>1, <1>3, <1>4 DEF L!Permits, L!Cs!Permits, L!Java!Permits
  <1>6. L!State' = L!State
    BY <1>1, <1>2, <1>4 DEF L!State
  <1>7. L!Promise!Next
    BY <1>5, <1>6, PromiseSteps DEF L!Promise!Next
  <1> QED BY <1>1, <1>2, <1>5, <1>7

(* With several waiting threads nothing is promised.                       *)
LEMMA NotAlone ==
  ASSUME ~L!Alone, use' = use
  PROVE  UNCHANGED L!Promise!vars
  <1>1. ~L!Alone'
    BY DEF L!Alone
  <1> QED BY <1>1 DEF L!Promise!vars, L!Permits, L!State

LEMMA LockStep ==
  ASSUME LockTypes, AloneInv, [L!Next]_(L!vars)
  PROVE  LockTypes' /\ AloneInv' /\ [L!Promise!Next]_(L!Promise!vars)
  <1>1. CASE UNCHANGED L!vars
    <2>1. UNCHANGED <<use, waitCount, releaseCount, releaseEvent, myTicket, releasedCount, pc, timed,
                      released, passed>>
      BY <1>1 DEF L!vars, L!cs, L!java
    <2>2. L!Alone' = L!Alone /\ L!Permits' = L!Permits /\ L!State' = L!State
      BY <2>1 DEF L!Alone, L!Permits, L!State, L!Cs!Permits, L!Java!Permits, L!Cs!Inside, L!Java!Inside
    <2> QED BY <2>1, <2>2 DEF LockTypes, Users, CsTypes, JavaTypes, AloneInv, L!Promise!vars
  <1>2. CASE L!Next
    <2>1. LockTypes' /\ use' = use
      BY <1>2, LockTypesRelease, LockTypesCs, LockTypesJava DEF L!Next, L!OnCs, L!OnJava, L!AsUsed
    <2>2. L!Alone' <=> L!Alone
      BY <2>1 DEF L!Alone
    <2>3. CASE ~L!Alone
      BY <2>1, <2>2, <2>3, NotAlone DEF AloneInv
    <2>4. ASSUME L!Alone, L!OnCs(L!Cs!Release) \/ L!OnJava(L!Java!Release)
          PROVE  AloneInv' /\ L!Promise!Next
      <3>1. L!Permits \in Nat /\ L!Permits = released - passed /\ released \in Nat /\ passed \in Nat
        BY <2>4 DEF AloneInv, LockTypes, Users
      <3>2. /\ UNCHANGED <<passed, waitCount, myTicket>> /\ released' = released + 1
            /\ L!Permits' = L!Permits + 1 /\ L!Promise!Next
            /\ \A s \in Threads : pc'[s] = "outside" <=> pc[s] = "outside"
        BY <2>4, <3>1, ReleaseAlone
      <3>3. L!Permits' \in Nat /\ L!Permits' = released' - passed'
        BY <3>1, <3>2
      <3> QED BY <2>1, <2>4, <3>2, <3>3 DEF AloneInv
    <2>5. ASSUME L!Alone, NEW t \in use.users, L!OnCs(L!Cs!Wait(t)) \/ L!OnJava(L!Java!Wait(t))
          PROVE  AloneInv' /\ (L!Promise!Next \/ UNCHANGED L!Promise!vars)
      <3>1. L!Permits \in Nat /\ L!Permits = released - passed /\ released \in Nat /\ passed \in Nat
        BY <2>5 DEF AloneInv, LockTypes, Users
      <3>2. /\ Kept \/ Taken
            /\ L!Promise!Next \/ UNCHANGED L!Promise!vars
        BY <2>1, <2>5, CsAlone, JavaAlone
      <3>3. use.target = "cs" => \A s \in Threads : pc'[s] # "outside" => myTicket'[s] = waitCount' - 1
        BY <2>1, <2>5, CsAlone DEF L!OnJava
      <3>4. L!Permits' \in Nat /\ L!Permits' = released' - passed'
        BY <3>1, <3>2 DEF Kept, Taken
      <3> QED BY <2>1, <3>2, <3>3, <3>4 DEF AloneInv
    <2> QED BY <1>2, <2>1, <2>3, <2>4, <2>5 DEF L!Next
  <1> QED BY <1>1, <1>2

LEMMA LockInit == L!Init => LockTypes /\ AloneInv /\ L!Promise!Init
  <1> SUFFICES ASSUME L!Init PROVE AloneInv /\ L!Promise!Init
    BY LockTypesInit
  <1>1. /\ waitCount = 1 /\ releaseCount = 0 /\ releasedCount = 0 /\ released = 0 /\ passed = 0
        /\ \A t \in Threads : pc[t] = "outside"
    BY DEF L!Init, L!Cs!Init, L!Java!Init
  <1>2. L!Cs!Inside = {} /\ L!Java!Inside = {}
    BY <1>1 DEF L!Cs!Inside, L!Java!Inside
  <1>3. L!Permits = 0
    BY <1>1, <1>2 DEF L!Permits, L!Cs!Permits, L!Java!Permits
  <1>4. L!State = [t \in Threads |-> "outside"]
    BY <1>1 DEF L!State
  <1> QED BY <1>1, <1>3, <1>4 DEF AloneInv, L!Promise!Init

(* With one waiting thread, the tickets and the event of the C# Lock and   *)
(* the count of the Java Lock do nothing that Lock.hx does not promise.    *)
THEOREM LocksAreLocks == L!Spec => L!ActsAsLock
  <1>1. LockTypes /\ AloneInv /\ [L!Next]_(L!vars)
          => LockTypes' /\ AloneInv' /\ [L!Promise!Next]_(L!Promise!vars)
    BY LockStep
  <1> QED BY <1>1, LockInit, PTL DEF L!Spec, L!ActsAsLock

-----------------------------------------------------------------------------
(* Several waiting threads: what the counts stand for.                     *)
Inside == {t \in Threads : pc[t] # "outside"}

(* Java: a thread that enters or leaves wait() without a release moves the *)
(* count and the number of threads inside in opposite directions.          *)
CountFits ==
  use.target = "java" =>
    /\ releasedCount = released - passed - Cardinality(Inside)
    /\ passed <= released

(* C#: without time-outs every ticket that was handed out is used or held, *)
(* and each one that is not released yet is held by a thread of its own.   *)
TicketsFit ==
  use.target = "cs" /\ ~use.timeouts =>
    /\ releaseCount = released
    /\ passed = waitCount - 1 - Cardinality(Inside)
    /\ \A k \in releaseCount + 1 .. waitCount - 1 : \E t \in Inside : myTicket[t] = k

CountInv == IsFiniteSet(Inside) /\ CountFits /\ TicketsFit

(* The threads inside, when one of them moves.                             *)
LEMMA InsideThen ==
  ASSUME NEW t \in Threads, IsFiniteSet(Inside),
         \A s \in Threads : s # t => (pc'[s] = "outside" <=> pc[s] = "outside")
  PROVE  /\ IsFiniteSet(Inside) /\ IsFiniteSet(Inside')
         /\ Cardinality(Inside) \in Nat /\ Cardinality(Inside') \in Nat
         /\ pc[t] = "outside" /\ pc'[t] # "outside" => Cardinality(Inside') = Cardinality(Inside) + 1
         /\ pc[t] # "outside" /\ pc'[t] = "outside" => Cardinality(Inside') = Cardinality(Inside) - 1
         /\ (pc[t] = "outside" <=> pc'[t] = "outside") => Inside' = Inside
  <1>1. Inside' = IF pc'[t] = "outside" THEN Inside \ {t} ELSE Inside \cup {t}
    BY DEF Inside
  <1>2. t \in Inside <=> pc[t] # "outside"
    BY DEF Inside
  <1>3. /\ IsFiniteSet(Inside \ {t}) /\ IsFiniteSet(Inside \cup {t})
        /\ Cardinality(Inside \ {t}) = IF t \in Inside THEN Cardinality(Inside) - 1 ELSE Cardinality(Inside)
        /\ Cardinality(Inside \cup {t}) = IF t \in Inside THEN Cardinality(Inside) ELSE Cardinality(Inside) + 1
    BY FS_RemoveElement, FS_AddElement
  <1>4. Cardinality(Inside) \in Nat /\ IsFiniteSet(Inside') /\ Cardinality(Inside') \in Nat
    BY <1>1, <1>3, FS_CardinalityType
  <1>5. (pc[t] = "outside" <=> pc'[t] = "outside") => Inside' = Inside
    BY <1>1, <1>2
  <1>6. pc[t] = "outside" /\ pc'[t] # "outside" => Cardinality(Inside') = Cardinality(Inside) + 1
    BY <1>1, <1>2, <1>3
  <1>7. pc[t] # "outside" /\ pc'[t] = "outside" => Cardinality(Inside') = Cardinality(Inside) - 1
    BY <1>1, <1>2, <1>3
  <1> QED BY <1>4, <1>5, <1>6, <1>7

(* Tickets a .. b that are each held: there are as many holders.           *)
LEMMA Holders ==
  ASSUME NEW S, IsFiniteSet(S), NEW a \in Int, NEW b \in Int, NEW f,
         \A k \in a .. b : \E t \in S : f[t] = k
  PROVE  b - a + 1 <= Cardinality(S)
  <1> DEFINE holder == [k \in a .. b |-> CHOOSE t \in S : f[t] = k]
  <1>1. holder \in [a .. b -> S] /\ \A k \in a .. b : f[holder[k]] = k
    OBVIOUS
  <1>2. IsFiniteSet(a .. b) /\ Cardinality(a .. b) = IF a > b THEN 0 ELSE b - a + 1
    BY FS_Interval
  <1>3. Cardinality(S) \in Nat
    BY FS_CardinalityType
  <1>4. ~ Cardinality(S) < Cardinality(a .. b)
    <2> SUFFICES ASSUME Cardinality(S) < Cardinality(a .. b) PROVE FALSE
      OBVIOUS
    <2> HIDE DEF holder
    <2>1. \E x, y \in a .. b : x # y /\ holder[x] = holder[y]
      BY <1>1, <1>2, FS_PigeonHole
    <2> QED BY <1>1, <2>1
  <1> QED BY <1>2, <1>3, <1>4

LEMMA CountInit == L!Init => CountInv
  <1> SUFFICES ASSUME L!Init PROVE CountInv
    OBVIOUS
  <1>1. /\ waitCount = 1 /\ releaseCount = 0 /\ releasedCount = 0 /\ released = 0 /\ passed = 0
        /\ \A t \in Threads : pc[t] = "outside"
    BY DEF L!Init, L!Cs!Init, L!Java!Init
  <1>2. Inside = {} /\ IsFiniteSet(Inside) /\ Cardinality(Inside) = 0
    BY <1>1, FS_EmptySet DEF Inside
  <1> QED BY <1>1, <1>2 DEF CountInv, CountFits, TicketsFit

LEMMA CountRelease ==
  ASSUME LockTypes, CountInv, L!OnCs(L!Cs!Release) \/ L!OnJava(L!Java!Release)
  PROVE  CountInv'
  <1>1. /\ UNCHANGED <<use, passed, waitCount, myTicket>> /\ released' = released + 1
        /\ use.target = "cs" => releaseCount' = releaseCount + 1
        /\ use.target = "java" => releasedCount' = releasedCount + 1
    BY DEF L!OnCs, L!OnJava, L!cs, L!java, L!AsUsed, L!Cs!Release, L!Cs!SetEvent, L!Java!Release
  <1>2. \A s \in Threads : pc'[s] = "outside" <=> pc[s] = "outside"
    <2>1. CASE L!OnCs(L!Cs!Release)
      BY <2>1 DEF L!OnCs, L!Cs!Release, L!Cs!SetEvent, LockTypes, CsTypes
    <2>2. CASE L!OnJava(L!Java!Release)
      BY <2>2 DEF L!OnJava, L!Java!Release, L!Java!Notify, L!Java!Asleep, LockTypes, JavaTypes
    <2> QED BY <2>1, <2>2
  <1>3. Inside' = Inside /\ IsFiniteSet(Inside) /\ Cardinality(Inside) \in Nat
    BY <1>2, FS_CardinalityType DEF Inside, CountInv
  <1>4. /\ released \in Nat /\ passed \in Nat
        /\ use.target = "cs" => releaseCount \in Nat /\ waitCount \in Nat
        /\ use.target = "java" => releasedCount \in Int
    BY DEF LockTypes, Users, CsTypes, JavaTypes
  <1>5. CountFits'
    BY <1>1, <1>3, <1>4 DEF CountInv, CountFits
  <1>6. TicketsFit'
    <2> SUFFICES ASSUME use.target = "cs", ~use.timeouts
                 PROVE  /\ releaseCount' = released'
                        /\ passed' = waitCount' - 1 - Cardinality(Inside')
                        /\ \A k \in releaseCount' + 1 .. waitCount' - 1 : \E t \in Inside' : myTicket'[t] = k
      BY <1>1 DEF TicketsFit
    <2>1. \A k \in releaseCount' + 1 .. waitCount' - 1 : k \in releaseCount + 1 .. waitCount - 1
      BY <1>1, <1>4
    <2> QED BY <1>1, <1>3, <2>1 DEF CountInv, TicketsFit
  <1> QED BY <1>3, <1>5, <1>6 DEF CountInv

LEMMA CountJava ==
  ASSUME LockTypes, CountInv, NEW t \in use.users, L!OnJava(L!Java!Wait(t))
  PROVE  CountInv'
  <1>1. use.target = "java" /\ use' = use
    BY DEF L!OnJava, L!AsUsed
  <1>2. /\ t \in Threads /\ releasedCount \in Int /\ passed \in Nat /\ released \in Nat
        /\ pc \in [Threads -> {"outside", "asleep", "awake", "expired"}]
    BY <1>1 DEF LockTypes, JavaTypes, Users
  <1>3. /\ releasedCount = released - passed - Cardinality(Inside) /\ passed <= released
        /\ IsFiniteSet(Inside)
    BY <1>1 DEF CountInv, CountFits
  <1>4. SUFFICES ASSUME TRUE
                 PROVE  /\ IsFiniteSet(Inside')
                        /\ releasedCount' = released' - passed' - Cardinality(Inside')
                        /\ passed' <= released'
    BY <1>1 DEF CountInv, CountFits, TicketsFit
  <1>5. UNCHANGED released /\ \A s \in Threads : s # t => pc'[s] = pc[s]
    BY <1>2 DEF L!OnJava, L!Java!Wait, L!Java!Step, L!Java!Pass, L!Java!Sleep, L!Java!Spurious,
                L!Java!TimeOut, L!Java!Loop, L!Java!Leave
  <1>6. /\ IsFiniteSet(Inside') /\ Cardinality(Inside) \in Nat /\ Cardinality(Inside') \in Nat
        /\ pc[t] = "outside" /\ pc'[t] # "outside" => Cardinality(Inside') = Cardinality(Inside) + 1
        /\ pc[t] # "outside" /\ pc'[t] = "outside" => Cardinality(Inside') = Cardinality(Inside) - 1
        /\ (pc[t] = "outside" <=> pc'[t] = "outside") => Inside' = Inside
    BY <1>2, <1>3, <1>5, InsideThen
  <1>7. \/ /\ releasedCount > 0 /\ releasedCount' = releasedCount - 1 /\ passed' = passed + 1
           /\ Inside' = Inside
        \/ /\ releasedCount' = releasedCount - 1 /\ passed' = passed
           /\ Cardinality(Inside') = Cardinality(Inside) + 1
        \/ /\ releasedCount' = releasedCount /\ passed' = passed /\ Inside' = Inside
        \/ /\ releasedCount >= 0 /\ releasedCount' = releasedCount /\ passed' = passed + 1
           /\ Cardinality(Inside') = Cardinality(Inside) - 1 /\ t \in Inside
        \/ /\ releasedCount' = releasedCount + 1 /\ passed' = passed
           /\ Cardinality(Inside') = Cardinality(Inside) - 1
    <2>1. CASE L!Java!Pass(t)
      BY <1>2, <1>6, <2>1 DEF L!Java!Pass, L!Java!CanWait
    <2>2. CASE L!Java!Sleep(t)
      <3>1. pc[t] = "outside" /\ pc'[t] # "outside"
        BY <1>2, <2>2 DEF L!Java!Sleep, L!Java!CanWait
      <3> QED BY <1>6, <2>2, <3>1 DEF L!Java!Sleep
    <2>3. CASE L!Java!Spurious(t)
      <3>1. pc[t] # "outside" /\ pc'[t] # "outside"
        BY <1>2, <2>3 DEF L!Java!Spurious
      <3> QED BY <1>6, <2>3, <3>1 DEF L!Java!Spurious
    <2>4. CASE L!Java!TimeOut(t)
      <3>1. pc[t] # "outside" /\ pc'[t] # "outside"
        BY <1>2, <2>4 DEF L!Java!TimeOut
      <3> QED BY <1>6, <2>4, <3>1 DEF L!Java!TimeOut
    <2>5. CASE L!Java!Loop(t)
      <3>1. CASE releasedCount < 0
        <4>1. pc[t] # "outside" /\ pc'[t] # "outside"
          BY <1>2, <2>5, <3>1 DEF L!Java!Loop
        <4> QED BY <1>6, <2>5, <3>1, <4>1 DEF L!Java!Loop
      <3>2. CASE releasedCount >= 0
        <4>1. pc[t] # "outside" /\ pc'[t] = "outside" /\ passed' = passed + 1 /\ t \in Inside
          BY <1>2, <2>5, <3>2 DEF L!Java!Loop, Inside
        <4> QED BY <1>6, <2>5, <3>2, <4>1 DEF L!Java!Loop
      <3> QED BY <1>2, <3>1, <3>2
    <2>6. CASE L!Java!Leave(t)
      <3>1. pc[t] # "outside" /\ pc'[t] = "outside" /\ t \in Inside
        BY <1>2, <2>6 DEF L!Java!Leave, Inside
      <3>2. CASE releasedCount >= 0
        BY <1>6, <2>6, <3>1, <3>2 DEF L!Java!Leave
      <3>3. CASE ~ releasedCount >= 0
        BY <1>6, <2>6, <3>1, <3>3 DEF L!Java!Leave
      <3> QED BY <3>2, <3>3
    <2> QED BY <2>1, <2>2, <2>3, <2>4, <2>5, <2>6 DEF L!OnJava, L!Java!Wait, L!Java!Step
  <1>8. t \in Inside => Cardinality(Inside) # 0
    BY <1>3, FS_EmptySet
  <1> QED BY <1>2, <1>3, <1>5, <1>6, <1>7, <1>8

LEMMA CountCs ==
  ASSUME LockTypes, CountInv, NEW t \in use.users, L!OnCs(L!Cs!Wait(t))
  PROVE  CountInv'
  <1>1. use.target = "cs" /\ use' = use
    BY DEF L!OnCs, L!AsUsed
  <1>2. /\ t \in Threads /\ waitCount \in Nat /\ releaseCount \in Nat /\ passed \in Nat
        /\ pc \in [Threads -> {"outside", "queued", "waiting", "woken", "expired"}]
        /\ myTicket \in [Threads -> Nat]
        /\ ~use.timeouts => \A s \in Threads : pc[s] # "expired"
    BY <1>1 DEF LockTypes, CsTypes, Users
  <1>3. IsFiniteSet(Inside)
    BY DEF CountInv
  <1>4. \A s \in Threads : s # t => (pc'[s] = "outside" <=> pc[s] = "outside")
    <2>1. CASE L!Cs!Pass(t) BY <2>1 DEF L!Cs!Pass, L!Cs!call
    <2>2. CASE L!Cs!Leave(t) BY <1>2, <2>2 DEF L!Cs!Leave, L!Cs!SetEvent
    <2>3. CASE L!Cs!Queue(t) \/ L!Cs!TimeOut(t) \/ L!Cs!WaitOne(t) \/ L!Cs!Check(t)
      BY <1>2, <2>3 DEF L!Cs!Queue, L!Cs!TimeOut, L!Cs!WaitOne, L!Cs!Check
    <2> QED BY <2>1, <2>2, <2>3 DEF L!OnCs, L!Cs!Wait, L!Cs!Step
  <1>5. /\ IsFiniteSet(Inside') /\ Cardinality(Inside) \in Nat /\ Cardinality(Inside') \in Nat
        /\ pc[t] = "outside" /\ pc'[t] # "outside" => Cardinality(Inside') = Cardinality(Inside) + 1
        /\ pc[t] # "outside" /\ pc'[t] = "outside" => Cardinality(Inside') = Cardinality(Inside) - 1
        /\ (pc[t] = "outside" <=> pc'[t] = "outside") => Inside' = Inside
    BY <1>2, <1>3, <1>4, InsideThen
  <1>6. SUFFICES ASSUME ~use.timeouts
                 PROVE  /\ releaseCount' = released'
                        /\ passed' = waitCount' - 1 - Cardinality(Inside')
                        /\ \A k \in releaseCount' + 1 .. waitCount' - 1 : \E s \in Inside' : myTicket'[s] = k
    BY <1>1, <1>5 DEF CountInv, CountFits, TicketsFit
  <1>7. /\ releaseCount = released /\ passed = waitCount - 1 - Cardinality(Inside)
        /\ \A k \in releaseCount + 1 .. waitCount - 1 : \E s \in Inside : myTicket[s] = k
    BY <1>1, <1>6 DEF CountInv, TicketsFit
  <1>8. CASE L!Cs!Pass(t)
    <2>1. /\ waitCount <= releaseCount /\ waitCount' = waitCount + 1 /\ passed' = passed + 1
          /\ UNCHANGED <<releaseCount, released, pc>>
      BY <1>8 DEF L!Cs!Pass, L!Cs!CanWait, L!Cs!call
    <2>2. Cardinality(Inside') = Cardinality(Inside)
      BY <1>5, <2>1
    <2>3. passed' = waitCount' - 1 - Cardinality(Inside')
      BY <1>2, <1>5, <1>7, <2>1, <2>2
    <2>4. \A k \in releaseCount' + 1 .. waitCount' - 1 : FALSE
      BY <1>2, <2>1
    <2> QED BY <1>7, <2>1, <2>3, <2>4
  <1>9. CASE L!Cs!Queue(t)
    <2>1. /\ pc[t] = "outside" /\ waitCount' = waitCount + 1
          /\ myTicket' = [myTicket EXCEPT ![t] = waitCount] /\ pc' = [pc EXCEPT ![t] = "queued"]
          /\ UNCHANGED <<releaseCount, released, passed>>
      BY <1>9 DEF L!Cs!Queue, L!Cs!CanWait
    <2>2. pc'[t] # "outside"
      BY <1>2, <2>1
    <2>3. Cardinality(Inside') = Cardinality(Inside) + 1
      BY <1>5, <2>1, <2>2
    <2>4. passed' = waitCount' - 1 - Cardinality(Inside')
      BY <1>2, <1>5, <1>7, <2>1, <2>3
    <2>5. ASSUME NEW k \in releaseCount' + 1 .. waitCount' - 1
          PROVE  \E s \in Inside' : myTicket'[s] = k
      <3>1. k = waitCount \/ k \in releaseCount + 1 .. waitCount - 1
        BY <1>2, <2>1
      <3>2. CASE k = waitCount
        BY <1>2, <2>1, <2>2, <3>2 DEF Inside
      <3>3. CASE k \in releaseCount + 1 .. waitCount - 1
        <4>1. PICK s \in Inside : myTicket[s] = k
          BY <1>7, <3>3
        <4>2. s \in Inside' /\ s # t
          BY <1>4, <2>1, <4>1 DEF Inside
        <4> QED BY <1>2, <2>1, <4>1, <4>2 DEF Inside
      <3> QED BY <3>1, <3>2, <3>3
    <2> QED BY <1>7, <2>1, <2>4, <2>5
  <1>10. CASE L!Cs!TimeOut(t) \/ L!Cs!WaitOne(t) \/ (L!Cs!Check(t) /\ ~ myTicket[t] <= releaseCount)
    <2>1. /\ pc[t] # "outside" /\ pc'[t] # "outside"
          /\ UNCHANGED <<waitCount, releaseCount, myTicket, released, passed>>
      <3>1. CASE L!Cs!TimeOut(t) BY <1>2, <3>1 DEF L!Cs!TimeOut, L!Cs!lock
      <3>2. CASE L!Cs!WaitOne(t) BY <1>2, <3>2 DEF L!Cs!WaitOne, L!Cs!lock
      <3>3. CASE L!Cs!Check(t) /\ ~ myTicket[t] <= releaseCount
        BY <1>2, <3>3 DEF L!Cs!Check, L!Cs!lock
      <3> QED BY <1>10, <3>1, <3>2, <3>3
    <2>2. Inside' = Inside
      BY <1>5, <2>1
    <2> QED BY <1>7, <2>1, <2>2
  <1>11. CASE L!Cs!Check(t) /\ myTicket[t] <= releaseCount
    <2>1. /\ pc[t] # "outside" /\ pc'[t] = "outside" /\ passed' = passed + 1
          /\ UNCHANGED <<waitCount, releaseCount, myTicket, released>>
      BY <1>2, <1>11 DEF L!Cs!Check, L!Cs!lock
    <2>2. passed' = waitCount' - 1 - Cardinality(Inside')
      BY <1>2, <1>5, <1>7, <2>1
    <2>3. ASSUME NEW k \in releaseCount' + 1 .. waitCount' - 1
          PROVE  \E s \in Inside' : myTicket'[s] = k
      <3>1. PICK s \in Inside : myTicket[s] = k
        BY <1>7, <2>1
      <3>2. s # t
        BY <1>2, <1>11, <2>1, <3>1
      <3>3. s \in Inside'
        BY <1>4, <3>1, <3>2 DEF Inside
      <3> QED BY <2>1, <3>1, <3>3
    <2> QED BY <1>7, <2>1, <2>2, <2>3
  <1>12. ~L!Cs!Leave(t)
    BY <1>2, <1>6 DEF L!Cs!Leave
  <1>13. \/ L!Cs!Pass(t) \/ L!Cs!Queue(t) \/ L!Cs!TimeOut(t)
         \/ L!Cs!WaitOne(t) \/ L!Cs!Check(t) \/ L!Cs!Leave(t)
    BY DEF L!OnCs, L!Cs!Wait, L!Cs!Step
  <1> QED BY <1>8, <1>9, <1>10, <1>11, <1>12, <1>13

LEMMA CountStep ==
  ASSUME LockTypes, CountInv, [L!Next]_(L!vars)
  PROVE  CountInv'
  <1>1. CASE UNCHANGED L!vars
    <2>1. UNCHANGED <<use, waitCount, releaseCount, myTicket, releasedCount, pc, released, passed>>
      BY <1>1 DEF L!vars, L!cs, L!java
    <2> QED BY <2>1 DEF CountInv, CountFits, TicketsFit, Inside
  <1> QED BY <1>1, CountRelease, CountJava, CountCs DEF L!Next

LEMMA NoneFree ==
  ASSUME LockTypes, AloneInv, CountInv
  PROVE  L!NoFreePass
  <1>1. released \in Nat /\ passed \in Nat /\ use.target \in {"cs", "java"}
    BY DEF LockTypes, Users
  <1>2. CASE use.target = "java"
    BY <1>2 DEF CountInv, CountFits, L!NoFreePass, L!OneWaitPerRelease
  <1>3. CASE L!Alone
    <2>1. released - passed \in Nat
      BY <1>3 DEF AloneInv
    <2> QED BY <1>1, <2>1 DEF L!NoFreePass, L!OneWaitPerRelease
  <1>4. CASE use.target = "cs" /\ ~use.timeouts
    <2>1. /\ releaseCount = released /\ passed = waitCount - 1 - Cardinality(Inside)
          /\ \A k \in releaseCount + 1 .. waitCount - 1 : \E t \in Inside : myTicket[t] = k
          /\ IsFiniteSet(Inside) /\ waitCount \in Nat
      BY <1>4 DEF CountInv, TicketsFit, LockTypes, CsTypes
    <2>2. Cardinality(Inside) \in Nat
      BY <2>1, FS_CardinalityType
    <2>3. (waitCount - 1) - (releaseCount + 1) + 1 <= Cardinality(Inside)
      <3>1. releaseCount + 1 \in Int /\ waitCount - 1 \in Int
        BY <1>1, <2>1
      <3> QED BY <2>1, <3>1, Holders
    <2>4. passed <= released
      BY <1>1, <2>1, <2>2, <2>3
    <2> QED BY <2>4 DEF L!NoFreePass, L!OneWaitPerRelease
  <1> QED BY <1>1, <1>2, <1>3, <1>4 DEF L!NoFreePass

(* No more waits return true than there were releases: on Java in every    *)
(* program, on C# with one waiting thread or without time-outs.            *)
THEOREM NoWaitIsFree == L!Spec => []L!NoFreePass
  <1>1. L!Init => LockTypes /\ AloneInv /\ CountInv
    BY LockInit, CountInit
  <1>2. LockTypes /\ AloneInv /\ CountInv /\ [L!Next]_(L!vars) => LockTypes' /\ AloneInv' /\ CountInv'
    BY LockStep, CountStep
  <1>3. LockTypes /\ AloneInv /\ CountInv => L!NoFreePass
    BY NoneFree
  <1> QED BY <1>1, <1>2, <1>3, PTL DEF L!Spec
=============================================================================
